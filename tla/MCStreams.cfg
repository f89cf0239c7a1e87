SPECIFICATION StreamsSpec
CONSTANTS
    Reader = {r1, r2}
    Writer = {w1, w2}
    Byte = {0, 1}
    PIPE_SIZE = 2
    U32 = 4
    MaxLen = 3
    None = None
    CReader = {"c1", "c2"}
    CWriter = {"t1", "t2"}
    Key = {"a", "1", "NL", "BACKSPACE", "ESC", "CTRL_N", "CTRL_D"}
    CONSOLE_BUFFER_SIZE = 3
    TB = 2
    TX = 2
    Ask = {1, 3}
    Session <- MCSession
SYMMETRY Symmetry
VIEW View
INVARIANTS SleepersJustified LineKept ReadersWoken OutputIntact
PROPERTY ImplementsFifo
