SPECIFICATION Spec
CONSTANTS
    Thread = {t1, t2, t3}
    Buf = {b1, b2}
    Block = {k1, k2, k3}
    Val = {0, 1}
    None = None
SYMMETRY Symmetry
INVARIANTS BufferTable NoMisuse
PROPERTY ImplementsBlockStore
CHECK_DEADLOCK FALSE
