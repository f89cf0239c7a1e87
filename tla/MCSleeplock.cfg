SPECIFICATION FairSpec
CONSTANTS
    Cpu = {c1, c2}
    NPROC = 3
    tq = tq
    Lock = {tq}
    tstub = tstub
    slk = slk
    Chan = {tstub, slk}
    None = None
INVARIANTS
    SleepMutex
    SleepNoPanic
PROPERTIES
    FreeLockTaken
