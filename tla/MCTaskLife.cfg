SPECIFICATION FairLife
CONSTANTS
    Cpu = {c1, c2}
    NPROC = 3
    tq = tq
    Lock = {tq}
    tstub = tstub
    Chan = {tstub, 0, 1, 2}
    None = None
INVARIANTS NoLostExit Family
PROPERTY WaitReturns
