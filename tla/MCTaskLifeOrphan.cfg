SPECIFICATION LifeSpec
CONSTANTS
    Cpu = {c1}
    NPROC = 4
    tq = tq
    Lock = {tq}
    tstub = tstub
    Chan = {tstub, 0, 1, 2, 3}
    None = None
INVARIANT OrphansReachInit
