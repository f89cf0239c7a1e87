SPECIFICATION SLSpec
CONSTANTS
    Cpu = {c1, c2}
    NPROC = 2
    tq = tq
    Lock = {tq}
    tstub = tstub
    slk = slk
    Chan = {tstub, slk}
    None = None
INVARIANTS
    NoSleeperOnFreeLock
