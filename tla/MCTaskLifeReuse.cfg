SPECIFICATION LifeSpec
CONSTANTS
    Cpu = {c1, c2}
    NPROC = 2
    tq = tq
    Lock = {tq}
    tstub = tstub
    Chan = {tstub, 0, 1}
    None = None
INVARIANT SwitchedOutBeforeReuse
