SPECIFICATION Spec
CONSTANTS
    Cpu = {c1, c2}
    NPROC = 3
    tq = tq
    Lock = {tq, lk}
    tstub = tstub
    Chan = {tstub, ch}
    None = None
SYMMETRY Symmetry
INVARIANTS
    OneCpuPerTask
    StateTellsTruth
    NoLostWakeup
    NoPanic
PROPERTIES
    SwitchInCritical
