SPECIFICATION Spec
CONSTANTS
    Cpu = {c1, c2}
    NLock = 2
    None = None
INVARIANTS
    NoInterruptInCritical
    NoPanic
PROPERTIES
    ImplementsMutex
