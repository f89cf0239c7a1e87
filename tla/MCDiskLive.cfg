SPECIFICATION FairSpec
CONSTANTS
    Thread = {t1, t2, t3}
    Buf = {b1, b2, b3}
    Val = {0}
    NUM = 4
    IDX = 8
    None = None
INVARIANT NoSleeperOnFreeDescriptors
PROPERTY RequestReturns
