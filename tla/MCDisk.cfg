SPECIFICATION Spec
CONSTANTS
    Thread = {t1, t2}
    Buf = {b1, b2}
    Val = {0, 1}
    NUM = 7
    IDX = 14
    None = None
SYMMETRY Symmetry
VIEW View
INVARIANTS DescriptorsPartitioned DeviceSeesLive Transferred RingsHold
