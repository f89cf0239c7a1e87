SPECIFICATION CallsSpec
CONSTANTS
    BSIZE = 4
    U32 = 2
    DENT = 3
    NDIRECT = 2
    NINDIRECT = 2
    NINODE = 4
    NDINODE = 10
    NBLOCK = 12
    SECTION = 8
    U64 = 1
    Task = {1, 2}
    NFILE = 3
    NOPEN = 7
    NPIPE = 1
    I8 = 5
    Load <- MCLoad
    Image <- MCImage
    Asked <- MCAsked
    PHY_MEMORY = 128
    PHY_TOP = 184
    KEND = 131
    trampoline = 129
    FAN = 8
    NSLOT = 3
    Room <- MemRoom
    NPROC = 4
    BITS = 4
    WORD = 2
    STACK = 1
    Program <- MemProgram
    Exe = {"ed", "top", "none"}
    Mix = {"tasks", "heap", "heirs"}
    Made <- MemMade
    MaxCalls <- MemMaxCalls
VIEW View
INVARIANTS
    ImageComplete
    BlocksAccounted
    NamesLive
    RefsHeld
    FilesCounted
    CacheIsDisk
    TextRight
    PagesPartitioned
    AddressSpaces
    SlotsCounted
    TidsDistinct
CHECK_DEADLOCK FALSE
