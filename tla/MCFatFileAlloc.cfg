SPECIFICATION Spec
CONSTANTS
    f1 = f1
    f2 = f2
    o1 = o1
    o2 = o2
    o3 = o3
    A = A
    Zero = Zero
    Idle = Idle
    Files <- TwoFiles
    Opens <- ThreeOpens
    FileOf <- WhichFile
    Byte <- OneByte
    OnDisk <- LongChains
    FATSz = 2
    PerSec = 32
    DataClusCnt = 40
    BytSPerClus = 2
    RootClus = 2
    AtMark <- NoSector
    MaxSize = 6
    MaxCall = 2
CHECK_DEADLOCK FALSE
PROPERTY AllocatedWasFree
