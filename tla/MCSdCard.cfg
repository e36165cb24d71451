SPECIFICATION Spec
CONSTANTS
    t1 = t1
    t2 = t2
    Nobody = Nobody
    NoCall = NoCall
    Tasks <- TwoTasks
    Sectors <- TwoSectors
    Blocks <- TwoBlocks
    FirmwarePins <- TwoPins
    BSIZE = 2
    Tries = 3
CHECK_DEADLOCK FALSE
INVARIANTS
    ProtocolKept
    DmaOwned
    NoLostWakeup
PROPERTIES
    IsSectorStore
