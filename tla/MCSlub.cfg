SPECIFICATION Spec
CONSTANTS
    Depth = 3
    Reserved = 1
    NoBlock = NoBlock
    Requests <- SomeSizes
    c1 = c1
    Caches <- OneCache
    PagesPerSlub = 2
    PerPage = 2
    MinPartial = 1
    PageArray = 1
    STRUCTURE_SIZE = 1
    MaxTables = 1
CHECK_DEADLOCK FALSE
INVARIANTS
    ObjectsAccounted
    SlabCounts
    PagesAccounted
