SPECIFICATION Spec
CONSTANTS
    Depth = 4
    Reserved = 5
    NoBlock = NoBlock
    Requests <- SomeSizes
INVARIANTS
    BitmapExact
PROPERTY IsPageAllocator
