SPECIFICATION Spec
CONSTANTS
    p1 = p1
    p2 = p2
    p3 = p3
    b1 = b1
    b2 = b2
    k1 = k1
    k2 = k2
    k3 = k3
    v1 = v1
    v2 = v2
    Nobody = Nobody
    NoBuf = NoBuf
    NoBlock = NoBlock
    Tasks <- ThreeTasks
    Bufs <- TwoBufs
    Blocks <- ThreeBlocks
    Values <- TwoValues
    InitialValue = v1
    FirstOrder <- BuiltOrder
SYMMETRY TaskSymmetry
CHECK_DEADLOCK FALSE
INVARIANTS
    TypeOK
    OneBufferPerBlock
    ExclusiveUse
    CountIsUsers
    ListComplete
    WrittenThrough
    NoLostWakeup
PROPERTY IsBlockStore
