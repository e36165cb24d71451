SPECIFICATION FairSpec
CONSTANTS
    p1 = p1
    p2 = p2
    p3 = p3
    p4 = p4
    Idle = Idle
    NoDesc = NoDesc
    NoBuf = NoBuf
    NUM = 8
    Tasks <- FourTasks
PROPERTY TransfersFinish
