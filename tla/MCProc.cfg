SPECIFICATION Spec
CONSTANTS
    NR_TASKS = 3
    MaxCounter = 2
    MaxNap = 1
    AnyChild = AnyChild
    NoOwner = NoOwner
    NoChan = NoChan
    tty = tty
    disk = disk
    Channels <- BothChannels
    WaitPids <- AllPids
    Workload <- EveryCall
CHECK_DEADLOCK FALSE
INVARIANTS
    TypeOK
    ParentsLive
    NoLostExit
    SleeperHoldsLock
    CurrentReady
PROPERTY WorkConserving
