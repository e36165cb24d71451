SPECIFICATION Spec
CONSTANTS
    t1 = t1
    t2 = t2
    notes = notes
    docs = docs
    Tasks <- TwoTasks
    InitTask = t1
    ENTRY_CACHE_NUM = 2
    Name <- Names
    NoName = NoName
    Dirs <- ThreeDirs
    RootClus = 2
    DataClus = 9
    Places <- TwoPlaces
    Mounted <- Tree
    Nobody = Nobody
    SYSOFILENUM = 3
    PROCOFILENUM = 2
    Std = 1
    Program <- SomeCalls
    Others <- SomeOthers
CHECK_DEADLOCK FALSE
INVARIANTS
    CountsExact
    OneEntryPerName
    Coherent
    FileCounts
    LockedIsCounted
