SPECIFICATION Spec
CONSTANTS
    w1 = w1
    w2 = w2
    r1 = r1
    r2 = r2
    a = a
    b = b
    Nobody = Nobody
    Writers <- TwoWriters
    Readers <- TwoReaders
    Byte <- TwoBytes
    Zero = a
    PIPESIZE = 2
    UintRange = 4
    MaxCall = 3
    MaxSent = 4
CHECK_DEADLOCK FALSE
INVARIANTS
    TypeOK
    NoLostWakeup
PROPERTY IsFifo
