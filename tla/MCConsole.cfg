SPECIFICATION Spec
CONSTANTS
    t1 = t1
    t2 = t2
    a = a
    NL = NL
    EOT = EOT
    Nobody = Nobody
    Reader <- TwoReaders
    Key <- ThreeKeys
    Zero = a
    INPUT_BUF = 3
    UintRange = 6
    MaxCall = 2
INVARIANTS
    NoLostWakeup
    FullIsReadable
PROPERTY IsLineQueue
