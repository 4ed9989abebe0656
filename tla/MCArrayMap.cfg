CONSTANTS
    s1 = s1
    s2 = s2
    s3 = s3
    s4 = s4
    empty = empty
    Empty = empty
    StrKeys <- MCStrKeys
    IntKeys <- MCIntKeys
    HashOf <- MCHashOf
    InitialCap = 4
    Threshold = 2
    MaxLength = 3
    MaxCap = 8
    MaxOps = 8
SPECIFICATION Spec
INVARIANTS
    TypeOK
    InsertsEnd
    KeysDistinct
    IndexAgrees
PROPERTY
    MeansMap
CHECK_DEADLOCK FALSE
