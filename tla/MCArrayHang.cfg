CONSTANTS
    s1 = s1
    s2 = s2
    s3 = s3
    s4 = s4
    empty = empty
    Empty = empty
    StrKeys <- HangStrKeys
    IntKeys <- HangIntKeys
    HashOf <- HangHashOf
    InitialCap = 4
    Threshold = 2
    MaxLength = 3
    MaxCap = 8
    MaxOps = 8
SPECIFICATION Spec
INVARIANT
    LookupsEnd
CHECK_DEADLOCK FALSE
