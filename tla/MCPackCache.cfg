CONSTANTS
    Scanners = {s1, s2}
    MaxVersion = 2
    Truncating = TRUE
SPECIFICATION FairSpec
INVARIANTS
    NeverHalfAPack
PROPERTIES
    AloneIsCorrect
    CacheCatchesUp
