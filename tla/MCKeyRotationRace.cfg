CONSTANTS
    c1 = c1
    c2 = c2
    s1 = s1
    Callers <- MCCallers
    Signers <- MCSigners
    Lifetime = 2
    SignDelay = 1
    RotateEvery = 3
    MergeKeys = FALSE
    MaxTime = 6
    MaxKey = 3
    MaxTokens = 2
SYMMETRY MCSymmetry
SPECIFICATION SpecOneProcess
INVARIANTS
    LiveTokenKeyFound
