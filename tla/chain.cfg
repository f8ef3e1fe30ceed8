SPECIFICATION Spec
CONSTANTS
    Values = {v1, v2}
    NoValue = none
    MaxEvents = 4
    MaxClock = 2
    CreateSkew = {0, 1}
SYMMETRY ValueSymmetry
INVARIANTS
    TypeOK
    ReplayMeansTheChain
    OnlyASplitCreateFailsToLoad
    SavedKeysAgree
PROPERTIES
    FailureIsFinal
    RevokedForGood
