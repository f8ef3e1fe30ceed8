SPECIFICATION Spec
CONSTANTS
    Values = {v1}
    NoValue = none
    MaxEvents = 2
    MaxClock = 2
    CreateSkew = {0, 1}
INVARIANTS
    SavedFileLoads
