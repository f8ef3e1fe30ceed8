SPECIFICATION VerificationSpec
CONSTANTS
    Values = {v1}
    NoValue = none
    MaxEvents = 3
    MaxClock = 3
    CreateSkew = {0}
    Lifetimes = {1}
    MaxIssued = 1
    MaxResponses = 1
INVARIANTS
    VerificationTypeOK
    SelfCheckPasses
    AcceptedMeansDevice
    AttestedByCurrentRoot
