SPECIFICATION PSpec
CONSTANTS
    Proc = {p1, p2}
    Attestations = {a1}
    NoCid = none
    NoFile = nofile
    Handlers = {"memory", "attach", "create"}
    MaxEvents = 3
    MaxFaults = 1
SYMMETRY PublicationSymmetry
INVARIANTS
    PrivateNeverOffered
    FetchedIsReferenced
    AttestationsOffered
    AckedMemoryOffered
CHECK_DEADLOCK FALSE
