SPECIFICATION Spec
CONSTANTS
    Proc = {p1, p2}
    Attestations = {a1}
    NoCid = none
    Handlers = {"create", "keys", "export"}
    MaxEvents = 3
    MaxFaults = 0
INVARIANTS
    AckedChangesStay
