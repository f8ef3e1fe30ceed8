SPECIFICATION Spec
CONSTANTS
    Proc = {p1}
    Attestations = {a1, a2}
    NoCid = none
    Handlers = {"create", "memory", "keys", "attach", "export", "import"}
    MaxEvents = 4
    MaxFaults = 2
INVARIANTS
    AckedChangesStay
    ReadableAtRest
PROPERTIES
    ImplementsLog
