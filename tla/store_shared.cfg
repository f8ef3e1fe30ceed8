SPECIFICATION Spec
CONSTANTS
    Proc = {p1, p2}
    Attestations = {a1}
    NoCid = none
    Handlers = {"create", "memory", "keys", "attach", "export", "import"}
    MaxEvents = 4
    MaxFaults = 1
SYMMETRY StoreSymmetry
INVARIANTS
    TypeOK
    AttachedFileExists
    AttachedFileComplete
    AckedMemoryOnDisk
