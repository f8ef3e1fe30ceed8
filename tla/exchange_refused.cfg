SPECIFICATION Spec
CONSTANTS
    Node = {p, q}
    Identity = {alice}
    None = None
    Changing = {alice}
    MaxVersion = 2
    MaxObjectSize = 2
    Publisher = {p}
    Asker = {q}
INVARIANTS
    ResolvedStateIsShown
CHECK_DEADLOCK FALSE
