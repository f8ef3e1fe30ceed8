SPECIFICATION Spec
CONSTANTS
    Request = {r1, r2, r3}
    Dirs = {here, there}
    Names = {one}
    StartDir = here
    StartName = one
    None = none
    MaxIdentities = 3
INVARIANTS
    ConsoleTypeOK
    KeysStayHome
    NotesBesideTheirIdentity
    CurrentPathWasSaved
PROPERTIES
    EveryRequestEnds
CHECK_DEADLOCK FALSE
