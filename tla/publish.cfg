SPECIFICATION Spec
CONSTANTS
    Request = {r1, r2, r3}
    NoRequest = none
INVARIANTS
    TypeOK
    OnlyTheSlotServes
    SlotHasAWaiter
PROPERTIES
    EveryPublicationEnds
CHECK_DEADLOCK FALSE
