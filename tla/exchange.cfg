SPECIFICATION Spec
CONSTANTS
    Node = {p, q}
    Identity = {alice, bob}
    None = None
    Changing = {alice}
    MaxVersion = 2
    MaxObjectSize = 1
    Publisher = {p, q}
    Asker = {q}
INVARIANTS
    ExchangeTypeOK
    CacheHoldsPublished
    RelayedStateStillVerifies
    AnswerIsWhatWasAsked
PROPERTIES
    AskEnds
    ImplementsStateExchange
CHECK_DEADLOCK FALSE
