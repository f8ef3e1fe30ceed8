SPECIFICATION NotesSpec
CONSTANTS
    Values = {v1}
    NoValue = none
    MaxEvents = 4
    MaxClock = 1
    CreateSkew = {0}
    Visibilities = {"public", "private"}
    MaxNotes = 2
INVARIANTS
    NotesTypeOK
    OwnNotesOpen
    PrivateNotesUseALiveKey
    NotesSignedByTheirRoot
