------------------------------- MODULE Notes -------------------------------
(***************************************************************************)
(* Public and private memories ("notes") of one identity, across key       *)
(* changes, saves and restores: internal/memory/objects.go and             *)
(* Service.AddMemory, ShowMemory (internal/app/service.go 227-328),        *)
(* runAddMemory and runShowMemory (internal/cli/node.go 98-160), over the  *)
(* identity, clock and file of IdentityChain.                              *)
(*                                                                         *)
(* A note is what its CID is computed of: notes with different content are *)
(* different files.  A ciphertext opens with the private half of the key it*)
(* was made for, and with no other.  Changes fail here for want of a live  *)
(* key; what a clock set back does to them is in IdentityChain, and the    *)
(* order in which the files of one AddMemory are written in IdentityStore. *)
(***************************************************************************)
EXTENDS IdentityChain

CONSTANTS
    Visibilities,  \* asked of AddMemory: the console knows two of the three
    MaxNotes       \* bound: notes written and drafted

ASSUME NotesAssumption ==
    /\ Visibilities \subseteq {"public", "private", "shared"}
    /\ MaxNotes \in Nat

VARIABLES
    drafts,   \* the objects the session made for events that are not saved yet
    notes,    \* the object files beside the identity file
    backup    \* the identity file as it was backed up last, or NoFile

nvars == <<vars, drafts, notes, backup>>

(* chain is not in the code: it is the one that ends with the note's event.*)
NoteOf(visibility, recipients) ==
    [visibility : visibility, recipient : recipients, signedBy : KeyIds, chain : Seq(Event)]

MemoryObject == NoteOf({"private"}, KeyIds) \cup NoteOf({"public", "shared"}, {Nobody})

-----------------------------------------------------------------------------
(* Objects.                                                                *)

(* Mutant of SignObject: the key the identity began with.                  *)
SignObjectByFirstRoot(id) == id.doc.id

SignObject(id) == id.preferredRoot

NewObject(visibility, id, chain) ==
    [visibility |-> visibility, recipient |-> Nobody, signedBy |-> SignObject(id), chain |-> chain]

NewPrivateObject(id, chain) ==
    [visibility |-> "private",
     recipient |-> EncryptionKeyID(id.doc, id.preferredEncryption),
     signedBy |-> SignObject(id), chain |-> chain]

(* An object without encryption is its own plain text.                     *)
DecryptObject(note, key) == note.recipient \in {Nobody, key}

(* Mutant of ShowMemory: only with a key that is still active.             *)
ShowMemoryWhileActive(note, id) ==
    note.visibility = "private" =>
        /\ EncryptionKeyID(id.doc, id.preferredEncryption) # Nobody
        /\ DecryptObject(note, EncryptionKeyID(id.doc, id.preferredEncryption))

(* Whether the note is revealed; PreferredEncryptionPrivateKey is the one  *)
(* key tried, revoked or not.                                              *)
ShowMemory(note, id) ==
    note.visibility = "private" =>
        /\ id.preferredEncryption \in id.local
        /\ DecryptObject(note, id.preferredEncryption)

-----------------------------------------------------------------------------
(* Steps.                                                                  *)

(* Whatever is not private goes to the public root, in plain text.         *)
AddMemory(visibility) ==
    /\ mem # NoIdentity /\ Cardinality(notes \cup drafts) < MaxNotes
    /\ IF visibility = "private" THEN AddPrivateMemoryRoot ELSE AddPublicMemoryRoot
    /\ drafts' = IF outcome' = "failed" THEN drafts
                 ELSE drafts \cup {IF visibility = "private"
                                   THEN NewPrivateObject(mem, mem'.events)
                                   ELSE NewObject(visibility, mem, mem'.events)}
    /\ UNCHANGED <<notes, backup>>

KeyChange ==
    /\ \/ AddDevice \/ RotateRoot
       \/ \E k \in KnownKeys : RevokeDevice(k)
    /\ UNCHANGED <<drafts, notes, backup>>

(* SaveIdentity, and after it the files of what was added.                 *)
SaveWithNotes ==
    /\ Save
    /\ notes' = notes \cup drafts
    /\ drafts' = {}
    /\ UNCHANGED backup

Begin == (New \/ Load) /\ UNCHANGED <<drafts, notes, backup>>

End == Discard /\ drafts' = {} /\ UNCHANGED <<notes, backup>>

ExportBackup ==
    /\ mem = NoIdentity /\ file # NoFile
    /\ backup = NoFile                     \* bound: one backup
    /\ backup' = file
    /\ UNCHANGED <<vars, drafts, notes>>

(* Verified, and put back over the file; the notes stay.                   *)
ImportBackup ==
    /\ mem = NoIdentity /\ backup # NoFile /\ VerifyState(backup)
    /\ file' = backup
    /\ UNCHANGED <<clock, mem, outcome, drafts, notes, backup>>

NotesInit == Init /\ drafts = {} /\ notes = {} /\ backup = NoFile

NotesNext ==
    \/ \E visibility \in Visibilities : AddMemory(visibility)
    \/ KeyChange \/ SaveWithNotes \/ Begin \/ End
    \/ ExportBackup \/ ImportBackup

NotesSpec == NotesInit /\ [][NotesNext]_nvars

-----------------------------------------------------------------------------
(* Properties.                                                             *)

(* Types; a private note has a recipient and no other note has one.        *)
NotesTypeOK ==
    /\ TypeOK
    /\ drafts \subseteq MemoryObject
    /\ notes \subseteq MemoryObject
    /\ backup = NoFile \/ backup \in Identity

(* Every private note the owner ever wrote can be shown with the identity  *)
(* as it is saved now: after rotations and revocations, of the encryption  *)
(* key too, and with an older identity restored (ShowMemory tries one key, *)
(* service.go 317, which AddMemory need not have encrypted to: 248).       *)
OwnNotesOpen == file # NoFile => \A note \in notes : ShowMemory(note, file)

(* No private note is encrypted to a key that its chain had revoked before,*)
(* or never had (AddMemory, EncryptionKeyID).                              *)
PrivateNotesUseALiveKey ==
    \A note \in notes : note.visibility = "private" =>
        LET before == Len(note.chain) - 1
        IN  note.recipient \in KeysWithin(note.chain, before) \ RevokedWithin(note.chain, before)

(* A note is signed by the root key in force at its event, so that whoever *)
(* has the chain can tell whose it is, however often the root was rotated  *)
(* (SignObject takes the preferred root, the event the document's).        *)
NotesSignedByTheirRoot ==
    \A note \in notes :
        /\ note.signedBy = RootAfter(note.chain, Len(note.chain))
        /\ note.signedBy = note.chain[Len(note.chain)].signer

=============================================================================
