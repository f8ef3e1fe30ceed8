--------------------------- MODULE IdentityChain ---------------------------
(***************************************************************************)
(* One identity of decentid: its signed event chain, the document replayed *)
(* from it, the key ring, and the file it is saved to.                     *)
(* internal/identity/events.go and keys.go, with the load / change / save  *)
(* flow every caller follows (internal/app/service.go, internal/cli).      *)
(*                                                                         *)
(* One caller at a time works on one in-memory Identity ("session"); the   *)
(* interleaving of callers is in IdentityStore.  Abstractions:             *)
(*  - a key pair is the number of its position in LocalKeys, so the next   *)
(*    generated pair is Cardinality(local) + 1: never seen before;         *)
(*  - an event id (a hash of the whole event and its prev id) is the       *)
(*    position at which the object created it; a signature is the key that *)
(*    made it, and verifies under the public half of that key only;        *)
(*  - CIDs, names and other payload strings are members of Values.         *)
(***************************************************************************)
EXTENDS Integers, Sequences, FiniteSets

CONSTANTS
    Values,      \* payload strings: CIDs and display names
    NoValue,     \* the empty string, for a payload field that is not there
    MaxEvents,   \* bound: events an object may hold, rejected ones included
    MaxClock,    \* bound: the wall clock shows 1 .. MaxClock
    CreateSkew   \* how far the clock may move between the two reads of New

ASSUME BoundsAssumption ==
    /\ NoValue \notin Values
    /\ MaxEvents \in Nat \ {0}
    /\ MaxClock \in Nat \ {0}
    /\ CreateSkew \subseteq Nat

VARIABLES
    clock,     \* the wall clock, time.Now().UTC(); it may be set back
    mem,       \* the in-memory Identity of the session, or NoIdentity
    outcome,   \* what the last call on mem returned
    file       \* the identity file, or NoFile

vars == <<clock, mem, outcome, file>>

Nobody   == 0          \* the empty key id ""
RootRole == "root"
DeviceRole == "device"
EncryptionRole == "encryption"

Times == 1 .. MaxClock
NeverRevoked == 0      \* RevokedAt.IsZero()
KeyIds == 1 .. (MaxEvents + 3)

EventTypes == {"CreateIdentity", "UpdateProfile", "UpdatePublicMemory",
    "UpdatePrivateMemory", "AddDeviceKey", "RevokeDevice", "RotateRootKey",
    "AttachProof"}

(* key is the key the event is about (none: Nobody), val its CID or name.  *)
(* RotateRootKey's payload oldRootKeyId is always the signer's id.         *)
Event == [id: Nat, type: EventTypes, prev: Nat, signer: KeyIds, signedBy: KeyIds,
          ts: Times, key: KeyIds \cup {Nobody}, val: Values \cup {NoValue}]

KeyRecord == [id: KeyIds, role: {RootRole, DeviceRole, EncryptionRole},
              revokedAt: Times \cup {NeverRevoked}]

Document == [id: KeyIds, createdAt: Times, updatedAt: Times, root: KeyIds,
             keys: Seq(KeyRecord), profile: Values,
             publicMemory: Values \cup {NoValue},
             privateMemory: Values \cup {NoValue},
             refs: Seq(Values), latest: Nat]

Identity == [doc: Document, events: Seq(Event), local: SUBSET KeyIds,
             preferredRoot: KeyIds, preferredDevice: KeyIds \cup {Nobody},
             preferredEncryption: KeyIds]

NoIdentity == [absent |-> "identity"]
NoFile == [absent |-> "file"]
Rejected == [rejected |-> "replay"]

-----------------------------------------------------------------------------
(* Resolving keys in a document.                                           *)

Resolvable(doc, k, roles) ==
    \E i \in DOMAIN doc.keys :
        /\ doc.keys[i].id = k
        /\ doc.keys[i].revokedAt = NeverRevoked
        /\ doc.keys[i].role \in roles

ResolveKey(doc, k) == Resolvable(doc, k, {RootRole, DeviceRole})

ResolveEncryptionPublicKey(doc, k) == Resolvable(doc, k, {EncryptionRole})

(* The first unrevoked key of a role, in document order; Nobody if none.   *)
FirstActive(doc, role) ==
    LET active == {i \in DOMAIN doc.keys :
                     /\ doc.keys[i].role = role
                     /\ doc.keys[i].revokedAt = NeverRevoked}
    IN  IF active = {} THEN Nobody
        ELSE doc.keys[CHOOSE i \in active : \A j \in active : i <= j].id

DeviceKeyID(doc, preferred) ==
    IF preferred # Nobody /\ ResolveKey(doc, preferred)
    THEN preferred ELSE FirstActive(doc, DeviceRole)

(* Mutant of EncryptionKeyID: the preferred key, revoked or not.           *)
EncryptionKeyIDAny(doc, preferred) == preferred

EncryptionKeyID(doc, preferred) ==
    IF preferred # Nobody /\ ResolveEncryptionPublicKey(doc, preferred)
    THEN preferred ELSE FirstActive(doc, EncryptionRole)

-----------------------------------------------------------------------------
(* Replaying a chain.                                                      *)

(* The keys of the create payload are the first three pairs of the object. *)
FirstRoot == 1
FirstDevice == 2
FirstEncryption == 3

ActiveKey(k, role) == [id |-> k, role |-> role, revokedAt |-> NeverRevoked]

InitDocumentFromCreate(e) ==
    [id |-> e.key, createdAt |-> e.ts, updatedAt |-> e.ts, root |-> e.key,
     keys |-> <<ActiveKey(e.key, RootRole), ActiveKey(FirstDevice, DeviceRole),
                ActiveKey(FirstEncryption, EncryptionRole)>>,
     profile |-> e.val, publicMemory |-> NoValue, privateMemory |-> NoValue,
     refs |-> <<>>, latest |-> e.id]

(* applyEvent revokes the first key record with the id.                    *)
Revoke(keys, k, ts) ==
    LET found == {i \in DOMAIN keys : keys[i].id = k}
    IN  IF found = {} THEN keys
        ELSE [keys EXCEPT ![CHOOSE i \in found : \A j \in found : i <= j].revokedAt = ts]

(* Mutant of Applicable: an attestation without a CID is let through.      *)
ApplicableAnyRef(doc, e) ==
    e.type = "RevokeDevice" => \E i \in DOMAIN doc.keys : doc.keys[i].id = e.key

(* applyEvent knows the key it is to revoke, and has a CID to attach.      *)
Applicable(doc, e) ==
    /\ e.type = "RevokeDevice" => \E i \in DOMAIN doc.keys : doc.keys[i].id = e.key
    /\ e.type = "AttachProof" => e.val # NoValue

(* Mutant of ApplyEvent: adding a device drops the revoked keys.           *)
ApplyEventPurging(doc, e) ==
    LET d == [doc EXCEPT !.updatedAt = e.ts, !.latest = e.id]
    IN  CASE e.type = "AddDeviceKey" ->
                [d EXCEPT !.keys =
                    Append(SelectSeq(@, LAMBDA k : k.revokedAt = NeverRevoked),
                           ActiveKey(e.key, DeviceRole))]
          [] e.type = "RevokeDevice" -> [d EXCEPT !.keys = Revoke(@, e.key, e.ts)]
          [] OTHER -> d

ApplyEvent(doc, e) ==
    LET d == [doc EXCEPT !.updatedAt = e.ts, !.latest = e.id]
    IN  CASE e.type = "UpdateProfile" -> [d EXCEPT !.profile = e.val]
          [] e.type = "UpdatePublicMemory" -> [d EXCEPT !.publicMemory = e.val]
          [] e.type = "UpdatePrivateMemory" -> [d EXCEPT !.privateMemory = e.val]
          [] e.type = "AddDeviceKey" ->
                [d EXCEPT !.keys = Append(@, ActiveKey(e.key, DeviceRole))]
          [] e.type = "RevokeDevice" -> [d EXCEPT !.keys = Revoke(@, e.key, e.ts)]
          [] e.type = "RotateRootKey" ->
                [d EXCEPT !.keys = Append(Revoke(@, e.signer, e.ts),
                                          ActiveKey(e.key, RootRole)),
                          !.root = e.key]
          [] e.type = "AttachProof" ->
                [d EXCEPT !.refs = IF e.val \in {@[i] : i \in DOMAIN @} THEN @
                                   ELSE Append(@, e.val)]
          [] OTHER -> d

VerifyEvent(e, k) == e.signedBy = k

(* Mutant of Accepts: no look at the timestamps.                           *)
AcceptsAnyTime(doc, e) ==
    /\ e.prev = doc.latest
    /\ ResolveKey(doc, e.signer)
    /\ VerifyEvent(e, e.signer)
    /\ e.signer = doc.root
    /\ Applicable(doc, e)

(* What the loop of ReplayState asks of an event before applying it to the *)
(* document so far, whose latest and updatedAt are the previous event's.   *)
Accepts(doc, e) ==
    /\ e.prev = doc.latest
    /\ e.ts >= doc.updatedAt
    /\ ResolveKey(doc, e.signer)
    /\ VerifyEvent(e, e.signer)
    /\ e.signer = doc.root
    /\ Applicable(doc, e)

ReplayStep(doc, e) ==
    IF doc = Rejected THEN Rejected
    ELSE IF Accepts(doc, e) THEN ApplyEvent(doc, e) ELSE Rejected

(* The document after each event, the create event first.                  *)
DocumentsAlong(events) ==
    LET doc[n \in 1 .. Len(events)] ==
          IF n = 1 THEN InitDocumentFromCreate(events[1])
          ELSE ReplayStep(doc[n - 1], events[n])
    IN  doc

(* The checks on the first event: its type, and that the root key it       *)
(* introduces is the signer and made the signature.                        *)
Creates(events) ==
    /\ events # <<>>
    /\ events[1].type = "CreateIdentity"
    /\ events[1].signer = events[1].key
    /\ VerifyEvent(events[1], events[1].key)

ReplayState(events) ==
    IF Creates(events) THEN DocumentsAlong(events)[Len(events)] ELSE Rejected

(* Every field is compared, times as instants and sequences in order.      *)
DocumentsEqual(a, b) == a = b

VerifyState(id) == DocumentsEqual(ReplayState(id.events), id.doc)

-----------------------------------------------------------------------------
(* The Identity methods.  Each builds an event from the document as it     *)
(* stands, appends it, and replays the whole chain; only then is doc set.  *)

NewEvent(id, type, k, v) ==
    [id |-> Len(id.events) + 1, type |-> type, prev |-> id.doc.latest,
     signer |-> id.doc.root, signedBy |-> id.preferredRoot, ts |-> clock,
     key |-> k, val |-> v]

(* Mutant of RefreshDocument: the new document is not stored.              *)
RefreshForgotten(id) == id

RefreshDocument(id) ==
    LET doc == ReplayState(id.events)
    IN  IF doc = Rejected THEN id ELSE [id EXCEPT !.doc = doc]

(* PreferredRootPrivateKey; without it a call returns before any change.   *)
CanSign == mem # NoIdentity /\ mem.preferredRoot \in mem.local

(* changed is mem with its new event and key ring, not yet replayed.       *)
Return(changed) ==
    /\ outcome' = IF ReplayState(changed.events) = Rejected THEN "failed" ELSE "ok"
    /\ UNCHANGED <<clock, file>>

RoomForEvent == mem # NoIdentity /\ Len(mem.events) < MaxEvents

FreshKey(id) == Cardinality(id.local) + 1

(* Mutant of WithEvent: the events of calls that failed are dropped, their *)
(* changes to the key ring are not.                                        *)
WithEventInPlace(type, k, v) ==
    [mem EXCEPT !.events = Append(SubSeq(@, 1, mem.doc.latest),
                                  [NewEvent(mem, type, k, v) EXCEPT !.id = mem.doc.latest + 1])]

WithEvent(type, k, v) == [mem EXCEPT !.events = Append(@, NewEvent(mem, type, k, v))]

(* An operation whose only effect is its event.                            *)
Plain(type, v) ==
    /\ RoomForEvent /\ CanSign
    /\ LET changed == WithEvent(type, Nobody, v)
       IN  mem' = RefreshDocument(changed) /\ Return(changed)

UpdateProfile == \E v \in Values : Plain("UpdateProfile", v)

AddPublicMemoryRoot == \E v \in Values : Plain("UpdatePublicMemory", v)

(* Mutant of HasEncryptionKey: nobody looks for one.                       *)
HasEncryptionKeyUnchecked == mem # NoIdentity

(* Service.AddMemory asks for an active encryption key before it encrypts. *)
HasEncryptionKey ==
    mem # NoIdentity /\ EncryptionKeyID(mem.doc, mem.preferredEncryption) # Nobody

AddPrivateMemoryRoot ==
    /\ HasEncryptionKey
    /\ \E v \in Values : Plain("UpdatePrivateMemory", v)

(* The command line takes any attestation file, one without a CID too.     *)
AttachAttestationRef == \E v \in Values \cup {NoValue} : Plain("AttachProof", v)

(* Mutant of AddDevice: the private half does not join the key ring.       *)
AddDeviceKeyless ==
    /\ RoomForEvent /\ CanSign
    /\ LET k == FreshKey(mem)
           changed == WithEvent("AddDeviceKey", k, NoValue)
       IN  mem' = RefreshDocument(changed) /\ Return(changed)

AddDevice ==
    /\ RoomForEvent /\ CanSign
    /\ LET k == FreshKey(mem)
           changed == [WithEvent("AddDeviceKey", k, NoValue) EXCEPT
                         !.local = @ \cup {k},
                         !.preferredDevice = IF @ = Nobody THEN k ELSE @]
       IN  mem' = RefreshDocument(changed) /\ Return(changed)

(* Any key id may be given: a root or encryption key, one already revoked, *)
(* or one the document does not hold (UnknownKey).                         *)
UnknownKey == MaxEvents + 3

RevokeDevice(k) ==
    /\ RoomForEvent /\ CanSign
    /\ LET changed == WithEvent("RevokeDevice", k, NoValue)
           after == RefreshDocument(changed)
           failed == ReplayState(changed.events) = Rejected
       IN  /\ mem' = IF failed \/ after.preferredDevice # k THEN after
                     ELSE [after EXCEPT !.preferredDevice = DeviceKeyID(after.doc, k)]
           /\ Return(changed)

(* Mutant of RotateRoot: the old key stays the preferred one.              *)
RotateRootKeepingPreferred ==
    /\ RoomForEvent /\ CanSign
    /\ LET k == FreshKey(mem)
           changed == [WithEvent("RotateRootKey", k, NoValue) EXCEPT !.local = @ \cup {k}]
       IN  mem' = RefreshDocument(changed) /\ Return(changed)

RotateRoot ==
    /\ RoomForEvent /\ CanSign
    /\ LET k == FreshKey(mem)
           changed == [WithEvent("RotateRootKey", k, NoValue) EXCEPT
                         !.local = @ \cup {k}, !.preferredRoot = k]
       IN  mem' = RefreshDocument(changed) /\ Return(changed)

-----------------------------------------------------------------------------
(* Sessions: create or load, change, save, forget.                         *)

(* New reads the clock for the document, and NewEvent reads it again for   *)
(* the create event; the document is built by hand and not replayed.       *)
Created(name, now, eventTime) ==
    LET e == [id |-> 1, type |-> "CreateIdentity", prev |-> 0, signer |-> FirstRoot,
              signedBy |-> FirstRoot, ts |-> eventTime, key |-> FirstRoot, val |-> name]
    IN  [doc |-> [InitDocumentFromCreate(e) EXCEPT !.createdAt = now, !.updatedAt = now],
         events |-> <<e>>,
         local |-> {FirstRoot, FirstDevice, FirstEncryption},
         preferredRoot |-> FirstRoot, preferredDevice |-> FirstDevice,
         preferredEncryption |-> FirstEncryption]

New ==
    /\ mem = NoIdentity /\ file = NoFile   \* bound: one identity is ever saved
    /\ \E name \in Values, skew \in CreateSkew :
          /\ clock + skew <= MaxClock
          /\ clock' = clock + skew
          /\ mem' = Created(name, clock, clock + skew)
    /\ outcome' = "ok"
    /\ UNCHANGED file

(* LoadIdentity, with FromLocal; a file that does not verify is an error.  *)
Load ==
    /\ mem = NoIdentity
    /\ file # NoFile /\ VerifyState(file)
    /\ mem' = file
    /\ outcome' = "none"
    /\ UNCHANGED <<clock, file>>

(* SaveIdentity: every caller returns before it when its call failed.      *)
Save ==
    /\ mem # NoIdentity /\ outcome = "ok"
    /\ file' = mem
    /\ UNCHANGED <<clock, mem, outcome>>

Discard ==
    /\ mem # NoIdentity
    /\ mem' = NoIdentity
    /\ outcome' = "none"
    /\ UNCHANGED <<clock, file>>

(* The wall clock runs, and may be set back.                               *)
Tick == clock < MaxClock /\ clock' = clock + 1 /\ UNCHANGED <<mem, outcome, file>>
StepBack == clock > 1 /\ clock' = clock - 1 /\ UNCHANGED <<mem, outcome, file>>

Init == clock = 1 /\ mem = NoIdentity /\ outcome = "none" /\ file = NoFile

KnownKeys ==
    IF mem = NoIdentity THEN {} ELSE {mem.doc.keys[i].id : i \in DOMAIN mem.doc.keys}

Operation ==
    \/ UpdateProfile
    \/ AddPublicMemoryRoot
    \/ AddPrivateMemoryRoot
    \/ AttachAttestationRef
    \/ AddDevice
    \/ \E k \in KnownKeys \cup {UnknownKey} : RevokeDevice(k)
    \/ RotateRoot

Next == Operation \/ New \/ Load \/ Save \/ Discard \/ Tick \/ StepBack

Spec == Init /\ [][Next]_vars

-----------------------------------------------------------------------------
(* What a chain means, said without replaying it.                          *)

IsRotation(e) == e.type = "RotateRootKey"

(* The root key in force after the first n events.                         *)
RootAfter(events, n) ==
    LET rotations == {i \in 2 .. n : IsRotation(events[i])}
    IN  IF rotations = {} THEN events[1].key
        ELSE events[CHOOSE i \in rotations : \A j \in rotations : j <= i].key

RevokedWithin(events, n) ==
    {events[i].key : i \in {j \in 2 .. n : events[j].type = "RevokeDevice"}}
      \cup {RootAfter(events, i - 1) : i \in {j \in 2 .. n : IsRotation(events[j])}}

KeysWithin(events, n) ==
    {FirstRoot, FirstDevice, FirstEncryption}
      \cup {events[i].key : i \in {j \in 2 .. n : events[j].type = "AddDeviceKey"
                                                \/ IsRotation(events[j])}}

LastValue(events, type) ==
    LET updates == {i \in 2 .. Len(events) : events[i].type = type}
    IN  IF updates = {} THEN NoValue
        ELSE events[CHOOSE i \in updates : \A j \in updates : j <= i].val

(* Every event after the first continues its predecessor, in time too, and *)
(* is signed by the root of its moment, which no earlier event revoked.    *)
SoundChain(events) ==
    \A n \in 2 .. Len(events) :
        /\ events[n].prev = events[n - 1].id
        /\ events[n].ts >= events[n - 1].ts
        /\ events[n].signer = RootAfter(events, n - 1)
        /\ events[n].signedBy = events[n].signer
        /\ events[n].signer \notin RevokedWithin(events, n - 1)
        /\ events[n].type = "RevokeDevice" => events[n].key \in KeysWithin(events, n - 1)
        /\ events[n].type = "AttachProof" => events[n].val # NoValue

Describes(doc, events) ==
    /\ doc.id = events[1].key
    /\ doc.root = RootAfter(events, Len(events))
    /\ {doc.keys[i].id : i \in DOMAIN doc.keys} = KeysWithin(events, Len(events))
    /\ {doc.keys[i].id : i \in {j \in DOMAIN doc.keys :
            doc.keys[j].revokedAt # NeverRevoked}} = RevokedWithin(events, Len(events))
    /\ doc.publicMemory = LastValue(events, "UpdatePublicMemory")
    /\ doc.privateMemory = LastValue(events, "UpdatePrivateMemory")
    /\ \A i, j \in DOMAIN doc.refs : doc.refs[i] = doc.refs[j] => i = j
    /\ {doc.refs[i] : i \in DOMAIN doc.refs} =
          {events[i].val : i \in {j \in DOMAIN events : events[j].type = "AttachProof"}}
    /\ doc.latest = events[Len(events)].id
    /\ doc.updatedAt = events[Len(events)].ts

-----------------------------------------------------------------------------
(* Properties.                                                             *)

(* The types of the state: the clock, the object, the file (types.go).     *)
TypeOK ==
    /\ clock \in Times
    /\ mem = NoIdentity \/ mem \in Identity
    /\ outcome \in {"none", "ok", "failed"}
    /\ file = NoFile \/ file \in Identity

(* ReplayState accepts exactly the sound chains, and the document it       *)
(* builds incrementally is the one the chain describes (events.go 298-451) *)
ReplayMeansTheChain ==
    mem # NoIdentity =>
      LET doc == ReplayState(mem.events)
      IN  /\ doc # Rejected <=> SoundChain(mem.events)
          /\ doc # Rejected => Describes(doc, mem.events)

(* A file that was saved loads again, unless it holds an identity fresh    *)
(* from New whose document and create event read the clock at different    *)
(* times (FromLocal verifies: keys.go 80; New: events.go 44 and 100).      *)
OnlyASplitCreateFailsToLoad ==
    file # NoFile =>
      (VerifyState(file) <=> \/ Len(file.events) > 1
                             \/ file.doc.createdAt = file.events[1].ts)

(* The saved key ring and the saved document agree: the preferred root is  *)
(* the document's root and its private key is there; the preferred device  *)
(* is an active device key whose private key is there, or none when the    *)
(* document has no active device (AddDevice, RevokeDevice, RotateRoot).    *)
SavedKeysAgree ==
    file # NoFile =>
      /\ file.preferredRoot = file.doc.root
      /\ file.preferredRoot \in file.local
      /\ IF FirstActive(file.doc, DeviceRole) = Nobody
         THEN file.preferredDevice = Nobody
         ELSE /\ Resolvable(file.doc, file.preferredDevice, {DeviceRole})
              /\ file.preferredDevice \in file.local

(* Once a call on an object has failed, no later call on it succeeds, so   *)
(* nothing of it can be saved: the rejected event stays in Events and each *)
(* replay meets it again (methods append before refreshDocument).          *)
FailureIsFinal ==
    [][outcome = "failed" /\ mem' # NoIdentity => outcome' = "failed"]_vars

Extends(old, new) == Len(old) <= Len(new) /\ SubSeq(new, 1, Len(old)) = old

(* What a chain revoked stays revoked when the chain is extended and saved *)
(* and a superseded root never becomes the root again (applyEvent).        *)
RevokedForGood ==
    [][ (file # NoFile /\ file' # file /\ Len(file'.events) > 1
           /\ Extends(file.events, file'.events)) =>
        /\ file'.doc.id = file.doc.id
        /\ \A i \in DOMAIN file.doc.keys :
              file.doc.keys[i].revokedAt # NeverRevoked =>
                /\ file'.doc.keys[i].id = file.doc.keys[i].id
                /\ file'.doc.keys[i].revokedAt # NeverRevoked
                /\ file'.doc.root = file.doc.keys[i].id => file.doc.root = file'.doc.root
      ]_vars

(* What the documentation promises of a saved identity: it loads.          *)
SavedFileLoads == file # NoFile => VerifyState(file)

=============================================================================
