---------------------------- MODULE Notes_proofs ----------------------------
(***************************************************************************)
(* Theorems about Notes for every set of values and visibilities and every *)
(* bound: types, and that the owner can read every private note.           *)
(***************************************************************************)
EXTENDS Notes, IdentityChain_proofs

(* The encryption keys of a document are all the key of its creation: no   *)
(* event adds another.                                                     *)
OneEncryptionKey(doc) ==
    \A i \in DOMAIN doc.keys :
        doc.keys[i].role = EncryptionRole => doc.keys[i].id = FirstEncryption

LEMMA AppendKeeps ==
  ASSUME NEW keys \in Seq(KeyRecord), NEW new \in KeyRecord,
         new.role # EncryptionRole,
         \A i \in DOMAIN keys : keys[i].role = EncryptionRole => keys[i].id = FirstEncryption
  PROVE  \A i \in DOMAIN Append(keys, new) :
            Append(keys, new)[i].role = EncryptionRole => Append(keys, new)[i].id = FirstEncryption
<1> DEFINE longer == Append(keys, new)
<1>1. /\ DOMAIN longer = 1 .. (Len(keys) + 1) /\ DOMAIN keys = 1 .. Len(keys)
      /\ Len(keys) \in Nat /\ longer[Len(keys) + 1] = new
      /\ \A i \in 1 .. Len(keys) : longer[i] = keys[i]
  OBVIOUS
<1> HIDE DEF longer
<1>2. ASSUME NEW i \in DOMAIN longer
      PROVE  longer[i].role = EncryptionRole => longer[i].id = FirstEncryption
  <2>1. CASE i = Len(keys) + 1
    BY <1>1, <2>1
  <2>2. CASE i \in DOMAIN keys
    BY <1>1, <2>2
  <2> QED BY <1>1, <2>1, <2>2
<1> QED BY <1>2 DEF longer

LEMMA ApplyKeepsEncryptionKey ==
  ASSUME NEW doc \in Document, NEW e \in Event, Payload(e), OneEncryptionKey(doc)
  PROVE  OneEncryptionKey(ApplyEvent(doc, e))
<1>1. doc.keys \in Seq(KeyRecord) /\ e.ts \in Times /\ e.type \in EventTypes
  BY DEF Document, Event
<1>2. \A i \in DOMAIN doc.keys :
          doc.keys[i].role = EncryptionRole => doc.keys[i].id = FirstEncryption
  BY DEF OneEncryptionKey
<1>3. ASSUME NEW k
      PROVE  /\ Revoke(doc.keys, k, e.ts) \in Seq(KeyRecord)
             /\ \A i \in DOMAIN Revoke(doc.keys, k, e.ts) :
                   Revoke(doc.keys, k, e.ts)[i].role = EncryptionRole
                      => Revoke(doc.keys, k, e.ts)[i].id = FirstEncryption
  BY <1>1, <1>2, RevokeType, RevokeKeepsKeys
<1>4. CASE e.type = "AddDeviceKey"
  <2> DEFINE new == ActiveKey(e.key, DeviceRole)
  <2>1. new \in KeyRecord
    BY <1>4, ActiveKeyType DEF Payload
  <2>2. new.role # EncryptionRole
    BY DEF ActiveKey, DeviceRole, EncryptionRole
  <2>3. ApplyEvent(doc, e).keys = Append(doc.keys, new)
    BY <1>4, ApplyKeys
  <2> HIDE DEF new
  <2> QED BY <1>1, <1>2, <2>1, <2>2, <2>3, AppendKeeps DEF OneEncryptionKey
<1>5. CASE e.type = "RevokeDevice"
  <2>1. ApplyEvent(doc, e).keys = Revoke(doc.keys, e.key, e.ts)
    BY <1>5, ApplyKeys
  <2> QED BY <1>3, <2>1 DEF OneEncryptionKey
<1>6. CASE e.type = "RotateRootKey"
  <2> DEFINE new == ActiveKey(e.key, RootRole)
             ks == Revoke(doc.keys, e.signer, e.ts)
  <2>1. new \in KeyRecord
    BY <1>6, ActiveKeyType DEF Payload
  <2>2. new.role # EncryptionRole
    BY DEF ActiveKey, RootRole, EncryptionRole
  <2>3. ApplyEvent(doc, e).keys = Append(ks, new)
    BY <1>6, ApplyKeys
  <2>4. /\ ks \in Seq(KeyRecord)
        /\ \A i \in DOMAIN ks : ks[i].role = EncryptionRole => ks[i].id = FirstEncryption
    BY <1>3
  <2> HIDE DEF new, ks
  <2> QED BY <2>1, <2>2, <2>3, <2>4, AppendKeeps DEF OneEncryptionKey
<1>7. CASE e.type \notin {"AddDeviceKey", "RevokeDevice", "RotateRootKey"}
  <2>1. ApplyEvent(doc, e).keys = doc.keys
    BY <1>7, ApplyKeys
  <2> QED BY <1>2, <2>1 DEF OneEncryptionKey
<1> QED BY <1>4, <1>5, <1>6, <1>7

LEMMA CreateHasOneEncryptionKey ==
  ASSUME NEW e
  PROVE  OneEncryptionKey(InitDocumentFromCreate(e))
<1> DEFINE ks == <<ActiveKey(e.key, RootRole), ActiveKey(FirstDevice, DeviceRole),
                   ActiveKey(FirstEncryption, EncryptionRole)>>
<1>1. InitDocumentFromCreate(e).keys = ks
  BY DEF InitDocumentFromCreate
<1>2. /\ DOMAIN ks = 1 .. 3
      /\ ks[1].role # EncryptionRole /\ ks[2].role # EncryptionRole
      /\ ks[3].id = FirstEncryption
  BY DEF ActiveKey, RootRole, DeviceRole, EncryptionRole
<1> HIDE DEF ks
<1> QED BY <1>1, <1>2 DEF OneEncryptionKey

(* Whoever asks for the encryption key of such a document gets that one.   *)
LEMMA EncryptionKeyIsTheFirst ==
  ASSUME NEW doc \in Document, OneEncryptionKey(doc),
         EncryptionKeyID(doc, FirstEncryption) # Nobody
  PROVE  /\ EncryptionKeyID(doc, FirstEncryption) = FirstEncryption
         /\ \E i \in DOMAIN doc.keys : doc.keys[i].id = FirstEncryption
                                       /\ doc.keys[i].revokedAt = NeverRevoked
<1> DEFINE active == {i \in DOMAIN doc.keys : doc.keys[i].role = EncryptionRole
                                              /\ doc.keys[i].revokedAt = NeverRevoked}
           first == CHOOSE i \in active : \A j \in active : i <= j
<1>1. CASE ResolveEncryptionPublicKey(doc, FirstEncryption)
  BY <1>1 DEF EncryptionKeyID, ResolveEncryptionPublicKey, Resolvable, FirstEncryption, Nobody
<1>2. CASE ~ResolveEncryptionPublicKey(doc, FirstEncryption)
  <2>1. EncryptionKeyID(doc, FirstEncryption) = FirstActive(doc, EncryptionRole)
    BY <1>2 DEF EncryptionKeyID
  <2>2. active # {} /\ FirstActive(doc, EncryptionRole) = doc.keys[first].id
    BY <2>1 DEF FirstActive
  <2>3. active \subseteq Nat
    BY DEF Document
  <2>4. \E i \in active : \A j \in active : i <= j
    BY <2>2, <2>3, LeastElement
  <2>5. first \in active
    BY <2>4
  <2>6. /\ first \in DOMAIN doc.keys /\ doc.keys[first].role = EncryptionRole
        /\ doc.keys[first].revokedAt = NeverRevoked
    BY <2>5
  <2> HIDE DEF first
  <2>7. doc.keys[first].id = FirstEncryption
    BY <2>6 DEF OneEncryptionKey
  <2> QED BY <2>1, <2>2, <2>6, <2>7
<1> QED BY <1>1, <1>2

-----------------------------------------------------------------------------
(* The invariant: whatever else of an identity changes, its encryption key *)
(* is the one it began with, in the document, in what the events replay to,*)
(* and as the preferred key; and private notes are encrypted to it while it*)
(* is active, and all are signed by the root of their event.               *)

KeepsEncryptionKey(id) ==
    /\ id.preferredEncryption = FirstEncryption
    /\ OneEncryptionKey(id.doc)
    /\ ReplayState(id.events) # Rejected => OneEncryptionKey(ReplayState(id.events))

Encrypted(set) ==
    \A note \in set : note.visibility = "private" => note.recipient = FirstEncryption

Live(set) ==
    \A note \in set : note.visibility = "private" =>
        LET before == Len(note.chain) - 1
        IN  note.recipient \in KeysWithin(note.chain, before) \ RevokedWithin(note.chain, before)

Signed(set) ==
    \A note \in set : /\ note.signedBy = RootAfter(note.chain, Len(note.chain))
                      /\ note.signedBy = note.chain[Len(note.chain)].signer

NInv ==
    /\ RInv
    /\ NotesTypeOK
    /\ backup # NoFile =>
          Sane(backup) /\ Current(backup) /\ MeantIdentity(backup) /\ KeepsEncryptionKey(backup)
    /\ mem # NoIdentity => KeepsEncryptionKey(mem)
    /\ file # NoFile => KeepsEncryptionKey(file)
    /\ Encrypted(notes) /\ Encrypted(drafts)
    /\ Live(notes) /\ Live(drafts)
    /\ Signed(notes) /\ Signed(drafts)

LEMMA OperationKeepsEncryptionKey ==
  ASSUME IInv, Operation, KeepsEncryptionKey(mem)
  PROVE  KeepsEncryptionKey(mem')
<1>1. OperationDone
  BY OperationIsDone
<1>2. PICK e \in Event : Payload(e) /\ mem'.events = Append(mem.events, e)
  BY <1>1 DEF OperationDone
<1>3. /\ mem # NoIdentity /\ Sane(mem)
      /\ mem.events \in Seq(Event) /\ mem.events # <<>>
  <2>1. mem \in Identity /\ Sane(mem)
    BY <1>1 DEF OperationDone, IInv, TypeOK
  <2> QED BY <2>1, <1>1 DEF OperationDone, Sane, Identity
<1>4. ReplayState(mem'.events) = ReplayStep(ReplayState(mem.events), e)
  BY <1>2, <1>3, ReplayAppend
<1>5. ReplayState(mem'.events) # Rejected => OneEncryptionKey(ReplayState(mem'.events))
  <2> SUFFICES ASSUME ReplayState(mem'.events) # Rejected
               PROVE  OneEncryptionKey(ReplayState(mem'.events))
    OBVIOUS
  <2>1. /\ ReplayState(mem.events) # Rejected
        /\ ReplayState(mem'.events) = ApplyEvent(ReplayState(mem.events), e)
    BY <1>4 DEF ReplayStep
  <2>2. ReplayState(mem.events) \in Document /\ OneEncryptionKey(ReplayState(mem.events))
    BY <1>3, <2>1 DEF Sane, KeepsEncryptionKey
  <2> QED BY <1>2, <2>1, <2>2, ApplyKeepsEncryptionKey
<1> QED BY <1>1, <1>5 DEF OperationDone, KeepsEncryptionKey

LEMMA NewKeepsEncryptionKey ==
  ASSUME IInv, New
  PROVE  KeepsEncryptionKey(mem')
<1>1. mem' \in Identity /\ Sane(mem') /\ Current(mem')
  BY NewDone
<1>2. PICK name \in Values, skew \in CreateSkew : mem' = Created(name, clock, clock + skew)
  BY DEF New
<1>3. mem'.preferredEncryption = FirstEncryption /\ Len(mem'.events) = 1
  BY <1>2 DEF Created
<1>4. Fresh(mem')
  BY <1>1, <1>3 DEF Current
<1> DEFINE doc == InitDocumentFromCreate(mem'.events[1])
<1>5. "keys" \in DOMAIN doc
  BY DEF InitDocumentFromCreate
<1> HIDE DEF doc
<1>6. ReplayState(mem'.events) = doc /\ mem'.doc.keys = doc.keys
  BY <1>4, <1>5 DEF Fresh, doc
<1>7. OneEncryptionKey(doc)
  BY CreateHasOneEncryptionKey DEF doc
<1> QED BY <1>3, <1>6, <1>7 DEF KeepsEncryptionKey, OneEncryptionKey

(* The keys of an object whose events replay are those of the replay.      *)
LEMMA KeysAreReplayed ==
  ASSUME IInv, mem # NoIdentity, ReplayState(mem.events) # Rejected
  PROVE  mem.doc.keys = ReplayState(mem.events).keys
<1>1. Current(mem)
  BY DEF IInv
<1>2. CASE Fresh(mem)
  <2> DEFINE doc == InitDocumentFromCreate(mem.events[1])
  <2>1. "keys" \in DOMAIN doc
    BY DEF InitDocumentFromCreate
  <2> HIDE DEF doc
  <2> QED BY <1>2, <2>1 DEF Fresh, doc
<1>3. CASE VerifyState(mem)
  BY <1>3 DEF VerifyState, DocumentsEqual
<1> QED BY <1>1, <1>2, <1>3 DEF Current

(* The event of a note that was not rejected.                              *)
LEMMA NoteEvent ==
  ASSUME NInv, NEW visibility \in Visibilities, AddMemory(visibility),
         outcome' # "failed"
  PROVE  \E e \in Event :
            /\ mem'.events = Append(mem.events, e)
            /\ e.signedBy = mem.preferredRoot /\ ~IsRotation(e)
            /\ ReplayState(mem.events) # Rejected
            /\ Accepts(ReplayState(mem.events), e)
<1>1. PICK type \in {"UpdatePublicMemory", "UpdatePrivateMemory"}, v \in Values : Plain(type, v)
  BY DEF AddMemory, AddPublicMemoryRoot, AddPrivateMemoryRoot
<1> DEFINE e == NewEvent(mem, type, Nobody, v)
           changed == WithEvent(type, Nobody, v)
<1>2. /\ IInv /\ mem \in Identity /\ clock \in Times /\ type \in EventTypes
      /\ mem.events \in Seq(Event) /\ mem.events # <<>>
  BY <1>1 DEF NInv, RInv, IInv, TypeOK, Plain, RoomForEvent, EventTypes, Identity, Sane
<1>3. e \in Event /\ e.type = type /\ e.signedBy = mem.preferredRoot
  BY <1>2, NewEventType DEF NewEvent
<1>4. changed \in Identity /\ changed.events = Append(mem.events, e)
  BY <1>2, WithEventGrows
<1>5. mem' = RefreshDocument(changed) /\ Return(changed)
  BY <1>1 DEF Plain
<1> HIDE DEF e, changed
<1>6. mem'.events = changed.events
  BY <1>4, <1>5 DEF RefreshDocument, Identity
<1>7. ReplayState(changed.events) # Rejected
  BY <1>5 DEF Return
<1>8. ReplayState(changed.events) = ReplayStep(ReplayState(mem.events), e)
  BY <1>2, <1>3, <1>4, ReplayAppend
<1>9. ReplayState(mem.events) # Rejected /\ Accepts(ReplayState(mem.events), e)
  BY <1>7, <1>8 DEF ReplayStep
<1> QED BY <1>1, <1>3, <1>4, <1>6, <1>9 DEF IsRotation

(* A note is of the type it should be; a private one is encrypted, to a key*)
(* not revoked before its event; and its signer is the root.               *)
LEMMA AddMemoryKeeps ==
  ASSUME NInv, NEW visibility \in Visibilities, AddMemory(visibility)
  PROVE  /\ Operation
         /\ drafts' \subseteq MemoryObject
         /\ Encrypted(drafts') /\ Live(drafts') /\ Signed(drafts')
<1>1. Operation
  BY DEF AddMemory, Operation
<1>2. OperationDone
  BY <1>1, OperationIsDone DEF NInv, RInv
<1>3. mem # NoIdentity /\ mem \in Identity /\ KeepsEncryptionKey(mem) /\ Meant(mem.events)
  BY <1>2 DEF OperationDone, NInv, RInv, IInv, TypeOK, MeantIdentity
<1>4. /\ mem'.events \in Seq(Event) /\ mem.preferredRoot \in KeyIds /\ mem.doc \in Document
      /\ mem.events \in Seq(Event) /\ mem.events # <<>>
  BY <1>2, <1>3 DEF OperationDone, NInv, RInv, IInv, Sane, Identity
<1>5. CASE outcome' = "failed"
  <2>1. drafts' = drafts
    BY <1>5 DEF AddMemory
  <2> QED BY <1>1, <2>1 DEF NInv, NotesTypeOK, Encrypted, Live, Signed
<1>6. CASE outcome' # "failed"
  <2> DEFINE note == IF visibility = "private" THEN NewPrivateObject(mem, mem'.events)
                     ELSE NewObject(visibility, mem, mem'.events)
             doc == ReplayState(mem.events)
             n == Len(mem.events)
  <2>1. PICK e \in Event : /\ mem'.events = Append(mem.events, e)
                           /\ e.signedBy = mem.preferredRoot /\ ~IsRotation(e)
                           /\ doc # Rejected /\ Accepts(doc, e)
    BY <1>6, NoteEvent
  <2>2. drafts' = drafts \cup {note}
    BY <1>6 DEF AddMemory
  <2>3. /\ note.signedBy = mem.preferredRoot /\ note.chain = mem'.events
        /\ note.visibility = visibility
    BY DEF NewPrivateObject, NewObject, SignObject
  <2>4. visibility \in {"public", "private", "shared"}
    BY NotesAssumption
  <2>5. FirstEncryption \in KeyIds
    BY BoundsAssumption DEF FirstEncryption, KeyIds
  <2>6. KeysDescribe(doc, mem.events)
    BY <1>3, <2>1 DEF Meant
  <2>7. /\ n \in Nat /\ n >= 1 /\ Len(mem'.events) = n + 1 /\ mem'.events[n + 1] = e
        /\ n \in 1 .. n /\ (n + 1) - 1 = n
    BY <1>4, <2>1, AppendedChain
  <2>8. visibility = "private" =>
           /\ note.recipient = FirstEncryption
           /\ \E i \in DOMAIN mem.doc.keys : mem.doc.keys[i].id = FirstEncryption
                                             /\ mem.doc.keys[i].revokedAt = NeverRevoked
    <3> SUFFICES ASSUME visibility = "private"
                 PROVE  /\ note.recipient = FirstEncryption
                        /\ \E i \in DOMAIN mem.doc.keys :
                              mem.doc.keys[i].id = FirstEncryption
                              /\ mem.doc.keys[i].revokedAt = NeverRevoked
      OBVIOUS
    <3>1. mem.preferredEncryption = FirstEncryption /\ OneEncryptionKey(mem.doc)
      BY <1>3 DEF KeepsEncryptionKey
    <3>2. EncryptionKeyID(mem.doc, FirstEncryption) # Nobody
      BY <3>1 DEF AddMemory, AddPrivateMemoryRoot, HasEncryptionKey
    <3>3. note.recipient = EncryptionKeyID(mem.doc, FirstEncryption)
      BY <3>1 DEF NewPrivateObject
    <3> HIDE DEF note
    <3> QED BY <1>4, <3>1, <3>2, <3>3, EncryptionKeyIsTheFirst
  <2>9. visibility # "private" => note.recipient = Nobody
    BY DEF NewObject
  <2>10. note \in MemoryObject
    <3>1. note = [visibility |-> visibility, recipient |-> note.recipient,
                  signedBy |-> mem.preferredRoot, chain |-> mem'.events]
      BY DEF NewPrivateObject, NewObject, SignObject
    <3> HIDE DEF note
    <3> QED BY <1>4, <2>4, <2>5, <2>8, <2>9, <3>1 DEF MemoryObject, NoteOf
  <2> HIDE DEF note, doc, n
  <2>11. Encrypted({note})
    BY <2>3, <2>8 DEF Encrypted
  <2>12. Signed({note})
    <3>1. RootAfter(mem'.events, n + 1) = RootAfter(mem.events, n)
      BY <1>4, <2>1, RootAfterAppend DEF n
    <3>2. e.signer = doc.root /\ e.signedBy = e.signer
      BY <2>1 DEF Accepts, VerifyEvent
    <3>3. doc.root = RootAfter(mem.events, n)
      BY <2>6 DEF KeysDescribe, n
    <3> QED BY <2>1, <2>3, <2>7, <3>1, <3>2, <3>3 DEF Signed
  <2>13. Live({note})
    <3>1. /\ RevokedWithin(mem'.events, n) = RevokedIds(doc.keys)
          /\ FirstEncryption \in KeysWithin(mem'.events, n)
      BY <1>4, <2>1, <2>6, <2>7, RevokedWithinPrefix DEF KeysDescribe, KeysWithin, n
    <3>2. mem.doc.keys = doc.keys
      BY <1>3, <2>1, KeysAreReplayed DEF NInv, RInv, doc
    <3>3. visibility = "private" => FirstEncryption \notin RevokedIds(doc.keys)
      <4>1. Distinct(doc.keys)
        BY <2>6 DEF KeysDescribe
      <4> QED BY <2>8, <3>2, <4>1 DEF RevokedIds, Distinct
    <3> QED BY <2>3, <2>7, <2>8, <3>1, <3>3 DEF Live
  <2> QED BY <1>1, <2>2, <2>10, <2>11, <2>12, <2>13
          DEF NInv, NotesTypeOK, Encrypted, Live, Signed
<1> QED BY <1>5, <1>6

LEMMA NotesInitHolds == NotesInit => NInv
<1> SUFFICES ASSUME NotesInit
             PROVE  NInv
  OBVIOUS
<1>1. RInv /\ TypeOK
  BY MeaningInitHolds DEF NotesInit, RInv, IInv
<1> QED BY <1>1 DEF NotesInit, Init, NInv, NotesTypeOK, Encrypted, Live, Signed

(* The notes are left alone by what changes the identity, and the identity *)
(* keeps its encryption key.                                               *)
LEMMA OperationPreserves ==
  ASSUME NInv, Operation, UNCHANGED <<notes, backup>>,
         drafts' \subseteq MemoryObject,
         Encrypted(drafts'), Live(drafts'), Signed(drafts')
  PROVE  NInv'
<1>1. OperationDone
  BY OperationIsDone DEF NInv, RInv
<1>2. RInv'
  BY MeaningStepHolds DEF NInv, Next
<1>3. KeepsEncryptionKey(mem')
  <2>1. KeepsEncryptionKey(mem)
    BY <1>1 DEF OperationDone, NInv
  <2> QED BY <2>1, OperationKeepsEncryptionKey DEF NInv, RInv
<1>4. file' = file
  BY <1>1 DEF OperationDone
<1>5. NotesTypeOK'
  BY <1>2 DEF NInv, NotesTypeOK, RInv, IInv
<1> QED BY <1>2, <1>3, <1>4, <1>5
        DEF NInv, Encrypted, Live, Signed, KeepsEncryptionKey, MeantIdentity, Sane, Current,
            Fresh, VerifyState

LEMMA NotesStepHolds == NInv /\ [NotesNext]_nvars => NInv'
<1> SUFFICES ASSUME NInv, [NotesNext]_nvars
             PROVE  NInv'
  OBVIOUS
<1> USE DEF Sane, Current, Fresh, VerifyState, MeantIdentity, Live, Signed
<1>1. ASSUME NEW visibility \in Visibilities, AddMemory(visibility)
      PROVE  NInv'
  BY <1>1, AddMemoryKeeps, OperationPreserves DEF AddMemory
<1>2. CASE KeyChange
  <2>1. Operation
    BY <1>2 DEF KeyChange, Operation
  <2> QED BY <1>2, <2>1, OperationPreserves DEF KeyChange, NInv, NotesTypeOK
<1>3. CASE SaveWithNotes
  <2>1. Save /\ notes' = notes \cup drafts /\ drafts' = {} /\ backup' = backup
    BY <1>3 DEF SaveWithNotes
  <2>2. RInv'
    BY <2>1, MeaningStepHolds DEF NInv, Next
  <2>3. NotesTypeOK'
    BY <2>1, <2>2 DEF NInv, NotesTypeOK, RInv, IInv
  <2> QED BY <2>1, <2>2, <2>3 DEF Save, NInv, Encrypted, KeepsEncryptionKey
<1>4. CASE Begin
  <2>1. (New \/ Load) /\ UNCHANGED <<drafts, notes, backup>>
    BY <1>4 DEF Begin
  <2>2. RInv'
    BY <2>1, MeaningStepHolds DEF NInv, Next
  <2>3. KeepsEncryptionKey(mem')
    BY <2>1, NewKeepsEncryptionKey DEF NInv, RInv, Load
  <2>4. file' = file
    BY <2>1 DEF New, Load
  <2>5. NotesTypeOK'
    BY <2>1, <2>2 DEF NInv, NotesTypeOK, RInv, IInv
  <2> QED BY <2>1, <2>2, <2>3, <2>4, <2>5 DEF NInv, Encrypted, KeepsEncryptionKey
<1>5. CASE End
  <2>1. Discard /\ drafts' = {} /\ UNCHANGED <<notes, backup>>
    BY <1>5 DEF End
  <2>2. RInv'
    BY <2>1, MeaningStepHolds DEF NInv, Next
  <2>3. NotesTypeOK'
    BY <2>1, <2>2 DEF NInv, NotesTypeOK, RInv, IInv
  <2> QED BY <2>1, <2>2, <2>3 DEF Discard, NInv, Encrypted, KeepsEncryptionKey
<1>6. CASE ExportBackup
  <2>1. backup' = file /\ UNCHANGED <<vars, drafts, notes>> /\ file # NoFile
    BY <1>6 DEF ExportBackup
  <2>2. RInv'
    BY <2>1, MeaningStepHolds DEF NInv
  <2>3. NotesTypeOK'
    BY <2>1, <2>2 DEF NInv, NotesTypeOK, RInv, IInv, TypeOK
  <2> QED BY <2>1, <2>2, <2>3 DEF NInv, RInv, IInv, vars, Encrypted, KeepsEncryptionKey
<1>7. CASE ImportBackup
  <2>1. /\ file' = backup /\ backup # NoFile /\ mem = NoIdentity
        /\ UNCHANGED <<clock, mem, outcome, drafts, notes, backup>>
    BY <1>7 DEF ImportBackup
  <2>2. TypeOK'
    BY <2>1 DEF NInv, NotesTypeOK, TypeOK
  <2>3. RInv'
    BY <2>1, <2>2 DEF NInv, RInv, IInv
  <2>4. NotesTypeOK'
    BY <2>1, <2>2 DEF NInv, NotesTypeOK
  <2> QED BY <2>1, <2>3, <2>4 DEF NInv, Encrypted, KeepsEncryptionKey
<1>8. CASE UNCHANGED nvars
  <2>1. UNCHANGED <<vars, drafts, notes, backup>>
    BY <1>8 DEF nvars
  <2>2. RInv'
    BY <2>1, MeaningStepHolds DEF NInv
  <2> QED BY <2>1, <2>2 DEF vars, NInv, NotesTypeOK, RInv, IInv, Encrypted, KeepsEncryptionKey
<1> QED BY <1>1, <1>2, <1>3, <1>4, <1>5, <1>6, <1>7, <1>8 DEF NotesNext

LEMMA NotesInvariance == NotesSpec => []NInv
<1> QED BY NotesInitHolds, NotesStepHolds, PTL DEF NotesSpec

(* Notes, drafts and the backup are what types.go says, for any bounds.    *)
THEOREM NotesTypeCorrect == NotesSpec => []NotesTypeOK
<1>1. NInv => NotesTypeOK
  BY DEF NInv
<1> QED BY <1>1, NotesInvariance, PTL

(* The owner can show every private note with the identity as it is saved, *)
(* after any rotations, revocations and restores: there is one encryption  *)
(* key for life, and its private half is never given up (ShowMemory,       *)
(* service.go 299-328).                                                    *)
THEOREM OwnNotesAreShown == NotesSpec => []OwnNotesOpen
<1>1. NInv => OwnNotesOpen
  <2> SUFFICES ASSUME NInv, file # NoFile, NEW note \in notes
               PROVE  ShowMemory(note, file)
    BY DEF OwnNotesOpen
  <2>1. file.preferredEncryption = FirstEncryption
    BY DEF NInv, KeepsEncryptionKey
  <2>2. FirstEncryption \in file.local
    <3>1. PICK n \in 3 .. (Len(file.events) + 2) : file.local = 1 .. n
      BY DEF NInv, RInv, IInv, Sane
    <3>2. Len(file.events) \in Nat
      BY DEF NInv, RInv, IInv, TypeOK, Identity
    <3> QED BY <3>1, <3>2 DEF FirstEncryption
  <2>3. note.visibility = "private" => note.recipient = FirstEncryption
    BY DEF NInv, Encrypted
  <2> QED BY <2>1, <2>2, <2>3 DEF ShowMemory, DecryptObject
<1> QED BY <1>1, NotesInvariance, PTL

(* No private note is encrypted to a key that was revoked before its event *)
(* (AddMemory, EncryptionKeyID).                                           *)
THEOREM PrivateNotesHaveLiveKeys == NotesSpec => []PrivateNotesUseALiveKey
<1>1. NInv => PrivateNotesUseALiveKey
  BY DEF NInv, Live, PrivateNotesUseALiveKey
<1> QED BY <1>1, NotesInvariance, PTL

(* Every note is signed by the root in force at its event, the signer of   *)
(* that event (SignObject, AddMemory).                                     *)
THEOREM NotesAreSignedByTheirRoot == NotesSpec => []NotesSignedByTheirRoot
<1>1. NInv => NotesSignedByTheirRoot
  BY DEF NInv, Signed, NotesSignedByTheirRoot
<1> QED BY <1>1, NotesInvariance, PTL

=============================================================================
