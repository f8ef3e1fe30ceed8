------------------------- MODULE Publication_proofs -------------------------
(***************************************************************************)
(* Theorems about Publication for every set of callers and attestations    *)
(* and every bound: no private memory is offered, peers get whole files the*)
(* state refers to, and every attestation a publication includes is read.  *)
(* The invariant of IdentityStore_proofs is used as it is.                 *)
(***************************************************************************)
EXTENDS Publication, IdentityStore_proofs

IdsUpTo(chain, n) == \A i \in DOMAIN chain : chain[i].id <= n

(* No chain anywhere holds an event that has not been signed.              *)
ChainsSigned ==
    /\ IdsUpTo(identity.chain, made) /\ IdsUpTo(backup.chain, made)
    /\ \A p \in Proc : IdsUpTo(copy[p], made)

StateSigned == IdsUpTo(state, made)

(* What is offered was signed, is public, and is referred to.              *)
ObjectsPublic ==
    \A f \in OtherFiles : MemoryFile(f) /\ objects[f] # "absent" =>
        f.of <= made /\ f.of \notin private

ObjectsReferenced ==
    \A f \in OtherFiles : objects[f] # "absent" =>
        /\ phase # "off"
        /\ \/ f.kind = "attestation" /\ f.of \in Refs(state)
           \/ /\ MemoryFile(f)
              /\ \E e \in Events(state) : e.kind = "memory" /\ e.id = f.of

(* The attestations of a publication are on disk, and read or still to be. *)
AttestationsReachable ==
    phase # "off" /\ include =>
        \A cid \in Refs(state) :
            /\ others[AttestationFile(cid)] # "absent"
            /\ cid \in left \/ objects[AttestationFile(cid)] # "absent"

LeftRead == (phase = "serving" => left = {}) /\ left \subseteq Refs(state)

PIInv ==
    /\ IInv /\ PublicationTypeOK /\ ChainsSigned /\ StateSigned
    /\ ObjectsPublic /\ ObjectsReferenced /\ AttestationsReachable /\ LeftRead
    /\ FetchedIsReferenced

-----------------------------------------------------------------------------
(* What a step of a handler does to the chains and the files.              *)

LEMMA MadeIsNat == TypeOK => made \in Nat
  BY StoreAssumption DEF TypeOK

(* Appending the event just signed keeps a chain signed.                   *)
LEMMA AppendSigned ==
  ASSUME NEW chain \in Seq(Event), NEW e \in Event, NEW n \in Nat, e.id = n + 1, IdsUpTo(chain, n)
  PROVE  IdsUpTo(Append(chain, e), n + 1)
<1> DEFINE longer == Append(chain, e)
<1> SUFFICES ASSUME NEW i \in DOMAIN longer PROVE longer[i].id <= n + 1
  BY DEF IdsUpTo
<1>1. DOMAIN longer = 1 .. Len(chain) + 1 /\ DOMAIN chain = 1 .. Len(chain)
  OBVIOUS
<1>2. CASE i = Len(chain) + 1
  <2>1. longer[i] = e
    BY <1>2
  <2> QED BY <2>1
<1>3. CASE i # Len(chain) + 1
  <2>1. i \in DOMAIN chain /\ longer[i] = chain[i]
    BY <1>1, <1>3
  <2>2. chain[i].id \in Int
    <3>1. chain[i] \in Event
      BY <2>1
    <3> QED BY <3>1, StoreAssumption DEF Event, EventIds
  <2> QED BY <2>1, <2>2 DEF IdsUpTo
<1> QED BY <1>2, <1>3

(* A chain signed by now stays signed when more is signed.                 *)
LEMMA SignedStays ==
  ASSUME NEW chain \in Seq(Event), NEW n \in Nat, NEW m \in Nat, n <= m, IdsUpTo(chain, n)
  PROVE  IdsUpTo(chain, m)
<1> SUFFICES ASSUME NEW i \in DOMAIN chain PROVE chain[i].id <= m
  BY DEF IdsUpTo
<1>1. chain[i].id \in Int
  <2>1. chain[i] \in Event
    OBVIOUS
  <2> QED BY <2>1, StoreAssumption DEF Event, EventIds
<1> QED BY <1>1 DEF IdsUpTo

LEMMA EmptySigned == \A n : IdsUpTo(<<>>, n)
  BY DEF IdsUpTo

(* Beginning a handler with a signed chain keeps all chains signed.        *)
LEMMA BeginKeepsSigned ==
  ASSUME IInv, ChainsSigned, NEW p \in Proc, NEW chain \in Seq(Event), NEW files, NEW events,
         made' \in Nat, made <= made', IdsUpTo(chain, made'), Begin(p, chain, files, events)
  PROVE  ChainsSigned'
<1>1. made \in Nat /\ identity.chain \in Seq(Event) /\ backup.chain \in Seq(Event)
      /\ copy \in [Proc -> Seq(Event)]
  BY MadeIsNat DEF IInv, TypeOK, Content
<1>2. IdsUpTo(identity.chain, made') /\ IdsUpTo(backup.chain, made')
  BY <1>1, SignedStays DEF ChainsSigned
<1>3. \A q \in Proc : IdsUpTo(copy[q], made')
  BY <1>1, SignedStays DEF ChainsSigned
<1>4. \A q \in Proc : IdsUpTo(copy'[q], made')
  BY <1>1, <1>3 DEF Begin
<1>5. UNCHANGED <<identity, backup>>
  BY DEF Begin
<1> QED BY <1>2, <1>4, <1>5 DEF ChainsSigned

(* The handlers that sign put what they signed at the end of the chain they*)
(* loaded, or begin a chain with it.                                       *)
LEMMA SigningKeepsSigned ==
  ASSUME IInv, ChainsSigned, NEW p \in Proc,
         \/ AddMemory(p) \/ ChangeKeys(p) \/ CreateIdentity(p)
         \/ \E cid \in Attestations : AttachAttestation(p, cid)
  PROVE  /\ ChainsSigned' /\ made' = made + 1 /\ UNCHANGED others
         /\ \A e \in change'[p] : e.id = made + 1
<1>1. /\ made \in Nat /\ made' = made + 1 /\ made' \in Nat /\ made <= made'
      /\ made + 1 \in EventIds
  <2>1. made \in Nat /\ MaxEvents \in Nat
    BY MadeIsNat, StoreAssumption DEF IInv
  <2>2. made < MaxEvents /\ made' = made + 1
    BY DEF AddMemory, ChangeKeys, CreateIdentity, AttachAttestation, SignEvent
  <2> QED BY <2>1, <2>2 DEF EventIds
<1>2. change \in [Proc -> SUBSET Event]
  BY DEF IInv, TypeOK
<1>3. CASE CreateIdentity(p)
  <2> DEFINE e == [id |-> made + 1, kind |-> "create", did |-> made + 1, cid |-> NoCid]
  <2>1. e \in Event /\ e.id = made + 1
    BY <1>1 DEF Event
  <2>2. Begin(p, <<e>>, <<IdentityFile>>, {e})
    BY <1>3 DEF CreateIdentity
  <2> HIDE DEF e
  <2>3. <<e>> \in Seq(Event) /\ IdsUpTo(<<e>>, made')
    BY <2>1, <1>1 DEF IdsUpTo
  <2>4. ChainsSigned'
    BY <2>2, <2>3, <1>1, BeginKeepsSigned
  <2> QED BY <2>1, <2>2, <2>4, <1>1, <1>2 DEF Begin
<1>4. CASE \/ AddMemory(p) \/ ChangeKeys(p)
           \/ \E cid \in Attestations : AttachAttestation(p, cid)
  <2>1. identity.chain \in Seq(Event) /\ identity.chain # <<>>
    BY <1>4 DEF AddMemory, ChangeKeys, AttachAttestation, LoadIdentity, IInv, TypeOK, Content, Working
  <2>2. identity.chain[1].did \in EventIds
    <3>1. identity.chain[1] \in Event
      BY <2>1
    <3> QED BY <3>1 DEF Event
  <2>3. PICK e : e \in Event /\ e.id = made + 1
                 /\ \E files : Begin(p, Append(identity.chain, e), files, {e})
    <3> DEFINE Signs == \E e : e \in Event /\ e.id = made + 1
                            /\ \E files : Begin(p, Append(identity.chain, e), files, {e})
    <3>1. ASSUME AddMemory(p) PROVE Signs
      <4>1. FreshEvent("memory", NoCid) \in Event /\ FreshEvent("memory", NoCid).id = made + 1
        BY <1>1, <2>2 DEF FreshEvent, Event
      <4>2. \E files : Begin(p, Append(identity.chain, FreshEvent("memory", NoCid)), files,
                             {FreshEvent("memory", NoCid)})
        BY <3>1 DEF AddMemory
      <4> QED BY <4>1, <4>2
    <3>2. ASSUME ChangeKeys(p) PROVE Signs
      <4>1. FreshEvent("keys", NoCid) \in Event /\ FreshEvent("keys", NoCid).id = made + 1
        BY <1>1, <2>2 DEF FreshEvent, Event
      <4>2. \E files : Begin(p, Append(identity.chain, FreshEvent("keys", NoCid)), files,
                             {FreshEvent("keys", NoCid)})
        BY <3>2 DEF ChangeKeys
      <4> QED BY <4>1, <4>2
    <3>3. ASSUME NEW cid \in Attestations, AttachAttestation(p, cid) PROVE Signs
      <4>1. FreshEvent("attach", cid) \in Event /\ FreshEvent("attach", cid).id = made + 1
        BY <1>1, <2>2 DEF FreshEvent, Event
      <4>2. \E files : Begin(p, Append(identity.chain, FreshEvent("attach", cid)), files,
                             {FreshEvent("attach", cid)})
        BY <3>3 DEF AttachAttestation
      <4> QED BY <4>1, <4>2
    <3> HIDE DEF Signs
    <3>4. Signs
      BY <1>4, <3>1, <3>2, <3>3
    <3> QED BY <3>4 DEF Signs
  <2>4. Append(identity.chain, e) \in Seq(Event) /\ IdsUpTo(Append(identity.chain, e), made')
    BY <2>1, <2>3, <1>1, AppendSigned DEF ChainsSigned
  <2>5. ChainsSigned'
    BY <2>3, <2>4, <1>1, BeginKeepsSigned
  <2> QED BY <2>3, <2>5, <1>1, <1>2 DEF Begin
<1> QED BY <1>3, <1>4

(* A file that was created is there for good.                              *)
FilesStay == \A f \in OtherFiles : others[f] # "absent" => others'[f] # "absent"

LEMMA StepKeepsSigned ==
  ASSUME IInv, ChainsSigned, [Next]_vars
  PROVE  ChainsSigned' /\ made <= made' /\ made' \in Nat /\ FilesStay
<1>0. /\ made \in Nat /\ copy \in [Proc -> Seq(Event)]
      /\ others \in [OtherFiles -> {"absent", "partial", "whole"}]
  BY MadeIsNat DEF IInv, TypeOK
<1>1. ASSUME NEW p \in Proc,
             \/ AddMemory(p) \/ ChangeKeys(p) \/ CreateIdentity(p)
             \/ \E cid \in Attestations : AttachAttestation(p, cid)
      PROVE  ChainsSigned' /\ made <= made' /\ made' \in Nat /\ FilesStay
  BY <1>0, <1>1, SigningKeepsSigned DEF FilesStay
<1>2. ASSUME NEW p \in Proc, ImportBackup(p)
      PROVE  ChainsSigned' /\ made <= made' /\ made' \in Nat /\ FilesStay
  <2>1. backup.chain \in Seq(Event) /\ IdsUpTo(backup.chain, made) /\ made' = made
    BY <1>2 DEF IInv, TypeOK, Content, ChainsSigned, ImportBackup
  <2>2. Begin(p, backup.chain, <<IdentityFile>>, {})
    BY <1>2 DEF ImportBackup
  <2>3. ChainsSigned'
    BY <2>1, <2>2, <1>0, BeginKeepsSigned
  <2>4. UNCHANGED others
    BY <2>2 DEF Begin
  <2> QED BY <2>1, <2>3, <2>4, <1>0 DEF FilesStay
<1>3. ASSUME NEW p \in Proc, ExportBackup(p)
      PROVE  ChainsSigned' /\ made <= made' /\ made' \in Nat /\ FilesStay
  BY <1>0, <1>3 DEF ExportBackup, ChainsSigned, FilesStay
<1>4. ASSUME NEW p \in Proc, OpenFile(p)
      PROVE  ChainsSigned' /\ made <= made' /\ made' \in Nat /\ FilesStay
  <2>1. UNCHANGED <<copy, backup, made>> /\ (UNCHANGED identity \/ identity' = Empty)
    BY <1>4 DEF OpenFile
  <2>2. FilesStay
    BY <1>0, <1>4 DEF OpenFile, FilesStay
  <2> QED BY <2>1, <2>2, <1>0, EmptySigned DEF ChainsSigned, Empty
<1>5. ASSUME NEW p \in Proc, WriteFile(p)
      PROVE  ChainsSigned' /\ made <= made' /\ made' \in Nat /\ FilesStay
  <2>1. /\ UNCHANGED <<backup, made>>
        /\ UNCHANGED identity \/ identity' \in {Whole(copy[p]), Torn}
    BY <1>5 DEF WriteFile, WriteOutcomes
  <2>2. copy' \in {copy, [copy EXCEPT ![p] = <<>>]}
    BY <1>5 DEF WriteFile, Finish, Continue, Return
  <2>3. FilesStay
    BY <1>0, <1>5 DEF WriteFile, FilesStay
  <2>4. \A q \in Proc : IdsUpTo(copy'[q], made)
    BY <2>2, <1>0, EmptySigned DEF ChainsSigned
  <2> QED BY <2>1, <2>3, <2>4, <1>0, EmptySigned DEF ChainsSigned, Whole, Torn
<1>6. ASSUME NEW p \in Proc, Abandon(p) \/ RefuseAttachment(p)
      PROVE  ChainsSigned' /\ made <= made' /\ made' \in Nat /\ FilesStay
  <2>1. /\ UNCHANGED <<backup, made, others>> /\ (UNCHANGED identity \/ identity' = Torn)
        /\ copy' = [copy EXCEPT ![p] = <<>>]
    BY <1>6 DEF Abandon, RefuseAttachment, Return
  <2> QED BY <2>1, <1>0, EmptySigned DEF ChainsSigned, Torn, FilesStay
<1>7. ASSUME Crash PROVE ChainsSigned' /\ made <= made' /\ made' \in Nat /\ FilesStay
  BY <1>0, <1>7, EmptySigned DEF Crash, ChainsSigned, FilesStay
<1>8. CASE UNCHANGED vars
  BY <1>0, <1>8 DEF vars, ChainsSigned, FilesStay
<1> QED BY <1>1, <1>2, <1>3, <1>4, <1>5, <1>6, <1>7, <1>8 DEF Next, Step

(* Only a handler that signs counts an event, and it made that event.      *)
LEMMA SignedIsNew ==
  ASSUME IInv, ChainsSigned, NEW p \in Proc, Step(p), made' > made
  PROVE  \A e \in change'[p] : e.id = made + 1
<1>1. made \in Nat
  BY MadeIsNat DEF IInv
<1>2. ~(\/ ImportBackup(p) \/ ExportBackup(p) \/ OpenFile(p) \/ WriteFile(p)
        \/ Abandon(p) \/ RefuseAttachment(p))
  BY <1>1 DEF ImportBackup, ExportBackup, OpenFile, WriteFile, Abandon, RefuseAttachment
<1> QED BY <1>2, SigningKeepsSigned DEF Step

-----------------------------------------------------------------------------
(* The publication.                                                        *)

LEMMA FileTypes ==
  ASSUME NEW f \in OtherFiles
  PROVE  /\ f.kind \in {"attestation", "object", "manifest"}
         /\ f.kind = "attestation" => f.of \in Attestations /\ f = AttestationFile(f.of)
         /\ MemoryFile(f) => f.of \in EventIds
  BY DEF OtherFiles, MemoryFile, AttestationFile

(* A public memory root is a memory of the chain, and not a private one.   *)
LEMMA RootIsPublic ==
  ASSUME NEW chain \in Seq(Event), NEW e \in PublicMemoryRoot(chain)
  PROVE  /\ e \in Event /\ e \in Events(chain) /\ e.kind = "memory"
         /\ e.id \in EventIds /\ e.id \notin private
         /\ \A n : IdsUpTo(chain, n) => e.id <= n
         /\ ManifestFile(e) \in OtherFiles /\ ObjectFile(e) \in OtherFiles
<1>1. PICK i \in DOMAIN chain : e = chain[i] /\ e.kind = "memory" /\ e.id \in EventIds \ private
  BY DEF PublicMemoryRoot, MemoryOf
<1>2. e \in Event
  BY <1>1
<1> QED BY <1>1, <1>2 DEF Events, IdsUpTo, ManifestFile, ObjectFile, OtherFiles

LEMMA InitPIInv == PInit => PIInv
<1> SUFFICES ASSUME PInit PROVE PIInv
  OBVIOUS
<1>1. IInv
  BY InitIInv DEF PInit
<1>2. PublicationTypeOK
  <2>1. <<>> \in Seq(Event)
    OBVIOUS
  <2> QED BY <2>1 DEF PInit, PublicationTypeOK
<1>3. ChainsSigned /\ StateSigned
  BY EmptySigned DEF PInit, Init, Absent, ChainsSigned, StateSigned
<1>4. ObjectsPublic /\ ObjectsReferenced /\ AttestationsReachable /\ LeftRead /\ FetchedIsReferenced
  BY DEF PInit, ObjectsPublic, ObjectsReferenced, AttestationsReachable, LeftRead, FetchedIsReferenced
<1> QED BY <1>1, <1>2, <1>3, <1>4 DEF PIInv

(* What becomes private is the event signed by the same step.              *)
LEMMA PrivateIsNew ==
  ASSUME PIInv, IInv', \/ \E p \in Proc : StoreStep(p)
                       \/ CrashWithPublication
  PROVE  /\ private' \subseteq EventIds
         /\ private \subseteq private'
         /\ \A i \in private' \ private : i > made
<1>1. made \in Nat
  BY MadeIsNat DEF PIInv, IInv
<1>2. ASSUME NEW p \in Proc, StoreStep(p), made' > made,
             NEW e \in change'[p], private' = private \cup {e.id}
      PROVE  e.id = made + 1 /\ e.id \in EventIds
  <2>1. e.id = made + 1
    BY <1>2, SignedIsNew DEF StoreStep, PIInv
  <2>2. change' \in [Proc -> SUBSET Event]
    BY DEF IInv, TypeOK
  <2>3. e \in Event
    BY <2>2
  <2> QED BY <2>1, <2>3 DEF Event
<1>3. private' = private \/ \E i \in EventIds : i = made + 1 /\ private' = private \cup {i}
  BY <1>2 DEF StoreStep, CrashWithPublication
<1>4. private \subseteq EventIds
  BY DEF PIInv, PublicationTypeOK
<1> QED BY <1>1, <1>3, <1>4

(* Steps of the owner's handlers, and the end of the console.              *)
LEMMA StoreKeepsPIInv ==
  ASSUME PIInv, \/ \E p \in Proc : StoreStep(p)
                \/ CrashWithPublication
  PROVE  PIInv'
<1>1. [Next]_vars
  BY DEF StoreStep, CrashWithPublication, Next
<1>2. IInv'
  BY <1>1, NextKeepsIInv DEF PIInv
<1>3. ChainsSigned' /\ made <= made' /\ made' \in Nat /\ made \in Nat /\ FilesStay
  BY <1>1, StepKeepsSigned, MadeIsNat DEF PIInv, IInv
<1>4. /\ UNCHANGED <<state, left, include, fetched>>
      /\ UNCHANGED <<phase, objects>> \/ (phase' = "off" /\ objects' = [f \in OtherFiles |-> "absent"])
  BY DEF StoreStep, CrashWithPublication, publication
<1>5. /\ private' \subseteq EventIds
      /\ \A i \in private' \ private : i > made
  BY <1>2, PrivateIsNew
<1>6. PublicationTypeOK'
  BY <1>4, <1>5 DEF PIInv, PublicationTypeOK, StoreStep, CrashWithPublication, publication
<1>7. StateSigned'
  BY <1>3, <1>4, SignedStays DEF PIInv, StateSigned, PublicationTypeOK
<1>8. ObjectsPublic'
  <2> SUFFICES ASSUME NEW f \in OtherFiles, MemoryFile(f), objects'[f] # "absent"
               PROVE  f.of <= made' /\ f.of \notin private'
    BY DEF ObjectsPublic, MemoryFile
  <2>1. objects[f] # "absent"
    BY <1>4
  <2>2. f.of <= made /\ f.of \notin private /\ f.of \in EventIds
    BY <2>1, FileTypes DEF PIInv, ObjectsPublic
  <2>3. f.of \in Int
    BY <2>2, StoreAssumption DEF EventIds
  <2> QED BY <2>2, <2>3, <1>3, <1>5
<1>9. ObjectsReferenced' /\ LeftRead'
  BY <1>4 DEF PIInv, ObjectsReferenced, LeftRead, MemoryFile
<1>10. AttestationsReachable'
  <2> SUFFICES ASSUME phase' # "off", include', NEW cid \in Refs(state)
               PROVE  /\ others'[AttestationFile(cid)] # "absent"
                      /\ cid \in left' \/ objects'[AttestationFile(cid)] # "absent"
    BY <1>4 DEF AttestationsReachable
  <2>1. cid \in Attestations
    BY RefsTyped DEF PIInv, PublicationTypeOK
  <2>2. AttestationFile(cid) \in OtherFiles
    BY <2>1 DEF AttestationFile, OtherFiles
  <2> QED BY <1>3, <1>4, <2>2 DEF PIInv, AttestationsReachable, FilesStay
<1>11. FetchedIsReferenced'
  BY <1>4 DEF PIInv, FetchedIsReferenced, MemoryFile
<1> QED BY <1>2, <1>3, <1>6, <1>7, <1>8, <1>9, <1>10, <1>11 DEF PIInv

LEMMA StartKeepsPIInv ==
  ASSUME PIInv, NEW withAttestations \in BOOLEAN, StartPublish(withAttestations)
  PROVE  PIInv'
<1> USE DEF PIInv
<1>1. [Next]_vars /\ UNCHANGED <<vars, private, objects, fetched>>
  BY DEF StartPublish
<1>2. IInv' /\ ChainsSigned'
  BY <1>1, NextKeepsIInv, StepKeepsSigned
<1>3. /\ identity.chain \in Seq(Event) /\ state' = identity.chain
      /\ phase = "off" /\ phase' = "manifest"
      /\ include' \in BOOLEAN
      /\ include' => left' = Refs(state')
      /\ left' \in {{}, Refs(state')}
  BY DEF StartPublish, IInv, TypeOK, Content
<1>4. Refs(state') \subseteq Attestations
  BY <1>3, RefsTyped
<1>5. PublicationTypeOK'
  <2>1. settled' \in BOOLEAN
    BY DEF StartPublish
  <2> QED BY <1>1, <1>3, <1>4, <2>1 DEF PublicationTypeOK
<1>6. StateSigned'
  BY <1>1, <1>3 DEF StateSigned, ChainsSigned, vars
<1>7. \A f \in OtherFiles : objects[f] = "absent"
  BY <1>3 DEF ObjectsReferenced
<1>8. ObjectsPublic' /\ ObjectsReferenced' /\ LeftRead'
  BY <1>1, <1>3, <1>7 DEF ObjectsPublic, ObjectsReferenced, LeftRead
<1>9. AttestationsReachable'
  <2>1. \A cid \in Refs(identity.chain) : others[AttestationFile(cid)] # "absent"
    BY DEF IInv, AttachedFileExists
  <2> QED BY <1>1, <1>3, <2>1 DEF AttestationsReachable, vars
<1>10. FetchedIsReferenced'
  BY <1>1 DEF FetchedIsReferenced, MemoryFile
<1> QED BY <1>2, <1>5, <1>6, <1>8, <1>9, <1>10

(* Reading one file of those the state refers to.                          *)
LEMMA ReadKeepsPIInv ==
  ASSUME PIInv, ReadManifest \/ ReadObject \/ ReadAttestation
  PROVE  PIInv'
<1> USE DEF PIInv
<1>1. UNCHANGED <<vars, private, state, include, settled, fetched>> /\ phase # "off" /\ phase' # "off"
      /\ phase' \in {"object", "attestations"} /\ left' \subseteq left
  BY DEF ReadManifest, ReadObject, ReadAttestation
<1>2. IInv' /\ ChainsSigned' /\ StateSigned'
  BY <1>1, NextKeepsIInv, StepKeepsSigned DEF StateSigned, vars
<1>3. /\ state \in Seq(Event) /\ left \subseteq Attestations
      /\ objects \in [OtherFiles -> {"absent", "partial", "whole"}]
      /\ others \in [OtherFiles -> {"absent", "partial", "whole"}]
  BY DEF PublicationTypeOK, IInv, TypeOK
<1>4. \/ UNCHANGED <<objects, left>>
      \/ \E f \in OtherFiles :
           /\ MemoryFile(f) /\ f.of <= made /\ f.of \notin private
           /\ \E e \in Events(state) : e.kind = "memory" /\ e.id = f.of
           /\ objects' = [objects EXCEPT ![f] = others[f]] /\ left' = left
      \/ \E cid \in left :
           /\ left' = left \ {cid}
           /\ objects' = [objects EXCEPT ![AttestationFile(cid)] = others[AttestationFile(cid)]]
  <2>1. ASSUME ReadManifest PROVE <1>4
    BY <2>1, <1>3, RootIsPublic
    DEF ReadManifest, StoreObject, MemoryFile, ManifestFile, StateSigned
  <2>2. ASSUME ReadObject PROVE <1>4
    BY <2>2, <1>3, RootIsPublic
    DEF ReadObject, StoreObject, MemoryFile, ObjectFile, StateSigned
  <2>3. ASSUME ReadAttestation PROVE <1>4
    BY <2>3 DEF ReadAttestation, StoreObject
  <2> QED BY <2>1, <2>2, <2>3
<1>5. CASE UNCHANGED <<objects, left>>
  <2>1. PublicationTypeOK' /\ ObjectsPublic' /\ ObjectsReferenced' /\ LeftRead'
    BY <1>1, <1>5 DEF PublicationTypeOK, ObjectsPublic, ObjectsReferenced, LeftRead, MemoryFile, vars
  <2>2. AttestationsReachable' /\ FetchedIsReferenced'
    BY <1>1, <1>5 DEF AttestationsReachable, FetchedIsReferenced, MemoryFile, vars
  <2> QED BY <1>2, <2>1, <2>2
<1>6. ASSUME NEW f \in OtherFiles,
             MemoryFile(f), f.of <= made, f.of \notin private,
             \E e \in Events(state) : e.kind = "memory" /\ e.id = f.of,
             objects' = [objects EXCEPT ![f] = others[f]], left' = left
      PROVE  PIInv'
  <2>1. PublicationTypeOK' /\ LeftRead'
    BY <1>1, <1>3, <1>6 DEF PublicationTypeOK, LeftRead
  <2>2. ObjectsPublic' /\ ObjectsReferenced'
    BY <1>1, <1>3, <1>6 DEF ObjectsPublic, ObjectsReferenced, MemoryFile, vars
  <2>3. \A cid : AttestationFile(cid) # f
    BY <1>6 DEF MemoryFile, AttestationFile
  <2>4. AttestationsReachable' /\ FetchedIsReferenced'
    BY <1>1, <1>3, <1>6, <2>3 DEF AttestationsReachable, FetchedIsReferenced, MemoryFile, vars
  <2> QED BY <1>2, <2>1, <2>2, <2>4
<1>7. ASSUME NEW cid \in left, left' = left \ {cid},
             objects' = [objects EXCEPT ![AttestationFile(cid)] = others[AttestationFile(cid)]]
      PROVE  PIInv'
  <2>0. PICK f \in OtherFiles : f = AttestationFile(cid) /\ ~MemoryFile(f) /\ f.kind = "attestation"
                                /\ f.of = cid
    <3>1. cid \in Attestations
      BY <1>3
    <3>2. AttestationFile(cid) \in OtherFiles
      BY <3>1 DEF AttestationFile, OtherFiles
    <3>3. AttestationFile(cid).kind = "attestation" /\ AttestationFile(cid).of = cid
      BY DEF AttestationFile
    <3> QED BY <3>2, <3>3 DEF MemoryFile
  <2>00. \A c : c # cid => AttestationFile(c) # f
    BY <2>0 DEF AttestationFile
  <2>1. PublicationTypeOK' /\ LeftRead'
    BY <1>1, <1>3, <1>7, <2>0 DEF PublicationTypeOK, LeftRead
  <2>2. ObjectsPublic'
    BY <1>1, <1>3, <1>7, <2>0 DEF ObjectsPublic, MemoryFile, vars
  <2>3. ObjectsReferenced'
    BY <1>1, <1>3, <1>7, <2>0 DEF LeftRead, ObjectsReferenced, MemoryFile, vars
  <2>4. AttestationsReachable'
    <3> SUFFICES ASSUME include, NEW c \in Refs(state)
                 PROVE  /\ others[AttestationFile(c)] # "absent"
                        /\ c \in left' \/ objects'[AttestationFile(c)] # "absent"
      BY <1>1 DEF AttestationsReachable, vars
    <3>1. /\ others[AttestationFile(c)] # "absent"
          /\ c \in left \/ objects[AttestationFile(c)] # "absent"
      BY <1>1 DEF AttestationsReachable
    <3>2. c \in Attestations /\ AttestationFile(c) \in OtherFiles
      <4>1. c \in Attestations
        BY <1>3, RefsTyped
      <4> QED BY <4>1 DEF AttestationFile, OtherFiles
    <3>3. CASE c = cid
      BY <3>1, <3>2, <3>3, <1>3, <1>7
    <3>4. CASE c # cid
      BY <3>1, <3>2, <3>4, <1>3, <1>7, <2>0, <2>00
    <3> QED BY <3>3, <3>4
  <2>5. FetchedIsReferenced'
    BY <1>1 DEF FetchedIsReferenced, MemoryFile
  <2> QED BY <1>2, <2>1, <2>2, <2>3, <2>4, <2>5
<1> QED BY <1>4, <1>5, <1>6, <1>7

LEMMA ServeKeepsPIInv ==
  ASSUME PIInv, Serve \/ EndPublication
  PROVE  PIInv'
<1> USE DEF PIInv
<1>1. /\ UNCHANGED <<vars, private, state, left, include, settled, fetched>>
      /\ \/ phase = "attestations" /\ phase' = "serving" /\ left = {} /\ UNCHANGED objects
         \/ phase' = "off" /\ objects' = [f \in OtherFiles |-> "absent"]
  BY DEF Serve, EndPublication
<1>2. IInv' /\ ChainsSigned' /\ StateSigned'
  BY <1>1, NextKeepsIInv, StepKeepsSigned DEF StateSigned, vars
<1>3. PublicationTypeOK' /\ FetchedIsReferenced'
  BY <1>1 DEF PublicationTypeOK, FetchedIsReferenced, MemoryFile
<1>4. ObjectsPublic' /\ ObjectsReferenced' /\ LeftRead'
  BY <1>1 DEF ObjectsPublic, ObjectsReferenced, LeftRead, MemoryFile, vars
<1>5. AttestationsReachable'
  BY <1>1 DEF AttestationsReachable, vars
<1> QED BY <1>2, <1>3, <1>4, <1>5

LEMMA FetchKeepsPIInv ==
  ASSUME PIInv, NEW file \in OtherFiles, ResolveObjectRemote(file)
  PROVE  PIInv'
<1> USE DEF PIInv
<1>1. /\ UNCHANGED <<vars, private, phase, state, left, include, settled, objects>>
      /\ objects[file] = "whole"
      /\ fetched' = [file |-> file, content |-> "whole", from |-> state]
  BY DEF ResolveObjectRemote, HandleObjectStream, VerifyObjectCID, publication
<1>2. IInv' /\ ChainsSigned' /\ StateSigned'
  BY <1>1, NextKeepsIInv, StepKeepsSigned DEF StateSigned, vars
<1>3. PublicationTypeOK'
  BY <1>1 DEF PublicationTypeOK
<1>4. ObjectsPublic' /\ ObjectsReferenced' /\ LeftRead' /\ AttestationsReachable'
  BY <1>1 DEF ObjectsPublic, ObjectsReferenced, LeftRead, AttestationsReachable, MemoryFile, vars
<1>5. FetchedIsReferenced'
  <2>1. objects[file] # "absent"
    BY <1>1
  <2> QED BY <1>1, <2>1 DEF FetchedIsReferenced, ObjectsReferenced, MemoryFile
<1> QED BY <1>2, <1>3, <1>4, <1>5

LEMMA NextKeepsPIInv == PIInv /\ [PNext]_pvars => PIInv'
<1> SUFFICES ASSUME PIInv, [PNext]_pvars PROVE PIInv'
  OBVIOUS
<1>1. CASE PNext
  BY <1>1, StoreKeepsPIInv, StartKeepsPIInv, ReadKeepsPIInv, ServeKeepsPIInv, FetchKeepsPIInv
  DEF PNext
<1>2. CASE UNCHANGED pvars
  <2>1. UNCHANGED <<vars, private, phase, state, left, include, settled, objects, fetched>>
    BY <1>2 DEF pvars, publication
  <2>2. IInv' /\ ChainsSigned' /\ StateSigned'
    BY <2>1, NextKeepsIInv, StepKeepsSigned DEF PIInv, StateSigned, vars
  <2>3. PublicationTypeOK' /\ FetchedIsReferenced'
    BY <2>1 DEF PIInv, PublicationTypeOK, FetchedIsReferenced, MemoryFile
  <2>4. ObjectsPublic' /\ ObjectsReferenced' /\ LeftRead' /\ AttestationsReachable'
    BY <2>1 DEF PIInv, ObjectsPublic, ObjectsReferenced, LeftRead, AttestationsReachable,
                MemoryFile, vars
  <2> QED BY <2>2, <2>3, <2>4 DEF PIInv
<1> QED BY <1>1, <1>2

-----------------------------------------------------------------------------
(* A publication whose memory had been returned when it loaded: the files  *)
(* of that memory are on disk, and stay.                                   *)

QInv ==
    settled => \A e \in PublicMemoryRoot(state) :
      /\ phase # "off" => e \in returned
      /\ phase = "object" => objects[ManifestFile(e)] = "whole"
      /\ phase \in {"attestations", "serving"} => MemoryOffered(e)

(* There is one last memory at most.                                       *)
LEMMA RootIsOne ==
  ASSUME NEW chain \in Seq(Event), NEW d \in PublicMemoryRoot(chain), NEW e \in PublicMemoryRoot(chain)
  PROVE  d = e
<1> DEFINE public == MemoryOf(chain, EventIds \ private)
<1>1. PICK i \in public : d = chain[i] /\ \A j \in public : j <= i
  BY DEF PublicMemoryRoot
<1>2. PICK k \in public : e = chain[k] /\ \A j \in public : j <= k
  BY DEF PublicMemoryRoot
<1>3. i \in Int /\ k \in Int
  BY DEF MemoryOf
<1>4. i <= k /\ k <= i
  BY <1>1, <1>2
<1>5. i = k
  BY <1>3, <1>4
<1> QED BY <1>1, <1>2, <1>5

(* What is signed later does not move the root of what is published.       *)
LEMMA RootStays ==
  ASSUME NEW chain \in Seq(Event), made \in Nat, IdsUpTo(chain, made),
         private \subseteq private', \A i \in private' \ private : i > made
  PROVE  {chain[i] : i \in {i \in MemoryOf(chain, EventIds \ private') :
                              \A j \in MemoryOf(chain, EventIds \ private') : j <= i}}
           = PublicMemoryRoot(chain)
<1>1. ASSUME NEW i \in DOMAIN chain
      PROVE  chain[i].id \in EventIds \ private <=> chain[i].id \in EventIds \ private'
  <2>1. chain[i].id <= made
    BY DEF IdsUpTo
  <2>2. CASE chain[i].id \in EventIds
    BY <2>1, <2>2, StoreAssumption DEF EventIds
  <2>3. CASE chain[i].id \notin EventIds
    BY <2>3
  <2> QED BY <2>2, <2>3
<1>2. MemoryOf(chain, EventIds \ private') = MemoryOf(chain, EventIds \ private)
  BY <1>1 DEF MemoryOf
<1> QED BY <1>2 DEF PublicMemoryRoot

LEMMA InitQInv == PInit => QInv
  BY DEF PInit, QInv

LEMMA StoreKeepsQInv ==
  ASSUME PIInv, PIInv', QInv, \/ \E p \in Proc : StoreStep(p)
                              \/ CrashWithPublication
  PROVE  QInv'
<1>1. /\ UNCHANGED <<state, settled>>
      /\ UNCHANGED <<phase, objects>> \/ phase' = "off"
  BY DEF StoreStep, CrashWithPublication, publication
<1>2. IInv'
  BY DEF PIInv
<1>3. state \in Seq(Event) /\ made \in Nat /\ IdsUpTo(state, made)
  BY MadeIsNat DEF PIInv, IInv, PublicationTypeOK, StateSigned
<1>4. PublicMemoryRoot(state)' = PublicMemoryRoot(state)
  BY <1>1, <1>2, <1>3, PrivateIsNew, RootStays DEF PublicMemoryRoot, MemoryOf
<1>5. [Next]_vars
  BY DEF StoreStep, CrashWithPublication, Next
<1>6. returned \subseteq returned'
  BY <1>5, ReturnedGrows
<1> QED BY <1>1, <1>4, <1>6 DEF QInv, MemoryOffered

LEMMA StartKeepsQInv ==
  ASSUME NEW withAttestations \in BOOLEAN, StartPublish(withAttestations)
  PROVE  QInv'
<1>1. /\ state' = identity.chain /\ phase' = "manifest"
      /\ settled' = (PublicMemoryRoot(identity.chain) \subseteq returned)
      /\ UNCHANGED <<returned, private>>
  BY DEF StartPublish, vars
<1>2. PublicMemoryRoot(state)' = PublicMemoryRoot(identity.chain)
  BY <1>1 DEF PublicMemoryRoot, MemoryOf
<1> QED BY <1>1, <1>2 DEF QInv

(* Reading the manifest of the root, then the object of the root.          *)
LEMMA ReadKeepsQInv ==
  ASSUME PIInv, MInv, QInv, ReadManifest \/ ReadObject \/ ReadAttestation
  PROVE  QInv'
<1>1. /\ UNCHANGED <<state, settled, private, returned>> /\ phase # "off"
      /\ state \in Seq(Event) /\ left \subseteq Attestations
      /\ objects \in [OtherFiles -> {"absent", "partial", "whole"}]
  BY DEF ReadManifest, ReadObject, ReadAttestation, vars, PIInv, PublicationTypeOK
<1>2. PublicMemoryRoot(state)' = PublicMemoryRoot(state)
  BY <1>1 DEF PublicMemoryRoot, MemoryOf
<1> SUFFICES ASSUME settled, NEW e \in PublicMemoryRoot(state)
             PROVE  /\ e \in returned
                    /\ phase' = "object" => objects'[ManifestFile(e)] = "whole"
                    /\ phase' \in {"attestations", "serving"} => MemoryOffered(e)'
  BY <1>1, <1>2 DEF QInv
<1>3. /\ e \in returned
      /\ phase = "object" => objects[ManifestFile(e)] = "whole"
      /\ phase \in {"attestations", "serving"} => MemoryOffered(e)
  BY <1>1 DEF QInv
<1>4. /\ e.kind = "memory" /\ ManifestFile(e) \in OtherFiles /\ ObjectFile(e) \in OtherFiles
      /\ \A d \in PublicMemoryRoot(state) : d = e
  BY <1>1, RootIsPublic, RootIsOne
<1>5. others[ManifestFile(e)] = "whole" /\ others[ObjectFile(e)] = "whole"
  BY <1>3, <1>4 DEF MInv, AckedMemoryOnDisk
<1>6. CASE ReadManifest
  <2>1. objects' = [objects EXCEPT ![ManifestFile(e)] = "whole"] /\ phase' = "object"
    BY <1>4, <1>5, <1>6 DEF ReadManifest, StoreObject
  <2> QED BY <1>1, <1>3, <1>4, <2>1
<1>7. CASE ReadObject
  <2>1. objects' = [objects EXCEPT ![ObjectFile(e)] = "whole"] /\ phase = "object"
        /\ phase' = "attestations"
    BY <1>4, <1>5, <1>7 DEF ReadObject, StoreObject
  <2>2. ObjectFile(e) # ManifestFile(e)
    BY FileNamesDiffer
  <2> QED BY <1>1, <1>3, <1>4, <2>1, <2>2 DEF MemoryOffered
<1>8. CASE ReadAttestation
  <2>1. phase = "attestations" /\ phase' = "attestations"
        /\ \E cid \in left :
             objects' = [objects EXCEPT ![AttestationFile(cid)] = others[AttestationFile(cid)]]
    BY <1>8 DEF ReadAttestation, StoreObject
  <2>2. \A cid : AttestationFile(cid) # ManifestFile(e) /\ AttestationFile(cid) # ObjectFile(e)
    BY DEF AttestationFile, ManifestFile, ObjectFile
  <2> QED BY <1>1, <1>3, <1>4, <2>1, <2>2 DEF MemoryOffered
<1> QED BY <1>6, <1>7, <1>8

LEMMA OthersKeepQInv ==
  ASSUME QInv, \/ Serve \/ EndPublication \/ (UNCHANGED pvars)
               \/ \E file \in OtherFiles : ResolveObjectRemote(file)
  PROVE  QInv'
<1>1. /\ UNCHANGED <<state, settled, private, returned>>
      /\ \/ UNCHANGED <<phase, objects>>
         \/ phase = "attestations" /\ phase' = "serving" /\ UNCHANGED objects
         \/ phase' = "off"
  BY DEF Serve, EndPublication, pvars, ResolveObjectRemote, publication, vars
<1>2. PublicMemoryRoot(state)' = PublicMemoryRoot(state)
  BY <1>1 DEF PublicMemoryRoot, MemoryOf
<1> QED BY <1>1, <1>2 DEF QInv, MemoryOffered

SettledInv == PIInv /\ MInv /\ QInv

(* Every step here is a step of the callers' store, or none of it.         *)
LEMMA PNextIsNext == [PNext]_pvars => [Next]_vars
  BY DEF PNext, pvars, publication, StoreStep, CrashWithPublication, StartPublish, ReadManifest,
         ReadObject, ReadAttestation, Serve, EndPublication, ResolveObjectRemote, Next

LEMMA NextKeepsSettledInv == SettledInv /\ [PNext]_pvars => SettledInv'
<1> SUFFICES ASSUME SettledInv, [PNext]_pvars PROVE SettledInv'
  OBVIOUS
<1> USE DEF SettledInv
<1>1. PIInv'
  BY NextKeepsPIInv
<1>2. [Next]_vars
  BY PNextIsNext
<1>3. MInv'
  BY <1>2, NextKeepsMInv DEF PIInv
<1>4. QInv'
  BY <1>1, StoreKeepsQInv, StartKeepsQInv, ReadKeepsQInv, OthersKeepQInv DEF PNext
<1> QED BY <1>1, <1>3, <1>4

-----------------------------------------------------------------------------
(* Publication and peer keep their types, for any bounds.                  *)
THEOREM PublicationTypeCorrect == PSpec => []PublicationTypeOK
<1>1. PIInv => PublicationTypeOK
  BY DEF PIInv
<1> QED BY <1>1, InitPIInv, NextKeepsPIInv, PTL DEF PSpec

(* Whoever writes while the files are read, the memory a publication offers*)
(* was public when its event was signed: no private one is ever offered.   *)
THEOREM PrivateStaysHome == PSpec => []PrivateNeverOffered
<1>1. PIInv => PrivateNeverOffered
  BY DEF PIInv, ObjectsPublic, PrivateNeverOffered
<1> QED BY <1>1, InitPIInv, NextKeepsPIInv, PTL DEF PSpec

(* A peer keeps only whole files of what the published state refers to.    *)
THEOREM PeersGetWhatIsReferenced == PSpec => []FetchedIsReferenced
<1>1. PIInv => FetchedIsReferenced
  BY DEF PIInv
<1> QED BY <1>1, InitPIInv, NextKeepsPIInv, PTL DEF PSpec

(* AttachAttestation creates the attestation's file before the event, so a *)
(* publication that includes attestations finds every one of them.         *)
THEOREM IncludedAttestationsOffered == PSpec => []AttestationsOffered
<1>1. PIInv => AttestationsOffered
  BY DEF PIInv, AttestationsReachable, LeftRead, AttestationsOffered
<1> QED BY <1>1, InitPIInv, NextKeepsPIInv, PTL DEF PSpec

(* A publication (StartPublish, service.go 595-638) whose memory was       *)
(* acknowledged before it loaded serves manifest and object, whatever      *)
(* AddMemory, an import or a crash does before the files are read.         *)
THEOREM AckedMemoryIsOffered == PSpec => []AckedMemoryOffered
<1>1. SettledInv => AckedMemoryOffered
  BY DEF SettledInv, QInv, AckedMemoryOffered
<1>2. PInit => SettledInv
  BY InitPIInv, InitMInv, InitQInv DEF PInit, SettledInv
<1> QED BY <1>1, <1>2, NextKeepsSettledInv, PTL DEF PSpec

(* Publishing and peers only read the identity and the files beside it: the*)
(* store is used as IdentityStore says, whoever publishes, so what holds of*)
(* its callers holds here (StartPublish and StoreReferencedObjects load and*)
(* never save: service.go 595-638, storage.go 59-89).                      *)
THEOREM PublishingLeavesTheStore == PSpec => Spec
<1>1. PInit => Init
  BY DEF PInit
<1> QED BY <1>1, PNextIsNext, PTL DEF PSpec, Spec

=============================================================================
