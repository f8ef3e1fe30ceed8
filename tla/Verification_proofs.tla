------------------------ MODULE Verification_proofs ------------------------
(***************************************************************************)
(* Whatever state a verifier holds and whenever it verifies, for chains of *)
(* any length and any number of challenges, responses and attestations:    *)
(* what it accepts is what the chain of that state says.                   *)
(***************************************************************************)
EXTENDS Verification, IdentityChain_proofs

-----------------------------------------------------------------------------
(* Which keys of a document are devices and which one encrypts.            *)

RolesDescribe(doc, events) ==
    /\ doc.id = FirstRoot
    /\ DeviceIds(doc.keys) = DevicesWithin(events)
    /\ \A i \in DOMAIN doc.keys :
          doc.keys[i].role = EncryptionRole <=> doc.keys[i].id = FirstEncryption

RolesMeant(events) ==
    ReplayState(events) # Rejected => RolesDescribe(ReplayState(events), events)

LEMMA DevicesWithinAppend ==
  ASSUME NEW events \in Seq(Event), events # <<>>, NEW e \in Event
  PROVE  DevicesWithin(Append(events, e)) =
           DevicesWithin(events) \cup (IF e.type = "AddDeviceKey" THEN {e.key} ELSE {})
<1> DEFINE longer == Append(events, e)
           n == Len(events)
           P == {j \in DOMAIN events : events[j].type = "AddDeviceKey"}
<1>1. /\ DOMAIN events = 1 .. n /\ DOMAIN longer = (1 .. n) \cup {n + 1}
      /\ longer[n + 1] = e /\ \A i \in 1 .. n : longer[i] = events[i]
      /\ n + 1 \notin 1 .. n
  OBVIOUS
<1> HIDE DEF longer, n
<1>2. {j \in DOMAIN longer : longer[j].type = "AddDeviceKey"} =
        P \cup (IF e.type = "AddDeviceKey" THEN {n + 1} ELSE {})
  BY <1>1
<1>3. \A i \in P : longer[i] = events[i]
  BY <1>1
<1>4. {longer[i].key : i \in P} = {events[i].key : i \in P}
  BY <1>3
<1> HIDE DEF P
<1> QED BY <1>1, <1>2, <1>4 DEF DevicesWithin, P, longer

LEMMA RolesStep ==
  ASSUME NEW events \in Seq(Event), events # <<>>, NEW e \in Event, Payload(e),
         NEW doc \in Document, RolesDescribe(doc, events), FirstEncryption \in Ids(doc.keys),
         Introduces(e) => e.key \notin Ids(doc.keys)
  PROVE  RolesDescribe(ApplyEvent(doc, e), Append(events, e))
<1> DEFINE new == ApplyEvent(doc, e)
           longer == Append(events, e)
           Encrypts(keys) == \A i \in DOMAIN keys :
                               keys[i].role = EncryptionRole <=> keys[i].id = FirstEncryption
<1>1. doc.keys \in Seq(KeyRecord) /\ e.ts \in Times
  BY DEF Document, Event
<1>2. new.id = doc.id
  BY ApplyFields
<1>3. new.keys = CASE e.type = "AddDeviceKey" -> Append(doc.keys, ActiveKey(e.key, DeviceRole))
                   [] e.type = "RevokeDevice" -> Revoke(doc.keys, e.key, e.ts)
                   [] e.type = "RotateRootKey" -> Append(Revoke(doc.keys, e.signer, e.ts),
                                                         ActiveKey(e.key, RootRole))
                   [] OTHER -> doc.keys
  BY ApplyKeys
<1>4. DevicesWithin(longer) =
        DevicesWithin(events) \cup (IF e.type = "AddDeviceKey" THEN {e.key} ELSE {})
  BY DevicesWithinAppend
<1>5. DeviceIds(doc.keys) = DevicesWithin(events) /\ Encrypts(doc.keys) /\ doc.id = FirstRoot
  BY DEF RolesDescribe
<1> HIDE DEF new, longer
<1>6. ASSUME NEW k
      PROVE  /\ Revoke(doc.keys, k, e.ts) \in Seq(KeyRecord)
             /\ DeviceIds(Revoke(doc.keys, k, e.ts)) = DeviceIds(doc.keys)
             /\ Encrypts(Revoke(doc.keys, k, e.ts))
  <2> DEFINE ks == Revoke(doc.keys, k, e.ts)
  <2>1. ks \in Seq(KeyRecord)
    BY <1>1, RevokeType
  <2>2. DeviceIds(ks) = DeviceIds(doc.keys)
    BY <1>1, DeviceIdsRevoke
  <2>3. /\ DOMAIN ks = DOMAIN doc.keys
        /\ \A i \in DOMAIN doc.keys : ks[i].id = doc.keys[i].id /\ ks[i].role = doc.keys[i].role
    BY <1>1, RevokeKeepsKeys
  <2> HIDE DEF ks
  <2>4. Encrypts(ks)
    BY <1>5, <2>3
  <2> QED BY <2>1, <2>2, <2>4 DEF ks
<1>7. ASSUME NEW keys \in Seq(KeyRecord), Encrypts(keys),
             NEW x \in KeyRecord, x.role # EncryptionRole, x.id # FirstEncryption
      PROVE  Encrypts(Append(keys, x))
  <2> DEFINE ks == Append(keys, x)
             n == Len(keys)
  <2>1. /\ DOMAIN keys = 1 .. n /\ DOMAIN ks = (1 .. n) \cup {n + 1}
        /\ ks[n + 1] = x /\ \A i \in 1 .. n : ks[i] = keys[i]
    OBVIOUS
  <2> HIDE DEF ks, n
  <2>2. Encrypts(ks)
    BY <1>7, <2>1
  <2> QED BY <2>2 DEF ks
<1>8. CASE e.type = "AddDeviceKey"
  <2> DEFINE x == ActiveKey(e.key, DeviceRole)
  <2>1. x \in KeyRecord /\ x.role = DeviceRole /\ x.role # EncryptionRole /\ x.id = e.key
    BY <1>8, ActiveKeyType DEF Payload, ActiveKey, DeviceRole, EncryptionRole
  <2>2. new.keys = Append(doc.keys, x)
    BY <1>3, <1>8
  <2>3. e.key # FirstEncryption
    BY <1>8 DEF Introduces
  <2> HIDE DEF x, Encrypts
  <2>4. Encrypts(new.keys)
    BY <1>1, <1>5, <1>7, <2>1, <2>2, <2>3
  <2>5. DeviceIds(new.keys) = DeviceIds(doc.keys) \cup {e.key}
    BY <1>1, <2>1, <2>2, DeviceIdsAppend
  <2> QED BY <1>2, <1>4, <1>5, <1>8, <2>4, <2>5 DEF RolesDescribe, Encrypts, new, longer
<1>9. CASE e.type = "RevokeDevice"
  <2>1. new.keys = Revoke(doc.keys, e.key, e.ts)
    BY <1>3, <1>9
  <2> HIDE DEF Encrypts
  <2>2. Encrypts(new.keys) /\ DeviceIds(new.keys) = DeviceIds(doc.keys)
    BY <1>6, <2>1
  <2> QED BY <1>2, <1>4, <1>5, <1>9, <2>2 DEF RolesDescribe, Encrypts, new, longer
<1>10. CASE e.type = "RotateRootKey"
  <2> DEFINE x == ActiveKey(e.key, RootRole)
             ks == Revoke(doc.keys, e.signer, e.ts)
  <2>1. /\ x \in KeyRecord /\ x.role # DeviceRole /\ x.role # EncryptionRole /\ x.id = e.key
    BY <1>10, ActiveKeyType DEF Payload, ActiveKey, RootRole, DeviceRole, EncryptionRole
  <2>2. new.keys = Append(ks, x)
    BY <1>3, <1>10
  <2>3. e.key # FirstEncryption
    BY <1>10 DEF Introduces
  <2> HIDE DEF Encrypts
  <2>4. ks \in Seq(KeyRecord) /\ Encrypts(ks) /\ DeviceIds(ks) = DeviceIds(doc.keys)
    BY <1>6
  <2> HIDE DEF x, ks
  <2>5. Encrypts(new.keys)
    BY <1>7, <2>1, <2>2, <2>3, <2>4
  <2>6. DeviceIds(new.keys) = DeviceIds(doc.keys)
    BY <2>1, <2>2, <2>4, DeviceIdsAppend
  <2> QED BY <1>2, <1>4, <1>5, <1>10, <2>5, <2>6 DEF RolesDescribe, Encrypts, new, longer
<1>11. CASE e.type \notin {"AddDeviceKey", "RevokeDevice", "RotateRootKey"}
  BY <1>2, <1>3, <1>4, <1>5, <1>11 DEF RolesDescribe, new, longer
<1> QED BY <1>8, <1>9, <1>10, <1>11

LEMMA OperationKeepsRoles ==
  ASSUME RInv, Operation, RolesMeant(mem.events)
  PROVE  RolesMeant(mem'.events)
<1>1. OperationDone
  BY OperationIsDone DEF RInv
<1>2. PICK e \in Event : /\ Payload(e)
                         /\ mem'.events = Append(mem.events, e)
                         /\ Introduces(e) => e.key = FreshKey(mem) /\ e.key \in mem'.local
  BY <1>1 DEF OperationDone
<1>3. /\ mem # NoIdentity /\ Sane(mem) /\ mem \in Identity /\ MeantIdentity(mem)
      /\ mem.events \in Seq(Event) /\ mem.events # <<>>
      /\ ReplayState(mem.events) \in Document \cup {Rejected}
  BY <1>1 DEF OperationDone, RInv, IInv, TypeOK, Sane, Identity
<1> DEFINE doc == ReplayState(mem.events)
<1>4. ReplayState(mem'.events) = ReplayStep(doc, e)
  BY <1>2, <1>3, ReplayAppend
<1> SUFFICES ASSUME ReplayState(mem'.events) # Rejected
             PROVE  RolesDescribe(ReplayState(mem'.events), mem'.events)
  BY DEF RolesMeant
<1>5. doc # Rejected /\ doc \in Document /\ ReplayState(mem'.events) = ApplyEvent(doc, e)
  BY <1>3, <1>4 DEF ReplayStep
<1>6. Ids(doc.keys) = KeysWithin(mem.events, Len(mem.events))
  BY <1>3, <1>5 DEF MeantIdentity, Meant, KeysDescribe
<1>7. FirstEncryption \in Ids(doc.keys) /\ Ids(doc.keys) \subseteq mem.local
  BY <1>3, <1>6 DEF KeysWithin, MeantIdentity
<1>8. Introduces(e) => e.key \notin Ids(doc.keys)
  BY <1>2, <1>3, <1>7, FreshIsNew
<1>9. RolesDescribe(doc, mem.events)
  BY <1>5 DEF RolesMeant
<1> HIDE DEF doc
<1> QED BY <1>2, <1>3, <1>5, <1>7, <1>8, <1>9, RolesStep

LEMMA NewHasRoles ==
  ASSUME RInv, New
  PROVE  RolesMeant(mem'.events)
<1>1. PICK name \in Values, skew \in CreateSkew :
         mem' = Created(name, clock, clock + skew)
  BY DEF New
<1> DEFINE e == [id |-> 1, type |-> "CreateIdentity", prev |-> 0, signer |-> FirstRoot,
                 signedBy |-> FirstRoot, ts |-> clock + skew, key |-> FirstRoot, val |-> name]
           chain == <<e>>
           doc == InitDocumentFromCreate(e)
           ks == <<ActiveKey(FirstRoot, RootRole), ActiveKey(FirstDevice, DeviceRole),
                   ActiveKey(FirstEncryption, EncryptionRole)>>
<1>2. mem'.events = chain
  BY <1>1 DEF Created
<1>3. doc.id = FirstRoot /\ doc.keys = ks
  BY DEF InitDocumentFromCreate
<1>4. /\ mem' \in Identity /\ Current(mem') /\ Len(mem'.events) = 1
  <2>1. mem' \in Identity /\ Current(mem')
    BY NewDone DEF RInv
  <2>2. Len(chain) = 1
    OBVIOUS
  <2> QED BY <1>2, <2>1, <2>2
<1>5. chain[1] = e /\ DOMAIN chain = {1} /\ e.type = "CreateIdentity"
  OBVIOUS
<1> HIDE DEF e, chain
<1>6. ReplayState(mem'.events) = doc
  <2>1. \A n : n = 1 => ~(n > 1)
    OBVIOUS
  <2> QED BY <1>2, <1>4, <1>5, <2>1 DEF Current, Fresh
<1>7. DevicesWithin(chain) = {FirstDevice}
  BY <1>5 DEF DevicesWithin
<1>8. /\ DOMAIN ks = {1, 2, 3}
      /\ ks[1].role = "root" /\ ks[2].role = "device" /\ ks[3].role = "encryption"
      /\ ks[1].id = 1 /\ ks[2].id = 2 /\ ks[3].id = 3
  BY DEF ActiveKey, RootRole, DeviceRole, EncryptionRole, FirstRoot, FirstDevice, FirstEncryption
<1> HIDE DEF doc, ks
<1>9. DeviceIds(ks) = {FirstDevice}
  BY <1>8 DEF DeviceIds, DeviceRole, FirstDevice
<1>10. \A i \in DOMAIN ks : ks[i].role = EncryptionRole <=> ks[i].id = FirstEncryption
  BY <1>8 DEF EncryptionRole, FirstEncryption
<1> QED BY <1>2, <1>3, <1>6, <1>7, <1>9, <1>10 DEF RolesMeant, RolesDescribe

-----------------------------------------------------------------------------
(* The invariant: what was handed out is what the owner made it of.        *)

StateOfTheOwner(s) ==
    /\ s \in [doc : Document, events : Seq(Event)]
    /\ VerifyState(s)
    /\ Meant(s.events)
    /\ RolesMeant(s.events)

ResponseOfTheOwner(r) ==
    /\ r \in Response
    /\ r.challenge.identity = FirstRoot
    /\ r.signedBy = r.signer

AttestationOfTheOwner(a) ==
    /\ a \in Attestation
    /\ a.signedBy = a.issuerKey
    /\ a.issuerKey # FirstEncryption

VInv ==
    /\ AInv
    /\ mem # NoIdentity => RolesMeant(mem.events)
    /\ file # NoFile => RolesMeant(file.events)
    /\ IsFiniteSet(challenges) /\ challenges \subseteq Challenge
    /\ \A s \in states : StateOfTheOwner(s)
    /\ \A r \in responses : ResponseOfTheOwner(r)
    /\ \A a \in attestations : AttestationOfTheOwner(a)

(* A loaded file, as its owner has it.                                     *)
LEMMA LoadedFile ==
  ASSUME VInv, Loads
  PROVE  /\ file \in Identity /\ MeantIdentity(file) /\ Agrees(file)
         /\ file.doc \in Document /\ file.doc = ReplayState(file.events)
         /\ file.doc # Rejected
         /\ KeysDescribe(file.doc, file.events)
         /\ RolesDescribe(file.doc, file.events)
<1>1. /\ file # NoFile /\ file \in Identity /\ MeantIdentity(file) /\ Agrees(file)
      /\ RolesMeant(file.events)
  BY DEF VInv, AInv, RInv, IInv, TypeOK, Loads
<1>2. file.doc \in Document /\ file.doc = ReplayState(file.events) /\ file.doc # Rejected
  BY <1>1, Absent DEF Loads, VerifyState, DocumentsEqual, Identity
<1> QED BY <1>1, <1>2 DEF MeantIdentity, Meant, RolesMeant

(* The root key of a document does not encrypt.                            *)
LEMMA RootDoesNotEncrypt ==
  ASSUME NEW doc \in Document, NEW events, RootIsAKey(doc), RolesDescribe(doc, events)
  PROVE  doc.root # FirstEncryption
BY DEF RootIsAKey, RolesDescribe, RootRole, EncryptionRole

LEMMA OwnerStep ==
  ASSUME VInv, Owner
  PROVE  VInv'
<1>1. KeyOperation => Operation
  BY DEF KeyOperation, Operation
<1>2. [Next]_vars
  BY <1>1 DEF Owner, Next
<1>3. AInv'
  BY <1>2, AgreementStepHolds DEF VInv
<1>4. UNCHANGED <<states, challenges, responses, attestations>>
  BY DEF Owner, outside
<1>5. /\ mem' # NoIdentity => RolesMeant(mem'.events)
      /\ file' # NoFile => RolesMeant(file'.events)
  <2>1. CASE KeyOperation
    <3>1. OperationDone
      BY <1>1, <2>1, OperationIsDone DEF VInv, AInv, RInv
    <3> QED BY <1>1, <2>1, <3>1, OperationKeepsRoles DEF OperationDone, VInv, AInv
  <2>2. CASE New
    BY <2>2, NewHasRoles DEF New, VInv, AInv
  <2>3. CASE Load \/ Save \/ Discard \/ Tick \/ StepBack
    BY <2>3 DEF Load, Save, Discard, Tick, StepBack, VInv
  <2> QED BY <2>1, <2>2, <2>3 DEF Owner
<1> QED BY <1>3, <1>4, <1>5 DEF VInv

(* Steps outside leave the identity as it is.                              *)
LEMMA OutsideKeepsIdentity ==
  ASSUME VInv, UNCHANGED vars
  PROVE  /\ AInv'
         /\ mem' # NoIdentity => RolesMeant(mem'.events)
         /\ file' # NoFile => RolesMeant(file'.events)
<1>1. AInv'
  BY AgreementStepHolds DEF VInv
<1> QED BY <1>1 DEF VInv, vars

LEMMA ExportStateStep ==
  ASSUME VInv, ExportState
  PROVE  VInv'
<1>1. /\ Loads /\ states' = states \cup {SignedState(file)}
      /\ UNCHANGED vars /\ UNCHANGED <<challenges, responses, attestations>>
  BY DEF ExportState, vars
<1>2. StateOfTheOwner(SignedState(file))
  <2> DEFINE s == SignedState(file)
  <2>1. s.doc = file.doc /\ s.events = file.events
        /\ s = [doc |-> file.doc, events |-> file.events]
    BY DEF SignedState
  <2>2. /\ file.doc \in Document /\ file.events \in Seq(Event)
        /\ Meant(file.events) /\ RolesMeant(file.events) /\ VerifyState(file)
    BY <1>1, LoadedFile DEF Identity, MeantIdentity, RolesMeant, Loads
  <2> HIDE DEF s
  <2> QED BY <2>1, <2>2 DEF StateOfTheOwner, VerifyState, DocumentsEqual, s
<1> QED BY <1>1, <1>2, OutsideKeepsIdentity DEF VInv

LEMMA NewChallengeType ==
  ASSUME VInv, NEW identity \in KeyIds, NEW nonce \in Nat, NEW ttl \in Lifetimes
  PROVE  NewChallenge(identity, nonce, ttl) \in Challenge
<1>1. clock \in Times /\ clock \in Nat /\ ttl \in Nat
  BY LifetimesAssumption, BoundsAssumption DEF VInv, AInv, RInv, IInv, TypeOK, Times
<1>2. clock + ttl \in Nat
  BY <1>1
<1> QED BY <1>1, <1>2 DEF NewChallenge, Challenge

LEMMA CreateChallengeStep ==
  ASSUME VInv, CreateChallenge
  PROVE  VInv'
<1>1. PICK identity \in {FirstRoot, UnknownKey}, ttl \in Lifetimes :
         challenges' = challenges \cup
              {NewChallenge(identity, Cardinality(challenges) + 1, ttl)}
  BY DEF CreateChallenge
<1>2. UNCHANGED vars /\ UNCHANGED <<states, responses, attestations>>
  BY DEF CreateChallenge, vars
<1>3. identity \in KeyIds
  BY BoundsAssumption DEF KeyIds, FirstRoot, UnknownKey
<1>4. Cardinality(challenges) + 1 \in Nat
  <2>1. Cardinality(challenges) \in Nat
    BY FS_CardinalityType DEF VInv
  <2> QED BY <2>1
<1>5. NewChallenge(identity, Cardinality(challenges) + 1, ttl) \in Challenge
  BY <1>3, <1>4, NewChallengeType
<1>6. IsFiniteSet(challenges') /\ challenges' \subseteq Challenge
  BY <1>1, <1>5, FS_AddElement DEF VInv
<1> QED BY <1>2, <1>6, OutsideKeepsIdentity DEF VInv

LEMMA RespondToChallengeStep ==
  ASSUME VInv, RespondToChallenge
  PROVE  VInv'
<1>1. PICK c \in challenges, k \in {Nobody} \cup file.local :
         /\ SignChallenge(c, k, file) # Refused
         /\ responses' = responses \cup {SignChallenge(c, k, file)}
  BY DEF RespondToChallenge
<1>2. Loads /\ UNCHANGED vars /\ UNCHANGED <<states, challenges, attestations>>
  BY DEF RespondToChallenge, vars
<1> DEFINE signer == IF k = Nobody THEN DeviceKeyID(file.doc, file.preferredDevice) ELSE k
           r == [challenge |-> c, signer |-> signer, signedBy |-> signer]
<1>3. /\ SignChallenge(c, k, file) = r
      /\ c.identity = file.doc.id /\ signer \in file.local
  BY <1>1 DEF SignChallenge
<1>4. c \in Challenge /\ file.local \subseteq KeyIds /\ file.doc.id = FirstRoot
  BY <1>2, LoadedFile DEF VInv, Identity, RolesDescribe
<1> HIDE DEF signer
<1>5. ResponseOfTheOwner(r)
  BY <1>3, <1>4 DEF ResponseOfTheOwner, Response
<1> QED BY <1>1, <1>2, <1>3, <1>5, OutsideKeepsIdentity DEF VInv

LEMMA IssueAttestationStep ==
  ASSUME VInv, IssueAttestation
  PROVE  VInv'
<1>1. PICK validFor \in Lifetimes :
         attestations' = attestations \cup {NewAttestation(file, validFor)}
  BY DEF IssueAttestation
<1>2. Loads /\ UNCHANGED vars /\ UNCHANGED <<states, challenges, responses>>
  BY DEF IssueAttestation, vars
<1>3. /\ file.doc \in Document /\ file.preferredRoot = file.doc.root
      /\ file.doc.root # FirstEncryption
  BY <1>2, LoadedFile, RootDoesNotEncrypt DEF Agrees, KeysDescribe
<1>4. clock \in Times /\ clock \in Nat /\ validFor \in Nat
  BY LifetimesAssumption, BoundsAssumption DEF VInv, AInv, RInv, IInv, TypeOK, Times
<1>5. clock + validFor \in Nat
  BY <1>4
<1>6. file.doc.id \in KeyIds /\ file.doc.root \in KeyIds
  BY <1>3 DEF Document
<1>7. AttestationOfTheOwner(NewAttestation(file, validFor))
  BY <1>3, <1>4, <1>5, <1>6 DEF NewAttestation, AttestationOfTheOwner, Attestation
<1> QED BY <1>1, <1>2, <1>7, OutsideKeepsIdentity DEF VInv

LEMMA VerificationInitHolds == VerificationInit => VInv
BY AgreementInitHolds, FS_EmptySet DEF VerificationInit, Init, VInv

LEMMA VerificationStepHolds == VInv /\ [VerificationNext]_allVars => VInv'
<1> SUFFICES ASSUME VInv, [VerificationNext]_allVars
             PROVE  VInv'
  OBVIOUS
<1>1. CASE UNCHANGED allVars
  BY <1>1, OutsideKeepsIdentity DEF allVars, outside, VInv
<1> QED BY <1>1, OwnerStep, ExportStateStep, CreateChallengeStep, RespondToChallengeStep,
           IssueAttestationStep DEF VerificationNext

LEMMA VerificationInvariance == VerificationSpec => []VInv
<1> QED BY VerificationInitHolds, VerificationStepHolds, PTL DEF VerificationSpec

-----------------------------------------------------------------------------
(* What follows.                                                           *)

(* States, challenges, responses and attestations keep their types, for any*)
(* number of them (types.go: Challenge, Attestation, SignedIdentityState). *)
THEOREM VerificationTypeCorrect == VerificationSpec => []VerificationTypeOK
<1>1. VInv => VerificationTypeOK
  BY DEF VInv, AInv, RInv, IInv, VerificationTypeOK, StateOfTheOwner, ResponseOfTheOwner,
         AttestationOfTheOwner
<1> QED BY <1>1, VerificationInvariance, PTL

(* After any changes, the owner of an identity that loads and has an active*)
(* device can prove it: Service.SelfCheck passes.                          *)
THEOREM SelfCheckAlwaysPasses == VerificationSpec => []SelfCheckPasses
<1>1. VInv => SelfCheckPasses
  <2> SUFFICES ASSUME VInv, Loads, FirstActive(file.doc, DeviceRole) # Nobody,
                      NEW ttl \in Lifetimes
               PROVE  VerifyChallengeResponse(SignedState(file),
                        SignChallenge(NewChallenge(file.doc.id, 0, ttl), Nobody, file))
    BY DEF SelfCheckPasses, SelfCheck
  <2> DEFINE d == file.preferredDevice
             c == NewChallenge(file.doc.id, 0, ttl)
             r == [challenge |-> c, signer |-> d, signedBy |-> d]
  <2>1. /\ file.doc \in Document /\ Distinct(file.doc.keys) /\ Agrees(file)
        /\ Ids(file.doc.keys) \subseteq file.local
    BY LoadedFile DEF KeysDescribe, MeantIdentity
  <2>2. d \in Devices(file.doc) /\ d # Nobody /\ d \in file.local
    BY <2>1, FirstActiveIsADevice, DevicesAreKeys DEF Agrees, PrefersADevice
  <2>3. ActiveDevice(file.doc, d)
    BY <2>1, <2>2, DeviceResolves DEF ActiveDevice
  <2>4. ResolveKey(file.doc, d)
    BY <2>3 DEF ActiveDevice, ResolveKey, Resolvable
  <2>5. DeviceKeyID(file.doc, d) = d
    BY <2>2, <2>4 DEF DeviceKeyID
  <2>6. c.identity = file.doc.id /\ clock <= c.expiresAt
    <3>1. clock \in Nat /\ ttl \in Nat
      BY LifetimesAssumption DEF VInv, AInv, RInv, IInv, TypeOK, Times
    <3> QED BY <3>1 DEF NewChallenge
  <2> HIDE DEF c, d
  <2>7. SignChallenge(c, Nobody, file) = r
    BY <2>2, <2>3, <2>4, <2>5, <2>6 DEF SignChallenge, d
  <2>8. r # Refused
    BY DEF Refused
  <2>9. VerifyState(SignedState(file))
    BY DEF Loads, VerifyState, DocumentsEqual, SignedState
  <2>10. VerifyChallenge(r, SignedState(file).doc)
    BY <2>3, <2>4, <2>6 DEF VerifyChallenge, SignedState
  <2> QED BY <2>7, <2>8, <2>9, <2>10 DEF VerifyChallengeResponse, c
<1> QED BY <1>1, VerificationInvariance, PTL

(* What the document of an owner's state says.                             *)
LEMMA StateDescribed ==
  ASSUME NEW s, StateOfTheOwner(s)
  PROVE  /\ s.doc \in Document
         /\ KeysDescribe(s.doc, s.events)
         /\ RolesDescribe(s.doc, s.events)
<1>1. s.doc \in Document /\ ReplayState(s.events) = s.doc
  BY DEF StateOfTheOwner, VerifyState, DocumentsEqual
<1> QED BY <1>1, Absent DEF StateOfTheOwner, Meant, RolesMeant

(* For any number of states and responses: a response is accepted with a   *)
(* state exactly when its signer is an unrevoked device by the chain of    *)
(* that state and the challenge has not expired (challenge.go 57-81).      *)
THEOREM AcceptedResponsesAreOfDevices == VerificationSpec => []AcceptedMeansDevice
<1>1. VInv => AcceptedMeansDevice
  <2> SUFFICES ASSUME VInv, NEW s \in states, NEW r \in responses
               PROVE  VerifyChallengeResponse(s, r) <=>
                        /\ clock <= r.challenge.expiresAt
                        /\ r.signer \in DevicesWithin(s.events) \ Superseded(s.events)
    BY DEF AcceptedMeansDevice
  <2>1. StateOfTheOwner(s) /\ ResponseOfTheOwner(r)
    BY DEF VInv
  <2>2. /\ s.doc \in Document /\ KeysDescribe(s.doc, s.events)
        /\ RolesDescribe(s.doc, s.events)
    BY <2>1, StateDescribed
  <2>3. r # Refused
    <3>1. "signer" \in DOMAIN r
      BY <2>1 DEF ResponseOfTheOwner, Response
    <3>2. "signer" \notin DOMAIN Refused
      BY DEF Refused
    <3> QED BY <3>1, <3>2
  <2>4. ActiveDevice(s.doc, r.signer) <=> r.signer \in Devices(s.doc)
    BY <2>2, DeviceResolves DEF ActiveDevice, KeysDescribe
  <2>5. ActiveDevice(s.doc, r.signer) => ResolveKey(s.doc, r.signer)
    BY DEF ActiveDevice, ResolveKey, Resolvable
  <2>6. Devices(s.doc) = DevicesWithin(s.events) \ Superseded(s.events)
    BY <2>2 DEF Devices, KeysDescribe, RolesDescribe, Superseded
  <2>7. /\ VerifyState(s) /\ r.challenge.identity = s.doc.id /\ r.signedBy = r.signer
    BY <2>1, <2>2 DEF StateOfTheOwner, ResponseOfTheOwner, RolesDescribe
  <2> QED BY <2>3, <2>4, <2>5, <2>6, <2>7 DEF VerifyChallengeResponse, VerifyChallenge
<1> QED BY <1>1, VerificationInvariance, PTL

(* For any number of states and attestations: one is accepted exactly when *)
(* the root that issued it is in the chain of the state, neither rotated   *)
(* away nor revoked, and the time is within its validity                   *)
(* (attestation.go 51-72, service.go 536-563).                             *)
THEOREM AcceptedAttestationsAreOfTheRoot == VerificationSpec => []AttestedByCurrentRoot
<1>1. VInv => AttestedByCurrentRoot
  <2> SUFFICES ASSUME VInv, NEW s \in states, NEW a \in attestations
               PROVE  VerifyAttestationWithState(s, a) <=>
                        /\ a.validFrom <= clock /\ clock <= a.validTo
                        /\ a.issuerKey \in KeysWithin(s.events, Len(s.events))
                                             \ Superseded(s.events)
    BY DEF AttestedByCurrentRoot
  <2>1. StateOfTheOwner(s) /\ AttestationOfTheOwner(a)
    BY DEF VInv
  <2>2. /\ s.doc \in Document /\ KeysDescribe(s.doc, s.events)
        /\ RolesDescribe(s.doc, s.events)
    BY <2>1, StateDescribed
  <2> DEFINE k == a.issuerKey
  <2>3. k # FirstEncryption /\ a.signedBy = k /\ VerifyState(s)
    BY <2>1 DEF AttestationOfTheOwner, StateOfTheOwner
  <2>4. ResolveKey(s.doc, k) <=> k \in Ids(s.doc.keys) \ RevokedIds(s.doc.keys)
    <3> HIDE DEF k
    <3>1. s.doc.keys \in Seq(KeyRecord)
      BY <2>2 DEF Document
    <3>2. \A i \in DOMAIN s.doc.keys : s.doc.keys[i] \in KeyRecord
      BY <3>1
    <3>3. \A i \in DOMAIN s.doc.keys :
             s.doc.keys[i].id = k => s.doc.keys[i].role \in {RootRole, DeviceRole}
      BY <2>2, <2>3, <3>2 DEF RolesDescribe, KeyRecord
    <3>4. ASSUME ResolveKey(s.doc, k)
          PROVE  k \in Ids(s.doc.keys) \ RevokedIds(s.doc.keys)
      <4>1. PICK i \in DOMAIN s.doc.keys :
               s.doc.keys[i].id = k /\ s.doc.keys[i].revokedAt = NeverRevoked
        BY <3>4 DEF ResolveKey, Resolvable
      <4> QED BY <2>2, <4>1 DEF KeysDescribe, Distinct, Ids, RevokedIds
    <3>5. ASSUME k \in Ids(s.doc.keys) \ RevokedIds(s.doc.keys)
          PROVE  ResolveKey(s.doc, k)
      <4>1. PICK i \in DOMAIN s.doc.keys : s.doc.keys[i].id = k
        BY <3>5 DEF Ids
      <4>2. s.doc.keys[i].revokedAt = NeverRevoked
        BY <3>5, <4>1 DEF RevokedIds
      <4> QED BY <3>3, <4>1, <4>2 DEF ResolveKey, Resolvable
    <3> QED BY <3>4, <3>5
  <2>5. /\ Ids(s.doc.keys) = KeysWithin(s.events, Len(s.events))
        /\ RevokedIds(s.doc.keys) = Superseded(s.events)
    BY <2>2 DEF KeysDescribe, Superseded
  <2>6. clock \in Int /\ a.validFrom \in Int /\ a.validTo \in Int
    BY <2>1 DEF VInv, AInv, RInv, IInv, TypeOK, Times, AttestationOfTheOwner, Attestation
  <2>7. clock >= a.validFrom <=> a.validFrom <= clock
    BY <2>6
  <2> QED BY <2>3, <2>4, <2>5, <2>7 DEF VerifyAttestationWithState, Verify
<1> QED BY <1>1, VerificationInvariance, PTL

-----------------------------------------------------------------------------
(* A state whose chain extends that of another.                            *)

(* What a chain superseded, every chain that extends it has.               *)
LEMMA SupersededGrows ==
  ASSUME NEW old \in Seq(Event), NEW new \in Seq(Event), Extends(old, new)
  PROVE  Superseded(old) \subseteq Superseded(new)
<1> DEFINE m == Len(old)
           n == Len(new)
<1>1. m \in Nat /\ n \in Nat /\ m <= n /\ \A i \in 1 .. m : new[i] = old[i]
  BY ExtendsMeans
<1> HIDE DEF m, n
<1>2. ASSUME NEW k \in 1 .. m PROVE RootAfter(new, k) = RootAfter(old, k)
  <2>1. {i \in 2 .. k : IsRotation(new[i])} = {i \in 2 .. k : IsRotation(old[i])}
    BY <1>1, <1>2
  <2> DEFINE rotations == {i \in 2 .. k : IsRotation(old[i])}
  <2>2. CASE rotations = {}
    <3>1. new[1] = old[1]
      BY <1>1, <1>2
    <3> QED BY <2>1, <2>2, <3>1 DEF RootAfter
  <2>3. CASE rotations # {}
    <3> DEFINE last == CHOOSE i \in rotations : \A j \in rotations : j <= i
    <3>1. last \in rotations
      <4>1. rotations \subseteq 1 .. k /\ k \in Nat
        BY <1>1, <1>2
      <4> HIDE DEF rotations
      <4>2. Last(rotations) \in rotations
        BY <2>3, <4>1, LastOf
      <4> QED BY <4>2 DEF Last
    <3>2. new[last] = old[last]
      <4> HIDE DEF last
      <4> QED BY <1>1, <1>2, <3>1
    <3>3. RootAfter(old, k) = old[last].key
      BY <2>3 DEF RootAfter
    <3>4. RootAfter(new, k) = new[last].key
      BY <2>1, <2>3 DEF RootAfter
    <3> QED BY <3>2, <3>3, <3>4
  <2> QED BY <2>2, <2>3
<1>3. ASSUME NEW j \in 2 .. m, old[j].type = "RevokeDevice"
      PROVE  old[j].key \in Superseded(new)
  <2>1. j \in 2 .. n /\ new[j] = old[j]
    BY <1>1, <1>3
  <2> QED BY <1>3, <2>1 DEF Superseded, RevokedWithin, n
<1>4. ASSUME NEW i \in 2 .. m, IsRotation(old[i])
      PROVE  RootAfter(old, i - 1) \in Superseded(new)
  <2>1. i \in 2 .. n /\ new[i] = old[i] /\ i - 1 \in 1 .. m
    BY <1>1, <1>4
  <2>2. RootAfter(old, i - 1) = RootAfter(new, i - 1)
    BY <1>2, <2>1
  <2> QED BY <1>4, <2>1, <2>2 DEF Superseded, RevokedWithin, n
<1> QED BY <1>3, <1>4 DEF Superseded, RevokedWithin, m

(* What the owner does is a step of IdentityChain.                         *)
LEMMA OwnerIsNext == Owner => Next
BY DEF Owner, KeyOperation, Operation, Next

SupersededStaysRefused ==
    \A s, t \in states : Extends(s.events, t.events) =>
        /\ \A r \in responses :
              r.signer \in Superseded(s.events) => ~VerifyChallengeResponse(t, r)
        /\ \A a \in attestations :
              a.issuerKey \in Superseded(s.events) => ~VerifyAttestationWithState(t, a)

(* What one state made a verifier refuse, a revoked device or the signature*)
(* of a root rotated away, no state whose chain extends it makes it accept *)
(* again (VerifyChallengeResponse, VerifyAttestationWithState).            *)
THEOREM SupersededIsRefusedForGood == VerificationSpec => []SupersededStaysRefused
<1>1. VInv /\ AcceptedMeansDevice /\ AttestedByCurrentRoot => SupersededStaysRefused
  <2> SUFFICES ASSUME VInv, AcceptedMeansDevice, AttestedByCurrentRoot,
                      NEW s \in states, NEW t \in states, Extends(s.events, t.events)
               PROVE  /\ \A r \in responses :
                            r.signer \in Superseded(s.events) => ~VerifyChallengeResponse(t, r)
                      /\ \A a \in attestations :
                            a.issuerKey \in Superseded(s.events) => ~VerifyAttestationWithState(t, a)
    BY DEF SupersededStaysRefused
  <2>1. s.events \in Seq(Event) /\ t.events \in Seq(Event)
    BY DEF VInv, StateOfTheOwner
  <2>2. Superseded(s.events) \subseteq Superseded(t.events)
    BY <2>1, SupersededGrows
  <2> QED BY <2>2 DEF AcceptedMeansDevice, AttestedByCurrentRoot
<1> QED
  BY <1>1, VerificationInvariance, AcceptedResponsesAreOfDevices,
     AcceptedAttestationsAreOfTheRoot, PTL

(* Verifying leaves the identity alone: with challenges, responses and     *)
(* attestations about, the owner's steps are those of IdentityChain, and   *)
(* what is proved of it holds here.                                        *)
THEOREM VerifiersLeaveTheIdentity == VerificationSpec => Spec
<1>1. VerificationInit => Init
  BY DEF VerificationInit
<1>2. [VerificationNext]_allVars => [Next]_vars
  BY OwnerIsNext DEF VerificationNext, ExportState, CreateChallenge, RespondToChallenge,
                     IssueAttestation, allVars
<1> QED BY <1>1, <1>2, PTL DEF VerificationSpec, Spec

=============================================================================
