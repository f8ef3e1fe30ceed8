------------------------ MODULE IdentityChain_proofs ------------------------
(***************************************************************************)
(* Theorems about IdentityChain for every set of values and every bound.   *)
(*                                                                         *)
(* First types, what loads and what fails; then what ReplayState computes, *)
(* for chains of any length: it accepts exactly the sound chains, and the  *)
(* document it builds one event at a time is the one the chain describes.  *)
(* From that: what a chain revoked stays revoked when it grows, and the key*)
(* ring that is saved fits the saved document.                             *)
(***************************************************************************)
EXTENDS IdentityChain, FiniteSetTheorems, SequenceTheorems, TLAPS

(* Induction on the natural numbers, for a set: below a number outside it, *)
(* successor would be an injection of a finite set into itself less zero.  *)
LEMMA SetInduction ==
  ASSUME NEW T, T \subseteq Nat, 0 \in T, \A n \in T : n + 1 \in T
  PROVE  T = Nat
<1> SUFFICES ASSUME NEW n \in Nat, n \notin T
             PROVE  FALSE
  OBVIOUS
<1> DEFINE S == T \cap (0 .. n)
           R == S \ {0}
           f == [x \in S |-> x + 1]
<1>1. f \in Injection(S, R)
  <2>1. ASSUME NEW x \in S
        PROVE  x + 1 \in R
    OBVIOUS
  <2>2. \A x, y \in S : f[x] = f[y] => x = y
    OBVIOUS
  <2> QED BY <2>1, <2>2 DEF Injection, IsInjective
<1> HIDE DEF f
<1>2. IsFiniteSet(S)
  <2>1. IsFiniteSet(0 .. n)
    BY 0 \in Int, n \in Int, FS_Interval
  <2>2. S \in SUBSET (0 .. n)
    OBVIOUS
  <2> HIDE DEF S
  <2> QED BY <2>1, <2>2, FS_Subset
<1>3. IsFiniteSet(R) /\ Cardinality(R) = Cardinality(S) - 1
  <2>1. 0 \in S
    OBVIOUS
  <2> HIDE DEF S
  <2> QED BY <1>2, <2>1, FS_RemoveElement
<1>4. Cardinality(S) \in Nat
  BY <1>2, FS_CardinalityType
<1> HIDE DEF S, R, f
<1>5. Cardinality(S) <= Cardinality(R)
  BY <1>1, <1>3, FS_Injection
<1> QED BY <1>3, <1>4, <1>5

(* So a set of natural numbers has a least element.                        *)
LEMMA LeastElement ==
  ASSUME NEW S, S \subseteq Nat, S # {}
  PROVE  \E i \in S : \A j \in S : i <= j
<1> SUFFICES ASSUME \A i \in S : \E j \in S : j < i
             PROVE  FALSE
  OBVIOUS
<1> DEFINE T == {n \in Nat : \A j \in S : j > n}
<1>1. 0 \in T
  OBVIOUS
<1>2. ASSUME NEW n \in T
      PROVE  n + 1 \in T
  <2> SUFFICES ASSUME NEW j \in S, j = n + 1
               PROVE  FALSE
    OBVIOUS
  <2>1. PICK k \in S : k < j
    OBVIOUS
  <2> QED BY <2>1
<1>3. T = Nat
  <2>1. T \subseteq Nat
    OBVIOUS
  <2> HIDE DEF T
  <2> QED BY <1>1, <1>2, <2>1, SetInduction
<1>4. PICK i \in S : TRUE
  OBVIOUS
<1>5. i \in T
  BY <1>3
<1> QED BY <1>5

-----------------------------------------------------------------------------
(* The function DocumentsAlong defines by recursion exists, so it obeys    *)
(* its equation.                                                           *)
DocumentAfter(f, events, n) ==
    IF n = 1 THEN InitDocumentFromCreate(events[1])
    ELSE ReplayStep(f[n - 1], events[n])

LEMMA RecursionExists ==
  ASSUME NEW events
  PROVE  \A k \in Nat : \E f : f = [n \in 1 .. k |-> DocumentAfter(f, events, n)]
<1> DEFINE T == {k \in Nat : \E f : f = [n \in 1 .. k |-> DocumentAfter(f, events, n)]}
<1>1. 0 \in T
  <2> DEFINE f == [n \in 1 .. 0 |-> 0]
  <2>1. f = [n \in 1 .. 0 |-> DocumentAfter(f, events, n)]
    OBVIOUS
  <2> QED BY <2>1
<1>2. ASSUME NEW k \in T
      PROVE  k + 1 \in T
  <2>1. k \in Nat
    OBVIOUS
  <2>2. PICK f : f = [n \in 1 .. k |-> DocumentAfter(f, events, n)]
    OBVIOUS
  <2> DEFINE g == [n \in 1 .. (k + 1) |-> IF n = k + 1 THEN DocumentAfter(f, events, n) ELSE f[n]]
  <2>3. ASSUME NEW n \in 1 .. (k + 1)
        PROVE  g[n] = DocumentAfter(g, events, n)
    <3>1. CASE n = 1
      BY <2>1, <2>2, <3>1 DEF DocumentAfter
    <3>2. CASE n # 1
      <4>1. n - 1 \in 1 .. k /\ n - 1 # k + 1 /\ g[n - 1] = f[n - 1]
        BY <2>1, <3>2
      <4>2. g[n] = DocumentAfter(f, events, n)
        BY <2>1, <2>2
      <4> QED BY <4>1, <4>2, <3>2 DEF DocumentAfter
    <3> QED BY <3>1, <3>2
  <2>4. g = [n \in 1 .. (k + 1) |-> DocumentAfter(g, events, n)]
    BY <2>3
  <2> HIDE DEF g
  <2> QED BY <2>1, <2>4
<1>3. T = Nat
  <2> HIDE DEF T
  <2>1. T \subseteq Nat
    BY DEF T
  <2> QED BY <1>1, <1>2, <2>1, SetInduction
<1> QED BY <1>3

LEMMA DocumentsAlongEquation ==
  ASSUME NEW events, Len(events) \in Nat
  PROVE  DocumentsAlong(events) =
           [n \in 1 .. Len(events) |-> DocumentAfter(DocumentsAlong(events), events, n)]
<1>1. \E f : f = [n \in 1 .. Len(events) |-> DocumentAfter(f, events, n)]
  BY RecursionExists
<1> QED BY <1>1 DEF DocumentsAlong, DocumentAfter

(* A longer chain has the documents of the shorter one along its way.      *)
LEMMA DocumentsAlongPrefix ==
  ASSUME NEW events \in Seq(Event), NEW e \in Event
  PROVE  \A n \in 1 .. Len(events) :
            DocumentsAlong(Append(events, e))[n] = DocumentsAlong(events)[n]
<1> DEFINE longer == Append(events, e)
           T == {k \in Nat : k + 1 \in 1 .. Len(events) =>
                    DocumentsAlong(longer)[k + 1] = DocumentsAlong(events)[k + 1]}
<1>1. /\ Len(events) \in Nat /\ Len(longer) = Len(events) + 1
      /\ \A n \in 1 .. Len(events) : longer[n] = events[n]
  OBVIOUS
<1>2. ASSUME NEW n \in 1 .. Len(events)
      PROVE  /\ DocumentsAlong(events)[n] = DocumentAfter(DocumentsAlong(events), events, n)
             /\ DocumentsAlong(longer)[n] = DocumentAfter(DocumentsAlong(longer), longer, n)
             /\ longer[n] = events[n]
  <2>1. n \in 1 .. Len(longer)
    BY <1>1
  <2> HIDE DEF longer
  <2> QED BY <1>1, <2>1, DocumentsAlongEquation
<1> HIDE DEF longer
<1>3. 0 \in T
  <2> SUFFICES ASSUME 1 \in 1 .. Len(events)
               PROVE  DocumentsAlong(longer)[1] = DocumentsAlong(events)[1]
    OBVIOUS
  <2> QED BY <1>2 DEF DocumentAfter
<1>4. ASSUME NEW k \in T
      PROVE  k + 1 \in T
  <2> SUFFICES ASSUME k + 2 \in 1 .. Len(events)
               PROVE  DocumentsAlong(longer)[k + 2] = DocumentsAlong(events)[k + 2]
    OBVIOUS
  <2>1. k \in Nat /\ k + 2 # 1 /\ (k + 2) - 1 = k + 1 /\ k + 1 \in 1 .. Len(events)
    BY <1>1
  <2>2. DocumentsAlong(longer)[k + 1] = DocumentsAlong(events)[k + 1]
    BY <2>1
  <2> QED BY <1>2, <2>1, <2>2 DEF DocumentAfter
<1>5. T = Nat
  <2>1. T \subseteq Nat
    OBVIOUS
  <2> HIDE DEF T
  <2> QED BY <1>3, <1>4, <2>1, SetInduction
<1> SUFFICES ASSUME NEW n \in 1 .. Len(events)
             PROVE  DocumentsAlong(longer)[n] = DocumentsAlong(events)[n]
  BY DEF longer
<1>6. n - 1 \in Nat /\ (n - 1) + 1 = n
  BY <1>1
<1>7. n - 1 \in T
  <2> HIDE DEF T
  <2> QED BY <1>5, <1>6
<1> QED BY <1>6, <1>7

(* ReplayState of one more event is one more step of its loop.             *)
LEMMA ReplayAppend ==
  ASSUME NEW events \in Seq(Event), events # <<>>, NEW e \in Event
  PROVE  ReplayState(Append(events, e)) = ReplayStep(ReplayState(events), e)
<1> DEFINE longer == Append(events, e)
           n == Len(events)
<1>1. /\ n \in Nat /\ n >= 1 /\ Len(longer) = n + 1
      /\ longer[1] = events[1] /\ longer[n + 1] = e /\ longer # <<>>
  OBVIOUS
<1>2. Creates(longer) <=> Creates(events)
  <2> HIDE DEF longer
  <2> QED BY <1>1 DEF Creates
<1>3. DocumentsAlong(longer)[n + 1] = ReplayStep(DocumentsAlong(longer)[n], e)
  <2>1. n + 1 # 1 /\ (n + 1) - 1 = n /\ n + 1 \in 1 .. Len(longer) /\ Len(longer) \in Nat
    BY <1>1
  <2> HIDE DEF longer, n
  <2>2. DocumentsAlong(longer)[n + 1] = DocumentAfter(DocumentsAlong(longer), longer, n + 1)
    BY <2>1, DocumentsAlongEquation
  <2> QED BY <1>1, <2>1, <2>2 DEF DocumentAfter
<1>4. DocumentsAlong(longer)[n] = DocumentsAlong(events)[n]
  BY <1>1, DocumentsAlongPrefix
<1>5. ReplayStep(Rejected, e) = Rejected
  BY DEF ReplayStep
<1> HIDE DEF longer
<1> QED BY <1>1, <1>2, <1>3, <1>4, <1>5 DEF ReplayState, longer

(* A chain of a create event alone replays to its document.                *)
LEMMA ReplayCreate ==
  ASSUME NEW e \in Event, Creates(<<e>>)
  PROVE  ReplayState(<<e>>) = InitDocumentFromCreate(e)
<1>1. Len(<<e>>) = 1 /\ <<e>>[1] = e
  OBVIOUS
<1>2. DocumentsAlong(<<e>>)[1] = DocumentAfter(DocumentsAlong(<<e>>), <<e>>, 1)
  BY <1>1, DocumentsAlongEquation
<1> QED BY <1>1, <1>2 DEF ReplayState, DocumentAfter

-----------------------------------------------------------------------------
(* Types.                                                                  *)

LEMMA RevokeType ==
  ASSUME NEW keys \in Seq(KeyRecord), NEW k, NEW ts \in Times
  PROVE  Revoke(keys, k, ts) \in Seq(KeyRecord)
<1>1. ASSUME NEW c
      PROVE  [keys EXCEPT ![c].revokedAt = ts] \in Seq(KeyRecord)
  <2> DEFINE changed == [keys EXCEPT ![c].revokedAt = ts]
  <2>1. DOMAIN keys = 1 .. Len(keys) /\ Len(keys) \in Nat
    OBVIOUS
  <2>2. ASSUME NEW i \in 1 .. Len(keys)
        PROVE  changed[i] \in KeyRecord
    <3>1. keys[i] \in KeyRecord /\ i \in DOMAIN keys
      BY <2>1
    <3>2. changed[i] = IF i = c THEN [keys[i] EXCEPT !.revokedAt = ts] ELSE keys[i]
      BY <3>1
    <3>3. [keys[i] EXCEPT !.revokedAt = ts] \in KeyRecord
      BY <3>1 DEF KeyRecord
    <3> QED BY <3>1, <3>2, <3>3
  <2>3. changed \in [1 .. Len(keys) -> KeyRecord]
    BY <2>1, <2>2
  <2> HIDE DEF changed
  <2>4. changed \in Seq(KeyRecord)
    BY <2>1, <2>3, SeqDef
  <2> QED BY <2>4 DEF changed
<1> QED BY <1>1 DEF Revoke

(* What the payload of an event of each type holds.                        *)
Payload(e) ==
    /\ e.type \in {"CreateIdentity", "UpdateProfile"} => e.val \in Values
    /\ e.type \in {"AddDeviceKey", "RotateRootKey"} => e.key \in KeyIds

LEMMA ActiveKeyType ==
  ASSUME NEW k \in KeyIds, NEW role \in {RootRole, DeviceRole, EncryptionRole}
  PROVE  ActiveKey(k, role) \in KeyRecord
BY DEF ActiveKey, KeyRecord

LEMMA ApplyType ==
  ASSUME NEW doc \in Document, NEW e \in Event, Payload(e), Applicable(doc, e)
  PROVE  ApplyEvent(doc, e) \in Document
<1> DEFINE d == [doc EXCEPT !.updatedAt = e.ts, !.latest = e.id]
<1>1. /\ e.id \in Nat /\ e.ts \in Times /\ e.val \in Values \cup {NoValue}
      /\ e.type \in EventTypes
  BY DEF Event
<1>2. /\ d \in Document /\ d.keys \in Seq(KeyRecord) /\ d.refs \in Seq(Values)
  BY <1>1 DEF Document
<1> HIDE DEF d
<1>3. /\ \A v \in Values : [d EXCEPT !.profile = v] \in Document
      /\ \A v \in Values \cup {NoValue} : [d EXCEPT !.publicMemory = v] \in Document
      /\ \A v \in Values \cup {NoValue} : [d EXCEPT !.privateMemory = v] \in Document
      /\ \A ks \in Seq(KeyRecord) : [d EXCEPT !.keys = ks] \in Document
      /\ \A rs \in Seq(Values) : [d EXCEPT !.refs = rs] \in Document
      /\ \A ks \in Seq(KeyRecord), k \in KeyIds :
             [d EXCEPT !.keys = ks, !.root = k] \in Document
  BY <1>2 DEF Document
<1>4. CASE e.type = "UpdateProfile"
  <2>1. ApplyEvent(doc, e) = [d EXCEPT !.profile = e.val]
    BY <1>4 DEF ApplyEvent, d
  <2> QED BY <1>3, <1>4, <2>1 DEF Payload
<1>5. CASE e.type = "UpdatePublicMemory"
  <2>1. ApplyEvent(doc, e) = [d EXCEPT !.publicMemory = e.val]
    BY <1>5 DEF ApplyEvent, d
  <2> QED BY <1>1, <1>3, <2>1
<1>6. CASE e.type = "UpdatePrivateMemory"
  <2>1. ApplyEvent(doc, e) = [d EXCEPT !.privateMemory = e.val]
    BY <1>6 DEF ApplyEvent, d
  <2> QED BY <1>1, <1>3, <2>1
<1>7. CASE e.type = "AddDeviceKey"
  <2>1. ApplyEvent(doc, e) = [d EXCEPT !.keys = Append(d.keys, ActiveKey(e.key, DeviceRole))]
    BY <1>7 DEF ApplyEvent, d
  <2>2. ActiveKey(e.key, DeviceRole) \in KeyRecord
    BY <1>7, ActiveKeyType DEF Payload
  <2>3. Append(d.keys, ActiveKey(e.key, DeviceRole)) \in Seq(KeyRecord)
    BY <1>2, <2>2
  <2> QED BY <1>3, <2>1, <2>3
<1>8. CASE e.type = "RevokeDevice"
  <2>1. ApplyEvent(doc, e) = [d EXCEPT !.keys = Revoke(d.keys, e.key, e.ts)]
    BY <1>8 DEF ApplyEvent, d
  <2> QED BY <1>1, <1>2, <1>3, <2>1, RevokeType
<1>9. CASE e.type = "RotateRootKey"
  <2> DEFINE ks == Append(Revoke(d.keys, e.signer, e.ts), ActiveKey(e.key, RootRole))
  <2>1. ApplyEvent(doc, e) = [d EXCEPT !.keys = ks, !.root = e.key]
    BY <1>9 DEF ApplyEvent, d
  <2>2. ActiveKey(e.key, RootRole) \in KeyRecord /\ e.key \in KeyIds
    BY <1>9, ActiveKeyType DEF Payload
  <2>3. Revoke(d.keys, e.signer, e.ts) \in Seq(KeyRecord)
    BY <1>1, <1>2, RevokeType
  <2>4. ks \in Seq(KeyRecord)
    BY <2>2, <2>3
  <2> HIDE DEF ks
  <2> QED BY <1>3, <2>1, <2>2, <2>4
<1>10. CASE e.type = "AttachProof"
  <2> DEFINE rs == IF e.val \in {d.refs[i] : i \in DOMAIN d.refs} THEN d.refs
                   ELSE Append(d.refs, e.val)
  <2>1. ApplyEvent(doc, e) = [d EXCEPT !.refs = rs]
    BY <1>10 DEF ApplyEvent, d
  <2>2. rs \in Seq(Values)
    BY <1>1, <1>2, <1>10 DEF Applicable
  <2> HIDE DEF rs
  <2> QED BY <1>3, <2>1, <2>2
<1>11. CASE e.type = "CreateIdentity"
  <2>1. ApplyEvent(doc, e) = d
    BY <1>11 DEF ApplyEvent, d
  <2> QED BY <1>2, <2>1
<1> QED BY <1>1, <1>4, <1>5, <1>6, <1>7, <1>8, <1>9, <1>10, <1>11 DEF EventTypes

LEMMA CreateType ==
  ASSUME NEW e \in Event, e.key \in KeyIds, e.val \in Values
  PROVE  InitDocumentFromCreate(e) \in Document
<1>1. /\ FirstDevice \in KeyIds /\ FirstEncryption \in KeyIds
      /\ e.ts \in Times /\ e.id \in Nat
  BY BoundsAssumption DEF KeyIds, FirstDevice, FirstEncryption, Event
<1>2. <<ActiveKey(e.key, RootRole), ActiveKey(FirstDevice, DeviceRole),
        ActiveKey(FirstEncryption, EncryptionRole)>> \in Seq(KeyRecord)
  <2>1. /\ ActiveKey(e.key, RootRole) \in KeyRecord
        /\ ActiveKey(FirstDevice, DeviceRole) \in KeyRecord
        /\ ActiveKey(FirstEncryption, EncryptionRole) \in KeyRecord
    BY <1>1, ActiveKeyType
  <2> QED BY <2>1
<1>3. <<>> \in Seq(Values)
  OBVIOUS
<1> QED BY <1>1, <1>2, <1>3 DEF InitDocumentFromCreate, Document

LEMMA FirstActiveType ==
  ASSUME NEW doc \in Document, NEW role
  PROVE  FirstActive(doc, role) \in KeyIds \cup {Nobody}
<1> DEFINE active == {i \in DOMAIN doc.keys : doc.keys[i].role = role
                                              /\ doc.keys[i].revokedAt = NeverRevoked}
           first == CHOOSE i \in active : \A j \in active : i <= j
<1>1. doc.keys \in Seq(KeyRecord)
  BY DEF Document
<1>2. CASE active = {}
  BY <1>2 DEF FirstActive
<1>3. CASE active # {}
  <2>1. active \subseteq Nat
    BY <1>1
  <2>2. PICK i \in active : \A j \in active : i <= j
    BY <1>3, <2>1, LeastElement
  <2>3. first \in active
    BY <2>2
  <2>4. first \in DOMAIN doc.keys
    BY <2>3
  <2>5. FirstActive(doc, role) = doc.keys[first].id
    BY <1>3 DEF FirstActive
  <2> HIDE DEF first
  <2>6. doc.keys[first] \in KeyRecord
    BY <1>1, <2>4
  <2> QED BY <2>5, <2>6 DEF KeyRecord
<1> QED BY <1>2, <1>3

LEMMA Absent ==
  /\ \A id \in Identity : id # NoIdentity /\ id # NoFile
  /\ \A doc \in Document : doc # Rejected
<1>1. ASSUME NEW id \in Identity
      PROVE  id # NoIdentity /\ id # NoFile
  <2>1. "doc" \in DOMAIN id
    BY DEF Identity
  <2>2. "doc" \notin DOMAIN NoIdentity /\ "doc" \notin DOMAIN NoFile
    BY DEF NoIdentity, NoFile
  <2> QED BY <2>1, <2>2
<1>2. ASSUME NEW doc \in Document
      PROVE  doc # Rejected
  <2>1. "root" \in DOMAIN doc
    BY DEF Document
  <2>2. "root" \notin DOMAIN Rejected
    BY DEF Rejected
  <2> QED BY <2>1, <2>2
<1> QED BY <1>1, <1>2

-----------------------------------------------------------------------------
(* The inductive invariant.  Keys are generated in order and at most one   *)
(* by event, so the next one is again a key; what the events replay to is  *)
(* a document unless a call has failed; and an object that is not failed,  *)
(* like the file, is either fresh from New or carries the replayed         *)
(* document.                                                               *)

Sane(id) ==
    /\ id.events # <<>>
    /\ Len(id.events) <= MaxEvents
    /\ \E n \in 3 .. (Len(id.events) + 2) : id.local = 1 .. n
    /\ ReplayState(id.events) \in Document \cup {Rejected}

Fresh(id) ==
    /\ Len(id.events) = 1
    /\ ReplayState(id.events) = InitDocumentFromCreate(id.events[1])
    /\ id.doc = [InitDocumentFromCreate(id.events[1]) EXCEPT
                   !.createdAt = id.doc.createdAt, !.updatedAt = id.doc.createdAt]

Current(id) == Fresh(id) \/ (Len(id.events) > 1 /\ VerifyState(id))

IInv ==
    /\ TypeOK
    /\ mem # NoIdentity => Sane(mem)
    /\ file # NoFile => Sane(file)
    /\ outcome = "failed" =>
          mem # NoIdentity /\ ReplayState(mem.events) = Rejected
    /\ mem # NoIdentity /\ outcome # "failed" => Current(mem)
    /\ file # NoFile => Current(file)

(* changed is old with the event e appended and perhaps one more key: the  *)
(* one that e introduces, if it does introduce one.                        *)
Introduces(e) == e.type \in {"AddDeviceKey", "RotateRootKey"}

Grown(old, e, changed) ==
    /\ changed \in Identity
    /\ changed.events = Append(old.events, e)
    /\ changed.doc = old.doc
    /\ changed.preferredEncryption = old.preferredEncryption
    /\ \/ changed.local = old.local
       \/ changed.local = old.local \cup {FreshKey(old)}
    /\ Introduces(e) => /\ e.key = FreshKey(old)
                        /\ changed.local = old.local \cup {FreshKey(old)}

LEMMA FreshKeyIsNext ==
  ASSUME NEW id, NEW n \in Nat, n >= 1, id.local = 1 .. n
  PROVE  FreshKey(id) = n + 1
<1>1. Cardinality(1 .. n) = n
  BY FS_Interval
<1> QED BY <1>1 DEF FreshKey

LEMMA Refreshed ==
  ASSUME NEW old \in Identity, Sane(old), Len(old.events) < MaxEvents,
         NEW e \in Event, Payload(e),
         NEW changed, Grown(old, e, changed)
  PROVE  /\ RefreshDocument(changed) \in Identity
         /\ RefreshDocument(changed).events = changed.events
         /\ RefreshDocument(changed).preferredEncryption = changed.preferredEncryption
         /\ RefreshDocument(changed).local = changed.local
         /\ RefreshDocument(changed).doc =
              IF ReplayState(changed.events) = Rejected THEN changed.doc
              ELSE ReplayState(changed.events)
         /\ Sane(RefreshDocument(changed))
         /\ ReplayState(changed.events) # Rejected => Current(RefreshDocument(changed))
         /\ ReplayState(old.events) = Rejected => ReplayState(changed.events) = Rejected
<1> DEFINE doc == ReplayState(changed.events)
           new == RefreshDocument(changed)
<1>1. old.events \in Seq(Event) /\ old.events # <<>>
  BY DEF Identity, Sane
<1>2. doc = ReplayStep(ReplayState(old.events), e)
  BY <1>1, ReplayAppend DEF Grown
<1>3. ReplayState(old.events) = Rejected => doc = Rejected
  BY <1>2 DEF ReplayStep
<1>4. doc \in Document \cup {Rejected}
  BY <1>2, ApplyType DEF ReplayStep, Accepts, Sane
<1>5. /\ changed.events # <<>> /\ Len(changed.events) = Len(old.events) + 1
      /\ Len(old.events) \in Nat /\ Len(old.events) >= 1
  BY <1>1 DEF Grown
<1>6. \E n \in 3 .. (Len(changed.events) + 2) : changed.local = 1 .. n
  <2>1. PICK n \in 3 .. (Len(old.events) + 2) : old.local = 1 .. n
    BY DEF Sane
  <2>2. n \in Nat /\ n >= 1 /\ n + 1 \in 3 .. (Len(changed.events) + 2)
        /\ n \in 3 .. (Len(changed.events) + 2)
    BY <1>5
  <2>3. FreshKey(old) = n + 1
    BY <2>1, <2>2, FreshKeyIsNext
  <2>4. (1 .. n) \cup {n + 1} = 1 .. (n + 1)
    BY <2>2
  <2> QED BY <2>1, <2>2, <2>3, <2>4 DEF Grown
<1> HIDE DEF doc
<1>7. CASE doc = Rejected
  <2>1. new = changed
    BY <1>7 DEF RefreshDocument, doc
  <2>2. Sane(changed)
    BY <1>4, <1>5, <1>6, BoundsAssumption DEF Sane, doc
  <2>3. changed \in Identity
    BY DEF Grown
  <2>4. ReplayState(changed.events) = Rejected
    BY <1>7 DEF doc
  <2> QED BY <2>1, <2>2, <2>3, <2>4
<1>8. CASE doc # Rejected
  <2>1. new = [changed EXCEPT !.doc = doc]
    BY <1>8 DEF RefreshDocument, doc
  <2>2. new \in Identity /\ new.events = changed.events /\ new.local = changed.local
        /\ new.doc = doc /\ new.preferredEncryption = changed.preferredEncryption
    BY <1>4, <1>8, <2>1 DEF Grown, Identity
  <2> HIDE DEF new
  <2>3. Sane(new)
    BY <1>4, <1>5, <1>6, <2>2, BoundsAssumption DEF Sane, doc
  <2>4. Len(new.events) > 1 /\ VerifyState(new)
    BY <1>5, <2>2 DEF VerifyState, DocumentsEqual, doc
  <2> QED BY <1>3, <1>8, <2>2, <2>3, <2>4 DEF Current, new, doc
<1> QED BY <1>7, <1>8

-----------------------------------------------------------------------------
(* What an operation does to the session, and that each one does it.       *)

OperationDone ==
    /\ mem # NoIdentity
    /\ mem' \in Identity
    /\ Sane(mem')
    /\ outcome' \in {"ok", "failed"}
    /\ outcome' = "failed" => ReplayState(mem'.events) = Rejected
    /\ outcome' = "ok" => Current(mem')
    /\ ReplayState(mem.events) = Rejected => outcome' = "failed"
    /\ UNCHANGED <<clock, file>>
    /\ mem.local \subseteq mem'.local
    /\ \E e \in Event : /\ Payload(e)
                        /\ mem'.events = Append(mem.events, e)
                        /\ Introduces(e) => e.key = FreshKey(mem) /\ e.key \in mem'.local
    /\ mem'.preferredEncryption = mem.preferredEncryption
    /\ mem'.doc = IF ReplayState(mem'.events) = Rejected THEN mem.doc
                  ELSE ReplayState(mem'.events)

LEMMA Returned ==
  ASSUME IInv, RoomForEvent, NEW e \in Event, Payload(e),
         NEW changed, Grown(mem, e, changed),
         NEW d \in KeyIds \cup {Nobody},
         \/ mem' = RefreshDocument(changed)
         \/ mem' = [RefreshDocument(changed) EXCEPT !.preferredDevice = d],
         Return(changed)
  PROVE  OperationDone
<1> DEFINE new == RefreshDocument(changed)
<1>1. mem # NoIdentity /\ mem \in Identity /\ Sane(mem) /\ Len(mem.events) < MaxEvents
  BY DEF IInv, TypeOK, RoomForEvent
<1>2. /\ new \in Identity
      /\ new.events = changed.events
      /\ new.preferredEncryption = changed.preferredEncryption
      /\ new.local = changed.local
      /\ new.doc = IF ReplayState(changed.events) = Rejected THEN changed.doc
                   ELSE ReplayState(changed.events)
      /\ Sane(new)
      /\ ReplayState(changed.events) # Rejected => Current(new)
      /\ ReplayState(mem.events) = Rejected => ReplayState(changed.events) = Rejected
  BY <1>1, Refreshed
<1> HIDE DEF new
<1>3. /\ mem' \in Identity /\ mem'.events = new.events
      /\ mem'.local = new.local /\ mem'.doc = new.doc
      /\ mem'.preferredEncryption = new.preferredEncryption
  <2>1. CASE mem' = new
    BY <1>2, <2>1
  <2>2. CASE mem' = [new EXCEPT !.preferredDevice = d]
    BY <1>2, <2>2 DEF Identity
  <2> QED BY <2>1, <2>2 DEF new
<1>4. Sane(mem')
  BY <1>2, <1>3 DEF Sane
<1>5. Current(new) => Current(mem')
  BY <1>3 DEF Current, Fresh, VerifyState, DocumentsEqual
<1>6. /\ changed.events = Append(mem.events, e) /\ changed.doc = mem.doc
      /\ mem.local \subseteq changed.local
      /\ Introduces(e) => e.key = FreshKey(mem) /\ e.key \in changed.local
      /\ changed.preferredEncryption = mem.preferredEncryption
  BY DEF Grown
<1> QED BY <1>1, <1>2, <1>3, <1>4, <1>5, <1>6 DEF OperationDone, Return

LEMMA NewEventType ==
  ASSUME NEW id \in Identity, clock \in Times,
         NEW type \in EventTypes, NEW k \in KeyIds \cup {Nobody},
         NEW v \in Values \cup {NoValue}
  PROVE  /\ NewEvent(id, type, k, v) \in Event
         /\ NewEvent(id, type, k, v).type = type
         /\ NewEvent(id, type, k, v).key = k
         /\ NewEvent(id, type, k, v).val = v
<1>1. id.events \in Seq(Event) /\ id.doc \in Document /\ id.preferredRoot \in KeyIds
  BY DEF Identity
<1>2. Len(id.events) + 1 \in Nat /\ id.doc.latest \in Nat /\ id.doc.root \in KeyIds
  BY <1>1 DEF Document
<1> QED BY <1>1, <1>2 DEF NewEvent, Event

LEMMA WithEventGrows ==
  ASSUME mem \in Identity, clock \in Times,
         NEW type \in EventTypes, NEW k \in KeyIds \cup {Nobody},
         NEW v \in Values \cup {NoValue}
  PROVE  /\ WithEvent(type, k, v) \in Identity
         /\ WithEvent(type, k, v).local = mem.local
         /\ WithEvent(type, k, v).events = Append(mem.events, NewEvent(mem, type, k, v))
         /\ WithEvent(type, k, v).doc = mem.doc
         /\ WithEvent(type, k, v).preferredEncryption = mem.preferredEncryption
<1> DEFINE e == NewEvent(mem, type, k, v)
<1>1. e \in Event
  BY NewEventType
<1> HIDE DEF e
<1>2. Append(mem.events, e) \in Seq(Event)
  BY <1>1 DEF Identity
<1>3. WithEvent(type, k, v) = [mem EXCEPT !.events = Append(mem.events, e)]
  BY DEF WithEvent, e
<1> QED BY <1>2, <1>3 DEF Identity, e

LEMMA PlainDone ==
  ASSUME IInv, NEW type \in EventTypes \ {"AddDeviceKey", "RotateRootKey"},
         NEW v \in Values \cup {NoValue}, v \in Values \/ type = "AttachProof",
         Plain(type, v)
  PROVE  OperationDone
<1> DEFINE e == NewEvent(mem, type, Nobody, v)
           changed == WithEvent(type, Nobody, v)
<1>1. mem \in Identity /\ clock \in Times /\ RoomForEvent
  BY DEF IInv, TypeOK, Plain, RoomForEvent
<1>2. e \in Event /\ Payload(e) /\ ~Introduces(e)
  BY <1>1, NewEventType DEF Payload, Introduces
<1>3. Grown(mem, e, changed)
  BY <1>1, <1>2, WithEventGrows DEF Grown
<1>4. mem' = RefreshDocument(changed) /\ Return(changed)
  BY DEF Plain
<1> HIDE DEF e, changed
<1> QED BY <1>1, <1>2, <1>3, <1>4, Returned

LEMMA NextKeyType ==
  ASSUME mem \in Identity, Sane(mem), RoomForEvent
  PROVE  FreshKey(mem) \in KeyIds
<1>1. PICK n \in 3 .. (Len(mem.events) + 2) : mem.local = 1 .. n
  BY DEF Sane
<1>2. Len(mem.events) \in Nat /\ Len(mem.events) < MaxEvents
  BY DEF Identity, RoomForEvent
<1>3. n \in Nat /\ n >= 1 /\ n + 1 \in KeyIds
  BY <1>2, BoundsAssumption DEF KeyIds
<1>4. FreshKey(mem) = n + 1
  BY <1>1, <1>3, FreshKeyIsNext
<1> QED BY <1>3, <1>4

LEMMA AddDeviceDone ==
  ASSUME IInv, AddDevice
  PROVE  OperationDone
<1> DEFINE k == FreshKey(mem)
           e == NewEvent(mem, "AddDeviceKey", k, NoValue)
           before == WithEvent("AddDeviceKey", k, NoValue)
           changed == [before EXCEPT !.local = @ \cup {k},
                                     !.preferredDevice = IF @ = Nobody THEN k ELSE @]
<1>1. mem \in Identity /\ clock \in Times /\ RoomForEvent /\ Sane(mem)
  BY DEF IInv, TypeOK, AddDevice, RoomForEvent
<1>2. k \in KeyIds
  BY <1>1, NextKeyType
<1>3. e \in Event /\ Payload(e) /\ e.key = k
  <2> HIDE DEF k
  <2> QED BY <1>1, <1>2, NewEventType DEF Payload, EventTypes
<1>4. /\ before \in Identity /\ before.local = mem.local
      /\ before.events = Append(mem.events, e)
      /\ before.doc = mem.doc /\ before.preferredEncryption = mem.preferredEncryption
  <2> HIDE DEF k
  <2> QED BY <1>1, <1>2, WithEventGrows DEF EventTypes
<1>5. mem' = RefreshDocument(changed) /\ Return(changed)
  BY DEF AddDevice
<1>6. Grown(mem, e, changed)
  <2> HIDE DEF e, before
  <2>1. changed \in Identity /\ changed.events = before.events
        /\ changed.local = before.local \cup {k} /\ changed.doc = before.doc
        /\ changed.preferredEncryption = before.preferredEncryption
    <3> HIDE DEF k
    <3> QED BY <1>2, <1>4 DEF Identity
  <2> HIDE DEF changed
  <2> QED BY <1>3, <1>4, <2>1 DEF Grown
<1> HIDE DEF e, before, changed, k
<1> QED BY <1>1, <1>3, <1>5, <1>6, Returned

LEMMA RotateRootDone ==
  ASSUME IInv, RotateRoot
  PROVE  OperationDone
<1> DEFINE k == FreshKey(mem)
           e == NewEvent(mem, "RotateRootKey", k, NoValue)
           before == WithEvent("RotateRootKey", k, NoValue)
           changed == [before EXCEPT !.local = @ \cup {k}, !.preferredRoot = k]
<1>1. mem \in Identity /\ clock \in Times /\ RoomForEvent /\ Sane(mem)
  BY DEF IInv, TypeOK, RotateRoot, RoomForEvent
<1>2. k \in KeyIds
  BY <1>1, NextKeyType
<1>3. e \in Event /\ Payload(e) /\ e.key = k
  <2> HIDE DEF k
  <2> QED BY <1>1, <1>2, NewEventType DEF Payload, EventTypes
<1>4. /\ before \in Identity /\ before.local = mem.local
      /\ before.events = Append(mem.events, e)
      /\ before.doc = mem.doc /\ before.preferredEncryption = mem.preferredEncryption
  <2> HIDE DEF k
  <2> QED BY <1>1, <1>2, WithEventGrows DEF EventTypes
<1>5. mem' = RefreshDocument(changed) /\ Return(changed)
  BY DEF RotateRoot
<1>6. Grown(mem, e, changed)
  <2> HIDE DEF e, before
  <2>1. changed \in Identity /\ changed.events = before.events
        /\ changed.local = before.local \cup {k} /\ changed.doc = before.doc
        /\ changed.preferredEncryption = before.preferredEncryption
    <3> HIDE DEF k
    <3> QED BY <1>2, <1>4 DEF Identity
  <2> HIDE DEF changed
  <2> QED BY <1>3, <1>4, <2>1 DEF Grown
<1> HIDE DEF e, before, changed, k
<1> QED BY <1>1, <1>3, <1>5, <1>6, Returned

LEMMA RevokeDeviceDone ==
  ASSUME IInv, NEW k \in KnownKeys \cup {UnknownKey}, RevokeDevice(k)
  PROVE  OperationDone
<1> DEFINE e == NewEvent(mem, "RevokeDevice", k, NoValue)
           changed == WithEvent("RevokeDevice", k, NoValue)
           after == RefreshDocument(changed)
           d == DeviceKeyID(after.doc, k)
<1>1. mem \in Identity /\ clock \in Times /\ RoomForEvent /\ mem # NoIdentity /\ Sane(mem)
  BY DEF IInv, TypeOK, RevokeDevice, RoomForEvent
<1>2. k \in KeyIds
  <2>1. UnknownKey \in KeyIds
    BY BoundsAssumption DEF UnknownKey, KeyIds
  <2>2. ASSUME NEW i \in DOMAIN mem.doc.keys
        PROVE  mem.doc.keys[i].id \in KeyIds
    <3>1. mem.doc.keys \in Seq(KeyRecord)
      BY <1>1 DEF Identity, Document
    <3>2. mem.doc.keys[i] \in KeyRecord
      BY <3>1
    <3> QED BY <3>2 DEF KeyRecord
  <2> QED BY <1>1, <2>1, <2>2 DEF KnownKeys
<1>3. e \in Event /\ Payload(e) /\ ~Introduces(e)
  BY <1>1, <1>2, NewEventType DEF Payload, EventTypes, Introduces
<1>4. Grown(mem, e, changed)
  BY <1>1, <1>2, <1>3, WithEventGrows DEF EventTypes, Grown
<1>5. after \in Identity
  <2> HIDE DEF e, changed
  <2> QED BY <1>1, <1>3, <1>4, Refreshed DEF RoomForEvent
<1>6. d \in KeyIds \cup {Nobody}
  <2> HIDE DEF after
  <2>1. after.doc \in Document
    BY <1>5 DEF Identity
  <2> QED BY <1>2, <2>1, FirstActiveType DEF DeviceKeyID
<1>7. /\ \/ mem' = after
         \/ mem' = [after EXCEPT !.preferredDevice = d]
      /\ Return(changed)
  BY DEF RevokeDevice
<1> HIDE DEF e, d, changed
<1> QED BY <1>1, <1>3, <1>4, <1>6, <1>7, Returned

LEMMA OperationIsDone ==
  ASSUME IInv, Operation
  PROVE  OperationDone
<1>1. CASE UpdateProfile
  BY <1>1, PlainDone DEF UpdateProfile, EventTypes
<1>2. CASE AddPublicMemoryRoot
  BY <1>2, PlainDone DEF AddPublicMemoryRoot, EventTypes
<1>3. CASE AddPrivateMemoryRoot
  BY <1>3, PlainDone DEF AddPrivateMemoryRoot, EventTypes
<1>4. CASE AttachAttestationRef
  BY <1>4, PlainDone DEF AttachAttestationRef, EventTypes
<1>5. CASE AddDevice
  BY <1>5, AddDeviceDone
<1>6. CASE \E k \in KnownKeys \cup {UnknownKey} : RevokeDevice(k)
  BY <1>6, RevokeDeviceDone
<1>7. CASE RotateRoot
  BY <1>7, RotateRootDone
<1> QED BY <1>1, <1>2, <1>3, <1>4, <1>5, <1>6, <1>7 DEF Operation

LEMMA NewDone ==
  ASSUME IInv, New
  PROVE  /\ mem' \in Identity /\ Sane(mem') /\ Current(mem')
         /\ clock' \in Times /\ outcome' = "ok" /\ file' = NoFile
<1>1. PICK name \in Values, skew \in CreateSkew :
         /\ clock + skew <= MaxClock
         /\ clock' = clock + skew
         /\ mem' = Created(name, clock, clock + skew)
  BY DEF New
<1>2. clock \in Times /\ clock' \in Times /\ file' = NoFile /\ outcome' = "ok"
  <2>1. clock \in Times
    BY DEF IInv, TypeOK
  <2>2. clock + skew \in Times
    BY <1>1, <2>1, BoundsAssumption DEF Times
  <2> QED BY <1>1, <2>1, <2>2 DEF New
<1> DEFINE e == [id |-> 1, type |-> "CreateIdentity", prev |-> 0, signer |-> FirstRoot,
                 signedBy |-> FirstRoot, ts |-> clock', key |-> FirstRoot, val |-> name]
           doc == [InitDocumentFromCreate(e) EXCEPT !.createdAt = clock, !.updatedAt = clock]
<1>3. /\ FirstRoot \in KeyIds /\ FirstDevice \in KeyIds /\ FirstEncryption \in KeyIds
      /\ {FirstRoot, FirstDevice, FirstEncryption} = 1 .. 3
  BY BoundsAssumption DEF KeyIds, FirstRoot, FirstDevice, FirstEncryption
<1>4. /\ e \in Event /\ e.key \in KeyIds /\ e.val \in Values
      /\ e.type = "CreateIdentity" /\ e.signer = e.key /\ e.signedBy = e.key
  BY <1>2, <1>3 DEF Event, EventTypes
<1>5. /\ mem'.doc = doc /\ mem'.events = <<e>>
      /\ mem'.local = {FirstRoot, FirstDevice, FirstEncryption}
      /\ mem' = [doc |-> doc, events |-> <<e>>,
                 local |-> {FirstRoot, FirstDevice, FirstEncryption},
                 preferredRoot |-> FirstRoot, preferredDevice |-> FirstDevice,
                 preferredEncryption |-> FirstEncryption]
  BY <1>1 DEF Created
<1> HIDE DEF e
<1>6. InitDocumentFromCreate(e) \in Document
  BY <1>4, CreateType
<1>7. doc \in Document /\ doc.createdAt = clock
      /\ doc = [InitDocumentFromCreate(e) EXCEPT !.createdAt = clock, !.updatedAt = clock]
  BY <1>2, <1>6 DEF Document
<1>8. /\ <<e>> \in Seq(Event) /\ <<e>> # <<>> /\ Len(<<e>>) = 1 /\ <<e>>[1] = e
  BY <1>4
<1>9. ReplayState(<<e>>) = InitDocumentFromCreate(e)
  <2>1. Creates(<<e>>)
    BY <1>4, <1>8 DEF Creates, VerifyEvent
  <2> QED BY <1>4, <2>1, ReplayCreate
<1> HIDE DEF doc
<1>10. mem' \in Identity
  BY <1>3, <1>5, <1>7, <1>8 DEF Identity
<1>11. Sane(mem')
  <2>1. 3 \in 3 .. (Len(<<e>>) + 2)
    BY <1>8
  <2> QED BY <1>3, <1>5, <1>6, <1>8, <1>9, <2>1, BoundsAssumption DEF Sane
<1>12. Fresh(mem')
  BY <1>5, <1>7, <1>8, <1>9 DEF Fresh
<1> QED BY <1>2, <1>10, <1>11, <1>12 DEF Current

-----------------------------------------------------------------------------
(* The invariant is inductive.                                             *)

LEMMA InitHolds == Init => IInv
BY BoundsAssumption DEF Init, IInv, TypeOK, Times

LEMMA StepHolds == IInv /\ [Next]_vars => IInv'
<1> SUFFICES ASSUME IInv, [Next]_vars
             PROVE  IInv'
  OBVIOUS
<1>1. CASE Operation
  <2>1. OperationDone
    BY <1>1, OperationIsDone
  <2>2. mem' # NoIdentity
    BY <2>1, Absent DEF OperationDone
  <2>3. TypeOK'
    BY <2>1 DEF OperationDone, IInv, TypeOK
  <2> QED BY <2>1, <2>2, <2>3 DEF OperationDone, IInv, Sane, Current, Fresh, VerifyState
<1>2. CASE New
  <2>1. /\ mem' \in Identity /\ Sane(mem') /\ Current(mem')
        /\ clock' \in Times /\ outcome' = "ok" /\ file' = NoFile
    BY <1>2, NewDone
  <2>2. TypeOK'
    BY <2>1 DEF TypeOK
  <2> QED BY <2>1, <2>2 DEF IInv
<1>3. CASE Load
  BY <1>3 DEF Load, IInv, TypeOK
<1>4. CASE Save
  BY <1>4 DEF Save, IInv, TypeOK
<1>5. CASE Discard
  BY <1>5 DEF Discard, IInv, TypeOK
<1>6. CASE Tick
  <2>1. clock' \in Times /\ UNCHANGED <<mem, outcome, file>>
    BY <1>6, BoundsAssumption DEF Tick, IInv, TypeOK, Times
  <2> QED BY <2>1 DEF IInv, TypeOK
<1>7. CASE StepBack
  <2>1. clock' \in Times /\ UNCHANGED <<mem, outcome, file>>
    BY <1>7, BoundsAssumption DEF StepBack, IInv, TypeOK, Times
  <2> QED BY <2>1 DEF IInv, TypeOK
<1>8. CASE UNCHANGED vars
  BY <1>8 DEF vars, IInv, TypeOK
<1> QED BY <1>1, <1>2, <1>3, <1>4, <1>5, <1>6, <1>7, <1>8 DEF Next

(* IInv is an invariant of one identity's life, with any values and bounds.*)
THEOREM Invariance == Spec => []IInv
<1> QED BY InitHolds, StepHolds, PTL DEF Spec

(* The clock, the object and the file keep the types of types.go and       *)
(* events.go: what replay builds is again a document, and the key ring     *)
(* holds as many keys as were generated.                                   *)
THEOREM TypeCorrect == Spec => []TypeOK
<1>1. IInv => TypeOK
  BY DEF IInv
<1> QED BY <1>1, Invariance, PTL

(* A saved identity fails to load only when it is fresh from New and its   *)
(* two readings of the clock differ (events.go 44 and 100, keys.go 80).    *)
THEOREM SavedLoadsUnlessSplit == Spec => []OnlyASplitCreateFailsToLoad
<1>1. IInv => OnlyASplitCreateFailsToLoad
  <2> SUFFICES ASSUME IInv, file # NoFile
               PROVE  VerifyState(file) <=> \/ Len(file.events) > 1
                                            \/ file.doc.createdAt = file.events[1].ts
    BY DEF OnlyASplitCreateFailsToLoad
  <2>1. CASE Fresh(file)
    <3> DEFINE doc == InitDocumentFromCreate(file.events[1])
    <3>1. /\ doc.createdAt = file.events[1].ts /\ doc.updatedAt = file.events[1].ts
          /\ file.doc = [doc EXCEPT !.createdAt = file.doc.createdAt,
                                    !.updatedAt = file.doc.createdAt]
          /\ ReplayState(file.events) = doc
          /\ Len(file.events) = 1
      BY <2>1 DEF Fresh, InitDocumentFromCreate
    <3>2. VerifyState(file) => file.doc.createdAt = file.events[1].ts
      BY <3>1 DEF VerifyState, DocumentsEqual
    <3>3. file.doc.createdAt = file.events[1].ts => file.doc = doc
      <4>1. doc \in Document
        <5>1. "root" \in DOMAIN doc /\ "root" \notin DOMAIN Rejected
          BY DEF InitDocumentFromCreate, Rejected
        <5> QED BY <3>1, <5>1 DEF IInv, Sane
      <4> HIDE DEF doc
      <4>2. ASSUME NEW t, doc.createdAt = t, doc.updatedAt = t
            PROVE  [doc EXCEPT !.createdAt = t, !.updatedAt = t] = doc
        BY <4>1, <4>2 DEF Document
      <4> QED BY <3>1, <4>2
    <3> QED BY <3>1, <3>2, <3>3 DEF VerifyState, DocumentsEqual
  <2>2. CASE Len(file.events) > 1 /\ VerifyState(file)
    BY <2>2
  <2> QED BY <2>1, <2>2 DEF IInv, Current
<1> QED BY <1>1, Invariance, PTL

(* After a failed call the events of the object never replay again, so no  *)
(* later operation on it succeeds and it is never saved (events.go 225).   *)
THEOREM FailedForGood == Spec => FailureIsFinal
<1>1. IInv /\ [Next]_vars =>
         [outcome = "failed" /\ mem' # NoIdentity => outcome' = "failed"]_vars
  <2> SUFFICES ASSUME IInv, Next, outcome = "failed", mem' # NoIdentity
               PROVE  outcome' = "failed"
    BY DEF vars
  <2>1. mem # NoIdentity /\ ReplayState(mem.events) = Rejected
    BY DEF IInv
  <2>2. CASE Operation
    BY <2>1, <2>2, OperationIsDone DEF OperationDone
  <2> QED BY <2>1, <2>2 DEF Next, New, Load, Save, Discard, Tick, StepBack
<1> QED BY <1>1, Invariance, PTL DEF Spec, FailureIsFinal

-----------------------------------------------------------------------------
(* The meaning of a chain, one event longer.                               *)

Last(S) == CHOOSE i \in S : \A j \in S : j <= i

LEMMA LastOf ==
  ASSUME NEW n \in Nat, NEW S, S \subseteq 1 .. n, S # {}
  PROVE  Last(S) \in S /\ \A j \in S : j <= Last(S)
<1> DEFINE T == {n - i : i \in S}
<1>1. T \subseteq Nat /\ T # {}
  <2>1. ASSUME NEW i \in S
        PROVE  n - i \in Nat
    <3>1. i \in 1 .. n
      OBVIOUS
    <3> QED BY <3>1
  <2>2. PICK i \in S : TRUE
    OBVIOUS
  <2>3. n - i \in T
    BY <2>2
  <2> QED BY <2>1, <2>3
<1>2. PICK t \in T : \A u \in T : t <= u
  <2> HIDE DEF T
  <2> QED BY <1>1, LeastElement
<1>3. PICK i \in S : t = n - i
  BY <1>2
<1>4. \A j \in S : n - j \in T
  OBVIOUS
<1>5. \A j \in S : j <= i
  <2> TAKE j \in S
  <2>1. n - i <= n - j
    BY <1>2, <1>3, <1>4
  <2> QED BY <2>1
<1> QED BY <1>5 DEF Last

LEMMA LastIsNew ==
  ASSUME NEW n \in Nat, NEW S, S \subseteq 1 .. n
  PROVE  Last(S \cup {n + 1}) = n + 1
<1>1. S \cup {n + 1} \subseteq 1 .. (n + 1) /\ n + 1 \in Nat
  OBVIOUS
<1>2. /\ Last(S \cup {n + 1}) \in S \cup {n + 1}
      /\ \A j \in S \cup {n + 1} : j <= Last(S \cup {n + 1})
  BY <1>1, LastOf
<1>3. \A i \in S : i \in 1 .. n /\ ~(n + 1 <= i)
  OBVIOUS
<1> DEFINE last == Last(S \cup {n + 1})
<1> HIDE DEF last
<1>4. last \in S \cup {n + 1} /\ n + 1 <= last
  BY <1>2 DEF last
<1> QED BY <1>3, <1>4 DEF last

LEMMA AppendedChain ==
  ASSUME NEW events \in Seq(Event), events # <<>>, NEW e \in Event
  PROVE  /\ Len(events) \in Nat /\ Len(events) >= 1
         /\ Len(Append(events, e)) = Len(events) + 1
         /\ Append(events, e)[Len(events) + 1] = e
         /\ \A i \in 1 .. Len(events) : Append(events, e)[i] = events[i]
         /\ Append(events, e)[1] = events[1]
         /\ DOMAIN events = 1 .. Len(events)
         /\ DOMAIN Append(events, e) = 1 .. (Len(events) + 1)
OBVIOUS

(* Where in the first n events there is one of a type.                     *)
Positions(events, n, type) == {i \in 2 .. n : events[i].type = type}

LEMMA PositionsPrefix ==
  ASSUME NEW events \in Seq(Event), events # <<>>, NEW e \in Event, NEW type,
         NEW m \in 1 .. Len(events)
  PROVE  /\ Positions(Append(events, e), m, type) = Positions(events, m, type)
         /\ Positions(events, m, type) \subseteq 1 .. m
<1> DEFINE longer == Append(events, e)
<1>1. \A i \in 2 .. m : longer[i] = events[i] /\ i \in 1 .. m
  BY AppendedChain
<1> HIDE DEF longer
<1> QED BY <1>1 DEF Positions, longer

LEMMA PositionsAppend ==
  ASSUME NEW events \in Seq(Event), events # <<>>, NEW e \in Event, NEW type
  PROVE  Positions(Append(events, e), Len(events) + 1, type) =
           IF e.type = type THEN Positions(events, Len(events), type) \cup {Len(events) + 1}
           ELSE Positions(events, Len(events), type)
<1> DEFINE longer == Append(events, e)
           n == Len(events)
<1>1. /\ n \in Nat /\ n >= 1 /\ longer[n + 1] = e
      /\ \A i \in 1 .. n : longer[i] = events[i]
  BY AppendedChain
<1> HIDE DEF longer, n
<1>2. \A i : i \in 2 .. (n + 1) <=> i \in 2 .. n \/ i = n + 1
  BY <1>1
<1>3. \A i \in 2 .. n : longer[i] = events[i]
  BY <1>1
<1>4. Positions(longer, n + 1, type) =
        IF e.type = type THEN Positions(events, n, type) \cup {n + 1}
        ELSE Positions(events, n, type)
  BY <1>1, <1>2, <1>3 DEF Positions
<1> QED BY <1>4 DEF longer, n

LEMMA RootAfterIs ==
  ASSUME NEW events, NEW n
  PROVE  RootAfter(events, n) =
           IF Positions(events, n, "RotateRootKey") = {} THEN events[1].key
           ELSE events[Last(Positions(events, n, "RotateRootKey"))].key
BY DEF RootAfter, Positions, IsRotation, Last

LEMMA RootAfterPrefix ==
  ASSUME NEW events \in Seq(Event), events # <<>>, NEW e \in Event,
         NEW m \in 1 .. Len(events)
  PROVE  RootAfter(Append(events, e), m) = RootAfter(events, m)
<1> DEFINE longer == Append(events, e)
           P == Positions(events, m, "RotateRootKey")
<1>1. m \in Nat /\ longer[1] = events[1] /\ \A i \in 1 .. m : longer[i] = events[i]
  BY AppendedChain
<1>2. Positions(longer, m, "RotateRootKey") = P /\ P \subseteq 1 .. m
  BY PositionsPrefix
<1> HIDE DEF P, longer
<1>3. P # {} => Last(P) \in 1 .. m
  BY <1>1, <1>2, LastOf
<1>4. /\ RootAfter(events, m) = IF P = {} THEN events[1].key ELSE events[Last(P)].key
      /\ RootAfter(longer, m) = IF P = {} THEN longer[1].key ELSE longer[Last(P)].key
  BY <1>2, RootAfterIs DEF P
<1> QED BY <1>1, <1>3, <1>4 DEF longer

LEMMA RootAfterAppend ==
  ASSUME NEW events \in Seq(Event), events # <<>>, NEW e \in Event
  PROVE  RootAfter(Append(events, e), Len(events) + 1) =
           IF IsRotation(e) THEN e.key ELSE RootAfter(events, Len(events))
<1> DEFINE longer == Append(events, e)
           n == Len(events)
           P == Positions(events, n, "RotateRootKey")
<1>1. /\ n \in Nat /\ n >= 1 /\ longer[n + 1] = e /\ longer[1] = events[1]
      /\ \A i \in 1 .. n : longer[i] = events[i]
  BY AppendedChain
<1>2. /\ Positions(longer, n + 1, "RotateRootKey") =
            IF IsRotation(e) THEN P \cup {n + 1} ELSE P
      /\ P \subseteq 1 .. n
  <2>1. n \in 1 .. n
    BY <1>1
  <2> QED BY <2>1, PositionsAppend, PositionsPrefix DEF IsRotation
<1> HIDE DEF P, longer, n
<1>3. P # {} => Last(P) \in 1 .. n
  BY <1>1, <1>2, LastOf
<1>4. Last(P \cup {n + 1}) = n + 1
  BY <1>1, <1>2, LastIsNew
<1>5. RootAfter(events, n) = IF P = {} THEN events[1].key ELSE events[Last(P)].key
  BY RootAfterIs DEF P
<1>6. CASE IsRotation(e)
  <2>1. RootAfter(longer, n + 1) = longer[Last(P \cup {n + 1})].key
    BY <1>2, <1>6, RootAfterIs
  <2> QED BY <1>1, <1>4, <1>6, <2>1 DEF longer, n
<1>7. CASE ~IsRotation(e)
  <2>1. RootAfter(longer, n + 1) = IF P = {} THEN longer[1].key ELSE longer[Last(P)].key
    BY <1>2, <1>7, RootAfterIs
  <2> QED BY <1>1, <1>3, <1>5, <1>7, <2>1 DEF longer, n
<1> QED BY <1>6, <1>7

LEMMA RevokedWithinIs ==
  ASSUME NEW events, NEW n
  PROVE  RevokedWithin(events, n) =
           {events[i].key : i \in Positions(events, n, "RevokeDevice")}
             \cup {RootAfter(events, i - 1) : i \in Positions(events, n, "RotateRootKey")}
BY DEF RevokedWithin, Positions, IsRotation

LEMMA RevokedWithinPrefix ==
  ASSUME NEW events \in Seq(Event), events # <<>>, NEW e \in Event,
         NEW m \in 1 .. Len(events)
  PROVE  RevokedWithin(Append(events, e), m) = RevokedWithin(events, m)
<1> DEFINE longer == Append(events, e)
           P == Positions(events, m, "RevokeDevice")
           R == {i \in 2 .. m : events[i].type = "RotateRootKey"}
<1>1. /\ Len(events) \in Nat /\ \A i \in 1 .. Len(events) : longer[i] = events[i]
  BY AppendedChain
<1>2. /\ Positions(longer, m, "RevokeDevice") = P /\ P \subseteq 1 .. m
      /\ Positions(longer, m, "RotateRootKey") = R
      /\ Positions(events, m, "RotateRootKey") = R
  <2>1. Positions(events, m, "RotateRootKey") = R
    BY DEF Positions
  <2> QED BY <2>1, PositionsPrefix
<1>3. ASSUME NEW i \in R
      PROVE  RootAfter(longer, i - 1) = RootAfter(events, i - 1)
  <2>1. i - 1 \in 1 .. Len(events)
    BY <1>1
  <2> QED BY <2>1, RootAfterPrefix
<1> HIDE DEF longer, P, R
<1>4. \A i \in P : longer[i].key = events[i].key
  BY <1>1, <1>2
<1>5. /\ RevokedWithin(events, m) =
           {events[i].key : i \in P} \cup {RootAfter(events, i - 1) : i \in R}
      /\ RevokedWithin(longer, m) =
           {longer[i].key : i \in P} \cup {RootAfter(longer, i - 1) : i \in R}
  BY <1>2, RevokedWithinIs DEF P
<1> QED BY <1>3, <1>4, <1>5 DEF longer

LEMMA RevokedWithinAppend ==
  ASSUME NEW events \in Seq(Event), events # <<>>, NEW e \in Event
  PROVE  RevokedWithin(Append(events, e), Len(events) + 1) =
           RevokedWithin(events, Len(events)) \cup
             (CASE e.type = "RevokeDevice" -> {e.key}
                [] e.type = "RotateRootKey" -> {RootAfter(events, Len(events))}
                [] OTHER -> {})
<1> DEFINE longer == Append(events, e)
           n == Len(events)
           P == Positions(longer, n, "RevokeDevice")
           R == Positions(longer, n, "RotateRootKey")
           PP == Positions(longer, n + 1, "RevokeDevice")
           RR == Positions(longer, n + 1, "RotateRootKey")
<1>1. n \in Nat /\ n >= 1 /\ longer[n + 1] = e /\ (n + 1) - 1 = n
  BY AppendedChain
<1>2. /\ PP = IF e.type = "RevokeDevice" THEN P \cup {n + 1} ELSE P
      /\ RR = IF e.type = "RotateRootKey" THEN R \cup {n + 1} ELSE R
  <2>1. n \in 1 .. n
    BY <1>1
  <2>2. /\ P = Positions(events, n, "RevokeDevice")
        /\ R = Positions(events, n, "RotateRootKey")
    BY <2>1, PositionsPrefix
  <2> HIDE DEF P, R
  <2>3. /\ Positions(longer, n + 1, "RevokeDevice") =
              IF e.type = "RevokeDevice" THEN Positions(events, n, "RevokeDevice") \cup {n + 1}
              ELSE Positions(events, n, "RevokeDevice")
        /\ Positions(longer, n + 1, "RotateRootKey") =
              IF e.type = "RotateRootKey" THEN Positions(events, n, "RotateRootKey") \cup {n + 1}
              ELSE Positions(events, n, "RotateRootKey")
    BY PositionsAppend
  <2> HIDE DEF longer, n
  <2> QED BY <2>2, <2>3
<1>3. RootAfter(longer, n) = RootAfter(events, n)
  BY <1>1, RootAfterPrefix
<1>4. RevokedWithin(longer, n) = RevokedWithin(events, n)
  BY <1>1, RevokedWithinPrefix
<1> HIDE DEF longer, n
<1>5. /\ RevokedWithin(longer, n) =
           {longer[i].key : i \in P} \cup {RootAfter(longer, i - 1) : i \in R}
      /\ RevokedWithin(longer, n + 1) =
           {longer[i].key : i \in PP} \cup {RootAfter(longer, i - 1) : i \in RR}
  BY RevokedWithinIs
<1> HIDE DEF P, R, PP, RR
<1>6. {longer[i].key : i \in PP} =
        {longer[i].key : i \in P} \cup (IF e.type = "RevokeDevice" THEN {e.key} ELSE {})
  BY <1>1, <1>2
<1>7. {RootAfter(longer, i - 1) : i \in RR} =
        {RootAfter(longer, i - 1) : i \in R}
          \cup (IF e.type = "RotateRootKey" THEN {RootAfter(longer, n)} ELSE {})
  BY <1>1, <1>2
<1>8. CASE e.type = "RevokeDevice"
  BY <1>4, <1>5, <1>6, <1>7, <1>8 DEF longer, n
<1>9. CASE e.type = "RotateRootKey"
  BY <1>3, <1>4, <1>5, <1>6, <1>7, <1>9 DEF longer, n
<1>10. CASE e.type \notin {"RevokeDevice", "RotateRootKey"}
  BY <1>4, <1>5, <1>6, <1>7, <1>10 DEF longer, n
<1> QED BY <1>8, <1>9, <1>10

LEMMA KeysWithinIs ==
  ASSUME NEW events, NEW n
  PROVE  KeysWithin(events, n) =
           {FirstRoot, FirstDevice, FirstEncryption}
             \cup {events[i].key : i \in Positions(events, n, "AddDeviceKey")
                                           \cup Positions(events, n, "RotateRootKey")}
<1>1. {j \in 2 .. n : events[j].type = "AddDeviceKey" \/ IsRotation(events[j])} =
        Positions(events, n, "AddDeviceKey") \cup Positions(events, n, "RotateRootKey")
  BY DEF Positions, IsRotation
<1> QED BY <1>1 DEF KeysWithin

LEMMA KeysWithinPrefix ==
  ASSUME NEW events \in Seq(Event), events # <<>>, NEW e \in Event,
         NEW m \in 1 .. Len(events)
  PROVE  KeysWithin(Append(events, e), m) = KeysWithin(events, m)
<1> DEFINE longer == Append(events, e)
           P == Positions(events, m, "AddDeviceKey")
           R == Positions(events, m, "RotateRootKey")
<1>1. /\ Len(events) \in Nat /\ \A i \in 1 .. Len(events) : longer[i] = events[i]
  BY AppendedChain
<1>2. /\ Positions(longer, m, "AddDeviceKey") = P /\ P \subseteq 1 .. m
      /\ Positions(longer, m, "RotateRootKey") = R /\ R \subseteq 1 .. m
  BY PositionsPrefix
<1> HIDE DEF longer
<1>3. /\ KeysWithin(events, m) = {FirstRoot, FirstDevice, FirstEncryption}
                                   \cup {events[i].key : i \in P \cup R}
      /\ KeysWithin(longer, m) = {FirstRoot, FirstDevice, FirstEncryption}
                                   \cup {longer[i].key : i \in P \cup R}
  BY <1>2, KeysWithinIs
<1> HIDE DEF P, R
<1>4. \A i \in P \cup R : longer[i].key = events[i].key
  BY <1>1, <1>2
<1> QED BY <1>3, <1>4 DEF longer

LEMMA KeysWithinAppend ==
  ASSUME NEW events \in Seq(Event), events # <<>>, NEW e \in Event
  PROVE  KeysWithin(Append(events, e), Len(events) + 1) =
           KeysWithin(events, Len(events)) \cup (IF Introduces(e) THEN {e.key} ELSE {})
<1> DEFINE longer == Append(events, e)
           n == Len(events)
           P == Positions(longer, n, "AddDeviceKey") \cup Positions(longer, n, "RotateRootKey")
           PP == Positions(longer, n + 1, "AddDeviceKey")
                   \cup Positions(longer, n + 1, "RotateRootKey")
<1>1. n \in Nat /\ n >= 1 /\ longer[n + 1] = e
  BY AppendedChain
<1>2. PP = IF Introduces(e) THEN P \cup {n + 1} ELSE P
  <2>1. n \in 1 .. n
    BY <1>1
  <2>2. P = Positions(events, n, "AddDeviceKey") \cup Positions(events, n, "RotateRootKey")
    BY <2>1, PositionsPrefix
  <2> HIDE DEF P
  <2>3. /\ Positions(longer, n + 1, "AddDeviceKey") =
              IF e.type = "AddDeviceKey" THEN Positions(events, n, "AddDeviceKey") \cup {n + 1}
              ELSE Positions(events, n, "AddDeviceKey")
        /\ Positions(longer, n + 1, "RotateRootKey") =
              IF e.type = "RotateRootKey" THEN Positions(events, n, "RotateRootKey") \cup {n + 1}
              ELSE Positions(events, n, "RotateRootKey")
    BY PositionsAppend
  <2> HIDE DEF longer, n
  <2> QED BY <2>2, <2>3 DEF Introduces
<1>3. KeysWithin(longer, n) = KeysWithin(events, n)
  BY <1>1, KeysWithinPrefix
<1> HIDE DEF longer, n
<1>4. /\ KeysWithin(longer, n) = {FirstRoot, FirstDevice, FirstEncryption}
                                   \cup {longer[i].key : i \in P}
      /\ KeysWithin(longer, n + 1) = {FirstRoot, FirstDevice, FirstEncryption}
                                       \cup {longer[i].key : i \in PP}
  BY KeysWithinIs
<1> HIDE DEF P, PP
<1>5. {longer[i].key : i \in PP} =
        {longer[i].key : i \in P} \cup (IF Introduces(e) THEN {e.key} ELSE {})
  BY <1>1, <1>2
<1> QED BY <1>3, <1>4, <1>5 DEF longer, n

LEMMA LastValueAppend ==
  ASSUME NEW events \in Seq(Event), events # <<>>, NEW e \in Event, NEW type
  PROVE  LastValue(Append(events, e), type) =
           IF e.type = type THEN e.val ELSE LastValue(events, type)
<1> DEFINE longer == Append(events, e)
           n == Len(events)
           P == Positions(events, n, type)
<1>1. /\ n \in Nat /\ n >= 1 /\ longer[n + 1] = e /\ Len(longer) = n + 1
      /\ \A i \in 1 .. n : longer[i] = events[i]
  BY AppendedChain
<1>2. /\ Positions(longer, n + 1, type) = IF e.type = type THEN P \cup {n + 1} ELSE P
      /\ P \subseteq 1 .. n
  <2>1. n \in 1 .. n
    BY <1>1
  <2> QED BY <2>1, PositionsAppend, PositionsPrefix
<1>3. ASSUME NEW chain
      PROVE  LastValue(chain, type) =
               IF Positions(chain, Len(chain), type) = {} THEN NoValue
               ELSE chain[Last(Positions(chain, Len(chain), type))].val
  BY DEF LastValue, Positions, Last
<1>4. LastValue(events, type) = IF P = {} THEN NoValue ELSE events[Last(P)].val
  BY <1>3
<1> HIDE DEF longer, n, P
<1>5. P # {} => Last(P) \in 1 .. n
  BY <1>1, <1>2, LastOf
<1>6. CASE e.type = type
  <2>1. LastValue(longer, type) = longer[Last(P \cup {n + 1})].val
    BY <1>1, <1>2, <1>3, <1>6
  <2> QED BY <1>1, <1>2, <1>6, <2>1, LastIsNew DEF longer
<1>7. CASE e.type # type
  <2>1. LastValue(longer, type) = IF P = {} THEN NoValue ELSE longer[Last(P)].val
    BY <1>1, <1>2, <1>3, <1>7
  <2> QED BY <1>1, <1>4, <1>5, <1>7, <2>1 DEF longer
<1> QED BY <1>6, <1>7

LEMMA SoundAppend ==
  ASSUME NEW events \in Seq(Event), events # <<>>, NEW e \in Event
  PROVE  SoundChain(Append(events, e)) <=>
           /\ SoundChain(events)
           /\ e.prev = events[Len(events)].id
           /\ e.ts >= events[Len(events)].ts
           /\ e.signer = RootAfter(events, Len(events))
           /\ e.signedBy = e.signer
           /\ e.signer \notin RevokedWithin(events, Len(events))
           /\ e.type = "RevokeDevice" => e.key \in KeysWithin(events, Len(events))
           /\ e.type = "AttachProof" => e.val # NoValue
<1> DEFINE longer == Append(events, e)
           n == Len(events)
           Link(chain, i) ==
             /\ chain[i].prev = chain[i - 1].id
             /\ chain[i].ts >= chain[i - 1].ts
             /\ chain[i].signer = RootAfter(chain, i - 1)
             /\ chain[i].signedBy = chain[i].signer
             /\ chain[i].signer \notin RevokedWithin(chain, i - 1)
             /\ chain[i].type = "RevokeDevice" => chain[i].key \in KeysWithin(chain, i - 1)
             /\ chain[i].type = "AttachProof" => chain[i].val # NoValue
<1>1. /\ n \in Nat /\ n >= 1 /\ longer[n + 1] = e /\ Len(longer) = n + 1
      /\ \A i \in 1 .. n : longer[i] = events[i]
  BY AppendedChain
<1>2. /\ \A m \in 1 .. n : RootAfter(longer, m) = RootAfter(events, m)
      /\ \A m \in 1 .. n : RevokedWithin(longer, m) = RevokedWithin(events, m)
      /\ \A m \in 1 .. n : KeysWithin(longer, m) = KeysWithin(events, m)
  BY RootAfterPrefix, RevokedWithinPrefix, KeysWithinPrefix
<1>3. /\ SoundChain(events) <=> \A i \in 2 .. n : Link(events, i)
      /\ SoundChain(longer) <=> \A i \in 2 .. (n + 1) : Link(longer, i)
  <2>1. \A chain : SoundChain(chain) <=> \A i \in 2 .. Len(chain) : Link(chain, i)
    BY DEF SoundChain
  <2> HIDE DEF Link, longer
  <2> QED BY <1>1, <2>1
<1> HIDE DEF longer, n
<1>4. ASSUME NEW i \in 2 .. n
      PROVE  Link(longer, i) <=> Link(events, i)
  <2>1. i - 1 \in 1 .. n /\ i \in 1 .. n
    BY <1>1
  <2>2. longer[i] = events[i] /\ longer[i - 1] = events[i - 1]
    BY <1>1, <2>1
  <2> QED BY <1>2, <2>1, <2>2
<1>5. Link(longer, n + 1) <=>
        /\ e.prev = events[n].id
        /\ e.ts >= events[n].ts
        /\ e.signer = RootAfter(events, n)
        /\ e.signedBy = e.signer
        /\ e.signer \notin RevokedWithin(events, n)
        /\ e.type = "RevokeDevice" => e.key \in KeysWithin(events, n)
        /\ e.type = "AttachProof" => e.val # NoValue
  <2>1. (n + 1) - 1 = n /\ n \in 1 .. n /\ longer[n] = events[n]
    BY <1>1
  <2> QED BY <1>1, <1>2, <2>1
<1>6. \A i : i \in 2 .. (n + 1) <=> i \in 2 .. n \/ i = n + 1
  BY <1>1
<1> HIDE DEF Link
<1> QED BY <1>3, <1>4, <1>5, <1>6 DEF longer, n

-----------------------------------------------------------------------------
(* The keys of a document, one event later.                                *)

LEMMA RevokeKeepsKeys ==
  ASSUME NEW keys \in Seq(KeyRecord), NEW k, NEW ts \in Times
  PROVE  /\ DOMAIN Revoke(keys, k, ts) = DOMAIN keys
         /\ \A i \in DOMAIN keys : /\ Revoke(keys, k, ts)[i].id = keys[i].id
                                   /\ Revoke(keys, k, ts)[i].role = keys[i].role
<1> DEFINE found == {i \in DOMAIN keys : keys[i].id = k}
           c == CHOOSE i \in found : \A j \in found : i <= j
           changed == [keys EXCEPT ![c].revokedAt = ts]
<1>1. DOMAIN changed = DOMAIN keys
  OBVIOUS
<1>2. ASSUME NEW i \in DOMAIN keys
      PROVE  changed[i].id = keys[i].id /\ changed[i].role = keys[i].role
  <2>1. keys[i] \in KeyRecord
    OBVIOUS
  <2> HIDE DEF c
  <2>2. changed[i] = IF i = c THEN [keys[i] EXCEPT !.revokedAt = ts] ELSE keys[i]
    OBVIOUS
  <2>3. /\ [keys[i] EXCEPT !.revokedAt = ts].id = keys[i].id
        /\ [keys[i] EXCEPT !.revokedAt = ts].role = keys[i].role
    BY <2>1 DEF KeyRecord
  <2> QED BY <2>2, <2>3
<1>3. Revoke(keys, k, ts) = IF found = {} THEN keys ELSE changed
  BY DEF Revoke
<1> HIDE DEF changed, found
<1> QED BY <1>1, <1>2, <1>3

(* What an event does to the keys of a document.                           *)
LEMMA ApplyKeys ==
  ASSUME NEW doc \in Document, NEW e \in Event
  PROVE  ApplyEvent(doc, e).keys =
           CASE e.type = "AddDeviceKey" -> Append(doc.keys, ActiveKey(e.key, DeviceRole))
             [] e.type = "RevokeDevice" -> Revoke(doc.keys, e.key, e.ts)
             [] e.type = "RotateRootKey" -> Append(Revoke(doc.keys, e.signer, e.ts),
                                                   ActiveKey(e.key, RootRole))
             [] OTHER -> doc.keys
<1> DEFINE d == [doc EXCEPT !.updatedAt = e.ts, !.latest = e.id]
<1>1. e.type \in EventTypes
  BY DEF Event
<1>2. /\ "keys" \in DOMAIN d /\ "root" \in DOMAIN d /\ d.keys = doc.keys
      /\ \A v : [d EXCEPT !.profile = v].keys = d.keys
      /\ \A v : [d EXCEPT !.publicMemory = v].keys = d.keys
      /\ \A v : [d EXCEPT !.privateMemory = v].keys = d.keys
      /\ \A v : [d EXCEPT !.refs = v].keys = d.keys
      /\ \A ks : [d EXCEPT !.keys = ks].keys = ks
      /\ \A ks, k : [d EXCEPT !.keys = ks, !.root = k].keys = ks
  BY DEF Document
<1> HIDE DEF d
<1>3. CASE e.type = "AddDeviceKey"
  <2>1. ApplyEvent(doc, e) = [d EXCEPT !.keys = Append(d.keys, ActiveKey(e.key, DeviceRole))]
    BY <1>3 DEF ApplyEvent, d
  <2> QED BY <1>2, <1>3, <2>1
<1>4. CASE e.type = "RevokeDevice"
  <2>1. ApplyEvent(doc, e) = [d EXCEPT !.keys = Revoke(d.keys, e.key, e.ts)]
    BY <1>4 DEF ApplyEvent, d
  <2> QED BY <1>2, <1>4, <2>1
<1>5. CASE e.type = "RotateRootKey"
  <2>1. ApplyEvent(doc, e) =
          [d EXCEPT !.keys = Append(Revoke(d.keys, e.signer, e.ts), ActiveKey(e.key, RootRole)),
                    !.root = e.key]
    BY <1>5 DEF ApplyEvent, d
  <2> QED BY <1>2, <1>5, <2>1
<1>6. CASE e.type = "UpdateProfile"
  <2>1. ApplyEvent(doc, e) = [d EXCEPT !.profile = e.val]
    BY <1>6 DEF ApplyEvent, d
  <2> QED BY <1>2, <1>6, <2>1
<1>7. CASE e.type = "UpdatePublicMemory"
  <2>1. ApplyEvent(doc, e) = [d EXCEPT !.publicMemory = e.val]
    BY <1>7 DEF ApplyEvent, d
  <2> QED BY <1>2, <1>7, <2>1
<1>8. CASE e.type = "UpdatePrivateMemory"
  <2>1. ApplyEvent(doc, e) = [d EXCEPT !.privateMemory = e.val]
    BY <1>8 DEF ApplyEvent, d
  <2> QED BY <1>2, <1>8, <2>1
<1>9. CASE e.type = "AttachProof"
  <2> DEFINE rs == IF e.val \in {d.refs[i] : i \in DOMAIN d.refs} THEN d.refs
                   ELSE Append(d.refs, e.val)
  <2>1. ApplyEvent(doc, e) = [d EXCEPT !.refs = rs]
    BY <1>9 DEF ApplyEvent, d
  <2> HIDE DEF rs
  <2> QED BY <1>2, <1>9, <2>1
<1>10. CASE e.type = "CreateIdentity"
  <2>1. ApplyEvent(doc, e) = d
    BY <1>10 DEF ApplyEvent, d
  <2> QED BY <1>2, <1>10, <2>1
<1> QED BY <1>1, <1>3, <1>4, <1>5, <1>6, <1>7, <1>8, <1>9, <1>10 DEF EventTypes

Ids(keys) == {keys[i].id : i \in DOMAIN keys}

RevokedIds(keys) == {keys[i].id : i \in {j \in DOMAIN keys : keys[j].revokedAt # NeverRevoked}}

LEMMA RevokeRevokes ==
  ASSUME NEW keys \in Seq(KeyRecord), NEW k \in Ids(keys), NEW ts \in Times
  PROVE  /\ Ids(Revoke(keys, k, ts)) = Ids(keys)
         /\ RevokedIds(Revoke(keys, k, ts)) = RevokedIds(keys) \cup {k}
<1> DEFINE found == {i \in DOMAIN keys : keys[i].id = k}
           c == CHOOSE i \in found : \A j \in found : i <= j
           changed == [keys EXCEPT ![c].revokedAt = ts]
<1>1. found # {} /\ found \subseteq Nat
  BY DEF Ids
<1>2. c \in found
  <2>1. \E i \in found : \A j \in found : i <= j
    <3> HIDE DEF found
    <3> QED BY <1>1, LeastElement
  <2> HIDE DEF found
  <2> QED BY <2>1
<1>3. Revoke(keys, k, ts) = changed
  BY <1>1 DEF Revoke
<1>4. c \in DOMAIN keys /\ keys[c].id = k
  BY <1>2
<1> HIDE DEF c
<1>5. DOMAIN changed = DOMAIN keys
  OBVIOUS
<1>6. ts # NeverRevoked
  BY DEF Times, NeverRevoked
<1>7. ASSUME NEW i \in DOMAIN keys
      PROVE  /\ changed[i].id = keys[i].id
             /\ changed[i].revokedAt = IF i = c THEN ts ELSE keys[i].revokedAt
  <2>1. keys[i] \in KeyRecord
    OBVIOUS
  <2>2. changed[i] = IF i = c THEN [keys[i] EXCEPT !.revokedAt = ts] ELSE keys[i]
    OBVIOUS
  <2>3. /\ [keys[i] EXCEPT !.revokedAt = ts].id = keys[i].id
        /\ [keys[i] EXCEPT !.revokedAt = ts].revokedAt = ts
    BY <2>1 DEF KeyRecord
  <2> QED BY <2>2, <2>3
<1> HIDE DEF changed
<1>8. Ids(changed) = Ids(keys)
  BY <1>5, <1>7 DEF Ids
<1>9. {j \in DOMAIN changed : changed[j].revokedAt # NeverRevoked} =
        {j \in DOMAIN keys : keys[j].revokedAt # NeverRevoked} \cup {c}
  BY <1>4, <1>5, <1>6, <1>7
<1>10. RevokedIds(changed) = RevokedIds(keys) \cup {k}
  BY <1>4, <1>5, <1>7, <1>9 DEF RevokedIds
<1> QED BY <1>3, <1>8, <1>10

LEMMA AppendAppends ==
  ASSUME NEW keys \in Seq(KeyRecord), NEW new \in KeyRecord, new.revokedAt = NeverRevoked
  PROVE  /\ Ids(Append(keys, new)) = Ids(keys) \cup {new.id}
         /\ RevokedIds(Append(keys, new)) = RevokedIds(keys)
<1> DEFINE longer == Append(keys, new)
           n == Len(keys)
<1>1. /\ n \in Nat /\ DOMAIN keys = 1 .. n /\ DOMAIN longer = (1 .. n) \cup {n + 1}
      /\ longer[n + 1] = new /\ \A i \in 1 .. n : longer[i] = keys[i]
  OBVIOUS
<1> HIDE DEF longer, n
<1>2. Ids(longer) = Ids(keys) \cup {new.id}
  BY <1>1 DEF Ids
<1>3. {j \in DOMAIN longer : longer[j].revokedAt # NeverRevoked} =
        {j \in DOMAIN keys : keys[j].revokedAt # NeverRevoked}
  BY <1>1
<1>4. RevokedIds(longer) = RevokedIds(keys)
  BY <1>1, <1>3 DEF RevokedIds
<1> QED BY <1>2, <1>4 DEF longer

(* No two keys of a document have the same id, and its root is a root key. *)
Distinct(keys) == \A i, j \in DOMAIN keys : keys[i].id = keys[j].id => i = j

RootIsAKey(doc) == \E i \in DOMAIN doc.keys : doc.keys[i].id = doc.root
                                              /\ doc.keys[i].role = RootRole

LEMMA DistinctAppend ==
  ASSUME NEW keys \in Seq(KeyRecord), Distinct(keys),
         NEW new \in KeyRecord, new.id \notin Ids(keys)
  PROVE  Distinct(Append(keys, new))
<1> DEFINE longer == Append(keys, new)
           n == Len(keys)
<1>1. /\ n \in Nat /\ DOMAIN keys = 1 .. n /\ DOMAIN longer = (1 .. n) \cup {n + 1}
      /\ longer[n + 1] = new /\ \A i \in 1 .. n : longer[i] = keys[i]
  OBVIOUS
<1> HIDE DEF longer, n
<1>2. \A i \in 1 .. n : keys[i].id # new.id
  BY <1>1 DEF Ids
<1> QED BY <1>1, <1>2 DEF Distinct, longer

LEMMA DistinctRevoke ==
  ASSUME NEW keys \in Seq(KeyRecord), Distinct(keys), NEW k, NEW ts \in Times
  PROVE  Distinct(Revoke(keys, k, ts))
BY RevokeKeepsKeys DEF Distinct

(* So the root signs exactly while it is not revoked.                      *)
LEMMA RootResolves ==
  ASSUME NEW doc \in Document, Distinct(doc.keys), RootIsAKey(doc)
  PROVE  ResolveKey(doc, doc.root) <=> doc.root \notin RevokedIds(doc.keys)
<1>1. PICK i \in DOMAIN doc.keys : doc.keys[i].id = doc.root /\ doc.keys[i].role = RootRole
  BY DEF RootIsAKey
<1>2. \A j \in DOMAIN doc.keys : doc.keys[j].id = doc.root => j = i
  BY <1>1 DEF Distinct
<1>3. doc.root \notin RevokedIds(doc.keys) <=> doc.keys[i].revokedAt = NeverRevoked
  BY <1>1, <1>2 DEF RevokedIds
<1>4. ResolveKey(doc, doc.root) <=> doc.keys[i].revokedAt = NeverRevoked
  BY <1>1, <1>2 DEF ResolveKey, Resolvable
<1> QED BY <1>3, <1>4

-----------------------------------------------------------------------------
(* One event later, the document still describes the chain.                *)

LEMMA ApplyFields ==
  ASSUME NEW doc \in Document, NEW e \in Event
  PROVE  /\ ApplyEvent(doc, e).id = doc.id
         /\ ApplyEvent(doc, e).latest = e.id
         /\ ApplyEvent(doc, e).updatedAt = e.ts
         /\ ApplyEvent(doc, e).root = IF IsRotation(e) THEN e.key ELSE doc.root
         /\ ApplyEvent(doc, e).publicMemory =
              IF e.type = "UpdatePublicMemory" THEN e.val ELSE doc.publicMemory
         /\ ApplyEvent(doc, e).privateMemory =
              IF e.type = "UpdatePrivateMemory" THEN e.val ELSE doc.privateMemory
         /\ ApplyEvent(doc, e).refs =
              IF e.type = "AttachProof" /\ e.val \notin {doc.refs[i] : i \in DOMAIN doc.refs}
              THEN Append(doc.refs, e.val) ELSE doc.refs
<1> DEFINE d == [doc EXCEPT !.updatedAt = e.ts, !.latest = e.id]
           fields == {"id", "latest", "updatedAt", "root", "publicMemory", "privateMemory",
                      "refs", "keys", "profile"}
<1>1. /\ fields \subseteq DOMAIN d
      /\ d.id = doc.id /\ d.latest = e.id /\ d.updatedAt = e.ts /\ d.root = doc.root
      /\ d.publicMemory = doc.publicMemory /\ d.privateMemory = doc.privateMemory
      /\ d.refs = doc.refs
  BY DEF Document
<1> DEFINE result == ApplyEvent(doc, e)
<1>2. /\ e.type = "UpdateProfile" => result = [d EXCEPT !.profile = e.val]
      /\ e.type = "UpdatePublicMemory" => result = [d EXCEPT !.publicMemory = e.val]
      /\ e.type = "UpdatePrivateMemory" => result = [d EXCEPT !.privateMemory = e.val]
      /\ e.type = "CreateIdentity" => result = d
  BY DEF ApplyEvent
<1>3. /\ e.type \in {"AddDeviceKey", "RevokeDevice"} => \E ks : result = [d EXCEPT !.keys = ks]
      /\ e.type = "RotateRootKey" => \E ks : result = [d EXCEPT !.keys = ks, !.root = e.key]
  <2> HIDE DEF d
  <2>1. CASE e.type = "AddDeviceKey"
    <3>1. result = [d EXCEPT !.keys = Append(d.keys, ActiveKey(e.key, DeviceRole))]
      BY <2>1 DEF ApplyEvent, d
    <3> HIDE DEF result
    <3> QED BY <2>1, <3>1
  <2>2. CASE e.type = "RevokeDevice"
    <3>1. result = [d EXCEPT !.keys = Revoke(d.keys, e.key, e.ts)]
      BY <2>2 DEF ApplyEvent, d
    <3> HIDE DEF result
    <3> QED BY <2>2, <3>1
  <2>3. CASE e.type = "RotateRootKey"
    <3>1. result = [d EXCEPT !.keys = Append(Revoke(d.keys, e.signer, e.ts),
                                             ActiveKey(e.key, RootRole)),
                             !.root = e.key]
      BY <2>3 DEF ApplyEvent, d
    <3> HIDE DEF result
    <3> QED BY <2>3, <3>1
  <2> HIDE DEF result
  <2> QED BY <2>1, <2>2, <2>3
<1>4. e.type = "AttachProof" =>
         result = [d EXCEPT !.refs = IF e.val \in {d.refs[i] : i \in DOMAIN d.refs} THEN d.refs
                                     ELSE Append(d.refs, e.val)]
  BY DEF ApplyEvent
<1> HIDE DEF d, result
<1>5. e.type \in EventTypes
  BY DEF Event
<1>6. CASE e.type \in {"UpdateProfile", "UpdatePublicMemory", "UpdatePrivateMemory", "CreateIdentity"}
  BY <1>1, <1>2, <1>6 DEF result, IsRotation
<1>7. CASE e.type \in {"AddDeviceKey", "RevokeDevice"}
  BY <1>1, <1>3, <1>7 DEF result, IsRotation
<1>8. CASE e.type = "RotateRootKey"
  BY <1>1, <1>3, <1>8 DEF result, IsRotation
<1>9. CASE e.type = "AttachProof"
  <2> DEFINE rs == IF e.val \in {d.refs[i] : i \in DOMAIN d.refs} THEN d.refs
                   ELSE Append(d.refs, e.val)
  <2>1. result = [d EXCEPT !.refs = rs]
    BY <1>4, <1>9
  <2>2. rs = IF e.val \notin {doc.refs[i] : i \in DOMAIN doc.refs}
             THEN Append(doc.refs, e.val) ELSE doc.refs
    BY <1>1
  <2> HIDE DEF rs
  <2> QED BY <1>1, <1>9, <2>1, <2>2 DEF result, IsRotation
<1> QED BY <1>5, <1>6, <1>7, <1>8, <1>9 DEF EventTypes

(* The keys, the revocations and the root.                                 *)
KeysDescribe(doc, events) ==
    /\ Ids(doc.keys) = KeysWithin(events, Len(events))
    /\ RevokedIds(doc.keys) = RevokedWithin(events, Len(events))
    /\ doc.root = RootAfter(events, Len(events))
    /\ Distinct(doc.keys)
    /\ RootIsAKey(doc)

LEMMA KeysDescribeStep ==
  ASSUME NEW events \in Seq(Event), events # <<>>, NEW e \in Event, Payload(e),
         NEW doc \in Document, KeysDescribe(doc, events), Accepts(doc, e),
         Introduces(e) => e.key \notin Ids(doc.keys)
  PROVE  KeysDescribe(ApplyEvent(doc, e), Append(events, e))
<1> DEFINE new == ApplyEvent(doc, e)
           longer == Append(events, e)
           n == Len(events)
<1>1. doc.keys \in Seq(KeyRecord) /\ e.ts \in Times /\ e.type \in EventTypes
  BY DEF Document, Event
<1>2. Len(longer) = n + 1
  BY AppendedChain
<1>3. /\ RootAfter(longer, n + 1) = IF IsRotation(e) THEN e.key ELSE doc.root
      /\ new.root = IF IsRotation(e) THEN e.key ELSE doc.root
      /\ KeysWithin(longer, n + 1) =
           Ids(doc.keys) \cup (IF Introduces(e) THEN {e.key} ELSE {})
      /\ RevokedWithin(longer, n + 1) =
           RevokedIds(doc.keys) \cup
             (CASE e.type = "RevokeDevice" -> {e.key}
                [] e.type = "RotateRootKey" -> {doc.root}
                [] OTHER -> {})
  <2>1. /\ RootAfter(events, n) = doc.root
        /\ KeysWithin(events, n) = Ids(doc.keys)
        /\ RevokedWithin(events, n) = RevokedIds(doc.keys)
    BY DEF KeysDescribe
  <2> HIDE DEF new
  <2>2. new.root = IF IsRotation(e) THEN e.key ELSE doc.root
    BY ApplyFields DEF new
  <2> QED BY <2>1, <2>2, RootAfterAppend, KeysWithinAppend, RevokedWithinAppend
<1>4. /\ Distinct(doc.keys) /\ RootIsAKey(doc)
  BY DEF KeysDescribe
<1>5. e.signer = doc.root /\ doc.root \in Ids(doc.keys)
  BY <1>4 DEF Accepts, RootIsAKey, Ids
<1> HIDE DEF longer, n, new
<1>6. CASE e.type = "AddDeviceKey"
  <2> DEFINE key == ActiveKey(e.key, DeviceRole)
  <2>1. key \in KeyRecord /\ key.id = e.key /\ key.revokedAt = NeverRevoked
    BY <1>6, ActiveKeyType DEF Payload, ActiveKey
  <2>2. new.keys = Append(doc.keys, key)
    BY <1>6, ApplyKeys DEF new
  <2> HIDE DEF key
  <2>3. Introduces(e) /\ ~IsRotation(e)
    BY <1>6 DEF Introduces, IsRotation
  <2>4. Distinct(new.keys) /\ Ids(new.keys) = Ids(doc.keys) \cup {e.key}
        /\ RevokedIds(new.keys) = RevokedIds(doc.keys)
    BY <1>1, <1>4, <2>1, <2>2, <2>3, DistinctAppend, AppendAppends
  <2>5. RootIsAKey(new)
    <3>1. \A i \in DOMAIN doc.keys : i \in DOMAIN new.keys /\ new.keys[i] = doc.keys[i]
      BY <1>1, <2>2
    <3> QED BY <1>3, <1>4, <2>3, <3>1 DEF RootIsAKey
  <2> QED BY <1>2, <1>3, <1>6, <2>3, <2>4, <2>5 DEF KeysDescribe, new, longer
<1>7. CASE e.type = "RevokeDevice"
  <2>1. new.keys = Revoke(doc.keys, e.key, e.ts)
    BY <1>7, ApplyKeys DEF new
  <2>2. ~Introduces(e) /\ ~IsRotation(e)
    BY <1>7 DEF Introduces, IsRotation
  <2>3. e.key \in Ids(doc.keys)
    BY <1>7 DEF Accepts, Applicable, Ids
  <2>4. Distinct(new.keys) /\ Ids(new.keys) = Ids(doc.keys)
        /\ RevokedIds(new.keys) = RevokedIds(doc.keys) \cup {e.key}
    BY <1>1, <1>4, <2>1, <2>3, DistinctRevoke, RevokeRevokes
  <2>5. RootIsAKey(new)
    <3>1. \A i \in DOMAIN doc.keys :
             /\ i \in DOMAIN new.keys
             /\ new.keys[i].id = doc.keys[i].id /\ new.keys[i].role = doc.keys[i].role
      BY <1>1, <2>1, RevokeKeepsKeys
    <3> QED BY <1>3, <1>4, <2>2, <3>1 DEF RootIsAKey
  <2> QED BY <1>2, <1>3, <1>7, <2>2, <2>4, <2>5 DEF KeysDescribe, new, longer
<1>8. CASE e.type = "RotateRootKey"
  <2> DEFINE key == ActiveKey(e.key, RootRole)
             ks == Revoke(doc.keys, doc.root, e.ts)
  <2>1. key \in KeyRecord /\ key.id = e.key /\ key.revokedAt = NeverRevoked
        /\ key.role = RootRole
    BY <1>8, ActiveKeyType DEF Payload, ActiveKey
  <2>2. new.keys = Append(ks, key)
    BY <1>5, <1>8, ApplyKeys DEF new
  <2>3. /\ ks \in Seq(KeyRecord) /\ Distinct(ks) /\ Ids(ks) = Ids(doc.keys)
        /\ RevokedIds(ks) = RevokedIds(doc.keys) \cup {doc.root}
    BY <1>1, <1>4, <1>5, RevokeType, DistinctRevoke, RevokeRevokes
  <2> HIDE DEF key, ks
  <2>4. Introduces(e) /\ IsRotation(e)
    BY <1>8 DEF Introduces, IsRotation
  <2>5. Distinct(new.keys) /\ Ids(new.keys) = Ids(doc.keys) \cup {e.key}
        /\ RevokedIds(new.keys) = RevokedIds(doc.keys) \cup {doc.root}
    BY <2>1, <2>2, <2>3, <2>4, DistinctAppend, AppendAppends
  <2>6. RootIsAKey(new)
    <3>1. Len(ks) + 1 \in DOMAIN new.keys /\ new.keys[Len(ks) + 1] = key
      BY <2>2, <2>3
    <3> QED BY <1>3, <2>1, <2>4, <3>1 DEF RootIsAKey
  <2> QED BY <1>2, <1>3, <1>8, <2>4, <2>5, <2>6 DEF KeysDescribe, new, longer
<1>9. CASE e.type \notin {"AddDeviceKey", "RevokeDevice", "RotateRootKey"}
  <2>1. new.keys = doc.keys
    BY <1>9, ApplyKeys DEF new
  <2>2. ~Introduces(e) /\ ~IsRotation(e)
    BY <1>9 DEF Introduces, IsRotation
  <2> QED BY <1>2, <1>3, <1>4, <1>9, <2>1, <2>2 DEF KeysDescribe, RootIsAKey, new, longer
<1> QED BY <1>6, <1>7, <1>8, <1>9

(* The memory roots, the attestations and where the chain ends.            *)
RestDescribes(doc, events) ==
    /\ doc.id = events[1].key
    /\ doc.publicMemory = LastValue(events, "UpdatePublicMemory")
    /\ doc.privateMemory = LastValue(events, "UpdatePrivateMemory")
    /\ \A i, j \in DOMAIN doc.refs : doc.refs[i] = doc.refs[j] => i = j
    /\ {doc.refs[i] : i \in DOMAIN doc.refs} =
          {events[i].val : i \in {j \in DOMAIN events : events[j].type = "AttachProof"}}
    /\ doc.latest = events[Len(events)].id
    /\ doc.updatedAt = events[Len(events)].ts

LEMMA DescribesInParts ==
  ASSUME NEW doc, NEW events
  PROVE  Describes(doc, events) <=>
           /\ Ids(doc.keys) = KeysWithin(events, Len(events))
           /\ RevokedIds(doc.keys) = RevokedWithin(events, Len(events))
           /\ doc.root = RootAfter(events, Len(events))
           /\ RestDescribes(doc, events)
BY DEF Describes, RestDescribes, Ids, RevokedIds

LEMMA RestDescribesStep ==
  ASSUME NEW events \in Seq(Event), events # <<>>, NEW e \in Event,
         NEW doc \in Document, Applicable(doc, e), RestDescribes(doc, events)
  PROVE  RestDescribes(ApplyEvent(doc, e), Append(events, e))
<1> DEFINE new == ApplyEvent(doc, e)
           longer == Append(events, e)
           n == Len(events)
           values(chain) == {chain[i].val : i \in {j \in DOMAIN chain : chain[j].type = "AttachProof"}}
           set(refs) == {refs[i] : i \in DOMAIN refs}
<1>1. /\ n \in Nat /\ n >= 1 /\ Len(longer) = n + 1 /\ longer[n + 1] = e
      /\ longer[1] = events[1] /\ \A i \in 1 .. n : longer[i] = events[i]
      /\ DOMAIN events = 1 .. n /\ DOMAIN longer = 1 .. (n + 1)
  BY AppendedChain
<1>2. /\ new.id = doc.id /\ new.latest = e.id /\ new.updatedAt = e.ts
      /\ new.publicMemory = IF e.type = "UpdatePublicMemory" THEN e.val ELSE doc.publicMemory
      /\ new.privateMemory = IF e.type = "UpdatePrivateMemory" THEN e.val ELSE doc.privateMemory
      /\ new.refs = IF e.type = "AttachProof" /\ e.val \notin set(doc.refs)
                    THEN Append(doc.refs, e.val) ELSE doc.refs
  BY ApplyFields
<1>3. /\ LastValue(longer, "UpdatePublicMemory") =
           IF e.type = "UpdatePublicMemory" THEN e.val ELSE LastValue(events, "UpdatePublicMemory")
      /\ LastValue(longer, "UpdatePrivateMemory") =
           IF e.type = "UpdatePrivateMemory" THEN e.val
           ELSE LastValue(events, "UpdatePrivateMemory")
  BY LastValueAppend
<1> HIDE DEF new, longer, n
<1>4. values(longer) = IF e.type = "AttachProof" THEN values(events) \cup {e.val} ELSE values(events)
  <2>1. \A i : i \in 1 .. (n + 1) <=> i \in 1 .. n \/ i = n + 1
    BY <1>1
  <2>2. {j \in DOMAIN longer : longer[j].type = "AttachProof"} =
          IF e.type = "AttachProof"
          THEN {j \in DOMAIN events : events[j].type = "AttachProof"} \cup {n + 1}
          ELSE {j \in DOMAIN events : events[j].type = "AttachProof"}
    BY <1>1, <2>1
  <2> QED BY <1>1, <2>2
<1>5. /\ doc.refs \in Seq(Values)
      /\ \A i, j \in DOMAIN doc.refs : doc.refs[i] = doc.refs[j] => i = j
      /\ set(doc.refs) = values(events)
  BY DEF Document, RestDescribes
<1> HIDE DEF values
<1>6. /\ \A i, j \in DOMAIN new.refs : new.refs[i] = new.refs[j] => i = j
      /\ set(new.refs) = values(longer)
  <2>1. CASE e.type = "AttachProof" /\ e.val \notin set(doc.refs)
    <3> DEFINE m == Len(doc.refs)
    <3>1. new.refs = Append(doc.refs, e.val) /\ e.val \in Values
      BY <1>2, <2>1 DEF Applicable, Event
    <3>2. /\ m \in Nat /\ DOMAIN doc.refs = 1 .. m
          /\ DOMAIN new.refs = (1 .. m) \cup {m + 1} /\ new.refs[m + 1] = e.val
          /\ \A i \in 1 .. m : new.refs[i] = doc.refs[i]
      BY <1>5, <3>1
    <3> HIDE DEF m
    <3>3. set(new.refs) = set(doc.refs) \cup {e.val}
      BY <3>2
    <3>4. \A i \in 1 .. m : doc.refs[i] # e.val
      BY <2>1, <3>2
    <3> QED BY <1>4, <1>5, <2>1, <3>2, <3>3, <3>4
  <2>2. CASE ~(e.type = "AttachProof" /\ e.val \notin set(doc.refs))
    <3>1. new.refs = doc.refs
      BY <1>2, <2>2
    <3>2. values(longer) = values(events)
      BY <1>4, <1>5, <2>2
    <3> QED BY <1>5, <3>1, <3>2
  <2> QED BY <2>1, <2>2
<1>7. /\ doc.id = events[1].key
      /\ doc.publicMemory = LastValue(events, "UpdatePublicMemory")
      /\ doc.privateMemory = LastValue(events, "UpdatePrivateMemory")
  BY DEF RestDescribes
<1>8. /\ new.id = longer[1].key
      /\ new.publicMemory = LastValue(longer, "UpdatePublicMemory")
      /\ new.privateMemory = LastValue(longer, "UpdatePrivateMemory")
      /\ new.latest = longer[Len(longer)].id
      /\ new.updatedAt = longer[Len(longer)].ts
  BY <1>1, <1>2, <1>3, <1>7
<1> QED BY <1>6, <1>8 DEF RestDescribes, new, longer, values

-----------------------------------------------------------------------------
(* The chains of the program.                                              *)

Meant(events) ==
    /\ ReplayState(events) # Rejected <=> SoundChain(events)
    /\ ReplayState(events) # Rejected =>
          /\ KeysDescribe(ReplayState(events), events)
          /\ RestDescribes(ReplayState(events), events)

LEMMA MeantStep ==
  ASSUME NEW events \in Seq(Event), events # <<>>, NEW e \in Event, Payload(e),
         ReplayState(events) \in Document \cup {Rejected}, Meant(events),
         Introduces(e) => e.key \notin KeysWithin(events, Len(events))
  PROVE  Meant(Append(events, e))
<1> DEFINE doc == ReplayState(events)
           longer == Append(events, e)
           n == Len(events)
<1>1. ReplayState(longer) = ReplayStep(doc, e)
  BY ReplayAppend
<1>2. SoundChain(longer) <=>
           /\ SoundChain(events)
           /\ e.prev = events[n].id
           /\ e.ts >= events[n].ts
           /\ e.signer = RootAfter(events, n)
           /\ e.signedBy = e.signer
           /\ e.signer \notin RevokedWithin(events, n)
           /\ e.type = "RevokeDevice" => e.key \in KeysWithin(events, n)
           /\ e.type = "AttachProof" => e.val # NoValue
  BY SoundAppend
<1>3. /\ doc # Rejected <=> SoundChain(events)
      /\ doc # Rejected => KeysDescribe(doc, events) /\ RestDescribes(doc, events)
  BY DEF Meant
<1> HIDE DEF doc, longer
<1>4. CASE doc = Rejected
  <2>1. ReplayState(longer) = Rejected
    BY <1>1, <1>4 DEF ReplayStep
  <2> QED BY <1>2, <1>3, <1>4, <2>1 DEF Meant, longer
<1>5. CASE doc # Rejected
  <2>1. doc \in Document
    BY <1>5 DEF doc
  <2>2. /\ doc.latest = events[n].id /\ doc.updatedAt = events[n].ts
        /\ doc.root = RootAfter(events, n)
        /\ Ids(doc.keys) = KeysWithin(events, n)
        /\ RevokedIds(doc.keys) = RevokedWithin(events, n)
        /\ Distinct(doc.keys) /\ RootIsAKey(doc)
    BY <1>3, <1>5 DEF KeysDescribe, RestDescribes
  <2>3. ResolveKey(doc, doc.root) <=> doc.root \notin RevokedWithin(events, n)
    BY <2>1, <2>2, RootResolves
  <2>4. Applicable(doc, e) <=>
          /\ e.type = "RevokeDevice" => e.key \in KeysWithin(events, n)
          /\ e.type = "AttachProof" => e.val # NoValue
    <3>1. (\E i \in DOMAIN doc.keys : doc.keys[i].id = e.key) <=> e.key \in Ids(doc.keys)
      BY DEF Ids
    <3> QED BY <2>2, <3>1 DEF Applicable
  <2>5. Accepts(doc, e) <=> SoundChain(longer)
    <3> HIDE DEF n
    <3> QED BY <1>2, <1>3, <1>5, <2>2, <2>3, <2>4 DEF Accepts, VerifyEvent
  <2>6. CASE Accepts(doc, e)
    <3>1. ReplayState(longer) = ApplyEvent(doc, e)
      BY <1>1, <1>5, <2>6 DEF ReplayStep
    <3>2. ReplayState(longer) # Rejected
      BY <2>1, <2>6, <3>1, ApplyType, Absent DEF Accepts
    <3>3. KeysDescribe(ApplyEvent(doc, e), longer)
      <4> HIDE DEF n
      <4> QED BY <1>3, <1>5, <2>1, <2>2, <2>6, KeysDescribeStep DEF longer, n
    <3>4. RestDescribes(ApplyEvent(doc, e), longer)
      BY <1>3, <1>5, <2>1, <2>6, RestDescribesStep DEF longer, Accepts
    <3> QED BY <2>5, <2>6, <3>1, <3>2, <3>3, <3>4 DEF Meant, longer
  <2>7. CASE ~Accepts(doc, e)
    <3>1. ReplayState(longer) = Rejected
      BY <1>1, <1>5, <2>7 DEF ReplayStep
    <3> QED BY <2>5, <2>7, <3>1 DEF Meant, longer
  <2> QED BY <2>6, <2>7
<1> QED BY <1>4, <1>5

LEMMA MeantCreate ==
  ASSUME NEW e \in Event, e.type = "CreateIdentity", e.key = FirstRoot, e.val \in Values,
         e.signer = e.key, e.signedBy = e.key
  PROVE  Meant(<<e>>) /\ KeysWithin(<<e>>, 1) = {FirstRoot, FirstDevice, FirstEncryption}
<1> DEFINE chain == <<e>>
           doc == InitDocumentFromCreate(e)
           ks == <<ActiveKey(e.key, RootRole), ActiveKey(FirstDevice, DeviceRole),
                   ActiveKey(FirstEncryption, EncryptionRole)>>
<1>1. Len(chain) = 1 /\ chain[1] = e /\ DOMAIN chain = {1} /\ chain # <<>> /\ 2 .. 1 = {}
  OBVIOUS
<1>2. /\ doc.keys = ks /\ doc.id = e.key /\ doc.root = e.key /\ doc.refs = <<>>
      /\ doc.publicMemory = NoValue /\ doc.privateMemory = NoValue
      /\ doc.latest = e.id /\ doc.updatedAt = e.ts
  BY DEF InitDocumentFromCreate
<1>3. /\ DOMAIN ks = {1, 2, 3}
      /\ ks[1].id = 1 /\ ks[2].id = 2 /\ ks[3].id = 3
      /\ ks[1].role = RootRole
      /\ \A i \in {1, 2, 3} : ks[i].revokedAt = NeverRevoked
  BY DEF ActiveKey, FirstRoot, FirstDevice, FirstEncryption
<1> HIDE DEF chain, doc, ks
<1>4. /\ \A type : Positions(chain, 1, type) = {}
      /\ RootAfter(chain, 1) = e.key
      /\ KeysWithin(chain, 1) = {FirstRoot, FirstDevice, FirstEncryption}
      /\ RevokedWithin(chain, 1) = {}
      /\ \A type : LastValue(chain, type) = NoValue
  <2>1. \A type : Positions(chain, 1, type) = {}
    BY <1>1 DEF Positions
  <2>2. \A type : LastValue(chain, type) = NoValue
    BY <1>1 DEF LastValue
  <2> QED BY <1>1, <2>1, <2>2, RootAfterIs, KeysWithinIs, RevokedWithinIs
<1>5. ReplayState(chain) = doc
  <2>1. Creates(chain)
    BY <1>1 DEF Creates, VerifyEvent
  <2> QED BY <2>1, ReplayCreate DEF chain, doc
<1>6. doc # Rejected
  <2>1. doc \in Document
    BY CreateType, BoundsAssumption DEF doc, KeyIds, FirstRoot
  <2> QED BY <2>1, Absent
<1>7. SoundChain(chain)
  BY <1>1 DEF SoundChain
<1>8. KeysDescribe(doc, chain)
  <2>1. Ids(ks) = {1, 2, 3}
    BY <1>3 DEF Ids
  <2>2. RevokedIds(ks) = {}
    BY <1>3 DEF RevokedIds
  <2>3. Distinct(ks)
    BY <1>3 DEF Distinct
  <2>4. RootIsAKey(doc)
    BY <1>2, <1>3 DEF RootIsAKey, FirstRoot
  <2> QED BY <1>1, <1>2, <1>4, <2>1, <2>2, <2>3, <2>4
          DEF KeysDescribe, FirstRoot, FirstDevice, FirstEncryption
<1>9. RestDescribes(doc, chain)
  <2>1. DOMAIN doc.refs = {}
    BY <1>2
  <2>2. {j \in DOMAIN chain : chain[j].type = "AttachProof"} = {}
    BY <1>1
  <2> QED BY <1>1, <1>2, <1>4, <2>1, <2>2 DEF RestDescribes
<1> QED BY <1>4, <1>5, <1>6, <1>7, <1>8, <1>9 DEF Meant, chain

(* The invariant: chains mean what they replay to, and the private halves  *)
(* of their keys are in the key ring, so that the next key is a new one.   *)
MeantIdentity(id) ==
    /\ Meant(id.events)
    /\ KeysWithin(id.events, Len(id.events)) \subseteq id.local

RInv ==
    /\ IInv
    /\ mem # NoIdentity => MeantIdentity(mem)
    /\ file # NoFile => MeantIdentity(file)

LEMMA FreshIsNew ==
  ASSUME NEW id \in Identity, Sane(id)
  PROVE  FreshKey(id) \notin id.local
<1>1. PICK n \in 3 .. (Len(id.events) + 2) : id.local = 1 .. n
  BY DEF Sane
<1>2. id.events \in Seq(Event)
  BY DEF Identity
<1>3. n \in Nat /\ n >= 1
  BY <1>2
<1>4. FreshKey(id) = n + 1
  BY <1>1, <1>3, FreshKeyIsNext
<1> QED BY <1>1, <1>3, <1>4

LEMMA OperationMeans ==
  ASSUME IInv, Operation, MeantIdentity(mem)
  PROVE  MeantIdentity(mem')
<1>1. OperationDone
  BY OperationIsDone
<1>2. PICK e \in Event : /\ Payload(e)
                         /\ mem'.events = Append(mem.events, e)
                         /\ Introduces(e) => e.key = FreshKey(mem) /\ e.key \in mem'.local
  BY <1>1 DEF OperationDone
<1>3. /\ mem # NoIdentity /\ Sane(mem) /\ mem \in Identity
      /\ mem.events \in Seq(Event) /\ mem.events # <<>>
      /\ ReplayState(mem.events) \in Document \cup {Rejected}
  BY <1>1 DEF OperationDone, IInv, TypeOK, Sane, Identity
<1>4. FreshKey(mem) \notin mem.local
  BY <1>3, FreshIsNew
<1>5. Introduces(e) => e.key \notin KeysWithin(mem.events, Len(mem.events))
  BY <1>2, <1>4 DEF MeantIdentity
<1>6. Meant(mem'.events)
  BY <1>2, <1>3, <1>5, MeantStep DEF MeantIdentity
<1>7. KeysWithin(mem'.events, Len(mem'.events)) \subseteq mem'.local
  <2>1. Len(mem'.events) = Len(mem.events) + 1
    BY <1>2, <1>3, AppendedChain
  <2>2. KeysWithin(mem'.events, Len(mem'.events)) =
          KeysWithin(mem.events, Len(mem.events)) \cup (IF Introduces(e) THEN {e.key} ELSE {})
    BY <1>2, <1>3, <2>1, KeysWithinAppend
  <2>3. mem.local \subseteq mem'.local
    BY <1>1 DEF OperationDone
  <2> QED BY <1>2, <2>2, <2>3 DEF MeantIdentity
<1> QED BY <1>6, <1>7 DEF MeantIdentity

LEMMA NewMeans ==
  ASSUME IInv, New
  PROVE  MeantIdentity(mem')
<1>1. PICK name \in Values, skew \in CreateSkew :
         clock + skew <= MaxClock /\ mem' = Created(name, clock, clock + skew)
  BY DEF New
<1> DEFINE e == [id |-> 1, type |-> "CreateIdentity", prev |-> 0, signer |-> FirstRoot,
                 signedBy |-> FirstRoot, ts |-> clock + skew, key |-> FirstRoot, val |-> name]
<1>2. clock + skew \in Times
  <2>1. clock \in Times
    BY DEF IInv, TypeOK
  <2> QED BY <1>1, <2>1, BoundsAssumption DEF Times
<1>3. FirstRoot \in KeyIds
  BY BoundsAssumption DEF KeyIds, FirstRoot
<1>4. e \in Event
  BY <1>2, <1>3 DEF Event, EventTypes
<1>5. mem'.events = <<e>> /\ mem'.local = {FirstRoot, FirstDevice, FirstEncryption}
  BY <1>1 DEF Created
<1>6. /\ e.type = "CreateIdentity" /\ e.key = FirstRoot /\ e.val \in Values
      /\ e.signer = e.key /\ e.signedBy = e.key
  OBVIOUS
<1> HIDE DEF e
<1>7. Len(<<e>>) = 1
  OBVIOUS
<1> QED BY <1>4, <1>5, <1>6, <1>7, MeantCreate DEF MeantIdentity

LEMMA MeaningInitHolds == Init => RInv
BY InitHolds DEF Init, RInv

LEMMA MeaningStepHolds == RInv /\ [Next]_vars => RInv'
<1> SUFFICES ASSUME RInv, [Next]_vars
             PROVE  RInv'
  OBVIOUS
<1>1. IInv'
  BY StepHolds DEF RInv
<1>2. CASE Operation
  <2>1. OperationDone
    BY <1>2, OperationIsDone DEF RInv
  <2>2. mem # NoIdentity /\ file' = file
    BY <2>1 DEF OperationDone
  <2>3. MeantIdentity(mem')
    BY <1>2, <2>2, OperationMeans DEF RInv
  <2> QED BY <1>1, <2>2, <2>3 DEF RInv, MeantIdentity
<1>3. CASE New
  <2>1. MeantIdentity(mem') /\ file' = file
    BY <1>3, NewMeans DEF RInv, New
  <2> QED BY <1>1, <2>1 DEF RInv, MeantIdentity
<1>4. CASE Load \/ Save \/ Discard \/ Tick \/ StepBack
  BY <1>1, <1>4 DEF Load, Save, Discard, Tick, StepBack, RInv, MeantIdentity
<1>5. CASE UNCHANGED vars
  BY <1>1, <1>5 DEF vars, RInv, MeantIdentity
<1> QED BY <1>2, <1>3, <1>4, <1>5 DEF Next

LEMMA MeaningInvariance == Spec => []RInv
<1> QED BY MeaningInitHolds, MeaningStepHolds, PTL DEF Spec

(* ReplayState accepts exactly the sound chains of an object, however long,*)
(* and builds the document they describe (events.go 298-451).              *)
THEOREM ReplayComputesTheMeaning == Spec => []ReplayMeansTheChain
<1>1. RInv => ReplayMeansTheChain
  <2> SUFFICES ASSUME RInv, mem # NoIdentity
               PROVE  /\ ReplayState(mem.events) # Rejected <=> SoundChain(mem.events)
                      /\ ReplayState(mem.events) # Rejected =>
                            Describes(ReplayState(mem.events), mem.events)
    BY DEF ReplayMeansTheChain
  <2>1. Meant(mem.events)
    BY DEF RInv, MeantIdentity
  <2> QED BY <2>1, DescribesInParts DEF Meant, KeysDescribe
<1> QED BY <1>1, MeaningInvariance, PTL


-----------------------------------------------------------------------------
(* One document may come after another.                                    *)

Later(old, new) ==
    /\ new.id = old.id
    /\ DOMAIN old.keys \subseteq DOMAIN new.keys
    /\ \A i \in DOMAIN old.keys :
          /\ new.keys[i].id = old.keys[i].id
          /\ old.keys[i].revokedAt # NeverRevoked => new.keys[i].revokedAt # NeverRevoked
    /\ new.root = old.root \/ new.root \notin Ids(old.keys)

LEMMA LaterTransitive ==
  ASSUME NEW a, NEW b, NEW c, Later(a, b), Later(b, c)
  PROVE  Later(a, c)
<1>1. /\ c.id = a.id
      /\ DOMAIN a.keys \subseteq DOMAIN c.keys
      /\ \A i \in DOMAIN a.keys :
            /\ c.keys[i].id = a.keys[i].id
            /\ a.keys[i].revokedAt # NeverRevoked => c.keys[i].revokedAt # NeverRevoked
  BY DEF Later
<1>2. Ids(a.keys) \subseteq Ids(b.keys)
  BY DEF Later, Ids
<1>3. c.root = a.root \/ c.root \notin Ids(a.keys)
  BY <1>2 DEF Later
<1> QED BY <1>1, <1>3 DEF Later

LEMMA LaterReflexive == \A doc : Later(doc, doc)
BY DEF Later

LEMMA RevokeKeepsRevoked ==
  ASSUME NEW keys \in Seq(KeyRecord), NEW k, NEW ts \in Times, NEW i \in DOMAIN keys,
         keys[i].revokedAt # NeverRevoked
  PROVE  Revoke(keys, k, ts)[i].revokedAt # NeverRevoked
<1> DEFINE found == {j \in DOMAIN keys : keys[j].id = k}
           c == CHOOSE j \in found : \A l \in found : j <= l
           changed == [keys EXCEPT ![c].revokedAt = ts]
<1>1. ts # NeverRevoked
  BY DEF Times, NeverRevoked
<1>2. keys[i] \in KeyRecord
  OBVIOUS
<1>3. changed[i].revokedAt # NeverRevoked
  <2> HIDE DEF c
  <2>1. changed[i] = IF i = c THEN [keys[i] EXCEPT !.revokedAt = ts] ELSE keys[i]
    OBVIOUS
  <2>2. [keys[i] EXCEPT !.revokedAt = ts].revokedAt = ts
    BY <1>2 DEF KeyRecord
  <2> QED BY <1>1, <2>1, <2>2
<1>4. Revoke(keys, k, ts) = IF found = {} THEN keys ELSE changed
  BY DEF Revoke
<1> HIDE DEF changed, found
<1> QED BY <1>3, <1>4

LEMMA ApplyIsLater ==
  ASSUME NEW doc \in Document, NEW e \in Event,
         Introduces(e) => e.key \notin Ids(doc.keys)
  PROVE  Later(doc, ApplyEvent(doc, e))
<1> DEFINE new == ApplyEvent(doc, e)
<1>1. doc.keys \in Seq(KeyRecord) /\ e.ts \in Times
  BY DEF Document, Event
<1>2. new.id = doc.id /\ new.root = IF IsRotation(e) THEN e.key ELSE doc.root
  BY ApplyFields
<1>3. new.keys = CASE e.type = "AddDeviceKey" -> Append(doc.keys, ActiveKey(e.key, DeviceRole))
                   [] e.type = "RevokeDevice" -> Revoke(doc.keys, e.key, e.ts)
                   [] e.type = "RotateRootKey" -> Append(Revoke(doc.keys, e.signer, e.ts),
                                                         ActiveKey(e.key, RootRole))
                   [] OTHER -> doc.keys
  BY ApplyKeys
<1> HIDE DEF new
<1>4. ASSUME NEW k
      PROVE  /\ Revoke(doc.keys, k, e.ts) \in Seq(KeyRecord)
             /\ DOMAIN Revoke(doc.keys, k, e.ts) = DOMAIN doc.keys
             /\ \A i \in DOMAIN doc.keys :
                  /\ Revoke(doc.keys, k, e.ts)[i].id = doc.keys[i].id
                  /\ doc.keys[i].revokedAt # NeverRevoked =>
                        Revoke(doc.keys, k, e.ts)[i].revokedAt # NeverRevoked
  BY <1>1, RevokeType, RevokeKeepsKeys, RevokeKeepsRevoked
<1>5. ASSUME NEW ks \in Seq(KeyRecord), NEW x
      PROVE  /\ DOMAIN ks \subseteq DOMAIN Append(ks, x)
             /\ \A i \in DOMAIN ks : Append(ks, x)[i] = ks[i]
  OBVIOUS
<1>6. /\ DOMAIN doc.keys \subseteq DOMAIN new.keys
      /\ \A i \in DOMAIN doc.keys :
            /\ new.keys[i].id = doc.keys[i].id
            /\ doc.keys[i].revokedAt # NeverRevoked => new.keys[i].revokedAt # NeverRevoked
  <2>1. CASE e.type = "AddDeviceKey"
    BY <1>1, <1>3, <1>5, <2>1
  <2>2. CASE e.type = "RevokeDevice"
    BY <1>3, <1>4, <2>2
  <2>3. CASE e.type = "RotateRootKey"
    <3> DEFINE ks == Revoke(doc.keys, e.signer, e.ts)
    <3>1. /\ ks \in Seq(KeyRecord) /\ DOMAIN ks = DOMAIN doc.keys
          /\ \A i \in DOMAIN doc.keys :
               /\ ks[i].id = doc.keys[i].id
               /\ doc.keys[i].revokedAt # NeverRevoked => ks[i].revokedAt # NeverRevoked
      BY <1>4
    <3>2. new.keys = Append(ks, ActiveKey(e.key, RootRole))
      BY <1>3, <2>3
    <3> HIDE DEF ks
    <3> QED BY <1>5, <3>1, <3>2
  <2>4. CASE e.type \notin {"AddDeviceKey", "RevokeDevice", "RotateRootKey"}
    BY <1>3, <2>4
  <2> QED BY <2>1, <2>2, <2>3, <2>4
<1>7. new.root = doc.root \/ new.root \notin Ids(doc.keys)
  BY <1>2 DEF IsRotation, Introduces
<1> QED BY <1>2, <1>6, <1>7 DEF Later, new

-----------------------------------------------------------------------------
(* Every document along a chain is later than the one before.              *)

Grows(events) ==
    /\ Creates(events)
    /\ \A p \in 2 .. Len(events) :
          DocumentsAlong(events)[p] # Rejected =>
             /\ DocumentsAlong(events)[p - 1] # Rejected
             /\ Later(DocumentsAlong(events)[p - 1], DocumentsAlong(events)[p])

LEMMA GrowsStep ==
  ASSUME NEW events \in Seq(Event), events # <<>>, NEW e \in Event,
         ReplayState(events) \in Document \cup {Rejected}, Meant(events),
         Introduces(e) => e.key \notin KeysWithin(events, Len(events)),
         Grows(events)
  PROVE  Grows(Append(events, e))
<1> DEFINE longer == Append(events, e)
           n == Len(events)
<1>1. /\ n \in Nat /\ n >= 1 /\ Len(longer) = n + 1
      /\ longer[1] = events[1] /\ longer # <<>>
  OBVIOUS
<1>2. Creates(longer)
  <2> HIDE DEF longer
  <2> QED BY <1>1 DEF Creates, Grows
<1>3. \A p \in 1 .. n : DocumentsAlong(longer)[p] = DocumentsAlong(events)[p]
  BY DocumentsAlongPrefix
<1>4. ReplayState(longer) = ReplayStep(ReplayState(events), e)
  BY ReplayAppend
<1>5. /\ ReplayState(longer) = DocumentsAlong(longer)[n + 1]
      /\ ReplayState(events) = DocumentsAlong(events)[n]
  <2> HIDE DEF longer
  <2> QED BY <1>1, <1>2 DEF ReplayState, Grows
<1> HIDE DEF longer, n
<1>6. ASSUME NEW p \in 2 .. n, DocumentsAlong(longer)[p] # Rejected
      PROVE  /\ DocumentsAlong(longer)[p - 1] # Rejected
             /\ Later(DocumentsAlong(longer)[p - 1], DocumentsAlong(longer)[p])
  <2>1. p \in 1 .. n /\ p - 1 \in 1 .. n
    BY <1>1
  <2> QED BY <1>3, <1>6, <2>1 DEF Grows, n
<1>7. ASSUME DocumentsAlong(longer)[n + 1] # Rejected
      PROVE  /\ DocumentsAlong(longer)[n] # Rejected
             /\ Later(DocumentsAlong(longer)[n], DocumentsAlong(longer)[n + 1])
  <2> DEFINE doc == ReplayState(events)
  <2>1. doc # Rejected /\ ReplayState(longer) = ApplyEvent(doc, e)
    BY <1>4, <1>5, <1>7 DEF ReplayStep
  <2>2. doc \in Document
    BY <2>1
  <2>3. Ids(doc.keys) = KeysWithin(events, Len(events))
    BY <2>1 DEF Meant, KeysDescribe
  <2> HIDE DEF doc
  <2>4. Later(doc, ApplyEvent(doc, e))
    BY <2>2, <2>3, ApplyIsLater
  <2>5. n \in 1 .. n
    BY <1>1
  <2> QED BY <1>3, <1>5, <2>1, <2>4, <2>5 DEF doc
<1>8. \A p \in 2 .. (n + 1) : p \in 2 .. n \/ (p = n + 1 /\ p - 1 = n)
  BY <1>1
<1>9. ASSUME NEW p \in 2 .. (n + 1), DocumentsAlong(longer)[p] # Rejected
      PROVE  /\ DocumentsAlong(longer)[p - 1] # Rejected
             /\ Later(DocumentsAlong(longer)[p - 1], DocumentsAlong(longer)[p])
  <2>1. CASE p \in 2 .. n
    BY <1>6, <1>9, <2>1
  <2>2. CASE p = n + 1 /\ p - 1 = n
    BY <1>7, <1>9, <2>2
  <2> QED BY <1>8, <2>1, <2>2
<1> QED BY <1>1, <1>2, <1>9 DEF Grows, longer

(* Chains that agree have the same documents along them.                   *)
LEMMA DocumentsAgree ==
  ASSUME NEW old \in Seq(Event), NEW new \in Seq(Event), Len(old) <= Len(new),
         \A i \in 1 .. Len(old) : new[i] = old[i]
  PROVE  \A n \in 1 .. Len(old) : DocumentsAlong(new)[n] = DocumentsAlong(old)[n]
<1> DEFINE T == {k \in Nat : k + 1 \in 1 .. Len(old) =>
                    DocumentsAlong(new)[k + 1] = DocumentsAlong(old)[k + 1]}
<1>1. Len(old) \in Nat /\ Len(new) \in Nat
  OBVIOUS
<1>2. ASSUME NEW n \in 1 .. Len(old)
      PROVE  /\ DocumentsAlong(old)[n] = DocumentAfter(DocumentsAlong(old), old, n)
             /\ DocumentsAlong(new)[n] = DocumentAfter(DocumentsAlong(new), new, n)
             /\ new[n] = old[n]
  <2>1. n \in 1 .. Len(new)
    BY <1>1
  <2> QED BY <1>1, <2>1, DocumentsAlongEquation
<1>3. 0 \in T
  <2> SUFFICES ASSUME 1 \in 1 .. Len(old)
               PROVE  DocumentsAlong(new)[1] = DocumentsAlong(old)[1]
    OBVIOUS
  <2> QED BY <1>2 DEF DocumentAfter
<1>4. ASSUME NEW k \in T
      PROVE  k + 1 \in T
  <2> SUFFICES ASSUME k + 2 \in 1 .. Len(old)
               PROVE  DocumentsAlong(new)[k + 2] = DocumentsAlong(old)[k + 2]
    OBVIOUS
  <2>1. k \in Nat /\ k + 2 # 1 /\ (k + 2) - 1 = k + 1 /\ k + 1 \in 1 .. Len(old)
    BY <1>1
  <2>2. DocumentsAlong(new)[k + 1] = DocumentsAlong(old)[k + 1]
    BY <2>1
  <2> QED BY <1>2, <2>1, <2>2 DEF DocumentAfter
<1>5. T = Nat
  <2>1. T \subseteq Nat
    OBVIOUS
  <2> HIDE DEF T
  <2> QED BY <1>3, <1>4, <2>1, SetInduction
<1> SUFFICES ASSUME NEW n \in 1 .. Len(old)
             PROVE  DocumentsAlong(new)[n] = DocumentsAlong(old)[n]
  OBVIOUS
<1>6. n - 1 \in Nat /\ (n - 1) + 1 = n
  BY <1>1
<1>7. n - 1 \in T
  <2> HIDE DEF T
  <2> QED BY <1>5, <1>6
<1> QED BY <1>6, <1>7

(* So the document of a chain is later than that of any chain it extends.  *)
LEMMA ExtensionIsLater ==
  ASSUME NEW old \in Seq(Event), NEW new \in Seq(Event), Extends(old, new),
         Grows(old), Grows(new), ReplayState(new) # Rejected
  PROVE  Later(ReplayState(old), ReplayState(new))
<1> DEFINE m == Len(old)
           n == Len(new)
           T == {k \in Nat : m + k <= n /\ DocumentsAlong(new)[m + k] # Rejected =>
                    Later(DocumentsAlong(new)[m], DocumentsAlong(new)[m + k])}
<1>1. m \in Nat /\ n \in Nat /\ m >= 1 /\ m <= n
  <2>1. old # <<>>
    BY DEF Grows, Creates
  <2> QED BY <2>1 DEF Extends
<1>2. \A i \in 1 .. m : new[i] = old[i]
  <2> SUFFICES ASSUME NEW i \in 1 .. m
               PROVE  new[i] = old[i]
    OBVIOUS
  <2>1. SubSeq(new, 1, m)[i] = new[i]
    BY <1>1
  <2> QED BY <2>1 DEF Extends
<1>3. DocumentsAlong(new)[m] = DocumentsAlong(old)[m]
  <2>1. m \in 1 .. m
    BY <1>1
  <2> QED BY <1>1, <1>2, <2>1, DocumentsAgree
<1>4. /\ ReplayState(old) = DocumentsAlong(old)[m]
      /\ ReplayState(new) = DocumentsAlong(new)[n]
  BY DEF ReplayState, Grows
<1> HIDE DEF m, n
<1>5. 0 \in T
  <2>1. m + 0 = m
    BY <1>1
  <2> QED BY <2>1, LaterReflexive
<1>6. ASSUME NEW k \in T
      PROVE  k + 1 \in T
  <2> SUFFICES ASSUME m + (k + 1) <= n, DocumentsAlong(new)[m + (k + 1)] # Rejected
               PROVE  Later(DocumentsAlong(new)[m], DocumentsAlong(new)[m + (k + 1)])
    OBVIOUS
  <2>1. /\ k \in Nat /\ m + (k + 1) \in 2 .. n /\ (m + (k + 1)) - 1 = m + k /\ m + k <= n
    BY <1>1
  <2>2. /\ DocumentsAlong(new)[m + k] # Rejected
        /\ Later(DocumentsAlong(new)[m + k], DocumentsAlong(new)[m + (k + 1)])
    BY <2>1 DEF Grows, n
  <2>3. Later(DocumentsAlong(new)[m], DocumentsAlong(new)[m + k])
    BY <2>1, <2>2
  <2> QED BY <2>2, <2>3, LaterTransitive
<1>7. T = Nat
  <2>1. T \subseteq Nat
    OBVIOUS
  <2> HIDE DEF T
  <2> QED BY <1>5, <1>6, <2>1, SetInduction
<1>8. n - m \in Nat /\ m + (n - m) = n /\ m + (n - m) <= n
  BY <1>1
<1>9. n - m \in T
  <2> HIDE DEF T
  <2> QED BY <1>7, <1>8
<1>10. Later(DocumentsAlong(new)[m], DocumentsAlong(new)[m + (n - m)])
  BY <1>4, <1>8, <1>9
<1> QED BY <1>3, <1>4, <1>8, <1>10

-----------------------------------------------------------------------------
(* The chains of the program grow.                                         *)

HInv ==
    /\ RInv
    /\ mem # NoIdentity => Grows(mem.events)
    /\ file # NoFile => Grows(file.events)

LEMMA OperationGrows ==
  ASSUME RInv, Operation, Grows(mem.events)
  PROVE  Grows(mem'.events)
<1>1. OperationDone /\ IInv /\ MeantIdentity(mem)
  BY OperationIsDone DEF RInv, OperationDone
<1>2. PICK e \in Event : /\ Payload(e)
                         /\ mem'.events = Append(mem.events, e)
                         /\ Introduces(e) => e.key = FreshKey(mem) /\ e.key \in mem'.local
  BY <1>1 DEF OperationDone
<1>3. /\ mem # NoIdentity /\ Sane(mem) /\ mem \in Identity
      /\ mem.events \in Seq(Event) /\ mem.events # <<>>
      /\ ReplayState(mem.events) \in Document \cup {Rejected}
  BY <1>1 DEF OperationDone, IInv, TypeOK, Sane, Identity
<1>4. FreshKey(mem) \notin mem.local
  BY <1>3, FreshIsNew
<1>5. Introduces(e) => e.key \notin KeysWithin(mem.events, Len(mem.events))
  BY <1>1, <1>2, <1>4 DEF MeantIdentity
<1> QED BY <1>1, <1>2, <1>3, <1>5, GrowsStep DEF MeantIdentity

LEMMA NewGrows ==
  ASSUME New
  PROVE  Grows(mem'.events)
<1>1. PICK name \in Values, skew \in CreateSkew :
         mem' = Created(name, clock, clock + skew)
  BY DEF New
<1> DEFINE e == [id |-> 1, type |-> "CreateIdentity", prev |-> 0, signer |-> FirstRoot,
                 signedBy |-> FirstRoot, ts |-> clock + skew, key |-> FirstRoot, val |-> name]
           chain == <<e>>
<1>2. mem'.events = chain
  BY <1>1 DEF Created
<1>3. /\ e.type = "CreateIdentity" /\ e.signer = e.key /\ e.signedBy = e.key
  OBVIOUS
<1> HIDE DEF e
<1>4. chain[1] = e /\ Len(chain) = 1 /\ chain # <<>>
  OBVIOUS
<1> HIDE DEF chain
<1> QED BY <1>2, <1>3, <1>4 DEF Grows, Creates, VerifyEvent

LEMMA HistoryInitHolds == Init => HInv
BY MeaningInitHolds DEF Init, HInv

LEMMA HistoryStepHolds == HInv /\ [Next]_vars => HInv'
<1> SUFFICES ASSUME HInv, [Next]_vars
             PROVE  HInv'
  OBVIOUS
<1>1. RInv'
  BY MeaningStepHolds DEF HInv
<1>2. CASE Operation
  <2>1. mem # NoIdentity /\ file' = file
    BY <1>2, OperationIsDone DEF HInv, RInv, OperationDone
  <2>2. Grows(mem'.events)
    BY <1>2, <2>1, OperationGrows DEF HInv
  <2> QED BY <1>1, <2>1, <2>2 DEF HInv
<1>3. CASE New
  BY <1>1, <1>3, NewGrows DEF HInv, New
<1>4. CASE Load \/ Save \/ Discard \/ Tick \/ StepBack
  BY <1>1, <1>4 DEF Load, Save, Discard, Tick, StepBack, HInv
<1>5. CASE UNCHANGED vars
  BY <1>1, <1>5 DEF vars, HInv
<1> QED BY <1>2, <1>3, <1>4, <1>5 DEF Next

LEMMA HistoryInvariance == Spec => []HInv
<1> QED BY HistoryInitHolds, HistoryStepHolds, PTL DEF Spec

(* What the keys of a current identity's document say is what its chain    *)
(* replays to, fresh from New or not.                                      *)
LEMMA CurrentKeys ==
  ASSUME NEW id \in Identity, Current(id)
  PROVE  /\ id.doc.id = ReplayState(id.events).id
         /\ id.doc.keys = ReplayState(id.events).keys
         /\ id.doc.root = ReplayState(id.events).root
<1>1. CASE Fresh(id)
  <2> DEFINE doc == InitDocumentFromCreate(id.events[1])
  <2>1. \A a, b : /\ [doc EXCEPT !.createdAt = a, !.updatedAt = b].id = doc.id
                  /\ [doc EXCEPT !.createdAt = a, !.updatedAt = b].keys = doc.keys
                  /\ [doc EXCEPT !.createdAt = a, !.updatedAt = b].root = doc.root
    BY DEF InitDocumentFromCreate
  <2>2. /\ ReplayState(id.events) = doc
        /\ id.doc = [doc EXCEPT !.createdAt = id.doc.createdAt,
                                !.updatedAt = id.doc.createdAt]
    BY <1>1 DEF Fresh
  <2> HIDE DEF doc
  <2>3. \E a, b : id.doc = [doc EXCEPT !.createdAt = a, !.updatedAt = b]
    BY <2>2
  <2> QED BY <2>1, <2>2, <2>3
<1>2. CASE VerifyState(id)
  BY <1>2 DEF VerifyState, DocumentsEqual
<1> QED BY <1>1, <1>2 DEF Current

LEMMA CurrentReplays ==
  ASSUME NEW id \in Identity, Current(id)
  PROVE  ReplayState(id.events) # Rejected
<1>1. "root" \notin DOMAIN Rejected
  BY DEF Rejected
<1>2. CASE Fresh(id)
  <2>1. ReplayState(id.events) = InitDocumentFromCreate(id.events[1])
    BY <1>2 DEF Fresh
  <2>2. "root" \in DOMAIN InitDocumentFromCreate(id.events[1])
    BY DEF InitDocumentFromCreate
  <2> QED BY <1>1, <2>1, <2>2
<1>3. CASE VerifyState(id)
  <2>1. ReplayState(id.events) = id.doc /\ id.doc \in Document
    BY <1>3 DEF VerifyState, DocumentsEqual, Identity
  <2> QED BY <2>1, Absent
<1> QED BY <1>2, <1>3 DEF Current

LEMMA OnlySaveWrites ==
  ASSUME RInv, Next, file' # file
  PROVE  Save
<1>1. Operation => file' = file
  BY OperationIsDone DEF RInv, OperationDone
<1> QED BY <1>1 DEF Next, New, Load, Discard, Tick, StepBack

(* What is saved over a chain that it extends has all it revoked.          *)
LEMMA SavedIsLater ==
  ASSUME HInv, Save, file # NoFile, Extends(file.events, mem.events)
  PROVE  Later(file.doc, mem.doc)
<1>1. /\ mem \in Identity /\ file \in Identity
      /\ Current(mem) /\ Current(file)
      /\ Grows(mem.events) /\ Grows(file.events)
  BY DEF Save, HInv, RInv, IInv, TypeOK
<1>2. mem.events \in Seq(Event) /\ file.events \in Seq(Event) /\ mem.doc \in Document
  BY <1>1 DEF Identity
<1>3. ReplayState(mem.events) # Rejected
  BY <1>1, CurrentReplays
<1>4. Later(ReplayState(file.events), ReplayState(mem.events))
  BY <1>1, <1>2, <1>3, ExtensionIsLater
<1> QED BY <1>1, <1>4, CurrentKeys DEF Later

(* Whatever a saved chain of any length had revoked stays revoked in every *)
(* longer one, and a superseded root never returns (events.go 414-451).    *)
THEOREM RevocationIsForGood == Spec => RevokedForGood
<1> DEFINE Good == (file # NoFile /\ file' # file /\ Len(file'.events) > 1
                      /\ Extends(file.events, file'.events)) =>
        /\ file'.doc.id = file.doc.id
        /\ \A i \in DOMAIN file.doc.keys :
              file.doc.keys[i].revokedAt # NeverRevoked =>
                /\ file'.doc.keys[i].id = file.doc.keys[i].id
                /\ file'.doc.keys[i].revokedAt # NeverRevoked
                /\ file'.doc.root = file.doc.keys[i].id => file.doc.root = file'.doc.root
<1>1. HInv /\ [Next]_vars => [Good]_vars
  <2> SUFFICES ASSUME HInv, Next, file # NoFile, file' # file, Len(file'.events) > 1,
                      Extends(file.events, file'.events)
               PROVE  /\ file'.doc.id = file.doc.id
                      /\ \A i \in DOMAIN file.doc.keys :
                            file.doc.keys[i].revokedAt # NeverRevoked =>
                              /\ file'.doc.keys[i].id = file.doc.keys[i].id
                              /\ file'.doc.keys[i].revokedAt # NeverRevoked
                              /\ file'.doc.root = file.doc.keys[i].id =>
                                    file.doc.root = file'.doc.root
    OBVIOUS
  <2>1. Save
    BY OnlySaveWrites DEF HInv
  <2>2. file' = mem
    BY <2>1 DEF Save
  <2>3. Later(file.doc, mem.doc)
    BY <2>1, <2>2, SavedIsLater
  <2> QED BY <2>2, <2>3 DEF Later, Ids
<1> HIDE DEF Good
<1>2. HInv /\ [Next]_vars => [Good]_vars
  BY <1>1
<1>3. RevokedForGood <=> [][Good]_vars
  BY PTL DEF RevokedForGood, Good
<1> QED BY <1>2, <1>3, HistoryInvariance, PTL DEF Spec

(* Extending a chain, event by event.                                      *)
LEMMA ExtendsMeans ==
  ASSUME NEW old \in Seq(Event), NEW new \in Seq(Event)
  PROVE  Extends(old, new) <=>
           Len(old) <= Len(new) /\ \A i \in 1 .. Len(old) : new[i] = old[i]
<1>1. CASE ~(Len(old) <= Len(new))
  BY <1>1 DEF Extends
<1>2. CASE Len(old) <= Len(new)
  <2> DEFINE m == Len(old)
             start == SubSeq(new, 1, m)
  <2>1. /\ m \in Nat /\ start \in Seq(Event) /\ Len(start) = m
        /\ \A i \in 1 .. m : start[i] = new[i]
    BY <1>2
  <2>2. start = old <=> \A i \in 1 .. m : start[i] = old[i]
    <3> HIDE DEF start
    <3>1. ASSUME \A i \in 1 .. m : start[i] = old[i] PROVE start = old
      BY <2>1, <3>1, SeqEqual
    <3> QED BY <3>1
  <2> QED BY <1>2, <2>1, <2>2 DEF Extends
<1> QED BY <1>1, <1>2

-----------------------------------------------------------------------------
(* The devices of a document that are not revoked.                         *)

DeviceIds(keys) == {keys[i].id : i \in {j \in DOMAIN keys : keys[j].role = DeviceRole}}

Devices(doc) == DeviceIds(doc.keys) \ RevokedIds(doc.keys)

LEMMA DeviceResolves ==
  ASSUME NEW doc \in Document, Distinct(doc.keys), NEW d
  PROVE  Resolvable(doc, d, {DeviceRole}) <=> d \in Devices(doc)
<1>1. ASSUME Resolvable(doc, d, {DeviceRole})
      PROVE  d \in Devices(doc)
  <2>1. PICK i \in DOMAIN doc.keys : /\ doc.keys[i].id = d
                                     /\ doc.keys[i].revokedAt = NeverRevoked
                                     /\ doc.keys[i].role = DeviceRole
    BY <1>1 DEF Resolvable
  <2>2. d \notin RevokedIds(doc.keys)
    BY <2>1 DEF RevokedIds, Distinct
  <2> QED BY <2>1, <2>2 DEF Devices, DeviceIds
<1>2. ASSUME d \in Devices(doc)
      PROVE  Resolvable(doc, d, {DeviceRole})
  <2>1. PICK i \in DOMAIN doc.keys : doc.keys[i].id = d /\ doc.keys[i].role = DeviceRole
    BY <1>2 DEF Devices, DeviceIds
  <2>2. doc.keys[i].revokedAt = NeverRevoked
    BY <1>2, <2>1 DEF Devices, RevokedIds
  <2> QED BY <2>1, <2>2 DEF Resolvable
<1> QED BY <1>1, <1>2

LEMMA DevicesAreKeys ==
  ASSUME NEW doc \in Document
  PROVE  /\ Devices(doc) \subseteq Ids(doc.keys)
         /\ Nobody \notin Devices(doc)
<1>1. Devices(doc) \subseteq Ids(doc.keys)
  BY DEF Devices, DeviceIds, Ids
<1>2. Nobody \notin Ids(doc.keys)
  <2>1. doc.keys \in Seq(KeyRecord)
    BY DEF Document
  <2>2. \A i \in DOMAIN doc.keys : doc.keys[i] \in KeyRecord
    BY <2>1
  <2>3. Nobody \notin KeyIds
    BY DEF Nobody, KeyIds
  <2> QED BY <2>2, <2>3 DEF Ids, KeyRecord
<1> QED BY <1>1, <1>2

LEMMA FirstActiveIsADevice ==
  ASSUME NEW doc \in Document, Distinct(doc.keys)
  PROVE  IF Devices(doc) = {} THEN FirstActive(doc, DeviceRole) = Nobody
         ELSE FirstActive(doc, DeviceRole) \in Devices(doc)
<1> DEFINE active == {i \in DOMAIN doc.keys : /\ doc.keys[i].role = DeviceRole
                                              /\ doc.keys[i].revokedAt = NeverRevoked}
           first == CHOOSE i \in active : \A j \in active : i <= j
<1>1. \A i \in active : doc.keys[i].id \in Devices(doc)
  <2> SUFFICES ASSUME NEW i \in active
               PROVE  doc.keys[i].id \in Devices(doc)
    OBVIOUS
  <2>1. Resolvable(doc, doc.keys[i].id, {DeviceRole})
    BY DEF Resolvable
  <2> QED BY <2>1, DeviceResolves
<1>2. CASE active = {}
  <2>1. FirstActive(doc, DeviceRole) = Nobody
    BY <1>2 DEF FirstActive
  <2>2. Devices(doc) = {}
    <3> SUFFICES ASSUME NEW d \in Devices(doc)
                 PROVE  FALSE
      OBVIOUS
    <3>1. Resolvable(doc, d, {DeviceRole})
      BY DeviceResolves
    <3> QED BY <1>2, <3>1 DEF Resolvable
  <2> QED BY <2>1, <2>2
<1>3. CASE active # {}
  <2>1. active \subseteq Nat
    BY DEF Document
  <2>2. PICK i \in active : \A j \in active : i <= j
    BY <1>3, <2>1, LeastElement
  <2>3. first \in active
    BY <2>2
  <2>4. FirstActive(doc, DeviceRole) = doc.keys[first].id
    BY <1>3 DEF FirstActive
  <2> HIDE DEF first, active
  <2> QED BY <1>1, <2>3, <2>4
<1> QED BY <1>2, <1>3

LEMMA DeviceIdsAppend ==
  ASSUME NEW keys \in Seq(KeyRecord), NEW new \in KeyRecord
  PROVE  DeviceIds(Append(keys, new)) =
           DeviceIds(keys) \cup (IF new.role = DeviceRole THEN {new.id} ELSE {})
<1> DEFINE longer == Append(keys, new)
           n == Len(keys)
<1>1. /\ n \in Nat /\ DOMAIN keys = 1 .. n /\ DOMAIN longer = (1 .. n) \cup {n + 1}
      /\ longer[n + 1] = new /\ \A i \in 1 .. n : longer[i] = keys[i]
      /\ n + 1 \notin 1 .. n
  OBVIOUS
<1> HIDE DEF longer, n
<1>2. {j \in DOMAIN longer : longer[j].role = DeviceRole} =
        {j \in DOMAIN keys : keys[j].role = DeviceRole}
          \cup (IF new.role = DeviceRole THEN {n + 1} ELSE {})
  BY <1>1
<1>3. \A i \in {j \in DOMAIN keys : keys[j].role = DeviceRole} : longer[i] = keys[i]
  BY <1>1
<1> QED BY <1>1, <1>2, <1>3 DEF DeviceIds, longer

LEMMA DeviceIdsRevoke ==
  ASSUME NEW keys \in Seq(KeyRecord), NEW k, NEW ts \in Times
  PROVE  DeviceIds(Revoke(keys, k, ts)) = DeviceIds(keys)
BY RevokeKeepsKeys DEF DeviceIds

(* Which devices there are one event later.                                *)
LEMMA ApplyDevices ==
  ASSUME NEW doc \in Document, Distinct(doc.keys), RootIsAKey(doc),
         NEW e \in Event, Payload(e), Accepts(doc, e),
         Introduces(e) => e.key \notin Ids(doc.keys)
  PROVE  Devices(ApplyEvent(doc, e)) =
           CASE e.type = "AddDeviceKey" -> Devices(doc) \cup {e.key}
             [] e.type = "RevokeDevice" -> Devices(doc) \ {e.key}
             [] OTHER -> Devices(doc)
<1> DEFINE new == ApplyEvent(doc, e)
<1>1. doc.keys \in Seq(KeyRecord) /\ e.ts \in Times
  BY DEF Document, Event
<1>2. new.keys = CASE e.type = "AddDeviceKey" -> Append(doc.keys, ActiveKey(e.key, DeviceRole))
                   [] e.type = "RevokeDevice" -> Revoke(doc.keys, e.key, e.ts)
                   [] e.type = "RotateRootKey" -> Append(Revoke(doc.keys, e.signer, e.ts),
                                                         ActiveKey(e.key, RootRole))
                   [] OTHER -> doc.keys
  BY ApplyKeys
<1>3. RevokedIds(doc.keys) \subseteq Ids(doc.keys)
  BY DEF RevokedIds, Ids
<1> HIDE DEF new
<1>4. CASE e.type = "AddDeviceKey"
  <2> DEFINE k == ActiveKey(e.key, DeviceRole)
  <2>1. k \in KeyRecord /\ k.revokedAt = NeverRevoked /\ k.id = e.key /\ k.role = DeviceRole
    BY <1>4, ActiveKeyType DEF Payload, ActiveKey
  <2>2. new.keys = Append(doc.keys, k)
    BY <1>2, <1>4
  <2> HIDE DEF k
  <2>3. /\ DeviceIds(new.keys) = DeviceIds(doc.keys) \cup {e.key}
        /\ RevokedIds(new.keys) = RevokedIds(doc.keys)
    BY <1>1, <2>1, <2>2, DeviceIdsAppend, AppendAppends
  <2>4. e.key \notin RevokedIds(doc.keys)
    BY <1>3, <1>4 DEF Introduces
  <2> QED BY <1>4, <2>3, <2>4 DEF Devices, new
<1>5. CASE e.type = "RevokeDevice"
  <2>1. e.key \in Ids(doc.keys)
    BY <1>5 DEF Accepts, Applicable, Ids
  <2>2. /\ DeviceIds(new.keys) = DeviceIds(doc.keys)
        /\ RevokedIds(new.keys) = RevokedIds(doc.keys) \cup {e.key}
    BY <1>1, <1>2, <1>5, <2>1, DeviceIdsRevoke, RevokeRevokes
  <2> QED BY <1>5, <2>2 DEF Devices, new
<1>6. CASE e.type = "RotateRootKey"
  <2> DEFINE k == ActiveKey(e.key, RootRole)
             ks == Revoke(doc.keys, e.signer, e.ts)
  <2>1. k \in KeyRecord /\ k.revokedAt = NeverRevoked /\ k.role # DeviceRole
    BY <1>6, ActiveKeyType DEF Payload, ActiveKey, RootRole, DeviceRole
  <2>2. new.keys = Append(ks, k)
    BY <1>2, <1>6
  <2>3. e.signer = doc.root /\ e.signer \in Ids(doc.keys)
    BY DEF Accepts, RootIsAKey, Ids
  <2>4. ks \in Seq(KeyRecord)
    BY <1>1, RevokeType
  <2>5. /\ DeviceIds(ks) = DeviceIds(doc.keys)
        /\ RevokedIds(ks) = RevokedIds(doc.keys) \cup {e.signer}
    BY <1>1, <2>3, DeviceIdsRevoke, RevokeRevokes
  <2> HIDE DEF k, ks
  <2>6. /\ DeviceIds(new.keys) = DeviceIds(ks)
        /\ RevokedIds(new.keys) = RevokedIds(ks)
    BY <2>1, <2>2, <2>4, DeviceIdsAppend, AppendAppends
  <2>7. doc.root \notin DeviceIds(doc.keys)
    <3>1. PICK i \in DOMAIN doc.keys : doc.keys[i].id = doc.root /\ doc.keys[i].role = RootRole
      BY DEF RootIsAKey
    <3>2. \A j \in DOMAIN doc.keys : doc.keys[j].id = doc.root => doc.keys[j].role # DeviceRole
      BY <3>1 DEF Distinct, RootRole, DeviceRole
    <3> QED BY <3>2 DEF DeviceIds
  <2>8. Devices(new) = Devices(doc)
    BY <2>3, <2>5, <2>6, <2>7 DEF Devices
  <2> QED BY <1>6, <2>8 DEF new
<1>7. CASE e.type \notin {"AddDeviceKey", "RevokeDevice", "RotateRootKey"}
  BY <1>2, <1>7 DEF Devices, new
<1> QED BY <1>4, <1>5, <1>6, <1>7

-----------------------------------------------------------------------------
(* The preferred keys follow the document.                                 *)

PrefersADevice(doc, d) == IF Devices(doc) = {} THEN d = Nobody ELSE d \in Devices(doc)

Agrees(id) ==
    /\ id.preferredRoot = id.doc.root
    /\ PrefersADevice(id.doc, id.preferredDevice)

(* What an operation does to them, by the event it appends.                *)
PreferencesDone(e) ==
    /\ Payload(e)
    /\ mem'.events = Append(mem.events, e)
    /\ Introduces(e) => e.key = FreshKey(mem)
    /\ mem'.preferredRoot = IF IsRotation(e) THEN e.key ELSE mem.preferredRoot
    /\ e.type \notin {"AddDeviceKey", "RevokeDevice"} =>
          mem'.preferredDevice = mem.preferredDevice
    /\ e.type = "AddDeviceKey" =>
          mem'.preferredDevice = IF mem.preferredDevice = Nobody THEN e.key
                                 ELSE mem.preferredDevice
    /\ e.type = "RevokeDevice" =>
          /\ e.key \in KeyIds
          /\ ReplayState(mem'.events) # Rejected =>
               mem'.preferredDevice =
                 IF mem.preferredDevice = e.key THEN DeviceKeyID(mem'.doc, e.key)
                 ELSE mem.preferredDevice

LEMMA RefreshKeepsRing ==
  ASSUME NEW id \in Identity
  PROVE  /\ RefreshDocument(id).events = id.events
         /\ RefreshDocument(id).preferredRoot = id.preferredRoot
         /\ RefreshDocument(id).preferredDevice = id.preferredDevice
<1>1. \A doc : /\ [id EXCEPT !.doc = doc].events = id.events
               /\ [id EXCEPT !.doc = doc].preferredRoot = id.preferredRoot
               /\ [id EXCEPT !.doc = doc].preferredDevice = id.preferredDevice
  BY DEF Identity
<1> QED BY <1>1 DEF RefreshDocument

LEMMA WithEventKeepsRing ==
  ASSUME mem \in Identity, NEW type, NEW k, NEW v
  PROVE  /\ WithEvent(type, k, v).preferredRoot = mem.preferredRoot
         /\ WithEvent(type, k, v).preferredDevice = mem.preferredDevice
<1>1. \A es : /\ [mem EXCEPT !.events = es].preferredRoot = mem.preferredRoot
              /\ [mem EXCEPT !.events = es].preferredDevice = mem.preferredDevice
  BY DEF Identity
<1> QED BY <1>1 DEF WithEvent

LEMMA PlainPrefers ==
  ASSUME IInv, NEW type \in EventTypes \ {"AddDeviceKey", "RevokeDevice", "RotateRootKey"},
         NEW v \in Values \cup {NoValue}, v \in Values \/ type = "AttachProof",
         Plain(type, v)
  PROVE  \E e \in Event : PreferencesDone(e)
<1> DEFINE e == NewEvent(mem, type, Nobody, v)
           changed == WithEvent(type, Nobody, v)
<1>1. mem \in Identity /\ clock \in Times
  BY DEF IInv, TypeOK, Plain, RoomForEvent
<1>2. e \in Event /\ Payload(e) /\ e.type = type
  BY <1>1, NewEventType DEF Payload
<1>3. /\ changed \in Identity /\ changed.events = Append(mem.events, e)
      /\ changed.preferredRoot = mem.preferredRoot
      /\ changed.preferredDevice = mem.preferredDevice
  BY <1>1, WithEventGrows, WithEventKeepsRing
<1>4. mem' = RefreshDocument(changed)
  BY DEF Plain
<1> HIDE DEF e, changed
<1>5. PreferencesDone(e)
  BY <1>2, <1>3, <1>4, RefreshKeepsRing DEF PreferencesDone, Introduces, IsRotation
<1> QED BY <1>2, <1>5

LEMMA AddDevicePrefers ==
  ASSUME IInv, AddDevice
  PROVE  \E e \in Event : PreferencesDone(e)
<1> DEFINE k == FreshKey(mem)
           e == NewEvent(mem, "AddDeviceKey", k, NoValue)
           before == WithEvent("AddDeviceKey", k, NoValue)
           changed == [before EXCEPT !.local = @ \cup {k},
                                     !.preferredDevice = IF @ = Nobody THEN k ELSE @]
<1>1. mem \in Identity /\ clock \in Times /\ RoomForEvent /\ Sane(mem)
  BY DEF IInv, TypeOK, AddDevice, RoomForEvent
<1>2. k \in KeyIds
  BY <1>1, NextKeyType
<1>3. e \in Event /\ Payload(e) /\ e.key = k /\ e.type = "AddDeviceKey"
  <2> HIDE DEF k
  <2> QED BY <1>1, <1>2, NewEventType DEF Payload, EventTypes
<1>4. /\ before \in Identity /\ before.events = Append(mem.events, e)
      /\ before.preferredRoot = mem.preferredRoot
      /\ before.preferredDevice = mem.preferredDevice
  <2> HIDE DEF k
  <2> QED BY <1>1, <1>2, WithEventGrows, WithEventKeepsRing DEF EventTypes
<1>5. mem' = RefreshDocument(changed)
  BY DEF AddDevice
<1> HIDE DEF e, before
<1>6. /\ changed \in Identity /\ changed.events = before.events
      /\ changed.preferredRoot = before.preferredRoot
      /\ changed.preferredDevice = IF before.preferredDevice = Nobody THEN k
                                   ELSE before.preferredDevice
  <2> HIDE DEF k
  <2> QED BY <1>2, <1>4 DEF Identity
<1> HIDE DEF changed
<1>7. PreferencesDone(e)
  BY <1>3, <1>4, <1>5, <1>6, RefreshKeepsRing DEF PreferencesDone, IsRotation
<1> QED BY <1>3, <1>7

LEMMA RotateRootPrefers ==
  ASSUME IInv, RotateRoot
  PROVE  \E e \in Event : PreferencesDone(e)
<1> DEFINE k == FreshKey(mem)
           e == NewEvent(mem, "RotateRootKey", k, NoValue)
           before == WithEvent("RotateRootKey", k, NoValue)
           changed == [before EXCEPT !.local = @ \cup {k}, !.preferredRoot = k]
<1>1. mem \in Identity /\ clock \in Times /\ RoomForEvent /\ Sane(mem)
  BY DEF IInv, TypeOK, RotateRoot, RoomForEvent
<1>2. k \in KeyIds
  BY <1>1, NextKeyType
<1>3. e \in Event /\ Payload(e) /\ e.key = k /\ e.type = "RotateRootKey"
  <2> HIDE DEF k
  <2> QED BY <1>1, <1>2, NewEventType DEF Payload, EventTypes
<1>4. /\ before \in Identity /\ before.events = Append(mem.events, e)
      /\ before.preferredDevice = mem.preferredDevice
  <2> HIDE DEF k
  <2> QED BY <1>1, <1>2, WithEventGrows, WithEventKeepsRing DEF EventTypes
<1>5. mem' = RefreshDocument(changed)
  BY DEF RotateRoot
<1> HIDE DEF e, before
<1>6. /\ changed \in Identity /\ changed.events = before.events
      /\ changed.preferredRoot = k
      /\ changed.preferredDevice = before.preferredDevice
  <2> HIDE DEF k
  <2> QED BY <1>2, <1>4 DEF Identity
<1> HIDE DEF changed
<1>7. PreferencesDone(e)
  BY <1>3, <1>4, <1>5, <1>6, RefreshKeepsRing DEF PreferencesDone, IsRotation
<1> QED BY <1>3, <1>7

LEMMA KnownKeyType ==
  ASSUME mem \in Identity, NEW k \in KnownKeys \cup {UnknownKey}
  PROVE  k \in KeyIds
<1>1. UnknownKey \in KeyIds
  BY BoundsAssumption DEF UnknownKey, KeyIds
<1>2. mem.doc.keys \in Seq(KeyRecord)
  BY DEF Identity, Document
<1>3. \A i \in DOMAIN mem.doc.keys : mem.doc.keys[i] \in KeyRecord
  BY <1>2
<1> QED BY <1>1, <1>3 DEF KnownKeys, KeyRecord

LEMMA ReplayGrownType ==
  ASSUME NEW events \in Seq(Event), events # <<>>, NEW e \in Event, Payload(e),
         ReplayState(events) \in Document \cup {Rejected}
  PROVE  ReplayState(Append(events, e)) \in Document \cup {Rejected}
BY ReplayAppend, ApplyType DEF ReplayStep, Accepts

LEMMA RevokeDevicePrefers ==
  ASSUME IInv, NEW k \in KnownKeys \cup {UnknownKey}, RevokeDevice(k)
  PROVE  \E e \in Event : PreferencesDone(e)
<1> DEFINE e == NewEvent(mem, "RevokeDevice", k, NoValue)
           changed == WithEvent("RevokeDevice", k, NoValue)
           after == RefreshDocument(changed)
           failed == ReplayState(changed.events) = Rejected
           d == DeviceKeyID(after.doc, k)
<1>1. mem \in Identity /\ clock \in Times /\ mem # NoIdentity
  BY DEF IInv, TypeOK, RevokeDevice, RoomForEvent
<1>2. k \in KeyIds
  BY <1>1, KnownKeyType
<1>3. e \in Event /\ Payload(e) /\ e.key = k /\ e.type = "RevokeDevice"
  BY <1>1, <1>2, NewEventType DEF Payload, EventTypes
<1>4. /\ changed \in Identity /\ changed.events = Append(mem.events, e)
      /\ changed.preferredRoot = mem.preferredRoot
      /\ changed.preferredDevice = mem.preferredDevice
  BY <1>1, <1>2, WithEventGrows, WithEventKeepsRing DEF EventTypes
<1>5. mem' = IF failed \/ after.preferredDevice # k THEN after
             ELSE [after EXCEPT !.preferredDevice = d]
  BY DEF RevokeDevice
<1> HIDE DEF e, changed
<1>6. /\ after.events = changed.events
      /\ after.preferredRoot = mem.preferredRoot
      /\ after.preferredDevice = mem.preferredDevice
  BY <1>4, RefreshKeepsRing
<1>7. after \in Identity
  <2>1. after = changed \/ \E doc \in Document : after = [changed EXCEPT !.doc = doc]
    <3>1. ReplayState(changed.events) \in Document \cup {Rejected}
      BY <1>1, <1>3, <1>4, ReplayGrownType DEF IInv, Sane, Identity
    <3> QED BY <3>1 DEF RefreshDocument
  <2> HIDE DEF after
  <2> QED BY <1>4, <2>1 DEF Identity
<1> HIDE DEF after
<1>8. \A x : /\ [after EXCEPT !.preferredDevice = x].events = after.events
             /\ [after EXCEPT !.preferredDevice = x].doc = after.doc
             /\ [after EXCEPT !.preferredDevice = x].preferredRoot = after.preferredRoot
             /\ [after EXCEPT !.preferredDevice = x].preferredDevice = x
  BY <1>7 DEF Identity
<1> HIDE DEF d
<1>9. /\ mem'.events = changed.events /\ mem'.doc = after.doc
      /\ mem'.preferredRoot = mem.preferredRoot
      /\ ~failed => mem'.preferredDevice = IF mem.preferredDevice = k THEN d
                                           ELSE mem.preferredDevice
  BY <1>5, <1>6, <1>8
<1>10. PreferencesDone(e)
  BY <1>2, <1>3, <1>4, <1>9 DEF PreferencesDone, IsRotation, Introduces, d
<1> QED BY <1>3, <1>10

LEMMA OperationPrefers ==
  ASSUME IInv, Operation
  PROVE  \E e \in Event : PreferencesDone(e)
<1>1. CASE UpdateProfile
  BY <1>1, PlainPrefers DEF UpdateProfile, EventTypes
<1>2. CASE AddPublicMemoryRoot
  BY <1>2, PlainPrefers DEF AddPublicMemoryRoot, EventTypes
<1>3. CASE AddPrivateMemoryRoot
  BY <1>3, PlainPrefers DEF AddPrivateMemoryRoot, EventTypes
<1>4. CASE AttachAttestationRef
  BY <1>4, PlainPrefers DEF AttachAttestationRef, EventTypes
<1>5. CASE AddDevice
  BY <1>5, AddDevicePrefers
<1>6. CASE \E k \in KnownKeys \cup {UnknownKey} : RevokeDevice(k)
  BY <1>6, RevokeDevicePrefers
<1>7. CASE RotateRoot
  BY <1>7, RotateRootPrefers
<1> QED BY <1>1, <1>2, <1>3, <1>4, <1>5, <1>6, <1>7 DEF Operation

(* An operation that succeeded leaves them fitting the document.           *)
LEMMA OperationAgrees ==
  ASSUME RInv, RInv', Operation, outcome # "failed", Agrees(mem),
         ReplayState(mem'.events) # Rejected
  PROVE  Agrees(mem')
<1>1. OperationDone /\ IInv
  BY OperationIsDone DEF RInv, OperationDone
<1>2. PICK e \in Event : PreferencesDone(e)
  BY <1>1, OperationPrefers
<1>3. /\ mem # NoIdentity /\ Sane(mem) /\ mem \in Identity /\ Current(mem)
      /\ mem.events \in Seq(Event) /\ mem.events # <<>>
      /\ ReplayState(mem.events) \in Document \cup {Rejected}
  BY <1>1 DEF OperationDone, IInv, TypeOK, Sane, Identity
<1> DEFINE doc == ReplayState(mem.events)
           new == ReplayState(mem'.events)
<1>4. new = ReplayStep(doc, e)
  BY <1>2, <1>3, ReplayAppend DEF PreferencesDone
<1>5. doc \in Document /\ Accepts(doc, e) /\ new = ApplyEvent(doc, e)
  BY <1>3, <1>4 DEF ReplayStep
<1>6. Distinct(doc.keys) /\ RootIsAKey(doc) /\ Ids(doc.keys) \subseteq mem.local
  <2>1. doc # Rejected
    BY <1>5, Absent
  <2>2. MeantIdentity(mem)
    BY <1>3 DEF RInv
  <2> QED BY <2>1, <2>2 DEF MeantIdentity, Meant, KeysDescribe
<1>7. Introduces(e) => e.key \notin Ids(doc.keys)
  BY <1>2, <1>3, <1>6, FreshIsNew DEF PreferencesDone
<1>8. mem'.doc = new /\ new \in Document /\ Distinct(new.keys)
  <2>1. mem' # NoIdentity /\ mem' \in Identity /\ mem'.doc = new
    BY <1>1, Absent DEF OperationDone
  <2>2. Distinct(new.keys)
    BY <2>1 DEF RInv, MeantIdentity, Meant, KeysDescribe
  <2> QED BY <2>1, <2>2 DEF Identity
<1>9. mem.doc.keys = doc.keys /\ mem.doc.root = doc.root
  BY <1>3, CurrentKeys
<1> HIDE DEF doc
<1>10. mem'.preferredRoot = mem'.doc.root
  <2>1. new.root = IF IsRotation(e) THEN e.key ELSE doc.root
    BY <1>5, ApplyFields
  <2> QED BY <1>2, <1>8, <1>9, <2>1 DEF PreferencesDone, Agrees
<1>11. Devices(new) = CASE e.type = "AddDeviceKey" -> Devices(doc) \cup {e.key}
                        [] e.type = "RevokeDevice" -> Devices(doc) \ {e.key}
                        [] OTHER -> Devices(doc)
  BY <1>2, <1>5, <1>6, <1>7, ApplyDevices DEF PreferencesDone
<1>12. PrefersADevice(doc, mem.preferredDevice) /\ Nobody \notin Devices(doc)
  BY <1>5, <1>9, DevicesAreKeys DEF Agrees, PrefersADevice, Devices
<1> HIDE DEF new
<1>13. PrefersADevice(new, mem'.preferredDevice)
  <2>1. CASE e.type = "AddDeviceKey"
    BY <1>2, <1>11, <1>12, <2>1 DEF PreferencesDone, PrefersADevice
  <2>2. CASE e.type = "RevokeDevice" /\ mem.preferredDevice # e.key
    BY <1>2, <1>11, <1>12, <2>2 DEF PreferencesDone, PrefersADevice, new
  <2>3. CASE e.type = "RevokeDevice" /\ mem.preferredDevice = e.key
    <3>1. mem'.preferredDevice = DeviceKeyID(new, e.key)
      BY <1>2, <1>8, <2>3 DEF PreferencesDone, new
    <3>2. ~ResolveKey(new, e.key)
      <4>1. e.key \in Ids(doc.keys)
        BY <1>5, <2>3 DEF Accepts, Applicable, Ids
      <4>2. doc.keys \in Seq(KeyRecord) /\ e.ts \in Times
        BY <1>5 DEF Document, Event
      <4>3. e.key \in RevokedIds(new.keys)
        BY <1>5, <2>3, <4>1, <4>2, ApplyKeys, RevokeRevokes
      <4> QED BY <1>8, <4>3 DEF ResolveKey, Resolvable, RevokedIds, Distinct
    <3>3. mem'.preferredDevice = FirstActive(new, DeviceRole)
      BY <3>1, <3>2 DEF DeviceKeyID
    <3> QED BY <1>8, <3>3, FirstActiveIsADevice DEF PrefersADevice
  <2>4. CASE e.type \notin {"AddDeviceKey", "RevokeDevice"}
    BY <1>2, <1>11, <1>12, <2>4 DEF PreferencesDone, PrefersADevice
  <2> QED BY <2>1, <2>2, <2>3, <2>4
<1> QED BY <1>8, <1>10, <1>13 DEF Agrees

LEMMA NewAgrees ==
  ASSUME New
  PROVE  Agrees(mem')
<1>1. PICK name \in Values, skew \in CreateSkew :
         mem' = Created(name, clock, clock + skew)
  BY DEF New
<1> DEFINE ks == <<ActiveKey(FirstRoot, RootRole), ActiveKey(FirstDevice, DeviceRole),
                   ActiveKey(FirstEncryption, EncryptionRole)>>
<1>2. /\ mem'.doc.keys = ks /\ mem'.doc.root = FirstRoot
      /\ mem'.preferredRoot = FirstRoot /\ mem'.preferredDevice = FirstDevice
  BY <1>1 DEF Created, InitDocumentFromCreate
<1>3. /\ DOMAIN ks = {1, 2, 3}
      /\ ks[1].role = "root" /\ ks[2].role = "device" /\ ks[3].role = "encryption"
      /\ ks[1].revokedAt = 0 /\ ks[2].revokedAt = 0 /\ ks[3].revokedAt = 0
      /\ ks[2].id = FirstDevice
  BY DEF ActiveKey, RootRole, DeviceRole, EncryptionRole, NeverRevoked
<1> HIDE DEF ks
<1>4. DeviceIds(ks) = {FirstDevice}
  BY <1>3 DEF DeviceIds, DeviceRole
<1>5. RevokedIds(ks) = {}
  BY <1>3 DEF RevokedIds, NeverRevoked
<1> QED BY <1>2, <1>4, <1>5 DEF Agrees, PrefersADevice, Devices

(* The invariant: the preferred keys fit the document of every object that *)
(* has not failed, so of every file.                                       *)
AInv ==
    /\ RInv
    /\ mem # NoIdentity /\ outcome # "failed" => Agrees(mem)
    /\ file # NoFile => Agrees(file)

LEMMA AgreementInitHolds == Init => AInv
BY MeaningInitHolds DEF Init, AInv

LEMMA AgreementStepHolds == AInv /\ [Next]_vars => AInv'
<1> SUFFICES ASSUME AInv, [Next]_vars
             PROVE  AInv'
  OBVIOUS
<1>1. RInv'
  BY MeaningStepHolds DEF AInv
<1>2. CASE Operation
  <2>1. OperationDone
    BY <1>2, OperationIsDone DEF AInv, RInv
  <2>2. mem # NoIdentity /\ file' = file
    BY <2>1 DEF OperationDone
  <2>3. ASSUME outcome' # "failed"
        PROVE  Agrees(mem')
    <3>1. ReplayState(mem.events) # Rejected
      BY <2>1, <2>3 DEF OperationDone
    <3>2. outcome # "failed"
      BY <3>1 DEF AInv, RInv, IInv
    <3>3. ReplayState(mem'.events) # Rejected
      BY <2>1, <2>3, CurrentReplays DEF OperationDone
    <3> QED BY <1>1, <1>2, <2>2, <3>2, <3>3, OperationAgrees DEF AInv
  <2> QED BY <1>1, <2>2, <2>3 DEF AInv, Agrees
<1>3. CASE New
  BY <1>1, <1>3, NewAgrees DEF AInv, New, Agrees
<1>4. CASE Load
  BY <1>1, <1>4 DEF Load, AInv, Agrees
<1>5. CASE Save
  BY <1>1, <1>5 DEF Save, AInv, Agrees
<1>6. CASE Discard \/ Tick \/ StepBack
  BY <1>1, <1>6 DEF Discard, Tick, StepBack, AInv, Agrees
<1>7. CASE UNCHANGED vars
  BY <1>1, <1>7 DEF vars, AInv, Agrees
<1> QED BY <1>2, <1>3, <1>4, <1>5, <1>6, <1>7 DEF Next

LEMMA AgreementInvariance == Spec => []AInv
<1> QED BY AgreementInitHolds, AgreementStepHolds, PTL DEF Spec

(* For chains of any length, a saved key ring fits the saved document: the *)
(* preferred root is the root, the preferred device an active one if there *)
(* is any, and both have their private keys (events.go 189-262, 414-451).  *)
THEOREM SavedRingFits == Spec => []SavedKeysAgree
<1>1. AInv => SavedKeysAgree
  <2> SUFFICES ASSUME AInv, file # NoFile
               PROVE  /\ file.preferredRoot = file.doc.root
                      /\ file.preferredRoot \in file.local
                      /\ IF FirstActive(file.doc, DeviceRole) = Nobody
                         THEN file.preferredDevice = Nobody
                         ELSE /\ Resolvable(file.doc, file.preferredDevice, {DeviceRole})
                              /\ file.preferredDevice \in file.local
    BY DEF SavedKeysAgree
  <2>1. /\ file \in Identity /\ Sane(file) /\ Current(file) /\ MeantIdentity(file)
        /\ Agrees(file)
    BY DEF AInv, RInv, IInv, TypeOK
  <2>2. file.doc \in Document
    BY <2>1 DEF Identity
  <2>3. ReplayState(file.events) # Rejected
    BY <2>1, CurrentReplays
  <2>4. /\ Ids(file.doc.keys) \subseteq file.local
        /\ Distinct(file.doc.keys) /\ RootIsAKey(file.doc)
    <3>1. KeysDescribe(ReplayState(file.events), file.events)
      BY <2>1, <2>3 DEF MeantIdentity, Meant
    <3> QED BY <2>1, <3>1, CurrentKeys DEF MeantIdentity, KeysDescribe, RootIsAKey
  <2>5. file.preferredRoot = file.doc.root /\ file.preferredRoot \in file.local
    BY <2>1, <2>4 DEF Agrees, RootIsAKey, Ids
  <2>6. /\ IF Devices(file.doc) = {} THEN FirstActive(file.doc, DeviceRole) = Nobody
           ELSE FirstActive(file.doc, DeviceRole) \in Devices(file.doc)
        /\ Devices(file.doc) \subseteq Ids(file.doc.keys)
        /\ Nobody \notin Devices(file.doc)
    BY <2>2, <2>4, FirstActiveIsADevice, DevicesAreKeys
  <2>7. Resolvable(file.doc, file.preferredDevice, {DeviceRole}) <=>
          file.preferredDevice \in Devices(file.doc)
    BY <2>2, <2>4, DeviceResolves
  <2> QED BY <2>1, <2>4, <2>5, <2>6, <2>7 DEF Agrees, PrefersADevice
<1> QED BY <1>1, AgreementInvariance, PTL

=============================================================================
