------------------------ MODULE IdentityStore_proofs ------------------------
(***************************************************************************)
(* Theorems about IdentityStore for every set of callers, attestations and *)
(* handlers and every bound: types, the files an identity refers to, the   *)
(* memories that were acknowledged, how chains fork, and, for one caller,  *)
(* what stays readable, what stays in the chain, and that all is a log.    *)
(***************************************************************************)
EXTENDS IdentityStore, SequenceTheorems, TLAPS

(* A handler at work has files to write and a chain to save; whatever can  *)
(* be loaded has a first event.                                            *)
Working ==
    /\ \A p \in Proc : pc[p] # "idle" => todo[p] # <<>> /\ copy[p] # <<>>
    /\ identity.state = "whole" => identity.chain # <<>>
    /\ backup.state = "whole" => backup.chain # <<>>

(* The reference a handler has put into its copy has its file, or that     *)
(* file is the one it creates next.                                        *)
CopiesBacked ==
    \A p \in Proc : \A cid \in Refs(copy[p]) :
        \/ others[AttestationFile(cid)] # "absent"
        \/ pc[p] = "open" /\ Current(p) = AttestationFile(cid)

IInv == TypeOK /\ Working /\ AttachedFileExists /\ CopiesBacked

-----------------------------------------------------------------------------
LEMMA RefsOfEmpty == Refs(<<>>) = {}
  BY DEF Refs

(* Appending an event adds at most the CID it attaches.                    *)
LEMMA RefsOfAppend ==
  ASSUME NEW chain \in Seq(Event), NEW e \in Event
  PROVE  Refs(Append(chain, e)) \subseteq
           Refs(chain) \cup (IF e.kind = "attach" THEN {e.cid} ELSE {})
<1> DEFINE longer == Append(chain, e)
<1> SUFFICES ASSUME NEW i \in DOMAIN longer, longer[i].kind = "attach"
             PROVE  longer[i].cid \in Refs(chain) \cup
                      (IF e.kind = "attach" THEN {e.cid} ELSE {})
  BY DEF Refs
<1>1. DOMAIN longer = 1 .. Len(chain) + 1 /\ DOMAIN chain = 1 .. Len(chain)
  OBVIOUS
<1>2. CASE i = Len(chain) + 1
  <2>1. longer[i] = e
    BY <1>2
  <2> QED BY <2>1
<1>3. CASE i # Len(chain) + 1
  <2>1. i \in DOMAIN chain /\ longer[i] = chain[i]
    BY <1>1, <1>3
  <2> QED BY <2>1 DEF Refs
<1> QED BY <1>2, <1>3

(* The references of a chain are attestations, so their files have names.  *)
LEMMA RefsTyped ==
  ASSUME NEW chain \in Seq(Event)
  PROVE  Refs(chain) \subseteq Attestations
<1> SUFFICES ASSUME NEW i \in DOMAIN chain, chain[i].kind = "attach"
             PROVE  chain[i].cid \in Attestations
  BY DEF Refs
<1>1. chain[i] \in Event
  OBVIOUS
<1> QED BY <1>1 DEF Event

-----------------------------------------------------------------------------
LEMMA InitIInv == Init => IInv
<1> SUFFICES ASSUME Init PROVE IInv
  OBVIOUS
<1>1. TypeOK
  <2>1. 0 \in 0 .. MaxEvents /\ 0 \in 0 .. MaxFaults
    BY StoreAssumption
  <2>2. <<>> \in Seq(Event) /\ <<>> \in Seq(FileNames)
    OBVIOUS
  <2> QED BY <2>1, <2>2 DEF Init, TypeOK, Content, Absent
<1>2. Working
  BY DEF Init, Working, Absent
<1>3. AttachedFileExists /\ CopiesBacked
  BY RefsOfEmpty DEF Init, AttachedFileExists, CopiesBacked, Absent
<1> QED BY <1>1, <1>2, <1>3 DEF IInv

(* Starting a handler keeps the invariant when the chain it will save has  *)
(* its attestation files, but for the one it writes first.                 *)
LEMMA BeginKeepsIInv ==
  ASSUME IInv, NEW p \in Proc, NEW chain \in Seq(Event), chain # <<>>,
         NEW files \in Seq(FileNames), files # <<>>,
         NEW events \in SUBSET Event, Begin(p, chain, files, events),
         made' \in 0 .. MaxEvents,
         \A cid \in Refs(chain) : \/ others[AttestationFile(cid)] # "absent"
                                 \/ Head(files) = AttestationFile(cid)
  PROVE  IInv'
<1> USE DEF IInv
<1>1. TypeOK'
  BY DEF TypeOK, Begin
<1>2. Working'
  BY DEF TypeOK, Working, Begin
<1>3. AttachedFileExists'
  BY DEF AttachedFileExists, Begin
<1>4. CopiesBacked'
  BY DEF TypeOK, CopiesBacked, Current, Begin
<1> QED BY <1>1, <1>2, <1>3, <1>4

(* What a loading handler saves: the loaded chain and its new event.       *)
LEMMA LoadedChain ==
  ASSUME IInv, LoadIdentity, SignEvent,
         NEW kind \in {"memory", "keys", "attach"}, NEW cid,
         IF kind = "attach" THEN cid \in Attestations ELSE cid = NoCid
  PROVE  LET e == FreshEvent(kind, cid)
             chain == Append(identity.chain, e)
         IN  /\ e \in Event
             /\ e.id \in EventIds
             /\ chain \in Seq(Event) /\ chain # <<>>
             /\ made' \in 0 .. MaxEvents
             /\ \A ref \in Refs(chain) :
                   \/ others[AttestationFile(ref)] # "absent"
                   \/ kind = "attach" /\ ref = cid
<1> DEFINE e == FreshEvent(kind, cid)
           chain == Append(identity.chain, e)
<1>1. identity.chain \in Seq(Event) /\ identity.chain # <<>>
  BY DEF IInv, TypeOK, Content, Working, LoadIdentity
<1>2. identity.chain[1] \in Event
  BY <1>1
<1>3. identity.chain[1].did \in EventIds
  BY <1>2 DEF Event
<1>4. made + 1 \in EventIds /\ made' \in 0 .. MaxEvents
  BY StoreAssumption DEF IInv, TypeOK, SignEvent, EventIds
<1>5. e \in Event /\ e.id \in EventIds /\ e.kind = kind /\ e.cid = cid
  BY <1>3, <1>4 DEF FreshEvent, Event
<1>6. chain \in Seq(Event) /\ chain # <<>>
  BY <1>1, <1>5
<1>7. ASSUME NEW ref \in Refs(chain)
      PROVE  \/ others[AttestationFile(ref)] # "absent"
             \/ kind = "attach" /\ ref = cid
  BY <1>1, <1>5, <1>7, RefsOfAppend DEF IInv, AttachedFileExists
<1> QED BY <1>4, <1>5, <1>6, <1>7

LEMMA OpenKeepsIInv ==
  ASSUME IInv, NEW p \in Proc, OpenFile(p)
  PROVE  IInv'
<1> USE DEF IInv
<1>1. todo[p] \in Seq(FileNames) /\ todo[p] # <<>> /\ copy[p] # <<>>
  BY DEF TypeOK, Working, OpenFile
<1>2. Current(p) \in FileNames
  BY <1>1 DEF Current
<1>3. \A cid : AttestationFile(cid) # IdentityFile
  BY DEF AttestationFile, IdentityFile
<1>4. CASE Current(p) = IdentityFile
  <2>1. identity' = Empty /\ UNCHANGED <<others, copy, todo, change, made, backup>>
    BY <1>4 DEF OpenFile
  <2>2. TypeOK'
    BY <2>1 DEF TypeOK, OpenFile, Empty, Content
  <2>3. Working'
    BY <1>1, <2>1 DEF TypeOK, Working, OpenFile, Empty
  <2>4. AttachedFileExists'
    BY <2>1, RefsOfEmpty DEF AttachedFileExists, Empty
  <2>5. CopiesBacked'
    BY <1>3, <1>4, <2>1 DEF TypeOK, CopiesBacked, OpenFile, Current
  <2> QED BY <2>2, <2>3, <2>4, <2>5
<1>5. CASE Current(p) # IdentityFile
  <2>1. /\ others' = [others EXCEPT ![Current(p)] = "partial"]
        /\ UNCHANGED <<identity, copy, todo, change, made, backup>>
    BY <1>5 DEF OpenFile
  <2>2. Current(p) \in OtherFiles
    BY <1>2, <1>5 DEF FileNames
  <2>3. TypeOK'
    BY <2>1, <2>2 DEF TypeOK, OpenFile
  <2>4. Working'
    BY <1>1, <2>1 DEF TypeOK, Working, OpenFile
  <2>5. \A cid \in Attestations :
           others[AttestationFile(cid)] # "absent" => others'[AttestationFile(cid)] # "absent"
    BY <2>1, <2>2 DEF TypeOK, OtherFiles, AttestationFile
  <2>6. \A cid \in Attestations :
           Current(p) = AttestationFile(cid) => others'[AttestationFile(cid)] # "absent"
    BY <2>1, <2>2 DEF TypeOK
  <2>7. AttachedFileExists'
    <3>1. Refs(identity.chain) \subseteq Attestations /\ Refs(backup.chain) \subseteq Attestations
      BY RefsTyped DEF TypeOK, Content
    <3> QED BY <2>1, <2>5, <3>1 DEF AttachedFileExists
  <2>8. CopiesBacked'
    <3> SUFFICES ASSUME NEW q \in Proc, NEW cid \in Refs(copy[q])
                 PROVE  \/ others'[AttestationFile(cid)] # "absent"
                        \/ pc'[q] = "open" /\ Current(q)' = AttestationFile(cid)
      BY <2>1 DEF CopiesBacked
    <3>1. cid \in Attestations
      BY RefsTyped DEF TypeOK
    <3>2. CASE q = p
      BY <2>5, <2>6, <3>1, <3>2 DEF CopiesBacked
    <3>3. CASE q # p
      <4>1. pc'[q] = pc[q] /\ Current(q)' = Current(q)
        BY <2>1, <3>3 DEF TypeOK, OpenFile, Current
      <4> QED BY <2>5, <3>1, <4>1 DEF CopiesBacked
    <3> QED BY <3>2, <3>3
  <2> QED BY <2>3, <2>4, <2>7, <2>8
<1> QED BY <1>4, <1>5

LEMMA ReturnKeepsCopies ==
  ASSUME TypeOK, NEW p \in Proc, Return(p)
  PROVE  /\ pc' \in [Proc -> {"idle", "open", "write"}]
         /\ copy' \in [Proc -> Seq(Event)]
         /\ todo' \in [Proc -> Seq(FileNames)]
         /\ change' \in [Proc -> SUBSET Event]
         /\ pc'[p] = "idle" /\ copy'[p] = <<>>
         /\ \A q \in Proc \ {p} :
               pc'[q] = pc[q] /\ copy'[q] = copy[q] /\ todo'[q] = todo[q]
  BY DEF TypeOK, Return

LEMMA TailOfLonger ==
  ASSUME NEW S, NEW s \in Seq(S), Len(s) > 1
  PROVE  Tail(s) \in Seq(S) /\ Tail(s) # <<>>
<1>1. s # <<>>
  OBVIOUS
<1>2. Tail(s) \in Seq(S) /\ Len(Tail(s)) = Len(s) - 1
  BY <1>1
<1>3. Len(<<>>) = 0 /\ Len(s) - 1 # 0 /\ Len(s) \in Nat
  OBVIOUS
<1> QED BY <1>2, <1>3

LEMMA WriteKeepsIInv ==
  ASSUME IInv, NEW p \in Proc, WriteFile(p)
  PROVE  IInv'
<1> USE DEF IInv
<1>1. todo[p] \in Seq(FileNames) /\ todo[p] # <<>> /\ copy[p] # <<>> /\ copy[p] \in Seq(Event)
  BY DEF TypeOK, Working, WriteFile
<1>2. Current(p) \in FileNames
  BY <1>1 DEF Current
<1>3. \A cid \in Refs(copy[p]) : others[AttestationFile(cid)] # "absent"
  BY DEF CopiesBacked, WriteFile
<1>4. /\ others' \in [OtherFiles -> {"absent", "partial", "whole"}]
      /\ \A cid \in Attestations :
            others[AttestationFile(cid)] # "absent" => others'[AttestationFile(cid)] # "absent"
  <2>1. CASE Current(p) = IdentityFile
    BY <2>1 DEF TypeOK, WriteFile
  <2>2. CASE Current(p) # IdentityFile
    <3>1. Current(p) \in OtherFiles /\ others' = [others EXCEPT ![Current(p)] = "whole"]
      BY <1>2, <2>2 DEF FileNames, WriteFile
    <3> QED BY <3>1 DEF TypeOK, OtherFiles, AttestationFile
  <2> QED BY <2>1, <2>2
<1>5. /\ identity' \in Content
      /\ identity'.state = "whole" => identity'.chain # <<>>
      /\ Refs(identity'.chain) \subseteq Refs(identity.chain) \cup Refs(copy[p])
  <2>1. CASE Current(p) = IdentityFile
    <3>1. identity' \in {Whole(copy[p]), Torn}
      BY <2>1 DEF WriteFile, WriteOutcomes
    <3>2. CASE identity' = Whole(copy[p])
      BY <1>1, <3>2 DEF Whole, Content
    <3>3. CASE identity' = Torn
      BY <3>3, RefsOfEmpty DEF Torn, Content
    <3> QED BY <3>1, <3>2, <3>3
  <2>2. CASE Current(p) # IdentityFile
    BY <2>2 DEF TypeOK, Working, WriteFile
  <2> QED BY <2>1, <2>2
<1>6. /\ pc' \in [Proc -> {"idle", "open", "write"}]
      /\ copy' \in [Proc -> Seq(Event)]
      /\ todo' \in [Proc -> Seq(FileNames)]
      /\ change' \in [Proc -> SUBSET Event]
      /\ pc'[p] # "idle" => todo'[p] # <<>> /\ copy'[p] # <<>>
      /\ copy'[p] \in {copy[p], <<>>}
      /\ \A q \in Proc \ {p} : /\ pc'[q] = pc[q] /\ copy'[q] = copy[q]
                               /\ todo'[q] = todo[q]
  <2>1. CASE Finish(p)
    <3>1. Return(p)
      BY <2>1 DEF Finish
    <3> QED BY <3>1, ReturnKeepsCopies
  <2>2. CASE Continue(p)
    <3>1. Tail(todo[p]) \in Seq(FileNames) /\ Tail(todo[p]) # <<>>
      BY <1>1, <2>2, TailOfLonger DEF Continue
    <3> QED BY <1>1, <2>2, <3>1 DEF TypeOK, Continue
  <2> QED BY <2>1, <2>2 DEF WriteFile
<1>7. returned' \in SUBSET Event /\ expected' \in SUBSET Event
  <2>1. Events(copy[p]) \subseteq Event
    BY <1>1 DEF Events
  <2> QED BY <2>1 DEF TypeOK, WriteFile, Finish, Continue, Acknowledge
<1>8. UNCHANGED <<made, backup, faults>>
  BY DEF WriteFile
<1>9. TypeOK'
  BY <1>4, <1>5, <1>6, <1>7, <1>8 DEF TypeOK
<1>10. Working'
  BY <1>5, <1>6, <1>8 DEF Working
<1>11. AttachedFileExists'
  <2>1. Refs(identity.chain) \cup Refs(backup.chain) \cup Refs(copy[p]) \subseteq Attestations
    BY <1>1, RefsTyped DEF TypeOK, Content
  <2> QED BY <1>3, <1>4, <1>5, <1>8, <2>1 DEF AttachedFileExists
<1>12. CopiesBacked'
  <2> SUFFICES ASSUME NEW q \in Proc, NEW cid \in Refs(copy'[q])
               PROVE  \/ others'[AttestationFile(cid)] # "absent"
                      \/ pc'[q] = "open" /\ Current(q)' = AttestationFile(cid)
    BY DEF CopiesBacked
  <2>1. CASE q = p
    <3>1. cid \in Refs(copy[p])
      BY <1>6, <2>1, RefsOfEmpty
    <3>2. cid \in Attestations
      BY <1>1, <3>1, RefsTyped
    <3> QED BY <1>3, <1>4, <3>1, <3>2
  <2>2. CASE q # p
    <3>1. pc'[q] = pc[q] /\ Current(q)' = Current(q) /\ cid \in Refs(copy[q])
      BY <1>6, <2>2 DEF Current
    <3>2. cid \in Attestations
      BY <3>1, RefsTyped DEF TypeOK
    <3> QED BY <1>4, <3>1, <3>2 DEF CopiesBacked
  <2> QED BY <2>1, <2>2
<1> QED BY <1>9, <1>10, <1>11, <1>12

LEMMA GivingUpKeepsIInv ==
  ASSUME IInv, NEW p \in Proc, Abandon(p) \/ RefuseAttachment(p)
  PROVE  IInv'
<1> USE DEF IInv
<1>1. identity' = identity \/ identity' = Torn
  BY DEF Abandon, RefuseAttachment
<1>2. UNCHANGED <<others, made, returned, expected, backup>> /\ Return(p)
  BY DEF Abandon, RefuseAttachment
<1>r. /\ pc' \in [Proc -> {"idle", "open", "write"}]
      /\ copy' \in [Proc -> Seq(Event)]
      /\ todo' \in [Proc -> Seq(FileNames)]
      /\ change' \in [Proc -> SUBSET Event]
      /\ pc'[p] = "idle" /\ copy'[p] = <<>>
      /\ \A q \in Proc \ {p} :
            pc'[q] = pc[q] /\ copy'[q] = copy[q] /\ todo'[q] = todo[q]
  BY <1>2, ReturnKeepsCopies
<1>3. TypeOK'
  <2>1. faults' \in 0 .. MaxFaults
    BY StoreAssumption DEF TypeOK, Abandon, RefuseAttachment
  <2> QED BY <1>1, <1>2, <1>r, <2>1 DEF TypeOK, Torn, Content
<1>4. Working'
  <2>1. \A q \in Proc : pc'[q] # "idle" => todo'[q] # <<>> /\ copy'[q] # <<>>
    BY <1>r DEF Working
  <2>2. identity'.state = "whole" => identity'.chain # <<>>
    BY <1>1 DEF Working, Torn
  <2> QED BY <1>2, <2>1, <2>2 DEF Working
<1>5. AttachedFileExists'
  BY <1>1, <1>2, RefsOfEmpty DEF AttachedFileExists, Torn
<1>6. CopiesBacked'
  <2> SUFFICES ASSUME NEW q \in Proc, NEW cid \in Refs(copy'[q])
               PROVE  \/ others'[AttestationFile(cid)] # "absent"
                      \/ pc'[q] = "open" /\ Current(q)' = AttestationFile(cid)
    BY DEF CopiesBacked
  <2>1. q # p
    BY <1>r, RefsOfEmpty
  <2>2. pc'[q] = pc[q] /\ copy'[q] = copy[q] /\ Current(q)' = Current(q)
    BY <1>r, <2>1 DEF Current
  <2> QED BY <1>2, <2>2 DEF CopiesBacked
<1> QED BY <1>3, <1>4, <1>5, <1>6

LEMMA CrashKeepsIInv ==
  ASSUME IInv, Crash
  PROVE  IInv'
<1> USE DEF IInv
<1>1. TypeOK'
  <2>1. faults' \in 0 .. MaxFaults
    BY StoreAssumption DEF TypeOK, Crash
  <2> QED BY <2>1 DEF TypeOK, Crash
<1>2. Working'
  BY DEF Working, Crash
<1>3. AttachedFileExists'
  BY DEF AttachedFileExists, Crash
<1>4. CopiesBacked'
  BY RefsOfEmpty DEF CopiesBacked, Crash
<1> QED BY <1>1, <1>2, <1>3, <1>4

LEMMA NextKeepsIInv == IInv /\ [Next]_vars => IInv'
<1> SUFFICES ASSUME IInv, [Next]_vars PROVE IInv'
  OBVIOUS
<1> USE DEF IInv
<1>0. IdentityFile \in FileNames /\ \A cid \in Attestations : AttestationFile(cid) \in FileNames
  BY DEF FileNames, OtherFiles, AttestationFile
<1>1. ASSUME NEW p \in Proc, AddMemory(p) PROVE IInv'
  <2> DEFINE e == FreshEvent("memory", NoCid)
             chain == Append(identity.chain, e)
  <2>1. /\ e \in Event /\ e.id \in EventIds /\ chain \in Seq(Event) /\ chain # <<>>
        /\ made' \in 0 .. MaxEvents
        /\ \A ref \in Refs(chain) : others[AttestationFile(ref)] # "absent"
    BY <1>1, LoadedChain DEF AddMemory
  <2>2. MemoryFiles(e) \in Seq(FileNames) /\ MemoryFiles(e) # <<>>
    <3>1. ObjectFile(e) \in FileNames /\ ManifestFile(e) \in FileNames
      BY <2>1 DEF ObjectFile, ManifestFile, FileNames, OtherFiles
    <3> QED BY <1>0, <3>1 DEF MemoryFiles
  <2>3. Begin(p, chain, MemoryFiles(e), {e})
    BY <1>1 DEF AddMemory
  <2> QED BY <2>1, <2>2, <2>3, BeginKeepsIInv
<1>2. ASSUME NEW p \in Proc, ChangeKeys(p) PROVE IInv'
  <2> DEFINE e == FreshEvent("keys", NoCid)
             chain == Append(identity.chain, e)
  <2>1. /\ e \in Event /\ chain \in Seq(Event) /\ chain # <<>>
        /\ made' \in 0 .. MaxEvents
        /\ \A ref \in Refs(chain) : others[AttestationFile(ref)] # "absent"
    BY <1>2, LoadedChain DEF ChangeKeys
  <2>2. <<IdentityFile>> \in Seq(FileNames) /\ <<IdentityFile>> # <<>>
    BY <1>0
  <2>3. Begin(p, chain, <<IdentityFile>>, {e})
    BY <1>2 DEF ChangeKeys
  <2> QED BY <2>1, <2>2, <2>3, BeginKeepsIInv
<1>3. ASSUME NEW p \in Proc, NEW cid \in Attestations, AttachAttestation(p, cid)
      PROVE  IInv'
  <2> DEFINE e == FreshEvent("attach", cid)
             chain == Append(identity.chain, e)
  <2>1. /\ e \in Event /\ chain \in Seq(Event) /\ chain # <<>>
        /\ made' \in 0 .. MaxEvents
        /\ \A ref \in Refs(chain) : others[AttestationFile(ref)] # "absent" \/ ref = cid
    BY <1>3, LoadedChain DEF AttachAttestation
  <2>2. /\ AttachFiles(cid) \in Seq(FileNames) /\ AttachFiles(cid) # <<>>
        /\ Head(AttachFiles(cid)) = AttestationFile(cid)
    BY <1>0 DEF AttachFiles
  <2>3. Begin(p, chain, AttachFiles(cid), {e})
    BY <1>3 DEF AttachAttestation
  <2> QED BY <2>1, <2>2, <2>3, BeginKeepsIInv
<1>4. ASSUME NEW p \in Proc, CreateIdentity(p) PROVE IInv'
  <2> DEFINE e == [id |-> made + 1, kind |-> "create", did |-> made + 1, cid |-> NoCid]
  <2>1. e \in Event /\ made' \in 0 .. MaxEvents
    BY <1>4, StoreAssumption DEF CreateIdentity, SignEvent, TypeOK, Event, EventIds
  <2>2. <<e>> \in Seq(Event) /\ <<e>> # <<>> /\ Refs(<<e>>) = {}
    BY <2>1 DEF Refs
  <2>3. <<IdentityFile>> \in Seq(FileNames) /\ <<IdentityFile>> # <<>>
    BY <1>0
  <2>4. Begin(p, <<e>>, <<IdentityFile>>, {e})
    BY <1>4 DEF CreateIdentity
  <2> QED BY <2>1, <2>2, <2>3, <2>4, BeginKeepsIInv
<1>5. ASSUME NEW p \in Proc, ImportBackup(p) PROVE IInv'
  <2>1. backup.chain \in Seq(Event) /\ backup.chain # <<>> /\ made' \in 0 .. MaxEvents
    BY <1>5 DEF ImportBackup, TypeOK, Content, Working
  <2>2. \A ref \in Refs(backup.chain) : others[AttestationFile(ref)] # "absent"
    BY DEF AttachedFileExists
  <2>3. <<IdentityFile>> \in Seq(FileNames) /\ <<IdentityFile>> # <<>>
    BY <1>0
  <2>4. Begin(p, backup.chain, <<IdentityFile>>, {})
    BY <1>5 DEF ImportBackup
  <2>5. {} \in SUBSET Event
    OBVIOUS
  <2> QED BY <2>1, <2>2, <2>3, <2>4, <2>5, BeginKeepsIInv
<1>6. ASSUME NEW p \in Proc, ExportBackup(p) PROVE IInv'
  BY <1>6 DEF ExportBackup, TypeOK, Working, AttachedFileExists, CopiesBacked, Current
<1>7. CASE UNCHANGED vars
  BY <1>7 DEF vars, TypeOK, Working, AttachedFileExists, CopiesBacked, Current
<1> QED BY <1>1, <1>2, <1>3, <1>4, <1>5, <1>6, <1>7, OpenKeepsIInv, WriteKeepsIInv,
           GivingUpKeepsIInv, CrashKeepsIInv DEF Next, Step

-----------------------------------------------------------------------------
(* The variables keep their types, whoever runs and whatever fails.        *)
THEOREM TypeCorrect == Spec => []TypeOK
<1>1. IInv => TypeOK
  BY DEF IInv
<1> QED BY <1>1, InitIInv, NextKeepsIInv, PTL DEF Spec

(* AttachAttestation creates the attestation's file before the event that  *)
(* names it: no interleaving, fault or lost update leaves a readable chain *)
(* or backup with a reference whose file was never created.                *)
THEOREM AttachedFilesExist == Spec => []AttachedFileExists
<1>1. IInv => AttachedFileExists
  BY DEF IInv
<1> QED BY <1>1, InitIInv, NextKeepsIInv, PTL DEF Spec

-----------------------------------------------------------------------------
(* Memories: each handler writes the files of its own event only.          *)

(* No event is signed twice, by whomever, before or after it is returned.  *)
SignedOnce ==
    /\ \A d \in returned : d.id <= made
    /\ \A p \in Proc : \A e \in change[p] :
          e.id <= made /\ \A d \in returned : d.id # e.id
    /\ \A p, q \in Proc : p # q => \A e \in change[p], d \in change[q] : e.id # d.id

(* Where a handler is in its files.                                        *)
NoMemory(p) ==
    /\ \A e \in change[p] : e.kind # "memory"
    /\ todo[p] = <<IdentityFile>> \/ \E cid \in Attestations : todo[p] = AttachFiles(cid)

AddsMemory(p, e) ==
    /\ e.kind = "memory" /\ change[p] = {e}
    /\ \/ todo[p] = MemoryFiles(e)
       \/ todo[p] = <<ObjectFile(e), ManifestFile(e)>>
       \/ todo[p] = <<ManifestFile(e)>> /\ others[ObjectFile(e)] = "whole"

Idle(p) == pc[p] = "idle" /\ change[p] = {}

Plan(p) == Idle(p) \/ NoMemory(p) \/ \E e \in Event : AddsMemory(p, e)

MInv == SignedOnce /\ (\A p \in Proc : Plan(p)) /\ AckedMemoryOnDisk

MemoryFilesOf(e) == {ObjectFile(e), ManifestFile(e)}

LEMMA FileNamesDiffer ==
  ASSUME NEW d, NEW e
  PROVE  /\ ObjectFile(e) # ManifestFile(d)
         /\ d.id # e.id => ObjectFile(e) # ObjectFile(d) /\ ManifestFile(e) # ManifestFile(d)
         /\ IdentityFile \notin MemoryFilesOf(e)
         /\ \A cid : AttestationFile(cid) \notin MemoryFilesOf(e)
  BY DEF ObjectFile, ManifestFile, IdentityFile, AttestationFile, MemoryFilesOf

LEMMA MemoryFilesExist ==
  ASSUME NEW e \in Event
  PROVE  MemoryFilesOf(e) \subseteq OtherFiles
<1>1. e.id \in EventIds
  BY DEF Event
<1> QED BY <1>1 DEF MemoryFilesOf, ObjectFile, ManifestFile, OtherFiles

(* The file a handler is about to touch.                                   *)
LEMMA CurrentFile ==
  ASSUME NEW p \in Proc, Plan(p), pc[p] # "idle"
  PROVE  \/ Current(p) = IdentityFile
         \/ \E cid \in Attestations : Current(p) = AttestationFile(cid)
         \/ \E e \in change[p] : Current(p) \in MemoryFilesOf(e)
<1>1. CASE NoMemory(p)
  BY <1>1 DEF NoMemory, AttachFiles, Current
<1>2. ASSUME NEW e \in Event, AddsMemory(p, e)
      PROVE  Current(p) = IdentityFile \/ Current(p) \in MemoryFilesOf(e)
  BY <1>2 DEF AddsMemory, MemoryFiles, Current, MemoryFilesOf
<1>3. \A e \in Event : AddsMemory(p, e) => e \in change[p]
  BY DEF AddsMemory
<1> QED BY <1>1, <1>2, <1>3 DEF Plan, Idle

(* A write or truncation leaves the files of other events alone.           *)
LEMMA OthersUntouched ==
  ASSUME TypeOK, NEW p \in Proc, Plan(p), OpenFile(p) \/ WriteFile(p),
         NEW d \in Event, \A e \in change[p] : e.id # d.id
  PROVE  \A f \in MemoryFilesOf(d) : others'[f] = others[f]
<1> SUFFICES ASSUME NEW f \in MemoryFilesOf(d) PROVE others'[f] = others[f]
  OBVIOUS
<1>1. f \in OtherFiles
  BY MemoryFilesExist
<1>2. pc[p] # "idle"
  BY DEF OpenFile, WriteFile
<1>3. Current(p) # f
  <2>1. ASSUME NEW e \in change[p] PROVE f \notin MemoryFilesOf(e)
    BY FileNamesDiffer DEF MemoryFilesOf
  <2> QED BY <1>2, <2>1, CurrentFile, FileNamesDiffer
<1>4. \/ UNCHANGED others
      \/ \E x : others' = [others EXCEPT ![Current(p)] = x]
  BY DEF OpenFile, WriteFile
<1> QED BY <1>1, <1>3, <1>4 DEF TypeOK

(* A plan depends on the handler's own fields and the object's file.       *)
LEMMA PlanStays ==
  ASSUME NEW p \in Proc, Plan(p), pc'[p] = pc[p], todo'[p] = todo[p], change'[p] = change[p],
         \A e \in change[p] : others[ObjectFile(e)] = "whole" => others'[ObjectFile(e)] = "whole"
  PROVE  Plan(p)'
<1>1. ASSUME NEW e \in Event, AddsMemory(p, e) PROVE AddsMemory(p, e)'
  BY <1>1 DEF AddsMemory
<1>2. NoMemory(p) => NoMemory(p)'
  BY DEF NoMemory
<1>3. Idle(p) => Idle(p)'
  BY DEF Idle
<1> QED BY <1>1, <1>2, <1>3 DEF Plan

LEMMA InitMInv == Init => MInv
  BY DEF Init, MInv, SignedOnce, Plan, Idle, AckedMemoryOnDisk

LEMMA BeginKeepsMInv ==
  ASSUME TypeOK, MInv, NEW p \in Proc, NEW chain, NEW files, NEW events,
         Begin(p, chain, files, events), made' \in Nat, made <= made',
         \A e \in events : e.id = made + 1 /\ made' = made + 1,
         \/ /\ \A e \in events : e.kind # "memory"
            /\ files = <<IdentityFile>> \/ \E cid \in Attestations : files = AttachFiles(cid)
         \/ \E e \in Event : e.kind = "memory" /\ events = {e} /\ files = MemoryFiles(e)
  PROVE  MInv'
<1>1. /\ UNCHANGED <<others, returned>>
      /\ todo'[p] = files /\ change'[p] = events
      /\ \A q \in Proc \ {p} : pc'[q] = pc[q] /\ todo'[q] = todo[q] /\ change'[q] = change[q]
  BY DEF Begin, TypeOK
<1>2. \A d \in Event : d.id \in Nat
  BY DEF Event, EventIds
<1>3. made \in Nat /\ returned \subseteq Event /\ \A q \in Proc : change[q] \subseteq Event
  BY StoreAssumption DEF TypeOK
<1>4. \A d \in returned : d.id <= made' /\ \A e \in events : d.id # e.id
  BY <1>2, <1>3 DEF MInv, SignedOnce
<1>5. \A q \in Proc \ {p} : \A d \in change[q] : d.id <= made' /\ \A e \in events : d.id # e.id
  BY <1>2, <1>3 DEF MInv, SignedOnce
<1>6. \A e \in events : e.id <= made'
  BY <1>3
<1>7. SignedOnce'
  BY <1>1, <1>4, <1>5, <1>6 DEF MInv, SignedOnce
<1>8. \A q \in Proc : Plan(q)'
  <2>1. ASSUME NEW q \in Proc, q # p PROVE Plan(q)'
    BY <1>1, <2>1, PlanStays DEF MInv
  <2>2. Plan(p)'
    <3>1. CASE \A e \in events : e.kind # "memory"
      BY <1>1, <3>1 DEF Plan, NoMemory
    <3>2. CASE \E e \in Event : e.kind = "memory" /\ events = {e} /\ files = MemoryFiles(e)
      BY <1>1, <3>2 DEF Plan, AddsMemory
    <3> QED BY <3>1, <3>2
  <2> QED BY <2>1, <2>2
<1>9. AckedMemoryOnDisk'
  BY <1>1 DEF MInv, AckedMemoryOnDisk
<1> QED BY <1>7, <1>8, <1>9 DEF MInv

LEMMA OpenKeepsMInv ==
  ASSUME TypeOK, MInv, NEW p \in Proc, OpenFile(p)
  PROVE  MInv'
<1>1. UNCHANGED <<todo, change, made, returned>> /\ pc[p] = "open"
      /\ \A q \in Proc \ {p} : pc'[q] = pc[q]
  BY DEF OpenFile, TypeOK
<1>2. returned \subseteq Event /\ \A q \in Proc : change[q] \subseteq Event
  BY DEF TypeOK
<1>3. SignedOnce'
  BY <1>1 DEF MInv, SignedOnce
<1>4. AckedMemoryOnDisk'
  <2>1. ASSUME NEW d \in returned
        PROVE  others'[ObjectFile(d)] = others[ObjectFile(d)]
               /\ others'[ManifestFile(d)] = others[ManifestFile(d)]
    BY <1>2, OthersUntouched DEF MInv, SignedOnce, MemoryFilesOf
  <2> QED BY <1>1, <2>1 DEF MInv, AckedMemoryOnDisk
<1>5. ASSUME NEW q \in Proc, q # p PROVE Plan(q)'
  <2>1. ASSUME NEW d \in change[q] PROVE others'[ObjectFile(d)] = others[ObjectFile(d)]
    BY <1>2, <1>5, OthersUntouched DEF MInv, SignedOnce, MemoryFilesOf
  <2> QED BY <1>1, <1>5, <2>1, PlanStays DEF MInv
<1>6. Plan(p)'
  <2>1. CASE NoMemory(p)
    BY <1>1, <2>1 DEF Plan, NoMemory
  <2>2. ASSUME NEW e \in Event, AddsMemory(p, e) PROVE AddsMemory(p, e)'
    <3>1. CASE todo[p] = <<ManifestFile(e)>> /\ others[ObjectFile(e)] = "whole"
      <4>1. Current(p) = ManifestFile(e)
        BY <3>1 DEF Current
      <4>2. ObjectFile(e) # ManifestFile(e) /\ ManifestFile(e) # IdentityFile
        BY DEF ObjectFile, ManifestFile, IdentityFile
      <4>3. others'[ObjectFile(e)] = others[ObjectFile(e)]
        BY <4>1, <4>2, MemoryFilesExist DEF OpenFile, TypeOK, MemoryFilesOf
      <4> QED BY <1>1, <2>2, <3>1, <4>3 DEF AddsMemory
    <3>2. CASE todo[p] = MemoryFiles(e) \/ todo[p] = <<ObjectFile(e), ManifestFile(e)>>
      BY <1>1, <2>2, <3>2 DEF AddsMemory
    <3> QED BY <2>2, <3>1, <3>2 DEF AddsMemory
  <2>3. ~Idle(p)
    BY <1>1 DEF Idle
  <2> QED BY <2>1, <2>2, <2>3 DEF MInv, Plan
<1> QED BY <1>3, <1>4, <1>5, <1>6 DEF MInv

(* One file further.                                                       *)
LEMMA TailOfAttach ==
  ASSUME NEW cid
  PROVE  /\ Tail(AttachFiles(cid)) = <<IdentityFile>>
         /\ Len(<<IdentityFile>>) = 1
  BY DEF AttachFiles

LEMMA TailOfMemory ==
  ASSUME NEW e
  PROVE  /\ Tail(MemoryFiles(e)) = <<ObjectFile(e), ManifestFile(e)>>
         /\ Len(MemoryFiles(e)) # 1
         /\ LET two == <<ObjectFile(e), ManifestFile(e)>>
            IN  Tail(two) = <<ManifestFile(e)>> /\ Len(two) # 1 /\ Head(two) = ObjectFile(e)
         /\ LET one == <<ManifestFile(e)>> IN Len(one) = 1 /\ Head(one) = ManifestFile(e)
  BY DEF MemoryFiles

LEMMA WriteKeepsMInv ==
  ASSUME TypeOK, MInv, NEW p \in Proc, WriteFile(p)
  PROVE  MInv'
<1>1. /\ pc[p] = "write" /\ made' = made
      /\ Finish(p) \/ Continue(p)
      /\ Current(p) # IdentityFile => others' = [others EXCEPT ![Current(p)] = "whole"]
  BY DEF WriteFile
<1>2. returned \subseteq Event /\ \A q \in Proc : change[q] \subseteq Event
  BY DEF TypeOK
<1>3. \A q \in Proc \ {p} : pc'[q] = pc[q] /\ todo'[q] = todo[q] /\ change'[q] = change[q]
  BY <1>1 DEF TypeOK, Finish, Return, Continue
<1>4. /\ Finish(p) => /\ Len(todo[p]) = 1 /\ pc'[p] = "idle" /\ change'[p] = {}
                      /\ returned' = returned \cup change[p]
      /\ Continue(p) => /\ Len(todo[p]) # 1 /\ todo'[p] = Tail(todo[p])
                        /\ change'[p] = change[p] /\ returned' = returned
  <2>1. \A n : n > 1 => n # 1
    OBVIOUS
  <2> QED BY <2>1 DEF TypeOK, Finish, Return, Acknowledge, Continue
<1>5. SignedOnce'
  <2>1. /\ returned' \subseteq returned \cup change[p]
        /\ change'[p] \subseteq change[p]
        /\ change'[p] = {} \/ returned' = returned
    BY <1>1, <1>4
  <2>2. \A d \in returned' : d.id <= made'
    BY <1>1, <2>1 DEF MInv, SignedOnce
  <2>3. ASSUME NEW q \in Proc, NEW e \in change'[q]
        PROVE  e.id <= made' /\ \A d \in returned' : d.id # e.id
    <3>1. CASE q = p
      BY <1>1, <2>1, <2>3, <3>1 DEF MInv, SignedOnce
    <3>2. CASE q # p
      <4>1. e \in change[q]
        BY <1>3, <2>3, <3>2
      <4> QED BY <1>1, <2>1, <3>2, <4>1 DEF MInv, SignedOnce
    <3> QED BY <3>1, <3>2
  <2>4. \A q \in Proc : change'[q] \subseteq change[q]
    BY <1>3, <2>1
  <2>5. \A q, r \in Proc : q # r => \A e \in change'[q], d \in change'[r] : e.id # d.id
    BY <2>4 DEF MInv, SignedOnce
  <2> QED BY <2>2, <2>3, <2>5 DEF SignedOnce
<1>6. \A d \in returned : /\ others'[ObjectFile(d)] = others[ObjectFile(d)]
                          /\ others'[ManifestFile(d)] = others[ManifestFile(d)]
  BY <1>2, OthersUntouched DEF MInv, SignedOnce, MemoryFilesOf
<1>7. ASSUME NEW q \in Proc, q # p PROVE Plan(q)'
  <2>1. ASSUME NEW d \in change[q] PROVE others'[ObjectFile(d)] = others[ObjectFile(d)]
    BY <1>2, <1>7, OthersUntouched DEF MInv, SignedOnce, MemoryFilesOf
  <2> QED BY <1>3, <1>7, <2>1, PlanStays DEF MInv
<1>8. CASE NoMemory(p)
  <2>1. Plan(p)'
    <3>1. CASE Finish(p)
      BY <1>4, <3>1 DEF Plan, Idle
    <3>2. CASE Continue(p)
      <4>1. todo[p] # <<IdentityFile>>
        BY <1>4, <3>2, TailOfAttach
      <4>2. todo'[p] = <<IdentityFile>>
        BY <1>4, <1>8, <3>2, <4>1, TailOfAttach DEF NoMemory
      <4> QED BY <1>4, <1>8, <3>2, <4>2 DEF Plan, NoMemory
    <3> QED BY <1>1, <3>1, <3>2
  <2>2. \A d \in returned' : d.kind = "memory" => d \in returned
    BY <1>1, <1>4, <1>8 DEF NoMemory
  <2>3. AckedMemoryOnDisk'
    BY <1>6, <2>2 DEF MInv, AckedMemoryOnDisk
  <2> QED BY <1>5, <1>7, <2>1, <2>3 DEF MInv
<1>9. ASSUME NEW e \in Event, AddsMemory(p, e)
      PROVE  MInv'
  <2>1. change[p] = {e} /\ e.kind = "memory"
    BY <1>9 DEF AddsMemory
  <2>2. /\ ObjectFile(e) # ManifestFile(e)
        /\ ObjectFile(e) # IdentityFile /\ ManifestFile(e) # IdentityFile
        /\ ObjectFile(e) \in OtherFiles /\ ManifestFile(e) \in OtherFiles
    BY FileNamesDiffer, MemoryFilesExist DEF MemoryFilesOf
  <2>3. CASE todo[p] = MemoryFiles(e)
    <3>1. Continue(p) /\ todo'[p] = <<ObjectFile(e), ManifestFile(e)>>
      <4>1. Len(todo[p]) # 1 /\ Tail(todo[p]) = <<ObjectFile(e), ManifestFile(e)>>
        BY <2>3, TailOfMemory
      <4> QED BY <1>1, <1>4, <4>1
    <3>2. Plan(p)'
      BY <1>4, <2>1, <3>1 DEF Plan, AddsMemory
    <3>3. AckedMemoryOnDisk'
      BY <1>4, <1>6, <3>1 DEF MInv, AckedMemoryOnDisk
    <3> QED BY <1>5, <1>7, <3>2, <3>3 DEF MInv
  <2>4. CASE todo[p] = <<ObjectFile(e), ManifestFile(e)>>
    <3>1. Continue(p) /\ todo'[p] = <<ManifestFile(e)>> /\ Current(p) = ObjectFile(e)
      BY <1>1, <1>4, <2>4, TailOfMemory DEF Current
    <3>2. others'[ObjectFile(e)] = "whole"
      BY <1>1, <2>2, <3>1 DEF TypeOK
    <3>3. Plan(p)'
      BY <1>4, <2>1, <3>1, <3>2 DEF Plan, AddsMemory
    <3>4. AckedMemoryOnDisk'
      BY <1>4, <1>6, <3>1 DEF MInv, AckedMemoryOnDisk
    <3> QED BY <1>5, <1>7, <3>3, <3>4 DEF MInv
  <2>5. CASE todo[p] = <<ManifestFile(e)>> /\ others[ObjectFile(e)] = "whole"
    <3>1. Finish(p) /\ Current(p) = ManifestFile(e)
      BY <1>1, <1>4, <2>5, TailOfMemory DEF Current
    <3>2. others'[ManifestFile(e)] = "whole" /\ others'[ObjectFile(e)] = "whole"
      BY <1>1, <2>2, <2>5, <3>1 DEF TypeOK
    <3>3. Plan(p)'
      BY <1>4, <3>1 DEF Plan, Idle
    <3>4. AckedMemoryOnDisk'
      BY <1>4, <1>6, <2>1, <3>1, <3>2 DEF MInv, AckedMemoryOnDisk
    <3> QED BY <1>5, <1>7, <3>3, <3>4 DEF MInv
  <2> QED BY <1>9, <2>3, <2>4, <2>5 DEF AddsMemory
<1>10. ~Idle(p)
  BY <1>1 DEF Idle
<1> QED BY <1>8, <1>9, <1>10 DEF MInv, Plan

(* A handler that goes forgets its plan.                                   *)
LEMMA LeavingKeepsMInv ==
  ASSUME TypeOK, MInv, UNCHANGED <<others, made, returned>>,
         \A q \in Proc : \/ Idle(q)'
                         \/ pc'[q] = pc[q] /\ todo'[q] = todo[q] /\ change'[q] = change[q]
  PROVE  MInv'
<1>1. SignedOnce'
  BY DEF MInv, SignedOnce, Idle
<1>2. \A q \in Proc : Plan(q)'
  <2>1. ASSUME NEW q \in Proc, ~Idle(q)' PROVE Plan(q)'
    BY <2>1, PlanStays DEF MInv
  <2>2. \A q \in Proc : Idle(q)' => Plan(q)'
    BY DEF Plan
  <2> QED BY <2>1, <2>2
<1>3. AckedMemoryOnDisk'
  BY DEF MInv, AckedMemoryOnDisk
<1> QED BY <1>1, <1>2, <1>3 DEF MInv

LEMMA NextKeepsMInv == IInv /\ MInv /\ [Next]_vars => MInv'
<1> SUFFICES ASSUME IInv, MInv, [Next]_vars PROVE MInv'
  OBVIOUS
<1>0. TypeOK /\ made \in Nat
  BY StoreAssumption DEF IInv, TypeOK
<1>1. ASSUME NEW p \in Proc, AddMemory(p) PROVE MInv'
  <2> DEFINE e == FreshEvent("memory", NoCid)
  <2>1. e \in Event
    BY <1>1, LoadedChain DEF AddMemory
  <2>2. e.id = made + 1 /\ e.kind = "memory"
    BY DEF FreshEvent
  <2>3. Begin(p, Append(identity.chain, e), MemoryFiles(e), {e}) /\ made' = made + 1
    BY <1>1 DEF AddMemory, SignEvent
  <2> HIDE DEF e
  <2> QED BY <1>0, <2>1, <2>2, <2>3, BeginKeepsMInv
<1>2. ASSUME NEW p \in Proc, ChangeKeys(p) PROVE MInv'
  <2> DEFINE e == FreshEvent("keys", NoCid)
  <2>1. e.id = made + 1 /\ e.kind # "memory"
    BY DEF FreshEvent
  <2>2. Begin(p, Append(identity.chain, e), <<IdentityFile>>, {e}) /\ made' = made + 1
    BY <1>2 DEF ChangeKeys, SignEvent
  <2> HIDE DEF e
  <2> QED BY <1>0, <2>1, <2>2, BeginKeepsMInv
<1>3. ASSUME NEW p \in Proc, NEW cid \in Attestations, AttachAttestation(p, cid) PROVE MInv'
  <2> DEFINE e == FreshEvent("attach", cid)
  <2>1. e.id = made + 1 /\ e.kind # "memory"
    BY DEF FreshEvent
  <2>2. Begin(p, Append(identity.chain, e), AttachFiles(cid), {e}) /\ made' = made + 1
    BY <1>3 DEF AttachAttestation, SignEvent
  <2> HIDE DEF e
  <2> QED BY <1>0, <2>1, <2>2, BeginKeepsMInv
<1>4. ASSUME NEW p \in Proc, CreateIdentity(p) PROVE MInv'
  <2> DEFINE e == [id |-> made + 1, kind |-> "create", did |-> made + 1, cid |-> NoCid]
  <2>1. e.id = made + 1 /\ e.kind # "memory"
    OBVIOUS
  <2>2. Begin(p, <<e>>, <<IdentityFile>>, {e}) /\ made' = made + 1
    BY <1>4 DEF CreateIdentity, SignEvent
  <2> HIDE DEF e
  <2> QED BY <1>0, <2>1, <2>2, BeginKeepsMInv
<1>5. ASSUME NEW p \in Proc, ImportBackup(p) PROVE MInv'
  <2>1. Begin(p, backup.chain, <<IdentityFile>>, {}) /\ made' = made
    BY <1>5 DEF ImportBackup
  <2> QED BY <1>0, <2>1, BeginKeepsMInv
<1>6. ASSUME NEW p \in Proc, ExportBackup(p) PROVE MInv'
  BY <1>0, <1>6, LeavingKeepsMInv DEF ExportBackup
<1>7. ASSUME NEW p \in Proc, Abandon(p) \/ RefuseAttachment(p) PROVE MInv'
  <2>1. UNCHANGED <<others, made, returned>> /\ Return(p)
    BY <1>7 DEF Abandon, RefuseAttachment
  <2>2. Idle(p)' /\ \A q \in Proc \ {p} :
                       pc'[q] = pc[q] /\ todo'[q] = todo[q] /\ change'[q] = change[q]
    BY <1>0, <2>1 DEF Return, Idle, TypeOK
  <2> QED BY <1>0, <2>1, <2>2, LeavingKeepsMInv
<1>8. CASE Crash
  <2>1. UNCHANGED <<others, made, returned>> /\ \A q \in Proc : Idle(q)'
    BY <1>8 DEF Crash, Idle
  <2> QED BY <1>0, <2>1, LeavingKeepsMInv
<1>9. CASE UNCHANGED vars
  BY <1>0, <1>9, LeavingKeepsMInv DEF vars
<1> QED BY <1>0, <1>1, <1>2, <1>3, <1>4, <1>5, <1>6, <1>7, <1>8, <1>9, OpenKeepsMInv,
           WriteKeepsMInv DEF Next, Step

(* A memory whose AddMemory returned success has its object and manifest   *)
(* on disk, for any callers and faults: each handler writes the files of   *)
(* its own event, in order, and nobody else ever does (service.go 283-295).*)
THEOREM AckedMemoriesAreOnDisk == Spec => []AckedMemoryOnDisk
<1>1. MInv => AckedMemoryOnDisk
  BY DEF MInv
<1> QED BY <1>1, InitIInv, NextKeepsIInv, InitMInv, NextKeepsMInv, PTL DEF Spec

-----------------------------------------------------------------------------
(* Attestation files, short of faults: whole, or being written.            *)

Good(cid) ==
    \/ others[AttestationFile(cid)] = "whole"
    \/ \E p \in Proc : pc[p] = "write" /\ Current(p) = AttestationFile(cid)

(* The reference in a handler's copy may be to the file it opens next.     *)
GoodOrNext(p, cid) == Good(cid) \/ (pc[p] = "open" /\ Current(p) = AttestationFile(cid))

CInv ==
    faults = 0 =>
        /\ \A cid \in Refs(identity.chain) \cup Refs(backup.chain) : Good(cid)
        /\ \A p \in Proc : \A cid \in Refs(copy[p]) : GoodOrNext(p, cid)

LEMMA InitCInv == Init => CInv
  BY RefsOfEmpty DEF Init, CInv, Absent

(* Starting a handler: as for the existence of the files.                  *)
LEMMA BeginKeepsCInv ==
  ASSUME TypeOK, CInv, NEW p \in Proc, NEW chain, NEW files, NEW events,
         Begin(p, chain, files, events),
         \A cid \in Refs(chain) : \/ cid \in Refs(identity.chain) \cup Refs(backup.chain)
                                 \/ Head(files) = AttestationFile(cid)
  PROVE  CInv'
<1>1. /\ UNCHANGED <<others, identity, backup, faults>>
      /\ pc[p] = "idle" /\ pc'[p] = "open" /\ copy'[p] = chain /\ todo'[p] = files
      /\ \A q \in Proc \ {p} : pc'[q] = pc[q] /\ copy'[q] = copy[q] /\ todo'[q] = todo[q]
  BY DEF Begin, TypeOK
<1>2. ASSUME NEW cid, Good(cid) PROVE Good(cid)'
  <2>1. ASSUME NEW q \in Proc, pc[q] = "write", Current(q) = AttestationFile(cid)
        PROVE  pc'[q] = "write" /\ Current(q)' = AttestationFile(cid)
    <3>1. q # p
      BY <1>1, <2>1
    <3> QED BY <1>1, <2>1, <3>1 DEF Current
  <2> QED BY <1>1, <1>2, <2>1 DEF Good
<1> SUFFICES ASSUME faults = 0
             PROVE  /\ \A cid \in Refs(identity'.chain) \cup Refs(backup'.chain) : Good(cid)'
                    /\ \A q \in Proc : \A cid \in Refs(copy'[q]) : GoodOrNext(q, cid)'
  BY <1>1 DEF CInv
<1>3. \A cid \in Refs(identity.chain) \cup Refs(backup.chain) : Good(cid)'
  BY <1>2 DEF CInv
<1>4. ASSUME NEW q \in Proc, NEW cid \in Refs(copy'[q]) PROVE GoodOrNext(q, cid)'
  <2>1. CASE q = p
    <3>1. cid \in Refs(identity.chain) \cup Refs(backup.chain) \/ Head(files) = AttestationFile(cid)
      BY <1>1, <1>4, <2>1
    <3> QED BY <1>1, <1>3, <2>1, <3>1 DEF GoodOrNext, Current
  <2>2. CASE q # p
    <3>1. GoodOrNext(q, cid) /\ pc'[q] = pc[q] /\ Current(q)' = Current(q)
      BY <1>1, <1>4, <2>2 DEF CInv, Current
    <3> QED BY <1>2, <3>1 DEF GoodOrNext
  <2> QED BY <2>1, <2>2
<1> QED BY <1>1, <1>3, <1>4

(* What a loading handler's copy refers to.                                *)
LEMMA LoadedRefs ==
  ASSUME IInv, LoadIdentity, SignEvent,
         NEW kind \in {"memory", "keys", "attach"}, NEW cid,
         IF kind = "attach" THEN cid \in Attestations ELSE cid = NoCid
  PROVE  \A ref \in Refs(Append(identity.chain, FreshEvent(kind, cid))) :
            ref \in Refs(identity.chain) \/ (kind = "attach" /\ ref = cid)
<1> DEFINE e == FreshEvent(kind, cid)
<1>1. identity.chain \in Seq(Event) /\ e \in Event
  BY LoadedChain DEF IInv, TypeOK, Content
<1>2. e.kind = kind /\ e.cid = cid
  BY DEF FreshEvent
<1> HIDE DEF e
<1>3. Refs(Append(identity.chain, e)) \subseteq
         Refs(identity.chain) \cup (IF kind = "attach" THEN {cid} ELSE {})
  BY <1>1, <1>2, RefsOfAppend
<1> QED BY <1>3 DEF e

(* Opening and writing: the file of a truncated attestation has a writer,  *)
(* and a writer leaves it whole.                                           *)
LEMMA OpenKeepsCInv ==
  ASSUME TypeOK, Working, CInv, NEW p \in Proc, OpenFile(p)
  PROVE  CInv'
<1>1. /\ UNCHANGED <<todo, copy, backup, faults>> /\ pc[p] = "open" /\ pc'[p] = "write"
      /\ \A q \in Proc \ {p} : pc'[q] = pc[q]
      /\ identity' = identity \/ identity' = Empty
  BY DEF OpenFile, TypeOK
<1>2. Current(p) # IdentityFile => Current(p) \in OtherFiles
  <2>1. todo[p] \in Seq(FileNames) /\ todo[p] # <<>>
    BY <1>1 DEF TypeOK, Working
  <2>2. Current(p) \in FileNames
    BY <2>1 DEF Current
  <2> QED BY <2>2 DEF FileNames
<1>3. ASSUME NEW cid \in Attestations, Current(p) = AttestationFile(cid) PROVE Good(cid)'
  BY <1>1, <1>3 DEF Good, Current
<1>4. ASSUME NEW cid \in Attestations, Good(cid) PROVE Good(cid)'
  <2>1. CASE Current(p) = AttestationFile(cid)
    BY <1>3, <2>1
  <2>2. CASE Current(p) # AttestationFile(cid) /\ others[AttestationFile(cid)] = "whole"
    <3>1. AttestationFile(cid) \in OtherFiles
      BY DEF AttestationFile, OtherFiles
    <3>2. others'[AttestationFile(cid)] = "whole"
      BY <1>2, <2>2, <3>1 DEF OpenFile, TypeOK
    <3> QED BY <3>2 DEF Good
  <2>3. ASSUME NEW q \in Proc, pc[q] = "write", Current(q) = AttestationFile(cid)
        PROVE  Good(cid)'
    <3>1. q # p
      BY <1>1, <2>3
    <3>2. pc'[q] = "write" /\ Current(q)' = AttestationFile(cid)
      BY <1>1, <2>3, <3>1 DEF Current
    <3> QED BY <3>2 DEF Good
  <2> QED BY <1>4, <2>1, <2>2, <2>3 DEF Good
<1>5. /\ Refs(identity.chain) \cup Refs(backup.chain) \subseteq Attestations
      /\ \A q \in Proc : Refs(copy[q]) \subseteq Attestations
  BY RefsTyped DEF TypeOK, Content
<1>6. Refs(identity'.chain) \subseteq Refs(identity.chain)
  BY <1>1, RefsOfEmpty DEF Empty
<1> SUFFICES ASSUME faults = 0
             PROVE  /\ \A cid \in Refs(identity'.chain) \cup Refs(backup'.chain) : Good(cid)'
                    /\ \A q \in Proc : \A cid \in Refs(copy'[q]) : GoodOrNext(q, cid)'
  BY <1>1 DEF CInv
<1>7. \A cid \in Refs(identity'.chain) \cup Refs(backup'.chain) : Good(cid)'
  BY <1>1, <1>4, <1>5, <1>6 DEF CInv
<1>8. ASSUME NEW q \in Proc, NEW cid \in Refs(copy'[q]) PROVE GoodOrNext(q, cid)'
  <2>1. cid \in Attestations /\ GoodOrNext(q, cid)
    BY <1>1, <1>5, <1>8 DEF CInv
  <2>2. CASE Good(cid)
    BY <1>4, <2>1, <2>2 DEF GoodOrNext
  <2>3. CASE pc[q] = "open" /\ Current(q) = AttestationFile(cid)
    <3>1. CASE q = p
      BY <1>3, <2>1, <2>3, <3>1 DEF GoodOrNext
    <3>2. CASE q # p
      BY <1>1, <2>3, <3>2 DEF GoodOrNext, Current
    <3> QED BY <3>1, <3>2
  <2> QED BY <2>1, <2>2, <2>3 DEF GoodOrNext
<1> QED BY <1>7, <1>8

LEMMA WriteKeepsCInv ==
  ASSUME TypeOK, Working, CInv, NEW p \in Proc, WriteFile(p)
  PROVE  CInv'
<1>1. /\ UNCHANGED <<backup, faults>> /\ pc[p] = "write" /\ pc'[p] # "write"
      /\ \A q \in Proc \ {p} : pc'[q] = pc[q] /\ todo'[q] = todo[q] /\ copy'[q] = copy[q]
      /\ copy'[p] = copy[p] \/ copy'[p] = <<>>
  BY DEF WriteFile, Finish, Return, Continue, TypeOK
<1>2. Current(p) # IdentityFile => Current(p) \in OtherFiles
  <2>1. todo[p] \in Seq(FileNames) /\ todo[p] # <<>>
    BY <1>1 DEF TypeOK, Working
  <2>2. Current(p) \in FileNames
    BY <2>1 DEF Current
  <2> QED BY <2>2 DEF FileNames
<1>3. ASSUME NEW cid \in Attestations, Good(cid) PROVE Good(cid)'
  <2>1. AttestationFile(cid) \in OtherFiles /\ AttestationFile(cid) # IdentityFile
    BY DEF AttestationFile, OtherFiles, IdentityFile
  <2>2. CASE Current(p) = AttestationFile(cid) \/ others[AttestationFile(cid)] = "whole"
    <3>1. others'[AttestationFile(cid)] = "whole"
      BY <1>2, <2>1, <2>2 DEF WriteFile, TypeOK
    <3> QED BY <3>1 DEF Good
  <2>3. ASSUME NEW q \in Proc, pc[q] = "write", Current(q) = AttestationFile(cid), q # p
        PROVE  Good(cid)'
    <3>1. pc'[q] = "write" /\ Current(q)' = AttestationFile(cid)
      BY <1>1, <2>3 DEF Current
    <3> QED BY <3>1 DEF Good
  <2> QED BY <1>3, <2>2, <2>3 DEF Good
<1>4. /\ Refs(identity.chain) \cup Refs(backup.chain) \subseteq Attestations
      /\ \A q \in Proc : Refs(copy[q]) \subseteq Attestations
  BY RefsTyped DEF TypeOK, Content
<1>5. Refs(identity'.chain) \subseteq Refs(identity.chain) \cup Refs(copy[p])
  <2>1. identity' \in {identity, Whole(copy[p]), Torn}
    BY DEF WriteFile, WriteOutcomes
  <2> QED BY <2>1, RefsOfEmpty DEF Whole, Torn
<1> SUFFICES ASSUME faults = 0
             PROVE  /\ \A cid \in Refs(identity'.chain) \cup Refs(backup'.chain) : Good(cid)'
                    /\ \A q \in Proc : \A cid \in Refs(copy'[q]) : GoodOrNext(q, cid)'
  BY <1>1 DEF CInv
<1>6. \A cid \in Refs(copy[p]) : Good(cid)'
  BY <1>1, <1>3, <1>4 DEF CInv, GoodOrNext
<1>7. \A cid \in Refs(identity'.chain) \cup Refs(backup'.chain) : Good(cid)'
  BY <1>1, <1>3, <1>4, <1>5, <1>6 DEF CInv
<1>8. ASSUME NEW q \in Proc, NEW cid \in Refs(copy'[q]) PROVE GoodOrNext(q, cid)'
  <2>1. CASE q = p
    <3>1. cid \in Refs(copy[p])
      BY <1>1, <1>8, <2>1, RefsOfEmpty
    <3> QED BY <1>6, <3>1 DEF GoodOrNext
  <2>2. CASE q # p
    <3>1. cid \in Attestations /\ GoodOrNext(q, cid)
      BY <1>1, <1>4, <1>8, <2>2 DEF CInv
    <3>2. pc'[q] = pc[q] /\ Current(q)' = Current(q)
      BY <1>1, <2>2 DEF Current
    <3> QED BY <1>3, <3>1, <3>2 DEF GoodOrNext
  <2> QED BY <2>1, <2>2
<1> QED BY <1>7, <1>8

LEMMA NextKeepsCInv == IInv /\ CInv /\ [Next]_vars => CInv'
<1> SUFFICES ASSUME IInv, CInv, [Next]_vars PROVE CInv'
  OBVIOUS
<1>0. TypeOK /\ Working
  BY DEF IInv
<1>1. ASSUME NEW p \in Proc, AddMemory(p) PROVE CInv'
  <2> DEFINE chain == Append(identity.chain, FreshEvent("memory", NoCid))
  <2>1. \A ref \in Refs(chain) : ref \in Refs(identity.chain)
    BY <1>1, LoadedRefs DEF AddMemory
  <2>2. \E files, events : Begin(p, chain, files, events)
    BY <1>1 DEF AddMemory
  <2> HIDE DEF chain
  <2> QED BY <1>0, <2>1, <2>2, BeginKeepsCInv
<1>2. ASSUME NEW p \in Proc, ChangeKeys(p) PROVE CInv'
  <2> DEFINE chain == Append(identity.chain, FreshEvent("keys", NoCid))
  <2>1. \A ref \in Refs(chain) : ref \in Refs(identity.chain)
    BY <1>2, LoadedRefs DEF ChangeKeys
  <2>2. \E files, events : Begin(p, chain, files, events)
    BY <1>2 DEF ChangeKeys
  <2> HIDE DEF chain
  <2> QED BY <1>0, <2>1, <2>2, BeginKeepsCInv
<1>3. ASSUME NEW p \in Proc, NEW cid \in Attestations, AttachAttestation(p, cid) PROVE CInv'
  <2> DEFINE chain == Append(identity.chain, FreshEvent("attach", cid))
             files == AttachFiles(cid)
  <2>1. \A ref \in Refs(chain) : ref \in Refs(identity.chain) \/ ref = cid
    BY <1>3, LoadedRefs DEF AttachAttestation
  <2>2. Head(files) = AttestationFile(cid)
    BY DEF AttachFiles
  <2>3. \E events : Begin(p, chain, files, events)
    BY <1>3 DEF AttachAttestation
  <2> HIDE DEF chain, files
  <2> QED BY <1>0, <2>1, <2>2, <2>3, BeginKeepsCInv
<1>4. ASSUME NEW p \in Proc, CreateIdentity(p) PROVE CInv'
  <2> DEFINE e == [id |-> made + 1, kind |-> "create", did |-> made + 1, cid |-> NoCid]
  <2>1. Refs(<<e>>) = {}
    BY DEF Refs
  <2>2. \E files, events : Begin(p, <<e>>, files, events)
    BY <1>4 DEF CreateIdentity
  <2> HIDE DEF e
  <2> QED BY <1>0, <2>1, <2>2, BeginKeepsCInv
<1>5. ASSUME NEW p \in Proc, ImportBackup(p) PROVE CInv'
  BY <1>0, <1>5, BeginKeepsCInv DEF ImportBackup
<1>6. ASSUME NEW p \in Proc, ExportBackup(p) PROVE CInv'
  BY <1>6 DEF ExportBackup, CInv, Good, GoodOrNext, Current
<1>7. (Crash \/ \E p \in Proc : Abandon(p)) => CInv'
  BY StoreAssumption DEF Crash, Abandon, CInv, IInv, TypeOK
<1>8. ASSUME NEW p \in Proc, RefuseAttachment(p) PROVE CInv'
  <2>1. /\ UNCHANGED <<identity, others, backup, faults>>
        /\ pc[p] = "open" /\ pc'[p] = "idle" /\ copy'[p] = <<>>
        /\ \A q \in Proc \ {p} : pc'[q] = pc[q] /\ copy'[q] = copy[q] /\ todo'[q] = todo[q]
    BY <1>0, <1>8 DEF RefuseAttachment, Return, TypeOK
  <2>2. \A cid : Good(cid) => Good(cid)'
    BY <2>1 DEF Good, Current
  <2>3. ASSUME NEW q \in Proc, NEW cid \in Refs(copy'[q])
        PROVE  cid \in Refs(copy[q]) /\ (GoodOrNext(q, cid) => GoodOrNext(q, cid)')
    <3>1. q # p
      BY <2>1, <2>3, RefsOfEmpty
    <3>2. pc'[q] = pc[q] /\ copy'[q] = copy[q] /\ todo'[q] = todo[q]
      BY <2>1, <3>1
    <3> QED BY <2>2, <2>3, <3>2 DEF GoodOrNext, Current
  <2> QED BY <2>1, <2>2, <2>3 DEF CInv
<1>9. CASE UNCHANGED vars
  BY <1>9 DEF vars, CInv, Good, GoodOrNext, Current
<1> QED BY <1>0, <1>1, <1>2, <1>3, <1>4, <1>5, <1>6, <1>7, <1>8, <1>9, OpenKeepsCInv, WriteKeepsCInv
    DEF Next, Step

(* Short of faults, the file of every attestation a readable identity      *)
(* refers to is whole, or somebody is writing it at this moment, whoever   *)
(* attaches what how often (AttachAttestation, service.go 568-587).        *)
THEOREM AttachedFilesAreComplete == Spec => []AttachedFileComplete
<1>1. CInv => AttachedFileComplete
  BY DEF CInv, Good, AttachedFileComplete
<1> QED BY <1>1, InitIInv, NextKeepsIInv, InitCInv, NextKeepsCInv, PTL DEF Spec

(* What has been returned stays so.                                        *)
LEMMA ReturnedGrows == [Next]_vars => returned \subseteq returned'
<1> SUFFICES ASSUME [Next]_vars PROVE returned \subseteq returned'
  OBVIOUS
<1>1. ASSUME NEW p \in Proc, Step(p) PROVE returned \subseteq returned'
  BY <1>1 DEF Step, AddMemory, ChangeKeys, AttachAttestation, CreateIdentity, ImportBackup,
              ExportBackup, Begin, OpenFile, WriteFile, Finish, Acknowledge, Continue,
              Abandon, RefuseAttachment
<1> QED BY <1>1 DEF Next, Crash, vars

-----------------------------------------------------------------------------
(* Any number of callers, with faults: the chains that are about.  Callers *)
(* that overlap fork the identity, and may lose the other's fork, but an   *)
(* event has one history.                                                  *)

Chains == {identity.chain, backup.chain} \cup {copy[p] : p \in Proc}

Agree(x, y) ==
    \A i \in DOMAIN x, j \in DOMAIN y :
        x[i].id = y[j].id => i = j /\ \A k \in 1 .. i : x[k] = y[k]

SharedHistory == \A x, y \in Chains : Agree(x, y)

OneIdentity(chain) ==
    \A i \in DOMAIN chain :
        /\ chain[i].did = chain[1].id
        /\ chain[i].kind = "create" <=> i = 1
        /\ chain[i].id <= made
        /\ \A j \in DOMAIN chain : i < j => chain[i].id < chain[j].id

WellFormed == \A x \in Chains : OneIdentity(x)

HInv == SharedHistory /\ WellFormed

LEMMA ChainsTyped ==
  ASSUME TypeOK
  PROVE  /\ Chains \subseteq Seq(Event)
         /\ \A x \in Chains : \A i \in DOMAIN x : x[i] \in Event /\ x[i].id \in Nat
         /\ made \in Nat
<1>1. Chains \subseteq Seq(Event)
  BY DEF TypeOK, Chains, Content
<1>2. EventIds \subseteq Nat /\ made \in Nat
  BY StoreAssumption DEF EventIds, TypeOK
<1>3. ASSUME NEW e \in Event PROVE e.id \in EventIds
  BY DEF Event
<1>4. \A x \in Chains : \A i \in DOMAIN x : x[i] \in Event
  BY <1>1
<1> QED BY <1>1, <1>2, <1>3, <1>4

(* Loading, saving, giving up and restoring bring no chain that was not    *)
(* there; a change brings one, made of the loaded chain and a new event.   *)
LEMMA NewChains ==
  ASSUME IInv, [Next]_vars
  PROVE  \/ Chains' \subseteq Chains \cup {<<>>} /\ made' = made
         \/ /\ made' = made + 1
            /\ \E x, e : /\ Chains' \subseteq Chains \cup {x}
                         /\ e \in Event /\ e.id = made + 1
                         /\ \/ /\ x = Append(identity.chain, e) /\ identity.chain # <<>>
                               /\ e.kind # "create" /\ e.did = identity.chain[1].did
                            \/ x = <<e>> /\ e.kind = "create" /\ e.did = e.id
<1> DEFINE Same == Chains' \subseteq Chains \cup {<<>>} /\ made' = made
           Built(x, e) == \/ /\ x = Append(identity.chain, e) /\ identity.chain # <<>>
                             /\ e.kind # "create" /\ e.did = identity.chain[1].did
                          \/ x = <<e>> /\ e.kind = "create" /\ e.did = e.id
           Longer == /\ made' = made + 1
                     /\ \E x, e : /\ Chains' \subseteq Chains \cup {x}
                                  /\ e \in Event /\ e.id = made + 1 /\ Built(x, e)
<1>0. TypeOK /\ Working
  BY DEF IInv
<1>1. ASSUME NEW p \in Proc, NEW x, NEW files, NEW events, Begin(p, x, files, events)
      PROVE  Chains' \subseteq Chains \cup {x}
  <2>1. \A q \in Proc : copy'[q] = copy[q] \/ copy'[q] = x
    BY <1>0, <1>1 DEF Begin, TypeOK
  <2> QED BY <1>1, <2>1 DEF Chains, Begin
<1>2. ASSUME NEW p \in Proc, NEW kind \in {"memory", "keys", "attach"}, NEW cid, NEW files,
             LoadIdentity, SignEvent, IF kind = "attach" THEN cid \in Attestations ELSE cid = NoCid,
             Begin(p, Append(identity.chain, FreshEvent(kind, cid)), files, {FreshEvent(kind, cid)})
      PROVE  Longer
  <2> DEFINE e == FreshEvent(kind, cid)
  <2>1. /\ e \in Event /\ e.id = made + 1 /\ e.kind = kind /\ e.did = identity.chain[1].did
        /\ made' = made + 1
    BY <1>2, LoadedChain DEF FreshEvent, SignEvent
  <2>2. identity.chain # <<>>
    BY <1>0, <1>2 DEF LoadIdentity, Working
  <2>3. Begin(p, Append(identity.chain, e), files, {e})
    BY <1>2
  <2> HIDE DEF e
  <2> QED BY <1>1, <2>1, <2>2, <2>3
<1>3. ASSUME NEW p \in Proc, AddMemory(p) PROVE Longer
  BY <1>2, <1>3 DEF AddMemory
<1>4. ASSUME NEW p \in Proc, ChangeKeys(p) PROVE Longer
  BY <1>2, <1>4 DEF ChangeKeys
<1>5. ASSUME NEW p \in Proc, NEW cid \in Attestations, AttachAttestation(p, cid) PROVE Longer
  BY <1>2, <1>5 DEF AttachAttestation
<1>6. ASSUME NEW p \in Proc, CreateIdentity(p) PROVE Longer
  <2> DEFINE e == [id |-> made + 1, kind |-> "create", did |-> made + 1, cid |-> NoCid]
  <2>1. made + 1 \in EventIds /\ made' = made + 1
    BY <1>0, <1>6, StoreAssumption DEF CreateIdentity, SignEvent, EventIds, TypeOK
  <2>2. e \in Event /\ e.id = made + 1 /\ e.kind = "create" /\ e.did = e.id
    BY <2>1 DEF Event
  <2>3. Begin(p, <<e>>, <<IdentityFile>>, {e})
    BY <1>6 DEF CreateIdentity
  <2> HIDE DEF e
  <2> QED BY <1>1, <1>6, <2>1, <2>2, <2>3
<1>7. ASSUME NEW p \in Proc, ImportBackup(p) PROVE Same
  <2>1. backup.chain \in Chains
    BY DEF Chains
  <2> QED BY <1>1, <1>7, <2>1 DEF ImportBackup
<1>8. ASSUME NEW p \in Proc, ExportBackup(p) PROVE Same
  BY <1>8 DEF ExportBackup, Chains
<1>9. ASSUME NEW p \in Proc, OpenFile(p) PROVE Same
  BY <1>9 DEF OpenFile, Chains, Empty
<1>10. ASSUME NEW p \in Proc, WriteFile(p) PROVE Same
  <2>1. /\ identity'.chain \in {identity.chain, copy[p], <<>>} /\ backup' = backup /\ made' = made
        /\ \A q \in Proc : copy'[q] \in {copy[q], <<>>}
    BY <1>0, <1>10 DEF WriteFile, WriteOutcomes, Whole, Torn, Finish, Continue, Return, TypeOK
  <2> QED BY <2>1 DEF Chains
<1>11. ASSUME NEW p \in Proc, Abandon(p) \/ RefuseAttachment(p) PROVE Same
  <2>1. /\ identity'.chain \in {identity.chain, <<>>} /\ backup' = backup /\ made' = made
        /\ \A q \in Proc : copy'[q] \in {copy[q], <<>>}
    BY <1>0, <1>11 DEF Abandon, RefuseAttachment, Torn, Return, TypeOK
  <2> QED BY <2>1 DEF Chains
<1>12. ASSUME Crash PROVE Same
  BY <1>12 DEF Crash, Chains
<1>13. ASSUME UNCHANGED vars PROVE Same
  BY <1>13 DEF vars, Chains
<1> HIDE DEF Same, Built, Longer
<1>14. Same \/ Longer
  BY <1>3, <1>4, <1>5, <1>6, <1>7, <1>8, <1>9, <1>10, <1>11, <1>12, <1>13 DEF Next, Step
<1> QED BY <1>14 DEF Same, Longer, Built

(* The chain with a new event agrees with all that were there.             *)
LEMMA AppendAgrees ==
  ASSUME NEW x \in Seq(Event), NEW e \in Event, NEW y \in Seq(Event),
         Agree(x, y), Agree(y, x), \A j \in DOMAIN y : y[j].id # e.id
  PROVE  Agree(Append(x, e), y) /\ Agree(y, Append(x, e))
<1> DEFINE n == Len(x)
           z == Append(x, e)
<1>1. /\ n \in Nat /\ DOMAIN x = 1 .. n /\ DOMAIN z = 1 .. n + 1 /\ z[n + 1] = e
      /\ \A i \in 1 .. n : z[i] = x[i]
  OBVIOUS
<1>2. DOMAIN y = 1 .. Len(y) /\ Len(y) \in Nat
  OBVIOUS
<1> HIDE DEF n, z
<1>3. ASSUME NEW i \in DOMAIN z, NEW j \in DOMAIN y, z[i].id = y[j].id
      PROVE  i \in DOMAIN x /\ z[i] = x[i] /\ \A k \in 1 .. i : z[k] = x[k]
  <2>1. i # n + 1
    BY <1>1, <1>3
  <2> QED BY <1>1, <2>1
<1>4. Agree(z, y)
  BY <1>3 DEF Agree
<1>5. Agree(y, z)
  <2>1. ASSUME NEW i \in DOMAIN y, NEW j \in DOMAIN z, y[i].id = z[j].id
        PROVE  i = j /\ \A k \in 1 .. i : y[k] = z[k]
    <3>1. j \in DOMAIN x /\ z[j] = x[j] /\ \A k \in 1 .. j : z[k] = x[k]
      BY <1>3, <2>1
    <3> QED BY <2>1, <3>1 DEF Agree
  <2> QED BY <2>1 DEF Agree
<1> QED BY <1>4, <1>5 DEF z

LEMMA AppendAgreesWithItself ==
  ASSUME NEW x \in Seq(Event), NEW e \in Event, Agree(x, x), \A j \in DOMAIN x : x[j].id # e.id
  PROVE  Agree(Append(x, e), Append(x, e))
<1> DEFINE n == Len(x)
           z == Append(x, e)
<1>1. /\ n \in Nat /\ DOMAIN x = 1 .. n /\ DOMAIN z = 1 .. n + 1 /\ z[n + 1] = e
      /\ \A i \in 1 .. n : z[i] = x[i]
  OBVIOUS
<1> HIDE DEF n, z
<1>2. ASSUME NEW i \in DOMAIN z, NEW j \in DOMAIN z, z[i].id = z[j].id PROVE i = j
  <2>1. CASE i = n + 1 /\ j = n + 1
    BY <2>1
  <2>2. CASE i \in DOMAIN x /\ j \in DOMAIN x
    BY <1>1, <1>2, <2>2 DEF Agree
  <2>3. CASE i = n + 1 /\ j \in DOMAIN x
    BY <1>1, <1>2, <2>3
  <2>4. CASE i \in DOMAIN x /\ j = n + 1
    BY <1>1, <1>2, <2>4
  <2> QED BY <1>1, <2>1, <2>2, <2>3, <2>4
<1>3. Agree(z, z)
  BY <1>2 DEF Agree
<1> QED BY <1>3 DEF z

LEMMA AppendKeepsOneIdentity ==
  ASSUME TypeOK, NEW x \in Seq(Event), NEW e \in Event, OneIdentity(x), e.id = made + 1,
         made' = made + 1,
         IF x = <<>> THEN e.kind = "create" /\ e.did = e.id
                     ELSE e.kind # "create" /\ e.did = x[1].did
  PROVE  OneIdentity(Append(x, e))'
<1> DEFINE n == Len(x)
           z == Append(x, e)
<1>1. /\ n \in Nat /\ DOMAIN x = 1 .. n /\ DOMAIN z = 1 .. n + 1 /\ z[n + 1] = e
      /\ \A i \in 1 .. n : z[i] = x[i]
      /\ x = <<>> <=> n = 0
  OBVIOUS
<1>2. made \in Nat /\ \A i \in DOMAIN x : x[i].id \in Nat
  <2>1. EventIds \subseteq Nat /\ made \in Nat
    BY StoreAssumption DEF EventIds, TypeOK
  <2>2. \A i \in DOMAIN x : x[i] \in Event
    OBVIOUS
  <2> QED BY <2>1, <2>2 DEF Event
<1>3. \A i \in DOMAIN x : /\ x[i].did = x[1].id /\ (x[i].kind = "create" <=> i = 1)
                          /\ x[i].id <= made
                          /\ \A j \in DOMAIN x : i < j => x[i].id < x[j].id
  BY DEF OneIdentity
<1> HIDE DEF n, z
<1>4. z[1].id = IF n = 0 THEN e.id ELSE x[1].id
  BY <1>1
<1>5. ASSUME NEW i \in DOMAIN z
      PROVE  /\ z[i].did = z[1].id
             /\ z[i].kind = "create" <=> i = 1
             /\ z[i].id <= made + 1
             /\ \A j \in DOMAIN z : i < j => z[i].id < z[j].id
  <2>1. CASE i \in DOMAIN x
    <3>1. z[i] = x[i] /\ n # 0
      BY <1>1, <2>1
    <3>2. z[i].id <= made + 1 /\ z[i].id < made + 1
      BY <1>2, <1>3, <2>1, <3>1
    <3>3. ASSUME NEW j \in DOMAIN z, i < j PROVE z[i].id < z[j].id
      <4>1. CASE j \in DOMAIN x
        BY <1>1, <1>3, <2>1, <3>1, <3>3, <4>1
      <4>2. CASE j = n + 1
        BY <1>1, <3>2, <4>2
      <4> QED BY <1>1, <4>1, <4>2
    <3> QED BY <1>3, <1>4, <2>1, <3>1, <3>2, <3>3
  <2>2. CASE i = n + 1
    <3>1. z[i] = e /\ (i = 1 <=> n = 0)
      BY <1>1, <2>2
    <3>2. n # 0 => x[1].did = x[1].id
      BY <1>1, <1>3
    <3>3. \A j \in DOMAIN z : ~(i < j)
      BY <1>1, <2>2
    <3>4. z[i].id <= made + 1
      BY <1>2, <3>1
    <3> QED BY <1>1, <1>4, <3>1, <3>2, <3>3, <3>4
  <2> QED BY <1>1, <2>1, <2>2
<1>6. OneIdentity(z)'
  BY <1>5 DEF OneIdentity, z
<1> QED BY <1>6 DEF z

LEMMA InitHInv == Init => HInv
<1> SUFFICES ASSUME Init PROVE HInv
  OBVIOUS
<1>1. Chains \subseteq {<<>>}
  BY DEF Init, Chains, Absent
<1> QED BY <1>1 DEF HInv, SharedHistory, Agree, WellFormed, OneIdentity

LEMMA NextKeepsHInv == IInv /\ HInv /\ [Next]_vars => HInv'
<1> SUFFICES ASSUME IInv, HInv, [Next]_vars PROVE HInv'
  OBVIOUS
<1> USE DEF HInv
<1>1. TypeOK /\ Chains \subseteq Seq(Event) /\ made \in Nat
  BY ChainsTyped DEF IInv
<1>2. \A y : Agree(<<>>, y) /\ Agree(y, <<>>)
  BY DEF Agree
<1>3. OneIdentity(<<>>) /\ OneIdentity(<<>>)'
  BY DEF OneIdentity
<1>4. CASE Chains' \subseteq Chains \cup {<<>>} /\ made' = made
  <2>1. SharedHistory'
    BY <1>2, <1>4 DEF SharedHistory
  <2>2. WellFormed'
    BY <1>3, <1>4 DEF WellFormed, OneIdentity
  <2> QED BY <2>1, <2>2
<1>5. ASSUME NEW x, NEW e \in Event, Chains' \subseteq Chains \cup {x}, made' = made + 1,
             e.id = made + 1,
             \/ /\ x = Append(identity.chain, e) /\ identity.chain # <<>>
                /\ e.kind # "create" /\ e.did = identity.chain[1].did
             \/ x = <<e>> /\ e.kind = "create" /\ e.did = e.id
      PROVE  HInv'
  <2>1. PICK w \in Chains \cup {<<>>} :
           /\ x = Append(w, e) /\ w \in Seq(Event)
           /\ IF w = <<>> THEN e.kind = "create" /\ e.did = e.id
                          ELSE e.kind # "create" /\ e.did = w[1].did
    <3>1. <<e>> = Append(<<>>, e) /\ <<>> \in Seq(Event)
      OBVIOUS
    <3>2. identity.chain \in Chains
      BY DEF Chains
    <3> QED BY <1>1, <1>5, <3>1, <3>2
  <2>2. \A y \in Chains : \A j \in DOMAIN y : y[j].id # e.id
    BY <1>1, <1>5, ChainsTyped DEF WellFormed, OneIdentity
  <2>3. \A y \in Chains : Agree(w, y) /\ Agree(y, w)
    BY <1>2, <2>1 DEF SharedHistory
  <2>4. \A y \in Chains : Agree(x, y) /\ Agree(y, x)
    BY <1>1, <2>1, <2>2, <2>3, AppendAgrees
  <2>5. Agree(x, x)
    <3>1. Agree(w, w) /\ \A j \in DOMAIN w : w[j].id # e.id
      BY <1>2, <2>1, <2>2, <2>3
    <3> QED BY <2>1, <3>1, AppendAgreesWithItself
  <2>6. SharedHistory'
    BY <1>5, <2>4, <2>5 DEF SharedHistory
  <2>7. OneIdentity(x)'
    <3>1. OneIdentity(w)
      BY <1>3, <2>1 DEF WellFormed
    <3> QED BY <1>1, <1>5, <2>1, <3>1, AppendKeepsOneIdentity
  <2>8. ASSUME NEW y \in Chains PROVE OneIdentity(y)'
    <3>1. \A i \in DOMAIN y : y[i].id \in Nat
      BY <1>1, ChainsTyped
    <3>2. \A k \in Nat : k <= made => k <= made'
      BY <1>1, <1>5
    <3>3. OneIdentity(y)
      BY DEF WellFormed
    <3> QED BY <3>1, <3>2, <3>3 DEF OneIdentity
  <2> QED BY <1>5, <2>6, <2>7, <2>8 DEF WellFormed
<1> QED BY <1>4, <1>5, NewChains

(* Whatever callers overlap, lose or interrupt, no chain in the file, in   *)
(* the backup or in a handler mixes identities: it starts with the event   *)
(* that created the identity, and its events are in the order of signing.  *)
THEOREM ChainsAreWellFormed == Spec => []WellFormed
<1>1. HInv => WellFormed
  BY DEF HInv
<1> QED BY <1>1, InitIInv, NextKeepsIInv, InitHInv, NextKeepsHInv, PTL DEF Spec

(* Overlapping callers fork a chain, and forks never merge: two chains that*)
(* hold the same event are the same chain up to it (AddMemory and the other*)
(* handlers append to the chain they loaded and save it whole).            *)
THEOREM ForksNeverMerge == Spec => []SharedHistory
<1>1. HInv => SharedHistory
  BY DEF HInv
<1> QED BY <1>1, InitIInv, NextKeepsIInv, InitHInv, NextKeepsHInv, PTL DEF Spec

-----------------------------------------------------------------------------
(* One caller.  Until a handler truncates the file, the chain it will save *)
(* is one change away from what the file holds; from then on the file is   *)
(* empty until it is written, or until the handler fails: then there is no *)
(* chain in it.                                                            *)

Alone(c) == Proc = {c}

SavingNow(c) == pc[c] = "write" /\ Current(c) = IdentityFile

Pending(c) ==
    \/ todo[c] = <<IdentityFile>>
    \/ \E cid \in Attestations : todo[c] = AttachFiles(cid)
    \/ \E e \in Event : todo[c] = MemoryFiles(e)

OneAhead(chain) ==
    \/ identity.chain # <<>> /\ \E e \in Event : chain = Append(identity.chain, e)
    \/ \E e \in Event : chain = <<e>>
    \/ backup.chain # <<>> /\ chain = backup.chain

SInv(c) ==
    /\ SavingNow(c) => identity = Empty
    /\ ~SavingNow(c) => \/ identity.state = "whole"
                        \/ identity = Absent /\ returned = {}
                        \/ identity \in {Absent, Empty, Torn} /\ faults > 0
    /\ pc[c] # "idle" /\ Current(c) # IdentityFile => identity.state = "whole"
    /\ pc[c] # "idle" /\ Pending(c) /\ ~SavingNow(c) => OneAhead(copy[c])

LEMMA PendingCurrent ==
  ASSUME NEW c \in Proc, Plan(c), pc[c] # "idle", Current(c) = IdentityFile
  PROVE  Pending(c)
<1>1. ASSUME NEW e \in Event, AddsMemory(c, e)
      PROVE  todo[c] = MemoryFiles(e)
  <2>1. ObjectFile(e) # IdentityFile /\ ManifestFile(e) # IdentityFile
    BY DEF ObjectFile, ManifestFile, IdentityFile
  <2> QED BY <1>1, <2>1 DEF AddsMemory, Current
<1> QED BY <1>1 DEF Plan, Idle, NoMemory, Pending

LEMMA HeadOfPlans ==
  /\ Head(<<IdentityFile>>) = IdentityFile
  /\ \A cid : Head(AttachFiles(cid)) = AttestationFile(cid)
  /\ \A e : Head(MemoryFiles(e)) = IdentityFile
  BY DEF AttachFiles, MemoryFiles

(* After the identity file nothing is pending; before it, only that file.  *)
LEMMA PendingTail ==
  ASSUME NEW c \in Proc, Plan(c), pc[c] # "idle", Len(todo[c]) # 1, todo'[c] = Tail(todo[c])
  PROVE  /\ Current(c) = IdentityFile => ~Pending(c)' /\ Head(todo'[c]) # IdentityFile
         /\ Current(c) # IdentityFile => (Pending(c)' => Pending(c))
<1>1. CASE \E cid \in Attestations : todo[c] = AttachFiles(cid)
  <2>1. Current(c) # IdentityFile
    BY <1>1 DEF AttachFiles, AttestationFile, IdentityFile, Current
  <2> QED BY <1>1, <2>1 DEF Pending
<1>2. CASE todo[c] = <<IdentityFile>>
  BY <1>2, TailOfAttach
<1>3. ASSUME NEW e \in Event, AddsMemory(c, e)
      PROVE  ~Pending(c)' /\ Head(todo'[c]) # IdentityFile
  <2>1. /\ ObjectFile(e) # IdentityFile /\ ManifestFile(e) # IdentityFile
        /\ \A cid : ObjectFile(e) # AttestationFile(cid) /\ ManifestFile(e) # AttestationFile(cid)
    BY DEF ObjectFile, ManifestFile, IdentityFile, AttestationFile
  <2>2. \/ todo'[c] = <<ObjectFile(e), ManifestFile(e)>>
        \/ todo'[c] = <<ManifestFile(e)>>
    BY <1>3, TailOfMemory DEF AddsMemory
  <2>3. Head(todo'[c]) = ObjectFile(e) \/ Head(todo'[c]) = ManifestFile(e)
    BY <2>2, TailOfMemory
  <2>4. Pending(c)' => Head(todo'[c]) = IdentityFile \/ \E cid : Head(todo'[c]) = AttestationFile(cid)
    BY HeadOfPlans DEF Pending
  <2> QED BY <2>1, <2>3, <2>4
<1> QED BY <1>1, <1>2, <1>3 DEF Plan, Idle, NoMemory

LEMMA InitSInv ==
  ASSUME NEW c, Alone(c), Init
  PROVE  SInv(c)
BY DEF Alone, Init, SInv, SavingNow, Absent

LEMMA BeginKeepsSInv ==
  ASSUME NEW c, Alone(c), TypeOK, SInv(c), NEW chain, NEW files, NEW events,
         Begin(c, chain, files, events), OneAhead(chain),
         identity.state = "whole" \/ Head(files) = IdentityFile
  PROVE  SInv(c)'
<1>1. /\ UNCHANGED <<identity, backup, returned, faults>>
      /\ pc[c] = "idle" /\ pc'[c] = "open" /\ copy'[c] = chain /\ todo'[c] = files
  BY DEF Begin, TypeOK, Alone
<1>2. ~SavingNow(c) /\ ~SavingNow(c)'
  BY <1>1 DEF SavingNow
<1>3. OneAhead(copy[c])'
  BY <1>1 DEF OneAhead
<1> QED BY <1>1, <1>2, <1>3 DEF SInv, Current

LEMMA OpenKeepsSInv ==
  ASSUME NEW c, Alone(c), TypeOK, SInv(c), OpenFile(c)
  PROVE  SInv(c)'
<1>1. /\ pc[c] = "open" /\ pc'[c] = "write" /\ UNCHANGED <<backup, returned, todo, copy, faults>>
      /\ Current(c) = IdentityFile => identity' = Empty
      /\ Current(c) # IdentityFile => identity' = identity
      /\ Current(c)' = Current(c)
  BY DEF OpenFile, TypeOK, Alone, Current
<1>2. ~SavingNow(c) /\ (SavingNow(c)' <=> Current(c) = IdentityFile)
  BY <1>1 DEF SavingNow
<1>3. CASE Current(c) = IdentityFile
  BY <1>1, <1>2, <1>3 DEF SInv
<1>4. CASE Current(c) # IdentityFile
  <2>1. OneAhead(copy[c]) => OneAhead(copy[c])'
    BY <1>1, <1>4 DEF OneAhead
  <2>2. Pending(c)' <=> Pending(c)
    BY <1>1 DEF Pending
  <2> QED BY <1>1, <1>2, <1>4, <2>1, <2>2 DEF SInv
<1> QED BY <1>3, <1>4

(* Over an empty file a write leaves its chain.                            *)
LEMMA WriteKeepsSInv ==
  ASSUME NEW c, Alone(c), TypeOK, Plan(c), SInv(c), WriteFile(c)
  PROVE  SInv(c)' /\ ~SavingNow(c)' /\ (SavingNow(c) => identity' = Whole(copy[c]))
<1>1. /\ pc[c] = "write" /\ c \in Proc /\ backup' = backup /\ pc'[c] # "write"
      /\ Current(c) # IdentityFile => identity' = identity
      /\ \/ pc'[c] = "idle"
         \/ /\ returned' = returned /\ copy' = copy
            /\ todo'[c] = Tail(todo[c]) /\ Len(todo[c]) # 1
  <2>1. \A n : n > 1 => n # 1
    OBVIOUS
  <2> QED BY <2>1 DEF WriteFile, Finish, Return, Continue, TypeOK, Alone
<1>2. ~SavingNow(c)'
  BY <1>1 DEF SavingNow
<1>3. SavingNow(c) => identity' = Whole(copy[c])
  BY DEF SInv, WriteFile, WriteOutcomes, SavingNow
<1>4. identity'.state = "whole"
  <2>1. CASE SavingNow(c)
    BY <1>3, <2>1 DEF Whole
  <2>2. CASE ~SavingNow(c)
    BY <1>1, <2>2 DEF SInv, SavingNow
  <2> QED BY <2>1, <2>2
<1>5. pc'[c] # "idle" /\ Pending(c)' => OneAhead(copy[c])'
  <2> SUFFICES ASSUME pc'[c] # "idle", Pending(c)' PROVE OneAhead(copy[c])'
    OBVIOUS
  <2>1. Current(c) # IdentityFile /\ Pending(c)
    BY <1>1, PendingTail
  <2>2. OneAhead(copy[c])
    BY <1>1, <2>1 DEF SInv, SavingNow
  <2> QED BY <1>1, <2>1, <2>2 DEF OneAhead
<1> QED BY <1>1, <1>2, <1>3, <1>4, <1>5 DEF SInv

(* Loading handlers, CreateIdentity and ImportBackup start one change      *)
(* ahead.                                                                  *)
LEMMA BeginsOneAhead ==
  ASSUME NEW c, Alone(c), IInv, SInv(c),
         \/ AddMemory(c) \/ ChangeKeys(c) \/ CreateIdentity(c) \/ ImportBackup(c)
         \/ \E cid \in Attestations : AttachAttestation(c, cid)
  PROVE  SInv(c)' /\ UNCHANGED <<identity, backup, faults>> /\ pc[c] = "idle" /\ pc'[c] = "open"
<1>1. TypeOK /\ c \in Proc
  BY DEF IInv, Alone
<1>2. \E chain, files, events :
        /\ Begin(c, chain, files, events) /\ OneAhead(chain)
        /\ identity.state = "whole" \/ Head(files) = IdentityFile
  <2>1. ASSUME NEW kind \in {"memory", "keys", "attach"}, NEW cid, LoadIdentity, SignEvent,
               IF kind = "attach" THEN cid \in Attestations ELSE cid = NoCid
        PROVE  OneAhead(Append(identity.chain, FreshEvent(kind, cid)))
    <3>1. FreshEvent(kind, cid) \in Event
      BY <2>1, LoadedChain
    <3>2. identity.chain # <<>>
      BY <2>1 DEF IInv, Working, LoadIdentity
    <3> QED BY <3>1, <3>2 DEF OneAhead
  <2>2. ASSUME AddMemory(c) PROVE <1>2
    <3>1. OneAhead(Append(identity.chain, FreshEvent("memory", NoCid)))
      BY <2>1, <2>2 DEF AddMemory
    <3> QED BY <2>2, <3>1 DEF AddMemory, LoadIdentity
  <2>3. ASSUME ChangeKeys(c) PROVE <1>2
    <3>1. OneAhead(Append(identity.chain, FreshEvent("keys", NoCid)))
      BY <2>1, <2>3 DEF ChangeKeys
    <3> QED BY <2>3, <3>1 DEF ChangeKeys, LoadIdentity
  <2>4. ASSUME NEW cid \in Attestations, AttachAttestation(c, cid) PROVE <1>2
    <3>1. OneAhead(Append(identity.chain, FreshEvent("attach", cid)))
      BY <2>1, <2>4 DEF AttachAttestation
    <3> QED BY <2>4, <3>1 DEF AttachAttestation, LoadIdentity
  <2>5. ASSUME CreateIdentity(c) PROVE <1>2
    <3> DEFINE e == [id |-> made + 1, kind |-> "create", did |-> made + 1, cid |-> NoCid]
    <3>1. made + 1 \in EventIds
      BY <1>1, <2>5, StoreAssumption DEF CreateIdentity, SignEvent, EventIds, TypeOK
    <3>2. e \in Event
      BY <3>1 DEF Event
    <3>3. Begin(c, <<e>>, <<IdentityFile>>, {e})
      BY <2>5 DEF CreateIdentity
    <3>4. OneAhead(<<e>>)
      BY <3>2 DEF OneAhead
    <3>5. Head(<<IdentityFile>>) = IdentityFile
      OBVIOUS
    <3> HIDE DEF e
    <3> QED BY <3>3, <3>4, <3>5
  <2>6. ASSUME ImportBackup(c) PROVE <1>2
    <3>1. OneAhead(backup.chain)
      BY <2>6 DEF ImportBackup, IInv, Working, OneAhead
    <3>2. Begin(c, backup.chain, <<IdentityFile>>, {})
      BY <2>6 DEF ImportBackup
    <3>3. Head(<<IdentityFile>>) = IdentityFile
      OBVIOUS
    <3> QED BY <3>1, <3>2, <3>3
  <2> QED BY <2>2, <2>3, <2>4, <2>5, <2>6
<1>3. PICK chain, files, events :
        /\ Begin(c, chain, files, events) /\ OneAhead(chain)
        /\ identity.state = "whole" \/ Head(files) = IdentityFile
  BY <1>2
<1>4. SInv(c)'
  BY <1>1, <1>3, BeginKeepsSInv
<1> QED BY <1>1, <1>3, <1>4 DEF Begin, TypeOK

LEMMA ExportKeepsSInv ==
  ASSUME NEW c, Alone(c), IInv, SInv(c), ExportBackup(c)
  PROVE  /\ SInv(c)' /\ UNCHANGED <<identity, pc, copy, todo, faults>> /\ ~SavingNow(c)
         /\ identity.chain # <<>> \/ faults > 0
         /\ backup' = identity
<1>1. UNCHANGED <<identity, pc, copy, todo, returned, faults>> /\ pc[c] = "idle"
      /\ backup' = identity /\ identity.state # "absent"
  BY DEF ExportBackup
<1>2. ~SavingNow(c) /\ ~SavingNow(c)'
  BY <1>1 DEF SavingNow
<1>3. identity.state = "whole" \/ faults > 0
  BY <1>1, <1>2 DEF SInv, Absent
<1>4. identity.chain # <<>> \/ faults > 0
  BY <1>3 DEF IInv, Working
<1>5. SInv(c)'
  BY <1>1, <1>2 DEF SInv
<1> QED BY <1>1, <1>2, <1>4, <1>5

(* A handler that fails while it saves leaves no chain; one that fails     *)
(* before or after leaves the one that was there.                          *)
LEMMA FailKeepsSInv ==
  ASSUME NEW c, Alone(c), TypeOK, SInv(c), Abandon(c) \/ Crash
  PROVE  /\ SInv(c)' /\ ~SavingNow(c)' /\ backup' = backup
         /\ IF SavingNow(c) THEN identity'.chain = <<>> ELSE identity' = identity
         /\ faults < MaxFaults /\ faults' = faults + 1
<1>1. /\ pc'[c] = "idle" /\ UNCHANGED <<returned, backup>>
      /\ faults < MaxFaults /\ faults' = faults + 1
      /\ identity' = identity \/ (SavingNow(c) /\ identity' = Torn)
  BY DEF Abandon, Crash, Return, TypeOK, Alone, SavingNow
<1>2. faults' > 0
  BY <1>1 DEF TypeOK
<1>3. ~SavingNow(c)'
  BY <1>1 DEF SavingNow
<1>4. SavingNow(c) => identity' \in {Empty, Torn}
  BY <1>1 DEF SInv
<1>5. ~SavingNow(c) => identity' = identity
  BY <1>1
<1>6. SInv(c)'
  <2>1. CASE SavingNow(c)
    BY <1>1, <1>2, <1>3, <1>4, <2>1 DEF SInv
  <2>2. CASE ~SavingNow(c)
    <3>1. \/ identity.state = "whole"
          \/ identity = Absent
          \/ identity \in {Absent, Empty, Torn}
      BY <2>2 DEF SInv
    <3>2. identity'.state = "whole" \/ identity' \in {Absent, Empty, Torn}
      BY <1>5, <2>2, <3>1
    <3> QED BY <1>1, <1>2, <1>3, <3>2 DEF SInv
  <2> QED BY <2>1, <2>2
<1>7. SavingNow(c) => identity'.chain = <<>>
  BY <1>4 DEF Empty, Torn
<1> QED BY <1>1, <1>3, <1>5, <1>6, <1>7

LEMMA RefusalKeepsSInv ==
  ASSUME NEW c, Alone(c), TypeOK, SInv(c), RefuseAttachment(c)
  PROVE  SInv(c)' /\ ~SavingNow(c) /\ ~SavingNow(c)' /\ UNCHANGED <<identity, backup, faults>>
<1>1. /\ UNCHANGED <<identity, returned, backup, faults>>
      /\ pc[c] = "open" /\ pc'[c] = "idle"
  BY DEF RefuseAttachment, Return, TypeOK, Alone
<1>2. ~SavingNow(c) /\ ~SavingNow(c)'
  BY <1>1 DEF SavingNow
<1> QED BY <1>1, <1>2 DEF SInv

LEMMA NextKeepsSInv ==
  ASSUME NEW c, Alone(c)
  PROVE  IInv /\ MInv /\ SInv(c) /\ [Next]_vars => SInv(c)'
<1> SUFFICES ASSUME IInv, MInv, SInv(c), [Next]_vars PROVE SInv(c)'
  OBVIOUS
<1>1. CASE UNCHANGED vars
  BY <1>1 DEF vars, SInv, SavingNow, Pending, OneAhead, Current
<1>2. CASE Step(c) \/ Crash
  <2>1. TypeOK /\ Plan(c)
    BY DEF IInv, MInv, Alone
  <2> QED BY <1>2, <2>1, BeginsOneAhead, ExportKeepsSInv, OpenKeepsSInv, WriteKeepsSInv,
             FailKeepsSInv, RefusalKeepsSInv DEF Step
<1> QED BY <1>1, <1>2 DEF Next, Alone

(* One caller: short of a fault the identity file loads whenever no handler*)
(* is at work and one has returned (SaveIdentity, storage.go 47-54).       *)
THEOREM OneCallerReadsTheFile ==
  ASSUME NEW c, Proc = {c}
  PROVE  Spec => []ReadableAtRest
<1>1. Alone(c)
  BY DEF Alone
<1>2. SInv(c) => ReadableAtRest
  BY <1>1 DEF SInv, SavingNow, ReadableAtRest, AtRest, Alone
<1>3. (Init => SInv(c)) /\ (IInv /\ MInv /\ SInv(c) /\ [Next]_vars => SInv(c)')
  BY <1>1, InitSInv, NextKeepsSInv
<1> QED BY <1>2, <1>3, InitIInv, NextKeepsIInv, InitMInv, NextKeepsMInv, PTL DEF Spec

-----------------------------------------------------------------------------
(* One caller: nothing that was acknowledged is lost, whatever fails.  A   *)
(* handler that made an event saves it with all that was expected before; a*)
(* restore replaces what is expected of its identity; a handler that failed*)
(* leaves a file that is as it was, as it would have saved it, or no file  *)
(* that loads.                                                             *)

Keeps(chain) == \A e \in expected : e.did = chain[1].did => e \in Events(chain)

LInv(c) ==
    /\ \A e \in expected : e.did \in 1 .. made
    /\ ~SavingNow(c) /\ identity.state = "whole" => Keeps(identity.chain)
    /\ pc[c] # "idle" /\ change[c] = {} => todo[c] = <<IdentityFile>>
    /\ pc[c] # "idle" /\ change[c] # {} => Keeps(copy[c]) /\ change[c] \subseteq Events(copy[c])
    /\ pc[c] # "idle" /\ ~Pending(c) => identity.chain = copy[c]

LEMMA InitLInv ==
  ASSUME NEW c, Alone(c), Init
  PROVE  LInv(c)
BY DEF Alone, Init, LInv, SavingNow, Absent

LEMMA EventsOfAppend ==
  ASSUME NEW chain \in Seq(Event), NEW e \in Event
  PROVE  Events(Append(chain, e)) \subseteq Events(chain) \cup {e}
<1> DEFINE longer == Append(chain, e)
<1>1. /\ DOMAIN longer = 1 .. Len(chain) + 1 /\ DOMAIN chain = 1 .. Len(chain)
      /\ longer[Len(chain) + 1] = e /\ \A i \in 1 .. Len(chain) : longer[i] = chain[i]
  OBVIOUS
<1> HIDE DEF longer
<1>2. ASSUME NEW i \in DOMAIN longer PROVE longer[i] \in Events(chain) \cup {e}
  <2>1. CASE i = Len(chain) + 1
    BY <1>1, <2>1
  <2>2. CASE i \in DOMAIN chain
    BY <1>1, <2>2 DEF Events
  <2> QED BY <1>1, <2>1, <2>2
<1>3. Events(longer) \subseteq Events(chain) \cup {e}
  BY <1>2 DEF Events
<1> QED BY <1>3 DEF longer

LEMMA AppendedEvents ==
  ASSUME NEW chain \in Seq(Event), NEW e \in Event
  PROVE  Events(Append(chain, e)) = Events(chain) \cup {e}
<1> DEFINE longer == Append(chain, e)
<1>1. /\ DOMAIN longer = 1 .. Len(chain) + 1 /\ DOMAIN chain = 1 .. Len(chain)
      /\ longer[Len(chain) + 1] = e /\ \A i \in 1 .. Len(chain) : longer[i] = chain[i]
      /\ Len(chain) \in Nat
  OBVIOUS
<1> HIDE DEF longer
<1>2. \A i \in DOMAIN chain : i \in DOMAIN longer
  BY <1>1
<1>3. Len(chain) + 1 \in DOMAIN longer
  BY <1>1
<1>4. Events(chain) \cup {e} \subseteq Events(longer)
  BY <1>1, <1>2, <1>3 DEF Events
<1> QED BY <1>4, EventsOfAppend DEF longer

(* The dids of the chains that are about were signed.                      *)
LEMMA DidsMade ==
  ASSUME TypeOK, HInv, NEW x \in Chains
  PROVE  \A e \in Events(x) : e.did \in 1 .. made /\ e.did = x[1].did
<1>1. ASSUME NEW i \in DOMAIN x PROVE x[i].did \in 1 .. made /\ x[i].did = x[1].did
  <2>1. x \in Seq(Event) /\ x[i] \in Event
    BY ChainsTyped
  <2>2. 1 \in DOMAIN x
    BY <1>1, <2>1
  <2>3. x[i].did = x[1].id /\ x[1].did = x[1].id /\ x[1].id <= made
    BY <2>2 DEF HInv, WellFormed, OneIdentity
  <2>4. x[1].id \in EventIds
    BY <2>1, <2>2 DEF Event
  <2> QED BY <2>3, <2>4, StoreAssumption DEF EventIds, TypeOK
<1> QED BY <1>1 DEF Events

LEMMA BeginKeepsLInv ==
  ASSUME NEW c, Alone(c), IInv, HInv, LInv(c),
         \/ AddMemory(c) \/ ChangeKeys(c) \/ CreateIdentity(c) \/ ImportBackup(c)
         \/ \E cid \in Attestations : AttachAttestation(c, cid)
  PROVE  LInv(c)'
<1>1. TypeOK /\ c \in Proc /\ made \in Nat
  BY StoreAssumption DEF IInv, Alone, TypeOK
<1>2. ASSUME NEW chain, NEW files, NEW events, Begin(c, chain, files, events),
             made' \in {made, made + 1},
             files = <<IdentityFile>> \/ (\E cid \in Attestations : files = AttachFiles(cid))
               \/ (\E e \in Event : files = MemoryFiles(e)),
             events = {} => files = <<IdentityFile>>,
             events # {} => Keeps(chain) /\ events \subseteq Events(chain)
      PROVE  LInv(c)'
  <2>1. /\ UNCHANGED <<identity, expected>>
        /\ pc[c] = "idle" /\ pc'[c] = "open" /\ copy'[c] = chain
        /\ todo'[c] = files /\ change'[c] = events
    BY <1>1, <1>2 DEF Begin, TypeOK
  <2>2. ~SavingNow(c) /\ Pending(c)'
    BY <1>2, <2>1 DEF SavingNow, Pending
  <2>3. \A e \in expected' : e.did \in 1 .. made'
    BY <1>1, <1>2, <2>1 DEF LInv
  <2>4. identity'.state = "whole" => Keeps(identity.chain)'
    BY <2>1, <2>2 DEF LInv, Keeps
  <2>5. change'[c] # {} => Keeps(copy[c])' /\ change'[c] \subseteq Events(copy'[c])
    BY <1>2, <2>1 DEF Keeps
  <2> QED BY <1>2, <2>1, <2>2, <2>3, <2>4, <2>5 DEF LInv
<1>3. ASSUME NEW kind \in {"memory", "keys", "attach"}, NEW cid, LoadIdentity, SignEvent, pc[c] = "idle",
             IF kind = "attach" THEN cid \in Attestations ELSE cid = NoCid
      PROVE  LET e == FreshEvent(kind, cid)
             IN  /\ e \in Event /\ Keeps(Append(identity.chain, e))
                 /\ {e} \subseteq Events(Append(identity.chain, e))
  <2> DEFINE e == FreshEvent(kind, cid)
  <2>1. e \in Event /\ identity.chain \in Seq(Event) /\ identity.chain # <<>>
    BY <1>1, <1>3, LoadedChain DEF IInv, Working, LoadIdentity, TypeOK, Content
  <2> HIDE DEF e
  <2>2. Append(identity.chain, e)[1] = identity.chain[1]
    BY <2>1
  <2>3. Keeps(identity.chain)
    BY <1>3 DEF LInv, SavingNow, LoadIdentity
  <2>4. Keeps(Append(identity.chain, e)) /\ {e} \subseteq Events(Append(identity.chain, e))
    BY <2>1, <2>2, <2>3, AppendedEvents DEF Keeps
  <2> QED BY <2>1, <2>4 DEF e
<1>4. CASE AddMemory(c)
  <2> DEFINE e == FreshEvent("memory", NoCid)
  <2>1. /\ e \in Event /\ Keeps(Append(identity.chain, e)) /\ {e} \subseteq Events(Append(identity.chain, e))
        /\ Begin(c, Append(identity.chain, e), MemoryFiles(e), {e}) /\ made' = made + 1
    BY <1>3, <1>4 DEF AddMemory, Begin, SignEvent
  <2> HIDE DEF e
  <2> QED BY <1>2, <2>1
<1>5. CASE ChangeKeys(c)
  <2> DEFINE e == FreshEvent("keys", NoCid)
  <2>1. /\ e \in Event /\ Keeps(Append(identity.chain, e)) /\ {e} \subseteq Events(Append(identity.chain, e))
        /\ Begin(c, Append(identity.chain, e), <<IdentityFile>>, {e}) /\ made' = made + 1
    BY <1>3, <1>5 DEF ChangeKeys, Begin, SignEvent
  <2> HIDE DEF e
  <2> QED BY <1>2, <2>1
<1>6. ASSUME NEW cid \in Attestations, AttachAttestation(c, cid) PROVE LInv(c)'
  <2> DEFINE e == FreshEvent("attach", cid)
  <2>1. /\ e \in Event /\ Keeps(Append(identity.chain, e)) /\ {e} \subseteq Events(Append(identity.chain, e))
        /\ Begin(c, Append(identity.chain, e), AttachFiles(cid), {e}) /\ made' = made + 1
    BY <1>3, <1>6 DEF AttachAttestation, Begin, SignEvent
  <2> HIDE DEF e
  <2> QED BY <1>2, <2>1
<1>7. CASE CreateIdentity(c)
  <2> DEFINE e == [id |-> made + 1, kind |-> "create", did |-> made + 1, cid |-> NoCid]
  <2>1. Begin(c, <<e>>, <<IdentityFile>>, {e}) /\ made' = made + 1 /\ e.did = made + 1
    BY <1>7 DEF CreateIdentity, SignEvent
  <2> HIDE DEF e
  <2>2. <<e>>[1] = e /\ {e} \subseteq Events(<<e>>)
    BY DEF Events
  <2>3. Keeps(<<e>>)
    BY <1>1, <2>1, <2>2 DEF LInv, Keeps
  <2> QED BY <1>2, <2>1, <2>2, <2>3
<1>8. CASE ImportBackup(c)
  <2>1. Begin(c, backup.chain, <<IdentityFile>>, {}) /\ made' = made
    BY <1>8 DEF ImportBackup
  <2> QED BY <1>2, <2>1
<1> QED BY <1>4, <1>5, <1>6, <1>7, <1>8

LEMMA OpenKeepsLInv ==
  ASSUME NEW c, Alone(c), TypeOK, Plan(c), LInv(c), OpenFile(c)
  PROVE  LInv(c)'
<1>1. /\ pc[c] = "open" /\ pc'[c] = "write" /\ UNCHANGED <<todo, copy, change, expected, made>>
      /\ Current(c) = IdentityFile => identity' = Empty
      /\ Current(c) # IdentityFile => identity' = identity
      /\ Current(c)' = Current(c)
  BY DEF OpenFile, TypeOK, Alone, Current
<1>2. ~SavingNow(c) /\ (SavingNow(c)' <=> Current(c) = IdentityFile)
  BY <1>1 DEF SavingNow
<1>3. Pending(c)' <=> Pending(c)
  BY <1>1 DEF Pending
<1>4. Current(c) = IdentityFile => Pending(c)
  BY <1>1, PendingCurrent DEF Alone
<1>5. Keeps(copy[c])' <=> Keeps(copy[c])
  BY <1>1 DEF Keeps
<1>6. Current(c) # IdentityFile => (Keeps(identity.chain)' <=> Keeps(identity.chain))
  BY <1>1 DEF Keeps
<1>7. Current(c) = IdentityFile => identity'.state # "whole"
  BY <1>1 DEF Empty
<1> QED BY <1>1, <1>2, <1>3, <1>4, <1>5, <1>6, <1>7 DEF LInv

(* A file before the identity file leaves it pending.                      *)
LEMMA AttachmentBefore ==
  ASSUME NEW c \in Proc, Plan(c), pc[c] # "idle", Pending(c), Current(c) # IdentityFile,
         todo'[c] = Tail(todo[c])
  PROVE  Pending(c)'
<1>1. PICK cid \in Attestations : todo[c] = AttachFiles(cid)
  BY HeadOfPlans DEF Pending, Current
<1>2. Tail(AttachFiles(cid)) = <<IdentityFile>>
  BY DEF AttachFiles
<1> QED BY <1>1, <1>2 DEF Pending

LEMMA WriteKeepsLInv ==
  ASSUME NEW c, Alone(c), IInv, HInv, Plan(c), SInv(c), LInv(c), WriteFile(c)
  PROVE  LInv(c)'
<1>1. TypeOK /\ c \in Proc /\ copy[c] \in Chains /\ identity.chain \in Chains
  BY DEF IInv, Alone, Chains
<1>2. /\ pc[c] = "write" /\ made' = made
      /\ Current(c) # IdentityFile => identity' = identity
  BY DEF WriteFile
<1>3. ~SavingNow(c)' /\ (SavingNow(c) => identity' = Whole(copy[c]))
  BY <1>1, WriteKeepsSInv
<1>4. SavingNow(c) <=> Current(c) = IdentityFile
  BY <1>2 DEF SavingNow
<1>5. CASE Continue(c)
  <2>1. /\ pc'[c] = "open" /\ todo'[c] = Tail(todo[c]) /\ Len(todo[c]) > 1
        /\ UNCHANGED <<copy, change, expected>>
    BY <1>1, <1>5 DEF Continue, TypeOK
  <2>2. change[c] # {}
    <3>1. Len(<<IdentityFile>>) = 1
      OBVIOUS
    <3>2. \A n : n > 1 => n # 1
      OBVIOUS
    <3> QED BY <1>2, <2>1, <3>1, <3>2 DEF LInv
  <2>3. Keeps(copy[c])' /\ change'[c] \subseteq Events(copy'[c])
    BY <1>2, <2>1, <2>2 DEF LInv, Keeps
  <2>4. CASE Current(c) = IdentityFile
    <3>1. identity' = Whole(copy[c]) /\ identity'.chain = copy'[c]
      BY <1>3, <1>4, <2>1, <2>4 DEF Whole
    <3>2. Keeps(identity.chain)'
      BY <2>3, <3>1 DEF Keeps
    <3> QED BY <1>2, <1>3, <2>1, <2>2, <2>3, <3>1, <3>2 DEF LInv, Whole
  <2>5. CASE Current(c) # IdentityFile
    <3>1. identity' = identity /\ ~SavingNow(c)
      BY <1>2, <1>4, <2>5
    <3>2. Pending(c) => Pending(c)'
      BY <1>1, <1>2, <2>1, <2>5, AttachmentBefore
    <3>3. identity'.state = "whole" => Keeps(identity.chain)'
      BY <2>1, <3>1 DEF LInv, Keeps
    <3> QED BY <1>2, <1>3, <2>1, <2>2, <2>3, <3>1, <3>2, <3>3 DEF LInv
  <2> QED BY <2>4, <2>5
<1>6. CASE Finish(c)
  <2>1. /\ pc'[c] = "idle" /\ Len(todo[c]) = 1
        /\ expected' = IF change[c] # {} THEN expected \cup change[c]
                       ELSE {e \in expected : e.did # copy[c][1].did} \cup Events(copy[c])
    BY <1>1, <1>6 DEF Finish, Return, Acknowledge, TypeOK
  <2>2. identity'.state = "whole" /\ identity'.chain = copy[c]
    <3>1. CASE Current(c) = IdentityFile
      BY <1>3, <1>4, <3>1 DEF Whole
    <3>2. CASE Current(c) # IdentityFile
      <4>1. identity' = identity /\ identity.state = "whole"
        BY <1>2, <3>2 DEF SInv
      <4>2. ~Pending(c)
        <5>1. \A e : Len(MemoryFiles(e)) = 3
          BY DEF MemoryFiles
        <5>2. \A cid : Len(AttachFiles(cid)) = 2
          BY DEF AttachFiles
        <5>3. Head(<<IdentityFile>>) = IdentityFile
          OBVIOUS
        <5>4. 3 # 1 /\ 2 # 1
          OBVIOUS
        <5> QED BY <2>1, <3>2, <5>1, <5>2, <5>3, <5>4 DEF Pending, Current
      <4> QED BY <1>2, <4>1, <4>2 DEF LInv
    <3> QED BY <3>1, <3>2
  <2>3. \A e \in Events(copy[c]) : e.did \in 1 .. made /\ e.did = copy[c][1].did
    BY <1>1, DidsMade
  <2>4. CASE change[c] # {}
    <3>1. expected' = expected \cup change[c]
      BY <2>1, <2>4
    <3>2. Keeps(copy[c]) /\ change[c] \subseteq Events(copy[c])
      BY <1>2, <2>4 DEF LInv
    <3>3. \A e \in expected' : e.did \in 1 .. made'
      BY <1>2, <2>3, <3>1, <3>2 DEF LInv
    <3>4. Keeps(identity.chain)'
      BY <2>2, <3>1, <3>2 DEF Keeps
    <3> QED BY <1>3, <2>1, <3>3, <3>4 DEF LInv
  <2>5. CASE change[c] = {}
    <3>1. expected' = {e \in expected : e.did # copy[c][1].did} \cup Events(copy[c])
      BY <2>1, <2>5
    <3>2. \A e \in expected' : e.did \in 1 .. made'
      BY <1>2, <2>3, <3>1 DEF LInv
    <3>3. Keeps(identity.chain)'
      BY <2>2, <3>1 DEF Keeps
    <3> QED BY <1>3, <2>1, <3>2, <3>3 DEF LInv
  <2> QED BY <2>4, <2>5
<1> QED BY <1>5, <1>6 DEF WriteFile

(* A handler that ends early leaves the chain that was there, or none.     *)
LEMMA FailKeepsLInv ==
  ASSUME NEW c, Alone(c), IInv, SInv(c), LInv(c), Abandon(c) \/ Crash \/ RefuseAttachment(c)
  PROVE  LInv(c)'
<1>0. TypeOK
  BY DEF IInv
<1>1. pc'[c] = "idle" /\ UNCHANGED <<expected, made>>
  BY <1>0 DEF Abandon, Crash, RefuseAttachment, Return, TypeOK, Alone
<1>2. IF SavingNow(c) THEN identity'.state # "whole" ELSE identity' = identity
  <2>1. CASE RefuseAttachment(c)
    BY <2>1 DEF RefuseAttachment, SavingNow
  <2>2. CASE Abandon(c) \/ Crash
    BY <2>2 DEF Abandon, Crash, SavingNow, SInv, Torn, Empty
  <2> QED BY <2>1, <2>2
<1>3. ~SavingNow(c)' /\ (identity'.state = "whole" => Keeps(identity.chain)')
  BY <1>1, <1>2 DEF LInv, SavingNow, Keeps
<1> QED BY <1>1, <1>3 DEF LInv

LEMMA NextKeepsLInv ==
  ASSUME NEW c, Alone(c)
  PROVE  IInv /\ MInv /\ HInv /\ SInv(c) /\ LInv(c) /\ [Next]_vars => LInv(c)'
<1> SUFFICES ASSUME IInv, MInv, HInv, SInv(c), LInv(c), [Next]_vars PROVE LInv(c)'
  OBVIOUS
<1>1. TypeOK /\ Plan(c)
  BY DEF IInv, MInv, Alone
<1>2. CASE UNCHANGED vars
  BY <1>2 DEF vars, LInv, SavingNow, Pending, Current, Keeps
<1>3. CASE ExportBackup(c)
  BY <1>3 DEF ExportBackup, LInv, SavingNow, Pending, Current, Keeps
<1>4. CASE Abandon(c) \/ Crash \/ RefuseAttachment(c)
  BY <1>4, FailKeepsLInv
<1>5. CASE Step(c) /\ ~Abandon(c) /\ ~ExportBackup(c) /\ ~RefuseAttachment(c)
  BY <1>1, <1>5, BeginKeepsLInv, OpenKeepsLInv, WriteKeepsLInv DEF Step
<1>6. Next => Step(c) \/ Crash
  BY DEF Next, Alone
<1> QED BY <1>2, <1>3, <1>4, <1>5, <1>6

(* One caller: the chain is append-only, whatever write fails and whatever *)
(* stops halfway.  Whatever a handler acknowledged is in the chain the file*)
(* holds if it holds any, unless the user created an identity over it or   *)
(* restored a backup from before; with a second caller it is not so, even  *)
(* without a fault (store_lost_update).                                    *)
THEOREM OneCallerLosesNothing ==
  ASSUME NEW c, Proc = {c}
  PROVE  Spec => []AckedChangesStay
<1>1. Alone(c)
  BY DEF Alone
<1>2. LInv(c) => AckedChangesStay
  BY <1>1 DEF LInv, SavingNow, AckedChangesStay, AtRest, Alone, Keeps
<1>3. Init => LInv(c)
  BY <1>1, InitLInv
<1>4. IInv /\ MInv /\ HInv /\ SInv(c) /\ LInv(c) /\ [Next]_vars => LInv(c)'
  BY <1>1, NextKeepsLInv
<1>5. (Init => SInv(c)) /\ (IInv /\ MInv /\ SInv(c) /\ [Next]_vars => SInv(c)')
  BY <1>1, InitSInv, NextKeepsSInv
<1> QED
  BY <1>2, <1>3, <1>4, <1>5, InitIInv, NextKeepsIInv, InitMInv, NextKeepsMInv, InitHInv, NextKeepsHInv,
     PTL
  DEF Spec

-----------------------------------------------------------------------------
(* The refinement: a change takes effect when the old file is truncated.   *)

LEMMA LogChainOfOne ==
  ASSUME NEW c, Alone(c)
  PROVE  /\ LogChain = IF SavingNow(c) THEN copy[c] ELSE identity.chain
         /\ LogChain' = IF SavingNow(c)' THEN copy'[c] ELSE identity'.chain
<1>1. Saving = (IF SavingNow(c) THEN {c} ELSE {})
  BY DEF Saving, SavingNow, Alone
<1>2. Saving' = (IF SavingNow(c)' THEN {c} ELSE {})
  BY DEF Saving, SavingNow, Alone
<1>3. (CHOOSE p \in {c} : TRUE) = c
  OBVIOUS
<1> QED BY <1>1, <1>2, <1>3 DEF LogChain

LEMMA InitIsALog ==
  ASSUME NEW c, Alone(c)
  PROVE  Init => Log!Init
<1> SUFFICES ASSUME Init PROVE Log!Init
  OBVIOUS
<1>1. ~SavingNow(c)
  BY DEF Init, SavingNow, Alone
<1> QED BY <1>1, LogChainOfOne DEF Init, Log!Init, Absent

LEMMA NextIsALog ==
  ASSUME NEW c, Alone(c)
  PROVE  IInv /\ MInv /\ SInv(c) /\ [Next]_vars => [Log!Next]_(Log!logVars)
<1> SUFFICES ASSUME IInv, MInv, SInv(c), [Next]_vars
             PROVE  Log!Next \/ UNCHANGED <<LogChain, backup.chain, faults>>
  BY DEF Log!logVars
<1>1. /\ LogChain = IF SavingNow(c) THEN copy[c] ELSE identity.chain
      /\ LogChain' = IF SavingNow(c)' THEN copy'[c] ELSE identity'.chain
  BY LogChainOfOne
<1>2. TypeOK /\ Plan(c) /\ c \in Proc
  BY DEF IInv, MInv, Alone
<1>3. CASE UNCHANGED vars
  BY <1>1, <1>3 DEF vars, SavingNow, Current
<1>4. CASE \/ AddMemory(c) \/ ChangeKeys(c) \/ CreateIdentity(c) \/ ImportBackup(c)
           \/ \E cid \in Attestations : AttachAttestation(c, cid)
  <2>1. UNCHANGED <<identity, backup, faults>> /\ pc[c] = "idle" /\ pc'[c] = "open"
    BY <1>4, BeginsOneAhead
  <2> QED BY <1>1, <2>1 DEF SavingNow
<1>5. CASE ExportBackup(c)
  <2>1. /\ UNCHANGED <<identity, pc, copy, todo, faults>> /\ ~SavingNow(c)
        /\ identity.chain # <<>> \/ faults > 0
        /\ backup' = identity
    BY <1>5, ExportKeepsSInv
  <2>2. LogChain = identity.chain /\ LogChain' = identity.chain /\ backup'.chain = identity.chain
    BY <1>1, <2>1 DEF SavingNow, Current
  <2>3. Log!Export
    BY <2>1, <2>2 DEF Log!Export
  <2> QED BY <2>3 DEF Log!Next
<1>6. CASE OpenFile(c)
  <2>1. /\ pc[c] = "open" /\ pc'[c] = "write" /\ UNCHANGED <<backup, copy, todo, faults>>
        /\ Current(c) # IdentityFile => identity' = identity
    BY <1>2, <1>6 DEF OpenFile, TypeOK
  <2>2. LogChain = identity.chain
        /\ LogChain' = IF Current(c) = IdentityFile THEN copy[c] ELSE identity.chain
    BY <1>1, <2>1 DEF SavingNow, Current
  <2>3. CASE Current(c) # IdentityFile
    BY <2>1, <2>2, <2>3
  <2>4. CASE Current(c) = IdentityFile
    <3>1. OneAhead(copy[c])
      BY <1>2, <2>1, <2>4, PendingCurrent DEF SInv, SavingNow
    <3>2. Log!Change \/ Log!Create \/ Log!Restore
      BY <2>1, <2>2, <2>4, <3>1 DEF OneAhead, Log!Change, Log!Create, Log!Restore
    <3> QED BY <3>2 DEF Log!Next
  <2> QED BY <2>3, <2>4
<1>7. CASE WriteFile(c)
  <2>1. ~SavingNow(c)' /\ (SavingNow(c) => identity' = Whole(copy[c]))
    BY <1>2, <1>7, WriteKeepsSInv
  <2>2. UNCHANGED <<backup, faults>> /\ (~SavingNow(c) => identity' = identity)
    BY <1>7 DEF WriteFile, SavingNow
  <2> QED BY <1>1, <2>1, <2>2 DEF Whole
<1>8. CASE RefuseAttachment(c)
  <2>1. UNCHANGED <<identity, backup, faults>> /\ ~SavingNow(c) /\ ~SavingNow(c)'
    BY <1>2, <1>8, RefusalKeepsSInv
  <2> QED BY <1>1, <2>1
<1>9. CASE Abandon(c) \/ Crash
  <2>1. /\ ~SavingNow(c)' /\ backup' = backup
        /\ IF SavingNow(c) THEN identity'.chain = <<>> ELSE identity' = identity
        /\ faults < MaxFaults /\ faults' = faults + 1
    BY <1>2, <1>9, FailKeepsSInv
  <2>2. LogChain' \in {LogChain, <<>>}
    BY <1>1, <2>1
  <2>3. Log!Lose
    BY <2>1, <2>2 DEF Log!Lose
  <2> QED BY <2>3 DEF Log!Next
<1> QED BY <1>3, <1>4, <1>5, <1>6, <1>7, <1>8, <1>9 DEF Next, Step, Alone

(* One caller: the files, and the handlers that truncate and rewrite them, *)
(* implement the append-only log with backups that README.md promises, but *)
(* that a write which fails or is interrupted (SaveIdentity, storage.go    *)
(* 47-54) may cost all of it, and never leaves part of it or an older one. *)
THEOREM OneCallerKeepsALog ==
  ASSUME NEW c, Proc = {c}
  PROVE  Spec => ImplementsLog
<1>1. Alone(c)
  BY DEF Alone
<1>2. (Init => SInv(c)) /\ (IInv /\ MInv /\ SInv(c) /\ [Next]_vars => SInv(c)')
  BY <1>1, InitSInv, NextKeepsSInv
<1>3. Init => Log!Init
  BY <1>1, InitIsALog
<1>4. IInv /\ MInv /\ SInv(c) /\ [Next]_vars => [Log!Next]_(Log!logVars)
  BY <1>1, NextIsALog
<1> QED
  BY <1>2, <1>3, <1>4, InitIInv, NextKeepsIInv, InitMInv, NextKeepsMInv, PTL
  DEF Spec, ImplementsLog, Log!Spec

=============================================================================
