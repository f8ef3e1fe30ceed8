--------------------------- MODULE IdentityStore ---------------------------
(***************************************************************************)
(* The identity file and the files beside it, under the callers that share *)
(* them: requests of the web console (net/http runs each in a goroutine    *)
(* and Service.mu does not cover the file) and decentid commands started   *)
(* beside it.  internal/app/service.go, internal/storage/storage.go, and   *)
(* the same flow in internal/cli/node.go.                                  *)
(*                                                                         *)
(* A handler reads the whole identity file, changes its own copy, and      *)
(* writes files one after the other.  Each write is os.WriteFile: open     *)
(* with O_TRUNC, then write from offset 0.  What a handler computes on its *)
(* copy touches nothing shared and is one step with its read.              *)
(*                                                                         *)
(* An identity is its event chain (IdentityChain says what a chain means); *)
(* all files are in one directory, the one of the identity file.           *)
(***************************************************************************)
EXTENDS Integers, Sequences, FiniteSets

CONSTANTS
    Proc,           \* callers: requests and commands
    Attestations,   \* the attestations a user may attach, by CID
    NoCid,          \* the CID of an event that names no file
    Handlers,       \* the handlers callers use
    MaxEvents,      \* bound: events ever signed
    MaxFaults       \* bound: write errors and crashes

ASSUME StoreAssumption ==
    /\ NoCid \notin Attestations
    /\ Attestations \cap Nat = {}
    /\ NoCid \notin Nat
    /\ MaxEvents \in Nat /\ MaxFaults \in Nat
    /\ Handlers \subseteq {"create", "memory", "keys", "attach", "export", "import"}

EventIds == 1 .. MaxEvents

(* "keys" stands for AddDevice, RevokeDevice and RotateRoot.  did is the   *)
(* identity, named by its create event.  A memory event names its manifest *)
(* and object by its own id: their CIDs are new.                           *)
Event == [id: EventIds, kind: {"create", "memory", "keys"}, did: EventIds, cid: {NoCid}]
           \cup [id: EventIds, kind: {"attach"}, did: EventIds, cid: Attestations]

(* The bytes of the identity file.  empty: truncated and not yet written;  *)
(* torn: not JSON, the rest of an interrupted or overlapping write.        *)
Content == [state: {"absent", "empty", "torn", "whole"}, chain: Seq(Event)]

Absent == [state |-> "absent", chain |-> <<>>]
Empty == [state |-> "empty", chain |-> <<>>]
Torn == [state |-> "torn", chain |-> <<>>]
Whole(chain) == [state |-> "whole", chain |-> chain]

IdentityFile == [kind |-> "identity", of |-> NoCid]
AttestationFile(cid) == [kind |-> "attestation", of |-> cid]
(* Mutant of ObjectFile: the object is named by the wrong field.           *)
ObjectFileByCid(e) == [kind |-> "object", of |-> e.cid]

ObjectFile(e) == [kind |-> "object", of |-> e.id]
ManifestFile(e) == [kind |-> "manifest", of |-> e.id]

OtherFiles == [kind: {"attestation"}, of: Attestations]
                \cup [kind: {"object", "manifest"}, of: EventIds]

FileNames == {IdentityFile} \cup OtherFiles

VARIABLES
    identity,   \* content of the identity file
    others,     \* the files beside it: absent, partial or whole
    pc,         \* what a caller's handler does next: idle, open, write
    copy,       \* the chain of the handler's in-memory Identity
    todo,       \* the files the handler still has to write, in order
    change,     \* the event the handler made, as a set; {} for a restore
    made,       \* how many events have been signed
    returned,   \* events whose handler has returned success
    expected,   \* events the user may expect in their identity's chain
    backup,     \* the bytes of the last exported backup
    faults      \* write errors and crashes so far

vars == <<identity, others, pc, copy, todo, change, made, returned, expected, backup, faults>>

Events(chain) == {chain[i] : i \in DOMAIN chain}

Refs(chain) == {chain[i].cid : i \in {j \in DOMAIN chain : chain[j].kind = "attach"}}

-----------------------------------------------------------------------------
(* Starting a handler: what it reads, the chain it will save, the files it *)
(* will write and their order.                                             *)

Begin(p, chain, files, events) ==
    /\ pc[p] = "idle"
    /\ pc' = [pc EXCEPT ![p] = "open"]
    /\ copy' = [copy EXCEPT ![p] = chain]
    /\ todo' = [todo EXCEPT ![p] = files]
    /\ change' = [change EXCEPT ![p] = events]
    /\ UNCHANGED <<identity, others, returned, expected, backup, faults>>

SignEvent == made < MaxEvents /\ made' = made + 1

FreshEvent(kind, cid) ==
    [id |-> made + 1, kind |-> kind, did |-> identity.chain[1].did, cid |-> cid]

(* LoadIdentity fails unless the file is whole; the handler then returns.  *)
LoadIdentity == identity.state = "whole"

(* Mutant of MemoryFiles: without the manifest.                            *)
MemoryFilesNoManifest(e) == <<IdentityFile, ObjectFile(e)>>

(* The files of AddMemory, in its order: the identity first.               *)
MemoryFiles(e) == <<IdentityFile, ObjectFile(e), ManifestFile(e)>>

(* Mutants of AttachFiles: no attestation file, and the event before it.   *)
AttachFilesNoCopy(cid) == <<IdentityFile>>
AttachFilesEventFirst(cid) == <<IdentityFile, AttestationFile(cid)>>

(* The files of AttachAttestation: the attestation before the event.       *)
AttachFiles(cid) == <<AttestationFile(cid), IdentityFile>>

(* Mutant of AddMemory: a retry within the handler signs the event twice.  *)
AddMemoryTwice(p) ==
    /\ "memory" \in Handlers
    /\ LoadIdentity /\ SignEvent
    /\ LET e == FreshEvent("memory", NoCid)
       IN  Begin(p, Append(Append(identity.chain, e), e), MemoryFiles(e), {e})

AddMemory(p) ==
    /\ "memory" \in Handlers
    /\ LoadIdentity /\ SignEvent
    /\ LET e == FreshEvent("memory", NoCid)
       IN  Begin(p, Append(identity.chain, e), MemoryFiles(e), {e})

ChangeKeys(p) ==
    /\ "keys" \in Handlers
    /\ LoadIdentity /\ SignEvent
    /\ LET e == FreshEvent("keys", NoCid)
       IN  Begin(p, Append(identity.chain, e), <<IdentityFile>>, {e})

AttachAttestation(p, cid) ==
    /\ "attach" \in Handlers
    /\ LoadIdentity /\ SignEvent
    /\ LET e == FreshEvent("attach", cid)
       IN  Begin(p, Append(identity.chain, e), AttachFiles(cid), {e})

(* CreateIdentity reads nothing: it overwrites the file at its path.       *)
CreateIdentity(p) ==
    /\ "create" \in Handlers
    /\ SignEvent
    /\ LET e == [id |-> made + 1, kind |-> "create", did |-> made + 1, cid |-> NoCid]
       IN  Begin(p, <<e>>, <<IdentityFile>>, {e})

(* ImportBackup verifies the decrypted bytes before it writes them.        *)
ImportBackup(p) ==
    /\ "import" \in Handlers
    /\ backup.state = "whole"
    /\ Begin(p, backup.chain, <<IdentityFile>>, {})
    /\ UNCHANGED made

(* ExportBackup encrypts the bytes it reads, whatever they are.            *)
ExportBackup(p) ==
    /\ "export" \in Handlers
    /\ pc[p] = "idle"
    /\ identity.state # "absent"
    /\ backup' = identity
    /\ UNCHANGED <<identity, others, pc, copy, todo, change, made, returned, expected, faults>>

-----------------------------------------------------------------------------
(* os.WriteFile, one file of the list at a time.                           *)

Current(p) == Head(todo[p])

(* Mutant of OpenFile: the file is opened without O_TRUNC.                 *)
OpenFileNoTruncation(p) ==
    /\ pc[p] = "open"
    /\ pc' = [pc EXCEPT ![p] = "write"]
    /\ UNCHANGED <<identity, others, copy, todo, change, made, returned, expected, backup, faults>>

(* open(O_CREATE | O_TRUNC)                                                *)
OpenFile(p) ==
    /\ pc[p] = "open"
    /\ pc' = [pc EXCEPT ![p] = "write"]
    /\ IF Current(p) = IdentityFile
       THEN identity' = Empty /\ UNCHANGED others
       ELSE others' = [others EXCEPT ![Current(p)] = "partial"] /\ UNCHANGED identity
    /\ UNCHANGED <<copy, todo, change, made, returned, expected, backup, faults>>

(* The bytes left in the identity file when chain is written at offset 0:  *)
(* if another caller wrote since our truncation, its longer text sticks    *)
(* out behind ours, or ours covers it.                                     *)
WriteOutcomes(chain) ==
    IF identity = Empty \/ identity = Whole(chain)
    THEN {Whole(chain)} ELSE {Whole(chain), Torn}

(* The handler returns: its in-memory Identity is gone.                    *)
Return(p) ==
    /\ pc' = [pc EXCEPT ![p] = "idle"]
    /\ copy' = [copy EXCEPT ![p] = <<>>]
    /\ todo' = [todo EXCEPT ![p] = <<>>]
    /\ change' = [change EXCEPT ![p] = {}]

(* The user may now expect the event of the handler or, when it made none  *)
(* (ImportBackup), the restored chain and nothing it rolled back.          *)
Acknowledge(p) ==
    /\ returned' = returned \cup change[p]
    /\ expected' = IF change[p] # {} THEN expected \cup change[p]
                   ELSE {e \in expected : e.did # copy[p][1].did} \cup Events(copy[p])

Finish(p) == Len(todo[p]) = 1 /\ Return(p) /\ Acknowledge(p)

Continue(p) ==
    /\ Len(todo[p]) > 1
    /\ pc' = [pc EXCEPT ![p] = "open"]
    /\ todo' = [todo EXCEPT ![p] = Tail(@)]
    /\ UNCHANGED <<copy, change, returned, expected>>

WriteFile(p) ==
    /\ pc[p] = "write"
    /\ IF Current(p) = IdentityFile
       THEN identity' \in WriteOutcomes(copy[p]) /\ UNCHANGED others
       ELSE others' = [others EXCEPT ![Current(p)] = "whole"] /\ UNCHANGED identity
    /\ Finish(p) \/ Continue(p)
    /\ UNCHANGED <<made, backup, faults>>

(* AttachAttestation has written the attestation when the identity refuses *)
(* the event: the handler answers with that error and saves nothing.       *)
RefuseAttachment(p) ==
    /\ pc[p] = "open"
    /\ Current(p) = IdentityFile
    /\ \E e \in change[p] : e.kind = "attach"
    /\ Return(p)
    /\ UNCHANGED <<identity, others, made, returned, expected, backup, faults>>

(* Mutant of Abandon: the error of a write is not returned to the user.    *)
AbandonSwallowed(p) ==
    /\ faults < MaxFaults
    /\ pc[p] # "idle"
    /\ \/ UNCHANGED identity
       \/ pc[p] = "write" /\ Current(p) = IdentityFile /\ identity' = Torn
    /\ Return(p) /\ Acknowledge(p)
    /\ faults' = faults + 1
    /\ UNCHANGED <<others, made, backup>>

(* A write error, or the end of the caller's process, at any of its steps; *)
(* the write itself may have put some of its bytes down.                   *)
Abandon(p) ==
    /\ faults < MaxFaults
    /\ pc[p] # "idle"
    /\ \/ UNCHANGED identity
       \/ pc[p] = "write" /\ Current(p) = IdentityFile /\ identity' = Torn
    /\ Return(p)
    /\ faults' = faults + 1
    /\ UNCHANGED <<others, made, returned, expected, backup>>

(* The console stops with every request it serves.                         *)
Crash ==
    /\ faults < MaxFaults
    /\ \E p \in Proc : pc[p] # "idle"
    /\ pc' = [p \in Proc |-> "idle"]
    /\ copy' = [p \in Proc |-> <<>>]
    /\ todo' = [p \in Proc |-> <<>>]
    /\ change' = [p \in Proc |-> {}]
    /\ faults' = faults + 1
    /\ UNCHANGED <<identity, others, made, returned, expected, backup>>

-----------------------------------------------------------------------------
Init ==
    /\ identity = Absent
    /\ others = [f \in OtherFiles |-> "absent"]
    /\ pc = [p \in Proc |-> "idle"]
    /\ copy = [p \in Proc |-> <<>>]
    /\ todo = [p \in Proc |-> <<>>]
    /\ change = [p \in Proc |-> {}]
    /\ made = 0
    /\ returned = {}
    /\ expected = {}
    /\ backup = Absent
    /\ faults = 0

Step(p) ==
    \/ AddMemory(p)
    \/ ChangeKeys(p)
    \/ \E cid \in Attestations : AttachAttestation(p, cid)
    \/ CreateIdentity(p)
    \/ ImportBackup(p)
    \/ ExportBackup(p)
    \/ OpenFile(p)
    \/ WriteFile(p)
    \/ RefuseAttachment(p)
    \/ Abandon(p)

Next == Crash \/ \E p \in Proc : Step(p)

Spec == Init /\ [][Next]_vars

-----------------------------------------------------------------------------
(* Properties.                                                             *)

(* The types of the state: the files, and what each handler carries.       *)
TypeOK ==
    /\ identity \in Content
    /\ others \in [OtherFiles -> {"absent", "partial", "whole"}]
    /\ pc \in [Proc -> {"idle", "open", "write"}]
    /\ copy \in [Proc -> Seq(Event)]
    /\ todo \in [Proc -> Seq(FileNames)]
    /\ change \in [Proc -> SUBSET Event]
    /\ made \in 0 .. MaxEvents
    /\ returned \in SUBSET Event
    /\ expected \in SUBSET Event
    /\ backup \in Content
    /\ faults \in 0 .. MaxFaults

(* Every attestation a readable identity file or backup refers to has its  *)
(* file beside it, whatever was interleaved, lost or interrupted: it is    *)
(* created before the event that names it exists (AttachAttestation).      *)
AttachedFileExists ==
    \A cid \in Refs(identity.chain) \cup Refs(backup.chain) :
        others[AttestationFile(cid)] # "absent"

(* Short of a fault, that file is complete too, unless a second attach of  *)
(* the same attestation is rewriting it at this moment.                    *)
AttachedFileComplete ==
    faults = 0 =>
      \A cid \in Refs(identity.chain) :
        \/ others[AttestationFile(cid)] = "whole"
        \/ \E p \in Proc : pc[p] = "write" /\ Current(p) = AttestationFile(cid)

(* A memory whose AddMemory returned has its object and its manifest on    *)
(* disk, although the identity that points at them was saved first.        *)
AckedMemoryOnDisk ==
    \A e \in returned : e.kind = "memory" =>
        others[ObjectFile(e)] = "whole" /\ others[ManifestFile(e)] = "whole"

AtRest == \A p \in Proc : pc[p] = "idle"

(* The chain is append-only: a change whose handler returned success is in *)
(* the chain for good, unless the user created or restored an identity.    *)
AckedChangesStay ==
    AtRest /\ identity.state = "whole" =>
      \A e \in expected : e.did = identity.chain[1].did => e \in Events(identity.chain)

(* With no fault so far and nobody writing, the identity file can be       *)
(* loaded: SaveIdentity never stops between truncating it and writing it.  *)
ReadableAtRest ==
    faults = 0 /\ AtRest /\ returned # {} => identity.state = "whole"

(* One caller at a time: the files implement an append-only log, which a   *)
(* write that fails or a crash may lose whole, never in part, and which a  *)
(* backup puts back.  A change takes effect when SaveIdentity truncates    *)
(* the old content.                                                        *)
Saving == {p \in Proc : pc[p] = "write" /\ Current(p) = IdentityFile}

LogChain ==
    IF Saving = {} THEN identity.chain ELSE copy[CHOOSE p \in Saving : TRUE]

Log == INSTANCE IdentityLog WITH
         chain <- LogChain, saved <- backup.chain, losses <- faults, MaxLosses <- MaxFaults

ImplementsLog == Log!Spec

=============================================================================
