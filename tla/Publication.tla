---------------------------- MODULE Publication ----------------------------
(***************************************************************************)
(* What a publication offers to peers: StartPublish and runPublish load    *)
(* the identity file once, and StoreReferencedObjects                      *)
(* (internal/storage/storage.go 59-89) then reads, one after the other,    *)
(* the files the loaded state refers to, while the callers of IdentityStore*)
(* go on writing them.  A peer fetches objects by CID                      *)
(* (internal/p2p/resolver.go 188-280).                                     *)
(*                                                                         *)
(* IdentityStore is used as it is; here a memory is public or private, and *)
(* there is one publication at a time (PublishSlot) and one peer.          *)
(***************************************************************************)
EXTENDS IdentityStore

CONSTANT NoFile    \* the peer has fetched nothing

ASSUME PublicationAssumption == NoFile \notin OtherFiles

VARIABLES
    private,    \* the memory events of private visibility, by id
    phase,      \* the publication: off, manifest, object, attestations, serving
    state,      \* the chain of the state it publishes
    left,       \* the attestations it has yet to read
    include,    \* includeAttestations
    settled,    \* history: the AddMemory of its public memory had returned at its load
    objects,    \* Resolver.objects: the bytes read, partial or whole
    fetched     \* the last object the peer accepted

publication == <<phase, state, left, include, settled, objects>>

pvars == <<vars, private, publication, fetched>>

MemoryOf(chain, ids) ==
    {i \in DOMAIN chain : chain[i].kind = "memory" /\ chain[i].id \in ids}

(* Mutant of PublicMemoryRoot: the last memory, public or private.         *)
PublicMemoryRootOfAll(chain) ==
    {chain[i] : i \in {i \in MemoryOf(chain, EventIds) :
                         \A j \in MemoryOf(chain, EventIds) : j <= i}}

(* The event that set PublicMemoryRoot: the last public memory, if any.    *)
PublicMemoryRoot(chain) ==
    LET public == MemoryOf(chain, EventIds \ private)
    IN  {chain[i] : i \in {i \in public : \A j \in public : j <= i}}

-----------------------------------------------------------------------------
(* The owner.                                                              *)

(* A step of a handler; AddMemory is asked for a public or a private       *)
(* memory.                                                                 *)
StoreStep(p) ==
    /\ Step(p)
    /\ \/ UNCHANGED private
       \/ /\ made' > made
          /\ \E e \in change'[p] : e.kind = "memory" /\ private' = private \cup {e.id}
    /\ UNCHANGED <<publication, fetched>>

(* The console ends, and with it the publication it serves.                *)
CrashWithPublication ==
    /\ Crash
    /\ phase' = "off" /\ objects' = [f \in OtherFiles |-> "absent"]
    /\ UNCHANGED <<private, state, left, include, settled, fetched>>

-----------------------------------------------------------------------------
(* Publishing.                                                             *)

(* Loading, a fresh resolver, and the state stored in it.                  *)
StartPublish(withAttestations) ==
    /\ phase = "off" /\ LoadIdentity
    /\ phase' = "manifest"
    /\ state' = identity.chain
    /\ include' = withAttestations
    /\ left' = IF withAttestations THEN Refs(identity.chain) ELSE {}
    /\ settled' = (PublicMemoryRoot(identity.chain) \subseteq returned)
    /\ UNCHANGED <<vars, private, objects, fetched>>

StoreObject(file) == objects' = [objects EXCEPT ![file] = others[file]]

(* A manifest that is not there, or not JSON yet, has no items.            *)
ReadManifest ==
    /\ phase = "manifest"
    /\ \/ PublicMemoryRoot(state) = {} /\ phase' = "attestations" /\ UNCHANGED objects
       \/ \E e \in PublicMemoryRoot(state) :
            /\ StoreObject(ManifestFile(e))
            /\ phase' = IF others[ManifestFile(e)] = "whole" THEN "object" ELSE "attestations"
    /\ UNCHANGED <<vars, private, state, left, include, settled, fetched>>

(* AddMemory makes a manifest of one item.                                 *)
ReadObject ==
    /\ phase = "object"
    /\ \E e \in PublicMemoryRoot(state) : StoreObject(ObjectFile(e))
    /\ phase' = "attestations"
    /\ UNCHANGED <<vars, private, state, left, include, settled, fetched>>

(* Mutant of ReadAttestation: its turn passes to the others when there is  *)
(* one already.                                                            *)
ReadAttestationOnce ==
    /\ phase = "attestations"
    /\ left # {} /\ left' = {}
    /\ UNCHANGED <<vars, private, phase, state, include, settled, objects, fetched>>

(* One of AttestationRefs; in which order tells nothing apart.             *)
ReadAttestation ==
    /\ phase = "attestations"
    /\ \E cid \in left : left' = left \ {cid} /\ StoreObject(AttestationFile(cid))
    /\ UNCHANGED <<vars, private, phase, state, include, settled, fetched>>

(* The request returns, with the addresses a peer may use.                 *)
Serve ==
    /\ phase = "attestations" /\ left = {}
    /\ phase' = "serving"
    /\ UNCHANGED <<vars, private, state, left, include, settled, objects, fetched>>

(* The publication expires or is replaced.                                 *)
EndPublication ==
    /\ phase = "serving"
    /\ phase' = "off" /\ objects' = [f \in OtherFiles |-> "absent"]
    /\ UNCHANGED <<vars, private, state, left, include, settled, fetched>>

-----------------------------------------------------------------------------
(* A peer.                                                                 *)

(* Mutant of VerifyObjectCID: whatever was answered.                       *)
VerifyObjectCIDNever(content) == content # "absent"

(* The bytes hash to the CID they were asked for by.                       *)
VerifyObjectCID(content) == content = "whole"

(* The publisher's answer, no byte of it when there is no such object.     *)
HandleObjectStream(file) == objects[file]

(* Objects are served from the moment the resolver is up; an answer that is*)
(* empty or fails the check is not cached.                                 *)
ResolveObjectRemote(file) ==
    /\ phase # "off"
    /\ VerifyObjectCID(HandleObjectStream(file))
    /\ fetched' = [file |-> file, content |-> HandleObjectStream(file), from |-> state]
    /\ UNCHANGED <<vars, private, publication>>

-----------------------------------------------------------------------------
PInit ==
    /\ Init
    /\ private = {}
    /\ phase = "off" /\ state = <<>> /\ left = {} /\ include = FALSE /\ settled = FALSE
    /\ objects = [f \in OtherFiles |-> "absent"]
    /\ fetched = NoFile

PNext ==
    \/ \E p \in Proc : StoreStep(p)
    \/ CrashWithPublication
    \/ \E withAttestations \in BOOLEAN : StartPublish(withAttestations)
    \/ ReadManifest \/ ReadObject \/ ReadAttestation \/ Serve \/ EndPublication
    \/ \E file \in OtherFiles : ResolveObjectRemote(file)

PSpec == PInit /\ [][PNext]_pvars

-----------------------------------------------------------------------------
(* Properties.                                                             *)

(* Types of what the publication and the peer hold.                        *)
PublicationTypeOK ==
    /\ private \subseteq EventIds
    /\ phase \in {"off", "manifest", "object", "attestations", "serving"}
    /\ state \in Seq(Event)
    /\ left \subseteq Attestations
    /\ include \in BOOLEAN /\ settled \in BOOLEAN
    /\ objects \in [OtherFiles -> {"absent", "partial", "whole"}]
    /\ fetched \in {NoFile} \cup [file : OtherFiles, content : {"partial", "whole"}, from : Seq(Event)]

MemoryFile(file) == file.kind \in {"object", "manifest"}

(* No file of a private memory is ever offered to peers: "private memory is*)
(* never published" (README.md:277, 产品使用说明.md:159).  The state's    *)
(* public root must name a public memory whatever was written before it.   *)
PrivateNeverOffered ==
    \A f \in OtherFiles : MemoryFile(f) /\ f.of \in private => objects[f] = "absent"

(* A peer ends up with whole files of what the state it resolved refers to,*)
(* although files are read while they are being written.                   *)
FetchedIsReferenced ==
    fetched # NoFile =>
        /\ fetched.content = "whole"
        /\ \/ fetched.file.kind = "attestation" /\ fetched.file.of \in Refs(fetched.from)
           \/ /\ MemoryFile(fetched.file)
              /\ \E e \in Events(fetched.from) : e.kind = "memory" /\ e.id = fetched.file.of

(* A publication that includes attestations has read a file for every one  *)
(* its state refers to, whatever was being attached when it loaded.        *)
AttestationsOffered ==
    phase = "serving" /\ include =>
        \A cid \in Refs(state) : objects[AttestationFile(cid)] # "absent"

MemoryOffered(e) == objects[ManifestFile(e)] = "whole" /\ objects[ObjectFile(e)] = "whole"

(* A publication offers the memory its state points at, manifest and       *)
(* object, if the AddMemory of that memory had returned when it loaded:    *)
(* whoever else is at work, and whatever is written, created, restored or  *)
(* interrupted before the files are read.                                  *)
AckedMemoryOffered ==
    phase = "serving" /\ settled => \A e \in PublicMemoryRoot(state) : MemoryOffered(e)

=============================================================================
