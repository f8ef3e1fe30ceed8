------------------------------ MODULE Console ------------------------------
(***************************************************************************)
(* The console: requests and commands over several identity files at the   *)
(* same time, and the one path that says which file the console works on.  *)
(* internal/web (server.go, handlers.go, simple_handlers.go), the Service  *)
(* methods they call (internal/app/service.go), and the commands, which    *)
(* name their file (internal/cli/node.go).                                 *)
(*                                                                         *)
(* A request reads the path under the mutex and the file after it, while   *)
(* others create identities elsewhere and select them.  A file is read and *)
(* written whole here, and the events of a chain are left out: both are the*)
(* matter of IdentityStore.  A request that is refused, or that only       *)
(* computes or verifies (challenges, attestations, resolving, QR codes),   *)
(* has no step.                                                            *)
(***************************************************************************)
EXTENDS Naturals, FiniteSets

CONSTANTS
    Request,        \* bound: requests and commands, each served once
    Dirs, Names,    \* directories, and the file names used in them
    StartDir, StartName, \* what the console was started with
    None,           \* no path, no file, nobody
    MaxIdentities   \* bound: identities created

Paths == [dir : Dirs, name : Names]
StartPath == [dir |-> StartDir, name |-> StartName]
Dids == 1 .. MaxIdentities

(* A public state has an identity's fields but for the keys, and loads.    *)
Content == [did : Dids, keys : BOOLEAN]

ASSUME ConsoleAssumption ==
    /\ StartPath \in Paths
    /\ None \notin Paths \cup Content \cup Request
    /\ MaxIdentities \in Nat

VARIABLES
    identityPath,       \* Service.identityPath
    mu,                 \* Service.mu: who holds it across steps, or None
    files,              \* what is at each path
    notes,              \* whose notes are in which directory
    download,           \* the backup the user keeps
    pc, op, path, copy, \* a request: how far, what, its path, its identity
    home                \* where each identity was created or restored

vars == <<identityPath, mu, files, notes, download, pc, op, path, copy, home>>

disk == <<files, notes, download, home>>

Idle == [of |-> "none", method |-> "none"]
Saved(d) == [did |-> d, keys |-> TRUE]

-----------------------------------------------------------------------------
(* Where a request is.                                                     *)

Changing == {"change", "memory"}
Routes   == Changing \cup {"page", "create", "exportState", "export", "import", "publish"}
Commands == Changing \cup {"create"}

Method(o) == IF o = "page" THEN {"GET"} ELSE {"POST"}

Is(r, o) == op[r].of \in o

Goto(r, to) == pc' = [pc EXCEPT ![r] = to] /\ UNCHANGED op

(* writeOK, writeError, the end of a command.                              *)
End(r) ==
    /\ pc' = [pc EXCEPT ![r] = "ended"]
    /\ op' = [op EXCEPT ![r] = Idle]
    /\ path' = [path EXCEPT ![r] = None]
    /\ copy' = [copy EXCEPT ![r] = None]

(* A request that passed security, requireGET or requirePOST and readJSON. *)
Receive(r, o, method) ==
    /\ pc[r] = "idle" /\ method \in Method(o)
    /\ pc' = [pc EXCEPT ![r] = "received"]
    /\ op' = [op EXCEPT ![r] = [of |-> o, method |-> method]]
    /\ UNCHANGED <<identityPath, mu, disk, path, copy>>

RunCommand(r, o, p) ==
    /\ pc[r] = "idle"
    /\ pc' = [pc EXCEPT ![r] = "located"]
    /\ op' = [op EXCEPT ![r] = [of |-> o, method |-> "command"]]
    /\ path' = [path EXCEPT ![r] = p]
    /\ UNCHANGED <<identityPath, mu, disk, copy>>

(* A critical section with nothing in it that waits is one step.           *)
IdentityPath(r) ==
    /\ pc[r] = "received" /\ mu = None
    /\ path' = [path EXCEPT ![r] = identityPath]
    /\ Goto(r, "located")
    /\ UNCHANGED <<identityPath, mu, disk, copy>>

(* A creation may name its path.                                           *)
OutPath(r, p) ==
    /\ pc[r] = "received" /\ Is(r, {"create"})
    /\ path' = [path EXCEPT ![r] = p]
    /\ Goto(r, "located")
    /\ UNCHANGED <<identityPath, mu, disk, copy>>

LoadIdentity(r) ==
    /\ pc[r] = "located" /\ Is(r, Changing \cup {"page", "exportState", "publish"})
    /\ \/ /\ files[path[r]] # None \/ Is(r, {"page"})
          /\ copy' = [copy EXCEPT ![r] = files[path[r]]]
          /\ Goto(r, "loaded") /\ UNCHANGED path
       \/ files[path[r]] = None /\ ~Is(r, {"page"}) /\ End(r)
    /\ UNCHANGED <<identityPath, mu, disk>>

-----------------------------------------------------------------------------
(* What requests do.                                                       *)

(* Mutant of SavePath: the path as it is now.                              *)
SavePathNow(r) == identityPath

SavePath(r) == path[r]

(* Sign, replay, save; without keys PreferredRootPrivateKey is an error.   *)
Change(r) ==
    /\ pc[r] = "loaded" /\ Is(r, Changing) /\ copy[r].keys
    /\ files' = [files EXCEPT ![SavePath(r)] = copy[r]]
    /\ IF Is(r, {"memory"}) THEN Goto(r, "saved") /\ UNCHANGED <<path, copy>> ELSE End(r)
    /\ UNCHANGED <<identityPath, mu, notes, download, home>>

(* Mutant of NoteDir: the directory of the path as it is now.              *)
NoteDirNow(r) == identityPath.dir

NoteDir(r) == path[r].dir

WriteNote(r) ==
    /\ pc[r] = "saved"
    /\ notes' = notes \cup {[dir |-> NoteDir(r), did |-> copy[r].did]}
    /\ End(r)
    /\ UNCHANGED <<identityPath, mu, files, download, home>>

(* New and SaveIdentity, over whatever is there.                           *)
NextDid == Cardinality({d \in Dids : home[d] # {}}) + 1

Save(r) ==
    /\ files' = [files EXCEPT ![path[r]] = Saved(NextDid)]
    /\ home' = [home EXCEPT ![NextDid] = {path[r]}]
    /\ UNCHANGED <<notes, download>>

(* Mutant of CreateIdentity: the path is set, then the file is saved.      *)
CreateIdentityPathFirst(r) ==
    /\ pc[r] = "located" /\ Is(r, {"create"}) /\ NextDid \in Dids
    /\ Save(r) \/ UNCHANGED disk
    /\ identityPath' = IF op[r].method = "command" THEN identityPath ELSE path[r]
    /\ End(r)
    /\ UNCHANGED <<mu>>

(* The command is done with its file; the console then selects it.         *)
CreateIdentity(r) ==
    /\ pc[r] = "located" /\ Is(r, {"create"}) /\ NextDid \in Dids
    /\ Save(r)
    /\ IF op[r].method = "command" THEN End(r) ELSE Goto(r, "created") /\ UNCHANGED <<path, copy>>
    /\ UNCHANGED <<identityPath, mu>>

SetIdentityPath(r) ==
    /\ pc[r] = "created" /\ mu = None
    /\ identityPath' = path[r]
    /\ End(r)
    /\ UNCHANGED <<mu, disk>>

ExportBackup(r) ==
    /\ pc[r] = "located" /\ Is(r, {"export"}) /\ files[path[r]] # None
    /\ download' = files[path[r]]
    /\ End(r)
    /\ UNCHANGED <<identityPath, mu, files, notes, home>>

ImportBackup(r) ==
    /\ pc[r] = "located" /\ Is(r, {"import"}) /\ download # None
    /\ files' = [files EXCEPT ![path[r]] = download]
    /\ home' = [home EXCEPT ![download.did] = @ \cup {path[r]}]
    /\ End(r)
    /\ UNCHANGED <<identityPath, mu, notes, download>>

PublicState(id) == [id EXCEPT !.keys = FALSE]

(* Beside the identity unless it is told where, and over whatever is there.*)
ExportState(r, out) ==
    /\ pc[r] = "loaded" /\ Is(r, {"exportState"})
    /\ files' = [files EXCEPT ![out] = PublicState(copy[r])]
    /\ End(r)
    /\ UNCHANGED <<identityPath, mu, notes, download, home>>

(* The page is made of the summary, with its path, and the path read again.*)
Page(r) ==
    /\ pc[r] = "loaded" /\ Is(r, {"page"}) /\ mu = None
    /\ Goto(r, "rendered")
    /\ UNCHANGED <<identityPath, mu, disk, path, copy>>

Rendered(r) == pc[r] = "rendered" /\ End(r) /\ UNCHANGED <<identityPath, mu, disk>>

(* Mutant of Replace: the mutex is not taken.                              *)
ReplaceUnlocked(r) ==
    /\ pc[r] = "loaded" /\ Is(r, {"publish"})
    /\ Goto(r, "replacing")
    /\ UNCHANGED <<identityPath, mu, disk, path, copy>>

(* The mutex is held while the publication before is closed.               *)
Replace(r) ==
    /\ pc[r] = "loaded" /\ Is(r, {"publish"}) /\ mu = None
    /\ mu' = r
    /\ Goto(r, "replacing")
    /\ UNCHANGED <<identityPath, disk, path, copy>>

(* Mutant of Replaced: returns with the mutex.                             *)
ReplacedLocked(r) == mu = r /\ End(r) /\ UNCHANGED <<identityPath, mu, disk>>

Replaced(r) ==
    /\ mu = r
    /\ mu' = None
    /\ End(r)
    /\ UNCHANGED <<identityPath, disk>>

(* A file cannot be read or written, or there are no keys to sign with.    *)
Fails(r) ==
    /\ \/ pc[r] \in {"located", "saved"}
       \/ pc[r] = "loaded" /\ ~Is(r, {"page"})
    /\ End(r)
    /\ UNCHANGED <<identityPath, mu, disk>>

-----------------------------------------------------------------------------
(* Started on an identity made earlier, or on none, with a backup or not.  *)
Init ==
    /\ identityPath = StartPath /\ mu = None
    /\ \E before \in {{}, {1}} \cap SUBSET Dids :
          /\ files = [p \in Paths |-> IF before # {} /\ p = StartPath THEN Saved(1) ELSE None]
          /\ home = [d \in Dids |-> IF d \in before THEN {StartPath} ELSE {}]
          /\ download \in {None} \cup {Saved(d) : d \in before}
    /\ notes = {}
    /\ pc = [r \in Request |-> "idle"] /\ op = [r \in Request |-> Idle]
    /\ path = [r \in Request |-> None] /\ copy = [r \in Request |-> None]

Begin(r) ==
    \/ \E o \in Routes, method \in {"GET", "POST"} : Receive(r, o, method)
    \/ \E o \in Commands, p \in Paths : RunCommand(r, o, p)

Work(r) ==
    \/ LoadIdentity(r) \/ Change(r) \/ WriteNote(r) \/ CreateIdentity(r)
    \/ ExportBackup(r) \/ ImportBackup(r) \/ Rendered(r) \/ Replaced(r)
    \/ Fails(r)
    \/ \E out \in Paths : OutPath(r, out) \/ ExportState(r, out)

(* The steps that wait for the mutex.                                      *)
Locked(r) == IdentityPath(r) \/ SetIdentityPath(r) \/ Page(r) \/ Replace(r)

GoOn == \E r \in Request : Work(r) \/ Locked(r)

Next == GoOn \/ \E r \in Request : Begin(r)

(* Of the goroutines and commands that can go on, one does.                *)
Spec == Init /\ [][Next]_vars /\ WF_vars(GoOn)

-----------------------------------------------------------------------------
(* Properties.                                                             *)

(* Types; where a request is and what it holds agree.                      *)
ConsoleTypeOK ==
    /\ identityPath \in Paths /\ mu \in Request \cup {None}
    /\ files \in [Paths -> Content \cup {None}]
    /\ notes \subseteq [dir : Dirs, did : Dids]
    /\ download \in Content \cup {None}
    /\ pc \in [Request -> {"idle", "ended", "received", "located", "loaded", "saved",
                           "created", "rendered", "replacing"}]
    /\ \A r \in Request :
          /\ op[r] = Idle <=> pc[r] \in {"idle", "ended"}
          /\ op[r].of \in Routes \cup {"none"}
          /\ path[r] # None <=> pc[r] \notin {"idle", "received", "ended"}
          /\ mu = r <=> pc[r] = "replacing"
    /\ path \in [Request -> Paths \cup {None}]
    /\ copy \in [Request -> Content \cup {None}]
    /\ home \in [Dids -> SUBSET Paths]

(* The keys of an identity are in files in which it was created or to which*)
(* it was restored, whatever is selected or created while a request is at  *)
(* work: it saves where it loaded (loadIdentityWithPath, SaveIdentity).    *)
KeysStayHome ==
    \A p \in Paths : files[p] # None => (files[p].keys => p \in home[files[p].did])

(* The notes of an identity are in the directories of its own files, where *)
(* publication and listing look for them (AddMemory, ListNotes).           *)
NotesBesideTheirIdentity ==
    \A note \in notes : \E p \in home[note.did] : p.dir = note.dir

(* The console works on the file it was started with or on one in which an *)
(* identity was saved, also when a creation fails (CreateIdentity).        *)
CurrentPathWasSaved ==
    identityPath # StartPath => \E d \in Dids : identityPath \in home[d]

(* Every request is answered, though one holds the mutex while it closes   *)
(* the publication of another (StartPublish, service.go 616-625).          *)
EveryRequestEnds == <>[](\A r \in Request : pc[r] \in {"idle", "ended"})

=============================================================================
