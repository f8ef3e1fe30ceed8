--------------------------- MODULE Console_proofs ---------------------------
(***************************************************************************)
(* Theorems about Console for any number of requests, commands,            *)
(* directories, names and identities: types and the mutex, where keys and  *)
(* notes may be, and which path the console may be on.                     *)
(***************************************************************************)
EXTENDS Console, FiniteSetTheorems, TLAPS

OpOK == op \in [Request -> [of : Routes \cup {"none"}, method : {"GET", "POST", "command", "none"}]]

(* The identities that exist, numbered in the order of their creation.     *)
Used == {d \in Dids : home[d] # {}}

Numbered == \E k \in Nat : Used = 1 .. k

(* Nobody holds an identity that was not created: no creation reuses a did.*)
Known(content) == content # None => home[content.did] # {}

AllKnown ==
    /\ \A p \in Paths : Known(files[p])
    /\ \A r \in Request : Known(copy[r])
    /\ Known(download)

(* What a request holds may go back to the path it was loaded from.        *)
HeldKeysAreHome ==
    \A r \in Request :
        /\ pc[r] \in {"loaded", "saved"} /\ copy[r] # None =>
              (copy[r].keys => path[r] \in home[copy[r].did])
        /\ pc[r] = "loaded" /\ ~Is(r, {"page"}) => copy[r] # None
        /\ pc[r] = "saved" => copy[r] # None /\ copy[r].keys

(* A path about to be selected was saved to.                               *)
CreatedWasSaved == \A r \in Request : pc[r] = "created" => \E d \in Dids : path[r] \in home[d]

IInv ==
    /\ ConsoleTypeOK /\ OpOK
    /\ Numbered /\ AllKnown
    /\ KeysStayHome /\ HeldKeysAreHome
    /\ NotesBesideTheirIdentity
    /\ CreatedWasSaved /\ CurrentPathWasSaved

-----------------------------------------------------------------------------
(* Types.                                                                  *)

LEMMA NewDidIsNew ==
  ASSUME Numbered, NextDid \in Dids
  PROVE  /\ home[NextDid] = {} /\ NextDid \in Nat
         /\ Used \cup {NextDid} = 1 .. NextDid
<1>1. PICK k \in Nat : Used = 1 .. k
  BY DEF Numbered
<1>2. Cardinality(1 .. k) = k
  <2>1. 1 \in Int /\ k \in Int
    OBVIOUS
  <2>2. Cardinality(1 .. k) = IF 1 > k THEN 0 ELSE k - 1 + 1
    BY <2>1, FS_Interval
  <2> QED BY <2>2
<1>3. NextDid = k + 1
  BY <1>1, <1>2 DEF NextDid, Used
<1>4. NextDid \notin Used
  BY <1>1, <1>3
<1>5. home[NextDid] = {}
  BY <1>4 DEF Used
<1>6. (1 .. k) \cup {k + 1} = 1 .. (k + 1)
  OBVIOUS
<1> QED BY <1>1, <1>3, <1>5, <1>6

(* A request that is at a path has one, and only the holder is replacing.  *)
LEMMA AtAPath ==
  ASSUME ConsoleTypeOK, NEW r \in Request, pc[r] \notin {"idle", "received", "ended"}
  PROVE  path[r] \in Paths /\ path[r].dir \in Dirs
<1>1. path[r] \in Paths
  BY DEF ConsoleTypeOK
<1> QED BY <1>1 DEF Paths

Typed == ConsoleTypeOK /\ OpOK

LEMMA InitTyped == Init => Typed
<1> SUFFICES ASSUME Init PROVE Typed
  OBVIOUS
<1>1. files \in [Paths -> Content \cup {None}] /\ home \in [Dids -> SUBSET Paths]
      /\ download \in Content \cup {None}
  <2>1. \A d \in Dids : Saved(d) \in Content
    BY DEF Saved, Content
  <2> QED BY <2>1, ConsoleAssumption DEF Init
<1> QED BY <1>1, ConsoleAssumption DEF Init, Typed, ConsoleTypeOK, OpOK, Idle, Routes, Changing

LEMMA NextKeepsTyped == IInv /\ [Next]_vars => Typed'
<1> SUFFICES ASSUME IInv, [Next]_vars PROVE Typed'
  OBVIOUS
<1> USE ConsoleAssumption DEF IInv, Typed, ConsoleTypeOK, OpOK, Idle, disk
<1>1. ASSUME NEW r \in Request, NEW o \in Routes, NEW method \in {"GET", "POST"},
             Receive(r, o, method)
      PROVE  Typed'
  BY <1>1, AtAPath DEF Receive
<1>2. ASSUME NEW r \in Request, NEW o \in Commands, NEW p \in Paths, RunCommand(r, o, p) PROVE Typed'
  BY <1>2, AtAPath DEF RunCommand, Commands, Routes
<1>3. ASSUME NEW r \in Request, IdentityPath(r) PROVE Typed'
  BY <1>3, AtAPath DEF IdentityPath, Goto
<1>4. ASSUME NEW r \in Request, NEW p \in Paths, OutPath(r, p) PROVE Typed'
  BY <1>4, AtAPath DEF OutPath, Goto
<1>5. ASSUME NEW r \in Request, LoadIdentity(r) PROVE Typed'
  <2>1. pc[r] = "located" /\ path[r] \in Paths /\ files[path[r]] \in Content \cup {None}
    BY <1>5, AtAPath DEF LoadIdentity
  <2>2. CASE copy' = [copy EXCEPT ![r] = files[path[r]]] /\ Goto(r, "loaded") /\ UNCHANGED path
    BY <1>5, <2>1, <2>2 DEF LoadIdentity, Goto
  <2>3. CASE End(r)
    BY <1>5, <2>1, <2>3 DEF LoadIdentity, End
  <2> QED BY <1>5, <2>2, <2>3 DEF LoadIdentity
<1>6. ASSUME NEW r \in Request, Change(r) PROVE Typed'
  <2>1. pc[r] = "loaded" /\ path[r] \in Paths /\ copy[r] \in Content \cup {None}
    BY <1>6, AtAPath DEF Change
  <2>2. copy[r] # None
    BY <1>6 DEF Change, HeldKeysAreHome, Is, Changing
  <2>3. files' \in [Paths -> Content \cup {None}]
    BY <1>6, <2>1, <2>2 DEF Change, SavePath
  <2>4. CASE Goto(r, "saved") /\ UNCHANGED <<path, copy>>
    BY <1>6, <2>1, <2>3, <2>4 DEF Change, Goto
  <2>5. CASE End(r)
    BY <1>6, <2>1, <2>3, <2>5 DEF Change, End
  <2> QED BY <1>6, <2>4, <2>5 DEF Change
<1>7. ASSUME NEW r \in Request, WriteNote(r) PROVE Typed'
  <2>1. pc[r] = "saved" /\ path[r].dir \in Dirs /\ copy[r].did \in Dids
    <3>1. copy[r] \in Content
      BY <1>7 DEF WriteNote, HeldKeysAreHome
    <3> QED BY <1>7, <3>1, AtAPath DEF WriteNote, Content
  <2>2. notes' \subseteq [dir : Dirs, did : Dids]
    BY <1>7, <2>1 DEF WriteNote, NoteDir
  <2> QED BY <1>7, <2>1, <2>2 DEF WriteNote, End
<1>8. ASSUME NEW r \in Request, CreateIdentity(r) PROVE Typed'
  <2>1. pc[r] = "located" /\ path[r] \in Paths /\ NextDid \in Dids /\ Saved(NextDid) \in Content
    BY <1>8, AtAPath DEF CreateIdentity, Saved, Content
  <2>2. files' \in [Paths -> Content \cup {None}] /\ home' \in [Dids -> SUBSET Paths]
        /\ UNCHANGED <<notes, download, identityPath, mu>>
    BY <1>8, <2>1 DEF CreateIdentity, Save
  <2>3. CASE Goto(r, "created") /\ UNCHANGED <<path, copy>>
    BY <2>1, <2>2, <2>3 DEF Goto
  <2>4. CASE End(r)
    BY <2>1, <2>2, <2>4 DEF End
  <2> QED BY <1>8, <2>3, <2>4 DEF CreateIdentity
<1>9. ASSUME NEW r \in Request, SetIdentityPath(r) PROVE Typed'
  BY <1>9, AtAPath DEF SetIdentityPath, End
<1>10. ASSUME NEW r \in Request, ExportBackup(r) PROVE Typed'
  BY <1>10, AtAPath DEF ExportBackup, End
<1>11. ASSUME NEW r \in Request, ImportBackup(r) PROVE Typed'
  BY <1>11, AtAPath DEF ImportBackup, End, Content
<1>12. ASSUME NEW r \in Request, NEW out \in Paths, ExportState(r, out) PROVE Typed'
  <2>1. pc[r] = "loaded" /\ copy[r] \in Content
    BY <1>12 DEF ExportState, HeldKeysAreHome, Is
  <2>2. PublicState(copy[r]) \in Content
    BY <2>1 DEF PublicState, Content
  <2>3. files' \in [Paths -> Content \cup {None}]
    BY <1>12, <2>2 DEF ExportState
  <2> QED BY <1>12, <2>1, <2>3 DEF ExportState, End
<1>13. ASSUME NEW r \in Request, Page(r) PROVE Typed'
  BY <1>13, AtAPath DEF Page, Goto
<1>14. ASSUME NEW r \in Request, Rendered(r) PROVE Typed'
  BY <1>14, AtAPath DEF Rendered, End
<1>15. ASSUME NEW r \in Request, Replace(r) PROVE Typed'
  BY <1>15, AtAPath DEF Replace, Goto
<1>16. ASSUME NEW r \in Request, Replaced(r) PROVE Typed'
  BY <1>16, AtAPath DEF Replaced, End
<1>17. ASSUME NEW r \in Request, Fails(r) PROVE Typed'
  BY <1>17, AtAPath DEF Fails, End
<1>18. CASE UNCHANGED vars
  BY <1>18 DEF vars
<1> QED
  BY <1>1, <1>2, <1>3, <1>4, <1>5, <1>6, <1>7, <1>8, <1>9, <1>10, <1>11, <1>12, <1>13, <1>14,
     <1>15, <1>16, <1>17, <1>18
  DEF Next, GoOn, Begin, Work, Locked

-----------------------------------------------------------------------------
(* Identities and their files.                                             *)

DiskKept == UNCHANGED <<files, notes, download, home>>

(* The steps that leave the files alone.                                   *)
LEMMA QuietSteps ==
  ASSUME NEW r \in Request,
         \/ Begin(r) \/ IdentityPath(r) \/ (\E p \in Paths : OutPath(r, p)) \/ LoadIdentity(r)
         \/ SetIdentityPath(r) \/ Page(r) \/ Rendered(r) \/ Replace(r) \/ Replaced(r) \/ Fails(r)
  PROVE  DiskKept
  BY DEF DiskKept, disk, Begin, Receive, RunCommand, IdentityPath, OutPath, LoadIdentity,
         SetIdentityPath, Page, Rendered, Replace, Replaced, Fails

(* What a change, a creation, an import and an export leave behind.        *)
LEMMA HomesGrow ==
  ASSUME IInv, [Next]_vars
  PROVE  /\ \A d \in Dids : home[d] \subseteq home'[d]
         /\ Numbered'
<1> USE DEF IInv
<1>1. \/ UNCHANGED home
      \/ \E r \in Request : \/ CreateIdentity(r) /\ Save(r)
                            \/ ImportBackup(r)
  <2>1. ASSUME NEW r \in Request, Work(r) \/ Locked(r) \/ Begin(r),
               ~CreateIdentity(r), ~ImportBackup(r)
        PROVE  UNCHANGED home
    BY <2>1, QuietSteps DEF Work, Locked, DiskKept, Change, WriteNote, ExportBackup, ExportState
  <2> QED BY <2>1 DEF Next, GoOn, Work, vars, CreateIdentity
<1>2. CASE UNCHANGED home
  BY <1>2 DEF Numbered, Used
<1>3. ASSUME NEW r \in Request, CreateIdentity(r), Save(r)
      PROVE  /\ \A d \in Dids : home[d] \subseteq home'[d]
             /\ Numbered'
  <2>1. /\ home[NextDid] = {} /\ NextDid \in Nat /\ NextDid \in Dids
        /\ Used \cup {NextDid} = 1 .. NextDid
    BY <1>3, NewDidIsNew DEF CreateIdentity
  <2>2. home' = [home EXCEPT ![NextDid] = {path[r]}] /\ home \in [Dids -> SUBSET Paths]
    BY <1>3 DEF Save, ConsoleTypeOK
  <2> DEFINE n == NextDid
  <2>3. n \in Dids /\ n \in Nat /\ home[n] = {} /\ home' = [home EXCEPT ![n] = {path[r]}]
        /\ Used \cup {n} = 1 .. n
    BY <2>1, <2>2
  <2> HIDE DEF n
  <2>4. Used' = Used \cup {n}
    BY <2>2, <2>3 DEF Used
  <2> QED BY <2>2, <2>3, <2>4 DEF Numbered
<1>4. ASSUME NEW r \in Request, ImportBackup(r)
      PROVE  /\ \A d \in Dids : home[d] \subseteq home'[d]
             /\ Numbered'
  <2>1. download.did \in Dids /\ home[download.did] # {}
    BY <1>4 DEF ImportBackup, AllKnown, Known, ConsoleTypeOK, Content
  <2>2. home' = [home EXCEPT ![download.did] = @ \cup {path[r]}] /\ home \in [Dids -> SUBSET Paths]
    BY <1>4 DEF ImportBackup, ConsoleTypeOK
  <2>3. Used' = Used
    BY <2>1, <2>2 DEF Used
  <2> QED BY <2>1, <2>2, <2>3 DEF Numbered
<1> QED BY <1>1, <1>2, <1>3, <1>4

(* The contents of files, copies and backup, and where they may be.        *)
LEMMA ContentsTyped ==
  ASSUME ConsoleTypeOK
  PROVE  /\ \A p \in Paths : files[p] # None => files[p] \in Content /\ files[p].did \in Dids
         /\ \A r \in Request : copy[r] # None => copy[r] \in Content /\ copy[r].did \in Dids
         /\ download # None => download \in Content /\ download.did \in Dids
  BY DEF ConsoleTypeOK, Content

FilesHome == (\A p \in Paths : Known(files[p])) /\ Known(download) /\ KeysStayHome

LEMMA NextKeepsFilesHome == IInv /\ [Next]_vars => FilesHome'
<1> SUFFICES ASSUME IInv, [Next]_vars PROVE FilesHome'
  OBVIOUS
<1> USE DEF IInv
<1>1. \A d \in Dids : home[d] \subseteq home'[d]
  BY HomesGrow
<1>2. files \in [Paths -> Content \cup {None}] /\ home \in [Dids -> SUBSET Paths]
  BY DEF ConsoleTypeOK
<1>3. CASE DiskKept
  BY <1>3 DEF DiskKept, FilesHome, Known, AllKnown, KeysStayHome
<1>4. ASSUME NEW p \in Paths, NEW c \in Content, files' = [files EXCEPT ![p] = c],
             download' = download, home'[c.did] # {}, c.keys => p \in home'[c.did]
      PROVE  FilesHome'
  <2>1. ASSUME NEW q \in Paths PROVE Known(files[q])' /\
               (files'[q] # None => (files'[q].keys => q \in home'[files'[q].did]))
    <3>1. CASE q = p
      BY <1>2, <1>4, <3>1 DEF Known
    <3>2. CASE q # p
      <4>1. files'[q] = files[q]
        BY <1>2, <1>4, <3>2
      <4> QED BY <1>1, <4>1, ContentsTyped DEF AllKnown, Known, KeysStayHome
    <3> QED BY <3>1, <3>2
  <2>2. Known(download)'
    BY <1>1, <1>4, ContentsTyped DEF AllKnown, Known
  <2> QED BY <2>1, <2>2 DEF FilesHome, KeysStayHome
<1>5. ASSUME NEW r \in Request, Change(r) PROVE FilesHome'
  <2>1. path[r] \in Paths /\ copy[r] \in Content /\ copy[r].did \in Dids
    BY <1>5, AtAPath, ContentsTyped DEF Change, HeldKeysAreHome, Is, Changing
  <2>2. home[copy[r].did] # {} /\ path[r] \in home[copy[r].did]
    BY <1>5, <2>1, ConsoleAssumption DEF Change, HeldKeysAreHome, AllKnown, Known
  <2>3. files' = [files EXCEPT ![path[r]] = copy[r]] /\ download' = download
    BY <1>5 DEF Change, SavePath
  <2> QED BY <1>1, <1>4, <2>1, <2>2, <2>3
<1>6. ASSUME NEW r \in Request, CreateIdentity(r) PROVE FilesHome'
  <2> DEFINE n == NextDid
  <2>1. path[r] \in Paths /\ n \in Dids
    BY <1>6, AtAPath DEF CreateIdentity
  <2>2. /\ files' = [files EXCEPT ![path[r]] = Saved(n)] /\ download' = download
        /\ home' = [home EXCEPT ![n] = {path[r]}]
    BY <1>6 DEF CreateIdentity, Save
  <2> HIDE DEF n
  <2>3. Saved(n) \in Content /\ Saved(n).did = n /\ home'[n] = {path[r]}
    BY <1>2, <2>1, <2>2 DEF Saved, Content
  <2> QED BY <1>4, <2>1, <2>2, <2>3
<1>7. ASSUME NEW r \in Request, ImportBackup(r) PROVE FilesHome'
  <2>1. path[r] \in Paths /\ download \in Content /\ download.did \in Dids
    BY <1>7, AtAPath, ContentsTyped DEF ImportBackup
  <2>2. /\ files' = [files EXCEPT ![path[r]] = download] /\ download' = download
        /\ home' = [home EXCEPT ![download.did] = @ \cup {path[r]}]
    BY <1>7 DEF ImportBackup
  <2>3. path[r] \in home'[download.did]
    BY <1>2, <2>1, <2>2
  <2> QED BY <1>4, <2>1, <2>2, <2>3
<1>8. ASSUME NEW r \in Request, NEW out \in Paths, ExportState(r, out) PROVE FilesHome'
  <2>1. copy[r] \in Content /\ copy[r] # None /\ copy[r].did \in Dids
    BY <1>8, ContentsTyped DEF ExportState, HeldKeysAreHome, Is
  <2>2. /\ PublicState(copy[r]) \in Content /\ ~PublicState(copy[r]).keys
        /\ PublicState(copy[r]).did = copy[r].did
    BY <2>1 DEF PublicState, Content
  <2>3. home'[copy[r].did] # {}
    BY <1>1, <2>1 DEF AllKnown, Known
  <2>4. files' = [files EXCEPT ![out] = PublicState(copy[r])] /\ download' = download
    BY <1>8 DEF ExportState
  <2> QED BY <1>4, <2>2, <2>3, <2>4
<1>9. ASSUME NEW r \in Request, ExportBackup(r) PROVE FilesHome'
  <2>1. /\ path[r] \in Paths /\ files[path[r]] # None
        /\ UNCHANGED <<files, home>> /\ download' = files[path[r]]
    BY <1>9, AtAPath DEF ExportBackup
  <2> QED BY <2>1 DEF FilesHome, AllKnown, Known, KeysStayHome
<1>10. ASSUME NEW r \in Request, WriteNote(r) PROVE FilesHome'
  BY <1>10 DEF WriteNote, FilesHome, AllKnown, Known, KeysStayHome
<1>11. UNCHANGED vars => DiskKept
  BY DEF vars, DiskKept
<1> QED
  BY <1>3, <1>5, <1>6, <1>7, <1>8, <1>9, <1>10, <1>11, QuietSteps
  DEF Next, GoOn, Work, Locked

(* Notes are written beside the file from which the request loaded.        *)
LEMMA NextKeepsNotes == IInv /\ [Next]_vars => NotesBesideTheirIdentity'
<1> SUFFICES ASSUME IInv, [Next]_vars PROVE NotesBesideTheirIdentity'
  OBVIOUS
<1> USE DEF IInv
<1>1. \A d \in Dids : home[d] \subseteq home'[d]
  BY HomesGrow
<1>2. \A note \in notes : note.did \in Dids
  BY DEF ConsoleTypeOK
<1>3. UNCHANGED notes \/ \E r \in Request : WriteNote(r)
  <2>1. ASSUME NEW r \in Request, Work(r) \/ Locked(r) \/ Begin(r), ~WriteNote(r)
        PROVE  UNCHANGED notes
    BY <2>1, QuietSteps DEF Work, Locked, DiskKept, Change, CreateIdentity, Save, ExportBackup,
                            ImportBackup, ExportState
  <2> QED BY <2>1 DEF Next, GoOn, vars
<1>4. CASE UNCHANGED notes
  BY <1>1, <1>2, <1>4 DEF NotesBesideTheirIdentity
<1>5. ASSUME NEW r \in Request, WriteNote(r) PROVE NotesBesideTheirIdentity'
  <2>1. copy[r].did \in Dids /\ path[r] \in home[copy[r].did] /\ UNCHANGED home
    BY <1>5, ContentsTyped DEF WriteNote, HeldKeysAreHome
  <2>2. notes' = notes \cup {[dir |-> path[r].dir, did |-> copy[r].did]}
    BY <1>5 DEF WriteNote, NoteDir
  <2> QED BY <2>1, <2>2 DEF NotesBesideTheirIdentity
<1> QED BY <1>3, <1>4, <1>5

-----------------------------------------------------------------------------
(* Requests at work.                                                       *)

(* A request that neither begins nor loads keeps what it held, or drops it.*)
HeldBy(r) ==
    /\ Known(copy[r])
    /\ pc[r] \in {"loaded", "saved"} /\ copy[r] # None =>
          (copy[r].keys => path[r] \in home[copy[r].did])
    /\ pc[r] = "loaded" /\ ~Is(r, {"page"}) => copy[r] # None
    /\ pc[r] = "saved" => copy[r] # None /\ copy[r].keys
    /\ pc[r] = "created" => \E d \in Dids : path[r] \in home[d]

LEMMA HeldStays ==
  ASSUME ConsoleTypeOK, NEW r \in Request, HeldBy(r),
         \A d \in Dids : home[d] \subseteq home'[d],
         pc'[r] = pc[r], op'[r] = op[r], path'[r] = path[r], copy'[r] = copy[r]
  PROVE  HeldBy(r)'
<1>1. copy[r] # None => copy[r].did \in Dids
  BY ContentsTyped
<1>2. Known(copy[r])'
  BY <1>1 DEF HeldBy, Known
<1> QED BY <1>1, <1>2 DEF HeldBy, Is

LEMMA NextKeepsHeld == IInv /\ [Next]_vars => \A r \in Request : HeldBy(r)'
<1> SUFFICES ASSUME IInv, [Next]_vars PROVE \A r \in Request : HeldBy(r)'
  OBVIOUS
<1> USE DEF IInv
<1>1. \A d \in Dids : home[d] \subseteq home'[d]
  BY HomesGrow
<1>2. \A r \in Request : HeldBy(r)
  BY DEF HeldBy, AllKnown, HeldKeysAreHome, CreatedWasSaved
<1>3. CASE UNCHANGED vars
  BY <1>1, <1>2, <1>3, HeldStays DEF vars
<1>4. ASSUME NEW r \in Request, Work(r) \/ Locked(r) \/ Begin(r)
      PROVE  \A q \in Request : HeldBy(q)'
  <2>1. ASSUME NEW q \in Request, q # r
        PROVE  pc'[q] = pc[q] /\ op'[q] = op[q] /\ path'[q] = path[q] /\ copy'[q] = copy[q]
    BY <1>4, <2>1
    DEF Work, Locked, Begin, Receive, RunCommand, IdentityPath, OutPath, LoadIdentity, Change,
        WriteNote, CreateIdentity, SetIdentityPath, ExportBackup, ImportBackup, ExportState, Page,
        Rendered, Replace, Replaced, Fails, Goto, End, ConsoleTypeOK, OpOK
  <2>2. ASSUME NEW q \in Request, q # r PROVE HeldBy(q)'
    BY <1>1, <1>2, <2>1, <2>2, HeldStays
  <2>3. HeldBy(r)'
    <3>1. copy[r] # None => copy[r].did \in Dids /\ home'[copy[r].did] # {}
      BY <1>1, ContentsTyped DEF AllKnown, Known
    <3>2. CASE copy'[r] \in {copy[r], None} /\ pc'[r] \notin {"loaded", "saved", "created"}
      BY <3>1, <3>2 DEF HeldBy, Known
    <3>3. CASE LoadIdentity(r) /\ pc'[r] = "loaded"
      <4>1. /\ path[r] \in Paths /\ path'[r] = path[r] /\ op'[r] = op[r]
            /\ copy'[r] = files[path[r]] /\ UNCHANGED home
            /\ Is(r, {"page"}) \/ copy'[r] # None
        BY <3>3, AtAPath DEF LoadIdentity, Goto, End, ConsoleTypeOK, disk
      <4>2. copy'[r] # None => (copy'[r].keys => path[r] \in home[copy'[r].did])
        BY <4>1 DEF KeysStayHome
      <4>3. Known(copy[r])'
        BY <4>1 DEF AllKnown, Known
      <4> QED BY <3>3, <4>1, <4>2, <4>3 DEF HeldBy, Is
    <3>4. CASE Change(r) /\ pc'[r] = "saved"
      <4>1. /\ pc[r] = "loaded" /\ copy[r] # None /\ copy[r].keys /\ UNCHANGED home
            /\ path'[r] = path[r] /\ copy'[r] = copy[r]
        BY <3>4 DEF Change, Goto, End, ConsoleTypeOK, HeldKeysAreHome, Is, Changing
      <4>2. path[r] \in home[copy[r].did]
        BY <4>1 DEF HeldKeysAreHome
      <4> QED BY <1>2, <3>4, <4>1, <4>2 DEF HeldBy, Known
    <3>5. CASE CreateIdentity(r) /\ pc'[r] = "created"
      <4> DEFINE n == NextDid
      <4>1. /\ path'[r] = path[r] /\ copy'[r] = copy[r] /\ n \in Dids
            /\ home' = [home EXCEPT ![n] = {path[r]}]
        BY <3>5 DEF CreateIdentity, Save, Goto, End, ConsoleTypeOK
      <4> HIDE DEF n
      <4>2. path[r] \in home'[n]
        BY <4>1 DEF ConsoleTypeOK
      <4>3. Known(copy[r])'
        BY <3>1, <4>1 DEF Known
      <4> QED BY <3>5, <4>1, <4>2, <4>3 DEF HeldBy
    <3>6. \/ copy'[r] \in {copy[r], None} /\ pc'[r] \notin {"loaded", "saved", "created"}
          \/ LoadIdentity(r) /\ pc'[r] = "loaded"
          \/ Change(r) /\ pc'[r] = "saved"
          \/ CreateIdentity(r) /\ pc'[r] = "created"
      BY <1>4
      DEF Work, Locked, Begin, Receive, RunCommand, IdentityPath, OutPath, LoadIdentity, Change,
          WriteNote, CreateIdentity, SetIdentityPath, ExportBackup, ImportBackup, ExportState, Page,
          Rendered, Replace, Replaced, Fails, Goto, End, ConsoleTypeOK
    <3> QED BY <3>2, <3>3, <3>4, <3>5, <3>6
  <2> QED BY <2>2, <2>3
<1> QED BY <1>3, <1>4 DEF Next, GoOn

(* Selecting is the only step that moves the console's path.               *)
LEMMA NextKeepsCurrentPath == IInv /\ [Next]_vars => CurrentPathWasSaved'
<1> SUFFICES ASSUME IInv, [Next]_vars PROVE CurrentPathWasSaved'
  OBVIOUS
<1> USE DEF IInv
<1>1. \A d \in Dids : home[d] \subseteq home'[d]
  BY HomesGrow
<1>2. \/ UNCHANGED identityPath
      \/ \E r \in Request : pc[r] = "created" /\ identityPath' = path[r]
  BY DEF Next, GoOn, vars, Work, Locked, Begin, Receive, RunCommand, IdentityPath, OutPath,
         LoadIdentity, Change, WriteNote, CreateIdentity, SetIdentityPath, ExportBackup,
         ImportBackup, ExportState, Page, Rendered, Replace, Replaced, Fails
<1> QED BY <1>1, <1>2 DEF CurrentPathWasSaved, CreatedWasSaved

-----------------------------------------------------------------------------
LEMMA InitIInv == Init => IInv
<1> SUFFICES ASSUME Init PROVE IInv
  OBVIOUS
<1>1. Typed
  BY InitTyped
<1>2. PICK before \in {{}, {1}} \cap SUBSET Dids :
        /\ files = [p \in Paths |-> IF before # {} /\ p = StartPath THEN Saved(1) ELSE None]
        /\ home = [d \in Dids |-> IF d \in before THEN {StartPath} ELSE {}]
        /\ download \in {None} \cup {Saved(d) : d \in before}
  BY DEF Init
<1>3. Used = before
  BY <1>2 DEF Used
<1>4. Numbered
  <2>1. {} = 1 .. 0 /\ {1} = 1 .. 1
    OBVIOUS
  <2> QED BY <1>2, <1>3, <2>1 DEF Numbered
<1>5. AllKnown /\ KeysStayHome
  <2>1. \A d : Saved(d).did = d
    BY DEF Saved
  <2>2. before # {} => before = {1} /\ 1 \in Dids /\ home[1] = {StartPath}
    BY <1>2
  <2>3. \A p \in Paths : files[p] # None => p = StartPath /\ files[p] = Saved(1) /\ before # {}
    BY <1>2
  <2>4. download # None => download = Saved(1) /\ before # {}
    BY <1>2
  <2> QED BY <2>1, <2>2, <2>3, <2>4 DEF AllKnown, Known, KeysStayHome, Init
<1>6. HeldKeysAreHome /\ NotesBesideTheirIdentity /\ CreatedWasSaved /\ CurrentPathWasSaved
  BY DEF Init, HeldKeysAreHome, NotesBesideTheirIdentity, CreatedWasSaved, CurrentPathWasSaved
<1> QED BY <1>1, <1>4, <1>5, <1>6 DEF IInv, Typed

LEMMA NextKeepsIInv == IInv /\ [Next]_vars => IInv'
<1> SUFFICES ASSUME IInv, [Next]_vars PROVE IInv'
  OBVIOUS
<1>1. Typed'
  BY NextKeepsTyped
<1>2. Numbered'
  BY HomesGrow
<1>3. FilesHome' /\ (\A r \in Request : HeldBy(r)')
  BY NextKeepsFilesHome, NextKeepsHeld
<1>4. NotesBesideTheirIdentity' /\ CurrentPathWasSaved'
  BY NextKeepsNotes, NextKeepsCurrentPath
<1> QED
  BY <1>1, <1>2, <1>3, <1>4
  DEF IInv, Typed, FilesHome, HeldBy, AllKnown, HeldKeysAreHome, CreatedWasSaved

-----------------------------------------------------------------------------
(* Requests and commands keep their types, and only the request that is    *)
(* closing an earlier publication holds the mutex (service.go 616-625).    *)
THEOREM ConsoleTypeCorrect == Spec => []ConsoleTypeOK
<1>1. IInv => ConsoleTypeOK
  BY DEF IInv
<1> QED BY <1>1, InitIInv, NextKeepsIInv, PTL DEF Spec

(* However many requests create, select, restore and change identities at  *)
(* a time, each saves where it loaded: no key leaves its identity's files. *)
THEOREM KeysNeverStray == Spec => []KeysStayHome
<1>1. IInv => KeysStayHome
  BY DEF IInv
<1> QED BY <1>1, InitIInv, NextKeepsIInv, PTL DEF Spec

(* The same for the notes that AddMemory writes after the identity is saved.*)
THEOREM NotesNeverStray == Spec => []NotesBesideTheirIdentity
<1>1. IInv => NotesBesideTheirIdentity
  BY DEF IInv
<1> QED BY <1>1, InitIInv, NextKeepsIInv, PTL DEF Spec

(* CreateIdentity selects a path only after it has saved there, and nothing*)
(* else selects: the console is never moved to where no identity was.      *)
THEOREM CurrentPathIsSaved == Spec => []CurrentPathWasSaved
<1>1. IInv => CurrentPathWasSaved
  BY DEF IInv
<1> QED BY <1>1, InitIInv, NextKeepsIInv, PTL DEF Spec

-----------------------------------------------------------------------------
(* How requests go on.                                                     *)

Rank(at) ==
    CASE at = "idle" -> 0
      [] at = "received" -> 1
      [] at = "located" -> 2
      [] at = "loaded" -> 3
      [] at = "ended" -> 5
      [] OTHER -> 4

(* One request goes on, the others stay where they are.                    *)
Advances(r) ==
    /\ Rank(pc'[r]) > Rank(pc[r])
    /\ \A q \in Request \ {r} : pc'[q] = pc[q]

LEMMA StepAdvances ==
  ASSUME ConsoleTypeOK, NEW r \in Request, Work(r) \/ Locked(r) \/ Begin(r)
  PROVE  Advances(r)
<1>1. pc \in [Request -> {"idle", "ended", "received", "located", "loaded", "saved", "created",
                          "rendered", "replacing"}]
  BY DEF ConsoleTypeOK
<1>2. ASSUME NEW to, pc' = [pc EXCEPT ![r] = to], Rank(to) > Rank(pc[r])
      PROVE  Advances(r)
  BY <1>1, <1>2 DEF Advances
<1>3. CASE Begin(r)
  <2>1. PICK to \in {"received", "located"} :
          pc[r] = "idle" /\ pc' = [pc EXCEPT ![r] = to]
    BY <1>3 DEF Begin, Receive, RunCommand
  <2>2. Rank(to) > Rank(pc[r])
    BY <2>1 DEF Rank
  <2> QED BY <2>1, <2>2, <1>2
<1>4. CASE IdentityPath(r) \/ \E out \in Paths : OutPath(r, out)
  <2>1. PICK to \in {"located"} : pc[r] = "received" /\ pc' = [pc EXCEPT ![r] = to]
    BY <1>4 DEF IdentityPath, OutPath, Goto
  <2>2. Rank(to) > Rank(pc[r])
    BY <2>1 DEF Rank
  <2> QED BY <2>1, <2>2, <1>2
<1>5. CASE \/ LoadIdentity(r) \/ CreateIdentity(r) \/ ExportBackup(r) \/ ImportBackup(r)
  <2>1. PICK to \in {"loaded", "created", "ended"} :
          pc[r] = "located" /\ pc' = [pc EXCEPT ![r] = to]
    BY <1>5 DEF LoadIdentity, CreateIdentity, ExportBackup, ImportBackup, Goto, End
  <2>2. Rank(to) > Rank(pc[r])
    BY <2>1 DEF Rank
  <2> QED BY <2>1, <2>2, <1>2
<1>6. CASE Change(r) \/ Page(r) \/ Replace(r) \/ \E out \in Paths : ExportState(r, out)
  <2>1. PICK to \in {"saved", "rendered", "replacing", "ended"} :
          pc[r] = "loaded" /\ pc' = [pc EXCEPT ![r] = to]
    BY <1>6 DEF Change, Page, Replace, ExportState, Goto, End
  <2>2. Rank(to) > Rank(pc[r])
    BY <2>1 DEF Rank
  <2> QED BY <2>1, <2>2, <1>2
<1>7. CASE WriteNote(r) \/ SetIdentityPath(r) \/ Rendered(r) \/ Replaced(r) \/ Fails(r)
  <2>1. PICK to \in {"ended"} :
          /\ pc[r] \in {"saved", "created", "rendered", "replacing", "located", "loaded"}
          /\ pc' = [pc EXCEPT ![r] = to]
    BY <1>7 DEF WriteNote, SetIdentityPath, Rendered, Replaced, Fails, End, ConsoleTypeOK
  <2>2. Rank(to) > Rank(pc[r])
    BY <2>1 DEF Rank
  <2> QED BY <2>1, <2>2, <1>2
<1> QED BY <1>3, <1>4, <1>5, <1>6, <1>7 DEF Work, Locked

RequestsOnlyAdvance == [][\E r \in Request : Advances(r)]_vars

(* Every step of the console moves one request on, and none ever goes back *)
(* or holds another up by moving it: whatever they wait for, requests end  *)
(* after at most five steps each.  What is left of EveryRequestEnds is that*)
(* the steps are taken.                                                    *)
THEOREM RequestsAdvance == Spec => RequestsOnlyAdvance
<1> DEFINE Advance == \E r \in Request : Advances(r)
<1>1. IInv /\ [Next]_vars => [Advance]_vars
  BY StepAdvances DEF IInv, Next, GoOn
<1> HIDE DEF Advance
<1>2. IInv /\ [Next]_vars => [Advance]_vars
  BY <1>1
<1>3. RequestsOnlyAdvance <=> [][Advance]_vars
  BY PTL DEF RequestsOnlyAdvance, Advance
<1> QED BY <1>2, <1>3, InitIInv, NextKeepsIInv, PTL DEF Spec

LEMMA PathStays ==
  ASSUME ConsoleTypeOK, NEW r \in Request, Work(r) \/ Locked(r) \/ Begin(r),
         NEW q \in Request, path[q] # None
  PROVE  path'[q] \in {path[q], None}
<1>1. pc[q] \notin {"idle", "received"} /\ path \in [Request -> Paths \cup {None}]
  BY DEF ConsoleTypeOK
<1>2. CASE Begin(r)
  BY <1>1, <1>2 DEF Begin, Receive, RunCommand
<1>3. CASE IdentityPath(r) \/ \E out \in Paths : OutPath(r, out)
  BY <1>1, <1>3 DEF IdentityPath, OutPath
<1>4. CASE path' = path \/ path' = [path EXCEPT ![r] = None]
  BY <1>1, <1>4
<1> QED
  BY <1>2, <1>3, <1>4
  DEF Work, Locked, LoadIdentity, Change, WriteNote, CreateIdentity, SetIdentityPath, ExportBackup,
      ImportBackup, ExportState, Page, Rendered, Replace, Replaced, Fails, Goto, End

PathsAreKept ==
    [][/\ \A d \in Dids : home[d] \subseteq home'[d]
       /\ \A r \in Request : path[r] # None => path'[r] \in {path[r], None}]_vars

(* A request works on the path it read first until it ends, whatever the   *)
(* console selects meanwhile (loadIdentityWithPath, service.go 707-714,    *)
(* reads it once), and where an identity was saved is never forgotten.     *)
THEOREM PathsKept == Spec => PathsAreKept
<1> DEFINE Kept == /\ \A d \in Dids : home[d] \subseteq home'[d]
                   /\ \A r \in Request : path[r] # None => path'[r] \in {path[r], None}
<1>1. IInv /\ [Next]_vars => [Kept]_vars
  BY HomesGrow, PathStays DEF IInv, Next, GoOn
<1> HIDE DEF Kept
<1>2. IInv /\ [Next]_vars => [Kept]_vars
  BY <1>1
<1>3. PathsAreKept <=> [][Kept]_vars
  BY PTL DEF PathsAreKept, Kept
<1> QED BY <1>2, <1>3, InitIInv, NextKeepsIInv, PTL DEF Spec

=============================================================================
