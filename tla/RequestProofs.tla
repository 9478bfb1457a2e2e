--------------------------- MODULE RequestProofs ---------------------------
(***************************************************************************)
(* DriveRequests for any number of requests, ids, names and trashings,     *)
(* whatever overlaps and whatever fails.                                   *)
(*                                                                         *)
(* The code serialises nothing, so no property here is kept for ever: each *)
(* is lost to some overlap (sections 4 and 5 of the README say to which).  *)
(* A theorem says how: until a read of the kinds it names has been made    *)
(* stale by another request (`overtaken'), or a failure has left the very  *)
(* file halfway (`torn'), the property is there.  Its induction rests on   *)
(* the reads that still stand (Stands): a handler's own steps establish    *)
(* and use them, and a step of another that spoils one is, by definition,  *)
(* what sets `overtaken'.                                                  *)
(***************************************************************************)
EXTENDS DriveRequests, DriveTreeProofs

LocalRow == [op     : OpName \cup {"none"},
             step   : Step,
             folder : FolderId \cup {Null},
             dest   : FolderId \cup {Null},
             name   : Name \cup {Null},
             file   : FileId \cup {Null},
             ids    : SUBSET FolderId,
             rows   : SUBSET FileId,
             left   : SUBSET FileId,
             marked : SUBSET FileId,
             cutoff : 0..MaxClock + 1,
             stamp  : Time]

OpeningSteps == {"createUpload", "insertFile"}
UploadSteps  == OpeningSteps \cup {"abortUpload"}
DeleteSteps  == {"abortPending", "trashFile", "deleteObject", "deleteThumb", "deleteRow"}
PurgeSteps   == {"purge", "purgeThumb", "purgeRow", "purgeFolders"}

\* What a handler is doing, by the call it makes next.
Doing(r) ==
  /\ At(r, "idle") => req[r] = Idle
  /\ At(r, "insertFolder") => req[r].op = "createFolder"
  /\ req[r].step \in PatchSteps => req[r].op = "patchFolder"
  /\ req[r].step \in TrashSteps \cup DoomedSteps => req[r].op = "deleteFolder"
  /\ req[r].step \in RestoreSteps => req[r].op = "restoreFolder"
  /\ req[r].step \in UploadSteps => req[r].op = "initiateUpload"
  /\ req[r].step \in CompleteSteps => req[r].op = "completeUpload"
  /\ req[r].step \in {"readDest", "updateFile"} => req[r].op = "patchFile"
  /\ req[r].step \in DeleteSteps => req[r].op = "deleteFile"
  /\ req[r].step \in {"readHome", "restoreFileRow"} => req[r].op = "restoreFile"
  /\ req[r].step \in ThumbSteps => req[r].op = "thumbnail"
  /\ req[r].step \in CleanupSteps => req[r].op = "cleanup"
  /\ req[r].step \in PurgeSteps => req[r].op = "purge"

\* Its parameters.
Holds(r) ==
  /\ At(r, "insertFolder") =>
       req[r].folder \in SubfolderId /\ req[r].dest \in FolderId /\ req[r].name \in Name
  /\ req[r].step \in PatchSteps =>
       req[r].folder \in FolderId \ {Root} /\ req[r].dest \in FolderId /\ req[r].name \in Name
  /\ req[r].step \in TrashSteps \cup DoomedSteps => req[r].folder \in FolderId \ {Root}
  /\ req[r].step \in RestoreSteps => req[r].folder \in FolderId
  /\ req[r].step \in UploadSteps =>
       req[r].file \in FileId /\ req[r].dest \in FolderId /\ req[r].name \in Name
  /\ At(r, "updateFile") \/ At(r, "readDest") => req[r].name \in Name
  /\ req[r].step \in CompleteSteps \cup DeleteSteps \cup ThumbSteps
       \cup {"readDest", "updateFile", "readHome", "restoreFileRow",
             "cleanupRow", "purgeThumb", "purgeRow"} => req[r].file \in FileId

\* What a request remembers of the tables.  An id the client sent as a
\* destination counts from when the handler has found its row.
Knows(r, d) == \/ d = req[r].folder \/ d \in req[r].ids
               \/ d = req[r].dest /\ req[r].step \notin {"readNewParent", "readDest"}
KnowsFile(r, f) == f = req[r].file \/ f \in req[r].rows

\* A UUID is nobody else's until its INSERT.
Fresh(q) ==
  /\ At(q, "insertFolder") =>
       /\ req[q].folder \notin DOMAIN folders
       /\ \A r \in Request \ {q} : ~Knows(r, req[q].folder)
  /\ req[q].step \in OpeningSteps =>
       /\ req[q].file \notin DOMAIN files \cup objects \cup thumbs
       /\ \A r \in Request \ {q} : ~KnowsFile(r, req[q].file)
  /\ req[q].left \subseteq req[q].rows

\* The clock's room for the trashings begun, and the time of an open one.
ClockRoom  == IsFiniteSet(Trashers) /\ clock + Cardinality(Trashers) <= MaxClock
Stamped(r) == At(r, "trashTree") => req[r].stamp \in 1..clock

HandlerInv ==
  /\ ReqTypeOK
  /\ \A r \in Request : Doing(r) /\ Holds(r) /\ Fresh(r) /\ Stamped(r)
  /\ ClockRoom

\* A step of one request, or of one script.
StepOf(r) ==
  /\ \/ /\ StartFolderRequest(r) \/ StartFileRequest(r) \/ StartScript(r) \/ Continue(r)
        /\ UNCHANGED <<failed, skipped, torn>>
     \/ (Fail(r) \/ Skip(r)) /\ failed' = TRUE
  /\ overtaken' = overtaken \cup Overtakes(r)

-----------------------------------------------------------------------------
(* Who moves.                                                              *)

LEMMA Locals ==
  ASSUME ReqTypeOK
  PROVE  /\ req \in [Request -> LocalRow]
         /\ \A r \in Request : req[r] \in LocalRow
BY DEF ReqTypeOK, LocalRow

LEMMA IdleIsLocal == Idle \in LocalRow
BY MaxClockAssumption DEF Idle, LocalRow, Step, Time

\* The three ways a request moves on.
LEMMA GoMoves ==
  ASSUME ReqTypeOK, NEW r \in Request, NEW s, Go(r, s)
  PROVE  /\ DOMAIN req' = Request
         /\ \A q \in Request \ {r} : req'[q] = req[q]
         /\ req'[r] = [req[r] EXCEPT !.step = s]
         /\ req'[r].step = s /\ req'[r].op = req[r].op
         /\ req'[r].folder = req[r].folder /\ req'[r].dest = req[r].dest
         /\ req'[r].name = req[r].name /\ req'[r].file = req[r].file
         /\ req'[r].ids = req[r].ids /\ req'[r].rows = req[r].rows
         /\ req'[r].left = req[r].left /\ req'[r].marked = req[r].marked
         /\ req'[r].cutoff = req[r].cutoff /\ req'[r].stamp = req[r].stamp
         /\ s \in Step => req' \in [Request -> LocalRow]
BY Locals DEF Go, LocalRow

LEMMA DoneMoves ==
  ASSUME ReqTypeOK, NEW r \in Request, Done(r)
  PROVE  /\ DOMAIN req' = Request
         /\ \A q \in Request \ {r} : req'[q] = req[q]
         /\ req'[r] = Idle
         /\ req' \in [Request -> LocalRow]
BY Locals, IdleIsLocal DEF Done

LEMMA BeginMoves ==
  ASSUME ReqTypeOK, NEW r \in Request, NEW op, NEW l, Begin(r, op, l)
  PROVE  /\ DOMAIN req' = Request
         /\ \A q \in Request \ {r} : req'[q] = req[q]
         /\ req'[r] = [l EXCEPT !.op = op]
         /\ req[r] = Idle /\ op \in OpName
         /\ l \in LocalRow => req' \in [Request -> LocalRow]
BY Locals, OpsAssumption DEF Begin, LocalRow

-----------------------------------------------------------------------------
(* A step ends the request, or goes on to the handler's next call, or      *)
(* reads what the handler will need.                                       *)

\* A request that goes from one step to the next of the same handler.
Onward == {<<"readNewParent", "checkCycle">>, <<"checkCycle", "updateFolder">>,
           <<"readParent", "readSubtreeToRestore">>,
           <<"createUpload", "insertFile">>, <<"insertFile", "abortUpload">>,
           <<"stitch", "markComplete">>, <<"readDest", "updateFile">>,
           <<"abortPending", "deleteRow">>, <<"deleteObject", "deleteThumb">>,
           <<"deleteObject", "deleteRow">>, <<"deleteThumb", "deleteRow">>,
           <<"readHome", "restoreFileRow">>, <<"readSource", "putThumb">>,
           <<"readSource", "markFailed">>, <<"putThumb", "markReady">>,
           <<"putThumb", "markFailed">>, <<"markReady", "markFailed">>,
           <<"markReady", "presignThumb">>, <<"presignThumb", "markFailed">>,
           <<"cleanupRow", "cleanup">>, <<"purgeThumb", "purgeRow">>, <<"purgeRow", "purge">>}

Passes(r) == \E s, t : /\ <<s, t>> \in Onward /\ At(r, s) /\ Go(r, t)
                       /\ s \in {"readNewParent", "readDest"} => LiveFolder(req[r].dest)

LooksUp(r) == ReadSubtree(r) \/ ReadDoomed(r) \/ (ReadOldFolders(r) /\ ~Done(r))

Loops(r) == \/ \E f \in FileId : DeleteStored(r, f) \/ TakeUpCleanup(r, f) \/ TakeUpPurge(r, f)
            \/ (\E d \in FolderId : PurgeFolderRow(r, d)) /\ ~Done(r)

LEMMA Kinds ==
  ASSUME NEW r, StepOf(r)
  PROVE  \/ StartFolderRequest(r) \/ StartFileRequest(r) \/ StartScript(r)
         \/ Done(r)
         \/ Passes(r) \/ LooksUp(r) \/ BeginTrash(r) \/ Loops(r)
<1>1. ASSUME NEW s, NEW t, <<s, t>> \in Onward, At(r, s), Go(r, t),
             s \in {"readNewParent", "readDest"} => LiveFolder(req[r].dest)
      PROVE  Passes(r)
  BY <1>1 DEF Passes
<1>2. CASE Continue(r)
  <2>1. CASE \/ InsertFolder(r) \/ ReadNewParent(r) \/ CheckCycle(r) \/ UpdateFolder(r)
             \/ TrashTree(r) \/ DeleteFolderRow(r) \/ ReadParent(r) \/ RestoreTree(r)
    BY <1>1, <2>1 DEF Onward, InsertFolder, ReadNewParent, CheckCycle, UpdateFolder,
                      TrashTree, DeleteFolderRow, ReadParent, RestoreTree
  <2>2. CASE \/ CreateUpload(r) \/ InsertFile(r) \/ AbortUpload(r) \/ Stitch(r) \/ MarkComplete(r)
             \/ ReadDest(r) \/ UpdateFile(r) \/ ReadHome(r) \/ RestoreFileRow(r)
    BY <1>1, <2>2 DEF Onward, CreateUpload, InsertFile, InsertRow, AbortUpload, Stitch, MarkComplete,
                      ReadDest, UpdateFile, ReadHome, RestoreFileRow
  <2>3. CASE \/ AbortPending(r) \/ TrashFileRow(r) \/ DeleteObject(r) \/ DeleteThumb(r) \/ DeleteRow(r)
    BY <1>1, <2>3 DEF Onward, AbortPending, TrashFileRow, DeleteObject, DeleteThumb, DeleteRow
  <2>4. CASE \/ ReadSource(r) \/ PutThumb(r) \/ MarkReady(r) \/ PresignThumb(r) \/ MarkFailed(r)
             \/ CleanupRow(r) \/ PurgeThumb(r) \/ PurgeRow(r)
    BY <1>1, <2>4 DEF Onward, ReadSource, PutThumb, StoreThumb, MarkReady, WriteReady, PresignThumb,
                      MarkFailed, CleanupRow, PurgeThumb, PurgeRow
  <2>5. CASE \/ ReadSubtree(r) \/ BeginTrash(r) \/ ReadDoomed(r) \/ ReadOldFolders(r)
             \/ \E f \in FileId : DeleteStored(r, f) \/ CleanupAbort(r, f) \/ PurgeObject(r, f)
             \/ \E d \in FolderId : PurgeFolderRow(r, d)
    BY <2>5 DEF LooksUp, Loops, CleanupAbort, PurgeObject
  <2> QED BY <1>2, <2>1, <2>2, <2>3, <2>4, <2>5 DEF Continue
<1>3. CASE Fail(r)
  <2>1. CASE Die(r)
    BY <2>1 DEF Die
  <2>2. CASE Catch(r)
    BY <1>1, <2>2 DEF Catch, Onward, At
  <2>3. CASE CatchAfter(r)
    BY <1>1, <2>3 DEF CatchAfter, InsertRow, StoreThumb, WriteReady, Onward, At
  <2> QED BY <1>3, <2>1, <2>2, <2>3 DEF Fail
<1>4. CASE Skip(r)
  BY <1>1, <1>4 DEF Skip, Onward, Loops
<1> QED BY <1>2, <1>3, <1>4 DEF StepOf

\* What has moved is doing what it says, with the parameters it needs.
Moved(r) ==
  /\ req' \in [Request -> LocalRow]
  /\ \A q \in Request \ {r} : req'[q] = req[q]
  /\ Doing(r)' /\ Holds(r)'

LEMMA SubtreeIdsAreIds ==
  ASSUME TypeOK
  PROVE  \A d : SubtreeIds(d) \subseteq DOMAIN folders /\ SubtreeIds(d) \subseteq FolderId
BY DEF SubtreeIds, Subtree, TypeOK

LEMMA FolderStartMoved ==
  ASSUME HandlerInv, NEW r \in Request, StartFolderRequest(r)
  PROVE  Moved(r)
<1> USE DEF At
<1>0. Idle \in LocalRow /\ ReqTypeOK /\ TypeOK
  BY IdleIsLocal DEF HandlerInv, ReqTypeOK
<1>1. CASE \E d \in SubfolderId, p \in FolderId, n \in Name : StartCreateFolder(r, d, p, n)
  <2>1. PICK d \in SubfolderId, p \in FolderId, n \in Name : StartCreateFolder(r, d, p, n)
    BY <1>1
  <2> DEFINE l == [Idle EXCEPT !.step = "insertFolder", !.folder = d, !.dest = p, !.name = n]
  <2>2. l \in LocalRow /\ Begin(r, "createFolder", l)
    BY ZenonT(30), <1>0, <2>1 DEF LocalRow, Step, FolderId, StartCreateFolder
  <2>3. /\ req' \in [Request -> LocalRow] /\ \A q \in Request \ {r} : req'[q] = req[q]
        /\ req'[r] = [l EXCEPT !.op = "createFolder"]
    <3> HIDE DEF l
    <3> QED BY <1>0, <2>2, BeginMoves
  <2>4. /\ req'[r].op = "createFolder" /\ req'[r].step = "insertFolder"
        /\ req'[r].folder = d /\ req'[r].dest = p /\ req'[r].name = n
    BY <2>3 DEF Idle
  <2> QED BY <2>3, <2>4 DEF Moved, Doing, Holds, PatchSteps, TrashSteps, DoomedSteps, RestoreSteps,
             UploadSteps, OpeningSteps, CompleteSteps, DeleteSteps, ThumbSteps, CleanupSteps, PurgeSteps
<1>2. CASE \E d \in FolderId, p \in FolderId, n \in Name : StartPatchFolder(r, d, p, n)
  <2>1. PICK d \in FolderId, p \in FolderId, n \in Name : StartPatchFolder(r, d, p, n)
    BY <1>2
  <2>2. PICK s \in {"updateFolder", "readNewParent"} :
          Begin(r, "patchFolder", [Idle EXCEPT !.step = s, !.folder = d, !.dest = p, !.name = n])
    BY <2>1 DEF StartPatchFolder
  <2> DEFINE l == [Idle EXCEPT !.step = s, !.folder = d, !.dest = p, !.name = n]
  <2>3. l \in LocalRow
    BY <1>0 DEF LocalRow, Step
  <2>4. /\ req' \in [Request -> LocalRow] /\ \A q \in Request \ {r} : req'[q] = req[q]
        /\ req'[r] = [l EXCEPT !.op = "patchFolder"]
    BY ZenonT(30), <1>0, <2>2, <2>3, BeginMoves
  <2>5. /\ req'[r].op = "patchFolder" /\ req'[r].step = s /\ d # Root
        /\ req'[r].folder = d /\ req'[r].dest = p /\ req'[r].name = n
    BY <2>1, <2>4 DEF Idle, StartPatchFolder
  <2> QED BY <2>4, <2>5 DEF Moved, Doing, Holds, PatchSteps, TrashSteps, DoomedSteps, RestoreSteps,
             UploadSteps, OpeningSteps, CompleteSteps, DeleteSteps, ThumbSteps, CleanupSteps, PurgeSteps
<1>3. CASE \E d \in FolderId : StartDeleteFolder(r, d)
  <2>1. PICK d \in FolderId : StartDeleteFolder(r, d)
    BY <1>3
  <2>2. PICK s \in {"readSubtreeToTrash", "readSubtreeToDelete"} :
          Begin(r, "deleteFolder", [Idle EXCEPT !.step = s, !.folder = d])
    BY <2>1 DEF StartDeleteFolder
  <2> DEFINE l == [Idle EXCEPT !.step = s, !.folder = d]
  <2>3. l \in LocalRow
    BY <1>0 DEF LocalRow, Step
  <2>4. /\ req' \in [Request -> LocalRow] /\ \A q \in Request \ {r} : req'[q] = req[q]
        /\ req'[r] = [l EXCEPT !.op = "deleteFolder"]
    BY <1>0, <2>2, <2>3, BeginMoves
  <2>5. req'[r].op = "deleteFolder" /\ req'[r].step = s /\ d # Root /\ req'[r].folder = d
    BY <2>1, <2>4 DEF Idle, StartDeleteFolder
  <2> QED BY <2>4, <2>5 DEF Moved, Doing, Holds, PatchSteps, TrashSteps, DoomedSteps, RestoreSteps,
             UploadSteps, OpeningSteps, CompleteSteps, DeleteSteps, ThumbSteps, CleanupSteps, PurgeSteps
<1>4. CASE \E d \in FolderId : StartRestoreFolder(r, d)
  <2>1. PICK d \in FolderId : StartRestoreFolder(r, d)
    BY <1>4
  <2> DEFINE l == [Idle EXCEPT !.step = "readParent", !.folder = d, !.dest = folders[d].parent]
  <2>2. folders[d].parent \in FolderId \cup {Null}
    BY <1>0, <2>1 DEF StartRestoreFolder, TrashedFolder, TypeOK, FolderRow, Null
  <2>3. l \in LocalRow /\ Begin(r, "restoreFolder", l)
    BY <1>0, <2>1, <2>2 DEF LocalRow, Step, StartRestoreFolder
  <2>4. /\ req' \in [Request -> LocalRow] /\ \A q \in Request \ {r} : req'[q] = req[q]
        /\ req'[r] = [l EXCEPT !.op = "restoreFolder"]
    <3> HIDE DEF l
    <3> QED BY <1>0, <2>3, BeginMoves
  <2>5. req'[r].op = "restoreFolder" /\ req'[r].step = "readParent" /\ req'[r].folder = d
    BY <2>4 DEF Idle
  <2> QED BY <2>4, <2>5 DEF Moved, Doing, Holds, PatchSteps, TrashSteps, DoomedSteps, RestoreSteps,
             UploadSteps, OpeningSteps, CompleteSteps, DeleteSteps, ThumbSteps, CleanupSteps, PurgeSteps
<1> QED BY <1>1, <1>2, <1>3, <1>4 DEF StartFolderRequest

LEMMA FileStartMoved ==
  ASSUME HandlerInv, NEW r \in Request, StartFileRequest(r)
  PROVE  Moved(r)
<1> USE DEF At
<1>0. Idle \in LocalRow /\ ReqTypeOK /\ TypeOK
  BY IdleIsLocal DEF HandlerInv, ReqTypeOK
<1>1. CASE \E f \in FileId, d \in FolderId, n \in Name : StartInitiateUpload(r, f, d, n)
  <2>1. PICK f \in FileId, d \in FolderId, n \in Name : StartInitiateUpload(r, f, d, n)
    BY <1>1
  <2> DEFINE l == [Idle EXCEPT !.step = "createUpload", !.file = f, !.dest = d, !.name = n]
  <2>2. l \in LocalRow /\ Begin(r, "initiateUpload", l)
    BY ZenonT(30), <1>0, <2>1 DEF LocalRow, Step, StartInitiateUpload
  <2>3. /\ req' \in [Request -> LocalRow] /\ \A q \in Request \ {r} : req'[q] = req[q]
        /\ req'[r] = [l EXCEPT !.op = "initiateUpload"]
    <3> HIDE DEF l
    <3> QED BY <1>0, <2>2, BeginMoves
  <2>4. /\ req'[r].op = "initiateUpload" /\ req'[r].step = "createUpload"
        /\ req'[r].file = f /\ req'[r].dest = d /\ req'[r].name = n
    BY <2>3 DEF Idle
  <2> QED BY <2>3, <2>4 DEF Moved, Doing, Holds, PatchSteps, TrashSteps, DoomedSteps, RestoreSteps,
             UploadSteps, OpeningSteps, CompleteSteps, DeleteSteps, ThumbSteps, CleanupSteps, PurgeSteps
<1>2. CASE \E f \in FileId, d \in FolderId, n \in Name : StartPatchFile(r, f, d, n)
  <2>1. PICK f \in FileId, d \in FolderId, n \in Name : StartPatchFile(r, f, d, n)
    BY <1>2
  <2>2. PICK s \in {"updateFile", "readDest"} :
          Begin(r, "patchFile", [Idle EXCEPT !.file = f, !.dest = d, !.name = n, !.step = s])
    BY <2>1 DEF StartPatchFile
  <2> DEFINE l == [Idle EXCEPT !.file = f, !.dest = d, !.name = n, !.step = s]
  <2>3. l \in LocalRow
    BY <1>0 DEF LocalRow, Step
  <2>4. /\ req' \in [Request -> LocalRow] /\ \A q \in Request \ {r} : req'[q] = req[q]
        /\ req'[r] = [l EXCEPT !.op = "patchFile"]
    BY ZenonT(30), <1>0, <2>2, <2>3, BeginMoves
  <2>5. /\ req'[r].op = "patchFile" /\ req'[r].step = s
        /\ req'[r].file = f /\ req'[r].name = n
    BY <2>4 DEF Idle
  <2> QED BY <2>4, <2>5 DEF Moved, Doing, Holds, PatchSteps, TrashSteps, DoomedSteps, RestoreSteps,
             UploadSteps, OpeningSteps, CompleteSteps, DeleteSteps, ThumbSteps, CleanupSteps, PurgeSteps
<1>3. CASE \E f \in FileId : StartCompleteUpload(r, f) \/ StartThumbnail(r, f)
  <2>1. PICK f \in FileId, op \in {"completeUpload", "thumbnail"}, s \in {"stitch", "readSource"} :
          /\ op = "completeUpload" <=> s = "stitch"
          /\ Begin(r, op, [Idle EXCEPT !.step = s, !.file = f])
    BY <1>3 DEF StartCompleteUpload, StartThumbnail
  <2> DEFINE l == [Idle EXCEPT !.step = s, !.file = f]
  <2>2. l \in LocalRow /\ Begin(r, op, l)
    <3>1. l \in LocalRow
      BY <1>0 DEF LocalRow, Step
    <3>2. Begin(r, op, l)
      BY ZenonT(30), <2>1
    <3> QED BY <3>1, <3>2
  <2>3. /\ req' \in [Request -> LocalRow] /\ \A q \in Request \ {r} : req'[q] = req[q]
        /\ req'[r] = [l EXCEPT !.op = op]
    <3> HIDE DEF l
    <3> QED BY <1>0, <2>2, BeginMoves
  <2>4. req'[r].op = op /\ req'[r].step = s /\ req'[r].file = f
    BY <2>3 DEF Idle
  <2> QED BY <2>1, <2>3, <2>4 DEF Moved, Doing, Holds, PatchSteps, TrashSteps, DoomedSteps, RestoreSteps,
             UploadSteps, OpeningSteps, CompleteSteps, DeleteSteps, ThumbSteps, CleanupSteps, PurgeSteps
<1>4. CASE \E f \in FileId : StartDeleteFile(r, f)
  <2>1. PICK f \in FileId : StartDeleteFile(r, f)
    BY <1>4
  <2>2. PICK s \in {"abortPending", "trashFile", "deleteObject"} :
          Begin(r, "deleteFile", [Idle EXCEPT !.step = s, !.file = f, !.marked = ThumbsNamed({f})])
    BY <2>1 DEF StartDeleteFile
  <2> DEFINE l == [Idle EXCEPT !.step = s, !.file = f, !.marked = ThumbsNamed({f})]
  <2>3. l \in LocalRow
    BY ZenonT(30), <1>0 DEF LocalRow, Step, ThumbsNamed
  <2>4. /\ req' \in [Request -> LocalRow] /\ \A q \in Request \ {r} : req'[q] = req[q]
        /\ req'[r] = [l EXCEPT !.op = "deleteFile"]
    BY ZenonT(30), <1>0, <2>2, <2>3, BeginMoves
  <2>5. req'[r].op = "deleteFile" /\ req'[r].step = s /\ req'[r].file = f
    BY <2>4 DEF Idle
  <2> QED BY <2>4, <2>5 DEF Moved, Doing, Holds, PatchSteps, TrashSteps, DoomedSteps, RestoreSteps,
             UploadSteps, OpeningSteps, CompleteSteps, DeleteSteps, ThumbSteps, CleanupSteps, PurgeSteps
<1>5. CASE \E f \in FileId : StartRestoreFile(r, f)
  <2>1. PICK f \in FileId : StartRestoreFile(r, f)
    BY <1>5
  <2> DEFINE l == [Idle EXCEPT !.step = "readHome", !.file = f, !.dest = files[f].folder]
  <2>2. files[f].folder \in FolderId
    BY <1>0, <2>1 DEF StartRestoreFile, TrashedFile, TypeOK, FileRow
  <2>3. l \in LocalRow /\ Begin(r, "restoreFile", l)
    BY ZenonT(30), <1>0, <2>1, <2>2 DEF LocalRow, Step, StartRestoreFile
  <2>4. /\ req' \in [Request -> LocalRow] /\ \A q \in Request \ {r} : req'[q] = req[q]
        /\ req'[r] = [l EXCEPT !.op = "restoreFile"]
    <3> HIDE DEF l
    <3> QED BY <1>0, <2>3, BeginMoves
  <2>5. req'[r].op = "restoreFile" /\ req'[r].step = "readHome" /\ req'[r].file = f
    BY <2>4 DEF Idle
  <2> QED BY <2>4, <2>5 DEF Moved, Doing, Holds, PatchSteps, TrashSteps, DoomedSteps, RestoreSteps,
             UploadSteps, OpeningSteps, CompleteSteps, DeleteSteps, ThumbSteps, CleanupSteps, PurgeSteps
<1> QED BY <1>1, <1>2, <1>3, <1>4, <1>5 DEF StartFileRequest

LEMMA ScriptStartMoved ==
  ASSUME HandlerInv, NEW r \in Request, StartScript(r)
  PROVE  Moved(r)
<1> USE DEF At
<1>0. Idle \in LocalRow /\ ReqTypeOK /\ TypeOK
  BY IdleIsLocal DEF HandlerInv, ReqTypeOK
<1>1. CASE \E rows \in SUBSET FileId : StartCleanup(r, rows)
  <2>1. PICK rows \in SUBSET FileId : StartCleanup(r, rows)
    BY <1>1
  <2> DEFINE l == [Idle EXCEPT !.step = "cleanup", !.rows = rows, !.left = rows]
  <2>2. l \in LocalRow /\ Begin(r, "cleanup", l)
    BY ZenonT(30), <1>0, <2>1 DEF LocalRow, Step, StartCleanup
  <2>3. /\ req' \in [Request -> LocalRow] /\ \A q \in Request \ {r} : req'[q] = req[q]
        /\ req'[r] = [l EXCEPT !.op = "cleanup"]
    BY <1>0, <2>2, BeginMoves
  <2>4. req'[r].op = "cleanup" /\ req'[r].step = "cleanup"
    BY <2>3 DEF Idle
  <2> QED BY <2>3, <2>4 DEF Moved, Doing, Holds, PatchSteps, TrashSteps, DoomedSteps, RestoreSteps,
             UploadSteps, OpeningSteps, CompleteSteps, DeleteSteps, ThumbSteps, CleanupSteps, PurgeSteps
<1>2. CASE \E cutoff \in Cutoff : StartPurge(r, cutoff)
  <2>1. PICK cutoff \in Cutoff : StartPurge(r, cutoff)
    BY <1>2
  <2> DEFINE rows == OldFiles(cutoff)
             l == [Idle EXCEPT !.step = "purge", !.cutoff = cutoff, !.rows = rows,
                               !.left = rows, !.marked = ThumbsNamed(rows)]
  <2>2. rows \subseteq FileId /\ ThumbsNamed(rows) \subseteq FileId
    BY <1>0 DEF OldFiles, ThumbsNamed, TypeOK
  <2>3. cutoff \in 0..MaxClock + 1
    BY MaxClockAssumption DEF Cutoff
  <2>4. Begin(r, "purge", l)
    BY <2>1 DEF StartPurge
  <2> HIDE DEF rows
  <2>5. l \in LocalRow
    BY <1>0, <2>2, <2>3 DEF LocalRow, Step
  <2>6. /\ req' \in [Request -> LocalRow] /\ \A q \in Request \ {r} : req'[q] = req[q]
        /\ req'[r] = [l EXCEPT !.op = "purge"]
    <3> HIDE DEF l
    <3> QED BY <1>0, <2>4, <2>5, BeginMoves
  <2>7. req'[r].op = "purge" /\ req'[r].step = "purge"
    BY <2>6 DEF Idle
  <2> QED BY <2>6, <2>7 DEF Moved, Doing, Holds, PatchSteps, TrashSteps, DoomedSteps, RestoreSteps,
             UploadSteps, OpeningSteps, CompleteSteps, DeleteSteps, ThumbSteps, CleanupSteps, PurgeSteps
<1> QED BY <1>1, <1>2 DEF StartScript

\* A request that is done is idle.
LEMMA DoneMoved ==
  ASSUME HandlerInv, NEW r \in Request, Done(r)
  PROVE  Moved(r)
<1>1. /\ req' \in [Request -> LocalRow] /\ \A q \in Request \ {r} : req'[q] = req[q]
      /\ req'[r] = Idle
  BY DoneMoves DEF HandlerInv
<1>2. req'[r].step = "idle"
  BY <1>1 DEF Idle
<1> QED BY <1>1, <1>2 DEF At, Moved, Doing, Holds, PatchSteps, TrashSteps, DoomedSteps, RestoreSteps,
             UploadSteps, OpeningSteps, CompleteSteps, DeleteSteps, ThumbSteps, CleanupSteps, PurgeSteps

LEMMA GoMoved ==
  ASSUME HandlerInv, NEW r \in Request, NEW s, NEW t, <<s, t>> \in Onward, At(r, s), Go(r, t)
  PROVE  Moved(r)
<1>1. t \in Step
  BY DEF Onward, Step
<1>2. /\ req' \in [Request -> LocalRow] /\ \A q \in Request \ {r} : req'[q] = req[q]
      /\ req'[r].step = t /\ req'[r].op = req[r].op
      /\ req'[r].folder = req[r].folder /\ req'[r].dest = req[r].dest
      /\ req'[r].name = req[r].name /\ req'[r].file = req[r].file
  BY <1>1, GoMoves DEF HandlerInv
<1>3. Doing(r) /\ Holds(r)
  BY DEF HandlerInv
<1> QED BY <1>2, <1>3 DEF Onward, At, Moved, Doing, Holds, PatchSteps, TrashSteps, DoomedSteps,
           RestoreSteps, UploadSteps, OpeningSteps, CompleteSteps, DeleteSteps, ThumbSteps, CleanupSteps, PurgeSteps

\* The loops of the scripts.
LEMMA TakeUpMoved ==
  ASSUME HandlerInv, NEW r \in Request, NEW f \in FileId, TakeUpCleanup(r, f) \/ TakeUpPurge(r, f)
  PROVE  Moved(r)
<1> USE DEF HandlerInv, At
<1>1. req[r] \in LocalRow /\ req \in [Request -> LocalRow] /\ Doing(r)
  BY Locals
<1>2. PICK s \in {"cleanupRow", "purgeThumb", "purgeRow"} :
        /\ req' = [req EXCEPT ![r] = [req[r] EXCEPT !.step = s, !.file = f, !.left = req[r].left \ {f}]]
        /\ s = "cleanupRow" => req[r].op = "cleanup"
        /\ s # "cleanupRow" => req[r].op = "purge"
  BY <1>1 DEF TakeUpCleanup, TakeUpPurge, Doing, CleanupSteps, PurgeSteps, LocalRow
<1>3. [req[r] EXCEPT !.step = s, !.file = f, !.left = req[r].left \ {f}] \in LocalRow
  BY <1>1 DEF LocalRow, Step
<1>4. /\ req' \in [Request -> LocalRow] /\ \A q \in Request \ {r} : req'[q] = req[q]
      /\ req'[r].step = s /\ req'[r].file = f /\ req'[r].op = req[r].op
  BY <1>1, <1>2, <1>3 DEF LocalRow
<1>5. /\ s = "cleanupRow" => req'[r].op = "cleanup"
      /\ s \in {"purgeThumb", "purgeRow"} => req'[r].op = "purge"
  BY <1>2, <1>4
<1> HIDE DEF HandlerInv
<1>6. Doing(r)'
  BY <1>4, <1>5 DEF Doing, PatchSteps, TrashSteps, DoomedSteps, RestoreSteps, UploadSteps, OpeningSteps,
                    CompleteSteps, DeleteSteps, ThumbSteps, CleanupSteps, PurgeSteps
<1>7. Holds(r)'
  BY <1>4 DEF Holds, PatchSteps, TrashSteps, DoomedSteps, RestoreSteps, UploadSteps, OpeningSteps,
              CompleteSteps, DeleteSteps, ThumbSteps, CleanupSteps, PurgeSteps
<1> QED BY <1>4, <1>6, <1>7 DEF Moved

LEMMA BeginTrashMoved ==
  ASSUME HandlerInv, NEW r \in Request, BeginTrash(r)
  PROVE  /\ Moved(r) /\ clock' \in Time /\ clock' \in 1..MaxClock
         /\ req' = [req EXCEPT ![r] = [req[r] EXCEPT !.step = "trashTree", !.stamp = clock']]
<1> USE DEF HandlerInv, BeginTrash, At
<1>1. req[r] \in LocalRow /\ req \in [Request -> LocalRow] /\ Doing(r) /\ Holds(r)
  BY Locals
<1>2. clock' \in 1..MaxClock /\ clock' \in Time
  <2>1. r \in Trashers /\ IsFiniteSet(Trashers) /\ clock \in Nat
    BY DEF Trashers, ClockRoom, ReqTypeOK, TypeOK, Time
  <2>2. Cardinality(Trashers) \in Nat /\ Cardinality(Trashers) # 0
    BY <2>1, FS_CardinalityType, FS_EmptySet
  <2>3. clock + Cardinality(Trashers) <= MaxClock
    BY DEF ClockRoom
  <2> QED BY <2>1, <2>2, <2>3, MaxClockAssumption DEF Time
<1>3. req' = [req EXCEPT ![r] = [req[r] EXCEPT !.step = "trashTree", !.stamp = clock']]
  BY <1>1 DEF LocalRow
<1>4. [req[r] EXCEPT !.step = "trashTree", !.stamp = clock'] \in LocalRow
  <2> HIDE DEF BeginTrash
  <2> QED BY <1>1, <1>2 DEF LocalRow, Step
<1>5. /\ req' \in [Request -> LocalRow] /\ \A q \in Request \ {r} : req'[q] = req[q]
      /\ req'[r].step = "trashTree" /\ req'[r].op = req[r].op /\ req'[r].folder = req[r].folder
  <2> HIDE DEF BeginTrash
  <2> QED BY <1>1, <1>3, <1>4 DEF LocalRow
<1> QED BY <1>1, <1>2, <1>3, <1>5 DEF Moved, Doing, Holds, PatchSteps, TrashSteps, DoomedSteps,
           RestoreSteps, UploadSteps, OpeningSteps, CompleteSteps, DeleteSteps, ThumbSteps,
           CleanupSteps, PurgeSteps

LEMMA LooksUpMoved ==
  ASSUME HandlerInv, NEW r \in Request, LooksUp(r)
  PROVE  Moved(r)
<1> USE DEF HandlerInv
<1>0. /\ req[r] \in LocalRow /\ req \in [Request -> LocalRow] /\ Doing(r) /\ Holds(r)
      /\ TypeOK /\ \A d : SubtreeIds(d) \subseteq FolderId
  BY Locals, SubtreeIdsAreIds DEF ReqTypeOK
<1>1. CASE ReadSubtree(r)
  <2>1. PICK s \in {"readSubtreeToTrash", "readSubtreeToDelete", "readSubtreeToRestore"},
             t \in {"beginTrash", "readDoomed", "restoreTree"} :
          /\ At(r, s)
          /\ s = "readSubtreeToTrash" <=> t = "beginTrash"
          /\ s = "readSubtreeToDelete" <=> t = "readDoomed"
          /\ req' = [req EXCEPT ![r] = [req[r] EXCEPT !.step = t, !.ids = SubtreeIds(req[r].folder)]]
    <3> DEFINE ReadsAt(s, t) ==
                 At(r, s) /\ req' = [req EXCEPT ![r] = [req[r] EXCEPT !.step = t, !.ids = SubtreeIds(req[r].folder)]]
    <3>1. \/ ReadsAt("readSubtreeToTrash", "beginTrash")
          \/ ReadsAt("readSubtreeToDelete", "readDoomed")
          \/ ReadsAt("readSubtreeToRestore", "restoreTree")
      <4>1. PICK next \in {<<"readSubtreeToTrash", "beginTrash">>, <<"readSubtreeToDelete", "readDoomed">>,
                           <<"readSubtreeToRestore", "restoreTree">>} :
              /\ At(r, next[1])
              /\ req' = [req EXCEPT ![r].step = next[2], ![r].ids = SubtreeIds(req[r].folder)]
        BY <1>1 DEF ReadSubtree
      <4>2. ReadsAt(next[1], next[2])
        BY <1>0, <4>1 DEF LocalRow
      <4>3. \/ next[1] = "readSubtreeToTrash" /\ next[2] = "beginTrash"
            \/ next[1] = "readSubtreeToDelete" /\ next[2] = "readDoomed"
            \/ next[1] = "readSubtreeToRestore" /\ next[2] = "restoreTree"
        OBVIOUS
      <4> HIDE DEF ReadsAt
      <4> QED BY <4>2, <4>3
    <3> QED BY <3>1
  <2>2. [req[r] EXCEPT !.step = t, !.ids = SubtreeIds(req[r].folder)] \in LocalRow
    BY <1>0 DEF LocalRow, Step
  <2>3. /\ req' \in [Request -> LocalRow] /\ \A q \in Request \ {r} : req'[q] = req[q]
        /\ req'[r].step = t /\ req'[r].op = req[r].op /\ req'[r].folder = req[r].folder
    BY <1>0, <2>1, <2>2 DEF LocalRow
  <2> QED BY <1>0, <2>1, <2>3 DEF At, Moved, Doing, Holds, PatchSteps, TrashSteps, DoomedSteps,
             RestoreSteps, UploadSteps, OpeningSteps, CompleteSteps, DeleteSteps, ThumbSteps, CleanupSteps, PurgeSteps
<1>2. CASE ReadDoomed(r)
  <2> DEFINE rows == Swept(r)
             marked == {f \in rows : files[f].status = "complete"}
  <2>1. At(r, "readDoomed") /\ rows \subseteq FileId
    BY <1>0, <1>2 DEF ReadDoomed, Swept, FilesUnder, TypeOK
  <2>2. req' = [req EXCEPT ![r] = [req[r] EXCEPT !.step = "deleteStored", !.rows = rows, !.left = rows,
                                                 !.marked = marked]]
    BY <1>0, <1>2 DEF ReadDoomed, LocalRow
  <2> HIDE DEF rows
  <2>3. [req[r] EXCEPT !.step = "deleteStored", !.rows = rows, !.left = rows, !.marked = marked]
          \in LocalRow
    BY <1>0, <2>1 DEF LocalRow, Step
  <2>4. /\ req' \in [Request -> LocalRow] /\ \A q \in Request \ {r} : req'[q] = req[q]
        /\ req'[r].step = "deleteStored" /\ req'[r].op = req[r].op /\ req'[r].folder = req[r].folder
    BY <1>0, <2>2, <2>3 DEF LocalRow
  <2> QED BY <1>0, <2>1, <2>4 DEF At, Moved, Doing, Holds, PatchSteps, TrashSteps, DoomedSteps,
             RestoreSteps, UploadSteps, OpeningSteps, CompleteSteps, DeleteSteps, ThumbSteps, CleanupSteps, PurgeSteps
<1>3. CASE ReadOldFolders(r) /\ ~Done(r)
  <2>1. At(r, "purge") /\ OldFolders(req[r].cutoff) \subseteq FolderId
    BY <1>0, <1>3 DEF ReadOldFolders, OldFolders, TypeOK
  <2> DEFINE old == OldFolders(req[r].cutoff)
  <2>2. req' = [req EXCEPT ![r] = [req[r] EXCEPT !.step = "purgeFolders", !.ids = old]]
    BY <1>0, <1>3 DEF ReadOldFolders, LocalRow
  <2> HIDE DEF old
  <2>3. [req[r] EXCEPT !.step = "purgeFolders", !.ids = old] \in LocalRow
    BY <1>0, <2>1 DEF LocalRow, Step, old
  <2>4. /\ req' \in [Request -> LocalRow] /\ \A q \in Request \ {r} : req'[q] = req[q]
        /\ req'[r].step = "purgeFolders" /\ req'[r].op = req[r].op
    BY <1>0, <2>2, <2>3 DEF LocalRow
  <2> QED BY <1>0, <2>1, <2>4 DEF At, Moved, Doing, Holds, PatchSteps, TrashSteps, DoomedSteps,
             RestoreSteps, UploadSteps, OpeningSteps, CompleteSteps, DeleteSteps, ThumbSteps, CleanupSteps, PurgeSteps
<1> QED BY <1>1, <1>2, <1>3 DEF LooksUp

LEMMA LoopsMoved ==
  ASSUME HandlerInv, NEW r \in Request, Loops(r)
  PROVE  Moved(r)
<1> USE DEF HandlerInv
<1>0. req[r] \in LocalRow /\ req \in [Request -> LocalRow] /\ Doing(r) /\ Holds(r)
  BY Locals
<1>1. CASE \E f \in FileId : DeleteStored(r, f)
  <2>1. PICK f \in FileId : req' = [req EXCEPT ![r] = [req[r] EXCEPT !.left = req[r].left \ {f}]]
    BY <1>0, <1>1 DEF DeleteStored, LocalRow
  <2>2. [req[r] EXCEPT !.left = req[r].left \ {f}] \in LocalRow
    BY <1>0 DEF LocalRow
  <2>3. /\ req' \in [Request -> LocalRow] /\ \A q \in Request \ {r} : req'[q] = req[q]
        /\ req'[r].step = req[r].step /\ req'[r].op = req[r].op /\ req'[r].folder = req[r].folder
    BY <1>0, <2>1, <2>2 DEF LocalRow
  <2>4. At(r, "deleteStored")
    BY <1>1 DEF DeleteStored
  <2> QED BY <1>0, <2>3, <2>4 DEF At, Moved, Doing, Holds, PatchSteps, TrashSteps, DoomedSteps,
             RestoreSteps, UploadSteps, OpeningSteps, CompleteSteps, DeleteSteps, ThumbSteps, CleanupSteps, PurgeSteps
<1>2. CASE (\E d \in FolderId : PurgeFolderRow(r, d)) /\ ~Done(r)
  <2>1. PICK d \in FolderId : req' = [req EXCEPT ![r] = [req[r] EXCEPT !.ids = req[r].ids \ {d}]]
    BY <1>0, <1>2 DEF PurgeFolderRow, LocalRow
  <2>2. [req[r] EXCEPT !.ids = req[r].ids \ {d}] \in LocalRow
    BY <1>0 DEF LocalRow
  <2>3. /\ req' \in [Request -> LocalRow] /\ \A q \in Request \ {r} : req'[q] = req[q]
        /\ req'[r].step = req[r].step /\ req'[r].op = req[r].op
    BY <1>0, <2>1, <2>2 DEF LocalRow
  <2>4. At(r, "purgeFolders")
    BY <1>2 DEF PurgeFolderRow
  <2> QED BY <1>0, <2>3, <2>4 DEF At, Moved, Doing, Holds, PatchSteps, TrashSteps, DoomedSteps,
             RestoreSteps, UploadSteps, OpeningSteps, CompleteSteps, DeleteSteps, ThumbSteps, CleanupSteps, PurgeSteps
<1> QED BY <1>1, <1>2, TakeUpMoved DEF Loops

LEMMA StepMoved ==
  ASSUME HandlerInv, NEW r \in Request, StepOf(r)
  PROVE  Moved(r)
BY Kinds, FolderStartMoved, FileStartMoved, ScriptStartMoved, DoneMoved, GoMoved, LooksUpMoved, BeginTrashMoved,
   LoopsMoved DEF Passes

-----------------------------------------------------------------------------
(* What a step writes.                                                     *)

WritesTree(r) ==
  \/ InsertFolder(r) \/ UpdateFolder(r) \/ TrashTree(r) \/ RestoreTree(r) \/ DeleteFolderRow(r)
  \/ \E d \in FolderId : PurgeFolderRow(r, d)

WritesRow(r) ==
  \/ InsertRow(r) \/ MarkComplete(r) \/ UpdateFile(r) \/ TrashFileRow(r) \/ RestoreFileRow(r)
  \/ WriteReady(r) \/ MarkFailed(r) \/ DeleteRow(r) \/ CleanupRow(r) \/ PurgeRow(r)

WritesBucket(r) ==
  \/ CreateUpload(r) \/ AbortUpload(r) \/ Stitch(r) \/ AbortPending(r) \/ DeleteObject(r)
  \/ DeleteThumb(r) \/ StoreThumb(r) \/ PurgeThumb(r)
  \/ \E f \in FileId : DeleteStored(r, f) \/ CleanupAbort(r, f) \/ PurgeObject(r, f)

LEMMA Writes ==
  ASSUME NEW r, StepOf(r)
  PROVE  UNCHANGED vars \/ BeginTrash(r) \/ WritesTree(r) \/ WritesRow(r) \/ WritesBucket(r)
<1>1. CASE StartFolderRequest(r)
  BY <1>1 DEF StartFolderRequest, StartCreateFolder, StartPatchFolder, StartDeleteFolder, StartRestoreFolder
<1>2. CASE StartFileRequest(r)
  BY <1>2 DEF StartFileRequest, StartInitiateUpload, StartPatchFile, StartCompleteUpload,
              StartDeleteFile, StartRestoreFile, StartThumbnail
<1>3. CASE StartScript(r)
  BY <1>3 DEF StartScript, StartCleanup, StartPurge
<1>4. CASE Fail(r) \/ Skip(r)
  BY <1>4 DEF Fail, Skip, CatchAfter, WritesRow, WritesBucket
<1>5. CASE Continue(r)
  BY <1>5 DEF Continue, WritesTree, WritesRow, WritesBucket, ReadNewParent, CheckCycle, ReadSubtree,
              ReadDoomed, ReadParent, ReadDest, ReadHome, ReadSource, ReadOldFolders,
              InsertFile, MarkReady, PutThumb, PresignThumb
<1> QED BY <1>1, <1>2, <1>3, <1>4, <1>5 DEF StepOf

\* The rows and objects a step adds have the id its request was given.
LEMMA Grows ==
  ASSUME NEW r, StepOf(r)
  PROVE  /\ \A d \in DOMAIN folders' \ DOMAIN folders :
               At(r, "insertFolder") /\ d = req[r].folder /\ Done(r)
         /\ \A f \in DOMAIN files' \ DOMAIN files :
               At(r, "insertFile") /\ f = req[r].file
         /\ \A f \in objects' \ objects : At(r, "stitch") /\ f = req[r].file
         /\ \A f \in thumbs' \ thumbs : At(r, "putThumb") /\ f = req[r].file
<1>1. CASE UNCHANGED vars \/ BeginTrash(r)
  BY <1>1 DEF vars, BeginTrash, bucket
<1>2. CASE WritesTree(r)
  <2>1. UNCHANGED bucket
    BY <1>2 DEF WritesTree, InsertFolder, UpdateFolder, TrashTree, RestoreTree, DeleteFolderRow, PurgeFolderRow
  <2>2. DOMAIN files' \subseteq DOMAIN files
    BY <1>2 DEF WritesTree, InsertFolder, UpdateFolder, TrashTree, RestoreTree, DeleteFolderRow,
                PurgeFolderRow, WithoutRows
  <2>3. CASE InsertFolder(r)
    BY <2>1, <2>2, <2>3 DEF InsertFolder, WriteFolders, bucket
  <2>4. CASE ~InsertFolder(r)
    <3>1. DOMAIN folders' \subseteq DOMAIN folders
      BY <1>2, <2>4 DEF WritesTree, UpdateFolder, TrashTree, RestoreTree, DeleteFolderRow,
                        PurgeFolderRow, WithoutRows, WriteFolders
    <3> QED BY <2>1, <2>2, <3>1 DEF bucket
  <2> QED BY <2>3, <2>4
<1>3. CASE WritesRow(r)
  <2>1. UNCHANGED <<folders, bucket>>
    BY <1>3 DEF WritesRow, InsertRow, MarkComplete, UpdateFile, TrashFileRow, RestoreFileRow,
                WriteReady, MarkFailed, DeleteRow, CleanupRow, PurgeRow
  <2>2. CASE InsertRow(r)
    BY <2>1, <2>2 DEF InsertRow, WriteFiles, bucket
  <2>3. CASE ~InsertRow(r)
    <3>1. DOMAIN files' \subseteq DOMAIN files
      BY <1>3, <2>3 DEF WritesRow, MarkComplete, UpdateFile, TrashFileRow, RestoreFileRow,
                WriteReady, MarkFailed, DeleteRow, CleanupRow, PurgeRow, WriteFiles, UpdateRow, WithoutRows
    <3> QED BY <2>1, <3>1 DEF bucket
  <2> QED BY <2>2, <2>3
<1>4. CASE WritesBucket(r)
  <2>1. UNCHANGED tree
    BY <1>4 DEF WritesBucket, CreateUpload, AbortUpload, Stitch, AbortPending, DeleteObject, DeleteThumb,
                StoreThumb, PurgeThumb, DeleteStored, CleanupAbort, PurgeObject
  <2>2. CASE Stitch(r)
    BY <2>1, <2>2 DEF Stitch, tree
  <2>3. CASE StoreThumb(r)
    BY <2>1, <2>3 DEF StoreThumb, tree
  <2>4. CASE ~Stitch(r) /\ ~StoreThumb(r)
    <3>1. objects' \subseteq objects /\ thumbs' \subseteq thumbs
      BY <1>4, <2>4 DEF WritesBucket, CreateUpload, AbortUpload, AbortPending, DeleteObject,
                        DeleteThumb, PurgeThumb, DeleteStored, CleanupAbort, PurgeObject
    <3> QED BY <2>1, <3>1 DEF tree
  <2> QED BY <2>2, <2>3, <2>4
<1> QED BY <1>1, <1>2, <1>3, <1>4, Writes

-----------------------------------------------------------------------------
(* Where each step of a handler comes from, and what it knows on arrival.  *)

Starts(r)  == req[r] = Idle /\ UNCHANGED vars
Kept(r)    == /\ req'[r].folder = req[r].folder /\ req'[r].dest = req[r].dest
              /\ req'[r].file = req[r].file /\ req'[r].ids = req[r].ids
              /\ req'[r].rows = req[r].rows /\ req'[r].left = req[r].left
              /\ req'[r].marked = req[r].marked /\ req'[r].cutoff = req[r].cutoff
From(r, s) == At(r, s) /\ Kept(r)
Looks(r, s) == From(r, s) /\ UNCHANGED vars

ArrivedFolder(r) ==
  /\ At(r, "insertFolder")' => Starts(r) /\ LiveFolder(req'[r].dest) /\ FreshFolder(req'[r].folder)
  /\ At(r, "readNewParent")' => Starts(r) /\ LiveFolder(req'[r].folder)
  /\ At(r, "checkCycle")' => Looks(r, "readNewParent") /\ LiveFolder(req[r].dest)
  /\ At(r, "updateFolder")' =>
       \/ Starts(r) /\ LiveFolder(req'[r].folder) /\ req'[r].dest = folders[req'[r].folder].parent
       \/ Looks(r, "checkCycle") /\ ~InChain(req[r].folder, req[r].dest)
  /\ At(r, "readSubtreeToTrash")' => Starts(r) /\ LiveFolder(req'[r].folder) /\ RoomToTrash
  /\ At(r, "readSubtreeToDelete")' => Starts(r) /\ TrashedFolder(req'[r].folder)
  /\ At(r, "readParent")' => /\ Starts(r) /\ TrashedFolder(req'[r].folder)
                             /\ req'[r].dest = folders[req'[r].folder].parent
  /\ At(r, "readSubtreeToRestore")' => Looks(r, "readParent") /\ LiveFolder(req[r].dest)

Listed(r) == /\ UNCHANGED vars /\ req'[r].ids = SubtreeIds(req[r].folder)
             /\ req'[r].folder = req[r].folder /\ req'[r].dest = req[r].dest
             /\ req'[r].file = req[r].file
             /\ req'[r].rows = req[r].rows /\ req'[r].left = req[r].left

ArrivedTree(r) ==
  /\ At(r, "beginTrash")' => At(r, "readSubtreeToTrash") /\ Listed(r)
  /\ At(r, "trashTree")' => From(r, "beginTrash") /\ BeginTrash(r) /\ req'[r].stamp = clock'
  /\ At(r, "readDoomed")' => At(r, "readSubtreeToDelete") /\ Listed(r)
  /\ At(r, "restoreTree")' => At(r, "readSubtreeToRestore") /\ Listed(r)
  /\ At(r, "deleteStored")' =>
       /\ req'[r].folder = req[r].folder /\ req'[r].dest = req[r].dest
       /\ req'[r].file = req[r].file /\ req'[r].ids = req[r].ids
       /\ \/ /\ At(r, "readDoomed") /\ UNCHANGED vars
             /\ req'[r].rows = FilesUnder(req[r].ids) /\ req'[r].left = req'[r].rows
             /\ req'[r].marked = {f \in req'[r].rows : files[f].status = "complete"}
          \/ \E f \in FileId : /\ DeleteStored(r, f) /\ req'[r].left = req[r].left \ {f}
                               /\ req'[r].rows = req[r].rows /\ req'[r].marked = req[r].marked

ArrivedUpload(r) ==
  /\ At(r, "createUpload")' => Starts(r) /\ LiveFolder(req'[r].dest) /\ FreshFile(req'[r].file)
  /\ At(r, "insertFile")' => From(r, "createUpload") /\ CreateUpload(r)
  /\ At(r, "abortUpload")' =>
       /\ From(r, "insertFile")
       /\ \/ UNCHANGED vars
          \/ InsertRow(r) /\ (~Inserted(r) \/ <<req[r].op, req[r].file>> \in torn')
  /\ At(r, "stitch")' => Starts(r) /\ LiveFile(req'[r].file) /\ files[req'[r].file].status = "pending"
  /\ At(r, "markComplete")' => From(r, "stitch") /\ Stitch(r) /\ req[r].file \in uploads

ArrivedFile(r) ==
  /\ At(r, "readDest")' => Starts(r) /\ LiveFile(req'[r].file)
  /\ At(r, "updateFile")' =>
       \/ Starts(r) /\ LiveFile(req'[r].file) /\ req'[r].dest = files[req'[r].file].folder
       \/ Looks(r, "readDest") /\ LiveFolder(req[r].dest)
  /\ At(r, "abortPending")' =>
       Starts(r) /\ req'[r].file \in DOMAIN files /\ files[req'[r].file].status = "pending"
  /\ At(r, "trashFile")' => /\ Starts(r) /\ LiveFile(req'[r].file) /\ RoomToTrash
                            /\ files[req'[r].file].status = "complete"
  /\ At(r, "deleteObject")' => /\ Starts(r) /\ TrashedFile(req'[r].file)
                               /\ files[req'[r].file].status = "complete"
                               /\ req'[r].marked = ThumbsNamed({req'[r].file})
  /\ At(r, "deleteThumb")' => From(r, "deleteObject") /\ DeleteObject(r) /\ req[r].file \in req[r].marked
  /\ At(r, "deleteRow")' =>
       \/ From(r, "abortPending") /\ AbortPending(r)
       \/ From(r, "deleteObject") /\ DeleteObject(r) /\ req[r].file \notin req[r].marked
       \/ From(r, "deleteThumb") /\ (DeleteThumb(r) \/ UNCHANGED vars)
  /\ At(r, "readHome")' => /\ Starts(r) /\ TrashedFile(req'[r].file)
                           /\ req'[r].dest = files[req'[r].file].folder
  /\ At(r, "restoreFileRow")' => Looks(r, "readHome") /\ LiveFolder(req[r].dest)

ArrivedThumb(r) ==
  /\ At(r, "readSource")' => /\ Starts(r) /\ LiveFile(req'[r].file)
                             /\ files[req'[r].file].status = "complete"
                             /\ files[req'[r].file].thumbnail = "none"
  /\ At(r, "putThumb")' => Looks(r, "readSource")
  /\ At(r, "markReady")' => From(r, "putThumb") /\ StoreThumb(r)
  /\ At(r, "presignThumb")' => From(r, "markReady") /\ WriteReady(r)
  /\ At(r, "markFailed")' =>
       \/ \E s \in {"readSource", "putThumb", "markReady"} : Looks(r, s)
       \/ From(r, "putThumb") /\ StoreThumb(r)
       \/ /\ (From(r, "markReady") /\ WriteReady(r)) \/ Looks(r, "presignThumb")
          /\ <<req[r].op, req[r].file>> \in torn'

\* A script takes up a file: it aborts or deletes, or fails to.
TakesUp(r) == /\ req'[r].file \in req[r].left /\ req'[r].left = req[r].left \ {req'[r].file}
              /\ req'[r].folder = req[r].folder /\ req'[r].dest = req[r].dest
              /\ req'[r].ids = req[r].ids /\ req'[r].rows = req[r].rows
              /\ req'[r].marked = req[r].marked /\ req'[r].cutoff = req[r].cutoff
Skipping(r) == UNCHANGED vars /\ skipped' = skipped \cup {req'[r].file} /\ req[r].op \in Faults

ArrivedScript(r) ==
  /\ At(r, "cleanup")' =>
       \/ /\ Starts(r) /\ req'[r].left = req'[r].rows
          /\ req'[r].rows \subseteq {f \in DOMAIN files : files[f].status = "pending"}
       \/ From(r, "cleanupRow") /\ CleanupRow(r)
  /\ At(r, "cleanupRow")' =>
       At(r, "cleanup") /\ TakesUp(r) /\ (CleanupAbort(r, req'[r].file) \/ Skipping(r))
  /\ At(r, "purge")' =>
       \/ /\ Starts(r) /\ req'[r].cutoff \in Cutoff /\ req'[r].cutoff <= clock + 1
          /\ req'[r].rows = OldFiles(req'[r].cutoff) /\ req'[r].left = req'[r].rows
          /\ req'[r].marked = ThumbsNamed(req'[r].rows)
       \/ From(r, "purgeRow") /\ PurgeRow(r)
  /\ At(r, "purgeThumb")' =>
       /\ At(r, "purge") /\ TakesUp(r) /\ req'[r].file \in req[r].marked
       /\ PurgeObject(r, req'[r].file) \/ Skipping(r)
  /\ At(r, "purgeRow")' =>
       \/ /\ At(r, "purge") /\ TakesUp(r) /\ req'[r].file \notin req[r].marked
          /\ PurgeObject(r, req'[r].file) \/ Skipping(r)
       \/ From(r, "purgeThumb") /\ (PurgeThumb(r) \/ (UNCHANGED vars /\ req[r].op \in Faults))
  /\ At(r, "purgeFolders")' =>
       /\ req'[r].rows = req[r].rows /\ req'[r].left = req[r].left
       /\ req'[r].folder = req[r].folder /\ req'[r].dest = req[r].dest
       /\ req'[r].file = req[r].file /\ req'[r].cutoff = req[r].cutoff
       /\ \/ /\ At(r, "purge") /\ UNCHANGED vars /\ req[r].left = {}
             /\ req'[r].ids = OldFolders(req[r].cutoff)
          \/ \E d \in FolderId : PurgeFolderRow(r, d) /\ req'[r].ids = req[r].ids \ {d}

Arrived(r) == /\ ArrivedFolder(r) /\ ArrivedTree(r) /\ ArrivedUpload(r)
              /\ ArrivedFile(r) /\ ArrivedThumb(r) /\ ArrivedScript(r)

\* Ids come from the tables, or are new.
Learns(r) ==
  /\ \A d : Knows(r, d)' => \/ Knows(r, d) \/ d \in DOMAIN folders \cup {Null}
                            \/ At(r, "insertFolder")' /\ d = req'[r].folder
  /\ \A f : KnowsFile(r, f)' => \/ KnowsFile(r, f) \/ f \in DOMAIN files \cup {Null}
                                \/ At(r, "createUpload")' /\ f = req'[r].file
  /\ req'[r].left \subseteq req'[r].rows

LEMMA IdleArrived ==
  ASSUME NEW r, req'[r].step = "idle"
  PROVE  Arrived(r)
BY DEF At, Arrived, ArrivedFolder, ArrivedTree, ArrivedUpload, ArrivedFile, ArrivedThumb, ArrivedScript

LEMMA FolderStartArrived ==
  ASSUME HandlerInv, NEW r \in Request, StartFolderRequest(r)
  PROVE  Arrived(r) /\ Learns(r)
<1> USE DEF At
<1>0. /\ ReqTypeOK
      /\ \A d \in DOMAIN folders : folders[d].parent \in DOMAIN folders \cup {Null}
      /\ \A f \in DOMAIN files : files[f].folder \in DOMAIN folders
  BY DEF HandlerInv, ReqTypeOK, TypeOK, Null
<1>1. CASE \E d \in SubfolderId, p \in FolderId, n \in Name : StartCreateFolder(r, d, p, n)
  <2>1. PICK d \in SubfolderId, p \in FolderId, n \in Name : StartCreateFolder(r, d, p, n)
    BY <1>1
  <2> DEFINE l == [Idle EXCEPT !.step = "insertFolder", !.folder = d, !.dest = p, !.name = n]
  <2>2. Begin(r, "createFolder", l) /\ UNCHANGED vars /\ LiveFolder(p) /\ FreshFolder(d)
    BY <2>1 DEF StartCreateFolder
  <2>3. req'[r] = [l EXCEPT !.op = "createFolder"] /\ req[r] = Idle
    <3> HIDE DEF l
    <3> QED BY <1>0, <2>2, BeginMoves
  <2>4. /\ req'[r].step = "insertFolder"
        /\ req'[r].folder = d /\ req'[r].dest = p /\ req'[r].file = Null
        /\ req'[r].ids = {} /\ req'[r].rows = {} /\ req'[r].left = {}
    BY <2>3 DEF Idle
  <2>5. Arrived(r)
    BY <2>2, <2>3, <2>4 DEF Starts, Arrived, ArrivedFolder, ArrivedTree, ArrivedUpload, ArrivedFile, ArrivedThumb, ArrivedScript
  <2>6. Learns(r)
    BY <1>0, <2>2, <2>3, <2>4 DEF Learns, Knows, KnowsFile, Starts, LiveFolder, TrashedFolder, LiveFile, TrashedFile, OldFiles
  <2> QED BY <2>5, <2>6
<1>2. CASE \E d \in FolderId, p \in FolderId, n \in Name : StartPatchFolder(r, d, p, n)
  <2>1. PICK d \in FolderId, p \in FolderId, n \in Name : StartPatchFolder(r, d, p, n)
    BY <1>2
  <2>2. PICK s \in {"updateFolder", "readNewParent"} :
          /\ Begin(r, "patchFolder", [Idle EXCEPT !.step = s, !.folder = d, !.dest = p, !.name = n])
          /\ s = "updateFolder" => p = folders[d].parent
          /\ LiveFolder(d) /\ UNCHANGED vars
    BY <2>1 DEF StartPatchFolder
  <2> DEFINE l == [Idle EXCEPT !.step = s, !.folder = d, !.dest = p, !.name = n]
  <2>3. req'[r] = [l EXCEPT !.op = "patchFolder"] /\ req[r] = Idle
    <3>1. Begin(r, "patchFolder", l)
      BY <2>2
    <3> HIDE DEF l
    <3> QED BY <1>0, <3>1, BeginMoves
  <2>4. /\ req'[r].step = s
        /\ req'[r].folder = d /\ req'[r].dest = p /\ req'[r].file = Null
        /\ req'[r].ids = {} /\ req'[r].rows = {} /\ req'[r].left = {}
    BY <2>3 DEF Idle
  <2>5. Arrived(r)
    BY <2>2, <2>3, <2>4 DEF Starts, Arrived, ArrivedFolder, ArrivedTree, ArrivedUpload, ArrivedFile, ArrivedThumb, ArrivedScript
  <2>6. Learns(r)
    BY <1>0, <2>2, <2>3, <2>4 DEF Learns, Knows, KnowsFile, Starts, LiveFolder, TrashedFolder, LiveFile, TrashedFile, OldFiles
  <2> QED BY <2>5, <2>6
<1>3. CASE \E d \in FolderId : StartDeleteFolder(r, d)
  <2>1. PICK d \in FolderId : StartDeleteFolder(r, d)
    BY <1>3
  <2>2. PICK s \in {"readSubtreeToTrash", "readSubtreeToDelete"} :
          /\ Begin(r, "deleteFolder", [Idle EXCEPT !.step = s, !.folder = d])
          /\ s = "readSubtreeToTrash" => LiveFolder(d) /\ RoomToTrash
          /\ s = "readSubtreeToDelete" => TrashedFolder(d)
          /\ UNCHANGED vars
    BY <2>1 DEF StartDeleteFolder
  <2> DEFINE l == [Idle EXCEPT !.step = s, !.folder = d]
  <2>3. req'[r] = [l EXCEPT !.op = "deleteFolder"] /\ req[r] = Idle
    BY <1>0, <2>2, BeginMoves
  <2>4. /\ req'[r].step = s
        /\ req'[r].folder = d /\ req'[r].dest = Null /\ req'[r].file = Null
        /\ req'[r].ids = {} /\ req'[r].rows = {} /\ req'[r].left = {}
    BY <2>3 DEF Idle
  <2>5. Arrived(r)
    BY <2>2, <2>3, <2>4 DEF Starts, Arrived, ArrivedFolder, ArrivedTree, ArrivedUpload, ArrivedFile, ArrivedThumb, ArrivedScript
  <2>6. Learns(r)
    BY <1>0, <2>2, <2>3, <2>4 DEF Learns, Knows, KnowsFile, Starts, LiveFolder, TrashedFolder, LiveFile, TrashedFile, OldFiles
  <2> QED BY <2>5, <2>6
<1>4. CASE \E d \in FolderId : StartRestoreFolder(r, d)
  <2>1. PICK d \in FolderId : StartRestoreFolder(r, d)
    BY <1>4
  <2> DEFINE l == [Idle EXCEPT !.step = "readParent", !.folder = d, !.dest = folders[d].parent]
  <2>2. Begin(r, "restoreFolder", l) /\ UNCHANGED vars /\ TrashedFolder(d)
    BY <2>1 DEF StartRestoreFolder
  <2>3. req'[r] = [l EXCEPT !.op = "restoreFolder"] /\ req[r] = Idle
    <3> HIDE DEF l
    <3> QED BY <1>0, <2>2, BeginMoves
  <2>4. /\ req'[r].step = "readParent"
        /\ req'[r].folder = d /\ req'[r].dest = folders[d].parent /\ req'[r].file = Null
        /\ req'[r].ids = {} /\ req'[r].rows = {} /\ req'[r].left = {}
    BY <2>3 DEF Idle
  <2>5. Arrived(r)
    BY <2>2, <2>3, <2>4 DEF Starts, Arrived, ArrivedFolder, ArrivedTree, ArrivedUpload, ArrivedFile, ArrivedThumb, ArrivedScript
  <2>6. Learns(r)
    BY <1>0, <2>2, <2>3, <2>4 DEF Learns, Knows, KnowsFile, Starts, LiveFolder, TrashedFolder, LiveFile, TrashedFile, OldFiles
  <2> QED BY <2>5, <2>6
<1> QED BY <1>1, <1>2, <1>3, <1>4 DEF StartFolderRequest

LEMMA FileStartArrived ==
  ASSUME HandlerInv, NEW r \in Request, StartFileRequest(r)
  PROVE  Arrived(r) /\ Learns(r)
<1> USE DEF At
<1>0. /\ ReqTypeOK
      /\ \A d \in DOMAIN folders : folders[d].parent \in DOMAIN folders \cup {Null}
      /\ \A f \in DOMAIN files : files[f].folder \in DOMAIN folders
  BY DEF HandlerInv, ReqTypeOK, TypeOK, Null
<1>1. CASE \E f \in FileId, d \in FolderId, n \in Name : StartInitiateUpload(r, f, d, n)
  <2>1. PICK f \in FileId, d \in FolderId, n \in Name : StartInitiateUpload(r, f, d, n)
    BY <1>1
  <2> DEFINE l == [Idle EXCEPT !.step = "createUpload", !.file = f, !.dest = d, !.name = n]
  <2>2. Begin(r, "initiateUpload", l) /\ UNCHANGED vars /\ LiveFolder(d) /\ FreshFile(f)
    BY <2>1 DEF StartInitiateUpload
  <2>3. req'[r] = [l EXCEPT !.op = "initiateUpload"] /\ req[r] = Idle
    <3> HIDE DEF l
    <3> QED BY <1>0, <2>2, BeginMoves
  <2>4. /\ req'[r].step = "createUpload"
        /\ req'[r].folder = Null /\ req'[r].dest = d /\ req'[r].file = f
        /\ req'[r].ids = {} /\ req'[r].rows = {} /\ req'[r].left = {}
    BY <2>3 DEF Idle
  <2>5. Arrived(r)
    BY <2>2, <2>3, <2>4 DEF Starts, Arrived, ArrivedFolder, ArrivedTree, ArrivedUpload, ArrivedFile, ArrivedThumb, ArrivedScript
  <2>6. Learns(r)
    BY <1>0, <2>2, <2>3, <2>4 DEF Learns, Knows, KnowsFile, Starts, LiveFolder, TrashedFolder, LiveFile, TrashedFile, OldFiles
  <2> QED BY <2>5, <2>6
<1>2. CASE \E f \in FileId, d \in FolderId, n \in Name : StartPatchFile(r, f, d, n)
  <2>1. PICK f \in FileId, d \in FolderId, n \in Name : StartPatchFile(r, f, d, n)
    BY <1>2
  <2>2. PICK s \in {"updateFile", "readDest"} :
          /\ Begin(r, "patchFile", [Idle EXCEPT !.file = f, !.dest = d, !.name = n, !.step = s])
          /\ s = "updateFile" => d = files[f].folder
          /\ LiveFile(f) /\ UNCHANGED vars
    BY <2>1 DEF StartPatchFile
  <2> DEFINE l == [Idle EXCEPT !.file = f, !.dest = d, !.name = n, !.step = s]
  <2>3. req'[r] = [l EXCEPT !.op = "patchFile"] /\ req[r] = Idle
    <3>1. Begin(r, "patchFile", l)
      BY <2>2
    <3> HIDE DEF l
    <3> QED BY <1>0, <3>1, BeginMoves
  <2>4. /\ req'[r].step = s
        /\ req'[r].folder = Null /\ req'[r].dest = d /\ req'[r].file = f
        /\ req'[r].ids = {} /\ req'[r].rows = {} /\ req'[r].left = {}
    BY <2>3 DEF Idle
  <2>5. Arrived(r)
    BY <2>2, <2>3, <2>4 DEF Starts, Arrived, ArrivedFolder, ArrivedTree, ArrivedUpload, ArrivedFile, ArrivedThumb, ArrivedScript
  <2>6. Learns(r)
    BY <1>0, <2>2, <2>3, <2>4 DEF Learns, Knows, KnowsFile, Starts, LiveFolder, TrashedFolder, LiveFile, TrashedFile, OldFiles
  <2> QED BY <2>5, <2>6
<1>3. CASE \E f \in FileId : StartCompleteUpload(r, f) \/ StartThumbnail(r, f)
  <2>1. PICK f \in FileId, op \in {"completeUpload", "thumbnail"}, s \in {"stitch", "readSource"} :
          /\ Begin(r, op, [Idle EXCEPT !.step = s, !.file = f])
          /\ s = "stitch" => files[f].status = "pending"
          /\ s = "readSource" => files[f].status = "complete" /\ files[f].thumbnail = "none"
          /\ LiveFile(f) /\ UNCHANGED vars
    BY <1>3 DEF StartCompleteUpload, StartThumbnail
  <2> DEFINE l == [Idle EXCEPT !.step = s, !.file = f]
  <2>2. req'[r] = [l EXCEPT !.op = op] /\ req[r] = Idle
    BY <1>0, <2>1, BeginMoves
  <2>3. /\ req'[r].step = s
        /\ req'[r].folder = Null /\ req'[r].dest = Null /\ req'[r].file = f
        /\ req'[r].ids = {} /\ req'[r].rows = {} /\ req'[r].left = {}
    BY <2>2 DEF Idle
  <2>4. Arrived(r)
    BY <2>1, <2>2, <2>3 DEF Starts, Arrived, ArrivedFolder, ArrivedTree, ArrivedUpload, ArrivedFile, ArrivedThumb, ArrivedScript
  <2>5. Learns(r)
    BY <1>0, <2>1, <2>2, <2>3 DEF Learns, Knows, KnowsFile, Starts, LiveFolder, TrashedFolder, LiveFile, TrashedFile, OldFiles
  <2> QED BY <2>4, <2>5
<1>4. CASE \E f \in FileId : StartDeleteFile(r, f)
  <2>1. PICK f \in FileId : StartDeleteFile(r, f)
    BY <1>4
  <2>2. PICK s \in {"abortPending", "trashFile", "deleteObject"} :
          /\ Begin(r, "deleteFile", [Idle EXCEPT !.step = s, !.file = f, !.marked = ThumbsNamed({f})])
          /\ s = "abortPending" => f \in DOMAIN files /\ files[f].status = "pending"
          /\ s = "trashFile" => LiveFile(f) /\ files[f].status = "complete" /\ RoomToTrash
          /\ s = "deleteObject" => TrashedFile(f) /\ files[f].status = "complete"
          /\ UNCHANGED vars
    BY <2>1 DEF StartDeleteFile
  <2> DEFINE l == [Idle EXCEPT !.step = s, !.file = f, !.marked = ThumbsNamed({f})]
  <2>3. req'[r] = [l EXCEPT !.op = "deleteFile"] /\ req[r] = Idle
    BY ZenonT(30), <1>0, <2>2, BeginMoves
  <2>4. /\ req'[r].step = s /\ req'[r].marked = ThumbsNamed({f})
        /\ req'[r].folder = Null /\ req'[r].dest = Null /\ req'[r].file = f
        /\ req'[r].ids = {} /\ req'[r].rows = {} /\ req'[r].left = {}
    BY <2>3 DEF Idle
  <2>5. Arrived(r)
    BY <2>2, <2>3, <2>4 DEF Starts, Arrived, ArrivedFolder, ArrivedTree, ArrivedUpload, ArrivedFile, ArrivedThumb, ArrivedScript
  <2>6. Learns(r)
    BY <1>0, <2>2, <2>3, <2>4 DEF Learns, Knows, KnowsFile, Starts, LiveFolder, TrashedFolder, LiveFile, TrashedFile, OldFiles
  <2> QED BY <2>5, <2>6
<1>5. CASE \E f \in FileId : StartRestoreFile(r, f)
  <2>1. PICK f \in FileId : StartRestoreFile(r, f)
    BY <1>5
  <2> DEFINE l == [Idle EXCEPT !.step = "readHome", !.file = f, !.dest = files[f].folder]
  <2>2. Begin(r, "restoreFile", l) /\ UNCHANGED vars /\ TrashedFile(f)
    BY <2>1 DEF StartRestoreFile
  <2>3. req'[r] = [l EXCEPT !.op = "restoreFile"] /\ req[r] = Idle
    <3> HIDE DEF l
    <3> QED BY <1>0, <2>2, BeginMoves
  <2>4. /\ req'[r].step = "readHome"
        /\ req'[r].folder = Null /\ req'[r].dest = files[f].folder /\ req'[r].file = f
        /\ req'[r].ids = {} /\ req'[r].rows = {} /\ req'[r].left = {}
    BY <2>3 DEF Idle
  <2>5. Arrived(r)
    BY <2>2, <2>3, <2>4 DEF Starts, Arrived, ArrivedFolder, ArrivedTree, ArrivedUpload, ArrivedFile, ArrivedThumb, ArrivedScript
  <2>6. Learns(r)
    BY <1>0, <2>2, <2>3, <2>4 DEF Learns, Knows, KnowsFile, Starts, LiveFolder, TrashedFolder, LiveFile, TrashedFile, OldFiles
  <2> QED BY <2>5, <2>6
<1> QED BY <1>1, <1>2, <1>3, <1>4, <1>5 DEF StartFileRequest

LEMMA ScriptStartArrived ==
  ASSUME HandlerInv, NEW r \in Request, StartScript(r)
  PROVE  Arrived(r) /\ Learns(r)
<1> USE DEF At
<1>0. /\ ReqTypeOK
      /\ \A d \in DOMAIN folders : folders[d].parent \in DOMAIN folders \cup {Null}
      /\ \A f \in DOMAIN files : files[f].folder \in DOMAIN folders
  BY DEF HandlerInv, ReqTypeOK, TypeOK, Null
<1>1. CASE \E rows \in SUBSET FileId : StartCleanup(r, rows)
  <2>1. PICK rows \in SUBSET FileId : StartCleanup(r, rows)
    BY <1>1
  <2> DEFINE l == [Idle EXCEPT !.step = "cleanup", !.rows = rows, !.left = rows]
  <2>2. /\ Begin(r, "cleanup", l) /\ UNCHANGED vars
        /\ rows \subseteq {f \in DOMAIN files : files[f].status = "pending"}
    BY <2>1 DEF StartCleanup
  <2>3. req'[r] = [l EXCEPT !.op = "cleanup"] /\ req[r] = Idle
    <3> HIDE DEF l
    <3> QED BY <1>0, <2>2, BeginMoves
  <2>4. /\ req'[r].step = "cleanup"
        /\ req'[r].folder = Null /\ req'[r].dest = Null /\ req'[r].file = Null
        /\ req'[r].ids = {} /\ req'[r].rows = rows /\ req'[r].left = rows
    BY <2>3 DEF Idle
  <2>5. Arrived(r)
    BY <2>2, <2>3, <2>4 DEF Starts, Arrived, ArrivedFolder, ArrivedTree, ArrivedUpload, ArrivedFile, ArrivedThumb, ArrivedScript
  <2>6. Learns(r)
    BY <1>0, <2>2, <2>3, <2>4 DEF Learns, Knows, KnowsFile, Starts, LiveFolder, TrashedFolder, LiveFile, TrashedFile, OldFiles
  <2> QED BY <2>5, <2>6
<1>2. CASE \E cutoff \in Cutoff : StartPurge(r, cutoff)
  <2>1. PICK cutoff \in Cutoff : StartPurge(r, cutoff)
    BY <1>2
  <2> DEFINE rows == OldFiles(cutoff)
             l == [Idle EXCEPT !.step = "purge", !.cutoff = cutoff, !.rows = rows,
                               !.left = rows, !.marked = ThumbsNamed(rows)]
  <2>2. Begin(r, "purge", l) /\ UNCHANGED vars /\ cutoff <= clock + 1
    BY <2>1 DEF StartPurge
  <2>3. req'[r] = [l EXCEPT !.op = "purge"] /\ req[r] = Idle
    <3> HIDE DEF l
    <3> QED BY <1>0, <2>2, BeginMoves
  <2>4. /\ req'[r].step = "purge" /\ req'[r].marked = ThumbsNamed(rows) /\ req'[r].cutoff = cutoff
        /\ req'[r].folder = Null /\ req'[r].dest = Null /\ req'[r].file = Null
        /\ req'[r].ids = {} /\ req'[r].rows = rows /\ req'[r].left = rows
    BY <2>3 DEF Idle
  <2>5. Arrived(r)
    BY <2>2, <2>3, <2>4 DEF Starts, Arrived, ArrivedFolder, ArrivedTree, ArrivedUpload, ArrivedFile, ArrivedThumb, ArrivedScript
  <2>6. Learns(r)
    BY <1>0, <2>2, <2>3, <2>4 DEF Learns, Knows, KnowsFile, Starts, LiveFolder, TrashedFolder, LiveFile, TrashedFile, OldFiles
  <2> QED BY <2>5, <2>6
<1> QED BY <1>1, <1>2 DEF StartScript

LEMMA GoKeeps ==
  ASSUME ReqTypeOK, NEW r \in Request, NEW s, Go(r, s)
  PROVE  req'[r].step = s /\ Kept(r)
BY GoMoves DEF Kept

LEMMA DoneIsIdle ==
  ASSUME ReqTypeOK, NEW r \in Request, Done(r)
  PROVE  req'[r].step = "idle"
BY DoneMoves DEF Idle

LEMMA PassesArrived ==
  ASSUME HandlerInv, NEW r \in Request,
         \/ ReadNewParent(r) \/ CheckCycle(r) \/ ReadParent(r) \/ ReadDest(r) \/ ReadHome(r) \/ ReadSource(r)
         \/ CreateUpload(r) \/ InsertFile(r) \/ Stitch(r) \/ AbortPending(r) \/ DeleteObject(r) \/ DeleteThumb(r)
         \/ PutThumb(r) \/ MarkReady(r) \/ CleanupRow(r) \/ PurgeThumb(r) \/ PurgeRow(r)
  PROVE  Arrived(r)
<1> USE DEF At
<1>0. ReqTypeOK
  BY DEF HandlerInv
<1>1. CASE Done(r)
  BY <1>0, <1>1, DoneIsIdle, IdleArrived
<1>2. CASE ~Done(r) /\ (ReadNewParent(r) \/ CheckCycle(r) \/ ReadParent(r))
  <2>1. PICK s, t : /\ <<s, t>> \in {<<"readNewParent", "checkCycle">>, <<"checkCycle", "updateFolder">>,
                                     <<"readParent", "readSubtreeToRestore">>}
                    /\ req[r].step = s /\ Go(r, t) /\ UNCHANGED vars
                    /\ s # "checkCycle" => LiveFolder(req[r].dest)
                    /\ s = "checkCycle" => ~InChain(req[r].folder, req[r].dest)
    <3>1. CASE ReadNewParent(r)
      BY <1>2, <3>1 DEF ReadNewParent
    <3>2. CASE CheckCycle(r)
      BY <1>2, <3>2 DEF CheckCycle
    <3>3. CASE ReadParent(r)
      BY <1>2, <3>3 DEF ReadParent
    <3> QED BY <1>2, <3>1, <3>2, <3>3
  <2>2. req'[r].step = t /\ Kept(r)
    BY <1>0, <2>1, GoKeeps
  <2> QED BY <2>1, <2>2 DEF Looks, From, Arrived, ArrivedFolder, ArrivedTree, ArrivedUpload, ArrivedFile, ArrivedThumb, ArrivedScript
<1>3. CASE ~Done(r) /\ (ReadDest(r) \/ ReadHome(r) \/ ReadSource(r))
  <2>1. PICK s, t : /\ <<s, t>> \in {<<"readDest", "updateFile">>, <<"readHome", "restoreFileRow">>,
                                     <<"readSource", "putThumb">>, <<"readSource", "markFailed">>}
                    /\ req[r].step = s /\ Go(r, t) /\ UNCHANGED vars
                    /\ s # "readSource" => LiveFolder(req[r].dest)
    <3>1. CASE ReadDest(r)
      BY <1>3, <3>1 DEF ReadDest
    <3>2. CASE ReadHome(r)
      BY <1>3, <3>2 DEF ReadHome
    <3>3. CASE ReadSource(r)
      BY <1>3, <3>3 DEF ReadSource
    <3> QED BY <1>3, <3>1, <3>2, <3>3
  <2>2. req'[r].step = t /\ Kept(r)
    BY <1>0, <2>1, GoKeeps
  <2> QED BY <2>1, <2>2 DEF Looks, From, Arrived, ArrivedFolder, ArrivedTree, ArrivedUpload, ArrivedFile, ArrivedThumb, ArrivedScript, ThumbSteps
<1>4. CASE ~Done(r) /\ (CreateUpload(r) \/ InsertFile(r) \/ Stitch(r))
  <2>1. PICK s, t : /\ <<s, t>> \in {<<"createUpload", "insertFile">>, <<"insertFile", "abortUpload">>,
                                     <<"stitch", "markComplete">>}
                    /\ req[r].step = s /\ Go(r, t)
                    /\ s = "createUpload" => CreateUpload(r)
                    /\ s = "insertFile" => InsertRow(r) /\ ~Inserted(r)
                    /\ s = "stitch" => Stitch(r) /\ req[r].file \in uploads
    <3>1. CASE CreateUpload(r)
      BY <1>4, <3>1 DEF CreateUpload
    <3>2. CASE InsertFile(r)
      <4>1. req[r].step = "insertFile" /\ Go(r, "abortUpload") /\ InsertRow(r) /\ ~Inserted(r)
        BY <1>4, <3>2 DEF InsertFile, InsertRow
      <4> QED BY <3>2, <4>1
    <3>3. CASE Stitch(r)
      BY <1>4, <3>3 DEF Stitch
    <3> QED BY <1>4, <3>1, <3>2, <3>3
  <2>2. req'[r].step = t /\ Kept(r)
    BY <1>0, <2>1, GoKeeps
  <2> QED BY <2>1, <2>2 DEF From, Arrived, ArrivedFolder, ArrivedTree, ArrivedUpload, ArrivedFile, ArrivedThumb, ArrivedScript
<1>5. CASE AbortPending(r) \/ DeleteObject(r) \/ DeleteThumb(r)
  <2>1. PICK s, t : /\ <<s, t>> \in {<<"abortPending", "deleteRow">>, <<"deleteObject", "deleteThumb">>,
                                     <<"deleteObject", "deleteRow">>, <<"deleteThumb", "deleteRow">>}
                    /\ req[r].step = s /\ Go(r, t)
                    /\ s = "abortPending" => AbortPending(r)
                    /\ s = "deleteObject" => DeleteObject(r) /\ (t = "deleteThumb" <=> req[r].file \in req[r].marked)
                    /\ s = "deleteThumb" => DeleteThumb(r)
    <3>1. CASE AbortPending(r)
      BY <3>1 DEF AbortPending
    <3>2. CASE DeleteObject(r)
      BY <3>2 DEF DeleteObject
    <3>3. CASE DeleteThumb(r)
      BY <3>3 DEF DeleteThumb
    <3> QED BY <1>5, <3>1, <3>2, <3>3
  <2>2. req'[r].step = t /\ Kept(r)
    BY <1>0, <2>1, GoKeeps
  <2> QED BY <2>1, <2>2 DEF From, Arrived, ArrivedFolder, ArrivedTree, ArrivedUpload, ArrivedFile, ArrivedThumb, ArrivedScript
<1>6. CASE ~Done(r) /\ (PutThumb(r) \/ MarkReady(r) \/ CleanupRow(r) \/ PurgeThumb(r) \/ PurgeRow(r))
  <2>1. PICK s, t : /\ <<s, t>> \in {<<"putThumb", "markReady">>, <<"markReady", "presignThumb">>,
                                     <<"cleanupRow", "cleanup">>,
                                     <<"purgeThumb", "purgeRow">>, <<"purgeRow", "purge">>}
                    /\ req[r].step = s /\ Go(r, t)
                    /\ s = "putThumb" => StoreThumb(r)
                    /\ s = "markReady" => WriteReady(r)
                    /\ s = "cleanupRow" => CleanupRow(r)
                    /\ s = "purgeThumb" => PurgeThumb(r)
                    /\ s = "purgeRow" => PurgeRow(r)
    <3>1. CASE PutThumb(r)
      BY <3>1 DEF PutThumb, StoreThumb
    <3>5. CASE MarkReady(r)
      BY <3>5 DEF MarkReady, WriteReady
    <3>2. CASE CleanupRow(r)
      BY <1>6, <3>2 DEF CleanupRow
    <3>3. CASE PurgeThumb(r)
      BY <3>3 DEF PurgeThumb
    <3>4. CASE PurgeRow(r)
      BY <3>4 DEF PurgeRow
    <3> QED BY <1>6, <3>1, <3>2, <3>3, <3>4, <3>5
  <2>2. req'[r].step = t /\ Kept(r)
    BY <1>0, <2>1, GoKeeps
  <2>3. \/ From(r, "putThumb") /\ StoreThumb(r) /\ t = "markReady"
        \/ From(r, "markReady") /\ WriteReady(r) /\ t = "presignThumb"
        \/ From(r, "cleanupRow") /\ CleanupRow(r) /\ t = "cleanup"
        \/ From(r, "purgeThumb") /\ PurgeThumb(r) /\ t = "purgeRow"
        \/ From(r, "purgeRow") /\ PurgeRow(r) /\ t = "purge"
    BY <2>1, <2>2 DEF From
  <2>4. CASE t = "markReady"
    BY <2>2, <2>3, <2>4 DEF Arrived, ArrivedFolder, ArrivedTree, ArrivedUpload, ArrivedFile, ArrivedThumb, ArrivedScript
  <2>8. CASE t = "presignThumb"
    BY <2>2, <2>3, <2>8 DEF Arrived, ArrivedFolder, ArrivedTree, ArrivedUpload, ArrivedFile, ArrivedThumb, ArrivedScript
  <2>5. CASE t = "cleanup"
    BY <2>2, <2>3, <2>5 DEF Arrived, ArrivedFolder, ArrivedTree, ArrivedUpload, ArrivedFile, ArrivedThumb, ArrivedScript
  <2>6. CASE t = "purgeRow"
    <3>1. From(r, "purgeThumb") /\ PurgeThumb(r)
      BY <2>3, <2>6
    <3>2. req'[r].step = "purgeRow"
      BY <2>2, <2>6
    <3>3. ArrivedScript(r)
      BY <3>1, <3>2 DEF ArrivedScript
    <3> QED BY <3>2, <3>3 DEF Arrived, ArrivedFolder, ArrivedTree, ArrivedUpload, ArrivedFile, ArrivedThumb
  <2>7. CASE t = "purge"
    BY <2>2, <2>3, <2>7 DEF Arrived, ArrivedFolder, ArrivedTree, ArrivedUpload, ArrivedFile, ArrivedThumb, ArrivedScript
  <2> QED BY <2>3, <2>4, <2>5, <2>6, <2>7, <2>8
<1> QED BY <1>1, <1>2, <1>3, <1>4, <1>5, <1>6

LEMMA TakeUpFields ==
  ASSUME ReqTypeOK, NEW r \in Request, NEW f, TakeUpCleanup(r, f) \/ TakeUpPurge(r, f)
  PROVE  /\ req'[r].file = f /\ TakesUp(r)
         /\ TakeUpCleanup(r, f) => req[r].step = "cleanup" /\ req'[r].step = "cleanupRow"
         /\ TakeUpPurge(r, f) => /\ req[r].step = "purge"
                                 /\ req'[r].step = IF f \in req[r].marked THEN "purgeThumb" ELSE "purgeRow"
<1>1. req[r] \in LocalRow /\ req \in [Request -> LocalRow]
  BY Locals
<1>2. CASE TakeUpCleanup(r, f)
  BY <1>1, <1>2 DEF TakeUpCleanup, TakeUpPurge, TakesUp, LocalRow, At
<1>3. CASE TakeUpPurge(r, f)
  BY <1>1, <1>3 DEF TakeUpCleanup, TakeUpPurge, TakesUp, LocalRow, At
<1> QED BY <1>2, <1>3

LEMMA LooksUpArrived ==
  ASSUME HandlerInv, NEW r \in Request, LooksUp(r)
  PROVE  Arrived(r)
<1> USE DEF At
<1>0. req[r] \in LocalRow /\ req \in [Request -> LocalRow]
  BY Locals DEF HandlerInv
<1>1. CASE ReadSubtree(r)
  <2> DEFINE ReadsAt(s, t) ==
               /\ req[r].step = s
               /\ req' = [req EXCEPT ![r] = [req[r] EXCEPT !.step = t, !.ids = SubtreeIds(req[r].folder)]]
  <2>1. \/ ReadsAt("readSubtreeToTrash", "beginTrash")
        \/ ReadsAt("readSubtreeToDelete", "readDoomed")
        \/ ReadsAt("readSubtreeToRestore", "restoreTree")
    <3>1. PICK next \in {<<"readSubtreeToTrash", "beginTrash">>, <<"readSubtreeToDelete", "readDoomed">>,
                         <<"readSubtreeToRestore", "restoreTree">>} :
            /\ req[r].step = next[1]
            /\ req' = [req EXCEPT ![r].step = next[2], ![r].ids = SubtreeIds(req[r].folder)]
      BY <1>1 DEF ReadSubtree
    <3>2. ReadsAt(next[1], next[2])
      BY <1>0, <3>1 DEF LocalRow
    <3>3. \/ next[1] = "readSubtreeToTrash" /\ next[2] = "beginTrash"
          \/ next[1] = "readSubtreeToDelete" /\ next[2] = "readDoomed"
          \/ next[1] = "readSubtreeToRestore" /\ next[2] = "restoreTree"
      OBVIOUS
    <3> HIDE DEF ReadsAt
    <3> QED BY <3>2, <3>3
  <2>2. ASSUME NEW s, NEW t, ReadsAt(s, t)
        PROVE  req[r].step = s /\ req'[r].step = t /\ Listed(r)
    <3>1. UNCHANGED vars
      BY <1>1 DEF ReadSubtree
    <3> QED BY <1>0, <2>2, <3>1 DEF LocalRow, Listed
  <2> HIDE DEF ReadsAt
  <2> QED BY <2>1, <2>2 DEF Arrived, ArrivedFolder, ArrivedTree, ArrivedUpload, ArrivedFile, ArrivedThumb, ArrivedScript
<1>2. CASE ReadDoomed(r)
  <2> DEFINE rows == FilesUnder(req[r].ids)
             marked == {f \in rows : files[f].status = "complete"}
  <2>1. /\ req[r].step = "readDoomed" /\ UNCHANGED vars
        /\ req' = [req EXCEPT ![r] = [req[r] EXCEPT !.step = "deleteStored", !.rows = rows, !.left = rows,
                                                    !.marked = marked]]
    BY <1>0, <1>2 DEF ReadDoomed, LocalRow, Swept
  <2>2. /\ req'[r].step = "deleteStored" /\ req'[r].rows = rows /\ req'[r].left = rows /\ req'[r].marked = marked
        /\ req'[r].folder = req[r].folder /\ req'[r].dest = req[r].dest
        /\ req'[r].file = req[r].file /\ req'[r].ids = req[r].ids
    <3> HIDE DEF rows, marked
    <3> QED BY <1>0, <2>1 DEF LocalRow
  <2> QED BY <2>1, <2>2 DEF Arrived, ArrivedFolder, ArrivedTree, ArrivedUpload, ArrivedFile, ArrivedThumb, ArrivedScript
<1>3. CASE ReadOldFolders(r) /\ ~Done(r)
  <2> DEFINE old == OldFolders(req[r].cutoff)
  <2>1. /\ req[r].step = "purge" /\ req[r].left = {} /\ UNCHANGED vars
        /\ req' = [req EXCEPT ![r] = [req[r] EXCEPT !.step = "purgeFolders", !.ids = old]]
    BY <1>0, <1>3 DEF ReadOldFolders, LocalRow
  <2>2. /\ req'[r].step = "purgeFolders" /\ req'[r].rows = req[r].rows /\ req'[r].left = req[r].left
        /\ req'[r].folder = req[r].folder /\ req'[r].dest = req[r].dest /\ req'[r].ids = old
        /\ req'[r].file = req[r].file /\ req'[r].cutoff = req[r].cutoff
    <3> HIDE DEF old
    <3> QED BY <1>0, <2>1 DEF LocalRow
  <2> QED BY <2>1, <2>2 DEF Arrived, ArrivedFolder, ArrivedTree, ArrivedUpload, ArrivedFile, ArrivedThumb, ArrivedScript
<1> QED BY <1>1, <1>2, <1>3 DEF LooksUp

LEMMA BeginTrashArrived ==
  ASSUME HandlerInv, NEW r \in Request, BeginTrash(r)
  PROVE  Arrived(r) /\ Learns(r)
<1>1. /\ req[r] \in LocalRow /\ req \in [Request -> LocalRow] /\ At(r, "beginTrash")
      /\ req' = [req EXCEPT ![r] = [req[r] EXCEPT !.step = "trashTree", !.stamp = clock']]
      /\ req[r].left \subseteq req[r].rows
  BY Locals, BeginTrashMoved DEF HandlerInv, BeginTrash, Fresh
<1>2. req'[r].step = "trashTree" /\ req'[r].stamp = clock' /\ Kept(r)
  BY <1>1 DEF LocalRow, Kept
<1>3. Arrived(r)
  BY <1>1, <1>2 DEF At, From, Arrived, ArrivedFolder, ArrivedTree, ArrivedUpload, ArrivedFile, ArrivedThumb, ArrivedScript
<1>4. Learns(r)
  BY <1>1, <1>2 DEF Kept, At, Learns, Knows, KnowsFile
<1> QED BY <1>3, <1>4

LEMMA LoopsArrived ==
  ASSUME HandlerInv, NEW r \in Request,
         \/ \E f \in FileId : DeleteStored(r, f) \/ CleanupAbort(r, f) \/ PurgeObject(r, f)
         \/ (\E d \in FolderId : PurgeFolderRow(r, d)) /\ ~Done(r)
  PROVE  Arrived(r)
<1> USE DEF At
<1>0. ReqTypeOK /\ req[r] \in LocalRow /\ req \in [Request -> LocalRow]
  BY Locals DEF HandlerInv
<1>1. CASE \E f \in FileId : DeleteStored(r, f)
  <2>1. PICK f \in FileId : DeleteStored(r, f)
    BY <1>1
  <2>2. /\ req[r].step = "deleteStored"
        /\ req' = [req EXCEPT ![r] = [req[r] EXCEPT !.left = req[r].left \ {f}]]
    BY <1>0, <2>1 DEF DeleteStored, LocalRow
  <2>3. /\ req'[r].step = "deleteStored" /\ req'[r].left = req[r].left \ {f}
        /\ req'[r].rows = req[r].rows /\ req'[r].marked = req[r].marked
        /\ req'[r].folder = req[r].folder /\ req'[r].dest = req[r].dest
        /\ req'[r].file = req[r].file /\ req'[r].ids = req[r].ids
    BY <1>0, <2>2 DEF LocalRow
  <2> QED BY <2>1, <2>3 DEF Arrived, ArrivedFolder, ArrivedTree, ArrivedUpload, ArrivedFile, ArrivedThumb, ArrivedScript
<1>2. CASE \E f \in FileId : CleanupAbort(r, f)
  <2>1. PICK f \in FileId : CleanupAbort(r, f) /\ TakeUpCleanup(r, f)
    BY <1>2 DEF CleanupAbort
  <2>2. req'[r].file = f /\ TakesUp(r) /\ req[r].step = "cleanup" /\ req'[r].step = "cleanupRow"
    BY <1>0, <2>1, TakeUpFields
  <2> QED BY <2>1, <2>2 DEF Arrived, ArrivedFolder, ArrivedTree, ArrivedUpload, ArrivedFile, ArrivedThumb, ArrivedScript
<1>3. CASE \E f \in FileId : PurgeObject(r, f)
  <2>1. PICK f \in FileId : PurgeObject(r, f) /\ TakeUpPurge(r, f)
    BY <1>3 DEF PurgeObject
  <2>2. /\ req'[r].file = f /\ TakesUp(r) /\ req[r].step = "purge"
        /\ req'[r].step = IF f \in req[r].marked THEN "purgeThumb" ELSE "purgeRow"
    BY <1>0, <2>1, TakeUpFields
  <2> QED BY <2>1, <2>2 DEF Arrived, ArrivedFolder, ArrivedTree, ArrivedUpload, ArrivedFile, ArrivedThumb, ArrivedScript
<1>4. CASE (\E d \in FolderId : PurgeFolderRow(r, d)) /\ ~Done(r)
  <2>1. PICK d \in FolderId : PurgeFolderRow(r, d)
    BY <1>4
  <2>2. /\ req[r].step = "purgeFolders"
        /\ req' = [req EXCEPT ![r] = [req[r] EXCEPT !.ids = req[r].ids \ {d}]]
    BY <1>0, <1>4, <2>1 DEF PurgeFolderRow, LocalRow
  <2>3. /\ req'[r].step = "purgeFolders" /\ req'[r].rows = req[r].rows /\ req'[r].left = req[r].left
        /\ req'[r].folder = req[r].folder /\ req'[r].dest = req[r].dest /\ req'[r].ids = req[r].ids \ {d}
        /\ req'[r].file = req[r].file /\ req'[r].cutoff = req[r].cutoff
    BY <1>0, <2>2 DEF LocalRow
  <2> QED BY <2>1, <2>3 DEF Arrived, ArrivedFolder, ArrivedTree, ArrivedUpload, ArrivedFile, ArrivedThumb, ArrivedScript
<1> QED BY <1>1, <1>2, <1>3, <1>4

LEMMA FaultsArrived ==
  ASSUME HandlerInv, NEW r \in Request, Fail(r) \/ Skip(r)
  PROVE  Arrived(r)
<1> USE DEF At
<1>0. ReqTypeOK
  BY DEF HandlerInv
<1>1. CASE Done(r)
  BY <1>0, <1>1, DoneIsIdle, IdleArrived
<1>2. ASSUME NEW s, NEW t, req[r].step = s, Go(r, t), UNCHANGED vars,
             <<s, t>> \in {<<"insertFile", "abortUpload">>, <<"putThumb", "markFailed">>,
                           <<"markReady", "markFailed">>, <<"deleteThumb", "deleteRow">>,
                           <<"purgeThumb", "purgeRow">>} /\ req[r].op \in Faults
      PROVE  Arrived(r)
  <2>1. req'[r].step = t /\ Kept(r)
    BY <1>0, <1>2, GoKeeps
  <2> QED BY <1>2, <2>1 DEF From, Looks, Arrived, ArrivedFolder, ArrivedTree, ArrivedUpload, ArrivedFile,
             ArrivedThumb, ArrivedScript
<1>4. ASSUME NEW s, req[r].step = s, Go(r, "markFailed"),
             \/ s = "presignThumb" /\ UNCHANGED vars
             \/ s = "markReady" /\ WriteReady(r)
             \/ s = "putThumb" /\ StoreThumb(r),
             <<req[r].op, req[r].file>> \in torn'
      PROVE  Arrived(r)
  <2>1. req'[r].step = "markFailed" /\ Kept(r)
    BY <1>0, <1>4, GoKeeps
  <2> QED BY <1>4, <2>1 DEF From, Looks, Arrived, ArrivedFolder, ArrivedTree, ArrivedUpload, ArrivedFile,
             ArrivedThumb, ArrivedScript
<1>5. ASSUME InsertRow(r), Go(r, "abortUpload"), <<req[r].op, req[r].file>> \in torn'
      PROVE  Arrived(r)
  <2>1. req'[r].step = "abortUpload" /\ Kept(r) /\ req[r].step = "insertFile"
    BY <1>0, <1>5, GoKeeps DEF InsertRow
  <2> QED BY <1>5, <2>1 DEF From, Arrived, ArrivedFolder, ArrivedTree, ArrivedUpload, ArrivedFile,
             ArrivedThumb, ArrivedScript
<1>6. CASE Fail(r)
  <2>1. CASE Die(r)
    BY <1>1, <2>1 DEF Die
  <2>2. CASE Catch(r) /\ UNCHANGED vars
    BY <1>2, <1>4, <1>6, <2>2 DEF Catch, Fail
  <2>3. CASE CatchAfter(r)
    BY <1>4, <1>5, <2>3 DEF CatchAfter, StoreThumb, WriteReady
  <2> QED BY <1>6, <2>1, <2>2, <2>3 DEF Fail
<1>3. ASSUME NEW f \in FileId, TakeUpCleanup(r, f) \/ TakeUpPurge(r, f), Skip(r), skipped' = skipped \cup {f}
      PROVE  Arrived(r)
  <2>1. req'[r].file = f /\ TakesUp(r) /\ Skipping(r)
    BY <1>0, <1>3, TakeUpFields DEF Skip, Skipping
  <2>2. CASE TakeUpCleanup(r, f)
    <3>1. req[r].step = "cleanup" /\ req'[r].step = "cleanupRow"
      BY <1>0, <2>2, TakeUpFields
    <3> QED BY <2>1, <3>1 DEF Arrived, ArrivedFolder, ArrivedTree, ArrivedUpload, ArrivedFile, ArrivedThumb, ArrivedScript
  <2>3. CASE TakeUpPurge(r, f)
    <3>1. req[r].step = "purge" /\ req'[r].step = IF f \in req[r].marked THEN "purgeThumb" ELSE "purgeRow"
      BY <1>0, <2>3, TakeUpFields
    <3> QED BY <2>1, <3>1 DEF Arrived, ArrivedFolder, ArrivedTree, ArrivedUpload, ArrivedFile, ArrivedThumb, ArrivedScript
  <2> QED BY <1>3, <2>2, <2>3
<1>7. CASE Skip(r)
  BY <1>2, <1>3, <1>7 DEF Skip
<1> QED BY <1>6, <1>7

LEMMA Arrivals ==
  ASSUME HandlerInv, NEW r \in Request, StepOf(r)
  PROVE  Arrived(r)
<1>0. ReqTypeOK
  BY DEF HandlerInv
<1>1. CASE Done(r)
  BY <1>0, <1>1, DoneIsIdle, IdleArrived
<1>2. CASE Continue(r) /\ ~Done(r)
  <2>1. \/ ReadNewParent(r) \/ CheckCycle(r) \/ ReadParent(r) \/ ReadDest(r) \/ ReadHome(r) \/ ReadSource(r)
        \/ CreateUpload(r) \/ InsertFile(r) \/ Stitch(r) \/ AbortPending(r) \/ DeleteObject(r) \/ DeleteThumb(r)
        \/ PutThumb(r) \/ MarkReady(r) \/ CleanupRow(r) \/ PurgeThumb(r) \/ PurgeRow(r)
        \/ LooksUp(r) \/ BeginTrash(r)
        \/ \E f \in FileId : DeleteStored(r, f) \/ CleanupAbort(r, f) \/ PurgeObject(r, f)
        \/ \E d \in FolderId : PurgeFolderRow(r, d)
    BY <1>2 DEF Continue, LooksUp, InsertFolder, UpdateFolder, TrashTree, DeleteFolderRow, RestoreTree,
                AbortUpload, MarkComplete, UpdateFile, TrashFileRow, DeleteRow, RestoreFileRow,
                PresignThumb, MarkFailed
  <2> QED BY <1>2, <2>1, PassesArrived, LooksUpArrived, BeginTrashArrived, LoopsArrived
<1> QED BY <1>1, <1>2, FolderStartArrived, FileStartArrived, ScriptStartArrived, FaultsArrived DEF StepOf

LEMMA LaterLearns ==
  ASSUME HandlerInv, NEW r \in Request, Done(r) \/ Passes(r) \/ LooksUp(r) \/ Loops(r)
  PROVE  Learns(r)
<1>0. /\ ReqTypeOK /\ TypeOK /\ req[r] \in LocalRow /\ req \in [Request -> LocalRow]
      /\ req[r].left \subseteq req[r].rows
  BY Locals DEF HandlerInv, ReqTypeOK, Fresh
<1>1. CASE Done(r)
  <2>1. req'[r] = Idle
    BY <1>0, <1>1, DoneMoves
  <2> QED BY <2>1 DEF Idle, Learns, Knows, KnowsFile
<1>2. CASE Passes(r)
  <2>1. PICK s, t : /\ <<s, t>> \in Onward /\ At(r, s) /\ Go(r, t)
                    /\ s \in {"readNewParent", "readDest"} => LiveFolder(req[r].dest)
    BY <1>2 DEF Passes
  <2>2. req'[r].step = t /\ Kept(r)
    BY <1>0, <2>1, GoKeeps
  <2> QED BY <1>0, <2>1, <2>2 DEF Kept, At, Learns, Knows, KnowsFile, LiveFolder
<1>3. CASE LooksUp(r)
  <2>1. /\ \A d : SubtreeIds(d) \subseteq DOMAIN folders
        /\ \A c : OldFolders(c) \subseteq DOMAIN folders
        /\ \A D : FilesUnder(D) \subseteq DOMAIN files
    BY <1>0, SubtreeIdsAreIds DEF OldFolders, FilesUnder
  <2>2. Arrived(r)
    BY <1>3, LooksUpArrived
  <2>3. \/ Listed(r) /\ req[r].step \notin {"readNewParent", "readDest"}
        \/ At(r, "readDoomed") /\ At(r, "deleteStored")'
        \/ At(r, "purge") /\ At(r, "purgeFolders")'
    <3>1. CASE ReadSubtree(r)
      <4>1. req'[r].step \in {"beginTrash", "readDoomed", "restoreTree"}
        <5>1. PICK next \in {<<"readSubtreeToTrash", "beginTrash">>, <<"readSubtreeToDelete", "readDoomed">>,
                             <<"readSubtreeToRestore", "restoreTree">>} :
                req' = [req EXCEPT ![r].step = next[2], ![r].ids = SubtreeIds(req[r].folder)]
          BY <3>1 DEF ReadSubtree
        <5>2. req'[r].step = next[2]
          BY <1>0, <5>1 DEF LocalRow
        <5> QED BY <5>2
      <4> QED BY <2>2, <4>1 DEF At, Arrived, ArrivedTree
    <3>2. CASE ReadDoomed(r)
      BY <1>0, <3>2 DEF ReadDoomed, At, LocalRow
    <3>3. CASE ReadOldFolders(r) /\ ~Done(r)
      BY <1>0, <3>3 DEF ReadOldFolders, At, LocalRow
    <3> QED BY <1>3, <3>1, <3>2, <3>3 DEF LooksUp
  <2>4. CASE Listed(r) /\ req[r].step \notin {"readNewParent", "readDest"}
    BY <1>0, <2>1, <2>4 DEF Listed, Learns, Knows, KnowsFile
  <2>5. CASE At(r, "readDoomed") /\ At(r, "deleteStored")'
    <3>1. /\ req'[r].folder = req[r].folder /\ req'[r].dest = req[r].dest
          /\ req'[r].file = req[r].file /\ req'[r].ids = req[r].ids
          /\ req'[r].rows = FilesUnder(req[r].ids) /\ req'[r].left = req'[r].rows
      BY <2>2, <2>5 DEF Arrived, ArrivedTree, At, DeleteStored
    <3> QED BY <2>1, <2>5, <3>1 DEF Learns, Knows, KnowsFile, At
  <2>6. CASE At(r, "purge") /\ At(r, "purgeFolders")'
    <3>1. /\ req'[r].folder = req[r].folder /\ req'[r].dest = req[r].dest
          /\ req'[r].file = req[r].file /\ req'[r].rows = req[r].rows /\ req'[r].left = req[r].left
          /\ req'[r].ids = OldFolders(req[r].cutoff)
      BY <2>2, <2>6 DEF Arrived, ArrivedScript, At, PurgeFolderRow
    <3> QED BY <1>0, <2>1, <2>6, <3>1 DEF Learns, Knows, KnowsFile, At
  <2> QED BY <2>3, <2>4, <2>5, <2>6
<1>4. CASE Loops(r)
  <2>1. CASE \E f \in FileId : TakeUpCleanup(r, f) \/ TakeUpPurge(r, f)
    <3>1. TakesUp(r) /\ req[r].step \in {"cleanup", "purge"}
      BY <1>0, <2>1, TakeUpFields
    <3> QED BY <1>0, <3>1 DEF TakesUp, Learns, Knows, KnowsFile
  <2>2. CASE \E f \in FileId : DeleteStored(r, f)
    <3>1. PICK f \in FileId : req' = [req EXCEPT ![r] = [req[r] EXCEPT !.left = req[r].left \ {f}]]
      BY <1>0, <2>2 DEF DeleteStored, LocalRow
    <3>2. /\ req'[r].left = req[r].left \ {f} /\ req'[r].rows = req[r].rows /\ req'[r].ids = req[r].ids
          /\ req'[r].folder = req[r].folder /\ req'[r].dest = req[r].dest
          /\ req'[r].file = req[r].file /\ req'[r].step = req[r].step
      BY <1>0, <3>1 DEF LocalRow
    <3> QED BY <1>0, <3>2 DEF Learns, Knows, KnowsFile
  <2>3. CASE (\E d \in FolderId : PurgeFolderRow(r, d)) /\ ~Done(r)
    <3>1. PICK d \in FolderId : req' = [req EXCEPT ![r] = [req[r] EXCEPT !.ids = req[r].ids \ {d}]]
      BY <1>0, <2>3 DEF PurgeFolderRow, LocalRow
    <3>2. /\ req'[r].left = req[r].left /\ req'[r].rows = req[r].rows /\ req'[r].ids = req[r].ids \ {d}
          /\ req'[r].folder = req[r].folder /\ req'[r].dest = req[r].dest
          /\ req'[r].file = req[r].file /\ req'[r].step = req[r].step
      BY <1>0, <3>1 DEF LocalRow
    <3> QED BY <1>0, <3>2 DEF Learns, Knows, KnowsFile
  <2> QED BY <1>4, <2>1, <2>2, <2>3 DEF Loops
<1> QED BY <1>1, <1>2, <1>3, <1>4

LEMMA Learned ==
  ASSUME HandlerInv, NEW r \in Request, StepOf(r)
  PROVE  Learns(r)
BY Kinds, FolderStartArrived, FileStartArrived, ScriptStartArrived, BeginTrashArrived, LaterLearns

LEMMA StaysFresh ==
  ASSUME HandlerInv, NEW r \in Request, StepOf(r), NEW q \in Request
  PROVE  Fresh(q)'
<1>0. /\ Moved(r) /\ Arrived(r) /\ Learns(r)
      /\ Fresh(q) /\ Fresh(r) /\ Holds(r) /\ Holds(q)
      /\ \A x \in Request \ {r} : req'[x] = req[x]
  BY StepMoved, Arrivals, Learned DEF HandlerInv, Moved
<1>1. /\ \A d \in DOMAIN folders' \ DOMAIN folders : At(r, "insertFolder") /\ d = req[r].folder /\ Done(r)
      /\ \A f \in DOMAIN files' \ DOMAIN files : At(r, "insertFile") /\ f = req[r].file
      /\ \A f \in objects' \ objects : At(r, "stitch") /\ f = req[r].file
      /\ \A f \in thumbs' \ thumbs : At(r, "putThumb") /\ f = req[r].file
  BY Grows
<1>2. Done(r) => req'[r].step = "idle"
  BY DoneIsIdle DEF HandlerInv
<1>3. \A d \in SubfolderId : d # Null
  BY RootAssumption DEF Null
<1>4. \A f \in FileId : f # Null
  BY NullAssumption
<1>5. CASE q # r
  <2>1. req'[q] = req[q]
    BY <1>0, <1>5
  <2>2. ASSUME At(q, "insertFolder"), NEW d, d = req[q].folder
        PROVE  /\ d \notin DOMAIN folders'
               /\ \A x \in Request \ {q} : ~Knows(x, d)'
    <3>1. /\ d \in SubfolderId /\ d \notin DOMAIN folders /\ \A x \in Request \ {q} : ~Knows(x, d)
      BY <1>0, <2>2 DEF Holds, Fresh
    <3>2. d \notin DOMAIN folders'
      BY <1>1, <1>5, <3>1 DEF Knows
    <3>3. ~Knows(r, d)'
      <4>1. At(r, "insertFolder")' => d # req'[r].folder
        BY <1>0, <2>2 DEF Arrived, ArrivedFolder, FreshFolder
      <4> QED BY <1>0, <1>3, <1>5, <3>1, <4>1 DEF Learns
    <3>4. ASSUME NEW x \in Request \ {q, r} PROVE ~Knows(x, d)'
      BY <1>0, <3>1, <3>4 DEF Knows
    <3> QED BY <3>2, <3>3, <3>4
  <2>3. ASSUME req[q].step \in OpeningSteps, NEW f, f = req[q].file
        PROVE  /\ f \notin DOMAIN files' \cup objects' \cup thumbs'
               /\ \A x \in Request \ {q} : ~KnowsFile(x, f)'
    <3>1. /\ f \in FileId /\ f \notin DOMAIN files \cup objects \cup thumbs
          /\ \A x \in Request \ {q} : ~KnowsFile(x, f)
      BY <1>0, <2>3 DEF Holds, Fresh, UploadSteps
    <3>2. f \notin DOMAIN files' \cup objects' \cup thumbs'
      BY <1>1, <1>5, <3>1 DEF KnowsFile
    <3>3. ~KnowsFile(r, f)'
      <4>1. At(r, "createUpload")' => f # req'[r].file
        BY <1>0, <2>3 DEF Arrived, ArrivedUpload, FreshFile
      <4> QED BY <1>0, <1>4, <1>5, <3>1, <4>1 DEF Learns
    <3>4. ASSUME NEW x \in Request \ {q, r} PROVE ~KnowsFile(x, f)'
      BY <1>0, <3>1, <3>4 DEF KnowsFile
    <3> QED BY <3>2, <3>3, <3>4
  <2> QED BY <1>0, <2>1, <2>2, <2>3 DEF Fresh, At
<1>6. CASE q = r
  <2>1. ASSUME At(r, "insertFolder")', NEW d, d = req'[r].folder
        PROVE  /\ d \notin DOMAIN folders'
               /\ \A x \in Request \ {r} : ~Knows(x, d)'
    <3>1. Starts(r) /\ FreshFolder(req'[r].folder)
      BY <1>0, <2>1 DEF Arrived, ArrivedFolder
    <3> QED BY <1>0, <2>1, <3>1 DEF FreshFolder, Starts, vars, Knows
  <2>2. ASSUME req'[r].step \in OpeningSteps, NEW f, f = req'[r].file
        PROVE  /\ f \notin DOMAIN files' \cup objects' \cup thumbs'
               /\ \A x \in Request \ {r} : ~KnowsFile(x, f)'
    <3>1. CASE req'[r].step = "createUpload"
      <4>1. Starts(r) /\ FreshFile(req'[r].file)
        BY <1>0, <3>1 DEF Arrived, ArrivedUpload, At
      <4> QED BY <1>0, <2>2, <4>1 DEF FreshFile, Starts, vars, KnowsFile
    <3>2. CASE req'[r].step = "insertFile"
      <4>1. req[r].step = "createUpload" /\ req'[r].file = req[r].file
        BY <1>0, <3>2 DEF Arrived, ArrivedUpload, At, From, Kept
      <4>2. /\ req[r].file \notin DOMAIN files \cup objects \cup thumbs
            /\ \A x \in Request \ {r} : ~KnowsFile(x, req[r].file)
        BY <1>0, <4>1 DEF Fresh, OpeningSteps
      <4>3. req[r].file \notin DOMAIN files'
        BY <1>1, <4>1, <4>2 DEF At
      <4>4. req[r].file \notin objects' \cup thumbs'
        BY <1>1, <4>1, <4>2 DEF At
      <4> QED BY <1>0, <2>2, <4>1, <4>2, <4>3, <4>4 DEF KnowsFile
    <3> QED BY <2>2, <3>1, <3>2 DEF OpeningSteps
  <2> QED BY <1>0, <1>6, <2>1, <2>2 DEF Fresh, Learns
<1> QED BY <1>5, <1>6

-----------------------------------------------------------------------------
(* Which step can do what to a row, or to an object.                       *)

FolderFates(r) ==
  /\ \A d \in DOMAIN folders' \ DOMAIN folders :
       /\ At(r, "insertFolder") /\ d = req[r].folder
       /\ folders'[d].parent = req[r].dest /\ folders'[d].deletedAt = NotDeleted
  /\ \A d \in DOMAIN folders \ DOMAIN folders' :
       \/ At(r, "deleteStored") /\ req[r].left = {} /\ d \in SubtreeIds(req[r].folder)
       \/ At(r, "purgeFolders") /\ \E e \in req[r].ids : d \in SubtreeIds(e)
  /\ \A d \in DOMAIN folders \cap DOMAIN folders' :
       /\ folders'[d].parent # folders[d].parent =>
            At(r, "updateFolder") /\ d = req[r].folder /\ folders'[d].parent = req[r].dest
       /\ folders'[d].deletedAt # folders[d].deletedAt =>
            \/ /\ At(r, "trashTree") /\ d \in req[r].ids /\ LiveFolder(d)
               /\ folders'[d].deletedAt = req[r].stamp
            \/ /\ At(r, "restoreTree") /\ d \in req[r].ids /\ InBatch(r, folders[d])
               /\ folders'[d].deletedAt = NotDeleted

FileFates(r) ==
  /\ \A f \in DOMAIN files' \ DOMAIN files :
       /\ At(r, "insertFile") /\ f = req[r].file
       /\ files'[f].folder = req[r].dest /\ files'[f].status = "pending" /\ files'[f].thumbnail = "none"
       /\ files'[f].hasThumb = FALSE /\ files'[f].deletedAt = NotDeleted
  /\ \A f \in DOMAIN files \ DOMAIN files' :
       \/ req[r].step \in {"deleteRow", "cleanupRow", "purgeRow"} /\ f = req[r].file
       \/ At(r, "deleteStored") /\ req[r].left = {} /\ files[f].folder \in SubtreeIds(req[r].folder)
       \/ At(r, "purgeFolders") /\ \E e \in req[r].ids : files[f].folder \in SubtreeIds(e)
  /\ \A f \in DOMAIN files \cap DOMAIN files' :
       /\ files'[f].folder # files[f].folder =>
            At(r, "updateFile") /\ f = req[r].file /\ files'[f].folder = req[r].dest
       /\ files'[f].status # files[f].status =>
            At(r, "markComplete") /\ f = req[r].file /\ files'[f].status = "complete"
       /\ files'[f].hasThumb # files[f].hasThumb => At(r, "markReady") /\ f = req[r].file
       /\ files'[f].thumbnail # files[f].thumbnail =>
            /\ f = req[r].file
            /\ \/ At(r, "markReady") /\ files'[f].thumbnail = "ready"
               \/ At(r, "markFailed") /\ files'[f].thumbnail = "failed"
       /\ files'[f].deletedAt # files[f].deletedAt =>
            \/ /\ At(r, "trashTree") /\ f \in Swept(r) /\ LiveFile(f)
               /\ files'[f].deletedAt = req[r].stamp
            \/ /\ At(r, "trashFile") /\ f = req[r].file
               /\ clock' = clock + 1 /\ files'[f].deletedAt = clock'
            \/ /\ At(r, "restoreTree") /\ f \in Swept(r) /\ InBatch(r, files[f])
               /\ files'[f].deletedAt = NotDeleted
            \/ At(r, "restoreFileRow") /\ f = req[r].file /\ files'[f].deletedAt = NotDeleted

BucketFates(r) ==
  /\ \A f \in objects' \ objects : At(r, "stitch") /\ At(r, "markComplete")' /\ f = req[r].file
  /\ \A f \in objects \ objects' :
       \/ At(r, "deleteStored") /\ f \in req[r].left \cap req[r].marked
       \/ At(r, "deleteObject") /\ f = req[r].file
       \/ At(r, "purge") /\ f \in req[r].left /\ f = req'[r].file /\ req'[r].step \in {"purgeThumb", "purgeRow"}
  /\ \A f \in thumbs' \ thumbs : At(r, "putThumb") /\ f = req[r].file
  /\ \A f \in thumbs \ thumbs' : req[r].step \in {"deleteThumb", "purgeThumb"} /\ f = req[r].file
  /\ \A f \in uploads' \ uploads : At(r, "createUpload") /\ f = req[r].file
  /\ \A f \in uploads \ uploads' :
       \/ At(r, "stitch") /\ At(r, "markComplete")' /\ f = req[r].file /\ f \in objects'
       \/ req[r].step \in {"abortUpload", "abortPending"} /\ f = req[r].file
       \/ At(r, "deleteStored") /\ f \in req[r].left \ req[r].marked
       \/ At(r, "cleanup") /\ f \in req[r].left /\ f = req'[r].file /\ At(r, "cleanupRow")'

Fates(r) == FolderFates(r) /\ FileFates(r) /\ BucketFates(r)

LEMMA SameTables ==
  ASSUME NEW r
  PROVE  /\ UNCHANGED folders => FolderFates(r)
         /\ UNCHANGED files => FileFates(r)
         /\ UNCHANGED bucket => BucketFates(r)
BY DEF FolderFates, FileFates, BucketFates, bucket

LEMMA TreeFates ==
  ASSUME HandlerInv, NEW r \in Request, WritesTree(r)
  PROVE  Fates(r)
<1>0. TypeOK
  BY DEF HandlerInv, ReqTypeOK
<1>1. BucketFates(r)
  BY SameTables DEF WritesTree, InsertFolder, UpdateFolder, TrashTree, RestoreTree, DeleteFolderRow,
                    PurgeFolderRow, bucket
<1>2. CASE InsertFolder(r)
  <2>1. UNCHANGED files
    BY <1>2 DEF InsertFolder
  <2>2. FolderFates(r)
    <3> DEFINE row == [parent |-> req[r].dest, name |-> req[r].name, deletedAt |-> NotDeleted]
               t == [x \in DOMAIN folders \cup {req[r].folder} |->
                       IF x = req[r].folder THEN row ELSE folders[x]]
    <3>1. At(r, "insertFolder") /\ (folders' = t \/ folders' = folders)
      BY <1>2 DEF InsertFolder, WriteFolders
    <3>2. req[r].folder \notin DOMAIN folders
      BY <3>1 DEF HandlerInv, Fresh
    <3>3. /\ DOMAIN t = DOMAIN folders \cup {req[r].folder} /\ t[req[r].folder] = row
          /\ \A x \in DOMAIN folders : t[x] = folders[x]
      BY <3>2
    <3>4. row.parent = req[r].dest /\ row.deletedAt = NotDeleted
      OBVIOUS
    <3> HIDE DEF row, t
    <3> QED BY <3>1, <3>3, <3>4 DEF FolderFates
  <2> QED BY <1>1, <2>1, <2>2, SameTables DEF Fates
<1>3. CASE UpdateFolder(r)
  <2>1. UNCHANGED files
    BY <1>3 DEF UpdateFolder
  <2> DEFINE t == [x \in DOMAIN folders |->
                     IF x = req[r].folder
                     THEN [folders[req[r].folder] EXCEPT !.parent = req[r].dest, !.name = req[r].name]
                     ELSE folders[x]]
  <2>2. At(r, "updateFolder") /\ (folders' = t \/ folders' = folders)
    BY <1>3 DEF UpdateFolder, WriteFolders
  <2>3. \A d \in DOMAIN folders : /\ t[d].deletedAt = folders[d].deletedAt
                                  /\ d # req[r].folder => t[d] = folders[d]
                                  /\ d = req[r].folder => t[d].parent = req[r].dest
    BY <1>0 DEF TypeOK, FolderRow
  <2>4. DOMAIN t = DOMAIN folders
    OBVIOUS
  <2> HIDE DEF t
  <2>5. FolderFates(r)
    BY <2>2, <2>3, <2>4 DEF FolderFates
  <2> QED BY <1>1, <2>1, <2>5, SameTables DEF Fates
<1>4. CASE TrashTree(r)
  <2>1. FolderFates(r)
    <3>1. \A d \in DOMAIN folders : folders'[d].parent = folders[d].parent /\
            folders'[d].deletedAt = IF d \in req[r].ids /\ LiveFolder(d) THEN req[r].stamp ELSE folders[d].deletedAt
      BY <1>0, <1>4 DEF TrashTree, TypeOK, FolderRow
    <3>2. At(r, "trashTree") /\ DOMAIN folders' = DOMAIN folders
      BY <1>4 DEF TrashTree
    <3> QED BY <3>1, <3>2 DEF FolderFates
  <2>2. FileFates(r)
    <3>1. \A f \in DOMAIN files :
            /\ files'[f].folder = files[f].folder /\ files'[f].status = files[f].status
            /\ files'[f].hasThumb = files[f].hasThumb /\ files'[f].thumbnail = files[f].thumbnail
            /\ files'[f].deletedAt = IF f \in Swept(r) /\ LiveFile(f) THEN req[r].stamp ELSE files[f].deletedAt
      BY <1>0, <1>4 DEF TrashTree, TypeOK, FileRow
    <3>2. At(r, "trashTree") /\ DOMAIN files' = DOMAIN files
      BY <1>4 DEF TrashTree
    <3> QED BY <3>1, <3>2 DEF FileFates
  <2> QED BY <1>1, <2>1, <2>2 DEF Fates
<1>5. CASE RestoreTree(r)
  <2>0. At(r, "restoreTree") /\ DOMAIN folders' = DOMAIN folders /\ DOMAIN files' = DOMAIN files
    BY <1>5 DEF RestoreTree
  <2>1. FolderFates(r)
    <3>1. \A d \in DOMAIN folders :
            /\ folders'[d].parent = folders[d].parent
            /\ \/ folders'[d].deletedAt = folders[d].deletedAt
               \/ /\ d \in req[r].ids /\ InBatch(r, folders[d])
                  /\ folders'[d].deletedAt = NotDeleted
      BY <1>0, <1>5 DEF RestoreTree, TypeOK, FolderRow
    <3> QED BY <2>0, <3>1 DEF FolderFates
  <2>2. FileFates(r)
    <3>1. \A f \in DOMAIN files :
            /\ files'[f].folder = files[f].folder /\ files'[f].status = files[f].status
            /\ files'[f].hasThumb = files[f].hasThumb /\ files'[f].thumbnail = files[f].thumbnail
            /\ \/ files'[f].deletedAt = files[f].deletedAt
               \/ f \in BatchFiles(r) /\ files'[f].deletedAt = NotDeleted
      BY <1>0, <1>5 DEF RestoreTree, TypeOK, FileRow
    <3>2. \A f \in BatchFiles(r) : f \in Swept(r) /\ InBatch(r, files[f])
      BY DEF BatchFiles
    <3> QED BY <2>0, <3>1, <3>2 DEF FileFates
  <2> QED BY <1>1, <2>1, <2>2 DEF Fates
<1>6. CASE DeleteFolderRow(r)
  <2>1. /\ At(r, "deleteStored") /\ req[r].left = {}
        /\ DOMAIN folders' = DOMAIN folders \ SubtreeIds(req[r].folder)
        /\ \A d \in DOMAIN folders' : folders'[d] = folders[d]
        /\ DOMAIN files' = DOMAIN files \ FilesUnder(SubtreeIds(req[r].folder))
        /\ \A f \in DOMAIN files' : files'[f] = files[f]
    BY <1>6 DEF DeleteFolderRow, WithoutRows
  <2>2. FolderFates(r)
    BY <2>1 DEF FolderFates
  <2>3. FileFates(r)
    BY <2>1 DEF FileFates, FilesUnder
  <2> QED BY <1>1, <2>2, <2>3 DEF Fates
<1>7. CASE \E e \in FolderId : PurgeFolderRow(r, e)
  <2>1. PICK e \in FolderId :
        /\ At(r, "purgeFolders") /\ e \in req[r].ids
        /\ DOMAIN folders' = DOMAIN folders \ SubtreeIds(e)
        /\ \A d \in DOMAIN folders' : folders'[d] = folders[d]
        /\ DOMAIN files' = DOMAIN files \ FilesUnder(SubtreeIds(e))
        /\ \A f \in DOMAIN files' : files'[f] = files[f]
    BY <1>7 DEF PurgeFolderRow, WithoutRows
  <2>2. FolderFates(r)
    BY <2>1 DEF FolderFates
  <2>3. FileFates(r)
    BY <2>1 DEF FileFates, FilesUnder
  <2> QED BY <1>1, <2>2, <2>3 DEF Fates
<1> QED BY <1>2, <1>3, <1>4, <1>5, <1>6, <1>7 DEF WritesTree

LEMMA RowFates ==
  ASSUME HandlerInv, NEW r \in Request, WritesRow(r)
  PROVE  Fates(r)
<1>0. TypeOK
  BY DEF HandlerInv, ReqTypeOK
<1>1. FolderFates(r) /\ BucketFates(r)
  BY SameTables DEF WritesRow, InsertRow, MarkComplete, UpdateFile, TrashFileRow, RestoreFileRow,
                    WriteReady, MarkFailed, DeleteRow, CleanupRow, PurgeRow
<1>2. CASE InsertRow(r)
  <2>1. At(r, "insertFile")
    BY <1>2 DEF InsertRow
  <2> DEFINE row == [folder |-> req[r].dest, name |-> req[r].name, status |-> "pending", thumbnail |-> "none",
                     hasThumb |-> FALSE, deletedAt |-> NotDeleted]
             t == [x \in DOMAIN files \cup {req[r].file} |-> IF x = req[r].file THEN row ELSE files[x]]
  <2>2. files' = t \/ files' = files
    BY <1>2 DEF InsertRow, WriteFiles
  <2>3. req[r].file \notin DOMAIN files
    BY <2>1 DEF HandlerInv, Fresh, At, OpeningSteps
  <2>4. /\ DOMAIN t = DOMAIN files \cup {req[r].file} /\ t[req[r].file] = row
        /\ \A x \in DOMAIN files : t[x] = files[x]
    BY <2>3
  <2>5. /\ row.folder = req[r].dest /\ row.status = "pending" /\ row.thumbnail = "none"
        /\ row.hasThumb = FALSE /\ row.deletedAt = NotDeleted
    OBVIOUS
  <2> HIDE DEF row, t
  <2>6. FileFates(r)
    BY <2>1, <2>2, <2>4, <2>5 DEF FileFates
  <2> QED BY <1>1, <2>6 DEF Fates
<1>3. CASE UpdateFile(r) \/ RestoreFileRow(r)
  <2>1. \/ /\ At(r, "updateFile") /\ DOMAIN files' = DOMAIN files
           /\ \A f \in DOMAIN files :
                \/ files'[f] = files[f]
                \/ /\ f = req[r].file
                   /\ files'[f] = [files[f] EXCEPT !.folder = req[r].dest, !.name = req[r].name]
        \/ /\ At(r, "restoreFileRow") /\ DOMAIN files' = DOMAIN files
           /\ \A f \in DOMAIN files :
                \/ files'[f] = files[f]
                \/ f = req[r].file /\ files'[f] = [files[f] EXCEPT !.deletedAt = NotDeleted]
    <3>1. CASE UpdateFile(r)
      BY <3>1 DEF UpdateFile, WriteFiles
    <3>2. CASE RestoreFileRow(r)
      BY <3>2 DEF RestoreFileRow, WriteFiles
    <3> QED BY <1>3, <3>1, <3>2
  <2>2. DOMAIN files' = DOMAIN files
    BY <2>1
  <2>3. \A f \in DOMAIN files :
          \/ files'[f] = files[f]
          \/ /\ f = req[r].file
             /\ files'[f].status = files[f].status /\ files'[f].hasThumb = files[f].hasThumb
             /\ files'[f].thumbnail = files[f].thumbnail
             /\ \/ /\ At(r, "updateFile") /\ files'[f].folder = req[r].dest
                   /\ files'[f].deletedAt = files[f].deletedAt
                \/ /\ At(r, "restoreFileRow") /\ files'[f].folder = files[f].folder
                   /\ files'[f].deletedAt = NotDeleted
    <3> SUFFICES ASSUME NEW f \in DOMAIN files, files'[f] # files[f]
                 PROVE  /\ f = req[r].file
                        /\ files'[f].status = files[f].status /\ files'[f].hasThumb = files[f].hasThumb
                        /\ files'[f].thumbnail = files[f].thumbnail
                        /\ \/ /\ At(r, "updateFile") /\ files'[f].folder = req[r].dest
                              /\ files'[f].deletedAt = files[f].deletedAt
                           \/ /\ At(r, "restoreFileRow") /\ files'[f].folder = files[f].folder
                              /\ files'[f].deletedAt = NotDeleted
      OBVIOUS
    <3>1. files[f] \in FileRow
      BY <1>0 DEF TypeOK
    <3>2. \/ /\ At(r, "updateFile") /\ f = req[r].file
             /\ files'[f] = [files[f] EXCEPT !.folder = req[r].dest, !.name = req[r].name]
          \/ /\ At(r, "restoreFileRow") /\ f = req[r].file
             /\ files'[f] = [files[f] EXCEPT !.deletedAt = NotDeleted]
      BY <2>1
    <3> QED BY <3>1, <3>2 DEF FileRow
  <2>4. FileFates(r)
    BY <2>2, <2>3 DEF FileFates
  <2> QED BY <1>1, <2>4 DEF Fates
<1>4. CASE MarkComplete(r) \/ TrashFileRow(r) \/ WriteReady(r) \/ MarkFailed(r)
  <2> DEFINE f == req[r].file
  <2>1. PICK row : /\ files' = IF f \in DOMAIN files THEN [files EXCEPT ![f] = row] ELSE files
                   /\ \/ At(r, "markComplete") /\ row = [files[f] EXCEPT !.status = "complete"]
                      \/ /\ At(r, "trashFile") /\ row = [files[f] EXCEPT !.deletedAt = clock']
                         /\ clock' = clock + 1
                      \/ At(r, "markReady") /\ row = [files[f] EXCEPT !.thumbnail = "ready", !.hasThumb = TRUE]
                      \/ At(r, "markFailed") /\ row = [files[f] EXCEPT !.thumbnail = "failed"]
    <3>1. CASE MarkComplete(r)
      BY <3>1 DEF MarkComplete, UpdateRow
    <3>2. CASE TrashFileRow(r)
      BY <3>2 DEF TrashFileRow, UpdateRow
    <3>3. CASE WriteReady(r)
      BY <3>3 DEF WriteReady, UpdateRow
    <3>4. CASE MarkFailed(r)
      BY <3>4 DEF MarkFailed, UpdateRow
    <3> QED BY <1>4, <3>1, <3>2, <3>3, <3>4
  <2>2. CASE f \notin DOMAIN files
    BY <1>1, <2>1, <2>2, SameTables DEF Fates
  <2>3. CASE f \in DOMAIN files
    <3>1. DOMAIN files' = DOMAIN files /\ files'[f] = row /\ \A g \in DOMAIN files \ {f} : files'[g] = files[g]
      BY <2>1, <2>3
    <3>2. files[f] \in FileRow
      BY <1>0, <2>3 DEF TypeOK
    <3>3. /\ row.folder = files[f].folder
          /\ row.status # files[f].status => At(r, "markComplete") /\ row.status = "complete"
          /\ row.hasThumb # files[f].hasThumb => At(r, "markReady")
          /\ row.thumbnail # files[f].thumbnail => \/ At(r, "markReady") /\ row.thumbnail = "ready"
                                                   \/ At(r, "markFailed") /\ row.thumbnail = "failed"
          /\ row.deletedAt # files[f].deletedAt =>
               At(r, "trashFile") /\ clock' = clock + 1 /\ row.deletedAt = clock'
      BY <2>1, <3>2 DEF FileRow
    <3>4. FileFates(r)
      BY <3>1, <3>3 DEF FileFates
    <3> QED BY <1>1, <3>4 DEF Fates
  <2> QED BY <2>2, <2>3
<1>5. CASE DeleteRow(r) \/ CleanupRow(r) \/ PurgeRow(r)
  <2>1. /\ req[r].step \in {"deleteRow", "cleanupRow", "purgeRow"}
        /\ files' = WithoutRows(files, {req[r].file})
    BY <1>5 DEF DeleteRow, CleanupRow, PurgeRow, At
  <2>2. FileFates(r)
    BY <2>1 DEF FileFates, WithoutRows
  <2> QED BY <1>1, <2>2 DEF Fates
<1> QED BY <1>2, <1>3, <1>4, <1>5 DEF WritesRow

LEMMA StoreFates ==
  ASSUME HandlerInv, NEW r \in Request, WritesBucket(r)
  PROVE  Fates(r)
<1>0. ReqTypeOK
  BY DEF HandlerInv
<1>1. FolderFates(r) /\ FileFates(r)
  BY SameTables DEF WritesBucket, CreateUpload, AbortUpload, Stitch, AbortPending, DeleteObject, DeleteThumb,
                    StoreThumb, PurgeThumb, DeleteStored, CleanupAbort, PurgeObject, tree
<1>2. CASE CreateUpload(r) \/ AbortUpload(r) \/ AbortPending(r)
  <2>1. BucketFates(r)
    BY <1>2 DEF CreateUpload, AbortUpload, AbortPending, BucketFates, At
  <2> QED BY <1>1, <2>1 DEF Fates
<1>3. CASE Stitch(r)
  <2>1. req[r].file \in uploads => At(r, "markComplete")'
    BY <1>0, <1>3, GoKeeps DEF Stitch, At
  <2>2. BucketFates(r)
    BY <1>3, <2>1 DEF Stitch, BucketFates, At
  <2> QED BY <1>1, <2>2 DEF Fates
<1>4. CASE DeleteObject(r) \/ DeleteThumb(r) \/ StoreThumb(r) \/ PurgeThumb(r)
  <2>1. BucketFates(r)
    BY <1>4 DEF DeleteObject, DeleteThumb, StoreThumb, PurgeThumb, BucketFates, At
  <2> QED BY <1>1, <2>1 DEF Fates
<1>5. CASE \E f \in FileId : DeleteStored(r, f)
  <2>1. BucketFates(r)
    BY <1>5 DEF DeleteStored, BucketFates, At
  <2> QED BY <1>1, <2>1 DEF Fates
<1>6. CASE \E f \in FileId : CleanupAbort(r, f) \/ PurgeObject(r, f)
  <2>1. PICK f \in FileId : CleanupAbort(r, f) \/ PurgeObject(r, f)
    BY <1>6
  <2>2. /\ f \in req[r].left /\ req'[r].file = f /\ UNCHANGED thumbs
        /\ \/ At(r, "cleanup") /\ At(r, "cleanupRow")' /\ uploads' = uploads \ {f} /\ UNCHANGED objects
           \/ /\ At(r, "purge") /\ req'[r].step \in {"purgeThumb", "purgeRow"}
              /\ objects' = objects \ {f} /\ UNCHANGED uploads
    <3>1. CASE CleanupAbort(r, f)
      BY <1>0, <3>1, TakeUpFields DEF CleanupAbort, TakeUpCleanup, At
    <3>2. CASE PurgeObject(r, f)
      BY <1>0, <3>2, TakeUpFields DEF PurgeObject, TakeUpPurge, At
    <3> QED BY <2>1, <3>1, <3>2
  <2>3. BucketFates(r)
    BY <2>2 DEF BucketFates
  <2> QED BY <1>1, <2>3 DEF Fates
<1> QED BY <1>2, <1>3, <1>4, <1>5, <1>6 DEF WritesBucket

LEMMA EveryFate ==
  ASSUME HandlerInv, NEW r \in Request, StepOf(r)
  PROVE  Fates(r)
<1>1. CASE UNCHANGED vars \/ BeginTrash(r)
  BY <1>1, SameTables DEF vars, bucket, BeginTrash, Fates
<1> QED BY <1>1, Writes, TreeFates, RowFates, StoreFates

-----------------------------------------------------------------------------
(* The tables keep their types, the clock has room, and the histories grow. *)

LEMMA Ticks ==
  ASSUME NEW r, StepOf(r)
  PROVE  \/ UNCHANGED clock
         \/ (BeginTrash(r) \/ (At(r, "trashFile") /\ Done(r))) /\ clock' = clock + 1
<1>1. CASE UNCHANGED vars
  BY <1>1 DEF vars
<1>2. CASE BeginTrash(r)
  BY <1>2 DEF BeginTrash
<1>3. CASE WritesTree(r)
  BY <1>3 DEF WritesTree, InsertFolder, UpdateFolder, TrashTree, RestoreTree, DeleteFolderRow, PurgeFolderRow
<1>4. CASE WritesRow(r)
  BY <1>4 DEF WritesRow, InsertRow, MarkComplete, UpdateFile, TrashFileRow, RestoreFileRow,
              WriteReady, MarkFailed, DeleteRow, CleanupRow, PurgeRow
<1>5. CASE WritesBucket(r)
  BY <1>5 DEF WritesBucket, CreateUpload, AbortUpload, Stitch, AbortPending, DeleteObject, DeleteThumb,
              StoreThumb, PurgeThumb, DeleteStored, CleanupAbort, PurgeObject, tree
<1> QED BY <1>1, <1>2, <1>3, <1>4, <1>5, Writes

LEMMA RoomLeft ==
  ASSUME HandlerInv, NEW r \in Request, req[r].step \in {"beginTrash", "trashFile"}
  PROVE  clock + 1 \in Time /\ clock \in Nat
<1>1. r \in Trashers /\ IsFiniteSet(Trashers) /\ clock + Cardinality(Trashers) <= MaxClock /\ clock \in Nat
  BY MaxClockAssumption DEF HandlerInv, ReqTypeOK, TypeOK, Time, ClockRoom, Trashers
<1>2. Cardinality(Trashers) \in Nat /\ Cardinality(Trashers) # 0
  BY <1>1, FS_CardinalityType, FS_EmptySet
<1> QED BY <1>1, <1>2, MaxClockAssumption DEF Time

LEMMA ClockKeepsRoom ==
  ASSUME HandlerInv, NEW r \in Request, StepOf(r)
  PROVE  ClockRoom'
<1>0. /\ IsFiniteSet(Trashers) /\ clock + Cardinality(Trashers) <= MaxClock /\ clock \in Nat
      /\ Cardinality(Trashers) \in Nat
  BY MaxClockAssumption, FS_CardinalityType DEF HandlerInv, ReqTypeOK, TypeOK, Time, ClockRoom
<1>1. /\ \A q \in Request \ {r} : req'[q] = req[q]
      /\ Arrived(r)
  BY StepMoved, Arrivals DEF Moved
<1>2. CASE (BeginTrash(r) \/ (At(r, "trashFile") /\ Done(r))) /\ clock' = clock + 1
  <2>1. req'[r].step \in {"idle", "trashTree"} /\ req[r].step \in {"beginTrash", "trashFile"}
    <3>1. CASE BeginTrash(r)
      BY <3>1, BeginTrashMoved, Locals DEF HandlerInv, BeginTrash, At, LocalRow
    <3>2. CASE At(r, "trashFile") /\ Done(r)
      BY <3>2, DoneIsIdle DEF HandlerInv, At
    <3> QED BY <1>2, <3>1, <3>2
  <2>2. r \in Trashers /\ Trashers' = Trashers \ {r}
    BY <1>1, <1>2, <2>1 DEF Trashers
  <2>3. IsFiniteSet(Trashers') /\ Cardinality(Trashers') = Cardinality(Trashers) - 1
    BY <1>0, <2>2, FS_RemoveElement
  <2> QED BY <1>0, <1>2, <2>3, MaxClockAssumption DEF ClockRoom
<1>3. CASE UNCHANGED clock /\ Trashers' \subseteq Trashers
  <2>1. IsFiniteSet(Trashers') /\ Cardinality(Trashers') <= Cardinality(Trashers)
    BY <1>0, <1>3, FS_Subset
  <2>2. Cardinality(Trashers') \in Nat
    BY <2>1, FS_CardinalityType
  <2> QED BY <1>0, <1>3, <2>1, <2>2, MaxClockAssumption DEF ClockRoom
<1>4. CASE UNCHANGED clock /\ ~(Trashers' \subseteq Trashers)
  <2>1. Trashers' = Trashers \cup {r} /\ r \notin Trashers
    BY <1>1, <1>4 DEF Trashers
  <2>2. req'[r].step \in {"readSubtreeToTrash", "beginTrash", "trashFile"} /\ ~At(r, "readSubtreeToTrash")
    BY <2>1 DEF Trashers, At
  <2>3. RoomToTrash
    BY <1>1, <2>2 DEF Arrived, ArrivedFolder, ArrivedTree, ArrivedFile, At
  <2>4. IsFiniteSet(Trashers') /\ Cardinality(Trashers') = Cardinality(Trashers) + 1
    BY <1>0, <2>1, FS_AddElement
  <2> QED BY <1>0, <1>4, <2>3, <2>4, MaxClockAssumption DEF ClockRoom, RoomToTrash
<1> QED BY <1>2, <1>3, <1>4, Ticks

\* The time of an open transaction is not in the future.
LEMMA StampsStay ==
  ASSUME HandlerInv, NEW r \in Request, StepOf(r), NEW q \in Request
  PROVE  Stamped(q)'
<1>1. /\ \A x \in Request \ {r} : req'[x] = req[x]
      /\ Arrived(r) /\ Stamped(q) /\ clock \in Nat
  BY StepMoved, Arrivals, MaxClockAssumption DEF Moved, HandlerInv, ReqTypeOK, TypeOK, Time
<1>2. clock' = clock \/ clock' = clock + 1
  BY Ticks
<1>3. CASE q = r
  <2>1. At(r, "trashTree")' => req'[r].stamp = clock' /\ clock' = clock + 1
    BY <1>1 DEF Arrived, ArrivedTree, BeginTrash
  <2> QED BY <1>1, <1>3, <2>1 DEF Stamped
<1>4. CASE q # r
  BY <1>1, <1>2, <1>4 DEF Stamped, At
<1> QED BY <1>3, <1>4

LEMMA TornTypes ==
  ASSUME HandlerInv, NEW r \in Request, StepOf(r)
  PROVE  torn' \subseteq OpName \X FileId
<1>0. /\ torn \subseteq OpName \X FileId /\ Holds(r) /\ req[r].rows \subseteq FileId
  BY Locals DEF HandlerInv, ReqTypeOK, LocalRow
<1>1. CASE UNCHANGED torn
  BY <1>0, <1>1
<1>2. CASE Fail(r)
  <2>1. req[r].op \in OpName
    BY <1>2, OpsAssumption DEF Fail
  <2>2. Halfway(r) \subseteq FileId
    BY <1>0 DEF Halfway, Taken, Holds, At, CompleteSteps, DeleteSteps
  <2>3. req[r].step \in {"presignThumb", "insertFile", "putThumb", "markReady"} => req[r].file \in FileId
    BY <1>0 DEF Holds, UploadSteps, OpeningSteps, ThumbSteps
  <2>4. CASE Die(r)
    BY <1>0, <2>1, <2>2, <2>4 DEF Die
  <2>5. CASE Catch(r)
    BY <1>0, <2>1, <2>3, <2>5 DEF Catch, At
  <2>6. CASE CatchAfter(r)
    BY <1>0, <2>1, <2>3, <2>6 DEF CatchAfter, InsertRow, StoreThumb, WriteReady, At
  <2> QED BY <1>2, <2>4, <2>5, <2>6 DEF Fail
<1> QED BY <1>1, <1>2 DEF StepOf, Skip

LEMMA HistoriesGrow ==
  ASSUME NEW r, StepOf(r)
  PROVE  /\ torn \subseteq torn' /\ skipped \subseteq skipped'
         /\ overtaken' = overtaken \cup Overtakes(r)
<1>1. torn \subseteq torn'
  BY DEF StepOf, Fail, Skip, Die, Catch, CatchAfter
<1>2. skipped \subseteq skipped'
  BY DEF StepOf, Fail, Skip
<1> QED BY <1>1, <1>2 DEF StepOf

LEMMA Columns ==
  ASSUME TypeOK
  PROVE  /\ DOMAIN folders \subseteq FolderId /\ DOMAIN files \subseteq FileId
         /\ folders = [d \in DOMAIN folders |-> folders[d]] /\ files = [f \in DOMAIN files |-> files[f]]
         /\ \A d \in DOMAIN folders : folders[d] \in FolderRow /\ folders[d].parent \in DOMAIN folders \cup {NoParent}
         /\ \A f \in DOMAIN files : files[f] \in FileRow /\ files[f].folder \in DOMAIN folders
         /\ clock \in Time
BY DEF TypeOK

\* The tables keep their types if each row they get has its type and a parent.
LEMMA TableTypes ==
  ASSUME DOMAIN folders' \subseteq FolderId, folders' = [d \in DOMAIN folders' |-> folders'[d]],
         \A d \in DOMAIN folders' :
            folders'[d] \in FolderRow /\ folders'[d].parent \in DOMAIN folders' \cup {NoParent},
         DOMAIN files' \subseteq FileId, files' = [f \in DOMAIN files' |-> files'[f]],
         \A f \in DOMAIN files' : files'[f] \in FileRow /\ files'[f].folder \in DOMAIN folders',
         objects' \subseteq FileId, thumbs' \subseteq FileId, uploads' \subseteq FileId,
         clock' \in Time
  PROVE  TypeOK'
BY DEF TypeOK

LEMMA TreeTypes ==
  ASSUME HandlerInv, NEW r \in Request, WritesTree(r)
  PROVE  TypeOK'
<1> DEFINE Typed(fo, fi) ==
      /\ DOMAIN fo \subseteq FolderId /\ fo = [d \in DOMAIN fo |-> fo[d]]
      /\ \A d \in DOMAIN fo : fo[d] \in FolderRow /\ fo[d].parent \in DOMAIN fo \cup {NoParent}
      /\ DOMAIN fi \subseteq FileId /\ fi = [f \in DOMAIN fi |-> fi[f]]
      /\ \A f \in DOMAIN fi : fi[f] \in FileRow /\ fi[f].folder \in DOMAIN fo
<1>0. TypeOK /\ req[r] \in LocalRow /\ Holds(r)
  BY Locals DEF HandlerInv, ReqTypeOK
<1>1. Typed(folders, files) /\ clock \in Time /\ NotDeleted \in Time
  BY <1>0, Columns, MaxClockAssumption DEF Time, NotDeleted
<1>2. UNCHANGED bucket
  BY DEF WritesTree, InsertFolder, UpdateFolder, TrashTree, RestoreTree, DeleteFolderRow, PurgeFolderRow
<1>3. /\ objects' \subseteq FileId /\ thumbs' \subseteq FileId /\ uploads' \subseteq FileId
  BY <1>0, <1>2 DEF bucket, TypeOK
<1>4. ASSUME Typed(folders', files'), clock' \in Time
      PROVE  TypeOK'
  BY <1>3, <1>4, TableTypes
<1>5. CASE InsertFolder(r)
  <2> DEFINE row == [parent |-> req[r].dest, name |-> req[r].name, deletedAt |-> NotDeleted]
             t == [x \in DOMAIN folders \cup {req[r].folder} |->
                     IF x = req[r].folder THEN row ELSE folders[x]]
  <2>1. /\ UNCHANGED <<files, clock>> /\ At(r, "insertFolder")
        /\ \/ folders' = folders
           \/ folders' = t /\ \A d \in DOMAIN t : t[d].parent \in DOMAIN t \cup {NoParent}
    BY <1>5 DEF InsertFolder, WriteFolders
  <2>2. row \in FolderRow /\ req[r].folder \in FolderId
    BY <1>0, <1>1, <2>1 DEF Holds, FolderRow, FolderId
  <2> HIDE DEF row
  <2>3. /\ DOMAIN t = DOMAIN folders \cup {req[r].folder} /\ t = [x \in DOMAIN t |-> t[x]]
        /\ \A x \in DOMAIN t : t[x] \in FolderRow
    BY <1>1, <2>2
  <2> HIDE DEF t
  <2>4. Typed(folders', files')
    <3>1. CASE folders' = folders
      BY <1>1, <2>1, <3>1
    <3>2. CASE folders' = t
      BY <1>1, <2>1, <2>2, <2>3, <3>2
    <3> QED BY <2>1, <3>1, <3>2
  <2> QED BY <1>1, <1>4, <2>1, <2>4
<1>6. CASE UpdateFolder(r)
  <2> DEFINE d == req[r].folder
             row == [folders[d] EXCEPT !.parent = req[r].dest, !.name = req[r].name]
             t == [x \in DOMAIN folders |-> IF x = d THEN row ELSE folders[x]]
  <2>1. /\ UNCHANGED <<files, clock>> /\ At(r, "updateFolder")
        /\ \/ folders' = folders
           \/ folders' = t /\ \A x \in DOMAIN t : t[x].parent \in DOMAIN t \cup {NoParent}
    BY <1>6 DEF UpdateFolder, WriteFolders
  <2>2. d \in DOMAIN folders => row \in FolderRow
    BY ZenonT(30), <1>0, <1>1, <2>1 DEF Holds, FolderRow, PatchSteps, At
  <2> HIDE DEF row
  <2>3. /\ DOMAIN t = DOMAIN folders /\ t = [x \in DOMAIN t |-> t[x]]
        /\ \A x \in DOMAIN t : t[x] \in FolderRow
    BY <1>1, <2>2
  <2> HIDE DEF t
  <2>4. Typed(folders', files')
    <3>1. CASE folders' = folders
      BY <1>1, <2>1, <3>1
    <3>2. CASE folders' = t
      BY <1>1, <2>1, <2>3, <3>2
    <3> QED BY <2>1, <3>1, <3>2
  <2> QED BY <1>1, <1>4, <2>1, <2>4
<1>7. CASE TrashTree(r)
  <2>1. clock' \in Time /\ req[r].stamp \in Time
    BY <1>0, <1>1, <1>7 DEF TrashTree, LocalRow
  <2>2. /\ DOMAIN folders' = DOMAIN folders /\ folders' = [x \in DOMAIN folders' |-> folders'[x]]
        /\ \A x \in DOMAIN folders : \/ folders'[x] = folders[x]
                                     \/ folders'[x] = [folders[x] EXCEPT !.deletedAt = req[r].stamp]
    BY <1>7 DEF TrashTree
  <2>3. \A x \in DOMAIN folders : folders'[x] \in FolderRow /\ folders'[x].parent = folders[x].parent
    BY <1>1, <2>1, <2>2 DEF FolderRow
  <2>4. /\ DOMAIN files' = DOMAIN files /\ files' = [f \in DOMAIN files' |-> files'[f]]
        /\ \A f \in DOMAIN files : \/ files'[f] = files[f]
                                   \/ files'[f] = [files[f] EXCEPT !.deletedAt = req[r].stamp]
    BY <1>7 DEF TrashTree
  <2>5. \A f \in DOMAIN files : files'[f] \in FileRow /\ files'[f].folder = files[f].folder
    BY <1>1, <2>1, <2>4 DEF FileRow
  <2>6. Typed(folders', files')
    BY <1>1, <2>2, <2>3, <2>4, <2>5
  <2> QED BY <1>4, <2>1, <2>6
<1>8. CASE RestoreTree(r)
  <2>1. clock' \in Time
    BY <1>1, <1>8 DEF RestoreTree
  <2>2. /\ DOMAIN folders' = DOMAIN folders /\ folders' = [x \in DOMAIN folders' |-> folders'[x]]
        /\ \A x \in DOMAIN folders : \/ folders'[x] = folders[x]
                                     \/ folders'[x] = [folders[x] EXCEPT !.deletedAt = NotDeleted]
    BY <1>1, <1>8 DEF RestoreTree
  <2>3. \A x \in DOMAIN folders : folders'[x] \in FolderRow /\ folders'[x].parent = folders[x].parent
    BY <1>1, <2>2 DEF FolderRow
  <2>4. /\ DOMAIN files' = DOMAIN files /\ files' = [f \in DOMAIN files' |-> files'[f]]
        /\ \A f \in DOMAIN files : \/ files'[f] = files[f]
                                   \/ files'[f] = [files[f] EXCEPT !.deletedAt = NotDeleted]
    BY <1>1, <1>8 DEF RestoreTree
  <2>5. \A f \in DOMAIN files : files'[f] \in FileRow /\ files'[f].folder = files[f].folder
    BY <1>1, <2>4 DEF FileRow
  <2>6. Typed(folders', files')
    BY <1>1, <2>2, <2>3, <2>4, <2>5
  <2> QED BY <1>4, <2>1, <2>6
<1>9. CASE DeleteFolderRow(r) \/ \E e \in FolderId : PurgeFolderRow(r, e)
  <2>1. PICK d : /\ folders' = WithoutRows(folders, SubtreeIds(d))
                 /\ files' = WithoutRows(files, FilesUnder(SubtreeIds(d))) /\ UNCHANGED clock
    BY <1>9 DEF DeleteFolderRow, PurgeFolderRow
  <2>2. \A x \in DOMAIN folders : folders[x].parent \in SubtreeIds(d) => x \in SubtreeIds(d)
    BY SubtreeClosed DEF SubtreeIds
  <2>3. /\ DOMAIN folders' = DOMAIN folders \ SubtreeIds(d) /\ \A x \in DOMAIN folders' : folders'[x] = folders[x]
        /\ folders' = [x \in DOMAIN folders' |-> folders'[x]]
        /\ DOMAIN files' = DOMAIN files \ FilesUnder(SubtreeIds(d)) /\ \A f \in DOMAIN files' : files'[f] = files[f]
        /\ files' = [f \in DOMAIN files' |-> files'[f]]
    BY <2>1 DEF WithoutRows
  <2>4. \A f \in DOMAIN files' : files[f].folder \notin SubtreeIds(d)
    BY <2>3 DEF FilesUnder
  <2>5. Typed(folders', files')
    BY <1>1, <2>2, <2>3, <2>4
  <2> QED BY <1>1, <1>4, <2>1, <2>5
<1> QED BY <1>5, <1>6, <1>7, <1>8, <1>9 DEF WritesTree

LEMMA RowTypes ==
  ASSUME HandlerInv, NEW r \in Request, WritesRow(r)
  PROVE  TypeOK'
<1> DEFINE Typed(fi) ==
      /\ DOMAIN fi \subseteq FileId /\ fi = [f \in DOMAIN fi |-> fi[f]]
      /\ \A f \in DOMAIN fi : fi[f] \in FileRow /\ fi[f].folder \in DOMAIN folders
<1>0. TypeOK /\ req[r] \in LocalRow /\ Holds(r)
  BY Locals DEF HandlerInv, ReqTypeOK
<1>1. Typed(files) /\ clock \in Time /\ NotDeleted \in Time
  BY <1>0, Columns, MaxClockAssumption DEF Time, NotDeleted
<1>2. UNCHANGED <<folders, bucket>>
  BY DEF WritesRow, InsertRow, MarkComplete, UpdateFile, TrashFileRow, RestoreFileRow,
         WriteReady, MarkFailed, DeleteRow, CleanupRow, PurgeRow
<1>3. /\ objects' \subseteq FileId /\ thumbs' \subseteq FileId /\ uploads' \subseteq FileId
      /\ DOMAIN folders' \subseteq FolderId /\ folders' = [d \in DOMAIN folders' |-> folders'[d]]
      /\ \A d \in DOMAIN folders' : folders'[d] \in FolderRow /\ folders'[d].parent \in DOMAIN folders' \cup {NoParent}
  BY <1>0, <1>2, Columns DEF bucket, TypeOK
<1>4. ASSUME Typed(files'), clock' \in Time
      PROVE  TypeOK'
  BY <1>2, <1>3, <1>4, TableTypes
<1>5. CASE InsertRow(r)
  <2> DEFINE row == [folder |-> req[r].dest, name |-> req[r].name, status |-> "pending", thumbnail |-> "none",
                     hasThumb |-> FALSE, deletedAt |-> NotDeleted]
             t == [x \in DOMAIN files \cup {req[r].file} |-> IF x = req[r].file THEN row ELSE files[x]]
  <2>1. /\ UNCHANGED clock /\ At(r, "insertFile")
        /\ \/ files' = files
           \/ files' = t /\ \A f \in DOMAIN t : t[f].folder \in DOMAIN folders
    BY <1>5 DEF InsertRow, WriteFiles
  <2>2. row \in FileRow /\ req[r].file \in FileId
    BY <1>0, <1>1, <2>1 DEF Holds, FileRow, At, UploadSteps, OpeningSteps
  <2> HIDE DEF row
  <2>3. /\ DOMAIN t = DOMAIN files \cup {req[r].file} /\ t = [x \in DOMAIN t |-> t[x]]
        /\ \A x \in DOMAIN t : t[x] \in FileRow
    BY <1>1, <2>2
  <2> HIDE DEF t
  <2>4. Typed(files')
    <3>1. CASE files' = files
      BY <1>1, <3>1
    <3>2. CASE files' = t
      BY <1>1, <2>1, <2>2, <2>3, <3>2
    <3> QED BY <2>1, <3>1, <3>2
  <2> QED BY <1>1, <1>4, <2>1, <2>4
<1>6. CASE UpdateFile(r) \/ RestoreFileRow(r)
  <2> DEFINE f == req[r].file
  <2>1. PICK row, t : /\ t = [x \in DOMAIN files |-> IF x = f THEN row ELSE files[x]]
                      /\ \/ files' = files
                         \/ files' = t /\ \A x \in DOMAIN t : t[x].folder \in DOMAIN folders
                      /\ UNCHANGED clock
                      /\ \/ /\ At(r, "updateFile")
                            /\ row = [files[f] EXCEPT !.folder = req[r].dest, !.name = req[r].name]
                         \/ row = [files[f] EXCEPT !.deletedAt = NotDeleted]
    <3>1. CASE UpdateFile(r)
      BY <3>1 DEF UpdateFile, WriteFiles
    <3>2. CASE RestoreFileRow(r)
      BY <3>2 DEF RestoreFileRow, WriteFiles
    <3> QED BY <1>6, <3>1, <3>2
  <2>2. CASE files' = files
    BY <1>1, <1>4, <2>1, <2>2
  <2>3. CASE files' # files
    <3>1. ASSUME NEW x \in DOMAIN files
          PROVE  t[x] \in FileRow
      <4>1. CASE x # f
        BY <1>1, <2>1, <4>1
      <4>2. CASE x = f /\ row = [files[f] EXCEPT !.deletedAt = NotDeleted]
        BY <1>1, <2>1, <4>2 DEF FileRow
      <4>3. CASE x = f /\ At(r, "updateFile") /\ row = [files[f] EXCEPT !.folder = req[r].dest, !.name = req[r].name]
        <5>1. req[r].name \in Name
          BY <1>0, <4>3 DEF Holds
        <5>2. row.folder = req[r].dest /\ files[f] \in FileRow
          BY <1>1, <4>3 DEF FileRow
        <5>3. req[r].dest \in FolderId
          BY <1>0, <2>1, <2>3, <4>3, <5>2, Columns
        <5> QED BY <2>1, <4>3, <5>1, <5>2, <5>3 DEF FileRow
      <4> QED BY <2>1, <4>1, <4>2, <4>3
    <3>2. Typed(files')
      BY <1>1, <2>1, <2>3, <3>1
    <3> QED BY <1>1, <1>4, <2>1, <3>2
  <2> QED BY <2>2, <2>3
<1>7. CASE MarkComplete(r) \/ TrashFileRow(r) \/ WriteReady(r) \/ MarkFailed(r)
  <2> DEFINE f == req[r].file
  <2>1. PICK row : /\ files' = IF f \in DOMAIN files THEN [files EXCEPT ![f] = row] ELSE files
                   /\ \/ row = [files[f] EXCEPT !.status = "complete"] /\ UNCHANGED clock
                      \/ /\ At(r, "trashFile") /\ row = [files[f] EXCEPT !.deletedAt = clock']
                         /\ clock' = clock + 1
                      \/ row = [files[f] EXCEPT !.thumbnail = "ready", !.hasThumb = TRUE] /\ UNCHANGED clock
                      \/ row = [files[f] EXCEPT !.thumbnail = "failed"] /\ UNCHANGED clock
    <3>1. CASE MarkComplete(r)
      BY <3>1 DEF MarkComplete, UpdateRow
    <3>2. CASE TrashFileRow(r)
      BY <3>2 DEF TrashFileRow, UpdateRow
    <3>3. CASE WriteReady(r)
      BY <3>3 DEF WriteReady, UpdateRow
    <3>4. CASE MarkFailed(r)
      BY <3>4 DEF MarkFailed, UpdateRow
    <3> QED BY <1>7, <3>1, <3>2, <3>3, <3>4
  <2>2. clock' \in Time
    BY <1>1, <2>1, RoomLeft DEF At
  <2>3. f \in DOMAIN files => row \in FileRow /\ row.folder = files[f].folder
    BY <1>1, <2>1, <2>2 DEF FileRow
  <2>4. Typed(files')
    BY <1>1, <2>1, <2>3
  <2> QED BY <1>4, <2>2, <2>4
<1>8. CASE DeleteRow(r) \/ CleanupRow(r) \/ PurgeRow(r)
  <2>1. files' = WithoutRows(files, {req[r].file}) /\ UNCHANGED clock
    BY <1>8 DEF DeleteRow, CleanupRow, PurgeRow
  <2>2. Typed(files')
    BY <1>1, <2>1 DEF WithoutRows
  <2> QED BY <1>1, <1>4, <2>1, <2>2
<1> QED BY <1>5, <1>6, <1>7, <1>8 DEF WritesRow

LEMMA TypesKept ==
  ASSUME HandlerInv, NEW r \in Request, StepOf(r)
  PROVE  TypeOK'
<1>0. TypeOK /\ Holds(r)
  BY DEF HandlerInv, ReqTypeOK
<1>1. CASE UNCHANGED vars
  BY <1>0, <1>1 DEF TypeOK, vars
<1>3. CASE BeginTrash(r)
  <2>1. clock' \in Time
    BY <1>3, BeginTrashMoved
  <2> QED BY <1>0, <1>3, <2>1 DEF TypeOK, BeginTrash, bucket
<1>2. CASE WritesBucket(r)
  <2>1. UNCHANGED tree
    BY <1>2 DEF WritesBucket, CreateUpload, AbortUpload, Stitch, AbortPending, DeleteObject, DeleteThumb,
                StoreThumb, PurgeThumb, DeleteStored, CleanupAbort, PurgeObject
  <2>2. BucketFates(r)
    BY <1>2, StoreFates DEF Fates
  <2>3. /\ \A f \in objects' \cup thumbs' \cup uploads' : f \in objects \cup thumbs \cup uploads \/ f \in FileId
    BY <1>0, <2>2 DEF BucketFates, Holds, At, CompleteSteps, UploadSteps, OpeningSteps, ThumbSteps
  <2> QED BY <1>0, <2>1, <2>3 DEF TypeOK, tree
<1> QED BY <1>1, <1>2, <1>3, Writes, TreeTypes, RowTypes

\* Types, parameters, fresh ids and the room of the clock, for any number of
\* requests whatever overlaps and whatever fails.
THEOREM HandlersKeepTypes == ReqSpec => []HandlerInv
<1>1. ReqInit => HandlerInv
  <2> SUFFICES ASSUME ReqInit PROVE HandlerInv
    OBVIOUS
  <2>1. TypeOK /\ clock = 0
    BY InitIInv DEF ReqInit, IInv, Init
  <2>2. \A r \in Request : req[r] = Idle
    BY DEF ReqInit
  <2>3. ReqTypeOK
    BY <2>1, IdleIsLocal DEF ReqInit, ReqTypeOK, LocalRow
  <2>4. Idle.step = "idle" /\ Idle.op = "none" /\ Idle.left = {} /\ Idle.rows = {}
    BY DEF Idle
  <2>5. \A r \in Request : Doing(r) /\ Holds(r) /\ Fresh(r) /\ Stamped(r)
    BY <2>2, <2>4 DEF At, Doing, Holds, Fresh, Stamped, PatchSteps, TrashSteps, DoomedSteps, RestoreSteps,
             UploadSteps, OpeningSteps, CompleteSteps, DeleteSteps, ThumbSteps, CleanupSteps, PurgeSteps
  <2>7. ClockRoom
    <3>1. Trashers = {}
      BY <2>2, <2>4 DEF Trashers
    <3>2. IsFiniteSet(Trashers) /\ Cardinality(Trashers) = 0
      BY <3>1, FS_EmptySet
    <3> QED BY <2>1, <3>2, MaxClockAssumption DEF ClockRoom
  <2> QED BY <2>3, <2>5, <2>7 DEF HandlerInv
<1>2. HandlerInv /\ [ReqNext]_reqVars => HandlerInv'
  <2> SUFFICES ASSUME HandlerInv, [ReqNext]_reqVars PROVE HandlerInv'
    OBVIOUS
  <2>1. CASE UNCHANGED reqVars
    BY <2>1 DEF reqVars, vars, HandlerInv, ReqTypeOK, TypeOK, Doing, Holds, Fresh, Stamped, Knows, KnowsFile, At,
                ClockRoom, Trashers
  <2>2. ASSUME NEW r \in Request, StepOf(r)
        PROVE  HandlerInv'
    <3>1. Moved(r) /\ TypeOK' /\ ClockRoom' /\ \A q \in Request : Fresh(q)' /\ Stamped(q)'
      BY <2>2, StepMoved, TypesKept, ClockKeepsRoom, StaysFresh, StampsStay
    <3>2. req' \in [Request -> LocalRow]
      BY <3>1 DEF Moved
    <3>3. failed' \in BOOLEAN /\ skipped' \subseteq FileId
      BY <2>2 DEF HandlerInv, ReqTypeOK, StepOf, Fail, Skip
    <3>6. torn' \subseteq OpName \X FileId /\ overtaken' \subseteq Reads
      BY <2>2, TornTypes, HistoriesGrow DEF HandlerInv, ReqTypeOK, Overtakes
    <3>4. ReqTypeOK'
      BY <3>1, <3>2, <3>3, <3>6 DEF ReqTypeOK, LocalRow
    <3>5. ASSUME NEW q \in Request
          PROVE  Doing(q)' /\ Holds(q)'
      <4>1. CASE q = r
        BY <3>1, <4>1 DEF Moved
      <4>2. CASE q # r
        <5>1. req'[q] = req[q] /\ Doing(q) /\ Holds(q)
          BY <3>1, <4>2 DEF Moved, HandlerInv
        <5> QED BY <5>1 DEF At, Doing, Holds
      <4> QED BY <4>1, <4>2
    <3> QED BY <3>1, <3>4, <3>5 DEF HandlerInv
  <2> QED BY <2>1, <2>2 DEF ReqNext, StepOf
<1> QED BY <1>1, <1>2, PTL DEF ReqSpec

-----------------------------------------------------------------------------
(* What a request sees of another's step.                                  *)

LEMMA Others ==
  ASSUME HandlerInv, NEW r \in Request, StepOf(r)
  PROVE  /\ \A q \in Request \ {r} : req'[q] = req[q]
         /\ Arrived(r) /\ Fates(r) /\ TypeOK /\ TypeOK'
         /\ \A q \in Request : Doing(q) /\ Holds(q) /\ Fresh(q) /\ Stamped(q)
BY StepMoved, Arrivals, EveryFate, TypesKept DEF Moved, HandlerInv, ReqTypeOK

\* What others have read stands, by definition of `overtaken'.
LEMMA OthersStand ==
  ASSUME NEW r \in Request, StepOf(r), NEW k \in Reads, k \notin overtaken',
         NEW q \in Request \ {r}, Stands(k, q)
  PROVE  Stands(k, q)'
BY HistoriesGrow DEF Overtakes

LEMMA Idles ==
  ASSUME NEW r, Starts(r)
  PROVE  req[r].step = "idle" /\ req[r].ids = {} /\ req[r].rows = {} /\ req[r].left = {}
         /\ UNCHANGED folders /\ UNCHANGED files /\ UNCHANGED clock
         /\ UNCHANGED objects /\ UNCHANGED thumbs /\ UNCHANGED uploads
BY DEF Starts, Idle, vars

LEMMA HandlerStutters ==
  ASSUME UNCHANGED reqVars
  PROVE  UNCHANGED folders /\ UNCHANGED files /\ UNCHANGED objects /\ UNCHANGED thumbs
         /\ UNCHANGED uploads /\ UNCHANGED clock /\ UNCHANGED req
         /\ UNCHANGED skipped /\ UNCHANGED torn /\ UNCHANGED overtaken
BY DEF reqVars, vars

LEMMA KindStands ==
  ASSUME NEW q
  PROVE  /\ Stands("chain", q) <=> ChainStands(q)
         /\ Stands("live", q) <=> LiveStands(q)
         /\ Stands("subtree", q) <=> SubtreeStands(q)
         /\ Stands("stamp", q) <=> StampStands(q)
         /\ Stands("doomed", q) <=> DoomedStands(q)
         /\ Stands("upload", q) <=> UploadStands(q)
         /\ Stands("thumbnail", q) <=> ThumbnailStands(q)
BY DEF Stands

LEMMA KindStandsThen ==
  ASSUME NEW q
  PROVE  /\ Stands("chain", q)' <=> ChainStands(q)'
         /\ Stands("live", q)' <=> LiveStands(q)'
         /\ Stands("subtree", q)' <=> SubtreeStands(q)'
         /\ Stands("stamp", q)' <=> StampStands(q)'
         /\ Stands("doomed", q)' <=> DoomedStands(q)'
         /\ Stands("upload", q)' <=> UploadStands(q)'
         /\ Stands("thumbnail", q)' <=> ThumbnailStands(q)'
BY DEF Stands

LEMMA StandsStutters ==
  ASSUME UNCHANGED reqVars, NEW q
  PROVE  /\ ChainStands(q) => ChainStands(q)'
         /\ LiveStands(q) => LiveStands(q)'
         /\ SubtreeStands(q) => SubtreeStands(q)'
         /\ StampStands(q) => StampStands(q)'
         /\ DoomedStands(q) => DoomedStands(q)'
         /\ UploadStands(q) => UploadStands(q)'
         /\ ThumbnailStands(q) => ThumbnailStands(q)'
<1>1. UNCHANGED folders /\ UNCHANGED files /\ UNCHANGED req /\ UNCHANGED torn
  BY HandlerStutters
<1>2. \A d : Subtree(d)' = Subtree(d) /\ SubtreeIds(d)' = SubtreeIds(d)
  BY <1>1 DEF Subtree, SubtreeIds, ClosedDown
<1>3. ChainStands(q) => ChainStands(q)'
  BY <1>1, <1>2 DEF ChainStands, At
<1>4. LiveStands(q) => LiveStands(q)'
  BY <1>1 DEF LiveStands, At, LiveFolder, TrashedFolder
<1>5. SubtreeStands(q) => SubtreeStands(q)'
  BY <1>1, <1>2 DEF SubtreeStands, At, FilesUnder
<1>6. StampStands(q) => StampStands(q)'
  BY <1>1 DEF StampStands, At, Swept, FilesUnder
<1>7. DoomedStands(q) => DoomedStands(q)'
  BY <1>1 DEF DoomedStands, InHand, At, TrashedFolder, TrashedFile, OldFiles, OldFolders
<1>8. UploadStands(q) => UploadStands(q)'
  BY <1>1 DEF UploadStands, LiveFile
<1>9. ThumbnailStands(q) => ThumbnailStands(q)'
  BY <1>1 DEF ThumbnailStands
<1> QED BY <1>3, <1>4, <1>5, <1>6, <1>7, <1>8, <1>9

-----------------------------------------------------------------------------
(* GET thumbnail-url.                                                      *)

ThumbnailInv == Overtaken({"thumbnail"}) \/ \A q \in Request : ThumbnailStands(q)

\* A request that has read that there is no thumbnail is the one that makes
\* it ready, or has failed after it did.
LEMMA OwnThumbnailStands ==
  ASSUME HandlerInv, NEW r \in Request, StepOf(r), ThumbnailStands(r)
  PROVE  ThumbnailStands(r)'
<1>0. Arrived(r) /\ Doing(r) /\ torn \subseteq torn'
  BY Others, HistoriesGrow
<1> SUFFICES ASSUME req'[r].step \in ThumbSteps \ {"presignThumb"}, NEW f, f = req'[r].file, f \in DOMAIN files'
             PROVE  files'[f].thumbnail # "ready" \/ <<"thumbnail", f>> \in torn'
  BY DEF ThumbnailStands
<1>1. CASE At(r, "readSource")'
  BY <1>0, <1>1 DEF Arrived, ArrivedThumb, Starts, vars
<1>2. CASE \E s \in ThumbSteps \ {"presignThumb"} : From(r, s) /\ UNCHANGED files
  BY <1>0, <1>2 DEF ThumbnailStands, From, Kept, At
<1>3. CASE From(r, "markReady") \/ Looks(r, "presignThumb")
  <2>1. req[r].op = "thumbnail" /\ req'[r].file = req[r].file
    BY <1>0, <1>3 DEF Doing, ThumbSteps, Looks, From, Kept, At
  <2>2. At(r, "markFailed")'
    BY <1>0, <1>3, Idles DEF Arrived, ArrivedThumb, ThumbSteps, Looks, From, At, Starts
  <2>3. CASE Looks(r, "markReady")
    BY <1>2, <2>3 DEF Looks, ThumbSteps, vars
  <2>4. CASE <<req[r].op, req[r].file>> \in torn'
    BY <2>1, <2>4
  <2> QED BY <1>0, <1>3, <2>2, <2>3, <2>4 DEF Arrived, ArrivedThumb, At, Looks, From
<1>4. CASE req'[r].step \in {"putThumb", "markReady", "markFailed"} /\ ~From(r, "markReady") /\ ~Looks(r, "presignThumb")
  BY <1>0, <1>2, <1>4 DEF Arrived, ArrivedThumb, At, ThumbSteps, Looks, StoreThumb, tree, vars
<1> QED BY <1>1, <1>3, <1>4 DEF ThumbSteps, At

LEMMA ThumbnailStep ==
  ASSUME HandlerInv, ThumbnailInv, NEW r \in Request, StepOf(r)
  PROVE  /\ ThumbnailInv'
         /\ \/ Overtaken({"thumbnail"})
            \/ \A f \in DOMAIN files \cap DOMAIN files' :
                 files[f].thumbnail = "ready" =>
                   files'[f].thumbnail = "ready" \/ TornBy({"thumbnail"}, f)
<1>0. FileFates(r) /\ Doing(r)
  BY Others DEF Fates
<1>1. ASSUME "thumbnail" \notin overtaken', NEW q \in Request
      PROVE  ThumbnailStands(q)'
  <2>1. \A x \in Request : ThumbnailStands(x)
    BY <1>1, HistoriesGrow DEF ThumbnailInv, Overtaken
  <2> QED BY <1>1, <2>1, OwnThumbnailStands, OthersStand, KindStands, KindStandsThen DEF Reads
<1>3. ASSUME ~Overtaken({"thumbnail"}), NEW f \in DOMAIN files \cap DOMAIN files', files[f].thumbnail = "ready"
      PROVE  files'[f].thumbnail = "ready" \/ TornBy({"thumbnail"}, f)
  <2>1. ThumbnailStands(r)
    BY <1>3 DEF ThumbnailInv
  <2> QED BY <1>0, <1>3, <2>1 DEF FileFates, ThumbnailStands, ThumbSteps, At, TornBy
<1>4. ThumbnailInv'
  BY <1>1 DEF ThumbnailInv, Overtaken
<1> QED BY <1>3, <1>4

\* A thumbnail that is ready stays so until two requests that both found
\* none make it, or making it fails after it was ready (lib/thumbnails.ts,
\* files.ts:262-291), for any number of requests and files.
THEOREM ThumbnailsAreMadeOnce == ReqSpec => ReadyKept
<1> DEFINE Final == \/ Overtaken({"thumbnail"})
                    \/ \A f \in DOMAIN files \cap DOMAIN files' :
                         files[f].thumbnail = "ready" =>
                           files'[f].thumbnail = "ready" \/ TornBy({"thumbnail"}, f)
<1>1. ReqInit => ThumbnailInv
  BY DEF ReqInit, ThumbnailInv, ThumbnailStands, ThumbSteps, Idle
<1>2. HandlerInv /\ ThumbnailInv /\ [ReqNext]_reqVars => ThumbnailInv' /\ [Final]_reqVars
  <2> SUFFICES ASSUME HandlerInv, ThumbnailInv, [ReqNext]_reqVars
               PROVE  ThumbnailInv' /\ [Final]_reqVars
    OBVIOUS
  <2>1. CASE UNCHANGED reqVars
    BY <2>1, HandlerStutters, StandsStutters DEF ThumbnailInv, Overtaken
  <2>2. CASE \E r \in Request : StepOf(r)
    BY <2>2, ThumbnailStep
  <2> QED BY <2>1, <2>2 DEF ReqNext, StepOf
<1>3. ReqSpec => []ThumbnailInv
  BY <1>1, <1>2, HandlersKeepTypes, PTL DEF ReqSpec
<1> QED BY <1>2, <1>3, HandlersKeepTypes, PTL DEF ReqSpec, ReadyKept

-----------------------------------------------------------------------------
(* One tree.                                                               *)

\* A move is checked against the tree it is made in; nothing that takes
\* folders away has the root among them.
MovesAreSafe(q) ==
  /\ At(q, "insertFolder") => req[q].dest # req[q].folder
  /\ req[q].step \in {"beginTrash", "trashTree", "purgeFolders"} => Root \notin req[q].ids

TreeInv == \/ Overtaken({"chain"})
           \/ OneTree /\ \A q \in Request : ChainStands(q) /\ MovesAreSafe(q)

LEMMA OwnChainStands ==
  ASSUME HandlerInv, OneTree, NEW r \in Request, StepOf(r)
  PROVE  ChainStands(r)'
<1>0. Arrived(r) /\ TypeOK /\ TypeOK'
  BY Others
<1> SUFFICES ASSUME At(r, "updateFolder")', NEW d, d = req'[r].folder, d \in DOMAIN folders'
             PROVE  req'[r].dest = folders'[d].parent \/ req'[r].dest \notin Subtree(d)'
  BY DEF ChainStands, At
<1>1. UNCHANGED folders
  BY <1>0 DEF Arrived, ArrivedFolder, Starts, Looks, vars
<1>2. Subtree(d)' = Subtree(d)
  BY <1>1, SameShape
<1>3. CASE req'[r].dest = folders[d].parent
  BY <1>1, <1>3
<1>4. CASE Looks(r, "checkCycle") /\ ~InChain(req[r].folder, req[r].dest)
  <2>1. req'[r].dest = req[r].dest /\ d = req[r].folder
    BY <1>4 DEF Looks, From, Kept
  <2>2. req[r].dest \notin Subtree(d)
    BY <1>1, <1>4, <2>1, SubtreeChain DEF InChain, Subtree
  <2> QED BY <1>2, <2>1, <2>2
<1> QED BY <1>0, <1>3, <1>4 DEF Arrived, ArrivedFolder

LEMMA MovesStaySafe ==
  ASSUME HandlerInv, OneTree, NEW r \in Request, MovesAreSafe(r), StepOf(r)
  PROVE  MovesAreSafe(r)'
<1>0. Arrived(r) /\ TypeOK /\ Holds(r)
  BY Others
<1>1. At(r, "insertFolder")' => req'[r].dest # req'[r].folder
  BY <1>0 DEF Arrived, ArrivedFolder, FreshFolder, LiveFolder
<1>2. CASE At(r, "beginTrash")'
  <2>1. req'[r].ids = SubtreeIds(req[r].folder) /\ req[r].step = "readSubtreeToTrash"
    BY <1>0, <1>2 DEF Arrived, ArrivedTree, Listed, At
  <2>2. req[r].folder # Root
    BY <1>0, <2>1 DEF Holds, TrashSteps
  <2> QED BY <1>0, <1>1, <1>2, <2>1, <2>2, RootOutside DEF SubtreeIds, MovesAreSafe, At
<1>3. CASE At(r, "trashTree")'
  BY <1>0, <1>1, <1>3 DEF Arrived, ArrivedTree, From, Kept, MovesAreSafe, At
<1>4. CASE At(r, "purgeFolders")'
  <2>1. \/ req'[r].ids = OldFolders(req[r].cutoff)
        \/ At(r, "purgeFolders") /\ req'[r].ids \subseteq req[r].ids
    BY <1>0, <1>4 DEF Arrived, ArrivedScript, At, PurgeFolderRow
  <2>2. Root \notin OldFolders(req[r].cutoff)
    BY DEF OneTree, LiveFolder, OldFolders, TrashedFolder
  <2> QED BY <1>1, <1>4, <2>1, <2>2 DEF MovesAreSafe, At
<1> QED BY <1>1, <1>2, <1>3, <1>4 DEF MovesAreSafe, At

LEMMA StaysOneTree ==
  ASSUME HandlerInv, OneTree, NEW r \in Request, ChainStands(r), MovesAreSafe(r), StepOf(r)
  PROVE  OneTree'
<1>0. /\ FolderFates(r) /\ TypeOK /\ TypeOK' /\ Holds(r) /\ Fresh(r)
      /\ Root \in DOMAIN folders /\ folders[Root].deletedAt = NotDeleted
  BY Others DEF Fates, OneTree, LiveFolder
<1>1. \A x \in DOMAIN folders : folders[x].parent # Root \/ x # Root
  BY RootAssumption DEF OneTree
<1>2. CASE UNCHANGED folders
  BY <1>0, <1>2, OneTreeSameShape
<1>3. CASE InsertFolder(r) /\ folders' # folders
  <2> DEFINE d == req[r].folder
             row == [parent |-> req[r].dest, name |-> req[r].name, deletedAt |-> NotDeleted]
             t == [x \in DOMAIN folders \cup {d} |-> IF x = d THEN row ELSE folders[x]]
  <2>1. At(r, "insertFolder") /\ folders' = t /\ t[d].parent \in DOMAIN t \cup {NoParent}
    BY <1>3 DEF InsertFolder, WriteFolders
  <2>2. d \notin DOMAIN folders /\ req[r].dest # d /\ req[r].dest # NoParent
    BY <1>0, <2>1, RootAssumption DEF Fresh, Holds, MovesAreSafe, FolderId
  <2>3. t[d].parent = req[r].dest /\ DOMAIN t = DOMAIN folders \cup {d}
        /\ \A x \in DOMAIN folders : t[x] = folders[x]
    BY <2>2
  <2> HIDE DEF t
  <2>4. req[r].dest \in DOMAIN folders
    BY <2>1, <2>2, <2>3
  <2> HIDE DEF d
  <2> QED BY <2>1, <2>2, <2>3, <2>4, LeafKeepsTree
<1>4. CASE UpdateFolder(r) /\ folders' # folders
  <2> DEFINE d == req[r].folder
             row == [folders[d] EXCEPT !.parent = req[r].dest, !.name = req[r].name]
             t == [x \in DOMAIN folders |-> IF x = d THEN row ELSE folders[x]]
  <2>1. /\ At(r, "updateFolder") /\ folders' = t
        /\ \A x \in DOMAIN t : t[x].parent \in DOMAIN t \cup {NoParent}
    BY <1>4 DEF UpdateFolder, WriteFolders
  <2>2. d \in DOMAIN folders
    BY <1>0, <1>4, <2>1, Columns
  <2>3. row.parent = req[r].dest /\ row.deletedAt = folders[d].deletedAt
    BY <1>0, <2>2, Columns DEF FolderRow
  <2> HIDE DEF row
  <2>4. /\ DOMAIN folders' = DOMAIN folders /\ folders'[d].parent = req[r].dest
        /\ \A x \in DOMAIN folders \ {d} : folders'[x] = folders[x]
        /\ folders'[Root].deletedAt = NotDeleted
    BY <1>0, <2>1, <2>2, <2>3
  <2>5. req[r].dest \in DOMAIN folders /\ d # Root
    BY <1>0, <2>1, <2>2, <2>3, RootAssumption DEF Holds, FolderId, PatchSteps, At
  <2>6. CASE req[r].dest = folders[d].parent
    BY <1>0, <2>4, <2>6, OneTreeSameShape
  <2>7. CASE req[r].dest \notin Subtree(d)
    <3> HIDE DEF d
    <3> QED BY <1>0, <2>2, <2>4, <2>5, <2>7, MoveKeepsTree
  <2> QED BY <2>1, <2>2, <2>6, <2>7 DEF ChainStands
<1>5. CASE TrashTree(r) \/ RestoreTree(r)
  <2>1. DOMAIN folders' = DOMAIN folders /\ ~At(r, "updateFolder")
    BY <1>5 DEF TrashTree, RestoreTree, At
  <2>2. \A x \in DOMAIN folders : folders'[x].parent = folders[x].parent
    BY <1>0, <2>1 DEF FolderFates
  <2>3. folders'[Root].deletedAt = NotDeleted
    BY <1>0, <2>1 DEF FolderFates, MovesAreSafe, At
  <2> QED BY <2>1, <2>2, <2>3, OneTreeSameShape
<1>6. CASE DeleteFolderRow(r) \/ \E e \in FolderId : PurgeFolderRow(r, e)
  <2>1. PICK d : folders' = WithoutRows(folders, SubtreeIds(d)) /\ d # Root
    <3>1. CASE DeleteFolderRow(r)
      BY <1>0, <3>1 DEF DeleteFolderRow, Holds, At, DoomedSteps
    <3>2. CASE \E e \in FolderId : PurgeFolderRow(r, e)
      BY <3>2 DEF PurgeFolderRow, MovesAreSafe, At
    <3> QED BY <1>6, <3>1, <3>2
  <2> DEFINE D == SubtreeIds(d)
  <2>2. D \subseteq DOMAIN folders /\ Root \notin D /\ ClosedDown(D)
    BY <1>0, <2>1, RootOutside, SubtreeClosed DEF SubtreeIds, Subtree, ClosedDown
  <2> HIDE DEF D
  <2> QED BY <2>1, <2>2, CascadeKeepsTree DEF D
<1>7. CASE ~WritesTree(r)
  <2>1. UNCHANGED folders
    BY <1>7, Writes DEF BeginTrash, WritesRow, InsertRow, MarkComplete, UpdateFile, TrashFileRow, RestoreFileRow,
          WriteReady, MarkFailed, DeleteRow, CleanupRow, PurgeRow, WritesBucket, CreateUpload, AbortUpload,
          Stitch, AbortPending, DeleteObject, DeleteThumb, StoreThumb, PurgeThumb, DeleteStored, CleanupAbort,
          PurgeObject, tree, vars
  <2> QED BY <1>2, <2>1
<1> QED BY <1>2, <1>3, <1>4, <1>5, <1>6, <1>7 DEF WritesTree

\* The folders stay one tree, whatever overlaps and whatever fails, until a
\* folder is moved under one whose own move has passed its cycle check and
\* is yet to be made (folders.ts:119-127: two statements), for any number
\* of requests and folders.
THEOREM StillOneTree == ReqSpec => []TreeKept
<1>1. ReqInit => TreeInv
  <2> SUFFICES ASSUME ReqInit PROVE TreeInv
    OBVIOUS
  <2>1. OneTree
    BY InitIInv DEF ReqInit, IInv
  <2>2. \A r \in Request : req[r].step = "idle"
    BY DEF ReqInit, Idle
  <2> QED BY <2>1, <2>2 DEF TreeInv, ChainStands, MovesAreSafe, At
<1>2. HandlerInv /\ TreeInv /\ [ReqNext]_reqVars => TreeInv'
  <2> SUFFICES ASSUME HandlerInv, TreeInv, [ReqNext]_reqVars
               PROVE  TreeInv'
    OBVIOUS
  <2>1. CASE UNCHANGED reqVars
    <3>1. OneTree => OneTree'
      BY <2>1, HandlerStutters DEF OneTree, LiveFolder, Subtree, ClosedDown
    <3>2. \A q \in Request : (ChainStands(q) => ChainStands(q)') /\ (MovesAreSafe(q) => MovesAreSafe(q)')
      BY <2>1, HandlerStutters, StandsStutters DEF MovesAreSafe, At
    <3> QED BY <2>1, <3>1, <3>2, HandlerStutters DEF TreeInv, Overtaken
  <2>2. ASSUME NEW r \in Request, StepOf(r)
        PROVE  TreeInv'
    <3>1. CASE "chain" \in overtaken'
      BY <3>1 DEF TreeInv, Overtaken
    <3>2. CASE "chain" \notin overtaken'
      <4>1. OneTree /\ \A q \in Request : ChainStands(q) /\ MovesAreSafe(q)
        BY <2>2, <3>2, HistoriesGrow DEF TreeInv, Overtaken
      <4>2. ChainStands(r)' /\ MovesAreSafe(r)' /\ OneTree'
        BY <2>2, <4>1, OwnChainStands, MovesStaySafe, StaysOneTree
      <4>3. ASSUME NEW q \in Request \ {r}
            PROVE  ChainStands(q)' /\ MovesAreSafe(q)'
        <5>1. ChainStands(q)'
          BY <2>2, <3>2, <4>1, OthersStand, KindStands, KindStandsThen DEF Reads
        <5>2. req'[q] = req[q]
          BY <2>2, Others
        <5> QED BY <4>1, <5>1, <5>2 DEF MovesAreSafe, At
      <4> QED BY <4>2, <4>3 DEF TreeInv
    <3> QED BY <3>1, <3>2
  <2> QED BY <2>1, <2>2 DEF ReqNext, StepOf
<1>3. TreeInv => TreeKept
  BY DEF TreeInv, TreeKept
<1> QED BY <1>1, <1>2, <1>3, HandlersKeepTypes, PTL DEF ReqSpec

-----------------------------------------------------------------------------
(* The Bin.                                                                *)

\* What the trashings and restores, and the writes into a folder, go by.
BinStands(q) == LiveStands(q) /\ SubtreeStands(q) /\ StampStands(q)

BinWhole == BinOrder /\ \A q \in Request : BinStands(q)
BinInv   == ClockAhead /\ (Overtaken(BinReads) \/ BinWhole)

\* Only a trashing takes a folder out of view.
LEMMA StaysLive ==
  ASSUME HandlerInv, NEW r \in Request, StepOf(r), ~At(r, "trashTree"),
         NEW d \in DOMAIN folders', d \in DOMAIN folders => LiveFolder(d)
  PROVE  LiveFolder(d)'
<1>1. FolderFates(r)
  BY EveryFate DEF Fates
<1>2. CASE d \in DOMAIN folders
  BY <1>1, <1>2 DEF FolderFates, LiveFolder
<1>3. CASE d \notin DOMAIN folders
  BY <1>1, <1>3 DEF FolderFates, LiveFolder
<1> QED BY <1>2, <1>3

\* A row out of the Bin is in a folder out of the Bin.
LEMMA LiveAbove ==
  ASSUME TypeOK, BinOrder
  PROVE  /\ \A d : LiveFolder(d) /\ folders[d].parent \in DOMAIN folders => LiveFolder(folders[d].parent)
         /\ \A f : LiveFile(f) => LiveFolder(files[f].folder)
BY DEF BinOrder, LiveFolder, LiveFile, TrashedFolder, TrashedFile, TypeOK

LEMMA SubtreeIdsClosed ==
  ASSUME NEW d
  PROVE  ClosedDown(SubtreeIds(d))
BY SubtreeClosed DEF SubtreeIds, ClosedDown

LEMMA OwnLiveStands ==
  ASSUME HandlerInv, BinOrder, NEW r \in Request, LiveStands(r), StepOf(r)
  PROVE  LiveStands(r)'
<1>0. Arrived(r) /\ TypeOK /\ LiveStands(r) /\ Holds(r) /\ BinOrder
  BY Others
<1> USE DEF At
<1>1. ASSUME req'[r].step \in LiveDests
      PROVE  /\ UNCHANGED folders
             /\ req'[r].dest \in DOMAIN folders => LiveFolder(req'[r].dest)
  <2>1. CASE req'[r].step \in {"insertFolder", "checkCycle", "readSubtreeToRestore"}
    BY <1>0, <2>1 DEF Arrived, ArrivedFolder, Looks, From, Kept, Starts, vars
  <2>2. CASE req'[r].step = "updateFolder"
    BY <1>0, <2>2, LiveAbove DEF Arrived, ArrivedFolder, Looks, From, Kept, Starts, vars, LiveStands, LiveDests
  <2>3. CASE req'[r].step = "restoreTree"
    BY <1>0, <2>3 DEF Arrived, ArrivedTree, Listed, vars, LiveStands, LiveDests
  <2>4. CASE req'[r].step \in {"createUpload", "insertFile"}
    BY <1>0, <2>4 DEF Arrived, ArrivedUpload, From, Kept, Starts, CreateUpload, tree, vars, LiveStands, LiveDests
  <2>5. CASE req'[r].step \in {"updateFile", "restoreFileRow"}
    BY <1>0, <2>5, LiveAbove DEF Arrived, ArrivedFile, Looks, From, Kept, Starts, vars
  <2> QED BY <1>1, <2>1, <2>2, <2>3, <2>4, <2>5 DEF LiveDests
<1>2. ASSUME req'[r].step \in PatchSteps
      PROVE  /\ UNCHANGED folders
             /\ req'[r].folder \in DOMAIN folders => LiveFolder(req'[r].folder)
  BY <1>0, <1>2 DEF Arrived, ArrivedFolder, Looks, From, Kept, Starts, vars, LiveStands, PatchSteps
<1>4. ASSUME req'[r].step \in RestoreSteps, TrashedFolder(req'[r].folder)
      PROVE  UNCHANGED folders /\ folders[req'[r].folder].parent = req'[r].dest
  <2>1. CASE req'[r].step = "readParent"
    BY <1>0, <2>1 DEF Arrived, ArrivedFolder, Starts, vars
  <2>2. CASE req'[r].step = "readSubtreeToRestore"
    BY <1>0, <1>4, <2>2 DEF Arrived, ArrivedFolder, Looks, From, Kept, vars, LiveStands, RestoreSteps
  <2>3. CASE req'[r].step = "restoreTree"
    BY <1>0, <1>4, <2>3 DEF Arrived, ArrivedTree, Listed, vars, LiveStands, RestoreSteps
  <2> QED BY <1>4, <2>1, <2>2, <2>3 DEF RestoreSteps
<1>5. ASSUME req'[r].step \in {"trashFile", "readHome", "restoreFileRow"}, req'[r].file \in DOMAIN files
      PROVE  /\ UNCHANGED <<folders, files>>
             /\ \/ LiveFolder(files[req'[r].file].folder)
                \/ req'[r].step # "trashFile" /\ files[req'[r].file].folder = req'[r].dest
  <2>1. CASE req'[r].step = "trashFile"
    BY <1>0, <2>1, LiveAbove DEF Arrived, ArrivedFile, Starts, vars
  <2>2. CASE req'[r].step = "readHome"
    BY <1>0, <2>2 DEF Arrived, ArrivedFile, Starts, vars
  <2>3. CASE req'[r].step = "restoreFileRow"
    BY <1>0, <1>5, <2>3 DEF Arrived, ArrivedFile, Looks, From, Kept, vars, LiveStands
  <2> QED BY <1>5, <2>1, <2>2, <2>3
<1>6. req'[r].step \in {"trashFile", "readHome", "restoreFileRow"} => UNCHANGED <<folders, files>>
  BY <1>0 DEF Arrived, ArrivedFile, Looks, From, Kept, Starts, vars
<1>7. req'[r].step \in RestoreSteps => UNCHANGED folders
  BY <1>0 DEF Arrived, ArrivedFolder, ArrivedTree, Listed, Looks, Starts, vars, RestoreSteps
<1>8. (req[r].step \in LiveDests /\ req[r].dest \in DOMAIN folders => LiveFolder(req[r].dest))'
  BY <1>1 DEF LiveFolder
<1>9. (req[r].step \in PatchSteps /\ req[r].folder \in DOMAIN folders => LiveFolder(req[r].folder))'
  BY <1>2 DEF LiveFolder
<1>11. req'[r].step \in RestoreSteps /\ TrashedFolder(req[r].folder)' =>
         (folders[req[r].folder].parent = req[r].dest)'
  BY <1>4, <1>7 DEF TrashedFolder
<1>13. (req[r].step = "trashFile" /\ req[r].file \in DOMAIN files)' => LiveFolder(files[req[r].file].folder)'
  BY <1>5, <1>6 DEF LiveFolder
<1>14. (req[r].step \in {"readHome", "restoreFileRow"} /\ req[r].file \in DOMAIN files)' =>
         (files[req[r].file].folder = req[r].dest \/ LiveFolder(files[req[r].file].folder))'
  BY <1>5, <1>6 DEF LiveFolder
<1> QED BY <1>8, <1>9, <1>11, <1>13, <1>14 DEF LiveStands

LEMMA OwnSubtreeStands ==
  ASSUME HandlerInv, NEW r \in Request, SubtreeStands(r), StepOf(r)
  PROVE  SubtreeStands(r)'
<1>0. Arrived(r) /\ TypeOK
  BY Others
<1>1. CASE req'[r].step \in {"beginTrash", "readDoomed", "restoreTree"}
  <2>1. UNCHANGED folders /\ req'[r].ids = SubtreeIds(req[r].folder) /\ req'[r].folder = req[r].folder
    BY <1>0, <1>1 DEF Arrived, ArrivedTree, Listed, At, vars
  <2>2. SubtreeIds(req[r].folder)' = SubtreeIds(req[r].folder)
    BY <2>1 DEF SubtreeIds, Subtree, ClosedDown
  <2>3. req'[r].ids \cap DOMAIN folders' = SubtreeIds(req[r].folder)'
    BY <1>0, <2>1, <2>2, SubtreeIdsAreIds
  <2> QED BY <1>1, <2>3 DEF SubtreeStands, At
<1>2. CASE At(r, "trashTree")'
  <2>1. UNCHANGED folders /\ At(r, "beginTrash") /\ req'[r].ids = req[r].ids /\ req'[r].folder = req[r].folder
    BY <1>0, <1>2 DEF Arrived, ArrivedTree, From, Kept, BeginTrash
  <2>2. SubtreeIds(req[r].folder)' = SubtreeIds(req[r].folder)
    BY <2>1 DEF SubtreeIds, Subtree, ClosedDown
  <2>3. req[r].ids \cap DOMAIN folders = SubtreeIds(req[r].folder)
    BY <2>1 DEF SubtreeStands, At
  <2> QED BY <1>2, <2>1, <2>2, <2>3 DEF SubtreeStands, At
<1>3. CASE At(r, "deleteStored")'
  <2>1. UNCHANGED folders /\ UNCHANGED files /\ req'[r].folder = req[r].folder
    BY <1>0, <1>3 DEF Arrived, ArrivedTree, DeleteStored, tree, vars
  <2>2. SubtreeIds(req[r].folder)' = SubtreeIds(req[r].folder)
    BY <2>1 DEF SubtreeIds, Subtree, ClosedDown
  <2>3. req'[r].rows \cap DOMAIN files = FilesUnder(SubtreeIds(req[r].folder))
    <3>1. CASE At(r, "readDoomed") /\ req'[r].rows = FilesUnder(req[r].ids)
      <4>1. req[r].ids \cap DOMAIN folders = SubtreeIds(req[r].folder)
        BY <3>1 DEF SubtreeStands, At
      <4>2. \A f \in DOMAIN files : files[f].folder \in DOMAIN folders
        BY <1>0, Columns
      <4> QED BY <3>1, <4>1, <4>2 DEF FilesUnder
    <3>2. CASE At(r, "deleteStored") /\ req'[r].rows = req[r].rows
      BY <3>2 DEF SubtreeStands, At
    <3> QED BY <1>0, <1>3, <3>1, <3>2 DEF Arrived, ArrivedTree, DeleteStored
  <2>4. (req[r].rows \cap DOMAIN files = FilesUnder(SubtreeIds(req[r].folder)))'
    BY <2>1, <2>2, <2>3 DEF FilesUnder
  <2> QED BY <1>3, <2>4 DEF SubtreeStands, At
<1> QED BY <1>1, <1>2, <1>3 DEF SubtreeStands, At

\* now() is drawn after every trashing that has committed.
LEMMA OwnStampStands ==
  ASSUME HandlerInv, ClockAhead, NEW r \in Request, StepOf(r)
  PROVE  StampStands(r)'
<1> SUFFICES ASSUME At(r, "trashTree")'
             PROVE  /\ \A d \in req'[r].ids \cap DOMAIN folders' : folders'[d].deletedAt <= req'[r].stamp
                    /\ \A f \in Swept(r)' : files'[f].deletedAt <= req'[r].stamp
  BY DEF StampStands
<1>0. Arrived(r) /\ TypeOK
  BY Others
<1>1. UNCHANGED folders /\ UNCHANGED files /\ clock' = clock + 1 /\ req'[r].stamp = clock'
  BY <1>0 DEF Arrived, ArrivedTree, BeginTrash
<1>2. /\ clock \in Nat
      /\ \A d \in DOMAIN folders : folders[d].deletedAt \in Nat
      /\ \A f \in DOMAIN files : files[f].deletedAt \in Nat
  BY <1>0, MaxClockAssumption DEF TypeOK, Time, FolderRow, FileRow
<1>3. Swept(r)' \subseteq DOMAIN files
  BY <1>1 DEF Swept, FilesUnder
<1> QED BY <1>1, <1>2, <1>3 DEF ClockAhead

LEMMA ClockStaysAhead ==
  ASSUME HandlerInv, ClockAhead, NEW r \in Request, StepOf(r)
  PROVE  ClockAhead'
<1>0. FolderFates(r) /\ FileFates(r) /\ TypeOK /\ TypeOK' /\ Stamped(r)
  BY Others DEF Fates
<1>1. /\ clock \in Nat /\ clock' \in Nat
      /\ \A d \in DOMAIN folders : folders[d].deletedAt \in Nat
      /\ \A f \in DOMAIN files : files[f].deletedAt \in Nat
  BY <1>0, MaxClockAssumption DEF TypeOK, Time, FolderRow, FileRow
<1>2. clock <= clock'
  BY <1>1, Ticks
<1>3. ASSUME NEW d \in DOMAIN folders' PROVE folders'[d].deletedAt <= clock'
  <2>1. CASE d \in DOMAIN folders /\ folders'[d].deletedAt = folders[d].deletedAt
    BY <1>1, <1>2, <2>1 DEF ClockAhead
  <2>2. CASE folders'[d].deletedAt = NotDeleted
    BY <1>1, <2>2 DEF NotDeleted
  <2>3. CASE At(r, "trashTree") /\ folders'[d].deletedAt = req[r].stamp
    BY <1>0, <1>1, <1>2, <2>3 DEF Stamped
  <2> QED BY <1>0, <2>1, <2>2, <2>3 DEF FolderFates
<1>4. ASSUME NEW f \in DOMAIN files' PROVE files'[f].deletedAt <= clock'
  <2>1. CASE f \in DOMAIN files /\ files'[f].deletedAt = files[f].deletedAt
    BY <1>1, <1>2, <2>1 DEF ClockAhead
  <2>2. CASE files'[f].deletedAt = NotDeleted \/ files'[f].deletedAt = clock'
    BY <1>1, <2>2 DEF NotDeleted
  <2>3. CASE At(r, "trashTree") /\ files'[f].deletedAt = req[r].stamp
    BY <1>0, <1>1, <1>2, <2>3 DEF Stamped
  <2> QED BY <1>0, <2>1, <2>2, <2>3 DEF FileFates
<1> QED BY <1>3, <1>4 DEF ClockAhead

\* The Bin stays closed under contents: the two cascades, and all else.
LEMMA TrashTreeOrder ==
  ASSUME HandlerInv, BinWhole, NEW r \in Request, TrashTree(r)
  PROVE  BinOrder'
<1> DEFINE D == req[r].ids
           t == req[r].stamp
<1>0. /\ TypeOK /\ BinOrder /\ SubtreeStands(r) /\ StampStands(r) /\ Stamped(r)
      /\ At(r, "trashTree") /\ D \subseteq FolderId
  BY Locals DEF HandlerInv, ReqTypeOK, BinWhole, BinStands, TrashTree, LocalRow
<1>1. /\ folders' = [x \in DOMAIN folders |->
                       IF x \in D /\ LiveFolder(x)
                       THEN [folders[x] EXCEPT !.deletedAt = t] ELSE folders[x]]
      /\ files' = [f \in DOMAIN files |->
                     IF f \in FilesUnder(D) /\ LiveFile(f)
                     THEN [files[f] EXCEPT !.deletedAt = t] ELSE files[f]]
  BY DEF TrashTree, Swept
<1>2. t \in Nat \ {NotDeleted}
  BY <1>0, MaxClockAssumption DEF Stamped, NotDeleted, TypeOK, Time
<1>3. ClosedDown(D)
  <2>1. D \cap DOMAIN folders = SubtreeIds(req[r].folder)
    BY <1>0 DEF SubtreeStands, At
  <2>2. \A x \in DOMAIN folders : folders[x].parent \in D => folders[x].parent \in SubtreeIds(req[r].folder)
    BY <1>0, <2>1, Columns, RootAssumption DEF FolderId
  <2> QED BY <2>1, <2>2, SubtreeIdsClosed DEF ClosedDown
<1>4. /\ \A x \in D \cap DOMAIN folders : folders[x].deletedAt <= t
      /\ \A f \in FilesUnder(D) : files[f].deletedAt <= t
  BY <1>0 DEF StampStands, Swept
<1> HIDE DEF D, t
<1>5. /\ DOMAIN folders' = DOMAIN folders
      /\ \A x \in DOMAIN folders : folders'[x].parent = folders[x].parent
      /\ \A x \in DOMAIN folders : folders'[x].deletedAt =
            IF x \in D /\ LiveFolder(x) THEN t ELSE folders[x].deletedAt
  BY <1>0, <1>1 DEF TypeOK, FolderRow
<1>6. /\ DOMAIN files' = DOMAIN files
      /\ \A f \in DOMAIN files : files'[f].folder = files[f].folder
      /\ \A f \in DOMAIN files : files'[f].deletedAt =
            IF f \in FilesUnder(D) /\ LiveFile(f) THEN t ELSE files[f].deletedAt
  BY <1>0, <1>1 DEF TypeOK, FileRow
<1> QED BY <1>0, <1>2, <1>3, <1>4, <1>5, <1>6, TrashKeepsOrder

LEMMA RestoreTreeOrder ==
  ASSUME HandlerInv, BinWhole, NEW r \in Request, RestoreTree(r)
  PROVE  BinOrder'
<1>0. TypeOK /\ BinOrder /\ At(r, "restoreTree") /\ LiveStands(r) /\ SubtreeStands(r)
  BY DEF HandlerInv, ReqTypeOK, BinWhole, BinStands, RestoreTree
<1> DEFINE d == req[r].folder
           D == req[r].ids
           fo == [x \in DOMAIN folders |->
                    IF x \in D /\ InBatch(r, folders[x])
                    THEN [folders[x] EXCEPT !.deletedAt = NotDeleted] ELSE folders[x]]
           fi == [f \in DOMAIN files |->
                    IF f \in BatchFiles(r)
                    THEN [files[f] EXCEPT !.deletedAt = NotDeleted] ELSE files[f]]
<1>1. CASE UNCHANGED <<folders, files>>
  BY <1>0, <1>1 DEF BinOrder, TrashedFolder, TrashedFile
<1>2. CASE folders' = fo /\ files' = fi /\ ~TrashedFolder(d)
  <2>1. folders' = [x \in DOMAIN folders |-> folders[x]] /\ files' = [f \in DOMAIN files |-> files[f]]
    BY <1>2 DEF InBatch, BatchFiles
  <2>2. UNCHANGED <<folders, files>>
    BY <1>0, <2>1, Columns
  <2> QED BY <1>1, <2>2
<1>3. CASE folders' = fo /\ files' = fi /\ TrashedFolder(d)
  <2>1. /\ folders[d].parent = req[r].dest /\ D \cap DOMAIN folders = Subtree(d)
        /\ ~TrashedFolder(folders[d].parent)
    <3>1. folders[d].parent = req[r].dest /\ D \cap DOMAIN folders = Subtree(d)
      BY <1>0, <1>3 DEF LiveStands, SubtreeStands, SubtreeIds, TrashedFolder, RestoreSteps, At
    <3>2. req[r].dest \in DOMAIN folders => LiveFolder(req[r].dest)
      BY <1>0 DEF LiveStands, LiveDests, At
    <3> QED BY <3>1, <3>2 DEF LiveFolder, TrashedFolder
  <2>2. DOMAIN folders' = DOMAIN folders /\ DOMAIN files' = DOMAIN files
    BY <1>3
  <2>3. ASSUME NEW x \in DOMAIN folders
        PROVE  /\ folders'[x].parent = folders[x].parent
               /\ folders'[x].deletedAt = IF x \in D /\ folders[x].deletedAt = folders[d].deletedAt
                                          THEN NotDeleted ELSE folders[x].deletedAt
    BY <1>0, <1>3 DEF TypeOK, FolderRow, InBatch, SameBatch
  <2>4. ASSUME NEW f \in DOMAIN files
        PROVE  /\ files'[f].folder = files[f].folder
               /\ files'[f].deletedAt = IF f \in FilesUnder(D) /\ files[f].deletedAt = folders[d].deletedAt
                                        THEN NotDeleted ELSE files[f].deletedAt
    BY <1>0, <1>3 DEF TypeOK, FileRow, BatchFiles, Swept, InBatch, SameBatch
  <2> HIDE DEF d, D, fo, fi
  <2>5. TrashedFolder(d)
    BY <1>3
  <2> QED BY <1>0, <2>1, <2>2, <2>3, <2>4, <2>5, RestoreKeepsOrder
<1> QED BY <1>1, <1>2, <1>3 DEF RestoreTree

LEMMA OtherStepsOrder ==
  ASSUME HandlerInv, BinWhole, NEW r \in Request, StepOf(r), ~At(r, "trashTree"), ~At(r, "restoreTree")
  PROVE  BinOrder'
<1>0. /\ FolderFates(r) /\ FileFates(r) /\ TypeOK /\ TypeOK' /\ LiveStands(r) /\ BinOrder
      /\ \A d \in DOMAIN folders' : (d \in DOMAIN folders => LiveFolder(d)) => LiveFolder(d)'
  BY Others, StaysLive DEF Fates, BinWhole, BinStands
<1>1. ASSUME NEW x \in DOMAIN folders', NEW p, p = folders'[x].parent, TrashedFolder(p)'
      PROVE  TrashedFolder(x)' /\ folders'[x].deletedAt <= folders'[p].deletedAt
  <2>1. p \in DOMAIN folders' /\ folders'[p].deletedAt # NotDeleted /\ ~LiveFolder(p)'
    BY <1>1 DEF TrashedFolder, LiveFolder
  <2>2. p \in DOMAIN folders /\ ~LiveFolder(p)
    BY <1>0, <2>1
  <2>3. ~(req[r].step \in LiveDests /\ p = req[r].dest)
    BY <1>0, <2>2 DEF LiveStands
  <2>4. x \in DOMAIN folders /\ folders[x].parent = p
    BY <1>0, <1>1, <2>3 DEF FolderFates, LiveDests, At
  <2>5. folders'[x].deletedAt = folders[x].deletedAt /\ folders'[p].deletedAt = folders[p].deletedAt
    BY <1>0, <1>1, <2>1, <2>2, <2>4 DEF FolderFates
  <2>6. TrashedFolder(x) /\ folders[x].deletedAt <= folders[p].deletedAt
    BY <1>0, <2>1, <2>2, <2>4, <2>5 DEF BinOrder, TrashedFolder
  <2> QED BY <1>1, <2>5, <2>6 DEF TrashedFolder
<1>2. ASSUME NEW f \in DOMAIN files', NEW p, p = files'[f].folder, TrashedFolder(p)'
      PROVE  TrashedFile(f)' /\ files'[f].deletedAt <= folders'[p].deletedAt
  <2>1. p \in DOMAIN folders' /\ folders'[p].deletedAt # NotDeleted /\ ~LiveFolder(p)'
    BY <1>2 DEF TrashedFolder, LiveFolder
  <2>2. p \in DOMAIN folders /\ ~LiveFolder(p)
    BY <1>0, <2>1
  <2>3. ~(req[r].step \in LiveDests /\ p = req[r].dest)
    BY <1>0, <2>2 DEF LiveStands
  <2>4. f \in DOMAIN files /\ files[f].folder = p
    BY <1>0, <1>2, <2>3 DEF FileFates, LiveDests, At
  <2>5. ~(At(r, "trashFile") /\ f = req[r].file) /\ ~(At(r, "restoreFileRow") /\ f = req[r].file)
    BY <1>0, <2>2, <2>3, <2>4 DEF LiveStands, LiveDests, At
  <2>6. files'[f].deletedAt = files[f].deletedAt /\ folders'[p].deletedAt = folders[p].deletedAt
    BY <1>0, <1>2, <2>1, <2>2, <2>4, <2>5 DEF FolderFates, FileFates
  <2>7. TrashedFile(f) /\ files[f].deletedAt <= folders[p].deletedAt
    BY <1>0, <2>1, <2>2, <2>4, <2>6 DEF BinOrder, TrashedFolder
  <2> QED BY <1>2, <2>6, <2>7 DEF TrashedFile
<1> QED BY <1>1, <1>2 DEF BinOrder

LEMMA BinOrderKept ==
  ASSUME HandlerInv, BinWhole, NEW r \in Request, StepOf(r)
  PROVE  BinOrder'
<1>1. CASE TrashTree(r)
  BY <1>1, TrashTreeOrder
<1>2. CASE RestoreTree(r)
  BY <1>2, RestoreTreeOrder
<1>3. CASE ~TrashTree(r) /\ ~RestoreTree(r) /\ req[r].step \in {"trashTree", "restoreTree"}
  <2>1. UNCHANGED vars
    BY <1>3, Writes DEF BeginTrash, WritesTree, WritesRow, WritesBucket, At, InsertFolder, UpdateFolder,
          DeleteFolderRow, PurgeFolderRow, InsertRow, MarkComplete, UpdateFile, TrashFileRow, RestoreFileRow,
          WriteReady, MarkFailed, DeleteRow, CleanupRow, PurgeRow, CreateUpload, AbortUpload,
          Stitch, AbortPending, DeleteObject, DeleteThumb, StoreThumb, PurgeThumb, DeleteStored, CleanupAbort,
          PurgeObject, TakeUpCleanup, TakeUpPurge
  <2> QED BY <2>1 DEF BinWhole, BinOrder, TrashedFolder, TrashedFile, vars
<1>4. CASE req[r].step \notin {"trashTree", "restoreTree"}
  BY <1>4, OtherStepsOrder DEF At
<1> QED BY <1>1, <1>2, <1>3, <1>4

LEMMA BinStep ==
  ASSUME HandlerInv, BinInv, NEW r \in Request, StepOf(r)
  PROVE  BinInv'
<1>1. ClockAhead /\ ClockAhead'
  BY ClockStaysAhead DEF BinInv
<1>2. CASE BinReads \cap overtaken' # {}
  BY <1>1, <1>2 DEF BinInv, Overtaken
<1>3. CASE BinReads \cap overtaken' = {}
  <2>1. BinWhole /\ "live" \notin overtaken' /\ "subtree" \notin overtaken' /\ "stamp" \notin overtaken'
    BY <1>3, HistoriesGrow DEF BinInv, Overtaken, BinReads
  <2>2. BinStands(r)'
    BY <1>1, <2>1, OwnLiveStands, OwnSubtreeStands, OwnStampStands DEF BinWhole, BinStands
  <2>3. ASSUME NEW q \in Request \ {r}
        PROVE  BinStands(q)'
    BY <2>1, OthersStand, KindStands, KindStandsThen DEF BinWhole, BinStands, Reads
  <2>4. BinWhole'
    BY <2>1, <2>2, <2>3, BinOrderKept DEF BinWhole
  <2> QED BY <1>1, <2>4 DEF BinInv
<1> QED BY <1>2, <1>3

LEMMA BinStutters ==
  ASSUME UNCHANGED reqVars
  PROVE  /\ Overtaken(BinReads)' <=> Overtaken(BinReads)
         /\ BinWhole => BinWhole'
         /\ BinInv => BinInv'
<1>1. (BinOrder => BinOrder') /\ (ClockAhead => ClockAhead')
  BY HandlerStutters DEF BinOrder, ClockAhead, TrashedFolder, TrashedFile
<1>2. \A q : BinStands(q) => BinStands(q)'
  BY StandsStutters DEF BinStands
<1>3. Overtaken(BinReads)' <=> Overtaken(BinReads)
  BY HandlerStutters DEF Overtaken
<1>4. BinWhole => BinWhole'
  BY <1>1, <1>2 DEF BinWhole
<1> QED BY <1>1, <1>3, <1>4 DEF BinInv

LEMMA BinHolds == ReqSpec => []BinInv
<1>1. ReqInit => BinInv
  <2> SUFFICES ASSUME ReqInit PROVE BinInv
    OBVIOUS
  <2>1. BinOrder /\ ClockAhead
    BY InitIInv DEF ReqInit, IInv
  <2>2. \A r \in Request : req[r].step = "idle"
    BY DEF ReqInit, Idle
  <2>3. \A r \in Request : BinStands(r)
    BY <2>2 DEF BinStands, LiveStands, SubtreeStands, StampStands, LiveDests, PatchSteps, RestoreSteps, At
  <2> QED BY <2>1, <2>3 DEF BinInv, BinWhole
<1>2. HandlerInv /\ BinInv /\ [ReqNext]_reqVars => BinInv'
  BY BinStutters, BinStep DEF ReqNext, StepOf
<1> QED BY <1>1, <1>2, HandlersKeepTypes, PTL DEF ReqSpec

\* The Bin keeps its order, nothing live in it (folders.ts:147-149,
\* 161-180), whatever overlaps and whatever fails, until a read the
\* trashings, restores and writes go by is made stale: by a trashing
\* between the check of a folder and the write into it, by a row put under
\* a subtree after it was listed, or by a trashing later than now().
THEOREM NothingLiveStaysInTheBin == ReqSpec => []BinKept
<1>1. BinInv => BinKept
  BY DEF BinInv, BinWhole, BinKept
<1> QED BY <1>1, BinHolds, PTL

-----------------------------------------------------------------------------
(* What is deleted for good.                                               *)

DoomedInv == Overtaken({"doomed"}) \/ \A q \in Request : DoomedStands(q)

\* A delete, the cleanup and the purge look before they act.
LEMMA OwnDoomedStands ==
  ASSUME HandlerInv, NEW r \in Request, DoomedStands(r), StepOf(r)
  PROVE  DoomedStands(r)'
<1>0. Arrived(r) /\ Holds(r)
  BY Others
<1> USE DEF At
<1>1. ASSUME req'[r].step \in DoomedSteps, req'[r].folder \in DOMAIN folders'
      PROVE  TrashedFolder(req[r].folder)'
  <2>1. CASE req'[r].step = "readSubtreeToDelete"
    BY <1>0, <1>1, <2>1 DEF Arrived, ArrivedFolder, Starts, vars, TrashedFolder
  <2>2. CASE req'[r].step \in {"readDoomed", "deleteStored"}
    <3>1. UNCHANGED folders /\ req'[r].folder = req[r].folder /\ req[r].step \in DoomedSteps
      BY <1>0, <1>1, <2>2 DEF Arrived, ArrivedTree, Listed, vars, DeleteStored, tree, DoomedSteps
    <3> QED BY <1>0, <1>1, <3>1 DEF DoomedStands, TrashedFolder
  <2> QED BY <1>1, <2>1, <2>2 DEF DoomedSteps
<1>2. ASSUME req'[r].step \in {"deleteObject", "deleteThumb"}, req'[r].file \in DOMAIN files'
      PROVE  TrashedFile(req[r].file)'
  <2>1. CASE req'[r].step = "deleteObject"
    BY <1>0, <2>1 DEF Arrived, ArrivedFile, Starts, vars, TrashedFile
  <2>2. CASE req'[r].step = "deleteThumb"
    BY <1>0, <1>2, <2>2 DEF Arrived, ArrivedFile, From, Kept, DeleteObject, tree, TrashedFile, DoomedStands
  <2> QED BY <1>2, <2>1, <2>2
<1>3. req'[r].step = "abortPending" /\ req'[r].file \in DOMAIN files' => files'[req'[r].file].status = "pending"
  BY <1>0 DEF Arrived, ArrivedFile, Starts, vars
<1>4. ASSUME req'[r].step = "deleteRow", NEW f, f = req'[r].file, f \in DOMAIN files'
      PROVE  TrashedFile(f)' \/ files'[f].status = "pending"
  <2>1. /\ UNCHANGED files /\ f = req[r].file
        /\ req[r].step \in {"abortPending", "deleteObject", "deleteThumb"}
    BY <1>0, <1>4 DEF Arrived, ArrivedFile, From, Kept, AbortPending, DeleteObject, DeleteThumb, tree, vars
  <2> QED BY <1>0, <1>4, <2>1 DEF DoomedStands, TrashedFile
<1>5. ASSUME req'[r].step \in CleanupSteps, NEW f \in InHand(r)', f \in DOMAIN files'
      PROVE  files'[f].status = "pending"
  <2>1. CASE Starts(r) /\ req'[r].step = "cleanup"
    BY <1>0, <1>5, <2>1 DEF Starts, vars, InHand, Arrived, ArrivedScript, From, Idle
  <2>2. CASE From(r, "cleanupRow") /\ CleanupRow(r) /\ req'[r].step = "cleanup"
    <3>1. f \in InHand(r) /\ f \in DOMAIN files /\ files'[f] = files[f]
      BY <1>0, <1>5, <2>2 DEF From, Kept, CleanupRow, WithoutRows, InHand
    <3> QED BY <1>0, <1>5, <2>2, <3>1 DEF From, DoomedStands, CleanupSteps
  <2>3. CASE req'[r].step = "cleanupRow"
    <3>1. UNCHANGED files /\ f \in InHand(r) /\ req[r].step = "cleanup"
      BY <1>0, <1>5, <2>3 DEF Arrived, ArrivedScript, TakesUp, CleanupAbort, Skipping, tree, vars, InHand
    <3> QED BY <1>0, <1>5, <3>1 DEF DoomedStands, CleanupSteps
  <2> QED BY <1>0, <1>5, <2>1, <2>2, <2>3 DEF Arrived, ArrivedScript, CleanupSteps
<1>6. ASSUME req'[r].step \in {"purge", "purgeThumb", "purgeRow"}
      PROVE  InHand(r)' \cap DOMAIN files' = OldFiles(req[r].cutoff)'
  <2>1. CASE Starts(r) /\ req'[r].step = "purge" /\ req'[r].left = OldFiles(req'[r].cutoff)
    BY <2>1 DEF Starts, vars, InHand, OldFiles, TrashedFile
  <2>2. CASE From(r, "purgeRow") /\ PurgeRow(r) /\ req'[r].step = "purge"
    <3>1. /\ InHand(r) \cap DOMAIN files = OldFiles(req[r].cutoff)
          /\ InHand(r) = req[r].left \cup {req[r].file} /\ InHand(r)' = req[r].left
          /\ req'[r].cutoff = req[r].cutoff
      BY <2>2 DEF From, Kept, InHand, DoomedStands
    <3>2. DOMAIN files' = DOMAIN files \ {req[r].file} /\ \A f \in DOMAIN files' : files'[f] = files[f]
      BY <2>2 DEF PurgeRow, WithoutRows
    <3>3. OldFiles(req[r].cutoff)' = OldFiles(req[r].cutoff) \ {req[r].file}
      BY <3>1, <3>2 DEF OldFiles, TrashedFile
    <3> QED BY <3>1, <3>2, <3>3
  <2>3. CASE req'[r].step \in {"purgeThumb", "purgeRow"}
    <3>1. /\ UNCHANGED files /\ InHand(r)' = InHand(r) /\ req[r].step \in {"purge", "purgeThumb"}
          /\ req'[r].cutoff = req[r].cutoff
      <4>1. CASE At(r, "purge")
        BY <1>0, <2>3, <4>1 DEF Arrived, ArrivedScript, TakesUp, PurgeObject, Skipping, tree, vars, InHand, From
      <4>2. CASE ~At(r, "purge")
        BY <1>0, <2>3, <4>2 DEF Arrived, ArrivedScript, From, Kept, PurgeThumb, tree, vars, InHand
      <4> QED BY <4>1, <4>2
    <3> QED BY <3>1 DEF DoomedStands, OldFiles, TrashedFile
  <2> QED BY <1>0, <1>6, <2>1, <2>2, <2>3 DEF Arrived, ArrivedScript
<1>7. ASSUME req'[r].step = "purgeFolders"
      PROVE  /\ OldFiles(req[r].cutoff)' = {}
             /\ (req[r].ids \cap DOMAIN folders = OldFolders(req[r].cutoff))'
  <2>0. req'[r].cutoff = req[r].cutoff
    BY <1>0, <1>7 DEF Arrived, ArrivedScript
  <2>1. CASE At(r, "purge") /\ UNCHANGED vars /\ req[r].left = {} /\ req'[r].ids = OldFolders(req[r].cutoff)
    <3>1. OldFiles(req[r].cutoff) = {}
      BY <2>1 DEF DoomedStands, InHand
    <3> QED BY <2>0, <2>1, <3>1 DEF OldFiles, OldFolders, TrashedFile, TrashedFolder, vars
  <2>2. ASSUME NEW d \in FolderId, PurgeFolderRow(r, d), req'[r].ids = req[r].ids \ {d}
        PROVE  /\ OldFiles(req[r].cutoff)' = {}
               /\ (req[r].ids \cap DOMAIN folders = OldFolders(req[r].cutoff))'
    <3>1. OldFiles(req[r].cutoff) = {} /\ req[r].ids \cap DOMAIN folders = OldFolders(req[r].cutoff)
      BY <2>2 DEF PurgeFolderRow, DoomedStands
    <3>2. /\ DOMAIN folders' = DOMAIN folders \ SubtreeIds(d) /\ \A x \in DOMAIN folders' : folders'[x] = folders[x]
          /\ DOMAIN files' \subseteq DOMAIN files /\ \A f \in DOMAIN files' : files'[f] = files[f]
      BY <2>2 DEF PurgeFolderRow, WithoutRows
    <3>3. d \in DOMAIN folders => d \in SubtreeIds(d)
      BY SubtreeSelf DEF SubtreeIds
    <3>4. OldFiles(req[r].cutoff)' = {}
      BY <2>0, <3>1, <3>2 DEF OldFiles, TrashedFile
    <3>5. OldFolders(req[r].cutoff)' = OldFolders(req[r].cutoff) \ SubtreeIds(d)
      BY <2>0, <3>2 DEF OldFolders, TrashedFolder
    <3> QED BY <2>2, <3>1, <3>2, <3>3, <3>4, <3>5
  <2> QED BY <1>0, <1>7, <2>1, <2>2 DEF Arrived, ArrivedScript
<1>8. DoomedStands(r)' <=>
        /\ req'[r].step \in DoomedSteps /\ req'[r].folder \in DOMAIN folders' => TrashedFolder(req[r].folder)'
        /\ req'[r].step \in {"deleteObject", "deleteThumb"} /\ req'[r].file \in DOMAIN files' =>
             TrashedFile(req[r].file)'
        /\ req'[r].step = "abortPending" /\ req'[r].file \in DOMAIN files' => files'[req'[r].file].status = "pending"
        /\ req'[r].step = "deleteRow" /\ req'[r].file \in DOMAIN files' =>
             TrashedFile(req[r].file)' \/ files'[req'[r].file].status = "pending"
        /\ req'[r].step \in CleanupSteps =>
             \A f \in InHand(r)' \cap DOMAIN files' : files'[f].status = "pending"
        /\ req'[r].step \in {"purge", "purgeThumb", "purgeRow"} =>
             InHand(r)' \cap DOMAIN files' = OldFiles(req[r].cutoff)'
        /\ req'[r].step = "purgeFolders" => /\ OldFiles(req[r].cutoff)' = {}
                                            /\ (req[r].ids \cap DOMAIN folders = OldFolders(req[r].cutoff))'
  BY DEF DoomedStands
<1>9. req'[r].step = "deleteRow" /\ req'[r].file \in DOMAIN files' =>
        TrashedFile(req[r].file)' \/ files'[req'[r].file].status = "pending"
  BY <1>4 DEF TrashedFile
<1>10. req'[r].step \in CleanupSteps => \A f \in InHand(r)' \cap DOMAIN files' : files'[f].status = "pending"
  BY <1>5
<1> QED BY <1>1, <1>2, <1>3, <1>6, <1>7, <1>8, <1>9, <1>10

LEMMA DoomedHolds == ReqSpec => []DoomedInv
<1>1. ReqInit => DoomedInv
  <2> SUFFICES ASSUME ReqInit PROVE DoomedInv
    OBVIOUS
  <2>1. \A r \in Request : req[r].step = "idle"
    BY DEF ReqInit, Idle
  <2> QED BY <2>1 DEF DoomedInv, DoomedStands, DoomedSteps, CleanupSteps, At
<1>2. HandlerInv /\ DoomedInv /\ [ReqNext]_reqVars => DoomedInv'
  <2> SUFFICES ASSUME HandlerInv, DoomedInv, [ReqNext]_reqVars
               PROVE  DoomedInv'
    OBVIOUS
  <2>1. CASE UNCHANGED reqVars
    BY <2>1, HandlerStutters, StandsStutters DEF DoomedInv, Overtaken
  <2>2. ASSUME NEW r \in Request, StepOf(r), "doomed" \notin overtaken', NEW q \in Request
        PROVE  DoomedStands(q)'
    <3>1. \A x \in Request : DoomedStands(x)
      BY <2>2, HistoriesGrow DEF DoomedInv, Overtaken
    <3> QED BY <2>2, <3>1, OwnDoomedStands, OthersStand, KindStands, KindStandsThen DEF Reads
  <2>3. CASE \E r \in Request : StepOf(r)
    BY <2>2, <2>3 DEF DoomedInv, Overtaken
  <2> QED BY <2>1, <2>3 DEF ReqNext, StepOf
<1> QED BY <1>1, <1>2, HandlersKeepTypes, PTL DEF ReqSpec

LEMMA DestroysOnlyTheDead ==
  ASSUME HandlerInv, BinOrder, NEW r \in Request, StepOf(r),
         DoomedStands(r)
  PROVE  /\ \A d \in DOMAIN folders \ DOMAIN folders' : TrashedFolder(d)
         /\ \A f \in DOMAIN files \ DOMAIN files' : TrashedFile(f) \/ files[f].status = "pending"
<1>0. FolderFates(r) /\ FileFates(r) /\ TypeOK
  BY Others DEF Fates
<1>1. ASSUME NEW d, d \in DOMAIN folders => TrashedFolder(d)
      PROVE  /\ \A x \in SubtreeIds(d) : TrashedFolder(x)
             /\ \A f \in DOMAIN files : files[f].folder \in SubtreeIds(d) => TrashedFile(f)
  BY <1>0, <1>1, TrashedUnder DEF SubtreeIds, FilesUnder
<1>2. At(r, "deleteStored") =>
        /\ \A x \in SubtreeIds(req[r].folder) : TrashedFolder(x)
        /\ \A f \in DOMAIN files : files[f].folder \in SubtreeIds(req[r].folder) => TrashedFile(f)
  BY <1>1 DEF DoomedStands, DoomedSteps, At
<1>3. ASSUME At(r, "purgeFolders"), NEW e \in req[r].ids
      PROVE  /\ \A x \in SubtreeIds(e) : TrashedFolder(x)
             /\ \A f \in DOMAIN files : files[f].folder \in SubtreeIds(e) => TrashedFile(f)
  BY <1>1, <1>3 DEF DoomedStands, OldFolders, At
<1>4. \A f \in DOMAIN files : f = req[r].file /\ req[r].step \in {"deleteRow", "cleanupRow", "purgeRow"} =>
         TrashedFile(f) \/ files[f].status = "pending"
  BY DEF DoomedStands, InHand, OldFiles, CleanupSteps, At
<1> QED BY <1>0, <1>2, <1>3, <1>4 DEF FolderFates, FileFates

\* Deleting for good, emptying the Bin and cleaning up take only what is in
\* the Bin or was never finished (files.ts:365-402, folders.ts:185-201, the
\* scripts: each looks at the row first, none locks it), whatever overlaps
\* and whatever fails, until a row one of them is about to take is taken
\* out of the Bin or finished, or the Bin has lost its order.
THEOREM NothingLiveDies == ReqSpec => LiveKept
<1> DEFINE Takes == \/ Overtaken(BinReads \cup {"doomed"})
                    \/ /\ \A d \in DOMAIN folders \ DOMAIN folders' : TrashedFolder(d)
                       /\ \A f \in DOMAIN files \ DOMAIN files' :
                             TrashedFile(f) \/ files[f].status = "pending"
<1>1. HandlerInv /\ BinInv /\ DoomedInv /\ [ReqNext]_reqVars => [Takes]_reqVars
  <2> SUFFICES ASSUME HandlerInv, BinInv, DoomedInv, NEW r \in Request, StepOf(r),
                      ~Overtaken(BinReads \cup {"doomed"})
               PROVE  Takes
    BY DEF ReqNext, StepOf
  <2>1. BinOrder /\ DoomedStands(r)
    BY DEF BinInv, BinWhole, DoomedInv, Overtaken
  <2> QED BY <2>1, DestroysOnlyTheDead
<1> QED BY <1>1, HandlersKeepTypes, BinHolds, DoomedHolds, PTL DEF ReqSpec, LiveKept

-----------------------------------------------------------------------------
(* A request does what its step says, or dies there.                       *)

Dies(r) == Die(r) /\ UNCHANGED vars

LEMMA DoesItsStep ==
  ASSUME NEW r \in Request, StepOf(r)
  PROVE  /\ At(r, "markComplete") => MarkComplete(r) \/ Dies(r)
         /\ At(r, "abortPending") => AbortPending(r) \/ Dies(r)
         /\ At(r, "deleteObject") => DeleteObject(r) \/ Dies(r)
         /\ At(r, "deleteThumb") => DeleteThumb(r) \/ (Go(r, "deleteRow") /\ UNCHANGED vars) \/ Dies(r)
         /\ At(r, "deleteRow") => DeleteRow(r) \/ Dies(r)
         /\ At(r, "cleanupRow") => CleanupRow(r) \/ Dies(r)
         /\ At(r, "purgeThumb") => PurgeThumb(r) \/ (Go(r, "purgeRow") /\ UNCHANGED vars) \/ Dies(r)
         /\ At(r, "purgeRow") => PurgeRow(r) \/ Dies(r)
         /\ At(r, "deleteStored") => DeleteFolderRow(r) \/ (\E f \in FileId : DeleteStored(r, f)) \/ Dies(r)
<1> DEFINE S == {"markComplete", "abortPending", "deleteObject", "deleteThumb", "deleteRow", "cleanupRow", "purgeThumb",
                  "purgeRow", "deleteStored"}
<1>1. CASE \/ InsertFolder(r) \/ ReadNewParent(r) \/ CheckCycle(r) \/ UpdateFolder(r)
           \/ ReadSubtree(r) \/ BeginTrash(r) \/ TrashTree(r) \/ ReadDoomed(r) \/ ReadParent(r) \/ RestoreTree(r)
  <2>1. req[r].step \notin S
    BY <1>1 DEF InsertFolder, ReadNewParent, CheckCycle, UpdateFolder, ReadSubtree, BeginTrash, TrashTree, ReadDoomed,
                ReadParent, RestoreTree, At
  <2> QED BY <2>1 DEF At
<1>2. CASE \/ CreateUpload(r) \/ InsertFile(r) \/ AbortUpload(r) \/ Stitch(r) \/ ReadDest(r) \/ UpdateFile(r)
           \/ TrashFileRow(r) \/ ReadHome(r) \/ RestoreFileRow(r) \/ CatchAfter(r)
  <2>1. req[r].step \notin S
    BY <1>2 DEF CreateUpload, InsertFile, InsertRow, AbortUpload, Stitch, ReadDest, UpdateFile,
                TrashFileRow, ReadHome, RestoreFileRow, CatchAfter, StoreThumb, WriteReady, At
  <2> QED BY <2>1 DEF At
<1>3. CASE \/ ReadSource(r) \/ PutThumb(r) \/ MarkReady(r) \/ PresignThumb(r) \/ MarkFailed(r) \/ ReadOldFolders(r)
           \/ \E f \in FileId : CleanupAbort(r, f) \/ PurgeObject(r, f)
           \/ \E d \in FolderId : PurgeFolderRow(r, d)
  <2>1. req[r].step \notin S
    BY <1>3 DEF ReadSource, PutThumb, StoreThumb, MarkReady, WriteReady, PresignThumb, MarkFailed, ReadOldFolders,
                CleanupAbort, PurgeObject, TakeUpCleanup, TakeUpPurge, PurgeFolderRow, At
  <2> QED BY <2>1 DEF At
<1>4. CASE \/ MarkComplete(r) \/ AbortPending(r) \/ DeleteObject(r) \/ DeleteThumb(r) \/ DeleteRow(r) \/ CleanupRow(r) \/ PurgeThumb(r) \/ PurgeRow(r)
           \/ DeleteFolderRow(r) \/ \E f \in FileId : DeleteStored(r, f)
  BY <1>4 DEF MarkComplete, AbortPending, DeleteObject, DeleteThumb, DeleteRow, CleanupRow, PurgeThumb, PurgeRow, DeleteFolderRow, DeleteStored, At
<1>5. CASE StartFolderRequest(r) \/ StartFileRequest(r) \/ StartScript(r)
  <2>1. req[r] = Idle
    <3>1. CASE StartFolderRequest(r)
      BY <3>1 DEF StartFolderRequest, StartCreateFolder, StartPatchFolder, StartDeleteFolder, StartRestoreFolder, Begin
    <3>2. CASE StartFileRequest(r)
      BY <3>2 DEF StartFileRequest, StartInitiateUpload, StartPatchFile, StartCompleteUpload, StartDeleteFile,
                  StartRestoreFile, StartThumbnail, Begin
    <3>3. CASE StartScript(r)
      BY <3>3 DEF StartScript, StartCleanup, StartPurge, Begin
    <3> QED BY <1>5, <3>1, <3>2, <3>3
  <2>2. req[r].step = "idle"
    BY <2>1 DEF Idle
  <2> QED BY <2>2 DEF At
<1>6. CASE (Die(r) \/ Catch(r)) /\ UNCHANGED vars
  BY <1>6 DEF Catch, Dies, At
<1>7. CASE Skip(r)
  BY <1>7 DEF Skip, TakeUpCleanup, TakeUpPurge, At, vars
<1> QED BY <1>1, <1>2, <1>3, <1>4, <1>5, <1>6, <1>7 DEF StepOf, Continue, Fail

\* What it had taken from the bucket is then on record.
LEMMA DyingIsTorn ==
  ASSUME HandlerInv, NEW r \in Request, Dies(r)
  PROVE  /\ \A f : At(r, "markComplete") /\ f = req[r].file => <<"completeUpload", f>> \in torn'
         /\ \A f : req[r].step \in {"deleteThumb", "deleteRow"} /\ f = req[r].file => <<"deleteFile", f>> \in torn'
         /\ \A f : At(r, "cleanupRow") /\ f = req[r].file => <<"cleanup", f>> \in torn'
         /\ \A f : req[r].step \in {"purgeThumb", "purgeRow"} /\ f = req[r].file => <<"purge", f>> \in torn'
         /\ \A f : At(r, "deleteStored") /\ f \in req[r].rows \ req[r].left => <<"deleteFolder", f>> \in torn'
<1>1. {req[r].op} \X Halfway(r) \subseteq torn'
  BY DEF Dies, Die
<1>2. \A f \in Halfway(r) : <<req[r].op, f>> \in torn'
  BY <1>1
<1>3. Doing(r)
  BY DEF HandlerInv
<1> QED BY <1>2, <1>3 DEF Halfway, Taken, Doing, CompleteSteps, DeleteSteps, CleanupSteps, PurgeSteps, DoomedSteps, At

\* A row another request knows was not made by this step.
LEMMA KnownIsOld ==
  ASSUME HandlerInv, NEW r \in Request, StepOf(r), NEW q \in Request, q # r
  PROVE  \A f \in DOMAIN files' : KnowsFile(q, f) => f \in DOMAIN files
<1>0. Fresh(r) /\ FileFates(r)
  BY Others DEF Fates
<1> QED BY <1>0 DEF FileFates, Fresh, OpeningSteps, At, KnowsFile

-----------------------------------------------------------------------------
(* Thumbnails.                                                             *)

\* A thumbnail a row names, or is about to, is there until the row is next
\* to go, or the handler that was to remove it has stopped; only finished
\* files have one.
Named(f)    == /\ f \in DOMAIN files
               /\ files[f].hasThumb \/ \E r \in Request : At(r, "markReady") /\ req[r].file = f
RowGoing(f) == \E r \in Request : req[r].step \in {"deleteRow", "purgeRow"} /\ req[r].file = f
ThumbInv    == \A f \in FileId : Named(f) => f \in thumbs \/ RowGoing(f) \/ TornBy({"deleteFile", "purge"}, f)
FinishedInv == /\ \A f \in DOMAIN files : files[f].hasThumb => files[f].status = "complete"
               /\ \A r \in Request : req[r].step \in ThumbSteps /\ req[r].file \in DOMAIN files =>
                                       files[req[r].file].status = "complete"

LEMMA FinishedStep ==
  ASSUME HandlerInv, FinishedInv, NEW r \in Request, StepOf(r)
  PROVE  FinishedInv'
<1>0. /\ \A q \in Request \ {r} : req'[q] = req[q]
      /\ Arrived(r) /\ FileFates(r)
  BY Others DEF Fates
<1>1. ASSUME NEW f \in DOMAIN files', files'[f].hasThumb
      PROVE  files'[f].status = "complete"
  <2>1. f \in DOMAIN files
    BY <1>0, <1>1 DEF FileFates
  <2>2. files[f].status = "complete"
    BY <1>0, <1>1, <2>1 DEF FileFates, FinishedInv, ThumbSteps, At
  <2> QED BY <1>0, <2>1, <2>2 DEF FileFates
<1>2. ASSUME NEW q \in Request, q # r, req'[q].step \in ThumbSteps, NEW f, f = req'[q].file, f \in DOMAIN files'
      PROVE  files'[f].status = "complete"
  <2>1. f \in DOMAIN files /\ files[f].status = "complete"
    BY <1>0, <1>2, KnownIsOld DEF FinishedInv, KnowsFile
  <2> QED BY <1>0, <1>2, <2>1 DEF FileFates
<1>3. ASSUME req'[r].step \in ThumbSteps, NEW f, f = req'[r].file, f \in DOMAIN files'
      PROVE  files'[f].status = "complete"
  <2>1. CASE At(r, "readSource")'
    BY <1>0, <1>3, <2>1 DEF Arrived, ArrivedThumb, Starts, vars
  <2>2. CASE ~At(r, "readSource")'
    <3>1. \E s \in ThumbSteps : From(r, s)
      BY <1>0, <1>3, <2>2 DEF Arrived, ArrivedThumb, Looks, ThumbSteps, At
    <3>2. req[r].step \in ThumbSteps /\ f = req[r].file
      BY <1>3, <3>1 DEF From, Kept, At
    <3>3. f \in DOMAIN files
      BY <1>0, <1>3, <3>2 DEF FileFates, At, ThumbSteps
    <3> QED BY <1>0, <1>3, <3>2, <3>3 DEF FileFates, FinishedInv
  <2> QED BY <2>1, <2>2
<1> QED BY <1>1, <1>2, <1>3 DEF FinishedInv

LEMMA ThumbStep ==
  ASSUME HandlerInv, ThumbInv, NEW r \in Request, StepOf(r)
  PROVE  ThumbInv'
<1>0. /\ \A q \in Request \ {r} : req'[q] = req[q]
      /\ Arrived(r) /\ FileFates(r) /\ BucketFates(r) /\ ReqTypeOK /\ torn \subseteq torn'
  BY Others, HistoriesGrow DEF Fates, HandlerInv
<1>1. ASSUME NEW f \in FileId, Named(f)'
      PROVE  f \in thumbs' \/ RowGoing(f)' \/ TornBy({"deleteFile", "purge"}, f)'
  <2>1. CASE At(r, "markReady")' /\ req'[r].file = f
    BY <1>0, <2>1 DEF Arrived, ArrivedThumb, From, Kept, StoreThumb
  <2>2. CASE ~(At(r, "markReady")' /\ req'[r].file = f)
    <3>1. Named(f)
      <4>1. CASE files'[f].hasThumb
        BY <1>0, <1>1, <4>1 DEF FileFates, Named
      <4>2. CASE \E q \in Request \ {r} : At(q, "markReady")' /\ req'[q].file = f
        <5>1. PICK q \in Request \ {r} : At(q, "markReady") /\ req[q].file = f
          BY <1>0, <4>2 DEF At
        <5>2. f \in DOMAIN files
          BY <1>1, <5>1, KnownIsOld DEF Named, KnowsFile
        <5> QED BY <5>1, <5>2 DEF Named
      <4> QED BY <1>1, <2>2, <4>1, <4>2 DEF Named
    <3>2. CASE f \in thumbs /\ f \notin thumbs'
      <4>1. req[r].step \in {"deleteThumb", "purgeThumb"} /\ f = req[r].file
        BY <1>0, <3>2 DEF BucketFates
      <4>2. DeleteThumb(r) \/ PurgeThumb(r)
        BY <3>2, <4>1, DoesItsStep DEF At, Dies, vars
      <4>3. req'[r].step \in {"deleteRow", "purgeRow"} /\ req'[r].file = f
        BY <1>0, <4>1, <4>2, GoMoves DEF DeleteThumb, PurgeThumb
      <4> QED BY <4>3 DEF RowGoing
    <3>3. ASSUME NEW q \in Request, req[q].step \in {"deleteRow", "purgeRow"}, req[q].file = f
          PROVE  RowGoing(f)' \/ TornBy({"deleteFile", "purge"}, f)'
      <4>1. CASE q # r
        BY <1>0, <3>3, <4>1 DEF RowGoing
      <4>2. CASE q = r
        <5>1. CASE DeleteRow(r) \/ PurgeRow(r)
          <6>1. f \notin DOMAIN files'
            BY <3>3, <4>2, <5>1 DEF DeleteRow, PurgeRow, WithoutRows
          <6> QED BY <1>1, <6>1 DEF Named
        <5>2. CASE Dies(r)
          BY <3>3, <4>2, <5>2, DyingIsTorn DEF TornBy
        <5> QED BY <3>3, <4>2, <5>1, <5>2, DoesItsStep DEF At
      <4> QED BY <4>1, <4>2
    <3>4. TornBy({"deleteFile", "purge"}, f) => TornBy({"deleteFile", "purge"}, f)'
      BY <1>0 DEF TornBy
    <3> QED BY <3>1, <3>2, <3>3, <3>4 DEF ThumbInv, RowGoing
  <2> QED BY <2>1, <2>2
<1> QED BY <1>1 DEF ThumbInv

\* A live row that names a thumbnail finds it in the bucket (files.ts:276-282,
\* 397-399: the row is written after the object and goes after it), whatever
\* overlaps and whatever fails, until the row is taken out of the Bin under
\* a delete or a purge, or one of those stops after it began on the file.
THEOREM ThumbnailsStayServed == ReqSpec => []ThumbnailsKept
<1>1. ReqInit => ThumbInv /\ FinishedInv
  <2> SUFFICES ASSUME ReqInit PROVE ThumbInv /\ FinishedInv
    OBVIOUS
  <2>1. DOMAIN files = {}
    BY DEF ReqInit, Init
  <2> QED BY <2>1 DEF ThumbInv, Named, FinishedInv
<1>2. HandlerInv /\ ThumbInv /\ FinishedInv /\ [ReqNext]_reqVars => ThumbInv' /\ FinishedInv'
  <2> SUFFICES ASSUME HandlerInv, ThumbInv, FinishedInv, [ReqNext]_reqVars
               PROVE  ThumbInv' /\ FinishedInv'
    OBVIOUS
  <2>1. CASE UNCHANGED reqVars
    BY <2>1, HandlerStutters DEF ThumbInv, Named, RowGoing, TornBy, FinishedInv, At
  <2>2. CASE \E r \in Request : StepOf(r)
    BY <2>2, ThumbStep, FinishedStep
  <2> QED BY <2>1, <2>2 DEF ReqNext, StepOf
<1>3. HandlerInv /\ DoomedInv /\ ThumbInv /\ FinishedInv => ThumbnailsKept
  <2> SUFFICES ASSUME HandlerInv, DoomedInv, ThumbInv, FinishedInv, ~Overtaken({"doomed"}),
                      NEW f \in DOMAIN files, LiveFile(f), files[f].hasThumb
               PROVE  f \in thumbs \/ TornBy({"deleteFile", "purge"}, f)
    BY DEF ThumbnailsKept
  <2>1. f \in FileId /\ Named(f)
    BY DEF HandlerInv, ReqTypeOK, TypeOK, Named
  <2>2. ASSUME NEW q \in Request, req[q].step \in {"deleteRow", "purgeRow"}, req[q].file = f
        PROVE  FALSE
    <3>1. DoomedStands(q) /\ files[f].status = "complete"
      BY DEF DoomedInv, FinishedInv
    <3> QED BY <2>2, <3>1 DEF DoomedStands, InHand, OldFiles, TrashedFile, LiveFile, At
  <2> QED BY <2>1, <2>2 DEF ThumbInv, RowGoing
<1> QED BY <1>1, <1>2, <1>3, HandlersKeepTypes, DoomedHolds, PTL DEF ReqSpec

-----------------------------------------------------------------------------
(* Objects of finished files.                                              *)

ListedInv == Overtaken({"subtree"}) \/ \A q \in Request : SubtreeStands(q)

LEMMA ListedHolds == ReqSpec => []ListedInv
<1>1. ReqInit => ListedInv
  <2> SUFFICES ASSUME ReqInit PROVE ListedInv
    OBVIOUS
  <2>1. \A r \in Request : req[r].step = "idle"
    BY DEF ReqInit, Idle
  <2> QED BY <2>1 DEF ListedInv, SubtreeStands, At
<1>2. HandlerInv /\ ListedInv /\ [ReqNext]_reqVars => ListedInv'
  <2> SUFFICES ASSUME HandlerInv, ListedInv, [ReqNext]_reqVars
               PROVE  ListedInv'
    OBVIOUS
  <2>1. CASE UNCHANGED reqVars
    BY <2>1, HandlerStutters, StandsStutters DEF ListedInv, Overtaken
  <2>2. ASSUME NEW r \in Request, StepOf(r), "subtree" \notin overtaken', NEW q \in Request
        PROVE  SubtreeStands(q)'
    <3>1. \A x \in Request : SubtreeStands(x)
      BY <2>2, HistoriesGrow DEF ListedInv, Overtaken
    <3> QED BY <2>2, <3>1, OwnSubtreeStands, OthersStand, KindStands, KindStandsThen DEF Reads
  <2>3. CASE \E r \in Request : StepOf(r)
    BY <2>2, <2>3 DEF ListedInv, Overtaken
  <2> QED BY <2>1, <2>3 DEF ReqNext, StepOf
<1> QED BY <1>1, <1>2, HandlersKeepTypes, PTL DEF ReqSpec

\* The object of a finished file, or of one about to be marked so, is there
\* until the row is as good as gone, or the handler that was to remove it
\* has stopped.
Whole(f)     == /\ f \in DOMAIN files
                /\ \/ files[f].status = "complete"
                   \/ \E r \in Request : At(r, "markComplete") /\ req[r].file = f
Takes(r, f)  == \/ req[r].step \in {"deleteThumb", "deleteRow", "purgeThumb", "purgeRow"} /\ req[r].file = f
                \/ At(r, "deleteStored") /\ f \in req[r].rows \ req[r].left
TakenFrom(f) == (\E r \in Request : Takes(r, f)) \/ TornBy({"deleteFile", "deleteFolder", "purge"}, f)
ObjectInv    == \A f \in FileId : Whole(f) => f \in objects \/ TakenFrom(f)

\* A loop of a permanent delete takes what is left of its rows.
LEMMA StoredMoves ==
  ASSUME HandlerInv, NEW r \in Request, NEW g, DeleteStored(r, g)
  PROVE  /\ req'[r].step = "deleteStored" /\ req'[r].rows = req[r].rows
         /\ req'[r].left = req[r].left \ {g} /\ req'[r].marked = req[r].marked
<1>1. req'[r] = [req[r] EXCEPT !.left = req[r].left \ {g}] /\ req[r] \in LocalRow
  BY Locals DEF DeleteStored, HandlerInv, ReqTypeOK
<1>2. req[r].step = "deleteStored"
  BY DEF DeleteStored, At
<1> QED BY <1>1, <1>2 DEF LocalRow

\* What a handler has taken goes with its row, or the handler stops.
LEMMA TakesOn ==
  ASSUME HandlerInv, NEW r \in Request, SubtreeStands(r), StepOf(r), NEW f \in DOMAIN files \cap DOMAIN files',
         Takes(r, f)
  PROVE  TakenFrom(f)'
<1>0. ReqTypeOK /\ Fresh(r)
  BY DEF HandlerInv
<1>1. CASE Dies(r)
  BY <1>1, DyingIsTorn DEF TakenFrom, TornBy, Takes, At
<1>2. CASE ~Dies(r) /\ req[r].step \in {"deleteRow", "purgeRow"}
  BY <1>2, DoesItsStep DEF Takes, DeleteRow, PurgeRow, WithoutRows, At
<1>3. CASE ~Dies(r) /\ req[r].step \in {"deleteThumb", "purgeThumb"}
  <2>1. Go(r, "deleteRow") \/ Go(r, "purgeRow")
    BY <1>3, DoesItsStep DEF DeleteThumb, PurgeThumb, At
  <2>2. req'[r].step \in {"deleteRow", "purgeRow"} /\ req'[r].file = req[r].file
    BY <1>0, <2>1, GoMoves
  <2>3. req[r].file = f
    BY <1>3 DEF Takes, At
  <2> QED BY <2>2, <2>3 DEF TakenFrom, Takes
<1>4. CASE ~Dies(r) /\ req[r].step = "deleteStored"
  <2>1. f \in req[r].rows \ req[r].left
    BY <1>4 DEF Takes
  <2>2. f \in FilesUnder(SubtreeIds(req[r].folder))
    BY <1>4, <2>1 DEF SubtreeStands, At
  <2>3. ~DeleteFolderRow(r)
    BY <2>2 DEF DeleteFolderRow, WithoutRows
  <2>4. PICK g \in FileId : DeleteStored(r, g)
    BY <1>4, <2>3, DoesItsStep DEF At
  <2>5. Takes(r, f)'
    BY <2>1, <2>4, StoredMoves DEF Takes, At
  <2> QED BY <2>5 DEF TakenFrom
<1> QED BY <1>1, <1>2, <1>3, <1>4 DEF Takes, At

LEMMA ObjectStep ==
  ASSUME HandlerInv, ObjectInv, NEW r \in Request, SubtreeStands(r), StepOf(r)
  PROVE  ObjectInv'
<1>0. /\ \A q \in Request \ {r} : req'[q] = req[q]
      /\ Arrived(r) /\ FileFates(r) /\ BucketFates(r) /\ ReqTypeOK /\ Fresh(r) /\ torn \subseteq torn'
  BY Others, HistoriesGrow DEF Fates, HandlerInv
<1>1. ASSUME NEW f \in FileId, Whole(f)'
      PROVE  f \in objects' \/ TakenFrom(f)'
  <2>1. CASE At(r, "markComplete")' /\ req'[r].file = f
    BY <1>0, <2>1 DEF Arrived, ArrivedUpload, From, Kept, Stitch
  <2>2. CASE ~(At(r, "markComplete")' /\ req'[r].file = f)
    <3>1. Whole(f)
      <4>1. CASE files'[f].status = "complete"
        BY <1>0, <1>1, <4>1 DEF FileFates, Whole
      <4>2. CASE \E q \in Request \ {r} : At(q, "markComplete")' /\ req'[q].file = f
        <5>1. PICK q \in Request \ {r} : At(q, "markComplete") /\ req[q].file = f
          BY <1>0, <4>2 DEF At
        <5>2. f \in DOMAIN files
          BY <1>1, <5>1, KnownIsOld DEF Whole, KnowsFile
        <5> QED BY <5>1, <5>2 DEF Whole
      <4> QED BY <1>1, <2>2, <4>1, <4>2 DEF Whole
    <3>2. f \in DOMAIN files \cap DOMAIN files'
      BY <1>1, <3>1 DEF Whole
    <3>3. CASE f \in objects /\ f \notin objects'
      <4>0. ~Dies(r)
        BY <3>3 DEF Dies, vars
      <4>1. CASE At(r, "deleteStored") /\ f \in req[r].left
        <5>1. f \in req[r].rows
          BY <1>0, <4>1 DEF Fresh
        <5>2. PICK g \in FileId : DeleteStored(r, g)
          BY <3>3, <4>0, <4>1, DoesItsStep DEF DeleteFolderRow, bucket
        <5>3. g = f
          BY <3>3, <5>2 DEF DeleteStored
        <5>4. Takes(r, f)'
          BY <5>1, <5>2, <5>3, StoredMoves DEF Takes, At
        <5> QED BY <5>4 DEF TakenFrom
      <4>2. CASE At(r, "deleteObject") /\ f = req[r].file
        <5>1. DeleteObject(r)
          BY <4>0, <4>2, DoesItsStep
        <5>2. Takes(r, f)'
          BY ZenonT(30), <1>0, <4>2, <5>1, GoMoves DEF DeleteObject, Takes
        <5> QED BY <5>2 DEF TakenFrom
      <4>3. CASE f = req'[r].file /\ req'[r].step \in {"purgeThumb", "purgeRow"}
        BY <4>3 DEF Takes, TakenFrom
      <4> QED BY <1>0, <3>3, <4>1, <4>2, <4>3 DEF BucketFates
    <3>4. ASSUME NEW q \in Request, q # r, Takes(q, f)
          PROVE  TakenFrom(f)'
      <4>1. Takes(q, f)'
        BY <1>0, <3>4 DEF Takes, At
      <4> QED BY <4>1 DEF TakenFrom
    <3>5. TornBy({"deleteFile", "deleteFolder", "purge"}, f) => TakenFrom(f)'
      BY <1>0 DEF TornBy, TakenFrom
    <3>6. f \in objects \/ TakenFrom(f)
      BY <3>1 DEF ObjectInv
    <3> QED BY <3>2, <3>3, <3>4, <3>5, <3>6, TakesOn DEF TakenFrom
  <2> QED BY <2>1, <2>2
<1> QED BY <1>1 DEF ObjectInv

\* A finished file out of the Bin has its object: it is marked complete
\* after MinIO has stitched it, and its object goes only from the Bin, for
\* good (files.ts:186-194, 394-400, folders.ts:185-201), whatever overlaps
\* and whatever fails, until the file is taken out of the Bin under the
\* handler deleting it, or that handler stops after the object.
THEOREM DownloadsKeepWorking == ReqSpec => []DownloadsKept
<1> DEFINE Inv == Overtaken({"subtree"}) \/ ObjectInv
<1>1. ReqInit => Inv
  <2> SUFFICES ASSUME ReqInit PROVE ObjectInv
    OBVIOUS
  <2>1. DOMAIN files = {}
    BY DEF ReqInit, Init
  <2> QED BY <2>1 DEF ObjectInv, Whole
<1>2. HandlerInv /\ ListedInv /\ Inv /\ [ReqNext]_reqVars => Inv'
  <2> SUFFICES ASSUME HandlerInv, ListedInv, Inv, [ReqNext]_reqVars
               PROVE  Inv'
    OBVIOUS
  <2>1. CASE UNCHANGED reqVars
    BY <2>1, HandlerStutters DEF ObjectInv, Whole, TakenFrom, Takes, TornBy, Overtaken, At
  <2>2. CASE \E r \in Request : StepOf(r)
    <3>1. Overtaken({"subtree"}) => Overtaken({"subtree"})'
      BY <2>2, HistoriesGrow DEF Overtaken
    <3>2. CASE ~Overtaken({"subtree"})
      BY <2>2, <3>2, ObjectStep DEF ListedInv
    <3> QED BY <3>1, <3>2
  <2> QED BY <2>1, <2>2 DEF ReqNext, StepOf
<1>3. HandlerInv /\ BinInv /\ DoomedInv /\ ListedInv /\ Inv => DownloadsKept
  <2> SUFFICES ASSUME HandlerInv, BinInv, DoomedInv, ListedInv, Inv, ~Overtaken(BinReads \cup {"doomed"}),
                      NEW f \in DOMAIN files, LiveFile(f), files[f].status = "complete"
               PROVE  f \in objects \/ TornBy({"deleteFile", "deleteFolder", "purge"}, f)
    BY DEF DownloadsKept
  <2>1. f \in FileId /\ Whole(f) /\ TypeOK
    BY DEF HandlerInv, ReqTypeOK, TypeOK, Whole
  <2>2. /\ ObjectInv /\ BinOrder
        /\ \A q \in Request : DoomedStands(q) /\ SubtreeStands(q)
    BY DEF BinInv, BinWhole, DoomedInv, ListedInv, Overtaken, BinReads
  <2>3. ASSUME NEW q \in Request, Takes(q, f)
        PROVE  FALSE
    <3>1. CASE req[q].step \in {"deleteThumb", "deleteRow", "purgeThumb", "purgeRow"} /\ req[q].file = f
      BY <2>2, <3>1 DEF DoomedStands, InHand, OldFiles, TrashedFile, LiveFile, At
    <3>2. CASE At(q, "deleteStored") /\ f \in req[q].rows
      <4>1. f \in FilesUnder(SubtreeIds(req[q].folder))
        BY <2>2, <3>2 DEF SubtreeStands
      <4>2. req[q].folder \in DOMAIN folders /\ SubtreeIds(req[q].folder) = Subtree(req[q].folder)
        BY <4>1 DEF FilesUnder, SubtreeIds
      <4>3. TrashedFolder(req[q].folder)
        BY <2>2, <3>2, <4>2 DEF DoomedStands, DoomedSteps, At
      <4>4. TrashedFile(f)
        BY <2>1, <2>2, <4>1, <4>2, <4>3, TrashedUnder
      <4> QED BY <4>4 DEF TrashedFile, LiveFile
    <3> QED BY <2>3, <3>1, <3>2 DEF Takes
  <2> QED BY <2>1, <2>2, <2>3 DEF ObjectInv, TakenFrom
<1> QED BY <1>1, <1>2, <1>3, HandlersKeepTypes, BinHolds, DoomedHolds, ListedHolds, PTL DEF ReqSpec

\* Both at once: whatever overlaps and whatever fails, what a download or a
\* thumbnail of a live row is served from (files.ts:198-241) is there as
\* long as the two theorems above say.
THEOREM LiveFilesAreServed == ReqSpec => []ServedKept
<1>1. DownloadsKept /\ ThumbnailsKept => ServedKept
  BY DEF ServedKept
<1> QED BY <1>1, DownloadsKeepWorking, ThumbnailsStayServed, PTL

-----------------------------------------------------------------------------
(* Unfinished uploads.                                                     *)

\* An unfinished upload is open in MinIO, or a request that has closed it is
\* about to mark its row complete or to remove it, or has stopped there.
UploadTakers  == {"initiateUpload", "completeUpload", "deleteFile", "deleteFolder", "cleanup"}
Closing(r, f) == \/ req[r].step \in {"markComplete", "deleteRow", "cleanupRow"} /\ req[r].file = f
                 \/ At(r, "deleteStored") /\ f \in req[r].rows \ req[r].left
Closed(f)     == (\E r \in Request : Closing(r, f)) \/ TornBy(UploadTakers, f)
PendingInv    == \A f \in DOMAIN files : files[f].status = "pending" => f \in uploads \/ Closed(f)

\* The row is inserted while its upload is open; the handler that then
\* aborts it has inserted none, or has lost the answer.
OpeningInv == \A r \in Request :
  /\ At(r, "insertFile") => req[r].file \in uploads
  /\ At(r, "abortUpload") => req[r].file \notin DOMAIN files \/ <<"initiateUpload", req[r].file>> \in torn

LEMMA OpeningStep ==
  ASSUME HandlerInv, OpeningInv, NEW r \in Request, StepOf(r)
  PROVE  OpeningInv'
<1>0. /\ \A q \in Request \ {r} : req'[q] = req[q]
      /\ Arrived(r) /\ BucketFates(r) /\ torn \subseteq torn'
      /\ \A q \in Request : Fresh(q) /\ Doing(q)
  BY Others, HistoriesGrow DEF Fates
<1>1. ASSUME NEW q \in Request, q # r, At(q, "insertFile")'
      PROVE  req'[q].file \in uploads'
  <2>1. req'[q] = req[q] /\ req[q].file \in uploads /\ req[q].step \in OpeningSteps
    BY <1>0, <1>1 DEF OpeningInv, OpeningSteps, At
  <2>2. ~KnowsFile(r, req[q].file)
    BY <1>0, <1>1, <2>1 DEF Fresh
  <2> QED BY <1>0, <2>1, <2>2 DEF BucketFates, KnowsFile, Fresh
<1>2. ASSUME NEW q \in Request, q # r, At(q, "abortUpload")'
      PROVE  req'[q].file \notin DOMAIN files' \/ <<"initiateUpload", req'[q].file>> \in torn'
  <2>1. req'[q] = req[q] /\ At(q, "abortUpload")
    BY <1>0, <1>2 DEF At
  <2>2. req[q].file \in DOMAIN files' => req[q].file \in DOMAIN files
    BY <1>2, KnownIsOld DEF KnowsFile
  <2> QED BY <1>0, <2>1, <2>2 DEF OpeningInv
<1>3. At(r, "insertFile")' => req'[r].file \in uploads'
  BY <1>0 DEF Arrived, ArrivedUpload, From, Kept, CreateUpload
<1>4. ASSUME At(r, "abortUpload")'
      PROVE  req'[r].file \notin DOMAIN files' \/ <<"initiateUpload", req'[r].file>> \in torn'
  <2>1. At(r, "insertFile") /\ req'[r].file = req[r].file
    BY <1>0, <1>4 DEF Arrived, ArrivedUpload, From, Kept
  <2>2. req[r].op = "initiateUpload" /\ req[r].file \notin DOMAIN files
    BY <1>0, <2>1 DEF Doing, Fresh, UploadSteps, OpeningSteps, At
  <2> QED BY <1>0, <1>4, <2>1, <2>2 DEF Arrived, ArrivedUpload, Inserted, vars
<1> QED BY <1>1, <1>2, <1>3, <1>4 DEF OpeningInv

\* What a handler has closed ends with its row, or the handler stops.
LEMMA ClosesOn ==
  ASSUME HandlerInv, NEW r \in Request, SubtreeStands(r), StepOf(r), NEW f \in DOMAIN files \cap DOMAIN files',
         files'[f].status = "pending", Closing(r, f)
  PROVE  Closed(f)'
<1>1. CASE Dies(r)
  BY <1>1, DyingIsTorn DEF Closed, TornBy, UploadTakers, Closing, At
<1>2. CASE ~Dies(r) /\ req[r].step = "markComplete" /\ req[r].file = f
  <2>1. MarkComplete(r)
    BY <1>2, DoesItsStep DEF At
  <2>2. files'[f] = [files[f] EXCEPT !.status = "complete"] /\ files[f] \in FileRow
    BY <1>2, <2>1, Columns DEF MarkComplete, UpdateRow, HandlerInv, ReqTypeOK
  <2> QED BY <2>2 DEF FileRow
<1>3. CASE ~Dies(r) /\ req[r].step \in {"deleteRow", "cleanupRow"} /\ req[r].file = f
  BY <1>3, DoesItsStep DEF DeleteRow, CleanupRow, WithoutRows, At
<1>4. CASE ~Dies(r) /\ req[r].step = "deleteStored" /\ f \in req[r].rows \ req[r].left
  <2>1. f \in FilesUnder(SubtreeIds(req[r].folder))
    BY <1>4 DEF SubtreeStands, At
  <2>2. ~DeleteFolderRow(r)
    BY <2>1 DEF DeleteFolderRow, WithoutRows
  <2>3. PICK g \in FileId : DeleteStored(r, g)
    BY <1>4, <2>2, DoesItsStep DEF At
  <2>4. Closing(r, f)'
    BY <1>4, <2>3, StoredMoves DEF Closing, At
  <2> QED BY <2>4 DEF Closed
<1> QED BY <1>1, <1>2, <1>3, <1>4 DEF Closing, At

LEMMA PendingStep ==
  ASSUME HandlerInv, OpeningInv, PendingInv, NEW r \in Request, SubtreeStands(r), StepOf(r)
  PROVE  PendingInv'
<1>0. /\ \A q \in Request \ {r} : req'[q] = req[q]
      /\ Arrived(r) /\ FileFates(r) /\ BucketFates(r) /\ ReqTypeOK /\ torn \subseteq torn'
      /\ \A q \in Request : Doing(q) /\ Fresh(q)
  BY Others, HistoriesGrow DEF Fates, HandlerInv
<1>1. ASSUME NEW f \in DOMAIN files', files'[f].status = "pending"
      PROVE  f \in uploads' \/ Closed(f)'
  <2>1. CASE f \notin DOMAIN files
    <3>1. At(r, "insertFile") /\ f = req[r].file /\ f \in uploads
      BY <1>0, <1>1, <2>1 DEF FileFates, OpeningInv
    <3> QED BY <1>0, <3>1 DEF BucketFates, At
  <2>2. CASE f \in DOMAIN files
    <3>1. files[f].status = "pending"
      BY <1>0, <1>1, <2>2 DEF FileFates
    <3>2. CASE f \in uploads /\ f \notin uploads'
      <4>0. ~Dies(r)
        BY <3>2 DEF Dies, vars
      <4>1. CASE At(r, "stitch") /\ At(r, "markComplete")' /\ f = req[r].file
        BY <1>0, <4>1 DEF Arrived, ArrivedUpload, From, Kept, Closing, Closed, At
      <4>2. CASE req[r].step = "abortUpload" /\ f = req[r].file
        BY <1>0, <2>2, <4>2 DEF OpeningInv, At, Closed, TornBy, UploadTakers
      <4>3. CASE req[r].step = "abortPending" /\ f = req[r].file
        <5>1. AbortPending(r)
          BY <4>0, <4>3, DoesItsStep DEF At
        <5>2. Closing(r, f)'
          BY ZenonT(30), <1>0, <4>3, <5>1, GoMoves DEF AbortPending, Closing
        <5> QED BY <5>2 DEF Closed
      <4>4. CASE At(r, "deleteStored") /\ f \in req[r].left
        <5>1. f \in req[r].rows
          BY <1>0, <4>4 DEF Fresh
        <5>2. PICK g \in FileId : DeleteStored(r, g)
          BY <3>2, <4>0, <4>4, DoesItsStep DEF DeleteFolderRow, bucket
        <5>3. g = f
          BY <3>2, <5>2 DEF DeleteStored
        <5>4. Closing(r, f)'
          BY <5>1, <5>2, <5>3, StoredMoves DEF Closing, At
        <5> QED BY <5>4 DEF Closed
      <4>5. CASE f = req'[r].file /\ At(r, "cleanupRow")'
        BY <4>5 DEF Closing, Closed, At
      <4> QED BY <1>0, <3>2, <4>1, <4>2, <4>3, <4>4, <4>5 DEF BucketFates
    <3>3. ASSUME NEW q \in Request, q # r, Closing(q, f)
          PROVE  Closed(f)'
      <4>1. Closing(q, f)'
        BY <1>0, <3>3 DEF Closing, At
      <4> QED BY <4>1 DEF Closed
    <3>4. Closing(r, f) => Closed(f)'
      BY <1>1, <2>2, ClosesOn
    <3>5. TornBy(UploadTakers, f) => Closed(f)'
      BY <1>0 DEF TornBy, Closed
    <3>6. f \in uploads \/ Closed(f)
      BY <2>2, <3>1 DEF PendingInv
    <3> QED BY <3>2, <3>3, <3>4, <3>5, <3>6 DEF Closed
  <2> QED BY <2>1, <2>2
<1> QED BY <1>1 DEF PendingInv

\* An unfinished upload nobody is working on can be resumed: the upload is
\* opened before the row is written, and closed last but for the row
\* (files.ts:71-84, 139-153, 366-388, folders.ts:185-201, cleanup), whatever
\* overlaps and whatever fails, until a file moves out of a folder that is
\* being deleted, or a handler stops between MinIO and the row.
THEOREM UploadsStayOpen == ReqSpec => []UploadsKept
<1> DEFINE Inv == OpeningInv /\ (Overtaken({"subtree"}) \/ PendingInv)
<1>1. ReqInit => Inv
  <2> SUFFICES ASSUME ReqInit PROVE OpeningInv /\ PendingInv
    OBVIOUS
  <2>1. DOMAIN files = {} /\ \A r \in Request : req[r].step = "idle"
    BY DEF ReqInit, Init, Idle
  <2> QED BY <2>1 DEF OpeningInv, PendingInv, At
<1>2. HandlerInv /\ ListedInv /\ Inv /\ [ReqNext]_reqVars => Inv'
  <2> SUFFICES ASSUME HandlerInv, ListedInv, Inv, [ReqNext]_reqVars
               PROVE  Inv'
    OBVIOUS
  <2>1. CASE UNCHANGED reqVars
    BY <2>1, HandlerStutters DEF OpeningInv, PendingInv, Closed, Closing, TornBy, Overtaken, At
  <2>2. CASE \E r \in Request : StepOf(r)
    <3>1. Overtaken({"subtree"}) => Overtaken({"subtree"})'
      BY <2>2, HistoriesGrow DEF Overtaken
    <3>2. OpeningInv'
      BY <2>2, OpeningStep
    <3>3. CASE ~Overtaken({"subtree"})
      BY <2>2, <3>2, <3>3, PendingStep DEF ListedInv
    <3> QED BY <3>1, <3>2, <3>3
  <2> QED BY <2>1, <2>2 DEF ReqNext, StepOf
<1>3. Inv => UploadsKept
  BY DEF PendingInv, UploadsKept, AtRest, Closed, Closing, UploadTakers
<1> QED BY <1>1, <1>2, <1>3, HandlersKeepTypes, ListedHolds, PTL DEF ReqSpec

-----------------------------------------------------------------------------
(* No object without a row.                                                *)

\* An unfinished file with an object is about to be marked complete, or the
\* completion has stopped there.
PendingBare == \A f \in objects \cap DOMAIN files : files[f].status = "pending" =>
                  \/ \E r \in Request : At(r, "markComplete") /\ req[r].file = f
                  \/ TornBy({"completeUpload"}, f)

LEMMA PendingBareStep ==
  ASSUME HandlerInv, PendingBare, NEW r \in Request, StepOf(r)
  PROVE  PendingBare'
<1>0. /\ \A q \in Request \ {r} : req'[q] = req[q]
      /\ Arrived(r) /\ FileFates(r) /\ BucketFates(r) /\ Fresh(r) /\ TypeOK /\ torn \subseteq torn'
  BY Others, HistoriesGrow DEF Fates
<1>1. ASSUME NEW f \in objects', f \in DOMAIN files', files'[f].status = "pending"
      PROVE  \/ \E q \in Request : At(q, "markComplete")' /\ req'[q].file = f
             \/ TornBy({"completeUpload"}, f)'
  <2>1. CASE f \notin objects
    BY <1>0, <1>1, <2>1 DEF BucketFates, Arrived, ArrivedUpload, From, Kept
  <2>2. CASE f \in objects
    <3>1. f \in DOMAIN files /\ files[f].status = "pending"
      BY <1>0, <1>1, <2>2 DEF FileFates, Fresh, OpeningSteps, At
    <3>2. CASE TornBy({"completeUpload"}, f)
      BY <1>0, <3>2 DEF TornBy
    <3>3. ASSUME NEW q \in Request, q # r, At(q, "markComplete"), req[q].file = f
          PROVE  At(q, "markComplete")' /\ req'[q].file = f
      BY <1>0, <3>3 DEF At
    <3>4. ASSUME At(r, "markComplete"), req[r].file = f
          PROVE  TornBy({"completeUpload"}, f)'
      <4>1. CASE MarkComplete(r)
        <5>1. files'[f] = [files[f] EXCEPT !.status = "complete"] /\ files[f] \in FileRow
          BY <1>0, <3>1, <3>4, <4>1, Columns DEF MarkComplete, UpdateRow
        <5> QED BY <1>1, <5>1 DEF FileRow
      <4>2. CASE Dies(r)
        BY <3>4, <4>2, DyingIsTorn DEF TornBy
      <4> QED BY <3>4, <4>1, <4>2, DoesItsStep
    <3> QED BY <2>2, <3>1, <3>2, <3>3, <3>4 DEF PendingBare
  <2> QED BY <2>1, <2>2
<1> QED BY <1>1 DEF PendingBare

\* What deletes for good rests on.
Steady == BinOrder /\ \A q \in Request : SubtreeStands(q) /\ DoomedStands(q)

\* A delete or a script reaches a finished row when its object is gone.
Bare(r) ==
  /\ req[r].step \in {"deleteThumb", "deleteRow"} /\ req[r].file \in objects \cap DOMAIN files =>
       files[req[r].file].status = "pending"
  /\ req[r].step \in {"purgeThumb", "purgeRow"} /\ req[r].file \in objects \cap DOMAIN files =>
       req[r].file \in skipped
  /\ At(r, "deleteStored") => \A f \in req[r].rows \cap objects \cap DOMAIN files :
       files[f].status = "pending" \/ f \in req[r].left \cap req[r].marked

\* What the loops take is in the Bin.
LEMMA StoredIsTrashed ==
  ASSUME HandlerInv, Steady, NEW r \in Request, At(r, "deleteStored"), NEW f \in req[r].rows \cap DOMAIN files
  PROVE  TrashedFile(f)
<1>1. TypeOK /\ BinOrder /\ f \in FilesUnder(SubtreeIds(req[r].folder))
  BY DEF HandlerInv, ReqTypeOK, Steady, SubtreeStands
<1>2. req[r].folder \in DOMAIN folders /\ SubtreeIds(req[r].folder) = Subtree(req[r].folder)
  BY <1>1 DEF FilesUnder, SubtreeIds
<1>3. TrashedFolder(req[r].folder)
  BY <1>2 DEF Steady, DoomedStands, DoomedSteps, At
<1> QED BY <1>1, <1>2, <1>3, TrashedUnder

\* The purge is done with the files before it takes the folders: what their
\* cascade would take is not there.
LEMMA PurgeTakesNoFile ==
  ASSUME HandlerInv, Steady, NEW r \in Request, At(r, "purgeFolders"), NEW e \in req[r].ids
  PROVE  FilesUnder(SubtreeIds(e)) = {}
<1>1. /\ TypeOK /\ ReqTypeOK /\ BinOrder
      /\ OldFiles(req[r].cutoff) = {} /\ req[r].ids \cap DOMAIN folders = OldFolders(req[r].cutoff)
  BY DEF HandlerInv, ReqTypeOK, Steady, DoomedStands
<1>2. SUFFICES ASSUME NEW f \in FilesUnder(SubtreeIds(e)) PROVE FALSE
  OBVIOUS
<1>3. e \in DOMAIN folders /\ SubtreeIds(e) = Subtree(e)
  BY <1>2 DEF FilesUnder, SubtreeIds
<1>4. TrashedFolder(e) /\ folders[e].deletedAt < req[r].cutoff
  BY <1>1, <1>3 DEF OldFolders
<1>5. f \in DOMAIN files /\ TrashedFile(f) /\ files[f].deletedAt <= folders[e].deletedAt
  BY <1>1, <1>2, <1>3, <1>4, TrashedUnder DEF FilesUnder
<1>6. files[f].deletedAt \in Nat /\ folders[e].deletedAt \in Nat /\ req[r].cutoff \in Nat
  BY <1>1, <1>3, <1>5, Locals, MaxClockAssumption DEF TypeOK, FileRow, FolderRow, Time, LocalRow
<1> QED BY <1>1, <1>4, <1>5, <1>6 DEF OldFiles

LEMMA OwnUploadStands ==
  ASSUME HandlerInv, NEW r \in Request, UploadStands(r), StepOf(r)
  PROVE  UploadStands(r)'
<1>0. Arrived(r)
  BY Others
<1>1. CASE At(r, "stitch")'
  BY <1>0, <1>1 DEF Arrived, ArrivedUpload, Starts, vars, LiveFile, UploadStands
<1>2. CASE At(r, "markComplete")'
  BY <1>0, <1>2 DEF Arrived, ArrivedUpload, From, Kept, Stitch, tree, LiveFile, UploadStands, CompleteSteps, At
<1> QED BY <1>1, <1>2 DEF UploadStands, CompleteSteps, At

\* Nothing is stitched, or marked complete, in the Bin.
LEMMA TrashedStays ==
  ASSUME HandlerInv, NEW r \in Request, UploadStands(r), StepOf(r), NEW f \in DOMAIN files', TrashedFile(f)
  PROVE  /\ files'[f].status = files[f].status
         /\ f \in objects' => f \in objects
<1>1. FileFates(r) /\ BucketFates(r)
  BY Others DEF Fates
<1>2. ~(req[r].step \in CompleteSteps /\ f = req[r].file)
  BY DEF UploadStands, LiveFile, TrashedFile
<1> QED BY <1>1, <1>2 DEF FileFates, BucketFates, TrashedFile, CompleteSteps, At

LEMMA BareStep ==
  ASSUME HandlerInv, Steady, Steady', NEW r \in Request, StepOf(r), UploadStands(r), NEW q \in Request, Bare(q)
  PROVE  Bare(q)'
<1>0. /\ \A x \in Request \ {r} : req'[x] = req[x]
      /\ Arrived(r) /\ FileFates(r) /\ BucketFates(r) /\ ReqTypeOK /\ skipped \subseteq skipped'
      /\ DoomedStands(q) /\ DoomedStands(q)'
  BY Others, HistoriesGrow DEF Fates, HandlerInv, Steady
<1> USE DEF At
<1>1. CASE q # r
  <2>0. req'[q] = req[q] /\ \A f \in DOMAIN files' : KnowsFile(q, f) => f \in DOMAIN files
    BY <1>0, <1>1, KnownIsOld
  <2>1. ASSUME req[q].step \in {"deleteThumb", "deleteRow"}, NEW f, f = req[q].file, f \in objects', f \in DOMAIN files'
        PROVE  files'[f].status = "pending"
    <3>1. f \in DOMAIN files
      BY <2>0, <2>1 DEF KnowsFile
    <3>2. CASE TrashedFile(f)
      BY <2>1, <3>1, <3>2, TrashedStays DEF Bare
    <3>3. CASE ~TrashedFile(f)
      <4>1. files[f].status = "pending" /\ req[q].step = "deleteRow"
        BY <1>0, <2>1, <3>1, <3>3 DEF DoomedStands
      <4>2. TrashedFile(f)' \/ files'[f].status = "pending"
        BY <1>0, <2>0, <2>1, <4>1 DEF DoomedStands, TrashedFile
      <4>3. files'[f].status # "pending" => ~TrashedFile(f)'
        BY <1>0, <2>1, <3>1, <3>3, <4>1 DEF FileFates, TrashedFile
      <4> QED BY <4>2, <4>3
    <3> QED BY <3>2, <3>3
  <2>2. ASSUME req[q].step \in {"purgeThumb", "purgeRow"}, NEW f, f = req[q].file, f \in objects', f \in DOMAIN files'
        PROVE  f \in skipped'
    <3>1. f \in DOMAIN files
      BY <2>0, <2>2 DEF KnowsFile
    <3>2. TrashedFile(f)
      BY <1>0, <2>2, <3>1 DEF DoomedStands, InHand, OldFiles
    <3> QED BY <1>0, <2>2, <3>1, <3>2, TrashedStays DEF Bare
  <2>3. ASSUME req[q].step = "deleteStored", NEW f \in req[q].rows, f \in objects', f \in DOMAIN files'
        PROVE  files'[f].status = "pending" \/ f \in req[q].left \cap req[q].marked
    <3>1. f \in DOMAIN files
      BY <2>0, <2>3 DEF KnowsFile
    <3>2. TrashedFile(f)
      BY <2>3, <3>1, StoredIsTrashed
    <3> QED BY <2>3, <3>1, <3>2, TrashedStays DEF Bare
  <2> QED BY <2>0, <2>1, <2>2, <2>3 DEF Bare
<1>2. CASE q = r
  <2>1. ASSUME req'[r].step \in {"deleteThumb", "deleteRow"}, NEW f, f = req'[r].file, f \in objects', f \in DOMAIN files'
        PROVE  files'[f].status = "pending"
    <3>1. /\ f = req[r].file /\ UNCHANGED files
          /\ req[r].step = "abortPending" \/ (req[r].step = "deleteThumb" /\ UNCHANGED objects)
      BY <1>0, <2>1 DEF Arrived, ArrivedFile, From, Kept, AbortPending, DeleteObject, DeleteThumb, tree, vars
    <3> QED BY <1>0, <1>2, <2>1, <3>1 DEF DoomedStands, Bare
  <2>2. ASSUME req'[r].step \in {"purgeThumb", "purgeRow"}, NEW f, f = req'[r].file, f \in objects', f \in DOMAIN files'
        PROVE  f \in skipped'
    <3>1. CASE PurgeObject(r, f) \/ Skipping(r)
      BY <2>2, <3>1 DEF PurgeObject, Skipping
    <3>2. CASE From(r, "purgeThumb") /\ (PurgeThumb(r) \/ UNCHANGED vars)
      BY <1>0, <1>2, <2>2, <3>2 DEF From, Kept, PurgeThumb, tree, vars, Bare
    <3> QED BY <1>0, <2>2, <3>1, <3>2 DEF Arrived, ArrivedScript
  <2>3. ASSUME req'[r].step = "deleteStored", NEW f \in req'[r].rows, f \in objects', f \in DOMAIN files'
        PROVE  files'[f].status = "pending" \/ f \in req'[r].left \cap req'[r].marked
    <3>1. CASE req[r].step = "readDoomed"
      <4>1. /\ UNCHANGED files /\ req'[r].left = req'[r].rows
            /\ req'[r].marked = {g \in req'[r].rows : files[g].status = "complete"}
        BY <1>0, <2>3, <3>1 DEF Arrived, ArrivedTree, DeleteStored, vars
      <4> QED BY <1>0, <2>3, <4>1, Columns DEF FileRow, ReqTypeOK
    <3>2. CASE req[r].step # "readDoomed"
      <4>1. PICK g \in FileId : /\ DeleteStored(r, g) /\ req'[r].left = req[r].left \ {g}
                                /\ req'[r].rows = req[r].rows /\ req'[r].marked = req[r].marked
        BY <1>0, <2>3, <3>2 DEF Arrived, ArrivedTree
      <4>2. /\ UNCHANGED files /\ req[r].step = "deleteStored"
            /\ objects' = objects \ (IF g \in req[r].marked THEN {g} ELSE {})
        BY <4>1 DEF DeleteStored, tree
      <4> QED BY <1>2, <2>3, <4>1, <4>2 DEF Bare
    <3> QED BY <3>1, <3>2
  <2> QED BY <1>2, <2>1, <2>2, <2>3 DEF Bare
<1> QED BY <1>1, <1>2

HaveRows == \A f \in objects : f \in DOMAIN files \cup skipped \/ TornBy({"completeUpload"}, f)

LEMMA RowsStep ==
  ASSUME HandlerInv, Steady, PendingBare, HaveRows, NEW r \in Request, StepOf(r),
         UploadStands(r), Bare(r), \A q \in Request : UploadStands(q)'
  PROVE  HaveRows'
<1>0. /\ FileFates(r) /\ BucketFates(r) /\ skipped \subseteq skipped' /\ torn \subseteq torn'
      /\ \A q \in Request \ {r} : req'[q] = req[q]
      /\ DoomedStands(r) /\ SubtreeStands(r)
  BY Others, HistoriesGrow DEF Fates, Steady
<1> USE DEF At
<1>1. SUFFICES ASSUME NEW f \in objects', f \notin skipped', ~TornBy({"completeUpload"}, f)' PROVE f \in DOMAIN files'
  BY DEF HaveRows
<1>2. f \notin skipped /\ ~TornBy({"completeUpload"}, f)
  BY <1>0, <1>1 DEF TornBy
<1>3. CASE f \notin objects
  <2>1. req[r].step = "stitch" /\ f \in DOMAIN files
    BY <1>0, <1>1, <1>3 DEF BucketFates, UploadStands, CompleteSteps, LiveFile
  <2> QED BY <1>0, <2>1 DEF FileFates
<1>4. CASE f \in objects
  <2>1. f \in DOMAIN files
    BY <1>2, <1>4 DEF HaveRows
  <2>2. SUFFICES ASSUME f \notin DOMAIN files' PROVE FALSE
    OBVIOUS
  <2>3. ASSUME files[f].status = "pending", req[r].step # "markComplete"
        PROVE  FALSE
    <3>1. PICK q \in Request : req[q].step = "markComplete" /\ req[q].file = f
      BY <1>2, <1>4, <2>1, <2>3 DEF PendingBare
    <3>2. req'[q].step = "markComplete" /\ req'[q].file = f
      BY <1>0, <2>3, <3>1
    <3> QED BY <2>2, <3>2 DEF UploadStands, CompleteSteps, LiveFile
  <2>4. CASE req[r].step \in {"deleteRow", "cleanupRow", "purgeRow"} /\ f = req[r].file
    <3>1. req[r].step # "purgeRow" => files[f].status = "pending"
      BY <1>0, <1>4, <2>1, <2>4 DEF Bare, DoomedStands, InHand, CleanupSteps
    <3>2. req[r].step # "purgeRow"
      BY <1>2, <1>4, <2>1, <2>4 DEF Bare
    <3> QED BY <2>3, <2>4, <3>1, <3>2
  <2>5. CASE req[r].step = "deleteStored" /\ req[r].left = {} /\ files[f].folder \in SubtreeIds(req[r].folder)
    <3>1. f \in req[r].rows
      BY <1>0, <2>1, <2>5 DEF SubtreeStands, FilesUnder
    <3>2. files[f].status = "pending"
      BY <1>4, <2>1, <2>5, <3>1 DEF Bare
    <3> QED BY <2>3, <2>5, <3>2
  <2>6. CASE req[r].step = "purgeFolders" /\ \E e \in req[r].ids : files[f].folder \in SubtreeIds(e)
    BY <2>1, <2>6, PurgeTakesNoFile DEF FilesUnder
  <2> QED BY <1>0, <2>1, <2>2, <2>4, <2>5, <2>6 DEF FileFates
<1> QED BY <1>3, <1>4

\* Every object in the bucket has a row to delete it by (files.ts:394-400,
\* folders.ts:185-201): a delete or a script takes the object before the
\* row, so wherever it stops the row is still there, and what the purge
\* could not delete it has logged.  It holds whatever fails and overlaps,
\* until a read of a delete or of a completion, or the order of the Bin, is
\* overtaken, or a completion stops after MinIO has stitched the object.
THEOREM NoObjectIsOrphaned == ReqSpec => []ObjectsKept
<1> DEFINE W   == BinReads \cup {"doomed", "upload"}
           Inv == PendingBare /\ (Overtaken(W) \/ (HaveRows /\ \A q \in Request : UploadStands(q) /\ Bare(q)))
<1>1. ReqInit => Inv
  <2> SUFFICES ASSUME ReqInit PROVE PendingBare /\ HaveRows /\ \A q \in Request : UploadStands(q) /\ Bare(q)
    OBVIOUS
  <2>1. objects = {} /\ \A r \in Request : req[r].step = "idle"
    BY DEF ReqInit, Init, Idle
  <2> QED BY <2>1 DEF PendingBare, HaveRows, UploadStands, Bare, CompleteSteps, At
<1>2. BinInv /\ DoomedInv => Overtaken(W) \/ Steady
  BY DEF BinInv, BinWhole, BinStands, DoomedInv, Steady, Overtaken
<1>3. HandlerInv /\ BinInv /\ DoomedInv /\ BinInv' /\ DoomedInv' /\ Inv /\ [ReqNext]_reqVars => Inv'
  <2> SUFFICES ASSUME HandlerInv, BinInv, DoomedInv, BinInv', DoomedInv', Inv, [ReqNext]_reqVars
               PROVE  Inv'
    OBVIOUS
  <2>1. CASE UNCHANGED reqVars
    BY <2>1, HandlerStutters DEF PendingBare, HaveRows, UploadStands, Bare, LiveFile, TornBy, Overtaken, At
  <2>2. ASSUME NEW r \in Request, StepOf(r)
        PROVE  Inv'
    <3>1. PendingBare'
      BY <2>2, PendingBareStep
    <3>2. CASE Overtaken(W)'
      BY <3>1, <3>2
    <3>3. CASE ~Overtaken(W)'
      <4>1. ~Overtaken(W) /\ "upload" \notin overtaken'
        BY <2>2, <3>3, HistoriesGrow DEF Overtaken
      <4>2. Steady
        BY <1>2, <4>1
      <4>3. Steady'
        BY <3>3 DEF BinInv, BinWhole, BinStands, DoomedInv, Steady, Overtaken
      <4>4. HaveRows /\ \A q \in Request : UploadStands(q) /\ Bare(q)
        BY <4>1
      <4>5. \A q \in Request : UploadStands(q)'
        BY <2>2, <4>1, <4>4, OwnUploadStands, OthersStand, KindStands, KindStandsThen DEF Reads
      <4>6. \A q \in Request : Bare(q)'
        BY <2>2, <4>2, <4>3, <4>4, BareStep
      <4>7. HaveRows'
        BY <2>2, <4>2, <4>4, <4>5, RowsStep
      <4> QED BY <3>1, <4>5, <4>6, <4>7
    <3> QED BY <3>2, <3>3
  <2> QED BY <2>1, <2>2 DEF ReqNext, StepOf
<1>4. Inv => ObjectsKept
  BY DEF HaveRows, ObjectsKept
<1> QED BY <1>1, <1>3, <1>4, HandlersKeepTypes, BinHolds, DoomedHolds, PTL DEF ReqSpec
=============================================================================
