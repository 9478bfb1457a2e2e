--------------------------- MODULE DriveRequests ---------------------------
(***************************************************************************)
(* The handlers of DriveTree taken apart.  Each PostgreSQL or MinIO call a *)
(* handler awaits is a step of its own, and between two of them any other  *)
(* request, or a maintenance script, may take steps: what a handler has    *)
(* read may be stale when it acts on it.  A transaction is one step.       *)
(*                                                                         *)
(* A request is between two awaits; its `step' names the call it makes     *)
(* next.  It starts with its first read: one that finds nothing ends the   *)
(* request (404) and changes no state, so only those that find their row   *)
(* are steps.                                                              *)
(*                                                                         *)
(* The code serialises nothing, and it shows: each of the properties below *)
(* is lost to some overlap.  Two histories say when: `overtaken',          *)
(* what a request had read and another changed before it acted on it, and  *)
(* `torn', the files a handler left between the bucket and the table.      *)
(***************************************************************************)
EXTENDS DriveTree

CONSTANTS
  Request,  \* requests and script runs that may be in progress at once
  Ops,      \* the operations they may be
  Faults    \* the operations that may fail or die at an await

OpName == {"createFolder", "patchFolder", "deleteFolder", "restoreFolder",
           "initiateUpload", "completeUpload", "patchFile", "deleteFile",
           "restoreFile", "thumbnail", "cleanup", "purge"}

ASSUME OpsAssumption == Ops \subseteq OpName /\ Faults \subseteq OpName

Null == NoParent
ASSUME NullAssumption == Null \notin FileId

VARIABLES
  req,      \* the local variables of each request's handler
  failed,   \* history: a call has failed, or the process has died
  skipped,  \* history: the files a script could not abort or delete, and went on
  torn,     \* history: the files a failure left between bucket and table, by operation
  overtaken \* history: the kinds of reads another request has made stale

reqVars == <<vars, req, failed, skipped, torn, overtaken>>
tree    == <<folders, files, clock>>
bucket  == <<objects, thumbs, uploads>>

Idle == [op     |-> "none",
         step   |-> "idle",
         folder |-> Null,  \* id of the folder acted on
         dest   |-> Null,  \* its parent, or the file's folder, to be
         name   |-> Null,
         file   |-> Null,  \* id of the file acted on
         ids    |-> {},    \* result of getDescendantFolderIds; folders to purge
         rows   |-> {},    \* files a SELECT returned to loop over
         left   |-> {},    \* those of rows the loop has yet to reach
         marked |-> {},    \* those of rows, or the file, read as having ...
                           \* ... an object to delete (a thumbnail in purge and deleteFile)
         cutoff |-> 0,     \* of the purge
         stamp  |-> 0]     \* now() of an open transaction: the time of its BEGIN

Step == {"idle", "insertFolder", "readNewParent", "checkCycle", "updateFolder",
         "readSubtreeToTrash", "beginTrash", "trashTree", "readSubtreeToDelete", "readDoomed",
         "deleteStored", "readParent", "readSubtreeToRestore", "restoreTree",
         "createUpload", "insertFile", "abortUpload", "stitch", "markComplete",
         "readDest", "updateFile", "abortPending", "trashFile", "deleteObject",
         "deleteThumb", "deleteRow", "readHome", "restoreFileRow",
         "readSource", "putThumb", "markReady", "presignThumb", "markFailed",
         "cleanup", "cleanupRow", "purge", "purgeThumb", "purgeRow", "purgeFolders"}

PatchSteps    == {"readNewParent", "checkCycle", "updateFolder"}
TrashSteps    == {"readSubtreeToTrash", "beginTrash", "trashTree"}
DoomedSteps   == {"readSubtreeToDelete", "readDoomed", "deleteStored"}
RestoreSteps  == {"readParent", "readSubtreeToRestore", "restoreTree"}
CompleteSteps == {"stitch", "markComplete"}
ThumbSteps    == {"readSource", "putThumb", "markReady", "presignThumb", "markFailed"}
CleanupSteps  == {"cleanup", "cleanupRow"}

\* Those at which `dest' has been found out of the Bin.
LiveDests == {"insertFolder", "checkCycle", "updateFolder", "readSubtreeToRestore", "restoreTree",
              "createUpload", "insertFile", "updateFile", "restoreFileRow"}

\* The kinds of reads a handler acts on (Stands, below).
Reads == {"chain", "live", "subtree", "stamp", "doomed", "upload", "thumbnail"}

ReqTypeOK ==
  /\ TypeOK
  /\ req \in [Request -> [op     : OpName \cup {"none"},
                          step   : Step,
                          folder : FolderId \cup {Null},
                          dest   : FolderId \cup {Null},
                          name   : Name \cup {Null},
                          file   : FileId \cup {Null},
                          ids    : SUBSET FolderId,
                          rows   : SUBSET FileId,
                          left   : SUBSET FileId,
                          marked : SUBSET FileId,
                          cutoff : 0..MaxClock + 1,
                          stamp  : Time]]
  /\ failed \in BOOLEAN /\ skipped \subseteq FileId
  /\ torn \subseteq OpName \X FileId /\ overtaken \subseteq Reads

At(r, step)     == req[r].step = step
Begin(r, op, l) == /\ req[r] = Idle /\ op \in Ops
                   /\ req' = [req EXCEPT ![r] = [l EXCEPT !.op = op]]
Go(r, step)     == req' = [req EXCEPT ![r].step = step]
Done(r)         == req' = [req EXCEPT ![r] = Idle]

\* A UUID no row, no key and no request in progress knows.
FreshFolder(d) == /\ d \notin DOMAIN folders
                  /\ \A r \in Request : d \notin {req[r].folder, req[r].dest} \cup req[r].ids
FreshFile(f)   == /\ f \notin DOMAIN files \cup objects \cup thumbs \cup uploads
                  /\ \A r \in Request : f \notin {req[r].file} \cup req[r].rows

\* getDescendantFolderIds and isSameOrAncestor of an id that may be gone.
SubtreeIds(d) == IF d \in DOMAIN folders THEN Subtree(d) ELSE {}
InChain(d, candidate) == candidate \in DOMAIN folders /\ IsSameOrAncestor(d, candidate)

\* A write refused by a foreign key or a unique index changes nothing.
WriteFolders(t) ==
  folders' = IF /\ \A d \in DOMAIN t : t[d].parent \in DOMAIN t \cup {NoParent}
                /\ FolderNamesUnique(t)
             THEN t ELSE folders
WriteFiles(t) ==
  files' = IF (\A f \in DOMAIN t : t[f].folder \in DOMAIN folders) /\ FileNamesUnique(t)
           THEN t ELSE files

\* Trashings that have read a live row and drawn no time yet.  A request
\* starts one only while the clock has room for it: MaxClock bounds the
\* model, not the code.
Trashers == {r \in Request : req[r].step \in {"readSubtreeToTrash", "beginTrash", "trashFile"}}
RoomToTrash == clock + Cardinality(Trashers) < MaxClock

-----------------------------------------------------------------------------
(* routes/folders.ts                                                       *)

\* POST /folders.  (gen_random_uuid() is drawn by the INSERT; drawing it
\* with the first read changes nothing, nobody knows it in between.)
StartCreateFolder(r, d, p, n) ==
  /\ LiveFolder(p) /\ FreshFolder(d)
  /\ Begin(r, "createFolder",
           [Idle EXCEPT !.step = "insertFolder", !.folder = d, !.dest = p, !.name = n])
  /\ UNCHANGED vars

InsertFolder(r) ==
  /\ At(r, "insertFolder")
  /\ WriteFolders([x \in DOMAIN folders \cup {req[r].folder} |->
                     IF x = req[r].folder
                     THEN [parent |-> req[r].dest, name |-> req[r].name, deletedAt |-> NotDeleted]
                     ELSE folders[x]])
  /\ Done(r)
  /\ UNCHANGED <<files, clock, bucket>>

\* PATCH /folders/:id.  Without a parentId the row's own parent_id, as read
\* here, is written back; an absent name is the name read here.
StartPatchFolder(r, d, p, n) ==
  /\ LiveFolder(d) /\ d # Root
  /\ \/ /\ p = folders[d].parent
        /\ Begin(r, "patchFolder",
                 [Idle EXCEPT !.step = "updateFolder", !.folder = d, !.dest = p, !.name = n])
     \/ /\ p # d
        /\ Begin(r, "patchFolder",
                 [Idle EXCEPT !.step = "readNewParent", !.folder = d, !.dest = p, !.name = n])
  /\ UNCHANGED vars

ReadNewParent(r) ==
  /\ At(r, "readNewParent")
  /\ IF LiveFolder(req[r].dest) THEN Go(r, "checkCycle") ELSE Done(r)
  /\ UNCHANGED vars

CheckCycle(r) ==
  /\ At(r, "checkCycle")
  /\ IF InChain(req[r].folder, req[r].dest) THEN Done(r) ELSE Go(r, "updateFolder")
  /\ UNCHANGED vars

UpdateFolder(r) ==
  /\ At(r, "updateFolder")
  /\ LET d == req[r].folder IN
       WriteFolders([x \in DOMAIN folders |->
                       IF x = d THEN [folders[d] EXCEPT !.parent = req[r].dest, !.name = req[r].name]
                                ELSE folders[x]])
  /\ Done(r)
  /\ UNCHANGED <<files, clock, bucket>>

\* DELETE /folders/:id: whether it trashes or removes is decided here.
StartDeleteFolder(r, d) ==
  /\ d # Root
  /\ \/ /\ LiveFolder(d) /\ RoomToTrash
        /\ Begin(r, "deleteFolder", [Idle EXCEPT !.step = "readSubtreeToTrash", !.folder = d])
     \/ /\ TrashedFolder(d)
        /\ Begin(r, "deleteFolder", [Idle EXCEPT !.step = "readSubtreeToDelete", !.folder = d])
  /\ UNCHANGED vars

ReadSubtree(r) ==
  /\ \E next \in {<<"readSubtreeToTrash", "beginTrash">>,
                  <<"readSubtreeToDelete", "readDoomed">>,
                  <<"readSubtreeToRestore", "restoreTree">>} :
        /\ At(r, next[1])
        /\ req' = [req EXCEPT ![r].step = next[2], ![r].ids = SubtreeIds(req[r].folder)]
  /\ UNCHANGED vars

\* The files the cascades loop over or update: by the ids read before.
OwnFiles(r) == FilesUnder({req[r].folder}) \* mutant of Swept: not the subfolders'
Swept(r)    == FilesUnder(req[r].ids)

\* BEGIN: now() is this instant for as long as the transaction is open.
BeginTrash(r) ==
  /\ At(r, "beginTrash")
  /\ clock' = clock + 1
  /\ req' = [req EXCEPT ![r].step = "trashTree", ![r].stamp = clock']
  /\ UNCHANGED <<folders, files, bucket>>

\* The two UPDATEs and the COMMIT.  A row another has trashed since keeps
\* its own, later, time.
TrashTree(r) ==
  /\ At(r, "trashTree")
  /\ folders' = [x \in DOMAIN folders |->
                   IF x \in req[r].ids /\ LiveFolder(x)
                   THEN [folders[x] EXCEPT !.deletedAt = req[r].stamp] ELSE folders[x]]
  /\ files' = [f \in DOMAIN files |->
                 IF f \in Swept(r) /\ LiveFile(f)
                 THEN [files[f] EXCEPT !.deletedAt = req[r].stamp] ELSE files[f]]
  /\ Done(r)
  /\ UNCHANGED <<clock, bucket>>

ReadDoomed(r) ==
  /\ At(r, "readDoomed")
  /\ LET rows == Swept(r) IN
       req' = [req EXCEPT ![r].step = "deleteStored", ![r].rows = rows, ![r].left = rows,
                          ![r].marked = {f \in rows : files[f].status = "complete"}]
  /\ UNCHANGED vars

\* One round of the loop.  A NoSuchUpload of the abort is swallowed.
DeleteStored(r, f) ==
  /\ At(r, "deleteStored") /\ f \in req[r].left
  /\ IF f \in req[r].marked THEN objects' = objects \ {f} /\ uploads' = uploads
                            ELSE uploads' = uploads \ {f} /\ objects' = objects
  /\ req' = [req EXCEPT ![r].left = @ \ {f}]
  /\ UNCHANGED <<tree, thumbs>>

DeleteFolderRow(r) ==
  /\ At(r, "deleteStored") /\ req[r].left = {}
  /\ folders' = WithoutRows(folders, SubtreeIds(req[r].folder))
  /\ files' = WithoutRows(files, FilesUnder(SubtreeIds(req[r].folder)))
  /\ Done(r)
  /\ UNCHANGED <<clock, bucket>>

\* POST /folders/:id/restore.
StartRestoreFolder(r, d) ==
  /\ TrashedFolder(d)
  /\ Begin(r, "restoreFolder",
           [Idle EXCEPT !.step = "readParent", !.folder = d, !.dest = folders[d].parent])
  /\ UNCHANGED vars

ReadParentUnchecked(r) == \* mutant: the parent may be in the Bin
  At(r, "readParent") /\ Go(r, "readSubtreeToRestore") /\ UNCHANGED vars

ReadParent(r) ==
  /\ At(r, "readParent")
  /\ IF LiveFolder(req[r].dest) THEN Go(r, "readSubtreeToRestore") ELSE Done(r)
  /\ UNCHANGED vars

\* The transaction compares with the timestamp the row has now; a clash
\* rolls both UPDATEs back, and a folder no longer in the Bin matches none.
InBatch(r, row) == TrashedFolder(req[r].folder) /\ SameBatch(row, req[r].folder)
NoFiles(r)    == {} \* mutant of BatchFiles: folders first, so its subquery reads NULL
BatchFiles(r) == {f \in Swept(r) : InBatch(r, files[f])}

RestoreTree(r) ==
  /\ At(r, "restoreTree")
  /\ LET fo == [x \in DOMAIN folders |->
                  IF x \in req[r].ids /\ InBatch(r, folders[x])
                  THEN [folders[x] EXCEPT !.deletedAt = NotDeleted] ELSE folders[x]]
         fi == [f \in DOMAIN files |->
                  IF f \in BatchFiles(r)
                  THEN [files[f] EXCEPT !.deletedAt = NotDeleted] ELSE files[f]]
     IN IF FolderNamesUnique(fo) /\ FileNamesUnique(fi)
        THEN folders' = fo /\ files' = fi
        ELSE UNCHANGED <<folders, files>>
  /\ Done(r)
  /\ UNCHANGED <<clock, bucket>>

-----------------------------------------------------------------------------
(* routes/files.ts                                                         *)

\* POST /files/uploads.
StartInitiateUpload(r, f, d, n) ==
  /\ LiveFolder(d) /\ FreshFile(f)
  /\ Begin(r, "initiateUpload",
           [Idle EXCEPT !.step = "createUpload", !.file = f, !.dest = d, !.name = n])
  /\ UNCHANGED vars

CreateUpload(r) ==
  /\ At(r, "createUpload")
  /\ uploads' = uploads \cup {req[r].file}
  /\ Go(r, "insertFile")
  /\ UNCHANGED <<tree, objects, thumbs>>

AlwaysAborts(r) == FALSE \* mutant of Inserted: the abort in a finally
Inserted(r)     == req[r].file \in DOMAIN files'

InsertRow(r) ==
  /\ At(r, "insertFile")
  /\ LET f == req[r].file IN
       WriteFiles([x \in DOMAIN files \cup {f} |->
                     IF x = f THEN [folder |-> req[r].dest, name |-> req[r].name,
                                    status |-> "pending", thumbnail |-> "none",
                                    hasThumb |-> FALSE, deletedAt |-> NotDeleted]
                              ELSE files[x]])
  /\ UNCHANGED <<folders, clock, bucket>>

InsertFile(r) == InsertRow(r) /\ IF Inserted(r) THEN Done(r) ELSE Go(r, "abortUpload")

AbortUpload(r) ==
  /\ At(r, "abortUpload")
  /\ uploads' = uploads \ {req[r].file}
  /\ Done(r)
  /\ UNCHANGED <<tree, objects, thumbs>>

\* POST /files/uploads/:id/complete, the client's parts being all there.
StartCompleteUpload(r, f) ==
  /\ LiveFile(f) /\ files[f].status = "pending"
  /\ Begin(r, "completeUpload", [Idle EXCEPT !.step = "stitch", !.file = f])
  /\ UNCHANGED vars

Stitch(r) ==
  /\ At(r, "stitch")
  /\ IF req[r].file \in uploads
     THEN /\ uploads' = uploads \ {req[r].file}
          /\ objects' = objects \cup {req[r].file}
          /\ Go(r, "markComplete")
     ELSE Done(r) /\ UNCHANGED <<uploads, objects>> \* NoSuchUpload
  /\ UNCHANGED <<tree, thumbs>>

\* UPDATE files ... WHERE id = $1: a row that is gone is not an error there.
UpdateRow(f, row) == files' = IF f \in DOMAIN files THEN [files EXCEPT ![f] = row] ELSE files

MarkComplete(r) ==
  /\ At(r, "markComplete")
  /\ LET f == req[r].file IN UpdateRow(f, [files[f] EXCEPT !.status = "complete"])
  /\ Done(r)
  /\ UNCHANGED <<folders, clock, bucket>>

\* PATCH /files/:id.
StartPatchFile(r, f, d, n) ==
  /\ LiveFile(f)
  /\ Begin(r, "patchFile",
           [Idle EXCEPT !.file = f, !.dest = d, !.name = n,
                        !.step = IF d = files[f].folder THEN "updateFile" ELSE "readDest"])
  /\ UNCHANGED vars

ReadDest(r) ==
  /\ At(r, "readDest")
  /\ IF LiveFolder(req[r].dest) THEN Go(r, "updateFile") ELSE Done(r)
  /\ UNCHANGED vars

UpdateFileWhole(r) == \* mutant: the row is written back as it was read, out of the Bin
  /\ At(r, "updateFile")
  /\ LET f == req[r].file IN
       WriteFiles([x \in DOMAIN files |->
                     IF x = f THEN [files[f] EXCEPT !.folder = req[r].dest, !.name = req[r].name,
                                                    !.deletedAt = NotDeleted]
                              ELSE files[x]])
  /\ Done(r)
  /\ UNCHANGED <<folders, clock, bucket>>

UpdateFile(r) ==
  /\ At(r, "updateFile")
  /\ LET f == req[r].file IN
       WriteFiles([x \in DOMAIN files |->
                     IF x = f THEN [files[f] EXCEPT !.folder = req[r].dest, !.name = req[r].name]
                              ELSE files[x]])
  /\ Done(r)
  /\ UNCHANGED <<folders, clock, bucket>>

\* DELETE /files/:id: which of the three deletes it is, is decided here.
StartDeleteFile(r, f) ==
  /\ f \in DOMAIN files
  /\ LET start(step) == Begin(r, "deleteFile",
           [Idle EXCEPT !.step = step, !.file = f, !.marked = ThumbsNamed({f})])
     IN \/ files[f].status = "pending" /\ start("abortPending")
        \/ files[f].status = "complete" /\ LiveFile(f) /\ RoomToTrash /\ start("trashFile")
        \/ files[f].status = "complete" /\ TrashedFile(f) /\ start("deleteObject")
  /\ UNCHANGED vars

\* A NoSuchUpload is swallowed.
AbortPending(r) ==
  /\ At(r, "abortPending")
  /\ uploads' = uploads \ {req[r].file}
  /\ Go(r, "deleteRow")
  /\ UNCHANGED <<tree, objects, thumbs>>

TrashFileRow(r) ==
  /\ At(r, "trashFile")
  /\ clock' = clock + 1
  /\ LET f == req[r].file IN UpdateRow(f, [files[f] EXCEPT !.deletedAt = clock'])
  /\ Done(r)
  /\ UNCHANGED <<folders, bucket>>

DeleteObject(r) ==
  /\ At(r, "deleteObject")
  /\ objects' = objects \ {req[r].file}
  /\ Go(r, IF req[r].file \in req[r].marked THEN "deleteThumb" ELSE "deleteRow")
  /\ UNCHANGED <<tree, thumbs, uploads>>

DeleteThumb(r) ==
  /\ At(r, "deleteThumb")
  /\ thumbs' = thumbs \ {req[r].file}
  /\ Go(r, "deleteRow")
  /\ UNCHANGED <<tree, objects, uploads>>

DeleteRow(r) ==
  /\ At(r, "deleteRow")
  /\ files' = WithoutRows(files, {req[r].file})
  /\ Done(r)
  /\ UNCHANGED <<folders, clock, bucket>>

\* POST /files/:id/restore.
StartRestoreFile(r, f) ==
  /\ TrashedFile(f)
  /\ Begin(r, "restoreFile",
           [Idle EXCEPT !.step = "readHome", !.file = f, !.dest = files[f].folder])
  /\ UNCHANGED vars

ReadHome(r) ==
  /\ At(r, "readHome")
  /\ IF LiveFolder(req[r].dest) THEN Go(r, "restoreFileRow") ELSE Done(r)
  /\ UNCHANGED vars

RestoreFileRow(r) ==
  /\ At(r, "restoreFileRow")
  /\ LET f == req[r].file IN
       WriteFiles([x \in DOMAIN files |->
                     IF x = f THEN [files[f] EXCEPT !.deletedAt = NotDeleted] ELSE files[x]])
  /\ Done(r)
  /\ UNCHANGED <<folders, clock, bucket>>

\* GET /files/:id/thumbnail-url of an image or video (ThumbnailSlots has the
\* wait for a slot).  Reading or decoding the object may fail.
StartThumbnailAgain(r, f) == \* mutant: the ready and failed returns are missing
  /\ LiveFile(f) /\ files[f].status = "complete"
  /\ Begin(r, "thumbnail", [Idle EXCEPT !.step = "readSource", !.file = f])
  /\ UNCHANGED vars

StartThumbnail(r, f) ==
  /\ LiveFile(f) /\ files[f].status = "complete" /\ files[f].thumbnail = "none"
  /\ Begin(r, "thumbnail", [Idle EXCEPT !.step = "readSource", !.file = f])
  /\ UNCHANGED vars

ReadSource(r) ==
  /\ At(r, "readSource")
  /\ \/ req[r].file \in objects /\ Go(r, "putThumb")
     \/ Go(r, "markFailed")
  /\ UNCHANGED vars

StoreThumb(r) ==
  /\ At(r, "putThumb")
  /\ thumbs' = thumbs \cup {req[r].file}
  /\ UNCHANGED <<tree, objects, uploads>>

PutThumb(r) == StoreThumb(r) /\ Go(r, "markReady")

WriteReady(r) ==
  /\ At(r, "markReady")
  /\ LET f == req[r].file IN
       UpdateRow(f, [files[f] EXCEPT !.thumbnail = "ready", !.hasThumb = TRUE])
  /\ UNCHANGED <<folders, clock, bucket>>

MarkReady(r) == WriteReady(r) /\ Go(r, "presignThumb")

\* The last call of the try: the row is ready before the answer is.
PresignThumb(r) == At(r, "presignThumb") /\ Done(r) /\ UNCHANGED vars

MarkFailed(r) ==
  /\ At(r, "markFailed")
  /\ LET f == req[r].file IN UpdateRow(f, [files[f] EXCEPT !.thumbnail = "failed"])
  /\ Done(r)
  /\ UNCHANGED <<folders, clock, bucket>>

-----------------------------------------------------------------------------
(* scripts/                                                                *)

\* cleanup-stale-uploads: its SELECT returns the pending rows past an age.
StartCleanup(r, rows) ==
  /\ rows # {} /\ rows \subseteq {f \in DOMAIN files : files[f].status = "pending"}
  /\ Begin(r, "cleanup", [Idle EXCEPT !.step = "cleanup", !.rows = rows, !.left = rows])
  /\ UNCHANGED vars

TakeUpCleanup(r, f) ==
  /\ At(r, "cleanup") /\ f \in req[r].left
  /\ req' = [req EXCEPT ![r].step = "cleanupRow", ![r].file = f, ![r].left = @ \ {f}]

CleanupAbort(r, f) ==
  /\ TakeUpCleanup(r, f)
  /\ uploads' = uploads \ {f}
  /\ UNCHANGED <<tree, objects, thumbs>>

CleanupRow(r) ==
  /\ At(r, "cleanupRow")
  /\ files' = WithoutRows(files, {req[r].file})
  /\ IF req[r].left = {} THEN Done(r) ELSE Go(r, "cleanup")
  /\ UNCHANGED <<folders, clock, bucket>>

\* purge-trash.  Its cutoff lies in the past: later trashings are younger.
StartPurge(r, cutoff) ==
  /\ cutoff <= clock + 1
  /\ OldFiles(cutoff) # {} \/ OldFolders(cutoff) # {}
  /\ LET rows == OldFiles(cutoff) IN
       Begin(r, "purge", [Idle EXCEPT !.step = "purge", !.cutoff = cutoff, !.rows = rows,
                                      !.left = rows, !.marked = ThumbsNamed(rows)])
  /\ UNCHANGED vars

TakeUpPurge(r, f) ==
  /\ At(r, "purge") /\ f \in req[r].left
  /\ req' = [req EXCEPT ![r].file = f, ![r].left = @ \ {f},
                        ![r].step = IF f \in req[r].marked THEN "purgeThumb" ELSE "purgeRow"]

PurgeObject(r, f) ==
  /\ TakeUpPurge(r, f)
  /\ objects' = objects \ {f}
  /\ UNCHANGED <<tree, thumbs, uploads>>

PurgeThumb(r) ==
  /\ At(r, "purgeThumb")
  /\ thumbs' = thumbs \ {req[r].file}
  /\ Go(r, "purgeRow")
  /\ UNCHANGED <<tree, objects, uploads>>

PurgeRow(r) ==
  /\ At(r, "purgeRow")
  /\ files' = WithoutRows(files, {req[r].file})
  /\ Go(r, "purge")
  /\ UNCHANGED <<folders, clock, bucket>>

\* The SELECT of the second loop.
ReadOldFolders(r) ==
  /\ At(r, "purge") /\ req[r].left = {}
  /\ IF OldFolders(req[r].cutoff) = {} THEN Done(r)
     ELSE req' = [req EXCEPT ![r].step = "purgeFolders", ![r].ids = OldFolders(req[r].cutoff)]
  /\ UNCHANGED vars

PurgeFolderRow(r, d) ==
  /\ At(r, "purgeFolders") /\ d \in req[r].ids
  /\ folders' = WithoutRows(folders, SubtreeIds(d))
  /\ files' = WithoutRows(files, FilesUnder(SubtreeIds(d)))
  /\ IF req[r].ids = {d} THEN Done(r) ELSE req' = [req EXCEPT ![r].ids = @ \ {d}]
  /\ UNCHANGED <<clock, bucket>>

-----------------------------------------------------------------------------
(* Failures.                                                               *)

\* What a request has already taken from the bucket while the row stays.
Taken(r) == IF req[r].step = "deleteStored" THEN req[r].rows \ req[r].left
            ELSE IF req[r].step \in {"deleteThumb", "deleteRow", "cleanupRow", "purgeThumb", "purgeRow"}
            THEN {req[r].file} ELSE {}

\* Between the bucket and the table.
Halfway(r) == Taken(r) \cup (IF At(r, "markComplete") THEN {req[r].file} ELSE {})

\* An awaited call throws and the handler answers 500, or the process dies.
\* (A call that takes effect and then throws is that call, then this.)
Die(r) == Done(r) /\ torn' = torn \cup ({req[r].op} \X Halfway(r))

\* Three handlers catch: a failed INSERT aborts the upload it opened, a
\* failed thumbnail is recorded, a thumbnail that is not deleted is left.
Catch(r) ==
  \/ At(r, "insertFile") /\ Go(r, "abortUpload") /\ UNCHANGED torn
  \/ req[r].step \in {"putThumb", "markReady"} /\ Go(r, "markFailed") /\ UNCHANGED torn
  \/ At(r, "presignThumb") /\ Go(r, "markFailed") /\ torn' = torn \cup {<<req[r].op, req[r].file>>}
  \/ At(r, "deleteThumb") /\ Go(r, "deleteRow") /\ UNCHANGED torn

\* The call has taken effect, its answer is lost, and the handler that
\* catches undoes or records a failure.
CatchAfter(r) ==
  /\ \/ InsertRow(r) /\ Go(r, "abortUpload")
     \/ (StoreThumb(r) \/ WriteReady(r)) /\ Go(r, "markFailed")
  /\ torn' = torn \cup {<<req[r].op, req[r].file>>}

Fail(r) ==
  /\ req[r].op \in Faults
  /\ \/ (Die(r) \/ Catch(r)) /\ UNCHANGED vars
     \/ CatchAfter(r)
  /\ UNCHANGED skipped

\* What the scripts fail to abort or delete they log, and remove the row of
\* all the same.
Skip(r) ==
  /\ req[r].op \in Faults
  /\ \/ \E f \in FileId : /\ TakeUpCleanup(r, f) \/ TakeUpPurge(r, f)
                          /\ skipped' = skipped \cup {f}
     \/ At(r, "purgeThumb") /\ Go(r, "purgeRow") /\ UNCHANGED skipped
  /\ UNCHANGED <<vars, torn>>

-----------------------------------------------------------------------------
(* What a handler has read and will act on, by kind.  A read stands as     *)
(* long as it would give the same again; that its row is gone matters only *)
(* where something else is then left behind.                               *)

\* The parent to be was not under the folder moved.
ChainStands(q) ==
  At(q, "updateFolder") /\ req[q].folder \in DOMAIN folders =>
    req[q].dest = folders[req[q].folder].parent \/ req[q].dest \notin Subtree(req[q].folder)

\* What is written into, moved or trashed was out of the Bin, and what is
\* restored was under the folder found to be.
LiveStands(q) ==
  /\ req[q].step \in LiveDests /\ req[q].dest \in DOMAIN folders => LiveFolder(req[q].dest)
  /\ req[q].step \in PatchSteps /\ req[q].folder \in DOMAIN folders => LiveFolder(req[q].folder)
  /\ At(q, "trashFile") /\ req[q].file \in DOMAIN files => LiveFolder(files[req[q].file].folder)
  /\ req[q].step \in {"readHome", "restoreFileRow"} /\ req[q].file \in DOMAIN files =>
       files[req[q].file].folder = req[q].dest \/ LiveFolder(files[req[q].file].folder)
  /\ req[q].step \in RestoreSteps /\ TrashedFolder(req[q].folder) =>
       folders[req[q].folder].parent = req[q].dest

\* getDescendantFolderIds, and the files under what it returned.
SubtreeStands(q) ==
  /\ req[q].step \in {"beginTrash", "trashTree", "readDoomed", "restoreTree"} =>
       req[q].ids \cap DOMAIN folders = SubtreeIds(req[q].folder)
  /\ At(q, "deleteStored") => req[q].rows \cap DOMAIN files = FilesUnder(SubtreeIds(req[q].folder))

\* now() was later than any trashing under the folder.
StampStands(q) ==
  At(q, "trashTree") => /\ \A d \in req[q].ids \cap DOMAIN folders : folders[d].deletedAt <= req[q].stamp
                        /\ \A f \in Swept(q) : files[f].deletedAt <= req[q].stamp

\* The files a script is yet to remove the rows of.
InHand(r) ==
  req[r].left \cup
  (IF req[r].step \in {"cleanupRow", "purgeThumb", "purgeRow"} THEN {req[r].file} ELSE {})

\* What is to go for good was in the Bin, or unfinished.
DoomedStands(q) ==
  /\ req[q].step \in DoomedSteps /\ req[q].folder \in DOMAIN folders => TrashedFolder(req[q].folder)
  /\ req[q].step \in {"deleteObject", "deleteThumb"} /\ req[q].file \in DOMAIN files =>
       TrashedFile(req[q].file)
  /\ At(q, "abortPending") /\ req[q].file \in DOMAIN files => files[req[q].file].status = "pending"
  /\ At(q, "deleteRow") /\ req[q].file \in DOMAIN files =>
       TrashedFile(req[q].file) \/ files[req[q].file].status = "pending"
  /\ req[q].step \in CleanupSteps =>
       \A f \in InHand(q) \cap DOMAIN files : files[f].status = "pending"
  /\ req[q].step \in {"purge", "purgeThumb", "purgeRow"} =>
       InHand(q) \cap DOMAIN files = OldFiles(req[q].cutoff)
  /\ At(q, "purgeFolders") => /\ OldFiles(req[q].cutoff) = {}
                              /\ req[q].ids \cap DOMAIN folders = OldFolders(req[q].cutoff)

\* The upload being completed is of a file out of the Bin.
UploadStands(q) == req[q].step \in CompleteSteps => LiveFile(req[q].file)

\* The file had no thumbnail; nor does it until this request makes it one.
ThumbnailStands(q) ==
  req[q].step \in ThumbSteps \ {"presignThumb"} /\ req[q].file \in DOMAIN files =>
    files[req[q].file].thumbnail # "ready" \/ <<"thumbnail", req[q].file>> \in torn

Stands(k, q) ==
  /\ k = "chain"     => ChainStands(q)
  /\ k = "live"      => LiveStands(q)
  /\ k = "subtree"   => SubtreeStands(q)
  /\ k = "stamp"     => StampStands(q)
  /\ k = "doomed"    => DoomedStands(q)
  /\ k = "upload"    => UploadStands(q)
  /\ k = "thumbnail" => ThumbnailStands(q)

\* A step of r after which another's read no longer stands.
Overtakes(r) == {k \in Reads : \E q \in Request \ {r} : Stands(k, q) /\ ~Stands(k, q)'}
-----------------------------------------------------------------------------
ReqInit == /\ Init /\ req = [r \in Request |-> Idle]
           /\ failed = FALSE /\ skipped = {} /\ torn = {} /\ overtaken = {}

StartFolderRequest(r) ==
  \/ \E d \in SubfolderId, p \in FolderId, n \in Name : StartCreateFolder(r, d, p, n)
  \/ \E d \in FolderId, p \in FolderId, n \in Name : StartPatchFolder(r, d, p, n)
  \/ \E d \in FolderId : StartDeleteFolder(r, d) \/ StartRestoreFolder(r, d)

StartFileRequest(r) ==
  \/ \E f \in FileId, d \in FolderId, n \in Name :
        StartInitiateUpload(r, f, d, n) \/ StartPatchFile(r, f, d, n)
  \/ \E f \in FileId :
        \/ StartCompleteUpload(r, f) \/ StartDeleteFile(r, f)
        \/ StartRestoreFile(r, f) \/ StartThumbnail(r, f)

StartScript(r) ==
  \/ \E rows \in SUBSET FileId : StartCleanup(r, rows)
  \/ \E cutoff \in Cutoff : StartPurge(r, cutoff)

Continue(r) ==
  \/ InsertFolder(r) \/ ReadNewParent(r) \/ CheckCycle(r) \/ UpdateFolder(r)
  \/ ReadSubtree(r) \/ BeginTrash(r) \/ TrashTree(r) \/ ReadDoomed(r) \/ DeleteFolderRow(r)
  \/ ReadParent(r) \/ RestoreTree(r)
  \/ CreateUpload(r) \/ InsertFile(r) \/ AbortUpload(r) \/ Stitch(r) \/ MarkComplete(r)
  \/ ReadDest(r) \/ UpdateFile(r)
  \/ AbortPending(r) \/ TrashFileRow(r) \/ DeleteObject(r) \/ DeleteThumb(r) \/ DeleteRow(r)
  \/ ReadHome(r) \/ RestoreFileRow(r)
  \/ ReadSource(r) \/ PutThumb(r) \/ MarkReady(r) \/ PresignThumb(r) \/ MarkFailed(r)
  \/ CleanupRow(r) \/ PurgeThumb(r) \/ PurgeRow(r) \/ ReadOldFolders(r)
  \/ \E f \in FileId : DeleteStored(r, f) \/ CleanupAbort(r, f) \/ PurgeObject(r, f)
  \/ \E d \in FolderId : PurgeFolderRow(r, d)

ReqNext == \E r \in Request :
  /\ \/ /\ StartFolderRequest(r) \/ StartFileRequest(r) \/ StartScript(r) \/ Continue(r)
        /\ UNCHANGED <<failed, skipped, torn>>
     \/ (Fail(r) \/ Skip(r)) /\ failed' = TRUE
  /\ overtaken' = overtaken \cup Overtakes(r)

ReqSpec == ReqInit /\ [][ReqNext]_reqVars

-----------------------------------------------------------------------------
(* One request at a time and nothing has failed: every handler is one      *)
(* atomic step of DriveTree, taken when its last call changes the tables.  *)
(* Until then the bucket is seen as it was when the handler began.         *)

TakenThumb(r) == IF req[r].step \in {"deleteRow", "purgeRow"}
                 THEN {req[r].file} \cap req[r].marked ELSE {}
Holding(step) == {req[r].file : r \in {q \in Request : At(q, step)}}

Finished(F)   == {f \in F \cap DOMAIN files : files[f].status = "complete"}
Unfinished(F) == {f \in F \cap DOMAIN files : files[f].status = "pending"}

AbsObjects == (objects \cup Finished(UNION {Taken(r) : r \in Request})) \ Holding("markComplete")
AbsThumbs  == (thumbs \cup UNION {TakenThumb(r) : r \in Request}) \ Holding("markReady")
\* The purge (cutoff # 0) aborts no upload, so it has none to give back.
AbsUploads == (uploads \cup Holding("markComplete")
                       \cup Unfinished(UNION {Taken(r) : r \in {q \in Request : req[q].cutoff = 0}}))
              \ (Holding("insertFile") \cup Holding("abortUpload"))

\* A trashing takes place when it commits, at the time of its BEGIN.
AbsClock == IF Holding("trashTree") = {} THEN clock ELSE clock - 1

Tree == INSTANCE DriveTree WITH clock <- AbsClock,
          objects <- AbsObjects, thumbs <- AbsThumbs, uploads <- AbsUploads

\* A request that runs alone is one atomic operation (folders.ts, files.ts,
\* the scripts): the calls it is made of add up to what DriveTree says, for
\* as long as none of them fails.
ImplementsTree == Tree!Init /\ [][failed' \/ Tree!Next]_(Tree!vars)
-----------------------------------------------------------------------------
(* What the code or its documentation says of the rows and the bucket.     *)
(* None of it holds of every behaviour; the next section says what does.   *)
(* (OneTree is DriveTree's.)                                               *)

\* No request in progress has this file in hand.
AtRest(f) == \A r \in Request : f \notin {req[r].file} \cup req[r].rows

\* An unfinished upload nobody is working on is still open in MinIO, so it
\* can be resumed and completed (files.ts:104-107, README "resume endpoint").
UploadsCanBeResumed ==
  \A f \in DOMAIN files : files[f].status = "pending" /\ AtRest(f) => f \in uploads

\* Every object in the bucket has a row to delete it by: handlers touch the
\* bucket first and the table last (files.ts:394-400, folders.ts:185-201).
NoOrphanedObject == \A f \in objects : AtRest(f) => f \in DOMAIN files

-----------------------------------------------------------------------------
(* What the handlers do keep, and until when: a property is lost only once *)
(* a read of some kind has been overtaken, or a handler has been cut off   *)
(* between the bucket and the table.                                       *)

Overtaken(kinds) == overtaken \cap kinds # {}
BinReads         == {"live", "subtree", "stamp"}
TornBy(ops, f)   == \E op \in ops : <<op, f>> \in torn

\* The folders are one tree until a parent-to-be is moved under the folder
\* moved, between its cycle check and its UPDATE (folders.ts:119-127).
TreeKept == Overtaken({"chain"}) \/ OneTree

\* The Bin keeps its order, nothing live in it, until one of the reads the
\* trashings, restores and writes into a folder rely on goes stale:
\* the folder out of the Bin, its subtree, now() (folders.ts:161-173).
BinKept == Overtaken(BinReads) \/ BinOrder

\* A finished file out of the Bin has its object until it is taken out of
\* the Bin under a handler deleting it for good, or that handler stopped
\* after the object (files.ts:394-400, folders.ts:191-201).
DownloadsKept ==
  \/ Overtaken(BinReads \cup {"doomed"})
  \/ \A f \in DOMAIN files : LiveFile(f) /\ files[f].status = "complete" =>
       f \in objects \/ TornBy({"deleteFile", "deleteFolder", "purge"}, f)

\* Likewise of the thumbnail a live row names (files.ts:276-282, 397-399).
ThumbnailsKept ==
  \/ Overtaken({"doomed"})
  \/ \A f \in DOMAIN files : LiveFile(f) /\ files[f].hasThumb =>
       f \in thumbs \/ TornBy({"deleteFile", "purge"}, f)

\* What a live row is served from, the file and its thumbnail, is in the
\* bucket, each for as long as above (files.ts:198-216, 228-241).
ServedKept == DownloadsKept /\ ThumbnailsKept

\* An unfinished upload nobody works on is open in MinIO until a file moves
\* out of a folder being deleted, or a handler stopped between the call
\* that opens, closes or stitches it and the row (files.ts:71-84, 186-188).
UploadsKept ==
  \/ Overtaken({"subtree"})
  \/ \A f \in DOMAIN files : files[f].status = "pending" /\ AtRest(f) =>
       f \in uploads \/ TornBy({"initiateUpload", "completeUpload", "deleteFile",
                                "deleteFolder", "cleanup"}, f)

\* An object nobody works on has a row until a read of a deletion, or of a
\* completion, went stale; wherever a handler but the completion stops or
\* fails, it leaves the row (files.ts:394-400, folders.ts:185-201).  But
\* for what the purge could not delete and has logged.
ObjectsKept ==
  \/ Overtaken(BinReads \cup {"doomed", "upload"})
  \/ \A f \in objects : AtRest(f) =>
       f \in DOMAIN files \cup skipped \/ TornBy({"completeUpload"}, f)

\* No row that is out of the Bin, and no upload, is removed until what a
\* deletion read of it, or the order of the Bin, went stale.
LiveKept ==
  [][Overtaken(BinReads \cup {"doomed"}) \/
     /\ \A d \in DOMAIN folders \ DOMAIN folders' : TrashedFolder(d)
     /\ \A f \in DOMAIN files \ DOMAIN files' :
           TrashedFile(f) \/ files[f].status = "pending"]_reqVars

\* A thumbnail that is ready stays so until two requests make the same one,
\* or making it fails after it was ready (files.ts:278-291).
ReadyKept ==
  [][Overtaken({"thumbnail"}) \/
     \A f \in DOMAIN files \cap DOMAIN files' :
       files[f].thumbnail = "ready" =>
         files'[f].thumbnail = "ready" \/ TornBy({"thumbnail"}, f)]_reqVars

\* The calls that can be the first to make a read of each kind stale.
Overtakers ==
  [chain     |-> {"updateFolder"},
   live      |-> {"trashTree"},
   subtree   |-> {"insertFolder", "updateFolder", "updateFile"},
   stamp     |-> {"trashTree", "trashFile"},
   doomed    |-> {"restoreTree", "restoreFileRow", "markComplete", "trashTree", "trashFile"},
   upload    |-> {"trashTree", "trashFile", "deleteRow", "cleanupRow"},
   thumbnail |-> {"markReady"}]

\* Nothing else does: every other write leaves alone what some handler in
\* progress has read and relies on, which no lock sees to
\* (folders.ts:100-273, files.ts:331-436, the scripts).
OnlyTheseOvertake ==
  [][overtaken = {} => \A k \in overtaken' :
       \E r \in Request : req'[r] # req[r] /\ req[r].step \in Overtakers[k]]_reqVars
=============================================================================
