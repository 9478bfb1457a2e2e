----------------------------- MODULE DriveTree -----------------------------
(***************************************************************************)
(* One owner's tree of folders and files, its Bin, and the MinIO bucket    *)
(* behind it: the handlers of routes/folders.ts and routes/files.ts, and   *)
(* each row of the two maintenance scripts' loops, taken as ONE atomic     *)
(* step.  This is what the application promises; DriveRequests takes the   *)
(* same handlers apart at every await.                                     *)
(*                                                                         *)
(* A table is a partial function from row ids to rows.  Every query of the *)
(* code that reads or writes several owners' rows filters by owner, or by  *)
(* an id that belongs to one, so one owner's rows are modelled.            *)
(***************************************************************************)
EXTENDS Naturals, FiniteSets

CONSTANTS
  Root,        \* id of the owner's root folder (is_root)
  SubfolderId, \* the UUIDs other folders can get
  FileId,      \* the UUIDs files can get
  Name,        \* folder and file names
  NoParent,    \* SQL NULL in folders.parent_id
  MaxClock     \* bound on the number of trashings: clock never exceeds it

ASSUME RootAssumption     == Root \notin SubfolderId /\ NoParent \notin SubfolderId \cup {Root}
ASSUME NameAssumption     == Name # {}
ASSUME MaxClockAssumption == MaxClock \in Nat

VARIABLES
  folders, \* table folders
  files,   \* table files
  objects, \* finished objects in the bucket, by the file id in their key
  thumbs,  \* thumbnail objects in the bucket, by the file id in their key
  uploads, \* multipart uploads open in MinIO, by the file id in their key
  clock    \* last now() used for a deleted_at

vars == <<folders, files, objects, thumbs, uploads, clock>>

NotDeleted == 0  \* SQL NULL in deleted_at

FolderId == {Root} \cup SubfolderId
Time     == 0..MaxClock
Cutoff   == 1..MaxClock + 1 \* the times purge-trash may compare with

FolderRow == [parent    : FolderId \cup {NoParent},
              name      : Name,
              deletedAt : Time]

FileRow == [folder    : FolderId,
            name      : Name,
            status    : {"pending", "complete"},
            thumbnail : {"none", "ready", "failed"},
            hasThumb  : BOOLEAN, \* thumbnail_key IS NOT NULL
            deletedAt : Time]

\* The columns' types, and the foreign keys of 001_init.sql.
TypeOK ==
  /\ DOMAIN folders \subseteq FolderId
  /\ folders \in [DOMAIN folders -> FolderRow]
  /\ DOMAIN files \subseteq FileId
  /\ files \in [DOMAIN files -> FileRow]
  /\ objects \subseteq FileId
  /\ thumbs \subseteq FileId
  /\ uploads \subseteq FileId
  /\ clock \in Time
  /\ \A d \in DOMAIN folders : folders[d].parent \in DOMAIN folders \cup {NoParent}
  /\ \A f \in DOMAIN files : files[f].folder \in DOMAIN folders

-----------------------------------------------------------------------------
(* The queries of lib/dbHelpers.ts.                                        *)

AnyFolder(d)  == d \in DOMAIN folders \* mutant of LiveFolder: includeTrashed
LiveFolder(d) == d \in DOMAIN folders /\ folders[d].deletedAt = NotDeleted
LiveFile(f)   == f \in DOMAIN files /\ files[f].deletedAt = NotDeleted

TrashedFolder(d) == d \in DOMAIN folders /\ folders[d].deletedAt # NotDeleted
AnyFile(f)       == f \in DOMAIN files \* mutant of TrashedFile: first DELETE or second?
TrashedFile(f)   == f \in DOMAIN files /\ files[f].deletedAt # NotDeleted

\* A recursive CTE computes the least set that holds its first row and is
\* closed under its join: downwards for a subtree, upwards for a chain.
ClosedDown(S) == \A d \in DOMAIN folders : folders[d].parent \in S => d \in S
ClosedUp(S)   == \A d \in S : folders[d].parent \in DOMAIN folders => folders[d].parent \in S

JustIt(d)  == {d} \* mutant of Subtree: no recursion
Subtree(d) == {x \in DOMAIN folders :
                 \A S \in SUBSET DOMAIN folders : d \in S /\ ClosedDown(S) => x \in S}
Chain(d)   == {x \in DOMAIN folders :
                 \A S \in SUBSET DOMAIN folders : d \in S /\ ClosedUp(S) => x \in S}

IsSame(d, candidate) == d = candidate \* mutant of IsSameOrAncestor: no walk
IsSameOrAncestor(d, candidate) == d \in Chain(candidate)

\* Mutant of FilesUnder: pending uploads are overlooked.
CompleteFilesUnder(D) == {f \in DOMAIN files : files[f].folder \in D /\ files[f].status = "complete"}
FilesUnder(D) == {f \in DOMAIN files : files[f].folder \in D}

\* The partial unique indexes of 003_soft_delete.sql, over given tables.
FolderNamesUnique(t) ==
  \A d, e \in DOMAIN t :
     /\ d # e
     /\ t[d].parent = t[e].parent /\ t[d].parent # NoParent
     /\ t[d].deletedAt = NotDeleted /\ t[e].deletedAt = NotDeleted
     => t[d].name # t[e].name

FileNamesUnique(t) ==
  \A f, g \in DOMAIN t :
     /\ f # g
     /\ t[f].folder = t[g].folder
     /\ t[f].deletedAt = NotDeleted /\ t[g].deletedAt = NotDeleted
     => t[f].name # t[g].name

\* The rows a DELETE FROM folders removes: ON DELETE CASCADE on parent_id
\* and on folder_id.
WithoutRows(t, ids) == [x \in DOMAIN t \ ids |-> t[x]]

-----------------------------------------------------------------------------
(* routes/folders.ts                                                       *)

Init ==
  /\ \E n \in Name : folders = [d \in {Root} |->
       [parent |-> NoParent, name |-> n, deletedAt |-> NotDeleted]]
  /\ files = [f \in {} |-> 0]
  /\ objects = {} /\ thumbs = {} /\ uploads = {}
  /\ clock = 0

\* POST /folders
CreateFolder(d, p, n) ==
  /\ d \notin DOMAIN folders
  /\ LiveFolder(p)
  /\ folders' = [x \in DOMAIN folders \cup {d} |->
                   IF x = d THEN [parent |-> p, name |-> n, deletedAt |-> NotDeleted]
                            ELSE folders[x]]
  /\ FolderNamesUnique(folders')
  /\ UNCHANGED <<files, objects, thumbs, uploads, clock>>

\* PATCH /folders/:id.  An absent name or parentId is the row's own value.
PatchFolder(d, p, n) ==
  /\ LiveFolder(d) /\ d # Root
  /\ \/ p = folders[d].parent
     \/ p # d /\ LiveFolder(p) /\ ~IsSameOrAncestor(d, p)
  /\ folders' = [folders EXCEPT ![d].parent = p, ![d].name = n]
  /\ FolderNamesUnique(folders')
  /\ UNCHANGED <<files, objects, thumbs, uploads, clock>>

\* DELETE /folders/:id, the folder not in the Bin.
TrashFolder(d) ==
  /\ LiveFolder(d) /\ d # Root
  /\ clock < MaxClock
  /\ clock' = clock + 1
  /\ folders' = [x \in DOMAIN folders |->
                   IF x \in Subtree(d) /\ LiveFolder(x)
                   THEN [folders[x] EXCEPT !.deletedAt = clock']
                   ELSE folders[x]]
  /\ files' = [f \in DOMAIN files |->
                 IF f \in FilesUnder(Subtree(d)) /\ LiveFile(f)
                 THEN [files[f] EXCEPT !.deletedAt = clock']
                 ELSE files[f]]
  /\ UNCHANGED <<objects, thumbs, uploads>>

\* DELETE /folders/:id, the folder in the Bin: objects and uploads of the
\* subtree's files, then the row with its cascade.  Thumbnails stay.
DeleteFolderForever(d) ==
  /\ TrashedFolder(d) /\ d # Root
  /\ LET gone == FilesUnder(Subtree(d)) IN
       /\ objects' = objects \ {f \in gone : files[f].status = "complete"}
       /\ uploads' = uploads \ {f \in gone : files[f].status = "pending"}
       /\ files' = WithoutRows(files, gone)
       /\ folders' = WithoutRows(folders, Subtree(d))
  /\ UNCHANGED <<thumbs, clock>>

\* deleted_at = (SELECT deleted_at FROM folders WHERE id = $2).
AnyBatch(row, d)  == row.deletedAt # NotDeleted \* mutant of SameBatch
SameBatch(row, d) == row.deletedAt = folders[d].deletedAt

\* POST /folders/:id/restore: the rows of the subtree with this folder's
\* timestamp come back, unless one of them would clash with a live name.
RestoreFolder(d) ==
  /\ TrashedFolder(d)
  /\ folders[d].parent \in DOMAIN folders => LiveFolder(folders[d].parent)
  /\ folders' = [x \in DOMAIN folders |->
                   IF x \in Subtree(d) /\ SameBatch(folders[x], d)
                   THEN [folders[x] EXCEPT !.deletedAt = NotDeleted]
                   ELSE folders[x]]
  /\ files' = [f \in DOMAIN files |->
                 IF f \in FilesUnder(Subtree(d)) /\ SameBatch(files[f], d)
                 THEN [files[f] EXCEPT !.deletedAt = NotDeleted]
                 ELSE files[f]]
  /\ FolderNamesUnique(folders') /\ FileNamesUnique(files')
  /\ UNCHANGED <<objects, thumbs, uploads, clock>>

\* GET /folders/trash/all: the rows in the Bin whose own folder is not.
BinFolders == {d \in DOMAIN folders : TrashedFolder(d) /\ ~TrashedFolder(folders[d].parent)}
AllTrashedFiles == {f \in DOMAIN files : TrashedFile(f)} \* mutant of BinFiles
BinFiles   == {f \in DOMAIN files : TrashedFile(f) /\ ~TrashedFolder(files[f].folder)}

-----------------------------------------------------------------------------
(* routes/files.ts                                                         *)

\* POST /files/uploads.  The UUID is fresh: no row and no key has it.
InitiateUpload(f, d, n) ==
  /\ f \notin DOMAIN files \cup objects \cup thumbs \cup uploads
  /\ LiveFolder(d)
  /\ files' = [x \in DOMAIN files \cup {f} |->
                 IF x = f THEN [folder |-> d, name |-> n, status |-> "pending",
                                thumbnail |-> "none", hasThumb |-> FALSE,
                                deletedAt |-> NotDeleted]
                          ELSE files[x]]
  /\ FileNamesUnique(files')
  /\ uploads' = uploads \cup {f}
  /\ UNCHANGED <<folders, objects, thumbs, clock>>

\* POST /files/uploads/:id/complete, all parts having landed.
CompleteUpload(f) ==
  /\ LiveFile(f) /\ files[f].status = "pending"
  /\ f \in uploads
  /\ uploads' = uploads \ {f}
  /\ objects' = objects \cup {f}
  /\ files' = [files EXCEPT ![f].status = "complete"]
  /\ UNCHANGED <<folders, thumbs, clock>>

\* PATCH /files/:id.  An absent name or folderId is the row's own value.
PatchFile(f, d, n) ==
  /\ LiveFile(f)
  /\ d = files[f].folder \/ LiveFolder(d)
  /\ files' = [files EXCEPT ![f].folder = d, ![f].name = n]
  /\ FileNamesUnique(files')
  /\ UNCHANGED <<folders, objects, thumbs, uploads, clock>>

\* DELETE /files/:id of an unfinished upload, in the Bin or not.
DeletePendingFile(f) ==
  /\ f \in DOMAIN files /\ files[f].status = "pending"
  /\ uploads' = uploads \ {f}
  /\ files' = WithoutRows(files, {f})
  /\ UNCHANGED <<folders, objects, thumbs, clock>>

\* DELETE /files/:id of a complete file that is not in the Bin.
TrashFile(f) ==
  /\ LiveFile(f) /\ files[f].status = "complete"
  /\ clock < MaxClock
  /\ clock' = clock + 1
  /\ files' = [files EXCEPT ![f].deletedAt = clock']
  /\ UNCHANGED <<folders, objects, thumbs, uploads>>

\* The thumbnail object is deleted when the row names one (thumbnail_key).
ThumbsNamed(F) == {f \in F : files[f].hasThumb}

\* DELETE /files/:id of a complete file in the Bin.
DeleteFileForever(f) ==
  /\ TrashedFile(f) /\ files[f].status = "complete"
  /\ objects' = objects \ {f}
  /\ thumbs' = thumbs \ ThumbsNamed({f})
  /\ files' = WithoutRows(files, {f})
  /\ UNCHANGED <<folders, uploads, clock>>

\* Mutant of RestoreFile: the folder is not looked at.
RestoreFileAnywhere(f) ==
  /\ TrashedFile(f)
  /\ files' = [files EXCEPT ![f].deletedAt = NotDeleted]
  /\ FileNamesUnique(files')
  /\ UNCHANGED <<folders, objects, thumbs, uploads, clock>>

\* POST /files/:id/restore
RestoreFile(f) ==
  /\ TrashedFile(f)
  /\ LiveFolder(files[f].folder)
  /\ files' = [files EXCEPT ![f].deletedAt = NotDeleted]
  /\ FileNamesUnique(files')
  /\ UNCHANGED <<folders, objects, thumbs, uploads, clock>>

\* GET /files/:id/thumbnail-url of a complete image or video without one.
GenerateThumbnail(f) ==
  /\ LiveFile(f) /\ files[f].status = "complete" /\ files[f].thumbnail = "none"
  /\ \/ /\ f \in objects
        /\ thumbs' = thumbs \cup {f}
        /\ files' = [files EXCEPT ![f].thumbnail = "ready", ![f].hasThumb = TRUE]
     \/ /\ thumbs' = thumbs
        /\ files' = [files EXCEPT ![f].thumbnail = "failed"]
  /\ UNCHANGED <<folders, objects, uploads, clock>>

-----------------------------------------------------------------------------
(* scripts/                                                                *)

\* cleanup-stale-uploads, one row of its loop.  created_at is not modelled:
\* any pending row may be past the cutoff.
CleanupStaleUpload(f) ==
  /\ f \in DOMAIN files /\ files[f].status = "pending"
  /\ uploads' = uploads \ {f}
  /\ files' = WithoutRows(files, {f})
  /\ UNCHANGED <<folders, objects, thumbs, clock>>

NoOldFiles(cutoff) == {} \* mutant of OldFiles: only the folders are purged
OldFiles(cutoff)   == {f \in DOMAIN files : TrashedFile(f) /\ files[f].deletedAt < cutoff}
OldFolders(cutoff) == {d \in DOMAIN folders : TrashedFolder(d) /\ folders[d].deletedAt < cutoff}

\* purge-trash, one file of its first loop, whatever its status.
PurgeFile(f, cutoff) ==
  /\ f \in OldFiles(cutoff)
  /\ objects' = objects \ {f}
  /\ thumbs' = thumbs \ ThumbsNamed({f})
  /\ files' = WithoutRows(files, {f})
  /\ UNCHANGED <<folders, uploads, clock>>

\* purge-trash, one folder of its second loop: the first has ended.
PurgeFolder(d, cutoff) ==
  /\ d \in OldFolders(cutoff) /\ OldFiles(cutoff) = {}
  /\ files' = WithoutRows(files, FilesUnder(Subtree(d)))
  /\ folders' = WithoutRows(folders, Subtree(d))
  /\ UNCHANGED <<objects, thumbs, uploads, clock>>

Next ==
  \/ \E d \in SubfolderId, p \in FolderId, n \in Name : CreateFolder(d, p, n)
  \/ \E d \in FolderId, p \in FolderId, n \in Name : PatchFolder(d, p, n)
  \/ \E d \in FolderId : TrashFolder(d)
  \/ \E d \in FolderId : DeleteFolderForever(d)
  \/ \E d \in FolderId : RestoreFolder(d)
  \/ \E f \in FileId, d \in FolderId, n \in Name : InitiateUpload(f, d, n)
  \/ \E f \in FileId : CompleteUpload(f)
  \/ \E f \in FileId, d \in FolderId, n \in Name : PatchFile(f, d, n)
  \/ \E f \in FileId : DeletePendingFile(f)
  \/ \E f \in FileId : TrashFile(f)
  \/ \E f \in FileId : DeleteFileForever(f)
  \/ \E f \in FileId : RestoreFile(f)
  \/ \E f \in FileId : GenerateThumbnail(f)
  \/ \E f \in FileId : CleanupStaleUpload(f)
  \/ \E f \in FileId, cutoff \in Cutoff : PurgeFile(f, cutoff)
  \/ \E d \in FolderId, cutoff \in Cutoff : PurgeFolder(d, cutoff)

Spec == Init /\ [][Next]_vars

-----------------------------------------------------------------------------
(* Properties.                                                             *)

\* The folders are one tree: every folder is reached from the root, which
\* is live and has no parent (folders.ts:117-121, 109, 157; README "blocks
\* moving a folder into its own subtree").
OneTree ==
  /\ LiveFolder(Root) /\ folders[Root].parent = NoParent
  /\ \A d \in DOMAIN folders : d \in Subtree(Root)

\* Nothing lies under a trashed folder but rows trashed with it or before
\* it.  In particular nothing live does (folders.ts:147-150, dbHelpers.ts:
\* 166-168), which is what lets a permanent delete sweep a whole subtree.
BinOrder ==
  /\ \A d \in DOMAIN folders : TrashedFolder(folders[d].parent) =>
        TrashedFolder(d) /\ folders[d].deletedAt <= folders[folders[d].parent].deletedAt
  /\ \A f \in DOMAIN files : TrashedFolder(files[f].folder) =>
        TrashedFile(f) /\ files[f].deletedAt <= folders[files[f].folder].deletedAt

\* No row was trashed at a later time than the last trashing.
ClockAhead ==
  /\ \A d \in DOMAIN folders : folders[d].deletedAt <= clock
  /\ \A f \in DOMAIN files : files[f].deletedAt <= clock

\* A row a step removes was in the Bin or was an unfinished upload: no
\* delete, cascade or script takes a live folder or a live finished file.
NothingLiveIsDestroyed ==
  [][/\ \A d \in DOMAIN folders \ DOMAIN folders' : TrashedFolder(d)
     /\ \A f \in DOMAIN files \ DOMAIN files' :
           TrashedFile(f) \/ files[f].status = "pending"]_vars

\* The purge takes nothing that has been in the Bin for less than the
\* retention period, not even through a folder's cascade (purge-trash.ts:2-8).
PurgeKeepsRetention ==
  [][\A cutoff \in Cutoff :
       (\E f \in FileId : PurgeFile(f, cutoff)) \/ (\E d \in FolderId : PurgeFolder(d, cutoff)) =>
       /\ \A d \in DOMAIN folders \ DOMAIN folders' : folders[d].deletedAt \in 1..cutoff - 1
       /\ \A f \in DOMAIN files \ DOMAIN files' : files[f].deletedAt \in 1..cutoff - 1]_vars

\* What a step brings back from the Bin is all that one DELETE put there
\* and is still there, or a single file (folders.ts:164-168, 206-211).
BackFolders == {d \in DOMAIN folders \cap DOMAIN folders' :
                  TrashedFolder(d) /\ folders'[d].deletedAt = NotDeleted}
BackFiles   == {f \in DOMAIN files \cap DOMAIN files' :
                  TrashedFile(f) /\ files'[f].deletedAt = NotDeleted}
RestoreBringsBackOneBatch ==
  [][BackFolders # {} =>
       \E t \in 1..MaxClock :
          /\ BackFolders = {d \in DOMAIN folders : folders[d].deletedAt = t}
          /\ BackFiles = {f \in DOMAIN files : files[f].deletedAt = t}]_vars

\* A restore can only be refused for the restored row's own name: inside
\* the subtree no two rows of the batch clash (folders.ts:209-211).
RestoreClashesOnlyAtItsTop ==
  \A d \in DOMAIN folders : TrashedFolder(d) =>
    LET back == {x \in Subtree(d) : SameBatch(folders[x], d)}
        in   == {f \in FilesUnder(Subtree(d)) : SameBatch(files[f], d)}
    IN /\ \A x \in back \ {d}, y \in DOMAIN folders :
            /\ x # y /\ folders[y].parent = folders[x].parent
            /\ y \in back \/ LiveFolder(y)
            => folders[x].name # folders[y].name
       /\ \A f \in in, g \in DOMAIN files :
            /\ f # g /\ files[g].folder = files[f].folder
            /\ g \in in \/ LiveFile(g)
            => files[f].name # files[g].name

\* The Bin view lists one row for each trashed subtree: every trashed
\* folder is under exactly one listed folder, every trashed file is listed
\* itself or is under exactly one (folders.ts:276-280).
BinViewCoversTheBin ==
  /\ \A d \in DOMAIN folders : TrashedFolder(d) =>
        Cardinality(Chain(d) \cap BinFolders) = 1
  /\ \A f \in DOMAIN files : TrashedFile(f) =>
        IF f \in BinFiles THEN Chain(files[f].folder) \cap BinFolders = {}
                          ELSE Cardinality(Chain(files[f].folder) \cap BinFolders) = 1

\* Every finished file, in the Bin or not, has its object, and every object
\* in the bucket has its row (files.ts:365-369, purge-trash.ts:4-8).
ObjectsMatchFiles ==
  objects = {f \in DOMAIN files : files[f].status = "complete"}
=============================================================================
