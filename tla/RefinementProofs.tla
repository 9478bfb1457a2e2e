------------------------- MODULE RefinementProofs -------------------------
(***************************************************************************)
(* A request that runs alone is one atomic operation: DriveRequests with   *)
(* one request at a time implements DriveTree, for as long as no call      *)
(* fails.  By induction on what the one request has in hand (AloneInv).    *)
(***************************************************************************)
EXTENDS RequestProofs

OnlyOne == \A r, q \in Request : r = q

\* The bucket as DriveTree sees it agrees with the table.
BucketSeen ==
  /\ AbsObjects = Finished(DOMAIN files)
  /\ Unfinished(DOMAIN files) \subseteq AbsUploads
  /\ ThumbsNamed(DOMAIN files) = AbsThumbs \cap DOMAIN files
  /\ \A f \in DOMAIN files :
        /\ files[f].status = "pending" => files[f].thumbnail = "none"
        /\ files[f].thumbnail = "none" => ~files[f].hasThumb

\* What a handler has read still holds when it acts on it.
SeesFolders(r) ==
  LET d == req[r].folder
      p == req[r].dest
  IN /\ At(r, "insertFolder") => LiveFolder(p)
     /\ req[r].step \in PatchSteps \cup TrashSteps => LiveFolder(d)
     /\ req[r].step \in {"readNewParent", "checkCycle"} => p # d
     /\ At(r, "checkCycle") => LiveFolder(p)
     /\ At(r, "updateFolder") =>
          p = folders[d].parent \/ (p # d /\ LiveFolder(p) /\ ~InChain(d, p))
     /\ req[r].step \in DoomedSteps \cup RestoreSteps => TrashedFolder(d)
     /\ req[r].step \in {"beginTrash", "trashTree", "readDoomed", "restoreTree"} => req[r].ids = Subtree(d)
     /\ At(r, "trashTree") => req[r].stamp = clock
     /\ At(r, "deleteStored") => /\ req[r].rows = FilesUnder(Subtree(d))
                                 /\ req[r].marked = Finished(req[r].rows)
     /\ req[r].step \in RestoreSteps => p = folders[d].parent
     /\ req[r].step \in {"readSubtreeToRestore", "restoreTree"} => LiveFolder(p)

SeesFiles(r) ==
  LET f == req[r].file
      d == req[r].dest
  IN /\ req[r].step \in {"createUpload", "insertFile"} => LiveFolder(d)
     /\ At(r, "createUpload") => f \notin uploads
     /\ req[r].step \in CompleteSteps => LiveFile(f) /\ files[f].status = "pending"
     /\ req[r].step \in {"readDest", "updateFile"} => LiveFile(f)
     /\ At(r, "updateFile") => d = files[f].folder \/ LiveFolder(d)
     /\ At(r, "abortPending") => f \in DOMAIN files /\ files[f].status = "pending"
     /\ At(r, "trashFile") => LiveFile(f) /\ files[f].status = "complete"
     /\ req[r].step \in {"deleteObject", "deleteThumb"} =>
          TrashedFile(f) /\ files[f].status = "complete"
     /\ At(r, "deleteRow") =>
          f \in DOMAIN files /\ (files[f].status = "pending" \/ TrashedFile(f))
     /\ req[r].step \in {"abortPending", "deleteObject", "deleteThumb", "deleteRow"} =>
          req[r].marked = ThumbsNamed({f})
     /\ At(r, "deleteThumb") => f \in req[r].marked
     /\ req[r].step \in {"readHome", "restoreFileRow"} => TrashedFile(f) /\ d = files[f].folder
     /\ At(r, "restoreFileRow") => LiveFolder(d)
     /\ req[r].step \in ThumbSteps \ {"presignThumb"} =>
          LiveFile(f) /\ files[f].status = "complete" /\ files[f].thumbnail = "none"

SeesScript(r) ==
  LET f == req[r].file
  IN /\ req[r].step \in CleanupSteps => InHand(r) \subseteq Unfinished(DOMAIN files)
     /\ req[r].step \in {"purge", "purgeThumb", "purgeRow"} =>
          /\ InHand(r) = OldFiles(req[r].cutoff)
          /\ InHand(r) \cap req[r].marked = ThumbsNamed(InHand(r))
     /\ req[r].step \in {"cleanupRow", "purgeThumb", "purgeRow"} => f \notin req[r].left
     /\ At(r, "purgeThumb") => f \in req[r].marked
     /\ At(r, "purgeFolders") => /\ OldFiles(req[r].cutoff) = {}
                                 /\ req[r].ids \cap DOMAIN folders \subseteq OldFolders(req[r].cutoff)
     /\ req[r].step \in PurgeSteps => req[r].cutoff \in Cutoff
     /\ req[r].step \notin PurgeSteps => req[r].cutoff = 0

\* What it has taken from the bucket, or put there, before the table says so.
Gone(r) ==
  /\ Finished(Taken(r)) \cap objects = {}
  /\ req[r].cutoff = 0 => Unfinished(Taken(r)) \cap uploads = {}
  /\ TakenThumb(r) \cap thumbs = {}
  /\ At(r, "insertFile") => req[r].file \in uploads
  /\ At(r, "markComplete") => req[r].file \in objects \ uploads
  /\ At(r, "markReady") => req[r].file \in thumbs

AloneInv == BucketSeen /\ \A r \in Request : SeesFolders(r) /\ SeesFiles(r) /\ SeesScript(r) /\ Gone(r)

-----------------------------------------------------------------------------
(* The bucket of DriveTree, said of the one request.                       *)

FileAt(r, step) == IF At(r, step) THEN {req[r].file} ELSE {}

SeenObjects(r) == (objects \cup Finished(Taken(r))) \ FileAt(r, "markComplete")
SeenThumbs(r)  == (thumbs \cup TakenThumb(r)) \ FileAt(r, "markReady")
SeenUploads(r) == (uploads \cup FileAt(r, "markComplete")
                           \cup (IF req[r].cutoff = 0 THEN Unfinished(Taken(r)) ELSE {}))
                  \ (FileAt(r, "insertFile") \cup FileAt(r, "abortUpload"))

Sees(r) == AbsObjects = SeenObjects(r) /\ AbsThumbs = SeenThumbs(r) /\ AbsUploads = SeenUploads(r)

LEMMA Seen ==
  ASSUME OnlyOne, NEW r \in Request
  PROVE  Sees(r)
<1>1. Request = {r}
  BY DEF OnlyOne
<1>2. \A s : Holding(s) = FileAt(r, s)
  BY <1>1 DEF Holding, FileAt, At
<1>3. UNION {Taken(q) : q \in Request} = Taken(r) /\ UNION {TakenThumb(q) : q \in Request} = TakenThumb(r)
  BY <1>1
<1>4. UNION {Taken(q) : q \in {x \in Request : req[x].cutoff = 0}} =
        IF req[r].cutoff = 0 THEN Taken(r) ELSE {}
  BY <1>1
<1>5. Unfinished({}) = {}
  BY DEF Unfinished
<1> QED BY <1>2, <1>3, <1>4, <1>5 DEF Sees, AbsObjects, AbsThumbs, AbsUploads, SeenObjects, SeenThumbs, SeenUploads

LEMMA SeenNext ==
  ASSUME OnlyOne, NEW r \in Request
  PROVE  Sees(r)'
<1>1. Request = {r}
  BY DEF OnlyOne
<1>2. \A s : Holding(s)' = FileAt(r, s)'
  BY <1>1 DEF Holding, FileAt, At
<1>3. (UNION {Taken(q) : q \in Request})' = Taken(r)' /\ (UNION {TakenThumb(q) : q \in Request})' = TakenThumb(r)'
  BY <1>1
<1>4. (UNION {Taken(q) : q \in {x \in Request : req[x].cutoff = 0}})' =
        IF req'[r].cutoff = 0 THEN Taken(r)' ELSE {}
  BY <1>1
<1>5. Unfinished({})' = {}
  BY DEF Unfinished
<1> QED BY <1>2, <1>3, <1>4, <1>5 DEF Sees, AbsObjects, AbsThumbs, AbsUploads, SeenObjects, SeenThumbs, SeenUploads

\* Nor is the clock DriveTree's while a trashing is open.
LEMMA ClockSeen ==
  ASSUME OnlyOne, HandlerInv, NEW r \in Request, StepOf(r)
  PROVE  /\ AbsClock = IF At(r, "trashTree") THEN clock - 1 ELSE clock
         /\ At(r, "trashTree")' => BeginTrash(r) /\ AbsClock' = clock' - 1
         /\ ~BeginTrash(r) => AbsClock' = clock'
<1>1. Request = {r}
  BY DEF OnlyOne
<1>2. Holding("trashTree") = FileAt(r, "trashTree") /\ Holding("trashTree")' = FileAt(r, "trashTree")'
  BY <1>1 DEF Holding, FileAt, At
<1>3. At(r, "trashTree")' => BeginTrash(r)
  BY Arrivals DEF Arrived, ArrivedTree
<1> QED BY <1>2, <1>3 DEF AbsClock, FileAt

LEMMA SameClock ==
  ASSUME OnlyOne, HandlerInv, NEW r \in Request, StepOf(r), req[r].step \notin {"beginTrash", "trashTree"}
  PROVE  AbsClock = clock /\ AbsClock' = clock'
BY ClockSeen DEF BeginTrash, At

\* Between these the bucket is not the one DriveTree sees.
BucketSteps == {"deleteStored", "deleteThumb", "deleteRow", "cleanupRow", "purgeThumb", "purgeRow",
                "markComplete", "markReady", "insertFile", "abortUpload"}

LEMMA PlainSeen ==
  ASSUME NEW r \in Request, OnlyOne
  PROVE  /\ req[r].step \notin BucketSteps =>
              AbsObjects = objects /\ AbsThumbs = thumbs /\ AbsUploads = uploads
         /\ req'[r].step \notin BucketSteps =>
              AbsObjects' = objects' /\ AbsThumbs' = thumbs' /\ AbsUploads' = uploads'
<1>1. req[r].step \notin BucketSteps =>
        /\ Finished(Taken(r)) = {} /\ Unfinished(Taken(r)) = {} /\ TakenThumb(r) = {}
        /\ \A s \in {"markComplete", "markReady", "insertFile", "abortUpload"} : FileAt(r, s) = {}
  BY DEF BucketSteps, Finished, Unfinished, Taken, TakenThumb, FileAt, At
<1>2. req'[r].step \notin BucketSteps =>
        /\ Finished(Taken(r))' = {} /\ Unfinished(Taken(r))' = {} /\ TakenThumb(r)' = {}
        /\ \A s \in {"markComplete", "markReady", "insertFile", "abortUpload"} : FileAt(r, s)' = {}
  BY DEF BucketSteps, Finished, Unfinished, Taken, TakenThumb, FileAt, At
<1>3. ASSUME req[r].step \notin BucketSteps
      PROVE  AbsObjects = objects /\ AbsThumbs = thumbs /\ AbsUploads = uploads
  <2>1. SeenObjects(r) = objects /\ SeenThumbs(r) = thumbs /\ SeenUploads(r) = uploads
    BY <1>1, <1>3 DEF SeenObjects, SeenThumbs, SeenUploads
  <2> QED BY <2>1, Seen DEF Sees
<1>4. ASSUME req'[r].step \notin BucketSteps
      PROVE  AbsObjects' = objects' /\ AbsThumbs' = thumbs' /\ AbsUploads' = uploads'
  <2>1. SeenObjects(r)' = objects' /\ SeenThumbs(r)' = thumbs' /\ SeenUploads(r)' = uploads'
    BY <1>2, <1>4 DEF SeenObjects, SeenThumbs, SeenUploads
  <2> QED BY <2>1, SeenNext DEF Sees
<1> QED BY <1>3, <1>4

LEMMA PlainStep ==
  ASSUME OnlyOne, NEW r \in Request, UNCHANGED bucket,
         req[r].step \notin BucketSteps, req'[r].step \notin BucketSteps
  PROVE  UNCHANGED <<AbsObjects, AbsThumbs, AbsUploads>>
BY PlainSeen DEF bucket

\* DriveTree's queries read the tables alone.
LEMMA SameQueries ==
  /\ \A d : /\ Tree!Subtree(d) = Subtree(d)
            /\ Tree!LiveFolder(d) <=> LiveFolder(d)
            /\ Tree!TrashedFolder(d) <=> TrashedFolder(d)
            /\ Tree!FilesUnder(d) = FilesUnder(d)
  /\ \A d, p : Tree!IsSameOrAncestor(d, p) <=> IsSameOrAncestor(d, p)
  /\ \A f : /\ Tree!LiveFile(f) <=> LiveFile(f)
            /\ Tree!TrashedFile(f) <=> TrashedFile(f)
            /\ Tree!ThumbsNamed(f) = ThumbsNamed(f)
  /\ \A t : /\ Tree!FolderNamesUnique(t) <=> FolderNamesUnique(t)
            /\ Tree!FileNamesUnique(t) <=> FileNamesUnique(t)
  /\ \A t, ids : Tree!WithoutRows(t, ids) = WithoutRows(t, ids)
  /\ \A row, d : Tree!SameBatch(row, d) <=> SameBatch(row, d)
  /\ \A c : Tree!OldFiles(c) = OldFiles(c) /\ Tree!OldFolders(c) = OldFolders(c)
<1>1. \A S : Tree!ClosedDown(S) <=> ClosedDown(S)
  BY DEF Tree!ClosedDown, ClosedDown
<1>2. \A S : Tree!ClosedUp(S) <=> ClosedUp(S)
  BY DEF Tree!ClosedUp, ClosedUp
<1>3. \A d : Tree!Subtree(d) = Subtree(d)
  BY <1>1 DEF Tree!Subtree, Subtree
<1>4. \A d, p : Tree!IsSameOrAncestor(d, p) <=> IsSameOrAncestor(d, p)
  BY <1>2 DEF Tree!IsSameOrAncestor, IsSameOrAncestor, Tree!Chain, Chain
<1>5. /\ \A d : (Tree!LiveFolder(d) <=> LiveFolder(d)) /\ (Tree!TrashedFolder(d) <=> TrashedFolder(d))
      /\ \A f : (Tree!LiveFile(f) <=> LiveFile(f)) /\ (Tree!TrashedFile(f) <=> TrashedFile(f))
  BY DEF Tree!LiveFolder, Tree!TrashedFolder, Tree!LiveFile, Tree!TrashedFile, Tree!NotDeleted,
         LiveFolder, TrashedFolder, LiveFile, TrashedFile, NotDeleted
<1>6. \A c : Tree!OldFiles(c) = OldFiles(c) /\ Tree!OldFolders(c) = OldFolders(c)
  BY <1>5 DEF Tree!OldFiles, Tree!OldFolders, OldFiles, OldFolders
<1>7. \A d : Tree!FilesUnder(d) = FilesUnder(d) /\ Tree!ThumbsNamed(d) = ThumbsNamed(d)
  BY DEF Tree!FilesUnder, FilesUnder, Tree!ThumbsNamed, ThumbsNamed
<1>8. \A t : (Tree!FolderNamesUnique(t) <=> FolderNamesUnique(t)) /\ (Tree!FileNamesUnique(t) <=> FileNamesUnique(t))
  BY DEF Tree!FolderNamesUnique, FolderNamesUnique, Tree!FileNamesUnique, FileNamesUnique, Tree!NotDeleted, NotDeleted
<1>9. \A t, ids : Tree!WithoutRows(t, ids) = WithoutRows(t, ids)
  BY DEF Tree!WithoutRows, WithoutRows
<1>10. \A row, d : Tree!SameBatch(row, d) <=> SameBatch(row, d)
  BY DEF Tree!SameBatch, SameBatch
<1> QED BY <1>3, <1>4, <1>5, <1>6, <1>7, <1>8, <1>9, <1>10

-----------------------------------------------------------------------------
(* DriveTree's steps keep the bucket in agreement with the table.          *)

LEMMA SameStatuses ==
  ASSUME BucketSeen, DOMAIN files' = DOMAIN files, UNCHANGED <<AbsObjects, AbsThumbs, AbsUploads>>,
         \A f \in DOMAIN files : /\ files'[f].status = files[f].status
                                 /\ files'[f].thumbnail = files[f].thumbnail
                                 /\ files'[f].hasThumb = files[f].hasThumb
  PROVE  BucketSeen'
BY DEF BucketSeen, Finished, Unfinished, ThumbsNamed

LEMMA RowsGo ==
  ASSUME BucketSeen, NEW F, files' = WithoutRows(files, F),
         AbsObjects' = AbsObjects \ Finished(F),
         AbsUploads \ Unfinished(F) \subseteq AbsUploads',
         AbsThumbs \ F \subseteq AbsThumbs', AbsThumbs' \subseteq AbsThumbs
  PROVE  BucketSeen'
<1>1. DOMAIN files' = DOMAIN files \ F /\ \A f \in DOMAIN files' : files'[f] = files[f]
  BY DEF WithoutRows
<1> QED BY <1>1 DEF BucketSeen, Finished, Unfinished, ThumbsNamed

LEMMA FolderStepsKeepBucket ==
  ASSUME TypeOK, BucketSeen,
         \/ \E d \in SubfolderId, p \in FolderId, n \in Name : Tree!CreateFolder(d, p, n)
         \/ \E d \in FolderId, p \in FolderId, n \in Name : Tree!PatchFolder(d, p, n)
         \/ \E d \in FolderId : Tree!TrashFolder(d) \/ Tree!DeleteFolderForever(d) \/ Tree!RestoreFolder(d)
  PROVE  BucketSeen'
<1>1. CASE \/ \E d \in SubfolderId, p \in FolderId, n \in Name : Tree!CreateFolder(d, p, n)
           \/ \E d \in FolderId, p \in FolderId, n \in Name : Tree!PatchFolder(d, p, n)
  <2>1. UNCHANGED <<files, AbsObjects, AbsThumbs, AbsUploads>>
    BY <1>1 DEF Tree!CreateFolder, Tree!PatchFolder
  <2> QED BY <2>1, SameStatuses
<1>2. CASE \E d \in FolderId : Tree!TrashFolder(d) \/ Tree!RestoreFolder(d)
  <2>1. /\ DOMAIN files' = DOMAIN files /\ UNCHANGED <<AbsObjects, AbsThumbs, AbsUploads>>
        /\ \A f \in DOMAIN files : \E t : files'[f] = [files[f] EXCEPT !.deletedAt = t]
    <3>1. ASSUME NEW f \in DOMAIN files
          PROVE  files[f] = [files[f] EXCEPT !.deletedAt = files[f].deletedAt]
      BY DEF TypeOK, FileRow
    <3>2. CASE \E d \in FolderId : Tree!TrashFolder(d)
      BY ZenonT(30), <3>1, <3>2 DEF Tree!TrashFolder
    <3>3. CASE \E d \in FolderId : Tree!RestoreFolder(d)
      BY ZenonT(30), <3>1, <3>3 DEF Tree!RestoreFolder
    <3> QED BY <1>2, <3>2, <3>3
  <2>2. \A f \in DOMAIN files : files[f] \in FileRow
    BY DEF TypeOK
  <2> QED BY <2>1, <2>2, SameStatuses DEF FileRow
<1>3. CASE \E d \in FolderId : Tree!DeleteFolderForever(d)
  <2>1. PICK d \in FolderId : Tree!DeleteFolderForever(d)
    BY <1>3
  <2> DEFINE F == FilesUnder(Subtree(d))
  <2>2. /\ AbsObjects' = AbsObjects \ {f \in F : files[f].status = "complete"}
        /\ AbsUploads' = AbsUploads \ {f \in F : files[f].status = "pending"}
        /\ files' = WithoutRows(files, F) /\ AbsThumbs' = AbsThumbs
    BY <2>1, SameQueries DEF Tree!DeleteFolderForever
  <2>3. Finished(F) = {f \in F : files[f].status = "complete"} /\ Unfinished(F) = {f \in F : files[f].status = "pending"}
    BY DEF Finished, Unfinished, FilesUnder
  <2> HIDE DEF F
  <2> QED BY <2>2, <2>3, RowsGo
<1> QED BY <1>1, <1>2, <1>3

LEMMA FileStepsKeepBucket ==
  ASSUME TypeOK, BucketSeen, NEW f \in FileId,
         \/ \E d \in FolderId, n \in Name : Tree!InitiateUpload(f, d, n) \/ Tree!PatchFile(f, d, n)
         \/ Tree!CompleteUpload(f) \/ Tree!TrashFile(f) \/ Tree!RestoreFile(f) \/ Tree!GenerateThumbnail(f)
  PROVE  BucketSeen'
<1>0. \A g \in DOMAIN files : files[g] \in FileRow
  BY DEF TypeOK
<1>1. CASE \E d \in FolderId, n \in Name : Tree!InitiateUpload(f, d, n)
  <2>1. /\ f \notin DOMAIN files \cup AbsObjects \cup AbsThumbs \cup AbsUploads
        /\ DOMAIN files' = DOMAIN files \cup {f} /\ \A g \in DOMAIN files : files'[g] = files[g]
        /\ files'[f].status = "pending" /\ files'[f].thumbnail = "none" /\ ~files'[f].hasThumb
        /\ AbsUploads' = AbsUploads \cup {f} /\ UNCHANGED <<AbsObjects, AbsThumbs>>
    BY <1>1 DEF Tree!InitiateUpload
  <2> QED BY <2>1 DEF BucketSeen, Finished, Unfinished, ThumbsNamed
<1>2. CASE Tree!CompleteUpload(f)
  <2>1. /\ f \in DOMAIN files /\ files[f].status = "pending"
        /\ DOMAIN files' = DOMAIN files /\ \A g \in DOMAIN files \ {f} : files'[g] = files[g]
        /\ files'[f] = [files[f] EXCEPT !.status = "complete"]
        /\ AbsUploads' = AbsUploads \ {f} /\ AbsObjects' = AbsObjects \cup {f} /\ UNCHANGED AbsThumbs
    BY <1>2, SameQueries DEF Tree!CompleteUpload, LiveFile
  <2>2. files'[f].status = "complete" /\ files'[f].thumbnail = files[f].thumbnail /\ files'[f].hasThumb = files[f].hasThumb
    BY <1>0, <2>1 DEF FileRow
  <2>3. Finished(DOMAIN files)' = Finished(DOMAIN files) \cup {f}
    BY <2>1, <2>2 DEF Finished
  <2>4. Unfinished(DOMAIN files)' = Unfinished(DOMAIN files) \ {f}
    BY <2>1, <2>2 DEF Unfinished
  <2>5. ThumbsNamed(DOMAIN files)' = ThumbsNamed(DOMAIN files)
    BY <2>1, <2>2 DEF ThumbsNamed
  <2>6. \A g \in DOMAIN files' :
           /\ files'[g].status = "pending" => files'[g].thumbnail = "none"
           /\ files'[g].thumbnail = "none" => ~files'[g].hasThumb
    <3>1. ASSUME NEW g \in DOMAIN files, g # f
          PROVE  /\ files'[g].status = "pending" => files'[g].thumbnail = "none"
                 /\ files'[g].thumbnail = "none" => ~files'[g].hasThumb
      BY <2>1, <3>1 DEF BucketSeen
    <3>2. files[f].thumbnail = "none" => ~files[f].hasThumb
      BY <2>1 DEF BucketSeen
    <3> QED BY <2>1, <2>2, <3>1, <3>2
  <2>7. Finished(DOMAIN files)' = AbsObjects' /\ Unfinished(DOMAIN files)' \subseteq AbsUploads'
    BY <2>1, <2>3, <2>4 DEF BucketSeen
  <2>8. ThumbsNamed(DOMAIN files)' = AbsThumbs' \cap DOMAIN files'
    BY <2>1, <2>5 DEF BucketSeen
  <2> QED BY <2>6, <2>7, <2>8 DEF BucketSeen
<1>3. CASE \/ \E d \in FolderId, n \in Name : Tree!PatchFile(f, d, n)
           \/ Tree!TrashFile(f) \/ Tree!RestoreFile(f)
  <2>1. /\ f \in DOMAIN files /\ UNCHANGED <<AbsObjects, AbsThumbs, AbsUploads>>
        /\ DOMAIN files' = DOMAIN files /\ \A g \in DOMAIN files \ {f} : files'[g] = files[g]
        /\ \/ \E d, n : files'[f] = [files[f] EXCEPT !.folder = d, !.name = n]
           \/ \E t : files'[f] = [files[f] EXCEPT !.deletedAt = t]
    <3>1. CASE \E d \in FolderId, n \in Name : Tree!PatchFile(f, d, n)
      <4>1. PICK d \in FolderId, n \in Name : Tree!PatchFile(f, d, n)
        BY <3>1
      <4>2. /\ f \in DOMAIN files /\ UNCHANGED <<AbsObjects, AbsThumbs, AbsUploads>>
            /\ files' = [files EXCEPT ![f].folder = d, ![f].name = n]
        BY <4>1, SameQueries DEF Tree!PatchFile, LiveFile
      <4>3. files'[f] = [files[f] EXCEPT !.folder = d, !.name = n]
        BY <4>2
      <4> QED BY <4>2, <4>3
    <3>2. CASE Tree!TrashFile(f)
      BY <3>2, SameQueries DEF Tree!TrashFile, LiveFile
    <3>3. CASE Tree!RestoreFile(f)
      BY <3>3, SameQueries DEF Tree!RestoreFile, TrashedFile
    <3> QED BY <1>3, <3>1, <3>2, <3>3
  <2>2. \A g \in DOMAIN files : /\ files'[g].status = files[g].status
                                 /\ files'[g].thumbnail = files[g].thumbnail
                                 /\ files'[g].hasThumb = files[g].hasThumb
    <3>1. files[f] \in FileRow
      BY <1>0, <2>1
    <3>2. /\ files'[f].status = files[f].status /\ files'[f].thumbnail = files[f].thumbnail
          /\ files'[f].hasThumb = files[f].hasThumb
      <4>1. CASE \E d, n : files'[f] = [files[f] EXCEPT !.folder = d, !.name = n]
        BY <3>1, <4>1 DEF FileRow
      <4>2. CASE \E t : files'[f] = [files[f] EXCEPT !.deletedAt = t]
        BY <3>1, <4>2 DEF FileRow
      <4> QED BY <2>1, <4>1, <4>2
    <3> QED BY <2>1, <3>2
  <2> QED BY <2>1, <2>2, SameStatuses
<1>4. CASE Tree!GenerateThumbnail(f)
  <2>1. /\ f \in DOMAIN files /\ files[f].status = "complete" /\ files[f].thumbnail = "none"
        /\ DOMAIN files' = DOMAIN files /\ \A g \in DOMAIN files \ {f} : files'[g] = files[g]
        /\ UNCHANGED <<AbsObjects, AbsUploads>>
        /\ \/ AbsThumbs' = AbsThumbs \cup {f}
              /\ files'[f] = [files[f] EXCEPT !.thumbnail = "ready", !.hasThumb = TRUE]
           \/ AbsThumbs' = AbsThumbs /\ files'[f] = [files[f] EXCEPT !.thumbnail = "failed"]
    BY <1>4, SameQueries DEF Tree!GenerateThumbnail, LiveFile
  <2>2. /\ files'[f].status = "complete"
        /\ \/ AbsThumbs' = AbsThumbs \cup {f} /\ files'[f].thumbnail = "ready" /\ files'[f].hasThumb
           \/ AbsThumbs' = AbsThumbs /\ files'[f].thumbnail = "failed" /\ files'[f].hasThumb = files[f].hasThumb
    BY <1>0, <2>1 DEF FileRow
  <2> QED BY <2>1, <2>2 DEF BucketSeen, Finished, Unfinished, ThumbsNamed
<1> QED BY <1>1, <1>2, <1>3, <1>4

LEMMA RemovalsKeepBucket ==
  ASSUME TypeOK, BucketSeen, NEW f \in FileId,
         \/ Tree!DeletePendingFile(f) \/ Tree!DeleteFileForever(f) \/ Tree!CleanupStaleUpload(f)
         \/ \E cutoff \in Cutoff : Tree!PurgeFile(f, cutoff)
  PROVE  BucketSeen'
<1>1. \A g \in DOMAIN files : files[g] \in FileRow
  BY DEF TypeOK
<1>2. /\ f \in DOMAIN files /\ files' = WithoutRows(files, {f})
      /\ AbsThumbs \ {f} \subseteq AbsThumbs' /\ AbsThumbs' \subseteq AbsThumbs
      /\ \/ files[f].status = "pending" /\ AbsUploads' = AbsUploads \ {f} /\ AbsObjects' = AbsObjects
         \/ AbsUploads' = AbsUploads /\ AbsObjects' = AbsObjects \ {f}
  BY SameQueries DEF Tree!DeletePendingFile, Tree!DeleteFileForever, Tree!CleanupStaleUpload, Tree!PurgeFile,
                     TrashedFile, OldFiles, ThumbsNamed
<1>3. Finished({f}) = {f} \cap AbsObjects /\ (files[f].status = "pending" => Unfinished({f}) = {f} /\ Finished({f}) = {})
  BY <1>2 DEF BucketSeen, Finished, Unfinished
<1>4. AbsObjects' = AbsObjects \ Finished({f}) /\ AbsUploads \ Unfinished({f}) \subseteq AbsUploads'
  BY <1>2, <1>3
<1> QED BY <1>2, <1>4, RowsGo

LEMMA PurgeKeepsBucket ==
  ASSUME TypeOK, BinOrder, BucketSeen, NEW d \in FolderId, NEW cutoff \in Cutoff, Tree!PurgeFolder(d, cutoff)
  PROVE  BucketSeen'
<1> DEFINE F == FilesUnder(Subtree(d))
<1>1. /\ d \in OldFolders(cutoff) /\ OldFiles(cutoff) = {}
      /\ files' = WithoutRows(files, F) /\ UNCHANGED <<AbsObjects, AbsThumbs, AbsUploads>>
  BY SameQueries DEF Tree!PurgeFolder
<1>2. F = {}
  <2> SUFFICES ASSUME NEW f \in F PROVE FALSE
    OBVIOUS
  <2>1. TrashedFolder(d) /\ d \in DOMAIN folders /\ folders[d].deletedAt < cutoff /\ f \in DOMAIN files
    BY <1>1 DEF OldFolders, TrashedFolder, FilesUnder
  <2>2. TrashedFile(f) /\ files[f].deletedAt <= folders[d].deletedAt
    BY <2>1, TrashedUnder
  <2>3. files[f].deletedAt \in Nat /\ folders[d].deletedAt \in Nat /\ cutoff \in Nat
    BY <2>1, MaxClockAssumption DEF TypeOK, FileRow, FolderRow, Time, Cutoff
  <2>4. files[f].deletedAt < cutoff
    BY <2>1, <2>2, <2>3
  <2> QED BY <1>1, <2>1, <2>2, <2>4 DEF OldFiles
<1>3. Finished(F) = {} /\ Unfinished(F) = {}
  BY <1>2 DEF Finished, Unfinished
<1> HIDE DEF F
<1> QED BY <1>1, <1>3, RowsGo

LEMMA BucketStays ==
  ASSUME TypeOK, BinOrder, BucketSeen, [Tree!Next]_(Tree!vars)
  PROVE  BucketSeen'
<1>1. CASE UNCHANGED Tree!vars
  BY <1>1, SameStatuses DEF Tree!vars
<1>2. CASE Tree!Next
  BY <1>2, FolderStepsKeepBucket, FileStepsKeepBucket, RemovalsKeepBucket, PurgeKeepsBucket
     DEF Tree!Next, Tree!FolderId, FolderId, Tree!Cutoff, Cutoff
<1> QED BY <1>1, <1>2

-----------------------------------------------------------------------------
(* Starting and reading is nothing to DriveTree.                           *)

LEMMA StartsMap ==
  ASSUME OnlyOne, HandlerInv, NEW r \in Request, StepOf(r),
         StartFolderRequest(r) \/ StartFileRequest(r) \/ StartScript(r)
  PROVE  UNCHANGED Tree!vars
<1>1. req[r] = Idle /\ UNCHANGED vars
  BY DEF StartFolderRequest, StartFileRequest, StartScript, StartCreateFolder, StartPatchFolder,
     StartDeleteFolder, StartRestoreFolder, StartInitiateUpload, StartPatchFile, StartCompleteUpload,
     StartDeleteFile, StartRestoreFile, StartThumbnail, StartCleanup, StartPurge, Begin
<1>2. Arrived(r)
  BY FolderStartArrived, FileStartArrived, ScriptStartArrived
<1>3. req[r].step = "idle"
  BY <1>1 DEF Idle
<1>4. req'[r].step \notin BucketSteps
  BY <1>2, <1>3 DEF Arrived, ArrivedFolder, ArrivedTree, ArrivedUpload, ArrivedFile, ArrivedThumb, ArrivedScript,
     From, Looks, Starts, BucketSteps, At, DeleteStored, CleanupAbort, PurgeObject, TakeUpCleanup, TakeUpPurge
<1>5. req[r].step \notin BucketSteps /\ AbsClock = clock /\ AbsClock' = clock'
  BY <1>3, SameClock DEF BucketSteps
<1> QED BY <1>1, <1>4, <1>5, PlainStep DEF Tree!vars, vars, bucket

LEMMA ReadsMap ==
  ASSUME OnlyOne, HandlerInv, NEW r \in Request, StepOf(r),
         \/ ReadNewParent(r) \/ CheckCycle(r) \/ ReadSubtree(r) \/ ReadParent(r)
         \/ ReadDest(r) \/ ReadHome(r) \/ ReadSource(r) \/ PresignThumb(r)
         \/ ReadOldFolders(r) \/ ReadDoomed(r)
  PROVE  UNCHANGED Tree!vars
<1>0. ReqTypeOK /\ AbsClock = clock /\ AbsClock' = clock'
  <2>1. req[r].step \notin {"beginTrash", "trashTree"}
    BY DEF ReadNewParent, CheckCycle, ReadSubtree, ReadParent, ReadDest, ReadHome, ReadSource, PresignThumb,
           ReadOldFolders, ReadDoomed, At
  <2> QED BY <2>1, SameClock DEF HandlerInv
<1>1. CASE ReadDoomed(r)
  <2>1. /\ UNCHANGED vars /\ At(r, "readDoomed") /\ At(r, "deleteStored")' /\ req'[r].left = req'[r].rows
    BY <1>0, <1>1, Locals DEF ReadDoomed, At, LocalRow
  <2>2. req[r].step \notin BucketSteps
    BY <2>1 DEF BucketSteps, At
  <2>3. Finished(Taken(r))' = {} /\ Unfinished(Taken(r))' = {} /\ TakenThumb(r)' = {}
    BY <2>1 DEF Finished, Unfinished, Taken, TakenThumb, At
  <2>4. SeenObjects(r)' = objects' /\ SeenThumbs(r)' = thumbs' /\ SeenUploads(r)' = uploads'
    BY <2>1, <2>3 DEF SeenObjects, SeenThumbs, SeenUploads, FileAt, At
  <2>5. UNCHANGED <<AbsObjects, AbsThumbs, AbsUploads>>
    BY <2>1, <2>2, <2>4, PlainSeen, SeenNext DEF Sees, vars
  <2> QED BY <1>0, <2>1, <2>5 DEF Tree!vars, vars
<1>2. CASE ~ReadDoomed(r)
  <2>1. UNCHANGED vars
    BY <1>2 DEF ReadNewParent, CheckCycle, ReadSubtree, ReadParent, ReadDest, ReadHome, ReadSource, PresignThumb,
                ReadOldFolders
  <2>2. req[r].step \notin BucketSteps
    BY <1>2 DEF ReadNewParent, CheckCycle, ReadSubtree, ReadParent, ReadDest, ReadHome, ReadSource, PresignThumb,
                ReadOldFolders, At, BucketSteps
  <2>3. CASE Done(r)
    BY <2>1, <2>2, <2>3, <1>0, DoneMoves, PlainStep DEF Idle, BucketSteps, Tree!vars, vars, bucket
  <2>4. CASE ~Done(r)
    <3>1. req'[r].step \notin BucketSteps
      <4>1. CASE ReadNewParent(r) \/ CheckCycle(r) \/ ReadParent(r) \/ ReadDest(r) \/ ReadHome(r) \/ ReadSource(r)
        <5>1. \E s \in {"checkCycle", "updateFolder", "readSubtreeToRestore", "updateFile", "restoreFileRow",
                        "putThumb", "markFailed"} : Go(r, s)
          BY <2>4, <4>1 DEF ReadNewParent, CheckCycle, ReadParent, ReadDest, ReadHome, ReadSource
        <5> QED BY <5>1, <1>0, GoMoves DEF BucketSteps
      <4>2. CASE ReadSubtree(r) \/ ReadOldFolders(r)
        BY <2>4, <4>2, <1>0, Locals DEF ReadSubtree, ReadOldFolders, BucketSteps, LocalRow
      <4> QED BY <1>2, <2>4, <4>1, <4>2 DEF PresignThumb
    <3> QED BY <1>0, <2>1, <2>2, <3>1, PlainStep DEF Tree!vars, vars, bucket
  <2> QED BY <2>3, <2>4
<1> QED BY <1>1, <1>2

-----------------------------------------------------------------------------
(* Nor is what a handler does to the bucket before its row is written.     *)

LEMMA UploadsMap ==
  ASSUME OnlyOne, HandlerInv, AloneInv, NEW r \in Request, StepOf(r),
         CreateUpload(r) \/ AbortUpload(r) \/ Stitch(r)
  PROVE  UNCHANGED Tree!vars
<1> DEFINE f == req[r].file
<1>0. ReqTypeOK /\ SeesFiles(r) /\ SeesScript(r) /\ Gone(r) /\ BucketSeen
  BY DEF HandlerInv, AloneInv
<1>1. UNCHANGED tree /\ UNCHANGED thumbs /\ UNCHANGED AbsClock
  BY SameClock DEF CreateUpload, AbortUpload, Stitch, At, tree
<1>2. CASE CreateUpload(r)
  <2>1. /\ At(r, "createUpload") /\ At(r, "insertFile")' /\ req'[r].file = f
        /\ uploads' = uploads \cup {f} /\ f \notin uploads /\ objects' = objects
    BY <1>0, <1>2, GoMoves DEF CreateUpload, At, SeesFiles
  <2>2. AbsObjects = objects /\ AbsThumbs = thumbs /\ AbsUploads = uploads
    BY <2>1, PlainSeen DEF At, BucketSteps
  <2>3. SeenObjects(r)' = objects /\ SeenThumbs(r)' = thumbs /\ SeenUploads(r)' = uploads
    BY <1>1, <2>1 DEF SeenObjects, SeenThumbs, SeenUploads, FileAt, Taken, TakenThumb, Finished, Unfinished, At
  <2> QED BY <1>1, <2>2, <2>3, SeenNext DEF Sees, Tree!vars, tree
<1>3. CASE AbortUpload(r)
  <2>1. At(r, "abortUpload") /\ req'[r] = Idle /\ uploads' = uploads \ {f} /\ objects' = objects
    BY <1>0, <1>3, DoneMoves DEF AbortUpload
  <2>2. AbsObjects' = objects /\ AbsThumbs' = thumbs /\ AbsUploads' = uploads \ {f}
    BY <1>1, <2>1, PlainSeen DEF Idle, BucketSteps
  <2>3. SeenObjects(r) = objects /\ SeenThumbs(r) = thumbs /\ SeenUploads(r) = uploads \ {f}
    BY <2>1 DEF SeenObjects, SeenThumbs, SeenUploads, FileAt, Taken, TakenThumb, Finished, Unfinished, At
  <2> QED BY <1>1, <2>2, <2>3, Seen DEF Sees, Tree!vars, tree
<1>4. CASE Stitch(r)
  <2>1. At(r, "stitch") /\ f \in DOMAIN files /\ files[f].status = "pending"
    BY <1>0, <1>4 DEF Stitch, SeesFiles, CompleteSteps, At, LiveFile
  <2>2. AbsObjects = objects /\ AbsThumbs = thumbs /\ AbsUploads = uploads
    BY <2>1, PlainSeen DEF At, BucketSteps
  <2>3. f \notin objects
    BY <1>0, <2>1, <2>2 DEF BucketSeen, Finished
  <2>4. CASE f \in uploads
    <3>1. /\ At(r, "markComplete")' /\ req'[r].file = f
          /\ uploads' = uploads \ {f} /\ objects' = objects \cup {f}
      BY <1>0, <1>4, <2>4, GoMoves DEF Stitch, At
    <3>2. SeenObjects(r)' = objects /\ SeenThumbs(r)' = thumbs /\ SeenUploads(r)' = uploads
      BY <1>1, <2>3, <2>4, <3>1 DEF SeenObjects, SeenThumbs, SeenUploads, FileAt, Taken, TakenThumb,
                                    Finished, Unfinished, At
    <3> QED BY <1>1, <2>2, <3>2, SeenNext DEF Sees, Tree!vars, tree
  <2>5. CASE f \notin uploads
    <3>1. req'[r] = Idle /\ UNCHANGED <<uploads, objects>>
      BY <1>0, <1>4, <2>5, DoneMoves DEF Stitch
    <3>2. AbsObjects' = objects /\ AbsThumbs' = thumbs /\ AbsUploads' = uploads
      BY <1>1, <3>1, PlainSeen DEF Idle, BucketSteps
    <3> QED BY <1>1, <2>2, <3>2 DEF Tree!vars, tree
  <2> QED BY <2>4, <2>5
<1> QED BY <1>2, <1>3, <1>4

\* A finished file out of the hands of a request has its object, an
\* unfinished one its upload, one that names a thumbnail that.
LEMMA StillThere ==
  ASSUME OnlyOne, BucketSeen, NEW r \in Request, NEW f \in DOMAIN files, f \notin Taken(r)
  PROVE  /\ files[f].status = "complete" => f \in objects
         /\ files[f].status = "pending" /\ ~At(r, "markComplete") => f \in uploads /\ f \notin objects
         /\ files[f].hasThumb /\ f \notin TakenThumb(r) => f \in thumbs
<1>1. /\ files[f].status = "complete" => f \in SeenObjects(r)
      /\ files[f].status = "pending" => f \in SeenUploads(r) /\ f \notin SeenObjects(r)
      /\ files[f].hasThumb => f \in SeenThumbs(r)
  BY Seen DEF BucketSeen, Sees, Finished, Unfinished, ThumbsNamed
<1> QED BY <1>1 DEF SeenObjects, SeenUploads, SeenThumbs, Finished, Unfinished, FileAt

LEMMA FileDeletesMap ==
  ASSUME OnlyOne, HandlerInv, AloneInv, NEW r \in Request, StepOf(r),
         AbortPending(r) \/ DeleteObject(r) \/ DeleteThumb(r)
  PROVE  UNCHANGED Tree!vars
<1> DEFINE f == req[r].file
<1>0. ReqTypeOK /\ SeesFiles(r) /\ SeesScript(r) /\ Gone(r) /\ BucketSeen
  BY DEF HandlerInv, AloneInv
<1>1. /\ UNCHANGED tree /\ req[r].cutoff = 0 /\ f \in DOMAIN files /\ req[r].marked = ThumbsNamed({f})
      /\ UNCHANGED AbsClock
  <2>1. UNCHANGED tree /\ req[r].cutoff = 0 /\ f \in DOMAIN files /\ req[r].marked = ThumbsNamed({f})
    BY <1>0 DEF AbortPending, DeleteObject, DeleteThumb, SeesFiles, SeesScript, PurgeSteps, At, TrashedFile
  <2> QED BY <2>1, SameClock DEF AbortPending, DeleteObject, DeleteThumb, At, tree
<1>2. /\ Finished({f}) = {x \in {f} : files[f].status = "complete"}
      /\ Unfinished({f}) = {x \in {f} : files[f].status = "pending"}
      /\ Finished({}) = {} /\ Unfinished({}) = {}
      /\ \A F : Finished(F)' = Finished(F) /\ Unfinished(F)' = Unfinished(F)
  BY <1>1 DEF Finished, Unfinished, tree
<1>3. CASE AbortPending(r)
  <2>0. At(r, "abortPending") /\ files[f].status = "pending"
    BY <1>0, <1>3 DEF AbortPending, SeesFiles
  <2>1. /\ At(r, "abortPending") /\ files[f].status = "pending" /\ ~files[f].hasThumb
        /\ At(r, "deleteRow")' /\ req'[r].file = f /\ req'[r].marked = {} /\ req'[r].cutoff = 0
        /\ uploads' = uploads \ {f} /\ UNCHANGED <<objects, thumbs>>
    <3>1. ~files[f].hasThumb /\ req[r].marked = {}
      BY <1>0, <1>1, <2>0 DEF BucketSeen, ThumbsNamed
    <3> QED BY <1>0, <1>1, <1>3, <2>0, <3>1, GoMoves DEF AbortPending, At
  <2>2. AbsObjects = objects /\ AbsThumbs = thumbs /\ AbsUploads = uploads
    BY <2>1, PlainSeen DEF At, BucketSteps
  <2>3. f \in uploads
    BY <1>0, <1>1, <2>1, <2>2 DEF BucketSeen, Unfinished
  <2>4. SeenObjects(r)' = objects /\ SeenThumbs(r)' = thumbs /\ SeenUploads(r)' = uploads
    BY <1>2, <2>1, <2>3 DEF SeenObjects, SeenThumbs, SeenUploads, FileAt, Taken, TakenThumb, At
  <2> QED BY <1>1, <2>2, <2>4, SeenNext DEF Sees, Tree!vars, tree
<1>4. CASE DeleteObject(r)
  <2>1. /\ At(r, "deleteObject") /\ files[f].status = "complete"
        /\ req'[r].file = f /\ req'[r].marked = ThumbsNamed({f}) /\ req'[r].cutoff = 0
        /\ objects' = objects \ {f} /\ UNCHANGED <<uploads, thumbs>>
        /\ IF f \in ThumbsNamed({f}) THEN At(r, "deleteThumb")' ELSE At(r, "deleteRow")'
    BY <1>0, <1>1, <1>4, GoMoves DEF DeleteObject, At, SeesFiles
  <2>2. AbsObjects = objects /\ AbsThumbs = thumbs /\ AbsUploads = uploads
    BY <2>1, PlainSeen DEF At, BucketSteps
  <2>3. f \in objects
    BY <1>0, <1>1, <2>1, <2>2 DEF BucketSeen, Finished
  <2>4. Taken(r)' = {f} /\ TakenThumb(r)' = {}
    BY <2>1 DEF Taken, TakenThumb, At, ThumbsNamed
  <2>5. SeenObjects(r)' = objects /\ SeenThumbs(r)' = thumbs /\ SeenUploads(r)' = uploads
    BY <1>2, <2>1, <2>3, <2>4 DEF SeenObjects, SeenThumbs, SeenUploads, FileAt, At
  <2> QED BY <1>1, <2>2, <2>5, SeenNext DEF Sees, Tree!vars, tree
<1>5. CASE DeleteThumb(r)
  <2>1. /\ At(r, "deleteThumb") /\ f \in req[r].marked /\ files[f].status = "complete"
        /\ At(r, "deleteRow")' /\ req'[r].file = f /\ req'[r].marked = req[r].marked /\ req'[r].cutoff = 0
        /\ thumbs' = thumbs \ {f} /\ UNCHANGED <<uploads, objects>>
    BY <1>0, <1>1, <1>5, GoMoves DEF DeleteThumb, At, SeesFiles
  <2>2. Taken(r) = {f} /\ Taken(r)' = {f} /\ TakenThumb(r) = {} /\ TakenThumb(r)' = {f}
    BY <2>1 DEF Taken, TakenThumb, At
  <2>3. f \in SeenThumbs(r)
    BY <1>0, <1>1, <2>1, Seen DEF Sees, BucketSeen, ThumbsNamed
  <2>4. f \in thumbs
    BY <2>1, <2>2, <2>3 DEF SeenThumbs
  <2>5. SeenObjects(r)' = SeenObjects(r) /\ SeenThumbs(r)' = SeenThumbs(r) /\ SeenUploads(r)' = SeenUploads(r)
    BY <1>1, <1>2, <2>1, <2>2, <2>4 DEF SeenObjects, SeenThumbs, SeenUploads, FileAt, At
  <2> QED BY <1>1, <2>5, Seen, SeenNext DEF Sees, Tree!vars, tree
<1> QED BY <1>3, <1>4, <1>5

LEMMA PutThumbMaps ==
  ASSUME OnlyOne, HandlerInv, AloneInv, NEW r \in Request, StepOf(r), PutThumb(r)
  PROVE  UNCHANGED Tree!vars
<1> DEFINE f == req[r].file
<1>0. ReqTypeOK /\ SeesFiles(r) /\ BucketSeen
  BY DEF HandlerInv, AloneInv
<1>1. /\ UNCHANGED <<tree, objects, uploads>> /\ thumbs' = thumbs \cup {f}
      /\ At(r, "putThumb") /\ At(r, "markReady")' /\ req'[r].file = f
      /\ f \in DOMAIN files /\ files[f].thumbnail = "none"
  BY <1>0, GoMoves DEF PutThumb, StoreThumb, At, SeesFiles, ThumbSteps, LiveFile
<1>5. UNCHANGED AbsClock
  BY <1>1, SameClock DEF At, tree
<1>2. AbsObjects = objects /\ AbsThumbs = thumbs /\ AbsUploads = uploads
  BY <1>1, PlainSeen DEF At, BucketSteps
<1>3. f \notin thumbs
  BY <1>0, <1>1, <1>2 DEF BucketSeen, ThumbsNamed
<1>4. SeenObjects(r)' = objects /\ SeenThumbs(r)' = thumbs /\ SeenUploads(r)' = uploads
  BY <1>1, <1>3 DEF SeenObjects, SeenThumbs, SeenUploads, FileAt, Taken, TakenThumb, Finished, Unfinished, At
<1> QED BY <1>1, <1>2, <1>4, <1>5, SeenNext DEF Sees, Tree!vars, tree

LEMMA DeleteStoredMaps ==
  ASSUME OnlyOne, HandlerInv, AloneInv, NEW r \in Request, StepOf(r), NEW f \in FileId, DeleteStored(r, f)
  PROVE  UNCHANGED Tree!vars
<1>0. ReqTypeOK /\ TypeOK /\ SeesFolders(r) /\ SeesScript(r) /\ BucketSeen /\ Fresh(r)
  BY DEF HandlerInv, AloneInv, ReqTypeOK
<1>1. /\ UNCHANGED <<tree, thumbs>> /\ At(r, "deleteStored") /\ f \in req[r].left /\ req[r].cutoff = 0
      /\ req'[r] = [req[r] EXCEPT !.left = @ \ {f}]
      /\ IF f \in req[r].marked THEN objects' = objects \ {f} /\ uploads' = uploads
                                ELSE uploads' = uploads \ {f} /\ objects' = objects
  BY <1>0, Locals DEF DeleteStored, SeesScript, PurgeSteps, At
<1>2. At(r, "deleteStored")' /\ req'[r].rows = req[r].rows /\ req'[r].left = req[r].left \ {f} /\ req'[r].cutoff = 0
  BY <1>0, <1>1, Locals DEF LocalRow, At
<1>3. Taken(r) = req[r].rows \ req[r].left /\ Taken(r)' = Taken(r) \cup {f} /\ TakenThumb(r) = {} /\ TakenThumb(r)' = {}
  BY <1>0, <1>1, <1>2 DEF Taken, TakenThumb, At, Fresh
<1>4. f \in DOMAIN files /\ f \notin Taken(r) /\ (f \in req[r].marked <=> files[f].status = "complete")
  BY <1>0, <1>1, <1>3 DEF SeesFolders, Fresh, FilesUnder, Finished, At
<1>5. files[f].status \in {"pending", "complete"}
  BY <1>0, <1>4 DEF TypeOK, FileRow
<1>6. /\ files[f].status = "complete" => f \in objects
      /\ files[f].status = "pending" => f \in uploads
  BY <1>0, <1>1, <1>4, StillThere DEF At
<1>7. /\ Finished(Taken(r))' = Finished(Taken(r)) \cup (IF files[f].status = "complete" THEN {f} ELSE {})
      /\ Unfinished(Taken(r))' = Unfinished(Taken(r)) \cup (IF files[f].status = "pending" THEN {f} ELSE {})
  BY <1>1, <1>3, <1>4 DEF Finished, Unfinished, tree
<1>8. SeenObjects(r)' = SeenObjects(r) /\ SeenThumbs(r)' = SeenThumbs(r) /\ SeenUploads(r)' = SeenUploads(r)
  <2>1. \A s \in {"markComplete", "markReady", "insertFile", "abortUpload"} : FileAt(r, s) = {} /\ FileAt(r, s)' = {}
    BY <1>1, <1>2 DEF FileAt, At
  <2>2. SeenThumbs(r)' = SeenThumbs(r)
    BY <1>1, <1>3, <2>1 DEF SeenThumbs
  <2>3. CASE files[f].status = "complete"
    <3>1. f \in objects /\ objects' = objects \ {f} /\ uploads' = uploads
      BY <1>1, <1>4, <1>6, <2>3
    <3> QED BY <1>1, <1>2, <1>7, <2>1, <2>2, <2>3, <3>1 DEF SeenObjects, SeenUploads
  <2>4. CASE files[f].status = "pending"
    <3>1. f \in uploads /\ uploads' = uploads \ {f} /\ objects' = objects
      BY <1>1, <1>4, <1>6, <2>4
    <3> QED BY <1>1, <1>2, <1>7, <2>1, <2>2, <2>4, <3>1 DEF SeenObjects, SeenUploads
  <2> QED BY <1>5, <2>3, <2>4
<1>9. UNCHANGED AbsClock
  BY <1>1, SameClock DEF At, tree
<1> QED BY <1>1, <1>8, <1>9, Seen, SeenNext DEF Sees, Tree!vars, tree

LEMMA TakeUpFile ==
  ASSUME ReqTypeOK, NEW r \in Request, NEW f \in FileId, TakeUpCleanup(r, f) \/ TakeUpPurge(r, f)
  PROVE  /\ f \in req[r].left /\ req'[r].file = f /\ req'[r].left = req[r].left \ {f}
         /\ req'[r].marked = req[r].marked /\ req'[r].cutoff = req[r].cutoff
         /\ req'[r].step = IF At(r, "cleanup") THEN "cleanupRow"
                           ELSE IF f \in req[r].marked THEN "purgeThumb" ELSE "purgeRow"
         /\ At(r, "cleanup") <=> TakeUpCleanup(r, f)
         /\ At(r, "purge") <=> TakeUpPurge(r, f)
BY Locals DEF TakeUpCleanup, TakeUpPurge, LocalRow, At

LEMMA ScriptTakesMap ==
  ASSUME OnlyOne, HandlerInv, AloneInv, NEW r \in Request, StepOf(r), NEW f \in FileId,
         CleanupAbort(r, f) \/ PurgeObject(r, f)
  PROVE  UNCHANGED Tree!vars
<1>0. ReqTypeOK /\ TypeOK /\ SeesScript(r) /\ BucketSeen
  BY DEF HandlerInv, AloneInv, ReqTypeOK
<1>1. UNCHANGED <<tree, thumbs>> /\ (TakeUpCleanup(r, f) \/ TakeUpPurge(r, f)) /\ UNCHANGED AbsClock
  BY SameClock DEF CleanupAbort, PurgeObject, TakeUpCleanup, TakeUpPurge, At, tree
<1>2. /\ f \in req[r].left /\ req'[r].file = f /\ req'[r].cutoff = req[r].cutoff
      /\ req[r].step \notin BucketSteps
      /\ Taken(r)' = {f} /\ TakenThumb(r)' = {f} \cap (IF At(r, "purge") /\ f \notin req[r].marked THEN req[r].marked ELSE {})
      /\ \A s \in {"markComplete", "markReady", "insertFile", "abortUpload"} : FileAt(r, s)' = {}
  BY <1>0, <1>1, TakeUpFile DEF BucketSteps, At, Taken, TakenThumb, FileAt
<1>3. AbsObjects = objects /\ AbsThumbs = thumbs /\ AbsUploads = uploads
  BY <1>2, PlainSeen
<1>4. f \in DOMAIN files /\ (At(r, "cleanup") => files[f].status = "pending")
  BY <1>0, <1>1, <1>2, TakeUpFile DEF SeesScript, InHand, CleanupSteps, Unfinished, OldFiles, At
<1>5. files[f].status \in {"pending", "complete"}
  BY <1>0, <1>4 DEF TypeOK, FileRow
<1>6. /\ files[f].status = "complete" => f \in objects
      /\ files[f].status = "pending" => f \in uploads /\ f \notin objects
  BY <1>0, <1>3, <1>4 DEF BucketSeen, Finished, Unfinished
<1>7. /\ Finished(Taken(r))' = IF files[f].status = "complete" THEN {f} ELSE {}
      /\ Unfinished(Taken(r))' = IF files[f].status = "pending" THEN {f} ELSE {}
  BY <1>1, <1>2, <1>4 DEF Finished, Unfinished, tree
<1>8. SeenThumbs(r)' = thumbs
  BY <1>1, <1>2 DEF SeenThumbs
<1>9. CASE CleanupAbort(r, f)
  <2>1. uploads' = uploads \ {f} /\ objects' = objects /\ files[f].status = "pending" /\ req'[r].cutoff = 0
    BY <1>0, <1>2, <1>4, <1>9, TakeUpFile DEF CleanupAbort, SeesScript, PurgeSteps, At
  <2>2. SeenObjects(r)' = objects /\ SeenUploads(r)' = uploads
    BY <1>2, <1>6, <1>7, <2>1 DEF SeenObjects, SeenUploads
  <2> QED BY <1>1, <1>3, <1>8, <2>2, SeenNext DEF Sees, Tree!vars, tree
<1>10. CASE PurgeObject(r, f)
  <2>1. uploads' = uploads /\ objects' = objects \ {f} /\ req'[r].cutoff # 0
    BY <1>0, <1>2, <1>10, TakeUpFile, MaxClockAssumption DEF PurgeObject, SeesScript, PurgeSteps, At, Cutoff
  <2>2. SeenObjects(r)' = objects /\ SeenUploads(r)' = uploads
    BY <1>2, <1>5, <1>6, <1>7, <2>1 DEF SeenObjects, SeenUploads
  <2> QED BY <1>1, <1>3, <1>8, <2>2, SeenNext DEF Sees, Tree!vars, tree
<1> QED BY <1>9, <1>10

LEMMA PurgeThumbMaps ==
  ASSUME OnlyOne, HandlerInv, AloneInv, NEW r \in Request, StepOf(r), PurgeThumb(r)
  PROVE  UNCHANGED Tree!vars
<1> DEFINE f == req[r].file
<1>0. ReqTypeOK /\ SeesScript(r) /\ BucketSeen
  BY DEF HandlerInv, AloneInv
<1>1. /\ UNCHANGED <<tree, objects, uploads>> /\ thumbs' = thumbs \ {f}
      /\ At(r, "purgeThumb") /\ At(r, "purgeRow")' /\ req'[r].file = f /\ f \in req[r].marked
      /\ req'[r].marked = req[r].marked /\ req'[r].cutoff = req[r].cutoff
  BY <1>0, GoMoves DEF PurgeThumb, At, SeesScript
<1>2. f \in DOMAIN files /\ files[f].hasThumb
  BY <1>0, <1>1 DEF SeesScript, InHand, ThumbsNamed, OldFiles, At
<1>3. Taken(r) = {f} /\ Taken(r)' = {f} /\ TakenThumb(r) = {} /\ TakenThumb(r)' = {f}
  BY <1>1 DEF Taken, TakenThumb, At
<1>4. f \in SeenThumbs(r)
  BY <1>0, <1>2, Seen DEF Sees, BucketSeen, ThumbsNamed
<1>5. f \in thumbs
  BY <1>3, <1>4 DEF SeenThumbs
<1>6. \A F : Finished(F)' = Finished(F) /\ Unfinished(F)' = Unfinished(F)
  BY <1>1 DEF Finished, Unfinished, tree
<1>7. SeenObjects(r)' = SeenObjects(r) /\ SeenThumbs(r)' = SeenThumbs(r) /\ SeenUploads(r)' = SeenUploads(r)
  BY <1>1, <1>3, <1>5, <1>6 DEF SeenObjects, SeenThumbs, SeenUploads, FileAt, At
<1>8. UNCHANGED AbsClock
  BY <1>1, SameClock DEF At, tree
<1> QED BY <1>1, <1>7, <1>8, Seen, SeenNext DEF Sees, Tree!vars, tree

-----------------------------------------------------------------------------
(* The call that writes the row is the step of DriveTree.                  *)

LEMMA FolderWritesMap ==
  ASSUME OnlyOne, HandlerInv, AloneInv, NEW r \in Request, StepOf(r), InsertFolder(r) \/ UpdateFolder(r)
  PROVE  [Tree!Next]_(Tree!vars)
<1> DEFINE d == req[r].folder
           p == req[r].dest
           n == req[r].name
<1>0. ReqTypeOK /\ TypeOK /\ Holds(r) /\ Fresh(r) /\ SeesFolders(r)
  BY DEF HandlerInv, AloneInv, ReqTypeOK
<1>1. /\ UNCHANGED <<files, clock, bucket>> /\ req'[r].step = "idle"
      /\ req[r].step \in {"insertFolder", "updateFolder"}
  BY <1>0, DoneMoves DEF InsertFolder, UpdateFolder, Idle, At
<1>2. UNCHANGED <<AbsObjects, AbsThumbs, AbsUploads, AbsClock>>
  BY <1>1, PlainStep, SameClock DEF BucketSteps
<1>3. CASE InsertFolder(r)
  <2> DEFINE t == [x \in DOMAIN folders \cup {d} |->
                     IF x = d THEN [parent |-> p, name |-> n, deletedAt |-> NotDeleted] ELSE folders[x]]
  <2>1. folders' = folders \/ (folders' = t /\ FolderNamesUnique(t))
    BY <1>3 DEF InsertFolder, WriteFolders
  <2>2. d \in SubfolderId /\ p \in FolderId /\ n \in Name /\ d \notin DOMAIN folders /\ LiveFolder(p)
    BY <1>0, <1>3 DEF InsertFolder, Holds, Fresh, SeesFolders
  <2>3. CASE folders' = t /\ FolderNamesUnique(t)
    <3>1. Tree!CreateFolder(d, p, n)
      BY <1>1, <1>2, <2>2, <2>3, SameQueries DEF Tree!CreateFolder, Tree!NotDeleted, NotDeleted
    <3> QED BY <2>2, <3>1 DEF Tree!Next, Tree!FolderId, FolderId
  <2> QED BY <1>1, <1>2, <2>1, <2>3 DEF Tree!vars
<1>4. CASE UpdateFolder(r)
  <2> DEFINE row == [folders[d] EXCEPT !.parent = p, !.name = n]
             t == [x \in DOMAIN folders |-> IF x = d THEN row ELSE folders[x]]
  <2>1. folders' = folders \/ (folders' = t /\ FolderNamesUnique(t))
    BY <1>4 DEF UpdateFolder, WriteFolders
  <2>2. d \in FolderId /\ d # Root /\ p \in FolderId /\ n \in Name /\ LiveFolder(d)
    BY <1>0, <1>4 DEF UpdateFolder, Holds, SeesFolders, PatchSteps, At
  <2>3. p = folders[d].parent \/ (p # d /\ LiveFolder(p) /\ ~IsSameOrAncestor(d, p))
    BY <1>0, <1>4 DEF UpdateFolder, SeesFolders, InChain, LiveFolder
  <2>4. CASE folders' = t /\ FolderNamesUnique(t)
    <3>1. t = [folders EXCEPT ![d].parent = p, ![d].name = n]
      BY <2>2 DEF LiveFolder
    <3> HIDE DEF t
    <3>2. Tree!PatchFolder(d, p, n)
      BY <1>1, <1>2, <2>2, <2>3, <2>4, <3>1, SameQueries DEF Tree!PatchFolder
    <3> QED BY <2>2, <3>2 DEF Tree!Next, Tree!FolderId, FolderId
  <2> QED BY <1>1, <1>2, <2>1, <2>4 DEF Tree!vars
<1> QED BY <1>3, <1>4

LEMMA CascadesMap ==
  ASSUME OnlyOne, HandlerInv, AloneInv, NEW r \in Request, StepOf(r), TrashTree(r) \/ RestoreTree(r)
  PROVE  [Tree!Next]_(Tree!vars)
<1> DEFINE d == req[r].folder
<1>0. ReqTypeOK /\ TypeOK /\ Holds(r) /\ SeesFolders(r)
  BY DEF HandlerInv, AloneInv, ReqTypeOK
<1>1. /\ UNCHANGED bucket /\ req'[r].step = "idle"
      /\ req[r].step \in {"trashTree", "restoreTree"}
  BY <1>0, DoneMoves DEF TrashTree, RestoreTree, Idle, At
<1>2. UNCHANGED <<AbsObjects, AbsThumbs, AbsUploads>>
  BY <1>1, PlainStep DEF BucketSteps
<1>3. d \in FolderId /\ req[r].ids = Subtree(d) /\ Swept(r) = FilesUnder(Subtree(d))
  BY <1>0, <1>1 DEF Holds, SeesFolders, TrashSteps, RestoreSteps, Swept
<1>4. CASE TrashTree(r)
  <2>1. LiveFolder(d) /\ d # Root
    BY <1>0, <1>4 DEF TrashTree, Holds, SeesFolders, TrashSteps, At
  <2>2. AbsClock < MaxClock /\ AbsClock' = AbsClock + 1 /\ req[r].stamp = AbsClock'
    <3>1. clock \in 0..MaxClock /\ req[r].stamp = clock /\ clock' = clock
      BY <1>0, <1>4 DEF TrashTree, TypeOK, SeesFolders, Time
    <3>2. AbsClock = clock - 1 /\ AbsClock' = clock'
      BY <1>4, ClockSeen DEF TrashTree, BeginTrash, At
    <3> QED BY <3>1, <3>2, MaxClockAssumption
  <2>3. Tree!TrashFolder(d)
    BY <1>2, <1>3, <1>4, <2>1, <2>2, SameQueries DEF TrashTree, Tree!TrashFolder
  <2> QED BY <1>3, <2>3 DEF Tree!Next, Tree!FolderId, FolderId
<1>5. CASE RestoreTree(r)
  <2> DEFINE fo == [x \in DOMAIN folders |->
                      IF x \in Subtree(d) /\ SameBatch(folders[x], d)
                      THEN [folders[x] EXCEPT !.deletedAt = NotDeleted] ELSE folders[x]]
             fi == [f \in DOMAIN files |->
                      IF f \in FilesUnder(Subtree(d)) /\ SameBatch(files[f], d)
                      THEN [files[f] EXCEPT !.deletedAt = NotDeleted] ELSE files[f]]
  <2>1. TrashedFolder(d) /\ LiveFolder(folders[d].parent)
    BY <1>0, <1>5 DEF RestoreTree, SeesFolders, RestoreSteps, DoomedSteps, At
  <2>2. /\ \A x \in DOMAIN folders : InBatch(r, folders[x]) <=> SameBatch(folders[x], d)
        /\ \A f \in DOMAIN files : f \in BatchFiles(r) <=> f \in FilesUnder(Subtree(d)) /\ SameBatch(files[f], d)
    BY <1>3, <2>1 DEF InBatch, BatchFiles
  <2>3. /\ UNCHANGED AbsClock
        /\ \/ FolderNamesUnique(fo) /\ FileNamesUnique(fi) /\ folders' = fo /\ files' = fi
           \/ UNCHANGED <<folders, files>>
    <3>1. AbsClock = clock /\ AbsClock' = clock' /\ clock' = clock
      BY <1>5, SameClock DEF RestoreTree, At
    <3> QED BY <1>3, <1>5, <2>2, <3>1 DEF RestoreTree
  <2>4. CASE FolderNamesUnique(fo) /\ FileNamesUnique(fi) /\ folders' = fo /\ files' = fi
    <3>1. Tree!RestoreFolder(d)
      BY <1>2, <2>1, <2>3, <2>4, SameQueries DEF Tree!RestoreFolder, Tree!NotDeleted, NotDeleted
    <3> QED BY <1>3, <3>1 DEF Tree!Next, Tree!FolderId, FolderId
  <2> QED BY <1>2, <2>3, <2>4 DEF Tree!vars
<1> QED BY <1>4, <1>5

LEMMA RowsUnder ==
  ASSUME NEW d \in DOMAIN folders
  PROVE  SubtreeIds(d) = Subtree(d)
BY DEF SubtreeIds

LEMMA FolderRemovalsMap ==
  ASSUME OnlyOne, HandlerInv, AloneInv, NEW r \in Request, StepOf(r),
         DeleteFolderRow(r) \/ \E d \in FolderId : PurgeFolderRow(r, d)
  PROVE  [Tree!Next]_(Tree!vars)
<1>0. ReqTypeOK /\ TypeOK /\ Holds(r) /\ SeesFolders(r) /\ SeesScript(r) /\ Gone(r)
  BY DEF HandlerInv, AloneInv, ReqTypeOK
<1>1. CASE DeleteFolderRow(r)
  <2> DEFINE d == req[r].folder
             F == FilesUnder(Subtree(d))
  <2>1. /\ At(r, "deleteStored") /\ req[r].left = {} /\ UNCHANGED <<clock, bucket>> /\ req'[r].step = "idle"
    BY <1>0, <1>1, DoneMoves DEF DeleteFolderRow, Idle
  <2>2. d \in FolderId /\ d # Root /\ TrashedFolder(d) /\ req[r].rows = F /\ req[r].cutoff = 0
    BY <1>0, <2>1 DEF Holds, SeesFolders, SeesScript, DoomedSteps, PurgeSteps, At
  <2>3. folders' = WithoutRows(folders, Subtree(d)) /\ files' = WithoutRows(files, F)
    BY <1>1, <2>2, RowsUnder DEF DeleteFolderRow, TrashedFolder
  <2>4. AbsObjects' = objects /\ AbsThumbs' = thumbs /\ AbsUploads' = uploads
    BY <2>1, PlainSeen DEF BucketSteps, bucket
  <2>5. Taken(r) = F /\ TakenThumb(r) = {}
    BY <2>1, <2>2 DEF Taken, TakenThumb, At
  <2>6. AbsObjects = objects \cup Finished(F) /\ AbsThumbs = thumbs /\ AbsUploads = uploads \cup Unfinished(F)
    BY <2>1, <2>2, <2>5, Seen DEF Sees, SeenObjects, SeenThumbs, SeenUploads, FileAt, At
  <2>7. Finished(F) \cap objects = {} /\ Unfinished(F) \cap uploads = {}
    BY <1>0, <2>2, <2>5 DEF Gone
  <2>8. Finished(F) = {f \in F : files[f].status = "complete"} /\ Unfinished(F) = {f \in F : files[f].status = "pending"}
    BY DEF Finished, Unfinished, FilesUnder
  <2>9. AbsObjects' = AbsObjects \ Finished(F) /\ AbsUploads' = AbsUploads \ Unfinished(F) /\ AbsThumbs' = AbsThumbs
    BY <2>4, <2>6, <2>7
  <2>10. UNCHANGED AbsClock
    BY <2>1, SameClock DEF At
  <2>11. Tree!DeleteFolderForever(d)
    BY <2>1, <2>2, <2>3, <2>8, <2>9, <2>10, SameQueries DEF Tree!DeleteFolderForever
  <2> QED BY <2>2, <2>11 DEF Tree!Next, Tree!FolderId, FolderId
<1>2. CASE \E d \in FolderId : PurgeFolderRow(r, d)
  <2>1. PICK d \in FolderId : PurgeFolderRow(r, d)
    BY <1>2
  <2>2. /\ At(r, "purgeFolders") /\ d \in req[r].ids /\ UNCHANGED <<clock, bucket>>
        /\ folders' = WithoutRows(folders, SubtreeIds(d))
        /\ files' = WithoutRows(files, FilesUnder(SubtreeIds(d)))
    BY <2>1 DEF PurgeFolderRow
  <2>3. req'[r].step \in {"idle", "purgeFolders"}
    BY <1>0, <2>1, DoneMoves, Locals DEF PurgeFolderRow, Idle, LocalRow, At
  <2>4. UNCHANGED <<AbsObjects, AbsThumbs, AbsUploads, AbsClock>>
    BY <2>2, <2>3, PlainStep, SameClock DEF BucketSteps, At
  <2>5. CASE d \in DOMAIN folders
    <3>1. d \in OldFolders(req[r].cutoff) /\ OldFiles(req[r].cutoff) = {} /\ req[r].cutoff \in Cutoff
      BY <1>0, <2>2, <2>5 DEF SeesScript, PurgeSteps, At
    <3>2. Tree!PurgeFolder(d, req[r].cutoff)
      BY <2>2, <2>4, <2>5, <3>1, RowsUnder, SameQueries DEF Tree!PurgeFolder
    <3> QED BY <3>1, <3>2 DEF Tree!Next, Tree!FolderId, FolderId, Tree!Cutoff, Cutoff
  <2>6. CASE d \notin DOMAIN folders
    <3>1. SubtreeIds(d) = {} /\ FilesUnder({}) = {}
      BY <2>6 DEF SubtreeIds, FilesUnder
    <3>2. folders' = folders /\ files' = files
      BY <1>0, <2>2, <3>1 DEF WithoutRows, TypeOK
    <3> QED BY <2>2, <2>4, <3>2 DEF Tree!vars
  <2> QED BY <2>5, <2>6
<1> QED BY <1>1, <1>2

LEMMA InsertFileMaps ==
  ASSUME OnlyOne, HandlerInv, AloneInv, NEW r \in Request, StepOf(r), InsertFile(r)
  PROVE  [Tree!Next]_(Tree!vars)
<1> DEFINE f == req[r].file
           d == req[r].dest
           n == req[r].name
           row == [folder |-> d, name |-> n, status |-> "pending",
                   thumbnail |-> "none", hasThumb |-> FALSE, deletedAt |-> NotDeleted]
           t == [x \in DOMAIN files \cup {f} |-> IF x = f THEN row ELSE files[x]]
<1>0. ReqTypeOK /\ TypeOK /\ Holds(r) /\ Fresh(r) /\ SeesFiles(r) /\ SeesScript(r) /\ Gone(r)
  BY DEF HandlerInv, AloneInv, ReqTypeOK
<1>1. At(r, "insertFile") /\ UNCHANGED <<folders, clock, bucket>> /\ UNCHANGED AbsClock
  BY SameClock DEF InsertFile, InsertRow, At
<1>2. /\ f \in FileId /\ d \in FolderId /\ n \in Name
      /\ f \notin DOMAIN files \cup objects \cup thumbs /\ f \in uploads /\ LiveFolder(d)
  BY <1>0, <1>1 DEF Holds, Fresh, SeesFiles, Gone, UploadSteps, OpeningSteps, At
<1>3. AbsObjects = objects /\ AbsThumbs = thumbs /\ AbsUploads = uploads \ {f}
  <2>1. SeenObjects(r) = objects /\ SeenThumbs(r) = thumbs /\ SeenUploads(r) = uploads \ {f}
    BY <1>1 DEF SeenObjects, SeenThumbs, SeenUploads, FileAt, Taken, TakenThumb, Finished, Unfinished, At
  <2> QED BY <2>1, Seen DEF Sees
<1>4. \/ files' = t /\ FileNamesUnique(t) /\ Done(r)
      \/ files' = files /\ Go(r, "abortUpload")
  BY <1>2 DEF InsertFile, InsertRow, WriteFiles, Inserted
<1>5. CASE files' = t /\ FileNamesUnique(t) /\ Done(r)
  <2>1. AbsObjects' = objects /\ AbsThumbs' = thumbs /\ AbsUploads' = uploads
    BY <1>0, <1>1, <1>5, DoneMoves, PlainSeen DEF Idle, BucketSteps, bucket
  <2>2. Tree!InitiateUpload(f, d, n)
    BY <1>1, <1>2, <1>3, <1>5, <2>1, SameQueries DEF Tree!InitiateUpload, Tree!NotDeleted, NotDeleted
  <2> QED BY <1>2, <2>2 DEF Tree!Next, Tree!FolderId, FolderId
<1>6. CASE files' = files /\ Go(r, "abortUpload")
  <2>1. At(r, "abortUpload")' /\ req'[r].file = f
    BY <1>0, <1>6, GoMoves DEF At
  <2>2. SeenObjects(r)' = objects /\ SeenThumbs(r)' = thumbs /\ SeenUploads(r)' = uploads \ {f}
    BY <1>1, <2>1 DEF SeenObjects, SeenThumbs, SeenUploads, FileAt, Taken, TakenThumb, Finished, Unfinished, At, bucket
  <2> QED BY <1>1, <1>3, <1>6, <2>2, SeenNext DEF Sees, Tree!vars
<1> QED BY <1>4, <1>5, <1>6

LEMMA MarkCompleteMaps ==
  ASSUME OnlyOne, HandlerInv, AloneInv, NEW r \in Request, StepOf(r), MarkComplete(r)
  PROVE  [Tree!Next]_(Tree!vars)
<1> DEFINE f == req[r].file
<1>0. ReqTypeOK /\ Holds(r) /\ SeesFiles(r) /\ Gone(r)
  BY DEF HandlerInv, AloneInv
<1>1. At(r, "markComplete") /\ UNCHANGED <<folders, clock, bucket>> /\ Done(r) /\ UNCHANGED AbsClock
  BY SameClock DEF MarkComplete, At
<1>2. f \in FileId /\ LiveFile(f) /\ files[f].status = "pending" /\ f \in objects /\ f \notin uploads
  BY <1>0, <1>1 DEF Holds, SeesFiles, Gone, CompleteSteps, At
<1>3. files' = [files EXCEPT ![f].status = "complete"]
  BY <1>2 DEF MarkComplete, UpdateRow, LiveFile
<1>4. AbsObjects = objects \ {f} /\ AbsThumbs = thumbs /\ AbsUploads = uploads \cup {f}
  <2>1. SeenObjects(r) = objects \ {f} /\ SeenThumbs(r) = thumbs /\ SeenUploads(r) = uploads \cup {f}
    BY <1>1 DEF SeenObjects, SeenThumbs, SeenUploads, FileAt, Taken, TakenThumb, Finished, Unfinished, At
  <2> QED BY <2>1, Seen DEF Sees
<1>5. AbsObjects' = objects /\ AbsThumbs' = thumbs /\ AbsUploads' = uploads
  BY <1>0, <1>1, DoneMoves, PlainSeen DEF Idle, BucketSteps, bucket
<1>6. Tree!CompleteUpload(f)
  BY <1>1, <1>2, <1>3, <1>4, <1>5, SameQueries DEF Tree!CompleteUpload
<1> QED BY <1>2, <1>6 DEF Tree!Next

LEMMA RowWritesMap ==
  ASSUME OnlyOne, HandlerInv, AloneInv, NEW r \in Request, StepOf(r),
         UpdateFile(r) \/ TrashFileRow(r) \/ RestoreFileRow(r)
  PROVE  [Tree!Next]_(Tree!vars)
<1> DEFINE f == req[r].file
           d == req[r].dest
           n == req[r].name
<1>0. ReqTypeOK /\ TypeOK /\ Holds(r) /\ SeesFiles(r)
  BY DEF HandlerInv, AloneInv, ReqTypeOK
<1>1. /\ UNCHANGED <<folders, bucket>> /\ Done(r)
      /\ req[r].step \in {"updateFile", "trashFile", "restoreFileRow"}
  BY DEF UpdateFile, TrashFileRow, RestoreFileRow, At
<1>2. UNCHANGED <<AbsObjects, AbsThumbs, AbsUploads>> /\ AbsClock = clock /\ AbsClock' = clock'
  BY <1>0, <1>1, DoneMoves, PlainStep, SameClock DEF Idle, BucketSteps
<1>3. f \in FileId /\ f \in DOMAIN files
  BY <1>0, <1>1 DEF Holds, SeesFiles, DeleteSteps, LiveFile, TrashedFile, At
<1>4. CASE UpdateFile(r)
  <2>1. LiveFile(f) /\ n \in Name /\ (d = files[f].folder \/ LiveFolder(d))
    BY <1>0, <1>4 DEF UpdateFile, Holds, SeesFiles, At
  <2>2. d \in FolderId
    BY <1>0, <1>3, <2>1 DEF TypeOK, FileRow, LiveFolder
  <2>3. UNCHANGED clock /\ \/ UNCHANGED files
                           \/ /\ files' = [files EXCEPT ![f].folder = d, ![f].name = n]
                              /\ FileNamesUnique(files')
    <3> DEFINE t == [x \in DOMAIN files |->
                       IF x = f THEN [files[f] EXCEPT !.folder = d, !.name = n] ELSE files[x]]
    <3>1. UNCHANGED clock /\ (UNCHANGED files \/ (files' = t /\ FileNamesUnique(t)))
      BY <1>4 DEF UpdateFile, WriteFiles
    <3>2. t = [files EXCEPT ![f].folder = d, ![f].name = n]
      BY <1>3
    <3> QED BY <3>1, <3>2
  <2>4. ASSUME ~UNCHANGED files PROVE Tree!PatchFile(f, d, n)
    BY <1>1, <1>2, <2>1, <2>3, <2>4, SameQueries DEF Tree!PatchFile
  <2> QED BY <1>1, <1>2, <1>3, <2>1, <2>2, <2>3, <2>4 DEF Tree!Next, Tree!vars, Tree!FolderId, FolderId
<1>5. CASE TrashFileRow(r)
  <2>1. LiveFile(f) /\ files[f].status = "complete"
    BY <1>0, <1>5 DEF TrashFileRow, SeesFiles
  <2>2. clock < MaxClock
    BY <1>5, RoomLeft, MaxClockAssumption DEF TrashFileRow, At, Time
  <2>3. clock' = clock + 1 /\ files' = [files EXCEPT ![f].deletedAt = clock']
    BY <1>3, <1>5 DEF TrashFileRow, UpdateRow
  <2>4. Tree!TrashFile(f)
    BY <1>1, <1>2, <2>1, <2>2, <2>3, SameQueries DEF Tree!TrashFile
  <2> QED BY <1>3, <2>4 DEF Tree!Next
<1>6. CASE RestoreFileRow(r)
  <2>1. TrashedFile(f) /\ LiveFolder(files[f].folder)
    BY <1>0, <1>6 DEF RestoreFileRow, SeesFiles, At
  <2>2. UNCHANGED clock /\ \/ UNCHANGED files
                           \/ /\ files' = [files EXCEPT ![f].deletedAt = NotDeleted]
                              /\ FileNamesUnique(files')
    <3> DEFINE t == [x \in DOMAIN files |->
                       IF x = f THEN [files[f] EXCEPT !.deletedAt = NotDeleted] ELSE files[x]]
    <3>1. UNCHANGED clock /\ (UNCHANGED files \/ (files' = t /\ FileNamesUnique(t)))
      BY <1>6 DEF RestoreFileRow, WriteFiles
    <3>2. t = [files EXCEPT ![f].deletedAt = NotDeleted]
      BY <1>3
    <3> QED BY <3>1, <3>2
  <2>3. ASSUME ~UNCHANGED files PROVE Tree!RestoreFile(f)
    BY <1>1, <1>2, <2>1, <2>2, <2>3, SameQueries DEF Tree!RestoreFile, Tree!NotDeleted, NotDeleted
  <2> QED BY <1>1, <1>2, <1>3, <2>2, <2>3 DEF Tree!Next, Tree!vars
<1> QED BY <1>4, <1>5, <1>6

LEMMA MarksMap ==
  ASSUME OnlyOne, HandlerInv, AloneInv, NEW r \in Request, StepOf(r), MarkReady(r) \/ MarkFailed(r)
  PROVE  [Tree!Next]_(Tree!vars)
<1> DEFINE f == req[r].file
<1>0. ReqTypeOK /\ Holds(r) /\ SeesFiles(r) /\ Gone(r) /\ BucketSeen
  BY DEF HandlerInv, AloneInv
<1>1. /\ UNCHANGED <<folders, clock, bucket>> /\ req[r].step \in {"markReady", "markFailed"}
      /\ req'[r].step \in {"presignThumb", "idle"}
  <2>1. CASE MarkReady(r)
    <3>1. Go(r, "presignThumb")
      BY <2>1 DEF MarkReady
    <3>2. req'[r].step = "presignThumb"
      BY <1>0, <3>1, GoMoves
    <3> QED BY <2>1, <3>2 DEF MarkReady, WriteReady, At
  <2>2. CASE MarkFailed(r)
    BY <1>0, <2>2, DoneMoves DEF MarkFailed, Idle, At
  <2> QED BY <2>1, <2>2
<1>7. UNCHANGED AbsClock
  BY <1>1, SameClock
<1>2. f \in FileId /\ LiveFile(f) /\ files[f].status = "complete" /\ files[f].thumbnail = "none"
  BY <1>0, <1>1 DEF Holds, SeesFiles, ThumbSteps
<1>3. f \in AbsObjects
  BY <1>0, <1>2 DEF BucketSeen, Finished, LiveFile
<1>4. AbsObjects' = objects /\ AbsThumbs' = thumbs /\ AbsUploads' = uploads
  BY <1>1, PlainSeen DEF BucketSteps, bucket
<1>5. CASE MarkReady(r)
  <2>1. f \in thumbs /\ At(r, "markReady")
    BY <1>0, <1>5 DEF MarkReady, WriteReady, Gone
  <2>2. AbsObjects = objects /\ AbsThumbs = thumbs \ {f} /\ AbsUploads = uploads
    <3>1. SeenObjects(r) = objects /\ SeenThumbs(r) = thumbs \ {f} /\ SeenUploads(r) = uploads
      BY <2>1 DEF SeenObjects, SeenThumbs, SeenUploads, FileAt, Taken, TakenThumb, Finished, Unfinished, At
    <3> QED BY <3>1, Seen DEF Sees
  <2>3. files' = [files EXCEPT ![f].thumbnail = "ready", ![f].hasThumb = TRUE]
    BY <1>2, <1>5 DEF MarkReady, WriteReady, UpdateRow, LiveFile
  <2>4. Tree!GenerateThumbnail(f)
    BY <1>1, <1>2, <1>3, <1>4, <1>7, <2>1, <2>2, <2>3, SameQueries DEF Tree!GenerateThumbnail
  <2> QED BY <1>2, <2>4 DEF Tree!Next
<1>6. CASE MarkFailed(r)
  <2>1. AbsObjects = objects /\ AbsThumbs = thumbs /\ AbsUploads = uploads
    BY <1>6, PlainSeen DEF MarkFailed, At, BucketSteps
  <2>2. files' = [files EXCEPT ![f].thumbnail = "failed"]
    BY <1>2, <1>6 DEF MarkFailed, UpdateRow, LiveFile
  <2>3. Tree!GenerateThumbnail(f)
    BY <1>1, <1>2, <1>4, <1>7, <2>1, <2>2, SameQueries DEF Tree!GenerateThumbnail
  <2> QED BY <1>2, <2>3 DEF Tree!Next
<1> QED BY <1>5, <1>6

LEMMA FileRemovalsMap ==
  ASSUME OnlyOne, HandlerInv, AloneInv, NEW r \in Request, StepOf(r), DeleteRow(r) \/ CleanupRow(r) \/ PurgeRow(r)
  PROVE  [Tree!Next]_(Tree!vars)
<1> DEFINE f == req[r].file
           F == ThumbsNamed({f})
<1>0. ReqTypeOK /\ TypeOK /\ Holds(r) /\ SeesFiles(r) /\ SeesScript(r) /\ Gone(r) /\ BucketSeen
  BY DEF HandlerInv, AloneInv, ReqTypeOK
<1>1. /\ UNCHANGED <<folders, clock, bucket>> /\ files' = WithoutRows(files, {f})
      /\ req[r].step \in {"deleteRow", "cleanupRow", "purgeRow"} /\ UNCHANGED AbsClock
  BY SameClock DEF DeleteRow, CleanupRow, PurgeRow, At
<1>2. req'[r].step \in {"idle", "cleanup", "purge"}
  <2>1. Done(r) \/ Go(r, "cleanup") \/ Go(r, "purge")
    BY DEF DeleteRow, CleanupRow, PurgeRow
  <2>2. CASE Done(r)
    BY <1>0, <2>2, DoneMoves DEF Idle
  <2>3. CASE Go(r, "cleanup")
    BY <1>0, <2>3, GoMoves
  <2>4. CASE Go(r, "purge")
    BY <1>0, <2>4, GoMoves
  <2> QED BY <2>1, <2>2, <2>3, <2>4
<1>3. AbsObjects' = objects /\ AbsThumbs' = thumbs /\ AbsUploads' = uploads
  BY <1>1, <1>2, PlainSeen DEF BucketSteps, bucket
<1>4. f \in FileId /\ f \in DOMAIN files
  BY <1>0, <1>1 DEF Holds, SeesFiles, SeesScript, InHand, OldFiles, Unfinished, CleanupSteps, DeleteSteps, At
<1>5. files[f].status \in {"pending", "complete"}
  BY <1>0, <1>4 DEF TypeOK, FileRow
<1>6. /\ Finished({f}) = IF files[f].status = "complete" THEN {f} ELSE {}
      /\ Unfinished({f}) = IF files[f].status = "pending" THEN {f} ELSE {}
      /\ F = IF files[f].hasThumb THEN {f} ELSE {}
  BY <1>4 DEF Finished, Unfinished, ThumbsNamed
<1>7. Taken(r) = {f} /\ TakenThumb(r) = IF At(r, "cleanupRow") THEN {} ELSE F
  <2>1. At(r, "purgeRow") => {f} \cap req[r].marked = F
    BY <1>0, <1>6 DEF SeesScript, InHand, ThumbsNamed, At
  <2>2. At(r, "deleteRow") => req[r].marked = F
    BY <1>0 DEF SeesFiles, At
  <2> QED BY <1>1, <1>6, <2>1, <2>2 DEF Taken, TakenThumb, At
<1>8. /\ AbsObjects = objects \cup Finished({f}) /\ AbsThumbs = thumbs \cup TakenThumb(r)
      /\ AbsUploads = uploads \cup (IF req[r].cutoff = 0 THEN Unfinished({f}) ELSE {})
  BY <1>1, <1>7, Seen DEF Sees, SeenObjects, SeenThumbs, SeenUploads, FileAt, At
<1>9. /\ Finished({f}) \cap objects = {} /\ (req[r].cutoff = 0 => Unfinished({f}) \cap uploads = {})
      /\ TakenThumb(r) \cap thumbs = {}
  BY <1>0, <1>7 DEF Gone
<1>10. files[f].status = "pending" => f \notin AbsObjects /\ F = {}
  BY <1>0, <1>4, <1>6 DEF BucketSeen, Finished
<1>11. CASE DeleteRow(r) \/ CleanupRow(r)
  <2>1. req[r].cutoff = 0
    BY <1>0, <1>11 DEF DeleteRow, CleanupRow, SeesScript, PurgeSteps, At
  <2>2. CASE files[f].status = "pending"
    <3>1. AbsObjects' = AbsObjects /\ AbsThumbs' = AbsThumbs /\ AbsUploads' = AbsUploads \ {f}
      BY <1>3, <1>6, <1>7, <1>8, <1>9, <1>10, <2>1, <2>2
    <3>2. Tree!DeletePendingFile(f)
      BY <1>1, <1>4, <2>2, <3>1, SameQueries DEF Tree!DeletePendingFile
    <3> QED BY <1>4, <3>2 DEF Tree!Next
  <2>3. CASE files[f].status = "complete"
    <3>1. DeleteRow(r) /\ TrashedFile(f)
      BY <1>0, <1>4, <1>11, <2>3 DEF DeleteRow, CleanupRow, SeesFiles, SeesScript, InHand, CleanupSteps, Unfinished, At
    <3>2. AbsObjects' = AbsObjects \ {f} /\ AbsThumbs' = AbsThumbs \ F /\ AbsUploads' = AbsUploads
      BY <1>3, <1>6, <1>7, <1>8, <1>9, <2>1, <2>3, <3>1 DEF DeleteRow, At
    <3>3. Tree!DeleteFileForever(f)
      BY <1>1, <2>3, <3>1, <3>2, SameQueries DEF Tree!DeleteFileForever
    <3> QED BY <1>4, <3>3 DEF Tree!Next
  <2> QED BY <1>5, <2>2, <2>3
<1>12. CASE PurgeRow(r)
  <2>1. At(r, "purgeRow") /\ req[r].cutoff \in Cutoff /\ req[r].cutoff # 0 /\ f \in OldFiles(req[r].cutoff)
    BY <1>0, <1>12, MaxClockAssumption DEF PurgeRow, SeesScript, InHand, PurgeSteps, Cutoff, At
  <2>2. AbsThumbs' = AbsThumbs \ F /\ AbsUploads' = AbsUploads
    BY <1>3, <1>7, <1>8, <1>9, <2>1 DEF At
  <2>3. AbsObjects' = AbsObjects \ {f}
    BY <1>3, <1>5, <1>6, <1>8, <1>9, <1>10
  <2>4. Tree!PurgeFile(f, req[r].cutoff)
    BY <1>1, <2>1, <2>2, <2>3, SameQueries DEF Tree!PurgeFile
  <2> QED BY <1>4, <2>1, <2>4 DEF Tree!Next, Tree!Cutoff, Cutoff
<1> QED BY <1>11, <1>12

\* The BEGIN of a trashing leaves DriveTree's clock where it was.
LEMMA BeginTrashMaps ==
  ASSUME OnlyOne, HandlerInv, NEW r \in Request, StepOf(r), BeginTrash(r)
  PROVE  UNCHANGED Tree!vars
<1>1. At(r, "beginTrash") /\ At(r, "trashTree")' /\ clock' = clock + 1
  BY BeginTrashMoved, Locals DEF HandlerInv, BeginTrash, At, LocalRow
<1>2. AbsClock = clock /\ AbsClock' = clock' - 1
  BY <1>1, ClockSeen DEF At
<1>3. clock \in Nat
  BY MaxClockAssumption DEF HandlerInv, ReqTypeOK, TypeOK, Time
<1>4. UNCHANGED AbsClock
  BY <1>1, <1>2, <1>3
<1>5. UNCHANGED <<folders, files, bucket>>
  BY DEF BeginTrash
<1>6. UNCHANGED <<AbsObjects, AbsThumbs, AbsUploads>>
  BY <1>1, <1>5, PlainStep DEF BucketSteps, At
<1> QED BY <1>4, <1>5, <1>6 DEF Tree!vars

\* All steps that do not fail.
LEMMA StepMaps ==
  ASSUME OnlyOne, HandlerInv, AloneInv, NEW r \in Request, StepOf(r), ~failed'
  PROVE  [Tree!Next]_(Tree!vars)
<1>1. StartFolderRequest(r) \/ StartFileRequest(r) \/ StartScript(r) \/ Continue(r)
  BY DEF StepOf
<1>2. CASE StartFolderRequest(r) \/ StartFileRequest(r) \/ StartScript(r)
  BY <1>2, StartsMap
<1>3. CASE Continue(r)
  <2>1. CASE \/ ReadNewParent(r) \/ CheckCycle(r) \/ ReadSubtree(r) \/ ReadParent(r)
             \/ ReadDest(r) \/ ReadHome(r) \/ ReadSource(r) \/ PresignThumb(r)
             \/ ReadOldFolders(r) \/ ReadDoomed(r) \/ BeginTrash(r)
    BY <2>1, ReadsMap, BeginTrashMaps
  <2>2. CASE \/ CreateUpload(r) \/ AbortUpload(r) \/ Stitch(r)
             \/ AbortPending(r) \/ DeleteObject(r) \/ DeleteThumb(r) \/ PutThumb(r) \/ PurgeThumb(r)
             \/ \E f \in FileId : DeleteStored(r, f) \/ CleanupAbort(r, f) \/ PurgeObject(r, f)
    BY <2>2, UploadsMap, FileDeletesMap, PutThumbMaps, PurgeThumbMaps, DeleteStoredMaps, ScriptTakesMap
  <2>3. CASE \/ InsertFolder(r) \/ UpdateFolder(r) \/ TrashTree(r) \/ RestoreTree(r)
             \/ DeleteFolderRow(r) \/ \E d \in FolderId : PurgeFolderRow(r, d)
    BY <2>3, FolderWritesMap, CascadesMap, FolderRemovalsMap
  <2>4. CASE \/ InsertFile(r) \/ MarkComplete(r) \/ UpdateFile(r) \/ TrashFileRow(r) \/ RestoreFileRow(r)
             \/ MarkReady(r) \/ MarkFailed(r) \/ DeleteRow(r) \/ CleanupRow(r) \/ PurgeRow(r)
    BY <2>4, InsertFileMaps, MarkCompleteMaps, RowWritesMap, MarksMap, FileRemovalsMap
  <2> QED BY <1>3, <2>1, <2>2, <2>3, <2>4 DEF Continue
<1> QED BY <1>1, <1>2, <1>3

-----------------------------------------------------------------------------
(* What the one request has read still holds, for nobody else moves.       *)

LEMMA BeginsAs ==
  ASSUME ReqTypeOK, NEW r \in Request, NEW op, NEW l, Begin(r, op, l)
  PROVE  req'[r] = [l EXCEPT !.op = op]
BY BeginMoves

LEMMA BeginsWith ==
  ASSUME ReqTypeOK, NEW r \in Request,
         StartFolderRequest(r) \/ StartFileRequest(r) \/ StartScript(r)
  PROVE  /\ At(r, "readNewParent")' => req'[r].dest # req'[r].folder
         /\ At(r, "abortPending")' => req'[r].marked = ThumbsNamed({req'[r].file})
         /\ IF req'[r].step \in PurgeSteps THEN req'[r].cutoff \in Cutoff ELSE req'[r].cutoff = 0
<1> USE DEF At, PurgeSteps
<1>1. CASE StartFolderRequest(r)
  <2>1. ASSUME NEW d \in SubfolderId, NEW p \in FolderId, NEW n \in Name, StartCreateFolder(r, d, p, n)
        PROVE  req'[r].step = "insertFolder" /\ req'[r].cutoff = 0
    <3>1. req'[r] = [[Idle EXCEPT !.step = "insertFolder", !.folder = d, !.dest = p, !.name = n] EXCEPT !.op = "createFolder"]
      BY <2>1, BeginsAs DEF StartCreateFolder
    <3> QED BY <2>1, <3>1 DEF Idle
  <2>2. ASSUME NEW d \in FolderId, NEW p \in FolderId, NEW n \in Name, StartPatchFolder(r, d, p, n)
        PROVE  /\ req'[r].step \in {"updateFolder", "readNewParent"} /\ req'[r].cutoff = 0
               /\ req'[r].step = "readNewParent" => req'[r].dest # req'[r].folder
    <3>1. ASSUME NEW s, Begin(r, "patchFolder", [Idle EXCEPT !.step = s, !.folder = d, !.dest = p, !.name = n])
          PROVE  req'[r].step = s /\ req'[r].folder = d /\ req'[r].dest = p /\ req'[r].cutoff = 0
      <4>1. req'[r] = [[Idle EXCEPT !.step = s, !.folder = d, !.dest = p, !.name = n] EXCEPT !.op = "patchFolder"]
        BY <3>1, BeginsAs
      <4> QED BY <4>1 DEF Idle
    <3>2. CASE Begin(r, "patchFolder", [Idle EXCEPT !.step = "updateFolder", !.folder = d, !.dest = p, !.name = n])
      <4>1. req'[r].step = "updateFolder" /\ req'[r].cutoff = 0
        BY <3>1, <3>2
      <4> QED BY <4>1
    <3>3. CASE p # d /\ Begin(r, "patchFolder",
                 [Idle EXCEPT !.step = "readNewParent", !.folder = d, !.dest = p, !.name = n])
      <4>1. req'[r].step = "readNewParent" /\ req'[r].folder = d /\ req'[r].dest = p /\ req'[r].cutoff = 0
        BY <3>1, <3>3
      <4> QED BY <3>3, <4>1
    <3> QED BY <2>2, <3>2, <3>3 DEF StartPatchFolder
  <2>3. ASSUME NEW d \in FolderId, StartDeleteFolder(r, d)
        PROVE  req'[r].step \in {"readSubtreeToTrash", "readSubtreeToDelete"} /\ req'[r].cutoff = 0
    <3>1. ASSUME NEW s, Begin(r, "deleteFolder", [Idle EXCEPT !.step = s, !.folder = d])
          PROVE  req'[r].step = s /\ req'[r].cutoff = 0
      <4>1. req'[r] = [[Idle EXCEPT !.step = s, !.folder = d] EXCEPT !.op = "deleteFolder"]
        BY <3>1, BeginsAs
      <4> QED BY <4>1 DEF Idle
    <3> QED BY <2>3, <3>1 DEF StartDeleteFolder
  <2>4. ASSUME NEW d \in FolderId, StartRestoreFolder(r, d)
        PROVE  req'[r].step = "readParent" /\ req'[r].cutoff = 0
    <3>1. req'[r] = [[Idle EXCEPT !.step = "readParent", !.folder = d, !.dest = folders[d].parent] EXCEPT !.op = "restoreFolder"]
      BY <2>4, BeginsAs DEF StartRestoreFolder
    <3> QED BY <2>4, <3>1 DEF Idle
  <2> QED BY <1>1, <2>1, <2>2, <2>3, <2>4 DEF StartFolderRequest
<1>2. CASE StartFileRequest(r)
  <2>1. ASSUME NEW f \in FileId, NEW d \in FolderId, NEW n \in Name, StartInitiateUpload(r, f, d, n)
        PROVE  req'[r].step = "createUpload" /\ req'[r].cutoff = 0
    <3>1. req'[r] = [[Idle EXCEPT !.step = "createUpload", !.file = f, !.dest = d, !.name = n] EXCEPT !.op = "initiateUpload"]
      BY <2>1, BeginsAs DEF StartInitiateUpload
    <3> QED BY <2>1, <3>1 DEF Idle
  <2>2. ASSUME NEW f \in FileId, NEW d \in FolderId, NEW n \in Name, StartPatchFile(r, f, d, n)
        PROVE  req'[r].step \in {"updateFile", "readDest"} /\ req'[r].cutoff = 0
    <3> DEFINE s == IF d = files[f].folder THEN "updateFile" ELSE "readDest"
    <3>1. req'[r] = [[Idle EXCEPT !.file = f, !.dest = d, !.name = n, !.step = s] EXCEPT !.op = "patchFile"]
      BY <2>2, BeginsAs DEF StartPatchFile
    <3> QED BY <3>1 DEF Idle
  <2>3. ASSUME NEW f \in FileId, StartCompleteUpload(r, f)
        PROVE  req'[r].step = "stitch" /\ req'[r].cutoff = 0
    <3>1. req'[r] = [[Idle EXCEPT !.step = "stitch", !.file = f] EXCEPT !.op = "completeUpload"]
      BY <2>3, BeginsAs DEF StartCompleteUpload
    <3> QED BY <2>3, <3>1 DEF Idle
  <2>4. ASSUME NEW f \in FileId, StartRestoreFile(r, f)
        PROVE  req'[r].step = "readHome" /\ req'[r].cutoff = 0
    <3>1. req'[r] = [[Idle EXCEPT !.step = "readHome", !.file = f, !.dest = files[f].folder] EXCEPT !.op = "restoreFile"]
      BY <2>4, BeginsAs DEF StartRestoreFile
    <3> QED BY <2>4, <3>1 DEF Idle
  <2>5. ASSUME NEW f \in FileId, StartThumbnail(r, f)
        PROVE  req'[r].step = "readSource" /\ req'[r].cutoff = 0
    <3>1. req'[r] = [[Idle EXCEPT !.step = "readSource", !.file = f] EXCEPT !.op = "thumbnail"]
      BY <2>5, BeginsAs DEF StartThumbnail
    <3> QED BY <2>5, <3>1 DEF Idle
  <2>6. ASSUME NEW f \in FileId, StartDeleteFile(r, f)
        PROVE  /\ req'[r].step \in {"abortPending", "trashFile", "deleteObject"} /\ req'[r].cutoff = 0
               /\ req'[r].marked = ThumbsNamed({req'[r].file})
    <3>1. ASSUME NEW s, Begin(r, "deleteFile", [Idle EXCEPT !.step = s, !.file = f, !.marked = ThumbsNamed({f})])
          PROVE  req'[r].step = s /\ req'[r].cutoff = 0 /\ req'[r].marked = ThumbsNamed({req'[r].file})
      <4>1. req'[r] = [[Idle EXCEPT !.step = s, !.file = f, !.marked = ThumbsNamed({f})] EXCEPT !.op = "deleteFile"]
        BY <3>1, BeginsAs
      <4> QED BY <4>1 DEF Idle
    <3> QED BY <2>6, <3>1 DEF StartDeleteFile
  <2> QED BY <1>2, <2>1, <2>2, <2>3, <2>4, <2>5, <2>6 DEF StartFileRequest
<1>3. CASE StartScript(r)
  <2>1. ASSUME NEW rows \in SUBSET FileId, StartCleanup(r, rows)
        PROVE  req'[r].step = "cleanup" /\ req'[r].cutoff = 0
    <3>1. req'[r] = [[Idle EXCEPT !.step = "cleanup", !.rows = rows, !.left = rows] EXCEPT !.op = "cleanup"]
      BY <2>1, BeginsAs DEF StartCleanup
    <3> QED BY <2>1, <3>1 DEF Idle
  <2>2. ASSUME NEW cutoff \in Cutoff, StartPurge(r, cutoff)
        PROVE  req'[r].step = "purge" /\ req'[r].cutoff \in Cutoff
    <3> DEFINE rows == OldFiles(cutoff)
    <3>1. req'[r] = [[Idle EXCEPT !.step = "purge", !.cutoff = cutoff, !.rows = rows,
                                  !.left = rows, !.marked = ThumbsNamed(rows)] EXCEPT !.op = "purge"]
      BY <2>2, BeginsAs DEF StartPurge
    <3> QED BY <3>1 DEF Idle
  <2> QED BY <1>3, <2>1, <2>2 DEF StartScript
<1> QED BY <1>1, <1>2, <1>3

\* Only the purge has a cutoff.
CutoffRead(r) == IF req[r].step \in PurgeSteps THEN req[r].cutoff \in Cutoff ELSE req[r].cutoff = 0

LEMMA CutoffStep ==
  ASSUME ReqTypeOK, NEW r \in Request, StepOf(r), CutoffRead(r)
  PROVE  CutoffRead(r)'
<1>0. req[r] \in LocalRow /\ r \in DOMAIN req
  BY Locals
<1>1. CASE StartFolderRequest(r) \/ StartFileRequest(r) \/ StartScript(r)
  BY <1>1, BeginsWith DEF CutoffRead
<1>2. CASE Done(r)
  BY <1>2, DoneMoves DEF CutoffRead, Idle, PurgeSteps
<1>3. CASE Passes(r)
  <2>1. PICK s, t : <<s, t>> \in Onward /\ At(r, s) /\ Go(r, t)
    BY <1>3 DEF Passes
  <2>2. s \in PurgeSteps <=> t \in PurgeSteps
    BY <2>1 DEF Onward, PurgeSteps
  <2>3. req'[r].step = t /\ req'[r].cutoff = req[r].cutoff
    BY <2>1, GoMoves
  <2> QED BY <2>1, <2>2, <2>3 DEF CutoffRead, At
<1>4. CASE LooksUp(r)
  <2>1. CASE ReadSubtree(r) \/ ReadDoomed(r)
    <3>1. /\ req[r].step \notin PurgeSteps /\ req'[r].step \notin PurgeSteps
          /\ req'[r].cutoff = req[r].cutoff
      BY <1>0, <2>1 DEF ReadSubtree, ReadDoomed, PurgeSteps, At, LocalRow
    <3> QED BY <3>1 DEF CutoffRead
  <2>2. CASE ReadOldFolders(r) /\ ~Done(r)
    <3>1. req[r].step \in PurgeSteps /\ req'[r].step \in PurgeSteps /\ req'[r].cutoff = req[r].cutoff
      BY <1>0, <2>2 DEF ReadOldFolders, PurgeSteps, At, LocalRow
    <3> QED BY <3>1 DEF CutoffRead
  <2> QED BY <1>4, <2>1, <2>2 DEF LooksUp
<1>5. CASE Loops(r)
  <2>1. CASE \E f \in FileId : DeleteStored(r, f)
    <3>1. req'[r].step = req[r].step /\ req'[r].cutoff = req[r].cutoff
      BY <1>0, <2>1 DEF DeleteStored, LocalRow
    <3> QED BY <3>1 DEF CutoffRead
  <2>2. CASE \E f \in FileId : TakeUpCleanup(r, f) \/ TakeUpPurge(r, f)
    <3>1. PICK f \in FileId : TakeUpCleanup(r, f) \/ TakeUpPurge(r, f)
      BY <2>2
    <3>2. /\ req'[r].cutoff = req[r].cutoff /\ (At(r, "cleanup") \/ At(r, "purge"))
          /\ req'[r].step = IF At(r, "cleanup") THEN "cleanupRow"
                            ELSE IF f \in req[r].marked THEN "purgeThumb" ELSE "purgeRow"
      BY <3>1, TakeUpFile
    <3> QED BY <3>2 DEF CutoffRead, PurgeSteps, At
  <2>3. CASE (\E d \in FolderId : PurgeFolderRow(r, d)) /\ ~Done(r)
    <3>1. req'[r].step = req[r].step /\ req'[r].cutoff = req[r].cutoff
      BY <1>0, <2>3 DEF PurgeFolderRow, LocalRow
    <3> QED BY <3>1 DEF CutoffRead
  <2> QED BY <1>5, <2>1, <2>2, <2>3 DEF Loops
<1>6. CASE BeginTrash(r)
  <2>1. req[r].step = "beginTrash" /\ req'[r].step = "trashTree" /\ req'[r].cutoff = req[r].cutoff
    BY <1>0, <1>6 DEF BeginTrash, At, LocalRow
  <2> QED BY <2>1 DEF CutoffRead, PurgeSteps
<1> QED BY <1>1, <1>2, <1>3, <1>4, <1>5, <1>6, Kinds

\* Without failures a request begins, or does what its step says.
LEMMA Begins ==
  ASSUME NEW r \in Request, StepOf(r), ~failed'
  PROVE  /\ req[r] = Idle => StartFolderRequest(r) \/ StartFileRequest(r) \/ StartScript(r)
         /\ req[r] # Idle => Continue(r)
<1>1. StartFolderRequest(r) \/ StartFileRequest(r) \/ StartScript(r) \/ Continue(r)
  BY DEF StepOf
<1>2. req[r] # Idle => ~StartFolderRequest(r) /\ ~StartFileRequest(r) /\ ~StartScript(r)
  BY DEF StartFolderRequest, StartFileRequest, StartScript, StartCreateFolder, StartPatchFolder,
     StartDeleteFolder, StartRestoreFolder, StartInitiateUpload, StartPatchFile, StartCompleteUpload,
     StartDeleteFile, StartRestoreFile, StartThumbnail, StartCleanup, StartPurge, Begin
<1>3. Continue(r) => ~At(r, "idle")
  <2>1. CASE \/ InsertFolder(r) \/ ReadNewParent(r) \/ CheckCycle(r) \/ UpdateFolder(r)
             \/ ReadSubtree(r) \/ BeginTrash(r) \/ TrashTree(r) \/ ReadDoomed(r) \/ DeleteFolderRow(r)
             \/ ReadParent(r) \/ RestoreTree(r)
    BY <2>1 DEF InsertFolder, ReadNewParent, CheckCycle, UpdateFolder, ReadSubtree, BeginTrash, TrashTree, ReadDoomed,
                DeleteFolderRow, ReadParent, RestoreTree, At
  <2>2. CASE \/ CreateUpload(r) \/ InsertFile(r) \/ AbortUpload(r) \/ Stitch(r) \/ MarkComplete(r)
             \/ ReadDest(r) \/ UpdateFile(r)
             \/ AbortPending(r) \/ TrashFileRow(r) \/ DeleteObject(r) \/ DeleteThumb(r) \/ DeleteRow(r)
    BY <2>2 DEF CreateUpload, InsertFile, InsertRow, AbortUpload, Stitch, MarkComplete, ReadDest, UpdateFile,
                AbortPending, TrashFileRow, DeleteObject, DeleteThumb, DeleteRow, At
  <2>3. CASE \/ ReadHome(r) \/ RestoreFileRow(r)
             \/ ReadSource(r) \/ PutThumb(r) \/ MarkReady(r) \/ PresignThumb(r) \/ MarkFailed(r)
             \/ CleanupRow(r) \/ PurgeThumb(r) \/ PurgeRow(r) \/ ReadOldFolders(r)
             \/ \E f \in FileId : DeleteStored(r, f) \/ CleanupAbort(r, f) \/ PurgeObject(r, f)
             \/ \E d \in FolderId : PurgeFolderRow(r, d)
    BY <2>3 DEF ReadHome, RestoreFileRow, ReadSource, PutThumb, StoreThumb, MarkReady, WriteReady, PresignThumb,
                MarkFailed, CleanupRow,
                PurgeThumb, PurgeRow, ReadOldFolders, DeleteStored, CleanupAbort, PurgeObject,
                TakeUpCleanup, TakeUpPurge, PurgeFolderRow, At
  <2> QED BY <2>1, <2>2, <2>3 DEF Continue
<1> QED BY <1>1, <1>2, <1>3 DEF Idle, At

\* So it neither dies nor catches anything.
LEMMA ContinuesAs ==
  ASSUME ReqTypeOK, NEW r \in Request, Continue(r)
  PROVE  /\ At(r, "abortPending") => AbortPending(r)
         /\ At(r, "deleteObject") => DeleteObject(r)
         /\ At(r, "deleteThumb") => DeleteThumb(r)
         /\ At(r, "purgeThumb") => PurgeThumb(r)
         /\ At(r, "putThumb") => PutThumb(r)
         /\ At(r, "markReady") => MarkReady(r)
         /\ At(r, "presignThumb") => Done(r)
<1> DEFINE S == {"abortPending", "deleteObject", "deleteThumb", "purgeThumb", "putThumb", "markReady", "presignThumb"}
<1>1. CASE \/ InsertFolder(r) \/ ReadNewParent(r) \/ CheckCycle(r) \/ UpdateFolder(r)
           \/ ReadSubtree(r) \/ BeginTrash(r) \/ TrashTree(r) \/ ReadDoomed(r) \/ DeleteFolderRow(r)
           \/ ReadParent(r) \/ RestoreTree(r)
  <2>1. req[r].step \notin S
    BY <1>1 DEF InsertFolder, ReadNewParent, CheckCycle, UpdateFolder, ReadSubtree, BeginTrash, TrashTree, ReadDoomed,
                DeleteFolderRow, ReadParent, RestoreTree, At
  <2> QED BY <2>1 DEF At
<1>2. CASE \/ CreateUpload(r) \/ InsertFile(r) \/ AbortUpload(r) \/ Stitch(r) \/ MarkComplete(r)
           \/ ReadDest(r) \/ UpdateFile(r) \/ TrashFileRow(r) \/ DeleteRow(r) \/ ReadHome(r) \/ RestoreFileRow(r)
  <2>1. req[r].step \notin S
    BY <1>2 DEF CreateUpload, InsertFile, InsertRow, AbortUpload, Stitch, MarkComplete, ReadDest, UpdateFile,
                TrashFileRow, DeleteRow, ReadHome, RestoreFileRow, At
  <2> QED BY <2>1 DEF At
<1>3. CASE \/ ReadSource(r) \/ MarkFailed(r) \/ CleanupRow(r) \/ PurgeRow(r) \/ ReadOldFolders(r)
           \/ \E f \in FileId : DeleteStored(r, f) \/ CleanupAbort(r, f) \/ PurgeObject(r, f)
           \/ \E d \in FolderId : PurgeFolderRow(r, d)
  <2>1. req[r].step \notin S
    BY <1>3 DEF ReadSource, MarkFailed, CleanupRow, PurgeRow, ReadOldFolders, DeleteStored, CleanupAbort,
                PurgeObject, TakeUpCleanup, TakeUpPurge, PurgeFolderRow, At
  <2> QED BY <2>1 DEF At
<1>4. CASE \/ AbortPending(r) \/ DeleteObject(r) \/ DeleteThumb(r) \/ PurgeThumb(r)
           \/ PutThumb(r) \/ MarkReady(r) \/ PresignThumb(r)
  BY <1>4 DEF AbortPending, DeleteObject, DeleteThumb, PurgeThumb, PutThumb, StoreThumb, MarkReady, WriteReady,
              PresignThumb, At
<1> QED BY <1>1, <1>2, <1>3, <1>4 DEF Continue

\* A script that takes up a file aborts or deletes what it has in the bucket.
LEMMA ScriptsTake ==
  ASSUME NEW r \in Request, Continue(r), At(r, "cleanup") \/ At(r, "purge")
  PROVE  ReadOldFolders(r) \/ \E f \in FileId : CleanupAbort(r, f) \/ PurgeObject(r, f)
<1> DEFINE S == {"cleanup", "purge"}
<1>1. CASE \/ InsertFolder(r) \/ ReadNewParent(r) \/ CheckCycle(r) \/ UpdateFolder(r)
           \/ ReadSubtree(r) \/ BeginTrash(r) \/ TrashTree(r) \/ ReadDoomed(r) \/ DeleteFolderRow(r)
           \/ ReadParent(r) \/ RestoreTree(r)
  <2>1. req[r].step \notin S
    BY <1>1 DEF InsertFolder, ReadNewParent, CheckCycle, UpdateFolder, ReadSubtree, BeginTrash, TrashTree, ReadDoomed,
                DeleteFolderRow, ReadParent, RestoreTree, At
  <2> QED BY <2>1 DEF At
<1>2. CASE \/ CreateUpload(r) \/ InsertFile(r) \/ AbortUpload(r) \/ Stitch(r) \/ MarkComplete(r)
           \/ ReadDest(r) \/ UpdateFile(r)
           \/ AbortPending(r) \/ TrashFileRow(r) \/ DeleteObject(r) \/ DeleteThumb(r) \/ DeleteRow(r)
  <2>1. req[r].step \notin S
    BY <1>2 DEF CreateUpload, InsertFile, InsertRow, AbortUpload, Stitch, MarkComplete, ReadDest, UpdateFile,
                AbortPending, TrashFileRow, DeleteObject, DeleteThumb, DeleteRow, At
  <2> QED BY <2>1 DEF At
<1>3. CASE \/ ReadHome(r) \/ RestoreFileRow(r)
           \/ ReadSource(r) \/ PutThumb(r) \/ MarkReady(r) \/ PresignThumb(r) \/ MarkFailed(r)
           \/ CleanupRow(r) \/ PurgeThumb(r) \/ PurgeRow(r)
           \/ \E f \in FileId : DeleteStored(r, f)
           \/ \E d \in FolderId : PurgeFolderRow(r, d)
  <2>1. req[r].step \notin S
    BY <1>3 DEF ReadHome, RestoreFileRow, ReadSource, PutThumb, StoreThumb, MarkReady, WriteReady, PresignThumb,
                MarkFailed, CleanupRow,
                PurgeThumb, PurgeRow, DeleteStored, PurgeFolderRow, At
  <2> QED BY <2>1 DEF At
<1> QED BY <1>1, <1>2, <1>3 DEF Continue

\* What it learns on arrival, and what the tables keep of it.
Same == /\ \A x : LiveFolder(x)' = LiveFolder(x) /\ TrashedFolder(x)' = TrashedFolder(x)
        /\ \A x : LiveFile(x)' = LiveFile(x) /\ TrashedFile(x)' = TrashedFile(x)
        /\ \A x : Subtree(x)' = Subtree(x) /\ SubtreeIds(x)' = SubtreeIds(x)
        /\ \A x, y : InChain(x, y)' = InChain(x, y)
        /\ \A x : FilesUnder(x)' = FilesUnder(x) /\ ThumbsNamed(x)' = ThumbsNamed(x)
        /\ \A x : Finished(x)' = Finished(x) /\ Unfinished(x)' = Unfinished(x)
        /\ \A x : OldFiles(x)' = OldFiles(x) /\ OldFolders(x)' = OldFolders(x)

LEMMA TablesSame ==
  ASSUME UNCHANGED folders, UNCHANGED files
  PROVE  Same
<1>1. \A x : Subtree(x)' = Subtree(x) /\ SubtreeIds(x)' = SubtreeIds(x)
  BY DEF Subtree, SubtreeIds, ClosedDown
<1>2. \A x, y : InChain(x, y)' = InChain(x, y)
  BY DEF InChain, IsSameOrAncestor, Chain, ClosedUp
<1>3. /\ \A x : LiveFolder(x)' = LiveFolder(x) /\ TrashedFolder(x)' = TrashedFolder(x)
      /\ \A x : LiveFile(x)' = LiveFile(x) /\ TrashedFile(x)' = TrashedFile(x)
  BY DEF LiveFolder, TrashedFolder, LiveFile, TrashedFile
<1>4. \A x : OldFiles(x)' = OldFiles(x) /\ OldFolders(x)' = OldFolders(x)
  BY DEF OldFiles, OldFolders, TrashedFile, TrashedFolder
<1>5. /\ \A x : FilesUnder(x)' = FilesUnder(x) /\ ThumbsNamed(x)' = ThumbsNamed(x)
      /\ \A x : Finished(x)' = Finished(x) /\ Unfinished(x)' = Unfinished(x)
  BY DEF FilesUnder, ThumbsNamed, Finished, Unfinished
<1> QED BY <1>1, <1>2, <1>3, <1>4, <1>5 DEF Same

FolderSteps == {"insertFolder"} \cup PatchSteps \cup TrashSteps \cup DoomedSteps \cup RestoreSteps

LEMMA SeesFoldersStep ==
  ASSUME HandlerInv, AloneInv, NEW r \in Request, StepOf(r), ~failed'
  PROVE  SeesFolders(r)'
<1>0. SeesFolders(r) /\ ArrivedFolder(r) /\ ArrivedTree(r) /\ ReqTypeOK
  BY Arrivals DEF AloneInv, HandlerInv, Arrived
<1>1. CASE req'[r].step \notin FolderSteps
  BY <1>1 DEF FolderSteps, SeesFolders, At, PatchSteps, TrashSteps, DoomedSteps, RestoreSteps
<1>2. CASE req'[r].step \in FolderSteps
  <2>1. Same
    <3>1. UNCHANGED folders /\ UNCHANGED files
      BY <1>0, <1>2 DEF ArrivedFolder, ArrivedTree, At, Starts, Looks, Listed, vars, DeleteStored, BeginTrash, tree,
                        FolderSteps, PatchSteps, TrashSteps, DoomedSteps, RestoreSteps
    <3> QED BY <3>1, TablesSame
  <2>2. At(r, "readNewParent")' => req'[r].dest # req'[r].folder
    <3>1. At(r, "readNewParent")' => req[r] = Idle
      BY <1>0 DEF ArrivedFolder, Starts
    <3> QED BY <1>0, <3>1, Begins, BeginsWith
  <2>3. CASE req'[r].step \in {"insertFolder"} \cup PatchSteps
    <3>1. /\ At(r, "insertFolder")' => LiveFolder(req'[r].dest)
          /\ LiveFolder(req'[r].folder) \/ At(r, "insertFolder")'
          /\ At(r, "checkCycle")' => LiveFolder(req'[r].dest) /\ req'[r].dest # req'[r].folder
          /\ At(r, "updateFolder")' =>
               \/ req'[r].dest = folders'[req'[r].folder].parent
               \/ /\ req'[r].dest # req'[r].folder /\ LiveFolder(req'[r].dest)
                  /\ ~InChain(req'[r].folder, req'[r].dest)
      BY <1>0, <2>3 DEF SeesFolders, ArrivedFolder, Starts, Looks, From, Kept, vars, PatchSteps, At
    <3> QED BY <2>1, <2>2, <2>3, <3>1 DEF Same, SeesFolders, At, PatchSteps, TrashSteps, DoomedSteps, RestoreSteps
  <2>4. CASE req'[r].step \in TrashSteps
    <3>1. /\ LiveFolder(req'[r].folder)
          /\ req'[r].step \in {"beginTrash", "trashTree"} => req'[r].ids = Subtree(req'[r].folder)
          /\ At(r, "trashTree")' => req'[r].stamp = clock'
      BY <1>0, <2>4 DEF SeesFolders, ArrivedFolder, ArrivedTree, Starts, Listed, From, Kept, SubtreeIds, LiveFolder,
                        TrashSteps, At
    <3> QED BY <2>1, <2>4, <3>1 DEF Same, SeesFolders, At, PatchSteps, TrashSteps, DoomedSteps, RestoreSteps
  <2>5. CASE req'[r].step \in DoomedSteps
    <3>1. /\ TrashedFolder(req'[r].folder)
          /\ At(r, "readDoomed")' => req'[r].ids = Subtree(req'[r].folder)
      BY <1>0, <2>5 DEF SeesFolders, ArrivedFolder, ArrivedTree, Starts, Listed, SubtreeIds, TrashedFolder,
                        DeleteStored, DoomedSteps, At
    <3>2. At(r, "deleteStored")' => /\ req'[r].rows = FilesUnder(Subtree(req'[r].folder))
                                    /\ req'[r].marked = Finished(req'[r].rows)
      <4>1. CASE At(r, "readDoomed") /\ At(r, "deleteStored")'
        BY <1>0, <4>1 DEF SeesFolders, ArrivedTree, DeleteStored, At, Finished, FilesUnder
      <4>2. CASE ~At(r, "readDoomed") /\ At(r, "deleteStored")'
        BY <1>0, <4>2 DEF SeesFolders, ArrivedTree, DeleteStored, At
      <4> QED BY <4>1, <4>2
    <3> QED BY <2>1, <2>5, <3>1, <3>2 DEF Same, SeesFolders, At, PatchSteps, TrashSteps, DoomedSteps, RestoreSteps
  <2>6. CASE req'[r].step \in RestoreSteps
    <3>1. TrashedFolder(req'[r].folder) /\ req'[r].dest = folders'[req'[r].folder].parent
      BY <1>0, <2>6 DEF SeesFolders, ArrivedFolder, ArrivedTree, Starts, Looks, From, Kept, Listed, vars, RestoreSteps, At
    <3>2. ~At(r, "readParent")' => LiveFolder(req'[r].dest)
      BY <1>0, <2>6 DEF SeesFolders, ArrivedFolder, ArrivedTree, Looks, From, Kept, Listed, RestoreSteps, At
    <3>3. At(r, "restoreTree")' => req'[r].ids = Subtree(req'[r].folder)
      BY <1>0, <2>6, <3>1 DEF ArrivedTree, Listed, SubtreeIds, TrashedFolder
    <3> QED BY <2>1, <2>6, <3>1, <3>2, <3>3 DEF Same, SeesFolders, At, PatchSteps, TrashSteps, DoomedSteps, RestoreSteps
  <2> QED BY <1>2, <2>3, <2>4, <2>5, <2>6 DEF FolderSteps
<1> QED BY <1>1, <1>2

FileSteps == {"createUpload", "insertFile", "readDest", "updateFile", "readHome", "restoreFileRow"}
             \cup CompleteSteps \cup DeleteSteps \cup (ThumbSteps \ {"presignThumb"})

LEMMA SeesFilesStep ==
  ASSUME HandlerInv, AloneInv, NEW r \in Request, StepOf(r), ~failed'
  PROVE  SeesFiles(r)'
<1> DEFINE f == req'[r].file
           d == req'[r].dest
<1>0. SeesFiles(r) /\ ArrivedUpload(r) /\ ArrivedFile(r) /\ ArrivedThumb(r) /\ ReqTypeOK
  BY Arrivals DEF AloneInv, HandlerInv, Arrived
<1>3. At(r, "markFailed")' => Looks(r, "readSource")
  <2> SUFFICES ASSUME At(r, "markFailed")', ~Looks(r, "readSource") PROVE FALSE
    OBVIOUS
  <2>1. req[r].step \in {"putThumb", "markReady", "presignThumb"}
    BY <1>0 DEF ArrivedThumb, Looks, From, At
  <2>2. Continue(r)
    BY <2>1, Begins DEF Idle
  <2>3. PutThumb(r) \/ MarkReady(r) \/ Done(r)
    BY <1>0, <2>1, <2>2, ContinuesAs DEF At
  <2>4. \/ Go(r, "markReady") \/ Go(r, "presignThumb") \/ Done(r)
    BY <2>3 DEF PutThumb, MarkReady
  <2>5. req'[r].step \in {"markReady", "presignThumb", "idle"}
    <3>1. CASE Go(r, "markReady")
      BY <1>0, <3>1, GoMoves
    <3>2. CASE Go(r, "presignThumb")
      BY <1>0, <3>2, GoMoves
    <3>3. CASE Done(r)
      BY <1>0, <3>3, DoneMoves DEF Idle
    <3> QED BY <2>4, <3>1, <3>2, <3>3
  <2> QED BY <2>5 DEF At
<1>1. CASE req'[r].step \notin FileSteps
  BY <1>1 DEF FileSteps, SeesFiles, At, CompleteSteps, DeleteSteps, ThumbSteps
<1>2. CASE req'[r].step \in FileSteps
  <2>1. Same
    <3>1. CASE req'[r].step \in {"createUpload", "insertFile", "readDest", "updateFile", "readHome",
                                 "restoreFileRow"} \cup CompleteSteps
      BY <1>0, <3>1, TablesSame DEF ArrivedUpload, ArrivedFile, At, Starts, Looks, vars, CreateUpload, Stitch, tree,
                                    CompleteSteps
    <3>2. CASE req'[r].step \in DeleteSteps
      BY <1>0, <3>2, TablesSame DEF ArrivedFile, At, Starts, vars, tree, AbortPending,
                                    DeleteObject, DeleteThumb, DeleteSteps
    <3>3. CASE req'[r].step \in ThumbSteps \ {"presignThumb"}
      BY <1>0, <1>3, <3>3, TablesSame DEF ArrivedThumb, At, Starts, Looks, vars, tree, StoreThumb, ThumbSteps
    <3> QED BY <1>2, <3>1, <3>2, <3>3 DEF FileSteps
  <2>2. At(r, "abortPending")' => req'[r].marked = ThumbsNamed({f})
    <3>1. At(r, "abortPending")' => req[r] = Idle
      BY <1>0 DEF ArrivedFile, Starts
    <3> QED BY <1>0, <3>1, Begins, BeginsWith
  <2>3. CASE req'[r].step \in {"createUpload", "insertFile"}
    <3>1. LiveFolder(d) /\ (At(r, "createUpload")' => f \notin uploads')
      BY <1>0, <2>3 DEF SeesFiles, ArrivedUpload, Starts, From, Kept, FreshFile, vars, At
    <3> QED BY <2>1, <2>3, <3>1 DEF Same, SeesFiles, At, CompleteSteps, ThumbSteps
  <2>4. CASE req'[r].step \in CompleteSteps
    <3>1. LiveFile(f) /\ files[f].status = "pending" /\ files' = files
      BY <1>0, <2>4 DEF SeesFiles, ArrivedUpload, Starts, From, Kept, CompleteSteps, vars, Stitch, tree, At
    <3> QED BY <2>1, <2>4, <3>1 DEF Same, SeesFiles, At, CompleteSteps, ThumbSteps
  <2>5. CASE req'[r].step \in {"readDest", "updateFile", "readHome", "restoreFileRow"}
    <3>1. /\ files' = files
          /\ req'[r].step \in {"readDest", "updateFile"} => LiveFile(f)
          /\ At(r, "updateFile")' => d = files[f].folder \/ LiveFolder(d)
          /\ req'[r].step \in {"readHome", "restoreFileRow"} => TrashedFile(f) /\ d = files[f].folder
          /\ At(r, "restoreFileRow")' => LiveFolder(d)
      BY <1>0, <2>5 DEF SeesFiles, ArrivedFile, Starts, Looks, From, Kept, vars, At
    <3> QED BY <2>1, <2>5, <3>1 DEF Same, SeesFiles, At, CompleteSteps, ThumbSteps
  <2>6. CASE req'[r].step \in DeleteSteps
    <3>1. /\ files' = files
          /\ At(r, "abortPending")' => f \in DOMAIN files /\ files[f].status = "pending"
          /\ At(r, "trashFile")' => LiveFile(f) /\ files[f].status = "complete"
          /\ req'[r].step \in {"deleteObject", "deleteThumb"} =>
               TrashedFile(f) /\ files[f].status = "complete"
          /\ At(r, "deleteRow")' =>
               f \in DOMAIN files /\ (files[f].status = "pending" \/ TrashedFile(f))
      BY <1>0, <2>6 DEF SeesFiles, ArrivedFile, Starts, From, Kept, vars, At, DeleteSteps, TrashedFile,
                        AbortPending, DeleteObject, DeleteThumb, tree
    <3>2. /\ req'[r].step \in {"deleteObject", "deleteThumb", "deleteRow"} => req'[r].marked = ThumbsNamed({f})
          /\ At(r, "deleteThumb")' => f \in req'[r].marked
      BY <1>0, <2>6 DEF SeesFiles, ArrivedFile, From, Kept, At
    <3> QED BY <2>1, <2>2, <2>6, <3>1, <3>2 DEF Same, SeesFiles, At, CompleteSteps, ThumbSteps, DeleteSteps
  <2>7. CASE req'[r].step \in ThumbSteps \ {"presignThumb"}
    <3>1. /\ files' = files
          /\ LiveFile(f) /\ files[f].status = "complete" /\ files[f].thumbnail = "none"
      BY <1>0, <1>3, <2>7 DEF SeesFiles, ArrivedThumb, Starts, Looks, From, Kept, StoreThumb, vars, tree, At, ThumbSteps
    <3> QED BY <2>1, <2>7, <3>1 DEF Same, SeesFiles, At, CompleteSteps, ThumbSteps
  <2> QED BY <1>2, <2>3, <2>4, <2>5, <2>6, <2>7 DEF FileSteps
<1> QED BY <1>1, <1>2

LEMMA SeesScriptStep ==
  ASSUME HandlerInv, AloneInv, NEW r \in Request, StepOf(r), ~failed'
  PROVE  SeesScript(r)'
<1> DEFINE f == req'[r].file
           c == req'[r].cutoff
<1>0. SeesScript(r) /\ ArrivedScript(r) /\ ReqTypeOK
  BY Arrivals DEF AloneInv, HandlerInv, Arrived
<1>1. CutoffRead(r)'
  BY <1>0, CutoffStep DEF SeesScript, CutoffRead
<1>2. CASE req'[r].step \notin CleanupSteps \cup PurgeSteps
  BY <1>1, <1>2 DEF SeesScript, CutoffRead, CleanupSteps, PurgeSteps, At
<1>3. CASE At(r, "cleanup")'
  <2>1. InHand(r)' = req'[r].left
    BY <1>3 DEF InHand, At
  <2>2. req'[r].left \subseteq Unfinished(DOMAIN files)'
    <3>1. CASE UNCHANGED vars
      BY <1>0, <1>3, <3>1 DEF ArrivedScript, Starts, CleanupRow, WithoutRows, Unfinished, vars, SeesScript,
                              InHand, CleanupSteps, From, Kept, At
    <3>2. CASE ~UNCHANGED vars
      <4>1. /\ At(r, "cleanupRow") /\ files' = WithoutRows(files, {req[r].file})
            /\ req'[r].left = req[r].left /\ req[r].file \notin req[r].left
        BY <1>0, <1>3, <3>2 DEF ArrivedScript, Starts, CleanupRow, From, Kept, SeesScript, At
      <4>2. req[r].left \subseteq Unfinished(DOMAIN files)
        BY <1>0, <4>1 DEF SeesScript, InHand, CleanupSteps, At
      <4> QED BY <4>1, <4>2 DEF WithoutRows, Unfinished
    <3> QED BY <3>1, <3>2
  <2> QED BY <1>1, <1>3, <2>1, <2>2 DEF SeesScript, CutoffRead, CleanupSteps, PurgeSteps, At
<1>4. CASE At(r, "cleanupRow")'
  <2>1. At(r, "cleanup") /\ TakesUp(r) /\ UNCHANGED files
    BY <1>0, <1>4 DEF ArrivedScript, CleanupAbort, Skipping, tree, vars
  <2>2. InHand(r)' = InHand(r) /\ f \notin req'[r].left
    BY <1>4, <2>1 DEF InHand, TakesUp, At
  <2>3. InHand(r) \subseteq Unfinished(DOMAIN files) /\ Unfinished(DOMAIN files)' = Unfinished(DOMAIN files)
    BY <1>0, <2>1 DEF SeesScript, CleanupSteps, Unfinished, At
  <2> QED BY <1>1, <1>4, <2>2, <2>3 DEF SeesScript, CutoffRead, CleanupSteps, PurgeSteps, At
<1>5. CASE At(r, "purge")'
  <2>1. InHand(r)' = req'[r].left
    BY <1>5 DEF InHand, At
  <2>2. /\ req'[r].left = OldFiles(req[r].cutoff)'
        /\ req'[r].left \cap req'[r].marked = ThumbsNamed(req[r].left)'
    <3>1. CASE Starts(r) /\ ~From(r, "purgeRow")
      <4>1. /\ req'[r].rows = OldFiles(c) /\ req'[r].left = req'[r].rows
            /\ req'[r].marked = ThumbsNamed(req'[r].rows) /\ Same
        BY <1>0, <1>5, <3>1, TablesSame DEF ArrivedScript, Starts, vars
      <4> QED BY <4>1 DEF Same, ThumbsNamed
    <3>2. CASE From(r, "purgeRow") /\ PurgeRow(r)
      <4>1. /\ files' = WithoutRows(files, {req[r].file}) /\ At(r, "purgeRow")
            /\ req'[r].left = req[r].left /\ req'[r].marked = req[r].marked /\ c = req[r].cutoff
            /\ req[r].file \notin req[r].left
        BY <1>0, <3>2 DEF PurgeRow, From, Kept, SeesScript, At
      <4>2. /\ req[r].left \cup {req[r].file} = OldFiles(c)
            /\ (req[r].left \cup {req[r].file}) \cap req[r].marked = ThumbsNamed(req[r].left \cup {req[r].file})
        BY <1>0, <4>1 DEF SeesScript, InHand, At
      <4>3. \A x : OldFiles(x)' = OldFiles(x) \ {req[r].file}
        BY <4>1 DEF OldFiles, TrashedFile, WithoutRows
      <4>4. \A F \in SUBSET req[r].left : ThumbsNamed(F)' = ThumbsNamed(F)
        BY <4>1, <4>2 DEF ThumbsNamed, WithoutRows, OldFiles
      <4> QED BY <4>1, <4>2, <4>3, <4>4 DEF ThumbsNamed
    <3>3. ~(Starts(r) /\ From(r, "purgeRow"))
      BY DEF Starts, From, Idle, At
    <3> QED BY <1>0, <1>5, <3>1, <3>2, <3>3 DEF ArrivedScript
  <2> QED BY <1>1, <1>5, <2>1, <2>2 DEF SeesScript, CutoffRead, CleanupSteps, PurgeSteps, At
<1>6. CASE req'[r].step \in {"purgeThumb", "purgeRow"}
  <2>1. /\ Same /\ InHand(r)' = InHand(r) /\ f \notin req'[r].left
        /\ req'[r].marked = req[r].marked /\ c = req[r].cutoff
        /\ At(r, "purgeThumb")' => f \in req'[r].marked
        /\ req[r].step \in {"purge", "purgeThumb"}
    <3>1. CASE At(r, "purge") /\ TakesUp(r)
      <4>1. UNCHANGED folders /\ UNCHANGED files
        BY <1>0, <1>6, <3>1 DEF ArrivedScript, PurgeObject, PurgeThumb, Skipping, From, vars, tree, At
      <4> QED BY <1>0, <1>6, <3>1, <4>1, TablesSame DEF ArrivedScript, TakesUp, InHand, From, At
    <3>2. CASE At(r, "purgeThumb") /\ At(r, "purgeRow")'
      <4>1. UNCHANGED folders /\ UNCHANGED files /\ Kept(r)
        BY <1>0, <3>2 DEF ArrivedScript, PurgeThumb, From, vars, tree, At
      <4> QED BY <1>0, <3>2, <4>1, TablesSame DEF SeesScript, Kept, InHand, At
    <3> QED BY <1>0, <1>6, <3>1, <3>2 DEF ArrivedScript, From, At
  <2>2. /\ InHand(r) = OldFiles(c)
        /\ InHand(r) \cap req'[r].marked = ThumbsNamed(InHand(r))
    BY <1>0, <2>1 DEF SeesScript
  <2>3. InHand(r)' = OldFiles(req[r].cutoff)' /\ ThumbsNamed(InHand(r))' = ThumbsNamed(InHand(r))
    BY <2>1, <2>2 DEF Same
  <2> QED BY <1>1, <1>6, <2>1, <2>2, <2>3 DEF SeesScript, CutoffRead, CleanupSteps, PurgeSteps, At
<1>7. CASE At(r, "purgeFolders")'
  <2>1. OldFiles(req[r].cutoff)' = {} /\ req'[r].ids \cap DOMAIN folders' \subseteq OldFolders(req[r].cutoff)'
    <3>1. CASE At(r, "purge")
      <4>1. /\ Same /\ req[r].left = {} /\ req'[r].ids = OldFolders(c) /\ c = req[r].cutoff
        BY <1>0, <1>7, <3>1, TablesSame DEF ArrivedScript, PurgeFolderRow, At, vars
      <4>2. OldFiles(c) = {}
        BY <1>0, <3>1, <4>1 DEF SeesScript, InHand, At
      <4> QED BY <4>1, <4>2 DEF Same
    <3>2. CASE ~At(r, "purge")
      <4>1. PICK d \in FolderId : PurgeFolderRow(r, d) /\ req'[r].ids = req[r].ids \ {d}
        BY <1>0, <1>7, <3>2 DEF ArrivedScript
      <4>2. /\ folders' = WithoutRows(folders, SubtreeIds(d)) /\ c = req[r].cutoff
            /\ files' = WithoutRows(files, FilesUnder(SubtreeIds(d)))
            /\ OldFiles(c) = {} /\ req[r].ids \cap DOMAIN folders \subseteq OldFolders(c)
        BY <1>0, <1>7, <4>1 DEF PurgeFolderRow, ArrivedScript, SeesScript
      <4>3. \A x : OldFiles(x)' \subseteq OldFiles(x)
        BY <4>2 DEF OldFiles, TrashedFile, WithoutRows
      <4>4. \A x : OldFolders(x) \cap DOMAIN folders' \subseteq OldFolders(x)'
        BY <4>2 DEF OldFolders, TrashedFolder, WithoutRows
      <4>5. req'[r].ids \cap DOMAIN folders' \subseteq OldFolders(req[r].cutoff)
        BY <4>1, <4>2 DEF WithoutRows
      <4> QED BY <4>2, <4>3, <4>4, <4>5
    <3> QED BY <3>1, <3>2
  <2> QED BY <1>1, <1>7, <2>1 DEF SeesScript, CutoffRead, CleanupSteps, PurgeSteps, At
<1> QED BY <1>2, <1>3, <1>4, <1>5, <1>6, <1>7 DEF CleanupSteps, PurgeSteps, At

LEMMA GoneStep ==
  ASSUME HandlerInv, AloneInv, NEW r \in Request, StepOf(r), ~failed'
  PROVE  Gone(r)'
<1> DEFINE f == req'[r].file
<1>0. /\ BucketSeen /\ SeesFolders(r) /\ SeesFiles(r) /\ SeesScript(r) /\ Gone(r) /\ Fresh(r)
      /\ Arrived(r) /\ ReqTypeOK
  BY Arrivals DEF AloneInv, HandlerInv
<1>1. ~At(r, "idle") => Continue(r)
  BY Begins DEF Idle, At
<1>2. CASE req'[r].step \notin BucketSteps
  BY <1>2 DEF Gone, Taken, TakenThumb, BucketSteps, Finished, Unfinished, At
<1>3. CASE At(r, "deleteStored")'
  <2>1. TakenThumb(r)' = {} /\ Taken(r)' = req'[r].rows \ req'[r].left
    BY <1>3 DEF TakenThumb, Taken, At
  <2>2. CASE At(r, "readDoomed")
    <3>1. req'[r].left = req'[r].rows
      BY <1>0, <1>3, <2>2 DEF Arrived, ArrivedTree, DeleteStored, At
    <3> QED BY <1>3, <2>1, <3>1 DEF Gone, Finished, Unfinished, At
  <2>3. CASE ~At(r, "readDoomed")
    <3>1. PICK g \in FileId : /\ DeleteStored(r, g) /\ req'[r].left = req[r].left \ {g}
                              /\ req'[r].rows = req[r].rows /\ req'[r].marked = req[r].marked
      BY <1>0, <1>3, <2>3 DEF Arrived, ArrivedTree
    <3>2. /\ At(r, "deleteStored") /\ g \in req[r].left /\ UNCHANGED files
          /\ IF g \in req[r].marked THEN objects' = objects \ {g} /\ uploads' = uploads
                                    ELSE uploads' = uploads \ {g} /\ objects' = objects
      BY <3>1 DEF DeleteStored, tree
    <3>3. Taken(r) = req[r].rows \ req[r].left /\ Taken(r)' = Taken(r) \cup {g} /\ req[r].cutoff = 0
      BY <1>0, <2>1, <3>1, <3>2 DEF Taken, Fresh, SeesScript, PurgeSteps, At
    <3>4. g \in req[r].marked <=> g \in DOMAIN files /\ files[g].status = "complete"
      BY <1>0, <3>2 DEF SeesFolders, Fresh, Finished, At
    <3>5. Finished(Taken(r)) \cap objects = {} /\ Unfinished(Taken(r)) \cap uploads = {}
      BY <1>0, <3>3 DEF Gone
    <3>6. Finished(Taken(r))' \cap objects' = {} /\ Unfinished(Taken(r))' \cap uploads' = {}
      BY <3>2, <3>3, <3>4, <3>5 DEF Finished, Unfinished
    <3> QED BY <1>3, <2>1, <3>6 DEF Gone, At
  <2> QED BY <2>2, <2>3
<1>4. CASE At(r, "deleteThumb")' \/ At(r, "deleteRow")'
  <2>1. /\ Taken(r)' = {f} /\ f = req[r].file /\ UNCHANGED files /\ Continue(r)
        /\ req[r].step \in {"abortPending", "deleteObject", "deleteThumb"}
        /\ req'[r].marked = req[r].marked /\ req[r].marked = ThumbsNamed({f})
    BY <1>0, <1>1, <1>4 DEF Taken, Arrived, ArrivedFile, From, Kept, AbortPending, DeleteObject, DeleteThumb, tree,
                            vars, SeesFiles, At
  <2>2. /\ Finished({f}) = {x \in {f} : f \in DOMAIN files /\ files[f].status = "complete"}
        /\ Unfinished({f}) = {x \in {f} : f \in DOMAIN files /\ files[f].status = "pending"}
        /\ \A F : Finished(F)' = Finished(F) /\ Unfinished(F)' = Unfinished(F)
    BY <2>1 DEF Finished, Unfinished
  <2>3. /\ TakenThumb(r)' = IF At(r, "deleteRow")' THEN ThumbsNamed({f}) ELSE {}
    BY <1>4, <2>1 DEF TakenThumb, ThumbsNamed, At
  <2>4. CASE At(r, "abortPending")
    <3>1. /\ uploads' = uploads \ {f} /\ files[f].status = "pending" /\ f \in DOMAIN files
      BY <1>0, <2>1, <2>4, ContinuesAs DEF AbortPending, SeesFiles, At
    <3>2. ThumbsNamed({f}) = {}
      BY <1>0, <3>1 DEF BucketSeen, ThumbsNamed
    <3>3. Finished(Taken(r))' = {} /\ TakenThumb(r)' = {} /\ Unfinished(Taken(r))' \cap uploads' = {}
      BY <2>1, <2>2, <2>3, <3>1, <3>2
    <3> QED BY <1>4, <3>3 DEF Gone, At
  <2>5. CASE At(r, "deleteObject")
    <3>1. objects' = objects \ {f} /\ files[f].status = "complete"
      BY <1>0, <2>1, <2>5, ContinuesAs DEF DeleteObject, SeesFiles, At
    <3>2. At(r, "deleteRow")' => ThumbsNamed({f}) = {}
      BY <1>0, <2>1, <2>5 DEF Arrived, ArrivedFile, From, ThumbsNamed, At
    <3>3. Finished(Taken(r))' \cap objects' = {} /\ TakenThumb(r)' = {} /\ Unfinished(Taken(r))' = {}
      BY <2>1, <2>2, <2>3, <3>1, <3>2
    <3> QED BY <1>4, <3>3 DEF Gone, At
  <2>6. CASE At(r, "deleteThumb")
    <3>1. /\ thumbs' = thumbs \ {f} /\ UNCHANGED <<objects, uploads>> /\ files[f].status = "complete"
      BY <1>0, <2>1, <2>6, ContinuesAs DEF DeleteThumb, SeesFiles, At
    <3>2. Taken(r) = {f} /\ Finished({f}) \cap objects = {}
      BY <1>0, <2>1, <2>6 DEF Gone, Taken, At
    <3>3. Unfinished({f}) = {}
      BY <2>2, <3>1
    <3>4. TakenThumb(r)' \cap thumbs' = {}
      BY <2>3, <3>1 DEF ThumbsNamed
    <3>5. Finished(Taken(r))' \cap objects' = {} /\ Unfinished(Taken(r))' = {}
      BY <2>1, <2>2, <3>1, <3>2, <3>3
    <3> QED BY <1>4, <3>4, <3>5 DEF Gone, At
  <2> QED BY <2>1, <2>4, <2>5, <2>6 DEF At
<1>5. CASE req'[r].step \in {"cleanupRow", "purgeThumb", "purgeRow"} /\ req[r].step \in {"cleanup", "purge"}
  <2>1. PICK g \in FileId : CleanupAbort(r, g) \/ PurgeObject(r, g)
    <3>1. ~ReadOldFolders(r)
      <4>1. CASE Done(r)
        BY <1>0, <1>5, <4>1, DoneMoves DEF Idle
      <4>2. CASE ~Done(r)
        BY <1>0, <1>5, <4>2, Locals DEF ReadOldFolders, LocalRow
      <4> QED BY <4>1, <4>2
    <3> QED BY <1>1, <1>5, <3>1, ScriptsTake DEF At
  <2>2. /\ f = g /\ f \in req[r].left /\ UNCHANGED files /\ Taken(r)' = {f}
        /\ req'[r].marked = req[r].marked /\ req'[r].cutoff = req[r].cutoff
        /\ At(r, "cleanup") \/ At(r, "purge")
        /\ At(r, "purgeRow")' => f \notin req[r].marked
        /\ At(r, "cleanup") <=> CleanupAbort(r, g)
    BY <1>0, <1>5, <2>1, TakeUpFile DEF CleanupAbort, PurgeObject, Taken, tree, At
  <2>3. TakenThumb(r)' = {}
    BY <1>5, <2>2 DEF TakenThumb, At
  <2>4. CASE At(r, "cleanup")
    <3>1. uploads' = uploads \ {f} /\ files[f].status = "pending"
      BY <1>0, <2>2, <2>4 DEF CleanupAbort, SeesScript, CleanupSteps, InHand, Unfinished, At
    <3>2. Finished(Taken(r))' = {} /\ Unfinished(Taken(r))' \cap uploads' = {}
      BY <2>2, <3>1 DEF Finished, Unfinished
    <3> QED BY <1>5, <2>3, <3>2 DEF Gone, At
  <2>5. CASE ~At(r, "cleanup")
    <3>1. objects' = objects \ {f} /\ req'[r].cutoff # 0
      BY <1>0, <2>1, <2>2, <2>5, MaxClockAssumption DEF PurgeObject, SeesScript, PurgeSteps, Cutoff, At
    <3>2. Finished(Taken(r))' \cap objects' = {}
      BY <2>2, <3>1 DEF Finished
    <3> QED BY <1>5, <2>3, <3>1, <3>2 DEF Gone, At
  <2> QED BY <2>4, <2>5
<1>6. CASE req'[r].step \in {"cleanupRow", "purgeThumb", "purgeRow"} /\ req[r].step \notin {"cleanup", "purge"}
  <2>1. /\ At(r, "purgeThumb") /\ At(r, "purgeRow")' /\ PurgeThumb(r) /\ f = req[r].file
        /\ req'[r].cutoff = req[r].cutoff /\ req[r].cutoff # 0
    <3>1. At(r, "purgeThumb") /\ At(r, "purgeRow")' /\ From(r, "purgeThumb")
      BY <1>0, <1>6 DEF Arrived, ArrivedScript, From, At
    <3>2. PurgeThumb(r)
      BY <1>0, <1>1, <3>1, ContinuesAs DEF At
    <3> QED BY <1>0, <3>1, <3>2, MaxClockAssumption DEF From, Kept, SeesScript, PurgeSteps, Cutoff, At
  <2>2. thumbs' = thumbs \ {f} /\ UNCHANGED <<objects, files>>
    BY <2>1 DEF PurgeThumb, tree
  <2>3. Taken(r) = {f} /\ Taken(r)' = {f} /\ TakenThumb(r)' \subseteq {f}
    BY <2>1 DEF Taken, TakenThumb, At
  <2>4. Finished({f}) \cap objects = {} /\ \A F : Finished(F)' = Finished(F)
    BY <1>0, <2>2, <2>3 DEF Gone, Finished
  <2>5. Finished(Taken(r))' \cap objects' = {} /\ TakenThumb(r)' \cap thumbs' = {}
    BY <2>2, <2>3, <2>4
  <2> QED BY <2>1, <2>5 DEF Gone, At
<1>7. CASE req'[r].step \in {"insertFile", "markComplete", "markReady", "abortUpload"}
  <2>1. Taken(r)' = {} /\ TakenThumb(r)' = {} /\ Finished({})' = {} /\ Unfinished({})' = {}
    BY <1>7 DEF Taken, TakenThumb, Finished, Unfinished, At
  <2>2. /\ At(r, "insertFile")' => f \in uploads'
        /\ At(r, "markComplete")' => f \in objects' \ uploads'
        /\ At(r, "markReady")' => f \in thumbs'
    BY <1>0 DEF Arrived, ArrivedUpload, ArrivedThumb, From, Kept, CreateUpload, Stitch, StoreThumb
  <2> QED BY <2>1, <2>2 DEF Gone
<1> QED BY <1>2, <1>3, <1>4, <1>5, <1>6, <1>7 DEF BucketSteps, At

-----------------------------------------------------------------------------
(* The refinement.                                                         *)

LEMMA AloneStep ==
  ASSUME OnlyOne, HandlerInv, BinOrder, AloneInv, NEW r \in Request, StepOf(r), ~failed'
  PROVE  AloneInv' /\ [Tree!Next]_(Tree!vars)
<1>1. [Tree!Next]_(Tree!vars)
  BY StepMaps
<1>2. BucketSeen'
  BY <1>1, BucketStays DEF AloneInv, HandlerInv, ReqTypeOK
<1>3. SeesFolders(r)' /\ SeesFiles(r)' /\ SeesScript(r)' /\ Gone(r)'
  BY SeesFoldersStep, SeesFilesStep, SeesScriptStep, GoneStep
<1>4. \A q \in Request : q = r
  BY DEF OnlyOne
<1> QED BY <1>1, <1>2, <1>3, <1>4 DEF AloneInv

LEMMA AloneStutters ==
  ASSUME UNCHANGED reqVars
  PROVE  UNCHANGED Tree!vars /\ (AloneInv => AloneInv') /\ UNCHANGED failed
<1>1. /\ UNCHANGED <<folders, files, objects, thumbs, uploads, clock, req>> /\ Same
  BY HandlerStutters, TablesSame
<1>2. \A r : /\ Taken(r)' = Taken(r) /\ TakenThumb(r)' = TakenThumb(r) /\ InHand(r)' = InHand(r)
             /\ \A s : At(r, s)' = At(r, s)
  BY <1>1 DEF Taken, TakenThumb, InHand, At
<1>3. \A s : Holding(s)' = Holding(s)
  BY <1>1 DEF Holding, At
<1>4. UNCHANGED <<AbsObjects, AbsThumbs, AbsUploads, AbsClock>>
  BY <1>1, <1>2, <1>3 DEF AbsObjects, AbsThumbs, AbsUploads, AbsClock, Same
<1>5. BucketSeen => BucketSeen'
  BY <1>1, <1>4, SameStatuses
<1>6. ASSUME NEW r \in Request, SeesFolders(r), SeesFiles(r), SeesScript(r), Gone(r)
      PROVE  SeesFolders(r)' /\ SeesFiles(r)' /\ SeesScript(r)' /\ Gone(r)'
  <2>1. SeesFolders(r)'
    BY <1>1, <1>2, <1>6 DEF SeesFolders, Same
  <2>2. SeesFiles(r)'
    BY <1>1, <1>2, <1>6 DEF SeesFiles, Same
  <2>3. SeesScript(r)'
    BY <1>1, <1>2, <1>6 DEF SeesScript, Same
  <2>4. Gone(r)'
    BY <1>1, <1>2, <1>6 DEF Gone, Same
  <2> QED BY <2>1, <2>2, <2>3, <2>4
<1> QED BY <1>1, <1>4, <1>5, <1>6 DEF Tree!vars, AloneInv, reqVars

LEMMA AloneStarts ==
  ASSUME ReqInit
  PROVE  Tree!Init /\ AloneInv
<1>1. \A r \in Request : req[r] = Idle
  BY DEF ReqInit
<1>2. Idle.step = "idle" /\ Idle.cutoff = 0 /\ Idle.left = {}
  BY DEF Idle
<1>3. DOMAIN files = {} /\ objects = {} /\ thumbs = {} /\ uploads = {}
  BY DEF ReqInit, Init
<1>4. \A r \in Request : Taken(r) = {} /\ TakenThumb(r) = {}
  BY <1>1, <1>2 DEF Taken, TakenThumb
<1>5. \A F : Finished(F) = {} /\ Unfinished(F) = {}
  BY <1>3 DEF Finished, Unfinished
<1>6. \A s : s # "idle" => Holding(s) = {}
  BY <1>1, <1>2 DEF Holding, At
<1>7. AbsObjects = {} /\ AbsThumbs = {} /\ AbsUploads = {} /\ AbsClock = clock
  BY <1>3, <1>4, <1>5, <1>6 DEF AbsObjects, AbsThumbs, AbsUploads, AbsClock
<1>8. Tree!Init
  BY <1>7 DEF ReqInit, Init, Tree!Init, NotDeleted, Tree!NotDeleted
<1>9. BucketSeen
  BY <1>3, <1>5, <1>7 DEF BucketSeen, ThumbsNamed
<1>10. ASSUME NEW r \in Request
       PROVE  SeesFolders(r) /\ SeesFiles(r) /\ SeesScript(r) /\ Gone(r)
  <2>1. req[r].step = "idle" /\ req[r].cutoff = 0
    BY <1>1, <1>2
  <2>2. SeesFolders(r)
    BY <2>1 DEF SeesFolders, At, PatchSteps, TrashSteps, DoomedSteps, RestoreSteps
  <2>3. SeesFiles(r)
    BY <2>1 DEF SeesFiles, At, CompleteSteps, ThumbSteps
  <2>4. SeesScript(r)
    BY <2>1 DEF SeesScript, At, CleanupSteps, PurgeSteps
  <2>5. Gone(r)
    BY <1>4, <1>5, <2>1 DEF Gone, At
  <2> QED BY <2>2, <2>3, <2>4, <2>5
<1> QED BY <1>8, <1>9, <1>10 DEF AloneInv

\* A request, or a script run, that has the tables and the bucket to itself
\* is one atomic operation of DriveTree (folders.ts, files.ts, the scripts):
\* its calls add up to what DriveTree says, until one of them fails.
THEOREM AloneImplementsTree ==
  ASSUME OnlyOne
  PROVE  ReqSpec => ImplementsTree
<1> DEFINE Inv == overtaken = {} /\ (failed \/ AloneInv)
<1>1. ReqInit => Tree!Init /\ Inv
  BY AloneStarts DEF ReqInit
<1>2. HandlerInv /\ BinInv /\ Inv /\ [ReqNext]_reqVars => Inv' /\ [failed' \/ Tree!Next]_(Tree!vars)
  <2> SUFFICES ASSUME HandlerInv, BinInv, Inv, [ReqNext]_reqVars
               PROVE  Inv' /\ [failed' \/ Tree!Next]_(Tree!vars)
    OBVIOUS
  <2>1. CASE UNCHANGED reqVars
    BY <2>1, AloneStutters, HandlerStutters
  <2>2. ASSUME NEW r \in Request, StepOf(r)
        PROVE  Inv' /\ [failed' \/ Tree!Next]_(Tree!vars)
    <3>0. overtaken' = {}
      <4>1. Request \ {r} = {}
        BY DEF OnlyOne
      <4>2. Overtakes(r) = {}
        BY <4>1 DEF Overtakes
      <4> QED BY <2>2, <4>2 DEF StepOf
    <3>1. CASE failed'
      BY <3>0, <3>1
    <3>2. CASE ~failed'
      <4>1. ~failed
        BY <2>2, <3>2 DEF StepOf
      <4>2. BinOrder
        BY DEF BinInv, BinWhole, Overtaken
      <4> QED BY <2>2, <3>0, <3>2, <4>1, <4>2, AloneStep
    <3> QED BY <3>1, <3>2
  <2> QED BY <2>1, <2>2 DEF ReqNext, StepOf
<1>3. ReqSpec => []Inv
  BY <1>1, <1>2, HandlersKeepTypes, BinHolds, PTL DEF ReqSpec
<1> QED BY <1>1, <1>2, <1>3, HandlersKeepTypes, BinHolds, PTL DEF ReqSpec, ImplementsTree
=============================================================================
