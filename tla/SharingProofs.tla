--------------------------- MODULE SharingProofs ---------------------------
(***************************************************************************)
(* What can be read, for any number of folders, files, users and reads.    *)
(*                                                                         *)
(* Sharing adds tables to DriveTree and never touches its own, so the      *)
(* tree's invariant carries over.  The access checks look at a row's own   *)
(* deleted_at only; that this is enough follows from BinOrder.             *)
(***************************************************************************)
EXTENDS Sharing, DriveTreeProofs

-----------------------------------------------------------------------------
(* The tree's invariant.                                                   *)

\* Every step of Sharing is a step of the tree or leaves it alone.
LEMMA TreeStep == ShareNext => [Next]_vars
<1> SUFFICES ASSUME ShareNext PROVE [Next]_vars
  OBVIOUS
<1>1. CASE ChangeTree
  <2>1. \A x \in FolderId \cup FileId : NameOf[x] \in Name
    BY NameOfAssumption
  <2>2. TreeNext => Next
    <3> SubfolderId \subseteq FolderId
      BY DEF FolderId
    <3> QED BY <2>1 DEF TreeNext, Next
  <2> QED BY <1>1, <2>2 DEF ChangeTree
<1>2. CASE \E x \in Row, u \in User : Share(x, u)
  BY <1>2 DEF Share
<1>3. CASE \E s \in shares : Revoke(s)
  BY <1>3 DEF Revoke
<1>4. CASE \E f \in FileId : CreateLink(f) \/ DeleteLink(f)
  BY <1>4 DEF CreateLink, DeleteLink
<1>5. CASE \E r \in Reader, u \in User, x \in Row : StartDownload(r, u, x) \/ StartOpen(r, u, x)
  BY <1>5 DEF StartDownload, StartOpen, Begin
<1>6. CASE \E r \in Reader : CheckDirect(r) \/ CheckChain(r)
  BY <1>6 DEF CheckDirect, CheckChain
<1> QED BY <1>1, <1>2, <1>3, <1>4, <1>5, <1>6 DEF ShareNext

LEMMA ShareKeepsTree == ShareSpec => []IInv
<1>1. ShareInit => IInv
  BY InitIInv DEF ShareInit
<1>2. IInv /\ [ShareNext]_shareVars => IInv'
  <2> SUFFICES ASSUME IInv, [ShareNext]_shareVars PROVE IInv'
    OBVIOUS
  <2>1. [Next]_vars
    BY TreeStep DEF shareVars
  <2> QED BY <2>1, NextIInv
<1> QED BY <1>1, <1>2, PTL DEF ShareSpec

-----------------------------------------------------------------------------
(* The chain of folders above a folder.                                    *)

\* Everything above a live folder is live (dbHelpers.ts:166-168).
LEMMA LiveAbove ==
  ASSUME IInv, NEW d, LiveFolder(d), NEW a \in Chain(d)
  PROVE  LiveFolder(a)
<1> DEFINE S == {x \in DOMAIN folders : LiveFolder(x)}
<1>1. d \in S
  BY DEF LiveFolder
<1>2. ClosedUp(S)
  BY DEF ClosedUp, IInv, BinOrder, LiveFolder, TrashedFolder
<1>3. S \in SUBSET DOMAIN folders
  OBVIOUS
<1>4. a \in S
  <2> HIDE DEF S
  <2> QED BY <1>1, <1>2, <1>3 DEF Chain
<1> QED BY <1>4

\* A chain goes on with the parent's chain.
LEMMA ChainOfParent ==
  ASSUME NEW d \in DOMAIN folders, NEW a \in Chain(d), a # d
  PROVE  folders[d].parent \in DOMAIN folders /\ a \in Chain(folders[d].parent)
<1>1. folders[d].parent \in DOMAIN folders
  <2> SUFFICES ASSUME folders[d].parent \notin DOMAIN folders PROVE FALSE
    OBVIOUS
  <2>1. ClosedUp({d})
    BY DEF ClosedUp
  <2> QED BY <2>1 DEF Chain
<1> DEFINE S == Chain(folders[d].parent) \cup {d}
<1>2. S \in SUBSET DOMAIN folders /\ d \in S
  BY DEF Chain
<1>3. ClosedUp(S)
  <2>1. folders[d].parent \in Chain(folders[d].parent)
    BY <1>1 DEF Chain
  <2>2. ASSUME NEW y \in Chain(folders[d].parent), folders[y].parent \in DOMAIN folders
        PROVE  folders[y].parent \in Chain(folders[d].parent)
    BY <2>2 DEF Chain, ClosedUp
  <2> QED BY <2>1, <2>2 DEF ClosedUp
<1>4. a \in S
  <2> HIDE DEF S
  <2> QED BY <1>2, <1>3 DEF Chain
<1> QED BY <1>1, <1>4

\* From a live folder under a share, the way up to the shared folder is open.
LEMMA WayUp ==
  ASSUME IInv, NEW u \in User, NEW d, LiveFolder(d), NEW a \in Chain(d), HasShare(u, a)
  PROVE  /\ CanOpen(u, d)
         /\ a \in WithMe(u)
         /\ \A e \in Chain(d) : a \in Chain(e) => CanOpen(u, e)
<1>1. LiveFolder(a) /\ a \in FolderId
  BY LiveAbove DEF IInv, TypeOK, LiveFolder
<1>2. \A e \in Chain(d) : LiveFolder(e)
  BY LiveAbove
<1> QED BY <1>1, <1>2 DEF CanOpen, SharedAbove, WithMe, Row, LiveFolder

-----------------------------------------------------------------------------
(* The theorems.                                                           *)

\* Nobody sees anything in the Bin or below it, whatever is shared and in
\* whatever order rows were trashed, moved and restored.
THEOREM AlwaysBinIsPrivate == ShareSpec => []BinIsPrivate
<1>1. IInv => BinIsPrivate
  <2> SUFFICES ASSUME IInv, NEW d \in DOMAIN folders, TrashedFolder(d),
                      NEW x \in Row, Below(x, d)
               PROVE  (\A u \in User : ~CanRead(u, x)) /\ x \notin Public
    BY DEF BinIsPrivate
  <2>1. ~LiveFolder(d)
    BY DEF LiveFolder, TrashedFolder
  <2>2. CASE x \in DOMAIN files
    <3>1. d \in Chain(files[x].folder)
      BY <2>2 DEF Below
    <3>2. ~LiveFile(x)
      BY <2>1, <3>1, LiveFileLiveFolder, LiveAbove
    <3>3. ~LiveFolder(x)
      BY <2>2, UuidAssumption DEF LiveFolder, IInv, TypeOK
    <3> QED BY <3>2, <3>3 DEF CanRead, CanOpen, CanDownload, Public
  <2>3. CASE x \notin DOMAIN files
    <3>1. d \in Chain(x)
      BY <2>3 DEF Below
    <3>2. ~LiveFolder(x)
      BY <2>1, <3>1, LiveAbove
    <3>3. ~LiveFile(x)
      BY <2>3 DEF LiveFile
    <3> QED BY <3>2, <3>3 DEF CanRead, CanOpen, CanDownload, Public
  <2> QED BY <2>2, <2>3
<1> QED BY <1>1, ShareKeepsTree, PTL

\* Whatever a user can read is listed as shared with the user, or reached
\* from something listed by opening folders the user can open.
THEOREM AlwaysReachable == ShareSpec => []ReachableFromWithMe
<1>1. IInv => ReachableFromWithMe
  <2> SUFFICES ASSUME IInv, NEW u \in User, NEW x \in Row, CanRead(u, x), x \notin WithMe(u)
               PROVE  LET up == IF x \in DOMAIN files THEN files[x].folder ELSE folders[x].parent
                      IN  /\ CanOpen(u, up)
                          /\ \E a \in Chain(up) : a \in WithMe(u) /\ \A d \in Chain(up) :
                               a \in Chain(d) => CanOpen(u, d)
    BY DEF ReachableFromWithMe
  <2>1. CASE CanOpen(u, x)
    <3>1. PICK a \in Chain(x) : HasShare(u, a)
      BY <2>1 DEF CanOpen, SharedAbove
    <3>2. LiveFolder(x) /\ x \in DOMAIN folders
      BY <2>1 DEF CanOpen, LiveFolder
    <3>3. a # x
      BY <3>1, <3>2 DEF WithMe
    <3>4. folders[x].parent \in DOMAIN folders /\ a \in Chain(folders[x].parent)
      BY <3>1, <3>2, <3>3, ChainOfParent
    <3>5. LiveFolder(folders[x].parent)
      BY <3>2, <3>4 DEF IInv, BinOrder, LiveFolder, TrashedFolder
    <3>6. x \notin DOMAIN files
      BY <3>2, UuidAssumption DEF IInv, TypeOK
    <3> QED BY <3>1, <3>4, <3>5, <3>6, WayUp
  <2>2. CASE CanDownload(u, x)
    <3>1. LiveFile(x) /\ x \in DOMAIN files
      BY <2>2 DEF CanDownload, LiveFile
    <3>2. ~HasShare(u, x)
      BY <3>1 DEF WithMe
    <3>3. PICK a \in Chain(files[x].folder) : HasShare(u, a)
      BY <2>2, <3>2 DEF CanDownload, SharedAbove
    <3>4. LiveFolder(files[x].folder)
      BY <3>1, LiveFileLiveFolder
    <3> QED BY <3>1, <3>3, <3>4, WayUp
  <2> QED BY <2>1, <2>2 DEF CanRead
<1> QED BY <1>1, ShareKeepsTree, PTL

-----------------------------------------------------------------------------
(* What the reads in progress look back on.                                *)

ReadRow ==
  [step : {"idle", "direct", "chain"}, user : User \cup {None}, on : Row \cup {None},
   folder : FolderId \cup {None}, could : BOOLEAN, widened : BOOLEAN]

\* A step of the tree leaves the parents of the folders that stay, makes a
\* folder, or moves one.
LEMMA TreeShapes ==
  ASSUME IInv, [Next]_vars
  PROVE  \/ /\ DOMAIN folders' \subseteq DOMAIN folders
            /\ \A x \in DOMAIN folders' : folders'[x].parent = folders[x].parent
         \/ \E d \in SubfolderId, p \in FolderId, n \in Name : CreateFolder(d, p, n)
         \/ \E d \in FolderId, p \in FolderId, n \in Name : PatchFolder(d, p, n)
<1> DEFINE Kept == /\ DOMAIN folders' \subseteq DOMAIN folders
                   /\ \A x \in DOMAIN folders' : folders'[x].parent = folders[x].parent
<1>0. folders \in [DOMAIN folders -> FolderRow]
  BY DEF IInv, TypeOK
<1>1. ASSUME NEW d \in FolderId, TrashFolder(d) PROVE Kept
  BY <1>0, <1>1 DEF TrashFolder, FolderRow
<1>2. ASSUME NEW d \in FolderId, RestoreFolder(d) PROVE Kept
  BY <1>0, <1>2 DEF RestoreFolder, FolderRow
<1>3. ASSUME NEW d \in FolderId, DeleteFolderForever(d) \/ \E cutoff \in Cutoff : PurgeFolder(d, cutoff) PROVE Kept
  BY <1>3 DEF DeleteFolderForever, PurgeFolder, WithoutRows
<1>4. ASSUME NEW f \in FileId,
             \/ \E d \in FolderId, n \in Name : InitiateUpload(f, d, n) \/ PatchFile(f, d, n)
             \/ CompleteUpload(f) \/ DeletePendingFile(f) \/ TrashFile(f) \/ DeleteFileForever(f)
             \/ RestoreFile(f) \/ GenerateThumbnail(f) \/ CleanupStaleUpload(f)
             \/ \E cutoff \in Cutoff : PurgeFile(f, cutoff)
      PROVE Kept
  BY <1>4 DEF InitiateUpload, PatchFile, CompleteUpload, DeletePendingFile, TrashFile, DeleteFileForever,
              RestoreFile, GenerateThumbnail, CleanupStaleUpload, PurgeFile
<1>5. UNCHANGED vars => Kept
  BY DEF vars
<1> QED BY <1>1, <1>2, <1>3, <1>4, <1>5 DEF Next

\* A set closed upwards that holds a folder holds its chain.
LEMMA ChainLeast ==
  ASSUME NEW d, NEW S \in SUBSET DOMAIN folders, d \in S, ClosedUp(S)
  PROVE  Chain(d) \subseteq S
BY DEF Chain

LEMMA ChainClosed ==
  ASSUME NEW d \in DOMAIN folders
  PROVE  d \in Chain(d) /\ ClosedUp(Chain(d)) /\ Chain(d) \in SUBSET DOMAIN folders
BY DEF Chain, ClosedUp

\* ChainLeast for the chain after a step.
LEMMA NextChainLeast ==
  ASSUME NEW d, NEW S \in SUBSET DOMAIN folders', d \in S,
         \A y \in S : folders'[y].parent \in DOMAIN folders' => folders'[y].parent \in S
  PROVE  Chain(d)' \subseteq S
BY DEF Chain, ClosedUp

\* When a user comes to have a share above a folder without being given one,
\* there is something the user can read now and could not before.
LEMMA NewlyAbove ==
  ASSUME IInv, IInv', [Next]_vars,
         NEW u \in User, \A x : HasShare(u, x)' => HasShare(u, x),
         NEW d, SharedAbove(u, d)', ~SharedAbove(u, d)
  PROVE  \E x \in Row : CanRead(u, x)' /\ ~CanRead(u, x)
<1>1. PICK a \in Chain(d)' : HasShare(u, a)'
  BY DEF SharedAbove
<1>2. HasShare(u, a) /\ d \in DOMAIN folders'
  BY <1>1 DEF SharedAbove
<1>3. d \in DOMAIN folders => a \notin Chain(d)
  BY <1>2 DEF SharedAbove
<1>4. CASE /\ DOMAIN folders' \subseteq DOMAIN folders
           /\ \A x \in DOMAIN folders' : folders'[x].parent = folders[x].parent
  <2> DEFINE S == Chain(d) \cap DOMAIN folders'
  <2>1. d \in S /\ S \in SUBSET DOMAIN folders'
    BY <1>2, <1>4, ChainClosed
  <2>2. \A y \in S : folders'[y].parent \in DOMAIN folders' => folders'[y].parent \in S
    BY <1>2, <1>4, ChainClosed DEF ClosedUp
  <2>3. a \in S
    <3> HIDE DEF S
    <3> QED BY <1>1, <2>1, <2>2, NextChainLeast
  <2> QED BY <1>2, <1>3, <1>4, <2>3
<1>5. ASSUME NEW c \in SubfolderId, NEW p \in FolderId, NEW n \in Name, CreateFolder(c, p, n)
      PROVE  \E x \in Row : CanRead(u, x)' /\ ~CanRead(u, x)
  <2>1. /\ c \notin DOMAIN folders /\ DOMAIN folders' = DOMAIN folders \cup {c}
        /\ \A x \in DOMAIN folders : folders'[x] = folders[x]
        /\ folders'[c].deletedAt = NotDeleted /\ files' = files
    BY <1>5 DEF CreateFolder
  <2>2. CASE d = c
    <3>1. LiveFolder(c)' /\ CanRead(u, c)'
      BY <2>1, <2>2 DEF LiveFolder, CanRead, CanOpen
    <3>2. ~CanRead(u, c)
      BY <2>1, UuidAssumption DEF CanRead, CanOpen, CanDownload, LiveFolder, LiveFile, IInv, TypeOK, FolderId
    <3> QED BY <3>1, <3>2 DEF Row, FolderId
  <2>3. CASE d # c
    <3>1. d \in DOMAIN folders
      BY <1>2, <2>1, <2>3
    <3>2. \A x \in DOMAIN folders : folders[x].parent # c
      BY <2>1, <1>5, RootAssumption DEF IInv, TypeOK
    <3>3. \A x \in Chain(d) : folders'[x].parent \in DOMAIN folders' => folders'[x].parent \in Chain(d)
      <4>1. \A x \in Chain(d) : x \in DOMAIN folders
        BY DEF Chain
      <4> QED BY <2>1, <3>1, <3>2, <4>1, ChainClosed DEF ClosedUp
    <3>4. a \in Chain(d)
      <4>1. Chain(d) \in SUBSET DOMAIN folders' /\ d \in Chain(d)
        BY <2>1, <3>1, ChainClosed
      <4> QED BY <1>1, <3>3, <4>1, NextChainLeast
    <3> QED BY <1>3, <3>1, <3>4
  <2> QED BY <2>2, <2>3
<1>6. ASSUME NEW m \in FolderId, NEW p \in FolderId, NEW n \in Name, PatchFolder(m, p, n)
      PROVE  \E x \in Row : CanRead(u, x)' /\ ~CanRead(u, x)
  <2>1. /\ LiveFolder(m) /\ m \in DOMAIN folders /\ DOMAIN folders' = DOMAIN folders /\ files' = files
        /\ \A x \in DOMAIN folders \ {m} : folders'[x] = folders[x]
        /\ folders'[m].deletedAt = folders[m].deletedAt
    <3>1. folders[m] \in FolderRow
      BY <1>6 DEF PatchFolder, LiveFolder, IInv, TypeOK
    <3> QED BY <1>6, <3>1 DEF PatchFolder, LiveFolder, FolderRow
  <2>2. d \in DOMAIN folders /\ m \notin DOMAIN files
    BY <1>2, <2>1, UuidAssumption DEF IInv, TypeOK
  <2>3. PICK C : C = Chain(m)'
    OBVIOUS
  <2>4. m \in C /\ ClosedUp(C)' /\ C \in SUBSET DOMAIN folders'
    BY <2>1, <2>3 DEF Chain, ClosedUp
  <2> DEFINE S == Chain(d) \cup C
  <2>5. /\ S \in SUBSET DOMAIN folders' /\ d \in S
        /\ \A y \in S : folders'[y].parent \in DOMAIN folders' => folders'[y].parent \in S
    <3>1. S \in SUBSET DOMAIN folders' /\ d \in S
      BY <2>1, <2>2, <2>4, ChainClosed
    <3>2. ASSUME NEW y \in S, folders'[y].parent \in DOMAIN folders' PROVE folders'[y].parent \in S
      <4>1. CASE y \in C
        BY <2>4, <3>2, <4>1 DEF ClosedUp
      <4>2. CASE y \in Chain(d) /\ y # m
        <5>1. y \in DOMAIN folders /\ folders'[y] = folders[y]
          BY <2>1, <4>2 DEF Chain
        <5> QED BY <2>1, <2>2, <3>2, <4>2, <5>1, ChainClosed DEF ClosedUp
      <4> QED BY <2>4, <4>1, <4>2
    <3> QED BY <3>1, <3>2
  <2>6. a \in C
    <3>1. a \in S
      <4> HIDE DEF S
      <4> QED BY <1>1, <2>5, NextChainLeast
    <3> QED BY <1>3, <2>2, <3>1
  <2>7. CanRead(u, m)'
    BY <1>1, <2>1, <2>3, <2>6 DEF CanRead, CanOpen, LiveFolder, SharedAbove
  <2>8. m \in Chain(d)
    <3> SUFFICES ASSUME m \notin Chain(d) PROVE FALSE
      OBVIOUS
    <3>1. Chain(d) \in SUBSET DOMAIN folders' /\ d \in Chain(d)
      BY <2>1, <2>2, ChainClosed
    <3>2. \A y \in Chain(d) : folders'[y].parent \in DOMAIN folders' => folders'[y].parent \in Chain(d)
      <4>1. \A x \in Chain(d) : x \in DOMAIN folders /\ folders'[x] = folders[x]
        BY <2>1, <3>1
      <4> QED BY <2>1, <2>2, <4>1, ChainClosed DEF ClosedUp
    <3>3. a \in Chain(d)
      BY <1>1, <3>1, <3>2, NextChainLeast
    <3> QED BY <1>3, <2>2, <3>3
  <2>9. ~CanRead(u, m)
    <3> SUFFICES ASSUME CanRead(u, m) PROVE FALSE
      OBVIOUS
    <3>1. SharedAbove(u, m)
      BY <2>2 DEF CanRead, CanOpen, CanDownload, LiveFile
    <3>2. Chain(m) \subseteq Chain(d)
      BY <2>2, <2>8, ChainClosed, ChainLeast
    <3> QED BY <2>2, <3>1, <3>2 DEF SharedAbove
  <2> QED BY <2>7, <2>9 DEF Row
<1> QED BY <1>4, <1>5, <1>6, TreeShapes

\* What a read may still find, something it looks back on justifies.
Looking(r) ==
  /\ reads[r].step \in {"direct", "chain"}
  /\ reads[r].user \in User /\ reads[r].on \in Row /\ reads[r].folder \in FolderId
  /\ reads[r].step = "direct" /\ HasShare(reads[r].user, reads[r].on)
       => reads[r].could \/ reads[r].widened
  /\ SharedAbove(reads[r].user, reads[r].folder) => reads[r].could \/ reads[r].widened

\* A read that is idle stays so, and what it may look back on is only added to.
LEMMA Watched ==
  ASSUME NEW new, NEW shared, Watch(new, shared), NEW r \in Reader, new[r] \in ReadRow
  PROVE  /\ reads'[r] \in ReadRow
         /\ new[r].step = "idle" => reads'[r] = Idle
         /\ new[r].step # "idle" =>
              /\ reads'[r].step = new[r].step /\ reads'[r].user = new[r].user
              /\ reads'[r].on = new[r].on /\ reads'[r].folder = new[r].folder
              /\ reads'[r].could <=> new[r].could \/ \E u \in User, x \in Row :
                                     u = new[r].user /\ x = new[r].on /\ CanRead(u, x)'
              /\ reads'[r].widened <=> new[r].widened \/ \E u \in User : u = new[r].user /\
                                     (u = shared \/ \E x \in Row : CanRead(u, x)' /\ ~CanRead(u, x))
<1> DEFINE could == \E u \in User, x \in Row : u = new[r].user /\ x = new[r].on /\ CanRead(u, x)'
           widened == \E u \in User : u = new[r].user /\
                        (u = shared \/ \E x \in Row : CanRead(u, x)' /\ ~CanRead(u, x))
<1>1. reads'[r] = IF new[r].step = "idle" THEN Idle
                  ELSE [new[r] EXCEPT !.could = @ \/ could, !.widened = @ \/ widened]
  BY DEF Watch
<1>2. could \in BOOLEAN /\ widened \in BOOLEAN
  OBVIOUS
<1> HIDE DEF could, widened
<1>3. CASE new[r].step = "idle"
  BY <1>1, <1>3 DEF Idle, ReadRow
<1>4. CASE new[r].step # "idle"
  <2>1. reads'[r] = [new[r] EXCEPT !.could = @ \/ could, !.widened = @ \/ widened]
    BY <1>1, <1>4
  <2>2. /\ reads'[r] \in ReadRow
        /\ reads'[r].step = new[r].step /\ reads'[r].user = new[r].user
        /\ reads'[r].on = new[r].on /\ reads'[r].folder = new[r].folder
        /\ reads'[r].could = (new[r].could \/ could) /\ reads'[r].widened = (new[r].widened \/ widened)
    BY <1>2, <2>1 DEF ReadRow
  <2> QED BY <1>4, <2>2 DEF could, widened
<1> QED BY <1>3, <1>4

\* A read that goes on looking where it was keeps its justification.
LEMMA LookingKept ==
  ASSUME IInv, IInv', [Next]_vars, NEW new, NEW shared, Watch(new, shared),
         \A u \in User : \A x : u # shared => (HasShare(u, x)' => HasShare(u, x)),
         NEW r \in Reader, Looking(r), new[r] \in ReadRow,
         new[r].step # "idle", new[r].step = "direct" => reads[r].step = "direct",
         new[r].user = reads[r].user, new[r].on = reads[r].on, new[r].folder = reads[r].folder,
         new[r].could = reads[r].could, new[r].widened = reads[r].widened
  PROVE  Looking(r)'
<1>1. PICK u \in User, d \in FolderId, x \in Row :
        u = reads[r].user /\ d = reads[r].folder /\ x = reads[r].on
  BY DEF Looking
<1>2. /\ reads'[r].step = new[r].step /\ reads'[r].user = u /\ reads'[r].on = x /\ reads'[r].folder = d
      /\ reads[r].could \/ reads[r].widened => reads'[r].could \/ reads'[r].widened
      /\ u = shared \/ (\E y \in Row : CanRead(u, y)' /\ ~CanRead(u, y)) => reads'[r].widened
  BY <1>1, Watched
<1>3. ASSUME reads'[r].step = "direct", HasShare(u, x)' PROVE reads'[r].could \/ reads'[r].widened
  BY <1>1, <1>2, <1>3 DEF Looking
<1>4. ASSUME SharedAbove(u, d)' PROVE reads'[r].could \/ reads'[r].widened
  <2>1. CASE u = shared
    BY <1>2, <2>1
  <2>2. CASE SharedAbove(u, d)
    BY <1>1, <1>2, <2>2 DEF Looking
  <2>3. CASE u # shared /\ ~SharedAbove(u, d)
    <3>1. \A y : HasShare(u, y)' => HasShare(u, y)
      BY <2>3
    <3>2. \E y \in Row : CanRead(u, y)' /\ ~CanRead(u, y)
      BY <1>4, <2>3, <3>1, NewlyAbove
    <3> QED BY <1>2, <3>2
  <2> QED BY <2>1, <2>2, <2>3
<1>5. reads'[r].step \in {"direct", "chain"}
  BY <1>2 DEF ReadRow
<1>6. HasShare(reads[r].user, reads[r].on)' <=> HasShare(u, x)'
  BY <1>2 DEF HasShare
<1>7. SharedAbove(reads[r].user, reads[r].folder)' <=> SharedAbove(u, d)'
  BY <1>2 DEF SharedAbove, HasShare
<1> QED BY <1>1, <1>2, <1>3, <1>4, <1>5, <1>6, <1>7 DEF Looking

\* The read r goes on as new[r] without forgetting anything.
GoesOn(new, r) ==
  /\ new[r].step # "idle" /\ (new[r].step = "direct" => reads[r].step = "direct")
  /\ new[r].user = reads[r].user /\ new[r].on = reads[r].on /\ new[r].folder = reads[r].folder
  /\ new[r].could = reads[r].could /\ new[r].widened = reads[r].widened

ReadsOK ==
  /\ reads \in [Reader -> ReadRow]
  /\ \A r \in Reader : reads[r] = Idle \/ Looking(r)

LEMMA ReadsKept ==
  ASSUME IInv, IInv', [Next]_vars, ReadsOK, NEW new \in [Reader -> ReadRow], NEW shared,
         Watch(new, shared),
         \A u \in User : \A x : u # shared => (HasShare(u, x)' => HasShare(u, x)),
         \A r \in Reader : new[r].step = "idle" \/ (Looking(r) /\ GoesOn(new, r)) \/ Looking(r)'
  PROVE  ReadsOK'
<1>1. \A r \in Reader : new[r] \in ReadRow
  OBVIOUS
<1>2. \A r \in Reader : reads'[r] \in ReadRow
  BY <1>1, Watched
<1>3. reads' \in [Reader -> ReadRow]
  <2> DEFINE row(r) == reads'[r]
  <2>1. reads' = [r \in Reader |-> row(r)]
    BY DEF Watch
  <2> HIDE DEF row
  <2>2. \A r \in Reader : row(r) \in ReadRow
    BY <1>2 DEF row
  <2> QED BY <2>1, <2>2
<1>4. ASSUME NEW r \in Reader PROVE reads'[r] = Idle \/ Looking(r)'
  <2>1. CASE new[r].step = "idle"
    BY <1>1, <2>1, Watched
  <2>2. CASE Looking(r) /\ GoesOn(new, r)
    BY <1>1, <2>2, LookingKept DEF GoesOn
  <2> QED BY <2>1, <2>2
<1> QED BY <1>3, <1>4 DEF ReadsOK

\* ON DELETE CASCADE
Attached ==
  /\ shares \subseteq [on : Row, to : User]
  /\ \A s \in shares : s.on \in DOMAIN folders \cup DOMAIN files
  /\ links \subseteq DOMAIN files

ShareInv == IInv /\ Attached /\ ReadsOK

LEMMA ShareInvTypes == ShareInv => ShareTypeOK
BY DEF ShareInv, ShareTypeOK, Attached, ReadsOK, ReadRow, IInv

\* A new read is justified if the user had a share on the file or above the
\* folder when its row was read, as the user could read it then.
LEMMA BeginKeepsReads ==
  ASSUME IInv, IInv', [Next]_vars, ReadsOK, NEW r \in Reader, NEW u \in User, NEW x \in Row, NEW d \in FolderId,
         NEW step \in {"direct", "chain"},
         Begin(r, [Idle EXCEPT !.step = step, !.user = u, !.on = x, !.folder = d]),
         \/ LiveFile(x) /\ d = files[x].folder
         \/ step = "chain" /\ LiveFolder(x) /\ d = x
  PROVE  ReadsOK'
<1> DEFINE read == [Idle EXCEPT !.step = step, !.user = u, !.on = x, !.folder = d]
           new  == [reads EXCEPT ![r] = read]
<1>1. /\ reads[r].step = "idle" /\ UNCHANGED <<vars, shares>> /\ Watch(new, None)
  BY DEF Begin
<1>2. read \in ReadRow /\ read.step = step /\ read.user = u /\ read.on = x /\ read.folder = d
  BY DEF Idle, ReadRow
<1>3. new \in [Reader -> ReadRow] /\ new[r] = read /\ \A q \in Reader \ {r} : new[q] = reads[q]
  BY <1>2 DEF ReadsOK
<1> HIDE DEF read, new
<1>4. \A v, y : HasShare(v, y)' <=> HasShare(v, y)
  BY <1>1 DEF HasShare
<1>5. Looking(r)'
  <2>1. /\ reads'[r].step = step /\ reads'[r].user = u /\ reads'[r].on = x /\ reads'[r].folder = d
        /\ CanRead(u, x)' => reads'[r].could
    BY <1>1, <1>2, <1>3, Watched
  <2>2. SharedAbove(u, d)' => CanRead(u, x)'
    BY <1>1 DEF vars, CanRead, CanOpen, CanDownload, LiveFolder, LiveFile, SharedAbove, Chain, ClosedUp, HasShare
  <2>3. step = "direct" /\ HasShare(u, x)' => CanRead(u, x)'
    BY <1>1 DEF vars, CanRead, CanDownload, LiveFile, HasShare
  <2>4. HasShare(reads[r].user, reads[r].on)' <=> HasShare(u, x)'
    BY <2>1 DEF HasShare
  <2>5. SharedAbove(reads[r].user, reads[r].folder)' <=> SharedAbove(u, d)'
    BY <2>1 DEF SharedAbove, HasShare
  <2> QED BY <2>1, <2>2, <2>3, <2>4, <2>5 DEF Looking
<1>6. ASSUME NEW q \in Reader \ {r}, reads[q] # Idle PROVE Looking(q) /\ GoesOn(new, q)
  BY <1>3, <1>6 DEF ReadsOK, Looking, GoesOn
<1> QED BY <1>1, <1>3, <1>4, <1>5, <1>6, ReadsKept DEF Idle

LEMMA ShareStep == ShareInv /\ [ShareNext]_shareVars => ShareInv'
<1> SUFFICES ASSUME ShareInv, [ShareNext]_shareVars PROVE ShareInv'
  OBVIOUS
<1>1. [Next]_vars
  BY TreeStep DEF shareVars
<1>2. IInv /\ IInv' /\ ReadsOK /\ Attached
  BY <1>1, NextIInv DEF ShareInv
<1>3. reads \in [Reader -> ReadRow]
      /\ \A r \in Reader : reads[r].step = "idle" \/ (Looking(r) /\ GoesOn(reads, r))
  BY <1>2 DEF ReadsOK, Looking, GoesOn, Idle
<1>4. CASE ChangeTree
  <2>1. \A u, x : HasShare(u, x)' => HasShare(u, x)
    BY <1>4 DEF ChangeTree, Surviving, HasShare
  <2>2. ReadsOK'
    BY <1>1, <1>2, <1>3, <1>4, <2>1, ReadsKept DEF ChangeTree
  <2>3. Attached'
    BY <1>2, <1>4 DEF ChangeTree, Surviving, Attached
  <2> QED BY <1>2, <2>2, <2>3 DEF ShareInv
<1>5. ASSUME NEW x \in Row, NEW u \in User, Share(x, u) PROVE ShareInv'
  <2>1. \A v \in User : \A y : v # u => (HasShare(v, y)' => HasShare(v, y))
    BY <1>5 DEF Share, HasShare
  <2>2. ReadsOK'
    BY <1>1, <1>2, <1>3, <1>5, <2>1, ReadsKept DEF Share
  <2>3. Attached'
    BY <1>2, <1>5 DEF Share, Attached, vars
  <2> QED BY <1>2, <2>2, <2>3 DEF ShareInv
<1>6. ASSUME NEW s \in shares, Revoke(s) PROVE ShareInv'
  <2>1. \A v, y : HasShare(v, y)' => HasShare(v, y)
    BY <1>6 DEF Revoke, HasShare
  <2>2. ReadsOK'
    BY <1>1, <1>2, <1>3, <1>6, <2>1, ReadsKept DEF Revoke
  <2>3. Attached'
    BY <1>2, <1>6 DEF Revoke, Attached, vars
  <2> QED BY <1>2, <2>2, <2>3 DEF ShareInv
<1>7. CASE \/ \E f \in FileId : CreateLink(f) \/ DeleteLink(f)
           \/ UNCHANGED shareVars
  <2>1. UNCHANGED <<vars, shares, reads>> /\ links' \subseteq DOMAIN files
    BY <1>2, <1>7 DEF CreateLink, DeleteLink, Attached, shareVars
  <2>2. \A r \in Reader : Looking(r) => Looking(r)'
    BY <2>1 DEF Looking, SharedAbove, HasShare, Chain, ClosedUp, vars
  <2> QED BY <1>2, <2>1, <2>2 DEF ShareInv, ReadsOK, Attached, vars
<1>8. ASSUME NEW r \in Reader, NEW u \in User, NEW x \in Row, StartDownload(r, u, x) PROVE ShareInv'
  <2>1. LiveFile(x) /\ files[x].folder \in FolderId
    BY <1>2, <1>8 DEF StartDownload, LiveFile, IInv, TypeOK, FileRow
  <2>2. ReadsOK'
    BY <1>1, <1>2, <1>8, <2>1, BeginKeepsReads DEF StartDownload
  <2> QED BY <1>2, <1>8, <2>2 DEF ShareInv, StartDownload, Begin, Attached, vars
<1>9. ASSUME NEW r \in Reader, NEW u \in User, NEW x \in Row, StartOpen(r, u, x) PROVE ShareInv'
  <2>1. LiveFolder(x) /\ x \in FolderId
    BY <1>2, <1>9 DEF StartOpen, LiveFolder, IInv, TypeOK
  <2>2. ReadsOK'
    BY <1>1, <1>2, <1>9, <2>1, BeginKeepsReads DEF StartOpen
  <2> QED BY <1>2, <1>9, <2>2 DEF ShareInv, StartOpen, Begin, Attached, vars
<1>10. ASSUME NEW r \in Reader, CheckDirect(r) \/ CheckChain(r) PROVE ShareInv'
  <2>1. PICK read \in {Idle, [reads[r] EXCEPT !.step = "chain"]} : Watch([reads EXCEPT ![r] = read], None)
    BY <1>10 DEF CheckDirect, CheckChain
  <2>2. reads[r].step # "idle" /\ Looking(r) /\ UNCHANGED <<vars, shares, links>>
    BY <1>2, <1>10 DEF CheckDirect, CheckChain, ReadsOK, Idle
  <2>3. read \in ReadRow
    <3>1. reads[r] \in ReadRow
      BY <1>3
    <3>2. [reads[r] EXCEPT !.step = "chain"] \in ReadRow
      BY <3>1 DEF ReadRow
    <3>3. Idle \in ReadRow
      BY DEF ReadRow, Idle
    <3> QED BY <2>1, <3>2, <3>3
  <2> DEFINE new == [reads EXCEPT ![r] = read]
  <2>4. new \in [Reader -> ReadRow] /\ new[r] = read /\ \A q \in Reader \ {r} : new[q] = reads[q]
    BY <1>3, <2>3
  <2>5. \A q \in Reader : new[q].step = "idle" \/ (Looking(q) /\ GoesOn(new, q))
    <3> HIDE DEF new
    <3>1. CASE read = Idle
      BY <1>3, <2>4, <3>1 DEF GoesOn, Idle
    <3>2. CASE read = [reads[r] EXCEPT !.step = "chain"]
      BY <1>3, <2>2, <2>4, <3>2 DEF GoesOn, ReadRow
    <3> QED BY <2>1, <3>1, <3>2
  <2>6. \A v, y : HasShare(v, y)' => HasShare(v, y)
    BY <2>2 DEF HasShare
  <2>7. ReadsOK'
    <3> HIDE DEF new
    <3>1. Watch(new, None)
      BY <2>1 DEF new
    <3> QED BY <1>1, <1>2, <2>4, <2>5, <2>6, <3>1, ReadsKept
  <2> QED BY <1>2, <2>2, <2>7 DEF ShareInv, Attached, vars
<1> QED BY <1>4, <1>5, <1>6, <1>7, <1>8, <1>9, <1>10 DEF ShareNext

\* A cascade takes the shares and the links of what it removes, and a read
\* holds what its types say.
LEMMA ShareInvariant == ShareSpec => []ShareInv
<1>1. ShareInit => ShareInv
  BY InitIInv DEF ShareInit, ShareInv, Attached, ReadsOK, ReadRow, Idle, Init
<1> QED BY <1>1, ShareStep, PTL DEF ShareSpec

THEOREM ShareTypes == ShareSpec => []ShareTypeOK
BY ShareInvariant, ShareInvTypes, PTL

\* A read is granted only to a user who could read the row at some moment of
\* it, or was given something else to read meanwhile.
THEOREM AlwaysGrantsAreJustified == ShareSpec => []GrantsAreJustified
<1>1. ShareInv => GrantsAreJustified
  BY DEF ShareInv, ReadsOK, Looking, GrantsAreJustified, FoundDirect, FoundAbove, Idle
<1> QED BY <1>1, ShareInvariant, PTL
=============================================================================
