-------------------------- MODULE DriveTreeProofs --------------------------
(***************************************************************************)
(* Proofs about DriveTree for any number of folders, files and names and   *)
(* any MaxClock.  The inductive invariant is the tree and the order of the *)
(* Bin together: BinOrder alone is not preserved by a move (a folder moved *)
(* under its own subtree would carry the Bin with it), and OneTree alone   *)
(* is not preserved by a purge (a live root must not lie under a trashed   *)
(* folder).  ClockAhead makes a new trashing the latest one.               *)
(***************************************************************************)
EXTENDS DriveTree, FiniteSetTheorems, TLAPS

IInv == TypeOK /\ OneTree /\ BinOrder /\ ClockAhead

-----------------------------------------------------------------------------
(* The subtree of a folder.                                                *)

\* Subtree(d) is the least set with d that is closed under children
\* (dbHelpers.ts getDescendantFolderIds).
LEMMA SubtreeSelf ==
  ASSUME NEW d \in DOMAIN folders
  PROVE  d \in Subtree(d)
BY DEF Subtree

LEMMA SubtreeClosed ==
  ASSUME NEW d, NEW x \in DOMAIN folders, folders[x].parent \in Subtree(d)
  PROVE  x \in Subtree(d)
BY DEF Subtree, ClosedDown

LEMMA SubtreeLeast ==
  ASSUME NEW d, NEW S \in SUBSET DOMAIN folders, d \in S, ClosedDown(S)
  PROVE  Subtree(d) \subseteq S
BY DEF Subtree

\* Every folder of a subtree but its top has its parent in the subtree.
LEMMA SubtreeParent ==
  ASSUME NEW d \in DOMAIN folders, NEW x \in Subtree(d), x # d
  PROVE  folders[x].parent \in Subtree(d)
<1> SUFFICES ASSUME folders[x].parent \notin Subtree(d) PROVE FALSE
  OBVIOUS
<1> DEFINE S == Subtree(d) \ {x}
<1>1. S \in SUBSET DOMAIN folders
  BY DEF Subtree
<1>2. d \in S
  BY SubtreeSelf
<1>3. ClosedDown(S)
  <2> SUFFICES ASSUME NEW y \in DOMAIN folders, folders[y].parent \in S
               PROVE  y \in S
    BY DEF ClosedDown
  <2>1. y \in Subtree(d)
    BY SubtreeClosed
  <2> QED BY <2>1
<1>4. Subtree(d) \subseteq S
  <2> HIDE DEF S
  <2> QED BY <1>1, <1>2, <1>3, SubtreeLeast
<1> QED BY <1>4

\* The two recursive queries agree: what lies under d has d on its chain
\* (dbHelpers.ts isSameOrAncestor against getDescendantFolderIds).
LEMMA SubtreeChain ==
  ASSUME NEW d \in DOMAIN folders, NEW x \in Subtree(d)
  PROVE  IsSameOrAncestor(d, x)
<1> SUFFICES ASSUME NEW S \in SUBSET DOMAIN folders, x \in S, ClosedUp(S), d \notin S
             PROVE  FALSE
  BY DEF IsSameOrAncestor, Chain
<1> DEFINE T == DOMAIN folders \ S
<1>1. ClosedDown(T)
  BY DEF ClosedDown, ClosedUp
<1>2. Subtree(d) \subseteq T
  <2> T \in SUBSET DOMAIN folders /\ d \in T
    OBVIOUS
  <2> HIDE DEF T
  <2> QED BY <1>1, SubtreeLeast
<1> QED BY <1>2

\* Only the root's subtree holds the root.
LEMMA RootOutside ==
  ASSUME TypeOK, OneTree, NEW d \in DOMAIN folders, d # Root
  PROVE  Root \notin Subtree(d)
<1> SUFFICES ASSUME Root \in Subtree(d) PROVE FALSE
  OBVIOUS
<1>1. NoParent \in Subtree(d)
  BY SubtreeParent DEF OneTree
<1> QED BY <1>1, RootAssumption DEF Subtree, TypeOK, FolderId

\* What lies under a trashed folder was trashed with it or before it.
LEMMA TrashedUnder ==
  ASSUME TypeOK, BinOrder, NEW d, TrashedFolder(d)
  PROVE  /\ \A x \in Subtree(d) :
              TrashedFolder(x) /\ folders[x].deletedAt <= folders[d].deletedAt
         /\ \A f \in FilesUnder(Subtree(d)) :
              TrashedFile(f) /\ files[f].deletedAt <= folders[d].deletedAt
<1> DEFINE S == {x \in DOMAIN folders :
                   TrashedFolder(x) /\ folders[x].deletedAt <= folders[d].deletedAt}
<1>0. \A x \in DOMAIN folders : folders[x].deletedAt \in Nat
  BY MaxClockAssumption DEF TypeOK, FolderRow, Time
<1>1. d \in S
  BY <1>0 DEF TrashedFolder
<1>2. ClosedDown(S)
  BY <1>0 DEF ClosedDown, BinOrder, TrashedFolder
<1>3. Subtree(d) \subseteq S
  <2> S \in SUBSET DOMAIN folders
    OBVIOUS
  <2> HIDE DEF S
  <2> QED BY <1>1, <1>2, SubtreeLeast
<1>4. ASSUME NEW f \in FilesUnder(Subtree(d))
      PROVE  TrashedFile(f) /\ files[f].deletedAt <= folders[d].deletedAt
  <2>1. files[f].folder \in S /\ f \in DOMAIN files
    BY <1>3, <1>4 DEF FilesUnder
  <2>2. files[f].deletedAt \in Nat
    BY <2>1, MaxClockAssumption DEF TypeOK, FileRow, Time
  <2> QED BY <1>0, <2>1, <2>2, TrashedFolder(d) DEF BinOrder, TrashedFolder
<1> QED BY <1>3, <1>4

-----------------------------------------------------------------------------
(* Steps that leave the folders' shape alone.                              *)

\* A step that changes no parent changes no subtree.
LEMMA SameShape ==
  ASSUME DOMAIN folders' = DOMAIN folders,
         \A x \in DOMAIN folders : folders'[x].parent = folders[x].parent,
         NEW d
  PROVE  Subtree(d)' = Subtree(d)
BY DEF Subtree, ClosedDown

\* OneTree survives a step that keeps every parent and a live root.
LEMMA OneTreeSameShape ==
  ASSUME OneTree,
         DOMAIN folders' = DOMAIN folders,
         \A x \in DOMAIN folders : folders'[x].parent = folders[x].parent,
         folders'[Root].deletedAt = NotDeleted
  PROVE  OneTree'
<1>1. Root \in DOMAIN folders
  BY DEF OneTree, LiveFolder
<1>2. Subtree(Root)' = Subtree(Root)
  BY SameShape
<1> QED BY <1>1, <1>2 DEF OneTree, LiveFolder

\* A new folder under one that is there keeps one tree.
LEMMA LeafKeepsTree ==
  ASSUME OneTree, NEW d, NEW p \in DOMAIN folders,
         DOMAIN folders' = DOMAIN folders \cup {d}, d \notin DOMAIN folders,
         folders'[d].parent = p,
         \A x \in DOMAIN folders : folders'[x] = folders[x]
  PROVE  OneTree'
<1>1. Root \in DOMAIN folders /\ LiveFolder(Root)' /\ folders'[Root].parent = NoParent
  BY DEF OneTree, LiveFolder
<1>2. ASSUME NEW S \in SUBSET DOMAIN folders', Root \in S, ClosedDown(S)'
      PROVE  DOMAIN folders' \subseteq S
  <2> DEFINE T == S \cap DOMAIN folders
  <2>1. ClosedDown(T)
    BY <1>2 DEF ClosedDown
  <2>2. T \in SUBSET DOMAIN folders /\ Root \in T
    BY <1>1, <1>2
  <2>3. Subtree(Root) \subseteq T
    <3> HIDE DEF T
    <3> QED BY <2>1, <2>2, SubtreeLeast
  <2>4. DOMAIN folders \subseteq S
    BY <2>3 DEF OneTree
  <2>5. d \in S
    BY <1>2, <2>4 DEF ClosedDown
  <2> QED BY <2>4, <2>5
<1>3. \A x \in DOMAIN folders' : x \in Subtree(Root)'
  BY <1>2 DEF Subtree
<1> QED BY <1>1, <1>3 DEF OneTree

\* So does removing a set of folders that is closed under children.
LEMMA CascadeKeepsTree ==
  ASSUME OneTree, NEW D \in SUBSET DOMAIN folders, ClosedDown(D), Root \notin D,
         folders' = WithoutRows(folders, D)
  PROVE  OneTree'
<1>1. /\ DOMAIN folders' = DOMAIN folders \ D
      /\ \A x \in DOMAIN folders \ D : folders'[x] = folders[x]
  BY DEF WithoutRows
<1>2. Root \in DOMAIN folders' /\ LiveFolder(Root)' /\ folders'[Root].parent = NoParent
  BY <1>1 DEF OneTree, LiveFolder
<1>3. ASSUME NEW S \in SUBSET DOMAIN folders', Root \in S, ClosedDown(S)'
      PROVE  DOMAIN folders' \subseteq S
  <2> DEFINE T == S \cup D
  <2>1. ClosedDown(T)
    BY <1>1, <1>3 DEF ClosedDown
  <2>2. T \in SUBSET DOMAIN folders /\ Root \in T
    BY <1>1, <1>3
  <2>3. Subtree(Root) \subseteq T
    <3> HIDE DEF T
    <3> QED BY <2>1, <2>2, SubtreeLeast
  <2> QED BY <1>1, <2>3 DEF OneTree
<1>4. \A x \in DOMAIN folders' : x \in Subtree(Root)'
  BY <1>3 DEF Subtree
<1> QED BY <1>2, <1>4 DEF OneTree

\* A live folder under a live one keeps the order of the Bin.
LEMMA LeafKeepsOrder ==
  ASSUME TypeOK, BinOrder, NEW d, d \notin DOMAIN folders,
         DOMAIN folders' = DOMAIN folders \cup {d},
         folders'[d].deletedAt = NotDeleted,
         ~TrashedFolder(folders'[d].parent),  folders'[d].parent # d,
         \A x \in DOMAIN folders : folders'[x] = folders[x],
         files' = files
  PROVE  BinOrder'
<1>1. ASSUME NEW x \in DOMAIN folders', TrashedFolder(folders[x].parent)'
      PROVE  /\ TrashedFolder(x)'
             /\ folders'[x].deletedAt <= folders'[folders'[x].parent].deletedAt
  <2>1. x # d
    BY <1>1 DEF TrashedFolder
  <2>2. folders[x].parent \in DOMAIN folders
    BY <1>1, <2>1, RootAssumption DEF TypeOK, TrashedFolder
  <2> QED BY <1>1, <2>1, <2>2 DEF BinOrder, TrashedFolder
<1>2. ASSUME NEW f \in DOMAIN files, TrashedFolder(files[f].folder)'
      PROVE  TrashedFile(f) /\ files[f].deletedAt <= folders'[files[f].folder].deletedAt
  BY <1>2 DEF BinOrder, TypeOK, TrashedFolder
<1> QED BY <1>1, <1>2 DEF BinOrder, TrashedFile

\* So does a move of a folder under a live one.
LEMMA MoveKeepsOrder ==
  ASSUME TypeOK, BinOrder, NEW d \in DOMAIN folders,
         DOMAIN folders' = DOMAIN folders,
         ~TrashedFolder(folders'[d].parent),
         folders'[d].deletedAt = folders[d].deletedAt,
         \A x \in DOMAIN folders \ {d} : folders'[x] = folders[x],
         files' = files
  PROVE  BinOrder'
<1>1. \A x \in DOMAIN folders : folders'[x].deletedAt = folders[x].deletedAt
  OBVIOUS
<1>2. \A x : TrashedFolder(x)' <=> TrashedFolder(x)
  BY <1>1 DEF TrashedFolder
<1>3. ASSUME NEW x \in DOMAIN folders', TrashedFolder(folders[x].parent)'
      PROVE  TrashedFolder(x)' /\ folders'[x].deletedAt <= folders'[folders'[x].parent].deletedAt
  <2>1. x # d
    BY <1>1, <1>3 DEF TrashedFolder
  <2> QED BY <1>1, <1>2, <1>3, <2>1 DEF BinOrder, TrashedFolder
<1>4. ASSUME NEW f \in DOMAIN files, TrashedFolder(files[f].folder)'
      PROVE  TrashedFile(f) /\ files[f].deletedAt <= folders'[files[f].folder].deletedAt
  BY <1>1, <1>2, <1>4 DEF BinOrder, TypeOK
<1> QED BY <1>3, <1>4 DEF BinOrder, TrashedFile

\* So does removing folders together with all that is under them.
LEMMA CascadeKeepsOrder ==
  ASSUME BinOrder, NEW D \in SUBSET DOMAIN folders, ClosedDown(D),
         NEW F \in SUBSET DOMAIN files, FilesUnder(D) \subseteq F,
         folders' = WithoutRows(folders, D), files' = WithoutRows(files, F)
  PROVE  BinOrder'
<1> USE DEF WithoutRows
<1>1. ASSUME NEW x \in DOMAIN folders', TrashedFolder(folders[x].parent)'
      PROVE  TrashedFolder(x)' /\ folders'[x].deletedAt <= folders'[folders'[x].parent].deletedAt
  BY <1>1 DEF BinOrder, TrashedFolder
<1>2. ASSUME NEW f \in DOMAIN files', TrashedFolder(files[f].folder)'
      PROVE  TrashedFile(f)' /\ files'[f].deletedAt <= folders'[files'[f].folder].deletedAt
  BY <1>2 DEF BinOrder, TrashedFolder, TrashedFile
<1> QED BY <1>1, <1>2 DEF BinOrder

\* So does trashing the live rows of a set of folders that is closed under
\* children, at a time no earlier than any they hold.
LEMMA TrashKeepsOrder ==
  ASSUME TypeOK, BinOrder, NEW D, ClosedDown(D), NEW t \in Nat \ {NotDeleted},
         \A x \in D \cap DOMAIN folders : folders[x].deletedAt <= t,
         \A f \in FilesUnder(D) : files[f].deletedAt <= t,
         DOMAIN folders' = DOMAIN folders,
         \A x \in DOMAIN folders : folders'[x].parent = folders[x].parent,
         \A x \in DOMAIN folders : folders'[x].deletedAt =
            IF x \in D /\ LiveFolder(x) THEN t ELSE folders[x].deletedAt,
         DOMAIN files' = DOMAIN files,
         \A f \in DOMAIN files : files'[f].folder = files[f].folder,
         \A f \in DOMAIN files : files'[f].deletedAt =
            IF f \in FilesUnder(D) /\ LiveFile(f) THEN t ELSE files[f].deletedAt
  PROVE  BinOrder'
<1>0. /\ \A x \in DOMAIN folders : folders[x].deletedAt \in Nat
      /\ \A f \in DOMAIN files : files[f].deletedAt \in Nat
  BY MaxClockAssumption DEF TypeOK, FolderRow, FileRow, Time, NotDeleted
<1>1. ASSUME NEW x \in DOMAIN folders, TrashedFolder(folders[x].parent)'
      PROVE  TrashedFolder(x)' /\ folders'[x].deletedAt <= folders'[folders'[x].parent].deletedAt
  <2> DEFINE p == folders[x].parent
  <2>1. p \in DOMAIN folders /\ folders'[p].deletedAt # NotDeleted
    BY <1>1 DEF TrashedFolder
  <2>2. CASE p \in D /\ LiveFolder(p)
    <3>1. x \in D
      BY <2>2 DEF ClosedDown
    <3>2. folders'[p].deletedAt = t
      BY <2>1, <2>2
    <3>3. folders'[x].deletedAt # NotDeleted /\ folders'[x].deletedAt <= t
      BY <1>0, <3>1 DEF LiveFolder
    <3> QED BY <3>2, <3>3 DEF TrashedFolder
  <2>3. CASE ~(p \in D /\ LiveFolder(p))
    <3>1. folders'[p].deletedAt = folders[p].deletedAt
      BY <2>1, <2>3
    <3>2. TrashedFolder(x) /\ folders[x].deletedAt <= folders[p].deletedAt
      BY <2>1, <3>1 DEF BinOrder, TrashedFolder
    <3>3. folders'[x].deletedAt = folders[x].deletedAt
      BY <3>2 DEF LiveFolder, TrashedFolder
    <3> QED BY <3>1, <3>2, <3>3 DEF TrashedFolder
  <2> QED BY <2>2, <2>3
<1>2. ASSUME NEW f \in DOMAIN files, TrashedFolder(files[f].folder)'
      PROVE  TrashedFile(f)' /\ files'[f].deletedAt <= folders'[files'[f].folder].deletedAt
  <2> DEFINE p == files[f].folder
  <2>1. p \in DOMAIN folders /\ folders'[p].deletedAt # NotDeleted
    BY <1>2 DEF TrashedFolder
  <2>2. CASE p \in D /\ LiveFolder(p)
    <3>1. f \in FilesUnder(D)
      BY <2>2 DEF FilesUnder
    <3>2. folders'[p].deletedAt = t
      BY <2>1, <2>2
    <3>3. files'[f].deletedAt # NotDeleted /\ files'[f].deletedAt <= t
      BY <1>0, <3>1 DEF LiveFile
    <3> QED BY <3>2, <3>3 DEF TrashedFile
  <2>3. CASE ~(p \in D /\ LiveFolder(p))
    <3>1. folders'[p].deletedAt = folders[p].deletedAt
      BY <2>1, <2>3
    <3>2. TrashedFile(f) /\ files[f].deletedAt <= folders[p].deletedAt
      BY <2>1, <3>1 DEF BinOrder, TrashedFolder
    <3>3. files'[f].deletedAt = files[f].deletedAt
      BY <3>2 DEF LiveFile, TrashedFile
    <3> QED BY <3>1, <3>2, <3>3 DEF TrashedFile
  <2> QED BY <2>2, <2>3
<1> QED BY <1>1, <1>2 DEF BinOrder

\* So does bringing back the rows of a subtree that have its top's
\* timestamp, when that top is not under a trashed folder itself.
LEMMA RestoreKeepsOrder ==
  ASSUME TypeOK, BinOrder, NEW d, TrashedFolder(d), ~TrashedFolder(folders[d].parent),
         NEW D, D \cap DOMAIN folders = Subtree(d),
         DOMAIN folders' = DOMAIN folders,
         \A x \in DOMAIN folders : folders'[x].parent = folders[x].parent,
         \A x \in DOMAIN folders : folders'[x].deletedAt =
            IF x \in D /\ folders[x].deletedAt = folders[d].deletedAt
            THEN NotDeleted ELSE folders[x].deletedAt,
         DOMAIN files' = DOMAIN files,
         \A f \in DOMAIN files : files'[f].folder = files[f].folder,
         \A f \in DOMAIN files : files'[f].deletedAt =
            IF f \in FilesUnder(D) /\ files[f].deletedAt = folders[d].deletedAt
            THEN NotDeleted ELSE files[f].deletedAt
  PROVE  BinOrder'
<1> DEFINE t == folders[d].deletedAt
<1>1. /\ \A x \in DOMAIN folders : folders[x].deletedAt \in Nat
      /\ \A f \in DOMAIN files : files[f].deletedAt \in Nat
      /\ d \in DOMAIN folders
  BY MaxClockAssumption DEF TypeOK, FolderRow, FileRow, Time, TrashedFolder
\* A folder that was trashed at t under d has its parent trashed at t too:
\* not earlier, by BinOrder at that parent; not later, by BinOrder below d.
<1>2. ASSUME NEW p \in Subtree(d), t <= folders[p].deletedAt
      PROVE  folders[p].deletedAt = t
  <2>1. p \in DOMAIN folders /\ folders[p].deletedAt <= t
    BY <1>1, TrashedUnder DEF TrashedFolder
  <2> QED BY <1>1, <1>2, <2>1
<1>3. ASSUME NEW x \in DOMAIN folders, TrashedFolder(folders[x].parent)'
      PROVE  TrashedFolder(x)' /\ folders'[x].deletedAt <= folders'[folders'[x].parent].deletedAt
  <2> DEFINE p == folders[x].parent
  <2>1. p \in DOMAIN folders /\ folders'[p].deletedAt # NotDeleted
    BY <1>3 DEF TrashedFolder
  <2>2. folders'[p].deletedAt = folders[p].deletedAt
    BY <2>1
  <2>3. TrashedFolder(x) /\ folders[x].deletedAt <= folders[p].deletedAt
    BY <2>1, <2>2 DEF BinOrder, TrashedFolder
  <2>4. ~(x \in D /\ folders[x].deletedAt = t)
    <3> SUFFICES ASSUME x \in D, folders[x].deletedAt = t PROVE FALSE
      OBVIOUS
    <3>1. CASE x = d
      BY <2>1, <2>2, <3>1 DEF TrashedFolder
    <3>2. CASE x # d
      <4>1. p \in Subtree(d)
        BY <1>1, <3>2, SubtreeParent
      <4>2. folders[p].deletedAt = t
        BY <1>2, <2>3, <3>2, <4>1
      <4> QED BY <2>1, <4>1, <4>2
    <3> QED BY <3>1, <3>2
  <2>5. folders'[x].deletedAt = folders[x].deletedAt
    BY <2>4
  <2> QED BY <2>2, <2>3, <2>5 DEF TrashedFolder
<1>4. ASSUME NEW f \in DOMAIN files, TrashedFolder(files[f].folder)'
      PROVE  TrashedFile(f)' /\ files'[f].deletedAt <= folders'[files'[f].folder].deletedAt
  <2> DEFINE p == files[f].folder
  <2>1. p \in DOMAIN folders /\ folders'[p].deletedAt # NotDeleted
    BY <1>4 DEF TrashedFolder
  <2>2. folders'[p].deletedAt = folders[p].deletedAt
    BY <2>1
  <2>3. TrashedFile(f) /\ files[f].deletedAt <= folders[p].deletedAt
    BY <2>1, <2>2 DEF BinOrder, TrashedFolder
  <2>4. ~(f \in FilesUnder(D) /\ files[f].deletedAt = t)
    <3> SUFFICES ASSUME f \in FilesUnder(D), files[f].deletedAt = t PROVE FALSE
      OBVIOUS
    <3>1. p \in Subtree(d)
      BY <2>1 DEF FilesUnder
    <3>2. folders[p].deletedAt = t
      BY <1>2, <2>3, <3>1
    <3> QED BY <2>1, <3>1, <3>2
  <2>5. files'[f].deletedAt = files[f].deletedAt
    BY <2>4
  <2> QED BY <2>2, <2>3, <2>5 DEF TrashedFile
<1> QED BY <1>3, <1>4 DEF BinOrder

-----------------------------------------------------------------------------
(* Each handler keeps the invariant.                                       *)

LEMMA InitIInv == Init => IInv
<1> SUFFICES ASSUME Init PROVE IInv
  OBVIOUS
<1>1. PICK n \in Name : folders = [d \in {Root} |->
        [parent |-> NoParent, name |-> n, deletedAt |-> NotDeleted]]
  BY DEF Init
<1>2. DOMAIN folders = {Root} /\ DOMAIN files = {}
  BY <1>1 DEF Init
<1>3. folders[Root] = [parent |-> NoParent, name |-> n, deletedAt |-> NotDeleted]
  BY <1>1
<1>4. TypeOK
  <2>1. folders \in [DOMAIN folders -> FolderRow]
    BY <1>1, <1>2, <1>3, MaxClockAssumption DEF FolderRow, Time, NotDeleted
  <2>2. files \in [DOMAIN files -> FileRow]
    BY <1>2 DEF Init
  <2> QED BY <1>2, <1>3, <2>1, <2>2, MaxClockAssumption DEF Init, TypeOK, FolderId, Time
<1>5. OneTree
  BY <1>2, <1>3, SubtreeSelf DEF OneTree, LiveFolder
<1>6. BinOrder
  BY <1>2, <1>3, RootAssumption DEF BinOrder, TrashedFolder
<1>7. ClockAhead
  BY <1>2, <1>3 DEF Init, ClockAhead, NotDeleted
<1> QED BY <1>4, <1>5, <1>6, <1>7 DEF IInv

LEMMA CreateFolderIInv ==
  ASSUME IInv, NEW d \in SubfolderId, NEW p \in FolderId, NEW n \in Name, CreateFolder(d, p, n)
  PROVE  IInv'
<1> USE DEF CreateFolder
<1>0. TypeOK /\ OneTree /\ BinOrder /\ ClockAhead
  BY DEF IInv
<1> DEFINE row == [parent |-> p, name |-> n, deletedAt |-> NotDeleted]
<1>1. /\ DOMAIN folders' = DOMAIN folders \cup {d}
      /\ folders'[d] = row
      /\ \A x \in DOMAIN folders : folders'[x] = folders[x]
  OBVIOUS
<1>2. p \in DOMAIN folders /\ p # d /\ folders[p].deletedAt = NotDeleted
  BY DEF LiveFolder
<1>3. row \in FolderRow
  BY MaxClockAssumption DEF FolderRow, NotDeleted, Time
<1> HIDE DEF row
<1>4. TypeOK'
  <2>1. folders' \in [DOMAIN folders' -> FolderRow]
    BY <1>0, <1>1, <1>3 DEF TypeOK
  <2>2. \A x \in DOMAIN folders' : folders'[x].parent \in DOMAIN folders' \cup {NoParent}
    BY <1>0, <1>1, <1>2 DEF TypeOK, row
  <2> QED BY <1>0, <1>1, <2>1, <2>2 DEF TypeOK, FolderId
<1>5. OneTree'
  BY <1>0, <1>1, <1>2, LeafKeepsTree DEF row
<1>6. BinOrder'
  BY <1>0, <1>1, <1>2, LeafKeepsOrder DEF row, TrashedFolder
<1>7. ClockAhead'
  BY <1>0, <1>1, MaxClockAssumption DEF ClockAhead, TypeOK, Time, row, NotDeleted
<1> QED BY <1>4, <1>5, <1>6, <1>7 DEF IInv

\* A move under a folder that is not in the moved subtree keeps one tree.
LEMMA MoveKeepsTree ==
  ASSUME TypeOK, OneTree, NEW d \in DOMAIN folders, d # Root,
         NEW p \in DOMAIN folders, p \notin Subtree(d),
         DOMAIN folders' = DOMAIN folders,
         folders'[d].parent = p,
         \A x \in DOMAIN folders \ {d} : folders'[x].parent = folders[x].parent,
         folders'[Root].deletedAt = NotDeleted
  PROVE  OneTree'
<1>1. Root \in DOMAIN folders /\ folders[Root].parent = NoParent
  BY DEF OneTree, LiveFolder
<1>2. ASSUME NEW S \in SUBSET DOMAIN folders, Root \in S, ClosedDown(S)'
      PROVE  DOMAIN folders \subseteq S
  <2> DEFINE T == S \cup Subtree(d)
             U == S \cup (DOMAIN folders \ Subtree(d))
  <2>0. Subtree(d) \subseteq DOMAIN folders /\ d \in Subtree(d)
    BY SubtreeSelf DEF Subtree
  <2>1. ClosedDown(T)
    <3> SUFFICES ASSUME NEW x \in DOMAIN folders, folders[x].parent \in T, x \notin Subtree(d)
                 PROVE  x \in S
      BY DEF ClosedDown
    <3>1. folders[x].parent \in S
      BY SubtreeClosed
    <3> QED BY <1>2, <2>0, <3>1 DEF ClosedDown
  <2>2. Subtree(Root) \subseteq T
    <3> T \in SUBSET DOMAIN folders /\ Root \in T
      BY <1>2, <2>0
    <3> HIDE DEF T
    <3> QED BY <2>1, SubtreeLeast
  <2>3. d \in S
    BY <1>2, <2>2 DEF OneTree, ClosedDown
  <2>4. ClosedDown(U)
    <3> SUFFICES ASSUME NEW x \in Subtree(d), folders[x].parent \in U, x # d
                 PROVE  x \in S
      BY <2>3 DEF ClosedDown
    <3>1. folders[x].parent \in S
      BY SubtreeParent
    <3> QED BY <1>2, <2>0, <3>1 DEF ClosedDown
  <2>5. Subtree(Root) \subseteq U
    <3> U \in SUBSET DOMAIN folders /\ Root \in U
      BY <1>2
    <3> HIDE DEF U
    <3> QED BY <2>4, SubtreeLeast
  <2> QED BY <2>2, <2>5 DEF OneTree
<1>3. \A x \in DOMAIN folders' : x \in Subtree(Root)'
  BY <1>2 DEF Subtree
<1> QED BY <1>1, <1>3 DEF OneTree, LiveFolder

LEMMA PatchFolderIInv ==
  ASSUME IInv, NEW d \in FolderId, NEW p \in FolderId, NEW n \in Name, PatchFolder(d, p, n)
  PROVE  IInv'
<1> USE DEF PatchFolder
<1>0. TypeOK /\ OneTree /\ BinOrder /\ ClockAhead
  BY DEF IInv
<1>1. d \in DOMAIN folders /\ d # Root /\ folders[d].deletedAt = NotDeleted
  BY DEF LiveFolder
<1>2. p \in DOMAIN folders /\ folders[p].deletedAt = NotDeleted
  <2>1. CASE LiveFolder(p)
    BY <2>1 DEF LiveFolder
  <2>2. CASE p = folders[d].parent
    BY <1>0, <1>1, <2>2, RootAssumption DEF TypeOK, BinOrder, TrashedFolder, FolderId
  <2> QED BY <2>1, <2>2
<1>3. folders[d] \in FolderRow
  BY <1>0, <1>1 DEF TypeOK
<1>4. /\ DOMAIN folders' = DOMAIN folders
      /\ folders'[d] \in FolderRow
      /\ folders'[d].parent = p /\ folders'[d].deletedAt = NotDeleted
      /\ \A x \in DOMAIN folders \ {d} : folders'[x] = folders[x]
      /\ folders' \in [DOMAIN folders' -> FolderRow]
  BY <1>0, <1>1, <1>3 DEF TypeOK, FolderRow
<1>5. TypeOK'
  <2>1. \A x \in DOMAIN folders' : folders'[x].parent \in DOMAIN folders' \cup {NoParent}
    BY <1>0, <1>2, <1>4 DEF TypeOK
  <2> QED BY <1>0, <1>4, <2>1 DEF TypeOK
<1>6. OneTree'
  <2>1. Root \in DOMAIN folders /\ folders'[Root].deletedAt = NotDeleted
    BY <1>0, <1>1, <1>4 DEF OneTree, LiveFolder
  <2>2. CASE p = folders[d].parent
    BY <1>0, <1>4, <2>1, <2>2, OneTreeSameShape
  <2>3. CASE ~IsSameOrAncestor(d, p)
    <3>1. p \notin Subtree(d)
      BY <1>1, <2>3, SubtreeChain
    <3> QED BY <1>0, <1>1, <1>2, <1>4, <2>1, <3>1, MoveKeepsTree
  <2> QED BY <2>2, <2>3
<1>7. BinOrder'
  BY <1>0, <1>1, <1>2, <1>4, MoveKeepsOrder DEF TrashedFolder
<1>8. ClockAhead'
  BY <1>0, <1>1, <1>4 DEF ClockAhead
<1> QED BY <1>5, <1>6, <1>7, <1>8 DEF IInv

LEMMA TrashFolderIInv ==
  ASSUME IInv, NEW d \in FolderId, TrashFolder(d)
  PROVE  IInv'
<1> USE DEF TrashFolder
<1>0. TypeOK /\ OneTree /\ BinOrder /\ ClockAhead
  BY DEF IInv
<1>1. d \in DOMAIN folders /\ d # Root
  BY DEF LiveFolder
<1>2. Root \in DOMAIN folders /\ Root \notin Subtree(d)
  BY <1>0, <1>1, RootOutside DEF OneTree, LiveFolder
<1>3. clock' \in Time /\ clock' # NotDeleted /\ clock \in Nat /\ clock' = clock + 1
  BY <1>0, MaxClockAssumption DEF TypeOK, Time, NotDeleted
<1>4. /\ DOMAIN folders' = DOMAIN folders
      /\ \A x \in DOMAIN folders : folders'[x].parent = folders[x].parent
      /\ \A x \in DOMAIN folders : folders'[x].deletedAt =
            IF x \in Subtree(d) /\ LiveFolder(x) THEN clock' ELSE folders[x].deletedAt
      /\ folders' \in [DOMAIN folders -> FolderRow]
  <2>1. \A x \in DOMAIN folders : folders[x] \in FolderRow
    BY <1>0 DEF TypeOK
  <2> QED BY <1>3, <2>1 DEF FolderRow
<1>5. /\ DOMAIN files' = DOMAIN files
      /\ \A f \in DOMAIN files : files'[f].folder = files[f].folder
      /\ \A f \in DOMAIN files : files'[f].deletedAt =
            IF f \in FilesUnder(Subtree(d)) /\ LiveFile(f) THEN clock' ELSE files[f].deletedAt
      /\ files' \in [DOMAIN files -> FileRow]
  <2>1. \A f \in DOMAIN files : files[f] \in FileRow
    BY <1>0 DEF TypeOK
  <2> QED BY <1>3, <2>1 DEF FileRow
<1>5a. /\ \A x \in DOMAIN folders : folders[x].deletedAt \in Nat
       /\ \A f \in DOMAIN files : files[f].deletedAt \in Nat
  BY <1>0, MaxClockAssumption DEF TypeOK, FolderRow, FileRow, Time
<1>6. TypeOK'
  BY <1>0, <1>3, <1>4, <1>5 DEF TypeOK
<1>7. OneTree'
  <2>1. folders'[Root].deletedAt = NotDeleted
    BY <1>0, <1>2, <1>4 DEF OneTree, LiveFolder
  <2> QED BY <1>0, <1>4, <2>1, OneTreeSameShape
<1>8. BinOrder'
  <2>1. ClosedDown(Subtree(d))
    BY SubtreeClosed DEF ClosedDown
  <2>2. /\ clock' \in Nat \ {NotDeleted}
        /\ \A x \in DOMAIN folders : folders[x].deletedAt <= clock'
        /\ \A f \in FilesUnder(Subtree(d)) : files[f].deletedAt <= clock'
    BY <1>0, <1>3, <1>5a, MaxClockAssumption DEF ClockAhead, FilesUnder, Time
  <2> QED BY <1>0, <1>4, <1>5, <2>1, <2>2, TrashKeepsOrder
<1>9. ClockAhead'
  BY <1>0, <1>3, <1>4, <1>5, <1>5a DEF ClockAhead
<1> QED BY <1>6, <1>7, <1>8, <1>9 DEF IInv

\* Removing a set of folders that is closed under children and spares the
\* root, with all its files and any others, keeps the invariant.
LEMMA CascadeIInv ==
  ASSUME IInv, NEW D \in SUBSET DOMAIN folders, ClosedDown(D), Root \notin D,
         NEW F \in SUBSET DOMAIN files, FilesUnder(D) \subseteq F,
         folders' = WithoutRows(folders, D), files' = WithoutRows(files, F),
         objects' \subseteq objects, thumbs' \subseteq thumbs, uploads' \subseteq uploads,
         clock' = clock
  PROVE  IInv'
<1> USE DEF WithoutRows
<1>0. TypeOK /\ OneTree /\ BinOrder /\ ClockAhead
  BY DEF IInv
<1>1. /\ DOMAIN folders' = DOMAIN folders \ D
      /\ \A x \in DOMAIN folders \ D : folders'[x] = folders[x]
      /\ DOMAIN files' = DOMAIN files \ F
      /\ \A f \in DOMAIN files \ F : files'[f] = files[f]
  OBVIOUS
<1>2. \A x \in DOMAIN folders \ D : folders[x].parent \notin D
  BY DEF ClosedDown
<1>3. \A f \in DOMAIN files \ F : files[f].folder \notin D
  BY DEF FilesUnder
<1>4. TypeOK'
  <2>1. folders' \in [DOMAIN folders' -> FolderRow] /\ files' \in [DOMAIN files' -> FileRow]
    BY <1>0, <1>1 DEF TypeOK
  <2>2. \A x \in DOMAIN folders' : folders'[x].parent \in DOMAIN folders' \cup {NoParent}
    BY <1>0, <1>1, <1>2 DEF TypeOK
  <2>3. \A f \in DOMAIN files' : files'[f].folder \in DOMAIN folders'
    BY <1>0, <1>1, <1>3 DEF TypeOK
  <2> QED BY <1>0, <1>1, <2>1, <2>2, <2>3 DEF TypeOK
<1>5. OneTree'
  BY <1>0, CascadeKeepsTree
<1>6. BinOrder'
  BY <1>0, CascadeKeepsOrder
<1>7. ClockAhead'
  BY <1>0, <1>1 DEF ClockAhead
<1> QED BY <1>4, <1>5, <1>6, <1>7 DEF IInv

LEMMA DeleteFolderForeverIInv ==
  ASSUME IInv, NEW d \in FolderId, DeleteFolderForever(d)
  PROVE  IInv'
<1> DEFINE D == Subtree(d)
<1>1. d \in DOMAIN folders /\ d # Root
  BY DEF DeleteFolderForever, TrashedFolder
<1>2. D \in SUBSET DOMAIN folders /\ ClosedDown(D)
  BY SubtreeClosed DEF ClosedDown, Subtree
<1>3. Root \notin D
  BY <1>1, RootOutside DEF IInv
<1>4. /\ folders' = WithoutRows(folders, D) /\ files' = WithoutRows(files, FilesUnder(D))
      /\ objects' \subseteq objects /\ thumbs' \subseteq thumbs /\ uploads' \subseteq uploads
      /\ clock' = clock
  BY DEF DeleteFolderForever
<1>5. FilesUnder(D) \in SUBSET DOMAIN files
  BY DEF FilesUnder
<1> HIDE DEF D
<1> QED BY <1>2, <1>3, <1>4, <1>5, CascadeIInv

LEMMA PurgeFolderIInv ==
  ASSUME IInv, NEW d \in FolderId, NEW cutoff \in Cutoff, PurgeFolder(d, cutoff)
  PROVE  IInv'
<1> DEFINE D == Subtree(d)
<1>1. d \in DOMAIN folders /\ d # Root
  BY DEF PurgeFolder, OldFolders, TrashedFolder, IInv, OneTree, LiveFolder
<1>2. D \in SUBSET DOMAIN folders /\ ClosedDown(D)
  BY SubtreeClosed DEF ClosedDown, Subtree
<1>3. Root \notin D
  BY <1>1, RootOutside DEF IInv
<1>4. /\ folders' = WithoutRows(folders, D) /\ files' = WithoutRows(files, FilesUnder(D))
      /\ objects' \subseteq objects /\ thumbs' \subseteq thumbs /\ uploads' \subseteq uploads
      /\ clock' = clock
  BY DEF PurgeFolder
<1>5. FilesUnder(D) \in SUBSET DOMAIN files
  BY DEF FilesUnder
<1> HIDE DEF D
<1> QED BY <1>2, <1>3, <1>4, <1>5, CascadeIInv

LEMMA RestoreFolderIInv ==
  ASSUME IInv, NEW d \in FolderId, RestoreFolder(d)
  PROVE  IInv'
<1> USE DEF RestoreFolder, SameBatch
<1> DEFINE t == folders[d].deletedAt
<1>0. TypeOK /\ OneTree /\ BinOrder /\ ClockAhead
  BY DEF IInv
<1>1. TrashedFolder(d) /\ d \in DOMAIN folders /\ t # NotDeleted
  BY DEF TrashedFolder
<1>2. d # Root
  BY <1>0, <1>1 DEF OneTree, LiveFolder, TrashedFolder
<1>3. NotDeleted \in Time
  BY MaxClockAssumption DEF Time, NotDeleted
<1>4. /\ DOMAIN folders' = DOMAIN folders
      /\ \A x \in DOMAIN folders : folders'[x].parent = folders[x].parent
      /\ \A x \in DOMAIN folders : folders'[x].deletedAt =
            IF x \in Subtree(d) /\ folders[x].deletedAt = t THEN NotDeleted
                                                           ELSE folders[x].deletedAt
      /\ folders' \in [DOMAIN folders -> FolderRow]
  <2>1. \A x \in DOMAIN folders : folders[x] \in FolderRow
    BY <1>0 DEF TypeOK
  <2> QED BY <1>3, <2>1 DEF FolderRow
<1>5. /\ DOMAIN files' = DOMAIN files
      /\ \A f \in DOMAIN files : files'[f].folder = files[f].folder
      /\ \A f \in DOMAIN files : files'[f].deletedAt =
            IF f \in FilesUnder(Subtree(d)) /\ files[f].deletedAt = t THEN NotDeleted
                                                                     ELSE files[f].deletedAt
      /\ files' \in [DOMAIN files -> FileRow]
  <2>1. \A f \in DOMAIN files : files[f] \in FileRow
    BY <1>0 DEF TypeOK
  <2> QED BY <1>3, <2>1 DEF FileRow
<1>5a. /\ \A x \in DOMAIN folders : folders[x].deletedAt \in Nat
       /\ \A f \in DOMAIN files : files[f].deletedAt \in Nat
       /\ clock \in Nat
  BY <1>0, MaxClockAssumption DEF TypeOK, FolderRow, FileRow, Time
<1>6. TypeOK'
  BY <1>0, <1>4, <1>5 DEF TypeOK
<1>7. OneTree'
  <2>1. folders'[Root].deletedAt = NotDeleted
    BY <1>0, <1>4 DEF OneTree, LiveFolder
  <2> QED BY <1>0, <1>4, <2>1, OneTreeSameShape
<1>9. BinOrder'
  <2>1. ~TrashedFolder(folders[d].parent)
    BY DEF LiveFolder, TrashedFolder
  <2>2. Subtree(d) \cap DOMAIN folders = Subtree(d)
    BY DEF Subtree
  <2> QED BY <1>0, <1>1, <1>4, <1>5, <2>1, <2>2, RestoreKeepsOrder
<1>10. ClockAhead'
  BY <1>0, <1>4, <1>5, <1>5a DEF ClockAhead, NotDeleted
<1> QED BY <1>6, <1>7, <1>9, <1>10 DEF IInv

-----------------------------------------------------------------------------
(* Steps on files.                                                         *)

\* A live file's folder is live.
LEMMA LiveFileLiveFolder ==
  ASSUME IInv, NEW f, LiveFile(f)
  PROVE  LiveFolder(files[f].folder)
BY DEF IInv, TypeOK, BinOrder, LiveFile, LiveFolder, TrashedFile, TrashedFolder

\* A step on files keeps the invariant if each row it writes lies in a live
\* folder.
LEMMA FileStepIInv ==
  ASSUME IInv, folders' = folders,
         DOMAIN files' \subseteq FileId,
         clock' \in Time, clock <= clock',
         objects' \subseteq FileId, thumbs' \subseteq FileId, uploads' \subseteq FileId,
         \A f \in DOMAIN files' :
            /\ files'[f] \in FileRow
            /\ \/ f \in DOMAIN files /\ files'[f] = files[f]
               \/ LiveFolder(files'[f].folder) /\ files'[f].deletedAt <= clock',
         files' = [f \in DOMAIN files' |-> files'[f]]
  PROVE  IInv'
<1>0. TypeOK /\ OneTree /\ BinOrder /\ ClockAhead
  BY DEF IInv
<1>1. TypeOK'
  <2>1. files' \in [DOMAIN files' -> FileRow]
    OBVIOUS
  <2>2. \A f \in DOMAIN files' : files'[f].folder \in DOMAIN folders'
    BY <1>0 DEF TypeOK, LiveFolder
  <2> QED BY <1>0, <2>1, <2>2 DEF TypeOK
<1>2. OneTree'
  BY <1>0 DEF OneTree, LiveFolder, Subtree, ClosedDown
<1>3. BinOrder'
  <2>1. ASSUME NEW f \in DOMAIN files', TrashedFolder(files'[f].folder)
        PROVE  TrashedFile(f)' /\ files'[f].deletedAt <= folders[files'[f].folder].deletedAt
    BY <1>0, <2>1 DEF BinOrder, TrashedFile, TrashedFolder, LiveFolder
  <2> QED BY <1>0, <2>1 DEF BinOrder, TrashedFolder
<1>4. ClockAhead'
  <2>1. /\ \A d \in DOMAIN folders : folders[d].deletedAt \in Nat
        /\ \A f \in DOMAIN files : files[f].deletedAt \in Nat
        /\ clock \in Nat /\ clock' \in Nat
    BY <1>0, MaxClockAssumption DEF TypeOK, FolderRow, FileRow, Time
  <2> QED BY <1>0, <2>1 DEF ClockAhead
<1> QED BY <1>1, <1>2, <1>3, <1>4 DEF IInv

\* The columns of a row a handler writes.
LEMMA FileColumns ==
  ASSUME IInv
  PROVE  /\ \A f \in DOMAIN files : files[f] \in FileRow /\ files[f].deletedAt <= clock
         /\ NotDeleted \in Time /\ clock \in Time /\ clock \in Nat /\ NotDeleted <= clock
         /\ DOMAIN files \subseteq FileId
         /\ objects \subseteq FileId /\ thumbs \subseteq FileId /\ uploads \subseteq FileId
BY MaxClockAssumption DEF IInv, TypeOK, ClockAhead, Time, NotDeleted

LEMMA InitiateUploadIInv ==
  ASSUME IInv, NEW f \in FileId, NEW d \in FolderId, NEW n \in Name, InitiateUpload(f, d, n)
  PROVE  IInv'
<1> DEFINE row == [folder |-> d, name |-> n, status |-> "pending",
                   thumbnail |-> "none", hasThumb |-> FALSE, deletedAt |-> NotDeleted]
<1>1. row \in FileRow /\ row.folder = d /\ row.deletedAt = NotDeleted
  BY FileColumns DEF FileRow
<1>2. /\ DOMAIN files' = DOMAIN files \cup {f}
      /\ files'[f] = row /\ \A x \in DOMAIN files : files'[x] = files[x]
      /\ files' = [x \in DOMAIN files' |-> files'[x]]
  BY DEF InitiateUpload
<1> HIDE DEF row
<1>3. \A x \in DOMAIN files' :
        /\ files'[x] \in FileRow
        /\ \/ x \in DOMAIN files /\ files'[x] = files[x]
           \/ LiveFolder(files'[x].folder) /\ files'[x].deletedAt <= clock'
  BY <1>1, <1>2, FileColumns DEF InitiateUpload
<1>4. objects' \subseteq FileId /\ thumbs' \subseteq FileId /\ uploads' \subseteq FileId
  BY FileColumns DEF InitiateUpload
<1>5. clock' \in Time /\ clock <= clock' /\ folders' = folders
  BY FileColumns DEF InitiateUpload
<1>6. DOMAIN files' \subseteq FileId
  BY <1>2, FileColumns
<1> QED BY <1>2, <1>3, <1>4, <1>5, <1>6, FileStepIInv

\* A step that rewrites the row of one file, leaving it in a live folder.
LEMMA RewriteIInv ==
  ASSUME IInv, NEW f \in DOMAIN files, NEW row \in FileRow,
         LiveFolder(row.folder), row.deletedAt <= clock',
         files' = [files EXCEPT ![f] = row], folders' = folders,
         clock' \in Time, clock <= clock',
         objects' \subseteq FileId, thumbs' \subseteq FileId, uploads' \subseteq FileId
  PROVE  IInv'
<1>1. DOMAIN files' = DOMAIN files /\ files' = [x \in DOMAIN files' |-> files'[x]]
  OBVIOUS
<1>2. \A x \in DOMAIN files' :
        /\ files'[x] \in FileRow
        /\ \/ x \in DOMAIN files /\ files'[x] = files[x]
           \/ LiveFolder(files'[x].folder) /\ files'[x].deletedAt <= clock'
  BY FileColumns
<1> QED BY <1>1, <1>2, FileColumns, FileStepIInv

LEMMA CompleteUploadIInv ==
  ASSUME IInv, NEW f \in FileId, CompleteUpload(f)
  PROVE  IInv'
<1> DEFINE row == [files[f] EXCEPT !.status = "complete"]
<1>1. f \in DOMAIN files /\ LiveFolder(files[f].folder)
  BY LiveFileLiveFolder DEF CompleteUpload, LiveFile
<1>2. row \in FileRow /\ row.folder = files[f].folder /\ row.deletedAt = files[f].deletedAt
  BY <1>1, FileColumns DEF FileRow
<1>3. files' = [files EXCEPT ![f] = row]
  BY DEF CompleteUpload
<1>4. objects' \subseteq FileId /\ uploads' \subseteq FileId /\ UNCHANGED <<folders, thumbs, clock>>
  BY FileColumns DEF CompleteUpload
<1>5. objects' \subseteq FileId /\ thumbs' \subseteq FileId /\ uploads' \subseteq FileId
  BY <1>4, FileColumns
<1>6. clock' \in Time /\ clock <= clock' /\ row.deletedAt <= clock' /\ folders' = folders
  BY <1>1, <1>2, <1>4, FileColumns
<1>7. row \in FileRow /\ LiveFolder(row.folder)
  BY <1>1, <1>2
<1> HIDE DEF row
<1> QED BY <1>1, <1>3, <1>5, <1>6, <1>7, RewriteIInv

LEMMA PatchFileIInv ==
  ASSUME IInv, NEW f \in FileId, NEW d \in FolderId, NEW n \in Name, PatchFile(f, d, n)
  PROVE  IInv'
<1> DEFINE row == [files[f] EXCEPT !.folder = d, !.name = n]
<1>1. f \in DOMAIN files /\ LiveFolder(d)
  BY LiveFileLiveFolder DEF PatchFile, LiveFile
<1>2. row \in FileRow /\ row.folder = d /\ row.deletedAt = files[f].deletedAt
  BY <1>1, FileColumns DEF FileRow
<1>3. files' = [files EXCEPT ![f] = row]
  BY DEF PatchFile
<1>4. UNCHANGED <<folders, objects, thumbs, uploads, clock>>
  BY DEF PatchFile
<1>5. objects' \subseteq FileId /\ thumbs' \subseteq FileId /\ uploads' \subseteq FileId
  BY <1>4, FileColumns
<1>6. clock' \in Time /\ clock <= clock' /\ row.deletedAt <= clock' /\ folders' = folders
  BY <1>1, <1>2, <1>4, FileColumns
<1>7. row \in FileRow /\ LiveFolder(row.folder)
  BY <1>1, <1>2
<1> HIDE DEF row
<1> QED BY <1>1, <1>3, <1>5, <1>6, <1>7, RewriteIInv

LEMMA TrashFileIInv ==
  ASSUME IInv, NEW f \in FileId, TrashFile(f)
  PROVE  IInv'
<1> DEFINE row == [files[f] EXCEPT !.deletedAt = clock']
<1>1. f \in DOMAIN files /\ LiveFolder(files[f].folder)
  BY LiveFileLiveFolder DEF TrashFile, LiveFile
<1>2. clock' \in Time /\ clock' \in Nat /\ clock <= clock'
  BY FileColumns, MaxClockAssumption DEF TrashFile, Time
<1>3. row \in FileRow /\ row.folder = files[f].folder /\ row.deletedAt = clock'
  BY <1>1, <1>2, FileColumns DEF FileRow
<1>4. files' = [files EXCEPT ![f] = row]
  BY DEF TrashFile
<1>5. UNCHANGED <<folders, objects, thumbs, uploads>>
  BY DEF TrashFile
<1>6. objects' \subseteq FileId /\ thumbs' \subseteq FileId /\ uploads' \subseteq FileId
  BY <1>5, FileColumns
<1>7. clock' \in Time /\ clock <= clock' /\ row.deletedAt <= clock' /\ folders' = folders
  BY <1>1, <1>2, <1>3, <1>5, FileColumns
<1>8. row \in FileRow /\ LiveFolder(row.folder)
  BY <1>1, <1>3
<1> HIDE DEF row
<1> QED BY <1>1, <1>4, <1>6, <1>7, <1>8, RewriteIInv

LEMMA RestoreFileIInv ==
  ASSUME IInv, NEW f \in FileId, RestoreFile(f)
  PROVE  IInv'
<1> DEFINE row == [files[f] EXCEPT !.deletedAt = NotDeleted]
<1>1. f \in DOMAIN files /\ LiveFolder(files[f].folder)
  BY DEF RestoreFile, TrashedFile
<1>2. row \in FileRow /\ row.folder = files[f].folder /\ row.deletedAt = NotDeleted
  BY <1>1, FileColumns DEF FileRow
<1>3. files' = [files EXCEPT ![f] = row]
  BY DEF RestoreFile
<1>4. UNCHANGED <<folders, objects, thumbs, uploads, clock>>
  BY DEF RestoreFile
<1>5. objects' \subseteq FileId /\ thumbs' \subseteq FileId /\ uploads' \subseteq FileId
  BY <1>4, FileColumns
<1>6. clock' \in Time /\ clock <= clock' /\ row.deletedAt <= clock' /\ folders' = folders
  BY <1>1, <1>2, <1>4, FileColumns
<1>7. row \in FileRow /\ LiveFolder(row.folder)
  BY <1>1, <1>2
<1> HIDE DEF row
<1> QED BY <1>1, <1>3, <1>5, <1>6, <1>7, RewriteIInv

LEMMA GenerateThumbnailIInv ==
  ASSUME IInv, NEW f \in FileId, GenerateThumbnail(f)
  PROVE  IInv'
<1>1. f \in DOMAIN files /\ LiveFolder(files[f].folder)
  BY LiveFileLiveFolder DEF GenerateThumbnail, LiveFile
<1>2. PICK outcome \in {"ready", "failed"}, key \in {TRUE, files[f].hasThumb} :
        files' = [files EXCEPT ![f] = [files[f] EXCEPT !.thumbnail = outcome, !.hasThumb = key]]
  BY <1>1, FileColumns DEF GenerateThumbnail, FileRow
<1> DEFINE row == [files[f] EXCEPT !.thumbnail = outcome, !.hasThumb = key]
<1>3. row \in FileRow /\ row.folder = files[f].folder /\ row.deletedAt = files[f].deletedAt
  BY <1>1, FileColumns DEF FileRow
<1>4. thumbs' \subseteq FileId /\ UNCHANGED <<folders, objects, uploads, clock>>
  BY FileColumns DEF GenerateThumbnail
<1>5. files' = [files EXCEPT ![f] = row]
  BY <1>2
<1>6. objects' \subseteq FileId /\ thumbs' \subseteq FileId /\ uploads' \subseteq FileId
  BY <1>4, FileColumns
<1>7. clock' \in Time /\ clock <= clock' /\ row.deletedAt <= clock' /\ folders' = folders
  BY <1>1, <1>3, <1>4, FileColumns
<1>8. row \in FileRow /\ LiveFolder(row.folder)
  BY <1>1, <1>3
<1> HIDE DEF row
<1> QED BY <1>1, <1>5, <1>6, <1>7, <1>8, RewriteIInv

\* A step that removes files and nothing else from the tables.
LEMMA RemoveFilesIInv ==
  ASSUME IInv, NEW F \in SUBSET DOMAIN files, files' = WithoutRows(files, F),
         folders' = folders, clock' = clock,
         objects' \subseteq objects, thumbs' \subseteq thumbs, uploads' \subseteq uploads
  PROVE  IInv'
<1>1. ClosedDown({})
  BY DEF ClosedDown
<1>2. folders' = WithoutRows(folders, {})
  BY DEF WithoutRows, IInv, TypeOK
<1>3. FilesUnder({}) \subseteq F
  BY DEF FilesUnder
<1> QED BY <1>1, <1>2, <1>3, CascadeIInv

LEMMA DeletePendingFileIInv ==
  ASSUME IInv, NEW f \in FileId, DeletePendingFile(f)
  PROVE  IInv'
<1>1. {f} \in SUBSET DOMAIN files /\ files' = WithoutRows(files, {f}) /\ uploads' \subseteq uploads
  BY DEF DeletePendingFile
<1>2. UNCHANGED <<folders, objects, thumbs, clock>>
  BY DEF DeletePendingFile
<1> QED BY <1>1, <1>2, RemoveFilesIInv

LEMMA DeleteFileForeverIInv ==
  ASSUME IInv, NEW f \in FileId, DeleteFileForever(f)
  PROVE  IInv'
<1>1. /\ {f} \in SUBSET DOMAIN files /\ files' = WithoutRows(files, {f})
      /\ objects' \subseteq objects /\ thumbs' \subseteq thumbs
  BY DEF DeleteFileForever, TrashedFile
<1>2. UNCHANGED <<folders, uploads, clock>>
  BY DEF DeleteFileForever
<1> QED BY <1>1, <1>2, RemoveFilesIInv

LEMMA CleanupStaleUploadIInv ==
  ASSUME IInv, NEW f \in FileId, CleanupStaleUpload(f)
  PROVE  IInv'
<1>1. {f} \in SUBSET DOMAIN files /\ files' = WithoutRows(files, {f}) /\ uploads' \subseteq uploads
  BY DEF CleanupStaleUpload
<1>2. UNCHANGED <<folders, objects, thumbs, clock>>
  BY DEF CleanupStaleUpload
<1> QED BY <1>1, <1>2, RemoveFilesIInv

LEMMA PurgeFileIInv ==
  ASSUME IInv, NEW f \in FileId, NEW cutoff \in Cutoff, PurgeFile(f, cutoff)
  PROVE  IInv'
<1>1. /\ {f} \in SUBSET DOMAIN files /\ files' = WithoutRows(files, {f})
      /\ objects' \subseteq objects /\ thumbs' \subseteq thumbs
  BY DEF PurgeFile, OldFiles
<1>2. UNCHANGED <<folders, uploads, clock>>
  BY DEF PurgeFile
<1> QED BY <1>1, <1>2, RemoveFilesIInv

-----------------------------------------------------------------------------
(* The theorems.                                                           *)

\* Every step keeps the invariant.
LEMMA NextIInv == IInv /\ [Next]_vars => IInv'
<1> SUFFICES ASSUME IInv, [Next]_vars PROVE IInv'
  OBVIOUS
<1>1. CASE \E d \in SubfolderId, p \in FolderId, n \in Name : CreateFolder(d, p, n)
  BY <1>1, CreateFolderIInv
<1>2. CASE \E d \in FolderId, p \in FolderId, n \in Name : PatchFolder(d, p, n)
  BY <1>2, PatchFolderIInv
<1>3. CASE \E d \in FolderId : TrashFolder(d)
  BY <1>3, TrashFolderIInv
<1>4. CASE \E d \in FolderId : DeleteFolderForever(d)
  BY <1>4, DeleteFolderForeverIInv
<1>5. CASE \E d \in FolderId : RestoreFolder(d)
  BY <1>5, RestoreFolderIInv
<1>6. CASE \E f \in FileId, d \in FolderId, n \in Name : InitiateUpload(f, d, n)
  BY <1>6, InitiateUploadIInv
<1>7. CASE \E f \in FileId : CompleteUpload(f)
  BY <1>7, CompleteUploadIInv
<1>8. CASE \E f \in FileId, d \in FolderId, n \in Name : PatchFile(f, d, n)
  BY <1>8, PatchFileIInv
<1>9. CASE \E f \in FileId : DeletePendingFile(f)
  BY <1>9, DeletePendingFileIInv
<1>10. CASE \E f \in FileId : TrashFile(f)
  BY <1>10, TrashFileIInv
<1>11. CASE \E f \in FileId : DeleteFileForever(f)
  BY <1>11, DeleteFileForeverIInv
<1>12. CASE \E f \in FileId : RestoreFile(f)
  BY <1>12, RestoreFileIInv
<1>13. CASE \E f \in FileId : GenerateThumbnail(f)
  BY <1>13, GenerateThumbnailIInv
<1>14. CASE \E f \in FileId : CleanupStaleUpload(f)
  BY <1>14, CleanupStaleUploadIInv
<1>15. CASE \E f \in FileId, cutoff \in Cutoff : PurgeFile(f, cutoff)
  BY <1>15, PurgeFileIInv
<1>16. CASE \E d \in FolderId, cutoff \in Cutoff : PurgeFolder(d, cutoff)
  BY <1>16, PurgeFolderIInv
<1>17. CASE UNCHANGED vars
  BY <1>17 DEF vars, IInv, TypeOK, OneTree, BinOrder, ClockAhead, LiveFolder, TrashedFolder,
               TrashedFile, Subtree, ClosedDown
<1> QED BY <1>1, <1>2, <1>3, <1>4, <1>5, <1>6, <1>7, <1>8, <1>9, <1>10, <1>11, <1>12,
           <1>13, <1>14, <1>15, <1>16, <1>17 DEF Next

THEOREM Invariance == Spec => []IInv
<1>1. Init => IInv
  BY InitIInv
<1>2. IInv /\ [Next]_vars => IInv'
  BY NextIInv
<1> QED BY <1>1, <1>2, PTL DEF Spec

\* The columns keep their types and the foreign keys hold.
THEOREM TypeCorrect == Spec => []TypeOK
<1>1. IInv => TypeOK
  BY DEF IInv
<1> QED BY <1>1, Invariance, PTL

\* Moves never create a cycle and no delete detaches a folder: the folders
\* are one tree under the root, for any number of folders.
THEOREM AlwaysOneTree == Spec => []OneTree
<1>1. IInv => OneTree
  BY DEF IInv
<1> QED BY <1>1, Invariance, PTL

\* Nothing live, and nothing trashed later, ever lies under a trashed
\* folder (the comments at folders.ts:147 and dbHelpers.ts:166).
THEOREM AlwaysBinOrder == Spec => []BinOrder
<1>1. IInv => BinOrder
  BY DEF IInv
<1> QED BY <1>1, Invariance, PTL

-----------------------------------------------------------------------------
(* What a step removes.                                                    *)

\* What a purged folder takes with it was trashed before the cutoff too;
\* no file is left under it, for the first loop has removed them all.
LEMMA PurgeFolderSweeps ==
  ASSUME IInv, NEW d, NEW cutoff \in Cutoff, PurgeFolder(d, cutoff)
  PROVE  /\ \A x \in DOMAIN folders \ DOMAIN folders' : folders[x].deletedAt \in 1..cutoff - 1
         /\ DOMAIN files' = DOMAIN files
         /\ \A f \in DOMAIN files : files'[f] = files[f]
<1>1. /\ DOMAIN folders' = DOMAIN folders \ Subtree(d)
      /\ DOMAIN files' = DOMAIN files \ FilesUnder(Subtree(d))
      /\ \A f \in DOMAIN files \ FilesUnder(Subtree(d)) : files'[f] = files[f]
      /\ OldFiles(cutoff) = {}
  BY DEF PurgeFolder, WithoutRows
<1>2. /\ \A x \in DOMAIN folders : folders[x].deletedAt \in Nat
      /\ \A f \in DOMAIN files : files[f].deletedAt \in Nat
      /\ cutoff \in Nat
  BY MaxClockAssumption DEF IInv, TypeOK, FolderRow, FileRow, Time, Cutoff
<1>3. TrashedFolder(d) /\ d \in DOMAIN folders /\ folders[d].deletedAt < cutoff
  BY DEF PurgeFolder, OldFolders
<1>4. /\ \A x \in Subtree(d) :
            TrashedFolder(x) /\ folders[x].deletedAt <= folders[d].deletedAt
      /\ \A f \in FilesUnder(Subtree(d)) :
            TrashedFile(f) /\ files[f].deletedAt <= folders[d].deletedAt
  BY <1>3, TrashedUnder DEF IInv
<1>5. FilesUnder(Subtree(d)) = {}
  <2> SUFFICES ASSUME NEW f \in FilesUnder(Subtree(d)) PROVE FALSE
    OBVIOUS
  <2>1. f \in DOMAIN files
    BY DEF FilesUnder
  <2>2. f \in OldFiles(cutoff)
    BY <1>2, <1>3, <1>4, <2>1 DEF OldFiles
  <2> QED BY <1>1, <2>2
<1>6. ASSUME NEW x \in DOMAIN folders \ DOMAIN folders'
      PROVE  folders[x].deletedAt \in 1..cutoff - 1
  <2>1. x \in Subtree(d)
    BY <1>1
  <2>2. folders[x].deletedAt # 0 /\ folders[x].deletedAt <= folders[d].deletedAt
    BY <1>4, <2>1 DEF TrashedFolder, NotDeleted
  <2> QED BY <1>2, <1>3, <2>2
<1> QED BY <1>1, <1>5, <1>6

\* purge-trash takes nothing that was trashed at or after its cutoff, not
\* even through the cascade of a folder.
THEOREM PurgeRetains == Spec => PurgeKeepsRetention
<1> DEFINE Purge(cutoff) ==
             (\E f \in FileId : PurgeFile(f, cutoff)) \/ (\E d \in FolderId : PurgeFolder(d, cutoff))
           A == \A cutoff \in Cutoff : Purge(cutoff) =>
             /\ \A d \in DOMAIN folders \ DOMAIN folders' : folders[d].deletedAt \in 1..cutoff - 1
             /\ \A f \in DOMAIN files \ DOMAIN files' : files[f].deletedAt \in 1..cutoff - 1
<1>1. ASSUME IInv PROVE A
  <2> SUFFICES ASSUME NEW cutoff \in Cutoff, Purge(cutoff)
               PROVE  /\ \A d \in DOMAIN folders \ DOMAIN folders' :
                             folders[d].deletedAt \in 1..cutoff - 1
                      /\ \A f \in DOMAIN files \ DOMAIN files' :
                             files[f].deletedAt \in 1..cutoff - 1
    OBVIOUS
  <2>1. CASE \E d \in FolderId : PurgeFolder(d, cutoff)
    BY <1>1, <2>1, PurgeFolderSweeps
  <2>2. CASE \E f \in FileId : PurgeFile(f, cutoff)
    <3>1. PICK f \in FileId : PurgeFile(f, cutoff)
      BY <2>2
    <3>2. /\ DOMAIN folders' = DOMAIN folders /\ DOMAIN files' = DOMAIN files \ {f}
          /\ f \in DOMAIN files /\ files[f].deletedAt # 0 /\ files[f].deletedAt < cutoff
      BY <3>1 DEF PurgeFile, WithoutRows, OldFiles, TrashedFile, NotDeleted
    <3>3. files[f].deletedAt \in Nat /\ cutoff \in Nat
      BY <1>1, <3>2, MaxClockAssumption DEF IInv, TypeOK, FileRow, Time, Cutoff
    <3> QED BY <3>2, <3>3
  <2> QED BY <2>1, <2>2
<1>2. Spec => [][A]_vars
  BY <1>1, Invariance, PTL DEF Spec
<1> QED BY <1>2 DEF PurgeKeepsRetention

\* No delete, cascade or script removes a live folder or a live finished
\* file: the claim at folders.ts:147-150.
THEOREM LiveRowsSurvive == Spec => NothingLiveIsDestroyed
<1> DEFINE A == /\ \A d \in DOMAIN folders \ DOMAIN folders' : TrashedFolder(d)
                /\ \A f \in DOMAIN files \ DOMAIN files' :
                      TrashedFile(f) \/ files[f].status = "pending"
<1>1. ASSUME IInv, [Next]_vars PROVE A
  <2>1. CASE \E d \in FolderId : DeleteFolderForever(d)
    <3>1. PICK d \in FolderId : DeleteFolderForever(d)
      BY <2>1
    <3>2. /\ DOMAIN folders' = DOMAIN folders \ Subtree(d)
          /\ DOMAIN files' = DOMAIN files \ FilesUnder(Subtree(d))
          /\ TrashedFolder(d)
      BY <3>1 DEF DeleteFolderForever, WithoutRows
    <3> QED BY <1>1, <3>2, TrashedUnder DEF IInv
  <2>2. CASE \E d \in FolderId, cutoff \in Cutoff : PurgeFolder(d, cutoff)
    <3>1. PICK d \in FolderId, cutoff \in Cutoff : PurgeFolder(d, cutoff)
      BY <2>2
    <3>2. cutoff \in Nat
      BY MaxClockAssumption DEF Cutoff
    <3>3. \A x \in DOMAIN folders \ DOMAIN folders' : folders[x].deletedAt \in 1..cutoff - 1
      BY <1>1, <3>1, PurgeFolderSweeps
    <3>4. DOMAIN files' = DOMAIN files
      BY <1>1, <3>1, PurgeFolderSweeps
    <3> QED BY <3>2, <3>3, <3>4 DEF TrashedFolder, NotDeleted
  <2>3. CASE \/ \E f \in FileId : \/ DeletePendingFile(f) \/ DeleteFileForever(f)
                                 \/ CleanupStaleUpload(f)
             \/ \E f \in FileId, cutoff \in Cutoff : PurgeFile(f, cutoff)
    BY <2>3 DEF DeletePendingFile, DeleteFileForever, CleanupStaleUpload, PurgeFile, OldFiles,
                WithoutRows
  <2>4. CASE \/ \E d \in SubfolderId, p \in FolderId, n \in Name : CreateFolder(d, p, n)
             \/ \E d \in FolderId, p \in FolderId, n \in Name : PatchFolder(d, p, n)
             \/ \E d \in FolderId : TrashFolder(d) \/ RestoreFolder(d)
    BY <2>4 DEF CreateFolder, PatchFolder, TrashFolder, RestoreFolder
  <2>5. CASE \/ \E f \in FileId, d \in FolderId, n \in Name :
                  InitiateUpload(f, d, n) \/ PatchFile(f, d, n)
             \/ \E f \in FileId : \/ CompleteUpload(f) \/ TrashFile(f)
                                 \/ RestoreFile(f) \/ GenerateThumbnail(f)
    BY <2>5 DEF InitiateUpload, CompleteUpload, PatchFile, TrashFile, RestoreFile, GenerateThumbnail
  <2>6. CASE UNCHANGED vars
    BY <2>6 DEF vars
  <2> QED BY <1>1, <2>1, <2>2, <2>3, <2>4, <2>5, <2>6 DEF Next
<1>2. Spec => [][A]_vars
  BY <1>1, Invariance, PTL DEF Spec
<1> QED BY <1>2 DEF NothingLiveIsDestroyed

-----------------------------------------------------------------------------
(* The rows and the bucket.                                                *)

LEMMA NextObjects == IInv /\ ObjectsMatchFiles /\ [Next]_vars => ObjectsMatchFiles'
<1> SUFFICES ASSUME IInv, ObjectsMatchFiles, [Next]_vars PROVE ObjectsMatchFiles'
  OBVIOUS
<1> USE DEF ObjectsMatchFiles
<1>1. CASE \E d \in FolderId : DeleteFolderForever(d)
  <2>1. PICK d \in FolderId : DeleteFolderForever(d)
    BY <1>1
  <2> DEFINE gone == FilesUnder(Subtree(d))
  <2>2. /\ DOMAIN files' = DOMAIN files \ gone
        /\ \A f \in DOMAIN files \ gone : files'[f] = files[f]
        /\ objects' = objects \ {f \in gone : files[f].status = "complete"}
    BY <2>1 DEF DeleteFolderForever, WithoutRows
  <2> QED BY <2>2
<1>2. CASE \E d \in FolderId, cutoff \in Cutoff : PurgeFolder(d, cutoff)
  <2>1. PICK d \in FolderId, cutoff \in Cutoff : PurgeFolder(d, cutoff)
    BY <1>2
  <2>2. DOMAIN files' = DOMAIN files /\ \A f \in DOMAIN files : files'[f] = files[f]
    BY <2>1, PurgeFolderSweeps
  <2>3. objects' = objects
    BY <2>1 DEF PurgeFolder
  <2> QED BY <2>2, <2>3
<1>3. CASE \/ \E f \in FileId : \/ DeletePendingFile(f) \/ DeleteFileForever(f)
                               \/ CleanupStaleUpload(f)
           \/ \E f \in FileId, cutoff \in Cutoff : PurgeFile(f, cutoff)
  BY <1>3 DEF DeletePendingFile, DeleteFileForever, CleanupStaleUpload, PurgeFile, OldFiles,
              WithoutRows
<1>4. CASE \/ \E d \in SubfolderId, p \in FolderId, n \in Name : CreateFolder(d, p, n)
           \/ \E d \in FolderId, p \in FolderId, n \in Name : PatchFolder(d, p, n)
  BY <1>4 DEF CreateFolder, PatchFolder
<1>5. CASE \E d \in FolderId : TrashFolder(d) \/ RestoreFolder(d)
  <2>1. /\ DOMAIN files' = DOMAIN files /\ objects' = objects
        /\ \A f \in DOMAIN files : files'[f].status = files[f].status
    <3>1. \A f \in DOMAIN files : files[f] \in FileRow
      BY FileColumns
    <3> QED BY <1>5, <3>1 DEF TrashFolder, RestoreFolder, FileRow
  <2> QED BY <2>1
<1>6. CASE \/ \E f \in FileId, d \in FolderId, n \in Name :
                InitiateUpload(f, d, n) \/ PatchFile(f, d, n)
           \/ \E f \in FileId : \/ CompleteUpload(f) \/ TrashFile(f)
                               \/ RestoreFile(f) \/ GenerateThumbnail(f)
  <2> \A f \in DOMAIN files : files[f] \in FileRow
    BY FileColumns
  <2>1. CASE \E f \in FileId, d \in FolderId, n \in Name : InitiateUpload(f, d, n)
    BY <2>1 DEF InitiateUpload
  <2>2. CASE \E f \in FileId, d \in FolderId, n \in Name : PatchFile(f, d, n)
    BY <2>2 DEF PatchFile, FileRow
  <2>3. CASE \E f \in FileId : CompleteUpload(f)
    BY <2>3 DEF CompleteUpload, LiveFile, FileRow
  <2>4. CASE \E f \in FileId : TrashFile(f)
    BY <2>4 DEF TrashFile, FileRow
  <2>5. CASE \E f \in FileId : RestoreFile(f)
    BY <2>5 DEF RestoreFile, FileRow
  <2>6. CASE \E f \in FileId : GenerateThumbnail(f)
    BY <2>6 DEF GenerateThumbnail, FileRow
  <2> QED BY <1>6, <2>1, <2>2, <2>3, <2>4, <2>5, <2>6
<1>7. CASE UNCHANGED vars
  BY <1>7 DEF vars
<1> QED BY <1>1, <1>2, <1>3, <1>4, <1>5, <1>6, <1>7 DEF Next

\* Every finished file keeps its object until its row goes, and no object
\* outlives its row: no handler and no script orphans a finished object
\* when nothing fails and nothing runs at the same time (purge-trash.ts:4-8).
THEOREM ObjectsAlwaysMatchFiles == Spec => []ObjectsMatchFiles
<1>1. Init => ObjectsMatchFiles
  BY DEF Init, ObjectsMatchFiles
<1>2. IInv /\ ObjectsMatchFiles /\ [Next]_vars => ObjectsMatchFiles'
  BY NextObjects
<1> QED BY <1>1, <1>2, Invariance, PTL DEF Spec

-----------------------------------------------------------------------------
(* What DELETE puts in the Bin, the Bin view shows and a restore brings    *)
(* back.  A timestamp stands for a batch (folders.ts:164-168): BatchInv    *)
(* says what makes that enough, the rows of a batch hang together under    *)
(* one top, and had different names when it was made.                      *)

OfBatch(d, t) == d \in DOMAIN folders /\ folders[d].deletedAt = t
WillBeIn(d, t) == d \in DOMAIN folders' /\ folders'[d].deletedAt = t

\* Rows of one batch, or live, beside each other have different names.
FolderNamesDiffer ==
  \A d, e \in DOMAIN folders :
     /\ d # e
     /\ folders[d].parent = folders[e].parent /\ folders[d].parent # NoParent
     /\ folders[d].deletedAt = folders[e].deletedAt
     => folders[d].name # folders[e].name

FileNamesDiffer ==
  \A f, g \in DOMAIN files :
     /\ f # g /\ files[f].folder = files[g].folder
     /\ files[f].deletedAt = files[g].deletedAt
     => files[f].name # files[g].name

\* All folders of a batch but one have their parent in it, ...
OneTop ==
  \A d, e \in DOMAIN folders :
     /\ TrashedFolder(d) /\ folders[d].deletedAt = folders[e].deletedAt
     /\ ~OfBatch(folders[d].parent, folders[d].deletedAt)
     /\ ~OfBatch(folders[e].parent, folders[d].deletedAt)
     => d = e

\* ... and if it has a folder, all its files are in folders of it.
FilesFollow ==
  \A f \in DOMAIN files, d \in DOMAIN folders :
     TrashedFile(f) /\ folders[d].deletedAt = files[f].deletedAt
       => OfBatch(files[f].folder, files[f].deletedAt)

BatchInv == FolderNamesDiffer /\ FileNamesDiffer /\ OneTop /\ FilesFollow

-----------------------------------------------------------------------------
(* Each handler keeps the batches.                                         *)

LEMMA Times ==
  ASSUME IInv
  PROVE  /\ \A d \in DOMAIN folders : folders[d] \in FolderRow /\ folders[d].deletedAt \in Nat
                                      /\ folders[d].deletedAt <= clock
         /\ \A f \in DOMAIN files : files[f] \in FileRow /\ files[f].deletedAt \in Nat
                                    /\ files[f].deletedAt <= clock
         /\ clock \in Nat
BY MaxClockAssumption DEF IInv, TypeOK, FolderRow, FileRow, Time, ClockAhead

LEMMA CreateFolderBatch ==
  ASSUME IInv, BatchInv, NEW d \in SubfolderId, NEW p \in FolderId, NEW n \in Name, CreateFolder(d, p, n)
  PROVE  BatchInv'
<1>1. /\ d \notin DOMAIN folders /\ DOMAIN folders' = DOMAIN folders \cup {d} /\ files' = files
      /\ \A x \in DOMAIN folders : folders'[x] = folders[x]
      /\ folders'[d].parent = p /\ folders'[d].deletedAt = NotDeleted
      /\ FolderNamesUnique(folders')
  BY DEF CreateFolder
<1>2. /\ \A x \in DOMAIN folders : folders[x].parent # d
      /\ \A f \in DOMAIN files : files[f].folder \in DOMAIN folders
  BY <1>1, RootAssumption DEF IInv, TypeOK
<1>3. FolderNamesDiffer'
  BY <1>1 DEF BatchInv, FolderNamesDiffer, FolderNamesUnique
<1>4. OneTop'
  BY <1>1, <1>2 DEF BatchInv, OneTop, OfBatch, TrashedFolder
<1>5. FilesFollow'
  BY <1>1, <1>2 DEF BatchInv, FilesFollow, OfBatch, TrashedFile
<1> QED BY <1>1, <1>3, <1>4, <1>5 DEF BatchInv, FileNamesDiffer

LEMMA PatchFolderBatch ==
  ASSUME IInv, BatchInv, NEW d \in FolderId, NEW p \in FolderId, NEW n \in Name, PatchFolder(d, p, n)
  PROVE  BatchInv'
<1>1. /\ d \in DOMAIN folders /\ DOMAIN folders' = DOMAIN folders /\ files' = files
      /\ folders[d].deletedAt = NotDeleted /\ folders'[d].deletedAt = NotDeleted
      /\ \A x \in DOMAIN folders \ {d} : folders'[x] = folders[x]
      /\ FolderNamesUnique(folders')
  <2>1. folders[d] \in FolderRow
    BY Times DEF PatchFolder, LiveFolder
  <2> QED BY <2>1 DEF PatchFolder, LiveFolder, FolderRow
<1>2. \A x : TrashedFolder(x) => folders'[x] = folders[x]
  BY <1>1 DEF TrashedFolder
<1>3. \A x, t : t # NotDeleted => (OfBatch(x, t)' <=> OfBatch(x, t))
  BY <1>1 DEF OfBatch
<1>4. FolderNamesDiffer'
  BY <1>1 DEF BatchInv, FolderNamesDiffer, FolderNamesUnique
<1>5. OneTop'
  BY <1>1, <1>2, <1>3 DEF BatchInv, OneTop, TrashedFolder
<1>6. FilesFollow'
  BY <1>1, <1>3 DEF BatchInv, FilesFollow, TrashedFile
<1> QED BY <1>1, <1>4, <1>5, <1>6 DEF BatchInv, FileNamesDiffer

\* A new batch is the live rows of a subtree under a time nothing has.
LEMMA TrashFolderBatch ==
  ASSUME IInv, BatchInv, NEW d \in FolderId, TrashFolder(d)
  PROVE  BatchInv'
<1>0. PICK t : t = clock'
  OBVIOUS
<1> DEFINE new(x) == x \in Subtree(d) /\ LiveFolder(x)
           newFile(f) == f \in FilesUnder(Subtree(d)) /\ LiveFile(f)
<1>1. /\ d \in DOMAIN folders /\ DOMAIN folders' = DOMAIN folders /\ DOMAIN files' = DOMAIN files
      /\ \A x \in DOMAIN folders : /\ folders'[x].parent = folders[x].parent
                                   /\ folders'[x].name = folders[x].name
                                   /\ folders'[x].deletedAt = IF new(x) THEN t ELSE folders[x].deletedAt
      /\ \A f \in DOMAIN files : /\ files'[f].folder = files[f].folder
                                 /\ files'[f].name = files[f].name
                                 /\ files'[f].deletedAt = IF newFile(f) THEN t ELSE files[f].deletedAt
  BY <1>0, Times DEF TrashFolder, LiveFolder, FolderRow, FileRow
<1>2. /\ \A x \in DOMAIN folders : folders[x].deletedAt # t
      /\ \A f \in DOMAIN files : files[f].deletedAt # t
      /\ t # NotDeleted
  <2>1. t = clock + 1
    BY <1>0 DEF TrashFolder
  <2> QED BY <2>1, Times DEF NotDeleted
<1>3. ASSUME NEW x, new(x), x # d PROVE new(folders[x].parent)
  <2>1. folders[x].parent \in Subtree(d)
    BY <1>1, <1>3, SubtreeParent
  <2>2. folders[x].parent \in DOMAIN folders /\ x \in DOMAIN folders
    BY <1>3, <2>1 DEF Subtree
  <2> QED BY <1>3, <2>1, <2>2 DEF LiveFolder, TrashedFolder, IInv, BinOrder
<1>4. \A f \in DOMAIN files : newFile(f) => new(files[f].folder)
  BY LiveFileLiveFolder DEF FilesUnder
<1>5. \A x \in DOMAIN folders : new(x) => folders[x].deletedAt = NotDeleted
  BY DEF LiveFolder
<1>6. \A f \in DOMAIN files : newFile(f) => files[f].deletedAt = NotDeleted
  BY DEF LiveFile
<1> HIDE DEF new, newFile
<1>7. FolderNamesDiffer'
  BY <1>1, <1>2, <1>5 DEF BatchInv, FolderNamesDiffer
<1>8. FileNamesDiffer'
  BY <1>1, <1>2, <1>6 DEF BatchInv, FileNamesDiffer
<1>9. \A x : WillBeIn(x, t) <=> x \in DOMAIN folders /\ new(x)
  BY <1>1, <1>2 DEF WillBeIn
<1>10. \A x, s : s # t /\ s # NotDeleted => (WillBeIn(x, s) <=> OfBatch(x, s))
  BY <1>1, <1>5 DEF OfBatch, WillBeIn
<1>11. OneTop'
  <2> SUFFICES ASSUME NEW x \in DOMAIN folders, NEW y \in DOMAIN folders,
                      folders'[x].deletedAt # NotDeleted, folders'[x].deletedAt = folders'[y].deletedAt,
                      ~WillBeIn(folders[x].parent, folders'[x].deletedAt),
                      ~WillBeIn(folders[y].parent, folders'[x].deletedAt)
               PROVE  x = y
    BY <1>1 DEF OneTop, TrashedFolder, OfBatch, WillBeIn
  <2>1. CASE folders'[x].deletedAt = t
    <3>1. new(x) /\ new(y)
      BY <1>1, <1>2, <2>1
    <3>2. ~WillBeIn(folders[x].parent, t) /\ ~WillBeIn(folders[y].parent, t)
      BY <2>1
    <3>3. x # d => folders[x].parent \in DOMAIN folders
      BY <1>3, <3>1 DEF new, Subtree
    <3>4. y # d => folders[y].parent \in DOMAIN folders
      BY <1>3, <3>1 DEF new, Subtree
    <3> QED BY <1>3, <1>9, <3>1, <3>2, <3>3, <3>4
  <2>2. CASE folders'[x].deletedAt # t
    <3>1. folders'[x].deletedAt = folders[x].deletedAt /\ folders'[y].deletedAt = folders[y].deletedAt
      BY <1>1, <2>2
    <3>2. ~OfBatch(folders[x].parent, folders[x].deletedAt) /\ ~OfBatch(folders[y].parent, folders[x].deletedAt)
      BY <1>10, <2>2, <3>1
    <3> QED BY <3>1, <3>2 DEF BatchInv, OneTop, TrashedFolder
  <2> QED BY <2>1, <2>2
<1>12. FilesFollow'
  <2> SUFFICES ASSUME NEW f \in DOMAIN files, NEW x \in DOMAIN folders,
                      files'[f].deletedAt # NotDeleted, folders'[x].deletedAt = files'[f].deletedAt
               PROVE  WillBeIn(files[f].folder, files'[f].deletedAt)
    BY <1>1 DEF FilesFollow, TrashedFile, OfBatch, WillBeIn
  <2>0. files[f].folder \in DOMAIN folders
    BY DEF IInv, TypeOK
  <2>1. CASE newFile(f)
    BY <1>1, <1>4, <2>0, <2>1 DEF WillBeIn
  <2>2. CASE ~newFile(f)
    <3>1. files'[f].deletedAt = files[f].deletedAt /\ folders[x].deletedAt = files[f].deletedAt
      BY <1>1, <1>2, <2>2
    <3>2. OfBatch(files[f].folder, files[f].deletedAt)
      BY <3>1 DEF BatchInv, FilesFollow, TrashedFile
    <3> QED BY <1>1, <1>5, <3>1, <3>2 DEF OfBatch, WillBeIn
  <2> QED BY <2>1, <2>2
<1> QED BY <1>7, <1>8, <1>11, <1>12 DEF BatchInv

\* A restore takes all of a batch that is under the restored folder.
LEMMA RestoreFolderBatch ==
  ASSUME IInv, BatchInv, NEW d \in FolderId, RestoreFolder(d)
  PROVE  BatchInv'
<1> DEFINE t == folders[d].deletedAt
           back(x) == x \in Subtree(d) /\ folders[x].deletedAt = t
           backFile(f) == f \in FilesUnder(Subtree(d)) /\ files[f].deletedAt = t
<1>1. /\ d \in DOMAIN folders /\ DOMAIN folders' = DOMAIN folders /\ DOMAIN files' = DOMAIN files
      /\ \A x \in DOMAIN folders : /\ folders'[x].parent = folders[x].parent
                                   /\ folders'[x].name = folders[x].name
                                   /\ folders'[x].deletedAt = IF back(x) THEN NotDeleted ELSE folders[x].deletedAt
      /\ \A f \in DOMAIN files : /\ files'[f].folder = files[f].folder
                                 /\ files'[f].name = files[f].name
                                 /\ files'[f].deletedAt = IF backFile(f) THEN NotDeleted ELSE files[f].deletedAt
      /\ FolderNamesUnique(folders') /\ FileNamesUnique(files')
  BY Times DEF RestoreFolder, TrashedFolder, SameBatch, FolderRow, FileRow
<1>2. \A x \in DOMAIN folders : x \notin Subtree(d) => folders[x].parent \notin Subtree(d)
  BY SubtreeClosed
<1>3. \A f \in DOMAIN files : files[f].folder \in Subtree(d) => f \in FilesUnder(Subtree(d))
  BY DEF FilesUnder
<1>4. \A x : x \in Subtree(d) => x \in DOMAIN folders
  BY DEF Subtree
<1>5. ASSUME NEW x \in DOMAIN folders, ~back(x) PROVE ~(back(folders[x].parent) /\ folders[x].deletedAt = t)
  BY <1>2, <1>5
<1>6. ASSUME NEW f \in DOMAIN files, ~backFile(f) PROVE ~(back(files[f].folder) /\ files[f].deletedAt = t)
  BY <1>3, <1>6
<1>7. \A x : back(x) => folders[x].deletedAt = t
  OBVIOUS
<1> HIDE DEF t, back, backFile
<1>8. FolderNamesDiffer'
  BY <1>1 DEF BatchInv, FolderNamesDiffer, FolderNamesUnique
<1>9. FileNamesDiffer'
  BY <1>1 DEF BatchInv, FileNamesDiffer, FileNamesUnique
<1>10. OneTop'
  <2> SUFFICES ASSUME NEW x \in DOMAIN folders, NEW y \in DOMAIN folders,
                      folders'[x].deletedAt # NotDeleted, folders'[x].deletedAt = folders'[y].deletedAt,
                      ~WillBeIn(folders[x].parent, folders'[x].deletedAt),
                      ~WillBeIn(folders[y].parent, folders'[x].deletedAt)
               PROVE  x = y
    BY <1>1 DEF OneTop, TrashedFolder, OfBatch, WillBeIn
  <2>1. /\ ~back(x) /\ folders'[x].deletedAt = folders[x].deletedAt
        /\ ~back(y) /\ folders'[y].deletedAt = folders[y].deletedAt
    BY <1>1
  <2>2. ASSUME NEW z \in {x, y}, OfBatch(folders[z].parent, folders[x].deletedAt) PROVE FALSE
    <3>1. ~back(z) /\ folders[z].deletedAt = folders[x].deletedAt /\ z \in DOMAIN folders
      BY <2>1
    <3>2. ~back(folders[z].parent)
      BY <1>5, <1>7, <2>2, <3>1 DEF OfBatch
    <3>3. WillBeIn(folders[z].parent, folders'[x].deletedAt)
      BY <1>1, <2>1, <2>2, <3>2 DEF OfBatch, WillBeIn
    <3> QED BY <3>3
  <2> QED BY <2>1, <2>2 DEF BatchInv, OneTop, TrashedFolder
<1>11. FilesFollow'
  <2> SUFFICES ASSUME NEW f \in DOMAIN files, NEW x \in DOMAIN folders,
                      files'[f].deletedAt # NotDeleted, folders'[x].deletedAt = files'[f].deletedAt
               PROVE  WillBeIn(files[f].folder, files'[f].deletedAt)
    BY <1>1 DEF FilesFollow, TrashedFile, OfBatch, WillBeIn
  <2>1. ~backFile(f) /\ files'[f].deletedAt = files[f].deletedAt /\ folders[x].deletedAt = files[f].deletedAt
    BY <1>1
  <2>2. OfBatch(files[f].folder, files[f].deletedAt)
    BY <2>1 DEF BatchInv, FilesFollow, TrashedFile
  <2> QED BY <1>1, <1>6, <1>7, <2>1, <2>2 DEF OfBatch, WillBeIn
<1> QED BY <1>8, <1>9, <1>10, <1>11 DEF BatchInv

\* A cascade takes whole subtrees.
LEMMA CascadeBatch ==
  ASSUME IInv, BatchInv, NEW d \in FolderId,
         folders' = WithoutRows(folders, Subtree(d)), files' = WithoutRows(files, FilesUnder(Subtree(d)))
  PROVE  BatchInv'
<1>1. /\ DOMAIN folders' = DOMAIN folders \ Subtree(d)
      /\ DOMAIN files' = DOMAIN files \ FilesUnder(Subtree(d))
      /\ \A x \in DOMAIN folders' : folders'[x] = folders[x]
      /\ \A f \in DOMAIN files' : files'[f] = files[f]
  BY DEF WithoutRows
<1>2. /\ \A x \in DOMAIN folders' : folders[x].parent \notin Subtree(d)
      /\ \A f \in DOMAIN files' : files[f].folder \notin Subtree(d)
  BY <1>1, SubtreeClosed DEF FilesUnder
<1>3. FolderNamesDiffer' /\ FileNamesDiffer'
  BY <1>1 DEF BatchInv, FolderNamesDiffer, FileNamesDiffer
<1>4. OneTop'
  BY <1>1, <1>2 DEF BatchInv, OneTop, OfBatch, TrashedFolder
<1>5. FilesFollow'
  BY <1>1, <1>2 DEF BatchInv, FilesFollow, OfBatch, TrashedFile
<1> QED BY <1>3, <1>4, <1>5 DEF BatchInv

\* A step on files keeps the batches if the rows it writes are live, or it
\* puts one file in the Bin at a new time.
LEMMA FileStepBatch ==
  ASSUME IInv, BatchInv, folders' = folders,
         \A f \in DOMAIN files' :
            \/ files'[f].deletedAt = NotDeleted
            \/ f \in DOMAIN files /\ files'[f].folder = files[f].folder /\ files'[f].name = files[f].name
               /\ files'[f].deletedAt = files[f].deletedAt
            \/ files'[f].deletedAt = clock + 1 /\ \A g \in DOMAIN files' \ {f} : files'[g].deletedAt # clock + 1,
         FileNamesUnique(files')
  PROVE  BatchInv'
<1>1. \A x \in DOMAIN folders : folders[x].deletedAt # clock + 1
  BY Times
<1>2. FileNamesDiffer'
  BY DEF BatchInv, FileNamesDiffer, FileNamesUnique
<1>3. FilesFollow'
  BY <1>1 DEF BatchInv, FilesFollow, OfBatch, TrashedFile
<1> QED BY <1>2, <1>3 DEF BatchInv, FolderNamesDiffer, OneTop, TrashedFolder, OfBatch

LEMMA FileHandlersBatch ==
  ASSUME IInv, BatchInv,
         \/ \E f \in FileId, d \in FolderId, n \in Name : InitiateUpload(f, d, n) \/ PatchFile(f, d, n)
         \/ \E f \in FileId : \/ CompleteUpload(f) \/ DeletePendingFile(f) \/ TrashFile(f) \/ DeleteFileForever(f)
                             \/ RestoreFile(f) \/ GenerateThumbnail(f) \/ CleanupStaleUpload(f)
         \/ \E f \in FileId, cutoff \in Cutoff : PurgeFile(f, cutoff)
  PROVE  BatchInv'
<1> DEFINE Same(f) == /\ f \in DOMAIN files /\ files'[f].folder = files[f].folder
                      /\ files'[f].name = files[f].name /\ files'[f].deletedAt = files[f].deletedAt
<1>0. \A f \in DOMAIN files : files[f] \in FileRow /\ files[f].deletedAt # clock + 1 /\ clock + 1 # NotDeleted
  BY Times DEF NotDeleted
<1>1. ASSUME NEW f \in FileId, NEW d \in FolderId, NEW n \in Name, InitiateUpload(f, d, n) PROVE BatchInv'
  <2>1. folders' = folders /\ \A g \in DOMAIN files' : files'[g].deletedAt = NotDeleted \/ Same(g)
    BY <1>1 DEF InitiateUpload
  <2> QED BY <1>1, <2>1, FileStepBatch DEF InitiateUpload
<1>2. ASSUME NEW f \in FileId, NEW d \in FolderId, NEW n \in Name, PatchFile(f, d, n) PROVE BatchInv'
  <2>1. folders' = folders /\ \A g \in DOMAIN files' : files'[g].deletedAt = NotDeleted \/ Same(g)
    BY <1>0, <1>2 DEF PatchFile, LiveFile, FileRow
  <2> QED BY <1>2, <2>1, FileStepBatch DEF PatchFile
<1>3. ASSUME NEW f \in FileId, RestoreFile(f) PROVE BatchInv'
  <2>1. folders' = folders /\ \A g \in DOMAIN files' : files'[g].deletedAt = NotDeleted \/ Same(g)
    BY <1>0, <1>3 DEF RestoreFile, TrashedFile, FileRow
  <2> QED BY <1>3, <2>1, FileStepBatch DEF RestoreFile
<1>4. ASSUME NEW f \in FileId, TrashFile(f) PROVE BatchInv'
  <2>1. /\ folders' = folders /\ DOMAIN files' = DOMAIN files /\ f \in DOMAIN files
        /\ files'[f].deletedAt = clock + 1 /\ files'[f].folder = files[f].folder
        /\ \A g \in DOMAIN files \ {f} : files'[g] = files[g]
    BY <1>0, <1>4 DEF TrashFile, LiveFile, FileRow
  <2>2. FileNamesUnique(files')
    BY <1>0, <2>1 DEF BatchInv, FileNamesDiffer, FileNamesUnique
  <2> QED BY <1>0, <2>1, <2>2, FileStepBatch
<1>5. CASE \/ \E f \in FileId : \/ CompleteUpload(f) \/ DeletePendingFile(f) \/ DeleteFileForever(f)
                               \/ GenerateThumbnail(f) \/ CleanupStaleUpload(f)
           \/ \E f \in FileId, cutoff \in Cutoff : PurgeFile(f, cutoff)
  <2>1. folders' = folders /\ \A g \in DOMAIN files' : Same(g)
    <3>1. ASSUME NEW f \in FileId, CompleteUpload(f) \/ GenerateThumbnail(f)
          PROVE  folders' = folders /\ \A g \in DOMAIN files' : Same(g)
      BY <1>0, <3>1 DEF CompleteUpload, GenerateThumbnail, LiveFile, FileRow
    <3> QED BY <1>5, <3>1 DEF DeletePendingFile, DeleteFileForever, CleanupStaleUpload, PurgeFile, WithoutRows
  <2>2. FileNamesUnique(files')
    BY <2>1 DEF BatchInv, FileNamesDiffer, FileNamesUnique
  <2> QED BY <2>1, <2>2, FileStepBatch
<1> QED BY <1>1, <1>2, <1>3, <1>4, <1>5

LEMMA NextBatch == IInv /\ BatchInv /\ [Next]_vars => BatchInv'
<1> SUFFICES ASSUME IInv, BatchInv, [Next]_vars PROVE BatchInv'
  OBVIOUS
<1>1. ASSUME NEW d \in FolderId, DeleteFolderForever(d) \/ \E cutoff \in Cutoff : PurgeFolder(d, cutoff)
      PROVE  BatchInv'
  BY <1>1, CascadeBatch DEF DeleteFolderForever, PurgeFolder
<1>2. CASE UNCHANGED vars
  BY <1>2 DEF vars, BatchInv, FolderNamesDiffer, FileNamesDiffer, OneTop, FilesFollow, OfBatch,
              TrashedFolder, TrashedFile
<1> QED BY <1>1, <1>2, CreateFolderBatch, PatchFolderBatch, TrashFolderBatch, RestoreFolderBatch,
           FileHandlersBatch DEF Next

LEMMA Batches == Spec => [](IInv /\ BatchInv)
<1>1. Init => IInv /\ BatchInv
  <2>1. Init => BatchInv
    BY DEF Init, BatchInv, FolderNamesDiffer, FileNamesDiffer, OneTop, FilesFollow, TrashedFolder, TrashedFile
  <2> QED BY <2>1, InitIInv
<1> QED BY <1>1, NextBatch, NextIInv, PTL DEF Spec

-----------------------------------------------------------------------------
(* The theorems.                                                           *)

\* A folder whose own parent is live is the top of its batch: all that is
\* left of the batch is under it.
LEMMA TopHoldsBatch ==
  ASSUME IInv, BatchInv, NEW d, TrashedFolder(d),
         folders[d].parent \in DOMAIN folders => LiveFolder(folders[d].parent)
  PROVE  /\ \A x \in DOMAIN folders : folders[x].deletedAt = folders[d].deletedAt => x \in Subtree(d)
         /\ \A f \in DOMAIN files : files[f].deletedAt = folders[d].deletedAt => f \in FilesUnder(Subtree(d))
<1> DEFINE t == folders[d].deletedAt
           Out == {x \in DOMAIN folders : folders[x].deletedAt = t /\ x \notin Subtree(d)}
           W == DOMAIN folders \ Out
<1>1. d \in DOMAIN folders /\ t # NotDeleted /\ d \in Subtree(d)
  BY SubtreeSelf DEF TrashedFolder
<1>2. ASSUME NEW x \in Out PROVE folders[x].parent \in Out
  <2>1. ~OfBatch(folders[d].parent, t)
    BY <1>1 DEF OfBatch, LiveFolder
  <2>2. x \in DOMAIN folders /\ folders[x].deletedAt = t /\ x # d
    BY <1>1
  <2>3. OfBatch(folders[x].parent, t)
    BY <1>1, <2>1, <2>2 DEF BatchInv, OneTop, TrashedFolder
  <2> QED BY <2>2, <2>3, SubtreeClosed DEF OfBatch
<1>3. ClosedDown(W)
  <2> HIDE DEF Out
  <2> QED BY <1>2 DEF ClosedDown
<1>4. Root \in W
  BY <1>1 DEF IInv, OneTree, LiveFolder
<1>5. Subtree(Root) \subseteq W
  <2> W \in SUBSET DOMAIN folders
    OBVIOUS
  <2> HIDE DEF W
  <2> QED BY <1>3, <1>4, SubtreeLeast
<1>6. \A x \in DOMAIN folders : folders[x].deletedAt = t => x \in Subtree(d)
  BY <1>5 DEF IInv, OneTree
<1>7. ASSUME NEW f \in DOMAIN files, files[f].deletedAt = t PROVE f \in FilesUnder(Subtree(d))
  <2>1. OfBatch(files[f].folder, t)
    BY <1>1, <1>7 DEF BatchInv, FilesFollow, TrashedFile
  <2> QED BY <1>6, <2>1 DEF OfBatch, FilesUnder
<1> QED BY <1>6, <1>7

\* A restore of a folder brings back all that its DELETE put in the Bin and
\* is still there, and nothing else (folders.ts:164-168, 206-211).
THEOREM RestoresOneBatch == Spec => RestoreBringsBackOneBatch
<1> DEFINE A == BackFolders # {} =>
             \E t \in 1..MaxClock :
                /\ BackFolders = {d \in DOMAIN folders : folders[d].deletedAt = t}
                /\ BackFiles = {f \in DOMAIN files : files[f].deletedAt = t}
<1>1. ASSUME IInv, BatchInv, [Next]_vars PROVE A
  <2> SUFFICES ASSUME BackFolders # {}
               PROVE  \E t \in 1..MaxClock :
                         /\ BackFolders = {d \in DOMAIN folders : folders[d].deletedAt = t}
                         /\ BackFiles = {f \in DOMAIN files : files[f].deletedAt = t}
    OBVIOUS
  <2>1. PICK x \in DOMAIN folders \cap DOMAIN folders' :
               folders[x].deletedAt # NotDeleted /\ folders'[x].deletedAt = NotDeleted
    BY DEF BackFolders, TrashedFolder
  <2>2. ASSUME NEW d \in FolderId, RestoreFolder(d)
        PROVE  \E t \in 1..MaxClock :
                  /\ BackFolders = {y \in DOMAIN folders : folders[y].deletedAt = t}
                  /\ BackFiles = {f \in DOMAIN files : files[f].deletedAt = t}
    <3>1. PICK t : t = folders[d].deletedAt
      OBVIOUS
    <3>2. /\ TrashedFolder(d) /\ d \in DOMAIN folders /\ t # NotDeleted
          /\ folders[d].parent \in DOMAIN folders => LiveFolder(folders[d].parent)
      BY <2>2, <3>1 DEF RestoreFolder, TrashedFolder
    <3>3. t \in 1..MaxClock
      BY <1>1, <3>1, <3>2, MaxClockAssumption DEF IInv, TypeOK, FolderRow, Time, NotDeleted
    <3>4. /\ DOMAIN folders' = DOMAIN folders /\ DOMAIN files' = DOMAIN files
          /\ \A y \in DOMAIN folders : folders'[y].deletedAt =
                IF y \in Subtree(d) /\ folders[y].deletedAt = t THEN NotDeleted ELSE folders[y].deletedAt
          /\ \A f \in DOMAIN files : files'[f].deletedAt =
                IF f \in FilesUnder(Subtree(d)) /\ files[f].deletedAt = t THEN NotDeleted ELSE files[f].deletedAt
      BY <1>1, <2>2, <3>1, Times DEF RestoreFolder, SameBatch, FolderRow, FileRow
    <3>5. /\ \A y \in DOMAIN folders : folders[y].deletedAt = t => y \in Subtree(d)
          /\ \A f \in DOMAIN files : files[f].deletedAt = t => f \in FilesUnder(Subtree(d))
      BY <1>1, <3>1, <3>2, TopHoldsBatch
    <3>6. BackFolders = {y \in DOMAIN folders : folders[y].deletedAt = t}
      BY <3>2, <3>4, <3>5 DEF BackFolders, TrashedFolder
    <3>7. BackFiles = {f \in DOMAIN files : files[f].deletedAt = t}
      BY <3>2, <3>4, <3>5 DEF BackFiles, TrashedFile
    <3> QED BY <3>3, <3>6, <3>7
  <2>3. CASE \E d \in FolderId : TrashFolder(d) \/ DeleteFolderForever(d) \/ \E cutoff \in Cutoff : PurgeFolder(d, cutoff)
    <3>1. ASSUME NEW d \in FolderId, TrashFolder(d) PROVE FALSE
      <4>1. folders'[x].deletedAt = folders[x].deletedAt
        BY <2>1, <3>1 DEF TrashFolder, LiveFolder
      <4> QED BY <2>1, <4>1
    <3> QED BY <2>1, <2>3, <3>1 DEF DeleteFolderForever, PurgeFolder, WithoutRows
  <2>4. CASE \/ \E d \in SubfolderId, p \in FolderId, n \in Name : CreateFolder(d, p, n)
             \/ \E d \in FolderId, p \in FolderId, n \in Name : PatchFolder(d, p, n)
    <3>1. folders'[x] = folders[x]
      BY <2>1, <2>4 DEF CreateFolder, PatchFolder, LiveFolder
    <3> QED BY <2>1, <3>1
  <2>5. CASE folders' = folders
    BY <2>1, <2>5
  <2>6. CASE \/ \E f \in FileId, d \in FolderId, n \in Name : InitiateUpload(f, d, n) \/ PatchFile(f, d, n)
             \/ \E f \in FileId : \/ CompleteUpload(f) \/ DeletePendingFile(f) \/ TrashFile(f) \/ DeleteFileForever(f)
                                 \/ RestoreFile(f) \/ GenerateThumbnail(f) \/ CleanupStaleUpload(f)
             \/ \E f \in FileId, cutoff \in Cutoff : PurgeFile(f, cutoff)
    BY <2>5, <2>6 DEF InitiateUpload, PatchFile, CompleteUpload, DeletePendingFile, TrashFile, DeleteFileForever,
                      RestoreFile, GenerateThumbnail, CleanupStaleUpload, PurgeFile
  <2> QED BY <1>1, <2>2, <2>3, <2>4, <2>5, <2>6 DEF Next, vars
<1>2. IInv /\ BatchInv /\ [Next]_vars => [A]_vars
  BY <1>1
<1> QED BY <1>2, Batches, PTL DEF Spec, RestoreBringsBackOneBatch

\* Inside a trashed subtree no two rows of one batch, and no row of it and a
\* live one, have one name: only the restored row itself can clash.
THEOREM AlwaysClashesOnlyAtTheTop == Spec => []RestoreClashesOnlyAtItsTop
<1>1. ASSUME IInv, BatchInv PROVE RestoreClashesOnlyAtItsTop
  <2> SUFFICES ASSUME NEW d \in DOMAIN folders, TrashedFolder(d)
               PROVE  LET back == {x \in Subtree(d) : SameBatch(folders[x], d)}
                          in   == {f \in FilesUnder(Subtree(d)) : SameBatch(files[f], d)}
                      IN /\ \A x \in back \ {d}, y \in DOMAIN folders :
                              /\ x # y /\ folders[y].parent = folders[x].parent
                              /\ y \in back \/ LiveFolder(y)
                              => folders[x].name # folders[y].name
                         /\ \A f \in in, g \in DOMAIN files :
                              /\ f # g /\ files[g].folder = files[f].folder
                              /\ g \in in \/ LiveFile(g)
                              => files[f].name # files[g].name
    BY DEF RestoreClashesOnlyAtItsTop
  <2>1. ASSUME NEW x \in Subtree(d), x # d, NEW y \in DOMAIN folders, x # y, folders[y].parent = folders[x].parent,
               SameBatch(folders[x], d), SameBatch(folders[y], d) \/ LiveFolder(y)
        PROVE  folders[x].name # folders[y].name
    <3>1. x \in DOMAIN folders /\ folders[x].parent \in Subtree(d)
      BY <2>1, SubtreeParent DEF Subtree
    <3>2. TrashedFolder(folders[x].parent) /\ folders[x].parent \in DOMAIN folders
      BY <1>1, <3>1, TrashedUnder DEF IInv, TrashedFolder
    <3>3. folders[x].parent # NoParent
      BY <1>1, <3>2, RootAssumption DEF IInv, TypeOK, FolderId
    <3>4. ~LiveFolder(y)
      BY <1>1, <2>1, <3>2 DEF IInv, BinOrder, LiveFolder, TrashedFolder
    <3> QED BY <1>1, <2>1, <3>1, <3>3, <3>4 DEF BatchInv, FolderNamesDiffer, SameBatch
  <2>2. ASSUME NEW f \in FilesUnder(Subtree(d)), NEW g \in DOMAIN files, f # g, files[g].folder = files[f].folder,
               SameBatch(files[f], d), SameBatch(files[g], d) \/ LiveFile(g)
        PROVE  files[f].name # files[g].name
    <3>1. f \in DOMAIN files /\ TrashedFolder(files[f].folder)
      BY <1>1, TrashedUnder DEF FilesUnder, IInv
    <3>2. ~LiveFile(g)
      BY <1>1, <2>2, <3>1 DEF IInv, BinOrder, LiveFile, TrashedFile
    <3> QED BY <1>1, <2>2, <3>1, <3>2 DEF BatchInv, FileNamesDiffer, SameBatch
  <2> QED BY <2>1, <2>2
<1>2. IInv /\ BatchInv => RestoreClashesOnlyAtItsTop
  BY <1>1
<1> QED BY <1>2, Batches, PTL

\* Everything above a folder, as a chain, has it below (the two recursive
\* queries agree: SubtreeChain, the other way).
LEMMA ChainSubtree ==
  ASSUME NEW d, NEW b \in Chain(d)
  PROVE  d \in DOMAIN folders => d \in Subtree(b)
<1> SUFFICES ASSUME d \in DOMAIN folders, NEW S \in SUBSET DOMAIN folders, b \in S, ClosedDown(S), d \notin S
             PROVE  FALSE
  BY DEF Subtree
<1> DEFINE T == DOMAIN folders \ S
<1>1. T \in SUBSET DOMAIN folders /\ d \in T /\ ClosedUp(T) /\ b \notin T
  BY DEF ClosedDown, ClosedUp
<1> HIDE DEF T
<1> QED BY <1>1 DEF Chain

\* Above a folder in the Bin is exactly one the Bin view lists.
LEMMA OneListed ==
  ASSUME IInv, NEW d, TrashedFolder(d)
  PROVE  \E b : Chain(d) \cap BinFolders = {b}
<1>0. d \in DOMAIN folders /\ d \in Chain(d) /\ ClosedUp(Chain(d)) /\ Chain(d) \subseteq DOMAIN folders
  BY DEF TrashedFolder, Chain, ClosedUp
<1>1. \E b : b \in Chain(d) \cap BinFolders
  <2> SUFFICES ASSUME Chain(d) \cap BinFolders = {} PROVE FALSE
    OBVIOUS
  <2> DEFINE Tr == {x \in Chain(d) : TrashedFolder(x)}
             W == DOMAIN folders \ Tr
  <2>1. ASSUME NEW x \in Tr PROVE folders[x].parent \in Tr
    <3>1. TrashedFolder(folders[x].parent) /\ x \in Chain(d) /\ folders[x].parent \in DOMAIN folders
      BY <2>1 DEF BinFolders, Chain, TrashedFolder
    <3> QED BY <1>0, <3>1 DEF ClosedUp
  <2>2. ClosedDown(W)
    <3> HIDE DEF Tr
    <3> QED BY <2>1 DEF ClosedDown
  <2>3. Root \in W
    BY DEF IInv, OneTree, LiveFolder, TrashedFolder
  <2>4. Subtree(Root) \subseteq W
    <3> W \in SUBSET DOMAIN folders
      OBVIOUS
    <3> HIDE DEF W
    <3> QED BY <2>2, <2>3, SubtreeLeast
  <2> QED BY <1>0, <2>4 DEF IInv, OneTree
<1>2. PICK b : b \in Chain(d) \cap BinFolders
  BY <1>1
<1>3. b \in DOMAIN folders /\ TrashedFolder(b) /\ ~TrashedFolder(folders[b].parent)
  BY <1>2 DEF BinFolders
<1> DEFINE U == {x \in DOMAIN folders : LiveFolder(x)} \cup Subtree(b)
<1>4. U \in SUBSET DOMAIN folders /\ d \in U
  BY <1>0, <1>2, ChainSubtree DEF Subtree
<1>5. ClosedUp(U)
  <2> SUFFICES ASSUME NEW y \in U, folders[y].parent \in DOMAIN folders PROVE folders[y].parent \in U
    BY DEF ClosedUp
  <2>1. CASE LiveFolder(y)
    BY <2>1 DEF IInv, BinOrder, LiveFolder, TrashedFolder
  <2>2. CASE y = b
    BY <1>3, <2>2 DEF LiveFolder, TrashedFolder
  <2>3. CASE y \in Subtree(b) /\ y # b
    BY <1>3, <2>3, SubtreeParent
  <2> QED BY <2>1, <2>2, <2>3
<1>6. Chain(d) \subseteq U
  <2> HIDE DEF U
  <2> QED BY <1>4, <1>5 DEF Chain
<1>7. ASSUME NEW c \in Chain(d) \cap BinFolders PROVE c = b
  <2>1. c \in Subtree(b) /\ ~TrashedFolder(folders[c].parent)
    BY <1>6, <1>7 DEF BinFolders, LiveFolder, TrashedFolder
  <2> SUFFICES ASSUME c # b PROVE FALSE
    OBVIOUS
  <2>2. folders[c].parent \in Subtree(b)
    BY <1>3, <2>1, SubtreeParent
  <2> QED BY <1>3, <2>1, <2>2, TrashedUnder DEF IInv
<1> QED BY <1>2, <1>7

\* The Bin view shows each trashed folder and file once: itself, or under
\* the one listed folder above it (folders.ts:276-280).
THEOREM AlwaysBinViewCovers == Spec => []BinViewCoversTheBin
<1>1. ASSUME IInv, NEW d, TrashedFolder(d) PROVE Cardinality(Chain(d) \cap BinFolders) = 1
  BY <1>1, OneListed, FS_Singleton
<1>2. ASSUME IInv, NEW f \in DOMAIN files, f \in BinFiles PROVE Chain(files[f].folder) \cap BinFolders = {}
  <2> DEFINE d == files[f].folder
             S == {x \in DOMAIN folders : LiveFolder(x)}
  <2>1. d \in S
    BY <1>2 DEF BinFiles, LiveFolder, TrashedFolder, IInv, TypeOK
  <2>2. ClosedUp(S)
    BY <1>2 DEF ClosedUp, IInv, BinOrder, LiveFolder, TrashedFolder
  <2>3. Chain(d) \subseteq S
    <3> S \in SUBSET DOMAIN folders
      OBVIOUS
    <3> HIDE DEF S
    <3> QED BY <2>1, <2>2 DEF Chain
  <2> QED BY <2>3 DEF BinFolders, LiveFolder, TrashedFolder
<1>3. ASSUME IInv PROVE BinViewCoversTheBin
  <2>1. ASSUME NEW f \in DOMAIN files, TrashedFile(f), f \notin BinFiles PROVE TrashedFolder(files[f].folder)
    BY <2>1 DEF BinFiles
  <2> QED BY <1>1, <1>2, <1>3, <2>1 DEF BinViewCoversTheBin
<1>4. IInv => BinViewCoversTheBin
  BY <1>3
<1> QED BY <1>4, Invariance, PTL
=============================================================================
