----------------------------- MODULE MCSharing -----------------------------
(* Sharing on small sets of rows and users.  Names never clash here: every *)
(* row is its own name.                                                    *)
EXTENDS Sharing, TLC

Itself == [x \in FolderId \cup FileId |-> x]

Symmetry == Permutations(SubfolderId) \cup Permutations(FileId) \cup Permutations(User)
=============================================================================
