---------------------------- MODULE MCDriveTree ----------------------------
(* DriveTree on small sets of folders, files and names.                    *)
EXTENDS DriveTree, TLC

\* Folder ids, file ids and names are interchangeable (the root is not in
\* SubfolderId, and Init quantifies over every name).
Symmetry == Permutations(SubfolderId) \cup Permutations(FileId) \cup Permutations(Name)
=============================================================================
