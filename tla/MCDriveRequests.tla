-------------------------- MODULE MCDriveRequests --------------------------
(* DriveRequests on small sets of ids and operations.                      *)
EXTENDS DriveRequests, TLC

Symmetry == Permutations(SubfolderId) \cup Permutations(FileId) \cup Permutations(Name)
            \cup Permutations(Request)

\* A behaviour in which something fails has one trashing, one in which
\* nothing does has all; and one failure leaves files torn.
Early == failed' => clock' <= 1 /\ (torn = {} \/ torn' = torn)

\* After the first stale read no request starts, those in progress end.
Winding == overtaken # {} => \A r \in Request : req[r] = Idle => req'[r] = Idle
\* The second name is for moves, which clash without it, and a behaviour that
\* has it has one trashing and no thumbnail: neither looks at names.
NamesInUse == {folders[d].name : d \in DOMAIN folders \ {Root}} \cup {files[f].name : f \in DOMAIN files}
              \cup ({req[r].name : r \in Request} \ {Null})
OneName == Cardinality(NamesInUse) <= 1
OneTrashing == clock + Cardinality(Trashers) <= 1
NoThumbnail == /\ \A r \in Request : req[r].op # "thumbnail"
               /\ \A f \in DOMAIN files : files[f].thumbnail = "none"
SecondNameAlone == OneName' \/ (OneTrashing' /\ NoThumbnail')
\* Of all reads only those of the trashings' time become stale.
StampsOnly == overtaken' \subseteq {"stamp"}
=============================================================================
