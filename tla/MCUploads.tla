----------------------------- MODULE MCUploads -----------------------------
(* Uploads of a file of a few parts.  The ids are numbers drawn in order:  *)
(* which UUID a row gets makes no difference.                              *)
EXTENDS Uploads, Functions

InOrder == \A f, g \in FileId : f < g /\ row'[g] # "none" => row'[f] # "none"

\* Two calls of startUpload or discardUpload at once meet one fault at most,
\* three meet none; one after another, all.
AtOnce == Cardinality(Busy') + FoldFunction(+, 0, discarding')
Apart  == (AtOnce > 1 => faults' <= 1) /\ (AtOnce > 2 => faults' = 0)
=============================================================================
