------------------------------ MODULE MCViews ------------------------------
(* Pages and Dialogs on small sets.  Neither touches what the other keeps,  *)
(* so a behaviour is of one of them alone.  One of the pages keeps to the   *)
(* root and one other query, `aside`: another folder, the Bin, or the       *)
(* storage; a query that is not among the two has no answer in it.          *)
EXTENDS Pages, Dialogs, TLC

VARIABLES
  onPages, \* a behaviour of the pages
  aside

Untouched(k) == [data |-> None, fetch |-> IF k = Storage THEN Asked ELSE None]

MCInit ==
  /\ PageInit /\ DialogInit
  /\ onPages \in BOOLEAN /\ aside \in Key \ {Root}
  /\ ~onPages => aside = Bin /\ \A i \in Item : at[i] = "absent"

MCNext ==
  /\ UNCHANGED <<onPages, aside>>
  /\ \/ /\ onPages /\ PageNext /\ UNCHANGED dialogVars
        /\ \A k \in Key \ {Root, aside} : cache'[k] = Untouched(k)
     \/ ~onPages /\ DialogNext /\ UNCHANGED pageVars

MCSpec == MCInit /\ [][MCNext]_<<pageVars, dialogVars, onPages, aside>>

Symmetry ==
  Permutations(Act) \cup Permutations(Target) \cup Permutations(Op) \cup Permutations(Id)
=============================================================================
