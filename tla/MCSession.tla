----------------------------- MODULE MCSession -----------------------------
(* Accounts and Session on small sets, in behaviours of two sorts.  With   *)
(* no browser, everything Accounts does from an empty database.  With one, *)
(* its tabs from the day after: an admin and an unused invite are there,   *)
(* and the one acceptance under way at a time is the one a tab submitted,  *)
(* for what other visitors do is nothing the browser can tell.             *)
EXTENDS Session, TLC

CONSTANTS
  FirstAdmin, \* the account the script made
  AnInvite,   \* the invite he made
  Guest,      \* the visitor whose acceptances the forms start
  Address     \* and the address he gives

VARIABLE browser \* this behaviour has one

AdminAndInvite ==
  /\ users = {FirstAdmin} /\ admins = users
  /\ invites = (AnInvite :> [for |-> Anyone, expired |-> FALSE, used |-> FALSE, by |-> None])
  /\ tx = [v \in Visitor |-> NoTx]

Sparse ==
  /\ \A v \in Visitor : tx'[v] # tx[v] =>
       /\ v = Guest /\ tx'[v].email \in {None, Address}
       /\ \E t \in Tab : v \in {form[t], form'[t]}
  /\ \A i \in DOMAIN invites' : i \in DOMAIN invites /\ invites'[i].expired = invites[i].expired

MCInit == browser \in BOOLEAN /\ BrowserInit /\ IF browser THEN AdminAndInvite ELSE AccountInit

MCNext ==
  /\ SessionNext /\ UNCHANGED browser
  /\ IF browser THEN Sparse ELSE UNCHANGED browserVars

MCSpec == MCInit /\ [][MCNext]_<<sessionVars, browser>>

Symmetry == Permutations(Request) \cup Permutations(Tab)
=============================================================================
