------------------------------ MODULE Accounts ------------------------------
(***************************************************************************)
(* Accounts and the invites that open them: routes/invites.ts, the first   *)
(* admin of scripts/create-admin.ts, and the tables users and invites.     *)
(*                                                                         *)
(* Accepting an invite is one transaction of several awaited statements.   *)
(* Transactions interleave statement by statement under READ COMMITTED:    *)
(* what one has written the others see at its commit, a row it has         *)
(* updated makes another UPDATE of that row wait and look again, and an    *)
(* email it has inserted makes another INSERT of it wait.  A dropped       *)
(* connection or a failed statement rolls back, at any point.              *)
(*                                                                         *)
(* An account is its email, an invite is its token.  The user's row and    *)
(* its root folder are inserted and committed together and are one thing   *)
(* here; the hash of the password, which only takes time, is in the step   *)
(* from the check of the email to the insert.                              *)
(***************************************************************************)
EXTENDS Naturals, FiniteSets

CONSTANTS
  Email,   \* the addresses that may get an account
  Invite,  \* the invites that may be made
  Visitor, \* transactions that may be open at once, acceptances and the script's
  Anyone,  \* the email column of an invite that is not restricted: NULL
  None     \* no invite, email or user

ASSUME NotEmailAssumption == None \notin Email \cup Invite /\ Anyone \notin Email

VARIABLES
  users,  \* committed rows of table users
  admins, \* those with is_admin
  invites,\* committed rows of table invites, by token
  tx      \* the transaction each visitor has open, and its local variables

accountVars == <<users, admins, invites, tx>>

NoTx == [step |-> "idle", invite |-> None, email |-> None, inTime |-> FALSE]

AccountTypeOK ==
  /\ users \subseteq Email /\ admins \subseteq users
  /\ DOMAIN invites \subseteq Invite
  /\ \A i \in DOMAIN invites :
       invites[i] \in [for : Email \cup {Anyone}, expired : BOOLEAN,
                       used : BOOLEAN, by : Email \cup {None}]
  /\ tx \in [Visitor ->
       [step   : {"idle", "claim", "check", "insert", "commit", "done"},
        invite : Invite \cup {None},   \* None: create-admin, which needs no invite
        email  : Email \cup {None},
        inTime : BOOLEAN]]             \* expires_at > now(): the time of BEGIN

\* v's transaction has updated the row of invite i and not ended.
Holds(v, i) == tx[v].invite = i /\ tx[v].step \in {"check", "insert", "commit"}

\* v's transaction has inserted the user e and not ended.
Inserts(v, e) == tx[v].email = e /\ tx[v].step = "commit"

Goto(v, step)  == tx' = [tx EXCEPT ![v].step = step] /\ UNCHANGED <<users, admins, invites>>
Rollback(v)    == tx' = [tx EXCEPT ![v] = NoTx] /\ UNCHANGED <<users, admins, invites>>

-----------------------------------------------------------------------------
(* Invites.                                                                *)

\* POST /invites, by an admin; the address is optional.
CreateInvite(i, e) ==
  /\ admins # {} /\ i \notin DOMAIN invites
  /\ invites' = [j \in DOMAIN invites \cup {i} |->
       IF j = i THEN [for |-> e, expired |-> FALSE, used |-> FALSE, by |-> None] ELSE invites[j]]
  /\ UNCHANGED <<users, admins, tx>>

\* INVITE_TTL_HOURS pass.
Expire(i) ==
  /\ i \in DOMAIN invites /\ ~invites[i].expired
  /\ invites' = [invites EXCEPT ![i].expired = TRUE]
  /\ UNCHANGED <<users, admins, tx>>

-----------------------------------------------------------------------------
(* POST /invites/accept, a statement at a time.                            *)

\* BEGIN: now() is the moment of this statement for the whole transaction.
BeginAccept(v, i, e) ==
  /\ tx[v].step = "idle" /\ i \in DOMAIN invites
  /\ tx' = [tx EXCEPT ![v] = [step |-> "claim", invite |-> i, email |-> e,
                              inTime |-> ~invites[i].expired]]
  /\ UNCHANGED <<users, admins, invites>>

\* UPDATE invites SET used_at ... RETURNING, and the check of the address.
\* Another transaction that has claimed the row makes this one wait.
AnyInvite(i) == TRUE \* mutant of Unused: the claim is not conditional on used_at IS NULL
Unused(i)    == ~invites[i].used

Claim(v) ==
  LET i == tx[v].invite IN
  /\ tx[v].step = "claim" /\ \A w \in Visitor : ~Holds(w, i)
  /\ IF Unused(i) /\ tx[v].inTime /\ invites[i].for \in {Anyone, tx[v].email}
     THEN Goto(v, "check")
     ELSE Rollback(v) \* 401

\* SELECT id FROM users WHERE email = $1; then the password is hashed.
CheckEmail(v) ==
  /\ tx[v].step = "check"
  /\ IF tx[v].email \in users THEN Rollback(v) \* 409
     ELSE Goto(v, "insert")

\* INSERT INTO users: the unique index is the second look at the email.
InsertUser(v) ==
  /\ tx[v].step = "insert" /\ \A w \in Visitor : ~Inserts(w, tx[v].email)
  /\ IF tx[v].email \in users THEN Rollback(v) ELSE Goto(v, "commit")

\* The root folder, used_by, COMMIT: all of it becomes visible at once.
Commit(v) ==
  LET i == tx[v].invite IN
  LET e == tx[v].email IN
  /\ tx[v].step = "commit"
  /\ users' = users \cup {e}
  /\ admins' = IF i = None THEN admins \cup {e} ELSE admins
  /\ invites' = IF i = None THEN invites
                ELSE [invites EXCEPT ![i].used = TRUE, ![i].by = e]
  /\ tx' = [tx EXCEPT ![v].step = "done"]

\* A statement fails or the connection drops: catch, ROLLBACK, 5xx.
Fail(v) == tx[v].step \notin {"idle", "done"} /\ Rollback(v)

\* The answer leaves the server; whether it arrives is another matter.
Reply(v) == tx[v].step = "done" /\ Rollback(v)

-----------------------------------------------------------------------------
(* scripts/create-admin.ts: the SELECT comes before BEGIN, and there is no *)
(* invite to claim; the rest is the same.                                  *)

CreateAdmin(v, e) ==
  /\ tx[v].step = "idle"
  /\ tx' = [tx EXCEPT ![v] = [NoTx EXCEPT !.step = "check", !.email = e]]
  /\ UNCHANGED <<users, admins, invites>>

-----------------------------------------------------------------------------
AccountInit ==
  /\ users = {} /\ admins = {}
  /\ invites = [i \in {} |-> None]
  /\ tx = [v \in Visitor |-> NoTx]

Proceed(v) == Claim(v) \/ CheckEmail(v) \/ InsertUser(v) \/ Commit(v)

AccountNext ==
  \/ \E i \in Invite, e \in Email \cup {Anyone} : CreateInvite(i, e)
  \/ \E i \in Invite : Expire(i)
  \/ \E v \in Visitor, i \in Invite, e \in Email : BeginAccept(v, i, e)
  \/ \E v \in Visitor, e \in Email : CreateAdmin(v, e)
  \/ \E v \in Visitor : Proceed(v) \/ Fail(v) \/ Reply(v)

AccountSpec == AccountInit /\ [][AccountNext]_accountVars

-----------------------------------------------------------------------------
(* Properties.                                                             *)

\* The members that invite i let in.
LetIn(i) == {e \in users : i \in DOMAIN invites /\ invites[i].by = e}

\* An invite opens one account, and an account was opened by one invite or
\* by the script: a used invite names the account it opened, a member who
\* is not an admin is named by exactly one invite, for his address or for
\* anyone, and an invite nobody's account came of is still good (README
\* "Invite tokens are single-use"; invites.ts:74-77).  It takes the row
\* lock, the conditional claim, the unique index and the one COMMIT.
InvitesOpenAccounts ==
  /\ \A i \in DOMAIN invites :
       /\ invites[i].used <=> LetIn(i) # {}
       /\ \A e \in LetIn(i) : e \notin admins /\ invites[i].for \in {Anyone, e}
  /\ \A e \in users \ admins :
       \E i \in DOMAIN invites : \A j \in DOMAIN invites : invites[j].by = e <=> j = i
=============================================================================
