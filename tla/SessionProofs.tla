--------------------------- MODULE SessionProofs ---------------------------
(***************************************************************************)
(* Proofs about Accounts and Session for any number of addresses, invites, *)
(* visitors, tabs and calls.                                               *)
(*                                                                         *)
(* Accounts: that an invite opens one account is not inductive.  The       *)
(* strengthening says what the locks give: an invite held by a transaction *)
(* is unused and held by no other, an email being inserted is nobody's and *)
(* inserted by no other transaction.                                       *)
(*                                                                         *)
(* Session: as long as nothing crossed, a refresh in flight, in any tab,   *)
(* is of the session in the store.                                         *)
(***************************************************************************)
EXTENDS Session, TLAPS

-----------------------------------------------------------------------------
(* Accounts.                                                               *)

\* What the open transactions have and what they may still do.
Locks ==
  /\ \A v \in Visitor : tx[v].step # "idle" => tx[v].email \in Email
  /\ \A v \in Visitor : tx[v].step = "claim" => tx[v].invite \in DOMAIN invites
  /\ \A v \in Visitor, i \in Invite : Holds(v, i) =>
       /\ i \in DOMAIN invites /\ ~invites[i].used
       /\ invites[i].for \in {Anyone, tx[v].email}
       /\ \A w \in Visitor : Holds(w, i) => w = v
  /\ \A v \in Visitor, e \in Email : Inserts(v, e) =>
       /\ e \notin users
       /\ \A w \in Visitor : Inserts(w, e) => w = v

\* Who used which invite.
Used ==
  /\ \A i \in DOMAIN invites :
       /\ invites[i].used => /\ invites[i].by \in users \ admins
                             /\ invites[i].for \in {Anyone, invites[i].by}
       /\ ~invites[i].used => invites[i].by = None
  /\ \A i \in DOMAIN invites, j \in DOMAIN invites :
       invites[i].used /\ invites[i].by = invites[j].by => i = j
  /\ \A e \in users \ admins : \E i \in DOMAIN invites : invites[i].by = e

AccountInv == AccountTypeOK /\ Locks /\ Used

InviteRow == [for : Email \cup {Anyone}, expired : BOOLEAN,
              used : BOOLEAN, by : Email \cup {None}]

LEMMA AccountInvGives == ASSUME AccountInv PROVE InvitesOpenAccounts
<1> USE NotEmailAssumption DEF AccountInv, AccountTypeOK
<1>1. \A i \in DOMAIN invites : \A e \in LetIn(i) :
        invites[i].used /\ e \notin admins /\ invites[i].for \in {Anyone, e}
  BY DEF Used, LetIn
<1>2. \A i \in DOMAIN invites : invites[i].used => LetIn(i) # {}
  BY DEF Used, LetIn
<1>3. \A e \in users \ admins :
        \E i \in DOMAIN invites : \A j \in DOMAIN invites : invites[j].by = e <=> j = i
  BY DEF Used
<1>4. QED BY <1>1, <1>2, <1>3 DEF InvitesOpenAccounts

LEMMA AccountInitInv == AccountInit => AccountInv
BY DEF AccountInit, AccountInv, AccountTypeOK, Locks, Used, NoTx, Holds, Inserts

\* A transaction that ends without a COMMIT leaves what there was.
LEMMA RollbackInv == ASSUME AccountInv, NEW v \in Visitor, Rollback(v) PROVE AccountInv'
<1> USE DEF AccountInv, AccountTypeOK, Rollback, NoTx
<1>1. AccountTypeOK' OBVIOUS
<1>2. Locks' BY DEF Locks, Holds, Inserts
<1>3. Used' BY DEF Used
<1>4. QED BY <1>1, <1>2, <1>3

LEMMA BeginInv ==
  ASSUME AccountInv, NEW v \in Visitor, NEW i \in Invite, NEW e \in Email, BeginAccept(v, i, e)
  PROVE  AccountInv'
<1> USE NotEmailAssumption DEF AccountInv, AccountTypeOK
<1>1. /\ i \in DOMAIN invites /\ UNCHANGED <<users, admins, invites>>
      /\ tx' = [tx EXCEPT ![v] = [step |-> "claim", invite |-> i, email |-> e,
                                  inTime |-> ~invites[i].expired]]
  BY DEF BeginAccept
<1>2. AccountTypeOK' BY <1>1
<1>3. Locks' BY <1>1 DEF Locks, Holds, Inserts
<1>4. Used' BY <1>1 DEF Used
<1>5. QED BY <1>2, <1>3, <1>4

LEMMA CommitInv == ASSUME AccountInv, NEW v \in Visitor, Commit(v) PROVE AccountInv'
<1> DEFINE i == tx[v].invite
           e == tx[v].email
<1> USE NotEmailAssumption DEF AccountInv, AccountTypeOK
<1>1. e \in Email /\ Inserts(v, e) /\ e \notin users
  BY DEF Commit, Locks, Inserts
<1>2. CASE i = None
  <2>1. /\ users' = users \cup {e} /\ admins' = admins \cup {e} /\ invites' = invites
        /\ tx' = [tx EXCEPT ![v].step = "done"]
    BY <1>2 DEF Commit
  <2>2. AccountTypeOK' BY <1>1, <2>1
  <2>3. Locks' BY <1>1, <2>1 DEF Locks, Holds, Inserts
  <2>4. Used' BY <1>1, <2>1 DEF Used
  <2>5. QED BY <2>2, <2>3, <2>4
<1>3. CASE i # None
  <2>1. /\ users' = users \cup {e} /\ admins' = admins
        /\ invites' = [invites EXCEPT ![i].used = TRUE, ![i].by = e]
        /\ tx' = [tx EXCEPT ![v].step = "done"]
    BY <1>3 DEF Commit
  <2>2. i \in Invite /\ Holds(v, i)
    BY <1>3 DEF Commit, Holds
  <2>3. /\ i \in DOMAIN invites /\ ~invites[i].used /\ invites[i].by = None
        /\ invites[i].for \in {Anyone, e}
    BY <2>2 DEF Locks, Used
  <2>4. /\ DOMAIN invites' = DOMAIN invites
        /\ invites'[i] = [invites[i] EXCEPT !.used = TRUE, !.by = e]
        /\ \A j \in DOMAIN invites : j # i => invites'[j] = invites[j]
    BY <2>1, <2>3
  <2>5. AccountTypeOK'
    <3>1. invites[i] \in InviteRow
      BY <2>3 DEF InviteRow
    <3>2. invites'[i] \in InviteRow
      BY <1>1, <2>4, <3>1 DEF InviteRow
    <3>3. \A j \in DOMAIN invites' : invites'[j] \in InviteRow
      BY <2>4, <3>2 DEF InviteRow
    <3>4. users' \subseteq Email /\ admins' \subseteq users' /\ DOMAIN invites' \subseteq Invite
      BY <1>1, <2>1, <2>4
    <3>5. tx' \in [Visitor ->
            [step : {"idle", "claim", "check", "insert", "commit", "done"},
             invite : Invite \cup {None}, email : Email \cup {None}, inTime : BOOLEAN]]
      BY <2>1
    <3>6. QED BY <3>3, <3>4, <3>5 DEF InviteRow
  <2>6. Locks'
    <3>1. \A w \in Visitor, j \in Invite : Holds(w, j)' => Holds(w, j) /\ j # i
      BY <2>1, <2>2 DEF Holds, Locks
    <3>2. \A w \in Visitor, f \in Email : Inserts(w, f)' => Inserts(w, f) /\ f # e
      BY <1>1, <2>1 DEF Inserts, Locks
    <3>3. \A w \in Visitor : tx'[w].email = tx[w].email /\ tx'[w].invite = tx[w].invite
      BY <2>1
    <3>4. \A w \in Visitor : tx'[w].step # "idle" => tx[w].step # "idle"
      BY <2>1 DEF Commit
    <3>5. \A w \in Visitor : tx'[w].step = "claim" => tx[w].step = "claim"
      BY <2>1
    <3>6. QED BY <2>1, <2>4, <3>1, <3>2, <3>3, <3>4, <3>5 DEF Locks
  <2>7. Used'
    <3>1. \A j \in DOMAIN invites : invites[j].by # e
      BY <1>1 DEF Used
    <3>2. e \notin admins' /\ e \in users' /\ \A f \in users \ admins : f \in users' \ admins'
      BY <1>1, <2>1
    <3>3. invites'[i].used /\ invites'[i].by = e /\ invites'[i].for = invites[i].for
      BY <2>3, <2>4
    <3>4. QED BY <2>1, <2>3, <2>4, <3>1, <3>2, <3>3 DEF Used
  <2>8. QED BY <2>5, <2>6, <2>7
<1>4. QED BY <1>2, <1>3

LEMMA AccountStep == AccountInv /\ AccountNext => AccountInv'
<1> SUFFICES ASSUME AccountInv, AccountNext PROVE AccountInv'
  OBVIOUS
<1> USE NotEmailAssumption DEF AccountInv, AccountTypeOK
<1>1. ASSUME NEW i \in Invite, NEW e \in Email \cup {Anyone}, CreateInvite(i, e)
      PROVE  AccountInv'
  <2>1. /\ DOMAIN invites' = DOMAIN invites \cup {i} /\ i \notin DOMAIN invites
        /\ invites'[i] = [for |-> e, expired |-> FALSE, used |-> FALSE, by |-> None]
        /\ \A j \in DOMAIN invites : invites'[j] = invites[j]
        /\ UNCHANGED <<users, admins, tx>>
    BY <1>1 DEF CreateInvite
  <2>2. AccountTypeOK'
    <3>1. invites'[i] \in InviteRow
      BY <2>1 DEF InviteRow
    <3>2. \A j \in DOMAIN invites' : invites'[j] \in InviteRow
      BY <2>1, <3>1 DEF InviteRow
    <3>3. QED BY <2>1, <3>2 DEF InviteRow
  <2>3. Locks' BY <2>1 DEF Locks, Holds, Inserts
  <2>4. Used' BY <2>1 DEF Used
  <2>5. QED BY <2>2, <2>3, <2>4
<1>2. ASSUME NEW i \in Invite, Expire(i) PROVE AccountInv'
  <2>1. /\ DOMAIN invites' = DOMAIN invites
        /\ invites'[i].expired = TRUE
        /\ i \in DOMAIN invites /\ invites'[i] = [invites[i] EXCEPT !.expired = TRUE]
        /\ \A j \in DOMAIN invites : j # i => invites'[j] = invites[j]
        /\ UNCHANGED <<users, admins, tx>>
    BY <1>2 DEF Expire
  <2>2. AccountTypeOK'
    <3>1. invites[i] \in InviteRow
      BY <2>1 DEF InviteRow
    <3>2. invites'[i] \in InviteRow
      BY ZenonT(30), <2>1, <3>1 DEF InviteRow
    <3>3. \A j \in DOMAIN invites' : invites'[j] \in InviteRow
      BY <2>1, <3>2 DEF InviteRow
    <3>4. QED BY <2>1, <3>3 DEF InviteRow
  <2>3. \A j \in DOMAIN invites : /\ invites'[j].used = invites[j].used
                                  /\ invites'[j].by = invites[j].by
                                  /\ invites'[j].for = invites[j].for
    BY <2>1
  <2>4. Locks' BY <2>1, <2>3 DEF Locks, Holds, Inserts
  <2>5. Used' BY <2>1, <2>3 DEF Used
  <2>6. QED BY <2>2, <2>4, <2>5
<1>3. ASSUME NEW v \in Visitor, NEW i \in Invite, NEW e \in Email, BeginAccept(v, i, e)
      PROVE  AccountInv'
  BY <1>3, BeginInv
<1>4. ASSUME NEW v \in Visitor, NEW e \in Email, CreateAdmin(v, e) PROVE AccountInv'
  <2>1. AccountTypeOK' BY <1>4 DEF CreateAdmin, NoTx
  <2>2. Locks' BY <1>4 DEF CreateAdmin, NoTx, Locks, Holds, Inserts
  <2>3. Used' BY <1>4 DEF CreateAdmin, Used
  <2>4. QED BY <2>1, <2>2, <2>3
<1>5. ASSUME NEW v \in Visitor, Claim(v) PROVE AccountInv'
  <2>1. CASE Rollback(v) BY <2>1, RollbackInv
  <2>2. CASE ~Rollback(v)
    <3>1. /\ tx[v].step = "claim" /\ tx[v].invite \in DOMAIN invites
          /\ ~invites[tx[v].invite].used
          /\ invites[tx[v].invite].for \in {Anyone, tx[v].email}
          /\ \A w \in Visitor : ~Holds(w, tx[v].invite)
          /\ tx' = [tx EXCEPT ![v].step = "check"] /\ UNCHANGED <<users, admins, invites>>
      BY <1>5, <2>2 DEF Claim, Unused, Goto, Locks
    <3>2. AccountTypeOK' BY <3>1
    <3>3. Locks' BY <3>1 DEF Locks, Holds, Inserts
    <3>4. Used' BY <3>1 DEF Used
    <3>5. QED BY <3>2, <3>3, <3>4
  <2>3. QED BY <2>1, <2>2
<1>6. ASSUME NEW v \in Visitor, CheckEmail(v) PROVE AccountInv'
  <2>1. CASE Rollback(v) BY <2>1, RollbackInv
  <2>2. CASE ~Rollback(v)
    <3>1. /\ tx[v].step = "check"
          /\ tx' = [tx EXCEPT ![v].step = "insert"] /\ UNCHANGED <<users, admins, invites>>
      BY <1>6, <2>2 DEF CheckEmail, Goto
    <3>2. AccountTypeOK' BY <3>1
    <3>3. Locks' BY <3>1 DEF Locks, Holds, Inserts
    <3>4. Used' BY <3>1 DEF Used
    <3>5. QED BY <3>2, <3>3, <3>4
  <2>3. QED BY <2>1, <2>2
<1>7. ASSUME NEW v \in Visitor, InsertUser(v) PROVE AccountInv'
  <2>1. CASE Rollback(v) BY <2>1, RollbackInv
  <2>2. CASE ~Rollback(v)
    <3>1. /\ tx[v].step = "insert" /\ tx[v].email \notin users
          /\ \A w \in Visitor : ~Inserts(w, tx[v].email)
          /\ tx' = [tx EXCEPT ![v].step = "commit"] /\ UNCHANGED <<users, admins, invites>>
      BY <1>7, <2>2 DEF InsertUser, Goto
    <3>2. AccountTypeOK' BY <3>1
    <3>3. Locks' BY <3>1 DEF Locks, Holds, Inserts
    <3>4. Used' BY <3>1 DEF Used
    <3>5. QED BY <3>2, <3>3, <3>4
  <2>3. QED BY <2>1, <2>2
<1>8. ASSUME NEW v \in Visitor, Commit(v) PROVE AccountInv'
  BY <1>8, CommitInv
<1>9. ASSUME NEW v \in Visitor, Fail(v) \/ Reply(v) PROVE AccountInv'
  BY <1>9, RollbackInv DEF Fail, Reply
<1>10. QED
  BY <1>1, <1>2, <1>3, <1>4, <1>5, <1>6, <1>7, <1>8, <1>9 DEF AccountNext, Proceed

LEMMA AccountStutter == AccountInv /\ UNCHANGED accountVars => AccountInv'
BY DEF AccountInv, AccountTypeOK, Locks, Used, Holds, Inserts, accountVars
-----------------------------------------------------------------------------
(* Accounts alone.                                                         *)

\* For any addresses, invites and visitors, an invite opens one account, and
\* an account came of one invite or of the script.
THEOREM AccountsAlone == AccountSpec => []InvitesOpenAccounts
<1>1. AccountInv /\ [AccountNext]_accountVars => AccountInv'
  BY AccountStep, AccountStutter
<1>2. AccountInv => InvitesOpenAccounts
  BY AccountInvGives
<1>3. QED BY <1>1, <1>2, AccountInitInv, PTL DEF AccountSpec

-----------------------------------------------------------------------------
(* The browser.                                                            *)

\* Until something crosses, a refresh in flight is of the session stored.
OneSession == \A t \in Tab : crossed \/ refresh[t] \in {0, store.refresh}

BrowserInv == BrowserTypeOK /\ NobodyLeftWaiting /\ OneSession /\ WholeSession

LEMMA BrowserInitInv == BrowserInit => BrowserInv
<1> SUFFICES ASSUME BrowserInit PROVE BrowserInv
  OBVIOUS
<1>1. NoCall \in CallRow
  BY DEF NoCall, CallRow
<1>2. BrowserTypeOK
  BY <1>1 DEF BrowserInit, BrowserTypeOK, NoCall
<1>3. QED
  BY <1>2 DEF BrowserInit, BrowserInv, NobodyLeftWaiting, OneSession, WholeSession, NoCall

\* The calls that end, and those that stay as they are.
LEMMA EndKeeps ==
  ASSUME BrowserTypeOK, NEW rs, End(rs)
  PROVE  /\ call' \in [Request -> CallRow]
         /\ \A r \in Request : call'[r].step # "idle" =>
              r \notin rs /\ call'[r] = call[r] /\ call'[r].tab \in Tab
<1>1. NoCall \in CallRow /\ NoCall.step = "idle"
  BY DEF NoCall, CallRow
<1>2. QED BY <1>1 DEF End, BrowserTypeOK

\* SignOut leaves an empty store: whole, whatever is in flight.
LEMMA SignOutWhole ==
  ASSUME BrowserTypeOK, NEW t \in Tab, SignOut(t)
  PROVE  /\ store' \in [access : Nat, refresh : Nat] /\ page' \in [Tab -> Nat]
         /\ WholeSession' /\ store'.refresh = 0
BY DEF BrowserTypeOK, SignOut, ClearSession, WholeSession

\* A change of the stored session that finds a refresh in flight is crossed.
LEMMA OneSessionStep ==
  ASSUME BrowserInv, crossed' = (crossed \/ Crossing),
         \A t \in Tab : refresh'[t] \in {0, refresh[t], store'.refresh}
  PROVE  OneSession'
BY DEF BrowserInv, OneSession, Crossing

LEMMA CallStepInv ==
  ASSUME BrowserInv, CallStep, crossed' = (crossed \/ Crossing) PROVE BrowserInv'
<1> USE DEF BrowserInv
<1>0. UNCHANGED <<begun, form>> /\ crossed' \in BOOLEAN /\ faults' \in Nat
  <2>1. faults' = faults \/ faults' = faults + 1
    BY DEF CallStep, Send, Answered, Refused, RetryAnswered, RetryLost, Refreshed, RefreshFails, Lost
  <2>2. QED BY <2>1 DEF CallStep, BrowserTypeOK, Crossing
<1>1. ASSUME NEW t \in Tab, NEW r \in Request, Send(t, r) PROVE BrowserInv'
  <2>1. call'[r] \in CallRow /\ call'[r].tab = t /\ call'[r].step = "sent"
    BY <1>1 DEF Send, BrowserTypeOK, CallRow
  <2>2. \A q \in Request : q # r => call'[q] = call[q]
    BY <1>1 DEF Send, BrowserTypeOK
  <2>3. BrowserTypeOK'
    BY <1>0, <1>1, <2>1, <2>2 DEF Send, BrowserTypeOK
  <2>4. NobodyLeftWaiting'
    BY <1>1, <2>1, <2>2 DEF Send, NobodyLeftWaiting
  <2>5. OneSession'
    BY <1>1, OneSessionStep DEF Send
  <2>6. QED BY <1>1, <2>3, <2>4, <2>5 DEF Send, WholeSession
<1>2. ASSUME NEW r \in Request, Answered(r) \/ RetryAnswered(r) PROVE BrowserInv'
  <2>1. End({r}) /\ UNCHANGED <<store, page, refresh>>
    BY <1>2 DEF Answered, RetryAnswered
  <2>2. BrowserTypeOK'
    BY <1>0, <2>1, EndKeeps DEF BrowserTypeOK
  <2>3. NobodyLeftWaiting'
    BY <2>1, EndKeeps DEF NobodyLeftWaiting
  <2>4. OneSession'
    BY <2>1, OneSessionStep
  <2>5. QED BY <2>1, <2>2, <2>3, <2>4 DEF WholeSession
<1>3. ASSUME NEW r \in Request, RetryLost(r) PROVE BrowserInv'
  <2>1. End({r}) /\ UNCHANGED refresh /\ SignOut(call[r].tab) /\ call[r].tab \in Tab
    BY <1>3 DEF RetryLost, BrowserTypeOK
  <2>2. BrowserTypeOK'
    BY <1>0, <2>1, EndKeeps, SignOutWhole DEF BrowserTypeOK
  <2>3. NobodyLeftWaiting'
    BY <2>1, EndKeeps DEF NobodyLeftWaiting
  <2>4. OneSession'
    BY <2>1, OneSessionStep
  <2>5. QED BY <2>1, <2>2, <2>3, <2>4, SignOutWhole
<1>4. ASSUME NEW r \in Request, Refused(r) PROVE BrowserInv'
  <2> DEFINE t == call[r].tab
  <2>0. t \in Tab
    BY <1>4 DEF Refused, BrowserTypeOK
  <2>1. CASE refresh[t] = 0 /\ store.refresh = 0
    <3>1. End({r}) /\ UNCHANGED refresh /\ SignOut(t)
      BY <1>4, <2>1 DEF Refused
    <3>2. BrowserTypeOK'
      BY <1>0, <2>0, <3>1, EndKeeps, SignOutWhole DEF BrowserTypeOK
    <3>3. NobodyLeftWaiting'
      BY <3>1, EndKeeps DEF NobodyLeftWaiting
    <3>4. OneSession'
      BY <3>1, OneSessionStep
    <3>5. QED BY <2>0, <3>1, <3>2, <3>3, <3>4, SignOutWhole
  <2>2. CASE ~(refresh[t] = 0 /\ store.refresh = 0)
    <3>1. /\ call' = [call EXCEPT ![r] = [step |-> "waiting", tab |-> t, token |-> 0]]
          /\ refresh' = [refresh EXCEPT ![t] = IF @ = 0 THEN store.refresh ELSE @]
          /\ UNCHANGED <<store, page>>
      BY <1>4, <2>2 DEF Refused
    <3>2. /\ refresh' \in [Tab -> Nat] /\ refresh'[t] # 0
          /\ \A u \in Tab : u # t => refresh'[u] = refresh[u]
          /\ refresh'[t] \in {refresh[t], store.refresh}
      BY <2>0, <2>2, <3>1 DEF BrowserTypeOK
    <3>3. /\ call'[r] \in CallRow /\ call'[r].tab = t
          /\ \A q \in Request : q # r => call'[q] = call[q]
          /\ call' \in [Request -> CallRow]
      BY <3>1 DEF BrowserTypeOK, CallRow
    <3>4. BrowserTypeOK'
      BY <1>0, <2>0, <3>1, <3>2, <3>3 DEF BrowserTypeOK
    <3>5. NobodyLeftWaiting'
      BY <3>2, <3>3, <3>4 DEF NobodyLeftWaiting, BrowserTypeOK
    <3>6. OneSession'
      BY <3>1, <3>2, OneSessionStep
    <3>7. QED BY <3>1, <3>4, <3>5, <3>6, <1>0 DEF WholeSession
  <2>3. QED BY <2>1, <2>2
<1>5. ASSUME NEW t \in Tab, Refreshed(t) PROVE BrowserInv'
  <2>1. /\ store' = [store EXCEPT !.access = refresh[t]]
        /\ refresh' = [refresh EXCEPT ![t] = 0] /\ UNCHANGED page
    BY <1>5 DEF Refreshed, SaveAccessToken
  <2>2. \A r \in Request :
          IF r \in Waiting(t) THEN call'[r] = [step |-> "again", tab |-> t, token |-> refresh[t]]
                              ELSE call'[r] = call[r]
    BY <1>5 DEF Refreshed
  <2>3. /\ store'.refresh = store.refresh /\ store'.access = refresh[t]
        /\ store' \in [access : Nat, refresh : Nat] /\ refresh' \in [Tab -> Nat]
        /\ refresh'[t] = 0 /\ \A u \in Tab : u # t => refresh'[u] = refresh[u]
    BY <2>1 DEF BrowserTypeOK
  <2>4. \A r \in Request : call'[r] \in CallRow /\ call'[r].tab = call[r].tab
    BY <2>2 DEF BrowserTypeOK, CallRow, Waiting, Of
  <2>5. call' \in [Request -> CallRow]
    BY <1>5, <2>4 DEF Refreshed
  <2>6. \A r \in Request : call'[r].step # "idle" => call[r].step # "idle"
    BY <2>2 DEF Waiting, Of
  <2>7. BrowserTypeOK'
    BY <1>0, <2>1, <2>3, <2>4, <2>5, <2>6 DEF BrowserTypeOK
  <2>8. NobodyLeftWaiting'
    <3>1. \A r \in Request : call'[r].step = "waiting" => r \notin Waiting(t) /\ call'[r] = call[r]
      BY <2>2
    <3>2. QED BY <2>3, <3>1 DEF NobodyLeftWaiting, Waiting, Of, BrowserTypeOK
  <2>9. OneSession'
    BY <2>3, OneSessionStep
  <2>10. WholeSession'
    BY <1>0, <2>3 DEF WholeSession, OneSession
  <2>11. QED BY <2>7, <2>8, <2>9, <2>10
<1>6. ASSUME NEW t \in Tab, RefreshFails(t) PROVE BrowserInv'
  <2>1. End(Waiting(t)) /\ SignOut(t) /\ refresh' = [refresh EXCEPT ![t] = 0]
    BY <1>6 DEF RefreshFails
  <2>2. /\ refresh' \in [Tab -> Nat]
        /\ refresh'[t] = 0 /\ \A u \in Tab : u # t => refresh'[u] = refresh[u]
    BY <2>1 DEF BrowserTypeOK
  <2>3. BrowserTypeOK'
    BY <1>0, <2>1, <2>2, EndKeeps, SignOutWhole DEF BrowserTypeOK
  <2>4. NobodyLeftWaiting'
    BY <2>1, <2>2, EndKeeps DEF NobodyLeftWaiting, Waiting, Of, BrowserTypeOK
  <2>5. OneSession'
    BY <2>2, OneSessionStep
  <2>6. QED BY <2>1, <2>3, <2>4, <2>5, SignOutWhole
<1>7. QED
  BY <1>1, <1>2, <1>3, <1>4, <1>5, <1>6 DEF CallStep

LEMMA UserStepInv ==
  ASSUME BrowserInv, UserStep, crossed' = (crossed \/ Crossing) PROVE BrowserInv'
<1> USE DEF BrowserInv
<1>0. crossed' \in BOOLEAN /\ faults' \in Nat
  BY DEF UserStep, BrowserTypeOK, Crossing
<1>1. ASSUME NEW t \in Tab, NEW v \in Visitor, NEW i \in Invite, NEW e \in Email,
             SubmitInvite(t, v, i, e)
      PROVE  BrowserInv'
  <2>1. UNCHANGED <<begun, store, page, call, refresh>> /\ form' = [form EXCEPT ![t] = v]
    BY <1>1 DEF SubmitInvite
  <2>2. OneSession' BY <2>1, OneSessionStep
  <2>3. QED BY <1>0, <2>1, <2>2 DEF BrowserTypeOK, NobodyLeftWaiting, WholeSession
<1>2. ASSUME NEW t \in Tab, Enter(t), UNCHANGED <<call, refresh>>,
             form' \in [Tab -> Visitor \cup {None}]
      PROVE  BrowserInv'
  <2>1. /\ begun' = begun + 1 /\ store' = [access |-> begun + 1, refresh |-> begun + 1]
        /\ page' = [page EXCEPT ![t] = begun + 1]
    BY <1>2 DEF Enter, SaveSession
  <2>2. BrowserTypeOK' BY <1>0, <1>2, <2>1 DEF BrowserTypeOK
  <2>3. OneSession' BY <1>2, OneSessionStep
  <2>4. QED BY <1>2, <2>1, <2>2, <2>3 DEF NobodyLeftWaiting, WholeSession
<1>3. ASSUME NEW t \in Tab, InviteAnswered(t) PROVE BrowserInv'
  <2>1. form' \in [Tab -> Visitor \cup {None}] /\ UNCHANGED <<call, refresh>>
    BY <1>3 DEF InviteAnswered, BrowserTypeOK
  <2>2. CASE Enter(t) BY <1>2, <2>1, <2>2
  <2>3. CASE UNCHANGED <<begun, store, page>>
    <3>1. OneSession' BY <2>1, <2>3, OneSessionStep
    <3>2. QED BY <1>0, <2>1, <2>3, <3>1 DEF BrowserTypeOK, NobodyLeftWaiting, WholeSession
  <2>4. QED BY <1>3, <2>2, <2>3 DEF InviteAnswered
<1>4. ASSUME NEW t \in Tab, Login(t) PROVE BrowserInv'
  BY <1>2, <1>4 DEF Login, BrowserTypeOK
<1>5. ASSUME NEW t \in Tab, Logout(t) PROVE BrowserInv'
  <2>1. SignOut(t) /\ UNCHANGED <<begun, form, call, refresh>>
    BY <1>5 DEF Logout
  <2>2. BrowserTypeOK' BY <1>0, <2>1, SignOutWhole DEF BrowserTypeOK
  <2>3. OneSession' BY <2>1, OneSessionStep
  <2>4. QED BY <2>1, <2>2, <2>3, SignOutWhole DEF NobodyLeftWaiting
<1>6. ASSUME NEW t \in Tab, Reload(t) PROVE BrowserInv'
  <2>1. /\ page' = [page EXCEPT ![t] = store.refresh] /\ form' = [form EXCEPT ![t] = None]
        /\ refresh' = [refresh EXCEPT ![t] = 0] /\ End(Of(t)) /\ UNCHANGED <<begun, store>>
    BY <1>6 DEF Reload
  <2>2. /\ refresh' \in [Tab -> Nat]
        /\ refresh'[t] = 0 /\ \A u \in Tab : u # t => refresh'[u] = refresh[u]
    BY <2>1 DEF BrowserTypeOK
  <2>3. BrowserTypeOK' BY <1>0, <2>1, <2>2, EndKeeps DEF BrowserTypeOK
  <2>4. NobodyLeftWaiting'
    BY <2>1, <2>2, EndKeeps DEF NobodyLeftWaiting, Of, BrowserTypeOK
  <2>5. OneSession' BY <2>2, OneSessionStep
  <2>6. QED BY <2>1, <2>3, <2>4, <2>5 DEF WholeSession
<1>7. QED
  BY <1>1, <1>3, <1>4, <1>5, <1>6 DEF UserStep

LEMMA BrowserStep == BrowserInv /\ [SessionNext]_sessionVars => BrowserInv'
<1> SUFFICES ASSUME BrowserInv, [SessionNext]_sessionVars PROVE BrowserInv'
  OBVIOUS
<1>1. CASE SessionNext
  <2>1. crossed' = (crossed \/ Crossing)
    BY <1>1 DEF SessionNext
  <2>2. ASSUME UNCHANGED <<begun, store, page, refresh, form, call, faults>> PROVE BrowserInv'
    <3>1. crossed' = crossed
      BY <2>1, <2>2 DEF Crossing, BrowserInv, BrowserTypeOK
    <3>2. QED
      BY <2>2, <3>1 DEF BrowserInv, BrowserTypeOK, NobodyLeftWaiting, OneSession, WholeSession
  <2>3. QED
    BY <1>1, <2>1, <2>2, CallStepInv, UserStepInv DEF SessionNext, Lapse, Elsewhere
<1>2. CASE UNCHANGED sessionVars
  BY <1>2 DEF sessionVars, browserVars, BrowserInv, BrowserTypeOK, NobodyLeftWaiting,
              OneSession, WholeSession
<1>3. QED BY <1>1, <1>2

LEMMA BrowserAlways == SessionSpec => []BrowserInv
<1>1. SessionInit => BrowserInv
  BY BrowserInitInv DEF SessionInit
<1>2. QED BY <1>1, BrowserStep, PTL DEF SessionSpec

\* With any number of tabs and of calls, the store holds the tokens of one
\* session unless a sign-in or a sign-out met a refresh in flight.
THEOREM AlwaysWholeSession == SessionSpec => []WholeSession
<1>1. BrowserInv => WholeSession
  BY DEF BrowserInv
<1>2. QED BY <1>1, BrowserAlways, PTL

\* With any number of tabs and of calls, a call that waits waits for a
\* refresh that is in flight.
THEOREM AlwaysNobodyLeftWaiting == SessionSpec => []NobodyLeftWaiting
<1>1. BrowserInv => NobodyLeftWaiting
  BY DEF BrowserInv
<1>2. QED BY <1>1, BrowserAlways, PTL

\* SignedOutForCause on one step: the tab whose user goes is one whose
\* session was over, whatever the other tabs did and however many calls
\* were waiting.
LEMMA CauseStep ==
  ASSUME BrowserInv, CallStep, NEW t \in Tab, page[t] # 0, page'[t] = 0
  PROVE  page[t] \in dead \/ page[t] # store.refresh \/ faults' # faults \/ crossed
<1> USE DEF BrowserInv
<1>1. ASSUME NEW u \in Tab, SignOut(u) PROVE u = t
  BY <1>1 DEF SignOut, BrowserTypeOK
<1>2. ASSUME NEW u \in Tab, NEW r \in Request, Send(u, r) PROVE FALSE
  BY <1>2 DEF Send
<1>3. ASSUME NEW r \in Request, Answered(r) \/ RetryAnswered(r) PROVE FALSE
  BY <1>3 DEF Answered, RetryAnswered
<1>4. ASSUME NEW r \in Request, Refused(r) PROVE page[t] # store.refresh
  BY <1>4 DEF Refused
<1>5. ASSUME Lost, faults \in Nat PROVE faults' # faults
  BY <1>5 DEF Lost
<1>6. ASSUME NEW u \in Tab, RefreshFails(u)
      PROVE  page[t] \in dead \/ page[t] # store.refresh \/ faults' # faults \/ crossed
  <2>1. u = t /\ refresh[t] # 0
    BY <1>1, <1>6 DEF RefreshFails
  <2>2. CASE refresh[u] \in dead
    BY <2>1, <2>2 DEF OneSession
  <2>3. CASE Lost
    BY <1>5, <2>3 DEF BrowserTypeOK
  <2>4. QED BY <1>6, <2>2, <2>3 DEF RefreshFails
<1>7. ASSUME NEW u \in Tab, Refreshed(u) PROVE FALSE
  BY <1>7 DEF Refreshed
<1>8. ASSUME NEW r \in Request, RetryLost(r) PROVE faults' # faults
  BY <1>5, <1>8 DEF RetryLost, BrowserTypeOK
<1>9. QED
  BY <1>2, <1>3, <1>4, <1>6, <1>7, <1>8 DEF CallStep

\* With any number of tabs and of calls, nobody is signed out of a session
\* that is good.
THEOREM AlwaysSignedOutForCause == SessionSpec => SignedOutForCause
<1> DEFINE Cause(t) == \/ Logout(t) \/ Reload(t)
                       \/ page[t] \in dead \/ page[t] # store.refresh
                       \/ faults' # faults \/ crossed
<1>1. ASSUME BrowserInv, [SessionNext]_sessionVars, NEW t \in Tab, page[t] # 0, page'[t] = 0
      PROVE  Cause(t)
  <2>1. CASE CallStep
    BY <1>1, <2>1, CauseStep
  <2>2. CASE UserStep
    <3>1. ASSUME NEW u \in Tab, Enter(u) PROVE FALSE
      BY <1>1, <3>1 DEF Enter, BrowserInv, BrowserTypeOK
    <3>2. ASSUME NEW u \in Tab, Logout(u) \/ Reload(u) PROVE u = t
      BY <1>1, <3>2 DEF Logout, Reload, SignOut, BrowserInv, BrowserTypeOK
    <3>3. \E u \in Tab : Enter(u) \/ Logout(u) \/ Reload(u)
      BY <1>1, <2>2 DEF UserStep, SubmitInvite, Login, InviteAnswered
    <3>4. QED BY <3>1, <3>2, <3>3
  <2>3. CASE ~CallStep /\ ~UserStep
    BY <1>1, <2>3 DEF SessionNext, Lapse, Elsewhere, sessionVars, browserVars
  <2>4. QED BY <2>1, <2>2, <2>3
<1>2. BrowserInv /\ [SessionNext]_sessionVars =>
        [\A t \in Tab : page[t] # 0 /\ page'[t] = 0 => Cause(t)]_sessionVars
  BY <1>1
<1>3. QED BY <1>2, BrowserAlways, PTL DEF SessionSpec, SignedOutForCause

-----------------------------------------------------------------------------
(* Both.                                                                   *)

LEMMA AccountPart ==
  BrowserInv /\ [SessionNext]_sessionVars => AccountNext \/ UNCHANGED accountVars
<1> SUFFICES ASSUME BrowserInv, [SessionNext]_sessionVars
             PROVE  AccountNext \/ UNCHANGED accountVars
  OBVIOUS
<1>1. CallStep => UNCHANGED accountVars
  BY DEF CallStep
<1>2. ASSUME NEW t \in Tab, NEW v \in Visitor, NEW i \in Invite, NEW e \in Email,
             SubmitInvite(t, v, i, e)
      PROVE  AccountNext
  BY <1>2 DEF SubmitInvite, AccountNext
<1>3. ASSUME NEW t \in Tab, InviteAnswered(t)
      PROVE  AccountNext \/ UNCHANGED accountVars
  <2>1. form[t] \in Visitor
    BY <1>3 DEF InviteAnswered, BrowserInv, BrowserTypeOK
  <2>2. QED BY <1>3, <2>1 DEF InviteAnswered, AccountNext
<1>4. UserStep => AccountNext \/ UNCHANGED accountVars
  BY <1>2, <1>3 DEF UserStep, Login, Logout, Reload
<1>5. QED
  BY <1>1, <1>4 DEF SessionNext, Lapse, Elsewhere, sessionVars

LEMMA AccountAlways == SessionSpec => []AccountInv
<1>1. SessionInit => AccountInv
  BY AccountInitInv DEF SessionInit
<1>2. BrowserInv /\ AccountInv /\ [SessionNext]_sessionVars => AccountInv'
  BY AccountPart, AccountStep, AccountStutter
<1>3. QED BY <1>1, <1>2, BrowserAlways, PTL DEF SessionSpec

\* The types of both.
THEOREM AlwaysSessionTypeOK == SessionSpec => []SessionTypeOK
<1>1. AccountInv /\ BrowserInv => SessionTypeOK
  BY DEF AccountInv, BrowserInv, SessionTypeOK
<1>2. QED BY <1>1, AccountAlways, BrowserAlways, PTL

\* Whatever the browser does beside it, an invite opens one account.
THEOREM AlwaysInvitesOpenAccounts == SessionSpec => []InvitesOpenAccounts
<1>1. AccountInv => InvitesOpenAccounts
  BY AccountInvGives
<1>2. QED BY <1>1, AccountAlways, PTL
=============================================================================
