------------------------------ MODULE Session ------------------------------
(***************************************************************************)
(* Signing in, staying signed in and being signed out, in one browser:     *)
(* api/client.ts, api/tokenStore.ts, auth/AuthContext.tsx, the login and   *)
(* the accept-invite page, and routes/auth.ts behind them, beside          *)
(* everything Accounts does.                                               *)
(*                                                                         *)
(* The tabs share localStorage; the user React shows and the refresh in    *)
(* flight are each tab's own.  Every await is a step apart: a request, its *)
(* 401, the refresh it joins or starts, its retry.  What runs between two  *)
(* awaits, the continuations of all who waited for one refresh included,   *)
(* is one step.                                                            *)
(*                                                                         *)
(* A session is numbered when its tokens are saved; its refresh token, the *)
(* user and the root folder are saved and removed together, so the number  *)
(* stands for the three.  An access token is the number of its session.    *)
(* Accounts are never deleted, so whose session it is refuses no step.     *)
(***************************************************************************)
EXTENDS Accounts

CONSTANTS
  Tab,        \* open tabs of the application
  Request,    \* calls of api/client.ts that may be in flight at once
  MaxSignIns, \* bound on the sessions begun
  MaxFaults   \* bound on the calls the network loses and the refreshes a 429 or 5xx ends

ASSUME FormAssumption  == None \notin Visitor \cup Tab
ASSUME BoundAssumption == MaxSignIns \in Nat /\ MaxFaults \in Nat

VARIABLES
  begun,   \* the number of sessions begun so far
  dead,    \* the sessions whose refresh token has expired
  store,   \* localStorage: the access token, and the session of the rest; 0: none
  page,    \* the session whose user each tab shows; 0: the login page
  refresh, \* refreshPromise of each tab: the session it renews; 0: null
  form,    \* the acceptance each tab has submitted and not had an answer to, or None
  call,    \* the calls in flight
  faults,
  crossed  \* a session began or ended while the refresh of one was in flight

browserVars == <<begun, dead, store, page, refresh, form, call, faults, crossed>>
sessionVars == <<accountVars, browserVars>>

Session == 1 .. begun
NoCall  == [step |-> "idle", tab |-> None, token |-> 0]

CallRow == [step : {"idle", "sent", "waiting", "again"}, tab : Tab \cup {None}, token : Nat]

BrowserTypeOK ==
  /\ begun \in Nat
  /\ store \in [access : Nat, refresh : Nat]
  /\ page \in [Tab -> Nat] /\ refresh \in [Tab -> Nat]
  /\ form \in [Tab -> Visitor \cup {None}]
  /\ call \in [Request -> CallRow]
  /\ \A r \in Request : call[r].step # "idle" => call[r].tab \in Tab
  /\ faults \in Nat /\ crossed \in BOOLEAN

SessionTypeOK == AccountTypeOK /\ BrowserTypeOK

Of(t) == {r \in Request : call[r].step # "idle" /\ call[r].tab = t}

\* Mutant of Waiting: only one of the calls that wait is resumed.
WaitingOne(t) == LET all == {r \in Of(t) : call[r].step = "waiting"}
                 IN IF all = {} THEN {} ELSE {CHOOSE r \in all : TRUE}

Waiting(t) == {r \in Of(t) : call[r].step = "waiting"}

-----------------------------------------------------------------------------
(* The token store.                                                        *)

SaveSession(s)     == store' = [access |-> s, refresh |-> s]
SaveAccessToken(s) == store' = [store EXCEPT !.access = s]
ClearRefresh       == store' = [store EXCEPT !.refresh = 0]  \* mutant of ClearSession
ClearSession       == store' = [access |-> 0, refresh |-> 0]

\* clearSession and onSessionExpired, which is that tab's logout.
SignOut(t) == ClearSession /\ page' = [page EXCEPT ![t] = 0]

End(rs) == call' = [r \in Request |-> IF r \in rs THEN NoCall ELSE call[r]]

Lost == faults < MaxFaults /\ faults' = faults + 1

-----------------------------------------------------------------------------
(* A call of api/client.ts.                                                *)

\* request: the token is read from localStorage, whoever's it is by now.
Send(t, r) ==
  /\ page[t] # 0 /\ form[t] = None /\ call[r].step = "idle"
  /\ call' = [call EXCEPT ![r] = [step |-> "sent", tab |-> t, token |-> store.access]]
  /\ UNCHANGED <<store, page, refresh, faults>>

\* An answer that is no 401, or none at all: the first fetch throws and
\* nobody is signed out.
Answered(r) ==
  /\ call[r].step = "sent" /\ End({r})
  /\ \/ call[r].token # 0 /\ UNCHANGED faults
     \/ Lost
  /\ UNCHANGED <<store, page, refresh>>

\* A 401: no token, or an access token that expired on the way.  The call
\* joins the refresh in flight or starts one, which reads the refresh
\* token before its first await.
Refused(r) ==
  LET t == call[r].tab IN
  /\ call[r].step = "sent" /\ UNCHANGED faults
  /\ IF refresh[t] = 0 /\ store.refresh = 0
     THEN End({r}) /\ SignOut(t) /\ UNCHANGED refresh
     ELSE /\ call' = [call EXCEPT ![r] = [step |-> "waiting", tab |-> t, token |-> 0]]
          /\ refresh' = [refresh EXCEPT ![t] = IF @ = 0 THEN store.refresh ELSE @]
          /\ UNCHANGED <<store, page>>

\* POST /auth/refresh answers: the refresh token is good.  Everybody who
\* waited sends again, with the token of the answer.
Refreshed(t) ==
  /\ refresh[t] \notin {0} \cup dead
  /\ SaveAccessToken(refresh[t])
  /\ call' = [r \in Request |-> IF r \in Waiting(t)
       THEN [step |-> "again", tab |-> t, token |-> refresh[t]] ELSE call[r]]
  /\ refresh' = [refresh EXCEPT ![t] = 0]
  /\ UNCHANGED <<page, faults>>

\* It answers 401; or it does not answer, or with a 429 or a 5xx: everybody
\* who waited signs out.
RefreshFails(t) ==
  /\ refresh[t] # 0
  /\ \/ refresh[t] \in dead /\ UNCHANGED faults
     \/ Lost
  /\ SignOut(t)
  /\ End(Waiting(t))
  /\ refresh' = [refresh EXCEPT ![t] = 0]

\* Mutant of RetryAnswered: a second 401 signs out.
RetrySignsOut(r) ==
  /\ call[r].step = "again" /\ End({r})
  /\ \/ SignOut(call[r].tab)
     \/ UNCHANGED <<store, page>>
  /\ UNCHANGED <<refresh, faults>>

\* The retry is answered, with a second 401 or anything else.
RetryAnswered(r) ==
  /\ call[r].step = "again" /\ End({r})
  /\ UNCHANGED <<store, page, refresh, faults>>

\* The retry is lost: it is in the same try block as the refresh.
RetryLost(r) ==
  /\ call[r].step = "again" /\ End({r})
  /\ Lost /\ SignOut(call[r].tab) /\ UNCHANGED refresh

CallStep ==
  /\ UNCHANGED <<accountVars, begun, dead, form>>
  /\ \/ \E t \in Tab, r \in Request : Send(t, r)
     \/ \E r \in Request : Answered(r) \/ Refused(r) \/ RetryAnswered(r) \/ RetryLost(r)
     \/ \E t \in Tab : Refreshed(t) \/ RefreshFails(t)

-----------------------------------------------------------------------------
(* The forms and the buttons.                                              *)

\* The login or the accept-invite page is up: the tab is signed out, or has
\* just been loaded at that address with a session in the store.
FormShown(t) ==
  /\ form[t] = None
  /\ \/ page[t] = 0
     \/ Of(t) = {} /\ page[t] = store.refresh

\* saveSession, setUser, navigate('/').
Enter(t) ==
  /\ begun < MaxSignIns /\ begun' = begun + 1
  /\ SaveSession(begun + 1)
  /\ page' = [page EXCEPT ![t] = begun + 1]

\* POST /auth/login for an account there is; an answer that is an error or
\* does not come changes nothing, and neither does asking.
Login(t) ==
  /\ FormShown(t) /\ users # {} /\ Enter(t)
  /\ UNCHANGED <<accountVars, form, call, refresh>>

SubmitInvite(t, v, i, e) ==
  /\ FormShown(t) /\ BeginAccept(v, i, e)
  /\ form' = [form EXCEPT ![t] = v]
  /\ UNCHANGED <<begun, store, page, call, refresh>>

\* The account is there and the answer came, or it is lost or a refusal,
\* and the form shows an error.
InviteAnswered(t) ==
  LET v == form[t] IN
  /\ v # None
  /\ \/ Reply(v) /\ Enter(t)
     \/ /\ UNCHANGED <<begun, store, page>>
        /\ \/ Reply(v)
           \/ tx[v].step = "idle" /\ UNCHANGED accountVars
  /\ form' = [form EXCEPT ![t] = None]
  /\ UNCHANGED <<call, refresh>>

\* The button of the top bar.  What is in flight stays in flight.
Logout(t) ==
  /\ page[t] # 0 /\ SignOut(t)
  /\ UNCHANGED <<accountVars, begun, form, call, refresh>>

\* The tab is closed and opened, or loaded again at any address.
Reload(t) ==
  /\ page' = [page EXCEPT ![t] = store.refresh]
  /\ form' = [form EXCEPT ![t] = None]
  /\ refresh' = [refresh EXCEPT ![t] = 0]
  /\ End(Of(t))
  /\ UNCHANGED <<accountVars, begun, store>>

UserStep ==
  /\ UNCHANGED <<dead, faults>>
  /\ \E t \in Tab :
       \/ \E v \in Visitor, i \in Invite, e \in Email : SubmitInvite(t, v, i, e)
       \/ Login(t) \/ InviteAnswered(t) \/ Logout(t) \/ Reload(t)

\* JWT_REFRESH_TTL passes.
Lapse(s) ==
  /\ s \in Session \ dead /\ dead' = dead \cup {s}
  /\ UNCHANGED <<accountVars, begun, store, page, refresh, form, call, faults>>

\* Everything Accounts does but answer a form that waits for it.
Elsewhere ==
  /\ AccountNext
  /\ \A v \in Visitor : Reply(v) => \A t \in Tab : form[t] # v
  /\ UNCHANGED <<begun, dead, store, page, refresh, form, call, faults>>

-----------------------------------------------------------------------------
BrowserInit ==
  /\ begun = 0 /\ dead = {}
  /\ store = [access |-> 0, refresh |-> 0]
  /\ page = [t \in Tab |-> 0] /\ refresh = [t \in Tab |-> 0]
  /\ form = [t \in Tab |-> None]
  /\ call = [r \in Request |-> NoCall]
  /\ faults = 0 /\ crossed = FALSE

SessionInit == AccountInit /\ BrowserInit

Crossing == store'.refresh # store.refresh /\ \E t \in Tab : refresh'[t] # 0

SessionNext ==
  /\ CallStep \/ UserStep \/ (\E s \in Session : Lapse(s)) \/ Elsewhere
  /\ crossed' = (crossed \/ Crossing)

SessionSpec == SessionInit /\ [][SessionNext]_sessionVars

-----------------------------------------------------------------------------
(* Properties.                                                             *)

\* The access token in the store is of the session whose refresh token, user
\* and root folder are there, so that what a page asks for it asks in the
\* name of the user it shows.  Unless a session began or ended, in this tab
\* or another, while a refresh of the one before was in flight: that one
\* stores its token when it comes back (client.ts:59), whoever is in by now.
WholeSession == crossed \/ store.access \in {0, store.refresh}

\* Nobody is put on the login page while his session is good: a tab signs
\* out by itself only if the refresh token of the session it shows has
\* expired, another tab has ended that session or begun another, or the
\* refresh or the retry was lost.  Coalescing the 401s of several
\* calls, and a 401 on the retry, never do (client.ts:33-36,91-100).
SignedOutForCause ==
  [][\A t \in Tab : page[t] # 0 /\ page'[t] = 0 =>
       \/ Logout(t) \/ Reload(t)
       \/ page[t] \in dead \/ page[t] # store.refresh
       \/ faults' # faults \/ crossed]_sessionVars

\* No call is left waiting: whoever joined a refresh is resumed when it
\* ends, whether it began the refresh or found it under way, and a refresh
\* is never joined after its end (client.ts:44-45, the finally of :65-67).
NobodyLeftWaiting ==
  \A r \in Request : call[r].step = "waiting" => refresh[call[r].tab] # 0
=============================================================================
