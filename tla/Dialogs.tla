------------------------------ MODULE Dialogs ------------------------------
(***************************************************************************)
(* The dialogs over a page that load something of their own, outside React *)
(* Query: components/MoveModal.tsx (the folder one is looking at),         *)
(* components/PreviewModal.tsx (the file shown large) and                  *)
(* components/ShareModal.tsx (who can read a file, and its public link),   *)
(* with the share routes behind the last.  One is open at a time.          *)
(*                                                                         *)
(* Every load may be answered late and out of order.  The first two give   *)
(* each load a `cancelled` flag of its own, the third does not.  A share   *)
(* or a link is known by its row or its token, never used a second time    *)
(* while anybody remembers it.                                             *)
(***************************************************************************)
EXTENDS Naturals, Sequences, FiniteSets, SequencesExt

CONSTANTS
  Target,   \* folders to move to, files to look at
  Id,       \* share rows and link tokens
  Op,       \* calls of the share dialog that may be under way at once
  MaxLoads, \* bound on the loads in flight
  Nothing

ASSUME DialogAssumption == Nothing \notin Target \cup Id /\ MaxLoads \in Nat \ {0}

VARIABLES
  dialog,           \* the dialog that is open
  current,          \* move, preview: the folder or file one is looking at
  shown,            \* and the one whose listing or picture is on the screen
  loading, failed,  \* the last load is under way; it failed
  loads,            \* the loads in flight, oldest first
  grants, link,     \* the server: share rows of the file, and its link
  list, fresh,      \* share: the answer shown, and the link just made
  submitting, linkBusy,
  ops,              \* share: the calls under way
  astray,           \* a call outlived its dialog, or an answer was lost
  late              \* the list shown was overtaken by a newer one before it came

browse     == <<current, shown, failed>>
server     == <<grants, link>>
share      == <<list, fresh, submitting, linkBusy>>
dialogVars == <<dialog, browse, loading, loads, server, share, ops, astray, late>>

NoOp     == [kind |-> "none", id |-> Nothing, st |-> "idle", mine |-> FALSE]
BusyOps  == {o \in Op : ops[o] # NoOp}
Sharings == [grants : SUBSET Id, link : BOOLEAN]
NoList   == [grants |-> {}, link |-> FALSE]

\* A load: what it is of, cancelled or not; for the share dialog the answer,
\* once the server has read it, and whether a newer load has landed already.
Load(of) == [of |-> of, cancelled |-> FALSE, answered |-> FALSE, answer |-> NoList, overtaken |-> FALSE]

\* Ids somebody remembers.
Known == grants \cup {link, fresh} \cup list.grants \cup {ops[o].id : o \in Op}
           \cup UNION {loads[n].answer.grants : n \in DOMAIN loads}

DialogInit ==
  /\ dialog = "none" /\ current = Nothing /\ shown = Nothing
  /\ loading = FALSE /\ failed = FALSE /\ loads = <<>>
  /\ grants = {} /\ link = Nothing
  /\ list = NoList /\ fresh = Nothing /\ submitting = FALSE /\ linkBusy = FALSE
  /\ ops = [o \in Op |-> NoOp] /\ astray = FALSE /\ late = FALSE

(***************************************************************************)
(* Opening, and closing: what comes for a closed dialog changes nothing.   *)
(***************************************************************************)
CancelledNone == loads \* mutant: no cleanup of the effect

Cancelled == [n \in DOMAIN loads |-> [loads[n] EXCEPT !.cancelled = TRUE]]

StartLoad(of) ==
  /\ Len(loads) < MaxLoads
  /\ loads' = Append(Cancelled, Load(of))
  /\ loading' = TRUE

OpenBrowser(d, t) ==
  /\ dialog = "none" /\ dialog' = d
  /\ current' = t /\ shown' = Nothing /\ failed' = FALSE
  /\ StartLoad(t)
  /\ UNCHANGED <<server, share, ops, astray, late>>

OpenShare ==
  /\ dialog = "none" /\ dialog' = "share"
  /\ list' = NoList /\ fresh' = Nothing /\ submitting' = FALSE /\ linkBusy' = FALSE
  /\ astray' = (BusyOps # {}) /\ late' = FALSE
  /\ StartLoad(Nothing)
  /\ UNCHANGED <<browse, server, ops>>

Close ==
  /\ dialog # "none" /\ dialog' = "none"
  /\ loads' = <<>> /\ loading' = FALSE
  /\ current' = Nothing /\ shown' = Nothing /\ failed' = FALSE
  /\ list' = NoList /\ fresh' = Nothing /\ submitting' = FALSE /\ linkBusy' = FALSE
  /\ astray' = FALSE /\ late' = FALSE
  /\ ops' = [o \in Op |-> [ops[o] EXCEPT !.mine = FALSE]]
  /\ UNCHANGED server

(***************************************************************************)
(* The move dialog and the preview: a load per folder or file looked at.   *)
(***************************************************************************)

\* A folder of the list or a crumb.  The old list stays until the new one is
\* there.
Navigate(t) ==
  /\ dialog = "move" /\ t # current /\ current' = t
  /\ failed' = FALSE /\ StartLoad(t)
  /\ UNCHANGED <<dialog, shown, server, share, ops, astray, late>>

\* Next or previous, or the listing under it was drawn again: the file at the
\* index then, the same or not, is loaded anew.
Turn(t) ==
  /\ dialog = "preview" /\ current' = t
  /\ shown' = Nothing /\ failed' = FALSE /\ StartLoad(t)
  /\ UNCHANGED <<dialog, server, share, ops, astray, late>>

Look(n) ==
  /\ dialog \in {"move", "preview"}
  /\ loads' = RemoveAt(loads, n)
  /\ IF loads[n].cancelled THEN UNCHANGED <<shown, failed, loading>>
       ELSE /\ loading' = FALSE
            /\ \/ shown' = loads[n].of /\ UNCHANGED failed
               \/ failed' = TRUE /\ UNCHANGED shown
  /\ UNCHANGED <<dialog, current, server, share, ops, astray, late>>

(***************************************************************************)
(* The share dialog: load() after every call that succeeds.                *)
(***************************************************************************)
ReadShares(n) ==
  /\ dialog = "share" /\ ~loads[n].answered
  /\ loads' = [loads EXCEPT ![n].answered = TRUE,
                            ![n].answer = [grants |-> grants, link |-> link # Nothing]]
  /\ UNCHANGED <<dialog, browse, loading, server, share, ops, astray, late>>

\* An answer is shown as it comes, cancelled by nothing.
Overtaking(n) ==
  [m \in DOMAIN loads |-> IF m < n THEN [loads[m] EXCEPT !.overtaken = TRUE] ELSE loads[m]]

LandShares(n) ==
  /\ dialog = "share" /\ loads[n].answered
  /\ list' = loads[n].answer /\ loading' = FALSE /\ late' = loads[n].overtaken
  /\ loads' = RemoveAt(Overtaking(n), n)
  /\ UNCHANGED <<dialog, browse, server, fresh, submitting, linkBusy, ops, astray>>

FailShares(n) ==
  /\ dialog = "share"
  /\ loads' = RemoveAt(loads, n) /\ loading' = FALSE /\ astray' = TRUE
  /\ UNCHANGED <<dialog, browse, server, share, ops, late>>

Send(o, kind, id) ==
  /\ dialog = "share" /\ ops[o] = NoOp
  /\ ops' = [ops EXCEPT ![o] = [kind |-> kind, id |-> id, st |-> "sent", mine |-> TRUE]]
  /\ UNCHANGED <<dialog, browse, loading, loads, server, list, fresh, astray, late>>

AddShare(o) ==
  /\ ~submitting /\ submitting' = TRUE
  /\ Send(o, "add", Nothing) /\ UNCHANGED linkBusy

\* The cross beside a name, hidden while a load is known to be under way.
RevokeShare(o, id) ==
  /\ ~loading /\ id \in list.grants
  /\ Send(o, "revoke", id) /\ UNCHANGED <<submitting, linkBusy>>

\* The three faces of the link section: the new link, one that is active, and
\* none, which is also what a list not loaded yet looks like.
CreateLink(o) ==
  /\ ~linkBusy /\ fresh = Nothing /\ ~list.link /\ linkBusy' = TRUE
  /\ Send(o, "link", Nothing) /\ UNCHANGED submitting

RevokeLinkAnytime(o) == \* mutant: the button stays enabled
  /\ linkBusy' = TRUE
  /\ fresh # Nothing \/ list.link
  /\ Send(o, "unlink", Nothing) /\ UNCHANGED submitting

RevokeLink(o) ==
  /\ ~linkBusy /\ linkBusy' = TRUE
  /\ fresh # Nothing \/ list.link
  /\ Send(o, "unlink", Nothing) /\ UNCHANGED submitting

\* What the routes do; a link that exists already is not made again.
ServeShare(o) ==
  LET c == ops[o] IN
  /\ c.st = "sent"
  /\ \/ /\ c.kind = "add" /\ UNCHANGED link
        /\ \E id \in Id \ Known : grants' = grants \cup {id}
        /\ ops' = [ops EXCEPT ![o].st = "done"]
     \/ /\ c.kind = "revoke" /\ c.id \in grants
        /\ grants' = grants \ {c.id} /\ UNCHANGED link
        /\ ops' = [ops EXCEPT ![o].st = "done"]
     \/ /\ c.kind = "link" /\ link = Nothing /\ UNCHANGED grants
        /\ \E id \in Id \ Known : link' = id /\ ops' = [ops EXCEPT ![o].st = "done", ![o].id = id]
     \/ /\ c.kind = "link" /\ link # Nothing /\ UNCHANGED server
        /\ ops' = [ops EXCEPT ![o].st = "done"]
     \/ /\ c.kind = "unlink" /\ link' = Nothing /\ UNCHANGED grants
        /\ ops' = [ops EXCEPT ![o].st = "done"]
  /\ UNCHANGED <<dialog, browse, loading, loads, share, astray, late>>

\* Nobody of that name or shared with already; a share that is gone.
RefuseShare(o) ==
  /\ ops[o].st = "sent"
  /\ \/ ops[o].kind = "add"
     \/ ops[o].kind = "revoke" /\ ops[o].id \notin grants
  /\ ops' = [ops EXCEPT ![o].st = "refused"]
  /\ UNCHANGED <<dialog, browse, loading, loads, server, share, astray, late>>

Ended(o) ==
  /\ ops' = [ops EXCEPT ![o] = NoOp]
  /\ submitting' = (submitting /\ ops[o].kind # "add")
  /\ linkBusy' = (linkBusy /\ ops[o].kind \notin {"link", "unlink"})
  /\ UNCHANGED <<dialog, browse, server, list>>

ReloadUnlessLoading == \* mutant: the load under way is taken to be enough
  IF loads # <<>> THEN UNCHANGED <<loads, loading>>
    ELSE loads' = <<Load(Nothing)>> /\ loading' = TRUE

Reload ==
  /\ Len(loads) < MaxLoads
  /\ loads' = Append(loads, Load(Nothing)) /\ loading' = TRUE

ReplyShare(o) ==
  LET c == ops[o] IN
  /\ c.st = "done" /\ c.mine /\ Ended(o) /\ Reload
  /\ fresh' = IF c.kind = "unlink" THEN Nothing
              ELSE IF c.kind = "link" /\ c.id # Nothing THEN c.id ELSE fresh
  /\ UNCHANGED <<astray, late>>

\* A refusal, or a call or its answer lost: an error, and no load().
Fail(o) ==
  /\ ops[o] # NoOp /\ ops[o].mine /\ Ended(o)
  /\ astray' = (astray \/ ops[o].st # "refused")
  /\ UNCHANGED <<loading, loads, fresh, late>>

\* An answer for a dialog closed since.
Forget(o) ==
  /\ ops[o].st \in {"done", "refused"} /\ ~ops[o].mine
  /\ ops' = [ops EXCEPT ![o] = NoOp]
  /\ UNCHANGED <<dialog, browse, loading, loads, server, share, astray, late>>

DialogNext ==
  \/ \E t \in Target : Navigate(t) \/ Turn(t) \/ \E d \in {"move", "preview"} : OpenBrowser(d, t)
  \/ OpenShare \/ Close
  \/ \E n \in DOMAIN loads : Look(n) \/ ReadShares(n) \/ LandShares(n) \/ FailShares(n)
  \/ \E o \in Op :
       \/ AddShare(o) \/ CreateLink(o) \/ RevokeLink(o) \/ \E id \in Id : RevokeShare(o, id)
       \/ ServeShare(o) \/ RefuseShare(o) \/ ReplyShare(o) \/ Fail(o) \/ Forget(o)

DialogSpec == DialogInit /\ [][DialogNext]_dialogVars

(***************************************************************************)
(* Properties.                                                             *)
(***************************************************************************)

\* The picture in the preview is of the file its title names, and the folders
\* in the move dialog are those of the folder its button names, unless the
\* last load failed (then the old list stays, under the new name).
LateAnswersAreDropped ==
  /\ dialog = "preview" => shown \in {Nothing, current}
  /\ dialog = "move" /\ ~loading => failed \/ shown = current

\* The share dialog at rest shows who can read the file and whether it has a
\* link, unless the list shown had been overtaken, an answer was lost, or a
\* call of an earlier dialog was still under way when this one opened.
SharesShownAreCurrent ==
  dialog = "share" /\ BusyOps = {} /\ loads = <<>> /\ ~astray /\ ~late =>
    list = [grants |-> grants, link |-> link # Nothing]

\* The link one is told to save now, for it is never shown again, is the one
\* that opens the file, but while a call that changes it is under way.
FreshLinkWorks == fresh # Nothing /\ ~linkBusy /\ ~astray => link = fresh
=============================================================================
