------------------------------- MODULE Pages -------------------------------
(***************************************************************************)
(* What the drive and the Bin page show while their own actions are under  *)
(* way: pages/DrivePage.tsx, pages/BinPage.tsx, components/Sidebar.tsx and  *)
(* the QueryClient of main.tsx, in one tab of one user.                    *)
(*                                                                         *)
(* React Query is external and modelled from how the pages use it: an      *)
(* answer is kept per key; showing a key fetches it again and joins the    *)
(* fetch of that key already in flight; invalidating a key on the screen   *)
(* starts its fetch over and drops the older answer, unless nothing was    *)
(* ever loaded, when it joins the first load; a key off the screen is only *)
(* marked stale, which showing it does anyway.                             *)
(*                                                                         *)
(* Items are files, the folders stay, and each lies directly under the     *)
(* root.  A listing is the set of the items in it.  Creating a folder and  *)
(* renaming take the way of Move: runAction.                               *)
(***************************************************************************)
EXTENDS FiniteSets

CONSTANTS
  Item, Folder,
  Root, Bin, Storage, \* the queries beside those of the other folders
  Act,                \* calls of the pages that may be under way at once
  None, Asked         \* no answer yet; a fetch the server has not read for

ASSUME PageAssumption ==
  /\ Root \in Folder /\ Bin \notin Folder /\ Storage \notin Folder \cup {Bin}
  /\ None # Asked /\ \A S \in SUBSET Item : S \notin {None, Asked}

Key == Folder \cup {Bin, Storage}

VARIABLES
  at, home,  \* the server: where each file is, and its folder
  page,      \* the folder or the Bin on the screen
  cache,     \* per key the listing held, and the fetch in flight or None
  act,       \* the calls under way
  calm,      \* keys on the screen, first shown with nothing under way, nothing lost since
  condemned  \* files the user confirmed to destroy, or pressed before the page caught up

pageVars == <<at, home, page, cache, act, calm, condemned>>

NoAct == [op |-> "none", item |-> None, to |-> None, key |-> None, st |-> "idle"]

ActRow ==
  [op : {"trash", "destroy", "restore", "move", "upload"}, item : Item,
   to : Folder, key : Folder \cup {Bin}, st : {"sent", "begun", "done", "refused"}]

Mounted == {page, Storage}

PageTypeOK ==
  /\ at \in [Item -> {"absent", "pending", "live", "bin", "gone"}]
  /\ home \in [Item -> Folder]
  /\ page \in Folder \cup {Bin}
  /\ cache \in [Key -> [data : {None} \cup SUBSET Item, fetch : {None, Asked} \cup SUBSET Item]]
  /\ act \in [Act -> ActRow \cup {NoAct}]
  /\ calm \in SUBSET Mounted
  /\ condemned \in SUBSET Item

Busy == {a \in Act : act[a] # NoAct}
BusyOn(i) == {a \in Busy : act[a].item = i}

\* What the server answers for a key.
Listing(k) ==
  {i \in Item : \/ k \in Folder /\ home[i] = k /\ at[i] \in {"pending", "live"}
                \/ k = Bin /\ at[i] = "bin"
                \/ k = Storage /\ at[i] \in {"live", "bin"}}

ReachStorage(c) == {Storage} \* mutant: the listing is not invalidated

\* The keys a call invalidates when it is over: the page's own folder and
\* the storage, or from the Bin everything.
Reach(c) == IF c.op \in {"destroy", "restore"} THEN Key ELSE {c.key, Storage}

Joins(k) == cache[k].data = None /\ cache[k].fetch # None

Invalidated(K) ==
  [k \in Key |->
     IF k \in K \cap Mounted /\ ~Joins(k) THEN [cache[k] EXCEPT !.fetch = Asked] ELSE cache[k]]

Shows(i) == cache[page].data # None /\ i \in cache[page].data

\* The queries of a tab just loaded at a page.
Fresh(p) == [k \in Key |-> [data |-> None, fetch |-> IF k \in {p, Storage} THEN Asked ELSE None]]

PageInit ==
  /\ at \in [Item -> {"absent", "live", "bin"}] /\ home = [i \in Item |-> Root]
  /\ page = Root /\ cache = Fresh(Root)
  /\ act = [a \in Act |-> NoAct]
  /\ calm = Mounted /\ condemned = {}

(***************************************************************************)
(* The queries.                                                            *)
(***************************************************************************)
Answer(k) ==
  /\ cache[k].fetch = Asked
  /\ cache' = [cache EXCEPT ![k].fetch = Listing(k)]
  /\ UNCHANGED <<at, home, page, act, calm, condemned>>

Land(k) ==
  /\ cache[k].fetch \notin {None, Asked}
  /\ cache' = [cache EXCEPT ![k] = [data |-> @.fetch, fetch |-> None]]
  /\ UNCHANGED <<at, home, page, act, calm, condemned>>

\* The fetch and its one retry fail; the listing held stays on the screen.
FailLoad(k) ==
  /\ cache[k].fetch # None
  /\ cache' = [cache EXCEPT ![k].fetch = None]
  /\ calm' = calm \ {k}
  /\ UNCHANGED <<at, home, page, act, condemned>>

\* A folder from its row or its crumb, the root or the Bin from the sidebar.
\* A sidebar mounted anew fetches the storage again when that is 30 s old, or
\* was never there.
Open(k) ==
  /\ k # page
  /\ k \in {Root, Bin} \/ (page = Root /\ cache[Root].data # None)
  /\ page' = k
  /\ \E old \in BOOLEAN :
       /\ old => Bin \in {k, page}
       /\ cache' = [q \in Key |->
            IF q \in {k} \cup (IF old THEN {Storage} ELSE {}) /\ cache[q].fetch = None
              THEN [cache[q] EXCEPT !.fetch = Asked] ELSE cache[q]]
  /\ calm' = (calm \cap {Storage}) \cup (IF Busy = {} /\ cache[k].fetch = None THEN {k} ELSE {})
  /\ UNCHANGED <<at, home, act, condemned>>

\* A listing nobody has shown for five minutes is dropped.
Evict(k) ==
  /\ k \notin Mounted /\ cache[k].data # None /\ cache[k].fetch = None
  /\ cache' = [cache EXCEPT ![k].data = None]
  /\ UNCHANGED <<at, home, page, act, calm, condemned>>

\* The tab is loaded again, with no call under way.  The Bin has a URL of
\* its own, the folder shown is forgotten.
ReloadTab ==
  /\ Busy = {}
  /\ page' = IF page = Bin THEN Bin ELSE Root
  /\ cache' = Fresh(page') /\ calm' = {page', Storage}
  /\ UNCHANGED <<at, home, act, condemned>>

(***************************************************************************)
(* The calls.                                                              *)
(***************************************************************************)
Begin(a, op, i, to) ==
  /\ act[a] = NoAct
  /\ act' = [act EXCEPT ![a] = [op |-> op, item |-> i, to |-> to, key |-> page, st |-> "sent"]]
  /\ calm' = {k \in calm : cache[k].data # None}
  /\ UNCHANGED <<at, home, page, cache>>

\* No button waits for an earlier press: a row can be pressed until it goes.
MoveToBin(a, i) ==
  /\ page \in Folder /\ Shows(i)
  /\ Begin(a, "trash", i, page)
  /\ condemned' = IF page \in calm /\ cache[page].fetch = None /\ BusyOn(i) = {}
                  THEN condemned ELSE condemned \cup {i}

Move(a, i, to) ==
  /\ page \in Folder /\ Shows(i) /\ to # page
  /\ Begin(a, "move", i, to) /\ UNCHANGED condemned

Upload(a, i) ==
  /\ page \in Folder /\ at[i] = "absent" /\ BusyOn(i) = {}
  /\ Begin(a, "upload", i, page) /\ UNCHANGED condemned

Restore(a, i) ==
  /\ page = Bin /\ Shows(i)
  /\ Begin(a, "restore", i, Root) /\ UNCHANGED condemned

\* Delete forever, confirmed in its dialog.
Destroy(a, i) ==
  /\ page = Bin /\ Shows(i)
  /\ Begin(a, "destroy", i, Root) /\ condemned' = condemned \cup {i}

\* What each call does to the file it is about; anything else is a 4xx.
\* Both buttons send the same DELETE.
Effect ==
  LET delete == [pending |-> "gone", live |-> "bin", bin |-> "gone"]
  IN  [trash   |-> delete, destroy |-> delete,
       restore |-> [bin |-> "live"],
       move    |-> [pending |-> "pending", live |-> "live"],
       upload  |-> [absent |-> "pending", pending |-> "live"]]

Accepts(c) == at[c.item] \in DOMAIN Effect[c.op]

Serve(a) ==
  LET c == act[a] IN
  /\ c.st \in {"sent", "begun"} /\ Accepts(c)
  /\ at' = [at EXCEPT ![c.item] = Effect[c.op][@]]
  /\ home' = IF c.op \in {"move", "upload"} /\ c.st = "sent" THEN [home EXCEPT ![c.item] = c.to] ELSE home
  /\ act' = [act EXCEPT ![a].st = IF c.op = "upload" /\ at[c.item] = "absent" THEN "begun" ELSE "done"]
  /\ UNCHANGED <<page, cache, calm, condemned>>

\* A row that is not there, not where the call needs it, or a name taken.
Refuse(a) ==
  LET c == act[a] IN
  /\ c.st \in {"sent", "begun"}
  /\ Accepts(c) => c.op \in {"restore", "move", "upload"}
  /\ act' = [act EXCEPT ![a].st = "refused"]
  /\ UNCHANGED <<at, home, page, cache, calm, condemned>>

Over(a) ==
  /\ act' = [act EXCEPT ![a] = NoAct]
  /\ condemned' = IF BusyOn(act[a].item) = {a} THEN condemned \ {act[a].item} ELSE condemned
  /\ UNCHANGED <<at, home, page>>

RefreshesDone(c) == c.st = "done" \* mutant: then() in place of finally()

\* invalidate() after a success, and after any end of an upload.
Refreshes(c) == c.st = "done" \/ c.op = "upload"

Reply(a) ==
  LET c == act[a] IN
  /\ c.st \in {"done", "refused"}
  /\ cache' = IF Refreshes(c) THEN Invalidated(Reach(c)) ELSE cache
  /\ Over(a) /\ UNCHANGED calm

\* The call or its answer is lost: to the page a failure.
Lose(a) ==
  /\ a \in Busy
  /\ cache' = IF act[a].op = "upload" THEN Invalidated(Reach(act[a])) ELSE cache
  /\ calm' = {}
  /\ Over(a)

\* The 800 ms timer that picks up the pending row.
Timer(a) ==
  /\ act[a].op = "upload"
  /\ cache' = Invalidated(Reach(act[a]))
  /\ UNCHANGED <<at, home, page, act, calm, condemned>>

PageNext ==
  \/ \E k \in Key : Answer(k) \/ Land(k) \/ FailLoad(k) \/ Evict(k)
  \/ \E k \in Folder \cup {Bin} : Open(k)
  \/ ReloadTab
  \/ \E a \in Act, i \in Item :
       \/ MoveToBin(a, i) \/ Upload(a, i) \/ Restore(a, i) \/ Destroy(a, i)
       \/ \E to \in Folder : Move(a, i, to)
  \/ \E a \in Act : Serve(a) \/ Refuse(a) \/ Reply(a) \/ Lose(a) \/ Timer(a)

PageSpec == PageInit /\ [][PageNext]_pageVars

(***************************************************************************)
(* Properties.                                                             *)
(***************************************************************************)

\* A page opened with nothing under way shows exactly what the server has
\* whenever it comes to rest, whatever was done on it in whatever overlap,
\* and so does the storage figure of the sidebar.
SettledPageIsCurrent ==
  \A k \in calm :
    cache[k].fetch = None /\ Busy = {} => cache[k].data = Listing(k)

\* A finished file is destroyed only after a Delete forever that was confirmed,
\* or a Move to Bin pressed on it before the page had caught up with an
\* earlier call: the server takes a second DELETE for the confirmed one.
NothingDestroyedUnasked ==
  [][\A i \in Item : at[i] = "bin" /\ at'[i] = "gone" => i \in condemned]_pageVars
=============================================================================
