---------------------------- MODULE ViewsProofs ----------------------------
(***************************************************************************)
(* Pages and Dialogs proved, for any files, folders, shares, links, number *)
(* of calls and of loads in flight.                                        *)
(*                                                                         *)
(* Pages: the page at rest is current, and nothing is destroyed unasked.   *)
(* Both rest on what holds of one file at a time on a calm key (CalmInv):  *)
(* what the page holds or is about to receive is right about the file, or  *)
(* the listing is still to be read, or a call on this file is under way    *)
(* that invalidates the key when it ends.                                  *)
(*                                                                         *)
(* Dialogs: a load that is not cancelled is of what one is looking at      *)
(* (BrowseInv).  Unless a call is done and about to load again, what the   *)
(* share dialog will end with is right: the newest load if it has not been *)
(* overtaken, and otherwise the list on the screen (ListInv).  A call that *)
(* changes the link is alone and known to the dialog (LinkInv).            *)
(***************************************************************************)
EXTENDS Pages, Dialogs, SequenceTheorems, TLAPS

-----------------------------------------------------------------------------
(* Pages.                                                                  *)

Held(k) == IF cache[k].fetch = None THEN cache[k].data ELSE cache[k].fetch

CurrentOn(k, i) ==
  \/ cache[k].fetch = Asked
  \/ i \in Held(k) <=> i \in Listing(k)
  \/ \E a \in Act : act[a] # NoAct /\ act[a].item = i /\ Refreshes(act[a])

CalmInv ==
  \A k \in calm :
    /\ cache[k].fetch = None => cache[k].data # None
    /\ \A a \in Act : act[a] # NoAct => cache[k].data # None /\ k \in Reach(act[a])
    /\ \A i \in Item : CurrentOn(k, i)

\* A trash nobody condemned finds the file where the user saw it.
PressInv ==
  \A i \in Item \ condemned : \A a \in Act : act[a] # NoAct /\ act[a].item = i =>
    /\ act[a].op # "destroy"
    /\ act[a].op = "trash" /\ act[a].st = "sent" =>
         /\ at[i] \in {"pending", "live"}
         /\ \A b \in Act : act[b] # NoAct /\ act[b].item = i /\ act[b].op = "trash" => b = a

OnlyUploadsBegin == \A a \in Act : act[a].st = "begun" => act[a].op = "upload"

PageInv == PageTypeOK /\ OnlyUploadsBegin /\ CalmInv /\ PressInv

(***************************************************************************)
(* What the calls do to a file.                                            *)
(***************************************************************************)
LEMMA Effects ==
  ASSUME NEW op \in {"trash", "destroy", "restore", "move", "upload"}, NEW p \in DOMAIN Effect[op]
  PROVE  /\ Effect[op][p] \in {"absent", "pending", "live", "bin", "gone"}
         /\ p = "bin" /\ Effect[op][p] = "gone" => op \in {"trash", "destroy"}
         /\ p \in {"pending", "live"} /\ Effect[op][p] \notin {"pending", "live"} => op \in {"trash", "destroy"}
         /\ p # "absent" => Effect[op][p] # "absent"
<1>1. CASE op = "trash"   BY <1>1 DEF Effect
<1>2. CASE op = "destroy" BY <1>2 DEF Effect
<1>3. CASE op = "restore" BY <1>3 DEF Effect
<1>4. CASE op = "move"    BY <1>4 DEF Effect
<1>5. CASE op = "upload"  BY <1>5 DEF Effect
<1> QED BY <1>1, <1>2, <1>3, <1>4, <1>5

LEMMA ListingIsASet == ASSUME NEW k PROVE Listing(k) \in SUBSET Item
BY DEF Listing

LEMMA InvalidatedType ==
  ASSUME PageTypeOK, NEW K
  PROVE  Invalidated(K) \in [Key -> [data : {None} \cup SUBSET Item, fetch : {None, Asked} \cup SUBSET Item]]
BY DEF Invalidated, PageTypeOK, Mounted

(***************************************************************************)
(* Types.                                                                  *)
(***************************************************************************)
LEMMA BeginType ==
  ASSUME PageTypeOK, NEW a \in Act, NEW i \in Item, NEW to \in Folder,
         NEW op \in {"trash", "destroy", "restore", "move", "upload"}, Begin(a, op, i, to),
         condemned' \in SUBSET Item
  PROVE  PageTypeOK'
BY DEF Begin, PageTypeOK, ActRow, Mounted

LEMMA PageTypeStep == ASSUME PageTypeOK, [PageNext]_pageVars PROVE PageTypeOK'
<1>0. CASE UNCHANGED pageVars BY <1>0 DEF PageTypeOK, pageVars, Mounted
<1>1. ASSUME NEW k \in Key, Answer(k) PROVE PageTypeOK'
  BY <1>1, ListingIsASet DEF Answer, PageTypeOK, Mounted
<1>2. ASSUME NEW k \in Key, Land(k) PROVE PageTypeOK'
  BY <1>2 DEF Land, PageTypeOK, Mounted
<1>3. ASSUME NEW k \in Key, FailLoad(k) PROVE PageTypeOK'
  BY <1>3 DEF FailLoad, PageTypeOK, Mounted
<1>4. ASSUME NEW k \in Key, Evict(k) PROVE PageTypeOK'
  BY <1>4 DEF Evict, PageTypeOK, Mounted
<1>5. ASSUME NEW k \in Folder \cup {Bin}, Open(k) PROVE PageTypeOK'
  BY <1>5 DEF Open, PageTypeOK, Mounted
<1>6. CASE ReloadTab
  BY <1>6, PageAssumption DEF ReloadTab, PageTypeOK, Mounted, Fresh, Key
<1>7. ASSUME NEW a \in Act, NEW i \in Item, MoveToBin(a, i) PROVE PageTypeOK'
  <2>1. page \in Folder /\ condemned' \in SUBSET Item BY <1>7 DEF MoveToBin, PageTypeOK
  <2> QED BY <1>7, <2>1, BeginType DEF MoveToBin
<1>8. ASSUME NEW a \in Act, NEW i \in Item, Upload(a, i) PROVE PageTypeOK'
  <2>1. page \in Folder /\ condemned' \in SUBSET Item BY <1>8 DEF Upload, PageTypeOK
  <2> QED BY <1>8, <2>1, BeginType DEF Upload
<1>9. ASSUME NEW a \in Act, NEW i \in Item, Restore(a, i) PROVE PageTypeOK'
  <2>1. Root \in Folder /\ condemned' \in SUBSET Item BY <1>9, PageAssumption DEF Restore, PageTypeOK
  <2> QED BY <1>9, <2>1, BeginType DEF Restore
<1>10. ASSUME NEW a \in Act, NEW i \in Item, Destroy(a, i) PROVE PageTypeOK'
  <2>1. Root \in Folder /\ condemned' \in SUBSET Item BY <1>10, PageAssumption DEF Destroy, PageTypeOK
  <2> QED BY <1>10, <2>1, BeginType DEF Destroy
<1>11. ASSUME NEW a \in Act, NEW i \in Item, NEW to \in Folder, Move(a, i, to) PROVE PageTypeOK'
  <2>1. condemned' \in SUBSET Item BY <1>11 DEF Move, PageTypeOK
  <2> QED BY <1>11, <2>1, BeginType DEF Move
<1>12. ASSUME NEW a \in Act, Serve(a) PROVE PageTypeOK'
  <2>1. act[a] \in ActRow BY <1>12 DEF Serve, PageTypeOK, NoAct
  <2>2. Effect[act[a].op][at[act[a].item]] \in {"absent", "pending", "live", "bin", "gone"}
    BY <1>12, <2>1, Effects DEF Serve, Accepts, ActRow
  <2>3. at' \in [Item -> {"absent", "pending", "live", "bin", "gone"}]
    BY <1>12, <2>1, <2>2 DEF Serve, PageTypeOK, ActRow
  <2>4. home' \in [Item -> Folder] BY <1>12, <2>1 DEF Serve, PageTypeOK, ActRow
  <2>5. act' \in [Act -> ActRow \cup {NoAct}] BY <1>12, <2>1 DEF Serve, PageTypeOK, ActRow
  <2> QED BY <1>12, <2>3, <2>4, <2>5 DEF Serve, PageTypeOK, Mounted
<1>13. ASSUME NEW a \in Act, Refuse(a) PROVE PageTypeOK'
  <2>1. act[a] \in ActRow BY <1>13 DEF Refuse, PageTypeOK, NoAct
  <2>2. act' \in [Act -> ActRow \cup {NoAct}] BY <1>13, <2>1 DEF Refuse, PageTypeOK, ActRow
  <2> QED BY <1>13, <2>2 DEF Refuse, PageTypeOK, Mounted
<1>14. ASSUME NEW a \in Act, Reply(a) PROVE PageTypeOK'
  BY <1>14, InvalidatedType DEF Reply, Over, PageTypeOK, Mounted
<1>15. ASSUME NEW a \in Act, Lose(a) PROVE PageTypeOK'
  BY <1>15, InvalidatedType DEF Lose, Over, PageTypeOK, Mounted
<1>16. ASSUME NEW a \in Act, Timer(a) PROVE PageTypeOK'
  BY <1>16, InvalidatedType DEF Timer, PageTypeOK, Mounted
<1> QED BY <1>0, <1>1, <1>2, <1>3, <1>4, <1>5, <1>6, <1>7, <1>8, <1>9, <1>10, <1>11, <1>12,
           <1>13, <1>14, <1>15, <1>16 DEF PageNext

LEMMA BegunStep == ASSUME PageTypeOK, OnlyUploadsBegin, [PageNext]_pageVars PROVE OnlyUploadsBegin'
<1>0. CASE UNCHANGED act BY <1>0 DEF OnlyUploadsBegin
<1>1. ASSUME NEW a \in Act, NEW i \in Item, NEW to,
             NEW op \in {"trash", "destroy", "restore", "move", "upload"}, Begin(a, op, i, to)
      PROVE  OnlyUploadsBegin'
  BY <1>1 DEF OnlyUploadsBegin, Begin, PageTypeOK
<1>2. ASSUME NEW a \in Act, Serve(a) \/ Refuse(a) PROVE OnlyUploadsBegin'
  <2>1. act[a] \in ActRow BY <1>2 DEF Serve, Refuse, PageTypeOK, NoAct
  <2> QED BY <1>2, <2>1 DEF OnlyUploadsBegin, Serve, Refuse, PageTypeOK, ActRow
<1>3. ASSUME NEW a \in Act, Over(a) PROVE OnlyUploadsBegin'
  BY <1>3 DEF OnlyUploadsBegin, Over, PageTypeOK, NoAct
<1> QED BY <1>0, <1>1, <1>2, <1>3
     DEF PageNext, pageVars, Answer, Land, FailLoad, Evict, Open, ReloadTab, MoveToBin, Upload, Restore,
         Destroy, Move, Reply, Lose, Timer

(***************************************************************************)
(* Calm keys.                                                              *)
(***************************************************************************)
LEMMA CalmBegin ==
  ASSUME PageTypeOK, CalmInv, NEW a \in Act, NEW i \in Item, NEW to \in Folder,
         NEW op \in {"trash", "destroy", "restore", "move", "upload"}, Begin(a, op, i, to)
  PROVE  CalmInv'
<1> SUFFICES ASSUME NEW k \in calm'
             PROVE  /\ (cache[k].fetch = None => cache[k].data # None)'
                    /\ \A b \in Act : (act[b] # NoAct => cache[k].data # None /\ k \in Reach(act[b]))'
                    /\ \A j \in Item : CurrentOn(k, j)'
  BY DEF CalmInv
<1>1. k \in calm /\ cache[k].data # None /\ cache' = cache /\ k \in Key
  BY DEF Begin, PageTypeOK, Mounted, Key
<1>2. act'[a] = [op |-> op, item |-> i, to |-> to, key |-> page, st |-> "sent"]
      /\ \A b \in Act \ {a} : act'[b] = act[b]
  BY DEF Begin, PageTypeOK
<1>3. k \in Reach(act'[a]) BY <1>1, <1>2 DEF Reach, PageTypeOK, Mounted
<1>4. \A b \in Act : act'[b] # NoAct => k \in Reach(act'[b])
  BY <1>1, <1>2, <1>3 DEF CalmInv
<1>5. ASSUME NEW j \in Item PROVE CurrentOn(k, j)'
  <2>1. CurrentOn(k, j) BY <1>1 DEF CalmInv
  <2>2. Held(k)' = Held(k) /\ Listing(k)' = Listing(k) BY <1>1 DEF Held, Listing, Begin
  <2>3. \A b \in Act : act[b] # NoAct => act'[b] = act[b] BY <1>2 DEF Begin
  <2> QED BY <2>1, <2>2, <2>3, <1>1 DEF CurrentOn, Refreshes
<1>6. (cache[k].fetch = None => cache[k].data # None)' BY <1>1
<1>7. \A b \in Act : (act[b] # NoAct => cache[k].data # None /\ k \in Reach(act[b]))'
  BY <1>1, <1>4 DEF Reach
<1> QED BY <1>5, <1>6, <1>7

\* A step of the queries leaves a key current that it does not write.
LEMMA CalmKept ==
  ASSUME CalmInv, NEW k \in calm, cache'[k] = cache[k], UNCHANGED <<at, home, act>>
  PROVE  /\ (cache[k].fetch = None => cache[k].data # None)'
         /\ \A a \in Act : (act[a] # NoAct => cache[k].data # None /\ k \in Reach(act[a]))'
         /\ \A i \in Item : CurrentOn(k, i)'
<1>1. Held(k)' = Held(k) /\ Listing(k)' = Listing(k) BY DEF Held, Listing
<1> QED BY <1>1 DEF CalmInv, CurrentOn, Refreshes, Reach

\* An invalidation of every calm key leaves each of them to be read anew.
LEMMA CalmInvalidated ==
  ASSUME PageTypeOK, CalmInv, NEW a \in Act, act[a] # NoAct, cache' = Invalidated(Reach(act[a])),
         calm' \in SUBSET calm, \A b \in Act : act'[b] \in {act[b], NoAct}
  PROVE  CalmInv'
<1>1. ASSUME NEW k \in calm
      PROVE  cache'[k].fetch = Asked /\ cache'[k].data = cache[k].data
  <2>1. k \in Key /\ k \in Mounted /\ k \in Reach(act[a]) /\ cache[k].data # None
    BY DEF CalmInv, PageTypeOK, Mounted, Key
  <2> QED BY <2>1 DEF Invalidated, Joins, PageTypeOK
<1>2. \A k \in calm : \A b \in Act : act[b] # NoAct => cache[k].data # None /\ k \in Reach(act[b])
  BY DEF CalmInv
<1>3. ASSUME NEW k \in calm', NEW b \in Act, act'[b] # NoAct PROVE (cache[k].data # None /\ k \in Reach(act[b]))'
  <2>1. act'[b] = act[b] /\ k \in calm BY <1>3
  <2> QED BY <2>1, <1>1, <1>2, <1>3 DEF Reach
<1> QED BY <1>1, <1>3, PageAssumption DEF CalmInv, CurrentOn

LEMMA CalmStep ==
  ASSUME PageTypeOK, OnlyUploadsBegin, CalmInv, [PageNext]_pageVars, PageTypeOK'
  PROVE  CalmInv'
<1>0. CASE UNCHANGED pageVars
  BY <1>0, CalmKept DEF pageVars, CalmInv
<1>1. ASSUME NEW q \in Key, Answer(q) PROVE CalmInv'
  <2> SUFFICES ASSUME NEW k \in calm, k = q
      PROVE  /\ (cache[k].fetch = None => cache[k].data # None)'
             /\ \A a \in Act : (act[a] # NoAct => cache[k].data # None /\ k \in Reach(act[a]))'
             /\ \A i \in Item : CurrentOn(k, i)'
    <3>1. \A k \in calm : k # q => cache'[k] = cache[k] BY <1>1 DEF Answer, PageTypeOK, Mounted, Key
    <3> QED BY <3>1, <1>1, CalmKept DEF Answer, CalmInv
  <2>1. cache'[k].fetch = Listing(k) /\ cache'[k].data = cache[k].data
    BY <1>1 DEF Answer, PageTypeOK
  <2>2. Listing(k) # None /\ Listing(k) # Asked BY ListingIsASet, PageAssumption
  <2>3. Listing(k)' = Listing(k) BY <1>1 DEF Answer, Listing
  <2> QED BY <1>1, <2>1, <2>2, <2>3 DEF Answer, CalmInv, CurrentOn, Held, Reach
<1>2. ASSUME NEW q \in Key, Land(q) PROVE CalmInv'
  <2> SUFFICES ASSUME NEW k \in calm, k = q
      PROVE  /\ (cache[k].fetch = None => cache[k].data # None)'
             /\ \A a \in Act : (act[a] # NoAct => cache[k].data # None /\ k \in Reach(act[a]))'
             /\ \A i \in Item : CurrentOn(k, i)'
    <3>1. \A k \in calm : k # q => cache'[k] = cache[k] BY <1>2 DEF Land, PageTypeOK, Mounted, Key
    <3> QED BY <3>1, <1>2, CalmKept DEF Land, CalmInv
  <2>1. cache'[k].fetch = None /\ cache'[k].data = cache[k].fetch /\ cache[k].fetch \notin {None, Asked}
    BY <1>2 DEF Land, PageTypeOK
  <2>2. Held(k)' = Held(k) BY <2>1 DEF Held
  <2>3. Listing(k)' = Listing(k) BY <1>2 DEF Land, Listing
  <2> QED BY <1>2, <2>1, <2>2, <2>3 DEF Land, CalmInv, CurrentOn, Refreshes, Reach
<1>3. ASSUME NEW q \in Key, FailLoad(q) PROVE CalmInv'
  <2>1. \A k \in calm' : k \in calm /\ cache'[k] = cache[k]
    BY <1>3 DEF FailLoad, PageTypeOK, Mounted, Key
  <2> QED BY <2>1, <1>3, CalmKept DEF FailLoad, CalmInv
<1>4. ASSUME NEW q \in Key, Evict(q) PROVE CalmInv'
  <2>1. \A k \in calm' : k \in calm /\ cache'[k] = cache[k]
    BY <1>4 DEF Evict, PageTypeOK, Mounted, Key
  <2> QED BY <2>1, <1>4, CalmKept DEF Evict, CalmInv
<1>5. ASSUME NEW q \in Folder \cup {Bin}, Open(q) PROVE CalmInv'
  <2> SUFFICES ASSUME NEW k \in calm'
      PROVE  /\ (cache[k].fetch = None => cache[k].data # None)'
             /\ \A a \in Act : (act[a] # NoAct => cache[k].data # None /\ k \in Reach(act[a]))'
             /\ \A i \in Item : CurrentOn(k, i)'
    BY DEF CalmInv
  <2>1. CASE k = q /\ Busy = {} /\ cache[q].fetch = None
    <3>1. cache'[k].fetch = Asked BY <1>5, <2>1 DEF Open, PageTypeOK, Key
    <3>2. \A a \in Act : act'[a] = NoAct BY <1>5, <2>1 DEF Open, Busy
    <3> QED BY <3>1, <3>2, PageAssumption DEF CurrentOn
  <2>2. CASE k = Storage /\ Storage \in calm
    <3>1. CASE cache'[k] = cache[k] BY <1>5, <2>2, <3>1, CalmKept DEF Open
    <3>2. CASE cache'[k] # cache[k]
      <4>1. cache'[k].fetch = Asked /\ cache'[k].data = cache[k].data
        BY <1>5, <2>2, <3>2 DEF Open, PageTypeOK, Key
      <4> QED BY <4>1, <1>5, <2>2, PageAssumption DEF Open, CalmInv, CurrentOn, Reach
    <3> QED BY <3>1, <3>2
  <2> QED BY <1>5, <2>1, <2>2 DEF Open
<1>6. CASE ReloadTab
  <2>1. \A k \in calm' : cache'[k].fetch = Asked
    BY <1>6, PageAssumption DEF ReloadTab, Fresh, Key
  <2>2. \A a \in Act : act'[a] = NoAct BY <1>6 DEF ReloadTab, Busy
  <2> QED BY <2>1, <2>2, PageAssumption DEF CalmInv, CurrentOn
<1>7. ASSUME NEW a \in Act, NEW i \in Item, MoveToBin(a, i) \/ Upload(a, i) \/ Restore(a, i) \/ Destroy(a, i)
      PROVE  CalmInv'
  BY <1>7, CalmBegin, PageAssumption DEF MoveToBin, Upload, Restore, Destroy
<1>8. ASSUME NEW a \in Act, NEW i \in Item, NEW to \in Folder, Move(a, i, to) PROVE CalmInv'
  BY <1>8, CalmBegin DEF Move
<1>9. ASSUME NEW a \in Act, Serve(a) \/ Refuse(a) PROVE CalmInv'
  <2>1. act[a] \in ActRow /\ act[a] # NoAct BY <1>9 DEF Serve, Refuse, PageTypeOK, NoAct
  <2>2. /\ act'[a].op = act[a].op /\ act'[a].item = act[a].item /\ act'[a].key = act[a].key
        /\ act'[a] # NoAct
        /\ \A b \in Act \ {a} : act'[b] = act[b]
        /\ act'[a].st # "done" => act[a].op = "upload" \/ Refuse(a)
    BY <1>9, <2>1 DEF Serve, Refuse, PageTypeOK, ActRow, NoAct
  <2>3. cache' = cache /\ calm' = calm BY <1>9 DEF Serve, Refuse
  <2>4. \A k : \A b \in Act : k \in Reach(act'[b]) <=> k \in Reach(act[b])
    BY <2>2 DEF Reach
  <2>5. \A b \in Act : act'[b] # NoAct => act[b] # NoAct BY <2>1, <2>2
  <2>6. ASSUME NEW k \in calm, NEW i \in Item PROVE CurrentOn(k, i)'
    <3>0. CurrentOn(k, i) BY DEF CalmInv
    <3>1. CASE \E b \in Act : act[b] # NoAct /\ act[b].item = i /\ Refreshes(act[b])
      <4>1. PICK b \in Act : act[b] # NoAct /\ act[b].item = i /\ Refreshes(act[b]) BY <3>1
      <4>2. CASE b # a BY <4>1, <4>2, <2>2 DEF CurrentOn, Refreshes
      <4>3. CASE b = a
        <5>1. act[a].st \in {"sent", "begun"} BY <1>9 DEF Serve, Refuse
        <5>2. act[a].op = "upload" BY <4>1, <4>3, <5>1 DEF Refreshes
        <5> QED BY <4>1, <4>3, <5>2, <2>2 DEF CurrentOn, Refreshes
      <4> QED BY <4>2, <4>3
    <3>2. CASE cache[k].fetch = Asked BY <3>2, <2>3 DEF CurrentOn
    <3>3. CASE i \in Held(k) <=> i \in Listing(k)
      <4>1. Held(k)' = Held(k) BY <2>3 DEF Held
      <4>2. CASE i # act[a].item \/ Refuse(a)
        <5>1. at'[i] = at[i] /\ home'[i] = home[i]
          BY <1>9, <4>2, <2>1 DEF Serve, Refuse, PageTypeOK, ActRow
        <5>2. i \in Listing(k)' <=> i \in Listing(k) BY <5>1 DEF Listing
        <5> QED BY <3>3, <4>1, <5>2 DEF CurrentOn
      <4>3. CASE i = act[a].item /\ ~Refuse(a)
        BY <4>3, <2>2 DEF CurrentOn, Refreshes
      <4> QED BY <4>2, <4>3
    <3> QED BY <3>0, <3>1, <3>2, <3>3 DEF CurrentOn
  <2>7. ASSUME NEW k \in calm, NEW b \in Act, act'[b] # NoAct PROVE cache'[k].data # None /\ k \in Reach(act'[b])
    BY <2>3, <2>4, <2>5, <2>7 DEF CalmInv
  <2> QED BY <2>3, <2>6, <2>7 DEF CalmInv, Reach
<1>10. ASSUME NEW a \in Act, Reply(a) PROVE CalmInv'
  <2>1. act[a] # NoAct /\ \A b \in Act : b # a => act'[b] = act[b]
    BY <1>10 DEF Reply, Over, NoAct, PageTypeOK
  <2>2. act'[a] = NoAct /\ calm' = calm BY <1>10 DEF Reply, Over, PageTypeOK
  <2>3. CASE Refreshes(act[a])
    BY <1>10, <2>1, <2>2, <2>3, CalmInvalidated DEF Reply
  <2>4. CASE ~Refreshes(act[a])
    <3>1. cache' = cache /\ at' = at /\ home' = home BY <1>10, <2>4 DEF Reply, Over
    <3>2. ASSUME NEW k \in calm, NEW i \in Item PROVE CurrentOn(k, i)'
      <4>1. CurrentOn(k, i) BY DEF CalmInv
      <4>2. Held(k)' = Held(k) /\ Listing(k)' = Listing(k) BY <3>1 DEF Held, Listing
      <4>3. \A b \in Act : act[b] # NoAct /\ act[b].item = i /\ Refreshes(act[b]) =>
              act'[b] = act[b]
        BY <2>1, <2>4
      <4> QED BY <4>1, <4>2, <4>3, <3>1 DEF CurrentOn, Refreshes
    <3>3. ASSUME NEW k \in calm, NEW b \in Act, act'[b] # NoAct PROVE cache'[k].data # None /\ k \in Reach(act'[b])
      BY <2>1, <2>2, <3>1, <3>3 DEF CalmInv
    <3> QED BY <2>2, <3>1, <3>2, <3>3 DEF CalmInv, Reach
  <2> QED BY <2>3, <2>4
<1>11. ASSUME NEW a \in Act, Lose(a) PROVE CalmInv'
  BY <1>11 DEF Lose, CalmInv
<1>12. ASSUME NEW a \in Act, Timer(a) PROVE CalmInv'
  BY <1>12, CalmInvalidated DEF Timer, NoAct
<1> QED BY <1>0, <1>1, <1>2, <1>3, <1>4, <1>5, <1>6, <1>7, <1>8, <1>9, <1>10, <1>11, <1>12
     DEF PageNext

(***************************************************************************)
(* Presses.                                                                *)
(***************************************************************************)
LEMMA PressBegin ==
  ASSUME PageTypeOK, PressInv, NEW a \in Act, NEW i \in Item, NEW to,
         NEW op \in {"trash", "destroy", "restore", "move", "upload"}, Begin(a, op, i, to),
         condemned \subseteq condemned',
         op = "destroy" => i \in condemned',
         op = "trash" /\ i \notin condemned' => BusyOn(i) = {} /\ at[i] \in {"pending", "live"}
  PROVE  PressInv'
<1> SUFFICES ASSUME NEW j \in Item, j \notin condemned', NEW b \in Act, act'[b] # NoAct, act'[b].item = j
             PROVE  /\ act'[b].op # "destroy"
                    /\ act'[b].op = "trash" /\ act'[b].st = "sent" =>
                         /\ at'[j] \in {"pending", "live"}
                         /\ \A c \in Act : act'[c] # NoAct /\ act'[c].item = j /\ act'[c].op = "trash" => c = b
  BY DEF PressInv
<1>1. act'[a] = [op |-> op, item |-> i, to |-> to, key |-> page, st |-> "sent"]
      /\ (\A c \in Act \ {a} : act'[c] = act[c]) /\ at' = at /\ j \notin condemned /\ act[a] = NoAct
  BY DEF Begin, PageTypeOK
<1>2. CASE b = a
  <2>1. \A c \in Act : act[c] # NoAct => act[c].item # i \/ op # "trash"
    BY <1>1, <1>2 DEF BusyOn, Busy
  <2> QED BY <1>1, <1>2, <2>1
<1>3. CASE b # a
  <2>1. act[b] # NoAct /\ act[b].item = j /\ act'[b] = act[b] BY <1>1, <1>3
  <2>2. op = "trash" => i # j BY <1>1, <2>1 DEF BusyOn, Busy
  <2> QED BY <1>1, <2>1, <2>2 DEF PressInv
<1> QED BY <1>2, <1>3

LEMMA PressStep ==
  ASSUME PageTypeOK, OnlyUploadsBegin, CalmInv, PressInv, [PageNext]_pageVars
  PROVE  PressInv'
<1>0. CASE UNCHANGED <<at, act, condemned>> BY <1>0 DEF PressInv
<1>1. ASSUME NEW a \in Act, NEW i \in Item, MoveToBin(a, i) PROVE PressInv'
  <2>1. condemned \subseteq condemned' BY <1>1 DEF MoveToBin
  <2>2. ASSUME i \notin condemned' PROVE BusyOn(i) = {} /\ at[i] \in {"pending", "live"}
    <3>1. page \in calm /\ cache[page].fetch = None /\ BusyOn(i) = {} /\ i \in cache[page].data
          /\ page \in Folder
      BY <1>1, <2>2 DEF MoveToBin, Shows
    <3>2. CurrentOn(page, i) BY <3>1 DEF CalmInv
    <3>3. i \in Listing(page)
      BY <3>1, <3>2, PageAssumption DEF CurrentOn, Held, BusyOn, Busy
    <3> QED BY <3>1, <3>3, PageAssumption DEF Listing
  <2> QED BY <1>1, <2>1, <2>2, PressBegin DEF MoveToBin
<1>2. ASSUME NEW a \in Act, NEW i \in Item, Upload(a, i) \/ Restore(a, i) \/ Destroy(a, i) PROVE PressInv'
  BY <1>2, PressBegin DEF Upload, Restore, Destroy
<1>3. ASSUME NEW a \in Act, NEW i \in Item, NEW to \in Folder, Move(a, i, to) PROVE PressInv'
  BY <1>3, PressBegin DEF Move
<1>4. ASSUME NEW a \in Act, Serve(a) PROVE PressInv'
  <2>1. act[a] \in ActRow /\ act[a] # NoAct /\ act[a].st \in {"sent", "begun"}
    BY <1>4 DEF Serve, PageTypeOK, NoAct
  <2>2. /\ act'[a].op = act[a].op /\ act'[a].item = act[a].item
        /\ act'[a].st \in {"begun", "done"}
        /\ \A b \in Act \ {a} : act'[b] = act[b]
    BY <1>4, <2>1 DEF Serve, PageTypeOK, ActRow
  <2> SUFFICES ASSUME NEW i \in Item \ condemned, NEW b \in Act, act'[b] # NoAct, act'[b].item = i
               PROVE  /\ act'[b].op # "destroy"
                      /\ act'[b].op = "trash" /\ act'[b].st = "sent" =>
                           /\ at'[i] \in {"pending", "live"}
                           /\ \A c \in Act : act'[c] # NoAct /\ act'[c].item = i /\ act'[c].op = "trash" => c = b
    BY <1>4 DEF PressInv, Serve
  <2>3. act[b] # NoAct /\ act[b].item = i /\ act'[b].op = act[b].op BY <2>1, <2>2
  <2>4. act[b].op # "destroy" BY <2>3 DEF PressInv
  <2>5. ASSUME act'[b].op = "trash", act'[b].st = "sent"
        PROVE  /\ at'[i] \in {"pending", "live"}
               /\ \A c \in Act : act'[c] # NoAct /\ act'[c].item = i /\ act'[c].op = "trash" => c = b
    <3>1. b # a /\ act[b].st = "sent" /\ act[b].op = "trash" BY <2>2, <2>5
    <3>2. at[i] \in {"pending", "live"} BY <2>3, <3>1 DEF PressInv
    <3>3. \A c \in Act : act[c] # NoAct /\ act[c].item = i /\ act[c].op = "trash" => c = b
      BY <2>3, <3>1 DEF PressInv
    <3>4. \A c \in Act : act'[c] # NoAct => act[c] # NoAct /\ act'[c].op = act[c].op /\ act'[c].item = act[c].item
      BY <2>1, <2>2
    <3>5. at'[i] \in {"pending", "live"}
      <4>1. CASE act[a].item # i
        BY <1>4, <4>1, <2>1, <3>2 DEF Serve, PageTypeOK, ActRow
      <4>2. CASE act[a].item = i
        <5>1. act[a].op \notin {"trash", "destroy"}
          BY <2>1, <3>1, <3>3, <4>2 DEF PressInv
        <5>2. at[i] \in DOMAIN Effect[act[a].op] /\ at'[i] = Effect[act[a].op][at[i]]
          BY <1>4, <4>2 DEF Serve, Accepts, PageTypeOK
        <5> QED BY <5>1, <5>2, <3>2, <2>1, Effects DEF ActRow
      <4> QED BY <4>1, <4>2
    <3> QED BY <3>3, <3>4, <3>5
  <2> QED BY <2>3, <2>4, <2>5
<1>5. ASSUME NEW a \in Act, Refuse(a) PROVE PressInv'
  <2>1. act[a] \in ActRow /\ act[a] # NoAct BY <1>5 DEF Refuse, PageTypeOK, NoAct
  <2>2. /\ act'[a].op = act[a].op /\ act'[a].item = act[a].item
        /\ act'[a].st = "refused"
        /\ \A b \in Act \ {a} : act'[b] = act[b]
    BY <1>5, <2>1 DEF Refuse, PageTypeOK, ActRow
  <2>3. at' = at /\ condemned' = condemned BY <1>5 DEF Refuse
  <2> SUFFICES ASSUME NEW i \in Item \ condemned, NEW b \in Act, act'[b] # NoAct, act'[b].item = i
               PROVE  /\ act'[b].op # "destroy"
                      /\ act'[b].op = "trash" /\ act'[b].st = "sent" =>
                           /\ at[i] \in {"pending", "live"}
                           /\ \A c \in Act : act'[c] # NoAct /\ act'[c].item = i /\ act'[c].op = "trash" => c = b
    BY <2>3 DEF PressInv
  <2>4. act[b] # NoAct /\ act[b].item = i /\ act'[b].op = act[b].op BY <2>1, <2>2
  <2>5. act'[b].st = "sent" => act[b].st = "sent" BY <2>2
  <2>6. \A c \in Act : act'[c] # NoAct => act[c] # NoAct /\ act'[c].op = act[c].op /\ act'[c].item = act[c].item
    BY <2>1, <2>2
  <2> QED BY <2>4, <2>5, <2>6 DEF PressInv
<1>6. ASSUME NEW a \in Act, act[a] # NoAct, Over(a) PROVE PressInv'
  <2>1. act' = [act EXCEPT ![a] = NoAct] /\ at' = at BY <1>6 DEF Over
  <2>2. \A b \in Act : act'[b] # NoAct => b # a /\ act'[b] = act[b] BY <2>1 DEF PageTypeOK
  <2>3. ASSUME NEW i \in Item \ condemned', NEW b \in Act, act'[b] # NoAct, act'[b].item = i
        PROVE  i \notin condemned
    <3>1. b \in BusyOn(i) /\ b # a BY <2>2, <2>3 DEF BusyOn, Busy
    <3> QED BY <1>6, <3>1 DEF Over
  <2> SUFFICES ASSUME NEW i \in Item \ condemned', NEW b \in Act, act'[b] # NoAct, act'[b].item = i
               PROVE  /\ act'[b].op # "destroy"
                      /\ act'[b].op = "trash" /\ act'[b].st = "sent" =>
                           /\ at[i] \in {"pending", "live"}
                           /\ \A c \in Act : act'[c] # NoAct /\ act'[c].item = i /\ act'[c].op = "trash" => c = b
    BY <2>1 DEF PressInv
  <2>4. i \notin condemned BY <2>3
  <2>5. act'[b] = act[b] BY <2>2
  <2>6. \A c \in Act : act'[c] # NoAct => act'[c] = act[c] BY <2>2
  <2> QED BY <2>4, <2>5, <2>6 DEF PressInv
<1>7. ASSUME NEW a \in Act, Reply(a) \/ Lose(a) PROVE PressInv'
  <2>1. act[a] # NoAct /\ Over(a) BY <1>7 DEF Reply, Lose, Busy, NoAct
  <2> QED BY <2>1, <1>6
<1> QED BY <1>0, <1>1, <1>2, <1>3, <1>4, <1>5, <1>7
     DEF PageNext, pageVars, Answer, Land, FailLoad, Evict, Open, ReloadTab, Timer

(***************************************************************************)
(* The theorems.                                                           *)
(***************************************************************************)
LEMMA PageInitInv == PageInit => PageInv
<1> SUFFICES ASSUME PageInit PROVE PageInv OBVIOUS
<1>1. PageTypeOK
  BY PageAssumption DEF PageInit, PageTypeOK, Fresh, Key, Mounted
<1>2. OnlyUploadsBegin /\ PressInv BY DEF PageInit, OnlyUploadsBegin, PressInv, NoAct
<1>3. CalmInv
  <2>1. \A k \in calm : cache[k].fetch = Asked
    BY PageAssumption DEF PageInit, Fresh, Key, Mounted
  <2> QED BY <2>1, PageAssumption DEF PageInit, CalmInv, CurrentOn
<1> QED BY <1>1, <1>2, <1>3 DEF PageInv

THEOREM PageInvariant == PageSpec => []PageInv
<1>1. PageInv /\ [PageNext]_pageVars => PageInv'
  BY PageTypeStep, BegunStep, CalmStep, PressStep DEF PageInv
<1> QED BY <1>1, PageInitInv, PTL DEF PageSpec

\* SettledPageIsCurrent, for any files, folders and calls: with no call under
\* way, what CalmInv says file by file is the listing.
THEOREM AlwaysSettledPageIsCurrent == PageSpec => []SettledPageIsCurrent
<1>1. PageInv => SettledPageIsCurrent
  <2> SUFFICES ASSUME PageInv, NEW k \in calm, cache[k].fetch = None, Busy = {}
               PROVE  cache[k].data = Listing(k)
    BY DEF SettledPageIsCurrent
  <2>1. \A i \in Item : i \in cache[k].data <=> i \in Listing(k)
    BY PageAssumption DEF PageInv, CalmInv, CurrentOn, Held, Busy
  <2>2. cache[k].data \in SUBSET Item
    BY DEF PageInv, PageTypeOK, CalmInv, Mounted, Key
  <2> QED BY <2>1, <2>2, ListingIsASet
<1> QED BY <1>1, PageInvariant, PTL

\* NothingDestroyedUnasked: only a DELETE destroys, and one nobody condemned
\* finds the file still in its folder.
THEOREM NeverDestroyedUnasked == PageSpec => NothingDestroyedUnasked
<1>1. ASSUME PageInv, [PageNext]_pageVars, NEW i \in Item, at[i] = "bin", at'[i] = "gone"
      PROVE  i \in condemned
  <2>1. PICK a \in Act : Serve(a)
    BY <1>1 DEF PageNext, pageVars, Answer, Land, FailLoad, Evict, Open, ReloadTab, MoveToBin, Upload,
                Restore, Destroy, Move, Begin, Refuse, Reply, Lose, Over, Timer
  <2>2. act[a] \in ActRow /\ act[a] # NoAct
    BY <1>1, <2>1 DEF PageInv, PageTypeOK, Serve, NoAct
  <2>3. act[a].item = i BY <1>1, <2>1, <2>2 DEF Serve, PageInv, PageTypeOK, ActRow
  <2>4. "bin" \in DOMAIN Effect[act[a].op] /\ Effect[act[a].op]["bin"] = "gone"
    BY <1>1, <2>1, <2>3 DEF Serve, Accepts, PageInv, PageTypeOK
  <2>5. act[a].op \in {"trash", "destroy"} BY <2>2, <2>4, Effects DEF ActRow
  <2>6. act[a].st = "sent" BY <1>1, <2>1, <2>5 DEF PageInv, OnlyUploadsBegin, Serve
  <2> QED BY <1>1, <2>2, <2>3, <2>5, <2>6 DEF PageInv, PressInv
<1>2. PageInv /\ [PageNext]_pageVars =>
        (\A i \in Item : at[i] = "bin" /\ at'[i] = "gone" => i \in condemned)
  BY <1>1
<1> QED BY <1>2, PageInvariant, PTL DEF PageSpec, NothingDestroyedUnasked

-----------------------------------------------------------------------------
(* Dialogs.                                                                *)

LoadRow == [of : Target \cup {Nothing}, cancelled : BOOLEAN, answered : BOOLEAN,
            answer : Sharings, overtaken : BOOLEAN]
OpRow == [kind : {"none", "add", "revoke", "link", "unlink"}, id : Id \cup {Nothing},
          st : {"idle", "sent", "done", "refused"}, mine : BOOLEAN]

DialogTypeOK ==
  /\ dialog \in {"none", "move", "preview", "share"}
  /\ current \in Target \cup {Nothing} /\ shown \in Target \cup {Nothing}
  /\ loads \in Seq(LoadRow) /\ (dialog = "none" => loads = <<>>)
  /\ {loading, failed, submitting, linkBusy, astray, late} \subseteq BOOLEAN
  /\ grants \in SUBSET Id /\ link \in Id \cup {Nothing}
  /\ list \in Sharings /\ fresh \in Id \cup {Nothing}
  /\ ops \in [Op -> OpRow]
  /\ \A o \in Op : (ops[o] # NoOp => ops[o].st # "idle") /\ (ops[o].mine => dialog = "share")

BrowseInv ==
  dialog \in {"move", "preview"} =>
    /\ \A n \in 1..Len(loads) : ~loads[n].cancelled => loads[n].of = current
    /\ dialog = "preview" => shown \in {Nothing, current}
    /\ dialog = "move" /\ ~loading => failed \/ shown = current

Now == [grants |-> grants, link |-> link # Nothing]
OfLink(o) == ops[o].kind \in {"link", "unlink"}

LinkInv ==
  /\ dialog # "share" => fresh = Nothing
  /\ dialog = "share" /\ ~astray =>
       /\ \A o \in Op : ops[o] # NoOp => ops[o].mine
       /\ \A o \in Op : ops[o].st = "refused" => ~OfLink(o)
       /\ \A o \in Op : OfLink(o) => linkBusy /\ \A q \in Op : OfLink(q) => q = o
       /\ \A o \in Op : ops[o].kind = "link" => fresh = Nothing
       /\ \A o \in Op : ops[o].kind = "link" /\ ops[o].id # Nothing => ops[o].st = "done" /\ link = ops[o].id
       /\ fresh # Nothing /\ ~linkBusy => link = fresh

Newest == loads[Len(loads)]

ListInv ==
  dialog = "share" /\ ~astray =>
    /\ \A m, n \in 1..Len(loads) : m < n /\ loads[n].overtaken => loads[m].overtaken
    /\ \/ \E o \in Op : ops[o].st = "done"
       \/ loads # <<>> /\ ~Newest.overtaken /\ (Newest.answered => Newest.answer = Now)
       \/ (loads = <<>> \/ Newest.overtaken) /\ (late \/ list = Now)

DialogInv == DialogTypeOK /\ BrowseInv /\ LinkInv /\ ListInv

-----------------------------------------------------------------------------
(* The loads.                                                              *)

LEMMA AsSeq ==
  ASSUME NEW S, NEW n \in Nat, NEW f \in [1..n -> S]
  PROVE  f \in Seq(S) /\ Len(f) = n
OBVIOUS

LEMMA Removed ==
  ASSUME NEW S, NEW s \in Seq(S), NEW n \in 1..Len(s)
  PROVE  /\ RemoveAt(s, n) \in Seq(S) /\ Len(RemoveAt(s, n)) = Len(s) - 1
         /\ \A m \in 1..(Len(s) - 1) : RemoveAt(s, n)[m] = IF m < n THEN s[m] ELSE s[m + 1]
<1> DEFINE a == SubSeq(s, 1, n - 1)
           b == SubSeq(s, n + 1, Len(s))
<1>1. /\ a \in Seq(S) /\ Len(a) = n - 1 /\ \A m \in 1..(n - 1) : a[m] = s[m]
      /\ b \in Seq(S) /\ Len(b) = Len(s) - n /\ \A m \in 1..(Len(s) - n) : b[m] = s[m + n]
  OBVIOUS
<1> HIDE DEF a, b
<1>2. RemoveAt(s, n) = a \o b
  BY DEF RemoveAt, a, b
<1>3. a \o b \in Seq(S) /\ Len(a \o b) = Len(s) - 1
  <2>1. a \o b \in Seq(S)
    BY <1>1
  <2>2. Len(a \o b) = Len(a) + Len(b)
    BY <1>1, ConcatProperties
  <2> QED BY <1>1, <2>1, <2>2
<1>4. ASSUME NEW m \in 1..(Len(s) - 1) PROVE (a \o b)[m] = IF m < n THEN s[m] ELSE s[m + 1]
  <2>1. CASE m < n
    BY <1>1, <2>1
  <2>2. CASE ~(m < n)
    <3>1. (a \o b)[m] = b[m - (n - 1)] /\ m - (n - 1) \in 1..(Len(s) - n)
      BY <1>1, <2>2
    <3>2. b[m - (n - 1)] = s[(m - (n - 1)) + n] /\ (m - (n - 1)) + n = m + 1
      BY <1>1, <3>1
    <3> QED BY <2>2, <3>1, <3>2
  <2> QED BY <2>1, <2>2
<1> QED BY <1>2, <1>3, <1>4

LEMMA LoadType ==
  ASSUME NEW of \in Target \cup {Nothing}
  PROVE  Load(of) \in LoadRow
BY DEF Load, LoadRow, NoList, Sharings

LEMMA CancelledType ==
  ASSUME loads \in Seq(LoadRow)
  PROVE  /\ Cancelled \in Seq(LoadRow) /\ Len(Cancelled) = Len(loads)
         /\ \A n \in 1..Len(loads) : Cancelled[n].cancelled
<1>1. \A n \in 1..Len(loads) : [loads[n] EXCEPT !.cancelled = TRUE] \in LoadRow
                               /\ [loads[n] EXCEPT !.cancelled = TRUE].cancelled
  <2> \A n \in 1..Len(loads) : loads[n] \in LoadRow
    OBVIOUS
  <2> QED BY DEF LoadRow
<1>2. Cancelled = [n \in 1..Len(loads) |-> [loads[n] EXCEPT !.cancelled = TRUE]]
  BY DEF Cancelled
<1>3. Cancelled \in [1..Len(loads) -> LoadRow]
  BY <1>1, <1>2
<1>4. Cancelled \in Seq(LoadRow) /\ Len(Cancelled) = Len(loads)
  BY <1>3, AsSeq
<1>5. \A n \in 1..Len(loads) : Cancelled[n].cancelled
  BY <1>1, <1>2
<1> QED BY <1>4, <1>5

LEMMA OvertakingType ==
  ASSUME loads \in Seq(LoadRow), NEW n \in 1..Len(loads)
  PROVE  /\ Overtaking(n) \in Seq(LoadRow) /\ Len(Overtaking(n)) = Len(loads)
         /\ \A m \in 1..Len(loads) : /\ Overtaking(n)[m].overtaken = (loads[m].overtaken \/ m < n)
                                     /\ Overtaking(n)[m].answered = loads[m].answered
                                     /\ Overtaking(n)[m].answer = loads[m].answer
<1>1. \A m \in 1..Len(loads) :
        LET r == IF m < n THEN [loads[m] EXCEPT !.overtaken = TRUE] ELSE loads[m]
        IN  /\ r \in LoadRow /\ r.overtaken = (loads[m].overtaken \/ m < n)
            /\ r.answered = loads[m].answered /\ r.answer = loads[m].answer
  <2> \A m \in 1..Len(loads) : loads[m] \in LoadRow
    OBVIOUS
  <2> QED BY DEF LoadRow
<1>2. Overtaking(n) = [m \in 1..Len(loads) |->
                         IF m < n THEN [loads[m] EXCEPT !.overtaken = TRUE] ELSE loads[m]]
  BY DEF Overtaking
<1>3. Overtaking(n) \in [1..Len(loads) -> LoadRow]
  BY <1>1, <1>2
<1>4. Overtaking(n) \in Seq(LoadRow) /\ Len(Overtaking(n)) = Len(loads)
  BY <1>3, AsSeq
<1>5. \A m \in 1..Len(loads) : /\ Overtaking(n)[m].overtaken = (loads[m].overtaken \/ m < n)
                               /\ Overtaking(n)[m].answered = loads[m].answered
                               /\ Overtaking(n)[m].answer = loads[m].answer
  BY <1>1, <1>2
<1> QED BY <1>4, <1>5

-----------------------------------------------------------------------------
(* Types.                                                                  *)

LEMMA DialogTypeStep == DialogTypeOK /\ [DialogNext]_dialogVars => DialogTypeOK'
<1> SUFFICES ASSUME DialogTypeOK, [DialogNext]_dialogVars PROVE DialogTypeOK'
  OBVIOUS
<1> USE DEF DialogTypeOK, server, share, browse
<1>0. /\ NoOp.mine = FALSE
      /\ NoList \in Sharings /\ Now \in Sharings /\ NoOp \in OpRow
      /\ \A o \in Op : ops[o] \in OpRow
      /\ DOMAIN loads = 1..Len(loads) /\ <<>> \in Seq(LoadRow)
      /\ \A n \in DOMAIN loads : loads[n] \in LoadRow
  BY DEF NoList, Sharings, Now, NoOp, OpRow
<1>1. ASSUME NEW t \in Target \cup {Nothing}, StartLoad(t) PROVE loads' \in Seq(LoadRow) /\ loading' \in BOOLEAN
  BY <1>1, LoadType, CancelledType DEF StartLoad
<1>2. ASSUME NEW t \in Target, Navigate(t) \/ Turn(t) \/ \E d \in {"move", "preview"} : OpenBrowser(d, t)
      PROVE  DialogTypeOK'
  BY <1>1, <1>2 DEF Navigate, Turn, OpenBrowser
<1>3. CASE OpenShare
  BY <1>0, <1>1, <1>3 DEF OpenShare
<1>4. CASE Close
  <2>1. \A o \in Op : /\ [ops[o] EXCEPT !.mine = FALSE] \in OpRow
                      /\ ops[o] = NoOp => [ops[o] EXCEPT !.mine = FALSE] = NoOp
                      /\ [ops[o] EXCEPT !.mine = FALSE].st = ops[o].st
                      /\ [ops[o] EXCEPT !.mine = FALSE].mine = FALSE
    BY <1>0 DEF OpRow, NoOp
  <2> QED BY <1>0, <1>4, <2>1 DEF Close
<1>5. ASSUME NEW n \in DOMAIN loads, Look(n) PROVE DialogTypeOK'
  <2>1. loads[n].of \in Target \cup {Nothing} /\ loads' \in Seq(LoadRow)
    BY <1>0, <1>5, Removed DEF Look, LoadRow
  <2> QED BY <1>5, <2>1 DEF Look
<1>6. ASSUME NEW n \in DOMAIN loads, ReadShares(n) PROVE DialogTypeOK'
  <2>1. [loads[n] EXCEPT !.answered = TRUE, !.answer = Now] \in LoadRow
    BY <1>0 DEF LoadRow
  <2>2. loads' \in Seq(LoadRow)
    <3>1. loads' = [loads EXCEPT ![n] = [loads[n] EXCEPT !.answered = TRUE, !.answer = Now]]
      BY <1>6 DEF ReadShares, Now
    <3> QED BY <1>0, <2>1, <3>1
  <2> QED BY <1>6, <2>2 DEF ReadShares
<1>7. ASSUME NEW n \in DOMAIN loads, LandShares(n) PROVE DialogTypeOK'
  <2>0. loads' = RemoveAt(Overtaking(n), n) /\ n \in 1..Len(loads)
    BY <1>0, <1>7 DEF LandShares
  <2>1. loads' \in Seq(LoadRow) /\ loads[n].answer \in Sharings /\ loads[n].overtaken \in BOOLEAN
    <3>1. Overtaking(n) \in Seq(LoadRow) /\ Len(Overtaking(n)) = Len(loads)
      BY <2>0, OvertakingType
    <3>2. loads' \in Seq(LoadRow)
      BY <2>0, <3>1, Removed
    <3>3. loads[n].answer \in Sharings /\ loads[n].overtaken \in BOOLEAN
      BY <1>0 DEF LoadRow
    <3> QED BY <3>2, <3>3
  <2> QED BY <1>7, <2>1 DEF LandShares
<1>8. ASSUME NEW n \in DOMAIN loads, FailShares(n) PROVE DialogTypeOK'
  BY <1>0, <1>8, Removed DEF FailShares
<1>9. ASSUME NEW o \in Op, AddShare(o) \/ CreateLink(o) \/ RevokeLink(o) \/ \E id \in Id : RevokeShare(o, id)
      PROVE  DialogTypeOK'
  <2>1. PICK kind \in {"add", "revoke", "link", "unlink"}, id \in Id \cup {Nothing} : Send(o, kind, id)
    BY <1>9 DEF AddShare, CreateLink, RevokeLink, RevokeShare
  <2>2. [kind |-> kind, id |-> id, st |-> "sent", mine |-> TRUE] \in OpRow
    BY DEF OpRow
  <2> QED BY <1>9, <2>1, <2>2 DEF Send, AddShare, CreateLink, RevokeLink, RevokeShare
<1>10. ASSUME NEW o \in Op, ServeShare(o) PROVE DialogTypeOK'
  <2>1. \A id \in Id : /\ [ops[o] EXCEPT !.st = "done", !.id = id].mine = ops[o].mine
                       /\ [ops[o] EXCEPT !.st = "done"] \in OpRow /\ [ops[o] EXCEPT !.st = "done", !.id = id] \in OpRow
                       /\ [ops[o] EXCEPT !.st = "done"].st = "done" /\ [ops[o] EXCEPT !.st = "done", !.id = id].st = "done"
    BY <1>0 DEF OpRow
  <2>1a. /\ [ops[o] EXCEPT !.st = "done"] \in OpRow /\ [ops[o] EXCEPT !.st = "done"].st = "done"
         /\ [ops[o] EXCEPT !.st = "done"].mine = ops[o].mine
    BY <1>0 DEF OpRow
  <2>2. /\ ops' \in [Op -> OpRow] /\ dialog' = dialog
        /\ \A q \in Op : (ops'[q] # NoOp => ops'[q].st # "idle") /\ (ops'[q].mine => ops[q].mine)
    BY ZenonT(30), <1>0, <1>10, <2>1, <2>1a DEF ServeShare
  <2>3. grants' \in SUBSET Id /\ link' \in Id \cup {Nothing}
    BY <1>10 DEF ServeShare
  <2> QED BY <1>10, <2>2, <2>3 DEF ServeShare
<1>11. ASSUME NEW o \in Op, RefuseShare(o) PROVE DialogTypeOK'
  <2>1. /\ [ops[o] EXCEPT !.st = "refused"] \in OpRow /\ [ops[o] EXCEPT !.st = "refused"].st = "refused"
        /\ [ops[o] EXCEPT !.st = "refused"].mine = ops[o].mine
    BY <1>0 DEF OpRow
  <2> QED BY <1>11, <2>1 DEF RefuseShare
<1>12. ASSUME NEW o \in Op, Ended(o)
       PROVE  /\ ops' \in [Op -> OpRow] /\ dialog' = dialog
              /\ \A q \in Op : (ops'[q] # NoOp => ops'[q].st # "idle") /\ (ops'[q].mine => ops[q].mine)
              /\ {submitting', linkBusy'} \subseteq BOOLEAN
  BY <1>0, <1>12 DEF Ended
<1>13. ASSUME NEW o \in Op, ReplyShare(o) PROVE DialogTypeOK'
  <2>1. loads' \in Seq(LoadRow) /\ loading' \in BOOLEAN
    BY <1>13, LoadType DEF ReplyShare, Reload
  <2>2. fresh' \in Id \cup {Nothing}
    BY <1>0, <1>13 DEF ReplyShare, OpRow
  <2>3. Ended(o) /\ UNCHANGED <<astray, late>> /\ dialog = "share"
    BY <1>13 DEF ReplyShare
  <2> QED BY <1>12, <2>1, <2>2, <2>3 DEF Ended
<1>14. ASSUME NEW o \in Op, Fail(o) PROVE DialogTypeOK'
  <2>1. Ended(o)
    BY <1>14 DEF Fail
  <2> QED BY <1>12, <1>14, <2>1 DEF Ended, Fail
<1>15. ASSUME NEW o \in Op, Forget(o) PROVE DialogTypeOK'
  BY <1>0, <1>15 DEF Forget
<1>16. CASE UNCHANGED dialogVars
  BY <1>16 DEF dialogVars
<1> QED BY <1>2, <1>3, <1>4, <1>5, <1>6, <1>7, <1>8, <1>9, <1>10, <1>11, <1>13, <1>14, <1>15, <1>16 DEF DialogNext

-----------------------------------------------------------------------------
(* The move dialog and the preview.                                        *)

LEMMA BrowseStep == DialogTypeOK /\ BrowseInv /\ [DialogNext]_dialogVars => BrowseInv'
<1> SUFFICES ASSUME DialogTypeOK, BrowseInv, [DialogNext]_dialogVars PROVE BrowseInv'
  OBVIOUS
<1> USE DEF server, share, browse
<1>0. loads \in Seq(LoadRow) /\ DOMAIN loads = 1..Len(loads)
  BY DEF DialogTypeOK
<1>1. ASSUME NEW t \in Target \cup {Nothing}, StartLoad(t)
      PROVE  /\ \A n \in 1..Len(loads') : ~loads'[n].cancelled => loads'[n].of = t
             /\ loading' = TRUE
  <2>1. Load(t) \in LoadRow /\ Load(t).of = t
    BY LoadType DEF Load
  <2>2. /\ Len(loads') = Len(loads) + 1 /\ loads'[Len(loads) + 1] = Load(t)
        /\ \A n \in 1..Len(loads) : loads'[n] = Cancelled[n]
    BY <1>0, <1>1, <2>1, CancelledType DEF StartLoad
  <2> QED BY <1>0, <1>1, <2>1, <2>2, CancelledType DEF StartLoad
<1>2. ASSUME NEW t \in Target, Navigate(t) \/ Turn(t) \/ \E d \in {"move", "preview"} : OpenBrowser(d, t)
      PROVE  BrowseInv'
  BY <1>1, <1>2 DEF Navigate, Turn, OpenBrowser, BrowseInv
<1>3. ASSUME NEW n \in DOMAIN loads, Look(n) PROVE BrowseInv'
  <2>1. /\ Len(loads') = Len(loads) - 1 /\ Len(loads) \in Nat
        /\ \A m \in 1..(Len(loads) - 1) : loads'[m] = IF m < n THEN loads[m] ELSE loads[m + 1]
    <3>1. loads' = RemoveAt(loads, n) /\ n \in 1..Len(loads) /\ Len(loads) \in Nat
      BY <1>0, <1>3 DEF Look
    <3> QED BY <1>0, <3>1, Removed
  <2>2. \A m \in 1..Len(loads') : ~loads'[m].cancelled => loads'[m].of = current
    BY <1>0, <1>3, <2>1 DEF Look, BrowseInv
  <2> QED BY <1>0, <1>3, <2>2 DEF Look, BrowseInv
<1>4. CASE Close \/ OpenShare \/ \E n \in DOMAIN loads : ReadShares(n) \/ LandShares(n) \/ FailShares(n)
  BY <1>4 DEF Close, OpenShare, ReadShares, LandShares, FailShares, BrowseInv
<1>5. ASSUME NEW o \in Op, \/ AddShare(o) \/ CreateLink(o) \/ RevokeLink(o) \/ \E id \in Id : RevokeShare(o, id)
                           \/ ServeShare(o) \/ RefuseShare(o) \/ Forget(o) \/ Fail(o)
      PROVE  BrowseInv'
  BY <1>5 DEF AddShare, CreateLink, RevokeLink, RevokeShare, Send, ServeShare, RefuseShare, Forget, Fail, Ended,
              BrowseInv
<1>6. ASSUME NEW o \in Op, ReplyShare(o) PROVE BrowseInv'
  BY <1>6 DEF ReplyShare, Ended, BrowseInv, DialogTypeOK
<1>7. CASE UNCHANGED dialogVars
  BY <1>7 DEF dialogVars, BrowseInv
<1> QED BY <1>2, <1>3, <1>4, <1>5, <1>6, <1>7 DEF DialogNext

-----------------------------------------------------------------------------
(* The share dialog: its link.                                             *)

\* What a call that ends leaves of the others.
LEMMA EndedCalls ==
  ASSUME DialogTypeOK, NEW o \in Op, Ended(o)
  PROVE  /\ DOMAIN ops' = Op /\ ops'[o] = NoOp /\ \A q \in Op \ {o} : ops'[q] = ops[q]
         /\ dialog' = dialog /\ UNCHANGED <<server, list>>
         /\ linkBusy' <=> linkBusy /\ ~OfLink(o)
BY DEF DialogTypeOK, Ended, server, OfLink

LEMMA LinkStep == DialogTypeOK /\ LinkInv /\ [DialogNext]_dialogVars => LinkInv'
<1> SUFFICES ASSUME DialogTypeOK, LinkInv, [DialogNext]_dialogVars PROVE LinkInv'
  OBVIOUS
<1> USE DEF server, share, browse
<1>0. /\ NoOp.kind = "none" /\ NoOp.st = "idle" /\ NoOp.id = Nothing /\ NoOp.mine = FALSE
      /\ ops \in [Op -> OpRow] /\ linkBusy \in BOOLEAN /\ astray \in BOOLEAN
  BY DEF NoOp, DialogTypeOK
<1>1. CASE \/ \E t \in Target : Navigate(t) \/ Turn(t) \/ \E d \in {"move", "preview"} : OpenBrowser(d, t)
           \/ \E n \in DOMAIN loads : Look(n) \/ ReadShares(n) \/ LandShares(n)
           \/ UNCHANGED dialogVars
  <2>1. dialog' = dialog \/ (dialog = "none" /\ dialog' \in {"move", "preview"})
    BY <1>1 DEF Navigate, Turn, OpenBrowser, Look, ReadShares, LandShares, dialogVars
  <2>2. UNCHANGED <<fresh, link, linkBusy, ops, astray>>
    BY <1>1 DEF Navigate, Turn, OpenBrowser, Look, ReadShares, LandShares, dialogVars
  <2> QED BY <2>1, <2>2 DEF LinkInv, OfLink
<1>2. CASE OpenShare
  <2>1. astray' = FALSE => \A o \in Op : ops[o] = NoOp
    BY <1>2 DEF OpenShare, BusyOps
  <2> QED BY <1>0, <1>2, <2>1 DEF OpenShare, LinkInv, OfLink
<1>3. CASE Close \/ \E n \in DOMAIN loads : FailShares(n)
  BY <1>3 DEF Close, FailShares, LinkInv
<1>4. ASSUME NEW o \in Op, AddShare(o) \/ CreateLink(o) \/ RevokeLink(o) \/ \E id \in Id : RevokeShare(o, id)
      PROVE  LinkInv'
  <2>1. PICK kind \in {"add", "revoke", "link", "unlink"}, id \in Id \cup {Nothing} :
          /\ Send(o, kind, id)
          /\ kind \in {"link", "unlink"} => ~linkBusy /\ linkBusy' = TRUE
          /\ kind \notin {"link", "unlink"} => linkBusy' = linkBusy
          /\ kind = "link" => fresh = Nothing /\ id = Nothing
    BY <1>4 DEF AddShare, CreateLink, RevokeLink, RevokeShare
  <2>2. /\ dialog = "share" /\ dialog' = dialog /\ UNCHANGED <<fresh, link, astray>>
        /\ DOMAIN ops' = Op /\ \A q \in Op \ {o} : ops'[q] = ops[q]
        /\ ops'[o].kind = kind /\ ops'[o].st = "sent" /\ ops'[o].id = id /\ ops'[o].mine
    BY <1>0, <2>1 DEF Send
  <2>3. OfLink(o)' <=> kind \in {"link", "unlink"}
    BY <2>2 DEF OfLink
  <2>4. \A q \in Op \ {o} : OfLink(q)' <=> OfLink(q)
    BY <2>2 DEF OfLink
  <2> QED BY <2>1, <2>2, <2>3, <2>4 DEF LinkInv
<1>5. ASSUME NEW o \in Op, ServeShare(o) PROVE LinkInv'
  <2>1. /\ DOMAIN ops' = Op /\ \A q \in Op \ {o} : ops'[q] = ops[q]
        /\ ops'[o].kind = ops[o].kind /\ ops'[o].st = "done" /\ ops'[o].mine = ops[o].mine
        /\ ops[o].st = "sent" /\ UNCHANGED <<dialog, fresh, linkBusy, astray>>
        /\ link' # link => OfLink(o)
        /\ ops'[o].kind = "link" /\ ops'[o].id # ops[o].id => link' = ops'[o].id
    BY <1>0, <1>5 DEF ServeShare, OpRow, OfLink
  <2>2. \A q \in Op : OfLink(q)' <=> OfLink(q)
    BY <2>1 DEF OfLink
  <2>3. ops[o] # NoOp
    BY <1>0, <2>1
  <2>4. dialog = "share" /\ ~astray /\ ops[o].kind = "link" => ops[o].id = Nothing
    BY <2>1 DEF LinkInv
  <2> QED BY <2>1, <2>2, <2>3, <2>4 DEF LinkInv, OfLink
<1>6. ASSUME NEW o \in Op, RefuseShare(o) PROVE LinkInv'
  <2>1. /\ DOMAIN ops' = Op /\ \A q \in Op \ {o} : ops'[q] = ops[q]
        /\ ops'[o].kind = ops[o].kind /\ ops'[o].st = "refused" /\ ops'[o].mine = ops[o].mine
        /\ ops'[o].id = ops[o].id /\ ops[o].st = "sent" /\ ops[o].kind \in {"add", "revoke"}
        /\ UNCHANGED <<dialog, fresh, link, linkBusy, astray>>
    BY <1>0, <1>6 DEF RefuseShare, OpRow
  <2>2. \A q \in Op : OfLink(q)' <=> OfLink(q)
    BY <2>1 DEF OfLink
  <2>3. ops[o] # NoOp /\ ~OfLink(o)
    BY <1>0, <2>1 DEF OfLink
  <2> QED BY <2>1, <2>2, <2>3 DEF LinkInv
<1>7. ASSUME NEW o \in Op, ReplyShare(o) PROVE LinkInv'
  <2>1. /\ Ended(o) /\ ops[o].st = "done" /\ dialog = "share" /\ UNCHANGED astray
        /\ fresh' = IF ops[o].kind = "unlink" THEN Nothing
                    ELSE IF ops[o].kind = "link" /\ ops[o].id # Nothing THEN ops[o].id ELSE fresh
    BY <1>7 DEF ReplyShare, DialogTypeOK
  <2>2. /\ DOMAIN ops' = Op /\ ops'[o] = NoOp /\ \A q \in Op \ {o} : ops'[q] = ops[q]
        /\ dialog' = dialog /\ link' = link /\ (linkBusy' <=> linkBusy /\ ~OfLink(o))
    BY <2>1, EndedCalls
  <2>3. (\A q \in Op \ {o} : OfLink(q)' <=> OfLink(q)) /\ ~OfLink(o)'
    BY <1>0, <2>2 DEF OfLink
  <2> QED BY <1>0, <2>1, <2>2, <2>3 DEF LinkInv, OfLink
<1>8. ASSUME NEW o \in Op, Fail(o) PROVE LinkInv'
  <2>1. Ended(o) /\ dialog = "share" /\ fresh' = fresh /\ astray' = (astray \/ ops[o].st # "refused")
    BY <1>8 DEF Fail, DialogTypeOK
  <2>2. /\ DOMAIN ops' = Op /\ ops'[o] = NoOp /\ \A q \in Op \ {o} : ops'[q] = ops[q]
        /\ dialog' = dialog /\ link' = link /\ (linkBusy' <=> linkBusy /\ ~OfLink(o))
    BY <2>1, EndedCalls
  <2>3. (\A q \in Op \ {o} : OfLink(q)' <=> OfLink(q)) /\ ~OfLink(o)'
    BY <1>0, <2>2 DEF OfLink
  <2> QED BY <1>0, <2>1, <2>2, <2>3 DEF LinkInv
<1>9. ASSUME NEW o \in Op, Forget(o) PROVE LinkInv'
  <2>1. /\ DOMAIN ops' = Op /\ ops'[o] = NoOp /\ \A q \in Op \ {o} : ops'[q] = ops[q]
        /\ UNCHANGED <<dialog, fresh, link, linkBusy, astray>>
    BY <1>0, <1>9 DEF Forget
  <2>2. (\A q \in Op \ {o} : OfLink(q)' <=> OfLink(q)) /\ ~OfLink(o)'
    BY <1>0, <2>1 DEF OfLink
  <2> QED BY <1>0, <2>1, <2>2 DEF LinkInv
<1> QED BY <1>1, <1>2, <1>3, <1>4, <1>5, <1>6, <1>7, <1>8, <1>9 DEF DialogNext

-----------------------------------------------------------------------------
(* The share dialog: its list.                                             *)

LEMMA ListStep == DialogTypeOK /\ LinkInv /\ ListInv /\ [DialogNext]_dialogVars => ListInv'
<1> SUFFICES ASSUME DialogTypeOK, LinkInv, ListInv, [DialogNext]_dialogVars, dialog' = "share", ~astray'
             PROVE  ListInv'
  BY DEF ListInv
<1> USE DEF server, share, browse
<1>0. /\ NoOp.kind = "none" /\ NoOp.st = "idle" /\ NoOp.mine = FALSE
      /\ ops \in [Op -> OpRow] /\ loads \in Seq(LoadRow) /\ DOMAIN loads = 1..Len(loads) /\ Len(loads) \in Nat
      /\ \A n \in 1..Len(loads) : loads[n] \in LoadRow /\ loads[n].overtaken \in BOOLEAN
  <2>1. loads \in Seq(LoadRow)
    BY DEF DialogTypeOK
  <2>2. \A n \in 1..Len(loads) : loads[n] \in LoadRow
    BY <2>1
  <2> QED BY <2>1, <2>2 DEF NoOp, DialogTypeOK, LoadRow
<1>1. ASSUME NEW L \in Seq(LoadRow), loads' = Append(L, Load(Nothing)), Len(L) = Len(loads),
             \A n \in 1..Len(loads) : L[n].overtaken = loads[n].overtaken,
             \A m, n \in 1..Len(loads) : m < n /\ loads[n].overtaken => loads[m].overtaken
      PROVE  ListInv'
  <2>1. Load(Nothing) \in LoadRow /\ ~Load(Nothing).overtaken /\ ~Load(Nothing).answered
    BY LoadType DEF Load
  <2>2. /\ Len(loads') = Len(loads) + 1 /\ loads' # <<>> /\ loads'[Len(loads) + 1] = Load(Nothing)
        /\ \A n \in 1..Len(loads) : loads'[n].overtaken = loads[n].overtaken
    BY <1>0, <1>1, <2>1
  <2>3. \A m, n \in 1..Len(loads') : m < n /\ loads'[n].overtaken => loads'[m].overtaken
    <3> SUFFICES ASSUME NEW m \in 1..Len(loads'), NEW n \in 1..Len(loads'), m < n, loads'[n].overtaken
                 PROVE  loads'[m].overtaken
      OBVIOUS
    <3>1. n # Len(loads) + 1
      BY <2>1, <2>2
    <3>2. Len(loads) \in Nat /\ Len(loads') = Len(loads) + 1
      BY <1>0, <2>2
    <3>3. m \in 1..Len(loads) /\ n \in 1..Len(loads)
      BY <3>1, <3>2
    <3> QED BY <1>1, <2>2, <3>3
  <2> QED BY <2>1, <2>2, <2>3 DEF ListInv, Newest
<1>2. ASSUME UNCHANGED <<loads, list, late, server>>, dialog = "share", ~astray,
             \A o \in Op : ops[o].st = "done" => \E q \in Op : ops'[q].st = "done"
      PROVE  ListInv'
  <2>1. UNCHANGED <<loads, Newest, Now>>
    BY <1>2 DEF Newest, Now
  <2> QED BY <1>2, <2>1 DEF ListInv
<1>3. CASE OpenShare
  <2>1. /\ Cancelled \in Seq(LoadRow) /\ Len(Cancelled) = Len(loads) /\ Len(loads) = 0
        /\ loads' = Append(Cancelled, Load(Nothing))
    BY <1>0, <1>3, CancelledType DEF OpenShare, StartLoad, DialogTypeOK
  <2>2. /\ \A n \in 1..Len(loads) : Cancelled[n].overtaken = loads[n].overtaken
        /\ \A m, n \in 1..Len(loads) : m < n /\ loads[n].overtaken => loads[m].overtaken
    BY <2>1
  <2> QED BY <1>1, <2>1, <2>2
<1>4. CASE \/ Close \/ \E t \in Target : Navigate(t) \/ Turn(t) \/ \E d \in {"move", "preview"} : OpenBrowser(d, t)
           \/ \E n \in DOMAIN loads : Look(n) \/ FailShares(n)
  BY <1>4 DEF Close, Navigate, Turn, OpenBrowser, Look, FailShares
<1>5. ASSUME NEW n \in DOMAIN loads, ReadShares(n) PROVE ListInv'
  <2>1. /\ n \in 1..Len(loads) /\ Len(loads') = Len(loads) /\ loads # <<>> /\ loads' # <<>>
        /\ UNCHANGED <<list, late, server, ops, dialog, astray>> /\ Now' = Now
    BY <1>0, <1>5 DEF ReadShares, Now
  <2>2. /\ \A m \in 1..Len(loads) : loads'[m].overtaken = loads[m].overtaken
        /\ \A m \in 1..Len(loads) \ {n} : loads'[m] = loads[m]
        /\ loads'[n].answer = Now
    BY <1>0, <1>5, <2>1 DEF ReadShares, Now, LoadRow
  <2>3. Newest' = loads'[Len(loads)] /\ Len(loads) \in 1..Len(loads)
    BY <1>0, <2>1 DEF Newest
  <2> QED BY <1>0, <2>1, <2>2, <2>3 DEF ListInv, Newest
<1>6. ASSUME NEW n \in DOMAIN loads, LandShares(n) PROVE ListInv'
  <2> DEFINE k == Len(loads)
  <2>1. /\ n \in 1..k /\ k \in Nat /\ dialog = "share" /\ ~astray /\ loads[n].answered
        /\ list' = loads[n].answer /\ late' = loads[n].overtaken /\ loads' = RemoveAt(Overtaking(n), n)
        /\ UNCHANGED <<server, ops>> /\ Now' = Now
    BY <1>0, <1>6 DEF LandShares, Now
  <2>2. /\ Overtaking(n) \in Seq(LoadRow) /\ Len(Overtaking(n)) = k
        /\ \A m \in 1..k : /\ Overtaking(n)[m].overtaken = (loads[m].overtaken \/ m < n)
                            /\ Overtaking(n)[m].answered = loads[m].answered
                            /\ Overtaking(n)[m].answer = loads[m].answer
    BY <1>0, <2>1, OvertakingType
  <2>3. /\ loads' \in Seq(LoadRow) /\ Len(loads') = k - 1
        /\ \A m \in 1..(k - 1) : loads'[m] = IF m < n THEN Overtaking(n)[m] ELSE Overtaking(n)[m + 1]
    <3> HIDE DEF k
    <3>1. n \in 1..Len(Overtaking(n))
      BY <2>1, <2>2
    <3> QED BY <2>1, <2>2, <3>1, Removed
  <2>4. /\ \A m \in 1..(k - 1) : m < n => loads'[m].overtaken
        /\ \A m \in 1..(k - 1) : ~(m < n) => /\ loads'[m].overtaken = loads[m + 1].overtaken
                                            /\ loads'[m].answered = loads[m + 1].answered
                                            /\ loads'[m].answer = loads[m + 1].answer
    <3> HIDE DEF k
    <3>1. \A m \in 1..(k - 1) : m \in 1..k /\ m + 1 \in 1..k /\ (~(m < n) => ~(m + 1 < n))
      BY <2>1
    <3>2. \A m \in 1..(k - 1) : m < n => loads'[m].overtaken
      BY <2>2, <2>3, <3>1
    <3>3. ASSUME NEW m \in 1..(k - 1), ~(m < n)
          PROVE  loads'[m] = Overtaking(n)[m + 1] /\ m + 1 \in 1..k /\ ~(m + 1 < n)
      BY <2>3, <3>1, <3>3
    <3>4. \A m \in 1..k : loads[m].overtaken \in BOOLEAN
      BY <1>0 DEF k
    <3> QED BY <2>2, <3>2, <3>3, <3>4
  <2>5. \A a, b \in 1..k : a < b /\ loads[b].overtaken => loads[a].overtaken
    BY <2>1 DEF ListInv
  <2>6. \A a, b \in 1..(k - 1) : a < b /\ loads'[b].overtaken => loads'[a].overtaken
    <3> HIDE DEF k
    <3> SUFFICES ASSUME NEW a \in 1..(k - 1), NEW b \in 1..(k - 1), a < b, loads'[b].overtaken, ~(a < n)
                 PROVE  loads'[a].overtaken
      BY <2>4
    <3>1. a + 1 \in 1..k /\ b + 1 \in 1..k /\ a + 1 < b + 1 /\ ~(b < n)
      BY <2>1
    <3> QED BY <2>4, <2>5, <3>1
  <2>7. ASSUME \A o \in Op : ops[o].st # "done"
        PROVE  \/ loads' # <<>> /\ ~Newest'.overtaken /\ (Newest'.answered => Newest'.answer = Now)
               \/ (loads' = <<>> \/ Newest'.overtaken) /\ (late' \/ list' = Now)
    <3>0. loads # <<>> /\ Newest = loads[k]
      BY <2>1 DEF Newest
    <3>1. CASE loads[k].overtaken
      <4>1. loads[n].overtaken
        BY <2>1, <2>5, <3>1
      <4>2. loads' = <<>> \/ Newest'.overtaken
        <5> SUFFICES ASSUME loads' # <<>> PROVE Newest'.overtaken
          OBVIOUS
        <5>1. k - 1 \in 1..(k - 1) /\ Newest' = loads'[k - 1]
          BY <2>1, <2>3 DEF Newest
        <5>2. CASE k - 1 < n
          BY <2>4, <5>1, <5>2
        <5>3. CASE ~(k - 1 < n)
          BY <2>1, <2>4, <3>1, <5>1, <5>3
        <5> QED BY <5>2, <5>3
      <4> QED BY <2>1, <4>1, <4>2
    <3>2. CASE ~loads[k].overtaken /\ n = k
      <4>1. list' = Now
        BY <2>1, <2>7, <3>0, <3>2 DEF ListInv
      <4>2. loads' = <<>> \/ Newest'.overtaken
        <5> SUFFICES ASSUME loads' # <<>> PROVE Newest'.overtaken
          OBVIOUS
        <5>1. k - 1 \in 1..(k - 1) /\ Newest' = loads'[k - 1] /\ k - 1 < n
          BY <2>1, <2>3, <3>2 DEF Newest
        <5> QED BY <2>4, <5>1
      <4> QED BY <4>1, <4>2
    <3>3. CASE ~loads[k].overtaken /\ n # k
      <4>1. /\ k - 1 \in 1..(k - 1) /\ ~(k - 1 < n) /\ Newest' = loads'[k - 1] /\ loads' # <<>>
        BY <2>1, <2>3, <3>3 DEF Newest
      <4>2. /\ loads'[k - 1].overtaken = loads[k].overtaken /\ loads'[k - 1].answered = loads[k].answered
            /\ loads'[k - 1].answer = loads[k].answer
        BY <2>1, <2>4, <4>1
      <4>3. loads[k].answered => loads[k].answer = Now
        BY <2>1, <2>7, <3>0, <3>3 DEF ListInv
      <4> QED BY <3>3, <4>1, <4>2, <4>3
    <3> QED BY <3>1, <3>2, <3>3
  <2> QED BY <2>1, <2>3, <2>6, <2>7 DEF ListInv
<1>7. ASSUME NEW o \in Op, AddShare(o) \/ CreateLink(o) \/ RevokeLink(o) \/ \E id \in Id : RevokeShare(o, id)
      PROVE  ListInv'
  <2>1. PICK kind, id : Send(o, kind, id)
    BY <1>7 DEF AddShare, CreateLink, RevokeLink, RevokeShare
  <2>2. ops[o] = NoOp /\ \A q \in Op \ {o} : ops'[q] = ops[q]
    BY <1>0, <2>1 DEF Send
  <2> QED BY <1>0, <1>2, <2>1, <2>2 DEF Send
<1>8. ASSUME NEW o \in Op, ServeShare(o) PROVE ListInv'
  <2>1. ops'[o].st = "done" /\ loads' = loads /\ dialog = "share" /\ ~astray
    BY <1>0, <1>8 DEF ServeShare, OpRow
  <2> QED BY <2>1 DEF ListInv
<1>9. ASSUME NEW o \in Op, RefuseShare(o) PROVE ListInv'
  <2>1. ops[o].st = "sent" /\ \A q \in Op \ {o} : ops'[q] = ops[q]
    BY <1>0, <1>9 DEF RefuseShare
  <2> QED BY <1>2, <1>9, <2>1 DEF RefuseShare
<1>10. ASSUME NEW o \in Op, ReplyShare(o) PROVE ListInv'
  <2>1. loads' = Append(loads, Load(Nothing)) /\ dialog = "share" /\ ~astray
    BY <1>10 DEF ReplyShare, Reload, Ended
  <2> QED BY <1>0, <1>1, <2>1 DEF ListInv
<1>11. ASSUME NEW o \in Op, Fail(o) PROVE ListInv'
  <2>1. Ended(o) /\ UNCHANGED <<loads, late>> /\ ops[o].st = "refused" /\ dialog = "share" /\ ~astray
    BY <1>11 DEF Fail, Ended
  <2>2. UNCHANGED <<server, list>> /\ \A q \in Op \ {o} : ops'[q] = ops[q]
    BY <2>1, EndedCalls
  <2> QED BY <1>2, <2>1, <2>2
<1>12. ASSUME NEW o \in Op, Forget(o) PROVE ListInv'
  BY <1>0, <1>12 DEF Forget, LinkInv
<1>13. CASE UNCHANGED dialogVars
  BY <1>2, <1>13 DEF dialogVars
<1> QED BY <1>3, <1>4, <1>5, <1>6, <1>7, <1>8, <1>9, <1>10, <1>11, <1>12, <1>13 DEF DialogNext

-----------------------------------------------------------------------------
(* The theorems.                                                           *)

LEMMA DialogInvariant == DialogSpec => []DialogInv
<1>1. DialogInit => DialogInv
  <2> SUFFICES ASSUME DialogInit PROVE DialogInv
    OBVIOUS
  <2>1. NoOp \in OpRow /\ NoOp.kind = "none" /\ NoOp.st = "idle" /\ NoOp.mine = FALSE /\ NoList \in Sharings
    BY DEF NoOp, OpRow, NoList, Sharings
  <2>2. DialogTypeOK
    <3>1. loads = <<>> /\ <<>> \in Seq(LoadRow) /\ ops \in [Op -> OpRow]
      BY <2>1 DEF DialogInit
    <3> QED BY <2>1, <3>1 DEF DialogInit, DialogTypeOK
  <2> QED BY <2>1, <2>2 DEF DialogInit, DialogInv, BrowseInv, LinkInv, ListInv
<1>2. DialogInv /\ [DialogNext]_dialogVars => DialogInv'
  BY DialogTypeStep, BrowseStep, LinkStep, ListStep DEF DialogInv
<1> QED BY <1>1, <1>2, PTL DEF DialogSpec

\* The picture shown is of the file named, and the folders listed are of the
\* folder named, whatever order the answers come in.
THEOREM AlwaysLateAnswersAreDropped == DialogSpec => []LateAnswersAreDropped
<1>1. DialogInv => LateAnswersAreDropped
  BY DEF DialogInv, BrowseInv, LateAnswersAreDropped
<1> QED BY <1>1, DialogInvariant, PTL

\* At rest the share dialog shows who can read the file, unless a call or an
\* answer got lost or the list on the screen had been overtaken.
THEOREM AlwaysSharesShownAreCurrent == DialogSpec => []SharesShownAreCurrent
<1>1. ASSUME DialogInv PROVE SharesShownAreCurrent
  <2> SUFFICES ASSUME dialog = "share", BusyOps = {}, loads = <<>>, ~astray, ~late
               PROVE  list = [grants |-> grants, link |-> link # Nothing]
    BY DEF SharesShownAreCurrent
  <2>1. \A o \in Op : ops[o].st # "done"
    BY DEF BusyOps, NoOp
  <2> QED BY <1>1, <2>1 DEF DialogInv, ListInv, Now
<1>2. DialogInv => SharesShownAreCurrent
  BY <1>1
<1> QED BY <1>2, DialogInvariant, PTL

\* The link one is told to save is the one that opens the file, unless a call
\* that changes it is under way or was lost.
THEOREM AlwaysFreshLinkWorks == DialogSpec => []FreshLinkWorks
<1>1. DialogInv => FreshLinkWorks
  BY DEF DialogInv, LinkInv, FreshLinkWorks
<1> QED BY <1>1, DialogInvariant, PTL
=============================================================================
