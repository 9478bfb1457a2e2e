------------------------ MODULE ThumbnailSlotsProofs ------------------------
(***************************************************************************)
(* The semaphore's safety for any limit and any finite set of requests.    *)
(*                                                                         *)
(* The count alone is not inductive: between a release and its waiter's    *)
(* microtask the slot is in neither's hands.  The strengthening adds the   *)
(* woken waiters to the count, and says that nobody is in line twice.      *)
(***************************************************************************)
EXTENDS ThumbnailSlots, FiniteSetTheorems, SequenceTheorems, TLAPS

\* Each request is in one place at most.
InLineOnce ==
  /\ \A i \in 1..Len(waiting) : waiting[i] \notin holders
  /\ \A i \in 1..Len(woken) : woken[i] \notin holders
  /\ \A i, j \in 1..Len(waiting) : waiting[i] = waiting[j] => i = j
  /\ \A i, j \in 1..Len(woken) : woken[i] = woken[j] => i = j
  /\ \A i \in 1..Len(waiting), j \in 1..Len(woken) : waiting[i] # woken[j]

\* The count is the number of holders, and is at most Max even when the
\* woken waiters have raised it; while anybody waits it is Max then.
CountIsExact ==
  /\ active = Cardinality(holders)
  /\ active + Len(woken) <= Max
  /\ waiting # <<>> => active + Len(woken) = Max

IInv == TypeOK /\ InLineOnce /\ CountIsExact

-----------------------------------------------------------------------------
\* Initially nobody holds or waits.
LEMMA InitIInv == Init => IInv
  BY MaxAssumption, FS_EmptySet DEF Init, IInv, TypeOK, InLineOnce, CountIsExact

\* holders is finite, so its cardinality counts.
LEMMA HoldersAreCounted ==
  ASSUME TypeOK, NEW r \in Request
  PROVE  /\ IsFiniteSet(holders)
         /\ r \notin holders => Cardinality(holders \cup {r}) = Cardinality(holders) + 1
         /\ r \in holders => Cardinality(holders \ {r}) = Cardinality(holders) - 1
<1>1. IsFiniteSet(holders)
  BY RequestAssumption, FS_Subset DEF TypeOK
<1>2. QED
  BY <1>1, FS_AddElement, FS_RemoveElement

\* A request that asks is not in line yet; it takes a free slot, or the
\* end of the line when there is none.
LEMMA AcquireIInv ==
  ASSUME IInv, NEW r \in Request, Acquire(r)
  PROVE  IInv'
<1> USE DEF IInv
<1>1. CASE active >= Max
  <2>1. /\ waiting' = Append(waiting, r) /\ UNCHANGED <<active, holders, woken, hung>>
        /\ woken = <<>> /\ r \notin holders
        /\ \A i \in 1..Len(waiting) : waiting[i] # r
    BY <1>1 DEF Acquire, Turn, Queued
  <2>2. TypeOK'
    BY <2>1 DEF TypeOK
  <2>3. InLineOnce'
    BY <2>1 DEF TypeOK, InLineOnce
  <2>4. CountIsExact'
    BY <2>1, <1>1, MaxAssumption DEF TypeOK, CountIsExact
  <2>5. QED
    BY <2>2, <2>3, <2>4
<1>2. CASE ~(active >= Max)
  <2>1. /\ active' = active + 1 /\ holders' = holders \cup {r}
        /\ UNCHANGED <<waiting, woken, hung>>
        /\ woken = <<>> /\ r \notin holders
        /\ \A i \in 1..Len(waiting) : waiting[i] # r
    BY <1>2 DEF Acquire, Turn, Queued
  <2>2. TypeOK'
    BY <2>1 DEF TypeOK
  <2>3. InLineOnce'
    BY <2>1 DEF TypeOK, InLineOnce
  <2>4. CountIsExact'
    <3>1. active' = Cardinality(holders')
      BY <2>1, HoldersAreCounted DEF CountIsExact
    <3>2. waiting = <<>>
      BY <2>1, <1>2, MaxAssumption DEF TypeOK, CountIsExact
    <3>3. active' + Len(woken') <= Max
      BY <2>1, <1>2, MaxAssumption DEF TypeOK
    <3>4. QED
      BY <2>1, <3>1, <3>2, <3>3 DEF CountIsExact
  <2>5. QED
    BY <2>2, <2>3, <2>4
<1>3. QED
  BY <1>1, <1>2

\* A woken waiter turns its place in the count into a slot.
LEMMA ResumeIInv ==
  ASSUME IInv, Resume
  PROVE  IInv'
<1> USE DEF IInv
<1> DEFINE r == Head(woken)
<1>1. /\ woken # <<>> /\ active' = active + 1 /\ holders' = holders \cup {r}
      /\ woken' = Tail(woken) /\ UNCHANGED <<waiting, hung>>
  BY DEF Resume
<1>2. /\ r \in Request /\ r = woken[1] /\ Len(woken) \in Nat \ {0}
      /\ Len(woken') = Len(woken) - 1
      /\ \A i \in 1..Len(woken') : woken'[i] = woken[i + 1]
      /\ woken' \in Seq(Request)
  BY <1>1 DEF TypeOK
<1>3. r \notin holders
  BY <1>2 DEF InLineOnce
<1>4. TypeOK'
  BY <1>1, <1>2 DEF TypeOK
<1>5. InLineOnce'
  <2>1. \A i \in 1..Len(waiting) : waiting[i] # r
    BY <1>2 DEF InLineOnce
  <2>2. \A i \in 1..Len(woken') : woken'[i] # r /\ woken'[i] \notin holders
    BY <1>2 DEF InLineOnce
  <2>3. \A i, j \in 1..Len(woken') : woken'[i] = woken'[j] => i = j
    BY <1>2 DEF InLineOnce
  <2>4. \A i \in 1..Len(waiting), j \in 1..Len(woken') : waiting[i] # woken'[j]
    BY <1>2 DEF InLineOnce
  <2>5. QED
    BY <1>1, <2>1, <2>2, <2>3, <2>4 DEF InLineOnce
<1>6. CountIsExact'
  <2>1. active' = Cardinality(holders')
    BY <1>1, <1>2, <1>3, HoldersAreCounted DEF CountIsExact
  <2>2. active' + Len(woken') = active + Len(woken)
    BY <1>1, <1>2 DEF TypeOK
  <2>3. QED
    BY <1>1, <2>1, <2>2 DEF CountIsExact
<1>7. QED
  BY <1>4, <1>5, <1>6

\* A release frees a slot, and passes its place in the count on to the
\* first waiter if there is one.
LEMMA ReleaseIInv ==
  ASSUME IInv, NEW r \in holders \ hung, Turn, Release(r)
  PROVE  IInv'
<1> USE DEF IInv
<1>1. /\ active' = active - 1 /\ holders' = holders \ {r} /\ UNCHANGED hung
      /\ woken = <<>> /\ r \in Request
  BY DEF Release, Turn, TypeOK
<1>2. active \in Nat \ {0} /\ active' = Cardinality(holders')
  <2>1. Cardinality(holders) # 0
    BY <1>1, HoldersAreCounted, FS_EmptySet
  <2>2. QED
    BY <2>1, <1>1, HoldersAreCounted DEF TypeOK, CountIsExact
<1>3. CASE waiting = <<>>
  <2>1. UNCHANGED <<waiting, woken>>
    BY <1>3 DEF Release
  <2>2. TypeOK'
    BY <1>1, <1>2, <2>1 DEF TypeOK
  <2>3. InLineOnce'
    BY <1>1, <2>1 DEF InLineOnce
  <2>4. CountIsExact'
    BY <1>1, <1>2, <1>3, <2>1, MaxAssumption DEF TypeOK, CountIsExact
  <2>5. QED
    BY <2>2, <2>3, <2>4
<1>4. CASE waiting # <<>>
  <2>1. woken' = <<Head(waiting)>> /\ waiting' = Tail(waiting)
    BY <1>1, <1>4 DEF Release, Shift, TypeOK
  <2>2. /\ Head(waiting) = waiting[1] /\ Len(waiting) \in Nat \ {0}
        /\ waiting[1] \in Request
        /\ Len(waiting') = Len(waiting) - 1 /\ waiting' \in Seq(Request)
        /\ \A i \in 1..Len(waiting') : waiting'[i] = waiting[i + 1]
        /\ Len(woken') = 1 /\ woken'[1] = waiting[1]
    BY <1>4, <2>1 DEF TypeOK
  <2>3. TypeOK'
    BY <1>1, <1>2, <2>1, <2>2 DEF TypeOK
  <2>4. InLineOnce'
    <3>1. \A i \in 1..Len(waiting') : waiting'[i] \notin holders /\ waiting'[i] # waiting[1]
      BY <2>2 DEF InLineOnce
    <3>2. \A i, j \in 1..Len(waiting') : waiting'[i] = waiting'[j] => i = j
      BY <2>2 DEF InLineOnce
    <3>3. waiting[1] \notin holders
      BY <2>2 DEF InLineOnce
    <3>4. QED
      BY <1>1, <2>2, <3>1, <3>2, <3>3 DEF InLineOnce
  <2>5. CountIsExact'
    BY <1>1, <1>2, <1>4, <2>2, MaxAssumption DEF TypeOK, CountIsExact
  <2>6. QED
    BY <2>3, <2>4, <2>5
<1>5. QED
  BY <1>3, <1>4

\* Every step preserves the inductive invariant.
LEMMA NextIInv == IInv /\ [Next]_vars => IInv'
<1> SUFFICES ASSUME IInv, [Next]_vars PROVE IInv'
  OBVIOUS
<1>1. ASSUME NEW r \in Request, Acquire(r) PROVE IInv'
  BY <1>1, AcquireIInv
<1>2. ASSUME NEW r \in Request, Succeed(r) PROVE IInv'
  BY <1>2, ReleaseIInv DEF Succeed
<1>3. ASSUME NEW r \in Request, FailGeneration(r) PROVE IInv'
  BY <1>3, ReleaseIInv DEF FailGeneration
<1>4. ASSUME NEW r \in Request, Hang(r) PROVE IInv'
  BY <1>4 DEF Hang, IInv, TypeOK, InLineOnce, CountIsExact
<1>5. CASE Resume
  BY <1>5, ResumeIInv
<1>6. CASE UNCHANGED vars
  BY <1>6 DEF vars, IInv, TypeOK, InLineOnce, CountIsExact
<1>7. QED
  BY <1>1, <1>2, <1>3, <1>4, <1>5, <1>6 DEF Next

\* The types, nobody in line twice, and the exact count always hold.
THEOREM Invariance == Spec => []IInv
  BY InitIInv, NextIInv, PTL DEF Spec

\* The variables keep their types.
THEOREM TypeCorrect == Spec => []TypeOK
<1>1. IInv => TypeOK
  BY DEF IInv
<1>2. QED
  BY <1>1, Invariance, PTL

\* However many requests come, no more than Max generate at once.
THEOREM Throttled == Spec => []AtMostMax
<1>1. IInv => AtMostMax
  BY MaxAssumption DEF IInv, TypeOK, CountIsExact, AtMostMax
<1>2. QED
  BY <1>1, Invariance, PTL

\* Nobody waits while a slot is free, whatever fails.
THEOREM NoLostWakeup == Spec => []NoIdleSlot
<1>1. IInv => NoIdleSlot
  BY MaxAssumption DEF IInv, TypeOK, CountIsExact, NoIdleSlot, Turn
<1>2. QED
  BY <1>1, Invariance, PTL

\* Who gets a slot in a step is the first in line, or there is no line.
LEMMA StepServesTheFirst ==
  ASSUME IInv, [Next]_vars, NEW r \in holders' \ holders
  PROVE  IF r \in Queued THEN r = Head(woken \o waiting) ELSE Queued = {}
<1>1. ASSUME NEW q \in Request, Acquire(q) PROVE Queued = {}
  <2>1. active < Max /\ woken = <<>>
    BY <1>1, MaxAssumption DEF Acquire, Turn, IInv, TypeOK
  <2>2. waiting = <<>>
    BY <2>1, MaxAssumption DEF IInv, TypeOK, CountIsExact
  <2>3. QED
    BY <2>1, <2>2 DEF Queued
<1>2. CASE Resume
  <2>1. r = Head(woken) /\ woken # <<>>
    BY <1>2 DEF Resume
  <2>2. Len(woken) \in Nat \ {0} /\ r = woken[1]
    BY <2>1 DEF IInv, TypeOK
  <2>3. r \in Queued
    BY <2>2 DEF Queued
  <2>4. Head(woken \o waiting) = r
    BY <2>1, <2>2 DEF IInv, TypeOK
  <2>5. QED
    BY <2>3, <2>4
<1>3. CASE \E q \in Request : Succeed(q) \/ FailGeneration(q) \/ Hang(q)
  BY <1>3 DEF Succeed, FailGeneration, Release, Hang
<1>4. CASE UNCHANGED vars
  BY <1>4 DEF vars
<1>5. QED
  BY <1>1, <1>2, <1>3, <1>4 DEF Next, Queued

\* Slots are given in the order they were asked for.
THEOREM FirstComeFirstServed == Spec => NoOvertaking
<1>1. IInv /\ [Next]_vars =>
        [\A r \in holders' \ holders :
           IF r \in Queued THEN r = Head(woken \o waiting) ELSE Queued = {}]_vars
  BY StepServesTheFirst
<1>2. QED
  BY <1>1, Invariance, PTL DEF Spec, NoOvertaking
=============================================================================
