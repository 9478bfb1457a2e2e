--------------------------- MODULE ThumbnailSlots ---------------------------
(***************************************************************************)
(* The semaphore of lib/thumbnails.ts and its one caller, the thumbnail    *)
(* handler of routes/files.ts.  An action is what one request's handler    *)
(* does from the end of one await to the next; Node runs it to completion. *)
(*                                                                         *)
(* A release does not hand its slot over: it lowers `active' and resolves  *)
(* the next waiter's promise, and that waiter raises `active' in a         *)
(* microtask of its own.  The microtasks run before any other event, so no *)
(* request can come in between; `woken' is the queue of those microtasks.  *)
(***************************************************************************)
EXTENDS Naturals, Sequences, FiniteSets

CONSTANTS
  Request, \* thumbnail requests that may be in progress at once
  Max,     \* MAX_CONCURRENT_GENERATIONS
  MaxHung  \* bound on the generations that never settle

ASSUME RequestAssumption == IsFiniteSet(Request)
ASSUME MaxAssumption     == Max \in Nat \ {0} /\ MaxHung \in Nat

VARIABLES
  active,  \* the semaphore's count
  waiting, \* its queue of waiters
  woken,   \* waiters resolved whose microtask has not run
  holders, \* requests between their acquire and their release
  hung     \* those of them whose generation will never settle

vars == <<active, waiting, woken, holders, hung>>

TypeOK ==
  /\ active \in Nat
  /\ waiting \in Seq(Request)
  /\ woken \in Seq(Request)
  /\ holders \subseteq Request
  /\ hung \subseteq holders

Queued == {waiting[i] : i \in 1..Len(waiting)} \cup {woken[i] : i \in 1..Len(woken)}

Init ==
  /\ active = 0
  /\ waiting = <<>> /\ woken = <<>>
  /\ holders = {} /\ hung = {}

\* The microtask queue is empty: an event may be handled.
AnyTurn == TRUE \* mutant of Turn: the waiter is resumed by a timer
Turn    == woken = <<>>

\* acquireThumbnailSlot, up to its await.
Acquire(r) ==
  /\ Turn
  /\ r \notin holders \cup Queued
  /\ IF active >= Max
     THEN /\ waiting' = Append(waiting, r)
          /\ UNCHANGED <<active, holders>>
     ELSE /\ active' = active + 1
          /\ holders' = holders \cup {r}
          /\ UNCHANGED waiting
  /\ UNCHANGED <<woken, hung>>

\* acquireThumbnailSlot, after its await.
Resume ==
  /\ woken # <<>>
  /\ active' = active + 1
  /\ holders' = holders \cup {Head(woken)}
  /\ woken' = Tail(woken)
  /\ UNCHANGED <<waiting, hung>>

\* waiting.shift(): who is next, and who is left.
Last(q)  == <<q[Len(q)], SubSeq(q, 1, Len(q) - 1)>> \* mutant of Shift: pop()
Shift(q) == <<Head(q), Tail(q)>>

\* The function acquireThumbnailSlot returns.  Its `released' flag guards a
\* second call, which the caller never makes.
Release(r) ==
  /\ active' = active - 1
  /\ holders' = holders \ {r}
  /\ IF waiting = <<>>
     THEN UNCHANGED <<waiting, woken>>
     ELSE /\ woken' = Append(woken, Shift(waiting)[1])
          /\ waiting' = Shift(waiting)[2]
  /\ UNCHANGED hung

\* The handler's try ends, its thumbnail stored and the row marked ready.
Succeed(r) == Turn /\ r \in holders \ hung /\ Release(r)

\* Mutant of FailGeneration: the release is in the try, not in the finally.
KeepSlot(r) ==
  /\ Turn /\ r \in holders \ hung
  /\ holders' = holders \ {r}
  /\ UNCHANGED <<active, waiting, woken, hung>>

\* Any call of the try rejects, the row is marked failed; finally.
FailGeneration(r) == Turn /\ r \in holders \ hung /\ Release(r)

\* The generation never settles: nothing times ffmpeg out, and an image
\* whose download breaks off never ends the sharp pipe it was piped into
\* (pipe() forwards no error, thumbnails.ts:51).
Hang(r) ==
  /\ Turn
  /\ r \in holders \ hung /\ Cardinality(hung) < MaxHung
  /\ hung' = hung \cup {r}
  /\ UNCHANGED <<active, waiting, woken, holders>>

Next ==
  \/ \E r \in Request : Acquire(r) \/ Succeed(r) \/ FailGeneration(r) \/ Hang(r)
  \/ Resume

\* Microtasks always run; a generation that does not hang ends.  Nobody
\* need ask for a thumbnail, and none need hang.
Fairness ==
  /\ WF_vars(Resume)
  /\ \A r \in Request : WF_vars(Succeed(r) \/ FailGeneration(r))

Spec == Init /\ [][Next]_vars /\ Fairness

-----------------------------------------------------------------------------
(* Properties.                                                             *)

\* No more generations at once than the limit, though a slot is free
\* between a release and its waiter's microtask (thumbnails.ts:13-19).
AtMostMax == Cardinality(holders) <= Max

\* Nobody waits while a slot is free: no wakeup is lost, and no failure
\* keeps its slot (README "everything past that just waits its turn").
NoIdleSlot == Turn /\ waiting # <<>> => Cardinality(holders) = Max

\* Slots are given in the order they were asked for: a waiter gets one only
\* as the first of the queue, a newcomer only when there is no queue.
NoOvertaking ==
  [][\A r \in holders' \ holders :
        IF r \in Queued THEN r = Head(woken \o waiting) ELSE Queued = {}]_vars

\* Every waiter gets a slot in the end, as long as one slot is left by the
\* generations that hang (thumbnails.ts:19 "nothing is dropped").
WaitersAreServed ==
  \A r \in Request : r \in Queued ~> r \in holders
=============================================================================
