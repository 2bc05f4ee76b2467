------------------------- MODULE PushoverQueue_proofs -------------------------
(***************************************************************************)
(* Proofs about PushoverQueue, for any number of notifications, attempts   *)
(* and reset times: the sender implements the outbox.                      *)
(***************************************************************************)
EXTENDS PushoverQueue, SequenceTheorems, FiniteSetTheorems, TLAPS

TypeOK ==
    /\ queue \in Seq(Nat)
    /\ pc \in {"idle", "sending", "backoff", "done"}
    /\ caller \in {"running", "draining", "aborting", "returned"}
    /\ note \in Nat \cup {Null}
    /\ sent_count \in Nat /\ failed_count \in Nat /\ submitted \in Nat /\ lost \in Nat
    /\ accepted \in Seq(Nat)
    /\ beforeStop \in Nat \cup {Null}

\* How many notifications the worker has taken from the queue.
Taken == Handled + (IF note = Null THEN 0 ELSE 1)

\* stop() has been called and the worker has not seen its sentinel yet.
SentinelQueued == caller # "running" /\ pc # "done"

SentinelAt == beforeStop - Taken + 1

\* What the queue holds at position i.
Content(i) ==
    IF SentinelQueued /\ i = SentinelAt THEN Sentinel
    ELSE IF SentinelQueued /\ i > SentinelAt THEN Taken + i - 1
    ELSE Taken + i

\* The queue is the notifications not taken yet, in order, with the sentinel behind
\* those that were submitted before stop() was called.
QueueOk ==
    /\ Taken <= submitted
    /\ SentinelQueued => Taken <= beforeStop /\ beforeStop <= submitted
    /\ Len(queue) = submitted - Taken + (IF SentinelQueued THEN 1 ELSE 0)
    /\ \A i \in 1..Len(queue) : queue[i] = Content(i)

\* What the worker has in its hands, and how far stop() has come.
HandsOk ==
    /\ note = Null <=> pc \in {"idle", "done"}
    /\ note # Null => note = Handled + 1
    /\ caller = "running" => pc # "done"
    /\ caller # "running" => beforeStop \in Nat
    /\ pc = "done" => beforeStop <= Handled
    /\ caller = "aborting" => abort
    /\ caller = "returned" => abort \/ pc = "done"

\* The inductive invariant.
QInv == TypeOK /\ QueueOk /\ HandsOk

-----------------------------------------------------------------------------
LEMMA InitQInv == Init => QInv
  BY QueueAssumption DEF Init, QInv, TypeOK, HandsOk, QueueOk, Taken, Handled, SentinelQueued, Content

LEMMA TakenNat == QInv => Taken \in Nat /\ Handled \in Nat
  BY DEF QInv, TypeOK, Taken, Handled

\* A step that settles what is in hand, or only waits, leaves the queue as it is.
LEMMA QueueKept ==
    ASSUME QInv, UNCHANGED <<queue, submitted, beforeStop>>, Taken' = Taken,
           SentinelQueued' = SentinelQueued
    PROVE  QueueOk'
<1>1. SentinelAt' = SentinelAt
  BY DEF SentinelAt
<1>2. \A i : Content(i)' = Content(i)
  BY <1>1 DEF Content
<1> QED
  BY <1>2 DEF QInv, QueueOk

\* A notification is taken from the head of the queue.
LEMMA QueueTaken ==
    ASSUME QInv, queue # <<>>, Head(queue) # Sentinel, queue' = Tail(queue),
           UNCHANGED <<submitted, beforeStop>>, Taken' = Taken + 1,
           SentinelQueued' = SentinelQueued
    PROVE  QueueOk' /\ Head(queue) = Taken + 1
<1>1. /\ Taken \in Nat /\ submitted \in Nat /\ queue \in Seq(Nat)
      /\ SentinelQueued => beforeStop \in Nat
  BY TakenNat DEF QInv, HandsOk, SentinelQueued, TypeOK
<1>2. Len(queue) \in Nat \ {0} /\ Head(queue) = queue[1]
  BY <1>1
<1>3. queue[1] = Content(1)
  BY <1>2 DEF QInv, QueueOk
<1>4. SentinelQueued => SentinelAt # 1
  BY <1>2, <1>3 DEF Content
<1>5. /\ Taken <= submitted
      /\ SentinelQueued => Taken <= beforeStop /\ beforeStop <= submitted
      /\ Len(queue) = submitted - Taken + (IF SentinelQueued THEN 1 ELSE 0)
  BY DEF QInv, QueueOk
<1>6. SentinelQueued => Taken + 1 <= beforeStop
  BY <1>1, <1>4, <1>5 DEF SentinelAt
<1>7. Taken + 1 <= submitted
  BY <1>1, <1>2, <1>5, <1>6
<1>8. SentinelQueued => SentinelAt' = SentinelAt - 1 /\ SentinelAt \in Int /\ SentinelAt > 1
  BY <1>1, <1>6 DEF SentinelAt
<1>9. queue[1] = Taken + 1
  BY <1>1, <1>3, <1>8 DEF Content
<1>10. Len(queue') = Len(queue) - 1 /\ \A i \in 1..Len(queue') : queue'[i] = queue[i + 1]
  BY <1>1, <1>2
<1>11. ASSUME NEW i \in 1..Len(queue') PROVE queue'[i] = Content(i)'
  <2>1. i \in Int /\ i + 1 \in 1..Len(queue)
    BY <1>2, <1>10
  <2>2. queue'[i] = Content(i + 1)
    BY <1>10, <2>1 DEF QInv, QueueOk
  <2>3. Content(i + 1) = Content(i)'
    BY <1>1, <1>8, <2>1 DEF Content
  <2> QED
    BY <2>2, <2>3
<1>12. Len(queue') = submitted - Taken' + (IF SentinelQueued THEN 1 ELSE 0)
  BY <1>1, <1>2, <1>5, <1>10
<1>13. Taken' <= submitted' /\ (SentinelQueued' => Taken' <= beforeStop' /\ beforeStop' <= submitted')
  BY <1>5, <1>6, <1>7
<1>14. Len(queue') = submitted' - Taken' + (IF SentinelQueued' THEN 1 ELSE 0)
  BY <1>12
<1> QED
  BY <1>2, <1>9, <1>11, <1>13, <1>14 DEF QueueOk

\* The sentinel is seen when everything submitted before it has been taken.
LEMMA QueueDrained ==
    ASSUME QInv, GetSentinel
    PROVE  QueueOk' /\ beforeStop <= Handled /\ caller # "running"
<1>1. /\ queue # <<>> /\ Head(queue) = 0 /\ queue' = Tail(queue) /\ pc = "idle" /\ pc' = "done"
      /\ UNCHANGED <<note, sent_count, failed_count, submitted, beforeStop, caller>>
  BY DEF GetSentinel, Runs, Sentinel, counts, history
<1>2. /\ note = Null /\ Taken = Handled /\ Taken' = Taken /\ ~SentinelQueued'
      /\ Taken \in Nat /\ submitted \in Nat /\ queue \in Seq(Nat)
  BY <1>1, TakenNat DEF QInv, HandsOk, TypeOK, Taken, Handled, SentinelQueued
<1>3. Len(queue) \in Nat \ {0} /\ queue[1] = 0
  BY <1>1, <1>2
<1>4. queue[1] = Content(1)
  BY <1>3 DEF QInv, QueueOk
<1>5. SentinelQueued /\ SentinelAt = 1
  <2>1. Taken + 1 # 0 /\ Taken + 1 - 1 \in Nat
    BY <1>2
  <2>2. CASE SentinelQueued /\ 1 > SentinelAt
    <3>1. Taken <= beforeStop /\ beforeStop \in Nat
      BY <2>2 DEF QInv, HandsOk, QueueOk, SentinelQueued
    <3> QED
      BY <1>2, <2>2, <3>1 DEF SentinelAt
  <2>3. CASE ~SentinelQueued \/ ~(1 > SentinelAt)
    BY <1>3, <1>4, <2>1, <2>3 DEF Content
  <2> QED
    BY <2>2, <2>3
<1>6. beforeStop = Taken /\ beforeStop \in Nat
  <2>1. beforeStop \in Nat
    BY <1>5 DEF QInv, HandsOk, SentinelQueued
  <2> QED
    BY <1>2, <1>5, <2>1 DEF SentinelAt
<1>7. /\ Taken <= submitted /\ Len(queue) = submitted - Taken + 1
      /\ \A i \in 1..Len(queue) : queue[i] = Content(i)
  BY <1>5 DEF QInv, QueueOk
<1>8. Len(queue') = Len(queue) - 1 /\ \A i \in 1..Len(queue') : queue'[i] = queue[i + 1]
  BY <1>1, <1>2, <1>3
<1>9. ASSUME NEW i \in 1..Len(queue') PROVE queue'[i] = Content(i)'
  <2>1. i \in Int /\ i >= 1 /\ i + 1 \in 1..Len(queue)
    BY <1>3, <1>8
  <2>2. queue'[i] = Content(i + 1)
    BY <1>7, <1>8, <2>1
  <2>3. Content(i + 1) = Taken + i
    BY <1>2, <1>5, <2>1 DEF Content
  <2>4. Content(i)' = Taken + i
    BY <1>2 DEF Content
  <2> QED
    BY <2>2, <2>3, <2>4
<1>10. Len(queue') = submitted' - Taken' + (IF SentinelQueued' THEN 1 ELSE 0)
  BY <1>1, <1>2, <1>3, <1>7, <1>8
<1>11. caller # "running"
  BY <1>5 DEF SentinelQueued
<1> QED
  BY <1>1, <1>2, <1>6, <1>7, <1>9, <1>10, <1>11 DEF QueueOk

\* A notification joins the queue, behind the sentinel if there is one.
LEMMA QueueGrows ==
    ASSUME QInv, Submit PROVE QueueOk'
<1>1. /\ submitted' = submitted + 1 /\ queue' = Append(queue, submitted + 1)
      /\ UNCHANGED <<pc, note, sent_count, failed_count, caller, beforeStop>>
  BY DEF Submit, worker, counts
<1>2. /\ Taken' = Taken /\ SentinelQueued' = SentinelQueued /\ SentinelAt' = SentinelAt
      /\ Taken \in Nat /\ submitted \in Nat /\ queue \in Seq(Nat) /\ Len(queue) \in Nat
      /\ SentinelQueued => beforeStop \in Nat
  BY <1>1, TakenNat DEF Taken, Handled, SentinelAt, SentinelQueued, QInv, HandsOk, TypeOK
<1>3. /\ Taken <= submitted
      /\ SentinelQueued => Taken <= beforeStop /\ beforeStop <= submitted
      /\ Len(queue) = submitted - Taken + (IF SentinelQueued THEN 1 ELSE 0)
      /\ \A i \in 1..Len(queue) : queue[i] = Content(i)
  BY DEF QInv, QueueOk
<1>4. /\ Len(queue') = Len(queue) + 1 /\ queue'[Len(queue) + 1] = submitted + 1
      /\ \A i \in 1..Len(queue) : queue'[i] = queue[i]
  BY <1>1, <1>2
<1>5. \A i : Content(i)' = Content(i)
  BY <1>2 DEF Content
<1>6. Content(Len(queue) + 1) = submitted + 1
  BY <1>2, <1>3 DEF Content, SentinelAt
<1>7. ASSUME NEW i \in 1..Len(queue') PROVE queue'[i] = Content(i)'
  <2>1. CASE i = Len(queue) + 1
    BY <1>4, <1>5, <1>6, <2>1
  <2>2. CASE i \in 1..Len(queue)
    BY <1>3, <1>4, <1>5, <2>2
  <2> QED
    BY <1>2, <1>4, <2>1, <2>2
<1>8. Len(queue') = submitted' - Taken' + (IF SentinelQueued' THEN 1 ELSE 0)
  BY <1>1, <1>2, <1>3, <1>4
<1>9. Taken' <= submitted' /\ (SentinelQueued' => Taken' <= beforeStop' /\ beforeStop' <= submitted')
  BY <1>1, <1>2, <1>3
<1> QED
  BY <1>7, <1>8, <1>9 DEF QueueOk

\* stop() puts the sentinel behind all that was submitted.
LEMMA QueueStops ==
    ASSUME QInv, Stop PROVE QueueOk'
<1>1. /\ queue' = Append(queue, 0) /\ beforeStop' = submitted
      /\ caller = "running" /\ caller' = "draining"
      /\ UNCHANGED <<pc, note, sent_count, failed_count, submitted>>
  BY DEF Stop, worker, counts, Sentinel
<1>2. /\ Taken' = Taken /\ ~SentinelQueued /\ SentinelQueued'
      /\ Taken \in Nat /\ submitted \in Nat /\ queue \in Seq(Nat) /\ Len(queue) \in Nat
  BY <1>1, TakenNat DEF Taken, Handled, SentinelQueued, QInv, HandsOk, TypeOK
<1>3. /\ Taken <= submitted /\ Len(queue) = submitted - Taken
      /\ \A i \in 1..Len(queue) : queue[i] = Content(i)
  BY <1>2 DEF QInv, QueueOk
<1>4. /\ Len(queue') = Len(queue) + 1 /\ queue'[Len(queue) + 1] = 0
      /\ \A i \in 1..Len(queue) : queue'[i] = queue[i]
  BY <1>1, <1>2
<1>5. SentinelAt' = Len(queue) + 1
  BY <1>1, <1>2, <1>3 DEF SentinelAt
<1>6. ASSUME NEW i \in 1..Len(queue') PROVE queue'[i] = Content(i)'
  <2>1. CASE i = Len(queue) + 1
    BY <1>2, <1>4, <1>5, <2>1 DEF Content, Sentinel
  <2>2. CASE i \in 1..Len(queue)
    <3>1. queue'[i] = Taken + i
      BY <1>2, <1>3, <1>4, <2>2 DEF Content
    <3>2. Content(i)' = Taken + i
      BY <1>2, <1>5, <2>2 DEF Content
    <3> QED
      BY <3>1, <3>2
  <2> QED
    BY <1>2, <1>4, <2>1, <2>2
<1>7. Len(queue') = submitted' - Taken' + (IF SentinelQueued' THEN 1 ELSE 0)
  BY <1>1, <1>2, <1>3, <1>4
<1>8. Taken' <= submitted' /\ (SentinelQueued' => Taken' <= beforeStop' /\ beforeStop' <= submitted')
  BY <1>1, <1>2, <1>3
<1> QED
  BY <1>6, <1>7, <1>8 DEF QueueOk

-----------------------------------------------------------------------------
\* The worker lets go of a notification it has settled.
LEMMA SettleStep ==
    ASSUME QInv, pc \in {"sending", "backoff"}, Idle,
           UNCHANGED <<queue, submitted, beforeStop, caller, abort>>,
           \/ sent_count' = sent_count + 1 /\ failed_count' = failed_count
           \/ sent_count' = sent_count /\ failed_count' = failed_count + 1
    PROVE  QueueOk' /\ HandsOk' /\ Handled' = Handled + 1
<1>1. note \in Nat /\ pc' = "idle" /\ note' = Null
  BY DEF Idle, QInv, HandsOk, TypeOK
<1>2. Handled' = Handled + 1
  <2>1. sent_count \in Nat /\ failed_count \in Nat
    BY DEF QInv, TypeOK
  <2>2. Handled' = sent_count' + failed_count' /\ Handled = sent_count + failed_count
    BY DEF Handled
  <2> QED
    BY <2>1, <2>2
<1>3. Taken' = Taken /\ SentinelQueued' = SentinelQueued
  BY <1>1, <1>2, QueueAssumption, TakenNat DEF Taken, SentinelQueued
<1> QED
  BY <1>1, <1>2, <1>3, QueueKept DEF QInv, HandsOk

\* A step of a thread that takes nothing, settles nothing and submits nothing.
LEMMA WaitStep ==
    ASSUME QInv, UNCHANGED <<queue, note, counts, submitted, beforeStop>>,
           SentinelQueued' = SentinelQueued
    PROVE  QueueOk' /\ Handled' = Handled
<1>1. Taken' = Taken /\ Handled' = Handled
  BY DEF Taken, Handled, counts
<1> QED
  BY <1>1, QueueKept

LEMMA QInvStep == QInv /\ [Next]_vars => QInv'
<1> SUFFICES ASSUME QInv, [Next]_vars PROVE QInv'
  OBVIOUS
<1>1. CASE Submit
  <2>1. QueueOk'
    BY <1>1, QueueGrows
  <2>2. TypeOK' /\ HandsOk'
    BY <1>1 DEF Submit, QInv, TypeOK, HandsOk, Handled, worker, counts
  <2> QED
    BY <2>1, <2>2 DEF QInv
<1>2. CASE GetSentinel
  <2>1. QueueOk' /\ beforeStop <= Handled /\ caller # "running"
    BY <1>2, QueueDrained
  <2>2. TypeOK'
    BY <1>2 DEF GetSentinel, Runs, QInv, TypeOK, counts, history
  <2>3. HandsOk'
    BY <1>2, <2>1 DEF GetSentinel, Runs, QInv, HandsOk, Handled, counts, history
  <2> QED
    BY <2>1, <2>2, <2>3 DEF QInv
<1>3. CASE GetDropped
  <2>1. /\ pc = "idle" /\ note = Null /\ Handled' = Handled + 1 /\ Taken' = Taken + 1
        /\ SentinelQueued' = SentinelQueued
    BY <1>3, TakenNat DEF GetDropped, Runs, QInv, HandsOk, TypeOK, Taken, Handled, SentinelQueued, worker
  <2>2. QueueOk'
    BY <1>3, <2>1, QueueTaken DEF GetDropped, history
  <2>3. TypeOK'
    BY <1>3 DEF GetDropped, QInv, TypeOK, worker, history
  <2>4. HandsOk'
    BY <1>3, <2>1 DEF GetDropped, QInv, HandsOk, worker, history
  <2> QED
    BY <2>2, <2>3, <2>4 DEF QInv
<1>4. CASE Get
  <2>1. /\ pc = "idle" /\ note = Null /\ pc' = "sending" /\ note' = Head(queue) /\ note' \in Nat
        /\ UNCHANGED <<sent_count, failed_count>>
    BY <1>4 DEF Get, Runs, QInv, HandsOk, TypeOK, counts
  <2>2. Handled' = Handled /\ Taken = Handled /\ Taken' = Taken + 1 /\ SentinelQueued' = SentinelQueued
    BY <1>4, <2>1, QueueAssumption, TakenNat DEF Get, Taken, Handled, SentinelQueued
  <2>3. QueueOk' /\ Head(queue) = Taken + 1
    BY <1>4, <2>2, QueueTaken DEF Get, history
  <2>4. TypeOK'
    BY <1>4, <2>1 DEF Get, QInv, TypeOK, counts, history
  <2>5. HandsOk'
    BY <1>4, <2>1, <2>2, <2>3, QueueAssumption DEF Get, QInv, HandsOk, history
  <2> QED
    BY <2>3, <2>4, <2>5 DEF QInv
<1>5. CASE Attempt
  <2>1. PICK answer \in Answers : Transmits(answer) /\ (Sends(answer) \/ Rejected(answer) \/ Fails(answer))
    BY <1>5 DEF Attempt
  <2>2. pc = "sending" /\ note \in Nat
    BY <2>1 DEF Sends, Rejected, Fails, Runs, QInv, HandsOk, TypeOK
  <2>3. accepted' \in Seq(Nat) /\ lost' \in Nat
    <3>1. accepted' \in {accepted, Append(accepted, note)} /\ lost' \in {lost, lost + 1}
      BY <2>1 DEF Transmits
    <3>2. accepted \in Seq(Nat) /\ lost \in Nat
      BY DEF QInv, TypeOK
    <3> QED
      BY <2>2, <3>1, <3>2
  <2>4. CASE Sends(answer)
    <3>1. QueueOk' /\ HandsOk'
      BY <2>2, <2>4, SettleStep DEF Sends
    <3>2. TypeOK'
      BY <2>3, <2>4 DEF Sends, Idle, QInv, TypeOK
    <3> QED
      BY <3>1, <3>2 DEF QInv
  <2>5. CASE Rejected(answer)
    <3>1. QueueOk' /\ HandsOk'
      BY <2>2, <2>5, SettleStep DEF Rejected
    <3>2. TypeOK'
      BY <2>3, <2>5 DEF Rejected, Idle, QInv, TypeOK
    <3> QED
      BY <3>1, <3>2 DEF QInv
  <2>6. CASE Fails(answer) /\ attempt = MaxAttempts
    <3>1. QueueOk' /\ HandsOk'
      BY <2>2, <2>6, SettleStep DEF Fails
    <3>2. TypeOK'
      BY <2>3, <2>6 DEF Fails, Idle, QInv, TypeOK
    <3> QED
      BY <3>1, <3>2 DEF QInv
  <2>7. CASE Fails(answer) /\ attempt # MaxAttempts
    <3>1. QueueOk' /\ Handled' = Handled
      BY <2>2, <2>7, WaitStep DEF Fails, SentinelQueued, counts
    <3>2. TypeOK' /\ HandsOk'
      BY <2>2, <2>3, <2>7, <3>1 DEF Fails, QInv, TypeOK, HandsOk
    <3> QED
      BY <3>1, <3>2 DEF QInv
  <2> QED
    BY <2>1, <2>4, <2>5, <2>6, <2>7
<1>6. CASE Retry
  <2>1. QueueOk' /\ Handled' = Handled
    BY <1>6, WaitStep DEF Retry, Runs, SentinelQueued, history
  <2>2. TypeOK' /\ HandsOk'
    BY <1>6, <2>1 DEF Retry, Runs, QInv, TypeOK, HandsOk, counts, history
  <2> QED
    BY <2>1, <2>2 DEF QInv
<1>7. CASE GiveUp
  <2>1. QueueOk' /\ HandsOk'
    BY <1>7, SettleStep DEF GiveUp, Runs, history
  <2>2. TypeOK'
    BY <1>7 DEF GiveUp, Idle, QInv, TypeOK, history
  <2> QED
    BY <2>1, <2>2 DEF QInv
<1>8. CASE Stop
  <2>1. QueueOk'
    BY <1>8, QueueStops
  <2>2. TypeOK' /\ HandsOk'
    BY <1>8 DEF Stop, QInv, TypeOK, HandsOk, Handled, Sentinel, worker, counts
  <2> QED
    BY <2>1, <2>2 DEF QInv
<1>9. CASE DrainTimesOut \/ StopReturns \/ Tick \/ UNCHANGED vars
  <2>1. /\ UNCHANGED <<queue, pc, note, sent_count, failed_count, submitted, beforeStop, accepted, lost>>
        /\ \/ caller' \in {"draining", "aborting", "returned"} /\ caller # "running"
           \/ caller' = caller
        /\ (caller' = "aborting" => abort') /\ (caller' = "returned" => abort' \/ pc' = "done")
    BY <1>9 DEF DrainTimesOut, StopReturns, Tick, vars, worker, counts, history, QInv, HandsOk
  <2>2. QueueOk' /\ Handled' = Handled
    BY <2>1, WaitStep DEF SentinelQueued, counts
  <2>3. TypeOK' /\ HandsOk'
    BY <2>1, <2>2 DEF QInv, TypeOK, HandsOk
  <2> QED
    BY <2>2, <2>3 DEF QInv
<1> QED
  BY <1>1, <1>2, <1>3, <1>4, <1>5, <1>6, <1>7, <1>8, <1>9 DEF Next, Worker

LEMMA QInvHolds == Spec => []QInv
  BY InitQInv, QInvStep, PTL DEF Spec

\* stop() that returns without having aborted has had everything submitted before handled.
THEOREM DrainedUnlessAbortedHolds == Spec => []DrainedUnlessAborted
<1>1. QInv => DrainedUnlessAborted
  BY DEF QInv, HandsOk, TypeOK, Handled, DrainedUnlessAborted
<1> QED
  BY <1>1, QInvHolds, PTL

-----------------------------------------------------------------------------
(***************************************************************************)
(* The refinement.  Under the invariant what is pending is a run of        *)
(* numbers, which makes each step of the outbox a matter of counting.      *)
(***************************************************************************)
Numbers(from, to) == [i \in 1..(to - from) |-> from + i]

\* The queue without the sentinel.
\* A sequence of the right length with the right elements is the sequence.
IsNumbers(s, from, to) ==
    /\ s \in Seq(Nat) /\ from \in Nat /\ to \in Nat /\ from <= to
    /\ Len(s) = to - from /\ \A i \in 1..(to - from) : s[i] = from + i

LEMMA NumbersAre ==
    ASSUME NEW s, NEW from, NEW to, IsNumbers(s, from, to)
    PROVE  s = Numbers(from, to)
<1> USE DEF IsNumbers
<1>1. Numbers(from, to) \in Seq(Nat) /\ Len(Numbers(from, to)) = to - from
  BY DEF Numbers
<1>2. \A i \in 1..Len(s) : s[i] = Numbers(from, to)[i]
  BY DEF Numbers
<1> QED
  BY <1>1, <1>2, SeqEqual

LEMMA Unsentineled == QInv => RemoveFirst(queue, Sentinel) = Numbers(Taken, submitted)
<1> SUFFICES ASSUME QInv PROVE RemoveFirst(queue, Sentinel) = Numbers(Taken, submitted)
  OBVIOUS
<1>1. /\ Taken \in Nat /\ submitted \in Nat /\ queue \in Seq(Nat) /\ Len(queue) \in Nat
      /\ SentinelQueued => beforeStop \in Nat
  BY TakenNat DEF QInv, TypeOK, HandsOk, SentinelQueued
<1>2. /\ Taken <= submitted
      /\ SentinelQueued => Taken <= beforeStop /\ beforeStop <= submitted
      /\ Len(queue) = submitted - Taken + (IF SentinelQueued THEN 1 ELSE 0)
      /\ \A i \in 1..Len(queue) : queue[i] = Content(i)
  BY DEF QInv, QueueOk
<1>3. CASE ~SentinelQueued
  <2>1. \A i \in 1..Len(queue) : queue[i] = Taken + i /\ queue[i] # 0
    BY <1>1, <1>2, <1>3 DEF Content
  <2>2. RemoveFirst(queue, Sentinel) = queue
    BY <2>1 DEF RemoveFirst, Sentinel
  <2>3. queue = [i \in 1..Len(queue) |-> queue[i]]
    BY <1>1
  <2>4. Len(queue) = submitted - Taken
    BY <1>1, <1>2, <1>3
  <2> QED
    BY <2>1, <2>2, <2>3, <2>4 DEF Numbers
<1>4. CASE SentinelQueued
  <2> DEFINE k == SentinelAt
             n == submitted - Taken
  <2>1. k \in 1..(n + 1) /\ n \in Nat /\ Len(queue) = n + 1
    BY <1>1, <1>2, <1>4 DEF SentinelAt
  <2>2. \A i \in 1..(n + 1) : queue[i] = Content(i)
    BY <1>2, <2>1
  <2>3. \A i \in 1..(n + 1) :
            queue[i] = IF i = k THEN 0 ELSE IF i > k THEN Taken + i - 1 ELSE Taken + i
    BY <1>4, <2>2 DEF Content, Sentinel
  <2> HIDE DEF k, n
  <2>4. \A i \in 1..(n + 1) : queue[i] = 0 <=> i = k
    BY <1>1, <2>1, <2>3
  <2>5. SelectInSeq(queue, LAMBDA v : v = Sentinel) = k
    <3>1. {i \in 1..Len(queue) : queue[i] = Sentinel} = {k}
      BY <2>1, <2>4 DEF Sentinel
    <3>2. Min({k}) = k
      BY <2>1 DEF Min
    <3> QED
      BY <3>1, <3>2 DEF SelectInSeq
  <2>6. RemoveFirst(queue, Sentinel) = SubSeq(queue, 1, k - 1) \o SubSeq(queue, k + 1, n + 1)
    <3>1. \E i \in 1..Len(queue) : queue[i] = Sentinel
      BY <2>1, <2>4 DEF Sentinel
    <3> QED
      BY <2>1, <2>5, <3>1 DEF RemoveFirst, RemoveAt
  <2> DEFINE a == SubSeq(queue, 1, k - 1)
             b == SubSeq(queue, k + 1, n + 1)
  <2>7. /\ a \in Seq(Nat) /\ Len(a) = k - 1 /\ \A i \in 1..(k - 1) : a[i] = queue[i]
        /\ b \in Seq(Nat) /\ Len(b) = n + 1 - k
        /\ \A i \in 1..(n + 1 - k) : b[i] = queue[k + i]
    BY <1>1, <2>1
  <2> HIDE DEF a, b
  <2>8. /\ a \o b \in Seq(Nat) /\ Len(a \o b) = n
        /\ \A i \in 1..n : (a \o b)[i] = IF i <= k - 1 THEN a[i] ELSE b[i - (k - 1)]
    <3>1. /\ a \o b \in Seq(Nat) /\ Len(a \o b) = Len(a) + Len(b)
          /\ \A i \in 1..Len(a) + Len(b) :
                (a \o b)[i] = IF i <= Len(a) THEN a[i] ELSE b[i - Len(a)]
      BY <2>7, ConcatProperties
    <3>2. Len(a) + Len(b) = n
      BY <2>1, <2>7
    <3> QED
      BY <2>7, <3>1, <3>2
  <2>9. ASSUME NEW i \in 1..n PROVE (a \o b)[i] = Taken + i
    <3>1. CASE i < k
      <4>1. (a \o b)[i] = a[i] /\ a[i] = queue[i] /\ i \in 1..(n + 1)
        BY <2>1, <2>7, <2>8, <3>1
      <4> QED
        BY <2>1, <2>3, <3>1, <4>1
    <3>2. CASE i >= k
      <4>1. i - (k - 1) \in 1..(n + 1 - k) /\ i + 1 \in 1..(n + 1) /\ k + (i - (k - 1)) = i + 1
        BY <2>1, <3>2
      <4>2. (a \o b)[i] = queue[i + 1]
        BY <2>1, <2>7, <2>8, <3>2, <4>1
      <4>3. queue[i + 1] = Taken + (i + 1) - 1
        BY <2>1, <2>3, <3>2, <4>1
      <4> QED
        BY <1>1, <4>2, <4>3
    <3>3. i \in Int /\ k \in Int
      BY <2>1
    <3>4. i < k \/ i >= k
      BY <3>3
    <3> QED
      BY <3>1, <3>2, <3>4
  <2>10. a \o b \in Seq(Nat) /\ Len(a \o b) = submitted - Taken
        /\ \A i \in 1..(submitted - Taken) : (a \o b)[i] = Taken + i
    BY <2>8, <2>9 DEF n
  <2>11. IsNumbers(a \o b, Taken, submitted)
    BY <1>1, <1>2, <2>10 DEF IsNumbers
  <2>12. a \o b = Numbers(Taken, submitted)
    BY <2>11, NumbersAre, Zenon
  <2> QED
    BY <2>6, <2>12 DEF a, b
<1> QED
  BY <1>3, <1>4

LEMMA PendingIsNumbers == QInv => Pending = Numbers(Handled, submitted)
<1> SUFFICES ASSUME QInv PROVE Pending = Numbers(Handled, submitted)
  OBVIOUS
<1>1. /\ Handled \in Nat /\ Taken \in Nat /\ submitted \in Nat /\ Taken <= submitted
  BY TakenNat DEF QInv, TypeOK, QueueOk
<1>2. RemoveFirst(queue, Sentinel) = Numbers(Taken, submitted)
  BY Unsentineled
<1>3. Numbers(Taken, submitted) \in Seq(Nat) /\ Len(Numbers(Taken, submitted)) = submitted - Taken
  BY <1>1 DEF Numbers
<1>4. CASE note = Null
  <2>1. Taken = Handled
    BY <1>1, <1>4 DEF Taken
  <2> QED
    BY <1>2, <1>3, <1>4, <2>1 DEF Pending
<1>5. CASE note # Null
  <2>1. Taken = Handled + 1 /\ note = Handled + 1
    BY <1>1, <1>5 DEF Taken, QInv, HandsOk
  <2>2. Pending = <<note>> \o Numbers(Taken, submitted)
    BY <1>2, <1>5 DEF Pending
  <2> DEFINE rest == Numbers(Taken, submitted)
  <2>3. \A i \in 1..(submitted - Taken) : rest[i] = Taken + i
    BY DEF Numbers
  <2> HIDE DEF rest
  <2>4. /\ <<note>> \o rest \in Seq(Nat) /\ Len(<<note>> \o rest) = submitted - Handled
        /\ \A i \in 1..(submitted - Handled) :
              (<<note>> \o rest)[i] = IF i <= 1 THEN <<note>>[i] ELSE rest[i - 1]
    <3>1. <<note>> \in Seq(Nat) /\ Len(<<note>>) = 1 /\ rest \in Seq(Nat)
          /\ Len(rest) = submitted - Taken
      BY <1>1, <1>3, <2>1 DEF rest
    <3>2. /\ <<note>> \o rest \in Seq(Nat) /\ Len(<<note>> \o rest) = Len(<<note>>) + Len(rest)
          /\ \A i \in 1..Len(<<note>>) + Len(rest) :
                (<<note>> \o rest)[i] = IF i <= Len(<<note>>) THEN <<note>>[i]
                                        ELSE rest[i - Len(<<note>>)]
      BY <3>1, ConcatProperties
    <3>3. Len(<<note>>) + Len(rest) = submitted - Handled
      BY <1>1, <2>1, <3>1
    <3> QED
      BY <3>1, <3>2, <3>3
  <2>5. ASSUME NEW i \in 1..(submitted - Handled) PROVE (<<note>> \o rest)[i] = Handled + i
    <3>1. CASE i = 1
      BY <1>1, <2>1, <2>4, <3>1
    <3>2. CASE i # 1
      <4>1. i - 1 \in 1..(submitted - Taken) /\ Taken + (i - 1) = Handled + i /\ ~(i <= 1)
        BY <1>1, <2>1, <3>2
      <4>2. (<<note>> \o rest)[i] = rest[i - 1]
        BY <2>4, <4>1
      <4>3. rest[i - 1] = Taken + (i - 1)
        BY <2>3, <4>1
      <4> QED
        BY <4>1, <4>2, <4>3
    <3> QED
      BY <3>1, <3>2
  <2>6. IsNumbers(<<note>> \o rest, Handled, submitted)
    BY <1>1, <2>1, <2>4, <2>5 DEF IsNumbers
  <2>7. <<note>> \o rest = Numbers(Handled, submitted)
    BY <2>6, NumbersAre, Zenon
  <2> QED
    BY <2>2, <2>7 DEF rest
<1> QED
  BY <1>4, <1>5

\* What the sender holds back is between what is handled and what was submitted.
LEMMA HandledBound == QInv => /\ Handled \in Nat /\ submitted \in Nat /\ Handled <= submitted
                              /\ note # Null => Handled < submitted /\ note = Handled + 1
  BY TakenNat DEF QInv, QueueOk, HandsOk, TypeOK, Taken

LEMMA NumbersFacts ==
    ASSUME NEW from, NEW to, from \in Nat, to \in Nat, from <= to
    PROVE  /\ Len(Numbers(from, to)) = to - from
           /\ Append(Numbers(from, to), to + 1) = Numbers(from, to + 1)
           /\ from < to => /\ Numbers(from, to) # <<>> /\ Head(Numbers(from, to)) = from + 1
                           /\ Tail(Numbers(from, to)) = Numbers(from + 1, to)
<1>1. /\ Numbers(from, to) \in Seq(Nat) /\ Len(Numbers(from, to)) = to - from
      /\ \A i \in 1..(to - from) : Numbers(from, to)[i] = from + i
  BY DEF Numbers
<1> DEFINE s == Numbers(from, to)
<1>2. IsNumbers(Append(s, to + 1), from, to + 1)
  <2> HIDE DEF s
  <2>1. /\ s \in Seq(Nat) /\ Len(s) = to - from
        /\ \A i \in 1..(to - from) : s[i] = from + i
    BY <1>1 DEF s
  <2>2. /\ Append(s, to + 1) \in Seq(Nat) /\ Len(Append(s, to + 1)) = (to + 1) - from
        /\ \A i \in 1..(to - from) : Append(s, to + 1)[i] = s[i]
        /\ Append(s, to + 1)[(to - from) + 1] = to + 1
    BY <2>1
  <2>3. ASSUME NEW i \in 1..((to + 1) - from) PROVE Append(s, to + 1)[i] = from + i
    <3>1. i \in 1..(to - from) \/ i = (to - from) + 1
      OBVIOUS
    <3>2. from + ((to - from) + 1) = to + 1
      OBVIOUS
    <3> QED
      BY <2>1, <2>2, <3>1, <3>2
  <2> QED
    BY <2>2, <2>3 DEF IsNumbers
<1>3. ASSUME from < to PROVE s # <<>> /\ Head(s) = from + 1 /\ IsNumbers(Tail(s), from + 1, to)
  <2> HIDE DEF s
  <2>1. /\ s \in Seq(Nat) /\ Len(s) = to - from
        /\ \A i \in 1..(to - from) : s[i] = from + i
    BY <1>1 DEF s
  <2>2. s # <<>> /\ Head(s) = s[1] /\ 1 \in 1..(to - from)
    BY <1>3, <2>1
  <2>3. /\ Tail(s) \in Seq(Nat) /\ Len(Tail(s)) = to - (from + 1)
        /\ \A i \in 1..(to - (from + 1)) : Tail(s)[i] = s[i + 1]
    BY <1>3, <2>1
  <2>4. ASSUME NEW i \in 1..(to - (from + 1)) PROVE Tail(s)[i] = (from + 1) + i
    <3>1. i + 1 \in 1..(to - from) /\ from + (i + 1) = (from + 1) + i
      OBVIOUS
    <3> QED
      BY <2>1, <2>3, <3>1
  <2> QED
    BY <1>3, <2>1, <2>2, <2>3, <2>4 DEF IsNumbers
<1>4. Append(s, to + 1) = Numbers(from, to + 1)
  BY <1>2, NumbersAre, Zenon
<1>5. from < to => Tail(s) = Numbers(from + 1, to)
  BY <1>3, NumbersAre, Zenon
<1> QED
  BY <1>1, <1>3, <1>4, <1>5

-----------------------------------------------------------------------------
\* The pending notifications, over a step.
PendingOk == Pending = Numbers(Handled, submitted)

LEMMA PendingSame ==
    ASSUME PendingOk, PendingOk', Handled' = Handled, submitted' = submitted
    PROVE  Pending' = Pending
<1>1. Pending' = Numbers(Handled', submitted')
  BY DEF PendingOk, Numbers
<1> QED
  BY <1>1 DEF PendingOk

LEMMA PendingGrows ==
    ASSUME QInv, PendingOk, PendingOk', Handled' = Handled, submitted' = submitted + 1
    PROVE  Pending' = Append(Pending, Handled + Len(Pending) + 1)
<1>1. Pending' = Numbers(Handled', submitted')
  BY DEF PendingOk, Numbers
<1>2. Handled \in Nat /\ submitted \in Nat /\ Handled <= submitted
  BY HandledBound
<1>3. /\ Len(Pending) = submitted - Handled
      /\ Append(Pending, submitted + 1) = Numbers(Handled, submitted + 1)
  BY <1>2, NumbersFacts DEF PendingOk
<1>4. Handled + Len(Pending) + 1 = submitted + 1
  BY <1>2, <1>3
<1> QED
  BY <1>1, <1>3, <1>4

LEMMA PendingSettles ==
    ASSUME QInv, PendingOk, PendingOk', Handled' = Handled + 1, submitted' = submitted,
           Handled < submitted
    PROVE  Pending # <<>> /\ Pending' = Tail(Pending)
<1>1. Pending' = Numbers(Handled', submitted')
  BY DEF PendingOk, Numbers
<1>2. Handled \in Nat /\ submitted \in Nat /\ Handled <= submitted
  BY HandledBound
<1>3. Pending # <<>> /\ Tail(Pending) = Numbers(Handled + 1, submitted)
  BY <1>2, NumbersFacts DEF PendingOk
<1> QED
  BY <1>1, <1>3

LEMMA PendingHead ==
    ASSUME QInv, PendingOk, note # Null
    PROVE  Handled < submitted /\ Pending # <<>> /\ Head(Pending) = note
<1>1. Handled \in Nat /\ submitted \in Nat /\ Handled < submitted /\ note = Handled + 1
  BY HandledBound
<1>2. Pending # <<>> /\ Head(Pending) = Handled + 1
  BY <1>1, NumbersFacts DEF PendingOk
<1> QED
  BY <1>1, <1>2

\* No more is handled than was submitted.
BoundOk == Handled <= submitted

OutboxStep == [Outbox!Next]_(Outbox!vars)

\* Steps the outbox does not see.
LEMMA Unseen ==
    ASSUME PendingOk, PendingOk', UNCHANGED <<counts, submitted, accepted>>
    PROVE  OutboxStep
<1>1. Handled' = Handled
  BY DEF Handled, counts
<1>2. Pending' = Pending
  BY <1>1, PendingSame
<1> QED
  BY <1>2 DEF OutboxStep, Outbox!vars, counts

\* The attempt in hand ends the notification, which the service took or not.
LEMMA Settled ==
    ASSUME QInv, BoundOk', PendingOk, PendingOk', submitted' = submitted, note # Null,
           \/ /\ sent_count' = sent_count + 1 /\ failed_count' = failed_count
              /\ accepted' = Append(accepted, note)
           \/ /\ failed_count' = failed_count + 1 /\ sent_count' = sent_count
              /\ accepted' \in {accepted, Append(accepted, note)}
    PROVE  OutboxStep
<1>1. sent_count \in Nat /\ failed_count \in Nat
  BY DEF QInv, TypeOK
<1>2. Handled' = Handled + 1
  BY <1>1 DEF Handled
<1>3. Handled < submitted /\ Pending # <<>> /\ Head(Pending) = note
  BY PendingHead
<1>4. Pending' = Tail(Pending)
  BY <1>2, <1>3, PendingSettles
<1>5. Outbox!SettleSent \/ Outbox!GiveUp
  BY <1>3, <1>4 DEF Outbox!SettleSent, Outbox!GiveUp, Outbox!Transmit
<1> QED
  BY <1>5 DEF OutboxStep, Outbox!Next

LEMMA OutboxSteps ==
    ASSUME QInv, PendingOk, PendingOk', BoundOk', [Next]_vars
    PROVE  OutboxStep
<1>0. sent_count \in Nat /\ failed_count \in Nat /\ submitted \in Nat /\ (note = Null <=> pc \in {"idle", "done"})
  BY DEF QInv, TypeOK, HandsOk
<1>1. CASE Submit
  <2>1. Handled' = Handled /\ submitted' = submitted + 1 /\ UNCHANGED <<counts, accepted>>
    BY <1>1 DEF Submit, Handled, counts
  <2>2. Pending' = Append(Pending, Handled + Len(Pending) + 1)
    BY <2>1, PendingGrows
  <2>3. Outbox!Hand
    BY <2>1, <2>2 DEF Outbox!Hand, Handled, counts
  <2> QED
    BY <2>3 DEF OutboxStep, Outbox!Next
<1>2. CASE GetDropped
  <2>1. /\ failed_count' = failed_count + 1 /\ sent_count' = sent_count
        /\ submitted' = submitted /\ accepted' = accepted
    BY <1>2 DEF GetDropped, history
  <2>2. Handled' = Handled + 1 /\ Handled \in Nat
    BY <1>0, <2>1 DEF Handled
  <2>3. Handled < submitted
    BY <1>0, <2>1, <2>2 DEF BoundOk
  <2>4. Pending # <<>> /\ Pending' = Tail(Pending)
    BY <2>1, <2>2, <2>3, PendingSettles
  <2> QED
    BY <2>1, <2>4 DEF OutboxStep, Outbox!Next, Outbox!GiveUp
<1>3. CASE GiveUp
  <2>1. note # Null
    BY <1>0, <1>3 DEF GiveUp, Runs
  <2>2. /\ submitted' = submitted /\ accepted' = accepted
        /\ failed_count' = failed_count + 1 /\ sent_count' = sent_count
    BY <1>3 DEF GiveUp, history
  <2> QED
    BY <2>1, <2>2, Settled
<1>4. CASE Attempt
  <2> PICK answer \in Answers : Transmits(answer) /\ (Sends(answer) \/ Rejected(answer) \/ Fails(answer))
    BY <1>4 DEF Attempt
  <2>1. note # Null /\ submitted' = submitted
    BY <1>0 DEF Sends, Rejected, Fails, Runs
  <2>2. accepted' \in {accepted, Append(accepted, note)}
    BY Zenon DEF Transmits
  <2>3. CASE Sends(answer)
    <3>1. accepted' = Append(accepted, note)
      BY <2>3, Zenon DEF Transmits, Sends
    <3> QED
      BY <2>1, <2>3, <3>1, Settled DEF Sends
  <2>4. CASE Rejected(answer)
    BY <2>1, <2>2, <2>4, Settled DEF Rejected
  <2>5. CASE Fails(answer)
    <3>1. CASE attempt = MaxAttempts
      BY <2>1, <2>2, <2>5, <3>1, Settled DEF Fails
    <3>2. CASE attempt # MaxAttempts
      <4>1. UNCHANGED counts
        BY <2>5, <3>2 DEF Fails, counts
      <4>2. CASE accepted' = accepted
        BY <2>1, <4>1, <4>2, Unseen
      <4>3. CASE accepted' = Append(accepted, note)
        <5>1. Pending' = Pending
          BY <2>1, <4>1, PendingSame DEF Handled, counts
        <5>2. Pending # <<>> /\ Head(Pending) = note
          BY <2>1, PendingHead
        <5>3. Outbox!TransmitUnaware
          BY <4>1, <4>3, <5>1, <5>2 DEF Outbox!TransmitUnaware, Outbox!Transmit, counts
        <5> QED
          BY <5>3 DEF OutboxStep, Outbox!Next
      <4> QED
        BY <2>2, <4>2, <4>3
    <3> QED
      BY <3>1, <3>2
  <2> QED
    BY <2>3, <2>4, <2>5
<1>5. CASE UNCHANGED vars
  BY <1>5, Unseen DEF vars, history, counts
<1>6. CASE GetSentinel
  BY <1>6, Unseen DEF GetSentinel, history
<1>7. CASE Get
  BY <1>7, Unseen DEF Get, history
<1>8. CASE Retry
  BY <1>8, Unseen DEF Retry, history
<1>9. CASE Stop
  BY <1>9, Unseen DEF Stop
<1>10. CASE DrainTimesOut
  BY <1>10, Unseen DEF DrainTimesOut, history
<1>11. CASE StopReturns
  BY <1>11, Unseen DEF StopReturns, history
<1>12. CASE Tick
  BY <1>12, Unseen DEF Tick, history
<1> QED
  BY <1>1, <1>2, <1>3, <1>4, <1>5, <1>6, <1>7, <1>8, <1>9, <1>10, <1>11, <1>12 DEF Next, Worker

\* Over retries, quotas, lost answers and a shutdown the sender is an outbox.
THEOREM IsOutboxHolds == Spec => IsOutbox
<1>1. Init => Outbox!Init
  BY DEF Init, Outbox!Init, Pending, RemoveFirst
<1>2. QInv => PendingOk /\ BoundOk
  BY PendingIsNumbers, HandledBound DEF PendingOk, BoundOk
<1>3. QInv /\ PendingOk /\ PendingOk' /\ BoundOk' /\ [Next]_vars => [Outbox!Next]_(Outbox!vars)
  BY OutboxSteps DEF OutboxStep
<1> QED
  BY <1>1, <1>2, <1>3, QInvHolds, PTL DEF Spec, IsOutbox, Outbox!Spec

-----------------------------------------------------------------------------
(***************************************************************************)
(* Repeats.  A notification that the service has although the worker still *)
(* has it in hand owes its next arrival to an answer that was lost.        *)
(***************************************************************************)
Arrived == ToSet(accepted)

RInv ==
    /\ Arrived \subseteq 1..Taken
    /\ Len(accepted) + (IF note # Null /\ note \in Arrived THEN 1 ELSE 0)
           <= Cardinality(Arrived) + lost

LEMMA ArrivedFinite ==
    ASSUME QInv, RInv PROVE IsFiniteSet(Arrived) /\ Cardinality(Arrived) \in Nat
<1>1. IsFiniteSet(1..Taken)
  BY TakenNat, FS_Interval
<1>2. IsFiniteSet(Arrived)
  BY <1>1, FS_Subset DEF RInv
<1> QED
  BY <1>2, FS_CardinalityType

LEMMA ArrivedGrows ==
    ASSUME QInv, RInv, note # Null, accepted' = Append(accepted, note)
    PROVE  /\ Arrived' = Arrived \cup {note} /\ Len(accepted') = Len(accepted) + 1
           /\ Cardinality(Arrived') = Cardinality(Arrived) + (IF note \in Arrived THEN 0 ELSE 1)
<1>1. accepted \in Seq(Nat) /\ note \in Nat
  BY DEF QInv, TypeOK
<1>2. /\ Len(accepted') = Len(accepted) + 1 /\ accepted'[Len(accepted) + 1] = note
      /\ \A i \in 1..Len(accepted) : accepted'[i] = accepted[i]
  BY <1>1
<1>3. Arrived' = Arrived \cup {note}
  <2>1. Arrived = {accepted[i] : i \in 1..Len(accepted)}
    BY DEF Arrived, ToSet
  <2>2. Arrived' = {accepted'[i] : i \in 1..Len(accepted) + 1}
    BY <1>2 DEF Arrived, ToSet
  <2>3. \A i \in 1..Len(accepted) + 1 : i \in 1..Len(accepted) \/ i = Len(accepted) + 1
    BY <1>1
  <2>4. 1..Len(accepted) \subseteq 1..Len(accepted) + 1 /\ Len(accepted) + 1 \in 1..Len(accepted) + 1
    BY <1>1
  <2> QED
    BY <1>2, <2>1, <2>2, <2>3, <2>4
<1>4. IsFiniteSet(Arrived) /\ Cardinality(Arrived) \in Nat
  BY ArrivedFinite
<1>5. Cardinality(Arrived \cup {note}) =
          IF note \in Arrived THEN Cardinality(Arrived) ELSE Cardinality(Arrived) + 1
  BY <1>4, FS_AddElement
<1> QED
  BY <1>2, <1>3, <1>4, <1>5

\* What a worker that takes nothing and hears nothing leaves as it is.
LEMMA RKept ==
    ASSUME QInv, RInv, UNCHANGED <<note, counts, accepted, lost>>
    PROVE  RInv'
  BY DEF RInv, Arrived, Taken, Handled, counts

\* An attempt of the worker.
LEMMA RAttempt ==
    ASSUME QInv, RInv, note # Null,
           note' \in {note, Null}, Taken' = Taken,
           \/ UNCHANGED <<accepted, lost>>
           \/ /\ accepted' = Append(accepted, note)
              /\ lost' = lost + 1 \/ (lost' = lost /\ note' = Null)
    PROVE  RInv'
<1>1. /\ Cardinality(Arrived) \in Nat /\ lost \in Nat /\ Len(accepted) \in Nat /\ Taken \in Nat
      /\ note \in 1..Taken
  BY ArrivedFinite, TakenNat DEF QInv, TypeOK, HandsOk, Taken
<1>2. /\ Arrived \subseteq 1..Taken
      /\ Len(accepted) + (IF note \in Arrived THEN 1 ELSE 0) <= Cardinality(Arrived) + lost
  BY DEF RInv
<1>3. CASE UNCHANGED <<accepted, lost>>
  <2>1. Arrived' = Arrived
    BY <1>3 DEF Arrived
  <2>2. Len(accepted) + (IF note' # Null /\ note' \in Arrived THEN 1 ELSE 0) <= Cardinality(Arrived) + lost
    BY <1>1, <1>2
  <2> QED
    BY <1>2, <1>3, <2>1, <2>2 DEF RInv
<1>4. CASE accepted' = Append(accepted, note) /\ (lost' = lost + 1 \/ (lost' = lost /\ note' = Null))
  <2>1. /\ Arrived' = Arrived \cup {note} /\ Len(accepted') = Len(accepted) + 1
        /\ Cardinality(Arrived') = Cardinality(Arrived) + (IF note \in Arrived THEN 0 ELSE 1)
    BY <1>4, ArrivedGrows
  <2>2. Len(accepted') + (IF note' # Null /\ note' \in Arrived' THEN 1 ELSE 0)
            <= Cardinality(Arrived') + lost'
    <3>1. CASE lost' = lost + 1
      BY <1>1, <1>2, <2>1, <3>1
    <3>2. CASE lost' = lost /\ note' = Null
      BY <1>1, <1>2, <2>1, <3>2
    <3> QED
      BY <1>4, <3>1, <3>2
  <2> QED
    BY <1>1, <1>2, <2>1, <2>2 DEF RInv
<1> QED
  BY <1>3, <1>4

LEMMA RInvStep == ASSUME QInv, RInv, [Next]_vars PROVE RInv'
<1>0. /\ sent_count \in Nat /\ failed_count \in Nat /\ Handled \in Nat
      /\ note = Null <=> pc \in {"idle", "done"}
  BY TakenNat DEF QInv, TypeOK, HandsOk
<1>1. CASE Get
  <2>1. note = Null /\ UNCHANGED <<accepted, lost, counts>>
    BY <1>0, <1>1 DEF Get, Runs, history
  <2>2. Taken = Handled /\ Handled' = Handled
    BY <1>0, <2>1 DEF Taken, Handled, counts
  <2>3. note' = Taken + 1 /\ note' # Null
    <3>1. note' = Head(queue) /\ Taken + 1 \in Nat /\ Taken + 1 # Null
      BY <1>0, <1>1, <2>2, QueueAssumption DEF Get
    <3>2. Head(queue) = Taken + 1
      <4>1. queue # <<>> /\ Head(queue) # Sentinel /\ queue \in Seq(Nat)
        BY <1>1 DEF Get, QInv, TypeOK
      <4>2. queue[1] = Content(1) /\ Head(queue) = queue[1]
        BY <4>1 DEF QInv, QueueOk
      <4> QED
        BY <4>1, <4>2, TakenNat DEF Content, QInv, QueueOk, HandsOk, SentinelQueued, SentinelAt
    <3> QED
      BY <3>1, <3>2
  <2>4. Taken' = Taken + 1
    BY <1>0, <2>2, <2>3 DEF Taken
  <2>5. Arrived' = Arrived /\ Arrived \subseteq 1..Taken /\ Taken \in Nat
    BY <2>1, TakenNat DEF Arrived, RInv
  <2>6. note' \notin Arrived /\ Arrived \subseteq 1..Taken'
    BY <2>3, <2>4, <2>5
  <2> QED
    BY <2>1, <2>5, <2>6 DEF RInv
<1>2. CASE GetDropped
  <2>1. UNCHANGED <<note, accepted, lost>> /\ note = Null
    BY <1>0, <1>2 DEF GetDropped, worker, history, Runs
  <2>2. Taken' = Taken + 1 /\ Taken \in Nat
    BY <1>0, <1>2, <2>1 DEF GetDropped, Taken, Handled
  <2>3. 1..Taken \subseteq 1..Taken'
    BY <2>2
  <2> QED
    BY <2>1, <2>3 DEF RInv, Arrived
<1>3. CASE GiveUp
  <2>1. note # Null /\ note' = Null /\ UNCHANGED <<accepted, lost>>
    BY <1>0, <1>3 DEF GiveUp, Runs, Idle, history
  <2>2. Taken' = Taken
    BY <1>0, <1>3, <2>1 DEF GiveUp, Taken, Handled
  <2> QED
    BY <2>1, <2>2, RAttempt
<1>4. CASE Attempt
  <2> PICK answer \in Answers : Transmits(answer) /\ (Sends(answer) \/ Rejected(answer) \/ Fails(answer))
    BY <1>4 DEF Attempt
  <2>1. note # Null
    BY <1>0 DEF Sends, Rejected, Fails, Runs
  <2>2. \/ UNCHANGED <<accepted, lost>>
        \/ accepted' = Append(accepted, note) /\ lost' = lost + 1
        \/ SendOnce(answer) = "sent" /\ accepted' = Append(accepted, note) /\ lost' = lost
    BY Zenon DEF Transmits
  <2>3. CASE Sends(answer)
    <3>1. note' = Null /\ Taken' = Taken
      BY <1>0, <2>1, <2>3 DEF Sends, Idle, Taken, Handled
    <3> QED
      BY <2>1, <2>2, <3>1, RAttempt
  <2>4. CASE Rejected(answer)
    <3>1. note' = Null /\ Taken' = Taken
      BY <1>0, <2>1, <2>4 DEF Rejected, Idle, Taken, Handled
    <3> QED
      BY <2>1, <2>2, <3>1, RAttempt
  <2>5. CASE Fails(answer)
    <3>1. CASE attempt = MaxAttempts
      <4>1. note' = Null /\ Taken' = Taken
        BY <1>0, <2>1, <2>5, <3>1 DEF Fails, Idle, Taken, Handled
      <4> QED
        BY <2>1, <2>2, <4>1, RAttempt
    <3>2. CASE attempt # MaxAttempts
      <4>1. note' = note /\ Taken' = Taken /\ SendOnce(answer) # "sent"
        BY <2>5, <3>2 DEF Fails, Taken, Handled
      <4>2. \/ UNCHANGED <<accepted, lost>>
            \/ accepted' = Append(accepted, note) /\ lost' = lost + 1
        BY <2>2, <4>1, Zenon
      <4> QED
        BY <2>1, <4>1, <4>2, RAttempt
    <3> QED
      BY <3>1, <3>2
  <2> QED
    BY <2>3, <2>4, <2>5
<1>5. CASE Submit
  BY <1>5, RKept DEF Submit, worker
<1>6. CASE GetSentinel
  BY <1>6, RKept DEF GetSentinel, history
<1>7. CASE Retry
  BY <1>7, RKept DEF Retry, history
<1>8. CASE Stop
  BY <1>8, RKept DEF Stop, worker
<1>9. CASE DrainTimesOut
  BY <1>9, RKept DEF DrainTimesOut, worker, history
<1>10. CASE StopReturns
  BY <1>10, RKept DEF StopReturns, worker, history
<1>11. CASE Tick
  BY <1>11, RKept DEF Tick, worker, history
<1>12. CASE UNCHANGED vars
  BY <1>12, RKept DEF vars, worker, history
<1> QED
  BY <1>1, <1>2, <1>3, <1>4, <1>5, <1>6, <1>7, <1>8, <1>9, <1>10, <1>11, <1>12 DEF Next, Worker

\* A notification arrives again only because an answer was lost.
THEOREM RepeatsAreLostAnswersHolds == Spec => []RepeatsAreLostAnswers
<1>1. Init => RInv
  <2> SUFFICES ASSUME Init PROVE RInv
    OBVIOUS
  <2>1. accepted = <<>> /\ Len(accepted) = 0 /\ Arrived = {}
    BY DEF Init, Arrived, ToSet
  <2> QED
    <3>1. Cardinality(Arrived) = 0 /\ Arrived \subseteq 1..Taken
      BY <2>1, FS_EmptySet
    <3> QED
      BY <2>1, <3>1 DEF Init, RInv
<1>2. QInv /\ RInv /\ [Next]_vars => RInv'
  BY RInvStep
<1>3. QInv /\ RInv => RepeatsAreLostAnswers
  <2> SUFFICES ASSUME QInv, RInv PROVE RepeatsAreLostAnswers
    OBVIOUS
  <2>1. Cardinality(Arrived) \in Nat /\ lost \in Nat /\ Len(accepted) \in Nat
    BY ArrivedFinite DEF QInv, TypeOK
  <2> QED
    BY <2>1 DEF RInv, RepeatsAreLostAnswers, Arrived
<1> QED
  BY <1>1, <1>2, <1>3, QInvHolds, PTL DEF Spec
=============================================================================
