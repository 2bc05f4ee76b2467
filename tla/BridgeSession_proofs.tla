------------------------ MODULE BridgeSession_proofs ------------------------
(***************************************************************************)
(* Proofs about BridgeSession, for any resources and any number of changes *)
(* and sessions: the first snapshot is whole, the hold is broken by no-one *)
(* but an old settle timer, and no change is lost.                         *)
(***************************************************************************)
EXTENDS BridgeSession, TLAPS

ThreadOk(w) ==
    /\ w = [pc |-> w.pc, todo |-> w.todo, source |-> w.source]
    /\ w.pc \in {"idle", "apply", "hook", "eval"}
    /\ DOMAIN w.todo \subseteq Resources

ThreadsOk ==
    /\ thread = [t \in Threads |-> thread[t]]
    /\ \A t \in Threads : ThreadOk(thread[t])

PhaseOk ==
    /\ phase \in {"down", "subscribed", "applying", "lifted", "up"}
    /\ suppress \in BOOLEAN
    /\ suppress <=> phase \in {"subscribed", "applying"}
    /\ armed \in BOOLEAN /\ settling \in BOOLEAN

\* Who can be at work in which phase.
AtWork ==
    /\ phase = "down" => \A t \in Threads : thread[t].pc = "idle"
    /\ phase # "applying" => thread["session"].pc = "idle"
    /\ \A t \in Threads : thread[t].pc = "eval" => ~suppress

\* The cache fills while the seed is applied, and is whole wherever it is evaluated.
CacheFills ==
    /\ cache = [r \in DOMAIN cache |-> cache[r]] /\ DOMAIN cache \subseteq Resources
    /\ \A t \in Threads : thread[t].pc = "idle" => DOMAIN thread[t].todo = {}
    /\ phase = "applying" => Resources \subseteq DOMAIN cache \cup DOMAIN thread["session"].todo
    /\ phase \in {"lifted", "up"} \/ armed \/ settling => DOMAIN cache = Resources

\* The inductive invariant.
BInv == ThreadsOk /\ PhaseOk /\ AtWork /\ CacheFills /\ NoLostChange

-----------------------------------------------------------------------------
LEMMA WaitingIsOk == ThreadOk(Waiting) /\ Waiting.pc = "idle" /\ DOMAIN Waiting.todo = {}
  BY DEF ThreadOk, Waiting, Nothing

LEMMA BInit == Init => BInv
<1> SUFFICES ASSUME Init
             PROVE  BInv
  OBVIOUS
<1>1. \A t \in Threads : thread[t] = Waiting
  BY DEF Init
<1>2. DOMAIN cache = {} /\ cache = [r \in DOMAIN cache |-> cache[r]]
  BY DEF Init, Nothing
<1>3. ThreadsOk
  BY <1>1, WaitingIsOk DEF Init, ThreadsOk
<1>4. PhaseOk
  BY DEF Init, PhaseOk
<1>5. AtWork /\ CacheFills /\ NoLostChange
  BY <1>1, <1>2, WaitingIsOk DEF Init, AtWork, CacheFills, NoLostChange, Threads
<1> QED
  BY <1>3, <1>4, <1>5 DEF BInv

\* After an evaluation the state judged last is that of the cache.
LEMMA EvaluateJudges ==
    ASSUME NEW outage, Evaluate(outage)
    PROVE  last' = Flatten(cache)
  BY DEF Evaluate, evaluation

-----------------------------------------------------------------------------
\* A representation is stored.
LEMMA ApplyRepKeeps ==
    ASSUME BInv, NEW t \in Threads, ApplyRep(t)
    PROVE  BInv'
<1>1. PICK r \in DOMAIN thread[t].todo :
        LET rep == thread[t].todo[r]
            changed == ~(r \in DOMAIN cache /\ cache[r] = rep)
            rest == [q \in DOMAIN thread[t].todo \ {r} |-> thread[t].todo[q]]
        IN /\ cache' = [q \in {r} \cup DOMAIN cache |-> IF q = r THEN rep ELSE cache[q]]
           /\ thread' = [thread EXCEPT ![t] =
                  IF changed THEN [@ EXCEPT !.pc = "hook", !.todo = rest]
                  ELSE IF rest = Nothing THEN Waiting ELSE [@ EXCEPT !.todo = rest]]
  BY DEF ApplyRep
<1> DEFINE w == thread[t]
           rest == [q \in DOMAIN w.todo \ {r} |-> w.todo[q]]
           changed == ~(r \in DOMAIN cache /\ cache[r] = w.todo[r])
<1>2. /\ ThreadOk(w) /\ w.pc = "apply"
      /\ UNCHANGED <<phase, suppress, armed, settling, last>>
  BY DEF ApplyRep, BInv, ThreadsOk, evaluation
<1>3. /\ cache' = [x \in {r} \cup DOMAIN cache |-> IF x = r THEN w.todo[r] ELSE cache[x]]
      /\ r \in Resources
  BY <1>1, <1>2 DEF ThreadOk
<1>4. PICK v : v = IF changed THEN [w EXCEPT !.pc = "hook", !.todo = rest]
                   ELSE IF rest = Nothing THEN Waiting ELSE [w EXCEPT !.todo = rest]
  OBVIOUS
<1>5. thread' = [thread EXCEPT ![t] = v]
  BY <1>1, <1>4
<1>6. DOMAIN rest = DOMAIN w.todo \ {r} /\ (rest = Nothing => DOMAIN rest = {})
  BY DEF Nothing
<1> HIDE DEF rest
<1>7. /\ ThreadOk(v) /\ v.pc \in {"idle", "apply", "hook"} /\ DOMAIN v.todo = DOMAIN rest
      /\ v.pc = "idle" => DOMAIN v.todo = {}
      /\ changed => v.pc = "hook"
  <2>1. CASE changed
    BY <1>2, <1>4, <1>6, <2>1 DEF ThreadOk
  <2>2. CASE ~changed /\ rest = Nothing
    BY <1>4, <1>6, <2>2, WaitingIsOk
  <2>3. CASE ~changed /\ rest # Nothing
    BY <1>2, <1>4, <1>6, <2>3 DEF ThreadOk
  <2> QED
    BY <2>1, <2>2, <2>3
<1>8. ~changed => cache' = cache
  BY <1>3 DEF BInv, CacheFills
<1> HIDE DEF changed
<1>9. /\ thread' = [s \in Threads |-> thread'[s]] /\ thread'[t] = v
      /\ \A s \in Threads : s # t => thread'[s] = thread[s]
  BY <1>5 DEF BInv, ThreadsOk
<1>10. ThreadsOk' /\ PhaseOk'
  BY <1>2, <1>7, <1>9 DEF BInv, ThreadsOk, PhaseOk, ThreadOk
<1>11. AtWork'
  BY <1>2, <1>7, <1>9 DEF BInv, AtWork, Threads
<1>12. CacheFills'
  <2>1. /\ cache' = [x \in DOMAIN cache' |-> cache'[x]]
        /\ DOMAIN cache' = {r} \cup DOMAIN cache /\ DOMAIN cache \subseteq Resources
    BY <1>3 DEF BInv, CacheFills
  <2>2. \A s \in Threads : thread'[s].pc = "idle" => DOMAIN thread'[s].todo = {}
    BY <1>7, <1>9 DEF BInv, CacheFills
  <2>3. "session" \in Threads /\ DOMAIN thread["session"].todo
           \subseteq {r} \cup DOMAIN thread'["session"].todo
    BY <1>6, <1>7, <1>9 DEF Threads
  <2> QED
    BY <1>2, <1>3, <2>1, <2>2, <2>3 DEF BInv, CacheFills
<1>13. NoLostChange'
  <2>1. CASE changed
    BY <1>7, <1>9, <2>1 DEF NoLostChange
  <2>2. CASE ~changed
    <3>1. \A s \in Threads : thread[s].pc \in {"hook", "eval"} => thread'[s].pc \in {"hook", "eval"}
      BY <1>2, <1>9
    <3> QED
      BY <1>2, <1>8, <2>2, <3>1 DEF BInv, NoLostChange
  <2> QED
    BY <2>1, <2>2
<1> QED
  BY <1>10, <1>11, <1>12, <1>13 DEF BInv

\* GoOn leaves the thread idle or with something to apply.
LEMMA GoesOn ==
    ASSUME BInv, NEW t \in Threads
    PROVE  /\ ThreadOk(GoOn(t)) /\ GoOn(t).pc \in {"idle", "apply"}
           /\ GoOn(t).pc = "idle" => DOMAIN GoOn(t).todo = {}
           /\ DOMAIN GoOn(t).todo = DOMAIN thread[t].todo
<1>1. ThreadOk(thread[t])
  BY DEF BInv, ThreadsOk
<1>2. CASE thread[t].todo = Nothing
  <2>1. DOMAIN thread[t].todo = {}
    BY <1>2 DEF Nothing
  <2> QED
    BY <1>2, <2>1, WaitingIsOk DEF GoOn
<1>3. CASE thread[t].todo # Nothing
  BY <1>1, <1>3 DEF GoOn, ThreadOk
<1> QED
  BY <1>2, <1>3

\* A thread goes on to v with the representations it had; nothing but the timer moves.
LEMMA ThreadMoves ==
    ASSUME BInv, NEW t \in Threads, NEW v, ThreadOk(v), thread[t].pc # "idle",
           DOMAIN v.todo = DOMAIN thread[t].todo, v.pc = "idle" => DOMAIN v.todo = {},
           v.pc = "eval" => ~suppress,
           thread' = [thread EXCEPT ![t] = v], UNCHANGED <<phase, suppress, cache, settling>>,
           armed' \in BOOLEAN, armed' => armed \/ phase \in {"lifted", "up"}
    PROVE  ThreadsOk' /\ PhaseOk' /\ AtWork' /\ CacheFills'
<1>1. /\ thread' = [s \in Threads |-> thread'[s]] /\ thread'[t] = v
      /\ \A s \in Threads : s # t => thread'[s] = thread[s]
  BY DEF BInv, ThreadsOk
<1>2. ThreadsOk' /\ PhaseOk'
  BY <1>1 DEF BInv, ThreadsOk, PhaseOk, ThreadOk
<1>3. AtWork'
  BY <1>1 DEF BInv, AtWork, Threads
<1>4. CacheFills'
  BY <1>1 DEF BInv, CacheFills, Threads
<1> QED
  BY <1>2, <1>3, <1>4

LEMMA HookKeeps ==
    ASSUME BInv, NEW t \in Threads, Hook(t)
    PROVE  BInv'
<1>1. PICK v : v = IF suppress \/ thread[t].source = "sweep" THEN GoOn(t)
                   ELSE [thread[t] EXCEPT !.pc = "eval"]
  OBVIOUS
<1>2. /\ thread' = [thread EXCEPT ![t] = v] /\ thread[t].pc = "hook"
      /\ armed' = (armed \/ (~suppress /\ thread[t].source = "sweep"))
      /\ UNCHANGED <<phase, suppress, cache, settling, last>>
  BY <1>1 DEF Hook, evaluation
<1>3. ThreadOk(thread[t])
  BY DEF BInv, ThreadsOk
<1>4. /\ ThreadOk(v) /\ DOMAIN v.todo = DOMAIN thread[t].todo
      /\ v.pc = "idle" => DOMAIN v.todo = {}
      /\ v.pc = "eval" => ~suppress
      /\ v.pc = "eval" \/ suppress \/ thread[t].source = "sweep"
  <2>1. CASE suppress \/ thread[t].source = "sweep"
    BY <1>1, <2>1, GoesOn
  <2>2. CASE ~(suppress \/ thread[t].source = "sweep")
    BY <1>1, <1>2, <1>3, <2>2 DEF ThreadOk
  <2> QED
    BY <2>1, <2>2
<1>5. ~suppress => phase \in {"lifted", "up"}
  BY <1>2 DEF BInv, PhaseOk, AtWork
<1>6. armed \in BOOLEAN /\ suppress \in BOOLEAN
  BY DEF BInv, PhaseOk
<1>7. armed' \in BOOLEAN /\ (armed' => armed \/ phase \in {"lifted", "up"})
  BY <1>2, <1>5, <1>6
<1>8. ThreadsOk' /\ PhaseOk' /\ AtWork' /\ CacheFills'
  BY <1>2, <1>4, <1>7, ThreadMoves
<1>9. thread'[t] = v
  BY <1>2 DEF BInv, ThreadsOk
<1>10. phase = "up" => armed' \/ thread'[t].pc = "eval"
  BY <1>2, <1>4, <1>9 DEF BInv, PhaseOk
<1>11. NoLostChange'
  BY <1>2, <1>10 DEF NoLostChange
<1> QED
  BY <1>8, <1>11 DEF BInv

LEMMA EvaluateChangeKeeps ==
    ASSUME BInv, NEW t \in Threads, EvaluateChange(t)
    PROVE  BInv'
<1>1. PICK v : v = GoOn(t)
  OBVIOUS
<1>2. /\ thread' = [thread EXCEPT ![t] = v] /\ thread[t].pc = "eval"
      /\ UNCHANGED <<phase, suppress, cache, settling, armed>>
      /\ last' = Flatten(cache)
  BY <1>1, EvaluateJudges DEF EvaluateChange
<1>3. armed \in BOOLEAN
  BY DEF BInv, PhaseOk
<1>4. /\ ThreadOk(v) /\ v.pc \in {"idle", "apply"} /\ DOMAIN v.todo = DOMAIN thread[t].todo
      /\ v.pc = "idle" => DOMAIN v.todo = {}
  BY <1>1, GoesOn
<1>5. ThreadsOk' /\ PhaseOk' /\ AtWork' /\ CacheFills'
  BY <1>2, <1>3, <1>4, ThreadMoves
<1>6. NoLostChange'
  BY <1>2 DEF NoLostChange
<1> QED
  BY <1>5, <1>6 DEF BInv

-----------------------------------------------------------------------------
\* Representations leave the appliance: S is what t has taken.
LEMMA Taken ==
    ASSUME BInv, NEW t \in Threads, NEW S, S \subseteq Resources, NEW source, Take(t, S, source)
    PROVE  /\ ThreadsOk' /\ thread[t].pc = "idle"
           /\ thread'[t].pc = "apply" /\ DOMAIN thread'[t].todo = S
           /\ \A s \in Threads : s # t => thread'[s] = thread[s]
           /\ UNCHANGED <<suppress, cache, armed, settling, last>>
<1>1. PICK v : v = [pc |-> "apply", todo |-> Tree(S), source |-> source]
  OBVIOUS
<1>2. ThreadOk(v) /\ v.pc = "apply" /\ DOMAIN v.todo = S
  BY <1>1 DEF ThreadOk, Tree
<1>3. /\ thread[t] = Waiting /\ thread' = [thread EXCEPT ![t] = v]
      /\ UNCHANGED <<suppress, cache, armed, settling, last>>
  BY <1>1 DEF Take, evaluation
<1>4. /\ thread' = [s \in Threads |-> thread'[s]] /\ thread'[t] = v
      /\ \A s \in Threads : s # t => thread'[s] = thread[s]
  BY <1>3 DEF BInv, ThreadsOk
<1> QED
  BY <1>2, <1>3, <1>4, WaitingIsOk DEF BInv, ThreadsOk, ThreadOk

LEMMA TakeKeeps ==
    ASSUME BInv, NEW t \in {"reader", "poll"}, NEW S, S \subseteq Resources, NEW source,
           Take(t, S, source), phase # "down", phase' = phase
    PROVE  BInv'
<1>1. /\ ThreadsOk' /\ thread[t].pc = "idle" /\ thread'[t].pc = "apply" /\ t \in Threads
      /\ "session" \in Threads /\ t # "session"
      /\ \A s \in Threads : s # t => thread'[s] = thread[s]
      /\ UNCHANGED <<suppress, cache, armed, settling, last>>
  BY Taken DEF Threads
<1>2. PhaseOk'
  BY <1>1 DEF BInv, PhaseOk
<1>3. AtWork' /\ CacheFills'
  BY <1>1 DEF BInv, AtWork, CacheFills
<1>4. \A s \in Threads : thread[s].pc \in {"hook", "eval"} => thread'[s].pc \in {"hook", "eval"}
  BY <1>1
<1>5. NoLostChange'
  BY <1>1, <1>4 DEF BInv, NoLostChange
<1> QED
  BY <1>1, <1>2, <1>3, <1>5 DEF BInv

\* The session thread.
LEMMA SessionKeeps ==
    ASSUME BInv, Session \/ TearDown
    PROVE  BInv'
<1>1. CASE Subscribe
  BY <1>1 DEF Subscribe, evaluation, BInv, ThreadsOk, ThreadOk, PhaseOk, AtWork, CacheFills,
              NoLostChange
<1>2. CASE SeedRead
  <2>1. /\ ThreadsOk' /\ DOMAIN thread'["session"].todo = Resources
        /\ thread'["session"].pc = "apply"
        /\ \A s \in Threads : s # "session" => thread'[s] = thread[s]
        /\ phase = "subscribed" /\ phase' = "applying"
        /\ UNCHANGED <<suppress, cache, armed, settling, last>>
    BY <1>2, Taken DEF SeedRead, Threads
  <2> QED
    BY <2>1 DEF BInv, PhaseOk, AtWork, CacheFills, NoLostChange
<1>3. CASE Lift
  <2>1. /\ phase = "applying" /\ phase' = "lifted" /\ suppress' = FALSE
        /\ thread["session"] = Waiting
        /\ UNCHANGED <<thread, cache, armed, settling, last>>
    BY <1>3 DEF Lift, evaluation
  <2>2. thread["session"].pc = "idle" /\ DOMAIN thread["session"].todo = {}
    BY <2>1, WaitingIsOk
  <2> QED
    BY <2>1, <2>2 DEF BInv, ThreadsOk, ThreadOk, PhaseOk, AtWork, CacheFills, NoLostChange
<1>4. CASE Seeded
  <2>1. last' = Flatten(cache) /\ phase = "lifted" /\ phase' = "up"
        /\ UNCHANGED <<thread, suppress, cache, armed, settling>>
    BY <1>4, EvaluateJudges DEF Seeded
  <2> QED
    BY <2>1 DEF BInv, ThreadsOk, ThreadOk, PhaseOk, AtWork, CacheFills, NoLostChange
<1>5. CASE TearDown
  <2>1. /\ \A t \in Threads : thread[t].pc = "idle"
        /\ phase \in {"up", "subscribed"} /\ phase' = "down" /\ suppress' = FALSE
        /\ UNCHANGED <<thread, cache, armed, settling, last>>
    BY <1>5, WaitingIsOk DEF TearDown, evaluation
  <2> QED
    BY <2>1 DEF BInv, ThreadsOk, ThreadOk, PhaseOk, AtWork, CacheFills, NoLostChange, Threads
<1> QED
  BY <1>1, <1>2, <1>3, <1>4, <1>5 DEF Session

LEMMA TimerKeeps ==
    ASSUME BInv, Timer
    PROVE  BInv'
<1>1. CASE Fire
  BY <1>1 DEF Fire, evaluation, BInv, ThreadsOk, ThreadOk, PhaseOk, AtWork, CacheFills, NoLostChange
<1>2. CASE Settle
  <2>1. /\ last' = Flatten(cache) /\ settling /\ settling' = FALSE
        /\ UNCHANGED <<thread, phase, suppress, cache, armed>>
    BY <1>2, EvaluateJudges DEF Settle
  <2> QED
    BY <2>1 DEF BInv, ThreadsOk, ThreadOk, PhaseOk, AtWork, CacheFills, NoLostChange
<1> QED
  BY <1>1, <1>2 DEF Timer

LEMMA IdleKeeps ==
    ASSUME BInv, UNCHANGED <<phase, suppress, cache, thread, armed, settling, last>>
    PROVE  BInv'
  BY DEF BInv, ThreadsOk, ThreadOk, PhaseOk, AtWork, CacheFills, NoLostChange

LEMMA BNext ==
    ASSUME BInv, [Next]_vars
    PROVE  BInv'
<1>1. CASE \E r \in Resources : Change(r)
  BY <1>1, IdleKeeps DEF Change, evaluation
<1>2. CASE \E r \in Resources : Receive(r)
  BY <1>2, TakeKeeps DEF Receive
<1>3. CASE \E r \in PollPaths : Poll(r)
  BY <1>3, TakeKeeps, SessionAssumption DEF Poll
<1>4. CASE Sweep
  BY <1>4, TakeKeeps DEF Sweep
<1>5. CASE Session \/ TearDown
  BY <1>5, SessionKeeps
<1>6. CASE Timer
  BY <1>6, TimerKeeps
<1>7. CASE \E t \in Threads : Work(t)
  BY <1>7, ApplyRepKeeps, HookKeeps, EvaluateChangeKeeps DEF Work
<1>8. CASE UNCHANGED vars
  BY <1>8, IdleKeeps DEF vars, evaluation
<1> QED
  BY <1>1, <1>2, <1>3, <1>4, <1>5, <1>6, <1>7, <1>8 DEF Next

LEMMA BInvHolds == Spec => []BInv
<1>1. BInv /\ [Next]_vars => BInv'
  BY BNext
<1> QED
  BY <1>1, BInit, PTL DEF Spec

-----------------------------------------------------------------------------
\* For any resources, changes and sessions: when the session is up and the cache
\* differs from what was judged, someone is about to evaluate (bridge.py:299-303,
\* 348-372).
THEOREM NoLostChangeHolds == Spec => []NoLostChange
<1>1. BInv => NoLostChange
  BY DEF BInv
<1> QED
  BY <1>1, BInvHolds, PTL

\* What evaluates, and when.
LEMMA WhoEvaluates ==
    ASSUME BInv, [Next]_vars, last' # last
    PROVE  \/ settling
           \/ ~suppress /\ phase \in {"lifted", "up"}
<1>1. CASE \E r \in Resources : Change(r) \/ Receive(r)
  BY <1>1 DEF Change, Receive, Take, evaluation
<1>2. CASE (\E r \in PollPaths : Poll(r)) \/ Sweep
  BY <1>2 DEF Poll, Sweep, Take, evaluation
<1>3. CASE Session \/ TearDown
  <2>1. CASE Seeded
    BY <2>1 DEF Seeded, BInv, PhaseOk
  <2>2. CASE Subscribe \/ SeedRead \/ Lift \/ TearDown
    BY <2>2 DEF Subscribe, SeedRead, Lift, TearDown, Take, evaluation
  <2> QED
    BY <1>3, <2>1, <2>2 DEF Session
<1>4. CASE Timer
  BY <1>4 DEF Timer, Fire, Settle, evaluation
<1>5. CASE \E t \in Threads : Work(t)
  <2>1. PICK t \in Threads : Work(t)
    BY <1>5
  <2>2. CASE EvaluateChange(t)
    <3>1. thread[t].pc = "eval" /\ ~suppress /\ phase # "down"
      BY <2>2 DEF EvaluateChange, BInv, AtWork
    <3> QED
      BY <3>1 DEF BInv, PhaseOk
  <2>3. CASE ApplyRep(t) \/ Hook(t)
    BY <2>3 DEF ApplyRep, Hook, evaluation
  <2> QED
    BY <2>1, <2>2, <2>3 DEF Work
<1>6. CASE UNCHANGED vars
  BY <1>6 DEF vars, evaluation
<1> QED
  BY <1>1, <1>2, <1>3, <1>4, <1>5, <1>6 DEF Next

\* While the hold is on, nothing but the settle timer of an earlier session judges
\* anything (bridge.py:222-226, 349, 372).
THEOREM HoldUnlessTimerHolds == Spec => HoldUnlessTimer
<1>1. BInv /\ [Next]_vars => [suppress /\ last' # last => settling]_vars
  BY WhoEvaluates
<1> QED
  BY <1>1, BInvHolds, PTL DEF Spec, HoldUnlessTimer

\* The snapshot that nothing is compared with is of the whole tree, in every
\* interleaving and however often the seed fails (bridge.py:222-226, 285-289).
THEOREM BaselineIsWholeHolds == Spec => BaselineIsWhole
<1>1. BInv /\ [Next]_vars => [last = Null /\ last' # Null => DOMAIN cache = Resources]_vars
  <2> SUFFICES ASSUME BInv, [Next]_vars, last = Null, last' # Null
               PROVE  DOMAIN cache = Resources
    OBVIOUS
  <2>1. settling \/ phase \in {"lifted", "up"}
    BY WhoEvaluates
  <2> QED
    BY <2>1 DEF BInv, CacheFills
<1> QED
  BY <1>1, BInvHolds, PTL DEF Spec, BaselineIsWhole
=============================================================================
