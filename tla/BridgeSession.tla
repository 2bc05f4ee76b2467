---------------------------- MODULE BridgeSession ----------------------------
(***************************************************************************)
(* The data path of one bridge (bridge.py): the threads that write the     *)
(* shared cache and evaluate it, and the hold that keeps them from         *)
(* evaluating a tree that is only partly read.                             *)
(*                                                                         *)
(*   session  subscribes, reads /device/0 and applies it (seed), evaluates *)
(*   reader   applies observe deliveries                                   *)
(*   poll     applies the hot and warm polls and the sweep                 *)
(*   timer    evaluates a few seconds after a sweep changed something      *)
(*                                                                         *)
(* Taking a representation from the appliance, writing it to the cache,    *)
(* testing the hold and evaluating are separate steps with the other       *)
(* threads in between.  An evaluation is one step: _state_lock is held     *)
(* from the snapshot of the cache to the persisted tracker.  A session's   *)
(* reader and poll threads have finished what they do when it is torn down *)
(* (sess.join() and the join of the workers); its settle timer has not.    *)
(***************************************************************************)
EXTENDS CycleEvents

CONSTANTS
    Timeline,        \* href -> the representations the resource goes through
    PollPaths,       \* the resources of the hot and warm tiers
    Sweeps,          \* is there a sweep tier
    ChangesWhileUp,  \* may the appliance change other than between two sessions
    SeedMayFail,     \* may the GET of /device/0 fail
    OutageS,         \* what outage_s() returns when a session is seeded
    MaxSessions      \* bound on the number of sessions

Resources == DOMAIN Timeline
Threads == {"session", "reader", "poll"}

ASSUME SessionAssumption ==
    /\ \A r \in Resources : Len(Timeline[r]) > 0
    /\ PollPaths \subseteq Resources
    /\ {Sweeps, ChangesWhileUp, SeedMayFail} \subseteq BOOLEAN
    /\ OutageS \in OptNat /\ MaxSessions \in Nat

VARIABLES
    at,         \* href -> where in its timeline the appliance is
    phase,      \* of the session thread
    sessions,   \* how many there have been
    suppress,   \* _suppress_changes
    cache,      \* StateCache: href -> representation
    thread,     \* what each thread is doing: pc, representations to apply, their source
    armed,      \* is _sweep_timer set
    settling,   \* is a fired timer about to evaluate
    last,       \* _last_state
    tracker,
    said,       \* history: the kinds of events of the latest evaluation
    unsettled   \* history: the resources whose latest change is a sweep's, not yet judged

evaluation == <<last, tracker, said>>
vars == <<at, phase, sessions, suppress, cache, thread, armed, settling, evaluation, unsettled>>

Real(r) == Timeline[r][at[r]]
Tree(S) == [r \in S |-> Real(r)]

Nothing == <<>>    \* the function with the empty domain
Waiting == [pc |-> "idle", todo |-> Nothing, source |-> "none"]

Init ==
    /\ at = [r \in Resources |-> 1]
    /\ phase = "down" /\ sessions = 0 /\ suppress = FALSE
    /\ cache = Nothing /\ thread = [t \in Threads |-> Waiting]
    /\ armed = FALSE /\ settling = FALSE
    /\ last = Null /\ tracker = Fresh /\ said = {} /\ unsettled = {}

\* The appliance moves on.
Change(r) ==
    /\ at[r] < Len(Timeline[r])
    /\ ChangesWhileUp \/ phase = "down"
    /\ at' = [at EXCEPT ![r] = @ + 1]
    /\ UNCHANGED <<phase, sessions, suppress, cache, thread, armed, settling, evaluation, unsettled>>

\* _evaluate(): returns early when nothing changed.
Evaluate(outage) ==
    LET cur == Flatten(cache)
    IN IF cur = last THEN UNCHANGED evaluation
       ELSE /\ last' = cur
            /\ tracker' = DetectTracker(last, cur, tracker, 0, outage)
            /\ said' = {ev.kind : ev \in ToSet(DetectEvents(last, cur, tracker, 0, outage))}

-----------------------------------------------------------------------------
\* What the three cache-writing threads do with the representations they got.

Take(t, S, source) ==    \* the representations leave the appliance
    /\ thread[t] = Waiting
    /\ thread' = [thread EXCEPT ![t] = [pc |-> "apply", todo |-> Tree(S), source |-> source]]
    /\ UNCHANGED <<at, sessions, suppress, cache, armed, settling, evaluation, unsettled>>

GoOn(t) == IF thread[t].todo = Nothing THEN Waiting ELSE [thread[t] EXCEPT !.pc = "apply"]

\* cache.apply_rep(): stores one representation, calls the hook if it is new.
ApplyRep(t) ==
    /\ thread[t].pc = "apply"
    /\ \E r \in DOMAIN thread[t].todo :
        LET rep == thread[t].todo[r]
            changed == ~(r \in DOMAIN cache /\ cache[r] = rep)
            rest == [q \in DOMAIN thread[t].todo \ {r} |-> thread[t].todo[q]]
        IN /\ cache' = [q \in {r} \cup DOMAIN cache |-> IF q = r THEN rep ELSE cache[q]]
           /\ thread' = [thread EXCEPT ![t] =
                  IF changed THEN [@ EXCEPT !.pc = "hook", !.todo = rest]
                  ELSE IF rest = Nothing THEN Waiting ELSE [@ EXCEPT !.todo = rest]]
           /\ unsettled' = IF thread[t].source # "sweep" THEN unsettled \ {r}
                           ELSE IF changed THEN unsettled \cup {r} ELSE unsettled
    /\ UNCHANGED <<at, phase, sessions, suppress, armed, settling, evaluation>>

\* Mutant: only the seed's own changes are held.
HookHoldsSeed(t) ==
    /\ thread[t].pc = "hook"
    /\ armed' = (armed \/ thread[t].source = "sweep")
    /\ thread' = [thread EXCEPT ![t] =
           IF thread[t].source \in {"seed", "sweep"} THEN GoOn(t) ELSE [@ EXCEPT !.pc = "eval"]]
    /\ UNCHANGED <<at, phase, sessions, suppress, cache, settling, evaluation, unsettled>>

\* Mutant: leaves what a sweep changed to the other tiers.
HookForgetsSweep(t) ==
    /\ thread[t].pc = "hook"
    /\ thread' = [thread EXCEPT ![t] =
           IF suppress \/ thread[t].source = "sweep" THEN GoOn(t) ELSE [@ EXCEPT !.pc = "eval"]]
    /\ UNCHANGED <<at, phase, sessions, suppress, cache, armed, settling, evaluation, unsettled>>

\* _on_cache_change(): drops the change, arms the timer, or goes on to evaluate.
Hook(t) ==
    /\ thread[t].pc = "hook"
    /\ armed' = (armed \/ (~suppress /\ thread[t].source = "sweep"))
    /\ thread' = [thread EXCEPT ![t] =
           IF suppress \/ thread[t].source = "sweep" THEN GoOn(t) ELSE [@ EXCEPT !.pc = "eval"]]
    /\ UNCHANGED <<at, phase, sessions, suppress, cache, settling, evaluation, unsettled>>

EvaluateChange(t) ==
    /\ thread[t].pc = "eval"
    /\ Evaluate(Null)
    /\ thread' = [thread EXCEPT ![t] = GoOn(t)]
    /\ UNCHANGED <<at, phase, sessions, suppress, cache, armed, settling, unsettled>>

-----------------------------------------------------------------------------
\* The reader: a registration reply or a notification arrives.
Receive(r) ==
    /\ phase \in {"subscribed", "applying", "lifted", "up"}
    /\ Take("reader", {r}, "observe")
    /\ UNCHANGED phase

\* The poll thread: a response to a hot or warm GET, or to the sweep's.
Poll(r) == phase = "up" /\ Take("poll", {r}, "poll") /\ UNCHANGED phase
Sweep == Sweeps /\ phase = "up" /\ Take("poll", Resources, "sweep") /\ UNCHANGED phase

\* Mutant: the hold is left to the seed.
SubscribeUnheld ==
    /\ phase = "down" /\ phase' = "subscribed"
    /\ sessions < MaxSessions /\ sessions' = sessions + 1
    /\ UNCHANGED <<at, suppress, cache, thread, armed, settling, evaluation, unsettled>>

\* _session_once(): connects, holds evaluation, subscribes.  Nothing can be
\* delivered before the first subscription, so the hold comes first.
Subscribe ==
    /\ phase = "down" /\ phase' = "subscribed"
    /\ sessions < MaxSessions /\ sessions' = sessions + 1
    /\ suppress' = TRUE
    /\ UNCHANGED <<at, cache, thread, armed, settling, evaluation, unsettled>>

\* seed(): the tree has arrived.
SeedRead ==
    /\ phase = "subscribed" /\ phase' = "applying"
    /\ Take("session", Resources, "seed")

\* The finally of seed().
Lift ==
    /\ phase = "applying" /\ thread["session"] = Waiting /\ phase' = "lifted"
    /\ suppress' = FALSE
    /\ UNCHANGED <<at, sessions, cache, thread, armed, settling, evaluation, unsettled>>

\* Mutant: only the first seed of a process evaluates.
SeededOnce ==
    /\ phase = "lifted" /\ phase' = "up"
    /\ IF last = Null THEN Evaluate(OutageS) ELSE UNCHANGED evaluation
    /\ UNCHANGED <<at, sessions, suppress, cache, thread, armed, settling, unsettled>>

\* The end of seed(): the one evaluation that knows the outage.
Seeded ==
    /\ phase = "lifted" /\ phase' = "up"
    /\ Evaluate(OutageS)
    /\ UNCHANGED <<at, sessions, suppress, cache, thread, armed, settling, unsettled>>

\* run_forever(): the session is over, or its seed failed.  No hold remains.
TearDown ==
    /\ phase = "up" \/ (SeedMayFail /\ phase = "subscribed")
    /\ \A t \in Threads : thread[t] = Waiting
    /\ phase' = "down" /\ suppress' = FALSE
    /\ UNCHANGED <<at, sessions, cache, thread, armed, settling, evaluation, unsettled>>

\* _sweep_settled(): forgets the timer, then evaluates whatever the cache holds.
Fire ==
    /\ armed /\ ~settling /\ armed' = FALSE /\ settling' = TRUE
    /\ UNCHANGED <<at, phase, sessions, suppress, cache, thread, evaluation, unsettled>>

Settle ==
    /\ settling /\ settling' = FALSE
    /\ Evaluate(Null) /\ unsettled' = {}
    /\ UNCHANGED <<at, phase, sessions, suppress, cache, thread, armed>>

Session == Subscribe \/ SeedRead \/ Lift \/ Seeded
Work(t) == ApplyRep(t) \/ Hook(t) \/ EvaluateChange(t)
Timer == Fire \/ Settle

Next ==
    \/ \E r \in Resources : Change(r) \/ Receive(r)
    \/ \E r \in PollPaths : Poll(r)
    \/ Sweep \/ Session \/ TearDown \/ Timer
    \/ \E t \in Threads : Work(t)

Spec == Init /\ [][Next]_vars

\* Threads that have something to do are scheduled, GETs end, and the poll
\* thread comes round to each of its paths as long as the session is up; what
\* the reader receives and when a session ends is up to the network.
FairSpec ==
    /\ Spec
    /\ WF_vars(Session) /\ WF_vars(Timer)
    /\ \A t \in Threads : WF_vars(Work(t))
    /\ \A r \in PollPaths : SF_vars(Poll(r))
    /\ SF_vars(Sweep)

-----------------------------------------------------------------------------
\* The first snapshot of a process, the one nothing is compared with, is of the
\* whole tree, whichever replies come before the seed and however often the seed
\* fails (bridge.py:222-226, 285-289).
BaselineIsWhole == [][last = Null /\ last' # Null => DOMAIN cache = Resources]_vars

\* While the hold is on, nothing is evaluated but by a settle timer that an
\* earlier session left running (bridge.py:222-226, 349, 372).
HoldUnlessTimer == [][suppress /\ last' # last => settling]_vars

\* A change that reached the cache is never lost, although the hold drops the
\* notifications of some and the timer coalesces others: when the session is up
\* and the cache differs from what was judged, someone is about to evaluate
\* (bridge.py:299-303, 348-372).
NoLostChange ==
    phase = "up" /\ Flatten(cache) # last =>
        \/ armed \/ settling
        \/ \E t \in Threads : thread[t].pc \in {"hook", "eval"}

\* The README (README.md:364-367): "if the outage was longer than the time that
\* was remaining, a Run -> Ready jump is read as "finished" rather than
\* "cancelled"".
OutageIsCounted == "cycle_cancelled" \notin said

\* The comment on the settle time (bridge.py:51-54): "Let the hot tier overwrite it
\* before judging."  A machine state that a sweep read too early is not taken for a
\* change while its settle timer runs.
StaleSweepIsNotJudged ==
    [][/\ last # Null /\ last'.machine_state # last.machine_state
       /\ "state" \in unsettled /\ ~settling
       => cache["state"] = Real("state")]_vars

\* If the session stays up and the appliance stops changing, what was judged last
\* is what the appliance is.
FreshInTheEnd ==
    <>[](phase = "up") => <>[](last = Flatten(Tree(Resources)))
=============================================================================
