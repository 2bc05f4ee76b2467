----------------------------- MODULE Supervisor -----------------------------
(***************************************************************************)
(* The process (cli.py, _run) and the session loops of its bridges         *)
(* (bridge.py, run_forever and _session_once), from the side of stopping   *)
(* and of the sessions they own.                                           *)
(*                                                                         *)
(* A signal handler runs on the main thread between any two of its steps,  *)
(* so the handler can interrupt request_stop() and itself.  The block that *)
(* _close_session guards with _session_lock calls nothing, so the          *)
(* interpreter (CPython 3.12, the Dockerfile's) runs no handler inside it  *)
(* and it is one step; so is the block of _session_once, which another     *)
(* thread can only wait for.                                               *)
(***************************************************************************)
EXTENDS Naturals, Sequences

CONSTANTS
    Apps,        \* the appliances that may be configured
    MaxSignals,  \* bound on the number of signals
    MayDie       \* may a bridge's thread die

ASSUME SupervisorAssumption == MaxSignals \in Nat /\ MayDie \in BOOLEAN

VARIABLES
    bridges,     \* the configured ones, each with a bridge, in order
    pc,          \* where each bridge's thread is
    stop,        \* its stop event (and its ConnectCancellation, set right after)
    sess,        \* the DTLS session its thread opened last
    held,        \* is that session in self.session
    main,        \* where the main thread is
    stack,       \* its active request_stop() loops, the innermost last
    requested,   \* stop_requested
    signals,     \* how many signals have arrived
    rc,          \* the exit code
    fresh        \* would --healthcheck find the heartbeat fresh

loops == <<pc, stop, sess, held>>
process == <<bridges, main, stack, requested, signals, rc>>
vars == <<loops, process, fresh>>

\* request_stop() for each bridge: what is left to do, and whether a session was
\* taken from the bridge in hand.
StopAll == [left |-> bridges, at |-> "flag", taken |-> FALSE]

Init ==
    /\ pc = [b \in Apps |-> "top"] /\ stop = [b \in Apps |-> FALSE]
    /\ sess = [b \in Apps |-> "none"] /\ held = [b \in Apps |-> FALSE]
    /\ bridges = <<>> /\ main = "starting" /\ stack = <<>>
    /\ requested = FALSE /\ signals = 0 /\ rc = 0 /\ fresh = FALSE

-----------------------------------------------------------------------------
Goto(b, from, to) == pc[b] = from /\ pc' = [pc EXCEPT ![b] = to]

Top(b) ==    \* while not self.stop.is_set()
    /\ Goto(b, "top", IF stop[b] THEN "exited" ELSE "opening")
    /\ UNCHANGED <<stop, sess, held, process, fresh>>

\* open_session(): the probe or the handshake fails, or is cancelled.
ConnectFails(b) ==
    /\ Goto(b, "opening", "closing")
    /\ UNCHANGED <<stop, sess, held, process, fresh>>

\* Or it succeeds, maybe in spite of a stop that comes too late to cancel it.
Connect(b) ==
    /\ Goto(b, "opening", "opened")
    /\ sess' = [sess EXCEPT ![b] = "open"]
    /\ UNCHANGED <<stop, held, process, fresh>>

\* Mutant: stores the session without looking at the stop event again.
StoreUnchecked(b) ==
    /\ Goto(b, "opened", "seeding") /\ held' = [held EXCEPT ![b] = TRUE]
    /\ UNCHANGED <<stop, sess, process, fresh>>

\* Mutant: gives up the session without closing it.
StoreDrops(b) ==
    /\ IF stop[b]
         THEN Goto(b, "opened", "closing") /\ UNCHANGED held
         ELSE Goto(b, "opened", "seeding") /\ held' = [held EXCEPT ![b] = TRUE]
    /\ UNCHANGED <<stop, sess, process, fresh>>

\* _session_once(): under the lock, either gives up the session or publishes it.
Store(b) ==
    /\ IF stop[b]
         THEN Goto(b, "opened", "closing") /\ sess' = [sess EXCEPT ![b] = "closed"] /\ UNCHANGED held
         ELSE Goto(b, "opened", "seeding") /\ held' = [held EXCEPT ![b] = TRUE] /\ UNCHANGED sess
    /\ UNCHANGED <<stop, process, fresh>>

\* The GET of the seed: it fails, or it succeeds and the workers start.
SeedFails(b) ==
    Goto(b, "seeding", "closing") /\ UNCHANGED <<stop, sess, held, process, fresh>>

Seeded(b) ==
    /\ sess[b] = "open" /\ Goto(b, "seeding", "running")
    /\ UNCHANGED <<stop, sess, held, process, fresh>>

\* The socket dies, or the keepalive finds the session half open and closes it.
SessionEnds(b) ==
    /\ sess[b] = "open"
    /\ \/ sess' = [sess EXCEPT ![b] = "dead"]
       \/ pc[b] = "running" /\ sess' = [sess EXCEPT ![b] = "closed"]
    /\ UNCHANGED <<pc, stop, held, process, fresh>>

\* sess.join() returns, the workers are joined.
Joined(b) ==
    /\ sess[b] # "open" /\ Goto(b, "running", "closing")
    /\ UNCHANGED <<stop, sess, held, process, fresh>>

\* Mutant: forgets the session without closing it.
CloseForgets(b) ==
    /\ Goto(b, "closing", "waiting")
    /\ held' = [held EXCEPT ![b] = FALSE]
    /\ UNCHANGED <<stop, sess, process, fresh>>

\* run_forever(): _close_session().
Close(b) ==
    /\ Goto(b, "closing", "waiting")
    /\ held' = [held EXCEPT ![b] = FALSE]
    /\ sess' = [sess EXCEPT ![b] = IF held[b] THEN "closed" ELSE @]
    /\ UNCHANGED <<stop, process, fresh>>

\* The backoff, which a stop cuts short.
Wait(b) ==
    /\ Goto(b, "waiting", IF stop[b] THEN "exited" ELSE "top")
    /\ UNCHANGED <<stop, sess, held, process, fresh>>

\* The thread dies of something run_forever does not catch.
Die(b) ==
    /\ MayDie /\ Goto(b, "waiting", "exited")
    /\ UNCHANGED <<stop, sess, held, process, fresh>>

-----------------------------------------------------------------------------
Frame == stack[Len(stack)]
Below == SubSeq(stack, 1, Len(stack) - 1)

\* _on_signal(), up to its loop over the bridges.
Signal ==
    /\ signals < MaxSignals /\ main \in {"watching", "cleaning"}
    /\ signals' = signals + 1 /\ requested' = TRUE
    /\ stack' = Append(stack, StopAll)
    /\ UNCHANGED <<loops, bridges, main, rc, fresh>>

\* The steps of request_stop(), in the innermost loop.
SetStop ==
    /\ stack # <<>> /\ Frame.at = "flag"
    /\ stop' = [stop EXCEPT ![Head(Frame.left)] = TRUE]
    /\ stack' = Append(Below, [Frame EXCEPT !.at = "take"])
    /\ UNCHANGED <<pc, sess, held, bridges, main, requested, signals, rc, fresh>>

TakeSession ==
    /\ stack # <<>> /\ Frame.at = "take"
    /\ LET b == Head(Frame.left)
       IN /\ stack' = Append(Below, [Frame EXCEPT !.at = "close", !.taken = held[b]])
          /\ held' = [held EXCEPT ![b] = FALSE]
    /\ UNCHANGED <<pc, stop, sess, bridges, main, requested, signals, rc, fresh>>

CloseTaken ==
    /\ stack # <<>> /\ Frame.at = "close"
    /\ sess' = IF Frame.taken THEN [sess EXCEPT ![Head(Frame.left)] = "closed"] ELSE sess
    /\ stack' = IF Len(Frame.left) = 1 THEN Below
                ELSE Append(Below, [StopAll EXCEPT !.left = Tail(Frame.left)])
    /\ UNCHANGED <<pc, stop, held, bridges, main, requested, signals, rc, fresh>>

Bridged == {bridges[i] : i \in DOMAIN bridges}

Alive(b) == pc[b] # "exited"

\* _run(): the sender and the bridges' threads start.
Launch(apps) ==
    /\ main = "starting" /\ main' = "watching" /\ bridges' = apps
    /\ UNCHANGED <<loops, stack, requested, signals, rc, fresh>>

\* Mutant: the heartbeat is touched while any bridge lives.
BeatIfAny ==
    /\ main = "watching" /\ stack = <<>> /\ \E b \in Bridged : Alive(b)
    /\ fresh' = TRUE /\ UNCHANGED <<loops, process>>

Beat ==    \* one round of the watching loop
    /\ main = "watching" /\ stack = <<>> /\ \A b \in Bridged : Alive(b)
    /\ fresh' = TRUE /\ UNCHANGED <<loops, process>>

HeartbeatAges == fresh /\ fresh' = FALSE /\ UNCHANGED <<loops, process>>

\* All bridges are gone: the exit code, and the loop of the finally.
Leave ==
    /\ main = "watching" /\ stack = <<>> /\ \A b \in Bridged : ~Alive(b)
    /\ main' = "cleaning" /\ rc' = IF requested THEN 0 ELSE 1
    /\ stack' = <<StopAll>>
    /\ UNCHANGED <<loops, bridges, requested, signals, fresh>>

\* sender.stop() takes at most its timeouts.
Exit ==
    /\ main = "cleaning" /\ stack = <<>> /\ main' = "exited"
    /\ UNCHANGED <<loops, bridges, stack, requested, signals, rc, fresh>>

Step(b) ==
    \/ Top(b) \/ ConnectFails(b) \/ Connect(b) \/ Store(b) \/ SeedFails(b) \/ Seeded(b)
    \/ Joined(b) \/ Close(b) \/ Wait(b)
Main == SetStop \/ TakeSession \/ CloseTaken \/ Leave \/ Exit

\* When the main thread has returned, the daemon threads end with it.
Next ==
    \/ main # "exited" /\ \E b \in Bridged : Step(b) \/ SessionEnds(b) \/ Die(b)
    \/ Signal \/ Main \/ Beat \/ HeartbeatAges

\* Every call a thread makes returns (GETs and handshakes have timeouts) and every
\* thread is scheduled; sessions need not end by themselves and signals need not come.
Fairness ==
    /\ \A b \in Apps : WF_vars(main # "exited" /\ b \in Bridged /\ Step(b))
    /\ WF_vars(Main) /\ WF_vars(HeartbeatAges)

-----------------------------------------------------------------------------
\* A bridge never has two sessions with its appliance, which accepts only one
\* (README.md:388): the next handshake succeeds only when the previous session has
\* been closed, whoever was to close it (bridge.py:160-165, 213-219).
OneSession ==
    [][\A b \in Apps : pc[b] = "opening" /\ pc'[b] = "opened" => sess[b] \in {"none", "closed"}]_vars

\* A stop that races with a handshake leaves no session behind: when a bridge's
\* thread has ended and no request_stop() is under way, what it opened is closed
\* (bridge.py:130-133, 215-219).
NoSessionLeaks ==
    stack = <<>> => \A b \in Apps : ~Alive(b) => sess[b] \in {"none", "closed"}

\* After a signal the process ends, even if the session it finds is established
\* only while it is being stopped, and even if another signal interrupts the
\* handler (cli.py:187-191, bridge.py:130-158).
StopCompletes == requested ~> main = "exited"

\* When a bridge thread has died the heartbeat goes stale, or the process ends
\* (cli.py:219-225), although the other bridges go on.
DeadBridgeIsSeen ==
    \A b \in Apps : <>(b \in Bridged /\ ~Alive(b)) => <>[](main = "exited" \/ ~fresh)
=============================================================================
