---------------------------- MODULE Reachability ----------------------------
(***************************************************************************)
(* One appliance's Reachability object (health.py) under the two threads   *)
(* that use it without a lock (bridge.py):                                 *)
(*                                                                         *)
(*   session  run_forever: mark_down after every attempt or session that   *)
(*            ends, mark_up once a session is seeded, and the online notice *)
(*   health   _health_loop: crossed_offline every few seconds, and the     *)
(*            offline notice                                               *)
(*                                                                         *)
(* The interpreter (CPython, with its lock) switches threads at calls and  *)
(* at loops only: after crossed_offline's call of outage_s, before and     *)
(* after mark_up's resets, and between a decision and its notice.  Time is *)
(* kept as ages: down_since is how long ago the outage is held to have     *)
(* begun, and stops counting at OfflineAfter, where no comparison changes. *)
(***************************************************************************)
EXTENDS Naturals

CONSTANTS Null, OfflineAfter

ASSUME ReachabilityAssumption == Null \notin Nat /\ OfflineAfter \in Nat

VARIABLES
    conn,              \* where the session thread is
    down_since,        \* age of down_since, Null for None
    offline_notified,
    was_notified,      \* mark_up's local
    health,            \* where the health thread is
    down_for,          \* history: age of the real outage, Null when reachable
    overdue,           \* history: did the health thread measure this outage as too long
    told,              \* history: the True results of crossed_offline since the outage began
    owed,              \* history: was an offline decided with no online decided since
    shown,             \* history: the latest notice handed to _dispatch
    raced,             \* history: did a reconnect overlap a crossed_offline that saw an outage,
    overlap            \* history: and does one overlap the call in hand, or the latest one

reach == <<down_since, offline_notified, was_notified>>
history == <<overdue, told, owed, shown, raced, overlap>>
vars == <<conn, reach, health, down_for, history>>

Ages == 0..OfflineAfter
ConnStates == {"trying", "reading", "notifying", "up", "ended"}

Init ==
    /\ conn = "trying"
    /\ down_since = Null /\ offline_notified = FALSE /\ was_notified = FALSE
    /\ health = "idle"
    /\ down_for = 0
    /\ overdue = FALSE /\ told = 0 /\ owed = FALSE /\ shown = "none" /\ raced = FALSE
    /\ overlap = FALSE

\* A connection attempt or a seed failed, or a session is torn down: the loop
\* of run_forever marks the appliance down and will try again.
MarkDown ==
    /\ conn \in {"trying", "ended"}
    /\ conn' = "trying"
    /\ down_since' = IF down_since = Null THEN 0 ELSE down_since
    /\ UNCHANGED <<offline_notified, was_notified, health, down_for, history>>

\* The handshake and the seed succeed: the appliance is reachable, and the
\* session thread enters mark_up.
Seeded ==
    /\ conn = "trying" /\ conn' = "reading"
    /\ down_for' = Null /\ overdue' = FALSE
    /\ raced' = (raced \/ health # "idle") /\ overlap' = (overlap \/ health # "idle")
    /\ UNCHANGED <<reach, health, told, owed, shown>>

\* Mutant: the two locals of mark_up are mixed up.
MarkUpMixed ==
    /\ conn = "reading" /\ conn' = "notifying"
    /\ was_notified' = down_since
    /\ owed' = (owed /\ ~offline_notified)
    /\ down_since' = Null /\ offline_notified' = FALSE
    /\ UNCHANGED <<health, down_for, overdue, told, shown, raced, overlap>>

\* Mutant: mark_up leaves down_since.
MarkUpKeepsSince ==
    /\ conn = "reading" /\ conn' = "notifying"
    /\ was_notified' = offline_notified
    /\ owed' = (owed /\ ~offline_notified)
    /\ offline_notified' = FALSE
    /\ UNCHANGED <<down_since, health, down_for, overdue, told, shown, raced, overlap>>

\* Mutant: mark_up leaves the flag.
MarkUpKeepsFlag ==
    /\ conn = "reading" /\ conn' = "notifying"
    /\ was_notified' = offline_notified
    /\ owed' = (owed /\ ~offline_notified)
    /\ down_since' = Null
    /\ UNCHANGED <<offline_notified, health, down_for, overdue, told, shown, raced, overlap>>

\* mark_up: remembers the flag and resets both.
MarkUp ==
    /\ conn = "reading" /\ conn' = "notifying"
    /\ was_notified' = offline_notified
    /\ owed' = (owed /\ ~offline_notified)
    /\ down_since' = Null /\ offline_notified' = FALSE
    /\ UNCHANGED <<health, down_for, overdue, told, shown, raced, overlap>>

\* Mutant: looks at the flag itself, which mark_up has reset.
NotifyOnlineRereads ==
    /\ conn = "notifying" /\ conn' = "up"
    /\ shown' = IF offline_notified THEN "online" ELSE shown
    /\ UNCHANGED <<reach, health, down_for, overdue, told, owed, raced, overlap>>

\* _mark_reachable: the online notice, if one is due; then the workers start.
NotifyOnline ==
    /\ conn = "notifying" /\ conn' = "up"
    /\ shown' = IF was_notified THEN "online" ELSE shown
    /\ UNCHANGED <<reach, health, down_for, overdue, told, owed, raced, overlap>>

\* The session ends: the reader exits, or the keepalive finds it half open.
SessionEnds ==
    /\ conn = "up" /\ conn' = "ended"
    /\ down_for' = 0 /\ told' = 0
    /\ UNCHANGED <<reach, health, overdue, owed, shown, raced, overlap>>

\* crossed_offline: outage = self.outage_s(now), when it is long enough.  A
\* call that finds no outage, or a shorter one, returns False.
Measure ==
    /\ health = "idle" /\ health' = "measured"
    /\ down_since = OfflineAfter
    /\ overdue' = (overdue \/ down_for # Null)
    /\ raced' = (raced \/ down_for = Null) /\ overlap' = (down_for = Null)
    /\ UNCHANGED <<conn, reach, down_for, told, owed, shown>>

\* Mutant: crossed_offline does not look at the flag.
DecideAlways ==
    /\ health = "measured" /\ health' = "telling"
    /\ offline_notified' = TRUE /\ told' = told + 1 /\ owed' = TRUE
    /\ UNCHANGED <<conn, down_since, was_notified, down_for, overdue, shown, raced, overlap>>

\* crossed_offline: the test of the flag, and setting it.
Decide ==
    /\ health = "measured"
    /\ IF offline_notified
         THEN health' = "idle" /\ UNCHANGED <<offline_notified, told, owed>>
         ELSE /\ health' = "telling"
              /\ offline_notified' = TRUE /\ told' = told + 1 /\ owed' = TRUE
    /\ UNCHANGED <<conn, down_since, was_notified, down_for, overdue, shown, raced, overlap>>

NotifyOffline ==
    /\ health = "telling" /\ health' = "idle"
    /\ shown' = "offline"
    /\ UNCHANGED <<conn, reach, down_for, overdue, told, owed, raced, overlap>>

Older(age) == IF age = Null \/ age = OfflineAfter THEN age ELSE age + 1

Tick ==
    /\ down_since' = Older(down_since) /\ down_for' = Older(down_for)
    /\ UNCHANGED <<conn, offline_notified, was_notified, health, history>>

Session == MarkDown \/ Seeded \/ MarkUp \/ NotifyOnline \/ SessionEnds
Health == Measure \/ Decide \/ NotifyOffline

Next == Session \/ Health \/ Tick

Spec == Init /\ [][Next]_vars

\* An attempt ends, one way or the other (the handshake and the GETs have timeouts),
\* and a session that has ended is marked down; mark_up and its notice return, the
\* health loop goes round, time passes.  No attempt need ever succeed, for one that
\* fails again changes nothing here, and no session need ever end.
FairSpec ==
    /\ Spec
    /\ WF_vars(MarkDown) /\ WF_vars(MarkUp) /\ WF_vars(NotifyOnline)
    /\ WF_vars(Health) /\ WF_vars(Tick)

-----------------------------------------------------------------------------
\* The variables keep their types.
TypeOK ==
    /\ conn \in ConnStates
    /\ {down_since, down_for} \subseteq Ages \cup {Null}
    /\ {offline_notified, was_notified, overdue, owed, raced, overlap} \subseteq BOOLEAN
    /\ health \in {"idle", "measured", "telling"}
    /\ told \in Nat
    /\ shown \in {"none", "offline", "online"}

\* However attempts, sessions and health passes alternate, an offline notice is early
\* only when the appliance came back during the very call of crossed_offline that decides
\* it: in any other the appliance really has been unreachable that long, whatever
\* overlapped earlier calls (health.py:28, 39, 43-49).
NoEarlyOffline == [][told' > told => overlap \/ down_for = OfflineAfter]_vars

\* mark_up makes an online notice due only when an offline one was decided since
\* it last did; this holds in every interleaving of the two threads
\* (health.py:38, 40, 48).
OnlineIsOwed == [][conn = "reading" /\ conn' = "notifying" /\ was_notified' => owed]_vars

\* The docstring of crossed_offline (health.py:44) says "True exactly once per
\* outage, when it exceeds the threshold."  Half of it: an outage the health
\* thread has measured as too long has been reported when that call is over.
EveryOutageReported == overdue /\ health = "idle" => told >= 1

\* The whole of it holds until a reconnect runs through mark_up while the health
\* thread is between measuring an outage and telling about it (health.py:43-49).
OnceUnlessRaced == raced \/ (EveryOutageReported /\ told <= 1)

\* And until then a user who reads the notices in order is never left believing
\* a connected appliance offline (bridge.py:434-448, 458-472).
UpIsShownUp == ~raced /\ conn = "up" => shown # "offline"

\* An appliance that stays unreachable, however its attempts go on failing, is in the
\* end reported, unless a race has left the flag of an earlier outage behind and this
\* one is not told of at all (health.py:28, 43-49, bridge.py:140-157, 458-472).
LastingOutageIsShown ==
    <>[](down_for # Null)
        => <>[](shown = "offline" \/ (raced /\ offline_notified /\ told = 0))
=============================================================================
