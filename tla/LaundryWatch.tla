----------------------------- MODULE LaundryWatch -----------------------------
(***************************************************************************)
(* CycleDetector watching an appliance that runs real cycles: what the     *)
(* reader of the notices is told, against what happened.  The link to the  *)
(* appliance can be up (the hot poll sees each change before the next),    *)
(* silent (dead, but not yet noticed) or down, and the process can crash.  *)
(* The appliance behaves as README.md, "Caveats and observed behaviour",   *)
(* and the captures in the tests show it.                                  *)
(***************************************************************************)
EXTENDS CycleDetector

CONSTANTS
    CycleMinutes,   \* how long a cycle runs
    DelayMinutes,   \* how long Delay End waits before it
    SilentMinutes,  \* LIVENESS_WINDOW_S: how long a dead link can go unnoticed
    MaxCycles,      \* bound on the number of cycles
    MayCrash,       \* does the process ever crash
    Skews           \* by how many seconds outage_s can differ from the minutes away

WORKER_JOIN_TIMEOUT_S == 10    \* what the workers may take before mark_down()
SEED_TIMEOUT_S        == 15    \* what the seed's GET may take after now was read

\* The seconds away that outage_s may miss, with those of the minute the last view was in.
Uncounted == 60 + WORKER_JOIN_TIMEOUT_S + SEED_TIMEOUT_S

ASSUME WatchAssumption ==
    /\ CycleMinutes \in Nat /\ CycleMinutes > 1 /\ DelayMinutes \in Nat
    /\ SilentMinutes \in Nat /\ MaxCycles \in Nat /\ MayCrash \in BOOLEAN
    /\ Skews \subseteq (1 - Uncounted)..59

\* All the appliance can show.
Views ==
    [power : {"On"}, machine_state : {"Ready", "Run", "Pause", "End"},
     progress : {"None", "Wash", "Finish"},
     remaining_s : {60 * m : m \in 0..(CycleMinutes + DelayMinutes)},
     delay_end_s : {60 * m : m \in {0} \cup (CycleMinutes + 1)..(CycleMinutes + DelayMinutes)},
     course : {"1C"}, remote_control : {FALSE}, child_lock : {FALSE}, alarms : {<<>>}]

\* How CycleDetector's constants are to be given.
Watching == EvalThreads = 1 /\ Steps = {60} /\ Views \subseteq Snapshots

VARIABLES
    mode,      \* the appliance: "ready", "run", "pause" or "end"
    left,      \* minutes until its cycle ends
    drum,      \* when its drum started to turn, Null while it has not
    cycle,     \* the number of its cycle, and
    completed, \* when each of those that ran to their end did so
    link,      \* "up", "silent" or "down"
    silent,    \* minutes the link was silent for since a snapshot was judged
    away,      \* minutes since the session ended
    seen,      \* the cycle of the snapshot judged last
    ended,     \* the cycles whose end was detected, in order
    timed,     \* was the latest start seen as it happened, and every end and start since
    heard,     \* what the reader takes the appliance to be doing
    doubt      \* may the bridge be out of step with the appliance

appliance == <<mode, left, drum, cycle, completed>>
path      == <<link, silent, away>>
story     == <<seen, ended, timed, heard, doubt>>
wvars     == <<vars, appliance, path, story>>

WInit ==
    /\ Init
    /\ mode = "ready" /\ left = 0 /\ drum = Null /\ cycle = 0 /\ completed = <<>>
    /\ link = "down" /\ silent = 0 /\ away = 0
    /\ seen = 0 /\ ended = <<>> /\ timed = FALSE /\ heard = "idle" /\ doubt = FALSE

Waits == drum = Null /\ left > CycleMinutes

Shown ==
    [power         |-> "On",
     machine_state |-> [ready |-> "Ready", run |-> "Run", pause |-> "Pause", end |-> "End"][mode],
     progress      |-> IF mode = "end" THEN "Finish"
                       ELSE IF mode = "ready" \/ drum = Null THEN "None"
                       ELSE IF left <= 1 THEN "Finish" ELSE "Wash",
     remaining_s   |-> 60 * left,
     delay_end_s   |-> IF Waits THEN 60 * left ELSE 0,
     course        |-> "1C", remote_control |-> FALSE, child_lock |-> FALSE, alarms |-> <<>>]

Watched == link = "up"    \* and so the process is alive

-----------------------------------------------------------------------------
(***************************************************************************)
(* The appliance and its user.  What they do unseen leaves the bridge in   *)
(* doubt; a start or an end unseen, without its time.                      *)
(***************************************************************************)
Acts(boundary) ==
    /\ Watched => last = Shown
    /\ doubt' = (doubt \/ ~Watched)
    /\ timed' = (timed /\ (boundary => Watched))
    /\ UNCHANGED <<path, seen, ended, heard>>

\* Start; with the door open the machine pauses before it has begun.
Press(minutes, doorOpen) ==
    /\ mode = "ready" /\ cycle < MaxCycles /\ cycle' = cycle + 1
    /\ mode' = IF doorOpen THEN "pause" ELSE "run"
    /\ left' = minutes
    /\ drum' = IF doorOpen \/ minutes > CycleMinutes THEN Null ELSE now
    /\ Acts(TRUE) /\ UNCHANGED <<vars, completed>>

Pause ==    \* or the door is opened during the wait
    /\ mode = "run" /\ left > 1 /\ mode' = "pause"
    /\ Acts(FALSE) /\ UNCHANGED <<vars, left, drum, cycle, completed>>

Continue ==
    /\ mode = "pause" /\ mode' = "run"
    /\ drum' = IF drum = Null /\ ~Waits THEN now ELSE drum
    /\ Acts(drum' # drum) /\ UNCHANGED <<vars, left, cycle, completed>>

Cancel ==
    /\ mode \in {"run", "pause"} /\ mode' = "ready" /\ left' = 0 /\ drum' = Null
    /\ Acts(TRUE) /\ UNCHANGED <<vars, cycle, completed>>

Unload ==
    /\ mode = "end" /\ mode' = "ready" /\ drum' = Null
    /\ Acts(FALSE) /\ UNCHANGED <<vars, left, cycle, completed>>

\* A minute passes.
Minute ==
    /\ Tick
    /\ Watched => last = Shown
    /\ link = "silent" => silent < SilentMinutes
    /\ silent' = IF link = "silent" THEN silent + 1 ELSE silent
    /\ away' = IF link = "down" THEN away + 1 ELSE away
    /\ IF mode # "run" THEN UNCHANGED <<appliance, doubt, timed>>
       ELSE /\ left' = left - 1
            /\ mode' = IF left' = 0 THEN "end" ELSE "run"
            /\ drum' = IF drum = Null /\ left' = CycleMinutes THEN now' ELSE drum
            /\ completed' = IF left' # 0 THEN completed
                            ELSE [c \in DOMAIN completed \cup {cycle} |->
                                     IF c = cycle THEN now' ELSE completed[c]]
            /\ doubt' = (doubt \/ ~Watched)
            /\ timed' = (timed /\ (left' = 0 \/ drum' # drum => Watched))
            /\ UNCHANGED cycle
    /\ UNCHANGED <<link, seen, ended, heard>>

-----------------------------------------------------------------------------
(***************************************************************************)
(* The bridge.  One batch of events is dispatched before the next snapshot *)
(* is judged (EvalThreads = 1).                                            *)
(***************************************************************************)
Detected == UNION {Kinds(outbox[b]) : b \in DOMAIN outbox}

Judge(outage) ==
    /\ Evaluate(Shown, outage)
    /\ seen' = cycle
    /\ ended' = IF Detected' \cap {"cycle_finished", "cycle_cancelled"} = {} THEN ended
                ELSE Append(ended, seen)
    /\ timed' = IF "cycle_started" \in Detected' THEN Watched /\ drum = now ELSE timed
    /\ UNCHANGED <<appliance, heard, doubt>>

\* A push or a poll in a session that is up.
Sample ==
    /\ Watched /\ last # Shown /\ Judge(Null)
    /\ silent' = 0 /\ UNCHANGED <<link, away>>

\* Mutant: the seed is judged without the outage.
SeedWithoutOutage ==
    /\ link = "down" /\ Judge(Null)
    /\ link' = "up" /\ silent' = 0 /\ away' = 0

\* The seed of a new session.  outage_s runs from mark_down(), after the workers were
\* joined, to before the GET, and in seconds: somewhere around the minutes away.
Seed ==
    /\ link = "down"
    /\ \E skew \in Skews : Judge(IF 60 * away + skew < 0 THEN 0 ELSE 60 * away + skew)
    /\ link' = "up" /\ silent' = 0 /\ away' = 0

\* The link fails.  A change the last poll has not shown counts as silent time.
Unpolled == silent' = IF link = "up" /\ last # Shown /\ silent = 0 THEN 1 ELSE silent

LinkDies ==
    /\ link = "up" /\ link' = "silent" /\ Unpolled
    /\ UNCHANGED <<vars, appliance, away, story>>

LinkHeals ==
    /\ link = "silent" /\ link' = "up"
    /\ silent' = IF last = Shown /\ seen = cycle THEN 0 ELSE silent
    /\ UNCHANGED <<vars, appliance, away, story>>

\* The reader exits, or the keepalive gives the session up; mark_down().  A change not
\* polled by then has been missed.
LinkEnds ==
    /\ link \in {"up", "silent"} /\ link' = "down" /\ away' = 0 /\ Unpolled
    /\ doubt' = (doubt \/ last # Shown)
    /\ UNCHANGED <<vars, appliance, seen, ended, timed, heard>>

\* What the reader may take the appliance to be doing without being wrong: the last
\* minute counts as finished, and a start held back by the door is not announced.
Truth ==
    IF mode = "end" THEN {"done"}
    ELSE IF mode = "ready" THEN {"idle", "done"}
    ELSE IF Waits THEN IF mode = "run" THEN {"armed"} ELSE {"armed", "idle", "done"}
    ELSE IF drum = Null THEN {"armed", "idle", "done"}
    ELSE IF mode = "pause" THEN {"paused"}
    ELSE IF left <= 1 THEN {"done"} ELSE {"running"}

InTouch == Watched /\ last = Shown

LastMinute == mode = "run" /\ left <= 1

Coming == IF outbox = <<>> THEN "none" ELSE Head(outbox[1]).kind

Notices == INSTANCE CycleNotices WITH coming <- Coming, touch <- InTouch, late <- LastMinute

\* The reader gets the next notice.
Told ==
    /\ outbox # <<>> /\ Dispatch(1)
    /\ LET kind == Head(outbox[1]).kind
       IN IF kind \notin DOMAIN Notices!Says THEN UNCHANGED <<heard, doubt>>
          ELSE /\ heard' = Notices!Says[kind]
               /\ doubt' = (doubt /\ ~(/\ kind \notin {"cycle_paused", "cycle_resumed"}
                                       /\ InTouch /\ heard' \in Truth))
    /\ UNCHANGED <<appliance, path, seen, ended, timed>>

Dies ==
    /\ MayCrash /\ Crash /\ link' = "down" /\ away' = 0 /\ doubt' = TRUE
    /\ UNCHANGED <<appliance, silent, seen, ended, timed, heard>>

Begins == Restart /\ away' = 0 /\ UNCHANGED <<appliance, link, silent, story>>

WNext ==
    \/ \E minutes \in {CycleMinutes, CycleMinutes + DelayMinutes}, doorOpen \in BOOLEAN :
          Press(minutes, doorOpen)
    \/ Pause \/ Continue \/ Cancel \/ Unload \/ Minute
    \/ Sample \/ Seed \/ LinkDies \/ LinkHeals \/ LinkEnds
    \/ Told \/ Dies \/ Begins

WSpec == WInit /\ [][WNext]_wvars

-----------------------------------------------------------------------------
\* The notices tell the story CycleNotices allows: whatever the appliance, its user,
\* the link and crashes do, a notice can be out of turn only after the bridge was
\* away, and the next notice in touch that begins or ends a cycle sets the reader right,
\* unless it is the start of a cycle first seen in its last minute (events.py:193-243,
\* bridge.py:93-107).
TellsTheStory == Notices!Spec

\* Once that has happened, as long as the bridge stays in touch the reader knows what
\* the appliance is doing, over any number of cycles, delays, pauses and open doors.
InTouchIsTruth == InTouch /\ ~doubt /\ outbox = <<>> => heard \in Truth

\* The end of a cycle is told at most once, be it seen twice (Finish, then End), over
\* an outage, or again after a restart (events.py:216-243).
EndsOnce == IsInjective(ended)

\* A duration is the time since the drum of this cycle began to turn, across restarts
\* and outages, unless a start or an end was not seen as it happened
\* (events.py:145-154, 371-387).
DurationIsTrue ==
    [][\A b \in DOMAIN outbox' :
          LET ev == outbox'[b][1]
          IN outbox' # outbox /\ ev.kind = "cycle_finished" /\ ev.duration # Null /\ timed
                 => ev.duration = now - drum]_wvars

\* When the seed is the one to judge the jump over an outage, a cycle that ran to its end
\* is told as cancelled in two cases only: the link was silent for a while before the
\* outage was counted, or the appliance is seen again so soon after the end that the
\* seconds outage_s has missed decide.  Anything longer away is counted well enough,
\* however the minutes of the cycle, its pauses and the outage lie (events.py:226-243,
\* bridge.py:148-150, 230-231, 275-283).
CompletionIsNotCancelled ==
    [][outbox = <<>> /\ "cycle_cancelled" \in Detected' /\ seen \in DOMAIN completed
          => silent > 0 \/ now - completed[seen] < Uncounted]_wvars

\* README.md: cycle_finished is sent when "The cycle completes".  When the judged
\* snapshot shows the appliance at its end, the reader has been told so.
FinishIsTold == InTouch /\ mode = "end" /\ outbox = <<>> => heard \in {"idle", "done"}
=============================================================================
