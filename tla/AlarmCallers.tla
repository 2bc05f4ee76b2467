---------------------------- MODULE AlarmCallers ----------------------------
(***************************************************************************)
(* AlarmThrottle.allow() as the bridge really calls it: from _dispatch(),  *)
(* which holds no lock, so the reader, the poll scheduler and the sweep    *)
(* timer can be inside the same throttle together (bridge.py:401-419).     *)
(* The interpreter (CPython, with its lock) can switch threads at calls    *)
(* and at the ends of loop passes: after the get() of the last send, after *)
(* the append(), while the contents are scanned for stale ones and between *)
(* the deletions of those.  A call takes no time on the throttle's scale.  *)
(***************************************************************************)
EXTENDS AlarmThrottle, SequencesExt, TLC

CONSTANT Callers    \* the threads that dispatch events

ASSUME CallersAssumption == IsFiniteSet(Callers)

VARIABLES
    pc,     \* where each caller is inside allow()
    call,   \* its arguments, the size of _last_sent when it began the scan, what
            \* it found stale
    harm    \* history: "raised" when a call ended in an exception, "wiped" when a
            \* record that still counts was deleted

cvars == <<vars, pc, call, harm>>

NoCall == [content |-> CHOOSE c \in Contents : TRUE, at |-> 0, size |-> 0, stale |-> {}]

CInit ==
    /\ Init
    /\ pc = [t \in Callers |-> "idle"]
    /\ call = [t \in Callers |-> NoCall]
    /\ harm = {}

Goto(t, where) == pc' = [pc EXCEPT ![t] = where]
Cutoff(t)      == call[t].at - RepeatWindow

\* _dispatch() reads the clock and calls allow().
Enter(t, content) ==
    /\ pc[t] = "idle"
    /\ call' = [call EXCEPT ![t].content = content, ![t].at = now]
    /\ Goto(t, "prune")
    /\ UNCHANGED <<vars, harm>>

\* The while loop: it tests and pops without a switch in between, and pops only
\* what is too old for every caller, so its passes need not be told apart.
Prune(t) ==
    /\ pc[t] = "prune"
    /\ recent' = Pruned(recent, Cutoff(t))
    /\ Goto(t, "check")
    /\ UNCHANGED <<now, last_sent, log, call, harm>>

\* Mutant: looks only at the number of sends.
CheckCountOnly(t) ==
    /\ pc[t] = "check"
    /\ Goto(t, IF Len(recent) >= MaxPerWindow THEN "idle" ELSE "record")
    /\ UNCHANGED <<vars, call, harm>>

\* Mutant: records a send that the limit then refuses.
CheckRecordsFirst(t) ==
    /\ pc[t] = "check"
    /\ LET repeat == IsRepeat(last_sent, call[t].content, Cutoff(t))
       IN /\ last_sent' = IF repeat THEN last_sent
                          ELSE (call[t].content :> call[t].at) @@ last_sent
          /\ Goto(t, IF repeat \/ Len(recent) >= MaxPerWindow THEN "idle" ELSE "record")
    /\ UNCHANGED <<now, recent, log, call, harm>>

\* The two tests that answer False.
Check(t) ==
    /\ pc[t] = "check"
    /\ Goto(t, IF \/ IsRepeat(last_sent, call[t].content, Cutoff(t))
                  \/ Len(recent) >= MaxPerWindow
               THEN "idle" ELSE "record")
    /\ UNCHANGED <<vars, call, harm>>

\* Records the send.
Record(t) ==
    /\ pc[t] = "record"
    /\ last_sent' = [c \in DOMAIN last_sent \cup {call[t].content} |->
                         IF c = call[t].content THEN call[t].at ELSE last_sent[c]]
    /\ recent' = Append(recent, call[t].at)
    /\ Goto(t, "iterate")
    /\ UNCHANGED <<now, log, call, harm>>

\* Begins to scan the contents: the iterator keeps the size they have.
Iterate(t) ==
    /\ pc[t] = "iterate"
    /\ call' = [call EXCEPT ![t].size = Cardinality(DOMAIN last_sent)]
    /\ Goto(t, "scan")
    /\ UNCHANGED <<vars, harm>>

\* return True: the notification goes out.
Returns(t) ==
    /\ Goto(t, "idle")
    /\ log' = Append(log, [content |-> call[t].content, at |-> call[t].at])

Raises(t) == Goto(t, "idle") /\ harm' = harm \cup {"raised"} /\ UNCHANGED log

\* The end of the scan: a dict that changed its size meanwhile is a RuntimeError.
Scan(t) ==
    LET old == {c \in DOMAIN last_sent : last_sent[c] < Cutoff(t)}
    IN /\ pc[t] = "scan"
       /\ call' = [call EXCEPT ![t].stale = old]
       /\ IF Cardinality(DOMAIN last_sent) # call[t].size THEN Raises(t)
          ELSE IF old = {} THEN Returns(t) /\ UNCHANGED harm
          ELSE Goto(t, "forget") /\ UNCHANGED <<log, harm>>
       /\ UNCHANGED <<now, last_sent, recent>>

\* One pass of the loop that deletes: a content another caller has deleted is a
\* KeyError; one that another caller has sent since the scan is deleted all the same.
Delete(t) ==
    /\ pc[t] = "forget"
    /\ \E c \in call[t].stale :
        /\ call' = [call EXCEPT ![t].stale = @ \ {c}]
        /\ last_sent' = [d \in DOMAIN last_sent \ {c} |-> last_sent[d]]
        /\ IF c \notin DOMAIN last_sent THEN Raises(t)
           ELSE /\ harm' = IF last_sent[c] < Cutoff(t) THEN harm ELSE harm \cup {"wiped"}
                /\ IF call[t].stale = {c} THEN Returns(t) ELSE UNCHANGED <<pc, log>>
    /\ UNCHANGED <<now, recent>>

CTick == (\A t \in Callers : pc[t] = "idle") /\ Tick /\ UNCHANGED <<pc, call, harm>>

CNext ==
    \/ \E t \in Callers :
          \/ \E c \in Contents : Enter(t, c)
          \/ Prune(t) \/ Check(t) \/ Record(t) \/ Iterate(t) \/ Scan(t) \/ Delete(t)
    \/ CTick

CSpec == CInit /\ [][CNext]_cvars

-----------------------------------------------------------------------------
\* However the callers interleave, one content gets through a window at most once
\* per caller, and only in calls of the same instant that overlap, as long as no
\* clean-up deleted the record of a send that still counts: whoever checks after the
\* first send was recorded is refused.
RepeatBounded ==
    "wiped" \in harm \/
    \A i \in DOMAIN log :
        LET again == {j \in DOMAIN log : /\ log[j].content = log[i].content
                                        /\ log[j].at \in log[i].at .. (log[i].at + RepeatWindow)}
        IN Cardinality(again) <= Cardinality(Callers) /\ \A j \in again : log[j].at = log[i].at

\* No alarm is held back in the name of one that never went out: as long as no call
\* ended in an exception, every remembered send was forwarded, or its caller is on
\* the way to do it (alarms.py:206-211).
RememberedWasSent ==
    "raised" \in harm \/
    \A c \in DOMAIN last_sent :
        \/ \E i \in DOMAIN log : log[i] = [content |-> c, at |-> last_sent[c]]
        \/ \E t \in Callers : pc[t] \in {"iterate", "scan", "forget"} /\ call[t].content = c
=============================================================================
