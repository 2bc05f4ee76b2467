---------------------------- MODULE AlarmThrottle ----------------------------
(***************************************************************************)
(* AlarmThrottle of alarms.py with repeat_window_s > 0 (with 0 it forwards *)
(* everything and keeps no state), called by one thread at a time.  The    *)
(* bridge keeps two of them, one for alarms and one for cleared alarms.    *)
(***************************************************************************)
EXTENDS Integers, Sequences, FiniteSets

CONSTANTS
    Contents,      \* the throttle keys
    RepeatWindow,  \* repeat_window_s
    MaxPerWindow,  \* max_per_window
    Steps,         \* by how much the clock may advance between two calls
    MaxTime        \* bound on the clock

ASSUME ThrottleAssumption ==
    /\ RepeatWindow \in Nat \ {0} /\ MaxPerWindow \in Nat \ {0}
    /\ Steps \subseteq Nat /\ MaxTime \in Nat

VARIABLES
    now,        \* time.time() of the caller
    last_sent,  \* _last_sent: content -> time
    recent,     \* _recent: times of the sends not pruned yet, oldest first
    log         \* history: every notification forwarded

vars == <<now, last_sent, recent, log>>

Init == now = 0 /\ last_sent = [c \in {} |-> 0] /\ recent = <<>> /\ log = <<>>

-----------------------------------------------------------------------------
\* Mutant: the sends that are as old as the window are pruned too.
PrunedInclusive(q, cutoff) ==
    LET kept == CHOOSE k \in 1..(Len(q) + 1) :
                    /\ \A i \in 1..(k - 1) : q[i] <= cutoff
                    /\ k \in DOMAIN q => q[k] > cutoff
    IN SubSeq(q, kept, Len(q))

\* The while loop: pops from the left until the head is inside the window.
Pruned(q, cutoff) ==
    LET kept == CHOOSE k \in 1..(Len(q) + 1) :
                    /\ \A i \in 1..(k - 1) : q[i] < cutoff
                    /\ k \in DOMAIN q => q[k] >= cutoff
    IN SubSeq(q, kept, Len(q))

\* Mutant: a send at the very edge of the window does not count.
IsRepeatExclusive(sent, content, cutoff) == content \in DOMAIN sent /\ sent[content] > cutoff

IsRepeat(sent, content, cutoff) == content \in DOMAIN sent /\ sent[content] >= cutoff

\* Mutant: stale contents are never forgotten.
RecordedForever(sent, content, at, cutoff) ==
    [c \in DOMAIN sent \cup {content} |-> IF c = content THEN at ELSE sent[c]]

\* The assignment of _last_sent[content], and the stale contents it deletes.
Recorded(sent, content, at, cutoff) ==
    LET old == {c \in DOMAIN sent : sent[c] < cutoff}
    IN [c \in (DOMAIN sent \ old) \cup {content} |-> IF c = content THEN at ELSE sent[c]]

\* Is a call with this content, at this moment, answered True?
Allowed(content) ==
    LET cutoff == now - RepeatWindow
    IN ~IsRepeat(last_sent, content, cutoff) /\ Len(Pruned(recent, cutoff)) < MaxPerWindow

(***************************************************************************)
(* allow(content, now).                                                    *)
(***************************************************************************)
Forward(content) ==
    LET cutoff == now - RepeatWindow
    IN /\ Allowed(content)
       /\ last_sent' = Recorded(last_sent, content, now, cutoff)
       /\ recent' = Append(Pruned(recent, cutoff), now)
       /\ log' = Append(log, [content |-> content, at |-> now])
       /\ UNCHANGED now

Suppress(content) ==
    /\ ~Allowed(content)
    /\ recent' = Pruned(recent, now - RepeatWindow)
    /\ UNCHANGED <<now, last_sent, log>>

Tick ==
    /\ \E d \in Steps : now + d <= MaxTime /\ now' = now + d
    /\ UNCHANGED <<last_sent, recent, log>>

Next == (\E c \in Contents : Forward(c) \/ Suppress(c)) \/ Tick

Spec == Init /\ [][Next]_vars

-----------------------------------------------------------------------------
\* The gate remembers only forwarded contents and the times of sends, and the
\* log of sends is a sequence of them (alarms.py:185-189).
TypeOK ==
    /\ now \in Nat
    /\ DOMAIN last_sent \subseteq Contents /\ last_sent \in [DOMAIN last_sent -> Nat]
    /\ recent \in Seq(Nat)
    /\ log \in Seq([content : Contents, at : Nat])

\* "Identical alarm content is forwarded at most once per repeat_window_s"
\* (alarms.py:179): two sends of the same content are more than a window apart.
SameAlarmSpaced ==
    \A i, j \in DOMAIN log :
        i < j /\ log[i].content = log[j].content => log[j].at - log[i].at > RepeatWindow

\* "At most max_per_window distinct alarm notifications go out per window"
\* (alarms.py:181): any max_per_window + 1 sends in a row span more than one.
WindowBounded ==
    \A i \in DOMAIN log :
        i + MaxPerWindow \in DOMAIN log => log[i + MaxPerWindow].at - log[i].at > RepeatWindow

\* The pruned memory decides exactly as the full history of sends would: an
\* alarm is held back only if the same one, or max_per_window of them, really
\* went out within the window.
DecidesAsHistory ==
    \A c \in Contents :
        LET within == {i \in DOMAIN log : log[i].at >= now - RepeatWindow}
        IN Allowed(c) <=> /\ \A i \in within : log[i].content # c
                          /\ Cardinality(within) < MaxPerWindow

\* "so the dict cannot grow without bound" (alarms.py:208): it never holds more
\* contents than may be sent in one window, however many distinct ones occur.
MemoryBounded == Cardinality(DOMAIN last_sent) <= MaxPerWindow
=============================================================================
