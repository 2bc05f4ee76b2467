------------------------- MODULE AlarmCallers_proofs -------------------------
(***************************************************************************)
(* Proofs about AlarmCallers, for any number of callers, contents and any  *)
(* window: whatever the races do, no alarm is held back in the name of one *)
(* that never went out, and the races alone let at most one more of a kind *)
(* through for each further caller.                                        *)
(***************************************************************************)
EXTENDS AlarmCallers, FiniteSetTheorems, TLAPS

IsLog(s) == s \in Seq({s[i] : i \in 1..Len(s)})

CallOk(a) == a = [content |-> a.content, at |-> a.at, size |-> a.size, stale |-> a.stale]

CallsOk ==
    /\ pc = [t \in Callers |-> pc[t]] /\ call = [t \in Callers |-> call[t]]
    /\ \A t \in Callers : CallOk(call[t])
    /\ IsLog(log)

\* The send of c that is remembered is in the log, or its caller is about to put it there.
Logged(c) == \E i \in 1..Len(log) : log[i] = [content |-> c, at |-> last_sent[c]]

OnItsWay(t, c) ==
    pc[t] \in {"iterate", "scan", "forget"} /\ call[t].content = c /\ call[t].at = last_sent[c]

\* The inductive invariant.
HInv ==
    /\ CallsOk
    /\ "raised" \in harm \/
       \A c \in DOMAIN last_sent : Logged(c) \/ \E t \in Callers : OnItsWay(t, c)

\* Appending to the log.
LEMMA LogGrows ==
    ASSUME NEW s, IsLog(s), NEW e
    PROVE  /\ IsLog(Append(s, e)) /\ Len(s) \in Nat /\ Len(Append(s, e)) = Len(s) + 1
           /\ \A i \in 1..Len(s) : Append(s, e)[i] = s[i]
           /\ Append(s, e)[Len(s) + 1] = e
<1> DEFINE S == {s[i] : i \in 1..Len(s)} \cup {e}
<1>1. s \in Seq(S) /\ e \in S /\ Len(s) \in Nat
  <2>1. s \in Seq({s[i] : i \in 1..Len(s)})
    BY DEF IsLog
  <2>2. \A i \in 1..Len(s) : s[i] \in S
    OBVIOUS
  <2>3. Len(s) \in Nat /\ s = [i \in 1..Len(s) |-> s[i]]
    BY <2>1
  <2> QED
    BY <2>2, <2>3
<1> HIDE DEF S
<1>2. /\ Append(s, e) \in Seq(S) /\ Len(Append(s, e)) = Len(s) + 1
      /\ \A i \in 1..Len(s) : Append(s, e)[i] = s[i]
      /\ Append(s, e)[Len(s) + 1] = e
  BY <1>1
<1> DEFINE t == Append(s, e)
<1>3. IsLog(t)
  <2> HIDE DEF t
  <2>1. t \in Seq(S)
    BY <1>2 DEF t
  <2>2. Len(t) \in Nat /\ t = [i \in 1..Len(t) |-> t[i]]
    BY <2>1
  <2> QED
    BY <2>2 DEF IsLog
<1> QED
  BY <1>1, <1>2, <1>3

\* The bridge starts with nothing remembered and nothing sent.
LEMMA HInit == CInit => HInv
<1> SUFFICES ASSUME CInit
             PROVE  HInv
  OBVIOUS
<1>1. DOMAIN last_sent = {} /\ log = <<>>
  BY DEF CInit, Init
<1>2. IsLog(log)
  BY <1>1 DEF IsLog
<1>3. CallsOk
  BY <1>2 DEF CInit, CallsOk, CallOk, NoCall
<1> QED
  BY <1>1, <1>3 DEF HInv

\* A step of t that only moves it on, before it has recorded its send.
LEMMA BeforeRecord ==
    ASSUME HInv, NEW t \in Callers, NEW where, NEW a, CallOk(a),
           pc[t] \notin {"iterate", "scan", "forget"}, pc' = [pc EXCEPT ![t] = where],
           call' = [call EXCEPT ![t] = a], UNCHANGED <<last_sent, log, harm>>
    PROVE  HInv'
<1>1. \A u \in Callers : u # t => pc'[u] = pc[u] /\ call'[u] = call[u]
  BY DEF HInv, CallsOk
<1>2. CallsOk'
  BY DEF HInv, CallsOk
<1>3. ASSUME NEW c \in DOMAIN last_sent, Logged(c) \/ \E u \in Callers : OnItsWay(u, c)
      PROVE  Logged(c)' \/ \E u \in Callers : OnItsWay(u, c)'
  BY <1>1, <1>3 DEF Logged, OnItsWay
<1> QED
  BY <1>2, <1>3 DEF HInv

\* The steps before the send is recorded.
LEMMA EarlyStepsKeep ==
    ASSUME HInv, NEW t \in Callers,
           (\E c \in Contents : Enter(t, c)) \/ Prune(t) \/ Check(t)
    PROVE  HInv'
<1>1. CallOk(call[t]) /\ call = [u \in Callers |-> call[u]]
  BY DEF HInv, CallsOk
<1>2. CASE \E c \in Contents : Enter(t, c)
  <2>1. PICK c \in Contents : Enter(t, c)
    BY <1>2
  <2>2. PICK a : a = [call[t] EXCEPT !.content = c, !.at = now]
    OBVIOUS
  <2>3. CallOk(a) /\ call' = [call EXCEPT ![t] = a]
    BY <1>1, <2>1, <2>2 DEF CallOk, Enter
  <2> QED
    BY <2>1, <2>3, BeforeRecord DEF Enter, Goto, vars
<1>3. CASE Prune(t) \/ Check(t)
  <2>1. call' = [call EXCEPT ![t] = call[t]]
    BY <1>1, <1>3 DEF Prune, Check
  <2>2. PICK where : pc' = [pc EXCEPT ![t] = where]
    BY <1>3 DEF Prune, Check, Goto
  <2>3. pc[t] \notin {"iterate", "scan", "forget"} /\ UNCHANGED <<last_sent, log, harm>>
    BY <1>3 DEF Prune, Check, vars
  <2> QED
    BY <1>1, <2>1, <2>2, <2>3, BeforeRecord
<1> QED
  BY <1>2, <1>3

\* What is recorded is on its way.
LEMMA RecordKeeps ==
    ASSUME HInv, NEW t \in Callers, Record(t)
    PROVE  HInv'
<1>1. /\ CallOk(call[t]) /\ call = [u \in Callers |-> call[u]] /\ pc = [u \in Callers |-> pc[u]]
  BY DEF HInv, CallsOk
<1>2. /\ pc[t] = "record" /\ pc' = [pc EXCEPT ![t] = "iterate"] /\ UNCHANGED <<log, call, harm>>
      /\ DOMAIN last_sent' = DOMAIN last_sent \cup {call[t].content}
      /\ last_sent'[call[t].content] = call[t].at
      /\ \A c \in DOMAIN last_sent : c # call[t].content => last_sent'[c] = last_sent[c]
  BY DEF Record, Goto
<1>3. \A u \in Callers : u # t => pc'[u] = pc[u] /\ call'[u] = call[u]
  BY <1>1, <1>2
<1>4. pc'[t] = "iterate" /\ call'[t].content = call[t].content /\ call'[t].at = call[t].at
  BY <1>1, <1>2
<1>5. CallsOk'
  BY <1>2 DEF HInv, CallsOk
<1>6. ASSUME NEW c \in DOMAIN last_sent, c # call[t].content,
             Logged(c) \/ \E u \in Callers : OnItsWay(u, c)
      PROVE  Logged(c)' \/ \E u \in Callers : OnItsWay(u, c)'
  BY <1>2, <1>3, <1>6 DEF Logged, OnItsWay
<1>7. ASSUME "raised" \notin harm, NEW c \in DOMAIN last_sent'
      PROVE  Logged(c)' \/ \E u \in Callers : OnItsWay(u, c)'
  <2>1. CASE c = call[t].content
    <3>1. OnItsWay(t, c)'
      BY <1>2, <1>4, <2>1 DEF OnItsWay
    <3> QED
      BY <3>1
  <2>2. CASE c # call[t].content
    BY <1>2, <1>6, <1>7, <2>2 DEF HInv
  <2> QED
    BY <2>1, <2>2
<1> QED
  BY <1>2, <1>5, <1>7 DEF HInv

-----------------------------------------------------------------------------
\* The ways out of a call.  a is what the caller knows at the end of the step.
LEMMA ReturnsKeep ==
    ASSUME HInv, NEW t \in Callers, NEW a, CallOk(a), call' = [call EXCEPT ![t] = a],
           Returns(t), DOMAIN last_sent' \subseteq DOMAIN last_sent,
           \A c \in DOMAIN last_sent' : last_sent'[c] = last_sent[c],
           harm \subseteq harm'
    PROVE  HInv'
<1>1. PICK e : e = [content |-> call[t].content, at |-> call[t].at]
  OBVIOUS
<1>2. /\ log' = Append(log, e) /\ pc' = [pc EXCEPT ![t] = "idle"]
  BY <1>1 DEF Returns, Goto
<1>3. /\ IsLog(log') /\ Len(log) \in Nat /\ Len(log') = Len(log) + 1
      /\ \A i \in 1..Len(log) : log'[i] = log[i]
      /\ log'[Len(log) + 1] = e
  BY <1>2, LogGrows DEF HInv, CallsOk
<1>4. 1..Len(log) \subseteq 1..Len(log') /\ Len(log) + 1 \in 1..Len(log')
  BY <1>3
<1>5. CallsOk'
  BY <1>2, <1>3 DEF HInv, CallsOk
<1>6. \A u \in Callers : u # t => pc'[u] = pc[u] /\ call'[u] = call[u]
  BY <1>2 DEF HInv, CallsOk
<1>7. ASSUME NEW c \in DOMAIN last_sent', Logged(c) \/ \E u \in Callers : OnItsWay(u, c)
      PROVE  Logged(c)' \/ \E u \in Callers : OnItsWay(u, c)'
  <2>1. CASE Logged(c)
    BY <1>3, <1>4, <2>1 DEF Logged
  <2>2. CASE OnItsWay(t, c)
    <3>1. e = [content |-> c, at |-> last_sent'[c]]
      BY <1>1, <2>2 DEF OnItsWay
    <3> QED
      BY <1>3, <1>4, <3>1 DEF Logged
  <2>3. ASSUME NEW u \in Callers, u # t, OnItsWay(u, c)
        PROVE  OnItsWay(u, c)'
    BY <1>6, <2>3 DEF OnItsWay
  <2> QED
    BY <1>7, <2>1, <2>2, <2>3
<1> QED
  BY <1>5, <1>7 DEF HInv

\* The caller goes on in the loop that deletes, or its call ends in an exception.
LEMMA StaysKeep ==
    ASSUME HInv, NEW t \in Callers, NEW a, CallOk(a), call' = [call EXCEPT ![t] = a],
           a.content = call[t].content, a.at = call[t].at, NEW where,
           pc' = [pc EXCEPT ![t] = where], log' = log,
           "raised" \in harm' \/ where \in {"iterate", "scan", "forget"},
           DOMAIN last_sent' \subseteq DOMAIN last_sent,
           \A c \in DOMAIN last_sent' : last_sent'[c] = last_sent[c],
           harm \subseteq harm'
    PROVE  HInv'
<1>1. /\ \A u \in Callers : u # t => pc'[u] = pc[u] /\ call'[u] = call[u]
      /\ pc'[t] = where /\ call'[t].content = call[t].content /\ call'[t].at = call[t].at
  BY DEF HInv, CallsOk
<1>2. CallsOk'
  BY DEF HInv, CallsOk
<1>3. ASSUME "raised" \notin harm', NEW c \in DOMAIN last_sent'
      PROVE  Logged(c)' \/ \E u \in Callers : OnItsWay(u, c)'
  <2>1. Logged(c) \/ \E u \in Callers : OnItsWay(u, c)
    BY <1>3 DEF HInv
  <2>2. Logged(c) => Logged(c)'
    BY DEF Logged
  <2>3. ASSUME NEW u \in Callers, OnItsWay(u, c)
        PROVE  OnItsWay(u, c)'
    BY <1>1, <1>3, <2>3 DEF OnItsWay
  <2> QED
    BY <2>1, <2>2, <2>3
<1> QED
  BY <1>2, <1>3 DEF HInv

\* Beginning the scan changes nothing but what the caller knows.
LEMMA IterateKeeps ==
    ASSUME HInv, NEW t \in Callers, Iterate(t)
    PROVE  HInv'
<1>1. PICK a : a = [call[t] EXCEPT !.size = Cardinality(DOMAIN last_sent)]
  OBVIOUS
<1>2. CallOk(call[t])
  BY DEF HInv, CallsOk
<1>3. /\ CallOk(a) /\ a.content = call[t].content /\ a.at = call[t].at
      /\ call' = [call EXCEPT ![t] = a] /\ UNCHANGED <<last_sent, log, harm>>
      /\ pc' = [pc EXCEPT ![t] = "scan"]
  BY <1>1, <1>2 DEF Iterate, CallOk, Goto, vars
<1> QED
  BY <1>3, StaysKeep

\* The end of the scan: the call raises, returns, or goes on to delete.
LEMMA ScanKeeps ==
    ASSUME HInv, NEW t \in Callers, Scan(t)
    PROVE  HInv'
<1>1. PICK a : a = [call[t] EXCEPT !.stale = {c \in DOMAIN last_sent : last_sent[c] < Cutoff(t)}]
  OBVIOUS
<1>2. CallOk(call[t])
  BY DEF HInv, CallsOk
<1>3. /\ CallOk(a) /\ a.content = call[t].content /\ a.at = call[t].at
      /\ call' = [call EXCEPT ![t] = a] /\ last_sent' = last_sent
  BY <1>1, <1>2 DEF Scan, CallOk
<1>4. CASE Raises(t)
  <2>1. /\ pc' = [pc EXCEPT ![t] = "idle"] /\ log' = log
        /\ "raised" \in harm' /\ harm \subseteq harm'
    BY <1>4 DEF Raises, Goto
  <2> QED
    BY <1>3, <2>1, StaysKeep
<1>5. CASE Returns(t) /\ UNCHANGED harm
  BY <1>3, <1>5, ReturnsKeep
<1>6. CASE Goto(t, "forget") /\ UNCHANGED <<log, harm>>
  <2>1. pc' = [pc EXCEPT ![t] = "forget"]
    BY <1>6 DEF Goto
  <2> QED
    BY <1>3, <1>6, <2>1, StaysKeep
<1> QED
  BY <1>4, <1>5, <1>6 DEF Scan

\* One deletion: fewer sends are remembered.
LEMMA DeleteKeeps ==
    ASSUME HInv, NEW t \in Callers, Delete(t)
    PROVE  HInv'
<1>1. PICK c \in call[t].stale :
        /\ call' = [call EXCEPT ![t].stale = @ \ {c}]
        /\ last_sent' = [d \in DOMAIN last_sent \ {c} |-> last_sent[d]]
        /\ IF c \notin DOMAIN last_sent THEN Raises(t)
           ELSE /\ harm' = IF last_sent[c] < Cutoff(t) THEN harm ELSE harm \cup {"wiped"}
                /\ IF call[t].stale = {c} THEN Returns(t) ELSE UNCHANGED <<pc, log>>
  BY DEF Delete
<1>2. PICK a : a = [call[t] EXCEPT !.stale = @ \ {c}]
  OBVIOUS
<1>3. CallOk(call[t]) /\ pc = [u \in Callers |-> pc[u]] /\ pc[t] = "forget"
  BY DEF HInv, CallsOk, Delete
<1>4. /\ CallOk(a) /\ a.content = call[t].content /\ a.at = call[t].at
      /\ call' = [call EXCEPT ![t] = a]
      /\ DOMAIN last_sent' \subseteq DOMAIN last_sent
      /\ \A d \in DOMAIN last_sent' : last_sent'[d] = last_sent[d]
  BY <1>1, <1>2, <1>3 DEF CallOk
<1>5. CASE Raises(t)
  <2>1. /\ pc' = [pc EXCEPT ![t] = "idle"] /\ log' = log
        /\ "raised" \in harm' /\ harm \subseteq harm'
    BY <1>5 DEF Raises, Goto
  <2> QED
    BY <1>4, <2>1, StaysKeep
<1>6. CASE Returns(t) /\ harm \subseteq harm'
  BY <1>4, <1>6, ReturnsKeep
<1>7. CASE UNCHANGED <<pc, log>> /\ harm \subseteq harm'
  <2>1. pc' = [pc EXCEPT ![t] = "forget"]
    BY <1>3, <1>7
  <2> QED
    BY <1>4, <1>7, <2>1, StaysKeep
<1> QED
  BY <1>1, <1>5, <1>6, <1>7

\* Every step keeps what is remembered sent, or on its way.
LEMMA HNext ==
    ASSUME HInv, [CNext]_cvars
    PROVE  HInv'
<1>1. ASSUME NEW t \in Callers,
             \/ \E c \in Contents : Enter(t, c)
             \/ Prune(t) \/ Check(t) \/ Record(t) \/ Iterate(t) \/ Scan(t) \/ Delete(t)
      PROVE  HInv'
  BY <1>1, EarlyStepsKeep, RecordKeeps, IterateKeeps, ScanKeeps, DeleteKeeps
<1>2. CASE CTick \/ UNCHANGED cvars
  <2>1. UNCHANGED <<last_sent, log, pc, call, harm>>
    BY <1>2 DEF CTick, Tick, cvars, vars
  <2> QED
    BY <2>1 DEF HInv, CallsOk, Logged, OnItsWay
<1> QED
  BY <1>1, <1>2 DEF CNext

\* So it is in every state.
LEMMA HInvHolds == CSpec => []HInv
<1>1. HInv /\ [CNext]_cvars => HInv'
  BY HNext
<1> QED
  BY <1>1, HInit, PTL DEF CSpec

-----------------------------------------------------------------------------
\* For any number of callers, however their calls overlap: as long as no call ended in
\* an exception, every remembered send was forwarded, or its caller is on the way to do
\* it (alarms.py:206-211).
THEOREM RememberedWasSentHolds == CSpec => []RememberedWasSent
<1>1. HInv => RememberedWasSent
  <2> SUFFICES ASSUME HInv, "raised" \notin harm, NEW c \in DOMAIN last_sent
               PROVE  \/ \E i \in DOMAIN log : log[i] = [content |-> c, at |-> last_sent[c]]
                      \/ \E t \in Callers : pc[t] \in {"iterate", "scan", "forget"} /\ call[t].content = c
    BY DEF RememberedWasSent
  <2>1. DOMAIN log = 1..Len(log)
    BY DEF HInv, CallsOk, IsLog
  <2> QED
    BY <2>1 DEF HInv, Logged, OnItsWay
<1> QED
  BY <1>1, HInvHolds, PTL

-----------------------------------------------------------------------------
\* The callers that have passed the tests with content c, and have not yet returned.
Sends(c) == {t \in Callers : pc[t] \in {"record", "iterate", "scan", "forget"} /\ call[t].content = c}

\* What went out of c at a.
Entries(c, a) == {i \in 1..Len(log) : log[i].content = c /\ log[i].at = a}

Times ==
    /\ now \in Nat /\ \A c \in DOMAIN last_sent : last_sent[c] \in Nat
    /\ \A i \in 1..Len(log) : log[i].at \in Nat /\ log[i].at <= now
    /\ \A t \in Callers : pc[t] # "idle" => call[t].at = now

\* A send that still counts is remembered, and none of its content came after it.
Kept ==
    \A i \in 1..Len(log) :
        log[i].at >= now - RepeatWindow =>
            log[i].content \in DOMAIN last_sent /\ last_sent[log[i].content] = log[i].at

\* What a caller is about to send, or has recorded, was last sent now, if at all.
Current ==
    \A t \in Callers :
        /\ pc[t] = "record" /\ IsRepeat(last_sent, call[t].content, now - RepeatWindow)
              => last_sent[call[t].content] = now
        /\ pc[t] \in {"iterate", "scan", "forget"} =>
              call[t].content \in DOMAIN last_sent /\ last_sent[call[t].content] = now

\* A caller sends a content once in an instant.
Counted ==
    \A c : /\ \A a : Cardinality(Entries(c, a)) <= Cardinality(Callers)
           /\ Cardinality(Entries(c, now)) + Cardinality(Sends(c)) <= Cardinality(Callers)

Spaced ==
    \A i, j \in 1..Len(log) :
        (/\ log[j].content = log[i].content
         /\ log[i].at <= log[j].at /\ log[j].at <= log[i].at + RepeatWindow)
            => log[j].at = log[i].at

\* The inductive invariant of the window.
RInv == HInv /\ Times /\ ("wiped" \in harm \/ (Kept /\ Current /\ Counted /\ Spaced))

Within == Kept /\ Current /\ Counted /\ Spaced

\* A step of t within an instant.
Moves(t) ==
    /\ \A u \in Callers : u # t => pc'[u] = pc[u] /\ call'[u] = call[u]
    /\ now' = now

\* What was sent and what is being sent can be counted.
LEMMA Countable ==
    ASSUME CallsOk
    PROVE  /\ Cardinality(Callers) \in Nat /\ Len(log) \in Nat
           /\ \A c : /\ IsFiniteSet(Sends(c)) /\ Cardinality(Sends(c)) \in Nat
                     /\ Cardinality(Sends(c)) <= Cardinality(Callers)
           /\ \A c, a : IsFiniteSet(Entries(c, a)) /\ Cardinality(Entries(c, a)) \in Nat
<1>1. IsFiniteSet(Callers) /\ Cardinality(Callers) \in Nat
  BY CallersAssumption, FS_CardinalityType
<1>2. Len(log) \in Nat
  BY DEF CallsOk, IsLog
<1>3. IsFiniteSet(1..Len(log))
  BY <1>2, FS_Interval
<1>4. ASSUME NEW c
      PROVE  /\ IsFiniteSet(Sends(c)) /\ Cardinality(Sends(c)) \in Nat
             /\ Cardinality(Sends(c)) <= Cardinality(Callers)
  <2>1. Sends(c) \in SUBSET Callers
    BY DEF Sends
  <2> QED
    BY <1>1, <2>1, FS_Subset, FS_CardinalityType
<1>5. ASSUME NEW c, NEW a
      PROVE  IsFiniteSet(Entries(c, a)) /\ Cardinality(Entries(c, a)) \in Nat
  <2>1. Entries(c, a) \in SUBSET (1..Len(log))
    BY DEF Entries
  <2> QED
    BY <1>3, <2>1, FS_Subset, FS_CardinalityType
<1> QED
  BY <1>1, <1>2, <1>4, <1>5

\* With nothing new in the log and nobody new about to send, the counts stay in bounds.
LEMMA CountedStays ==
    ASSUME CallsOk, Counted, log' = log, now' = now, \A c : Sends(c)' \subseteq Sends(c)
    PROVE  Counted'
<1>1. \A c, a : Entries(c, a)' = Entries(c, a)
  BY DEF Entries
<1>2. ASSUME NEW c
      PROVE  Cardinality(Sends(c)') <= Cardinality(Sends(c)) /\ Cardinality(Sends(c)') \in Nat
  <2>1. Sends(c)' \in SUBSET Sends(c) /\ IsFiniteSet(Sends(c))
    BY Countable
  <2> QED
    BY <2>1, FS_Subset, FS_CardinalityType
<1>3. ASSUME NEW c
      PROVE  /\ \A a : Cardinality(Entries(c, a)') <= Cardinality(Callers)
             /\ Cardinality(Entries(c, now)') + Cardinality(Sends(c)') <= Cardinality(Callers)
  <2>1. Entries(c, now)' = Entries(c, now)
    BY <1>1
  <2>2. /\ Cardinality(Entries(c, now)) \in Nat /\ Cardinality(Sends(c)) \in Nat
        /\ Cardinality(Callers) \in Nat
    BY Countable
  <2>3. /\ \A a : Cardinality(Entries(c, a)) <= Cardinality(Callers)
        /\ Cardinality(Entries(c, now)) + Cardinality(Sends(c)) <= Cardinality(Callers)
    BY DEF Counted
  <2> QED
    BY <1>1, <1>2, <2>1, <2>2, <2>3
<1> QED
  BY <1>3 DEF Counted

\* A step that neither records nor forwards, of a caller that has not passed the tests.
LEMMA QuietKeeps ==
    ASSUME RInv, HInv', NEW t \in Callers, Moves(t), UNCHANGED <<last_sent, log, harm>>,
           pc'[t] \notin {"record", "iterate", "scan", "forget"}, pc'[t] # "idle" => call'[t].at = now
    PROVE  RInv'
<1>1. Times'
  BY DEF RInv, Times, Moves
<1>2. CASE "wiped" \notin harm
  <2>1. Within /\ CallsOk
    BY <1>2 DEF RInv, Within, HInv
  <2>2. Kept' /\ Spaced'
    BY <2>1 DEF Within, Kept, Spaced, Moves
  <2>3. Current'
    BY <2>1 DEF Within, Current, Moves
  <2>4. \A c : Sends(c)' \subseteq Sends(c)
    BY DEF Sends, Moves
  <2>5. Counted'
    BY <2>1, <2>4, CountedStays DEF Within, Moves
  <2> QED
    BY <1>1, <2>2, <2>3, <2>5 DEF RInv
<1> QED
  BY <1>1, <1>2 DEF RInv

\* The tests are passed: then nothing of the content went out within the window.
LEMMA PassedKeeps ==
    ASSUME RInv, HInv', NEW t \in Callers, Moves(t), UNCHANGED <<last_sent, log, harm>>,
           pc[t] = "check", pc'[t] = "record", call'[t] = call[t],
           ~IsRepeat(last_sent, call[t].content, now - RepeatWindow)
    PROVE  RInv'
<1>1. Times'
  BY DEF RInv, Times, Moves
<1>2. CASE "wiped" \notin harm
  <2>1. Within /\ CallsOk /\ Times
    BY <1>2 DEF RInv, Within, HInv
  <2>2. Kept' /\ Spaced'
    BY <2>1 DEF Within, Kept, Spaced, Moves
  <2>3. Current'
    BY <2>1 DEF Within, Current, Moves
  <2>4. Entries(call[t].content, now) = {}
    <3>1. ASSUME NEW i \in Entries(call[t].content, now)
          PROVE  FALSE
      <4>1. i \in 1..Len(log) /\ log[i].content = call[t].content /\ log[i].at = now
        BY <3>1 DEF Entries
      <4>2. now >= now - RepeatWindow
        BY <2>1, ThrottleAssumption DEF Times
      <4>3. call[t].content \in DOMAIN last_sent /\ last_sent[call[t].content] = now
        BY <2>1, <4>1, <4>2 DEF Within, Kept
      <4> QED
        BY <4>2, <4>3 DEF IsRepeat
    <3> QED
      BY <3>1
  <2>5. \A c, a : Entries(c, a)' = Entries(c, a)
    BY DEF Entries
  <2>6. ASSUME NEW c
        PROVE  /\ \A a : Cardinality(Entries(c, a)') <= Cardinality(Callers)
               /\ Cardinality(Entries(c, now)') + Cardinality(Sends(c)') <= Cardinality(Callers)
    <3>1. \A a : Cardinality(Entries(c, a)') <= Cardinality(Callers)
      BY <2>1, <2>5 DEF Within, Counted
    <3>2. Entries(c, now)' = Entries(c, now)
      BY <2>5 DEF Moves
    <3>3. CASE c = call[t].content
      <4>1. Cardinality(Entries(c, now)') = 0
        BY <2>4, <3>2, <3>3, FS_EmptySet
      <4>2. Cardinality(Sends(c)') \in Nat /\ Cardinality(Sends(c)') <= Cardinality(Callers)
        <5>1. Sends(c)' \in SUBSET Callers
          BY DEF Sends
        <5> QED
          BY <5>1, CallersAssumption, FS_Subset, FS_CardinalityType
      <4> QED
        BY <3>1, <4>1, <4>2
    <3>4. CASE c # call[t].content
      <4>1. Sends(c)' = Sends(c)
        BY <3>4 DEF Sends, Moves
      <4> QED
        BY <2>1, <3>1, <3>2, <4>1 DEF Within, Counted
    <3> QED
      BY <3>3, <3>4
  <2>7. Counted'
    BY <2>6 DEF Counted, Moves
  <2> QED
    BY <1>1, <2>2, <2>3, <2>7 DEF RInv
<1> QED
  BY <1>1, <1>2 DEF RInv

\* Recording a send that passed the tests.
LEMMA RecordKeepsR ==
    ASSUME RInv, HInv', NEW t \in Callers, Record(t)
    PROVE  RInv'
<1>1. /\ call = [u \in Callers |-> call[u]] /\ pc = [u \in Callers |-> pc[u]] /\ CallOk(call[t])
  BY DEF RInv, HInv, CallsOk
<1>2. /\ Moves(t) /\ pc[t] = "record" /\ pc'[t] = "iterate" /\ UNCHANGED <<log, harm>>
      /\ call'[t].content = call[t].content /\ call'[t].at = call[t].at
  BY <1>1 DEF Record, Goto, Moves, CallOk
<1>3. call[t].at = now
  BY <1>2 DEF RInv, Times
<1>4. /\ DOMAIN last_sent' = DOMAIN last_sent \cup {call[t].content}
      /\ last_sent'[call[t].content] = now
      /\ \A c \in DOMAIN last_sent : c # call[t].content => last_sent'[c] = last_sent[c]
  BY <1>3 DEF Record
<1>5. Times'
  BY <1>2, <1>3, <1>4 DEF RInv, Times, Moves
<1>6. CASE "wiped" \notin harm
  <2>1. Within /\ CallsOk /\ Times
    BY <1>6 DEF RInv, Within, HInv
  <2>2. Spaced'
    BY <1>2, <2>1 DEF Within, Spaced
  <2>3. Kept'
    <3>1. SUFFICES ASSUME NEW i \in 1..Len(log), log[i].at >= now - RepeatWindow
                   PROVE  /\ log[i].content \in DOMAIN last_sent'
                          /\ last_sent'[log[i].content] = log[i].at
      BY <1>2 DEF Kept, Moves
    <3>2. log[i].content \in DOMAIN last_sent /\ last_sent[log[i].content] = log[i].at
      BY <2>1, <3>1 DEF Within, Kept
    <3>3. CASE log[i].content = call[t].content
      <4>1. last_sent[call[t].content] = now
        BY <1>2, <2>1, <3>1, <3>2, <3>3 DEF Within, Current, IsRepeat
      <4> QED
        BY <1>4, <3>2, <3>3, <4>1
    <3> QED
      BY <1>4, <3>2, <3>3
  <2>4. Current'
    <3>1. ASSUME NEW u \in Callers
          PROVE  /\ (pc'[u] = "record"
                     /\ IsRepeat(last_sent', call'[u].content, now - RepeatWindow))
                        => last_sent'[call'[u].content] = now
                 /\ pc'[u] \in {"iterate", "scan", "forget"} =>
                        call'[u].content \in DOMAIN last_sent' /\ last_sent'[call'[u].content] = now
      <4>1. CASE u = t
        BY <1>2, <1>4, <4>1
      <4>2. CASE u # t
        BY <1>2, <1>4, <2>1, <4>2 DEF Within, Current, IsRepeat, Moves
      <4> QED
        BY <4>1, <4>2
    <3> QED
      BY <1>2, <3>1 DEF Current, Moves
  <2>5. \A c : Sends(c)' \subseteq Sends(c)
    BY <1>2 DEF Sends, Moves
  <2>6. Counted'
    BY <1>2, <2>1, <2>5, CountedStays DEF Within, Moves
  <2> QED
    BY <1>5, <2>2, <2>3, <2>4, <2>6 DEF RInv
<1> QED
  BY <1>2, <1>5, <1>6 DEF RInv

\* Contents are forgotten; those that still count only if that is noted in harm.
Forgets ==
    /\ DOMAIN last_sent' \subseteq DOMAIN last_sent
    /\ \A c \in DOMAIN last_sent' : last_sent'[c] = last_sent[c]
    /\ "wiped" \notin harm' =>
          "wiped" \notin harm
          /\ \A c \in DOMAIN last_sent \ DOMAIN last_sent' : last_sent[c] < now - RepeatWindow

\* A send that still counts is remembered by a caller that forgets.
LEMMA NotForgotten ==
    ASSUME Forgets, "wiped" \notin harm', Times, NEW c \in DOMAIN last_sent,
           last_sent[c] >= now - RepeatWindow
    PROVE  c \in DOMAIN last_sent' /\ last_sent'[c] = last_sent[c]
<1>1. last_sent[c] \in Int /\ now - RepeatWindow \in Int
  BY ThrottleAssumption DEF Times
<1>2. ~(last_sent[c] < now - RepeatWindow)
  BY <1>1
<1> QED
  BY <1>2 DEF Forgets

\* What is about to be sent was last sent now, if at all, after forgetting too.
LEMMA CurrentStays ==
    ASSUME Current, Times, Forgets, "wiped" \notin harm', NEW t \in Callers, Moves(t),
           pc'[t] \in {"iterate", "scan", "forget"} =>
               pc[t] \in {"iterate", "scan", "forget"} /\ call'[t].content = call[t].content,
           pc'[t] # "record"
    PROVE  Current'
<1>1. now >= now - RepeatWindow
  BY ThrottleAssumption DEF Times
<1>2. ASSUME NEW u \in Callers
      PROVE  /\ (pc'[u] = "record" /\ IsRepeat(last_sent', call'[u].content, now - RepeatWindow))
                    => last_sent'[call'[u].content] = now
             /\ pc'[u] \in {"iterate", "scan", "forget"} =>
                    call'[u].content \in DOMAIN last_sent' /\ last_sent'[call'[u].content] = now
  <2>1. pc'[u] = "record" => u # t /\ pc[u] = "record" /\ call'[u] = call[u]
    BY DEF Moves
  <2>2. pc'[u] \in {"iterate", "scan", "forget"} =>
            pc[u] \in {"iterate", "scan", "forget"} /\ call'[u].content = call[u].content
    BY DEF Moves
  <2>3. ASSUME pc'[u] = "record", IsRepeat(last_sent', call'[u].content, now - RepeatWindow)
        PROVE  last_sent'[call'[u].content] = now
    BY <2>1, <2>3 DEF Current, IsRepeat, Forgets
  <2>4. ASSUME pc'[u] \in {"iterate", "scan", "forget"}
        PROVE  call'[u].content \in DOMAIN last_sent' /\ last_sent'[call'[u].content] = now
    <3>1. call[u].content \in DOMAIN last_sent /\ last_sent[call[u].content] = now
      BY <2>2, <2>4 DEF Current
    <3> QED
      BY <1>1, <2>2, <2>4, <3>1, NotForgotten
  <2> QED
    BY <2>3, <2>4
<1> QED
  BY <1>2 DEF Current, Moves

\* The caller goes on deleting, or its call ends in an exception.
LEMMA StaysKeepR ==
    ASSUME RInv, HInv', NEW t \in Callers, Moves(t), Forgets, log' = log,
           pc[t] \in {"iterate", "scan", "forget"}, pc'[t] \in {"scan", "forget", "idle"},
           call'[t].content = call[t].content, call'[t].at = call[t].at
    PROVE  RInv'
<1>1. Times'
  BY DEF RInv, Times, Moves, Forgets
<1>2. CASE "wiped" \notin harm'
  <2>1. Within /\ CallsOk /\ Times
    BY <1>2 DEF RInv, Within, HInv, Forgets
  <2>2. Spaced'
    BY <2>1 DEF Within, Spaced
  <2>3. Kept'
    BY <1>2, <2>1, NotForgotten DEF Within, Kept, Moves
  <2>4. Current'
    BY <1>2, <2>1, CurrentStays DEF Within
  <2>5. \A c : Sends(c)' \subseteq Sends(c)
    BY DEF Sends, Moves
  <2>6. Counted'
    BY <2>1, <2>5, CountedStays DEF Within, Moves
  <2> QED
    BY <1>1, <2>2, <2>3, <2>4, <2>6 DEF RInv
<1> QED
  BY <1>1, <1>2 DEF RInv

\* The notification goes out: one more in the log, one fewer on its way.
LEMMA ReturnsKeepR ==
    ASSUME RInv, HInv', NEW t \in Callers, Moves(t), Forgets, Returns(t),
           pc[t] \in {"iterate", "scan", "forget"}
    PROVE  RInv'
<1>1. PICK e : e = [content |-> call[t].content, at |-> call[t].at]
  OBVIOUS
<1>2. call[t].at = now /\ now \in Nat /\ CallsOk
  BY DEF RInv, Times, HInv
<1>3. e.content = call[t].content /\ e.at = now
  BY <1>1, <1>2
<1>4. /\ Len(log) \in Nat /\ Len(log') = Len(log) + 1
      /\ \A i \in 1..Len(log) : log'[i] = log[i]
      /\ log'[Len(log) + 1] = e
  BY <1>1, <1>2, LogGrows DEF Returns, CallsOk
<1>5. \A i \in 1..Len(log') : i \in 1..Len(log) \/ i = Len(log) + 1
  BY <1>4
<1>6. 1..Len(log) \subseteq 1..Len(log') /\ Len(log) + 1 \in 1..Len(log')
  BY <1>4
<1>7. pc'[t] = "idle"
  BY <1>2 DEF Returns, Goto, CallsOk
<1>8. Times'
  <2>1. \A i \in 1..Len(log') : log'[i].at \in Nat /\ log'[i].at <= now
    BY <1>2, <1>3, <1>4, <1>5 DEF RInv, Times
  <2> QED
    BY <1>7, <2>1 DEF RInv, Times, Moves, Forgets
<1>9. CASE "wiped" \notin harm'
  <2>1. Within /\ Times
    BY <1>9 DEF RInv, Within, Forgets
  <2>2. e.content \in DOMAIN last_sent /\ last_sent[e.content] = now
    BY <1>3, <2>1 DEF Within, Current
  <2>3. now >= now - RepeatWindow
    BY <1>2, ThrottleAssumption
  <2>4. e.content \in DOMAIN last_sent' /\ last_sent'[e.content] = now
    BY <1>9, <2>1, <2>2, <2>3, NotForgotten
  <2>5. Kept'
    <3>1. SUFFICES ASSUME NEW i \in 1..Len(log'), log'[i].at >= now - RepeatWindow
                   PROVE  /\ log'[i].content \in DOMAIN last_sent'
                          /\ last_sent'[log'[i].content] = log'[i].at
      BY DEF Kept, Moves
    <3>2. CASE i \in 1..Len(log)
      BY <1>4, <1>9, <2>1, <3>1, <3>2, NotForgotten DEF Within, Kept
    <3>3. CASE i = Len(log) + 1
      BY <1>3, <1>4, <2>4, <3>3
    <3> QED
      BY <1>5, <3>2, <3>3
  <2>6. Current'
    BY <1>7, <1>9, <2>1, CurrentStays DEF Within
  <2>7. Spaced'
    <3>1. SUFFICES ASSUME NEW i \in 1..Len(log'), NEW j \in 1..Len(log'),
                          log'[j].content = log'[i].content,
                          log'[i].at <= log'[j].at, log'[j].at <= log'[i].at + RepeatWindow
                   PROVE  log'[j].at = log'[i].at
      BY DEF Spaced
    <3>2. CASE i \in 1..Len(log) /\ j \in 1..Len(log)
      BY <1>4, <2>1, <3>1, <3>2 DEF Within, Spaced
    <3>3. CASE i = Len(log) + 1
      <4>1. log'[i].at = now /\ log'[j].at \in Nat /\ log'[j].at <= now
        BY <1>3, <1>4, <1>8, <3>3 DEF Times, Moves
      <4> QED
        BY <1>2, <3>1, <4>1
    <3>4. CASE i \in 1..Len(log) /\ j = Len(log) + 1
      <4>1. log'[i] = log[i] /\ log'[j] = e /\ log[i].at \in Nat
        BY <1>4, <2>1, <3>4 DEF Times
      <4>2. log[i].at >= now - RepeatWindow /\ log[i].content = e.content
        BY <1>2, <1>3, <3>1, <4>1, ThrottleAssumption
      <4>3. last_sent[e.content] = log[i].at
        BY <2>1, <3>4, <4>2 DEF Within, Kept
      <4> QED
        BY <1>3, <2>2, <4>1, <4>3
    <3> QED
      BY <1>5, <3>2, <3>3, <3>4
  <2>8. Counted'
    <3>1. ASSUME NEW c, NEW a, c # e.content \/ a # now
          PROVE  Entries(c, a)' = Entries(c, a)
      BY <1>3, <1>4, <1>5, <1>6, <3>1 DEF Entries
    <3>2. Entries(e.content, now)' = Entries(e.content, now) \cup {Len(log) + 1}
      BY <1>3, <1>4, <1>5, <1>6 DEF Entries, Moves
    <3>3. Len(log) + 1 \notin Entries(e.content, now)
      BY <1>4 DEF Entries
    <3>4. Cardinality(Entries(e.content, now)') = Cardinality(Entries(e.content, now)) + 1
      BY <1>2, <3>2, <3>3, Countable, FS_AddElement
    <3>5. \A c : Sends(c)' \subseteq Sends(c)
      BY <1>7 DEF Sends, Moves
    <3>6. Sends(e.content)' = Sends(e.content) \ {t} /\ t \in Sends(e.content)
      BY <1>3, <1>7 DEF Sends, Moves
    <3>7. Cardinality(Sends(e.content)') = Cardinality(Sends(e.content)) - 1
      BY <1>2, <3>6, Countable, FS_RemoveElement
    <3>8. ASSUME NEW c
          PROVE  /\ \A a : Cardinality(Entries(c, a)') <= Cardinality(Callers)
                 /\ Cardinality(Entries(c, now)') + Cardinality(Sends(c)') <= Cardinality(Callers)
      <4>1. /\ Cardinality(Callers) \in Nat /\ Cardinality(Sends(c)) \in Nat
            /\ \A a : Cardinality(Entries(c, a)) \in Nat
        BY <1>2, Countable
      <4>2. /\ \A a : Cardinality(Entries(c, a)) <= Cardinality(Callers)
            /\ Cardinality(Entries(c, now)) + Cardinality(Sends(c)) <= Cardinality(Callers)
        BY <2>1 DEF Within, Counted
      <4>3. CASE c = e.content
        <5>1. Cardinality(Entries(c, now)') + Cardinality(Sends(c)') <= Cardinality(Callers)
          BY <3>4, <3>7, <4>1, <4>2, <4>3
        <5>2. Cardinality(Sends(c)') \in Nat
          BY <3>5, <1>2, Countable, FS_Subset, FS_CardinalityType
        <5>3. Cardinality(Entries(c, now)') <= Cardinality(Callers)
          BY <3>4, <4>1, <4>3, <5>1, <5>2
        <5>4. ASSUME NEW a
              PROVE  Cardinality(Entries(c, a)') <= Cardinality(Callers)
          <6>1. CASE a = now
            <7>1. Entries(c, a)' = Entries(c, now)'
              BY <6>1 DEF Moves
            <7> QED
              BY <5>3, <7>1
          <6>2. CASE a # now
            BY <3>1, <4>2, <6>2
          <6> QED
            BY <6>1, <6>2
        <5> QED
          BY <5>1, <5>4
      <4>4. CASE c # e.content
        <5>1. \A a : Entries(c, a)' = Entries(c, a)
          BY <3>1, <4>4
        <5>2. /\ Cardinality(Sends(c)') \in Nat
              /\ Cardinality(Sends(c)') <= Cardinality(Sends(c))
          BY <3>5, <1>2, Countable, FS_Subset, FS_CardinalityType
        <5>3. Entries(c, now)' = Entries(c, now)
          BY <5>1 DEF Moves
        <5>4. \A a : Cardinality(Entries(c, a)') <= Cardinality(Callers)
          BY <4>2, <5>1
        <5>5. Cardinality(Entries(c, now)') + Cardinality(Sends(c)') <= Cardinality(Callers)
          BY <4>1, <4>2, <5>2, <5>3
        <5> QED
          BY <5>4, <5>5
      <4> QED
        BY <4>3, <4>4
    <3> QED
      BY <3>8 DEF Counted, Moves
  <2> QED
    BY <1>8, <2>5, <2>6, <2>7, <2>8 DEF RInv
<1> QED
  BY <1>8, <1>9 DEF RInv

\* The steps up to the tests, in the invariant of the window.
LEMMA EarlyKeepR ==
    ASSUME RInv, HInv', NEW t \in Callers,
           (\E c \in Contents : Enter(t, c)) \/ Prune(t) \/ Check(t)
    PROVE  RInv'
<1>1. /\ call = [u \in Callers |-> call[u]] /\ pc = [u \in Callers |-> pc[u]] /\ CallOk(call[t])
  BY DEF RInv, HInv, CallsOk
<1>2. CASE \E c \in Contents : Enter(t, c)
  <2>1. /\ Moves(t) /\ UNCHANGED <<last_sent, log, harm>> /\ pc'[t] = "prune"
        /\ call'[t].at = now
    BY <1>1, <1>2 DEF Enter, Goto, vars, Moves, CallOk
  <2> QED
    BY <2>1, QuietKeeps
<1>3. CASE Prune(t)
  <2>1. /\ Moves(t) /\ UNCHANGED <<last_sent, log, harm>> /\ pc'[t] = "check"
        /\ call'[t].at = now
    BY <1>1, <1>3 DEF Prune, Goto, Moves, RInv, Times
  <2> QED
    BY <2>1, QuietKeeps
<1>4. CASE Check(t)
  <2>1. Moves(t) /\ UNCHANGED <<last_sent, log, harm>> /\ pc[t] = "check" /\ call'[t] = call[t]
    BY <1>1, <1>4 DEF Check, Goto, vars, Moves
  <2>2. call[t].at = now
    BY <2>1 DEF RInv, Times
  <2>3. \/ pc'[t] = "idle"
        \/ pc'[t] = "record" /\ ~IsRepeat(last_sent, call[t].content, now - RepeatWindow)
    BY <1>1, <1>4, <2>2 DEF Check, Goto, Cutoff
  <2>4. CASE pc'[t] = "idle"
    BY <2>1, <2>4, QuietKeeps
  <2>5. CASE pc'[t] = "record" /\ ~IsRepeat(last_sent, call[t].content, now - RepeatWindow)
    BY <2>1, <2>5, PassedKeeps
  <2> QED
    BY <2>3, <2>4, <2>5
<1> QED
  BY <1>2, <1>3, <1>4

\* Beginning the scan.
LEMMA IterateKeepsR ==
    ASSUME RInv, HInv', NEW t \in Callers, Iterate(t)
    PROVE  RInv'
<1>1. /\ call = [u \in Callers |-> call[u]] /\ pc = [u \in Callers |-> pc[u]] /\ CallOk(call[t])
  BY DEF RInv, HInv, CallsOk
<1>2. /\ Moves(t) /\ UNCHANGED <<last_sent, log, harm>> /\ pc[t] = "iterate" /\ pc'[t] = "scan"
      /\ call'[t].content = call[t].content /\ call'[t].at = call[t].at
  BY <1>1 DEF Iterate, Goto, vars, Moves, CallOk
<1>3. Forgets
  BY <1>2 DEF Forgets
<1> QED
  BY <1>2, <1>3, StaysKeepR

\* The end of the scan.
LEMMA ScanKeepsR ==
    ASSUME RInv, HInv', NEW t \in Callers, Scan(t)
    PROVE  RInv'
<1>1. /\ call = [u \in Callers |-> call[u]] /\ pc = [u \in Callers |-> pc[u]] /\ CallOk(call[t])
  BY DEF RInv, HInv, CallsOk
<1>2. /\ pc[t] = "scan" /\ UNCHANGED <<now, last_sent>>
      /\ call'[t].content = call[t].content /\ call'[t].at = call[t].at
      /\ \A u \in Callers : u # t => call'[u] = call[u]
  BY <1>1 DEF Scan, CallOk
<1>3. CASE Raises(t)
  <2>1. Moves(t) /\ Forgets /\ log' = log /\ pc'[t] = "idle"
    BY <1>1, <1>2, <1>3 DEF Raises, Goto, Moves, Forgets
  <2> QED
    BY <1>2, <2>1, StaysKeepR
<1>4. CASE Returns(t) /\ UNCHANGED harm
  <2>1. Moves(t) /\ Forgets
    BY <1>1, <1>2, <1>4 DEF Returns, Goto, Moves, Forgets
  <2> QED
    BY <1>2, <1>4, <2>1, ReturnsKeepR
<1>5. CASE Goto(t, "forget") /\ UNCHANGED <<log, harm>>
  <2>1. Moves(t) /\ Forgets /\ log' = log /\ pc'[t] = "forget"
    BY <1>1, <1>2, <1>5 DEF Goto, Moves, Forgets
  <2> QED
    BY <1>2, <2>1, StaysKeepR
<1> QED
  BY <1>3, <1>4, <1>5 DEF Scan

\* A deletion forgets only what is too old, or is noted as wiped.
LEMMA DeleteKeepsR ==
    ASSUME RInv, HInv', NEW t \in Callers, Delete(t)
    PROVE  RInv'
<1>1. /\ call = [u \in Callers |-> call[u]] /\ pc = [u \in Callers |-> pc[u]] /\ CallOk(call[t])
  BY DEF RInv, HInv, CallsOk
<1>2. PICK c \in call[t].stale :
        /\ call' = [call EXCEPT ![t].stale = @ \ {c}]
        /\ last_sent' = [d \in DOMAIN last_sent \ {c} |-> last_sent[d]]
        /\ IF c \notin DOMAIN last_sent THEN Raises(t)
           ELSE /\ harm' = IF last_sent[c] < Cutoff(t) THEN harm ELSE harm \cup {"wiped"}
                /\ IF call[t].stale = {c} THEN Returns(t) ELSE UNCHANGED <<pc, log>>
  BY DEF Delete
<1>3. /\ pc[t] = "forget" /\ now' = now
      /\ call'[t].content = call[t].content /\ call'[t].at = call[t].at
      /\ \A u \in Callers : u # t => call'[u] = call[u]
  BY <1>1, <1>2 DEF Delete, CallOk
<1>4. call[t].at = now /\ Cutoff(t) = now - RepeatWindow
  BY <1>3 DEF RInv, Times, Cutoff
<1>5. /\ DOMAIN last_sent' \subseteq DOMAIN last_sent
      /\ \A d \in DOMAIN last_sent' : last_sent'[d] = last_sent[d]
      /\ DOMAIN last_sent \ DOMAIN last_sent' \subseteq {c}
  BY <1>2
<1>6. CASE c \notin DOMAIN last_sent
  <2>1. Raises(t) /\ DOMAIN last_sent \ DOMAIN last_sent' = {}
    BY <1>2, <1>6
  <2>2. Moves(t) /\ Forgets /\ log' = log /\ pc'[t] = "idle"
    BY <1>1, <1>3, <1>5, <2>1 DEF Raises, Goto, Moves, Forgets
  <2> QED
    BY <1>3, <2>2, StaysKeepR
<1>7. CASE c \in DOMAIN last_sent
  <2>1. /\ harm' = IF last_sent[c] < Cutoff(t) THEN harm ELSE harm \cup {"wiped"}
        /\ Returns(t) \/ UNCHANGED <<pc, log>>
    BY <1>2, <1>7
  <2>2. Forgets
    BY <1>4, <1>5, <2>1 DEF Forgets
  <2>3. CASE Returns(t)
    <3>1. Moves(t)
      BY <1>1, <1>3, <2>3 DEF Returns, Goto, Moves
    <3> QED
      BY <1>3, <2>2, <2>3, <3>1, ReturnsKeepR
  <2>4. CASE UNCHANGED <<pc, log>>
    <3>1. Moves(t) /\ pc'[t] = "forget" /\ log' = log
      BY <1>3, <2>4 DEF Moves
    <3> QED
      BY <1>3, <2>2, <3>1, StaysKeepR
  <2> QED
    BY <2>1, <2>3, <2>4
<1> QED
  BY <1>6, <1>7

\* Time passes only when nobody is inside: nothing is on its way.
LEMMA CTickKeepsR ==
    ASSUME RInv, HInv', CTick
    PROVE  RInv'
<1>1. /\ \A t \in Callers : pc[t] = "idle"
      /\ UNCHANGED <<last_sent, log, pc, call, harm>>
  BY DEF CTick, Tick
<1>2. PICK d \in Steps : now' = now + d
  BY DEF CTick, Tick
<1>3. PICK n : n = now'
  OBVIOUS
<1>4. d \in Nat /\ now \in Nat /\ n \in Nat /\ n >= now /\ (n = now \/ n > now)
  BY <1>2, <1>3, ThrottleAssumption DEF RInv, Times
<1>5. Times'
  BY <1>1, <1>3, <1>4 DEF RInv, Times
<1>6. CASE "wiped" \notin harm
  <2>1. Within /\ CallsOk /\ Times
    BY <1>6 DEF RInv, Within, HInv
  <2>2. Spaced'
    BY <1>1, <2>1 DEF Within, Spaced
  <2>3. Kept'
    <3>1. SUFFICES ASSUME NEW i \in 1..Len(log), log[i].at >= n - RepeatWindow
                   PROVE  /\ log[i].content \in DOMAIN last_sent
                          /\ last_sent[log[i].content] = log[i].at
      BY <1>1, <1>3 DEF Kept
    <3>2. log[i].at >= now - RepeatWindow
      BY <1>4, <2>1, <3>1, ThrottleAssumption DEF Times
    <3> QED
      BY <2>1, <3>2 DEF Within, Kept
  <2>4. Current'
    BY <1>1 DEF Current
  <2>5. \A c, a : Entries(c, a)' = Entries(c, a)
    BY <1>1 DEF Entries
  <2>6. \A c : Sends(c)' = {}
    BY <1>1 DEF Sends
  <2>7. ASSUME NEW c
        PROVE  /\ \A a : Cardinality(Entries(c, a)') <= Cardinality(Callers)
               /\ Cardinality(Entries(c, now)') + Cardinality(Sends(c)') <= Cardinality(Callers)
    <3>1. \A a : Cardinality(Entries(c, a)') <= Cardinality(Callers)
      BY <2>1, <2>5 DEF Within, Counted
    <3>2. Cardinality(Sends(c)') = 0
      BY <2>6, FS_EmptySet
    <3>3. Entries(c, now)' = Entries(c, n)
      BY <1>1, <1>3 DEF Entries
    <3>4. Cardinality(Entries(c, n)) \in Nat /\ Cardinality(Entries(c, n)) <= Cardinality(Callers)
      BY <2>1, Countable DEF Within, Counted
    <3> QED
      BY <3>1, <3>2, <3>3, <3>4
  <2>8. Counted'
    BY <2>7 DEF Counted
  <2> QED
    BY <1>5, <2>2, <2>3, <2>4, <2>8 DEF RInv
<1> QED
  BY <1>1, <1>5, <1>6 DEF RInv

\* The window is empty at the start.
LEMMA RInit == CInit => RInv
<1> SUFFICES ASSUME CInit
             PROVE  RInv
  OBVIOUS
<1>1. HInv /\ CallsOk
  BY HInit DEF HInv
<1>2. /\ DOMAIN last_sent = {} /\ 1..Len(log) = {} /\ now = 0
      /\ \A t \in Callers : pc[t] = "idle"
  BY DEF CInit, Init
<1>3. Times /\ Kept /\ Current /\ Spaced
  BY <1>2 DEF Times, Kept, Current, Spaced
<1>4. \A c, a : Entries(c, a) = {} /\ Sends(c) = {}
  BY <1>2 DEF Entries, Sends
<1>5. Counted
  BY <1>1, <1>4, Countable, FS_EmptySet DEF Counted
<1> QED
  BY <1>1, <1>3, <1>5 DEF RInv

\* Every step keeps the window.
LEMMA RNext ==
    ASSUME RInv, [CNext]_cvars
    PROVE  RInv'
<1>1. HInv'
  BY HNext DEF RInv
<1>2. ASSUME NEW t \in Callers,
             \/ \E c \in Contents : Enter(t, c)
             \/ Prune(t) \/ Check(t) \/ Record(t) \/ Iterate(t) \/ Scan(t) \/ Delete(t)
      PROVE  RInv'
  BY <1>1, <1>2, EarlyKeepR, RecordKeepsR, IterateKeepsR, ScanKeepsR, DeleteKeepsR
<1>3. CASE CTick
  BY <1>1, <1>3, CTickKeepsR
<1>4. CASE UNCHANGED cvars
  <2>1. UNCHANGED <<now, last_sent, log, pc, call, harm>>
    BY <1>4 DEF cvars, vars
  <2>2. Times' /\ (Kept => Kept') /\ (Current => Current') /\ (Spaced => Spaced')
    BY <2>1 DEF RInv, Times, Kept, Current, Spaced
  <2>3. Counted => Counted'
    <3>1. \A c : Sends(c)' \subseteq Sends(c)
      BY <2>1 DEF Sends
    <3> QED
      BY <2>1, <3>1, CountedStays DEF RInv, HInv
  <2> QED
    BY <1>1, <2>1, <2>2, <2>3 DEF RInv
<1> QED
  BY <1>2, <1>3, <1>4 DEF CNext

\* For any number of callers and contents, any window and any clock, however the calls
\* overlap: unless a clean-up deleted the record of a send that still counts, one content
\* goes out at most once per caller within a window, and then only in calls of one
\* instant (alarms.py:192-211, bridge.py:401-419).
THEOREM RepeatBoundedHolds == CSpec => []RepeatBounded
<1>1. RInv /\ [CNext]_cvars => RInv'
  BY RNext
<1>2. RInv => RepeatBounded
  <2> SUFFICES ASSUME RInv, "wiped" \notin harm, NEW i \in DOMAIN log
               PROVE  LET again == {j \in DOMAIN log :
                                       /\ log[j].content = log[i].content
                                       /\ log[j].at \in log[i].at .. (log[i].at + RepeatWindow)}
                      IN /\ Cardinality(again) <= Cardinality(Callers)
                         /\ \A j \in again : log[j].at = log[i].at
    BY DEF RepeatBounded
  <2> DEFINE again == {j \in DOMAIN log :
                          /\ log[j].content = log[i].content
                          /\ log[j].at \in log[i].at .. (log[i].at + RepeatWindow)}
             same == Entries(log[i].content, log[i].at)
  <2>1. Within /\ CallsOk /\ Times /\ DOMAIN log = 1..Len(log)
    BY DEF RInv, Within, HInv, CallsOk, IsLog
  <2>2. ASSUME NEW j \in again
        PROVE  log[j].at = log[i].at
    <3>1. /\ j \in 1..Len(log) /\ log[j].content = log[i].content
          /\ log[i].at <= log[j].at /\ log[j].at <= log[i].at + RepeatWindow
      BY <2>1
    <3> QED
      BY <2>1, <3>1 DEF Within, Spaced
  <2>3. again \in SUBSET same
    BY <2>1, <2>2 DEF Entries
  <2>4. IsFiniteSet(same) /\ Cardinality(same) \in Nat /\ Cardinality(same) <= Cardinality(Callers)
    BY <2>1, Countable DEF Within, Counted
  <2>5. Cardinality(again) <= Cardinality(same) /\ Cardinality(again) \in Nat
    <3> HIDE DEF again, same
    <3> QED
      BY <2>3, <2>4, FS_Subset, FS_CardinalityType
  <2>6. Cardinality(Callers) \in Nat
    BY <2>1, Countable
  <2>7. Cardinality(again) <= Cardinality(Callers)
    <3> HIDE DEF again, same
    <3> QED
      BY <2>4, <2>5, <2>6
  <2> QED
    BY <2>2, <2>7
<1> QED
  BY <1>1, <1>2, RInit, PTL DEF CSpec
=============================================================================
