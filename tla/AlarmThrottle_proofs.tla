------------------------ MODULE AlarmThrottle_proofs ------------------------
(***************************************************************************)
(* Proofs about AlarmThrottle, for every window, limit and set of keys.    *)
(***************************************************************************)
EXTENDS AlarmThrottle, FiniteSetTheorems, WellFoundedInduction, TLAPS

\* q holds the times of the last Len(q) sends.
Suffix(q) ==
    /\ Len(q) <= Len(log)
    /\ \A i \in 1..Len(q) : q[i] = log[Len(log) - Len(q) + i].at

\* Every send q does not hold is older than the window.
OlderGone(q) == \A i \in 1..(Len(log) - Len(q)) : log[i].at < now - RepeatWindow

Sorted ==
    /\ \A i, j \in 1..Len(log) : i <= j => log[i].at <= log[j].at
    /\ \A i \in 1..Len(log) : log[i].at <= now

\* A send within the window is remembered with its content.
Remembered ==
    \A i \in 1..Len(log) :
        log[i].at >= now - RepeatWindow =>
            /\ log[i].content \in DOMAIN last_sent
            /\ last_sent[log[i].content] >= log[i].at

\* What is remembered of a content is one of the last MaxPerWindow sends.
AmongLast ==
    \A c \in DOMAIN last_sent :
        \E i \in 1..Len(log) : /\ i > Len(log) - MaxPerWindow
                               /\ log[i].content = c /\ log[i].at = last_sent[c]

\* The inductive invariant.
IInv ==
    /\ TypeOK
    /\ Suffix(recent) /\ OlderGone(recent) /\ Sorted /\ Remembered /\ AmongLast
    /\ SameAlarmSpaced /\ WindowBounded

-----------------------------------------------------------------------------
\* A non-empty set of natural numbers has a least element.
LEMMA LeastNatural ==
    \A S \in SUBSET Nat : S # {} => \E k \in S : \A j \in S : k <= j
<1> SUFFICES ASSUME NEW S \in SUBSET Nat, S # {} PROVE \E k \in S : \A j \in S : k <= j
  OBVIOUS
<1>1. PICK k \in S : \A j \in S : ~(<<j, k>> \in OpToRel(<, Nat))
  BY WFMin, NatLessThanWellFounded, Zenon
<1>2. ASSUME NEW j \in S PROVE k <= j
  <2>1. j \in Nat /\ k \in Nat
    OBVIOUS
  <2>2. ~(j < k)
    BY <1>1, <2>1 DEF OpToRel
  <2> QED
    BY <2>1, <2>2
<1> QED
  BY <1>2

\* The while loop drops exactly the leading entries older than the cutoff.
LEMMA PrunedIsSuffix ==
    ASSUME NEW q \in Seq(Nat), NEW cutoff \in Int
    PROVE  \E k \in 1..(Len(q) + 1) :
               /\ Pruned(q, cutoff) = SubSeq(q, k, Len(q))
               /\ \A i \in 1..(k - 1) : q[i] < cutoff
               /\ k \in 1..Len(q) => q[k] >= cutoff
<1> DEFINE Good(k) == /\ \A i \in 1..(k - 1) : q[i] < cutoff
                      /\ k \in DOMAIN q => q[k] >= cutoff
           S == {k \in 1..(Len(q) + 1) : k \in DOMAIN q => q[k] >= cutoff}
<1>1. S \in SUBSET Nat /\ Len(q) + 1 \in S
  OBVIOUS
<1> HIDE DEF S
<1>a. S # {}
  BY <1>1
<1>2. PICK k \in S : \A j \in S : k <= j
  BY <1>1, <1>a, LeastNatural
<1>3. k \in 1..(Len(q) + 1) /\ Good(k)
  <2>1. ASSUME NEW i \in 1..(k - 1) PROVE q[i] < cutoff
    <3>1. i \in 1..Len(q) /\ q[i] \in Nat
      BY <1>2 DEF S
    <3>2. i \notin S
      BY <1>1, <1>2, <3>1
    <3> QED
      BY <3>1, <3>2 DEF S
  <2> QED
    BY <1>2, <2>1 DEF S
<1>4. PICK m : m = CHOOSE n \in 1..(Len(q) + 1) : Good(n)
  OBVIOUS
<1>5. m \in 1..(Len(q) + 1) /\ Good(m)
  BY <1>3, <1>4
<1>6. Pruned(q, cutoff) = SubSeq(q, m, Len(q))
  BY <1>4 DEF Pruned
<1> QED
  BY <1>5, <1>6

\* The fields of a logged send.
LEMMA LogTypes ==
    ASSUME TypeOK, NEW i \in 1..Len(log)
    PROVE  log[i].content \in Contents /\ log[i].at \in Nat
<1> DEFINE Sends == [content : Contents, at : Nat]
<1>1. log \in Seq(Sends)
  BY DEF TypeOK
<1>2. log[i] \in Sends
  <2> HIDE DEF Sends
  <2> QED
    BY <1>1
<1> QED
  BY <1>2

\* Pruning at the present cutoff keeps exactly the sends within the window.
LEMMA PrunedFacts ==
    ASSUME IInv
    PROVE  LET p == Pruned(recent, now - RepeatWindow)
           IN /\ p \in Seq(Nat) /\ Suffix(p) /\ OlderGone(p)
              /\ \A i \in 1..Len(log) :
                    i > Len(log) - Len(p) => log[i].at >= now - RepeatWindow
<1> DEFINE cutoff == now - RepeatWindow
           p == Pruned(recent, cutoff)
<1>0. /\ recent \in Seq(Nat) /\ now \in Nat /\ cutoff \in Int
      /\ log \in Seq([content : Contents, at : Nat])
  BY ThrottleAssumption DEF IInv, TypeOK
<1>a. \A i \in 1..Len(log) : log[i].at \in Nat
  BY LogTypes DEF IInv
<1>1. PICK k \in 1..(Len(recent) + 1) :
          /\ p = SubSeq(recent, k, Len(recent))
          /\ \A i \in 1..(k - 1) : recent[i] < cutoff
          /\ k \in 1..Len(recent) => recent[k] >= cutoff
  BY <1>0, PrunedIsSuffix
<1>2. /\ p \in Seq(Nat) /\ Len(p) = Len(recent) - k + 1
      /\ \A i \in 1..Len(p) : p[i] = recent[k + i - 1]
  <2> HIDE DEF p
  <2>1. k \in Int /\ Len(recent) \in Nat
    BY <1>0
  <2> QED
    BY <1>0, <1>1, <2>1
<1> HIDE DEF p, cutoff
<1>3. /\ Len(recent) <= Len(log)
      /\ \A i \in 1..Len(recent) : recent[i] = log[Len(log) - Len(recent) + i].at
  BY DEF IInv, Suffix
<1>4. Suffix(p)
  <2>1. ASSUME NEW i \in 1..Len(p) PROVE p[i] = log[Len(log) - Len(p) + i].at
    <3>1. k + i - 1 \in 1..Len(recent)
      BY <1>0, <1>2
    <3>2. p[i] = log[Len(log) - Len(recent) + (k + i - 1)].at
      BY <1>2, <1>3, <3>1
    <3>3. Len(log) - Len(recent) + (k + i - 1) = Len(log) - Len(p) + i
      BY <1>0, <1>2
    <3> QED
      BY <3>2, <3>3
  <2> QED
    BY <1>0, <1>2, <1>3, <2>1 DEF Suffix
<1>5. OlderGone(p)
  <2> SUFFICES ASSUME NEW i \in 1..(Len(log) - Len(p)) PROVE log[i].at < cutoff
    BY DEF OlderGone, cutoff
  <2>1. CASE i <= Len(log) - Len(recent)
    BY <1>0, <1>3, <2>1 DEF IInv, OlderGone, cutoff
  <2>2. CASE i > Len(log) - Len(recent)
    <3> DEFINE r == i - (Len(log) - Len(recent))
    <3>1. r \in 1..(k - 1) /\ r \in 1..Len(recent) /\ Len(log) - Len(recent) + r = i
      BY <1>0, <1>2, <1>3, <2>2
    <3>2. recent[r] = log[i].at
      BY <1>3, <3>1
    <3> QED
      BY <1>1, <3>1, <3>2
  <2> QED
    BY <1>0, <1>3, <2>1, <2>2
<1>6. ASSUME NEW i \in 1..Len(log), i > Len(log) - Len(p) PROVE log[i].at >= cutoff
  <2> DEFINE h == Len(log) - Len(p) + 1
  <2>1. h \in 1..Len(log) /\ h <= i /\ Len(p) >= 1 /\ k \in 1..Len(recent)
    BY <1>0, <1>2, <1>3, <1>6
  <2>2. h = Len(log) - Len(recent) + k
    BY <1>0, <1>2
  <2>3. log[h].at >= cutoff
    BY <1>1, <1>3, <2>1, <2>2
  <2>4. log[h].at <= log[i].at
    BY <2>1 DEF IInv, Sorted
  <2>5. log[h].at \in Nat /\ log[i].at \in Nat
    BY <1>a, <2>1
  <2> QED
    BY <1>0, <2>3, <2>4, <2>5
<1> QED
  BY <1>2, <1>4, <1>5, <1>6 DEF p, cutoff

-----------------------------------------------------------------------------
\* A new gate (alarms.py:185-189) satisfies the inductive invariant.
LEMMA InitIInv == Init => IInv
<1> SUFFICES ASSUME Init PROVE IInv
  OBVIOUS
<1>1. /\ now = 0 /\ recent = <<>> /\ log = <<>> /\ Len(log) = 0 /\ Len(recent) = 0
      /\ DOMAIN last_sent = {}
  BY DEF Init
<1>2. TypeOK
  BY <1>1 DEF TypeOK, Init
<1> QED
  BY <1>1, <1>2 DEF IInv, Suffix, OlderGone, Sorted, Remembered, AmongLast, SameAlarmSpaced,
                    WindowBounded

\* A forwarded alarm.
LEMMA ForwardStep ==
    ASSUME IInv, NEW x \in Contents, Forward(x)
    PROVE  IInv'
<1> DEFINE cutoff == now - RepeatWindow
           p == Pruned(recent, cutoff)
           n == Len(log)
<1>0. /\ now \in Nat /\ cutoff \in Int /\ RepeatWindow \in Nat \ {0}
      /\ MaxPerWindow \in Nat \ {0} /\ n \in Nat
      /\ cutoff < now
  BY ThrottleAssumption DEF IInv, TypeOK
<1>1. /\ p \in Seq(Nat) /\ Suffix(p) /\ OlderGone(p)
      /\ \A i \in 1..n : i > n - Len(p) => log[i].at >= cutoff
  BY PrunedFacts
<1>2. /\ ~IsRepeat(last_sent, x, cutoff) /\ Len(p) < MaxPerWindow
      /\ last_sent' = Recorded(last_sent, x, now, cutoff)
      /\ recent' = Append(p, now) /\ now' = now
      /\ log' = Append(log, [content |-> x, at |-> now])
  BY DEF Forward, Allowed
<1>3. \A i \in 1..n : log[i].content \in Contents /\ log[i].at \in Nat
  BY LogTypes DEF IInv
<1>4. Len(p) \in Nat /\ Len(p) <= n /\ \A i \in 1..(n - Len(p)) : log[i].at < cutoff
  BY <1>1 DEF Suffix, OlderGone
<1>5. \A i \in 1..Len(p) : p[i] = log[n - Len(p) + i].at
  BY <1>1 DEF Suffix
<1> DEFINE Sends == [content : Contents, at : Nat]
<1>6. log' \in Seq(Sends) /\ Len(log') = n + 1
  <2>1. [content |-> x, at |-> now] \in Sends /\ log \in Seq(Sends)
    BY <1>0 DEF IInv, TypeOK
  <2> HIDE DEF Sends
  <2> QED
    BY <1>2, <2>1
<1>7. /\ \A i \in 1..n : log'[i] = log[i]
      /\ log'[n + 1].content = x /\ log'[n + 1].at = now
  <2>1. log \in Seq(Sends)
    BY DEF IInv, TypeOK
  <2> HIDE DEF Sends
  <2>2. log'[n + 1] = [content |-> x, at |-> now] /\ \A i \in 1..n : log'[i] = log[i]
    BY <1>2, <2>1
  <2> QED
    BY <2>2
<1>8. recent' \in Seq(Nat) /\ Len(recent') = Len(p) + 1
  BY <1>0, <1>1, <1>2
<1>9. recent'[Len(p) + 1] = now /\ \A i \in 1..Len(p) : recent'[i] = p[i]
  BY <1>1, <1>2
<1>10. /\ DOMAIN last_sent' = {c \in DOMAIN last_sent : last_sent[c] >= cutoff} \cup {x}
       /\ last_sent'[x] = now
       /\ \A c \in DOMAIN last_sent' : c # x => last_sent'[c] = last_sent[c]
       /\ last_sent' \in [DOMAIN last_sent' -> Nat]
  <2>1. \A c \in DOMAIN last_sent : last_sent[c] \in Nat
    BY DEF IInv, TypeOK
  <2>2. last_sent' = [c \in {e \in DOMAIN last_sent : last_sent[e] >= cutoff} \cup {x} |->
                         IF c = x THEN now ELSE last_sent[c]]
    <3>1. DOMAIN last_sent \ {c \in DOMAIN last_sent : last_sent[c] < cutoff}
            = {c \in DOMAIN last_sent : last_sent[c] >= cutoff}
      BY <1>0, <2>1
    <3> HIDE DEF cutoff
    <3> QED
      BY <1>2, <3>1 DEF Recorded
  <2> HIDE DEF cutoff
  <2> QED
    BY <1>0, <2>1, <2>2
<1> HIDE DEF p, cutoff, n, Sends
<1>11. TypeOK'
  <2>1. DOMAIN last_sent' \subseteq Contents
    BY <1>10 DEF IInv, TypeOK
  <2>2. log' \in Seq([content : Contents, at : Nat])
    BY <1>6 DEF Sends
  <2> QED
    BY <1>0, <1>2, <1>8, <1>10, <2>1, <2>2 DEF TypeOK
<1>12. Suffix(recent)'
  <2>1. ASSUME NEW i \in 1..(Len(p) + 1)
        PROVE  recent'[i] = log'[(n + 1) - (Len(p) + 1) + i].at
    <3>1. CASE i = Len(p) + 1
      <4>1. (n + 1) - (Len(p) + 1) + i = n + 1
        BY <1>0, <1>4, <3>1
      <4> QED
        BY <1>7, <1>9, <3>1, <4>1
    <3>2. CASE i \in 1..Len(p)
      <4>1. (n + 1) - (Len(p) + 1) + i = n - Len(p) + i /\ n - Len(p) + i \in 1..n
        BY <1>0, <1>4, <3>2
      <4> QED
        BY <1>5, <1>7, <1>9, <3>2, <4>1
    <3> QED
      BY <1>4, <3>1, <3>2
  <2> QED
    BY <1>0, <1>4, <1>6, <1>8, <2>1 DEF Suffix
<1>13. OlderGone(recent)'
  <2>1. Len(log') - Len(recent') = n - Len(p)
    BY <1>0, <1>4, <1>6, <1>8
  <2>2. \A i \in 1..(n - Len(p)) : i \in 1..n
    BY <1>0, <1>4
  <2> QED
    BY <1>2, <1>4, <1>7, <2>1, <2>2 DEF OlderGone, cutoff
<1>14. Sorted'
  <2>1. \A i \in 1..(n + 1) : i \in 1..n \/ i = n + 1
    BY <1>0
  <2>2. \A i \in 1..n : log[i].at <= now
    BY DEF IInv, Sorted, n
  <2>3. ASSUME NEW i \in 1..(n + 1), NEW j \in 1..(n + 1), i <= j
        PROVE  log'[i].at <= log'[j].at
    <3>1. CASE j \in 1..n
      <4>1. i \in 1..n
        BY <1>0, <2>3, <3>1
      <4> QED
        BY <1>7, <2>3, <3>1, <4>1 DEF IInv, Sorted, n
    <3>2. CASE j = n + 1
      BY <1>0, <1>7, <2>1, <2>2, <3>2
    <3> QED
      BY <2>1, <3>1, <3>2
  <2>4. \A i \in 1..(n + 1) : log'[i].at <= now'
    <3> SUFFICES ASSUME NEW i \in 1..(n + 1) PROVE log'[i].at <= now
      BY <1>2
    <3>1. CASE i = n + 1
      BY <1>0, <1>7, <3>1
    <3>2. CASE i \in 1..n
      BY <1>7, <2>2, <3>2
    <3> QED
      BY <2>1, <3>1, <3>2
  <2> QED
    BY <1>6, <2>3, <2>4 DEF Sorted
<1>15. Remembered'
  <2> SUFFICES ASSUME NEW i \in 1..(n + 1), log'[i].at >= cutoff
               PROVE  /\ log'[i].content \in DOMAIN last_sent'
                      /\ last_sent'[log'[i].content] >= log'[i].at
    BY <1>2, <1>6 DEF Remembered, cutoff
  <2>1. CASE i = n + 1
    BY <1>0, <1>7, <1>10, <2>1
  <2>2. CASE i \in 1..n
    <3> DEFINE c == log[i].content
    <3>1. /\ c \in DOMAIN last_sent /\ last_sent[c] >= log[i].at
          /\ log'[i] = log[i] /\ log[i].at <= now
      BY <1>7, <2>2 DEF IInv, Remembered, Sorted, cutoff, n
    <3>2. last_sent[c] \in Nat /\ log[i].at \in Nat
      BY <1>3, <2>2, <3>1 DEF IInv, TypeOK
    <3>3. last_sent[c] >= cutoff
      BY <1>0, <3>1, <3>2
    <3> QED
      BY <1>10, <3>1, <3>3
  <2> QED
    BY <1>0, <2>1, <2>2
<1>16. AmongLast'
  <2> SUFFICES ASSUME NEW c \in DOMAIN last_sent'
               PROVE  \E i \in 1..(n + 1) :
                         /\ i > (n + 1) - MaxPerWindow
                         /\ log'[i].content = c /\ log'[i].at = last_sent'[c]
    BY <1>6 DEF AmongLast
  <2>1. CASE c = x
    <3>1. n + 1 \in 1..(n + 1) /\ n + 1 > (n + 1) - MaxPerWindow
      BY <1>0
    <3> QED
      BY <1>7, <1>10, <2>1, <3>1
  <2>2. CASE c # x
    <3>1. c \in DOMAIN last_sent /\ last_sent[c] >= cutoff /\ last_sent'[c] = last_sent[c]
      BY <1>10, <2>2
    <3>2. PICK i \in 1..n : log[i].content = c /\ log[i].at = last_sent[c]
      BY <3>1 DEF IInv, AmongLast, n
    <3>3. ~(i \in 1..(n - Len(p)))
      BY <1>0, <1>3, <1>4, <3>1, <3>2
    <3>4. i \in 1..(n + 1) /\ i > (n + 1) - MaxPerWindow
      BY <1>0, <1>2, <1>4, <3>3
    <3> QED
      BY <1>7, <3>1, <3>2, <3>4
  <2> QED
    BY <2>1, <2>2
<1>17. SameAlarmSpaced'
  <2> SUFFICES ASSUME NEW i \in 1..(n + 1), NEW j \in 1..(n + 1), i < j,
                      log'[i].content = log'[j].content
               PROVE  log'[j].at - log'[i].at > RepeatWindow
    BY <1>6 DEF SameAlarmSpaced
  <2>1. CASE j \in 1..n
    <3>1. i \in 1..n
      BY <1>0, <2>1
    <3>2. i \in DOMAIN log /\ j \in DOMAIN log
      BY <2>1, <3>1 DEF n, IInv, TypeOK
    <3> QED
      BY <1>7, <2>1, <3>1, <3>2 DEF IInv, SameAlarmSpaced
  <2>2. CASE j = n + 1
    <3>1. i \in 1..n /\ log[i].content = x /\ log[i].at \in Nat /\ log'[i] = log[i]
      BY <1>0, <1>3, <1>7, <2>2
    <3>2. log[i].at < cutoff
      <4> SUFFICES ASSUME log[i].at >= cutoff PROVE FALSE
        BY <1>0, <3>1
      <4>1. x \in DOMAIN last_sent /\ last_sent[x] >= log[i].at /\ last_sent[x] \in Nat
        BY <3>1 DEF IInv, Remembered, TypeOK, cutoff, n
      <4> QED
        BY <1>0, <1>2, <3>1, <4>1 DEF IsRepeat
    <3> QED
      BY <1>0, <1>7, <2>2, <3>1, <3>2 DEF cutoff
  <2> QED
    BY <1>0, <2>1, <2>2
<1>18. WindowBounded'
  <2> SUFFICES ASSUME NEW i \in 1..(n + 1), i + MaxPerWindow \in 1..(n + 1)
               PROVE  log'[i + MaxPerWindow].at - log'[i].at > RepeatWindow
    BY <1>6 DEF WindowBounded
  <2>0. i \in 1..n
    BY <1>0
  <2>1. CASE i + MaxPerWindow \in 1..n
    <3>1. i \in DOMAIN log /\ i + MaxPerWindow \in DOMAIN log
      BY <2>0, <2>1 DEF n, IInv, TypeOK
    <3> QED
      BY <1>7, <2>0, <2>1, <3>1 DEF IInv, WindowBounded
  <2>2. CASE i + MaxPerWindow = n + 1
    <3>1. i \in 1..(n - Len(p))
      BY <1>0, <1>2, <1>4, <2>2
    <3>2. log[i].at < cutoff /\ log[i].at \in Nat
      BY <1>3, <1>4, <2>0, <3>1
    <3> QED
      BY <1>0, <1>7, <2>0, <2>2, <3>2 DEF cutoff
  <2> QED
    BY <1>0, <2>1, <2>2
<1> QED
  BY <1>11, <1>12, <1>13, <1>14, <1>15, <1>16, <1>17, <1>18 DEF IInv

\* A suppressed alarm only prunes.
LEMMA SuppressStep ==
    ASSUME IInv, NEW x \in Contents, Suppress(x)
    PROVE  IInv'
<1> DEFINE p == Pruned(recent, now - RepeatWindow)
<1>1. p \in Seq(Nat) /\ Suffix(p) /\ OlderGone(p)
  BY PrunedFacts
<1>2. recent' = p /\ now' = now /\ last_sent' = last_sent /\ log' = log
  BY DEF Suppress
<1> HIDE DEF p
<1>3. Suffix(recent)' /\ OlderGone(recent)'
  BY <1>1, <1>2 DEF Suffix, OlderGone
<1>4. TypeOK'
  BY <1>1, <1>2 DEF IInv, TypeOK
<1>5. Sorted' /\ Remembered' /\ AmongLast' /\ SameAlarmSpaced' /\ WindowBounded'
  BY <1>2 DEF IInv, Sorted, Remembered, AmongLast, SameAlarmSpaced, WindowBounded
<1> QED
  BY <1>3, <1>4, <1>5 DEF IInv

\* Time passes: sends leave the window, none enters it.
LEMMA TickStep ==
    ASSUME IInv, Tick
    PROVE  IInv'
<1>1. /\ now \in Nat /\ now' \in Nat /\ now <= now' /\ RepeatWindow \in Nat
      /\ recent' = recent /\ last_sent' = last_sent /\ log' = log
  BY ThrottleAssumption DEF Tick, IInv, TypeOK
<1>2. \A i \in 1..Len(log) : log[i].at \in Nat
  BY LogTypes DEF IInv
<1>3. Len(log) \in Nat /\ Len(recent) \in Nat
  BY DEF IInv, TypeOK
<1>4. TypeOK'
  BY <1>1 DEF IInv, TypeOK
<1>5. Suffix(recent)' /\ AmongLast' /\ SameAlarmSpaced' /\ WindowBounded'
  BY <1>1 DEF IInv, Suffix, AmongLast, SameAlarmSpaced, WindowBounded
<1>6. OlderGone(recent)'
  BY <1>1, <1>2, <1>3 DEF IInv, OlderGone
<1>7. Sorted'
  BY <1>1, <1>2 DEF IInv, Sorted
<1>8. Remembered'
  <2> SUFFICES ASSUME NEW i \in 1..Len(log), log[i].at >= now' - RepeatWindow
               PROVE  /\ log[i].content \in DOMAIN last_sent
                      /\ last_sent[log[i].content] >= log[i].at
    BY <1>1 DEF Remembered
  <2>1. log[i].at >= now - RepeatWindow
    BY <1>1, <1>2
  <2> QED
    BY <2>1 DEF IInv, Remembered
<1> QED
  BY <1>4, <1>5, <1>6, <1>7, <1>8 DEF IInv

\* Every allow() and every passing of time keeps the inductive invariant.
LEMMA IInvHolds == Spec => []IInv
<1>1. IInv /\ [Next]_vars => IInv'
  <2> SUFFICES ASSUME IInv, [Next]_vars PROVE IInv'
    OBVIOUS
  <2>1. CASE UNCHANGED vars
    BY <2>1 DEF vars, IInv, TypeOK, Suffix, OlderGone, Sorted, Remembered, AmongLast,
                SameAlarmSpaced, WindowBounded
  <2> QED
    BY <2>1, ForwardStep, SuppressStep, TickStep DEF Next
<1> QED
  BY <1>1, InitIInv, PTL DEF Spec

\* Type correctness of the throttle's state.
THEOREM TypeCorrect == Spec => []TypeOK
<1>1. IInv => TypeOK
  BY DEF IInv
<1> QED
  BY <1>1, IInvHolds, PTL

\* Two sends of the same content are more than a window apart.
THEOREM SameAlarmSpacedHolds == Spec => []SameAlarmSpaced
<1>1. IInv => SameAlarmSpaced
  BY DEF IInv
<1> QED
  BY <1>1, IInvHolds, PTL

\* Any MaxPerWindow + 1 sends in a row span more than a window.
THEOREM WindowBoundedHolds == Spec => []WindowBounded
<1>1. IInv => WindowBounded
  BY DEF IInv
<1> QED
  BY <1>1, IInvHolds, PTL

-----------------------------------------------------------------------------
\* The pruned memory decides as the full history would.
THEOREM DecidesAsHistoryHolds == Spec => []DecidesAsHistory
<1>1. IInv => DecidesAsHistory
  <2> SUFFICES ASSUME IInv, NEW c \in Contents
               PROVE  LET within == {i \in DOMAIN log : log[i].at >= now - RepeatWindow}
                      IN Allowed(c) <=> /\ \A i \in within : log[i].content # c
                                        /\ Cardinality(within) < MaxPerWindow
    BY DEF DecidesAsHistory
  <2> DEFINE cutoff == now - RepeatWindow
             p == Pruned(recent, cutoff)
             n == Len(log)
             within == {i \in DOMAIN log : log[i].at >= cutoff}
  <2>1. /\ p \in Seq(Nat) /\ Suffix(p) /\ OlderGone(p)
        /\ \A i \in 1..n : i > n - Len(p) => log[i].at >= cutoff
    BY PrunedFacts
  <2>2. /\ n \in Nat /\ DOMAIN log = 1..n /\ cutoff \in Int
        /\ \A i \in 1..n : log[i].at \in Nat
    <3>1. \A i \in 1..n : log[i].at \in Nat
      BY LogTypes DEF IInv
    <3> QED
      BY <3>1, ThrottleAssumption DEF IInv, TypeOK
  <2>3. Len(p) \in Nat /\ Len(p) <= n /\ \A i \in 1..(n - Len(p)) : log[i].at < cutoff
    BY <2>1 DEF Suffix, OlderGone
  <2>4. \A i \in DOMAIN last_sent : last_sent[i] \in Nat
    BY DEF IInv, TypeOK
  <2> HIDE DEF p, cutoff, n
  <2>5. within = (n - Len(p) + 1)..n
    BY <2>1, <2>2, <2>3
  <2>6. Cardinality(within) = Len(p)
    <3> DEFINE lo == n - Len(p) + 1
    <3>1. lo \in Int /\ n \in Int /\ lo <= n + 1 /\ n - lo + 1 = Len(p)
      BY <2>2, <2>3
    <3>2. within = lo..n
      BY <2>5
    <3> HIDE DEF lo, within
    <3>3. Cardinality(lo..n) = IF lo > n THEN 0 ELSE n - lo + 1
      BY <3>1, FS_Interval
    <3> QED
      BY <3>1, <3>2, <3>3
  <2>7. IsRepeat(last_sent, c, cutoff) <=> \E i \in within : log[i].content = c
    <3>1. ASSUME IsRepeat(last_sent, c, cutoff)
          PROVE  \E i \in within : log[i].content = c
      <4>1. c \in DOMAIN last_sent /\ last_sent[c] >= cutoff
        BY <3>1 DEF IsRepeat
      <4>2. PICK i \in 1..n : log[i].content = c /\ log[i].at = last_sent[c]
        BY <4>1 DEF IInv, AmongLast, n
      <4> QED
        BY <2>2, <4>1, <4>2
    <3>2. ASSUME NEW i \in within, log[i].content = c
          PROVE  IsRepeat(last_sent, c, cutoff)
      <4>1. i \in 1..n /\ log[i].at >= cutoff /\ log[i].at \in Nat
        BY <2>2
      <4>2. c \in DOMAIN last_sent /\ last_sent[c] >= log[i].at
        BY <3>2, <4>1 DEF IInv, Remembered, cutoff, n
      <4>3. last_sent[c] >= cutoff
        BY <2>2, <2>4, <4>1, <4>2
      <4> QED
        BY <4>2, <4>3 DEF IsRepeat
    <3> QED
      BY <3>1, <3>2
  <2>8. Allowed(c) <=> ~IsRepeat(last_sent, c, cutoff) /\ Len(p) < MaxPerWindow
    BY DEF Allowed, p, cutoff
  <2>9. Allowed(c) <=> /\ \A i \in within : log[i].content # c
                       /\ Cardinality(within) < MaxPerWindow
    BY <2>6, <2>7, <2>8
  <2> QED
    BY <2>9 DEF cutoff
<1> QED
  BY <1>1, IInvHolds, PTL

\* The dictionary never outgrows the number of sends per window.
THEOREM MemoryBoundedHolds == Spec => []MemoryBounded
<1>1. IInv => MemoryBounded
  <2> SUFFICES ASSUME IInv PROVE MemoryBounded
    OBVIOUS
  <2> DEFINE n == Len(log)
             lo == n - MaxPerWindow + 1
             S == DOMAIN last_sent
             Ok(c, i) == i \in lo..n /\ log[i].content = c
             f == [c \in S |-> CHOOSE i \in lo..n : log[i].content = c]
  <2>1. n \in Nat /\ MaxPerWindow \in Nat \ {0} /\ lo \in Int
    BY ThrottleAssumption DEF IInv, TypeOK
  <2>2. \A c \in S : \E i \in lo..n : log[i].content = c
    BY <2>1 DEF IInv, AmongLast
  <2>3. \A c \in S : f[c] \in lo..n /\ log[f[c]].content = c
    BY <2>2
  <2>4. f \in Injection(S, lo..n)
    BY <2>3 DEF Injection, IsInjective
  <2>5. IsFiniteSet(lo..n) /\ Cardinality(lo..n) = MaxPerWindow
    BY <2>1, FS_Interval
  <2> HIDE DEF f, lo, n
  <2>6. Cardinality(S) <= Cardinality(lo..n)
    BY <2>4, <2>5, FS_Injection
  <2> QED
    BY <2>5, <2>6 DEF MemoryBounded
<1> QED
  BY <1>1, IInvHolds, PTL

\* All of it together, for the modules that use a throttle.
WithinLimits == TypeOK /\ SameAlarmSpaced /\ WindowBounded /\ DecidesAsHistory /\ MemoryBounded

\* However calls and clock steps follow one another, all limits of allow() hold together
\* (alarms.py:191-211).
THEOREM LimitsHold == Spec => []WithinLimits
<1>1. TypeOK /\ SameAlarmSpaced /\ WindowBounded /\ DecidesAsHistory /\ MemoryBounded => WithinLimits
  BY DEF WithinLimits
<1> QED
  BY <1>1, TypeCorrect, SameAlarmSpacedHolds, WindowBoundedHolds, DecidesAsHistoryHolds, MemoryBoundedHolds, PTL

\* What a gate that has decided about content x leaves behind in its log.
Told(sends, x) ==
    LET within == {i \in DOMAIN sends : sends[i].at >= now - RepeatWindow}
    IN \/ \E i \in within : sends[i].content = x
       \/ Cardinality(within) >= MaxPerWindow

LEMMA GateTells ==
    \A x \in Contents : WithinLimits /\ (Forward(x) \/ Suppress(x)) => Told(log', x)
<1> SUFFICES ASSUME NEW x \in Contents, WithinLimits, Forward(x) \/ Suppress(x)
             PROVE  Told(log', x)
  OBVIOUS
<1>1. now \in Nat /\ log \in Seq([content : Contents, at : Nat]) /\ RepeatWindow \in Nat
  BY ThrottleAssumption DEF WithinLimits, TypeOK
<1>2. CASE Forward(x)
  <2>1. log' = Append(log, [content |-> x, at |-> now])
    BY <1>2 DEF Forward
  <2>2. /\ Len(log) + 1 \in DOMAIN log'
        /\ log'[Len(log) + 1].content = x /\ log'[Len(log) + 1].at = now
    BY <1>1, <2>1
  <2> QED
    BY <1>1, <2>2 DEF Told
<1>3. CASE Suppress(x)
  <2>1. log' = log /\ ~Allowed(x)
    BY <1>3 DEF Suppress
  <2> DEFINE within == {i \in DOMAIN log : log[i].at >= now - RepeatWindow}
  <2>2. (\E i \in within : log[i].content = x) \/ ~(Cardinality(within) < MaxPerWindow)
    BY <2>1 DEF WithinLimits, DecidesAsHistory
  <2>3. Cardinality(within) \in Nat /\ MaxPerWindow \in Nat
    <3>1. IsFiniteSet(1..Len(log))
      BY <1>1, FS_Interval
    <3>2. within \subseteq 1..Len(log)
      BY <1>1
    <3> QED
      BY <3>1, <3>2, FS_Subset, FS_CardinalityType, ThrottleAssumption
  <2>4. (\E i \in within : log[i].content = x) \/ Cardinality(within) >= MaxPerWindow
    BY <2>2, <2>3
  <2> QED
    BY <2>1, <2>4 DEF Told
<1> QED
  BY <1>2, <1>3
=============================================================================
