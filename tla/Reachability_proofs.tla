------------------------ MODULE Reachability_proofs ------------------------
(***************************************************************************)
(* The safety properties of Reachability, for every threshold.             *)
(*                                                                         *)
(* The argument is Unraced: as long as no reconnect overlapped a call of   *)
(* crossed_offline, what the health thread is doing concerns the present   *)
(* outage, the flag says whether that outage was reported, and a notice    *)
(* that shows the appliance offline is always the flag's, so that mark_up   *)
(* finds it.                                                               *)
(***************************************************************************)
EXTENDS Reachability, TLAPS

Down == conn \in {"trying", "ended"}

\* The outage on the books is not older than the real one.
AgeIsOutage ==
    /\ Down <=> down_for # Null
    /\ conn \in {"notifying", "up"} => down_since = Null
    /\ Down /\ down_since # Null => down_since <= down_for

FlagIsOwed == offline_notified => owed

\* A call that nothing overlaps has measured the present outage.
CallIsTimely == health # "idle" /\ ~overlap => Down /\ down_for = OfflineAfter

Unraced ==
    /\ health # "idle" => Down /\ overdue /\ down_for = OfflineAfter
    /\ health = "telling" => offline_notified
    /\ told \in {0, 1}
    /\ Down => (offline_notified <=> told = 1)
    /\ conn \in {"notifying", "up"} => ~offline_notified
    /\ overdue /\ health = "idle" => told = 1
    /\ overdue => Down
    /\ Down \/ conn = "reading" => (shown = "offline" => offline_notified)
    /\ conn = "notifying" => (shown = "offline" => was_notified)
    /\ conn = "up" => shown # "offline"

IInv == TypeOK /\ AgeIsOutage /\ FlagIsOwed /\ CallIsTimely /\ (~raced => Unraced)

-----------------------------------------------------------------------------
\* The strengthened invariant holds when the process starts.
LEMMA InitIInv == Init => IInv
<1> SUFFICES ASSUME Init PROVE IInv
  OBVIOUS
<1> USE DEF Init
<1>1. TypeOK
  <2>1. 0 \in Ages /\ told \in Nat BY ReachabilityAssumption DEF Ages
  <2>2. {offline_notified, was_notified, overdue, owed, raced, overlap} \subseteq BOOLEAN BY Zenon
  <2>3. /\ conn \in ConnStates /\ health \in {"idle", "measured", "telling"}
        /\ shown \in {"none", "offline", "online"}
    BY DEF ConnStates
  <2> QED BY <2>1, <2>2, <2>3, Zenon DEF TypeOK
<1>2. AgeIsOutage
  BY ReachabilityAssumption DEF AgeIsOutage, Down
<1>3. FlagIsOwed
  BY DEF FlagIsOwed
<1>4. Unraced /\ CallIsTimely
  BY DEF Unraced, CallIsTimely, Down
<1> QED BY <1>1, <1>2, <1>3, <1>4 DEF IInv

\* Growing older keeps an age in range, and two ages in order.
LEMMA OlderAges ==
    /\ \A a \in Ages \cup {Null} : Older(a) \in Ages \cup {Null} /\ (Older(a) = Null <=> a = Null)
    /\ \A a, b \in Ages : a <= b => Older(a) <= Older(b)
    /\ Older(OfflineAfter) = OfflineAfter
  BY ReachabilityAssumption DEF Older, Ages

\* Every step of the three actors preserves it.
LEMMA NextIInv == IInv /\ [Next]_vars => IInv'
<1> SUFFICES ASSUME IInv, [Next]_vars PROVE IInv'
  OBVIOUS
<1> USE ReachabilityAssumption
        DEF IInv, TypeOK, AgeIsOutage, FlagIsOwed, CallIsTimely, Unraced, Down, ConnStates, Ages,
            reach, history
<1>1. CASE MarkDown BY <1>1 DEF MarkDown
<1>2. CASE Seeded BY <1>2 DEF Seeded
<1>3. CASE MarkUp BY <1>3 DEF MarkUp
<1>4. CASE NotifyOnline BY <1>4 DEF NotifyOnline
<1>5. CASE SessionEnds BY <1>5 DEF SessionEnds
<1>6. CASE Measure
  <2> USE DEF Measure
  <2>1. TypeOK' /\ AgeIsOutage' /\ FlagIsOwed' BY <1>6
  <2>2. ASSUME ~raced' PROVE Down /\ ~raced /\ down_for = OfflineAfter /\ overdue'
    <3>1. ~raced /\ down_for # Null BY <1>6, <2>2
    <3>2. Down /\ overdue' BY <1>6, <3>1
    <3>3. down_for \in Ages /\ OfflineAfter <= down_for BY <1>6, <3>1, <3>2
    <3> QED BY <3>1, <3>2, <3>3
  <2>3. ~raced' => Unraced' BY <1>6, <2>2
  <2>4. CallIsTimely'
    <3>1. ~overlap' => down_for # Null BY <1>6
    <3>2. ~overlap' => Down /\ down_for \in Ages /\ OfflineAfter <= down_for BY <1>6, <3>1
    <3> QED BY <1>6, <3>2
  <2> QED BY <2>1, <2>3, <2>4
<1>7. CASE Decide
  <2>1. CASE offline_notified BY <1>7, <2>1 DEF Decide
  <2>2. CASE ~offline_notified
    <3>1. /\ health = "measured" /\ health' = "telling"
          /\ offline_notified' = TRUE /\ told' = told + 1 /\ owed' = TRUE
          /\ UNCHANGED <<conn, down_since, was_notified, down_for, overdue, shown, raced, overlap>>
      BY <1>7, <2>2 DEF Decide
    <3>2. TypeOK' /\ AgeIsOutage' /\ FlagIsOwed' /\ CallIsTimely' BY <3>1
    <3>3. ASSUME ~raced PROVE told' = 1 /\ Down /\ overdue /\ down_for = OfflineAfter
      BY <2>2, <3>1, <3>3
    <3>4. ~raced' => Unraced' BY <3>1, <3>3
    <3> QED BY <3>2, <3>4
  <2> QED BY <2>1, <2>2
<1>8. CASE NotifyOffline BY <1>8 DEF NotifyOffline
<1>9. CASE Tick
  <2> HIDE DEF Ages
  <2>1. /\ down_since' = Older(down_since) /\ down_for' = Older(down_for)
        /\ UNCHANGED <<conn, offline_notified, was_notified, health, history>>
    BY <1>9 DEF Tick
  <2>2. /\ {down_since', down_for'} \subseteq Ages \cup {Null}
        /\ down_since' = Null <=> down_since = Null
        /\ down_for' = Null <=> down_for = Null
    BY <2>1, OlderAges
  <2>3. Down /\ down_since # Null => down_since' <= down_for'
    BY <2>1, OlderAges
  <2>4. down_for = OfflineAfter => down_for' = OfflineAfter
    BY <2>1, OlderAges
  <2> QED BY <2>1, <2>2, <2>3, <2>4
<1>10. CASE UNCHANGED vars BY <1>10 DEF vars
<1> QED
  BY <1>1, <1>2, <1>3, <1>4, <1>5, <1>6, <1>7, <1>8, <1>9, <1>10 DEF Next, Session, Health

\* So it holds throughout.
THEOREM IInvHolds == Spec => []IInv
  BY InitIInv, NextIInv, PTL DEF Spec

\* The variables keep their types.
THEOREM TypeCorrect == Spec => []TypeOK
  BY IInvHolds, PTL DEF IInv

\* For every threshold, an outage that was measured as too long is reported, and
\* only once, unless a reconnect overlapped a call of crossed_offline.
THEOREM OncePerOutage == Spec => []OnceUnlessRaced
<1>1. IInv => OnceUnlessRaced
  BY DEF IInv, Unraced, OnceUnlessRaced, EveryOutageReported
<1> QED BY <1>1, IInvHolds, PTL

\* A connected appliance is not left shown as offline, again unless raced.
THEOREM UpIsShownUpHolds == Spec => []UpIsShownUp
<1>1. IInv => UpIsShownUp
  BY DEF IInv, Unraced, UpIsShownUp
<1> QED BY <1>1, IInvHolds, PTL

\* For every threshold, an offline notice that is decided before the appliance has been
\* unreachable that long is decided by a call during which it came back.
THEOREM NoEarlyOfflineHolds == Spec => NoEarlyOffline
<1>1. IInv /\ [Next]_vars => [told' > told => overlap \/ down_for = OfflineAfter]_vars
  <2> SUFFICES ASSUME IInv, Next, told' > told, ~overlap PROVE down_for = OfflineAfter
    OBVIOUS
  <2>1. told \in Nat /\ ~(0 > told) /\ ~(told > told)
    BY DEF IInv, TypeOK
  <2>2. CASE Decide BY <2>2 DEF Decide, IInv, CallIsTimely
  <2>3. CASE Session \/ Measure \/ NotifyOffline \/ Tick
    BY <2>1, <2>3 DEF Session, MarkDown, Seeded, MarkUp, NotifyOnline, SessionEnds,
                      Measure, NotifyOffline, Tick, history
  <2> QED BY <2>2, <2>3 DEF Next, Health
<1> QED BY <1>1, IInvHolds, PTL DEF Spec, NoEarlyOffline

\* In every interleaving, an online notice answers an offline one.
THEOREM OnlineIsOwedHolds == Spec => OnlineIsOwed
<1>1. IInv /\ [Next]_vars => [conn = "reading" /\ conn' = "notifying" /\ was_notified' => owed]_vars
  <2> SUFFICES ASSUME IInv, Next, conn = "reading", conn' = "notifying", was_notified' PROVE owed
    OBVIOUS
  <2>1. MarkUp
    BY DEF Next, Session, MarkDown, Seeded, NotifyOnline, SessionEnds,
           Health, Measure, Decide, NotifyOffline, Tick
  <2> QED BY <2>1 DEF MarkUp, IInv, FlagIsOwed
<1> QED BY <1>1, IInvHolds, PTL DEF Spec, OnlineIsOwed
=============================================================================
