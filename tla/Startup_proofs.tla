---------------------------- MODULE Startup_proofs ----------------------------
(***************************************************************************)
(* Proofs about Supervisor under Startup, for any environments, any number *)
(* of signals, and handlers that interrupt each other to any depth: every  *)
(* session is closed by somebody, and before the next one is opened; and   *)
(* about the settings the process starts with.                             *)
(***************************************************************************)
EXTENDS Startup, SequenceTheorems, WellFoundedInduction, TLAPS

IsSeq(s) == s \in Seq({s[i] : i \in 1..Len(s)})

\* A frame of request_stop(): left may be anything.
FrameOk(f) ==
    /\ f = [left |-> f.left, at |-> f.at, taken |-> f.taken]
    /\ f.at \in {"flag", "take", "close"}

\* The stop event of the bridge in hand is set before its session is taken.
Flagged(f) == f.at # "flag" /\ Head(f.left) \in Apps => stop[Head(f.left)]

StackOk == IsSeq(stack) /\ \A i \in 1..Len(stack) : FrameOk(stack[i]) /\ Flagged(stack[i])

PCs == {"top", "opening", "opened", "seeding", "running", "closing", "waiting", "exited"}

LoopsOk ==
    /\ pc \in [Apps -> PCs] /\ stop \in [Apps -> BOOLEAN] /\ held \in [Apps -> BOOLEAN]
    /\ sess \in [Apps -> {"none", "open", "dead", "closed"}]

\* A frame that has taken the session of b and is going to close it.
Owes(f, b) == f.at = "close" /\ f.taken /\ Head(f.left) = b

Owed(b) == \E i \in 1..Len(stack) : Owes(stack[i], b)

\* A session that is not closed is in the hands of exactly those who will close it.
Owned(b) ==
    /\ held[b] => pc[b] \in {"seeding", "running", "closing"}
    /\ sess[b] \in {"open", "dead"} => pc[b] = "opened" \/ held[b] \/ Owed(b)
    /\ Owed(b) => stop[b] /\ pc[b] \in {"seeding", "running", "closing", "waiting", "exited"}

\* The inductive invariant.
SInv == LoopsOk /\ StackOk /\ \A b \in Apps : Owned(b)

-----------------------------------------------------------------------------
\* The stack as a sequence.
LEMMA Appended ==
    ASSUME NEW s, IsSeq(s), NEW f
    PROVE  /\ IsSeq(Append(s, f)) /\ Len(s) \in Nat /\ Len(Append(s, f)) = Len(s) + 1
           /\ \A i \in 1..Len(s) : Append(s, f)[i] = s[i]
           /\ Append(s, f)[Len(s) + 1] = f
<1> DEFINE S == {s[i] : i \in 1..Len(s)} \cup {f}
<1>1. s \in Seq(S) /\ f \in S /\ Len(s) \in Nat
  <2>1. s \in Seq({s[i] : i \in 1..Len(s)})
    BY DEF IsSeq
  <2>2. \A i \in 1..Len(s) : s[i] \in S
    OBVIOUS
  <2>3. Len(s) \in Nat /\ s = [i \in 1..Len(s) |-> s[i]]
    BY <2>1
  <2> QED
    BY <2>2, <2>3
<1> HIDE DEF S
<1>2. /\ Append(s, f) \in Seq(S) /\ Len(Append(s, f)) = Len(s) + 1
      /\ \A i \in 1..Len(s) : Append(s, f)[i] = s[i]
      /\ Append(s, f)[Len(s) + 1] = f
  BY <1>1
<1> DEFINE t == Append(s, f)
<1>3. IsSeq(t)
  <2> HIDE DEF t
  <2>1. t \in Seq(S)
    BY <1>2 DEF t
  <2>2. Len(t) \in Nat /\ t = [i \in 1..Len(t) |-> t[i]]
    BY <2>1
  <2> QED
    BY <2>2 DEF IsSeq
<1> QED
  BY <1>1, <1>2, <1>3

LEMMA Popped ==
    ASSUME NEW s, IsSeq(s), s # <<>>
    PROVE  LET p == SubSeq(s, 1, Len(s) - 1)
           IN /\ IsSeq(p) /\ Len(s) \in Nat \ {0} /\ Len(p) = Len(s) - 1
              /\ \A i \in 1..(Len(s) - 1) : p[i] = s[i]
<1> DEFINE S == {s[i] : i \in 1..Len(s)}
           p == SubSeq(s, 1, Len(s) - 1)
<1>1. s \in Seq(S)
  BY DEF IsSeq
<1> HIDE DEF S
<1>2. Len(s) \in Nat \ {0}
  BY <1>1
<1>3. p \in Seq(S) /\ Len(p) = Len(s) - 1 /\ \A i \in 1..(Len(s) - 1) : p[i] = s[i]
  <2> DEFINE n == Len(s) - 1
  <2>1. n \in Nat /\ \A i \in 1..n : s[i] \in S
    BY <1>1, <1>2
  <2> HIDE DEF n
  <2>2. /\ SubSeq(s, 1, n) \in Seq(S) /\ Len(SubSeq(s, 1, n)) = IF 1 <= n THEN n - 1 + 1 ELSE 0
        /\ \A i \in 1..n - 1 + 1 : SubSeq(s, 1, n)[i] = s[1 + i - 1]
    BY <2>1, SubSeqProperties
  <2>3. Len(SubSeq(s, 1, n)) = n /\ \A i \in 1..n : SubSeq(s, 1, n)[i] = s[i]
    BY <2>1, <2>2
  <2> QED
    BY <2>2, <2>3 DEF n
<1>4. IsSeq(p)
  <2> HIDE DEF p
  <2>1. Len(p) \in Nat /\ p = [i \in 1..Len(p) |-> p[i]]
    BY <1>3
  <2> QED
    BY <2>1 DEF IsSeq
<1> QED
  BY <1>2, <1>3, <1>4

-----------------------------------------------------------------------------
\* What the steps do to the stack.
LEMMA StackSame ==
    ASSUME StackOk, stack' = stack, \A b \in Apps : stop[b] => stop'[b]
    PROVE  StackOk' /\ \A b \in Apps : Owed(b)' <=> Owed(b)
  BY DEF StackOk, Flagged, Owed

\* A handler, or the loop of the finally, starts at its first bridge.
LEMMA StackPushed ==
    ASSUME StackOk, stop' = stop, stack' = Append(stack, StopAll)
    PROVE  StackOk' /\ \A b \in Apps : Owed(b)' <=> Owed(b)
<1>0. PICK f : f = StopAll
  OBVIOUS
<1>1. /\ IsSeq(stack') /\ Len(stack) \in Nat /\ Len(stack') = Len(stack) + 1
      /\ \A i \in 1..Len(stack) : stack'[i] = stack[i]
      /\ stack'[Len(stack) + 1] = f
  BY <1>0, Appended DEF StackOk
<1>2. FrameOk(f) /\ Flagged(f) /\ \A b : ~Owes(f, b)
  BY <1>0 DEF FrameOk, Flagged, Owes, StopAll
<1>3. \A g : Flagged(g) => Flagged(g)'
  BY DEF Flagged
<1>4. \A i \in 1..(Len(stack) + 1) : i \in 1..Len(stack) \/ i = Len(stack) + 1
  BY <1>1
<1>5. 1..Len(stack) \subseteq 1..(Len(stack) + 1)
  BY <1>1
<1>6. StackOk'
  BY <1>1, <1>2, <1>3, <1>4 DEF StackOk
<1> QED
  BY <1>1, <1>2, <1>4, <1>5, <1>6 DEF Owed

\* The innermost frame is replaced.
LEMMA StackReplaced ==
    ASSUME StackOk, stack # <<>>, NEW f, FrameOk(f), Flagged(f)',
           \A b \in Apps : stop[b] => stop'[b],
           stack' = Append(Below, f)
    PROVE  /\ StackOk'
           /\ \A b \in Apps : Owed(b)' => Owed(b) \/ Owes(f, b)
           /\ \A b \in Apps : Owed(b) => Owed(b)' \/ Owes(Frame, b)
           /\ \A b \in Apps : Owes(f, b) => Owed(b)'
<1>1. /\ IsSeq(Below) /\ Len(stack) \in Nat \ {0} /\ Len(Below) = Len(stack) - 1
      /\ \A i \in 1..(Len(stack) - 1) : Below[i] = stack[i]
  BY Popped DEF StackOk, Below
<1>2. /\ IsSeq(stack') /\ Len(stack') = Len(Below) + 1
      /\ \A i \in 1..Len(Below) : stack'[i] = Below[i]
      /\ stack'[Len(Below) + 1] = f
  BY <1>1, Appended
<1>3. /\ Len(stack') = Len(stack) /\ stack'[Len(stack)] = f
      /\ \A i \in 1..(Len(stack) - 1) : stack'[i] = stack[i]
  BY <1>1, <1>2
<1>4. \A i \in 1..Len(stack) : i \in 1..(Len(stack) - 1) \/ i = Len(stack)
  BY <1>1
<1>5. 1..(Len(stack) - 1) \subseteq 1..Len(stack) /\ Len(stack) \in 1..Len(stack)
  BY <1>1
<1>6. \A g : Flagged(g) => Flagged(g)'
  BY DEF Flagged
<1>7. StackOk'
  BY <1>2, <1>3, <1>4, <1>5, <1>6 DEF StackOk
<1> QED
  BY <1>3, <1>4, <1>5, <1>7 DEF Owed, Frame

\* The innermost loop is through.
LEMMA StackPopped ==
    ASSUME StackOk, stack # <<>>, stop' = stop, stack' = Below
    PROVE  /\ StackOk'
           /\ \A b \in Apps : Owed(b)' => Owed(b)
           /\ \A b \in Apps : Owed(b) => Owed(b)' \/ Owes(Frame, b)
<1>1. /\ IsSeq(stack') /\ Len(stack) \in Nat \ {0} /\ Len(stack') = Len(stack) - 1
      /\ \A i \in 1..(Len(stack) - 1) : stack'[i] = stack[i]
  BY Popped DEF StackOk, Below
<1>2. \A i \in 1..Len(stack) : i \in 1..(Len(stack) - 1) \/ i = Len(stack)
  BY <1>1
<1>3. 1..(Len(stack) - 1) \subseteq 1..Len(stack)
  BY <1>1
<1>4. \A g : Flagged(g) => Flagged(g)'
  BY DEF Flagged
<1> QED
  BY <1>1, <1>2, <1>3, <1>4 DEF StackOk, Owed, Frame

\* The innermost frame.
LEMMA FrameIsOk ==
    ASSUME StackOk, stack # <<>>
    PROVE  FrameOk(Frame) /\ Flagged(Frame) /\ \A b : Owes(Frame, b) => Owed(b)
<1>1. Len(stack) \in 1..Len(stack)
  BY Popped DEF StackOk
<1> QED
  BY <1>1 DEF StackOk, Frame, Owed

-----------------------------------------------------------------------------
\* The steps of a bridge's thread.
BridgeStep(b) == Step(b) \/ SessionEnds(b) \/ Die(b)

LEMMA BridgeStepKeeps ==
    ASSUME SInv, NEW b, BridgeStep(b)
    PROVE  SInv'
<1>1. stack' = stack /\ stop' = stop
  BY DEF BridgeStep, Step, Top, ConnectFails, Connect, Store, SeedFails, Seeded, SessionEnds,
         Joined, Close, Wait, Die, process
<1>2. StackOk' /\ \A c \in Apps : Owed(c)' <=> Owed(c)
  BY <1>1, StackSame DEF SInv
<1>3. LoopsOk'
  <2>1. LoopsOk
    BY DEF SInv
  <2>2. CASE \/ Top(b) \/ ConnectFails(b) \/ SeedFails(b)
             \/ Seeded(b) \/ Joined(b) \/ Wait(b) \/ Die(b)
    BY <2>1, <2>2 DEF LoopsOk, PCs, Goto, Top, ConnectFails, SeedFails, Seeded, Joined, Wait, Die
  <2>3. CASE Connect(b) \/ Close(b)
    BY <2>1, <2>3 DEF LoopsOk, PCs, Goto, Connect, Close
  <2>4. CASE Store(b)
    BY <2>1, <2>4 DEF LoopsOk, PCs, Goto, Store
  <2>5. CASE SessionEnds(b)
    BY <2>1, <2>5 DEF LoopsOk, PCs, SessionEnds
  <2> QED
    BY <2>2, <2>3, <2>4, <2>5 DEF BridgeStep, Step
<1>4. ASSUME NEW c \in Apps
      PROVE  Owned(c)'
  <2>1. LoopsOk /\ Owned(c) /\ (Owed(c)' <=> Owed(c))
    BY <1>2 DEF SInv
  <2>2. CASE Top(b)
    BY <2>1, <2>2 DEF Owned, LoopsOk, Goto, Top
  <2>3. CASE ConnectFails(b)
    BY <2>1, <2>3 DEF Owned, LoopsOk, Goto, ConnectFails
  <2>4. CASE Connect(b)
    BY <2>1, <2>4 DEF Owned, LoopsOk, Goto, Connect
  <2>5. CASE Store(b)
    BY <2>1, <2>5 DEF Owned, LoopsOk, Goto, Store
  <2>6. CASE SeedFails(b)
    BY <2>1, <2>6 DEF Owned, LoopsOk, Goto, SeedFails
  <2>7. CASE Seeded(b) \/ Joined(b)
    BY <2>1, <2>7 DEF Owned, LoopsOk, Goto, Seeded, Joined
  <2>8. CASE SessionEnds(b)
    BY <2>1, <2>8 DEF Owned, LoopsOk, SessionEnds
  <2>9. CASE Close(b)
    BY <2>1, <2>9 DEF Owned, LoopsOk, Goto, Close
  <2>10. CASE Wait(b) \/ Die(b)
    BY <2>1, <2>10 DEF Owned, LoopsOk, Goto, Wait, Die
  <2> QED
    BY <2>2, <2>3, <2>4, <2>5, <2>6, <2>7, <2>8, <2>9, <2>10 DEF BridgeStep, Step
<1> QED
  BY <1>2, <1>3, <1>4 DEF SInv

\* The steps of request_stop().
LEMMA SetStopKeeps ==
    ASSUME SInv, SetStop
    PROVE  SInv'
<1>0. PICK f : f = [Frame EXCEPT !.at = "take"]
  OBVIOUS
<1>1. FrameOk(Frame) /\ Frame.at = "flag" /\ stack # <<>>
  BY FrameIsOk DEF SInv, SetStop
<1>2. /\ FrameOk(f) /\ f.left = Frame.left /\ \A b : ~Owes(f, b)
      /\ \A b : ~Owes(Frame, b)
  BY <1>0, <1>1 DEF FrameOk, Owes
<1>3. /\ stop' \in [Apps -> BOOLEAN] /\ \A b \in Apps : stop[b] => stop'[b]
      /\ Head(Frame.left) \in Apps => stop'[Head(Frame.left)]
  BY DEF SInv, LoopsOk, SetStop
<1>4. Flagged(f)'
  BY <1>2, <1>3 DEF Flagged
<1>5. stack' = Append(Below, f)
  BY <1>0 DEF SetStop
<1>6. StackOk' /\ \A b \in Apps : Owed(b)' <=> Owed(b)
  BY <1>1, <1>2, <1>3, <1>4, <1>5, StackReplaced DEF SInv
<1> QED
  BY <1>3, <1>6 DEF SInv, LoopsOk, Owned, SetStop

LEMMA TakeSessionKeeps ==
    ASSUME SInv, TakeSession
    PROVE  SInv'
<1>0. PICK h, f : h = Head(Frame.left) /\ f = [Frame EXCEPT !.at = "close", !.taken = held[h]]
  OBVIOUS
<1>1. FrameOk(Frame) /\ Flagged(Frame) /\ Frame.at = "take" /\ stack # <<>>
  BY FrameIsOk DEF SInv, TakeSession
<1>2. /\ FrameOk(f) /\ f.left = Frame.left /\ f.at = "close" /\ f.taken = held[h]
      /\ \A b : ~Owes(Frame, b)
  BY <1>0, <1>1 DEF FrameOk, Owes
<1>3. \A b : Owes(f, b) <=> b = h /\ held[b]
  BY <1>0, <1>2, Zenon DEF Owes
<1>4. /\ stack' = Append(Below, f) /\ held' = [held EXCEPT ![h] = FALSE]
      /\ pc' = pc /\ stop' = stop /\ sess' = sess
  BY <1>0 DEF TakeSession
<1>5. h \in Apps => stop[h]
  BY <1>0, <1>1 DEF Flagged
<1>6. Flagged(f)'
  BY <1>0, <1>2, <1>4, <1>5 DEF Flagged
<1>7. /\ StackOk'
      /\ \A b \in Apps : Owed(b)' => Owed(b) \/ (b = h /\ held[b])
      /\ \A b \in Apps : Owed(b) => Owed(b)'
      /\ \A b \in Apps : b = h /\ held[b] => Owed(b)'
  BY <1>1, <1>2, <1>3, <1>4, <1>6, StackReplaced DEF SInv
<1> QED
  BY <1>4, <1>5, <1>7 DEF SInv, LoopsOk, Owned

LEMMA CloseTakenKeeps ==
    ASSUME SInv, CloseTaken
    PROVE  SInv'
<1>0. PICK h : h = Head(Frame.left)
  OBVIOUS
<1>1. FrameOk(Frame) /\ Frame.at = "close" /\ stack # <<>>
  BY FrameIsOk DEF SInv, CloseTaken
<1>2. /\ \A b : Owes(Frame, b) <=> Frame.taken /\ b = h
      /\ h \in Apps /\ Frame.taken => Owed(h)
  BY <1>0, <1>1, FrameIsOk, Zenon DEF SInv, Owes
<1>3. /\ sess' = IF Frame.taken THEN [sess EXCEPT ![h] = "closed"] ELSE sess
      /\ stop' = stop /\ pc' = pc /\ held' = held
  BY <1>0 DEF CloseTaken
<1>4. /\ StackOk'
      /\ \A b \in Apps : Owed(b)' => Owed(b)
      /\ \A b \in Apps : Owed(b) => Owed(b)' \/ (Frame.taken /\ b = h)
  <2>1. CASE stack' = Below
    BY <1>1, <1>2, <1>3, <2>1, StackPopped DEF SInv
  <2>2. CASE stack' = Append(Below, [StopAll EXCEPT !.left = Tail(Frame.left)])
    <3>1. PICK f : f = [StopAll EXCEPT !.left = Tail(Frame.left)]
      OBVIOUS
    <3>2. FrameOk(f) /\ f.at = "flag"
      BY <3>1 DEF FrameOk, StopAll
    <3>3. Flagged(f)' /\ \A b : ~Owes(f, b)
      BY <3>2 DEF Flagged, Owes
    <3> QED
      BY <1>1, <1>2, <1>3, <2>2, <3>1, <3>2, <3>3, StackReplaced DEF SInv
  <2> QED
    BY <2>1, <2>2 DEF CloseTaken
<1>5. LoopsOk'
  BY <1>3 DEF SInv, LoopsOk
<1>6. ASSUME NEW b \in Apps
      PROVE  Owned(b)'
  <2>1. Owned(b) /\ LoopsOk
    BY DEF SInv
  <2>2. CASE Frame.taken
    BY <1>3, <1>4, <2>1, <2>2 DEF Owned, LoopsOk
  <2>3. CASE ~Frame.taken
    BY <1>3, <1>4, <2>1, <2>3 DEF Owned, LoopsOk
  <2> QED
    BY <2>2, <2>3
<1> QED
  BY <1>4, <1>5, <1>6 DEF SInv

-----------------------------------------------------------------------------
\* The handler, and the finally, start a loop.
LEMMA PushKeeps ==
    ASSUME SInv, Signal \/ Leave
    PROVE  SInv'
<1>1. stack' = Append(stack, StopAll) /\ UNCHANGED loops
  <2>1. CASE Signal
    BY <2>1 DEF Signal
  <2>2. CASE Leave
    <3>1. stack = <<>> /\ stack' = <<StopAll>> /\ UNCHANGED loops
      BY <2>2 DEF Leave
    <3>2. Append(<<>>, StopAll) = <<StopAll>>
      OBVIOUS
    <3> QED
      BY <3>1, <3>2
  <2> QED
    BY <2>1, <2>2
<1>2. StackOk' /\ \A b \in Apps : Owed(b)' <=> Owed(b)
  BY <1>1, StackPushed DEF SInv, loops
<1> QED
  BY <1>1, <1>2 DEF SInv, LoopsOk, Owned, loops

\* Everything else leaves the sessions and the loops of request_stop() alone.
LEMMA OthersKeep ==
    ASSUME SInv, UNCHANGED <<loops, stack>>
    PROVE  SInv'
<1>1. StackOk' /\ \A b \in Apps : Owed(b)' <=> Owed(b)
  BY StackSame DEF SInv, loops
<1> QED
  BY <1>1 DEF SInv, LoopsOk, Owned, loops

LEMMA NextKeeps ==
    ASSUME SInv, Next
    PROVE  SInv'
<1>1. CASE \E b \in Bridged : BridgeStep(b)
  BY <1>1, BridgeStepKeeps
<1>2. CASE SetStop
  BY <1>2, SetStopKeeps
<1>3. CASE TakeSession
  BY <1>3, TakeSessionKeeps
<1>4. CASE CloseTaken
  BY <1>4, CloseTakenKeeps
<1>5. CASE Signal \/ Leave
  BY <1>5, PushKeeps
<1>6. CASE Exit \/ Beat \/ HeartbeatAges
  <2>1. UNCHANGED <<loops, stack>>
    BY <1>6 DEF Exit, Beat, HeartbeatAges, process
  <2> QED
    BY <2>1, OthersKeep
<1> QED
  BY <1>1, <1>2, <1>3, <1>4, <1>5, <1>6 DEF Next, Main, BridgeStep

LEMMA SNextKeeps ==
    ASSUME SInv, [SNext]_svars
    PROVE  SInv'
<1>1. CASE Next
  BY <1>1, NextKeeps
<1>2. CASE ReadEnvFile \/ Healthcheck \/ Rejected \/ TestNotify \/ Dump \/ Run \/ UNCHANGED svars
  <2>1. CASE ReadEnvFile
    BY <2>1, OthersKeep DEF ReadEnvFile, Return, vars, process
  <2>2. CASE Healthcheck \/ Rejected \/ TestNotify
    BY <2>2, OthersKeep DEF Healthcheck, Rejected, TestNotify, Return
  <2>3. CASE Dump
    BY <2>3, OthersKeep DEF Dump, Return
  <2>4. CASE Run
    BY <2>4, OthersKeep DEF Run, Launch
  <2>5. CASE UNCHANGED svars
    BY <2>5, OthersKeep DEF svars, vars, process
  <2> QED
    BY <1>2, <2>1, <2>2, <2>3, <2>4, <2>5
<1> QED
  BY <1>1, <1>2 DEF SNext

LEMMA SInitInv == SInit => SInv
<1> SUFFICES ASSUME SInit
             PROVE  SInv
  OBVIOUS
<1>1. stack = <<>> /\ IsSeq(stack) /\ Len(stack) = 0
  BY DEF SInit, Init, IsSeq
<1>2. 1..Len(stack) = {}
  BY <1>1
<1>3. StackOk /\ \A b : ~Owed(b)
  BY <1>1, <1>2 DEF StackOk, Owed
<1> QED
  BY <1>3 DEF SInv, SInit, Init, LoopsOk, PCs, Owned

LEMMA SInvHolds == SSpec => []SInv
<1>1. SInit => SInv
  BY SInitInv
<1>2. SInv /\ [SNext]_svars => SInv'
  BY SNextKeeps
<1> QED
  BY <1>1, <1>2, PTL DEF SSpec

-----------------------------------------------------------------------------
\* For any environment and any number of signals: when the thread of a bridge has
\* ended and no request_stop() is under way, the session it opened is closed
\* (bridge.py:130-133, 215-219).
THEOREM NoSessionLeaksHolds == SSpec => []NoSessionLeaks
<1>1. SInv => NoSessionLeaks
  <2> SUFFICES ASSUME SInv, stack = <<>>, NEW b \in Apps, ~Alive(b)
               PROVE  sess[b] \in {"none", "closed"}
    BY DEF NoSessionLeaks
  <2>1. 1..Len(stack) = {}
    OBVIOUS
  <2>2. ~Owed(b)
    BY <2>1 DEF Owed
  <2> QED
    BY <2>2 DEF SInv, LoopsOk, Owned, Alive
<1> QED
  BY <1>1, SInvHolds, PTL

\* However the stops fall, the next handshake of a bridge succeeds only when its
\* previous session has been closed (bridge.py:160-165, 213-219).
THEOREM OneSessionHolds == SSpec => OneSession
<1>1. SInv /\ [SNext]_svars =>
        [\A b \in Apps : pc[b] = "opening" /\ pc'[b] = "opened"
                            => sess[b] \in {"none", "closed"}]_vars
  <2> SUFFICES ASSUME SInv, NEW b \in Apps, pc[b] = "opening"
               PROVE  sess[b] \in {"none", "closed"}
    OBVIOUS
  <2>1. Owned(b) /\ sess[b] \in {"none", "open", "dead", "closed"}
    BY DEF SInv, LoopsOk
  <2> QED
    BY <2>1 DEF Owned
<1> QED
  BY <1>1, SInvHolds, PTL DEF SSpec, OneSession

-----------------------------------------------------------------------------
\* All the values of an environment can be read.
RawsOk(e) == \A name \in DOMAIN e : IsRaw(e[name])

Least(i, S) == i \in S /\ \A j \in S : i <= j

\* A nonempty set of numbers has a least one.
LEMMA LeastExists ==
    ASSUME NEW S, S \subseteq Nat, S # {}
    PROVE  \E i : Least(i, S)
<1>1. \E i \in S : \A j \in S : <<j, i>> \notin OpToRel(<, Nat)
  BY NatLessThanWellFounded, WFMin
<1>2. PICK i \in S : \A j \in S : <<j, i>> \notin {p \in Nat \X Nat : p[1] < p[2]}
  BY <1>1 DEF OpToRel
<1>3. \A j \in S : ~(j < i)
  BY <1>2
<1> QED
  BY <1>2, <1>3 DEF Least

-----------------------------------------------------------------------------
\* load_env_file() adds values that can be read to values that can be read.
LEMMA LoadedIsRaw ==
    ASSUME NEW e, RawsOk(e), NEW file, DOMAIN file \subseteq Nat,
           \A i \in DOMAIN file : IsRaw(file[i].value)
    PROVE  RawsOk(LoadEnvFile(e, file))
<1> DEFINE With(name)  == {i \in DOMAIN file : file[i].name = name}
           first(name) == CHOOSE i \in With(name) : \A j \in With(name) : i <= j
           names       == DOMAIN e \cup {file[i].name : i \in DOMAIN file}
           out         == [name \in names |->
                              IF name \in DOMAIN e THEN e[name]
                              ELSE Stripped(file[first(name)].value)]
<1>1. LoadEnvFile(e, file) = out
  BY DEF LoadEnvFile
<1>2. ASSUME NEW raw, IsRaw(raw)
      PROVE  IsRaw(Stripped(raw))
  <2>1. /\ Stripped(raw) \in [word : {raw.word}, padded : {FALSE},
                              number : {raw.number}, parts : {raw.parts}]
        /\ Stripped(raw) # Null
    BY <1>2 DEF IsRaw, Stripped
  <2>2. Stripped(Stripped(raw)) = Stripped(raw)
    BY <2>1 DEF Stripped
  <2> QED
    BY <2>1, <2>2 DEF IsRaw
<1>3. ASSUME NEW name \in names, name \notin DOMAIN e
      PROVE  first(name) \in DOMAIN file
  <2>1. With(name) \subseteq Nat /\ With(name) # {}
    BY <1>3
  <2>2. \E i \in With(name) : \A j \in With(name) : i <= j
    <3> HIDE DEF With
    <3> QED
      BY <2>1, LeastExists DEF Least
  <2>3. first(name) \in With(name)
    <3> HIDE DEF With
    <3> QED
      BY <2>2
  <2> QED
    BY <2>3
<1> HIDE DEF first
<1>4. \A name \in names : IsRaw(out[name])
  BY <1>2, <1>3 DEF RawsOk
<1> QED
  BY <1>1, <1>4 DEF RawsOk

\* What the running process has, once it watches.
ProbeInv ==
    /\ main = "starting" => RawsOk(env) /\ lines \in EnvFiles \cup {<<>>}
    /\ HealthcheckSeesTheHeartbeat

\* The same setting, read in the two ways.
LEMMA SamePath ==
    ASSUME RawsOk(env), FromEnv(env) # Bad, NEW path,
           path = IF FromEnv(env).heartbeat_path = Null THEN DEFAULT_HEARTBEAT_PATH
                  ELSE Path(FromEnv(env).heartbeat_path)
    PROVE  HealthcheckPath = path \/ HealthcheckPath.padded
<1> DEFINE name == <<"", "HEARTBEAT_PATH">>
           raw  == env[name]
<1>1. FromEnv(env).heartbeat_path = Env(env, "", "HEARTBEAT_PATH")
  <2>1. FromEnv(env) = Settings(env)
    BY DEF FromEnv
  <2> QED
    <3>1. Settings(env).heartbeat_path = Env(env, "", "HEARTBEAT_PATH")
      BY DEF Settings
    <3> QED
      BY <2>1, <3>1
<1>2. CASE name \notin DOMAIN env
  BY <1>1, <1>2 DEF Env, HealthcheckPath
<1>3. CASE name \in DOMAIN env
  <2>1. IsRaw(raw)
    BY <1>3 DEF RawsOk
  <2>2. DOMAIN raw = {"word", "padded", "number", "parts"} /\ raw.padded \in BOOLEAN
    BY <2>1 DEF IsRaw
  <2>5. /\ Path(Stripped(raw)) = [word |-> raw.word, padded |-> FALSE]
        /\ Stripped(raw) # Null
        /\ Path(raw) = [word |-> raw.word, padded |-> raw.padded]
    BY <2>1, <2>2 DEF IsRaw, Stripped, Path
  <2>3. CASE raw.word = ""
    <3>1. path = DEFAULT_HEARTBEAT_PATH
      BY <1>1, <1>3, <2>3 DEF Env
    <3>2. CASE raw.padded
      <4>1. HealthcheckPath = DEFAULT_HEARTBEAT_PATH \/ HealthcheckPath = Path(raw)
        BY <1>3, Zenon DEF HealthcheckPath
      <4>2. Path(raw).padded
        BY <3>2 DEF Path
      <4> QED
        BY <3>1, <4>1, <4>2
    <3>3. CASE ~raw.padded
      <4>1. raw.padded = FALSE
        BY <2>2, <3>3
      <4> QED
        BY <1>3, <2>3, <2>5, <3>1, <4>1 DEF HealthcheckPath
    <3> QED
      BY <3>2, <3>3
  <2>4. CASE raw.word # ""
    <3>1. path = [word |-> raw.word, padded |-> FALSE]
      BY <1>1, <1>3, <2>4, <2>5 DEF Env
    <3>2. HealthcheckPath = [word |-> raw.word, padded |-> raw.padded]
      <4>1. [word |-> raw.word, padded |-> raw.padded].word # [word |-> "", padded |-> FALSE].word
        BY <2>4
      <4>2. [word |-> raw.word, padded |-> raw.padded] # [word |-> "", padded |-> FALSE]
        BY <4>1
      <4> QED
        BY <1>3, <2>5, <4>2, Zenon DEF HealthcheckPath
    <3> QED
      BY <2>2, <3>1, <3>2
  <2> QED
    BY <2>3, <2>4
<1> QED
  BY <1>2, <1>3

\* Nothing watches at first.
LEMMA SInitProbeInv == SInit => ProbeInv
  BY StartupAssumption DEF SInit, Init, ProbeInv, HealthcheckSeesTheHeartbeat, RawsOk

\* Once it runs, the paths stay what they are; main() never goes back to its start.
LEMMA NextLeavesStart ==
    ASSUME Next
    PROVE  /\ main' # "starting" \/ main = "starting"
           /\ main' = "watching" => main = "watching"
  BY DEF Next, Main, Step, Top, ConnectFails, Connect, Store, SeedFails, Seeded, SessionEnds, Joined, Close, Wait, Die, process, SetStop, TakeSession, CloseTaken, Signal, Leave, Exit, Beat, HeartbeatAges

\* Run sets both paths from one setting; the other steps leave them.
LEMMA SNextKeepsProbeInv ==
    ASSUME ProbeInv, [SNext]_svars
    PROVE  ProbeInv'
<1>1. CASE Next /\ UNCHANGED <<command, env, lines, beats, probes>>
  BY <1>1, NextLeavesStart DEF ProbeInv, RawsOk, HealthcheckSeesTheHeartbeat
<1>2. CASE ReadEnvFile
  <2>1. CASE lines = Null
    BY <1>2, <2>1 DEF ReadEnvFile, Return, ProbeInv, HealthcheckSeesTheHeartbeat
  <2>2. CASE lines # Null
    <3>1. /\ main = "starting" /\ env' = LoadEnvFile(env, lines) /\ lines' = <<>>
          /\ UNCHANGED <<main, beats, probes>>
      BY <1>2, <2>2 DEF ReadEnvFile, Starting, vars, process
    <3>2. RawsOk(env) /\ lines \in EnvFiles \ {Null}
      BY <1>2, <2>2, <3>1 DEF ProbeInv, ReadEnvFile
    <3>3. RawsOk(LoadEnvFile(env, lines))
      BY <3>2, LoadedIsRaw, StartupAssumption
    <3>4. RawsOk(env)'
      BY <3>1, <3>3 DEF RawsOk
    <3> QED
      BY <3>1, <3>4 DEF ProbeInv, HealthcheckSeesTheHeartbeat
  <2> QED
    BY <2>1, <2>2
<1>3. CASE Healthcheck \/ Rejected \/ TestNotify \/ Dump
  <2>1. main' = "exited"
    BY <1>3 DEF Healthcheck, Rejected, TestNotify, Dump, Return
  <2> QED
    BY <2>1 DEF ProbeInv, HealthcheckSeesTheHeartbeat
<1>4. CASE Run
  <2>1. /\ main = "starting" /\ main' = "watching" /\ FromEnv(env) # Bad
        /\ beats' = IF FromEnv(env).heartbeat_path = Null THEN DEFAULT_HEARTBEAT_PATH
                    ELSE Path(FromEnv(env).heartbeat_path)
        /\ probes' = HealthcheckPath
    BY <1>4 DEF Run, Starting, Launch
  <2>2. probes' = beats' \/ probes'.padded
    BY <2>1, SamePath DEF ProbeInv
  <2> QED
    BY <2>1, <2>2 DEF ProbeInv, HealthcheckSeesTheHeartbeat
<1>5. CASE UNCHANGED svars
  BY <1>5 DEF svars, vars, process, ProbeInv, RawsOk, HealthcheckSeesTheHeartbeat
<1> QED
  BY <1>1, <1>2, <1>3, <1>4, <1>5 DEF SNext

\* The health check inspects the file the running process touches, for any environment
\* and any file of settings, unless the path is padded with blanks (README.md:187).
THEOREM HealthcheckSeesTheHeartbeatHolds == SSpec => []HealthcheckSeesTheHeartbeat
<1>1. SInit => ProbeInv
  BY SInitProbeInv
<1>2. ProbeInv /\ [SNext]_svars => ProbeInv'
  BY SNextKeepsProbeInv
<1>3. ProbeInv => HealthcheckSeesTheHeartbeat
  BY DEF ProbeInv
<1> QED
  BY <1>1, <1>2, <1>3, PTL DEF SSpec

-----------------------------------------------------------------------------
\* The environment without the variables of one prefix.
Without(e, prefix) == [name \in {n \in DOMAIN e : n[1] # prefix} |-> e[name]]

\* What is not of that prefix is read as before.
LEMMA EnvWithout ==
    ASSUME NEW e, NEW prefix, NEW p, NEW rest
    PROVE  Env(Without(e, prefix), p, rest) = IF p = prefix THEN Null ELSE Env(e, p, rest)
<1>1. <<p, rest>>[1] = p
  OBVIOUS
<1> QED
  BY <1>1 DEF Env, Without

\* An appliance that is switched off is left out, with its settings and without.
LEMMA OffIsNull ==
    ASSUME NEW e, NEW kind, EnvBool(Env(e, KIND_SPECS[kind].prefix, "ENABLED"), TRUE) = FALSE
    PROVE  /\ ApplianceFromEnv(e, kind) = Null
           /\ ApplianceFromEnv(Without(e, KIND_SPECS[kind].prefix), kind) = Null
<1>1. Enabled(e, kind) = FALSE
  BY ConfigAssumption DEF Enabled, EnvBool
<1>2. Enabled(Without(e, KIND_SPECS[kind].prefix), kind) = FALSE
  BY EnvWithout DEF Enabled, EnvBool
<1>3. Bad # FALSE
  BY ConfigAssumption
<1> QED
  BY <1>1, <1>2, <1>3 DEF ApplianceFromEnv

\* The other appliances do not notice.
LEMMA OthersAreTheSame ==
    ASSUME NEW e, NEW prefix, NEW kind, KIND_SPECS[kind].prefix # prefix
    PROVE  ApplianceFromEnv(Without(e, prefix), kind) = ApplianceFromEnv(e, kind)
<1> DEFINE p == KIND_SPECS[kind].prefix
<1>1. \A rest : Env(Without(e, prefix), p, rest) = Env(e, p, rest)
  BY EnvWithout
<1>2. ApplianceSettings(Without(e, prefix), kind) = ApplianceSettings(e, kind)
  BY <1>1 DEF ApplianceSettings
<1>3. Enabled(Without(e, prefix), kind) = Enabled(e, kind)
  BY <1>1 DEF Enabled
<1> QED
  BY <1>2, <1>3 DEF ApplianceFromEnv

\* The kinds and their prefixes.
LEMMA KindPrefixes ==
    /\ DOMAIN KINDS = {1, 2} /\ KINDS[1] = "washer" /\ KINDS[2] = "dryer"
    /\ Apps = {"washer", "dryer"}
    /\ KIND_SPECS["washer"].prefix = "WASHER" /\ KIND_SPECS["dryer"].prefix = "DRYER"
<1>1. DOMAIN KINDS = {1, 2} /\ KINDS[1] = "washer" /\ KINDS[2] = "dryer"
  BY DEF KINDS
<1>2. Apps = {"washer", "dryer"}
  BY <1>1, StartupAssumption DEF ToSet
<1>3. KIND_SPECS["washer"].prefix = "WASHER" /\ KIND_SPECS["dryer"].prefix = "DRYER"
  BY DEF KIND_SPECS
<1> QED
  BY <1>1, <1>2, <1>3

\* So the configured appliances are the same,
LEMMA AppliancesWithout ==
    ASSUME NEW e, NEW kind \in Apps,
           EnvBool(Env(e, KIND_SPECS[kind].prefix, "ENABLED"), TRUE) = FALSE
    PROVE  Appliances(Without(e, KIND_SPECS[kind].prefix)) = Appliances(e)
<1> DEFINE prefix == KIND_SPECS[kind].prefix
<1>1. ASSUME NEW i \in DOMAIN KINDS
      PROVE  ApplianceFromEnv(Without(e, prefix), KINDS[i]) = ApplianceFromEnv(e, KINDS[i])
  <2>1. CASE KINDS[i] = kind
    <3>1. ApplianceFromEnv(e, kind) = Null /\ ApplianceFromEnv(Without(e, prefix), kind) = Null
      BY OffIsNull, Zenon
    <3> QED
      BY <2>1, <3>1
  <2>2. CASE KINDS[i] # kind
    <3>1. KIND_SPECS[KINDS[i]].prefix # prefix
      BY <2>2, KindPrefixes
    <3> QED
      BY <3>1, OthersAreTheSame, Zenon
  <2> QED
    BY <2>1, <2>2
<1>5. [i \in DOMAIN KINDS |-> ApplianceFromEnv(Without(e, prefix), KINDS[i])]
        = [i \in DOMAIN KINDS |-> ApplianceFromEnv(e, KINDS[i])]
  BY <1>1
<1> QED
  BY <1>5 DEF Appliances

\* and everything else: it has other prefixes.
LEMMA SettingsWithout ==
    ASSUME NEW e, NEW kind \in Apps,
           EnvBool(Env(e, KIND_SPECS[kind].prefix, "ENABLED"), TRUE) = FALSE
    PROVE  FromEnv(Without(e, KIND_SPECS[kind].prefix)) = FromEnv(e)
<1> DEFINE prefix == KIND_SPECS[kind].prefix
           f      == Without(e, prefix)
<1>1. prefix \notin {"", "PUSHOVER"}
  BY KindPrefixes
<1>2. \A p, rest : p # prefix => Env(f, p, rest) = Env(e, p, rest)
  BY EnvWithout
<1>3. \A rest : /\ Env(f, "", rest) = Env(e, "", rest)
               /\ Env(f, "PUSHOVER", rest) = Env(e, "PUSHOVER", rest)
  <2> HIDE DEF prefix, f
  <2> QED
    BY <1>1, <1>2, Zenon
<1>4. Appliances(f) = Appliances(e)
  BY AppliancesWithout
<1> HIDE DEF f
<1>5. Events(f) = Events(e)
  BY <1>3 DEF Events
<1>6. Settings(f) = Settings(e)
  BY <1>4, <1>5, <1>3 DEF Settings
<1> QED
  <2>1. FromEnv(f) = FromEnv(e)
    BY <1>4, <1>6, <1>3 DEF FromEnv
  <2> QED
    BY <2>1 DEF f

\* For any environment, an appliance that is switched off decides nothing: its settings
\* are as good as absent (config.py:316-317).
THEOREM SwitchedOffIsIgnoredHolds == SSpec => []SwitchedOffIsIgnored
<1>1. SwitchedOffIsIgnored
  BY SettingsWithout DEF SwitchedOffIsIgnored, Without
<1> QED
  BY <1>1, PTL
=============================================================================
