------------------------------ MODULE AlarmCodes ------------------------------
(***************************************************************************)
(* What an alarm report says (alarms.py, codes_in ... cleared_codes).  A   *)
(* report is the sequence of its items; an item has the code and the state *)
(* the regular expressions find in its text (Null where they find none)    *)
(* and a triggeredTime, which makes two reports of one alarm differ.       *)
(***************************************************************************)
EXTENDS ApplianceState, SequencesExt

AlarmItems  == [code : OptString, state : OptString, stamp : OptNat]
AlarmReport == Seq(AlarmItems)

\* Every code found, first-seen order, without repetition.
CodesIn(alarms) ==
    FoldLeft(LAMBDA out, item :
                IF item.code = Null \/ Contains(out, item.code) THEN out
                ELSE Append(out, item.code),
             <<>>, alarms)

\* What counts as the same alarm for the throttle: the codes when there are
\* any, else the whole text (which includes the time stamps).
ThrottleKey(alarms) ==
    LET codes == CodesIn(alarms)
    IN [codes |-> codes, text |-> IF codes = <<>> THEN alarms ELSE <<>>]

IsCleared(alarms) ==
    LET states == {item.state : item \in ToSet(alarms)} \ {Null}
    IN states = {"Deleted"}

\* The codes a cleared alarm refers to: its own, or those of the report before.
ClearedCodes(alarms, previous) ==
    IF CodesIn(alarms) # <<>> THEN CodesIn(alarms) ELSE CodesIn(previous)
=============================================================================
