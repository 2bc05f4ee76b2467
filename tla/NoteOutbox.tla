------------------------------ MODULE NoteOutbox ------------------------------
(***************************************************************************)
(* What the rest of the program relies on when it hands a notification to  *)
(* the sender: an outbox.  Only its oldest notification is transmitted,    *)
(* perhaps more than once, and then settled, once: as sent or as given up. *)
(* Nothing else ever leaves it.                                            *)
(***************************************************************************)
EXTENDS Naturals, Sequences

VARIABLES
    pending,      \* notifications not settled yet, oldest first
    transmitted,  \* what the service accepted, in order
    sent, failed  \* how many were settled as sent, and as given up

vars == <<pending, transmitted, sent, failed>>

Init == pending = <<>> /\ transmitted = <<>> /\ sent = 0 /\ failed = 0

\* Notifications are numbered in the order they are handed over.
Hand ==
    /\ pending' = Append(pending, sent + failed + Len(pending) + 1)
    /\ UNCHANGED <<transmitted, sent, failed>>

Transmit == transmitted' = Append(transmitted, Head(pending))

\* Accepted by the service, which the sender does not get to know.
TransmitUnaware == pending # <<>> /\ Transmit /\ UNCHANGED <<pending, sent, failed>>

SettleSent ==
    /\ pending # <<>> /\ pending' = Tail(pending)
    /\ Transmit /\ sent' = sent + 1 /\ UNCHANGED failed

GiveUp ==
    /\ pending # <<>> /\ pending' = Tail(pending) /\ failed' = failed + 1
    /\ Transmit \/ UNCHANGED transmitted
    /\ UNCHANGED sent

Next == Hand \/ TransmitUnaware \/ SettleSent \/ GiveUp

Spec == Init /\ [][Next]_vars
=============================================================================
