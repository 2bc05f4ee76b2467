---------------------------- MODULE PushoverQueue ----------------------------
(***************************************************************************)
(* PushoverSender (pushover.py): submit() queues a notification, one       *)
(* worker thread sends them in turn with retries, stop() drains the queue  *)
(* for a while and then cuts the retries short.  Notifications are         *)
(* numbered in the order they were submitted.                              *)
(***************************************************************************)
EXTENDS Integers, SequencesExt

CONSTANTS
    Null,
    MaxAttempts,   \* max_attempts
    ResetTimes,    \* the X-Limit-App-Reset times a 429 may carry
    MaxNotes,      \* bound on the number of notifications
    MaxTime        \* bound on the clock

ASSUME QueueAssumption ==
    /\ Null \notin Nat
    /\ MaxAttempts \in Nat \ {0} /\ ResetTimes \subseteq Nat
    /\ MaxNotes \in Nat /\ MaxTime \in Nat

Sentinel == 0    \* the None that stop() queues

VARIABLES
    queue,            \* _q
    pc,               \* where the worker is
    note, attempt,    \* what it is delivering, for which time
    quota_reset_at,
    abort,            \* _abort
    sent_count, failed_count,
    caller,           \* where the thread that calls stop() is
    now,
    submitted,        \* history: how many notifications were submitted
    beforeStop,       \* history: and how many before stop() was called
    accepted,         \* history: what Pushover accepted, in order
    lost              \* history: how many of its answers never arrived

counts == <<sent_count, failed_count>>
history == <<submitted, beforeStop, accepted, lost>>
worker == <<pc, note, attempt>>
vars == <<queue, worker, quota_reset_at, abort, counts, caller, now, history>>

Init ==
    /\ queue = <<>>
    /\ pc = "idle" /\ note = Null /\ attempt = 0
    /\ quota_reset_at = Null /\ abort = FALSE
    /\ sent_count = 0 /\ failed_count = 0
    /\ caller = "running" /\ now = 0
    /\ submitted = 0 /\ beforeStop = Null /\ accepted = <<>> /\ lost = 0

\* submit(), from any thread of the process, also while it is stopping.
Submit ==
    /\ submitted < MaxNotes /\ caller # "returned"
    /\ submitted' = submitted + 1
    /\ queue' = Append(queue, submitted')
    /\ UNCHANGED <<worker, quota_reset_at, abort, counts, caller, now, beforeStop, accepted, lost>>

-----------------------------------------------------------------------------
\* The worker.  It is a daemon thread: it ends with the process.
Runs(at) == caller # "returned" /\ pc = at

Idle == pc' = "idle" /\ note' = Null /\ attempt' = 0

Quota == quota_reset_at # Null /\ now < quota_reset_at

GetSentinel ==
    /\ Runs("idle") /\ queue # <<>> /\ Head(queue) = Sentinel
    /\ queue' = Tail(queue) /\ pc' = "done"
    /\ UNCHANGED <<note, attempt, quota_reset_at, abort, counts, caller, now, history>>

GetDropped ==    \* the quota is known to be used up
    /\ Runs("idle") /\ queue # <<>> /\ Head(queue) # Sentinel /\ Quota
    /\ queue' = Tail(queue) /\ failed_count' = failed_count + 1
    /\ UNCHANGED <<worker, quota_reset_at, abort, sent_count, caller, now, history>>

Get ==
    /\ Runs("idle") /\ queue # <<>> /\ Head(queue) # Sentinel /\ ~Quota
    /\ queue' = Tail(queue)
    /\ pc' = "sending" /\ note' = Head(queue) /\ attempt' = 1
    /\ UNCHANGED <<quota_reset_at, abort, counts, caller, now, history>>

(***************************************************************************)
(* send_once(): the answer to a request is a status (0: none arrived), in  *)
(* a 200 whether its body is JSON with status 1, and in a 429 the time of  *)
(* the reset, if it carries one.                                           *)
(***************************************************************************)
Answers == [status : {0, 200, 400, 429, 500}, ok : BOOLEAN, reset : ResetTimes \cup {Null}]

SendOnce(answer) ==
    CASE answer.status = 429 -> "PushoverQuotaError"
      [] answer.status \in (400..499) \ {429} -> "PushoverError"
      [] answer.status = 200 -> IF answer.ok THEN "sent" ELSE "PushoverError"
      [] OTHER -> "retry"

\* Pushover took the message if it says so, and did not if it blames the client;
\* anything else may hide that it did.
Transmits(answer) ==
    LET took == accepted' = Append(accepted, note)
    IN IF SendOnce(answer) = "sent" THEN took /\ UNCHANGED lost
       ELSE \/ UNCHANGED <<accepted, lost>>
            \/ answer.status \notin 400..499 /\ took /\ lost' = lost + 1

\* Mutant: goes on to the next attempt after a success.
SendsAgain(answer) ==
    /\ Runs("sending") /\ SendOnce(answer) = "sent"
    /\ sent_count' = sent_count + 1 /\ quota_reset_at' = Null
    /\ IF attempt = MaxAttempts THEN Idle ELSE attempt' = attempt + 1 /\ UNCHANGED <<pc, note>>
    /\ UNCHANGED <<queue, abort, failed_count, caller, now, submitted, beforeStop>>

Sends(answer) ==
    /\ Runs("sending") /\ SendOnce(answer) = "sent" /\ Idle
    /\ sent_count' = sent_count + 1 /\ quota_reset_at' = Null
    /\ UNCHANGED <<queue, abort, failed_count, caller, now, submitted, beforeStop>>

\* Mutant: the error of a rejected message ends the worker.
RejectedEnds(answer) ==
    /\ Runs("sending") /\ SendOnce(answer) \in {"PushoverQuotaError", "PushoverError"}
    /\ pc' = "done" /\ note' = Null /\ attempt' = 0 /\ failed_count' = failed_count + 1
    /\ UNCHANGED <<queue, abort, sent_count, caller, now, submitted, beforeStop, quota_reset_at>>

Rejected(answer) ==
    /\ Runs("sending") /\ Idle /\ failed_count' = failed_count + 1
    /\ \/ SendOnce(answer) = "PushoverQuotaError" /\ quota_reset_at' = answer.reset
       \/ SendOnce(answer) = "PushoverError" /\ UNCHANGED quota_reset_at
    /\ UNCHANGED <<queue, abort, sent_count, caller, now, submitted, beforeStop>>

\* Mutant: a message that failed for good goes back to the queue.
FailsRequeued(answer) ==
    /\ Runs("sending") /\ SendOnce(answer) = "retry"
    /\ IF attempt = MaxAttempts
         THEN Idle /\ queue' = Append(queue, note)
         ELSE pc' = "backoff" /\ UNCHANGED <<note, attempt, queue>>
    /\ UNCHANGED <<counts, quota_reset_at, abort, caller, now, submitted, beforeStop>>

\* A 5xx or a network error.
Fails(answer) ==
    /\ Runs("sending") /\ SendOnce(answer) = "retry"
    /\ IF attempt = MaxAttempts
         THEN Idle /\ failed_count' = failed_count + 1
         ELSE pc' = "backoff" /\ UNCHANGED <<note, attempt, failed_count>>
    /\ UNCHANGED <<queue, quota_reset_at, abort, sent_count, caller, now, submitted, beforeStop>>

Retry ==    \* _abort.wait(delay) times out
    /\ Runs("backoff") /\ ~abort
    /\ pc' = "sending" /\ attempt' = attempt + 1
    /\ UNCHANGED <<note, queue, quota_reset_at, abort, counts, caller, now, history>>

GiveUp ==
    /\ Runs("backoff") /\ abort /\ Idle
    /\ failed_count' = failed_count + 1
    /\ UNCHANGED <<queue, quota_reset_at, abort, sent_count, caller, now, history>>

-----------------------------------------------------------------------------
\* Mutant: the sentinel overtakes the queue.
StopAtOnce ==
    /\ caller = "running" /\ caller' = "draining"
    /\ queue' = <<Sentinel>> \o queue /\ beforeStop' = submitted
    /\ UNCHANGED <<worker, quota_reset_at, abort, counts, now, submitted, accepted, lost>>

Stop ==    \* stop(): queues the sentinel and joins the worker
    /\ caller = "running" /\ caller' = "draining"
    /\ queue' = Append(queue, Sentinel) /\ beforeStop' = submitted
    /\ UNCHANGED <<worker, quota_reset_at, abort, counts, now, submitted, accepted, lost>>

DrainTimesOut ==
    /\ caller = "draining" /\ pc # "done"
    /\ caller' = "aborting" /\ abort' = TRUE
    /\ UNCHANGED <<queue, worker, quota_reset_at, counts, now, history>>

StopReturns ==    \* the worker is done, or the second join times out
    /\ caller = "aborting" \/ (caller = "draining" /\ pc = "done")
    /\ caller' = "returned"
    /\ UNCHANGED <<queue, worker, quota_reset_at, abort, counts, now, history>>

Tick ==
    /\ now < MaxTime /\ now' = now + 1
    /\ UNCHANGED <<queue, worker, quota_reset_at, abort, counts, caller, history>>

Attempt ==
    \E answer \in Answers :
        Transmits(answer) /\ (Sends(answer) \/ Rejected(answer) \/ Fails(answer))

Worker == GetSentinel \/ GetDropped \/ Get \/ Attempt \/ Retry \/ GiveUp

Next == Submit \/ Worker \/ Stop \/ DrainTimesOut \/ StopReturns \/ Tick

Spec == Init /\ [][Next]_vars

\* Every request ends (its timeout is 15 s) and every backoff does.
FairSpec == Spec /\ WF_vars(Worker)

-----------------------------------------------------------------------------
Handled == sent_count + failed_count

\* The outbox the other parts see: what the worker has in its hands and what is
\* queued behind it, without stop()'s sentinel.
Pending == (IF note = Null THEN <<>> ELSE <<note>>) \o RemoveFirst(queue, Sentinel)

Outbox == INSTANCE NoteOutbox WITH
    pending <- Pending, transmitted <- accepted, sent <- sent_count, failed <- failed_count

\* The sender implements the outbox: over retries, quotas, lost answers and a
\* shutdown no notification is skipped, handled twice or overtaken, and each way out
\* of _deliver() counts it once (pushover.py:253-312).
IsOutbox == Outbox!Spec

\* A notification arrives a second time only because the answer to an earlier
\* attempt was lost (pushover.py:276-280).
RepeatsAreLostAnswers == Len(accepted) - Cardinality(ToSet(accepted)) <= lost

\* When stop() returns without having had to abort, every notification that was
\* submitted before it was called has been handled (pushover.py:220-231).
DrainedUnlessAborted ==
    caller = "returned" /\ ~abort => Handled >= beforeStop

\* Every notification submitted before stop() is called is handled in the end, as
\* long as the process lives: neither a rejected message, nor a quota, nor a network
\* that stays down stops the worker.
AllHandled ==
    \A n \in 1..MaxNotes :
        submitted >= n /\ caller = "running" ~> (Handled >= n \/ caller = "returned")
=============================================================================
