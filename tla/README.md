# A TLA+ verification of smartthings-pushover

smartthings-pushover keeps one DTLS session to each Samsung washer or dryer,
flattens what it reports into snapshots, compares consecutive snapshots and sends
what happened to Pushover. These modules model the program from its source
(`src/smartthings_pushover/*.py`), TLC checks them on small instances, and TLAPS
proves every invariant, action property and refinement that the passing runs check, for
every value of the constants.
`PROJECT.json` lists the runs, the mutants, the map from definitions to source
lines, the findings, the hazards and the theorems.

## 1. The system

| Component (source) | State | Operations | Talks to |
|---|---|---|---|
| Process (`cli.py` `_run`) | threads, `stop_requested`, exit code, heartbeat file | start, signal handler, watching loop, clean-up | every bridge (`request_stop`), the sender (`stop`) |
| Session loop (`bridge.py` `run_forever`, `_session_once`) | `stop`, `session`, `_suppress_changes`, backoff | connect, subscribe, seed, run workers, tear down, close | library session, Reachability, data path |
| Data path (`bridge.py` `seed` … `_evaluate`) | the cache, `_last_state`, `_sweep_timer` | apply a representation, hook, arm and fire the settle timer, evaluate | detect(), persistence, dispatch |
| Snapshot (`appliance.py`) | – | `flatten`, predicates, poll tiers | data path, detect() |
| Event detection (`events.py`) | `CycleTracker` | `detect`, `_baseline` | data path |
| Persistence (`persistence.py`) | the state file | `load`, `save` | `_persist_tracker`, `__init__` |
| Alarm reports and throttle (`alarms.py`) | `_last_sent`, `_recent` | `codes_in`, `is_cleared`, …, `allow` | detect(), `_dispatch` |
| Reachability (`health.py`) | `down_since`, `offline_notified` | `mark_down`, `mark_up`, `crossed_offline` | session thread, health thread |
| Heartbeat (`health.py`) | a file's time | `touch`, `is_fresh` | the main loop, `--healthcheck` |
| Sender (`pushover.py`) | queue, worker, `_abort`, quota reset, counters | `submit`, `_run`, `_deliver`, `stop` | every `_dispatch`, the process |
| Dispatch (`bridge.py` `_dispatch`) | two throttles, the configuration | select, gate, prioritise, submit | detect(), the sender |
| Configuration, kinds (`config.py`, `kinds.py`) | none after the start | parse and check the environment | command line, dispatch |
| Command line (`cli.py` `main`, `_healthcheck`, `_test_notify`, `_dump`) | none | choose an option, read the env file, exit code | configuration, the process |

Threads of one bridge: the *session* thread (`run_forever`), the library's *reader*
(observe deliveries), the *poll* scheduler, the keepalive, the observe refresh, the
*health* thread, and the *settle timer*. All bridges share the sender. The only locks
are `_state_lock` (snapshot, detect, persist), `_session_lock` (who owns the session)
and `_sweep_lock` (the timer). Nothing guards `_suppress_changes`, Reachability or the
throttles. CPython (the image is `python:3.12-slim`) switches threads at calls and
loop passes only; the modules put their step boundaries there.

What is hard: the hold around a seed against three other writers of the cache; stale
sweeps; a timer that outlives its session; reachability and throttles without locks; a
stop racing a handshake, a signal interrupting the stop itself; crashes between
persisting and dispatching; restarts in mid-cycle; retries whose answer was lost; a
shutdown that cuts the queue short.

What makes each part correct:

* *detect/tracker*: a tracker never outlives its cycle, Delay End waits have no start
  time, every start time kept was announced, an unchanged snapshot says nothing.
* *persistence*: a crash after an evaluation loses nothing; a failed write is retried.
* *what the reader is told*: the notices of an appliance tell a story in which each fits
  the one before; after the bridge was away a notice may not, but the next start or end
  that is told in touch sets the reader right, unless it is the start of a cycle first seen
  in its last minute (finding 4); an end is told once, a duration is that of this cycle; a
  completed cycle is told as cancelled only after a silent link, when the appliance is
  seen again within 85 s of the end, or by finding 1.
* *data path*: the first snapshot is whole, the hold is broken by nothing but an old
  session's timer, no change is lost, a jump over an outage is judged with the outage, and
  in the end the judged state is the appliance's.
* *throttle*: spacing of identical alarms, bound per window, decisions as the full
  history would give, bounded memory.
* *dispatch*: both gates are such throttles, what is judged and selected is told within
  their limits, the priority is the documented one around midnight too.
* *reachability*: one offline notice per long outage, none early but for a reconnect during
  the call that decides it, online answers offline, a connected appliance is not left shown
  offline, an outage that lasts is shown.
* *process*: at most one session per appliance, none leaks, a stop ends the process,
  a dead bridge is seen, and the health check looks where the heartbeat is.
* *configuration*: the settings of an appliance that is switched off decide nothing.
* *sender*: an outbox: everything submitted is settled once, in order; a repeat means a
  lost answer; a stop that did not abort has drained.

## 2. The modules

| Module | Models | Notes |
|---|---|---|
| `ApplianceState` | `appliance.py`: snapshot, predicates, `flatten` | values decoded; `Null` is `None` |
| `AlarmCodes` | `alarms.py`: `codes_in`, `throttle_key`, `is_cleared`, `cleared_codes` | a report is a sequence of items with the code and the state the expressions find |
| `CycleEvents` | `events.py`: tracker, `_baseline`, `detect` | `CycleOutcome` is the `if/elif` chain, `NextTracker` and `CycleEv` what its branches do; wording left out |
| `CycleDetector` | `_evaluate`, `_persist_tracker`, restore, crash, restart | detect and persist are one step (one lock), dispatch is later and per thread (`outbox`) |
| `CycleNotices` | abstract: the story the notices of one appliance tell | written from the table of events in the README, implemented by `LaundryWatch`; `coming` is the notice on its way, `touch` and `late` when it sets the reader right; a cycle that finished ("done") is told apart from one that was cancelled ("idle") |
| `LaundryWatch` | `CycleDetector` over an appliance that runs cycles and a link that is up, silent or down | the appliance is external: the README's caveats and the captures in the tests |
| `AlarmThrottle` | `AlarmThrottle.allow` called by one thread at a time | `Forward`, `Suppress`; `log` is history |
| `AlarmCallers` | the same method at its thread switch points, several callers: the prune, the tests, the record, the iterator (`Iterate`), the scan, the deletions | extends `AlarmThrottle`, shares its operators |
| `Config` | `config.py`, `kinds.py`, `load_env_file`, `priority_for` | pure functions of an environment; a raw value carries what its text holds; a `ConfigError` is `Bad` |
| `Dispatch` | `_dispatch` with both throttles, fed by detect() on alarm reports | `AlarmThrottle`'s variables are one throttle, `Cleared` instantiates the other |
| `Reachability` | `Reachability` under the session and health threads, and the two notices | time as ages, saturated at the threshold |
| `BridgeSession` | `_session_once`, `seed`, hooks, settle timer, `_evaluate` on a shared cache | uses `CycleEvents`; the library's cache, polls and deliveries are external |
| `Supervisor` | `_run`, `_on_signal`, heartbeat, `run_forever`, `request_stop`, `_close_session` | the handler's frames are a stack, so that it can interrupt itself |
| `Startup` | `main` and its options | extends `Supervisor` and `Config`: `Run` launches the bridges the environment configures |
| `NoteOutbox` | abstract: an outbox that settles notifications in order and may be given up | implemented by `PushoverQueue` |
| `PushoverQueue` | `PushoverSender` | notifications are numbers in order of submission; `send_once` is its outcomes |

`X_proofs` holds the theorems about `X`; `MC_X` gives it the values TLC needs
(`MC_Environment` the raw values and environments that `MC_Dispatch` and `MC_Startup` use).
Definitions whose comment begins with "Mutant:" are plausible bugs: each property has
one that it must reject, so that it is known to depend on the code it is about.

How they compose:

* `LaundryWatch` extends `CycleDetector`: its `Judge` is `Evaluate` of what the appliance
  shows, with the outage as `mark_down()` (bridge.py:150) and `now` (bridge.py:230) count it at
  a seed, and without one at a push or poll. `TellsTheStory` is `CycleNotices!Spec`, with the
  first event of the outbox as `coming`.
* `Dispatch` extends `AlarmThrottle`, `CycleEvents` and `Config`: a report becomes events by
  `AlarmEvs`, `cfg` is `FromEnv` of one of `Environments`. `GatesAreThrottles` is
  `AlarmThrottle!Spec` of each of the two gates.
* `Startup` extends `Supervisor` and `Config`.
* `PushoverQueue` implements `NoteOutbox` (`IsOutbox`): the queue without its sentinels and
  with the notification in hand is what the outbox still holds.

Correspondences worth knowing:

* `CycleDetector!Evaluate` may be given the snapshot it already has. The code returns
  early on equal snapshots, but snapshots have fields (spin, energy, …) no event is
  about; a change of one of them is this case.
* A bridge without a state directory is one whose every save fails.
* `LaundryWatch!silent` counts the minutes the link was silent for since a snapshot was
  judged: it starts again when one is judged, or when the link heals on a view that is still
  the one judged last, of the same cycle. `doubt` also begins when a session ends with a
  change that no poll has shown.
* The appliance, the link and the clock of `LaundryWatch` move in minutes, the seconds
  are in `Skews`. The code reads `outage_s` as the time from `mark_down()`, which comes after
  the workers were joined (up to `WORKER_JOIN_TIMEOUT_S` = 10, bridge.py:275-283), to a `now`
  that was read before the seed's GET (up to `SEED_TIMEOUT_S` = 15, bridge.py:230, 290), and
  compares it with a `remaining_s` that was shown up to a minute before the session ended.
  So `Seed` gives `detect()` any `60 * away + skew`, where `away` counts the minutes that
  begin after the session's end: up to 59 s more than that, or up to 84 s less (`Uncounted`
  is 60 + 10 + 15).
* `LaundryWatch!Watching` says how `CycleDetector`'s constants are given there (one
  dispatching thread, a clock of minutes, every view is a snapshot). It is a hypothesis of the
  theorems that need it and an ASSUME of the instance, not of the module, so that the
  theorems about `CycleDetector` do not come to depend on it.
* `LaundryWatch` lets one batch of events be dispatched before the next snapshot is
  judged (`EvalThreads = 1`). The code does not force this (bridge.py:401 is outside the
  lock): a second thread could overtake, and a story told in the wrong order can be
  untrue in any way. `CycleDetector` is checked with two threads.
* In `BridgeSession` a `thread` goes `apply → hook → eval`: `StateCache.apply_rep`, the
  test of the hold, and `_evaluate` are three steps with other threads in between;
  `_evaluate` itself is one step under `_state_lock`. At a tear-down the session's reader
  and poll threads have finished (`sess.join()`, joined workers). Its timer has not. After
  a failed seed this is an assumption on the library's `close()`, and on the workers' 10 s
  join an assumption on how long a poll takes.
* `_session_lock`'s block calls nothing, so no signal handler runs inside it and a
  handler that calls `request_stop()` cannot wait for a lock its own thread holds;
  `TakeSession` is one step for this reason.
* Once `main` has made a `Config`, the environment is not read again; `Forget` drops it.

## 3. The runs

The runs take from a second to about a minute (`laundry`, 4.7 million states). "V" marks a
run in which the code contradicts a statement of its own docs; see section 6.

| Run | Question | Instance and why it is enough |
|---|---|---|
| `cycle_detector` | any sequence of snapshots, crashes, restarts, failing store; the start times kept as long as no write failed | 11 snapshots: every class of machine state with every kind of progress, near the end and not, armed and not; outage as long as the remaining time or none; two dispatching threads; clock of two steps |
| `laundry` | what the reader is told of real cycles, over outages, silent links, crashes and restarts | cycles of 3 minutes: one before the last minute to pause or lose the link in; a delay and a silence of 1; 2 cycles, so that one can be taken for the other; 6 minutes, both cycles and a wait; `outage_s` 84 s or 1 s short of the minutes away, or 59 s more |
| `laundry_finish` V | a cycle at its end has been told as finished | the same without crashes |
| `dispatch` | both throttles, what is told, the priorities | 5 environments (alarms or clears off, hours that wrap, that do not, a cap above the event's own priority, a priority that is rejected); window 2, limit 2 for the code's 3, clock from 23:58 to 00:01: the limit binds, records go stale, the day changes |
| `alarm_callers` | two callers at once | 2 contents, limit 2, window 2, clock to 4: stale entries exist while both clean up, and the contents can change between a record and the iterator of its clean-up (149 thousand states) |
| `reachability` | both threads, safety and the lasting outage | threshold 3 ticks, so outages below, at and above it; no bound on sessions |
| `reachability_race` V | "exactly once per outage" | the same |
| `bridge_session` | lost changes, baseline, hold; convergence under fairness, in a session that stays up | 2 resources with 2 values, 2 sessions, sweeps, failing seeds: an old session's timer meets a new session's seed |
| `bridge_outage` V | the outage is counted | cycle of 600 s left, outage of 900 s |
| `bridge_stale` V | a stale sweep is not judged | the state flaps, the lock changes |
| `process` | from the command line to the end of the process | each option; environments with each setting absent, blank, padded, at the edges of its range, outside it and meaningless; no env file, an unreadable one, one that fills gaps; washer and dryer, 2 signals, a bridge may die |
| `pushover_queue` | the outbox, repeats, drain | 3 notifications, 2 attempts, resets at 1 and 2 of a clock to 2 |

Bounds: `MaxTime`, `MaxSessions`, `MaxSignals`, `MaxNotes`, `MaxCycles`, the length of a
`Timeline` and the number of batches in an `outbox` (`EvalThreads`) are bounds of the models;
`Older` saturates an age at the threshold, beyond which the code compares nothing.
Deadlock is not checked where a bounded model or the program stops: `LaundryWatch` (last
cycle, end of time), `Dispatch` (end of time), `BridgeSession` (last session), `Startup`
(exit), `PushoverQueue` (after `stop`).

Symmetry is used only for the callers of `AlarmCallers`, and only with invariants.

### Fairness

* `Reachability`: attempts end because handshakes and GETs have timeouts, but none need
  succeed: one that fails again leaves everything here as it was (health.py:28-29), so
  `Seeded` is not fair, and behaviours in which every attempt fails are among those
  `LastingOutageIsShown` is about. A session that has ended is marked down (`MarkDown`),
  `mark_up` and its notice return (`MarkUp`, `NotifyOnline`), the health loop wakes every
  `HEALTH_TICK_S`, time passes. Sessions need not end.
* `BridgeSession`: threads with work are scheduled; the poll thread comes round to
  every path as long as the session is up (strong fairness: it is interrupted by its own
  other work). Nothing is assumed of observe deliveries or of a session's end.
* `Supervisor` (`Fairness`, which `Startup` uses): every call of a bridge thread returns,
  the main thread runs, a heartbeat that is not touched grows old. Sessions need not end by
  themselves, signals need not come.
* `PushoverQueue`: the worker goes on: every request has a timeout, every backoff ends.

## 4. What is proved

TLAPS checks all proofs, for every value of the constants under the named ASSUMEs
(which TLC evaluates in the runs). They assume that parameters have their types, that
callers are finitely many (`CallersAssumption`), that a cycle lasts more than a minute
(`WatchAssumption`), that a `ConfigError` is no setting (`ConfigAssumption`), and of a raw
configuration value that its parts are a sequence, that the times in `QUIET_HOURS` are numbers
(`EnvironmentsAssumption`: the expression at config.py:253 matches digits) and that it is one
that can be read (`IsRaw`, in `StartupAssumption`).

* **`CycleDetector_proofs`**: `TypeCorrect`, `IdleIsCleanHolds`, `ScheduledIsWaitingHolds`,
  `DurableTrackerHolds`, `DiskBeliefHolds`, `NoNewsHolds`, `StartsAreAnnounced`, for any
  set of snapshots. `IdleIsClean` is inductive only together with what the snapshot says
  of a scheduled tracker (`Drumless`), and across a restart only because the file's tracker
  obeys `Waiting` too; hence `IInv`. The heart is `DetectTrackerFits`: detect() of any two
  snapshots keeps `Clean` and `Drumless`. `StartsAreAnnounced` holds as long as no
  save has failed (`spoiled`), however many loads fail; it adds `StartInv` and the lemmas
  on which event kinds each part of detect() can return.
* **`CycleDetector_proofs`, `LaundryWatch`**: `EndsOnceHolds`,
  `CompletionIsNotCancelledHolds`, `DurationIsTrueHolds`, `InTouchIsTruthHolds` and the
  refinement `TellsTheStoryHolds`, for cycles, delays and silences of any length and any
  number of cycles, outages and crashes, under `Watching`. All rest on `Base`: the tracker's
  `IInv`, a machine that is consistent (`Machine`: where in its cycle it is decides whether its
  drum has turned) and so shows one of seven kinds of view (`MachineShows`), and at most one
  event waiting to be told (`OneEvent`: two views differ in the cycle only). On it,
  - `EndsOnce` needs `Once`: a cycle whose end was told is over in the last snapshot and in
    what the machine shows, so that no pair of snapshots ends it again;
  - `CompletionIsNotCancelled` needs `Overdue`: what remained of a cycle last seen going on
    is at most the minutes away plus the minutes left, and once it has completed
    (`completed` has the time) it is short of the minutes away by all that has passed since.
    So a cycle seen again 85 s (`Uncounted`) after its end or later passes the test of
    `remaining_s` against the outage (events.py:230) whatever the skew;
  - `DurationIsTrue` needs `Timing`: the start times in memory and in the file are the
    drum's, and all times are whole minutes, so that the rounding of the duration loses
    nothing. It assumes that writes succeed (`~StoreMayFail`): a restart may otherwise bring
    back an older tracker;
  - the other two need `Story`: out of doubt, the last view is the one shown, or was until
    the machine did one thing more (`Follows`), and tracker and reader are both right about it
    (`Fits`), or will be when the waiting notice is read (`InTurnNow`). The heart is `OneTurn`:
    for each pair of views that can follow one another, detect() finds a notice that is in
    turn and leaves the tracker that fits, or finds none and none is due. In doubt too, a
    notice of a start or an end that is read in touch says what the appliance is doing, the
    last minute aside (`Result`, from the branches of detect() one by one), which is what
    ends the doubt.
* **`AlarmThrottle_proofs`**: `TypeCorrect`, `SameAlarmSpacedHolds`, `WindowBoundedHolds`,
  `DecidesAsHistoryHolds`, `MemoryBoundedHolds`, for any window, limit and contents. The
  invariant relates memory and history: `recent` holds exactly the tail of the log
  (`Suffix`) and everything before it is too old (`OlderGone`), each send within the window
  is remembered (`Remembered`), and what is remembered is among the last `MaxPerWindow`
  sends (`AmongLast`), which bounds the dict through an injection.
* **`Dispatch_proofs`**: `GatesRefine` shows that every step of `Dispatch` is a step of each
  throttle or leaves it alone; the theorems of `AlarmThrottle_proofs` then hold of both
  gates (`ErrorsWithinLimits`, `ClearsWithinLimits`), for any configuration, which is how
  the limits the `dispatch` run checks are known for the code's 3 per window too.
  `JudgedIsToldHolds` needs both invariants: a suppressed event has its reason in the
  history, not only in the pruned memory. `PriorityHolds` is over every environment that
  `FromEnv` accepts and every minute: accepted settings are well formed
  (`AcceptedIsWellFormed`), and the wrapped comparison of `in_quiet_hours` is a distance
  around the clock (`QuietIsCyclic`).
* **`PushoverQueue_proofs`**: `DrainedUnlessAbortedHolds`, `IsOutboxHolds`,
  `RepeatsAreLostAnswersHolds`, for any number of notifications, attempts and resets. The
  invariant is that what is not handled is exactly the numbers after the last handled one,
  in order, the sentinels aside (`PendingOk`); that a sentinel which ends the worker had
  all earlier notifications before it; and that acceptances are bounded by what was taken
  plus the answers lost (`BoundOk`).
* **`Reachability_proofs`**: `TypeCorrect`, `OncePerOutage`, `UpIsShownUpHolds`,
  `NoEarlyOfflineHolds`, `OnlineIsOwedHolds`, for any threshold. `Unraced` says what both
  threads know of each other as long as no reconnect overlapped a `crossed_offline`;
  `NoEarlyOffline` needs it of the latest call only (`CallIsTimely`), so that an overlap long
  ago excuses nothing.
* **`Startup_proofs`**: `NoSessionLeaksHolds`, `OneSessionHolds`, for any appliances and
  environments and any number of signals, so for handlers that interrupt each other to any
  depth. A session that is not closed is owned (`Owned`): by the thread that has just opened
  it, by `self.session`, or by a frame of the stack that has taken it and will close it; such
  a frame has set the stop event first, so the thread does not connect again.
  `HealthcheckSeesTheHeartbeatHolds` follows both ways of reading the path, through the env
  file too: `ProbeInv` keeps what is read well formed, and of several lines for one name the
  first counts. `SwitchedOffIsIgnoredHolds` takes the settings of an appliance out of the
  environment (`Without`) and shows that each setting of another prefix, each other appliance
  and so the whole configuration or its rejection stay what they were.

* **`BridgeSession_proofs`**: `NoLostChangeHolds`, `HoldUnlessTimerHolds`,
  `BaselineIsWholeHolds`, for any resources, timelines and number of sessions. The invariant
  says who can be at work in which phase (`AtWork`: nobody when the bridge is down, nobody
  evaluating under the hold) and how the cache fills (`CacheFills`: while the seed is applied,
  what is in the cache and what is still to be applied make up the tree; wherever somebody
  may evaluate, the timer included, it is whole).
* **`AlarmCallers_proofs`**: `RememberedWasSentHolds`, for any number of callers. A
  remembered time is that of a send in the log or of a caller that is still in its clean-up
  with exactly that time (`OnItsWay`), even when a second caller has overwritten the record.
  `RepeatBoundedHolds` is a counting argument (`RInv`): the sends of one content at one
  instant, with those still on their way (`Sends`), are at most one per caller (`Counted`),
  because a caller that has sent it finds its own record and time passes only between
  calls; and two sends of one content within a window are of one instant (`Spaced`),
  because a record that still counts is there to be found (`Kept`), unless a clean-up
  deleted it ("wiped").

Only model-checked are the liveness properties (`LastingOutageIsShown`, `FreshInTheEnd`,
`StopCompletes`, `DeadBridgeIsSeen`, `AllHandled`): liveness under fairness and `ENABLED` are
outside what TLAPS proves here, and so is induction over data (RECURSIVE operators are not
used; sequences are folded with the community modules). The four properties of the "V" runs
do not hold. `DiskBeliefHolds`, the type theorem of `AlarmThrottle` and the limits of
`Dispatch`'s gates are proved and not run.

Two things came out of working on the proofs. `TellsTheStory` once said less than it
should: finished and cancelled left the reader with the same belief, so a notice of the wrong
one could pass; now they do not. And `CompletionIsNotCancelled` did not hold for silences as
long as a cycle, because a link that healed on a view equal to the judged one forgot its
silence even when that view belonged to a later cycle; the instance was too small to show it.

## 5. What is not modelled

* Wording, HTML, titles, sounds and form fields, logging and its counters, what `--dump`
  and `--test-notify` print: no state, or one-shot output. Text is decoded: times, course
  codes and the parts of lists are data of a raw value.
* The library `smartthings_local` is not in the repository. Its cryptography, keepalive
  timing and port probing appear as outcomes (connected, failed, ended). Whether a GET or
  a delivery outlives `close()` is decided there; `BridgeSession` assumes that neither
  does, although the workers are joined for 10 s only (bridge.py:282) while the sweep's GET
  may take 15 s, and the reader is not joined after a failed seed.
* A `start_reader` that raises after the handshake (bridge.py:205-207) is a `ConnectFails`
  of `Supervisor`, although nothing in the code holds that session or closes it. A reset
  time in Pushover's answer that is too large to be formatted as a date would raise inside
  the `except` (pushover.py:285) and end the worker; `ResetTimes` has none.
* A wall clock that is set back (alarms.py:195), and the file system below `os.replace`
  (persistence.py:46, no fsync).
* `throttle_key` joins the codes in the order they are found (alarms.py:93), so a report
  whose items change places is another content; no capture shows one.
* A secret file that is not text (`UnicodeDecodeError`) is not told apart from an
  unreadable one.

## 6. Findings

1. `bridge_outage`: `seed()` lifts the hold before its own evaluation (bridge.py:301-303).
   A change that the reader delivers in between judges the jump without the outage, and a
   cycle that ended during it is reported as cancelled, against README.md:365-367.
2. `bridge_stale`: an unrelated change during the settle time judges the stale state of a
   sweep, against the comment at bridge.py:49-51.
3. `reachability_race`: a reconnect within `crossed_offline` leaves `offline_notified`
   set, and the next outage is not reported, against health.py:44. `OnceUnlessRaced` shows
   that this overlap is the only way. A notice can be early by it too: the appliance comes
   back and is lost again within the call (`NoEarlyOffline` exempts that call).
4. `laundry_finish`: the appliance is ready at the seed and is started, the session ends
   before that has been judged, and the next one finds the cycle in its last minute. It is
   told as started (events.py:204-207); its end is then taken for "already reported"
   (events.py:216-219), though only the start has been, and `cycle_finished` is never sent,
   against README.md:225. The reader stays wrong until the next start or end, and the next
   `cycle_started` is out of turn: this is the exception in `CycleNotices!SetsRight`.

Seen on the way, and held by the properties that pass:

* The throttle's docstring (alarms.py:179) counts on one caller; two threads can forward
  the same alarm, and a clean-up (alarms.py:209-210) can delete a record another thread has
  just made, or raise. `RepeatBounded` and `RememberedWasSent` say what still holds.
* A settle timer is not cancelled at teardown (bridge.py:148-149, 372) and evaluates during
  the next seed. `HoldUnlessTimer` shows that nothing else breaks the hold.
* Run → outage → End gives a duration counted to the reconnect; Run/Finish → outage → Run
  of a new cycle announces no start. `DurationIsTrue` and `doubt` leave these out, and
  nothing else.
* A completed cycle can be told as cancelled in two ways: the link was silent before the
  session ended (the outage is counted from bridge.py:150), or the appliance is seen again
  so soon after its end that seconds decide. Shown 3:00 left at 12:00:00, lost at 12:00:50,
  done at 12:03:00 and unloaded, seeded at 12:03:30, it has an outage of 160 s against 180.
  `CompletionIsNotCancelled` shows that there is no third when the seed is the one to judge
  the jump (finding 1 is what happens otherwise), and that the second is over 85 s after the
  end of the cycle.
* A clear that the throttle suppresses leaves its reader believing that the error stands,
  and so does a report of a deletion that no poll saw.

## 7. What could come next

* `LaundryWatch` with two dispatching threads, and a notion of a story told out of order.
* `BridgeSession` with late writers of an old session, once the library's `close()` is
  known.
* The safety part of the liveness arguments as theorems: that a thread which still has
  something to do can always take its next step.
