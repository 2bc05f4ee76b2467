--------------------------- MODULE ApplianceState ---------------------------
(***************************************************************************)
(* The flattened snapshot of a washer or dryer that the bridge compares    *)
(* (appliance.py).  Values are kept decoded: times are seconds, a field    *)
(* the appliance does not report, or reports unparseably, is Null.         *)
(***************************************************************************)
EXTENDS Integers, Sequences

CONSTANT Null    \* Python's None

ASSUME NullAssumption == Null \notin Nat /\ Null \notin STRING

RUNNING_STATES  == {"Run", "Running"}
PAUSED_STATES   == {"Pause", "Paused"}
FINISHED_STATES == {"End", "Finish", "Finished", "Complete"}

(***************************************************************************)
(* Fields of a snapshot that detect() reads.  The others (spin, energy,    *)
(* ...) only make two snapshots unequal; see Evaluate in CycleDetector.    *)
(***************************************************************************)
OptNat    == Nat \cup {Null}
OptString == STRING \cup {Null}
OptBool   == BOOLEAN \cup {Null}

ApplianceStates(Alarms) ==
    [power : OptString, machine_state : OptString, progress : OptString,
     remaining_s : OptNat, delay_end_s : OptNat, course : OptString,
     remote_control : OptBool, child_lock : OptBool, alarms : Alarms]

Running(s)  == s.machine_state \in RUNNING_STATES
Paused(s)   == s.machine_state \in PAUSED_STATES
Finished(s) == s.machine_state \in FINISHED_STATES \/ s.progress = "Finish"
InCycle(s)  == Running(s) \/ Paused(s)

\* Delay End is armed and the drum is idle.
DelayWaiting(s) ==
    /\ Running(s)
    /\ s.delay_end_s \notin {Null, 0}
    /\ s.progress \in {Null, "None", "Delaywash"}

(***************************************************************************)
(* flatten(): links maps the href of a resource to its last representation *)
(* (a record or function of the keys it carries).                          *)
(***************************************************************************)
Field(links, href, key) ==
    IF href \in DOMAIN links /\ key \in DOMAIN links[href] THEN links[href][key] ELSE Null

Flatten(links) ==
    LET kids == Field(links, "kidslock", "kidsLock")
        items == Field(links, "alarms", "items")
    IN [power          |-> Field(links, "power", "power"),
        machine_state  |-> Field(links, "state", "state"),
        progress       |-> Field(links, "state", "progress"),
        remaining_s    |-> Field(links, "state", "remainingTime"),
        delay_end_s    |-> Field(links, "state", "delayEndTime"),
        course         |-> Field(links, "course", "course"),
        remote_control |-> Field(links, "remotectrl", "remoteControlEnabled"),
        child_lock     |-> IF kids = Null THEN Null ELSE kids # "Ready",
        alarms         |-> IF items = Null THEN <<>> ELSE items]
=============================================================================
