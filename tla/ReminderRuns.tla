---------------------------- MODULE ReminderRuns ----------------------------
(***************************************************************************)
(* What the reminder scheduler promises, without processes, leases, copies *)
(* or failures: every reminder has a next run; a run of it is known by the *)
(* time it began.  A run begins when the reminder is due, more than a      *)
(* lease after every run still in hand, delivers the message at most once  *)
(* and may be abandoned at any point.  Only the newest run is recorded,    *)
(* and recording puts the next run after every delivery made so far.       *)
(***************************************************************************)
EXTENDS Integers

CONSTANTS Reminder, LeaseTime

VARIABLES
    state,  \* of each reminder
    next,   \* when it is due
    runs,   \* begin times of its runs in hand
    told    \* begin times of the runs that delivered it since the last record

vars == <<state, next, runs, told>>

Init ==
    /\ state = [r \in Reminder |-> "unborn"]
    /\ next = [r \in Reminder |-> 0]
    /\ runs = [r \in Reminder |-> {}]
    /\ told = [r \in Reminder |-> {}]

Schedule(r) ==
    /\ state[r] = "unborn"
    /\ state' = [state EXCEPT ![r] = "enabled"]
    /\ next'[r] \in Nat
    /\ next' = [next EXCEPT ![r] = next'[r]]
    /\ UNCHANGED <<runs, told>>

Withdraw(r) ==
    /\ state[r] \in {"enabled", "disabled"}
    /\ state' = [state EXCEPT ![r] = "deleted"]
    /\ next' = [next EXCEPT ![r] = 0]
    /\ UNCHANGED <<runs, told>>

\* One tick begins a run of several reminders.
Begin(S, t) ==
    /\ \A r \in S : /\ state[r] = "enabled"
                    /\ next[r] <= t
                    /\ \A u \in runs[r] : u + LeaseTime < t
    /\ runs' = [r \in Reminder |-> IF r \in S THEN runs[r] \cup {t} ELSE runs[r]]
    /\ UNCHANGED <<state, next, told>>

Deliver(r, t) ==
    /\ t \notin told[r]
    /\ told' = [told EXCEPT ![r] = @ \cup {t}]
    /\ UNCHANGED <<state, next, runs>>

Record(r, t) ==
    /\ state[r] = "enabled"
    /\ \A u \in runs[r] \cup told[r] : u <= t
    /\ \E s \in {"enabled", "disabled"} : state' = [state EXCEPT ![r] = s]
    /\ next'[r] \in Nat /\ next'[r] > t
    /\ next' = [next EXCEPT ![r] = next'[r]]
    /\ runs' = [runs EXCEPT ![r] = @ \ {t}]
    /\ told' = [told EXCEPT ![r] = {}]

\* A process ends, or the record of a run is lost.
Abandon(S, t) ==
    /\ \A r \in S : t \in runs[r]
    /\ runs' = [r \in Reminder |-> IF r \in S THEN runs[r] \ {t} ELSE runs[r]]
    /\ UNCHANGED <<state, next, told>>

Next ==
    \/ \E r \in Reminder : Schedule(r) \/ Withdraw(r)
    \/ \E S \in SUBSET Reminder :
         \/ \E t \in UNION {runs'[r] : r \in S} : Begin(S, t)
         \/ \E t \in UNION {runs[r] : r \in S} : Abandon(S, t)
    \/ \E r \in Reminder : \E t \in runs[r] : Deliver(r, t) \/ Record(r, t)

Spec == Init /\ [][Next]_vars

=============================================================================
