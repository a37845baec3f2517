----------------------------- MODULE Reminders -----------------------------
(***************************************************************************)
(* The reminder scheduler: the rows of the reminders table, the store's    *)
(* operations on them (internal/storage/sqlite/reminders.go) and the       *)
(* polling loop of every process that shares the database                  *)
(* (internal/runtime/discord/automation/reminders.go).                     *)
(*                                                                         *)
(* A process claims due rows by writing a lease on them, sends each one's  *)
(* message, and records the outcome only while the row still carries its   *)
(* lease id.  It may stop between any two of these steps; another process, *)
(* or its own successor, takes the row over once the lease has run out.    *)
(*                                                                         *)
(* Time is counted in whole seconds, as the table does (Unix()).           *)
(***************************************************************************)
EXTENDS Integers, FiniteSets

CONSTANTS
    Reminder,     \* ids of the rows that are ever created (fresh UUIDs)
    Process,      \* processes that share the database file
    LeaseId,      \* UUIDs drawn by Reminders.Start, one per process start
    NoLease,      \* lease_id IS NULL
    NoReminder,   \* no row is being run
    LeaseTime,    \* reminderLeaseDuration
    MaxFailures,  \* reminderMaxFailures
    ClaimLimit,   \* reminderClaimLimit
    Interval,     \* distances from a time to the schedule's next run
    Parked,       \* the 365 days by which a disabled row is put off
    BadSchedule,  \* rows whose schedule ParseSchedule refuses
    ByChannel,    \* rows delivered to a channel; the others go to a DM
    MaxClock      \* bound on the clock

ASSUME ReminderAssumption ==
    /\ NoLease \notin LeaseId
    /\ NoReminder \notin Reminder
    /\ LeaseTime \in Nat \ {0}
    /\ MaxFailures \in Nat \ {0}
    /\ ClaimLimit \in Nat \ {0}
    /\ Interval \subseteq Nat \ {0}
    /\ Parked \in Nat \ {0}
    /\ BadSchedule \subseteq Reminder
    /\ ByChannel \subseteq Reminder
    /\ MaxClock \in Nat

VARIABLES
    clock,      \* wall clock, in seconds
    row,        \* the reminders table
    proc,       \* the life of each process
    leaseOf,    \* the lease id of the process's scheduler goroutine
    tick,       \* the tick that goroutine is in: its locals and its place
    delivered   \* history: ticks whose run delivered the row's message
                \* since its last recorded run

vars == <<clock, row, proc, leaseOf, tick, delivered>>

Row == [state : {"unborn", "enabled", "disabled", "deleted"},
        next  : Nat, fails : Nat, until : Nat, lease : LeaseId \cup {NoLease}]

\* A row as a claim read it (store.Reminder).
Claimed == [id : Reminder, next : Nat, fails : Nat]
NoRun == [id |-> NoReminder, next |-> 0, fails |-> 0]

\* at: waiting for the ticker, before the claim's transaction, before a run,
\* or after a run whose send returned nil / an error / was not tried.
TickState == [at : {"idle", "claim", "run", "sent", "failed", "invalid"},
              now : Nat, todo : SUBSET Claimed, current : Claimed \cup {NoRun}]
Idle == [at |-> "idle", now |-> 0, todo |-> {}, current |-> NoRun]

TypeOK ==
    /\ clock \in Nat
    /\ row \in [Reminder -> Row]
    /\ proc \in [Process -> {"down", "up", "stopping"}]
    /\ leaseOf \in [Process -> LeaseId \cup {NoLease}]
    /\ tick \in [Process -> TickState]
    /\ delivered \in [Reminder -> SUBSET Nat]

Empty(s) == [state |-> s, next |-> 0, fails |-> 0, until |-> 0, lease |-> NoLease]

Init ==
    /\ clock = 0
    /\ row = [r \in Reminder |-> Empty("unborn")]
    /\ proc = [p \in Process |-> "down"]
    /\ leaseOf = [p \in Process |-> NoLease]
    /\ tick = [p \in Process |-> Idle]
    /\ delivered = [r \in Reminder |-> {}]

-----------------------------------------------------------------------------
(* The table, as users change it through the wellness plugin of a process. *)

Create(r) ==
    /\ \E p \in Process : proc[p] = "up"
    /\ row[r].state = "unborn"
    /\ \E d \in Interval :
         row' = [row EXCEPT ![r] = [Empty("enabled") EXCEPT !.next = clock + d]]
    /\ UNCHANGED <<clock, proc, leaseOf, tick, delivered>>

\* Mutant of Delete: the row is marked and keeps its lease columns.
DeleteMarks(r) ==
    /\ \E p \in Process : proc[p] = "up"
    /\ row[r].state \in {"enabled", "disabled"}
    /\ row' = [row EXCEPT ![r].state = "deleted"]
    /\ UNCHANGED <<clock, proc, leaseOf, tick, delivered>>

Delete(r) ==
    /\ \E p \in Process : proc[p] = "up"
    /\ row[r].state \in {"enabled", "disabled"}
    /\ row' = [row EXCEPT ![r] = Empty("deleted")]
    /\ UNCHANGED <<clock, proc, leaseOf, tick, delivered>>

-----------------------------------------------------------------------------
(* A tick of the polling loop.                                             *)

\* Mutants of Due: the lease left out of the WHERE clause; a lease never given
\* up.
DueIgnoresLease(r, t) == row[r].state = "enabled" /\ row[r].next <= t
DueOnceLeased(r, t) == row[r].state = "enabled" /\ row[r].next <= t /\ row[r].lease = NoLease

\* The WHERE clause of the select and of the update, at the tick's time.
Due(r, t) ==
    /\ row[r].state = "enabled"
    /\ row[r].next <= t
    /\ row[r].lease # NoLease => row[r].until < t

\* ORDER BY next_run_at ASC LIMIT n: no due row left out is older than one taken.
OldestDue(t, S) ==
    LET due == {r \in Reminder : Due(r, t)}
    IN /\ S \subseteq due
       /\ S = due \/ Cardinality(S) = ClaimLimit
       /\ Cardinality(S) <= ClaimLimit
       /\ \A r \in S, q \in due \ S : row[r].next <= row[q].next

\* What the select scans of a row: a copy of it.
Copy(r) == [id |-> r, next |-> row[r].next, fails |-> row[r].fails]

Tick(p) ==
    /\ proc[p] = "up"
    /\ tick[p].at = "idle"
    /\ tick' = [tick EXCEPT ![p] = [Idle EXCEPT !.at = "claim", !.now = clock]]
    /\ UNCHANGED <<clock, row, proc, leaseOf, delivered>>

\* The select and the updates are one transaction.  It uses the time the tick
\* started at, older than the clock by what it waited for the database.
Claim(p) ==
    /\ proc[p] = "up"
    /\ tick[p].at = "claim"
    /\ \E S \in SUBSET Reminder :
         /\ OldestDue(tick[p].now, S)
         /\ row' = [r \in Reminder |->
                      IF r \in S THEN [row[r] EXCEPT !.until = tick[p].now + LeaseTime,
                                                     !.lease = leaseOf[p]]
                                 ELSE row[r]]
         /\ tick' = [tick EXCEPT ![p] =
                      IF S = {} THEN Idle
                      ELSE [@ EXCEPT !.at = "run",
                                     !.todo = {Copy(r) : r \in S}]]
    /\ UNCHANGED <<clock, proc, leaseOf, delivered>>

\* The transaction fails: a busy database, or a context already cancelled.
ClaimFails(p) ==
    /\ proc[p] # "down"
    /\ tick[p].at = "claim"
    /\ tick' = [tick EXCEPT ![p] = Idle]
    /\ UNCHANGED <<clock, row, proc, leaseOf, delivered>>

\* tick runs the claimed rows one after another, oldest next_run_at first.
FirstOf(p, c) ==
    /\ proc[p] # "down"
    /\ tick[p].at = "run"
    /\ c \in tick[p].todo
    /\ \A q \in tick[p].todo : c.next <= q.next

Ran(p, c, at) ==
    /\ tick' = [tick EXCEPT ![p] = [@ EXCEPT !.at = at, !.current = c]]
    /\ UNCHANGED <<clock, row, proc, leaseOf>>

\* ParseSchedule fails: nothing is sent.
RunInvalid(p, c) ==
    /\ FirstOf(p, c)
    /\ c.id \in BadSchedule
    /\ Ran(p, c, "invalid")
    /\ UNCHANGED delivered

\* The message reaches Discord; the call may still report an error (a lost
\* answer).  A direct message needs the settings table first, which a
\* cancelled context makes fail: a stopping process delivers to channels only.
RunDelivers(p, c) ==
    /\ FirstOf(p, c)
    /\ proc[p] = "up" \/ c.id \in ByChannel
    /\ c.id \notin BadSchedule
    /\ \E at \in {"sent", "failed"} : Ran(p, c, at)
    /\ delivered' = [delivered EXCEPT ![c.id] = @ \cup {tick[p].now}]

\* The message does not reach Discord and the send reports the error.
RunFails(p, c) ==
    /\ FirstOf(p, c)
    /\ c.id \notin BadSchedule
    /\ Ran(p, c, "failed")
    /\ UNCHANGED delivered

Run(p) == \E c \in tick[p].todo : RunInvalid(p, c) \/ RunDelivers(p, c) \/ RunFails(p, c)

\* The failure count and the row runOne passes to FinishReminderRun.
Failures(p) == IF tick[p].at = "sent" THEN 0 ELSE tick[p].current.fails + 1

Recorded(p, d) ==
    LET off == tick[p].at = "invalid" \/ Failures(p) >= MaxFailures
    IN [state |-> IF off THEN "disabled" ELSE "enabled",
        next  |-> tick[p].now + (IF off THEN Parked ELSE d),
        fails |-> Failures(p), until |-> 0, lease |-> NoLease]

Finishing(p) == tick[p].at \in {"sent", "failed", "invalid"}

\* Mutant of NextRow: the row just run stays in the list.
NextRowAgain(p) == tick' = [tick EXCEPT ![p] = [@ EXCEPT !.at = "run", !.current = NoRun]]

\* The loop goes to the next claimed row, or tick returns.
NextRow(p) ==
    LET rest == tick[p].todo \ {tick[p].current}
    IN tick' = [tick EXCEPT ![p] =
                  IF rest = {} THEN Idle
                  ELSE [@ EXCEPT !.at = "run", !.todo = rest, !.current = NoRun]]

\* Mutant of Finish: WHERE id = ? alone.
FinishAnyLease(p) ==
    /\ proc[p] = "up"
    /\ Finishing(p)
    /\ LET r == tick[p].current.id
       IN /\ \E d \in Interval : row' = [row EXCEPT ![r] = Recorded(p, d)]
          /\ delivered' = [delivered EXCEPT ![r] = {}]
    /\ NextRow(p)
    /\ UNCHANGED <<clock, proc, leaseOf>>

\* WHERE id = ? AND lease_id = ?: when the lease went to another run, or the row
\* was deleted, no row matches and runOne drops the error.
Finish(p) ==
    /\ proc[p] = "up"
    /\ Finishing(p)
    /\ LET r == tick[p].current.id
       IN \/ /\ row[r].lease = leaseOf[p]
             /\ \E d \in Interval : row' = [row EXCEPT ![r] = Recorded(p, d)]
             /\ delivered' = [delivered EXCEPT ![r] = {}]
          \/ /\ row[r].lease # leaseOf[p]
             /\ UNCHANGED <<row, delivered>>
    /\ NextRow(p)
    /\ UNCHANGED <<clock, proc, leaseOf>>

\* The update fails (a busy database, a cancelled context): the error is
\* dropped as well, and the row keeps its lease.
FinishLost(p) ==
    /\ proc[p] # "down"
    /\ Finishing(p)
    /\ NextRow(p)
    /\ UNCHANGED <<clock, row, proc, leaseOf, delivered>>

-----------------------------------------------------------------------------
(* Processes and time.                                                     *)

\* A lease id is fresh when no process holds it and no row carries it.
Start(p) ==
    /\ proc[p] = "down"
    /\ \E l \in LeaseId :
         /\ \A q \in Process : leaseOf[q] # l
         /\ \A r \in Reminder : row[r].lease # l
         /\ leaseOf' = [leaseOf EXCEPT ![p] = l]
    /\ proc' = [proc EXCEPT ![p] = "up"]
    /\ UNCHANGED <<clock, row, tick, delivered>>

\* Shutdown cancels the context; the goroutine goes on with the rows it claimed.
Stop(p) ==
    /\ proc[p] = "up"
    /\ proc' = [proc EXCEPT ![p] = "stopping"]
    /\ UNCHANGED <<clock, row, leaseOf, tick, delivered>>

\* The process ends, in order or not, wherever its scheduler is.
Exit(p) ==
    /\ proc[p] # "down"
    /\ proc' = [proc EXCEPT ![p] = "down"]
    /\ leaseOf' = [leaseOf EXCEPT ![p] = NoLease]
    /\ tick' = [tick EXCEPT ![p] = Idle]
    /\ UNCHANGED <<clock, row, delivered>>

Pass ==
    /\ clock < MaxClock
    /\ clock' = clock + 1
    /\ UNCHANGED <<row, proc, leaseOf, tick, delivered>>

Next ==
    \/ \E r \in Reminder : Create(r) \/ Delete(r)
    \/ \E p \in Process :
         \/ Tick(p) \/ Claim(p) \/ ClaimFails(p)
         \/ Run(p) \/ Finish(p) \/ FinishLost(p)
         \/ Start(p) \/ Stop(p) \/ Exit(p)
    \/ Pass

Spec == Init /\ [][Next]_vars

-----------------------------------------------------------------------------
(* Properties.                                                             *)

Holds(p, r) == row[r].lease = leaseOf[p] /\ leaseOf[p] # NoLease

\* While a run is within its lease time nobody else can have taken its row:
\* until the clock passes the tick's time plus the lease, a claimed row still
\* carries the claiming process's lease, or its user deleted it.  (The tick's
\* time is read before the claim's transaction, lines 67-74 of reminders.go.)
HeldWithinLease ==
    \A p \in Process : \A c \in tick[p].todo :
        clock <= tick[p].now + LeaseTime =>
            Holds(p, c.id) \/ row[c.id].state = "deleted"

\* Two processes have the same row in hand only if their ticks are more than a
\* lease apart: a row is never run twice at once by processes that keep to it.
RunsApart ==
    \A p, q \in Process : \A c \in tick[p].todo, e \in tick[q].todo :
        p # q /\ c.id = e.id =>
            \/ tick[p].now + LeaseTime < tick[q].now
            \/ tick[q].now + LeaseTime < tick[p].now

\* runOne computes the new failure count and decides about disabling from the
\* copy the claim read.  Whenever FinishReminderRun can still match, that copy
\* agrees with the row: no recorded failure is overwritten by a stale count.
CopyIsCurrent ==
    \A p \in Process : \A c \in tick[p].todo :
        Holds(p, c.id) =>
            /\ row[c.id].state = "enabled"
            /\ row[c.id].next = c.next
            /\ row[c.id].fails = c.fails

\* What the lease of ClaimDueReminders is for, however late runs, crashes and
\* deletions fall: no two runs of a row within it, none from a stale copy.
LeasesHold == RunsApart /\ CopyIsCurrent

\* A row nobody holds has its next run more than a lease after every tick that
\* delivered its message since the last recorded run: what a process that
\* outlived its lease still sends belongs to an occurrence already recorded.
SettledBeforeNext ==
    \A r \in Reminder : row[r].state = "enabled" /\ row[r].lease = NoLease =>
        \A t \in delivered[r] : t + LeaseTime < row[r].next

\* The message of one occurrence goes out again, with no run recorded since,
\* only from a tick more than a lease away from every tick that delivered it.
RedeliveryApart ==
    [][\A r \in Reminder : \A t \in delivered'[r] \ delivered[r] : \A u \in delivered[r] :
          u + LeaseTime < t \/ t + LeaseTime < u]_vars

\* A row that reached three failures or lost its schedule is never sent to
\* work again: no late run of another process re-enables or leases it.
DisabledStays ==
    [][\A r \in Reminder : row[r].state = "disabled" =>
          row'[r].state \in {"disabled", "deleted"} /\ row'[r].lease = NoLease]_vars

\* What a run that outlived its lease may not do: deliver an occurrence again
\* while another tick's lease lasts, or bring back a disabled row.
LateRunsHarmless == RedeliveryApart /\ DisabledStays

\* A due row is unclaimed: nothing but a tick is missing for it to be run.
Claimable(r) ==
    /\ row[r].state = "enabled" /\ row[r].next <= clock
    /\ row[r].lease = NoLease \/ row[r].until < clock

Working(p) == Tick(p) \/ Run(p) \/ Finish(p)

\* The scheduler goroutine goes on while its process is up; SF on Claim says
\* that the database does not refuse a process's claims forever.
Fairness ==
    /\ WF_vars(Pass)
    /\ \A p \in Process : WF_vars(Working(p)) /\ SF_vars(Claim(p))

LiveSpec == Spec /\ Fairness

\* If one process stays up, a row that is due is claimed, however many
\* processes died with the row in hand (or the user deletes it).
DueIsClaimed ==
    (\E p \in Process : <>[](proc[p] = "up")) =>
        \A r \in Reminder : Claimable(r) ~> ~Claimable(r)

\* If a process stays up, every row it claimed leaves its hands.
ClaimedIsRun ==
    \A p \in Process : <>[](proc[p] = "up") =>
        \A r \in Reminder :
            (\E c \in tick[p].todo : c.id = r) ~> (\A c \in tick[p].todo : c.id # r)

\* The runs in hand, each known by the time of the tick that claimed it.
InHand(r) == {tick[p].now : p \in {q \in Process : \E c \in tick[q].todo : c.id = r}}

Promise == INSTANCE ReminderRuns
             WITH state <- [r \in Reminder |-> row[r].state],
                  next  <- [r \in Reminder |-> row[r].next],
                  runs  <- [r \in Reminder |-> InHand(r)],
                  told  <- delivered

\* The leased table with its crashing, overrunning and restarting processes
\* implements the scheduler's promise (ReminderRuns).
KeepsPromise == Promise!Spec

=============================================================================
