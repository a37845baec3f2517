-------------------------- MODULE RemindersProofs --------------------------
(***************************************************************************)
(* Theorems about Reminders for every set of processes, rows and lease     *)
(* ids, every lease time, claim limit and schedule.                        *)
(*                                                                         *)
(* The lease only speaks of the row; what has to be known is where a run   *)
(* that lost its lease stands.  InHandOK says it: its row has since been   *)
(* claimed by a tick more than a lease later (and says so in lease_until   *)
(* or, once that tick is recorded, in next_run_at), disabled or deleted.   *)
(***************************************************************************)
EXTENDS Reminders, TLAPS

\* Every live scheduler has a lease id of its own, a dead one has no tick.
ProcessOK ==
    /\ \A p \in Process :
         /\ proc[p] = "down" => tick[p] = Idle /\ leaseOf[p] = NoLease
         /\ proc[p] # "down" => leaseOf[p] \in LeaseId
    /\ \A p, q \in Process : leaseOf[p] = leaseOf[q] /\ leaseOf[p] # NoLease => p = q

TickOK ==
    \A p \in Process :
        /\ tick[p].now <= clock
        /\ tick[p].at \in {"idle", "claim"} => tick[p].todo = {}
        /\ Finishing(p) => tick[p].current \in tick[p].todo
        /\ \A c, e \in tick[p].todo : c.id = e.id => c = e

LeaseOK ==
    \A r \in Reminder : row[r].lease # NoLease => row[r].state = "enabled"

\* The run of c by p still holds its row, as the claim read it ...
Held(p, c) ==
    /\ row[c.id].lease = leaseOf[p]
    /\ row[c.id].state = "enabled"
    /\ row[c.id].until = tick[p].now + LeaseTime
    /\ row[c.id].next = c.next
    /\ row[c.id].fails = c.fails

\* ... or has lost it to a later tick, and its lease time is over.
Lost(p, c) ==
    /\ row[c.id].lease # leaseOf[p]
    /\ clock > tick[p].now + LeaseTime
    /\ \/ row[c.id].state = "disabled"
       \/ /\ row[c.id].state = "enabled"
          /\ row[c.id].lease # NoLease => row[c.id].until > tick[p].now + LeaseTime + LeaseTime
          /\ row[c.id].lease = NoLease => row[c.id].next > tick[p].now + LeaseTime

InHandOK ==
    \A p \in Process : \A c \in tick[p].todo :
        row[c.id].state = "deleted" \/ Held(p, c) \/ Lost(p, c)

\* Deliveries since the last record lie before the lease or the next run.
DeliveredOK ==
    \A r \in Reminder :
        /\ row[r].state = "unborn" => delivered[r] = {}
        /\ row[r].state = "enabled" => \A t \in delivered[r] :
             /\ row[r].lease # NoLease => t + LeaseTime <= row[r].until
             /\ row[r].lease = NoLease => t + LeaseTime < row[r].next

\* A run in hand made a delivery itself or is a lease apart from it.
DeliveredApart ==
    \A p \in Process : \A c \in tick[p].todo : \A t \in delivered[c.id] :
        \/ t + LeaseTime < tick[p].now
        \/ tick[p].now + LeaseTime < t
        \/ t = tick[p].now

IInv == /\ TypeOK /\ ProcessOK /\ TickOK /\ LeaseOK
        /\ InHandOK /\ RunsApart /\ DeliveredOK /\ DeliveredApart

-----------------------------------------------------------------------------
(* Typing.                                                                 *)

\* A claim writes well-typed rows and hands out well-typed copies.
LEMMA ClaimType ==
  ASSUME TypeOK, NEW p \in Process, Claim(p)
  PROVE  TypeOK'
<1>1. PICK S \in SUBSET Reminder :
         /\ row' = [r \in Reminder |->
                      IF r \in S THEN [row[r] EXCEPT !.until = tick[p].now + LeaseTime,
                                                     !.lease = leaseOf[p]]
                                 ELSE row[r]]
         /\ tick' = [tick EXCEPT ![p] =
                      IF S = {} THEN Idle
                      ELSE [@ EXCEPT !.at = "run", !.todo = {Copy(r) : r \in S}]]
  BY DEF Claim
<1>2. row' \in [Reminder -> Row]
  <2>1. tick[p].now + LeaseTime \in Nat
    BY ReminderAssumption DEF TypeOK, TickState
  <2>2. ASSUME NEW r \in Reminder
        PROVE  /\ row[r] \in Row
               /\ [row[r] EXCEPT !.until = tick[p].now + LeaseTime, !.lease = leaseOf[p]] \in Row
    BY <2>1 DEF TypeOK, Row
  <2>3. QED
    BY <1>1, <2>2
<1>3. {Copy(r) : r \in S} \in SUBSET Claimed
  BY DEF TypeOK, Row, Claimed, Copy
<1>4. tick' \in [Process -> TickState]
  BY ZenonT(40), <1>1, <1>3 DEF TypeOK, TickState, Idle, NoRun
<1>5. QED
  BY <1>2, <1>4 DEF TypeOK, Claim

\* So does recording a run; taking the next row keeps the tick's type.
LEMMA NextRowType ==
  ASSUME TypeOK, NEW p \in Process, NextRow(p)
  PROVE  tick' \in [Process -> TickState]
BY ZenonT(40) DEF TypeOK, NextRow, TickState, Idle, NoRun

\* Recorded is a row.
LEMMA RecordedType ==
  ASSUME TypeOK, NEW p \in Process, NEW d \in Interval, tick[p].current \in Claimed
  PROVE  Recorded(p, d) \in Row
<1>1. tick[p].now \in Nat /\ tick[p].current.fails \in Nat
  BY DEF TypeOK, TickState, Claimed
<1>2. Failures(p) \in Nat
  BY <1>1 DEF Failures
<1>3. QED
  BY <1>1, <1>2, ReminderAssumption DEF Recorded, Row

\* FinishReminderRun keeps the types, whichever outcome it records.
LEMMA FinishType ==
  ASSUME TypeOK, TickOK, NEW p \in Process, Finish(p)
  PROVE  TypeOK'
<1>1. tick[p].current \in Claimed
  BY DEF Finish, TickOK, TypeOK, TickState
<1>2. tick' \in [Process -> TickState]
  BY NextRowType DEF Finish
<1>3. row' \in [Reminder -> Row] /\ delivered' \in [Reminder -> SUBSET Nat]
  <2>1. ASSUME NEW d \in Interval, NEW r \in Reminder
        PROVE  [row EXCEPT ![r] = Recorded(p, d)] \in [Reminder -> Row]
    BY <1>1, RecordedType DEF TypeOK
  <2>2. tick[p].current.id \in Reminder
    BY <1>1 DEF Claimed
  <2>3. QED
    BY <2>1, <2>2 DEF TypeOK, Finish
<1>4. QED
  BY <1>2, <1>3 DEF TypeOK, Finish

\* So does sending a row's message, or failing to.
LEMMA RunType ==
  ASSUME TypeOK, NEW p \in Process, Run(p)
  PROVE  TypeOK'
<1>1. PICK c \in tick[p].todo : RunInvalid(p, c) \/ RunDelivers(p, c) \/ RunFails(p, c)
  BY DEF Run
<1>2. PICK at \in {"sent", "failed", "invalid"} : Ran(p, c, at)
  BY <1>1 DEF RunInvalid, RunDelivers, RunFails
<1>3. c \in Claimed
  BY DEF TypeOK, TickState
<1>4. tick' \in [Process -> TickState]
  BY ZenonT(40), <1>2, <1>3 DEF TypeOK, TickState, Ran
<1>5. delivered' \in [Reminder -> SUBSET Nat]
  BY <1>1, <1>3 DEF TypeOK, TickState, Claimed, RunInvalid, RunDelivers, RunFails
<1>6. QED
  BY <1>2, <1>4, <1>5 DEF TypeOK, Ran

\* Every step keeps the types.
LEMMA NextType ==
  ASSUME TypeOK, TickOK, [Next]_vars
  PROVE  TypeOK'
<1>1. ASSUME NEW s \in {"unborn", "enabled", "deleted"}
      PROVE  Empty(s) \in Row
  BY DEF Empty, Row
<1>2. ASSUME NEW r \in Reminder, Create(r)
      PROVE  TypeOK'
  <2>1. PICK d \in Interval : row' = [row EXCEPT ![r] = [Empty("enabled") EXCEPT !.next = clock + d]]
    BY <1>2 DEF Create
  <2>2. clock + d \in Nat
    BY ReminderAssumption DEF TypeOK
  <2>3. [Empty("enabled") EXCEPT !.next = clock + d] \in Row
    BY <2>2 DEF Empty, Row
  <2>4. QED
    BY <1>2, <2>1, <2>3 DEF TypeOK, Create
<1>3. ASSUME NEW r \in Reminder, Delete(r)
      PROVE  TypeOK'
  BY <1>1, <1>3 DEF TypeOK, Delete
<1>4. ASSUME NEW p \in Process, Tick(p)
      PROVE  TypeOK'
  <2>1. tick' \in [Process -> TickState]
    BY <1>4 DEF Tick, TypeOK, TickState, Idle, NoRun
  <2>2. QED
    BY <1>4, <2>1 DEF Tick, TypeOK
<1>5. ASSUME NEW p \in Process, ClaimFails(p) \/ Exit(p)
      PROVE  TypeOK'
  <2>1. Idle \in TickState
    BY DEF Idle, TickState, NoRun
  <2>2. QED
    BY <1>5, <2>1 DEF TypeOK, ClaimFails, Exit
<1>6. ASSUME NEW p \in Process, FinishLost(p)
      PROVE  TypeOK'
  BY <1>6, NextRowType DEF TypeOK, FinishLost
<1>7. ASSUME NEW p \in Process, Start(p) \/ Stop(p)
      PROVE  TypeOK'
  BY <1>7 DEF TypeOK, Start, Stop
<1>8. ASSUME Pass
      PROVE  TypeOK'
  BY <1>8 DEF TypeOK, Pass
<1>9. ASSUME UNCHANGED vars
      PROVE  TypeOK'
  BY <1>9 DEF TypeOK, vars
<1>10. QED
  BY <1>2, <1>3, <1>4, <1>5, <1>6, <1>7, <1>8, <1>9, ClaimType, FinishType, RunType DEF Next

-----------------------------------------------------------------------------
(* The invariant, action by action.                                        *)

\* CreateReminder keeps the invariant: no run of the new row is in hand.
LEMMA CreateInv ==
  ASSUME IInv, NEW r \in Reminder, Create(r)
  PROVE  IInv'
<1> USE DEF IInv
<1>1. PICK d \in Interval : row' = [row EXCEPT ![r] = [Empty("enabled") EXCEPT !.next = clock + d]]
  BY DEF Create
<1>2. /\ row'[r].state = "enabled" /\ row'[r].lease = NoLease
      /\ \A q \in Reminder \ {r} : row'[q] = row[q]
      /\ row[r].state = "unborn"
      /\ UNCHANGED <<clock, proc, leaseOf, tick, delivered>>
  BY <1>1 DEF Create, Empty, TypeOK
<1>3. TypeOK'
  BY NextType DEF Next
<1>4. ProcessOK' /\ TickOK' /\ LeaseOK' /\ RunsApart' /\ DeliveredApart'
  BY <1>2 DEF ProcessOK, TickOK, LeaseOK, RunsApart, DeliveredApart, Finishing, TypeOK
<1>5. InHandOK'
  <2>1. ASSUME NEW p \in Process, NEW c \in tick[p].todo
        PROVE  c.id \in Reminder \ {r}
    BY <1>2, <2>1 DEF InHandOK, Held, Lost, TypeOK, TickState, Claimed
  <2>2. QED
    BY <1>2, <2>1 DEF InHandOK, Held, Lost
<1>6. DeliveredOK'
  BY <1>2 DEF DeliveredOK
<1>7. QED
  BY <1>3, <1>4, <1>5, <1>6

\* DeleteReminder keeps it: the runs of a deleted row are beyond reach.
LEMMA DeleteInv ==
  ASSUME IInv, NEW r \in Reminder, Delete(r)
  PROVE  IInv'
<1> USE DEF IInv
<1>1. /\ row'[r].state = "deleted" /\ row'[r].lease = NoLease
      /\ \A q \in Reminder \ {r} : row'[q] = row[q]
      /\ UNCHANGED <<clock, proc, leaseOf, tick, delivered>>
  BY DEF Delete, Empty, TypeOK
<1>2. TypeOK'
  BY NextType DEF Next
<1>3. ProcessOK' /\ TickOK' /\ LeaseOK' /\ RunsApart' /\ DeliveredApart' /\ DeliveredOK'
  BY <1>1 DEF ProcessOK, TickOK, LeaseOK, RunsApart, DeliveredApart, DeliveredOK, Finishing, TypeOK
<1>4. InHandOK'
  <2>1. ASSUME NEW p \in Process, NEW c \in tick[p].todo
        PROVE  c.id \in Reminder
    BY DEF TypeOK, TickState, Claimed
  <2>2. QED
    BY <1>1, <2>1 DEF InHandOK, Held, Lost
<1>5. QED
  BY <1>2, <1>3, <1>4

\* A tick that begins keeps it: it has no row in hand yet.
LEMMA TickInv ==
  ASSUME IInv, NEW p \in Process, Tick(p)
  PROVE  IInv'
<1> USE DEF IInv
<1>1. /\ tick'[p].at = "claim" /\ tick'[p].todo = {} /\ tick'[p].now = clock
      /\ \A q \in Process \ {p} : tick'[q] = tick[q]
      /\ proc[p] = "up"
      /\ UNCHANGED <<clock, row, proc, leaseOf, delivered>>
  BY DEF Tick, TypeOK, Idle
<1>2. TypeOK'
  BY NextType DEF Next
<1>3. ProcessOK' /\ LeaseOK' /\ RunsApart' /\ DeliveredApart' /\ DeliveredOK'
  BY <1>1 DEF ProcessOK, LeaseOK, RunsApart, DeliveredApart, DeliveredOK
<1>4. TickOK'
  BY <1>1 DEF TickOK, Finishing, TypeOK
<1>5. InHandOK'
  BY <1>1 DEF InHandOK, Held, Lost
<1>6. QED
  BY <1>2, <1>3, <1>4, <1>5

\* A tick that ends, with its rows, leaves the other runs as they were.
LEMMA EndedInv ==
  ASSUME IInv, NEW p \in Process, ClaimFails(p) \/ Exit(p)
  PROVE  IInv'
<1> USE DEF IInv
<1>1. /\ tick'[p] = Idle
      /\ \A q \in Process \ {p} : tick'[q] = tick[q] /\ leaseOf'[q] = leaseOf[q] /\ proc'[q] = proc[q]
      /\ \/ proc'[p] = proc[p] /\ leaseOf'[p] = leaseOf[p] /\ proc[p] # "down"
         \/ proc'[p] = "down" /\ leaseOf'[p] = NoLease
      /\ UNCHANGED <<clock, row, delivered>>
  BY DEF ClaimFails, Exit, TypeOK
<1>2. TypeOK'
  BY NextType DEF Next
<1>3. ProcessOK'
  BY <1>1 DEF ProcessOK
<1>4. Idle.todo = {} /\ Idle.at = "idle" /\ Idle.now = 0
  BY DEF Idle
<1>5. LeaseOK' /\ RunsApart' /\ DeliveredApart' /\ DeliveredOK'
  BY <1>1, <1>4 DEF LeaseOK, RunsApart, DeliveredApart, DeliveredOK
<1>6. TickOK'
  BY <1>1, <1>4 DEF TickOK, Finishing, TypeOK
<1>7. InHandOK'
  BY <1>1, <1>4 DEF InHandOK, Held, Lost
<1>8. QED
  BY <1>2, <1>3, <1>5, <1>6, <1>7

\* A run of a row that somebody claims now, at time t, began more than a lease
\* before t: the claim needs a row that is enabled, due, and whose lease is out.
LEMMA ClaimIsLater ==
  ASSUME IInv, NEW p \in Process, NEW c \in tick[p].todo, NEW t \in Nat, Due(c.id, t)
  PROVE  tick[p].now + LeaseTime < t
<1>1. /\ c.id \in Reminder /\ tick[p].now \in Nat /\ LeaseTime \in Nat
      /\ row[c.id].until \in Nat /\ row[c.id].next \in Nat
      /\ leaseOf[p] \in LeaseId /\ NoLease \notin LeaseId
  BY ReminderAssumption DEF IInv, TypeOK, TickState, Claimed, Row, ProcessOK, Idle
<1>2. CASE Held(p, c)
  BY <1>1, <1>2 DEF Held, Due
<1>3. CASE Lost(p, c)
  BY <1>1, <1>3 DEF Lost, Due
<1>4. QED
  BY <1>2, <1>3 DEF IInv, InHandOK, Due

\* So did the run of every tick that has delivered it.
LEMMA DeliveryIsEarlier ==
  ASSUME IInv, NEW r \in Reminder, NEW t \in Nat, Due(r, t), NEW u \in delivered[r]
  PROVE  u + LeaseTime < t
<1>1. /\ u \in Nat /\ LeaseTime \in Nat
      /\ row[r].until \in Nat /\ row[r].next \in Nat
  BY ReminderAssumption DEF IInv, TypeOK, Row
<1>2. QED
  BY <1>1 DEF IInv, DeliveredOK, Due

\* ClaimDueReminders keeps it: the runs it takes rows from are Lost.
LEMMA ClaimInv ==
  ASSUME IInv, NEW p \in Process, Claim(p)
  PROVE  IInv'
<1> USE DEF IInv
<1>1. PICK S \in SUBSET Reminder :
         /\ OldestDue(tick[p].now, S)
         /\ row' = [r \in Reminder |->
                      IF r \in S THEN [row[r] EXCEPT !.until = tick[p].now + LeaseTime,
                                                     !.lease = leaseOf[p]]
                                 ELSE row[r]]
         /\ tick' = [tick EXCEPT ![p] =
                      IF S = {} THEN Idle
                      ELSE [@ EXCEPT !.at = "run", !.todo = {Copy(r) : r \in S}]]
  BY DEF Claim
<1> DEFINE t == tick[p].now
<1>2. /\ t \in Nat /\ LeaseTime \in Nat /\ clock \in Nat /\ t <= clock
      /\ leaseOf[p] \in LeaseId /\ leaseOf[p] # NoLease
      /\ tick[p].todo = {} /\ proc[p] = "up"
      /\ UNCHANGED <<clock, proc, leaseOf, delivered>>
  BY ReminderAssumption DEF Claim, TypeOK, TickState, ProcessOK, TickOK
<1>3. \A r \in S : Due(r, t)
  BY <1>1 DEF OldestDue
<1>4. \A r \in S : /\ row'[r].state = "enabled" /\ row'[r].lease = leaseOf[p]
                   /\ row'[r].until = t + LeaseTime
                   /\ row'[r].next = row[r].next /\ row'[r].fails = row[r].fails
  BY <1>1, <1>3 DEF TypeOK, Row, Due
<1>5. \A r \in Reminder \ S : row'[r] = row[r]
  BY <1>1
<1>6. \A q \in Process \ {p} : tick'[q] = tick[q]
  BY <1>1 DEF TypeOK
<1>7. /\ tick'[p].todo = {Copy(r) : r \in S}
      /\ S = {} => tick'[p] = Idle
      /\ S # {} => tick'[p].now = t /\ tick'[p].at = "run"
  BY <1>1 DEF TypeOK, TickState, Idle
<1>8. \A r \in S : Copy(r).id = r /\ Copy(r).next = row[r].next /\ Copy(r).fails = row[r].fails
  BY DEF Copy
<1>9. TypeOK'
  BY NextType DEF Next
<1>10. ProcessOK'
  BY <1>2, <1>6 DEF ProcessOK
<1>11. TickOK'
  <2>1. tick'[p].now <= clock'
    BY <1>2, <1>7 DEF Idle
  <2>2. \A c, e \in tick'[p].todo : c.id = e.id => c = e
    BY <1>7, <1>8
  <2>3. ~Finishing(p)' /\ (tick'[p].at \in {"idle", "claim"} => tick'[p].todo = {})
    BY <1>7 DEF Finishing, Idle
  <2>4. QED
    BY <1>2, <1>6, <2>1, <2>2, <2>3 DEF TickOK, Finishing
<1>12. LeaseOK'
  BY <1>4, <1>5 DEF LeaseOK
<1>13. ASSUME NEW q \in Process \ {p}, NEW c \in tick[q].todo
       PROVE  /\ c.id \in Reminder
              /\ c.id \in S => tick[q].now + LeaseTime < t
              /\ leaseOf[q] # leaseOf[p] /\ tick[q].now \in Nat
  BY <1>2, <1>3, ClaimIsLater DEF TypeOK, TickState, Claimed, ProcessOK
<1>14. InHandOK'
  <2>1. ASSUME NEW c \in tick'[p].todo
        PROVE  Held(p, c)'
    BY <1>2, <1>4, <1>7, <1>8, <2>1 DEF Held
  <2>2. ASSUME NEW q \in Process \ {p}, NEW c \in tick[q].todo, c.id \in S
        PROVE  Lost(q, c)'
    BY <1>2, <1>4, <1>6, <1>13, <2>2 DEF Lost
  <2>3. ASSUME NEW q \in Process \ {p}, NEW c \in tick[q].todo, c.id \notin S
        PROVE  row'[c.id].state = "deleted" \/ Held(q, c)' \/ Lost(q, c)'
    BY <1>2, <1>5, <1>6, <1>13, <2>3 DEF InHandOK, Held, Lost
  <2>4. QED
    BY <1>6, <2>1, <2>2, <2>3 DEF InHandOK
<1>15. RunsApart'
  <2>1. ASSUME NEW q \in Process \ {p}, NEW c \in tick'[p].todo, NEW e \in tick[q].todo, c.id = e.id
        PROVE  tick[q].now + LeaseTime < t /\ tick'[p].now = t
    BY <1>7, <1>8, <1>13, <2>1
  <2>2. QED
    BY <1>6, <2>1 DEF RunsApart
<1>16. DeliveredOK'
  <2>1. ASSUME NEW r \in S, NEW u \in delivered[r]
        PROVE  u + LeaseTime <= t + LeaseTime
    <3>1. u + LeaseTime < t /\ u \in Nat
      BY <1>2, <1>3, DeliveryIsEarlier DEF TypeOK
    <3>2. QED
      BY <1>2, <3>1
  <2>2. QED
    BY <1>2, <1>4, <1>5, <2>1 DEF DeliveredOK
<1>17. DeliveredApart'
  <2>1. ASSUME NEW c \in tick'[p].todo, NEW u \in delivered[c.id]
        PROVE  u + LeaseTime < t /\ tick'[p].now = t
    BY <1>2, <1>3, <1>7, <1>8, <2>1, DeliveryIsEarlier
  <2>2. QED
    BY <1>2, <1>6, <2>1 DEF DeliveredApart
<1>18. QED
  BY <1>9, <1>10, <1>11, <1>12, <1>14, <1>15, <1>16, <1>17

\* A run in hand delivers or fails; the row and the other runs are untouched.
LEMMA RunInv ==
  ASSUME IInv, NEW p \in Process, Run(p)
  PROVE  IInv'
<1> USE DEF IInv
<1>1. PICK c \in tick[p].todo : RunInvalid(p, c) \/ RunDelivers(p, c) \/ RunFails(p, c)
  BY DEF Run
<1> DEFINE t == tick[p].now
<1>2. /\ c \in Claimed /\ c.id \in Reminder /\ t \in Nat /\ LeaseTime \in Nat
      /\ proc[p] # "down" /\ leaseOf[p] \in LeaseId
  BY <1>1, ReminderAssumption
     DEF TypeOK, TickState, Claimed, ProcessOK, RunInvalid, RunDelivers, RunFails, FirstOf
<1>3. /\ tick'[p].todo = tick[p].todo /\ tick'[p].now = t /\ tick'[p].current = c
      /\ tick'[p].at \in {"sent", "failed", "invalid"}
      /\ \A q \in Process \ {p} : tick'[q] = tick[q]
      /\ UNCHANGED <<clock, row, proc, leaseOf>>
  <2>1. PICK at \in {"sent", "failed", "invalid"} : Ran(p, c, at)
    BY <1>1 DEF RunInvalid, RunDelivers, RunFails
  <2>2. tick[p] \in TickState /\ tick \in [Process -> TickState]
    BY DEF TypeOK
  <2>3. QED
    BY <2>1, <2>2 DEF Ran, TickState
<1>4. \A r \in Reminder : \A u \in delivered'[r] : u \in delivered[r] \/ (r = c.id /\ u = t)
  BY <1>1 DEF RunInvalid, RunDelivers, RunFails, TypeOK
<1>5. \A r \in Reminder \ {c.id} : delivered'[r] = delivered[r]
  BY <1>1 DEF RunInvalid, RunDelivers, RunFails, TypeOK
<1>6. TypeOK'
  BY NextType DEF Next
<1>7. ProcessOK' /\ LeaseOK'
  BY <1>2, <1>3 DEF ProcessOK, LeaseOK
<1>8. TickOK'
  BY <1>3 DEF TickOK, Finishing
<1>9. InHandOK'
  BY <1>3 DEF InHandOK, Held, Lost
<1>10. RunsApart'
  BY <1>3 DEF RunsApart
<1>11. DeliveredOK'
  <2>1. row[c.id].state # "unborn"
    BY <1>2 DEF InHandOK, Held, Lost
  <2>2. row[c.id].state = "enabled" =>
          /\ row[c.id].lease # NoLease => t + LeaseTime <= row[c.id].until
          /\ row[c.id].lease = NoLease => t + LeaseTime < row[c.id].next
    <3>1. CASE Held(p, c)
      BY <1>2, <3>1, ReminderAssumption DEF Held
    <3>2. CASE Lost(p, c)
      <4>1. row[c.id].until \in Nat
        BY <1>2 DEF TypeOK, Row
      <4>2. QED
        BY <1>2, <3>2, <4>1 DEF Lost
    <3>3. QED
      BY <3>1, <3>2 DEF InHandOK
  <2>3. QED
    BY <1>2, <1>3, <1>4, <1>5, <2>1, <2>2 DEF DeliveredOK
<1>12. DeliveredApart'
  <2>1. ASSUME NEW q \in Process, NEW e \in tick[q].todo, e.id = c.id
        PROVE  t + LeaseTime < tick[q].now \/ tick[q].now + LeaseTime < t \/ t = tick[q].now
    BY <2>1 DEF RunsApart
  <2>2. \A q \in Process : \A e \in tick[q].todo : e.id \in Reminder
    BY DEF TypeOK, TickState, Claimed
  <2>3. QED
    BY <1>3, <1>4, <2>1, <2>2 DEF DeliveredApart
<1>13. QED
  BY <1>6, <1>7, <1>8, <1>9, <1>10, <1>11, <1>12

\* Taking the next row drops one run and leaves the others as they were.
LEMMA NextRowFacts ==
  ASSUME IInv, NEW p \in Process, Finishing(p), NextRow(p)
  PROVE  /\ tick'[p].todo \subseteq tick[p].todo \ {tick[p].current}
         /\ tick'[p].todo # {} => tick'[p].now = tick[p].now
         /\ tick'[p].now <= tick[p].now
         /\ tick'[p].at \in {"idle", "run"} /\ (tick'[p].at = "idle" => tick'[p].todo = {})
         /\ tick'[p] = Idle \/ tick'[p].at = "run"
         /\ \A q \in Process \ {p} : tick'[q] = tick[q]
BY DEF IInv, TypeOK, TickState, NextRow, Idle

\* An update that fails drops the run and keeps the invariant.
LEMMA FinishLostInv ==
  ASSUME IInv, NEW p \in Process, FinishLost(p)
  PROVE  IInv'
<1> USE DEF IInv
<1>1. /\ tick'[p].todo \subseteq tick[p].todo
      /\ tick'[p].todo # {} => tick'[p].now = tick[p].now
      /\ tick'[p].now <= tick[p].now
      /\ tick'[p].at \in {"idle", "run"} /\ (tick'[p].at = "idle" => tick'[p].todo = {})
      /\ \A q \in Process \ {p} : tick'[q] = tick[q]
      /\ proc[p] # "down"
      /\ UNCHANGED <<clock, row, proc, leaseOf, delivered>>
  BY NextRowFacts DEF FinishLost
<1>2. TypeOK'
  BY NextType DEF Next
<1>3. ProcessOK' /\ LeaseOK' /\ DeliveredOK'
  BY <1>1 DEF ProcessOK, LeaseOK, DeliveredOK
<1>4. TickOK'
  <2>1. tick[p].now \in Nat /\ tick'[p].now \in Nat /\ clock \in Nat
    BY <1>2 DEF TypeOK, TickState
  <2>2. QED
    BY <1>1, <2>1 DEF TickOK, Finishing
<1>5. InHandOK' /\ RunsApart' /\ DeliveredApart'
  BY <1>1 DEF InHandOK, Held, Lost, RunsApart, DeliveredApart
<1>6. QED
  BY <1>2, <1>3, <1>4, <1>5

\* Of the runs in hand of one row, the one that holds it began last: the others
\* began more than a lease before it.
LEMMA HolderIsLast ==
  ASSUME IInv, NEW p \in Process, NEW c \in tick[p].todo, row[c.id].lease = leaseOf[p],
         NEW q \in Process \ {p}, NEW e \in tick[q].todo, e.id = c.id
  PROVE  /\ tick[q].now + LeaseTime < tick[p].now
         /\ row[e.id].state = "enabled"
         /\ row[e.id].lease # leaseOf[q]
<1>1. /\ c.id \in Reminder /\ tick[p].now \in Nat /\ tick[q].now \in Nat /\ LeaseTime \in Nat
      /\ leaseOf[p] \in LeaseId /\ leaseOf[p] # NoLease /\ leaseOf[q] # leaseOf[p]
  BY ReminderAssumption DEF IInv, TypeOK, TickState, Claimed, ProcessOK, Idle
<1>2. row[c.id].state = "enabled"
  BY <1>1 DEF IInv, LeaseOK
<1>3. Held(p, c)
  BY <1>2 DEF IInv, InHandOK, Lost
<1>4. Lost(q, e)
  BY <1>1, <1>2 DEF IInv, InHandOK, Held
<1>5. QED
  BY <1>1, <1>2, <1>3, <1>4 DEF Held, Lost

\* FinishReminderRun keeps it: only the newest run of a row is recorded.
LEMMA FinishInv ==
  ASSUME IInv, NEW p \in Process, Finish(p)
  PROVE  IInv'
<1> USE DEF IInv
<1> DEFINE c == tick[p].current
           r == tick[p].current.id
           t == tick[p].now
<1>1. /\ tick'[p].todo \subseteq tick[p].todo \ {c}
      /\ tick'[p].todo # {} => tick'[p].now = t
      /\ tick'[p].now <= t
      /\ tick'[p].at \in {"idle", "run"} /\ (tick'[p].at = "idle" => tick'[p].todo = {})
      /\ \A q \in Process \ {p} : tick'[q] = tick[q]
      /\ proc[p] = "up"
      /\ UNCHANGED <<clock, proc, leaseOf>>
  BY NextRowFacts DEF Finish
<1>2. TypeOK'
  BY NextType DEF Next
<1>3. /\ c \in tick[p].todo /\ c \in Claimed /\ r \in Reminder
      /\ t \in Nat /\ tick'[p].now \in Nat /\ clock \in Nat /\ LeaseTime \in Nat
      /\ leaseOf[p] \in LeaseId /\ leaseOf[p] # NoLease
  BY <1>1, <1>2, ReminderAssumption DEF Finish, TypeOK, TickOK, TickState, Claimed, ProcessOK
<1>4. ProcessOK'
  BY <1>1 DEF ProcessOK
<1>5. TickOK'
  BY <1>1, <1>3 DEF TickOK, Finishing
<1>6. RunsApart'
  BY <1>1 DEF RunsApart
<1>7. CASE row[r].lease # leaseOf[p]
  <2>1. row' = row /\ delivered' = delivered
    BY <1>7 DEF Finish
  <2>2. LeaseOK' /\ DeliveredOK' /\ InHandOK' /\ DeliveredApart'
    BY <1>1, <2>1 DEF LeaseOK, DeliveredOK, InHandOK, Held, Lost, DeliveredApart
  <2>3. QED
    BY <1>2, <1>4, <1>5, <1>6, <2>2
<1>8. CASE row[r].lease = leaseOf[p]
  <2>1. PICK d \in Interval : row' = [row EXCEPT ![r] = Recorded(p, d)]
    BY <1>8 DEF Finish
  <2>2. /\ row'[r].lease = NoLease /\ row'[r].state \in {"enabled", "disabled"}
        /\ row'[r].state = "enabled" => row'[r].next > t
        /\ \A q \in Reminder \ {r} : row'[q] = row[q]
    <3>1. d \in Nat \ {0}
      BY ReminderAssumption
    <3>2. QED
      BY <1>3, <2>1, <3>1 DEF Recorded, TypeOK
  <2>3. delivered' = [delivered EXCEPT ![r] = {}]
    BY <1>8 DEF Finish
  <2>4. ASSUME NEW q \in Process, NEW e \in tick'[q].todo, e.id = r
        PROVE  q # p /\ tick[q].now + LeaseTime < t /\ leaseOf[q] # NoLease
    <3>1. q # p
      BY <1>1, <1>3, <2>4 DEF TickOK
    <3>2. e \in tick[q].todo
      BY <1>1, <2>4, <3>1
    <3>3. leaseOf[q] # NoLease
      BY <3>2, ReminderAssumption DEF ProcessOK, Idle
    <3>4. QED
      BY <1>3, <1>8, <2>4, <3>1, <3>2, <3>3, HolderIsLast
  <2>5. LeaseOK'
    BY <2>2 DEF LeaseOK
  <2>6. DeliveredOK'
    BY <2>2, <2>3 DEF DeliveredOK, TypeOK
  <2>7. InHandOK'
    <3>1. ASSUME NEW q \in Process, NEW e \in tick'[q].todo, e.id = r
          PROVE  Lost(q, e)'
      <4>1. /\ tick[q].now \in Nat /\ row'[r].next \in Nat /\ tick'[q] = tick[q] /\ t <= clock
            /\ leaseOf'[q] = leaseOf[q]
        BY <1>1, <1>2, <1>3, <2>4, <3>1 DEF TypeOK, Row, TickState, TickOK
      <4>2. QED
        BY <1>1, <1>3, <2>2, <2>4, <3>1, <4>1 DEF Lost
    <3>2. ASSUME NEW q \in Process, NEW e \in tick'[q].todo, e.id # r
          PROVE  row'[e.id].state = "deleted" \/ Held(q, e)' \/ Lost(q, e)'
      <4>1. e \in tick[q].todo /\ e.id \in Reminder /\ tick'[q].now = tick[q].now
        BY <1>1, <1>2 DEF TypeOK, TickState, Claimed
      <4>2. row'[e.id] = row[e.id]
        BY <2>2, <3>2, <4>1
      <4>3. QED
        BY <1>1, <4>1, <4>2 DEF InHandOK, Held, Lost
    <3>3. QED
      BY <3>1, <3>2 DEF InHandOK
  <2>8. DeliveredApart'
    <3>1. \A q \in Process : \A e \in tick'[q].todo :
             e \in tick[q].todo /\ e.id \in Reminder /\ tick'[q].now = tick[q].now
      BY <1>1, <1>2 DEF TypeOK, TickState, Claimed
    <3>2. \A q \in Reminder : delivered'[q] \subseteq delivered[q]
      BY <2>3 DEF TypeOK
    <3>3. QED
      BY <3>1, <3>2 DEF DeliveredApart
  <2>9. QED
    BY <1>2, <1>4, <1>5, <1>6, <2>5, <2>6, <2>7, <2>8
<1>9. QED
  BY <1>7, <1>8

\* A fresh lease id is neither held by a process nor written on a row.
LEMMA StartInv ==
  ASSUME IInv, NEW p \in Process, Start(p)
  PROVE  IInv'
<1> USE DEF IInv
<1>1. PICK l \in LeaseId : /\ \A q \in Process : leaseOf[q] # l
                           /\ leaseOf' = [leaseOf EXCEPT ![p] = l]
  BY DEF Start
<1>2. /\ proc'[p] = "up" /\ proc[p] = "down"
      /\ \A q \in Process \ {p} : proc'[q] = proc[q] /\ leaseOf'[q] = leaseOf[q]
      /\ leaseOf'[p] = l
      /\ UNCHANGED <<clock, row, tick, delivered>>
  BY <1>1 DEF Start, TypeOK
<1>3. TypeOK'
  BY NextType DEF Next
<1>4. tick[p].todo = {}
  BY <1>2 DEF ProcessOK, Idle
<1>5. ProcessOK'
  BY <1>1, <1>2 DEF ProcessOK
<1>6. TickOK' /\ LeaseOK' /\ RunsApart' /\ DeliveredOK' /\ DeliveredApart'
  BY <1>2 DEF TickOK, Finishing, LeaseOK, RunsApart, DeliveredOK, DeliveredApart
<1>7. InHandOK'
  BY <1>2, <1>4 DEF InHandOK, Held, Lost
<1>8. QED
  BY <1>3, <1>5, <1>6, <1>7

-----------------------------------------------------------------------------
(* The theorems.                                                           *)

\* The invariant holds of an empty table with no process up.
LEMMA InitInv == Init => IInv
<1> SUFFICES ASSUME Init PROVE IInv
  OBVIOUS
<1>1. Idle \in TickState /\ Empty("unborn") \in Row
  BY DEF Idle, TickState, NoRun, Empty, Row
<1>2. TypeOK
  BY <1>1 DEF Init, TypeOK
<1>3. ProcessOK /\ TickOK /\ LeaseOK
  BY DEF Init, ProcessOK, TickOK, LeaseOK, Finishing, Idle, Empty
<1>4. InHandOK /\ RunsApart /\ DeliveredOK /\ DeliveredApart
  BY DEF Init, InHandOK, RunsApart, DeliveredOK, DeliveredApart, Idle, Empty
<1>5. QED
  BY <1>2, <1>3, <1>4 DEF IInv

\* Every step keeps the invariant.
LEMMA NextInv == IInv /\ [Next]_vars => IInv'
<1> SUFFICES ASSUME IInv, [Next]_vars PROVE IInv'
  OBVIOUS
<1>1. ASSUME NEW p \in Process, Stop(p)
      PROVE  IInv'
  <2>1. TypeOK'
    BY <1>1, NextType DEF Next, IInv
  <2>2. QED
    BY <1>1, <2>1 DEF IInv, Stop, TypeOK, ProcessOK, TickOK, Finishing, LeaseOK, InHandOK, Held, Lost,
                      RunsApart, DeliveredOK, DeliveredApart
<1>2. ASSUME Pass
      PROVE  IInv'
  <2>1. TypeOK' /\ clock' = clock + 1 /\ UNCHANGED <<row, proc, leaseOf, tick, delivered>>
    BY <1>2, NextType DEF Next, IInv, Pass
  <2>2. ProcessOK' /\ LeaseOK' /\ RunsApart' /\ DeliveredOK' /\ DeliveredApart'
    BY <2>1 DEF IInv, ProcessOK, LeaseOK, RunsApart, DeliveredOK, DeliveredApart
  <2>3. TickOK'
    BY <2>1 DEF IInv, TypeOK, TickState, TickOK, Finishing
  <2>4. InHandOK'
    <3>1. \A p \in Process : tick[p].now \in Nat
      BY DEF IInv, TypeOK, TickState
    <3>2. QED
      BY <2>1, <3>1, ReminderAssumption DEF IInv, TypeOK, InHandOK, Held, Lost
  <2>5. QED
    BY <2>1, <2>2, <2>3, <2>4 DEF IInv
<1>3. ASSUME UNCHANGED vars
      PROVE  IInv'
  BY <1>3 DEF IInv, vars, TypeOK, ProcessOK, TickOK, Finishing, LeaseOK, InHandOK, Held, Lost,
              RunsApart, DeliveredOK, DeliveredApart
<1>4. QED
  BY <1>1, <1>2, <1>3, CreateInv, DeleteInv, TickInv, ClaimInv, EndedInv, RunInv, FinishInv,
     FinishLostInv, StartInv DEF Next

\* So it always holds.
LEMMA Invariance == Spec => []IInv
BY InitInv, NextInv, PTL DEF Spec

\* The table, the processes and their ticks keep their types.
THEOREM TypeCorrect == Spec => []TypeOK
<1>1. IInv => TypeOK
  BY DEF IInv
<1>2. QED
  BY <1>1, Invariance, PTL

\* ClaimDueReminders never takes a row from a run that is within its lease.
THEOREM LeaseExcludes == Spec => []HeldWithinLease
<1>1. IInv => HeldWithinLease
  <2> SUFFICES ASSUME IInv, NEW p \in Process, NEW c \in tick[p].todo,
                      clock <= tick[p].now + LeaseTime, row[c.id].state # "deleted"
               PROVE  Holds(p, c.id)
    BY DEF HeldWithinLease
  <2>1. clock \in Nat /\ tick[p].now \in Nat /\ LeaseTime \in Nat /\ leaseOf[p] # NoLease
    BY ReminderAssumption DEF IInv, TypeOK, TickState, ProcessOK, Idle
  <2>2. Held(p, c)
    BY <2>1 DEF IInv, InHandOK, Lost
  <2>3. QED
    BY <2>1, <2>2 DEF Held, Holds
<1>2. QED
  BY <1>1, Invariance, PTL

\* No two processes run one row from ticks within a lease of each other.
THEOREM RunsNeverOverlap == Spec => []RunsApart
<1>1. IInv => RunsApart
  BY DEF IInv
<1>2. QED
  BY <1>1, Invariance, PTL

\* FinishReminderRun never overwrites a failure count with a stale one.
THEOREM NoLostFailure == Spec => []CopyIsCurrent
<1>1. IInv => CopyIsCurrent
  BY DEF IInv, InHandOK, Held, Lost, CopyIsCurrent, Holds, LeaseOK, TypeOK, TickState, Claimed
<1>2. QED
  BY <1>1, Invariance, PTL

\* A delivery by a process that outlived its lease precedes the next run by
\* more than a lease.
THEOREM LateDeliveriesAreSettled == Spec => []SettledBeforeNext
<1>1. IInv => SettledBeforeNext
  BY DEF IInv, DeliveredOK, SettledBeforeNext
<1>2. QED
  BY <1>1, Invariance, PTL

\* Whatever is redelivered with no run recorded in between is a lease apart.
THEOREM RedeliveryIsApart == Spec => RedeliveryApart
<1>1. IInv /\ [Next]_vars =>
        [\A r \in Reminder : \A t \in delivered'[r] \ delivered[r] : \A u \in delivered[r] :
           u + LeaseTime < t \/ t + LeaseTime < u]_vars
  <2> SUFFICES ASSUME IInv, Next, NEW r \in Reminder, NEW t \in delivered'[r] \ delivered[r],
                      NEW u \in delivered[r]
               PROVE  u + LeaseTime < t \/ t + LeaseTime < u
    BY DEF vars
  <2>1. PICK p \in Process : \E c \in tick[p].todo :
           c.id = r /\ t = tick[p].now
    <3>1. PICK p \in Process : Run(p)
      BY DEF Next, Create, Delete, Tick, Claim, ClaimFails, Finish, FinishLost, Start, Stop, Exit,
             Pass, IInv, TypeOK
    <3>2. PICK c \in tick[p].todo : RunDelivers(p, c)
      BY <3>1 DEF Run, RunInvalid, RunFails
    <3>3. c.id = r /\ t = tick[p].now
      BY <3>2 DEF RunDelivers, IInv, TypeOK
    <3>4. QED
      BY <3>3
  <2>2. QED
    BY <2>1 DEF IInv, DeliveredApart
<1>2. QED
  BY <1>1, Invariance, PTL DEF Spec, RedeliveryApart

\* A disabled row is never leased or enabled again.
THEOREM DisabledIsFinal == Spec => DisabledStays
<1>1. IInv /\ [Next]_vars =>
        [\A r \in Reminder : row[r].state = "disabled" =>
           row'[r].state \in {"disabled", "deleted"} /\ row'[r].lease = NoLease]_vars
  <2> SUFFICES ASSUME IInv, Next, NEW r \in Reminder, row[r].state = "disabled"
               PROVE  row'[r].state \in {"disabled", "deleted"} /\ row'[r].lease = NoLease
    BY DEF vars
  <2>1. row[r].lease = NoLease
    BY DEF IInv, LeaseOK
  <2>2. ASSUME NEW q \in Reminder, Create(q) \/ Delete(q)
        PROVE  row'[r] = row[r] \/ row'[r] = Empty("deleted")
    BY <2>2 DEF Create, Delete, IInv, TypeOK
  <2>3. ASSUME NEW p \in Process, Claim(p)
        PROVE  row'[r] = row[r]
    BY <2>3 DEF Claim, OldestDue, Due
  <2>4. ASSUME NEW p \in Process, Finish(p)
        PROVE  row'[r] = row[r]
    <3>1. leaseOf[p] # NoLease
      BY <2>4, ReminderAssumption DEF Finish, IInv, ProcessOK
    <3>2. QED
      BY <2>1, <2>4, <3>1 DEF Finish, IInv, TypeOK
  <2>5. ASSUME NEW p \in Process, Run(p)
        PROVE  row'[r] = row[r]
    BY <2>5 DEF Run, RunInvalid, RunDelivers, RunFails, Ran
  <2>6. Empty("deleted").state = "deleted" /\ Empty("deleted").lease = NoLease
    BY DEF Empty
  <2>7. QED
    BY <2>1, <2>2, <2>3, <2>4, <2>5, <2>6
       DEF Next, Tick, ClaimFails, FinishLost, Start, Stop, Exit, Pass
<1>2. QED
  BY <1>1, Invariance, PTL DEF Spec, DisabledStays

-----------------------------------------------------------------------------
(* The refinement: every step is a step of ReminderRuns or a stutter.      *)

\* Steps that leave every tick's rows alone leave the runs in hand alone.
LEMMA SameHands ==
  ASSUME NEW r, \A q \in Process : /\ tick'[q].todo = tick[q].todo
                                   /\ tick[q].todo # {} => tick'[q].now = tick[q].now
  PROVE  InHand(r)' = InHand(r)
BY DEF InHand

\* A process that drops rows drops its run of each of them, and no other run.
LEMMA DroppedHands ==
  ASSUME IInv, NEW p \in Process, NEW r \in Reminder,
         tick'[p].todo \subseteq tick[p].todo,
         tick'[p].todo # {} => tick'[p].now = tick[p].now,
         \A q \in Process \ {p} : tick'[q] = tick[q]
  PROVE  InHand(r)' = IF \E c \in tick[p].todo \ tick'[p].todo : c.id = r
                      THEN InHand(r) \ {tick[p].now} ELSE InHand(r)
<1>1. ASSUME NEW q \in Process \ {p}, \E c \in tick[q].todo : c.id = r,
             \E c \in tick[p].todo : c.id = r
      PROVE  tick[q].now # tick[p].now
  <2>1. tick[p].now \in Nat /\ tick[q].now \in Nat /\ LeaseTime \in Nat
    BY ReminderAssumption DEF IInv, TypeOK, TickState
  <2>2. QED
    BY <1>1, <2>1 DEF IInv, RunsApart
<1>2. CASE \E c \in tick[p].todo \ tick'[p].todo : c.id = r
  <2>1. ~ \E c \in tick'[p].todo : c.id = r
    BY <1>2 DEF IInv, TickOK
  <2>2. \A q \in Process \ {p} : tick'[q] = tick[q]
    OBVIOUS
  <2>3. QED
    BY <1>1, <1>2, <2>1, <2>2 DEF InHand
<1>3. CASE ~ \E c \in tick[p].todo \ tick'[p].todo : c.id = r
  <2>1. (\E c \in tick'[p].todo : c.id = r) <=> (\E c \in tick[p].todo : c.id = r)
    BY <1>3
  <2>2. \A q \in Process : (\E c \in tick[q].todo : c.id = r) <=> (\E c \in tick'[q].todo : c.id = r)
    BY <2>1
  <2>3. \A q \in Process : (\E c \in tick'[q].todo : c.id = r) => tick'[q].now = tick[q].now
    OBVIOUS
  <2>4. QED
    BY <1>3, <2>2, <2>3 DEF InHand
<1>4. QED
  BY <1>2, <1>3

\* The initial states map to initial states.
LEMMA InitPromise == Init => Promise!Init
BY DEF Init, Promise!Init, InHand, Idle, Empty

\* Creating a row schedules it, deleting one withdraws it.
LEMMA TablePromise ==
  ASSUME IInv, NEW r \in Reminder, Create(r) \/ Delete(r)
  PROVE  Promise!Schedule(r) \/ Promise!Withdraw(r)
<1>1. UNCHANGED <<tick, delivered>>
  BY DEF Create, Delete
<1>2. \A q \in Reminder : InHand(q)' = InHand(q)
  BY <1>1 DEF InHand
<1>3. CASE Create(r)
  <2>1. PICK d \in Interval : row' = [row EXCEPT ![r] = [Empty("enabled") EXCEPT !.next = clock + d]]
    BY <1>3 DEF Create
  <2>2. clock + d \in Nat
    BY ReminderAssumption DEF IInv, TypeOK
  <2>3. /\ row'[r].state = "enabled" /\ row'[r].next = clock + d
        /\ \A q \in Reminder \ {r} : row'[q] = row[q]
    BY <2>1 DEF Empty, IInv, TypeOK
  <2>4. /\ row[r].state = "unborn"
        /\ [q \in Reminder |-> row'[q].state] = [[q \in Reminder |-> row[q].state] EXCEPT ![r] = "enabled"]
        /\ [q \in Reminder |-> row'[q].next] = [[q \in Reminder |-> row[q].next] EXCEPT ![r] = row'[r].next]
        /\ [q \in Reminder |-> row'[q].next][r] = row'[r].next /\ row'[r].next \in Nat
        /\ [q \in Reminder |-> row[q].state][r] = row[r].state
    BY <1>3, <2>2, <2>3 DEF Create
  <2>5. [q \in Reminder |-> InHand(q)'] = [q \in Reminder |-> InHand(q)] /\ UNCHANGED delivered
    BY <1>1, <1>2
  <2>6. Promise!Schedule(r)
    BY <2>4, <2>5 DEF Promise!Schedule
  <2>7. QED
    BY <2>6
<1>4. CASE Delete(r)
  <2>1. /\ row'[r].state = "deleted" /\ row'[r].next = 0
        /\ \A q \in Reminder \ {r} : row'[q] = row[q]
    BY <1>4 DEF Delete, Empty, IInv, TypeOK
  <2>2. /\ row[r].state \in {"enabled", "disabled"}
        /\ [q \in Reminder |-> row'[q].state] = [[q \in Reminder |-> row[q].state] EXCEPT ![r] = "deleted"]
        /\ [q \in Reminder |-> row'[q].next] = [[q \in Reminder |-> row[q].next] EXCEPT ![r] = 0]
        /\ [q \in Reminder |-> row[q].state][r] = row[r].state
    <3>1. row[r].state \in {"enabled", "disabled"}
      BY <1>4 DEF Delete
    <3>2. QED
      BY <2>1, <3>1
  <2>3. [q \in Reminder |-> InHand(q)'] = [q \in Reminder |-> InHand(q)] /\ UNCHANGED delivered
    BY <1>1, <1>2
  <2>4. Promise!Withdraw(r)
    BY <2>2, <2>3 DEF Promise!Withdraw
  <2>5. QED
    BY <2>4
<1>5. QED
  BY <1>3, <1>4

\* A claim begins a run of each row it takes.
LEMMA ClaimPromise ==
  ASSUME IInv, NEW p \in Process, Claim(p)
  PROVE  Promise!Next \/ UNCHANGED Promise!vars
<1>1. PICK S \in SUBSET Reminder :
         /\ OldestDue(tick[p].now, S)
         /\ row' = [r \in Reminder |->
                      IF r \in S THEN [row[r] EXCEPT !.until = tick[p].now + LeaseTime,
                                                     !.lease = leaseOf[p]]
                                 ELSE row[r]]
         /\ tick' = [tick EXCEPT ![p] =
                      IF S = {} THEN Idle
                      ELSE [@ EXCEPT !.at = "run", !.todo = {Copy(r) : r \in S}]]
  BY DEF Claim
<1> DEFINE t == tick[p].now
<1>2. /\ t \in Nat /\ tick[p].todo = {} /\ UNCHANGED delivered
  BY DEF Claim, IInv, TypeOK, TickState, TickOK
<1>3. \A r \in S : Due(r, t)
  BY <1>1 DEF OldestDue
<1>4. \A r \in Reminder : row'[r].state = row[r].state /\ row'[r].next = row[r].next
  BY <1>1 DEF IInv, TypeOK, Row
<1>5. \A q \in Process \ {p} : tick'[q] = tick[q]
  BY <1>1 DEF IInv, TypeOK
<1>6. /\ tick'[p].todo = {Copy(r) : r \in S}
      /\ S # {} => tick'[p].now = t
  BY <1>1 DEF IInv, TypeOK, TickState, Idle
<1>7. \A r \in Reminder : (\E c \in tick'[p].todo : c.id = r) <=> r \in S
  <2>1. \A r \in Reminder : Copy(r).id = r
    BY DEF Copy
  <2>2. QED
    BY <1>6, <2>1
<1>8. \A r \in Reminder : InHand(r)' = IF r \in S THEN InHand(r) \cup {t} ELSE InHand(r)
  BY <1>2, <1>5, <1>6, <1>7 DEF InHand
<1>9. ASSUME NEW r \in S, NEW u \in InHand(r)
      PROVE  u + LeaseTime < t
  BY <1>2, <1>3, <1>9, ClaimIsLater DEF InHand
<1>10. CASE S = {}
  BY <1>2, <1>4, <1>8, <1>10 DEF Promise!vars
<1>11. CASE S # {}
  <2>1. Promise!Begin(S, t)
    BY <1>2, <1>3, <1>4, <1>8, <1>9 DEF Promise!Begin, Due
  <2>2. t \in UNION {InHand(r)' : r \in S}
    BY <1>8, <1>11
  <2>3. QED
    BY <2>1, <2>2 DEF Promise!Next
<1>12. QED
  BY <1>10, <1>11

\* Sending a message delivers it once for its tick, or stutters.
LEMMA RunPromise ==
  ASSUME IInv, NEW p \in Process, Run(p)
  PROVE  Promise!Next \/ UNCHANGED Promise!vars
<1>1. PICK c \in tick[p].todo : RunInvalid(p, c) \/ RunDelivers(p, c) \/ RunFails(p, c)
  BY DEF Run
<1> DEFINE r == c.id
           t == tick[p].now
<1>2. /\ r \in Reminder /\ t \in Nat
  BY DEF IInv, TypeOK, TickState, Claimed
<1>3. \A q \in Process : tick'[q].todo = tick[q].todo /\ tick'[q].now = tick[q].now
  <2>1. PICK at \in {"sent", "failed", "invalid"} : Ran(p, c, at)
    BY <1>1 DEF RunInvalid, RunDelivers, RunFails
  <2>2. tick[p] \in TickState /\ tick \in [Process -> TickState]
    BY DEF IInv, TypeOK
  <2>3. QED
    BY <2>1, <2>2 DEF Ran, TickState
<1>4. [q \in Reminder |-> InHand(q)'] = [q \in Reminder |-> InHand(q)]
  BY <1>3, SameHands
<1>5. UNCHANGED row
  BY <1>1 DEF RunInvalid, RunDelivers, RunFails, Ran
<1>6. CASE UNCHANGED delivered
  BY <1>4, <1>5, <1>6 DEF Promise!vars
<1>7. CASE RunDelivers(p, c) /\ t \notin delivered[r]
  <2>1. t \in InHand(r)
    BY DEF InHand
  <2>2. delivered' = [delivered EXCEPT ![r] = @ \cup {t}]
    BY <1>7 DEF RunDelivers
  <2>3. Promise!Deliver(r, t)
    BY <1>4, <1>5, <1>7, <2>2 DEF Promise!Deliver
  <2>4. QED
    BY <1>2, <2>1, <2>3 DEF Promise!Next
<1>8. CASE RunDelivers(p, c) /\ t \in delivered[r]
  <2>1. delivered' = delivered
    BY <1>2, <1>8 DEF RunDelivers, IInv, TypeOK
  <2>2. QED
    BY <1>6, <2>1
<1>9. QED
  BY <1>1, <1>6, <1>7, <1>8 DEF RunInvalid, RunFails

\* A process that ends, or gives its current row up, abandons the runs it had.
LEMMA DropPromise ==
  ASSUME IInv, NEW p \in Process,
         tick'[p].todo \subseteq tick[p].todo,
         tick'[p].todo # {} => tick'[p].now = tick[p].now,
         \A q \in Process \ {p} : tick'[q] = tick[q],
         UNCHANGED <<row, delivered>>
  PROVE  Promise!Next \/ UNCHANGED Promise!vars
<1> DEFINE t == tick[p].now
           S == {r \in Reminder : \E c \in tick[p].todo \ tick'[p].todo : c.id = r}
<1>1. \A r \in Reminder : InHand(r)' = IF r \in S THEN InHand(r) \ {t} ELSE InHand(r)
  BY DroppedHands
<1>2. \A r \in S : t \in InHand(r)
  BY DEF InHand
<1>3. CASE S = {}
  BY <1>1, <1>3 DEF Promise!vars
<1>4. CASE S # {}
  <2>1. Promise!Abandon(S, t)
    BY <1>1, <1>2 DEF Promise!Abandon
  <2>2. t \in UNION {InHand(r) : r \in S}
    BY <1>2, <1>4
  <2>3. UNION {[q \in Reminder |-> InHand(q)][r] : r \in S} = UNION {InHand(r) : r \in S}
    OBVIOUS
  <2>4. S \in SUBSET Reminder
    OBVIOUS
  <2>5. QED
    BY <2>1, <2>2, <2>3, <2>4 DEF Promise!Next
<1>5. QED
  BY <1>3, <1>4

\* A record is a step of the promise.
LEMMA RecordIsNext ==
  ASSUME NEW r \in Reminder, NEW t \in InHand(r), Promise!Record(r, t)
  PROVE  Promise!Next
BY DEF Promise!Next

\* FinishReminderRun records the newest run or abandons a late one.
LEMMA FinishPromise ==
  ASSUME IInv, NEW p \in Process, Finish(p)
  PROVE  Promise!Next \/ UNCHANGED Promise!vars
<1> DEFINE c == tick[p].current
           r == tick[p].current.id
           t == tick[p].now
<1>1. /\ tick'[p].todo \subseteq tick[p].todo \ {c}
      /\ tick'[p].todo # {} => tick'[p].now = t
      /\ \A q \in Process \ {p} : tick'[q] = tick[q]
  BY NextRowFacts DEF Finish
<1>2. /\ c \in tick[p].todo /\ r \in Reminder /\ t \in Nat /\ LeaseTime \in Nat
      /\ tick[p].todo \ {c} = tick'[p].todo
  <2>1. c \in tick[p].todo /\ r \in Reminder /\ t \in Nat /\ LeaseTime \in Nat
    BY ReminderAssumption DEF Finish, IInv, TypeOK, TickOK, TickState, Claimed
  <2>2. tick[p].todo \ {c} = tick'[p].todo
    BY DEF Finish, NextRow, IInv, TypeOK, TickState, Idle
  <2>3. QED
    BY <2>1, <2>2
<1>3. CASE row[r].lease # leaseOf[p]
  <2>1. UNCHANGED <<row, delivered>>
    BY <1>3 DEF Finish
  <2>2. QED
    BY <1>1, <2>1, DropPromise
<1>4. CASE row[r].lease = leaseOf[p]
  <2>1. PICK d \in Interval : row' = [row EXCEPT ![r] = Recorded(p, d)]
    BY <1>4 DEF Finish
  <2>2. delivered' = [delivered EXCEPT ![r] = {}]
    BY <1>4 DEF Finish
  <2>3. /\ row'[r].state \in {"enabled", "disabled"}
        /\ row'[r].next \in Nat /\ row'[r].next > t
        /\ \A q \in Reminder \ {r} : row'[q] = row[q]
    <3>1. d \in Nat \ {0} /\ Parked \in Nat \ {0}
      BY ReminderAssumption
    <3>2. QED
      BY <1>2, <2>1, <3>1 DEF Recorded, IInv, TypeOK
  <2>4. row[r].state = "enabled" /\ row[r].until = t + LeaseTime /\ row[r].lease # NoLease
    <3>1. leaseOf[p] # NoLease
      BY ReminderAssumption DEF Finish, IInv, ProcessOK
    <3>2. row[r].state = "enabled"
      BY <1>2, <1>4, <3>1 DEF IInv, LeaseOK
    <3>3. QED
      BY <1>2, <1>4, <3>1, <3>2 DEF IInv, InHandOK, Held, Lost
  <2>5. \A q \in Reminder : InHand(q)' = IF q = r THEN InHand(q) \ {t} ELSE InHand(q)
    <3>1. ASSUME NEW q \in Reminder
          PROVE  (\E e \in tick[p].todo \ tick'[p].todo : e.id = q) <=> q = r
      BY <1>2
    <3>2. QED
      BY <1>1, <3>1, DroppedHands
  <2>6. t \in InHand(r)
    BY <1>2 DEF InHand
  <2>7. ASSUME NEW u \in InHand(r)
        PROVE  u <= t
    <3>1. PICK q \in Process : u = tick[q].now /\ \E e \in tick[q].todo : e.id = r
      BY <2>7 DEF InHand
    <3>2. tick[q].now \in Nat
      BY DEF IInv, TypeOK, TickState
    <3>3. CASE q = p
      BY <1>2, <3>1, <3>3
    <3>4. CASE q # p
      BY <1>2, <1>4, <3>1, <3>2, <3>4, HolderIsLast
    <3>5. QED
      BY <3>3, <3>4
  <2>8. ASSUME NEW u \in delivered[r]
        PROVE  u <= t
    <3>1. u \in Nat
      BY <1>2 DEF IInv, TypeOK
    <3>2. u + LeaseTime <= t + LeaseTime
      BY <1>2, <2>4 DEF IInv, DeliveredOK
    <3>3. QED
      BY <1>2, <3>1, <3>2
  <2>9. /\ [q \in Reminder |-> row[q].state][r] = "enabled"
        /\ [q \in Reminder |-> row'[q].state] = [[q \in Reminder |-> row[q].state] EXCEPT ![r] = row'[r].state]
        /\ [q \in Reminder |-> row'[q].next] = [[q \in Reminder |-> row[q].next] EXCEPT ![r] = row'[r].next]
        /\ [q \in Reminder |-> row'[q].next][r] = row'[r].next
        /\ [q \in Reminder |-> InHand(q)'] = [[q \in Reminder |-> InHand(q)] EXCEPT ![r] = @ \ {t}]
        /\ [q \in Reminder |-> InHand(q)][r] = InHand(r)
    BY <1>2, <2>3, <2>4, <2>5
  <2>10. PICK rr \in Reminder, tt \in InHand(r) : rr = r /\ tt = t
    BY <1>2, <2>6
  <2>11. Promise!Record(rr, tt)
    BY <2>2, <2>3, <2>7, <2>8, <2>9, <2>10 DEF Promise!Record
  <2>12. tt \in InHand(rr)
    BY <2>10
  <2>13. QED
    BY <2>11, <2>12, RecordIsNext
<1>5. QED
  BY <1>3, <1>4

\* Every step maps to a step of the promise or to a stutter.
LEMMA NextPromise ==
  ASSUME IInv, [Next]_vars
  PROVE  Promise!Next \/ UNCHANGED Promise!vars
<1>1. ASSUME NEW p \in Process, Tick(p)
      PROVE  UNCHANGED Promise!vars
  <2>1. /\ \A q \in Process : tick'[q].todo = tick[q].todo
        /\ \A q \in Process : tick[q].todo # {} => tick'[q].now = tick[q].now
        /\ UNCHANGED <<row, delivered>>
    BY <1>1 DEF Tick, IInv, TypeOK, TickState, TickOK, Idle
  <2>2. [r \in Reminder |-> InHand(r)'] = [r \in Reminder |-> InHand(r)]
    BY <2>1, SameHands
  <2>3. QED
    BY <2>1, <2>2 DEF Promise!vars
<1>2. ASSUME NEW p \in Process, ClaimFails(p) \/ Exit(p)
      PROVE  Promise!Next \/ UNCHANGED Promise!vars
  <2>1. /\ tick'[p].todo = {} /\ \A q \in Process \ {p} : tick'[q] = tick[q]
        /\ UNCHANGED <<row, delivered>>
    BY <1>2 DEF ClaimFails, Exit, IInv, TypeOK, Idle
  <2>2. /\ tick'[p].todo \subseteq tick[p].todo
        /\ tick'[p].todo # {} => tick'[p].now = tick[p].now
    BY <2>1
  <2>3. QED
    BY <2>1, <2>2, DropPromise
<1>3. ASSUME NEW p \in Process, FinishLost(p)
      PROVE  Promise!Next \/ UNCHANGED Promise!vars
  <2>1. /\ tick'[p].todo \subseteq tick[p].todo
        /\ tick'[p].todo # {} => tick'[p].now = tick[p].now
        /\ \A q \in Process \ {p} : tick'[q] = tick[q]
        /\ UNCHANGED <<row, delivered>>
    BY <1>3, NextRowFacts DEF FinishLost
  <2>2. QED
    BY <2>1, DropPromise
<1>4. ASSUME UNCHANGED <<row, tick, delivered>>
      PROVE  UNCHANGED Promise!vars
  BY <1>4 DEF Promise!vars, InHand
<1>5. ASSUME NEW r \in Reminder, Create(r) \/ Delete(r)
      PROVE  Promise!Next
  BY <1>5, TablePromise DEF Promise!Next
<1>6. QED
  BY <1>1, <1>2, <1>3, <1>4, <1>5, ClaimPromise, RunPromise, FinishPromise
     DEF Next, Start, Stop, Pass, vars

\* The scheduler implements its promise.
THEOREM PromiseKept == Spec => KeepsPromise
<1>1. Init => Promise!Init
  BY InitPromise
<1>2. IInv /\ [Next]_vars => [Promise!Next]_Promise!vars
  BY NextPromise
<1>3. QED
  BY <1>1, <1>2, Invariance, PTL DEF Spec, KeepsPromise, Promise!Spec

\* The lease does what it is for: runs within it are alone, and from a copy that
\* is current.
THEOREM LeaseWorks == Spec => []LeasesHold
<1>1. RunsApart /\ CopyIsCurrent => LeasesHold
  BY DEF LeasesHold
<1> QED
  BY <1>1, RunsNeverOverlap, NoLostFailure, PTL

\* A run that outlived its lease delivers nothing again within another's, and
\* leaves a disabled row disabled.
THEOREM LateRunsDoNoHarm == Spec => LateRunsHarmless
BY RedeliveryIsApart, DisabledIsFinal, PTL DEF LateRunsHarmless

=============================================================================
