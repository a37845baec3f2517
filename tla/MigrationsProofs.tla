-------------------------- MODULE MigrationsProofs --------------------------
(***************************************************************************)
(* Theorems about Migrations for any number of versions, runs, deployments *)
(* and backups, and about Lifecycle, the program whose first step is to    *)
(* migrate.                                                                *)
(***************************************************************************)
EXTENDS Migrations, Lifecycle, TLAPS

\* The first k versions and no other have a file, or a row, in f.
UpTo(f, k) == \A v \in Version : f[v] # None <=> v <= k

\* InOrder, of the database or of a backup.
Ordered(t, s) ==
    /\ \A i \in 1..Len(s) : i \in Version /\ s[i] = <<i, t[i]>>
    /\ \A v \in Version : t[v] = None <=> v > Len(s)

BackupsOrdered ==
    \A n \in Name : backups[n] # None => Ordered(backups[n].table, backups[n].ran)

\* What the place of the run w says of the rest of it.
Fits(w) ==
    /\ w.at = "idle" => w = Rest
    /\ w.at # "idle" => w.command \in Command
    /\ w.round = "status" => w.saved = None /\ w.at \notin {"apply", "done"}
    /\ w.at = "backup" => w.round = "status"
    /\ w.own # {} => w.at \in {"apply", "done"}
    /\ w.at \in {"apply", "done"} => Valid(w.applied, w.defs)
    /\ w.at = "done" => Pending(w.applied, w.defs) = {}
    /\ \E k \in 0..MaxVersion : UpTo(w.applied, k)
    /\ \A v, u \in Version : w.defs[v] = None /\ v < u => w.defs[u] = None

\* The database only grows under the run w: what it read is still there.
Grows(w) ==
    w.at # "idle" =>
        /\ w.before <= Len(ran)
        /\ \A v \in Version : w.applied[v] \in {None, table[v]}

\* The backup of the run w has what there was at its beginning, and nothing of
\* what the run applied.
Saved(w) ==
    w.saved # None =>
        /\ backups[w.saved] # None
        /\ w.before <= Len(backups[w.saved].ran)
        /\ Len(backups[w.saved].ran) <= Len(ran)
        /\ \A v \in w.own : Len(backups[w.saved].ran) < v

\* A run whose directory did not change has read what is there, and if it has
\* no backup then Status had found nothing to apply.
Steady(w) ==
    w.at # "idle" /\ ~w.stale =>
        /\ w.at \in {"applied", "backup", "apply", "done"} => w.defs = files
        /\ w.round = "up" /\ w.saved = None =>
              /\ w.own = {}
              /\ \A v \in Version : files[v] # None => table[v] # None
              /\ w.at \in {"apply", "done"} => Pending(w.applied, w.defs) = {}

RunOK(w) == Fits(w) /\ Grows(w) /\ Saved(w) /\ Steady(w)

IInv ==
    /\ TypeOK /\ Ordered(table, ran) /\ BackupsOrdered
    /\ \A r \in Runner : RunOK(runner[r])

-----------------------------------------------------------------------------
(* Facts about the operators.                                              *)

LEMMA RestType == Rest \in Run
BY MigrationAssumption DEF Rest, Run, NoFiles, Files

\* The highest applied version of a gapless table.
LEMMA HighestIs ==
  ASSUME NEW f \in Files, NEW k \in 0..MaxVersion, UpTo(f, k)
  PROVE  Highest(f) = k
<1> DEFINE P(v) == /\ v = 0 \/ f[v] # None
                   /\ \A w \in Version : f[w] # None => w <= v
<1>1. P(k) /\ k \in 0..MaxVersion
  BY MigrationAssumption DEF UpTo, Version
<1>2. ASSUME NEW v \in 0..MaxVersion, P(v)  PROVE v = k
  BY <1>1, <1>2, MigrationAssumption DEF UpTo, Version
<1>3. Highest(f) = CHOOSE v \in 0..MaxVersion : P(v)
  BY DEF Highest
<1>4. QED  BY <1>1, <1>2, <1>3

\* The schema in order has rows for the first versions.
LEMMA OrderedUpTo ==
  ASSUME NEW t \in Files, NEW s \in Seq(Version \X Text), Ordered(t, s)
  PROVE  Len(s) \in 0..MaxVersion /\ UpTo(t, Len(s))
<1>1. Len(s) \in Nat
  OBVIOUS
<1>2. Len(s) # 0 => Len(s) \in Version
  BY <1>1 DEF Ordered
<1>3. Len(s) \in 0..MaxVersion
  BY <1>1, <1>2, MigrationAssumption DEF Version
<1>4. QED  BY <1>1, <1>3, MigrationAssumption DEF Ordered, UpTo, Version

\* What a run applies next is the version after the last it knows.
LEMMA NextIs ==
  ASSUME NEW f \in Files, NEW defs \in Files, NEW k \in 0..MaxVersion, UpTo(f, k),
         \A v, u \in Version : defs[v] = None /\ v < u => defs[u] = None,
         Pending(f, defs) # {}
  PROVE  NextOf(Pending(f, defs)) = k + 1 /\ k + 1 \in Pending(f, defs)
<1> DEFINE S == Pending(f, defs)
<1>1. PICK u \in Version : u \in S
  BY DEF Pending
<1>2. u > k /\ defs[u] # None
  BY <1>1, MigrationAssumption DEF Pending, UpTo, Version
<1>3. k + 1 \in Version /\ k + 1 <= u
  BY <1>2, MigrationAssumption DEF Version
<1>4. defs[k + 1] # None
  BY <1>2, <1>3, MigrationAssumption DEF Version
<1>5. k + 1 \in S
  BY <1>3, <1>4, MigrationAssumption DEF Pending, UpTo, Version
<1>6. \A w \in S : w \in Version /\ k + 1 <= w
  BY MigrationAssumption DEF Pending, UpTo, Version
<1>7. NextOf(S) \in S /\ \A w \in S : NextOf(S) <= w
  BY <1>5, <1>6 DEF NextOf
<1>8. NextOf(S) <= k + 1 /\ k + 1 <= NextOf(S) /\ NextOf(S) \in Int
  BY <1>5, <1>6, <1>7 DEF Version
<1>9. QED  BY <1>5, <1>8, MigrationAssumption

\* An idle run fits whatever the database and the directory are.
LEMMA RestOK ==
  ASSUME TypeOK
  PROVE  RunOK(Rest)
<1>1. \E k \in 0..MaxVersion : UpTo(NoFiles, k)
  <2>1. 0 \in 0..MaxVersion /\ UpTo(NoFiles, 0)
    BY MigrationAssumption DEF UpTo, NoFiles, Version
  <2>2. QED  BY <2>1
<1>2. Fits(Rest)
  BY <1>1 DEF Fits, Rest, NoFiles
<1>3. QED  BY <1>2 DEF RunOK, Grows, Saved, Steady, Rest

-----------------------------------------------------------------------------
(* Every step preserves the invariant.                                     *)

\* One run goes on and leaves directory, database and backups alone.
LEMMA Moves ==
  ASSUME IInv, NEW r \in Runner, NEW w \in Run, RunOK(w),
         runner' = [runner EXCEPT ![r] = w],
         UNCHANGED <<files, table, ran, backups, clock>>
  PROVE  IInv'
<1>1. TypeOK'
  BY DEF IInv, TypeOK
<1>2. Ordered(table, ran)' /\ BackupsOrdered'
  BY DEF IInv, Ordered, BackupsOrdered
<1>3. ASSUME NEW q \in Runner  PROVE RunOK(runner[q])'
  <2>1. runner'[q] = IF q = r THEN w ELSE runner[q]
    BY DEF IInv, TypeOK
  <2>2. RunOK(runner'[q])
    BY <2>1 DEF IInv
  <2>3. QED  BY <2>2 DEF RunOK, Fits, Grows, Saved, Steady
<1>4. QED  BY <1>1, <1>2, <1>3 DEF IInv

LEMMA BeginInv ==
  ASSUME IInv, NEW r \in Runner, NEW task \in Command, Begin(r, task)
  PROVE  IInv'
<1> DEFINE w == [Rest EXCEPT !.at = "defs", !.command = task, !.before = Len(ran)]
<1>0. Len(ran) \in Nat
  BY DEF IInv, TypeOK
<1>1. /\ w \in Run /\ w.at = "defs" /\ w.command = task /\ w.before = Len(ran)
      /\ w.round = "status" /\ w.saved = None /\ w.own = {}
      /\ w.applied = NoFiles /\ w.defs = NoFiles
  <2>1. [Rest EXCEPT !.at = "defs", !.command = task] \in Run
    BY RestType DEF Run
  <2>2. w \in Run
    BY <1>0, <2>1 DEF Run
  <2>3. QED  BY <2>2 DEF Rest
<1>2. RunOK(Rest)
  BY RestOK DEF IInv
<1>3. Fits(w)
  BY <1>1, <1>2 DEF RunOK, Fits, Rest
<1>4. Grows(w) /\ Saved(w) /\ Steady(w)
  BY <1>1 DEF Grows, Saved, Steady, NoFiles, IInv, TypeOK
<1>5. QED  BY <1>1, <1>3, <1>4, Moves DEF Begin, RunOK

LEMMA StopInv ==
  ASSUME IInv, NEW r \in Runner, Stop(r)
  PROVE  IInv'
BY RestType, RestOK, Moves DEF Stop, IInv

LEMMA LoadDefinitionsInv ==
  ASSUME IInv, NEW r \in Runner, LoadDefinitions(r)
  PROVE  IInv'
<1> DEFINE o == runner[r]
           w == [o EXCEPT !.at = "applied", !.defs = files,
                          !.stale = o.round = "up" /\ o.stale]
<1>1. o \in Run /\ RunOK(o) /\ o.at = "defs"
  BY DEF IInv, TypeOK, LoadDefinitions
<1>2. (o.round = "up" /\ o.stale) \in BOOLEAN
  OBVIOUS
<1>3. /\ w \in Run /\ w.at = "applied" /\ w.command = o.command /\ w.before = o.before
      /\ w.round = o.round /\ w.saved = o.saved /\ w.own = o.own
      /\ w.applied = o.applied /\ w.defs = files
      /\ w.stale = (o.round = "up" /\ o.stale)
  BY <1>1, <1>2 DEF IInv, TypeOK, Run
<1>4. Fits(w)
  BY <1>1, <1>3 DEF RunOK, Fits, LoadDefinitions, Loads
<1>5. Grows(w) /\ Saved(w) /\ Steady(w)
  BY <1>1, <1>3 DEF RunOK, Grows, Saved, Steady
<1>6. runner' = [runner EXCEPT ![r] = w]
  BY DEF LoadDefinitions
<1>7. QED  BY <1>3, <1>4, <1>5, <1>6, Moves DEF LoadDefinitions, RunOK

LEMMA LoadAppliedInv ==
  ASSUME IInv, NEW r \in Runner, LoadApplied(r)
  PROVE  IInv'
<1> DEFINE o == runner[r]
           w == [o EXCEPT !.applied = table]
<1>1. o \in Run /\ RunOK(o) /\ o.at = "applied" /\ Valid(table, o.defs)
  BY DEF IInv, TypeOK, LoadApplied
<1>2. /\ w \in Run /\ w.at = "applied" /\ w.command = o.command /\ w.before = o.before
      /\ w.round = o.round /\ w.saved = o.saved /\ w.own = o.own
      /\ w.applied = table /\ w.defs = o.defs /\ w.stale = o.stale
  BY <1>1 DEF IInv, TypeOK, Run
<1>3. \E k \in 0..MaxVersion : UpTo(table, k)
  BY OrderedUpTo DEF IInv, TypeOK
<1>4. runner' = [runner EXCEPT ![r] = After(w)]
  BY DEF LoadApplied
<1>5. CASE w.round = "up"
  <2> DEFINE x == [w EXCEPT !.at = "apply"]
  <2>1. /\ x \in Run /\ x.at = "apply" /\ x.command = o.command /\ x.before = o.before
        /\ x.round = "up" /\ x.saved = o.saved /\ x.own = o.own
        /\ x.applied = table /\ x.defs = o.defs /\ x.stale = o.stale
    BY <1>2, <1>5 DEF Run
  <2>2. After(w) = x
    BY <1>5 DEF After
  <2>3. Fits(x)
    BY <1>1, <1>2, <1>3, <2>1 DEF RunOK, Fits
  <2>4. Grows(x) /\ Saved(x)
    BY <1>1, <2>1 DEF RunOK, Grows, Saved, Fits
  <2>5. Steady(x)
    BY <1>1, <1>2, <1>5, <2>1 DEF RunOK, Steady, Pending, Fits
  <2>6. QED  BY <1>4, <2>1, <2>2, <2>3, <2>4, <2>5, Moves DEF LoadApplied, RunOK
<1>6. CASE w.round # "up" /\ (w.command = "backup" \/ Pending(w.applied, w.defs) # {})
  <2> DEFINE x == [w EXCEPT !.at = "backup"]
  <2>1. /\ x \in Run /\ x.at = "backup" /\ x.command = o.command /\ x.before = o.before
        /\ x.round = "status" /\ x.saved = o.saved /\ x.own = o.own
        /\ x.applied = table /\ x.defs = o.defs /\ x.stale = o.stale
    BY <1>2, <1>6 DEF Run
  <2>2. After(w) = x
    BY <1>6 DEF After
  <2>3. Fits(x)
    BY <1>1, <1>2, <1>3, <2>1 DEF RunOK, Fits
  <2>4. Grows(x) /\ Saved(x) /\ Steady(x)
    BY <1>1, <2>1 DEF RunOK, Grows, Saved, Steady
  <2>5. QED  BY <1>4, <2>1, <2>2, <2>3, <2>4, Moves DEF LoadApplied, RunOK
<1>7. CASE w.round # "up" /\ w.command # "backup" /\ Pending(w.applied, w.defs) = {}
  <2> DEFINE x == Again(w)
  <2>1. /\ x \in Run /\ x.at = "defs" /\ x.command = o.command /\ x.before = o.before
        /\ x.round = "up" /\ x.saved = o.saved /\ x.own = o.own
        /\ x.applied = NoFiles /\ x.defs = NoFiles /\ x.stale = o.stale
    BY <1>2, RestType DEF Run, Again, NoFiles, Files
  <2>2. After(w) = x
    BY <1>7 DEF After
  <2>3. Fits(x)
    BY <1>1, <1>2, <2>1, RestOK DEF RunOK, Fits, Rest, IInv, NoFiles
  <2>4. Grows(x) /\ Saved(x)
    BY <1>1, <2>1 DEF RunOK, Grows, Saved, NoFiles
  <2>5. Steady(x)
    BY <1>1, <1>2, <1>7, <2>1 DEF RunOK, Steady, Pending, Fits
  <2>6. QED  BY <1>4, <2>1, <2>2, <2>3, <2>4, <2>5, Moves DEF LoadApplied, RunOK
<1>8. QED  BY <1>5, <1>6, <1>7

LEMMA RunBackupInv ==
  ASSUME IInv, NEW r \in Runner, RunBackup(r)
  PROVE  IInv'
<1> DEFINE o == runner[r]
           n == BackupName(r)
           db == [table |-> table, ran |-> ran]
<1>1. o \in Run /\ RunOK(o) /\ o.at = "backup" /\ o.round = "status" /\ o.saved = None
      /\ o.own = {}
  BY DEF IInv, TypeOK, RunBackup, RunOK, Fits
<1>2. n \in Name
  <2>1. PICK k \in 0..MaxVersion : UpTo(o.applied, k)
    BY <1>1 DEF RunOK, Fits
  <2>2. Highest(o.applied) = k /\ o.command \in Command
    BY <1>1, <2>1, HighestIs DEF Run, RunOK, Fits
  <2>3. QED  BY <2>2 DEF BackupName, Name, IInv, TypeOK
<1>3. db \in Database /\ db # None /\ n # None
  BY <1>2, MigrationAssumption DEF IInv, TypeOK, Database
<1>4. /\ backups' = [backups EXCEPT ![n] = db] /\ backups[n] = None
      /\ UNCHANGED <<files, table, ran, clock>>
      /\ runner' = [runner EXCEPT ![r] = IF o.command = "up" THEN [Again(o) EXCEPT !.saved = n]
                                                             ELSE Rest]
  BY DEF RunBackup
<1>5. backups' \in [Name -> Database \cup {None}]
  BY <1>3, <1>4 DEF IInv, TypeOK
<1>6. BackupsOrdered'
  BY <1>2, <1>4, <1>5 DEF IInv, TypeOK, BackupsOrdered, Ordered
<1>7. \A m \in Name : backups[m] # None => backups'[m] = backups[m]
  BY <1>4 DEF IInv, TypeOK
<1>8. backups'[n] = db
  BY <1>2, <1>4 DEF IInv, TypeOK
<1>9. ASSUME runner' \in [Runner -> Run], RunOK(runner[r])'
      PROVE  IInv'
  <2>1. TypeOK'
    BY <1>4, <1>5, <1>9 DEF IInv, TypeOK
  <2>2. ASSUME NEW q \in Runner  PROVE RunOK(runner[q])'
    <3>1. CASE q = r
      BY <1>9, <3>1
    <3>2. CASE q # r
      <4>1. runner'[q] = runner[q] /\ RunOK(runner[q]) /\ runner[q] \in Run
        BY <1>4, <3>2 DEF IInv, TypeOK
      <4>2. Saved(runner[q])'
        BY <1>4, <1>7, <4>1 DEF RunOK, Saved, Run
      <4>3. QED  BY <1>4, <4>1, <4>2 DEF RunOK, Fits, Grows, Steady
    <3>3. QED  BY <3>1, <3>2
  <2>3. QED  BY <1>4, <1>6, <2>1, <2>2 DEF IInv, Ordered
<1>10. CASE o.command = "up"
  <2> DEFINE w == [Again(o) EXCEPT !.saved = n]
  <2>1. /\ w \in Run /\ w.at = "defs" /\ w.command = o.command /\ w.before = o.before
        /\ w.round = "up" /\ w.saved = n /\ w.own = {}
        /\ w.applied = NoFiles /\ w.defs = NoFiles
    BY <1>1, <1>2, RestType DEF Run, Again, NoFiles, Files
  <2>2. runner' = [runner EXCEPT ![r] = w]
    BY <1>4, <1>10
  <2>3. runner'[r] = w /\ runner' \in [Runner -> Run]
    BY <2>1, <2>2 DEF IInv, TypeOK
  <2>4. Fits(w)
    BY <1>1, <2>1, RestOK DEF RunOK, Fits, Rest, IInv, NoFiles
  <2>5. w.before <= Len(ran)
    BY <1>1, <2>1 DEF RunOK, Grows
  <2>6. Fits(runner[r])'
    BY <2>3, <2>4 DEF Fits
  <2>7. /\ runner'[r].before <= Len(ran) /\ runner'[r].saved = n /\ runner'[r].own = {}
        /\ runner'[r].applied = NoFiles /\ ran' = ran /\ Len(ran) \in Nat
    <3>1. ran' = ran /\ Len(ran) \in Nat
      BY <1>4 DEF IInv, TypeOK
    <3>2. runner'[r].before = w.before /\ runner'[r].saved = w.saved
          /\ runner'[r].own = w.own /\ runner'[r].applied = w.applied
      BY <2>3
    <3>3. QED  BY <2>1, <2>5, <3>1, <3>2
  <2>8. Grows(runner[r])'
    BY <2>7 DEF Grows, NoFiles
  <2>11. Saved(runner[r])'
    <3>1. backups'[runner'[r].saved] = db /\ db.ran = ran
      BY <1>8, <2>7
    <3>2. QED  BY <1>3, <2>7, <3>1 DEF Saved
  <2>9. Steady(runner[r])'
    BY <1>3, <2>1, <2>3 DEF Steady
  <2>10. QED  BY <1>9, <2>3, <2>6, <2>8, <2>9, <2>11 DEF RunOK
<1>11. CASE o.command # "up"
  <2>1. runner' = [runner EXCEPT ![r] = Rest]
    BY <1>4, <1>11
  <2>2. runner'[r] = Rest /\ runner' \in [Runner -> Run]
    BY <2>1, RestType DEF IInv, TypeOK
  <2>3. Fits(runner[r])'
    BY <2>2, RestOK DEF RunOK, Fits, IInv
  <2>4. QED
    BY <1>9, <2>2, <2>3 DEF RunOK, Grows, Saved, Steady, Rest
<1>12. QED  BY <1>10, <1>11

\* The version that is applied is the next of the schema.
LEMMA ApplyUpInv ==
  ASSUME IInv, NEW r \in Runner, ApplyUp(r)
  PROVE  IInv'
<1> DEFINE o == runner[r]
           v == NextOf(Missing(r))
           text == o.defs[v]
<1>1. o \in Run /\ RunOK(o) /\ o.at = "apply" /\ o.round = "up" /\ o.command \in Command
  BY DEF IInv, TypeOK, ApplyUp, RunOK, Fits, Run
<1>2. PICK k \in 0..MaxVersion : UpTo(o.applied, k)
  BY <1>1 DEF RunOK, Fits
<1>3. v = k + 1 /\ v \in Version /\ o.defs[v] # None /\ o.applied[v] = None
  <2>1. Missing(r) = Pending(o.applied, o.defs) /\ Missing(r) # {}
    BY DEF Missing, ApplyUp
  <2>2. v = k + 1 /\ v \in Pending(o.applied, o.defs)
    BY <1>1, <1>2, <2>1, NextIs DEF Run, RunOK, Fits
  <2>3. QED  BY <2>2 DEF Pending
<1>4. text \in Text /\ text # None
  BY <1>1, <1>3 DEF Run, Files
<1>5. /\ table[v] = None
      /\ table' = [table EXCEPT ![v] = text]
      /\ ran' = Append(ran, <<v, text>>)
      /\ runner' = [runner EXCEPT ![r].applied[v] = text, ![r].own = @ \cup {v}]
      /\ UNCHANGED <<files, backups, clock>>
  BY DEF ApplyUp
<1>6. Len(ran) = k
  <2>1. Len(ran) \in 0..MaxVersion /\ UpTo(table, Len(ran))
    BY OrderedUpTo DEF IInv, TypeOK
  <2>2. ~(v <= Len(ran))
    BY <1>3, <1>5, <2>1 DEF UpTo
  <2>3. k # 0 => k \in Version /\ o.applied[k] # None
    BY <1>2, MigrationAssumption DEF UpTo, Version
  <2>4. k # 0 => table[k] # None
    BY <1>1, <2>3 DEF RunOK, Grows
  <2>5. k # 0 => k <= Len(ran)
    BY <2>1, <2>3, <2>4 DEF UpTo
  <2>6. QED  BY <1>3, <2>1, <2>2, <2>5
<1>7. table' \in Files /\ ran' \in Seq(Version \X Text) /\ Len(ran') = k + 1
  BY <1>3, <1>4, <1>5, <1>6 DEF IInv, TypeOK, Files
<1>8. Ordered(table, ran)'
  <2>1. ASSUME NEW i \in 1..Len(ran')  PROVE i \in Version /\ ran'[i] = <<i, table'[i]>>
    <3>1. CASE i = k + 1
      BY <1>3, <1>5, <1>6, <3>1 DEF IInv, TypeOK, Files
    <3>2. CASE i # k + 1
      <4>1. i \in 1..Len(ran)
        BY <1>6, <1>7, <3>2
      <4>2. ran'[i] = ran[i] /\ table'[i] = table[i]
        BY <1>3, <1>5, <3>2, <4>1 DEF IInv, TypeOK, Files, Ordered
      <4>3. QED  BY <4>1, <4>2 DEF IInv, Ordered
    <3>3. QED  BY <3>1, <3>2
  <2>2. ASSUME NEW u \in Version  PROVE table'[u] = None <=> u > Len(ran')
    BY <1>3, <1>4, <1>5, <1>6, <1>7 DEF IInv, TypeOK, Files, Ordered, Version
  <2>3. QED  BY <2>1, <2>2 DEF Ordered
<1> DEFINE w == [o EXCEPT !.applied[v] = text, !.own = @ \cup {v}]
<1>9. /\ w \in Run /\ w.at = "apply" /\ w.command = o.command /\ w.before = o.before
      /\ w.round = "up" /\ w.saved = o.saved /\ w.own = o.own \cup {v}
      /\ w.applied = [o.applied EXCEPT ![v] = text] /\ w.defs = o.defs /\ w.stale = o.stale
  BY <1>1, <1>3, <1>4 DEF Run, Files
<1>10. runner'[r] = w /\ runner' \in [Runner -> Run]
       /\ \A q \in Runner \ {r} : runner'[q] = runner[q]
  BY <1>5, <1>9 DEF IInv, TypeOK
<1>11. TypeOK'
  BY <1>5, <1>7, <1>10 DEF IInv, TypeOK
<1>12. \A u \in Version : table[u] # None => table'[u] = table[u]
  BY <1>3, <1>5 DEF IInv, TypeOK, Files
<1>13. Len(ran) \in Nat /\ Len(ran') \in Nat /\ Len(ran) <= Len(ran')
  BY <1>6, <1>7
<1>14. Fits(w)
  <2>1. UpTo(w.applied, k + 1) /\ k + 1 \in 0..MaxVersion
    BY <1>1, <1>2, <1>3, <1>4, <1>9, MigrationAssumption DEF UpTo, Version, Run, Files
  <2>2. Valid(w.applied, w.defs)
    BY <1>1, <1>3, <1>9 DEF RunOK, Fits, Valid, Run, Files
  <2>3. QED  BY <1>1, <1>9, <2>1, <2>2 DEF RunOK, Fits
<1>15. ASSUME NEW q \in Runner \ {r}  PROVE RunOK(runner[q])'
  <2>1. runner'[q] = runner[q] /\ RunOK(runner[q]) /\ runner[q] \in Run
    BY <1>10 DEF IInv, TypeOK
  <2>2. Fits(runner[q])'
    BY <2>1 DEF RunOK, Fits
  <2>3. Grows(runner[q])'
    BY <1>12, <1>13, <2>1 DEF RunOK, Grows, Run
  <2>4. Saved(runner[q])'
    <3>1. CASE runner[q].saved = None
      BY <2>1, <3>1 DEF Saved
    <3>2. CASE runner[q].saved # None
      <4>1. backups[runner[q].saved] \in Database
        BY <2>1, <3>2 DEF IInv, TypeOK, Run, RunOK, Saved
      <4>2. Len(backups[runner[q].saved].ran) \in Nat
        BY <4>1 DEF Database
      <4>3. backups' = backups
        BY <1>5
      <4>4. Saved(runner[q])
        BY <2>1 DEF RunOK
      <4>5. QED  BY <1>13, <2>1, <3>2, <4>2, <4>3, <4>4 DEF Saved
    <3>3. QED  BY <3>1, <3>2
  <2>5. Steady(runner[q])'
    BY <1>5, <1>12, <2>1 DEF RunOK, Steady
  <2>6. QED  BY <2>2, <2>3, <2>4, <2>5 DEF RunOK
<1>16. RunOK(runner[r])'
  <2>1. Grows(runner[r])'
    <3>1. o.before <= Len(ran) /\ \A u \in Version : o.applied[u] \in {None, table[u]}
      BY <1>1 DEF RunOK, Grows
    <3>2. o.before <= Len(ran')
      BY <1>1, <1>13, <3>1 DEF Run
    <3>3. table'[v] = text
      BY <1>3, <1>5 DEF IInv, TypeOK, Files
    <3>4. ASSUME NEW u \in Version  PROVE w.applied[u] \in {None, table'[u]}
      BY <1>1, <1>9, <1>12, <3>1, <3>3 DEF Run, Files
    <3>5. QED  BY <1>9, <1>10, <3>2, <3>4 DEF Grows
  <2>2. Saved(runner[r])'
    <3>1. CASE o.saved = None
      BY <1>9, <1>10, <3>1 DEF Saved
    <3>2. CASE o.saved # None
      <4>1. backups[o.saved] \in Database
        BY <1>1, <3>2 DEF IInv, TypeOK, Run, RunOK, Saved
      <4>2. Len(backups[o.saved].ran) \in Nat
        BY <4>1 DEF Database
      <4>3. o.own \subseteq Version
        BY <1>1 DEF Run
      <4>4. Len(backups[o.saved].ran) < v
        BY <1>1, <1>3, <1>6, <1>13, <3>2, <4>2 DEF RunOK, Saved
      <4>5. Saved(o) /\ backups' = backups
        BY <1>1, <1>5 DEF RunOK
      <4>6. \A u \in w.own : Len(backups[o.saved].ran) < u
        BY <1>9, <3>2, <4>4, <4>5 DEF Saved
      <4>7. QED  BY <1>9, <1>10, <1>13, <3>2, <4>2, <4>5, <4>6 DEF Saved
    <3>3. QED  BY <3>1, <3>2
  <2>3. Steady(runner[r])'
    <3>1. ~o.stale => o.saved # None
      BY <1>1, <1>3 DEF RunOK, Steady, Pending
    <3>2. ~o.stale => o.defs = files
      BY <1>1 DEF RunOK, Steady
    <3>3. QED  BY <1>5, <1>9, <1>10, <3>1, <3>2 DEF Steady
  <2>4. Fits(runner[r])'
    BY <1>10, <1>14 DEF Fits
  <2>5. QED  BY <2>1, <2>2, <2>3, <2>4 DEF RunOK
<1>17. QED
  BY <1>5, <1>8, <1>11, <1>15, <1>16 DEF IInv, BackupsOrdered, Ordered

LEMMA UpDoneInv ==
  ASSUME IInv, NEW r \in Runner, UpDone(r)
  PROVE  IInv'
<1> DEFINE o == runner[r]
           w == [o EXCEPT !.at = "done"]
<1>1. o \in Run /\ RunOK(o) /\ o.at = "apply" /\ Pending(o.applied, o.defs) = {}
  BY DEF IInv, TypeOK, UpDone, Missing
<1>2. /\ w \in Run /\ w.at = "done" /\ w.command = o.command /\ w.before = o.before
      /\ w.round = o.round /\ w.saved = o.saved /\ w.own = o.own
      /\ w.applied = o.applied /\ w.defs = o.defs /\ w.stale = o.stale
  BY <1>1 DEF Run
<1>3. RunOK(w)
  BY <1>1, <1>2 DEF RunOK, Fits, Grows, Saved, Steady
<1>4. QED  BY <1>2, <1>3, Moves DEF UpDone

\* A deployment changes what no run may rely on any more.
LEMMA DeployInv ==
  ASSUME IInv, NEW release \in Release, Deploy(release)
  PROVE  IInv'
<1>1. /\ runner' = [r \in Runner |-> [runner[r] EXCEPT !.stale = @ \/ runner[r].at # "idle"]]
      /\ UNCHANGED <<table, ran, backups, clock>>
  BY DEF Deploy
<1>2. files' \in Files
  BY MigrationAssumption DEF Deploy, IInv, TypeOK, Files
<1>3. ASSUME NEW q \in Runner  PROVE runner'[q] \in Run /\ RunOK(runner[q])'
  <2> DEFINE o == runner[q]
             w == [o EXCEPT !.stale = o.stale \/ o.at # "idle"]
  <2>1. o \in Run /\ RunOK(o) /\ runner'[q] = w
    BY <1>1 DEF IInv, TypeOK
  <2>2. o.at = "idle" => o = Rest /\ Rest.stale = FALSE
    BY <2>1 DEF RunOK, Fits, Rest
  <2>3. (o.stale \/ o.at # "idle") \in BOOLEAN
    OBVIOUS
  <2>4. /\ w \in Run /\ w.at = o.at /\ w.command = o.command /\ w.before = o.before
        /\ w.round = o.round /\ w.saved = o.saved /\ w.own = o.own
        /\ w.applied = o.applied /\ w.defs = o.defs
        /\ w.stale = (o.stale \/ o.at # "idle")
    BY <2>1, <2>3 DEF Run
  <2>5. o.at = "idle" => w = o
    BY <2>1, <2>2 DEF Run
  <2>6. Fits(w)
    BY <2>1, <2>4, <2>5 DEF RunOK, Fits
  <2>7. Fits(runner[q])' /\ Grows(runner[q])' /\ Saved(runner[q])' /\ Steady(runner[q])'
    BY <1>1, <2>1, <2>4, <2>6 DEF RunOK, Fits, Grows, Saved, Steady
  <2>8. QED  BY <2>1, <2>4, <2>7 DEF RunOK
<1>4. TypeOK'
  BY <1>1, <1>2, <1>3 DEF IInv, TypeOK
<1>5. QED  BY <1>1, <1>3, <1>4 DEF IInv, Ordered, BackupsOrdered

LEMMA RestoreInv ==
  ASSUME IInv, NEW n \in Name, Restore(n)
  PROVE  IInv'
<1>1. backups[n] \in Database /\ Ordered(backups[n].table, backups[n].ran)
  BY DEF Restore, IInv, TypeOK, BackupsOrdered
<1>2. TypeOK'
  BY <1>1 DEF Restore, IInv, TypeOK, Database
<1>3. Ordered(table, ran)' /\ BackupsOrdered'
  BY <1>1 DEF Restore, IInv, BackupsOrdered, Ordered
<1>4. ASSUME NEW q \in Runner  PROVE RunOK(runner[q])'
  <2>1. runner[q] = Rest /\ Fits(Rest) /\ runner' = runner
    BY DEF Restore, IInv, RunOK, Fits
  <2>2. Fits(runner[q])'
    BY <2>1 DEF Fits
  <2>3. QED  BY <2>1, <2>2 DEF RunOK, Grows, Saved, Steady, Rest
<1>5. QED  BY <1>2, <1>3, <1>4 DEF IInv

-----------------------------------------------------------------------------
(* The theorems.                                                           *)

LEMMA InitInv == Init => IInv
<1> SUFFICES ASSUME Init PROVE IInv
  OBVIOUS
<1>1. NoFiles \in Files
  BY DEF NoFiles, Files
<1>2. TypeOK
  BY <1>1, RestType, MigrationAssumption DEF Init, TypeOK
<1>3. Ordered(table, ran)
  BY MigrationAssumption DEF Init, Ordered, NoFiles, Version
<1>4. BackupsOrdered
  BY DEF Init, BackupsOrdered
<1>5. \A r \in Runner : RunOK(runner[r])
  BY <1>2, RestOK DEF Init
<1>6. QED  BY <1>2, <1>3, <1>4, <1>5 DEF IInv

LEMMA StepInv == IInv /\ [Next]_vars => IInv'
<1> SUFFICES ASSUME IInv, [Next]_vars PROVE IInv'
  OBVIOUS
<1>1. CASE Pass
  <2>1. TypeOK'
    BY <1>1, MigrationAssumption DEF Pass, IInv, TypeOK
  <2>2. UNCHANGED <<files, table, ran, backups, runner>>
    BY <1>1 DEF Pass
  <2>3. Ordered(table, ran)' /\ BackupsOrdered'
    BY <2>2 DEF IInv, Ordered, BackupsOrdered
  <2>4. ASSUME NEW r \in Runner  PROVE RunOK(runner[r])'
    BY <2>2 DEF IInv, RunOK, Fits, Grows, Saved, Steady
  <2>5. QED  BY <2>1, <2>3, <2>4 DEF IInv
<1>2. CASE UNCHANGED vars
  <2>1. TypeOK'
    BY <1>2 DEF vars, IInv, TypeOK
  <2>2. QED
    BY SMTT(30), <1>2, <2>1 DEF vars, IInv, Ordered, BackupsOrdered, RunOK, Fits, Grows, Saved, Steady
<1>3. ASSUME NEW r \in Runner, Running(r)  PROVE IInv'
  BY <1>3, LoadDefinitionsInv, LoadAppliedInv, RunBackupInv, ApplyUpInv, UpDoneInv, StopInv
     DEF Running
<1>4. QED
  BY <1>1, <1>2, <1>3, BeginInv, DeployInv, RestoreInv DEF Next

LEMMA Invariant == Spec => []IInv
BY InitInv, StepInv, PTL DEF Spec

\* Every reachable state is well typed.
THEOREM TypeCorrect == Spec => []TypeOK
<1>1. IInv => TypeOK
  BY DEF IInv
<1>2. QED  BY <1>1, Invariant, PTL

\* However runs, deployments, failures and restored backups follow each other,
\* the schema is the result of versions 1 to n, each applied once and in order,
\* and the table has their rows (applyUp).
THEOREM AppliedInOrder == Spec => []InOrder
<1>1. IInv => InOrder
  BY DEF IInv, Ordered, InOrder
<1>2. QED  BY <1>1, Invariant, PTL

\* A run that returned without an error left every version it read applied, from
\* the file it read (Up).
THEOREM DoneIsUpToDate == Spec => []UpToDate
<1>1. IInv => UpToDate
  <2> SUFFICES ASSUME IInv, NEW r \in Runner, runner[r].at = "done", NEW v \in Version
               PROVE  runner[r].defs[v] \in {None, table[v]}
    BY DEF UpToDate
  <2>1. RunOK(runner[r])
    BY DEF IInv
  <2>2. QED  BY <2>1 DEF RunOK, Fits, Grows, Valid, Pending
<1>2. QED  BY <1>1, Invariant, PTL

\* Unless the directory changed under it, a run that applied anything has a
\* backup from before, with all that was there when it began (UpPath).
THEOREM BackupsUndo == Spec => []Undoable
<1>1. IInv => Undoable
  <2> SUFFICES ASSUME IInv, NEW r \in Runner, runner[r].own # {}, ~runner[r].stale
               PROVE  /\ runner[r].saved # None
                      /\ runner[r].before <= Len(backups[runner[r].saved].ran)
                      /\ \A v \in runner[r].own : Len(backups[runner[r].saved].ran) < v
    BY DEF Undoable
  <2>1. RunOK(runner[r])
    BY DEF IInv
  <2>2. runner[r].at \in {"apply", "done"} /\ runner[r].round = "up"
    BY <2>1 DEF RunOK, Fits, IInv, TypeOK, Run
  <2>3. runner[r].saved # None
    BY <2>1, <2>2 DEF RunOK, Steady
  <2>4. QED  BY <2>1, <2>3 DEF RunOK, Saved
<1>2. QED  BY <1>1, Invariant, PTL

-----------------------------------------------------------------------------
(* Lifecycle: wherever a start fails and a signal comes, the program stops *)
(* whole.  The invariant says, for each place of the main goroutine, what  *)
(* is there and what is not.                                               *)

\* The servers listen, and the bot starts or has started.
Up == {"reload", "gateway", "automation", "reminders", "wait"}
\* The bot is not made yet, or its servers are not.
Early == {"migrate", "open", "manage", "trust", "i18n", "discord", "servers"}
\* Each step of Bot.Close comes only if there is a bot.
Stopping == {"close_bot", "close_client", "close_cron"}

\* The tools stop before the steps of the bot.
PlaceOK ==
    /\ command = "migrate" => at \in {"migrate", "exit"}
    /\ command = "plugins" => at \in {"migrate", "open", "manage", "close_store", "exit"}

\* The store is open from its step to the one that closes it, which is the last.
StoreOK ==
    /\ at \in {"migrate", "open"} => store = "none"
    /\ at \in {"manage", "trust", "i18n", "discord", "servers", "serve_ops", "serve_admin"} \cup Up
          => store = "open"
    /\ at = "close_store" => store = "open"
    /\ at = "exit" => store # "open"
    /\ store = "closed" => at = "exit"
    /\ store = "open" => migrated
    /\ at = "open" => migrated

\* What there is of the bot, and where it is ready.
BotOK ==
    /\ bot.made /\ at # "exit" => store = "open"
    /\ at \in {"servers", "serve_ops", "serve_admin"} \cup Up \cup Stopping => bot.made
    /\ bot.made => at \notin {"migrate", "open", "manage", "trust", "i18n", "discord"}
    /\ bot.gateway => bot.made /\ at \in {"automation", "reminders", "wait", "close_admin", "drain",
                                          "close_ops", "close_bot", "close_client"}
    /\ at \in {"automation", "reminders"} => bot.gateway
    /\ bot.ready => bot.gateway /\ (bot.reminders \/ ctx)
                    /\ at \in {"wait", "close_admin", "drain", "close_ops", "close_bot"}
    /\ at = "wait" => bot.gateway \/ (command # "prod" /\ shown)

\* Which server listens at which place.
ServersOK ==
    /\ \A s \in {"ops", "admin"} : server[s] # "none" => bot.made /\ at \notin Early
    /\ server["admin"] = "listening" => at \in Up \cup {"close_admin"}
    /\ server["ops"] = "listening" =>
          at \in Up \cup {"serve_admin", "close_admin", "drain", "close_ops"}
    /\ at = "serve_ops" => \A s \in addr : server[s] = "made"
    /\ at = "serve_admin" => /\ "ops" \in addr => server["ops"] = "listening"
                             /\ "admin" \in addr => server["admin"] = "made"
    /\ at \in Up => \A s \in addr : server[s] = "listening"

\* A request came while the dashboard listened, and its shutdown waits for it.
RequestsOK ==
    \A r \in Request : request[r] =>
        \/ server["admin"] = "listening"
        \/ at = "drain" /\ server["admin"] = "shut"

LifecycleInv ==
    ConstantsOK /\ ProgramTypeOK /\ PlaceOK /\ StoreOK /\ BotOK /\ ServersOK /\ RequestsOK

LEMMA LifecycleInitInv == ASSUME ConstantsOK, ProgramInit PROVE LifecycleInv
BY DEF LifecycleInv, ConstantsOK, ProgramInit, ProgramTypeOK, PlaceOK, StoreOK, BotOK, ServersOK,
   RequestsOK,
       Up, Early, Stopping, Bots, Tools, Starting, Closing, NoBot

\* A step of the start, which opens one thing, or fails and turns to what closes it.
LEMMA ComesUpInv == ASSUME LifecycleInv, ComesUp PROVE LifecycleInv'
<1> USE DEF LifecycleInv, ConstantsOK, ProgramTypeOK, PlaceOK, StoreOK, BotOK, ServersOK, RequestsOK, Up,
            Early, Stopping, Bots, Tools, Starting, Closing
<1>1. CASE Migrate
  BY <1>1 DEF Migrate, Does, held, users
<1>2. CASE OpenStore
  BY <1>2 DEF OpenStore, Does, held, users
<1>3. CASE Manage
  BY <1>3 DEF Manage, Does, held, users
<1>4. CASE Trust
  BY <1>4 DEF Trust, Does, held, users
<1>5. CASE LoadLocales
  BY <1>5 DEF LoadLocales, Does, held, users
<1>6. CASE MakeBot
  BY <1>6 DEF MakeBot, Does, held, users
<1>7. CASE MakeServers
  BY <1>7 DEF MakeServers, Does, held, users
<1>8. CASE ServeOps
  BY <1>8 DEF ServeOps, Does, held, users, Serves
<1>9. CASE ServeAdmin
  BY <1>9 DEF ServeAdmin, Does, held, users, Serves
<1>10. CASE Reload
  BY <1>10 DEF Reload, Does, held, users
<1>11. CASE OpenGateway
  BY <1>11 DEF OpenGateway, Does, held, users
<1>12. CASE StartAutomation
  BY <1>12 DEF StartAutomation, Does, held, users
<1>13. CASE StartReminders
  BY <1>13 DEF StartReminders, Does, held, users
<1>14. CASE StepFails
  <2>1. CASE KeepsUp
    BY <1>14, <2>1 DEF StepFails, KeepsUp, held, users
  <2>2. CASE ~KeepsUp /\ command \in Bots
    BY <1>14, <2>2 DEF StepFails, Returns, held, users
  <2>3. CASE ~KeepsUp /\ command \notin Bots
    BY <1>14, <2>3 DEF StepFails, Failing, Returns, held, users
  <2>4. QED  BY <2>1, <2>2, <2>3
<1>15. QED
  BY <1>1, <1>2, <1>3, <1>4, <1>5, <1>6, <1>7, <1>8, <1>9, <1>10, <1>11, <1>12, <1>13, <1>14
     DEF ComesUp

\* A step of the shutdown, which closes one thing that no step before it left.
LEMMA GoesDownInv == ASSUME LifecycleInv, GoesDown PROVE LifecycleInv'
<1> USE DEF LifecycleInv, ConstantsOK, ProgramTypeOK, PlaceOK, StoreOK, BotOK, ServersOK, RequestsOK, Up,
            Early, Stopping, Bots, Tools, Starting, Closing
<1>1. CASE CloseAdmin
  BY <1>1 DEF CloseAdmin, Does, held, users, Shuts
<1>2. CASE Drain
  BY <1>2 DEF Drain, Does, held, users
<1>3. CASE CloseOps
  BY <1>3 DEF CloseOps, Does, held, users, Shuts
<1>4. CASE CloseBot
  <2>1. ProgramTypeOK'
    BY <1>4 DEF CloseBot, Does, users
  <2>2. (PlaceOK /\ StoreOK /\ ServersOK /\ RequestsOK)'
    BY <1>4 DEF CloseBot, Does, users
  <2>3. BotOK'
    BY <1>4 DEF CloseBot, Does, users
  <2>4. QED  BY <2>1, <2>2, <2>3
<1>5. CASE CloseClient
  BY <1>5 DEF CloseClient, Does, held, users
<1>6. CASE CloseCron
  BY <1>6 DEF CloseCron, Does, held, users
<1>7. CASE CloseStore
  BY <1>7 DEF CloseStore, Does, held, users
<1>8. CASE Wait
  BY <1>8 DEF Wait, Returns, held, users
<1>9. QED
  BY <1>1, <1>2, <1>3, <1>4, <1>5, <1>6, <1>7, <1>8 DEF GoesDown

\* A request, a handler, a job or the signal: none moves the main goroutine.
LEMMA BesideInv == ASSUME LifecycleInv, Beside PROVE LifecycleInv'
<1> USE DEF LifecycleInv, ConstantsOK, ProgramTypeOK, PlaceOK, StoreOK, BotOK, ServersOK, RequestsOK, Up,
            Early, Stopping, Bots, Tools, Starting, Closing
<1>1. ASSUME NEW r \in Request, Arrive(r)  PROVE LifecycleInv'
  BY <1>1 DEF Arrive, held
<1>2. ASSUME NEW r \in Request, Leave(r)  PROVE LifecycleInv'
  BY <1>2 DEF Leave
<1>3. CASE Dispatch
  BY <1>3 DEF Dispatch, held, users
<1>4. CASE Handled
  <2>1. ProgramTypeOK'
    <3>1. handler' \in BOOLEAN
      BY <1>4, Zenon DEF Handled
    <3>2. job' \in BOOLEAN /\ request' = request
      BY <1>4 DEF Handled, held, users
    <3> HIDE DEF LifecycleInv, ConstantsOK, PlaceOK, StoreOK, BotOK, ServersOK, RequestsOK
    <3>3. ProgramTypeOK
      BY DEF LifecycleInv
    <3>4. QED  BY <1>4, <3>1, <3>2, <3>3 DEF Handled, held
  <2>2. (PlaceOK /\ StoreOK /\ ServersOK /\ RequestsOK)'
    BY <1>4 DEF Handled, held, users
  <2>3. BotOK'
    BY <1>4 DEF Handled, held, users
  <2>4. QED  BY <2>1, <2>2, <2>3
<1>5. CASE RunJob
  BY <1>5 DEF RunJob, held, users
<1>6. CASE JobEnds
  <2>1. ProgramTypeOK'
    <3>1. job' \in BOOLEAN
      BY <1>6, Zenon DEF JobEnds
    <3>2. handler' \in BOOLEAN /\ request' = request
      BY <1>6 DEF JobEnds, held, users
    <3> HIDE DEF LifecycleInv, ConstantsOK, PlaceOK, StoreOK, BotOK, ServersOK, RequestsOK
    <3>3. ProgramTypeOK
      BY DEF LifecycleInv
    <3>4. QED  BY <1>6, <3>1, <3>2, <3>3 DEF JobEnds, held
  <2>2. (PlaceOK /\ StoreOK /\ ServersOK /\ RequestsOK)'
    BY <1>6 DEF JobEnds, held, users
  <2>3. BotOK'
    BY <1>6 DEF JobEnds, held, users
  <2>4. QED  BY <2>1, <2>2, <2>3
<1>7. CASE StopCron
  <2>1. ProgramTypeOK'
    <3>1. /\ UNCHANGED <<command, addr, at, migrated, store, server, request, handler, job>>
          /\ UNCHANGED <<ctx, shown>> /\ bot' = [bot EXCEPT !.cron = FALSE]
      BY <1>7 DEF StopCron, users
    <3>2. bot' \in [made : BOOLEAN, gateway : BOOLEAN, cron : BOOLEAN, reminders : BOOLEAN,
                    ready : BOOLEAN]
      BY <3>1
    <3>3. QED  BY <3>1, <3>2
  <2>2. (PlaceOK /\ StoreOK /\ ServersOK /\ RequestsOK)'
    BY <1>7 DEF StopCron, held, users
  <2>3. BotOK'
    BY <1>7 DEF StopCron, held, users
  <2>4. QED  BY <2>1, <2>2, <2>3
<1>8. CASE StopReminders
  <2>1. ProgramTypeOK'
    <3>1. /\ UNCHANGED <<command, addr, at, migrated, store, server, request, handler, job>>
          /\ UNCHANGED <<ctx, shown>> /\ bot' = [bot EXCEPT !.reminders = FALSE]
      BY <1>8 DEF StopReminders, users
    <3>2. bot' \in [made : BOOLEAN, gateway : BOOLEAN, cron : BOOLEAN, reminders : BOOLEAN,
                    ready : BOOLEAN]
      BY <3>1
    <3>3. QED  BY <3>1, <3>2
  <2>2. (PlaceOK /\ StoreOK /\ ServersOK /\ RequestsOK)'
    BY <1>8 DEF StopReminders, held, users
  <2>3. BotOK'
    BY <1>8 DEF StopReminders, held, users
  <2>4. QED  BY <2>1, <2>2, <2>3
<1>9. CASE Signal
  BY <1>9 DEF Signal, held, users
<1>10. QED
  BY <1>1, <1>2, <1>3, <1>4, <1>5, <1>6, <1>7, <1>8, <1>9 DEF Beside

LEMMA LifecycleInvariant == ProgramSpec => []LifecycleInv
<1>1. ProgramInit => LifecycleInv
  BY LifecycleInitInv, CommandsAssumption
<1>2. LifecycleInv /\ [ProgramNext]_programVars => LifecycleInv'
  <2>1. CASE UNCHANGED programVars
    BY <2>1
       DEF LifecycleInv, ConstantsOK, programVars, ProgramTypeOK, PlaceOK, StoreOK, BotOK, ServersOK,
                RequestsOK, Up, Early, Stopping, Starting, Closing
  <2>2. QED
    BY <2>1, ComesUpInv, GoesDownInv, BesideInv DEF ProgramNext
<1>3. QED  BY <1>1, <1>2, PTL DEF ProgramSpec

\* Every reachable state of Lifecycle is well typed.
THEOREM ProgramTypes == ProgramSpec => []ProgramTypeOK
<1>1. LifecycleInv => ProgramTypeOK
  BY DEF LifecycleInv
<1>2. QED  BY <1>1, LifecycleInvariant, PTL

\* However far the start came, whatever failed and whenever the signal came: requests
\* meet a program that is whole, readiness is true but for the reminders, which end at
\* the signal before it does, and at its exit the program has closed what it opened
\* (Start, Close and runMain).
THEOREM ProgramStopsWhole == ProgramSpec => []StopsWhole
<1>1. LifecycleInv => StopsWhole
  <2> SUFFICES ASSUME LifecycleInv PROVE StopsWhole
    OBVIOUS
  <2> USE DEF LifecycleInv, ProgramTypeOK, PlaceOK, StoreOK, BotOK, ServersOK, RequestsOK, Up, Early, Stopping
  <2>1. ServesWhole
    BY DEF ServesWhole
  <2>2. ReadyMeansUp
    BY DEF ReadyMeansUp, Ready
  <2>3. NothingLeft
    BY DEF NothingLeft
  <2>4. StaysUpInDevOnly
    BY DEF StaysUpInDevOnly
  <2>5. QED  BY <2>1, <2>2, <2>3, <2>4 DEF StopsWhole
<1>2. QED  BY <1>1, LifecycleInvariant, PTL

==============================================================================
