----------------------------- MODULE Migrations -----------------------------
(***************************************************************************)
(* The migration runner (internal/migration/migrate.go): UpPath, which     *)
(* every start of the bot, the command line and the dashboard call, and    *)
(* BackupPath.  UpPath reads the directory and the database, takes a       *)
(* backup if something is pending, reads both again and applies what is    *)
(* missing, each version in a transaction of its own.  Nothing serialises  *)
(* two of them, a deployment may replace files under one, and one may end  *)
(* between any two of its steps.                                           *)
(***************************************************************************)
EXTENDS Integers, Sequences

CONSTANTS
    MaxVersion,   \* bound on the versions
    Text,         \* contents of migration files, as their checksums tell them apart
    Destructive,  \* those with the header kind=destructive
    Malformed,    \* those without a valid header: loadDefinitions fails
    None,         \* no file, no row, no backup
    Runner,       \* goroutines, of one process or of several
    Command,      \* what they run: "up" or "backup"
    Release,      \* what a deployment leaves in the directory
    MaxClock      \* bound on the clock, which only names backups

Version == 1..MaxVersion
Files == [Version -> Text \cup {None}]

VARIABLES
    files,    \* the migrations directory
    table,    \* schema_migration_state: the checksum of each applied version
    ran,      \* the statements the schema is the result of, in their order
    backups,  \* the backup directory
    clock,    \* seconds
    runner    \* each run's place and locals

vars == <<files, table, ran, backups, clock, runner>>

\* "<base>-<label>-<timestamp>.sqlite"; the label has the command and the version.
Name == [command : Command, version : 0..MaxVersion, time : 0..MaxClock]
Database == [table : Files, ran : Seq(Version \X Text)]

ASSUME MigrationAssumption ==
    /\ MaxVersion \in Nat /\ MaxClock \in Nat
    /\ None \notin Text \cup Name \cup Database
    /\ Destructive \subseteq Text /\ Malformed \subseteq Text
    /\ Release \subseteq Files
    /\ Command \subseteq {"up", "backup"}

\* round: in Status, or in Up; defs and applied as last read; saved: the backup
\* this run made.  History: before, how much had been executed when the run
\* began; own, what it executed; stale, the directory changed since Status.
Run == [at : {"idle", "defs", "applied", "backup", "apply", "done"},
        command : {"none"} \cup Command, round : {"status", "up"},
        defs : Files, applied : Files, saved : Name \cup {None},
        before : Nat, own : SUBSET Version, stale : BOOLEAN]
NoFiles == [v \in Version |-> None]
Rest == [at |-> "idle", command |-> "none", round |-> "status", defs |-> NoFiles,
         applied |-> NoFiles, saved |-> None, before |-> 0, own |-> {}, stale |-> FALSE]

TypeOK ==
    /\ files \in Files /\ table \in Files
    /\ ran \in Seq(Version \X Text)
    /\ backups \in [Name -> Database \cup {None}]
    /\ clock \in 0..MaxClock
    /\ runner \in [Runner -> Run]

Init ==
    /\ files \in Release
    /\ table = NoFiles /\ ran = <<>>
    /\ backups = [n \in Name |-> None]
    /\ clock = 0
    /\ runner = [r \in Runner |-> Rest]

-----------------------------------------------------------------------------
(* Reading.                                                                *)

Begin(r, command) ==
    /\ runner[r].at = "idle"
    /\ runner' = [runner EXCEPT ![r] = [Rest EXCEPT !.at = "defs", !.command = command,
                                                    !.before = Len(ran)]]
    /\ UNCHANGED <<files, table, ran, backups, clock>>

\* loadDefinitions accepts versions 1 to n without a gap, each with a header.
Loads(f) ==
    /\ \A v \in Version : f[v] \notin Malformed
    /\ \A v, w \in Version : f[v] = None /\ v < w => f[w] = None

LoadDefinitions(r) ==
    /\ runner[r].at = "defs"
    /\ Loads(files)
    /\ runner' = [runner EXCEPT ![r].at = "applied", ![r].defs = files,
                                ![r].stale = runner[r].round = "up" /\ runner[r].stale]
    /\ UNCHANGED <<files, table, ran, backups, clock>>

\* Mutant of Valid: the file of an applied version may have been edited.
ValidByVersion(applied, defs) == \A v \in Version : applied[v] # None => defs[v] # None

\* validateAppliedChecksums.
Valid(applied, defs) == \A v \in Version : applied[v] \in {None, defs[v]}

\* Up starts from nothing that Status read.
Again(run) == [run EXCEPT !.at = "defs", !.round = "up", !.defs = NoFiles, !.applied = NoFiles]

Pending(applied, defs) == {v \in Version : defs[v] # None /\ applied[v] = None}

\* Mutant of After: UpPath goes straight to Up.
AfterUnsaved(run) ==
    IF run.round = "up" THEN [run EXCEPT !.at = "apply"]
    ELSE IF run.command = "backup" THEN [run EXCEPT !.at = "backup"]
    ELSE Again(run)

\* What comes after the database was read: Up goes on to apply, BackupPath and,
\* with something pending, UpPath to the backup, else UpPath to Up.
After(run) ==
    IF run.round = "up" THEN [run EXCEPT !.at = "apply"]
    ELSE IF run.command = "backup" \/ Pending(run.applied, run.defs) # {}
         THEN [run EXCEPT !.at = "backup"]
         ELSE Again(run)

\* ensureMetadataTables, loadAppliedState and the validation; a mismatch is an
\* error (Stop).
LoadApplied(r) ==
    /\ runner[r].at = "applied"
    /\ Valid(table, runner[r].defs)
    /\ runner' = [runner EXCEPT ![r] = After([@ EXCEPT !.applied = table])]
    /\ UNCHANGED <<files, table, ran, backups, clock>>

-----------------------------------------------------------------------------
(* Backing up and applying.                                                *)

\* highestAppliedVersion.
Highest(applied) ==
    CHOOSE v \in 0..MaxVersion :
        /\ v = 0 \/ applied[v] # None
        /\ \A w \in Version : applied[w] # None => w <= v

BackupName(r) == [command |-> runner[r].command, version |-> Highest(runner[r].applied),
                  time |-> clock]

\* runBackup: VACUUM INTO fails if there is a file of that name (Stop).
RunBackup(r) ==
    /\ runner[r].at = "backup"
    /\ backups[BackupName(r)] = None
    /\ backups' = [backups EXCEPT ![BackupName(r)] = [table |-> table, ran |-> ran]]
    /\ runner' = [runner EXCEPT ![r] =
                     IF @.command = "up" THEN [Again(@) EXCEPT !.saved = BackupName(r)]
                                         ELSE Rest]
    /\ UNCHANGED <<files, table, ran, clock>>

\* The version the loop of Up is at.
Missing(r) == Pending(runner[r].applied, runner[r].defs)
NextOf(S) == CHOOSE v \in S : \A w \in S : v <= w

\* Mutant of ApplyUp: a row of the version is replaced.
ApplyUpOver(r) ==
    LET v == NextOf(Missing(r))
        text == runner[r].defs[v]
    IN  /\ runner[r].at = "apply" /\ Missing(r) # {}
        /\ text \notin Destructive
        /\ table' = [table EXCEPT ![v] = text]
        /\ ran' = Append(ran, <<v, text>>)
        /\ runner' = [runner EXCEPT ![r].applied[v] = text, ![r].own = @ \cup {v}]
        /\ UNCHANGED <<files, backups, clock>>

\* applyUp: the file's statements and the two rows in one transaction, which
\* fails if the version has a row by now.
ApplyUp(r) ==
    LET v == NextOf(Missing(r))
        text == runner[r].defs[v]
    IN  /\ runner[r].at = "apply" /\ Missing(r) # {}
        /\ text \notin Destructive
        /\ table[v] = None
        /\ table' = [table EXCEPT ![v] = text]
        /\ ran' = Append(ran, <<v, text>>)
        /\ runner' = [runner EXCEPT ![r].applied[v] = text, ![r].own = @ \cup {v}]
        /\ UNCHANGED <<files, backups, clock>>

\* The loop is over.
UpDone(r) ==
    /\ runner[r].at = "apply" /\ Missing(r) = {}
    /\ runner' = [runner EXCEPT ![r].at = "done"]
    /\ UNCHANGED <<files, table, ran, backups, clock>>

\* The run returns, or ends early: an error, its context, its process.
Stop(r) ==
    /\ runner[r].at # "idle"
    /\ runner' = [runner EXCEPT ![r] = Rest]
    /\ UNCHANGED <<files, table, ran, backups, clock>>

-----------------------------------------------------------------------------
(* Around the runs.                                                        *)

\* One file of a release is copied, replaced or removed.
Deploy(release) ==
    /\ \E v \in Version :
          /\ files[v] # release[v]
          /\ files' = [files EXCEPT ![v] = release[v]]
    /\ runner' = [r \in Runner |-> [runner[r] EXCEPT !.stale = @ \/ runner[r].at # "idle"]]
    /\ UNCHANGED <<table, ran, backups, clock>>

\* With everything stopped, a backup is put in the database's place.
Restore(n) ==
    /\ \A r \in Runner : runner[r].at = "idle"
    /\ backups[n] # None
    /\ table' = backups[n].table /\ ran' = backups[n].ran
    /\ UNCHANGED <<files, backups, clock, runner>>

Pass ==
    /\ clock < MaxClock
    /\ clock' = clock + 1
    /\ UNCHANGED <<files, table, ran, backups, runner>>

Running(r) ==
    \/ LoadDefinitions(r) \/ LoadApplied(r) \/ RunBackup(r) \/ ApplyUp(r) \/ UpDone(r) \/ Stop(r)

Next ==
    \/ \E r \in Runner : Running(r) \/ \E command \in Command : Begin(r, command)
    \/ \E release \in Release : Deploy(release)
    \/ \E n \in Name : Restore(n)
    \/ Pass

Spec == Init /\ [][Next]_vars

-----------------------------------------------------------------------------
(* Properties.                                                             *)

\* Whatever runs overlap, fail or see half of a deployment: the schema is the
\* result of versions 1 to n, each executed once and in order, and the table
\* has exactly their rows.
InOrder ==
    /\ \A i \in 1..Len(ran) : i \in Version /\ ran[i] = <<i, table[i]>>
    /\ \A v \in Version : table[v] = None <=> v > Len(ran)

\* A run that returned without an error left every version of the directory it
\* read applied, from the file it read.
UpToDate ==
    \A r \in Runner : runner[r].at = "done" =>
        \A v \in Version : runner[r].defs[v] \in {None, table[v]}

\* What one run applies can be undone: unless the directory changed under it, it
\* has a backup from before its first version, with everything that had been
\* applied when it began.
Undoable ==
    \A r \in Runner : runner[r].own # {} /\ ~runner[r].stale =>
        /\ runner[r].saved # None
        /\ runner[r].before <= Len(backups[runner[r].saved].ran)
        /\ \A v \in runner[r].own : Len(backups[runner[r].saved].ran) < v

=============================================================================
