------------------------------ MODULE Moderation ------------------------------
(***************************************************************************)
(* Warnings of one guild's members, given and taken back by the dashboard  *)
(* (adminapi/guilds.go) and by the moderation plugin (plugins/moderation   *)
(* over moderation_api.go), and the guild's configuration of that plugin,  *)
(* which both read (guildconfig/config.go, lib/shared.lua).                *)
(*                                                                         *)
(* Requests of the dashboard run beside each other and beside the plugin;  *)
(* handlers of the plugin exclude each other, by the lock of its VM.  Each *)
(* statement on the database is a step, and each may fail: the database,   *)
(* or the deadline of the call.  The texts, the audit entries' contents    *)
(* and the direct message to the member are left out.                      *)
(***************************************************************************)
EXTENDS Integers, FiniteSets

CONSTANTS
    Member,
    Warning,           \* ids, numbers in the order they are given; bound: how many ever are
    Request,           \* goroutines of the dashboard
    Handler,           \* goroutines that call the plugin
    MaxLimit,          \* the highest limit and threshold, 20
    DefaultLimit,      \* the limit and threshold without a configuration, 3
    Asked,             \* limits and thresholds a manager submits
    Offered,           \* sets of commands a manager leaves enabled
    MaxSaves,          \* bound: how often the configuration is saved
    None

Process == Request \cup Handler
Command == {"warn", "unwarn"}

ASSUME ModerationAssumption ==
    /\ Request \cap Handler = {} /\ IsFiniteSet(Process)
    /\ Warning \subseteq Nat /\ IsFiniteSet(Warning)
    /\ None \notin Member \cup Warning \cup Process /\ "gone" \notin Member \cup {None}
    /\ DefaultLimit \in 1..MaxLimit /\ MaxLimit \in Nat /\ MaxSaves \in Nat
    /\ Asked \subseteq Int /\ Offered \subseteq SUBSET Command

VARIABLES
    stored,   \* the configuration, or None
    saves,    \* how often it was saved
    rows,     \* the member each id was given to, or None; "gone" once deleted
    vm,       \* the handler that has the lock of the plugin's VM, or None
    proc,
    top,      \* history: the highest limit anybody went by
    peak,     \* history: the most that ever stood between their count and their row, by member
    due,      \* history: members for whom a row reached the threshold of who wrote it
    undone    \* history: how often the plugin deleted a warning

vars == <<stored, saves, rows, vm, proc, top, peak, due, undone>>
history == <<top, peak, due, undone>>

Config == [enabled : BOOLEAN, commands : SUBSET Command,
           limit : 1..MaxLimit, threshold : 1..MaxLimit]
Default == [enabled |-> TRUE, commands |-> Command,
            limit |-> DefaultLimit, threshold |-> DefaultLimit]
Idle == [at |-> "idle", member |-> None, limit |-> 0, threshold |-> 0, count |-> 0,
         menu |-> {}, id |-> None]

\* What a request or a handler is at, and what it found before.
Work == [at : {"idle", "asked", "count", "create", "audit", "timeout", "mark",
               "list", "menu", "chosen", "verify", "delete", "log"},
         member : Member \cup {None}, limit : Nat, threshold : Nat, count : Nat,
         menu : SUBSET Warning, id : Warning \cup {None}]

TypeOK ==
    /\ stored \in Config \cup {None} /\ saves \in 0..MaxSaves
    /\ rows \in [Warning -> Member \cup {None, "gone"}]
    /\ vm \in Handler \cup {None}
    /\ proc \in [Process -> Work]
    /\ top \in 1..MaxLimit
    /\ peak \in [Member -> Nat] /\ due \subseteq Member
    /\ undone \in [Warning -> Nat]

Init ==
    /\ stored = None /\ saves = 0
    /\ rows = [w \in Warning |-> None]
    /\ vm = None
    /\ proc = [p \in Process |-> Idle]
    /\ top = DefaultLimit
    /\ peak = [m \in Member |-> 0] /\ due = {} /\ undone = [w \in Warning |-> 0]

WarningsOf(m) == {w \in Warning : rows[w] = m}

-----------------------------------------------------------------------------
(* The configuration.                                                      *)

\* clamp: nothing submitted is the default.
Clamp(n) == IF n = 0 THEN DefaultLimit ELSE
            IF n < 1 THEN 1 ELSE IF n > MaxLimit THEN MaxLimit ELSE n

\* Normalize.
Normalize(c) == [c EXCEPT !.limit = Clamp(@), !.threshold = Clamp(@)]

\* Load, for the dashboard and for the dispatcher.
Load == IF stored = None THEN Default ELSE Normalize(stored)

\* shared.guild_config, for the plugin: what is not a positive number is the default.
Positive(n) == IF n > 0 THEN n ELSE DefaultLimit
PluginConfig ==
    IF stored = None THEN Default
    ELSE [stored EXCEPT !.limit = Positive(@), !.threshold = Positive(@)]

Enabled(command) == Load.enabled /\ command \in Load.commands

\* Mutant of Written: only what is read is normalised.
WrittenRaw(c) == c

Written(c) == Normalize(c)

\* PutGuildConfig: the whole configuration, in one statement.
Save(enabled, commands, limit, threshold) ==
    /\ saves < MaxSaves
    /\ stored' = Written([enabled |-> enabled, commands |-> commands,
                          limit |-> limit, threshold |-> threshold])
    /\ saves' = saves + 1
    /\ UNCHANGED <<rows, vm, proc, history>>

-----------------------------------------------------------------------------
(* Who runs: a request of the dashboard at once, a handler of the plugin   *)
(* once it has the lock.                                                   *)

\* Mutant of Enters: the lock is not taken.
EntersAnyway(p) == UNCHANGED vm

Enters(p) == vm = None /\ vm' = p
Leaves(p) == vm' = IF vm = p THEN None ELSE vm

Becomes(p, new) == proc' = [proc EXCEPT ![p] = new]
Goes(p, at) == proc' = [proc EXCEPT ![p].at = at] /\ UNCHANGED vm
Ends(p) == Becomes(p, Idle) /\ Leaves(p)

\* With a configuration in hand.
Knowing(p, c, at) ==
    /\ proc' = [proc EXCEPT ![p].at = at, ![p].limit = c.limit, ![p].threshold = c.threshold]
    /\ top' = IF c.limit > top THEN c.limit ELSE top

-----------------------------------------------------------------------------
(* Warning a member: CreateWarning of the dashboard, /warn of the plugin.  *)

RequestWarn(p, m) ==
    /\ p \in Request /\ proc[p].at = "idle"
    /\ Enabled("warn")
    /\ proc' = [proc EXCEPT ![p] = [Idle EXCEPT !.at = "count", !.member = m,
                                    !.limit = Load.limit, !.threshold = Load.threshold]]
    /\ top' = IF Load.limit > top THEN Load.limit ELSE top
    /\ UNCHANGED <<stored, saves, rows, vm, peak, due, undone>>

\* The dispatcher asks whether the command is enabled, then calls the plugin.
CommandWarn(p, m) ==
    /\ p \in Handler /\ proc[p].at = "idle"
    /\ Enabled("warn")
    /\ Becomes(p, [Idle EXCEPT !.at = "asked", !.member = m])
    /\ UNCHANGED <<stored, saves, rows, vm, history>>

\* A configuration that cannot be read is the default, for the plugin.
EnterWarn(p) ==
    /\ proc[p].at = "asked" /\ proc[p].id = None
    /\ Enters(p)
    /\ \E c \in {PluginConfig, Default} : Knowing(p, c, "count")
    /\ UNCHANGED <<stored, saves, rows, peak, due, undone>>

\* Mutant of Full: one too many.
FullPast(p, n) == n > proc[p].limit

Full(p, n) == n >= proc[p].limit

\* Those that counted and have not written their row yet.
Standing(m) == {q \in Process : proc'[q].at = "create" /\ proc'[q].member = m}

Count(p) ==
    LET m == proc[p].member
        n == Cardinality(WarningsOf(m))
    IN /\ proc[p].at = "count"
       /\ \/ Full(p, n) /\ Ends(p)
          \/ /\ ~Full(p, n)
             /\ proc' = [proc EXCEPT ![p].at = "create", ![p].count = n]
             /\ UNCHANGED vm
       /\ LET standing == Cardinality(Standing(m))
          IN peak' = [peak EXCEPT ![m] = IF standing > @ THEN standing ELSE @]
       /\ UNCHANGED <<stored, saves, rows, top, due, undone>>

Create(p, w) ==
    LET m == proc[p].member
    IN /\ proc[p].at = "create" /\ rows[w] = None /\ \A v \in Warning : v < w => rows[v] # None
       /\ rows' = [rows EXCEPT ![w] = m]
       /\ due' = IF Cardinality(WarningsOf(m)) + 1 >= proc[p].threshold
                 THEN due \cup {m} ELSE due
       /\ Goes(p, "audit")
       /\ UNCHANGED <<stored, saves, top, peak, undone>>

\* Mutant of Reached: the warning just given is not counted.
ReachedBefore(p) == proc[p].count >= proc[p].threshold

Reached(p) == proc[p].count + 1 >= proc[p].threshold

Audit(p) ==
    /\ proc[p].at = "audit"
    /\ IF Reached(p) THEN Goes(p, "timeout") ELSE Ends(p)
    /\ UNCHANGED <<stored, saves, rows, history>>

\* TimeoutMember, which Discord may refuse.
Timeout(p) ==
    /\ proc[p].at = "timeout"
    /\ due' = due \ {proc[p].member}
    /\ Goes(p, "mark") \/ Ends(p)
    /\ UNCHANGED <<stored, saves, rows, top, peak, undone>>
Mark(p) ==
    /\ proc[p].at = "mark"
    /\ Ends(p)
    /\ UNCHANGED <<stored, saves, rows, history>>

-----------------------------------------------------------------------------
(* Taking one back: DeleteWarning of the dashboard, /unwarn of the plugin  *)
(* and the choice from its menu.                                           *)

\* The dashboard names any warning it saw.
RequestUnwarn(p, w) ==
    /\ p \in Request /\ proc[p].at = "idle" /\ rows[w] # None
    /\ Enabled("unwarn")
    /\ Becomes(p, [Idle EXCEPT !.at = "delete", !.id = w])
    /\ UNCHANGED <<stored, saves, rows, vm, history>>

CommandUnwarn(p, m) ==
    /\ p \in Handler /\ proc[p].at = "idle"
    /\ Enabled("unwarn")
    /\ Becomes(p, [Idle EXCEPT !.at = "list", !.member = m])
    /\ UNCHANGED <<stored, saves, rows, vm, history>>

\* The newest 25; a member has fewer.  The handler returns the menu.
List(p) ==
    /\ proc[p].at = "list" /\ vm = None
    /\ Becomes(p, IF WarningsOf(proc[p].member) = {} THEN Idle
                  ELSE [proc[p] EXCEPT !.at = "menu", !.menu = WarningsOf(proc[p].member)])
    /\ UNCHANGED <<stored, saves, rows, vm, history>>

\* Later the moderator chooses; for a component the plugin has to be enabled.
Choose(p, w) ==
    /\ proc[p].at = "menu" /\ w \in proc[p].menu
    /\ Load.enabled
    /\ Becomes(p, [Idle EXCEPT !.at = "chosen", !.member = proc[p].member, !.id = w])
    /\ UNCHANGED <<stored, saves, rows, vm, history>>
EnterChoice(p) ==
    /\ proc[p].at = "chosen"
    /\ Enters(p)
    /\ proc' = [proc EXCEPT ![p].at = "verify"]
    /\ UNCHANGED <<stored, saves, rows, history>>

\* Two minutes later, or when the warning is no longer listed, nothing is done.
Verify(p) ==
    /\ proc[p].at = "verify"
    /\ \/ proc[p].id \in WarningsOf(proc[p].member) /\ Goes(p, "delete")
       \/ Ends(p)
    /\ UNCHANGED <<stored, saves, rows, history>>

\* By its id; that nothing is deleted is no error.
Delete(p) ==
    LET w == proc[p].id
    IN /\ proc[p].at = "delete"
       /\ rows' = [rows EXCEPT ![w] = "gone"]
       /\ undone' = IF p \in Handler THEN [undone EXCEPT ![w] = @ + 1] ELSE undone
       /\ Goes(p, "log")
       /\ UNCHANGED <<stored, saves, top, peak, due>>
Log(p) ==
    /\ proc[p].at = "log"
    /\ Ends(p)
    /\ UNCHANGED <<stored, saves, rows, history>>

-----------------------------------------------------------------------------
\* A statement fails, the deadline of the call passes, or a menu is left alone.
Fails(p) ==
    /\ proc[p].at # "idle"
    /\ due' = IF proc[p].at \in {"audit", "timeout"} THEN due \ {proc[p].member} ELSE due
    /\ Ends(p)
    /\ UNCHANGED <<stored, saves, rows, top, peak, undone>>

Step(p) ==
    \/ \E m \in Member : RequestWarn(p, m) \/ CommandWarn(p, m) \/ CommandUnwarn(p, m)
    \/ \E w \in Warning : Create(p, w) \/ RequestUnwarn(p, w) \/ Choose(p, w)
    \/ EnterWarn(p) \/ Count(p) \/ Audit(p) \/ Timeout(p) \/ Mark(p)
    \/ List(p) \/ EnterChoice(p) \/ Verify(p) \/ Delete(p) \/ Log(p)
    \/ Fails(p)

Saves ==
    \E enabled \in BOOLEAN, commands \in Offered, limit, threshold \in Asked :
        Save(enabled, commands, limit, threshold)

Next == (\E p \in Process : Step(p)) \/ Saves

Spec == Init /\ [][Next]_vars

-----------------------------------------------------------------------------
(* Properties.                                                             *)

\* The count and the row are two statements: a member may have more warnings than
\* any limit that was gone by, but by no more than the most who ever stood between
\* the two at once, less one; handlers of the plugin alone never pass it.
OvershootBounded ==
    \A m \in Member :
        Cardinality(WarningsOf(m)) <= top + (IF peak[m] > 1 THEN peak[m] - 1 ELSE 0)

\* When a warning reaches the threshold, whoever gave it goes on to the timeout,
\* unless a step fails or the count was shared with another.
TimeoutFollows ==
    \A m \in due :
        peak[m] > 1 \/ \E p \in Process : proc[p].at \in {"audit", "timeout"} /\ proc[p].member = m

\* Whatever menus are open for a warning, the plugin deletes and logs it once.
UndoneOnce == \A w \in Warning : undone[w] <= 1

\* The dashboard and the plugin, which parse the stored configuration each in its
\* own way, go by the same limits.
ReadersAgree == Load = PluginConfig

\* The limits of a guild's configuration are those every reader goes by, and no
\* member passes them by more than shared counts allow.
LimitsHold == ReadersAgree /\ OvershootBounded

=============================================================================
