------------------------------ MODULE Automation ------------------------------
(***************************************************************************)
(* Events and jobs of plugins, and the actions they ask for                *)
(* (plugin/automation.go, plugin/actions.go).                              *)
(*                                                                         *)
(* A goroutine for each event, or for each time a job is due, calls one    *)
(* plugin after another, or the plugin for one guild after another.  What  *)
(* a call returns is a list of actions; each needs a token of its plugin,  *)
(* guild and type, and the permission for its type.  Plugins are loaded    *)
(* again and switched at any time between two steps.  Tokens are counted   *)
(* in time: one costs Cost units, so that parts of one are visible.        *)
(***************************************************************************)
EXTENDS Integers, Sequences, Functions

CONSTANTS
    Plugin, Guilds,
    Setups,            \* the plugins there may be, by identifier, and the guilds, as the
                       \* client lists them: a set of pairs of sequences
    Runner,            \* goroutines; bound: how many run at once
    Event,             \* kinds of events, each a permission of its own
    Type, Need,        \* the types of actions, and the permission for each
    Requests, Grants,  \* the permissions plugins ask for, and those they are granted
    Answers,           \* the lists of actions a plugin may return
    Burst, Cost,       \* tokens at most, and the time one takes
    MaxClock,          \* bound of the clock
    MaxStarts,         \* bound: how many events and jobs there are
    MaxReloads,        \* bound: how often plugins are loaded or switched
    Watched,           \* bound: the keys whose uses one may count
    None

Key == Plugin \X Guilds \X Type
Full == Burst * Cost

\* The limiter's state of a key.
Bucket == [tokens : 0..Full, last : 0..MaxClock]

\* An event is no job, and an answer is a list of actions.
ConstantsOK ==
    /\ Setups \subseteq Seq(Plugin) \X Seq(Guilds)
    /\ "job" \notin Event
    /\ \A actions \in Answers : actions \in Seq(Type)
    /\ Burst \in Nat \ {0} /\ Cost \in Nat /\ MaxClock \in Nat
    /\ Watched \subseteq Key /\ None \notin Bucket

VARIABLES
    plugins, guilds,   \* those of this behaviour
    loaded,    \* of each plugin that is loaded, the permissions requested and granted
    on,        \* the plugins whose module is on
    clock,
    bucket,    \* the limiter's state of each key, or None
    proc,
    starts, reloads,
    window,    \* history: the uses of a key counted since some moment, or None
    owed,      \* history: the turns of each runner that nothing excuses from
    could      \* history: what was granted at some time since each runner began

setup == <<plugins, guilds>>
vars == <<setup, loaded, on, clock, bucket, proc, starts, reloads, window, owed, could>>

Load == [requested : Requests, granted : Grants]
Turn == Plugin \X Guilds
Idle == [at |-> "idle", event |-> None, turns |-> <<>>, perms |-> {}, actions |-> <<>>, now |-> 0]

\* What a goroutine is at.
Work == [at : {"idle", "permit", "call", "allow", "send"}, event : Event \cup {"job", None},
         turns : Seq(Turn), perms : SUBSET UNION Requests, actions : Seq(Type), now : 0..MaxClock]

Typed ==
    /\ loaded \in [Plugin -> Load \cup {None}] /\ on \subseteq Plugin
    /\ clock \in 0..MaxClock
    /\ bucket \in [Key -> Bucket \cup {None}]
    /\ proc \in [Runner -> Work]
    /\ window = None \/ window \in [key : Key, from : 0..MaxClock, used : Nat, late : Nat]
    /\ owed \in [Runner -> SUBSET Turn] /\ could \in [Runner -> SUBSET (Plugin \X UNION Grants)]
TypeOK == setup \in Setups /\ Typed

\* At first each plugin is granted the most there is to grant.
Init ==
    /\ \E s \in Setups : plugins = s[1] /\ guilds = s[2]
    /\ \E load \in Load : /\ \A granted \in Grants : granted \subseteq load.granted
                         /\ loaded = [p \in Plugin |-> IF p \in Range(plugins) THEN load ELSE None]
    /\ on = Range(plugins)
    /\ clock = 0
    /\ bucket = [k \in Key |-> None]
    /\ proc = [r \in Runner |-> Idle]
    /\ starts = 0 /\ reloads = 0
    /\ window = None
    /\ owed = [r \in Runner |-> {}] /\ could = [r \in Runner |-> {}]

-----------------------------------------------------------------------------
(* A goroutine begins.                                                     *)

\* Mutant of Effective: what is requested is not held against the grants.
EffectiveAll(requested, granted) == requested

Effective(requested, granted) == requested \cap granted

\* EffectivePermissions of a plugin, none of one that is not loaded.
Can(p) == IF loaded[p] = None THEN {} ELSE Effective(loaded[p].requested, loaded[p].granted)

Held == UNION {{p} \X loaded[p].granted : p \in {q \in Plugin : loaded[q] # None}}

Begins(r, work) ==
    /\ proc[r].at = "idle" /\ starts < MaxStarts /\ starts' = starts + 1
    /\ proc' = [proc EXCEPT ![r] = work]
    /\ owed' = [owed EXCEPT ![r] = {t \in Range(work.turns) : work.event \in Can(t[1])}]
    /\ could' = [could EXCEPT ![r] = Held]
    /\ UNCHANGED <<loaded, on, clock, bucket, reloads, window>>

\* FireEvent: those that are loaded and on by now, if any, in the order of their names.
Ascends(f) == \A i, j \in DOMAIN f : i < j => f[i] < f[j]
Fire(r, e, g) ==
    \E n \in DOMAIN plugins : \E f \in [1..n -> DOMAIN plugins] :
        /\ Range(f) = {i \in DOMAIN plugins : loaded[plugins[i]] # None /\ plugins[i] \in on}
        /\ Ascends(f)
        /\ Begins(r, [Idle EXCEPT !.at = "permit", !.event = e,
                                  !.turns = [i \in DOMAIN f |-> <<plugins[f[i]], g>>]])

\* runJob, for every guild with what was granted at its start.
RunJob(r, p) ==
    /\ p \in on /\ "job" \in Can(p) /\ guilds # <<>>
    /\ Begins(r, [Idle EXCEPT !.at = "call", !.event = "job", !.perms = Can(p),
                              !.turns = [i \in DOMAIN guilds |-> <<p, guilds[i]>>]])

-----------------------------------------------------------------------------
(* One call after another.                                                 *)

Who(r) == Head(proc[r].turns)[1]

Passes(r) ==
    LET rest == Tail(proc[r].turns)
        next == IF proc[r].event = "job"
                THEN [proc[r] EXCEPT !.at = "call", !.turns = rest, !.actions = <<>>, !.now = 0]
                ELSE [Idle EXCEPT !.at = "permit", !.event = proc[r].event, !.turns = rest]
    IN /\ proc' = [proc EXCEPT ![r] = IF rest = <<>> THEN Idle ELSE next]
       /\ could' = IF rest = <<>> THEN [could EXCEPT ![r] = {}] ELSE could

\* eventAllowed, by permissions read before the call; they are used after it.
Permit(r) ==
    /\ proc[r].at = "permit"
    /\ IF proc[r].event \in Can(Who(r))
       THEN /\ proc' = [proc EXCEPT ![r].at = "call", ![r].perms = Can(Who(r))]
            /\ UNCHANGED could
       ELSE Passes(r)
    /\ UNCHANGED <<loaded, on, clock, bucket, starts, reloads, window, owed>>

\* Mutant of Failed: an error ends the goroutine.
FailedAll(r) ==
    /\ proc' = [proc EXCEPT ![r] = Idle]
    /\ could' = [could EXCEPT ![r] = {}]

Failed(r) == Passes(r)

KeyOf(r) == Head(proc[r].turns) \o <<Head(proc[r].actions)>>

\* On to the first of these actions: the time is read before the lock of the limiter
\* is taken.
Proceeds(r, actions) ==
    IF actions = <<>> THEN Passes(r)
    ELSE /\ proc' = [proc EXCEPT ![r].at = "allow", ![r].actions = actions, ![r].now = clock]
         /\ UNCHANGED could

\* HandleEvent and HandleJob: nothing is loaded, an error, the deadline, no actions
\* or a list in which one is malformed; or actions.
Call(r) ==
    /\ proc[r].at = "call"
    /\ owed' = [owed EXCEPT ![r] = @ \ {Head(proc[r].turns)}]
    /\ \/ Failed(r)
       \/ loaded[Who(r)] # None /\ \E actions \in Answers : Proceeds(r, actions)
    /\ UNCHANGED <<loaded, on, clock, bucket, starts, reloads, window>>

-----------------------------------------------------------------------------
(* Its actions.                                                            *)

Least(a, b) == IF a < b THEN a ELSE b

\* What is saved up by now; time that went backwards counts as none.
Saved(b, now) == Least(Full, b.tokens + (IF now > b.last THEN now - b.last ELSE 0))

\* Mutant of Refused: a refusal does not put the time forward.
RefusedThen(b, now) == [tokens |-> Saved(b, now), last |-> b.last]

Refused(b, now) == [tokens |-> Saved(b, now), last |-> now]

Used(b, now) == [tokens |-> Saved(b, now) - Cost, last |-> now]

\* Mutant of Permits: the permission for the event is enough.
PermitsAny(perms, type) == perms # {}

Permits(perms, type) == Need[type] \in perms

\* Allow, under the lock; then what the type of the action asks for.
Allow(r) ==
    LET k == KeyOf(r)
        now == proc[r].now
        first == bucket[k] = None
        enough == first \/ Saved(bucket[k], now) >= Cost
    IN /\ proc[r].at = "allow"
       /\ bucket' = [bucket EXCEPT ![k] = IF first THEN [tokens |-> Full - Cost, last |-> now]
                                          ELSE IF enough THEN Used(@, now) ELSE Refused(@, now)]
       /\ window' = IF window = None \/ window.key # k THEN window
                    ELSE [window EXCEPT !.used = IF enough THEN @ + 1 ELSE @,
                                        !.late = @ + clock - now]
       /\ IF enough /\ Permits(proc[r].perms, Head(proc[r].actions))
          THEN proc' = [proc EXCEPT ![r].at = "send", ![r].now = 0] /\ UNCHANGED could
          ELSE Proceeds(r, Tail(proc[r].actions))
       /\ UNCHANGED <<loaded, on, clock, starts, reloads, owed>>

\* The call of Discord, if the identifiers and the message are right; it may fail.
Send(r) ==
    /\ proc[r].at = "send"
    /\ Proceeds(r, Tail(proc[r].actions))
    /\ UNCHANGED <<loaded, on, clock, bucket, starts, reloads, window, owed>>

-----------------------------------------------------------------------------
(* Beside them.                                                            *)

\* LoadAll replaces the plugins; one may be gone or have other permissions.
Reload(p) ==
    /\ reloads < MaxReloads /\ reloads' = reloads + 1
    /\ \E load \in (Load \cup {None}) \ {loaded[p]} : loaded' = [loaded EXCEPT ![p] = load]
    /\ owed' = [r \in Runner |-> {t \in owed[r] : proc[r].event \in Can(t[1])'}]
    /\ could' = [r \in Runner |-> IF proc[r].at = "idle" THEN {} ELSE could[r] \cup Held']
    /\ UNCHANGED <<on, clock, bucket, proc, starts, window>>
Switch(p) ==
    /\ reloads < MaxReloads /\ reloads' = reloads + 1
    /\ on' = IF p \in on THEN on \ {p} ELSE on \cup {p}
    /\ UNCHANGED <<loaded, clock, bucket, proc, starts, window, owed, could>>
Tick ==
    /\ clock < MaxClock /\ clock' = clock + 1
    /\ UNCHANGED <<loaded, on, bucket, proc, starts, reloads, window, owed, could>>

\* One begins to count the uses of a key.
Watch(k) ==
    /\ window = None
    /\ window' = [key |-> k, from |-> clock, used |-> 0, late |-> 0]
    /\ UNCHANGED <<loaded, on, clock, bucket, proc, starts, reloads, owed, could>>

Step ==
    \/ \E r \in Runner :
         \/ \E e \in Event, g \in Range(guilds) : Fire(r, e, g)
         \/ \E p \in Range(plugins) : RunJob(r, p)
         \/ Permit(r) \/ Call(r) \/ Allow(r) \/ Send(r)
    \/ \E p \in Range(plugins) : Reload(p) \/ Switch(p)
    \/ \E k \in Watched : Watch(k)
    \/ Tick

Next == Step /\ UNCHANGED setup

Spec == Init /\ [][Next]_vars

-----------------------------------------------------------------------------
(* Properties.                                                             *)

\* Whenever one begins to count, the limiter lets through no more than a full bucket
\* and what the time since then is worth, and the time goroutines took from reading
\* the clock to the lock, where one that comes late puts the limiter's time back.
TokenBudget ==
    window # None =>
        window.used * Cost <= Full + (clock - window.from) + window.late

\* Whatever others return and however they fail, an event is handed to every
\* subscriber, and a job runs for every guild, if the plugin stays loaded and allowed.
ReachesAll == \A r \in Runner : proc[r].at = "idle" => owed[r] = {}

\* What is done for a plugin it was granted at some time since the event came or
\* the job was due, although the permissions are read before the call and a plugin
\* asks for what it likes.
ActsGranted ==
    \A r \in Runner :
        proc[r].at = "send" => <<Who(r), Need[Head(proc[r].actions)]>> \in could[r]

\* FireEvent and runJob hand everything on and do what was granted, no more, whatever
\* plugins return and reloads change meanwhile.
RunsAsGranted == ReachesAll /\ ActsGranted

=============================================================================
