---------------------------- MODULE ModuleRuntime ----------------------------
(***************************************************************************)
(* Turning plugins on and off while the bot runs: the stored overrides     *)
(* (module_states), the plugin host's loaded set, the bot's catalog        *)
(* (runtime_catalog.go), the commands registered with Discord              *)
(* (commands/registration.go) and the cron that runs plugin jobs           *)
(* (plugin/automation.go), all of them brought up to date by one           *)
(* unlocked sequence of steps, reloadModules (module_state.go).            *)
(*                                                                         *)
(* A request runs that sequence on a goroutine of its own: the bot's start,*)
(* a /modules or /plugins command, or a dashboard request.  A dashboard    *)
(* request's context ends when it returns; the others' does not.           *)
(***************************************************************************)
EXTENDS Integers

CONSTANTS
    Plugin,      \* ids of the plugins that are ever on disk
    Command,     \* names of plugin slash commands
    NoPlugin,    \* no route
    CmdOf,       \* the commands each plugin declares
    HasJob,      \* plugins that declare a job with a valid schedule
    DefaultOn,   \* plugins the module seed enables
    LoadRank,    \* order of the plugin directories
    IdRank,      \* order of the plugin ids
    Target,      \* where commands are registered: globally, in a guild
    Admin,       \* goroutines that reload modules
    Boot,        \* Bot.Start's, one of them
    Dashboard,   \* those that serve a dashboard request
    OneAtATime,  \* whether the owner waits for a request before the next
    MaxStops     \* bound on goroutines about to stop the cron

ASSUME ModuleAssumption ==
    /\ NoPlugin \notin Plugin
    /\ CmdOf \in [Plugin -> SUBSET Command]
    /\ HasJob \subseteq Plugin /\ DefaultOn \subseteq Plugin
    /\ LoadRank \in [Plugin -> Nat] /\ IdRank \in [Plugin -> Nat]
    /\ \A p, q \in Plugin : LoadRank[p] = LoadRank[q] => p = q
    /\ \A p, q \in Plugin : IdRank[p] = IdRank[q] => p = q
    /\ Boot \in Admin /\ Dashboard \subseteq Admin \ {Boot}
    /\ OneAtATime \in BOOLEAN
    /\ MaxStops \in Nat

VARIABLES
    override,    \* the module_states table
    disk,        \* plugins whose directory loads without an error
    host,        \* Host.plugins
    module,      \* Bot.modules: absent, off or on
    route,       \* Bot.pluginCommands
    registered,  \* plugin commands Discord shows, per target
    cron,        \* plugins whose jobs the running cron has; {}: no cron
    stops,       \* goroutines whose context ended, about to call Stop
    booted,      \* Bot.Start returned: gateway commands are served
    admin,       \* each goroutine's place in reloadModules and its locals
    last,        \* history: how the last reload to end went
    owed,        \* history: since the cron was last built, a reload changed what
                 \* it is built from and ended in an error
    ended        \* history: since then, a request's context ended

vars == <<override, disk, host, module, route, registered, cron, stops, booted,
          admin, last, owed, ended>>

Places == {"idle", "scan", "swap", "list", "modules", "routes", "creates",
           "register", "stop", "start", "open"}

\* Locals: LoadAll's next plugins, the states refreshRuntimeCatalog read, the
\* module map it built, the creates and the targets left to register.
Locals == [at : Places, next : SUBSET Plugin,
           states : [Plugin -> {"unset", "on", "off"}],
           built : [Plugin -> {"absent", "off", "on"}],
           creates : SUBSET Command, left : SUBSET Target]

Fresh == [at |-> "idle", next |-> {}, states |-> [p \in Plugin |-> "unset"],
          built |-> [p \in Plugin |-> "absent"], creates |-> {}, left |-> {}]

TypeOK ==
    /\ override \in [Plugin -> {"unset", "on", "off"}]
    /\ disk \subseteq Plugin /\ host \subseteq Plugin
    /\ module \in [Plugin -> {"absent", "off", "on"}]
    /\ route \in [Command -> Plugin \cup {NoPlugin}]
    /\ registered \in [Target -> SUBSET Command]
    /\ cron \subseteq HasJob
    /\ stops \in Nat
    /\ booted \in BOOLEAN
    /\ admin \in [Admin -> Locals]
    /\ last \in {"none", "ok", "error", "refused"}
    /\ owed \in BOOLEAN /\ ended \in BOOLEAN

Init ==
    /\ override \in [Plugin -> {"unset", "on", "off"}]
    /\ disk = Plugin
    /\ host = {}
    /\ module = [p \in Plugin |-> "absent"]
    /\ route = [c \in Command |-> NoPlugin]
    /\ registered = [t \in Target |-> {}]
    /\ cron = {}
    /\ stops = 0
    /\ booted = FALSE
    /\ admin = [a \in Admin |-> IF a = Boot THEN [Fresh EXCEPT !.at = "scan"] ELSE Fresh]
    /\ last = "none"
    /\ owed = FALSE /\ ended = FALSE

-----------------------------------------------------------------------------
(* What the catalog is computed from.                                      *)

\* The override if there is one, else the seed (PluginDefaultEnabled).
Resolved(p, states) == IF states[p] = "unset" THEN p \in DefaultOn ELSE states[p] = "on"

\* moduleEnabled.
Enabled(p) == module[p] = "on"

\* addCommands: the first directory to declare a name owns it in the host.
Owner(c) ==
    LET declaring == {p \in host : c \in CmdOf[p]}
    IN IF declaring = {} THEN NoPlugin
       ELSE CHOOSE p \in declaring : \A q \in declaring : LoadRank[p] <= LoadRank[q]

\* Mutant of Routed: a plugin that is off takes the name.
RoutedToOff(c, mods) ==
    LET on == {p \in Plugin : mods[p] # "absent" /\ c \in CmdOf[p]}
    IN IF on = {} THEN NoPlugin
       ELSE CHOOSE p \in on : \A q \in on : IdRank[p] <= IdRank[q]

\* appendPluginModules: the first enabled plugin by id is routed a name.
Routed(c, mods) ==
    LET on == {p \in Plugin : mods[p] = "on" /\ c \in CmdOf[p]}
    IN IF on = {} THEN NoPlugin
       ELSE CHOOSE p \in on : \A q \in on : IdRank[p] <= IdRank[q]

\* refreshRuntimeCatalog's module map, over the host's plugins.
ModulesFrom(loaded, states) ==
    [p \in Plugin |-> IF p \notin loaded THEN "absent"
                      ELSE IF Resolved(p, states) THEN "on" ELSE "off"]

\* Mutant of Creates: Owner's first directory is not asked whether it is on.
CreatesOfAnyOn ==
    LET allowed == {p \in host : Enabled(p)}
    IN {c \in Command : \E p \in host : c \in CmdOf[p] /\ (allowed = {} \/ p \in allowed)}

\* CommandCreatesFiltered, given enabledPluginIDsForHost: an empty set of
\* allowed ids filters nothing.
Creates ==
    LET allowed == {p \in host : Enabled(p)}
    IN {c \in Command : Owner(c) # NoPlugin /\ (allowed = {} \/ Owner(c) \in allowed)}

\* enabledPluginJobs.
EnabledJobs == {p \in HasJob \cap host : Enabled(p)}

-----------------------------------------------------------------------------
(* A request, up to the reload it starts.                                  *)

Idle(a) == admin[a].at = "idle"

\* Gateway events are served one after another, and only once Start returned;
\* dashboard requests come at any time.
MayBegin(a) ==
    /\ Idle(a)
    /\ OneAtATime => \A b \in Admin : Idle(b)
    /\ a \in Dashboard \/ booted
    /\ stops < MaxStops

Enter(a) == admin' = [admin EXCEPT ![a] = [Fresh EXCEPT !.at = "scan"]]

\* setModuleEnabled: an unknown module is refused, else the row is written
\* before the reload.
SetEnabled(a, p, on) ==
    /\ MayBegin(a)
    /\ module[p] # "absent"
    /\ override' = [override EXCEPT ![p] = IF on THEN "on" ELSE "off"]
    /\ Enter(a)
    /\ UNCHANGED <<disk, host, module, route, registered, cron, stops, booted,
                   last, owed, ended>>

\* resetModule: the row is deleted.
Reset(a, p) ==
    /\ MayBegin(a)
    /\ module[p] # "absent"
    /\ override' = [override EXCEPT ![p] = "unset"]
    /\ Enter(a)
    /\ UNCHANGED <<disk, host, module, route, registered, cron, stops, booted,
                   last, owed, ended>>

Reload(a) ==
    /\ MayBegin(a)
    /\ Enter(a)
    /\ UNCHANGED <<override, disk, host, module, route, registered, cron, stops, booted,
                   last, owed, ended>>

\* An installation, an edit or a removal under the plugin directories.
DiskChanges(S) ==
    /\ disk # S
    /\ disk' = S
    /\ UNCHANGED <<override, host, module, route, registered, cron, stops, booted, admin,
                   last, owed, ended>>

-----------------------------------------------------------------------------
(* reloadModules.                                                          *)

\* Each step hands the next at most one local; the others are not read again.
Go(a, at) == admin' = [admin EXCEPT ![a] = [Fresh EXCEPT !.at = at]]

\* Any of its steps may return an error, and nothing after it is done: the
\* directories cannot be read, the table is busy, Discord refuses.
Fail(a) ==
    /\ admin[a].at \in {"scan", "list", "register"}
    /\ admin' = [admin EXCEPT ![a] = Fresh]
    /\ last' = IF admin[a].at = "register" THEN "refused" ELSE "error"
    /\ owed' = (owed \/ admin[a].at # "scan")
    /\ UNCHANGED <<override, disk, host, module, route, registered, cron, stops, booted, ended>>

\* LoadAll reads the directories and loads every plugin it can ...
Scan(a) ==
    /\ admin[a].at = "scan"
    /\ admin' = [admin EXCEPT ![a] = [Fresh EXCEPT !.at = "swap", !.next = disk]]
    /\ UNCHANGED <<override, disk, host, module, route, registered, cron, stops, booted,
                   last, owed, ended>>

\* ... and swaps them in under the host's lock.
Swap(a) ==
    /\ admin[a].at = "swap"
    /\ host' = admin[a].next
    /\ Go(a, "list")
    /\ UNCHANGED <<override, disk, module, route, registered, cron, stops, booted,
                   last, owed, ended>>

\* refreshRuntimeCatalog reads the overrides ...
List(a) ==
    /\ admin[a].at = "list"
    /\ admin' = [admin EXCEPT ![a] = [Fresh EXCEPT !.at = "modules", !.states = override]]
    /\ UNCHANGED <<override, disk, host, module, route, registered, cron, stops, booted,
                   last, owed, ended>>

\* ... builds its maps from them and from Host.Infos, and assigns them to the
\* bot one by one, with no lock: b.modules first ...
PublishModules(a) ==
    /\ admin[a].at = "modules"
    /\ LET built == ModulesFrom(host, admin[a].states)
       IN /\ module' = built
          /\ admin' = [admin EXCEPT ![a] = [Fresh EXCEPT !.at = "routes", !.built = built]]
    /\ UNCHANGED <<override, disk, host, route, registered, cron, stops, booted,
                   last, owed, ended>>

\* ... then b.pluginCommands.
PublishRoutes(a) ==
    /\ admin[a].at = "routes"
    /\ route' = [c \in Command |-> Routed(c, admin[a].built)]
    /\ Go(a, "creates")
    /\ UNCHANGED <<override, disk, host, module, registered, cron, stops, booted,
                   last, owed, ended>>

\* registerCommands makes the list once, from the bot's fields ...
Compose(a) ==
    /\ admin[a].at = "creates"
    /\ admin' = [admin EXCEPT ![a] = [Fresh EXCEPT !.at = "register", !.creates = Creates,
                                               !.left = Target]]
    /\ UNCHANGED <<override, disk, host, module, route, registered, cron, stops, booted,
                   last, owed, ended>>

\* ... and puts it to one target after another.
Register(a, t) ==
    /\ admin[a].at = "register"
    /\ t \in admin[a].left
    /\ registered' = [registered EXCEPT ![t] = admin[a].creates]
    /\ LET left == admin[a].left \ {t}
       IN admin' = [admin EXCEPT ![a] =
                       [admin[a] EXCEPT !.left = left,
                                        !.at = IF left = {} THEN "stop" ELSE "register"]]
    /\ UNCHANGED <<override, disk, host, module, route, cron, stops, booted,
                   last, owed, ended>>

\* Mutant of StopCron: Restart is Start alone.
StopCronNot(a) ==
    /\ admin[a].at = "stop"
    /\ Go(a, "start")
    /\ UNCHANGED <<override, disk, host, module, route, registered, cron, stops, booted,
                   last, owed, ended>>

\* Automation.Restart: Stop and Start each hold the lock, not the pair.
StopCron(a) ==
    /\ admin[a].at = "stop"
    /\ cron' = {}
    /\ Go(a, "start")
    /\ UNCHANGED <<override, disk, host, module, route, registered, stops, booted,
                   last, owed, ended>>

BuildCron ==
    IF cron = {} THEN cron' = EnabledJobs /\ owed' = FALSE /\ ended' = FALSE
                 ELSE UNCHANGED <<cron, owed, ended>>

\* Automation.Start leaves a running cron alone; one it starts comes with a
\* goroutine that calls Stop when the request's context ends, whatever cron
\* runs by then.  A dashboard request returns here, and its context ends.
StartCron(a) ==
    /\ admin[a].at = "start"
    /\ BuildCron
    /\ stops' = IF a \in Dashboard /\ cron = {} /\ EnabledJobs # {} THEN stops + 1 ELSE stops
    /\ admin' = [admin EXCEPT ![a] = IF a = Boot THEN [Fresh EXCEPT !.at = "open"] ELSE Fresh]
    /\ last' = "ok"
    /\ UNCHANGED <<override, disk, host, module, route, registered, booted>>

\* The goroutine of a request that returned.
ContextEnds ==
    /\ stops > 0
    /\ stops' = stops - 1
    /\ cron' = {}
    /\ ended' = TRUE
    /\ UNCHANGED <<override, disk, host, module, route, registered, booted, admin, last, owed>>

\* Start opens the gateway and starts the cron, if none runs; the gateway may
\* refuse, and the bot then serves the dashboard only.
Open ==
    /\ admin[Boot].at = "open"
    /\ \/ (booted' = TRUE /\ BuildCron)
       \/ UNCHANGED <<booted, cron, owed, ended>>
    /\ admin' = [admin EXCEPT ![Boot] = Fresh]
    /\ UNCHANGED <<override, disk, host, module, route, registered, stops, last>>

Reloading(a) ==
    \/ Fail(a) \/ Scan(a) \/ Swap(a) \/ List(a) \/ PublishModules(a)
    \/ PublishRoutes(a) \/ Compose(a) \/ \E t \in Target : Register(a, t)
    \/ StopCron(a) \/ StartCron(a)

Next ==
    \/ \E a \in Admin \ {Boot} :
         \/ \E p \in Plugin : Reset(a, p) \/ \E on \in BOOLEAN : SetEnabled(a, p, on)
         \/ Reload(a)
    \/ \E a \in Admin : Reloading(a)
    \/ \E S \in SUBSET Plugin : DiskChanges(S)
    \/ ContextEnds
    \/ Open

Spec == Init /\ [][Next]_vars

-----------------------------------------------------------------------------
(* Properties.                                                             *)

Quiet == \A a \in Admin : Idle(a)

\* One request at a time: once reloadModules got past the catalog, whether or
\* not Discord then took the commands, the catalog follows the stored overrides
\* and the seed, and no command is routed to a plugin that is off or gone.
CatalogFollowsStore ==
    OneAtATime /\ Quiet /\ last \in {"ok", "refused"} =>
        /\ \A p \in Plugin :
              /\ p \notin host => module[p] = "absent"
              /\ p \in host /\ override[p] = "unset" =>
                    module[p] = IF p \in DefaultOn THEN "on" ELSE "off"
              /\ p \in host /\ override[p] # "unset" => module[p] = override[p]
        /\ \A c \in Command :
              IF \E p \in host : Enabled(p) /\ c \in CmdOf[p]
              THEN Enabled(route[c]) /\ c \in CmdOf[route[c]]
              ELSE route[c] = NoPlugin

\* One request at a time: after a reload that succeeded with a plugin on, every
\* command Discord shows is routed, and the host runs it in a plugin that is on,
\* also when two plugins declare the same name.
RegisteredRuns ==
    OneAtATime /\ Quiet /\ last = "ok" /\ (\E p \in host : Enabled(p)) =>
        \A t \in Target : \A c \in registered[t] :
            route[c] # NoPlugin /\ Enabled(Owner(c))

\* However requests interleave, and although Stop and Start of one can have
\* another's between them, the cron runs the jobs of exactly the plugins that
\* are on, unless a reload failed after its catalog or a dashboard request's
\* context stopped it.
CronIsCurrent == Quiet /\ ~owed /\ ~ended => cron = EnabledJobs

=============================================================================
