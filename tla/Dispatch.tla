------------------------------- MODULE Dispatch -------------------------------
(***************************************************************************)
(* How the bot answers interactions: commands and autocomplete             *)
(* (runtime/discord/commands/application.go), components and modals        *)
(* (component_dispatch.go, modal_dispatch.go), with restrictions,          *)
(* cooldowns and the switches of modules, plugins and commands.            *)
(*                                                                         *)
(* The gateway serves one interaction at a time.  Reloads of the plugins   *)
(* and saves of the guild's configuration, which come from the dashboard,  *)
(* may fall between any two steps of a handler.  Command names are not     *)
(* shared by plugins here (ModuleRuntime has those).                       *)
(***************************************************************************)
EXTENDS Naturals

CONSTANTS
    User, Owner,        \* Discord users; the one the bot belongs to
    Guild,              \* the guild
    Plugin,             \* plugin ids
    NoPlugin,           \* a custom id that names none
    Builtin,            \* commands in Go: block and unblock
    Slash,              \* plugin commands, with their subcommand
    Autocomplete,       \* option values asked for while a command is typed
    Component, Modal,   \* custom ids
    PluginOf,           \* the plugin of each of them
    Root, RootOf,       \* the name of each command, without its subcommand
    Bypass,             \* slashBypass
    Override,           \* slashCooldownOverrides: names and subcommands to times
    SlashCooldown, ComponentCooldown, ModalCooldown,
    MaxClock            \* bound on the clock

Command == Builtin \cup Slash
OfPlugin == Slash \cup Autocomplete \cup Component \cup Modal
Target == Command \cup OfPlugin

ASSUME DispatchAssumption ==
    /\ Owner \in User /\ Guild \notin User /\ NoPlugin \notin Plugin
    /\ Builtin \cap OfPlugin = {}
    /\ PluginOf \in [OfPlugin -> Plugin \cup {NoPlugin}]
    /\ \A c \in Slash \cup Autocomplete : PluginOf[c] \in Plugin
    /\ RootOf \in [Command \cup Autocomplete -> Root]
    /\ Root \cap Plugin = {}
    /\ DOMAIN Override \subseteq Command \cup Root
    /\ \A name \in DOMAIN Override : Override[name] \in Nat
    /\ SlashCooldown \in Nat /\ ComponentCooldown \in Nat /\ ModalCooldown \in Nat
    /\ MaxClock \in Nat \ {0}

VARIABLES
    clock,       \* 0 is the zero time
    restricted,  \* restrictions: users, the guild
    off,         \* the guild's configuration: plugins and commands that are off
    loaded,      \* Host.plugins
    module,      \* Bot.modules: the plugins that are on
    routed,      \* Bot.pluginCommands: the plugins whose commands are there
    listed,      \* Bot.pluginRoutes
    reload,      \* the reload under way
    cooled,      \* cooldownTracker.last
    event,       \* the interaction served, or the last one, as Discord has it
    run,         \* locals of its handler
    seen,        \* history: what was on since the interaction came, at some time
    used         \* history: when each user was last let through

switches == <<off, loaded, module, routed, listed, reload>>
cools == <<cooled, used>>
vars == <<clock, restricted, switches, cools, event, run, seen>>

\* commandCooldown, componentCooldown and modalCooldown.
Duration(t) ==
    IF t \in Component THEN ComponentCooldown
    ELSE IF t \in Modal THEN ModalCooldown
    ELSE IF RootOf[t] \in Bypass THEN 0
    ELSE IF t \in DOMAIN Override THEN Override[t]
    ELSE IF RootOf[t] \in DOMAIN Override THEN Override[RootOf[t]]
    ELSE SlashCooldown

\* One key for each subcommand, for the components of a plugin, for its modals.
Key == Command \cup ({"component", "modal"} \X (Plugin \cup {NoPlugin}))
KeyOf(t) == IF t \in Component THEN <<"component", PluginOf[t]>>
            ELSE IF t \in Modal THEN <<"modal", PluginOf[t]>> ELSE t

New(u, t, dm) == [by |-> u, of |-> t, dm |-> dm,
                  answer |-> "none", lost |-> FALSE, misused |-> FALSE]
Idle == [at |-> "idle", snapshot |-> {}, deferred |-> FALSE, say |-> "initial", again |-> FALSE]
\* What a guild's configuration can switch: plugins and their commands.
Switch == Plugin \cup {RootOf[c] : c \in Slash \cup Autocomplete}
Nothing == [module |-> {}, guild |-> {}]

TypeOK ==
    /\ clock \in 1..MaxClock
    /\ restricted \subseteq User \cup {Guild}
    /\ off \subseteq Switch
    /\ loaded \subseteq Plugin /\ module \subseteq Plugin
    /\ routed \subseteq Plugin /\ listed \subseteq Plugin
    /\ reload \in [at : {"idle", "swapped", "half"}, on : SUBSET Plugin, all : SUBSET Plugin]
    /\ cooled \in [User \X Key -> 0..clock]
    /\ event \in [by : User, of : Target, dm : BOOLEAN,
                  answer : {"none", "thinking", "shown"}, lost : BOOLEAN, misused : BOOLEAN]
    /\ run \in [at : {"idle", "restrict", "cooldown", "lookup", "module", "config", "call",
                      "running", "reply"},
                snapshot : SUBSET Plugin, deferred : BOOLEAN, say : {"initial", "update"},
                again : BOOLEAN]
    /\ seen \in [module : SUBSET Plugin, guild : SUBSET Switch]
    /\ used \in [User \X Key -> 0..clock]

Init ==
    /\ clock = 1
    /\ restricted = {} /\ off = {}
    /\ loaded = Plugin /\ module = Plugin /\ routed = Plugin /\ listed = Plugin
    /\ reload = [at |-> "idle", on |-> {}, all |-> {}]
    /\ cooled = [k \in User \X Key |-> 0]
    /\ event \in {[New(Owner, t, FALSE) EXCEPT !.answer = "shown"] : t \in Target}
    /\ run = Idle
    /\ seen = Nothing
    /\ used = cooled

-----------------------------------------------------------------------------
\* The handler's steps.

At(place) == run.at = place
Goes(place) == run' = [run EXCEPT !.at = place] /\ UNCHANGED seen
Begins == run' = [run EXCEPT !.at = "running", !.snapshot = {}] /\ seen' = Nothing

\* The handler answers and returns; an answer that fails is followed by
\* another where the code says so (again).
Answers(say, again) ==
    /\ run' = [run EXCEPT !.at = "reply", !.snapshot = {}, !.say = say, !.again = again]
    /\ seen' = Nothing

IsOn == [module |-> module, guild |-> Switch \ off]

\* OnCommand, onComponent, onModal and OnAutocomplete begin.  commandDispatcher
\* copies the routes of commands.
Receive ==
    /\ run.at = "idle"
    /\ \E u \in User, t \in Target, dm \in BOOLEAN :
        /\ event' = New(u, t, dm)
        /\ run' = [Idle EXCEPT !.snapshot = IF t \in Slash \cup Autocomplete THEN routed ELSE {},
                               !.at = IF t \in Command THEN "restrict"
                                      ELSE IF t \in Autocomplete THEN "lookup" ELSE "cooldown"]
    /\ seen' = IsOn
    /\ UNCHANGED <<clock, restricted, switches, cools>>

\* Mutant of Restricted: only users are asked for.
RestrictedUser == event.by \in restricted
Restricted == event.by \in restricted \/ (~event.dm /\ Guild \in restricted)

\* preflightSlash: checkRestrictions returns the error of its own message as
\* its result, which has a second one sent.
CheckRestrictions ==
    /\ At("restrict")
    /\ \/ Answers("initial", FALSE)   \* the store fails
       \/ Restricted /\ Answers("initial", TRUE)
       \/ ~Restricted /\ Goes("cooldown")
    /\ UNCHANGED <<clock, restricted, switches, cools, event>>

\* Mutant of Cooling: a use one tick early is let through.
CoolingShort ==
    LET last == cooled[<<event.by, KeyOf(event.of)>>]
    IN last # 0 /\ clock + 1 < last + Duration(event.of)

Cooling ==
    LET last == cooled[<<event.by, KeyOf(event.of)>>]
    IN last # 0 /\ clock < last + Duration(event.of)

\* cooldownTracker.Take
TakeCooldown ==
    /\ At("cooldown")
    /\ \/ /\ Duration(event.of) = 0
          /\ Goes("lookup")
          /\ UNCHANGED cools
       \/ /\ Duration(event.of) > 0 /\ Cooling
          /\ Answers("initial", FALSE)
          /\ UNCHANGED cools
       \/ /\ Duration(event.of) > 0 /\ ~Cooling
          /\ cooled' = [cooled EXCEPT ![<<event.by, KeyOf(event.of)>>] = clock]
          /\ used' = [used EXCEPT ![<<event.by, KeyOf(event.of)>>] = clock]
          /\ Goes("lookup")
    /\ UNCHANGED <<clock, restricted, switches, event>>

\* Whether the catalog has what i names; a direct message skips the
\* switches of the guild and, for commands, the module's.
Known ==
    LET t == event.of
    IN IF t \in Component \cup Modal THEN PluginOf[t] \in module ELSE PluginOf[t] \in run.snapshot

Lookup ==
    /\ At("lookup")
    /\ IF event.of \in Builtin THEN Begins
       ELSE IF ~Known THEN Answers("initial", FALSE)
       ELSE Goes(IF event.dm THEN "call" ELSE "module")
    /\ UNCHANGED <<clock, restricted, switches, cools, event>>

\* guildCommandEnabled, guildPluginEnabled: the module first, ...
CheckModule ==
    /\ At("module")
    /\ IF PluginOf[event.of] \in module THEN Goes("config") ELSE Answers("initial", FALSE)
    /\ UNCHANGED <<clock, restricted, switches, cools, event>>

\* Mutant of Allows: a command is looked at without its plugin.
AllowsCommand(t) == IF t \in Slash \cup Autocomplete THEN RootOf[t] \notin off ELSE PluginOf[t] \notin off

\* CommandEnabled, PluginEnabled
Allows(t) == PluginOf[t] \notin off /\ (t \in Slash \cup Autocomplete => RootOf[t] \notin off)

\* ... then the guild's configuration, which may not be read.
CheckConfig ==
    /\ At("config")
    /\ \/ Answers("initial", FALSE)
       \/ Allows(event.of) /\ Goes("call")
    /\ UNCHANGED <<clock, restricted, switches, cools, event>>

\* The host looks the plugin up; its VM may be closed or have no such route.
Call ==
    LET t == event.of IN
    /\ At("call")
    /\ \/ Answers("initial", FALSE)
       \/ /\ PluginOf[t] \in loaded
          /\ t \in Component \cup Modal => PluginOf[t] \in listed
          /\ Begins
    /\ UNCHANGED <<clock, restricted, switches, cools, event>>

\* What Discord does with a call: it takes it, it does not, or it does and the
\* caller never hears of it.
Outcome == {"ok", "refused", "unheard"}

\* Discord has an interaction answered once, and edits what was answered.
Takes(say, out) == out # "refused" /\ (event.answer # "none") = (say = "update")
Told(say, out, answer) ==
    event' = [event EXCEPT !.answer = IF Takes(say, out) THEN answer ELSE @,
                           !.lost = @ \/ out # "ok"]
Succeeds(say, out) == out = "ok" /\ Takes(say, out)

\* luaDefer
Defer ==
    /\ At("running") /\ event.of \in Slash /\ ~run.deferred
    /\ \E out \in Outcome :
        /\ Told("initial", out, "thinking")
        /\ run' = [run EXCEPT !.deferred = Succeeds("initial", out)]
    /\ UNCHANGED <<clock, restricted, switches, cools, seen>>

\* respondPluginSlashError; mutant: it always answers anew.
ErrorAnew == Answers("initial", FALSE)
RespondError == Answers(IF run.deferred THEN "update" ELSE "initial", FALSE)

\* The plugin's code ends: in an error or with what cannot be sent; with an
\* update; with anything else, which after a deferral it should not.
Return ==
    /\ At("running") /\ event.of \notin Builtin
    /\ \/ RespondError /\ UNCHANGED event
       \/ /\ run.deferred
          /\ Answers("update", FALSE) /\ UNCHANGED event
       \/ /\ Answers("initial", FALSE)
          /\ event' = [event EXCEPT !.misused = run.deferred]
    /\ UNCHANGED <<clock, restricted, switches, cools>>

\* blockHandle and unblockHandle: the owner changes the restrictions.  An action
\* that fails, other than an error of Handle, is followed by a message.
Handle ==
    /\ At("running") /\ event.of \in Builtin
    /\ \/ Answers("initial", FALSE) /\ UNCHANGED restricted
       \/ Answers("initial", TRUE) /\ UNCHANGED restricted
       \/ /\ event.by = Owner
          /\ \E t \in User \cup {Guild} : restricted' \in {restricted \cup {t}, restricted \ {t}}
          /\ Answers("initial", TRUE)
    /\ UNCHANGED <<clock, switches, cools, event>>

\* The message about the failure of an action.
Another == Answers("initial", FALSE)

\* The answer is sent.
Reply ==
    /\ At("reply")
    /\ \E out \in Outcome :
        IF run.again /\ ~Succeeds(run.say, out)
        THEN Told(run.say, out, "shown") /\ Another
        ELSE Told(run.say, out, "shown") /\ run' = Idle /\ seen' = Nothing
    /\ UNCHANGED <<clock, restricted, switches, cools>>

Step ==
    \/ CheckRestrictions \/ TakeCooldown \/ Lookup \/ CheckModule \/ CheckConfig
    \/ Call \/ Return \/ Handle \/ Reply

-----------------------------------------------------------------------------
\* What happens between the steps.

Tick ==
    /\ clock < MaxClock
    /\ clock' = clock + 1
    /\ UNCHANGED <<restricted, switches, cools, event, run, seen>>

\* What was on at some time since an interaction came, until its code starts.
Sees(on, guild) ==
    seen' = IF run.at \in {"idle", "running", "reply"} THEN Nothing
            ELSE [module |-> seen.module \cup on, guild |-> seen.guild \cup guild]

\* PutGuildConfig writes all switches of one plugin.
SwitchesOf(p) == {p} \cup {RootOf[c] : c \in {d \in Slash \cup Autocomplete : PluginOf[d] = p}}
Save ==
    /\ \E p \in Plugin : \E new \in SUBSET SwitchesOf(p) : off' = (off \ SwitchesOf(p)) \cup new
    /\ Sees({}, Switch \ off')
    /\ UNCHANGED <<clock, restricted, loaded, module, routed, listed, reload, cools, event, run>>

\* LoadAll replaces the plugins, ...
Swap ==
    /\ reload.at = "idle"
    /\ loaded' \in SUBSET Plugin
    /\ reload' = [reload EXCEPT !.at = "swapped"]
    /\ UNCHANGED <<clock, restricted, off, module, routed, listed, cools, event, run, seen>>

\* ... refreshRuntimeCatalog reads the module states, or fails, and assigns
\* its maps: the modules first ...
Publish ==
    /\ reload.at = "swapped"
    /\ module' \in SUBSET loaded
    /\ reload' = [at |-> "half", on |-> module', all |-> loaded]
    /\ Sees(module', {})
    /\ UNCHANGED <<clock, restricted, off, loaded, routed, listed, cools, event, run>>

GivesUp ==
    /\ reload.at = "swapped"
    /\ reload' = [reload EXCEPT !.at = "idle"]
    /\ UNCHANGED <<clock, restricted, off, loaded, module, routed, listed, cools, event, run, seen>>

\* ... and then the routes.  A handler reads either of the two, once.
PublishRoutes ==
    /\ reload.at = "half"
    /\ routed' = reload.on /\ listed' = reload.all
    /\ reload' = [at |-> "idle", on |-> {}, all |-> {}]
    /\ UNCHANGED <<clock, restricted, off, loaded, module, cools, event, run, seen>>

Environment == Tick \/ Save \/ Swap \/ Publish \/ GivesUp \/ PublishRoutes

Next == Receive \/ Defer \/ Step \/ Environment

Spec == Init /\ [][Next]_vars

-----------------------------------------------------------------------------
\* Every interaction that was served is answered in full, and a deferred one
\* not left at its "thinking": whatever was checked, failed or was switched
\* off on the way, unless Discord did not take an answer or the plugin, having
\* deferred, returned something other than an update.
Resolved == run.at = "idle" => event.answer = "shown" \/ event.lost \/ event.misused

\* Two uses of one command, or of components or modals of one plugin, that one
\* user was let through with are the cooldown apart.
CooldownHolds ==
    [][run.at = "cooldown" /\ run'.at = "lookup" /\ Duration(event.of) > 0 =>
        LET last == used[<<event.by, KeyOf(event.of)>>]
        IN last # 0 => clock >= last + Duration(event.of)]_vars

Starts == run.at # "running" /\ run'.at = "running"

\* No command's code starts for a user, or in a guild, that is restricted at
\* that moment, although the check was some steps before.
RestrictedRunsNothing ==
    [][Starts /\ event.of \in Command =>
        event.by \notin restricted /\ (event.dm \/ Guild \notin restricted)]_vars

\* A plugin's code starts only for what was on at some time since the
\* interaction came: its module, and in a guild the plugin and the command.
\* (For a command in a direct message the code goes by its route alone.)
SwitchesHold ==
    [][Starts /\ event.of \in OfPlugin =>
        LET t == event.of
            plain == t \in Slash \cup Autocomplete
        IN  /\ (plain /\ event.dm) \/ PluginOf[t] \in seen.module
            /\ event.dm \/ PluginOf[t] \in seen.guild
            /\ event.dm \/ ~plain \/ RootOf[t] \in seen.guild]_vars

\* Nothing runs that was forbidden, however saves, blocks and reloads fall
\* between the checks of OnCommand, onComponent and onModal and their calls.
RunsOnlyAllowed == RestrictedRunsNothing /\ SwitchesHold

==============================================================================
