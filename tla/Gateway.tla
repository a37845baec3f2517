------------------------------- MODULE Gateway -------------------------------
(***************************************************************************)
(* The goroutine that handles the gateway's events one after another       *)
(* (gateway/handlers.go): the rows of guilds and members seen, restricted  *)
(* guilds that are left, and the commands each guild shows, which a reload *)
(* registers from another goroutine.  The bot registers in every guild.    *)
(*                                                                         *)
(* Each statement and each call of Discord is a step and may fail.  Names, *)
(* owners, users seen and times are left out; one member for each guild;   *)
(* the commands are known by the number of the catalog they are from.      *)
(***************************************************************************)
EXTENDS Integers, Sequences

CONSTANTS
    Guild,
    MaxEvents,         \* bound: how many events Discord sends of itself
    MaxCatalogs,       \* bound: how many catalogs are built
    None

ConstantsOK == MaxEvents \in Nat /\ MaxCatalogs \in Nat \ {0}

VARIABLES
    here,        \* the guilds the bot is in
    inside,      \* the guilds the member is in
    told,        \* history: and as Discord last said
    queue,       \* events on their way
    sent,        \* how many Discord sent of itself
    cached,      \* the client's cache of guilds
    restricted,
    guildRow, memberRow,
    shown,       \* the catalog whose commands a guild shows
    catalog,
    gateway,     \* the goroutine of the gateway
    reload,      \* the one of a reload
    leaving,     \* guilds that a goroutine of /block is about to leave
    barred,      \* history: guilds restricted all the time since before the bot joined
    missed       \* history: what the last event, write or call about was lost or failed for

vars == <<here, inside, told, queue, sent, cached, restricted, guildRow, memberRow, shown,
          catalog, gateway, reload, leaving, barred, missed>>
discord == <<here, inside, told, queue, sent, shown>>
store == <<restricted, guildRow, memberRow>>

Message == [kind : {"join", "leave", "update", "enter", "exit"}, guild : Guild]
Ready == [kind |-> "ready", guild |-> None]
Idle == [at |-> "idle", guild |-> None, commands |-> 0, todo |-> {}]
Row == {None, "in", "left"}
Thing == {"guild", "member", "commands", "leave"}

\* What a goroutine is at.
Work == [at : {"idle", "join", "leave", "update", "enter", "exit", "quit", "seen", "creates", "set"},
         guild : Guild \cup {None}, commands : 0..MaxCatalogs, todo : SUBSET Guild]

TypeOK ==
    /\ here \subseteq Guild /\ inside \subseteq Guild /\ told \subseteq Guild /\ cached \subseteq Guild
    /\ queue \in Seq(Message \cup {Ready}) /\ sent \in 0..MaxEvents
    /\ restricted \subseteq Guild /\ leaving \subseteq Guild /\ barred \subseteq Guild
    /\ guildRow \in [Guild -> Row] /\ memberRow \in [Guild -> Row]
    /\ catalog \in 1..MaxCatalogs /\ shown \in [Guild -> 0..MaxCatalogs]
    /\ gateway \in Work /\ reload \in Work
    /\ missed \subseteq Thing \X Guild

\* What was lost while the bot was down.
Unheard == {"guild", "member", "leave"} \X Guild

\* The bot has just started, with a new database or one that knows them all.
Init ==
    /\ here \in SUBSET Guild /\ inside \in SUBSET Guild /\ told = inside
    /\ queue = <<Ready>> /\ sent = 0
    /\ cached = here
    /\ restricted \in SUBSET Guild /\ leaving = {} /\ barred = {}
    /\ \E row \in {None, "in"} : guildRow = [g \in Guild |-> row] /\ memberRow = guildRow
    /\ catalog = 1 /\ shown = [g \in Guild |-> 0]
    /\ gateway = Idle /\ reload = Idle
    /\ missed = Unheard

-----------------------------------------------------------------------------
(* Discord and its users.                                                  *)

Sends(kind, g) ==
    /\ sent < MaxEvents /\ sent' = sent + 1
    /\ queue' = Append(queue, [kind |-> kind, guild |-> g])

Invite(g) ==
    /\ g \notin here /\ here' = here \cup {g}
    /\ Sends("join", g)
    /\ shown' = [shown EXCEPT ![g] = 0]
    /\ barred' = (barred \ {g}) \cup (restricted \cap {g})
    /\ missed' = missed \ {<<"leave", g>>}
    /\ UNCHANGED <<inside, told, cached, store, catalog, gateway, reload, leaving>>
Expel(g) ==
    /\ g \in here /\ here' = here \ {g}
    /\ Sends("leave", g)
    /\ UNCHANGED <<inside, told, cached, store, shown, catalog, gateway, reload, leaving, barred, missed>>
Rename(g) ==
    /\ g \in here /\ Sends("update", g)
    /\ UNCHANGED <<here, inside, told, cached, store, shown, catalog, gateway, reload, leaving, barred, missed>>

\* Of a guild the bot is not in it is told nothing.
Moves(g, kind, to) ==
    /\ inside' = to
    /\ \/ g \in here /\ Sends(kind, g) /\ told' = (told \ {g}) \cup (to \cap {g})
       \/ g \notin here /\ UNCHANGED <<queue, sent, told>>
    /\ UNCHANGED <<here, cached, store, shown, catalog, gateway, reload, leaving, barred, missed>>
MemberJoins(g) == g \notin inside /\ Moves(g, "enter", inside \cup {g})
MemberLeaves(g) == g \in inside /\ Moves(g, "exit", inside \ {g})

-----------------------------------------------------------------------------
(* The owner: /block and /unblock.                                         *)

\* From within the guild, a goroutine of its own leaves it.
Block(g) ==
    /\ g \notin restricted
    /\ restricted' = restricted \cup {g}
    /\ leaving' \in {leaving} \cup (IF g \in here THEN {leaving \cup {g}} ELSE {})
    /\ UNCHANGED <<discord, cached, guildRow, memberRow, catalog, gateway, reload, barred, missed>>
Unblock(g) ==
    /\ g \in restricted
    /\ restricted' = restricted \ {g} /\ barred' = barred \ {g}
    /\ UNCHANGED <<discord, cached, guildRow, memberRow, catalog, gateway, reload, leaving, missed>>

\* LeaveGuild, which Discord answers with an event.
Leaves(g) ==
    /\ here' = here \ {g}
    /\ queue' = IF g \in here THEN Append(queue, [kind |-> "leave", guild |-> g]) ELSE queue
LeaveLater(g) ==
    /\ g \in leaving /\ leaving' = leaving \ {g}
    /\ Leaves(g) \/ UNCHANGED <<here, queue>>
    /\ UNCHANGED <<inside, told, sent, cached, store, shown, catalog, gateway, reload, barred, missed>>

-----------------------------------------------------------------------------
(* The handlers.                                                           *)

Goes(at) == gateway' = [gateway EXCEPT !.at = at]
Done == gateway' = Idle

\* What an event or a write says about a thing of the guild at hand got lost, or not.
Misses(thing) == missed' = missed \cup {<<thing, gateway.guild>>}
Heeds(thing) == missed' = missed \ {<<thing, gateway.guild>>}

\* Mutant of InCachedGuilds: the guilds that have a row.
InKnownGuilds == {g \in cached : guildRow[g] = "in"}

InCachedGuilds == cached

\* The client has the cache follow an event before it calls the handler.
Take ==
    LET e == Head(queue)
    IN /\ gateway.at = "idle" /\ queue # <<>>
       /\ queue' = Tail(queue)
       /\ cached' = CASE e.kind = "join" -> cached \cup {e.guild}
                      [] e.kind = "leave" -> cached \ {e.guild}
                      [] OTHER -> cached
       /\ gateway' = [Idle EXCEPT !.at = IF e.kind = "ready" THEN "creates" ELSE e.kind,
                                  !.guild = e.guild,
                                  !.todo = IF e.kind = "ready" THEN InCachedGuilds ELSE {}]
       /\ UNCHANGED <<here, inside, told, sent, store, shown, catalog, reload, leaving, barred, missed>>

\* Mutant of Barred: a guild that is known is not asked about.
BarredUnknown(g) == g \in restricted /\ guildRow[g] = None

Barred(g) == g \in restricted

\* A check that fails lets the guild be.
CheckRestriction ==
    /\ gateway.at = "join"
    /\ \/ Barred(gateway.guild) /\ Goes("quit") /\ UNCHANGED missed
       \/ ~Barred(gateway.guild) /\ Goes("seen") /\ UNCHANGED missed
       \/ Goes("seen") /\ Misses("leave")
    /\ UNCHANGED <<discord, cached, store, catalog, reload, leaving, barred>>
Quit ==
    /\ gateway.at = "quit"
    /\ \/ Leaves(gateway.guild) /\ UNCHANGED missed
       \/ UNCHANGED <<here, queue>>
          /\ missed' = missed \cup ({"guild", "leave", "commands"} \X {gateway.guild})
    /\ Done
    /\ UNCHANGED <<inside, told, sent, cached, store, shown, catalog, reload, leaving, barred>>

\* UpsertGuildSeen, of a guild joined or changed.
UpsertGuild ==
    LET joined == gateway.at = "seen"
    IN /\ gateway.at \in {"seen", "update"}
       /\ \/ guildRow' = [guildRow EXCEPT ![gateway.guild] = "in"] /\ Heeds("guild")
          \/ Misses("guild") /\ UNCHANGED guildRow
       /\ gateway' = IF joined THEN [gateway EXCEPT !.at = "creates", !.todo = {gateway.guild}]
                     ELSE Idle
       /\ UNCHANGED <<discord, cached, restricted, memberRow, catalog, reload, leaving, barred>>

\* An UPDATE: there may be no row.
MarkedLeft(row) == IF row = None THEN None ELSE "left"
MarkGuildLeft ==
    /\ gateway.at = "leave"
    /\ \/ guildRow' = [guildRow EXCEPT ![gateway.guild] = MarkedLeft(@)] /\ Heeds("guild")
       \/ Misses("guild") /\ UNCHANGED guildRow
    /\ Done
    /\ UNCHANGED <<discord, cached, restricted, memberRow, catalog, reload, leaving, barred>>

\* Mutant of Rejoined: the row of one who left is kept as it is.
RejoinedOnce(row) == IF row = None THEN "in" ELSE row

Rejoined(row) == "in"

MarkMember ==
    /\ gateway.at \in {"enter", "exit"}
    /\ \/ /\ memberRow' = [memberRow EXCEPT ![gateway.guild] =
                             IF gateway.at = "enter" THEN Rejoined(@) ELSE MarkedLeft(@)]
          /\ Heeds("member")
       \/ Misses("member") /\ UNCHANGED memberRow
    /\ Done
    /\ UNCHANGED <<discord, cached, restricted, guildRow, catalog, reload, leaving, barred>>

-----------------------------------------------------------------------------
(* Registering: after a join, when all guilds are there, after a reload.   *)

\* The catalog may be replaced between this and any of the calls that follow.
Creates(p) == [p EXCEPT !.at = "set", !.commands = catalog]

\* One guild after another; Discord refuses a guild that was left, and then the
\* others are left out.
Shows(p, g) ==
    /\ g \in here /\ shown' = [shown EXCEPT ![g] = p.commands]
    /\ missed' = IF p.commands = catalog THEN missed \ {<<"commands", g>>}
                 ELSE missed \cup {<<"commands", g>>}
Refused(p) ==
    /\ missed' = missed \cup ({"commands"} \X p.todo)
    /\ UNCHANGED shown

GatewayCreates ==
    /\ gateway.at = "creates"
    /\ gateway' = Creates(gateway)
    /\ UNCHANGED <<discord, cached, store, catalog, reload, leaving, barred, missed>>
GatewaySets ==
    /\ gateway.at = "set"
    /\ \/ gateway.todo = {} /\ Done /\ UNCHANGED <<shown, missed>>
       \/ gateway.todo # {} /\ Refused(gateway) /\ Done
       \/ \E g \in gateway.todo : Shows(gateway, g) /\ gateway' = [gateway EXCEPT !.todo = @ \ {g}]
    /\ UNCHANGED <<here, inside, told, queue, sent, cached, store, catalog, reload, leaving, barred>>

\* reloadModules: the catalog is replaced, then its commands are registered.
Reload ==
    /\ reload.at = "idle" /\ catalog < MaxCatalogs
    /\ catalog' = catalog + 1
    /\ reload' = [Idle EXCEPT !.at = "creates"]
    /\ UNCHANGED <<discord, cached, store, gateway, leaving, barred, missed>>
ReloadCreates ==
    /\ reload.at = "creates"
    /\ reload' = [Creates(reload) EXCEPT !.todo = InCachedGuilds]
    /\ UNCHANGED <<discord, cached, store, catalog, gateway, leaving, barred, missed>>
ReloadSets ==
    /\ reload.at = "set"
    /\ \/ reload.todo = {} /\ reload' = Idle /\ UNCHANGED <<shown, missed>>
       \/ reload.todo # {} /\ Refused(reload) /\ reload' = Idle
       \/ \E g \in reload.todo : Shows(reload, g) /\ reload' = [reload EXCEPT !.todo = @ \ {g}]
    /\ UNCHANGED <<here, inside, told, queue, sent, cached, store, catalog, gateway, leaving, barred>>

-----------------------------------------------------------------------------
\* The bot goes down and comes up again, perhaps with other commands: what was on
\* its way is lost, and Discord tells only which guilds there are.
Restart ==
    /\ queue' = <<Ready>> /\ cached' = here
    /\ gateway' = Idle /\ reload' = Idle /\ leaving' = {}
    /\ catalog' \in {catalog} \cup (IF catalog < MaxCatalogs THEN {catalog + 1} ELSE {})
    /\ missed' = missed \cup Unheard
    /\ UNCHANGED <<here, inside, told, sent, store, shown, barred>>

Next ==
    \/ \E g \in Guild :
         \/ Invite(g) \/ Expel(g) \/ Rename(g) \/ MemberJoins(g) \/ MemberLeaves(g)
         \/ Block(g) \/ Unblock(g) \/ LeaveLater(g)
    \/ Take \/ CheckRestriction \/ Quit \/ UpsertGuild \/ MarkGuildLeft \/ MarkMember
    \/ GatewayCreates \/ GatewaySets
    \/ Reload \/ ReloadCreates \/ ReloadSets
    \/ Restart

Spec == Init /\ [][Next]_vars

-----------------------------------------------------------------------------
(* Properties, of the states in which all that was sent has been handled.  *)

Quiet == queue = <<>> /\ gateway.at = "idle"

Agrees(row, present) == row = None \/ (row = "in" <=> present)

\* The rows of guilds and members say who is there, whatever was lost or failed
\* before the last event that was written; of a guild refused in between, too.
SeenFollows ==
    Quiet => \A g \in Guild :
        /\ <<"guild", g>> \in missed \/ Agrees(guildRow[g], g \in here)
        /\ <<"member", g>> \in missed \/ Agrees(memberRow[g], g \in told)

\* A guild that was restricted when the bot was invited, and is, is left, unless the
\* check or the leaving failed or the bot was down then.
RestrictedIsLeft ==
    Quiet => \A g \in barred \cap here : <<"leave", g>> \in missed

\* What the gateway told of guilds is what the store says and the bot does about
\* them (OnGuildJoin, OnGuildLeave, OnGuildMemberJoin, OnGuildMemberLeave).
GuildsFollow == SeenFollows /\ RestrictedIsLeft

\* Joins, the start and reloads together leave every guild with the commands of the
\* last catalog, unless the last call failed or came from before that catalog.
CommandsCurrent ==
    Quiet /\ reload.at = "idle" =>
        \A g \in here : <<"commands", g>> \in missed \/ shown[g] = catalog

=============================================================================
