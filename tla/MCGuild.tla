------------------------------- MODULE MCGuild -------------------------------
(***************************************************************************)
(* What happens in a guild: moderation, the gateway's events and the       *)
(* plugins' automation.  They share no state, so that one run explores     *)
(* each of them by itself: a behaviour is of one scene.                    *)
(***************************************************************************)
EXTENDS Moderation, TLC

CONSTANTS Guild, MaxEvents, MaxCatalogs, Plugin, Guilds, Setups, Runner, Event, Type, Need,
          Requests, Grants, Answers, Burst, Cost, MaxClock, MaxStarts, MaxReloads, Watched

VARIABLES
    scene,
    here, inside, told, queue, sent, cached, restricted, guildRow, memberRow, shown,
    catalog, gateway, reload, leaving, barred, missed,
    plugins, guilds, loaded, on, clock, bucket, runner, starts, reloads, window, owed, could

gvars == <<here, inside, told, queue, sent, cached, restricted, guildRow, memberRow, shown,
           catalog, gateway, reload, leaving, barred, missed>>
avars == <<plugins, guilds, loaded, on, clock, bucket, runner, starts, reloads, window, owed,
           could>>

G == INSTANCE Gateway
A == INSTANCE Automation WITH proc <- runner

ASSUME ConstantsAssumption == A!ConstantsOK /\ G!ConstantsOK

\* At rest, those of another scene begin in one way.
Scenes ==
    /\ scene \in {"moderation", "gateway", "automation"}
    /\ Init /\ G!Init /\ A!Init
    /\ \/ scene = "gateway"
       \/ here \cup inside \cup restricted = {} /\ \A g \in Guild : guildRow[g] = None
    /\ scene = "automation" \/ <<plugins, guilds>> = CHOOSE s \in Setups : TRUE

Plays ==
    /\ UNCHANGED scene
    /\ \/ scene = "moderation" /\ Next /\ UNCHANGED <<gvars, avars>>
       \/ scene = "gateway" /\ G!Next /\ UNCHANGED <<vars, avars>>
       \/ scene = "automation" /\ A!Next /\ UNCHANGED <<vars, gvars>>

GuildSpec == Scenes /\ [][Plays]_<<scene, vars, gvars, avars>>

\* The properties of Gateway and of Automation.
GuildsFollow == G!GuildsFollow
CommandsCurrent == G!CommandsCurrent
TokenBudget == A!TokenBudget
RunsAsGranted == A!RunsAsGranted

-----------------------------------------------------------------------------
(* The bounds: one guild with two plugins, and one plugin in two guilds.   *)

MCSetups == {<<<<"a", "b">>, <<"g">>>>, <<<<"a">>, <<"g", "h">>>>}
MCNeed == [type \in Type |-> "messages"]
MCAnswers == {[i \in 1..2 |-> type] : type \in Type}
MCWatched == {<<"a", "g", type>> : type \in Type}
Symmetry == Permutations(Handler) \cup Permutations(Runner)
=============================================================================
