------------------------------ MODULE Lifecycle ------------------------------
(***************************************************************************)
(* The program from its command line to its exit (cmd/mamusiabtw,          *)
(* internal/app): the steps by which it comes up, each of which may fail,  *)
(* the signal that may come at any of them, and the steps by which it goes *)
(* down, while requests of the dashboard, handlers of Discord's events and *)
(* the jobs of plugins use what the steps opened.                          *)
(*                                                                         *)
(* What a step does inside is in the modules of the components; here it    *)
(* ends, with or without an error.                                         *)
(***************************************************************************)
EXTENDS Naturals, FiniteSets

CONSTANTS
    Request,   \* goroutines that serve the dashboard
    Commands   \* bound: the commands that are run

\* The commands that open the database: the bot, in production, outside it, or by
\* "dev"; the operations of the marketplace, and the migrations.
Bots == {"prod", "plain", "dev"}
Tools == {"plugins", "migrate"}

ConstantsOK == Commands \subseteq Bots \cup Tools
ASSUME CommandsAssumption == ConstantsOK

VARIABLES
    command,   \* what runMain was asked for
    addr,      \* which of the servers have an address in the configuration
    at,        \* the next step of the main goroutine
    ctx,       \* whether the signal came
    migrated,  \* UpPath returned without an error
    store,     \* the database
    server,    \* the two servers
    bot,       \* the Bot: what it has of plugins, gateway, cron, scheduler, readiness
    shown,     \* discordStartErr
    request,   \* requests of the dashboard
    handler,   \* a handler of an event, in the goroutine of the gateway
    job        \* a job of a plugin, in a goroutine of the cron

programVars == <<command, addr, at, ctx, migrated, store, server, bot, shown,
          request, handler, job>>

Starting == {"migrate", "open", "manage", "trust", "i18n", "discord", "servers", "serve_ops",
             "serve_admin", "reload", "gateway", "automation", "reminders"}
Closing == {"close_admin", "drain", "close_ops", "close_bot", "close_client", "close_cron",
            "close_store"}
NoBot == [made |-> FALSE, gateway |-> FALSE, cron |-> FALSE, reminders |-> FALSE, ready |-> FALSE]

ProgramTypeOK ==
    /\ command \in Bots \cup Tools
    /\ addr \subseteq {"ops", "admin"}
    /\ at \in Starting \cup {"wait"} \cup Closing \cup {"exit"}
    /\ ctx \in BOOLEAN
    /\ migrated \in BOOLEAN
    /\ store \in {"none", "open", "closed"}
    /\ server \in [{"ops", "admin"} -> {"none", "made", "listening", "shut"}]
    /\ bot \in [made : BOOLEAN, gateway : BOOLEAN, cron : BOOLEAN, reminders : BOOLEAN,
                ready : BOOLEAN]
    /\ shown \in BOOLEAN
    /\ request \in [Request -> BOOLEAN]
    /\ handler \in BOOLEAN /\ job \in BOOLEAN

\* runMain and runDevCommand; "dev" has an address for the dashboard if none is configured.
ProgramInit ==
    /\ command \in Commands
    /\ addr \in SUBSET {"ops", "admin"}
    /\ command = "dev" => "admin" \in addr
    /\ at = "migrate" /\ ctx = FALSE
    /\ migrated = FALSE /\ store = "none"
    /\ server = [s \in {"ops", "admin"} |-> "none"]
    /\ bot = NoBot /\ shown = FALSE
    /\ request = [r \in Request |-> FALSE] /\ handler = FALSE /\ job = FALSE

held == <<migrated, store, server, bot>>
users == <<request, handler, job>>

\* The main goroutine takes a step that succeeds.
Does(step, next) ==
    /\ at = step /\ at' = next
    /\ UNCHANGED <<command, addr, ctx, shown, users>>

-----------------------------------------------------------------------------
(* Coming up: initStorage, validatePluginTrust, initI18n, initDiscordBot,  *)
(* initOpsServer, initAdminServer, the servers' Start, the bot's Start.    *)

Migrate ==
    /\ Does("migrate", IF command = "migrate" THEN "exit" ELSE "open")
    /\ migrated' = TRUE
    /\ UNCHANGED <<store, server, bot>>

OpenStore ==
    /\ Does("open", IF command = "plugins" THEN "manage" ELSE "trust")
    /\ store' = "open"
    /\ UNCHANGED <<migrated, server, bot>>

\* One operation of the marketplace, and the deferred close.
Manage == Does("manage", "close_store") /\ UNCHANGED held

Trust == Does("trust", "i18n") /\ UNCHANGED held
LoadLocales == Does("i18n", "discord") /\ UNCHANGED held

\* marketplace.New and discordplatform.New; the gateway is opened later.
MakeBot ==
    /\ Does("discord", "servers")
    /\ bot' = [bot EXCEPT !.made = TRUE]
    /\ UNCHANGED <<migrated, store, server>>

MakeServers ==
    /\ Does("servers", "serve_ops")
    /\ server' = [s \in DOMAIN server |-> IF s \in addr THEN "made" ELSE "none"]
    /\ UNCHANGED <<migrated, store, bot>>

Serves(s) == server' = [server EXCEPT ![s] = IF @ = "made" THEN "listening" ELSE @]
ServeOps ==
    /\ Does("serve_ops", "serve_admin")
    /\ Serves("ops")
    /\ UNCHANGED <<migrated, store, bot>>
ServeAdmin ==
    /\ Does("serve_admin", "reload")
    /\ Serves("admin")
    /\ UNCHANGED <<migrated, store, bot>>

\* reloadModules, which restarts the cron with the jobs it finds.
Reload ==
    /\ Does("reload", "gateway")
    /\ \E jobs \in BOOLEAN : bot' = [bot EXCEPT !.cron = jobs]
    /\ UNCHANGED <<migrated, store, server>>

OpenGateway ==
    /\ Does("gateway", "automation")
    /\ bot' = [bot EXCEPT !.gateway = TRUE]
    /\ UNCHANGED <<migrated, store, server>>

StartAutomation ==
    /\ Does("automation", "reminders")
    /\ \E jobs \in BOOLEAN : bot' = [bot EXCEPT !.cron = @ \/ jobs]
    /\ UNCHANGED <<migrated, store, server>>

\* The scheduler's goroutine is started with the context of the signal.
StartReminders ==
    /\ Does("reminders", "wait")
    /\ bot' = [bot EXCEPT !.reminders = TRUE, !.ready = TRUE]
    /\ UNCHANGED <<migrated, store, server>>

\* Whether a step may return an error.
Failing(step) ==
    \/ step \in Starting \ {"trust", "servers", "automation", "reminders"}
    \/ step = "trust" /\ command = "prod"

\* The readiness opsSnapshot reports.
Ready == bot.made /\ bot.ready

\* Mutants of KeepsUp and Returns: an error of the bot's start is kept in
\* production too; the deferred Close is missing.
KeepsUpAlways == at \in {"reload", "gateway"}
ExitsAtOnce == "exit"

\* Whether the application stays, with what is up, although the bot failed.
KeepsUp == at \in {"reload", "gateway"} /\ command # "prod"
\* Where a failure leads: run closes the application, a tool what it opened.
Returns == IF command \in Bots THEN "close_admin"
           ELSE IF store = "open" THEN "close_store" ELSE "exit"

StepFails ==
    /\ at \in Starting /\ Failing(at)
    /\ IF KeepsUp
       THEN at' = "wait" /\ shown' = TRUE
       ELSE at' = Returns /\ UNCHANGED shown
    /\ UNCHANGED <<command, addr, ctx, held, users>>

\* Start waits for the signal.
Wait ==
    /\ at = "wait" /\ ctx
    /\ at' = Returns
    /\ UNCHANGED <<command, addr, ctx, shown, held, users>>

-----------------------------------------------------------------------------
(* Going down: App.Close.                                                  *)

\* Mutant of Shuts: the listener is closed last.
ShutsLate(s) == UNCHANGED server

Shuts(s) == server' = [server EXCEPT ![s] = IF @ = "listening" THEN "shut" ELSE @]

\* Shutdown of the dashboard's server: it no longer listens, ...
CloseAdmin ==
    /\ Does("close_admin", "drain")
    /\ Shuts("admin")
    /\ UNCHANGED <<migrated, store, bot>>

\* Mutant of Drain: with a deadline.
DrainSome ==
    /\ Does("drain", "close_ops")
    /\ UNCHANGED held

\* ... and waits, without a deadline, for the requests it serves.
Drain ==
    /\ Does("drain", "close_ops")
    /\ \A r \in Request : ~request[r]
    /\ UNCHANGED held

\* The requests of the operations endpoint only read counters.
CloseOps ==
    /\ Does("close_ops", IF bot.made THEN "close_bot"
                         ELSE IF store = "open" THEN "close_store" ELSE "exit")
    /\ Shuts("ops")
    /\ UNCHANGED <<migrated, store, bot>>

\* Mutant of CloseBot: readiness is not withdrawn.
CloseBotReady == Does("close_bot", "close_client") /\ UNCHANGED held

\* Bot.Close: readiness, the client, the cron.
CloseBot ==
    /\ Does("close_bot", "close_client")
    /\ bot' = [bot EXCEPT !.ready = FALSE]
    /\ UNCHANGED <<migrated, store, server>>
CloseClient ==
    /\ Does("close_client", "close_cron")
    /\ bot' = [bot EXCEPT !.gateway = FALSE]
    /\ UNCHANGED <<migrated, store, server>>
CloseCron ==
    /\ Does("close_cron", "close_store")
    /\ bot' = [bot EXCEPT !.cron = FALSE]
    /\ UNCHANGED <<migrated, store, server>>

CloseStore ==
    /\ Does("close_store", "exit")
    /\ store' = "closed"
    /\ UNCHANGED <<migrated, server, bot>>

-----------------------------------------------------------------------------
(* Beside the main goroutine, until it exits.                              *)

\* SIGINT or SIGTERM.
Signal ==
    /\ at # "exit" /\ ~ctx
    /\ ctx' = TRUE
    /\ UNCHANGED <<command, addr, at, shown, held, users>>

\* A request of the dashboard, and its end; on its way it may reload the modules,
\* which restarts the cron.
Arrive(r) ==
    /\ at # "exit" /\ server["admin"] = "listening" /\ ~request[r]
    /\ request' = [request EXCEPT ![r] = TRUE]
    /\ UNCHANGED <<command, addr, at, ctx, shown, held, handler, job>>
Leave(r) ==
    /\ at # "exit" /\ request[r]
    /\ request' = [request EXCEPT ![r] = FALSE]
    /\ \/ UNCHANGED bot
       \/ \E jobs \in BOOLEAN : bot' = [bot EXCEPT !.cron = jobs]
    /\ UNCHANGED <<command, addr, at, ctx, shown, migrated, store, server, handler, job>>

\* A handler of an event of the gateway: closing the client does not wait for it,
\* and the owner's commands reload too.
Dispatch ==
    /\ at # "exit" /\ bot.gateway /\ ~handler
    /\ handler' = TRUE
    /\ UNCHANGED <<command, addr, at, ctx, shown, held, request, job>>
Handled ==
    /\ at # "exit" /\ handler
    /\ handler' = FALSE
    /\ \/ UNCHANGED bot
       \/ \E jobs \in BOOLEAN : bot' = [bot EXCEPT !.cron = jobs]
    /\ UNCHANGED <<command, addr, at, ctx, shown, migrated, store, server, request, job>>

\* The cron runs a job, which ends when it likes; the end of the context
\* stops the cron.
RunJob ==
    /\ at # "exit" /\ bot.cron /\ ~job
    /\ job' = TRUE
    /\ UNCHANGED <<command, addr, at, ctx, shown, held, request, handler>>
JobEnds ==
    /\ at # "exit" /\ job
    /\ job' = FALSE
    /\ UNCHANGED <<command, addr, at, ctx, shown, held, request, handler>>
StopCron ==
    /\ at # "exit" /\ ctx /\ bot.cron
    /\ bot' = [bot EXCEPT !.cron = FALSE]
    /\ UNCHANGED <<command, addr, at, ctx, shown, migrated, store, server, users>>

\* The same ends the reminders' scheduler.
StopReminders ==
    /\ at # "exit" /\ ctx /\ bot.reminders
    /\ bot' = [bot EXCEPT !.reminders = FALSE]
    /\ UNCHANGED <<command, addr, at, ctx, shown, migrated, store, server, users>>

ComesUp ==
    \/ Migrate \/ OpenStore \/ Manage \/ Trust \/ LoadLocales \/ MakeBot \/ MakeServers
    \/ ServeOps \/ ServeAdmin \/ Reload \/ OpenGateway \/ StartAutomation \/ StartReminders
    \/ StepFails
GoesDown ==
    \/ Wait \/ CloseAdmin \/ Drain \/ CloseOps \/ CloseBot \/ CloseClient \/ CloseCron
    \/ CloseStore
Beside ==
    \/ \E r \in Request : Arrive(r) \/ Leave(r)
    \/ Dispatch \/ Handled \/ RunJob \/ JobEnds \/ StopCron \/ StopReminders \/ Signal

ProgramNext == ComesUp \/ GoesDown \/ Beside

ProgramSpec == ProgramInit /\ [][ProgramNext]_programVars

\* The main goroutine goes on.  At "reload" it runs the top level of each plugin,
\* which nothing limits, and neither are requests limited.
Fairness ==
    /\ WF_programVars(at # "reload" /\ ComesUp)
    /\ WF_programVars(GoesDown)

ProgramLive == ProgramSpec /\ Fairness

-----------------------------------------------------------------------------
(* Properties.                                                             *)

\* A request of the dashboard meets a program that is whole: the schema is up to
\* date, the store open and the bot there, also while a failed start or a signal
\* takes the program down under it.
ServesWhole ==
    (\E r \in Request : request[r]) => migrated /\ store = "open" /\ bot.made

\* /readyz tells the truth up to a signal: ready only with the gateway open, the
\* reminders scheduled and the store open.  From the signal on the scheduler ends
\* by itself, while ready is withdrawn only when the dashboard's requests are
\* through; until then the gateway and the store are still what it says.
ReadyMeansUp ==
    Ready => bot.gateway /\ store = "open" /\ (bot.reminders \/ ctx)

\* However far the start came and whatever failed: at its exit the program has
\* closed what it opened, after those who use it were told to end.
NothingLeft ==
    /\ at = "exit" => store # "open" /\ ~bot.gateway /\ ~bot.ready
                      /\ \A s \in DOMAIN server : server[s] # "listening"
    /\ store = "closed" => \A s \in DOMAIN server : server[s] # "listening"

\* A program that is up without a gateway says why: only outside production, with
\* the error shown and every server that has an address still listening.
StaysUpInDevOnly ==
    at = "wait" /\ ~bot.gateway =>
        command # "prod" /\ shown /\ \A s \in addr : server[s] = "listening"

\* Wherever a start fails and a signal comes, Start and Close, runBot and the two
\* servers agree on what is up.
StopsWhole == ServesWhole /\ ReadyMeansUp /\ NothingLeft /\ StaysUpInDevOnly

\* What has no limit in the code and has to end for an exit: each request that is
\* being served, and the plugins' top levels in the reload of the start.
RequestsEnd == \A r \in Request : request[r] ~> ~request[r]
ReloadEnds == at = "reload" ~> at # "reload"

\* After a signal the program exits, at whatever step it came, if what was begun
\* then comes to its end: no request that comes later keeps it.
SignalEnds == RequestsEnd /\ ReloadEnds => (ctx ~> at = "exit")

=============================================================================
