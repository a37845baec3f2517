# A TLA+ model of mamusiabtw

mamusiabtw is a Discord bot in Go with plugins in Lua, an SQLite database, a
command line for its operator and an HTTP API for a dashboard. This directory
holds TLA+ modules of the parts of it where order, overlap, failure and time
matter, the TLC configurations that check them on small instances, and proofs
that TLAPS checks for every instance. `PROJECT.json` lists the runs, the
definitions with the source lines they model, the mutants each property was
tried against, the hazards of the code and the theorems.

## The system

One process, `mamusiabtw`, runs the bot. The same binary is the command line
(migrations, plugins, the development server). Several of them may use one
database and one plugin directory at the same time: the bot with the command
line, or two bots during a deployment.

| Component | State it keeps | Operations | What makes it hard | What makes it correct |
|---|---|---|---|---|
| Reminders (`runtime/discord/automation/reminders.go`, `storage/sqlite/reminders.go`) | rows with next run, failures, lease | create and delete (plugins), tick: claim, deliver, finish | leases that end under a run, crashes, several schedulers, lost writes, stale copies | one run per lease, no lost failure count, a due reminder is claimed, repeated deliveries are a lease apart |
| Module runtime (`runtime/discord/{module_state,runtime_catalog,plugin_runtime,admin}.go`, `plugin/automation.go`, `commands/registration.go`) | module states in the database; catalog maps, routes, cron runner in memory; commands at Discord | enable, disable, reset, reload, start | a reload is a sequence without a lock, from a command, the dashboard or the start; each step may fail; request contexts end | catalog, routes, registered commands and jobs agree with the states |
| Plugin host (`runtime/plugins/host.go`, `lua/vm.go`) | table of plugins, command, job and event tables, locales, one VM each | LoadAll, calls | VMs are closed while calls look them up; loads overlap | loaded means open, nothing leaks, calls of one VM exclude each other, a reload ends if the plugins it loads return |
| Guild list (`adminapi/service.go`, `oauth.go`) | cache entry and call in flight for each token | fetchGuildsCached | single flight, rate limits, contexts, a time read before the lock | one fetch at a time, no list older than promised, back-off respected, every request returns |
| Marketplace (`marketplace/manager.go`, stores) | source rows, checkouts, plugin directories, install records, module states | add, delete, sync a source; install, update, uninstall | files and rows change in separate steps; crashes; two processes | what is installed was published (and signed), records describe it, nothing of the user is lost, it arrives off |
| Migrations (`migration/migrate.go`) | migration files, state table, backups | up, backup, status | each start runs it; deployments copy file by file; crashes | each version once, in order, from the checked file; a backup from before |
| Interaction dispatch (`runtime/discord/commands/application.go`, `component_dispatch.go`, `modal_dispatch.go`, `cooldown*.go`, `guild_config.go`) | time of last use for each user and key; whether an interaction has an answer | commands, autocomplete, components, modals | deferred answers and errors after them, calls of Discord that fail or are not heard of, reloads and saves between two checks, time | each is answered in full, cooldowns hold, nothing restricted or switched off runs |
| Dashboard API (`adminapi/server.go`, `guild_handlers.go`, sessions, `owners.go`) | login states in memory, sessions in the database, cookies in browsers, the owner resolved at the start | login, callback, logout, some fifty endpoints behind three guards | two steps through a browser; checks and acts apart; expiry, logout and restart between them | one session for each login, of the browser that began it; nothing done without session, ownership or the right to the guild that is named |
| Moderation (`adminapi/guilds.go`, `lua/moderation_api.go`, `plugins/moderation`) | rows of warnings | warn and take back, from the dashboard, the plugin's commands and its menus | counted, created and acted on in separate statements by writers that do not exclude each other | limits hold but for shared counts, the timeout follows, a warning is undone once |
| Guild configuration (`guildconfig`) | one value per guild and plugin | load, save | whole-value writes; two parsers | every reader goes by the same numbers |
| Gateway handlers (`gateway/handlers.go`, seen stores, `commands/registration.go`) | rows of guilds, members, users; commands at Discord | ready, join, leave, update | order of events, failures, restarts, a reload that registers beside | rows follow the events, restricted guilds are left, each guild shows the last catalog |
| Plugin automation (`plugin/automation.go`, `plugin/actions.go`) | token buckets | events, jobs, their actions | permissions read before a call, time read before a lock, reloads | everyone is reached, nothing is done that was not granted, the rate is held |
| Signing and trust (`plugins/signing.go`, `signing_cli.go`, `host.go`, trust of the marketplace) | key files, trusted_keys.json, signers, vendors, signature.json | make keys, trust, sign, scaffold, check, load | files read and written one by one without a lock, cut writes | production runs the manifest and the scripts that were signed, with a key in force; both places of trust agree |
| Start and stop (`app/app.go`, `cmd/mamusiabtw`, `ops/server.go`) | what is open: database, servers, gateway, cron, scheduler | start, wait, close | a failure or a signal at every step, requests and jobs under way | what serves is whole, what was opened is closed, a signal ends it once its requests are through |
| Built-in commands, Lua API, plugin actions | none | one call each | - | formats and forwards |
| Other stores, permissions, configuration, i18n, front ends | single tables, files | single statements, parsing | - | - |

How they interact: the gateway calls the dispatch, which looks up the catalog
of the module runtime and calls the plugin host; plugins call the stores and
Discord through the Lua API. `/modules`, `/plugins` and the dashboard change
module states and run a reload, which calls the host, rebuilds the catalog,
registers the commands with Discord and restarts the cron runner. The
marketplace changes the directories that the next reload reads and the module
states. The reminder scheduler shares the database with everything. The
migrations run before all of it.

## Modules

| Module | Models | State and actions in the code |
|---|---|---|
| `Reminders` | store and scheduler together | `row` is the table, `proc`, `leaseOf` and `tick` are each process and the locals of `Reminders.tick`; `Claim` is the transaction of ClaimDueReminders; `Run*` and `Finish` are `runOne` with its call of FinishReminderRun; `Stop` and `Exit` end a scheduler with rows in hand |
| `ReminderRuns` | what the scheduler promises | runs known only by when they began; `Reminders` implements it (`KeepsPromise`) |
| `ModuleRuntime` | reloadModules and all it calls, statement by statement | `override` is the module state table, `host` the plugins loaded, `module` and `route` the Bot's maps, `registered` Discord's commands, `cron` the jobs that run, `stops` the goroutines that wait for a context; `admin` has each goroutine's place and locals |
| `PluginHost` | LoadAll, lookups, VM locks | `plugins` is Host.plugins, `vm` each VM's lock and life, `loader` and `caller` the goroutines |
| `PluginTable` | what the host promises its callers | VMs that were made, serve, or are retired, and the calls that hold and enter them; `PluginHost` implements it (`KeepsTablePromise`) |
| `GuildsCache` | fetchGuildsCached for one token | `entry` and `flight` are the two maps at that token, `caller` the goroutines that ask, `time` the clock; one action for each stretch between lock and unlock |
| `GuildLists` | what the list promises | one list, one end of all pauses, at most one request that asks; `GuildsCache` implements it (`KeepsListPromise`) |
| `Marketplace` | one plugin's life under several operations | `dir` the plugin's directory, `attic` the backups under .tmp, `checkout` each source's clone, `record` and `state` the two rows; `admin` the locals of each operation |
| `Migrations` | UpPath, Up, BackupPath | `files` the directory, `table` the state table, `ran` the statements the schema is the result of, `backups` the backup directory; `runner` has each run's locals |
| `Dispatch` | one interaction from its arrival to its answer | `event` is the interaction as Discord has it, `run` the locals of its handler, `cooled` the cooldown tracker, `restricted` and `off` the two tables that are checked, `module`, `routed` and `listed` the Bot's maps, `loaded` Host.plugins; an action for each check, call and answer; `seen` and `used` are history |
| `Dashboard` | logins, sessions and the guards of every endpoint | `pending` is stateStore, `row` the table of sessions, `cookie` what each browser holds, `request` the goroutine of a request with its place between reading the session, listing the guilds and acting; `managed` is what Discord would say of each user and guild; `Touches` are the guilds an endpoint may act in; `began` and `made` are history |
| `Lifecycle` | the program from its command line to its exit | `at` is the statement of the main goroutine in App.Start, App.Close and what they call; `store`, `server`, `bot` what they opened; `request`, `handler` and `job` use it; the scheduler of the reminders and the cron end by the context |
| `Trust` | keys, signers, vendors, the signature of one plugin directory and its loader | `priv` and `file` are the files of the keys, `signer` and `vendor` the tables, `dir` and `sig` the plugin's files, a manifest and a script; `proc` has each process's place in gen-signing-key, TrustSigner, TrustVendor, ScaffoldPlugin, SignPlugin or LoadAll |
| `Moderation` | CreateWarning, DeleteWarning, `warn.lua`, `unwarn.lua` and its menu, the configuration's limits | `stored` is the guild's configuration, `rows` the table of warnings, `vm` the lock of the plugin's VM, `proc` the locals of each request and handler |
| `Gateway` | the goroutine of the gateway, restrictions, registration | `queue` is what Discord sent, `cached` the client's cache, `guildRow` and `memberRow` the tables, `gateway` and `reload` two goroutines between two statements; `missed` is history of what was lost or failed |
| `Automation` | FireEvent, runJob, the limiter, the actions | `plugins` and `guilds` are what there is to serve, in order, chosen at the start of a behaviour; `loaded` has what each plugin that is loaded asked for and was granted, `on` those switched on, `bucket` the limiter's map, `proc` each goroutine's remaining calls and actions; `window`, `owed` and `could` are history |
| `RemindersProofs`, `ModuleRuntimeProofs`, `MarketplaceProofs`, `DispatchProofs` | theorems about the module of that name | |
| `PluginHostProofs`, `GuildsCacheProofs`, `MigrationsProofs` | theorems about the module of that name and about one beside it: `Trust`, which says what the host may load; `Dashboard`, which serves the list; `Lifecycle`, whose first step is to migrate | the names of these three (`TrustSpec`, `DashboardInit`, `ProgramNext` and so on) differ from those of the module they stand beside |
| `GuildProofs` | theorems about `Moderation`, `Gateway` and `Automation`, and about the run that has all three | |
| `MC*` | instances for TLC; `MCGuild` has `Moderation`, `Gateway` and `Automation`, which share no state, as scenes of one run; its goroutines and handlers are a symmetry | |

`Reminders`, `GuildsCache` and `PluginHost` implement `ReminderRuns`, `GuildLists`
and `PluginTable`: refinements. The other modules stand alone. Where they meet, each has the other's effect as an action of its
environment: `Marketplace` changes plugin directories, and `ModuleRuntime`
and `PluginHost` have a `disk` that changes at any time; `ModuleRuntime` has LoadAll as the reading
of the directories and `Swap`, which `PluginHost` has in detail; `Dispatch` has
a reload as `Swap`, `Publish` and `PublishRoutes`, which `ModuleRuntime` has in
detail, and lets it fall between any two steps of a handler. `Gateway` has the
catalog as a number that a reload raises, `Automation` the permissions a load
grants, `Dashboard` the guild list as any that `GuildsCache` may return, and
`Lifecycle` each component as a step that ends well or not.

What `Dispatch` takes as given of what is not under `src/`: the gateway
delivers one event after another (the client is built without asynchronous
events), Discord takes one initial answer for an interaction and edits after
it, and an acknowledgement is an initial answer. A call may be taken, refused,
or taken without the caller hearing of it. As in the code, only commands are
checked for restrictions; components, modals and autocomplete are not.

## Runs

One to two hundred seconds each, with two workers.

| Run | Instance | What it shows |
|---|---|---|
| `reminders` | 2 processes, 2 reminders in one batch, one with a bad schedule and one sent to a channel; 3 leases of 1, 2 failures, time 4 | the lease rules and, as a refinement, the promise: a batch that outlasts its lease while later rows wait, a second claim, a late finish |
| `reminders_live` | 2 processes, 1 reminder, lease of 1, time 3 | `DueIsClaimed` and `ClaimedIsRun` under fairness |
| `modules` | 2 plugins with a command in common, in opposite orders of directory and identifier; 3 goroutines (start, gateway, dashboard), one reload at a time | what is routed, registered and run as a job after each reload, with failures anywhere |
| `plugin_host` | 1 plugin, 1 directory, 5 VMs, 2 loads, 2 calls | ownership of VMs under overlapping loads; locales; a reload ends under fairness if its plugins' top levels return |
| `guilds` | 2 requests, lifetime 2, stale 3, retry after 1 or 3, time 6 | cache and single flight, as a refinement back-off and what may be served, a fetch that takes longer than each of the times; under fairness every request returns |
| `marketplace` | 1 operation at a time, 3 versions, two of them signed, signatures required | crashes at every step, updates, sources that change or disappear |
| `migrations` | 2 runners, 2 versions, 2 releases, time 1 | starts that overlap with each other and with a deployment, backups, a restore |
| `dispatch` | 1 user, the owner; 1 plugin; a built-in command, a plugin command, an autocomplete, a component and a modal without a plugin; time 2 | failing answers, deferral, cooldowns of 1 and of none, restrictions, reloads and saves anywhere |
| `dashboard` | 1 user with 2 browsers, 2 guilds, 2 requests, 2 logins, 1 restart; of the endpoints login, logout, one of the owner's and two of a guild's, one of which goes by an identifier; sessions of 1, no stale list, time 1 | a redirect followed twice or by the other browser, a logout or a restart between a request's checks and its act, a guild the user manages no more beside one he does |
| `lifecycle` | the commands that open the database, the default one in production and outside it: five; 2 requests | a failure, a signal, a request, an event and a job at every step of start and stop; under fairness a signal ends the program if the requests do |
| `trust` | 3 processes, each doing one thing; 2 names, 2 keys, 2 files | runs of gen-signing-key cut and overlapping, imports of a vendor that fail in the middle, files changed between signing, the reading of the manifest, checking and running |
| `guild` | Moderation: 1 member, 3 warnings, a request of the dashboard, 2 handlers of the plugin, a save. Gateway: 1 guild, 2 events, 2 catalogs, restarts. Automation: 2 plugins in one guild, and 1 in two; 2 goroutines, buckets of 1, time 2, 1 reload | shared counts, two menus for one warning, a limit beyond the highest; a guild joined and left around a restriction, a reload between the computing and the sending of commands; a reload between permission and action, a late time at the limiter |

Bounds: clocks stop at `MaxClock`, leases are a set that can be used up
(`Reminders` may stop there, so its runs do not check for deadlock; `Trust`
where each process has done its thing, `Moderation`, `Gateway` and
`Automation` at the bounds of their events, `Lifecycle` at its exit; those
runs do not check for deadlock either, every other run does), VMs are a set in
which a closed one is used again, and `MaxStops` bounds the goroutines that
wait to stop a cron. `MaxVersion` bounds the migrations. Each bound lets the
case that its properties are about happen: two overlapping claims of one row,
two loads each closing what the other loaded, a fetch that outlasts the pause
before it, a deployment between two readings of one run, a use of a command
before and after its cooldown, a login finished after a restart, two counts of
one member's warnings before either row. In `dashboard` one endpoint of the
owner's, one of a guild's and one of a guild's that goes by an identifier stand
for the others, whose guards are the same or fewer; the one user is
the owner or, where none is resolved, not; more users are in the theorem. Where two of a kind do not fit into one run, the theorem has them:
operations of the marketplace that overlap (`NothingLost`, `UserFilesKept`),
reloads that overlap (`CronIsCurrent`), two plugins in one host, several users
and plugins in `Dispatch`. `Alone` in `Marketplace` is the number of
operations of the instance, not a condition a state may fail.

Each property is listed with a mutant: the definition it replaces, and the bug
that it is. Where a property is a conjunction (`LeasesHold`, `VMsSound`,
`ActsSound`, `StopsWhole` and others, each with its parts above it), several
mutants are listed, for different parts.

### What the properties except

Behaviour of the code that a property excepts, because nothing in the
repository says otherwise, or because the code leaves it so:

- With every plugin off, CommandCreatesFiltered has an empty set of allowed
  plugins and takes it for no filter: all commands are registered, and each
  answers that it does not exist (`RegisteredRuns`).
- Of two overlapping reloads the last to assign wins, not the last to read
  (`CatalogFollowsStore`). A cron stopped by the end of a request's context
  stays stopped (`CronIsCurrent`).
- A request for the guild list that waited for another's fetch gets that one's
  error, the rate limit too, when a cached list would have done (`CacheSound`
  speaks of lists).
- An installation that ends between the record and the module state leaves the
  plugin to the default, which is on (`ArrivesOff`).
- UpPath decides about the backup from a first reading of the directory and
  applies a second one (`Undoable`).
- A plugin that defers and then returns a message has it sent as a second
  initial answer, which Discord refuses (`Resolved`).
- A process that is cut while it writes trusted_keys.json leaves a file that no
  load and no gen-signing-key reads; a private key is replaced before its public
  key is trusted (`KeyFilesTrusted`, for runs that were not cut and did not
  overlap). The manifest is read before the check of the signature and the
  scripts after it: a plugin that is written in between runs with a manifest or a
  script that the check did not read (`RunsWhatWasSigned`).
- unwarn, slowmode and purge check the guild in the path and then act on the
  warning or the channel they are given, whatever guild it is of (`ManagersOnly`,
  a part of `ActsSound`; `Moderation` has one guild).
- The scheduler of the reminders ends with the signal, and /readyz goes on to say
  ready until the dashboard is drained and the bot closed (`ReadyMeansUp`, a part
  of `StopsWhole`).
- Two warnings that are counted before either is written pass the limit, by as
  many as were between the two at once, less one (`OvershootBounded`), and each
  counts only itself for the timeout (`TimeoutFollows`).
- Two saves of one configuration keep the settings of the last.
  `allow_channel_reminders` switched off is left out of what is written
  (`omitempty`), and its default is on.
- An event lost while the bot is down is not made up for: rows are right again
  with the next event about them (`SeenFollows`). A join whose commands were
  computed before a reload may be sent after the reload's (`CommandsCurrent`).
- The limiter takes a time read before its lock; it lets through more by the
  time goroutines took from one to the other (`TokenBudget`).
- Closing the Discord client does not wait for handlers, nor stopping the cron
  for jobs of more than three seconds, whose contexts are not the program's:
  they may outlive the database.
- Nothing limits a request of the dashboard, not even one that runs git, nor the
  shutdown that waits for it; and nothing limits the top level of a plugin.lua,
  which runs as the plugin is loaded. A request that hangs keeps the program from
  its exit (`SignalEnds` is of requests, and a reload at the start, that end), a
  plugin that does not return keeps its reload (`ReloadEnds` is of reloads whose
  plugins return).

## Fairness

Four runs have it. In `Reminders` the clock advances and a process that is up
goes on with its tick (its goroutine has a ticker and no lock), and a claim
that is tried again and again succeeds once (strong fairness: SQLite may be
busy for any single one). Processes may still crash; `DueIsClaimed` is for rows
that stay due while one is up. In `PluginHost` the goroutines of a load and of
a call go on (the Go scheduler; mutexes do not starve), and the call of a plugin
returns, since every call has a timeout. Running a plugin's top level as it is
loaded has none: `LoadOne` is not fair, and `ReloadEnds` says of each load that
it ends if its own `LoadOne` goes on, whatever the others do. In `GuildsCache` the goroutines go on
and a fetch ends (its HTTP client has a timeout). In `Lifecycle` only the main
goroutine is fair, and not at the reload of the start, where plugins are loaded;
that this reload and the requests end is named in `SignalEnds` as its
antecedent, and nothing else is needed of them. The environment (users, operators, deployments, reloads,
crashes, signals) has no fairness anywhere.

## Proofs

TLAPS checks each proof from nothing but the assumptions the modules name
(`ReminderAssumption`, `ModuleAssumption`, `HostAssumption`, `TrustAssumption`,
`CacheAssumption`, `DashboardAssumption`, `MarketplaceAssumption`,
`MigrationAssumption`, `CommandsAssumption`, `DispatchAssumption`,
`ModerationAssumption`, and `ConstantsAssumption` of `MCGuild` for `Gateway` and
`Automation`): bounds are numbers, constants are distinct and have the shapes
the code gives them.

Every safety property of every run, invariant or action property, is a theorem
for every value of the constants. Each module also proves its `TypeOK`, which
therefore no run checks; where a run checks a conjunction, a last theorem puts
the parts together (`LeaseWorks`, `LateRunsDoNoHarm`, `HostSound`,
`CacheIsSound`, `OnlyAllowedRuns`). Two theorems go beyond the runs:
`TablePromiseKept` is a refinement that TLC confirms on the instance of
`plugin_host`, where it takes no place among the properties because
`VMsSound` finds the same mutants; `NeverTooSoon` states the back-off
(`BacksOff`) by itself, which the run has as a part of `KeepsListPromise`. The argument is the same everywhere: an
invariant says, for each place a goroutine may be at, what it knows there and
what of it still holds; each step is shown to establish it for the goroutine
that takes it and to leave it to the others.

- `RemindersProofs`. A lease says something of the row only, so the invariant
  adds where each run stands that lost its lease (`InHandOK`: the row was
  claimed again more than a lease later, is disabled or deleted) and when
  deliveries were made (`DeliveredOK`, `DeliveredApart`). `Held` runs have a
  current copy, which gives `CopyIsCurrent`; `Lost` ones are late, which gives
  `RunsApart`, `HeldWithinLease` and that their finish changes nothing
  (`DisabledStays`). The action properties and the refinement follow step by
  step from the same invariant.
- `ModuleRuntimeProofs`. `CronOK` holds however requests interleave: whenever
  the cron is not that of the plugins that are on, a request that will build it
  again is under way. Catalog and registration need requests one after another
  (`OneAtATime`): `Progress` says what each place of the one request has brought
  up to date, `Settled` what the last one left. That a command registered is
  also routed and run needs the first plugin of a non-empty set by directory
  and by identifier, which exist because both orders are numbered.
- `PluginHostProofs`. `LoadedIsOpen` is not inductive: a load closes what it
  swapped out, which must be nobody else's. `Apart` says that each open VM has
  one owner: the host's table, the table a load builds, or the list it has to
  close. In the refinement (`TablePromiseKept`) the
  VMs of all tables that are being built are the fresh ones and those that loads
  have to close are the retired ones; `OwnersAre` has each open VM in exactly one
  of these sets or in the table, and `HeldServed` says that no call holds a VM
  that has not served, which is why a VM made anew is never the one a call
  still looks at. `LocalesInv` adds what of the registry each place of a load has done
  (`LocalesFollow`). Of `Trust`: a load reads the files one after another, so
  that `ReadOK` has them, and the manifest read before, equal to those that are there
  only as long as nothing was written since the first of them was read
  (`SignaturesHold`); `LoadOK` has the keys it took
  as keys that were in force, because a signer is replaced and never removed;
  `ImportOK` follows an import through its writes, which others may overtake
  (`VendorsHold`); `KeyOK` follows gen-signing-key, where two that overlap, or
  one that is cut, mark their names as mixed (`KeysHold`).
- `GuildsCacheProofs`. The code reads the time before the lock and writes the
  expiry later, so freshness is not visible in the entry. `PauseKept` ties the
  entry's pause to the one Discord asked for, `ExpiryOK` says that an expiry
  beyond the lifetime is the end of a pause, `RequestOK` that a request between
  its two locks saw a pause that was on. For the refinement `FreshAtFirst` is
  needed as well: an expiry is never before the end of the lifetime, so a
  request that asks Discord has no fresh list; `ListPromiseKept` then maps a
  landing flight to one answer for everybody who waits, and the three critical
  sections to serving, refusing and asking. Of `Dashboard`: `LoginsOK` has each
  state with the one request that took it, and each session with one state,
  `CookiesOK` each cookie with the browser it was made for (`SessionsSound`).
  `ActOK` is about what a request went by when it came in; it stays true
  because a session that is out of force never comes into force again, the
  owner changes only with a restart, which ends all requests, and the right to
  a guild is measured from when it was seen, for the guild that is named and,
  where `Touches` is no other, for the one acted in (`ActsSound`).
- `MarketplaceProofs`. `Fits` relates an operation's place to its locals, and
  `LookedOK` says that an operation past its checks finds in the directory what
  it looked at, files that came since, or what it was forced to replace.
  `NothingLost` and `UserFilesKept` follow; both hold for any number of
  overlapping operations. The other three are for one operation at a time:
  `SoleInv` says that the checkout a scan found whole, and signed, is still
  that when it is copied, because nothing else runs between the two
  (`InstalledIsPublished`); `DoneInv` says how far an operation came with
  directory, record and module state, and that one that was done to its end
  left them in agreement (`RecordDescribes`, `ArrivesOff`).
- `MigrationsProofs`. `Ordered` is kept for the database and for each backup, so
  that a restore keeps it too. `Grows` says that what a run read of the
  database is still there, `Saved` that its backup is from before what it
  applied, `Steady` that with an unchanged directory a run without a backup
  found nothing to apply. Of `Lifecycle`: `StoreOK`, `BotOK`, `ServersOK` and
  `RequestsOK` say for each place of the main goroutine what is open, up or
  still used, which is enough for `StopsWhole` although any step may fail, the
  signal may come before any of them, and the reminders end at any time after it.
- `DispatchProofs`. `AnswerOK` says at each place what Discord has of the
  interaction and which kind of answer fits; `Behind` what the checks passed
  established, which is still so because restrictions change only in a handler
  and handlers run one at a time; `SeenOK` that everything on now, and
  everything a check found on, was on since the interaction came. The tracker
  has the very times users were let through (`cooled = used`).
- `GuildProofs`. Of `Moderation`: `CountInv` counts rows and those about to
  write one together; each of the latter found room when it counted, so that
  they pass the limit by at most as many as were between the two at once.
  `DueInv` keeps who reached the threshold on the way to the timeout,
  `UndoneInv` a warning that was taken back gone. Of `Automation`: the uses
  counted and what the bucket is worth by now (`Level`) are within the budget
  together, also across a late time, which puts the bucket's time back;
  `RunnerOK` carries what is owed along the turns that are left, and
  permissions from where they were read to where they are used. Of `Gateway`:
  `NewsOK` says that a message on its way that is wrong by now is followed by
  one that is right (`Corrected`); `RowsOK`, `BarredOK` and `ShownOK`, that
  what nothing on its way is about is as the events, the restrictions and the
  catalog say, or was lost or failed. `PartsRun` takes these to the run, whose
  behaviours are of one part each.

Only model-checked is liveness, which is out of the prover's reach:
`DueIsClaimed`, `ClaimedIsRun`, `ReloadEnds`, `RequestsReturn` and `SignalEnds`.

## Not modelled

`PROJECT.json` lists each component. Left out for good: what has no state of
its own (most built-in commands, most of the Lua API, actions on Discord,
parsing, permissions, i18n, configuration), single statements of one table that
nothing else relates to, metrics, the front ends and the bundled plugins but
for moderation. Formats of messages, of files and of schedules are abstract: a
next run is some later time, a signature stands for the files and the key, a
plugin version is a value. Audit entries are steps that may fail, without
contents. Discord is what its answers may be: it takes a call, refuses it, or
takes it without the caller hearing.

## Plan

Done: fourteen modules of the parts above and three promises that some of them
implement, their runs, and proofs of all their safety properties and of the
three refinements.

Next: what several modules say of one thing, brought together: that the steps
`Dispatch` has of a reload are those `ModuleRuntime` takes.
