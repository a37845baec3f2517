------------------------------ MODULE Dashboard ------------------------------
(***************************************************************************)
(* The dashboard's API (internal/adminapi): a browser logs in through      *)
(* Discord with a state of its own and gets a session, a row that outlives *)
(* the process; every request presents the session's cookie and passes the *)
(* guards of its endpoint before it acts: a session in force, the owner of *)
(* the application, the session's token, a guild the user may manage.      *)
(*                                                                         *)
(* The credentials of Discord and the secret of the cookies are configured *)
(* (authConfigured), so a cookie holds what the server put in it or is     *)
(* none; a browser keeps the cookies it was given.  A request is asked     *)
(* with the method the front end uses.  Which effect an endpoint has is    *)
(* left to the modules of the components it calls; the list of guilds is   *)
(* one that GuildsCache may return.                                        *)
(***************************************************************************)
EXTENDS Integers, FiniteSets

CONSTANTS
    Browser,
    User,        \* Discord users
    Guild,
    Request,     \* goroutines that serve requests
    State,       \* states of logins, each drawn once
    Session,     \* identifiers of sessions, each drawn once
    Configured,  \* the owner in the configuration, or None
    Asked,       \* bound: the endpoints that are asked for
    SessionTTL,         \* sessionTTL
    Stale,       \* guildsStaleWhileRateLimited
    MaxClock,    \* bound on the clock
    MaxStarts,   \* bound on the starts of the process
    None

\* The endpoints of handler(): what any user may ask, ...
Open == {"me", "logout", "callback"}
\* ... what a session suffices for, ...
Own == {"guilds", "install_start"}
\* ... what shows or lists something of one guild, ...
Shows == {"dashboard", "install_callback"}
Reads == {"channels", "roles", "members", "emojis", "stickers", "warnings"}
\* ... what changes a guild: its settings, its members' warnings, its channels
\* and nicknames, its roles, its messages, its emojis and stickers, ...
Settles == {"config"}
Warns == {"warn", "unwarn"}
Tends == {"slowmode", "nick"}
Roles == {"role_create", "role_edit", "role_delete", "role_member"}
Purges == {"purge"}
Emojis == {"emoji_create", "emoji_edit", "emoji_delete"}
Stickers == {"sticker_create", "sticker_edit", "sticker_delete"}
\* ... and what only the owner may: the state of the bot, modules and plugins,
\* plugins under work, the marketplace, the files of the configuration, the database.
Inspects == {"status"}
Governs == {"modules", "module_set", "module_reset", "modules_reload", "plugins", "plugins_reload"}
Crafts == {"scaffold", "sign"}
Trades == {"sources", "sync", "search", "install", "update", "uninstall", "trust_signer",
           "trust_vendor"}
Configures == {"modules_config", "permissions_config", "trusted_keys"}
Migrates == {"migration_status", "backup", "up"}

Owned == Inspects \cup Governs \cup Crafts \cup Trades \cup Configures \cup Migrates
Guilded == Shows \cup Reads \cup Settles \cup Warns \cup Tends \cup Roles \cup Purges
               \cup Emojis \cup Stickers
Endpoint == Open \cup Own \cup Guilded \cup Owned

ConstantsOK ==
    /\ None \notin Browser \cup User \cup Guild \cup State \cup Session
    /\ Configured \in User \cup {None}
    /\ Asked \subseteq Endpoint
    /\ SessionTTL \in Nat \ {0} /\ Stale \in Nat /\ MaxClock \in Nat /\ MaxStarts \in Nat

ASSUME DashboardAssumption == ConstantsOK

VARIABLES
    clock,
    starts,   \* how often the process was started
    owner,    \* what resolveOwner found at the last start
    pending,  \* stateStore: the states whose login may still be finished
    row,      \* the table of sessions
    cookie,   \* each browser's two cookies
    request,
    managed,  \* when each user last could manage each guild, as Discord knows it
    began,    \* history: which browser each state was made for
    made      \* history: which state's login made a session

dashboardVars == <<clock, starts, owner, pending, row, cookie, request, managed, began, made>>

Row == [user : User, wasOwner : BOOLEAN, expires : Nat]
Idle == [at |-> "idle", by |-> None, what |-> "me", guild |-> None, query |-> None,
         session |-> None, user |-> None, since |-> 0, live |-> FALSE]
Work == [at : {"idle", "read", "list", "act", "take", "exchange", "drop", "reply"},
         by : Browser \cup {None}, what : Endpoint, guild : Guild \cup {None},
         query : State \cup {None}, session : Session \cup {None},
         user : User \cup {None}, since : Nat, live : BOOLEAN]

DashboardTypeOK ==
    /\ clock \in Nat /\ starts \in Nat
    /\ owner \in User \cup {None}
    /\ pending \subseteq State
    /\ row \in [Session -> Row \cup {None}]
    /\ cookie \in [Browser -> [state : State \cup {None}, session : Session \cup {None}]]
    /\ request \in [Request -> Work]
    /\ managed \in [User -> [Guild -> Nat]]
    /\ began \in [State -> Browser \cup {None}]
    /\ made \in [Session -> State \cup {None}]

\* resolveOwner: the owner of the application or of its team; the configured
\* one when Discord does not answer.
Resolves == owner' \in User \cup {Configured}

DashboardInit ==
    /\ clock = 0 /\ starts = 0
    /\ owner \in User \cup {Configured}
    /\ pending = {}
    /\ row = [s \in Session |-> None]
    /\ cookie = [b \in Browser |-> [state |-> None, session |-> None]]
    /\ request = [r \in Request |-> Idle]
    /\ managed = [u \in User |-> [g \in Guild |-> 0]]
    /\ began = [n \in State |-> None]
    /\ made = [s \in Session |-> None]

Goes(r, at) == request' = [request EXCEPT ![r].at = at]
Ends(r) == request' = [request EXCEPT ![r] = Idle]
Arrives(r, new) ==
    /\ request[r].at = "idle"
    /\ request' = [request EXCEPT ![r] = new]

InForce(s) == s # None /\ row[s] # None /\ clock < row[s].expires

-----------------------------------------------------------------------------
(* Logging in.                                                             *)

\* handleLogin: the state is kept, and goes to the browser as a cookie and as
\* a parameter of the page of Discord it is sent to.
Login(b, n) ==
    /\ began[n] = None
    /\ began' = [began EXCEPT ![n] = b]
    /\ pending' = pending \cup {n}
    /\ cookie' = [cookie EXCEPT ![b].state = n]
    /\ UNCHANGED <<clock, starts, owner, row, request, managed, made>>

\* Mutants of Matches and Spent: the state of the address is not compared with
\* the cookie; a state stays until its login succeeded.
MatchesAny(b, n) == TRUE
SpentLater(r) == pending

\* The comparison handleCallback begins with, and what its critical section
\* leaves of stateStore.
Matches(b, n) == cookie[b].state = n
Spent(r) == pending \ {request[r].query}

\* Discord sends a browser back with a state it was given, and may do so twice;
\* the address may have been opened in another browser.  Without the state's
\* cookie it is refused at once.
Callback(r, b, n) ==
    /\ "callback" \in Asked
    /\ began[n] # None
    /\ Matches(b, n)
    /\ Arrives(r, [Idle EXCEPT !.at = "take", !.by = b, !.what = "callback", !.query = n])
    /\ UNCHANGED <<clock, starts, owner, pending, row, cookie, managed, began, made>>

Take(r) ==
    /\ request[r].at = "take"
    /\ pending' = Spent(r)
    /\ IF request[r].query \in pending THEN Goes(r, "exchange") ELSE Ends(r)
    /\ UNCHANGED <<clock, starts, owner, row, cookie, managed, began, made>>

\* ExchangeCode and FetchUser name the user who consented, and putSession keeps
\* the session; the answer is still to be sent.
Exchange(r, u, s) ==
    /\ request[r].at = "exchange"
    /\ made[s] = None
    /\ row' = [row EXCEPT ![s] = [user |-> u, expires |-> clock + SessionTTL, wasOwner |-> u = owner]]
    /\ made' = [made EXCEPT ![s] = request[r].query]
    /\ request' = [request EXCEPT ![r].at = "reply", ![r].session = s]
    /\ UNCHANGED <<clock, starts, owner, pending, cookie, managed, began>>

\* One of them fails, or the code is missing, or the identifier is no number.
ExchangeFails(r) ==
    /\ request[r].at = "exchange"
    /\ Ends(r)
    /\ UNCHANGED <<clock, starts, owner, pending, row, cookie, managed, began, made>>

\* The answer reaches the browser: a session's cookie for the state's after a
\* login, none after a logout, the cookies it had after a refusal.
Cookies(r) ==
    LET q == request[r]
    IN CASE q.what = "callback" /\ q.session # None -> [state |-> None, session |-> q.session]
         [] q.what = "logout" -> [cookie[q.by] EXCEPT !.session = None]
         [] OTHER -> cookie[q.by]

Reply(r) ==
    /\ request[r].at = "reply"
    /\ cookie' = [cookie EXCEPT ![request[r].by] = Cookies(r)]
    /\ Ends(r)
    /\ UNCHANGED <<clock, starts, owner, pending, row, managed, began, made>>

-----------------------------------------------------------------------------
(* Using a session.                                                        *)

\* A request of the browser's page; one about a guild names it.  withCSRF compares
\* two parts of it, the header and the session of the cookie: one that is refused
\* for it does nothing else, and neither does one without that cookie, but for a
\* logout.
Ask(r, b, what, g) ==
    /\ what = "logout" \/ cookie[b].session # None
    /\ Arrives(r, [Idle EXCEPT !.at = IF what = "logout" THEN "drop" ELSE "read", !.by = b,
                               !.what = what,
                               !.guild = IF what \in Guilded THEN g ELSE None,
                               !.session = cookie[b].session, !.since = clock,
                               !.live = InForce(cookie[b].session)])
    /\ UNCHANGED <<clock, starts, owner, pending, row, cookie, managed, began, made>>

\* Mutants of readSession: the expiry is not compared; of DeleteExpired: sessions
\* that have less than a TTL left go too.
ReadsAny(r) == request[r].session # None /\ row[request[r].session] # None
KeptLong(s) == row[s] # None /\ row[s].expires > clock + 1

\* readSession: a row that has not expired, or no session; DeleteExpiredAdminSessions.
Reading(r) == InForce(request[r].session)
Kept(s) == row[s] # None /\ row[s].expires > clock

\* Mutant of IsOwner: what the row says of the time of the login.
WasOwner(r) == row[request[r].session].wasOwner

\* isOwnerUser, against what the process resolved.
IsOwner(r) == owner # None /\ row[request[r].session].user = owner

\* withOwner.
Passes(r) == request[r].what \in Owned => IsOwner(r)

\* handleMe says who is logged in, anyone else passes withAuth and the other guards,
\* which look at what it read; the cookie has done its part.
ReadSession(r) ==
    /\ request[r].at = "read"
    /\ Reading(r)
    /\ IF request[r].what = "me" \/ ~Passes(r) THEN Ends(r)
       ELSE request' = [request EXCEPT
              ![r].at = IF request[r].what \in Guilded THEN "list" ELSE "act",
              ![r].user = row[request[r].session].user, ![r].by = None, ![r].session = None]
    /\ UNCHANGED <<clock, starts, owner, pending, row, cookie, managed, began, made>>

\* No row, the row cannot be read, or it has expired: then all that have go.
ReadFails(r) ==
    /\ request[r].at = "read"
    /\ \/ UNCHANGED row
       \/ /\ request[r].session # None /\ row[request[r].session] # None
          /\ ~Reading(r)
          /\ row' = [s \in Session |-> IF Kept(s) THEN row[s] ELSE None]
    /\ Ends(r)
    /\ UNCHANGED <<clock, starts, owner, pending, cookie, managed, began, made>>

\* Mutant of Manages: any guild of the list will do.
ManagesAny(r) == \E g \in Guild : clock - managed[request[r].user][g] <= Stale

\* accessibleGuild: the guild the request names is in the list of those the user
\* may manage, which Discord gave now or at most Stale ago.
Manages(r) == clock - managed[request[r].user][request[r].guild] <= Stale

ListGuilds(r) ==
    /\ request[r].at = "list"
    /\ Manages(r)
    /\ Goes(r, "act")
    /\ UNCHANGED <<clock, starts, owner, pending, row, cookie, managed, began, made>>

\* The guild is not in the list, or there is no list.
ListFails(r) ==
    /\ request[r].at = "list"
    /\ Ends(r)
    /\ UNCHANGED <<clock, starts, owner, pending, row, cookie, managed, began, made>>

\* DeleteWarning, ManagerSlowmode and ManagerPurge pass on the identifier of a
\* warning or of a channel, and nothing compares its guild with the one that was
\* checked; all others pass on that guild.
ById == {"unwarn", "slowmode", "purge"}
Touches(r) == IF request[r].what \in ById THEN Guild ELSE {request[r].guild}

\* The call of the bot or of the store, in the guild g, or of what the owner or
\* the user asked for, whatever it does, and its answer.
GuildAct(r, g) ==
    /\ request[r].at = "act" /\ request[r].what \in Guilded
    /\ g \in Touches(r)
    /\ Ends(r)
    /\ UNCHANGED <<clock, starts, owner, pending, row, cookie, managed, began, made>>
ServiceAct(r) ==
    /\ request[r].at = "act" /\ request[r].what \notin Guilded
    /\ Ends(r)
    /\ UNCHANGED <<clock, starts, owner, pending, row, cookie, managed, began, made>>

\* handleLogout: the row goes, and the answer is the same when the store fails.
Logout(r) ==
    /\ request[r].at = "drop"
    /\ \/ row' = [s \in Session |-> IF s = request[r].session THEN None ELSE row[s]]
       \/ UNCHANGED row
    /\ Goes(r, "reply")
    /\ UNCHANGED <<clock, starts, owner, pending, cookie, managed, began, made>>

-----------------------------------------------------------------------------
(* The world around.                                                       *)

\* The process ends with what it had in memory, and another one starts.
Restart ==
    /\ starts < MaxStarts
    /\ starts' = starts + 1
    /\ Resolves
    /\ pending' = {}
    /\ request' = [r \in Request |-> Idle]
    /\ UNCHANGED <<clock, row, cookie, managed, began, made>>

\* Time passes, for some users with the right to manage some guilds.
Pass ==
    /\ clock < MaxClock
    /\ clock' = clock + 1
    /\ \E right \in SUBSET (User \X Guild) :
         managed' = [u \in User |-> [g \in Guild |->
                       IF <<u, g>> \in right THEN clock + 1 ELSE managed[u][g]]]
    /\ UNCHANGED <<starts, owner, pending, row, cookie, request, began, made>>

Serve(r) ==
    \/ Take(r) \/ ExchangeFails(r) \/ Reply(r)
    \/ ReadSession(r) \/ ReadFails(r) \/ ListGuilds(r) \/ ListFails(r)
    \/ ServiceAct(r) \/ Logout(r)
    \/ \E g \in Guild : GuildAct(r, g)
    \/ \E u \in User, s \in Session : Exchange(r, u, s)

DashboardNext ==
    \/ \E b \in Browser, n \in State : Login(b, n)
    \/ \E r \in Request, b \in Browser, n \in State : Callback(r, b, n)
    \/ \E r \in Request, b \in Browser, what \in Asked \ {"callback"}, g \in Guild :
         Ask(r, b, what, g)
    \/ \E r \in Request : Serve(r)
    \/ Restart
    \/ Pass

DashboardSpec == DashboardInit /\ [][DashboardNext]_dashboardVars

-----------------------------------------------------------------------------
(* Properties.                                                             *)

\* A login makes one session at most, however often Discord's redirect is
\* followed, by however many requests at once, before or after a restart.
OneSessionPerLogin ==
    \A s, t \in Session : made[s] # None /\ made[s] = made[t] => s = t

\* A browser is logged in only by a login it began itself, never by an address
\* that was meant for another one.
OwnLogin ==
    \A b \in Browser : cookie[b].session # None =>
        made[cookie[b].session] # None /\ began[made[cookie[b].session]] = b

\* A session is of one login, and of the browser that began it, whatever order
\* redirects, callbacks and restarts come in.
SessionsSound == OneSessionPerLogin /\ OwnLogin

\* A request acts only in a session that was in force when it came in: not
\* expired, not logged out, not cleared away, whatever other requests of the same
\* browser do and however long it waits.
ActsInForce ==
    \A r \in Request : request[r].at = "act" => request[r].live

\* What is the owner's is done for the one the running process resolved, not
\* for whom an earlier process, or the login, took for the owner.
OwnerIsCurrent ==
    \A r \in Request : request[r].at = "act" /\ request[r].what \in Owned =>
        owner # None /\ request[r].user = owner

CouldManage(r, g) == request[r].since - managed[request[r].user][g] <= Stale

\* Nothing is read of a guild or changed in it for a user who could not manage it
\* at any time since guildsStaleWhileRateLimited before the request came in.  The
\* exceptions are the endpoints that go by the identifier of a channel or of a
\* warning: for these it was only the guild the request names.
ManagersOnly ==
    \A r \in Request : request[r].at = "act" /\ request[r].what \in Guilded =>
        /\ CouldManage(r, request[r].guild)
        /\ \A g \in Touches(r) : CouldManage(r, g) \/ request[r].what \in ById

\* Whatever changes between a request's checks and what it does (withSession,
\* requireOwner, accessibleGuild): it was allowed by all three, but for the guild
\* of a channel or a warning, which accessibleGuild does not look at.
ActsSound == ActsInForce /\ OwnerIsCurrent /\ ManagersOnly

\* A session ends by its own expiry or by a logout that presents it: clearing
\* away the expired ones, or another browser's logout, leaves it.
SessionsEndAlone ==
    [][\A s \in Session : row[s] # None /\ row'[s] = None =>
          \/ row[s].expires <= clock
          \/ \E r \in Request : request[r].at = "drop" /\ request[r].session = s]_dashboardVars

=============================================================================
