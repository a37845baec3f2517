----------------------------- MODULE GuildsCache -----------------------------
(***************************************************************************)
(* The dashboard's list of a user's guilds (fetchGuildsCached in           *)
(* internal/adminapi/service.go): one entry per access token, shared by    *)
(* concurrent requests; one of them at a time asks Discord, the others     *)
(* wait for its answer, and a rate-limit answer is followed by a pause in  *)
(* which the last list is served while it is not too old.                  *)
(*                                                                         *)
(* The model is of one token's entry.  Every time the code compares is the *)
(* one a request read when it came in.                                     *)
(***************************************************************************)
EXTENDS Integers

CONSTANTS
    Caller,      \* goroutines that serve dashboard requests
    TTL,         \* guildsCacheTTL
    StaleFor,    \* guildsStaleWhileRateLimited
    RetryAfter,  \* pauses Discord asks for
    MaxTime      \* bound on the clock

ASSUME CacheAssumption ==
    /\ TTL \in Nat \ {0} /\ StaleFor \in Nat /\ TTL <= StaleFor
    /\ RetryAfter \subseteq Nat \ {0}
    /\ MaxTime \in Nat

VARIABLES
    time,
    entry,    \* guildsCache[key]; a list nobody may be served counts as none
    flight,   \* guildsInflight[key]: whether there is one
    caller,   \* each request's place, its time and what it returned
    barred    \* history: the end of the latest pause Discord asked for

vars == <<time, entry, flight, caller, barred>>

\* What a request returns: a list Discord just gave, a cached one with its
\* fetchedAt, the polite refusal, the rate-limit error itself, another error.
Result == [kind : {"none", "list", "cached", "limited", "raw", "failed"}, fetched : Nat]
Plain(kind) == [kind |-> kind, fetched |-> 0]
Cached == [kind |-> "cached", fetched |-> entry.fetched]

Waiting == [at |-> "idle", now |-> 0, result |-> Plain("none")]

TypeOK ==
    /\ time \in Nat
    /\ entry \in [some : BOOLEAN, fetched : Nat, expires : Nat, blocked : Nat]
    /\ flight \in BOOLEAN
    /\ caller \in [Caller -> [at : {"idle", "lock", "fetch", "wait", "relock", "done"},
                              now : Nat, result : Result]]
    /\ barred \in Nat

Init ==
    /\ time = 0
    /\ entry = [some |-> FALSE, fetched |-> 0, expires |-> 0, blocked |-> 0]
    /\ flight = FALSE
    /\ caller = [r \in Caller |-> Waiting]
    /\ barred = 0

-----------------------------------------------------------------------------

\* Mutants of Blocked and Usable: a pause is kept only with a list
\* to serve in it; a list of any age may be served.
BlockedWithList(r) == entry.some /\ caller[r].now < entry.blocked
UsableEver(r) == entry.some

\* A pause is on; there is a list to serve in it; there is one to serve at once.
Blocked(r) == caller[r].now < entry.blocked
Usable(r) == entry.some /\ caller[r].now - entry.fetched <= StaleFor
Unexpired(r) == entry.some /\ caller[r].now < entry.expires

Moves(r, at) == caller' = [caller EXCEPT ![r].at = at]
Returns(r, result) == caller' = [caller EXCEPT ![r] = [@ EXCEPT !.at = "done", !.result = result]]

Arrive(r) ==
    /\ caller[r].at = "idle"
    /\ caller' = [caller EXCEPT ![r] = [Waiting EXCEPT !.at = "lock", !.now = time]]
    /\ UNCHANGED <<time, entry, flight, barred>>

\* The first critical section: the cache answers ...
ServeCached(r) ==
    /\ caller[r].at = "lock"
    /\ \/ Blocked(r) /\ Usable(r)
       \/ ~Blocked(r) /\ Unexpired(r)
    /\ Returns(r, Cached)
    /\ UNCHANGED <<time, entry, flight, barred>>

\* ... or the pause does ...
Refuse(r) ==
    /\ caller[r].at = "lock"
    /\ Blocked(r) /\ ~Usable(r)
    /\ Returns(r, Plain("limited"))
    /\ UNCHANGED <<time, entry, flight, barred>>

\* ... or the request waits for the one that is asking Discord ...
Join(r) ==
    /\ caller[r].at = "lock"
    /\ ~Blocked(r) /\ ~Unexpired(r)
    /\ flight
    /\ Moves(r, "wait")
    /\ UNCHANGED <<time, entry, flight, barred>>

\* Mutant of Lead: guildsInflight is not consulted.
LeadAlways(r) ==
    /\ caller[r].at = "lock"
    /\ ~Blocked(r) /\ ~Unexpired(r)
    /\ flight' = TRUE
    /\ Moves(r, "fetch")
    /\ UNCHANGED <<time, entry, barred>>

\* ... or asks itself.
Lead(r) ==
    /\ caller[r].at = "lock"
    /\ ~Blocked(r) /\ ~Unexpired(r)
    /\ ~flight
    /\ flight' = TRUE
    /\ Moves(r, "fetch")
    /\ UNCHANGED <<time, entry, barred>>

\* The second critical section closes the flight: whoever waits returns what
\* FetchGuilds returned, as it returned it.
Land(r, own, shared) ==
    /\ flight' = FALSE
    /\ caller' = [q \in Caller |->
         IF q = r THEN own
         ELSE IF caller[q].at = "wait" THEN [caller[q] EXCEPT !.at = "done", !.result = shared]
         ELSE caller[q]]

\* Mutant of AnswerError: the flight is left in the map.
AnswerErrorAloft(r) ==
    /\ caller[r].at = "fetch"
    /\ Returns(r, Plain("failed"))
    /\ UNCHANGED <<time, entry, flight, barred>>

\* Discord answers with a list; an empty one is kept but never served.
AnswerList(r) ==
    /\ caller[r].at = "fetch"
    /\ \E some \in BOOLEAN :
         entry' = [some |-> some, fetched |-> caller[r].now,
                   expires |-> caller[r].now + TTL, blocked |-> 0]
    /\ Land(r, [caller[r] EXCEPT !.at = "done", !.result = Plain("list")], Plain("list"))
    /\ UNCHANGED <<time, barred>>

\* Discord asks for a pause, counted from the time the request came in; an
\* expiry before its end is put off to it.
AnswerLimit(r) ==
    /\ caller[r].at = "fetch"
    /\ \E d \in RetryAfter :
         LET until == caller[r].now + d
         IN /\ entry' = [entry EXCEPT !.blocked = until,
                                      !.expires = IF entry.some /\ @ < until THEN until ELSE @]
            /\ barred' = IF barred < until THEN until ELSE barred
    /\ Land(r, [caller[r] EXCEPT !.at = "relock"], Plain("raw"))
    /\ UNCHANGED time

\* Any other error, the end of the asking request's context among them.
AnswerError(r) ==
    /\ caller[r].at = "fetch"
    /\ Land(r, [caller[r] EXCEPT !.at = "done", !.result = Plain("failed")], Plain("failed"))
    /\ UNCHANGED <<time, entry, barred>>

\* The third critical section: after a rate-limit answer, the cache again.
Fallback(r) ==
    /\ caller[r].at = "relock"
    /\ Returns(r, IF Usable(r) THEN Cached ELSE Plain("limited"))
    /\ UNCHANGED <<time, entry, flight, barred>>

\* A waiting request's own context ends.
GiveUp(r) ==
    /\ caller[r].at = "wait"
    /\ Returns(r, Plain("failed"))
    /\ UNCHANGED <<time, entry, flight, barred>>

Leave(r) ==
    /\ caller[r].at = "done"
    /\ caller' = [caller EXCEPT ![r] = Waiting]
    /\ UNCHANGED <<time, entry, flight, barred>>

Elapse ==
    /\ time < MaxTime
    /\ time' = time + 1
    /\ UNCHANGED <<entry, flight, caller, barred>>

Answer(r) == AnswerList(r) \/ AnswerLimit(r) \/ AnswerError(r)
Decide(r) == ServeCached(r) \/ Refuse(r) \/ Join(r) \/ Lead(r)

Next ==
    \/ \E r \in Caller :
         Arrive(r) \/ Decide(r) \/ Answer(r) \/ Fallback(r) \/ GiveUp(r) \/ Leave(r)
    \/ Elapse

Spec == Init /\ [][Next]_vars

-----------------------------------------------------------------------------
(* Properties.                                                             *)

\* One request at a time asks Discord, and none waits for nobody: the flight in
\* the map is always that of a request that will land it.
SingleFlight ==
    /\ \A r, q \in Caller : caller[r].at = "fetch" /\ caller[q].at = "fetch" => r = q
    /\ flight => \E r \in Caller : caller[r].at = "fetch"
    /\ (\E r \in Caller : caller[r].at \in {"fetch", "wait"}) => flight

\* No cached list is served that was older than guildsStaleWhileRateLimited when the
\* request came in, and unless that was within a pause none as old as
\* guildsCacheTTL.
ServedIsFresh ==
    \A r \in Caller : caller[r].result.kind = "cached" =>
        LET age == caller[r].now - caller[r].result.fetched
        IN age <= StaleFor /\ (age < TTL \/ caller[r].now < barred)

\* What fetchGuildsCached promises of one token's entry: a single flight, and
\* no list beyond its times.
CacheSound == SingleFlight /\ ServedIsFresh

\* Back off: Discord is never asked before the end of a pause, also not by a
\* request that read the time before the pause began, or was passed by another
\* that ended it.
BacksOff ==
    [][\A r \in Caller : caller[r].at # "fetch" /\ caller'[r].at = "fetch" =>
          barred <= time]_vars

Fairness ==
    \A r \in Caller : WF_vars(Decide(r)) /\ WF_vars(Answer(r)) /\ WF_vars(Fallback(r))

LiveSpec == Spec /\ Fairness

\* Every request returns, whoever it waits for: FetchGuilds ends by the HTTP
\* client's timeout, and nobody waits for a flight that is gone.
RequestsReturn ==
    \A r \in Caller : caller[r].at \in {"lock", "wait", "relock"} ~> caller[r].at = "done"

\* Where a request is for one who sees neither locks nor flights.
Seen(r) ==
    IF caller[r].at = "idle" THEN "away" ELSE IF caller[r].at = "done" THEN "answered" ELSE "here"

Promise == INSTANCE GuildLists
             WITH lists  <- IF entry.some THEN {entry.fetched} ELSE {},
                  pause  <- barred,
                  asking <- {r \in Caller : caller[r].at = "fetch"},
                  caller <- [r \in Caller |-> [at |-> Seen(r), now |-> caller[r].now,
                                               result |-> caller[r].result]]

\* The shared entry with its expiries, its flight and its three critical sections
\* implements the promise (GuildLists): among the rest, no list is served that
\* Discord did not give last, nor asked for again while it is fresh.
KeepsListPromise == Promise!Spec

=============================================================================
