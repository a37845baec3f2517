------------------------------ MODULE GuildLists ------------------------------
(***************************************************************************)
(* What the dashboard's list of guilds promises of one access token,       *)
(* without entries, expiries, flights or locks: there is at most one list  *)
(* to serve, known by the time the request that brought it came in, and    *)
(* one end of all pauses.  At most one request asks Discord, never within  *)
(* a pause and never while a list younger than guildsCacheTTL is there;    *)
(* its answer may also be given to any other request.  Whoever is refused  *)
(* came in a pause with nothing to serve.                                  *)
(***************************************************************************)
EXTENDS Integers

CONSTANTS Caller, TTL, StaleFor, RetryAfter

VARIABLES
    time,
    lists,    \* the list that may be served, if there is one
    pause,    \* the end of the latest pause
    asking,   \* the request that asks Discord, if there is one
    caller    \* each request: whether it is here or answered, its time, its result

vars == <<time, lists, pause, asking, caller>>

Plain(kind) == [kind |-> kind, fetched |-> 0]
Away == [at |-> "away", now |-> 0, result |-> Plain("none")]

Init ==
    /\ time = 0 /\ lists = {} /\ pause = 0 /\ asking = {}
    /\ caller = [r \in Caller |-> Away]

Here == {r \in Caller : caller[r].at = "here"}
Age(r, f) == caller[r].now - f

\* The requests of R are answered, all alike.
Answer(R, result) ==
    caller' = [r \in Caller |->
        IF r \in R THEN [at |-> "answered", now |-> caller[r].now, result |-> result]
        ELSE caller[r]]

Come(r) ==
    /\ caller[r].at = "away"
    /\ caller' = [caller EXCEPT ![r] = [at |-> "here", now |-> time, result |-> Plain("none")]]
    /\ UNCHANGED <<time, lists, pause, asking>>

Serve(r) ==
    /\ r \in Here \ asking
    /\ \E f \in lists :
         /\ Age(r, f) <= StaleFor
         /\ Age(r, f) < TTL \/ caller[r].now < pause
         /\ Answer({r}, [kind |-> "cached", fetched |-> f])
    /\ UNCHANGED <<time, lists, pause, asking>>

Refuse(r) ==
    /\ r \in Here \ asking
    /\ caller[r].now < pause
    /\ \A f \in lists : Age(r, f) > StaleFor
    /\ Answer({r}, Plain("limited"))
    /\ UNCHANGED <<time, lists, pause, asking>>

Ask(r) ==
    /\ r \in Here
    /\ asking = {} /\ pause <= time
    /\ \A f \in lists : Age(r, f) >= TTL
    /\ asking' = {r}
    /\ UNCHANGED <<time, lists, pause, caller>>

\* Discord answers: a list, a pause or an error, W being the others that get it.
\* Only the asking request looks for a list again when it has to pause.
Receive(r, W) ==
    /\ asking = {r} /\ asking' = {}
    /\ lists' \in {{}, {caller[r].now}}
    /\ Answer(W \cup {r}, Plain("list"))
    /\ UNCHANGED <<time, pause>>

Pause(r, W) ==
    /\ asking = {r} /\ asking' = {}
    /\ \E d \in RetryAfter :
         pause' = IF pause < caller[r].now + d THEN caller[r].now + d ELSE pause
    /\ Answer(W \ {r}, Plain("raw"))
    /\ UNCHANGED <<time, lists>>

Fail(r, W) ==
    /\ asking = {r} /\ asking' = {}
    /\ Answer(W \cup {r}, Plain("failed"))
    /\ UNCHANGED <<time, lists, pause>>

GiveUp(r) ==
    /\ r \in Here \ asking
    /\ Answer({r}, Plain("failed"))
    /\ UNCHANGED <<time, lists, pause, asking>>

Leave(r) ==
    /\ caller[r].at = "answered"
    /\ caller' = [caller EXCEPT ![r] = Away]
    /\ UNCHANGED <<time, lists, pause, asking>>

Elapse ==
    /\ time' = time + 1
    /\ UNCHANGED <<lists, pause, asking, caller>>

Next ==
    \/ \E r \in Caller : Come(r) \/ Serve(r) \/ Refuse(r) \/ Ask(r) \/ GiveUp(r) \/ Leave(r)
    \/ \E r \in Caller, W \in SUBSET Here : Receive(r, W) \/ Pause(r, W) \/ Fail(r, W)
    \/ Elapse

Spec == Init /\ [][Next]_vars

=============================================================================
