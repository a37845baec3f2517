-------------------------- MODULE GuildsCacheProofs --------------------------
(***************************************************************************)
(* Theorems about GuildsCache for any number of requests, times and        *)
(* pauses, and below them about Dashboard, which serves the list.          *)
(***************************************************************************)
EXTENDS GuildsCache, Dashboard, TLAPS

\* A pause that is still on is the one in the entry, unless a fetch is under way:
\* then none is on.
PauseKept ==
    /\ entry.blocked <= barred
    /\ entry.blocked = barred \/ barred <= time
    /\ flight => barred <= time

\* An expiry beyond guildsCacheTTL is the end of a pause.
ExpiryOK == entry.expires <= entry.fetched + TTL \/ entry.expires <= entry.blocked

RequestOK(r) ==
    /\ caller[r].now <= time
    /\ caller[r].at = "relock" => caller[r].now < barred
    /\ caller[r].at = "fetch" /\ entry.some => entry.expires <= caller[r].now

IInv ==
    /\ TypeOK /\ SingleFlight /\ PauseKept /\ (entry.some => ExpiryOK)
    /\ \A r \in Caller : RequestOK(r)
    /\ ServedIsFresh

Requests == [at : {"idle", "lock", "fetch", "wait", "relock", "done"}, now : Nat, result : Result]

LEMMA PlainType == ASSUME NEW kind \in {"none", "list", "cached", "limited", "raw", "failed"}
                   PROVE  Plain(kind) \in Result /\ Plain(kind).kind = kind
BY DEF Plain, Result

\* A step of one request that leaves cache and flight alone.
LEMMA GoesOn ==
  ASSUME IInv, NEW r \in Caller, NEW x \in Requests,
         caller' = [caller EXCEPT ![r] = x],
         UNCHANGED <<time, entry, flight, barred>>,
         x.at # "fetch", x.at # "relock", caller[r].at # "fetch",
         x.at = "wait" => flight, x.now <= time,
         x.result.kind = "cached" =>
            /\ x.now - x.result.fetched <= StaleFor
            /\ x.now - x.result.fetched < TTL \/ x.now < barred
  PROVE  IInv'
<1>1. caller'[r] = x /\ \A q \in Caller \ {r} : caller'[q] = caller[q]
  BY DEF IInv, TypeOK
<1>2. TypeOK'
  BY DEF IInv, TypeOK, Requests
<1>3. SingleFlight'
  BY <1>1 DEF IInv, SingleFlight
<1>4. PauseKept' /\ (entry.some => ExpiryOK)'
  BY DEF IInv, PauseKept, ExpiryOK
<1>5. \A q \in Caller : RequestOK(q)'
  BY <1>1 DEF IInv, RequestOK
<1>6. ServedIsFresh'
  BY <1>1 DEF IInv, ServedIsFresh
<1>7. QED  BY <1>2, <1>3, <1>4, <1>5, <1>6 DEF IInv

LEMMA GoesInv ==
  ASSUME IInv, NEW r \in Caller,
         \/ Arrive(r) \/ ServeCached(r) \/ Refuse(r) \/ Join(r)
         \/ Fallback(r) \/ GiveUp(r) \/ Leave(r)
  PROVE  IInv'
<1>1. caller[r] \in Requests /\ RequestOK(r) /\ time \in Nat
  BY DEF IInv, TypeOK, Requests
<1> DEFINE y(result) == [caller[r] EXCEPT !.at = "done", !.result = result]
<1>2. ASSUME NEW result \in Result, Returns(r, result), caller[r].at # "fetch",
             UNCHANGED <<time, entry, flight, barred>>,
             result.kind = "cached" =>
               /\ caller[r].now - result.fetched <= StaleFor
               /\ caller[r].now - result.fetched < TTL \/ caller[r].now < barred
      PROVE  IInv'
  <2>1. /\ y(result) \in Requests /\ y(result).at = "done"
        /\ y(result).now = caller[r].now /\ y(result).result = result
    BY <1>1 DEF Requests
  <2>2. caller' = [caller EXCEPT ![r] = y(result)]
    BY <1>2 DEF Returns
  <2>3. QED  BY <1>1, <1>2, <2>1, <2>2, GoesOn DEF RequestOK
<1>3. CASE Arrive(r)
  <2> DEFINE x == [Waiting EXCEPT !.at = "lock", !.now = time]
  <2>1. x \in Requests /\ x.at = "lock" /\ x.now = time /\ x.result.kind = "none"
    BY <1>1, PlainType DEF Waiting, Requests
  <2>2. /\ caller' = [caller EXCEPT ![r] = x] /\ caller[r].at = "idle"
        /\ UNCHANGED <<time, entry, flight, barred>>
    BY <1>3 DEF Arrive
  <2> HIDE DEF x
  <2>3. x.now <= time /\ x.result.kind # "cached"
    BY <1>1, <2>1
  <2>4. QED  BY <2>1, <2>2, <2>3, GoesOn
<1>4. /\ Cached \in Result /\ Cached.kind = "cached" /\ Cached.fetched = entry.fetched
      /\ entry.fetched \in Nat /\ entry.expires \in Nat /\ entry.blocked \in Nat
      /\ barred \in Nat /\ caller[r].now \in Nat
  BY <1>1 DEF Cached, Result, IInv, TypeOK, Requests
<1>5. CASE ServeCached(r)
  <2>1. CASE Blocked(r) /\ Usable(r)
    BY <1>2, <1>4, <1>5, <2>1 DEF ServeCached, Blocked, Usable, IInv, PauseKept
  <2>2. CASE ~Blocked(r) /\ Unexpired(r)
    <3>1. caller[r].now < entry.fetched + TTL
      BY <1>4, <2>2, CacheAssumption DEF Blocked, Unexpired, IInv, ExpiryOK
    <3>2. caller[r].now - entry.fetched < TTL /\ caller[r].now - entry.fetched <= StaleFor
      BY <1>4, <3>1, CacheAssumption
    <3>3. QED  BY <1>2, <1>4, <1>5, <3>2 DEF ServeCached
  <2>3. QED  BY <1>5, <2>1, <2>2 DEF ServeCached
<1>6. CASE Refuse(r)
  BY <1>2, <1>6, PlainType DEF Refuse
<1>7. CASE Join(r)
  <2> DEFINE x == [caller[r] EXCEPT !.at = "wait"]
  <2>1. x \in Requests /\ x.at = "wait" /\ x.now = caller[r].now /\ x.result = caller[r].result
    BY <1>1 DEF Requests
  <2>2. caller' = [caller EXCEPT ![r] = x]
    BY <1>7 DEF Join, Moves
  <2>3. x.result.kind = "cached" =>
            /\ x.now - x.result.fetched <= StaleFor
            /\ x.now - x.result.fetched < TTL \/ x.now < barred
    BY <2>1 DEF IInv, ServedIsFresh
  <2>4. QED  BY <1>1, <1>7, <2>1, <2>2, <2>3, GoesOn DEF Join, RequestOK
<1>8. CASE Fallback(r)
  <2>1. CASE Usable(r)
    BY <1>1, <1>2, <1>4, <1>8, <2>1 DEF Fallback, Usable, RequestOK
  <2>2. CASE ~Usable(r)
    BY <1>2, <1>8, <2>2, PlainType DEF Fallback
  <2>3. QED  BY <2>1, <2>2
<1>9. CASE GiveUp(r)
  BY <1>2, <1>9, PlainType DEF GiveUp
<1>10. CASE Leave(r)
  <2>1. /\ Waiting \in Requests /\ Waiting.at = "idle" /\ Waiting.now = 0
        /\ Waiting.result.kind = "none"
    BY PlainType DEF Waiting, Requests
  <2>2. Waiting.now <= time /\ Waiting.result.kind # "cached"
    BY <1>1, <2>1
  <2>3. caller[r].at = "done"
    BY <1>10 DEF Leave
  <2>4. QED  BY <1>10, <2>1, <2>2, <2>3, GoesOn DEF Leave
<1>11. QED  BY <1>3, <1>5, <1>6, <1>7, <1>8, <1>9, <1>10

\* Whoever asks Discord does so after every pause.
LEMMA LeadWaits ==
  ASSUME IInv, NEW r \in Caller, Lead(r)
  PROVE  barred <= time
<1>1. caller[r].now \in Nat /\ time \in Nat /\ barred \in Nat /\ entry.blocked \in Nat
  BY DEF IInv, TypeOK
<1>2. QED  BY <1>1 DEF Lead, Blocked, IInv, PauseKept, RequestOK

LEMMA LeadInv ==
  ASSUME IInv, NEW r \in Caller, Lead(r)
  PROVE  IInv'
<1>1. caller[r] \in Requests
  BY DEF IInv, TypeOK, Requests
<1> DEFINE x == [caller[r] EXCEPT !.at = "fetch"]
<1>2. x \in Requests /\ x.at = "fetch" /\ x.now = caller[r].now /\ x.result = caller[r].result
  BY <1>1 DEF Requests
<1>3. caller'[r] = x /\ \A q \in Caller \ {r} : caller'[q] = caller[q]
  BY DEF Lead, Moves, IInv, TypeOK
<1>4. TypeOK'
  BY <1>1 DEF Lead, Moves, IInv, TypeOK, Requests
<1>5. SingleFlight'
  <2>1. flight' /\ caller'[r].at = "fetch"
    BY <1>2, <1>3 DEF Lead
  <2>2. \A q \in Caller \ {r} : caller'[q].at # "fetch"
    BY <1>3 DEF Lead, IInv, SingleFlight
  <2>3. QED  BY <2>1, <2>2 DEF SingleFlight
<1>6. PauseKept' /\ (entry.some => ExpiryOK)'
  BY LeadWaits DEF Lead, IInv, PauseKept, ExpiryOK
<1>7. \A q \in Caller : RequestOK(q)'
  <2>1. caller[r].now \in Nat /\ (entry.some => entry.expires <= caller[r].now)
    BY <1>1 DEF Lead, Unexpired, IInv, TypeOK, Requests
  <2>2. QED  BY <1>2, <1>3, <2>1 DEF Lead, IInv, RequestOK
<1>8. ServedIsFresh'
  BY <1>2, <1>3 DEF Lead, IInv, ServedIsFresh
<1>9. QED  BY <1>4, <1>5, <1>6, <1>7, <1>8 DEF IInv

\* A fetch lands: its own request goes on as x, those that wait return.
LEMMA Lands ==
  ASSUME IInv, NEW r \in Caller, caller[r].at = "fetch",
         NEW x \in Requests, NEW shared \in Result, Land(r, x, shared),
         time' = time, barred' \in Nat, barred <= barred',
         entry' \in [some : BOOLEAN, fetched : Nat, expires : Nat, blocked : Nat],
         PauseKept', (entry.some => ExpiryOK)',
         x.at \in {"done", "relock"}, x.at = "relock" => x.now < barred',
         x.now = caller[r].now, x.result.kind # "cached" \/ x.result = caller[r].result,
         shared.kind # "cached"
  PROVE  IInv'
<1>1. caller \in [Caller -> Requests] /\ time \in Nat /\ barred \in Nat
  BY DEF IInv, TypeOK, Requests
<1> DEFINE w(q) == [caller[q] EXCEPT !.at = "done", !.result = shared]
<1>2. \A q \in Caller : /\ w(q) \in Requests /\ w(q).at = "done"
                         /\ w(q).now = caller[q].now /\ w(q).result = shared
  BY <1>1 DEF Requests
<1>3. /\ caller'[r] = x
      /\ \A q \in Caller \ {r} :
            caller'[q] = IF caller[q].at = "wait" THEN w(q) ELSE caller[q]
  BY DEF Land
<1>4. caller' \in [Caller -> Requests]
  BY <1>1, <1>2 DEF Land
<1>5. TypeOK'
  BY <1>1, <1>4 DEF Land, IInv, TypeOK, Requests
<1>6. \A q \in Caller \ {r} : caller[q].at # "fetch"
  BY DEF IInv, SingleFlight
<1> HIDE DEF w
<1>7. SingleFlight'
  BY <1>2, <1>3, <1>6 DEF Land, SingleFlight
<1>8. \A q \in Caller : RequestOK(q)'
  <2>1. \A q \in Caller : caller[q].now \in Nat
    BY <1>1 DEF Requests
  <2>2. \A q \in Caller : caller'[q].at # "fetch"
    BY <1>2, <1>3, <1>6
  <2>3. QED  BY <1>1, <1>2, <1>3, <2>1, <2>2 DEF IInv, RequestOK
<1>9. ServedIsFresh'
  <2> SUFFICES ASSUME NEW q \in Caller, caller'[q].result.kind = "cached"
               PROVE  /\ caller'[q].now - caller'[q].result.fetched <= StaleFor
                      /\ \/ caller'[q].now - caller'[q].result.fetched < TTL
                         \/ caller'[q].now < barred'
    BY DEF ServedIsFresh
  <2>1. caller'[q].now = caller[q].now /\ caller'[q].result = caller[q].result
    BY <1>2, <1>3
  <2>2. caller[q].now \in Nat /\ caller[q].result.fetched \in Nat
    BY <1>1 DEF Requests, Result
  <2>3. QED  BY <1>1, <2>1, <2>2 DEF IInv, ServedIsFresh
<1>10. QED  BY <1>5, <1>7, <1>8, <1>9 DEF IInv

LEMMA AnswerInv ==
  ASSUME IInv, NEW r \in Caller, Answer(r)
  PROVE  IInv'
<1>1. /\ caller[r] \in Requests /\ caller[r].at = "fetch"
      /\ caller[r].now \in Nat /\ time \in Nat /\ barred \in Nat
      /\ entry \in [some : BOOLEAN, fetched : Nat, expires : Nat, blocked : Nat]
      /\ caller[r].now <= time /\ barred <= time
      /\ TTL \in Nat /\ RetryAfter \subseteq Nat \ {0}
  BY CacheAssumption DEF Answer, AnswerList, AnswerLimit, AnswerError, IInv, TypeOK, Requests,
     RequestOK, PauseKept, SingleFlight
<1> DEFINE y(kind) == [caller[r] EXCEPT !.at = "done", !.result = Plain(kind)]
<1>2. \A kind \in {"list", "failed"} :
         /\ y(kind) \in Requests /\ y(kind).at = "done" /\ y(kind).now = caller[r].now
         /\ y(kind).result.kind = kind
  BY <1>1, PlainType DEF Requests
<1>3. \A kind \in {"list", "failed", "raw"} : Plain(kind) \in Result /\ Plain(kind).kind = kind
  BY PlainType
<1>4. CASE AnswerList(r)
  <2>1. PICK some \in BOOLEAN :
          entry' = [some |-> some, fetched |-> caller[r].now,
                    expires |-> caller[r].now + TTL, blocked |-> 0]
    BY <1>4 DEF AnswerList
  <2>2. /\ entry' \in [some : BOOLEAN, fetched : Nat, expires : Nat, blocked : Nat]
        /\ entry'.fetched = caller[r].now /\ entry'.expires = caller[r].now + TTL
        /\ entry'.blocked = 0
    BY <1>1, <2>1
  <2>3. Land(r, y("list"), Plain("list")) /\ UNCHANGED <<time, barred>> /\ flight' = FALSE
    BY <1>4 DEF AnswerList, Land
  <2>4. PauseKept' /\ (entry.some => ExpiryOK)'
    BY <1>1, <2>2, <2>3 DEF PauseKept, ExpiryOK
  <2> HIDE DEF y
  <2>5. QED  BY <1>1, <1>2, <1>3, <2>2, <2>3, <2>4, Lands
<1>5. CASE AnswerLimit(r)
  <2>1. PICK d \in RetryAfter :
          /\ entry' = [entry EXCEPT !.blocked = caller[r].now + d,
                         !.expires = IF entry.some /\ @ < caller[r].now + d
                                     THEN caller[r].now + d ELSE @]
          /\ barred' = IF barred < caller[r].now + d THEN caller[r].now + d ELSE barred
    BY <1>5 DEF AnswerLimit
  <2>2. d \in Nat /\ d > 0
    BY <1>1, <2>1
  <2>3. /\ entry'.blocked = caller[r].now + d /\ entry'.fetched = entry.fetched
        /\ entry'.some = entry.some /\ entry'.expires \in {entry.expires, caller[r].now + d}
        /\ entry' \in [some : BOOLEAN, fetched : Nat, expires : Nat, blocked : Nat]
        /\ entry.some => entry'.expires = caller[r].now + d
    <3> DEFINE e == IF entry.some /\ entry.expires < caller[r].now + d
                    THEN caller[r].now + d ELSE entry.expires
    <3>1. e \in Nat /\ caller[r].now + d \in Nat
      BY <1>1, <2>2
    <3>2. entry' = [entry EXCEPT !.blocked = caller[r].now + d, !.expires = e]
      BY <2>1
    <3>3. e \in {entry.expires, caller[r].now + d}
      OBVIOUS
    <3>4. entry.some => e = caller[r].now + d
      BY <1>1, <2>2 DEF IInv, RequestOK
    <3> HIDE DEF e
    <3>5. QED  BY <1>1, <3>1, <3>2, <3>3, <3>4
  <2>4. barred' \in Nat /\ barred <= barred' /\ caller[r].now < barred'
    BY <1>1, <2>1, <2>2
  <2> DEFINE x == [caller[r] EXCEPT !.at = "relock"]
  <2>5. x \in Requests /\ x.at = "relock" /\ x.now = caller[r].now /\ x.result = caller[r].result
    BY <1>1 DEF Requests
  <2>6. Land(r, x, Plain("raw")) /\ time' = time /\ flight' = FALSE
    BY <1>5 DEF AnswerLimit, Land
  <2>7. PauseKept'
    BY <1>1, <2>1, <2>2, <2>3, <2>6 DEF PauseKept
  <2>8. (entry.some => ExpiryOK)'
    BY <1>1, <2>2, <2>3 DEF ExpiryOK
  <2> HIDE DEF x
  <2>9. QED  BY <1>1, <1>3, <2>3, <2>4, <2>5, <2>6, <2>7, <2>8, Lands
<1>6. CASE AnswerError(r)
  <2>1. Land(r, y("failed"), Plain("failed")) /\ UNCHANGED <<time, entry, barred>> /\ flight' = FALSE
    BY <1>6 DEF AnswerError, Land
  <2>2. PauseKept' /\ (entry.some => ExpiryOK)'
    BY <2>1 DEF IInv, PauseKept, ExpiryOK
  <2> HIDE DEF y
  <2>3. QED  BY <1>1, <1>2, <1>3, <2>1, <2>2, Lands
<1>7. QED  BY <1>4, <1>5, <1>6 DEF Answer

LEMMA InitInv == Init => IInv
<1> SUFFICES ASSUME Init PROVE IInv
  OBVIOUS
<1>1. Waiting \in Requests /\ Waiting.at = "idle" /\ Waiting.now = 0 /\ Waiting.result.kind = "none"
  BY PlainType DEF Waiting, Requests
<1>2. TypeOK
  BY <1>1 DEF Init, TypeOK, Requests
<1>3. SingleFlight /\ PauseKept
  BY <1>1 DEF Init, SingleFlight, PauseKept
<1>4. (\A r \in Caller : RequestOK(r)) /\ ServedIsFresh
  BY <1>1 DEF Init, RequestOK, ServedIsFresh
<1>5. QED  BY <1>2, <1>3, <1>4 DEF IInv, Init

LEMMA StepInv == IInv /\ [Next]_vars => IInv'
<1> SUFFICES ASSUME IInv, [Next]_vars PROVE IInv'
  OBVIOUS
<1>1. CASE Elapse
  <2>1. time \in Nat /\ time' = time + 1 /\ UNCHANGED <<entry, flight, caller, barred>>
    BY <1>1 DEF Elapse, IInv, TypeOK
  <2>2. TypeOK' /\ SingleFlight' /\ (entry.some => ExpiryOK)' /\ ServedIsFresh'
    BY <2>1 DEF IInv, TypeOK, SingleFlight, ExpiryOK, ServedIsFresh
  <2>3. barred \in Nat /\ \A r \in Caller : caller[r].now \in Nat
    BY DEF IInv, TypeOK
  <2>4. PauseKept' /\ \A r \in Caller : RequestOK(r)'
    BY <2>1, <2>3 DEF IInv, PauseKept, RequestOK
  <2>5. QED  BY <2>2, <2>4 DEF IInv
<1>2. CASE UNCHANGED vars
  BY <1>2 DEF vars, IInv, TypeOK, SingleFlight, PauseKept, ExpiryOK, RequestOK, ServedIsFresh
<1>3. ASSUME NEW r \in Caller,
             Arrive(r) \/ Decide(r) \/ Answer(r) \/ Fallback(r) \/ GiveUp(r) \/ Leave(r)
      PROVE  IInv'
  BY <1>3, GoesInv, LeadInv, AnswerInv DEF Decide
<1>4. QED  BY <1>1, <1>2, <1>3 DEF Next

LEMMA Invariant == Spec => []IInv
BY InitInv, StepInv, PTL DEF Spec

\* Every reachable state is well typed.
THEOREM TypeCorrect == Spec => []TypeOK
<1>1. IInv => TypeOK
  BY DEF IInv
<1>2. QED  BY <1>1, Invariant, PTL

\* One request at a time asks Discord, and whoever waits waits for it
\* (guildsInflight).
THEOREM OneFlight == Spec => []SingleFlight
<1>1. IInv => SingleFlight
  BY DEF IInv
<1>2. QED  BY <1>1, Invariant, PTL

\* No cached list is served beyond guildsStaleWhileRateLimited, nor outside of a
\* pause beyond guildsCacheTTL, although a pause puts expiries off.
THEOREM FreshEnough == Spec => []ServedIsFresh
<1>1. IInv => ServedIsFresh
  BY DEF IInv
<1>2. QED  BY <1>1, Invariant, PTL

\* Discord is never asked before the end of a pause it asked for.
THEOREM NeverTooSoon == Spec => BacksOff
<1>1. IInv /\ [Next]_vars =>
         [\A r \in Caller : caller[r].at # "fetch" /\ caller'[r].at = "fetch" =>
             barred <= time]_vars
  <2> SUFFICES ASSUME IInv, Next, NEW r \in Caller,
                      caller[r].at # "fetch", caller'[r].at = "fetch"
               PROVE  barred <= time
    BY DEF vars
  <2>1. CASE Elapse
    BY <2>1 DEF Elapse
  <2>2. ASSUME NEW q \in Caller, Lead(q)  PROVE barred <= time
    BY <2>2, LeadWaits
  <2>3. ASSUME NEW q \in Caller, NEW x \in {"lock", "wait", "done", "idle"},
               caller'[q].at = x, \A p \in Caller \ {q} : caller'[p] = caller[p]
        PROVE  FALSE
    BY <2>3
  <2>4. ASSUME NEW q \in Caller, Arrive(q) \/ ServeCached(q) \/ Refuse(q) \/ Join(q)
                                  \/ Fallback(q) \/ GiveUp(q) \/ Leave(q)
        PROVE  FALSE
    <3>1. caller \in [Caller -> Requests]
      BY DEF IInv, TypeOK, Requests
    <3>2. CASE Arrive(q)
      BY <2>3, <3>1, <3>2 DEF Arrive, Waiting
    <3>3. CASE Join(q)
      BY <2>3, <3>1, <3>3 DEF Join, Moves, Requests
    <3>4. CASE Leave(q)
      BY <2>3, <3>1, <3>4 DEF Leave, Waiting
    <3>5. ASSUME NEW result, Returns(q, result)  PROVE FALSE
      BY <2>3, <3>1, <3>5 DEF Returns, Requests
    <3>6. QED
      BY <2>4, <3>2, <3>3, <3>4, <3>5 DEF ServeCached, Refuse, Fallback, GiveUp
  <2>6. ASSUME NEW q \in Caller, Answer(q)  PROVE FALSE
    <3>1. caller \in [Caller -> Requests]
      BY DEF IInv, TypeOK, Requests
    <3>2. ASSUME NEW own, NEW shared, Land(q, own, shared), own.at # "fetch"  PROVE FALSE
      BY <3>1, <3>2 DEF Land, Requests
    <3>3. caller[q] \in Requests
      BY <3>1
    <3>4. ASSUME NEW result  PROVE [caller[q] EXCEPT !.at = "done", !.result = result].at # "fetch"
      BY <3>3 DEF Requests
    <3>5. [caller[q] EXCEPT !.at = "relock"].at # "fetch"
      BY <3>3 DEF Requests
    <3>6. CASE AnswerList(q)
      BY <3>2, <3>4, <3>6 DEF AnswerList
    <3>7. CASE AnswerLimit(q)
      BY <3>2, <3>5, <3>7 DEF AnswerLimit
    <3>8. CASE AnswerError(q)
      BY <3>2, <3>4, <3>8 DEF AnswerError
    <3>9. QED  BY <2>6, <3>6, <3>7, <3>8 DEF Answer
  <2>5. QED  BY <2>1, <2>2, <2>4, <2>6 DEF Next, Decide
<1>2. QED  BY <1>1, Invariant, PTL DEF Spec, BacksOff

\* The entry of a token has a single flight and serves no list beyond its times.
THEOREM CacheIsSound == Spec => []CacheSound
<1>1. SingleFlight /\ ServedIsFresh => CacheSound
  BY DEF CacheSound
<1> QED
  BY <1>1, OneFlight, FreshEnough, PTL

-----------------------------------------------------------------------------
(* The promise (GuildLists): every step of the cache is one of it, or none *)
(* of its business.                                                        *)

\* A list that may be served is fresh for guildsCacheTTL at least.
FreshAtFirst == entry.some => entry.fetched + TTL <= entry.expires

LEMMA FreshFirst == IInv /\ FreshAtFirst /\ [Next]_vars => FreshAtFirst'
<1> SUFFICES ASSUME IInv, FreshAtFirst, [Next]_vars PROVE FreshAtFirst'
  OBVIOUS
<1>1. entry \in [some : BOOLEAN, fetched : Nat, expires : Nat, blocked : Nat]
  BY DEF IInv, TypeOK
<1>2. CASE entry' = entry
  BY <1>2 DEF FreshAtFirst
<1>3. ASSUME NEW r \in Caller, AnswerList(r)  PROVE FreshAtFirst'
  <2>1. caller[r].now \in Nat /\ TTL \in Nat
    BY CacheAssumption DEF IInv, TypeOK
  <2>2. entry'.fetched = caller[r].now /\ entry'.expires = caller[r].now + TTL
    BY <1>3 DEF AnswerList
  <2>3. QED  BY <2>1, <2>2 DEF FreshAtFirst
<1>4. ASSUME NEW r \in Caller, AnswerLimit(r)  PROVE FreshAtFirst'
  <2>1. PICK d \in RetryAfter :
          entry' = [entry EXCEPT !.blocked = caller[r].now + d,
                      !.expires = IF entry.some /\ @ < caller[r].now + d
                                  THEN caller[r].now + d ELSE @]
    BY <1>4 DEF AnswerLimit
  <2>2. d \in Nat /\ caller[r].now \in Nat /\ TTL \in Nat
    BY CacheAssumption DEF IInv, TypeOK
  <2>3. /\ entry'.some = entry.some /\ entry'.fetched = entry.fetched
        /\ entry'.expires = IF entry.some /\ entry.expires < caller[r].now + d
                            THEN caller[r].now + d ELSE entry.expires
    BY <1>1, <2>1
  <2>4. QED  BY <1>1, <2>2, <2>3 DEF FreshAtFirst
<1>5. QED
  BY <1>2, <1>3, <1>4
     DEF Next, Arrive, Decide, ServeCached, Refuse, Join, Lead, Answer, AnswerError, Fallback,
         GiveUp, Leave, Elapse, vars

\* The requests as the promise sees them.
View == [r \in Caller |-> [at |-> Seen(r), now |-> caller[r].now, result |-> caller[r].result]]
Asking == {r \in Caller : caller[r].at = "fetch"}
Lists == IF entry.some THEN {entry.fetched} ELSE {}

LEMMA ViewIs ==
  /\ \A r \in Caller : /\ View[r].at = Seen(r) /\ View[r].now = caller[r].now
                       /\ View[r].result = caller[r].result
                       /\ View[r] = [at |-> View[r].at, now |-> View[r].now, result |-> View[r].result]
  /\ View = [r \in Caller |-> View[r]]
BY DEF View

\* The requests of R are answered, all alike, and nothing is seen of the others.
LEMMA ViewAnswers ==
  ASSUME NEW R \in SUBSET Caller, NEW result,
         \A q \in Caller : caller'[q].now = caller[q].now,
         \A q \in R : caller'[q].at = "done" /\ caller'[q].result = result,
         \A q \in Caller \ R : Seen(q)' = Seen(q) /\ caller'[q].result = caller[q].result
  PROVE  Promise!Answer(R, result)
<1>1. \A q \in R : Seen(q)' = "answered"
  BY DEF Seen
<1>2. \A q \in R : View'[q] = [at |-> "answered", now |-> View[q].now, result |-> result]
  BY <1>1 DEF View
<1>3. \A q \in Caller \ R : View'[q] = View[q]
  BY DEF View
<1>4. View' = [q \in Caller |->
         IF q \in R THEN [at |-> "answered", now |-> View[q].now, result |-> result] ELSE View[q]]
  BY <1>2, <1>3 DEF View
<1>5. QED  BY <1>4 DEF Promise!Answer, View

LEMMA ViewStays ==
  ASSUME \A q \in Caller : /\ Seen(q)' = Seen(q) /\ caller'[q].now = caller[q].now
                           /\ caller'[q].result = caller[q].result
  PROVE  View' = View
BY DEF View

\* One request that does not ask Discord returns.
LEMMA ReturnsPromise ==
  ASSUME IInv, NEW r \in Caller, NEW result, Returns(r, result), UNCHANGED <<time, entry, barred>>,
         caller[r].at \in {"lock", "wait", "relock"}
  PROVE  /\ Promise!Answer({r}, result) /\ Asking' = Asking /\ Lists' = Lists
         /\ Seen(r) = "here" /\ r \notin Asking
<1>1. caller \in [Caller -> Requests]
  BY DEF IInv, TypeOK, Requests
<1>2. /\ caller'[r].at = "done" /\ caller'[r].result = result /\ caller'[r].now = caller[r].now
      /\ \A q \in Caller \ {r} : caller'[q] = caller[q]
  BY <1>1 DEF Returns, Requests
<1>3. \A q \in Caller \ {r} : Seen(q)' = Seen(q)
  BY <1>2 DEF Seen
<1>4. Promise!Answer({r}, result)
  BY <1>2, <1>3, ViewAnswers
<1>5. QED  BY <1>2, <1>4 DEF Asking, Lists, Seen

LEMMA HereIs == Promise!Here = {q \in Caller : Seen(q) = "here"}
BY DEF Promise!Here

\* The cache answers a request.
LEMMA ServePromise ==
  ASSUME IInv, NEW r \in Caller, Usable(r), Returns(r, Cached), UNCHANGED <<time, entry, barred>>,
         caller[r].at \in {"lock", "relock"},
         caller[r].now - entry.fetched < TTL \/ caller[r].now < barred
  PROVE  Promise!Serve(r)
<1>0. PICK f \in Nat : f = entry.fetched
  BY DEF IInv, TypeOK
<1> DEFINE list == [kind |-> "cached", fetched |-> f]
<1>a. Returns(r, list)
  BY <1>0 DEF Cached, Returns
<1>1. /\ Promise!Answer({r}, list) /\ Asking' = Asking /\ Lists' = Lists
      /\ r \in Promise!Here \ Asking
  BY <1>a, ReturnsPromise, HereIs
<1>2. Lists = {f}
  BY <1>0 DEF Usable, Lists
<1>3. Promise!Age(r, f) = caller[r].now - f /\ View[r].now = caller[r].now
  BY DEF Promise!Age, View
<1>4. QED
  BY <1>0, <1>1, <1>2, <1>3 DEF Promise!Serve, Usable, Lists, Asking, View

\* A pause does.
LEMMA RefusePromise ==
  ASSUME IInv, NEW r \in Caller, ~Usable(r), Returns(r, Plain("limited")),
         UNCHANGED <<time, entry, barred>>, caller[r].at \in {"lock", "relock"},
         caller[r].now < barred
  PROVE  Promise!Refuse(r)
<1>1. /\ Promise!Answer({r}, Plain("limited")) /\ Asking' = Asking /\ Lists' = Lists
      /\ r \in Promise!Here \ Asking
  BY ReturnsPromise, HereIs
<1>2. /\ caller[r].now \in Nat /\ entry.fetched \in Nat /\ StaleFor \in Nat
  BY CacheAssumption DEF IInv, TypeOK
<1>3. \A f \in Lists : Promise!Age(r, f) > StaleFor
  BY <1>2 DEF Promise!Age, Lists, Usable
<1>4. QED
  BY <1>1, <1>3 DEF Promise!Refuse, Promise!Plain, Plain, Lists, Asking, View

LEMMA GoesPromise ==
  ASSUME IInv, NEW r \in Caller,
         Arrive(r) \/ ServeCached(r) \/ Refuse(r) \/ Join(r) \/ Fallback(r) \/ GiveUp(r) \/ Leave(r)
  PROVE  Promise!Next \/ UNCHANGED Promise!vars
<1>1. /\ caller \in [Caller -> Requests] /\ caller[r].now \in Nat /\ entry.fetched \in Nat
      /\ entry.expires \in Nat /\ entry.blocked \in Nat /\ barred \in Nat
      /\ TTL \in Nat /\ StaleFor \in Nat /\ TTL <= StaleFor
  BY CacheAssumption DEF IInv, TypeOK, Requests
<1>2. CASE Arrive(r)
  <2>1. /\ caller'[r] = [at |-> "lock", now |-> time, result |-> Plain("none")]
        /\ \A q \in Caller \ {r} : caller'[q] = caller[q]
    BY <1>1, <1>2 DEF Arrive, Waiting
  <2>2. View[r].at = "away" /\ View'[r] = [at |-> "here", now |-> time, result |-> Plain("none")]
    <3>1. Seen(r) = "away" /\ Seen(r)' = "here"
      BY <1>2, <2>1 DEF Arrive, Seen
    <3>2. caller'[r].now = time /\ caller'[r].result = Plain("none")
      BY <2>1
    <3>3. QED  BY <3>1, <3>2 DEF View
  <2>3. \A q \in Caller \ {r} : View'[q] = View[q]
    BY <2>1 DEF View, Seen
  <2>4. View' = [View EXCEPT ![r] = [at |-> "here", now |-> time, result |-> Plain("none")]]
    BY <2>2, <2>3 DEF View
  <2>5. Asking' = Asking /\ Lists' = Lists
    BY <1>2, <2>1 DEF Asking, Lists, Arrive
  <2>6. Promise!Come(r)
    BY <1>2, <2>2, <2>4, <2>5
       DEF Arrive, Promise!Come, Promise!Plain, Plain, View, Asking, Lists
  <2>7. QED  BY <2>6 DEF Promise!Next
<1>3. CASE ServeCached(r)
  <2>1. Usable(r) /\ (caller[r].now - entry.fetched < TTL \/ caller[r].now < barred)
    BY <1>1, <1>3 DEF ServeCached, Usable, Unexpired, Blocked, IInv, PauseKept, ExpiryOK
  <2>2. Promise!Serve(r)
    BY <1>3, <2>1, ServePromise DEF ServeCached
  <2>3. QED  BY <2>2 DEF Promise!Next
<1>4. CASE Refuse(r)
  <2>1. caller[r].now < barred
    BY <1>1, <1>4 DEF Refuse, Blocked, IInv, PauseKept
  <2>2. Promise!Refuse(r)
    BY <1>4, <2>1, RefusePromise DEF Refuse
  <2>3. QED  BY <2>2 DEF Promise!Next
<1>5. CASE Join(r)
  <2>1. /\ caller'[r].at = "wait" /\ caller'[r].now = caller[r].now
        /\ caller'[r].result = caller[r].result
        /\ \A q \in Caller \ {r} : caller'[q] = caller[q]
    BY <1>1, <1>5 DEF Join, Moves, Requests
  <2>2. View' = View
    BY <1>5, <2>1, ViewStays DEF Join, Seen
  <2>3. Asking' = Asking /\ Lists' = Lists
    BY <1>5, <2>1 DEF Join, Asking, Lists
  <2>4. QED  BY <1>5, <2>2, <2>3 DEF Join, Promise!vars, View, Asking, Lists
<1>6. CASE Fallback(r)
  <2>1. caller[r].now < barred
    BY <1>6 DEF Fallback, IInv, RequestOK
  <2>2. CASE Usable(r)
    <3>1. Promise!Serve(r)
      BY <1>6, <2>1, <2>2, ServePromise DEF Fallback
    <3>2. QED  BY <3>1 DEF Promise!Next
  <2>3. CASE ~Usable(r)
    <3>1. Promise!Refuse(r)
      BY <1>6, <2>1, <2>3, RefusePromise DEF Fallback
    <3>2. QED  BY <3>1 DEF Promise!Next
  <2>4. QED  BY <2>2, <2>3
<1>7. CASE GiveUp(r)
  <2>1. /\ Promise!Answer({r}, Plain("failed")) /\ Asking' = Asking /\ Lists' = Lists
        /\ r \in Promise!Here \ Asking
    BY <1>7, ReturnsPromise, HereIs DEF GiveUp
  <2>2. Promise!GiveUp(r)
    BY <1>7, <2>1 DEF GiveUp, Promise!GiveUp, Promise!Plain, Plain, Asking, Lists
  <2>3. QED  BY <2>2 DEF Promise!Next
<1>8. CASE Leave(r)
  <2>1. /\ caller'[r] = [at |-> "idle", now |-> 0, result |-> Plain("none")]
        /\ \A q \in Caller \ {r} : caller'[q] = caller[q]
    BY <1>1, <1>8 DEF Leave, Waiting
  <2>2. View[r].at = "answered" /\ View'[r] = [at |-> "away", now |-> 0, result |-> Plain("none")]
    BY <1>8, <2>1 DEF Leave, View, Seen
  <2>3. \A q \in Caller \ {r} : View'[q] = View[q]
    BY <2>1 DEF View, Seen
  <2>4. View' = [View EXCEPT ![r] = [at |-> "away", now |-> 0, result |-> Plain("none")]]
    BY <2>2, <2>3 DEF View
  <2>5. Asking' = Asking /\ Lists' = Lists
    BY <1>8, <2>1 DEF Asking, Lists, Leave
  <2>6. Promise!Leave(r)
    BY <1>8, <2>2, <2>4, <2>5
       DEF Leave, Promise!Leave, Promise!Away, Promise!Plain, Plain, View, Asking, Lists
  <2>7. QED  BY <2>6 DEF Promise!Next
<1>9. QED  BY <1>2, <1>3, <1>4, <1>5, <1>6, <1>7, <1>8

\* A request that asks finds nobody asking, no pause and no fresh list.
LEMMA LeadPromise ==
  ASSUME IInv, FreshAtFirst, NEW r \in Caller, Lead(r)
  PROVE  Promise!Ask(r)
<1>1. /\ caller \in [Caller -> Requests] /\ caller[r].now \in Nat /\ entry.fetched \in Nat
      /\ entry.expires \in Nat /\ TTL \in Nat
  BY CacheAssumption DEF IInv, TypeOK, Requests
<1>2. /\ caller'[r].at = "fetch" /\ caller'[r].now = caller[r].now
      /\ caller'[r].result = caller[r].result
      /\ \A q \in Caller \ {r} : caller'[q] = caller[q]
  BY <1>1 DEF Lead, Moves, Requests
<1>3. View' = View
  BY <1>2, ViewStays DEF Lead, Seen
<1>4. Asking = {} /\ Asking' = {r}
  BY <1>2 DEF Lead, IInv, SingleFlight, Asking
<1>5. \A f \in Lists : Promise!Age(r, f) >= TTL
  BY <1>1 DEF Lead, Unexpired, FreshAtFirst, Lists, Promise!Age, View
<1>6. r \in Promise!Here
  BY HereIs DEF Lead, Seen
<1>7. QED
  BY <1>3, <1>4, <1>5, <1>6, LeadWaits DEF Lead, Promise!Ask, View, Asking, Lists

\* The flight lands: it is over, and those who wait get what it brought.
LEMMA LandPromise ==
  ASSUME IInv, NEW r \in Caller, caller[r].at = "fetch", NEW own, NEW shared, Land(r, own, shared),
         own.at \in {"done", "relock"}, own.now = caller[r].now,
         own.at = "done" => own.result = shared,
         own.at = "relock" => own.result = caller[r].result
  PROVE  /\ Asking = {r} /\ Asking' = {}
         /\ \E W \in SUBSET Promise!Here :
              Promise!Answer(IF own.at = "done" THEN W \cup {r} ELSE W \ {r}, shared)
<1> DEFINE W == {q \in Caller : caller[q].at = "wait"}
<1> DEFINE R == IF own.at = "done" THEN W \cup {r} ELSE W \ {r}
<1>1. caller \in [Caller -> Requests]
  BY DEF IInv, TypeOK, Requests
<1>2. /\ caller'[r] = own
      /\ \A q \in W : /\ caller'[q].at = "done" /\ caller'[q].result = shared
                      /\ caller'[q].now = caller[q].now
      /\ \A q \in Caller \ W : q # r => caller'[q] = caller[q]
      /\ r \notin W
  BY <1>1 DEF Land, Requests
<1>3. \A q \in Caller : caller[q].at = "fetch" => q = r
  BY DEF IInv, SingleFlight
<1>4. Asking = {r} /\ Asking' = {}
  BY <1>2, <1>3 DEF Asking
<1>5. W \in SUBSET Promise!Here
  BY HereIs DEF Seen
<1>6. Promise!Answer(R, shared)
  <2>1. \A q \in Caller : caller'[q].now = caller[q].now
    BY <1>2
  <2>2. \A q \in R : caller'[q].at = "done" /\ caller'[q].result = shared
    BY <1>2
  <2>3. \A q \in Caller \ R : Seen(q)' = Seen(q) /\ caller'[q].result = caller[q].result
    BY <1>2 DEF Seen
  <2>4. PICK RR \in SUBSET Caller : RR = R
    OBVIOUS
  <2> HIDE DEF R
  <2>5. Promise!Answer(RR, shared)
    BY <2>1, <2>2, <2>3, <2>4, ViewAnswers
  <2>6. QED  BY <2>4, <2>5 DEF Promise!Answer
<1>7. QED  BY <1>4, <1>5, <1>6

LEMMA AnswerPromise ==
  ASSUME IInv, NEW r \in Caller, Answer(r)
  PROVE  Promise!Next
<1>1. caller[r] \in Requests /\ caller[r].at = "fetch" /\ barred \in Nat /\ caller[r].now \in Nat
  BY DEF Answer, AnswerList, AnswerLimit, AnswerError, IInv, TypeOK, Requests
<1> DEFINE y(kind) == [caller[r] EXCEPT !.at = "done", !.result = Plain(kind)]
<1>2. \A kind \in {"list", "failed"} :
         y(kind).at = "done" /\ y(kind).now = caller[r].now /\ y(kind).result = Plain(kind)
  BY <1>1 DEF Requests
<1> HIDE DEF y
<1>3. ASSUME NEW kind \in {"list", "failed"}, Land(r, y(kind), Plain(kind))
      PROVE  /\ Asking = {r} /\ Asking' = {}
             /\ \E W \in SUBSET Promise!Here : Promise!Answer(W \cup {r}, Plain(kind))
  <2>1. PICK own, shared : own = y(kind) /\ shared = Plain(kind)
    OBVIOUS
  <2>2. own.at = "done" /\ own.now = caller[r].now /\ own.result = shared /\ Land(r, own, shared)
    BY <1>2, <1>3, <2>1
  <2>3. /\ Asking = {r} /\ Asking' = {}
        /\ \E W \in SUBSET Promise!Here :
              Promise!Answer(IF own.at = "done" THEN W \cup {r} ELSE W \ {r}, shared)
    BY <1>1, <2>2, LandPromise
  <2>4. QED  BY <2>1, <2>2, <2>3
<1>4. CASE AnswerList(r)
  <2>1. Land(r, y("list"), Plain("list")) /\ UNCHANGED <<time, barred>>
    BY <1>4 DEF AnswerList, y
  <2>2. /\ Asking = {r} /\ Asking' = {}
        /\ \E W \in SUBSET Promise!Here : Promise!Answer(W \cup {r}, Plain("list"))
    BY <2>1, <1>3
  <2>3. Lists' \in {{}, {caller[r].now}}
    BY <1>4 DEF AnswerList, Lists
  <2>4. \E W \in SUBSET Promise!Here : Promise!Receive(r, W)
    BY <2>1, <2>2, <2>3 DEF Promise!Receive, Promise!Plain, Plain, Asking, Lists, View
  <2>5. QED  BY <2>4 DEF Promise!Next
<1>5. CASE AnswerLimit(r)
  <2>1. PICK own, shared : own = [caller[r] EXCEPT !.at = "relock"] /\ shared = Plain("raw")
    OBVIOUS
  <2>2. /\ own.at = "relock" /\ own.now = caller[r].now /\ own.result = caller[r].result
        /\ Land(r, own, shared) /\ time' = time
    BY <1>1, <1>5, <2>1 DEF AnswerLimit, Requests
  <2>3. /\ Asking = {r} /\ Asking' = {}
        /\ \E W \in SUBSET Promise!Here :
              Promise!Answer(IF own.at = "done" THEN W \cup {r} ELSE W \ {r}, shared)
    BY <1>1, <2>2, LandPromise
  <2>4. /\ \E d \in RetryAfter : barred' = IF barred < caller[r].now + d
                                          THEN caller[r].now + d ELSE barred
        /\ Lists' = Lists
    BY <1>1, <1>5 DEF AnswerLimit, Lists, IInv, TypeOK
  <2>5. \E W \in SUBSET Promise!Here : Promise!Pause(r, W)
    BY <2>1, <2>2, <2>3, <2>4 DEF Promise!Pause, Promise!Plain, Plain, Asking, Lists, View
  <2>6. QED  BY <2>5 DEF Promise!Next
<1>6. CASE AnswerError(r)
  <2>1. Land(r, y("failed"), Plain("failed")) /\ UNCHANGED <<time, entry, barred>>
    BY <1>6 DEF AnswerError, y
  <2>2. /\ Asking = {r} /\ Asking' = {}
        /\ \E W \in SUBSET Promise!Here : Promise!Answer(W \cup {r}, Plain("failed"))
    BY <2>1, <1>3
  <2>3. \E W \in SUBSET Promise!Here : Promise!Fail(r, W)
    BY <2>1, <2>2 DEF Promise!Fail, Promise!Plain, Plain, Asking, Lists
  <2>4. QED  BY <2>3 DEF Promise!Next
<1>7. QED  BY <1>4, <1>5, <1>6 DEF Answer

LEMMA StepPromise ==
  ASSUME IInv, FreshAtFirst, [Next]_vars
  PROVE  Promise!Next \/ UNCHANGED Promise!vars
<1>1. CASE UNCHANGED vars
  <2>1. View' = View /\ Asking' = Asking /\ Lists' = Lists
    BY <1>1 DEF vars, View, Seen, Asking, Lists
  <2>2. QED  BY <1>1, <2>1 DEF vars, Promise!vars, View, Asking, Lists
<1>2. CASE Elapse
  <2>1. View' = View /\ Asking' = Asking /\ Lists' = Lists
    BY <1>2 DEF Elapse, View, Seen, Asking, Lists
  <2>2. QED  BY <1>2, <2>1 DEF Elapse, Promise!Elapse, Promise!Next, View, Asking, Lists
<1>3. ASSUME NEW r \in Caller, Lead(r)  PROVE Promise!Next
  BY <1>3, LeadPromise DEF Promise!Next
<1>4. QED
  BY <1>1, <1>2, <1>3, GoesPromise, AnswerPromise DEF Next, Decide

LEMMA InitPromise == Init => Promise!Init /\ FreshAtFirst
<1> SUFFICES ASSUME Init PROVE Promise!Init /\ FreshAtFirst
  OBVIOUS
<1>1. \A r \in Caller : caller[r] = [at |-> "idle", now |-> 0, result |-> Plain("none")]
  BY DEF Init, Waiting
<1>2. View = [r \in Caller |-> [at |-> "away", now |-> 0, result |-> Plain("none")]]
  BY <1>1 DEF View, Seen
<1>3. Asking = {} /\ Lists = {}
  BY <1>1 DEF Init, Asking, Lists
<1>4. QED
  BY <1>2, <1>3 DEF Init, Promise!Init, Promise!Away, Promise!Plain, Plain, FreshAtFirst, View,
     Asking, Lists

\* The cache with its flight and its expiries implements the promise: what it
\* serves is the last list Discord gave, Discord is asked by one request at a
\* time, out of every pause and for a list that is no longer fresh, and a refusal
\* means a pause with nothing to serve.
THEOREM ListPromiseKept == Spec => KeepsListPromise
<1>1. Init => Promise!Init /\ FreshAtFirst
  BY InitPromise
<1>2. IInv /\ FreshAtFirst /\ [Next]_vars => [Promise!Next]_Promise!vars
  BY StepPromise
<1>3. IInv /\ FreshAtFirst /\ [Next]_vars => FreshAtFirst'
  BY FreshFirst
<1>4. QED
  BY <1>1, <1>2, <1>3, Invariant, PTL DEF Spec, KeepsListPromise, Promise!Spec

-----------------------------------------------------------------------------
(* The dashboard around the list: its logins, sessions and guards, for any *)
(* browsers, users, requests and restarts.  The time a list may be served  *)
(* is the one of the cache; a session has a time of its own.               *)

\* What the place of the request q says of the login it is of.
LoginOK(q) ==
    /\ q.at \in {"take", "exchange"} => q.what = "callback"
    /\ q.at = "drop" => q.what # "callback"
    /\ q.at \in {"take", "exchange", "drop", "reply"} => q.by \in Browser
    /\ q.at \in {"take", "exchange", "reply"} /\ q.what = "callback" =>
          q.query \in State /\ began[q.query] = q.by
    /\ q.at = "exchange" => q.query \notin pending /\ \A s \in Session : made[s] # q.query
    /\ q.at = "reply" /\ q.what = "callback" => q.session # None /\ made[q.session] = q.query

\* A state is kept until the one request that takes it, which makes the one
\* session of its login; what was not made has no row.
LoginsOK ==
    /\ \A n \in pending : began[n] # None /\ \A s \in Session : made[s] # n
    /\ \A s \in Session : /\ made[s] # None => began[made[s]] # None
                          /\ made[s] = None => row[s] = None
    /\ \A r \in Request : LoginOK(request[r])
    /\ \A r, q \in Request :
         request[r].at = "exchange" /\ request[q].at = "exchange"
             /\ request[r].query = request[q].query => r = q

\* A browser has the cookie of a state that was made for it.
CookiesOK ==
    \A b \in Browser : cookie[b].state # None => began[cookie[b].state] = b

\* What the request q went by when it came in, and what of it still holds: a
\* session never comes into force again.
ActOK(q) ==
    /\ q.session # None => made[q.session] # None
    /\ q.at = "read" /\ InForce(q.session) => q.live
    /\ q.at \in {"list", "act"} => q.live /\ q.user \in User
    /\ q.at = "list" => q.what \in Guilded
    /\ q.since <= clock
    /\ q.at = "act" /\ q.what \in Owned => owner # None /\ q.user = owner
    /\ q.at \in {"read", "list", "act"} /\ q.what \in Guilded => q.guild \in Guild
    /\ q.at = "act" /\ q.what \in Guilded => q.since - managed[q.user][q.guild] <= Stale

ActsOK == /\ \A r \in Request : ActOK(request[r])
          /\ \A u \in User, g \in Guild : managed[u][g] <= clock

DashboardInv ==
    ConstantsOK /\ DashboardTypeOK /\ LoginsOK /\ CookiesOK /\ SessionsSound /\ ActsOK

\* The types of rows and requests, and the endpoints they tell apart.
LEMMA DashboardTypes ==
  ASSUME ConstantsOK
  PROVE  /\ Idle \in Work /\ Guilded \cap Owned = {}
         /\ "callback" \notin Guilded \cup Owned
         /\ Asked \subseteq Endpoint /\ "callback" \in Endpoint
<1> USE DEF Endpoint, Open, Own, Guilded, Owned
<1> USE DEF Shows, Reads, Settles, Warns, Tends, Roles, Purges, Emojis,
            Stickers, Inspects, Governs, Crafts, Trades, Configures, Migrates
<1>1. Guilded \cap Owned = {}
  OBVIOUS
<1>2. "callback" \notin Guilded \cup Owned /\ "callback" \in Endpoint /\ "me" \in Endpoint
  OBVIOUS
<1>3. Idle \in Work
  BY <1>2 DEF Idle, Work
<1>4. QED  BY <1>1, <1>2, <1>3 DEF ConstantsOK

\* What a request is, and how it goes from one place to another.
LEMMA WorkType ==
  ASSUME ConstantsOK, DashboardTypeOK, NEW r \in Request
  PROVE  /\ request \in [Request -> Work] /\ request[r] \in Work /\ Idle \in Work
         /\ request[r].by \in Browser \cup {None} /\ request[r].what \in Endpoint
         /\ request[r].guild \in Guild \cup {None}
         /\ request[r].query \in State \cup {None} /\ request[r].session \in Session \cup {None}
         /\ request[r].user \in User \cup {None} /\ request[r].since \in Nat
BY DashboardTypes DEF DashboardTypeOK, Work

LEMMA GoesType ==
  ASSUME ConstantsOK, DashboardTypeOK, NEW r \in Request,
         NEW at \in {"read", "list", "act", "take", "exchange", "drop", "reply"},
         Goes(r, at)
  PROVE  /\ request' \in [Request -> Work]
         /\ request' = [request EXCEPT ![r] = [request[r] EXCEPT !.at = at]]
         /\ request'[r] = [request[r] EXCEPT !.at = at]
         /\ \A q \in Request \ {r} : request'[q] = request[q]
<1>1. [request[r] EXCEPT !.at = at] \in Work
  BY WorkType DEF Work
<1>2. QED  BY <1>1, WorkType DEF Goes

LEMMA EndsType ==
  ASSUME ConstantsOK, DashboardTypeOK, NEW r \in Request, Ends(r)
  PROVE  /\ request' \in [Request -> Work] /\ request'[r] = Idle
         /\ \A q \in Request \ {r} : request'[q] = request[q]
BY WorkType DEF Ends

\* Every step of a request keeps the types.
LEMMA ServeType ==
  ASSUME ConstantsOK, DashboardTypeOK, NEW r \in Request, Serve(r)
  PROVE  DashboardTypeOK'
<1>1. CASE Take(r)
  <2>1. pending' \subseteq State
    BY <1>1 DEF Take, Spent, DashboardTypeOK
  <2>2. request' \in [Request -> Work]
    BY <1>1, GoesType, EndsType DEF Take
  <2>3. QED  BY <1>1, <2>1, <2>2 DEF Take, DashboardTypeOK
<1>2. CASE \/ ExchangeFails(r) \/ ListFails(r) \/ ServiceAct(r)
           \/ \E g \in Guild : GuildAct(r, g)
  <2>1. request' \in [Request -> Work]
    BY <1>2, EndsType DEF ExchangeFails, ListFails, GuildAct, ServiceAct
  <2>2. QED
    BY <1>2, <2>1 DEF ExchangeFails, ListFails, GuildAct, ServiceAct, DashboardTypeOK
<1>3. CASE Reply(r)
  <2>1. request' \in [Request -> Work]
    BY <1>3, EndsType DEF Reply
  <2>2. request[r].by \in Browser =>
          Cookies(r) \in [state : State \cup {None}, session : Session \cup {None}]
    BY WorkType DEF Cookies, DashboardTypeOK
  <2>3. cookie' \in [Browser -> [state : State \cup {None}, session : Session \cup {None}]]
    BY <1>3, <2>2 DEF Reply, DashboardTypeOK
  <2>4. QED  BY <1>3, <2>1, <2>3 DEF Reply, DashboardTypeOK
<1>4. CASE ReadSession(r)
  <2>1. request[r].session \in Session /\ row[request[r].session].user \in User
    BY <1>4, WorkType DEF ReadSession, Reading, InForce, Row, DashboardTypeOK
  <2> DEFINE read(at) == [request[r] EXCEPT !.at = at, !.user = row[request[r].session].user,
                                       !.by = None, !.session = None]
  <2>2. read("list") \in Work /\ read("act") \in Work
    BY ZenonT(40), <2>1, WorkType DEF Work
  <2>3. CASE Ends(r)
    BY <1>4, <2>3, EndsType DEF ReadSession, DashboardTypeOK
  <2>4. CASE ~Ends(r)
    <3>1. \E at \in {"list", "act"} : request' = [request EXCEPT ![r] = read(at)]
      BY ZenonT(40), <1>4, <2>4, WorkType DEF ReadSession
    <3>2. request' \in [Request -> Work]
      BY <2>2, <3>1, WorkType
    <3>3. QED  BY <1>4, <3>2 DEF ReadSession, DashboardTypeOK
  <2>5. QED  BY <2>3, <2>4
<1>5. CASE ReadFails(r)
  <2>1. row' \in [Session -> Row \cup {None}]
    BY <1>5 DEF ReadFails, DashboardTypeOK
  <2>2. QED  BY <1>5, <2>1, EndsType DEF ReadFails, DashboardTypeOK
<1>6. CASE ListGuilds(r)
  BY <1>6, GoesType DEF ListGuilds, DashboardTypeOK
<1>7. CASE Logout(r)
  <2>1. row' \in [Session -> Row \cup {None}]
    BY <1>7 DEF Logout, DashboardTypeOK
  <2>2. QED  BY <1>7, <2>1, GoesType DEF Logout, DashboardTypeOK
<1>8. ASSUME NEW u \in User, NEW s \in Session, Exchange(r, u, s)
      PROVE  DashboardTypeOK'
  <2>1. [user |-> u, expires |-> clock + SessionTTL, wasOwner |-> u = owner] \in Row
    BY DEF Row, ConstantsOK, DashboardTypeOK
  <2>2. [request[r] EXCEPT !.at = "reply", !.session = s] \in Work
    BY ZenonT(40), WorkType DEF Work
  <2>3. request' \in [Request -> Work] /\ row' \in [Session -> Row \cup {None}]
    BY <1>8, <2>1, <2>2, WorkType DEF Exchange, DashboardTypeOK
  <2>4. made' \in [Session -> State \cup {None}]
    BY <1>8, WorkType DEF Exchange, DashboardTypeOK
  <2>5. QED  BY <1>8, <2>3, <2>4 DEF Exchange, DashboardTypeOK
<1>9. QED  BY <1>1, <1>2, <1>3, <1>4, <1>5, <1>6, <1>7, <1>8 DEF Serve

LEMMA ArrivesType ==
  ASSUME ConstantsOK, DashboardTypeOK, NEW r \in Request, NEW new \in Work, Arrives(r, new)
  PROVE  /\ request[r].at = "idle"
         /\ request' \in [Request -> Work] /\ request'[r] = new
         /\ \A q \in Request \ {r} : request'[q] = request[q]
BY WorkType DEF Arrives

\* What a redirect of Discord brings, and what a page asks.
LEMMA CallbackStep ==
  ASSUME ConstantsOK, DashboardTypeOK, NEW r \in Request, NEW b \in Browser, NEW n \in State,
         Callback(r, b, n)
  PROVE  /\ began[n] # None /\ cookie[b].state = n
         /\ request' \in [Request -> Work]
         /\ request'[r].at = "take" /\ request'[r].by = b /\ request'[r].what = "callback"
         /\ request'[r].query = n /\ request'[r].session = None /\ request'[r].since = 0
         /\ \A q \in Request \ {r} : request'[q] = request[q]
         /\ UNCHANGED <<clock, starts, owner, pending, row, cookie, managed, began, made>>
<1> DEFINE new == [Idle EXCEPT !.at = "take", !.by = b, !.what = "callback", !.query = n]
<1>1. /\ new.at = "take" /\ new.by = b /\ new.what = "callback"
      /\ new.query = n /\ new.session = None /\ new.since = 0
  BY DEF Idle
<1>2. new \in Work
  BY DashboardTypes DEF Work
<1>3. Arrives(r, new)
  BY DEF Callback
<1> HIDE DEF new
<1>4. QED  BY <1>1, <1>2, <1>3, ArrivesType DEF Callback, Matches

LEMMA AskStep ==
  ASSUME ConstantsOK, DashboardTypeOK, NEW r \in Request, NEW b \in Browser,
         NEW what \in Asked \ {"callback"}, NEW g \in Guild, Ask(r, b, what, g)
  PROVE  /\ request' \in [Request -> Work]
         /\ request'[r].at = (IF what = "logout" THEN "drop" ELSE "read")
         /\ request'[r].by = b /\ request'[r].what = what /\ request'[r].since = clock
         /\ request'[r].session = cookie[b].session
         /\ request'[r].live = InForce(cookie[b].session)
         /\ what \in Guilded => request'[r].guild = g
         /\ \A q \in Request \ {r} : request'[q] = request[q]
         /\ UNCHANGED <<clock, starts, owner, pending, row, cookie, managed, began, made>>
<1> DEFINE new == [Idle EXCEPT !.at = IF what = "logout" THEN "drop" ELSE "read", !.by = b,
                     !.what = what, !.guild = IF what \in Guilded THEN g ELSE None,
                     !.session = cookie[b].session, !.since = clock,
                     !.live = InForce(cookie[b].session)]
<1>1. /\ new.at = (IF what = "logout" THEN "drop" ELSE "read")
      /\ new.by = b /\ new.what = what /\ new.since = clock
      /\ new.session = cookie[b].session /\ new.live = InForce(cookie[b].session)
      /\ new.guild = IF what \in Guilded THEN g ELSE None
  BY DEF Idle
<1>2. /\ cookie[b].session \in Session \cup {None} /\ clock \in Nat
      /\ what \in Endpoint
  BY DashboardTypes DEF DashboardTypeOK
<1>3. /\ InForce(cookie[b].session) \in BOOLEAN
      /\ (IF what = "logout" THEN "drop" ELSE "read") \in {"drop", "read"}
      /\ (IF what \in Guilded THEN g ELSE None) \in Guild \cup {None}
  BY DEF InForce
<1>4. new \in Work
  <2> DEFINE first == [Idle EXCEPT !.at = IF what = "logout" THEN "drop" ELSE "read", !.by = b,
                         !.what = what, !.guild = IF what \in Guilded THEN g ELSE None]
  <2>1. first \in Work
    BY ZenonT(40), <1>2, <1>3, DashboardTypes DEF Work
  <2>2. new = [first EXCEPT !.session = cookie[b].session, !.since = clock,
                            !.live = InForce(cookie[b].session)]
    BY DEF Idle
  <2> HIDE DEF first, new
  <2>3. QED  BY ZenonT(40), <2>1, <2>2, <1>2, <1>3 DEF Work
<1>5. Arrives(r, new)
  BY DEF Ask
<1> HIDE DEF new
<1>6. QED  BY <1>1, <1>4, <1>5, ArrivesType DEF Ask

\* Every step keeps the types.
LEMMA DashboardType ==
  ASSUME ConstantsOK, DashboardTypeOK, [DashboardNext]_dashboardVars
  PROVE  DashboardTypeOK'
<1>1. CASE UNCHANGED dashboardVars
  BY <1>1 DEF dashboardVars, DashboardTypeOK
<1>2. ASSUME NEW b \in Browser, NEW n \in State, Login(b, n)
      PROVE  DashboardTypeOK'
  <2>1. UNCHANGED <<clock, starts, owner, row, request, managed, made>>
    BY <1>2 DEF Login
  <2>2. pending' \subseteq State
    BY <1>2 DEF Login, DashboardTypeOK
  <2>3. cookie' \in [Browser -> [state : State \cup {None}, session : Session \cup {None}]]
    BY <1>2 DEF Login, DashboardTypeOK
  <2>4. began' \in [State -> Browser \cup {None}]
    BY <1>2 DEF Login, DashboardTypeOK
  <2>5. QED  BY <2>1, <2>2, <2>3, <2>4 DEF DashboardTypeOK
<1>3. ASSUME NEW r \in Request, NEW b \in Browser, NEW n \in State, Callback(r, b, n)
      PROVE  DashboardTypeOK'
  BY <1>3, CallbackStep DEF DashboardTypeOK
<1>4. ASSUME NEW r \in Request, NEW b \in Browser, NEW what \in Asked \ {"callback"},
             NEW g \in Guild, Ask(r, b, what, g)
      PROVE  DashboardTypeOK'
  BY <1>4, AskStep DEF DashboardTypeOK
<1>5. CASE Restart
  BY <1>5, DashboardTypes DEF Restart, Resolves, ConstantsOK, DashboardTypeOK
<1>6. CASE Pass
  BY <1>6 DEF Pass, DashboardTypeOK
<1>7. QED  BY <1>1, <1>2, <1>3, <1>4, <1>5, <1>6, ServeType DEF DashboardNext

\* The steps of a request that neither take a state nor make a session: it goes
\* on, or it is over, and sessions are ended at most.
Quiet(r) ==
    \/ ExchangeFails(r) \/ Reply(r) \/ ReadSession(r) \/ ReadFails(r)
    \/ ListGuilds(r) \/ ListFails(r) \/ ServiceAct(r) \/ Logout(r)
    \/ \E g \in Guild : GuildAct(r, g)

Onward(q, p) ==
    \/ p = Idle
    \/ q.at = "drop" /\ p = [q EXCEPT !.at = "reply"]
    \/ /\ q.at = "list" /\ clock - managed[q.user][q.guild] <= Stale
       /\ p = [q EXCEPT !.at = "act"]
    \/ /\ q.at = "read" /\ InForce(q.session)
       /\ q.what \in Owned => owner # None /\ row[q.session].user = owner
       /\ p = [q EXCEPT !.at = IF q.what \in Guilded THEN "list" ELSE "act",
                        !.user = row[q.session].user, !.by = None, !.session = None]

LEMMA QuietStep ==
  ASSUME ConstantsOK, DashboardTypeOK, NEW r \in Request, Quiet(r)
  PROVE  /\ UNCHANGED <<clock, starts, owner, pending, managed, began, made>>
         /\ \A s \in Session : row'[s] = row[s] \/ row'[s] = None
         /\ \A q \in Request \ {r} : request'[q] = request[q]
         /\ Onward(request[r], request'[r])
<1>1. CASE \/ ExchangeFails(r) \/ ListFails(r) \/ ServiceAct(r)
           \/ \E g \in Guild : GuildAct(r, g)
  BY <1>1, EndsType DEF ExchangeFails, ListFails, GuildAct, ServiceAct, Onward
<1>2. CASE Reply(r)
  BY <1>2, EndsType DEF Reply, Onward
<1>3. CASE ReadFails(r)
  BY <1>3, EndsType DEF ReadFails, Onward
<1>4. CASE ListGuilds(r)
  BY <1>4, GoesType DEF ListGuilds, Manages, Onward
<1>5. CASE Logout(r)
  BY <1>5, GoesType DEF Logout, Onward
<1>6. CASE ReadSession(r)
  <2>1. CASE Ends(r)
    BY <1>6, <2>1, EndsType DEF ReadSession, Onward
  <2>2. CASE ~Ends(r)
    <3> DEFINE w == [request[r] EXCEPT !.at = IF request[r].what \in Guilded THEN "list" ELSE "act",
                                      !.user = row[request[r].session].user,
                                      !.by = None, !.session = None]
    <3>1. request' = [request EXCEPT ![r] = w] /\ Passes(r)
      BY <1>6, <2>2, WorkType DEF ReadSession
    <3>2. request'[r] = w /\ \A q \in Request \ {r} : request'[q] = request[q]
      BY <3>1, WorkType
    <3>3. QED
      BY <1>6, <3>1, <3>2 DEF ReadSession, Reading, Passes, IsOwner, Onward
  <2>3. QED  BY <2>1, <2>2
<1>7. QED  BY <1>1, <1>2, <1>3, <1>4, <1>5, <1>6 DEF Quiet

\* Nobody is no session, state or browser.
LEMMA NoneApart ==
  ASSUME ConstantsOK
  PROVE  /\ None \notin Browser /\ None \notin State /\ None \notin Session /\ None \notin User
         /\ SessionTTL \in Nat \ {0} /\ Stale \in Nat
BY DEF ConstantsOK

\* The logins and their sessions through each step.
LEMMA LoginKeeps ==
  ASSUME DashboardInv, NEW b \in Browser, NEW n \in State, Login(b, n)
  PROVE  LoginsOK' /\ CookiesOK' /\ SessionsSound'
<1> USE NoneApart DEF DashboardInv, LoginsOK
<1>1. /\ began[n] = None /\ \A m \in State : began[m] # None => began'[m] = began[m]
      /\ began'[n] = b /\ pending' = pending \cup {n}
      /\ UNCHANGED <<row, request, made>>
      /\ \A c \in Browser : cookie'[c].session = cookie[c].session
  BY DEF Login, DashboardTypeOK
<1>2. \A s \in Session : made[s] # n
  BY <1>1
<1>3. \A m \in pending' : began'[m] # None /\ \A s \in Session : made'[s] # m
  BY <1>1, <1>2 DEF DashboardTypeOK
<1>4. \A s \in Session : /\ made'[s] # None => began'[made'[s]] # None
                         /\ made'[s] = None => row'[s] = None
  BY <1>1 DEF DashboardTypeOK
<1>5. ASSUME NEW q \in Request  PROVE LoginOK(request[q])'
  <2>1. LoginOK(request[q]) /\ request'[q] = request[q]
    BY <1>1
  <2>2. request[q].at = "exchange" => request[q].query # n
    BY <1>1, <2>1 DEF LoginOK
  <2>3. QED  BY <1>1, <2>1, <2>2 DEF LoginOK
<1>6. \A r, q \in Request :
        request'[r].at = "exchange" /\ request'[q].at = "exchange"
            /\ request'[r].query = request'[q].query => r = q
  BY <1>1
<1>7. OneSessionPerLogin'
  BY <1>1 DEF SessionsSound, OneSessionPerLogin
<1>8. OwnLogin'
  <2> SUFFICES ASSUME NEW c \in Browser, cookie'[c].session # None
               PROVE  made'[cookie'[c].session] # None /\ began'[made'[cookie'[c].session]] = c
    BY DEF OwnLogin
  <2>1. /\ made[cookie[c].session] # None /\ began[made[cookie[c].session]] = c
        /\ cookie[c].session \in Session
    BY <1>1 DEF SessionsSound, OwnLogin, DashboardTypeOK
  <2>2. QED  BY <1>1, <2>1 DEF DashboardTypeOK
<1>9. CookiesOK'
  <2>1. CookiesOK /\ \A c \in Browser : cookie'[c].state = IF c = b THEN n ELSE cookie[c].state
    BY DEF Login, DashboardTypeOK
  <2>2. \A c \in Browser : cookie[c].state \in State \cup {None}
    BY DEF DashboardTypeOK
  <2>3. QED  BY <1>1, <2>1, <2>2 DEF CookiesOK
<1>10. QED  BY <1>3, <1>4, <1>5, <1>6, <1>7, <1>8, <1>9 DEF SessionsSound

\* The rest of the steps leave the browsers the states were made for: what holds of
\* a request that does nothing is as before.
LEMMA OthersKeep ==
  ASSUME DashboardInv, UNCHANGED began, pending' \subseteq pending,
         NEW q \in Request, request'[q] = request[q],
         \A s \in Session :
            \/ made'[s] = made[s]
            \/ made[s] = None /\ (request[q].at = "exchange" => made'[s] # request[q].query)
  PROVE  LoginOK(request[q])'
<1> USE NoneApart DEF DashboardInv, LoginsOK
<1>1. LoginOK(request[q]) /\ request[q].session \in Session \cup {None}
  BY WorkType
<1>2. request[q].at = "exchange" => \A s \in Session : made'[s] # request[q].query
  BY <1>1 DEF LoginOK
<1>3. request[q].at = "reply" /\ request[q].what = "callback" =>
         made'[request[q].session] = request[q].query
  BY <1>1 DEF LoginOK
<1>4. began' = began
  OBVIOUS
<1> HIDE DEF DashboardInv, LoginsOK
<1>5. QED  BY <1>1, <1>2, <1>3, <1>4 DEF LoginOK

\* The same for all that changes when nothing is made: a request r that is not about
\* to make its session, and rows that end.
LEMMA NothingMade ==
  ASSUME DashboardInv, UNCHANGED <<began, made>>, pending' \subseteq pending,
         \A s \in Session : row'[s] = row[s] \/ row'[s] = None,
         NEW r \in Request, \A q \in Request \ {r} : request'[q] = request[q],
         request'[r].at # "exchange", LoginOK(request[r])'
  PROVE  LoginsOK' /\ OneSessionPerLogin'
<1>1. \A q \in Request : LoginOK(request[q])'
  BY OthersKeep
<1>2. /\ \A n \in pending' : began'[n] # None /\ \A s \in Session : made'[s] # n
      /\ \A s \in Session : /\ made'[s] # None => began'[made'[s]] # None
                            /\ made'[s] = None => row'[s] = None
  BY DEF DashboardInv, LoginsOK
<1>3. \A p, q \in Request :
        request'[p].at = "exchange" /\ request'[q].at = "exchange"
            /\ request'[p].query = request'[q].query => p = q
  BY DEF DashboardInv, LoginsOK
<1>4. OneSessionPerLogin'
  BY DEF DashboardInv, SessionsSound, OneSessionPerLogin
<1>5. QED  BY <1>1, <1>2, <1>3, <1>4 DEF LoginsOK

LEMMA CallbackKeeps ==
  ASSUME DashboardInv, NEW r \in Request, NEW b \in Browser, NEW n \in State,
         Callback(r, b, n)
  PROVE  LoginsOK' /\ CookiesOK' /\ SessionsSound'
<1> USE DEF DashboardInv
<1>1. began[n] = b
  BY CallbackStep, NoneApart DEF CookiesOK
<1>2. LoginOK(request[r])'
  BY <1>1, CallbackStep, NoneApart DEF LoginOK
<1>3. QED
  BY <1>2, CallbackStep, NothingMade DEF SessionsSound, OwnLogin, CookiesOK

LEMMA AskKeeps ==
  ASSUME DashboardInv, NEW r \in Request, NEW b \in Browser,
         NEW what \in Asked \ {"callback"}, NEW g \in Guild, Ask(r, b, what, g)
  PROVE  LoginsOK' /\ CookiesOK' /\ SessionsSound'
<1> USE DEF DashboardInv
<1>1. LoginOK(request[r])'
  BY AskStep DEF LoginOK
<1>2. QED
  BY <1>1, AskStep, NothingMade DEF SessionsSound, OwnLogin, CookiesOK

LEMMA QuietKeeps ==
  ASSUME DashboardInv, NEW r \in Request, Quiet(r)
  PROVE  LoginsOK' /\ CookiesOK' /\ SessionsSound'
<1> USE DEF DashboardInv
<1>1. LoginOK(request[r])
  BY DEF LoginsOK
<1>2. LoginOK(request[r])' /\ request'[r].at # "exchange"
  <2>1. UNCHANGED <<began, made, pending>> /\ request[r] \in Work
    BY QuietStep, WorkType
  <2>2. CASE request'[r] = Idle
    BY <2>2 DEF LoginOK, Idle
  <2>3. CASE request'[r] # Idle
    <3>1. /\ request'[r].at = "reply" => request'[r].by = request[r].by
          /\ request'[r].what = request[r].what
          /\ request'[r].query = request[r].query
          /\ request[r].at \in {"read", "list", "drop"}
          /\ request'[r].at \in {"list", "act", "reply"}
          /\ request'[r].at = "reply" => request[r].at = "drop"
      <4>1. Onward(request[r], request'[r])
        BY QuietStep
      <4>2. QED  BY <2>1, <2>3, <4>1 DEF Onward, Work
    <3>2. QED  BY <1>1, <2>1, <3>1 DEF LoginOK
  <2>4. QED  BY <2>2, <2>3
<1>3. LoginsOK' /\ OneSessionPerLogin'
  BY <1>2, QuietStep, NothingMade
<1>4. OwnLogin'
  <2>1. UNCHANGED <<began, made>>
    BY QuietStep
  <2>2. CASE UNCHANGED cookie
    BY <2>1, <2>2 DEF SessionsSound, OwnLogin
  <2>3. CASE Reply(r)
    <3>1. request[r].by \in Browser /\ request[r].at = "reply"
      BY <1>1, <2>3 DEF Reply, LoginOK
    <3>2. /\ cookie'[request[r].by] = Cookies(r)
          /\ \A c \in Browser \ {request[r].by} : cookie'[c] = cookie[c]
      BY <2>3, <3>1 DEF Reply, DashboardTypeOK
    <3>3. CASE request[r].what = "callback" /\ request[r].session # None
      <4>1. cookie'[request[r].by].session = request[r].session
        BY <3>2, <3>3 DEF Cookies
      <4>2. /\ made[request[r].session] = request[r].query /\ request[r].query \in State
            /\ began[request[r].query] = request[r].by
        BY <1>1, <3>1, <3>3 DEF LoginOK
      <4>3. QED  BY <2>1, <3>2, <4>1, <4>2, NoneApart DEF SessionsSound, OwnLogin
    <3>4. CASE ~(request[r].what = "callback" /\ request[r].session # None)
      <4>1. cookie'[request[r].by].session \in {cookie[request[r].by].session, None}
        BY <3>1, <3>2, <3>4 DEF Cookies, DashboardTypeOK
      <4>2. QED  BY <2>1, <3>2, <4>1 DEF SessionsSound, OwnLogin
    <3>5. QED  BY <3>3, <3>4
  <2>4. QED
    BY <2>2, <2>3 DEF Quiet, ExchangeFails, ReadSession, ReadFails, ListGuilds,
                      ListFails, GuildAct, ServiceAct, Logout
<1>5. CookiesOK'
  <2>1. began' = began /\ CookiesOK
    BY QuietStep
  <2>2. \A c \in Browser : cookie'[c].state \in {cookie[c].state, None}
    <3>1. CASE UNCHANGED cookie
      BY <3>1
    <3>2. CASE Reply(r)
      BY <3>2, <1>1 DEF Reply, Cookies, LoginOK, DashboardTypeOK
    <3>3. QED
      BY <3>1, <3>2 DEF Quiet, ExchangeFails, ReadSession, ReadFails, ListGuilds,
                        ListFails, GuildAct, ServiceAct, Logout
  <2>3. QED  BY <2>1, <2>2 DEF CookiesOK
<1>6. QED  BY <1>3, <1>4, <1>5 DEF SessionsSound

LEMMA TakeKeeps ==
  ASSUME DashboardInv, NEW r \in Request, Take(r)
  PROVE  LoginsOK' /\ CookiesOK' /\ SessionsSound'
<1> USE DEF DashboardInv
<1> DEFINE n == request[r].query
<1>1. /\ request[r].at = "take" /\ pending' = pending \ {n}
      /\ UNCHANGED <<row, cookie, began, made>>
  BY DEF Take, Spent
<1>2. LoginOK(request[r])
  BY DEF LoginsOK
<1>3. CookiesOK' /\ SessionsSound'
  BY <1>1 DEF SessionsSound, OneSessionPerLogin, OwnLogin, CookiesOK
<1>4. CASE n \notin pending
  <2>1. request'[r] = Idle /\ \A q \in Request \ {r} : request'[q] = request[q]
    BY <1>4, EndsType DEF Take
  <2>2. LoginOK(request[r])' /\ request'[r].at # "exchange"
    BY <2>1 DEF LoginOK, Idle
  <2>3. QED  BY <1>1, <1>3, <2>1, <2>2, NothingMade
<1>5. CASE n \in pending
  <2>1. /\ \A q \in Request \ {r} : request'[q] = request[q]
        /\ request'[r] = [request[r] EXCEPT !.at = "exchange"]
    BY <1>5, GoesType DEF Take
  <2>2. /\ request'[r].at = "exchange" /\ request'[r].by = request[r].by
        /\ request'[r].what = request[r].what /\ request'[r].query = n
    BY <2>1, WorkType DEF Work
  <2>3. \A s \in Session : made[s] # n
    BY <1>5 DEF LoginsOK
  <2>4. LoginOK(request[r])'
    BY <1>1, <1>2, <2>2, <2>3 DEF LoginOK
  <2>5. \A q \in Request : LoginOK(request[q])'
    BY <1>1, <2>1, <2>4, OthersKeep
  <2>6. \A q \in Request : request[q].at = "exchange" => request[q].query # n
    BY <1>5 DEF LoginsOK, LoginOK
  <2>7. \A p, q \in Request :
          request'[p].at = "exchange" /\ request'[q].at = "exchange"
              /\ request'[p].query = request'[q].query => p = q
    <3>1. \A p, q \in Request :
            request[p].at = "exchange" /\ request[q].at = "exchange"
                /\ request[p].query = request[q].query => p = q
      BY DEF LoginsOK
    <3> SUFFICES ASSUME NEW p \in Request, NEW q \in Request, p # q,
                        request'[p].at = "exchange", request'[q].at = "exchange"
                 PROVE  request'[p].query # request'[q].query
      OBVIOUS
    <3>2. CASE p # r /\ q # r
      BY <2>1, <3>1, <3>2
    <3>3. CASE p = r
      BY <2>1, <2>2, <2>6, <3>3
    <3>4. CASE q = r
      BY <2>1, <2>2, <2>6, <3>4
    <3>5. QED  BY <3>2, <3>3, <3>4
  <2>8. /\ \A m \in pending' : began'[m] # None /\ \A s \in Session : made'[s] # m
        /\ \A s \in Session : /\ made'[s] # None => began'[made'[s]] # None
                              /\ made'[s] = None => row'[s] = None
    BY <1>1 DEF LoginsOK
  <2>9. QED  BY <1>3, <2>5, <2>7, <2>8 DEF LoginsOK
<1>6. QED  BY <1>4, <1>5

LEMMA ExchangeKeeps ==
  ASSUME DashboardInv, NEW r \in Request, NEW u \in User, NEW s \in Session,
         Exchange(r, u, s)
  PROVE  LoginsOK' /\ CookiesOK' /\ SessionsSound'
<1> USE DEF DashboardInv
<1> DEFINE n == request[r].query
<1>1. /\ request[r].at = "exchange" /\ made[s] = None
      /\ UNCHANGED <<pending, cookie, began>>
      /\ made'[s] = n /\ \A t \in Session \ {s} : made'[t] = made[t]
      /\ \A t \in Session \ {s} : row'[t] = row[t]
  BY DEF Exchange, DashboardTypeOK
<1>2. /\ n \in State /\ n # None /\ request[r].by \in Browser /\ began[n] = request[r].by
      /\ n \notin pending /\ (\A t \in Session : made[t] # n) /\ request[r].what = "callback"
  BY <1>1, NoneApart DEF LoginsOK, LoginOK
<1>3. /\ \A q \in Request \ {r} : request'[q] = request[q]
      /\ request'[r].at = "reply" /\ request'[r].session = s /\ request'[r].what = "callback"
      /\ request'[r].query = n /\ request'[r].by = request[r].by
  BY <1>2, WorkType DEF Exchange, Work
<1>4. LoginOK(request[r])'
  BY <1>1, <1>2, <1>3, NoneApart DEF LoginOK
<1>5. ASSUME NEW q \in Request \ {r}  PROVE LoginOK(request[q])'
  <2>1. request[q].at = "exchange" => request[q].query # n
    BY <1>1 DEF LoginsOK
  <2>2. \A t \in Session : \/ made'[t] = made[t]
                           \/ /\ made[t] = None
                              /\ request[q].at = "exchange" => made'[t] # request[q].query
    BY <1>1, <2>1
  <2>3. QED  BY <1>1, <1>3, <2>2, OthersKeep
<1>6. \A p, q \in Request :
        request'[p].at = "exchange" /\ request'[q].at = "exchange"
            /\ request'[p].query = request'[q].query => p = q
  BY <1>3 DEF LoginsOK
<1>7. \A m \in pending' : began'[m] # None /\ \A t \in Session : made'[t] # m
  BY <1>1, <1>2 DEF LoginsOK
<1>8. \A t \in Session : /\ made'[t] # None => began'[made'[t]] # None
                         /\ made'[t] = None => row'[t] = None
  BY <1>1, <1>2, NoneApart DEF LoginsOK
<1>9. OneSessionPerLogin'
  BY <1>1, <1>2 DEF SessionsSound, OneSessionPerLogin
<1>10. CookiesOK' /\ OwnLogin'
  <2>1. \A b \in Browser : cookie[b].session \in Session \cup {None}
    BY DEF DashboardTypeOK
  <2>2. OwnLogin
    BY DEF SessionsSound
  <2>3. OwnLogin'
    BY <1>1, <2>1, <2>2 DEF OwnLogin
  <2>4. QED  BY <1>1, <2>3 DEF CookiesOK
<1>11. QED
  BY <1>4, <1>5, <1>6, <1>7, <1>8, <1>9, <1>10 DEF LoginsOK, SessionsSound

LEMMA RestartKeeps ==
  ASSUME DashboardInv, Restart
  PROVE  LoginsOK' /\ CookiesOK' /\ SessionsSound' /\ ActsOK'
<1> USE DEF DashboardInv
<1>1. /\ pending' = {} /\ UNCHANGED <<clock, row, cookie, managed, began, made>>
      /\ \A r \in Request : request'[r] = Idle
  BY DEF Restart
<1>2. \A r \in Request : LoginOK(request[r])' /\ request'[r].at = "idle"
  BY <1>1 DEF LoginOK, Idle
<1>3. \A r \in Request : ActOK(request[r])'
  BY <1>1 DEF ActOK, Idle, DashboardTypeOK
<1>4. QED
  BY <1>1, <1>2, <1>3 DEF LoginsOK, ActsOK, CookiesOK, SessionsSound, OneSessionPerLogin,
                          OwnLogin

LEMMA PassKeeps ==
  ASSUME DashboardInv, Pass
  PROVE  LoginsOK' /\ CookiesOK' /\ SessionsSound'
BY DEF DashboardInv, Pass, LoginsOK, LoginOK, CookiesOK, SessionsSound,
       OneSessionPerLogin, OwnLogin

\* A session that was made and is not in force does not come into force.
LEMMA ForceEnds ==
  ASSUME DashboardInv, DashboardTypeOK', clock' >= clock,
         NEW s \in Session \cup {None}, s # None => row'[s] = row[s] \/ row'[s] = None,
         InForce(s)'
  PROVE  InForce(s)
<1> USE NoneApart DEF DashboardInv
<1>1. /\ s \in Session /\ row'[s] # None /\ row'[s] = row[s] /\ clock' < row[s].expires
  BY DEF InForce
<1>2. row[s] \in Row /\ clock \in Nat /\ clock' \in Nat
  BY <1>1 DEF DashboardTypeOK
<1>3. QED  BY <1>1, <1>2 DEF InForce, Row

\* What was checked for a request q that does nothing still holds as time passes,
\* rows end and other sessions are made.
LEMMA OthersAct ==
  ASSUME DashboardInv, DashboardTypeOK', UNCHANGED owner, clock' >= clock,
         \A u \in User, g \in Guild : managed'[u][g] >= managed[u][g],
         \A s \in Session : made[s] # None =>
            made'[s] # None /\ (row'[s] = row[s] \/ row'[s] = None),
         NEW q \in Request, request'[q] = request[q]
  PROVE  ActOK(request[q])'
<1> USE NoneApart DEF DashboardInv
<1>1. /\ ActOK(request[q]) /\ request[q] \in Work
      /\ clock \in Nat /\ clock' \in Nat
      /\ \A u \in User, g \in Guild : managed[u][g] \in Nat /\ managed'[u][g] \in Nat
  BY WorkType DEF ActsOK, DashboardTypeOK
<1>2. InForce(request[q].session)' => InForce(request[q].session)
  <2>1. /\ request[q].session \in Session \cup {None}
        /\ request[q].session # None => \/ row'[request[q].session] = row[request[q].session]
                                       \/ row'[request[q].session] = None
    BY <1>1 DEF ActOK, Work
  <2>2. QED  BY <2>1, ForceEnds
<1>3. request[q].session # None => made'[request[q].session] # None
  BY <1>1 DEF ActOK, Work
<1>4. request[q].at \in {"list", "act"} => request[q].live /\ request[q].user \in User
  BY <1>1 DEF ActOK
<1>5. request[q].since <= clock'
  BY <1>1 DEF ActOK, Work
<1>6. request[q].at = "act" /\ request[q].what \in Guilded =>
        request[q].since - managed'[request[q].user][request[q].guild] <= Stale
  <2> SUFFICES ASSUME request[q].at = "act", request[q].what \in Guilded
               PROVE  request[q].since - managed'[request[q].user][request[q].guild] <= Stale
    OBVIOUS
  <2>1. PICK u \in User, g \in Guild : request[q].user = u /\ request[q].guild = g
    BY <1>1, <1>4 DEF ActOK
  <2>2. request[q].since - managed[u][g] <= Stale /\ request[q].since \in Nat
    BY <1>1, <2>1 DEF ActOK, Work
  <2>3. QED  BY <1>1, <2>1, <2>2
<1>7. /\ request'[q].at = "read" /\ InForce(request[q].session)' => request'[q].live
      /\ request[q].at = "list" => request[q].what \in Guilded
      /\ request[q].at \in {"read", "list", "act"} /\ request[q].what \in Guilded =>
           request[q].guild \in Guild
      /\ request[q].at = "act" /\ request[q].what \in Owned =>
           owner' # None /\ request[q].user = owner'
  BY <1>1, <1>2 DEF ActOK
<1>8. QED  BY <1>3, <1>4, <1>5, <1>6, <1>7 DEF ActOK

\* What a request went by, through each step of its own and of the others.
LEMMA LoginActs ==
  ASSUME DashboardInv, DashboardTypeOK', NEW b \in Browser, NEW n \in State, Login(b, n)
  PROVE  ActsOK'
<1> USE DEF DashboardInv
<1>1. UNCHANGED <<clock, owner, row, request, managed, made>>
  BY DEF Login
<1>2. clock' >= clock /\ \A u \in User, g \in Guild : managed'[u][g] >= managed[u][g]
  BY <1>1 DEF DashboardTypeOK
<1>3. QED  BY <1>1, <1>2, OthersAct DEF ActsOK

\* One request moves, and nothing a check depends on does.
LEMMA OneActs ==
  ASSUME DashboardInv, DashboardTypeOK', UNCHANGED <<clock, owner, managed>>,
         \A s \in Session : made[s] # None =>
            made'[s] # None /\ (row'[s] = row[s] \/ row'[s] = None),
         NEW r \in Request, \A q \in Request \ {r} : request'[q] = request[q],
         ActOK(request[r])'
  PROVE  ActsOK'
<1> USE DEF DashboardInv
<1>1. clock' >= clock /\ \A u \in User, g \in Guild : managed'[u][g] >= managed[u][g]
  BY DEF DashboardTypeOK
<1>2. \A q \in Request \ {r} : ActOK(request[q])'
  BY <1>1, OthersAct
<1>3. QED  BY <1>1, <1>2 DEF ActsOK

LEMMA IdleActs ==
  ASSUME DashboardTypeOK', NEW r \in Request, request'[r] = Idle
  PROVE  ActOK(request[r])'
BY DEF ActOK, Idle, DashboardTypeOK

LEMMA CallbackActs ==
  ASSUME DashboardInv, DashboardTypeOK', NEW r \in Request, NEW b \in Browser, NEW n \in State,
         Callback(r, b, n)
  PROVE  ActsOK'
<1> USE DEF DashboardInv
<1>1. ActOK(request[r])'
  BY CallbackStep DEF ActOK, DashboardTypeOK
<1>2. QED  BY <1>1, CallbackStep, OneActs

LEMMA AskActs ==
  ASSUME DashboardInv, DashboardTypeOK', NEW r \in Request, NEW b \in Browser,
         NEW what \in Asked \ {"callback"}, NEW g \in Guild, Ask(r, b, what, g)
  PROVE  ActsOK'
<1> USE DEF DashboardInv
<1>1. request'[r].session # None => made'[request'[r].session] # None
  BY AskStep DEF SessionsSound, OwnLogin
<1>2. InForce(request[r].session)' => request'[r].live
  <2>1. InForce(request[r].session)' => InForce(cookie[b].session)
    BY AskStep DEF InForce
  <2>2. request'[r].live = InForce(cookie[b].session)
    BY AskStep
  <2>3. QED  BY <2>1, <2>2, Zenon
<1>3. /\ request'[r].at \in {"read", "drop"} /\ request'[r].since <= clock'
      /\ request'[r].what \in Guilded => request'[r].guild \in Guild
  BY AskStep DEF DashboardTypeOK
<1>4. ActOK(request[r])'
  BY <1>1, <1>2, <1>3 DEF ActOK
<1>5. QED  BY <1>4, AskStep, OneActs

LEMMA QuietActs ==
  ASSUME DashboardInv, DashboardTypeOK', NEW r \in Request, Quiet(r)
  PROVE  ActsOK'
<1> USE DEF DashboardInv
<1> SUFFICES ActOK(request[r])'
  BY QuietStep, OneActs
<1>1. /\ ActOK(request[r]) /\ request[r] \in Work
      /\ UNCHANGED <<clock, owner, managed, made>> /\ Onward(request[r], request'[r])
  BY QuietStep, WorkType DEF ActsOK
<1>2. CASE request'[r] = Idle
  BY <1>2, IdleActs
<1>3. CASE request[r].at = "drop" /\ request'[r] = [request[r] EXCEPT !.at = "reply"]
  <2>1. /\ request'[r].at = "reply" /\ request'[r].session = request[r].session
        /\ request'[r].since = request[r].since
    BY <1>1, <1>3 DEF Work
  <2>2. QED  BY <1>1, <2>1 DEF ActOK
<1>4. CASE /\ request[r].at = "list"
           /\ clock - managed[request[r].user][request[r].guild] <= Stale
           /\ request'[r] = [request[r] EXCEPT !.at = "act"]
  <2>1. /\ request'[r].at = "act" /\ request'[r].session = request[r].session
        /\ request'[r].since = request[r].since /\ request'[r].user = request[r].user
        /\ request'[r].what = request[r].what /\ request'[r].live = request[r].live
        /\ request'[r].guild = request[r].guild
    BY <1>1, <1>4 DEF Work
  <2>2. /\ request[r].what \in Guilded /\ request[r].what \notin Owned
        /\ request[r].user \in User /\ request[r].live /\ request[r].guild \in Guild
    BY <1>1, <1>4, DashboardTypes DEF ActOK
  <2>3. request[r].since - managed[request[r].user][request[r].guild] <= Stale
    BY <1>1, <1>4, <2>2, NoneApart DEF ActOK, Work, DashboardTypeOK
  <2>4. QED  BY <1>1, <2>1, <2>2, <2>3 DEF ActOK
<1>5. CASE /\ request[r].at = "read" /\ InForce(request[r].session)
           /\ request[r].what \in Owned => owner # None /\ row[request[r].session].user = owner
           /\ request'[r] = [request[r] EXCEPT !.at = IF request[r].what \in Guilded THEN "list" ELSE "act",
                                            !.user = row[request[r].session].user,
                                            !.by = None, !.session = None]
  <2>1. /\ request'[r].at = (IF request[r].what \in Guilded THEN "list" ELSE "act")
        /\ request'[r].session = None /\ request'[r].guild = request[r].guild
        /\ request'[r].since = request[r].since /\ request'[r].user = row[request[r].session].user
        /\ request'[r].what = request[r].what /\ request'[r].live = request[r].live
    BY <1>1, <1>5 DEF Work
  <2>2. request[r].live /\ row[request[r].session].user \in User
    BY <1>1, <1>5, WorkType DEF ActOK, InForce, DashboardTypeOK, Row
  <2>3. QED  BY <1>1, <1>5, <2>1, <2>2 DEF ActOK
<1>6. QED  BY <1>1, <1>2, <1>3, <1>4, <1>5 DEF Onward

LEMMA TakeActs ==
  ASSUME DashboardInv, DashboardTypeOK', NEW r \in Request, Take(r)
  PROVE  ActsOK'
<1> USE DEF DashboardInv
<1>1. /\ ActOK(request[r]) /\ request[r] \in Work
      /\ UNCHANGED <<clock, owner, managed, row, made>>
      /\ \A q \in Request \ {r} : request'[q] = request[q]
      /\ request'[r] = Idle \/ request'[r] = [request[r] EXCEPT !.at = "exchange"]
  BY WorkType, GoesType, EndsType DEF Take, ActsOK
<1>2. CASE request'[r] = [request[r] EXCEPT !.at = "exchange"]
  <2>1. /\ request'[r].at = "exchange" /\ request'[r].session = request[r].session
        /\ request'[r].since = request[r].since
    BY <1>1, <1>2 DEF Work
  <2>2. QED  BY <1>1, <2>1, OneActs DEF ActOK
<1>3. QED  BY <1>1, <1>2, IdleActs, OneActs

LEMMA ExchangeActs ==
  ASSUME DashboardInv, DashboardTypeOK', NEW r \in Request, NEW u \in User, NEW s \in Session,
         Exchange(r, u, s)
  PROVE  ActsOK'
<1> USE DEF DashboardInv
<1>1. /\ ActOK(request[r]) /\ LoginOK(request[r]) /\ request[r] \in Work
      /\ request[r].at = "exchange" /\ made[s] = None
      /\ UNCHANGED <<clock, owner, managed>>
      /\ \A q \in Request \ {r} : request'[q] = request[q]
  BY WorkType DEF Exchange, ActsOK, LoginsOK
<1>2. made'[s] = request[r].query /\ request[r].query \in State
  BY <1>1 DEF LoginOK, Exchange, DashboardTypeOK
<1>3. request'[r].at = "reply" /\ request'[r].session = s /\ request'[r].since = request[r].since
  BY <1>1 DEF Exchange, DashboardTypeOK, Work
<1>4. ActOK(request[r])'
  BY <1>1, <1>2, <1>3, NoneApart DEF ActOK
<1>5. \A t \in Session : made[t] # None =>
        made'[t] # None /\ (row'[t] = row[t] \/ row'[t] = None)
  BY <1>1 DEF Exchange, DashboardTypeOK
<1>6. QED  BY <1>1, <1>4, <1>5, OneActs

LEMMA PassActs ==
  ASSUME DashboardInv, DashboardTypeOK', Pass
  PROVE  ActsOK'
<1> USE DEF DashboardInv
<1>1. /\ clock \in Nat /\ clock' = clock + 1 /\ UNCHANGED <<owner, row, request, made>>
  BY DEF Pass, DashboardTypeOK
<1>2. \A u \in User, g \in Guild : managed[u][g] \in Nat /\ managed[u][g] <= clock
  BY DEF ActsOK, DashboardTypeOK
<1>3. \A u \in User, g \in Guild : managed'[u][g] \in {clock + 1, managed[u][g]}
  BY DEF Pass
<1>4. \A u \in User, g \in Guild : managed'[u][g] >= managed[u][g] /\ managed'[u][g] <= clock'
  BY <1>1, <1>2, <1>3
<1>5. clock' >= clock
  BY <1>1
<1>6. QED  BY <1>1, <1>4, <1>5, OthersAct DEF ActsOK

\* The invariant holds from the start on.
LEMMA DashboardKept ==
  ASSUME DashboardInv, [DashboardNext]_dashboardVars
  PROVE  DashboardInv'
<1> USE DEF DashboardInv
<1>1. DashboardTypeOK'
  BY DashboardType
<1>2. CASE UNCHANGED dashboardVars
  BY <1>2 DEF dashboardVars, DashboardTypeOK, ConstantsOK, LoginsOK, LoginOK, CookiesOK, ActsOK, ActOK,
              SessionsSound, OneSessionPerLogin, OwnLogin, InForce
<1>3. CASE DashboardNext
  <2>1. LoginsOK' /\ CookiesOK' /\ SessionsSound' /\ ActsOK'
    BY <1>1, <1>3, LoginKeeps, CallbackKeeps, AskKeeps, QuietKeeps, TakeKeeps, ExchangeKeeps,
       RestartKeeps, PassKeeps, LoginActs, CallbackActs, AskActs, QuietActs, TakeActs,
       ExchangeActs, PassActs DEF DashboardNext, Serve, Quiet
  <2>2. QED  BY <1>1, <2>1 DEF ConstantsOK
<1>4. QED  BY <1>2, <1>3

LEMMA DashboardStarts ==
  ASSUME ConstantsOK, DashboardInit
  PROVE  DashboardInv
<1> USE NoneApart DEF DashboardInit
<1>1. DashboardTypeOK
  BY DashboardTypes DEF DashboardTypeOK, ConstantsOK
<1>2. ASSUME NEW r \in Request
      PROVE  LoginOK(request[r]) /\ ActOK(request[r]) /\ request[r].at = "idle"
  <2>1. request[r] = Idle /\ clock = 0
    OBVIOUS
  <2>2. LoginOK(Idle) /\ Idle.at = "idle"
    BY DEF LoginOK, Idle
  <2>3. ActOK(Idle)
    BY <2>1 DEF ActOK, Idle
  <2>4. QED  BY <2>1, <2>2, <2>3
<1>3. QED
  BY <1>1, <1>2 DEF DashboardInv, LoginsOK, CookiesOK, ActsOK, SessionsSound,
                    OneSessionPerLogin, OwnLogin

LEMMA DashboardInvariant == DashboardSpec => []DashboardInv
<1>1. DashboardInit => DashboardInv
  BY DashboardStarts, DashboardAssumption
<1>2. DashboardInv /\ [DashboardNext]_dashboardVars => DashboardInv'
  BY DashboardKept
<1>3. QED  BY <1>1, <1>2, PTL DEF DashboardSpec

\* Every reachable state of Dashboard is well typed.
THEOREM DashboardTyped == DashboardSpec => []DashboardTypeOK
<1>1. DashboardInv => DashboardTypeOK
  BY DEF DashboardInv
<1>2. QED  BY <1>1, DashboardInvariant, PTL

\* A login makes one session, for the browser that began it, however redirects,
\* restarts and other logins fall between its steps.
THEOREM LoginsAreSound == DashboardSpec => []SessionsSound
<1>1. DashboardInv => SessionsSound
  BY DEF DashboardInv
<1>2. QED  BY <1>1, DashboardInvariant, PTL

\* What a request does was allowed by its session, the owner the process resolved
\* and the guilds its user may manage, whatever happened since it came in.
THEOREM RequestsAreAllowed == DashboardSpec => []ActsSound
<1>1. DashboardInv => ActsSound
  <2> SUFFICES ASSUME DashboardInv, NEW r \in Request, request[r].at = "act"
               PROVE  /\ request[r].live
                      /\ request[r].what \in Owned => owner # None /\ request[r].user = owner
                      /\ request[r].what \in Guilded =>
                           request[r].since - managed[request[r].user][request[r].guild] <= Stale
    BY DEF ActsSound, ActsInForce, OwnerIsCurrent, ManagersOnly, CouldManage, Touches
  <2>1. ActOK(request[r])
    BY DEF DashboardInv, ActsOK
  <2>2. QED  BY <2>1 DEF ActOK
<1>2. QED  BY <1>1, DashboardInvariant, PTL

\* A session's row goes by its expiry or by a logout that presents it.
THEOREM SessionsEnd == DashboardSpec => SessionsEndAlone
<1> DEFINE EndsAlone == \A s \in Session : row[s] # None /\ row'[s] = None =>
             \/ row[s].expires <= clock
             \/ \E r \in Request : request[r].at = "drop" /\ request[r].session = s
<1>1. ASSUME DashboardInv, [DashboardNext]_dashboardVars
      PROVE  [EndsAlone]_dashboardVars
  <2> SUFFICES ASSUME DashboardNext, NEW s \in Session, row[s] # None, row'[s] = None
               PROVE  \/ row[s].expires <= clock
                      \/ \E r \in Request : request[r].at = "drop" /\ request[r].session = s
    BY <1>1
  <2>1. DashboardTypeOK /\ made[s] # None
    BY <1>1 DEF DashboardInv, LoginsOK
  <2>2. ~UNCHANGED row
    OBVIOUS
  <2>3. PICK r \in Request : Serve(r)
    BY <2>2 DEF DashboardNext, Login, Callback, Ask, Restart, Pass
  <2>4. ASSUME NEW u \in User, NEW t \in Session, Exchange(r, u, t)
        PROVE  FALSE
    BY <2>1, <2>4 DEF Exchange, DashboardTypeOK
  <2>5. ReadFails(r) \/ Logout(r)
    BY <2>2, <2>3, <2>4 DEF Serve, Take, ExchangeFails, Reply, ReadSession,
                            ListGuilds, ListFails, GuildAct, ServiceAct
  <2>6. CASE ReadFails(r)
    <3>1. ~Kept(s) /\ row[s] \in Row /\ clock \in Nat
      BY <2>1, <2>6 DEF ReadFails, DashboardTypeOK
    <3>2. QED  BY <3>1 DEF Kept, Row
  <2>7. CASE Logout(r)
    BY <2>1, <2>7 DEF Logout, DashboardTypeOK
  <2>8. QED  BY <2>5, <2>6, <2>7
<1>2. QED  BY <1>1, DashboardInvariant, PTL DEF DashboardSpec, SessionsEndAlone

==============================================================================
