------------------------------ MODULE GuildProofs ------------------------------
(***************************************************************************)
(* Proofs of what holds in a guild, for any members, goroutines, guilds,   *)
(* events and plugins: of Moderation, and below it of Gateway and of       *)
(* Automation, which share no state with it.                               *)
(***************************************************************************)
EXTENDS MCGuild, Sequences, FiniteSetTheorems, TLAPS

\* The places within the lock of the plugin's VM.
Inside == {"count", "create", "audit", "timeout", "mark", "verify", "delete", "log"}

\* Only handlers wait for the lock, list or choose; what gives a warning has a member,
\* and went by a limit that was noted.
PlaceOK(p) ==
    /\ p \in Request => proc[p].at \notin {"asked", "list", "menu", "chosen", "verify"}
    /\ proc[p].at \in {"asked", "count", "create", "audit", "timeout", "mark"} =>
         proc[p].member \in Member
    /\ proc[p].at = "count" => proc[p].limit <= top
    /\ proc[p].at = "delete" => proc[p].id \in Warning
PlacesInv == \A p \in Process : PlaceOK(p)

LockInv == \A h \in Handler : proc[h].at \in Inside => vm = h

\* A warning the plugin deleted is gone, so that no handler finds it again.
UndoneInv ==
    /\ \A w \in Warning : undone[w] <= 1 /\ (undone[w] = 1 => rows[w] = "gone")
    /\ \A h \in Handler : proc[h].at = "delete" => undone[proc[h].id] = 0

\* Those that counted and have not written their row yet, now.
Writing(m) == {q \in Process : proc[q].at = "create" /\ proc[q].member = m}

\* Rows and those who are about to write one: each of the latter found room.
CountInv ==
    \A m \in Member :
        /\ Cardinality(Writing(m)) <= peak[m]
        /\ Cardinality(WarningsOf(m)) + Cardinality(Writing(m))
             <= top + (IF peak[m] > 1 THEN peak[m] - 1 ELSE 0)

\* A count is what it was, or lower, unless it was shared; who reached the threshold
\* knows it.
DueInv ==
    /\ \A p \in Process : proc[p].at = "create" =>
         \/ peak[proc[p].member] > 1
         \/ Cardinality(WarningsOf(proc[p].member)) <= proc[p].count
    /\ \A m \in due :
         \/ peak[m] > 1
         \/ \E p \in Process : /\ proc[p].member = m
                               /\ \/ proc[p].at = "timeout"
                                  \/ proc[p].at = "audit" /\ Reached(p)

ModerationInv == TypeOK /\ PlacesInv /\ LockInv /\ UndoneInv /\ CountInv /\ DueInv

\* A stored configuration is within the bounds, so that neither reader changes it.
LEMMA ReadersType ==
  ASSUME stored \in Config \cup {None}
  PROVE  /\ Default \in Config /\ Load \in Config /\ PluginConfig \in Config
         /\ Load = PluginConfig
<1>1. MaxLimit \in Nat /\ DefaultLimit \in 1..MaxLimit
  BY ModerationAssumption
<1>2. Default \in Config
  BY <1>1 DEF Default, Config
<1>3. CASE stored = None
  BY <1>2, <1>3 DEF Load, PluginConfig
<1>4. CASE stored # None
  <2>1. /\ stored \in Config /\ stored.limit \in 1..MaxLimit /\ stored.threshold \in 1..MaxLimit
        /\ Load = Normalize(stored)
        /\ PluginConfig = [stored EXCEPT !.limit = Positive(@), !.threshold = Positive(@)]
    BY <1>4 DEF Config, Load, PluginConfig
  <2>2. \A n \in 1..MaxLimit : Clamp(n) = n /\ Positive(n) = n
    BY <1>1 DEF Clamp, Positive
  <2>3. Normalize(stored) = [stored EXCEPT !.limit = stored.limit, !.threshold = stored.threshold]
    BY <2>1, <2>2 DEF Normalize, Config
  <2>4. PluginConfig = [stored EXCEPT !.limit = stored.limit, !.threshold = stored.threshold]
    BY <2>1, <2>2 DEF Config
  <2>5. [stored EXCEPT !.limit = stored.limit, !.threshold = stored.threshold] \in Config
    BY <2>1 DEF Config
  <2>6. QED  BY <1>2, <2>1, <2>3, <2>4, <2>5
<1>5. QED  BY <1>3, <1>4

LEMMA WrittenType ==
  ASSUME NEW enabled \in BOOLEAN, NEW commands \in Offered, NEW limit \in Asked, NEW threshold \in Asked
  PROVE  Written([enabled |-> enabled, commands |-> commands,
                  limit |-> limit, threshold |-> threshold]) \in Config
<1>1. MaxLimit \in Nat /\ DefaultLimit \in 1..MaxLimit /\ limit \in Int /\ threshold \in Int
      /\ commands \in SUBSET Command
  BY ModerationAssumption
<1>2. \A n \in Int : Clamp(n) \in 1..MaxLimit
  BY <1>1 DEF Clamp
<1>3. QED  BY <1>1, <1>2 DEF Written, Normalize, Config

\* What a goroutine that moves to another place is.
LEMMA WorkIs ==
  ASSUME TypeOK, NEW p \in Process
  PROVE  /\ proc[p] \in Work /\ Idle \in Work
         /\ proc[p].member \in Member \cup {None} /\ proc[p].limit \in Nat
         /\ proc[p].threshold \in Nat /\ proc[p].count \in Nat
         /\ proc[p].menu \subseteq Warning /\ proc[p].id \in Warning \cup {None}
<1>1. Idle \in Work
  BY DEF Idle, Work
<1>2. QED  BY <1>1 DEF TypeOK, Work

LEMMA BecomesType ==
  ASSUME TypeOK, NEW p \in Process, NEW w \in Work, Becomes(p, w)
  PROVE  proc' \in [Process -> Work] /\ proc'[p] = w /\ \A q \in Process \ {p} : proc'[q] = proc[q]
BY DEF Becomes, TypeOK

LEMMA GoesTo ==
  ASSUME TypeOK, NEW p \in Process,
         NEW at \in {"create", "audit", "timeout", "mark", "verify", "delete", "log"},
         proc' = [proc EXCEPT ![p].at = at]
  PROVE  /\ proc' \in [Process -> Work] /\ \A q \in Process \ {p} : proc'[q] = proc[q]
         /\ proc'[p].at = at /\ proc'[p].member = proc[p].member /\ proc'[p].id = proc[p].id
         /\ proc'[p].limit = proc[p].limit /\ proc'[p].threshold = proc[p].threshold
         /\ proc'[p].count = proc[p].count
<1> DEFINE w == [proc[p] EXCEPT !.at = at]
<1>1. w \in Work /\ w.at = at /\ w.member = proc[p].member /\ w.id = proc[p].id
      /\ w.limit = proc[p].limit /\ w.threshold = proc[p].threshold /\ w.count = proc[p].count
  BY WorkIs DEF Work
<1>2. proc' = [proc EXCEPT ![p] = w]
  BY DEF TypeOK
<1> HIDE DEF w
<1>3. QED  BY <1>1, <1>2 DEF TypeOK

LEMMA EndsTo ==
  ASSUME TypeOK, NEW p \in Process, Ends(p)
  PROVE  /\ proc' \in [Process -> Work] /\ \A q \in Process \ {p} : proc'[q] = proc[q]
         /\ proc'[p] = Idle /\ proc'[p].at = "idle"
         /\ vm' = IF vm = p THEN None ELSE vm
<1>1. Idle \in Work /\ Idle.at = "idle"
  BY WorkIs DEF Idle
<1>2. QED  BY <1>1, BecomesType DEF Ends, Leaves

\* How a step moves the goroutine p, and the lock with it.
Moved(p) ==
    \/ proc'[p] = Idle /\ vm' = IF vm = p THEN None ELSE vm
    \/ /\ proc[p].at = "idle" /\ UNCHANGED vm
       /\ \/ /\ p \in Request /\ proc'[p].at = "count" /\ proc'[p].member \in Member
             /\ proc'[p].limit <= top'
          \/ p \in Request /\ proc'[p].at = "delete" /\ proc'[p].id \in Warning
          \/ p \in Handler /\ proc'[p].at = "asked" /\ proc'[p].member \in Member
          \/ p \in Handler /\ proc'[p].at = "list"
    \/ /\ vm = None /\ vm' = p
       /\ \/ /\ proc[p].at = "asked" /\ proc'[p].at = "count"
             /\ proc'[p].member = proc[p].member /\ proc'[p].limit <= top'
          \/ proc[p].at = "chosen" /\ proc'[p].at = "verify"
    \/ /\ UNCHANGED vm /\ proc'[p].member = proc[p].member
       /\ <<proc[p].at, proc'[p].at>> \in
            {<<"count", "create">>, <<"create", "audit">>, <<"audit", "timeout">>,
             <<"timeout", "mark">>, <<"list", "menu">>, <<"menu", "chosen">>, <<"delete", "log">>}
    \/ /\ UNCHANGED vm /\ proc[p].at = "verify" /\ proc'[p].at = "delete"
       /\ proc'[p].id \in Warning /\ rows[proc'[p].id] \in Member \cup {None}

LEMMA StepMoves ==
  ASSUME TypeOK, NEW p \in Process, Step(p)
  PROVE  /\ proc' \in [Process -> Work] /\ \A q \in Process \ {p} : proc'[q] = proc[q]
         /\ Moved(p)
<1> USE DEF Moved
<1>1. ASSUME NEW m \in Member, RequestWarn(p, m)
      PROVE  proc' \in [Process -> Work] /\ (\A q \in Process \ {p} : proc'[q] = proc[q]) /\ Moved(p)
  <2> DEFINE w == [Idle EXCEPT !.at = "count", !.member = m,
                               !.limit = Load.limit, !.threshold = Load.threshold]
  <2>1. Load.limit \in Nat /\ Load.threshold \in Nat /\ top \in Nat
    BY ReadersType, ModerationAssumption DEF Config, TypeOK
  <2>2. w \in Work /\ w.at = "count" /\ w.member = m /\ w.limit = Load.limit
    BY <2>1, WorkIs DEF Work, Idle
  <2>3. proc' = [proc EXCEPT ![p] = w]
    BY <1>1 DEF RequestWarn
  <2> HIDE DEF w
  <2>4. proc' \in [Process -> Work] /\ proc'[p] = w /\ \A q \in Process \ {p} : proc'[q] = proc[q]
    BY <2>2, <2>3 DEF TypeOK
  <2>5. w.limit <= top' /\ p \in Request /\ proc[p].at = "idle" /\ UNCHANGED vm
    BY <1>1, <2>1, <2>2 DEF RequestWarn
  <2>6. QED  BY <2>2, <2>4, <2>5
<1>2. ASSUME NEW m \in Member, CommandWarn(p, m) \/ CommandUnwarn(p, m)
      PROVE  proc' \in [Process -> Work] /\ (\A q \in Process \ {p} : proc'[q] = proc[q]) /\ Moved(p)
  <2> DEFINE w(at) == [Idle EXCEPT !.at = at, !.member = m]
  <2>1. \A at \in {"asked", "list"} : w(at) \in Work /\ w(at).at = at /\ w(at).member = m
    BY WorkIs DEF Work, Idle
  <2>2. CASE CommandWarn(p, m)
    <3>1. Becomes(p, w("asked"))
      BY <2>2 DEF CommandWarn
    <3> HIDE DEF w
    <3>2. QED  BY <2>1, <2>2, <3>1, BecomesType DEF CommandWarn
  <2>3. CASE CommandUnwarn(p, m)
    <3>1. Becomes(p, w("list"))
      BY <2>3 DEF CommandUnwarn
    <3> HIDE DEF w
    <3>2. QED  BY <2>1, <2>3, <3>1, BecomesType DEF CommandUnwarn
  <2>4. QED  BY <1>2, <2>2, <2>3
<1>3. ASSUME NEW i \in Warning, RequestUnwarn(p, i)
      PROVE  proc' \in [Process -> Work] /\ (\A q \in Process \ {p} : proc'[q] = proc[q]) /\ Moved(p)
  <2> DEFINE w == [Idle EXCEPT !.at = "delete", !.id = i]
  <2>1. w \in Work /\ w.at = "delete" /\ w.id = i
    BY WorkIs DEF Work, Idle
  <2>2. Becomes(p, w)
    BY <1>3 DEF RequestUnwarn
  <2> HIDE DEF w
  <2>3. QED  BY <1>3, <2>1, <2>2, BecomesType DEF RequestUnwarn
<1>4. ASSUME NEW i \in Warning, Choose(p, i)
      PROVE  proc' \in [Process -> Work] /\ (\A q \in Process \ {p} : proc'[q] = proc[q]) /\ Moved(p)
  <2> DEFINE w == [Idle EXCEPT !.at = "chosen", !.member = proc[p].member, !.id = i]
  <2>1. w \in Work /\ w.at = "chosen" /\ w.member = proc[p].member
    BY WorkIs DEF Work, Idle
  <2>2. Becomes(p, w)
    BY <1>4 DEF Choose
  <2> HIDE DEF w
  <2>3. QED  BY <1>4, <2>1, <2>2, BecomesType DEF Choose
<1>5. CASE List(p)
  <2> DEFINE w == [proc[p] EXCEPT !.at = "menu", !.menu = WarningsOf(proc[p].member)]
  <2>1. w \in Work /\ w.at = "menu" /\ w.member = proc[p].member
    BY WorkIs DEF Work, WarningsOf
  <2>2. vm = None /\ UNCHANGED vm /\ proc[p].at = "list"
        /\ (Becomes(p, Idle) \/ Becomes(p, w))
    BY <1>5 DEF List
  <2> HIDE DEF w
  <2>3. CASE Becomes(p, Idle)
    BY <2>2, <2>3, WorkIs, BecomesType
  <2>4. CASE Becomes(p, w)
    BY <2>1, <2>2, <2>4, BecomesType
  <2>5. QED  BY <2>2, <2>3, <2>4
<1>6. CASE EnterWarn(p)
  <2>1. PICK c \in {PluginConfig, Default} : Knowing(p, c, "count")
    BY <1>6 DEF EnterWarn
  <2>2. c.limit \in Nat /\ c.threshold \in Nat /\ top \in Nat
    BY ReadersType, ModerationAssumption DEF Config, TypeOK
  <2> DEFINE w == [proc[p] EXCEPT !.at = "count", !.limit = c.limit, !.threshold = c.threshold]
  <2>3. w \in Work /\ w.at = "count" /\ w.member = proc[p].member /\ w.limit = c.limit
    BY <2>2, WorkIs DEF Work
  <2>4. proc' = [proc EXCEPT ![p] = w] /\ c.limit <= top'
    <3>1. c.limit <= top'
      BY <2>1, <2>2 DEF Knowing
    <3>2. proc \in [Process -> Work]
      BY DEF TypeOK
    <3>3. proc' = [proc EXCEPT ![p] = w]
      BY <2>1, <3>2 DEF Knowing
    <3>4. QED  BY <3>1, <3>3
  <2> HIDE DEF w
  <2>5. proc' \in [Process -> Work] /\ proc'[p] = w /\ \A q \in Process \ {p} : proc'[q] = proc[q]
    BY <2>3, <2>4 DEF TypeOK
  <2>6. QED  BY <1>6, <2>3, <2>4, <2>5 DEF EnterWarn, Enters
<1>7. CASE Count(p)
  <2> DEFINE n == Cardinality(WarningsOf(proc[p].member))
             w == [proc[p] EXCEPT !.at = "create", !.count = n]
  <2>1. n \in Nat
    BY ModerationAssumption, FS_Subset, FS_CardinalityType DEF WarningsOf
  <2>2. w \in Work /\ w.at = "create" /\ w.member = proc[p].member
    BY <2>1, WorkIs DEF Work
  <2>3. \/ Ends(p)
        \/ proc' = [proc EXCEPT ![p] = w] /\ UNCHANGED vm /\ proc[p].at = "count"
    BY <1>7 DEF Count, TypeOK
  <2> HIDE DEF w
  <2>4. QED  BY <2>2, <2>3, EndsTo DEF TypeOK
<1>8. CASE EnterChoice(p)
  BY <1>8, GoesTo DEF EnterChoice, Enters
<1>9. CASE \E i \in Warning : Create(p, i)
  BY <1>9, GoesTo DEF Create, Goes
<1>10. CASE Audit(p) \/ Timeout(p) \/ Mark(p) \/ Log(p) \/ Fails(p)
  BY <1>10, GoesTo, EndsTo DEF Audit, Timeout, Mark, Log, Fails, Goes
<1>11. CASE Verify(p)
  <2>1. CASE Ends(p)
    BY <2>1, EndsTo
  <2>2. CASE ~Ends(p)
    <3>1. proc[p].id \in WarningsOf(proc[p].member) /\ Goes(p, "delete") /\ proc[p].at = "verify"
      BY <1>11, <2>2 DEF Verify
    <3>2. proc[p].id \in Warning /\ rows[proc[p].id] \in Member \cup {None}
      BY <3>1, WorkIs DEF WarningsOf
    <3>3. QED  BY <3>1, <3>2, GoesTo DEF Goes
  <2>3. QED  BY <2>1, <2>2
<1>12. CASE Delete(p)
  BY <1>12, GoesTo DEF Delete, Goes
<1>13. QED
  BY <1>1, <1>2, <1>3, <1>4, <1>5, <1>6, <1>7, <1>8, <1>9, <1>10, <1>11, <1>12 DEF Step

\* What a step writes besides.
LEMMA StepType ==
  ASSUME TypeOK, PlacesInv, NEW p \in Process, Step(p)
  PROVE  TypeOK'
<1>1. proc' \in [Process -> Work] /\ Moved(p)
  BY StepMoves
<1>2. vm' \in Handler \cup {None}
  <2>1. proc[p].at \in {"asked", "chosen"} => p \in Handler
    BY DEF PlacesInv, PlaceOK, Process
  <2>2. vm' = None \/ vm' = vm \/ (vm' = p /\ proc[p].at \in {"asked", "chosen"})
    BY <1>1 DEF Moved
  <2>3. QED  BY <2>1, <2>2 DEF TypeOK
<1>3. stored' = stored /\ saves' = saves
  BY DEF Step, RequestWarn, CommandWarn, EnterWarn, Count, Create, Audit, Timeout, Mark,
         RequestUnwarn, CommandUnwarn, List, Choose, EnterChoice, Verify, Delete, Log, Fails
<1>4. rows' \in [Warning -> Member \cup {None, "gone"}]
  <2>1. ASSUME NEW w \in Warning, Create(p, w)  PROVE proc[p].member \in Member
    BY <2>1 DEF Create, PlacesInv, PlaceOK
  <2>2. QED
    BY <2>1 DEF TypeOK, Step, RequestWarn, CommandWarn, EnterWarn, Count, Create, Audit, Timeout,
         Mark, RequestUnwarn, CommandUnwarn, List, Choose, EnterChoice, Verify, Delete, Log, Fails
<1>5. top' \in 1..MaxLimit
  <2>1. \A c \in Config : c.limit \in 1..MaxLimit
    BY DEF Config
  <2>2. top \in 1..MaxLimit /\ Default \in Config /\ Load \in Config /\ PluginConfig \in Config
    BY ReadersType DEF TypeOK
  <2>3. CASE \E m \in Member : RequestWarn(p, m)
    BY <2>1, <2>2, <2>3 DEF RequestWarn
  <2>4. CASE EnterWarn(p)
    BY <2>1, <2>2, <2>4 DEF EnterWarn, Knowing
  <2>5. QED
    BY <2>2, <2>3, <2>4 DEF Step, CommandWarn, Count, Create, Audit, Timeout, Mark, history,
         RequestUnwarn, CommandUnwarn, List, Choose, EnterChoice, Verify, Delete, Log, Fails
<1>6. peak' \in [Member -> Nat]
  <2>1. CASE Count(p)
    <3> DEFINE m == proc[p].member
               standing == Cardinality(Standing(m))
    <3>1. standing \in Nat
      BY ModerationAssumption, FS_Subset, FS_CardinalityType DEF Standing
    <3>2. peak' = [peak EXCEPT ![m] = IF standing > @ THEN standing ELSE @]
      BY <2>1 DEF Count
    <3> HIDE DEF standing
    <3>3. QED  BY <3>1, <3>2 DEF TypeOK
  <2>2. QED
    BY <2>1 DEF TypeOK, Step, RequestWarn, CommandWarn, EnterWarn, Create, Audit, Timeout, Mark,
         history, RequestUnwarn, CommandUnwarn, List, Choose, EnterChoice, Verify, Delete, Log, Fails
<1>7. due' \subseteq Member
  <2>1. ASSUME NEW w \in Warning, Create(p, w)  PROVE due' \subseteq Member
    BY <2>1 DEF Create, PlacesInv, PlaceOK, TypeOK
  <2>2. QED
    BY <2>1 DEF TypeOK, Step, RequestWarn, CommandWarn, EnterWarn, Count, Audit, Timeout, Mark,
         history, RequestUnwarn, CommandUnwarn, List, Choose, EnterChoice, Verify, Delete, Log, Fails
<1>8. undone' \in [Warning -> Nat]
  <2>1. CASE Delete(p)
    <3>1. proc[p].id \in Warning /\ undone \in [Warning -> Nat]
      BY <2>1 DEF Delete, PlacesInv, PlaceOK, TypeOK
    <3>2. undone[proc[p].id] + 1 \in Nat
      BY <3>1
    <3>3. QED  BY <2>1, <3>1, <3>2 DEF Delete
  <2>2. QED
    BY <2>1 DEF TypeOK, Step, RequestWarn, CommandWarn, EnterWarn, Count, Create, Audit, Timeout, Mark,
         history, RequestUnwarn, CommandUnwarn, List, Choose, EnterChoice, Verify, Log, Fails
<1>9. QED  BY <1>1, <1>2, <1>3, <1>4, <1>5, <1>6, <1>7, <1>8 DEF TypeOK

LEMMA StepPlaces ==
  ASSUME TypeOK, PlacesInv, NEW p \in Process, Step(p)
  PROVE  PlacesInv' /\ top' >= top
<1>1. Moved(p) /\ (\A q \in Process \ {p} : proc'[q] = proc[q]) /\ proc' \in [Process -> Work]
  BY StepMoves
<1>2. top' >= top /\ top \in Nat /\ top' \in Nat
  <2>1. top \in Nat /\ top' \in Nat
    BY StepType, ModerationAssumption DEF TypeOK
  <2>2. \A c \in Config : c.limit \in Nat
    BY ModerationAssumption DEF Config
  <2>3. CASE \E m \in Member : RequestWarn(p, m)
    BY <2>1, <2>2, <2>3, ReadersType DEF RequestWarn, TypeOK
  <2>4. CASE EnterWarn(p)
    BY <2>1, <2>2, <2>4, ReadersType DEF EnterWarn, Knowing, TypeOK
  <2>5. CASE top' = top
    BY <2>1, <2>5
  <2>6. QED
    BY <2>1, <2>3, <2>4, <2>5 DEF Step, CommandWarn, Count, Create, Audit, Timeout,
         Mark, history, RequestUnwarn, CommandUnwarn, List, Choose, EnterChoice, Verify, Delete,
         Log, Fails
<1>3. ASSUME NEW q \in Process \ {p}
      PROVE  PlaceOK(q)'
  BY <1>1, <1>2, <1>3 DEF PlacesInv, PlaceOK, TypeOK, Work
<1>4. PlaceOK(p)'
  <2>1. PlaceOK(p) /\ (p \in Request => p \notin Handler)
    BY ModerationAssumption DEF PlacesInv
  <2>2. CASE proc'[p] = Idle
    BY <2>2 DEF PlaceOK, Idle
  <2>3. CASE proc'[p] # Idle
    BY <1>1, <2>1, <2>3 DEF Moved, PlaceOK
  <2>4. QED  BY <2>2, <2>3
<1>5. QED  BY <1>2, <1>3, <1>4 DEF PlacesInv

LEMMA StepLock ==
  ASSUME TypeOK, PlacesInv, LockInv, NEW p \in Process, Step(p)
  PROVE  LockInv'
<1>1. Moved(p) /\ \A q \in Process \ {p} : proc'[q] = proc[q]
  BY StepMoves
<1>2. \A h \in Handler : h \in Process /\ h # None /\ h \notin Request
  BY ModerationAssumption DEF Process
<1> SUFFICES ASSUME NEW h \in Handler, proc'[h].at \in Inside
             PROVE  vm' = h
  BY DEF LockInv
<1>3. CASE h = p
  BY <1>1, <1>2, <1>3 DEF Moved, LockInv, Inside, Idle
<1>4. CASE h # p
  <2>1. vm = h
    BY <1>1, <1>2, <1>4 DEF LockInv
  <2>2. QED  BY <1>1, <1>2, <1>4, <2>1 DEF Moved
<1>5. QED  BY <1>3, <1>4

\* Rows and deletions: a row that is gone stays so.
LEMMA RowsStep ==
  ASSUME TypeOK, PlacesInv, NEW p \in Process, Step(p)
  PROVE  /\ Delete(p) \/ UNCHANGED undone
         /\ \A w \in Warning : rows[w] = "gone" => rows'[w] = "gone"
<1>1. Delete(p) \/ UNCHANGED undone
  BY DEF Step, RequestWarn, CommandWarn, EnterWarn, Count, Create, Audit, Timeout, Mark,
         history, RequestUnwarn, CommandUnwarn, List, Choose, EnterChoice, Verify, Log, Fails
<1>2. "gone" # None
  BY ModerationAssumption
<1>3. ASSUME NEW w \in Warning, rows[w] = "gone"  PROVE rows'[w] = "gone"
  <2>1. CASE \E i \in Warning : Create(p, i)
    BY <1>2, <1>3, <2>1 DEF Create, TypeOK
  <2>2. CASE Delete(p)
    BY <1>3, <2>2 DEF Delete, TypeOK
  <2>3. CASE UNCHANGED rows
    BY <1>3, <2>3
  <2>4. QED
    BY <2>1, <2>2, <2>3 DEF Step, RequestWarn, CommandWarn, EnterWarn, Count, Audit, Timeout,
       Mark, RequestUnwarn, CommandUnwarn, List, Choose, EnterChoice, Verify, Log, Fails
<1>4. QED  BY <1>1, <1>3

LEMMA StepUndone ==
  ASSUME TypeOK, PlacesInv, LockInv, UndoneInv, NEW p \in Process, Step(p)
  PROVE  UndoneInv'
<1>1. Moved(p) /\ \A q \in Process \ {p} : proc'[q] = proc[q]
  BY StepMoves
<1>2. \A h \in Handler : h \in Process /\ h # None /\ h \notin Request
  BY ModerationAssumption DEF Process
<1>3. "gone" \notin Member \cup {None}
  BY ModerationAssumption
<1>4. CASE Delete(p)
  <2> DEFINE i == proc[p].id
  <2>1. /\ i \in Warning /\ rows' = [rows EXCEPT ![i] = "gone"] /\ proc[p].at = "delete"
        /\ undone' = IF p \in Handler THEN [undone EXCEPT ![i] = @ + 1] ELSE undone
    BY <1>4 DEF Delete, PlacesInv, PlaceOK
  <2>2. p \in Handler => undone[i] = 0
    BY <2>1 DEF UndoneInv
  <2>3. \A w \in Warning : undone'[w] <= 1 /\ (undone'[w] = 1 => rows'[w] = "gone")
    BY <2>1, <2>2 DEF UndoneInv, TypeOK
  <2>4. ASSUME NEW h \in Handler, proc'[h].at = "delete"  PROVE undone'[proc'[h].id] = 0
    <3>1. proc'[p].at = "log"
      BY <1>4, GoesTo DEF Delete, Goes
    <3>2. h # p /\ proc'[h] = proc[h] /\ vm = h
      BY <1>1, <1>2, <2>4, <3>1 DEF LockInv, Inside
    <3>3. p \notin Handler
      BY <2>1, <3>2 DEF LockInv, Inside
    <3>4. QED  BY <2>1, <2>4, <3>2, <3>3 DEF UndoneInv
  <2>5. QED  BY <2>3, <2>4 DEF UndoneInv
<1>5. CASE UNCHANGED undone
  <2>1. \A w \in Warning : undone'[w] <= 1 /\ (undone'[w] = 1 => rows'[w] = "gone")
    BY <1>5, RowsStep DEF UndoneInv
  <2>2. ASSUME NEW h \in Handler, proc'[h].at = "delete"  PROVE undone'[proc'[h].id] = 0
    <3>1. CASE h # p
      BY <1>1, <1>2, <1>5, <2>2, <3>1 DEF UndoneInv
    <3>2. CASE h = p
      <4>1. proc'[h].id \in Warning /\ rows[proc'[h].id] # "gone"
        BY <1>1, <1>2, <1>3, <2>2, <3>2 DEF Moved, Idle
      <4>2. QED  BY <1>5, <4>1 DEF UndoneInv, TypeOK
    <3>3. QED  BY <3>1, <3>2
  <2>3. QED  BY <2>1, <2>2 DEF UndoneInv
<1>6. QED  BY <1>4, <1>5, RowsStep

\* Warnings and goroutines can be counted.
LEMMA Counted ==
  /\ \A S \in SUBSET Warning : IsFiniteSet(S) /\ Cardinality(S) \in Nat
  /\ \A S \in SUBSET Process : IsFiniteSet(S) /\ Cardinality(S) \in Nat
  /\ \A S, T \in SUBSET Warning : S \subseteq T => Cardinality(S) <= Cardinality(T)
  /\ \A S, T \in SUBSET Process : S \subseteq T => Cardinality(S) <= Cardinality(T)
BY ModerationAssumption, FS_Subset, FS_CardinalityType

\* What a step does to the rows of a member and to those about to write one.
LEMMA Tally ==
  ASSUME TypeOK, PlacesInv, NEW p \in Process, Step(p), NEW m \in Member
  PROVE  \/ /\ WarningsOf(m)' \subseteq WarningsOf(m) /\ Writing(m)' \subseteq Writing(m)
            /\ peak'[m] >= peak[m]
         \/ /\ Count(p) /\ proc[p].member = m /\ p \notin Writing(m)
            /\ proc'[p].at = "create" /\ proc'[p].member = m
            /\ WarningsOf(m)' = WarningsOf(m) /\ Writing(m)' = Writing(m) \cup {p}
            /\ Cardinality(WarningsOf(m)) < proc[p].limit
            /\ proc'[p].count = Cardinality(WarningsOf(m))
            /\ peak'[m] >= peak[m] /\ peak'[m] >= Cardinality(Writing(m)')
         \/ /\ \E w \in Warning :
                 /\ Create(p, w) /\ w \notin WarningsOf(m)
                 /\ WarningsOf(m)' = WarningsOf(m) \cup {w}
            /\ proc[p].member = m /\ p \in Writing(m)
            /\ Writing(m)' = Writing(m) \ {p} /\ peak' = peak
<1>1. Moved(p) /\ (\A q \in Process \ {p} : proc'[q] = proc[q]) /\ proc' \in [Process -> Work]
  BY StepMoves
<1>2. \A q \in Process \ {p} : q \in Writing(m)' <=> q \in Writing(m)
  BY <1>1 DEF Writing
<1>3. p \in Writing(m)' <=> proc'[p].at = "create" /\ proc'[p].member = m
  BY DEF Writing
<1>4. Writing(m) \subseteq Process /\ Writing(m)' \subseteq Process
  BY DEF Writing
<1>5. CASE Count(p)
  <2>0. PICK k \in Member : proc[p].member = k
    BY <1>5 DEF Count, PlacesInv, PlaceOK
  <2> DEFINE n == Cardinality(WarningsOf(k))
             standing == Cardinality(Standing(k))
  <2>1. /\ k \in Member /\ rows' = rows /\ proc[p].at = "count"
        /\ peak' = [peak EXCEPT ![k] = IF standing > @ THEN standing ELSE @]
    BY <1>5, <2>0 DEF Count
  <2>2. Standing(k) = Writing(k)' /\ Writing(k)' \in SUBSET Process
    BY DEF Standing, Writing
  <2>3. standing \in Nat /\ peak[m] \in Nat /\ peak[k] \in Nat
    BY <2>1, <2>2, Counted DEF TypeOK
  <2>4. peak'[m] >= peak[m] /\ peak'[k] >= standing
    <3> HIDE DEF standing
    <3>1. QED  BY <2>1, <2>3 DEF TypeOK
  <2>5. p \notin Writing(m) /\ WarningsOf(m)' = WarningsOf(m)
    BY <2>1 DEF Writing, WarningsOf
  <2>6. CASE proc'[p].at = "create" /\ k = m
    <3>1. /\ ~Full(p, n) /\ proc' = [proc EXCEPT ![p].at = "create", ![p].count = n]
      BY <1>5, <2>0, <2>6, EndsTo DEF Count
    <3>2. n \in Nat /\ n < proc[p].limit
      BY <3>1, Counted, WorkIs DEF Full, WarningsOf
    <3>3. proc'[p].count = n /\ proc'[p].member = m
      <4> HIDE DEF n
      <4>1. QED  BY <2>0, <2>6, <3>1 DEF TypeOK, Work
    <3>4. Writing(m)' = Writing(m) \cup {p}
      BY <1>2, <1>3, <1>4, <2>6, <3>3
    <3>5. QED  BY <1>5, <2>0, <2>2, <2>4, <2>5, <2>6, <3>2, <3>3, <3>4
  <2>7. CASE ~(proc'[p].at = "create" /\ k = m)
    <3>1. proc'[p].at = "create" => proc'[p].member = k
      BY <1>1, <2>0, <2>1 DEF Moved, Idle
    <3>2. Writing(m)' \subseteq Writing(m)
      BY <1>2, <1>3, <1>4, <2>7, <3>1
    <3>3. QED  BY <2>4, <2>5, <3>2
  <2>8. QED  BY <2>6, <2>7
<1>6. ASSUME ~Count(p)
      PROVE  p \notin Writing(m)' /\ peak' = peak
  <2>1. proc[p].at = "count" => Fails(p)
    BY <1>6 DEF Step, RequestWarn, CommandWarn, EnterWarn, Create, Audit, Timeout, Mark,
            RequestUnwarn, CommandUnwarn, List, Choose, EnterChoice, Verify, Delete, Log
  <2>2. proc'[p].at # "create"
    BY <1>1, <2>1, EndsTo DEF Moved, Idle, Fails
  <2>3. peak' = peak
    BY <1>6 DEF Step, RequestWarn, CommandWarn, EnterWarn, Create, Audit, Timeout, Mark, history,
            RequestUnwarn, CommandUnwarn, List, Choose, EnterChoice, Verify, Delete, Log, Fails
  <2>4. QED  BY <1>3, <2>2, <2>3
<1>7. ASSUME NEW w \in Warning, Create(p, w)
      PROVE  \/ WarningsOf(m)' \subseteq WarningsOf(m)
             \/ /\ w \notin WarningsOf(m) /\ proc[p].member = m /\ p \in Writing(m)
                /\ WarningsOf(m)' = WarningsOf(m) \cup {w}
  BY <1>7, ModerationAssumption DEF Create, WarningsOf, Writing, TypeOK
<1>8. CASE \E w \in Warning : Create(p, w)
  <2>1. PICK w \in Warning : Create(p, w)
    BY <1>8
  <2>2. ~Count(p)
    BY <2>1 DEF Create, Count
  <2>3. Writing(m)' = Writing(m) \ {p} /\ peak' = peak
    BY <1>2, <1>4, <1>6, <2>2
  <2>4. QED  BY <1>7, <2>1, <2>3 DEF TypeOK
<1>9. CASE ~Count(p) /\ ~\E w \in Warning : Create(p, w)
  <2>1. Writing(m)' \subseteq Writing(m) /\ peak' = peak
    BY <1>2, <1>4, <1>6, <1>9
  <2>2. WarningsOf(m)' \subseteq WarningsOf(m)
    <3>1. CASE Delete(p)
      BY <3>1, ModerationAssumption DEF Delete, WarningsOf, TypeOK
    <3>2. CASE UNCHANGED rows
      BY <3>2 DEF WarningsOf
    <3>3. QED
      BY <1>9, <3>1, <3>2 DEF Step, RequestWarn, CommandWarn, EnterWarn, Audit, Timeout, Mark,
         RequestUnwarn, CommandUnwarn, List, Choose, EnterChoice, Verify, Log, Fails
  <2>3. QED  BY <2>1, <2>2 DEF TypeOK
<1>10. QED  BY <1>5, <1>8, <1>9

\* The most beyond the limit is the most who stood between their count and their row.
Slack(m) == IF peak[m] > 1 THEN peak[m] - 1 ELSE 0

LEMMA StepCount ==
  ASSUME TypeOK, PlacesInv, CountInv, NEW p \in Process, Step(p)
  PROVE  CountInv'
<1> SUFFICES ASSUME NEW m \in Member
             PROVE  /\ Cardinality(Writing(m)') <= peak'[m]
                    /\ Cardinality(WarningsOf(m)') + Cardinality(Writing(m)') <= top' + Slack(m)'
  BY DEF CountInv, Slack
<1> DEFINE W == WarningsOf(m)
           S == Writing(m)
<1> SUFFICES Cardinality(S') <= peak'[m] /\ Cardinality(W') + Cardinality(S') <= top' + Slack(m)'
  OBVIOUS
<1>1. /\ W \in SUBSET Warning /\ W' \in SUBSET Warning
      /\ S \in SUBSET Process /\ S' \in SUBSET Process
  BY DEF WarningsOf, Writing
<1>2. /\ Cardinality(W) \in Nat /\ Cardinality(W') \in Nat
      /\ Cardinality(S) \in Nat /\ Cardinality(S') \in Nat
      /\ IsFiniteSet(W) /\ IsFiniteSet(S)
  BY <1>1, Counted
<1>3. /\ peak[m] \in Nat /\ peak'[m] \in Nat /\ top \in Nat /\ top' \in Nat /\ top' >= top
  BY StepType, StepPlaces, ModerationAssumption DEF TypeOK
<1>4. Cardinality(S) <= peak[m] /\ Cardinality(W) + Cardinality(S) <= top + Slack(m)
  BY DEF CountInv, Slack
<1>5. CASE W' \subseteq W /\ S' \subseteq S /\ peak'[m] >= peak[m]
  <2>1. Cardinality(W') <= Cardinality(W) /\ Cardinality(S') <= Cardinality(S)
    BY <1>1, <1>5, Counted
  <2> HIDE DEF W, S
  <2>2. QED  BY <1>2, <1>3, <1>4, <1>5, <2>1 DEF Slack
<1>6. CASE /\ Count(p) /\ W' = W /\ p \notin S /\ S' = S \cup {p} /\ Cardinality(W) < proc[p].limit
           /\ peak'[m] >= peak[m] /\ peak'[m] >= Cardinality(S')
  <2>1. Cardinality(S') = Cardinality(S) + 1
    BY <1>2, <1>6, FS_AddElement
  <2>2. proc[p].limit <= top /\ proc[p].limit \in Nat
    BY <1>6, WorkIs DEF Count, PlacesInv, PlaceOK
  <2> HIDE DEF W, S
  <2>3. QED  BY <1>2, <1>3, <1>6, <2>1, <2>2 DEF Slack
<1>7. CASE /\ \E w \in Warning : w \notin W /\ W' = W \cup {w}
           /\ p \in S /\ S' = S \ {p} /\ peak' = peak
  <2>1. Cardinality(W') = Cardinality(W) + 1
    BY <1>2, <1>7, FS_AddElement
  <2>2. Cardinality(S') = Cardinality(S) - 1
    BY <1>2, <1>7, FS_RemoveElement
  <2> HIDE DEF W, S
  <2>3. QED  BY <1>2, <1>3, <1>4, <1>7, <2>1, <2>2 DEF Slack
<1>8. QED  BY <1>5, <1>6, <1>7, Tally

LEMMA StepDue ==
  ASSUME TypeOK, PlacesInv, CountInv, DueInv, NEW p \in Process, Step(p)
  PROVE  DueInv'
<1>1. Moved(p) /\ (\A q \in Process \ {p} : proc'[q] = proc[q]) /\ proc' \in [Process -> Work]
  BY StepMoves
<1>2. TypeOK' /\ CountInv'
  BY StepType, StepCount
<1>3. \A m \in Member : /\ peak'[m] >= peak[m] /\ peak[m] \in Nat /\ peak'[m] \in Nat
                        /\ peak[m] > 1 => peak'[m] > 1
  BY <1>2, Tally DEF TypeOK
\* What was counted.
<1>4. ASSUME NEW q \in Process, proc'[q].at = "create"
      PROVE  \/ peak'[proc'[q].member] > 1
             \/ Cardinality(WarningsOf(proc[q].member)') <= proc'[q].count
  <2>1. PICK m \in Member : proc'[q].member = m
    BY <1>4, StepPlaces DEF PlacesInv, PlaceOK
  <2>2. /\ WarningsOf(m) \in SUBSET Warning /\ WarningsOf(m)' \in SUBSET Warning
        /\ Cardinality(WarningsOf(m)) \in Nat /\ Cardinality(WarningsOf(m)') \in Nat
    BY Counted DEF WarningsOf
  <2>3. WarningsOf(proc[q].member)' = WarningsOf(m)'
    BY <2>1 DEF WarningsOf
  <2>4. CASE q = p
    <3>1. proc'[p].member = m /\ p \in Writing(m)'
      BY <1>4, <2>1, <2>4 DEF Writing
    <3>2. proc[p].at # "create"
      BY <1>1, <1>4, <2>4 DEF Moved, Idle
    <3>3. p \notin Writing(m)
      BY <3>2 DEF Writing
    <3>4. proc'[p].count = Cardinality(WarningsOf(m)) /\ WarningsOf(m)' = WarningsOf(m)
      BY <3>1, <3>3, Tally
    <3>5. QED  BY <2>2, <2>3, <2>4, <3>4
  <2>5. CASE q # p
    <3>1. proc'[q] = proc[q] /\ q \in Writing(m) /\ q \in Writing(m)'
      BY <1>1, <1>4, <2>1, <2>5 DEF Writing
    <3>2. peak[m] > 1 \/ Cardinality(WarningsOf(m)) <= proc[q].count
      BY <1>4, <2>1, <3>1 DEF DueInv
    <3>3. CASE WarningsOf(m)' \subseteq WarningsOf(m)
      BY <1>3, <2>1, <2>2, <2>3, <3>1, <3>2, <3>3, Counted, WorkIs
    <3>4. CASE p \in Writing(m)
      <4>1. {p, q} \subseteq Writing(m) /\ Writing(m) \in SUBSET Process
        BY <3>1, <3>4 DEF Writing
      <4>2. Cardinality({p, q}) = 2
        <5>1. IsFiniteSet({p}) /\ Cardinality({p}) = 1
          BY FS_Singleton
        <5>2. Cardinality({p} \cup {q}) = 2 /\ {p, q} = {p} \cup {q}
          BY <2>5, <5>1, FS_AddElement
        <5>3. QED  BY <5>2
      <4>3. Cardinality(Writing(m)) >= 2 /\ Cardinality(Writing(m)) <= peak[m]
        BY <4>1, <4>2, Counted DEF CountInv
      <4>4. QED  BY <1>3, <2>1, <4>1, <4>3, Counted
    <3>5. QED  BY <3>3, <3>4, Tally
  <2>6. QED  BY <2>4, <2>5
\* Who is due a timeout.
<1>5. ASSUME NEW m \in due'
      PROVE  \/ peak'[m] > 1
             \/ \E q \in Process : /\ proc'[q].member = m
                                   /\ \/ proc'[q].at = "timeout"
                                      \/ proc'[q].at = "audit" /\ Reached(q)'
  <2>1. m \in Member
    BY <1>2 DEF TypeOK
  <2>2. CASE \E w \in Warning : Create(p, w) /\ due' # due /\ m = proc[p].member
    <3>1. /\ proc[p].at = "create" /\ proc'[p].at = "audit" /\ proc'[p].member = m
          /\ proc'[p].count = proc[p].count /\ proc'[p].threshold = proc[p].threshold
          /\ Cardinality(WarningsOf(m)) + 1 >= proc[p].threshold
      BY <2>2, GoesTo DEF Create, Goes
    <3>2. peak[m] > 1 \/ Cardinality(WarningsOf(m)) <= proc[p].count
      BY <2>2, <3>1 DEF DueInv
    <3>3. Cardinality(WarningsOf(m)) \in Nat
      BY Counted DEF WarningsOf
    <3>4. CASE Cardinality(WarningsOf(m)) <= proc[p].count
      <4>1. Reached(p)'
        BY <3>1, <3>3, <3>4, WorkIs DEF Reached
      <4>2. QED  BY <3>1, <4>1
    <3>5. QED  BY <1>3, <2>1, <3>2, <3>4
  <2>3. CASE m \in due /\ ~((Timeout(p) \/ Fails(p)) /\ m \notin due')
    <3>1. CASE peak[m] > 1
      BY <1>3, <2>1, <3>1
    <3>2. CASE \E q \in Process : /\ proc[q].member = m
                                  /\ proc[q].at = "timeout" \/ (proc[q].at = "audit" /\ Reached(q))
      <4>1. PICK q \in Process : /\ proc[q].member = m
                                 /\ proc[q].at = "timeout" \/ (proc[q].at = "audit" /\ Reached(q))
        BY <3>2
      <4>2. CASE q # p
        BY <1>1, <4>1, <4>2 DEF Reached
      <4>3. CASE q = p
        <5>1. ~Timeout(p) /\ ~Fails(p)
          BY <1>5, <4>1, <4>3 DEF Timeout, Fails
        <5>2. Audit(p) /\ Reached(p) /\ proc[p].at = "audit"
          BY <4>1, <4>3, <5>1 DEF Step, RequestWarn, CommandWarn, EnterWarn, Count, Create, Mark,
             RequestUnwarn, CommandUnwarn, List, Choose, EnterChoice, Verify, Delete, Log, Audit
        <5>3. proc'[p].at = "timeout" /\ proc'[p].member = m
          BY <4>1, <4>3, <5>2, GoesTo DEF Audit, Goes
        <5>4. QED  BY <5>3
      <4>4. QED  BY <4>2, <4>3
    <3>3. QED  BY <2>3, <3>1, <3>2 DEF DueInv
  <2>4. m \in due \/ \E w \in Warning : Create(p, w) /\ due' # due /\ m = proc[p].member
    BY <1>5 DEF Step, RequestWarn, CommandWarn, EnterWarn, Count, Create, Audit, Timeout, Mark,
       history, RequestUnwarn, CommandUnwarn, List, Choose, EnterChoice, Verify, Delete, Log, Fails
  <2>5. QED  BY <1>5, <2>2, <2>3, <2>4
<1>6. QED  BY <1>4, <1>5 DEF DueInv

\* Saving the configuration changes nothing of the warnings.
LEMMA SameWarnings ==
  ASSUME ModerationInv, UNCHANGED <<rows, vm, proc, history>>
  PROVE  PlacesInv' /\ LockInv' /\ UndoneInv' /\ CountInv' /\ DueInv'
<1>1. UNCHANGED <<rows, vm, proc, top, peak, due, undone>>
  BY DEF history
<1>2. PlacesInv'
  BY <1>1 DEF ModerationInv, PlacesInv, PlaceOK
<1>3. LockInv' /\ UndoneInv'
  BY <1>1 DEF ModerationInv, LockInv, UndoneInv
<1>4. CountInv'
  BY <1>1 DEF ModerationInv, CountInv, Writing, WarningsOf
<1>5. \A m : Cardinality(WarningsOf(m))' = Cardinality(WarningsOf(m))
  BY <1>1 DEF WarningsOf
<1>6. \A p \in Process : Reached(p)' <=> Reached(p)
  BY <1>1 DEF Reached
<1>7. DueInv'
  BY <1>1, <1>5, <1>6 DEF ModerationInv, DueInv, WarningsOf
<1>8. QED  BY <1>2, <1>3, <1>4, <1>7

LEMMA ModerationKept ==
  ASSUME ModerationInv, [Next]_vars
  PROVE  ModerationInv'
<1> USE DEF ModerationInv
<1>1. CASE UNCHANGED vars
  <2>1. UNCHANGED <<rows, vm, proc, history>> /\ UNCHANGED <<stored, saves>>
    BY <1>1 DEF vars, history
  <2>2. TypeOK'
    BY <2>1 DEF history, TypeOK
  <2>3. QED  BY <2>1, <2>2, SameWarnings
<1>2. CASE \E p \in Process : Step(p)
  BY <1>2, StepType, StepPlaces, StepLock, StepUndone, StepCount, StepDue
<1>3. CASE Saves
  <2>1. PICK enabled \in BOOLEAN, commands \in Offered, limit \in Asked, threshold \in Asked :
          Save(enabled, commands, limit, threshold)
    BY <1>3 DEF Saves
  <2>2. stored' \in Config
    BY <2>1, WrittenType DEF Save
  <2>3. UNCHANGED <<rows, vm, proc, history>> /\ saves < MaxSaves /\ saves' = saves + 1
    BY <2>1 DEF Save
  <2>4. saves' \in 0..MaxSaves
    BY <2>3, ModerationAssumption DEF TypeOK
  <2>5. TypeOK'
    BY <2>2, <2>3, <2>4 DEF history, TypeOK
  <2>6. QED  BY <2>3, <2>5, SameWarnings
<1>4. QED  BY <1>1, <1>2, <1>3 DEF Next

LEMMA ModerationInvariant == Spec => []ModerationInv
<1>1. Init => ModerationInv
  <2> SUFFICES ASSUME Init PROVE ModerationInv
    OBVIOUS
  <2> USE DEF Init
  <2>1. TypeOK /\ \A p \in Process : proc[p] = Idle /\ proc[p].at = "idle"
    BY ModerationAssumption, WorkIs DEF TypeOK, Idle, Work
  <2>2. PlacesInv /\ LockInv /\ UndoneInv /\ DueInv
    <3>1. \A p \in Process : proc[p].at = "idle"
      BY <2>1
    <3>2. PlacesInv
      BY <3>1 DEF PlacesInv, PlaceOK
    <3>3. LockInv /\ UndoneInv
      BY <3>1 DEF LockInv, Inside, UndoneInv, Process
    <3>4. DueInv
      BY <3>1 DEF DueInv
    <3>5. QED  BY <3>2, <3>3, <3>4
  <2>3. CountInv
    <3> SUFFICES ASSUME NEW m \in Member
                 PROVE  /\ Cardinality(Writing(m)) <= peak[m]
                        /\ Cardinality(WarningsOf(m)) + Cardinality(Writing(m)) <= top + Slack(m)
      BY DEF CountInv, Slack
    <3>1. Writing(m) = {} /\ WarningsOf(m) = {} /\ peak[m] = 0
      BY <2>1, ModerationAssumption DEF Writing, WarningsOf
    <3>2. top \in Nat
      BY <2>1, ModerationAssumption DEF TypeOK
    <3>3. QED  BY <3>1, <3>2, FS_EmptySet DEF Slack
  <2>4. QED  BY <2>1, <2>2, <2>3 DEF ModerationInv
<1>2. ModerationInv /\ [Next]_vars => ModerationInv'
  BY ModerationKept
<1>3. QED  BY <1>1, <1>2, PTL DEF Spec

\* Every reachable state of Moderation is well typed.
THEOREM ModerationTypes == Spec => []TypeOK
<1>1. ModerationInv => TypeOK
  BY DEF ModerationInv
<1>2. QED  BY <1>1, ModerationInvariant, PTL

\* Dashboard and plugin go by the same limits, and counts shared by goroutines let a
\* member pass them by no more than the most that ever shared one.
THEOREM LimitsAlwaysHold == Spec => []LimitsHold
<1>1. ModerationInv => LimitsHold
  <2> SUFFICES ASSUME ModerationInv PROVE LimitsHold
    OBVIOUS
  <2>1. ReadersAgree
    BY ReadersType DEF ReadersAgree, ModerationInv, TypeOK
  <2>2. ASSUME NEW m \in Member
        PROVE  Cardinality(WarningsOf(m)) <= top + Slack(m)
    <3>1. Cardinality(WarningsOf(m)) \in Nat /\ Cardinality(Writing(m)) \in Nat
      BY Counted DEF WarningsOf, Writing
    <3>2. /\ top \in Nat /\ peak[m] \in Nat
          /\ Cardinality(WarningsOf(m)) + Cardinality(Writing(m)) <= top + Slack(m)
      BY ModerationAssumption DEF ModerationInv, CountInv, Slack, TypeOK
    <3>3. QED  BY <3>1, <3>2 DEF Slack
  <2>3. QED  BY <2>1, <2>2 DEF LimitsHold, OvershootBounded, Slack
<1>2. QED  BY <1>1, ModerationInvariant, PTL

\* Whoever gives the warning that reaches the threshold goes on to the timeout, unless
\* a step of it fails or it shared its count.
THEOREM TimeoutsFollow == Spec => []TimeoutFollows
<1>1. ModerationInv => TimeoutFollows
  BY DEF ModerationInv, DueInv, TimeoutFollows
<1>2. QED  BY <1>1, ModerationInvariant, PTL

\* The plugin takes a warning back once, however many menus show it.
THEOREM UndoneAtMostOnce == Spec => []UndoneOnce
<1>1. ModerationInv => UndoneOnce
  BY DEF ModerationInv, UndoneInv, UndoneOnce
<1>2. QED  BY <1>1, ModerationInvariant, PTL

-----------------------------------------------------------------------------
(* Automation: for any plugins, guilds, events, answers and reloads.       *)

\* What a runner still owes is ahead of it; what it goes by was granted since it began.
RunnerOK(r) ==
    /\ runner[r].now <= clock
    /\ runner[r].at = "idle" => owed[r] = {}
    /\ runner[r].at # "idle" => runner[r].turns # <<>> /\ A!Held \subseteq could[r]
    /\ owed[r] \subseteq A!Range(runner[r].turns)
    /\ \A t \in owed[r] : runner[r].event \in A!Can(t[1])
    /\ runner[r].at \in {"allow", "send"} =>
         runner[r].actions # <<>> /\ Head(runner[r].turns) \notin owed[r]
    /\ runner[r].at \in {"call", "allow", "send"} /\ runner[r].event # "job" =>
         {A!Who(r)} \X runner[r].perms \subseteq could[r]
    /\ runner[r].at # "idle" /\ runner[r].event = "job" =>
         /\ runner[r].at # "permit"
         /\ \A t \in A!Range(runner[r].turns) : {t[1]} \X runner[r].perms \subseteq could[r]
    /\ runner[r].at = "send" => Need[Head(runner[r].actions)] \in runner[r].perms

RunnersOK == \A r \in Runner : RunnerOK(r)

\* What the bucket of a key is worth by now.
Level(k) == IF bucket[k] = None THEN A!Full
            ELSE A!Least(A!Full, bucket[k].tokens + clock - bucket[k].last)

\* The uses counted and what is left together are within the budget.
BudgetOK ==
    /\ \A k \in A!Key : bucket[k] # None => bucket[k].last <= clock
    /\ window # None =>
         window.used * Cost + Level(window.key) <= A!Full + (clock - window.from) + window.late

AutomationInv == A!ConstantsOK /\ A!TypeOK /\ RunnersOK /\ BudgetOK

LEMMA FullIs ==
  ASSUME A!ConstantsOK
  PROVE  A!Full \in Nat /\ A!Full >= Cost /\ Cost \in Nat /\ MaxClock \in Nat
<1>1. PICK n \in Nat : Burst = n + 1
  <2>1. Burst - 1 \in Nat /\ Burst = (Burst - 1) + 1
    BY DEF A!ConstantsOK
  <2>2. QED  BY <2>1
<1>2. Cost \in Nat /\ MaxClock \in Nat
  BY DEF A!ConstantsOK
<1>3. (n + 1) * Cost = n * Cost + Cost /\ n * Cost \in Nat
  BY <1>2
<1>4. QED  BY <1>1, <1>2, <1>3 DEF A!Full

\* The first of a sequence and the rest of it.
LEMMA HeadAndTail ==
  ASSUME NEW S, NEW s \in Seq(S), s # <<>>
  PROVE  /\ Head(s) \in S /\ Tail(s) \in Seq(S) /\ Head(s) \in A!Range(s)
         /\ A!Range(Tail(s)) \subseteq A!Range(s)
         /\ A!Range(s) \subseteq A!Range(Tail(s)) \cup {Head(s)}
<1>1. Head(s) \in S /\ Tail(s) \in Seq(S) /\ 1 \in DOMAIN s /\ s[1] = Head(s)
  OBVIOUS
<1>2. \A i \in DOMAIN Tail(s) : i + 1 \in DOMAIN s /\ Tail(s)[i] = s[i + 1]
  OBVIOUS
<1>3. \A i \in DOMAIN s : i # 1 => i - 1 \in DOMAIN Tail(s) /\ Tail(s)[i - 1] = s[i]
  OBVIOUS
<1>4. A!Range(Tail(s)) \subseteq A!Range(s)
  BY <1>2 DEF A!Range
<1>5. A!Range(s) \subseteq A!Range(Tail(s)) \cup {Head(s)}
  <2> SUFFICES ASSUME NEW i \in DOMAIN s, i # 1
               PROVE  s[i] \in A!Range(Tail(s))
    BY <1>1 DEF A!Range
  <2>1. QED  BY <1>3 DEF A!Range
<1>6. Head(s) \in A!Range(s)
  BY <1>1 DEF A!Range
<1>7. QED  BY <1>1, <1>4, <1>5, <1>6

LEMMA RunnerIs ==
  ASSUME A!ConstantsOK, A!Typed, NEW r \in Runner
  PROVE  /\ runner[r] \in A!Work /\ A!Idle \in A!Work
         /\ runner[r].event \in Event \cup {"job", None} /\ runner[r].turns \in Seq(A!Turn)
         /\ runner[r].perms \in SUBSET UNION Requests /\ runner[r].actions \in Seq(Type)
         /\ runner[r].now \in Nat /\ runner[r].now \in 0..MaxClock
         /\ clock \in Nat /\ clock \in 0..MaxClock
         /\ A!Held \subseteq Plugin \X UNION Grants
         /\ \A p \in Plugin : /\ A!Can(p) \in SUBSET UNION Requests
                               /\ {p} \X A!Can(p) \subseteq A!Held
<1>1. <<>> \in Seq(A!Turn) /\ <<>> \in Seq(Type) /\ MaxClock \in Nat
  BY FullIs
<1>2. A!Idle \in A!Work
  BY <1>1 DEF A!Idle, A!Work
<1>3. A!Held \subseteq Plugin \X UNION Grants
  BY DEF A!Held, A!Typed, A!Load
<1>4. ASSUME NEW p \in Plugin
      PROVE  A!Can(p) \in SUBSET UNION Requests /\ {p} \X A!Can(p) \subseteq A!Held
  <2>1. CASE loaded[p] = None
    BY <2>1 DEF A!Can
  <2>2. CASE loaded[p] # None
    <3>1. loaded[p].requested \in Requests /\ A!Can(p) = loaded[p].requested \cap loaded[p].granted
      BY <2>2 DEF A!Typed, A!Load, A!Can, A!Effective
    <3>2. {p} \X loaded[p].granted \subseteq A!Held
      BY <2>2 DEF A!Held
    <3>3. QED  BY <3>1, <3>2
  <2>3. QED  BY <2>1, <2>2
<1>5. QED  BY <1>1, <1>2, <1>3, <1>4 DEF A!Typed, A!Work

\* On to the next turn of a runner.
LEMMA PassesTo ==
  ASSUME A!ConstantsOK, A!Typed, NEW r \in Runner, A!Passes(r)
  PROVE  /\ runner' \in [Runner -> A!Work] /\ could' \in [Runner -> SUBSET (Plugin \X UNION Grants)]
         /\ \A q \in Runner \ {r} : runner'[q] = runner[q] /\ could'[q] = could[q]
         /\ runner'[r].now = 0
         /\ \/ Tail(runner[r].turns) = <<>> /\ runner'[r] = A!Idle
            \/ /\ Tail(runner[r].turns) # <<>> /\ runner'[r].turns = Tail(runner[r].turns)
               /\ runner'[r].event = runner[r].event /\ could' = could
               /\ runner'[r].at = (IF runner[r].event = "job" THEN "call" ELSE "permit")
               /\ runner[r].event = "job" => runner'[r].perms = runner[r].perms
<1> DEFINE rest == Tail(runner[r].turns)
           job == [runner[r] EXCEPT !.at = "call", !.turns = rest, !.actions = <<>>, !.now = 0]
           event == [A!Idle EXCEPT !.at = "permit", !.event = runner[r].event, !.turns = rest]
           next == IF runner[r].event = "job" THEN job ELSE event
<1>1. /\ runner' = [runner EXCEPT ![r] = IF rest = <<>> THEN A!Idle ELSE next]
      /\ could' = IF rest = <<>> THEN [could EXCEPT ![r] = {}] ELSE could
  BY DEF A!Passes
<1>2. runner[r].turns # <<>> => rest \in Seq(A!Turn)
  BY RunnerIs
<1>3. could' \in [Runner -> SUBSET (Plugin \X UNION Grants)]
      /\ \A q \in Runner \ {r} : could'[q] = could[q]
  BY <1>1 DEF A!Typed
<1>4. CASE rest = <<>>
  BY <1>1, <1>3, <1>4, RunnerIs DEF A!Typed, A!Idle
<1>5. CASE rest # <<>>
  <2>1. rest \in Seq(A!Turn) /\ 0 \in 0..MaxClock /\ <<>> \in Seq(Type)
    BY <1>2, <1>5, FullIs, RunnerIs
  <2>2. /\ job \in A!Work /\ job.at = "call" /\ job.turns = rest /\ job.event = runner[r].event
        /\ job.now = 0 /\ job.perms = runner[r].perms
    <3> HIDE DEF rest
    <3>1. QED  BY <2>1, RunnerIs DEF A!Work
  <2>3. /\ event \in A!Work /\ event.at = "permit" /\ event.turns = rest
        /\ event.event = runner[r].event /\ event.now = 0
    <3> HIDE DEF rest
    <3>1. QED  BY <2>1, RunnerIs DEF A!Work, A!Idle
  <2>4. runner' = [runner EXCEPT ![r] = next] /\ could' = could
    BY <1>1, <1>5
  <2>5. /\ next \in A!Work /\ next.turns = rest /\ next.event = runner[r].event /\ next.now = 0
        /\ next.at = (IF runner[r].event = "job" THEN "call" ELSE "permit")
        /\ runner[r].event = "job" => next.perms = runner[r].perms
    <3> HIDE DEF job, event, rest
    <3>1. QED  BY <2>2, <2>3
  <2> HIDE DEF next
  <2>6. QED  BY <1>3, <1>5, <2>4, <2>5 DEF A!Typed
<1>6. QED  BY <1>4, <1>5

LEMMA ProceedsTo ==
  ASSUME A!ConstantsOK, A!Typed, NEW r \in Runner, NEW actions \in Seq(Type), actions # <<>>,
         A!Proceeds(r, actions)
  PROVE  /\ runner' \in [Runner -> A!Work] /\ could' = could
         /\ \A q \in Runner \ {r} : runner'[q] = runner[q]
         /\ runner'[r].at = "allow" /\ runner'[r].actions = actions /\ runner'[r].now = clock
         /\ runner'[r].turns = runner[r].turns /\ runner'[r].event = runner[r].event
         /\ runner'[r].perms = runner[r].perms
<1> DEFINE w == [runner[r] EXCEPT !.at = "allow", !.actions = actions, !.now = clock]
<1>1. /\ w \in A!Work /\ w.at = "allow" /\ w.actions = actions /\ w.now = clock
      /\ w.turns = runner[r].turns /\ w.event = runner[r].event /\ w.perms = runner[r].perms
  BY RunnerIs DEF A!Work
<1>2. runner \in [Runner -> A!Work]
  BY DEF A!Typed
<1>3. runner' = [runner EXCEPT ![r] = w] /\ could' = could
  BY <1>2 DEF A!Proceeds
<1> HIDE DEF w
<1>4. QED  BY <1>1, <1>2, <1>3

\* What a runner that does nothing owes and was granted is as before.
LEMMA OthersRun ==
  ASSUME A!ConstantsOK, A!Typed, RunnersOK, A!Typed', UNCHANGED loaded, clock' >= clock,
         NEW q \in Runner, runner'[q] = runner[q], owed'[q] = owed[q], could'[q] = could[q]
  PROVE  RunnerOK(q)'
<1>1. RunnerOK(q)
  BY DEF RunnersOK
<1>2. /\ runner[q].now \in Nat /\ clock \in Nat /\ clock' \in Nat
  BY RunnerIs, FullIs DEF A!Typed
<1>3. A!Held' = A!Held /\ A!Who(q)' = A!Who(q) /\ \A p : A!Can(p)' = A!Can(p)
  BY DEF A!Held, A!Who, A!Can
<1>4. runner'[q].now <= clock'
  BY <1>1, <1>2 DEF RunnerOK
<1>5. QED  BY <1>1, <1>3, <1>4 DEF RunnerOK

\* Going on to the next turn, whose one before is owed no longer.
LEMMA PassesRun ==
  ASSUME A!ConstantsOK, A!Typed, RunnersOK, UNCHANGED <<loaded, clock>>,
         NEW r \in Runner, A!Passes(r), runner[r].at # "idle",
         owed'[r] \subseteq owed[r] \ {Head(runner[r].turns)}
  PROVE  RunnerOK(r)'
<1> DEFINE rest == Tail(runner[r].turns)
<1>1. RunnerOK(r)
  BY DEF RunnersOK
<1>2. /\ A!Range(rest) \subseteq A!Range(runner[r].turns)
      /\ A!Range(runner[r].turns) \subseteq A!Range(rest) \cup {Head(runner[r].turns)}
  BY <1>1, HeadAndTail, RunnerIs DEF RunnerOK
<1>3. owed'[r] \subseteq A!Range(rest) /\ owed'[r] \subseteq owed[r]
  BY <1>1, <1>2 DEF RunnerOK
<1>4. A!Held' = A!Held /\ \A p : A!Can(p)' = A!Can(p)
  BY DEF A!Held, A!Can
<1>5. runner'[r].now = 0 /\ 0 <= clock'
  BY PassesTo, RunnerIs
<1>6. CASE rest = <<>> /\ runner'[r] = A!Idle
  <2>1. A!Range(rest) = {}
    BY <1>6 DEF A!Range
  <2>2. /\ owed'[r] = {} /\ runner'[r].at = "idle"
    BY <1>3, <1>6, <2>1 DEF A!Idle
  <2>3. QED  BY <1>5, <2>2 DEF RunnerOK
<1>7. CASE /\ rest # <<>> /\ runner'[r].turns = rest
           /\ runner'[r].event = runner[r].event /\ could' = could
           /\ runner'[r].at = (IF runner[r].event = "job" THEN "call" ELSE "permit")
           /\ runner[r].event = "job" => runner'[r].perms = runner[r].perms
  <2>1. runner'[r].at \in {"call", "permit"}
    BY <1>7
  <2>2. A!Held' \subseteq could'[r] /\ runner'[r].turns # <<>>
    BY <1>1, <1>4, <1>7 DEF RunnerOK
  <2>3. owed'[r] \subseteq A!Range(runner'[r].turns)
        /\ \A t \in owed'[r] : runner'[r].event \in A!Can(t[1])'
    <3>1. \A t \in owed[r] : runner[r].event \in A!Can(t[1])
      BY <1>1 DEF RunnerOK
    <3>2. \A t \in owed'[r] : A!Can(t[1])' = A!Can(t[1])
      BY DEF A!Can
    <3> HIDE DEF rest
    <3>3. QED  BY <1>3, <1>7, <3>1, <3>2
  <2>4. runner'[r].at = "call" => runner'[r].event = "job"
    BY <1>7
  <2>5. runner'[r].event = "job" =>
          /\ runner'[r].at # "permit"
          /\ \A t \in A!Range(runner'[r].turns) : {t[1]} \X runner'[r].perms \subseteq could'[r]
    BY <1>1, <1>2, <1>7 DEF RunnerOK
  <2>6. QED  BY <1>5, <2>1, <2>2, <2>3, <2>4, <2>5 DEF RunnerOK
<1>8. QED  BY <1>6, <1>7, PassesTo

\* Going on to the next action of the answer to the call at hand, or past the last.
LEMMA ProceedsRun ==
  ASSUME A!ConstantsOK, A!Typed, RunnersOK, UNCHANGED <<loaded, clock>>,
         NEW r \in Runner, NEW actions \in Seq(Type), A!Proceeds(r, actions),
         runner[r].at \in {"call", "allow", "send"},
         owed'[r] \subseteq owed[r] \ {Head(runner[r].turns)}
  PROVE  RunnerOK(r)'
<1>1. CASE actions = <<>>
  BY <1>1, PassesRun DEF A!Proceeds
<1>2. CASE actions # <<>>
  <2>1. RunnerOK(r)
    BY DEF RunnersOK
  <2>2. A!Held' = A!Held
    BY DEF A!Held
  <2>3. \A p : A!Can(p)' = A!Can(p)
    BY DEF A!Can
  <2>4. /\ runner'[r].at = "allow" /\ runner'[r].actions # <<>> /\ runner'[r].now = clock
        /\ runner'[r].turns = runner[r].turns /\ runner'[r].event = runner[r].event
        /\ runner'[r].perms = runner[r].perms /\ could' = could
    BY <1>2, ProceedsTo
  <2>5. runner'[r].now <= clock' /\ runner'[r].turns # <<>> /\ A!Held' \subseteq could'[r]
    BY <2>1, <2>2, <2>4, RunnerIs DEF RunnerOK
  <2>6. /\ owed'[r] \subseteq A!Range(runner'[r].turns) /\ Head(runner'[r].turns) \notin owed'[r]
        /\ \A t \in owed'[r] : runner'[r].event \in A!Can(t[1])
    BY <2>1, <2>4 DEF RunnerOK
  <2>7. runner'[r].event # "job" => {A!Who(r)'} \X runner'[r].perms \subseteq could'[r]
    BY <2>1, <2>4 DEF RunnerOK, A!Who
  <2>8. runner'[r].event = "job" =>
          \A t \in A!Range(runner'[r].turns) : {t[1]} \X runner'[r].perms \subseteq could'[r]
    BY <2>1, <2>4 DEF RunnerOK
  <2>9. QED  BY <2>3, <2>4, <2>5, <2>6, <2>7, <2>8 DEF RunnerOK
<1>3. QED  BY <1>1, <1>2

\* A goroutine begins: it owes what is ahead and allowed by now.
LEMMA BeginsRun ==
  ASSUME A!ConstantsOK, A!Typed, RunnersOK, NEW r \in Runner, NEW work \in A!Work,
         A!Begins(r, work), work.turns # <<>>, work.now = 0, work.at \in {"permit", "call"},
         work.at = "permit" => work.event # "job",
         work.at = "call" => /\ work.event = "job"
                             /\ \A t \in A!Range(work.turns) : {t[1]} \X work.perms \subseteq A!Held
  PROVE  A!Typed' /\ RunnersOK'
<1>1. /\ UNCHANGED <<loaded, on, clock, bucket, reloads, window>>
      /\ runner' = [runner EXCEPT ![r] = work] /\ could' = [could EXCEPT ![r] = A!Held]
      /\ owed' = [owed EXCEPT ![r] = {t \in A!Range(work.turns) : work.event \in A!Can(t[1])}]
  BY DEF A!Begins
<1>2. A!Range(work.turns) \subseteq A!Turn
  BY DEF A!Work, A!Range
<1>3. A!Typed'
  BY <1>1, <1>2, RunnerIs DEF A!Typed
<1>4. A!Held' = A!Held
  BY <1>1 DEF A!Held
<1>5. \A p : A!Can(p)' = A!Can(p)
  BY <1>1 DEF A!Can
<1>6. /\ runner'[r] = work /\ could'[r] = A!Held
      /\ owed'[r] = {t \in A!Range(work.turns) : work.event \in A!Can(t[1])}
  BY <1>1 DEF A!Typed
<1>7. RunnerOK(r)'
  <2>1. work.now <= clock'
    BY <1>1, RunnerIs
  <2>2. work.at = "call" =>
          \A t \in A!Range(work.turns) : {t[1]} \X work.perms \subseteq A!Held
    OBVIOUS
  <2>3. QED  BY <1>4, <1>5, <1>6, <2>1, <2>2 DEF RunnerOK
<1>8. ASSUME NEW q \in Runner, q # r  PROVE RunnerOK(q)'
  <2>1. runner'[q] = runner[q] /\ owed'[q] = owed[q] /\ could'[q] = could[q] /\ clock' >= clock
    BY <1>1, <1>8, RunnerIs DEF A!Typed
  <2>2. QED  BY <1>1, <1>3, <2>1, OthersRun
<1>9. QED  BY <1>3, <1>7, <1>8 DEF RunnersOK

LEMMA FireRun ==
  ASSUME A!ConstantsOK, A!TypeOK, RunnersOK, NEW r \in Runner, NEW e \in Event,
         NEW g \in A!Range(guilds), A!Fire(r, e, g)
  PROVE  A!Typed' /\ RunnersOK'
<1> DEFINE turns(f) == [i \in DOMAIN f |-> <<plugins[f[i]], g>>]
           work(f) == [A!Idle EXCEPT !.at = "permit", !.event = e, !.turns = turns(f)]
<1>1. PICK n \in DOMAIN plugins : \E f \in [1..n -> DOMAIN plugins] : A!Begins(r, work(f))
  BY DEF A!Fire
<1>2. PICK f \in [1..n -> DOMAIN plugins] : A!Begins(r, work(f))
  BY <1>1
<1>3. n \in Nat \ {0} /\ plugins \in Seq(Plugin) /\ guilds \in Seq(Guilds) /\ A!Typed
  BY DEF A!ConstantsOK, A!TypeOK, A!setup
<1>4. turns(f) \in Seq(A!Turn) /\ turns(f) # <<>>
  <2>1. \A i \in 1..n : <<plugins[f[i]], g>> \in A!Turn
    BY <1>3 DEF A!Range, A!Turn
  <2>2. turns(f) \in [1..n -> A!Turn]
    BY <2>1
  <2> HIDE DEF turns
  <2>3. QED  BY SMTT(30), <1>3, <2>2
<1> HIDE DEF turns
<1>5. work(f) \in A!Work /\ work(f).at = "permit" /\ work(f).event = e /\ work(f).now = 0
      /\ work(f).turns = turns(f)
  BY <1>3, <1>4, RunnerIs DEF A!Work, A!Idle
<1>6. e # "job"
  BY DEF A!ConstantsOK
<1> HIDE DEF work
<1>7. QED  BY <1>2, <1>3, <1>4, <1>5, <1>6, BeginsRun

LEMMA JobRun ==
  ASSUME A!ConstantsOK, A!TypeOK, RunnersOK, NEW r \in Runner, NEW p \in Plugin, A!RunJob(r, p)
  PROVE  A!Typed' /\ RunnersOK'
<1> DEFINE turns == [i \in DOMAIN guilds |-> <<p, guilds[i]>>]
           work == [A!Idle EXCEPT !.at = "call", !.event = "job", !.perms = A!Can(p), !.turns = turns]
<1>0. guilds \in Seq(Guilds) /\ A!Typed
  BY DEF A!ConstantsOK, A!TypeOK, A!setup
<1>1. A!Begins(r, work) /\ guilds # <<>>
  BY DEF A!RunJob
<1>2. /\ turns \in Seq(A!Turn) /\ turns # <<>>
      /\ \A i \in DOMAIN turns : turns[i] = <<p, guilds[i]>>
  <2>1. guilds \in Seq(Guilds)
    BY <1>0
  <2>2. Len(guilds) \in Nat \ {0} /\ DOMAIN guilds = 1..Len(guilds)
    BY <1>1, <2>1
  <2>3. \A i \in DOMAIN guilds : <<p, guilds[i]>> \in A!Turn
    BY <2>1 DEF A!Turn
  <2>4. turns \in [1..Len(guilds) -> A!Turn] /\ \A i \in DOMAIN turns : turns[i] = <<p, guilds[i]>>
    BY <2>2, <2>3
  <2> HIDE DEF turns
  <2>5. QED  BY <2>2, <2>4
<1>3. \A t \in A!Range(turns) : t[1] = p
  BY <1>2 DEF A!Range
<1> HIDE DEF turns
<1>4. /\ work \in A!Work /\ work.at = "call" /\ work.event = "job" /\ work.now = 0
      /\ work.turns = turns /\ work.perms = A!Can(p)
  BY <1>0, <1>2, RunnerIs DEF A!Work, A!Idle
<1> HIDE DEF work
<1>5. \A t \in A!Range(work.turns) : {t[1]} \X work.perms \subseteq A!Held
  BY <1>0, <1>3, <1>4, RunnerIs
<1>6. QED  BY <1>0, <1>1, <1>2, <1>4, <1>5, BeginsRun

LEMMA PermitRun ==
  ASSUME A!ConstantsOK, A!Typed, RunnersOK, NEW r \in Runner, A!Permit(r)
  PROVE  A!Typed' /\ RunnersOK'
<1> DEFINE may == runner[r].event \in A!Can(A!Who(r))
           w == [runner[r] EXCEPT !.at = "call", !.perms = A!Can(A!Who(r))]
<1>1. /\ UNCHANGED <<loaded, on, clock, bucket, starts, reloads, window, owed>>
      /\ runner[r].at = "permit"
  BY DEF A!Permit
<1>2. RunnerOK(r)
  BY DEF RunnersOK
<1>3. /\ Head(runner[r].turns) \in A!Turn /\ A!Who(r) \in Plugin
      /\ runner[r].turns # <<>>
  BY <1>1, <1>2, RunnerIs, HeadAndTail DEF RunnerOK, A!Who, A!Turn
<1>4. A!Typed' /\ RunnerOK(r)' /\ \A q \in Runner \ {r} : runner'[q] = runner[q] /\ could'[q] = could[q]
  <2>1. CASE may
    <3>1. A!Can(A!Who(r)) \in SUBSET UNION Requests /\ {A!Who(r)} \X A!Can(A!Who(r)) \subseteq A!Held
      BY <1>3, RunnerIs
    <3>2. /\ w \in A!Work /\ w.at = "call" /\ w.perms = A!Can(A!Who(r)) /\ w.now = runner[r].now
          /\ w.turns = runner[r].turns /\ w.event = runner[r].event
      BY <3>1, RunnerIs DEF A!Work
    <3>3. runner' = [runner EXCEPT ![r] = w] /\ could' = could
      BY <2>1 DEF A!Permit, A!Typed
    <3> HIDE DEF w
    <3>4. A!Typed' /\ runner'[r] = w /\ \A q \in Runner \ {r} : runner'[q] = runner[q]
      BY <1>1, <3>2, <3>3 DEF A!Typed
    <3>5. A!Who(r)' = A!Who(r) /\ A!Held' = A!Held
      BY <1>1, <3>2, <3>4 DEF A!Who, A!Held
    <3>6. \A p : A!Can(p)' = A!Can(p)
      BY <1>1 DEF A!Can
    <3>7. runner[r].event # "job"
      BY <1>1, <1>2 DEF RunnerOK
    <3>8. {A!Who(r)'} \X w.perms \subseteq could'[r]
      BY <1>1, <1>2, <3>1, <3>2, <3>3, <3>5 DEF RunnerOK
    <3>9. RunnerOK(r)'
      BY <1>1, <1>2, <3>2, <3>3, <3>4, <3>5, <3>6, <3>7, <3>8 DEF RunnerOK
    <3>10. QED  BY <3>3, <3>4, <3>9
  <2>2. CASE ~may
    <3>1. A!Passes(r)
      BY <2>2 DEF A!Permit
    <3>2. A!Typed'
      BY <1>1, <3>1, PassesTo DEF A!Typed
    <3>3. Head(runner[r].turns) \notin owed[r]
      BY <1>2, <2>2 DEF RunnerOK, A!Who
    <3>4. owed'[r] \subseteq owed[r] \ {Head(runner[r].turns)}
      BY <1>1, <3>3
    <3>5. RunnerOK(r)'
      BY <1>1, <3>1, <3>4, PassesRun
    <3>6. QED  BY <3>1, <3>2, <3>5, PassesTo
  <2>3. QED  BY <2>1, <2>2
<1>5. ASSUME NEW q \in Runner, q # r  PROVE RunnerOK(q)'
  <2>1. owed'[q] = owed[q] /\ clock' >= clock
    BY <1>1, RunnerIs
  <2>2. QED  BY <1>1, <1>4, <1>5, <2>1, OthersRun
<1>6. QED  BY <1>4, <1>5 DEF RunnersOK

\* A step of a runner to its next action or turn keeps the types.
LEMMA ProceedsType ==
  ASSUME A!ConstantsOK, A!Typed, NEW r \in Runner, NEW actions \in Seq(Type),
         A!Proceeds(r, actions)
  PROVE  /\ runner' \in [Runner -> A!Work]
         /\ could' \in [Runner -> SUBSET (Plugin \X UNION Grants)]
         /\ \A q \in Runner \ {r} : runner'[q] = runner[q] /\ could'[q] = could[q]
<1>1. CASE actions = <<>>
  BY <1>1, PassesTo DEF A!Proceeds
<1>2. CASE actions # <<>>
  BY <1>2, ProceedsTo DEF A!Typed
<1>3. QED  BY <1>1, <1>2

LEMMA CallRun ==
  ASSUME A!ConstantsOK, A!Typed, RunnersOK, NEW r \in Runner, A!Call(r)
  PROVE  A!Typed' /\ RunnersOK'
<1>1. /\ UNCHANGED <<loaded, on, clock, bucket, starts, reloads, window>>
      /\ runner[r].at = "call"
      /\ owed' = [owed EXCEPT ![r] = @ \ {Head(runner[r].turns)}]
  BY DEF A!Call
<1>2. /\ owed' \in [Runner -> SUBSET A!Turn]
      /\ owed'[r] = owed[r] \ {Head(runner[r].turns)}
      /\ \A q \in Runner \ {r} : owed'[q] = owed[q]
  BY <1>1 DEF A!Typed
<1>3. \/ A!Passes(r)
      \/ \E actions \in Seq(Type) : A!Proceeds(r, actions)
  BY DEF A!Call, A!Failed, A!ConstantsOK
<1>4. /\ runner' \in [Runner -> A!Work]
      /\ could' \in [Runner -> SUBSET (Plugin \X UNION Grants)]
      /\ \A q \in Runner \ {r} : runner'[q] = runner[q] /\ could'[q] = could[q]
  BY <1>3, PassesTo, ProceedsType
<1>5. A!Typed'
  BY <1>1, <1>2, <1>4 DEF A!Typed
<1>6. RunnerOK(r)'
  BY <1>1, <1>2, <1>3, PassesRun, ProceedsRun
<1>7. ASSUME NEW q \in Runner, q # r  PROVE RunnerOK(q)'
  <2>1. clock' >= clock
    BY <1>1, RunnerIs
  <2>2. QED  BY <1>1, <1>2, <1>4, <1>5, <1>7, <2>1, OthersRun
<1>8. QED  BY <1>5, <1>6, <1>7 DEF RunnersOK

LEMMA SendRun ==
  ASSUME A!ConstantsOK, A!Typed, RunnersOK, NEW r \in Runner, A!Send(r)
  PROVE  A!Typed' /\ RunnersOK'
<1>1. /\ UNCHANGED <<loaded, on, clock, bucket, starts, reloads, window, owed>>
      /\ runner[r].at = "send" /\ A!Proceeds(r, Tail(runner[r].actions))
  BY DEF A!Send
<1>2. RunnerOK(r)
  BY DEF RunnersOK
<1>3. Tail(runner[r].actions) \in Seq(Type)
  BY <1>1, <1>2, RunnerIs, HeadAndTail DEF RunnerOK
<1>4. A!Typed'
  BY <1>1, <1>3, ProceedsType DEF A!Typed
<1>5. owed'[r] \subseteq owed[r] \ {Head(runner[r].turns)}
  BY <1>1, <1>2 DEF RunnerOK
<1>6. RunnerOK(r)'
  BY <1>1, <1>3, <1>5, ProceedsRun
<1>7. ASSUME NEW q \in Runner, q # r  PROVE RunnerOK(q)'
  <2>1. owed'[q] = owed[q] /\ clock' >= clock
    BY <1>1, RunnerIs
  <2>2. QED  BY <1>1, <1>3, <1>4, <1>7, <2>1, OthersRun, ProceedsType
<1>8. QED  BY <1>4, <1>6, <1>7 DEF RunnersOK

\* What is saved by the time a goroutine read is no more than the bucket is worth by
\* now, and what it leaves behind, by the time it read, is worth no more either.
LEMMA SavedIs ==
  ASSUME A!ConstantsOK, NEW b \in A!Bucket, NEW now \in Nat, NEW c \in Nat, now <= c, b.last <= c
  PROVE  /\ A!Saved(b, now) \in 0..A!Full
         /\ A!Saved(b, now) <= A!Least(A!Full, b.tokens + c - b.last)
<1>1. /\ b.tokens \in Nat /\ b.tokens <= A!Full /\ b.last \in Nat /\ A!Full \in Nat
  BY FullIs DEF A!Bucket
<1>2. QED  BY <1>1 DEF A!Saved, A!Least

\* A use or a refusal: what the bucket of the key becomes.
LEMMA BucketGoesTo ==
  ASSUME A!ConstantsOK, A!Typed, RunnersOK, BudgetOK, NEW r \in Runner, A!Allow(r),
         NEW k \in A!Key, k = A!KeyOf(r)
  PROVE  LET late == clock - runner[r].now
             enough == bucket[k] = None \/ A!Saved(bucket[k], runner[r].now) >= Cost
         IN  /\ bucket' \in [A!Key -> A!Bucket \cup {None}]
             /\ \A q \in A!Key : q # k => bucket'[q] = bucket[q]
             /\ bucket'[k] # None => bucket'[k].last = runner[r].now
             /\ late \in Nat
             /\ enough => Level(k)' + Cost <= Level(k) + late
             /\ ~enough => Level(k)' <= Level(k) + late
<1> DEFINE b == bucket[k]
           now == runner[r].now
           late == clock - now
           saved == A!Saved(b, now)
           enough == b = None \/ saved >= Cost
           new == IF b = None THEN [tokens |-> A!Full - Cost, last |-> now]
                  ELSE IF enough THEN A!Used(b, now) ELSE A!Refused(b, now)
<1>1. now \in Nat /\ now \in 0..MaxClock /\ clock \in Nat /\ now <= clock
  BY RunnerIs DEF RunnersOK, RunnerOK
<1>2. late \in Nat
  BY <1>1
<1>3. bucket' = [bucket EXCEPT ![k] = new] /\ clock' = clock
  BY DEF A!Allow
<1>4. b \in A!Bucket \cup {None}
  BY DEF A!Typed
<1>5. b # None => /\ saved \in 0..A!Full /\ b.last <= clock
                  /\ saved <= A!Least(A!Full, b.tokens + clock - b.last)
  BY <1>1, <1>4, SavedIs DEF BudgetOK
<1>6. /\ A!Full \in Nat /\ Cost \in Nat /\ A!Full >= Cost
  BY FullIs
<1>7. b = None => new.tokens = A!Full - Cost /\ new.last = now /\ new \in A!Bucket
  BY <1>1, <1>6 DEF A!Bucket
<1>8. b # None /\ enough => new.tokens = saved - Cost /\ new.last = now /\ new \in A!Bucket
  <2> SUFFICES ASSUME b # None, enough
               PROVE  new.tokens = saved - Cost /\ new.last = now /\ new \in A!Bucket
    OBVIOUS
  <2>1. new = [tokens |-> saved - Cost, last |-> now]
    BY DEF A!Used
  <2>2. saved - Cost \in 0..A!Full
    <3> HIDE DEF saved
    <3>1. QED  BY <1>5, <1>6
  <2> HIDE DEF new, saved
  <2>3. QED  BY <1>1, <2>1, <2>2 DEF A!Bucket
<1>9. b # None /\ ~enough => new.tokens = saved /\ new.last = now /\ new \in A!Bucket
  <2> SUFFICES ASSUME b # None, ~enough
               PROVE  new.tokens = saved /\ new.last = now /\ new \in A!Bucket
    OBVIOUS
  <2>1. new = [tokens |-> saved, last |-> now]
    BY DEF A!Refused
  <2> HIDE DEF new, saved
  <2>2. QED  BY <1>1, <1>5, <2>1 DEF A!Bucket
<1>10. Level(k) = IF b = None THEN A!Full ELSE A!Least(A!Full, b.tokens + clock - b.last)
  BY DEF Level
<1> HIDE DEF new
<1>11. /\ bucket'[k] = new /\ \A q \in A!Key : q # k => bucket'[q] = bucket[q]
       /\ bucket' \in [A!Key -> A!Bucket \cup {None}] /\ new.last = now
  BY <1>3, <1>7, <1>8, <1>9 DEF A!Typed
<1>12. bucket'[k] # None /\ new.tokens \in Nat
  BY <1>7, <1>8, <1>9, <1>11, <1>6 DEF A!Bucket, A!ConstantsOK
<1>13. Level(k)' = A!Least(A!Full, new.tokens + late)
  <2>1. Level(k)' = A!Least(A!Full, new.tokens + clock' - new.last)
    BY <1>3, <1>11, <1>12 DEF Level
  <2>2. new.tokens + clock' - new.last = new.tokens + late
    BY <1>1, <1>3, <1>11, <1>12
  <2>3. QED  BY <2>1, <2>2
<1>14. Level(k) \in Nat /\ (b # None => saved <= Level(k))
  BY <1>1, <1>4, <1>5, <1>6, <1>10 DEF A!Least, A!Bucket
<1>15. enough => Level(k)' + Cost <= Level(k) + late
  <2>1. CASE b = None
    BY <1>2, <1>6, <1>7, <1>10, <1>13, <2>1 DEF A!Least
  <2>2. CASE b # None /\ enough
    <3>1. new.tokens = saved - Cost /\ saved \in Nat
      BY <1>5, <1>6, <1>8, <2>2
    <3> HIDE DEF saved, late
    <3>2. QED  BY <1>2, <1>6, <1>12, <1>13, <1>14, <2>2, <3>1 DEF A!Least
  <2>3. QED  BY <2>1, <2>2
<1>16. ~enough => Level(k)' <= Level(k) + late
  <2> SUFFICES ASSUME ~enough  PROVE Level(k)' <= Level(k) + late
    OBVIOUS
  <2>1. b # None /\ new.tokens = saved /\ saved \in Nat
    BY <1>5, <1>6, <1>9
  <2> HIDE DEF saved, late
  <2>2. QED  BY <1>2, <1>6, <1>12, <1>13, <1>14, <2>1 DEF A!Least
<1> HIDE DEF saved, enough
<1>17. QED  BY <1>2, <1>11, <1>15, <1>16 DEF enough, saved

\* The budget of the key one counts holds over a use or a refusal.
LEMMA AllowBudget ==
  ASSUME A!ConstantsOK, A!Typed, RunnersOK, BudgetOK, NEW r \in Runner, A!Allow(r)
  PROVE  /\ bucket' \in [A!Key -> A!Bucket \cup {None}] /\ BudgetOK'
         /\ \/ window' = None
            \/ window' \in [key : A!Key, from : 0..MaxClock, used : Nat, late : Nat]
<1> DEFINE late == clock - runner[r].now
           enough(k) == bucket[k] = None \/ A!Saved(bucket[k], runner[r].now) >= Cost
<1>1. clock' = clock /\ runner[r].now \in Nat /\ clock \in Nat /\ runner[r].now <= clock
  BY RunnerIs DEF A!Allow, RunnersOK, RunnerOK
<1>2. late \in Nat /\ Cost \in Nat /\ A!Full \in Nat
  BY <1>1, FullIs
<1>3. \A q \in A!Key : q # A!KeyOf(r) => bucket'[q] = bucket[q]
  BY DEF A!Allow, A!Typed
<1>4. ASSUME NEW k \in A!Key, k = A!KeyOf(r)
      PROVE  /\ bucket' \in [A!Key -> A!Bucket \cup {None}]
             /\ bucket'[k] # None => bucket'[k].last = runner[r].now
             /\ enough(k) => Level(k)' + Cost <= Level(k) + late
             /\ ~enough(k) => Level(k)' <= Level(k) + late
  BY <1>4, BucketGoesTo
<1>5. bucket' \in [A!Key -> A!Bucket \cup {None}]
  <2>1. CASE A!KeyOf(r) \in A!Key
    BY <1>4, <2>1
  <2>2. CASE A!KeyOf(r) \notin A!Key
    BY <2>2 DEF A!Allow, A!Typed
  <2>3. QED  BY <2>1, <2>2
<1>6. ASSUME NEW k \in A!Key, bucket'[k] # None  PROVE bucket'[k].last <= clock'
  <2>1. CASE k = A!KeyOf(r)
    BY <1>1, <1>4, <1>6, <2>1
  <2>2. CASE k # A!KeyOf(r)
    BY <1>1, <1>3, <1>6, <2>2 DEF BudgetOK
  <2>3. QED  BY <2>1, <2>2
<1>7. ASSUME NEW k \in A!Key  PROVE Level(k) \in Nat /\ Level(k)' \in Nat
  <2>1. \A b \in A!Bucket : b.tokens \in Nat /\ b.last \in Nat
    BY <1>2 DEF A!Bucket
  <2>2. Level(k) \in Nat
    BY <1>1, <1>2, <2>1 DEF Level, A!Least, BudgetOK, A!Typed
  <2>3. Level(k)' \in Nat
    <3>1. Level(k)' = IF bucket'[k] = None THEN A!Full
                      ELSE A!Least(A!Full, bucket'[k].tokens + clock' - bucket'[k].last)
      BY DEF Level
    <3>2. bucket'[k] # None => bucket'[k] \in A!Bucket
      BY <1>5
    <3>3. QED  BY <1>1, <1>2, <1>6, <2>1, <3>1, <3>2 DEF A!Least
  <2>4. QED  BY <2>2, <2>3
<1>8. CASE window = None \/ window.key # A!KeyOf(r)
  <2>1. window' = window
    BY <1>8 DEF A!Allow
  <2>2. window # None => /\ window \in [key : A!Key, from : 0..MaxClock, used : Nat, late : Nat]
                         /\ Level(window.key)' = Level(window.key)
    <3> SUFFICES ASSUME window # None
                 PROVE  /\ window \in [key : A!Key, from : 0..MaxClock, used : Nat, late : Nat]
                        /\ Level(window.key)' = Level(window.key)
      OBVIOUS
    <3>1. window \in [key : A!Key, from : 0..MaxClock, used : Nat, late : Nat]
      BY DEF A!Typed
    <3>2. PICK k \in A!Key : k = window.key
      BY <3>1
    <3>3. bucket'[k] = bucket[k] /\ clock' = clock
      BY <1>1, <1>3, <1>8, <3>2
    <3>4. window'.key = k
      BY <2>1, <3>2
    <3>5. QED  BY <3>1, <3>2, <3>3, <3>4 DEF Level
  <2>3. BudgetOK'
    BY <1>1, <1>6, <2>1, <2>2 DEF BudgetOK
  <2>4. QED  BY <1>5, <2>1, <2>2, <2>3
<1>9. CASE window # None /\ window.key = A!KeyOf(r)
  <2>1. window \in [key : A!Key, from : 0..MaxClock, used : Nat, late : Nat]
    BY <1>9 DEF A!Typed
  <2>2. PICK k \in A!Key : k = window.key /\ k = A!KeyOf(r)
    BY <1>9, <2>1
  <2>3. window' = [window EXCEPT !.used = IF enough(k) THEN @ + 1 ELSE @, !.late = @ + clock - runner[r].now]
    BY <1>9, <2>2 DEF A!Allow
  <2>4. window.late + clock - runner[r].now = window.late + late /\ window.late + late \in Nat
    BY <1>1, <1>2, <2>1
  <2>5. /\ window'.key = k /\ window'.from = window.from /\ window'.late = window.late + late
        /\ window'.used = IF enough(k) THEN window.used + 1 ELSE window.used
        /\ window' \in [key : A!Key, from : 0..MaxClock, used : Nat, late : Nat]
    <3> DEFINE uses == IF enough(k) THEN window.used + 1 ELSE window.used
    <3>1. uses \in Nat
      BY <2>1
    <3>2. /\ window'.key = window.key /\ window'.from = window.from
          /\ window'.late = window.late + clock - runner[r].now /\ window'.used = uses
      <4> HIDE DEF enough
      <4>1. QED  BY <2>1, <2>3
    <3> HIDE DEF late, uses
    <3>3. window' \in [key : A!Key, from : 0..MaxClock, used : Nat, late : Nat]
      <4> HIDE DEF enough
      <4>1. window.late + clock - runner[r].now \in Nat
        BY <2>4
      <4>2. window' = [window EXCEPT !.used = uses, !.late = window.late + clock - runner[r].now]
        BY <2>1, <2>3 DEF uses
      <4>3. QED  BY <2>1, <3>1, <4>1, <4>2
    <3>4. QED  BY <2>2, <2>4, <3>2, <3>3 DEF uses
  <2>6. window.used * Cost + Level(k) <= A!Full + (clock - window.from) + window.late
    BY <1>9, <2>2 DEF BudgetOK
  <2>7. window'.used * Cost + Level(k)' <= A!Full + (clock - window.from) + window'.late
    <3>1. /\ window.used \in Nat /\ window.from \in Nat /\ window.late \in Nat
          /\ window.used * Cost \in Nat /\ (window.used + 1) * Cost = window.used * Cost + Cost
      BY <1>2, <2>1
    <3>2. Level(k) \in Nat /\ Level(k)' \in Nat
      BY <1>7
    <3>3. CASE enough(k)
      <4>1. window'.used * Cost = window.used * Cost + Cost /\ Level(k)' + Cost <= Level(k) + late
        BY <1>4, <2>2, <2>5, <3>1, <3>3
      <4> HIDE DEF late
      <4>2. QED  BY <1>1, <1>2, <2>5, <2>6, <3>1, <3>2, <4>1
    <3>4. CASE ~enough(k)
      <4>1. window'.used = window.used /\ Level(k)' <= Level(k) + late
        BY <1>4, <2>2, <2>5, <3>4
      <4> HIDE DEF late
      <4>2. QED  BY <1>1, <1>2, <2>5, <2>6, <3>1, <3>2, <4>1
    <3>5. QED  BY <3>3, <3>4
  <2>8. Level(window.key)' = Level(k)'
    BY <2>5 DEF Level
  <2>9. BudgetOK'
    BY <1>1, <1>6, <2>5, <2>7, <2>8 DEF BudgetOK
  <2>10. QED  BY <1>5, <2>5, <2>9
<1>10. QED  BY <1>8, <1>9

LEMMA AllowRun ==
  ASSUME A!ConstantsOK, A!Typed, RunnersOK, BudgetOK, NEW r \in Runner, A!Allow(r)
  PROVE  A!Typed' /\ RunnersOK'
<1>1. /\ UNCHANGED <<loaded, on, clock, starts, reloads, owed>> /\ runner[r].at = "allow"
  BY DEF A!Allow
<1>2. RunnerOK(r) /\ runner[r].actions # <<>>
  BY <1>1 DEF RunnersOK, RunnerOK
<1>3. Tail(runner[r].actions) \in Seq(Type)
  BY <1>2, RunnerIs, HeadAndTail
<1>4. CASE A!Proceeds(r, Tail(runner[r].actions))
  <2>1. A!Typed'
    BY <1>1, <1>3, <1>4, AllowBudget, ProceedsType DEF A!Typed
  <2>2. owed'[r] \subseteq owed[r] \ {Head(runner[r].turns)}
    BY <1>1, <1>2 DEF RunnerOK
  <2>3. RunnerOK(r)'
    BY <1>1, <1>3, <1>4, <2>2, ProceedsRun
  <2>4. ASSUME NEW q \in Runner, q # r  PROVE RunnerOK(q)'
    <3>1. owed'[q] = owed[q] /\ clock' >= clock
      BY <1>1, RunnerIs
    <3>2. QED  BY <1>1, <1>3, <1>4, <2>1, <2>4, <3>1, OthersRun, ProceedsType
  <2>5. QED  BY <2>1, <2>3, <2>4 DEF RunnersOK
<1>5. CASE /\ runner' = [runner EXCEPT ![r].at = "send", ![r].now = 0] /\ could' = could
           /\ Need[Head(runner[r].actions)] \in runner[r].perms
  <2> DEFINE w == [runner[r] EXCEPT !.at = "send", !.now = 0]
  <2>1. /\ w \in A!Work /\ w.at = "send" /\ w.now = 0 /\ w.turns = runner[r].turns
        /\ w.event = runner[r].event /\ w.perms = runner[r].perms /\ w.actions = runner[r].actions
    <3>1. 0 \in 0..MaxClock
      BY FullIs
    <3>2. QED  BY <3>1, RunnerIs DEF A!Work
  <2>2. runner' = [runner EXCEPT ![r] = w]
    BY <1>5 DEF A!Typed
  <2> HIDE DEF w
  <2>3. A!Typed' /\ runner'[r] = w /\ \A q \in Runner \ {r} : runner'[q] = runner[q]
    BY ZenonT(40), <1>1, <1>5, <2>1, <2>2, AllowBudget DEF A!Typed
  <2>4. A!Who(r)' = A!Who(r) /\ A!Held' = A!Held
    BY <1>1, <2>1, <2>3 DEF A!Who, A!Held
  <2>5. \A p : A!Can(p)' = A!Can(p)
    BY <1>1 DEF A!Can
  <2>6. w.now <= clock'
    BY <1>1, <2>1, RunnerIs
  <2>7. RunnerOK(r)'
    BY ZenonT(40), <1>1, <1>2, <1>5, <2>1, <2>3, <2>4, <2>5, <2>6 DEF RunnerOK
  <2>8. ASSUME NEW q \in Runner, q # r  PROVE RunnerOK(q)'
    <3>1. owed'[q] = owed[q] /\ could'[q] = could[q] /\ clock' >= clock
      BY <1>1, <1>5, RunnerIs
    <3>2. QED  BY <1>1, <2>3, <2>8, <3>1, OthersRun
  <2>9. QED  BY <2>3, <2>7, <2>8 DEF RunnersOK
<1>6. QED  BY <1>4, <1>5 DEF A!Allow, A!Permits

LEMMA ReloadRun ==
  ASSUME A!ConstantsOK, A!Typed, RunnersOK, NEW p \in Plugin, A!Reload(p)
  PROVE  A!Typed' /\ RunnersOK'
<1>1. /\ UNCHANGED <<on, clock, bucket, runner, starts, window>>
      /\ owed' = [r \in Runner |-> {t \in owed[r] : runner[r].event \in A!Can(t[1])'}]
      /\ could' = [r \in Runner |-> IF runner[r].at = "idle" THEN {} ELSE could[r] \cup A!Held']
  BY DEF A!Reload
<1>2. loaded' \in [Plugin -> A!Load \cup {None}]
  BY DEF A!Reload, A!Typed
<1>3. A!Held' \subseteq Plugin \X UNION Grants
  BY <1>2 DEF A!Held, A!Load
<1>4. A!Typed'
  BY <1>1, <1>2, <1>3 DEF A!Typed
<1>5. ASSUME NEW r \in Runner  PROVE RunnerOK(r)'
  <2>1. /\ owed'[r] \subseteq owed[r] /\ runner'[r] = runner[r]
        /\ \A t \in owed'[r] : runner[r].event \in A!Can(t[1])'
        /\ runner[r].at # "idle" => could[r] \subseteq could'[r] /\ A!Held' \subseteq could'[r]
    BY <1>1
  <2>2. RunnerOK(r)
    BY DEF RunnersOK
  <2>3. A!Who(r)' = A!Who(r) /\ clock' = clock
    BY <1>1 DEF A!Who
  <2>4. /\ runner[r].at # "idle" => runner[r].turns # <<>>
        /\ owed'[r] \subseteq A!Range(runner[r].turns)
        /\ runner[r].at \in {"allow", "send"} =>
             runner[r].actions # <<>> /\ Head(runner[r].turns) \notin owed'[r]
        /\ runner[r].at = "idle" => owed'[r] = {}
    BY <2>1, <2>2 DEF RunnerOK
  <2>5. runner[r].at \in {"call", "allow", "send"} /\ runner[r].event # "job" =>
          {A!Who(r)} \X runner[r].perms \subseteq could'[r]
    BY <2>1, <2>2 DEF RunnerOK
  <2>6. runner[r].at # "idle" /\ runner[r].event = "job" =>
          /\ runner[r].at # "permit"
          /\ \A t \in A!Range(runner[r].turns) : {t[1]} \X runner[r].perms \subseteq could'[r]
    BY <2>1, <2>2 DEF RunnerOK
  <2>7. runner[r].now <= clock /\ (runner[r].at = "send" => Need[Head(runner[r].actions)] \in runner[r].perms)
    BY <2>2 DEF RunnerOK
  <2>8. QED  BY <2>1, <2>3, <2>4, <2>5, <2>6, <2>7 DEF RunnerOK
<1>6. QED  BY <1>4, <1>5 DEF RunnersOK

\* The world beside the runners: switching, time, and beginning to count.
LEMMA BesideRun ==
  ASSUME A!ConstantsOK, A!Typed, RunnersOK,
         \/ \E p \in Plugin : A!Switch(p)
         \/ \E k \in Watched : A!Watch(k)
         \/ A!Tick
  PROVE  A!Typed' /\ RunnersOK'
<1>1. UNCHANGED <<loaded, bucket, runner, owed, could>>
  BY DEF A!Switch, A!Watch, A!Tick
<1>2. clock' \in 0..MaxClock /\ clock' >= clock
  BY FullIs DEF A!Switch, A!Watch, A!Tick, A!Typed
<1>3. on' \subseteq Plugin
  BY DEF A!Switch, A!Watch, A!Tick, A!Typed
<1>4. window' = None \/ window' \in [key : A!Key, from : 0..MaxClock, used : Nat, late : Nat]
  BY DEF A!Switch, A!Watch, A!Tick, A!Typed, A!ConstantsOK
<1>5. A!Typed'
  BY <1>1, <1>2, <1>3, <1>4 DEF A!Typed
<1>6. \A r \in Runner : runner'[r] = runner[r] /\ owed'[r] = owed[r] /\ could'[r] = could[r]
  BY <1>1
<1>7. \A r \in Runner : RunnerOK(r)'
  BY <1>1, <1>2, <1>5, <1>6, OthersRun
<1>8. QED  BY <1>5, <1>7 DEF RunnersOK

LEMMA TickBudget ==
  ASSUME A!ConstantsOK, A!Typed, BudgetOK, A!Tick
  PROVE  BudgetOK'
<1>1. clock' = clock + 1 /\ UNCHANGED <<bucket, window>> /\ clock \in Nat
  BY FullIs DEF A!Tick, A!Typed
<1>2. A!Full \in Nat /\ Cost \in Nat
  BY FullIs
<1>3. ASSUME NEW k \in A!Key, bucket[k] # None
      PROVE  bucket[k].tokens \in Nat /\ bucket[k].last \in Nat /\ bucket[k].last <= clock
  BY <1>3 DEF A!Typed, BudgetOK, A!Bucket
<1>4. ASSUME NEW k \in A!Key
      PROVE  Level(k) \in Nat /\ Level(k)' \in Nat /\ Level(k)' <= Level(k) + 1
  <2>1. CASE bucket[k] = None
    BY <1>1, <1>2, <2>1 DEF Level
  <2>2. CASE bucket[k] # None
    <3>1. /\ Level(k) = A!Least(A!Full, bucket[k].tokens + clock - bucket[k].last)
          /\ Level(k)' = A!Least(A!Full, bucket[k].tokens + (clock + 1) - bucket[k].last)
      BY <1>1, <2>2 DEF Level
    <3>2. QED  BY <1>1, <1>2, <1>3, <2>2, <3>1 DEF A!Least
  <2>3. QED  BY <2>1, <2>2
<1>5. window # None =>
        window.used * Cost + Level(window.key)' <= A!Full + (clock' - window.from) + window.late
  <2> SUFFICES ASSUME window # None
               PROVE  window.used * Cost + Level(window.key)' <= A!Full + (clock' - window.from) + window.late
    OBVIOUS
  <2>1. /\ window.key \in A!Key /\ window.from \in Nat /\ window.late \in Nat
        /\ window.used * Cost \in Nat
    BY <1>2 DEF A!Typed
  <2>2. PICK k \in A!Key : k = window.key
    BY <2>1
  <2>3. window.used * Cost + Level(k) <= A!Full + (clock - window.from) + window.late
    BY <2>2 DEF BudgetOK
  <2>4. Level(window.key)' = Level(k)'
    BY <1>1, <2>2 DEF Level
  <2>5. QED  BY <1>1, <1>2, <1>4, <2>1, <2>3, <2>4
<1>6. \A k \in A!Key : bucket'[k] # None => bucket'[k].last <= clock'
  BY <1>1, <1>3
<1>7. QED  BY <1>1, <1>5, <1>6 DEF BudgetOK

LEMMA WatchBudget ==
  ASSUME A!ConstantsOK, A!Typed, BudgetOK, NEW k \in Watched, A!Watch(k)
  PROVE  BudgetOK'
<1>1. /\ k \in A!Key /\ clock \in Nat /\ A!Full \in Nat /\ Cost \in Nat
      /\ clock' = clock /\ bucket' = bucket
      /\ window' = [key |-> k, from |-> clock, used |-> 0, late |-> 0]
  BY FullIs DEF A!ConstantsOK, A!Typed, A!Watch
<1>2. Level(window.key)' \in Nat /\ Level(window.key)' <= A!Full
  <2>1. Level(window.key)' = IF bucket[k] = None THEN A!Full
                             ELSE A!Least(A!Full, bucket[k].tokens + clock - bucket[k].last)
    BY <1>1 DEF Level
  <2>2. bucket[k] # None =>
          bucket[k].tokens \in Nat /\ bucket[k].last \in Nat /\ bucket[k].last <= clock
    BY <1>1 DEF A!Typed, BudgetOK, A!Bucket
  <2>3. QED  BY <1>1, <2>1, <2>2 DEF A!Least
<1>3. window'.used * Cost = 0 /\ window'.from = clock /\ window'.late = 0
  BY <1>1
<1>4. window'.used * Cost + Level(window.key)' <= A!Full + (clock' - window'.from) + window'.late
  BY <1>1, <1>2, <1>3
<1>5. QED  BY <1>1, <1>4 DEF BudgetOK

LEMMA AutomationKept ==
  ASSUME AutomationInv, [A!Next]_(A!vars)
  PROVE  AutomationInv'
<1> USE DEF AutomationInv, A!TypeOK
<1>1. CASE UNCHANGED A!vars
  BY <1>1 DEF A!vars, A!setup, A!Typed, A!ConstantsOK, RunnersOK, RunnerOK, BudgetOK, Level, A!Held, A!Can, A!Who
<1>2. CASE A!Next
  <2>0. A!Step /\ A!setup' \in Setups
    BY <1>2 DEF A!Next, A!setup
  <2>a. \A p \in A!Range(plugins) : p \in Plugin
    BY DEF A!setup, A!ConstantsOK, A!Range
  <2>1. A!Typed' /\ RunnersOK'
    BY <2>0, <2>a, FireRun, JobRun, PermitRun, CallRun, AllowRun, SendRun, ReloadRun, BesideRun
       DEF A!Step
  <2>2. BudgetOK'
    <3>1. CASE UNCHANGED <<clock, bucket, window>>
      BY <3>1 DEF BudgetOK, Level
    <3>2. CASE A!Tick \/ (\E k \in Watched : A!Watch(k)) \/ (\E r \in Runner : A!Allow(r))
      BY <3>2, TickBudget, WatchBudget, AllowBudget
    <3>3. QED
      BY ZenonT(40), <2>0, <3>1, <3>2 DEF A!Step, A!Fire, A!RunJob, A!Begins, A!Permit, A!Call, A!Send,
                              A!Reload, A!Switch
  <2>3. QED  BY <2>0, <2>1, <2>2 DEF A!ConstantsOK
<1>3. QED  BY <1>1, <1>2

LEMMA AutomationStarts ==
  ASSUME A!ConstantsOK, A!Init
  PROVE  AutomationInv
<1> USE DEF A!Init
<1>1. A!Idle \in A!Work /\ A!Idle.at = "idle" /\ A!Idle.now = 0 /\ 0 \in 0..MaxClock
  BY FullIs DEF A!Idle, A!Work
<1>2. loaded \in [Plugin -> A!Load \cup {None}]
  OBVIOUS
<1>a. PICK s \in Setups : plugins = s[1] /\ guilds = s[2]
  OBVIOUS
<1>b. s \in Seq(Plugin) \X Seq(Guilds) /\ s = <<s[1], s[2]>>
  BY DEF A!ConstantsOK
<1>c. on \subseteq Plugin
  BY <1>a, <1>b DEF A!Range
<1>3. A!Typed
  BY <1>1, <1>2, <1>c DEF A!Typed
<1>4. \A r \in Runner : RunnerOK(r)
  BY <1>1 DEF RunnerOK
<1>5. BudgetOK
  BY DEF BudgetOK
<1>6. A!setup \in Setups
  BY <1>a, <1>b DEF A!setup
<1>7. QED  BY <1>3, <1>4, <1>5, <1>6 DEF AutomationInv, A!TypeOK, RunnersOK

LEMMA AutomationInvariant == ASSUME A!ConstantsOK PROVE A!Spec => []AutomationInv
<1>1. A!Init => AutomationInv
  BY AutomationStarts
<1>2. AutomationInv /\ [A!Next]_(A!vars) => AutomationInv'
  BY AutomationKept
<1>3. QED  BY <1>1, <1>2, PTL DEF A!Spec

\* Every reachable state of Automation is well typed: the tokens of a limiter stay between
\* nothing and its burst (guildMutationLimiter).
THEOREM AutomationTypes == ASSUME A!ConstantsOK PROVE A!Spec => []A!TypeOK
<1>1. AutomationInv => A!TypeOK
  BY DEF AutomationInv
<1>2. QED  BY <1>1, AutomationInvariant, PTL

\* The limiter lets no more through than a full bucket, the time since and the time
\* by which goroutines come late, for any burst, cost, keys and schedule.
THEOREM TokensAreBudgeted == ASSUME A!ConstantsOK PROVE A!Spec => []A!TokenBudget
<1>1. AutomationInv => A!TokenBudget
  <2> SUFFICES ASSUME AutomationInv, window # None
               PROVE  window.used * Cost <= A!Full + (clock - window.from) + window.late
    BY DEF A!TokenBudget
  <2> USE DEF AutomationInv, A!TypeOK
  <2>1. /\ window.key \in A!Key /\ window.from \in Nat /\ window.late \in Nat
        /\ window.used \in Nat /\ clock \in Nat
    BY DEF A!Typed
  <2>2. A!Full \in Nat /\ Cost \in Nat /\ window.used * Cost \in Nat
    BY <2>1, FullIs
  <2>3. PICK k \in A!Key : k = window.key
    BY <2>1
  <2>4. bucket[k] # None =>
          bucket[k].tokens \in Nat /\ bucket[k].last \in Nat /\ bucket[k].last <= clock
    BY DEF A!Typed, BudgetOK, A!Bucket
  <2>5. Level(k) \in Nat
    BY <2>1, <2>2, <2>4 DEF Level, A!Least
  <2>6. window.used * Cost + Level(k) <= A!Full + (clock - window.from) + window.late
    BY <2>3 DEF BudgetOK
  <2>7. QED  BY <2>1, <2>2, <2>5, <2>6
<1>2. QED  BY <1>1, AutomationInvariant, PTL

\* Every subscriber and every guild is handed what it is owed, and what is done was
\* granted since the event came or the job was due.
THEOREM EventsRunAsGranted == ASSUME A!ConstantsOK PROVE A!Spec => []A!RunsAsGranted
<1>1. AutomationInv => A!RunsAsGranted
  <2> SUFFICES ASSUME AutomationInv, NEW r \in Runner
               PROVE  /\ runner[r].at = "idle" => owed[r] = {}
                      /\ runner[r].at = "send" =>
                           <<A!Who(r), Need[Head(runner[r].actions)]>> \in could[r]
    BY DEF A!RunsAsGranted, A!ReachesAll, A!ActsGranted
  <2>1. RunnerOK(r) /\ A!ConstantsOK /\ A!Typed
    BY DEF AutomationInv, A!TypeOK, RunnersOK
  <2>2. runner[r].at = "send" => {A!Who(r)} \X runner[r].perms \subseteq could[r]
    <3> SUFFICES ASSUME runner[r].at = "send"
                 PROVE  {A!Who(r)} \X runner[r].perms \subseteq could[r]
      OBVIOUS
    <3>1. CASE runner[r].event # "job"
      BY <2>1, <3>1 DEF RunnerOK
    <3>2. CASE runner[r].event = "job"
      <4>1. Head(runner[r].turns) \in A!Range(runner[r].turns)
        BY <2>1, RunnerIs, HeadAndTail DEF RunnerOK
      <4>2. QED  BY <2>1, <3>2, <4>1 DEF RunnerOK, A!Who
    <3>3. QED  BY <3>1, <3>2
  <2>3. QED  BY <2>1, <2>2 DEF RunnerOK
<1>2. QED  BY <1>1, AutomationInvariant, PTL

-----------------------------------------------------------------------------
(* The gateway: for any guilds, with any number of events and catalogs.    *)

\* A message of one of these kinds about a guild, and whether one is on its way.
Is(e, kinds, g) == e.kind \in kinds /\ e.guild = g
Coming(q, kinds, g) == \E i \in DOMAIN q : Is(q[i], kinds, g)

\* A message that is wrong by now is followed by one that is right.
Corrected(q, g, wrong, right) ==
    \A i \in DOMAIN q : Is(q[i], wrong, g) =>
        \E j \in DOMAIN q : j > i /\ Is(q[j], {right}, g)

At(kinds, g) == gateway.at \in kinds /\ gateway.guild = g

\* Messages that are on their way, and the one at hand.
GuildNews(g) ==
    /\ g \in here => /\ Corrected(queue, g, {"leave"}, "join")
                     /\ At({"leave"}, g) => Coming(queue, {"join"}, g)
    /\ g \notin here => /\ Corrected(queue, g, {"join", "update"}, "leave")
                        /\ At({"join", "seen", "quit", "update"}, g) => Coming(queue, {"leave"}, g)
    /\ g \in here /\ g \notin cached => Coming(queue, {"join"}, g)

MemberNews(g) ==
    /\ g \in told => /\ Corrected(queue, g, {"exit"}, "enter")
                     /\ At({"exit"}, g) => Coming(queue, {"enter"}, g)
    /\ g \notin told => /\ Corrected(queue, g, {"enter"}, "exit")
                        /\ At({"enter"}, g) => Coming(queue, {"exit"}, g)

NewsOK == \A g \in Guild : GuildNews(g) /\ MemberNews(g)

\* What no message and no handler is about is as the rows say.
RowsAbout(g) ==
    /\ \/ Coming(queue, {"join", "leave", "update"}, g)
       \/ At({"join", "seen", "quit", "leave", "update"}, g)
       \/ <<"guild", g>> \in missed
       \/ G!Agrees(guildRow[g], g \in here)
    /\ \/ Coming(queue, {"enter", "exit"}, g)
       \/ At({"enter", "exit"}, g)
       \/ <<"member", g>> \in missed
       \/ G!Agrees(memberRow[g], g \in told)

RowsOK == \A g \in Guild : RowsAbout(g)

\* A guild to leave is about to be asked about or left.
LeftSoon(g) ==
    <<"leave", g>> \in missed \/ Coming(queue, {"join"}, g) \/ At({"join", "quit"}, g)

BarredOK ==
    /\ barred \subseteq restricted
    /\ \A g \in barred \cap here : LeftSoon(g)

\* A guild that does not show the last catalog is about to be shown it.
ShownAbout(g) ==
    \/ <<"commands", g>> \in missed \/ shown[g] = catalog
    \/ Coming(queue, {"join"}, g) \/ At({"join", "seen", "quit"}, g)
    \/ Coming(queue, {"ready"}, None) /\ g \in cached
    \/ gateway.at \in {"creates", "set"} /\ g \in gateway.todo
    \/ reload.at = "creates" /\ g \in cached
    \/ reload.at = "set" /\ g \in reload.todo

ShownOK ==
    /\ reload.at = "set" => reload.commands = catalog
    /\ \A g \in here : ShownAbout(g)

\* A handler of a message has its guild.
GuildAtHand ==
    gateway.at \in {"join", "seen", "quit", "leave", "update", "enter", "exit"} =>
        gateway.guild \in Guild

GatewayInv ==
    /\ G!ConstantsOK /\ G!TypeOK /\ GuildAtHand /\ NewsOK /\ RowsOK /\ BarredOK /\ ShownOK

\* What is sent is the last message on its way, and nothing else changes there.
LEMMA Sent ==
  ASSUME NEW S, NEW q \in Seq(S), NEW e \in S, NEW r, r = Append(q, e)
  PROVE  /\ \A kinds, g : Coming(r, kinds, g) <=> Coming(q, kinds, g) \/ Is(e, kinds, g)
         /\ \A g, wrong, right :
              Is(e, {right}, g) /\ right \notin wrong => Corrected(r, g, wrong, right)
         /\ \A g, wrong, right :
              ~Is(e, wrong, g) /\ Corrected(q, g, wrong, right) => Corrected(r, g, wrong, right)
<1>1. /\ Len(q) \in Nat /\ DOMAIN q = 1..Len(q) /\ DOMAIN r = 1..(Len(q) + 1)
      /\ r[Len(q) + 1] = e /\ \A i \in DOMAIN q : r[i] = q[i]
  OBVIOUS
<1>2. \A i \in DOMAIN r : i \in DOMAIN q \/ i = Len(q) + 1
  BY <1>1
<1>3. \A i \in DOMAIN q : i \in DOMAIN r /\ Len(q) + 1 > i
  BY <1>1
<1>4. Len(q) + 1 \in DOMAIN r
  BY <1>1
<1>5. \A kinds, g : Coming(r, kinds, g) <=> Coming(q, kinds, g) \/ Is(e, kinds, g)
  BY <1>1, <1>2, <1>3, <1>4 DEF Coming
<1>6. ASSUME NEW g, NEW wrong, NEW right, Is(e, {right}, g), right \notin wrong
      PROVE  Corrected(r, g, wrong, right)
  <2>1. ~Is(e, wrong, g)
    BY <1>6 DEF Is
  <2>2. QED  BY <1>1, <1>2, <1>3, <1>4, <1>6, <2>1 DEF Corrected
<1>7. ASSUME NEW g, NEW wrong, NEW right, ~Is(e, wrong, g), Corrected(q, g, wrong, right)
      PROVE  Corrected(r, g, wrong, right)
  BY <1>1, <1>2, <1>3, <1>7 DEF Corrected
<1>8. QED  BY <1>5, <1>6, <1>7

\* What is taken was the first message on its way; if it is wrong, one that is right
\* is still coming.
LEMMA Taken ==
  ASSUME NEW S, NEW q \in Seq(S), q # <<>>, NEW r, r = Tail(q)
  PROVE  /\ \A kinds, g : Coming(q, kinds, g) <=> Coming(r, kinds, g) \/ Is(Head(q), kinds, g)
         /\ \A g, wrong, right : Corrected(q, g, wrong, right) =>
              /\ Corrected(r, g, wrong, right)
              /\ Is(Head(q), wrong, g) => Coming(r, {right}, g)
<1>1. /\ Len(q) \in Nat \ {0} /\ DOMAIN q = 1..Len(q) /\ DOMAIN r = 1..(Len(q) - 1)
      /\ q[1] = Head(q) /\ \A i \in DOMAIN r : r[i] = q[i + 1]
  OBVIOUS
<1>2. \A i \in DOMAIN r : i \in Nat /\ i + 1 \in DOMAIN q
  BY <1>1
<1>3. \A i \in DOMAIN q : i \in Nat /\ (i > 1 => i - 1 \in DOMAIN r /\ r[i - 1] = q[i])
  BY <1>1
<1>4. 1 \in DOMAIN q /\ \A i \in DOMAIN q : i = 1 \/ i > 1
  BY <1>1
<1>5. \A kinds, g : Coming(q, kinds, g) <=> Coming(r, kinds, g) \/ Is(Head(q), kinds, g)
  BY <1>1, <1>2, <1>3, <1>4 DEF Coming
<1>6. ASSUME NEW g, NEW wrong, NEW right, Corrected(q, g, wrong, right)
      PROVE  /\ Corrected(r, g, wrong, right)
             /\ Is(Head(q), wrong, g) => Coming(r, {right}, g)
  <2>1. ASSUME NEW i \in DOMAIN r, Is(r[i], wrong, g)
        PROVE  \E j \in DOMAIN r : j > i /\ Is(r[j], {right}, g)
    <3>1. i \in Nat /\ i + 1 \in DOMAIN q /\ Is(q[i + 1], wrong, g)
      BY <1>1, <1>2, <2>1
    <3>2. PICK j \in DOMAIN q : j > i + 1 /\ Is(q[j], {right}, g)
      BY <1>6, <3>1 DEF Corrected
    <3>3. j \in Nat /\ j > 1 /\ j - 1 > i
      BY <1>3, <3>1, <3>2
    <3>4. QED  BY <1>3, <3>2, <3>3
  <2>2. ASSUME Is(Head(q), wrong, g)
        PROVE  Coming(r, {right}, g)
    <3>1. PICK j \in DOMAIN q : j > 1 /\ Is(q[j], {right}, g)
      BY <1>1, <1>4, <1>6, <2>2 DEF Corrected
    <3>2. QED  BY <1>3, <3>1 DEF Coming
  <2>3. QED  BY <2>1, <2>2 DEF Corrected
<1>7. QED  BY <1>5, <1>6

\* What the handlers make of the goroutine at hand.
LEMMA HandlersGo ==
  ASSUME G!ConstantsOK, G!TypeOK
  PROVE  /\ G!Idle \in G!Work /\ G!Idle.at = "idle"
         /\ \A at \in {"quit", "seen"} :
              LET next == [gateway EXCEPT !.at = at]
              IN  next \in G!Work /\ next.at = at /\ next.guild = gateway.guild
         /\ \A todo \in SUBSET Guild :
              LET next == [gateway EXCEPT !.at = "creates", !.todo = todo]
              IN  next \in G!Work /\ next.at = "creates" /\ next.todo = todo
         /\ \A p \in {gateway, reload} : \A todo \in SUBSET Guild :
              LET next == [p EXCEPT !.todo = todo]
              IN  /\ next \in G!Work /\ next.at = p.at /\ next.todo = todo
                  /\ next.commands = p.commands
         /\ \A p \in {gateway, reload} :
              /\ G!Creates(p) \in G!Work /\ G!Creates(p).at = "set"
              /\ G!Creates(p).commands = catalog /\ G!Creates(p).todo = p.todo
<1>1. 0 \in 0..MaxCatalogs /\ catalog \in 0..MaxCatalogs
  BY DEF G!ConstantsOK, G!TypeOK
<1>2. gateway \in G!Work /\ reload \in G!Work
  BY DEF G!TypeOK
<1>3. G!Idle \in G!Work /\ G!Idle.at = "idle"
  BY <1>1 DEF G!Idle, G!Work
<1>4. \A at \in {"quit", "seen"} :
        LET next == [gateway EXCEPT !.at = at]
        IN  next \in G!Work /\ next.at = at /\ next.guild = gateway.guild
  BY <1>2 DEF G!Work
<1>5. \A todo \in SUBSET Guild :
        LET next == [gateway EXCEPT !.at = "creates", !.todo = todo]
        IN  next \in G!Work /\ next.at = "creates" /\ next.todo = todo
  BY <1>2 DEF G!Work
<1>6. ASSUME NEW p \in G!Work, NEW todo \in SUBSET Guild
      PROVE  LET next == [p EXCEPT !.todo = todo]
             IN  /\ next \in G!Work /\ next.at = p.at /\ next.todo = todo
                 /\ next.commands = p.commands
  BY DEF G!Work
<1>7. ASSUME NEW p \in G!Work
      PROVE  /\ G!Creates(p) \in G!Work /\ G!Creates(p).at = "set"
             /\ G!Creates(p).commands = catalog /\ G!Creates(p).todo = p.todo
  BY <1>1 DEF G!Creates, G!Work
<1>8. QED  BY ZenonT(40), <1>2, <1>3, <1>4, <1>5, <1>6, <1>7

\* What is taken, and what becomes of the goroutine.
LEMMA TakeGoes ==
  ASSUME G!ConstantsOK, G!TypeOK, G!Take
  PROVE  LET e == Head(queue)
         IN  /\ gateway.at = "idle" /\ queue # <<>> /\ queue' = Tail(queue)
             /\ e \in G!Message \cup {G!Ready} /\ queue' \in Seq(G!Message \cup {G!Ready})
             /\ gateway' \in G!Work /\ gateway'.guild = e.guild
             /\ gateway'.at = (IF e.kind = "ready" THEN "creates" ELSE e.kind)
             /\ gateway'.todo = (IF e.kind = "ready" THEN cached ELSE {})
             /\ e.kind # "ready" => e.guild \in Guild
             /\ e.kind = "ready" => e.guild = None
             /\ e.kind \in {"join", "leave", "update", "enter", "exit", "ready"}
<1> DEFINE e == Head(queue)
           at == IF e.kind = "ready" THEN "creates" ELSE e.kind
           todo == IF e.kind = "ready" THEN cached ELSE {}
<1>1. gateway.at = "idle" /\ queue # <<>> /\ queue' = Tail(queue)
  BY DEF G!Take
<1>2. e \in G!Message \cup {G!Ready} /\ queue' \in Seq(G!Message \cup {G!Ready})
  BY <1>1, HeadAndTail DEF G!TypeOK
<1>3. /\ e.kind # "ready" => e.guild \in Guild
      /\ e.kind = "ready" => e.guild = None
      /\ e.kind \in {"join", "leave", "update", "enter", "exit", "ready"}
  BY <1>2 DEF G!Message, G!Ready
<1>4. /\ at \in {"join", "leave", "update", "enter", "exit", "creates"} /\ todo \in SUBSET Guild
      /\ e.guild \in Guild \cup {None}
  BY <1>3 DEF G!TypeOK
<1>5. gateway' = [G!Idle EXCEPT !.at = at, !.guild = e.guild, !.todo = todo]
  BY DEF G!Take, G!InCachedGuilds
<1> HIDE DEF at, todo, e
<1>6. gateway' \in G!Work /\ gateway'.guild = e.guild /\ gateway'.at = at /\ gateway'.todo = todo
  BY <1>4, <1>5, HandlersGo DEF G!Idle, G!Work
<1>7. QED  BY <1>1, <1>2, <1>3, <1>6 DEF e, at, todo

\* A message that is sent.
LEMMA SendsOne ==
  ASSUME G!ConstantsOK, G!TypeOK, NEW g \in Guild,
         NEW kind \in {"join", "leave", "update", "enter", "exit"}, G!Sends(kind, g)
  PROVE  /\ sent' \in 0..MaxEvents /\ queue' \in Seq(G!Message \cup {G!Ready})
         /\ queue' = Append(queue, [kind |-> kind, guild |-> g])
<1>1. [kind |-> kind, guild |-> g] \in G!Message
  BY DEF G!Message
<1>2. QED  BY <1>1 DEF G!Sends, G!TypeOK, G!ConstantsOK

\* LeaveGuild: the event Discord sends, if the bot was there.
LEMMA LeavesOne ==
  ASSUME G!ConstantsOK, G!TypeOK, NEW g \in Guild, G!Leaves(g)
  PROVE  /\ here' \subseteq Guild /\ here' = here \ {g}
         /\ queue' \in Seq(G!Message \cup {G!Ready})
         /\ g \in here => queue' = Append(queue, [kind |-> "leave", guild |-> g])
         /\ g \notin here => queue' = queue
<1>1. [kind |-> "leave", guild |-> g] \in G!Message
  BY DEF G!Message
<1>2. QED  BY <1>1 DEF G!Leaves, G!TypeOK

\* Discord, its users and the owner.
Outside(g) ==
    \/ G!Invite(g) \/ G!Expel(g) \/ G!Rename(g) \/ G!MemberJoins(g) \/ G!MemberLeaves(g)
    \/ G!Block(g) \/ G!Unblock(g) \/ G!LeaveLater(g)

LEMMA OutsideType ==
  ASSUME G!ConstantsOK, G!TypeOK, NEW g \in Guild, Outside(g)
  PROVE  G!TypeOK' /\ UNCHANGED <<gateway, reload, catalog, cached, guildRow, memberRow>>
<1> USE DEF G!discord, G!store
<1>1. UNCHANGED <<gateway, reload, catalog, cached, guildRow, memberRow>>
  BY DEF Outside, G!Invite, G!Expel, G!Rename, G!MemberJoins, G!MemberLeaves, G!Moves, G!Block,
         G!Unblock, G!LeaveLater
<1>2. sent' \in 0..MaxEvents /\ queue' \in Seq(G!Message \cup {G!Ready})
  <2>1. CASE \E kind \in {"join", "leave", "update", "enter", "exit"} : G!Sends(kind, g)
    BY <2>1, SendsOne
  <2>2. CASE G!Leaves(g) /\ sent' = sent
    BY <2>2, LeavesOne DEF G!TypeOK
  <2>3. CASE UNCHANGED <<sent, queue>>
    BY <2>3 DEF G!TypeOK
  <2>4. QED
    BY <2>1, <2>2, <2>3 DEF Outside, G!Invite, G!Expel, G!Rename, G!MemberJoins, G!MemberLeaves,
       G!Moves, G!Block, G!Unblock, G!LeaveLater
<1>3. /\ here' \subseteq Guild /\ inside' \subseteq Guild /\ told' \subseteq Guild
      /\ restricted' \subseteq Guild /\ leaving' \subseteq Guild /\ barred' \subseteq Guild
  BY DEF G!TypeOK, Outside, G!Invite, G!Expel, G!Rename, G!MemberJoins, G!MemberLeaves, G!Moves,
         G!Block, G!Unblock, G!LeaveLater, G!Leaves
<1>4. shown' \in [Guild -> 0..MaxCatalogs] /\ missed' \subseteq G!Thing \X Guild
  BY SMTT(30) DEF G!ConstantsOK, G!TypeOK, Outside, G!Invite, G!Expel, G!Rename, G!MemberJoins,
         G!MemberLeaves, G!Moves, G!Block, G!Unblock, G!LeaveLater
<1>5. QED  BY <1>1, <1>2, <1>3, <1>4 DEF G!TypeOK

\* The goroutine of the gateway at a message.
LEMMA TakeType ==
  ASSUME G!ConstantsOK, G!TypeOK, G!Take
  PROVE  G!TypeOK' /\ GuildAtHand'
<1>1. UNCHANGED <<here, inside, told, sent, restricted, guildRow, memberRow, shown, catalog, reload,
                  leaving, barred, missed>>
  BY DEF G!Take, G!store
<1>2. cached' \subseteq Guild
  BY TakeGoes DEF G!Take, G!TypeOK
<1>3. G!TypeOK'
  BY <1>1, <1>2, TakeGoes DEF G!TypeOK
<1>4. QED  BY <1>3, TakeGoes DEF GuildAtHand

LEMMA HandlersType ==
  ASSUME G!ConstantsOK, G!TypeOK, GuildAtHand,
         \/ G!CheckRestriction \/ G!Quit \/ G!UpsertGuild \/ G!MarkGuildLeft \/ G!MarkMember
  PROVE  G!TypeOK' /\ GuildAtHand'
<1> DEFINE g == gateway.guild
<1>1. g \in Guild
  BY DEF GuildAtHand, G!CheckRestriction, G!Quit, G!UpsertGuild, G!MarkGuildLeft, G!MarkMember
<1>2. UNCHANGED <<inside, told, sent, cached, restricted, shown, catalog, reload, leaving, barred>>
  BY DEF G!CheckRestriction, G!Quit, G!UpsertGuild, G!MarkGuildLeft, G!MarkMember, G!discord, G!store
<1>3. gateway' \in G!Work /\ (gateway'.at \in {"quit", "seen"} => gateway'.guild = g)
      /\ gateway'.at \in {"quit", "seen", "creates", "idle"}
  <2>1. CASE G!Goes("quit") \/ G!Goes("seen")
    BY ZenonT(40), <2>1, HandlersGo DEF G!Goes
  <2>2. CASE gateway' = G!Idle
    BY <2>2, HandlersGo
  <2>3. CASE gateway' = [gateway EXCEPT !.at = "creates", !.todo = {g}]
    <3>1. {g} \in SUBSET Guild
      BY <1>1
    <3> HIDE DEF g
    <3>2. QED  BY <2>3, <3>1, HandlersGo
  <2>4. QED
    BY <2>1, <2>2, <2>3 DEF G!CheckRestriction, G!Quit, G!UpsertGuild, G!MarkGuildLeft,
       G!MarkMember, G!Done
<1>4. here' \subseteq Guild /\ queue' \in Seq(G!Message \cup {G!Ready})
  <2>1. CASE G!Leaves(g)
    BY <1>1, <2>1, LeavesOne
  <2>2. CASE UNCHANGED <<here, queue>>
    BY <2>2 DEF G!TypeOK
  <2>3. QED
    BY <2>1, <2>2 DEF G!CheckRestriction, G!Quit, G!UpsertGuild, G!MarkGuildLeft, G!MarkMember,
       G!discord
<1>5. guildRow' \in [Guild -> G!Row] /\ memberRow' \in [Guild -> G!Row]
  BY <1>1 DEF G!TypeOK, G!Row, G!CheckRestriction, G!Quit, G!UpsertGuild, G!MarkGuildLeft,
              G!MarkMember, G!MarkedLeft, G!Rejoined, G!store
<1>6. missed' \subseteq G!Thing \X Guild
  BY <1>1 DEF G!TypeOK, G!Thing, G!CheckRestriction, G!Quit, G!UpsertGuild, G!MarkGuildLeft,
              G!MarkMember, G!Misses, G!Heeds
<1>7. QED  BY <1>1, <1>2, <1>3, <1>4, <1>5, <1>6 DEF G!TypeOK, GuildAtHand

\* A registration shows a guild the commands it has, or leaves out what is left.
LEMMA ShowsType ==
  ASSUME G!ConstantsOK, G!TypeOK, NEW p \in {gateway, reload},
         \/ UNCHANGED <<shown, missed>>
         \/ G!Refused(p)
         \/ \E g \in p.todo : G!Shows(p, g)
  PROVE  /\ shown' \in [Guild -> 0..MaxCatalogs] /\ missed' \subseteq G!Thing \X Guild
         /\ \A thing \in {"guild", "member", "leave"} : \A g :
              <<thing, g>> \in missed <=> <<thing, g>> \in missed'
<1>1. p.commands \in 0..MaxCatalogs /\ p.todo \subseteq Guild
  BY DEF G!TypeOK, G!Work
<1>2. QED  BY <1>1 DEF G!TypeOK, G!Shows, G!Refused, G!Thing

Registers ==
    G!GatewayCreates \/ G!GatewaySets \/ G!Reload \/ G!ReloadCreates \/ G!ReloadSets

LEMMA RegistersGo ==
  ASSUME G!ConstantsOK, G!TypeOK, Registers
  PROVE  /\ G!TypeOK'
         /\ UNCHANGED <<here, inside, told, queue, sent, cached, restricted, guildRow, memberRow,
                        leaving, barred>>
         /\ \A thing \in {"guild", "member", "leave"} : \A g :
              <<thing, g>> \in missed <=> <<thing, g>> \in missed'
         /\ gateway' = gateway \/ gateway'.at \in {"idle", "set"}
<1>1. UNCHANGED <<here, inside, told, queue, sent, cached, restricted, guildRow, memberRow,
                  leaving, barred>>
  BY DEF Registers, G!GatewayCreates, G!GatewaySets, G!Reload, G!ReloadCreates, G!ReloadSets,
         G!discord, G!store
<1>2. /\ shown' \in [Guild -> 0..MaxCatalogs] /\ missed' \subseteq G!Thing \X Guild
      /\ \A thing \in {"guild", "member", "leave"} : \A g :
           <<thing, g>> \in missed <=> <<thing, g>> \in missed'
  BY ShowsType DEF Registers, G!GatewayCreates, G!GatewaySets, G!Reload, G!ReloadCreates,
     G!ReloadSets, G!discord
<1>3. catalog' \in 1..MaxCatalogs
  BY DEF G!ConstantsOK, G!TypeOK, Registers, G!GatewayCreates, G!GatewaySets, G!Reload,
         G!ReloadCreates, G!ReloadSets
<1>4. gateway' \in G!Work /\ (gateway' = gateway \/ gateway'.at \in {"idle", "set"})
  <2>1. CASE G!GatewayCreates
    BY <2>1, HandlersGo DEF G!GatewayCreates
  <2>2. CASE G!GatewaySets
    <3>1. CASE gateway' = G!Idle
      BY <3>1, HandlersGo
    <3>2. CASE \E g \in gateway.todo : gateway' = [gateway EXCEPT !.todo = @ \ {g}]
      <4>1. PICK g \in gateway.todo : gateway' = [gateway EXCEPT !.todo = gateway.todo \ {g}]
        BY <3>2
      <4>2. gateway.todo \ {g} \in SUBSET Guild
        BY DEF G!TypeOK, G!Work
      <4>3. QED  BY <2>2, <4>1, <4>2, HandlersGo DEF G!GatewaySets
    <3>3. QED  BY <2>2, <3>1, <3>2 DEF G!GatewaySets, G!Done
  <2>3. CASE gateway' = gateway
    BY <2>3 DEF G!TypeOK
  <2>4. QED  BY <2>1, <2>2, <2>3 DEF Registers, G!Reload, G!ReloadCreates, G!ReloadSets
<1>5. reload' \in G!Work
  <2>1. CASE G!Reload
    <3>1. G!Idle.at = "idle" /\ G!Idle \in G!Work /\ reload' = [G!Idle EXCEPT !.at = "creates"]
      BY <2>1, HandlersGo DEF G!Reload
    <3>2. QED  BY <3>1 DEF G!Work
  <2>2. CASE G!ReloadCreates
    <3>1. G!Creates(reload) \in G!Work /\ cached \in SUBSET Guild
      BY HandlersGo DEF G!TypeOK
    <3>2. reload' = [G!Creates(reload) EXCEPT !.todo = cached]
      BY <2>2 DEF G!ReloadCreates, G!InCachedGuilds
    <3>3. QED  BY <3>1, <3>2 DEF G!Work
  <2>3. CASE G!ReloadSets
    <3>1. CASE reload' = G!Idle
      BY <3>1, HandlersGo
    <3>2. CASE \E g \in reload.todo : reload' = [reload EXCEPT !.todo = @ \ {g}]
      <4>1. PICK g \in reload.todo : reload' = [reload EXCEPT !.todo = reload.todo \ {g}]
        BY <3>2
      <4>2. reload.todo \ {g} \in SUBSET Guild
        BY DEF G!TypeOK, G!Work
      <4>3. QED  BY <2>3, <4>1, <4>2, HandlersGo
    <3>3. QED  BY <2>3, <3>1, <3>2 DEF G!ReloadSets
  <2>4. CASE reload' = reload
    BY <2>4 DEF G!TypeOK
  <2>5. QED  BY <2>1, <2>2, <2>3, <2>4 DEF Registers, G!GatewayCreates, G!GatewaySets
<1>6. QED  BY <1>1, <1>2, <1>3, <1>4, <1>5 DEF G!TypeOK

\* The bot starts again: only the ready event is on its way.
LEMMA RestartGoes ==
  ASSUME G!ConstantsOK, G!TypeOK, G!Restart
  PROVE  /\ G!TypeOK' /\ gateway'.at = "idle" /\ reload'.at = "idle" /\ cached' = here
         /\ UNCHANGED <<here, told, restricted, shown, barred>> /\ missed' = missed \cup G!Unheard
         /\ \A kinds, g : Coming(queue', kinds, g) <=> "ready" \in kinds /\ None = g
         /\ \A g, wrong, right : "ready" \notin wrong => Corrected(queue', g, wrong, right)
<1>1. /\ queue' = <<G!Ready>> /\ gateway' = G!Idle /\ reload' = G!Idle /\ leaving' = {}
      /\ UNCHANGED <<here, inside, told, sent, restricted, guildRow, memberRow, shown, barred>>
      /\ missed' = missed \cup G!Unheard /\ cached' = here
  BY DEF G!Restart, G!store
<1>2. catalog' \in 1..MaxCatalogs
  BY DEF G!Restart, G!TypeOK, G!ConstantsOK
<1>3. G!Unheard \subseteq G!Thing \X Guild
  BY DEF G!Unheard, G!Thing
<1>4. /\ DOMAIN queue' = {1} /\ queue'[1] = G!Ready /\ G!Ready.kind = "ready" /\ G!Ready.guild = None
      /\ queue' \in Seq(G!Message \cup {G!Ready})
  BY <1>1 DEF G!Ready
<1>5. G!TypeOK'
  BY <1>1, <1>2, <1>3, <1>4, HandlersGo DEF G!TypeOK
<1>6. \A kinds, g : Coming(queue', kinds, g) <=> "ready" \in kinds /\ None = g
  BY <1>4 DEF Coming, Is
<1>7. \A g, wrong, right : "ready" \notin wrong => Corrected(queue', g, wrong, right)
  BY <1>4 DEF Corrected, Is
<1>8. QED  BY <1>1, <1>5, <1>6, <1>7, HandlersGo

\* A handler goes on to no other message.
SameAt(g) ==
    /\ At({"leave"}, g)' => At({"leave"}, g)
    /\ At({"enter"}, g)' => At({"enter"}, g)
    /\ At({"exit"}, g)' => At({"exit"}, g)
    /\ At({"join", "seen", "quit", "update"}, g)' => At({"join", "seen", "quit", "update"}, g)

\* Messages stay and nothing wrong comes.
LEMMA GuildNewsStays ==
  ASSUME G!TypeOK, NEW g \in Guild, SameAt(g), GuildNews(g), g \in here <=> g \in here', g \in cached <=> g \in cached',
         \/ queue' = queue
         \/ \E e \in G!Message : /\ queue' = Append(queue, e)
                                 /\ IF g \in here THEN ~Is(e, {"leave"}, g) ELSE ~Is(e, {"join", "update"}, g)
  PROVE  GuildNews(g)'
<1>1. CASE queue' = queue
  BY <1>1 DEF SameAt, GuildNews
<1>2. CASE \E e \in G!Message : /\ queue' = Append(queue, e)
                                /\ IF g \in here THEN ~Is(e, {"leave"}, g) ELSE ~Is(e, {"join", "update"}, g)
  <2>1. PICK e \in G!Message : /\ queue' = Append(queue, e)
                               /\ IF g \in here THEN ~Is(e, {"leave"}, g) ELSE ~Is(e, {"join", "update"}, g)
    BY <1>2
  <2>2. queue \in Seq(G!Message \cup {G!Ready}) /\ e \in G!Message \cup {G!Ready}
    BY DEF G!TypeOK
  <2>3. /\ \A kinds : Coming(queue, kinds, g) => Coming(queue', kinds, g)
        /\ \A wrong, right :
             ~Is(e, wrong, g) /\ Corrected(queue, g, wrong, right) => Corrected(queue', g, wrong, right)
    BY <2>1, <2>2, Sent, Zenon
  <2>4. QED  BY <2>1, <2>3 DEF SameAt, GuildNews
<1>3. QED  BY <1>1, <1>2

LEMMA MemberNewsStays ==
  ASSUME G!TypeOK, NEW g \in Guild, SameAt(g), MemberNews(g), g \in told <=> g \in told',
         \/ queue' = queue
         \/ \E e \in G!Message : /\ queue' = Append(queue, e)
                                 /\ IF g \in told THEN ~Is(e, {"exit"}, g) ELSE ~Is(e, {"enter"}, g)
  PROVE  MemberNews(g)'
<1>1. CASE queue' = queue
  BY <1>1 DEF SameAt, MemberNews
<1>2. CASE \E e \in G!Message : /\ queue' = Append(queue, e)
                                /\ IF g \in told THEN ~Is(e, {"exit"}, g) ELSE ~Is(e, {"enter"}, g)
  <2>1. PICK e \in G!Message : /\ queue' = Append(queue, e)
                               /\ IF g \in told THEN ~Is(e, {"exit"}, g) ELSE ~Is(e, {"enter"}, g)
    BY <1>2
  <2>2. queue \in Seq(G!Message \cup {G!Ready}) /\ e \in G!Message \cup {G!Ready}
    BY DEF G!TypeOK
  <2>3. /\ \A kinds : Coming(queue, kinds, g) => Coming(queue', kinds, g)
        /\ \A wrong, right :
             ~Is(e, wrong, g) /\ Corrected(queue, g, wrong, right) => Corrected(queue', g, wrong, right)
    BY <2>1, <2>2, Sent, Zenon
  <2>4. QED  BY <2>1, <2>3 DEF SameAt, MemberNews
<1>3. QED  BY <1>1, <1>2

\* The message that says what changes.
LEMMA NewsChange ==
  ASSUME G!TypeOK, NEW g \in Guild, NEW e \in G!Message, queue' = Append(queue, e)
  PROVE  /\ Is(e, {"join"}, g) /\ g \in here' => GuildNews(g)'
         /\ Is(e, {"leave"}, g) /\ g \notin here' => GuildNews(g)'
         /\ Is(e, {"enter"}, g) /\ g \in told' => MemberNews(g)'
         /\ Is(e, {"exit"}, g) /\ g \notin told' => MemberNews(g)'
<1>1. queue \in Seq(G!Message \cup {G!Ready})
  BY DEF G!TypeOK
<1>2. /\ \A kinds : Is(e, kinds, g) => Coming(queue', kinds, g)
      /\ \A wrong, right : Is(e, {right}, g) /\ right \notin wrong => Corrected(queue', g, wrong, right)
  <2>1. e \in G!Message \cup {G!Ready}
    OBVIOUS
  <2>2. QED  BY <1>1, <2>1, Sent, Zenon
<1>3. QED  BY <1>2 DEF GuildNews, MemberNews

LEMMA OutsideNews ==
  ASSUME G!ConstantsOK, G!TypeOK, NewsOK, NEW h \in Guild, Outside(h)
  PROVE  NewsOK'
<1> SUFFICES ASSUME NEW g \in Guild  PROVE GuildNews(g)' /\ MemberNews(g)'
  BY DEF NewsOK
<1>1. GuildNews(g) /\ MemberNews(g)
  BY DEF NewsOK
<1>2. UNCHANGED <<gateway, cached>>
  BY OutsideType
<1>3. SameAt(g)
  BY <1>2 DEF SameAt, At
<1>4. ASSUME NEW kind \in {"join", "leave", "update", "enter", "exit"},
             queue' = Append(queue, [kind |-> kind, guild |-> h])
      PROVE  \E e \in G!Message : queue' = Append(queue, e) /\ e.kind = kind /\ e.guild = h
  <2>1. [kind |-> kind, guild |-> h] \in G!Message
    BY DEF G!Message
  <2>2. QED  BY <1>4, <2>1
<1>5. CASE G!Invite(h)
  <2>1. PICK e \in G!Message : queue' = Append(queue, e) /\ e.kind = "join" /\ e.guild = h
    BY <1>5, <1>4, SendsOne DEF G!Invite
  <2>2. here' = here \cup {h} /\ told' = told
    BY <1>5 DEF G!Invite
  <2>3. \A kinds : Is(e, kinds, g) <=> "join" \in kinds /\ g = h
    BY <2>1 DEF Is
  <2>4. MemberNews(g)'
    BY <1>1, <1>2, <1>3, <2>1, <2>2, <2>3, GuildNewsStays, MemberNewsStays
  <2>5. g # h => GuildNews(g)'
    BY <1>1, <1>2, <1>3, <2>1, <2>2, <2>3, GuildNewsStays, MemberNewsStays
  <2>6. g = h => GuildNews(g)'
    BY <2>1, <2>2, <2>3, NewsChange
  <2>7. QED  BY <2>4, <2>5, <2>6
<1>6. CASE G!Expel(h) \/ (G!LeaveLater(h) /\ G!Leaves(h) /\ h \in here)
  <2>1. PICK e \in G!Message : queue' = Append(queue, e) /\ e.kind = "leave" /\ e.guild = h
    BY <1>6, <1>4, SendsOne, LeavesOne DEF G!Expel
  <2>2. here' = here \ {h} /\ told' = told
    BY <1>6 DEF G!Expel, G!LeaveLater, G!Leaves
  <2>3. \A kinds : Is(e, kinds, g) <=> "leave" \in kinds /\ g = h
    BY <2>1 DEF Is
  <2>4. MemberNews(g)'
    BY <1>1, <1>2, <1>3, <2>1, <2>2, <2>3, GuildNewsStays, MemberNewsStays
  <2>5. g # h => GuildNews(g)'
    BY <1>1, <1>2, <1>3, <2>1, <2>2, <2>3, GuildNewsStays, MemberNewsStays
  <2>6. g = h => GuildNews(g)'
    BY <2>1, <2>2, <2>3, NewsChange
  <2>7. QED  BY <2>4, <2>5, <2>6
<1>7. CASE G!Rename(h)
  <2>1. PICK e \in G!Message : queue' = Append(queue, e) /\ e.kind = "update" /\ e.guild = h
    BY <1>7, <1>4, SendsOne DEF G!Rename
  <2>2. here' = here /\ told' = told /\ h \in here
    BY <1>7 DEF G!Rename
  <2>3. \A kinds : Is(e, kinds, g) <=> "update" \in kinds /\ g = h
    BY <2>1 DEF Is
  <2>4. QED  BY <1>1, <1>2, <1>3, <2>1, <2>2, <2>3, GuildNewsStays, MemberNewsStays
<1>8. CASE G!MemberJoins(h) /\ h \in here
  <2>1. PICK e \in G!Message : queue' = Append(queue, e) /\ e.kind = "enter" /\ e.guild = h
    BY <1>8, <1>4, SendsOne DEF G!MemberJoins, G!Moves
  <2>2. here' = here /\ h \in told' /\ \A x : x # h => (x \in told <=> x \in told')
    BY <1>8 DEF G!MemberJoins, G!Moves
  <2>3. \A kinds : Is(e, kinds, g) <=> "enter" \in kinds /\ g = h
    BY <2>1 DEF Is
  <2>4. GuildNews(g)'
    BY <1>1, <1>2, <1>3, <2>1, <2>2, <2>3, GuildNewsStays, MemberNewsStays
  <2>5. g # h => MemberNews(g)'
    BY <1>1, <1>2, <1>3, <2>1, <2>2, <2>3, GuildNewsStays, MemberNewsStays
  <2>6. g = h => MemberNews(g)'
    BY <2>1, <2>2, <2>3, NewsChange
  <2>7. QED  BY <2>4, <2>5, <2>6
<1>9. CASE G!MemberLeaves(h) /\ h \in here
  <2>1. PICK e \in G!Message : queue' = Append(queue, e) /\ e.kind = "exit" /\ e.guild = h
    BY <1>9, <1>4, SendsOne DEF G!MemberLeaves, G!Moves
  <2>2. here' = here /\ h \notin told' /\ \A x : x # h => (x \in told <=> x \in told')
    BY <1>9 DEF G!MemberLeaves, G!Moves
  <2>3. \A kinds : Is(e, kinds, g) <=> "exit" \in kinds /\ g = h
    BY <2>1 DEF Is
  <2>4. GuildNews(g)'
    BY <1>1, <1>2, <1>3, <2>1, <2>2, <2>3, GuildNewsStays, MemberNewsStays
  <2>5. g # h => MemberNews(g)'
    BY <1>1, <1>2, <1>3, <2>1, <2>2, <2>3, GuildNewsStays, MemberNewsStays
  <2>6. g = h => MemberNews(g)'
    BY <2>1, <2>2, <2>3, NewsChange
  <2>7. QED  BY <2>4, <2>5, <2>6
<1>10. CASE UNCHANGED <<here, told, queue>>
  BY <1>1, <1>2, <1>3, <1>10, GuildNewsStays, MemberNewsStays
<1>11. QED
  BY <1>5, <1>6, <1>7, <1>8, <1>9, <1>10, LeavesOne
     DEF Outside, G!MemberJoins, G!MemberLeaves, G!Moves, G!Block, G!Unblock, G!LeaveLater, G!discord

LEMMA TakeNews ==
  ASSUME G!ConstantsOK, G!TypeOK, NewsOK, G!Take
  PROVE  NewsOK'
<1> DEFINE e == Head(queue)
<1>1. /\ queue # <<>> /\ queue' = Tail(queue) /\ queue \in Seq(G!Message \cup {G!Ready})
      /\ e \in G!Message \cup {G!Ready}
      /\ gateway'.guild = e.guild
      /\ gateway'.at = (IF e.kind = "ready" THEN "creates" ELSE e.kind)
      /\ e.kind \in {"join", "leave", "update", "enter", "exit", "ready"}
  BY TakeGoes DEF G!TypeOK
<1>2. here' = here /\ told' = told
  BY DEF G!Take
<1>3. cached' = CASE e.kind = "join" -> cached \cup {e.guild}
                  [] e.kind = "leave" -> cached \ {e.guild}
                  [] OTHER -> cached
  BY DEF G!Take
<1> HIDE DEF e
<1>4. /\ \A kinds, g : Coming(queue, kinds, g) <=> Coming(queue', kinds, g) \/ Is(e, kinds, g)
      /\ \A g, wrong, right : Corrected(queue, g, wrong, right) =>
           /\ Corrected(queue', g, wrong, right)
           /\ Is(e, wrong, g) => Coming(queue', {right}, g)
  BY <1>1, Taken, Zenon DEF e
<1> SUFFICES ASSUME NEW g \in Guild  PROVE GuildNews(g)' /\ MemberNews(g)'
  BY DEF NewsOK
<1>5. GuildNews(g) /\ MemberNews(g)
  BY DEF NewsOK
<1>6. \A kinds \in {{"leave"}, {"join", "update"}, {"enter"}, {"exit"}} :
        At(kinds, g)' => Is(e, kinds, g)
  BY <1>1 DEF At, Is
<1>7. At({"join", "seen", "quit", "update"}, g)' => Is(e, {"join", "update"}, g)
  BY <1>1 DEF At, Is
<1>8. /\ g \in here /\ g \notin cached' /\ ~Is(e, {"leave"}, g) =>
           g \notin cached /\ ~Is(e, {"join"}, g)
  BY <1>1, <1>3 DEF Is
<1>9. GuildNews(g)'
  BY <1>2, <1>4, <1>5, <1>6, <1>7, <1>8 DEF GuildNews
<1>10. MemberNews(g)'
  BY <1>2, <1>4, <1>5, <1>6 DEF MemberNews
<1>11. QED  BY <1>9, <1>10

LEMMA HandlersNews ==
  ASSUME G!ConstantsOK, G!TypeOK, GuildAtHand, NewsOK,
         \/ G!CheckRestriction \/ G!Quit \/ G!UpsertGuild \/ G!MarkGuildLeft \/ G!MarkMember
  PROVE  NewsOK'
<1> SUFFICES ASSUME NEW g \in Guild  PROVE GuildNews(g)' /\ MemberNews(g)'
  BY DEF NewsOK
<1>1. GuildNews(g) /\ MemberNews(g)
  BY DEF NewsOK
<1>2. told' = told /\ cached' = cached
  BY DEF G!CheckRestriction, G!Quit, G!UpsertGuild, G!MarkGuildLeft, G!MarkMember, G!discord
<1>3. SameAt(g)
  <2>1. CASE G!CheckRestriction
    <3>1. gateway.at = "join" /\ gateway'.at \in {"quit", "seen"} /\ gateway'.guild = gateway.guild
      BY ZenonT(40), <2>1, HandlersGo DEF G!CheckRestriction, G!Goes
    <3>2. QED  BY <3>1 DEF SameAt, At
  <2>2. CASE G!Quit \/ G!UpsertGuild \/ G!MarkGuildLeft \/ G!MarkMember
    <3>1. gateway'.at \in {"creates", "idle"}
      <4>1. CASE gateway' = G!Idle
        BY <4>1, HandlersGo
      <4>2. CASE G!UpsertGuild /\ gateway' = [gateway EXCEPT !.at = "creates", !.todo = {gateway.guild}]
        <5>1. {gateway.guild} \in SUBSET Guild
          BY <4>2 DEF GuildAtHand, G!UpsertGuild
        <5>2. QED  BY <4>2, <5>1, HandlersGo
      <4>3. QED
        BY <2>2, <4>1, <4>2 DEF G!Quit, G!UpsertGuild, G!MarkGuildLeft, G!MarkMember, G!Done
    <3>2. QED  BY <3>1 DEF SameAt, At
  <2>3. QED  BY <2>1, <2>2
<1>4. CASE here' = here /\ queue' = queue
  BY <1>1, <1>2, <1>3, <1>4, GuildNewsStays, MemberNewsStays
<1>5. CASE G!Quit /\ G!Leaves(gateway.guild) /\ gateway.guild \in here
  <2> DEFINE h == gateway.guild
             e == [kind |-> "leave", guild |-> h]
  <2>1. h \in Guild
    BY <1>5 DEF G!TypeOK
  <2>2. here' = here \ {h} /\ queue' = Append(queue, e)
    BY <1>5, <2>1, LeavesOne
  <2>3. e \in G!Message /\ \A kinds : Is(e, kinds, g) <=> "leave" \in kinds /\ g = h
    BY <2>1 DEF G!Message, Is
  <2> HIDE DEF e, h
  <2>4. MemberNews(g)'
    BY <1>1, <1>2, <1>3, <2>2, <2>3, MemberNewsStays
  <2>5. g # h => GuildNews(g)'
    BY <1>1, <1>2, <1>3, <2>2, <2>3, GuildNewsStays
  <2>6. g = h => GuildNews(g)'
    BY <2>2, <2>3, NewsChange
  <2>7. QED  BY <2>4, <2>5, <2>6
<1>6. QED
  BY <1>4, <1>5, LeavesOne
     DEF G!CheckRestriction, G!Quit, G!UpsertGuild, G!MarkGuildLeft, G!MarkMember, G!discord,
         G!Leaves

\* The registering of commands, and the restart.
LEMMA RegistersNews ==
  ASSUME G!ConstantsOK, G!TypeOK, NewsOK, Registers \/ G!Restart
  PROVE  NewsOK'
<1> SUFFICES ASSUME NEW g \in Guild  PROVE GuildNews(g)' /\ MemberNews(g)'
  BY DEF NewsOK
<1>1. GuildNews(g) /\ MemberNews(g)
  BY DEF NewsOK
<1>2. CASE Registers
  <2>1. SameAt(g)
    BY <1>2, RegistersGo DEF SameAt, At
  <2>2. UNCHANGED <<here, told, queue, cached>>
    BY <1>2, RegistersGo
  <2>3. QED  BY <1>1, <2>1, <2>2, GuildNewsStays, MemberNewsStays
<1>3. CASE G!Restart
  <2>1. /\ gateway'.at = "idle" /\ cached' = here /\ here' = here
        /\ \A kind \in {"leave", "exit", "enter"} : \A right : Corrected(queue', g, {kind}, right)
        /\ \A right : Corrected(queue', g, {"join", "update"}, right)
    BY <1>3, RestartGoes
  <2>2. \A kinds : "idle" \notin kinds => ~At(kinds, g)'
    BY <2>1 DEF At
  <2>3. QED  BY <2>1, <2>2 DEF GuildNews, MemberNews
<1>4. QED  BY <1>2, <1>3

\* What changes outside is told; what was on its way still is.
LEMMA OutsideTells ==
  ASSUME G!ConstantsOK, G!TypeOK, NEW h \in Guild, Outside(h), NEW g \in Guild
  PROVE  /\ \A kinds : Coming(queue, kinds, g) => Coming(queue', kinds, g)
         /\ Coming(queue, {"ready"}, None) => Coming(queue', {"ready"}, None)
         /\ (g \in here <=> g \in here') \/ Coming(queue', {"join", "leave", "update"}, g)
         /\ (g \in told <=> g \in told') \/ Coming(queue', {"enter", "exit"}, g)
         /\ g \in here' => g \in here \/ Coming(queue', {"join"}, g)
<1> USE DEF G!discord, G!store
<1>1. queue \in Seq(G!Message \cup {G!Ready})
  BY DEF G!TypeOK
<1>2. ASSUME NEW kind \in {"join", "leave", "update", "enter", "exit"},
             queue' = Append(queue, [kind |-> kind, guild |-> h])
      PROVE  /\ \A kinds, x : Coming(queue, kinds, x) => Coming(queue', kinds, x)
             /\ g = h => \A kinds : kind \in kinds => Coming(queue', kinds, g)
  <2> DEFINE e == [kind |-> kind, guild |-> h]
  <2>1. /\ e \in G!Message \cup {G!Ready} /\ queue' = Append(queue, e)
        /\ \A kinds : kind \in kinds /\ g = h => Is(e, kinds, g)
    BY <1>2 DEF G!Message, Is
  <2> HIDE DEF e
  <2>2. \A kinds, x : Coming(queue', kinds, x) <=> Coming(queue, kinds, x) \/ Is(e, kinds, x)
    BY <1>1, <2>1, Sent, Zenon
  <2>3. QED  BY <2>1, <2>2
<1>3. CASE G!Invite(h)
  <2>1. queue' = Append(queue, [kind |-> "join", guild |-> h]) /\ here' = here \cup {h} /\ told' = told
    BY <1>3, SendsOne DEF G!Invite
  <2>2. QED  BY <1>2, <2>1
<1>4. CASE G!Expel(h) \/ (G!LeaveLater(h) /\ G!Leaves(h) /\ h \in here)
  <2>1. queue' = Append(queue, [kind |-> "leave", guild |-> h]) /\ here' = here \ {h} /\ told' = told
    BY <1>4, SendsOne, LeavesOne DEF G!Expel, G!LeaveLater
  <2>2. QED  BY <1>2, <2>1
<1>5. CASE G!Rename(h)
  <2>1. queue' = Append(queue, [kind |-> "update", guild |-> h]) /\ here' = here /\ told' = told
    BY <1>5, SendsOne DEF G!Rename
  <2>2. QED  BY <1>2, <2>1
<1>6. CASE G!MemberJoins(h) /\ h \in here
  <2>1. queue' = Append(queue, [kind |-> "enter", guild |-> h]) /\ here' = here
        /\ \A x : x # h => (x \in told <=> x \in told')
    BY <1>6, SendsOne DEF G!MemberJoins, G!Moves
  <2>2. QED  BY <1>2, <2>1
<1>7. CASE G!MemberLeaves(h) /\ h \in here
  <2>1. queue' = Append(queue, [kind |-> "exit", guild |-> h]) /\ here' = here
        /\ \A x : x # h => (x \in told <=> x \in told')
    BY <1>7, SendsOne DEF G!MemberLeaves, G!Moves
  <2>2. QED  BY <1>2, <2>1
<1>8. CASE UNCHANGED <<here, told, queue>>
  BY <1>8
<1>9. QED
  BY <1>3, <1>4, <1>5, <1>6, <1>7, <1>8, LeavesOne
     DEF Outside, G!MemberJoins, G!MemberLeaves, G!Moves, G!Block, G!Unblock, G!LeaveLater

\* What the client takes is at hand.
LEMMA TakeTells ==
  ASSUME G!ConstantsOK, G!TypeOK, G!Take, NEW g \in Guild
  PROVE  /\ \A kinds : ~At(kinds, g) \/ "idle" \in kinds
         /\ \A kinds : Coming(queue, kinds, g) => Coming(queue', kinds, g) \/ At(kinds, g)' \/ "ready" \in kinds
         /\ Coming(queue, {"ready"}, None) => Coming(queue', {"ready"}, None) \/ gateway'.at = "creates"
<1> DEFINE e == Head(queue)
<1>1. /\ gateway.at = "idle" /\ queue # <<>> /\ queue' = Tail(queue)
      /\ queue \in Seq(G!Message \cup {G!Ready})
      /\ gateway'.guild = e.guild /\ gateway'.at = (IF e.kind = "ready" THEN "creates" ELSE e.kind)
  BY TakeGoes DEF G!TypeOK
<1> HIDE DEF e
<1>2. \A kinds, x : Coming(queue, kinds, x) <=> Coming(queue', kinds, x) \/ Is(e, kinds, x)
  BY <1>1, Taken, Zenon DEF e
<1>3. \A kinds, x : Is(e, kinds, x) => e.kind \in kinds /\ e.guild = x
  BY DEF Is
<1>4. \A kinds : e.kind \in kinds /\ e.guild = g => At(kinds, g)' \/ "ready" \in kinds
  BY <1>1 DEF At
<1>5. e.kind \in {"ready"} => gateway'.at = "creates"
  BY <1>1
<1>6. \A kinds : ~At(kinds, g) \/ "idle" \in kinds
  BY <1>1 DEF At
<1>7. QED  BY <1>2, <1>3, <1>4, <1>5, <1>6

LEMMA RowsStay ==
  ASSUME RowsOK, UNCHANGED <<guildRow, memberRow>>, NEW g \in Guild,
         <<"guild", g>> \in missed => <<"guild", g>> \in missed',
         <<"member", g>> \in missed => <<"member", g>> \in missed',
         (g \in here <=> g \in here') \/ Coming(queue', {"join", "leave", "update"}, g),
         (g \in told <=> g \in told') \/ Coming(queue', {"enter", "exit"}, g),
         Coming(queue, {"join", "leave", "update"}, g) =>
            \/ Coming(queue', {"join", "leave", "update"}, g)
            \/ At({"join", "seen", "quit", "leave", "update"}, g)',
         Coming(queue, {"enter", "exit"}, g) =>
            Coming(queue', {"enter", "exit"}, g) \/ At({"enter", "exit"}, g)',
         At({"join", "seen", "quit", "leave", "update"}, g) =>
            At({"join", "seen", "quit", "leave", "update"}, g)',
         At({"enter", "exit"}, g) => At({"enter", "exit"}, g)'
  PROVE  RowsAbout(g)'
<1>1. RowsAbout(g)
  BY DEF RowsOK
<1>2. QED  BY <1>1 DEF RowsAbout, G!Agrees

LEMMA OutsideRows ==
  ASSUME G!ConstantsOK, G!TypeOK, RowsOK, NEW h \in Guild, Outside(h)
  PROVE  RowsOK'
<1> SUFFICES ASSUME NEW g \in Guild  PROVE RowsAbout(g)'
  BY DEF RowsOK
<1>1. UNCHANGED <<gateway, guildRow, memberRow>>
  BY OutsideType
<1>2. <<"guild", g>> \in missed <=> <<"guild", g>> \in missed'
  BY DEF Outside, G!Invite, G!Expel, G!Rename, G!MemberJoins, G!MemberLeaves, G!Moves, G!Block,
         G!Unblock, G!LeaveLater
<1>3. <<"member", g>> \in missed <=> <<"member", g>> \in missed'
  BY DEF Outside, G!Invite, G!Expel, G!Rename, G!MemberJoins, G!MemberLeaves, G!Moves, G!Block,
         G!Unblock, G!LeaveLater
<1>4. \A kinds : At(kinds, g) => At(kinds, g)'
  BY <1>1 DEF At
<1>5. QED  BY <1>1, <1>2, <1>3, <1>4, OutsideTells, RowsStay

LEMMA TakeRows ==
  ASSUME G!ConstantsOK, G!TypeOK, RowsOK, G!Take
  PROVE  RowsOK'
<1> SUFFICES ASSUME NEW g \in Guild  PROVE RowsAbout(g)'
  BY DEF RowsOK
<1>1. UNCHANGED <<here, told, guildRow, memberRow, missed>>
  BY DEF G!Take, G!store
<1>2. At({"join", "leave", "update"}, g)' => At({"join", "seen", "quit", "leave", "update"}, g)'
  BY DEF At
<1>3. QED  BY <1>1, <1>2, TakeTells, RowsStay

\* A handler other than the one that leaves ends with the row written or missed.
LEMMA HandlersRows ==
  ASSUME G!ConstantsOK, G!TypeOK, GuildAtHand, NewsOK, RowsOK,
         \/ G!CheckRestriction \/ G!Quit \/ G!UpsertGuild \/ G!MarkGuildLeft \/ G!MarkMember
  PROVE  RowsOK'
<1> SUFFICES ASSUME NEW g \in Guild  PROVE RowsAbout(g)'
  BY DEF RowsOK
<1> DEFINE h == gateway.guild
           K == {"join", "leave", "update"}
           M == {"enter", "exit"}
<1>1. RowsAbout(g) /\ GuildNews(g) /\ MemberNews(g)
  BY DEF RowsOK, NewsOK
<1>2. told' = told
  BY DEF G!CheckRestriction, G!Quit, G!UpsertGuild, G!MarkGuildLeft, G!MarkMember, G!discord
<1>3. h \in Guild
  BY DEF GuildAtHand, G!CheckRestriction, G!Quit, G!UpsertGuild, G!MarkGuildLeft, G!MarkMember
<1>4. Coming(queue, {"leave"}, g) => Coming(queue, K, g)
  BY DEF Coming, Is
<1>5. Coming(queue, {"join"}, g) => Coming(queue, K, g)
  BY DEF Coming, Is
<1>6. Coming(queue, {"enter"}, g) \/ Coming(queue, {"exit"}, g) => Coming(queue, M, g)
  BY DEF Coming, Is
<1>7. CASE G!CheckRestriction
  <2>1. /\ UNCHANGED <<here, queue, guildRow, memberRow>> /\ gateway.at = "join"
        /\ gateway'.at \in {"quit", "seen"} /\ gateway'.guild = gateway.guild
        /\ missed \subseteq missed'
    BY ZenonT(40), <1>7, HandlersGo DEF G!CheckRestriction, G!Goes, G!Misses, G!discord, G!store
  <2>2. /\ At({"join", "seen", "quit", "leave", "update"}, g) =>
             At({"join", "seen", "quit", "leave", "update"}, g)'
        /\ ~At({"enter", "exit"}, g)
    BY <2>1 DEF At
  <2>3. QED  BY <1>2, <2>1, <2>2, RowsStay
<1>8. CASE G!Quit
  <2>1. UNCHANGED <<guildRow, memberRow>> /\ gateway.at = "quit" /\ missed \subseteq missed'
    BY <1>8 DEF G!Quit, G!store
  <2>2. ~At(M, g)
    BY <2>1 DEF At
  <2>3. CASE UNCHANGED <<here, queue>> /\ <<"guild", h>> \in missed'
    BY <1>1, <1>2, <2>1, <2>2, <2>3 DEF RowsAbout, G!Agrees, At
  <2>4. CASE G!Leaves(h) /\ h \in here
    <3> DEFINE e == [kind |-> "leave", guild |-> h]
    <3>1. /\ here' = here \ {h} /\ queue' = Append(queue, e)
          /\ e \in G!Message \cup {G!Ready} /\ queue \in Seq(G!Message \cup {G!Ready})
      BY <1>3, <2>4, LeavesOne DEF G!Message, G!TypeOK
    <3>2. h = g => Is(e, K, g)
      BY DEF Is
    <3> HIDE DEF e, h, K, M
    <3>3. \A kinds, x : Coming(queue', kinds, x) <=> Coming(queue, kinds, x) \/ Is(e, kinds, x)
      BY <3>1, Sent, Zenon
    <3>4. Coming(queue, K, g) => Coming(queue', K, g)
      BY <3>3
    <3>5. Coming(queue, M, g) => Coming(queue', M, g)
      BY <3>3
    <3>6. h = g => Coming(queue', K, g)
      BY <3>2, <3>3
    <3>7. h # g => (g \in here <=> g \in here')
      BY <3>1
    <3>8. QED
      BY <1>1, <1>2, <2>1, <2>2, <3>4, <3>5, <3>6, <3>7 DEF RowsAbout, G!Agrees, At, h, K, M
  <2>5. CASE G!Leaves(h) /\ h \notin here
    <3>1. UNCHANGED <<here, queue>>
      BY <1>3, <2>5, LeavesOne
    <3>2. h = g => Coming(queue, K, g)
      BY <1>1, <1>4, <2>1, <2>5 DEF GuildNews, At
    <3>3. QED  BY <1>1, <1>2, <2>1, <2>2, <3>1, <3>2 DEF RowsAbout, G!Agrees, At
  <2>6. QED  BY <1>8, <2>3, <2>4, <2>5 DEF G!Quit
<1>9. CASE G!UpsertGuild
  <2>1. /\ UNCHANGED <<here, queue, memberRow>> /\ gateway.at \in {"seen", "update"}
        /\ \/ guildRow' = [guildRow EXCEPT ![h] = "in"] /\ missed' = missed \ {<<"guild", h>>}
           \/ missed' = missed \cup {<<"guild", h>>} /\ UNCHANGED guildRow
    BY <1>9 DEF G!UpsertGuild, G!Heeds, G!Misses, G!discord
  <2>2. <<"member", g>> \in missed <=> <<"member", g>> \in missed'
    BY <2>1
  <2>3. g # h => guildRow'[g] = guildRow[g] /\ (<<"guild", g>> \in missed <=> <<"guild", g>> \in missed')
    BY <2>1 DEF G!TypeOK
  <2>4. g = h => \/ Coming(queue, K, g) \/ <<"guild", g>> \in missed'
                 \/ G!Agrees(guildRow'[g], g \in here)
    BY <1>1, <1>3, <1>4, <2>1 DEF GuildNews, At, G!Agrees, G!TypeOK
  <2>5. ~At(M, g) /\ (At({"join", "seen", "quit", "leave", "update"}, g) => g = h)
    BY <2>1 DEF At
  <2>6. QED  BY <1>1, <1>2, <2>1, <2>2, <2>3, <2>4, <2>5 DEF RowsAbout
<1>10. CASE G!MarkGuildLeft
  <2>1. /\ UNCHANGED <<here, queue, memberRow>> /\ gateway.at = "leave"
        /\ \/ guildRow' = [guildRow EXCEPT ![h] = G!MarkedLeft(@)] /\ missed' = missed \ {<<"guild", h>>}
           \/ missed' = missed \cup {<<"guild", h>>} /\ UNCHANGED guildRow
    BY <1>10 DEF G!MarkGuildLeft, G!Heeds, G!Misses, G!discord
  <2>2. <<"member", g>> \in missed <=> <<"member", g>> \in missed'
    BY <2>1
  <2>3. g # h => guildRow'[g] = guildRow[g] /\ (<<"guild", g>> \in missed <=> <<"guild", g>> \in missed')
    BY <2>1 DEF G!TypeOK
  <2>4. g = h => \/ Coming(queue, K, g) \/ <<"guild", g>> \in missed'
                 \/ G!Agrees(guildRow'[g], g \in here)
    BY <1>1, <1>3, <1>5, <2>1 DEF GuildNews, At, G!Agrees, G!MarkedLeft, G!TypeOK
  <2>5. ~At(M, g) /\ (At({"join", "seen", "quit", "leave", "update"}, g) => g = h)
    BY <2>1 DEF At
  <2>6. QED  BY <1>1, <1>2, <2>1, <2>2, <2>3, <2>4, <2>5 DEF RowsAbout
<1>11. CASE G!MarkMember
  <2>1. /\ UNCHANGED <<here, queue, guildRow>> /\ gateway.at \in {"enter", "exit"}
        /\ \/ /\ memberRow' = [memberRow EXCEPT ![h] = IF gateway.at = "enter" THEN G!Rejoined(@)
                                                       ELSE G!MarkedLeft(@)]
              /\ missed' = missed \ {<<"member", h>>}
           \/ missed' = missed \cup {<<"member", h>>} /\ UNCHANGED memberRow
    BY <1>11 DEF G!MarkMember, G!Heeds, G!Misses, G!discord
  <2>2. <<"guild", g>> \in missed <=> <<"guild", g>> \in missed'
    BY <2>1
  <2>3. g # h => memberRow'[g] = memberRow[g] /\ (<<"member", g>> \in missed <=> <<"member", g>> \in missed')
    BY <2>1 DEF G!TypeOK
  <2>4. g = h => \/ Coming(queue, M, g) \/ <<"member", g>> \in missed'
                 \/ G!Agrees(memberRow'[g], g \in told)
    BY <1>1, <1>3, <1>6, <2>1 DEF MemberNews, At, G!Agrees, G!MarkedLeft, G!Rejoined, G!TypeOK
  <2>5. ~At({"join", "seen", "quit", "leave", "update"}, g) /\ (At(M, g) => g = h)
    BY <2>1 DEF At
  <2>6. QED  BY <1>1, <1>2, <2>1, <2>2, <2>3, <2>4, <2>5 DEF RowsAbout
<1>12. QED  BY <1>7, <1>8, <1>9, <1>10, <1>11

LEMMA RegistersRows ==
  ASSUME G!ConstantsOK, G!TypeOK, RowsOK, Registers \/ G!Restart
  PROVE  RowsOK'
<1> SUFFICES ASSUME NEW g \in Guild  PROVE RowsAbout(g)'
  BY DEF RowsOK
<1>1. CASE Registers
  <2>1. /\ UNCHANGED <<here, told, queue, guildRow, memberRow>>
        /\ <<"guild", g>> \in missed => <<"guild", g>> \in missed'
        /\ <<"member", g>> \in missed => <<"member", g>> \in missed'
    BY <1>1, RegistersGo
  <2>2. /\ At({"join", "seen", "quit", "leave", "update"}, g) =>
             At({"join", "seen", "quit", "leave", "update"}, g)'
        /\ At({"enter", "exit"}, g) => At({"enter", "exit"}, g)'
    <3>1. CASE gateway' = gateway
      BY <3>1 DEF At
    <3>2. CASE gateway' # gateway
      <4>1. gateway.at \in {"creates", "set"}
        BY <1>1, <3>2 DEF Registers, G!GatewayCreates, G!GatewaySets, G!Reload, G!ReloadCreates,
                          G!ReloadSets
      <4>2. QED  BY <4>1 DEF At
    <3>3. QED  BY <3>1, <3>2
  <2>3. QED  BY <2>1, <2>2, RowsStay
<1>2. CASE G!Restart
  <2>1. <<"guild", g>> \in missed' /\ <<"member", g>> \in missed'
    BY <1>2, RestartGoes DEF G!Unheard
  <2>2. QED  BY <2>1 DEF RowsAbout
<1>3. QED  BY <1>1, <1>2

LEMMA LeavesTells ==
  ASSUME G!ConstantsOK, G!TypeOK, NEW h \in Guild, G!Leaves(h)
  PROVE  \A kinds, x : Coming(queue, kinds, x) => Coming(queue', kinds, x)
<1> DEFINE e == [kind |-> "leave", guild |-> h]
<1>1. /\ queue' = queue \/ queue' = Append(queue, e)
      /\ e \in G!Message \cup {G!Ready} /\ queue \in Seq(G!Message \cup {G!Ready})
  BY LeavesOne DEF G!Message, G!TypeOK
<1> HIDE DEF e
<1>2. CASE queue' = queue
  BY <1>2
<1>3. CASE queue' = Append(queue, e)
  BY <1>1, <1>3, Sent, Zenon
<1>4. QED  BY <1>1, <1>2, <1>3

LEMMA OutsideBarred ==
  ASSUME G!ConstantsOK, G!TypeOK, BarredOK, NEW h \in Guild, Outside(h)
  PROVE  BarredOK'
<1> USE DEF G!store, G!discord
<1>1. barred' \subseteq restricted'
  BY DEF BarredOK, Outside, G!Invite, G!Expel, G!Rename, G!MemberJoins, G!MemberLeaves, G!Moves,
         G!Block, G!Unblock, G!LeaveLater
<1>2. ASSUME NEW g \in barred' \cap here'  PROVE LeftSoon(g)'
  <2>1. g \in Guild
    BY OutsideType DEF G!TypeOK
  <2>2. \/ Coming(queue', {"join"}, g)
        \/ g \in here /\ g \in barred /\ (<<"leave", g>> \in missed => <<"leave", g>> \in missed')
    <3>1. CASE G!Invite(h)
      BY <1>2, <2>1, <3>1, OutsideTells DEF G!Invite
    <3>2. CASE Outside(h) /\ ~G!Invite(h)
      <4>1. missed' = missed /\ g \in barred
        BY <1>2, <3>2 DEF Outside, G!Expel, G!Rename, G!MemberJoins, G!MemberLeaves, G!Moves,
                          G!Block, G!Unblock, G!LeaveLater
      <4>2. QED  BY <1>2, <2>1, <4>1, OutsideTells
    <3>3. QED  BY <3>1, <3>2
  <2>3. gateway' = gateway /\ (Coming(queue, {"join"}, g) => Coming(queue', {"join"}, g))
    BY <2>1, OutsideType, OutsideTells
  <2>4. QED  BY <2>2, <2>3 DEF BarredOK, LeftSoon, At
<1>3. QED  BY <1>1, <1>2 DEF BarredOK

LEMMA GatewayBarred ==
  ASSUME G!ConstantsOK, G!TypeOK, GuildAtHand, BarredOK,
         \/ G!Take \/ Registers \/ G!Restart
         \/ G!CheckRestriction \/ G!Quit \/ G!UpsertGuild \/ G!MarkGuildLeft \/ G!MarkMember
  PROVE  BarredOK'
<1>1. UNCHANGED <<barred, restricted>>
  BY RegistersGo, RestartGoes DEF G!Take, G!CheckRestriction, G!Quit, G!UpsertGuild, G!MarkGuildLeft,
     G!MarkMember, G!store
<1> SUFFICES ASSUME NEW g \in barred \cap here'  PROVE LeftSoon(g)'
  BY <1>1 DEF BarredOK
<1>2. g \in Guild /\ g \in restricted
  BY DEF BarredOK, G!TypeOK
<1>3. g \in here => LeftSoon(g)
  BY DEF BarredOK
<1>4. CASE G!Take
  <2>1. here' = here /\ missed' = missed
    BY <1>4 DEF G!Take
  <2>2. At({"join"}, g)' => At({"join", "quit"}, g)'
    BY DEF At
  <2>3. ~At({"join", "quit"}, g)
    BY <1>2, <1>4, TakeTells
  <2>4. Coming(queue, {"join"}, g) => Coming(queue', {"join"}, g) \/ At({"join"}, g)'
    BY <1>2, <1>4, TakeTells
  <2>5. QED  BY <1>3, <2>1, <2>2, <2>3, <2>4 DEF LeftSoon
<1>5. CASE Registers
  <2>1. UNCHANGED <<here, queue>> /\ (<<"leave", g>> \in missed => <<"leave", g>> \in missed')
    BY <1>5, RegistersGo
  <2>2. At({"join", "quit"}, g) => At({"join", "quit"}, g)'
    <3>1. CASE gateway' = gateway
      BY <3>1 DEF At
    <3>2. CASE gateway' # gateway
      <4>1. gateway.at \in {"creates", "set"}
        BY <1>5, <3>2 DEF Registers, G!GatewayCreates, G!GatewaySets, G!Reload, G!ReloadCreates,
                          G!ReloadSets
      <4>2. QED  BY <4>1 DEF At
    <3>3. QED  BY <3>1, <3>2
  <2>3. QED  BY <1>3, <2>1, <2>2 DEF LeftSoon
<1>6. CASE G!Restart
  BY <1>2, <1>6, RestartGoes DEF G!Unheard, LeftSoon
<1>7. CASE G!CheckRestriction
  <2>1. /\ UNCHANGED <<here, queue>> /\ missed \subseteq missed' /\ gateway.at = "join"
        /\ \/ gateway'.at = "quit" /\ gateway'.guild = gateway.guild
           \/ gateway.guild \notin restricted
           \/ <<"leave", gateway.guild>> \in missed'
    BY <1>7, HandlersGo DEF G!CheckRestriction, G!Barred, G!Goes, G!Misses, G!discord
  <2>2. At({"join", "quit"}, g) => At({"join", "quit"}, g)' \/ <<"leave", g>> \in missed'
    BY <1>2, <2>1 DEF At
  <2>3. QED  BY <1>3, <2>1, <2>2 DEF LeftSoon
<1>8. CASE G!Quit
  <2> DEFINE h == gateway.guild
  <2>1. missed \subseteq missed' /\ h \in Guild /\ gateway.at = "quit"
    BY <1>8 DEF G!Quit, GuildAtHand
  <2>2. CASE UNCHANGED <<here, queue>> /\ <<"leave", h>> \in missed'
    BY <1>3, <2>1, <2>2 DEF LeftSoon, At
  <2>3. CASE G!Leaves(h)
    <3>1. g # h /\ g \in here
      BY <2>1, <2>3, LeavesOne
    <3>2. QED  BY <1>3, <2>1, <2>3, <3>1, LeavesTells DEF LeftSoon, At
  <2>4. QED  BY <1>8, <2>2, <2>3 DEF G!Quit
<1>9. CASE G!UpsertGuild \/ G!MarkGuildLeft \/ G!MarkMember
  <2>1. /\ UNCHANGED <<here, queue>> /\ (<<"leave", g>> \in missed => <<"leave", g>> \in missed')
        /\ gateway.at \in {"seen", "update", "leave", "enter", "exit"}
    BY <1>9 DEF G!UpsertGuild, G!MarkGuildLeft, G!MarkMember, G!Heeds, G!Misses, G!discord
  <2>2. ~At({"join", "quit"}, g)
    BY <2>1 DEF At
  <2>3. QED  BY <1>3, <2>1, <2>2 DEF LeftSoon
<1>10. QED  BY <1>4, <1>5, <1>6, <1>7, <1>8, <1>9

LEMMA OutsideShown ==
  ASSUME G!ConstantsOK, G!TypeOK, ShownOK, NEW h \in Guild, Outside(h)
  PROVE  ShownOK'
<1> USE DEF G!store, G!discord
<1>1. UNCHANGED <<gateway, reload, catalog, cached>>
  BY OutsideType
<1>2. ASSUME NEW g \in here'  PROVE ShownAbout(g)'
  <2>1. g \in Guild
    BY OutsideType DEF G!TypeOK
  <2>2. \/ Coming(queue', {"join"}, g)
        \/ /\ g \in here /\ (<<"commands", g>> \in missed => <<"commands", g>> \in missed')
           /\ shown'[g] = shown[g]
    <3>1. CASE G!Invite(h)
      BY <1>2, <2>1, <3>1, OutsideTells DEF G!Invite, G!TypeOK
    <3>2. CASE Outside(h) /\ ~G!Invite(h)
      <4>1. missed' = missed /\ shown' = shown
        BY <3>2 DEF Outside, G!Expel, G!Rename, G!MemberJoins, G!MemberLeaves, G!Moves,
                    G!Block, G!Unblock, G!LeaveLater
      <4>2. QED  BY <1>2, <2>1, <4>1, OutsideTells
    <3>3. QED  BY <3>1, <3>2
  <2>3. /\ Coming(queue, {"join"}, g) => Coming(queue', {"join"}, g)
        /\ Coming(queue, {"ready"}, None) => Coming(queue', {"ready"}, None)
    BY <2>1, OutsideTells
  <2>4. CASE Coming(queue', {"join"}, g)
    BY <2>4 DEF ShownAbout
  <2>5. CASE /\ g \in here /\ (<<"commands", g>> \in missed => <<"commands", g>> \in missed')
             /\ shown'[g] = shown[g]
    <3>1. ShownAbout(g)
      BY <2>5 DEF ShownOK
    <3>2. At({"join", "seen", "quit"}, g) => At({"join", "seen", "quit"}, g)'
      BY <1>1 DEF At
    <3>3. QED  BY <1>1, <2>3, <2>5, <3>1, <3>2 DEF ShownAbout
  <2>6. QED  BY <2>2, <2>4, <2>5
<1>3. QED  BY <1>1, <1>2 DEF ShownOK

LEMMA TakeShown ==
  ASSUME G!ConstantsOK, G!TypeOK, ShownOK, NewsOK', G!Take
  PROVE  ShownOK'
<1>1. /\ UNCHANGED <<here, shown, catalog, reload, missed>> /\ gateway.at = "idle"
      /\ gateway'.at = "creates" => gateway'.todo = cached
  <2>1. UNCHANGED <<here, shown, catalog, reload, missed>> /\ gateway.at = "idle"
    BY DEF G!Take
  <2>2. Head(queue).kind # "ready" => gateway'.at # "creates"
    BY TakeGoes
  <2>3. QED  BY <2>1, <2>2, TakeGoes
<1>2. ASSUME NEW g \in here'  PROVE ShownAbout(g)'
  <2>1. g \in Guild /\ ShownAbout(g)
    BY <1>1, <1>2 DEF G!TypeOK, ShownOK
  <2>2. g \in cached' \/ Coming(queue', {"join"}, g)
    BY <1>2, <2>1 DEF NewsOK, GuildNews
  <2>3. /\ ~At({"join", "seen", "quit"}, g)
        /\ Coming(queue, {"join"}, g) => Coming(queue', {"join"}, g) \/ At({"join"}, g)'
        /\ Coming(queue, {"ready"}, None) => Coming(queue', {"ready"}, None) \/ gateway'.at = "creates"
    BY <2>1, TakeTells
  <2>4. At({"join"}, g)' => At({"join", "seen", "quit"}, g)'
    BY DEF At
  <2>5. QED  BY <1>1, <2>1, <2>2, <2>3, <2>4 DEF ShownAbout
<1>3. QED  BY <1>1, <1>2 DEF ShownOK

LEMMA HandlersShown ==
  ASSUME G!ConstantsOK, G!TypeOK, GuildAtHand, ShownOK,
         \/ G!CheckRestriction \/ G!Quit \/ G!UpsertGuild \/ G!MarkGuildLeft \/ G!MarkMember
  PROVE  ShownOK'
<1> USE DEF G!discord
<1> DEFINE h == gateway.guild
<1>1. UNCHANGED <<shown, cached, catalog, reload>>
  BY DEF G!CheckRestriction, G!Quit, G!UpsertGuild, G!MarkGuildLeft, G!MarkMember
<1>2. gateway.at \notin {"creates", "set"} /\ h \in Guild
  BY DEF GuildAtHand, G!CheckRestriction, G!Quit, G!UpsertGuild, G!MarkGuildLeft, G!MarkMember
<1>3. ASSUME NEW g \in here'  PROVE ShownAbout(g)'
  <2>1. g \in here
    BY <1>3 DEF G!CheckRestriction, G!Quit, G!UpsertGuild, G!MarkGuildLeft, G!MarkMember, G!Leaves
  <2>2. ShownAbout(g)
    BY <2>1 DEF ShownOK
  <2>3. <<"commands", g>> \in missed => <<"commands", g>> \in missed'
    BY DEF G!CheckRestriction, G!Quit, G!UpsertGuild, G!MarkGuildLeft, G!MarkMember, G!Misses,
           G!Heeds
  <2>4. \A kinds, x : Coming(queue, kinds, x) => Coming(queue', kinds, x)
    <3>1. CASE queue' = queue
      BY <3>1
    <3>2. CASE G!Leaves(h)
      BY <1>2, <3>2, LeavesTells
    <3>3. QED
      BY <3>1, <3>2 DEF G!CheckRestriction, G!Quit, G!UpsertGuild, G!MarkGuildLeft, G!MarkMember
  <2>5. At({"join", "seen", "quit"}, g) =>
          \/ At({"join", "seen", "quit"}, g)' \/ <<"commands", g>> \in missed'
          \/ gateway'.at = "creates" /\ g \in gateway'.todo
    <3>1. CASE G!CheckRestriction
      BY ZenonT(40), <3>1, HandlersGo DEF G!CheckRestriction, G!Goes, At
    <3>2. CASE G!Quit
      <4>1. g = h => <<"commands", g>> \in missed'
        BY <1>2, <1>3, <3>2 DEF G!Quit, G!Leaves
      <4>2. QED  BY <4>1 DEF At
    <3>3. CASE G!UpsertGuild /\ gateway.at = "seen"
      <4>1. gateway' = [gateway EXCEPT !.at = "creates", !.todo = {h}] /\ {h} \in SUBSET Guild
        BY <1>2, <3>3 DEF G!UpsertGuild
      <4>2. gateway'.at = "creates" /\ gateway'.todo = {h}
        BY <4>1, HandlersGo
      <4>3. QED  BY <4>2 DEF At
    <3>4. CASE (G!UpsertGuild /\ gateway.at = "update") \/ G!MarkGuildLeft \/ G!MarkMember
      BY <3>4 DEF At, G!MarkGuildLeft, G!MarkMember
    <3>5. QED  BY <3>1, <3>2, <3>3, <3>4 DEF G!UpsertGuild
  <2>6. QED  BY <1>1, <1>2, <2>2, <2>3, <2>4, <2>5 DEF ShownAbout
<1>4. QED  BY <1>1, <1>3 DEF ShownOK

\* Of the guilds a registration shows or leaves out, each shows the last catalog or
\* is missed.
LEMMA ShowsOne ==
  ASSUME G!ConstantsOK, G!TypeOK, NEW p \in {gateway, reload}, NEW todo, NEW g \in here,
         UNCHANGED catalog,
         \/ p.todo = {} /\ todo = {} /\ UNCHANGED <<shown, missed>>
         \/ G!Refused(p) /\ todo = {}
         \/ \E h \in p.todo : G!Shows(p, h) /\ todo = p.todo \ {h}
  PROVE  /\ <<"commands", g>> \in missed \/ shown[g] = catalog =>
              <<"commands", g>> \in missed' \/ shown'[g] = catalog'
         /\ g \in p.todo => g \in todo \/ <<"commands", g>> \in missed' \/ shown'[g] = catalog'
<1>1. p.todo \subseteq Guild /\ g \in Guild /\ shown \in [Guild -> 0..MaxCatalogs]
  BY DEF G!TypeOK, G!Work
<1>2. CASE p.todo = {} /\ todo = {} /\ UNCHANGED <<shown, missed>>
  BY <1>2
<1>3. CASE G!Refused(p) /\ todo = {}
  BY <1>3 DEF G!Refused
<1>4. CASE \E h \in p.todo : G!Shows(p, h) /\ todo = p.todo \ {h}
  <2>1. PICK h \in p.todo : G!Shows(p, h) /\ todo = p.todo \ {h}
    BY <1>4
  <2>2. CASE g = h
    BY <1>1, <2>1, <2>2 DEF G!Shows
  <2>3. CASE g # h
    BY <1>1, <2>1, <2>3 DEF G!Shows
  <2>4. QED  BY <2>2, <2>3
<1>5. QED  BY <1>2, <1>3, <1>4

LEMMA RegistersShown ==
  ASSUME G!ConstantsOK, G!TypeOK, ShownOK, NewsOK, Registers
  PROVE  ShownOK'
<1>1. UNCHANGED <<here, queue, cached>> /\ here \subseteq Guild /\ cached \subseteq Guild
  BY RegistersGo DEF G!TypeOK
<1>2. ASSUME NEW g \in here  PROVE ShownAbout(g) /\ g \in Guild
  BY <1>1 DEF ShownOK
<1>3. CASE G!GatewayCreates
  <2>1. /\ UNCHANGED <<shown, missed, catalog, reload>> /\ gateway.at = "creates"
        /\ gateway'.at = "set" /\ gateway'.todo = gateway.todo
    BY <1>3, HandlersGo DEF G!GatewayCreates, G!discord
  <2>2. \A g : ~At({"join", "seen", "quit"}, g)
    BY <2>1 DEF At
  <2>3. \A g \in here : ShownAbout(g)'
    BY <1>1, <1>2, <2>1, <2>2 DEF ShownAbout
  <2>4. QED  BY <1>1, <2>1, <2>3 DEF ShownOK
<1>4. CASE G!GatewaySets
  <2>1. gateway.at = "set" /\ UNCHANGED <<catalog, reload>>
    BY <1>4 DEF G!GatewaySets
  <2>2. PICK todo \in SUBSET Guild :
          /\ \/ gateway.todo = {} /\ todo = {} /\ UNCHANGED <<shown, missed>>
             \/ G!Refused(gateway) /\ todo = {}
             \/ \E h \in gateway.todo : G!Shows(gateway, h) /\ todo = gateway.todo \ {h}
          /\ todo = {} \/ (gateway'.at = "set" /\ gateway'.todo = todo)
    <3>1. CASE \E h \in gateway.todo :
                 G!Shows(gateway, h) /\ gateway' = [gateway EXCEPT !.todo = gateway.todo \ {h}]
      <4>1. PICK h \in gateway.todo :
              G!Shows(gateway, h) /\ gateway' = [gateway EXCEPT !.todo = gateway.todo \ {h}]
        BY <3>1
      <4>2. gateway.todo \ {h} \in SUBSET Guild
        BY DEF G!TypeOK, G!Work
      <4>3. gateway'.at = "set" /\ gateway'.todo = gateway.todo \ {h}
        BY <2>1, <4>1, <4>2, HandlersGo
      <4>4. QED  BY <4>1, <4>2, <4>3
    <3>2. CASE \/ gateway.todo = {} /\ UNCHANGED <<shown, missed>>
               \/ G!Refused(gateway)
      BY <3>2
    <3>3. QED  BY <1>4, <3>1, <3>2 DEF G!GatewaySets
  <2>3. ASSUME NEW g \in here  PROVE ShownAbout(g)'
    <3>1. ~At({"join", "seen", "quit"}, g)
      BY <2>1 DEF At
    <3>2. /\ <<"commands", g>> \in missed \/ shown[g] = catalog =>
               <<"commands", g>> \in missed' \/ shown'[g] = catalog'
          /\ g \in gateway.todo =>
               g \in todo \/ <<"commands", g>> \in missed' \/ shown'[g] = catalog'
      BY <2>1, <2>2, ShowsOne
    <3>3. QED  BY <1>1, <1>2, <2>1, <2>2, <3>1, <3>2 DEF ShownAbout
  <2>4. QED  BY <1>1, <2>1, <2>3 DEF ShownOK
<1>5. CASE G!Reload
  <2>1. /\ UNCHANGED <<shown, missed, gateway>> /\ reload' = [G!Idle EXCEPT !.at = "creates"]
    BY <1>5 DEF G!Reload, G!discord
  <2>2. reload'.at = "creates"
    BY <2>1 DEF G!Idle
  <2>3. ASSUME NEW g \in here  PROVE ShownAbout(g)'
    <3>1. g \in cached \/ Coming(queue, {"join"}, g)
      BY <1>2 DEF NewsOK, GuildNews
    <3>2. QED  BY <1>1, <2>2, <3>1 DEF ShownAbout
  <2>4. QED  BY <1>1, <2>2, <2>3 DEF ShownOK
<1>6. CASE G!ReloadCreates
  <2>1. /\ UNCHANGED <<shown, missed, catalog, gateway>> /\ reload.at = "creates"
        /\ reload' = [G!Creates(reload) EXCEPT !.todo = cached]
    BY <1>6 DEF G!ReloadCreates, G!InCachedGuilds, G!discord
  <2>2. reload'.at = "set" /\ reload'.todo = cached /\ reload'.commands = catalog
    <3>1. /\ G!Creates(reload) \in G!Work /\ G!Creates(reload).at = "set"
          /\ G!Creates(reload).commands = catalog
      BY HandlersGo
    <3>2. QED  BY <2>1, <3>1 DEF G!Work
  <2>3. ASSUME NEW g \in here  PROVE ShownAbout(g)'
    <3>1. At({"join", "seen", "quit"}, g) => At({"join", "seen", "quit"}, g)'
      BY <2>1 DEF At
    <3>2. QED  BY <1>1, <1>2, <2>1, <2>2, <3>1 DEF ShownAbout
  <2>4. QED  BY <1>1, <2>1, <2>2, <2>3 DEF ShownOK
<1>7. CASE G!ReloadSets
  <2>1. reload.at = "set" /\ UNCHANGED <<catalog, gateway>>
    BY <1>7 DEF G!ReloadSets
  <2>2. PICK todo \in SUBSET Guild :
          /\ \/ reload.todo = {} /\ todo = {} /\ UNCHANGED <<shown, missed>>
             \/ G!Refused(reload) /\ todo = {}
             \/ \E h \in reload.todo : G!Shows(reload, h) /\ todo = reload.todo \ {h}
          /\ \/ todo = {} /\ reload'.at = "idle"
             \/ reload'.at = "set" /\ reload'.todo = todo /\ reload'.commands = reload.commands
    <3>1. CASE \E h \in reload.todo :
                 G!Shows(reload, h) /\ reload' = [reload EXCEPT !.todo = reload.todo \ {h}]
      <4>1. PICK h \in reload.todo :
              G!Shows(reload, h) /\ reload' = [reload EXCEPT !.todo = reload.todo \ {h}]
        BY <3>1
      <4>2. reload.todo \ {h} \in SUBSET Guild
        BY DEF G!TypeOK, G!Work
      <4>3. /\ reload'.at = "set" /\ reload'.todo = reload.todo \ {h}
            /\ reload'.commands = reload.commands
        BY <2>1, <4>1, <4>2, HandlersGo
      <4>4. QED  BY <4>1, <4>2, <4>3
    <3>2. CASE /\ reload' = G!Idle
               /\ \/ reload.todo = {} /\ UNCHANGED <<shown, missed>>
                  \/ G!Refused(reload)
      BY <3>2, HandlersGo
    <3>3. QED  BY <1>7, <3>1, <3>2 DEF G!ReloadSets
  <2>3. ASSUME NEW g \in here  PROVE ShownAbout(g)'
    <3>1. At({"join", "seen", "quit"}, g) => At({"join", "seen", "quit"}, g)'
      BY <2>1 DEF At
    <3>2. /\ <<"commands", g>> \in missed \/ shown[g] = catalog =>
               <<"commands", g>> \in missed' \/ shown'[g] = catalog'
          /\ g \in reload.todo =>
               g \in todo \/ <<"commands", g>> \in missed' \/ shown'[g] = catalog'
      BY <2>1, <2>2, ShowsOne
    <3>3. QED  BY <1>1, <1>2, <2>1, <2>2, <3>1, <3>2 DEF ShownAbout
  <2>4. reload'.at = "set" => reload'.commands = catalog'
    BY <2>1, <2>2 DEF ShownOK
  <2>5. QED  BY <1>1, <2>3, <2>4 DEF ShownOK
<1>8. QED  BY <1>3, <1>4, <1>5, <1>6, <1>7 DEF Registers

LEMMA RestartShown ==
  ASSUME G!ConstantsOK, G!TypeOK, G!Restart
  PROVE  ShownOK'
<1>1. reload'.at = "idle" /\ cached' = here /\ here' = here /\ Coming(queue', {"ready"}, None)
  BY RestartGoes
<1>2. QED  BY <1>1 DEF ShownOK, ShownAbout

LEMMA GatewayKept ==
  ASSUME GatewayInv, [G!Next]_(G!vars)
  PROVE  GatewayInv'
<1> USE DEF GatewayInv
<1>1. CASE UNCHANGED G!vars
  BY <1>1 DEF G!vars, G!TypeOK, G!ConstantsOK, GuildAtHand, NewsOK, GuildNews, MemberNews, RowsOK,
              RowsAbout, BarredOK, LeftSoon, ShownOK, ShownAbout, At
<1>2. CASE \E g \in Guild : Outside(g)
  <2>1. G!TypeOK' /\ gateway' = gateway
    BY <1>2, OutsideType
  <2>2. GuildAtHand'
    BY <2>1 DEF GuildAtHand
  <2>3. QED
    BY <1>2, <2>1, <2>2, OutsideNews, OutsideRows, OutsideBarred, OutsideShown DEF G!ConstantsOK
<1>3. CASE G!Take
  BY <1>3, TakeType, TakeNews, TakeRows, GatewayBarred, TakeShown DEF G!ConstantsOK
<1>4. CASE G!CheckRestriction \/ G!Quit \/ G!UpsertGuild \/ G!MarkGuildLeft \/ G!MarkMember
  BY <1>4, HandlersType, HandlersNews, HandlersRows, GatewayBarred, HandlersShown DEF G!ConstantsOK
<1>5. CASE Registers
  <2>1. GuildAtHand'
    BY <1>5, RegistersGo DEF GuildAtHand
  <2>2. QED
    BY <1>5, <2>1, RegistersGo, RegistersNews, RegistersRows, GatewayBarred, RegistersShown
       DEF G!ConstantsOK
<1>6. CASE G!Restart
  <2>1. GuildAtHand'
    BY <1>6, RestartGoes DEF GuildAtHand
  <2>2. QED
    BY <1>6, <2>1, RestartGoes, RegistersNews, RegistersRows, GatewayBarred, RestartShown
       DEF G!ConstantsOK
<1>7. QED  BY <1>1, <1>2, <1>3, <1>4, <1>5, <1>6 DEF G!Next, Outside, Registers

LEMMA GatewayStarts ==
  ASSUME G!ConstantsOK, G!Init
  PROVE  GatewayInv
<1> USE DEF G!Init
<1>1. /\ DOMAIN queue = {1} /\ queue[1] = G!Ready /\ G!Ready.kind = "ready" /\ G!Ready.guild = None
      /\ queue \in Seq(G!Message \cup {G!Ready})
  BY DEF G!Ready
<1>2. G!Idle \in G!Work /\ G!Idle.at = "idle"
  BY DEF G!ConstantsOK, G!Idle, G!Work
<1>3. G!TypeOK
  BY <1>1, <1>2 DEF G!TypeOK, G!ConstantsOK, G!Row, G!Unheard, G!Thing
<1>4. \A g, wrong, right : "ready" \notin wrong => Corrected(queue, g, wrong, right)
  BY <1>1 DEF Corrected, Is
<1>5. \A kinds, g : "idle" \notin kinds => ~At(kinds, g)
  BY <1>2 DEF At
<1>6. NewsOK
  BY <1>4, <1>5 DEF NewsOK, GuildNews, MemberNews
<1>7. RowsOK
  BY DEF RowsOK, RowsAbout, G!Unheard
<1>8. BarredOK
  BY DEF BarredOK
<1>9. ShownOK
  <2>1. Coming(queue, {"ready"}, None)
    BY <1>1 DEF Coming, Is
  <2>2. QED  BY <1>2, <2>1 DEF ShownOK, ShownAbout
<1>10. QED  BY <1>2, <1>3, <1>6, <1>7, <1>8, <1>9 DEF GatewayInv, GuildAtHand

LEMMA GatewayInvariant == ASSUME G!ConstantsOK PROVE G!Spec => []GatewayInv
<1>1. G!Init => GatewayInv
  BY GatewayStarts
<1>2. GatewayInv /\ [G!Next]_(G!vars) => GatewayInv'
  BY GatewayKept
<1>3. QED  BY <1>1, <1>2, PTL DEF G!Spec

\* When all events are handled, nothing is on its way or at hand.
LEMMA QuietIs ==
  ASSUME G!Quiet
  PROVE  \A kinds, g : ~Coming(queue, kinds, g) /\ ("idle" \notin kinds => ~At(kinds, g))
BY DEF G!Quiet, Coming, At

\* Every reachable state of Gateway is well typed.
THEOREM GatewayTypes == ASSUME G!ConstantsOK PROVE G!Spec => []G!TypeOK
<1>1. GatewayInv => G!TypeOK
  BY DEF GatewayInv
<1>2. QED  BY <1>1, GatewayInvariant, PTL

\* When all events are handled, the rows of guilds and members say who is there, and
\* a guild restricted before the bot joined is left, however events, failures,
\* restarts and /block fell together.
THEOREM GuildsAreFollowed == ASSUME G!ConstantsOK PROVE G!Spec => []G!GuildsFollow
<1>1. GatewayInv => G!GuildsFollow
  <2> SUFFICES ASSUME GatewayInv, G!Quiet  PROVE G!GuildsFollow
    BY DEF G!GuildsFollow, G!SeenFollows, G!RestrictedIsLeft
  <2>1. G!SeenFollows
    BY QuietIs DEF GatewayInv, RowsOK, RowsAbout, G!SeenFollows
  <2>2. G!RestrictedIsLeft
    BY QuietIs DEF GatewayInv, BarredOK, LeftSoon, G!RestrictedIsLeft
  <2>3. QED  BY <2>1, <2>2 DEF G!GuildsFollow
<1>2. QED  BY <1>1, GatewayInvariant, PTL

\* When all events are handled and no reload runs, every guild the bot is in shows
\* the commands of the last catalog, or its last call failed or was overtaken.
THEOREM CommandsAreCurrent == ASSUME G!ConstantsOK PROVE G!Spec => []G!CommandsCurrent
<1>1. GatewayInv => G!CommandsCurrent
  <2> SUFFICES ASSUME GatewayInv, G!Quiet, reload.at = "idle", NEW g \in here
               PROVE  <<"commands", g>> \in missed \/ shown[g] = catalog
    BY DEF G!CommandsCurrent
  <2>1. ShownAbout(g) /\ gateway.at = "idle"
    BY DEF GatewayInv, ShownOK, G!Quiet
  <2>2. QED  BY <2>1, QuietIs DEF ShownAbout
<1>2. QED  BY <1>1, GatewayInvariant, PTL

-----------------------------------------------------------------------------
(* The run: a behaviour of one scene is one of each part, of which the     *)
(* other parts only stand still.                                           *)

LEMMA PartsRun == GuildSpec => Spec /\ G!Spec /\ A!Spec
<1>1. Scenes => Init /\ G!Init /\ A!Init
  BY DEF Scenes
<1>2. [Plays]_<<scene, vars, gvars, avars>> =>
        [Next]_vars /\ [G!Next]_(G!vars) /\ [A!Next]_(A!vars)
  BY DEF Plays, gvars, avars, G!vars, A!vars, A!setup
<1>3. QED  BY <1>1, <1>2, PTL DEF GuildSpec, Spec, G!Spec, A!Spec

\* The limiter of the run's plugins keeps its budget (guildMutationLimiter).
THEOREM TokensInGuild == GuildSpec => []TokenBudget
<1>1. A!Spec => []A!TokenBudget
  BY ConstantsAssumption, TokensAreBudgeted
<1>2. QED  BY <1>1, PartsRun, PTL DEF TokenBudget

\* The run's events and jobs are handed on, and act as granted (FireEvent, runJob).
THEOREM EventsInGuild == GuildSpec => []RunsAsGranted
<1>1. A!Spec => []A!RunsAsGranted
  BY ConstantsAssumption, EventsRunAsGranted
<1>2. QED  BY <1>1, PartsRun, PTL DEF RunsAsGranted

\* The run's rows of guilds and members follow what Discord said (gateway/handlers.go).
THEOREM SeenInGuild == GuildSpec => []GuildsFollow
<1>1. G!Spec => []G!GuildsFollow
  BY ConstantsAssumption, GuildsAreFollowed
<1>2. QED  BY <1>1, PartsRun, PTL DEF GuildsFollow

\* The run's guilds show the commands of the last catalog (RegisterInCachedGuilds).
THEOREM CommandsInGuild == GuildSpec => []CommandsCurrent
<1>1. G!Spec => []G!CommandsCurrent
  BY ConstantsAssumption, CommandsAreCurrent
<1>2. QED  BY <1>1, PartsRun, PTL DEF CommandsCurrent

==============================================================================
