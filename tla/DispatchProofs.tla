---------------------------- MODULE DispatchProofs ----------------------------
(***************************************************************************)
(* Theorems about Dispatch for any users, plugins, commands and cooldowns. *)
(***************************************************************************)
EXTENDS Dispatch, TLAPS

Deciding == {"restrict", "cooldown", "lookup", "module", "config", "call"}

\* Nothing is answered while the handler decides; the plugin's code may defer;
\* the answer then sent fits what Discord has, or what went wrong is known.
AnswerOK ==
    /\ run.at \in Deciding => event.answer = "none" /\ ~run.deferred
    /\ run.at = "running" =>
        IF run.deferred THEN event.answer = "thinking" ELSE event.answer = "none" \/ event.lost
    /\ run.at = "reply" =>
        IF run.say = "update" THEN event.answer # "none"
        ELSE event.answer = "none" \/ event.lost \/ event.misused
    /\ Resolved

\* What the steps already behind established.
Behind ==
    /\ run.at = "restrict" => event.of \in Command
    /\ run.at = "cooldown" => event.of \in Command \cup Component \cup Modal
    /\ run.at \in {"module", "config", "call"} => event.of \in OfPlugin
    /\ run.at \in {"module", "config"} => ~event.dm
    /\ run.at \in Deciding \ {"restrict"} /\ event.of \in Command => ~Restricted
    /\ run.deferred => event.of \in Slash

\* What is on now was on since the interaction came, and what was checked with it.
SeenOK ==
    LET t == event.of IN
    /\ run.at \in Deciding => module \subseteq seen.module /\ (Switch \ off) \subseteq seen.guild
    /\ run.at = "config" => PluginOf[t] \in seen.module
    /\ run.at = "call" =>
        /\ (t \in Slash \cup Autocomplete /\ event.dm) \/ PluginOf[t] \in seen.module
        /\ event.dm \/ PluginOf[t] \in seen.guild
        /\ event.dm \/ t \notin Slash \cup Autocomplete \/ RootOf[t] \in seen.guild

IInv == TypeOK /\ AnswerOK /\ Behind /\ SeenOK /\ cooled = used

Runs == [at : {"idle", "restrict", "cooldown", "lookup", "module", "config", "call",
               "running", "reply"},
         snapshot : SUBSET Plugin, deferred : BOOLEAN, say : {"initial", "update"},
         again : BOOLEAN]
Events == [by : User, of : Target, dm : BOOLEAN,
           answer : {"none", "thinking", "shown"}, lost : BOOLEAN, misused : BOOLEAN]
Sights == [module : SUBSET Plugin, guild : SUBSET Switch]

LEMMA DurationNat == ASSUME NEW t \in Command \cup Component \cup Modal
                     PROVE  Duration(t) \in Nat
BY DispatchAssumption DEF Duration, Command, OfPlugin

LEMMA KeyOfKey == ASSUME NEW t \in Command \cup Component \cup Modal
                  PROVE  KeyOf(t) \in Key
BY DispatchAssumption DEF KeyOf, Key, OfPlugin

LEMMA Targets == \A t \in Target : t \in Builtin \/ t \in OfPlugin
BY DEF Target, Command, OfPlugin

LEMMA Switches == \A t \in OfPlugin :
                    /\ PluginOf[t] \in Plugin => PluginOf[t] \in Switch
                    /\ t \in Slash \cup Autocomplete => RootOf[t] \in Switch /\ PluginOf[t] \in Plugin
BY DispatchAssumption DEF Switch

\* The interaction and the records of a handler keep their shape.
LEMMA Shapes ==
  ASSUME TypeOK
  PROVE  /\ event \in Events /\ run \in Runs /\ seen \in Sights
         /\ Nothing \in Sights /\ Idle \in Runs /\ IsOn \in Sights
BY DEF TypeOK, Events, Runs, Sights, Nothing, Idle, IsOn

LEMMA InitInv == Init => IInv
<1> SUFFICES ASSUME Init PROVE IInv
  OBVIOUS
<1>1. event \in Events /\ event.answer = "shown"
  BY DispatchAssumption DEF Init, New, Events
<1>2. TypeOK
  BY <1>1, DispatchAssumption DEF Init, TypeOK, Events, Idle, Nothing
<1>3. QED
  BY <1>1, <1>2 DEF IInv, AnswerOK, Behind, SeenOK, Resolved, Deciding, Init, Idle

-----------------------------------------------------------------------------
\* The handler's steps.

LEMMA ReceiveInv == ASSUME IInv, Receive PROVE IInv'
<1>1. PICK u \in User, t \in Target, dm \in BOOLEAN :
        /\ event' = New(u, t, dm)
        /\ run' = [Idle EXCEPT !.snapshot = IF t \in Slash \cup Autocomplete THEN routed ELSE {},
                               !.at = IF t \in Command THEN "restrict"
                                      ELSE IF t \in Autocomplete THEN "lookup" ELSE "cooldown"]
  BY DEF Receive
<1>2. event' \in Events /\ event'.of = t /\ event'.answer = "none"
  BY <1>1 DEF New, Events
<1>3. /\ run' \in Runs /\ ~run'.deferred
      /\ run'.at = IF t \in Command THEN "restrict"
                   ELSE IF t \in Autocomplete THEN "lookup" ELSE "cooldown"
  BY <1>1 DEF Runs, Idle, IInv, TypeOK
<1>4. TypeOK'
  BY <1>2, <1>3, Shapes DEF Receive, IInv, TypeOK, Events, Runs, Sights, switches, cools
<1>5. AnswerOK'
  BY <1>2, <1>3 DEF AnswerOK, Deciding, Resolved
<1>6. Behind'
  BY <1>2, <1>3 DEF Behind, Deciding, Target, OfPlugin, Command
<1>7. SeenOK'
  BY <1>3 DEF SeenOK, Receive, IsOn, switches, Deciding
<1>8. QED  BY <1>4, <1>5, <1>6, <1>7 DEF IInv, Receive, cools

\* A step that ends the deciding with an answer.
LEMMA AnswersInv ==
  ASSUME IInv, NEW again \in BOOLEAN, Answers("initial", again), run.at \in Deciding,
         UNCHANGED <<clock, restricted, switches, cools, event>>
  PROVE  IInv'
<1>1. run' \in Runs /\ run'.at = "reply" /\ run'.say = "initial" /\ run'.deferred = run.deferred
  BY DEF Answers, IInv, TypeOK, Runs
<1>2. TypeOK'
  BY <1>1, Shapes DEF Answers, IInv, TypeOK, Runs, Sights, switches, cools
<1>3. QED
  BY <1>1, <1>2 DEF IInv, AnswerOK, Behind, SeenOK, Resolved, Deciding, cools

\* A step that goes on deciding.
LEMMA GoesInv ==
  ASSUME IInv, NEW place \in Deciding \ {"restrict"}, Goes(place), run.at \in Deciding,
         UNCHANGED <<clock, restricted, switches, event>>,
         cooled' \in [User \X Key -> 0..clock], used' = cooled',
         event.of \in Command => ~Restricted,
         place = "cooldown" => event.of \in Command,
         place \in {"module", "config", "call"} => event.of \in OfPlugin,
         place \in {"module", "config"} => ~event.dm,
         place = "config" => PluginOf[event.of] \in seen.module,
         LET t == event.of IN
           place = "call" =>
            /\ (t \in Slash \cup Autocomplete /\ event.dm) \/ PluginOf[t] \in seen.module
            /\ event.dm \/ PluginOf[t] \in seen.guild
            /\ event.dm \/ t \notin Slash \cup Autocomplete \/ RootOf[t] \in seen.guild
  PROVE  IInv'
<1>1. run' \in Runs /\ run'.at = place /\ run'.deferred = run.deferred
  BY DEF Goes, IInv, TypeOK, Runs, Deciding
<1>2. TypeOK'
  BY <1>1 DEF Goes, IInv, TypeOK, Runs, switches
<1>3. AnswerOK'
  BY <1>1 DEF IInv, AnswerOK, Deciding, Resolved
<1>4. Behind'
  BY <1>1 DEF IInv, Behind, Restricted, Deciding
<1>5. SeenOK'
  BY <1>1 DEF Goes, IInv, SeenOK, switches, Deciding
<1>6. QED  BY <1>2, <1>3, <1>4, <1>5 DEF IInv

LEMMA BeginsInv ==
  ASSUME IInv, Begins, run.at \in Deciding,
         UNCHANGED <<clock, restricted, switches, cools, event>>
  PROVE  IInv'
<1>1. run' \in Runs /\ run'.at = "running" /\ run'.deferred = run.deferred
  BY DEF Begins, IInv, TypeOK, Runs
<1>2. TypeOK'
  BY <1>1, Shapes DEF Begins, IInv, TypeOK, Runs, Sights, switches, cools
<1>3. QED
  BY <1>1, <1>2 DEF IInv, AnswerOK, Behind, SeenOK, Resolved, Deciding, cools

LEMMA CheckRestrictionsInv == ASSUME IInv, CheckRestrictions PROVE IInv'
<1>1. run.at = "restrict" /\ run.at \in Deciding
  BY DEF CheckRestrictions, At, Deciding
<1>2. CASE Answers("initial", FALSE) \/ (Restricted /\ Answers("initial", TRUE))
  BY <1>1, <1>2, AnswersInv DEF CheckRestrictions
<1>3. CASE ~Restricted /\ Goes("cooldown")
  <2>1. event.of \in Command
    BY <1>1 DEF IInv, Behind
  <2>2. cooled' \in [User \X Key -> 0..clock] /\ used' = cooled'
    BY DEF CheckRestrictions, cools, IInv, TypeOK
  <2>3. QED
    BY <1>1, <1>3, <2>1, <2>2, GoesInv, "cooldown" \in Deciding \ {"restrict"}
    DEF CheckRestrictions, Deciding
<1>4. QED  BY <1>2, <1>3 DEF CheckRestrictions

LEMMA TakeCooldownInv == ASSUME IInv, TakeCooldown PROVE IInv'
<1>1. /\ run.at = "cooldown" /\ run.at \in Deciding /\ "lookup" \in Deciding \ {"restrict"}
      /\ event.of \in Command => ~Restricted
      /\ event.of \in Command \cup Component \cup Modal
  BY DEF TakeCooldown, At, Deciding, IInv, Behind
<1>2. CASE Answers("initial", FALSE) /\ UNCHANGED cools
  BY <1>1, <1>2, AnswersInv DEF TakeCooldown
<1>3. CASE Goes("lookup")
  <2>1. event.by \in User /\ KeyOf(event.of) \in Key /\ clock \in 0..clock
    BY <1>1, KeyOfKey DEF IInv, TypeOK
  <2>2. cooled' \in [User \X Key -> 0..clock] /\ used' = cooled'
    <3>1. CASE UNCHANGED cools
      BY <3>1 DEF cools, IInv, TypeOK
    <3>2. CASE /\ cooled' = [cooled EXCEPT ![<<event.by, KeyOf(event.of)>>] = clock]
               /\ used' = [used EXCEPT ![<<event.by, KeyOf(event.of)>>] = clock]
      BY <2>1, <3>2 DEF IInv, TypeOK
    <3>3. QED  BY <3>1, <3>2 DEF TakeCooldown
  <2>3. QED
    BY <1>1, <1>3, <2>2, GoesInv DEF TakeCooldown
<1>4. QED  BY <1>2, <1>3 DEF TakeCooldown

LEMMA LookupInv == ASSUME IInv, Lookup PROVE IInv'
<1>1. /\ run.at = "lookup" /\ run.at \in Deciding
      /\ {"module", "call"} \subseteq Deciding \ {"restrict"}
      /\ event.of \in Command => ~Restricted
  BY DEF Lookup, At, Deciding, IInv, Behind
<1>2. CASE event.of \in Builtin
  BY <1>1, <1>2, BeginsInv DEF Lookup
<1>3. CASE event.of \notin Builtin /\ ~Known
  BY <1>1, <1>3, AnswersInv DEF Lookup
<1>4. CASE event.of \notin Builtin /\ Known
  <2>1. event.of \in OfPlugin
    BY <1>4, Targets DEF IInv, TypeOK
  <2>2. cooled' \in [User \X Key -> 0..clock] /\ used' = cooled'
    BY DEF Lookup, cools, IInv, TypeOK
  <2>3. event.of \in Slash \cup Autocomplete \/ PluginOf[event.of] \in seen.module
    BY <1>1, <1>4, <2>1 DEF IInv, SeenOK, Known, OfPlugin
  <2>4. CASE event.dm
    BY <1>1, <1>4, <2>1, <2>2, <2>3, <2>4, GoesInv DEF Lookup
  <2>5. CASE ~event.dm
    BY <1>1, <1>4, <2>1, <2>2, <2>5, GoesInv DEF Lookup
  <2>6. QED  BY <2>4, <2>5
<1>5. QED  BY <1>2, <1>3, <1>4

LEMMA CheckModuleInv == ASSUME IInv, CheckModule PROVE IInv'
<1>1. /\ run.at = "module" /\ run.at \in Deciding /\ "config" \in Deciding \ {"restrict"}
      /\ event.of \in OfPlugin /\ ~event.dm
      /\ event.of \in Command => ~Restricted
      /\ module \subseteq seen.module
  BY DEF CheckModule, At, Deciding, IInv, Behind, SeenOK
<1>2. CASE PluginOf[event.of] \in module
  <2>1. cooled' \in [User \X Key -> 0..clock] /\ used' = cooled'
    BY DEF CheckModule, cools, IInv, TypeOK
  <2>2. QED  BY <1>1, <1>2, <2>1, GoesInv DEF CheckModule
<1>3. CASE PluginOf[event.of] \notin module
  BY <1>1, <1>3, AnswersInv DEF CheckModule
<1>4. QED  BY <1>2, <1>3

LEMMA CheckConfigInv == ASSUME IInv, CheckConfig PROVE IInv'
<1>1. /\ run.at = "config" /\ run.at \in Deciding /\ "call" \in Deciding \ {"restrict"}
      /\ event.of \in OfPlugin /\ ~event.dm
      /\ event.of \in Command => ~Restricted
      /\ PluginOf[event.of] \in seen.module
      /\ (Switch \ off) \subseteq seen.guild
  BY DEF CheckConfig, At, Deciding, IInv, Behind, SeenOK
<1>2. CASE Answers("initial", FALSE)
  BY <1>1, <1>2, AnswersInv DEF CheckConfig
<1>3. CASE Allows(event.of) /\ Goes("call")
  <2>1. cooled' \in [User \X Key -> 0..clock] /\ used' = cooled'
    BY DEF CheckConfig, cools, IInv, TypeOK
  <2>2. PluginOf[event.of] \in Switch
    BY <1>1, Switches DEF IInv, TypeOK, Sights
  <2>3. /\ PluginOf[event.of] \in seen.guild
        /\ event.of \in Slash \cup Autocomplete => RootOf[event.of] \in seen.guild
    BY <1>1, <1>3, <2>2, Switches DEF Allows
  <2>4. QED  BY <1>1, <1>3, <2>1, <2>3, GoesInv DEF CheckConfig
<1>4. QED  BY <1>2, <1>3 DEF CheckConfig

LEMMA CallInv == ASSUME IInv, Call PROVE IInv'
<1>1. run.at \in Deciding
  BY DEF Call, At, Deciding
<1>2. QED  BY <1>1, AnswersInv, BeginsInv DEF Call

-----------------------------------------------------------------------------
\* The plugin's code, and the answer.

LEMMA ToldEvent ==
  ASSUME TypeOK, NEW say \in {"initial", "update"}, NEW out \in Outcome,
         NEW answer \in {"thinking", "shown"}, Told(say, out, answer)
  PROVE  /\ event' \in Events
         /\ event'.answer = IF Takes(say, out) THEN answer ELSE event.answer
         /\ event'.lost = (event.lost \/ out # "ok")
         /\ event'.misused = event.misused
         /\ event'.of = event.of /\ event'.by = event.by /\ event'.dm = event.dm
BY DEF TypeOK, Told, Events

LEMMA DeferInv == ASSUME IInv, Defer PROVE IInv'
<1>1. PICK out \in Outcome :
        /\ Told("initial", out, "thinking")
        /\ run' = [run EXCEPT !.deferred = Succeeds("initial", out)]
  BY DEF Defer
<1>2. /\ run.at = "running" /\ ~run.deferred
      /\ event.answer = "none" \/ event.lost
  BY DEF Defer, At, IInv, AnswerOK
<1>3. /\ event' \in Events
      /\ event'.answer = IF Takes("initial", out) THEN "thinking" ELSE event.answer
      /\ event'.lost = (event.lost \/ out # "ok")
  BY <1>1, ToldEvent DEF IInv
<1>4. /\ run' \in Runs /\ run'.at = "running"
      /\ run'.deferred = Succeeds("initial", out)
  BY <1>1, <1>2 DEF IInv, TypeOK, Runs, Succeeds, Takes
<1>5. TypeOK'
  BY <1>3, <1>4 DEF Defer, IInv, TypeOK, Runs, Events, switches, cools
<1>6. AnswerOK'
  BY <1>2, <1>3, <1>4 DEF AnswerOK, Succeeds, Takes, Deciding, Resolved
<1>7. Behind' /\ SeenOK'
  BY <1>3, <1>4, ToldEvent, <1>1 DEF Behind, SeenOK, Deciding, Defer, IInv
<1>8. QED  BY <1>5, <1>6, <1>7 DEF IInv, Defer, cools

\* The code ends with an answer that fits.
LEMMA EndsInv ==
  ASSUME IInv, NEW say \in {"initial", "update"}, NEW again \in BOOLEAN,
         Answers(say, again), run.at = "running", event' \in Events,
         event'.answer = event.answer, event'.lost = event.lost, event'.of = event.of,
         IF say = "update" THEN event.answer # "none"
         ELSE event.answer = "none" \/ event.lost \/ event'.misused,
         restricted' \subseteq User \cup {Guild}, UNCHANGED <<clock, switches, cools>>
  PROVE  IInv'
<1>1. run' \in Runs /\ run'.at = "reply" /\ run'.say = say /\ run'.deferred = run.deferred
  BY DEF Answers, IInv, TypeOK, Runs
<1>2. TypeOK'
  BY <1>1, Shapes DEF Answers, IInv, TypeOK, Runs, Events, Sights, switches, cools
<1>3. QED
  BY <1>1, <1>2 DEF IInv, AnswerOK, Behind, SeenOK, Resolved, Deciding, cools

LEMMA ReturnInv == ASSUME IInv, Return PROVE IInv'
<1>1. /\ run.at = "running" /\ event \in Events /\ run.deferred \in BOOLEAN
      /\ IF run.deferred THEN event.answer = "thinking" ELSE event.answer = "none" \/ event.lost
      /\ restricted' \subseteq User \cup {Guild} /\ UNCHANGED <<clock, switches, cools>>
  BY DEF Return, At, IInv, TypeOK, Events, AnswerOK
<1>2. CASE RespondError /\ UNCHANGED event
  <2>1. CASE run.deferred
    BY <1>1, <1>2, <2>1, EndsInv DEF RespondError
  <2>2. CASE ~run.deferred
    BY <1>1, <1>2, <2>2, EndsInv DEF RespondError
  <2>3. QED  BY <2>1, <2>2
<1>3. CASE run.deferred /\ Answers("update", FALSE) /\ UNCHANGED event
  BY <1>1, <1>3, EndsInv
<1>4. CASE Answers("initial", FALSE) /\ event' = [event EXCEPT !.misused = run.deferred]
  <2>1. /\ event' \in Events /\ event'.answer = event.answer /\ event'.lost = event.lost
        /\ event'.misused = run.deferred /\ event'.of = event.of
    BY <1>1, <1>4 DEF Events
  <2>2. QED  BY <1>1, <1>4, <2>1, EndsInv
<1>5. QED  BY <1>2, <1>3, <1>4 DEF Return

LEMMA HandleInv == ASSUME IInv, Handle PROVE IInv'
<1>1. run.at = "running" /\ event \in Events /\ event.of \in Builtin
  BY DEF Handle, At, IInv, TypeOK, Events
<1>2. PICK again \in BOOLEAN : Answers("initial", again)
  BY DEF Handle
<1>3. restricted' \subseteq User \cup {Guild} /\ UNCHANGED <<clock, switches, cools, event>>
  BY DEF Handle, IInv, TypeOK
<1>4. ~run.deferred
  BY <1>1, DispatchAssumption DEF IInv, Behind, OfPlugin
<1>5. event.answer = "none" \/ event.lost
  BY <1>1, <1>4 DEF IInv, AnswerOK
<1>6. QED  BY <1>1, <1>2, <1>3, <1>5, EndsInv

LEMMA ReplyInv == ASSUME IInv, Reply PROVE IInv'
<1>1. PICK out \in Outcome :
        /\ Told(run.say, out, "shown")
        /\ \/ ~Succeeds(run.say, out) /\ Another
           \/ run' = Idle /\ seen' = Nothing
  BY DEF Reply
<1>2. /\ run.at = "reply" /\ run.say \in {"initial", "update"}
      /\ IF run.say = "update" THEN event.answer # "none"
         ELSE event.answer = "none" \/ event.lost \/ event.misused
  BY DEF Reply, At, IInv, TypeOK, AnswerOK
<1>3. /\ event' \in Events /\ event'.of = event.of /\ event'.misused = event.misused
      /\ event'.answer = IF Takes(run.say, out) THEN "shown" ELSE event.answer
      /\ event'.lost = (event.lost \/ out # "ok")
  BY <1>1, <1>2, ToldEvent DEF IInv
<1>4. CASE ~Succeeds(run.say, out) /\ Another
  <2>1. /\ run' \in Runs /\ run'.at = "reply" /\ run'.say = "initial"
        /\ run'.deferred = run.deferred
    BY <1>4 DEF Another, Answers, IInv, TypeOK, Runs
  <2>2. TypeOK'
    BY <1>3, <1>4, <2>1, Shapes
    DEF Another, Answers, Reply, IInv, TypeOK, Runs, Events, Sights, switches, cools
  <2>3. AnswerOK'
    BY <1>2, <1>3, <1>4, <2>1 DEF AnswerOK, Succeeds, Takes, Deciding, Resolved
  <2>4. QED
    BY <1>3, <2>1, <2>2, <2>3 DEF IInv, Behind, SeenOK, Deciding, Reply, cools
<1>5. CASE run' = Idle /\ seen' = Nothing
  <2>1. TypeOK'
    BY <1>3, <1>5, Shapes DEF Reply, IInv, TypeOK, Runs, Events, Sights, switches, cools
  <2>2. AnswerOK'
    BY <1>2, <1>3, <1>5 DEF AnswerOK, Takes, Idle, Outcome, Deciding, Resolved
  <2>3. QED
    BY <1>5, <2>1, <2>2 DEF IInv, Behind, SeenOK, Deciding, Reply, cools, Idle
<1>6. QED  BY <1>1, <1>4, <1>5

-----------------------------------------------------------------------------
\* What happens between the steps.

\* The handler stands still while what is on changes; seen keeps up.
LEMMA BetweenInv ==
  ASSUME IInv, UNCHANGED <<restricted, cools, event, run>>, TypeOK',
         run.at \in Deciding =>
            /\ module' \subseteq seen'.module /\ (Switch \ off') \subseteq seen'.guild
            /\ seen.module \subseteq seen'.module /\ seen.guild \subseteq seen'.guild
  PROVE  IInv'
<1>1. AnswerOK' /\ Behind'
  BY DEF IInv, AnswerOK, Behind, Restricted, Resolved
<1>2. SeenOK'
  BY DEF IInv, SeenOK, Deciding
<1>3. QED  BY <1>1, <1>2 DEF IInv, cools

LEMMA SeesMore ==
  ASSUME TypeOK, NEW on \in SUBSET Plugin, NEW guild \in SUBSET Switch, Sees(on, guild)
  PROVE  /\ seen' \in Sights
         /\ run.at \in Deciding => /\ seen'.module = seen.module \cup on
                                   /\ seen'.guild = seen.guild \cup guild
BY Shapes DEF Sees, TypeOK, Sights, Deciding

LEMMA EnvironmentInv == ASSUME IInv, Environment PROVE IInv'
<1> USE DEF switches, cools
<1>1. TypeOK /\ (run.at \in Deciding => module \subseteq seen.module /\ (Switch \ off) \subseteq seen.guild)
  BY DEF IInv, SeenOK
<1>2. CASE Tick
  <2>1. clock' \in 1..MaxClock /\ 0..clock \subseteq 0..clock'
    BY <1>1, <1>2, DispatchAssumption DEF Tick, TypeOK
  <2>2. TypeOK'
    BY <1>1, <1>2, <2>1 DEF Tick, TypeOK
  <2>3. QED  BY <1>1, <1>2, <2>2, BetweenInv DEF Tick
<1>3. CASE Save
  <2>1. PICK p \in Plugin : \E new \in SUBSET SwitchesOf(p) : off' = (off \ SwitchesOf(p)) \cup new
    BY <1>3 DEF Save
  <2>2. SwitchesOf(p) \subseteq Switch
    BY DEF SwitchesOf, Switch
  <2>3. off' \subseteq Switch
    BY <1>1, <2>1, <2>2 DEF TypeOK
  <2>4. /\ seen' \in Sights
        /\ run.at \in Deciding => /\ seen'.module = seen.module \cup {}
                                  /\ seen'.guild = seen.guild \cup (Switch \ off')
    BY <1>1, <1>3, <2>3, SeesMore DEF Save
  <2>5. TypeOK'
    BY <1>1, <1>3, <2>3, <2>4 DEF Save, TypeOK, Sights
  <2>6. QED  BY <1>1, <1>3, <2>4, <2>5, BetweenInv DEF Save
<1>4. CASE Publish
  <2>1. module' \in SUBSET Plugin /\ loaded \in SUBSET Plugin
    BY <1>1, <1>4 DEF Publish, TypeOK
  <2>2. /\ seen' \in Sights
        /\ run.at \in Deciding => /\ seen'.module = seen.module \cup module'
                                  /\ seen'.guild = seen.guild \cup {}
    BY <1>1, <1>4, <2>1, SeesMore DEF Publish
  <2>3. TypeOK'
    BY <1>1, <1>4, <2>1, <2>2 DEF Publish, TypeOK, Sights
  <2>4. QED  BY <1>1, <1>4, <2>2, <2>3, BetweenInv DEF Publish
<1>5. CASE Swap
  <2>1. TypeOK'
    BY <1>1, <1>5 DEF Swap, TypeOK
  <2>2. QED  BY <1>1, <1>5, <2>1, BetweenInv DEF Swap
<1>6. CASE GivesUp
  <2>1. TypeOK'
    BY <1>1, <1>6 DEF GivesUp, TypeOK
  <2>2. QED  BY <1>1, <1>6, <2>1, BetweenInv DEF GivesUp
<1>7. CASE PublishRoutes
  <2>1. TypeOK'
    BY <1>1, <1>7 DEF PublishRoutes, TypeOK
  <2>2. QED  BY <1>1, <1>7, <2>1, BetweenInv DEF PublishRoutes
<1>8. QED  BY <1>2, <1>3, <1>4, <1>5, <1>6, <1>7 DEF Environment

-----------------------------------------------------------------------------
LEMMA NextInv == IInv /\ [Next]_vars => IInv'
<1> SUFFICES ASSUME IInv, [Next]_vars PROVE IInv'
  OBVIOUS
<1>1. CASE UNCHANGED vars
  BY <1>1 DEF vars, switches, cools, IInv, TypeOK, AnswerOK, Behind, SeenOK, Resolved, Restricted
<1>2. CASE Step
  BY <1>2, CheckRestrictionsInv, TakeCooldownInv, LookupInv, CheckModuleInv, CheckConfigInv,
     CallInv, ReturnInv, HandleInv, ReplyInv DEF Step
<1>3. QED  BY <1>1, <1>2, ReceiveInv, DeferInv, EnvironmentInv DEF Next

LEMMA Invariance == Spec => []IInv
BY InitInv, NextInv, PTL DEF Spec

\* Every state of the dispatch (commands/application.go, component_dispatch.go,
\* modal_dispatch.go) is well typed.
THEOREM TypeCorrect == Spec => []TypeOK
BY Invariance, PTL DEF IInv

\* Whatever fails, is refused or is reloaded on the way of an interaction through
\* OnCommand, onComponent, onModal or OnAutocomplete, it is answered in full.
THEOREM EveryOneAnswered == Spec => []Resolved
<1>1. IInv => Resolved
  BY DEF IInv, AnswerOK
<1>2. QED  BY <1>1, Invariance, PTL

\* cooldownTracker.Take lets a user through only a cooldown after the last time
\* it did, for every key, duration and time.
THEOREM CooldownsHold == Spec => CooldownHolds
<1> DEFINE Step1 == run.at = "cooldown" /\ run'.at = "lookup" /\ Duration(event.of) > 0 =>
                      LET last == used[<<event.by, KeyOf(event.of)>>]
                      IN last # 0 => clock >= last + Duration(event.of)
<1>1. ASSUME IInv, [Next]_vars PROVE [Step1]_vars
  <2> SUFFICES ASSUME run.at = "cooldown", run'.at = "lookup", Duration(event.of) > 0, Next
               PROVE  LET last == used[<<event.by, KeyOf(event.of)>>]
                      IN last # 0 => clock >= last + Duration(event.of)
    BY <1>1
  <2>1. run \in Runs
    BY <1>1 DEF IInv, TypeOK, Runs
  <2>2. TakeCooldown
    <3>1. run' # run
      OBVIOUS
    <3>2. ~Environment
      BY <3>1 DEF Environment, Tick, Save, Swap, Publish, GivesUp, PublishRoutes
    <3>3. ~(Receive \/ Defer \/ Lookup \/ CheckRestrictions \/ CheckModule \/ CheckConfig
            \/ Call \/ Return \/ Handle \/ Reply)
      BY DEF Receive, Defer, Lookup, CheckRestrictions, CheckModule, CheckConfig, Call, Return,
             Handle, Reply, At
    <3>4. QED  BY <3>2, <3>3 DEF Next, Step
  <2>3. /\ event.of \in Command \cup Component \cup Modal /\ event.by \in User /\ clock \in Nat
        /\ cooled = used /\ cooled \in [User \X Key -> 0..clock]
    BY <1>1 DEF IInv, TypeOK, Behind
  <2>4. Duration(event.of) \in Nat /\ KeyOf(event.of) \in Key
    BY <2>3, DurationNat, KeyOfKey
  <2>5. ~Cooling
    <3>1. ~Answers("initial", FALSE)
      BY <2>1 DEF Answers, Runs
    <3>2. Duration(event.of) # 0
      BY <2>4
    <3>3. QED  BY <2>2, <3>1, <3>2, Zenon DEF TakeCooldown
  <2>6. cooled[<<event.by, KeyOf(event.of)>>] \in Nat
    BY <2>3, <2>4
  <2>7. QED  BY <2>3, <2>4, <2>5, <2>6 DEF Cooling
<1>2. QED  BY <1>1, Invariance, PTL DEF Spec, CooldownHolds

\* A handler whose code starts was looking up (built-in) or calling.
LEMMA WhatStarts ==
  ASSUME IInv, Next, Starts
  PROVE  run.at \in {"lookup", "call"} /\ (run.at = "lookup" => event.of \in Builtin)
<1>1. run \in Runs
  BY DEF IInv, TypeOK, Runs
<1>2. run' # run
  BY DEF Starts
<1>3. ~Environment
  BY <1>2 DEF Environment, Tick, Save, Swap, Publish, GivesUp, PublishRoutes
<1>4. /\ \A say, again : Answers(say, again) => run'.at = "reply"
      /\ \A place : Goes(place) => run'.at = place
  BY <1>1 DEF Answers, Goes, Runs
<1>5. ~Receive
  BY DEF Receive, Starts, Idle
<1>6. ~(Defer \/ Return \/ Handle)
  BY DEF Defer, Return, Handle, At, Starts
<1>7. ~Reply
  <2>1. Another => run'.at = "reply"
    BY <1>1 DEF Another, Answers, Runs
  <2>2. run' = Idle => run'.at = "idle"
    BY DEF Idle
  <2>3. Reply => Another \/ run' = Idle
    BY DEF Reply
  <2>4. QED  BY <2>1, <2>2, <2>3 DEF Starts
<1>8. ~(CheckRestrictions \/ TakeCooldown \/ CheckModule \/ CheckConfig)
  BY <1>4 DEF CheckRestrictions, TakeCooldown, CheckModule, CheckConfig, Starts
<1>9. CASE Lookup
  BY <1>4, <1>9 DEF Lookup, At, Starts
<1>10. CASE Call
  BY <1>10 DEF Call, At
<1>11. QED  BY <1>3, <1>5, <1>6, <1>7, <1>8, <1>9, <1>10 DEF Next, Step

\* However long the steps between checkRestrictions and the code of a command
\* take, no restriction came into force in between.
THEOREM RestrictedNeverRun == Spec => RestrictedRunsNothing
<1>1. ASSUME IInv, [Next]_vars
      PROVE  [Starts /\ event.of \in Command =>
                event.by \notin restricted /\ (event.dm \/ Guild \notin restricted)]_vars
  <2> SUFFICES ASSUME Starts, event.of \in Command, Next PROVE ~Restricted
    BY <1>1 DEF Restricted
  <2>1. run.at \in Deciding \ {"restrict"}
    BY <1>1, WhatStarts DEF Deciding
  <2>2. QED  BY <1>1, <2>1 DEF IInv, Behind
<1>2. QED  BY <1>1, Invariance, PTL DEF Spec, RestrictedRunsNothing

\* Whatever is reloaded or saved between the checks of guildCommandEnabled and
\* guildPluginEnabled and the call, the code that starts was on in the meantime.
THEOREM SwitchedOffNeverRuns == Spec => SwitchesHold
<1> DEFINE Was == Starts /\ event.of \in OfPlugin =>
        LET t == event.of
            plain == t \in Slash \cup Autocomplete
        IN  /\ (plain /\ event.dm) \/ PluginOf[t] \in seen.module
            /\ event.dm \/ PluginOf[t] \in seen.guild
            /\ event.dm \/ ~plain \/ RootOf[t] \in seen.guild
<1>1. ASSUME IInv, [Next]_vars PROVE [Was]_vars
  <2>1. ASSUME Starts, event.of \in OfPlugin, Next PROVE run.at = "call"
    BY <1>1, <2>1, WhatStarts, DispatchAssumption
  <2>2. QED  BY <1>1, <2>1 DEF IInv, SeenOK
<1>2. QED  BY <1>1, Invariance, PTL DEF Spec, SwitchesHold

\* Nothing runs that was restricted or switched off: the two action properties
\* together.
THEOREM OnlyAllowedRuns == Spec => RunsOnlyAllowed
BY RestrictedNeverRun, SwitchedOffNeverRuns, PTL DEF RunsOnlyAllowed

==============================================================================
