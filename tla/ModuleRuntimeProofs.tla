------------------------ MODULE ModuleRuntimeProofs ------------------------
(***************************************************************************)
(* Theorems about ModuleRuntime for any plugins and commands: the jobs for *)
(* every interleaving of requests, the catalog and the registration for    *)
(* requests one after another.                                             *)
(***************************************************************************)
EXTENDS ModuleRuntime, WellFoundedInduction, TLAPS

-----------------------------------------------------------------------------
(* Facts about the operators.                                              *)

\* Some plugin of a set comes first.
LEMMA FirstExists ==
  ASSUME NEW rank \in [Plugin -> Nat], NEW S \in SUBSET Plugin, S # {}
  PROVE  \E p \in S : \A q \in S : rank[p] <= rank[q]
<1> DEFINE R == OpToRel(<, Nat)
           T == {rank[p] : p \in S}
<1>1. T \subseteq Nat /\ T # {}
  OBVIOUS
<1>2. PICK x \in T : \A y \in T : ~ (<<y, x>> \in R)
  BY <1>1, NatLessThanWellFounded, WFMin
<1>3. \A y \in T : ~ (y < x)
  BY <1>1, <1>2 DEF OpToRel
<1>4. PICK p \in S : x = rank[p]
  BY <1>2
<1>5. ASSUME NEW q \in S  PROVE rank[p] <= rank[q]
  BY <1>3, <1>4
<1>6. QED  BY <1>5

LEMMA RoutedType ==
  ASSUME NEW mods, NEW c \in Command
  PROVE  /\ Routed(c, mods) \in Plugin \cup {NoPlugin}
         /\ (\E p \in Plugin : mods[p] = "on" /\ c \in CmdOf[p]) =>
               /\ Routed(c, mods) \in Plugin
               /\ mods[Routed(c, mods)] = "on" /\ c \in CmdOf[Routed(c, mods)]
         /\ ~(\E p \in Plugin : mods[p] = "on" /\ c \in CmdOf[p]) =>
               Routed(c, mods) = NoPlugin
<1> DEFINE on == {p \in Plugin : mods[p] = "on" /\ c \in CmdOf[p]}
<1>1. CASE on = {}
  BY <1>1 DEF Routed
<1>2. CASE on # {}
  <2>1. \E p \in on : \A q \in on : IdRank[p] <= IdRank[q]
    BY <1>2, FirstExists, ModuleAssumption
  <2>2. Routed(c, mods) = CHOOSE p \in on : \A q \in on : IdRank[p] <= IdRank[q]
    BY <1>2 DEF Routed
  <2>3. Routed(c, mods) \in on
    BY <2>1, <2>2
  <2>4. QED  BY <2>3
<1>3. QED  BY <1>1, <1>2

LEMMA OwnerType ==
  ASSUME NEW c \in Command, host \subseteq Plugin, Owner(c) # NoPlugin
  PROVE  Owner(c) \in host /\ c \in CmdOf[Owner(c)]
<1> DEFINE declaring == {p \in host : c \in CmdOf[p]}
<1>1. declaring # {} /\ declaring \in SUBSET Plugin
  BY DEF Owner
<1>2. \E p \in declaring : \A q \in declaring : LoadRank[p] <= LoadRank[q]
  BY <1>1, FirstExists, ModuleAssumption
<1>3. Owner(c) = CHOOSE p \in declaring : \A q \in declaring : LoadRank[p] <= LoadRank[q]
  BY <1>1 DEF Owner
<1>4. Owner(c) \in declaring
  BY <1>2, <1>3
<1>5. QED  BY <1>4

LEMMA LocalsType ==
  /\ Fresh \in Locals
  /\ \A at \in Places : [Fresh EXCEPT !.at = at] \in Locals
BY DEF Fresh, Locals, Places

-----------------------------------------------------------------------------
(* Types and jobs, for every interleaving.                                 *)

\* Places of a request that will build the cron again.
Before == {"list", "modules", "routes", "creates", "register", "stop"}

\* Whenever the cron is not of the plugins that are on, a request that will see
\* to it is under way.
CronOK ==
    \/ owed \/ ended
    \/ cron = EnabledJobs
    \/ \E a \in Admin : admin[a].at \in Before
    \/ cron = {} /\ \E a \in Admin : admin[a].at = "start"

JInv == TypeOK /\ CronOK

\* A request goes from one place to the next.
LEMMA Steps ==
  ASSUME JInv, NEW a \in Admin, NEW x \in Locals, admin' = [admin EXCEPT ![a] = x],
         \/ x.at \in Before
         \/ admin[a].at \notin Before \cup {"start"} /\ UNCHANGED <<host, module>>,
         override' \in [Plugin -> {"unset", "on", "off"}],
         host' \subseteq Plugin, module' \in [Plugin -> {"absent", "off", "on"}],
         route' \in [Command -> Plugin \cup {NoPlugin}],
         registered' \in [Target -> SUBSET Command],
         UNCHANGED <<disk, cron, stops, booted, last, owed, ended>>
  PROVE  JInv'
<1>1. admin' \in [Admin -> Locals] /\ admin'[a] = x /\ \A b \in Admin \ {a} : admin'[b] = admin[b]
  BY DEF JInv, TypeOK
<1>2. TypeOK'
  BY <1>1 DEF JInv, TypeOK
<1>3. CASE x.at \in Before
  <2>1. admin'[a].at \in Before
    BY <1>1, <1>3
  <2>2. QED  BY <1>2, <2>1 DEF CronOK, JInv
<1>4. CASE admin[a].at \notin Before \cup {"start"} /\ UNCHANGED <<host, module>>
  <2>1. EnabledJobs' = EnabledJobs
    BY <1>4 DEF EnabledJobs, Enabled
  <2>2. \A b \in Admin : admin[b].at \in Before \cup {"start"} => admin'[b].at = admin[b].at
    BY <1>1, <1>4
  <2>3. CASE owed \/ ended \/ cron = EnabledJobs
    BY <1>2, <2>1, <2>3 DEF CronOK, JInv
  <2>4. ASSUME NEW b \in Admin, admin[b].at \in Before  PROVE JInv'
    <3>1. admin'[b].at \in Before
      BY <2>2, <2>4
    <3>2. QED  BY <1>2, <3>1 DEF CronOK, JInv
  <2>5. ASSUME NEW b \in Admin, cron = {}, admin[b].at = "start"  PROVE JInv'
    <3>1. admin'[b].at = "start" /\ cron' = {}
      BY <2>2, <2>5
    <3>2. QED  BY <1>2, <3>1 DEF CronOK, JInv
  <2>6. QED  BY <2>3, <2>4, <2>5 DEF CronOK, JInv
<1>5. QED  BY <1>2, <1>3, <1>4 DEF JInv

LEMMA StepsInv ==
  ASSUME JInv, NEW a \in Admin,
         \/ \E p \in Plugin : Reset(a, p) \/ \E on \in BOOLEAN : SetEnabled(a, p, on)
         \/ Reload(a) \/ Scan(a) \/ Swap(a) \/ List(a) \/ PublishModules(a)
         \/ PublishRoutes(a) \/ Compose(a) \/ \E t \in Target : Register(a, t)
  PROVE  JInv'
<1> USE DEF JInv, TypeOK
<1> DEFINE scan == [Fresh EXCEPT !.at = "scan"]
<1>1. scan \in Locals /\ scan.at = "scan"
  BY LocalsType DEF Places, Fresh
<1>2. CASE \E p \in Plugin : Reset(a, p) \/ \E on \in BOOLEAN : SetEnabled(a, p, on)
  <2>1. /\ override' \in [Plugin -> {"unset", "on", "off"}] /\ Enter(a) /\ Idle(a)
        /\ UNCHANGED <<disk, host, module, route, registered, cron, stops, booted, last,
                       owed, ended>>
    BY <1>2 DEF Reset, SetEnabled, MayBegin
  <2>2. QED  BY <1>1, <2>1, Steps DEF Enter, Idle, Before
<1>3. CASE Reload(a)
  BY <1>1, <1>3, Steps DEF Reload, MayBegin, Enter, Idle, Before
<1>4. CASE Scan(a)
  <2> DEFINE x == [Fresh EXCEPT !.at = "swap", !.next = disk]
  <2>1. x \in Locals
    BY DEF Locals, Places, Fresh
  <2>2. QED  BY <1>4, <2>1, Steps DEF Scan, Before
<1>5. CASE Swap(a)
  <2> DEFINE x == [Fresh EXCEPT !.at = "list"]
  <2>1. x \in Locals /\ x.at \in Before /\ admin[a].next \subseteq Plugin
    BY DEF Locals, Places, Before, Fresh
  <2>2. /\ admin' = [admin EXCEPT ![a] = x] /\ host' \subseteq Plugin
        /\ UNCHANGED <<override, disk, module, route, registered, cron, stops, booted,
                       last, owed, ended>>
    BY <1>5, <2>1 DEF Swap, Go
  <2>3. QED  BY <2>1, <2>2, Steps
<1>6. CASE List(a)
  <2> DEFINE x == [Fresh EXCEPT !.at = "modules", !.states = override]
  <2>1. x \in Locals /\ x.at \in Before
    BY DEF Locals, Places, Before, Fresh
  <2>2. QED  BY <1>6, <2>1, Steps DEF List
<1>7. CASE PublishModules(a)
  <2> DEFINE built == ModulesFrom(host, admin[a].states)
             x == [Fresh EXCEPT !.at = "routes", !.built = built]
  <2>1. built \in [Plugin -> {"absent", "off", "on"}]
    BY DEF ModulesFrom
  <2>2. x \in Locals /\ x.at \in Before
    BY <2>1 DEF Locals, Places, Before, Fresh
  <2>3. /\ admin' = [admin EXCEPT ![a] = x]
        /\ module' \in [Plugin -> {"absent", "off", "on"}]
        /\ UNCHANGED <<override, disk, host, route, registered, cron, stops, booted,
                       last, owed, ended>>
    BY <1>7, <2>1 DEF PublishModules
  <2>4. QED  BY <2>2, <2>3, Steps
<1>8. CASE PublishRoutes(a)
  <2> DEFINE x == [Fresh EXCEPT !.at = "creates"]
  <2>1. x \in Locals /\ x.at \in Before
    BY DEF Locals, Places, Before, Fresh
  <2>2. route' \in [Command -> Plugin \cup {NoPlugin}]
    BY <1>8, RoutedType DEF PublishRoutes
  <2>3. QED  BY <1>8, <2>1, <2>2, Steps DEF PublishRoutes, Go
<1>9. CASE Compose(a)
  <2> DEFINE x == [Fresh EXCEPT !.at = "register", !.creates = Creates, !.left = Target]
  <2>1. Creates \subseteq Command
    BY DEF Creates
  <2>2. x \in Locals /\ x.at \in Before
    BY <2>1 DEF Locals, Places, Before, Fresh
  <2>3. QED  BY <1>9, <2>2, Steps DEF Compose
<1>10. ASSUME NEW t \in Target, Register(a, t)  PROVE JInv'
  <2> DEFINE left == admin[a].left \ {t}
             x == [admin[a] EXCEPT !.left = left, !.at = IF left = {} THEN "stop" ELSE "register"]
  <2>1. admin[a] \in Locals /\ admin[a].at = "register"
    BY <1>10 DEF Register
  <2>2. x \in Locals /\ x.at \in Before
    BY <2>1 DEF Locals, Places, Before
  <2>3. registered' \in [Target -> SUBSET Command]
    BY <1>10, <2>1 DEF Register, Locals
  <2>4. admin' = [admin EXCEPT ![a] = x]
    BY <1>10 DEF Register
  <2>5. QED  BY ZenonT(40), <1>10, <2>2, <2>3, <2>4, Steps DEF Register
<1>11. QED  BY <1>2, <1>3, <1>4, <1>5, <1>6, <1>7, <1>8, <1>9, <1>10

LEMMA FailJ ==
  ASSUME JInv, NEW a \in Admin, Fail(a)
  PROVE  JInv'
<1>1. admin' \in [Admin -> Locals] /\ \A b \in Admin \ {a} : admin'[b] = admin[b]
  BY LocalsType DEF Fail, JInv, TypeOK
<1>2. TypeOK'
  BY <1>1 DEF Fail, JInv, TypeOK
<1>3. CASE admin[a].at = "scan"
  <2>1. EnabledJobs' = EnabledJobs /\ cron' = cron /\ ended' = ended
    BY DEF Fail, EnabledJobs, Enabled
  <2>2. owed => owed'
    BY DEF Fail
  <2>3. QED  BY <1>1, <1>2, <1>3, <2>1, <2>2 DEF JInv, CronOK, Before
<1>4. CASE admin[a].at # "scan"
  <2>1. owed'
    BY <1>4 DEF Fail
  <2>2. QED  BY <1>2, <2>1 DEF JInv, CronOK
<1>5. QED  BY <1>3, <1>4

LEMMA StopCronJ ==
  ASSUME JInv, NEW a \in Admin, StopCron(a)
  PROVE  JInv'
<1>1. admin'[a].at = "start" /\ admin' \in [Admin -> Locals]
  BY LocalsType DEF StopCron, Go, JInv, TypeOK, Places, Fresh
<1>2. TypeOK'
  BY <1>1 DEF StopCron, JInv, TypeOK
<1>3. CronOK'
  BY <1>1 DEF StopCron, CronOK
<1>4. QED  BY <1>2, <1>3 DEF JInv

\* Building the cron, by a request at its end.
LEMMA Builds ==
  ASSUME JInv, NEW a \in Admin, NEW x \in Locals, admin[a].at \notin Before,
         admin' = [admin EXCEPT ![a] = x], BuildCron,
         stops' \in Nat, booted' \in BOOLEAN, last' \in {"none", "ok", "error", "refused"},
         UNCHANGED <<override, disk, host, module, route, registered>>
  PROVE  JInv'
<1>1. admin' \in [Admin -> Locals] /\ \A b \in Admin \ {a} : admin'[b] = admin[b]
  BY DEF JInv, TypeOK
<1>2. EnabledJobs' = EnabledJobs /\ EnabledJobs \subseteq HasJob
  BY DEF EnabledJobs, Enabled
<1>3. TypeOK'
  BY <1>1, <1>2 DEF JInv, TypeOK, BuildCron
<1>4. CASE cron = {}
  BY <1>2, <1>3, <1>4 DEF JInv, CronOK, BuildCron
<1>5. CASE cron # {}
  <2>1. UNCHANGED <<cron, owed, ended>>
    BY <1>5 DEF BuildCron
  <2>2. QED  BY <1>1, <1>2, <1>3, <1>5, <2>1 DEF JInv, CronOK
<1>6. QED  BY <1>4, <1>5

LEMMA StartCronJ ==
  ASSUME JInv, NEW a \in Admin, StartCron(a)
  PROVE  JInv'
<1> DEFINE x == IF a = Boot THEN [Fresh EXCEPT !.at = "open"] ELSE Fresh
<1>1. x \in Locals
  BY LocalsType DEF Places
<1>2. stops' \in Nat
  BY DEF StartCron, JInv, TypeOK
<1>3. booted' \in BOOLEAN /\ last' = "ok" /\ admin[a].at \notin Before
  BY DEF StartCron, JInv, TypeOK, Before
<1>4. QED  BY <1>1, <1>2, <1>3, Builds DEF StartCron

LEMMA OpenJ ==
  ASSUME JInv, Open
  PROVE  JInv'
<1>1. Boot \in Admin /\ Fresh \in Locals /\ admin[Boot].at \notin Before \cup {"start"}
  BY ModuleAssumption, LocalsType DEF Open, Before
<1>2. CASE booted' = TRUE /\ BuildCron
  <2>1. stops' \in Nat /\ last' \in {"none", "ok", "error", "refused"}
    BY DEF Open, JInv, TypeOK
  <2>2. QED  BY <1>1, <1>2, <2>1, Builds DEF Open
<1>3. CASE UNCHANGED <<booted, cron, owed, ended>>
  <2>1. admin' \in [Admin -> Locals] /\ \A b \in Admin \ {Boot} : admin'[b] = admin[b]
    BY <1>1 DEF Open, JInv, TypeOK
  <2>2. EnabledJobs' = EnabledJobs
    BY DEF Open, EnabledJobs, Enabled
  <2>3. TypeOK'
    BY <1>3, <2>1 DEF Open, JInv, TypeOK
  <2>4. QED  BY <1>1, <1>3, <2>1, <2>2, <2>3 DEF Open, JInv, CronOK
<1>4. QED  BY <1>2, <1>3 DEF Open

LEMMA InitJ == Init => JInv
<1> SUFFICES ASSUME Init PROVE JInv
  OBVIOUS
<1>1. TypeOK
  BY LocalsType, ModuleAssumption DEF Init, TypeOK, Places
<1>2. CronOK
  BY DEF Init, CronOK, EnabledJobs
<1>3. QED  BY <1>1, <1>2 DEF JInv

LEMMA StepJ == JInv /\ [Next]_vars => JInv'
<1> SUFFICES ASSUME JInv, [Next]_vars PROVE JInv'
  OBVIOUS
<1>1. ASSUME NEW S \in SUBSET Plugin, DiskChanges(S)  PROVE JInv'
  BY <1>1 DEF DiskChanges, JInv, TypeOK, CronOK, EnabledJobs, Enabled
<1>2. CASE ContextEnds
  <2>1. TypeOK'
    BY <1>2 DEF ContextEnds, JInv, TypeOK
  <2>2. QED  BY <1>2, <2>1 DEF ContextEnds, JInv, CronOK
<1>3. CASE UNCHANGED vars
  BY <1>3 DEF vars, JInv, TypeOK, CronOK, EnabledJobs, Enabled
<1>4. ASSUME NEW a \in Admin, Reloading(a)  PROVE JInv'
  BY <1>4, StepsInv, FailJ, StopCronJ, StartCronJ DEF Reloading
<1>5. QED
  BY <1>1, <1>2, <1>3, <1>4, StepsInv, OpenJ DEF Next

\* Every reachable state is well typed.
THEOREM TypeCorrect == Spec => []TypeOK
<1>1. JInv => TypeOK
  BY DEF JInv
<1>2. QED  BY <1>1, InitJ, StepJ, PTL DEF Spec

\* However requests interleave, once they are done the cron runs the jobs of
\* exactly the plugins that are on, unless a reload failed after its catalog or a
\* context that ended stopped it (Automation.Restart).
THEOREM JobsFollow == Spec => []CronIsCurrent
<1>1. JInv => CronIsCurrent
  BY DEF JInv, CronOK, CronIsCurrent, Quiet, Idle, Before
<1>2. QED  BY <1>1, InitJ, StepJ, PTL DEF Spec

-----------------------------------------------------------------------------
(* Catalog and registration, for requests one after another.               *)

\* The catalog is the one of the plugins loaded and the stored overrides.
Current ==
    /\ module = ModulesFrom(host, override)
    /\ route = [c \in Command |-> Routed(c, module)]

Shown == \A t \in Target : registered[t] = Creates

\* What the place of a request says of what it has brought up to date.
Progress(a) ==
    /\ admin[a].at = "modules" => admin[a].states = override
    /\ admin[a].at = "routes" => module = ModulesFrom(host, override) /\ admin[a].built = module
    /\ admin[a].at \in {"creates", "register", "stop", "start", "open"} => Current
    /\ admin[a].at = "register" =>
          /\ admin[a].creates = Creates
          /\ \A t \in Target \ admin[a].left : registered[t] = Creates
    /\ admin[a].at \in {"stop", "start", "open"} => Shown

Solo == \A a, b \in Admin : ~Idle(a) /\ ~Idle(b) => a = b

Settled ==
    Quiet => /\ last \in {"ok", "refused"} => Current
             /\ last = "ok" => Shown

CInv == JInv /\ (OneAtATime => Solo /\ Settled /\ \A a \in Admin : Progress(a))

LEMMA CreatesSame ==
  ASSUME UNCHANGED <<host, module>>
  PROVE  Creates' = Creates
BY DEF Creates, Owner, Enabled

\* The one request goes on.
LEMMA Alone ==
  ASSUME CInv, OneAtATime, JInv', NEW a \in Admin, \A b \in Admin \ {a} : Idle(b),
         \A b \in Admin \ {a} : admin'[b] = admin[b],
         Progress(a)', Idle(a)' => Settled'
  PROVE  CInv'
<1>1. \A b \in Admin \ {a} : Idle(b)'
  BY DEF Idle
<1>2. Solo'
  BY <1>1 DEF Solo
<1>3. Settled'
  BY DEF Settled, Quiet
<1>4. \A b \in Admin \ {a} : Progress(b)'
  BY <1>1 DEF Progress, Idle
<1>5. QED  BY <1>2, <1>3, <1>4 DEF CInv

LEMMA ReloadingC ==
  ASSUME CInv, OneAtATime, JInv', NEW a \in Admin, Reloading(a)
  PROVE  CInv'
<1>1. ~Idle(a)
  BY DEF Reloading, Idle, Fail, Scan, Swap, List, PublishModules, PublishRoutes, Compose,
         Register, StopCron, StartCron
<1>2. \A b \in Admin \ {a} : Idle(b)
  BY <1>1 DEF CInv, Solo
<1>3. TypeOK /\ Progress(a)
  BY DEF CInv, JInv
<1>4. SUFFICES Progress(a)' /\ (\A b \in Admin \ {a} : admin'[b] = admin[b])
               /\ (Idle(a)' => Settled')
  BY <1>2, Alone
<1>5. CASE Fail(a)
  <2>1. admin'[a] = Fresh /\ \A b \in Admin \ {a} : admin'[b] = admin[b]
    BY <1>3, <1>5 DEF Fail, TypeOK
  <2>2. Progress(a)'
    BY <2>1 DEF Progress, Fresh
  <2>3. UNCHANGED <<override, host, module, route>>
    BY <1>5 DEF Fail
  <2>4. Current => Current'
    BY <2>3 DEF Current
  <2>5. last' \in {"ok", "refused"} => last' = "refused" /\ Current'
    BY <1>3, <1>5, <2>4 DEF Fail, Progress
  <2>6. QED  BY <2>1, <2>2, <2>5 DEF Settled
<1>6. CASE Scan(a) \/ Swap(a)
  BY ZenonT(40), <1>3, <1>6 DEF Scan, Swap, Go, TypeOK, Progress, Fresh, Idle
<1>7. CASE List(a)
  BY <1>3, <1>7 DEF List, TypeOK, Progress, Fresh, Idle
<1>8. CASE PublishModules(a)
  <2>1. /\ admin'[a].at = "routes" /\ admin'[a].built = module'
        /\ \A b \in Admin \ {a} : admin'[b] = admin[b]
    BY <1>3, <1>8 DEF PublishModules, TypeOK, Fresh
  <2>2. module' = ModulesFrom(host, override) /\ UNCHANGED <<host, override>>
    BY <1>3, <1>8 DEF PublishModules, Progress
  <2>3. ModulesFrom(host, override)' = ModulesFrom(host, override)
    BY <2>2 DEF ModulesFrom, Resolved
  <2>4. QED  BY <2>1, <2>2, <2>3 DEF Progress, Idle
<1>9. CASE PublishRoutes(a)
  <2>1. admin'[a].at = "creates" /\ \A b \in Admin \ {a} : admin'[b] = admin[b]
    BY <1>3, <1>9 DEF PublishRoutes, Go, TypeOK, Fresh
  <2>2. module = ModulesFrom(host, override) /\ admin[a].built = module
    BY <1>3, <1>9 DEF PublishRoutes, Progress
  <2>3. route' = [c \in Command |-> Routed(c, module)] /\ UNCHANGED <<host, override, module>>
    BY <1>9, <2>2 DEF PublishRoutes
  <2>4. Current'
    BY <2>2, <2>3 DEF Current, Routed, ModulesFrom, Resolved
  <2>5. QED  BY <2>1, <2>4 DEF Progress, Idle
<1>10. CASE Compose(a)
  <2>1. /\ admin'[a].at = "register" /\ admin'[a].left = Target /\ admin'[a].creates = Creates
        /\ \A b \in Admin \ {a} : admin'[b] = admin[b]
    BY <1>3, <1>10 DEF Compose, TypeOK, Fresh
  <2>2. Current /\ UNCHANGED <<host, override, module, route>>
    BY <1>3, <1>10 DEF Compose, Progress
  <2>3. Current' /\ Creates' = Creates
    BY <2>2, CreatesSame DEF Current
  <2>4. QED  BY <2>1, <2>3 DEF Progress, Idle
<1>11. ASSUME NEW t \in Target, Register(a, t)
       PROVE  Progress(a)' /\ (\A b \in Admin \ {a} : admin'[b] = admin[b])
              /\ (Idle(a)' => Settled')
  <2> DEFINE left == admin[a].left \ {t}
             x == [admin[a] EXCEPT !.left = left,
                                   !.at = IF left = {} THEN "stop" ELSE "register"]
  <2>1. admin' = [admin EXCEPT ![a] = x] /\ admin[a] \in Locals /\ admin[a].at = "register"
    BY <1>3, <1>11 DEF Register, TypeOK
  <2>2. /\ x.left = left /\ x.at = (IF left = {} THEN "stop" ELSE "register")
        /\ x.creates = admin[a].creates
    BY <2>1 DEF Locals
  <2>3. admin'[a] = x /\ \A b \in Admin \ {a} : admin'[b] = admin[b]
    BY <1>3, <2>1 DEF TypeOK
  <2>4. UNCHANGED <<host, override, module, route>>
    BY <1>11 DEF Register
  <2>5. Current' /\ Creates' = Creates /\ admin[a].creates = Creates
    BY <1>3, <2>1, <2>4, CreatesSame DEF Current, Progress
  <2>6. \A u \in Target \ left : registered'[u] = Creates
    BY <1>3, <1>11, <2>1, <2>5 DEF Register, TypeOK, Progress
  <2>7. left = {} => \A u \in Target : registered'[u] = Creates
    BY <2>6
  <2> HIDE DEF x
  <2>8. QED  BY <2>2, <2>3, <2>5, <2>6, <2>7 DEF Progress, Shown, Idle
<1>12. CASE StopCron(a)
  <2>1. admin'[a].at = "start" /\ \A b \in Admin \ {a} : admin'[b] = admin[b]
    BY <1>3, <1>12 DEF StopCron, Go, TypeOK, Fresh
  <2>2. Current /\ Shown /\ UNCHANGED <<host, override, module, route, registered>>
    BY <1>3, <1>12 DEF StopCron, Progress
  <2>3. Current' /\ Shown'
    BY <2>2, CreatesSame DEF Current, Shown
  <2>4. QED  BY <2>1, <2>3 DEF Progress, Idle
<1>13. CASE StartCron(a)
  <2>1. admin'[a].at \in {"open", "idle"} /\ \A b \in Admin \ {a} : admin'[b] = admin[b]
    BY <1>3, <1>13 DEF StartCron, TypeOK, Fresh
  <2>2. Current /\ Shown /\ UNCHANGED <<host, override, module, route, registered>>
    BY <1>3, <1>13 DEF StartCron, Progress
  <2>3. Current' /\ Shown'
    BY <2>2, CreatesSame DEF Current, Shown
  <2>4. QED  BY <2>1, <2>3 DEF Progress, Settled
<1>14. QED
  BY <1>5, <1>6, <1>7, <1>8, <1>9, <1>10, <1>11, <1>12, <1>13 DEF Reloading

LEMMA BeginsC ==
  ASSUME CInv, OneAtATime, JInv', NEW a \in Admin,
         \/ \E p \in Plugin : Reset(a, p) \/ \E on \in BOOLEAN : SetEnabled(a, p, on)
         \/ Reload(a)
  PROVE  CInv'
<1>1. MayBegin(a) /\ Enter(a)
  BY DEF Reset, SetEnabled, Reload
<1>2. \A b \in Admin : Idle(b)
  BY <1>1 DEF MayBegin
<1>3. admin'[a].at = "scan" /\ \A b \in Admin \ {a} : admin'[b] = admin[b]
  BY <1>1 DEF Enter, Fresh, CInv, JInv, TypeOK
<1>4. Progress(a)' /\ ~Idle(a)'
  BY <1>3 DEF Progress, Idle
<1>5. QED  BY <1>2, <1>3, <1>4, Alone

LEMMA OpenC ==
  ASSUME CInv, OneAtATime, JInv', Open
  PROVE  CInv'
<1>1. Boot \in Admin /\ admin[Boot].at = "open" /\ TypeOK /\ Progress(Boot) /\ ~Idle(Boot)
  BY ModuleAssumption DEF Open, CInv, JInv, Idle
<1>2. admin'[Boot] = Fresh /\ \A b \in Admin \ {Boot} : admin'[b] = admin[b]
  BY <1>1 DEF Open, TypeOK
<1>3. Current /\ Shown /\ UNCHANGED <<host, override, module, route, registered>>
  BY <1>1 DEF Open, Progress
<1>4. Current' /\ Shown'
  BY <1>3, CreatesSame DEF Current, Shown
<1>5. Progress(Boot)' /\ Settled'
  BY <1>2, <1>4 DEF Progress, Fresh, Settled
<1>6. \A b \in Admin \ {Boot} : Idle(b)
  BY <1>1 DEF CInv, Solo
<1>7. QED  BY <1>1, <1>2, <1>5, <1>6, Alone

LEMMA StepC == CInv /\ [Next]_vars => CInv'
<1> SUFFICES ASSUME CInv, [Next]_vars PROVE CInv'
  OBVIOUS
<1>1. JInv'
  BY StepJ DEF CInv
<1>2. CASE ~OneAtATime
  BY <1>1, <1>2 DEF CInv
<1>3. CASE OneAtATime
  <2>1. ASSUME UNCHANGED <<override, host, module, route, registered, admin, last>>
        PROVE  CInv'
    <3>1. Solo' /\ Settled'
      BY <1>3, <2>1, CreatesSame DEF CInv, Solo, Settled, Quiet, Idle, Current, Shown
    <3>2. \A a \in Admin : Progress(a)'
      BY <1>3, <2>1, CreatesSame DEF CInv, Progress, Current, Shown
    <3>3. QED  BY <1>1, <3>1, <3>2 DEF CInv
  <2>2. CASE ContextEnds \/ UNCHANGED vars \/ \E S \in SUBSET Plugin : DiskChanges(S)
    BY <2>1, <2>2 DEF ContextEnds, vars, DiskChanges
  <2>3. QED
    BY <1>1, <1>3, <2>2, ReloadingC, BeginsC, OpenC DEF Next
<1>4. QED  BY <1>2, <1>3

LEMMA InitC == Init => CInv
<1> SUFFICES ASSUME Init PROVE CInv
  OBVIOUS
<1>1. \A a \in Admin : admin[a].at = IF a = Boot THEN "scan" ELSE "idle"
  BY DEF Init, Fresh
<1>2. Solo /\ \A a \in Admin : Progress(a)
  BY <1>1 DEF Solo, Idle, Progress
<1>3. Settled
  BY DEF Init, Settled
<1>4. QED  BY <1>2, <1>3, InitJ DEF CInv

\* Requests one after another: a reload that got past the catalog left it, and
\* the routes, as the stored overrides and the seed say (refreshRuntimeCatalog).
THEOREM CatalogFollows == Spec => []CatalogFollowsStore
<1>1. ASSUME TypeOK, Current, NEW p \in Plugin
      PROVE  /\ p \notin host => module[p] = "absent"
             /\ p \in host /\ override[p] = "unset" =>
                   module[p] = IF p \in DefaultOn THEN "on" ELSE "off"
             /\ p \in host /\ override[p] # "unset" => module[p] = override[p]
  BY <1>1 DEF TypeOK, Current, ModulesFrom, Resolved
<1>2. ASSUME TypeOK, Current, NEW c \in Command
      PROVE  IF \E p \in host : Enabled(p) /\ c \in CmdOf[p]
             THEN Enabled(route[c]) /\ c \in CmdOf[route[c]]
             ELSE route[c] = NoPlugin
  <2>1. route[c] = Routed(c, module)
    BY <1>2 DEF Current
  <2>2. \A p \in Plugin : module[p] = "on" => p \in host
    BY <1>1, <1>2
  <2>3. (\E p \in host : Enabled(p) /\ c \in CmdOf[p]) <=>
           \E p \in Plugin : module[p] = "on" /\ c \in CmdOf[p]
    BY <1>2, <2>2 DEF Enabled, TypeOK
  <2>4. QED  BY <2>1, <2>3, RoutedType DEF Enabled
<1>3. CInv => CatalogFollowsStore
  BY <1>1, <1>2 DEF CInv, JInv, Settled, CatalogFollowsStore
<1>4. QED  BY <1>3, InitC, StepC, PTL DEF Spec

\* Requests one after another: after a reload that succeeded with a plugin on,
\* every command Discord shows is routed and runs in a plugin that is on
\* (registerCommands, CommandCreatesFiltered).
THEOREM RegisteredRun == Spec => []RegisteredRuns
<1>1. CInv => RegisteredRuns
  <2> SUFFICES ASSUME CInv, OneAtATime, Quiet, last = "ok", \E p \in host : Enabled(p),
                      NEW t \in Target, NEW c \in registered[t]
               PROVE  route[c] # NoPlugin /\ Enabled(Owner(c))
    BY DEF RegisteredRuns
  <2>1. TypeOK /\ Current /\ registered[t] = Creates
    BY DEF CInv, JInv, Settled, Shown
  <2>2. c \in Command /\ Owner(c) # NoPlugin /\ Owner(c) \in {p \in host : Enabled(p)}
    BY <2>1 DEF Creates
  <2>3. Owner(c) \in host /\ c \in CmdOf[Owner(c)]
    BY <2>1, <2>2, OwnerType DEF TypeOK
  <2>4. route[c] = Routed(c, module) /\ module[Owner(c)] = "on" /\ Owner(c) \in Plugin
    BY <2>1, <2>2, <2>3 DEF Current, Enabled, TypeOK
  <2>5. route[c] \in Plugin
    BY <2>2, <2>3, <2>4, RoutedType
  <2>6. QED  BY <2>2, <2>5, ModuleAssumption
<1>2. QED  BY <1>1, InitC, StepC, PTL DEF Spec

=============================================================================
