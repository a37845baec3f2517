-------------------------- MODULE MarketplaceProofs --------------------------
(***************************************************************************)
(* Theorems about Marketplace for every set of sources, versions and       *)
(* overlapping operations, each of which may end at any step.              *)
(***************************************************************************)
EXTENDS Marketplace, TLAPS

\* The operation w decided about what is in the directory.
Looked(w) ==
    \/ w.at \in {"copy", "backup"}
    \/ w.kind = "update" /\ w.at \in {"fetch", "checkout", "scan", "check"}

\* What the place of the operation w says of the rest of it.
Fits(w) ==
    /\ w.kept # Nothing => w.at = "place"
    /\ w.at \in {"backup", "place", "record"} => w.tmp \in Version \cup {Torn}
    /\ w.at \in {"fetch", "checkout", "scan", "check", "copy", "place",
                 "backup", "record"} => w.source \in Source
    /\ w.at \in {"fetch", "checkout"} => w.kind # "uninstall"
    /\ w.at \in {"scan", "check"} => w.kind \in {"install", "update"}

WorkOK == \A a \in Admin : Fits(admin[a])

\* No source published Other, so nothing records it.
NeverOther == record.hash # Other

LatestOK == dir # Nothing => latest = dir

\* An operation that looked at the directory and went on finds no user's files
\* there but those that came since, or that it was forced to replace.
LookedOK ==
    \A a \in Admin : Looked(admin[a]) /\ dir = Other =>
        admin[a].late \/ (admin[a].force /\ admin[a].found # NoRecord)

IInv == TypeOK /\ WorkOK /\ NeverOther /\ LatestOK /\ LookedOK /\ NothingLost

\* The record-valued parts of the types.
LEMMA RestType == Rest \in Work /\ NoRecord \in Records
BY DEF Rest, Work, NoRecord, Records, Kinds, Places

\* A step of one operation that leaves the directory and the backups alone.
LEMMA Quietly ==
  ASSUME IInv, NEW a \in Admin, NEW w \in Work,
         admin' = [admin EXCEPT ![a] = w],
         UNCHANGED <<dir, attic, latest, source, upstream, chosen>>,
         record' \in Records, record'.hash # Other,
         checkout' \in [Source -> Published \cup {Torn, Nothing}],
         state' \in {"unset", "on", "off"}, files' \in {"user", "done", "open"},
         admin[a].kept = Nothing, w.kept = Nothing, Fits(w),
         Looked(w) /\ dir = Other => w.late \/ (w.force /\ w.found # NoRecord)
  PROVE  IInv'
<1>1. admin'[a] = w /\ \A b \in Admin \ {a} : admin'[b] = admin[b]
  BY DEF IInv, TypeOK
<1>2. TypeOK'
  BY DEF IInv, TypeOK
<1>3. WorkOK'
  BY <1>1 DEF IInv, WorkOK, Fits
<1>4. NeverOther' /\ LatestOK'
  BY DEF IInv, NeverOther, LatestOK
<1>5. LookedOK'
  BY <1>1 DEF IInv, LookedOK, Looked
<1>6. Kept' = Kept
  BY <1>1 DEF Kept
<1>7. NothingLost'
  BY <1>6 DEF IInv, NothingLost
<1>8. QED  BY <1>2, <1>3, <1>4, <1>5, <1>7 DEF IInv

\* The operations begin in order.
LEMMA BeginsInv ==
  ASSUME IInv, NEW a \in Admin,
         \/ \E s \in Source : SyncSource(a, s) \/ \E force \in BOOLEAN : Install(a, s, force)
         \/ (\E force \in BOOLEAN : Update(a, force)) \/ Uninstall(a)
  PROVE  IInv'
<1>1. ASSUME NEW at \in {"fetch", "remove"}, NEW kind \in Kinds,
             NEW s \in Source \cup {Nothing}, NEW force \in BOOLEAN, NEW found \in Records,
             Begins(a, at, kind, s, force, found),
             at = "fetch" => s \in Source /\ kind # "uninstall",
             kind = "update" => (dir = Other => force /\ found # NoRecord)
      PROVE  IInv'
  <2> DEFINE w == [Rest EXCEPT !.at = at, !.kind = kind, !.source = s,
                               !.force = force, !.found = found]
  <2>1. /\ w \in Work /\ w.at = at /\ w.kind = kind /\ w.source = s /\ w.force = force
        /\ w.found = found /\ w.kept = Nothing
    BY DEF Rest, Work, Places
  <2>2. /\ admin' = [admin EXCEPT ![a] = w] /\ admin'[a] = w
        /\ UNCHANGED <<dir, attic, latest, source, upstream, chosen, record, checkout,
                       state, files>>
        /\ admin[a].at = "idle"
    BY <1>1, <2>1 DEF Begins, IInv, TypeOK
  <2>3. admin[a].kept = Nothing /\ Fits(w)
    BY <1>1, <2>1, <2>2 DEF IInv, WorkOK, Fits
  <2>4. Looked(w) /\ dir = Other => w.late \/ (w.force /\ w.found # NoRecord)
    BY <1>1, <2>1, <2>2 DEF Looked
  <2>5. QED
    BY <2>1, <2>2, <2>3, <2>4, Quietly DEF IInv, TypeOK, NeverOther
<1>2. ASSUME NEW s \in Source, SyncSource(a, s) \/ \E force \in BOOLEAN : Install(a, s, force)
      PROVE  IInv'
  BY <1>1, <1>2, RestType DEF SyncSource, Install, Kinds
<1>3. ASSUME NEW force \in BOOLEAN, Update(a, force)
      PROVE  IInv'
  <2>1. record \in Records /\ record.source \in Source
    BY <1>3 DEF IInv, TypeOK, Records, Update
  <2>2. dir = Other => force /\ record # NoRecord
    BY <1>3, MarketplaceAssumption DEF IInv, NeverOther, Update
  <2>3. QED  BY <1>1, <1>3, <2>1, <2>2 DEF Update, Kinds
<1>4. CASE Uninstall(a)
  BY <1>1, <1>4 DEF Uninstall, Kinds, IInv, TypeOK
<1>5. QED  BY <1>2, <1>3, <1>4

\* An operation that holds no backup goes from one place to the next ...
LEMMA GoesOn ==
  ASSUME IInv, NEW a \in Admin, NEW at \in Places, Goes(a, at),
         UNCHANGED <<dir, attic, latest, source, upstream, chosen>>,
         record' \in Records, record'.hash # Other,
         checkout' \in [Source -> Published \cup {Torn, Nothing}],
         state' \in {"unset", "on", "off"}, files' \in {"user", "done", "open"},
         admin[a].at # "place",
         Fits([admin[a] EXCEPT !.at = at]),
         Looked([admin[a] EXCEPT !.at = at]) => Looked(admin[a])
  PROVE  IInv'
<1> DEFINE w == [admin[a] EXCEPT !.at = at]
<1>1. admin[a] \in Work /\ admin[a].kept = Nothing
  BY DEF IInv, TypeOK, WorkOK, Fits
<1>2. /\ w \in Work /\ w.kept = Nothing /\ w.late = admin[a].late
      /\ w.force = admin[a].force /\ w.found = admin[a].found
  BY <1>1 DEF Work
<1>3. admin' = [admin EXCEPT ![a] = w]
  BY DEF Goes
<1>4. Looked(w) /\ dir = Other => w.late \/ (w.force /\ w.found # NoRecord)
  BY <1>2 DEF IInv, LookedOK
<1>5. QED  BY <1>1, <1>2, <1>3, <1>4, Quietly

\* ... or ends.
LEMMA EndsThere ==
  ASSUME IInv, NEW a \in Admin, Ends(a),
         UNCHANGED <<dir, attic, latest, source, upstream, chosen>>,
         record' \in Records, record'.hash # Other,
         checkout' \in [Source -> Published \cup {Torn, Nothing}],
         state' \in {"unset", "on", "off"}, files' \in {"user", "done", "open"},
         admin[a].at # "place"
  PROVE  IInv'
<1>1. admin[a].kept = Nothing
  BY DEF IInv, WorkOK, Fits
<1>2. Rest \in Work /\ Rest.kept = Nothing /\ Fits(Rest) /\ ~Looked(Rest)
  BY RestType DEF Rest, Fits, Looked
<1>3. QED  BY <1>1, <1>2, Quietly DEF Ends

\* What may be written to the tables and the checkouts.
LEMMA Values ==
  ASSUME IInv
  PROVE  /\ record \in Records /\ record.hash # Other
         /\ NoRecord \in Records /\ NoRecord.hash # Other
         /\ checkout \in [Source -> Published \cup {Torn, Nothing}]
         /\ upstream \in [Source -> Published]
         /\ state \in {"unset", "on", "off"} /\ files \in {"user", "done", "open"}
         /\ Closed \in {"user", "done", "open"}
BY RestType, MarketplaceAssumption DEF IInv, TypeOK, NeverOther, NoRecord, Closed

\* What an operation is, and what going to another place leaves of it.
LEMMA Going ==
  ASSUME IInv, NEW a \in Admin, NEW at \in Places
  PROVE  /\ admin[a] \in Work
         /\ [admin[a] EXCEPT !.at = at].at = at
         /\ [admin[a] EXCEPT !.at = at].kind = admin[a].kind
         /\ [admin[a] EXCEPT !.at = at].source = admin[a].source
         /\ [admin[a] EXCEPT !.at = at].tmp = admin[a].tmp
         /\ [admin[a] EXCEPT !.at = at].kept = admin[a].kept
         /\ Fits(admin[a]) /\ admin[a].kind \in Kinds
         /\ admin[a].kept # Nothing => admin[a].at = "place"
         /\ admin[a].at \in {"fetch", "checkout", "scan", "check", "copy", "backup", "record"}
              => admin[a].source \in Source
BY DEF IInv, TypeOK, WorkOK, Fits, Work

\* Syncing.
LEMMA SyncInv ==
  ASSUME IInv, NEW a \in Admin, Fetch(a) \/ Checkout(a)
  PROVE  IInv'
<1>1. "checkout" \in Places /\ "scan" \in Places
  BY DEF Places
<1>2. CASE Fetch(a)
  <2>1. checkout' \in [Source -> Published \cup {Torn, Nothing}]
    BY <1>2, Values DEF Fetch
  <2>2. Fits([admin[a] EXCEPT !.at = "checkout"])
    BY <1>1, <1>2, Going DEF Fetch, Fits
  <2>3. Looked([admin[a] EXCEPT !.at = "checkout"]) => Looked(admin[a])
    BY <1>1, <1>2, Going DEF Fetch, Looked
  <2>4. QED  BY <1>1, <1>2, <2>1, <2>2, <2>3, GoesOn, Values DEF Fetch
<1>3. CASE Checkout(a)
  <2>1. checkout' \in [Source -> Published \cup {Torn, Nothing}]
    <3>1. admin[a].source \in Source
      BY <1>1, <1>3, Going DEF Checkout
    <3>2. QED  BY <1>3, <3>1, Values DEF Checkout
  <2>2. admin[a].kind # "sync" => Fits([admin[a] EXCEPT !.at = "scan"])
    BY <1>1, <1>3, Going DEF Checkout, Fits, Kinds
  <2>3. Looked([admin[a] EXCEPT !.at = "scan"]) => Looked(admin[a])
    BY <1>1, <1>3, Going DEF Checkout, Looked
  <2>4. QED
    BY <1>1, <1>3, <2>1, <2>2, <2>3, GoesOn, EndsThere, Values DEF Checkout
<1>4. QED  BY <1>2, <1>3

\* Looking at the candidate.
LEMMA ScanInv ==
  ASSUME IInv, NEW a \in Admin, Scan(a)
  PROVE  IInv'
<1> DEFINE allowed == OnlySigned => checkout[admin[a].source] \in Signed
           w == [admin[a] EXCEPT !.at = "check", !.allowed = allowed]
<1>1. /\ admin[a] \in Work /\ admin[a].kept = Nothing /\ admin[a].source \in Source
      /\ admin[a].kind \in {"install", "update"}
  BY DEF IInv, TypeOK, WorkOK, Fits, Scan
<1>2. /\ w \in Work /\ w.at = "check" /\ w.kind = admin[a].kind /\ w.source = admin[a].source
      /\ w.force = admin[a].force /\ w.found = admin[a].found
      /\ w.kept = Nothing /\ w.late = admin[a].late
  BY ZenonT(40), <1>1, MarketplaceAssumption DEF Work, Places
<1>3. admin' = [admin EXCEPT ![a] = w]
  BY DEF Scan, IInv, TypeOK
<1>4. Fits(w)
  BY <1>1, <1>2 DEF Fits
<1>5. Looked(w) => Looked(admin[a])
  BY <1>2 DEF Looked, Scan
<1>6. Looked(w) /\ dir = Other => w.late \/ (w.force /\ w.found # NoRecord)
  BY <1>2, <1>5 DEF IInv, LookedOK
<1>7. QED  BY <1>1, <1>2, <1>3, <1>4, <1>6, Values, Quietly DEF Scan

\* The checks: an installation goes on where there is nothing, or forced over
\* what a record describes.
LEMMA CheckInv ==
  ASSUME IInv, NEW a \in Admin, Check(a)
  PROVE  IInv'
<1> DEFINE w == [admin[a] EXCEPT !.at = "copy", !.found = record, !.late = FALSE]
<1>1. /\ admin[a] \in Work /\ admin[a].kept = Nothing /\ admin[a].source \in Source
      /\ admin[a].kind \in {"install", "update"}
  BY DEF IInv, TypeOK, WorkOK, Fits, Check
<1>2. CASE admin[a].kind = "install"
  <2>1. /\ w \in Work /\ w.at = "copy" /\ w.source = admin[a].source
        /\ w.force = admin[a].force /\ w.found = record /\ w.kept = Nothing
    BY <1>1, Values DEF Work, Places
  <2>2. admin' = [admin EXCEPT ![a] = w]
    BY <1>2 DEF Check, IInv, TypeOK
  <2>3. Fits(w)
    BY <1>1, <2>1 DEF Fits
  <2>4. dir = Other => w.force /\ w.found # NoRecord
    BY <1>2, <2>1, MarketplaceAssumption DEF Check
  <2>5. QED  BY <1>1, <2>1, <2>2, <2>3, <2>4, Values, Quietly DEF Check
<1>3. CASE admin[a].kind # "install"
  <2>1. "copy" \in Places
    BY DEF Places
  <2>2. Fits([admin[a] EXCEPT !.at = "copy"])
    BY <1>1, <2>1, Going DEF Fits
  <2>3. Looked(admin[a])
    BY <1>1, <1>3 DEF Looked, Check
  <2>4. QED  BY <1>3, <2>1, <2>2, <2>3, GoesOn, Values DEF Check
<1>4. QED  BY <1>2, <1>3

\* The copy is of what the checkout holds: never of the user's files.
LEMMA CopyInv ==
  ASSUME IInv, NEW a \in Admin, Copy(a)
  PROVE  IInv'
<1> DEFINE at == IF dir = Nothing THEN "place" ELSE "backup"
           w == [admin[a] EXCEPT !.at = at, !.tmp = checkout[admin[a].source]]
<1>1. admin[a] \in Work /\ admin[a].kept = Nothing /\ admin[a].source \in Source
  BY DEF IInv, TypeOK, WorkOK, Fits, Copy
<1>2. checkout[admin[a].source] \in Version \cup {Torn}
  BY <1>1, Values, MarketplaceAssumption DEF Copy
<1>3. /\ w \in Work /\ w.at = at /\ w.source = admin[a].source /\ w.tmp = checkout[admin[a].source]
      /\ w.force = admin[a].force /\ w.found = admin[a].found
      /\ w.kept = Nothing /\ w.late = admin[a].late
  BY ZenonT(40), <1>1, <1>2 DEF Work, Places, Content
<1>4. admin' = [admin EXCEPT ![a] = w]
  BY DEF Copy, IInv, TypeOK
<1>5. Fits(w)
  BY <1>1, <1>2, <1>3 DEF Fits
<1>6. Looked(admin[a])
  BY DEF Looked, Copy
<1>7. Looked(w) /\ dir = Other => w.late \/ (w.force /\ w.found # NoRecord)
  BY <1>3, <1>6 DEF IInv, LookedOK
<1>8. QED  BY <1>1, <1>3, <1>4, <1>5, <1>7, Values, Quietly DEF Copy

\* The rows: the record of the copy, the state, and an uninstallation's deletes.
LEMMA RowInv ==
  ASSUME IInv, NEW a \in Admin, Record(a) \/ SwitchOff(a) \/ Unrecord(a) \/ Unstate(a)
  PROVE  IInv'
<1>1. "state" \in Places /\ "unstate" \in Places
  BY DEF Places
<1>2. CASE Record(a)
  <2>1. admin[a].source \in Source /\ admin[a].tmp \in Version \cup {Torn}
    BY <1>2 DEF Record, IInv, WorkOK, Fits
  <2>2. record' \in Records /\ record'.hash # Other
    BY <1>2, <2>1, MarketplaceAssumption DEF Record, Records, Content
  <2>3. Fits([admin[a] EXCEPT !.at = "state"]) /\ ~Looked([admin[a] EXCEPT !.at = "state"])
    BY <1>1, <1>2, Going DEF Record, Fits, Looked
  <2>4. QED  BY <1>1, <1>2, <2>2, <2>3, GoesOn, Values DEF Record
<1>3. CASE SwitchOff(a) \/ Unstate(a)
  BY <1>3, EndsThere, Values DEF SwitchOff, Unstate
<1>4. CASE Unrecord(a)
  <2>1. Fits([admin[a] EXCEPT !.at = "unstate"]) /\ ~Looked([admin[a] EXCEPT !.at = "unstate"])
    BY <1>1, <1>4, Going DEF Unrecord, Fits, Looked
  <2>2. QED  BY <1>1, <1>4, <2>1, GoesOn, Values DEF Unrecord
<1>5. QED  BY <1>2, <1>3, <1>4

-----------------------------------------------------------------------------
(* The steps that move directories.                                        *)

\* Other content came: late is all that changes of the operations.
LEMMA ArrivesFacts ==
  ASSUME IInv
  PROVE  /\ Arrives(admin) \in [Admin -> Work]
         /\ \A a \in Admin : /\ Arrives(admin)[a].late
                            /\ Arrives(admin)[a].kept = admin[a].kept
                            /\ Fits(Arrives(admin)[a])
<1>1. ASSUME NEW a \in Admin
      PROVE  /\ Arrives(admin)[a] = [admin[a] EXCEPT !.late = TRUE]
             /\ Arrives(admin)[a] \in Work /\ Arrives(admin)[a].late
             /\ Arrives(admin)[a].kept = admin[a].kept
             /\ Fits(Arrives(admin)[a])
  BY ZenonT(40) DEF IInv, TypeOK, WorkOK, Fits, Arrives, Work
<1>2. QED  BY <1>1 DEF Arrives

\* The user's edit: the files are the user's, and every operation is late.
LEMMA EditInv ==
  ASSUME IInv, Edit
  PROVE  IInv'
<1>1. TypeOK'
  BY ArrivesFacts DEF IInv, TypeOK, Edit, Content
<1>2. WorkOK' /\ LookedOK'
  <2>1. CASE dir' = Other /\ admin' = Arrives(admin)
    BY <2>1, ArrivesFacts DEF WorkOK, LookedOK
  <2>2. CASE dir' \in {Bare, Nothing} /\ admin' = admin
    BY <2>2, MarketplaceAssumption DEF IInv, WorkOK, LookedOK
  <2>3. QED  BY <2>1, <2>2 DEF Edit
<1>3. NeverOther' /\ LatestOK' /\ NothingLost'
  BY DEF IInv, NeverOther, LatestOK, NothingLost, Edit
<1>4. QED  BY <1>1, <1>2, <1>3 DEF IInv

\* The backup holds what the directory held last.
LEMMA BackupInv ==
  ASSUME IInv, NEW a \in Admin, Backup(a)
  PROVE  IInv'
<1> DEFINE w == [admin[a] EXCEPT !.at = "place", !.kept = dir]
<1>1. admin[a] \in Work /\ dir \in Content /\ dir # Nothing /\ admin[a].at = "backup"
  BY DEF IInv, TypeOK, Backup
<1>2. w \in Work /\ w.kept = dir /\ w.at = "place" /\ w.source = admin[a].source /\ w.tmp = admin[a].tmp
  BY <1>1 DEF Work, Places
<1>3. admin' = [admin EXCEPT ![a] = w] /\ admin'[a] = w /\ \A b \in Admin \ {a} : admin'[b] = admin[b]
  BY DEF Backup, IInv, TypeOK
<1>4. TypeOK'
  BY <1>2, <1>3 DEF Backup, IInv, TypeOK
<1>5. WorkOK'
  BY <1>1, <1>2, <1>3 DEF IInv, WorkOK, Fits
<1>6. NeverOther' /\ LatestOK' /\ LookedOK'
  BY MarketplaceAssumption DEF IInv, NeverOther, LatestOK, LookedOK, Backup
<1>7. NothingLost'
  <2>1. latest' = dir
    BY <1>1 DEF IInv, LatestOK, Backup
  <2>2. dir = admin'[a].kept
    BY <1>2, <1>3
  <2>3. dir \in Kept'
    BY <1>1, <2>2 DEF Kept
  <2>4. QED  BY <2>1, <2>3 DEF NothingLost
<1>8. QED  BY <1>4, <1>5, <1>6, <1>7 DEF IInv

\* The copy takes the place of nothing: no backup is needed any more.
LEMMA PlaceInv ==
  ASSUME IInv, NEW a \in Admin, Place(a)
  PROVE  IInv'
<1> DEFINE w == [admin[a] EXCEPT !.at = "record", !.kept = Nothing]
<1>1. /\ admin[a] \in Work /\ admin[a].tmp \in Version \cup {Torn} /\ admin[a].source \in Source
      /\ admin[a].tmp \in Content /\ admin[a].tmp \notin {Other, Nothing}
  BY MarketplaceAssumption DEF IInv, TypeOK, WorkOK, Fits, Place, Content
<1>2. /\ w \in Work /\ w.kept = Nothing /\ w.at = "record" /\ w.source = admin[a].source
      /\ w.tmp = admin[a].tmp
  BY <1>1 DEF Work, Places
<1>3. admin' = [admin EXCEPT ![a] = w] /\ admin'[a] = w /\ \A b \in Admin \ {a} : admin'[b] = admin[b]
  BY DEF Place, IInv, TypeOK
<1>4. dir' = admin[a].tmp /\ latest' = admin[a].tmp
  BY DEF Place
<1>5. TypeOK'
  BY ZenonT(40), <1>1, <1>2, <1>3 DEF Place, IInv, TypeOK
<1>6. WorkOK'
  BY <1>1, <1>2, <1>3 DEF IInv, WorkOK, Fits
<1>7. NeverOther' /\ LatestOK' /\ LookedOK' /\ NothingLost'
  BY <1>1, <1>4 DEF IInv, NeverOther, LatestOK, LookedOK, NothingLost, Place
<1>8. QED  BY <1>5, <1>6, <1>7 DEF IInv

\* An operation comes to rest while others, whom late alone may change, go on.
LEMMA OthersInv ==
  ASSUME IInv, NEW a \in Admin,
         admin' = [admin EXCEPT ![a] = Rest] \/ admin' = [Arrives(admin) EXCEPT ![a] = Rest]
  PROVE  /\ admin' \in [Admin -> Work] /\ WorkOK'
         /\ admin'[a] = Rest /\ ~Looked(Rest)
         /\ \A b \in Admin \ {a} :
               /\ admin'[b].kept = admin[b].kept
               /\ admin' = [admin EXCEPT ![a] = Rest] => admin'[b] = admin[b]
               /\ admin' = [Arrives(admin) EXCEPT ![a] = Rest] => admin'[b].late
<1>1. Rest \in Work /\ Fits(Rest) /\ ~Looked(Rest)
  BY RestType DEF Rest, Fits, Looked
<1>2. CASE admin' = [admin EXCEPT ![a] = Rest]
  <2>1. admin \in [Admin -> Work] /\ \A b \in Admin : Fits(admin[b])
    BY DEF IInv, TypeOK, WorkOK
  <2>2. admin'[a] = Rest /\ \A b \in Admin \ {a} : admin'[b] = admin[b]
    BY <1>2, <2>1
  <2>3. ASSUME NEW b \in Admin \ {a}, admin' = [Arrives(admin) EXCEPT ![a] = Rest]
        PROVE  admin'[b].late
    BY <2>3, ArrivesFacts
  <2>4. WorkOK'
    BY <1>1, <2>1, <2>2 DEF WorkOK, Fits
  <2>5. QED  BY <1>1, <1>2, <2>1, <2>2, <2>3, <2>4
<1>3. CASE admin' = [Arrives(admin) EXCEPT ![a] = Rest]
  <2>1. admin'[a] = Rest /\ \A b \in Admin \ {a} : admin'[b] = Arrives(admin)[b]
    BY <1>3, ArrivesFacts
  <2>2. admin' \in [Admin -> Work]
    BY <1>1, <1>3, ArrivesFacts
  <2>3. WorkOK'
    BY <1>1, <2>1, ArrivesFacts DEF WorkOK, Fits
  <2>4. ASSUME NEW b \in Admin \ {a}, admin' = [admin EXCEPT ![a] = Rest]
        PROVE  admin'[b] = admin[b]
    BY <2>4 DEF IInv, TypeOK
  <2>5. QED  BY <1>1, <2>1, <2>2, <2>3, <2>4, ArrivesFacts
<1>4. QED  BY <1>2, <1>3

\* The backup goes back.
LEMMA RollBackInv ==
  ASSUME IInv, NEW a \in Admin, RollBack(a)
  PROVE  IInv'
<1>1. admin[a] \in Work /\ dir' = admin[a].kept /\ latest' = dir' /\ dir' \in Content /\ dir' # Nothing
  BY DEF IInv, TypeOK, RollBack, Work
<1>2. /\ admin' = [admin EXCEPT ![a] = Rest] \/ admin' = [Arrives(admin) EXCEPT ![a] = Rest]
      /\ dir' = Other => admin' = [Arrives(admin) EXCEPT ![a] = Rest]
  BY DEF RollBack
<1>3. TypeOK' /\ WorkOK'
  BY <1>1, <1>2, OthersInv DEF RollBack, IInv, TypeOK
<1>4. LookedOK'
  <2> SUFFICES ASSUME NEW b \in Admin, Looked(admin'[b]), dir' = Other
               PROVE  admin'[b].late
    BY DEF LookedOK, Looked
  <2>1. QED  BY <1>2, OthersInv
<1>5. NeverOther' /\ LatestOK' /\ NothingLost'
  BY <1>1 DEF IInv, NeverOther, LatestOK, NothingLost, RollBack
<1>6. QED  BY <1>3, <1>4, <1>5 DEF IInv

\* An uninstallation removes the directory ...
LEMMA RemoveInv ==
  ASSUME IInv, NEW a \in Admin, Remove(a)
  PROVE  IInv'
<1> DEFINE w == [admin[a] EXCEPT !.at = "unrecord"]
<1>1. "unrecord" \in Places
  BY DEF Places
<1>2. /\ w \in Work /\ w.at = "unrecord" /\ w.kept = Nothing /\ admin[a].kept = Nothing
  BY <1>1, Going DEF Remove, Work
<1>3. admin' = [admin EXCEPT ![a] = w] /\ admin'[a] = w /\ \A b \in Admin \ {a} : admin'[b] = admin[b]
  BY DEF Remove, Goes, IInv, TypeOK
<1>4. TypeOK'
  BY <1>2, <1>3 DEF Remove, IInv, TypeOK
<1>5. WorkOK'
  BY <1>2, <1>3 DEF IInv, WorkOK, Fits
<1>6. NeverOther' /\ LatestOK' /\ LookedOK'
  BY MarketplaceAssumption DEF IInv, NeverOther, LatestOK, LookedOK, Remove
<1>7. Kept' = Kept
  BY <1>2, <1>3 DEF Kept
<1>8. NothingLost'
  BY <1>7 DEF IInv, NothingLost, Remove
<1>9. QED  BY <1>4, <1>5, <1>6, <1>8 DEF IInv

\* ... or leaves some of it.
LEMMA RemoveFailsInv ==
  ASSUME IInv, NEW a \in Admin, RemoveFails(a)
  PROVE  IInv'
<1>1. dir' \in {Other, Bare} /\ latest' = dir' /\ dir' \in Content /\ dir' # Nothing
  BY MarketplaceAssumption DEF RemoveFails, Content
<1>2. /\ admin' = [admin EXCEPT ![a] = Rest] \/ admin' = [Arrives(admin) EXCEPT ![a] = Rest]
      /\ dir' = Other => admin' = [Arrives(admin) EXCEPT ![a] = Rest]
  BY DEF RemoveFails
<1>3. TypeOK' /\ WorkOK'
  BY <1>1, <1>2, OthersInv DEF RemoveFails, IInv, TypeOK
<1>4. LookedOK'
  <2> SUFFICES ASSUME NEW b \in Admin, Looked(admin'[b]), dir' = Other
               PROVE  admin'[b].late
    BY DEF LookedOK, Looked
  <2>1. QED  BY <1>2, OthersInv
<1>5. NeverOther' /\ LatestOK' /\ NothingLost'
  BY <1>1 DEF IInv, NeverOther, LatestOK, NothingLost, RemoveFails
<1>6. QED  BY <1>3, <1>4, <1>5 DEF IInv

\* What an operation that ends early kept stays in .tmp.
LEMMA StopInv ==
  ASSUME IInv, NEW a \in Admin, Stop(a)
  PROVE  IInv'
<1>1. admin[a] \in Work /\ admin' = [admin EXCEPT ![a] = Rest]
  BY DEF IInv, TypeOK, Stop, Ends
<1>2. admin[a].kept \in Content \cup {Nothing}
  BY <1>1 DEF Work
<1>3. TypeOK' /\ WorkOK'
  BY <1>1, <1>2, OthersInv DEF Stop, IInv, TypeOK
<1>4. LookedOK'
  <2> SUFFICES ASSUME NEW b \in Admin, Looked(admin'[b]), dir' = Other
               PROVE  admin'[b].late \/ (admin'[b].force /\ admin'[b].found # NoRecord)
    BY DEF LookedOK, Looked
  <2>1. b # a /\ admin'[b] = admin[b] /\ dir = Other
    BY <1>1, OthersInv DEF Stop
  <2>2. QED  BY <2>1 DEF IInv, LookedOK
<1>5. NeverOther' /\ LatestOK'
  BY DEF IInv, NeverOther, LatestOK, Stop
<1>6. NothingLost'
  <2> SUFFICES ASSUME dir' = Nothing, latest' # Nothing
               PROVE  latest' \in attic' \cup Kept'
    BY DEF NothingLost
  <2>1. latest \in attic \cup Kept /\ latest' = latest /\ latest # Nothing
    BY DEF IInv, NothingLost, Stop
  <2>2. attic' = attic \cup ({admin[a].kept} \ {Nothing})
    BY DEF Stop
  <2>3. CASE latest \in attic
    BY <2>1, <2>2, <2>3
  <2>4. CASE latest \in Kept
    <3>1. PICK b \in Admin : latest = admin[b].kept
      BY <2>4 DEF Kept
    <3>2. CASE b = a
      BY <2>1, <2>2, <3>1, <3>2
    <3>3. CASE b # a
      <4>1. admin'[b].kept = latest
        BY <1>1, <3>1, <3>3, OthersInv
      <4>2. QED  BY <2>1, <4>1 DEF Kept
    <3>4. QED  BY <3>2, <3>3
  <2>5. QED  BY <2>1, <2>3, <2>4
<1>7. QED  BY <1>3, <1>4, <1>5, <1>6 DEF IInv

-----------------------------------------------------------------------------
(* The invariant.                                                          *)

\* No operation runs at first.
LEMMA InitInv == Init => IInv
<1> SUFFICES ASSUME Init
             PROVE  IInv
  OBVIOUS
<1>1. Rest \in Work /\ Fits(Rest) /\ ~Looked(Rest) /\ \A a \in Admin : admin[a] = Rest
  BY RestType DEF Init, Rest, Fits, Looked
<1>2. TypeOK
  BY <1>1, RestType, MarketplaceAssumption DEF Init, TypeOK, Content
<1>3. WorkOK /\ LookedOK
  BY <1>1 DEF WorkOK, LookedOK
<1>4. NeverOther /\ LatestOK /\ NothingLost
  BY MarketplaceAssumption DEF Init, NeverOther, LatestOK, NothingLost, NoRecord
<1>5. QED  BY <1>2, <1>3, <1>4 DEF IInv

\* What the owner and the remotes do, and a step of none.
LEMMA AroundInv ==
  ASSUME IInv, UNCHANGED <<checkout, dir, attic, record, admin, files, latest>>,
         source' \in [Source -> {"absent", "off", "on"}],
         upstream' \in [Source -> Published],
         state' \in {"unset", "on", "off"}, chosen' \in BOOLEAN
  PROVE  IInv'
<1>1. TypeOK' /\ WorkOK' /\ NeverOther' /\ LatestOK' /\ LookedOK'
  BY DEF IInv, TypeOK, WorkOK, NeverOther, LatestOK, LookedOK
<1>2. Kept' = Kept
  BY DEF Kept
<1>3. NothingLost'
  BY <1>2 DEF IInv, NothingLost
<1>4. QED  BY <1>1, <1>3 DEF IInv

\* Every step keeps the invariant.
LEMMA NextInv == IInv /\ [Next]_vars => IInv'
<1> SUFFICES ASSUME IInv, [Next]_vars
             PROVE  IInv'
  OBVIOUS
<1>1. ASSUME NEW a \in Admin, Step(a)
      PROVE  IInv'
  BY <1>1, BeginsInv, SyncInv, ScanInv, CheckInv, CopyInv, BackupInv, PlaceInv, RollBackInv,
     RowInv, RemoveInv, RemoveFailsInv, StopInv DEF Step
<1>2. ASSUME NEW s \in Source, NEW to \in Setting, SetSource(s, to)
      PROVE  IInv'
  BY <1>2, AroundInv, MarketplaceAssumption DEF SetSource, IInv, TypeOK
<1>3. ASSUME NEW s \in Source, NEW c \in Published, Publish(s, c)
      PROVE  IInv'
  BY <1>3, AroundInv DEF Publish, IInv, TypeOK
<1>4. ASSUME NEW st \in Choice, Choose(st)
      PROVE  IInv'
  BY <1>4, AroundInv, MarketplaceAssumption DEF Choose, IInv, TypeOK
<1>5. CASE Edit
  BY <1>5, EditInv
<1>6. CASE UNCHANGED vars
  BY <1>6, AroundInv DEF vars, IInv, TypeOK
<1>7. QED  BY <1>1, <1>2, <1>3, <1>4, <1>5, <1>6 DEF Next

\* The strengthened invariant holds throughout.
THEOREM Invariance == Spec => []IInv
<1>1. QED  BY InitInv, NextInv, PTL DEF Spec

\* Every variable keeps its type, for any number of operations at once.
THEOREM TypeCorrect == Spec => []TypeOK
<1>1. IInv => TypeOK
  BY DEF IInv
<1>2. QED  BY <1>1, Invariance, PTL

\* The plugin's files are always in its directory or in a backup, unless the
\* user or an uninstallation removed them: copyPluginIntoPlace never drops them.
THEOREM FilesSurvive == Spec => []NothingLost
<1>1. IInv => NothingLost
  BY DEF IInv
<1>2. QED  BY <1>1, Invariance, PTL

\* Only a backup takes files away, and of the user's only what LookedOK allows.
LEMMA OnlyBackupKeeps ==
  ASSUME IInv, [Next]_vars, NEW a \in Admin,
         admin[a].kept = Nothing, admin'[a].kept = Other
  PROVE  Backup(a)
<1>1. Other # Nothing /\ Rest.kept = Nothing /\ admin \in [Admin -> Work]
  BY MarketplaceAssumption DEF Rest, IInv, TypeOK
<1>2. Arrives(admin) \in [Admin -> Work] /\ \A b \in Admin : Arrives(admin)[b].kept = admin[b].kept
  BY ArrivesFacts
<1>3. ASSUME NEW b \in Admin, NEW w \in Work, w.kept \in {admin[b].kept, Nothing},
             \/ admin' = [admin EXCEPT ![b] = w]
             \/ admin' = [Arrives(admin) EXCEPT ![b] = w]
      PROVE  FALSE
  BY <1>1, <1>2, <1>3
<1>4. ASSUME NEW b \in Admin, NEW at \in Places, Goes(b, at)
      PROVE  FALSE
  <2>1. [admin[b] EXCEPT !.at = at] \in Work /\ [admin[b] EXCEPT !.at = at].kept = admin[b].kept
    BY <1>1 DEF Work
  <2>2. QED  BY <1>3, <1>4, <2>1 DEF Goes
<1>5. ASSUME NEW b \in Admin, Ends(b) \/ admin' = [Arrives(admin) EXCEPT ![b] = Rest]
      PROVE  FALSE
  BY <1>1, <1>3, <1>5, RestType DEF Ends
<1>6. {"checkout", "scan", "copy", "state", "unrecord", "unstate"} \subseteq Places
  BY DEF Places
<1>7. ASSUME NEW b \in Admin,
             \/ Fetch(b) \/ Checkout(b) \/ Record(b) \/ SwitchOff(b) \/ RollBack(b)
             \/ Remove(b) \/ RemoveFails(b) \/ Unrecord(b) \/ Unstate(b) \/ Stop(b)
      PROVE  FALSE
  <2>1. CASE Fetch(b) \/ Checkout(b)
    BY <1>4, <1>5, <1>6, <2>1 DEF Fetch, Checkout
  <2>2. CASE Record(b) \/ SwitchOff(b) \/ RollBack(b) \/ Stop(b)
    BY <1>4, <1>5, <1>6, <2>2 DEF Record, SwitchOff, RollBack, Ends, Stop
  <2>3. CASE Remove(b) \/ RemoveFails(b) \/ Unrecord(b) \/ Unstate(b)
    BY <1>4, <1>5, <1>6, <2>3 DEF Remove, RemoveFails, Unrecord, Unstate, Ends
  <2>4. QED  BY <1>7, <2>1, <2>2, <2>3
<1>8. ASSUME NEW b \in Admin, Step(b), ~Backup(b)
      PROVE  FALSE
  <2>1. CASE \/ \E s \in Source : SyncSource(b, s) \/ \E force \in BOOLEAN : Install(b, s, force)
             \/ (\E force \in BOOLEAN : Update(b, force)) \/ Uninstall(b)
    <3>1. ASSUME NEW at, NEW kind, NEW s, NEW force, NEW found, Begins(b, at, kind, s, force, found)
          PROVE  FALSE
      <4>1. [Rest EXCEPT !.at = at, !.kind = kind, !.source = s, !.force = force, !.found = found].kept
              = Nothing
        BY DEF Rest
      <4>2. admin'[a].kept = Nothing \/ admin'[a] = admin[a]
        BY <1>1, <3>1, <4>1 DEF Begins
      <4>3. QED  BY <1>1, <4>2
    <3>2. QED
      BY <2>1, <3>1 DEF SyncSource, Install, Update, Uninstall
  <2>2. CASE Scan(b) \/ Check(b) \/ Copy(b) \/ Place(b)
    <3>1. CASE Scan(b)
      BY <1>1, <3>1 DEF Scan, Work
    <3>2. CASE Check(b)
      <4>1. CASE admin[b].kind = "install"
        BY <1>1, <3>2, <4>1 DEF Check, Work
      <4>2. CASE admin[b].kind # "install"
        BY <1>4, <1>6, <3>2, <4>2 DEF Check
      <4>3. QED  BY <4>1, <4>2
    <3>3. CASE Copy(b)
      BY <1>1, <3>3 DEF Copy, Work
    <3>4. CASE Place(b)
      BY <1>1, <3>4 DEF Place, Work
    <3>5. QED  BY <2>2, <3>1, <3>2, <3>3, <3>4
  <2>3. QED  BY <1>7, <1>8, <2>1, <2>2 DEF Step
<1>9. ASSUME NEW b \in Admin, Backup(b)
      PROVE  b = a
  BY <1>1, <1>9 DEF Backup, Work
<1>10. CASE admin' = admin
  BY <1>1, <1>10
<1>11. CASE Edit
  BY <1>1, <1>2, <1>11 DEF Edit
<1>12. QED
  BY <1>8, <1>9, <1>10, <1>11 DEF Next, SetSource, Publish, Choose, vars

\* Files no source published are moved away only by a forced operation that
\* found the plugin managed, or if they came after it had looked.
THEOREM UserFilesSafe == Spec => UserFilesKept
<1>1. ASSUME IInv, [Next]_vars, NEW a \in Admin,
             admin[a].kept = Nothing, admin'[a].kept = Other
      PROVE  admin[a].late \/ (admin[a].force /\ admin[a].found # NoRecord)
  <2>1. Backup(a)
    BY <1>1, OnlyBackupKeeps
  <2>2. admin[a] \in Work /\ dir \in Content
    BY <1>1, <2>1 DEF IInv, TypeOK, Backup
  <2>3. admin'[a].kept = dir
    BY <1>1, <2>1, <2>2 DEF IInv, TypeOK, Backup, Work
  <2>4. Looked(admin[a]) /\ dir = Other
    BY <1>1, <2>1, <2>3 DEF Backup, Looked
  <2>5. QED  BY <1>1, <2>4 DEF IInv, LookedOK
<1>2. IInv /\ [Next]_vars => \A a \in Admin : admin[a].kept = Nothing /\ admin'[a].kept = Other =>
                                admin[a].late \/ (admin[a].force /\ admin[a].found # NoRecord)
  BY <1>1
<1>3. QED  BY <1>2, Invariance, PTL DEF UserFilesKept, Spec

-----------------------------------------------------------------------------
(* One operation at a time.  That it puts whole versions in place rests on *)
(* the checkout, which nobody touches between its scan and its copy; that  *)
(* it leaves a record of what is there, on who touched the directory last. *)

Whole == IF OnlySigned THEN Signed ELSE Version
Usual == Whole \cup {Other, Bare, Nothing}

\* What the operation w may have in hand.
Holds(w) ==
    /\ w.kept \in Usual
    /\ w.at = "scan" => checkout[w.source] \in Published
    /\ w.at = "check" /\ w.allowed => checkout[w.source] \in Whole
    /\ w.at = "copy" => checkout[w.source] \in Whole
    /\ w.at \in {"backup", "place"} => w.tmp \in Whole

SoleInv == Alone => dir \in Usual /\ \A a \in Admin : Holds(admin[a])

\* How far the operation w came with what it is to leave, if the user did not touch
\* the files since it did.
Leaves(w) ==
    /\ w.at \in {"record", "state", "unrecord", "unstate"} \/ w.kept # Nothing => files # "done"
    /\ files = "open" =>
         /\ w.at \in {"record", "state"} => dir = w.tmp
         /\ w.at = "state" => record = [source |-> w.source, hash |-> w.tmp]
         /\ w.at \in {"unrecord", "unstate"} => dir = Nothing
         /\ w.at = "unstate" => record = NoRecord
    /\ w.at = "state" => w.source \in Source

Described == IF record = NoRecord THEN dir = Nothing ELSE dir = record.hash

Finished == files = "done" => Described /\ (record # NoRecord /\ ~chosen => state = "off")

DoneInv == Alone => Finished /\ \A a \in Admin : Leaves(admin[a])

\* What the types and the places say of the operation that takes a step.
LEMMA Typing ==
  ASSUME IInv, NEW a \in Admin
  PROVE  /\ admin \in [Admin -> Work] /\ admin[a] \in Work /\ Fits(admin[a])
         /\ checkout \in [Source -> Published \cup {Torn, Nothing}]
         /\ upstream \in [Source -> Published]
         /\ Published \subseteq Version \cup {Nothing} /\ Signed \subseteq Version
         /\ Torn \notin Version /\ Nothing \notin Version /\ Torn # Nothing
BY MarketplaceAssumption DEF IInv, TypeOK, WorkOK

\* What is found at the start or brought by the user is no torn version.
LEMMA SoleInit == Init => SoleInv
BY DEF Init, SoleInv, Usual, Holds, Rest

\* Before there is a copy in hand the directory stays as it is.
LEMMA SoleLooks ==
  ASSUME IInv, SoleInv, Alone, NEW a \in Admin,
         \/ \E s \in Source : SyncSource(a, s) \/ \E force \in BOOLEAN : Install(a, s, force)
         \/ (\E force \in BOOLEAN : Update(a, force)) \/ Uninstall(a)
         \/ Fetch(a) \/ Checkout(a) \/ Scan(a) \/ Check(a) \/ Copy(a)
  PROVE  dir' \in Usual /\ Holds(admin[a])'
<1>0. dir \in Usual /\ Holds(admin[a]) /\ Whole \subseteq Version
  BY Typing DEF SoleInv, Whole
<1>1. ASSUME NEW at \in {"fetch", "remove"}, NEW kind, NEW s, NEW force, NEW found,
             Begins(a, at, kind, s, force, found)
      PROVE  dir' \in Usual /\ Holds(admin[a])'
  BY <1>0, <1>1, Typing DEF Begins, Rest, Holds, Usual
<1>2. ASSUME NEW s \in Source, SyncSource(a, s) \/ \E force \in BOOLEAN : Install(a, s, force)
      PROVE  dir' \in Usual /\ Holds(admin[a])'
  BY <1>1, <1>2 DEF SyncSource, Install
<1>3. CASE (\E force \in BOOLEAN : Update(a, force)) \/ Uninstall(a)
  BY <1>1, <1>3 DEF Update, Uninstall
<1>4. CASE Fetch(a)
  BY <1>0, <1>4, Typing DEF Fetch, Goes, Holds, Work
<1>5. CASE Checkout(a)
  BY <1>0, <1>5, Typing DEF Checkout, Goes, Ends, Rest, Holds, Fits, Usual, Work
<1>6. CASE Scan(a)
  BY <1>0, <1>6, Typing DEF Scan, Holds, Whole, Work, Fits
<1>7. CASE Check(a)
  BY <1>0, <1>7, Typing DEF Check, Goes, Holds, Work
<1>8. CASE Copy(a)
  BY <1>0, <1>8, Typing DEF Copy, Holds, Work
<1>9. QED  BY <1>2, <1>3, <1>4, <1>5, <1>6, <1>7, <1>8

\* With the copy in hand nothing but it, or what was there, comes into the directory.
LEMMA SoleMoves ==
  ASSUME IInv, SoleInv, Alone, NEW a \in Admin,
         \/ Backup(a) \/ Place(a) \/ RollBack(a) \/ Record(a) \/ SwitchOff(a)
         \/ Remove(a) \/ RemoveFails(a) \/ Unrecord(a) \/ Unstate(a) \/ Stop(a)
  PROVE  dir' \in Usual /\ Holds(admin[a])'
<1>0. dir \in Usual /\ Holds(admin[a]) /\ Nothing \in Usual /\ Other \in Usual /\ Bare \in Usual
  BY DEF SoleInv, Usual
<1>1. CASE Backup(a)
  BY <1>0, <1>1, Typing DEF Backup, Holds, Work
<1>2. CASE Place(a)
  BY <1>0, <1>2, Typing DEF Place, Holds, Work, Usual
<1>3. CASE Record(a) \/ Remove(a) \/ Unrecord(a)
  BY <1>0, <1>3, Typing DEF Record, Remove, Unrecord, Goes, Holds, Work
<1>4. CASE SwitchOff(a) \/ Unstate(a) \/ Stop(a)
  BY <1>0, <1>4, Typing DEF SwitchOff, Unstate, Stop, Ends, Rest, Holds
<1>5. CASE RollBack(a) \/ RemoveFails(a)
  <2>1. admin'[a] = Rest
    BY <1>5, ArrivesFacts, Typing DEF RollBack, RemoveFails
  <2>2. dir' \in Usual
    BY <1>0, <1>5 DEF RollBack, RemoveFails, Holds
  <2>3. QED  BY <1>0, <2>1, <2>2 DEF Holds, Rest
<1>6. QED  BY <1>1, <1>2, <1>3, <1>4, <1>5

\* The steps of nobody's operation.
LEMMA SoleAround ==
  ASSUME IInv, SoleInv, Alone,
         \/ \E s \in Source : \/ \E to \in Setting : SetSource(s, to)
                              \/ \E c \in Published : Publish(s, c)
         \/ \E st \in Choice : Choose(st)
         \/ Edit \/ UNCHANGED vars
  PROVE  dir' \in Usual /\ \A a \in Admin : Holds(admin[a])'
<1>0. dir \in Usual /\ \A a \in Admin : Holds(admin[a])
  BY DEF SoleInv
<1>1. CASE Edit
  <2>1. ASSUME NEW a \in Admin
        PROVE  Holds(admin[a])'
    <3>1. /\ admin'[a].at = admin[a].at /\ admin'[a].kept = admin[a].kept
          /\ admin'[a].source = admin[a].source /\ admin'[a].tmp = admin[a].tmp
          /\ admin'[a].allowed = admin[a].allowed
      BY <1>1, Typing DEF Edit, Arrives, Work
    <3>2. QED  BY <1>0, <1>1, <3>1 DEF Edit, Holds
  <2>2. QED  BY <1>1, <2>1 DEF Edit, Usual
<1>2. CASE ~Edit
  BY <1>0, <1>2 DEF SetSource, Publish, Choose, Holds, vars
<1>3. QED  BY <1>1, <1>2

\* Every step keeps what is in place whole.
LEMMA SoleNext == IInv /\ SoleInv /\ [Next]_vars => SoleInv'
<1> SUFFICES ASSUME IInv, SoleInv, [Next]_vars, Alone
             PROVE  dir' \in Usual /\ \A a \in Admin : Holds(admin[a])'
  BY DEF SoleInv, Alone
<1>1. ASSUME NEW a \in Admin, Step(a)
      PROVE  dir' \in Usual /\ \A b \in Admin : Holds(admin[b])'
  <2>1. Admin = {a}
    BY DEF Alone
  <2>2. dir' \in Usual /\ Holds(admin[a])'
    BY <1>1, SoleLooks, SoleMoves DEF Step
  <2>3. QED  BY <2>1, <2>2
<1>2. QED  BY <1>1, SoleAround DEF Next

\* With one operation at a time, only whole versions some source published are put
\* in place, signed ones where that is asked for (Manager.Install, copyPluginIntoPlace).
THEOREM OnlyPublishedInstalled == Spec => []InstalledIsPublished
<1>1. SoleInv => InstalledIsPublished
  BY DEF SoleInv, InstalledIsPublished, Usual, Whole
<1>2. QED  BY <1>1, SoleInit, SoleNext, Invariance, PTL DEF Spec

\* Nothing was done to its end at first.
LEMMA DoneInit == Init => DoneInv
BY DEF Init, DoneInv, Finished, Leaves, Rest

\* Until it has the directory in hand an operation leaves all of it as it is.
LEMMA DoneLooks ==
  ASSUME IInv, DoneInv, Alone, NEW a \in Admin,
         \/ \E s \in Source : SyncSource(a, s) \/ \E force \in BOOLEAN : Install(a, s, force)
         \/ (\E force \in BOOLEAN : Update(a, force)) \/ Uninstall(a)
         \/ Fetch(a) \/ Checkout(a) \/ Scan(a) \/ Check(a) \/ Copy(a)
  PROVE  Finished' /\ Leaves(admin[a])'
<1>0. Finished /\ Leaves(admin[a])
  BY DEF DoneInv
<1>1. ASSUME NEW at \in {"fetch", "remove"}, NEW kind, NEW s, NEW force, NEW found,
             Begins(a, at, kind, s, force, found)
      PROVE  Finished' /\ Leaves(admin[a])'
  BY <1>0, <1>1, Typing DEF Begins, Rest, Leaves, Finished, Described
<1>2. ASSUME NEW s \in Source, SyncSource(a, s) \/ \E force \in BOOLEAN : Install(a, s, force)
      PROVE  Finished' /\ Leaves(admin[a])'
  BY <1>1, <1>2 DEF SyncSource, Install
<1>3. CASE (\E force \in BOOLEAN : Update(a, force)) \/ Uninstall(a)
  BY <1>1, <1>3 DEF Update, Uninstall
<1>4. CASE Fetch(a)
  BY <1>0, <1>4, Typing DEF Fetch, Goes, Leaves, Finished, Described, Work
<1>5. CASE Checkout(a)
  BY <1>0, <1>5, Typing DEF Checkout, Goes, Ends, Rest, Leaves, Finished, Described, Work
<1>6. CASE Scan(a)
  BY <1>0, <1>6, Typing DEF Scan, Leaves, Finished, Described, Work
<1>7. CASE Check(a)
  BY <1>0, <1>7, Typing DEF Check, Goes, Leaves, Finished, Described, Work
<1>8. CASE Copy(a)
  BY <1>0, <1>8, Typing DEF Copy, Leaves, Finished, Described, Work
<1>9. QED  BY <1>2, <1>3, <1>4, <1>5, <1>6, <1>7, <1>8

\* From the first change of the directory to the last row it is not done.
LEMMA DoneMoves ==
  ASSUME IInv, DoneInv, Alone, NEW a \in Admin,
         \/ Backup(a) \/ Place(a) \/ RollBack(a) \/ Record(a) \/ SwitchOff(a)
         \/ Remove(a) \/ RemoveFails(a) \/ Unrecord(a) \/ Unstate(a) \/ Stop(a)
  PROVE  Finished' /\ Leaves(admin[a])'
<1>0. Finished /\ Leaves(admin[a]) /\ Fits(admin[a]) /\ files \in {"user", "done", "open"}
  BY Typing DEF DoneInv, IInv, TypeOK
<1>1. CASE Backup(a)
  BY <1>0, <1>1, Typing DEF Backup, Leaves, Finished, Work
<1>2. CASE Place(a)
  BY <1>0, <1>2, Typing DEF Place, Leaves, Finished, Fits, Work
<1>3. CASE Record(a)
  BY <1>0, <1>3, Typing DEF Record, Goes, Leaves, Finished, Fits, Work
<1>4. CASE SwitchOff(a)
  <2>1. record = [source |-> admin[a].source, hash |-> admin[a].tmp] => record # NoRecord
    BY <1>0, <1>4, MarketplaceAssumption DEF SwitchOff, Leaves, NoRecord
  <2>2. QED
    BY <1>0, <1>4, <2>1, Typing DEF SwitchOff, Ends, Closed, Rest, Leaves, Finished, Described
<1>5. CASE Remove(a) \/ Unrecord(a)
  BY <1>0, <1>5, Typing DEF Remove, Unrecord, Goes, Leaves, Finished, Fits, Work
<1>6. CASE Unstate(a)
  BY <1>0, <1>6, Typing DEF Unstate, Ends, Closed, Rest, Leaves, Finished, Described
<1>7. CASE Stop(a)
  BY <1>0, <1>7, Typing DEF Stop, Ends, Rest, Leaves, Finished, Described
<1>8. CASE RollBack(a) \/ RemoveFails(a)
  <2>1. admin'[a] = Rest
    BY <1>8, ArrivesFacts, Typing DEF RollBack, RemoveFails
  <2>2. files' # "done"
    BY <1>0, <1>8 DEF RollBack, RemoveFails, Leaves
  <2>3. QED  BY <2>1, <2>2 DEF Leaves, Finished, Rest
<1>9. QED  BY <1>1, <1>2, <1>3, <1>4, <1>5, <1>6, <1>7, <1>8

\* The steps of nobody's operation: the user's edit makes the files his own.
LEMMA DoneAround ==
  ASSUME IInv, DoneInv, Alone,
         \/ \E s \in Source : \/ \E to \in Setting : SetSource(s, to)
                              \/ \E c \in Published : Publish(s, c)
         \/ \E st \in Choice : Choose(st)
         \/ Edit \/ UNCHANGED vars
  PROVE  Finished' /\ \A a \in Admin : Leaves(admin[a])'
<1>0. Finished /\ \A a \in Admin : Leaves(admin[a])
  BY DEF DoneInv
<1>1. CASE Edit
  <2>1. ASSUME NEW a \in Admin
        PROVE  Leaves(admin[a])'
    <3>1. admin'[a].at = admin[a].at /\ admin'[a].source = admin[a].source
      BY <1>1, Typing DEF Edit, Arrives, Work
    <3>2. QED  BY <1>0, <1>1, <3>1 DEF Edit, Leaves
  <2>2. QED  BY <1>1, <2>1 DEF Edit, Finished
<1>2. CASE ~Edit
  BY <1>0, <1>2 DEF SetSource, Publish, Choose, Leaves, Finished, Described, vars
<1>3. QED  BY <1>1, <1>2

\* Every step keeps it.
LEMMA DoneNext == IInv /\ DoneInv /\ [Next]_vars => DoneInv'
<1> SUFFICES ASSUME IInv, DoneInv, [Next]_vars, Alone
             PROVE  Finished' /\ \A a \in Admin : Leaves(admin[a])'
  BY DEF DoneInv, Alone
<1>1. ASSUME NEW a \in Admin, Step(a)
      PROVE  Finished' /\ \A b \in Admin : Leaves(admin[b])'
  <2>1. Admin = {a}
    BY DEF Alone
  <2>2. Finished' /\ Leaves(admin[a])'
    BY <1>1, DoneLooks, DoneMoves DEF Step
  <2>3. QED  BY <2>1, <2>2
<1>2. QED  BY <1>1, DoneAround DEF Next

\* ... and the record describes what is there once an operation was done to its
\* end: no update sees local modifications that nobody made (PutPluginInstall, Update).
THEOREM RecordTrue == Spec => []RecordDescribes
<1>1. DoneInv => RecordDescribes
  BY DEF DoneInv, Finished, Described, RecordDescribes
<1>2. QED  BY <1>1, DoneInit, DoneNext, Invariance, PTL DEF Spec

\* ... and what it brought does not run before the owner switches it on.
THEOREM NothingRunsUnasked == Spec => []ArrivesOff
<1>1. DoneInv => ArrivesOff
  BY DEF DoneInv, Finished, ArrivesOff
<1>2. QED  BY <1>1, DoneInit, DoneNext, Invariance, PTL DEF Spec

=============================================================================
