----------------------------- MODULE Marketplace -----------------------------
(***************************************************************************)
(* Installing, updating and removing a plugin from a git source            *)
(* (internal/marketplace/manager.go): the checkout of each source, the     *)
(* plugin's directory, its plugin_installs record and its module state.    *)
(* None of the operations is a transaction, two may run at once (two       *)
(* dashboard requests, or the bot and the command line), each may end      *)
(* early at any step, and the user edits the directory at any time.        *)
(*                                                                         *)
(* The model follows one plugin id: operations on another touch other      *)
(* directories and rows, and the checkouts as a sync here does.  A sync's  *)
(* own row (plugin_source_sync) is for display and left out.               *)
(***************************************************************************)
CONSTANTS
    Source,     \* ids of git sources
    Version,    \* contents of the plugin that a source ever published
    Signed,     \* those signed by a trusted signer
    Published,  \* what a source has for the plugin at any time
    Other,      \* any plugin no source published: the user's, or an edited one
    Bare,       \* any directory without a plugin.json: no plugin
    Torn,       \* half of one version and half of another
    Nothing,    \* no directory, no plugin, no source
    Admin,      \* goroutines that run an operation of the manager
    Manager,    \* processes, each with a Manager (and its locks) of its own
    ManagerOf,  \* the one each goroutine runs in
    OnlySigned, \* prodMode && !allowUnsigned
    Setting,    \* what the owner sets a source to
    Choice      \* what the owner sets the module's state to

ASSUME MarketplaceAssumption ==
    /\ Signed \subseteq Version
    /\ Published \subseteq Version \cup {Nothing}
    /\ {Other, Bare, Torn, Nothing} \cap Version = {}
    /\ Other \notin {Bare, Torn, Nothing} /\ Torn \notin {Bare, Nothing} /\ Bare # Nothing
    /\ Nothing \notin Source
    /\ ManagerOf \in [Admin -> Manager]
    /\ OnlySigned \in BOOLEAN
    /\ Setting \subseteq {"absent", "off", "on"}
    /\ Choice \subseteq {"unset", "on", "off"}

VARIABLES
    source,    \* plugin_sources: absent, or its enabled column
    upstream,  \* what the source's git remote has for the plugin (external)
    checkout,  \* what the source's checkout has
    dir,       \* the plugin's directory under the user plugins root
    attic,     \* backups that operations which ended left in .tmp, since dir was
               \* last filled
    record,    \* plugin_installs: its source and the hash, that is the content
    state,     \* module_states
    admin,     \* each operation's place and locals
    files,     \* history: whether the last to touch the directory was the
               \* user, an operation that was done to its end, or another
    chosen,    \* history: the owner chose the state since the content arrived
    latest     \* history: what dir held last; Nothing once it was removed

vars == <<source, upstream, checkout, dir, attic, record, state, admin, files, chosen, latest>>

Content == Version \cup {Other, Bare, Torn}
NoRecord == [source |-> Nothing, hash |-> Nothing]
Records == [source : Source, hash : Content] \cup {NoRecord}

Kinds == {"sync", "install", "update", "uninstall"}
Places == {"idle", "fetch", "checkout", "scan", "check", "copy", "backup", "place",
           "record", "state", "remove", "unrecord", "unstate"}

\* allowed: what the scan found may be installed; tmp and kept: the operation's own directories
\* in .tmp, the copy and the backup; late: history, other content came into
\* dir since the operation looked at it.
Work == [at : Places, kind : Kinds, source : Source \cup {Nothing}, force : BOOLEAN,
         found : Records, allowed : BOOLEAN, tmp : Content \cup {Nothing},
         kept : Content \cup {Nothing}, late : BOOLEAN]
Rest == [at |-> "idle", kind |-> "sync", source |-> Nothing, force |-> FALSE,
         found |-> NoRecord, allowed |-> FALSE, tmp |-> Nothing, kept |-> Nothing,
         late |-> FALSE]

TypeOK ==
    /\ source \in [Source -> {"absent", "off", "on"}]
    /\ upstream \in [Source -> Published]
    /\ checkout \in [Source -> Published \cup {Torn, Nothing}]
    /\ dir \in Content \cup {Nothing}
    /\ attic \subseteq Content
    /\ record \in Records
    /\ state \in {"unset", "on", "off"}
    /\ admin \in [Admin -> Work]
    /\ files \in {"user", "done", "open"} /\ chosen \in BOOLEAN
    /\ latest \in Content \cup {Nothing}

Init ==
    /\ source = [s \in Source |-> "absent"]
    /\ upstream \in [Source -> Published]
    /\ checkout = [s \in Source |-> Nothing]
    /\ dir \in {Nothing, Other}
    /\ attic = {}
    /\ record = NoRecord
    /\ state = "unset"
    /\ admin = [a \in Admin |-> Rest]
    /\ files = "user" /\ chosen = FALSE
    /\ latest = dir

-----------------------------------------------------------------------------
(* Around the operations.                                                  *)

\* UpsertSource and DeleteSource; a source is deleted whatever it installed.
SetSource(s, to) ==
    /\ source' = [source EXCEPT ![s] = to]
    /\ UNCHANGED <<upstream, checkout, dir, attic, record, state, admin, files, chosen, latest>>

\* A push to the remote, or a new git_url, git_ref or git_subdir in the row.
Publish(s, c) ==
    /\ upstream' = [upstream EXCEPT ![s] = c]
    /\ UNCHANGED <<source, checkout, dir, attic, record, state, admin, files, chosen, latest>>

\* /modules, or the dashboard's.
Choose(st) ==
    /\ state' = st
    /\ chosen' = TRUE
    /\ UNCHANGED <<source, upstream, checkout, dir, attic, record, admin, files, latest>>

\* Other content comes into the directory under every operation's eyes.
Arrives(others) == [a \in Admin |-> [others[a] EXCEPT !.late = TRUE]]

\* The user edits, adds or removes files.
Edit ==
    /\ \/ dir' = Other /\ admin' = Arrives(admin)
       \/ dir' \in {Bare, Nothing} /\ admin' = admin
    /\ latest' = dir'
    /\ attic' = {}
    /\ files' = "user"
    /\ UNCHANGED <<source, upstream, checkout, record, state, chosen>>

-----------------------------------------------------------------------------
(* The beginnings: what each operation requires before it touches anything. *)

Begins(a, at, kind, s, force, found) ==
    /\ admin[a].at = "idle"
    /\ admin' = [admin EXCEPT ![a] = [Rest EXCEPT !.at = at, !.kind = kind, !.source = s,
                                                  !.force = force, !.found = found]]
    /\ UNCHANGED <<source, upstream, checkout, dir, attic, record, state, files, chosen, latest>>

SyncSource(a, s) ==
    /\ source[s] = "on"
    /\ Begins(a, "fetch", "sync", s, FALSE, NoRecord)

Install(a, s, force) ==
    /\ source[s] = "on"
    /\ Begins(a, "fetch", "install", s, force, NoRecord)

\* Mutant of Update: DirModified is not asked.
UpdateUnasked(a, force) ==
    /\ record # NoRecord
    /\ source[record.source] # "absent"
    /\ Begins(a, "fetch", "update", record.source, force, record)

\* An update looks for local modifications first, and does not ask whether the
\* source is enabled.
Update(a, force) ==
    /\ record # NoRecord
    /\ source[record.source] # "absent"
    /\ dir \in {Nothing, record.hash} \/ force
    /\ Begins(a, "fetch", "update", record.source, force, record)

Uninstall(a) ==
    /\ record # NoRecord
    /\ Begins(a, "remove", "uninstall", Nothing, FALSE, record)

-----------------------------------------------------------------------------
(* Syncing and reading a source's checkout.                                *)

Goes(a, at) == admin' = [admin EXCEPT ![a].at = at]
Ends(a) == admin' = [admin EXCEPT ![a] = Rest]
Closed == IF files = "open" THEN "done" ELSE files

\* syncSourceRecord, from `git fetch' to the start of `git checkout -f', under
\* the manager's lock of the source ...
Fetch(a) ==
    /\ admin[a].at = "fetch"
    /\ \A b \in Admin : ~ /\ admin[b].at = "checkout"
                          /\ admin[b].source = admin[a].source
                          /\ ManagerOf[b] = ManagerOf[a]
    /\ checkout' = [checkout EXCEPT ![admin[a].source] = Torn]
    /\ Goes(a, "checkout")
    /\ UNCHANGED <<source, upstream, dir, attic, record, state, files, chosen, latest>>

\* ... to its end.
Checkout(a) ==
    /\ admin[a].at = "checkout"
    /\ checkout' = [checkout EXCEPT ![admin[a].source] = upstream[admin[a].source]]
    /\ IF admin[a].kind = "sync" THEN Ends(a) ELSE Goes(a, "scan")
    /\ UNCHANGED <<source, upstream, dir, attic, record, state, files, chosen, latest>>

\* scanSourceCandidates: the plugin may not be there (Stop).
Scan(a) ==
    /\ admin[a].at = "scan"
    /\ LET found == checkout[admin[a].source]
       IN /\ found # Nothing
          /\ admin' = [admin EXCEPT ![a].at = "check", ![a].allowed = OnlySigned => found \in Signed]
    /\ UNCHANGED <<source, upstream, checkout, dir, attic, record, state, files, chosen, latest>>

\* Mutant of Check: an update's signature is not looked at.
CheckInstallOnly(a) ==
    /\ admin[a].at = "check"
    /\ IF admin[a].kind = "install"
       THEN /\ admin[a].allowed
            /\ IF record = NoRecord
               THEN dir \in {Nothing, Bare, Torn}
               ELSE record.source = admin[a].source /\ admin[a].force
            /\ admin' = [admin EXCEPT ![a].at = "copy", ![a].found = record, ![a].late = FALSE]
       ELSE Goes(a, "copy")
    /\ UNCHANGED <<source, upstream, checkout, dir, attic, record, state, files, chosen, latest>>

\* The signature, and for an installation the record and checkInstallCollision,
\* for which a directory without a plugin.json (a torn copy may lack it) is none.
Check(a) ==
    /\ admin[a].at = "check"
    /\ admin[a].allowed
    /\ IF admin[a].kind = "install"
       THEN /\ IF record = NoRecord
               THEN dir \in {Nothing, Bare, Torn}
               ELSE record.source = admin[a].source /\ admin[a].force
            /\ admin' = [admin EXCEPT ![a].at = "copy", ![a].found = record, ![a].late = FALSE]
       ELSE Goes(a, "copy")
    /\ UNCHANGED <<source, upstream, checkout, dir, attic, record, state, files, chosen, latest>>

-----------------------------------------------------------------------------
(* copyPluginIntoPlace.                                                    *)

Copy(a) ==
    /\ admin[a].at = "copy"
    /\ checkout[admin[a].source] # Nothing
    /\ admin' = [admin EXCEPT ![a].at = IF dir = Nothing THEN "place" ELSE "backup",
                              ![a].tmp = checkout[admin[a].source]]
    /\ UNCHANGED <<source, upstream, checkout, dir, attic, record, state, files, chosen, latest>>

\* What is in the directory goes to .tmp; if it went meanwhile, Stop.
Backup(a) ==
    /\ admin[a].at = "backup"
    /\ dir # Nothing
    /\ admin' = [admin EXCEPT ![a].at = "place", ![a].kept = dir]
    /\ dir' = Nothing
    /\ files' = "open"
    /\ UNCHANGED <<source, upstream, checkout, attic, record, state, chosen, latest>>

\* The copy takes its place unless another one did, and the backup goes.
Place(a) ==
    /\ admin[a].at = "place"
    /\ dir = Nothing
    /\ dir' = admin[a].tmp
    /\ latest' = admin[a].tmp
    /\ attic' = {}
    /\ admin' = [admin EXCEPT ![a].at = "record", ![a].kept = Nothing]
    /\ files' = "open"
    /\ chosen' = FALSE
    /\ UNCHANGED <<source, upstream, checkout, record, state>>

\* Mutant of RollBack: the backup is taken for a leftover.
RollBackNot(a) ==
    /\ admin[a].at = "place"
    /\ Ends(a)
    /\ UNCHANGED <<source, upstream, checkout, dir, attic, record, state, files, chosen, latest>>

\* It does not: the backup goes back, if there is one and nothing took its place.
RollBack(a) ==
    /\ admin[a].at = "place"
    /\ dir = Nothing /\ admin[a].kept # Nothing
    /\ dir' = admin[a].kept
    /\ latest' = dir'
    /\ attic' = {}
    /\ admin' = [(IF dir' = Other THEN Arrives(admin) ELSE admin) EXCEPT ![a] = Rest]
    /\ UNCHANGED <<source, upstream, checkout, record, state, files, chosen>>

\* Mutant of Record: PutPluginInstall with the hash of the version it replaces.
RecordOldHash(a) ==
    /\ admin[a].at = "record"
    /\ record' = [source |-> admin[a].source,
                  hash |-> IF admin[a].found = NoRecord THEN admin[a].tmp
                                                        ELSE admin[a].found.hash]
    /\ Goes(a, "state")
    /\ UNCHANGED <<source, upstream, checkout, dir, attic, state, files, chosen, latest>>

\* PutPluginInstall.
Record(a) ==
    /\ admin[a].at = "record"
    /\ record' = [source |-> admin[a].source, hash |-> admin[a].tmp]
    /\ Goes(a, "state")
    /\ UNCHANGED <<source, upstream, checkout, dir, attic, state, files, chosen, latest>>

\* Mutant of SwitchOff: an update leaves the state alone.
SwitchOffNew(a) ==
    /\ admin[a].at = "state"
    /\ state' = IF admin[a].kind = "update" THEN state ELSE "off"
    /\ Ends(a)
    /\ files' = Closed
    /\ UNCHANGED <<source, upstream, checkout, dir, attic, record, chosen, latest>>

\* PutModuleState: what was installed or updated is off.
SwitchOff(a) ==
    /\ admin[a].at = "state"
    /\ state' = "off"
    /\ Ends(a)
    /\ files' = Closed
    /\ UNCHANGED <<source, upstream, checkout, dir, attic, record, chosen, latest>>

-----------------------------------------------------------------------------
(* Uninstall: the directory, the record, the state; and errors.            *)

Remove(a) ==
    /\ admin[a].at = "remove"
    /\ dir' = Nothing
    /\ latest' = IF dir = Nothing THEN latest ELSE Nothing
    /\ files' = "open"
    /\ Goes(a, "unrecord")
    /\ UNCHANGED <<source, upstream, checkout, attic, record, state, chosen>>

\* RemoveAll fails half way.
RemoveFails(a) ==
    /\ admin[a].at = "remove"
    /\ dir # Nothing
    /\ dir' \in {Other, Bare}
    /\ latest' = dir'
    /\ files' = "open"
    /\ admin' = [(IF dir' = Other THEN Arrives(admin) ELSE admin) EXCEPT ![a] = Rest]
    /\ UNCHANGED <<source, upstream, checkout, attic, record, state, chosen>>

Unrecord(a) ==
    /\ admin[a].at = "unrecord"
    /\ record' = NoRecord
    /\ Goes(a, "unstate")
    /\ UNCHANGED <<source, upstream, checkout, dir, attic, state, files, chosen, latest>>

Unstate(a) ==
    /\ admin[a].at = "unstate"
    /\ state' = "unset"
    /\ Ends(a)
    /\ files' = Closed
    /\ UNCHANGED <<source, upstream, checkout, dir, attic, record, chosen, latest>>

\* An operation ends early: it is refused, a call fails, its context ends or its
\* process does.  Nothing is undone, and a backup it made is left behind.
Stop(a) ==
    /\ admin[a].at # "idle"
    /\ Ends(a)
    /\ attic' = IF dir = Nothing THEN attic \cup ({admin[a].kept} \ {Nothing}) ELSE attic
    /\ UNCHANGED <<source, upstream, checkout, dir, record, state, files, chosen, latest>>

Step(a) ==
    \/ \E s \in Source : SyncSource(a, s) \/ \E force \in BOOLEAN : Install(a, s, force)
    \/ (\E force \in BOOLEAN : Update(a, force)) \/ Uninstall(a)
    \/ Fetch(a) \/ Checkout(a) \/ Scan(a) \/ Check(a)
    \/ Copy(a) \/ Backup(a) \/ Place(a) \/ RollBack(a) \/ Record(a) \/ SwitchOff(a)
    \/ Remove(a) \/ RemoveFails(a) \/ Unrecord(a) \/ Unstate(a)
    \/ Stop(a)

Next ==
    \/ \E a \in Admin : Step(a)
    \/ \E s \in Source : \/ \E to \in Setting : SetSource(s, to)
                         \/ \E c \in Published : Publish(s, c)
    \/ \E st \in Choice : Choose(st)
    \/ Edit

Spec == Init /\ [][Next]_vars

-----------------------------------------------------------------------------
(* Properties.                                                             *)

Alone == \A a, b \in Admin : a = b
Quiet == \A a \in Admin : admin[a].at = "idle"
Kept == {admin[a].kept : a \in Admin} \ {Nothing}

\* Whatever fails, however operations overlap and wherever one ends, the files
\* of the plugin are not lost: unless the user or an uninstallation removed
\* them, they are in its directory or in a backup.
NothingLost == dir = Nothing /\ latest # Nothing => latest \in attic \cup Kept

\* However operations overlap, a plugin no source published (the user's own
\* one, or one with local modifications) is moved away only by an operation that
\* was forced and found the plugin managed, or if it came after that had looked.
UserFilesKept ==
    [][\A a \in Admin :
          admin[a].kept = Nothing /\ admin'[a].kept = Other =>
              admin[a].late \/ (admin[a].force /\ admin[a].found # NoRecord)]_vars

\* With one operation at a time, whatever sync was interrupted before, only
\* whole versions some source published are put in place, and where unsigned
\* plugins are not allowed only signed ones.
InstalledIsPublished ==
    Alone => dir \in (IF OnlySigned THEN Signed ELSE Version) \cup {Other, Bare, Nothing}

\* With one operation at a time, once one was done to its end and until the user
\* touches the files, there is a record exactly if there is a directory, and
\* its hash is the directory's: the next update sees no local modification.
RecordDescribes ==
    Alone /\ Quiet /\ files = "done" =>
        IF record = NoRecord THEN dir = Nothing ELSE dir = record.hash

\* ... and what was installed or updated is off until the owner chose.
ArrivesOff ==
    Alone /\ Quiet /\ files = "done" /\ record # NoRecord /\ ~chosen => state = "off"

=============================================================================
