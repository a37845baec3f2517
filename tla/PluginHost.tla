------------------------------ MODULE PluginHost ------------------------------
(***************************************************************************)
(* The plugin host (internal/runtime/plugins/host.go): the set of loaded   *)
(* plugins, each with a Lua VM of its own (lua/vm.go), reloaded from disk  *)
(* while commands, components, events and jobs call into it.               *)
(*                                                                         *)
(* A call looks its plugin up under the host's lock, releases the lock and *)
(* then takes the VM's: in between a reload may replace the plugin and     *)
(* close the VM.  LoadAll is not serialised: two reloads may overlap.      *)
(***************************************************************************)
EXTENDS FiniteSets

CONSTANTS
    Plugin,   \* plugin ids
    Dir,      \* directories under the plugin roots
    IdOf,     \* the id in each directory's manifest
    VM,       \* Lua states; one that is closed and let go of is used again
    NoVM,     \* not loaded
    Loader,   \* goroutines that run LoadAll
    Caller    \* goroutines that call into plugins

ASSUME HostAssumption ==
    /\ IdOf \in [Dir -> Plugin]
    /\ NoVM \notin VM

VARIABLES
    disk,     \* directories that load without an error
    plugins,  \* Host.plugins
    vm,       \* each VM: closed (L = nil), open, or busy with a call
    locales,  \* plugins whose messages the i18n registry holds
    loader,   \* each LoadAll's place and locals
    caller,   \* each call's place and the VM it found
    wiped     \* history: the last LoadAll to reset the locales failed next, or
              \* another was under way

vars == <<disk, plugins, vm, locales, loader, caller, wiped>>

Table == [Plugin -> VM \cup {NoVM}]
None == [p \in Plugin |-> NoVM]

\* The VMs of a table of plugins.
In(table) == {table[p] : p \in Plugin} \ {NoVM}

LoadState == [at : {"idle", "keys", "load", "close"}, todo : SUBSET Dir, next : Table,
              old : SUBSET VM]
Rest == [at |-> "idle", todo |-> {}, next |-> None, old |-> {}]
Free == [at |-> "idle", vm |-> NoVM]

TypeOK ==
    /\ disk \subseteq Dir
    /\ plugins \in Table
    /\ vm \in [VM -> {"closed", "open", "busy"}]
    /\ locales \subseteq Plugin
    /\ loader \in [Loader -> LoadState]
    /\ caller \in [Caller -> [at : {"idle", "found", "in"}, vm : VM \cup {NoVM}]]
    /\ wiped \in BOOLEAN

Init ==
    /\ disk = Dir
    /\ plugins = None
    /\ vm = [v \in VM |-> "closed"]
    /\ locales = {}
    /\ loader = [l \in Loader |-> Rest]
    /\ caller = [c \in Caller |-> Free]
    /\ wiped = FALSE

-----------------------------------------------------------------------------
(* LoadAll.                                                                *)

\* readPluginDirEntries and the permission policy; an error ends the reload
\* before anything changed.
ReadDirs(l) ==
    /\ loader[l].at = "idle"
    /\ loader' = [loader EXCEPT ![l] = [Rest EXCEPT !.at = "keys", !.todo = disk]]
    /\ UNCHANGED <<disk, plugins, vm, locales, caller, wiped>>

\* Mutant of ReadKeys: resetPluginLocales is left out.
ReadKeysOnly(l) ==
    /\ loader[l].at = "keys"
    /\ loader' = [loader EXCEPT ![l].at = "load"]
    /\ wiped' = (\E k \in Loader \ {l} : loader[k].at # "idle")
    /\ UNCHANGED <<disk, plugins, vm, locales, caller>>

\* resetPluginLocales, then LoadTrustedKeys: its error ends the reload with the
\* old plugins loaded and the locales gone.
ReadKeys(l) ==
    /\ loader[l].at = "keys"
    /\ locales' = {}
    /\ \/ /\ loader' = [loader EXCEPT ![l].at = "load"]
          /\ wiped' = (\E k \in Loader \ {l} : loader[k].at # "idle")
       \/ /\ loader' = [loader EXCEPT ![l] = Rest]
          /\ wiped' = TRUE
    /\ UNCHANGED <<disk, plugins, vm, caller>>

\* loadOne of one directory: a directory that fails to load is skipped.
Skip(l, d) ==
    /\ loader[l].at = "load"
    /\ d \in loader[l].todo
    /\ d \notin disk \/ loader[l].next[IdOf[d]] # NoVM
    /\ loader' = [loader EXCEPT ![l].todo = @ \ {d}]
    /\ UNCHANGED <<disk, plugins, vm, locales, caller, wiped>>

Unused == {v \in VM : vm[v] = "closed" /\ \A c \in Caller : caller[c].vm # v}

\* Otherwise it gets a new VM, any that is not in use, in which the top level of
\* plugin.lua is run to its end, without a deadline; of two with the same id the
\* second one's VM is closed again at once (Skip).
Load(l, d, v) ==
    /\ loader[l].at = "load"
    /\ d \in loader[l].todo \cap disk
    /\ loader[l].next[IdOf[d]] = NoVM
    /\ v \in Unused /\ v = CHOOSE w \in Unused : TRUE
    /\ vm' = [vm EXCEPT ![v] = "open"]
    /\ loader' = [loader EXCEPT ![l].todo = loader[l].todo \ {d}, ![l].next[IdOf[d]] = v]
    /\ locales' = locales \cup {IdOf[d]}
    /\ UNCHANGED <<disk, plugins, caller, wiped>>

\* Mutants of Swap: a plugin that no longer loads stays listed; the old plugins
\* are dropped, not closed.
SwapMerges(l) ==
    /\ loader[l].at = "load"
    /\ loader[l].todo = {}
    /\ plugins' = [p \in Plugin |-> IF loader[l].next[p] = NoVM THEN plugins[p]
                                    ELSE loader[l].next[p]]
    /\ loader' = [loader EXCEPT ![l] = [Rest EXCEPT !.at = "close", !.old = In(plugins)]]
    /\ UNCHANGED <<disk, vm, locales, caller, wiped>>
SwapDrops(l) ==
    /\ loader[l].at = "load"
    /\ loader[l].todo = {}
    /\ plugins' = loader[l].next
    /\ loader' = [loader EXCEPT ![l] = [Rest EXCEPT !.at = "close"]]
    /\ UNCHANGED <<disk, vm, locales, caller, wiped>>

\* swapState: one assignment under the lock; the old plugins are closed after.
Swap(l) ==
    /\ loader[l].at = "load"
    /\ loader[l].todo = {}
    /\ plugins' = loader[l].next
    /\ loader' = [loader EXCEPT ![l] = [Rest EXCEPT !.at = "close", !.old = In(plugins)]]
    /\ UNCHANGED <<disk, vm, locales, caller, wiped>>

\* VM.Close waits for the call that holds the VM.
Close(l, v) ==
    /\ loader[l].at = "close"
    /\ v \in loader[l].old
    /\ vm[v] # "busy"
    /\ vm' = [vm EXCEPT ![v] = "closed"]
    /\ loader' = [loader EXCEPT ![l].old = @ \ {v}]
    /\ UNCHANGED <<disk, plugins, locales, caller, wiped>>

Done(l) ==
    /\ loader[l].at = "close"
    /\ loader[l].old = {}
    /\ loader' = [loader EXCEPT ![l] = Rest]
    /\ UNCHANGED <<disk, plugins, vm, locales, caller, wiped>>

LoadOne(l) == \E d \in Dir : Skip(l, d) \/ \E v \in VM : Load(l, d, v)
HostStep(l) == ReadKeys(l) \/ Swap(l) \/ Done(l) \/ \E v \in VM : Close(l, v)
Loading(l) == LoadOne(l) \/ HostStep(l)

-----------------------------------------------------------------------------
(* Calls: HandleSlash, HandleComponent, HandleModal, HandleEvent, HandleJob. *)

Lookup(c, p) ==
    /\ caller[c].at = "idle"
    /\ plugins[p] # NoVM
    /\ caller' = [caller EXCEPT ![c] = [at |-> "found", vm |-> plugins[p]]]
    /\ UNCHANGED <<disk, plugins, vm, locales, loader, wiped>>

\* Mutant of Enter: the VM's lock is not taken.
EnterUnlocked(c) ==
    /\ caller[c].at = "found"
    /\ vm[caller[c].vm] # "closed"
    /\ vm' = [vm EXCEPT ![caller[c].vm] = "busy"]
    /\ caller' = [caller EXCEPT ![c].at = "in"]
    /\ UNCHANGED <<disk, plugins, locales, loader, wiped>>

\* CallHandle takes the VM's lock and finds the state still there.
Enter(c) ==
    /\ caller[c].at = "found"
    /\ vm[caller[c].vm] = "open"
    /\ vm' = [vm EXCEPT ![caller[c].vm] = "busy"]
    /\ caller' = [caller EXCEPT ![c].at = "in"]
    /\ UNCHANGED <<disk, plugins, locales, loader, wiped>>

\* "lua vm is closed".
Refused(c) ==
    /\ caller[c].at = "found"
    /\ vm[caller[c].vm] = "closed"
    /\ caller' = [caller EXCEPT ![c] = Free]
    /\ UNCHANGED <<disk, plugins, vm, locales, loader, wiped>>

\* Mutant of Return: the VM's lock is kept.
ReturnLocked(c) ==
    /\ caller[c].at = "in"
    /\ caller' = [caller EXCEPT ![c] = Free]
    /\ UNCHANGED <<disk, plugins, vm, locales, loader, wiped>>

\* The Lua function returns, fails, or is stopped by its deadline.
Return(c) ==
    /\ caller[c].at = "in"
    /\ vm' = [vm EXCEPT ![caller[c].vm] = "open"]
    /\ caller' = [caller EXCEPT ![c] = Free]
    /\ UNCHANGED <<disk, plugins, locales, loader, wiped>>

Calling(c) == Enter(c) \/ Refused(c) \/ Return(c)

DiskChanges(S) ==
    /\ disk # S
    /\ disk' = S
    /\ UNCHANGED <<plugins, vm, locales, loader, caller, wiped>>

Next ==
    \/ \E l \in Loader : ReadDirs(l) \/ Loading(l)
    \/ \E c \in Caller : Calling(c) \/ \E p \in Plugin : Lookup(c, p)
    \/ \E S \in SUBSET Dir : DiskChanges(S)

Spec == Init /\ [][Next]_vars

-----------------------------------------------------------------------------
(* Properties.                                                             *)

\* However reloads overlap, a plugin that can be looked up has a VM nobody
\* closed, and no two plugins share one.
LoadedIsOpen ==
    \A p \in Plugin : plugins[p] # NoVM =>
        /\ vm[plugins[p]] # "closed"
        /\ \A q \in Plugin : plugins[q] = plugins[p] => q = p

\* No reload forgets a VM: each one that is open is the host's, or one a LoadAll
\* still is to swap in or to close, and once they are done only the host's are
\* left open.
NoVMLeaks ==
    \A v \in VM : vm[v] # "closed" =>
        \/ v \in In(plugins)
        \/ \E l \in Loader : v \in In(loader[l].next) \/ v \in loader[l].old

\* A call that runs runs alone on its VM, and the VM is still open.
CallsRunAlone ==
    \A c \in Caller : caller[c].at = "in" =>
        /\ vm[caller[c].vm] = "busy"
        /\ \A d \in Caller : caller[d].at = "in" /\ caller[d].vm = caller[c].vm => d = c

\* However loads, reloads and calls overlap, the host's table, its VMs and the
\* calls inside them agree (LoadAll, swapState, closePlugins, VM.CallHandle).
VMsSound == LoadedIsOpen /\ NoVMLeaks /\ CallsRunAlone

\* Between reloads, unless the last one lost the trusted keys or overlapped with
\* another, the registry holds the messages of the loaded plugins and of no
\* other.
LocalesFollow ==
    (\A l \in Loader : loader[l].at = "idle") /\ ~wiped =>
        locales = {p \in Plugin : plugins[p] # NoVM}

\* The goroutines of reloads and calls go on, and a call is stopped by its deadline.
\* A load of a plugin is not: nothing stops its top level.
Fairness ==
    /\ \A l \in Loader : WF_vars(HostStep(l))
    /\ \A c \in Caller : WF_vars(Calling(c))

LiveSpec == Spec /\ Fairness

\* A reload ends although it waits for every call in the VMs it replaced: no
\* new call can find them.  It does if each plugin it loads comes to an end of
\* its top level; one that does not keeps its own reload for ever, and no other.
ReloadEnds ==
    \A l \in Loader :
        WF_vars(LoadOne(l)) => (loader[l].at # "idle" ~> loader[l].at = "idle")

Promise == INSTANCE PluginTable
             WITH table   <- plugins,
                  fresh   <- UNION {In(loader[l].next) : l \in Loader},
                  retired <- UNION {loader[l].old : l \in Loader},
                  held    <- [c \in Caller |-> caller[c].vm],
                  inside  <- {c \in Caller : caller[c].at = "in"}

\* Loads that overlap, with the VMs they hold between their steps, implement the
\* promise (PluginTable): no call sees a table in between, none is refused by a
\* plugin that is loaded, and none is in a VM that is closed or made anew.
KeepsTablePromise == Promise!Spec

=============================================================================
