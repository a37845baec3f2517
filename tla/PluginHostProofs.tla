--------------------------- MODULE PluginHostProofs ---------------------------
(***************************************************************************)
(* Theorems about PluginHost for every set of plugins, directories, VMs,   *)
(* reloads and calls, and below them about Trust, what the host checks of  *)
(* a plugin before it loads it.                                            *)
(*                                                                         *)
(* LoadedIsOpen alone is not inductive: a reload closes the VMs it took    *)
(* from the host, so these must not be another reload's, nor the host's    *)
(* again.  Apart says it: every open VM has exactly one owner, the host's  *)
(* table, the table a reload builds, or the list a reload still has to     *)
(* close.                                                                  *)
(***************************************************************************)
EXTENDS PluginHost, Trust, TLAPS

\* What a reload holds at each place.
LoaderOK ==
    \A l \in Loader :
        /\ loader[l].at # "load" => loader[l].next = None
        /\ loader[l].at # "close" => loader[l].old = {}

\* The VMs of a reload's table, and those it has to close, are open.
HeldIsOpen ==
    \A l \in Loader :
        /\ \A p \in Plugin : loader[l].next[p] # NoVM =>
             /\ vm[loader[l].next[p]] # "closed"
             /\ \A q \in Plugin : loader[l].next[q] = loader[l].next[p] => q = p
        /\ \A v \in loader[l].old : vm[v] # "closed"

\* No VM has two owners.
Apart ==
    \A l \in Loader :
        /\ \A p, q \in Plugin : loader[l].next[p] # NoVM => plugins[q] # loader[l].next[p]
        /\ \A q \in Plugin : plugins[q] \notin loader[l].old
        /\ \A k \in Loader, p \in Plugin : loader[l].next[p] \notin loader[k].old
        /\ \A k \in Loader \ {l} :
             /\ \A p, q \in Plugin : loader[l].next[p] # NoVM =>
                                       loader[k].next[q] # loader[l].next[p]
             /\ loader[l].old \cap loader[k].old = {}

CallOK ==
    /\ \A c \in Caller : caller[c].at # "idle" => caller[c].vm \in VM
    /\ CallsRunAlone

IInv == TypeOK /\ LoaderOK /\ LoadedIsOpen /\ HeldIsOpen /\ Apart /\ CallOK /\ NoVMLeaks

\* Every step keeps the types.
LEMMA NextType ==
  ASSUME TypeOK, [Next]_vars
  PROVE  TypeOK'
<1> USE HostAssumption
<1>0. None \in Table /\ Rest \in LoadState
  BY DEF None, Table, Rest, LoadState
<1>1. ASSUME NEW l \in Loader, ReadDirs(l) PROVE TypeOK'
  <2>1. [Rest EXCEPT !.at = "keys", !.todo = disk] \in LoadState
    BY <1>0 DEF TypeOK, LoadState
  <2>2. QED  BY <1>1, <2>1 DEF TypeOK, ReadDirs
<1>2. ASSUME NEW l \in Loader, ReadKeys(l) PROVE TypeOK'
  <2>1. [loader[l] EXCEPT !.at = "load"] \in LoadState
    BY DEF TypeOK, LoadState
  <2>2. loader' \in [Loader -> LoadState]
    BY <1>0, <1>2, <2>1 DEF TypeOK, ReadKeys
  <2>3. QED  BY <1>2, <2>2 DEF TypeOK, ReadKeys
<1>3. ASSUME NEW l \in Loader, Swap(l) PROVE TypeOK'
  <2>1. In(plugins) \subseteq VM
    BY DEF TypeOK, In, Table
  <2>2. [Rest EXCEPT !.at = "close", !.old = In(plugins)] \in LoadState
    BY <1>0, <2>1 DEF LoadState
  <2>3. loader[l].next \in Table
    BY DEF TypeOK, LoadState
  <2>4. QED  BY <1>3, <2>2, <2>3 DEF TypeOK, Swap
<1>4. ASSUME NEW l \in Loader, Done(l) PROVE TypeOK'
  BY <1>0, <1>4 DEF TypeOK, Done
<1>5. ASSUME NEW l \in Loader, NEW d \in Dir, Skip(l, d) PROVE TypeOK'
  BY <1>5 DEF TypeOK, Skip, LoadState
<1>6. ASSUME NEW l \in Loader, NEW d \in Dir, NEW v \in VM, Load(l, d, v) PROVE TypeOK'
  <2>1. IdOf[d] \in Plugin
    OBVIOUS
  <2>2. [loader[l].next EXCEPT ![IdOf[d]] = v] \in Table
    BY <2>1 DEF TypeOK, LoadState, Table
  <2>3. [loader[l] EXCEPT !.todo = loader[l].todo \ {d}, !.next[IdOf[d]] = v] \in LoadState
    BY ZenonT(40), <2>2 DEF TypeOK, LoadState
  <2>4. loader' \in [Loader -> LoadState]
    BY <1>6, <2>3 DEF TypeOK, Load
  <2>5. vm' \in [VM -> {"closed", "open", "busy"}] /\ locales' \subseteq Plugin
    BY <1>6, <2>1 DEF TypeOK, Load
  <2>6. QED  BY <1>6, <2>4, <2>5 DEF TypeOK, Load
<1>7. ASSUME NEW l \in Loader, NEW v \in VM, Close(l, v) PROVE TypeOK'
  BY SMTT(30), <1>7 DEF TypeOK, Close, LoadState
<1>8. ASSUME NEW c \in Caller, Calling(c) PROVE TypeOK'
  BY <1>8 DEF TypeOK, Calling, Enter, Refused, Return, Free
<1>9. ASSUME NEW c \in Caller, NEW p \in Plugin, Lookup(c, p) PROVE TypeOK'
  BY <1>9 DEF TypeOK, Lookup, Table
<1>10. ASSUME NEW S \in SUBSET Dir, DiskChanges(S) PROVE TypeOK'
  BY <1>10 DEF TypeOK, DiskChanges
<1>11. CASE UNCHANGED vars
  BY <1>11 DEF TypeOK, vars
<1>12. QED
  BY <1>1, <1>2, <1>3, <1>4, <1>5, <1>6, <1>7, <1>8, <1>9, <1>10, <1>11 DEF Next, Loading, LoadOne, HostStep

\* What the types say of the VMs somebody owns.
LEMMA Typed ==
  ASSUME TypeOK
  PROVE  /\ \A p \in Plugin : plugins[p] \in VM \cup {NoVM}
         /\ \A l \in Loader : /\ loader[l] \in LoadState
                             /\ \A p \in Plugin : loader[l].next[p] \in VM \cup {NoVM}
                             /\ loader[l].old \subseteq VM
BY DEF TypeOK, Table, LoadState

\* So has a reload only VMs to close.
LEMMA OldTyped ==
  ASSUME TypeOK
  PROVE  \A l \in Loader : \A v \in loader[l].old : v \in VM
BY DEF TypeOK, LoadState

\* A step that opens and closes no VM, and hands none over, leaves the owners
\* as they were.
LEMMA SameOwners ==
  ASSUME TypeOK, LoadedIsOpen, HeldIsOpen, Apart, NoVMLeaks,
         plugins' = plugins,
         \A v \in VM : vm'[v] = "closed" <=> vm[v] = "closed",
         \A k \in Loader : loader'[k].next = loader[k].next /\ loader'[k].old = loader[k].old
  PROVE  LoadedIsOpen' /\ HeldIsOpen' /\ Apart' /\ NoVMLeaks'
<1>1. LoadedIsOpen'
  BY Typed DEF LoadedIsOpen
<1>2. HeldIsOpen'
  <2>1. ASSUME NEW l \in Loader, NEW p \in Plugin, loader[l].next[p] # NoVM
        PROVE  /\ vm'[loader[l].next[p]] # "closed"
               /\ \A q \in Plugin : loader[l].next[q] = loader[l].next[p] => q = p
    BY <2>1, Typed DEF HeldIsOpen
  <2>2. ASSUME NEW l \in Loader, NEW v \in loader[l].old
        PROVE  vm'[v] # "closed"
    <3>1. v \in VM
      BY OldTyped
    <3>2. v \in VM /\ vm[v] # "closed"
      BY <2>2, <3>1 DEF HeldIsOpen
    <3>3. QED  BY <3>2
  <2>3. QED  BY <2>1, <2>2 DEF HeldIsOpen
<1>3. Apart'
  BY DEF Apart
<1>4. NoVMLeaks'
  BY DEF NoVMLeaks, In
<1>5. QED  BY <1>1, <1>2, <1>3, <1>4

\* The steps of a reload that own nothing new: reading, skipping, ending.
LEMMA IdleInv ==
  ASSUME IInv, NEW l \in Loader,
         ReadDirs(l) \/ ReadKeys(l) \/ Done(l) \/ \E d \in Dir : Skip(l, d)
  PROVE  LoaderOK' /\ LoadedIsOpen' /\ HeldIsOpen' /\ Apart' /\ CallOK' /\ NoVMLeaks'
<1>1. plugins' = plugins /\ vm' = vm /\ caller' = caller
  BY DEF ReadDirs, ReadKeys, Done, Skip
<1>2. /\ Rest.next = None /\ Rest.old = {} /\ Rest.at = "idle"
      /\ [Rest EXCEPT !.at = "keys", !.todo = disk].next = None
      /\ [Rest EXCEPT !.at = "keys", !.todo = disk].old = {}
      /\ [Rest EXCEPT !.at = "keys", !.todo = disk].at = "keys"
  BY DEF Rest
<1>3. loader[l] \in LoadState
  BY Typed DEF IInv
<1>4. /\ loader'[l].next = loader[l].next /\ loader'[l].old = loader[l].old
      /\ loader'[l].at # "load" => loader'[l].next = None
      /\ loader'[l].at # "close" => loader'[l].old = {}
  <2>1. CASE ReadDirs(l)
    BY <1>2, <2>1 DEF IInv, TypeOK, LoaderOK, ReadDirs
  <2>2. CASE ReadKeys(l)
    <3>1. loader[l].next = None /\ loader[l].old = {}
      BY <2>2 DEF IInv, LoaderOK, ReadKeys
    <3>2. CASE loader' = [loader EXCEPT ![l] = Rest]
      BY <1>2, <3>1, <3>2 DEF IInv, TypeOK
    <3>3. CASE loader' = [loader EXCEPT ![l].at = "load"]
      BY <1>3, <3>1, <3>3 DEF IInv, TypeOK, LoadState
    <3>4. QED  BY <2>2, <3>2, <3>3 DEF ReadKeys
  <2>3. CASE Done(l)
    BY <1>2, <2>3 DEF IInv, TypeOK, LoaderOK, Done
  <2>4. ASSUME NEW d \in Dir, Skip(l, d)
        PROVE  <1>4!:
    BY <1>3, <2>4 DEF IInv, TypeOK, LoaderOK, Skip, LoadState
  <2>5. QED  BY <2>1, <2>2, <2>3, <2>4
<1>5. \A k \in Loader \ {l} : loader'[k] = loader[k]
  BY DEF IInv, TypeOK, ReadDirs, ReadKeys, Done, Skip
<1>6. LoaderOK'
  BY <1>4, <1>5 DEF IInv, LoaderOK
<1>7. \A k \in Loader : loader'[k].next = loader[k].next /\ loader'[k].old = loader[k].old
  BY <1>4, <1>5
<1>8. CallOK'
  BY <1>1 DEF IInv, CallOK, CallsRunAlone
<1>9. QED  BY <1>1, <1>6, <1>7, <1>8, SameOwners DEF IInv

\* A new VM had no owner: it was closed.
LEMMA LoadInv ==
  ASSUME IInv, NEW l \in Loader, NEW d \in Dir, NEW v \in VM, Load(l, d, v)
  PROVE  LoaderOK' /\ LoadedIsOpen' /\ HeldIsOpen' /\ Apart' /\ CallOK' /\ NoVMLeaks'
<1> DEFINE i == IdOf[d]
<1>1. /\ i \in Plugin /\ v # NoVM /\ plugins' = plugins /\ caller' = caller
      /\ vm[v] = "closed" /\ vm' = [vm EXCEPT ![v] = "open"]
      /\ \A c \in Caller : caller[c].vm # v
      /\ loader[l].at = "load" /\ loader[l].next[i] = NoVM
  BY HostAssumption DEF Load, Unused
<1>2. /\ vm'[v] = "open"
      /\ \A w \in VM \ {v} : vm'[w] = vm[w]
  BY <1>1 DEF IInv, TypeOK
<1>3. \A k \in Loader \ {l} : loader'[k] = loader[k]
  BY DEF IInv, TypeOK, Load
<1>4. /\ loader'[l].at = "load" /\ loader'[l].old = loader[l].old
      /\ loader'[l].next = [loader[l].next EXCEPT ![i] = v]
  BY <1>1, Typed DEF IInv, TypeOK, Load, LoadState
<1>5. /\ loader'[l].next[i] = v
      /\ \A p \in Plugin \ {i} : loader'[l].next[p] = loader[l].next[p]
  <2>1. loader[l].next \in Table
    BY Typed DEF IInv, LoadState
  <2>2. QED  BY <1>1, <1>4, <2>1 DEF Table
<1>6. /\ \A p \in Plugin : plugins[p] # v
      /\ \A k \in Loader : /\ \A p \in Plugin : loader[k].next[p] # v
                          /\ v \notin loader[k].old
  BY <1>1 DEF IInv, LoadedIsOpen, HeldIsOpen
<1>7. LoaderOK'
  BY <1>3, <1>4, <1>1 DEF IInv, LoaderOK
<1>8. LoadedIsOpen'
  BY <1>1, <1>2, <1>6, Typed DEF IInv, LoadedIsOpen
<1>9. HeldIsOpen'
  <2>1. ASSUME NEW k \in Loader, NEW p \in Plugin, loader'[k].next[p] # NoVM
        PROVE  /\ vm'[loader'[k].next[p]] # "closed"
               /\ \A q \in Plugin : loader'[k].next[q] = loader'[k].next[p] => q = p
    <3>1. CASE k # l
      BY <1>2, <1>3, <1>6, <2>1, <3>1, Typed DEF IInv, HeldIsOpen
    <3>2. CASE k = l /\ p = i
      BY <1>1, <1>2, <1>5, <1>6, <3>2
    <3>3. CASE k = l /\ p # i
      BY <1>1, <1>2, <1>5, <1>6, <2>1, <3>3, Typed DEF IInv, HeldIsOpen
    <3>4. QED  BY <3>1, <3>2, <3>3
  <2>2. ASSUME NEW k \in Loader, NEW w \in loader'[k].old
        PROVE  vm'[w] # "closed"
    <3>1. w \in loader[k].old
      BY <1>3, <1>4, <2>2
    <3>2. w \in VM /\ w # v /\ vm[w] # "closed"
      BY <1>6, <3>1, OldTyped DEF IInv, HeldIsOpen
    <3>3. QED  BY <1>2, <3>2
  <2>3. QED  BY <2>1, <2>2 DEF HeldIsOpen
<1>10. Apart'
  <2>1. \A k \in Loader : loader'[k].old = loader[k].old
    BY <1>3, <1>4
  <2>2. \A k \in Loader, p \in Plugin : loader'[k].next[p] \in {loader[k].next[p], v}
    BY <1>3, <1>5
  <2>3. \A k \in Loader \ {l}, p \in Plugin : loader'[k].next[p] = loader[k].next[p]
    BY <1>3
  <2>4. ASSUME NEW k \in Loader
        PROVE  /\ \A p, q \in Plugin : loader'[k].next[p] # NoVM => plugins[q] # loader'[k].next[p]
               /\ \A q \in Plugin : plugins[q] \notin loader'[k].old
               /\ \A m \in Loader, p \in Plugin : loader'[k].next[p] \notin loader'[m].old
    BY <1>6, <2>1, <2>2 DEF IInv, Apart
  <2>5. ASSUME NEW k \in Loader, NEW m \in Loader \ {k}, NEW p \in Plugin, NEW q \in Plugin,
               loader'[k].next[p] # NoVM
        PROVE  loader'[m].next[q] # loader'[k].next[p]
    BY <1>6, <2>2, <2>3, <2>5 DEF IInv, Apart
  <2>6. \A k \in Loader : \A m \in Loader \ {k} : loader'[k].old \cap loader'[m].old = {}
    BY <2>1 DEF IInv, Apart
  <2>7. QED  BY <1>1, <2>4, <2>5, <2>6 DEF Apart
<1>11. CallOK'
  BY <1>1, <1>2 DEF IInv, CallOK, CallsRunAlone
<1>12. NoVMLeaks'
  <2>1. ASSUME NEW w \in VM, vm'[w] # "closed"
        PROVE  \/ w \in In(plugins)
               \/ \E k \in Loader : w \in In(loader'[k].next) \/ w \in loader'[k].old
    <3>1. CASE w = v
      BY <1>1, <1>5, <3>1 DEF In
    <3>2. CASE w # v
      <4>1. vm[w] # "closed"
        BY <1>2, <2>1, <3>2
      <4>2. ASSUME NEW k \in Loader, NEW p \in Plugin, loader[k].next[p] = w, w # NoVM
            PROVE  loader'[k].next[p] = w
        BY <1>1, <1>3, <1>5, <4>2
      <4>3. \A k \in Loader : loader'[k].old = loader[k].old
        BY <1>3, <1>4
      <4>4. QED  BY <4>1, <4>2, <4>3 DEF IInv, NoVMLeaks, In
    <3>3. QED  BY <3>1, <3>2
  <2>2. QED  BY <1>1, <2>1 DEF NoVMLeaks
<1>13. QED  BY <1>7, <1>8, <1>9, <1>10, <1>11, <1>12

\* The reload's table becomes the host's, the host's its list to close.
LEMMA SwapInv ==
  ASSUME IInv, NEW l \in Loader, Swap(l)
  PROVE  LoaderOK' /\ LoadedIsOpen' /\ HeldIsOpen' /\ Apart' /\ CallOK' /\ NoVMLeaks'
<1>1. /\ loader[l].at = "load" /\ loader[l].old = {}
      /\ plugins' = loader[l].next /\ vm' = vm /\ caller' = caller
  BY DEF IInv, LoaderOK, Swap
<1>2. \A k \in Loader \ {l} : loader'[k] = loader[k]
  BY DEF IInv, TypeOK, Swap
<1>3. /\ loader'[l].at = "close" /\ loader'[l].next = None
      /\ loader'[l].old = In(plugins)
  <2>1. loader'[l] = [Rest EXCEPT !.at = "close", !.old = In(plugins)]
    BY DEF IInv, TypeOK, Swap
  <2>2. QED  BY <2>1 DEF Rest
<1>4. \A p \in Plugin : loader'[l].next[p] = NoVM
  BY <1>3 DEF None
<1>5. \A v : v \in In(plugins) <=> v # NoVM /\ \E p \in Plugin : plugins[p] = v
  BY DEF In
<1>6. LoaderOK'
  BY <1>2, <1>3 DEF IInv, LoaderOK
<1>7. LoadedIsOpen'
  BY <1>1 DEF IInv, HeldIsOpen, LoadedIsOpen
<1>8. HeldIsOpen'
  <2>1. ASSUME NEW k \in Loader, k # l
        PROVE  /\ \A p \in Plugin : loader'[k].next[p] # NoVM =>
                    /\ vm'[loader'[k].next[p]] # "closed"
                    /\ \A q \in Plugin : loader'[k].next[q] = loader'[k].next[p] => q = p
               /\ \A v \in loader'[k].old : vm'[v] # "closed"
    BY <1>1, <1>2, <2>1 DEF IInv, HeldIsOpen
  <2>2. \A v \in loader'[l].old : vm'[v] # "closed"
    BY <1>1, <1>3, <1>5 DEF IInv, LoadedIsOpen
  <2>3. QED  BY <1>4, <2>1, <2>2 DEF HeldIsOpen
<1>9. Apart'
  <2>1. ASSUME NEW k \in Loader, NEW p \in Plugin, NEW q \in Plugin, loader'[k].next[p] # NoVM
        PROVE  plugins'[q] # loader'[k].next[p]
    <3>1. k # l /\ loader'[k].next[p] = loader[k].next[p]
      BY <1>2, <1>4, <2>1
    <3>2. QED  BY <1>1, <2>1, <3>1 DEF IInv, Apart
  <2>2. ASSUME NEW k \in Loader, NEW q \in Plugin
        PROVE  plugins'[q] \notin loader'[k].old
    <3>1. CASE k # l
      BY <1>1, <1>2, <3>1 DEF IInv, Apart
    <3>2. CASE k = l
      BY <1>1, <1>3, <1>5, <3>2 DEF IInv, Apart
    <3>3. QED  BY <3>1, <3>2
  <2>3. ASSUME NEW k \in Loader, NEW m \in Loader, NEW p \in Plugin
        PROVE  loader'[k].next[p] \notin loader'[m].old
    <3>1. CASE loader'[k].next[p] = NoVM
      BY <1>2, <1>3, <1>5, <3>1, OldTyped, HostAssumption DEF IInv
    <3>2. CASE loader'[k].next[p] # NoVM
      <4>1. k # l /\ loader'[k].next[p] = loader[k].next[p]
        BY <1>2, <1>4, <3>2
      <4>2. CASE m # l
        BY <1>2, <4>1, <4>2 DEF IInv, Apart
      <4>3. CASE m = l
        BY <1>3, <1>5, <3>2, <4>1, <4>3 DEF IInv, Apart
      <4>4. QED  BY <4>2, <4>3
    <3>3. QED  BY <3>1, <3>2
  <2>4. ASSUME NEW k \in Loader, NEW m \in Loader \ {k}, NEW p \in Plugin, NEW q \in Plugin,
               loader'[k].next[p] # NoVM
        PROVE  loader'[m].next[q] # loader'[k].next[p]
    <3>1. k # l /\ loader'[k].next[p] = loader[k].next[p]
      BY <1>2, <1>4, <2>4
    <3>2. CASE m = l
      BY <1>4, <2>4, <3>2
    <3>3. CASE m # l
      BY <1>2, <2>4, <3>1, <3>3 DEF IInv, Apart
    <3>4. QED  BY <3>2, <3>3
  <2>5. ASSUME NEW k \in Loader, NEW m \in Loader \ {k}
        PROVE  loader'[k].old \cap loader'[m].old = {}
    <3>1. \A j \in Loader \ {l} : In(plugins) \cap loader[j].old = {}
      BY <1>5 DEF IInv, Apart
    <3>2. CASE k # l /\ m # l
      BY <1>2, <3>2 DEF IInv, Apart
    <3>3. CASE k = l \/ m = l
      BY <1>2, <1>3, <3>1, <3>3
    <3>4. QED  BY <3>2, <3>3
  <2>6. QED  BY <2>1, <2>2, <2>3, <2>4, <2>5 DEF Apart
<1>10. CallOK'
  BY <1>1 DEF IInv, CallOK, CallsRunAlone
<1>11. NoVMLeaks'
  <2>1. ASSUME NEW w \in VM, vm[w] # "closed"
        PROVE  \/ w \in In(plugins')
               \/ \E k \in Loader : w \in In(loader'[k].next) \/ w \in loader'[k].old
    <3>1. CASE w \in In(plugins)
      BY <1>3, <3>1
    <3>2. ASSUME NEW k \in Loader, w \in In(loader[k].next) \/ w \in loader[k].old
          PROVE  w \in In(plugins') \/ w \in In(loader'[k].next) \/ w \in loader'[k].old
      BY <1>1, <1>2, <3>2
    <3>3. QED  BY <2>1, <3>1, <3>2 DEF IInv, NoVMLeaks
  <2>2. In(plugins)' = In(plugins')
    BY DEF In
  <2>3. QED  BY <1>1, <2>1 DEF NoVMLeaks, In
<1>12. QED  BY <1>6, <1>7, <1>8, <1>9, <1>10, <1>11

\* A closed VM had one owner, the list it leaves, and no call in it.
LEMMA CloseInv ==
  ASSUME IInv, NEW l \in Loader, NEW v \in VM, Close(l, v)
  PROVE  LoaderOK' /\ LoadedIsOpen' /\ HeldIsOpen' /\ Apart' /\ CallOK' /\ NoVMLeaks'
<1>1. /\ loader[l].at = "close" /\ v \in loader[l].old /\ vm[v] # "busy"
      /\ plugins' = plugins /\ caller' = caller
  BY DEF Close
<1>2. vm'[v] = "closed" /\ \A w \in VM \ {v} : vm'[w] = vm[w]
  BY DEF IInv, TypeOK, Close
<1>3. \A k \in Loader \ {l} : loader'[k] = loader[k]
  BY DEF IInv, TypeOK, Close
<1>4. /\ loader'[l].at = "close" /\ loader'[l].next = loader[l].next
      /\ loader'[l].old = loader[l].old \ {v}
  BY <1>1, Typed DEF IInv, TypeOK, Close, LoadState
<1>5. /\ \A p \in Plugin : plugins[p] # v
      /\ \A k \in Loader, p \in Plugin : loader[k].next[p] # v
      /\ \A k \in Loader \ {l} : v \notin loader[k].old
  BY <1>1 DEF IInv, Apart
<1>6. \A k \in Loader : /\ loader'[k].next = loader[k].next
                       /\ \A w : w \in loader'[k].old <=> w \in loader[k].old /\ w # v
  BY <1>3, <1>4, <1>5
<1>7. LoaderOK'
  BY <1>1, <1>3, <1>4 DEF IInv, LoaderOK
<1>8. LoadedIsOpen'
  BY <1>1, <1>2, <1>5, Typed DEF IInv, LoadedIsOpen
<1>9. HeldIsOpen'
  <2>1. ASSUME NEW k \in Loader, NEW p \in Plugin, loader[k].next[p] # NoVM
        PROVE  /\ vm'[loader[k].next[p]] # "closed"
               /\ \A q \in Plugin : loader[k].next[q] = loader[k].next[p] => q = p
    BY <1>2, <1>5, <2>1, Typed DEF IInv, HeldIsOpen
  <2>2. ASSUME NEW k \in Loader, NEW w \in loader'[k].old
        PROVE  vm'[w] # "closed"
    <3>1. w \in VM /\ w # v /\ vm[w] # "closed"
      BY <1>6, <2>2, OldTyped DEF IInv, HeldIsOpen
    <3>2. QED  BY <1>2, <3>1
  <2>3. QED  BY <1>6, <2>1, <2>2 DEF HeldIsOpen
<1>10. Apart'
  BY <1>1, <1>6 DEF IInv, Apart
<1>11. CallOK'
  BY <1>1, <1>2 DEF IInv, CallOK, CallsRunAlone
<1>12. NoVMLeaks'
  <2>1. ASSUME NEW w \in VM, vm'[w] # "closed"
        PROVE  \/ w \in In(plugins)
               \/ \E k \in Loader : w \in In(loader[k].next) \/ w \in loader'[k].old
    <3>1. w # v /\ vm[w] # "closed"
      BY <1>2, <2>1
    <3>2. QED  BY <1>6, <3>1 DEF IInv, NoVMLeaks
  <2>2. QED  BY <1>1, <1>6, <2>1 DEF NoVMLeaks, In
<1>13. QED  BY <1>7, <1>8, <1>9, <1>10, <1>11, <1>12

\* A call opens and closes no VM, and takes only one that no call is in.
LEMMA CallInv ==
  ASSUME IInv, NEW c \in Caller, Calling(c) \/ \E p \in Plugin : Lookup(c, p)
  PROVE  LoaderOK' /\ LoadedIsOpen' /\ HeldIsOpen' /\ Apart' /\ CallOK' /\ NoVMLeaks'
<1>1. plugins' = plugins /\ loader' = loader
  BY DEF Calling, Enter, Refused, Return, Lookup
<1>2. \A d \in Caller \ {c} : caller'[d] = caller[d]
  BY DEF IInv, TypeOK, Calling, Enter, Refused, Return, Lookup
<1>3. /\ \A v \in VM : vm'[v] = "closed" <=> vm[v] = "closed"
      /\ CallOK'
  <2>1. CASE Enter(c)
    <3>1. /\ caller[c].vm \in VM /\ vm[caller[c].vm] = "open"
          /\ caller'[c].vm = caller[c].vm /\ caller'[c].at = "in"
      BY <2>1 DEF IInv, TypeOK, CallOK, Enter
    <3>2. /\ vm'[caller[c].vm] = "busy"
          /\ \A v \in VM \ {caller[c].vm} : vm'[v] = vm[v]
      BY <2>1, <3>1 DEF IInv, TypeOK, Enter
    <3>3. QED  BY <1>2, <3>1, <3>2 DEF IInv, CallOK, CallsRunAlone
  <2>2. CASE Refused(c)
    <3>1. caller'[c].at = "idle" /\ vm' = vm
      BY <2>2 DEF IInv, TypeOK, Refused, Free
    <3>2. QED  BY <1>2, <3>1 DEF IInv, CallOK, CallsRunAlone
  <2>3. CASE Return(c)
    <3>1. caller[c].at = "in" /\ caller[c].vm \in VM /\ vm[caller[c].vm] = "busy"
      BY <2>3 DEF IInv, CallOK, CallsRunAlone, Return
    <3>2. caller'[c].at = "idle"
      BY <2>3 DEF IInv, TypeOK, Return, Free
    <3>3. /\ vm'[caller[c].vm] = "open"
          /\ \A v \in VM \ {caller[c].vm} : vm'[v] = vm[v]
      BY <2>3, <3>1 DEF IInv, TypeOK, Return
    <3>4. QED  BY <1>2, <3>1, <3>2, <3>3 DEF IInv, CallOK, CallsRunAlone
  <2>4. ASSUME NEW p \in Plugin, Lookup(c, p)
        PROVE  <1>3!:
    <3>1. caller'[c].at = "found" /\ caller'[c].vm = plugins[p] /\ vm' = vm
      BY <2>4 DEF IInv, TypeOK, Lookup
    <3>2. plugins[p] \in VM
      BY <2>4, Typed DEF IInv, Lookup
    <3>3. QED  BY <1>2, <3>1, <3>2 DEF IInv, CallOK, CallsRunAlone
  <2>5. QED  BY <2>1, <2>2, <2>3, <2>4 DEF Calling
<1>4. LoaderOK'
  BY <1>1 DEF IInv, LoaderOK
<1>5. QED  BY <1>1, <1>3, <1>4, SameOwners DEF IInv

-----------------------------------------------------------------------------
(* The theorems.                                                           *)

\* The invariant holds of a host that loaded nothing.
LEMMA InitInv == Init => IInv
<1> SUFFICES ASSUME Init PROVE IInv
  OBVIOUS
<1>1. /\ \A p \in Plugin : plugins[p] = NoVM
      /\ \A v \in VM : vm[v] = "closed"
      /\ \A l \in Loader : loader[l] = Rest
      /\ \A c \in Caller : caller[c] = Free
  BY DEF Init, None
<1>2. /\ None \in Table /\ Rest \in LoadState
      /\ Rest.next = None /\ Rest.old = {}
      /\ \A p \in Plugin : Rest.next[p] = NoVM
  BY DEF None, Table, Rest, LoadState
<1>3. TypeOK
  BY <1>2 DEF Init, TypeOK, Free
<1>4. LoaderOK /\ LoadedIsOpen /\ HeldIsOpen /\ Apart /\ NoVMLeaks
  BY <1>1, <1>2 DEF LoaderOK, LoadedIsOpen, HeldIsOpen, Apart, NoVMLeaks
<1>5. CallOK
  BY <1>1 DEF CallOK, CallsRunAlone, Free
<1>6. QED  BY <1>3, <1>4, <1>5 DEF IInv

\* Every step keeps the invariant.
LEMMA NextInv == IInv /\ [Next]_vars => IInv'
<1> SUFFICES ASSUME IInv, [Next]_vars PROVE IInv'
  OBVIOUS
<1>1. TypeOK'
  BY NextType DEF IInv
<1>2. LoaderOK' /\ LoadedIsOpen' /\ HeldIsOpen' /\ Apart' /\ CallOK' /\ NoVMLeaks'
  <2>1. ASSUME NEW l \in Loader, ReadDirs(l) \/ Loading(l)
        PROVE  <1>2!:
    BY <2>1, IdleInv, LoadInv, SwapInv, CloseInv DEF Loading, LoadOne, HostStep
  <2>2. ASSUME NEW c \in Caller, Calling(c) \/ \E p \in Plugin : Lookup(c, p)
        PROVE  <1>2!:
    BY <2>2, CallInv
  <2>3. CASE UNCHANGED vars \/ \E S \in SUBSET Dir : DiskChanges(S)
    <3>1. UNCHANGED <<plugins, vm, loader, caller>>
      BY <2>3 DEF vars, DiskChanges
    <3>2. QED
      BY <3>1, SameOwners DEF IInv, LoaderOK, CallOK, CallsRunAlone
  <2>4. QED  BY <2>1, <2>2, <2>3 DEF Next
<1>3. QED  BY <1>1, <1>2 DEF IInv

\* So it always holds.
LEMMA Invariance == Spec => []IInv
BY InitInv, NextInv, PTL DEF Spec

\* The host, its reloads and its calls keep their types.
THEOREM TypeCorrect == Spec => []TypeOK
<1>1. IInv => TypeOK
  BY DEF IInv
<1>2. QED  BY <1>1, Invariance, PTL

\* A plugin that can be looked up is never closed, however many reloads overlap.
THEOREM LoadedStaysOpen == Spec => []LoadedIsOpen
<1>1. IInv => LoadedIsOpen
  BY DEF IInv
<1>2. QED  BY <1>1, Invariance, PTL

\* No reload loses a VM it has to close.
THEOREM EveryVMIsOwned == Spec => []NoVMLeaks
<1>1. IInv => NoVMLeaks
  BY DEF IInv
<1>2. QED  BY <1>1, Invariance, PTL

\* Calls into one plugin exclude each other and its closing.
THEOREM CallsExclude == Spec => []CallsRunAlone
<1>1. IInv => CallsRunAlone
  BY DEF IInv, CallOK
<1>2. QED  BY <1>1, Invariance, PTL

\* However loads, reloads and calls overlap, the table of the host, its VMs and
\* the calls in them agree: the three invariants together.
THEOREM HostSound == Spec => []VMsSound
<1>1. LoadedIsOpen /\ NoVMLeaks /\ CallsRunAlone => VMsSound
  BY DEF VMsSound
<1> QED
  BY <1>1, LoadedStaysOpen, EveryVMIsOwned, CallsExclude, PTL

-----------------------------------------------------------------------------
(* The promise (PluginTable): what the loads hold between their steps are  *)
(* the VMs made for a later table and those of earlier ones.               *)

Made == UNION {In(loader[l].next) : l \in Loader}
Retired == UNION {loader[l].old : l \in Loader}
Held == [c \in Caller |-> caller[c].vm]
Inside == {c \in Caller : caller[c].at = "in"}

\* A call never holds a VM that was not in the host's table yet.
HeldServed ==
    \A c \in Caller :
        /\ caller[c].at = "idle" <=> caller[c].vm = NoVM
        /\ caller[c].vm \notin Made

LEMMA MadeIs ==
  /\ \A v : v \in Made <=> v # NoVM /\ \E l \in Loader, p \in Plugin : loader[l].next[p] = v
  /\ \A v : v \in Retired <=> \E l \in Loader : v \in loader[l].old
  /\ \A v : v \in In(plugins) <=> v # NoVM /\ \E p \in Plugin : plugins[p] = v
BY DEF Made, Retired, In

\* Every VM is closed or in one of the three, and those are apart.
LEMMA OwnersAre ==
  ASSUME IInv
  PROVE  /\ \A v \in VM : vm[v] # "closed" <=> v \in In(plugins) \cup Made \cup Retired
         /\ In(plugins) \cap Made = {} /\ In(plugins) \cap Retired = {} /\ Made \cap Retired = {}
         /\ In(plugins) \cup Made \cup Retired \subseteq VM
<1> USE DEF IInv
<1>1. In(plugins) \cup Made \cup Retired \subseteq VM
  <2>1. \A v \in In(plugins) : v \in VM
    BY Typed, MadeIs
  <2>2. \A v \in Made : v \in VM
    BY Typed, MadeIs
  <2>3. \A v \in Retired : v \in VM
    BY OldTyped, MadeIs
  <2>4. QED  BY <2>1, <2>2, <2>3
<1>2. \A v \in VM : vm[v] # "closed" => v \in In(plugins) \cup Made \cup Retired
  BY DEF NoVMLeaks, Made, Retired
<1>3. \A v \in In(plugins) : vm[v] # "closed"
  BY MadeIs DEF LoadedIsOpen
<1>4. \A v \in Made : vm[v] # "closed"
  BY MadeIs DEF HeldIsOpen
<1>5. \A v \in Retired : vm[v] # "closed"
  BY MadeIs DEF HeldIsOpen
<1>6. In(plugins) \cap Made = {}
  BY MadeIs DEF Apart
<1>7. In(plugins) \cap Retired = {}
  BY MadeIs DEF Apart
<1>8. Made \cap Retired = {}
  BY MadeIs DEF Apart
<1>9. QED  BY <1>1, <1>2, <1>3, <1>4, <1>5, <1>6, <1>7, <1>8

\* A step of a load that makes, swaps and closes nothing is none of the promise.
LEMMA LoadersStay ==
  ASSUME \A k \in Loader : loader'[k].next = loader[k].next /\ loader'[k].old = loader[k].old
  PROVE  Made' = Made /\ Retired' = Retired
<1>1. \A v : v \in Made' <=> v # NoVM /\ \E l \in Loader, p \in Plugin : loader'[l].next[p] = v
  BY DEF Made, In
<1>2. \A v : v \in Retired' <=> \E l \in Loader : v \in loader'[l].old
  BY DEF Retired
<1>3. QED  BY <1>1, <1>2, MadeIs

LEMMA QuietPromise ==
  ASSUME IInv, NEW l \in Loader,
         \/ ReadDirs(l) \/ ReadKeys(l) \/ Done(l)
         \/ \E d \in Dir : Skip(l, d)
  PROVE  /\ Made' = Made /\ Retired' = Retired
         /\ UNCHANGED <<plugins, caller>>
<1>1. /\ loader \in [Loader -> LoadState] /\ None \in Table /\ Rest \in LoadState
      /\ Rest.next = None /\ Rest.old = {}
  BY DEF IInv, TypeOK, None, Table, Rest, LoadState
<1>2. \A k \in Loader \ {l} : loader'[k] = loader[k]
  BY <1>1 DEF ReadDirs, ReadKeys, Done, Skip
<1>3. loader'[l].next = loader[l].next /\ loader'[l].old = loader[l].old
  <2>1. CASE ReadDirs(l)
    <3>1. loader'[l] = [Rest EXCEPT !.at = "keys", !.todo = disk]
      BY <1>1, <2>1 DEF ReadDirs
    <3>2. loader'[l].next = None /\ loader'[l].old = {}
      BY <1>1, <3>1 DEF LoadState
    <3>3. QED  BY <2>1, <3>2 DEF ReadDirs, IInv, LoaderOK
  <2>2. CASE ReadKeys(l)
    <3>1. loader'[l] = [loader[l] EXCEPT !.at = "load"] \/ loader'[l] = Rest
      BY <1>1, <2>2 DEF ReadKeys
    <3>2. loader[l].next = None /\ loader[l].old = {}
      BY <2>2 DEF ReadKeys, IInv, LoaderOK
    <3>3. QED  BY <1>1, <3>1, <3>2 DEF LoadState
  <2>3. CASE Done(l)
    BY <1>1, <2>3 DEF Done, IInv, LoaderOK
  <2>4. CASE \E d \in Dir : Skip(l, d)
    <3>1. PICK d \in Dir : Skip(l, d)
      BY <2>4
    <3>2. loader'[l] = [loader[l] EXCEPT !.todo = @ \ {d}]
      BY <1>1, <3>1 DEF Skip
    <3>3. QED  BY <1>1, <3>2 DEF LoadState
  <2>5. QED  BY <2>1, <2>2, <2>3, <2>4
<1>4. \A k \in Loader : loader'[k].next = loader[k].next /\ loader'[k].old = loader[k].old
  BY <1>2, <1>3
<1>5. Made' = Made /\ Retired' = Retired
  BY <1>4, LoadersStay
<1>6. QED  BY <1>5 DEF ReadDirs, ReadKeys, Done, Skip

\* A load makes a VM that nobody has and nobody looks at.
LEMMA LoadMakes ==
  ASSUME IInv, NEW l \in Loader, NEW d \in Dir, NEW v \in VM, Load(l, d, v)
  PROVE  /\ Made' = Made \cup {v} /\ Retired' = Retired /\ UNCHANGED <<plugins, caller>>
         /\ v \notin In(plugins) \cup Made \cup Retired
         /\ \A c \in Caller : caller[c].vm # v
<1>1. /\ loader \in [Loader -> LoadState] /\ v \in Unused /\ loader[l].next \in Table
      /\ IdOf[d] \in Plugin /\ loader[l].next[IdOf[d]] = NoVM /\ v # NoVM
  BY HostAssumption DEF IInv, TypeOK, LoadState, Load
<1>2. /\ loader'[l] = [loader[l] EXCEPT !.todo = loader[l].todo \ {d}, !.next[IdOf[d]] = v]
      /\ \A k \in Loader \ {l} : loader'[k] = loader[k]
  BY <1>1 DEF Load
<1>3. loader'[l].old = loader[l].old /\ loader'[l].next = [loader[l].next EXCEPT ![IdOf[d]] = v]
  BY <1>1, <1>2 DEF LoadState
<1>4. /\ loader'[l].next[IdOf[d]] = v
      /\ \A p \in Plugin \ {IdOf[d]} : loader'[l].next[p] = loader[l].next[p]
  BY <1>1, <1>3 DEF Table
<1>5. \A w : w \in Made' <=> w # NoVM /\ \E k \in Loader, p \in Plugin : loader'[k].next[p] = w
  BY DEF Made, In
<1>6. ASSUME NEW w  PROVE w \in Made' <=> w \in Made \cup {v}
  <2>1. ASSUME w \in Made'  PROVE w \in Made \cup {v}
    <3>1. PICK k \in Loader, p \in Plugin : loader'[k].next[p] = w /\ w # NoVM
      BY <1>5, <2>1
    <3>2. QED  BY <1>2, <1>4, <3>1, MadeIs
  <2>2. ASSUME w \in Made  PROVE w \in Made'
    <3>1. PICK k \in Loader, p \in Plugin : loader[k].next[p] = w /\ w # NoVM
      BY <2>2, MadeIs
    <3>2. loader'[k].next[p] = w
      BY <1>1, <1>2, <1>4, <3>1
    <3>3. QED  BY <1>5, <3>1, <3>2
  <2>3. v \in Made'
    BY <1>1, <1>4, <1>5
  <2>4. QED  BY <2>1, <2>2, <2>3
<1>7. \A k \in Loader : loader'[k].old = loader[k].old
  BY <1>2, <1>3
<1>8. Retired' = Retired
  BY <1>7 DEF Retired
<1>9. v \notin In(plugins) \cup Made \cup Retired /\ \A c \in Caller : caller[c].vm # v
  BY <1>1, OwnersAre DEF Unused
<1>10. Made' = Made \cup {v}
  BY <1>6
<1>11. QED  BY <1>8, <1>9, <1>10 DEF Load

LEMMA MakePromise ==
  ASSUME IInv, NEW l \in Loader, NEW d \in Dir, NEW v \in VM, Load(l, d, v)
  PROVE  Promise!Make(v)
<1>1. Held' = Held /\ Inside' = Inside /\ \A c \in Caller : Held[c] # v
  BY LoadMakes DEF Held, Inside
<1>2. QED
  BY <1>1, LoadMakes DEF Promise!Make, Promise!Open, Promise!VMsOf, In, Made, Retired, Held, Inside

LEMMA SwapPromise ==
  ASSUME IInv, NEW l \in Loader, Swap(l)
  PROVE  \E new \in [Plugin -> VM \cup {NoVM}] : Promise!Replace(new)
<1>1. /\ loader \in [Loader -> LoadState] /\ None \in Table /\ Rest \in LoadState
      /\ Rest.next = None /\ loader[l].next \in Table /\ loader[l].old = {}
      /\ \A p \in Plugin : None[p] = NoVM
  BY DEF IInv, TypeOK, LoaderOK, None, Table, Rest, LoadState, Swap
<1>2. /\ loader'[l] = [Rest EXCEPT !.at = "close", !.old = In(plugins)]
      /\ \A k \in Loader \ {l} : loader'[k] = loader[k]
  BY <1>1 DEF Swap
<1>3. loader'[l].next = None /\ loader'[l].old = In(plugins)
  BY <1>1, <1>2 DEF LoadState
<1>4. PICK new \in Table : new = loader[l].next
  BY <1>1
<1>5. In(new) \subseteq Made
  BY <1>4 DEF Made
<1>6. \A p, q \in Plugin : new[p] = new[q] /\ new[p] # NoVM => p = q
  BY <1>4 DEF IInv, HeldIsOpen
<1>7. Made' = Made \ In(new)
  <2>1. \A w : w \in Made' <=> w # NoVM /\ \E k \in Loader, p \in Plugin : loader'[k].next[p] = w
    BY DEF Made, In
  <2>2. \A w : w \in In(new) <=> w # NoVM /\ \E p \in Plugin : loader[l].next[p] = w
    BY <1>4 DEF In
  <2>3. ASSUME NEW k \in Loader \ {l}, NEW p \in Plugin, loader[k].next[p] # NoVM
        PROVE  loader[k].next[p] \notin In(new)
    BY <2>2, <2>3 DEF IInv, Apart
  <2>4. \A w : w \in Made' <=> w # NoVM /\ \E k \in Loader \ {l}, p \in Plugin : loader[k].next[p] = w
    <3>1. \A k \in Loader \ {l} : loader'[k].next = loader[k].next
      BY <1>2
    <3>2. \A p \in Plugin : loader'[l].next[p] = NoVM
      BY <1>1, <1>3
    <3>3. ASSUME NEW w, w \in Made'
          PROVE  w # NoVM /\ \E k \in Loader \ {l}, p \in Plugin : loader[k].next[p] = w
      <4>1. PICK k \in Loader, p \in Plugin : loader'[k].next[p] = w /\ w # NoVM
        BY <2>1, <3>3
      <4>2. k # l
        BY <4>1, <3>2
      <4>3. QED  BY <3>1, <4>1, <4>2
    <3>4. ASSUME NEW w, w # NoVM, NEW k \in Loader \ {l}, NEW p \in Plugin, loader[k].next[p] = w
          PROVE  w \in Made'
      BY <2>1, <3>1, <3>4
    <3>5. QED  BY <3>3, <3>4
  <2>5. \A w : w \in Made' <=> w \in Made \ In(new)
    BY <2>2, <2>3, <2>4, MadeIs
  <2>6. QED  BY <2>5
<1>8. Retired' = Retired \cup In(plugins)
  <2>1. \A w : w \in Retired' <=> \E k \in Loader : w \in loader'[k].old
    BY DEF Retired
  <2>2. \A w : w \in Retired' <=> w \in Retired \cup In(plugins)
    <3>1. \A k \in Loader \ {l} : loader'[k].old = loader[k].old
      BY <1>2
    <3>2. ASSUME NEW w, w \in Retired'  PROVE w \in Retired \cup In(plugins)
      <4>1. PICK k \in Loader : w \in loader'[k].old
        BY <2>1, <3>2
      <4>2. QED  BY <1>3, <3>1, <4>1, MadeIs
    <3>3. ASSUME NEW w \in Retired  PROVE w \in Retired'
      <4>1. PICK k \in Loader : w \in loader[k].old
        BY MadeIs
      <4>2. k # l
        BY <1>1, <4>1
      <4>3. QED  BY <2>1, <3>1, <4>1, <4>2
    <3>4. \A w \in In(plugins) : w \in Retired'
      BY <1>3, <2>1
    <3>5. QED  BY <3>2, <3>3, <3>4
  <2>3. QED  BY <2>2
<1>9. plugins' = new /\ caller' = caller
  BY <1>4 DEF Swap
<1>10. Promise!Replace(new)
  BY <1>5, <1>6, <1>7, <1>8, <1>9
     DEF Promise!Replace, Promise!VMsOf, In, Made, Retired, Held, Inside
<1>11. QED  BY <1>10 DEF Table

LEMMA ClosePromise ==
  ASSUME IInv, NEW l \in Loader, NEW v \in VM, Close(l, v)
  PROVE  Promise!Reuse(v)
<1>1. loader \in [Loader -> LoadState] /\ v \in loader[l].old /\ vm[v] # "busy"
  BY DEF IInv, TypeOK, Close
<1>2. /\ loader'[l] = [loader[l] EXCEPT !.old = @ \ {v}]
      /\ \A k \in Loader \ {l} : loader'[k] = loader[k]
  BY <1>1 DEF Close
<1>3. loader'[l].next = loader[l].next /\ loader'[l].old = loader[l].old \ {v}
  BY <1>1, <1>2 DEF LoadState
<1>4. Made' = Made
  <2>1. \A k \in Loader : loader'[k].next = loader[k].next
    BY <1>2, <1>3
  <2>2. QED  BY <2>1 DEF Made, In
<1>5. \A k \in Loader \ {l} : v \notin loader[k].old
  BY <1>1 DEF IInv, Apart
<1>6. Retired' = Retired \ {v} /\ v \in Retired
  <2>1. \A w : w \in Retired' <=> \E k \in Loader : w \in loader'[k].old
    BY DEF Retired
  <2>2. \A w : w \in Retired' <=> w \in Retired \ {v}
    <3>1. \A k \in Loader \ {l} : loader'[k].old = loader[k].old
      BY <1>2
    <3>2. ASSUME NEW w, w \in Retired'  PROVE w \in Retired \ {v}
      <4>1. PICK k \in Loader : w \in loader'[k].old
        BY <2>1, <3>2
      <4>2. w \in loader[k].old /\ w # v
        BY <1>3, <1>5, <3>1, <4>1
      <4>3. QED  BY <4>2, MadeIs
    <3>3. ASSUME NEW w \in Retired \ {v}  PROVE w \in Retired'
      <4>1. PICK k \in Loader : w \in loader[k].old
        BY MadeIs
      <4>2. w \in loader'[k].old
        BY <1>3, <3>1, <4>1
      <4>3. QED  BY <2>1, <4>2
    <3>4. QED  BY <3>2, <3>3
  <2>3. v \in Retired
    BY <1>1, MadeIs
  <2>4. QED  BY <2>2, <2>3
<1>7. \A c \in Inside : Held[c] # v
  BY <1>1 DEF Inside, Held, IInv, CallOK, CallsRunAlone
<1>8. QED
  BY <1>4, <1>6, <1>7 DEF Close, Promise!Reuse, Made, Retired, Held, Inside

\* The steps of a call are those of the promise.
LEMMA CallPromise ==
  ASSUME IInv, HeldServed, NEW c \in Caller, Calling(c) \/ \E p \in Plugin : Lookup(c, p)
  PROVE  Promise!Next
<1>1. Made' = Made /\ Retired' = Retired /\ plugins' = plugins
  BY DEF Calling, Enter, Refused, Return, Lookup, Made, Retired
<1>2. /\ caller \in [Caller -> [at : {"idle", "found", "in"}, vm : VM \cup {NoVM}]]
      /\ \A d \in Caller \ {c} : caller'[d] = caller[d]
  BY DEF IInv, TypeOK, Calling, Enter, Refused, Return, Lookup
<1>3. \A d \in Caller : Held[d] = caller[d].vm /\ Held'[d] = caller'[d].vm
  BY DEF Held
<1>4. ASSUME caller'[c] = Free  PROVE Held' = [Held EXCEPT ![c] = NoVM] /\ Inside' = Inside \ {c}
  <2>1. caller'[c].at = "idle" /\ caller'[c].vm = NoVM
    BY <1>4 DEF Free
  <2>2. \A d \in Caller : Held'[d] = IF d = c THEN NoVM ELSE Held[d]
    BY <1>2, <1>3, <2>1
  <2>3. Held' = [Held EXCEPT ![c] = NoVM]
    BY <2>2 DEF Held
  <2>4. Inside' = Inside \ {c}
    BY <1>2, <2>1 DEF Inside
  <2>5. QED  BY <2>3, <2>4
<1>5. CASE Enter(c)
  <2>1. /\ caller[c].vm \in VM /\ vm[caller[c].vm] = "open"
        /\ caller'[c].at = "in" /\ caller'[c].vm = caller[c].vm
    BY <1>2, <1>5 DEF Enter, IInv, CallOK
  <2>2. Held[c] \in In(plugins) \cup Retired
    BY <1>3, <2>1, OwnersAre DEF HeldServed
  <2>3. \A d \in Inside : Held[d] # Held[c]
    BY <1>3, <2>1 DEF Inside, IInv, CallOK, CallsRunAlone
  <2>4. Inside' = Inside \cup {c} /\ Held' = Held
    BY <1>2, <2>1 DEF Inside, Held
  <2>5. Promise!Enter(c)
    BY <1>1, <2>2, <2>3, <2>4
       DEF Promise!Enter, Promise!VMsOf, In, Made, Retired, Held, Inside
  <2>6. QED  BY <2>5 DEF Promise!Next
<1>6. CASE Refused(c)
  <2>1. /\ caller[c].vm \in VM /\ vm[caller[c].vm] = "closed" /\ caller'[c] = Free
        /\ caller[c].at # "in" /\ caller[c].vm # NoVM
    BY <1>2, <1>6, HostAssumption DEF Refused, IInv, CallOK
  <2>2. Held[c] # NoVM /\ Held[c] \notin In(plugins) \cup Made \cup Retired
    BY <1>3, <2>1, OwnersAre
  <2>3. Held' = [Held EXCEPT ![c] = NoVM] /\ Inside' = Inside
    BY <1>4, <2>1 DEF Inside
  <2>4. Promise!TurnAway(c)
    BY <1>1, <2>2, <2>3
       DEF Promise!TurnAway, Promise!Open, Promise!VMsOf, In, Made, Retired, Held, Inside
  <2>5. QED  BY <2>4 DEF Promise!Next
<1>7. CASE Return(c)
  <2>1. caller'[c] = Free /\ c \in Inside
    BY <1>2, <1>7 DEF Return, Inside
  <2>2. Promise!Return(c)
    BY <1>1, <1>4, <2>1 DEF Promise!Return, Made, Retired, Held, Inside
  <2>3. QED  BY <2>2 DEF Promise!Next
<1>8. ASSUME NEW p \in Plugin, Lookup(c, p)  PROVE Promise!Next
  <2>1. /\ caller'[c] = [at |-> "found", vm |-> plugins[p]] /\ plugins[p] # NoVM
        /\ caller[c].at = "idle"
    BY <1>2, <1>8 DEF Lookup
  <2>2. Held[c] = NoVM
    BY <1>3, <2>1 DEF HeldServed
  <2>3. Held' = [Held EXCEPT ![c] = plugins[p]] /\ Inside' = Inside
    <3>1. caller'[c].at = "found" /\ caller'[c].vm = plugins[p]
      BY <2>1
    <3>2. \A d \in Caller : Held'[d] = IF d = c THEN plugins[p] ELSE Held[d]
      BY <1>2, <1>3, <3>1
    <3>3. Held' = [Held EXCEPT ![c] = plugins[p]]
      BY <3>2 DEF Held
    <3>4. Inside' = Inside
      BY <1>2, <2>1, <3>1 DEF Inside
    <3>5. QED  BY <3>3, <3>4
  <2>4. Promise!Look(c, p)
    BY <1>1, <2>1, <2>2, <2>3 DEF Promise!Look, Made, Retired, Held, Inside
  <2>5. QED  BY <2>4 DEF Promise!Next
<1>9. QED  BY <1>5, <1>6, <1>7, <1>8 DEF Calling

\* What a call holds was in the table once.
LEMMA HeldStays == IInv /\ HeldServed /\ [Next]_vars => HeldServed'
<1> SUFFICES ASSUME IInv, HeldServed, [Next]_vars PROVE HeldServed'
  OBVIOUS
<1>1. caller \in [Caller -> [at : {"idle", "found", "in"}, vm : VM \cup {NoVM}]]
  BY DEF IInv, TypeOK
<1>2. CASE caller' = caller /\ Made' \subseteq Made
  BY <1>2 DEF HeldServed
<1>3. ASSUME NEW l \in Loader, NEW d \in Dir, NEW v \in VM, Load(l, d, v)  PROVE HeldServed'
  <2>1. caller' = caller /\ Made' = Made \cup {v} /\ \A c \in Caller : caller[c].vm # v
    BY <1>3, LoadMakes
  <2>2. QED  BY <2>1 DEF HeldServed
<1>4. ASSUME NEW l \in Loader, Swap(l)  PROVE HeldServed'
  <2>1. PICK new \in [Plugin -> VM \cup {NoVM}] : Promise!Replace(new)
    BY <1>4, SwapPromise
  <2>2. Made' \subseteq Made
    BY <2>1 DEF Promise!Replace, Made
  <2>3. QED  BY <1>2, <1>4, <2>2 DEF Swap
<1>5. ASSUME NEW l \in Loader, NEW v \in VM, Close(l, v)  PROVE HeldServed'
  <2>1. Promise!Reuse(v)
    BY <1>5, ClosePromise
  <2>2. Made' = Made
    BY <2>1 DEF Promise!Reuse, Made
  <2>3. QED  BY <1>2, <1>5, <2>2 DEF Close
<1>6. ASSUME NEW l \in Loader, ReadDirs(l) \/ ReadKeys(l) \/ Done(l) \/ \E d \in Dir : Skip(l, d)
      PROVE  HeldServed'
  BY <1>2, <1>6, QuietPromise
<1>7. ASSUME NEW c \in Caller, Calling(c) \/ \E p \in Plugin : Lookup(c, p)  PROVE HeldServed'
  <2>1. /\ Made' = Made
        /\ \A d \in Caller \ {c} : caller'[d] = caller[d]
    BY <1>1, <1>7 DEF Calling, Enter, Refused, Return, Lookup, Made
  <2>2. (caller'[c].at = "idle" <=> caller'[c].vm = NoVM) /\ caller'[c].vm \notin Made
    <3>1. CASE Enter(c)
      <4>1. caller'[c].at = "in" /\ caller'[c].vm = caller[c].vm /\ caller[c].at = "found"
        BY <1>1, <3>1 DEF Enter
      <4>2. QED  BY <4>1 DEF HeldServed
    <3>2. CASE Refused(c) \/ Return(c)
      <4>1. caller'[c].at = "idle" /\ caller'[c].vm = NoVM
        BY <1>1, <3>2 DEF Refused, Return, Free
      <4>2. QED  BY <4>1, MadeIs
    <3>3. ASSUME NEW p \in Plugin, Lookup(c, p)  PROVE <2>2!:
      <4>1. caller'[c].at = "found" /\ caller'[c].vm = plugins[p] /\ plugins[p] # NoVM
        BY <1>1, <3>3 DEF Lookup
      <4>2. plugins[p] \in In(plugins)
        BY <4>1, MadeIs
      <4>3. QED  BY <4>1, <4>2, OwnersAre
    <3>4. QED  BY <1>7, <3>1, <3>2, <3>3 DEF Calling
  <2>3. QED  BY <2>1, <2>2 DEF HeldServed
<1>8. CASE UNCHANGED vars \/ \E S \in SUBSET Dir : DiskChanges(S)
  BY <1>2, <1>8 DEF vars, DiskChanges, Made
<1>9. QED  BY <1>3, <1>4, <1>5, <1>6, <1>7, <1>8 DEF Next, Loading, LoadOne, HostStep

LEMMA StepPromise ==
  ASSUME IInv, HeldServed, [Next]_vars
  PROVE  Promise!Next \/ UNCHANGED Promise!vars
<1>1. ASSUME NEW l \in Loader, ReadDirs(l) \/ ReadKeys(l) \/ Done(l) \/ \E d \in Dir : Skip(l, d)
      PROVE  UNCHANGED Promise!vars
  BY <1>1, QuietPromise DEF Promise!vars, Made, Retired
<1>2. CASE UNCHANGED vars \/ \E S \in SUBSET Dir : DiskChanges(S)
  BY <1>2 DEF vars, DiskChanges, Promise!vars
<1>3. ASSUME NEW l \in Loader, Swap(l)  PROVE Promise!Next
  BY <1>3, SwapPromise DEF Promise!Next
<1>4. ASSUME NEW l \in Loader, NEW v \in VM, Close(l, v) \/ \E d \in Dir : Load(l, d, v)
      PROVE  Promise!Next
  BY <1>4, ClosePromise, MakePromise DEF Promise!Next
<1>5. QED  BY <1>1, <1>2, <1>3, <1>4, CallPromise DEF Next, Loading, LoadOne, HostStep

LEMMA InitPromise == Init => Promise!Init /\ HeldServed
<1> SUFFICES ASSUME Init PROVE Promise!Init /\ HeldServed
  OBVIOUS
<1>1. /\ \A l \in Loader : loader[l].next = None /\ loader[l].old = {}
      /\ \A p \in Plugin : None[p] = NoVM
      /\ \A c \in Caller : caller[c].at = "idle" /\ caller[c].vm = NoVM
  BY DEF Init, Rest, None, Free
<1>2. Made = {} /\ Retired = {} /\ Inside = {} /\ Held = [c \in Caller |-> NoVM]
  BY <1>1 DEF Made, Retired, Inside, Held, In
<1>3. HeldServed
  BY <1>1, <1>2 DEF HeldServed
<1>4. QED
  BY <1>2, <1>3 DEF Init, Promise!Init, None, Made, Retired, Held, Inside

\* The host with its overlapping loads implements the promise: the table changes
\* as a whole, a call runs alone in a VM that was looked up in some table and was
\* never closed since, and it is turned away only by a VM that serves no more.
THEOREM TablePromiseKept == Spec => KeepsTablePromise
<1>1. Init => Promise!Init /\ HeldServed
  BY InitPromise
<1>2. IInv /\ HeldServed /\ [Next]_vars => [Promise!Next]_Promise!vars
  BY StepPromise
<1>3. IInv /\ HeldServed /\ [Next]_vars => HeldServed'
  BY HeldStays
<1>4. QED
  BY <1>1, <1>2, <1>3, Invariance, PTL DEF Spec, KeepsTablePromise, Promise!Spec

-----------------------------------------------------------------------------
(* The messages.  LocalesFollow says nothing of the time of a reload; then *)
(* the registry goes by the table the reload builds, if it is the only one *)
(* that came past its reset.                                               *)

\* The plugins a table has.
Named(table) == {p \in Plugin : table[p] # NoVM}

Under(l) == loader[l].at \in {"load", "close"}

LocalesInv ==
    ~wiped =>
        /\ \A l, k \in Loader : Under(l) /\ Under(k) => l = k
        /\ \A l \in Loader : loader[l].at = "load" => locales = Named(loader[l].next)
        /\ (\A l \in Loader : loader[l].at # "load") => locales = Named(plugins)

\* Nothing is loaded at first, and no message is there.
LEMMA LocalesInit == Init => LocalesInv
BY DEF Init, LocalesInv, Under, Named, Rest, None

\* One reload takes a step.
LEMMA LocalesLoading ==
  ASSUME IInv, LocalesInv, NEW l \in Loader, ReadDirs(l) \/ Loading(l)
  PROVE  LocalesInv'
<1>0. /\ loader \in [Loader -> LoadState] /\ loader[l] \in LoadState
      /\ loader[l].at # "load" => loader[l].next = None
  BY DEF IInv, TypeOK, LoaderOK
<1>1. CASE ReadDirs(l)
  <2>1. ~Under(l)' /\ loader'[l].at = "keys" /\ \A k \in Loader \ {l} : loader'[k] = loader[k]
    BY <1>0, <1>1 DEF ReadDirs, Under, Rest
  <2>2. QED  BY <1>1, <2>1 DEF ReadDirs, LocalesInv, Under
<1>2. CASE ReadKeys(l)
  <2> SUFFICES ASSUME ~wiped'
               PROVE  LocalesInv'
    BY DEF LocalesInv
  <2>1. \A k \in Loader \ {l} : loader[k].at = "idle"
    BY <1>2 DEF ReadKeys
  <2>2. loader'[l] = [loader[l] EXCEPT !.at = "load"] /\ \A k \in Loader \ {l} : loader'[k] = loader[k]
    BY <1>0, <1>2 DEF ReadKeys
  <2>3. loader'[l].at = "load" /\ loader'[l].next = None
    BY <1>0, <1>2, <2>2 DEF ReadKeys, LoadState
  <2>4. locales' = Named(None)
    BY <1>2 DEF ReadKeys, Named, None
  <2>5. \A k \in Loader : loader'[k].at \in {"load", "close"} => k = l
    BY <2>1, <2>2
  <2>6. \A k \in Loader : loader'[k].at = "load" => locales' = Named(loader'[k].next)
    BY <2>3, <2>4, <2>5
  <2>7. QED  BY <2>3, <2>5, <2>6 DEF LocalesInv, Under, Named
<1>3. CASE \E d \in Dir : Skip(l, d)
  <2>1. /\ \A k \in Loader : loader'[k].at = loader[k].at /\ loader'[k].next = loader[k].next
        /\ UNCHANGED <<plugins, locales, wiped>>
    BY <1>0, <1>3 DEF Skip, LoadState
  <2>2. QED  BY <2>1 DEF LocalesInv, Under
<1>4. ASSUME NEW d \in Dir, NEW v \in VM, Load(l, d, v)
      PROVE  LocalesInv'
  <2>1. /\ loader[l].at = "load" /\ IdOf[d] \in Plugin /\ v # NoVM
        /\ loader[l].next \in Table /\ UNCHANGED <<plugins, wiped>>
    BY <1>0, <1>4, HostAssumption DEF Load, LoadState
  <2>2. /\ \A k \in Loader : loader'[k].at = loader[k].at
        /\ \A k \in Loader \ {l} : loader'[k].next = loader[k].next
        /\ loader'[l].next = [loader[l].next EXCEPT ![IdOf[d]] = v]
    BY <1>0, <1>4 DEF Load, LoadState
  <2>3. Named(loader[l].next)' = Named(loader[l].next) \cup {IdOf[d]}
    BY <2>1, <2>2 DEF Named, Table
  <2>4. locales' = locales \cup {IdOf[d]}
    BY <1>4 DEF Load
  <2>5. QED  BY <2>1, <2>2, <2>3, <2>4 DEF LocalesInv, Under
<1>5. CASE Swap(l)
  <2>1. /\ loader[l].at = "load" /\ loader'[l].at = "close" /\ plugins' = loader[l].next
        /\ \A k \in Loader \ {l} : loader'[k] = loader[k]
        /\ UNCHANGED <<locales, wiped>>
    BY <1>0, <1>5 DEF Swap, Rest
  <2>2. QED  BY <2>1 DEF LocalesInv, Under, Named
<1>6. CASE Done(l) \/ \E v \in VM : Close(l, v)
  <2>1. /\ loader[l].at = "close" /\ loader'[l].at \in {"idle", "close"}
        /\ \A k \in Loader \ {l} : loader'[k] = loader[k]
        /\ UNCHANGED <<plugins, locales, wiped>>
    BY <1>0, <1>6 DEF Done, Close, Rest, LoadState
  <2>2. QED  BY <2>1 DEF LocalesInv, Under
<1>7. QED  BY <1>1, <1>2, <1>3, <1>4, <1>5, <1>6 DEF Loading, LoadOne, HostStep

\* Every step keeps it.
LEMMA LocalesNext == IInv /\ LocalesInv /\ [Next]_vars => LocalesInv'
<1> SUFFICES ASSUME IInv, LocalesInv, [Next]_vars
             PROVE  LocalesInv'
  OBVIOUS
<1>1. CASE \E l \in Loader : ReadDirs(l) \/ Loading(l)
  BY <1>1, LocalesLoading
<1>2. CASE UNCHANGED <<plugins, locales, loader, wiped>>
  BY <1>2 DEF LocalesInv, Under, Named
<1>3. QED
  BY <1>1, <1>2 DEF Next, Calling, Enter, Refused, Return, Lookup, DiskChanges, vars

\* Between reloads the registry has the messages of the loaded plugins and no
\* other, unless a load failed at the keys or overlapped another (resetPluginLocales).
THEOREM LocalesHold == Spec => []LocalesFollow
<1>1. LocalesInv => LocalesFollow
  BY DEF LocalesInv, LocalesFollow, Named
<1>2. QED  BY <1>1, LocalesInit, LocalesNext, Invariance, PTL DEF Spec

-----------------------------------------------------------------------------
(* Trust: what the host loads in production, somebody signed with a key    *)
(* that is trusted.  A load and a signing read one file after the other,   *)
(* and an import and a new key take several writes, so the invariant says  *)
(* what each of them already has right at each of its places.              *)

\* As long as nothing is written, the files w has read are those that are there, the
\* manifest of a load among them; what it checks was signed.
ReadOK(w) ==
    /\ w.since <= writes
    /\ w.at \in {"sign", "check"} =>
         /\ Len(w.todo) <= 2
         /\ Len(w.todo) = 2 => w.todo[1] = "plugin.json" /\ w.todo[2] = "plugin.lua"
         /\ Len(w.todo) = 1 => w.todo[1] = "plugin.lua"
         /\ w.since = writes /\ Len(w.todo) < 2 =>
               w.got["plugin.json"] = dir["plugin.json"]
         /\ w.since = writes /\ Len(w.todo) = 0 => w.got["plugin.lua"] = dir["plugin.lua"]
    /\ w.at = "sign" => w.id \in KeyId /\ w.key \in Key
    /\ w.at \in {"check", "run"} =>
         /\ w.sig \in Signature
         /\ <<w.sig.files, w.sig.key>> \in signed
    /\ w.at = "run" => w.sig.files = w.got /\ (w.since = writes => w.got = dir)
    /\ w.at \in {"find", "check", "run"} /\ w.since = writes => w.manifest = dir["plugin.json"]

\* A signer that was there when the load w began still is, and its key is one it
\* had; what w runs is signed with a key it trusts.
LoadOK(w) ==
    /\ w.at \in {"keys", "manifest", "find", "check", "run"} =>
         \A k \in KeyId : w.before[k] # Absent => signer[k] # Absent
    /\ w.at \in {"manifest", "find", "check", "run"} =>
         \A k \in KeyId : w.before[k] # Absent => <<k, w.keys[k]>> \in was
    /\ w.at = "run" => w.keys[w.sig.id] = w.sig.key

\* What the import w has left are keys of its file, and the others are signers.
ImportOK(w) ==
    w.at \in {"import", "vendor"} =>
        /\ w.left \subseteq Names(w.keys)
        /\ \A k \in Names(w.keys) \ w.left : signer[k] # Absent
        /\ Names(w.keys) \in lists
        /\ w.at = "vendor" => w.left = {} /\ vendor.there

\* A run of gen-signing-key whose name is not mixed has its key in its file, and has
\* read of every such name the key that is there.
KeyOK(w) ==
    /\ w.at \in {"key", "read", "write", "fill"} => w.id \in KeyId /\ w.key \in Key
    /\ w.at \in {"read", "write", "fill"} /\ w.id \notin mixed => priv[w.id] = w.key
    /\ w.at \in {"write", "fill"} =>
         \A k \in KeyId \ mixed : k # w.id /\ priv[k] # Absent => w.keys[k] = priv[k]

SignedInv ==
    /\ \A p \in Proc : ReadOK(proc[p])
    /\ sig # Absent => <<sig.files, sig.key>> \in signed /\ sig.since <= writes
    /\ SignaturesHold
SignerInv ==
    /\ \A p \in Proc : LoadOK(proc[p])
    /\ \A k \in KeyId : signer[k] # Absent => <<k, signer[k]>> \in was
    /\ ReplacedKeyRefused
VendorInv ==
    /\ \A p \in Proc : ImportOK(proc[p])
    /\ VendorsHold
\* Two that overlap are both mixed.
KeyInv ==
    /\ \A p \in Proc : KeyOK(proc[p])
    /\ \A p, q \in Proc : Generating(p) /\ Generating(q) /\ p # q => proc[p].id \in mixed
    /\ KeyFilesTrusted

TrustInv == ConstantsOK /\ TrustTypeOK /\ SignedInv /\ SignerInv /\ VendorInv /\ KeyInv

\* A process at rest, and the lists of the files, are well typed.
LEMMA TrustRest ==
  /\ Fresh \in Work /\ Over \in Work
  /\ Hashed \in Seq(File) /\ Written \in Seq(File)
<1>1. NoKeys \in Entries /\ NoFiles \in Files
  BY DEF NoKeys, NoFiles, Entries, Files
<1>2. Hashed \in Seq(File) /\ Written \in Seq(File)
  BY DEF Hashed, Written, File
<1>3. << >> \in Seq(File)
  OBVIOUS
<1>4. Fresh \in Work
  BY <1>1, <1>3 DEF Fresh, Work
<1>5. Over \in Work
  BY <1>4 DEF Over, Work
<1>6. QED  BY <1>2, <1>4, <1>5

\* The step of p leaves the others.
Moved(p) == proc' = [proc EXCEPT ![p] = proc'[p]]

\* A process that goes on with the locals it had is well typed.
LEMMA GoesTyped ==
  ASSUME NEW p \in Proc, DOMAIN proc = Proc, proc[p] \in Work,
         NEW at \in {"read", "fill", "vendor", "run"}, Goes(p, at)
  PROVE  proc'[p] \in Work
<1>1. proc'[p] = [proc[p] EXCEPT !.at = at]
  BY DEF Goes
<1>2. QED  BY ZenonT(40), <1>1 DEF Work

\* TypeOK, but for the processes.
StoresTyped ==
    /\ priv \in [KeyId -> Key \cup {Absent, Torn}]
    /\ file \in Entries \cup {Torn}
    /\ signer \in Entries
    /\ vendor \in [there : BOOLEAN, keys : SUBSET KeyId]
    /\ made \in BOOLEAN /\ dir \in Files
    /\ sig \in Signature \cup {Absent}
    /\ writes \in Nat

\* A step keeps the types; what WriteSignature writes is one by what it read.
LEMMA TrustTyped ==
  ASSUME ConstantsOK, TrustTypeOK, NEW p \in Proc, ReadOK(proc[p]), Step(p)
  PROVE  TrustTypeOK' /\ Moved(p)
<1> USE TrustRest DEF keyring, database, plugin
<1>a. DOMAIN proc = Proc /\ proc[p] \in Work /\ StoresTyped
  BY DEF TrustTypeOK, StoresTyped
<1>1. ASSUME NEW k \in KeyId, NEW key \in Key, Generate(p, k, key)
      PROVE  StoresTyped' /\ Moved(p) /\ proc'[p] \in Work
  <2>1. Moved(p)
    BY <1>1, <1>a DEF Generate, Starts, Moved
  <2>2. proc'[p] \in Work
    BY <1>1, <1>a DEF Generate, Starts, Work
  <2>3. StoresTyped'
    BY <1>1, <1>a DEF Generate, Starts, StoresTyped, Work
  <2>4. QED  BY <2>1, <2>2, <2>3
<1>2. ASSUME NEW k \in KeyId, NEW key \in Key, TrustSigner(p, k, key)
      PROVE  StoresTyped' /\ Moved(p) /\ proc'[p] \in Work
  <2>1. Moved(p)
    BY <1>2, <1>a DEF TrustSigner, Starts, Puts, Moved
  <2>2. proc'[p] \in Work
    BY <1>2, <1>a DEF TrustSigner, Starts, Puts, Work
  <2>3. StoresTyped'
    BY <1>2, <1>a DEF TrustSigner, Starts, Puts, StoresTyped, Work, Entries
  <2>4. QED  BY <2>1, <2>2, <2>3
<1>3. ASSUME WriteKey(p)  PROVE StoresTyped' /\ Moved(p) /\ proc'[p] \in Work
  <2>1. Moved(p)
    BY <1>3, <1>a DEF WriteKey, Goes, Moved
  <2>2. proc'[p] \in Work
    BY <1>3, <1>a, GoesTyped DEF WriteKey
  <2>3. StoresTyped'
    BY <1>3, <1>a DEF WriteKey, Goes, StoresTyped, Work
  <2>4. QED  BY <2>1, <2>2, <2>3
<1>4. ASSUME ReadFile(p)  PROVE StoresTyped' /\ Moved(p) /\ proc'[p] \in Work
  <2>1. Moved(p)
    BY <1>4, <1>a DEF ReadFile, Moved
  <2>2. proc'[p] \in Work
    <3>1. proc'[p] = [proc[p] EXCEPT !.at = "write", !.keys = file]
      BY <1>4, <1>a DEF ReadFile
    <3>2. file \in Entries
      BY <1>4, <1>a DEF ReadFile, StoresTyped
    <3>3. QED  BY ZenonT(40), <3>1, <3>2, <1>a DEF Work
  <2>3. StoresTyped'
    BY <1>4, <1>a DEF ReadFile, StoresTyped, Work
  <2>4. QED  BY <2>1, <2>2, <2>3
<1>5. ASSUME Truncate(p)  PROVE StoresTyped' /\ Moved(p) /\ proc'[p] \in Work
  <2>1. Moved(p)
    BY <1>5, <1>a DEF Truncate, Goes, Moved
  <2>2. proc'[p] \in Work
    BY <1>5, <1>a, GoesTyped DEF Truncate
  <2>3. StoresTyped'
    BY <1>5, <1>a DEF Truncate, Goes, StoresTyped, Work
  <2>4. QED  BY <2>1, <2>2, <2>3
<1>6. ASSUME Fill(p)  PROVE StoresTyped' /\ Moved(p) /\ proc'[p] \in Work
  <2>1. Moved(p)
    BY <1>6, <1>a DEF Fill, Ends, Upserted, Moved
  <2>2. proc'[p] \in Work
    BY <1>6, <1>a DEF Fill, Ends, Upserted, Work
  <2>3. StoresTyped'
    BY <1>6, <1>a DEF Fill, Ends, Upserted, StoresTyped, Work, Entries
  <2>4. QED  BY <2>1, <2>2, <2>3
<1>7. ASSUME NEW keys \in Entries, Import(p, keys)
      PROVE  StoresTyped' /\ Moved(p) /\ proc'[p] \in Work
  <2>1. Moved(p)
    BY <1>7, <1>a DEF Import, Starts, Names, Moved
  <2>2. proc'[p] \in Work
    BY <1>7, <1>a DEF Import, Starts, Names, Work
  <2>3. StoresTyped'
    BY <1>7, <1>a DEF Import, Starts, Names, StoresTyped, Work
  <2>4. QED  BY <2>1, <2>2, <2>3
<1>8. ASSUME NEW k \in KeyId, PutSigner(p, k)
      PROVE  StoresTyped' /\ Moved(p) /\ proc'[p] \in Work
  <2>1. Moved(p)
    BY <1>8, <1>a DEF PutSigner, Puts, Moved
  <2>2. proc'[p] \in Work
    <3>1. proc'[p] = [proc[p] EXCEPT !.left = @ \ {k}]
      BY <1>8, <1>a DEF PutSigner
    <3>2. QED  BY ZenonT(40), <3>1, <1>a DEF Work
  <2>3. StoresTyped'
    BY <1>8, <1>a DEF PutSigner, Puts, StoresTyped, Work, Entries
  <2>4. QED  BY <2>1, <2>2, <2>3
<1>9. ASSUME PutVendor(p)  PROVE StoresTyped' /\ Moved(p) /\ proc'[p] \in Work
  <2>1. Moved(p)
    BY <1>9, <1>a DEF PutVendor, Goes, Moved
  <2>2. proc'[p] \in Work
    BY <1>9, <1>a, GoesTyped DEF PutVendor
  <2>3. StoresTyped'
    BY <1>9, <1>a DEF PutVendor, Goes, StoresTyped, Work
  <2>4. QED  BY <2>1, <2>2, <2>3
<1>10. ASSUME ReplaceKeys(p)  PROVE StoresTyped' /\ Moved(p) /\ proc'[p] \in Work
  <2>1. Moved(p)
    BY <1>10, <1>a DEF ReplaceKeys, Ends, Replaced, Names, Moved
  <2>2. proc'[p] \in Work
    BY <1>10, <1>a DEF ReplaceKeys, Ends, Replaced, Names, Work
  <2>3. StoresTyped'
    BY <1>10, <1>a DEF ReplaceKeys, Ends, Replaced, Names, StoresTyped, Work
  <2>4. QED  BY <2>1, <2>2, <2>3
<1>11. ASSUME Scaffold(p)  PROVE StoresTyped' /\ Moved(p) /\ proc'[p] \in Work
  <2>1. Moved(p)
    BY <1>11, <1>a DEF Scaffold, Starts, Moved
  <2>2. proc'[p] \in Work
    BY <1>11, <1>a DEF Scaffold, Starts, Work
  <2>3. StoresTyped'
    BY <1>11, <1>a DEF Scaffold, Starts, StoresTyped, Work
  <2>4. QED  BY <2>1, <2>2, <2>3
<1>12. ASSUME MakeDir(p)  PROVE StoresTyped' /\ Moved(p) /\ proc'[p] \in Work
  <2>1. Moved(p)
    BY <1>12, <1>a DEF MakeDir, Moved
  <2>2. proc'[p] \in Work
    <3>1. proc'[p] = [proc[p] EXCEPT !.at = "put", !.todo = Written]
      BY <1>12, <1>a DEF MakeDir
    <3>2. QED  BY ZenonT(40), <3>1, <1>a DEF Work
  <2>3. StoresTyped'
    BY <1>12, <1>a DEF MakeDir, StoresTyped, Work
  <2>4. QED  BY <2>1, <2>2, <2>3
<1>13. ASSUME PutFile(p)  PROVE StoresTyped' /\ Moved(p) /\ proc'[p] \in Work
  <2>1. Moved(p)
    BY <1>13, <1>a DEF PutFile, Moved
  <2>2. proc'[p] \in Work
    <3>1. Tail(proc[p].todo) \in Seq(File) /\ Head(proc[p].todo) \in File
      BY <1>13, <1>a DEF PutFile, Work
    <3>2. proc'[p] = [proc[p] EXCEPT !.todo = Tail(proc[p].todo)]
      BY <1>13, <1>a DEF PutFile
    <3>3. QED  BY ZenonT(40), <3>1, <3>2, <1>a DEF Work
  <2>3. StoresTyped'
    BY SMTT(30), <1>13, <1>a DEF PutFile, StoresTyped, Work, Files
  <2>4. QED  BY <2>1, <2>2, <2>3
<1>14. ASSUME PutDone(p)  PROVE StoresTyped' /\ Moved(p) /\ proc'[p] \in Work
  <2>1. Moved(p)
    BY <1>14, <1>a DEF PutDone, Ends, Signing, Signs, Moved
  <2>2. proc'[p] \in Work
    <3>1. CASE Ends(p)
      BY <3>1, <1>a DEF Ends
    <3>2. ASSUME NEW k \in KeyId, Signs(k), proc' = [proc EXCEPT ![p] = Signing(@, k)]
          PROVE  proc'[p] \in Work
      <4>1. proc'[p] = [proc[p] EXCEPT !.at = "sign", !.id = k, !.key = priv[k],
                                       !.todo = Hashed, !.since = writes]
        BY <3>2, <1>a DEF Signing
      <4>2. priv[k] \in Key /\ writes \in Nat
        BY <3>2, <1>a DEF Signs, StoresTyped
      <4>3. QED  BY ZenonT(40), <4>1, <4>2, <1>a DEF Work
    <3>3. QED  BY <1>14, <3>1, <3>2 DEF PutDone
  <2>3. StoresTyped'
    BY <1>14, <1>a DEF PutDone, Ends, Signing, Signs, StoresTyped, Work
  <2>4. QED  BY <2>1, <2>2, <2>3
<1>15. ASSUME NEW k \in KeyId, Sign(p, k)
       PROVE  StoresTyped' /\ Moved(p) /\ proc'[p] \in Work
  <2>1. Moved(p)
    BY <1>15, <1>a DEF Sign, Starts, Signing, Signs, Moved
  <2>2. proc'[p] \in Work
    BY <1>15, <1>a DEF Sign, Starts, Signing, Signs, Work, StoresTyped
  <2>3. StoresTyped'
    BY <1>15, <1>a DEF Sign, Starts, Signing, Signs, StoresTyped, Work
  <2>4. QED  BY <2>1, <2>2, <2>3
<1>16. ASSUME HashFile(p)  PROVE StoresTyped' /\ Moved(p) /\ proc'[p] \in Work
  <2>1. Moved(p)
    BY <1>16, <1>a DEF HashFile, Moved
  <2>2. proc'[p] \in Work
    <3> DEFINE f == Head(proc[p].todo)
               g == [proc[p].got EXCEPT ![f] = dir[f]]
               t == Tail(proc[p].todo)
    <3>1. t \in Seq(File) /\ f \in File /\ proc[p].got \in Files /\ dir \in Files
      BY <1>16, <1>a DEF HashFile, Work, StoresTyped
    <3>2. g \in Files
      BY <3>1 DEF Files
    <3>3. proc'[p] = [proc[p] EXCEPT !.todo = t, !.got = g]
      BY <1>16, <1>a DEF HashFile, Work
    <3> HIDE DEF f, g, t
    <3>4. QED  BY ZenonT(40), <1>a, <3>1, <3>2, <3>3 DEF Work
  <2>3. StoresTyped'
    BY <1>16, <1>a DEF HashFile, StoresTyped, Work
  <2>4. QED  BY <2>1, <2>2, <2>3
<1>17. ASSUME WriteSignature(p)  PROVE StoresTyped' /\ Moved(p) /\ proc'[p] \in Work
  <2>1. Moved(p)
    BY <1>17, <1>a DEF WriteSignature, Ends, Hash, Moved
  <2>2. proc'[p] \in Work
    BY <1>17, <1>a DEF WriteSignature, Ends, Hash, Work
  <2>3. StoresTyped'
    BY <1>17, <1>a
       DEF WriteSignature, Ends, Hash, StoresTyped, Work, Signature, ReadOK
  <2>4. QED  BY <2>1, <2>2, <2>3
<1>18. ASSUME BeginLoad(p)  PROVE StoresTyped' /\ Moved(p) /\ proc'[p] \in Work
  <2>1. Moved(p)
    BY <1>18, <1>a DEF BeginLoad, Starts, Moved
  <2>2. proc'[p] \in Work
    <3>1. proc'[p] = [Fresh EXCEPT !.at = "keys", !.keys = file, !.before = signer]
      BY <1>18, <1>a DEF BeginLoad, Starts
    <3>2. file \in Entries /\ signer \in Entries /\ Fresh \in Work
      BY <1>18, <1>a DEF BeginLoad, StoresTyped
    <3> HIDE DEF Fresh
    <3>3. QED  BY ZenonT(40), <3>1, <3>2 DEF Work
  <2>3. StoresTyped'
    BY <1>18, <1>a DEF BeginLoad, Starts, StoresTyped, Work
  <2>4. QED  BY <2>1, <2>2, <2>3
<1>19. ASSUME ReadSigners(p)  PROVE StoresTyped' /\ Moved(p) /\ proc'[p] \in Work
  <2>1. Moved(p)
    BY <1>19, <1>a DEF ReadSigners, Trusted, Moved
  <2>2. proc'[p] \in Work
    <3>1. proc'[p] = [proc[p] EXCEPT !.at = "manifest", !.keys = Trusted(p)]
      BY <1>19, <1>a DEF ReadSigners
    <3>2. Trusted(p) \in Entries
      BY <1>a DEF Trusted, StoresTyped, Work, Entries
    <3>3. QED  BY ZenonT(40), <3>1, <3>2, <1>a DEF Work
  <2>3. StoresTyped'
    BY <1>19, <1>a DEF ReadSigners, Trusted, StoresTyped, Work
  <2>4. QED  BY <2>1, <2>2, <2>3
<1>20. ASSUME ReadSignature(p)  PROVE StoresTyped' /\ Moved(p) /\ proc'[p] \in Work
  <2>1. Moved(p)
    BY <1>20, <1>a DEF ReadSignature, Moved
  <2>2. proc'[p] \in Work
    <3>1. proc'[p] = [proc[p] EXCEPT !.at = "check", !.sig = sig, !.todo = Hashed]
      BY <1>20, <1>a DEF ReadSignature
    <3>2. sig \in Signature
      BY <1>20, <1>a DEF ReadSignature, StoresTyped
    <3>3. QED  BY ZenonT(40), <3>1, <3>2, <1>a DEF Work
  <2>3. StoresTyped'
    BY <1>20, <1>a DEF ReadSignature, StoresTyped, Work
  <2>4. QED  BY <2>1, <2>2, <2>3
<1>21. ASSUME Verify(p)  PROVE StoresTyped' /\ Moved(p) /\ proc'[p] \in Work
  <2>1. Moved(p)
    BY <1>21, <1>a DEF Verify, Goes, Moved
  <2>2. proc'[p] \in Work
    BY <1>21, <1>a, GoesTyped DEF Verify
  <2>3. StoresTyped'
    BY <1>21, <1>a DEF Verify, Goes, StoresTyped, Work
  <2>4. QED  BY <2>1, <2>2, <2>3
<1>22. ASSUME RunPlugin(p)  PROVE StoresTyped' /\ Moved(p) /\ proc'[p] \in Work
  <2>1. Moved(p)
    BY <1>22, <1>a DEF RunPlugin, Ends, Moved
  <2>2. proc'[p] \in Work
    BY <1>22, <1>a DEF RunPlugin, Ends, Work
  <2>3. StoresTyped'
    BY <1>22, <1>a DEF RunPlugin, Ends, StoresTyped, Work
  <2>4. QED  BY <2>1, <2>2, <2>3
<1>23. ASSUME Stops(p)  PROVE StoresTyped' /\ Moved(p) /\ proc'[p] \in Work
  <2>1. Moved(p)
    BY <1>23, <1>a DEF Stops, Ends, Moved
  <2>2. proc'[p] \in Work
    BY <1>23, <1>a DEF Stops, Ends, Work
  <2>3. StoresTyped'
    BY <1>23, <1>a DEF Stops, Ends, StoresTyped, Work
  <2>4. QED  BY <2>1, <2>2, <2>3
<1>24. ASSUME ReadManifest(p)  PROVE StoresTyped' /\ Moved(p) /\ proc'[p] \in Work
  <2>1. Moved(p)
    BY <1>24, <1>a DEF ReadManifest, Moved
  <2>2. proc'[p] \in Work
    <3>1. dir["plugin.json"] \in Proc \cup {Shipped, Edited, Absent}
      BY <1>a DEF StoresTyped, Files, File
    <3>2. proc'[p] = [proc[p] EXCEPT !.at = "find", !.manifest = dir["plugin.json"],
                                     !.since = writes]
      BY <1>24, <1>a DEF ReadManifest
    <3>3. writes \in Nat
      BY <1>a DEF StoresTyped
    <3>4. QED  BY ZenonT(40), <3>1, <3>2, <3>3, <1>a DEF Work
  <2>3. StoresTyped'
    BY <1>24, <1>a DEF ReadManifest, StoresTyped, Work
  <2>4. QED  BY <2>1, <2>2, <2>3
<1>25. StoresTyped' /\ Moved(p) /\ proc'[p] \in Work
  BY <1>1, <1>2, <1>3, <1>4, <1>5, <1>6, <1>7, <1>8, <1>9, <1>10, <1>11, <1>12, <1>13, <1>14,
     <1>15, <1>16, <1>17, <1>18, <1>19, <1>20, <1>21, <1>22, <1>23, <1>24
     DEF Step
<1>26. proc' \in [Proc -> Work]
  BY <1>a, <1>25 DEF Moved, TrustTypeOK
<1>27. QED  BY <1>25, <1>26 DEF StoresTyped, TrustTypeOK

\* Every other step leaves the plugin and the signatures, and reads no file of it.
LEMMA SignedElsewhere ==
  ASSUME TrustTypeOK, NEW p \in Proc, Moved(p), Step(p)
  PROVE  \/ UNCHANGED <<dir, sig, writes, signed, loaded>>
            /\ proc'[p].at \notin {"sign", "find", "check", "run"}
            /\ proc'[p].since \in {0, proc[p].since}
         \/ PutFile(p) \/ PutDone(p) \/ (\E k \in KeyId : Sign(p, k)) \/ HashFile(p)
         \/ WriteSignature(p) \/ ReadManifest(p) \/ ReadSignature(p) \/ Verify(p) \/ RunPlugin(p)
<1> DEFINE Goal == UNCHANGED <<dir, sig, writes, signed, loaded>>
            /\ proc'[p].at \notin {"sign", "find", "check", "run"}
            /\ proc'[p].since \in {0, proc[p].since}
<1> USE DEF keyring, database, plugin, Fresh, Over
<1>a. proc[p] \in Work /\ DOMAIN proc = Proc
  BY DEF TrustTypeOK
<1>1. ASSUME NEW k \in KeyId, NEW key \in Key, Generate(p, k, key)  PROVE Goal
  BY <1>1, <1>a DEF Generate, Starts
<1>2. ASSUME NEW k \in KeyId, NEW key \in Key, TrustSigner(p, k, key)  PROVE Goal
  BY <1>2, <1>a DEF TrustSigner, Starts, Puts
<1>3. ASSUME WriteKey(p)  PROVE Goal
  BY <1>3, <1>a DEF WriteKey, Goes
<1>4. ASSUME ReadFile(p)  PROVE Goal
  BY <1>4, <1>a DEF ReadFile
<1>5. ASSUME Truncate(p)  PROVE Goal
  BY <1>5, <1>a DEF Truncate, Goes
<1>6. ASSUME Fill(p)  PROVE Goal
  BY <1>6, <1>a DEF Fill, Ends, Upserted
<1>7. ASSUME NEW keys \in Entries, Import(p, keys)  PROVE Goal
  BY <1>7, <1>a DEF Import, Starts, Names
<1>8. ASSUME NEW k \in KeyId, PutSigner(p, k)  PROVE Goal
  BY <1>8, <1>a DEF PutSigner, Puts
<1>9. ASSUME PutVendor(p)  PROVE Goal
  BY <1>9, <1>a DEF PutVendor, Goes
<1>10. ASSUME ReplaceKeys(p)  PROVE Goal
  BY <1>10, <1>a DEF ReplaceKeys, Ends, Replaced, Names
<1>11. ASSUME Scaffold(p)  PROVE Goal
  BY <1>11, <1>a DEF Scaffold, Starts
<1>12. ASSUME MakeDir(p)  PROVE Goal
  BY <1>12, <1>a DEF MakeDir
<1>13. ASSUME BeginLoad(p)  PROVE Goal
  BY <1>13, <1>a DEF BeginLoad, Starts
<1>14. ASSUME ReadSigners(p)  PROVE Goal
  BY <1>14, <1>a DEF ReadSigners, Trusted
<1>15. ASSUME Stops(p)  PROVE Goal
  BY <1>15, <1>a DEF Stops, Ends
<1>16. QED
  BY <1>1, <1>2, <1>3, <1>4, <1>5, <1>6, <1>7, <1>8, <1>9, <1>10, <1>11, <1>12, <1>13, <1>14,
     <1>15
     DEF Step

\* The order in which the files are read.
LEMMA HashedIs ==
  Len(Hashed) = 2 /\ Hashed[1] = "plugin.json" /\ Hashed[2] = "plugin.lua"
BY DEF Hashed

\* Two directories that agree on both files are the same.
LEMMA SameFiles ==
  ASSUME NEW f \in Files, NEW g \in Files,
         f["plugin.json"] = g["plugin.json"], f["plugin.lua"] = g["plugin.lua"]
  PROVE  f = g
BY DEF Files, File

\* A process that is at its end of the files has read them all.
LEMMA AllRead ==
  ASSUME TrustTypeOK, NEW p \in Proc, ReadOK(proc[p]), proc[p].at \in {"sign", "check"},
         proc[p].todo = << >>, proc[p].since = writes
  PROVE  proc[p].got = dir
<1>1. proc[p].got \in Files /\ dir \in Files
  BY DEF TrustTypeOK, Work
<1>2. Len(proc[p].todo) = 0
  OBVIOUS
<1>3. QED  BY <1>1, <1>2, SameFiles DEF ReadOK

\* What a process has read, as others go on.
LEMMA ReadStays ==
  ASSUME NEW q \in Proc, proc[q] \in Work, ReadOK(proc[q]), proc'[q] = proc[q],
         writes \in Nat, signed \subseteq signed',
         UNCHANGED <<dir, writes>> \/ writes' = writes + 1
  PROVE  ReadOK(proc[q])'
BY DEF ReadOK, Work

\* Who reads, checks or signs: the step of a process that concerns a signature.
LEMMA SignedMoves ==
  ASSUME TrustTypeOK, TrustTypeOK', SignedInv, NEW p \in Proc, Moved(p), Step(p)
  PROVE  /\ ReadOK(proc[p])'
         /\ signed \subseteq signed' /\ (UNCHANGED <<dir, writes>> \/ writes' = writes + 1)
         /\ (sig # Absent => <<sig.files, sig.key>> \in signed /\ sig.since <= writes)'
         /\ SignaturesHold'
<1> DEFINE Grow == signed \subseteq signed' /\ (UNCHANGED <<dir, writes>> \/ writes' = writes + 1)
           Beside == (sig # Absent => <<sig.files, sig.key>> \in signed /\ sig.since <= writes)'
           Goal == ReadOK(proc[p])' /\ Grow /\ Beside /\ SignaturesHold'
<1> USE DEF keyring, database, plugin, Fresh, Over
<1>a. /\ proc[p] \in Work /\ DOMAIN proc = Proc /\ proc'[p] \in Work
      /\ writes \in Nat /\ dir \in Files /\ sig \in Signature \cup {Absent}
  BY DEF TrustTypeOK
<1>b. /\ ReadOK(proc[p])
      /\ sig # Absent => <<sig.files, sig.key>> \in signed /\ sig.since <= writes
      /\ RunsWhatWasSigned /\ SignatureMatches
  BY DEF SignedInv, SignaturesHold
<1>1. CASE /\ UNCHANGED <<dir, sig, writes, signed, loaded>>
            /\ proc'[p].at \notin {"sign", "find", "check", "run"}
            /\ proc'[p].since \in {0, proc[p].since}
  <2>1. ReadOK(proc[p])'
    BY <1>1, <1>a, <1>b DEF ReadOK
  <2>2. QED  BY <2>1, <1>1, <1>b DEF SignaturesHold, RunsWhatWasSigned, SignatureMatches
<1>2. ASSUME PutFile(p)  PROVE Goal
  <2>1. Grow /\ Beside
    BY <1>2, <1>a, <1>b DEF PutFile, Work, Signature, ReadOK
  <2>2. ReadOK(proc[p])'
    BY <1>2, <1>a, <1>b DEF PutFile, Work, ReadOK
  <2>3. SignaturesHold'
    BY <1>2, <1>a, <1>b
       DEF PutFile, Work, ReadOK, SignaturesHold, RunsWhatWasSigned,
           SignatureMatches
  <2>4. QED  BY <2>1, <2>2, <2>3
<1>3. ASSUME PutDone(p)  PROVE Goal
  <2>1. Grow /\ Beside
    BY <1>3, <1>a, <1>b DEF PutDone, Ends, Signing, Signs, Work, Signature, ReadOK
  <2>2. ReadOK(proc[p])'
    <3>0. UNCHANGED <<writes, signed>>
      BY <1>3 DEF PutDone
    <3>1. CASE Ends(p)
      BY <3>0, <3>1, <1>a, <1>b DEF Ends, ReadOK
    <3>2. ASSUME NEW k \in KeyId, Signs(k), proc' = [proc EXCEPT ![p] = Signing(@, k)]
          PROVE  ReadOK(proc[p])'
      <4>1. /\ proc'[p].at = "sign" /\ proc'[p].todo = Hashed /\ proc'[p].since = writes
            /\ proc'[p].id = k /\ proc'[p].key \in Key /\ writes' = writes
        BY <3>2, <1>3, <1>a DEF PutDone, Signs, Signing, Work
      <4>2. QED  BY <4>1, <1>a, HashedIs DEF ReadOK
    <3>3. QED  BY <1>3, <3>1, <3>2 DEF PutDone
  <2>3. SignaturesHold'
    BY <1>3, <1>a, <1>b
       DEF PutDone, Ends, Signing, Signs, Work, ReadOK, SignaturesHold,
           RunsWhatWasSigned, SignatureMatches
  <2>4. QED  BY <2>1, <2>2, <2>3
<1>4. ASSUME NEW k \in KeyId, Sign(p, k)  PROVE Goal
  <2>1. Grow /\ Beside
    BY <1>4, <1>a, <1>b DEF Sign, Starts, Signing, Signs, Work, Signature, ReadOK
  <2>2. ReadOK(proc[p])'
    <3>1. /\ proc'[p].at = "sign" /\ proc'[p].todo = Hashed /\ proc'[p].since = writes
          /\ proc'[p].id = k /\ proc'[p].key \in Key /\ writes' = writes
      BY <1>4, <1>a DEF Sign, Starts, Signing, Signs, Work
    <3>2. QED  BY <3>1, <1>a, HashedIs DEF ReadOK
  <2>3. SignaturesHold'
    BY <1>4, <1>a, <1>b
       DEF Sign, Starts, Signing, Signs, Work, ReadOK, SignaturesHold,
           RunsWhatWasSigned, SignatureMatches
  <2>4. QED  BY <2>1, <2>2, <2>3
<1>5. ASSUME HashFile(p)  PROVE Goal
  <2>1. Grow /\ Beside
    BY <1>5, <1>a, <1>b DEF HashFile, Work, Signature, ReadOK
  <2>2. ReadOK(proc[p])'
    <3> DEFINE t == proc[p].todo
    <3>1. /\ t \in Seq(File) /\ t # << >> /\ proc'[p].todo = Tail(t)
          /\ proc'[p].at = proc[p].at /\ proc[p].at \in {"sign", "check"}
          /\ proc'[p].since = proc[p].since /\ proc'[p].sig = proc[p].sig
          /\ proc'[p].manifest = proc[p].manifest
          /\ proc'[p].id = proc[p].id /\ proc'[p].key = proc[p].key
          /\ proc'[p].got = [proc[p].got EXCEPT ![Head(t)] = dir[Head(t)]]
          /\ proc[p].got \in Files /\ UNCHANGED <<dir, writes, signed>>
      BY <1>5, <1>a DEF HashFile, Work
    <3>2. /\ Len(t) \in Nat /\ Len(t) > 0 /\ Len(Tail(t)) = Len(t) - 1 /\ Head(t) = t[1]
          /\ \A j \in 1..(Len(t) - 1) : Tail(t)[j] = t[j + 1]
      BY <3>1
    <3>3. \A f \in File : proc'[p].got[f] = IF f = Head(t) THEN dir[f] ELSE proc[p].got[f]
      BY <3>1 DEF Files
    <3>4. "plugin.json" \in File /\ "plugin.lua" \in File
      BY DEF File
    <3>5. CASE Len(t) = 2
      <4>1. t[1] = "plugin.json" /\ t[2] = "plugin.lua"
        BY <3>1, <3>5, <1>b DEF ReadOK
      <4>2. Len(proc'[p].todo) = 1 /\ proc'[p].todo[1] = "plugin.lua"
        BY <3>1, <3>2, <3>5, <4>1
      <4>3. proc'[p].got["plugin.json"] = dir["plugin.json"]
        BY <3>2, <3>3, <3>4, <4>1
      <4>4. /\ proc'[p].at \notin {"find", "run"} /\ proc'[p].since <= writes'
            /\ proc'[p].at = "check" /\ proc'[p].since = writes' =>
                  proc'[p].manifest = dir'["plugin.json"]
        BY <3>1, <1>b DEF ReadOK
      <4>5. /\ proc'[p].at = "sign" => proc'[p].id \in KeyId /\ proc'[p].key \in Key
            /\ proc'[p].at = "check" => /\ proc'[p].sig \in Signature
                                       /\ <<proc'[p].sig.files, proc'[p].sig.key>> \in signed'
        BY <3>1, <1>b DEF ReadOK
      <4> HIDE DEF t
      <4>6. UNCHANGED <<dir, signed>>
        BY <3>1
      <4>7. QED  BY <4>2, <4>3, <4>4, <4>5, <4>6 DEF ReadOK
    <3>6. CASE Len(t) = 1
      <4>1. t[1] = "plugin.lua"
        BY <3>1, <3>6, <1>b DEF ReadOK
      <4>2. Len(proc'[p].todo) = 0
        BY <3>1, <3>2, <3>6
      <4>3. /\ proc'[p].got["plugin.lua"] = dir["plugin.lua"]
            /\ proc'[p].got["plugin.json"] = proc[p].got["plugin.json"]
        BY <3>2, <3>3, <3>4, <4>1
      <4>4. proc'[p].since = writes => proc'[p].got["plugin.json"] = dir["plugin.json"]
        BY <3>1, <3>6, <4>3, <1>b DEF ReadOK
      <4>5. /\ proc'[p].at \notin {"find", "run"} /\ proc'[p].since <= writes'
            /\ proc'[p].at = "check" /\ proc'[p].since = writes' =>
                  proc'[p].manifest = dir'["plugin.json"]
        BY <3>1, <1>b DEF ReadOK
      <4>6. /\ proc'[p].at = "sign" => proc'[p].id \in KeyId /\ proc'[p].key \in Key
            /\ proc'[p].at = "check" => /\ proc'[p].sig \in Signature
                                       /\ <<proc'[p].sig.files, proc'[p].sig.key>> \in signed'
        BY <3>1, <1>b DEF ReadOK
      <4> HIDE DEF t
      <4>7. UNCHANGED <<dir, writes, signed>>
        BY <3>1
      <4>8. QED  BY <4>2, <4>3, <4>4, <4>5, <4>6, <4>7 DEF ReadOK
    <3>7. Len(t) <= 2
      BY <3>1, <1>b DEF ReadOK
    <3>8. Len(t) = 1 \/ Len(t) = 2
      <4> DEFINE n == Len(t)
      <4>1. n \in Nat /\ n > 0 /\ n <= 2
        BY <3>2, <3>7
      <4> HIDE DEF n
      <4>2. n = 1 \/ n = 2
        BY <4>1
      <4>3. QED  BY <4>2 DEF n
    <3>9. QED  BY <3>5, <3>6, <3>8
  <2>3. SignaturesHold'
    BY <1>5, <1>a, <1>b
       DEF HashFile, Work, ReadOK, SignaturesHold, RunsWhatWasSigned,
           SignatureMatches
  <2>4. QED  BY <2>1, <2>2, <2>3
<1>6. ASSUME WriteSignature(p)  PROVE Goal
  <2>1. Grow /\ Beside
    BY <1>6, <1>a, <1>b DEF WriteSignature, Ends, Hash, Work, Signature, ReadOK
  <2>2. ReadOK(proc[p])'
    BY <1>6, <1>a, <1>b, AllRead DEF WriteSignature, Ends, Hash, Work, ReadOK
  <2>3. SignaturesHold'
    BY <1>6, <1>a, <1>b, AllRead
       DEF WriteSignature, Ends, Hash, Work, ReadOK, SignaturesHold,
           RunsWhatWasSigned, SignatureMatches
  <2>4. QED  BY <2>1, <2>2, <2>3
<1>7. ASSUME ReadSignature(p)  PROVE Goal
  <2>1. Grow /\ Beside
    BY <1>7, <1>a, <1>b DEF ReadSignature, Work, Signature, ReadOK
  <2>2. ReadOK(proc[p])'
    <3>1. /\ proc'[p].at = "check" /\ proc'[p].todo = Hashed
          /\ proc'[p].since = proc[p].since /\ proc'[p].manifest = proc[p].manifest
          /\ proc[p].at = "find" /\ proc'[p].sig = sig /\ sig # Absent
          /\ UNCHANGED <<dir, writes, signed>>
      BY <1>7, <1>a DEF ReadSignature, Work
    <3>2. QED  BY <3>1, <1>a, <1>b, HashedIs DEF ReadOK
  <2>3. SignaturesHold'
    BY <1>7, <1>a, <1>b
       DEF ReadSignature, Work, ReadOK, SignaturesHold, RunsWhatWasSigned,
           SignatureMatches
  <2>4. QED  BY <2>1, <2>2, <2>3
<1>8. ASSUME Verify(p)  PROVE Goal
  <2>1. Grow /\ Beside
    BY <1>8, <1>a, <1>b DEF Verify, Goes, Work, Signature, ReadOK
  <2>2. ReadOK(proc[p])'
    BY <1>8, <1>a, <1>b, AllRead DEF Verify, Goes, Verified, Hash, Work, ReadOK
  <2>3. SignaturesHold'
    BY <1>8, <1>a, <1>b
       DEF Verify, Goes, Work, ReadOK, SignaturesHold, RunsWhatWasSigned,
           SignatureMatches
  <2>4. QED  BY <2>1, <2>2, <2>3
<1>9. ASSUME RunPlugin(p)  PROVE Goal
  <2>1. Grow /\ Beside
    BY <1>9, <1>a, <1>b DEF RunPlugin, Ends, Work, Signature, ReadOK
  <2>2. ReadOK(proc[p])'
    BY <1>9, <1>a, <1>b DEF RunPlugin, Ends, Work, ReadOK
  <2>3. SignaturesHold'
    <3>1. /\ loaded'.files = [dir EXCEPT !["plugin.json"] = proc[p].manifest]
          /\ loaded'.key = proc[p].sig.key /\ loaded'.calm = (writes = proc[p].since)
          /\ proc[p].at = "run" /\ UNCHANGED <<dir, sig, writes, signed>>
      BY <1>9 DEF RunPlugin
    <3>2. ASSUME proc[p].since = writes  PROVE loaded'.files = proc[p].sig.files
      <4>1. proc[p].manifest = dir["plugin.json"] /\ proc[p].sig.files = dir
        BY <3>1, <3>2, <1>b DEF ReadOK
      <4>2. [dir EXCEPT !["plugin.json"] = dir["plugin.json"]] = dir
        BY <1>a DEF Files
      <4>3. QED  BY <3>1, <4>1, <4>2
    <3>3. <<proc[p].sig.files, proc[p].sig.key>> \in signed
      BY <3>1, <1>b DEF ReadOK
    <3>4. QED
      BY <3>1, <3>2, <3>3, <1>b DEF SignaturesHold, RunsWhatWasSigned, SignatureMatches
  <2>4. QED  BY <2>1, <2>2, <2>3
<1>10. ASSUME ReadManifest(p)  PROVE Goal
  <2>1. Grow /\ Beside
    BY <1>10, <1>a, <1>b DEF ReadManifest, Work, Signature, ReadOK
  <2>2. ReadOK(proc[p])'
    <3>1. /\ proc'[p].at = "find" /\ proc'[p].manifest = dir["plugin.json"]
          /\ proc'[p].since = writes /\ UNCHANGED <<dir, writes>>
      BY <1>10, <1>a DEF ReadManifest, Work
    <3>2. QED  BY <3>1, <1>a DEF ReadOK
  <2>3. SignaturesHold'
    BY <1>10, <1>a, <1>b
       DEF ReadManifest, Work, ReadOK, SignaturesHold, RunsWhatWasSigned,
           SignatureMatches
  <2>4. QED  BY <2>1, <2>2, <2>3
<1>11. QED
  BY <1>1, <1>2, <1>3, <1>4, <1>5, <1>6, <1>7, <1>8, <1>9, <1>10, SignedElsewhere

\* After its files, a scaffold ends or signs.
LEMMA PutDoneAt ==
  ASSUME TrustTypeOK, NEW p \in Proc, Moved(p), PutDone(p)
  PROVE  proc[p].at = "put" /\ proc'[p].at \in {"done", "sign"}
<1>1. proc[p].at = "put" /\ DOMAIN proc = Proc /\ proc[p] \in Work
  BY DEF PutDone, TrustTypeOK
<1>2. CASE Ends(p)
  BY <1>1, <1>2 DEF Ends, Over, Fresh
<1>3. ASSUME NEW k \in KeyId, proc' = [proc EXCEPT ![p] = Signing(@, k)]
      PROVE  proc'[p].at \in {"done", "sign"}
  BY <1>1, <1>3 DEF Signing, Work
<1>4. QED  BY <1>1, <1>2, <1>3 DEF PutDone

\* Every other step leaves the signers, and is of no load.
LEMMA SignerElsewhere ==
  ASSUME TrustTypeOK, NEW p \in Proc, Moved(p), Step(p)
  PROVE  \/ /\ UNCHANGED <<signer, was, loaded>>
            /\ proc'[p].at \notin {"keys", "manifest", "find", "check", "run"}
         \/ (\E k \in KeyId, key \in Key : TrustSigner(p, k, key))
         \/ (\E k \in KeyId : PutSigner(p, k)) \/ HashFile(p) \/ BeginLoad(p)
         \/ ReadSigners(p) \/ ReadManifest(p) \/ ReadSignature(p) \/ Verify(p) \/ RunPlugin(p)
<1> DEFINE Goal == UNCHANGED <<signer, was, loaded>>
                   /\ proc'[p].at \notin {"keys", "manifest", "find", "check", "run"}
<1> USE DEF keyring, database, plugin, Fresh, Over
<1>a. proc[p] \in Work /\ DOMAIN proc = Proc
  BY DEF TrustTypeOK
<1>1. ASSUME NEW k \in KeyId, NEW key \in Key, Generate(p, k, key)  PROVE Goal
  BY <1>1, <1>a DEF Generate, Starts
<1>2. ASSUME WriteKey(p)  PROVE Goal
  BY <1>2, <1>a DEF WriteKey, Goes
<1>3. ASSUME ReadFile(p)  PROVE Goal
  BY <1>3, <1>a DEF ReadFile
<1>4. ASSUME Truncate(p)  PROVE Goal
  BY <1>4, <1>a DEF Truncate, Goes
<1>5. ASSUME Fill(p)  PROVE Goal
  BY <1>5, <1>a DEF Fill, Ends, Upserted
<1>6. ASSUME NEW keys \in Entries, Import(p, keys)  PROVE Goal
  BY <1>6, <1>a DEF Import, Starts, Names
<1>7. ASSUME PutVendor(p)  PROVE Goal
  BY <1>7, <1>a DEF PutVendor, Goes
<1>8. ASSUME ReplaceKeys(p)  PROVE Goal
  BY <1>8, <1>a DEF ReplaceKeys, Ends, Replaced, Names
<1>9. ASSUME Scaffold(p)  PROVE Goal
  BY <1>9, <1>a DEF Scaffold, Starts
<1>10. ASSUME MakeDir(p)  PROVE Goal
  BY <1>10, <1>a DEF MakeDir
<1>11. ASSUME PutFile(p)  PROVE Goal
  BY <1>11, <1>a DEF PutFile
<1>12. ASSUME PutDone(p)  PROVE Goal
  BY <1>12, <1>a, PutDoneAt DEF PutDone
<1>13. ASSUME NEW k \in KeyId, Sign(p, k)  PROVE Goal
  BY <1>13, <1>a DEF Sign, Starts, Signing, Signs
<1>14. ASSUME WriteSignature(p)  PROVE Goal
  BY <1>14, <1>a DEF WriteSignature, Ends, Hash
<1>15. ASSUME Stops(p)  PROVE Goal
  BY <1>15, <1>a DEF Stops, Ends
<1>16. QED
  BY <1>1, <1>2, <1>3, <1>4, <1>5, <1>6, <1>7, <1>8, <1>9, <1>10, <1>11, <1>12, <1>13, <1>14,
     <1>15
     DEF Step

\* What a load knows of the signers, as others go on.
LEMMA LoadStays ==
  ASSUME NEW q \in Proc, LoadOK(proc[q]), proc'[q] = proc[q], was \subseteq was',
         \A k \in KeyId : signer[k] # Absent => signer'[k] # Absent
  PROVE  LoadOK(proc[q])'
BY DEF LoadOK

\* Signers only grow, and what a load trusts under a name was once one.
LEMMA SignerMoves ==
  ASSUME ConstantsOK, TrustTypeOK, TrustTypeOK', SignerInv, NEW p \in Proc, ReadOK(proc[p]),
         ImportOK(proc[p]), Moved(p), Step(p)
  PROVE  /\ LoadOK(proc[p])'
         /\ was \subseteq was' /\ \A k \in KeyId : signer[k] # Absent => signer'[k] # Absent
         /\ (\A k \in KeyId : signer[k] # Absent => <<k, signer[k]>> \in was)'
         /\ ReplacedKeyRefused'
<1> DEFINE Grow == was \subseteq was' /\ \A k \in KeyId : signer[k] # Absent => signer'[k] # Absent
           Recorded == (\A k \in KeyId : signer[k] # Absent => <<k, signer[k]>> \in was)'
           Goal == LoadOK(proc[p])' /\ Grow /\ Recorded /\ ReplacedKeyRefused'
<1> USE DEF keyring, database, plugin, Fresh, Over
<1>a. /\ proc[p] \in Work /\ DOMAIN proc = Proc /\ proc'[p] \in Work
      /\ signer \in Entries /\ sig \in Signature \cup {Absent} /\ Absent \notin Key
  BY DEF TrustTypeOK, ConstantsOK
<1>b. /\ LoadOK(proc[p]) /\ ReplacedKeyRefused
      /\ \A k \in KeyId : signer[k] # Absent => <<k, signer[k]>> \in was
  BY DEF SignerInv
<1>1. CASE UNCHANGED <<signer, was, loaded>> /\ proc'[p].at \notin {"keys", "manifest", "find", "check", "run"}
  <2>1. LoadOK(proc[p])'
    BY <1>1 DEF LoadOK
  <2>2. QED  BY <2>1, <1>1, <1>b DEF ReplacedKeyRefused
<1>2. ASSUME NEW k \in KeyId, NEW key \in Key, TrustSigner(p, k, key)  PROVE Goal
  <2>1. Grow /\ Recorded
    BY <1>2, <1>a, <1>b DEF TrustSigner, Starts, Puts, Work, Entries
  <2>2. LoadOK(proc[p])'
    BY <1>2, <1>a, <1>b DEF TrustSigner, Starts, Puts, Work, Entries, LoadOK
  <2>3. ReplacedKeyRefused'
    BY <1>2, <1>a, <1>b
       DEF TrustSigner, Starts, Puts, Work, LoadOK, ReadOK, Signature,
           ReplacedKeyRefused
  <2>4. QED  BY <2>1, <2>2, <2>3
<1>3. ASSUME NEW k \in KeyId, PutSigner(p, k)  PROVE Goal
  <2>1. Grow /\ Recorded
    BY <1>3, <1>a, <1>b DEF PutSigner, Puts, Work, Entries, ImportOK, Names
  <2>2. LoadOK(proc[p])'
    BY <1>3, <1>a, <1>b DEF PutSigner, Puts, Work, Entries, LoadOK
  <2>3. ReplacedKeyRefused'
    BY <1>3, <1>a, <1>b
       DEF PutSigner, Puts, Work, LoadOK, ReadOK, Signature, ReplacedKeyRefused
  <2>4. QED  BY <2>1, <2>2, <2>3
<1>4. ASSUME HashFile(p)  PROVE Goal
  <2>1. Grow /\ Recorded
    BY <1>4, <1>a, <1>b DEF HashFile, Work, Entries
  <2>2. LoadOK(proc[p])'
    <3>1. /\ proc'[p].at = proc[p].at /\ proc'[p].before = proc[p].before
          /\ proc'[p].keys = proc[p].keys /\ proc'[p].sig = proc[p].sig
          /\ UNCHANGED <<signer, was>>
      BY <1>4, <1>a DEF HashFile, Work
    <3>2. QED  BY <3>1, <1>b DEF LoadOK
  <2>3. ReplacedKeyRefused'
    BY <1>4, <1>a, <1>b
       DEF HashFile, Work, LoadOK, ReadOK, Signature, ReplacedKeyRefused
  <2>4. QED  BY <2>1, <2>2, <2>3
<1>5. ASSUME BeginLoad(p)  PROVE Goal
  <2>1. Grow /\ Recorded
    BY <1>5, <1>a, <1>b DEF BeginLoad, Starts, Work, Entries
  <2>2. LoadOK(proc[p])'
    BY <1>5, <1>a, <1>b DEF BeginLoad, Starts, Work, Entries, LoadOK
  <2>3. ReplacedKeyRefused'
    BY <1>5, <1>a, <1>b
       DEF BeginLoad, Starts, Work, LoadOK, ReadOK, Signature, ReplacedKeyRefused
  <2>4. QED  BY <2>1, <2>2, <2>3
<1>6. ASSUME ReadSigners(p)  PROVE Goal
  <2>1. Grow /\ Recorded
    BY <1>6, <1>a, <1>b DEF ReadSigners, Trusted, Work, Entries
  <2>2. LoadOK(proc[p])'
    BY <1>6, <1>a, <1>b DEF ReadSigners, Trusted, Work, Entries, LoadOK
  <2>3. ReplacedKeyRefused'
    BY <1>6, <1>a, <1>b
       DEF ReadSigners, Trusted, Work, LoadOK, ReadOK, Signature, ReplacedKeyRefused
  <2>4. QED  BY <2>1, <2>2, <2>3
<1>7. ASSUME ReadSignature(p)  PROVE Goal
  <2>1. Grow /\ Recorded
    BY <1>7, <1>a, <1>b DEF ReadSignature, Work, Entries
  <2>2. LoadOK(proc[p])'
    BY <1>7, <1>a, <1>b
       DEF ReadSignature, Work, Entries, LoadOK, ReadOK, Signature, Verified
  <2>3. ReplacedKeyRefused'
    BY <1>7, <1>a, <1>b
       DEF ReadSignature, Work, LoadOK, ReadOK, Signature, ReplacedKeyRefused
  <2>4. QED  BY <2>1, <2>2, <2>3
<1>8. ASSUME Verify(p)  PROVE Goal
  <2>1. Grow /\ Recorded
    BY <1>8, <1>a, <1>b DEF Verify, Goes, Work, Entries
  <2>2. LoadOK(proc[p])'
    BY <1>8, <1>a, <1>b
       DEF Verify, Goes, Work, Entries, LoadOK, ReadOK, Signature, Verified
  <2>3. ReplacedKeyRefused'
    BY <1>8, <1>a, <1>b
       DEF Verify, Goes, Work, LoadOK, ReadOK, Signature, ReplacedKeyRefused
  <2>4. QED  BY <2>1, <2>2, <2>3
<1>9. ASSUME RunPlugin(p)  PROVE Goal
  <2>1. Grow /\ Recorded
    BY <1>9, <1>a, <1>b DEF RunPlugin, Ends, Work, Entries
  <2>2. LoadOK(proc[p])'
    BY <1>9, <1>a, <1>b DEF RunPlugin, Ends, Work, Entries, LoadOK
  <2>3. ReplacedKeyRefused'
    BY <1>9, <1>a, <1>b
       DEF RunPlugin, Ends, Work, LoadOK, ReadOK, Signature, ReplacedKeyRefused
  <2>4. QED  BY <2>1, <2>2, <2>3
<1>10. ASSUME ReadManifest(p)  PROVE Goal
  <2>1. Grow /\ Recorded
    BY <1>10, <1>a, <1>b DEF ReadManifest, Work, Entries
  <2>2. LoadOK(proc[p])'
    BY <1>10, <1>a, <1>b DEF ReadManifest, Work, Entries, LoadOK
  <2>3. ReplacedKeyRefused'
    BY <1>10, <1>a, <1>b
       DEF ReadManifest, Work, LoadOK, ReadOK, Signature, ReplacedKeyRefused
  <2>4. QED  BY <2>1, <2>2, <2>3
<1>11. QED
  BY <1>1, <1>2, <1>3, <1>4, <1>5, <1>6, <1>7, <1>8, <1>9, <1>10, SignerElsewhere

\* Every other step leaves the signers and the vendor, and is of no import.
LEMMA VendorElsewhere ==
  ASSUME TrustTypeOK, NEW p \in Proc, Moved(p), Step(p)
  PROVE  \/ UNCHANGED <<signer, vendor, lists>> /\ proc'[p].at \notin {"import", "vendor"}
         \/ (\E k \in KeyId, key \in Key : TrustSigner(p, k, key))
         \/ (\E keys \in Entries : Import(p, keys))
         \/ (\E k \in KeyId : PutSigner(p, k)) \/ PutVendor(p) \/ ReplaceKeys(p)
<1> DEFINE Goal == UNCHANGED <<signer, vendor, lists>> /\ proc'[p].at \notin {"import", "vendor"}
<1> USE DEF keyring, database, plugin, Fresh, Over
<1>a. proc[p] \in Work /\ DOMAIN proc = Proc
  BY DEF TrustTypeOK
<1>1. ASSUME NEW k \in KeyId, NEW key \in Key, Generate(p, k, key)  PROVE Goal
  BY <1>1, <1>a DEF Generate, Starts
<1>2. ASSUME WriteKey(p)  PROVE Goal
  BY <1>2, <1>a DEF WriteKey, Goes
<1>3. ASSUME ReadFile(p)  PROVE Goal
  BY <1>3, <1>a DEF ReadFile
<1>4. ASSUME Truncate(p)  PROVE Goal
  BY <1>4, <1>a DEF Truncate, Goes
<1>5. ASSUME Fill(p)  PROVE Goal
  BY <1>5, <1>a DEF Fill, Ends, Upserted
<1>6. ASSUME Scaffold(p)  PROVE Goal
  BY <1>6, <1>a DEF Scaffold, Starts
<1>7. ASSUME MakeDir(p)  PROVE Goal
  BY <1>7, <1>a DEF MakeDir
<1>8. ASSUME PutFile(p)  PROVE Goal
  BY <1>8, <1>a DEF PutFile
<1>9. ASSUME PutDone(p)  PROVE Goal
  BY <1>9, <1>a, PutDoneAt DEF PutDone
<1>10. ASSUME NEW k \in KeyId, Sign(p, k)  PROVE Goal
  BY <1>10, <1>a DEF Sign, Starts, Signing, Signs
<1>11. ASSUME HashFile(p)  PROVE Goal
  BY <1>11, <1>a DEF HashFile
<1>12. ASSUME WriteSignature(p)  PROVE Goal
  BY <1>12, <1>a DEF WriteSignature, Ends, Hash
<1>13. ASSUME BeginLoad(p)  PROVE Goal
  BY <1>13, <1>a DEF BeginLoad, Starts
<1>14. ASSUME ReadSigners(p)  PROVE Goal
  BY <1>14, <1>a DEF ReadSigners, Trusted
<1>15. ASSUME ReadSignature(p)  PROVE Goal
  BY <1>15, <1>a DEF ReadSignature
<1>16. ASSUME Verify(p)  PROVE Goal
  BY <1>16, <1>a DEF Verify, Goes
<1>17. ASSUME RunPlugin(p)  PROVE Goal
  BY <1>17, <1>a DEF RunPlugin, Ends
<1>18. ASSUME Stops(p)  PROVE Goal
  BY <1>18, <1>a DEF Stops, Ends
<1>19. ASSUME ReadManifest(p)  PROVE Goal
  BY <1>19, <1>a DEF ReadManifest
<1>20. QED
  BY <1>1, <1>2, <1>3, <1>4, <1>5, <1>6, <1>7, <1>8, <1>9, <1>10, <1>11, <1>12, <1>13, <1>14,
     <1>15, <1>16, <1>17, <1>18, <1>19
     DEF Step

\* What an import has done, as others go on.
LEMMA ImportStays ==
  ASSUME NEW q \in Proc, ImportOK(proc[q]), proc'[q] = proc[q], lists \subseteq lists',
         \A k \in KeyId : signer[k] # Absent => signer'[k] # Absent,
         vendor.there => vendor'.there
  PROVE  ImportOK(proc[q])'
BY DEF ImportOK, Names

\* An import writes its signers before the vendor, and all its keys at once.
LEMMA VendorMoves ==
  ASSUME ConstantsOK, TrustTypeOK, TrustTypeOK', VendorInv, NEW p \in Proc, Moved(p), Step(p),
         \A k \in KeyId : signer[k] # Absent => signer'[k] # Absent
  PROVE  /\ ImportOK(proc[p])'
         /\ lists \subseteq lists' /\ (vendor.there => vendor'.there)
         /\ VendorsHold'
<1> DEFINE Grow == lists \subseteq lists' /\ (vendor.there => vendor'.there)
           Goal == ImportOK(proc[p])' /\ Grow /\ VendorsHold'
<1> USE DEF keyring, database, plugin, Fresh, Over
<1>a. /\ proc[p] \in Work /\ DOMAIN proc = Proc /\ proc'[p] \in Work
      /\ signer \in Entries /\ vendor \in [there : BOOLEAN, keys : SUBSET KeyId]
      /\ Absent \notin Key
  BY DEF TrustTypeOK, ConstantsOK
<1>b. ImportOK(proc[p]) /\ VendorsHold
  BY DEF VendorInv
<1>1. CASE UNCHANGED <<signer, vendor, lists>> /\ proc'[p].at \notin {"import", "vendor"}
  <2>1. ImportOK(proc[p])'
    BY <1>1 DEF ImportOK
  <2>2. QED  BY <2>1, <1>1, <1>b DEF VendorsHold, VendorKeysTrusted, VendorWhole
<1>2. ASSUME NEW k \in KeyId, NEW key \in Key, TrustSigner(p, k, key)  PROVE Goal
  <2>1. Grow
    BY <1>2, <1>a DEF TrustSigner, Starts, Puts
  <2>2. ImportOK(proc[p])'
    BY <1>2, <1>a, <1>b
       DEF TrustSigner, Starts, Puts, Work, Entries, ImportOK, Names
  <2>3. VendorsHold'
    BY <1>2, <1>a, <1>b
       DEF TrustSigner, Starts, Puts, ImportOK, Names, VendorsHold,
           VendorKeysTrusted, VendorWhole
  <2>4. QED  BY <2>1, <2>2, <2>3
<1>3. ASSUME NEW keys \in Entries, Import(p, keys)  PROVE Goal
  <2>1. Grow
    BY <1>3, <1>a DEF Import, Starts, Names
  <2>2. ImportOK(proc[p])'
    BY ZenonT(40), <1>3, <1>a, <1>b DEF Import, Starts, Names, Work, Entries, ImportOK, Names
  <2>3. VendorsHold'
    BY <1>3, <1>a, <1>b
       DEF Import, Starts, Names, ImportOK, Names, VendorsHold,
           VendorKeysTrusted, VendorWhole
  <2>4. QED  BY <2>1, <2>2, <2>3
<1>4. ASSUME NEW k \in KeyId, PutSigner(p, k)  PROVE Goal
  <2>1. Grow
    BY <1>4, <1>a DEF PutSigner, Puts
  <2>2. ImportOK(proc[p])'
    BY <1>4, <1>a, <1>b DEF PutSigner, Puts, Work, Entries, ImportOK, Names
  <2>3. VendorsHold'
    BY <1>4, <1>a, <1>b
       DEF PutSigner, Puts, ImportOK, Names, VendorsHold, VendorKeysTrusted,
           VendorWhole
  <2>4. QED  BY <2>1, <2>2, <2>3
<1>5. ASSUME PutVendor(p)  PROVE Goal
  <2>1. Grow
    BY <1>5, <1>a DEF PutVendor, Goes
  <2>2. ImportOK(proc[p])'
    BY <1>5, <1>a, <1>b
       DEF PutVendor, Goes, Work, Entries, ImportOK, Names, Imported
  <2>3. VendorsHold'
    BY <1>5, <1>a, <1>b
       DEF PutVendor, Goes, ImportOK, Names, VendorsHold, VendorKeysTrusted,
           VendorWhole
  <2>4. QED  BY <2>1, <2>2, <2>3
<1>6. ASSUME ReplaceKeys(p)  PROVE Goal
  <2>1. Grow
    BY <1>6, <1>a DEF ReplaceKeys, Ends, Replaced, Names
  <2>2. ImportOK(proc[p])'
    BY <1>6, <1>a, <1>b
       DEF ReplaceKeys, Ends, Replaced, Names, Work, Entries, ImportOK, Names
  <2>3. VendorsHold'
    BY <1>6, <1>a, <1>b
       DEF ReplaceKeys, Ends, Replaced, Names, ImportOK, Names, VendorsHold,
           VendorKeysTrusted, VendorWhole
  <2>4. QED  BY <2>1, <2>2, <2>3
<1>7. QED
  BY <1>1, <1>2, <1>3, <1>4, <1>5, <1>6, VendorElsewhere

\* Every other step leaves the keys and is of no run of gen-signing-key.
LEMMA KeyElsewhere ==
  ASSUME TrustTypeOK, NEW p \in Proc, Moved(p), Step(p)
  PROVE  \/ UNCHANGED <<priv, file, mixed>> /\ ~Generating(p) /\ ~Generating(p)'
         \/ (\E k \in KeyId, key \in Key : Generate(p, k, key)) \/ WriteKey(p)
         \/ ReadFile(p) \/ Truncate(p) \/ Fill(p) \/ Stops(p)
<1> DEFINE Goal == UNCHANGED <<priv, file, mixed>> /\ ~Generating(p) /\ ~Generating(p)'
<1> USE DEF Generating, keyring, database, plugin, Fresh, Over
<1>a. proc[p] \in Work /\ DOMAIN proc = Proc
  BY DEF TrustTypeOK
<1>1. ASSUME NEW k \in KeyId, NEW key \in Key, TrustSigner(p, k, key)  PROVE Goal
  BY <1>1, <1>a DEF TrustSigner, Starts, Puts
<1>2. ASSUME NEW keys \in Entries, Import(p, keys)  PROVE Goal
  BY <1>2, <1>a DEF Import, Starts, Names
<1>3. ASSUME NEW k \in KeyId, PutSigner(p, k)  PROVE Goal
  BY <1>3, <1>a DEF PutSigner, Puts
<1>4. ASSUME PutVendor(p)  PROVE Goal
  BY <1>4, <1>a DEF PutVendor, Goes
<1>5. ASSUME ReplaceKeys(p)  PROVE Goal
  BY <1>5, <1>a DEF ReplaceKeys, Ends, Replaced, Names
<1>6. ASSUME Scaffold(p)  PROVE Goal
  BY <1>6, <1>a DEF Scaffold, Starts
<1>7. ASSUME MakeDir(p)  PROVE Goal
  BY <1>7, <1>a DEF MakeDir
<1>8. ASSUME PutFile(p)  PROVE Goal
  BY <1>8, <1>a DEF PutFile
<1>9. ASSUME PutDone(p)  PROVE Goal
  BY <1>9, <1>a, PutDoneAt DEF PutDone
<1>10. ASSUME NEW k \in KeyId, Sign(p, k)  PROVE Goal
  BY <1>10, <1>a DEF Sign, Starts, Signing, Signs
<1>11. ASSUME HashFile(p)  PROVE Goal
  BY <1>11, <1>a DEF HashFile
<1>12. ASSUME WriteSignature(p)  PROVE Goal
  BY <1>12, <1>a DEF WriteSignature, Ends, Hash
<1>13. ASSUME BeginLoad(p)  PROVE Goal
  BY <1>13, <1>a DEF BeginLoad, Starts
<1>14. ASSUME ReadSigners(p)  PROVE Goal
  BY <1>14, <1>a DEF ReadSigners, Trusted
<1>15. ASSUME ReadSignature(p)  PROVE Goal
  BY <1>15, <1>a DEF ReadSignature
<1>16. ASSUME Verify(p)  PROVE Goal
  BY <1>16, <1>a DEF Verify, Goes
<1>17. ASSUME RunPlugin(p)  PROVE Goal
  BY <1>17, <1>a DEF RunPlugin, Ends
<1>18. ASSUME ReadManifest(p)  PROVE Goal
  BY <1>18, <1>a DEF ReadManifest
<1>19. QED
  BY <1>1, <1>2, <1>3, <1>4, <1>5, <1>6, <1>7, <1>8, <1>9, <1>10, <1>11, <1>12, <1>13, <1>14,
     <1>15, <1>16, <1>17, <1>18
     DEF Step

\* What is not mixed is written by one run from its begin to its end.
LEMMA KeyMoves ==
  ASSUME TrustTypeOK, TrustTypeOK', KeyInv, NEW p \in Proc, Moved(p), Step(p)
  PROVE  KeyInv'
<1> DEFINE Keys == \A q \in Proc : KeyOK(proc[q])
           Overlap == \A q, r \in Proc : Generating(q) /\ Generating(r) /\ q # r => proc[q].id \in mixed
           Goal == Keys' /\ Overlap' /\ KeyFilesTrusted'
<1> USE DEF Generating, Fresh, Over
<1>a. /\ \A q \in Proc : proc[q] \in Work
      /\ DOMAIN proc = Proc /\ proc'[p] \in Work
      /\ priv \in [KeyId -> Key \cup {Absent, Torn}]
      /\ \A q \in Proc \ {p} : proc'[q] = proc[q]
  BY DEF TrustTypeOK, Moved
<1>b. Keys /\ Overlap /\ KeyFilesTrusted
  BY DEF KeyInv
<1>1. CASE UNCHANGED <<priv, file, mixed>> /\ ~Generating(p) /\ ~Generating(p)'
  <2>1. Keys'
    BY <1>1, <1>a, <1>b DEF KeyOK
  <2>2. Overlap'
    BY <1>1, <1>a, <1>b
  <2>3. KeyFilesTrusted'
    BY <1>1, <1>a, <1>b DEF KeyFilesTrusted
  <2>4. QED  BY <2>1, <2>2, <2>3 DEF KeyInv
<1>2. ASSUME NEW k \in KeyId, NEW key \in Key, Generate(p, k, key)  PROVE Goal
  <2>1. Keys'
    BY <1>2, <1>a, <1>b DEF Generate, Starts, KeyOK, Work
  <2>2. Overlap'
    <3>1. /\ proc[p].at = "idle" /\ proc'[p].at = "key" /\ proc'[p].id = k
          /\ mixed \subseteq mixed'
      BY <1>2, <1>a DEF Generate, Starts
    <3>2. ASSUME NEW q \in Proc, Generating(q)  PROVE proc[q].id \in mixed' /\ k \in mixed'
      <4> DEFINE others == {proc[r].id : r \in {g \in Proc : Generating(g)}}
      <4>1. proc[q].id \in others
        BY <3>2
      <4>2. mixed' = mixed \cup (IF others = {} THEN {} ELSE others \cup {k})
        BY <1>2 DEF Generate
      <4>3. QED  BY <4>1, <4>2
    <3>3. QED  BY <3>1, <3>2, <1>a, <1>b
  <2>3. KeyFilesTrusted'
    BY <1>2, <1>a, <1>b DEF Generate, Starts, Work, KeyOK, Entries, KeyFilesTrusted
  <2>4. QED  BY <2>1, <2>2, <2>3
<1>3. ASSUME WriteKey(p)  PROVE Goal
  <2>1. Keys'
    BY <1>3, <1>a, <1>b DEF WriteKey, Goes, KeyOK, Work
  <2>2. Overlap'
    BY <1>3, <1>a, <1>b DEF WriteKey, Goes, Work
  <2>3. KeyFilesTrusted'
    BY <1>3, <1>a, <1>b DEF WriteKey, Goes, Work, KeyOK, Entries, KeyFilesTrusted
  <2>4. QED  BY <2>1, <2>2, <2>3
<1>4. ASSUME ReadFile(p)  PROVE Goal
  <2>a. /\ UNCHANGED <<priv, file, mixed>> /\ file # Torn /\ proc[p].at = "read"
        /\ proc'[p].at = "write" /\ proc'[p].keys = file
        /\ proc'[p].id = proc[p].id /\ proc'[p].key = proc[p].key
    BY <1>4, <1>a DEF ReadFile, keyring, Work
  <2>1. Keys'
    <3>1. ASSUME NEW k \in KeyId, k \notin mixed, k # proc[p].id, priv[k] # Absent
          PROVE  file[k] = priv[k]
      <4>1. \A q \in Proc : Generating(q) => proc[q].id # k
        BY <2>a, <3>1, <1>b
      <4>2. QED  BY <2>a, <3>1, <4>1, <1>b DEF KeyFilesTrusted
    <3>2. KeyOK(proc[p])'
      BY <2>a, <3>1, <1>b DEF KeyOK
    <3>3. ASSUME NEW q \in Proc \ {p}  PROVE KeyOK(proc[q])'
      BY <2>a, <1>a, <1>b DEF KeyOK
    <3>4. QED  BY <3>2, <3>3
  <2>2. Overlap'
    BY <2>a, <1>a, <1>b
  <2>3. KeyFilesTrusted'
    <3>1. \A q \in Proc : Generating(q)' <=> Generating(q)
      BY <2>a, <1>a
    <3>2. \A q \in Proc : proc'[q].id = proc[q].id
      BY <2>a, <1>a
    <3> HIDE DEF Generating
    <3>3. QED  BY <2>a, <3>1, <3>2, <1>b DEF KeyFilesTrusted
  <2>4. QED  BY <2>1, <2>2, <2>3
<1>5. ASSUME Truncate(p)  PROVE Goal
  <2>1. Keys'
    BY <1>5, <1>a, <1>b DEF Truncate, Goes, KeyOK, Work
  <2>2. Overlap'
    BY <1>5, <1>a, <1>b DEF Truncate, Goes, Work
  <2>3. KeyFilesTrusted'
    BY <1>5, <1>a, <1>b DEF Truncate, Goes, Work, KeyOK, Entries, KeyFilesTrusted
  <2>4. QED  BY <2>1, <2>2, <2>3
<1>6. ASSUME Fill(p)  PROVE Goal
  <2>1. Keys'
    BY <1>6, <1>a, <1>b DEF Fill, Ends, Upserted, KeyOK, Work
  <2>2. Overlap'
    BY <1>6, <1>a, <1>b DEF Fill, Ends, Upserted, Work
  <2>3. KeyFilesTrusted'
    <3>1. SUFFICES ASSUME file' # Torn, NEW k \in KeyId, priv[k] # Absent, k \notin mixed,
                          \A q \in Proc : Generating(q)' => proc'[q].id # k
                   PROVE  file'[k] = priv[k]
      BY <1>6 DEF Fill, KeyFilesTrusted
    <3>2. file' = [proc[p].keys EXCEPT ![proc[p].id] = proc[p].key]
      BY <1>6, <3>1 DEF Fill, Upserted
    <3>3. proc[p].keys \in Entries /\ proc[p].at = "fill"
      BY <1>6, <1>a DEF Fill, Work
    <3>4. CASE k = proc[p].id
      BY <3>1, <3>2, <3>3, <3>4, <1>b DEF KeyOK, Entries
    <3>5. CASE k # proc[p].id
      BY <3>1, <3>2, <3>3, <3>5, <1>b DEF KeyOK, Entries
    <3>6. QED  BY <3>4, <3>5
  <2>4. QED  BY <2>1, <2>2, <2>3
<1>7. ASSUME Stops(p)  PROVE Goal
  <2>1. Keys'
    BY <1>7, <1>a, <1>b DEF Stops, Ends, KeyOK, Work
  <2>2. Overlap'
    BY <1>7, <1>a, <1>b DEF Stops, Ends, Work
  <2>3. KeyFilesTrusted'
    BY SMTT(30), <1>7, <1>a, <1>b DEF Stops, Ends, Work, KeyOK, Entries, KeyFilesTrusted
  <2>4. QED  BY <2>1, <2>2, <2>3
<1>8. QED
  BY <1>1, <1>2, <1>3, <1>4, <1>5, <1>6, <1>7, KeyElsewhere DEF KeyInv

\* At first nothing is signed, trusted in the database or imported.
LEMMA TrustBegins == ASSUME ConstantsOK, TrustInit PROVE TrustInv
<1>1. TrustTypeOK
  <2>1. NoKeys \in Entries /\ NoFiles \in Files
    BY DEF NoKeys, NoFiles, Entries, Files
  <2>2. priv \in Entries
    BY <2>1 DEF TrustInit, Entries
  <2>3. dir \in Files
    BY <2>1 DEF TrustInit, Files
  <2>4. proc \in [Proc -> Work]
    BY TrustRest DEF TrustInit
  <2>5. QED  BY <2>1, <2>2, <2>3, <2>4 DEF TrustInit, TrustTypeOK, Entries
<1>2. \A p \in Proc : proc[p] = Fresh
  BY DEF TrustInit
<1>3. SignedInv
  BY <1>2 DEF TrustInit, SignedInv, ReadOK, Fresh, SignaturesHold, RunsWhatWasSigned,
              SignatureMatches
<1>4. SignerInv
  BY <1>2 DEF TrustInit, SignerInv, LoadOK, Fresh, ReplacedKeyRefused, NoKeys
<1>5. VendorInv
  BY <1>2 DEF TrustInit, VendorInv, ImportOK, Fresh, VendorsHold, VendorKeysTrusted,
              VendorWhole
<1>6. KeyInv
  BY <1>2 DEF TrustInit, KeyInv, KeyOK, Fresh, Generating, KeyFilesTrusted
<1>7. QED  BY <1>1, <1>3, <1>4, <1>5, <1>6 DEF TrustInv

\* A step of a process: what it does itself, and what the others still know.
LEMMA TrustStep == ASSUME TrustInv, NEW p \in Proc, Step(p) PROVE TrustInv'
<1>1. /\ ConstantsOK /\ TrustTypeOK /\ SignedInv /\ SignerInv /\ VendorInv /\ KeyInv
      /\ \A q \in Proc : /\ proc[q] \in Work /\ ReadOK(proc[q])
                         /\ LoadOK(proc[q]) /\ ImportOK(proc[q])
      /\ writes \in Nat
  BY DEF TrustInv, TrustTypeOK, SignedInv, SignerInv, VendorInv
<1>2. TrustTypeOK' /\ Moved(p)
  BY <1>1, TrustTyped
<1>3. \A q \in Proc \ {p} : proc'[q] = proc[q]
  BY <1>1, <1>2 DEF Moved, TrustTypeOK
<1>4. SignedInv'
  <2>1. /\ ReadOK(proc[p])' /\ signed \subseteq signed'
        /\ UNCHANGED <<dir, writes>> \/ writes' = writes + 1
        /\ (sig # Absent => <<sig.files, sig.key>> \in signed /\ sig.since <= writes)'
        /\ SignaturesHold'
    BY <1>1, <1>2, SignedMoves
  <2>2. ASSUME NEW q \in Proc \ {p}  PROVE ReadOK(proc[q])'
    BY <1>1, <1>3, <2>1, ReadStays
  <2>3. QED  BY <2>1, <2>2 DEF SignedInv
<1>5. /\ LoadOK(proc[p])' /\ was \subseteq was'
      /\ \A k \in KeyId : signer[k] # Absent => signer'[k] # Absent
      /\ (\A k \in KeyId : signer[k] # Absent => <<k, signer[k]>> \in was)'
      /\ ReplacedKeyRefused'
  BY <1>1, <1>2, SignerMoves
<1>6. SignerInv'
  <2>1. ASSUME NEW q \in Proc \ {p}  PROVE LoadOK(proc[q])'
    BY <1>1, <1>3, <1>5, LoadStays
  <2>2. QED  BY <1>5, <2>1 DEF SignerInv
<1>7. VendorInv'
  <2>1. /\ ImportOK(proc[p])' /\ lists \subseteq lists' /\ (vendor.there => vendor'.there)
        /\ VendorsHold'
    BY <1>1, <1>2, <1>5, VendorMoves
  <2>2. ASSUME NEW q \in Proc \ {p}  PROVE ImportOK(proc[q])'
    BY <1>1, <1>3, <1>5, <2>1, ImportStays
  <2>3. QED  BY <2>1, <2>2 DEF VendorInv
<1>8. KeyInv'
  BY <1>1, <1>2, KeyMoves
<1>9. QED  BY <1>1, <1>2, <1>4, <1>6, <1>7, <1>8 DEF TrustInv, ConstantsOK

\* A write by anyone else: whoever reads will find that something was written.
LEMMA EditInv == ASSUME TrustInv, NEW f \in File, Edit(f) PROVE TrustInv'
<1>1. /\ TrustTypeOK /\ SignedInv /\ SignerInv /\ VendorInv /\ KeyInv
      /\ dir' = [dir EXCEPT ![f] = Edited] /\ writes' = writes + 1
      /\ UNCHANGED <<proc, priv, file, signer, vendor, made, sig, loaded, signed, was, lists, mixed>>
  BY DEF TrustInv, Edit, keyring, database
<1>2. TrustTypeOK'
  BY <1>1 DEF TrustTypeOK, Files
<1>3. SignedInv'
  <2>1. ASSUME NEW q \in Proc  PROVE ReadOK(proc[q])'
    BY <1>1, ReadStays DEF SignedInv, TrustTypeOK
  <2>2. QED
    BY <1>1, <2>1 DEF SignedInv, SignaturesHold, RunsWhatWasSigned, SignatureMatches,
                      TrustTypeOK, Signature
<1>4. SignerInv'
  BY <1>1 DEF SignerInv, LoadOK, ReplacedKeyRefused
<1>5. VendorInv'
  BY <1>1 DEF VendorInv, ImportOK, VendorsHold, VendorKeysTrusted, VendorWhole
<1>6. KeyInv'
  BY <1>1 DEF KeyInv, KeyOK, Generating, KeyFilesTrusted
<1>7. QED  BY <1>2, <1>3, <1>4, <1>5, <1>6 DEF TrustInv, ConstantsOK

LEMMA TrustInvariant == TrustSpec => []TrustInv
<1>1. TrustInit => TrustInv
  BY TrustBegins, TrustAssumption
<1>2. TrustInv /\ [TrustNext]_trustVars => TrustInv'
  <2>1. CASE UNCHANGED trustVars
    <3>1. TrustTypeOK /\ SignedInv /\ SignerInv /\ VendorInv /\ KeyInv =>
          TrustTypeOK' /\ SignedInv' /\ SignerInv' /\ VendorInv' /\ KeyInv'
      BY <2>1 DEF trustVars, TrustTypeOK, SignedInv, ReadOK, SignerInv, LoadOK, VendorInv, ImportOK,
                  KeyInv, KeyOK, SignaturesHold, RunsWhatWasSigned, SignatureMatches,
                  ReplacedKeyRefused, VendorsHold, VendorKeysTrusted, VendorWhole,
                  KeyFilesTrusted, Generating
    <3>2. QED  BY <3>1 DEF TrustInv, ConstantsOK
  <2>2. QED  BY <2>1, TrustStep, EditInv DEF TrustNext
<1>3. QED  BY <1>1, <1>2, PTL DEF TrustSpec

\* Every reachable state of Trust is well typed.
THEOREM TrustTypes == TrustSpec => []TrustTypeOK
<1>1. TrustInv => TrustTypeOK
  BY DEF TrustInv
<1>2. QED  BY <1>1, TrustInvariant, PTL

\* The signature beside a plugin and what production runs of it are of files somebody
\* signed, as long as none is written between the check and the script (SignDir,
\* VerifyDirSignature, loadOne).
THEOREM SignedIsWhatRuns == TrustSpec => []SignaturesHold
<1>1. TrustInv => SignaturesHold
  BY DEF TrustInv, SignedInv
<1>2. QED  BY <1>1, TrustInvariant, PTL

\* A key that the database replaced loads nothing, and the keys of the key files are
\* trusted in the file, unless runs of gen-signing-key were cut or overlapped
\* (LoadTrustedKeys, UpsertTrustedKeyFile).
THEOREM TrustedKeysAgree == TrustSpec => []KeysHold
<1>1. TrustInv => KeysHold
  BY DEF TrustInv, SignerInv, KeyInv, KeysHold
<1>2. QED  BY <1>1, TrustInvariant, PTL

\* The keys of a vendor are those of one import, all of them trusted signers, and the
\* vendor is known (TrustVendor, ReplaceTrustedVendorKeys).
THEOREM VendorsAreWhole == TrustSpec => []VendorsHold
<1>1. TrustInv => VendorsHold
  BY DEF TrustInv, VendorInv
<1>2. QED  BY <1>1, TrustInvariant, PTL

==============================================================================
