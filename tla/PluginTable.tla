----------------------------- MODULE PluginTable -----------------------------
(***************************************************************************)
(* What the plugin host promises its callers, without directories, reloads *)
(* or locks.  A VM is made, serves one plugin in the table, is retired and *)
(* then unused again.  The table is replaced as a whole, by VMs that never *)
(* served before; a call that looked its plugin up may still run in a VM   *)
(* that was retired meanwhile, alone, and is turned away only once that VM *)
(* is unused.  A VM somebody is in does not become unused.                 *)
(***************************************************************************)
EXTENDS FiniteSets

CONSTANTS Plugin, VM, NoVM, Caller

VARIABLES
    table,    \* the VM of each plugin
    fresh,    \* VMs made for a later table
    retired,  \* VMs of earlier tables
    held,     \* the VM each call looked up
    inside    \* calls that run

vars == <<table, fresh, retired, held, inside>>

VMsOf(t) == {t[p] : p \in Plugin} \ {NoVM}

Init ==
    /\ table = [p \in Plugin |-> NoVM]
    /\ fresh = {} /\ retired = {}
    /\ held = [c \in Caller |-> NoVM] /\ inside = {}

Open == VMsOf(table) \cup fresh \cup retired

Make(v) ==
    /\ v \notin Open
    /\ \A c \in Caller : held[c] # v
    /\ fresh' = fresh \cup {v}
    /\ UNCHANGED <<table, retired, held, inside>>

Replace(new) ==
    /\ VMsOf(new) \subseteq fresh
    /\ \A p, q \in Plugin : new[p] = new[q] /\ new[p] # NoVM => p = q
    /\ table' = new
    /\ fresh' = fresh \ VMsOf(new)
    /\ retired' = retired \cup VMsOf(table)
    /\ UNCHANGED <<held, inside>>

Reuse(v) ==
    /\ v \in retired
    /\ \A c \in inside : held[c] # v
    /\ retired' = retired \ {v}
    /\ UNCHANGED <<table, fresh, held, inside>>

Look(c, p) ==
    /\ held[c] = NoVM /\ table[p] # NoVM
    /\ held' = [held EXCEPT ![c] = table[p]]
    /\ UNCHANGED <<table, fresh, retired, inside>>

Enter(c) ==
    /\ held[c] \in VMsOf(table) \cup retired
    /\ \A d \in inside : held[d] # held[c]
    /\ inside' = inside \cup {c}
    /\ UNCHANGED <<table, fresh, retired, held>>

TurnAway(c) ==
    /\ held[c] # NoVM /\ held[c] \notin Open
    /\ held' = [held EXCEPT ![c] = NoVM]
    /\ UNCHANGED <<table, fresh, retired, inside>>

Return(c) ==
    /\ c \in inside
    /\ inside' = inside \ {c}
    /\ held' = [held EXCEPT ![c] = NoVM]
    /\ UNCHANGED <<table, fresh, retired>>

Next ==
    \/ \E v \in VM : Make(v) \/ Reuse(v)
    \/ \E new \in [Plugin -> VM \cup {NoVM}] : Replace(new)
    \/ \E c \in Caller : Enter(c) \/ TurnAway(c) \/ Return(c) \/ \E p \in Plugin : Look(c, p)

Spec == Init /\ [][Next]_vars

=============================================================================
