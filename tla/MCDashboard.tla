----------------------------- MODULE MCDashboard -----------------------------
(* One user in two browsers: for a user it is the same whether the owner is   *)
(* somebody else or nobody (none is configured).                              *)
EXTENDS Dashboard, TLC

\* Browsers, guilds, requests, states and sessions are interchangeable.
Symmetry ==
    Permutations(Browser) \cup Permutations(Guild) \cup Permutations(Request)
        \cup Permutations(State) \cup Permutations(Session)
==============================================================================
