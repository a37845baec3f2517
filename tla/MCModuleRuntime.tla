--------------------------- MODULE MCModuleRuntime ---------------------------
(* Two plugins that declare a command in common, in opposite orders of        *)
(* directory and id; p2 is on by default and has a job, p1 is off.            *)
EXTENDS ModuleRuntime, TLC

CONSTANTS p1, p2, own1, own2, both

MCCmdOf == p1 :> {own1, both} @@ p2 :> {own2, both}

MCLoadRank == p1 :> 1 @@ p2 :> 2
MCIdRank == p1 :> 2 @@ p2 :> 1
==============================================================================
