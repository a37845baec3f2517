----------------------------- MODULE MCPluginHost -----------------------------
(* One plugin, in a directory that comes and goes.  Two reloads with a VM     *)
(* each, the host's VM and two that calls hold are five.                      *)
EXTENDS PluginHost, TLC

CONSTANTS a, userA

MCIdOf == userA :> a
===============================================================================
