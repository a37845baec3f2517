---------------------------- MODULE MCGuildsCache ----------------------------
EXTENDS GuildsCache, TLC

Symmetry == Permutations(Caller)
==============================================================================
