------------------------------- MODULE MCTrust -------------------------------
EXTENDS Trust, TLC

\* Processes, names of keys and keys are interchangeable.
Symmetry == Permutations(Proc) \cup Permutations(KeyId) \cup Permutations(Key)
==============================================================================
