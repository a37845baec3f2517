---------------------------- MODULE MCReminders ----------------------------
(* Small instances of Reminders for TLC. *)
EXTENDS RemindersProofs, TLC

\* Processes, lease ids and rows of one kind are interchangeable.
Symmetry == Permutations(Process) \cup Permutations(LeaseId)
=============================================================================
