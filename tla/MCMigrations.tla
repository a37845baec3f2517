---------------------------- MODULE MCMigrations ----------------------------
(* Two releases: the first migration alone, and two with the first edited.    *)
EXTENDS Migrations, TLC

CONSTANTS init, edited, second

\* Copied file by file, the two leave every directory of the two versions.
MCRelease == {<<init, None>>, <<edited, second>>}
Symmetry == Permutations(Runner)
=============================================================================
