---------------------------- MODULE MCMigration ----------------------------
(* Migration for TLC.  The nodes other than the first are interchangeable.   *)
EXTENDS Migration, TLC

NodeSymmetry == Permutations(Nodes \ {First})
=============================================================================
