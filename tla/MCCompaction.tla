---------------------------- MODULE MCCompaction ----------------------------
(* Instances of Compaction for TLC. *)
EXTENDS Compaction, TLC

\* levelMaxTablesTrigger: two tables on level 0, one on every other level.
MCTrigger(l) == IF l = 0 THEN 2 ELSE 1

Symmetry == Permutations(Workers)
=============================================================================
