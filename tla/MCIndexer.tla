----------------------------- MODULE MCIndexer -----------------------------
(* Instances of the event-listener for TLC. *)
EXTENDS IndexerProperties

CONSTANTS t1, t2

TaskSymmetry == Permutations(Tasks)
=============================================================================
