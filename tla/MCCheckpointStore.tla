------------------------- MODULE MCCheckpointStore -------------------------
(* Managers are interchangeable: no property names one.                     *)
EXTENDS CheckpointStore, TLC

Managers == Permutations(Manager)
=============================================================================
