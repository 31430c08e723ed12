--------------------------- MODULE MCSandboxRepair ---------------------------
(* Processes are interchangeable: no property names one, and the liveness   *)
(* runs, where symmetry is unsound, have a single process.                 *)
EXTENDS SandboxRepair, TLC

Processes == Permutations(Worker)
=============================================================================
