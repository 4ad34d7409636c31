-------------------------- MODULE MCMaintenanceLock --------------------------
(* Bounded instance of MaintenanceLock.                                     *)
EXTENDS MaintenanceLock, TLC

RunSymmetry == Permutations(Runs)
=============================================================================
