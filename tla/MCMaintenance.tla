-------------------------- MODULE MCMaintenance --------------------------
(* Symmetry of the slots for the runs of Maintenance.                      *)
EXTENDS Maintenance, TLC

Symmetry == Permutations(Readers) \cup Permutations(Setters)
=============================================================================
