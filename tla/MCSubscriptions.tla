-------------------------- MODULE MCSubscriptions --------------------------
(* Values of the constants for the runs of Subscriptions.                  *)
EXTENDS Subscriptions, TLC

CONSTANTS u1, u2

\* Two calls of u1 may overlap, those of u2 come one after the other.
Mixed == (u1 :> 2) @@ (u2 :> 1)

Symmetry == Permutations(Handlers)
=============================================================================
