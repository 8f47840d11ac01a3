------------------------------ MODULE MCAccounts ------------------------------
(* Values of the constants for the runs of Accounts.                       *)
EXTENDS Accounts, TLC

CONSTANTS e1, e2

\* e2, typed, finds the stored e1 too, and not the other way round.
OneDotted == {<<a, a>> : a \in Emails} \cup {<<e2, e1>>}

Symmetry == Permutations(Handlers) \cup Permutations(Subs)
=============================================================================
