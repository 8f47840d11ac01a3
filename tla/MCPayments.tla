---------------------------- MODULE MCPayments ----------------------------
(* How the gateway moves payments in the runs of Payments.                 *)
EXTENDS Payments, TLC

\* Every status the two maps of the controller treat differently.
AllMoves == {<<"waiting", "confirming">>, <<"confirming", "confirmed">>,
             <<"confirmed", "sending">>, <<"sending", "finished">>,
             <<"confirming", "partially_paid">>, <<"partially_paid", "finished">>,
             <<"waiting", "expired">>, <<"confirming", "failed">>}

\* A payment that is confirmed and finished, or expires.
ShortMoves == {<<"waiting", "confirming">>, <<"confirming", "finished">>,
               <<"waiting", "expired">>}

\* A payment that is finished at once.
DirectMoves == {<<"waiting", "finished">>}

Symmetry == Permutations(Handlers) \cup Permutations(Payments) \cup Permutations(Orders)
=============================================================================
