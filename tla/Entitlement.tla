----------------------------- MODULE Entitlement -----------------------------
(***************************************************************************)
(* What the subscriptions promise, the documents and the calls left out:   *)
(* for every user and feature there is a moment until which he may use it. *)
(* A purchase moves that moment by the whole of what was bought, if it is  *)
(* still to come, and else counts from a moment that has come.  A trial    *)
(* is given once, and to nobody who has PREMIUM.                           *)
(***************************************************************************)
EXTENDS Naturals

CONSTANTS Users, Features, Premium, Plans, TrialLength

VARIABLES
  clock,
  until,    \* per user and feature
  paid,     \* per user and feature: how many purchases there were
  tried     \* the users who have had a trial

vars == <<clock, until, paid, tried>>

EntitlementTypeOK ==
  /\ clock \in Nat
  /\ until \in [Users \X Features -> Nat]
  /\ paid \in [Users \X Features -> Nat]
  /\ tried \in SUBSET Users

Later(s, t) == IF s >= t THEN s ELSE t

Init ==
  /\ clock = 0
  /\ until = [uf \in Users \X Features |-> 0]
  /\ paid = [uf \in Users \X Features |-> 0]
  /\ tried = {}

Tick == clock' = clock + 1 /\ UNCHANGED <<until, paid, tried>>

Purchase(u, f) ==
  /\ paid' = [paid EXCEPT ![<<u, f>>] = @ + 1]
  /\ \E d \in Plans, t \in 0 .. clock :
       until' = [until EXCEPT ![<<u, f>>] = IF @ > clock THEN @ + d ELSE Later(@, t + d)]
  /\ UNCHANGED <<clock, tried>>

\* A trial adds nothing to a longer entitlement.
Trial(u, f) ==
  /\ u \notin tried /\ tried' = tried \cup {u}
  /\ until[<<u, Premium>>] <= clock
  /\ \E t \in 0 .. clock : until' = [until EXCEPT ![<<u, f>>] = Later(@, t + TrialLength)]
  /\ UNCHANGED <<clock, paid>>

Next == Tick \/ \E u \in Users, f \in Features : Purchase(u, f) \/ Trial(u, f)

Spec == Init /\ [][Next]_vars
=============================================================================
