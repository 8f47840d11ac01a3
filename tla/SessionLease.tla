---------------------------- MODULE SessionLease ----------------------------
(***************************************************************************)
(* What the executor promises of its sessions, timers and calls left out:  *)
(* a user holds at most one session, a session is granted once, to one     *)
(* user, and once released it is spent for good.                           *)
(***************************************************************************)
CONSTANTS Users, Sessions

VARIABLES
  held,     \* per user: the sessions he is running
  spent     \* the sessions that have been stopped

vars == <<held, spent>>

LeaseTypeOK ==
  /\ held \in [Users -> SUBSET Sessions]
  /\ spent \subseteq Sessions

Init ==
  /\ held = [u \in Users |-> {}]
  /\ spent = {}

Grant(u, s) ==
  /\ held[u] = {}
  /\ s \notin spent
  /\ \A v \in Users : s \notin held[v]
  /\ held' = [held EXCEPT ![u] = {s}]
  /\ UNCHANGED spent

Release(u) ==
  /\ held[u] # {}
  /\ held' = [held EXCEPT ![u] = {}]
  /\ spent' = spent \cup held[u]

Next == \E u \in Users : Release(u) \/ \E s \in Sessions : Grant(u, s)

Spec == Init /\ [][Next]_vars
=============================================================================
