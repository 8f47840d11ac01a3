------------------------ MODULE MCExecutorSessions ------------------------
(* Values of the constants for the runs of ExecutorSessions.               *)
EXTENDS ExecutorSessions, TLC

CONSTANTS u1, u2

AnyOverlap == {{a, b} : a, b \in Kinds}

\* A start overlaps no other call of its user.
StartsAlone == {p \in AnyOverlap : "start" \notin p}

\* Two starts overlap, and timers and overdue stops come amid them.
StartsOverlap == {{"start"}, {"start", "auto"}, {"start", "overdue"}}

\* One user of each sort.
Mixed == (u1 :> StartsAlone) @@ (u2 :> StartsOverlap)

\* Requests of one user come one after the other; a timer fires when it will.
RequestsApart == [u \in Users |-> {{a, b} : a \in Kinds, b \in {"auto", "overdue"}}]
=============================================================================
