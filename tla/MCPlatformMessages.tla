------------------------- MODULE MCPlatformMessages -------------------------
(* Values of the constants for the run of PlatformMessages.                *)
EXTENDS PlatformMessages, TLC

CONSTANTS u1, u2, a1, a2

\* One user came with an account, the other has none yet.
OneLinked == u2 :> a2

Symmetry == Permutations(Handlers) \cup Permutations(Sessions)
=============================================================================
