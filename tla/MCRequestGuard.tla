--------------------------- MODULE MCRequestGuard ---------------------------
(* TLC instances of RequestGuard. *)
EXTENDS RequestGuard, TLC

Symmetry == Permutations(Request) \cup Permutations(Key) \cup Permutations(Checks)
=============================================================================
