--------------------------- MODULE MCPolicyPlane ---------------------------
(* TLC instances of PolicyPlane: two versions, the second revoking.         *)
EXTENDS PolicyPlane, TLC

CONSTANTS k1, k2

(* Version 1 allows every call, version 2 only k2. *)
MCAllowedBy == [v \in Version |-> IF v = 1 THEN Call ELSE Call \ {k1}]

Symmetry == Permutations(Caller)
=============================================================================
