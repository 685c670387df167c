-------------------------- MODULE MCStreamEnforcer --------------------------
(* TLC instances of StreamEnforcer. *)
EXTENDS StreamEnforcer, TLC
=============================================================================
