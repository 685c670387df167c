--------------------------- MODULE MCAuditBuffer ---------------------------
(* TLC instances of AuditBuffer. *)
EXTENDS AuditBuffer, TLC
=============================================================================
