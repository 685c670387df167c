------------------------------ MODULE ToolGate ------------------------------
(***************************************************************************)
(* What response-side enforcement promises for the tool calls of a model's *)
(* answer: every call is held back when it appears, its fate is settled    *)
(* once and for good (its frames are passed on, or replaced by a notice),  *)
(* and the consumer's stream is only completed when no call is still held. *)
(* A failed upstream ends the stream at any time.                          *)
(***************************************************************************)
CONSTANT Calls

VARIABLES
    fate,    \* of each call: absent, held, passed or replaced
    stream   \* open, done or failed

gateVars == <<fate, stream>>

GateInit == fate = [c \in Calls |-> "absent"] /\ stream = "open"

Hold(c) ==
    /\ stream # "done" /\ fate[c] = "absent"
    /\ fate' = [fate EXCEPT ![c] = "held"] /\ UNCHANGED stream

Settle(c) ==
    /\ stream # "done" /\ fate[c] = "held"
    /\ \E f \in {"passed", "replaced"} : fate' = [fate EXCEPT ![c] = f]
    /\ UNCHANGED stream

Complete ==
    /\ stream = "open" /\ \A c \in Calls : fate[c] # "held"
    /\ stream' = "done" /\ UNCHANGED fate

Fail == stream = "open" /\ stream' = "failed" /\ UNCHANGED fate

GateNext == Complete \/ Fail \/ \E c \in Calls : Hold(c) \/ Settle(c)

GateSpec == GateInit /\ [][GateNext]_gateVars
=============================================================================
