--------------------------- MODULE CircuitBreaker ---------------------------
(***************************************************************************)
(* CircuitBreaker (frameworks/express/circuit-breaker.ts), the breaker the *)
(* Express, Fastify, NestJS and Next.js guards share in front of           *)
(* simulatePolicy.  Its methods are synchronous: each is one action of the *)
(* guard that calls it.                                                    *)
(*                                                                         *)
(* `failures` saturates at the threshold: the code only compares it with   *)
(* the threshold.  `openLeft` is what remains of resetTimeoutMs since      *)
(* `_openedAt`, so the timeout has elapsed exactly when it is 0.           *)
(***************************************************************************)
EXTENDS Naturals

CONSTANTS
    Threshold,     \* failureThreshold
    ResetTimeout   \* resetTimeoutMs, in ticks

ASSUME BreakerAssumption == Threshold \in Nat \ {0} /\ ResetTimeout \in Nat

VARIABLES bState, failures, openLeft, probing

breakerVars == <<bState, failures, openLeft, probing>>

BreakerInit ==
    /\ bState = "closed" /\ failures = 0
    /\ openLeft = 0 /\ probing = FALSE

(* shouldSkip() returns false: the circuit is closed, or it is open, its   *)
(* timeout is over and nobody probes.                                      *)
MayProbe == bState = "open" /\ openLeft = 0 /\ ~probing
Admits   == bState = "closed" \/ MayProbe

(* What shouldSkip() leaves behind when it returns false. *)
Admit ==
    /\ bState' = IF MayProbe THEN "half-open" ELSE bState
    /\ probing' = (MayProbe \/ probing)
    /\ UNCHANGED <<failures, openLeft>>

recordSuccess ==
    /\ failures' = 0
    /\ bState' = "closed"
    /\ probing' = FALSE
    /\ UNCHANGED openLeft

(* Mutant: the probe slot is not given back. *)
ProbeKeepsSlot ==
    /\ bState = "half-open"
    /\ bState' = "open" /\ openLeft' = ResetTimeout
    /\ UNCHANGED <<failures, probing>>

(* recordFailure() of the half-open state. *)
ProbeFailed ==
    /\ bState = "half-open"
    /\ bState' = "open" /\ openLeft' = ResetTimeout /\ probing' = FALSE
    /\ UNCHANGED failures

CallFailed ==
    LET n == IF failures < Threshold THEN failures + 1 ELSE failures IN
    /\ bState # "half-open"
    /\ failures' = n
    /\ bState' = IF n >= Threshold THEN "open" ELSE bState
    /\ openLeft' = IF n >= Threshold THEN ResetTimeout ELSE openLeft
    /\ UNCHANGED probing

recordFailure == ProbeFailed \/ CallFailed

(* The clock moves towards `_openedAt + resetTimeoutMs`. *)
BreakerTick ==
    /\ openLeft' = IF openLeft = 0 THEN 0 ELSE openLeft - 1
    /\ UNCHANGED <<bState, failures, probing>>
=============================================================================
