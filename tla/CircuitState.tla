---------------------------- MODULE CircuitState ----------------------------
(***************************************************************************)
(* The state one named circuit keeps (src/utils/circuit-breaker.ts) and    *)
(* what an admission check, a success and a failure do to it.              *)
(*                                                                         *)
(* cooling stands for elapsed < cooldownMs since lastFailure: a failure    *)
(* sets it, the passage of time clears it.  failures saturates at          *)
(* Threshold: the code only ever compares it with 0 and with the           *)
(* threshold, so the saturation loses nothing.                             *)
(***************************************************************************)
EXTENDS Naturals

CONSTANT Threshold                     \* failureThreshold, 3 by default

ASSUME ThresholdAssumption == Threshold \in Nat \ {0}

Circuit == [failures : 0 .. Threshold, isOpen : BOOLEAN, cooling : BOOLEAN]

(* What getState creates on the first use of a name. *)
FreshCircuit == [failures |-> 0, isOpen |-> FALSE, cooling |-> FALSE]

(* The early return: an open circuit in its cooldown answers the fallback. *)
FailsFast(c) == c.isOpen /\ c.cooling

(* A call that starts on an open circuit is a half-open attempt. *)
IsHalfOpen(c) == c.isOpen /\ ~c.cooling

(* fn resolved: the circuit is reset if anything had gone wrong. *)
AfterSuccess(c) ==
    IF c.failures > 0 \/ c.isOpen THEN FreshCircuit ELSE c

(* fn rejected: one more failure, a new lastFailure, open at the threshold. *)
AfterFailure(c) ==
    IF c.failures + 1 >= Threshold
    THEN [failures |-> Threshold, isOpen |-> TRUE, cooling |-> TRUE]
    ELSE [failures |-> c.failures + 1, isOpen |-> c.isOpen, cooling |-> TRUE]

(* cooldownMs have passed since lastFailure. *)
AfterCooldown(c) ==
    [failures |-> c.failures, isOpen |-> c.isOpen, cooling |-> FALSE]
=============================================================================
