--------------------------- MODULE CircuitBreaker ---------------------------
(***************************************************************************)
(* withCircuitBreaker (src/utils/circuit-breaker.ts) under concurrent      *)
(* callers: the check before fn and the bookkeeping after it are separate  *)
(* steps, with the other callers' steps in between.                        *)
(***************************************************************************)
EXTENDS CircuitState

CONSTANTS
    Names,       \* circuit names: "google-calendar", "crm", ...
    Callers,     \* tool calls and schedulers that use them
    NoCall       \* a caller with no fn running

ASSUME NoCallAssumption == NoCall \notin Names

VARIABLES
    circuits,    \* the map name -> CircuitState
    running,     \* the circuit on whose behalf each caller awaits fn()
    probe,       \* ghost: the call was let through as a half-open attempt
    outrun       \* ghost: the circuit failed again since the call started

circuitVars == <<circuits, running, probe, outrun>>

CircuitTypeOK ==
    /\ circuits \in [Names -> Circuit]
    /\ running \in [Callers -> Names \cup {NoCall}]
    /\ probe \in [Callers -> BOOLEAN]
    /\ outrun \in [Callers -> BOOLEAN]

CircuitInit ==
    /\ circuits = [n \in Names |-> FreshCircuit]
    /\ running = [k \in Callers |-> NoCall]
    /\ probe = [k \in Callers |-> FALSE]
    /\ outrun = [k \in Callers |-> FALSE]

-----------------------------------------------------------------------------
(* Mutants: what a slip in this code would do. *)

StartNoCooldown(k, n) ==      \* the elapsed time is never looked at
    /\ running[k] = NoCall
    /\ running' = [running EXCEPT ![k] = n]
    /\ probe' = [probe EXCEPT ![k] = circuits[n].isOpen]
    /\ outrun' = [outrun EXCEPT ![k] = FALSE]
    /\ UNCHANGED circuits

(***************************************************************************)
(* A call finds the circuit closed, or open with its cooldown over, and    *)
(* starts fn.  Nothing is recorded: the next caller finds the same state.  *)
(***************************************************************************)
Start(k, n) ==
    /\ running[k] = NoCall
    /\ ~FailsFast(circuits[n])
    /\ running' = [running EXCEPT ![k] = n]
    /\ probe' = [probe EXCEPT ![k] = IsHalfOpen(circuits[n])]
    /\ outrun' = [outrun EXCEPT ![k] = FALSE]
    /\ UNCHANGED circuits

(* fn resolves. *)
Succeed(k) ==
    /\ running[k] # NoCall
    /\ circuits' = [circuits EXCEPT ![running[k]] = AfterSuccess(@)]
    /\ running' = [running EXCEPT ![k] = NoCall]
    /\ UNCHANGED <<probe, outrun>>

(* fn rejects. *)
Fail(k) ==
    /\ running[k] # NoCall
    /\ circuits' = [circuits EXCEPT ![running[k]] = AfterFailure(@)]
    /\ running' = [running EXCEPT ![k] = NoCall]
    /\ outrun' = [j \in Callers |-> outrun[j] \/ running[j] = running[k]]
    /\ UNCHANGED probe

CooldownExpires(n) ==
    /\ circuits[n].cooling
    /\ circuits' = [circuits EXCEPT ![n] = AfterCooldown(@)]
    /\ UNCHANGED <<running, probe, outrun>>

CircuitNext ==
    \/ \E k \in Callers, n \in Names : Start(k, n)
    \/ \E k \in Callers : Succeed(k)
    \/ \E k \in Callers : Fail(k)
    \/ \E n \in Names : CooldownExpires(n)

CircuitSpec == CircuitInit /\ [][CircuitNext]_circuitVars

-----------------------------------------------------------------------------
(* A circuit is open exactly when it has counted Threshold failures since  *)
(* its last success, however the answers of overlapping calls interleave.  *)
OpenIffTripped ==
    \A n \in Names : circuits[n].isOpen <=> circuits[n].failures = Threshold

(* While a circuit cools down no fn runs for it but those that were already *)
(* running when the failure that restarted the cooldown came in.           *)
OnlyOldCallsRunWhileCooling ==
    \A n \in Names : FailsFast(circuits[n]) =>
        \A k \in Callers : running[k] = n => outrun[k]

(* A circuit leaves its cooldown early only because a call that was under  *)
(* way when it last failed answers late and well.                          *)
EarlyCloseIsALateAnswer ==
    [][\A n \in Names :
         FailsFast(circuits[n]) /\ ~circuits'[n].isOpen =>
            \E k \in Callers : running[k] = n /\ outrun[k] /\ running'[k] = NoCall]_circuitVars

(* The comment of withCircuitBreaker: "After cooldown, allows one half-open *)
(* attempt".  Every caller that arrives before the attempt answers is let  *)
(* through as well.                                                        *)
OneHalfOpenAttempt ==
    \A k, j \in Callers :
        /\ running[k] # NoCall /\ running[k] = running[j]
        /\ probe[k] /\ probe[j]
        => k = j
=============================================================================
