--------------------------- MODULE BreakerContract ---------------------------
(***************************************************************************)
(* What the three-state circuit breaker of src/src/circuit.ts promises to  *)
(* the code that calls through it, with the counters and the calls         *)
(* forgotten:                                                              *)
(*   - it opens only from CLOSED or HALF_OPEN;                             *)
(*   - it leaves OPEN only to probe, and only when the service has been    *)
(*     left alone for the reset timeout since the last failure;            *)
(*   - it closes only from HALF_OPEN, and only after `Needed' successes    *)
(*     that no failure interrupted.                                        *)
(* CircuitBreaker implements this specification.                           *)
(***************************************************************************)
EXTENDS Naturals

CONSTANT Needed       \* uninterrupted successes that close the breaker

VARIABLES
  phase,      \* "CLOSED", "OPEN" or "HALF_OPEN"
  cooled,     \* the reset timeout has elapsed since the last failure
  streak      \* successes since the last failure, counted up to Needed

vars == <<phase, cooled, streak>>

Init == phase = "CLOSED" /\ cooled = TRUE /\ streak = 0

\* A call fails: the clock restarts, and the breaker may trip.
Failure ==
  /\ cooled' = FALSE
  /\ streak' = 0
  /\ \/ phase' = phase /\ phase # "HALF_OPEN"
     \/ phase' = "OPEN"

\* A call succeeds: it may be the one that closes a probing breaker.
Success ==
  /\ streak' = IF streak < Needed THEN streak + 1 ELSE Needed
  /\ cooled' = cooled
  /\ \/ phase' = phase
     \/ phase = "HALF_OPEN" /\ streak' = Needed /\ phase' = "CLOSED"

Cool == ~cooled /\ cooled' = TRUE /\ UNCHANGED <<phase, streak>>

Probe ==
  /\ phase = "OPEN" /\ cooled
  /\ phase' = "HALF_OPEN"
  /\ UNCHANGED <<cooled, streak>>

\* Too many probes at once: the breaker opens again, the clock untouched.
Refuse ==
  /\ phase = "HALF_OPEN"
  /\ phase' = "OPEN"
  /\ UNCHANGED <<cooled, streak>>

Next == Failure \/ Success \/ Cool \/ Probe \/ Refuse

Spec == Init /\ [][Next]_vars
=============================================================================
