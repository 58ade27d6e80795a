--------------------------- MODULE CircuitBreaker ---------------------------
(***************************************************************************)
(* The circuit breaker of src/src/circuit.ts: one breaker object shared by *)
(* calls that overlap.  JavaScript runs each handler to its next await, so *)
(* a call is two steps, with everything else possible in between: Execute  *)
(* runs up to `await fn()', OnSuccess or OnFailure runs when fn settles.   *)
(*                                                                         *)
(* Time is the age of the last failure, counted up to RESET_TIMEOUT: the   *)
(* code only ever compares Date.now() - lastFailureTime with resetTimeout. *)
(* An age of RESET_TIMEOUT also stands for lastFailureTime = null, whose   *)
(* difference from Date.now() is larger than any timeout.                  *)
(***************************************************************************)
EXTENDS Integers, FiniteSets

CONSTANTS
  Call,               \* the callers of execute(), one call at a time each
  FAILURE_THRESHOLD,  \* options.failureThreshold
  RESET_TIMEOUT,      \* options.resetTimeout, in clock ticks
  HALF_OPEN_MAX,      \* options.halfOpenMax
  MAX_FAILURES        \* bound: no call fails once failureCount is this

ASSUME BreakerAssumption ==
  /\ IsFiniteSet(Call)
  /\ FAILURE_THRESHOLD \in Nat \ {0}
  /\ RESET_TIMEOUT \in Nat \ {0}
  /\ HALF_OPEN_MAX \in Nat \ {0}
  /\ MAX_FAILURES \in Nat

VARIABLES
  state,             \* "CLOSED", "OPEN" or "HALF_OPEN"
  failureCount,
  successCount,
  halfOpenAttempts,
  failureAge,        \* min(RESET_TIMEOUT, Date.now() - lastFailureTime)
  call,              \* what became of each caller's call
  \* History, read by the properties only:
  probe,             \* calls in flight that the present HALF_OPEN admitted
  streak             \* successes since the last failure, up to HALF_OPEN_MAX

counters == <<failureCount, successCount, halfOpenAttempts>>
breaker == <<state, counters>>
vars == <<breaker, failureAge, call, probe, streak>>

States == {"CLOSED", "OPEN", "HALF_OPEN"}
CallStates == {"idle", "running", "ok", "failed", "rejected"}

Running == {c \in Call : call[c] = "running"}

Init ==
  /\ state = "CLOSED"
  /\ failureCount = 0 /\ successCount = 0 /\ halfOpenAttempts = 0
  /\ failureAge = RESET_TIMEOUT
  /\ call = [c \in Call |-> "idle"]
  /\ probe = {} /\ streak = 0

-----------------------------------------------------------------------------
(* Operators named <Definition>_<fault> are faults the model is tested      *)
(* against: each breaks the definition that follows it the way a slip in   *)
(* the code would, and one of the properties below must then fail.         *)

\* _transition: entering HALF_OPEN clears the probe counters, entering
\* CLOSED clears all three, entering OPEN clears none.
ToHalfOpen_keepsAttempts(attempts) ==
  /\ state' = "HALF_OPEN"
  /\ halfOpenAttempts' = halfOpenAttempts + attempts
  /\ successCount' = 0
  /\ UNCHANGED failureCount

ToHalfOpen_keepsSuccesses(attempts) ==
  /\ state' = "HALF_OPEN"
  /\ halfOpenAttempts' = attempts
  /\ UNCHANGED <<failureCount, successCount>>

ToHalfOpen(attempts) ==
  /\ state' = "HALF_OPEN"
  /\ halfOpenAttempts' = attempts
  /\ successCount' = 0
  /\ UNCHANGED failureCount

ToClosed ==
  /\ state' = "CLOSED"
  /\ failureCount' = 0 /\ successCount' = 0 /\ halfOpenAttempts' = 0

\* The condition under which reading currentState leaves OPEN.
Lapsed_untimed == state = "OPEN"

Lapsed == state = "OPEN" /\ failureAge >= RESET_TIMEOUT

\* The currentState getter, when nothing else follows it.
ReadCurrentState ==
  /\ Lapsed
  /\ ToHalfOpen(0)
  /\ probe' = {}
  /\ UNCHANGED <<failureAge, call, streak>>

\* The interval monitor, and a status request of /api/circuit-breakers,
\* /api/stats, /metrics or /health/ready: both read currentState.
CheckState_wrongState == state = "HALF_OPEN" /\ ReadCurrentState

CheckState == ReadCurrentState
GetStatus == ReadCurrentState

-----------------------------------------------------------------------------
\* execute(), up to the await of fn.
BudgetLeft_offByOne == halfOpenAttempts <= HALF_OPEN_MAX

BudgetLeft == halfOpenAttempts < HALF_OPEN_MAX

RejectOpen(c) ==
  /\ call[c] # "running"
  /\ state = "OPEN" /\ ~Lapsed
  /\ call' = [call EXCEPT ![c] = "rejected"]
  /\ UNCHANGED <<breaker, failureAge, probe, streak>>

RejectSaturated(c) ==
  /\ call[c] # "running"
  /\ state = "HALF_OPEN" /\ ~BudgetLeft
  /\ state' = "OPEN"
  /\ probe' = {}
  /\ call' = [call EXCEPT ![c] = "rejected"]
  /\ UNCHANGED <<counters, failureAge, streak>>

AdmitClosed(c) ==
  /\ call[c] # "running"
  /\ state = "CLOSED"
  /\ call' = [call EXCEPT ![c] = "running"]
  /\ UNCHANGED <<breaker, failureAge, probe, streak>>

AdmitProbe(c) ==
  /\ call[c] # "running"
  /\ \/ Lapsed /\ ToHalfOpen(1) /\ probe' = {c}
     \/ /\ state = "HALF_OPEN" /\ BudgetLeft
        /\ halfOpenAttempts' = halfOpenAttempts + 1
        /\ probe' = probe \cup {c}
        /\ UNCHANGED <<state, failureCount, successCount>>
  /\ call' = [call EXCEPT ![c] = "running"]
  /\ UNCHANGED <<failureAge, streak>>

-----------------------------------------------------------------------------
\* The rest of execute(), once fn has settled: the state is the one found
\* then, not the one the call was admitted in.
LastProbeNeeded_any == TRUE

LastProbeNeeded == successCount + 1 >= HALF_OPEN_MAX

Decremented_unclamped(n) == n - 1

Decremented(n) == IF n > 0 THEN n - 1 ELSE 0

Trips(failures) == state = "HALF_OPEN" \/ failures >= FAILURE_THRESHOLD

OnSuccess(c) ==
  /\ call[c] = "running"
  /\ call' = [call EXCEPT ![c] = "ok"]
  /\ streak' = IF streak < HALF_OPEN_MAX THEN streak + 1 ELSE HALF_OPEN_MAX
  /\ \/ /\ state = "HALF_OPEN" /\ LastProbeNeeded
        /\ ToClosed
        /\ probe' = {}
     \/ /\ state = "HALF_OPEN" /\ ~LastProbeNeeded
        /\ successCount' = successCount + 1
        /\ probe' = probe \ {c}
        /\ UNCHANGED <<state, failureCount, halfOpenAttempts>>
     \/ /\ state # "HALF_OPEN"
        /\ failureCount' = Decremented(failureCount)
        /\ UNCHANGED <<state, successCount, halfOpenAttempts, probe>>
  /\ UNCHANGED failureAge

OnFailure(c) ==
  /\ call[c] = "running"
  /\ failureCount < MAX_FAILURES
  /\ call' = [call EXCEPT ![c] = "failed"]
  /\ failureCount' = failureCount + 1
  /\ failureAge' = 0
  /\ streak' = 0
  /\ state' = IF Trips(failureCount + 1) THEN "OPEN" ELSE state
  /\ probe' = {}
  /\ UNCHANGED <<successCount, halfOpenAttempts>>

Tick ==
  /\ failureAge < RESET_TIMEOUT
  /\ failureAge' = failureAge + 1
  /\ UNCHANGED <<breaker, call, probe, streak>>

Next ==
  \/ CheckState
  \/ GetStatus
  \/ Tick
  \/ \E c \in Call :
       \/ RejectOpen(c) \/ RejectSaturated(c)
       \/ AdmitClosed(c) \/ AdmitProbe(c)
       \/ OnSuccess(c) \/ OnFailure(c)

Spec == Init /\ [][Next]_vars

(* setInterval keeps the monitor running for the life of the process, and  *)
(* the clock advances whatever the callers do.                             *)
FairSpec == Spec /\ WF_vars(CheckState) /\ WF_vars(Tick)

(* The callers' part: every fn settles (each has a timeout) and a caller   *)
(* that is told anything calls again, as processNext does.                 *)
Execute(c) ==
  RejectOpen(c) \/ RejectSaturated(c) \/ AdmitClosed(c) \/ AdmitProbe(c)
Settle(c) == OnSuccess(c) \/ OnFailure(c)
BusySpec == FairSpec /\ \A c \in Call : WF_vars(Execute(c)) /\ WF_vars(Settle(c))

-----------------------------------------------------------------------------
TypeOK ==
  /\ state \in States
  /\ failureCount \in Nat /\ successCount \in Nat /\ halfOpenAttempts \in Nat
  /\ failureAge \in 0..RESET_TIMEOUT
  /\ call \in [Call -> CallStates]
  /\ probe \in SUBSET Call
  /\ streak \in 0..HALF_OPEN_MAX

(* A closed breaker has fewer failures on its count than the threshold:    *)
(* failures that settle late, successes that decrement the count in any    *)
(* state but HALF_OPEN, and the resets of _transition never leave a closed *)
(* breaker that should have tripped.                                       *)
ClosedBelowThreshold == state = "CLOSED" => failureCount < FAILURE_THRESHOLD

(* The probe budget is one per probing period: a period never has more of  *)
(* its own probes in flight than halfOpenMax, however many calls overlap.  *)
ProbesWithinBudget ==
  state = "HALF_OPEN" =>
    /\ halfOpenAttempts <= HALF_OPEN_MAX
    /\ Cardinality(probe) <= halfOpenAttempts

(* A half-open breaker that has spent its budget still waits for a probe   *)
(* of this period: its outcome closes or opens the breaker, so the state   *)
(* cannot be stranded with every call refused and none outstanding.        *)
SpentBudgetHasProbe ==
  state = "HALF_OPEN" /\ halfOpenAttempts = HALF_OPEN_MAX => probe # {}

(* Every counted success is one no failure followed: when successCount     *)
(* reaches halfOpenMax, that many calls in a row have succeeded, including *)
(* calls that were admitted before the breaker opened.                     *)
SuccessesUninterrupted == state = "HALF_OPEN" => successCount <= streak

(* While the reset timeout runs, an open breaker stays open and admits     *)
(* nothing, whatever calls admitted earlier report meanwhile.              *)
OpenAdmitsNothing ==
  [][state = "OPEN" /\ failureAge < RESET_TIMEOUT =>
       state' = "OPEN" /\ Running' \subseteq Running]_vars

(* An open breaker is eventually probed: late failures can push the moment *)
(* back, but only as often as calls were in flight when it opened.         *)
OpenIsEventuallyProbed == state = "OPEN" ~> state = "HALF_OPEN"

(* Once the service stops failing, the breaker closes, and stays closed,   *)
(* also when two callers overlap (tests/circuit.test.ts:88).               *)
HealthyServiceCloses ==
  <>[][~ \E c \in Call : OnFailure(c)]_vars => <>[](state = "CLOSED")

Contract == INSTANCE BreakerContract WITH
  phase <- state,
  cooled <- failureAge >= RESET_TIMEOUT,
  streak <- streak,
  Needed <- HALF_OPEN_MAX

(* The breaker implements the contract of BreakerContract: when it may     *)
(* open, probe and close.                                                  *)
ImplementsContract == Contract!Spec
=============================================================================
