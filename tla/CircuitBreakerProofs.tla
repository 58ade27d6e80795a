------------------------ MODULE CircuitBreakerProofs ------------------------
(***************************************************************************)
(* The safety of CircuitBreaker for every number of callers, threshold,    *)
(* timeout and probe budget, and its implementation of BreakerContract.    *)
(*                                                                         *)
(* The four invariants of the model support each other only through a      *)
(* fact none of them states: in a half-open period, the attempts made are  *)
(* no more than the probes still in flight plus the successes counted.     *)
(* Inv adds it, and that a probe is a call in flight (so admitting a call  *)
(* always adds a new probe).                                               *)
(***************************************************************************)
EXTENDS CircuitBreaker, FiniteSetTheorems, TLAPS

ProbesAreRunning ==
  /\ probe \subseteq Running
  /\ state # "HALF_OPEN" => probe = {}

AttemptsAccounted ==
  state = "HALF_OPEN" =>
    /\ successCount < HALF_OPEN_MAX
    /\ halfOpenAttempts <= Cardinality(probe) + successCount

Inv ==
  /\ TypeOK
  /\ ClosedBelowThreshold
  /\ ProbesWithinBudget
  /\ SuccessesUninterrupted
  /\ ProbesAreRunning
  /\ AttemptsAccounted

-----------------------------------------------------------------------------
(* A set of probes is finite, and counting follows the two ways it changes. *)
LEMMA ProbeCount ==
  ASSUME NEW P \in SUBSET Call, NEW c \in Call
  PROVE  /\ Cardinality({}) = 0
         /\ Cardinality({c}) = 1
         /\ Cardinality(P) \in Nat
         /\ Cardinality(P \ {c}) \in Nat
         /\ Cardinality(P \cup {c}) = IF c \in P THEN Cardinality(P)
                                                ELSE Cardinality(P) + 1
         /\ Cardinality(P \ {c}) = IF c \in P THEN Cardinality(P) - 1
                                             ELSE Cardinality(P)
<1>1. IsFiniteSet(P)
  BY BreakerAssumption, FS_Subset
<1>2. Cardinality({}) = 0 /\ Cardinality({c}) = 1
  BY FS_EmptySet, FS_Singleton
<1>3. Cardinality(P) \in Nat /\ Cardinality(P \ {c}) \in Nat
  BY <1>1, FS_RemoveElement, FS_CardinalityType
<1>4. QED
  BY <1>1, <1>2, <1>3, FS_AddElement, FS_RemoveElement

(* The initial state satisfies the strengthened invariant. *)
LEMMA InitInv == Init => Inv
<1>1. Cardinality({}) = 0
  BY FS_EmptySet
<1>2. QED
  BY <1>1, BreakerAssumption
     DEF Init, Inv, TypeOK, ClosedBelowThreshold, ProbesWithinBudget,
         SuccessesUninterrupted, ProbesAreRunning, AttemptsAccounted,
         States, CallStates

(* Every step of the breaker, its callers and its clock preserves it. *)
LEMMA StepInv == Inv /\ [Next]_vars => Inv'
<1> USE BreakerAssumption
<1> SUFFICES ASSUME Inv, [Next]_vars PROVE Inv'
  OBVIOUS
<1> USE DEF Inv, TypeOK, ClosedBelowThreshold, ProbesWithinBudget,
            SuccessesUninterrupted, ProbesAreRunning, AttemptsAccounted,
            States, CallStates, Running, breaker, counters,
            BudgetLeft, LastProbeNeeded, Decremented, Trips
<1>1. CASE CheckState \/ GetStatus
  BY <1>1, FS_EmptySet
     DEF CheckState, GetStatus, ReadCurrentState, ToHalfOpen, Lapsed
<1>2. CASE Tick \/ UNCHANGED vars
  BY <1>2 DEF Tick, vars
<1>3. ASSUME NEW c \in Call, RejectOpen(c) \/ RejectSaturated(c) PROVE Inv'
  BY <1>3 DEF RejectOpen, RejectSaturated
<1>4. ASSUME NEW c \in Call, AdmitClosed(c) PROVE Inv'
  BY <1>4 DEF AdmitClosed
<1>5. ASSUME NEW c \in Call, AdmitProbe(c) PROVE Inv'
  <2>1. c \notin probe
    BY <1>5 DEF AdmitProbe
  <2>2. CASE Lapsed /\ ToHalfOpen(1) /\ probe' = {c}
    <3>1. Cardinality({c}) = 1
      BY FS_Singleton
    <3>2. QED
      BY <1>5, <2>2, <3>1 DEF AdmitProbe, ToHalfOpen, Lapsed
  <2>3. CASE /\ state = "HALF_OPEN" /\ halfOpenAttempts < HALF_OPEN_MAX
             /\ halfOpenAttempts' = halfOpenAttempts + 1
             /\ probe' = probe \cup {c}
             /\ UNCHANGED <<state, failureCount, successCount>>
    <3>1. /\ Cardinality(probe) \in Nat
          /\ Cardinality(probe \cup {c}) = Cardinality(probe) + 1
      BY <2>1, ProbeCount
    <3>2. QED
      BY <1>5, <2>3, <3>1 DEF AdmitProbe
  <2>4. QED
    BY <1>5, <2>2, <2>3 DEF AdmitProbe
<1>6. ASSUME NEW c \in Call, OnSuccess(c) PROVE Inv'
  <2>1. CASE state = "HALF_OPEN" /\ successCount + 1 < HALF_OPEN_MAX
    <3>1. /\ Cardinality(probe) \in Nat
          /\ Cardinality(probe \ {c}) \in Nat
          /\ Cardinality(probe \ {c}) = IF c \in probe THEN Cardinality(probe) - 1
                                                     ELSE Cardinality(probe)
      BY ProbeCount
    <3>2. /\ probe' = probe \ {c} /\ successCount' = successCount + 1
          /\ UNCHANGED <<state, failureCount, halfOpenAttempts, failureAge>>
          /\ call' = [call EXCEPT ![c] = "ok"]
          /\ streak' = IF streak < HALF_OPEN_MAX THEN streak + 1
                                                 ELSE HALF_OPEN_MAX
      BY <1>6, <2>1 DEF OnSuccess
    <3>3. TypeOK' /\ ProbesAreRunning'
      BY <2>1, <3>2
    <3>4. ProbesWithinBudget' /\ AttemptsAccounted'
      BY <2>1, <3>1, <3>2
    <3>5. ClosedBelowThreshold' /\ SuccessesUninterrupted'
      BY <2>1, <3>2
    <3>6. QED
      BY <3>3, <3>4, <3>5
  <2>2. CASE state = "HALF_OPEN" /\ successCount + 1 >= HALF_OPEN_MAX
    BY <1>6, <2>2 DEF OnSuccess, ToClosed
  <2>3. CASE state # "HALF_OPEN"
    BY <1>6, <2>3 DEF OnSuccess
  <2>4. QED
    BY <2>1, <2>2, <2>3
<1>7. ASSUME NEW c \in Call, OnFailure(c) PROVE Inv'
  BY <1>7 DEF OnFailure
<1> QED
  BY <1>1, <1>2, <1>3, <1>4, <1>5, <1>6, <1>7 DEF Next

(* The strengthened invariant holds in every reachable state. *)
THEOREM Invariant == Spec => []Inv
<1>1. QED
  BY InitInv, StepInv, PTL DEF Spec

-----------------------------------------------------------------------------
(* The variables of the breaker keep their types. *)
THEOREM TypeCorrect == Spec => []TypeOK
<1>1. Inv => TypeOK
  BY DEF Inv
<1>2. QED
  BY <1>1, Invariant, PTL

(* A closed breaker never carries a failure count that should have opened  *)
(* it (execute, _onSuccess, _onFailure and _transition together).          *)
THEOREM ClosedIsBelowThreshold == Spec => []ClosedBelowThreshold
<1>1. Inv => ClosedBelowThreshold
  BY DEF Inv
<1>2. QED
  BY <1>1, Invariant, PTL

(* No half-open period has more of its own probes in flight than           *)
(* halfOpenMax (the attempts check and _transition's resets).              *)
THEOREM ProbesStayWithinBudget == Spec => []ProbesWithinBudget
<1>1. Inv => ProbesWithinBudget
  BY DEF Inv
<1>2. QED
  BY <1>1, Invariant, PTL

(* A half-open breaker whose budget is spent has a probe in flight that    *)
(* will decide it: the state is never stranded.                            *)
THEOREM HalfOpenIsNeverStranded == Spec => []SpentBudgetHasProbe
<1>1. Inv => SpentBudgetHasProbe
  BY BreakerAssumption, FS_EmptySet
     DEF Inv, TypeOK, AttemptsAccounted, SpentBudgetHasProbe
<1>2. QED
  BY <1>1, Invariant, PTL

(* Every success counted towards closing is one no failure has followed.   *)
THEOREM SuccessesAreUninterrupted == Spec => []SuccessesUninterrupted
<1>1. Inv => SuccessesUninterrupted
  BY DEF Inv
<1>2. QED
  BY <1>1, Invariant, PTL

(* While the reset timeout runs, an open breaker neither changes state nor *)
(* admits a call.                                                          *)
THEOREM OpenBreakerAdmitsNothing == Spec => OpenAdmitsNothing
<1>1. ASSUME Inv, [Next]_vars, state = "OPEN", failureAge < RESET_TIMEOUT
      PROVE  state' = "OPEN" /\ Running' \subseteq Running
  <2> USE <1>1, BreakerAssumption DEF Inv, TypeOK, Running, breaker
  <2>1. CASE CheckState \/ GetStatus \/ Tick \/ UNCHANGED vars
    BY <2>1 DEF CheckState, GetStatus, ReadCurrentState, Lapsed, Tick, vars
  <2>2. ASSUME NEW c \in Call,
               RejectOpen(c) \/ RejectSaturated(c) \/ AdmitClosed(c) \/ AdmitProbe(c)
        PROVE  state' = "OPEN" /\ Running' \subseteq Running
    BY <2>2 DEF RejectOpen, RejectSaturated, AdmitClosed, AdmitProbe, Lapsed
  <2>3. ASSUME NEW c \in Call, OnSuccess(c) \/ OnFailure(c)
        PROVE  state' = "OPEN" /\ Running' \subseteq Running
    BY <2>3 DEF OnSuccess, OnFailure
  <2> QED
    BY <2>1, <2>2, <2>3 DEF Next
<1>2. QED
  BY <1>1, Invariant, PTL DEF Spec, OpenAdmitsNothing

-----------------------------------------------------------------------------
(* Every step of the breaker is a step of the contract, or changes nothing *)
(* the contract speaks of.                                                 *)
LEMMA StepRefines == Inv /\ [Next]_vars => [Contract!Next]_(Contract!vars)
<1> USE BreakerAssumption
<1> SUFFICES ASSUME Inv, [Next]_vars PROVE [Contract!Next]_(Contract!vars)
  OBVIOUS
<1> USE DEF Inv, TypeOK, States, breaker, counters, Contract!vars,
            LastProbeNeeded, Decremented, Trips
<1>1. CASE CheckState \/ GetStatus
  <2>1. Contract!Probe
    BY <1>1 DEF CheckState, GetStatus, ReadCurrentState, ToHalfOpen, Lapsed,
                Contract!Probe
  <2>2. QED
    BY <2>1 DEF Contract!Next
<1>2. CASE Tick
  <2>1. Contract!Cool \/ UNCHANGED Contract!vars
    BY <1>2 DEF Tick, Contract!Cool
  <2>2. QED
    BY <2>1 DEF Contract!Next
<1>3. ASSUME NEW c \in Call, RejectOpen(c) \/ AdmitClosed(c)
      PROVE  UNCHANGED Contract!vars
  BY <1>3 DEF RejectOpen, AdmitClosed
<1>4. ASSUME NEW c \in Call, RejectSaturated(c)
      PROVE  Contract!Refuse
  BY <1>4 DEF RejectSaturated, Contract!Refuse
<1>5. ASSUME NEW c \in Call, AdmitProbe(c)
      PROVE  Contract!Probe \/ UNCHANGED Contract!vars
  BY <1>5 DEF AdmitProbe, ToHalfOpen, Lapsed, Contract!Probe
<1>6. ASSUME NEW c \in Call, OnSuccess(c)
      PROVE  Contract!Success
  BY <1>6 DEF OnSuccess, ToClosed, SuccessesUninterrupted, Contract!Success
<1>7. ASSUME NEW c \in Call, OnFailure(c)
      PROVE  Contract!Failure
  BY <1>7 DEF OnFailure, Contract!Failure
<1>8. CASE UNCHANGED vars
  BY <1>8 DEF vars
<1>9. QED
  BY <1>1, <1>2, <1>3, <1>4, <1>5, <1>6, <1>7, <1>8 DEF Next, Contract!Next

(* The breaker implements its contract, whatever the parameters. *)
THEOREM BreakerImplementsContract == Spec => ImplementsContract
<1>1. Init => Contract!Init
  BY BreakerAssumption DEF Init, Contract!Init
<1>2. QED
  BY <1>1, StepRefines, Invariant, PTL
     DEF Spec, ImplementsContract, Contract!Spec
=============================================================================
