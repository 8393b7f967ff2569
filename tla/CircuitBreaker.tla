--------------------------- MODULE CircuitBreaker ---------------------------
(***************************************************************************)
(* The circuit breaker of one output (internal/pipeline/circuit_breaker.go).*)
(* Every method runs under cb.mu, so each is one atomic operation here: an  *)
(* action that Output conjoins with the rest of the step that calls it.     *)
(*                                                                          *)
(* Time is abstracted to the one comparison the code makes:                 *)
(* resetElapsed stands for time.Since(lastFailure) > ResetTimeout. It is    *)
(* TRUE for the zero lastFailure of a new breaker, FALSE once a failure is  *)
(* recorded, and becomes TRUE again at any later moment.                    *)
(***************************************************************************)
EXTENDS Integers

CONSTANTS FailureThreshold, SuccessThreshold

\* CircuitBreakerConfig.Validate: both thresholds are positive.
ASSUME FailureThresholdAssumption == FailureThreshold \in Nat \ {0}
ASSUME SuccessThresholdAssumption == SuccessThreshold \in Nat \ {0}

VARIABLES
  state,         \* "closed", "open" or "halfOpen"
  failureCount,  \* failures since the last success
  successCount,  \* successes since the breaker became half-open
  probing,       \* a half-open probe has been let through, no result yet
  resetElapsed   \* the reset timeout has run out since the last failure

breakerVars == <<state, failureCount, successCount, probing, resetElapsed>>

CircuitStates == {"closed", "open", "halfOpen"}

BreakerTypeOK ==
  /\ state \in CircuitStates
  /\ failureCount \in Nat
  /\ successCount \in Nat
  /\ probing \in BOOLEAN
  /\ resetElapsed \in BOOLEAN

NewCircuitBreaker ==
  /\ state = "closed"
  /\ failureCount = 0
  /\ successCount = 0
  /\ probing = FALSE
  /\ resetElapsed = TRUE

-----------------------------------------------------------------------------
\* An open breaker whose timeout has run out turns half-open when it is next
\* looked at, by GetState as well as by AllowRequest.
TurnsHalfOpen == state = "open" /\ resetElapsed

EffectiveState == IF TurnsHalfOpen THEN "halfOpen" ELSE state

GetState ==
  /\ state' = EffectiveState
  /\ successCount' = IF TurnsHalfOpen THEN 0 ELSE successCount
  /\ probing' = (probing /\ ~TurnsHalfOpen)
  /\ UNCHANGED <<failureCount, resetElapsed>>

\* The answer AllowRequest is about to give.
Allows ==
  \/ EffectiveState = "closed"
  \/ EffectiveState = "halfOpen" /\ (TurnsHalfOpen \/ ~probing)

AllowRequest ==
  /\ state' = EffectiveState
  /\ successCount' = IF TurnsHalfOpen THEN 0 ELSE successCount
  /\ probing' = (EffectiveState = "halfOpen" \/ probing)
  /\ UNCHANGED <<failureCount, resetElapsed>>

\* Mutant: enough successes close the breaker whatever its state.
RecordSuccessClosesAnyState ==
  /\ failureCount' = 0
  /\ probing' = FALSE
  /\ successCount' = successCount + 1
  /\ state' = IF successCount + 1 >= SuccessThreshold THEN "closed" ELSE state
  /\ UNCHANGED resetElapsed

RecordSuccess ==
  /\ failureCount' = 0
  /\ probing' = FALSE
  /\ successCount' = IF state = "halfOpen" THEN successCount + 1 ELSE successCount
  /\ state' = IF state = "halfOpen" /\ successCount + 1 >= SuccessThreshold
              THEN "closed" ELSE state
  /\ UNCHANGED resetElapsed

\* Mutant: the threshold is compared with > instead of >=.
RecordFailureOffByOne ==
  /\ probing' = FALSE
  /\ failureCount' = failureCount + 1
  /\ resetElapsed' = FALSE
  /\ state' = IF failureCount + 1 > FailureThreshold THEN "open" ELSE state
  /\ UNCHANGED successCount

\* Mutant: only a success frees the probe.
RecordFailureKeepsProbing ==
  /\ failureCount' = failureCount + 1
  /\ resetElapsed' = FALSE
  /\ state' = IF failureCount + 1 >= FailureThreshold THEN "open" ELSE state
  /\ UNCHANGED <<successCount, probing>>

RecordFailure ==
  /\ probing' = FALSE
  /\ failureCount' = failureCount + 1
  /\ resetElapsed' = FALSE
  /\ state' = IF failureCount + 1 >= FailureThreshold THEN "open" ELSE state
  /\ UNCHANGED successCount

\* The clock passes lastFailure + ResetTimeout.
ResetTimeoutElapses ==
  /\ ~resetElapsed
  /\ resetElapsed' = TRUE
  /\ UNCHANGED <<state, failureCount, successCount, probing>>

=============================================================================
