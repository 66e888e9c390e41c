--------------------------- MODULE CircuitBreaker ---------------------------
(***************************************************************************)
(* The per-provider circuit breaker of utils/circuit_breaker.py.  Every    *)
(* public method runs under one lock, so each is one atomic action here.   *)
(*                                                                         *)
(* The code stores monotonic timestamps and compares "now - timestamp"     *)
(* with the reset timeout.  The model keeps the difference itself: a       *)
(* stopwatch that every tick of the clock advances and that stops at       *)
(* ResetTimeout, the only value it is ever compared with.                  *)
(***************************************************************************)
EXTENDS Integers

CONSTANTS
    FailureThreshold,   \* CIRCUIT_FAILURE_THRESHOLD, any integer
    ResetTimeout,       \* CIRCUIT_RESET_TIMEOUT_SECONDS, in ticks
    HalfOpenMaxCalls    \* CIRCUIT_HALF_OPEN_MAX_CALLS, any integer

\* The environment variables are parsed with int() and not validated further.
ASSUME BreakerConstants ==
    /\ FailureThreshold \in Int
    /\ ResetTimeout \in Nat
    /\ HalfOpenMaxCalls \in Int

VARIABLES
    state,              \* _state
    failureCount,       \* _failure_count
    sinceOpened,        \* now - _opened_at, or Unset when _opened_at is None
    halfOpenInFlight,   \* _half_open_in_flight
    sinceHalfOpen       \* now - _half_open_entered_at, or Unset

breakerVars ==
    <<state, failureCount, sinceOpened, halfOpenInFlight, sinceHalfOpen>>

Unset == -1
CircuitState == {"CLOSED", "OPEN", "HALF_OPEN"}
Stopwatch == {Unset} \union (0 .. ResetTimeout)

BreakerTypeOK ==
    /\ state \in CircuitState
    /\ failureCount \in Nat
    /\ sinceOpened \in Stopwatch
    /\ halfOpenInFlight \in Nat
    /\ sinceHalfOpen \in Stopwatch

BreakerInit ==
    /\ state = "CLOSED"
    /\ failureCount = 0
    /\ sinceOpened = Unset
    /\ halfOpenInFlight = 0
    /\ sinceHalfOpen = Unset

-----------------------------------------------------------------------------
(* allow_request() *)

CooledDown == sinceOpened >= ResetTimeout

\* The escape hatch: a HALF_OPEN period older than the reset timeout frees the
\* slots of probes that never reported back.
NoSlotExpires == FALSE   \* faulty variant: no escape hatch
SlotsExpired == sinceHalfOpen # Unset /\ sinceHalfOpen >= ResetTimeout
SlotsTaken == IF SlotsExpired THEN 0 ELSE halfOpenInFlight
HalfOpenClock == IF SlotsExpired THEN 0 ELSE sinceHalfOpen

AllowClosed ==
    /\ state = "CLOSED"
    /\ UNCHANGED breakerVars

AllowFirstProbe ==
    /\ state = "OPEN"
    /\ CooledDown
    /\ state' = "HALF_OPEN"
    /\ halfOpenInFlight' = 1
    /\ sinceHalfOpen' = 0
    /\ UNCHANGED <<failureCount, sinceOpened>>

\* Faulty variant: one probe too many.
AllowExtraProbe ==
    /\ state = "HALF_OPEN"
    /\ SlotsTaken <= HalfOpenMaxCalls
    /\ halfOpenInFlight' = SlotsTaken + 1
    /\ sinceHalfOpen' = HalfOpenClock
    /\ UNCHANGED <<state, failureCount, sinceOpened>>

AllowProbe ==
    /\ state = "HALF_OPEN"
    /\ SlotsTaken < HalfOpenMaxCalls
    /\ halfOpenInFlight' = SlotsTaken + 1
    /\ sinceHalfOpen' = HalfOpenClock
    /\ UNCHANGED <<state, failureCount, sinceOpened>>

RejectCooling ==
    /\ state = "OPEN"
    /\ ~CooledDown
    /\ UNCHANGED breakerVars

RejectProbe ==
    /\ state = "HALF_OPEN"
    /\ SlotsTaken >= HalfOpenMaxCalls
    /\ halfOpenInFlight' = SlotsTaken
    /\ sinceHalfOpen' = HalfOpenClock
    /\ UNCHANGED <<state, failureCount, sinceOpened>>

AllowRequest == AllowClosed \/ AllowFirstProbe \/ AllowProbe
RejectRequest == RejectCooling \/ RejectProbe

-----------------------------------------------------------------------------
(* record_success() and record_failure() *)

\* Faulty variants: a success of any age closes the circuit; a success does not end
\* the run of failures; a probe's success is not acted upon.
SuccessClosesAnyState ==
    /\ state' = "CLOSED"
    /\ failureCount' = 0
    /\ halfOpenInFlight' = 0
    /\ sinceHalfOpen' = Unset
    /\ UNCHANGED sinceOpened

SuccessKeepsCount ==
    /\ state' = IF state = "HALF_OPEN" THEN "CLOSED" ELSE state
    /\ halfOpenInFlight' = IF state = "HALF_OPEN" THEN 0 ELSE halfOpenInFlight
    /\ sinceHalfOpen' = IF state = "HALF_OPEN" THEN Unset ELSE sinceHalfOpen
    /\ UNCHANGED <<failureCount, sinceOpened>>

SuccessIgnoredHalfOpen ==
    /\ failureCount' = IF state = "CLOSED" THEN 0 ELSE failureCount
    /\ UNCHANGED <<state, sinceOpened, halfOpenInFlight, sinceHalfOpen>>

RecordSuccess ==
    /\ state' = IF state = "HALF_OPEN" THEN "CLOSED" ELSE state
    /\ failureCount' = IF state = "OPEN" THEN failureCount ELSE 0
    /\ halfOpenInFlight' = IF state = "HALF_OPEN" THEN 0 ELSE halfOpenInFlight
    /\ sinceHalfOpen' = IF state = "HALF_OPEN" THEN Unset ELSE sinceHalfOpen
    /\ UNCHANGED sinceOpened

FailProbing ==
    /\ state = "HALF_OPEN"
    /\ state' = "OPEN"
    /\ sinceOpened' = 0
    /\ halfOpenInFlight' = 0
    /\ sinceHalfOpen' = Unset
    /\ UNCHANGED failureCount

FailClosed ==
    /\ state = "CLOSED"
    /\ failureCount' = failureCount + 1
    /\ IF failureCount' >= FailureThreshold
       THEN state' = "OPEN" /\ sinceOpened' = 0
       ELSE UNCHANGED <<state, sinceOpened>>
    /\ UNCHANGED <<halfOpenInFlight, sinceHalfOpen>>

FailOpen ==
    /\ state = "OPEN"
    /\ UNCHANGED breakerVars

RecordFailure == FailProbing \/ FailClosed \/ FailOpen

-----------------------------------------------------------------------------
(* The clock.  *)

Advance(watch) == IF watch = Unset \/ watch = ResetTimeout THEN watch ELSE watch + 1

BreakerTick ==
    /\ sinceOpened' = Advance(sinceOpened)
    /\ sinceHalfOpen' = Advance(sinceHalfOpen)
    /\ UNCHANGED <<state, failureCount, halfOpenInFlight>>

\* The state in which allow_request() would return True.
Accepting ==
    \/ state = "CLOSED"
    \/ state = "OPEN" /\ CooledDown
    \/ state = "HALF_OPEN" /\ SlotsTaken < HalfOpenMaxCalls
=============================================================================
