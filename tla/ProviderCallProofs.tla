-------------------------- MODULE ProviderCallProofs --------------------------
(***************************************************************************)
(* What holds of one provider's calls and breaker for every set of calls   *)
(* and every threshold, timeout and slot count; and of one call that       *)
(* streams its answer, for every number of chunks and every threshold of   *)
(* the relay.                                                              *)
(***************************************************************************)
EXTENDS ProviderCall, ErrorClassification, ExpertStream, FiniteSetTheorems, SequenceTheorems, TLAPS

\* The part of the invariant that the breaker alone maintains: each stopwatch
\* runs in the state that it ends, and no slot is held while the circuit is
\* closed.
Coherent ==
    /\ state = "CLOSED" => halfOpenInFlight = 0
    /\ state = "OPEN" => sinceOpened # Unset
    /\ (state = "HALF_OPEN") <=> (sinceHalfOpen # Unset)

BreakerInv == BreakerTypeOK /\ Coherent

CallsTypeOK ==
    /\ calls \in [Calls -> [pc : {"idle", "calling"}, kind : Kinds, attempt : 0 .. MaxAttempts]]
    /\ healthy \in BOOLEAN
    /\ probeAge \in [Calls -> Stopwatch]
    /\ refusalsOnly \in BOOLEAN

\* The inductive invariant.  ClosedMeansFewFailures needs Coherent's types and
\* the exact count: the bound alone would not survive one more failure.
IInv ==
    /\ BreakerInv
    /\ CallsTypeOK
    /\ streak \in Nat
    /\ ClosedMeansFewFailures

\* An idle call and a stopwatch that is not running are well typed.
LEMMA IdleType ==
  /\ Idle \in [pc : {"idle", "calling"}, kind : Kinds, attempt : 0 .. MaxAttempts]
  /\ Unset \in Stopwatch
  BY CallConstants DEF Idle, Kinds, Stopwatch

\* The invariant holds initially.
LEMMA InitIInv == Init => IInv
<1> SUFFICES ASSUME Init PROVE IInv
  OBVIOUS
<1> USE BreakerConstants, CallConstants DEF Init, BreakerInit
<1>1. BreakerInv
  BY DEF BreakerInv, BreakerTypeOK, Coherent, CircuitState, Stopwatch, Unset
<1>2. CallsTypeOK
  BY IdleType DEF CallsTypeOK
<1>3. streak \in Nat /\ ClosedMeansFewFailures
  BY DEF ClosedMeansFewFailures
<1> QED
  BY <1>1, <1>2, <1>3 DEF IInv

-------------------------------------------------------------------------------
(* The breaker's operations, whoever calls them. *)

\* Admitting a request keeps the breaker coherent and never closes the circuit.
LEMMA AllowKeepsBreakerInv ==
  ASSUME BreakerInv, AllowRequest
  PROVE  BreakerInv' /\ UNCHANGED failureCount /\ (state' = "CLOSED" => state = "CLOSED")
<1> USE BreakerConstants DEF BreakerInv, BreakerTypeOK, Coherent, CircuitState, Stopwatch, Unset
<1>1. CASE AllowClosed
  BY <1>1 DEF AllowClosed, breakerVars
<1>2. CASE AllowFirstProbe
  BY <1>2 DEF AllowFirstProbe
<1>3. CASE AllowProbe
  BY <1>3 DEF AllowProbe, SlotsTaken, HalfOpenClock, SlotsExpired
<1> QED
  BY <1>1, <1>2, <1>3 DEF AllowRequest

\* Rejecting a request, which may reclaim slots, keeps the breaker coherent.
LEMMA RejectKeepsBreakerInv ==
  ASSUME BreakerInv, RejectRequest
  PROVE  BreakerInv' /\ UNCHANGED <<state, failureCount>>
<1> USE BreakerConstants DEF BreakerInv, BreakerTypeOK, Coherent, CircuitState, Stopwatch, Unset
<1>1. CASE RejectCooling
  BY <1>1 DEF RejectCooling, breakerVars
<1>2. CASE RejectProbe
  BY <1>2 DEF RejectProbe, SlotsTaken, HalfOpenClock, SlotsExpired
<1> QED
  BY <1>1, <1>2 DEF RejectRequest

\* A report keeps the whole of the breaker's part, the count of failures included.
LEMMA ReportKeepsBreakerInv ==
  ASSUME BreakerInv, streak \in Nat, ClosedMeansFewFailures,
         ReportSuccess \/ ReportFailure \/ ReportNothing
  PROVE  BreakerInv' /\ streak' \in Nat /\ ClosedMeansFewFailures'
<1> USE BreakerConstants DEF BreakerInv, BreakerTypeOK, Coherent, ClosedMeansFewFailures,
        CircuitState, Stopwatch, Unset
<1>1. CASE ReportSuccess
  BY <1>1 DEF ReportSuccess, RecordSuccess
<1>2. CASE ReportFailure
  <2>1. CASE FailProbing
    BY <1>2, <2>1 DEF ReportFailure, FailProbing
  <2>2. CASE FailClosed
    BY <1>2, <2>2 DEF ReportFailure, FailClosed
  <2>3. CASE FailOpen
    BY <1>2, <2>3 DEF ReportFailure, FailOpen, breakerVars
  <2> QED
    BY <1>2, <2>1, <2>2, <2>3 DEF ReportFailure, RecordFailure
<1>3. CASE ReportNothing
  BY <1>3 DEF ReportNothing, breakerVars
<1> QED
  BY <1>1, <1>2, <1>3

\* A stopwatch stays within its range and does not start by itself.
LEMMA AdvanceType ==
  ASSUME NEW watch \in Stopwatch
  PROVE  Advance(watch) \in Stopwatch /\ (Advance(watch) = Unset <=> watch = Unset)
  BY BreakerConstants DEF Advance, Stopwatch, Unset

\* The passage of time keeps the breaker coherent.
LEMMA TickKeepsBreakerInv ==
  ASSUME BreakerInv, BreakerTick
  PROVE  BreakerInv' /\ UNCHANGED <<state, failureCount>>
<1>1. /\ sinceOpened' \in Stopwatch /\ (sinceOpened' = Unset <=> sinceOpened = Unset)
      /\ sinceHalfOpen' \in Stopwatch /\ (sinceHalfOpen' = Unset <=> sinceHalfOpen = Unset)
  BY AdvanceType DEF BreakerTick, BreakerInv, BreakerTypeOK
<1> QED
  BY <1>1 DEF BreakerTick, BreakerInv, BreakerTypeOK, Coherent

-------------------------------------------------------------------------------
(* The steps of the calls. *)

\* The end of a call leaves well-typed calls.
LEMMA ReturnKeepsCallsType ==
  ASSUME CallsTypeOK, NEW c \in Calls, Return(c), UNCHANGED healthy, refusalsOnly' \in BOOLEAN
  PROVE  CallsTypeOK'
  BY IdleType DEF CallsTypeOK, Return

\* The invariant is inductive: one step per action.
LEMMA NextIInv == IInv /\ [Next]_vars => IInv'
<1> SUFFICES ASSUME IInv, [Next]_vars PROVE IInv'
  OBVIOUS
<1> USE DEF IInv
<1>1. ASSUME NEW c \in Calls, NEW kind \in Kinds, StartCall(c, kind)
      PROVE  IInv'
  <2>1. /\ BreakerInv' /\ UNCHANGED failureCount
        /\ state' = "CLOSED" => state = "CLOSED"
    BY <1>1, AllowKeepsBreakerInv DEF StartCall
  <2>2. CallsTypeOK'
    <3>1. [pc |-> "calling", kind |-> kind, attempt |-> 1] \in
             [pc : {"idle", "calling"}, kind : Kinds, attempt : 0 .. MaxAttempts]
      BY CallConstants
    <3>2. Unset \in Stopwatch /\ 0 \in Stopwatch
      BY BreakerConstants DEF Stopwatch
    <3> QED
      BY <1>1, <3>1, <3>2 DEF CallsTypeOK, StartCall
  <2>3. streak' \in Nat /\ ClosedMeansFewFailures'
    BY <1>1, <2>1 DEF StartCall, ClosedMeansFewFailures
  <2> QED
    BY <2>1, <2>2, <2>3
<1>2. ASSUME NEW c \in Calls, FailFast(c)
      PROVE  IInv'
  <2>1. BreakerInv' /\ UNCHANGED <<state, failureCount>>
    BY <1>2, RejectKeepsBreakerInv DEF FailFast
  <2> QED
    BY <1>2, <2>1 DEF FailFast, CallsTypeOK, ClosedMeansFewFailures
<1>3. ASSUME NEW c \in Calls, Succeed(c)
      PROVE  IInv'
  <2>1. BreakerInv' /\ streak' \in Nat /\ ClosedMeansFewFailures'
    BY <1>3, ReportKeepsBreakerInv DEF Succeed
  <2>2. CallsTypeOK'
    BY <1>3, ReturnKeepsCallsType DEF Succeed, CallsTypeOK
  <2> QED
    BY <2>1, <2>2
<1>4. ASSUME NEW c \in Calls, NEW e \in Errors, Retry(c, e)
      PROVE  IInv'
  <2>1. calls[c].attempt + 1 \in 0 .. MaxAttempts
    BY <1>4, CallConstants DEF Retry, RetriesLeft, CallsTypeOK
  <2>2. CallsTypeOK'
    BY <1>4, <2>1 DEF Retry, CallsTypeOK
  <2> QED
    BY <1>4, <2>2 DEF Retry, breakerVars, BreakerInv, BreakerTypeOK, Coherent, ClosedMeansFewFailures
<1>5. ASSUME NEW c \in Calls, NEW e \in Errors, GiveUp(c, e)
      PROVE  IInv'
  <2>1. BreakerInv' /\ streak' \in Nat /\ ClosedMeansFewFailures'
    BY <1>5, ReportKeepsBreakerInv DEF GiveUp
  <2>2. CallsTypeOK'
    BY <1>5, ReturnKeepsCallsType DEF GiveUp, CallsTypeOK
  <2> QED
    BY <2>1, <2>2
<1>6. ASSUME NEW c \in Calls, Cancel(c)
      PROVE  IInv'
  <2>1. BreakerInv' /\ streak' \in Nat /\ ClosedMeansFewFailures'
    BY <1>6, ReportKeepsBreakerInv DEF Cancel
  <2>2. CallsTypeOK'
    BY <1>6, ReturnKeepsCallsType DEF Cancel, CallsTypeOK
  <2> QED
    BY <2>1, <2>2
<1>7. CASE Tick
  <2>1. BreakerInv' /\ UNCHANGED <<state, failureCount>>
    BY <1>7, TickKeepsBreakerInv DEF Tick
  <2>2. CallsTypeOK'
    BY <1>7, AdvanceType DEF Tick, CallsTypeOK
  <2> QED
    BY <1>7, <2>1, <2>2 DEF Tick, ClosedMeansFewFailures
<1>8. CASE BackendChanges
  BY <1>8 DEF BackendChanges, breakerVars, CallsTypeOK, BreakerInv, BreakerTypeOK, Coherent,
              ClosedMeansFewFailures
<1>9. CASE UNCHANGED vars
  BY <1>9 DEF vars, breakerVars, CallsTypeOK, BreakerInv, BreakerTypeOK, Coherent,
              ClosedMeansFewFailures
<1> QED
  BY <1>1, <1>2, <1>3, <1>4, <1>5, <1>6, <1>7, <1>8, <1>9 DEF Next, CallStep

\* Every reachable state has the inductive invariant.
THEOREM Invariance == Spec => []IInv
  BY InitIInv, NextIInv, PTL DEF Spec

\* Type correctness.
THEOREM TypeCorrect == Spec => []TypeOK
<1>1. IInv => TypeOK
  BY DEF IInv, TypeOK, BreakerInv, CallsTypeOK
<1> QED
  BY <1>1, Invariance, PTL

\* A closed circuit has seen fewer than FailureThreshold consecutive failures.
THEOREM TripsInTime == Spec => []ClosedMeansFewFailures
<1>1. IInv => ClosedMeansFewFailures
  BY DEF IInv
<1> QED
  BY <1>1, Invariance, PTL

-------------------------------------------------------------------------------

\* No report, however late, ends the cooldown of an open circuit.
THEOREM CooldownIsKept == Spec => OnlyCooldownLeavesOpen
<1>1. ASSUME IInv, [Next]_vars, state = "OPEN", state' # "OPEN"
      PROVE  CooledDown /\ state' = "HALF_OPEN"
  <2> USE <1>1
  <2>1. ASSUME AllowRequest
        PROVE  CooledDown /\ state' = "HALF_OPEN"
    BY <2>1 DEF AllowRequest, AllowClosed, AllowFirstProbe, AllowProbe
  <2>2. ~RejectRequest
    BY DEF RejectRequest, RejectCooling, RejectProbe, breakerVars
  <2>3. ~(ReportSuccess \/ ReportFailure \/ ReportNothing)
    BY DEF ReportSuccess, RecordSuccess, ReportFailure, RecordFailure, FailProbing, FailClosed,
           FailOpen, ReportNothing, breakerVars
  <2>4. ~BreakerTick
    BY DEF BreakerTick
  <2>5. PICK c \in Calls : CallStep(c)
    BY <2>4 DEF Next, Tick, BackendChanges, vars, breakerVars
  <2>6. PICK kind \in Kinds : StartCall(c, kind)
    BY <2>2, <2>3, <2>5 DEF CallStep, FailFast, Succeed, Retry, GiveUp, Cancel, breakerVars
  <2> QED
    BY <2>1, <2>6 DEF StartCall
<1> QED
  BY <1>1, Invariance, PTL DEF Spec, OnlyCooldownLeavesOpen

-------------------------------------------------------------------------------
(* How many probes may run at once. *)

AtMost(S, n) == IsFiniteSet(S) /\ Cardinality(S) <= n

\* A set with no more than n members, one more member, and two such sets together.
LEMMA AtMostPart ==
  ASSUME NEW S, NEW T \in SUBSET S, NEW n \in Int, NEW m \in Int, AtMost(S, n), n <= m
  PROVE  AtMost(T, m)
<1>1. IsFiniteSet(T) /\ Cardinality(T) <= Cardinality(S)
  BY FS_Subset DEF AtMost
<1>2. Cardinality(T) \in Nat /\ Cardinality(S) \in Nat
  BY <1>1, FS_CardinalityType DEF AtMost
<1> QED
  BY <1>1, <1>2 DEF AtMost

\* T is S, or part of it, with x perhaps.
WithinAnd(T, S, x) == T \subseteq S \union {x}

\* A set with one element more has at most one more.
LEMMA AtMostMore ==
  ASSUME NEW S, NEW T, NEW x, WithinAnd(T, S, x),
         NEW n \in Int, NEW m \in Int, AtMost(S, n), n < m
  PROVE  AtMost(T, m)
<1>1. IsFiniteSet(S) /\ Cardinality(S) \in Nat /\ Cardinality(S) <= n
  BY FS_CardinalityType DEF AtMost
<1>2. /\ IsFiniteSet(S \union {x})
      /\ Cardinality(S \union {x}) = IF x \in S THEN Cardinality(S) ELSE Cardinality(S) + 1
  BY <1>1, FS_AddElement
<1>3. AtMost(S \union {x}, n + 1)
  BY <1>1, <1>2 DEF AtMost
<1>4. T \in SUBSET (S \union {x}) /\ n + 1 \in Int /\ n + 1 <= m
  BY DEF WithinAnd
<1> QED
  BY <1>3, <1>4, AtMostPart

\* Two sets together have at most the sum.
LEMMA AtMostTogether ==
  ASSUME NEW S, NEW T, NEW n \in Int, NEW m \in Int, AtMost(S, n), AtMost(T, m)
  PROVE  AtMost(S \union T, n + m)
<1>1. /\ IsFiniteSet(S) /\ Cardinality(S) \in Nat /\ Cardinality(S) <= n
      /\ IsFiniteSet(T) /\ Cardinality(T) \in Nat /\ Cardinality(T) <= m
  BY FS_CardinalityType DEF AtMost
<1>2. /\ IsFiniteSet(S \union T)
      /\ Cardinality(S \union T) = Cardinality(S) + Cardinality(T) - Cardinality(S \intersect T)
  BY <1>1, FS_Union
<1>3. Cardinality(S \intersect T) \in Nat
  <2>1. S \intersect T \in SUBSET S
    OBVIOUS
  <2>2. IsFiniteSet(S \intersect T)
    BY <1>1, <2>1, FS_Subset
  <2> QED
    BY <2>2, FS_CardinalityType
<1> QED
  BY <1>1, <1>2, <1>3 DEF AtMost

\* The empty set has at most no elements.
LEMMA AtMostNone == AtMost({}, 0)
  BY FS_EmptySet DEF AtMost

\* allow_request lets one probe through whatever the maximum.
MaxSlots == IF HalfOpenMaxCalls < 1 THEN 1 ELSE HalfOpenMaxCalls

\* The probes younger than a reset timeout; among them those of the present period of
\* probing, those of it that are not its first, and those of the period before.
Young == {c \in Calls : probeAge[c] \in 0 .. ResetTimeout - 1}
Current == {c \in Young : probeAge[c] <= sinceHalfOpen}
Later == {c \in Young : probeAge[c] < sinceHalfOpen}
Earlier == {c \in Young : probeAge[c] > sinceHalfOpen}

\* A period starts with a probe or with nobody, so once its slots are reclaimed, a
\* reset timeout later, its first probe is no longer young.  While the circuit is
\* open every probe is at least as old as the cooldown.
ProbesCounted ==
    /\ AtMost(Young, 2 * MaxSlots - 1)
    /\ state = "OPEN" => \A c \in Calls : probeAge[c] = Unset \/ probeAge[c] >= sinceOpened
    /\ state = "HALF_OPEN" =>
        /\ halfOpenInFlight \in 0 .. MaxSlots
        /\ halfOpenInFlight = 0 => HalfOpenMaxCalls < 1
        /\ AtMost(Current, halfOpenInFlight)
        /\ Later = {} \/ AtMost(Later, halfOpenInFlight - 1)
        /\ AtMost(Earlier, MaxSlots - 1)
        /\ sinceHalfOpen = ResetTimeout => \A c \in Young : probeAge[c] # 0

\* The numbers that the proofs of ProbesCounted compare.
LEMMA ProbeNumbers ==
  ASSUME IInv
  PROVE  /\ ResetTimeout \in Nat /\ HalfOpenMaxCalls \in Int /\ halfOpenInFlight \in Nat
         /\ MaxSlots \in Nat \ {0}
         /\ \A c \in Calls : probeAge[c] \in {-1} \union (0 .. ResetTimeout)
         /\ sinceOpened \in {-1} \union (0 .. ResetTimeout)
         /\ sinceHalfOpen \in {-1} \union (0 .. ResetTimeout)
         /\ state = "OPEN" => sinceOpened # -1
         /\ (state = "HALF_OPEN") <=> (sinceHalfOpen # -1)
         /\ state \in {"CLOSED", "OPEN", "HALF_OPEN"}
  BY BreakerConstants
     DEF IInv, BreakerInv, BreakerTypeOK, Coherent, CallsTypeOK, Stopwatch, Unset, MaxSlots, CircuitState

\* A call that ends is no longer a probe, whatever it reports.
LEMMA EndKeepsProbes ==
  ASSUME IInv, ProbesCounted,
         \A c \in Calls : probeAge'[c] = probeAge[c] \/ probeAge'[c] = Unset,
         RecordSuccess \/ RecordFailure \/ UNCHANGED breakerVars
  PROVE  ProbesCounted'
<1>0. /\ ResetTimeout \in Nat /\ halfOpenInFlight \in Nat /\ MaxSlots \in Nat \ {0} /\ MaxSlots' = MaxSlots
      /\ \A c \in Calls : probeAge[c] \in {-1} \union (0 .. ResetTimeout)
      /\ Unset = -1
  BY ProbeNumbers DEF MaxSlots, Unset
<1>1. Young' \in SUBSET Young
  BY <1>0 DEF Young
<1>2. AtMost(Young', 2 * MaxSlots' - 1)
  <2>1. AtMost(Young, 2 * MaxSlots - 1) /\ 2 * MaxSlots - 1 \in Int
    BY <1>0 DEF ProbesCounted
  <2>2. AtMost(Young', 2 * MaxSlots - 1)
    BY <1>1, <2>1, AtMostPart
  <2> QED
    BY <1>0, <2>2
<1>3. ASSUME state' = "HALF_OPEN"
      PROVE  /\ state = "HALF_OPEN"
             /\ UNCHANGED <<halfOpenInFlight, sinceHalfOpen>>
  BY <1>3 DEF RecordSuccess, RecordFailure, FailProbing, FailClosed, FailOpen, breakerVars
<1>4. ASSUME state' = "HALF_OPEN"
      PROVE  /\ halfOpenInFlight' \in 0 .. MaxSlots'
             /\ halfOpenInFlight' = 0 => HalfOpenMaxCalls < 1
             /\ AtMost(Current', halfOpenInFlight')
             /\ Later' = {} \/ AtMost(Later', halfOpenInFlight' - 1)
             /\ AtMost(Earlier', MaxSlots' - 1)
             /\ sinceHalfOpen' = ResetTimeout => \A c \in Young' : probeAge'[c] # 0
  <2>1. Current' \in SUBSET Current /\ Later' \in SUBSET Later /\ Earlier' \in SUBSET Earlier
    BY <1>0, <1>1, <1>3, <1>4 DEF Current, Later, Earlier, Young
  <2>2. AtMost(Current', halfOpenInFlight)
    BY <1>0, <1>3, <1>4, <2>1, AtMostPart DEF ProbesCounted
  <2>3. Later' = {} \/ AtMost(Later', halfOpenInFlight - 1)
    BY <1>0, <1>3, <1>4, <2>1, AtMostPart DEF ProbesCounted
  <2>4. AtMost(Earlier', MaxSlots - 1)
    BY <1>0, <1>3, <1>4, <2>1, AtMostPart DEF ProbesCounted
  <2> QED
    BY <1>0, <1>1, <1>3, <1>4, <2>2, <2>3, <2>4 DEF ProbesCounted, Young
<1>5. ASSUME state' = "OPEN", NEW c \in Calls
      PROVE  probeAge'[c] = Unset \/ probeAge'[c] >= sinceOpened'
  <2>1. CASE state = "OPEN" /\ UNCHANGED sinceOpened
    BY <2>1 DEF ProbesCounted
  <2>2. CASE sinceOpened' = 0
    BY <1>0, <2>2
  <2> QED
    BY <1>5, <2>1, <2>2, ProbeNumbers
       DEF RecordSuccess, RecordFailure, FailProbing, FailClosed, FailOpen, breakerVars
<1> QED
  BY <1>2, <1>4, <1>5 DEF ProbesCounted

\* Slots that are reclaimed leave the period's later probes as the earlier ones of
\* the next period.
LEMMA ReclaimKeepsProbes ==
  ASSUME IInv, ProbesCounted, state = "HALF_OPEN", SlotsExpired, NEW n \in 0 .. MaxSlots
  PROVE  /\ \A c \in Young : probeAge[c] > 0
         /\ AtMost(Young, MaxSlots - 1)
<1>0. /\ ResetTimeout \in Nat /\ halfOpenInFlight \in 0 .. MaxSlots /\ MaxSlots \in Nat \ {0}
      /\ \A c \in Calls : probeAge[c] \in {-1} \union (0 .. ResetTimeout)
      /\ sinceHalfOpen = ResetTimeout
  BY ProbeNumbers DEF SlotsExpired, ProbesCounted
<1>1. \A c \in Young : probeAge[c] > 0
  BY <1>0 DEF ProbesCounted, Young
<1>2. Young = Later
  BY <1>0 DEF Later, Young
<1>3. CASE Later = {}
  <2>1. AtMost({}, MaxSlots - 1)
    BY <1>0, AtMostNone, AtMostPart
  <2> QED
    BY <1>1, <1>2, <1>3, <2>1
<1>4. CASE AtMost(Later, halfOpenInFlight - 1)
  <2>1. AtMost(Later, MaxSlots - 1)
    BY <1>0, <1>4, AtMostPart
  <2> QED
    BY <1>1, <1>2, <2>1
<1> QED
  BY <1>3, <1>4 DEF ProbesCounted

\* A request that is refused may reclaim slots and admits nobody.
LEMMA RejectKeepsProbes ==
  ASSUME IInv, ProbesCounted, RejectRequest, UNCHANGED probeAge
  PROVE  ProbesCounted'
<1>0. /\ ResetTimeout \in Nat /\ HalfOpenMaxCalls \in Int
      /\ halfOpenInFlight \in Nat /\ MaxSlots \in Nat \ {0} /\ MaxSlots' = MaxSlots
      /\ \A c \in Calls : probeAge[c] \in {-1} \union (0 .. ResetTimeout)
      /\ Young' = Young
  BY ProbeNumbers DEF MaxSlots, Young
<1>1. CASE UNCHANGED breakerVars
  BY <1>0, <1>1 DEF breakerVars, ProbesCounted, Current, Later, Earlier
<1>2. CASE RejectProbe /\ ~SlotsExpired
  <2>1. UNCHANGED breakerVars
    BY <1>2 DEF RejectProbe, SlotsTaken, HalfOpenClock, breakerVars
  <2> QED
    BY <1>1, <2>1
<1>3. CASE RejectProbe /\ SlotsExpired
  <2>1. state = "HALF_OPEN" /\ state' = state /\ halfOpenInFlight' = 0 /\ sinceHalfOpen' = 0
        /\ HalfOpenMaxCalls < 1
    BY <1>0, <1>3 DEF RejectProbe, SlotsTaken, HalfOpenClock
  <2>2. (\A c \in Young : probeAge[c] > 0) /\ AtMost(Young, MaxSlots - 1)
    BY <1>0, <1>3, <2>1, ReclaimKeepsProbes
  <2>3. Current' = {} /\ Later' = {} /\ Earlier' = Young
    BY <1>0, <2>1, <2>2 DEF Current, Later, Earlier, Young
  <2> QED
    BY <1>0, <2>1, <2>2, <2>3, AtMostNone DEF ProbesCounted
<1> QED
  BY <1>1, <1>2, <1>3 DEF RejectRequest, RejectCooling

\* A request that is admitted while the circuit is not closed is a probe.
LEMMA StartKeepsProbes ==
  ASSUME IInv, ProbesCounted, NEW c \in Calls, NEW kind \in Kinds, StartCall(c, kind)
  PROVE  ProbesCounted'
<1>0. /\ ResetTimeout \in Nat /\ HalfOpenMaxCalls \in Int
      /\ halfOpenInFlight \in Nat /\ MaxSlots \in Nat \ {0} /\ MaxSlots' = MaxSlots
      /\ \A d \in Calls : probeAge[d] \in {-1} \union (0 .. ResetTimeout)
      /\ sinceHalfOpen \in {-1} \union (0 .. ResetTimeout)
      /\ state = "OPEN" => sinceOpened \in 0 .. ResetTimeout
      /\ (state = "HALF_OPEN") <=> (sinceHalfOpen # -1)
      /\ Unset = -1
  BY ProbeNumbers DEF MaxSlots, Unset
<1>1. \A d \in Calls : probeAge'[d] = IF d = c THEN IF state = "CLOSED" THEN Unset ELSE 0
                                      ELSE probeAge[d]
  BY DEF StartCall, IInv, CallsTypeOK
<1>2. CASE AllowClosed
  BY <1>1, <1>2, EndKeepsProbes DEF AllowClosed
<1>3. CASE AllowFirstProbe
  <2>1. /\ state = "OPEN" /\ sinceOpened = ResetTimeout
        /\ state' = "HALF_OPEN" /\ halfOpenInFlight' = 1 /\ sinceHalfOpen' = 0
    BY <1>0, <1>3 DEF AllowFirstProbe, CooledDown
  <2>2. Young = {}
    BY <1>0, <2>1 DEF ProbesCounted, Young
  <2>3. WithinAnd(Young', {}, c) /\ WithinAnd(Current', {}, c) /\ Later' = {} /\ Earlier' = {}
    BY <1>0, <1>1, <2>1, <2>2 DEF Young, Current, Later, Earlier, WithinAnd
  <2>4. AtMost(Young', 1) /\ AtMost(Current', 1)
    BY <2>3, AtMostNone, AtMostMore
  <2>5. AtMost(Young', 2 * MaxSlots - 1) /\ AtMost(Earlier', MaxSlots - 1)
    BY <1>0, <2>3, <2>4, AtMostNone, AtMostPart
  <2>6. sinceHalfOpen' = ResetTimeout => Young' = {}
    BY <1>0, <2>1 DEF Young
  <2> QED
    BY <1>0, <2>1, <2>3, <2>4, <2>5, <2>6 DEF ProbesCounted
<1>4. CASE AllowProbe /\ SlotsExpired
  <2>1. /\ state = "HALF_OPEN" /\ state' = "HALF_OPEN" /\ 0 < HalfOpenMaxCalls
        /\ halfOpenInFlight' = 1 /\ sinceHalfOpen' = 0
    BY <1>4 DEF AllowProbe, SlotsTaken, HalfOpenClock
  <2>2. (\A d \in Young : probeAge[d] > 0) /\ AtMost(Young, MaxSlots - 1)
    BY <1>0, <1>4, <2>1, ReclaimKeepsProbes
  <2>3. /\ WithinAnd(Young', Young, c)
        /\ WithinAnd(Current', {}, c)
        /\ Later' = {} /\ Earlier' \in SUBSET Young
    BY <1>0, <1>1, <2>1, <2>2 DEF Young, Current, Later, Earlier, WithinAnd
  <2>4. AtMost(Young', 2 * MaxSlots - 1) /\ AtMost(Current', 1)
    <3>1. MaxSlots - 1 < 2 * MaxSlots - 1 /\ MaxSlots - 1 \in Int /\ 2 * MaxSlots - 1 \in Int
      BY <1>0
    <3> QED
      BY <2>2, <2>3, <3>1, AtMostNone, AtMostMore
  <2>5. AtMost(Earlier', MaxSlots - 1)
    BY <1>0, <2>2, <2>3, AtMostPart
  <2>6. sinceHalfOpen' = ResetTimeout => Young' = {}
    BY <1>0, <2>1 DEF Young
  <2> QED
    BY <1>0, <2>1, <2>3, <2>4, <2>5, <2>6 DEF ProbesCounted
<1>5. CASE AllowProbe /\ ~SlotsExpired
  <2>1. /\ state = "HALF_OPEN" /\ state' = "HALF_OPEN" /\ halfOpenInFlight < HalfOpenMaxCalls
        /\ halfOpenInFlight' = halfOpenInFlight + 1 /\ UNCHANGED sinceHalfOpen
        /\ sinceHalfOpen \in 0 .. ResetTimeout - 1
    BY <1>0, <1>5 DEF AllowProbe, SlotsTaken, HalfOpenClock, SlotsExpired
  <2>2. halfOpenInFlight' \in 0 .. MaxSlots
    BY <1>0, <2>1 DEF MaxSlots
  <2>3. /\ WithinAnd(Current', Current, c)
        /\ WithinAnd(Later', Later, c)
        /\ Earlier' \in SUBSET Earlier
        /\ \A d \in Young' : d \in Current' \/ d \in Earlier'
    BY <1>0, <1>1, <2>1 DEF Young, Current, Later, Earlier, WithinAnd
  <2>4. AtMost(Current', halfOpenInFlight + 1)
    BY <1>0, <2>1, <2>3, AtMostMore DEF ProbesCounted
  <2>5. halfOpenInFlight \in Nat \ {0}
    BY <1>0, <2>1 DEF ProbesCounted
  <2>6. AtMost(Later', halfOpenInFlight)
    <3>1. CASE Later = {}
      BY <2>3, <2>5, <3>1, AtMostNone, AtMostMore
    <3>2. CASE AtMost(Later, halfOpenInFlight - 1)
      BY <2>3, <2>5, <3>2, AtMostMore
    <3> QED
      BY <2>1, <3>1, <3>2 DEF ProbesCounted
  <2>7. AtMost(Earlier', MaxSlots - 1)
    BY <1>0, <2>1, <2>3, AtMostPart DEF ProbesCounted
  <2>8. AtMost(Young', 2 * MaxSlots - 1)
    <3>1. AtMost(Current' \union Earlier', (halfOpenInFlight + 1) + (MaxSlots - 1))
      BY <1>0, <2>4, <2>5, <2>7, AtMostTogether
    <3>2. Young' \in SUBSET (Current' \union Earlier')
      BY <2>3
    <3>3. /\ (halfOpenInFlight + 1) + (MaxSlots - 1) <= 2 * MaxSlots - 1
          /\ (halfOpenInFlight + 1) + (MaxSlots - 1) \in Int /\ 2 * MaxSlots - 1 \in Int
      BY <1>0, <2>1, <2>2
    <3> DEFINE both == Current' \union Earlier'
               sum == (halfOpenInFlight + 1) + (MaxSlots - 1)
    <3>4. AtMost(both, sum) /\ Young' \in SUBSET both /\ sum \in Int /\ sum <= 2 * MaxSlots - 1
      BY <3>1, <3>2, <3>3
    <3> HIDE DEF both, sum
    <3> QED
      BY <3>3, <3>4, AtMostPart
  <2>9. sinceHalfOpen' # ResetTimeout
    BY <1>0, <2>1
  <2> QED
    <3>1. (halfOpenInFlight + 1) - 1 = halfOpenInFlight
      BY <1>0
    <3> QED
      BY <1>0, <2>1, <2>2, <2>4, <2>5, <2>6, <2>7, <2>8, <2>9, <3>1 DEF ProbesCounted
<1> QED
  BY <1>2, <1>3, <1>4, <1>5 DEF StartCall, AllowRequest

\* Time makes probes and periods older by the same tick.
LEMMA TickKeepsProbes ==
  ASSUME IInv, ProbesCounted, Tick
  PROVE  ProbesCounted'
<1>0. /\ ResetTimeout \in Nat /\ halfOpenInFlight \in Nat /\ MaxSlots \in Nat \ {0} /\ MaxSlots' = MaxSlots
      /\ \A c \in Calls : probeAge[c] \in {-1} \union (0 .. ResetTimeout)
      /\ sinceOpened \in {-1} \union (0 .. ResetTimeout)
      /\ sinceHalfOpen \in {-1} \union (0 .. ResetTimeout)
      /\ state = "OPEN" => sinceOpened # -1
      /\ (state = "HALF_OPEN") <=> (sinceHalfOpen # -1)
      /\ Unset = -1
  BY ProbeNumbers DEF MaxSlots, Unset
<1>1. /\ UNCHANGED <<state, failureCount, halfOpenInFlight>>
      /\ sinceOpened' = Advance(sinceOpened) /\ sinceHalfOpen' = Advance(sinceHalfOpen)
      /\ \A c \in Calls : probeAge'[c] = Advance(probeAge[c])
  BY DEF Tick, BreakerTick
<1>2. \A watch \in {-1} \union (0 .. ResetTimeout) :
        Advance(watch) = IF watch = -1 \/ watch = ResetTimeout THEN watch ELSE watch + 1
  BY DEF Advance, Unset
<1>3. Young' \in SUBSET Young
  BY <1>0, <1>1, <1>2 DEF Young
<1>4. AtMost(Young', 2 * MaxSlots' - 1)
  BY <1>0, <1>3, AtMostPart DEF ProbesCounted
<1>5. ASSUME state' = "OPEN", NEW c \in Calls
      PROVE  probeAge'[c] = Unset \/ probeAge'[c] >= sinceOpened'
  BY <1>0, <1>1, <1>2, <1>5 DEF ProbesCounted
<1>6. ASSUME state' = "HALF_OPEN"
      PROVE  /\ halfOpenInFlight' \in 0 .. MaxSlots'
             /\ halfOpenInFlight' = 0 => HalfOpenMaxCalls < 1
             /\ AtMost(Current', halfOpenInFlight')
             /\ Later' = {} \/ AtMost(Later', halfOpenInFlight' - 1)
             /\ AtMost(Earlier', MaxSlots' - 1)
             /\ sinceHalfOpen' = ResetTimeout => \A c \in Young' : probeAge'[c] # 0
  <2>1. state = "HALF_OPEN" /\ sinceHalfOpen \in 0 .. ResetTimeout
    BY <1>0, <1>1, <1>6
  <2>2. Current' \in SUBSET Current /\ Later' \in SUBSET Later /\ Earlier' \in SUBSET Earlier
    BY <1>0, <1>1, <1>2, <2>1 DEF Young, Current, Later, Earlier
  <2>3. AtMost(Current', halfOpenInFlight)
    BY <1>0, <2>1, <2>2, AtMostPart DEF ProbesCounted
  <2>4. Later' = {} \/ AtMost(Later', halfOpenInFlight - 1)
    BY <1>0, <2>1, <2>2, AtMostPart DEF ProbesCounted
  <2>5. AtMost(Earlier', MaxSlots - 1)
    BY <1>0, <2>1, <2>2, AtMostPart DEF ProbesCounted
  <2>6. \A c \in Young' : probeAge'[c] # 0
    BY <1>0, <1>1, <1>2 DEF Young
  <2> QED
    BY <1>0, <1>1, <2>1, <2>3, <2>4, <2>5, <2>6 DEF ProbesCounted
<1> QED
  BY <1>4, <1>5, <1>6 DEF ProbesCounted

\* The count of probes holds initially, and every step keeps it.
LEMMA InitProbes == Init => ProbesCounted
<1> SUFFICES ASSUME Init PROVE ProbesCounted
  OBVIOUS
<1>1. Young = {} /\ state = "CLOSED"
  BY BreakerConstants DEF Init, BreakerInit, Young, Unset
<1>2. MaxSlots \in Nat \ {0}
  BY BreakerConstants DEF MaxSlots
<1>3. AtMost({}, 2 * MaxSlots - 1)
  BY <1>2, AtMostNone, AtMostPart
<1> QED
  BY <1>1, <1>3 DEF ProbesCounted

\* Every step keeps the count of the probes.
LEMMA NextProbes == IInv /\ ProbesCounted /\ [Next]_vars => ProbesCounted'
<1> SUFFICES ASSUME IInv, ProbesCounted, [Next]_vars PROVE ProbesCounted'
  OBVIOUS
<1>1. ASSUME NEW c \in Calls, Return(c), ReportSuccess \/ ReportFailure \/ ReportNothing
      PROVE  ProbesCounted'
  <2>1. \A d \in Calls : probeAge'[d] = probeAge[d] \/ probeAge'[d] = Unset
    BY <1>1 DEF Return, IInv, CallsTypeOK
  <2> QED
    BY <1>1, <2>1, EndKeepsProbes DEF ReportSuccess, ReportFailure, ReportNothing
<1>2. ASSUME NEW c \in Calls, Succeed(c) \/ Cancel(c) \/ \E e \in Errors : GiveUp(c, e)
      PROVE  ProbesCounted'
  BY <1>1, <1>2 DEF Succeed, Cancel, GiveUp
<1>3. ASSUME NEW c \in Calls, FailFast(c)
      PROVE  ProbesCounted'
  BY <1>3, RejectKeepsProbes DEF FailFast
<1>4. CASE UNCHANGED <<breakerVars, probeAge>>
  BY <1>4, EndKeepsProbes
<1>5. ASSUME NEW c \in Calls, NEW e \in Errors, Retry(c, e)
      PROVE  ProbesCounted'
  BY <1>4, <1>5 DEF Retry
<1>6. CASE BackendChanges \/ UNCHANGED vars
  BY <1>4, <1>6 DEF BackendChanges, vars
<1> QED
  BY <1>2, <1>3, <1>5, <1>6, StartKeepsProbes, TickKeepsProbes DEF Next, CallStep

\* However calls, cancels, late reports, reclaims of slots and the clock interleave, no
\* more than 2 * HalfOpenMaxCalls - 1 of the calls still running were admitted as probes
\* less than a reset timeout ago (one, where the maximum is below one).
THEOREM ProbesAreMetered == Spec => []ProbesMetered
<1>1. IInv /\ ProbesCounted => ProbesMetered
  <2> SUFFICES ASSUME IInv, ProbesCounted PROVE ProbesMetered
    OBVIOUS
  <2>1. MaxSlots \in Nat \ {0} /\ HalfOpenMaxCalls \in Int
    BY ProbeNumbers
  <2>2. YoungProbes \in SUBSET Young
    BY DEF YoungProbes, Young
  <2>3. AtMost(YoungProbes, 2 * MaxSlots - 1)
    BY <2>1, <2>2, AtMostPart DEF ProbesCounted
  <2> QED
    BY <2>1, <2>3 DEF ProbesMetered, MaxSlots, AtMost
<1> QED
  BY <1>1, Invariance, InitProbes, NextProbes, PTL DEF Spec

-------------------------------------------------------------------------------
(* Requests that are themselves at fault. *)

\* The classifiers of the OpenAI-compatible and the Anthropic adapter agree on a request
\* refused by a status code that the lists name, whatever its message says: it is
\* neither retried nor held against the provider.
LEMMA ListedRefusalsAreNeutral ==
  ASSUME NEW adapter \in {"openai_compatible", "anthropic"}, NEW x \in Shapes(adapter, Listed),
         x.cause = "refused"
  PROVE  ~Retries(adapter, x) /\ ~ProviderUnhealthy(x)
<1>1. x.status \in Listed /\ (x.raised # "other" => x.status = NoStatus) /\ Refusal(x.status)
  BY DEF Shapes
<1>2. x.status \in _NON_RETRYABLE_STATUS_CODES /\ x.raised = "other"
  BY <1>1 DEF Listed, Refusal, NoStatus, _RETRYABLE_STATUS_CODES, _NON_RETRYABLE_STATUS_CODES
<1>3. x.status \notin _RETRYABLE_STATUS_CODES /\ x.raised \notin {"timeout", "connection"}
  BY <1>2 DEF _RETRYABLE_STATUS_CODES, _NON_RETRYABLE_STATUS_CODES
<1>4. ~RateLimited(x) /\ ~BaseRetries(x)
  <2>1. ~RateLimited(x)
    BY <1>2 DEF RateLimited, NoStatus, _NON_RETRYABLE_STATUS_CODES
  <2>2. ~BaseRetries(x)
    BY <1>2, <1>3, Zenon DEF BaseRetries
  <2> QED
    BY <2>1, <2>2
<1>5. ~CompatibleRetries(x)
  BY <1>2, <1>3, <1>4 DEF CompatibleRetries
<1>6. ~ProviderUnhealthy(x)
  BY <1>1 DEF ProviderUnhealthy, Refusal
<1> QED
  BY <1>4, <1>5, <1>6 DEF Retries

\* The same of the class that ProviderCall sees.
LEMMA ListedClassesAreNeutral ==
  ASSUME NEW e \in ListedErrors, e.cause = "refused"
  PROVE  ~e.retried /\ ~e.unhealthy
<1>1. PICK adapter \in {"openai_compatible", "anthropic"} :
        \E x \in Shapes(adapter, Listed) : e = Class(adapter, x)
  BY DEF ListedErrors
<1>2. PICK x \in Shapes(adapter, Listed) : e = Class(adapter, x)
  BY <1>1
<1>3. e.retried = Retries(adapter, x) /\ e.unhealthy = ProviderUnhealthy(x) /\ e.cause = x.cause
  BY <1>2 DEF Class
<1> QED
  BY <1>3, ListedRefusalsAreNeutral

\* With the errors of the OpenAI-compatible and the Anthropic adapter and the status codes
\* on their lists, refused requests alone never open the circuit, however many calls
\* make them and whatever the answers' messages say.
THEOREM CallerFaultsAreHarmless ==
  ASSUME Errors \subseteq ListedErrors
  PROVE  Spec => []CallerFaultsNeverTrip
<1>1. Init => CallerFaultsNeverTrip
  BY DEF Init, BreakerInit, CallerFaultsNeverTrip
<1>2. ASSUME IInv, CallerFaultsNeverTrip, [Next]_vars
      PROVE  CallerFaultsNeverTrip'
  <2> SUFFICES ASSUME refusalsOnly' PROVE state' = "CLOSED"
    BY DEF CallerFaultsNeverTrip
  <2> USE <1>2
  <2>1. ASSUME UNCHANGED state, refusalsOnly' = refusalsOnly
        PROVE  state' = "CLOSED"
    BY <2>1 DEF CallerFaultsNeverTrip
  <2>2. ASSUME NEW c \in Calls, NEW kind \in Kinds, StartCall(c, kind)
        PROVE  state' = "CLOSED"
    BY <2>2 DEF StartCall, AllowRequest, AllowClosed, AllowFirstProbe, AllowProbe, breakerVars,
                CallerFaultsNeverTrip
  <2>3. ASSUME NEW c \in Calls, FailFast(c) \/ Cancel(c)
        PROVE  state' = "CLOSED"
    BY <2>1, <2>3 DEF FailFast, RejectRequest, RejectCooling, RejectProbe, Cancel, ReportNothing, breakerVars
  <2>4. ASSUME NEW c \in Calls, Succeed(c)
        PROVE  state' = "CLOSED"
    BY <2>4 DEF Succeed, ReportSuccess, RecordSuccess, CallerFaultsNeverTrip
  <2>5. ASSUME NEW c \in Calls, NEW e \in Errors, Retry(c, e)
        PROVE  state' = "CLOSED"
    BY <2>5 DEF Retry, breakerVars, CallerFaultsNeverTrip
  <2>6. ASSUME NEW c \in Calls, NEW e \in Errors, GiveUp(c, e)
        PROVE  state' = "CLOSED"
    <3>1. e.cause = "refused" /\ refusalsOnly
      BY <2>6 DEF GiveUp
    <3>2. ~e.retried /\ ~e.unhealthy
      BY <3>1, ListedClassesAreNeutral
    <3> QED
      BY <2>6, <3>1, <3>2 DEF GiveUp, CountsAsFailure, ReportNothing, breakerVars, CallerFaultsNeverTrip
  <2>7. CASE Tick \/ BackendChanges \/ UNCHANGED vars
    BY <2>1, <2>7 DEF Tick, BreakerTick, BackendChanges, vars, breakerVars
  <2> QED
    BY <2>2, <2>3, <2>4, <2>5, <2>6, <2>7 DEF Next, CallStep
<1> QED
  BY <1>1, <1>2, Invariance, PTL DEF Spec

-----------------------------------------------------------------------------
(* The stream of chunks (ExpertStream).                                    *)

\* What the provider made: chunks in order, of which only the last is final;
\* a stream that ended by itself has one, and its end was recorded once.
MadeInOrder ==
    /\ \A i \in DOMAIN worker.made : worker.made[i].n = i
    /\ \A i \in DOMAIN worker.made : worker.made[i].final => i = Len(worker.made)
    /\ Running => ~worker.broke
    /\ (~Running /\ ~worker.broke) => Closed
    /\ worker.recorded = (IF Running THEN 0 ELSE 1)

\* What was handed over and not taken: the rest of the chunks, and then how
\* the stream ended, once it has.
Rest(from) == Len(worker.made) - from
Ending == IF Running THEN 0 ELSE IF worker.broke THEN 2 ELSE 1
QueueIsTheRest ==
    LET taken == Len(call.text) IN
    /\ taken <= Len(worker.made)
    /\ Len(queue) = Rest(taken) + Ending
    /\ \A i \in 1 .. Rest(taken) : queue[i] = worker.made[taken + i]
    /\ (~Running /\ ~worker.broke) => queue[Rest(taken) + 1] = Done
    /\ (~Running /\ worker.broke) => queue[Rest(taken) + 1] = Broken

\* Where the call is: what it took is a beginning of what was made, it is
\* complete only when that is all, and while a stream is not over the call
\* waits for it, unless it was cancelled twice.
CallFollows ==
    /\ \A i \in DOMAIN call.text : call.text[i] = i
    /\ Len(call.text) <= Len(worker.made)
    /\ (setting.streams /\ call.pc = "waiting") => QueueIsTheRest
    /\ ~setting.streams => queue = <<>>
    /\ call.pc \in {"complete", "text", "empty"} =>
          ~Running /\ ~worker.broke /\ Len(call.text) = Len(worker.made)
    /\ call.pc \in {"raising", "error"} => ~Running
    /\ call.pc \notin {"leaving", "cancelled"} => call.cancels = 0
    /\ call.pc = "leaving" => call.cancels = 1 /\ setting.streams
    /\ OneCancelWaits

\* What the host was shown, and what waits in the buffer: together they are
\* what the call took, as long as nothing failed to be sent.
Gone == IF setting.streams THEN Len(call.text) - Len(relay.buffer) ELSE 0
InOrder(sent) ==
    \A k, l \in DOMAIN sent : \A i \in DOMAIN sent[k], j \in DOMAIN sent[l] :
        k < l \/ (k = l /\ i < j) => sent[k][i] < sent[l][j]
UpTo(sent, gone) == \A k \in DOMAIN sent : \A i \in DOMAIN sent[k] : sent[k][i] <= gone
AllShown(sent, gone) == \A n \in 1 .. gone : \E k \in DOMAIN sent : n \in Range(sent[k])
RelayIsRight(r, gone) ==
    /\ gone \in Nat
    /\ \A i \in DOMAIN r.buffer : r.buffer[i] = gone + i
    /\ r.size <= 2 * Len(r.buffer)
    /\ InOrder(r.sent) /\ UpTo(r.sent, gone)
    /\ Len(r.sent) <= r.count
    /\ (setting.token /\ r.count = Len(r.sent)) => AllShown(r.sent, gone)
RelayFollows ==
    /\ RelayIsRight(relay, Gone)
    /\ (setting.streams /\ Closed /\ Len(call.text) = Len(worker.made)) => relay.buffer = <<>>
    /\ ~setting.streams => relay.buffer = <<>>

StreamInv == StreamTypeOK /\ MadeInOrder /\ CallFollows /\ RelayFollows

WorkerRecords == [at : {"running", "finishing", "ended"}, made : Seq(Chunks), broke : BOOLEAN, recorded : 0 .. 1]
CallRecords == [pc : {"waiting", "complete", "raising", "leaving"} \union Outcomes,
                text : Seq(1 .. MaxChunks), cancels : 0 .. 2]
RelayRecords == [buffer : Seq(1 .. MaxChunks), size : 0 .. 2 * MaxChunks, since : 0 .. Interval,
                 sent : Seq(Seq(1 .. MaxChunks)), count : Nat]

\* A record that is changed in several fields keeps its type.
LEMMA WorkerFits ==
  ASSUME NEW w, DOMAIN w = {"at", "made", "broke", "recorded"}, w = [f \in DOMAIN w |-> w[f]],
         w.at \in {"running", "finishing", "ended"}, w.made \in Seq(Chunks),
         w.broke \in BOOLEAN, w.recorded \in 0 .. 1
  PROVE  w \in WorkerRecords
<1>1. w = [at |-> w.at, made |-> w.made, broke |-> w.broke, recorded |-> w.recorded]
  OBVIOUS
<1> QED
  BY <1>1 DEF WorkerRecords

\* The same for the call's record.
LEMMA CallFits ==
  ASSUME NEW c, DOMAIN c = {"pc", "text", "cancels"}, c = [f \in DOMAIN c |-> c[f]],
         c.pc \in {"waiting", "complete", "raising", "leaving"} \union Outcomes,
         c.text \in Seq(1 .. MaxChunks), c.cancels \in 0 .. 2
  PROVE  c \in CallRecords
<1>1. c = [pc |-> c.pc, text |-> c.text, cancels |-> c.cancels]
  OBVIOUS
<1> QED
  BY <1>1 DEF CallRecords

\* And for the relay's.
LEMMA RelayFits ==
  ASSUME NEW r, DOMAIN r = {"buffer", "size", "since", "sent", "count"}, r = [f \in DOMAIN r |-> r[f]],
         r.buffer \in Seq(1 .. MaxChunks), r.size \in 0 .. 2 * MaxChunks, r.since \in 0 .. Interval,
         r.sent \in Seq(Seq(1 .. MaxChunks)), r.count \in Nat
  PROVE  r \in RelayRecords
<1>1. r = [buffer |-> r.buffer, size |-> r.size, since |-> r.since, sent |-> r.sent, count |-> r.count]
  OBVIOUS
<1> QED
  BY <1>1 DEF RelayRecords

\* What the records are.
LEMMA StreamTypes == StreamTypeOK =>
    /\ setting \in [streams : BOOLEAN, token : BOOLEAN]
    /\ worker \in WorkerRecords /\ call \in CallRecords /\ relay \in RelayRecords
    /\ queue \in Seq(Chunks \union {Done, Broken})
  BY DEF StreamTypeOK, WorkerRecords, CallRecords, RelayRecords

\* The invariant holds initially.
LEMMA StreamInitInv == StreamInit => StreamInv
<1> SUFFICES ASSUME StreamInit PROVE StreamInv
  OBVIOUS
<1>1. StreamTypeOK
  BY StreamConstants DEF StreamInit, StreamTypeOK, Chunks, Outcomes
<1>2. MadeInOrder
  BY DEF StreamInit, MadeInOrder, Running
<1>3. CallFollows
  BY DEF StreamInit, CallFollows, QueueIsTheRest, Rest, Ending, Running, OneCancelWaits
<1>4. RelayFollows
  BY DEF StreamInit, RelayFollows, RelayIsRight, Gone, InOrder, UpTo, AllShown, Closed
<1> QED
  BY <1>1, <1>2, <1>3, <1>4 DEF StreamInv

\* What the relay is told does not move when only the thread does.
LEMMA YieldsKeepsInv ==
  ASSUME StreamInv, NEW size \in 0 .. 2, NEW final \in BOOLEAN, Yields(size, final)
  PROVE  StreamInv'
<1> DEFINE m == Len(worker.made)
           chunk == [n |-> m + 1, size |-> size, final |-> final]
<1>1. /\ worker.made \in Seq(Chunks) /\ queue \in Seq(Chunks \cup {Done, Broken})
      /\ worker \in [at : {"running", "finishing", "ended"}, made : Seq(Chunks), broke : BOOLEAN,
                   recorded : 0 .. 1]
      /\ m \in Nat /\ m < MaxChunks /\ Running /\ ~Closed
      /\ worker' = [worker EXCEPT !.made = Append(worker.made, chunk)]
      /\ queue' = IF setting.streams THEN Append(queue, chunk) ELSE queue
      /\ UNCHANGED <<setting, call, relay>>
  BY DEF StreamInv, StreamTypeOK, Yields
<1>2. chunk \in Chunks
  BY <1>1, StreamConstants DEF Chunks
<1>3. /\ worker'.made = Append(worker.made, chunk) /\ worker'.made \in Seq(Chunks)
      /\ Len(worker'.made) = m + 1 /\ Running' /\ worker'.broke = worker.broke
      /\ worker'.recorded = worker.recorded /\ worker'.made[m + 1] = chunk
      /\ \A i \in 1 .. m : worker'.made[i] = worker.made[i]
  BY <1>1, <1>2 DEF Running
<1> HIDE DEF chunk, m
<1>4. StreamTypeOK'
  <2>1. queue' \in Seq(Chunks \cup {Done, Broken})
    BY <1>1, <1>2
  <2> QED
    BY <1>1, <1>2, <1>3, <2>1 DEF StreamInv, StreamTypeOK
<1>5. MadeInOrder'
  <2>1. \A i \in DOMAIN worker.made : ~worker.made[i].final
    BY <1>1 DEF StreamInv, MadeInOrder, Closed, Last, m
  <2> QED
    BY <1>1, <1>3, <2>1 DEF StreamInv, MadeInOrder, chunk, m, Running
<1>6. CallFollows'
  <2>1. ASSUME setting.streams, call.pc = "waiting" PROVE QueueIsTheRest'
    <3>1. /\ Len(queue) = m - Len(call.text) /\ Len(call.text) <= m /\ Len(call.text) \in Nat
          /\ \A i \in 1 .. m - Len(call.text) : queue[i] = worker.made[Len(call.text) + i]
      BY <1>1, <2>1 DEF StreamInv, StreamTypeOK, CallFollows, QueueIsTheRest, Rest, Ending, m
    <3>2. queue' = Append(queue, chunk) /\ Len(queue') = Len(queue) + 1 /\ queue'[Len(queue) + 1] = chunk
      BY <1>1, <1>2, <2>1
    <3>3. \A i \in 1 .. Len(queue) : queue'[i] = queue[i]
      BY <1>1, <1>2, <2>1
    <3>4. ASSUME NEW i \in 1 .. (m + 1) - Len(call.text) PROVE queue'[i] = worker'.made[Len(call.text) + i]
      <4> DEFINE n == Len(call.text)
      <4>0. /\ m \in Nat /\ n \in Nat /\ i \in 1 .. (m + 1) - n /\ n <= m
            /\ Len(queue) = m - n
        BY <1>1, <3>1
      <4> HIDE DEF n
      <4>1. CASE i = Len(queue) + 1
        <5>1. n + i = m + 1
          BY <4>0, <4>1
        <5> QED
          BY <5>1, <4>1, <3>2, <1>3 DEF n
      <4>2. CASE i # Len(queue) + 1
        <5>1. i \in 1 .. m - n /\ n + i \in 1 .. m /\ i \in 1 .. Len(queue)
          BY <4>0, <4>2
        <5> QED
          BY <5>1, <3>1, <3>3, <1>3 DEF n
      <4> QED
        BY <4>1, <4>2
    <3>5. Len(call.text)' = Len(call.text) /\ Len(queue') = (m + 1) - Len(call.text)
      BY <1>1, <3>1, <3>2, SMTT(30)
    <3>6. Ending' = 0
      BY <1>3 DEF Ending
    <3>7. call' = call
      BY <1>1
    <3> QED
      <4>1. Len(worker'.made) = m + 1 /\ Running' /\ Len(call.text) <= m + 1
        BY <1>1, <1>3, <3>1
      <4>2. Len(queue') = Rest(Len(call.text))' + 0
        BY <4>1, <3>1, <3>5, <3>7, <1>1 DEF Rest
      <4>3. \A i \in 1 .. Rest(Len(call.text))' : queue'[i] = worker'.made[Len(call.text)' + i]
        BY <4>1, <3>4, <3>7 DEF Rest
      <4> QED
        BY <4>1, <4>2, <4>3, <3>6, <3>7 DEF QueueIsTheRest
  <2> QED
    BY <1>1, <1>3, <2>1 DEF StreamInv, StreamTypeOK, CallFollows, OneCancelWaits, m, Running
<1>7. RelayFollows'
  <2>1. RelayIsRight(relay, Gone)' = RelayIsRight(relay, Gone)
    BY <1>1 DEF RelayIsRight, Gone, InOrder, UpTo, AllShown
  <2>2. Len(call.text)' # Len(worker.made)'
    BY <1>1, <1>3 DEF StreamInv, StreamTypeOK, CallFollows, m
  <2> QED
    BY <1>1, <2>1, <2>2 DEF StreamInv, RelayFollows
<1> QED
  BY <1>4, <1>5, <1>6, <1>7 DEF StreamInv

\* Two things handed over at once.
LEMMA TwoMore ==
  ASSUME NEW S, NEW q \in Seq(S), NEW a \in S, NEW b \in S
  PROVE  q \o <<a, b>> \in Seq(S)
<1>1. <<a, b>> \in Seq(S)
  OBVIOUS
<1> QED
  BY <1>1, ConcatProperties

\* A stream that ends by itself has its last chunk.
LEMMA EndsKeepsInv ==
  ASSUME StreamInv, StreamEnds
  PROVE  StreamInv'
<1>1. /\ worker.made \in Seq(Chunks) /\ queue \in Seq(Chunks \cup {Done, Broken})
      /\ worker \in [at : {"running", "finishing", "ended"}, made : Seq(Chunks), broke : BOOLEAN,
                   recorded : 0 .. 1]
      /\ worker.at = "running" /\ Closed
      /\ worker' = [worker EXCEPT !.at = "finishing", !.recorded = worker.recorded + 1]
      /\ queue' = IF setting.streams THEN Append(queue, Done) ELSE queue
      /\ UNCHANGED <<setting, call, relay>>
  BY DEF StreamInv, StreamTypeOK, StreamEnds, Running
<1>2. ~worker.broke /\ worker.recorded = 0
  BY <1>1 DEF StreamInv, MadeInOrder, Running
<1>3. /\ worker'.made = worker.made /\ worker'.at = "finishing" /\ ~Running'
      /\ worker'.broke = worker.broke /\ worker'.recorded = 1
  BY <1>1, <1>2 DEF Running
<1>4. StreamTypeOK'
  <2>1. queue' \in Seq(Chunks \cup {Done, Broken})
    BY <1>1
  <2>2. worker' \in [at : {"running", "finishing", "ended"}, made : Seq(Chunks), broke : BOOLEAN,
                    recorded : 0 .. 1]
    <3>1. DOMAIN worker' = {"at", "made", "broke", "recorded"} /\ worker' = [f \in DOMAIN worker' |-> worker'[f]]
      BY <1>1
    <3>2. /\ worker'.at \in {"running", "finishing", "ended"} /\ worker'.made \in Seq(Chunks)
          /\ worker'.broke \in BOOLEAN /\ worker'.recorded \in 0 .. 1
      BY <1>1, <1>3
    <3>3. worker' \in WorkerRecords
      BY <3>1, <3>2, WorkerFits
    <3> QED
      BY <3>3 DEF WorkerRecords
  <2> QED
    BY <1>1, <2>1, <2>2 DEF StreamInv, StreamTypeOK
<1>5. MadeInOrder'
  BY <1>1, <1>2, <1>3 DEF StreamInv, MadeInOrder, Closed
<1>6. CallFollows'
  <2>1. ASSUME setting.streams, call.pc = "waiting" PROVE QueueIsTheRest'
    <3>1. /\ Len(queue) = Len(worker.made) - Len(call.text) /\ Len(call.text) <= Len(worker.made)
          /\ Len(call.text) \in Nat /\ Len(worker.made) \in Nat
          /\ \A i \in 1 .. Len(worker.made) - Len(call.text) : queue[i] = worker.made[Len(call.text) + i]
      BY <1>1, <2>1 DEF StreamInv, StreamTypeOK, CallFollows, QueueIsTheRest, Rest, Ending, Running
    <3>2. Len(queue') = Len(queue) + 1 /\ queue'[Len(queue) + 1] = Done
      BY <1>1, <2>1
    <3>3. \A i \in 1 .. Len(queue) : queue'[i] = queue[i]
      BY <1>1, <2>1
    <3>4. \A i \in 1 .. Len(worker.made) - Len(call.text) : queue'[i] = worker.made[Len(call.text) + i]
      BY <3>1, <3>3
    <3> QED
      BY <1>1, <1>2, <1>3, <3>1, <3>2, <3>4 DEF QueueIsTheRest, Rest, Ending
  <2> QED
    BY <1>1, <1>2, <1>3, <2>1 DEF StreamInv, StreamTypeOK, CallFollows, OneCancelWaits, Running
<1>7. RelayFollows'
  <2>1. RelayIsRight(relay, Gone)' = RelayIsRight(relay, Gone)
    BY <1>1 DEF RelayIsRight, Gone, InOrder, UpTo, AllShown
  <2>2. Closed' = Closed
    BY <1>3 DEF Closed
  <2> QED
    BY <1>1, <1>3, <2>1, <2>2 DEF StreamInv, RelayFollows
<1> QED
  BY <1>4, <1>5, <1>6, <1>7 DEF StreamInv

\* A stream that breaks off says so after the chunks.
LEMMA BreaksKeepsInv ==
  ASSUME StreamInv, StreamBreaks
  PROVE  StreamInv'
<1>1. /\ worker.made \in Seq(Chunks) /\ queue \in Seq(Chunks \cup {Done, Broken})
      /\ worker \in [at : {"running", "finishing", "ended"}, made : Seq(Chunks), broke : BOOLEAN,
                   recorded : 0 .. 1]
      /\ worker.at = "running" /\ Broken \in Chunks \cup {Done, Broken} /\ Done \in Chunks \cup {Done, Broken}
      /\ worker' = [worker EXCEPT !.at = "finishing", !.broke = TRUE, !.recorded = worker.recorded + 1]
      /\ queue' = IF setting.streams THEN queue \o <<Broken, Done>> ELSE queue
      /\ UNCHANGED <<setting, call, relay>>
  BY DEF StreamInv, StreamTypeOK, StreamBreaks, Running
<1>2. worker.recorded = 0
  BY <1>1 DEF StreamInv, MadeInOrder, Running
<1>3. /\ worker'.made = worker.made /\ worker'.at = "finishing" /\ ~Running'
      /\ worker'.broke = TRUE /\ worker'.recorded = 1
  BY <1>1, <1>2 DEF Running
<1>4. StreamTypeOK'
  <2>1. queue' \in Seq(Chunks \cup {Done, Broken})
    BY <1>1, TwoMore
  <2>2. worker' \in [at : {"running", "finishing", "ended"}, made : Seq(Chunks), broke : BOOLEAN,
                    recorded : 0 .. 1]
    <3>1. DOMAIN worker' = {"at", "made", "broke", "recorded"} /\ worker' = [f \in DOMAIN worker' |-> worker'[f]]
      BY <1>1
    <3>2. /\ worker'.at \in {"running", "finishing", "ended"} /\ worker'.made \in Seq(Chunks)
          /\ worker'.broke \in BOOLEAN /\ worker'.recorded \in 0 .. 1
      BY <1>1, <1>3
    <3>3. worker' \in WorkerRecords
      BY <3>1, <3>2, WorkerFits
    <3> QED
      BY <3>3 DEF WorkerRecords
  <2> QED
    BY <1>1, <2>1, <2>2 DEF StreamInv, StreamTypeOK
<1>5. MadeInOrder'
  BY <1>1, <1>2, <1>3 DEF StreamInv, MadeInOrder, Closed
<1>6. CallFollows'
  <2>1. ASSUME setting.streams, call.pc = "waiting" PROVE QueueIsTheRest'
    <3>1. /\ Len(queue) = Len(worker.made) - Len(call.text) /\ Len(call.text) <= Len(worker.made)
          /\ Len(call.text) \in Nat /\ Len(worker.made) \in Nat
          /\ \A i \in 1 .. Len(worker.made) - Len(call.text) : queue[i] = worker.made[Len(call.text) + i]
      BY <1>1, <2>1 DEF StreamInv, StreamTypeOK, CallFollows, QueueIsTheRest, Rest, Ending, Running
    <3>2. Len(queue') = Len(queue) + 2 /\ queue'[Len(queue) + 1] = Broken
      BY <1>1, <2>1
    <3>3. \A i \in 1 .. Len(queue) : queue'[i] = queue[i]
      BY <1>1, <2>1
    <3>4. \A i \in 1 .. Len(worker.made) - Len(call.text) : queue'[i] = worker.made[Len(call.text) + i]
      BY <3>1, <3>3
    <3> QED
      BY <1>1, <1>2, <1>3, <3>1, <3>2, <3>4, ZenonT(30) DEF QueueIsTheRest, Rest, Ending
  <2>2. call.pc \notin {"complete", "text", "empty"}
    BY <1>1 DEF StreamInv, CallFollows, Running
  <2> QED
    BY <1>1, <1>2, <1>3, <2>1, <2>2 DEF StreamInv, StreamTypeOK, CallFollows, OneCancelWaits, Running
<1>7. RelayFollows'
  <2>1. RelayIsRight(relay, Gone)' = RelayIsRight(relay, Gone)
    BY <1>1 DEF RelayIsRight, Gone, InOrder, UpTo, AllShown
  <2>2. Closed' = Closed
    BY <1>3 DEF Closed
  <2> QED
    BY <1>1, <1>3, <2>1, <2>2 DEF StreamInv, RelayFollows
<1> QED
  BY <1>4, <1>5, <1>6, <1>7 DEF StreamInv

\* The thread's own end, a failed call's, a cancel and the passing of time
\* leave what was made, handed over and taken as it is.
LEMMA ThreadEndKeepsInv ==
  ASSUME StreamInv, ThreadEnds
  PROVE  StreamInv'
<1>1. /\ worker \in [at : {"running", "finishing", "ended"}, made : Seq(Chunks), broke : BOOLEAN,
                   recorded : 0 .. 1]
      /\ worker.at = "finishing" /\ worker' = [worker EXCEPT !.at = "ended"]
      /\ UNCHANGED <<setting, queue, call, relay>>
  BY DEF StreamInv, StreamTypeOK, ThreadEnds
<1>2. /\ worker'.made = worker.made /\ worker'.broke = worker.broke /\ worker'.recorded = worker.recorded
      /\ ~Running /\ ~Running' /\ Closed' = Closed
  BY <1>1 DEF Running, Closed
<1>3. RelayIsRight(relay, Gone)' = RelayIsRight(relay, Gone)
  BY <1>1 DEF RelayIsRight, Gone, InOrder, UpTo, AllShown
<1>4. QueueIsTheRest' = QueueIsTheRest
  BY <1>1, <1>2 DEF QueueIsTheRest, Rest, Ending
<1>5. StreamTypeOK'
  BY <1>1, <1>2 DEF StreamInv, StreamTypeOK
<1>6. MadeInOrder'
  BY <1>1, <1>2 DEF StreamInv, MadeInOrder
<1>7. CallFollows'
  BY <1>1, <1>2, <1>4 DEF StreamInv, CallFollows, OneCancelWaits
<1>8. RelayFollows'
  BY <1>1, <1>2, <1>3 DEF StreamInv, RelayFollows
<1> QED
  BY <1>5, <1>6, <1>7, <1>8 DEF StreamInv

\* What is sent next continues what was sent.
LEMMA SentInOrder ==
  ASSUME NEW sent \in Seq(Seq(1 .. MaxChunks)), NEW gone \in Nat, NEW b \in Seq(1 .. MaxChunks),
         InOrder(sent), UpTo(sent, gone), \A i \in DOMAIN b : b[i] = gone + i
  PROVE  /\ InOrder(Append(sent, b)) /\ UpTo(Append(sent, b), gone + Len(b))
         /\ AllShown(sent, gone) => AllShown(Append(sent, b), gone + Len(b))
<1> DEFINE more == Append(sent, b)
<1>1. /\ more \in Seq(Seq(1 .. MaxChunks)) /\ Len(more) = Len(sent) + 1 /\ more[Len(sent) + 1] = b
      /\ \A k \in 1 .. Len(sent) : more[k] = sent[k]
      /\ Len(sent) \in Nat /\ DOMAIN sent = 1 .. Len(sent) /\ DOMAIN more = 1 .. Len(sent) + 1
  OBVIOUS
<1>2. /\ Len(b) \in Nat /\ DOMAIN b = 1 .. Len(b)
      /\ \A k \in DOMAIN sent : DOMAIN sent[k] = 1 .. Len(sent[k]) /\ \A i \in DOMAIN sent[k] : sent[k][i] \in Nat
  <2>1. ASSUME NEW k \in DOMAIN sent PROVE DOMAIN sent[k] = 1 .. Len(sent[k]) /\ \A i \in DOMAIN sent[k] : sent[k][i] \in Nat
    <3>1. sent[k] \in Seq(1 .. MaxChunks)
      BY <2>1
    <3> QED
      BY <3>1, StreamConstants
  <2> QED
    BY <2>1
<1> HIDE DEF more
<1>3. InOrder(more)
  <2> SUFFICES ASSUME NEW k \in DOMAIN more, NEW l \in DOMAIN more, NEW i \in DOMAIN more[k], NEW j \in DOMAIN more[l],
                      k < l \/ (k = l /\ i < j)
               PROVE  more[k][i] < more[l][j]
    BY DEF InOrder
  <2>1. CASE k \in 1 .. Len(sent) /\ l \in 1 .. Len(sent)
    BY <1>1, <2>1 DEF InOrder
  <2>2. CASE k \in 1 .. Len(sent) /\ l = Len(sent) + 1
    <3>1. sent[k][i] <= gone /\ sent[k][i] \in Nat /\ more[k] = sent[k]
      BY <1>1, <1>2, <2>2 DEF UpTo
    <3>2. more[l][j] = gone + j /\ j \in Nat \ {0}
      <4>1. more[l] = b
        BY <1>1, <2>2
      <4>2. j \in 1 .. Len(b) /\ b[j] = gone + j
        BY <4>1, <1>2
      <4> QED
        BY <1>2, <4>1, <4>2
    <3> QED
      BY <3>1, <3>2
  <2>3. CASE k = Len(sent) + 1
    <3>1. l = k /\ i < j
      BY <1>1, <2>3
    <3>2. more[k][i] = gone + i /\ more[l][j] = gone + j /\ i \in Nat /\ j \in Nat
      <4>1. more[l] = b /\ more[k] = b
        BY <1>1, <2>3, <3>1
      <4>2. j \in 1 .. Len(b) /\ b[j] = gone + j /\ i \in 1 .. Len(b) /\ b[i] = gone + i
        BY <4>1, <1>2
      <4> QED
        BY <1>2, <4>1, <4>2
    <3> QED
      BY <3>1, <3>2
  <2>4. Len(sent) \in Nat /\ k \in 1 .. Len(sent) + 1 /\ l \in 1 .. Len(sent) + 1
    BY <1>1
  <2> DEFINE n == Len(sent)
  <2>5. (k \in 1 .. n /\ l \in 1 .. n) \/ (k \in 1 .. n /\ l = n + 1) \/ k = n + 1
    <3> HIDE DEF n
    <3>1. n \in Nat /\ k \in 1 .. n + 1 /\ l \in 1 .. n + 1
      BY <2>4 DEF n
    <3> QED
      BY <3>1
  <2> QED
    BY <2>1, <2>2, <2>3, <2>5
<1>4. UpTo(more, gone + Len(b))
  <2> SUFFICES ASSUME NEW k \in DOMAIN more, NEW i \in DOMAIN more[k] PROVE more[k][i] <= gone + Len(b)
    BY DEF UpTo
  <2>1. CASE k \in 1 .. Len(sent)
    BY <1>1, <1>2, <2>1 DEF UpTo
  <2>2. CASE k = Len(sent) + 1
    <3>1. more[k] = b
      BY <1>1, <2>2
    <3>2. i \in 1 .. Len(b) /\ b[i] = gone + i
      BY <3>1, <1>2
    <3> QED
      BY <1>2, <3>1, <3>2
  <2> QED
    BY <1>1, <2>1, <2>2
<1>5. ASSUME AllShown(sent, gone) PROVE AllShown(more, gone + Len(b))
  <2> SUFFICES ASSUME NEW n \in 1 .. gone + Len(b) PROVE \E k \in DOMAIN more : n \in Range(more[k])
    BY DEF AllShown
  <2>1. CASE n <= gone
    <3>1. PICK k \in DOMAIN sent : n \in Range(sent[k])
      BY <1>5, <2>1, <1>2 DEF AllShown
    <3> QED
      BY <1>1, <3>1
  <2>2. CASE n > gone
    <3>1. n - gone \in DOMAIN b /\ b[n - gone] = n
      BY <1>2, <2>2
    <3>2. n \in Range(b)
      BY <3>1 DEF Range
    <3>3. Len(sent) + 1 \in DOMAIN more /\ more[Len(sent) + 1] = b
      BY <1>1
    <3> QED
      BY <3>2, <3>3
  <2> QED
    BY <1>2, <2>1, <2>2
<1> QED
  BY <1>3, <1>4, <1>5 DEF more

\* A send, whether it succeeds, fails or is not made, leaves the relay right:
\* the text it was given counts as gone.
LEMMA SendsRight ==
  ASSUME NEW r \in RelayRecords, NEW gone \in Nat, NEW b \in Seq(1 .. MaxChunks), r.buffer = <<>>,
         RelayIsRight(r, gone), \A i \in DOMAIN b : b[i] = gone + i,
         NEW q \in Sends(r, b)
  PROVE  q \in RelayRecords /\ q.buffer = <<>> /\ RelayIsRight(q, gone + Len(b))
<1>0. /\ r.sent \in Seq(Seq(1 .. MaxChunks)) /\ r.count \in Nat /\ Len(r.sent) \in Nat /\ Len(b) \in Nat
      /\ r.size <= 0 /\ r.size \in Nat /\ Len(r.buffer) = 0
      /\ DOMAIN r = {"buffer", "size", "since", "sent", "count"} /\ r = [f \in DOMAIN r |-> r[f]]
      /\ r.size \in 0 .. 2 * MaxChunks /\ r.since \in 0 .. Interval /\ r.buffer \in Seq(1 .. MaxChunks)
  BY StreamConstants DEF RelayRecords, RelayIsRight
<1>1. /\ InOrder(Append(r.sent, b)) /\ UpTo(Append(r.sent, b), gone + Len(b))
      /\ AllShown(r.sent, gone) => AllShown(Append(r.sent, b), gone + Len(b))
  BY <1>0, SentInOrder DEF RelayIsRight
<1>2. UpTo(r.sent, gone + Len(b))
  <2>1. ASSUME NEW k \in DOMAIN r.sent, NEW i \in DOMAIN r.sent[k] PROVE r.sent[k][i] <= gone + Len(b)
    <3>1. r.sent[k] \in Seq(1 .. MaxChunks)
      BY <1>0
    <3>2. r.sent[k][i] \in Nat
      BY <3>1, StreamConstants
    <3> QED
      BY <1>0, <3>2 DEF RelayIsRight, UpTo
  <2> QED
    BY <2>1 DEF UpTo
<1>3. CASE ~setting.token
  <2>1. q = r
    BY <1>3 DEF Sends
  <2> QED
    BY <1>0, <1>2, <1>3, <2>1 DEF RelayIsRight
<1>4. CASE setting.token /\ q = [r EXCEPT !.count = r.count + 1]
  <2>1. q.count = r.count + 1 /\ q.sent = r.sent /\ q.buffer = <<>> /\ q.size = r.size
    BY <1>0, <1>4
  <2>2. q \in RelayRecords
    <3>1. DOMAIN r = {"buffer", "size", "since", "sent", "count"}
      BY <1>0
    <3>2. DOMAIN q = {"buffer", "size", "since", "sent", "count"} /\ q = [f \in DOMAIN q |-> q[f]]
      BY <3>1, <1>4
    <3>3. /\ q.buffer \in Seq(1 .. MaxChunks) /\ q.size \in 0 .. 2 * MaxChunks /\ q.count \in Nat
          /\ q.sent \in Seq(Seq(1 .. MaxChunks))
      BY <1>0, <2>1
    <3>4. q.since \in 0 .. Interval
      BY <1>0, <1>4
    <3> QED
      BY <3>2, <3>3, <3>4, RelayFits
  <2> QED
    BY <1>0, <1>2, <2>1, <2>2 DEF RelayIsRight
<1>5. CASE setting.token /\ q = [r EXCEPT !.count = r.count + 1, !.sent = Append(r.sent, b), !.since = 0]
  <2>1. q.count = r.count + 1 /\ q.sent = Append(r.sent, b) /\ q.buffer = <<>> /\ q.size = r.size /\ q.since = 0
    BY <1>0, <1>5
  <2>2. DOMAIN q = {"buffer", "size", "since", "sent", "count"} /\ q = [f \in DOMAIN q |-> q[f]]
    <3>1. DOMAIN r = {"buffer", "size", "since", "sent", "count"}
      BY <1>0
    <3> QED
      BY <3>1, <1>5
  <2>3. q.sent \in Seq(Seq(1 .. MaxChunks)) /\ Len(q.sent) = Len(r.sent) + 1
    BY <1>0, <2>1
  <2>4. q.buffer \in Seq(1 .. MaxChunks) /\ q.size \in 0 .. 2 * MaxChunks /\ q.since \in 0 .. Interval /\ q.count \in Nat
    BY <1>0, <2>1, StreamConstants
  <2>5. q \in RelayRecords
    BY <2>2, <2>3, <2>4, RelayFits
  <2>6. (q.count = Len(q.sent)) => r.count = Len(r.sent)
    BY <1>0, <2>1, <2>3
  <2>7. RelayIsRight(q, gone + Len(b))
    BY <1>0, <1>1, <1>5, <2>1, <2>3, <2>6 DEF RelayIsRight
  <2> QED
    BY <2>1, <2>5, <2>7
<1> QED
  BY <1>3, <1>4, <1>5 DEF Sends

\* A chunk joins the buffer, and the buffer is what it was or is sent.
LEMMA NotifiedRight ==
  ASSUME NEW chunk \in Chunks, NEW gone \in Nat, relay \in RelayRecords, RelayIsRight(relay, gone),
         chunk.n = gone + Len(relay.buffer) + 1,
         NEW q \in Notified(chunk)
  PROVE  /\ q \in RelayRecords
         /\ \/ q.buffer = <<>> /\ RelayIsRight(q, gone + Len(relay.buffer) + 1)
            \/ ~chunk.final /\ Len(q.buffer) = Len(relay.buffer) + 1 /\ RelayIsRight(q, gone)
<1> DEFINE b == Append(relay.buffer, chunk.n)
           r == [relay EXCEPT !.buffer = b, !.size = relay.size + chunk.size]
           emptied == [r EXCEPT !.buffer = <<>>, !.size = 0]
<1>1. /\ chunk.n \in 1 .. MaxChunks /\ chunk.size \in 0 .. 2 /\ chunk.final \in BOOLEAN
      /\ DOMAIN relay = {"buffer", "size", "since", "sent", "count"}
      /\ relay.buffer \in Seq(1 .. MaxChunks) /\ relay.size \in 0 .. 2 * MaxChunks /\ relay.since \in 0 .. Interval
      /\ relay.sent \in Seq(Seq(1 .. MaxChunks)) /\ relay.count \in Nat
      /\ relay.size <= 2 * Len(relay.buffer) /\ Len(relay.buffer) \in Nat /\ MaxChunks \in Nat
      /\ \A i \in DOMAIN relay.buffer : relay.buffer[i] = gone + i
  BY StreamConstants DEF Chunks, RelayRecords, RelayIsRight
<1>2. /\ b \in Seq(1 .. MaxChunks) /\ Len(b) = Len(relay.buffer) + 1 /\ b[Len(relay.buffer) + 1] = chunk.n
      /\ \A i \in 1 .. Len(relay.buffer) : b[i] = relay.buffer[i]
      /\ DOMAIN b = 1 .. Len(relay.buffer) + 1 /\ DOMAIN relay.buffer = 1 .. Len(relay.buffer)
  BY <1>1
<1> HIDE DEF b
<1>3. \A i \in DOMAIN b : b[i] = gone + i
  <2> SUFFICES ASSUME NEW i \in DOMAIN b PROVE b[i] = gone + i
    OBVIOUS
  <2>1. CASE i = Len(relay.buffer) + 1
    <3>1. gone + i = gone + Len(relay.buffer) + 1
      BY <1>1, <2>1
    <3> QED
      BY <1>2, <2>1, <3>1
  <2>2. CASE i \in 1 .. Len(relay.buffer)
    BY <1>1, <1>2, <2>2
  <2> QED
    BY <1>1, <1>2, <2>1, <2>2
<1>4. /\ DOMAIN r = {"buffer", "size", "since", "sent", "count"} /\ r = [f \in DOMAIN r |-> r[f]]
      /\ r.buffer = b /\ r.size = relay.size + chunk.size /\ r.since = relay.since /\ r.sent = relay.sent
      /\ r.count = relay.count
  BY <1>1
<1> HIDE DEF r
<1>5. r \in RelayRecords /\ r.size <= 2 * Len(b)
  <2>1. Len(relay.buffer) + 1 <= MaxChunks
    BY <1>1
  <2>2. r.size \in 0 .. 2 * MaxChunks /\ r.size <= 2 * Len(b)
    <3> DEFINE k == Len(relay.buffer)
               x == relay.size
               y == chunk.size
    <3>1. k + 1 <= MaxChunks /\ k \in Nat /\ x \in Nat /\ y \in 0 .. 2 /\ x <= 2 * k /\ MaxChunks \in Nat
      BY <2>1, <1>1
    <3>2. r.size = x + y /\ Len(b) = k + 1
      BY <1>2, <1>4
    <3> HIDE DEF k, x, y
    <3>3. x + y \in 0 .. 2 * MaxChunks /\ x + y <= 2 * (k + 1)
      BY <3>1
    <3> QED
      BY <3>2, <3>3
  <2>3. r.buffer \in Seq(1 .. MaxChunks) /\ r.since \in 0 .. Interval /\ r.sent \in Seq(Seq(1 .. MaxChunks)) /\ r.count \in Nat
    BY <1>1, <1>2, <1>4
  <2> QED
    BY <1>4, <2>2, <2>3, RelayFits
<1>6. RelayIsRight(r, gone)
  BY <1>3, <1>4, <1>5 DEF RelayIsRight
<1>7. CASE q = r /\ ~chunk.final
  BY <1>2, <1>4, <1>5, <1>6, <1>7
<1>8. CASE q \in Sends(emptied, b)
  <2>1. DOMAIN r = {"buffer", "size", "since", "sent", "count"}
    BY <1>4
  <2>2. /\ DOMAIN emptied = {"buffer", "size", "since", "sent", "count"} /\ emptied = [f \in DOMAIN emptied |-> emptied[f]]
        /\ emptied.buffer = <<>> /\ emptied.size = 0 /\ emptied.since = r.since /\ emptied.sent = r.sent
        /\ emptied.count = r.count
    BY <2>1
  <2> HIDE DEF emptied
  <2>3. emptied.buffer \in Seq(1 .. MaxChunks) /\ emptied.size \in 0 .. 2 * MaxChunks /\ emptied.since \in 0 .. Interval
    BY <2>2, <1>1, <1>4
  <2>4. emptied.sent \in Seq(Seq(1 .. MaxChunks)) /\ emptied.count \in Nat
    BY <2>2, <1>1, <1>4
  <2>5. emptied \in RelayRecords
    BY <2>2, <2>3, <2>4, RelayFits
  <2>6. RelayIsRight(emptied, gone)
    BY <1>6, <2>2 DEF RelayIsRight
  <2>7. q \in RelayRecords /\ q.buffer = <<>> /\ RelayIsRight(q, gone + Len(b))
    BY <1>2, <1>3, <1>8, <2>2, <2>5, <2>6, SendsRight
  <2>8. gone + Len(b) = gone + Len(relay.buffer) + 1
    BY <1>1, <1>2
  <2> QED
    BY <2>7, <2>8
<1>9. (q = r /\ ~chunk.final) \/ q \in Sends(emptied, b)
  BY <1>4 DEF Notified, Flushed, r, b
<1> QED
  BY <1>7, <1>8, <1>9

\* The loop takes the chunk that comes next.
LEMMA TakesChunkKeepsInv ==
  ASSUME StreamInv, TakesChunk
  PROVE  StreamInv'
<1> DEFINE n == Len(call.text)
           m == Len(worker.made)
           chunk == Head(queue)
<1>1. /\ worker \in WorkerRecords /\ call \in CallRecords /\ relay \in RelayRecords
      /\ queue \in Seq(Chunks \union {Done, Broken}) /\ setting \in [streams : BOOLEAN, token : BOOLEAN]
  BY StreamTypes DEF StreamInv
<1>2. /\ call.pc = "waiting" /\ queue # <<>> /\ chunk \in Chunks /\ queue' = Tail(queue)
      /\ call' = [call EXCEPT !.text = Append(call.text, chunk.n)]
      /\ relay' \in Notified(chunk)
      /\ UNCHANGED <<setting, worker>>
  BY DEF TakesChunk
<1>3. worker.made \in Seq(Chunks) /\ call.text \in Seq(1 .. MaxChunks) /\ n \in Nat /\ m \in Nat /\ Len(queue) \in Nat \ {0}
  BY <1>1, <1>2 DEF WorkerRecords, CallRecords
<1>4. setting.streams /\ QueueIsTheRest
  BY <1>2 DEF StreamInv, CallFollows
<1>5. /\ n <= m /\ Len(queue) = (m - n) + Ending
      /\ \A i \in 1 .. m - n : queue[i] = worker.made[n + i]
      /\ (~Running /\ ~worker.broke) => queue[m - n + 1] = Done
      /\ (~Running /\ worker.broke) => queue[m - n + 1] = Broken
  BY <1>4 DEF QueueIsTheRest, Rest
<1>6. chunk = queue[1]
  BY <1>1, <1>2
<1>7. chunk # Done /\ chunk # Broken
  BY <1>2, StreamConstants DEF Chunks, Done, Broken
<1> HIDE DEF n, m, chunk
<1>8. n < m /\ chunk = worker.made[n + 1] /\ chunk.n = n + 1
  <2>1. n # m
    <3> SUFFICES ASSUME n = m PROVE FALSE
      OBVIOUS
    <3>1. ~Running
      BY <1>3, <1>5 DEF Ending
    <3> QED
      BY <1>3, <1>5, <1>6, <1>7, <3>1
  <2>2. 1 \in 1 .. m - n /\ n + 1 \in 1 .. m
    BY <2>1, <1>3, <1>5
  <2>3. chunk = worker.made[n + 1]
    BY <2>2, <1>5, <1>6
  <2>4. worker.made[n + 1].n = n + 1
    BY <2>2, <1>3 DEF StreamInv, MadeInOrder, m
  <2> QED
    BY <2>1, <2>3, <2>4, <1>3, <1>5
<1>9. /\ call' \in CallRecords /\ call'.text = Append(call.text, n + 1) /\ Len(call'.text) = n + 1
      /\ call'.pc = "waiting" /\ call'.cancels = call.cancels
  <2>1. n + 1 \in 1 .. MaxChunks
    BY <1>2, <1>8 DEF Chunks
  <2>2. Append(call.text, n + 1) \in Seq(1 .. MaxChunks) /\ Len(Append(call.text, n + 1)) = n + 1
    BY <2>1, <1>3 DEF n
  <2>3. call' = [call EXCEPT !.text = Append(call.text, n + 1)]
    BY <1>2, <1>8
  <2>4. call' \in CallRecords /\ call'.text = Append(call.text, n + 1)
    BY <2>2, <2>3, <1>1 DEF CallRecords
  <2> QED
    BY <2>2, <2>3, <2>4, <1>1, <1>2 DEF CallRecords
<1>10. /\ queue' \in Seq(Chunks \union {Done, Broken}) /\ Len(queue') = Len(queue) - 1
       /\ \A i \in 1 .. Len(queue) - 1 : queue'[i] = queue[i + 1]
  BY <1>1, <1>2
<1>11. /\ relay' \in RelayRecords
       /\ \/ relay'.buffer = <<>> /\ RelayIsRight(relay', n + 1)
          \/ ~chunk.final /\ Len(relay'.buffer) = Len(relay.buffer) + 1 /\ RelayIsRight(relay', n - Len(relay.buffer))
  <2> DEFINE gone == n - Len(relay.buffer)
  <2>1. RelayIsRight(relay, gone) /\ gone \in Nat
    BY <1>4 DEF StreamInv, RelayFollows, RelayIsRight, Gone, n
  <2>2. Len(relay.buffer) \in Nat
    BY <1>1 DEF RelayRecords
  <2>3. gone + Len(relay.buffer) + 1 = n + 1
    BY <2>2, <1>3
  <2> HIDE DEF gone
  <2>4. chunk.n = gone + Len(relay.buffer) + 1 /\ chunk \in Chunks /\ relay' \in Notified(chunk)
    BY <1>2, <1>8, <2>3
  <2>5. /\ relay' \in RelayRecords
        /\ \/ relay'.buffer = <<>> /\ RelayIsRight(relay', gone + Len(relay.buffer) + 1)
           \/ ~chunk.final /\ Len(relay'.buffer) = Len(relay.buffer) + 1 /\ RelayIsRight(relay', gone)
    BY <1>1, <2>1, <2>4, NotifiedRight
  <2> QED
    BY <2>3, <2>5 DEF gone
<1>12. StreamTypeOK'
  BY <1>1, <1>2, <1>9, <1>10, <1>11 DEF StreamTypeOK, WorkerRecords, CallRecords, RelayRecords
<1>13. MadeInOrder'
  BY <1>2 DEF StreamInv, MadeInOrder, Running, Closed
<1>14. CallFollows'
  <2>1. Ending' = Ending /\ Running' = Running /\ worker' = worker
    BY <1>2 DEF Ending, Running
  <2>2. QueueIsTheRest'
    <3>1. n + 1 <= m /\ Len(queue') = (m - (n + 1)) + Ending
      BY <1>3, <1>5, <1>8, <1>10 DEF Ending
    <3>2. \A i \in 1 .. m - (n + 1) : queue'[i] = worker.made[(n + 1) + i]
      <4> SUFFICES ASSUME NEW i \in 1 .. m - (n + 1) PROVE queue'[i] = worker.made[(n + 1) + i]
        OBVIOUS
      <4>1. i + 1 \in 1 .. m - n /\ i \in 1 .. Len(queue) - 1 /\ n + (i + 1) = (n + 1) + i
        BY <1>3, <1>5, <1>8 DEF Ending
      <4> QED
        BY <4>1, <1>5, <1>10
    <3>3. ~Running => queue'[m - (n + 1) + 1] = queue[m - n + 1]
      <4>1. ~Running => m - n \in 1 .. Len(queue) - 1
        BY <1>3, <1>5, <1>8 DEF Ending
      <4>2. m - (n + 1) + 1 = m - n
        BY <1>3
      <4> QED
        BY <4>1, <4>2, <1>10
    <3> QED
      BY <1>5, <1>9, <2>1, <3>1, <3>2, <3>3 DEF QueueIsTheRest, Rest, m
  <2>3. \A i \in DOMAIN call'.text : call'.text[i] = i
    <3>1. \A i \in DOMAIN call.text : call.text[i] = i
      BY DEF StreamInv, CallFollows
    <3> QED
      BY <3>1, <1>3, <1>9 DEF n
  <2>4. Len(call'.text) <= Len(worker'.made)
    BY <1>3, <1>8, <1>9, <2>1 DEF m
  <2>5. call'.cancels = 0
    BY <1>2, <1>9 DEF StreamInv, CallFollows
  <2> QED
    BY <1>2, <1>4, <1>9, <2>2, <2>3, <2>4, <2>5 DEF CallFollows, OneCancelWaits
<1>15. RelayFollows'
  <2>1. Gone' = n + 1 - Len(relay'.buffer)
    <3>1. setting'.streams
      BY <1>2, <1>4
    <3>2. Len(call'.text) = n + 1
      BY <1>9
    <3>3. Gone' = Len(call'.text) - Len(relay'.buffer)
      BY <3>1 DEF Gone
    <3>4. Len(relay'.buffer) \in Nat
      BY <1>11 DEF RelayRecords
    <3> QED
      BY <3>2, <3>3, <3>4, <1>3
  <2>2. RelayIsRight(relay', n + 1 - Len(relay'.buffer))
    <3>1. CASE relay'.buffer = <<>> /\ RelayIsRight(relay', n + 1)
      <4>1. Len(relay'.buffer) = 0
        BY <3>1
      <4>2. n + 1 - Len(relay'.buffer) = n + 1
        BY <4>1, <1>3
      <4> QED
        BY <3>1, <4>2
    <3>2. CASE ~chunk.final /\ Len(relay'.buffer) = Len(relay.buffer) + 1 /\ RelayIsRight(relay', n - Len(relay.buffer))
      <4>1. Len(relay.buffer) \in Nat
        BY <1>1 DEF RelayRecords
      <4>2. n + 1 - Len(relay'.buffer) = n - Len(relay.buffer)
        BY <3>2, <4>1, <1>3
      <4> QED
        BY <3>2, <4>2
    <3> QED
      BY <1>11, <3>1, <3>2
  <2>3. RelayIsRight(relay, Gone)'
    BY <1>2, <2>1, <2>2 DEF RelayIsRight
  <2>4. ASSUME Closed', Len(call'.text) = Len(worker'.made) PROVE relay'.buffer = <<>>
    <3>1. n + 1 = m /\ worker' = worker
      BY <1>2, <1>9, <2>4 DEF m
    <3>2. chunk.final
      BY <3>1, <1>8, <2>4, <1>3 DEF Closed, Last, m
    <3> QED
      BY <3>2, <1>11
  <2> QED
    BY <1>2, <1>4, <2>3, <2>4 DEF RelayFollows
<1> QED
  BY <1>12, <1>13, <1>14, <1>15 DEF StreamInv

\* The call moves on, and nothing else does but that it has taken the end.
LEMMA CallMovesOn ==
  ASSUME StreamInv, UNCHANGED <<setting, worker, relay>>,
         call' \in CallRecords, call'.text = call.text, call'.pc # "waiting",
         queue' \in Seq(Chunks \union {Done, Broken}), ~setting.streams => queue' = queue,
         call'.pc \in {"complete", "text", "empty"} =>
            ~Running /\ ~worker.broke /\ Len(call.text) = Len(worker.made),
         call'.pc \in {"raising", "error"} => ~Running,
         call'.pc \notin {"leaving", "cancelled"} => call'.cancels = 0,
         call'.pc = "leaving" => call'.cancels = 1 /\ setting.streams,
         (call'.pc = "cancelled" /\ setting.streams /\ call'.cancels = 1) => ~Running
  PROVE  StreamInv'
<1>1. StreamTypeOK'
  BY DEF StreamInv, StreamTypeOK, CallRecords
<1>2. Running' = Running /\ Closed' = Closed
  BY DEF Running, Closed
<1>3. MadeInOrder'
  BY <1>2 DEF StreamInv, MadeInOrder
<1>4. CallFollows'
  BY <1>2 DEF StreamInv, CallFollows, OneCancelWaits
<1>5. RelayFollows'
  <2>1. RelayIsRight(relay, Gone)' = RelayIsRight(relay, Gone)
    BY DEF RelayIsRight, Gone, InOrder, UpTo, AllShown
  <2> QED
    BY <1>2, <2>1 DEF StreamInv, RelayFollows
<1> QED
  BY <1>1, <1>3, <1>4, <1>5 DEF StreamInv

\* Done is only taken when every chunk was, and nothing is taken after an error.
LEMMA TakesEndKeepsInv ==
  ASSUME StreamInv, TakesEnd
  PROVE  StreamInv'
<1> DEFINE n == Len(call.text)
           m == Len(worker.made)
<1>1. /\ worker \in WorkerRecords /\ call \in CallRecords
      /\ queue \in Seq(Chunks \union {Done, Broken}) /\ queue # <<>> /\ queue' = Tail(queue)
      /\ call.pc = "waiting" /\ queue[1] \in {Done, Broken}
      /\ call' = [call EXCEPT !.pc = IF queue[1] = Done THEN "complete" ELSE "raising"]
      /\ UNCHANGED <<setting, worker, relay>>
  BY StreamTypes DEF StreamInv, TakesEnd
<1>2. worker.made \in Seq(Chunks) /\ n \in Nat /\ m \in Nat /\ Len(queue) \in Nat \ {0}
  BY <1>1 DEF WorkerRecords, CallRecords
<1>3. setting.streams /\ QueueIsTheRest
  BY <1>1 DEF StreamInv, CallFollows
<1>4. /\ n <= m /\ Len(queue) = (m - n) + Ending
      /\ \A i \in 1 .. m - n : queue[i] = worker.made[n + i]
      /\ (~Running /\ ~worker.broke) => queue[m - n + 1] = Done
      /\ (~Running /\ worker.broke) => queue[m - n + 1] = Broken
  BY <1>3 DEF QueueIsTheRest, Rest
<1>5. Done # Broken /\ Done \notin Chunks /\ Broken \notin Chunks
  BY StreamConstants DEF Chunks, Done, Broken
<1> HIDE DEF n, m
<1>6. n = m
  <2> SUFFICES ASSUME n # m PROVE FALSE
    OBVIOUS
  <2>1. 1 \in 1 .. m - n /\ n + 1 \in 1 .. m
    BY <1>2, <1>4
  <2>2. queue[1] = worker.made[n + 1] /\ worker.made[n + 1] \in Chunks
    BY <2>1, <1>2, <1>4 DEF m
  <2> QED
    BY <2>2, <1>1, <1>5
<1>7. ~Running
  BY <1>2, <1>4, <1>6 DEF Ending
<1>8. queue[1] = Done => ~worker.broke
  BY <1>2, <1>4, <1>5, <1>6, <1>7
<1>9. /\ call' \in CallRecords /\ call'.text = call.text /\ call'.cancels = call.cancels
      /\ call'.pc = IF queue[1] = Done THEN "complete" ELSE "raising"
  BY <1>1 DEF CallRecords
<1>10. call.cancels = 0 /\ queue' \in Seq(Chunks \union {Done, Broken})
  BY <1>1 DEF StreamInv, CallFollows
<1>11. /\ call'.pc # "waiting" /\ call'.pc \in {"complete", "raising"} /\ call'.cancels = 0
       /\ (call'.pc = "complete") => ~worker.broke
  BY <1>8, <1>9, <1>10
<1>12. Len(call.text) = Len(worker.made)
  BY <1>6 DEF n, m
<1> QED
  BY <1>1, <1>3, <1>7, <1>9, <1>10, <1>11, <1>12, CallMovesOn

\* A tool that does not stream gets all of it at once.
LEMMA TakesResultKeepsInv ==
  ASSUME StreamInv, TakesResult
  PROVE  StreamInv'
<1>1. /\ worker \in WorkerRecords /\ call \in CallRecords
      /\ ~setting.streams /\ call.pc = "waiting" /\ worker.at = "ended"
      /\ call' = IF worker.broke THEN [call EXCEPT !.pc = "raising"]
                 ELSE [call EXCEPT !.pc = "complete", !.text = [i \in DOMAIN worker.made |-> i]]
      /\ UNCHANGED <<setting, worker, queue, relay>>
  BY StreamTypes DEF StreamInv, TakesResult
<1>2. ~Running /\ call.cancels = 0
  BY <1>1 DEF Running, StreamInv, CallFollows
<1>3. CASE worker.broke
  <2>1. call' \in CallRecords /\ call'.text = call.text /\ call'.cancels = 0 /\ call'.pc = "raising"
    BY <1>1, <1>2, <1>3 DEF CallRecords
  <2> QED
    BY <1>1, <1>2, <2>1, CallMovesOn DEF StreamInv, StreamTypeOK
<1>4. CASE ~worker.broke
  <2> DEFINE text == [i \in DOMAIN worker.made |-> i]
  <2>1. worker.made \in Seq(Chunks) /\ Len(worker.made) \in Nat /\ DOMAIN worker.made = 1 .. Len(worker.made)
    BY <1>1 DEF WorkerRecords
  <2>2. \A i \in DOMAIN worker.made : i \in 1 .. MaxChunks
    <3>1. \A i \in DOMAIN worker.made : worker.made[i] \in Chunks /\ worker.made[i].n = i
      BY <2>1 DEF StreamInv, MadeInOrder
    <3> QED
      BY <3>1 DEF Chunks
  <2>3. text \in Seq(1 .. MaxChunks) /\ Len(text) = Len(worker.made) /\ \A i \in DOMAIN text : text[i] = i
    BY <2>1, <2>2
  <2> HIDE DEF text
  <2>4. call' = [call EXCEPT !.pc = "complete", !.text = text]
    BY <1>1, <1>4 DEF text
  <2>5. DOMAIN call = {"pc", "text", "cancels"}
    BY <1>1 DEF CallRecords
  <2>6. /\ DOMAIN call' = {"pc", "text", "cancels"} /\ call' = [f \in DOMAIN call' |-> call'[f]]
        /\ call'.pc = "complete" /\ call'.text = text /\ call'.cancels = call.cancels
    BY <2>4, <2>5
  <2>7. call' \in CallRecords
    BY <1>2, <2>3, <2>6, CallFits
  <2>8. Running' = Running /\ Closed' = Closed
    BY <1>1 DEF Running, Closed
  <2>9. StreamTypeOK'
    BY <1>1, <2>7 DEF StreamInv, StreamTypeOK, CallRecords
  <2>10. MadeInOrder'
    BY <1>1, <2>8 DEF StreamInv, MadeInOrder
  <2>11. CallFollows'
    BY <1>1, <1>2, <1>4, <2>1, <2>3, <2>6, <2>8 DEF StreamInv, CallFollows, OneCancelWaits
  <2>12. RelayFollows'
    <3>1. RelayIsRight(relay, Gone)' = RelayIsRight(relay, Gone)
      BY <1>1 DEF RelayIsRight, Gone, InOrder, UpTo, AllShown
    <3> QED
      BY <1>1, <3>1 DEF StreamInv, RelayFollows
  <2> QED
    BY <2>9, <2>10, <2>11, <2>12 DEF StreamInv
<1> QED
  BY <1>3, <1>4

\* The answer, after the last notification.
LEMMA AnswersKeepsInv ==
  ASSUME StreamInv, Answers
  PROVE  StreamInv'
<1>1. /\ worker \in WorkerRecords /\ call \in CallRecords /\ relay \in RelayRecords
      /\ call.pc = "complete" /\ call' = [call EXCEPT !.pc = call'.pc] /\ call'.pc \in {"text", "empty"}
      /\ relay' \in IF setting.streams THEN Sends(relay, <<>>) ELSE {relay}
      /\ UNCHANGED <<setting, worker, queue>>
  <2>1. call \in CallRecords /\ worker \in WorkerRecords /\ relay \in RelayRecords
    BY StreamTypes DEF StreamInv
  <2>2. PICK p \in {"text", "empty"} : call' = [call EXCEPT !.pc = p]
    BY DEF Answers
  <2>3. call'.pc = p
    BY <2>1, <2>2 DEF CallRecords
  <2> QED
    BY <2>1, <2>2, <2>3 DEF Answers
<1>2. /\ call' \in CallRecords /\ call'.text = call.text /\ call'.cancels = call.cancels /\ call.cancels = 0
      /\ ~Running /\ ~worker.broke /\ Len(call.text) = Len(worker.made)
  BY <1>1 DEF StreamInv, CallFollows, CallRecords, Outcomes
<1>3. Running' = Running /\ Closed' = Closed 
  BY <1>1, <1>2 DEF Running, Closed
<1>4. CASE ~setting.streams
  <2>1. relay' = relay
    BY <1>1, <1>4
  <2> QED
    BY <1>1, <1>2, <1>4, <2>1, CallMovesOn DEF StreamInv, StreamTypeOK
<1>5. CASE setting.streams
  <2>1. relay.buffer = <<>>
    BY <1>2, <1>5 DEF StreamInv, RelayFollows, MadeInOrder
  <2>2. Gone = Len(call.text) /\ Len(call.text) \in Nat
    <3>1. Len(call.text) \in Nat /\ Len(relay.buffer) = 0
      BY <1>1, <2>1 DEF CallRecords
    <3> QED
      BY <3>1, <1>5 DEF Gone
  <2>3. RelayIsRight(relay, Len(call.text))
    BY <2>2 DEF StreamInv, RelayFollows
  <2> DEFINE b == <<>>
  <2>4. b \in Seq(1 .. MaxChunks) /\ Len(b) = 0 /\ \A i \in DOMAIN b : b[i] = Len(call.text) + i
    OBVIOUS
  <2>5. relay' \in Sends(relay, b)
    BY <1>1, <1>5
  <2> HIDE DEF b
  <2>6. relay' \in RelayRecords /\ relay'.buffer = <<>> /\ RelayIsRight(relay', Len(call.text) + Len(b))
    BY <1>1, <2>1, <2>2, <2>3, <2>4, <2>5, SendsRight
  <2>7. RelayIsRight(relay', Len(call.text))
    BY <2>2, <2>4, <2>6
  <2>8. Gone' = Len(call.text)
    <3>1. Len(relay'.buffer) = 0 /\ Len(call'.text) = Len(call.text) /\ setting'.streams
      BY <1>1, <1>2, <1>5, <2>6
    <3>2. Gone' = Len(call.text)' - Len(relay.buffer)'
      BY <3>1 DEF Gone
    <3> QED
      BY <2>2, <3>1, <3>2
  <2>9. RelayIsRight(relay, Gone)'
    BY <1>1, <2>7, <2>8 DEF RelayIsRight
  <2>10. Running' = Running /\ Closed' = Closed
    BY <1>1 DEF Running, Closed
  <2>11. StreamTypeOK'
    BY <1>1, <1>2, <2>6 DEF StreamInv, StreamTypeOK, CallRecords, RelayRecords
  <2>12. MadeInOrder'
    BY <1>1, <2>10 DEF StreamInv, MadeInOrder
  <2>13. CallFollows'
    BY <1>1, <1>2, <2>10 DEF StreamInv, CallFollows, OneCancelWaits
  <2>14. RelayFollows'
    BY <1>1, <1>5, <2>6, <2>9 DEF RelayFollows
  <2> QED
    BY <2>11, <2>12, <2>13, <2>14 DEF StreamInv
<1> QED
  BY <1>4, <1>5

\* An error is the answer once the thread has ended.
LEMMA FailsKeepsInv ==
  ASSUME StreamInv, Fails
  PROVE  StreamInv'
<1>1. /\ call \in CallRecords /\ queue \in Seq(Chunks \union {Done, Broken})
      /\ call.pc = "raising" /\ call' = [call EXCEPT !.pc = "error"] /\ UNCHANGED <<setting, worker, queue, relay>>
  BY StreamTypes DEF StreamInv, Fails
<1>2. /\ call' \in CallRecords /\ call'.text = call.text /\ call'.cancels = call.cancels /\ call'.pc = "error"
      /\ call.cancels = 0 /\ ~Running
  BY <1>1 DEF StreamInv, CallFollows, CallRecords, Outcomes
<1> QED
  BY <1>1, <1>2, CallMovesOn

\* A stream that was cancelled once is left when its thread has ended.
LEMMA LeavesKeepsInv ==
  ASSUME StreamInv, Leaves
  PROVE  StreamInv'
<1>1. /\ call \in CallRecords /\ queue \in Seq(Chunks \union {Done, Broken}) /\ worker.at = "ended"
      /\ call.pc = "leaving" /\ call' = [call EXCEPT !.pc = "cancelled"] /\ UNCHANGED <<setting, worker, queue, relay>>
  BY StreamTypes DEF StreamInv, Leaves
<1>2. /\ call' \in CallRecords /\ call'.text = call.text /\ call'.cancels = call.cancels /\ call'.pc = "cancelled"
      /\ ~Running
  BY <1>1 DEF Running, CallRecords, Outcomes
<1> QED
  BY <1>1, <1>2, CallMovesOn

\* The host gives up: only a call that waits for a stream waits on.
LEMMA GivesUpKeepsInv ==
  ASSUME StreamInv, GivesUp
  PROVE  StreamInv'
<1> DEFINE at == IF call.pc = "waiting" /\ setting.streams THEN "leaving" ELSE "cancelled"
<1>1. /\ call \in CallRecords /\ queue \in Seq(Chunks \union {Done, Broken}) /\ call.pc \notin Outcomes
      /\ call' = [call EXCEPT !.cancels = call.cancels + 1, !.pc = at] /\ UNCHANGED <<setting, worker, queue, relay>>
  BY StreamTypes DEF StreamInv, GivesUp
<1>2. at \in {"leaving", "cancelled"} /\ (at = "leaving" <=> call.pc = "waiting" /\ setting.streams)
  OBVIOUS
<1> HIDE DEF at
<1>3. call.cancels \in 0 .. 1 /\ (call.pc # "leaving" => call.cancels = 0) /\ (call.pc = "leaving" => call.cancels = 1)
  BY <1>1 DEF StreamInv, CallFollows, Outcomes
<1>4. DOMAIN call = {"pc", "text", "cancels"} /\ call.text \in Seq(1 .. MaxChunks)
  BY <1>1 DEF CallRecords
<1>5. /\ DOMAIN call' = {"pc", "text", "cancels"} /\ call' = [f \in DOMAIN call' |-> call'[f]]
      /\ call'.pc = at /\ call'.text = call.text /\ call'.cancels = call.cancels + 1
  BY <1>1, <1>4
<1>6. call' \in CallRecords
  <2>1. call'.cancels \in 0 .. 2 /\ call'.text \in Seq(1 .. MaxChunks)
    BY <1>3, <1>4, <1>5
  <2>2. call'.pc \in {"waiting", "complete", "raising", "leaving"} \union Outcomes
    BY <1>2, <1>5 DEF Outcomes
  <2> QED
    BY <1>5, <2>1, <2>2, CallFits
<1>7. at = "leaving" => call'.cancels = 1 /\ setting.streams
  BY <1>2, <1>3, <1>5
<1>8. (at = "cancelled" /\ setting.streams /\ call'.cancels = 1) => ~Running
  <2> SUFFICES ASSUME at = "cancelled", setting.streams, call'.cancels = 1 PROVE ~Running
    OBVIOUS
  <2>1. call.cancels = 0
    BY <1>3, <1>5
  <2>2. call.pc \in {"complete", "raising"}
    BY <1>1, <1>2, <1>3, <2>1 DEF CallRecords
  <2> QED
    BY <2>2 DEF StreamInv, CallFollows
<1>9. /\ call'.pc \notin {"waiting", "complete", "text", "empty", "raising", "error"}
      /\ call'.pc \in {"leaving", "cancelled"}
  BY <1>2, <1>5
<1> QED
  BY <1>1, <1>5, <1>6, <1>7, <1>8, <1>9, CallMovesOn

\* Time passes for the relay alone.
LEMMA StreamTickKeepsInv ==
  ASSUME StreamInv, StreamTick
  PROVE  StreamInv'
<1>1. /\ relay \in RelayRecords /\ relay.since < Interval /\ relay' = [relay EXCEPT !.since = relay.since + 1]
      /\ UNCHANGED <<setting, worker, queue, call>>
  BY StreamTypes DEF StreamInv, StreamTick
<1>2. /\ relay'.buffer = relay.buffer /\ relay'.size = relay.size /\ relay'.sent = relay.sent /\ relay'.count = relay.count
      /\ relay' \in RelayRecords
  <2>1. relay.since + 1 \in 0 .. Interval
    BY <1>1, StreamConstants DEF RelayRecords
  <2> QED
    BY <1>1, <2>1 DEF RelayRecords
<1>3. Running' = Running /\ Closed' = Closed /\ Gone' = Gone /\ QueueIsTheRest' = QueueIsTheRest
  BY <1>1, <1>2 DEF Running, Closed, Gone, QueueIsTheRest, Rest, Ending
<1>4. StreamTypeOK'
  BY <1>1, <1>2 DEF StreamInv, StreamTypeOK, RelayRecords
<1>5. MadeInOrder'
  BY <1>1, <1>3 DEF StreamInv, MadeInOrder
<1>6. CallFollows'
  BY <1>1, <1>3 DEF StreamInv, CallFollows, OneCancelWaits
<1>7. RelayFollows'
  <2>1. RelayIsRight(relay, Gone)'
    BY <1>1, <1>2, <1>3 DEF StreamInv, RelayFollows, RelayIsRight
  <2> QED
    BY <1>1, <1>2, <1>3, <2>1 DEF StreamInv, RelayFollows
<1> QED
  BY <1>4, <1>5, <1>6, <1>7 DEF StreamInv

\* Every step of the thread, of the loop, of the host and of the clock keeps
\* the invariant.
LEMMA StreamNextInv == StreamInv /\ [StreamNext]_streamVars => StreamInv'
<1> SUFFICES ASSUME StreamInv, [StreamNext]_streamVars PROVE StreamInv'
  OBVIOUS
<1>1. CASE UNCHANGED streamVars
  <2>1. Running' = Running /\ Closed' = Closed /\ Gone' = Gone /\ QueueIsTheRest' = QueueIsTheRest
    BY <1>1 DEF streamVars, Running, Closed, Gone, QueueIsTheRest, Rest, Ending
  <2>2. RelayIsRight(relay, Gone)' = RelayIsRight(relay, Gone)
    BY <1>1, <2>1 DEF streamVars, RelayIsRight
  <2> QED
    BY <1>1, <2>1, <2>2 DEF streamVars, StreamInv, StreamTypeOK, MadeInOrder, CallFollows, RelayFollows, OneCancelWaits
<1>2. CASE Thread
  BY <1>2, YieldsKeepsInv, EndsKeepsInv, BreaksKeepsInv, ThreadEndKeepsInv DEF Thread
<1>3. CASE Loop
  BY <1>3, TakesChunkKeepsInv, TakesEndKeepsInv, TakesResultKeepsInv, AnswersKeepsInv, FailsKeepsInv, LeavesKeepsInv
     DEF Loop
<1>4. CASE GivesUp
  BY <1>4, GivesUpKeepsInv
<1>5. CASE StreamTick
  BY <1>5, StreamTickKeepsInv
<1> QED
  BY <1>1, <1>2, <1>3, <1>4, <1>5 DEF StreamNext

\* The invariant holds in every reachable state of a request.
LEMMA StreamInvariance == StreamSpec => []StreamInv
<1> QED
  BY StreamInitInv, StreamNextInv, PTL DEF StreamSpec

\* The queue, the call, the relay and the record of the provider call have their types; the
\* record is made at most once, and at most two cancels are taken.
THEOREM StreamTypeCorrect == StreamSpec => []StreamTypeOK
<1>1. StreamInv => StreamTypeOK
  BY DEF StreamInv
<1> QED
  BY <1>1, StreamInvariance, PTL

\* Whatever the provider's thread, the loop and the host do, an answer is the
\* text of every chunk of a stream that did not fail, in order, and the
\* provider call is recorded once before the tool call is answered.
THEOREM AnswersAreWhole == StreamSpec => []AnswerIsWhole
<1>1. StreamInv => AnswerIsWhole
  <2> SUFFICES ASSUME StreamInv PROVE AnswerIsWhole
    OBVIOUS
  <2>1. worker \in WorkerRecords /\ call \in CallRecords
    BY StreamTypes DEF StreamInv
  <2>2. ASSUME call.pc \in {"text", "empty"} PROVE ~worker.broke /\ call.text = [i \in DOMAIN worker.made |-> i]
    <3>1. ~worker.broke /\ Len(call.text) = Len(worker.made) /\ \A i \in DOMAIN call.text : call.text[i] = i
      BY <2>2 DEF StreamInv, CallFollows
    <3>2. call.text \in Seq(1 .. MaxChunks) /\ worker.made \in Seq(Chunks)
      BY <2>1 DEF WorkerRecords, CallRecords
    <3>3. DOMAIN call.text = DOMAIN worker.made
      BY <3>1, <3>2
    <3> QED
      BY <3>1, <3>2, <3>3
  <2>3. ASSUME call.pc \in {"text", "empty", "error"} PROVE worker.recorded = 1
    <3>1. ~Running
      BY <2>3 DEF StreamInv, CallFollows
    <3> QED
      BY <3>1 DEF StreamInv, MadeInOrder
  <2> QED
    BY <2>2, <2>3 DEF AnswerIsWhole
<1> QED
  BY <1>1, StreamInvariance, PTL

\* The host is shown each part of the text at most once and in its order,
\* and all of it by the end when no send failed.
THEOREM ProgressKeepsItsOrder == StreamSpec => []ProgressInOrder
<1>1. StreamInv => ProgressInOrder
  <2> SUFFICES ASSUME StreamInv PROVE ProgressInOrder
    OBVIOUS
  <2>1. InOrder(relay.sent)
    BY DEF StreamInv, RelayFollows, RelayIsRight
  <2>2. ASSUME call.pc \in {"text", "empty"}, setting.streams, setting.token, relay.count = Len(relay.sent)
        PROVE  \A i \in DOMAIN worker.made : Shown(i)
    <3>1. ~Running /\ ~worker.broke /\ Len(call.text) = Len(worker.made)
      BY <2>2 DEF StreamInv, CallFollows
    <3>2. relay.buffer = <<>>
      BY <2>2, <3>1 DEF StreamInv, RelayFollows, MadeInOrder
    <3>3. worker.made \in Seq(Chunks) /\ Len(worker.made) \in Nat /\ DOMAIN worker.made = 1 .. Len(worker.made)
      BY StreamTypes DEF StreamInv, WorkerRecords
    <3>4. Gone = Len(worker.made)
      BY <2>2, <3>1, <3>2, <3>3 DEF Gone
    <3>5. AllShown(relay.sent, Gone)
      BY <2>2 DEF StreamInv, RelayFollows, RelayIsRight
    <3> QED
      BY <3>3, <3>4, <3>5 DEF AllShown, Shown
  <2> QED
    BY <2>1, <2>2 DEF ProgressInOrder, InOrder
<1> QED
  BY <1>1, StreamInvariance, PTL

\* A stream that the host gave up once is left only after its provider call
\* is over.
THEOREM CancelledStreamsAreAwaited == StreamSpec => []OneCancelWaits
<1>1. StreamInv => OneCancelWaits
  BY DEF StreamInv, CallFollows
<1> QED
  BY <1>1, StreamInvariance, PTL
===============================================================================
