---------------------------- MODULE ProviderCall ----------------------------
(***************************************************************************)
(* Concurrent calls to one provider, each guarded by its circuit breaker:  *)
(* _run_with_retries() run in worker threads, _run_with_retries_async()    *)
(* run as a task that may be cancelled, and the native streaming methods,  *)
(* which make one attempt.  The breaker is consulted once, before the      *)
(* first attempt; an outcome may therefore be recorded long after the      *)
(* breaker has left the state in which the call was admitted.              *)
(***************************************************************************)
EXTENDS CircuitBreaker, FiniteSets

CONSTANTS
    Calls,          \* the calls that may be in progress at the same time
    MaxAttempts,    \* max_attempts of the retry loop (4 in every provider)
    Errors          \* the classes of error that attempts may meet

\* An error is what _is_error_retryable and _is_provider_unhealthy_error say of it, and
\* whose fault it is: the backend's, that of a request refused by its status, or that of
\* a request which no such status tells from a failing backend.
ErrorClasses == [retried : BOOLEAN, unhealthy : BOOLEAN, cause : {"backend", "refused", "unnamed"}]

ASSUME CallConstants ==
    /\ MaxAttempts \in Nat \ {0}
    /\ Errors \subseteq ErrorClasses

VARIABLES
    calls,          \* what each call is doing
    healthy,        \* environment: whether the provider's backend is up
    streak,         \* history: failures since the last success, up to FailureThreshold
    probeAge,       \* history: ticks since a call was admitted as a probe
    refusalsOnly    \* history: whether every error so far was a refused request

vars == <<breakerVars, calls, healthy, streak, probeAge, refusalsOnly>>

Kinds == {"sync", "async", "stream"}

Idle == [pc |-> "idle", kind |-> "sync", attempt |-> 0]

\* Every variable has its type: the breaker's fields, one record per call and the
\* history the properties read.
TypeOK ==
    /\ BreakerTypeOK
    /\ calls \in [Calls -> [pc : {"idle", "calling"}, kind : Kinds, attempt : 0 .. MaxAttempts]]
    /\ healthy \in BOOLEAN
    /\ streak \in Nat
    /\ probeAge \in [Calls -> Stopwatch]
    /\ refusalsOnly \in BOOLEAN

Init ==
    /\ BreakerInit
    /\ calls = [c \in Calls |-> Idle]
    /\ healthy = TRUE
    /\ streak = 0
    /\ probeAge = [c \in Calls |-> Unset]
    /\ refusalsOnly = TRUE

-----------------------------------------------------------------------------
(* The end of a call, with or without a report to the breaker. *)

Calling(c) == calls[c].pc = "calling"

Return(c) ==
    /\ calls' = [calls EXCEPT ![c] = Idle]
    /\ probeAge' = [probeAge EXCEPT ![c] = Unset]

ReportSuccess ==
    /\ RecordSuccess
    /\ streak' = 0

ReportFailure ==
    /\ RecordFailure
    /\ streak' = IF streak >= FailureThreshold THEN streak ELSE streak + 1

ReportNothing == UNCHANGED <<breakerVars, streak>>

\* What happens to the breaker when error e ends call c.  The retry loop counts
\* every retryable error that used up the attempts; the streaming methods ask
\* _is_provider_unhealthy_error about all of them.
CountsAsFailure(c, e) ==
    \/ e.unhealthy
    \/ e.retried /\ calls[c].kind # "stream"

-----------------------------------------------------------------------------

StartCall(c, kind) ==
    /\ ~Calling(c)
    /\ AllowRequest
    /\ calls' = [calls EXCEPT ![c] = [pc |-> "calling", kind |-> kind, attempt |-> 1]]
    /\ probeAge' = [probeAge EXCEPT ![c] = IF state = "CLOSED" THEN Unset ELSE 0]
    /\ UNCHANGED <<healthy, streak, refusalsOnly>>

\* ProviderUnavailable is raised; the breaker's own bookkeeping is all that changes.
FailFast(c) ==
    /\ ~Calling(c)
    /\ RejectRequest
    /\ UNCHANGED <<calls, healthy, streak, probeAge, refusalsOnly>>

Succeed(c) ==
    /\ Calling(c)
    /\ healthy
    /\ ReportSuccess
    /\ Return(c)
    /\ UNCHANGED <<healthy, refusalsOnly>>

\* The errors an attempt may meet: a live backend still gets requests that are at fault.
Meets(e) == e.cause = "backend" => ~healthy

RetriesLeft(c) == calls[c].kind # "stream" /\ calls[c].attempt < MaxAttempts

Retry(c, e) ==
    /\ Calling(c)
    /\ Meets(e)
    /\ e.retried
    /\ RetriesLeft(c)
    /\ calls' = [calls EXCEPT ![c].attempt = @ + 1]
    /\ refusalsOnly' = (refusalsOnly /\ e.cause = "refused")
    /\ UNCHANGED <<breakerVars, healthy, streak, probeAge>>

GiveUp(c, e) ==
    /\ Calling(c)
    /\ Meets(e)
    /\ e.retried => ~RetriesLeft(c)
    /\ IF CountsAsFailure(c, e) THEN ReportFailure ELSE ReportNothing
    /\ Return(c)
    /\ refusalsOnly' = (refusalsOnly /\ e.cause = "refused")
    /\ UNCHANGED healthy

\* A CancelledError passes every "except Exception" and reports nothing.
Cancel(c) ==
    /\ Calling(c)
    /\ calls[c].kind = "async"
    /\ ReportNothing
    /\ Return(c)
    /\ UNCHANGED <<healthy, refusalsOnly>>

Tick ==
    /\ BreakerTick
    /\ probeAge' = [c \in Calls |-> Advance(probeAge[c])]
    /\ UNCHANGED <<calls, healthy, streak, refusalsOnly>>

BackendChanges ==
    /\ healthy' = ~healthy
    /\ UNCHANGED <<breakerVars, calls, streak, probeAge, refusalsOnly>>

CallStep(c) ==
    \/ \E kind \in Kinds : StartCall(c, kind)
    \/ FailFast(c)
    \/ Succeed(c)
    \/ \E e \in Errors : Retry(c, e) \/ GiveUp(c, e)
    \/ Cancel(c)

Next ==
    \/ \E c \in Calls : CallStep(c)
    \/ Tick
    \/ BackendChanges

Spec == Init /\ [][Next]_vars

\* Time passes and clients keep asking.  Requests that are not at fault keep
\* arriving, so a call that may succeed again and again finally does.
SomeCallStarts == \E c \in Calls, kind \in Kinds : StartCall(c, kind)
SomeCallSucceeds == \E c \in Calls : Succeed(c)

FairSpec ==
    /\ Spec
    /\ WF_vars(Tick)
    /\ WF_vars(SomeCallStarts)
    /\ SF_vars(SomeCallSucceeds)

-----------------------------------------------------------------------------

\* A closed breaker has counted every failure since the last success, so it is
\* closed only while fewer than FailureThreshold consecutive calls have failed,
\* whichever calls of earlier states report late ("Consecutive failures (after
\* retries) before circuit opens", .env.example).
ClosedMeansFewFailures ==
    state = "CLOSED" =>
        /\ failureCount = streak
        /\ streak < FailureThreshold \/ streak = 0

\* A call that is still running was admitted as a probe less than ResetTimeout
\* ago: at most HalfOpenMaxCalls of them per period, and two periods can overlap
\* the last ResetTimeout ticks, each reclaim admitting one call fewer than two
\* full periods.  (allow_request lets one probe through whatever the maximum.)
YoungProbes == {c \in Calls : Calling(c) /\ probeAge[c] \in 0 .. ResetTimeout - 1}

ProbesMetered ==
    Cardinality(YoungProbes) <=
        IF HalfOpenMaxCalls < 1 THEN 1 ELSE 2 * HalfOpenMaxCalls - 1

\* No late report of an earlier call ends the cooldown: an open breaker leaves
\* OPEN only for HALF_OPEN, and only once the reset timeout has passed.
OnlyCooldownLeavesOpen ==
    [][state = "OPEN" /\ state' # "OPEN" => CooledDown /\ state' = "HALF_OPEN"]_vars

\* "a run of bad requests cannot lock out a healthy provider" (providers/base.py): as
\* long as every error was a request refused by a 4xx other than 408 and 429, retried or
\* not and whatever its message says, the breaker stays closed.  Requests at fault that
\* no such status tells (a 429 that says the request is too large, an output budget spent
\* on reasoning, a request that fails before it is sent) do count against the provider.
CallerFaultsNeverTrip == refusalsOnly => state = "CLOSED"

\* Calls that end without a report never wedge the breaker: again and again it
\* is in a state where the next request is admitted.
NeverWedged == []<>Accepting

\* Once the backend stays up and no request whose fault goes unnamed is counted as the
\* provider's failure any more, the breaker ends up closed for good, although probe
\* slots leak, calls are cancelled and outcomes of the outage are reported late.
UnnamedFaults == {e \in ErrorClasses : e.cause = "unnamed"}
NoUnnamedFaultCounted == [][\A c \in Calls, e \in UnnamedFaults : GiveUp(c, e) => UNCHANGED breakerVars]_vars

Recovers == <>[]healthy /\ <>NoUnnamedFaultCounted => <>[](state = "CLOSED")

=============================================================================
