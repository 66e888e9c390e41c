------------------------------- MODULE JobLedger -------------------------------
(***************************************************************************)
(* What clink promises of its background runs (docs/tools/clink.md): a run *)
(* is accepted once, if there is room and no run of its key is going on;   *)
(* it ends once, and its outcome stands until the record is dropped; it    *)
(* ends as cancelled only if somebody asked for that.                      *)
(***************************************************************************)
EXTENDS Naturals, FiniteSets

CONSTANTS
    Jobs,       \* job ids
    Keys,       \* idempotency keys
    NoKey,
    Caps        \* values of MAX_CONCURRENT_JOBS

VARIABLES
    state,      \* what becomes of each job
    key,        \* the keys of the runs that are going on
    asked,      \* jobs somebody asked to cancel
    cap         \* the limit, one of Caps

Running == {j \in Jobs : state[j] = "running"}
Over == {j \in Jobs : state[j] \in {"completed", "failed", "cancelled"}}

Init ==
    /\ state = [j \in Jobs |-> "none"]
    /\ key = [j \in Jobs |-> NoKey]
    /\ asked = {}
    /\ cap \in Caps

\* Any call may find that the retention time of some results has passed.
Dropped(gone) == [j \in Jobs |-> IF j \in gone THEN "forgotten" ELSE state[j]]

Accept(j, k, gone) ==
    /\ state[j] = "none"
    /\ Cardinality(Running) < cap
    /\ \A i \in Running : key[i] = k => k = NoKey
    /\ state' = [Dropped(gone) EXCEPT ![j] = "running"]
    /\ key' = [key EXCEPT ![j] = k]
    /\ UNCHANGED <<asked, cap>>

\* Any other call, and the teardown: it may ask to cancel runs.
Serve(cancels, gone) ==
    /\ cancels \subseteq Running
    /\ state' = Dropped(gone)
    /\ asked' = asked \union cancels
    /\ UNCHANGED <<key, cap>>

\* A run that is cancelled before its first step leaves no record of its end.
Finish(j, outcome) ==
    /\ state[j] = "running"
    /\ outcome \in {"cancelled", "unrecorded"} => j \in asked
    /\ state' = [state EXCEPT ![j] = outcome]
    /\ key' = [key EXCEPT ![j] = NoKey]
    /\ UNCHANGED <<asked, cap>>

Next ==
    \/ \E gone \in SUBSET Over :
        \/ \E j \in Jobs, k \in Keys \union {NoKey} : Accept(j, k, gone)
        \/ \E cancels \in SUBSET Jobs : Serve(cancels, gone)
    \/ \E j \in Jobs, outcome \in {"completed", "failed", "cancelled", "unrecorded"} : Finish(j, outcome)

Spec == Init /\ [][Next]_<<state, key, asked, cap>>
=============================================================================
