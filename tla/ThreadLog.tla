------------------------------ MODULE ThreadLog ------------------------------
(***************************************************************************)
(* What the conversation store promises its callers (the docstrings of     *)
(* create_thread, get_thread and add_turn in utils/conversation_store.py): *)
(* a thread is a list of turns that grows by whole turns up to a limit, an *)
(* acknowledged turn renews the thread's life, and a thread is forgotten   *)
(* only when its life is over (or, in a store that is not durable, when    *)
(* the process ends).                                                      *)
(*                                                                         *)
(* Time is relative: "left" is expires_at - now.  A caller whose clock was *)
(* read before it got the lock sets an expiry that is up to MaxWait old.   *)
(***************************************************************************)
EXTENDS Integers, Sequences

CONSTANTS
    Threads,    \* thread ids (each UUID is used for one thread)
    Writers,    \* who may add a turn; a turn is identified by its writer
    MaxTurns,   \* MAX_CONVERSATION_TURNS
    TTL,        \* CONVERSATION_TIMEOUT_SECONDS, in ticks
    MaxWait,    \* longest wait between reading the clock and writing, in ticks
    Durable     \* whether the threads survive the process

VARIABLES
    status,     \* where each thread is in its life
    turns,      \* its turns, oldest first
    left        \* ticks until it expires; negative after that

Expired == -(MaxWait + 1)

Init ==
    /\ status = [t \in Threads |-> "unborn"]
    /\ turns = [t \in Threads |-> <<>>]
    /\ left = [t \in Threads |-> Expired]

Create(t) ==
    /\ status[t] = "unborn"
    /\ status' = [status EXCEPT ![t] = "stored"]
    /\ \E lag \in 0 .. MaxWait : left' = [left EXCEPT ![t] = TTL - lag]
    /\ UNCHANGED turns

AppendTurn(t, w) ==
    /\ status[t] = "stored"
    /\ Len(turns[t]) < MaxTurns
    /\ turns' = [turns EXCEPT ![t] = Append(@, w)]
    /\ \E lag \in 0 .. MaxWait : left' = [left EXCEPT ![t] = TTL - lag]
    /\ UNCHANGED status

\* The threads in dead, all of them expired, are removed.
Forget(dead) ==
    /\ \A t \in dead : status[t] = "stored" /\ left[t] <= 0
    /\ status' = [t \in Threads |-> IF t \in dead THEN "deleted" ELSE status[t]]
    /\ turns' = [t \in Threads |-> IF t \in dead THEN <<>> ELSE turns[t]]
    /\ left' = [t \in Threads |-> IF t \in dead THEN Expired ELSE left[t]]

Lose ==
    /\ ~Durable
    /\ status' = [t \in Threads |-> IF status[t] = "stored" THEN "deleted" ELSE status[t]]
    /\ turns' = [t \in Threads |-> <<>>]
    /\ left' = [t \in Threads |-> Expired]

Tick ==
    /\ left' = [t \in Threads |-> IF left[t] > Expired THEN left[t] - 1 ELSE left[t]]
    /\ UNCHANGED <<status, turns>>

Next ==
    \/ \E t \in Threads : Create(t) \/ \E w \in Writers : AppendTurn(t, w)
    \/ \E dead \in SUBSET Threads : Forget(dead)
    \/ Lose
    \/ Tick

Spec == Init /\ [][Next]_<<status, turns, left>>
=============================================================================
