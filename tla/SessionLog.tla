------------------------------ MODULE SessionLog ------------------------------
(***************************************************************************)
(* What a step-by-step tool promises of the sessions it opens (the fixes   *)
(* C-1 and C-2 of CHANGELOG.md): a session is a log of its own answered    *)
(* steps.  It grows by one step with each answer, until its thread is      *)
(* full, and no other session gets in or takes part of it away; it is      *)
(* forgotten as a whole.                                                   *)
(*                                                                         *)
(* A step is represented by the thread whose session it was sent for.      *)
(***************************************************************************)
EXTENDS Naturals, Sequences

CONSTANTS
    Threads,    \* thread ids (each UUID is used for one thread)
    MaxTurns    \* MAX_CONVERSATION_TURNS

VARIABLES
    phase,      \* where each thread is; "foreign" if such a tool did not open it
    log         \* the steps that the thread holds of the tool that opened it

Init ==
    /\ phase = [t \in Threads |-> "unborn"]
    /\ log = [t \in Threads |-> <<>>]

\* A session whose first step failed, or asks the expert.
Open(t) ==
    /\ phase[t] = "unborn"
    /\ phase' = [phase EXCEPT ![t] = "open"]
    /\ UNCHANGED log

\* A step is answered, the first one too.
Answer(t) ==
    /\ phase[t] \in {"unborn", "open"}
    /\ Len(log[t]) < MaxTurns
    /\ phase' = [phase EXCEPT ![t] = "open"]
    /\ log' = [log EXCEPT ![t] = Append(@, t)]

\* The store forgets the thread.
Forget(t) ==
    /\ phase[t] = "open"
    /\ phase' = [phase EXCEPT ![t] = "closed"]
    /\ log' = [log EXCEPT ![t] = <<>>]

\* Another tool opens the thread.
OpenElsewhere(t) ==
    /\ phase[t] = "unborn"
    /\ phase' = [phase EXCEPT ![t] = "foreign"]
    /\ UNCHANGED log

Next == \E t \in Threads : Open(t) \/ Answer(t) \/ Forget(t) \/ OpenElsewhere(t)

Spec == Init /\ [][Next]_<<phase, log>>
=============================================================================
