------------------------- MODULE SqliteConversations -------------------------
(***************************************************************************)
(* Conversation threads in a SQLite file that several server processes     *)
(* share: utils/sqlite_storage.py under utils/conversation_store.py.       *)
(*                                                                         *)
(* In each process the event loop runs one storage operation at a time and *)
(* a daemon thread sweeps; self._lock serialises the two.  Every operation *)
(* reads the clock BEFORE it takes the lock, so the time it compares with, *)
(* or adds the TTL to, may be "lag" ticks old when it reaches the database.*)
(* Between processes only SQLite's own transactions serialise: a statement *)
(* outside a transaction is atomic, get() uses two of them.                *)
(***************************************************************************)
EXTENDS Integers, Sequences

CONSTANTS
    Threads, Processes,
    MaxTurns,   \* MAX_CONVERSATION_TURNS
    TTL,        \* CONVERSATION_TIMEOUT_SECONDS, in ticks
    MaxWait     \* bound on lag: busy_timeout plus scheduling delay, in ticks

ASSUME StoreConstants ==
    /\ MaxTurns \in Nat
    /\ TTL \in Nat \ {0}
    /\ MaxWait \in Nat

VARIABLES
    status,     \* "unborn" until create_thread's row is inserted
    turns,      \* the turns held by the row
    left,       \* expires_at - now
    op,         \* the storage operation on each process's event loop
    sweepLag,   \* lag of each process's running sweep, or Unset
    acked       \* history: turns for which add_turn returned True

vars == <<status, turns, left, op, sweepLag, acked>>

Unset == -1
Expired == -(MaxWait + 1)   \* "left" stops here: no lag can hide such a row's expiry

OpTypes == [pc : {"create", "get", "delete", "update"}, thread : Threads, lag : 0 .. MaxWait]
Idle == [pc |-> "idle"]

\* Every variable has its type; expiry times lie between "long ago" and a full TTL.
TypeOK ==
    /\ status \in [Threads -> {"unborn", "stored", "deleted"}]
    /\ turns \in [Threads -> Seq(Processes)]
    /\ left \in [Threads -> Expired .. TTL]
    /\ op \in [Processes -> {Idle} \union OpTypes]
    /\ sweepLag \in [Processes -> {Unset} \union (0 .. MaxWait)]
    /\ acked \in [Threads -> Seq(Processes)]

Init ==
    /\ status = [t \in Threads |-> "unborn"]
    /\ turns = [t \in Threads |-> <<>>]
    /\ left = [t \in Threads |-> Expired]
    /\ op = [p \in Processes |-> Idle]
    /\ sweepLag = [p \in Processes |-> Unset]
    /\ acked = [t \in Threads |-> <<>>]

-----------------------------------------------------------------------------
(* An operation begins by reading the clock, and ends on the event loop.   *)

Begin(p, pc, t) ==
    /\ op[p] = Idle
    /\ op' = [op EXCEPT ![p] = [pc |-> pc, thread |-> t, lag |-> 0]]
    /\ UNCHANGED <<status, turns, left, sweepLag, acked>>

Finish(p) == op' = [op EXCEPT ![p] = Idle]

Doing(p, pc) == op[p] # Idle /\ op[p].pc = pc

\* A row that the operation of process p takes for expired.
LooksExpired(p, t) == left[t] + op[p].lag <= 0

Remove(dead) ==
    /\ status' = [t \in Threads |-> IF t \in dead THEN "deleted" ELSE status[t]]
    /\ turns' = [t \in Threads |-> IF t \in dead THEN <<>> ELSE turns[t]]
    /\ left' = [t \in Threads |-> IF t \in dead THEN Expired ELSE left[t]]

-----------------------------------------------------------------------------
(* create_thread: set_with_ttl of a fresh UUID. *)

CreateBegin(p, t) ==
    /\ status[t] = "unborn"
    /\ \A q \in Processes : ~(Doing(q, "create") /\ op[q].thread = t)
    /\ Begin(p, "create", t)

CreateCommit(p) ==
    /\ Doing(p, "create")
    /\ status' = [status EXCEPT ![op[p].thread] = "stored"]
    /\ left' = [left EXCEPT ![op[p].thread] = TTL - op[p].lag]
    /\ Finish(p)
    /\ UNCHANGED <<turns, sweepLag, acked>>

(* get_thread: one SELECT and, when the row looks expired, one DELETE by key. *)

GetBegin(p, t) ==
    /\ status[t] # "unborn"
    /\ Begin(p, "get", t)

GetSelect(p) ==
    /\ Doing(p, "get")
    /\ LET t == op[p].thread IN
        IF status[t] = "stored" /\ LooksExpired(p, t)
        THEN op' = [op EXCEPT ![p].pc = "delete"]
        ELSE Finish(p)
    /\ UNCHANGED <<status, turns, left, sweepLag, acked>>

GetDelete(p) ==
    /\ Doing(p, "delete")
    /\ Remove({op[p].thread})
    /\ Finish(p)
    /\ UNCHANGED <<sweepLag, acked>>

(* add_turn: atomic_update under BEGIN IMMEDIATE. *)

UpdateBegin(p, t) ==
    /\ status[t] # "unborn"
    /\ Begin(p, "update", t)

AbortsLate(p) ==   \* faulty variant: the limit is checked with ">"
    LET t == op[p].thread IN
        \/ status[t] # "stored"
        \/ LooksExpired(p, t)
        \/ Len(turns[t]) > MaxTurns

\* The mutator returns None: no row, an expired one, or a full thread.
Aborts(p) ==
    LET t == op[p].thread IN
        \/ status[t] # "stored"
        \/ LooksExpired(p, t)
        \/ Len(turns[t]) >= MaxTurns

UpdateAbort(p) ==
    /\ Doing(p, "update")
    /\ Aborts(p)
    /\ Finish(p)
    /\ UNCHANGED <<status, turns, left, sweepLag, acked>>

\* Faulty variant: the expiry time is kept instead of renewed.
CommitKeepsExpiry(p) ==
    /\ Doing(p, "update")
    /\ ~Aborts(p)
    /\ turns' = [turns EXCEPT ![op[p].thread] = Append(@, p)]
    /\ acked' = [acked EXCEPT ![op[p].thread] = Append(@, p)]
    /\ Finish(p)
    /\ UNCHANGED <<status, left, sweepLag>>

UpdateCommit(p) ==
    /\ Doing(p, "update")
    /\ ~Aborts(p)
    /\ turns' = [turns EXCEPT ![op[p].thread] = Append(@, p)]
    /\ left' = [left EXCEPT ![op[p].thread] = TTL - op[p].lag]
    /\ acked' = [acked EXCEPT ![op[p].thread] = Append(@, p)]
    /\ Finish(p)
    /\ UNCHANGED <<status, sweepLag>>

-----------------------------------------------------------------------------
(* The sweep thread.  self._lock keeps it out while the loop is between get's  *)
(* SELECT and DELETE; it does not keep another process out.                    *)

SweepBegin(p) ==
    /\ sweepLag[p] = Unset
    /\ sweepLag' = [sweepLag EXCEPT ![p] = 0]
    /\ UNCHANGED <<status, turns, left, op, acked>>

\* Faulty variant: the comparison is the wrong way round.
SweepReversed(p) ==
    /\ sweepLag[p] # Unset
    /\ ~Doing(p, "delete")
    /\ Remove({t \in Threads : status[t] = "stored" /\ left[t] + sweepLag[p] > 0})
    /\ sweepLag' = [sweepLag EXCEPT ![p] = Unset]
    /\ UNCHANGED <<op, acked>>

SweepDelete(p) ==
    /\ sweepLag[p] # Unset
    /\ ~Doing(p, "delete")
    /\ Remove({t \in Threads : status[t] = "stored" /\ left[t] + sweepLag[p] < 0})
    /\ sweepLag' = [sweepLag EXCEPT ![p] = Unset]
    /\ UNCHANGED <<op, acked>>

-----------------------------------------------------------------------------

\* Another process kept the write lock beyond busy_timeout: the write raises, and
\* get_thread and add_turn turn that into None and False.
DatabaseBusy(p) ==
    /\ Doing(p, "create") \/ Doing(p, "delete") \/ Doing(p, "update")
    /\ Processes # {p}
    /\ Finish(p)
    /\ UNCHANGED <<status, turns, left, sweepLag, acked>>

\* The process dies and is started again; what it was doing is rolled back.
Restart(p) ==
    /\ Finish(p)
    /\ sweepLag' = [sweepLag EXCEPT ![p] = Unset]
    /\ UNCHANGED <<status, turns, left, acked>>

\* No operation waits for more than MaxWait ticks.
Tick ==
    /\ \A p \in Processes :
        /\ op[p] # Idle => op[p].lag < MaxWait
        /\ sweepLag[p] < MaxWait
    /\ left' = [t \in Threads |-> IF left[t] > Expired THEN left[t] - 1 ELSE left[t]]
    /\ op' = [p \in Processes |-> IF op[p] = Idle THEN Idle ELSE [op[p] EXCEPT !.lag = @ + 1]]
    /\ sweepLag' = [p \in Processes |->
                       IF sweepLag[p] = Unset THEN Unset ELSE sweepLag[p] + 1]
    /\ UNCHANGED <<status, turns, acked>>

LoopBegins(p) ==
    \E t \in Threads : CreateBegin(p, t) \/ GetBegin(p, t) \/ UpdateBegin(p, t)

LoopWorks(p) ==
    CreateCommit(p) \/ GetSelect(p) \/ GetDelete(p) \/ UpdateAbort(p) \/ UpdateCommit(p)

Next ==
    \/ \E p \in Processes :
        \/ LoopBegins(p)
        \/ LoopWorks(p)
        \/ SweepBegin(p)
        \/ SweepDelete(p)
        \/ DatabaseBusy(p)
        \/ Restart(p)
    \/ Tick

Spec == Init /\ [][Next]_vars

\* The sweep timer is not tied to the reads or to restarts: sweeps keep starting
\* outside get's critical section (see the fairness of ConversationStorage).
SweepStarts(p) == SweepBegin(p) /\ ~Doing(p, "delete")

-----------------------------------------------------------------------------

\* As long as a thread is stored it holds exactly the turns that were acknowledged,
\* in order, and never more than the limit: no interleaving of processes loses,
\* duplicates or reorders a turn (atomic_update's docstring).
AckedTurnsKept ==
    \A t \in Threads : status[t] = "stored" =>
        /\ turns[t] = acked[t]
        /\ Len(turns[t]) <= MaxTurns

\* A row is removed only when its own expiry time has passed; so an acknowledged
\* turn, which renews that time, is not lost before it ("Refreshes thread TTL to
\* configured timeout on successful update", add_turn).
LiveThreadNeverRemoved ==
    [][\A t \in Threads : status[t] = "stored" /\ status'[t] # "stored" => left[t] <= 0]_vars

\* An expired row does not stay: the sweep takes it even if nobody reads it.
ExpiredIsCollected ==
    \A t \in Threads : (status[t] = "stored" /\ left[t] < 0) ~>
                       (status[t] = "deleted" \/ left[t] > 0)

(* The log of turns that callers are promised.                             *)
Log == INSTANCE ThreadLog WITH Writers <- Processes, Durable <- TRUE
=============================================================================
