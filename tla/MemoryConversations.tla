------------------------- MODULE MemoryConversations -------------------------
(***************************************************************************)
(* Conversation threads in the default, in-memory backend:                 *)
(* InMemoryStorage of utils/storage_backend.py under                       *)
(* utils/conversation_store.py.  The event loop is the only caller; a      *)
(* daemon thread sweeps.  Each method reads the clock inside its lock, so  *)
(* it is one atomic step, but add_turn is two: get() and then setex(), and *)
(* the sweep may run in between.                                           *)
(***************************************************************************)
EXTENDS Integers, Sequences

CONSTANTS
    Threads, Tools,     \* a turn is identified by the tool that adds it
    MaxTurns,           \* MAX_CONVERSATION_TURNS
    TTL                 \* CONVERSATION_TIMEOUT_SECONDS, in ticks

VARIABLES
    status,     \* whether _store has the thread's key
    turns,      \* the turns in the stored value
    left,       \* expires_at - now
    pending     \* add_turn between its get() and its setex(), or None

vars == <<status, turns, left, pending>>

Expired == -1
None == [tool |-> "none"]
Pending == [tool : Tools, thread : Threads, copy : Seq(Tools)]

\* Every variable has its type; expiry times lie between "long ago" and a full TTL.
TypeOK ==
    /\ status \in [Threads -> {"unborn", "stored", "deleted"}]
    /\ turns \in [Threads -> Seq(Tools)]
    /\ left \in [Threads -> Expired .. TTL]
    /\ pending \in {None} \union Pending

Init ==
    /\ status = [t \in Threads |-> "unborn"]
    /\ turns = [t \in Threads |-> <<>>]
    /\ left = [t \in Threads |-> Expired]
    /\ pending = None

Remove(dead) ==
    /\ status' = [t \in Threads |-> IF t \in dead THEN "deleted" ELSE status[t]]
    /\ turns' = [t \in Threads |-> IF t \in dead THEN <<>> ELSE turns[t]]
    /\ left' = [t \in Threads |-> IF t \in dead THEN Expired ELSE left[t]]

-----------------------------------------------------------------------------

CreateThread(t) ==
    /\ pending = None
    /\ status[t] = "unborn"
    /\ status' = [status EXCEPT ![t] = "stored"]
    /\ left' = [left EXCEPT ![t] = TTL]
    /\ UNCHANGED <<turns, pending>>

\* get(): an entry that is no longer live is removed by the reader.
Read(t) ==
    IF status[t] = "stored" /\ left[t] <= 0
    THEN Remove({t})
    ELSE UNCHANGED <<status, turns, left>>

Readable(t) == status[t] = "stored" /\ left[t] > 0

GetThread(t) ==
    /\ pending = None
    /\ status[t] # "unborn"
    /\ Read(t)
    /\ UNCHANGED pending

\* add_turn up to its early returns: thread not found, thread full.
AddTurn(tool, t) ==
    /\ pending = None
    /\ status[t] # "unborn"
    /\ Read(t)
    /\ pending' = IF Readable(t) /\ Len(turns[t]) < MaxTurns
                  THEN [tool |-> tool, thread |-> t, copy |-> turns[t]]
                  ELSE None

\* Faulty variant: the old expiry time is stored back with the new turn.
StoreWithoutRefresh ==
    /\ pending # None
    /\ status' = [status EXCEPT ![pending.thread] = "stored"]
    /\ turns' = [turns EXCEPT ![pending.thread] = Append(pending.copy, pending.tool)]
    /\ pending' = None
    /\ UNCHANGED left

\* setex() writes the appended copy whatever happened to the key meanwhile.
StoreTurn ==
    /\ pending # None
    /\ status' = [status EXCEPT ![pending.thread] = "stored"]
    /\ turns' = [turns EXCEPT ![pending.thread] = Append(pending.copy, pending.tool)]
    /\ left' = [left EXCEPT ![pending.thread] = TTL]
    /\ pending' = None

Sweep ==
    /\ Remove({t \in Threads : status[t] = "stored" /\ left[t] < 0})
    /\ UNCHANGED pending

\* Nothing survives the process; clients still hold the old thread ids.
Restart ==
    /\ Remove({t \in Threads : status[t] = "stored"})
    /\ pending' = None

Tick ==
    /\ left' = [t \in Threads |-> IF left[t] > Expired THEN left[t] - 1 ELSE left[t]]
    /\ UNCHANGED <<status, turns, pending>>

Next ==
    \/ \E t \in Threads :
        CreateThread(t) \/ GetThread(t) \/ \E tool \in Tools : AddTurn(tool, t)
    \/ StoreTurn
    \/ Sweep
    \/ Restart
    \/ Tick

Spec == Init /\ [][Next]_vars

-----------------------------------------------------------------------------

(* A turn being added keeps its thread in existence: if the sweep takes the   *)
(* key meanwhile, setex() brings it back with its turns.                      *)

InHand(t) == pending # None /\ pending.thread = t
LogStatus == [t \in Threads |-> IF InHand(t) THEN "stored" ELSE status[t]]
LogTurns == [t \in Threads |-> IF InHand(t) THEN pending.copy ELSE turns[t]]

Log == INSTANCE ThreadLog WITH
    Writers <- Tools, MaxWait <- 0, Durable <- FALSE, status <- LogStatus, turns <- LogTurns

\* The store behaves like the log of turns that its callers are promised.
ImplementsLog == Log!Spec
=============================================================================
