---------------------- MODULE ConversationStorageProofs ----------------------
(***************************************************************************)
(* Theorems about the conversation store, for every number of processes,   *)
(* threads and tools, every turn limit, TTL and waiting time: first the    *)
(* SQLite backend by itself, then the store over the backend it is given,  *)
(* and that each backend implements the log its callers are promised.      *)
(***************************************************************************)
EXTENDS ConversationStorage, FiniteSetTheorems, TLAPS

\* A thread that has no row yet has no turns, and a UUID is being inserted by at
\* most one process, into a table that does not hold it.  Without this the
\* commit of a create could bring back a thread that others have written to.
\* The other operations work on ids that create_thread has returned.
Unborn ==
    /\ \A t \in Threads : status[t] = "unborn" => turns[t] = <<>> /\ acked[t] = <<>>
    /\ \A p \in Processes : op[p] # Idle /\ op[p].pc # "create" =>
        status[op[p].thread] # "unborn"
    /\ \A p \in Processes : Doing(p, "create") =>
        /\ status[op[p].thread] = "unborn"
        /\ \A q \in Processes :
            Doing(q, "create") /\ op[q].thread = op[p].thread => q = p

IInv == TypeOK /\ Unborn /\ AckedTurnsKept

\* The invariant holds initially.
LEMMA InitIInv == Init => IInv
<1> SUFFICES ASSUME Init PROVE IInv
  OBVIOUS
<1>1. TypeOK
  BY StoreConstants DEF Init, TypeOK, Idle, Expired, Unset
<1>2. Unborn
  BY DEF Init, Unborn, Doing, Idle
<1>3. AckedTurnsKept
  BY DEF Init, AckedTurnsKept
<1> QED
  BY <1>1, <1>2, <1>3 DEF IInv

\* What an operation in progress looks like.
LEMMA DoingType ==
  ASSUME TypeOK, NEW p \in Processes, NEW pc, Doing(p, pc)
  PROVE  op[p] \in OpTypes /\ op[p].thread \in Threads /\ op[p].lag \in 0 .. MaxWait /\ op[p].pc = pc
  BY DEF TypeOK, Doing, OpTypes, Idle

\* An operation begins: no row changes, and a create begins on an unused id.
LEMMA BeginKeepsIInv ==
  ASSUME IInv, NEW p \in Processes, NEW t \in Threads,
         CreateBegin(p, t) \/ GetBegin(p, t) \/ UpdateBegin(p, t)
  PROVE  IInv'
<1> USE DEF IInv
<1>1. PICK pc \in {"create", "get", "update"} :
        /\ Begin(p, pc, t)
        /\ pc = "create" => /\ status[t] = "unborn"
                            /\ \A q \in Processes : ~(Doing(q, "create") /\ op[q].thread = t)
        /\ pc # "create" => status[t] # "unborn"
  BY DEF CreateBegin, GetBegin, UpdateBegin
<1> DEFINE new == [pc |-> pc, thread |-> t, lag |-> 0]
<1>2. new \in OpTypes /\ new # Idle
  BY StoreConstants DEF OpTypes, Idle
<1>3. TypeOK'
  BY <1>1, <1>2 DEF Begin, TypeOK
<1>4. /\ op'[p] = new
      /\ \A q \in Processes \ {p} : op'[q] = op[q]
  BY <1>1 DEF Begin, TypeOK
<1>5. Unborn'
  BY <1>1, <1>2, <1>4 DEF Unborn, Doing, Begin
<1> QED
  BY <1>1, <1>3, <1>5 DEF AckedTurnsKept, Begin

\* An operation ends without having changed a row.
LEMMA FinishKeepsIInv ==
  ASSUME IInv, NEW p \in Processes, Finish(p), UNCHANGED <<status, turns, left, acked>>,
         sweepLag' \in [Processes -> {Unset} \union (0 .. MaxWait)]
  PROVE  IInv'
<1> USE DEF IInv
<1>1. TypeOK'
  BY DEF Finish, TypeOK
<1>2. Unborn'
  BY DEF Finish, TypeOK, Unborn, Doing
<1> QED
  BY <1>1, <1>2 DEF AckedTurnsKept

\* Rows are removed that some create has inserted before.
LEMMA RemoveKeepsIInv ==
  ASSUME IInv, NEW dead \in SUBSET Threads, Remove(dead), UNCHANGED acked,
         \A t \in dead : status[t] # "unborn",
         op' \in [Processes -> {Idle} \union OpTypes],
         \A p \in Processes : op'[p] = op[p] \/ op'[p] = Idle,
         sweepLag' \in [Processes -> {Unset} \union (0 .. MaxWait)]
  PROVE  IInv'
<1> USE DEF IInv
<1>1. TypeOK'
  <2>1. Expired \in Expired .. TTL
    BY StoreConstants DEF Expired
  <2>2. left' \in [Threads -> Expired .. TTL]
    BY <2>1 DEF Remove, TypeOK
  <2>3. status' \in [Threads -> {"unborn", "stored", "deleted"}]
    BY DEF Remove, TypeOK
  <2>4. turns' \in [Threads -> Seq(Processes)]
    BY DEF Remove, TypeOK
  <2> QED
    BY <2>2, <2>3, <2>4 DEF TypeOK
<1>2. \A t \in Threads : status'[t] = "unborn" <=> status[t] = "unborn"
  BY DEF Remove, TypeOK
<1>3. \A p \in Processes : op'[p] # Idle => op'[p] = op[p] /\ op[p].thread \in Threads
  BY DEF TypeOK, OpTypes
<1>4. Unborn'
  <2>1. \A t \in Threads : status'[t] = "unborn" => turns'[t] = <<>> /\ acked'[t] = <<>>
    BY <1>2 DEF Remove, Unborn, TypeOK
  <2> QED
    BY <1>2, <1>3, <2>1 DEF Unborn, Doing
<1>5. AckedTurnsKept'
  BY DEF Remove, AckedTurnsKept, TypeOK
<1> QED
  BY <1>1, <1>4, <1>5

\* The row of a new thread holds no turn, like the history of its id.
LEMMA CreateKeepsIInv ==
  ASSUME IInv, NEW p \in Processes, CreateCommit(p)
  PROVE  IInv'
<1> USE DEF IInv
<1> DEFINE t == op[p].thread
<1>1. t \in Threads /\ op[p].lag \in 0 .. MaxWait
  BY DoingType DEF CreateCommit
<1>2. TypeOK'
  <2>1. TTL - op[p].lag \in Expired .. TTL
    BY <1>1, StoreConstants DEF Expired
  <2> QED
    BY <1>1, <2>1 DEF CreateCommit, Finish, TypeOK
<1>3. \A q \in Processes : op'[q] # Idle => q # p /\ op'[q] = op[q] /\ op[q].thread \in Threads
  BY DEF CreateCommit, Finish, TypeOK, OpTypes
<1>4. \A u \in Threads : status'[u] = IF u = t THEN "stored" ELSE status[u]
  BY DEF CreateCommit, TypeOK
<1>5. turns[t] = <<>> /\ acked[t] = <<>> /\ turns' = turns /\ acked' = acked
  BY <1>1 DEF Unborn, CreateCommit
<1>6. Unborn'
  BY <1>3, <1>4, <1>5 DEF Unborn, Doing, CreateCommit
<1>7. AckedTurnsKept'
  BY <1>4, <1>5, StoreConstants DEF AckedTurnsKept
<1> QED
  BY <1>2, <1>6, <1>7

\* A committed update appends the same turn to the row and to the history.
LEMMA UpdateKeepsIInv ==
  ASSUME IInv, NEW p \in Processes, UpdateCommit(p)
  PROVE  IInv'
<1> USE DEF IInv
<1> DEFINE t == op[p].thread
<1>1. t \in Threads /\ op[p].lag \in 0 .. MaxWait
  BY DoingType DEF UpdateCommit
<1>2. status[t] = "stored" /\ Len(turns[t]) < MaxTurns
  BY <1>1, StoreConstants DEF UpdateCommit, Aborts, TypeOK
<1>3. TypeOK'
  <2>1. TTL - op[p].lag \in Expired .. TTL
    BY <1>1, StoreConstants DEF Expired
  <2>2. Append(turns[t], p) \in Seq(Processes) /\ Append(acked[t], p) \in Seq(Processes)
    BY <1>1 DEF TypeOK
  <2> QED
    BY <1>1, <2>1, <2>2 DEF UpdateCommit, Finish, TypeOK
<1>4. \A q \in Processes : op'[q] # Idle => q # p /\ op'[q] = op[q] /\ op[q].thread \in Threads
  BY DEF UpdateCommit, Finish, TypeOK, OpTypes
<1>5. \A u \in Threads :
        /\ turns'[u] = IF u = t THEN Append(turns[u], p) ELSE turns[u]
        /\ acked'[u] = IF u = t THEN Append(acked[u], p) ELSE acked[u]
        /\ status' = status
  BY DEF UpdateCommit, TypeOK
<1>6. Unborn'
  BY <1>2, <1>4, <1>5 DEF Unborn, Doing, UpdateCommit
<1>7. AckedTurnsKept'
  <2>1. Len(Append(turns[t], p)) <= MaxTurns
    BY <1>1, <1>2, StoreConstants DEF TypeOK
  <2> QED
    BY <1>2, <1>5, <2>1, ZenonT(30) DEF AckedTurnsKept
<1> QED
  BY <1>3, <1>6, <1>7

\* Time makes rows and operations older and changes nothing else.
LEMMA TickKeepsIInv ==
  ASSUME IInv, Tick
  PROVE  IInv'
<1> USE DEF IInv
<1>1. left' \in [Threads -> Expired .. TTL]
  BY StoreConstants DEF Tick, TypeOK, Expired
<1>2. \A p \in Processes : op[p] # Idle =>
        /\ op'[p] \in OpTypes /\ op'[p] # Idle
        /\ op'[p].pc = op[p].pc /\ op'[p].thread = op[p].thread
  <2> SUFFICES ASSUME NEW p \in Processes, op[p] # Idle
               PROVE  /\ op'[p] \in OpTypes /\ op'[p] # Idle
                      /\ op'[p].pc = op[p].pc /\ op'[p].thread = op[p].thread
    OBVIOUS
  <2>1. op[p] \in OpTypes /\ op[p].lag \in 0 .. MaxWait - 1
    BY StoreConstants DEF Tick, TypeOK, OpTypes
  <2>2. op'[p] = [op[p] EXCEPT !.lag = @ + 1]
    BY DEF Tick
  <2>3. op[p].lag + 1 \in 0 .. MaxWait
    BY <2>1, StoreConstants
  <2> QED
    BY <2>1, <2>2, <2>3 DEF OpTypes, Idle
<1>3. \A p \in Processes : op[p] = Idle => op'[p] = Idle
  BY DEF Tick
<1>4. sweepLag' \in [Processes -> {Unset} \union (0 .. MaxWait)]
  BY StoreConstants DEF Tick, TypeOK, Unset
<1>5. op' \in [Processes -> {Idle} \union OpTypes]
  <2>1. op' = [p \in Processes |-> op'[p]]
    BY DEF Tick
  <2> QED
    BY <1>2, <1>3, <2>1
<1>6. TypeOK'
  BY <1>1, <1>4, <1>5 DEF Tick, TypeOK
<1>7. Unborn'
  BY <1>2, <1>3 DEF Unborn, Doing, Tick
<1> QED
  BY <1>6, <1>7 DEF AckedTurnsKept, Tick

\* The invariant is inductive: one step per action.
LEMMA NextIInv == IInv /\ [Next]_vars => IInv'
<1> SUFFICES ASSUME IInv, [Next]_vars PROVE IInv'
  OBVIOUS
<1>1. ASSUME NEW p \in Processes, LoopBegins(p)
      PROVE  IInv'
  BY <1>1, BeginKeepsIInv DEF LoopBegins
<1>2. ASSUME NEW p \in Processes, LoopWorks(p)
      PROVE  IInv'
  <2>1. CASE CreateCommit(p)
    BY <2>1, CreateKeepsIInv
  <2>2. CASE UpdateCommit(p)
    BY <2>2, UpdateKeepsIInv
  <2>3. CASE UpdateAbort(p)
    BY <2>3, FinishKeepsIInv DEF UpdateAbort, IInv, TypeOK
  <2>4. CASE GetSelect(p)
    <3>1. CASE Finish(p)
      BY <2>4, <3>1, FinishKeepsIInv DEF GetSelect, IInv, TypeOK
    <3>2. CASE op' = [op EXCEPT ![p].pc = "delete"]
      <4> USE <2>4, <3>2 DEF IInv, GetSelect
      <4>1. /\ op[p] \in OpTypes /\ op[p].pc = "get"
        BY DoingType
      <4>2. /\ op'[p] \in OpTypes /\ op'[p] # Idle /\ op'[p].pc = "delete"
            /\ op'[p].thread = op[p].thread /\ op[p] # Idle
        <5>1. op'[p] = [op[p] EXCEPT !.pc = "delete"]
          BY DEF TypeOK
        <5> QED
          BY <4>1, <5>1 DEF OpTypes, Idle
      <4>3. \A q \in Processes \ {p} : op'[q] = op[q]
        BY DEF TypeOK
      <4>4. TypeOK'
        BY <4>2 DEF TypeOK
      <4>5. Unborn'
        BY <4>1, <4>2, <4>3 DEF Unborn, Doing
      <4> QED
        BY <4>4, <4>5 DEF AckedTurnsKept
    <3> QED
      BY <2>4, <3>1, <3>2 DEF GetSelect
  <2>5. CASE GetDelete(p)
    <3>1. /\ op[p].thread \in Threads /\ status[op[p].thread] # "unborn"
      BY <2>5, DoingType DEF GetDelete, IInv, Unborn, Doing
    <3>2. /\ op' \in [Processes -> {Idle} \union OpTypes]
          /\ \A q \in Processes : op'[q] = op[q] \/ op'[q] = Idle
      BY <2>5 DEF GetDelete, Finish, IInv, TypeOK
    <3> QED
      BY <2>5, <3>1, <3>2, RemoveKeepsIInv DEF GetDelete, IInv, TypeOK
  <2> QED
    BY <1>2, <2>1, <2>2, <2>3, <2>4, <2>5 DEF LoopWorks
<1>3. ASSUME NEW p \in Processes, SweepBegin(p)
      PROVE  IInv'
  BY <1>3, StoreConstants DEF SweepBegin, IInv, TypeOK, Unborn, Doing, AckedTurnsKept
<1>4. ASSUME NEW p \in Processes, SweepDelete(p)
      PROVE  IInv'
  <2> DEFINE dead == {t \in Threads : status[t] = "stored" /\ left[t] + sweepLag[p] < 0}
  <2>1. Remove(dead) /\ dead \in SUBSET Threads /\ \A t \in dead : status[t] # "unborn"
    BY <1>4 DEF SweepDelete
  <2>2. sweepLag' \in [Processes -> {Unset} \union (0 .. MaxWait)]
    BY <1>4 DEF SweepDelete, IInv, TypeOK
  <2> QED
    BY <1>4, <2>1, <2>2, RemoveKeepsIInv DEF SweepDelete, IInv, TypeOK
<1>5. ASSUME NEW p \in Processes, DatabaseBusy(p) \/ Restart(p)
      PROVE  IInv'
  <2>1. /\ Finish(p) /\ UNCHANGED <<status, turns, left, acked>>
        /\ sweepLag' \in [Processes -> {Unset} \union (0 .. MaxWait)]
    BY <1>5 DEF DatabaseBusy, Restart, IInv, TypeOK
  <2> QED
    BY <2>1, FinishKeepsIInv
<1>6. CASE Tick
  BY <1>6, TickKeepsIInv
<1>7. CASE UNCHANGED vars
  BY <1>7 DEF vars, IInv, TypeOK, Unborn, Doing, AckedTurnsKept
<1> QED
  BY <1>1, <1>2, <1>3, <1>4, <1>5, <1>6, <1>7 DEF Next

\* Every reachable state has the inductive invariant.
THEOREM Invariance == Spec => []IInv
  BY InitIInv, NextIInv, PTL DEF Spec

\* Type correctness of the shared store.
THEOREM TypeCorrect == Spec => []TypeOK
<1>1. IInv => TypeOK
  BY DEF IInv
<1> QED
  BY <1>1, Invariance, PTL

\* No interleaving of any number of processes loses, duplicates or reorders an
\* acknowledged turn of a stored thread, or exceeds the turn limit.
THEOREM NoTurnLost == Spec => []AckedTurnsKept
<1>1. IInv => AckedTurnsKept
  BY DEF IInv
<1> QED
  BY <1>1, Invariance, PTL

-----------------------------------------------------------------------------
(* The store over its backend.                                             *)

\* A process that is not part of the deployment does nothing with the file.
OnlyTheDeployed ==
    \A p \in Processes \ deployment.processes : op[p] = Idle /\ sweepLag[p] = Unset

\* Where one process has the file to itself, the row that its get is about to delete
\* is still the expired one that it has selected: only its own sweep could have
\* taken the row, and self._lock keeps that out.
DeletesWhatItSaw ==
    SoleOwner => \A p \in Processes : Doing(p, "delete") =>
        /\ status[op[p].thread] = "stored"
        /\ left[op[p].thread] <= 0

\* A thread that memory does not hold has left nothing behind.
MemoryForgets ==
    \A t \in Threads : memStatus[t] # "stored" =>
        memTurns[t] = <<>> /\ memLeft[t] = Memory!Expired

\* add_turn has read its thread from the store, and the thread was not full.
PendingWasRead ==
    memPending # Memory!None =>
        /\ memStatus[memPending.thread] # "unborn"
        /\ Len(memPending.copy) < MaxTurns

StorageIInv ==
    /\ StorageTypeOK
    /\ IInv
    /\ OnlyTheDeployed
    /\ DeletesWhatItSaw
    /\ MemoryForgets
    /\ PendingWasRead

\* A step on the SQLite backend is a step of the SQLite store, of a process of the
\* deployment.
LEMMA SqliteStepIsStep ==
  ASSUME StorageTypeOK, UseSqlite
  PROVE  Next
<1>1. deployment.processes \in SUBSET Processes /\ deployment.threads \in SUBSET Threads
  BY DeploymentAssumption DEF StorageTypeOK
<1>2. ASSUME NEW p \in deployment.processes, SqliteStep(p)
      PROVE  Next
  <2>1. p \in Processes /\ (SqliteBegins(p) => LoopBegins(p))
    BY <1>1 DEF SqliteBegins, LoopBegins
  <2> QED
    BY <1>2, <2>1 DEF SqliteStep, Next
<1> QED
  BY <1>2 DEF UseSqlite, Next

\* Every step of the server leaves at least one backend alone.
LEMMA StorageStepCases ==
  ASSUME StorageTypeOK, [StorageNext]_storageVars
  PROVE  \/ UNCHANGED <<vars, memVars, deployment>> /\ backend' \in {"none", "sqlite", "memory"}
         \/ UseSqlite /\ Next /\ UNCHANGED <<memVars, deployment, backend>>
         \/ UseMemory /\ Memory!Next /\ UNCHANGED <<vars, deployment, backend>>
<1>1. CASE CreateBackend
  BY <1>1 DEF CreateBackend
<1>2. CASE UseSqlite
  BY <1>2, SqliteStepIsStep DEF UseSqlite, Unchosen
<1>3. CASE UseMemory
  BY <1>3 DEF UseMemory
<1>4. CASE UNCHANGED storageVars
  BY <1>4 DEF storageVars, StorageTypeOK
<1> QED
  BY <1>1, <1>2, <1>3, <1>4 DEF StorageNext

-----------------------------------------------------------------------------
(* The memory backend.                                                     *)

MemoryIInv == Memory!TypeOK /\ MemoryForgets /\ PendingWasRead

\* Removing threads that are stored leaves the memory backend in a good state.
LEMMA MemoryRemoveKeeps ==
  ASSUME MemoryIInv, NEW dead \in SUBSET Threads, Memory!Remove(dead),
         \A t \in dead : memStatus[t] = "stored"
  PROVE  /\ memStatus' \in [Threads -> {"unborn", "stored", "deleted"}]
         /\ memTurns' \in [Threads -> Seq(Tools)]
         /\ memLeft' \in [Threads -> Memory!Expired .. TTL]
         /\ MemoryForgets'
         /\ \A t \in Threads : memStatus'[t] = "unborn" <=> memStatus[t] = "unborn"
<1> USE DEF MemoryIInv, Memory!TypeOK, Memory!Remove, Memory!Expired
<1>1. -1 \in -1 .. TTL
  BY StoreConstants
<1>2. memLeft' \in [Threads -> -1 .. TTL]
  BY <1>1
<1>3. MemoryForgets'
  BY DEF MemoryForgets
<1> QED
  BY <1>2, <1>3

\* Each operation of the memory backend keeps its invariant.
LEMMA MemoryStepKeeps ==
  ASSUME MemoryIInv, Memory!Next
  PROVE  MemoryIInv'
<1> USE DEF MemoryIInv, Memory!None
<1>0. /\ Memory!TypeOK /\ MemoryForgets /\ PendingWasRead
      /\ memStatus \in [Threads -> {"unborn", "stored", "deleted"}]
      /\ memTurns \in [Threads -> Seq(Tools)]
      /\ memLeft \in [Threads -> -1 .. TTL]
      /\ memPending # Memory!None =>
            /\ memPending.thread \in Threads /\ memPending.tool \in Tools
            /\ memPending.copy \in Seq(Tools)
  BY DEF Memory!TypeOK, Memory!Pending, Memory!Expired
<1>1. ASSUME NEW t \in Threads, Memory!CreateThread(t)
      PROVE  MemoryIInv'
  BY <1>0, <1>1, StoreConstants
     DEF Memory!CreateThread, Memory!TypeOK, Memory!Expired, MemoryForgets, PendingWasRead
<1>2. ASSUME NEW t \in Threads, Memory!Read(t)
      PROVE  /\ memStatus' \in [Threads -> {"unborn", "stored", "deleted"}]
             /\ memTurns' \in [Threads -> Seq(Tools)]
             /\ memLeft' \in [Threads -> Memory!Expired .. TTL]
             /\ MemoryForgets'
             /\ \A u \in Threads : memStatus'[u] = "unborn" <=> memStatus[u] = "unborn"
  <2>1. CASE Memory!Remove({t}) /\ memStatus[t] = "stored"
    BY <2>1, MemoryRemoveKeeps
  <2>2. CASE UNCHANGED <<memStatus, memTurns, memLeft>>
    BY <2>2, <1>0 DEF MemoryForgets, Memory!TypeOK
  <2> QED
    BY <1>2, <2>1, <2>2 DEF Memory!Read
<1>3. ASSUME NEW t \in Threads, Memory!GetThread(t)
      PROVE  MemoryIInv'
  BY <1>2, <1>3 DEF Memory!GetThread, Memory!TypeOK, PendingWasRead
<1>4. ASSUME NEW t \in Threads, NEW tool \in Tools, Memory!AddTurn(tool, t)
      PROVE  MemoryIInv'
  <2> DEFINE new == [tool |-> tool, thread |-> t, copy |-> memTurns[t]]
  <2>1. Memory!Read(t) /\ memStatus[t] # "unborn"
    BY <1>4 DEF Memory!AddTurn
  <2>2. memPending' = Memory!None \/ (memPending' = new /\ Len(memTurns[t]) < MaxTurns)
    BY <1>4 DEF Memory!AddTurn
  <2>3. new \in Memory!Pending
    BY <1>0 DEF Memory!Pending
  <2>4. PendingWasRead'
    BY <1>2, <2>1, <2>2 DEF PendingWasRead
  <2> QED
    BY <1>2, <2>1, <2>2, <2>3, <2>4 DEF Memory!TypeOK
<1>5. CASE Memory!StoreTurn
  <2> DEFINE t == memPending.thread
  <2>1. t \in Threads /\ Append(memPending.copy, memPending.tool) \in Seq(Tools) /\ TTL \in -1 .. TTL
    BY <1>0, <1>5, StoreConstants DEF Memory!StoreTurn
  <2> QED
    BY <1>0, <1>5, <2>1
       DEF Memory!StoreTurn, Memory!TypeOK, Memory!Expired, MemoryForgets, PendingWasRead
<1>6. CASE Memory!Sweep
  <2> DEFINE dead == {t \in Threads : memStatus[t] = "stored" /\ memLeft[t] < 0}
  <2>1. dead \in SUBSET Threads /\ Memory!Remove(dead) /\ UNCHANGED memPending
    BY <1>6 DEF Memory!Sweep
  <2>2. \A t \in dead : memStatus[t] = "stored"
    OBVIOUS
  <2> HIDE DEF dead
  <2>3. /\ memStatus' \in [Threads -> {"unborn", "stored", "deleted"}]
        /\ memTurns' \in [Threads -> Seq(Tools)]
        /\ memLeft' \in [Threads -> Memory!Expired .. TTL]
        /\ MemoryForgets'
        /\ \A t \in Threads : memStatus'[t] = "unborn" <=> memStatus[t] = "unborn"
    BY <2>1, <2>2, MemoryRemoveKeeps
  <2> QED
    BY <1>0, <2>1, <2>3 DEF Memory!TypeOK, PendingWasRead
<1>7. CASE Memory!Restart
  <2> DEFINE dead == {t \in Threads : memStatus[t] = "stored"}
  <2>1. dead \in SUBSET Threads /\ Memory!Remove(dead) /\ memPending' = Memory!None
    BY <1>7 DEF Memory!Restart
  <2>2. \A t \in dead : memStatus[t] = "stored"
    OBVIOUS
  <2> HIDE DEF dead
  <2>3. /\ memStatus' \in [Threads -> {"unborn", "stored", "deleted"}]
        /\ memTurns' \in [Threads -> Seq(Tools)]
        /\ memLeft' \in [Threads -> Memory!Expired .. TTL]
        /\ MemoryForgets'
    BY <2>1, <2>2, MemoryRemoveKeeps
  <2> QED
    BY <2>1, <2>3 DEF Memory!TypeOK, PendingWasRead
<1>8. CASE Memory!Tick
  <2>1. memLeft' \in [Threads -> -1 .. TTL]
    BY <1>0, <1>8, StoreConstants DEF Memory!Tick, Memory!Expired
  <2> QED
    BY <1>0, <1>8, <2>1
       DEF Memory!Tick, Memory!TypeOK, Memory!Expired, MemoryForgets, PendingWasRead
<1> QED
  BY <1>1, <1>3, <1>4, <1>5, <1>6, <1>7, <1>8 DEF Memory!Next

MemoryLog == <<Memory!LogStatus, Memory!LogTurns, memLeft>>

\* Each operation of the memory backend is one step of the log, or none: a create,
\* an append (at setex), the removal of expired threads, the loss of everything, a
\* tick.  A sweep that takes the thread of an add_turn in progress takes nothing.
LEMMA MemoryStepSimulates ==
  ASSUME MemoryIInv, Memory!Next
  PROVE  [Memory!Log!Next]_MemoryLog
<1> USE DEF Memory!None, Memory!InHand, Memory!LogStatus, Memory!LogTurns, MemoryLog,
            Memory!Log!Expired, Memory!Expired
<1>0. /\ MemoryForgets /\ PendingWasRead
      /\ memStatus \in [Threads -> {"unborn", "stored", "deleted"}]
      /\ memTurns \in [Threads -> Seq(Tools)]
      /\ memLeft \in [Threads -> -1 .. TTL]
      /\ memPending # Memory!None =>
            /\ memPending.thread \in Threads /\ memPending.tool \in Tools
            /\ memPending.copy \in Seq(Tools)
  BY DEF Memory!TypeOK, Memory!Pending, MemoryIInv
<1>1. ASSUME memPending = Memory!None
      PROVE  Memory!LogStatus = memStatus /\ Memory!LogTurns = memTurns
  BY <1>0, <1>1
<1>2. ASSUME NEW t \in Threads, memPending = Memory!None, Memory!Read(t), memPending' = Memory!None
      PROVE  [Memory!Log!Next]_MemoryLog
  <2>1. Memory!LogStatus' = memStatus' /\ Memory!LogTurns' = memTurns'
    BY <1>0, <1>2 DEF Memory!Read, Memory!Remove
  <2>2. CASE memStatus[t] = "stored" /\ memLeft[t] <= 0
    <3>1. Memory!Log!Forget({t})
      BY <1>1, <1>2, <2>1, <2>2 DEF Memory!Read, Memory!Remove, Memory!Log!Forget
    <3> QED
      BY <3>1 DEF Memory!Log!Next
  <2> QED
    BY <1>1, <1>2, <2>1, <2>2 DEF Memory!Read
<1>3. ASSUME NEW t \in Threads, Memory!CreateThread(t)
      PROVE  Memory!Log!Next
  <2>1. TTL - 0 = TTL /\ 0 \in 0 .. 0
    BY StoreConstants
  <2>2. Memory!LogStatus' = memStatus' /\ Memory!LogTurns' = memTurns'
    BY <1>0, <1>3 DEF Memory!CreateThread
  <2>3. memLeft' = [memLeft EXCEPT ![t] = TTL - 0]
    BY <1>3, <2>1 DEF Memory!CreateThread
  <2>4. Memory!Log!Create(t)
    BY <1>1, <1>3, <2>1, <2>2, <2>3 DEF Memory!CreateThread, Memory!Log!Create
  <2> QED
    BY <2>4 DEF Memory!Log!Next
<1>4. ASSUME NEW t \in Threads, Memory!GetThread(t)
      PROVE  [Memory!Log!Next]_MemoryLog
  BY <1>2, <1>4 DEF Memory!GetThread
<1>5. ASSUME NEW t \in Threads, NEW tool \in Tools, Memory!AddTurn(tool, t)
      PROVE  [Memory!Log!Next]_MemoryLog
  <2>1. CASE memPending' = Memory!None
    BY <1>2, <1>5, <2>1 DEF Memory!AddTurn
  <2>2. CASE memPending' # Memory!None
    <3>1. /\ memStatus[t] = "stored" /\ UNCHANGED <<memStatus, memTurns, memLeft>>
          /\ memPending' = [tool |-> tool, thread |-> t, copy |-> memTurns[t]]
          /\ memPending = Memory!None
      BY <1>0, <1>5, <2>2 DEF Memory!AddTurn, Memory!Read, Memory!Readable
    <3>2. Memory!LogStatus' = memStatus /\ Memory!LogTurns' = memTurns
      BY <1>0, <2>2, <3>1
    <3> QED
      BY <1>1, <3>1, <3>2
  <2> QED
    BY <2>1, <2>2
<1>6. CASE Memory!StoreTurn
  <2> DEFINE t == memPending.thread
  <2>1. /\ t \in Threads /\ memPending.tool \in Tools /\ Len(memPending.copy) < MaxTurns
        /\ TTL - 0 = TTL /\ 0 \in 0 .. 0
    BY <1>0, <1>6, StoreConstants DEF Memory!StoreTurn, PendingWasRead
  <2>2. Memory!LogStatus' = memStatus' /\ Memory!LogTurns' = memTurns'
    BY <1>0, <1>6 DEF Memory!StoreTurn
  <2>3. Memory!LogStatus[t] = "stored" /\ Memory!LogTurns[t] = memPending.copy
    BY <1>6, <2>1 DEF Memory!StoreTurn
  <2>4. memLeft' = [memLeft EXCEPT ![t] = TTL - 0]
    BY <1>6, <2>1 DEF Memory!StoreTurn
  <2>5. memStatus' = Memory!LogStatus
    BY <1>0, <1>6, <2>1 DEF Memory!StoreTurn
  <2>6. memTurns' = [Memory!LogTurns EXCEPT ![t] = Append(@, memPending.tool)]
    BY <1>0, <1>6, <2>1 DEF Memory!StoreTurn
  <2>7. Memory!Log!AppendTurn(t, memPending.tool)
    BY <2>1, <2>2, <2>3, <2>4, <2>5, <2>6 DEF Memory!Log!AppendTurn
  <2> HIDE DEF Memory!InHand, Memory!LogStatus, Memory!LogTurns
  <2> QED
    BY <2>1, <2>7 DEF Memory!Log!Next
<1>7. CASE Memory!Sweep
  <2> DEFINE dead == {t \in Threads : memStatus[t] = "stored" /\ memLeft[t] < 0 /\ ~Memory!InHand(t)}
  <2>1. \A t \in dead : Memory!LogStatus[t] = "stored" /\ memLeft[t] <= 0
    BY <1>0
  <2>2. Memory!LogStatus' = [t \in Threads |-> IF t \in dead THEN "deleted" ELSE Memory!LogStatus[t]]
    BY <1>0, <1>7 DEF Memory!Sweep, Memory!Remove
  <2>3. Memory!LogTurns' = [t \in Threads |-> IF t \in dead THEN <<>> ELSE Memory!LogTurns[t]]
    BY <1>0, <1>7 DEF Memory!Sweep, Memory!Remove
  <2>4. memLeft' = [t \in Threads |-> IF t \in dead THEN -(0 + 1) ELSE memLeft[t]]
    BY <1>0, <1>7 DEF Memory!Sweep, Memory!Remove
  <2>5. Memory!Log!Forget(dead) /\ dead \in SUBSET Threads
    BY <2>1, <2>2, <2>3, <2>4 DEF Memory!Log!Forget
  <2> HIDE DEF dead, Memory!InHand, Memory!LogStatus, Memory!LogTurns
  <2> QED
    BY <2>5 DEF Memory!Log!Next
<1>8. CASE Memory!Restart
  <2>1. Memory!LogStatus' = [t \in Threads |->
                                IF Memory!LogStatus[t] = "stored" THEN "deleted" ELSE Memory!LogStatus[t]]
    BY <1>0, <1>8 DEF Memory!Restart, Memory!Remove, PendingWasRead
  <2>2. Memory!LogTurns' = [t \in Threads |-> <<>>]
    BY <1>0, <1>8 DEF Memory!Restart, Memory!Remove, MemoryForgets
  <2>3. memLeft' = [t \in Threads |-> -(0 + 1)]
    BY <1>0, <1>8 DEF Memory!Restart, Memory!Remove, MemoryForgets
  <2>4. Memory!Log!Lose
    BY <2>1, <2>2, <2>3 DEF Memory!Log!Lose
  <2> QED
    BY <2>4 DEF Memory!Log!Next
<1>9. CASE Memory!Tick
  <2>1. memLeft' = [t \in Threads |-> IF memLeft[t] > -(0 + 1) THEN memLeft[t] - 1 ELSE memLeft[t]]
    BY <1>0, <1>9 DEF Memory!Tick
  <2>2. Memory!Log!Tick
    BY <1>9, <2>1 DEF Memory!Tick, Memory!Log!Tick
  <2> QED
    BY <2>2 DEF Memory!Log!Next
<1> QED
  BY <1>3, <1>4, <1>5, <1>6, <1>7, <1>8, <1>9 DEF Memory!Next

-----------------------------------------------------------------------------
(* The SQLite backend in its deployment.                                   *)

\* A deployment of fewer than two processes has at most one.
LEMMA OneOwner ==
  ASSUME StorageTypeOK, SoleOwner,
         NEW p \in deployment.processes, NEW q \in deployment.processes
  PROVE  p = q
<1> SUFFICES ASSUME p # q PROVE FALSE
  OBVIOUS
<1>1. IsFiniteSet(deployment.processes)
  BY DeploymentAssumption DEF StorageTypeOK
<1>2. Cardinality({p, q}) = 2
  <2>1. IsFiniteSet({p}) /\ Cardinality({p}) = 1
    BY FS_Singleton
  <2>2. q \notin {p} /\ {p} \union {q} = {p, q}
    OBVIOUS
  <2>3. Cardinality({p} \union {q}) = Cardinality({p}) + 1
    BY <2>1, <2>2, FS_AddElement
  <2> QED
    BY <2>1, <2>2, <2>3
<1>3. {p, q} \subseteq deployment.processes
  OBVIOUS
<1>4. Cardinality({p, q}) <= Cardinality(deployment.processes)
  BY <1>1, <1>3, FS_Subset
<1>5. Cardinality(deployment.processes) \in Nat
  BY <1>1, FS_CardinalityType
<1> QED
  BY <1>2, <1>4, <1>5 DEF SoleOwner

\* A process touches neither the loop nor the sweep of another.
LEMMA OthersUntouched ==
  ASSUME TypeOK, NEW p \in Processes, NEW q \in Processes \ {p},
         deployment.threads \in SUBSET Threads, SqliteStep(p)
  PROVE  op'[q] = op[q] /\ sweepLag'[q] = sweepLag[q]
<1> USE DEF TypeOK, Finish
<1>1. CASE SqliteBegins(p)
  BY <1>1 DEF SqliteBegins, CreateBegin, GetBegin, UpdateBegin, Begin
<1>2. CASE LoopWorks(p)
  BY <1>2 DEF LoopWorks, CreateCommit, GetSelect, GetDelete, UpdateAbort, UpdateCommit
<1>3. CASE SweepBegin(p) \/ SweepDelete(p)
  BY <1>3 DEF SweepBegin, SweepDelete
<1>4. CASE DatabaseBusy(p) \/ Restart(p)
  BY <1>4 DEF DatabaseBusy, Restart
<1> QED
  BY <1>1, <1>2, <1>3, <1>4 DEF SqliteStep

\* After a step of the sole owner of the file, a delete that it is about to do is of
\* the expired row it has selected.
LEMMA OwnerDeletesWhatItSaw ==
  ASSUME IInv, NEW p \in Processes, deployment.threads \in SUBSET Threads,
         SqliteStep(p), Doing(p, "delete")',
         Doing(p, "delete") => status[op[p].thread] = "stored" /\ left[op[p].thread] <= 0
  PROVE  status'[op'[p].thread] = "stored" /\ left'[op'[p].thread] <= 0
<1>0. TypeOK /\ op \in [Processes -> {Idle} \union OpTypes]
  BY DEF IInv, TypeOK
<1>1. ASSUME Finish(p)
      PROVE  FALSE
  BY <1>0, <1>1 DEF Finish, Doing
<1>2. CASE SqliteBegins(p)
  <2>1. PICK t \in Threads, pc \in {"create", "get", "update"} : Begin(p, pc, t)
    BY <1>2 DEF SqliteBegins, CreateBegin, GetBegin, UpdateBegin
  <2>2. op'[p].pc = pc
    BY <1>0, <2>1 DEF Begin
  <2> QED
    BY <2>1, <2>2 DEF Doing
<1>3. CASE GetSelect(p)
  <2> DEFINE t == op[p].thread
  <2>1. t \in Threads /\ op[p].lag \in 0 .. MaxWait
    BY <1>0, <1>3, DoingType DEF GetSelect
  <2>2. status[t] = "stored" /\ left[t] + op[p].lag <= 0 /\ op' = [op EXCEPT ![p].pc = "delete"]
    BY <1>1, <1>3 DEF GetSelect, LooksExpired
  <2>3. op'[p].thread = t
    BY <1>0, <2>2
  <2>4. left[t] \in Int /\ MaxWait \in Nat
    BY <2>1, StoreConstants DEF IInv, TypeOK, Expired
  <2>5. left[t] <= 0
    BY <2>1, <2>2, <2>4
  <2> QED
    BY <1>3, <2>2, <2>3, <2>5 DEF GetSelect
<1>4. CASE CreateCommit(p) \/ GetDelete(p) \/ UpdateAbort(p) \/ UpdateCommit(p)
  BY <1>1, <1>4 DEF CreateCommit, GetDelete, UpdateAbort, UpdateCommit
<1>5. CASE SweepBegin(p)
  BY <1>5 DEF SweepBegin, Doing
<1>6. CASE SweepDelete(p)
  BY <1>6 DEF SweepDelete, Doing
<1>7. CASE DatabaseBusy(p) \/ Restart(p)
  BY <1>1, <1>7 DEF DatabaseBusy, Restart
<1> QED
  BY <1>2, <1>3, <1>4, <1>5, <1>6, <1>7 DEF SqliteStep, LoopWorks

\* A step on the SQLite backend keeps what is known of its deployment.
LEMMA SqliteKeepsOwner ==
  ASSUME StorageIInv, UseSqlite
  PROVE  OnlyTheDeployed' /\ DeletesWhatItSaw'
<1>0. /\ deployment.processes \in SUBSET Processes /\ deployment.threads \in SUBSET Threads
      /\ deployment' = deployment /\ IInv /\ TypeOK /\ OnlyTheDeployed /\ DeletesWhatItSaw
      /\ StorageTypeOK /\ op \in [Processes -> {Idle} \union OpTypes]
  BY DeploymentAssumption DEF StorageTypeOK, StorageIInv, IInv, TypeOK, UseSqlite, Unchosen
<1>1. ASSUME NEW p \in deployment.processes, SqliteStep(p)
      PROVE  OnlyTheDeployed' /\ DeletesWhatItSaw'
  <2>1. OnlyTheDeployed'
    BY <1>0, <1>1, OthersUntouched DEF OnlyTheDeployed
  <2>2. ASSUME SoleOwner', NEW q \in Processes, Doing(q, "delete")'
        PROVE  status'[op'[q].thread] = "stored" /\ left'[op'[q].thread] <= 0
    <3>1. SoleOwner
      BY <1>0, <2>2 DEF SoleOwner
    <3>2. q \in deployment.processes
      BY <1>0, <2>1, <2>2 DEF OnlyTheDeployed, Doing
    <3>3. q = p
      BY <1>0, <3>1, <3>2, OneOwner
    <3>4. Doing(p, "delete") => status[op[p].thread] = "stored" /\ left[op[p].thread] <= 0
      BY <1>0, <3>1 DEF DeletesWhatItSaw
    <3> QED
      BY <1>0, <1>1, <2>2, <3>3, <3>4, OwnerDeletesWhatItSaw
  <2> QED
    BY <2>1, <2>2 DEF DeletesWhatItSaw
<1>2. CASE Tick
  <2>1. \A q \in Processes : op[q] = Idle => op'[q] = Idle
    BY <1>2 DEF Tick
  <2>2. \A q \in Processes : sweepLag[q] = Unset => sweepLag'[q] = Unset
    BY <1>2 DEF Tick
  <2>3. OnlyTheDeployed'
    BY <1>0, <2>1, <2>2 DEF OnlyTheDeployed
  <2>4. ASSUME SoleOwner', NEW q \in Processes, Doing(q, "delete")'
        PROVE  status'[op'[q].thread] = "stored" /\ left'[op'[q].thread] <= 0
    <3>1. op[q] # Idle /\ op'[q] = [op[q] EXCEPT !.lag = @ + 1]
      BY <1>2, <2>1, <2>4 DEF Tick, Doing
    <3>2. op[q] \in OpTypes
      BY <1>0, <3>1
    <3>3. op'[q].pc = op[q].pc /\ op'[q].thread = op[q].thread /\ op[q].thread \in Threads
      BY <3>1, <3>2 DEF OpTypes
    <3>4. status[op[q].thread] = "stored" /\ left[op[q].thread] <= 0
      BY <1>0, <2>4, <3>1, <3>3 DEF DeletesWhatItSaw, Doing, SoleOwner
    <3>5. left[op[q].thread] \in Int
      BY <1>0, <3>3, StoreConstants DEF TypeOK, Expired
    <3> QED
      BY <1>2, <3>3, <3>4, <3>5 DEF Tick
  <2> QED
    BY <2>3, <2>4 DEF DeletesWhatItSaw
<1> QED
  BY <1>1, <1>2 DEF UseSqlite

-----------------------------------------------------------------------------
(* The invariant of the store, and what follows from it.                   *)

\* The invariant holds before the store is first used.
LEMMA StorageInitIInv == StorageInit => StorageIInv
<1> SUFFICES ASSUME StorageInit PROVE StorageIInv
  OBVIOUS
<1>1. IInv
  BY InitIInv DEF StorageInit
<1>2. Memory!TypeOK /\ MemoryForgets /\ PendingWasRead
  <2>1. -1 \in -1 .. TTL
    BY StoreConstants
  <2> QED
    BY <2>1 DEF StorageInit, Memory!Init, Memory!TypeOK, Memory!Expired, MemoryForgets, PendingWasRead
<1>3. OnlyTheDeployed /\ DeletesWhatItSaw
  BY DEF StorageInit, Init, OnlyTheDeployed, DeletesWhatItSaw, Doing
<1> QED
  BY <1>1, <1>2, <1>3 DEF StorageIInv, StorageTypeOK, StorageInit

\* The invariant of the store is inductive.
LEMMA StorageNextIInv == StorageIInv /\ [StorageNext]_storageVars => StorageIInv'
<1> SUFFICES ASSUME StorageIInv, [StorageNext]_storageVars PROVE StorageIInv'
  OBVIOUS
<1>0. StorageTypeOK /\ IInv /\ OnlyTheDeployed /\ DeletesWhatItSaw /\ MemoryIInv
  BY DEF StorageIInv, StorageTypeOK, MemoryIInv
<1>1. UNCHANGED vars => IInv'
  BY <1>0, NextIInv
<1>2. UNCHANGED <<vars, deployment>> => OnlyTheDeployed' /\ DeletesWhatItSaw'
  BY <1>0 DEF vars, OnlyTheDeployed, DeletesWhatItSaw, SoleOwner, Doing
<1>3. UNCHANGED memVars => MemoryIInv'
  BY <1>0 DEF memVars, MemoryIInv, Memory!TypeOK, MemoryForgets, PendingWasRead
<1>4. ASSUME IInv', OnlyTheDeployed', DeletesWhatItSaw', MemoryIInv', UNCHANGED deployment,
             backend' \in {"none", "sqlite", "memory"}
      PROVE  StorageIInv'
  BY <1>0, <1>4 DEF StorageIInv, StorageTypeOK, MemoryIInv
<1>5. CASE UNCHANGED <<vars, memVars, deployment>> /\ backend' \in {"none", "sqlite", "memory"}
  BY <1>1, <1>2, <1>3, <1>4, <1>5
<1>6. CASE UseSqlite /\ Next /\ UNCHANGED <<memVars, deployment, backend>>
  <2>1. IInv'
    BY <1>0, <1>6, NextIInv
  <2>2. OnlyTheDeployed' /\ DeletesWhatItSaw'
    BY <1>6, SqliteKeepsOwner
  <2> QED
    BY <1>0, <1>3, <1>4, <1>6, <2>1, <2>2 DEF StorageTypeOK
<1>7. CASE UseMemory /\ Memory!Next /\ UNCHANGED <<vars, deployment, backend>>
  BY <1>0, <1>1, <1>2, <1>4, <1>7, MemoryStepKeeps DEF StorageTypeOK
<1> QED
  BY <1>0, <1>5, <1>6, <1>7, StorageStepCases

\* Every reachable state of the server has the invariant.
THEOREM StorageInvariance == StorageSpec => []StorageIInv
<1>1. StorageSpec => StorageInit /\ [][StorageNext]_storageVars
  BY PTL DEF StorageSpec
<1> QED
  BY <1>1, StorageInitIInv, StorageNextIInv, PTL

\* Type correctness of the store over whichever backend it is given.
THEOREM StorageTypeCorrect == StorageSpec => []StorageTypeOK
<1>1. StorageIInv => StorageTypeOK
  BY DEF StorageIInv
<1> QED
  BY <1>1, StorageInvariance, PTL

\* The server's use of the SQLite backend, in every deployment, keeps every
\* acknowledged turn of a stored thread, in order and within the limit.
THEOREM StorageKeepsTurns == StorageSpec => []AckedTurnsKept
<1>1. StorageIInv => AckedTurnsKept
  BY DEF StorageIInv, IInv
<1> QED
  BY <1>1, StorageInvariance, PTL

\* The memory backend implements the log of turns that the store's callers are
\* promised, with any number of tools and threads.
THEOREM MemoryIsALog == StorageSpec => MemoryImplementsLog
<1>1. StorageInit => Memory!Log!Init
  <2> SUFFICES ASSUME StorageInit PROVE Memory!Log!Init
    OBVIOUS
  <2> QED
    BY DEF StorageInit, Memory!Init, Memory!Log!Init, Memory!Log!Expired, Memory!Expired,
           Memory!LogStatus, Memory!LogTurns, Memory!InHand
<1>2. StorageIInv /\ [StorageNext]_storageVars => [Memory!Log!Next]_MemoryLog
  <2> SUFFICES ASSUME StorageIInv, [StorageNext]_storageVars
               PROVE  [Memory!Log!Next]_MemoryLog
    OBVIOUS
  <2>1. StorageTypeOK /\ MemoryIInv
    BY DEF StorageIInv, StorageTypeOK, MemoryIInv
  <2>2. CASE UNCHANGED memVars
    BY <2>2 DEF memVars, MemoryLog, Memory!LogStatus, Memory!LogTurns, Memory!InHand
  <2>3. CASE Memory!Next
    BY <2>1, <2>3, MemoryStepSimulates
  <2> QED
    BY <2>1, <2>2, <2>3, StorageStepCases
<1>3. StorageSpec => StorageInit /\ [][StorageNext]_storageVars
  BY PTL DEF StorageSpec
<1>4. StorageSpec => Memory!Log!Init /\ [][Memory!Log!Next]_MemoryLog
  BY <1>1, <1>2, <1>3, StorageInvariance, PTL
<1> QED
  BY <1>4 DEF MemoryImplementsLog, Memory!ImplementsLog, Memory!Log!Spec, MemoryLog

\* One step of the sole owner of the file is one step of the log, or none.
LEMMA SoleOwnerSimulates ==
  ASSUME StorageIInv, SoleOwner, UseSqlite
  PROVE  [Log!Next]_<<status, turns, left>>
<1>0. /\ deployment.processes \in SUBSET Processes /\ IInv /\ TypeOK /\ Unborn /\ DeletesWhatItSaw
      /\ Expired = Log!Expired
  BY DeploymentAssumption
     DEF StorageTypeOK, StorageIInv, IInv, UseSqlite, Unchosen, Expired, Log!Expired
<1>1. ASSUME NEW p \in Processes, CreateCommit(p)
      PROVE  Log!Next
  <2> DEFINE t == op[p].thread
  <2>1. t \in Threads /\ op[p].lag \in 0 .. MaxWait /\ status[t] = "unborn"
    BY <1>0, <1>1, DoingType DEF CreateCommit, Unborn
  <2>2. Log!Create(t)
    BY <1>1, <2>1 DEF CreateCommit, Log!Create
  <2> QED
    BY <2>1, <2>2 DEF Log!Next
<1>2. ASSUME NEW p \in Processes, UpdateCommit(p)
      PROVE  Log!Next
  <2> DEFINE t == op[p].thread
  <2>1. t \in Threads /\ op[p].lag \in 0 .. MaxWait
    BY <1>0, <1>2, DoingType DEF UpdateCommit
  <2>2. status[t] = "stored" /\ Len(turns[t]) < MaxTurns
    BY <1>0, <1>2, <2>1, StoreConstants DEF UpdateCommit, Aborts, TypeOK
  <2>3. Log!AppendTurn(t, p)
    BY <1>2, <2>1, <2>2 DEF UpdateCommit, Log!AppendTurn
  <2> QED
    BY <2>1, <2>3 DEF Log!Next
<1>3. ASSUME NEW p \in Processes, GetDelete(p)
      PROVE  Log!Next
  <2> DEFINE t == op[p].thread
  <2>1. t \in Threads /\ status[t] = "stored" /\ left[t] <= 0
    BY <1>0, <1>3, DoingType DEF GetDelete, DeletesWhatItSaw
  <2>2. Log!Forget({t}) /\ {t} \in SUBSET Threads
    BY <1>0, <1>3, <2>1 DEF GetDelete, Remove, Log!Forget
  <2> QED
    BY <2>2 DEF Log!Next
<1>4. ASSUME NEW p \in Processes, SweepDelete(p)
      PROVE  Log!Next
  <2> DEFINE dead == {t \in Threads : status[t] = "stored" /\ left[t] + sweepLag[p] < 0}
  <2>1. sweepLag[p] \in 0 .. MaxWait
    BY <1>0, <1>4 DEF SweepDelete, TypeOK
  <2>2. \A t \in dead : status[t] = "stored" /\ left[t] <= 0
    <3> SUFFICES ASSUME NEW t \in dead PROVE left[t] <= 0
      OBVIOUS
    <3>1. left[t] \in Int /\ sweepLag[p] \in Nat
      BY <1>0, <2>1, StoreConstants DEF TypeOK, Expired
    <3>2. left[t] + sweepLag[p] < 0
      OBVIOUS
    <3> HIDE DEF dead
    <3> QED
      BY <3>1, <3>2
  <2>3. Remove(dead)
    BY <1>4 DEF SweepDelete
  <2> HIDE DEF dead
  <2>4. Log!Forget(dead)
    BY <1>0, <2>2, <2>3 DEF Remove, Log!Forget
  <2>5. dead \in SUBSET Threads
    BY DEF dead
  <2> QED
    BY <2>4, <2>5 DEF Log!Next
<1>5. CASE Tick
  BY <1>0, <1>5 DEF Tick, Log!Tick, Log!Next
<1>6. ASSUME NEW p \in Processes, SqliteStep(p)
      PROVE  [Log!Next]_<<status, turns, left>>
  <2>1. CASE SqliteBegins(p) \/ SweepBegin(p) \/ DatabaseBusy(p) \/ Restart(p)
    BY <2>1 DEF SqliteBegins, CreateBegin, GetBegin, UpdateBegin, Begin, SweepBegin,
                DatabaseBusy, Restart
  <2>2. CASE GetSelect(p) \/ UpdateAbort(p)
    BY <2>2 DEF GetSelect, UpdateAbort
  <2> QED
    BY <1>1, <1>2, <1>3, <1>4, <1>6, <2>1, <2>2 DEF SqliteStep, LoopWorks
<1> QED
  BY <1>0, <1>5, <1>6 DEF UseSqlite

\* Where one process has the file to itself, the SQLite backend implements the log
\* that callers are promised, through restarts and however old the clock readings
\* that its loop and its sweep compare with.
THEOREM SoleOwnerIsALog == StorageSpec => SoleOwnerImplementsLog
<1>1. StorageInit => Log!Init
  BY DEF StorageInit, Init, Log!Init, Expired, Log!Expired
<1>2. StorageIInv /\ [StorageNext]_storageVars
        => [SoleOwner => Log!Next]_<<status, turns, left>>
  <2> SUFFICES ASSUME StorageIInv, [StorageNext]_storageVars, SoleOwner
               PROVE  [Log!Next]_<<status, turns, left>>
    OBVIOUS
  <2>1. CASE UNCHANGED vars
    BY <2>1 DEF vars
  <2>2. CASE UseSqlite
    BY <2>2, SoleOwnerSimulates
  <2> QED
    BY <2>1, <2>2, StorageStepCases DEF StorageIInv
<1>3. StorageSpec => StorageInit /\ [][StorageNext]_storageVars
  BY PTL DEF StorageSpec
<1>4. StorageSpec => Log!Init /\ [][SoleOwner => Log!Next]_<<status, turns, left>>
  BY <1>1, <1>2, <1>3, StorageInvariance, PTL
<1> QED
  BY <1>4 DEF SoleOwnerImplementsLog
==============================================================================
