------------------------ MODULE ConversationStorage ------------------------
(***************************************************************************)
(* The conversation store over the backend that get_storage_backend gives  *)
(* it: create_storage_backend reads STORAGE_BACKEND once, when the store   *)
(* is first used, and every later call works on that one backend.  SQLite  *)
(* that cannot be opened and a name it does not know mean memory.          *)
(*                                                                         *)
(* A deployment says how many processes share the SQLite file and which    *)
(* threads they use; a server on memory is alone with its own.             *)
(***************************************************************************)
EXTENDS SqliteConversations, FiniteSets

CONSTANTS
    Tools,          \* writers of turns in the memory backend
    Deployments     \* records of setting (STORAGE_BACKEND), processes and threads

ASSUME DeploymentAssumption ==
    \A d \in Deployments :
        /\ d.processes \in SUBSET Processes /\ IsFiniteSet(d.processes)
        /\ d.threads \in SUBSET Threads

VARIABLES
    deployment,     \* how the server is deployed
    backend,        \* the singleton: "none" until the store is first used
    memStatus, memTurns, memLeft, memPending

memVars == <<memStatus, memTurns, memLeft, memPending>>

Memory == INSTANCE MemoryConversations WITH
    status <- memStatus, turns <- memTurns, left <- memLeft,
    pending <- memPending

storageVars == <<vars, memVars, deployment, backend>>

StorageTypeOK ==
    /\ Memory!TypeOK
    /\ deployment \in Deployments
    /\ backend \in {"none", "sqlite", "memory"}

StorageInit ==
    /\ Init
    /\ Memory!Init
    /\ deployment \in Deployments
    /\ backend = "none"

-----------------------------------------------------------------------------
(* create_storage_backend.  With several processes on one file all of them *)
(* are taken to have opened it.                                            *)
CreateBackend ==
    /\ backend = "none"
    /\ \/ deployment.setting = "sqlite" /\ backend' = "sqlite"
       \/ deployment.setting # "sqlite" /\ backend' = "memory"
       \/ \* __init__ of the SQLite backend raises
          deployment.setting = "sqlite" /\ Cardinality(deployment.processes) = 1 /\ backend' = "memory"
    /\ UNCHANGED <<vars, memVars, deployment>>

OnSqlite(p) == backend = "sqlite" /\ p \in deployment.processes

SqliteBegins(p) ==
    \E t \in deployment.threads : CreateBegin(p, t) \/ GetBegin(p, t) \/ UpdateBegin(p, t)

SqliteStep(p) ==
    \/ SqliteBegins(p)
    \/ LoopWorks(p)
    \/ SweepBegin(p)
    \/ SweepDelete(p)
    \/ Cardinality(deployment.processes) > 1 /\ DatabaseBusy(p)
    \/ Restart(p)

Unchosen == UNCHANGED <<memVars, deployment, backend>>

UseSqlite ==
    /\ backend = "sqlite"
    /\ (\E p \in deployment.processes : SqliteStep(p)) \/ Tick
    /\ Unchosen

UseMemory ==
    /\ backend = "memory"
    /\ Memory!Next
    /\ UNCHANGED <<vars, deployment, backend>>

StorageNext == CreateBackend \/ UseSqlite \/ UseMemory

(* Time passes and an operation that has begun ends (weak).  Sweeps keep   *)
(* starting, and not every one of them is cut short by a restart or kept   *)
(* out by a get (strong).                                                  *)
StorageSpec ==
    /\ StorageInit
    /\ [][StorageNext]_storageVars
    /\ WF_storageVars(backend = "sqlite" /\ Tick /\ Unchosen)
    /\ \A p \in Processes :
        /\ WF_storageVars(OnSqlite(p) /\ LoopWorks(p) /\ Unchosen)
        /\ SF_storageVars(OnSqlite(p) /\ SweepStarts(p) /\ Unchosen)
        /\ SF_storageVars(OnSqlite(p) /\ SweepDelete(p) /\ Unchosen)

-----------------------------------------------------------------------------
\* The memory backend behaves like the log of turns its callers are promised; a
\* thread the sweep takes while a turn is being added comes back with its turns.
MemoryImplementsLog == Memory!ImplementsLog

\* So does the SQLite backend where one process has the file to itself, however old
\* the clock readings its loop and its sweep compare with, and across restarts: no
\* thread goes before its time.  (With two processes, see LiveThreadNeverRemoved.)
SoleOwner == Cardinality(deployment.processes) < 2
SoleOwnerImplementsLog ==
    /\ Log!Init
    /\ [][SoleOwner => Log!Next]_<<status, turns, left>>
=============================================================================
