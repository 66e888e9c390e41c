------------------------------ MODULE ClinkJobs ------------------------------
(***************************************************************************)
(* Background runs of external CLIs: tools/clink_jobs.py, the dispatcher   *)
(* and _execute_blocking of tools/clink.py, and BaseCLIAgent.run in        *)
(* clink/agents/base.py.                                                   *)
(*                                                                         *)
(* Each job is an asyncio task; pc names the await at which it is          *)
(* suspended, and an action is what it runs between two awaits.  Requests, *)
(* the CLI processes and the server's teardown move in between.  A cancel  *)
(* is delivered at the await where the task is, so what it does depends on *)
(* the pc.                                                                 *)
(***************************************************************************)
EXTENDS Naturals, FiniteSets

CONSTANTS
    Jobs,       \* job ids (each uuid4 is used once)
    Requests,   \* clink calls the host may have in flight
    Keys,       \* idempotency keys
    NoKey,
    NoJob,
    Caps        \* values of MAX_CONCURRENT_JOBS

ASSUME ClinkConstants ==
    /\ NoKey \notin Keys
    /\ NoJob \notin Jobs
    /\ Caps \subseteq Nat
    /\ IsFiniteSet(Jobs)

VARIABLES
    pc,         \* the await at which the job's task is suspended
    state,      \* ClinkJob.state; "forgotten" when the manager dropped the record
    opts,       \* what the run was started with; plain when it is over
    cancelling, \* jobs whose task.cancel() is not delivered yet
    leader,     \* the CLI process of each job
    helper,     \* whether a descendant holds the CLI's stdout
    promptFile, \* jobs whose message_file tempfile exists
    waits,      \* the job each request is waiting for
    asked,      \* history: jobs somebody asked to cancel
    server,     \* "up", "stopping" in shutdown(), or "down"
    cap         \* the limit on concurrent jobs, one of Caps

taskVars == <<pc, state, cancelling, promptFile>>
cliVars == <<leader, helper>>
vars == <<taskVars, cliVars, waits, opts, asked, server, cap>>

Awaits == {"new", "snapshotting", "unwinding", "spawning", "talking", "draining", "verifying"}
Terminal == {"completed", "failed", "cancelled"}
Options == [key : Keys \union {NoKey}, readOnly : BOOLEAN]
Plain == [key |-> NoKey, readOnly |-> FALSE]

\* Every variable has its type, and only a task that is not done has a cancel pending.
TypeOK ==
    /\ pc \in [Jobs -> Awaits \union {"free", "over"}]
    /\ state \in [Jobs -> Terminal \union {"none", "running", "forgotten"}]
    /\ opts \in [Jobs -> Options]
    /\ leader \in [Jobs -> {"none", "alive", "exited", "killed"}]
    /\ helper \in [Jobs -> {"none", "alive"}]
    /\ waits \in [Requests -> Jobs \union {NoJob}]
    /\ cancelling \in SUBSET {j \in Jobs : pc[j] \in Awaits}
    /\ {promptFile, asked} \subseteq SUBSET Jobs
    /\ server \in {"up", "stopping", "down"}
    /\ cap \in Caps

Init ==
    /\ pc = [j \in Jobs |-> "free"]
    /\ state = [j \in Jobs |-> "none"]
    /\ opts = [j \in Jobs |-> Plain]
    /\ leader = [j \in Jobs |-> "none"]
    /\ helper = [j \in Jobs |-> "none"]
    /\ waits = [r \in Requests |-> NoJob]
    /\ cancelling = {} /\ promptFile = {} /\ asked = {}
    /\ server = "up"
    /\ cap \in Caps

Running == {j \in Jobs : state[j] = "running"}
Alive(j) == leader[j] = "alive" \/ helper[j] = "alive"

-----------------------------------------------------------------------------
(* The job manager.  start(), get() and cancel() collect garbage first.    *)

Known(j) == state[j] \notin {"none", "forgotten"}

\* collect_garbage() drops jobs that finished RESULT_TTL_SECONDS ago; which ones
\* these are by now is left open.
Expirable == {j \in Jobs : state[j] \in Terminal}
Collected(gone) == [j \in Jobs |-> IF j \in gone THEN "forgotten" ELSE state[j]]

Idle(r) == server = "up" /\ waits[r] = NoJob

\* Faulty variant: a job that is being cancelled does not match.
MatchesUncancelled(key) == {j \in Running \ cancelling : opts[j].key = key /\ key # NoKey}

\* A start with an idempotency key finds the running job of that key.
Matches(key) == {j \in Running : opts[j].key = key /\ key # NoKey}

\* Faulty variant: a job that is being cancelled does not count.
CancellingMakesRoom == Cardinality(Running \ cancelling) < cap

HasRoom == Cardinality(Running) < cap

\* uuid4: which of the unused ids it is makes no difference.
FreshId == CHOOSE j \in Jobs : pc[j] = "free"

StartRun(r, j, o, gone) ==
    /\ Idle(r)
    /\ pc[j] = "free" /\ j = FreshId
    /\ Matches(o.key) = {} /\ HasRoom
    /\ pc' = [pc EXCEPT ![j] = "new"]
    /\ state' = [Collected(gone) EXCEPT ![j] = "running"]
    /\ opts' = [opts EXCEPT ![j] = o]
    /\ waits' = [waits EXCEPT ![r] = j]
    /\ UNCHANGED <<cancelling, promptFile, cliVars, asked, server, cap>>

JoinRun(r, key, gone) ==
    /\ Idle(r)
    /\ \E j \in Matches(key) : waits' = [waits EXCEPT ![r] = j]
    /\ state' = Collected(gone)
    /\ UNCHANGED <<pc, cancelling, promptFile, cliVars, opts, asked, server, cap>>

RefuseRun(r, key, gone) ==
    /\ Idle(r)
    /\ Matches(key) = {} /\ ~HasRoom
    /\ state' = Collected(gone)
    /\ UNCHANGED <<pc, cancelling, promptFile, cliVars, waits, opts, asked, server, cap>>

\* A call with a job_id: it waits for the job, or the job is unknown.
ContinueRun(r, j, gone) ==
    /\ Idle(r)
    /\ state[j] # "none"
    /\ state' = Collected(gone)
    /\ waits' = IF Known(j) /\ j \notin gone THEN [waits EXCEPT ![r] = j] ELSE waits
    /\ UNCHANGED <<pc, cancelling, promptFile, cliVars, opts, asked, server, cap>>

\* A call with a job_id and cancel: nobody knows the id before the task's first step.
CancelRun(r, j, gone) ==
    /\ Idle(r)
    /\ state[j] # "none" /\ pc[j] # "new"
    /\ state' = Collected(gone)
    /\ waits' = IF Known(j) /\ j \notin gone THEN [waits EXCEPT ![r] = j] ELSE waits
    /\ IF state[j] = "running"
       THEN cancelling' = cancelling \union {j} /\ asked' = asked \union {j}
       ELSE UNCHANGED <<cancelling, asked>>
    /\ UNCHANGED <<pc, promptFile, cliVars, opts, server, cap>>

\* Faulty variant: the request awaits the task itself, and takes it along.
StopWaitingTakesJob(r) ==
    /\ waits[r] # NoJob
    /\ waits' = [waits EXCEPT ![r] = NoJob]
    /\ cancelling' = cancelling \union ({waits[r]} \intersect Running)
    /\ UNCHANGED <<pc, state, promptFile, cliVars, opts, asked, server, cap>>

\* The wait is over: the job is done, the budget is spent, or the host cancels the
\* request (its own timeout, a user's abort, a lost connection).
StopWaiting(r) ==
    /\ waits[r] # NoJob
    /\ waits' = [waits EXCEPT ![r] = NoJob]
    /\ UNCHANGED <<taskVars, cliVars, opts, asked, server, cap>>

-----------------------------------------------------------------------------
(* The task of a job: _run around _execute_blocking around agent.run.      *)

\* What a step of job j leaves alone besides the variables it names.
TaskFrame == UNCHANGED <<waits, asked, server, cap>>

\* The task ends: _run records the outcome and sets the done event.  What the run was
\* started with matters no more (a start compares keys with running jobs only).
End(j, outcome) ==
    /\ pc' = [pc EXCEPT ![j] = "over"]
    /\ state' = [state EXCEPT ![j] = outcome]
    /\ opts' = [opts EXCEPT ![j] = Plain]
    /\ cancelling' = cancelling \ {j}

Suspend(j, await) == pc' = [pc EXCEPT ![j] = await] /\ UNCHANGED <<state, opts>>

\* agent.run up to its first await.  Launching fails when the executable is
\* missing or cannot be run: the prompt file is removed, the heartbeat is awaited.
Launch(j) ==
    \/ /\ Suspend(j, "unwinding")
       /\ UNCHANGED <<promptFile, cliVars>>
    \/ /\ Suspend(j, "spawning")
       /\ leader' = [leader EXCEPT ![j] = "alive"]
       /\ \E file \in SUBSET {j} : promptFile' = promptFile \union file
       /\ UNCHANGED helper

\* Everything up to the first await: the request may be refused by its checks.
FirstStep(j) ==
    /\ pc[j] = "new" /\ j \notin cancelling
    /\ \/ End(j, "failed") /\ UNCHANGED <<promptFile, cliVars>>
       \/ /\ opts[j].readOnly
          /\ Suspend(j, "snapshotting")
          /\ UNCHANGED <<cancelling, promptFile, cliVars>>
       \/ ~opts[j].readOnly /\ Launch(j) /\ UNCHANGED cancelling
    /\ TaskFrame

\* The snapshot before a read-only run, taken in a worker thread.
SnapshotTaken(j) ==
    /\ pc[j] = "snapshotting" /\ j \notin cancelling
    /\ \/ End(j, "failed") /\ UNCHANGED <<promptFile, cliVars>>
       \/ Launch(j) /\ UNCHANGED cancelling
    /\ TaskFrame

\* After a failed launch: a cancel that arrives at the awaited heartbeat is suppressed.
Unwind(j) ==
    /\ pc[j] = "unwinding"
    /\ End(j, "failed")
    /\ UNCHANGED <<promptFile, cliVars>>
    /\ TaskFrame

Spawned(j) ==
    /\ pc[j] = "spawning" /\ j \notin cancelling
    /\ Suspend(j, "talking")
    /\ UNCHANGED <<cancelling, promptFile, cliVars>>
    /\ TaskFrame

\* communicate() returns: both ends of the pipes are closed and the CLI is reaped.
\* A bad exit status or an unreadable answer fails the job.  Before Python 3.12
\* wait_for prefers this result to a cancel that arrives with it.
Answered(j) ==
    /\ pc[j] = "talking" /\ ~Alive(j)
    /\ promptFile' = promptFile \ {j}
    /\ \/ End(j, "failed")
       \/ ~opts[j].readOnly /\ End(j, "completed")
       \/ opts[j].readOnly /\ Suspend(j, "verifying") /\ cancelling' = cancelling \ {j}
    /\ UNCHANGED cliVars
    /\ TaskFrame

\* The comparison snapshot after a read-only run.
Verified(j) ==
    /\ pc[j] = "verifying" /\ j \notin cancelling
    /\ End(j, "failed") \/ End(j, "completed")
    /\ UNCHANGED <<promptFile, cliVars>>
    /\ TaskFrame

\* Faulty variant: the CLI is left running.
KillNobody(j) == UNCHANGED cliVars

\* _terminate_process_tree: the group is found through its leader, so it is not
\* found when the leader has been reaped.
Kill(j) ==
    IF leader[j] = "alive"
    THEN /\ leader' = [leader EXCEPT ![j] = "killed"]
         /\ helper' = [helper EXCEPT ![j] = "none"]
    ELSE UNCHANGED cliVars

\* timeout_seconds have passed (a cancel that arrives with the timeout wins).
TimesOut(j) ==
    /\ pc[j] = "talking" /\ j \notin cancelling
    /\ Suspend(j, "draining")
    /\ Kill(j)
    /\ UNCHANGED <<cancelling, promptFile>>
    /\ TaskFrame

\* Faulty variant: the drain waits for as long as somebody holds the pipe.
DrainedWithoutBound(j) ==
    /\ pc[j] = "draining" /\ ~Alive(j)
    /\ End(j, "failed")
    /\ promptFile' = promptFile \ {j}
    /\ UNCHANGED cliVars
    /\ TaskFrame

\* Faulty variant: after the drain run() goes on to read the answer.
DrainedGoesOn(j) ==
    /\ pc[j] = "draining" /\ j \notin cancelling
    /\ End(j, "failed") \/ End(j, "completed")
    /\ promptFile' = promptFile \ {j}
    /\ UNCHANGED cliVars
    /\ TaskFrame

\* The drain ends, after five seconds at the latest.
Drained(j) ==
    /\ pc[j] = "draining"
    /\ j \in cancelling => ~Alive(j)
    /\ End(j, "failed")
    /\ promptFile' = promptFile \ {j}
    /\ UNCHANGED cliVars
    /\ TaskFrame

(* CancelledError is raised at the await where the task is suspended.      *)

\* The body has not begun: nothing is recorded.
CancelledBeforeFirstStep(j) ==
    /\ pc[j] = "new" /\ j \in cancelling
    /\ End(j, "running")
    /\ UNCHANGED <<promptFile, cliVars>>
    /\ TaskFrame

CancelledInSnapshot(j) ==
    /\ pc[j] \in {"snapshotting", "verifying"} /\ j \in cancelling
    /\ End(j, "cancelled")
    /\ UNCHANGED <<promptFile, cliVars>>
    /\ TaskFrame

\* asyncio kills and reaps the child it was launching; run()'s handlers around the
\* launch catch only OSError, so cleanup_plan is not called.
CancelledInLaunch(j) ==
    /\ pc[j] = "spawning" /\ j \in cancelling
    /\ End(j, "cancelled")
    /\ leader' = [leader EXCEPT ![j] = IF @ = "alive" THEN "killed" ELSE @]
    /\ UNCHANGED <<promptFile, helper>>
    /\ TaskFrame

\* Faulty variant: the pipes are drained before the cancel is passed on.
CancelledTalkDrains(j) ==
    /\ pc[j] = "talking" /\ j \in cancelling /\ ~Alive(j)
    /\ End(j, "cancelled")
    /\ promptFile' = promptFile \ {j}
    /\ UNCHANGED cliVars
    /\ TaskFrame

CancelledInTalk(j) ==
    /\ pc[j] = "talking" /\ j \in cancelling
    /\ End(j, "cancelled")
    /\ Kill(j)
    /\ promptFile' = promptFile \ {j}
    /\ TaskFrame

CancelledInDrain(j) ==
    /\ pc[j] = "draining" /\ j \in cancelling
    /\ End(j, "cancelled")
    /\ promptFile' = promptFile \ {j}
    /\ UNCHANGED cliVars
    /\ TaskFrame

-----------------------------------------------------------------------------
(* The processes.  A helper is started once the CLI is at work on its prompt. *)

ProcessFrame == UNCHANGED <<taskVars, waits, opts, asked, server, cap>>

LeaderExits(j) ==
    /\ leader[j] = "alive"
    /\ leader' = [leader EXCEPT ![j] = "exited"]
    /\ UNCHANGED helper
    /\ ProcessFrame

HelperStarts(j) ==
    /\ pc[j] = "talking" /\ leader[j] = "alive" /\ helper[j] = "none"
    /\ helper' = [helper EXCEPT ![j] = "alive"]
    /\ UNCHANGED leader
    /\ ProcessFrame

HelperExits(j) ==
    /\ helper[j] = "alive"
    /\ helper' = [helper EXCEPT ![j] = "none"]
    /\ UNCHANGED leader
    /\ ProcessFrame

-----------------------------------------------------------------------------
(* shutdown(), after the last request: cancel every task, then await each. *)

Unfinished == {j \in Jobs : pc[j] \in Awaits}

Shutdown ==
    /\ server = "up"
    /\ \A r \in Requests : waits[r] = NoJob
    /\ server' = "stopping"
    /\ cancelling' = cancelling \union Unfinished
    /\ asked' = asked \union Unfinished
    /\ UNCHANGED <<pc, state, promptFile, cliVars, waits, opts, cap>>

ShutDown ==
    /\ server = "stopping"
    /\ Unfinished = {}
    /\ server' = "down"
    /\ UNCHANGED <<taskVars, cliVars, waits, opts, asked, cap>>

-----------------------------------------------------------------------------

CallStep(r) ==
    \/ \E gone \in SUBSET Expirable :
        \/ \E j \in Jobs, o \in Options : StartRun(r, j, o, gone)
        \/ \E key \in Keys \union {NoKey} : JoinRun(r, key, gone) \/ RefuseRun(r, key, gone)
        \/ \E j \in Jobs : ContinueRun(r, j, gone) \/ CancelRun(r, j, gone)
    \/ StopWaiting(r)

\* What the event loop will do with the task by itself, timeout and worker
\* threads included.
Progress(j) ==
    \/ FirstStep(j) \/ SnapshotTaken(j) \/ Unwind(j) \/ Spawned(j) \/ Answered(j)
    \/ Verified(j) \/ Drained(j)

Cancelled(j) ==
    \/ CancelledBeforeFirstStep(j) \/ CancelledInSnapshot(j) \/ CancelledInLaunch(j)
    \/ CancelledInTalk(j) \/ CancelledInDrain(j)

ProcessStep(j) == LeaderExits(j) \/ HelperStarts(j) \/ HelperExits(j)

Next ==
    \/ \E r \in Requests : CallStep(r)
    \/ \E j \in Jobs : Progress(j) \/ TimesOut(j) \/ Cancelled(j) \/ ProcessStep(j)
    \/ Shutdown
    \/ ShutDown

Spec == Init /\ [][Next]_vars

\* The event loop runs every task that can run.  Nothing is assumed of the CLI:
\* it may never exit.
FairSpec == Spec /\ \A j \in Jobs : WF_vars(Progress(j) \/ Cancelled(j))

-----------------------------------------------------------------------------

\* A process of job j that the server should have killed.  A helper whose CLI has
\* exited by itself is not found by _terminate_process_tree (see Kill); every other
\* process is.
Left(j) == leader[j] = "alive" \/ (helper[j] = "alive" /\ leader[j] # "exited")

\* A job that is reported as over has no process left ("Kill the whole process group
\* ... so no descendants are orphaned", agent.run).
NoSurvivor == \A j \in Jobs : state[j] \in Terminal => ~Left(j)

\* When shutdown() returns no CLI is running: "their CLI process trees are reaped
\* before the loop tears down" (server.py).
ShutdownReaps == server = "down" => \A j \in Jobs : ~Left(j)

\* The prompt does not stay on disk when the job has completed, failed to launch or
\* timed out (_materialize_plan's "cleanup unlinks the tempfile").  A job cancelled
\* while its CLI is being launched does leave it: see CancelledInLaunch.
PromptFileRemoved == \A j \in Jobs : state[j] \in {"completed", "failed"} => j \notin promptFile

\* What was begun is cleaned up, whichever await of a run the end or the teardown
\* meets: processes and prompt files.
CleansUp == NoSurvivor /\ ShutdownReaps /\ PromptFileRemoved

\* At most MAX_CONCURRENT_JOBS paid CLI sessions are going on, whatever is timed
\* out, cancelled or collected meanwhile.
Sessions == {j \in Jobs : leader[j] = "alive"}
SessionsCapped == Cardinality(Sessions) <= cap

\* Two CLI sessions with the same idempotency key never go on at once, even if the
\* first is being cancelled when its start is retried.
OneSessionPerKey ==
    \A i, j \in Sessions : i # j /\ opts[i].key = opts[j].key => opts[i].key = NoKey

\* The limits on paid sessions hold together, of each key and of all, through cancels and retries.
SessionLimits == OneSessionPerKey /\ SessionsCapped

\* A job is cancelled only because somebody asked for it: a request that gives up
\* waiting does not take its job along (_wait_for_job's docstring).
CancelledOnPurpose == \A j \in Jobs : state[j] = "cancelled" => j \in asked

\* The jobs as JobLedger has them.  A task that is cancelled before its first step ends without a
\* record, which the teardown alone can bring about.
JobStates == [j \in Jobs |-> IF state[j] = "running" /\ pc[j] = "over" THEN "unrecorded" ELSE state[j]]
JobKeys == [j \in Jobs |-> opts[j].key]

Ledger == INSTANCE JobLedger WITH state <- JobStates, key <- JobKeys

\* A job is accepted within the limit and its key, ends once, and keeps its outcome until it is
\* forgotten, whatever cancel, timeout or answer comes first and whichever request gives up
\* waiting; it is cancelled only on purpose.
JobsAreAccounted == Ledger!Spec

\* A result is delivered as complete only if the CLI and its helpers ended by
\* themselves: never from a run that was killed.
CompletedMeansOwnExit ==
    \A j \in Jobs : state[j] = "completed" => leader[j] = "exited" /\ ~Alive(j)

\* A cancelled run ends without waiting for the CLI or for its timeout.
CancelEnds == \A j \in Jobs : j \in cancelling ~> pc[j] = "over" \/ j \notin cancelling

\* If timers fire, every run comes to an end, even if the CLI hangs and its helpers
\* keep the pipe.
TimersFire == \A j \in Jobs : WF_vars(TimesOut(j))
EveryJobEnds == TimersFire => \A j \in Jobs : pc[j] \in Awaits ~> pc[j] = "over"
=============================================================================
