--------------------------- MODULE ClinkJobsProofs ---------------------------
(***************************************************************************)
(* Theorems about background CLI runs, for every set of jobs, requests and *)
(* idempotency keys and every limit on concurrent jobs.                    *)
(***************************************************************************)
EXTENDS ClinkJobs, FiniteSetTheorems, TLAPS

\* How the record of a job, its task and its CLI process go together: a job that
\* has a process is at an await of agent.run, and one that is at any await runs.
Phases ==
    /\ \A j \in Jobs : leader[j] = "alive" => pc[j] \in {"spawning", "talking"}
    /\ \A j \in Jobs : pc[j] \in Awaits => state[j] = "running"
    /\ \A j \in Jobs : pc[j] = "free" => state[j] = "none"
    /\ \A j \in Jobs : state[j] = "none" => pc[j] = "free"

\* A helper is started by a CLI at work, and is killed with it.
HelpersFollow ==
    \A j \in Jobs : helper[j] = "alive" =>
        /\ leader[j] \in {"alive", "exited"}
        /\ pc[j] \in {"talking", "draining", "verifying", "over"}

\* A prompt file outlives agent.run only if the run was cancelled.
FilesFollow ==
    \A j \in promptFile :
        \/ pc[j] \in {"spawning", "talking", "draining"}
        \/ pc[j] = "over" /\ state[j] \notin {"completed", "failed"}

\* A run goes on to its verification, and to its completion, only when its CLI has
\* exited by itself and no helper is left.
OwnExits ==
    \A j \in Jobs :
        /\ pc[j] \in {"spawning", "talking"} => leader[j] \in {"alive", "exited"}
        /\ pc[j] = "verifying" \/ state[j] = "completed" =>
              leader[j] = "exited" /\ helper[j] = "none"

\* Cancels that are pending or took effect were asked for.
Asked == cancelling \subseteq asked /\ CancelledOnPurpose

\* No key has two running jobs, and there are no more of them than the limit.
KeysApart ==
    \A i, j \in Running : i # j /\ opts[i].key = opts[j].key => opts[i].key = NoKey
Capped == Cardinality(Running) <= cap

\* While the server is up a running job has a task at work, and a task that has not
\* begun is not being cancelled.
AtWork ==
    server = "up" =>
        /\ \A j \in Running : pc[j] \in Awaits
        /\ \A j \in cancelling : pc[j] # "new"

\* Nothing is left to do when the server is down.
DownIsQuiet == server = "down" => Unfinished = {}

IInv ==
    /\ TypeOK /\ Phases /\ HelpersFollow /\ FilesFollow /\ OwnExits /\ Asked
    /\ KeysApart /\ Capped /\ AtWork /\ DownIsQuiet

-----------------------------------------------------------------------------
(* Most actions are steps of one job's task.  What they have in common is  *)
(* stated once, and the invariants are derived from that.                  *)

TaskStep(j) == Progress(j) \/ TimesOut(j) \/ Cancelled(j)

TaskEffect(j) ==
    /\ pc[j] \in Awaits
    /\ pc' = [pc EXCEPT ![j] = pc'[j]] /\ pc'[j] \in (Awaits \ {"new"}) \union {"over"}
    /\ state' = [state EXCEPT ![j] = state'[j]] /\ state'[j] \in Terminal \union {"running"}
    /\ leader' = [leader EXCEPT ![j] = leader'[j]]
    /\ leader'[j] \in {leader[j], "alive", "killed"}
    /\ helper' = [helper EXCEPT ![j] = helper'[j]] /\ helper'[j] \in {helper[j], "none"}
    /\ helper'[j] = "alive" =>
          /\ leader'[j] \in {"alive", "exited"}
          /\ pc'[j] \in {"talking", "draining", "verifying", "over"}
    /\ opts' = [opts EXCEPT ![j] = opts'[j]]
    /\ opts'[j] = (IF pc'[j] = "over" THEN Plain ELSE opts[j])
    /\ cancelling' \in {cancelling, cancelling \ {j}}
    /\ promptFile' \in SUBSET (promptFile \union {j})
    /\ j \in promptFile' =>
          \/ pc'[j] \in {"spawning", "talking", "draining"}
          \/ pc'[j] = "over" /\ state'[j] \notin {"completed", "failed"}
    /\ pc'[j] \in Awaits => state'[j] = state[j]
    /\ pc'[j] = "over" => j \notin cancelling'
    /\ pc'[j] = "over" /\ state'[j] = "running" => pc[j] = "new" /\ j \in cancelling
    /\ leader'[j] = "alive" => pc'[j] \in {"spawning", "talking"}
    /\ pc'[j] \in {"spawning", "talking"} => leader'[j] \in {"alive", "exited"}
    /\ pc'[j] = "verifying" \/ state'[j] = "completed" =>
          leader'[j] = "exited" /\ helper'[j] = "none"
    /\ state'[j] = "cancelled" => j \in cancelling
    /\ TaskFrame

\* Every step of a job's task has this effect.
LEMMA TaskStepEffect ==
  ASSUME TypeOK, Phases, HelpersFollow, FilesFollow, OwnExits, NEW j \in Jobs, TaskStep(j)
  PROVE  TaskEffect(j)
<1> USE DEF TypeOK, Phases, HelpersFollow, FilesFollow, OwnExits, Awaits, Terminal, TaskEffect,
           TaskFrame, cliVars
<1>1. CASE FirstStep(j)
  BY <1>1 DEF FirstStep, Launch, End, Suspend
<1>2. CASE SnapshotTaken(j)
  BY <1>2 DEF SnapshotTaken, Launch, End, Suspend
<1>3. CASE Unwind(j)
  BY <1>3 DEF Unwind, End
<1>4. CASE Spawned(j)
  BY <1>4 DEF Spawned, Suspend
<1>5. CASE Answered(j)
  BY <1>5 DEF Answered, Alive, End, Suspend
<1>6. CASE Verified(j)
  BY <1>6 DEF Verified, End
<1>7. CASE Drained(j)
  BY <1>7 DEF Drained, End
<1>8. CASE TimesOut(j)
  BY <1>8 DEF TimesOut, Suspend, Kill
<1>9. CASE CancelledBeforeFirstStep(j)
  BY <1>9 DEF CancelledBeforeFirstStep, End
<1>10. CASE CancelledInSnapshot(j)
  BY <1>10 DEF CancelledInSnapshot, End
<1>11. CASE CancelledInLaunch(j)
  BY <1>11 DEF CancelledInLaunch, End
<1>12. CASE CancelledInTalk(j)
  BY <1>12 DEF CancelledInTalk, End, Kill
<1>13. CASE CancelledInDrain(j)
  BY <1>13 DEF CancelledInDrain, End
<1> QED
  BY <1>1, <1>2, <1>3, <1>4, <1>5, <1>6, <1>7, <1>8, <1>9, <1>10, <1>11, <1>12, <1>13 DEF TaskStep, Progress, Cancelled

\* Running jobs only become fewer: so does what is said of all of them.
LEMMA FewerRunning ==
  ASSUME KeysApart, Capped, Running' \subseteq Running, UNCHANGED cap, cap \in Nat,
         \A j \in Running' : opts'[j].key \in {opts[j].key, NoKey}
  PROVE  KeysApart' /\ Capped'
<1>1. IsFiniteSet(Running)
  BY ClinkConstants, FS_Subset DEF Running
<1>2. Cardinality(Running') <= Cardinality(Running) /\ Cardinality(Running') \in Nat
  BY <1>1, FS_Subset, FS_CardinalityType
<1>3. Cardinality(Running) \in Nat
  BY <1>1, FS_CardinalityType
<1>4. Capped'
  BY <1>2, <1>3 DEF Capped
<1>5. KeysApart'
  BY DEF KeysApart
<1> QED
  BY <1>4, <1>5

\* A step of a task preserves the invariant.
LEMMA TaskKeepsIInv ==
  ASSUME IInv, NEW j \in Jobs, TaskStep(j)
  PROVE  IInv'
<1> USE DEF IInv
<1>1. TaskEffect(j)
  BY TaskStepEffect
<1> HIDE DEF IInv
<1>2. /\ TypeOK /\ Phases /\ HelpersFollow /\ FilesFollow /\ OwnExits /\ Asked
      /\ KeysApart /\ Capped /\ AtWork /\ DownIsQuiet
  BY DEF IInv
<1>3. /\ pc'[j] \in (Awaits \ {"new"}) \union {"over"}
      /\ state'[j] \in Terminal \union {"running"}
      /\ \A i \in Jobs \ {j} :
            pc'[i] = pc[i] /\ state'[i] = state[i] /\ leader'[i] = leader[i] /\ helper'[i] = helper[i]
  BY <1>1, <1>2 DEF TaskEffect, TypeOK
<1>4. TypeOK'
  <2>1. opts' \in [Jobs -> Options]
    <3>1. Plain \in Options /\ opts \in [Jobs -> Options]
      BY <1>2 DEF TypeOK, Options, Plain
    <3>2. /\ opts' = [opts EXCEPT ![j] = opts'[j]]
          /\ opts'[j] = (IF pc'[j] = "over" THEN Plain ELSE opts[j])
      BY <1>1 DEF TaskEffect
    <3> HIDE DEF Options, Plain
    <3>3. opts'[j] \in Options
      BY <3>1, <3>2
    <3> QED
      BY <3>1, <3>2, <3>3
  <2> QED
    BY <1>1, <1>2, <1>3, <2>1 DEF TaskEffect, TypeOK, Awaits, Terminal, TaskFrame
<1>5. Phases'
  BY <1>1, <1>2, <1>3 DEF TaskEffect, Phases, Awaits, Terminal
<1>6. HelpersFollow' /\ FilesFollow' /\ OwnExits'
  <2>1. HelpersFollow'
    BY <1>1, <1>2, <1>3 DEF TaskEffect, HelpersFollow
  <2>2. promptFile' \subseteq promptFile \union {j} /\ promptFile' \subseteq Jobs
    BY <1>1, <1>2 DEF TaskEffect, TypeOK
  <2>3. FilesFollow'
    BY <1>1, <1>2, <1>3, <2>2 DEF TaskEffect, FilesFollow
  <2>4. OwnExits'
    BY <1>1, <1>2, <1>3 DEF TaskEffect, OwnExits
  <2> QED
    BY <2>1, <2>3, <2>4
<1>7. Asked'
  BY <1>1, <1>2, <1>3 DEF TaskEffect, Asked, CancelledOnPurpose, TaskFrame
<1>8. Running' \subseteq Running
  BY <1>1, <1>2, <1>3 DEF TaskEffect, Running, Phases
<1>9. KeysApart' /\ Capped'
  <2>1. \A i \in Running' : opts'[i].key \in {opts[i].key, NoKey}
    BY <1>1, <1>2 DEF TaskEffect, TypeOK, Plain, Running
  <2>2. UNCHANGED cap /\ cap \in Nat
    BY <1>1, <1>2, ClinkConstants DEF TaskEffect, TaskFrame, TypeOK
  <2> QED
    BY <1>2, <1>8, <2>1, <2>2, FewerRunning
<1>10. DownIsQuiet'
  BY <1>1, <1>2, <1>3 DEF TaskEffect, DownIsQuiet, Unfinished, TaskFrame
<1>11. AtWork'
  BY <1>1, <1>2, <1>3, <1>8 DEF TaskEffect, AtWork, Running, TaskFrame, TypeOK
<1> QED
  BY <1>4, <1>5, <1>6, <1>7, <1>9, <1>10, <1>11 DEF IInv

\* A step of a CLI process preserves it.
LEMMA ProcessKeepsIInv ==
  ASSUME IInv, NEW j \in Jobs, ProcessStep(j)
  PROVE  IInv'
<1>1. /\ TypeOK /\ Phases /\ HelpersFollow /\ FilesFollow /\ OwnExits /\ Asked
      /\ KeysApart /\ Capped /\ AtWork /\ DownIsQuiet
  BY DEF IInv
<1>2. /\ UNCHANGED <<pc, state, cancelling, promptFile, waits, opts, asked, server, cap>>
      /\ leader' = [leader EXCEPT ![j] = leader'[j]] /\ leader'[j] \in {leader[j], "exited"}
      /\ helper' = [helper EXCEPT ![j] = helper'[j]]
      /\ helper'[j] \in {helper[j], "none", "alive"}
  <2> USE <1>1 DEF TypeOK, ProcessFrame, taskVars
  <2>1. CASE LeaderExits(j)
    BY <2>1 DEF LeaderExits
  <2>2. CASE HelperStarts(j)
    BY <2>2 DEF HelperStarts
  <2>3. CASE HelperExits(j)
    BY <2>3 DEF HelperExits
  <2> QED
    BY <2>1, <2>2, <2>3 DEF ProcessStep
<1>3. TypeOK'
  BY <1>1, <1>2 DEF TypeOK
<1>4. Phases'
  BY <1>1, <1>2 DEF Phases, TypeOK
<1>5. HelpersFollow' /\ FilesFollow' /\ OwnExits'
  BY <1>1, <1>2 DEF HelpersFollow, FilesFollow, OwnExits, TypeOK, ProcessStep, LeaderExits,
                    HelperStarts, HelperExits
<1>6. Asked' /\ DownIsQuiet'
  BY <1>1, <1>2 DEF Asked, CancelledOnPurpose, DownIsQuiet, Unfinished
<1>7. KeysApart' /\ Capped' /\ AtWork'
  BY <1>1, <1>2 DEF KeysApart, Capped, AtWork, Running
<1> QED
  BY <1>3, <1>4, <1>5, <1>6, <1>7 DEF IInv

-----------------------------------------------------------------------------
(* The calls: StartRun adds a running job, the others at most forget some. *)

\* Starting a run preserves the invariant: the manager has looked for the key and
\* for room in the same step.
LEMMA StartKeepsIInv ==
  ASSUME IInv, NEW r \in Requests, NEW j \in Jobs, NEW o \in Options,
         NEW gone \in SUBSET Expirable, StartRun(r, j, o, gone)
  PROVE  IInv'
<1>1. /\ TypeOK /\ Phases /\ HelpersFollow /\ FilesFollow /\ OwnExits /\ Asked
      /\ KeysApart /\ Capped /\ AtWork /\ DownIsQuiet
  BY DEF IInv
<1>2. /\ pc[j] = "free" /\ state[j] = "none" /\ server = "up"
      /\ Matches(o.key) = {} /\ HasRoom
      /\ pc' = [pc EXCEPT ![j] = "new"]
      /\ opts' = [opts EXCEPT ![j] = o]
      /\ state'[j] = "running"
      /\ \A i \in Jobs \ {j} : state'[i] = IF i \in gone THEN "forgotten" ELSE state[i]
      /\ UNCHANGED <<cancelling, promptFile, leader, helper, asked, server, cap>>
  BY <1>1 DEF StartRun, Collected, Idle, Phases, cliVars, TypeOK
<1>3. gone \subseteq {i \in Jobs : state[i] \in Terminal}
  BY DEF Expirable
<1>4. TypeOK'
  BY <1>1 DEF StartRun, Collected, TypeOK, Awaits, Terminal, cliVars
<1>5. Phases'
  BY <1>1, <1>2, <1>3 DEF Phases, Awaits, Terminal, TypeOK
<1>6. HelpersFollow' /\ FilesFollow' /\ OwnExits' /\ Asked' /\ DownIsQuiet'
  <2>1. \A i \in Jobs \ {j} : pc'[i] = pc[i]
    BY <1>1, <1>2 DEF TypeOK
  <2>2. HelpersFollow'
    BY <1>1, <1>2, <2>1 DEF HelpersFollow
  <2>3. FilesFollow'
    BY <1>1, <1>2, <1>3, <2>1 DEF FilesFollow, TypeOK
  <2>4. pc'[j] = "new" /\ \A i \in Jobs \ {j} : state'[i] \in {state[i], "forgotten"}
    BY <1>1, <1>2 DEF TypeOK
  <2>5. OwnExits'
    BY <1>1, <1>2, <2>1, <2>4 DEF OwnExits
  <2> QED
    BY <1>1, <1>2, <2>2, <2>3, <2>5 DEF Asked, CancelledOnPurpose, DownIsQuiet
<1>7. Running' = Running \union {j} /\ j \notin Running
  BY <1>1, <1>2, <1>3 DEF Running, Terminal
<1>8. KeysApart'
  <2>1. \A i \in Running : opts'[i] = opts[i] /\ (opts[i].key = o.key => o.key = NoKey)
    BY <1>1, <1>2, <1>7 DEF Matches, TypeOK, Running
  <2>2. opts'[j] = o
    BY <1>1, <1>2 DEF TypeOK
  <2> QED
    BY <1>1, <1>7, <2>1, <2>2 DEF KeysApart
<1>9. Capped'
  <2>1. IsFiniteSet(Running)
    BY ClinkConstants, FS_Subset DEF Running
  <2>2. Cardinality(Running') = Cardinality(Running) + 1
    BY <1>7, <2>1, FS_AddElement
  <2>3. Cardinality(Running) \in Nat
    BY <2>1, FS_CardinalityType
  <2> QED
    BY <1>1, <1>2, <2>2, <2>3, ClinkConstants DEF HasRoom, Capped, TypeOK
<1>10. AtWork'
  BY <1>1, <1>2, <1>7 DEF AtWork, Awaits, TypeOK
<1> QED
  BY <1>4, <1>5, <1>6, <1>8, <1>9, <1>10 DEF IInv

\* What the other calls have in common.
CallEffect(gone) ==
    /\ gone \subseteq Expirable
    /\ state' = Collected(gone)
    /\ waits' \in [Requests -> Jobs \union {NoJob}]
    /\ cancelling \subseteq cancelling' /\ asked' = asked \union cancelling'
    /\ cancelling' \subseteq cancelling \union Running
    /\ \A i \in cancelling' : pc[i] \in Awaits
    /\ \A i \in cancelling' \ cancelling : pc[i] # "new"
    /\ UNCHANGED <<pc, promptFile, leader, helper, opts, server, cap>>

\* What all requests have in common.
LEMMA CallHasEffect ==
  ASSUME IInv, NEW r \in Requests, NEW gone \in SUBSET Expirable,
         \/ \E key \in Keys \union {NoKey} : JoinRun(r, key, gone) \/ RefuseRun(r, key, gone)
         \/ \E j \in Jobs : ContinueRun(r, j, gone) \/ CancelRun(r, j, gone)
  PROVE  CallEffect(gone)
<1> USE DEF IInv, TypeOK, CallEffect, cliVars, Asked
<1>1. CASE \E key \in Keys \union {NoKey} : JoinRun(r, key, gone)
  BY <1>1 DEF JoinRun, Matches, Running
<1>2. CASE \E key \in Keys \union {NoKey} : RefuseRun(r, key, gone)
  BY <1>2 DEF RefuseRun
<1>3. CASE \E j \in Jobs : ContinueRun(r, j, gone)
  BY <1>3 DEF ContinueRun
<1>4. CASE \E j \in Jobs : CancelRun(r, j, gone)
  BY <1>4 DEF CancelRun, Running, AtWork, Idle
<1> QED
  BY <1>1, <1>2, <1>3, <1>4

\* Any other call preserves the invariant.
LEMMA CallKeepsIInv ==
  ASSUME IInv, NEW gone, CallEffect(gone)
  PROVE  IInv'
<1>1. /\ TypeOK /\ Phases /\ HelpersFollow /\ FilesFollow /\ OwnExits /\ Asked
      /\ KeysApart /\ Capped /\ AtWork /\ DownIsQuiet
  BY DEF IInv
<1>2. TypeOK'
  BY <1>1 DEF CallEffect, Collected, TypeOK, Awaits, Terminal, Running
<1>3. Phases'
  BY <1>1 DEF CallEffect, Collected, Expirable, Phases, Awaits, Terminal
<1>4. HelpersFollow' /\ FilesFollow' /\ OwnExits' /\ Asked' /\ DownIsQuiet'
  BY <1>1 DEF CallEffect, Collected, HelpersFollow, FilesFollow, OwnExits, Asked, CancelledOnPurpose,
               DownIsQuiet, Unfinished, TypeOK
<1>5. Running' = Running
  BY <1>1 DEF CallEffect, Collected, Expirable, Running, Terminal
<1>6. KeysApart' /\ Capped' /\ AtWork'
  BY <1>1, <1>5 DEF CallEffect, KeysApart, Capped, AtWork
<1> QED
  BY <1>2, <1>3, <1>4, <1>6 DEF IInv

-----------------------------------------------------------------------------

\* The invariant holds initially.
LEMMA InitIInv == Init => IInv
<1> SUFFICES ASSUME Init PROVE IInv
  OBVIOUS
<1>1. TypeOK
  BY DEF Init, TypeOK, Options, Plain
<1>2. Phases /\ HelpersFollow /\ FilesFollow /\ OwnExits /\ Asked /\ DownIsQuiet
  BY DEF Init, Phases, HelpersFollow, FilesFollow, OwnExits, Asked, CancelledOnPurpose, DownIsQuiet, Awaits
<1>3. Running = {}
  BY DEF Init, Running
<1>4. KeysApart /\ Capped /\ AtWork
  BY <1>3, ClinkConstants, FS_EmptySet DEF Init, KeysApart, Capped, AtWork
<1> QED
  BY <1>1, <1>2, <1>4 DEF IInv

\* The end of a request's wait, and the two steps of the teardown, leave jobs
\* and processes as they are.
LEMMA ServerKeepsIInv ==
  ASSUME IInv,
         (\E r \in Requests : StopWaiting(r)) \/ Shutdown \/ ShutDown
  PROVE  IInv'
<1>1. /\ TypeOK /\ Phases /\ HelpersFollow /\ FilesFollow /\ OwnExits /\ Asked
      /\ KeysApart /\ Capped /\ AtWork /\ DownIsQuiet
  BY DEF IInv
<1> USE DEF taskVars, cliVars
<1>2. UNCHANGED <<pc, state, promptFile, leader, helper, opts, cap>>
  BY DEF StopWaiting, Shutdown, ShutDown
<1>3. TypeOK'
  BY <1>1 DEF TypeOK, StopWaiting, Shutdown, ShutDown, Unfinished
<1>4. Phases' /\ HelpersFollow' /\ FilesFollow' /\ OwnExits'
  BY <1>1, <1>2 DEF Phases, HelpersFollow, FilesFollow, OwnExits
<1>5. Asked'
  BY <1>1, <1>2 DEF Asked, CancelledOnPurpose, StopWaiting, Shutdown, ShutDown
<1>6. KeysApart' /\ Capped'
  BY <1>1, <1>2 DEF KeysApart, Capped, Running
<1>7. AtWork' /\ DownIsQuiet'
  BY <1>1, <1>2
     DEF AtWork, DownIsQuiet, Running, Unfinished, StopWaiting, Shutdown, ShutDown
<1> QED
  BY <1>3, <1>4, <1>5, <1>6, <1>7 DEF IInv

\* The invariant is inductive.
THEOREM Invariance == Spec => []IInv
<1>1. Init => IInv
  BY InitIInv
<1>2. IInv /\ [Next]_vars => IInv'
  <2> SUFFICES ASSUME IInv, [Next]_vars PROVE IInv'
    OBVIOUS
  <2>1. CASE \E r \in Requests : CallStep(r)
    <3>1. PICK r \in Requests : CallStep(r)
      BY <2>1
    <3>2. CASE StopWaiting(r)
      BY <3>2, ServerKeepsIInv
    <3>3. CASE \E gone \in SUBSET Expirable, j \in Jobs, o \in Options : StartRun(r, j, o, gone)
      BY <3>3, StartKeepsIInv
    <3>4. CASE \E gone \in SUBSET Expirable, key \in Keys \union {NoKey} :
                  JoinRun(r, key, gone) \/ RefuseRun(r, key, gone)
      BY <3>4, CallHasEffect, CallKeepsIInv
    <3>5. CASE \E gone \in SUBSET Expirable, j \in Jobs :
                  ContinueRun(r, j, gone) \/ CancelRun(r, j, gone)
      BY <3>5, CallHasEffect, CallKeepsIInv
    <3> QED
      BY <3>1, <3>2, <3>3, <3>4, <3>5 DEF CallStep
  <2>2. CASE \E j \in Jobs : Progress(j) \/ TimesOut(j) \/ Cancelled(j) \/ ProcessStep(j)
    BY <2>2, TaskKeepsIInv, ProcessKeepsIInv DEF TaskStep
  <2>3. CASE Shutdown \/ ShutDown
    BY <2>3, ServerKeepsIInv
  <2>4. CASE UNCHANGED vars
    <3>1. UNCHANGED <<pc, state, cancelling, promptFile, leader, helper, waits, opts, asked,
                      server, cap>>
      BY <2>4 DEF vars, taskVars, cliVars
    <3> QED
      BY <3>1 DEF IInv, TypeOK, Phases, HelpersFollow, FilesFollow, OwnExits, Asked,
                  CancelledOnPurpose, KeysApart, Capped, AtWork, DownIsQuiet, Running, Unfinished
  <2> QED
    BY <2>1, <2>2, <2>3, <2>4 DEF Next
<1> QED
  BY <1>1, <1>2, PTL DEF Spec

\* Every variable keeps its type, and cancels are pending only for unfinished tasks.
THEOREM TypeCorrect == Spec => []TypeOK
<1>1. IInv => TypeOK
  BY DEF IInv
<1> QED
  BY <1>1, Invariance, PTL

\* Nobody's job is cancelled unless somebody asked for it: requests that give up
\* waiting do not take their jobs along.
THEOREM OnlyOnRequest == Spec => []CancelledOnPurpose
<1>1. IInv => CancelledOnPurpose
  BY DEF IInv, Asked
<1> QED
  BY <1>1, Invariance, PTL

\* A completed run was not killed, and its helpers had ended.
THEOREM NeverFromAKilledRun == Spec => []CompletedMeansOwnExit
<1>1. IInv => CompletedMeansOwnExit
  BY DEF IInv, OwnExits, Alive, CompletedMeansOwnExit
<1> QED
  BY <1>1, Invariance, PTL

\* A CLI that is alive belongs to a running job, and so does any helper that is left.
LEMMA SessionIsRunning ==
  ASSUME IInv, NEW j \in Sessions
  PROVE  j \in Running /\ pc[j] \in Awaits
  BY DEF IInv, Phases, Sessions, Running, Awaits

\* A helper that is left behind belongs to a job that was started.
LEMMA LeftIsSession ==
  ASSUME IInv, NEW j \in Jobs, Left(j)
  PROVE  j \in Sessions
  BY DEF IInv, HelpersFollow, Left, Sessions

\* No two CLIs work under one idempotency key.
THEOREM KeysAreExclusive == Spec => []OneSessionPerKey
<1>1. IInv => OneSessionPerKey
  BY SessionIsRunning DEF IInv, KeysApart, OneSessionPerKey
<1> QED
  BY <1>1, Invariance, PTL

\* There are never more CLIs than MAX_CONCURRENT_JOBS.
THEOREM CapIsKept == Spec => []SessionsCapped
<1>1. ASSUME IInv PROVE SessionsCapped
  <2>1. IsFiniteSet(Running)
    BY ClinkConstants, FS_Subset DEF Running
  <2>2. Sessions \subseteq Running
    BY <1>1, SessionIsRunning
  <2>3. /\ Cardinality(Sessions) <= Cardinality(Running)
        /\ Cardinality(Sessions) \in Nat
        /\ Cardinality(Running) \in Nat
    BY <2>1, <2>2, FS_Subset, FS_CardinalityType
  <2> QED
    BY <1>1, <2>3, ClinkConstants DEF IInv, TypeOK, Capped, SessionsCapped
<1> QED
  BY <1>1, Invariance, PTL

\* The limits hold together: a cancelled run counts until it is over, for its key and the limit.
THEOREM LimitsAreKept == Spec => []SessionLimits
<1>1. SessionLimits <=> OneSessionPerKey /\ SessionsCapped
  BY DEF SessionLimits
<1> QED
  BY <1>1, KeysAreExclusive, CapIsKept, PTL

-----------------------------------------------------------------------------
(* The jobs as a ledger has them.                                          *)

Abstract == [Ledger!Next]_<<JobStates, JobKeys, asked, cap>>

\* While the server is up, the running jobs of the ledger are those of the manager.
LEMMA RunningIsRunning ==
  ASSUME IInv
  PROVE  /\ Ledger!Running \subseteq Running
         /\ \A j \in Running : pc[j] \in Awaits => j \in Ledger!Running
         /\ server = "up" => Ledger!Running = Running
<1>1. \A j \in Jobs : JobStates[j] = "running" <=> state[j] = "running" /\ pc[j] # "over"
  BY DEF JobStates
<1>2. \A j \in Jobs : pc[j] \in Awaits => pc[j] # "over"
  BY DEF Awaits
<1>3. server = "up" => \A j \in Running : pc[j] \in Awaits
  BY DEF IInv, AtWork
<1> QED
  BY <1>1, <1>2, <1>3 DEF Ledger!Running, Running

\* Dropping results of the manager is dropping them from the ledger.
LEMMA CollectedIsDropped ==
  ASSUME IInv, NEW gone \in SUBSET Expirable
  PROVE  /\ gone \in SUBSET Ledger!Over
         /\ \A j \in Jobs : (IF Collected(gone)[j] = "running" /\ pc[j] = "over" THEN "unrecorded"
                             ELSE Collected(gone)[j]) = Ledger!Dropped(gone)[j]
<1>1. \A j \in gone : j \in Jobs /\ state[j] \in Terminal /\ JobStates[j] = state[j]
  BY DEF Expirable, JobStates, Terminal
<1>2. gone \in SUBSET Ledger!Over
  BY <1>1 DEF Ledger!Over, Terminal
<1>3. ASSUME NEW j \in Jobs
      PROVE  (IF Collected(gone)[j] = "running" /\ pc[j] = "over" THEN "unrecorded"
              ELSE Collected(gone)[j]) = Ledger!Dropped(gone)[j]
  BY DEF Collected, Ledger!Dropped, JobStates
<1> QED
  BY <1>2, <1>3

\* A step of a task ends its run, with an outcome, or leaves the ledger alone.
LEMMA TaskIsAccounted ==
  ASSUME IInv, NEW j \in Jobs, TaskStep(j)
  PROVE  Abstract
<1>1. TaskEffect(j)
  BY TaskStepEffect DEF IInv
<1>2. /\ TypeOK /\ state[j] = "running" /\ pc[j] \in Awaits /\ cancelling \subseteq asked
  BY <1>1 DEF IInv, Phases, Asked, TaskEffect
<1>3. asked' = asked /\ cap' = cap
  BY <1>1 DEF TaskEffect, TaskFrame
<1>4. \A i \in Jobs \ {j} : JobStates'[i] = JobStates[i] /\ JobKeys'[i] = JobKeys[i]
  BY <1>1, <1>2 DEF TaskEffect, JobStates, JobKeys, TypeOK
<1>5. JobStates[j] = "running"
  BY <1>2 DEF JobStates, Awaits
<1>6. CASE pc'[j] \in Awaits
  <2>1. JobStates'[j] = JobStates[j] /\ JobKeys'[j] = JobKeys[j]
    BY <1>1, <1>2, <1>6 DEF TaskEffect, JobStates, JobKeys, Awaits
  <2>2. JobStates' = JobStates /\ JobKeys' = JobKeys
    BY <1>4, <2>1 DEF JobStates, JobKeys
  <2> QED
    BY <1>3, <2>2 DEF Abstract
<1>7. CASE pc'[j] = "over"
  <2> DEFINE outcome == JobStates'[j]
  <2>1. outcome = IF state'[j] = "running" THEN "unrecorded" ELSE state'[j]
    BY <1>7 DEF JobStates
  <2>2. state'[j] \in Terminal \union {"running"} /\ (state'[j] \in {"cancelled", "running"} => j \in asked)
    BY <1>1, <1>2, <1>7 DEF TaskEffect
  <2>3. JobKeys'[j] = NoKey
    BY <1>1, <1>7 DEF TaskEffect, JobKeys, Plain
  <2>4. /\ JobStates' = [i \in Jobs |-> JobStates'[i]] /\ JobStates = [i \in Jobs |-> JobStates[i]]
        /\ JobKeys' = [i \in Jobs |-> JobKeys'[i]] /\ JobKeys = [i \in Jobs |-> JobKeys[i]]
    BY DEF JobStates, JobKeys
  <2>5. JobStates' = [JobStates EXCEPT ![j] = outcome]
    BY <1>4, <2>4
  <2>6. JobKeys' = [JobKeys EXCEPT ![j] = NoKey]
    BY <1>4, <2>3, <2>4
  <2>7. outcome \in {"completed", "failed", "cancelled", "unrecorded"}
        /\ (outcome \in {"cancelled", "unrecorded"} => j \in asked)
    BY <2>1, <2>2 DEF Terminal
  <2> HIDE DEF outcome
  <2>8. Ledger!Finish(j, outcome)
    BY <1>3, <1>5, <2>5, <2>6, <2>7 DEF Ledger!Finish
  <2> QED
    BY <2>7, <2>8 DEF Abstract, Ledger!Next
<1> QED
  BY <1>1, <1>6, <1>7 DEF TaskEffect

\* A start is accepted by the ledger: it has room, and nothing runs under the key.
LEMMA StartIsAccounted ==
  ASSUME IInv, NEW r \in Requests, NEW j \in Jobs, NEW o \in Options,
         NEW gone \in SUBSET Expirable, StartRun(r, j, o, gone)
  PROVE  Abstract
<1>1. /\ pc[j] = "free" /\ state[j] = "none" /\ server = "up" /\ Matches(o.key) = {} /\ HasRoom
      /\ pc' = [pc EXCEPT ![j] = "new"] /\ opts' = [opts EXCEPT ![j] = o]
      /\ state' = [Collected(gone) EXCEPT ![j] = "running"]
      /\ asked' = asked /\ cap' = cap
  BY DEF StartRun, Idle, IInv, Phases
<1>2. pc \in [Jobs -> Awaits \union {"free", "over"}] /\ opts \in [Jobs -> Options] /\ o.key \in Keys \union {NoKey}
  BY DEF IInv, TypeOK, Options
<1>3. JobStates[j] = "none"
  BY <1>1 DEF JobStates
<1>4. Cardinality(Ledger!Running) < cap
  BY <1>1, RunningIsRunning DEF HasRoom
<1>5. \A i \in Ledger!Running : JobKeys[i] = o.key => o.key = NoKey
  BY <1>1, RunningIsRunning DEF Matches, JobKeys, Running
<1>6. JobStates' = [Ledger!Dropped(gone) EXCEPT ![j] = "running"]
  <2>1. \A i \in Jobs \ {j} : state'[i] = Collected(gone)[i] /\ pc'[i] = pc[i]
    BY <1>1, <1>2 DEF Collected
  <2>2. state'[j] = "running" /\ pc'[j] = "new"
    BY <1>1, <1>2 DEF Collected
  <2>3. \A i \in Jobs \ {j} : JobStates'[i] = Ledger!Dropped(gone)[i]
    BY <2>1, CollectedIsDropped DEF JobStates
  <2>4. JobStates'[j] = "running"
    BY <2>2 DEF JobStates
  <2> QED
    BY <2>3, <2>4 DEF JobStates, Ledger!Dropped
<1>7. JobKeys' = [JobKeys EXCEPT ![j] = o.key]
  BY <1>1, <1>2 DEF JobKeys
<1>8. asked' = asked /\ cap' = cap
  BY <1>1
\* The Cardinality of the instance is a symbol of its own, with the same definition.
<1>9. Ledger!Accept(j, o.key, gone)
  BY <1>3, <1>4, <1>5, <1>6, <1>7, <1>8 DEF Ledger!Accept, Ledger!Cardinality, Cardinality
<1> QED
  BY <1>2, <1>9, CollectedIsDropped DEF Abstract, Ledger!Next

\* Any other call drops results and asks for cancels, of runs that are going on.
LEMMA CallIsAccounted ==
  ASSUME IInv, NEW gone \in SUBSET Expirable, CallEffect(gone)
  PROVE  Abstract
<1> DEFINE cancels == cancelling' \ cancelling
<1>1. cancels \in SUBSET Jobs /\ cancels \subseteq Ledger!Running
  BY RunningIsRunning DEF CallEffect, Running
<1>2. asked' = asked \union cancels
  BY DEF CallEffect, IInv, Asked
<1>3. JobStates' = Ledger!Dropped(gone)
  <2>1. \A i \in Jobs : JobStates'[i] = Ledger!Dropped(gone)[i]
    BY CollectedIsDropped DEF CallEffect, JobStates
  <2> QED
    BY <2>1 DEF JobStates, Ledger!Dropped
<1>4. JobKeys' = JobKeys /\ cap' = cap
  BY DEF CallEffect, JobKeys
<1>5. Ledger!Serve(cancels, gone)
  BY <1>1, <1>2, <1>3, <1>4 DEF Ledger!Serve
<1> QED
  BY <1>1, <1>5, CollectedIsDropped DEF Abstract, Ledger!Next

\* The teardown asks to cancel every run that is going on.
LEMMA ShutdownIsAccounted ==
  ASSUME IInv, Shutdown
  PROVE  Abstract
<1>1. Unfinished \in SUBSET Jobs /\ Unfinished \subseteq Ledger!Running
  BY RunningIsRunning DEF Unfinished, IInv, Phases, Running
<1>2. JobStates' = JobStates /\ JobKeys' = JobKeys /\ asked' = asked \union Unfinished /\ cap' = cap
  BY DEF Shutdown, JobStates, JobKeys
<1>3. JobStates = Ledger!Dropped({})
  BY DEF JobStates, Ledger!Dropped
<1>4. Ledger!Serve(Unfinished, {})
  BY <1>1, <1>2, <1>3 DEF Ledger!Serve
<1> QED
  BY <1>1, <1>4 DEF Abstract, Ledger!Next

\* Every step is one of the ledger, or leaves it alone.
LEMMA StepsAreAccounted ==
  ASSUME IInv, [Next]_vars
  PROVE  Abstract
<1>1. ASSUME UNCHANGED <<pc, state, opts, asked, cap>> PROVE Abstract
  BY <1>1 DEF Abstract, JobStates, JobKeys
<1>2. CASE \E r \in Requests : CallStep(r)
  <2>1. PICK r \in Requests : CallStep(r)
    BY <1>2
  <2>2. CASE StopWaiting(r)
    BY <1>1, <2>2 DEF StopWaiting, taskVars
  <2>3. CASE \E gone \in SUBSET Expirable, j \in Jobs, o \in Options : StartRun(r, j, o, gone)
    BY <2>3, StartIsAccounted
  <2>4. CASE \E gone \in SUBSET Expirable, key \in Keys \union {NoKey} :
                JoinRun(r, key, gone) \/ RefuseRun(r, key, gone)
    BY <2>4, CallHasEffect, CallIsAccounted
  <2>5. CASE \E gone \in SUBSET Expirable, j \in Jobs :
                ContinueRun(r, j, gone) \/ CancelRun(r, j, gone)
    BY <2>5, CallHasEffect, CallIsAccounted
  <2> QED
    BY <2>1, <2>2, <2>3, <2>4, <2>5 DEF CallStep
<1>3. ASSUME NEW j \in Jobs, Progress(j) \/ TimesOut(j) \/ Cancelled(j) PROVE Abstract
  BY <1>3, TaskIsAccounted DEF TaskStep
<1>4. ASSUME NEW j \in Jobs, ProcessStep(j) PROVE Abstract
  BY <1>1, <1>4 DEF ProcessStep, LeaderExits, HelperStarts, HelperExits, ProcessFrame, taskVars
<1>5. CASE Shutdown
  BY <1>5, ShutdownIsAccounted
<1>6. CASE ShutDown
  BY <1>1, <1>6 DEF ShutDown, taskVars
<1>7. CASE UNCHANGED vars
  BY <1>1, <1>7 DEF vars, taskVars
<1> QED
  BY <1>2, <1>3, <1>4, <1>5, <1>6, <1>7 DEF Next

\* The manager, its tasks and the processes together keep the ledger that clink promises: whichever
\* of an answer, a timeout, a cancel and the teardown comes first, a run ends once, and its outcome
\* stands.
THEOREM EveryJobIsAccounted == Spec => JobsAreAccounted
<1>1. Init => Ledger!Init
  <2> SUFFICES ASSUME Init PROVE Ledger!Init
    OBVIOUS
  <2>1. \A j \in Jobs : state[j] = "none" /\ opts[j].key = NoKey
    BY DEF Init, Plain
  <2>2. JobStates = [j \in Jobs |-> "none"] /\ JobKeys = [j \in Jobs |-> NoKey]
    BY <2>1 DEF JobStates, JobKeys
  <2> QED
    BY <2>2 DEF Init, Ledger!Init
<1>2. IInv /\ [Next]_vars => [Ledger!Next]_<<JobStates, JobKeys, asked, cap>>
  BY StepsAreAccounted DEF Abstract
<1>3. Spec => Ledger!Init /\ [][Ledger!Next]_<<JobStates, JobKeys, asked, cap>>
  BY <1>1, <1>2, Invariance, PTL DEF Spec
<1> QED
  BY <1>3 DEF JobsAreAccounted, Ledger!Spec

-----------------------------------------------------------------------------
(* What is cleaned up.                                                     *)

\* When a job is reported as over, and when the server is down, no process is left that
\* could be found, and no prompt file but that of a run cancelled in its launch.
THEOREM RunsCleanUp == Spec => []CleansUp
<1>1. IInv => NoSurvivor
  BY LeftIsSession, SessionIsRunning DEF NoSurvivor, Running, Terminal
<1>2. IInv => ShutdownReaps
  BY LeftIsSession, SessionIsRunning DEF IInv, DownIsQuiet, Unfinished, Sessions, ShutdownReaps
<1>3. IInv => PromptFileRemoved
  BY DEF IInv, FilesFollow, Phases, Awaits, PromptFileRemoved
<1> QED
  BY <1>1, <1>2, <1>3, Invariance, PTL DEF CleansUp
=============================================================================
