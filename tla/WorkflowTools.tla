---------------------------- MODULE WorkflowTools ----------------------------
(***************************************************************************)
(* Multi-step tools (debug, codereview, ...): execute_workflow of          *)
(* tools/workflow/workflow_mixin.py behind the thread lookup of            *)
(* handlers/tool_handlers.py, and its override in tools/consensus.py.      *)
(*                                                                         *)
(* The registry keeps one instance of each tool, and the instance keeps    *)
(* the steps of the session it worked on last.  A per-instance lock        *)
(* serialises the calls; each answer saves the steps in the conversation   *)
(* thread, and a call that continues the thread restores them from there.  *)
(* The event loop runs one call at a time between two awaits: the lock,    *)
(* the expert analysis, and the consultation of the consensus tool, whose  *)
(* first step does not take the lock.                                      *)
(***************************************************************************)
EXTENDS Naturals, Sequences

CONSTANTS
    Tools,          \* the workflow tools
    Consulting,     \* those that consult models in their first step: consensus
    OtherTool,      \* any tool that keeps no steps, such as chat
    Requests,       \* calls the host may have in flight
    NoRequest,
    Threads,        \* conversation threads
    NoThread,
    MaxTurns,       \* MAX_CONVERSATION_TURNS
    MaxHistory      \* steps are counted up to here; the code does not limit them

ASSUME WorkflowConstants ==
    /\ NoThread \notin Threads
    /\ OtherTool \notin Tools
    /\ Consulting \subseteq Tools
    /\ NoRequest \notin Requests
    /\ MaxTurns \in Nat \ {0}
    /\ MaxHistory \in Nat /\ MaxHistory >= MaxTurns

VARIABLES
    history,    \* work_history of each tool: whose steps, and how many
    proposal,   \* original_proposal of each tool: the call it was stored for
    queue,      \* who holds each tool's lock (the head) and who waits for it
    call,       \* what each request is doing
    status,     \* "unborn", "stored" or "gone"
    creator,    \* the tool that created each thread
    turns,      \* the number of turns in each thread
    saved,      \* the steps in the most recent turn of each tool there, or NoSteps
    known,      \* threads whose id the host has been told
    acked       \* history: the answers of each thread's creator there, up to MaxTurns

storeVars == <<status, creator, turns, saved>>
vars == <<history, proposal, queue, call, storeVars, known, acked>>

Maybe == Threads \union {NoThread}

\* Steps are told apart by the thread they were sent for: all of one thread (or of
\* calls without a thread), or of several.
Mixed == "mixed"
NoSteps == [of |-> Mixed, count |-> 0]
Histories == {NoSteps} \union [of : Maybe \union {Mixed}, count : 1 .. MaxHistory]

Extended(steps, t) ==
    [of |-> IF steps = NoSteps \/ steps.of = t THEN t ELSE Mixed,
     count |-> IF steps.count < MaxHistory THEN steps.count + 1 ELSE MaxHistory]

Idle == [pc |-> "idle"]
Stages == {"queued", "expert", "starting", "dispatching", "consulting"}
Calls == [pc : Stages, tool : Tools, thread : Maybe, first : BOOLEAN, asked : Requests \union {NoRequest}]

\* Every variable has its type; who stands in a tool's queue is a call of that tool.
TypeOK ==
    /\ history \in [Tools -> Histories]
    /\ proposal \in [Tools -> Requests \union {NoRequest}]
    /\ call \in [Requests -> {Idle} \union Calls]
    /\ queue \in [Tools -> Seq(Requests)]
    /\ \A tool \in Tools : \A i \in DOMAIN queue[tool] :
        /\ call[queue[tool][i]] # Idle
        /\ call[queue[tool][i]].tool = tool
    /\ status \in [Threads -> {"unborn", "stored", "gone"}]
    /\ creator \in [Threads -> Tools \union {OtherTool}]
    /\ turns \in [Threads -> 0 .. MaxTurns]
    /\ saved \in [Threads -> [Tools -> Histories]]
    /\ known \subseteq Threads
    /\ acked \in [Threads -> 0 .. MaxTurns]

Init ==
    /\ history = [tool \in Tools |-> NoSteps]
    /\ proposal = [tool \in Tools |-> NoRequest]
    /\ queue = [tool \in Tools |-> <<>>]
    /\ call = [r \in Requests |-> Idle]
    /\ status = [t \in Threads |-> "unborn"]
    /\ creator = [t \in Threads |-> OtherTool]
    /\ turns = [t \in Threads |-> 0]
    /\ saved = [t \in Threads |-> [tool \in Tools |-> NoSteps]]
    /\ known = {}
    /\ acked = [t \in Threads |-> 0]

-----------------------------------------------------------------------------
(* The conversation store as the tools use it.                             *)

Alive(t) == t \in Threads /\ status[t] = "stored"

\* create_thread: "born" is the new thread, or NoThread when there is none.
Created(born, tool) ==
    /\ status' = [t \in Threads |-> IF t = born THEN "stored" ELSE status[t]]
    /\ creator' = [t \in Threads |-> IF t = born THEN tool ELSE creator[t]]

\* add_turn, whose result nobody looks at: a full or forgotten thread takes none.
Accepts(t, born) == t \in Threads /\ (Alive(t) \/ t = born) /\ turns[t] < MaxTurns

TurnAdded(t, born, tool, steps) ==
    IF Accepts(t, born)
    THEN /\ turns' = [turns EXCEPT ![t] = @ + 1]
         /\ saved' = IF tool = OtherTool THEN saved ELSE [saved EXCEPT ![t][tool] = steps]
    ELSE UNCHANGED <<turns, saved>>

\* The answer carries the thread's id to the host.
Answered(t, born, tool) ==
    /\ known' = IF t = NoThread THEN known ELSE known \union {t}
    /\ acked' = [u \in Threads |->
                   IF u = t /\ tool # OtherTool /\ (t = born \/ (Alive(t) /\ creator[t] = tool))
                   THEN IF acked[u] < MaxTurns THEN acked[u] + 1 ELSE MaxTurns
                   ELSE acked[u]]

-----------------------------------------------------------------------------
(* Arrival.  A call with a continuation_id is refused when the thread is   *)
(* not there.  All but the first step of a consultation queue for the lock.*)

\* The first step of a consultation, which bypasses the lock.
Consults(tool, first) == tool \in Consulting /\ first

Arrive(r, tool, t, first) ==
    /\ call[r] = Idle
    /\ t = NoThread \/ (t \in known /\ Alive(t))
    /\ call' = [call EXCEPT ![r] =
                   [pc |-> IF Consults(tool, first) THEN "starting" ELSE "queued",
                    tool |-> tool, thread |-> t, first |-> first, asked |-> NoRequest]]
    /\ queue' = IF Consults(tool, first) THEN queue ELSE [queue EXCEPT ![tool] = Append(@, r)]
    /\ UNCHANGED <<history, proposal, storeVars, known, acked>>

At(r, pc) == call[r] # Idle /\ call[r].pc = pc

\* Faulty variant: the lock admits everybody.
HoldsNoLock(r) == call[r] # Idle

Holds(r) == call[r] # Idle /\ Head(queue[call[r].tool]) = r

\* The queue without its i-th call.
Without(q, i) == [j \in 1 .. Len(q) - 1 |-> IF j < i THEN q[j] ELSE q[j + 1]]

\* The call ends and gives up its place in the queue, if it has one, and so the lock.
Leave(r) ==
    /\ call' = [call EXCEPT ![r] = Idle]
    /\ LET q == queue[call[r].tool] IN
        \/ \E i \in DOMAIN q :
            /\ q[i] = r
            /\ queue' = [queue EXCEPT ![call[r].tool] = Without(q, i)]
        \/ (\A i \in DOMAIN q : q[i] # r) /\ UNCHANGED queue

-----------------------------------------------------------------------------
(* One step of a workflow, under the lock.                                 *)

\* A call without continuation_id that is the first step opens a thread.
Opens(c) == c.thread = NoThread /\ c.first

\* The thread holds a turn of the tool with steps in it.
Restorable(c) == Alive(c.thread) /\ saved[c.thread][c.tool] # NoSteps

\* Faulty variant: what the instance holds is trusted if it belongs to the thread.
RecalledFromInstance(c) ==
    IF Opens(c) THEN NoSteps
    ELSE IF Restorable(c) /\ history[c.tool].of # c.thread THEN saved[c.thread][c.tool]
    ELSE history[c.tool]

\* The steps a call starts from: none in a new thread, those saved in its thread,
\* and otherwise what the instance happens to hold.
Recalled(c) ==
    IF Opens(c) THEN NoSteps
    ELSE IF Restorable(c) THEN saved[c.thread][c.tool]
    ELSE history[c.tool]

\* The thread t the call works on; born is the thread it opens, or NoThread.
WorksOn(c, t, born) ==
    IF Opens(c)
    THEN born \in Threads /\ status[born] = "unborn" /\ t = born
    ELSE born = NoThread /\ t = c.thread

Works(r, t, born) ==
    /\ At(r, "queued")
    /\ Holds(r)
    /\ WorksOn(call[r], t, born)
    /\ UNCHANGED proposal
    /\ history' = [history EXCEPT ![call[r].tool] = Extended(Recalled(call[r]), t)]
    /\ Created(born, call[r].tool)

\* A step that is not the last, or needs no expert: answered without an await.
StepAnswered(r, t, born) ==
    /\ Works(r, t, born)
    /\ TurnAdded(t, born, call[r].tool, history'[call[r].tool])
    /\ Answered(t, born, call[r].tool)
    /\ Leave(r)

\* The last step: the expert model is asked, and the lock kept meanwhile.
StepAsksExpert(r, t, born) ==
    /\ Works(r, t, born)
    /\ call[r].tool \notin Consulting
    /\ call' = [call EXCEPT ![r].pc = "expert", ![r].thread = t]
    /\ UNCHANGED <<queue, turns, saved, known, acked>>

\* Faulty variant: the lock is released on the way of an answer only.
StepFailsHolding(r, t, born) ==
    /\ Works(r, t, born)
    /\ call' = [call EXCEPT ![r] = Idle]
    /\ UNCHANGED <<queue, turns, saved, known, acked>>

\* An exception after the step was appended: it stays appended, nothing is saved.
StepFails(r, t, born) ==
    /\ Works(r, t, born)
    /\ Leave(r)
    /\ UNCHANGED <<turns, saved, known, acked>>

\* The request is refused by its checks before anything changes.
StepRefused(r) ==
    /\ At(r, "starting") \/ (At(r, "queued") /\ Holds(r))
    /\ Leave(r)
    /\ UNCHANGED <<history, proposal, storeVars, known, acked>>

\* The expert's answer, or the failure that _call_expert_analysis turns into one.
ExpertReturns(r) ==
    /\ At(r, "expert")
    /\ LET c == call[r] IN
        /\ TurnAdded(c.thread, NoThread, c.tool, history[c.tool])
        /\ Answered(c.thread, NoThread, c.tool)
    /\ Leave(r)
    /\ UNCHANGED <<history, proposal, status, creator>>

-----------------------------------------------------------------------------
(* The first step of a consultation, without the lock.                     *)

\* The proposal is stored on the instance and one task per model is created.
ConsultationStarts(r, t, born) ==
    /\ At(r, "starting")
    /\ WorksOn(call[r], t, born)
    /\ proposal' = [proposal EXCEPT ![call[r].tool] = r]
    /\ history' = IF Opens(call[r]) THEN [history EXCEPT ![call[r].tool] = NoSteps] ELSE history
    /\ call' = [call EXCEPT ![r].pc = "dispatching", ![r].thread = t]
    /\ Created(born, call[r].tool)
    /\ UNCHANGED <<queue, turns, saved, known, acked>>

\* The event loop gets round to the tasks, back to back: each builds its prompt
\* from the proposal on the instance.
ModelsAsked(r) ==
    /\ At(r, "dispatching")
    /\ call' = [call EXCEPT ![r].pc = "consulting", ![r].asked = proposal[call[r].tool]]
    /\ UNCHANGED <<history, proposal, queue, storeVars, known, acked>>

\* Every model has answered, failed or used up its time.
ConsultationEnds(r) ==
    /\ At(r, "consulting")
    /\ LET c == call[r] IN
        /\ history' = [history EXCEPT ![c.tool] = Extended(@, c.thread)]
        /\ TurnAdded(c.thread, NoThread, c.tool, history'[c.tool])
        /\ Answered(c.thread, NoThread, c.tool)
    /\ Leave(r)
    /\ UNCHANGED <<proposal, status, creator>>

-----------------------------------------------------------------------------
(* What the host, other tools and time do.                                 *)

\* The host cancels the call at the await where it is.
Cancel(r) ==
    /\ call[r] # Idle
    /\ Leave(r)
    /\ UNCHANGED <<history, proposal, storeVars, known, acked>>

\* Another tool opens the thread, or continues it; one turn stands for its question
\* and its answer.
OtherToolAnswers(t) ==
    /\ status[t] = "unborn" \/ (t \in known /\ Alive(t))
    /\ LET born == IF Alive(t) THEN NoThread ELSE t IN
        /\ Created(born, OtherTool)
        /\ TurnAdded(t, born, OtherTool, NoSteps)
        /\ Answered(t, born, OtherTool)
    /\ UNCHANGED <<history, proposal, queue, call>>

\* The store forgets a thread: its life is over.
Expire(t) ==
    /\ status[t] = "stored"
    /\ status' = [status EXCEPT ![t] = "gone"]
    /\ turns' = [turns EXCEPT ![t] = 0]
    /\ saved' = [saved EXCEPT ![t] = [tool \in Tools |-> NoSteps]]
    /\ acked' = [acked EXCEPT ![t] = 0]
    /\ UNCHANGED <<history, proposal, queue, call, creator, known>>

-----------------------------------------------------------------------------

Working(r) ==
    \/ \E t \in Maybe, born \in Maybe :
        \/ StepAnswered(r, t, born)
        \/ StepAsksExpert(r, t, born)
        \/ StepFails(r, t, born)
        \/ ConsultationStarts(r, t, born)
    \/ StepRefused(r)
    \/ ExpertReturns(r)
    \/ ModelsAsked(r)
    \/ ConsultationEnds(r)

Next ==
    \/ \E r \in Requests :
        \/ \E tool \in Tools, t \in Maybe, first \in BOOLEAN : Arrive(r, tool, t, first)
        \/ Working(r)
        \/ Cancel(r)
    \/ \E t \in Threads : OtherToolAnswers(t) \/ Expire(t)

Spec == Init /\ [][Next]_vars

-----------------------------------------------------------------------------

\* What a thread holds of the tool that opened it are steps of that thread only:
\* neither the session the instance served before nor a concurrent call gets in
\* ("preventing stale findings from bleeding into new conversations or concurrent
\* requests corrupting each other's summaries/persisted state", CHANGELOG.md).
SavedOwnSteps ==
    \A t \in Threads :
        creator[t] \in Tools \ Consulting /\ saved[t][creator[t]] # NoSteps =>
            saved[t][creator[t]].of = t

\* The thread holds one step for each answer its tool has given in it: failed,
\* refused and cancelled calls leave none behind, and none is lost.
AckedStepsKept ==
    \A t \in Threads :
        Alive(t) /\ creator[t] \in Tools \ Consulting /\ turns[t] < MaxTurns =>
            saved[t][creator[t]].count = acked[t]

\* The sessions of the tools that work under the lock, as SessionLog has them: what the thread
\* holds of the tool that opened it.
SessionPhase(t) ==
    CASE status[t] = "unborn" -> "unborn"
      [] status[t] # "unborn" /\ creator[t] \notin Tools \ Consulting -> "foreign"
      [] status[t] = "stored" /\ creator[t] \in Tools \ Consulting -> "open"
      [] OTHER -> "closed"
SessionSteps(t) ==
    IF creator[t] \in Tools \ Consulting
    THEN [i \in 1 .. saved[t][creator[t]].count |-> saved[t][creator[t]].of]
    ELSE <<>>

SessionPhases == [t \in Threads |-> SessionPhase(t)]
SessionLogs == [t \in Threads |-> SessionSteps(t)]

Sessions == INSTANCE SessionLog WITH phase <- SessionPhases, log <- SessionLogs

\* One instance and its one list of steps serve all sessions of a tool, whose calls interleave,
\* fail and are cancelled; still each session is a log of its own answered steps.
SessionsAreLogs == Sessions!Spec

\* The lock is handed on: no place in a tool's line is kept by a call that has failed
\* or was cancelled, a call that waits has one place, and only one call of a tool is
\* with the expert.
LockHandedOn ==
    /\ \A tool \in Tools : \A i \in DOMAIN queue[tool] :
        /\ call[queue[tool][i]] # Idle /\ call[queue[tool][i]].tool = tool
        /\ \A j \in DOMAIN queue[tool] : queue[tool][i] = queue[tool][j] => i = j
    /\ \A r \in Requests :
        At(r, "queued") \/ At(r, "expert") =>
            \E i \in DOMAIN queue[call[r].tool] : queue[call[r].tool][i] = r
    /\ \A r, s \in Requests :
        At(r, "expert") /\ At(s, "expert") /\ call[r].tool = call[s].tool => r = s

\* The models of a consultation are asked about its own proposal ("Store the original
\* proposal from step 1 - this is what all models should see", tools/consensus.py).
ConsultedOnOwnProposal ==
    \A r \in Requests : At(r, "consulting") => call[r].asked = r
=============================================================================
