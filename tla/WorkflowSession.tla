---------------------------- MODULE WorkflowSession ----------------------------
(***************************************************************************)
(* The sessions of one step-by-step tool: what _execute_workflow_impl of   *)
(* tools/workflow/workflow_mixin.py keeps of them on the shared instance,  *)
(* restores from the conversation thread, tells the agent after each step  *)
(* and the expert after the last, and how the expert's answer comes back,  *)
(* for three of the tools in a stream that is relayed as progress.         *)
(*                                                                         *)
(* Calls of a tool take its lock (see WorkflowTools), so that one call at  *)
(* a time is followed here.  Its steps up to the await of the expert, and  *)
(* those after it, run in one piece.                                       *)
(***************************************************************************)
EXTENDS WorkflowHooks, Sequences

CONSTANTS
    Tools,          \* the tools that are followed, one in each behaviour
    Threads,        \* conversation threads
    MaxTurns,       \* MAX_CONVERSATION_TURNS
    MaxHistory,     \* steps on the instance are followed up to here; the code does not limit them
    TableSteps      \* step numbers at which the tables of the hooks are compared

ASSUME SessionConstants ==
    /\ Tools \subseteq AllTools
    /\ NoThread \notin Threads
    /\ MaxTurns \in Nat \ {0}
    /\ MaxHistory \in Nat \ {0}
    /\ TableSteps \subseteq Nat \ {0}

VARIABLES
    tool,       \* the tool
    inst,       \* its instance: attributes of the mixin and of the tool
    call,       \* the call that holds the lock, or Idle
    threads     \* the conversation threads

vars == <<tool, inst, call, threads>>

Maybe == Threads \union {NoThread}

\* A step record: the session it was sent for, and whether it names a file or reports an issue.
Steps == [of : Maybe, some : BOOLEAN]
NoState == [history |-> <<>>, request |-> NoThread]

\* Texts stand for the session whose first step they are.  "found" are the steps that
\* consolidated_findings was built from, "mode" is the trace_mode of tracer.
Instances ==
    [history : Seq(Steps), found : Seq(Steps), request : Maybe, issue : Maybe, config : Maybe,
     mode : {"ask", "precision"}]

Prompts == [found : Seq(Steps), tells : SUBSET Sections, request : Maybe, issue : Maybe, config : Maybe]
Idle == [pc |-> "idle"]

\* What is still looked at of a request after the expert was asked.
Rest(q) == [step |-> IF q.step = 1 THEN 1 ELSE 2, files |-> q.files, issue |-> q.issue, mode |-> q.mode,
            assist |-> q.assist]
Rests == [step : {1, 2}, files : BOOLEAN, issue : BOOLEAN, mode : {"ask", "precision"}, assist : BOOLEAN]
Calls == [pc : {"expert"}, q : Rests, thread : Maybe, prompt : Prompts]

\* Every variable has its type.
TypeOK ==
    /\ tool \in Tools
    /\ inst \in Instances
    /\ call \in {Idle} \union Calls
    /\ threads \in [Threads -> [status : {"unborn", "stored", "gone"}, own : BOOLEAN, turns : 0 .. MaxTurns,
                              saved : [history : Seq(Steps), request : Maybe], sent : Seq(Steps)]]

Init ==
    /\ tool \in Tools
    /\ inst = [history |-> <<>>, found |-> <<>>, request |-> NoThread, issue |-> NoThread,
               config |-> NoThread, mode |-> "ask"]
    /\ call = Idle
    \* "sent" (a history variable): the steps of the session whose answers the thread took
    /\ threads = [t \in Threads |-> [status |-> "unborn", own |-> FALSE, turns |-> 0,
                                     saved |-> NoState, sent |-> <<>>]]

-----------------------------------------------------------------------------
(* Before the answer: restoring or opening a session, and its next step.   *)

\* The agent learns of a thread with the answer, which adds a turn.
Known(t) == t \in Threads /\ threads[t].turns > 0

Alive(t) == t \in Threads /\ threads[t].status = "stored"

\* create_thread, for a first step without continuation_id
Opens(q) == q.thread = NoThread /\ q.step = 1

\* Faulty variant: the history is restored but not what was found.
RecalledUnread(t) ==
    IF Alive(t) /\ threads[t].saved # NoState
    THEN [inst EXCEPT !.history = threads[t].saved.history, !.request = threads[t].saved.request]
    ELSE inst

\* The state saved in the tool's latest turn of the thread; without one the instance keeps what it has.
Recalled(t) ==
    IF Alive(t) /\ threads[t].saved # NoState
    THEN [inst EXCEPT !.history = threads[t].saved.history,
                      !.found = threads[t].saved.history,
                      !.request = threads[t].saved.request]
    ELSE inst

\* Faulty variant: a new session goes on from the steps of the one before.
BegunStale(t) == [inst EXCEPT !.request = t, !.issue = IF "issue" \in KeptAs(tool) THEN t ELSE @]

\* A new session forgets the steps of the one before, though not its configuration.
Begun(t) ==
    [inst EXCEPT !.history = <<>>, !.found = <<>>, !.request = t,
                 !.issue = IF "issue" \in KeptAs(tool) THEN t ELSE @]

Record(q, t) ==
    [of |-> t, some |-> ("files" \in Keeps(tool) /\ q.files) \/ ("issues" \in Keeps(tool) /\ q.issue)]

\* The instance once the step has been appended and consolidated.
Worked(q, t) ==
    LET base == IF Opens(q) THEN Begun(t) ELSE Recalled(q.thread)
    IN  [base EXCEPT !.history = Append(@, Record(q, t)),
                     !.found = Append(@, Record(q, t)),
                     !.config = IF "config" \in Prepares(tool, q) THEN t ELSE @]

\* customize_workflow_response
Customized(i, q, t) ==
    [i EXCEPT !.request = IF "request" \in Remembers(tool, q) THEN t ELSE @,
              !.issue = IF "issue" \in Remembers(tool, q) THEN t ELSE @,
              !.config = IF "config" \in Remembers(tool, q) THEN t ELSE @,
              !.mode = IF "mode" \in Remembers(tool, q) THEN q.mode ELSE @]

\* A thread that nobody has used yet: the ids are fresh, so it does not matter which.
Unborn == {t \in Threads : threads[t].status = "unborn"}
Fresh == CHOOSE t \in Unborn : TRUE

\* The session that a call works on: a new one, that of the thread it names, or none.
Session(q) == IF Opens(q) THEN Fresh ELSE q.thread

Born(q, t) ==
    IF Opens(q) THEN [threads EXCEPT ![t].status = "stored", ![t].own = TRUE] ELSE threads

-----------------------------------------------------------------------------
(* The answer.                                                             *)

\* store_conversation_turn: a full or forgotten thread takes no turn, which nobody looks at.
Stored(ths, i, q, t) ==
    IF t \in Threads /\ ths[t].status = "stored" /\ ths[t].turns < MaxTurns
    THEN [ths EXCEPT ![t].turns = @ + 1,
                     ![t].saved = [history |-> i.history, request |-> i.request],
                     ![t].sent = Append(@, Record(q, t))]
    ELSE ths

\* The call is answered; i is the instance as the step and the expert leave it.
Answered(i, ths, q, t) ==
    LET after == Customized(i, q, t) IN
    /\ inst' = after
    /\ threads' = Stored(ths, after, q, t)
    /\ call' = Idle
    /\ UNCHANGED tool

\* Whether the last step asks the expert, and otherwise how the session ends.
Found(i) == [some |-> \E s \in DOMAIN i.found : i.found[s].some, steps |-> Len(i.found)]
Ends(q, i) ==
    CASE tool = "docgen" /\ DocgenUnfinished(q) -> "unfinished"
      [] ~(tool = "docgen" /\ DocgenUnfinished(q)) /\ Skips(tool, q) -> "skipped"
      [] ~Skips(tool, q) /\ CallsExpert(tool, q, Found(i)) -> "expert"
      [] OTHER -> IF tool \in {"docgen", "planner", "tracer"} THEN "complete" ELSE "local"

PromptFor(i) ==
    [found |-> i.found, tells |-> Tells(tool), request |-> i.request, issue |-> i.issue, config |-> i.config]

\* Every entry of the tables of actions and guidance: steps that are not the last.  A confidence
\* need not be one that the tool describes; thinkdeep alone requires one.
Tabled == [thread : Maybe, step : TableSteps, total : TableSteps, more : {TRUE},
           conf : MaybeConfidences \union RefactorConfidences, kind : {"external", "internal"}, much : BOOLEAN]

\* The tools with the requests that pass their validators.  What only the last step looks at has
\* one value in the others.
Sendable ==
    {s \in Tools \X Requests(Threads) :
        LET q == s[2]
        IN  /\ Valid(s[1], q)
            /\ q.more => q.assist /\ q.kind = "external" /\ q.left = 0 /\ q.conf \notin {"certain", "complete"}}

\* A call that the handler lets in; no call comes while another has the lock.
Admits(q) ==
    /\ call = Idle
    /\ q.thread = NoThread \/ (Alive(q.thread) /\ Known(q.thread))
    /\ Opens(q) => Unborn # {}

\* In the following, t is the session of the request, and i the instance with its step.

\* A step that is answered at once: the work goes on, or ends without an expert.
StepAnswered(q, t, i) ==
    /\ q.more \/ Ends(q, i) # "expert"
    /\ Answered(i, Born(q, t), q, t)

\* The last step, with an expert.  The prompt is put together before the await.
StepAsksExpert(q, t, i) ==
    /\ ~q.more /\ Ends(q, i) = "expert"
    /\ inst' = i
    /\ threads' = Born(q, t)
    /\ call' = [pc |-> "expert", q |-> Rest(q), thread |-> t, prompt |-> PromptFor(i)]
    /\ UNCHANGED tool

\* Anything that raises after the step was appended, such as the store in the last line.
StepFails(q, t, i) ==
    /\ inst' = i
    /\ threads' = Born(q, t)
    /\ UNCHANGED <<tool, call>>

-----------------------------------------------------------------------------
(* The expert.                                                             *)

Asking == call # Idle

\* The expert answers, says that it needs files or a pause, or fails: all is one to the session,
\* which records the step as answered.
ExpertReturns ==
    /\ Asking
    /\ Answered(inst, threads, call.q, call.thread)

\* The host gives up.
Cancel ==
    /\ Asking
    /\ call' = Idle
    /\ UNCHANGED <<tool, inst, threads>>

-----------------------------------------------------------------------------
(* Other tools, and time.                                                  *)

\* Another tool opens a thread or adds a turn to one.
OtherToolAnswers(t) ==
    /\ t \in Unborn => t = Fresh
    /\ t \notin Unborn => Alive(t) /\ Known(t)
    /\ threads[t].turns < MaxTurns
    /\ threads' = [threads EXCEPT ![t].status = "stored", ![t].turns = @ + 1]
    /\ UNCHANGED <<tool, inst, call>>

\* The store forgets a thread.
Expire(t) ==
    /\ Alive(t)
    /\ threads' = [threads EXCEPT ![t].status = "gone", ![t].saved = NoState, ![t].sent = <<>>]
    /\ UNCHANGED <<tool, inst, call>>

Next ==
    \/ \E s \in Sendable :
         /\ s[1] = tool /\ Admits(s[2])
         /\ LET q == s[2]
                t == Session(q)
                i == Worked(q, t)
            IN  /\ Len(i.history) <= MaxHistory
                /\ StepAnswered(q, t, i) \/ StepAsksExpert(q, t, i) \/ StepFails(q, t, i)
    \/ ExpertReturns
    \/ Cancel
    \/ \E t \in Threads : OtherToolAnswers(t)
    \/ \E t \in Threads : Expire(t)

Spec == Init /\ [][Next]_vars

-----------------------------------------------------------------------------
(* Properties.                                                             *)

\* What the tool reports and tells the expert was built from exactly the steps it saves in the
\* thread, however sessions alternate, fail or are cancelled (_reprocess_consolidated_findings).
FoundMatchesHistory == inst.found = inst.history

\* The expert on a session is told all the answered steps of that session and the present one,
\* no step of another, and the request that the session began with.
ExpertKnowsItsSession ==
    [][~Asking /\ Asking' /\ call'.thread \in Threads /\ threads'[call'.thread].own =>
           /\ call'.prompt.found = Append(threads'[call'.thread].sent, Record(call'.q, call'.thread))
           /\ "request" \in Tells(tool) => call'.prompt.request = call'.thread]_vars

\* The sessions that the tool opened, as SessionLog has them: the steps their threads hold.
SessionPhase(t) ==
    CASE threads[t].status = "unborn" -> "unborn"
      [] threads[t].status # "unborn" /\ ~threads[t].own -> "foreign"
      [] threads[t].status = "stored" /\ threads[t].own -> "open"
      [] OTHER -> "closed"
SessionSteps(t) ==
    IF threads[t].own
    THEN [i \in DOMAIN threads[t].saved.history |-> threads[t].saved.history[i].of] ELSE <<>>

SessionPhases == [t \in Threads |-> SessionPhase(t)]
SessionLogs == [t \in Threads |-> SessionSteps(t)]

Sessions == INSTANCE SessionLog WITH phase <- SessionPhases, log <- SessionLogs

\* What a session saves is a log of its own answered steps, whatever the instance served before
\* and has kept of failed and cancelled calls.
SessionsAreLogs == Sessions!Spec

\* An expert is not asked when the agent declined one; thinkdeep alone does not look at that.
ExpertOnlyWhenWanted == Asking /\ tool # "thinkdeep" => call.q.assist

\* Where the tables of a tool disagree: a null confidence is low for the actions and nothing for
\* the text; thinkdeep has actions for its first step and no text, and text for "exploring" and no
\* actions; a review on a fast track is to conclude and to verify; precommit's text does not look
\* at what was found; secaudit's actions go by the step and its text by the confidence; a short
\* plan has actions for its first step and no text.
Apart(t, q) ==
    \/ t \in {"debug", "testgen", "tracer"} /\ q.step # 1 /\ q.conf = "null"
    \/ t = "thinkdeep" /\ (q.step = 1 \/ q.conf \notin Confidences \ {"exploring"})
    \/ t = "codereview" /\ q.step >= 3 /\ FastTrack(q)
    \/ t = "precommit" /\ q.step >= 3 /\ (FastTrack(q) \/ ~q.much)
    \/ t = "secaudit" /\ q.step \in 2 .. 6 /\ q.conf \notin {"exploring", "low"}
    \/ t = "secaudit" /\ q.step > 6 /\ q.conf \in {"exploring", "low", "medium", "high"}
    \/ t = "planner" /\ q.step = 1 /\ q.total < 5

\* The actions that the agent must take are those of the phase that the text next to them
\* describes, for every tool and step but those where the tables disagree.  They do not depend on
\* the session, and are compared before any begins.
ActionsAgree ==
    (\A t \in Threads : threads[t].status = "unborn") =>
        \A q \in Tabled, mode \in {"ask", "precision"} :
            ~(q.conf = "null" /\ tool = "thinkdeep") =>
                (Actions(tool, q, mode) = Guidance(tool, q, mode) <=> ~Apart(tool, q))

\* What a tool's hooks make of one step goes together: its actions with its guidance, and the
\* agent's wish with what is done about the expert.
HooksAgree == ActionsAgree /\ ExpertOnlyWhenWanted
=============================================================================
