------------------------------ MODULE ToolCalls ------------------------------
(***************************************************************************)
(* One-shot tools (chat and the other children of SimpleTool): execute()   *)
(* of tools/simple/base.py behind the call handler of                      *)
(* handlers/tool_handlers.py, over the conversation store.                 *)
(*                                                                         *)
(* A call runs without an await up to the question to its model, waits for *)
(* a worker thread, and runs without an await to its reply; an empty       *)
(* answer is asked for once more.  The tool's one instance remembers the   *)
(* model of the call it served last, and nothing serialises the calls.     *)
(* What the question holds of the thread and of the files is in module     *)
(* ThreadContext.                                                          *)
(***************************************************************************)
EXTENDS ThreadContext

CONSTANTS
    Calls,          \* calls the host makes, each of them once
    Requests,       \* the sets of paths that calls name
    Threads,        \* conversation threads
    NoThread,
    NoModel,
    DefaultModel,   \* DEFAULT_MODEL, or what auto mode resolves to
    MaxTurns        \* MAX_CONVERSATION_TURNS

ASSUME ToolCallConstants ==
    /\ Requests \subseteq SUBSET Paths
    /\ NoThread \notin Threads
    /\ NoModel \notin Models
    /\ DefaultModel \in Models
    /\ MaxTurns \in Nat \ {0}

VARIABLES
    current,    \* _current_model_name and _model_context of the tool's instance
    call,       \* what each call is doing, or how it ended
    prompt,     \* what the model is shown for each call that waits for it
    status,     \* "unborn", "stored" or "gone"
    turns       \* the turns of each thread

vars == <<current, call, prompt, status, turns>>

Maybe == Threads \union {NoThread}

\* "model" is the one recorded with an answer; a question has none.
Question(c, files) == [role |-> "user", of |-> c, model |-> NoModel, files |-> files]
Answer(c, m, files) == [role |-> "assistant", of |-> c, model |-> m, files |-> files]
Turns == [role : {"user", "assistant"}, of : Calls, model : Models \union {NoModel}, files : SUBSET Paths]

\* "offer" is the thread the reply offers for another exchange.
Stages == {"new", "asking", "retrying", "answered", "failed"}
CallStates == [pc : Stages, thread : Maybe, offer : Maybe]

\* The model the prompt is made for, the files the request is for, what the history shows of how many turns, and what is embedded.
Prompts == [model : Models \union {NoModel}, for : SUBSET Paths, history : [files : SUBSET Paths, turns : 0 .. MaxTurns],
            of : 0 .. MaxTurns, embedded : SUBSET Paths]
NoPrompt == [model |-> NoModel, for |-> {}, history |-> NoHistory, of |-> 0, embedded |-> {}]

\* Every variable has its type, and no thread outgrows the limit.
TypeOK ==
    /\ current \in Models \union {NoModel}
    /\ call \in [Calls -> CallStates]
    /\ prompt \in [Calls -> Prompts]
    /\ status \in [Threads -> {"unborn", "stored", "gone"}]
    /\ turns \in [Threads -> Seq(Turns)]
    /\ \A t \in Threads : Len(turns[t]) <= MaxTurns

Init ==
    /\ current = NoModel
    /\ call = [c \in Calls |-> [pc |-> "new", thread |-> NoThread, offer |-> NoThread]]
    /\ prompt = [c \in Calls |-> NoPrompt]
    /\ status = [t \in Threads |-> "unborn"]
    /\ turns = [t \in Threads |-> <<>>]

-----------------------------------------------------------------------------
(* The conversation store.                                                 *)

Alive(t) == t \in Threads /\ status[t] = "stored"

\* Ids that create_thread has not handed out yet: no call can name them.
Unborn == {t \in Threads : status[t] = "unborn"}

\* add_turn, whose result nobody looks at.
Added(t, turn) ==
    IF Alive(t) /\ Len(turns[t]) < MaxTurns THEN [turns EXCEPT ![t] = Append(@, turn)] ELSE turns

\* A thread expires, or the sweep takes it.
Forget(t) ==
    /\ Alive(t)
    /\ status' = [status EXCEPT ![t] = "gone"]
    /\ turns' = [turns EXCEPT ![t] = <<>>]
    /\ UNCHANGED <<current, call, prompt>>

-----------------------------------------------------------------------------
(* From the arrival of a call to its question to the model.                *)

IsAnswer(turn) == turn.role = "assistant"

\* The model of the last answer in the thread.
ModelOfThread(t) ==
    LET answers == {i \in DOMAIN turns[t] : IsAnswer(turns[t][i])}
    IN  IF answers = {} THEN DefaultModel ELSE turns[t][Max(answers)].model

\* The handler lets a continuation without a model go on with the thread's; a call that
\* does not come through the handler has the default.
ResolvedModel(t, m, direct) ==
    IF m # NoModel THEN m ELSE IF Alive(t) /\ ~direct THEN ModelOfThread(t) ELSE DefaultModel

\* Faulty variant: the tool does not see that the handler has recorded the question.
RecordedTwice(c, t, files) ==
    LET once == Added(t, Question(c, files))
    IN  IF Alive(t) /\ Len(once[t]) < MaxTurns THEN [once EXCEPT ![t] = Append(@, Question(c, files))] ELSE once

\* The handler, or the tool when the call did not come through it, puts the question on the
\* thread, before anything else can go wrong.
Recorded(c, t, files) == Added(t, Question(c, files))

\* The handler refuses a continuation of a thread that is not there; the tool alone does not.
Admits(t, direct) == t = NoThread \/ Alive(t) \/ (direct /\ t \notin Unborn)

\* A continuation that names no files inherits those of the request that opened the thread.
FilesFor(t, files, direct) ==
    IF files = {} /\ ~direct /\ Alive(t) /\ turns[t] # <<>> THEN turns[t][1].files ELSE files

\* The handler builds the history from the thread as it was before it recorded the question, and
\* the tool takes that for the whole prompt.  The tool alone builds it from the thread with the
\* question in it, and embeds the files that are new to that thread.
PromptFor(c, t, m, files, direct) ==
    LET for == FilesFor(t, files, direct)
        held == IF Alive(t) THEN Recorded(c, t, files)[t] ELSE <<>>
        told == IF Alive(t) /\ ~direct THEN turns[t] ELSE held
    IN  [model |-> m, for |-> for, history |-> History(told, m), of |-> Len(told),
         embedded |-> IF Alive(t) /\ ~direct THEN {} ELSE Embedded(NewFiles(for, held), m)]

Asks(c, t, m, files, direct) ==
    /\ call[c].pc = "new"
    /\ Admits(t, direct)
    /\ current' = ResolvedModel(t, m, direct)
    /\ direct \/ FilesAdmitted(FilesFor(t, files, direct), current')
    /\ call' = [call EXCEPT ![c].pc = "asking", ![c].thread = t]
    /\ prompt' = [prompt EXCEPT ![c] = PromptFor(c, t, current', files, direct)]
    /\ turns' = Recorded(c, t, files)
    /\ UNCHANGED status

\* No provider has the model, or the files are too large: the handler refuses, after it has
\* recorded the question.  Too many images: the tool refuses, after it has taken the model over.
TurnedDown(c, t, m, files, direct) ==
    /\ call[c].pc = "new"
    /\ Admits(t, direct)
    /\ \/ current' = ResolvedModel(t, m, direct)
       \/ ~direct /\ UNCHANGED current
    /\ call' = [call EXCEPT ![c].pc = "failed", ![c].thread = t]
    /\ turns' = Recorded(c, t, files)
    /\ UNCHANGED <<prompt, status>>

\* An unknown tool, a thread that is gone, or a path that is not absolute.
Refused(c, t) ==
    /\ call[c].pc = "new"
    /\ call' = [call EXCEPT ![c].pc = "failed", ![c].thread = t]
    /\ UNCHANGED <<current, prompt, status, turns>>

-----------------------------------------------------------------------------
(* From the model's answer to the reply.                                   *)

Waiting(c) == call[c].pc \in {"asking", "retrying"}

\* An answer without text that ended normally is asked for again, of the instance's model.
EmptyAnswer(c) ==
    /\ call[c].pc = "asking"
    /\ call' = [call EXCEPT ![c].pc = "retrying"]
    /\ UNCHANGED <<current, prompt, status, turns>>

\* The answer is recorded under the instance's model.
Credited(c) == Answer(c, current, prompt[c].for)

\* A thread with less than this left is not offered again.
Offered(t, held) == Alive(t) /\ Len(held) > 0 /\ ~(Len(held) >= MaxTurns - 1)

\* The reply to a call that continued a thread.
ReplyOnThread(c) ==
    LET t == call[c].thread
    IN  /\ Waiting(c)
        /\ t # NoThread
        /\ turns' = Added(t, Credited(c))
        /\ call' = [call EXCEPT ![c].pc = "answered",
                                ![c].offer = IF Offered(t, turns'[t]) THEN t ELSE NoThread]
        /\ prompt' = [prompt EXCEPT ![c] = NoPrompt]
        /\ UNCHANGED <<current, status>>

\* A new thread begins with the question and the answer.
Opening(c) == SubSeq(<<Question(c, prompt[c].for), Credited(c)>>, 1, IF MaxTurns < 2 THEN MaxTurns ELSE 2)

\* The reply to a call without a thread; "born" is NoThread when the store could not create one.
ReplyWithThread(c, born) ==
    /\ Waiting(c)
    /\ call[c].thread = NoThread
    /\ born \in Unborn \union {NoThread}
    /\ status' = [t \in Threads |-> IF t = born THEN "stored" ELSE status[t]]
    /\ turns' = [t \in Threads |-> IF t = born THEN Opening(c) ELSE turns[t]]
    /\ call' = [call EXCEPT ![c].pc = "answered", ![c].offer = born]
    /\ prompt' = [prompt EXCEPT ![c] = NoPrompt]
    /\ UNCHANGED current

\* The provider fails, its answer was blocked or is empty again, or the host aborts the call.
Fails(c) ==
    /\ Waiting(c)
    /\ call' = [call EXCEPT ![c].pc = "failed"]
    /\ prompt' = [prompt EXCEPT ![c] = NoPrompt]
    /\ UNCHANGED <<current, status, turns>>

Next ==
    \/ \E t \in Threads : Forget(t)
    \/ \E c \in Calls :
        \/ \E t \in Maybe, m \in Models \union {NoModel}, files \in Requests, direct \in BOOLEAN :
            Asks(c, t, m, files, direct) \/ TurnedDown(c, t, m, files, direct)
        \/ \E t \in Maybe \ Unborn : Refused(c, t)
        \/ EmptyAnswer(c)
        \/ ReplyOnThread(c)
        \/ \E born \in Maybe : ReplyWithThread(c, born)
        \/ Fails(c)

Spec == Init /\ [][Next]_vars

-----------------------------------------------------------------------------
(* Properties.                                                             *)

Holds(t, i, role, c) == turns[t][i].role = role /\ turns[t][i].of = c

\* An answer is in a thread only after the question it answers, and only if the caller got it:
\* neither a failed call nor one that was retried leaves an answer behind.
AnswersHaveQuestions ==
    \A t \in Threads : \A i \in DOMAIN turns[t] : \A c \in Calls :
        Holds(t, i, "assistant", c) =>
            /\ call[c].pc = "answered"
            /\ \E j \in 1 .. i - 1 : Holds(t, j, "user", c)

\* The handler and the tool can both put a question on the thread, and the tool an answer in two
\* places; together they do it once.
EachTurnOnce ==
    \A t, u \in Threads : \A i \in DOMAIN turns[t], j \in DOMAIN turns[u] :
        turns[t][i].of = turns[u][j].of /\ turns[t][i].role = turns[u][j].role => t = u /\ i = j

\* A caller that has an answer finds it in its thread, unless the thread was full, whatever other
\* calls put there meanwhile.
AnswersKept ==
    \A c \in Calls : \A t \in Threads :
        /\ call[c].pc = "answered"
        /\ Alive(t)
        /\ call[c].thread = t \/ call[c].offer = t
        => \/ Len(turns[t]) = MaxTurns
           \/ \E i \in DOMAIN turns[t] : Holds(t, i, "assistant", c)

\* What the callers of a tool rely on when they read a thread, through every interleaving.
ExchangesRecorded == AnswersHaveQuestions /\ EachTurnOnce /\ AnswersKept

\* A file that the history shows is not embedded once more, unless a folder brings it in again.
NoFileTwice ==
    \A c \in Calls :
        prompt[c].history.files \intersect prompt[c].embedded \subseteq Expanded(prompt[c].for \intersect Folders)

\* The shares of the history and of the request's files are claimed in different places, and
\* together stay within the content's share of the window.
PromptFits ==
    \A c \in Calls : Waiting(c) =>
        LET p == prompt[c]
            m == p.model
        IN  Total(Read, p.history.files) + p.history.turns * TurnSize + Total(Read, p.embedded) <= Allocation(m).content

\* However large the files of a thread are, they leave its newest turns the rest of the history's
\* share.  In a large window nothing need be left: there the shares are equal.
NewestTurnsShown ==
    \A c \in Calls : Waiting(c) =>
        LET share == Allocation(prompt[c].model)
            room == (share.history - share.files) \div TurnSize
        IN  prompt[c].history.turns >= Min({prompt[c].of, room})

\* "No partial inclusion": a request for files that the boundary let through has all of them
\* before the model, one too large to be read by its note.  Only requests that open a thread are
\* held to it here, and a folder among the paths voids it: it counts nothing at the boundary.
OpeningFilesReachModel ==
    \A c \in Calls :
        /\ Waiting(c) /\ call[c].thread = NoThread
        /\ prompt[c].for \intersect Folders = {}
        /\ FilesAdmitted(prompt[c].for, prompt[c].model)
        => prompt[c].embedded = prompt[c].for

\* With folders, or past the boundary: what such a request asks for and the model is not shown
\* would not fit beside what it is shown.
OnlyMisfitsLeftOut ==
    \A c \in Calls : Waiting(c) /\ call[c].thread = NoThread =>
        LET p == prompt[c]
        IN  \A f \in Expanded(p.for) \ p.embedded : Total(Read, p.embedded) + Read[f] > FileBudget(p.model)

\* The files of a request reach its model as far as its share goes, and reach it once.
FilesReachModelOnce == NoFileTwice /\ OpeningFilesReachModel /\ OnlyMisfitsLeftOut

\* "ensuring tools still have logical access to all requested files through conversation history
\* references": the same of requests that continue a thread.
RequestedFilesReachModel ==
    \A c \in Calls :
        /\ Waiting(c)
        /\ prompt[c].for \intersect Folders = {}
        /\ FilesAdmitted(prompt[c].for, prompt[c].model)
        => prompt[c].for \subseteq prompt[c].embedded \union prompt[c].history.files
=============================================================================
