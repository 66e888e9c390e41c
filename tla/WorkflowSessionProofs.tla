------------------------ MODULE WorkflowSessionProofs ------------------------
(***************************************************************************)
(* Theorems about the sessions of a step-by-step tool, for any number of   *)
(* threads, steps and turns, and for each of the eleven tools.             *)
(***************************************************************************)
EXTENDS WorkflowSession, SequenceTheorems, TLAPS

Rows == [status : {"unborn", "stored", "gone"}, own : BOOLEAN, turns : 0 .. MaxTurns,
         saved : [history : Seq(Steps), request : Maybe], sent : Seq(Steps)]

\* What a thread that the tool opened has saved are the steps that it answered, and the request
\* of the session where the expert is told one.
OwnSaved ==
    \A t \in Threads :
        /\ threads[t].status = "unborn" => ~threads[t].own /\ threads[t].sent = <<>> /\ threads[t].turns = 0
        /\ threads[t].own /\ Alive(t) =>
            IF threads[t].turns = 0 THEN threads[t].sent = <<>>
            ELSE /\ threads[t].sent # <<>>
                 /\ threads[t].saved.history = threads[t].sent
                 /\ "request" \in Tells(tool) => threads[t].saved.request = t

\* The instance knows exactly the steps of session t that were answered, and one more.
Knows(i, ths, q, t) ==
    /\ i.history = Append(ths[t].sent, Record(q, t))
    /\ "request" \in Tells(tool) => i.request = t

\* While the expert is asked nothing changes what the instance holds of the session.
AskingKnows ==
    Asking /\ call.thread \in Threads /\ threads[call.thread].own /\ Alive(call.thread)
        => Knows(inst, threads, call.q, call.thread)

IInv == TypeOK /\ FoundMatchesHistory /\ OwnSaved /\ AskingKnows

-----------------------------------------------------------------------------
(* Requests and hooks.                                                     *)

\* What is used of a request.
LEMMA RequestType ==
  ASSUME NEW q \in Requests(Threads)
  PROVE  /\ q.thread \in Maybe /\ q.step \in Nat /\ q.mode \in {"ask", "precision"}
         /\ Rest(q) \in Rests
         /\ \A t : Record(Rest(q), t) = Record(q, t)
<1>1. /\ q.thread \in Maybe /\ q.step \in {s[1] : s \in Schedule} /\ q.mode \in {"ask", "precision"}
      /\ q.files \in BOOLEAN /\ q.issue \in BOOLEAN /\ q.assist \in BOOLEAN
  BY DEF Requests, Maybe
<1>2. q.step \in Nat
  BY <1>1, HookConstants
<1>3. Rest(q) \in Rests
  BY <1>1, <1>2 DEF Rest, Rests
<1>4. \A t : Record(Rest(q), t) = Record(q, t)
  BY DEF Record, Rest
<1> QED
  BY <1>1, <1>2, <1>3, <1>4

\* A step record says whose it is and whether it counts for an expert.
LEMMA RecordType ==
  ASSUME NEW q, NEW t \in Maybe
  PROVE  Record(q, t) \in Steps
  BY DEF Record, Steps

\* The expert is told sections of the prompt and nothing else.
LEMMA TellsType == tool \in AllTools => Tells(tool) \subseteq Sections
  BY DEF Tells, AllTools, Sections, DebugTells, CodereviewTells, PrecommitTells, SecauditTells, RefactorTells,
         AnalyzeTells, TestgenTells, ThinkdeepTells

\* A sequence that was appended to holds something.
LEMMA AppendedNotEmpty ==
  ASSUME NEW S, NEW s \in Seq(S), NEW e \in S
  PROVE  Append(s, e) \in Seq(S) /\ Append(s, e) # <<>>
<1>1. Len(Append(s, e)) = Len(s) + 1 /\ Len(s) \in Nat
  OBVIOUS
<1> QED
  BY <1>1

-----------------------------------------------------------------------------
(* The parts of a step.                                                    *)

\* A call that is let in works on a session, and the thread it opens is there when it does.
LEMMA SessionType ==
  ASSUME TypeOK, NEW q \in Requests(Threads), Admits(q)
  PROVE  /\ Session(q) \in Maybe
         /\ Opens(q) => Session(q) \in Unborn
         /\ ~Opens(q) => Session(q) = q.thread
         /\ Born(q, Session(q)) \in [Threads -> Rows]
<1>1. Opens(q) => Session(q) \in Unborn
  <2>1. Unborn # {} => Fresh \in Unborn
    BY DEF Fresh
  <2> QED
    BY <2>1 DEF Session, Admits
<1>2. ~Opens(q) => Session(q) = q.thread
  BY DEF Session
<1>3. Session(q) \in Maybe
  BY <1>1, <1>2, RequestType DEF Unborn, Maybe
<1>4. Born(q, Session(q)) \in [Threads -> Rows]
  BY <1>1, ZenonT(30) DEF Born, TypeOK, Rows, Unborn
<1> QED
  BY <1>1, <1>2, <1>3, <1>4

\* The instance with the step of a request: whole, and as the session of the request has it.
LEMMA WorkedInstance ==
  ASSUME IInv, NEW q \in Requests(Threads), Admits(q), NEW t, t = Session(q), NEW i, i = Worked(q, t)
  PROVE  /\ i \in Instances /\ i.found = i.history
         /\ t \in Threads /\ Born(q, t)[t].own => Knows(i, Born(q, t), q, t)
<1>1. /\ t \in Maybe /\ Record(q, t) \in Steps
      /\ Opens(q) => t \in Unborn
      /\ ~Opens(q) => t = q.thread
  BY SessionType, RecordType DEF IInv
<1> DEFINE base == IF Opens(q) THEN Begun(t) ELSE Recalled(q.thread)
<1>2. base \in Instances /\ base.found = base.history
  <2>1. CASE Opens(q)
    <3>1. base = Begun(t)
      BY <2>1
    <3>2. <<>> \in Seq(Steps) /\ inst \in Instances
      BY DEF IInv, TypeOK
    <3> QED
      BY <1>1, <3>1, <3>2, ZenonT(30) DEF Begun, Instances
  <2>2. CASE ~Opens(q)
    <3>1. base = Recalled(q.thread) /\ inst \in Instances /\ inst.found = inst.history
      BY <2>2 DEF IInv, TypeOK, FoundMatchesHistory
    <3>2. CASE Alive(q.thread) /\ threads[q.thread].saved # NoState
      <4>1. /\ threads[q.thread].saved.history \in Seq(Steps)
            /\ threads[q.thread].saved.request \in Maybe
        BY <3>2 DEF IInv, TypeOK, Alive
      <4> QED
        BY <3>1, <3>2, <4>1 DEF Recalled, Instances
    <3>3. CASE ~(Alive(q.thread) /\ threads[q.thread].saved # NoState)
      BY <3>1, <3>3 DEF Recalled
    <3> QED
      BY <3>2, <3>3
  <2> QED
    BY <2>1, <2>2
<1>3. i = [base EXCEPT !.history = Append(@, Record(q, t)),
                       !.found = Append(@, Record(q, t)),
                       !.config = IF "config" \in Prepares(tool, q) THEN t ELSE @]
  BY DEF Worked
<1> HIDE DEF base
<1>4. base.history \in Seq(Steps) /\ Append(base.history, Record(q, t)) \in Seq(Steps)
  BY <1>1, <1>2 DEF Instances
<1>5. /\ i \in Instances /\ i.found = i.history
      /\ i.history = Append(base.history, Record(q, t)) /\ i.request = base.request
  <2> DEFINE h == Append(base.history, Record(q, t))
             k == IF "config" \in Prepares(tool, q) THEN t ELSE base.config
  <2>1. base.config \in Maybe /\ base.found = base.history
    BY <1>2 DEF Instances
  <2>2. i = [base EXCEPT !.history = h, !.found = h, !.config = k]
    BY <1>3, <2>1
  <2>3. h \in Seq(Steps) /\ k \in Maybe
    BY <1>1, <1>4, <2>1
  <2> HIDE DEF h, k
  <2>4. i \in Instances /\ i.history = h /\ i.found = h /\ i.request = base.request
    BY <1>2, <2>2, <2>3 DEF Instances
  <2> QED
    BY <2>4 DEF h
<1>6. ASSUME t \in Threads, Born(q, t)[t].own PROVE Knows(i, Born(q, t), q, t)
  <2>1. Born(q, t)[t].sent = threads[t].sent
    BY <1>6 DEF Born, IInv, TypeOK
  <2>2. CASE Opens(q)
    <3>1. base.history = <<>> /\ base.request = t
      BY <2>2 DEF base, Begun, IInv, TypeOK, Instances
    <3>2. threads[t].sent = <<>>
      BY <1>1, <1>6, <2>2 DEF IInv, OwnSaved, Unborn
    <3> QED
      BY <1>5, <2>1, <3>1, <3>2 DEF Knows
  <2>3. CASE ~Opens(q)
    <3>1. t = q.thread /\ Alive(t) /\ threads[t].turns # 0 /\ threads[t].own
      <4>1. t = q.thread /\ q.thread # NoThread
        BY <1>1, <1>6, <2>3, SessionConstants
      <4>2. Alive(t) /\ Known(t)
        BY <4>1 DEF Admits
      <4>3. Born(q, t) = threads
        BY <2>3 DEF Born
      <4> QED
        BY <1>6, <4>1, <4>2, <4>3 DEF Known, IInv, TypeOK
    <3>2. /\ threads[t].sent # <<>> /\ threads[t].saved.history = threads[t].sent
          /\ "request" \in Tells(tool) => threads[t].saved.request = t
      BY <1>6, <3>1 DEF IInv, OwnSaved
    <3>3. threads[t].saved # NoState
      BY <3>2 DEF NoState
    <3>4. base.history = threads[t].saved.history /\ base.request = threads[t].saved.request
      BY <2>3, <3>1, <3>3 DEF base, Recalled, IInv, TypeOK, Instances
    <3> QED
      BY <1>5, <2>1, <3>2, <3>4 DEF Knows
  <2> QED
    BY <2>2, <2>3
<1> QED
  BY <1>5, <1>6

\* What a tool makes of an answered step on its instance leaves the history alone.
LEMMA CustomizedInstance ==
  ASSUME NEW i \in Instances, NEW q, q.mode \in {"ask", "precision"}, NEW t \in Maybe
  PROVE  /\ Customized(i, q, t) \in Instances
         /\ Customized(i, q, t).history = i.history /\ Customized(i, q, t).found = i.found
         /\ Customized(i, q, t).request \in {i.request, t}
<1> DEFINE a == IF "request" \in Remembers(tool, q) THEN t ELSE i.request
           b == IF "issue" \in Remembers(tool, q) THEN t ELSE i.issue
           d == IF "config" \in Remembers(tool, q) THEN t ELSE i.config
           e == IF "mode" \in Remembers(tool, q) THEN q.mode ELSE i.mode
<1>1. Customized(i, q, t) = [i EXCEPT !.request = a, !.issue = b, !.config = d, !.mode = e]
  BY DEF Customized
<1>2. a \in Maybe /\ a \in {i.request, t} /\ b \in Maybe /\ d \in Maybe /\ e \in {"ask", "precision"}
  BY DEF Instances
<1> HIDE DEF a, b, d, e
<1> QED
  BY <1>1, <1>2 DEF Instances

\* An answer is stored on the session of its call, together with the history it was built from;
\* the invariant holds again once the call is over.
LEMMA AnsweredKeepsIInv ==
  ASSUME IInv, NEW i \in Instances, i.found = i.history, NEW ths \in [Threads -> Rows],
         NEW q, q.mode \in {"ask", "precision"}, NEW t \in Maybe,
         \A u \in Threads : u # t => ths[u] = threads[u],
         t \in Threads =>
            /\ ths[t].status = threads[t].status \/ ths[t].status = "stored"
            /\ ths[t].status = "stored" /\ ths[t].own => Knows(i, ths, q, t)
            /\ ths[t].status = "unborn" => ~ths[t].own /\ ths[t].sent = <<>> /\ ths[t].turns = 0
            /\ ths[t].own /\ ths[t].status = "stored" =>
                IF ths[t].turns = 0 THEN ths[t].sent = <<>>
                ELSE /\ ths[t].sent # <<>>
                     /\ ths[t].saved.history = ths[t].sent
                     /\ "request" \in Tells(tool) => ths[t].saved.request = t,
         Answered(i, ths, q, t)
  PROVE  IInv'
<1> DEFINE after == Customized(i, q, t)
<1>1. /\ inst' = after /\ threads' = Stored(ths, after, q, t) /\ call' = Idle /\ UNCHANGED tool
  BY DEF Answered
<1>2. /\ after \in Instances /\ after.history = i.history /\ after.found = i.found
      /\ after.request \in {i.request, t}
  BY CustomizedInstance
<1>3. after.history \in Seq(Steps) /\ after.request \in Maybe
  BY <1>2 DEF Instances
<1> HIDE DEF after
<1>4. CASE t \in Threads /\ ths[t].status = "stored" /\ ths[t].turns < MaxTurns
  <2> DEFINE row == threads'[t]
             s == Append(ths[t].sent, Record(q, t))
  <2>1. s \in Seq(Steps) /\ s # <<>>
    <3>1. Record(q, t) \in Steps /\ ths[t].sent \in Seq(Steps)
      BY <1>4, RecordType DEF Rows
    <3> QED
      BY <3>1, AppendedNotEmpty
  <2> HIDE DEF s
  <2>2. threads' = [ths EXCEPT ![t] = [ths[t] EXCEPT !.turns = @ + 1,
                        !.saved = [history |-> after.history, request |-> after.request], !.sent = s]]
    BY <1>1, <1>4 DEF Stored, s
  <2>3. ths[t].turns + 1 \in 0 .. MaxTurns /\ ths[t].turns + 1 # 0
    BY <1>4, SessionConstants DEF Rows
  <2>4. /\ threads' \in [Threads -> Rows]
        /\ \A u \in Threads : u # t => threads'[u] = threads[u]
        /\ row.status = "stored" /\ row.own = ths[t].own /\ row.turns # 0 /\ row.sent = s
        /\ row.saved.history = after.history /\ row.saved.request = after.request
    BY <1>3, <1>4, <2>1, <2>2, <2>3 DEF Rows
  <2>5. TypeOK'
    BY <1>1, <1>2, <2>4 DEF IInv, TypeOK, Rows
  <2>6. FoundMatchesHistory'
    BY <1>1, <1>2 DEF FoundMatchesHistory
  <2>7. OwnSaved'
    <3>1. row.own => row.saved.history = s /\ ("request" \in Tells(tool) => row.saved.request = t)
      BY <1>2, <1>4, <2>4 DEF Knows, s
    <3>2. Tells(tool)' = Tells(tool) /\ \A u \in Threads : u # t => Alive(u)' = Alive(u)
      BY <1>1, <2>4 DEF Alive, Tells
    <3> QED
      BY <1>4, <2>1, <2>4, <3>1, <3>2 DEF IInv, OwnSaved
  <2> QED
    BY <1>1, <2>5, <2>6, <2>7 DEF IInv, AskingKnows, Asking
<1>5. CASE ~(t \in Threads /\ ths[t].status = "stored" /\ ths[t].turns < MaxTurns)
  <2>1. threads' = ths
    BY <1>1, <1>5 DEF Stored
  <2>2. TypeOK'
    BY <1>1, <1>2, <2>1 DEF IInv, TypeOK, Rows
  <2>3. FoundMatchesHistory'
    BY <1>1, <1>2 DEF FoundMatchesHistory
  <2>4. OwnSaved'
    <3>1. Tells(tool)' = Tells(tool) /\ \A u \in Threads : u # t => Alive(u)' = Alive(u)
      BY <1>1, <2>1 DEF Alive, Tells
    <3>2. \A u \in Threads : Alive(u)' => threads'[u].status = "stored"
      BY DEF Alive
    <3> QED
      BY <2>1, <3>1, <3>2 DEF IInv, OwnSaved
  <2> QED
    BY <1>1, <2>2, <2>3, <2>4 DEF IInv, AskingKnows, Asking
<1> QED
  BY <1>4, <1>5

-----------------------------------------------------------------------------
(* The steps.                                                              *)

\* The invariant holds initially.
LEMMA InitIInv == Init => IInv
<1> SUFFICES ASSUME Init PROVE IInv
  OBVIOUS
<1>1. TypeOK
  <2>1. <<>> \in Seq(Steps) /\ 0 \in 0 .. MaxTurns
    BY SessionConstants
  <2>2. inst \in Instances
    BY <2>1 DEF Init, Instances, Maybe
  <2>3. [status |-> "unborn", own |-> FALSE, turns |-> 0, saved |-> NoState, sent |-> <<>>] \in Rows
    BY <2>1 DEF Rows, NoState, Maybe
  <2> QED
    BY <2>2, <2>3 DEF Init, TypeOK, Rows
<1>2. FoundMatchesHistory
  BY DEF Init, FoundMatchesHistory
<1>3. OwnSaved
  BY DEF Init, OwnSaved
<1> QED
  BY <1>1, <1>2, <1>3 DEF Init, IInv, AskingKnows, Asking

\* The thread that a session is worked on is as the invariant has it before the answer.
LEMMA BornRow ==
  ASSUME IInv, NEW q \in Requests(Threads), Admits(q), NEW t, t = Session(q)
  PROVE  /\ \A u \in Threads : u # t => Born(q, t)[u] = threads[u]
         /\ t \in Threads =>
            /\ Born(q, t)[t].status = threads[t].status \/ Born(q, t)[t].status = "stored"
            /\ Born(q, t)[t].status = "unborn" => ~Born(q, t)[t].own /\ Born(q, t)[t].sent = <<>> /\ Born(q, t)[t].turns = 0
            /\ Born(q, t)[t].own /\ Born(q, t)[t].status = "stored" =>
                IF Born(q, t)[t].turns = 0 THEN Born(q, t)[t].sent = <<>>
                ELSE /\ Born(q, t)[t].sent # <<>>
                     /\ Born(q, t)[t].saved.history = Born(q, t)[t].sent
                     /\ "request" \in Tells(tool) => Born(q, t)[t].saved.request = t
<1>1. CASE Opens(q)
  <2>1. t \in Unborn /\ Born(q, t) = [threads EXCEPT ![t].status = "stored", ![t].own = TRUE]
    BY <1>1, SessionType DEF Born, IInv
  <2>2. threads[t].sent = <<>> /\ threads[t].turns = 0
    BY <2>1 DEF IInv, OwnSaved, Unborn
  <2> QED
    BY <2>1, <2>2 DEF IInv, TypeOK, Unborn
<1>2. CASE ~Opens(q)
  <2>1. Born(q, t) = threads
    BY <1>2 DEF Born
  <2> QED
    BY <2>1 DEF IInv, OwnSaved, Alive
<1> QED
  BY <1>1, <1>2

\* A step that opens or continues a session but is not answered leaves the threads sound.
LEMMA BornKeepsIInv ==
  ASSUME IInv, NEW q \in Requests(Threads), Admits(q), NEW t, t = Session(q), NEW i, i = Worked(q, t),
         inst' = i, threads' = Born(q, t), UNCHANGED tool
  PROVE  /\ inst' \in Instances /\ threads' \in [Threads -> Rows] /\ FoundMatchesHistory' /\ OwnSaved'
         /\ t \in Threads /\ threads'[t].own => Knows(inst', threads', q, t)
<1>1. /\ i \in Instances /\ i.found = i.history
      /\ t \in Threads /\ Born(q, t)[t].own => Knows(i, Born(q, t), q, t)
  BY WorkedInstance
<1>2. threads' \in [Threads -> Rows]
  BY SessionType DEF IInv
<1>3. FoundMatchesHistory'
  BY <1>1 DEF FoundMatchesHistory
<1>4. OwnSaved'
  <2>1. /\ \A u \in Threads : u # t => threads'[u] = threads[u]
        /\ t \in Threads =>
            /\ threads'[t].status = "unborn" => ~threads'[t].own /\ threads'[t].sent = <<>> /\ threads'[t].turns = 0
            /\ threads'[t].own /\ threads'[t].status = "stored" =>
                IF threads'[t].turns = 0 THEN threads'[t].sent = <<>>
                ELSE /\ threads'[t].sent # <<>>
                     /\ threads'[t].saved.history = threads'[t].sent
                     /\ "request" \in Tells(tool) => threads'[t].saved.request = t
    BY BornRow
  <2>2. Tells(tool)' = Tells(tool) /\ \A u \in Threads : u # t => Alive(u)' = Alive(u)
    BY <2>1 DEF Alive, Tells
  <2>3. \A u \in Threads : Alive(u)' => threads'[u].status = "stored"
    BY DEF Alive
  <2> QED
    BY <2>1, <2>2, <2>3 DEF IInv, OwnSaved
<1> QED
  BY <1>1, <1>2, <1>3, <1>4

\* A step of the tool, answered, handed to the expert, or failed after it was appended.
LEMMA StepKeepsIInv ==
  ASSUME IInv, NEW q \in Requests(Threads), Admits(q), NEW t, t = Session(q), NEW i, i = Worked(q, t),
         StepAnswered(q, t, i) \/ StepAsksExpert(q, t, i) \/ StepFails(q, t, i)
  PROVE  IInv'
<1>1. t \in Maybe /\ q.mode \in {"ask", "precision"} /\ call = Idle
  BY SessionType, RequestType DEF Admits, IInv
<1>2. CASE StepAnswered(q, t, i)
  <2>1. /\ i \in Instances /\ i.found = i.history
        /\ t \in Threads /\ Born(q, t)[t].own => Knows(i, Born(q, t), q, t)
    BY WorkedInstance
  <2>2. Born(q, t) \in [Threads -> Rows]
    BY SessionType DEF IInv
  <2>3. Answered(i, Born(q, t), q, t)
    BY <1>2 DEF StepAnswered
  <2> HIDE DEF Answered
  <2> QED
    BY <1>1, <2>1, <2>2, <2>3, BornRow, AnsweredKeepsIInv
<1>3. CASE StepAsksExpert(q, t, i)
  <2>1. /\ inst' = i /\ threads' = Born(q, t) /\ UNCHANGED tool
        /\ call' = [pc |-> "expert", q |-> Rest(q), thread |-> t, prompt |-> PromptFor(i)]
    BY <1>3 DEF StepAsksExpert
  <2>2. /\ inst' \in Instances /\ threads' \in [Threads -> Rows] /\ FoundMatchesHistory' /\ OwnSaved'
        /\ t \in Threads /\ threads'[t].own => Knows(inst', threads', q, t)
    BY <2>1, BornKeepsIInv
  <2>3. PromptFor(i) \in Prompts
    <3>1. Tells(tool) \subseteq Sections
      BY TellsType, SessionConstants DEF IInv, TypeOK
    <3> QED
      BY <2>1, <2>2, <3>1 DEF PromptFor, Prompts, Instances
  <2>4. TypeOK'
    BY <1>1, <2>1, <2>2, <2>3, RequestType DEF IInv, TypeOK, Calls, Rows
  <2>5. AskingKnows'
    <3>1. call'.thread = t /\ call'.q = Rest(q)
      BY <2>1
    <3>2. Record(Rest(q), t)' = Record(q, t) /\ Tells(tool)' = Tells(tool)
      <4>1. Record(Rest(q), t)' = Record(Rest(q), t) /\ Tells(tool)' = Tells(tool)
        BY <2>1 DEF Record, Tells
      <4> QED
        BY <4>1, RequestType
    <3> QED
      BY <2>1, <2>2, <3>1, <3>2 DEF AskingKnows, Knows, Record
  <2> QED
    BY <2>2, <2>4, <2>5 DEF IInv
<1>4. CASE StepFails(q, t, i)
  <2>1. inst' = i /\ threads' = Born(q, t) /\ UNCHANGED <<tool, call>>
    BY <1>4 DEF StepFails
  <2>2. /\ inst' \in Instances /\ threads' \in [Threads -> Rows] /\ FoundMatchesHistory' /\ OwnSaved'
    BY <2>1, BornKeepsIInv
  <2> QED
    BY <1>1, <2>1, <2>2 DEF IInv, TypeOK, Rows, AskingKnows, Asking
<1> QED
  BY <1>2, <1>3, <1>4

\* The expert's answer is recorded with the history it was asked about.
LEMMA ExpertKeepsIInv ==
  ASSUME IInv, ExpertReturns
  PROVE  IInv'
<1>1. /\ call \in Calls /\ call.thread \in Maybe /\ call.q.mode \in {"ask", "precision"}
      /\ Answered(inst, threads, call.q, call.thread)
  BY DEF ExpertReturns, Asking, IInv, TypeOK, Calls, Rests
<1>2. inst \in Instances /\ inst.found = inst.history /\ threads \in [Threads -> Rows]
  BY DEF IInv, TypeOK, FoundMatchesHistory, Rows
<1>3. call.thread \in Threads =>
        /\ threads[call.thread].status = "stored" /\ threads[call.thread].own =>
                Knows(inst, threads, call.q, call.thread)
        /\ threads[call.thread].status = "unborn" =>
                ~threads[call.thread].own /\ threads[call.thread].sent = <<>> /\ threads[call.thread].turns = 0
        /\ threads[call.thread].own /\ threads[call.thread].status = "stored" =>
                IF threads[call.thread].turns = 0 THEN threads[call.thread].sent = <<>>
                ELSE /\ threads[call.thread].sent # <<>>
                     /\ threads[call.thread].saved.history = threads[call.thread].sent
                     /\ "request" \in Tells(tool) => threads[call.thread].saved.request = call.thread
  BY DEF ExpertReturns, IInv, AskingKnows, OwnSaved, Alive
<1> QED
  BY <1>1, <1>2, <1>3, AnsweredKeepsIInv

\* Other tools and time change threads, but not what the tool has saved in those that live.
LEMMA OthersKeepIInv ==
  ASSUME IInv, NEW t \in Threads, OtherToolAnswers(t) \/ Expire(t)
  PROVE  IInv'
<1>1. UNCHANGED <<tool, inst, call>>
  BY DEF OtherToolAnswers, Expire
<1>2. CASE OtherToolAnswers(t)
  <2>1. threads' = [threads EXCEPT ![t] = [threads[t] EXCEPT !.status = "stored", !.turns = @ + 1]]
    BY <1>2 DEF OtherToolAnswers
  <2>2. threads[t].turns + 1 \in 0 .. MaxTurns /\ threads[t].turns \in Nat
    BY <1>2, SessionConstants DEF OtherToolAnswers, IInv, TypeOK
  <2>3. /\ threads' \in [Threads -> Rows]
        /\ \A u \in Threads \ {t} : threads'[u] = threads[u]
        /\ threads'[t].status = "stored" /\ threads'[t].own = threads[t].own
        /\ threads'[t].turns = threads[t].turns + 1
        /\ threads'[t].saved = threads[t].saved /\ threads'[t].sent = threads[t].sent
    BY <2>1, <2>2 DEF IInv, TypeOK, Rows
  <2>4. t \in Unborn \/ (Alive(t) /\ threads[t].turns # 0)
    BY <1>2, <2>2 DEF OtherToolAnswers, Known
  <2>5. TypeOK'
    BY <1>1, <2>3 DEF IInv, TypeOK, Rows
  <2>6. /\ Tells(tool)' = Tells(tool)
        /\ \A u \in Threads \ {t} : Alive(u)' = Alive(u)
        /\ threads'[t].turns # 0
    BY <1>1, <2>2, <2>3 DEF Alive, Tells
  <2>7. OwnSaved'
    <3>1. CASE t \in Unborn
      <4>1. ~threads[t].own
        BY <3>1 DEF IInv, OwnSaved, Unborn
      <4> QED
        BY <2>3, <2>6, <4>1 DEF IInv, OwnSaved
    <3>2. CASE Alive(t) /\ threads[t].turns # 0
      BY <2>3, <2>6, <3>2 DEF IInv, OwnSaved
    <3> QED
      BY <2>4, <3>1, <3>2
  <2>8. AskingKnows'
    <3> SUFFICES ASSUME Asking, call.thread \in Threads, threads'[call.thread].own, Alive(call.thread)'
                 PROVE  Knows(inst, threads', call.q, call.thread)
      BY <1>1 DEF AskingKnows, Asking, Knows, Record
    <3>1. threads[call.thread].own /\ threads'[call.thread].sent = threads[call.thread].sent
      BY <2>3
    <3>2. Alive(call.thread)
      <4>1. CASE call.thread = t
        <5>1. t \notin Unborn
          BY <3>1, <4>1 DEF IInv, OwnSaved, Unborn
        <5> QED
          BY <2>4, <4>1, <5>1
      <4>2. CASE call.thread # t
        <5>1. threads'[call.thread] = threads[call.thread]
          BY <2>3, <4>2
        <5> QED
          BY <1>1, <5>1 DEF Alive
      <4> QED
        BY <4>1, <4>2
    <3> QED
      BY <3>1, <3>2 DEF IInv, AskingKnows, Knows
  <2> QED
    BY <1>1, <2>5, <2>7, <2>8 DEF IInv, FoundMatchesHistory
<1>3. CASE Expire(t)
  <2>1. NoState \in [history : Seq(Steps), request : Maybe] /\ <<>> \in Seq(Steps)
    BY DEF NoState, Maybe
  <2>2. /\ threads' \in [Threads -> Rows]
        /\ \A u \in Threads \ {t} : threads'[u] = threads[u]
        /\ threads'[t].status = "gone"
    <3>1. threads' = [threads EXCEPT ![t] = [threads[t] EXCEPT !.status = "gone", !.saved = NoState, !.sent = <<>>]]
      BY <1>3 DEF Expire
    <3> HIDE DEF NoState
    <3> QED
      BY <2>1, <3>1, ZenonT(30) DEF IInv, TypeOK, Rows
  <2>3. ~Alive(t)' /\ \A u \in Threads \ {t} : Alive(u)' = Alive(u)
    BY <2>2 DEF Alive
  <2>4. TypeOK'
    BY <1>1, <2>2 DEF IInv, TypeOK, Rows
  <2>5. OwnSaved'
    BY <1>1, <2>2, <2>3 DEF IInv, OwnSaved
  <2>6. AskingKnows'
    BY <1>1, <2>2, <2>3 DEF IInv, AskingKnows, Asking, Knows, Record
  <2> QED
    BY <1>1, <2>4, <2>5, <2>6 DEF IInv, FoundMatchesHistory
<1> QED
  BY <1>2, <1>3

\* Every step keeps the invariant.
LEMMA NextKeepsIInv == IInv /\ [Next]_vars => IInv'
<1> SUFFICES ASSUME IInv, [Next]_vars PROVE IInv'
  OBVIOUS
<1>1. ASSUME NEW s \in Sendable, Admits(s[2]),
             LET q == s[2]
                 t == Session(q)
                 i == Worked(q, t)
             IN  StepAnswered(q, t, i) \/ StepAsksExpert(q, t, i) \/ StepFails(q, t, i)
      PROVE  IInv'
  <2>1. s[2] \in Requests(Threads)
    BY DEF Sendable
  <2> QED
    BY <1>1, <2>1, StepKeepsIInv
<1>2. CASE Cancel
  <2>1. call' = Idle /\ UNCHANGED <<tool, inst, threads>>
    BY <1>2 DEF Cancel
  <2> QED
    BY <2>1 DEF IInv, TypeOK, FoundMatchesHistory, OwnSaved, AskingKnows, Asking, Alive
<1>3. CASE UNCHANGED vars
  BY <1>3 DEF vars, IInv, TypeOK, FoundMatchesHistory, OwnSaved, AskingKnows, Asking, Alive, Knows, Record
<1> QED
  BY <1>1, <1>2, <1>3, ExpertKeepsIInv, OthersKeepIInv DEF Next

-----------------------------------------------------------------------------
(* The theorems.                                                           *)

\* Every variable keeps its type, and no thread outgrows the limit.
THEOREM TypeCorrect == Spec => []TypeOK
<1>1. IInv => TypeOK
  BY DEF IInv
<1> QED
  BY InitIInv, NextKeepsIInv, <1>1, PTL DEF Spec

\* What a tool has consolidated is what its history holds, in every session it takes up again.
THEOREM ConsolidatedFromHistory == Spec => []FoundMatchesHistory
<1>1. IInv => FoundMatchesHistory
  BY DEF IInv
<1> QED
  BY InitIInv, NextKeepsIInv, <1>1, PTL DEF Spec

\* An expert is told every answered step of the session it is asked about, no step of another,
\* and the request that the session began with, for any number of sessions and steps.
THEOREM ExpertIsTold == Spec => ExpertKnowsItsSession
<1> DEFINE A == ~Asking /\ Asking' /\ call'.thread \in Threads /\ threads'[call'.thread].own =>
                  /\ call'.prompt.found = Append(threads'[call'.thread].sent, Record(call'.q, call'.thread))
                  /\ "request" \in Tells(tool) => call'.prompt.request = call'.thread
<1>1. IInv /\ [Next]_vars => [A]_vars
  <2> SUFFICES ASSUME IInv, Next, ~Asking, Asking', call'.thread \in Threads, threads'[call'.thread].own
               PROVE  /\ call'.prompt.found = Append(threads'[call'.thread].sent, Record(call'.q, call'.thread))
                      /\ "request" \in Tells(tool) => call'.prompt.request = call'.thread
    OBVIOUS
  <2>1. PICK s \in Sendable : Admits(s[2]) /\ StepAsksExpert(s[2], Session(s[2]), Worked(s[2], Session(s[2])))
    BY DEF Next, Asking, ExpertReturns, Cancel, OtherToolAnswers, Expire, StepFails, StepAnswered, Answered
  <2> DEFINE q == s[2]
             t == Session(q)
             i == Worked(q, t)
  <2>2. q \in Requests(Threads)
    BY DEF Sendable
  <2>3. /\ threads' = Born(q, t)
        /\ call' = [pc |-> "expert", q |-> Rest(q), thread |-> t, prompt |-> PromptFor(i)]
    BY <2>1 DEF StepAsksExpert
  <2> HIDE DEF i
  <2>4. /\ i \in Instances /\ i.found = i.history
        /\ t \in Threads /\ Born(q, t)[t].own => Knows(i, Born(q, t), q, t)
    BY <2>1, <2>2, WorkedInstance DEF i
  <2>5. call'.thread = t /\ call'.q = Rest(q) /\ call'.prompt.found = i.found /\ call'.prompt.request = i.request
    BY <2>3 DEF PromptFor
  <2>6. Record(Rest(q), t) = Record(q, t)
    BY <2>2, RequestType
  <2> QED
    BY <2>3, <2>4, <2>5, <2>6 DEF Knows
<1>2. Spec => [][A]_vars
  BY InitIInv, NextKeepsIInv, <1>1, PTL DEF Spec
<1> QED
  BY <1>2 DEF ExpertKnowsItsSession

-----------------------------------------------------------------------------
(* The hooks.                                                              *)

\* Every tool but thinkdeep looks at use_assistant_model before it calls the expert.
LEMMA ExpertIsWanted ==
  ASSUME NEW q, NEW f, tool # "thinkdeep", CallsExpert(tool, q, f)
  PROVE  q.assist
<1>1. tool \in {"debug", "codereview", "precommit", "secaudit", "refactor", "analyze", "testgen"}
  BY DEF CallsExpert
<1>2. CASE tool = "debug"
  BY <1>2 DEF CallsExpert, DebugCalls
<1>3. CASE tool = "codereview"
  BY <1>3 DEF CallsExpert, CodereviewCalls
<1>4. CASE tool = "precommit"
  BY <1>4 DEF CallsExpert, PrecommitCalls
<1>5. CASE tool = "secaudit"
  BY <1>5 DEF CallsExpert, SecauditCalls
<1>6. CASE tool = "refactor"
  BY <1>6 DEF CallsExpert, RefactorCalls
<1>7. CASE tool = "analyze"
  BY <1>7 DEF CallsExpert, AnalyzeCalls
<1>8. CASE tool = "testgen"
  BY <1>8 DEF CallsExpert, TestgenCalls
<1> QED
  BY <1>1, <1>2, <1>3, <1>4, <1>5, <1>6, <1>7, <1>8

\* The table of the actions and that of the guidance, tool by tool: they pick the same phase but
\* where the tool's two tables are known to be apart.
LEMMA TablesAgree ==
  ASSUME NEW q \in Tabled, NEW mode, tool \in AllTools, ~(q.conf = "null" /\ tool = "thinkdeep")
  PROVE  Actions(tool, q, mode) = Guidance(tool, q, mode) <=> ~Apart(tool, q)
<1> DEFINE c == [q EXCEPT !.conf = Assumed(tool, q)]
           a == Assumed(tool, q)
<1>1. /\ q.step \in Nat \ {0} /\ q.total \in Nat \ {0} /\ q.more = TRUE /\ q.much \in BOOLEAN
      /\ q.conf \in MaybeConfidences \union RefactorConfidences
  BY SessionConstants DEF Tabled
<1>2. /\ c.step = q.step /\ c.total = q.total /\ c.more = q.more /\ c.much = q.much /\ c.kind = q.kind
      /\ c.thread = q.thread /\ c.conf = a
  BY DEF Tabled
<1> HIDE DEF c
<1>3. a = IF q.conf # "null" THEN q.conf ELSE IF tool = "tracer" THEN "exploring" ELSE "low"
  BY DEF Assumed
<1> HIDE DEF a
<1>4. CASE tool = "debug"
  <2>1. Actions(tool, q, mode) = DebugActions(c) /\ Guidance(tool, q, mode) = DebugGuidance(q)
    BY <1>4 DEF Actions, Guidance, c
  <2>2. DebugActions(c) = DebugGuidance(q) <=> ~Apart(tool, q)
    BY <1>1, <1>2, <1>3, <1>4 DEF DebugActions, DebugGuidance, Apart, ByConfidence
  <2> QED
    BY <2>1, <2>2
<1>5. CASE tool = "codereview"
  <2>1. Actions(tool, q, mode) = CodereviewActions(c) /\ Guidance(tool, q, mode) = CodereviewGuidance(q)
    BY <1>5 DEF Actions, Guidance, c
  <2>2. CodereviewActions(c) = CodereviewGuidance(q) <=> ~Apart(tool, q)
    BY <1>1, <1>2, <1>3, <1>5 DEF CodereviewActions, CodereviewGuidance, Apart, FastTrack, TooEarly
  <2> QED
    BY <2>1, <2>2
<1>6. CASE tool = "precommit"
  <2>1. Actions(tool, q, mode) = PrecommitActions(c) /\ Guidance(tool, q, mode) = PrecommitGuidance(q)
    BY <1>6 DEF Actions, Guidance, c
  <2>2. PrecommitActions(c) = PrecommitGuidance(q) <=> ~Apart(tool, q)
    BY <1>1, <1>2, <1>3, <1>6 DEF PrecommitActions, PrecommitGuidance, Apart, FastTrack, TooEarly
  <2> QED
    BY <2>1, <2>2
<1>7. CASE tool = "secaudit"
  <2>1. Actions(tool, q, mode) = SecauditActions(c) /\ Guidance(tool, q, mode) = SecauditGuidance(q)
    BY <1>7 DEF Actions, Guidance, c
  <2>2. SecauditActions(c) = SecauditGuidance(q) <=> ~Apart(tool, q)
    BY <1>1, <1>2, <1>3, <1>7 DEF SecauditActions, SecauditGuidance, Apart, ByConfidence
  <2> QED
    BY <2>1, <2>2
<1>8. CASE tool = "refactor"
  <2>1. Actions(tool, q, mode) = RefactorActions(c) /\ Guidance(tool, q, mode) = RefactorGuidance(q)
    BY <1>8 DEF Actions, Guidance, c
  <2>2. RefactorActions(c) = RefactorGuidance(q) <=> ~Apart(tool, q)
    BY <1>1, <1>2, <1>3, <1>8 DEF RefactorActions, RefactorGuidance, Apart, ByConfidence
  <2> QED
    BY <2>1, <2>2
<1>9. CASE tool = "analyze"
  <2>1. Actions(tool, q, mode) = AnalyzeActions(c) /\ Guidance(tool, q, mode) = AnalyzeGuidance(q)
    BY <1>9 DEF Actions, Guidance, c
  <2>2. AnalyzeActions(c) = AnalyzeGuidance(q) <=> ~Apart(tool, q)
    BY <1>1, <1>2, <1>3, <1>9 DEF AnalyzeActions, AnalyzeGuidance, Apart, ByStep
  <2> QED
    BY <2>1, <2>2
<1>10. CASE tool = "testgen"
  <2>1. Actions(tool, q, mode) = TestgenActions(c) /\ Guidance(tool, q, mode) = TestgenGuidance(q)
    BY <1>10 DEF Actions, Guidance, c
  <2>2. TestgenActions(c) = TestgenGuidance(q) <=> ~Apart(tool, q)
    BY <1>1, <1>2, <1>3, <1>10 DEF TestgenActions, TestgenGuidance, Apart, ByConfidence
  <2> QED
    BY <2>1, <2>2
<1>11. CASE tool = "thinkdeep"
  <2>1. Actions(tool, q, mode) = ThinkdeepActions(c) /\ Guidance(tool, q, mode) = ThinkdeepGuidance(q)
    BY <1>11 DEF Actions, Guidance, c
  <2>2. ThinkdeepActions(c) = ThinkdeepGuidance(q) <=> ~Apart(tool, q)
    BY <1>1, <1>2, <1>3, <1>11 DEF ThinkdeepActions, ThinkdeepGuidance, Apart, Confidences, MaybeConfidences, RefactorConfidences
  <2> QED
    BY <2>1, <2>2
<1>12. CASE tool = "docgen"
  <2>1. Actions(tool, q, mode) = DocgenActions(c) /\ Guidance(tool, q, mode) = DocgenGuidance(q)
    BY <1>12 DEF Actions, Guidance, c
  <2>2. DocgenActions(c) = DocgenGuidance(q) <=> ~Apart(tool, q)
    BY <1>1, <1>2, <1>3, <1>12 DEF DocgenActions, DocgenGuidance, Apart
  <2> QED
    BY <2>1, <2>2
<1>13. CASE tool = "planner"
  <2>1. Actions(tool, q, mode) = PlannerActions(c) /\ Guidance(tool, q, mode) = PlannerGuidance(q)
    BY <1>13 DEF Actions, Guidance, c
  <2>2. PlannerActions(c) = PlannerGuidance(q) <=> ~Apart(tool, q)
    BY <1>1, <1>2, <1>3, <1>13 DEF PlannerActions, PlannerGuidance, Apart
  <2> QED
    BY <2>1, <2>2
<1>14. CASE tool = "tracer"
  <2>1. Actions(tool, q, mode) = TracerActions(c, mode) /\ Guidance(tool, q, mode) = TracerGuidance(q, mode)
    BY <1>14 DEF Actions, Guidance, c
  <2>2. TracerActions(c, mode) = TracerGuidance(q, mode) <=> ~Apart(tool, q)
    BY <1>1, <1>2, <1>3, <1>14 DEF TracerActions, TracerGuidance, Apart, ByConfidence
  <2> QED
    BY <2>1, <2>2
<1> QED
  BY <1>4, <1>5, <1>6, <1>7, <1>8, <1>9, <1>10, <1>11, <1>12, <1>13, <1>14 DEF AllTools

\* A call that waits for the expert wanted one, whatever happens to its session meanwhile; and in
\* each of the eleven tools actions and guidance are for the same phase exactly where Apart says
\* nothing else, for every step number, total and confidence (get_required_actions and
\* get_step_guidance_message of the tools, should_call_expert_analysis).
THEOREM HooksGoTogether == Spec => []HooksAgree
<1>1. Init => ExpertOnlyWhenWanted
  BY DEF Init, ExpertOnlyWhenWanted, Asking
<1>2. ExpertOnlyWhenWanted /\ [Next]_vars => ExpertOnlyWhenWanted'
  <2> SUFFICES ASSUME ExpertOnlyWhenWanted, [Next]_vars PROVE ExpertOnlyWhenWanted'
    OBVIOUS
  <2>1. ASSUME NEW q, NEW t, NEW i, StepAsksExpert(q, t, i) PROVE ExpertOnlyWhenWanted'
    <3>1. call'.q.assist = q.assist /\ tool' = tool
      BY <2>1 DEF StepAsksExpert, Rest
    <3>2. CallsExpert(tool, q, Found(i))
      BY <2>1 DEF StepAsksExpert, Ends
    <3> QED
      BY <3>1, <3>2, ExpertIsWanted DEF ExpertOnlyWhenWanted
  <2>2. CASE call' = Idle
    BY <2>2 DEF ExpertOnlyWhenWanted, Asking
  <2>3. CASE call' = call /\ tool' = tool
    BY <2>3 DEF ExpertOnlyWhenWanted, Asking
  <2>4. ASSUME NEW q, NEW t, NEW i,
               StepAnswered(q, t, i) \/ StepAsksExpert(q, t, i) \/ StepFails(q, t, i)
        PROVE  ExpertOnlyWhenWanted'
    BY <2>1, <2>2, <2>3, <2>4 DEF StepAnswered, StepFails, Answered
  <2>5. CASE ExpertReturns \/ Cancel
    BY <2>2, <2>5 DEF ExpertReturns, Cancel, Answered
  <2>6. ASSUME NEW t \in Threads, OtherToolAnswers(t) \/ Expire(t) PROVE ExpertOnlyWhenWanted'
    BY <2>3, <2>6 DEF OtherToolAnswers, Expire
  <2>7. CASE UNCHANGED vars
    BY <2>3, <2>7 DEF vars
  <2> QED
    BY <2>4, <2>5, <2>6, <2>7 DEF Next
<1>3. TypeOK => ActionsAgree
  BY TablesAgree, SessionConstants DEF TypeOK, ActionsAgree
<1> QED
  BY <1>1, <1>2, <1>3, TypeCorrect, PTL DEF Spec, HooksAgree

-----------------------------------------------------------------------------
(* Sessions are logs.                                                      *)

\* What a thread that the tool opened has saved is of its own session, and no longer than its
\* turns are many.
OwnLog(row, t) ==
    /\ row.turns = 0 => row.saved.history = <<>>
    /\ row.own /\ row.status = "stored" =>
        /\ Len(row.saved.history) <= row.turns
        /\ \A i \in DOMAIN row.saved.history : row.saved.history[i].of = t
LoggedSessions == \A t \in Threads : OwnLog(threads[t], t)

\* What a step may do to the session of thread t.
SameSession(t) == SessionPhase(t)' = SessionPhase(t) /\ SessionSteps(t)' = SessionSteps(t)
Opened(t) ==
    /\ SessionPhase(t) = "unborn" /\ SessionPhase(t)' \in {"open", "foreign"}
    /\ SessionSteps(t)' = SessionSteps(t)
StepLogged(t) ==
    /\ SessionPhase(t) \in {"unborn", "open"} /\ SessionPhase(t)' = "open"
    /\ Len(SessionSteps(t)) < MaxTurns
    /\ SessionSteps(t)' = Append(SessionSteps(t), t)
Forgotten(t) ==
    SessionPhase(t) = "open" /\ SessionPhase(t)' = "closed" /\ SessionSteps(t)' = <<>>

\* One of these in one thread, and nothing in the others, is a step of the abstract sessions.
LEMMA OneThreadMoves ==
  ASSUME NEW t \in Threads, \A u \in Threads : u # t => SameSession(u),
         SameSession(t) \/ Opened(t) \/ StepLogged(t) \/ Forgotten(t)
  PROVE  [Sessions!Next]_<<SessionPhases, SessionLogs>>
<1> DEFINE phases == SessionPhases
           logs == SessionLogs
<1>1. /\ logs = [u \in Threads |-> SessionSteps(u)] /\ phases = [u \in Threads |-> SessionPhase(u)]
      /\ phases' = [u \in Threads |-> SessionPhase(u)'] /\ logs' = [u \in Threads |-> SessionSteps(u)']
  BY DEF SessionPhases, SessionLogs
<1>2. /\ phases' = [phases EXCEPT ![t] = SessionPhase(t)'] /\ phases[t] = SessionPhase(t)
      /\ logs' = [logs EXCEPT ![t] = SessionSteps(t)'] /\ logs[t] = SessionSteps(t)
  BY <1>1 DEF SameSession
<1>3. CASE SameSession(t)
  BY <1>1, <1>3 DEF SameSession, SessionPhases, SessionLogs
<1>4. CASE Opened(t)
  <2>1. logs' = logs
    BY <1>1, <1>4 DEF Opened, SameSession
  <2>2. Sessions!Open(t) \/ Sessions!OpenElsewhere(t)
    BY <1>2, <1>4, <2>1 DEF Opened, Sessions!Open, Sessions!OpenElsewhere, SessionPhases, SessionLogs
  <2> QED
    BY <2>2 DEF Sessions!Next
<1>5. CASE StepLogged(t)
  <2>1. Sessions!Answer(t)
    BY <1>2, <1>5 DEF StepLogged, Sessions!Answer, SessionPhases, SessionLogs
  <2> QED
    BY <2>1 DEF Sessions!Next
<1>6. CASE Forgotten(t)
  <2>1. Sessions!Forget(t)
    BY <1>2, <1>6 DEF Forgotten, Sessions!Forget, SessionPhases, SessionLogs
  <2> QED
    BY <2>1 DEF Sessions!Next
<1> QED
  BY <1>3, <1>4, <1>5, <1>6

\* A thread whose row stays keeps its session.
LEMMA SameRowSameSession ==
  ASSUME NEW t, threads'[t] = threads[t]
  PROVE  SameSession(t)
  BY DEF SameSession, SessionPhase, SessionSteps

\* Of whose session the steps are, before and after an append.
LEMMA OneMoreStep ==
  ASSUME NEW h \in Seq(Steps), NEW e \in Steps
  PROVE  LET whose == [j \in DOMAIN h |-> h[j].of]
             longer == Append(h, e)
         IN  /\ [j \in DOMAIN longer |-> longer[j].of] = Append(whose, e.of)
             /\ Len(whose) = Len(h) /\ Len(longer) = Len(h) + 1 /\ Len(h) \in Nat
             /\ \A j \in DOMAIN longer : longer[j] = e \/ (j \in DOMAIN h /\ longer[j] = h[j])
<1> DEFINE whose == [j \in DOMAIN h |-> h[j].of]
           longer == Append(h, e)
           n == Len(h)
<1>1. /\ n \in Nat /\ DOMAIN h = 1 .. n /\ (\A j \in 1 .. n : h[j].of \in Maybe) /\ e.of \in Maybe
  <2>1. n \in Nat /\ DOMAIN h = 1 .. n
    BY LenProperties
  <2>2. \A j \in 1 .. n : h[j] \in Steps
    BY ElementOfSeq
  <2> QED
    BY <2>1, <2>2 DEF Steps
<1>2. /\ longer \in Seq(Steps) /\ Len(longer) = n + 1 /\ DOMAIN longer = 1 .. n + 1
      /\ (\A j \in 1 .. n : longer[j] = h[j]) /\ longer[n + 1] = e
  <2>1. longer \in Seq(Steps) /\ Len(longer) = n + 1
        /\ (\A j \in 1 .. n : longer[j] = h[j]) /\ longer[n + 1] = e
    BY AppendProperties
  <2> HIDE DEF longer
  <2>2. DOMAIN longer = 1 .. Len(longer)
    BY <2>1, LenProperties
  <2> QED
    BY <2>1, <2>2
<1>3. whose \in Seq(Maybe) /\ Len(whose) = n
  <2> HIDE DEF n
  <2>1. whose = [j \in 1 .. n |-> h[j].of]
    BY <1>1
  <2> QED
    BY <1>1, <2>1
<1>4. /\ Append(whose, e.of) \in Seq(Maybe) /\ Len(Append(whose, e.of)) = n + 1
      /\ (\A j \in 1 .. n : Append(whose, e.of)[j] = whose[j]) /\ Append(whose, e.of)[n + 1] = e.of
  BY <1>1, <1>3, AppendProperties
<1>5. \A j \in 1 .. n + 1 : j \in 1 .. n \/ j = n + 1
  BY <1>1
<1> DEFINE left == [j \in DOMAIN longer |-> longer[j].of]
<1> HIDE DEF n, longer
<1>6. \A j \in 1 .. n + 1 : left[j] = Append(whose, e.of)[j]
  BY <1>1, <1>2, <1>4, <1>5
<1> QED
  BY <1>1, <1>2, <1>3, <1>4, <1>5, <1>6 DEF n, longer

\* A step that opens a session at most logs nothing.
LEMMA BornIsOpened ==
  ASSUME IInv, LoggedSessions, NEW t \in Maybe,
         \A u \in Threads : u # t => threads'[u] = threads[u],
         t \in Threads =>
             \/ threads'[t] = threads[t]
             \/ /\ threads[t].status = "unborn"
                /\ threads'[t] = [threads[t] EXCEPT !.status = "stored", !.own = TRUE]
  PROVE  LoggedSessions' /\ [Sessions!Next]_<<SessionPhases, SessionLogs>>
<1>1. CASE t \in Threads /\ threads'[t] # threads[t]
  <2>1. /\ threads[t].status = "unborn" /\ ~threads[t].own /\ threads[t].turns = 0
        /\ threads[t].saved.history = <<>>
        /\ threads'[t] = [threads[t] EXCEPT !.status = "stored", !.own = TRUE]
    BY <1>1 DEF IInv, OwnSaved, LoggedSessions, OwnLog
  <2>2. /\ threads'[t].status = "stored" /\ threads'[t].own /\ threads'[t].turns = 0
        /\ threads'[t].saved = threads[t].saved
    BY <1>1, <2>1 DEF IInv, TypeOK
  <2>3. SessionSteps(t) = <<>> /\ SessionSteps(t)' = <<>>
    BY <2>1, <2>2 DEF SessionSteps
  <2>4. Opened(t)
    BY <2>1, <2>2, <2>3 DEF Opened, SessionPhase
  <2>5. OwnLog(threads'[t], t)
    BY <2>1, <2>2 DEF OwnLog
  <2>6. \A u \in Threads : u # t => SameSession(u)
    BY SameRowSameSession
  <2> QED
    BY <1>1, <2>4, <2>5, <2>6, OneThreadMoves DEF LoggedSessions
<1>2. CASE ~(t \in Threads /\ threads'[t] # threads[t])
  <2>1. \A u \in Threads : threads'[u] = threads[u]
    BY <1>2
  <2>2. SessionPhases' = SessionPhases /\ SessionLogs' = SessionLogs
    BY <2>1 DEF SessionPhases, SessionLogs, SessionPhase, SessionSteps
  <2> QED
    BY <2>1, <2>2 DEF LoggedSessions
<1> QED
  BY <1>1, <1>2

\* The threads as they are when a call is answered: as before the call, or with the session that it
\* opened, of which the instance i knows.
Brings(i, ths, q, t) ==
    /\ \A u \in Threads : u # t => ths[u] = threads[u]
    /\ t \in Threads =>
            \/ ths[t] = threads[t]
            \/ /\ threads[t].status = "unborn"
               /\ ths[t] = [threads[t] EXCEPT !.status = "stored", !.own = TRUE]
    /\ t \in Threads /\ ths[t].status = "stored" /\ ths[t].own => Knows(i, ths, q, t)

\* An answer logs the step in the session of its call, if the thread takes it.
LEMMA AnswerIsLogged ==
  ASSUME IInv, LoggedSessions, NEW i \in Instances, NEW ths \in [Threads -> Rows],
         NEW q, q.mode \in {"ask", "precision"}, NEW t \in Maybe,
         Brings(i, ths, q, t), Answered(i, ths, q, t)
  PROVE  LoggedSessions' /\ [Sessions!Next]_<<SessionPhases, SessionLogs>>
<1> DEFINE after == Customized(i, q, t)
           h == threads[t].saved.history
           e == Record(q, t)
<1>1. threads' = Stored(ths, after, q, t) /\ after.history = i.history
  BY CustomizedInstance DEF Answered
<1>2. e \in Steps /\ e.of = t
  BY RecordType DEF Record
<1> HIDE DEF after, e
<1>3. CASE ~(t \in Threads /\ ths[t].status = "stored" /\ ths[t].turns < MaxTurns)
  <2>1. threads' = ths
    BY <1>1, <1>3 DEF Stored
  <2> QED
    BY <2>1, BornIsOpened DEF Brings
<1>4. CASE t \in Threads /\ ths[t].status = "stored" /\ ths[t].turns < MaxTurns
  <2>1. /\ \A u \in Threads : u # t => threads'[u] = threads[u]
        /\ threads'[t].status = "stored" /\ threads'[t].own = ths[t].own
        /\ threads'[t].turns = ths[t].turns + 1 /\ threads'[t].saved.history = i.history
    BY <1>1, <1>4 DEF Stored, Rows, Brings
  <2>2. \A u \in Threads : u # t => SameSession(u)
    BY <2>1, SameRowSameSession
  <2>3. /\ threads[t] \in Rows /\ ths[t].turns = threads[t].turns /\ ths[t].sent = threads[t].sent
        /\ ths[t].turns \in Nat /\ threads'[t].turns # 0 /\ h \in Seq(Steps)
    <3>1. threads[t] \in Rows
      BY <1>4 DEF IInv, TypeOK, Rows
    <3>2. ths[t].turns = threads[t].turns /\ ths[t].sent = threads[t].sent
      BY <1>4, <3>1 DEF Rows, Brings
    <3>3. ths[t].turns \in Nat /\ threads'[t].turns # 0
      BY <1>4, <2>1, <3>1, <3>2, SessionConstants DEF Rows
    <3>4. h \in Seq(Steps)
      BY <3>1 DEF Rows
    <3> QED
      BY <3>1, <3>2, <3>3, <3>4
  <2>4. CASE ~ths[t].own
    <3>1. ths[t] = threads[t]
      BY <1>4, <2>3, <2>4 DEF Rows, Brings
    <3>2. SameSession(t)
      BY <1>4, <2>1, <2>4, <3>1 DEF SameSession, SessionPhase, SessionSteps
    <3>3. OwnLog(threads'[t], t)
      BY <2>1, <2>3, <2>4 DEF OwnLog
    <3> QED
      BY <1>4, <2>1, <2>2, <3>2, <3>3, OneThreadMoves DEF LoggedSessions
  <2>5. CASE ths[t].own
    <3>1. /\ threads[t].status = "unborn" => ~threads[t].own /\ h = <<>> /\ threads[t].sent = <<>>
                                            /\ threads[t].turns = 0
          /\ threads[t].status # "unborn" => threads[t].own /\ Alive(t)
      <4>1. threads[t].status = "unborn" => ~threads[t].own /\ h = <<>> /\ threads[t].sent = <<>>
                                            /\ threads[t].turns = 0
        BY <1>4 DEF IInv, OwnSaved, LoggedSessions, OwnLog
      <4>2. ASSUME threads[t].status # "unborn" PROVE threads[t].own /\ Alive(t)
        <5>1. ths[t] = threads[t]
          BY <1>4, <4>2 DEF Brings
        <5> QED
          BY <1>4, <2>5, <5>1 DEF Alive
      <4> QED
        BY <4>1, <4>2
    <3>2. threads[t].sent = h
      BY <1>4, <3>1 DEF IInv, OwnSaved, LoggedSessions, OwnLog
    <3>3. i.history = Append(h, e)
      BY <1>4, <2>3, <2>5, <3>2 DEF Knows, e, Brings
    <3>4. Len(h) <= threads[t].turns /\ \A j \in DOMAIN h : h[j].of = t
      <4>1. CASE threads[t].status = "unborn"
        BY <3>1, <4>1
      <4>2. CASE threads[t].status # "unborn"
        BY <1>4, <3>1, <4>2 DEF LoggedSessions, OwnLog, Alive
      <4> QED
        BY <4>1, <4>2
    <3> DEFINE whose == [j \in DOMAIN h |-> h[j].of]
    <3>5. SessionSteps(t) = whose
      <4>1. CASE threads[t].status = "unborn"
        BY <3>1, <4>1 DEF SessionSteps
      <4>2. CASE threads[t].status # "unborn"
        BY <3>1, <4>2 DEF SessionSteps
      <4> QED
        BY <4>1, <4>2
    <3> DEFINE longer == Append(h, e)
    <3>6. SessionSteps(t)' = [j \in DOMAIN longer |-> longer[j].of]
      BY <2>1, <2>5, <3>3 DEF SessionSteps
    <3>7. /\ [j \in DOMAIN longer |-> longer[j].of] = Append(whose, t)
          /\ Len(whose) = Len(h) /\ Len(longer) = Len(h) + 1 /\ Len(h) \in Nat
          /\ \A j \in DOMAIN longer : longer[j] = e \/ (j \in DOMAIN h /\ longer[j] = h[j])
      BY <1>2, <2>3, OneMoreStep
    <3> HIDE DEF whose, longer, h
    <3>8. SessionPhase(t) \in {"unborn", "open"} /\ SessionPhase(t)' = "open"
      BY <2>1, <2>5, <3>1 DEF SessionPhase, Alive
    <3>9. StepLogged(t)
      <4>1. Len(whose) < MaxTurns
        BY <1>4, <2>3, <3>4, <3>7, SessionConstants
      <4> QED
        BY <3>5, <3>6, <3>7, <3>8, <4>1 DEF StepLogged
    <3>10. OwnLog(threads'[t], t)
      <4>1. threads'[t].saved.history = longer /\ Len(longer) <= threads'[t].turns
        BY <2>1, <2>3, <3>3, <3>4, <3>7 DEF longer
      <4>2. \A j \in DOMAIN longer : longer[j].of = t
        BY <1>2, <3>4, <3>7
      <4> QED
        BY <2>3, <4>1, <4>2 DEF OwnLog
    <3> QED
      BY <1>4, <2>1, <2>2, <3>9, <3>10, OneThreadMoves DEF LoggedSessions
  <2> QED
    BY <2>4, <2>5
<1> QED
  BY <1>3, <1>4

\* A step of the tool opens a session, or logs its step.
LEMMA StepIsAbstract ==
  ASSUME IInv, LoggedSessions, NEW q \in Requests(Threads), Admits(q), NEW t, t = Session(q),
         NEW i, i = Worked(q, t),
         StepAnswered(q, t, i) \/ StepAsksExpert(q, t, i) \/ StepFails(q, t, i)
  PROVE  LoggedSessions' /\ [Sessions!Next]_<<SessionPhases, SessionLogs>>
<1> DEFINE ths == Born(q, t)
<1>1. t \in Maybe /\ q.mode \in {"ask", "precision"} /\ ths \in [Threads -> Rows]
  BY SessionType, RequestType DEF IInv
<1>2. /\ \A u \in Threads : u # t => ths[u] = threads[u]
      /\ t \in Threads =>
             \/ ths[t] = threads[t]
             \/ /\ threads[t].status = "unborn"
                /\ ths[t] = [threads[t] EXCEPT !.status = "stored", !.own = TRUE]
  <2>1. CASE Opens(q)
    <3>1. t \in Unborn /\ ths = [threads EXCEPT ![t] = [threads[t] EXCEPT !.status = "stored", !.own = TRUE]]
      BY <2>1, SessionType DEF Born, IInv
    <3> QED
      BY <3>1 DEF IInv, TypeOK, Unborn
  <2>2. CASE ~Opens(q)
    BY <2>2 DEF Born
  <2> QED
    BY <2>1, <2>2
<1>3. CASE StepAnswered(q, t, i)
  <2>1. /\ i \in Instances
        /\ t \in Threads /\ Born(q, t)[t].own => Knows(i, Born(q, t), q, t)
    BY WorkedInstance
  <2>2. Answered(i, ths, q, t)
    BY <1>3 DEF StepAnswered
  <2>3. Brings(i, ths, q, t)
    BY <1>2, <2>1 DEF Brings
  <2> QED
    BY <1>1, <2>1, <2>2, <2>3, AnswerIsLogged
<1>4. CASE StepAsksExpert(q, t, i) \/ StepFails(q, t, i)
  <2>1. threads' = ths
    BY <1>4 DEF StepAsksExpert, StepFails
  <2> QED
    BY <1>1, <1>2, <2>1, BornIsOpened
<1> QED
  BY <1>3, <1>4

\* Every step keeps what a thread holds its own, and maps to one of the abstract sessions, or none.
LEMMA StepsAreAbstract ==
  IInv /\ LoggedSessions /\ [Next]_vars => LoggedSessions' /\ [Sessions!Next]_<<SessionPhases, SessionLogs>>
<1> DEFINE Abstract == LoggedSessions' /\ [Sessions!Next]_<<SessionPhases, SessionLogs>>
<1> SUFFICES ASSUME IInv, LoggedSessions, [Next]_vars PROVE Abstract
  OBVIOUS
<1>1. ASSUME NEW s \in Sendable, Admits(s[2]),
             LET q == s[2]
                 t == Session(q)
                 i == Worked(q, t)
             IN  StepAnswered(q, t, i) \/ StepAsksExpert(q, t, i) \/ StepFails(q, t, i)
      PROVE  Abstract
  <2>1. s[2] \in Requests(Threads)
    BY DEF Sendable
  <2> QED
    BY <1>1, <2>1, StepIsAbstract
<1>2. CASE ExpertReturns
  <2>1. /\ call \in Calls /\ call.thread \in Maybe /\ call.q.mode \in {"ask", "precision"}
        /\ Answered(inst, threads, call.q, call.thread)
    BY <1>2 DEF ExpertReturns, Asking, IInv, TypeOK, Calls, Rests
  <2>2. inst \in Instances /\ threads \in [Threads -> Rows]
    BY DEF IInv, TypeOK, Rows
  <2>3. Brings(inst, threads, call.q, call.thread)
    BY <1>2 DEF ExpertReturns, IInv, AskingKnows, Alive, Brings
  <2> QED
    BY <2>1, <2>2, <2>3, AnswerIsLogged
<1>3. CASE Cancel \/ UNCHANGED vars
  <2>1. threads' = threads
    BY <1>3 DEF Cancel, vars
  <2>2. SessionPhases' = SessionPhases /\ SessionLogs' = SessionLogs
    BY <2>1 DEF SessionPhases, SessionLogs, SessionPhase, SessionSteps
  <2> QED
    BY <2>1, <2>2 DEF LoggedSessions
<1>4. ASSUME NEW t \in Threads, OtherToolAnswers(t) PROVE Abstract
  <2>1. threads' = [threads EXCEPT ![t] = [threads[t] EXCEPT !.status = "stored", !.turns = @ + 1]]
    BY <1>4 DEF OtherToolAnswers
  <2>2. threads[t].turns \in Nat /\ Len(threads[t].saved.history) \in Nat
    BY <1>4, SessionConstants DEF IInv, TypeOK
  <2>3. /\ \A u \in Threads : u # t => threads'[u] = threads[u]
        /\ threads'[t].status = "stored" /\ threads'[t].own = threads[t].own
        /\ threads'[t].turns = threads[t].turns + 1 /\ threads'[t].turns # 0
        /\ threads'[t].saved = threads[t].saved
    BY <2>1, <2>2 DEF IInv, TypeOK
  <2>4. \A u \in Threads : u # t => SameSession(u)
    BY <2>3, SameRowSameSession
  <2>5. threads[t].status = "unborn" \/ threads[t].status = "stored"
    BY <1>4 DEF OtherToolAnswers, Unborn, Alive
  <2>6. CASE threads[t].status = "unborn"
    <3>1. ~threads[t].own
      BY <1>4, <2>6 DEF IInv, OwnSaved
    <3>2. Opened(t)
      BY <2>3, <2>6, <3>1 DEF Opened, SessionPhase, SessionSteps
    <3>3. OwnLog(threads'[t], t)
      BY <2>3, <3>1 DEF OwnLog
    <3> QED
      BY <1>4, <2>3, <2>4, <3>2, <3>3, OneThreadMoves DEF LoggedSessions
  <2>7. CASE threads[t].status = "stored"
    <3>1. SameSession(t)
      BY <2>3, <2>7 DEF SameSession, SessionPhase, SessionSteps
    <3>2. OwnLog(threads'[t], t)
      <4>1. OwnLog(threads[t], t)
        BY <1>4 DEF LoggedSessions
      <4> QED
        BY <2>2, <2>3, <2>7, <4>1 DEF OwnLog
    <3> QED
      BY <1>4, <2>3, <2>4, <3>1, <3>2, OneThreadMoves DEF LoggedSessions
  <2> QED
    BY <2>5, <2>6, <2>7
<1>5. ASSUME NEW t \in Threads, Expire(t) PROVE Abstract
  <2>1. /\ threads' = [threads EXCEPT ![t] = [threads[t] EXCEPT !.status = "gone", !.saved = NoState, !.sent = <<>>]]
        /\ threads[t].status = "stored"
    BY <1>5 DEF Expire, Alive
  <2>2. /\ \A u \in Threads : u # t => threads'[u] = threads[u]
        /\ threads'[t].status = "gone" /\ threads'[t].own = threads[t].own
        /\ threads'[t].saved.history = <<>>
    BY <1>5, <2>1 DEF IInv, TypeOK, NoState
  <2>3. \A u \in Threads : u # t => SameSession(u)
    BY <2>2, SameRowSameSession
  <2>4. OwnLog(threads'[t], t)
    BY <2>2 DEF OwnLog
  <2>5. SessionSteps(t)' = <<>>
    BY <2>2 DEF SessionSteps
  <2>6. CASE threads[t].own
    <3>1. Forgotten(t)
      BY <2>1, <2>2, <2>5, <2>6 DEF Forgotten, SessionPhase
    <3> QED
      BY <1>5, <2>2, <2>3, <2>4, <3>1, OneThreadMoves DEF LoggedSessions
  <2>7. CASE ~threads[t].own
    <3>1. SameSession(t)
      BY <2>1, <2>2, <2>5, <2>7 DEF SameSession, SessionPhase, SessionSteps
    <3> QED
      BY <1>5, <2>2, <2>3, <2>4, <3>1, OneThreadMoves DEF LoggedSessions
  <2> QED
    BY <2>6, <2>7
<1> QED
  BY <1>1, <1>2, <1>3, <1>4, <1>5 DEF Next

\* The sessions of a tool, all on its one instance, are logs of their own answered steps: what a
\* failure, a cancel or another session has left on the instance is in none of them.
THEOREM SessionsAreIsolated == Spec => SessionsAreLogs
<1>1. Init => Sessions!Init /\ LoggedSessions
  <2> SUFFICES ASSUME Init PROVE Sessions!Init /\ LoggedSessions
    OBVIOUS
  <2>1. \A t \in Threads : /\ threads[t].status = "unborn" /\ ~threads[t].own
                            /\ threads[t].saved.history = <<>>
    BY DEF Init, NoState
  <2>2. SessionPhases = [t \in Threads |-> "unborn"] /\ SessionLogs = [t \in Threads |-> <<>>]
    BY <2>1 DEF SessionPhases, SessionLogs, SessionPhase, SessionSteps
  <2> QED
    BY <2>1, <2>2 DEF Sessions!Init, LoggedSessions, OwnLog
<1>2. Spec => []IInv
  BY InitIInv, NextKeepsIInv, PTL DEF Spec
<1>3. Spec => Sessions!Init /\ [][Sessions!Next]_<<SessionPhases, SessionLogs>>
  BY <1>1, <1>2, StepsAreAbstract, PTL DEF Spec
<1> QED
  BY <1>3 DEF SessionsAreLogs, Sessions!Spec
=============================================================================
