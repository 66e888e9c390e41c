--------------------------- MODULE ToolCallsProofs ---------------------------
(***************************************************************************)
(* Theorems about the one-shot tools, for any number of calls and threads, *)
(* every turn limit, and files, models and windows of any size.            *)
(***************************************************************************)
EXTENDS ToolCalls, SequenceTheorems, WellFoundedInduction, TLAPS

\* A sequence of whatever is in it: what the turns say of models and files plays no part.
Sequence(s) == s \in Seq({s[i] : i \in DOMAIN s})

\* What the argument needs of the types.
Shape ==
    /\ call \in [Calls -> CallStates]
    /\ DOMAIN turns = Threads
    /\ \A t \in Threads : Sequence(turns[t]) /\ Len(turns[t]) <= MaxTurns
    /\ status \in [Threads -> {"unborn", "stored", "gone"}]

\* A thread without a row has no turns; calls know only threads that were handed out.
Handed ==
    /\ \A t \in Threads : ~Alive(t) => turns[t] = <<>>
    /\ \A c \in Calls : call[c].thread \notin Unborn /\ call[c].offer \notin Unborn
    /\ \A c \in Calls : call[c].offer # NoThread =>
        call[c].pc = "answered" /\ call[c].thread \in {NoThread, call[c].offer}

\* What a call puts on a thread it puts on its own, and a call that was not made puts nothing there.
OwnThread ==
    \A t \in Threads : \A i \in DOMAIN turns[t] : \A c \in Calls :
        turns[t][i].of = c =>
            /\ call[c].pc # "new"
            /\ t \in {call[c].thread, call[c].offer}

\* A question that was not recorded found its thread full, or gone, and so will the answer.
QuestionsFirst ==
    \A c \in Calls : \A t \in Threads :
        Waiting(c) /\ call[c].thread = t /\ Alive(t) =>
            \/ Len(turns[t]) = MaxTurns
            \/ \E i \in DOMAIN turns[t] : Holds(t, i, "user", c)

IInv == Shape /\ Handed /\ OwnThread /\ QuestionsFirst /\ ExchangesRecorded

-----------------------------------------------------------------------------
(* Sequences.                                                              *)

\* A sequence is one of its own elements.
LEMMA OfItsElements ==
  ASSUME NEW S, NEW s \in Seq(S)
  PROVE  Sequence(s)
<1>1. \A i \in DOMAIN s : s[i] \in {s[j] : j \in DOMAIN s}
  OBVIOUS
<1> QED
  BY <1>1 DEF Sequence

\* What appending does to a sequence.
LEMMA Appended ==
  ASSUME NEW s, Sequence(s), NEW e
  PROVE  /\ Sequence(Append(s, e))
         /\ Len(s) \in Nat /\ DOMAIN s = 1 .. Len(s)
         /\ Len(Append(s, e)) = Len(s) + 1
         /\ DOMAIN Append(s, e) = 1 .. Len(s) + 1
         /\ \A i \in 1 .. Len(s) : Append(s, e)[i] = s[i]
         /\ Append(s, e)[Len(s) + 1] = e
<1> DEFINE S == {s[i] : i \in DOMAIN s} \union {e}
           r == Append(s, e)
<1>1. s \in Seq(S)
  BY DEF Sequence
<1>2. /\ Len(s) \in Nat /\ DOMAIN s = 1 .. Len(s)
      /\ r \in Seq(S) /\ Len(r) = Len(s) + 1 /\ DOMAIN r = 1 .. Len(s) + 1
      /\ \A i \in 1 .. Len(s) : r[i] = s[i]
      /\ r[Len(s) + 1] = e
  BY <1>1
<1>3. \A i \in DOMAIN r : r[i] \in {r[j] : j \in DOMAIN r}
  OBVIOUS
<1>4. r \in Seq({r[i] : i \in DOMAIN r})
  BY <1>2, <1>3
<1> QED
  BY <1>2, <1>4 DEF Sequence

\* add_turn either leaves the threads alone or appends to one that is there and has room.
LEMMA AddedChanges ==
  ASSUME Shape, NEW t \in Maybe, NEW turn, turns' = Added(t, turn)
  PROVE  \/ /\ turns' = turns
            /\ ~Alive(t) \/ Len(turns[t]) = MaxTurns
         \/ /\ Alive(t) /\ t \in Threads
            /\ Len(turns[t]) < MaxTurns
            /\ turns' = [turns EXCEPT ![t] = Append(@, turn)]
<1>1. CASE Alive(t) /\ Len(turns[t]) < MaxTurns
  BY <1>1 DEF Added, Alive
<1>2. CASE ~Alive(t)
  BY <1>2 DEF Added
<1>3. CASE Alive(t) /\ ~(Len(turns[t]) < MaxTurns)
  <2>1. Len(turns[t]) = MaxTurns
    <3>1. t \in Threads /\ Sequence(turns[t]) /\ Len(turns[t]) <= MaxTurns
      BY <1>3 DEF Alive, Shape
    <3>2. Len(turns[t]) \in Nat
      BY <3>1, Appended
    <3> QED
      BY <1>3, <3>1, <3>2, ToolCallConstants
  <2> QED
    BY <1>3, <2>1 DEF Added
<1> QED
  BY <1>1, <1>2, <1>3

-----------------------------------------------------------------------------
(* The invariant.                                                          *)

\* The invariant holds initially.
LEMMA InitIInv == Init => IInv
<1> SUFFICES ASSUME Init PROVE IInv
  OBVIOUS
<1>1. Shape
  <2>1. \A t \in Threads : Sequence(turns[t]) /\ Len(turns[t]) <= MaxTurns
    BY ToolCallConstants DEF Init, Sequence
  <2> QED
    BY <2>1 DEF Init, Shape, CallStates, Stages, Maybe
<1>2. Handed
  BY ToolCallConstants DEF Init, Handed, Unborn, Alive
<1>3. OwnThread
  BY DEF Init, OwnThread
<1>4. QuestionsFirst
  BY DEF Init, QuestionsFirst, Waiting
<1>5. ExchangesRecorded
  BY DEF Init, ExchangesRecorded, AnswersHaveQuestions, EachTurnOnce, AnswersKept
<1> QED
  BY <1>1, <1>2, <1>3, <1>4, <1>5 DEF IInv

\* A step that leaves the threads alone, and takes no call to its answer, keeps the invariant.
LEMMA CallAloneKeepsIInv ==
  ASSUME IInv, NEW c \in Calls, UNCHANGED <<turns, status>>,
         NEW pc \in {"retrying", "failed"}, NEW t \in Maybe \ Unborn,
         \/ call' = [call EXCEPT ![c].pc = pc] /\ Waiting(c)
         \/ call' = [call EXCEPT ![c].pc = "failed", ![c].thread = t] /\ call[c].pc = "new"
  PROVE  IInv'
<1>1. /\ call' \in [Calls -> CallStates]
      /\ \A d \in Calls \ {c} : call'[d] = call[d]
      /\ call[c].pc # "answered" /\ call'[c].pc # "answered" /\ call'[c].pc # "new"
      /\ call'[c].offer = call[c].offer
      /\ call'[c].thread = call[c].thread \/ call[c].pc = "new"
      /\ call'[c].thread \notin Unborn
      /\ Waiting(c)' => Waiting(c) /\ call'[c].thread = call[c].thread
  BY DEF IInv, Shape, Handed, CallStates, Stages, Waiting
<1>2. Alive(t)' = Alive(t) /\ Unborn' = Unborn
  BY DEF Alive, Unborn
<1>3. Shape'
  BY <1>1 DEF IInv, Shape
<1>4. Handed'
  <2>1. \A u \in Threads : Alive(u)' = Alive(u)
    BY DEF Alive
  <2>2. call[c].offer = NoThread
    BY <1>1 DEF IInv, Handed
  <2> QED
    BY <1>1, <1>2, <2>1, <2>2 DEF IInv, Handed
<1>5. OwnThread'
  BY <1>1 DEF IInv, OwnThread
<1>6. QuestionsFirst'
  <2>1. \A d \in Calls : Waiting(d)' => Waiting(d) /\ call'[d].thread = call[d].thread
    BY <1>1 DEF Waiting
  <2>2. \A u \in Threads : Alive(u)' = Alive(u)
    BY DEF Alive
  <2> QED
    BY <2>1, <2>2 DEF IInv, QuestionsFirst, Holds
<1>7. ExchangesRecorded'
  <2>1. \A u \in Threads : Alive(u)' = Alive(u)
    BY DEF Alive
  <2>2. AnswersHaveQuestions'
    BY <1>1 DEF IInv, ExchangesRecorded, AnswersHaveQuestions, Holds
  <2>3. EachTurnOnce'
    BY DEF IInv, ExchangesRecorded, EachTurnOnce
  <2>4. AnswersKept'
    BY <1>1, <2>1 DEF IInv, ExchangesRecorded, AnswersKept, Holds
  <2> QED
    BY <2>2, <2>3, <2>4 DEF ExchangesRecorded
<1> QED
  BY <1>3, <1>4, <1>5, <1>6, <1>7 DEF IInv

\* A thread that is forgotten takes its turns along, and nobody gets its id again.
LEMMA ForgetKeepsIInv ==
  ASSUME IInv, NEW t \in Threads, Forget(t)
  PROVE  IInv'
<1>1. /\ Alive(t) /\ ~Alive(t)'
      /\ \A u \in Threads \ {t} : Alive(u)' = Alive(u) /\ turns'[u] = turns[u]
      /\ turns'[t] = <<>> /\ Unborn' = Unborn
      /\ DOMAIN turns' = Threads /\ UNCHANGED call
  BY DEF Forget, Alive, Unborn, IInv, Shape
<1>2. Shape'
  <2>1. Sequence(<<>>) /\ Len(<<>>) = 0
    BY DEF Sequence
  <2>2. status' \in [Threads -> {"unborn", "stored", "gone"}]
    BY DEF Forget, IInv, Shape
  <2> QED
    BY <1>1, <2>1, <2>2, ToolCallConstants DEF IInv, Shape
<1>3. Handed'
  BY <1>1 DEF IInv, Handed
<1>4. OwnThread'
  BY <1>1 DEF IInv, OwnThread
<1>5. QuestionsFirst'
  BY <1>1 DEF IInv, QuestionsFirst, Holds, Waiting
<1>6. ExchangesRecorded'
  <2>1. AnswersHaveQuestions'
    BY <1>1 DEF IInv, ExchangesRecorded, AnswersHaveQuestions, Holds
  <2>2. EachTurnOnce'
    BY <1>1 DEF IInv, ExchangesRecorded, EachTurnOnce
  <2>3. AnswersKept'
    BY <1>1 DEF IInv, ExchangesRecorded, AnswersKept, Holds
  <2> QED
    BY <2>1, <2>2, <2>3 DEF ExchangesRecorded
<1> QED
  BY <1>2, <1>3, <1>4, <1>5, <1>6 DEF IInv

\* A turn is added to a thread that is there: what it held stays where it was.
LEMMA AppendKeepsTurns ==
  ASSUME Shape, NEW t \in Threads, NEW turn,
         turns' = [turns EXCEPT ![t] = Append(@, turn)], Len(turns[t]) < MaxTurns
  PROVE  LET last == Len(turns[t]) + 1 IN
         /\ DOMAIN turns' = Threads
         /\ \A u \in Threads : Sequence(turns'[u]) /\ Len(turns'[u]) <= MaxTurns
         /\ \A u \in Threads \ {t} : turns'[u] = turns[u]
         /\ DOMAIN turns'[t] = 1 .. last /\ DOMAIN turns[t] = 1 .. last - 1
         /\ last \in Nat \ {0} /\ turns'[t][last] = turn
         /\ \A i \in 1 .. last - 1 : turns'[t][i] = turns[t][i]
<1>1. /\ DOMAIN turns' = Threads /\ turns'[t] = Append(turns[t], turn)
      /\ \A u \in Threads \ {t} : turns'[u] = turns[u]
  BY DEF Shape
<1>2. Sequence(turns[t])
  BY DEF Shape
<1>3. /\ Sequence(turns'[t])
      /\ Len(turns[t]) \in Nat /\ DOMAIN turns[t] = 1 .. Len(turns[t])
      /\ Len(turns'[t]) = Len(turns[t]) + 1
      /\ DOMAIN turns'[t] = 1 .. Len(turns[t]) + 1
      /\ \A i \in 1 .. Len(turns[t]) : turns'[t][i] = turns[t][i]
      /\ turns'[t][Len(turns[t]) + 1] = turn
  BY <1>1, <1>2, Appended
<1>4. Len(turns'[t]) <= MaxTurns
  BY <1>3, ToolCallConstants
<1>5. \A u \in Threads : Sequence(turns'[u]) /\ Len(turns'[u]) <= MaxTurns
  BY <1>1, <1>3, <1>4 DEF Shape
<1>6. Len(turns[t]) + 1 - 1 = Len(turns[t]) /\ Len(turns[t]) + 1 \in Nat \ {0}
  BY <1>3
<1> QED
  BY <1>1, <1>3, <1>5, <1>6

\* A call begins, and its question is put on its thread, once.
LEMMA QuestionKeepsIInv ==
  ASSUME IInv, NEW c \in Calls, NEW t \in Maybe \ Unborn, NEW files, NEW pc \in {"asking", "failed"},
         call[c].pc = "new", turns' = Recorded(c, t, files), UNCHANGED status,
         call' = [call EXCEPT ![c].pc = pc, ![c].thread = t]
  PROVE  IInv'
<1>1. /\ call' \in [Calls -> CallStates]
      /\ \A d \in Calls \ {c} : call'[d] = call[d]
      /\ call'[c].pc = pc /\ call'[c].thread = t
      /\ call'[c].offer = NoThread /\ call[c].offer = NoThread
  BY DEF IInv, Shape, Handed, CallStates, Stages
<1>2. Unborn' = Unborn /\ \A u \in Threads : Alive(u)' = Alive(u)
  BY DEF Alive, Unborn
<1>3. \A u \in Threads : \A i \in DOMAIN turns[u] : turns[u][i].of # c
  BY DEF IInv, OwnThread
<1>4. CASE turns' = turns /\ (~Alive(t) \/ Len(turns[t]) = MaxTurns)
  <2>1. Shape'
    BY <1>1, <1>4 DEF IInv, Shape
  <2>2. Handed'
    BY <1>1, <1>2, <1>4 DEF IInv, Handed
  <2>3. OwnThread'
    BY <1>1, <1>3, <1>4 DEF IInv, OwnThread
  <2>4. QuestionsFirst'
    BY <1>1, <1>2, <1>4 DEF IInv, QuestionsFirst, Holds, Waiting
  <2>5. AnswersHaveQuestions'
    BY <1>1, <1>3, <1>4 DEF IInv, ExchangesRecorded, AnswersHaveQuestions, Holds
  <2>6. EachTurnOnce'
    BY <1>4 DEF IInv, ExchangesRecorded, EachTurnOnce
  <2>7. AnswersKept'
    BY <1>1, <1>2, <1>4 DEF IInv, ExchangesRecorded, AnswersKept, Holds
  <2> QED
    BY <2>1, <2>2, <2>3, <2>4, <2>5, <2>6, <2>7 DEF IInv, ExchangesRecorded
<1>5. CASE /\ Alive(t) /\ t \in Threads
           /\ Len(turns[t]) < MaxTurns
           /\ turns' = [turns EXCEPT ![t] = Append(@, Question(c, files))]
  <2> DEFINE last == Len(turns[t]) + 1
  <2>1. /\ DOMAIN turns' = Threads
        /\ \A u \in Threads : Sequence(turns'[u]) /\ Len(turns'[u]) <= MaxTurns
        /\ \A u \in Threads \ {t} : turns'[u] = turns[u]
        /\ DOMAIN turns'[t] = 1 .. last /\ DOMAIN turns[t] = 1 .. last - 1
        /\ last \in Nat \ {0} /\ turns'[t][last] = Question(c, files)
        /\ \A i \in 1 .. last - 1 : turns'[t][i] = turns[t][i]
    BY <1>5, AppendKeepsTurns DEF IInv
  <2>2. turns'[t][last].role = "user" /\ turns'[t][last].of = c
    BY <2>1 DEF Question
  <2> HIDE DEF last
  <2>3. \A u \in Threads : \A i \in DOMAIN turns'[u] :
          \/ i \in DOMAIN turns[u] /\ turns'[u][i] = turns[u][i] /\ turns'[u][i].of # c
          \/ u = t /\ i = last
    BY <1>3, <2>1
  <2>4. Shape'
    BY <1>1, <2>1 DEF IInv, Shape
  <2>5. Handed'
    BY <1>1, <1>2, <1>5, <2>1 DEF IInv, Handed
  <2>6. OwnThread'
    BY <1>1, <2>2, <2>3 DEF IInv, OwnThread
  <2>7. QuestionsFirst'
    <3> SUFFICES ASSUME NEW d \in Calls, NEW u \in Threads, Waiting(d)', call'[d].thread = u, Alive(u)'
                 PROVE  \/ Len(turns'[u]) = MaxTurns
                        \/ \E i \in DOMAIN turns'[u] : turns'[u][i].role = "user" /\ turns'[u][i].of = d
      BY DEF QuestionsFirst, Holds
    <3>1. CASE d = c
      <4>1. u = t /\ last \in DOMAIN turns'[t]
        BY <1>1, <2>1, <3>1
      <4> QED
        BY <2>2, <3>1, <4>1
    <3>2. CASE d # c /\ u # t
      BY <1>1, <1>2, <2>1, <3>2 DEF IInv, QuestionsFirst, Holds, Waiting
    <3>3. CASE d # c /\ u = t
      <4>1. PICK i \in DOMAIN turns[t] : turns[t][i].role = "user" /\ turns[t][i].of = d
        <5>1. Len(turns[t]) # MaxTurns
          BY <1>5, <2>1, ToolCallConstants DEF last
        <5> QED
          BY <1>1, <1>2, <3>3, <5>1 DEF IInv, QuestionsFirst, Holds, Waiting
      <4> QED
        BY <2>1, <3>3, <4>1
    <3> QED
      BY <3>1, <3>2, <3>3
  <2>8. AnswersHaveQuestions'
    <3> SUFFICES ASSUME NEW u \in Threads, NEW i \in DOMAIN turns'[u], NEW d \in Calls,
                        Holds(u, i, "assistant", d)'
                 PROVE  /\ call'[d].pc = "answered"
                        /\ \E j \in 1 .. i - 1 : Holds(u, j, "user", d)'
      BY Zenon DEF AnswersHaveQuestions
    <3>1. i \in DOMAIN turns[u] /\ turns'[u][i] = turns[u][i] /\ d # c
      BY <2>2, <2>3 DEF Holds
    <3>2. PICK j \in 1 .. i - 1 : turns[u][j].role = "user" /\ turns[u][j].of = d
      BY <3>1 DEF IInv, ExchangesRecorded, AnswersHaveQuestions, Holds
    <3>3. turns'[u][j] = turns[u][j]
      BY <2>1, <3>1, <3>2
    <3> QED
      BY <1>1, <3>1, <3>2, <3>3 DEF IInv, ExchangesRecorded, AnswersHaveQuestions, Holds
  <2>9. EachTurnOnce'
    BY <2>2, <2>3 DEF IInv, ExchangesRecorded, EachTurnOnce
  <2>10. AnswersKept'
    <3> SUFFICES ASSUME NEW d \in Calls, NEW u \in Threads, call'[d].pc = "answered", Alive(u)',
                        call'[d].thread = u \/ call'[d].offer = u
                 PROVE  \/ Len(turns'[u]) = MaxTurns
                        \/ \E i \in DOMAIN turns'[u] : turns'[u][i].role = "assistant" /\ turns'[u][i].of = d
      BY DEF AnswersKept, Holds
    <3>1. d # c /\ call'[d] = call[d] /\ Alive(u)
      BY <1>1, <1>2
    <3>2. CASE u # t
      BY <2>1, <3>1, <3>2 DEF IInv, ExchangesRecorded, AnswersKept, Holds
    <3>3. CASE u = t
      <4>1. Len(turns[t]) # MaxTurns
        BY <1>5, <2>1, ToolCallConstants DEF last
      <4>2. PICK i \in DOMAIN turns[t] : turns[t][i].role = "assistant" /\ turns[t][i].of = d
        BY <3>1, <3>3, <4>1 DEF IInv, ExchangesRecorded, AnswersKept, Holds
      <4> QED
        BY <2>1, <3>3, <4>2
    <3> QED
      BY <3>2, <3>3
  <2> QED
    BY <2>4, <2>5, <2>6, <2>7, <2>8, <2>9, <2>10 DEF IInv, ExchangesRecorded
<1> QED
  BY <1>4, <1>5, AddedChanges DEF Recorded, IInv

\* An answer is put on the thread its call continued, after the question if that is there.
LEMMA AnswerKeepsIInv ==
  ASSUME IInv, NEW c \in Calls, ReplyOnThread(c)
  PROVE  IInv'
<1> DEFINE t == call[c].thread
<1>0. PICK offer \in {NoThread, t} : call' = [call EXCEPT ![c].pc = "answered", ![c].offer = offer]
  <2>1. CASE Offered(t, turns'[t])
    <3>1. call' = [call EXCEPT ![c].pc = "answered", ![c].offer = t]
      BY <2>1 DEF ReplyOnThread
    <3> QED
      BY <3>1
  <2>2. CASE ~Offered(t, turns'[t])
    <3>1. call' = [call EXCEPT ![c].pc = "answered", ![c].offer = NoThread]
      BY <2>2 DEF ReplyOnThread
    <3> QED
      BY <3>1
  <2> QED
    BY <2>1, <2>2
<1>1. /\ Waiting(c) /\ t \in Threads /\ t \notin Unborn
      /\ turns' = Added(t, Credited(c)) /\ UNCHANGED status
      /\ call' = [call EXCEPT ![c].pc = "answered", ![c].offer = offer]
  <2>1. Waiting(c) /\ t # NoThread /\ turns' = Added(t, Credited(c)) /\ UNCHANGED status
    BY DEF ReplyOnThread
  <2>3. t \in Threads /\ t \notin Unborn
    BY <2>1 DEF IInv, Shape, Handed, CallStates, Maybe
  <2> QED
    BY <1>0, <2>1, <2>3
<1>2. offer \in {NoThread, t}
  BY <1>0
<1>3. /\ call' \in [Calls -> CallStates]
      /\ \A d \in Calls \ {c} : call'[d] = call[d]
      /\ call'[c].pc = "answered" /\ call'[c].thread = t /\ call'[c].offer = offer
      /\ call[c].pc # "answered" /\ call[c].pc # "new" /\ call[c].offer = NoThread
  BY <1>1, <1>2 DEF IInv, Shape, Handed, CallStates, Stages, Maybe, Waiting
<1>4. Unborn' = Unborn /\ \A u \in Threads : Alive(u)' = Alive(u)
  BY <1>1 DEF Alive, Unborn
<1>5. \A u \in Threads : \A i \in DOMAIN turns[u] : ~Holds(u, i, "assistant", c)
  BY <1>3 DEF IInv, ExchangesRecorded, AnswersHaveQuestions
<1> HIDE DEF t
<1>6. CASE turns' = turns /\ (~Alive(t) \/ Len(turns[t]) = MaxTurns)
  <2>1. Shape'
    BY <1>1, <1>3, <1>6 DEF IInv, Shape
  <2>2. Handed'
    BY <1>1, <1>2, <1>3, <1>4, <1>6, ToolCallConstants DEF IInv, Handed, Unborn
  <2>3. OwnThread'
    BY <1>1, <1>2, <1>3, <1>6, ToolCallConstants DEF IInv, OwnThread, t
  <2>4. QuestionsFirst'
    BY <1>3, <1>4, <1>6 DEF IInv, QuestionsFirst, Holds, Waiting
  <2>5. AnswersHaveQuestions'
    BY <1>3, <1>6 DEF IInv, ExchangesRecorded, AnswersHaveQuestions, Holds
  <2>6. EachTurnOnce'
    BY <1>6 DEF IInv, ExchangesRecorded, EachTurnOnce
  <2>7. AnswersKept'
    BY <1>1, <1>2, <1>3, <1>4, <1>6, ToolCallConstants DEF IInv, ExchangesRecorded, AnswersKept, Holds
  <2> QED
    BY <2>1, <2>2, <2>3, <2>4, <2>5, <2>6, <2>7 DEF IInv, ExchangesRecorded
<1>7. CASE /\ Alive(t) /\ Len(turns[t]) < MaxTurns
           /\ turns' = [turns EXCEPT ![t] = Append(@, Credited(c))]
  <2> DEFINE last == Len(turns[t]) + 1
  <2>1. /\ DOMAIN turns' = Threads
        /\ \A u \in Threads : Sequence(turns'[u]) /\ Len(turns'[u]) <= MaxTurns
        /\ \A u \in Threads \ {t} : turns'[u] = turns[u]
        /\ DOMAIN turns'[t] = 1 .. last /\ DOMAIN turns[t] = 1 .. last - 1
        /\ last \in Nat \ {0} /\ turns'[t][last] = Credited(c)
        /\ \A i \in 1 .. last - 1 : turns'[t][i] = turns[t][i]
    BY <1>1, <1>7, AppendKeepsTurns DEF IInv
  <2>2. turns'[t][last].role = "assistant" /\ turns'[t][last].of = c
    BY <2>1 DEF Credited, Answer
  <2>3. Len(turns[t]) # MaxTurns
    BY <1>7, <2>1, ToolCallConstants
  <2> HIDE DEF last
  <2>4. \A u \in Threads : \A i \in DOMAIN turns'[u] :
          \/ i \in DOMAIN turns[u] /\ turns'[u][i] = turns[u][i]
          \/ u = t /\ i = last
    BY <1>1, <2>1, SMTT(30)
  <2>5. Shape'
    BY <1>1, <1>3, <2>1 DEF IInv, Shape
  <2>6. Handed'
    BY <1>1, <1>2, <1>3, <1>4, <1>7, <2>1, ToolCallConstants DEF IInv, Handed, Unborn
  <2>7. OwnThread'
    <3>1. \A u \in Threads : \A i \in DOMAIN turns[u] : \A d \in Calls :
            turns[u][i].of = d => call'[d].pc # "new" /\ u \in {call'[d].thread, call'[d].offer}
      <4> SUFFICES ASSUME NEW u \in Threads, NEW i \in DOMAIN turns[u], NEW d \in Calls, turns[u][i].of = d
                   PROVE  call'[d].pc # "new" /\ u \in {call'[d].thread, call'[d].offer}
        OBVIOUS
      <4>1. call[d].pc # "new" /\ u \in {call[d].thread, call[d].offer}
        BY DEF IInv, OwnThread
      <4>2. CASE d = c
        BY <1>3, <4>1, <4>2, ToolCallConstants DEF t
      <4>3. CASE d # c
        BY <1>3, <4>1, <4>3
      <4> QED
        BY <4>2, <4>3
    <3> QED
      BY <1>3, <2>2, <2>4, <3>1 DEF OwnThread
  <2>8. QuestionsFirst'
    <3> SUFFICES ASSUME NEW d \in Calls, NEW u \in Threads, Waiting(d)', call'[d].thread = u, Alive(u)'
                 PROVE  \/ Len(turns'[u]) = MaxTurns
                        \/ \E i \in DOMAIN turns'[u] : turns'[u][i].role = "user" /\ turns'[u][i].of = d
      BY DEF QuestionsFirst, Holds
    <3>1. d # c /\ Waiting(d) /\ call[d].thread = u /\ Alive(u)
      BY <1>3, <1>4 DEF Waiting
    <3>2. CASE u # t
      BY <2>1, <3>1, <3>2 DEF IInv, QuestionsFirst, Holds
    <3>3. CASE u = t
      <4>1. PICK i \in DOMAIN turns[t] : turns[t][i].role = "user" /\ turns[t][i].of = d
        BY <2>3, <3>1, <3>3 DEF IInv, QuestionsFirst, Holds
      <4> QED
        BY <2>1, <3>3, <4>1
    <3> QED
      BY <3>2, <3>3
  <2>9. AnswersHaveQuestions'
    <3> SUFFICES ASSUME NEW u \in Threads, NEW i \in DOMAIN turns'[u], NEW d \in Calls,
                        Holds(u, i, "assistant", d)'
                 PROVE  /\ call'[d].pc = "answered"
                        /\ \E j \in 1 .. i - 1 : Holds(u, j, "user", d)'
      BY Zenon DEF AnswersHaveQuestions
    <3>1. CASE i \in DOMAIN turns[u] /\ turns'[u][i] = turns[u][i]
      <4>1. PICK j \in 1 .. i - 1 : turns[u][j].role = "user" /\ turns[u][j].of = d
        BY <3>1 DEF IInv, ExchangesRecorded, AnswersHaveQuestions, Holds
      <4>2. call[d].pc = "answered" /\ d # c
        BY <1>3, <3>1 DEF IInv, ExchangesRecorded, AnswersHaveQuestions, Holds
      <4>3. turns'[u][j] = turns[u][j]
        BY <2>1, <3>1, <4>1
      <4> QED
        BY <1>3, <4>1, <4>2, <4>3 DEF Holds
    <3>2. CASE u = t /\ i = last
      <4>1. d = c
        BY <2>2, <3>2 DEF Holds
      <4>2. PICK j \in DOMAIN turns[t] : turns[t][j].role = "user" /\ turns[t][j].of = c
        BY <1>1, <1>7, <2>3 DEF IInv, QuestionsFirst, Holds, t
      <4>3. j \in 1 .. i - 1 /\ turns'[t][j] = turns[t][j]
        BY <2>1, <3>2, <4>2
      <4> QED
        BY <1>3, <3>2, <4>1, <4>2, <4>3 DEF Holds
    <3> QED
      BY <2>4, <3>1, <3>2
  <2>10. EachTurnOnce'
    <3>1. \A u \in Threads : \A i \in DOMAIN turns[u] :
            ~(turns[u][i].of = c /\ turns[u][i].role = "assistant")
      BY <1>5 DEF Holds
    <3> QED
      BY <2>2, <2>4, <3>1 DEF IInv, ExchangesRecorded, EachTurnOnce
  <2>11. AnswersKept'
    <3> SUFFICES ASSUME NEW d \in Calls, NEW u \in Threads, call'[d].pc = "answered", Alive(u)',
                        call'[d].thread = u \/ call'[d].offer = u
                 PROVE  \/ Len(turns'[u]) = MaxTurns
                        \/ \E i \in DOMAIN turns'[u] : turns'[u][i].role = "assistant" /\ turns'[u][i].of = d
      BY DEF AnswersKept, Holds
    <3>1. CASE d = c
      <4>1. u = t /\ last \in DOMAIN turns'[t]
        BY <1>2, <1>3, <2>1, <3>1, ToolCallConstants
      <4> QED
        BY <2>2, <3>1, <4>1
    <3>2. CASE d # c /\ u # t
      BY <1>3, <1>4, <2>1, <3>2 DEF IInv, ExchangesRecorded, AnswersKept, Holds
    <3>3. CASE d # c /\ u = t
      <4>1. PICK i \in DOMAIN turns[t] : turns[t][i].role = "assistant" /\ turns[t][i].of = d
        BY <1>3, <1>4, <2>3, <3>3 DEF IInv, ExchangesRecorded, AnswersKept, Holds
      <4> QED
        BY <2>1, <3>3, <4>1
    <3> QED
      BY <3>1, <3>2, <3>3
  <2> QED
    BY <2>5, <2>6, <2>7, <2>8, <2>9, <2>10, <2>11 DEF IInv, ExchangesRecorded
<1> QED
  <2>1. t \in Maybe
    BY <1>1 DEF Maybe
  <2> QED
    BY <1>1, <1>6, <1>7, <2>1, AddedChanges DEF IInv

\* A new thread begins with its question and its answer, or with what fits of them.
LEMMA OpeningKeepsIInv ==
  ASSUME IInv, NEW c \in Calls, NEW born, ReplyWithThread(c, born)
  PROVE  IInv'
<1>1. /\ Waiting(c) /\ call[c].thread = NoThread
      /\ born \in Unborn \union {NoThread}
      /\ status' = [u \in Threads |-> IF u = born THEN "stored" ELSE status[u]]
      /\ turns' = [u \in Threads |-> IF u = born THEN Opening(c) ELSE turns[u]]
      /\ call' = [call EXCEPT ![c].pc = "answered", ![c].offer = born]
  BY DEF ReplyWithThread
<1>2. /\ call' \in [Calls -> CallStates]
      /\ \A d \in Calls \ {c} : call'[d] = call[d]
      /\ call'[c].pc = "answered" /\ call'[c].thread = NoThread /\ call'[c].offer = born
      /\ call[c].pc # "answered" /\ call[c].pc # "new" /\ call[c].offer = NoThread
  BY <1>1, ZenonT(30) DEF IInv, Shape, Handed, CallStates, Stages, Maybe, Unborn, Waiting
<1>3. /\ Unborn' = Unborn \ {born}
      /\ \A u \in Threads \ {born} : Alive(u)' = Alive(u) /\ turns'[u] = turns[u]
      /\ born \in Threads => /\ Alive(born)' /\ ~Alive(born) /\ turns[born] = <<>>
                             /\ turns'[born] = Opening(c)
                             /\ \A d \in Calls : born \notin {call[d].thread, call[d].offer}
  <2>1. /\ status' \in [Threads -> {"unborn", "stored", "gone"}]
        /\ born \in Threads => status[born] = "unborn" /\ status'[born] = "stored"
        /\ \A u \in Threads \ {born} : status'[u] = status[u] /\ turns'[u] = turns[u]
        /\ born \in Threads => turns'[born] = Opening(c)
    BY <1>1, ToolCallConstants DEF IInv, Shape, Unborn
  <2>2. Unborn' = Unborn \ {born}
    BY <2>1 DEF Unborn
  <2>3. \A u \in Threads \ {born} : Alive(u)' = Alive(u)
    BY <2>1 DEF Alive
  <2>4. born \in Threads => Alive(born)' /\ ~Alive(born) /\ born \in Unborn
    BY <2>1 DEF Alive, Unborn
  <2> QED
    BY <2>1, <2>2, <2>3, <2>4 DEF IInv, Handed
<1>4. \A u \in Threads : \A i \in DOMAIN turns[u] : turns[u][i].of # c
  BY <1>1, <1>2, ToolCallConstants DEF IInv, OwnThread
<1> DEFINE o == Opening(c)
<1>5. /\ Sequence(o) /\ Len(o) <= MaxTurns
      /\ DOMAIN o \in {1 .. 1, 1 .. 2}
      /\ o[1].role = "user" /\ o[1].of = c
      /\ 2 \in DOMAIN o => o[2].role = "assistant" /\ o[2].of = c
      /\ 2 \in DOMAIN o \/ Len(o) = MaxTurns
  <2> DEFINE q == Question(c, prompt[c].for)
             a == Credited(c)
  <2>1. q.role = "user" /\ q.of = c /\ a.role = "assistant" /\ a.of = c
    BY DEF Question, Credited, Answer
  <2> HIDE DEF q, a
  <2>2. <<q, a>> \in Seq({q, a}) /\ Len(<<q, a>>) = 2 /\ <<q, a>>[1] = q /\ <<q, a>>[2] = a
    OBVIOUS
  <2>3. CASE MaxTurns = 1
    <3>1. o = SubSeq(<<q, a>>, 1, 1)
      BY <2>3 DEF Opening, q, a
    <3>2. /\ o \in Seq({q, a}) /\ Len(o) = 1 /\ DOMAIN o = 1 .. 1 /\ o[1] = q
      BY <2>2, <3>1
    <3>3. Sequence(o)
      BY <3>2, OfItsElements
    <3> QED
      BY <2>1, <2>3, <3>2, <3>3
  <2>4. CASE MaxTurns # 1
    <3>1. o = SubSeq(<<q, a>>, 1, 2) /\ 2 <= MaxTurns
      <4>1. MaxTurns \in Nat /\ MaxTurns >= 2
        BY <2>4, ToolCallConstants
      <4>2. (IF MaxTurns < 2 THEN MaxTurns ELSE 2) = 2
        BY <4>1
      <4> QED
        BY <4>1, <4>2 DEF Opening, q, a
    <3>2. /\ o \in Seq({q, a}) /\ Len(o) = 2 /\ DOMAIN o = 1 .. 2 /\ o[1] = q /\ o[2] = a
      BY <2>2, <3>1
    <3>3. Sequence(o)
      BY <3>2, OfItsElements
    <3> QED
      BY <2>1, <3>1, <3>2, <3>3
  <2> QED
    BY <2>3, <2>4
<1> HIDE DEF o
<1>6. \A u \in Threads : \A i \in DOMAIN turns'[u] :
        \/ u # born /\ i \in DOMAIN turns[u] /\ turns'[u][i] = turns[u][i] /\ turns'[u][i].of # c
        \/ u = born /\ i \in DOMAIN o /\ turns'[u] = o /\ turns'[u][i] = o[i] /\ turns'[u][i].of = c
  <2>1. \A i \in DOMAIN o : o[i].of = c
    BY <1>5
  <2> QED
    BY <1>3, <1>4, <2>1 DEF o
<1>7. Shape'
  <2>1. DOMAIN turns' = Threads /\ status' \in [Threads -> {"unborn", "stored", "gone"}]
    BY <1>1 DEF IInv, Shape
  <2>2. \A u \in Threads : Sequence(turns'[u]) /\ Len(turns'[u]) <= MaxTurns
    BY <1>3, <1>5 DEF IInv, Shape, o
  <2> QED
    BY <1>2, <2>1, <2>2 DEF Shape
<1>8. Handed'
  BY <1>1, <1>2, <1>3, ToolCallConstants DEF IInv, Handed, Unborn
<1>9. OwnThread'
  BY <1>2, <1>6 DEF IInv, OwnThread
<1>10. QuestionsFirst'
  BY <1>2, <1>3 DEF IInv, QuestionsFirst, Holds, Waiting
<1>11. AnswersHaveQuestions'
  <2> SUFFICES ASSUME NEW u \in Threads, NEW i \in DOMAIN turns'[u], NEW d \in Calls,
                      Holds(u, i, "assistant", d)'
               PROVE  /\ call'[d].pc = "answered"
                      /\ \E j \in 1 .. i - 1 : Holds(u, j, "user", d)'
    BY Zenon DEF AnswersHaveQuestions
  <2>1. CASE u # born
    BY <1>2, <1>3, <1>6, <2>1 DEF IInv, ExchangesRecorded, AnswersHaveQuestions, Holds
  <2>2. CASE u = born
    <3>1. i = 2 /\ d = c /\ turns'[u] = o
      BY <1>5, <1>6, <2>2 DEF Holds
    <3> QED
      BY <1>2, <1>5, <3>1 DEF Holds
  <2> QED
    BY <2>1, <2>2
<1>12. EachTurnOnce'
  <2> SUFFICES ASSUME NEW u \in Threads, NEW v \in Threads, NEW i \in DOMAIN turns'[u], NEW j \in DOMAIN turns'[v],
                      turns'[u][i].of = turns'[v][j].of, turns'[u][i].role = turns'[v][j].role
               PROVE  u = v /\ i = j
    BY DEF EachTurnOnce
  <2>1. CASE turns'[u][i].of = c
    <3>1. u = born /\ v = born /\ i \in DOMAIN o /\ j \in DOMAIN o /\ o[i].role = o[j].role
      BY <1>6, <2>1
    <3> QED
      BY <1>5, <3>1
  <2>2. CASE turns'[u][i].of # c
    BY <1>6, <2>2 DEF IInv, ExchangesRecorded, EachTurnOnce
  <2> QED
    BY <2>1, <2>2
<1>13. AnswersKept'
  <2> SUFFICES ASSUME NEW d \in Calls, NEW u \in Threads, call'[d].pc = "answered", Alive(u)',
                      call'[d].thread = u \/ call'[d].offer = u
               PROVE  \/ Len(turns'[u]) = MaxTurns
                      \/ \E i \in DOMAIN turns'[u] : Holds(u, i, "assistant", d)'
    BY DEF AnswersKept
  <2>1. CASE d = c
    <3>1. u = born /\ turns'[u] = o
      BY <1>2, <1>3, <2>1, ToolCallConstants DEF o
    <3> QED
      BY <1>5, <2>1, <3>1 DEF Holds
  <2>2. CASE d # c
    BY <1>2, <1>3, <2>2 DEF IInv, ExchangesRecorded, AnswersKept, Holds
  <2> QED
    BY <2>1, <2>2
<1> QED
  BY <1>7, <1>8, <1>9, <1>10, <1>11, <1>12, <1>13 DEF IInv, ExchangesRecorded

\* Every step keeps the invariant.
LEMMA NextKeepsIInv == IInv /\ [Next]_vars => IInv'
<1> SUFFICES ASSUME IInv, [Next]_vars PROVE IInv'
  OBVIOUS
<1>1. ASSUME NEW t \in Threads, Forget(t) PROVE IInv'
  BY <1>1, ForgetKeepsIInv
<1>2. ASSUME NEW t \in Maybe, NEW direct, Admits(t, direct) PROVE t \in Maybe \ Unborn
  BY <1>2, ToolCallConstants DEF Admits, Alive, Unborn
<1>3. ASSUME NEW c \in Calls, NEW t \in Maybe, NEW m, NEW files, NEW direct, Asks(c, t, m, files, direct)
      PROVE  IInv'
  <2>1. /\ call[c].pc = "new" /\ Admits(t, direct)
        /\ call' = [call EXCEPT ![c].pc = "asking", ![c].thread = t]
        /\ turns' = Recorded(c, t, files) /\ UNCHANGED status
    BY <1>3 DEF Asks
  <2> QED
    BY <1>2, <2>1, QuestionKeepsIInv
<1>4. ASSUME NEW c \in Calls, NEW t \in Maybe, NEW m, NEW files, NEW direct, TurnedDown(c, t, m, files, direct)
      PROVE  IInv'
  <2>1. /\ call[c].pc = "new" /\ Admits(t, direct)
        /\ call' = [call EXCEPT ![c].pc = "failed", ![c].thread = t]
        /\ turns' = Recorded(c, t, files) /\ UNCHANGED status
    BY <1>4 DEF TurnedDown
  <2> QED
    BY <1>2, <2>1, QuestionKeepsIInv
<1>5. ASSUME NEW c \in Calls, NEW t \in Maybe \ Unborn, Refused(c, t) PROVE IInv'
  BY <1>5, CallAloneKeepsIInv DEF Refused
<1>6. ASSUME NEW c \in Calls, EmptyAnswer(c) \/ Fails(c) PROVE IInv'
  <2>1. NoThread \in Maybe \ Unborn
    BY ToolCallConstants DEF Maybe, Unborn
  <2> QED
    BY <1>6, <2>1, CallAloneKeepsIInv DEF EmptyAnswer, Fails, Waiting
<1>7. ASSUME NEW c \in Calls, ReplyOnThread(c) PROVE IInv'
  BY <1>7, AnswerKeepsIInv
<1>8. ASSUME NEW c \in Calls, NEW born, ReplyWithThread(c, born) PROVE IInv'
  BY <1>8, OpeningKeepsIInv
<1>9. CASE UNCHANGED vars
  BY <1>9 DEF vars, IInv, Shape, Handed, OwnThread, QuestionsFirst, ExchangesRecorded, AnswersHaveQuestions,
              EachTurnOnce, AnswersKept, Holds, Alive, Unborn, Waiting
<1> QED
  BY <1>1, <1>3, <1>4, <1>5, <1>6, <1>7, <1>8, <1>9 DEF Next

\* Questions and answers are recorded once, an answer only behind its question and for a caller
\* that got it, and no answer is lost to a thread with room: for any number of concurrent calls,
\* through the handler or not, over threads that expire under them.
THEOREM EveryExchangeRecorded == Spec => []ExchangesRecorded
<1>1. IInv => ExchangesRecorded
  BY DEF IInv
<1> QED
  BY InitIInv, NextKeepsIInv, <1>1, PTL DEF Spec

\* No thread outgrows the limit, however many calls add to it at the same time.
THEOREM ThreadsAreBounded == Spec => [](\A t \in Threads : Len(turns[t]) <= MaxTurns)
<1>1. IInv => \A t \in Threads : Len(turns[t]) <= MaxTurns
  BY DEF IInv, Shape
<1> QED
  BY InitIInv, NextKeepsIInv, <1>1, PTL DEF Spec

-----------------------------------------------------------------------------
(* Counting, and loops.  What a loop keeps is shown from one round to the  *)
(* next: among the rounds where it fails there would be a first one.       *)

\* The order of the numbers is well-founded.
LEMMA LessIsWellFounded ==
  \E R : IsWellFoundedOn(R, Nat) /\ (\A x, y \in Nat : <<x, y>> \in R <=> x < y)
<1> DEFINE R == OpToRel(<, Nat)
<1>1. IsWellFoundedOn(R, Nat)
  BY NatLessThanWellFounded
<1>2. \A x, y \in Nat : <<x, y>> \in R <=> x < y
  BY DEF OpToRel
<1> QED
  BY <1>1, <1>2, Zenon

\* A set of numbers has a least one.
LEMMA HasLeast ==
  ASSUME NEW T, T \subseteq Nat, T # {}
  PROVE  \E m \in T : \A k \in T : m <= k
<1>1. PICK R : IsWellFoundedOn(R, Nat) /\ (\A x, y \in Nat : <<x, y>> \in R <=> x < y)
  BY LessIsWellFounded
<1>2. PICK m \in T : \A k \in T : <<k, m>> \notin R
  <2>1. IsWellFoundedOn(R, Nat)
    BY <1>1
  <2> QED
    BY <2>1, WFMin
<1>3. \A k \in T : ~(k < m)
  BY <1>1, <1>2
<1> QED
  BY <1>3

\* A bounded one has a greatest, which is the one Max chooses.
LEMMA HasGreatest ==
  ASSUME NEW n \in Nat, NEW T, T \subseteq 0 .. n, T # {}
  PROVE  Max(T) \in T /\ \A k \in T : k <= Max(T)
<1> DEFINE U == {n - k : k \in T}
<1>1. U \subseteq Nat /\ U # {}
  <2>1. \A k \in T : k \in 0 .. n /\ n - k \in Nat
    OBVIOUS
  <2> QED
    BY <2>1
<1>2. PICK m \in U : \A k \in U : m <= k
  <2> HIDE DEF U
  <2> QED
    BY <1>1, HasLeast
<1>3. PICK g \in T : m = n - g
  BY <1>2
<1>4. ASSUME NEW k \in T PROVE k <= g
  <2>1. n - g <= n - k
    BY <1>2, <1>3
  <2> QED
    BY <2>1, k \in 0 .. n, g \in 0 .. n
<1>5. \E x \in T : \A y \in T : x >= y
  BY <1>4
<1>6. Max(T) \in T /\ \A y \in T : Max(T) >= y
  BY <1>5 DEF Max
<1> QED
  BY <1>6

\* What holds at 0 and goes from each number to the next holds up to n.
LEMMA FromEachToTheNext ==
  ASSUME NEW n \in Nat, NEW T, 0 \in T, \A i \in 1 .. n : i - 1 \in T => i \in T
  PROVE  \A i \in 0 .. n : i \in T
<1> DEFINE U == (0 .. n) \ T
<1> SUFFICES ASSUME U # {} PROVE FALSE
  OBVIOUS
<1>1. U \subseteq Nat
  OBVIOUS
<1>2. PICK m \in U : \A k \in U : m <= k
  <2> HIDE DEF U
  <2> QED
    BY <1>1, HasLeast
<1>3. m \in 1 .. n /\ m - 1 \notin U
  BY <1>2
<1> QED
  BY <1>2, <1>3

\* A loop of n rounds over the values V: round i makes G[i][v] of v.
Runs(f, n, a, G) == f[0] = a /\ \A i \in 1 .. n : f[i] = G[i][f[i - 1]]

\* Such a loop can be run to its end, whatever its rounds do.
LEMMA LoopsRun ==
  ASSUME NEW n \in Nat, NEW V, NEW a \in V, NEW G \in [1 .. n -> [V -> V]]
  PROVE  \E f \in [0 .. n -> V] : Runs(f, n, a, G)
<1> DEFINE Ran(k) == \E f \in [0 .. k -> V] : Runs(f, k, a, G)
           T == {k \in 0 .. n : Ran(k)}
<1>1. Ran(0)
  <2> DEFINE f == [i \in 0 .. 0 |-> a]
  <2>1. f \in [0 .. 0 -> V] /\ Runs(f, 0, a, G)
    BY DEF Runs
  <2> QED
    BY <2>1
<1>2. ASSUME NEW k \in 1 .. n, Ran(k - 1) PROVE Ran(k)
  <2>1. PICK f \in [0 .. k - 1 -> V] : Runs(f, k - 1, a, G)
    BY <1>2
  <2> DEFINE g == [i \in 0 .. k |-> IF i = k THEN G[k][f[k - 1]] ELSE f[i]]
  <2>2. /\ \A i \in 0 .. k - 1 : g[i] = f[i]
        /\ g[k] = G[k][f[k - 1]]
        /\ k - 1 \in 0 .. k - 1 /\ 0 \in 0 .. k - 1
    OBVIOUS
  <2>3. g \in [0 .. k -> V]
    BY <2>2
  <2> HIDE DEF g
  <2>4. g[0] = a
    BY <2>1, <2>2 DEF Runs
  <2>5. ASSUME NEW i \in 1 .. k PROVE g[i] = G[i][g[i - 1]]
    <3>1. CASE i = k
      BY <2>2, <3>1
    <3>2. CASE i # k
      <4>1. i \in 1 .. k - 1 /\ i \in 0 .. k - 1 /\ i - 1 \in 0 .. k - 1
        BY <3>2
      <4> QED
        BY <2>1, <2>2, <4>1 DEF Runs
    <3> QED
      BY <3>1, <3>2
  <2>6. Runs(g, k, a, G)
    BY <2>4, <2>5 DEF Runs
  <2> QED
    BY <2>3, <2>6
<1>3. 0 \in T /\ \A k \in 1 .. n : k - 1 \in T => k \in T
  <2> HIDE DEF Ran
  <2> QED
    BY <1>1, <1>2
<1>4. \A k \in 0 .. n : k \in T
  <2> HIDE DEF T
  <2> QED
    BY <1>3, FromEachToTheNext
<1> QED
  BY <1>4

-----------------------------------------------------------------------------
(* The sizes of files.                                                     *)

\* The size of some files is added up file by file, and is never negative.
LEMMA SizesAdd ==
  ASSUME NEW size \in [Paths -> Nat], NEW files
  PROVE  /\ TotalUpTo(size, files)[0] = 0
         /\ \A f \in Paths : TotalUpTo(size, files)[f] = TotalUpTo(size, files)[f - 1] + (IF f \in files THEN size[f] ELSE 0)
         /\ \A f \in 0 .. PathCount : TotalUpTo(size, files)[f] \in Nat
<1> DEFINE own(f) == IF f \in files THEN size[f] ELSE 0
           G == [f \in 1 .. PathCount |-> [v \in Nat |-> v + own(f)]]
           s == TotalUpTo(size, files)
           T == {f \in 0 .. PathCount : s[f] \in Nat}
<1>1. PathCount \in Nat /\ \A f \in 1 .. PathCount : own(f) \in Nat
  BY ThreadContextConstants DEF Paths
<1>2. \E u : u = [f \in 0 .. PathCount |-> IF f = 0 THEN 0 ELSE u[f - 1] + own(f)]
  <2> HIDE DEF own
  <2>1. G \in [1 .. PathCount -> [Nat -> Nat]]
    BY <1>1
  <2> HIDE DEF G
  <2>2. PICK u \in [0 .. PathCount -> Nat] : Runs(u, PathCount, 0, G)
    BY <1>1, <2>1, LoopsRun
  <2>3. ASSUME NEW f \in 0 .. PathCount PROVE u[f] = IF f = 0 THEN 0 ELSE u[f - 1] + own(f)
    <3>1. CASE f = 0
      BY <2>2, <3>1 DEF Runs
    <3>2. CASE f # 0
      <4>1. f \in 1 .. PathCount /\ f - 1 \in 0 .. PathCount
        BY <1>1, <3>2
      <4>2. u[f] = G[f][u[f - 1]] /\ u[f - 1] \in Nat
        BY <2>2, <4>1 DEF Runs
      <4> QED
        BY <3>2, <4>1, <4>2 DEF G
    <3> QED
      BY <3>1, <3>2
  <2>4. u = [f \in 0 .. PathCount |-> u[f]]
    OBVIOUS
  <2> QED
    BY <2>3, <2>4
<1>3. s = [f \in 0 .. PathCount |-> IF f = 0 THEN 0 ELSE s[f - 1] + own(f)]
  BY <1>2 DEF TotalUpTo
<1> HIDE DEF s
<1>4. s[0] = 0 /\ \A f \in 1 .. PathCount : s[f] = s[f - 1] + own(f)
  <2> HIDE DEF own
  <2> QED
    BY <1>1, <1>3
<1>5. 0 \in T /\ \A f \in 1 .. PathCount : f - 1 \in T => f \in T
  <2> HIDE DEF own
  <2> QED
    BY <1>1, <1>4
<1>6. \A f \in 0 .. PathCount : f \in T
  <2> HIDE DEF T
  <2> QED
    BY <1>1, <1>5, FromEachToTheNext
<1> QED
  BY <1>4, <1>6 DEF s, Paths

\* The size of some files is a number.
LEMMA SizeIsNumber ==
  ASSUME NEW size \in [Paths -> Nat], NEW files
  PROVE  Total(size, files) \in Nat
<1>1. \A f \in 0 .. PathCount : TotalUpTo(size, files)[f] \in Nat
  BY SizesAdd
<1>2. PathCount \in 0 .. PathCount
  BY ThreadContextConstants
<1> QED
  BY <1>1, <1>2 DEF Total

\* No files have no size.
LEMMA NothingHasNoSize ==
  ASSUME NEW size \in [Paths -> Nat]
  PROVE  Total(size, {}) = 0
<1> DEFINE s == TotalUpTo(size, {})
           T == {f \in 0 .. PathCount : s[f] = 0}
<1>1. PathCount \in Nat /\ s[0] = 0 /\ \A f \in 1 .. PathCount : s[f] = s[f - 1] + 0
  <2>1. s[0] = 0 /\ \A f \in Paths : s[f] = s[f - 1] + (IF f \in {} THEN size[f] ELSE 0)
    BY SizesAdd
  <2> HIDE DEF s
  <2> QED
    BY <2>1, ThreadContextConstants DEF Paths
<1> HIDE DEF s
<1>2. 0 \in T /\ \A f \in 1 .. PathCount : f - 1 \in T => f \in T
  BY <1>1
<1>3. PathCount \in T
  <2> HIDE DEF T
  <2> QED
    BY <1>1, <1>2, FromEachToTheNext
<1> QED
  BY <1>3 DEF Total, s

\* A file adds its size to those of others.
LEMMA OneMoreFile ==
  ASSUME NEW size \in [Paths -> Nat], NEW files, NEW f \in Paths, f \notin files
  PROVE  Total(size, files \union {f}) = Total(size, files) + size[f]
<1> DEFINE s == TotalUpTo(size, files)
           u == TotalUpTo(size, files \union {f})
           T == {k \in 0 .. PathCount : u[k] = s[k] + (IF f <= k THEN size[f] ELSE 0)}
<1>1. PathCount \in Nat /\ f \in 1 .. PathCount /\ \A k \in 1 .. PathCount : size[k] \in Nat
  <2>1. \A k \in Paths : size[k] \in Nat
    OBVIOUS
  <2> QED
    BY <2>1, ThreadContextConstants DEF Paths
<1>2. /\ s[0] = 0 /\ \A k \in 0 .. PathCount : s[k] \in Nat
      /\ \A k \in 1 .. PathCount : s[k] = s[k - 1] + (IF k \in files THEN size[k] ELSE 0)
  <2>1. /\ s[0] = 0 /\ \A k \in 0 .. PathCount : s[k] \in Nat
        /\ \A k \in Paths : s[k] = s[k - 1] + (IF k \in files THEN size[k] ELSE 0)
    BY SizesAdd
  <2> QED
    BY <2>1 DEF Paths
<1>3. /\ u[0] = 0
      /\ \A k \in 1 .. PathCount : u[k] = u[k - 1] + (IF k \in files \union {f} THEN size[k] ELSE 0)
  <2>1. /\ u[0] = 0
        /\ \A k \in Paths : u[k] = u[k - 1] + (IF k \in files \union {f} THEN size[k] ELSE 0)
    BY SizesAdd
  <2> QED
    BY <2>1 DEF Paths
<1> HIDE DEF s, u
<1>4. 0 \in T
  BY <1>1, <1>2, <1>3
<1>5. ASSUME NEW k \in 1 .. PathCount, k - 1 \in T PROVE k \in T
  <2>1. u[k - 1] = s[k - 1] + (IF f <= k - 1 THEN size[f] ELSE 0) /\ k - 1 \in 0 .. PathCount
    BY <1>5
  <2>2. s[k - 1] \in Nat /\ size[f] \in Nat /\ size[k] \in Nat
    BY <1>1, <1>2, <2>1
  <2>3. CASE k = f
    BY <1>1, <1>2, <1>3, <2>1, <2>2, <2>3
  <2>4. CASE k # f
    <3>1. (f <= k - 1) <=> (f <= k)
      BY <1>1, <2>4
    <3>2. k \in files \union {f} <=> k \in files
      BY <2>4
    <3> QED
      BY <1>1, <1>2, <1>3, <2>1, <2>2, <3>1, <3>2
  <2> QED
    BY <2>3, <2>4
<1>6. \A k \in 0 .. PathCount : k \in T
  <2> HIDE DEF T
  <2> QED
    BY <1>1, <1>4, <1>5, FromEachToTheNext
<1>7. u[PathCount] = s[PathCount] + size[f]
  BY <1>1, <1>6
<1> QED
  BY <1>7 DEF Total, s, u

\* More files are not smaller, nor are files whose every one is as large.
LEMMA MoreFiles ==
  ASSUME NEW size \in [Paths -> Nat], NEW large \in [Paths -> Nat], NEW files, NEW more, files \subseteq more,
         \A f \in Paths : f \in files => size[f] <= large[f]
  PROVE  Total(size, files) <= Total(large, more)
<1> DEFINE s == TotalUpTo(size, files)
           u == TotalUpTo(large, more)
           T == {k \in 0 .. PathCount : s[k] <= u[k]}
<1>1. /\ PathCount \in Nat
      /\ \A k \in 1 .. PathCount : size[k] \in Nat /\ large[k] \in Nat /\ (k \in files => size[k] <= large[k])
  <2>1. \A k \in Paths : size[k] \in Nat /\ large[k] \in Nat
    OBVIOUS
  <2> QED
    BY <2>1, ThreadContextConstants DEF Paths
<1>2. /\ s[0] = 0 /\ \A k \in 0 .. PathCount : s[k] \in Nat
      /\ \A k \in 1 .. PathCount : s[k] = s[k - 1] + (IF k \in files THEN size[k] ELSE 0)
  <2>1. /\ s[0] = 0 /\ \A k \in 0 .. PathCount : s[k] \in Nat
        /\ \A k \in Paths : s[k] = s[k - 1] + (IF k \in files THEN size[k] ELSE 0)
    BY SizesAdd
  <2> QED
    BY <2>1 DEF Paths
<1>3. /\ u[0] = 0 /\ \A k \in 0 .. PathCount : u[k] \in Nat
      /\ \A k \in 1 .. PathCount : u[k] = u[k - 1] + (IF k \in more THEN large[k] ELSE 0)
  <2>1. /\ u[0] = 0 /\ \A k \in 0 .. PathCount : u[k] \in Nat
        /\ \A k \in Paths : u[k] = u[k - 1] + (IF k \in more THEN large[k] ELSE 0)
    BY SizesAdd
  <2> QED
    BY <2>1 DEF Paths
<1> HIDE DEF s, u
<1>4. 0 \in T
  BY <1>1, <1>2, <1>3
<1>5. ASSUME NEW k \in 1 .. PathCount, k - 1 \in T PROVE k \in T
  <2>1. s[k - 1] <= u[k - 1] /\ k - 1 \in 0 .. PathCount
    BY <1>5
  <2>2. s[k - 1] \in Nat /\ u[k - 1] \in Nat /\ size[k] \in Nat /\ large[k] \in Nat
    BY <1>1, <1>2, <1>3, <2>1
  <2>3. CASE k \in files
    <3>1. k \in more /\ size[k] <= large[k]
      BY <1>1, <2>3
    <3> QED
      BY <1>2, <1>3, <2>1, <2>2, <2>3, <3>1
  <2>4. CASE k \notin files
    BY <1>2, <1>3, <2>1, <2>2, <2>4
  <2> QED
    BY <2>3, <2>4
<1>6. \A k \in 0 .. PathCount : k \in T
  <2> HIDE DEF T
  <2> QED
    BY <1>1, <1>4, <1>5, FromEachToTheNext
<1>7. s[PathCount] <= u[PathCount]
  BY <1>1, <1>6
<1> QED
  BY <1>7 DEF Total, s, u

-----------------------------------------------------------------------------
(* Lists of files.                                                         *)

\* What appending and joining does to a list of files.
LEMMA ListAppend ==
  ASSUME NEW list \in Seq(Paths), NEW f \in Paths
  PROVE  Append(list, f) \in Seq(Paths) /\ Range(Append(list, f)) = Range(list) \union {f}
<1> DEFINE r == Append(list, f)
<1>1. /\ r \in Seq(Paths) /\ Len(list) \in Nat /\ Len(r) = Len(list) + 1 /\ r[Len(list) + 1] = f
      /\ DOMAIN r = 1 .. Len(list) + 1 /\ DOMAIN list = 1 .. Len(list)
      /\ \A i \in 1 .. Len(list) : r[i] = list[i]
  OBVIOUS
<1> HIDE DEF r
<1>2. ASSUME NEW x PROVE x \in Range(r) <=> x \in Range(list) \/ x = f
  <2>1. x \in Range(r) <=> \E i \in 1 .. Len(list) + 1 : r[i] = x
    BY <1>1 DEF Range
  <2>2. x \in Range(list) <=> \E i \in 1 .. Len(list) : list[i] = x
    BY <1>1 DEF Range
  <2>3. (\E i \in 1 .. Len(list) + 1 : r[i] = x) <=> (\E i \in 1 .. Len(list) : r[i] = x) \/ r[Len(list) + 1] = x
    BY <1>1
  <2> QED
    BY <1>1, <2>1, <2>2, <2>3
<1>3. Range(r) = Range(list) \union {f}
  BY <1>2
<1> QED
  BY <1>1, <1>3 DEF r

\* Two lists of files, one after the other, hold the files of both.
LEMMA ListJoin ==
  ASSUME NEW a \in Seq(Paths), NEW b \in Seq(Paths)
  PROVE  a \o b \in Seq(Paths)
  BY ConcatProperties

\* The files of a set in their order: all of them and no others.
LEMMA OrderLists ==
  ASSUME NEW files
  PROVE  InPathOrder(files) \in Seq(Paths) /\ Range(InPathOrder(files)) = files \intersect Paths
<1> DEFINE more(f, v) == IF f \in files THEN Append(v, f) ELSE v
           G == [f \in 1 .. PathCount |-> [v \in Seq(Paths) |-> more(f, v)]]
           o == OrderUpTo(files)
           T == {f \in 0 .. PathCount : o[f] \in Seq(Paths) /\ Range(o[f]) = files \intersect (1 .. f)}
<1>1. PathCount \in Nat /\ <<>> \in Seq(Paths) /\ \A f \in 1 .. PathCount : \A v \in Seq(Paths) : more(f, v) \in Seq(Paths)
  <2>1. ASSUME NEW f \in 1 .. PathCount, NEW v \in Seq(Paths) PROVE more(f, v) \in Seq(Paths)
    <3>1. f \in Paths
      BY DEF Paths
    <3> QED
      BY <3>1, ListAppend
  <2>2. PathCount \in Nat /\ <<>> \in Seq(Paths)
    BY ThreadContextConstants
  <2> HIDE DEF more
  <2> QED
    BY <2>1, <2>2
<1>2. \E u : u = [f \in 0 .. PathCount |-> IF f = 0 THEN <<>> ELSE more(f, u[f - 1])]
  <2> HIDE DEF more
  <2>1. G \in [1 .. PathCount -> [Seq(Paths) -> Seq(Paths)]]
    BY <1>1
  <2> HIDE DEF G
  <2>2. PICK u \in [0 .. PathCount -> Seq(Paths)] : Runs(u, PathCount, <<>>, G)
    BY <1>1, <2>1, LoopsRun
  <2>3. ASSUME NEW f \in 0 .. PathCount PROVE u[f] = IF f = 0 THEN <<>> ELSE more(f, u[f - 1])
    <3>1. CASE f = 0
      BY <2>2, <3>1 DEF Runs
    <3>2. CASE f # 0
      <4>1. f \in 1 .. PathCount /\ f - 1 \in 0 .. PathCount
        BY <1>1, <3>2
      <4>2. u[f] = G[f][u[f - 1]] /\ u[f - 1] \in Seq(Paths)
        BY <2>2, <4>1 DEF Runs
      <4> QED
        BY <3>2, <4>1, <4>2 DEF G
    <3> QED
      BY <3>1, <3>2
  <2>4. u = [f \in 0 .. PathCount |-> u[f]]
    OBVIOUS
  <2> QED
    BY <2>3, <2>4
<1>3. o = [f \in 0 .. PathCount |-> IF f = 0 THEN <<>> ELSE more(f, o[f - 1])]
  BY <1>2 DEF OrderUpTo
<1> HIDE DEF o
<1>4. o[0] = <<>> /\ \A f \in 1 .. PathCount : o[f] = more(f, o[f - 1])
  <2> HIDE DEF more
  <2> QED
    BY <1>1, <1>3
<1>5. 0 \in T
  <2>1. Range(<<>>) = {}
    BY DEF Range
  <2>2. 1 .. 0 = {} /\ 0 \in 0 .. PathCount
    BY <1>1
  <2>3. o[0] \in Seq(Paths) /\ Range(o[0]) = files \intersect (1 .. 0)
    BY <1>1, <1>4, <2>1, <2>2
  <2> QED
    BY <2>2, <2>3
<1>6. ASSUME NEW f \in 1 .. PathCount, f - 1 \in T PROVE f \in T
  <2>1. o[f - 1] \in Seq(Paths) /\ Range(o[f - 1]) = files \intersect (1 .. f - 1) /\ f \in Paths
    BY <1>6 DEF Paths
  <2>2. 1 .. f = (1 .. f - 1) \union {f}
    OBVIOUS
  <2>3. CASE f \in files
    <3>1. o[f] = Append(o[f - 1], f)
      BY <1>4, <2>3
    <3>2. o[f] \in Seq(Paths) /\ Range(o[f]) = Range(o[f - 1]) \union {f}
      BY <2>1, <3>1, ListAppend
    <3> QED
      BY <2>1, <2>2, <2>3, <3>2
  <2>4. CASE f \notin files
    <3>1. o[f] = o[f - 1]
      BY <1>4, <2>4
    <3> QED
      BY <2>1, <2>2, <2>4, <3>1
  <2> QED
    BY <2>3, <2>4
<1>7. \A f \in 0 .. PathCount : f \in T
  <2> HIDE DEF T
  <2> QED
    BY <1>1, <1>5, <1>6, FromEachToTheNext
<1>8. o[PathCount] \in Seq(Paths) /\ Range(o[PathCount]) = files \intersect Paths
  BY <1>1, <1>7 DEF Paths
<1> QED
  BY <1>8 DEF InPathOrder, o

\* The list of a thread's files holds files, and that of no turns holds none.
LEMMA ThreadLists ==
  ASSUME NEW ts, Len(ts) \in Nat
  PROVE  FileList(ts) \in Seq(Paths) /\ (Len(ts) = 0 => FileList(ts) = <<>>)
<1> DEFINE more(n, v) == v \o InPathOrder(ts[Len(ts) - n + 1].files \ Range(v))
           G == [n \in 1 .. Len(ts) |-> [v \in Seq(Paths) |-> more(n, v)]]
           o == Listing(ts)
           T == {n \in 0 .. Len(ts) : o[n] \in Seq(Paths)}
<1>1. <<>> \in Seq(Paths) /\ \A n \in 1 .. Len(ts) : \A v \in Seq(Paths) : more(n, v) \in Seq(Paths)
  BY OrderLists, ListJoin
<1>2. \E u : u = [n \in 0 .. Len(ts) |-> IF n = 0 THEN <<>> ELSE more(n, u[n - 1])]
  <2> HIDE DEF more
  <2>1. G \in [1 .. Len(ts) -> [Seq(Paths) -> Seq(Paths)]]
    BY <1>1
  <2> HIDE DEF G
  <2>2. PICK u \in [0 .. Len(ts) -> Seq(Paths)] : Runs(u, Len(ts), <<>>, G)
    BY <1>1, <2>1, LoopsRun
  <2>3. ASSUME NEW n \in 0 .. Len(ts) PROVE u[n] = IF n = 0 THEN <<>> ELSE more(n, u[n - 1])
    <3>1. CASE n = 0
      BY <2>2, <3>1 DEF Runs
    <3>2. CASE n # 0
      <4>1. n \in 1 .. Len(ts) /\ n - 1 \in 0 .. Len(ts)
        BY <3>2
      <4>2. u[n] = G[n][u[n - 1]] /\ u[n - 1] \in Seq(Paths)
        BY <2>2, <4>1 DEF Runs
      <4> QED
        BY <3>2, <4>1, <4>2 DEF G
    <3> QED
      BY <3>1, <3>2
  <2>4. u = [n \in 0 .. Len(ts) |-> u[n]]
    OBVIOUS
  <2> QED
    BY <2>3, <2>4
<1>3. o = [n \in 0 .. Len(ts) |-> IF n = 0 THEN <<>> ELSE more(n, o[n - 1])]
  BY <1>2 DEF Listing
<1> HIDE DEF o
<1>4. o[0] = <<>> /\ \A n \in 1 .. Len(ts) : o[n] = more(n, o[n - 1])
  <2> HIDE DEF more
  <2> QED
    BY <1>3
<1>5. 0 \in T /\ \A n \in 1 .. Len(ts) : n - 1 \in T => n \in T
  <2> HIDE DEF more
  <2>1. ASSUME NEW n \in 1 .. Len(ts), n - 1 \in T PROVE n \in T
    <3>1. o[n - 1] \in Seq(Paths) /\ o[n] = more(n, o[n - 1])
      BY <1>4, <2>1
    <3>2. n \in 0 .. Len(ts)
      OBVIOUS
    <3> QED
      BY <1>1, <3>1, <3>2
  <2>2. o[0] \in Seq(Paths) /\ 0 \in 0 .. Len(ts)
    BY <1>1, <1>4
  <2> QED
    BY <2>1, <2>2
<1>6. \A n \in 0 .. Len(ts) : n \in T
  <2> HIDE DEF T
  <2> QED
    BY <1>5, FromEachToTheNext
<1>7. o[Len(ts)] \in Seq(Paths)
  BY <1>6
<1> QED
  BY <1>4, <1>7 DEF FileList, o

-----------------------------------------------------------------------------
(* Plans.                                                                  *)

\* The two ways to charge for a path: nothing is charged for a folder, and a file is read
\* for no more than it was charged.
LEMMA ChargesType ==
  /\ Estimated \in [Paths -> Nat]
  /\ Read \in [Paths -> Nat]
  /\ \A f \in Paths : f \notin Folders => Read[f] <= Estimated[f]
<1>1. \A f \in Paths : Size[f] \in Nat
  BY ThreadContextConstants DEF Paths
<1>2. NoteSize \in Nat /\ \A f \in Oversize : NoteSize <= Size[f]
  BY ThreadContextConstants
<1> QED
  BY <1>1, <1>2 DEF Estimated, Read

\* What paths stand for are files, and a file stands for itself.
LEMMA ExpandedFiles ==
  ASSUME NEW paths \in SUBSET Paths
  PROVE  /\ Expanded(paths) \in SUBSET Paths
         /\ Expanded(paths) \intersect Folders = {}
         /\ paths \intersect Folders = {} => Expanded(paths) = paths
<1>1. \A p \in Paths : Content[p] \subseteq Paths /\ \A f \in Content[p] : Content[f] = {f}
  BY ThreadContextConstants DEF Paths
<1>2. \A p \in paths : p \notin Folders => Content[p] = {p}
  BY DEF Folders
<1> QED
  BY <1>1, <1>2 DEF Expanded, Folders

\* A plan takes files of its list, as many as its budget allows; what it leaves out does
\* not fit beside what it takes.
LEMMA PlansFit ==
  ASSUME NEW list \in Seq(Paths), NEW size \in [Paths -> Nat], NEW budget \in Nat
  PROVE  /\ Planned(list, size, budget) \subseteq Range(list)
         /\ Planned(list, size, budget) \intersect Folders = {}
         /\ Total(size, Planned(list, size, budget)) <= budget
         /\ \A f \in Range(list) : f \notin Folders /\ f \notin Planned(list, size, budget) =>
               Total(size, Planned(list, size, budget)) + size[f] > budget
<1> DEFINE goes(v, f) == f \notin Folders /\ Total(size, v) + size[f] <= budget
           more(i, v) == IF goes(v, list[i]) THEN v \union {list[i]} ELSE v
           n == Len(list)
           G == [i \in 1 .. n |-> [v \in SUBSET Paths |-> more(i, v)]]
           o == Planning(list, size, budget)
           seen(i) == {list[j] : j \in 1 .. i}
           misfit(f, v) == f \notin Folders /\ f \notin v => Total(size, v) + size[f] > budget
           Fits(i) == /\ o[i] \subseteq seen(i) /\ o[i] \intersect Folders = {} /\ o[i] \in SUBSET Paths
                      /\ Total(size, o[i]) <= budget
                      /\ \A f \in seen(i) : misfit(f, o[i])
           T == {i \in 0 .. n : Fits(i)}
<1>1. /\ n \in Nat /\ {} \in SUBSET Paths
      /\ \A i \in 1 .. n : list[i] \in Paths
      /\ \A i \in 1 .. n : \A v \in SUBSET Paths : more(i, v) \in SUBSET Paths
  <2> HIDE DEF goes
  <2> QED
    OBVIOUS
<1> HIDE DEF n
<1>2. \E u : u = [i \in 0 .. n |-> IF i = 0 THEN {} ELSE more(i, u[i - 1])]
  <2> HIDE DEF more
  <2>1. G \in [1 .. n -> [SUBSET Paths -> SUBSET Paths]]
    BY <1>1
  <2> HIDE DEF G
  <2>2. PICK u \in [0 .. n -> SUBSET Paths] : Runs(u, n, {}, G)
    BY <1>1, <2>1, LoopsRun
  <2>3. ASSUME NEW i \in 0 .. n PROVE u[i] = IF i = 0 THEN {} ELSE more(i, u[i - 1])
    <3>1. CASE i = 0
      BY <2>2, <3>1 DEF Runs
    <3>2. CASE i # 0
      <4>1. i \in 1 .. n /\ i - 1 \in 0 .. n
        BY <1>1, <3>2
      <4>2. u[i] = G[i][u[i - 1]] /\ u[i - 1] \in SUBSET Paths
        BY <2>2, <4>1 DEF Runs
      <4> QED
        BY <3>2, <4>1, <4>2 DEF G
    <3> QED
      BY <3>1, <3>2
  <2>4. u = [i \in 0 .. n |-> u[i]]
    OBVIOUS
  <2> QED
    BY <2>3, <2>4
<1>3. o = [i \in 0 .. n |-> IF i = 0 THEN {} ELSE more(i, o[i - 1])]
  BY <1>2 DEF Planning, n
<1> HIDE DEF o
<1>4. o[0] = {} /\ \A i \in 1 .. n : o[i] = more(i, o[i - 1])
  <2> HIDE DEF more
  <2>1. n \in Nat /\ 0 \in 0 .. n /\ \A i \in 1 .. n : i \in 0 .. n /\ i # 0
    BY <1>1
  <2>2. \A i \in 0 .. n : o[i] = IF i = 0 THEN {} ELSE more(i, o[i - 1])
    BY <1>3
  <2> QED
    BY <2>1, <2>2
<1>5. 0 \in T
  <2>1. seen(0) = {} /\ 0 \in 0 .. n
    BY <1>1
  <2>2. Total(size, o[0]) <= budget
    BY <1>4, NothingHasNoSize
  <2> HIDE DEF seen
  <2>3. Fits(0)
    BY <1>4, <2>1, <2>2
  <2> QED
    BY <2>1, <2>3
<1>6. ASSUME NEW i \in 1 .. n, i - 1 \in T PROVE i \in T
  <2> DEFINE v == o[i - 1]
             f == list[i]
             w == o[i]
  <2>1. /\ v \subseteq seen(i - 1) /\ v \intersect Folders = {} /\ v \in SUBSET Paths
        /\ Total(size, v) <= budget
        /\ \A g \in seen(i - 1) : misfit(g, v)
    BY <1>6
  <2>2. w = IF goes(v, f) THEN v \union {f} ELSE v
    BY <1>4
  <2>3. seen(i) = seen(i - 1) \union {f} /\ seen(i) \subseteq Paths /\ f \in Paths
    <3>1. 1 .. i = (1 .. i - 1) \union {i} /\ 1 .. i \subseteq 1 .. n
      BY <1>1
    <3> QED
      BY <1>1, <3>1
  <2>4. Total(size, v) \in Nat /\ Total(size, w) \in Nat /\ \A g \in Paths : size[g] \in Nat
    BY SizeIsNumber
  <2> HIDE DEF v, f, w, seen
  <2>5. v \subseteq w /\ w \subseteq seen(i) /\ w \intersect Folders = {} /\ w \in SUBSET Paths
    BY <2>1, <2>2, <2>3
  <2>6. Total(size, v) <= Total(size, w)
    <3>1. \A g \in Paths : g \in v => size[g] <= size[g]
      BY <2>4
    <3> QED
      BY <2>5, <3>1, MoreFiles
  <2>7. Total(size, w) <= budget
    <3>1. CASE goes(v, f) /\ f \notin v
      <4>1. Total(size, w) = Total(size, v) + size[f]
        BY <2>2, <2>3, <3>1, OneMoreFile
      <4> QED
        BY <3>1, <4>1
    <3>2. CASE ~(goes(v, f) /\ f \notin v)
      <4>1. w = v
        BY <2>2, <3>2
      <4> QED
        BY <2>1, <4>1
    <3> QED
      BY <3>1, <3>2
  <2>8. ASSUME NEW g \in seen(i), g \notin Folders, g \notin w
        PROVE  Total(size, w) + size[g] > budget
    <3>1. g \notin v /\ g \in Paths
      BY <2>3, <2>5, <2>8
    <3>2. Total(size, v) + size[g] > budget
      <4>1. CASE g \in seen(i - 1)
        BY <2>1, <2>8, <3>1, <4>1
      <4>2. CASE g = f
        <5>1. ~goes(v, f)
          BY <2>2, <2>8, <4>2
        <5> QED
          BY <2>4, <2>8, <3>1, <4>2, <5>1
      <4> QED
        BY <2>3, <2>8, <4>1, <4>2
    <3> QED
      BY <2>4, <2>6, <3>1, <3>2
  <2>9. Fits(i)
    BY <2>5, <2>7, <2>8 DEF w
  <2> QED
    BY <1>1, <2>9
<1>7. \A i \in 0 .. n : i \in T
  <2> HIDE DEF T
  <2> QED
    BY <1>1, <1>5, <1>6, FromEachToTheNext
<1>8. seen(n) = Range(list)
  BY DEF Range, n
<1>9. Fits(n)
  BY <1>1, <1>7
<1> HIDE DEF seen
<1> QED
  BY <1>8, <1>9 DEF Planned, o, n

-----------------------------------------------------------------------------
(* Shares of a window.                                                     *)

\* History and files together have no more than the content's share, and the files no more than the history.
LEMMA SharesOfWindow ==
  ASSUME NEW m \in Models
  PROVE  /\ Allocation(m).content \in Nat /\ Allocation(m).files \in Nat /\ Allocation(m).history \in Nat
         /\ Allocation(m).files <= Allocation(m).history
         /\ Allocation(m).files + Allocation(m).history <= Allocation(m).content
         /\ Boundary(m) \in Nat
<1>1. Window[m] \in Nat /\ LargeWindow \in Nat /\ MidWindow \in Nat /\ HugeWindow \in Nat
  BY ThreadContextConstants
<1>2. ASSUME NEW n \in Nat, NEW p \in {30, 40, 50, 60, 70, 80} PROVE Percent(n, p) \in Nat
  <2>1. n * p \in Nat
    BY <1>2
  <2> QED
    BY <2>1 DEF Percent
<1>3. \A n \in Nat : /\ Percent(n, 30) <= Percent(n, 50) /\ Percent(n, 30) + Percent(n, 50) <= n
                     /\ Percent(n, 40) + Percent(n, 40) <= n
  <2>1. ASSUME NEW n \in Nat PROVE Percent(n, 30) <= Percent(n, 50)
    BY DEF Percent
  <2>2. ASSUME NEW n \in Nat PROVE Percent(n, 30) + Percent(n, 50) <= n
    BY DEF Percent
  <2>3. ASSUME NEW n \in Nat PROVE Percent(n, 40) + Percent(n, 40) <= n
    BY DEF Percent
  <2> QED
    BY <2>1, <2>2, <2>3
<1> DEFINE large == Window[m] >= LargeWindow
           c == Percent(Window[m], IF large THEN 80 ELSE 60)
<1>4. c \in Nat
  BY <1>1, <1>2
<1> HIDE DEF c
<1>5. /\ Allocation(m).content = c
      /\ Allocation(m).files = Percent(c, IF large THEN 40 ELSE 30)
      /\ Allocation(m).history = Percent(c, IF large THEN 40 ELSE 50)
  BY DEF Allocation, c
<1> HIDE DEF large
<1>6. Allocation(m).files \in Nat /\ Allocation(m).history \in Nat
  <2>1. Percent(c, 30) \in Nat /\ Percent(c, 40) \in Nat /\ Percent(c, 50) \in Nat
    BY <1>2, <1>4
  <2> QED
    BY <1>5, <2>1
<1>7. /\ Allocation(m).files <= Allocation(m).history
      /\ Allocation(m).files + Allocation(m).history <= c
  <2>1. CASE large
    BY <1>2, <1>3, <1>4, <1>5, <2>1
  <2>2. CASE ~large
    BY <1>2, <1>3, <1>4, <1>5, <2>2
  <2> QED
    BY <2>1, <2>2
<1>8. Boundary(m) \in Nat
  <2> DEFINE n == Allocation(m).files
  <2>1. n \in Nat
    BY <1>6
  <2> HIDE DEF n
  <2>2. Percent(n, 60) \in Nat /\ Percent(n, 70) \in Nat /\ Percent(n, 80) \in Nat
    BY <1>2, <2>1
  <2> QED
    BY <2>2 DEF Boundary, n
<1> QED
  BY <1>4, <1>5, <1>6, <1>7, <1>8

\* As many turns go in as fit beside the files, the newest first.
LEMMA TurnsThatFit ==
  ASSUME NEW ts, Len(ts) \in Nat, NEW taken \in Nat, NEW budget \in Nat
  PROVE  /\ TurnsWithin(ts, taken, budget) \in 0 .. Len(ts)
         /\ TurnsWithin(ts, taken, budget) # 0 => taken + TurnsWithin(ts, taken, budget) * TurnSize <= budget
         /\ \A k \in 1 .. Len(ts) : taken + k * TurnSize <= budget => k <= TurnsWithin(ts, taken, budget)
<1> DEFINE T == {0} \union {n \in 1 .. Len(ts) : taken + n * TurnSize <= budget}
<1>1. T \subseteq 0 .. Len(ts) /\ T # {}
  OBVIOUS
<1>2. Max(T) \in T /\ \A k \in T : k <= Max(T)
  <2> HIDE DEF T
  <2> QED
    BY <1>1, HasGreatest
<1>3. TurnsWithin(ts, taken, budget) = Max(T)
  BY DEF TurnsWithin
<1> QED
  BY <1>1, <1>2, <1>3

\* What a history shows fits its share; its files are the thread's; and its
\* turns fill what the files of the largest share would leave.
LEMMA HistoryFits ==
  ASSUME NEW ts, Len(ts) \in Nat, NEW m \in Models
  PROVE  LET h == History(ts, m)
             share == Allocation(m)
         IN  /\ h.files \subseteq Paths /\ h.files \subseteq Range(FileList(ts))
             /\ h.turns \in 0 .. Len(ts)
             /\ Total(Read, h.files) + h.turns * TurnSize <= share.history
             /\ h.turns >= Min({Len(ts), (share.history - share.files) \div TurnSize})
<1> DEFINE h == History(ts, m)
           F == Allocation(m).files
           H == Allocation(m).history
           S == Total(Read, h.files)
           room == (H - F) \div TurnSize
<1>1. F \in Nat /\ H \in Nat /\ F <= H /\ TurnSize \in Nat \ {0}
  BY SharesOfWindow, ThreadContextConstants
<1>2. h.files = Planned(FileList(ts), Estimated, F) /\ h.turns = TurnsWithin(ts, S, H)
  BY DEF History
<1>3. FileList(ts) \in Seq(Paths)
  BY ThreadLists
<1> HIDE DEF h, F, H
<1>5. Range(FileList(ts)) \subseteq Paths
  BY <1>3 DEF Range
<1>4. h.files \subseteq Range(FileList(ts)) /\ S <= F /\ S \in Nat
  <2>1. /\ h.files \subseteq Range(FileList(ts)) /\ h.files \intersect Folders = {}
        /\ Total(Estimated, h.files) <= F
    BY <1>1, <1>2, <1>3, ChargesType, PlansFit
  <2>2. \A f \in Paths : f \in h.files => Read[f] <= Estimated[f]
    BY <2>1, ChargesType
  <2>3. Total(Read, h.files) <= Total(Estimated, h.files)
    BY <2>2, ChargesType, MoreFiles
  <2>4. Total(Read, h.files) \in Nat /\ Total(Estimated, h.files) \in Nat
    BY ChargesType, SizeIsNumber
  <2> QED
    BY <1>1, <2>1, <2>3, <2>4
<1> HIDE DEF S
<1>6. /\ h.turns \in 0 .. Len(ts)
      /\ h.turns # 0 => S + h.turns * TurnSize <= H
      /\ \A k \in 1 .. Len(ts) : S + k * TurnSize <= H => k <= h.turns
  BY <1>1, <1>2, <1>4, TurnsThatFit
<1>7. S + h.turns * TurnSize <= H
  <2>1. CASE h.turns = 0
    BY <1>1, <1>4, <2>1
  <2> QED
    BY <1>6, <2>1
<1>8. h.turns >= Min({Len(ts), room})
  <2> DEFINE k == Min({Len(ts), room})
  <2>1. room \in Nat /\ room * TurnSize <= H - F
    <3>1. H - F \in Nat
      BY <1>1
    <3> HIDE DEF room
    <3>2. \A a \in Nat, t \in Nat \ {0} : a \div t \in Nat /\ (a \div t) * t <= a
      OBVIOUS
    <3> QED
      BY <3>1, <3>2, <1>1 DEF room
  <2> HIDE DEF room
  <2>2. k \in {Len(ts), room} /\ k <= Len(ts) /\ k <= room
    <3>1. \E x \in {Len(ts), room} : \A y \in {Len(ts), room} : x <= y
      <4> DEFINE n == Len(ts)
      <4>1. n \in Nat /\ room \in Nat
        BY <2>1
      <4> HIDE DEF n
      <4>2. n <= room \/ room <= n
        BY <4>1
      <4>3. \E x \in {n, room} : \A y \in {n, room} : x <= y
        BY <4>1, <4>2
      <4> QED
        BY <4>3 DEF n
    <3> QED
      BY <3>1 DEF Min
  <2> HIDE DEF k
  <2>3. k \in Nat
    BY <2>1, <2>2
  <2>4. ASSUME k = 0 PROVE k <= h.turns
    <3>1. h.turns \in Nat
      BY <1>6
    <3> QED
      BY <2>4, <3>1
  <2>5. ASSUME k # 0 PROVE k <= h.turns
    <3>1. k * TurnSize <= room * TurnSize
      <4>1. \A a, b \in Nat, t \in Nat : a <= b => a * t <= b * t
        OBVIOUS
      <4> QED
        BY <4>1, <1>1, <2>1, <2>2, <2>3
    <3>2. S + k * TurnSize <= H
      <4>1. k * TurnSize \in Nat /\ room * TurnSize \in Nat
        BY <1>1, <2>1, <2>3
      <4> DEFINE x == k * TurnSize
                 y == room * TurnSize
      <4>2. x \in Nat /\ y \in Nat /\ x <= y /\ y <= H - F
        BY <2>1, <3>1, <4>1
      <4> HIDE DEF x, y
      <4>3. S + x <= H
        BY <1>1, <1>4, <4>2
      <4> QED
        BY <4>3 DEF x
    <3>3. k \in 1 .. Len(ts)
      BY <2>2, <2>3, <2>5
    <3> QED
      BY <1>6, <3>2, <3>3
  <2>6. h.turns >= k
    <3>1. h.turns \in Nat
      BY <1>6
    <3> QED
      BY <2>3, <2>4, <2>5, <3>1
  <2> QED
    BY <2>6 DEF k
<1> QED
  BY <1>4, <1>5, <1>6, <1>7, <1>8 DEF h, F, H, S

\* The files of a request that are embedded are among those its paths stand for, and the
\* others do not fit.  In an ample window they fit their share, and without folders they
\* are all there when the boundary admits them.
LEMMA EmbeddedFit ==
  ASSUME NEW paths \in SUBSET Paths, NEW m \in Models
  PROVE  /\ Embedded(paths, m) \subseteq Expanded(paths)
         /\ \A f \in Expanded(paths) \ Embedded(paths, m) :
               Total(Read, Embedded(paths, m)) + Read[f] > FileBudget(m)
         /\ AmpleWindows =>
              /\ Total(Read, Embedded(paths, m)) <= Allocation(m).files
              /\ paths \intersect Folders = {} /\ FilesAdmitted(paths, m) => Embedded(paths, m) = paths
<1> DEFINE F == Allocation(m).files
           share == F - Reserve
           budget == FileBudget(m)
           all == Expanded(paths)
           some == Embedded(paths, m)
<1>1. F \in Nat /\ Reserve \in Nat /\ Boundary(m) \in Nat
  BY SharesOfWindow, ThreadContextConstants
<1>2. some = Planned(InPathOrder(all), Read, budget)
  BY DEF Embedded
<1>3. all \in SUBSET Paths /\ all \intersect Folders = {}
  BY ExpandedFiles
<1>4. InPathOrder(all) \in Seq(Paths) /\ Range(InPathOrder(all)) = all
  BY <1>3, OrderLists
<1>5. budget = (IF share < Reserve THEN Reserve ELSE share) /\ budget \in Nat
  BY <1>1 DEF FileBudget
<1> HIDE DEF F, share, budget, all, some
<1>6. /\ some \subseteq all /\ Total(Read, some) <= budget
      /\ \A f \in all \ some : Total(Read, some) + Read[f] > budget
  BY <1>2, <1>3, <1>4, <1>5, ChargesType, PlansFit
<1>7. Total(Read, some) \in Nat /\ \A f \in Paths : Read[f] \in Nat
  BY ChargesType, SizeIsNumber
<1>8. ASSUME AmpleWindows
      PROVE  /\ Total(Read, some) <= F
             /\ paths \intersect Folders = {} /\ FilesAdmitted(paths, m) => some = paths
  <2>1. share >= Reserve /\ share >= Boundary(m) /\ share <= F /\ share \in Nat
    BY <1>1, <1>8 DEF AmpleWindows, share, F
  <2>2. budget = share
    BY <1>1, <1>5, <2>1
  <2>3. Total(Read, some) <= F
    BY <1>1, <1>6, <1>7, <2>1, <2>2
  <2>4. ASSUME paths \intersect Folders = {}, FilesAdmitted(paths, m), NEW f \in all \ some PROVE FALSE
    <3>1. all = paths
      BY <2>4, ExpandedFiles DEF all
    <3>2. Total(Estimated, all) <= Boundary(m)
      BY <2>4, <3>1 DEF FilesAdmitted
    <3>3. Total(Read, all) <= Total(Estimated, all)
      <4>1. \A g \in Paths : g \in all => Read[g] <= Estimated[g]
        BY <1>3, ChargesType
      <4> QED
        BY <4>1, ChargesType, MoreFiles
    <3>4. Total(Read, some) + Read[f] <= Total(Read, all)
      <4>1. f \in Paths /\ f \notin some /\ some \union {f} \subseteq all
        BY <1>3, <1>6, <2>4
      <4>2. Total(Read, some \union {f}) = Total(Read, some) + Read[f]
        BY <4>1, ChargesType, OneMoreFile
      <4>3. Total(Read, some \union {f}) <= Total(Read, all)
        <5>1. \A g \in Paths : g \in some \union {f} => Read[g] <= Read[g]
          BY <1>7
        <5> QED
          BY <4>1, <5>1, ChargesType, MoreFiles
      <4> QED
        BY <4>2, <4>3
    <3>5. Total(Read, all) \in Nat /\ Total(Estimated, all) \in Nat /\ Read[f] \in Nat
      BY <1>3, <1>7, ChargesType, SizeIsNumber
    <3>6. Total(Read, some) + Read[f] > budget
      BY <1>6, <2>4
    <3> QED
      BY <1>1, <1>7, <2>1, <2>2, <3>2, <3>3, <3>4, <3>5, <3>6
  <2>5. ASSUME paths \intersect Folders = {}, FilesAdmitted(paths, m) PROVE some = paths
    <3>1. all = paths
      BY <2>5, ExpandedFiles DEF all
    <3> QED
      BY <1>6, <2>4, <2>5, <3>1
  <2> QED
    BY <2>3, <2>5
<1> QED
  BY <1>6, <1>8 DEF F, budget, all, some

\* What the model is shown of a request with those files and those turns.
PromptIsRight(p, new) ==
    LET share == Allocation(p.model) IN
    /\ p.model \in Models
    /\ p.history.files \intersect p.embedded \subseteq Expanded(p.for \intersect Folders)
    /\ p.history.turns >= Min({p.of, (share.history - share.files) \div TurnSize})
    /\ new => \A f \in Expanded(p.for) \ p.embedded : Total(Read, p.embedded) + Read[f] > FileBudget(p.model)
    /\ AmpleWindows =>
        /\ Total(Read, p.history.files) + p.history.turns * TurnSize + Total(Read, p.embedded) <= share.content
        /\ (new /\ p.for \intersect Folders = {} /\ FilesAdmitted(p.for, p.model)) => p.embedded = p.for

\* What PromptFor makes of a call is as it should be, whatever the thread, the files and the window are.
LEMMA PromptsAreRight ==
  ASSUME NEW c \in Calls, NEW t \in Maybe, NEW m \in Models, NEW files \in SUBSET Paths, NEW direct \in BOOLEAN,
         \A u \in Threads : turns[u] \in Seq(Turns),
         \A u \in Threads : Len(turns[u]) <= MaxTurns,
         \A u \in Threads : Len(Recorded(c, t, files)[u]) \in 0 .. MaxTurns
  PROVE  LET p == PromptFor(c, t, m, files, direct) IN p \in Prompts /\ PromptIsRight(p, t = NoThread)
<1> DEFINE for == FilesFor(t, files, direct)
           held == IF Alive(t) THEN Recorded(c, t, files)[t] ELSE <<>>
           told == IF Alive(t) /\ ~direct THEN turns[t] ELSE held
           embedded == IF Alive(t) /\ ~direct THEN {} ELSE Embedded(NewFiles(for, held), m)
           p == PromptFor(c, t, m, files, direct)
           share == Allocation(m)
<1>1. Len(held) \in 0 .. MaxTurns
  <2>1. CASE Alive(t)
    BY <2>1 DEF Alive
  <2>2. CASE ~Alive(t)
    BY <2>2, ToolCallConstants
  <2> QED
    BY <2>1, <2>2
<1>2. Len(told) \in 0 .. MaxTurns
  <2>1. CASE Alive(t) /\ ~direct
    <3>1. turns[t] \in Seq(Turns) /\ Len(turns[t]) <= MaxTurns
      BY <2>1 DEF Alive
    <3> QED
      BY <2>1, <3>1, LenProperties
  <2>2. CASE ~(Alive(t) /\ ~direct)
    <3>1. told = held
      BY <2>2
    <3> HIDE DEF held, told
    <3> QED
      BY <1>1, <3>1
  <2> QED
    BY <2>1, <2>2
<1>3. for \in SUBSET Paths
  <2>1. CASE files = {} /\ ~direct /\ Alive(t) /\ turns[t] # <<>>
    <3>1. turns[t] \in Seq(Turns)
      BY <2>1 DEF Alive
    <3>2. turns[t][1] \in Turns
      BY <2>1, <3>1
    <3> QED
      BY <2>1, <3>2 DEF FilesFor, Turns
  <2>2. CASE ~(files = {} /\ ~direct /\ Alive(t) /\ turns[t] # <<>>)
    BY <2>2 DEF FilesFor
  <2> QED
    BY <2>1, <2>2
<1>4. /\ p.model = m /\ p.for = for /\ p.history = History(told, m) /\ p.of = Len(told) /\ p.embedded = embedded
      /\ p = [model |-> m, for |-> for, history |-> History(told, m), of |-> Len(told), embedded |-> embedded]
  BY DEF PromptFor
<1> HIDE DEF for, held, told, p
<1>5. NewFiles(for, held) \in SUBSET Paths /\ NewFiles(for, held) = for \ Range(FileList(held))
  BY <1>3 DEF NewFiles
<1>6. Len(held) \in Nat /\ Len(told) \in Nat
  BY <1>1, <1>2
<1>7. /\ History(told, m).files \subseteq Paths /\ History(told, m).files \subseteq Range(FileList(told))
      /\ History(told, m).turns \in 0 .. Len(told)
      /\ Total(Read, History(told, m).files) + History(told, m).turns * TurnSize <= share.history
      /\ History(told, m).turns >= Min({Len(told), (share.history - share.files) \div TurnSize})
  BY <1>6, HistoryFits
<1>8. /\ embedded \subseteq Paths
      /\ AmpleWindows => Total(Read, embedded) <= share.files
      /\ embedded # {} => told = held /\ embedded \subseteq Expanded(for \ Range(FileList(held)))
  <2>1. CASE Alive(t) /\ ~direct
    <3>1. embedded = {} /\ share.files \in Nat
      BY <2>1, SharesOfWindow
    <3> HIDE DEF embedded
    <3>2. Total(Read, embedded) = 0
      BY <3>1, ChargesType, NothingHasNoSize
    <3>3. Total(Read, embedded) <= share.files
      BY <3>1, <3>2
    <3> QED
      BY <3>1, <3>3
  <2>2. CASE ~(Alive(t) /\ ~direct)
    <3>1. embedded = Embedded(NewFiles(for, held), m) /\ told = held
      BY <2>2 DEF told
    <3> HIDE DEF embedded
    <3>2. Expanded(NewFiles(for, held)) \in SUBSET Paths
      BY <1>5, ExpandedFiles
    <3> QED
      BY <1>5, <3>1, <3>2, EmbeddedFit
  <2> QED
    BY <2>1, <2>2
<1>9. p \in Prompts
  <2>1. History(told, m) = [files |-> History(told, m).files, turns |-> History(told, m).turns]
    BY DEF History
  <2>2. History(told, m).turns \in 0 .. MaxTurns
    BY <1>2, <1>7, ToolCallConstants
  <2>3. History(told, m) \in [files : SUBSET Paths, turns : 0 .. MaxTurns]
    BY <1>7, <2>1, <2>2
  <2> HIDE DEF embedded
  <2> QED
    BY <1>2, <1>3, <1>4, <1>8, <2>3 DEF Prompts
<1>10. p.history.files \intersect p.embedded \subseteq Expanded(p.for \intersect Folders)
  <2> HIDE DEF embedded
  <2>1. ASSUME NEW f \in p.history.files, f \in p.embedded PROVE f \in Expanded(for \intersect Folders)
    <3>1. f \in Range(FileList(held)) /\ f \in Expanded(for \ Range(FileList(held)))
      BY <1>4, <1>7, <1>8, <2>1
    <3>2. PICK q \in for : q \notin Range(FileList(held)) /\ f \in Content[q]
      BY <3>1 DEF Expanded
    <3>3. q \in Folders
      BY <1>3, <3>1, <3>2 DEF Folders
    <3> QED
      BY <3>2, <3>3 DEF Expanded
  <2> QED
    BY <1>4, <2>1
<1>11. ASSUME AmpleWindows
       PROVE  Total(Read, p.history.files) + p.history.turns * TurnSize + Total(Read, p.embedded) <= share.content
  <2> DEFINE x == Total(Read, History(told, m).files)
             y == History(told, m).turns * TurnSize
             z == Total(Read, embedded)
  <2>1. x \in Nat /\ z \in Nat
    BY ChargesType, SizeIsNumber
  <2>2. y \in Nat
    <3>1. History(told, m).turns \in Nat /\ TurnSize \in Nat
      BY <1>6, <1>7, ThreadContextConstants
    <3> QED
      BY <3>1
  <2>3. x + y <= share.history /\ z <= share.files
    BY <1>7, <1>8, <1>11
  <2>4. /\ share.content \in Nat /\ share.files \in Nat /\ share.history \in Nat
        /\ share.files + share.history <= share.content
    BY SharesOfWindow
  <2> HIDE DEF x, y, z, share
  <2>5. x + y + z <= share.content
    BY <2>1, <2>2, <2>3, <2>4
  <2>6. p.history.files = History(told, m).files /\ p.history.turns = History(told, m).turns /\ p.embedded = embedded
    BY <1>4
  <2> HIDE DEF embedded
  <2> QED
    BY <2>5, <2>6 DEF x, y, z
<1>12. p.history.turns >= Min({p.of, (share.history - share.files) \div TurnSize})
  BY <1>4, <1>7
<1>13. ASSUME t = NoThread PROVE p.embedded = Embedded(for, m)
  <2>1. ~Alive(t)
    BY <1>13, ToolCallConstants DEF Alive
  <2>2. held = <<>> /\ embedded = Embedded(NewFiles(for, held), m)
    BY <2>1 DEF held
  <2>3. Range(FileList(held)) = {}
    <3>1. FileList(held) = <<>>
      BY <1>6, <2>2, ThreadLists
    <3> QED
      BY <3>1 DEF Range
  <2>4. NewFiles(for, held) = for
    BY <1>5, <2>3
  <2> HIDE DEF embedded
  <2> QED
    BY <1>4, <2>2, <2>4
<1>14. /\ t = NoThread => \A f \in Expanded(p.for) \ p.embedded : Total(Read, p.embedded) + Read[f] > FileBudget(p.model)
       /\ (AmpleWindows /\ t = NoThread /\ p.for \intersect Folders = {} /\ FilesAdmitted(p.for, p.model)) => p.embedded = p.for
  <2> HIDE DEF embedded
  <2> QED
    BY <1>3, <1>4, <1>13, EmbeddedFit
<1> HIDE DEF embedded
<1> QED
  BY <1>4, <1>9, <1>10, <1>11, <1>12, <1>14 DEF PromptIsRight, p

-----------------------------------------------------------------------------
(* The invariant of the prompts.                                           *)

\* A call that waits has a prompt as it should be, for a model that is there, and the instance
\* has one to credit; answers in a thread are credited to such.
PromptInv ==
    /\ TypeOK
    /\ \A t \in Threads : \A i \in DOMAIN turns[t] : IsAnswer(turns[t][i]) => turns[t][i].model \in Models
    /\ \A c \in Calls :
        IF Waiting(c) THEN current \in Models /\ PromptIsRight(prompt[c], call[c].thread = NoThread)
                      ELSE prompt[c] = NoPrompt

\* A turn that is added has its place at the end of a thread, and is well-typed as all others.
LEMMA AddedTurns ==
  ASSUME TypeOK, NEW t \in Maybe, NEW turn \in Turns
  PROVE  LET new == Added(t, turn) IN
         /\ new \in [Threads -> Seq(Turns)]
         /\ \A u \in Threads : Len(new[u]) <= MaxTurns
         /\ \A u \in Threads : \A i \in DOMAIN new[u] : new[u][i] = turn \/ (i \in DOMAIN turns[u] /\ new[u][i] = turns[u][i])
<1>1. CASE Alive(t) /\ Len(turns[t]) < MaxTurns
  <2> DEFINE s == turns[t]
             new == [turns EXCEPT ![t] = Append(s, turn)]
  <2>1. t \in Threads /\ s \in Seq(Turns) /\ Len(s) < MaxTurns /\ Len(s) \in Nat
    BY <1>1 DEF Alive, TypeOK
  <2>2. /\ Append(s, turn) \in Seq(Turns) /\ Len(Append(s, turn)) = Len(s) + 1
        /\ \A i \in DOMAIN Append(s, turn) : Append(s, turn)[i] = turn \/ (i \in DOMAIN s /\ Append(s, turn)[i] = s[i])
    BY <2>1
  <2>3. Len(Append(s, turn)) <= MaxTurns
    BY <2>1, <2>2, ToolCallConstants
  <2>4. Added(t, turn) = new
    BY <1>1 DEF Added
  <2>5. /\ new \in [Threads -> Seq(Turns)] /\ new[t] = Append(s, turn)
        /\ \A u \in Threads \ {t} : new[u] = turns[u]
    BY <2>1, <2>2 DEF TypeOK
  <2> HIDE DEF new
  <2> QED
    BY <2>2, <2>3, <2>4, <2>5 DEF TypeOK
<1>2. CASE ~(Alive(t) /\ Len(turns[t]) < MaxTurns)
  BY <1>2 DEF Added, TypeOK
<1> QED
  BY <1>1, <1>2

\* The model that a call is for is there.
LEMMA ResolvedModelIsThere ==
  ASSUME PromptInv, NEW t \in Maybe, NEW m \in Models \union {NoModel}, NEW direct \in BOOLEAN
  PROVE  ResolvedModel(t, m, direct) \in Models
<1>1. DefaultModel \in Models
  BY ToolCallConstants
<1>2. ASSUME Alive(t) PROVE ModelOfThread(t) \in Models
  <2> DEFINE answers == {i \in DOMAIN turns[t] : IsAnswer(turns[t][i])}
  <2>1. t \in Threads /\ turns[t] \in Seq(Turns) /\ Len(turns[t]) \in Nat
    BY <1>2 DEF Alive, PromptInv, TypeOK
  <2>2. answers \subseteq 0 .. Len(turns[t])
    BY <2>1
  <2>3. CASE answers # {}
    <3>1. Max(answers) \in answers
      <4> HIDE DEF answers
      <4> QED
        BY <2>1, <2>2, <2>3, HasGreatest
    <3>2. turns[t][Max(answers)].model \in Models
      BY <2>1, <3>1 DEF PromptInv
    <3> QED
      BY <2>3, <3>2 DEF ModelOfThread
  <2>4. CASE answers = {}
    BY <1>1, <2>4 DEF ModelOfThread
  <2> QED
    BY <2>3, <2>4
<1> QED
  BY <1>1, <1>2 DEF ResolvedModel

\* Calls, once begun, have their state and their thread; what one does leaves the others waiting as they were.
LEMMA CallMoves ==
  ASSUME TypeOK, NEW c \in Calls, NEW pc \in Stages, NEW t \in Maybe,
         \/ call' = [call EXCEPT ![c].pc = pc] /\ t = call[c].thread
         \/ call' = [call EXCEPT ![c].pc = pc, ![c].thread = t]
  PROVE  /\ call' \in [Calls -> CallStates]
         /\ call'[c].pc = pc /\ call'[c].thread = t
         /\ \A d \in Calls \ {c} : call'[d] = call[d]
<1>1. call \in [Calls -> CallStates]
  BY DEF TypeOK
<1> QED
  BY <1>1 DEF CallStates

\* The invariant holds initially.
LEMMA InitPromptInv == Init => PromptInv
<1> SUFFICES ASSUME Init PROVE PromptInv
  OBVIOUS
<1>1. 0 \in 0 .. MaxTurns
  BY ToolCallConstants
<1>2. NoPrompt \in Prompts
  BY <1>1 DEF NoPrompt, NoHistory, Prompts
<1>3. TypeOK
  <2>1. \A t \in Threads : turns[t] \in Seq(Turns) /\ Len(turns[t]) <= MaxTurns
    BY ToolCallConstants DEF Init
  <2> QED
    BY <1>2, <2>1 DEF Init, TypeOK, CallStates, Stages, Maybe
<1>4. \A c \in Calls : ~Waiting(c) /\ prompt[c] = NoPrompt
  BY DEF Init, Waiting
<1>5. \A t \in Threads : DOMAIN turns[t] = {}
  BY DEF Init
<1> QED
  BY <1>3, <1>4, <1>5 DEF PromptInv

\* A question is put, or the call is turned down with its question on the thread.
LEMMA BeginningKeepsPromptInv ==
  ASSUME PromptInv, NEW c \in Calls, NEW t \in Maybe, NEW m \in Models \union {NoModel}, NEW files \in SUBSET Paths,
         NEW direct \in BOOLEAN, Asks(c, t, m, files, direct) \/ TurnedDown(c, t, m, files, direct)
  PROVE  PromptInv'
<1> DEFINE q == Question(c, files)
<1>1. TypeOK
  BY DEF PromptInv
<1>2. q \in Turns /\ ~IsAnswer(q)
  BY DEF Question, Turns, IsAnswer
<1>3. call[c].pc = "new" /\ ~Waiting(c) /\ prompt[c] = NoPrompt /\ turns' = Added(t, q) /\ status' = status
  BY DEF Asks, TurnedDown, Recorded, Waiting, PromptInv
<1> HIDE DEF q
<1>4. /\ turns' \in [Threads -> Seq(Turns)]
      /\ \A u \in Threads : Len(turns'[u]) <= MaxTurns
      /\ \A u \in Threads : \A i \in DOMAIN turns'[u] : turns'[u][i] = q \/ (i \in DOMAIN turns[u] /\ turns'[u][i] = turns[u][i])
  BY <1>1, <1>2, <1>3, AddedTurns
<1>5. \A u \in Threads : \A i \in DOMAIN turns'[u] : IsAnswer(turns'[u][i]) => turns'[u][i].model \in Models
  BY <1>2, <1>4 DEF PromptInv
<1>6. ResolvedModel(t, m, direct) \in Models
  BY ResolvedModelIsThere
<1>7. CASE Asks(c, t, m, files, direct)
  <2> DEFINE p == PromptFor(c, t, ResolvedModel(t, m, direct), files, direct)
  <2>1. /\ current' = ResolvedModel(t, m, direct) /\ prompt' = [prompt EXCEPT ![c] = p]
        /\ call' = [call EXCEPT ![c].pc = "asking", ![c].thread = t]
    BY <1>7 DEF Asks
  <2>2. p \in Prompts /\ PromptIsRight(p, t = NoThread)
    <3>1. \A u \in Threads : turns[u] \in Seq(Turns) /\ Len(turns[u]) <= MaxTurns
      BY <1>1 DEF TypeOK
    <3>2. \A u \in Threads : Len(Recorded(c, t, files)[u]) \in 0 .. MaxTurns
      <4>1. Recorded(c, t, files) = turns'
        BY <1>3 DEF Recorded, q
      <4>2. \A u \in Threads : Len(turns'[u]) \in Nat /\ Len(turns'[u]) <= MaxTurns
        BY <1>4
      <4> QED
        BY <4>1, <4>2, ToolCallConstants
    <3> QED
      BY <1>6, <3>1, <3>2, PromptsAreRight
  <2> HIDE DEF p
  <2>3. /\ call' \in [Calls -> CallStates] /\ call'[c].pc = "asking" /\ call'[c].thread = t
        /\ \A d \in Calls \ {c} : call'[d] = call[d]
    BY <1>1, <2>1, CallMoves DEF Stages, Maybe
  <2>4. /\ prompt' \in [Calls -> Prompts] /\ prompt'[c] = p
        /\ \A d \in Calls \ {c} : prompt'[d] = prompt[d]
    BY <1>1, <2>1, <2>2 DEF TypeOK
  <2>5. TypeOK'
    BY <1>1, <1>3, <1>4, <1>6, <2>1, <2>3, <2>4 DEF TypeOK
  <2>6. ASSUME NEW d \in Calls
        PROVE  IF Waiting(d)' THEN current' \in Models /\ PromptIsRight(prompt'[d], call'[d].thread = NoThread)
                              ELSE prompt'[d] = NoPrompt
    <3>1. CASE d = c
      BY <1>6, <2>1, <2>2, <2>3, <2>4, <3>1 DEF Waiting
    <3>2. CASE d # c
      BY <1>6, <2>1, <2>3, <2>4, <3>2 DEF PromptInv, Waiting
    <3> QED
      BY <3>1, <3>2
  <2> QED
    BY <1>5, <2>5, <2>6 DEF PromptInv
<1>8. CASE TurnedDown(c, t, m, files, direct)
  <2>1. /\ current' \in Models \/ current' = current
        /\ call' = [call EXCEPT ![c].pc = "failed", ![c].thread = t] /\ prompt' = prompt
    BY <1>6, <1>8 DEF TurnedDown
  <2>2. /\ call' \in [Calls -> CallStates] /\ call'[c].pc = "failed" /\ call'[c].thread = t
        /\ \A d \in Calls \ {c} : call'[d] = call[d]
    BY <1>1, <2>1, CallMoves DEF Stages, Maybe
  <2>3. TypeOK'
    BY <1>1, <1>3, <1>4, <2>1, <2>2 DEF TypeOK
  <2>4. ASSUME NEW d \in Calls
        PROVE  IF Waiting(d)' THEN current' \in Models /\ PromptIsRight(prompt'[d], call'[d].thread = NoThread)
                              ELSE prompt'[d] = NoPrompt
    <3>1. CASE d = c
      BY <1>3, <2>1, <2>2, <3>1 DEF Waiting
    <3>2. CASE d # c
      BY <2>1, <2>2, <3>2 DEF PromptInv, Waiting
    <3> QED
      BY <3>1, <3>2
  <2> QED
    BY <1>5, <2>3, <2>4 DEF PromptInv
<1> QED
  BY <1>7, <1>8

\* Calls end, or go on waiting, with the prompt they have.
LEMMA EndingKeepsPromptInv ==
  ASSUME PromptInv, NEW c \in Calls, NEW pc \in Stages, NEW offer \in Maybe, Waiting(c), current' = current,
         \/ call' = [call EXCEPT ![c].pc = pc]
         \/ call' = [call EXCEPT ![c].pc = pc, ![c].offer = offer],
         \/ pc = "retrying" /\ prompt' = prompt
         \/ pc \in {"answered", "failed"} /\ prompt' = [prompt EXCEPT ![c] = NoPrompt],
         status' \in [Threads -> {"unborn", "stored", "gone"}],
         turns' \in [Threads -> Seq(Turns)],
         \A t \in Threads : Len(turns'[t]) <= MaxTurns,
         \A t \in Threads : \A i \in DOMAIN turns'[t] : IsAnswer(turns'[t][i]) => turns'[t][i].model \in Models
  PROVE  PromptInv'
<1>1. TypeOK /\ call[c].thread \in Maybe /\ call[c].offer \in Maybe
  BY DEF PromptInv, TypeOK, CallStates
<1>2. /\ call' \in [Calls -> CallStates] /\ call'[c].pc = pc /\ call'[c].thread = call[c].thread
      /\ \A d \in Calls \ {c} : call'[d] = call[d]
  <2>1. call \in [Calls -> CallStates] /\ call[c] \in CallStates
    BY <1>1 DEF TypeOK
  <2>2. ASSUME NEW e, e = [call[c] EXCEPT !.pc = pc] \/ e = [call[c] EXCEPT !.pc = pc, !.offer = offer]
        PROVE  e \in CallStates /\ e.pc = pc /\ e.thread = call[c].thread
    BY <2>1, <2>2 DEF CallStates
  <2>3. PICK e : /\ e = [call[c] EXCEPT !.pc = pc] \/ e = [call[c] EXCEPT !.pc = pc, !.offer = offer]
                 /\ call' = [call EXCEPT ![c] = e]
    <3>1. CASE call' = [call EXCEPT ![c].pc = pc]
      BY <3>1
    <3>2. CASE call' = [call EXCEPT ![c].pc = pc, ![c].offer = offer]
      <4> DEFINE e == [call[c] EXCEPT !.pc = pc, !.offer = offer]
      <4>1. call' = [call EXCEPT ![c] = e]
        BY <2>1, <3>2
      <4> QED
        BY <4>1
    <3> QED
      BY <3>1, <3>2
  <2>4. e \in CallStates /\ e.pc = pc /\ e.thread = call[c].thread
    BY <2>2, <2>3
  <2> QED
    BY <2>1, <2>3, <2>4
<1>3. NoPrompt \in Prompts
  <2>1. 0 \in 0 .. MaxTurns
    BY ToolCallConstants
  <2> QED
    BY <2>1 DEF NoPrompt, NoHistory, Prompts
<1>4. /\ prompt' \in [Calls -> Prompts]
      /\ prompt'[c] = IF pc = "retrying" THEN prompt[c] ELSE NoPrompt
      /\ \A d \in Calls \ {c} : prompt'[d] = prompt[d]
  BY <1>1, <1>3 DEF TypeOK
<1>5. TypeOK'
  BY <1>1, <1>2, <1>4 DEF TypeOK
<1>6. ASSUME NEW d \in Calls
      PROVE  IF Waiting(d)' THEN current' \in Models /\ PromptIsRight(prompt'[d], call'[d].thread = NoThread)
                            ELSE prompt'[d] = NoPrompt
  <2>1. CASE d = c
    BY <1>2, <1>4, <2>1 DEF PromptInv, Waiting
  <2>2. CASE d # c
    BY <1>2, <1>4, <2>2 DEF PromptInv, Waiting
  <2> QED
    BY <2>1, <2>2
<1> QED
  BY <1>5, <1>6 DEF PromptInv

\* Every step keeps the invariant.
LEMMA NextKeepsPromptInv == PromptInv /\ [Next]_vars => PromptInv'
<1> SUFFICES ASSUME PromptInv, [Next]_vars PROVE PromptInv'
  OBVIOUS
<1> DEFINE Credit == \A t \in Threads : \A i \in DOMAIN turns[t] : IsAnswer(turns[t][i]) => turns[t][i].model \in Models
<1>1. /\ TypeOK /\ Credit
      /\ status \in [Threads -> {"unborn", "stored", "gone"}]
      /\ turns \in [Threads -> Seq(Turns)]
      /\ \A t \in Threads : Len(turns[t]) <= MaxTurns
      /\ \A c \in Calls : call[c].thread \in Maybe
      /\ NoThread \in Maybe
  BY DEF PromptInv, TypeOK, CallStates, Maybe
<1>2. ASSUME NEW c \in Calls, Waiting(c)
      PROVE  /\ Credited(c) \in Turns /\ Credited(c).model \in Models
             /\ \A files \in SUBSET Paths : Question(c, files) \in Turns /\ ~IsAnswer(Question(c, files))
             /\ prompt[c].for \in SUBSET Paths
  BY <1>1, <1>2 DEF PromptInv, TypeOK, Prompts, Credited, Answer, Question, IsAnswer, Turns
<1>3. ASSUME NEW t \in Threads, Forget(t) PROVE PromptInv'
  <2>1. /\ UNCHANGED <<current, call, prompt>>
        /\ status' \in [Threads -> {"unborn", "stored", "gone"}]
        /\ turns' = [turns EXCEPT ![t] = <<>>]
    BY <1>1, <1>3 DEF Forget
  <2>2. turns' \in [Threads -> Seq(Turns)] /\ turns'[t] = <<>> /\ \A u \in Threads \ {t} : turns'[u] = turns[u]
    BY <1>1, <2>1
  <2>3. (\A u \in Threads : Len(turns'[u]) <= MaxTurns) /\ Credit'
    <3>1. Len(turns'[t]) = 0 /\ DOMAIN turns'[t] = {}
      BY <2>2
    <3>2. ASSUME NEW u \in Threads PROVE Len(turns'[u]) <= MaxTurns
      <4>1. CASE u = t
        BY <3>1, <4>1, ToolCallConstants
      <4>2. CASE u # t
        BY <1>1, <2>2, <4>2
      <4> QED
        BY <4>1, <4>2
    <3>3. Credit'
      BY <1>1, <2>2, <3>1
    <3> QED
      BY <3>2, <3>3
  <2>4. TypeOK'
    BY <1>1, <2>1, <2>2, <2>3 DEF TypeOK
  <2> QED
    BY <2>1, <2>3, <2>4 DEF PromptInv, Waiting
<1>4. ASSUME NEW c \in Calls, NEW t \in Maybe, NEW m \in Models \union {NoModel}, NEW files \in Requests,
             NEW direct \in BOOLEAN, Asks(c, t, m, files, direct) \/ TurnedDown(c, t, m, files, direct)
      PROVE  PromptInv'
  <2>1. files \in SUBSET Paths
    BY <1>4, ToolCallConstants
  <2> QED
    BY <1>4, <2>1, BeginningKeepsPromptInv
<1>5. ASSUME NEW c \in Calls, NEW t \in Maybe, Refused(c, t) PROVE PromptInv'
  <2>1. /\ call[c].pc = "new" /\ call' = [call EXCEPT ![c].pc = "failed", ![c].thread = t]
        /\ UNCHANGED <<current, prompt, status, turns>>
    BY <1>5 DEF Refused
  <2>2. /\ call' \in [Calls -> CallStates] /\ call'[c].pc = "failed"
        /\ \A d \in Calls \ {c} : call'[d] = call[d]
    BY <1>1, <2>1, CallMoves DEF Stages, Maybe
  <2>3. TypeOK'
    BY <1>1, <2>1, <2>2 DEF TypeOK
  <2> QED
    BY <2>1, <2>2, <2>3 DEF PromptInv, Waiting
<1>6. ASSUME NEW c \in Calls, EmptyAnswer(c) PROVE PromptInv'
  <2>1. Waiting(c) /\ "retrying" \in Stages
    BY <1>6 DEF EmptyAnswer, Waiting, Stages
  <2> QED
    BY <1>1, <1>6, <2>1, EndingKeepsPromptInv DEF EmptyAnswer
<1>7. ASSUME NEW c \in Calls, Fails(c) PROVE PromptInv'
  <2>1. "failed" \in Stages
    BY DEF Stages
  <2> QED
    BY <1>1, <1>7, <2>1, EndingKeepsPromptInv DEF Fails
<1>8. ASSUME NEW c \in Calls, ReplyOnThread(c) PROVE PromptInv'
  <2> DEFINE t == call[c].thread
             a == Credited(c)
             offer == IF Offered(t, turns'[t]) THEN t ELSE NoThread
  <2>1. /\ Waiting(c) /\ turns' = Added(t, a) /\ UNCHANGED <<current, status>>
        /\ call' = [call EXCEPT ![c].pc = "answered", ![c].offer = offer]
        /\ prompt' = [prompt EXCEPT ![c] = NoPrompt]
        /\ t \in Maybe /\ offer \in Maybe /\ "answered" \in Stages
    BY <1>1, <1>8 DEF ReplyOnThread, Stages
  <2>2. a \in Turns /\ a.model \in Models
    BY <1>2, <2>1
  <2> HIDE DEF t, a, offer
  <2>3. /\ turns' \in [Threads -> Seq(Turns)]
        /\ \A u \in Threads : Len(turns'[u]) <= MaxTurns
        /\ \A u \in Threads : \A i \in DOMAIN turns'[u] :
             turns'[u][i] = a \/ (i \in DOMAIN turns[u] /\ turns'[u][i] = turns[u][i])
    BY <1>1, <2>1, <2>2, AddedTurns
  <2>4. Credit'
    BY <1>1, <2>2, <2>3
  <2> QED
    BY <1>1, <2>1, <2>3, <2>4, EndingKeepsPromptInv
<1>9. ASSUME NEW c \in Calls, NEW born \in Maybe, ReplyWithThread(c, born) PROVE PromptInv'
  <2>1. /\ Waiting(c) /\ current' = current /\ prompt' = [prompt EXCEPT ![c] = NoPrompt]
        /\ call' = [call EXCEPT ![c].pc = "answered", ![c].offer = born]
        /\ status' = [t \in Threads |-> IF t = born THEN "stored" ELSE status[t]]
        /\ turns' = [t \in Threads |-> IF t = born THEN Opening(c) ELSE turns[t]]
        /\ "answered" \in Stages
    BY <1>9 DEF ReplyWithThread, Stages
  <2>2. status' \in [Threads -> {"unborn", "stored", "gone"}]
    BY <1>1, <2>1
  <2> DEFINE o == Opening(c)
             q == Question(c, prompt[c].for)
             a == Credited(c)
  <2>3. q \in Turns /\ ~IsAnswer(q) /\ a \in Turns /\ a.model \in Models
    BY <1>2, <2>1
  <2> HIDE DEF q, a
  <2>4. /\ o \in Seq(Turns) /\ Len(o) <= MaxTurns
        /\ \A i \in DOMAIN o : o[i] \in {q, a}
    <3>1. <<q, a>> \in Seq(Turns) /\ Len(<<q, a>>) = 2 /\ <<q, a>>[1] = q /\ <<q, a>>[2] = a
      BY <2>3
    <3>2. CASE MaxTurns = 1
      <4>1. o = SubSeq(<<q, a>>, 1, 1)
        BY <3>2 DEF Opening, q, a
      <4>2. o \in Seq(Turns) /\ Len(o) = 1 /\ DOMAIN o = 1 .. 1 /\ o[1] = q
        BY <3>1, <4>1
      <4> QED
        BY <3>2, <4>2
    <3>3. CASE MaxTurns # 1
      <4>1. MaxTurns \in Nat /\ MaxTurns >= 2
        BY <3>3, ToolCallConstants
      <4>2. (IF MaxTurns < 2 THEN MaxTurns ELSE 2) = 2
        BY <4>1
      <4>3. o = SubSeq(<<q, a>>, 1, 2)
        BY <4>2 DEF Opening, q, a
      <4>4. o \in Seq(Turns) /\ Len(o) = 2 /\ DOMAIN o = 1 .. 2 /\ o[1] = q /\ o[2] = a
        BY <3>1, <4>3
      <4> QED
        BY <4>1, <4>4
    <3> QED
      BY <3>2, <3>3
  <2> HIDE DEF o
  <2>5. /\ turns' \in [Threads -> Seq(Turns)]
        /\ \A t \in Threads : turns'[t] = o \/ turns'[t] = turns[t]
    BY <1>1, <2>1, <2>4 DEF o
  <2>6. (\A t \in Threads : Len(turns'[t]) <= MaxTurns) /\ Credit'
    BY <1>1, <2>3, <2>4, <2>5
  <2> QED
    BY <2>1, <2>2, <2>5, <2>6, EndingKeepsPromptInv
<1>10. CASE UNCHANGED vars
  <2>1. TypeOK'
    BY <1>1, <1>10 DEF vars, TypeOK
  <2> QED
    BY <1>10, <2>1 DEF vars, PromptInv, Waiting
<1> QED
  BY <1>3, <1>4, <1>5, <1>6, <1>7, <1>8, <1>9, <1>10 DEF Next

\* Every variable has its type, and no thread outgrows the limit, however many calls add to it.
THEOREM TypeCorrect == Spec => []TypeOK
<1>1. PromptInv => TypeOK
  BY DEF PromptInv
<1> QED
  BY InitPromptInv, NextKeepsPromptInv, <1>1, PTL DEF Spec

\* However large its files are, the newest turns of a thread are shown as far as the rest of the
\* history's share holds them: in any window, for any sizes.
THEOREM NewestTurnsAreShown == Spec => []NewestTurnsShown
<1>1. PromptInv => NewestTurnsShown
  BY DEF PromptInv, NewestTurnsShown, PromptIsRight
<1> QED
  BY InitPromptInv, NextKeepsPromptInv, <1>1, PTL DEF Spec

\* History and files, which claim their shares in different places, together stay within the
\* content's share of a window that is large enough to be divided.
THEOREM PromptsFitTheWindow == ASSUME AmpleWindows PROVE Spec => []PromptFits
<1>1. PromptInv => PromptFits
  BY DEF PromptInv, PromptFits, PromptIsRight
<1> QED
  BY InitPromptInv, NextKeepsPromptInv, <1>1, PTL DEF Spec

\* A request that opens a thread gets every file its share has room for, beside those it shows
\* already: all of them when it names no folder and the boundary let it through.  And no request's
\* file reaches a model both in the history and beside it, but one a folder brings in again.
THEOREM FilesReachTheModel == ASSUME AmpleWindows PROVE Spec => []FilesReachModelOnce
<1>1. PromptInv => FilesReachModelOnce
  <2> SUFFICES ASSUME PromptInv PROVE FilesReachModelOnce
    OBVIOUS
  <2>1. NoFileTwice
    <3> SUFFICES ASSUME NEW c \in Calls
                 PROVE  prompt[c].history.files \intersect prompt[c].embedded
                          \subseteq Expanded(prompt[c].for \intersect Folders)
      BY DEF NoFileTwice
    <3>1. CASE Waiting(c)
      BY <3>1 DEF PromptInv, PromptIsRight
    <3>2. CASE ~Waiting(c)
      <4>1. prompt[c].history.files = {}
        BY <3>2 DEF PromptInv, NoPrompt, NoHistory
      <4> QED
        BY <4>1
    <3> QED
      BY <3>1, <3>2
  <2>2. OpeningFilesReachModel
    BY DEF PromptInv, OpeningFilesReachModel, PromptIsRight
  <2>3. OnlyMisfitsLeftOut
    BY DEF PromptInv, OnlyMisfitsLeftOut, PromptIsRight
  <2> QED
    BY <2>1, <2>2, <2>3 DEF FilesReachModelOnce
<1> QED
  BY InitPromptInv, NextKeepsPromptInv, <1>1, PTL DEF Spec
=============================================================================
