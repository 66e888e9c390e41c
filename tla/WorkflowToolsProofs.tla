------------------------ MODULE WorkflowToolsProofs ------------------------
(***************************************************************************)
(* Theorems about the workflow tools, for every set of tools, requests and *)
(* threads: types, and what the threads hold of the tools that do all      *)
(* their work under the lock.                                              *)
(***************************************************************************)
EXTENDS WorkflowTools, SequenceTheorems, TLAPS

Locked == Tools \ Consulting

\* A call that waits for the lock or works under it.
Queued(r) == At(r, "queued") \/ At(r, "expert")

\* Such a call has one place in the queue of its tool, and the first one while it
\* talks to the expert.  The others belong to tools that consult.
Lines ==
    /\ \A tool \in Tools : \A i, j \in DOMAIN queue[tool] :
        queue[tool][i] = queue[tool][j] => i = j
    /\ \A r \in Requests :
        /\ Queued(r) => \E i \in DOMAIN queue[call[r].tool] : queue[call[r].tool][i] = r
        /\ At(r, "expert") => Head(queue[call[r].tool]) = r /\ call[r].tool \in Locked
        /\ call[r] # Idle /\ ~Queued(r) => call[r].tool \in Consulting

-----------------------------------------------------------------------------
(* The queues.                                                             *)

\* A queue without one of its places: those behind it move up.
LEMMA WithoutType ==
    ASSUME NEW S, NEW q \in Seq(S), NEW i \in DOMAIN q
    PROVE  /\ Without(q, i) \in Seq(S)
           /\ DOMAIN Without(q, i) = 1 .. Len(q) - 1
           /\ \A j \in 1 .. Len(q) - 1 : Without(q, i)[j] = IF j < i THEN q[j] ELSE q[j + 1]
<1> DEFINE n == Len(q) - 1
           w == Without(q, i)
<1>1. DOMAIN q = 1 .. Len(q) /\ Len(q) \in Nat /\ \A j \in 1 .. Len(q) : q[j] \in S
  BY LenProperties, ElementOfSeq
<1>2. n \in Nat /\ \A j \in 1 .. n : j \in 1 .. Len(q) /\ j + 1 \in 1 .. Len(q)
  BY <1>1
<1>3. w \in [1 .. n -> S]
  BY <1>1, <1>2 DEF Without
<1>4. w \in Seq(S)
  <2> HIDE DEF n, w
  <2> QED
    BY <1>2, <1>3, SeqDef, Zenon
<1> QED
  BY <1>3, <1>4 DEF Without

\* The head of a queue is its first place.
LEMMA HeadIsFirst ==
    ASSUME NEW S, NEW q \in Seq(S), q # <<>>
    PROVE  Head(q) = q[1] /\ 1 \in DOMAIN q /\ Len(q) \in Nat \ {0} /\ DOMAIN q = 1 .. Len(q)
  OBVIOUS

\* A queue grows at its end.
LEMMA AppendFacts ==
    ASSUME NEW S, NEW q \in Seq(S), NEW r \in S
    PROVE  /\ Append(q, r) \in Seq(S)
           /\ DOMAIN q = 1 .. Len(q) /\ Len(q) \in Nat
           /\ DOMAIN Append(q, r) = 1 .. Len(q) + 1
           /\ \A j \in DOMAIN q : Append(q, r)[j] = q[j]
           /\ Append(q, r)[Len(q) + 1] = r
           /\ Append(q, r) # <<>>
           /\ q # <<>> => Head(Append(q, r)) = Head(q)
<1> DEFINE w == Append(q, r)
<1>1. w \in Seq(S) /\ w # <<>> /\ Len(w) = Len(q) + 1
      /\ (\A j \in 1 .. Len(q) : w[j] = q[j]) /\ w[Len(q) + 1] = r
  BY AppendProperties
<1>2. DOMAIN q = 1 .. Len(q) /\ Len(q) \in Nat
  BY LenProperties
<1> HIDE DEF w
<1>3. DOMAIN w = 1 .. Len(w)
  BY <1>1, LenProperties
<1>4. q # <<>> => Head(w) = Head(q)
  BY <1>1, <1>2, HeadIsFirst
<1> QED
  BY <1>1, <1>2, <1>3, <1>4 DEF w

-----------------------------------------------------------------------------

\* The part of TypeOK about the queues.
LineTypes ==
    /\ queue \in [Tools -> Seq(Requests)]
    /\ \A tool \in Tools : \A i \in DOMAIN queue[tool] :
        /\ call[queue[tool][i]] # Idle
        /\ call[queue[tool][i]].tool = tool

\* A call that is under way is not an idle one.
LEMMA CallIsNotIdle ==
    \A c \in Calls : c # Idle /\ c.pc \in Stages /\ c.tool \in Tools /\ c.thread \in Maybe
  BY DEF Calls, Idle, Stages

\* Whoever leaves a queue gives up its one place.
LEMMA LeaveKeepsLines ==
    ASSUME TypeOK, Lines, NEW r \in Requests, call[r] # Idle, Leave(r)
    PROVE  LineTypes' /\ Lines'
<1> DEFINE tool == call[r].tool
           q == queue[tool]
<1>1. call[r] \in Calls /\ tool \in Tools /\ q \in Seq(Requests)
  BY CallIsNotIdle DEF TypeOK
<1>2. /\ call' = [call EXCEPT ![r] = Idle]
      /\ \A s \in Requests : s # r => call'[s] = call[s]
      /\ call'[r] = Idle
  BY DEF Leave, TypeOK
<1>3. DOMAIN q = 1 .. Len(q) /\ Len(q) \in Nat /\ \A j \in 1 .. Len(q) : q[j] \in Requests
  BY <1>1, LenProperties, ElementOfSeq
<1>4. CASE \E i \in DOMAIN q : q[i] = r /\ queue' = [queue EXCEPT ![tool] = Without(q, i)]
  <2>1. PICK i \in DOMAIN q : q[i] = r /\ queue' = [queue EXCEPT ![tool] = Without(q, i)]
    BY <1>4
  <2> DEFINE w == Without(q, i)
  <2>2. /\ w \in Seq(Requests)
        /\ DOMAIN w = 1 .. Len(q) - 1
        /\ \A j \in 1 .. Len(q) - 1 : w[j] = IF j < i THEN q[j] ELSE q[j + 1]
    BY <1>1, WithoutType
  <2>3. queue' \in [Tools -> Seq(Requests)] /\ queue'[tool] = w
        /\ \A other \in Tools : other # tool => queue'[other] = queue[other]
    BY <1>1, <2>1, <2>2 DEF TypeOK
  <2>4. \A j, k \in DOMAIN q : q[j] = q[k] => j = k
    BY <1>1 DEF Lines
  <2> HIDE DEF w, q
  <2>5. \A j \in DOMAIN w : \E k \in DOMAIN q : k # i /\ w[j] = q[k] /\ w[j] # r
    <3> SUFFICES ASSUME NEW j \in DOMAIN w
                 PROVE  \E k \in DOMAIN q : k # i /\ w[j] = q[k] /\ w[j] # r
      OBVIOUS
    <3>1. CASE j < i
      <4>1. j \in DOMAIN q /\ j # i /\ w[j] = q[j]
        BY <1>3, <2>2, <3>1
      <4> QED BY <2>1, <2>4, <4>1
    <3>2. CASE ~(j < i)
      <4>1. j + 1 \in DOMAIN q /\ j + 1 # i /\ w[j] = q[j + 1]
        BY <1>3, <2>2, <3>2
      <4> QED BY <2>1, <2>4, <4>1
    <3> QED BY <3>1, <3>2
  <2>6. \A k \in DOMAIN q : k # i => \E j \in DOMAIN w : w[j] = q[k]
    <3> SUFFICES ASSUME NEW k \in DOMAIN q, k # i PROVE \E j \in DOMAIN w : w[j] = q[k]
      OBVIOUS
    <3>1. CASE k < i
      <4>1. k \in DOMAIN w /\ w[k] = q[k]
        BY <1>3, <2>2, <3>1
      <4> QED BY <4>1
    <3>2. CASE k > i
      <4>1. k - 1 \in DOMAIN w /\ w[k - 1] = q[k]
        BY <1>3, <2>2, <3>2
      <4> QED BY <4>1
    <3> QED BY <1>3, <3>1, <3>2
  <2>7. i # 1 => w[1] = q[1]
    BY <1>3, <2>2
  <2>8. \A j, k \in DOMAIN w : w[j] = w[k] => j = k
    <3> SUFFICES ASSUME NEW j \in DOMAIN w, NEW k \in DOMAIN w, w[j] = w[k] PROVE j = k
      OBVIOUS
    <3>1. j \in Nat /\ k \in Nat /\ i \in Nat
      BY <1>3, <2>2
    <3> DEFINE at(n) == IF n < i THEN n ELSE n + 1
    <3>2. at(j) \in DOMAIN q /\ w[j] = q[at(j)]
      BY <1>3, <2>2, <3>1
    <3>3. at(k) \in DOMAIN q /\ w[k] = q[at(k)]
      BY <1>3, <2>2, <3>1
    <3>4. at(j) = at(k)
      BY <2>4, <3>2, <3>3
    <3> QED BY <3>1, <3>4
  <2> USE DEF q
  <2>9. \A other \in Tools : other # tool => \A j \in DOMAIN queue[other] : queue[other][j] # r
    BY DEF TypeOK
  <2>10. LineTypes'
    <3>1. \A j \in DOMAIN w : call'[w[j]] # Idle /\ call'[w[j]].tool = tool
      BY <1>1, <1>2, <1>3, <2>5, SMTT(30) DEF TypeOK
    <3>2. \A other \in Tools : other # tool => \A j \in DOMAIN queue[other] :
             call'[queue[other][j]] # Idle /\ call'[queue[other][j]].tool = other
      <4> SUFFICES ASSUME NEW other \in Tools, other # tool, NEW j \in DOMAIN queue[other]
                   PROVE  call'[queue[other][j]] # Idle /\ call'[queue[other][j]].tool = other
        OBVIOUS
      <4>1. queue[other][j] \in Requests
        BY LenProperties, ElementOfSeq DEF TypeOK
      <4> QED
        BY <1>2, <2>9, <4>1 DEF TypeOK
    <3> QED
      BY <2>3, <3>1, <3>2 DEF LineTypes
  <2>11. \A s \in Requests : s # r /\ call[s] # Idle /\ call[s].tool = tool
            /\ (\E k \in DOMAIN q : q[k] = s) => \E j \in DOMAIN w : w[j] = s
    BY <2>1, <2>6
  <2>12. \A s \in Requests : At(s, "expert") /\ s # r /\ call[s].tool = tool =>
            Head(queue'[tool]) = s
    <3> SUFFICES ASSUME NEW s \in Requests, At(s, "expert"), s # r, call[s].tool = tool
                 PROVE  Head(w) = s
      BY <2>3
    <3>1. q # <<>> /\ Head(q) = s
      BY <1>3, <2>1 DEF Lines
    <3>2. q[1] = s /\ i # 1 /\ 1 \in DOMAIN q
      BY <1>1, <2>1, <3>1, HeadIsFirst
    <3>3. w # <<>>
      BY <1>3, <2>1, <2>2, <3>2
    <3> QED
      BY <2>2, <2>7, <3>2, <3>3, HeadIsFirst
  <2>13. Lines'
    <3>1. \A other \in Tools : \A j, k \in DOMAIN queue'[other] :
             queue'[other][j] = queue'[other][k] => j = k
      BY <2>3, <2>8 DEF Lines
    <3>2. ASSUME NEW s \in Requests
          PROVE  /\ Queued(s)' => \E j \in DOMAIN queue'[call'[s].tool] : queue'[call'[s].tool][j] = s
                 /\ At(s, "expert")' => Head(queue'[call'[s].tool]) = s /\ call'[s].tool \in Locked
                 /\ call'[s] # Idle /\ ~Queued(s)' => call'[s].tool \in Consulting
      <4>1. CASE s = r
        BY <1>2, <4>1 DEF Queued, At
      <4>2. CASE s # r
        <5>1. call'[s] = call[s] /\ (call[s] # Idle => call[s].tool \in Tools)
          BY <1>2, <4>2, CallIsNotIdle DEF TypeOK
        <5> QED
          BY <2>3, <2>11, <2>12, <4>2, <5>1 DEF Lines, Queued, At
      <4> QED BY <4>1, <4>2
    <3> QED
      BY <3>1, <3>2 DEF Lines
  <2> QED
    BY <2>10, <2>13
<1>5. CASE (\A i \in DOMAIN q : q[i] # r) /\ UNCHANGED queue
  <2>1. \A other \in Tools : \A j \in DOMAIN queue[other] :
           queue[other][j] # r /\ queue[other][j] \in Requests
    BY <1>5, LenProperties, ElementOfSeq DEF TypeOK
  <2>2. LineTypes'
    BY <1>2, <1>5, <2>1 DEF LineTypes, TypeOK
  <2>3. Lines'
    BY <1>2, <1>5 DEF Lines, Queued, At
  <2> QED
    BY <2>2, <2>3
<1> QED
  BY <1>4, <1>5 DEF Leave

\* Whoever arrives takes one place, the last.
LEMMA ArriveKeepsLines ==
    ASSUME TypeOK, Lines, NEW r \in Requests, NEW tool \in Tools, NEW t \in Maybe,
           NEW first \in BOOLEAN, Arrive(r, tool, t, first)
    PROVE  LineTypes' /\ Lines' /\ call' \in [Requests -> {Idle} \union Calls]
<1> DEFINE q == queue[tool]
           c == call'[r]
<1>1. /\ c \in Calls /\ c # Idle /\ c.tool = tool
      /\ c.pc = IF Consults(tool, first) THEN "starting" ELSE "queued"
      /\ call' = [call EXCEPT ![r] = c]
      /\ \A s \in Requests : s # r => call'[s] = call[s]
      /\ call[r] = Idle
  BY DEF Arrive, TypeOK, Calls, Stages, Idle
<1> HIDE DEF c
<1>2. \A other \in Tools : \A j \in DOMAIN queue[other] :
         queue[other][j] # r /\ queue[other][j] \in Requests
  BY <1>1, LenProperties, ElementOfSeq DEF TypeOK
<1>3. CASE Consults(tool, first)
  <2>1. queue' = queue /\ tool \in Consulting
    BY <1>3 DEF Arrive, Consults
  <2>2. LineTypes'
    BY <1>1, <1>2, <2>1 DEF LineTypes, TypeOK
  <2>3. Lines'
    BY <1>1, <1>3, <2>1 DEF Lines, Queued, At, TypeOK
  <2> QED
    BY <1>1, <2>2, <2>3 DEF TypeOK
<1>4. CASE ~Consults(tool, first)
  <2> DEFINE w == Append(q, r)
  <2>1. queue' = [queue EXCEPT ![tool] = w] /\ q \in Seq(Requests)
    BY <1>4 DEF Arrive, TypeOK
  <2>2. /\ w \in Seq(Requests)
        /\ DOMAIN q = 1 .. Len(q) /\ Len(q) \in Nat
        /\ DOMAIN w = 1 .. Len(q) + 1
        /\ \A j \in DOMAIN q : w[j] = q[j]
        /\ w[Len(q) + 1] = r
        /\ w # <<>>
        /\ q # <<>> => Head(w) = Head(q)
    BY <2>1, AppendFacts
  <2> HIDE DEF w
  <2>3. queue' \in [Tools -> Seq(Requests)] /\ queue'[tool] = w
        /\ \A other \in Tools : other # tool => queue'[other] = queue[other]
    BY <2>1, <2>2 DEF TypeOK
  <2>4. LineTypes'
    <3>1. ASSUME NEW j \in DOMAIN w PROVE call'[w[j]] # Idle /\ call'[w[j]].tool = tool
      <4>1. j \in DOMAIN q \/ j = Len(q) + 1
        BY <2>2
      <4>2. CASE j \in DOMAIN q
        <5>1. w[j] = q[j] /\ q[j] # r /\ q[j] \in Requests
          BY <1>2, <2>2, <4>2
        <5> QED BY <1>1, <4>2, <5>1 DEF TypeOK
      <4>3. CASE j = Len(q) + 1
        BY <1>1, <2>2, <4>3 DEF c
      <4> QED BY <4>1, <4>2, <4>3
    <3>2. \A other \in Tools : other # tool => \A j \in DOMAIN queue[other] :
             call'[queue[other][j]] # Idle /\ call'[queue[other][j]].tool = other
      BY <1>1, <1>2 DEF TypeOK
    <3> QED
      BY <2>3, <3>1, <3>2 DEF LineTypes
  <2>5. \A j, k \in DOMAIN w : w[j] = w[k] => j = k
    <3>1. /\ \A j, k \in DOMAIN q : q[j] = q[k] => j = k
          /\ \A j \in DOMAIN q : q[j] # r
      BY <1>2 DEF Lines
    <3>2. \A j \in DOMAIN w : j \in DOMAIN q \/ j = Len(q) + 1
      BY <2>2
    <3> HIDE DEF q
    <3> QED
      BY <2>2, <3>1, <3>2
  <2>6. ASSUME NEW s \in Requests
        PROVE  /\ Queued(s)' => \E j \in DOMAIN queue'[call'[s].tool] : queue'[call'[s].tool][j] = s
               /\ At(s, "expert")' => Head(queue'[call'[s].tool]) = s /\ call'[s].tool \in Locked
               /\ call'[s] # Idle /\ ~Queued(s)' => call'[s].tool \in Consulting
    <3>1. CASE s = r
      <4>1. Len(q) + 1 \in DOMAIN w /\ w[Len(q) + 1] = r
        BY <2>2
      <4> QED BY <1>1, <1>4, <2>3, <3>1, <4>1 DEF Queued, At
    <3>2. CASE s # r
      <4>1. call'[s] = call[s] /\ (call[s] # Idle => call[s].tool \in Tools)
        BY <1>1, <3>2, CallIsNotIdle DEF TypeOK
      <4>2. At(s, "expert") /\ call[s].tool = tool => q # <<>>
        BY <2>2 DEF Lines, Queued
      <4>3. CASE call[s] # Idle /\ call[s].tool = tool
        <5>1. Queued(s) => \E j \in DOMAIN w : w[j] = s
          <6> SUFFICES ASSUME Queued(s) PROVE \E j \in DOMAIN w : w[j] = s
            OBVIOUS
          <6>1. PICK j \in DOMAIN q : q[j] = s
            BY <4>3 DEF Lines
          <6>2. j \in DOMAIN w /\ w[j] = s
            BY <2>2, <6>1
          <6> QED BY <6>2
        <5>2. At(s, "expert") => Head(w) = s /\ tool \in Locked
          BY <2>2, <4>2, <4>3 DEF Lines
        <5> QED
          BY <2>3, <4>1, <4>3, <5>1, <5>2 DEF Lines, Queued, At
      <4>4. CASE ~(call[s] # Idle /\ call[s].tool = tool)
        BY <2>3, <4>1, <4>4 DEF Lines, Queued, At
      <4> QED BY <4>3, <4>4
    <3> QED BY <3>1, <3>2
  <2>7. \A other \in Tools : \A j, k \in DOMAIN queue'[other] :
           queue'[other][j] = queue'[other][k] => j = k
    BY <2>3, <2>5 DEF Lines
  <2>8. Lines'
    BY <2>6, <2>7 DEF Lines
  <2> QED
    BY <1>1, <2>4, <2>8 DEF TypeOK
<1> QED
  BY <1>3, <1>4

\* A call goes on without leaving its queue.
LEMMA StageKeepsLines ==
    ASSUME TypeOK, Lines, NEW r \in Requests, NEW c \in Calls, call[r] # Idle,
           c.tool = call[r].tool, call' = [call EXCEPT ![r] = c], UNCHANGED queue,
           \/ At(r, "queued") /\ Holds(r) /\ c.pc = "expert" /\ c.tool \in Locked
           \/ ~Queued(r) /\ c.pc \in {"dispatching", "consulting"}
    PROVE  LineTypes' /\ Lines' /\ call' \in [Requests -> {Idle} \union Calls]
<1>1. /\ \A s \in Requests : s # r => call'[s] = call[s]
      /\ call'[r] = c /\ c # Idle
      /\ call' \in [Requests -> {Idle} \union Calls]
  BY CallIsNotIdle DEF TypeOK
<1>2. \A other \in Tools : \A j \in DOMAIN queue[other] : queue[other][j] \in Requests
  BY LenProperties, ElementOfSeq DEF TypeOK
<1>3. LineTypes'
  BY <1>1, <1>2 DEF LineTypes, TypeOK
<1>4. Lines'
  BY <1>1 DEF Lines, Queued, At, Holds
<1> QED
  BY <1>1, <1>3, <1>4

-----------------------------------------------------------------------------
(* The threads.                                                            *)

DataTypes ==
    /\ history \in [Tools -> Histories]
    /\ proposal \in [Tools -> Requests \union {NoRequest}]
    /\ status \in [Threads -> {"unborn", "stored", "gone"}]
    /\ creator \in [Threads -> Tools \union {OtherTool}]
    /\ turns \in [Threads -> 0 .. MaxTurns]
    /\ saved \in [Threads -> [Tools -> Histories]]
    /\ known \subseteq Threads
    /\ acked \in [Threads -> 0 .. MaxTurns]

\* Nothing has been stored in a thread that the host does not know, or that is gone.
Empty(t) == turns[t] = 0 /\ acked[t] = 0 /\ \A tool \in Tools : saved[t][tool] = NoSteps
Secrets ==
    \A t \in Threads :
        /\ t \notin known \/ status[t] # "stored" => Empty(t)
        /\ status[t] = "unborn" => t \notin known

\* A call works on a thread the host knows, or on one that it has opened itself.
Whereabouts ==
    \A r \in Requests : call[r] # Idle /\ call[r].thread \in Threads =>
        /\ status[call[r].thread] # "unborn"
        /\ \/ call[r].thread \in known
           \/ call[r].pc \notin {"queued", "starting"} /\ creator[call[r].thread] = call[r].tool

\* What a stored thread holds of the tool that opened it.
Kept ==
    \A t \in Threads : status[t] = "stored" /\ creator[t] \in Locked =>
        LET own == saved[t][creator[t]] IN
            /\ t \in known => own # NoSteps
            /\ own # NoSteps => own.of = t
            /\ own.count <= turns[t]
            /\ turns[t] < MaxTurns => own.count = acked[t]

\* During the expert's analysis the instance holds the steps of the call's thread,
\* the one that is not saved yet included.
Ready(steps, t, tool) ==
    /\ steps # NoSteps
    /\ Alive(t) /\ creator[t] = tool =>
        steps.of = t /\ (turns[t] < MaxTurns => steps.count = saved[t][tool].count + 1)

AtExpert ==
    \A r \in Requests : At(r, "expert") => Ready(history[call[r].tool], call[r].thread, call[r].tool)

IInv == TypeOK /\ Lines /\ Secrets /\ Whereabouts /\ Kept /\ AtExpert

\* An instance that keeps one more step is an instance that keeps steps.
LEMMA StepsAreCounted ==
    ASSUME NEW steps \in Histories, NEW t \in Maybe
    PROVE  /\ Extended(steps, t) \in Histories
           /\ Extended(steps, t) # NoSteps
           /\ steps = NoSteps \/ steps.of = t => Extended(steps, t).of = t
           /\ steps.count < MaxHistory => Extended(steps, t).count = steps.count + 1
           /\ steps.count \in Nat /\ NoSteps.count = 0 /\ NoSteps \in Histories
  BY WorkflowConstants DEF Extended, Histories, NoSteps

\* A turn stored and answered, in a thread that is known or belongs to the tool.
LEMMA TurnKeepsThreads ==
    ASSUME TypeOK, Secrets, Kept,
           NEW t \in Maybe, NEW born \in Maybe, NEW tool \in Tools \union {OtherTool},
           NEW steps \in Histories,
           Created(born, tool), TurnAdded(t, born, tool, steps), Answered(t, born, tool),
           born \in Threads => t = born /\ status[born] = "unborn",
           t \in Threads /\ t # born => status[t] # "unborn" /\ (t \in known \/ creator[t] = tool),
           tool \in Locked /\ t \in Threads /\ (t = born \/ (Alive(t) /\ creator[t] = tool)) =>
               /\ steps # NoSteps
               /\ steps.of = t
               /\ turns[t] < MaxTurns => steps.count = saved[t][tool].count + 1
    PROVE  /\ status' \in [Threads -> {"unborn", "stored", "gone"}]
           /\ creator' \in [Threads -> Tools \union {OtherTool}]
           /\ turns' \in [Threads -> 0 .. MaxTurns]
           /\ saved' \in [Threads -> [Tools -> Histories]]
           /\ known' \subseteq Threads
           /\ acked' \in [Threads -> 0 .. MaxTurns]
           /\ Secrets' /\ Kept'
<1>1. /\ NoThread \notin Threads /\ MaxTurns \in Nat \ {0} /\ OtherTool \notin Tools
      /\ NoSteps \in Histories /\ NoSteps.count = 0
      /\ \A h \in Histories : h.count \in Nat
  BY WorkflowConstants, StepsAreCounted DEF Maybe
<1>2. /\ status' \in [Threads -> {"unborn", "stored", "gone"}]
      /\ creator' \in [Threads -> Tools \union {OtherTool}]
  BY DEF Created, TypeOK
<1>3. turns' \in [Threads -> 0 .. MaxTurns] /\ saved' \in [Threads -> [Tools -> Histories]]
  <2>1. CASE Accepts(t, born)
    <3>1. turns[t] \in 0 .. MaxTurns /\ turns[t] < MaxTurns /\ t \in Threads
      BY <2>1 DEF TypeOK, Accepts
    <3>2. turns[t] + 1 \in 0 .. MaxTurns
      BY <1>1, <3>1
    <3>3. turns' \in [Threads -> 0 .. MaxTurns]
      BY <2>1, <3>1, <3>2 DEF TurnAdded, TypeOK
    <3>4. saved' \in [Threads -> [Tools -> Histories]]
      <4>1. CASE tool = OtherTool
        BY <2>1, <4>1 DEF TurnAdded, TypeOK
      <4>2. CASE tool # OtherTool
        <5> DEFINE own == [saved[t] EXCEPT ![tool] = steps]
        <5>1. own \in [Tools -> Histories]
          BY <3>1, <4>2 DEF TypeOK
        <5>2. saved' = [saved EXCEPT ![t] = own]
          BY <2>1, <4>2 DEF TurnAdded
        <5> HIDE DEF own
        <5> QED BY <5>1, <5>2 DEF TypeOK
      <4> QED BY <4>1, <4>2
    <3> QED BY <3>3, <3>4
  <2>2. CASE ~Accepts(t, born)
    BY <2>2 DEF TurnAdded, TypeOK
  <2> QED BY <2>1, <2>2
<1>4. known' \subseteq Threads /\ acked' \in [Threads -> 0 .. MaxTurns]
  BY <1>1 DEF Answered, TypeOK, Maybe
<1>5. ASSUME NEW u \in Threads, u # t
      PROVE  /\ status'[u] = status[u] /\ creator'[u] = creator[u]
             /\ turns'[u] = turns[u] /\ saved'[u] = saved[u]
             /\ (u \in known' <=> u \in known) /\ acked'[u] = acked[u]
  BY <1>5 DEF Created, TurnAdded, Answered, TypeOK, Maybe
<1>6. Secrets'
  <2> SUFFICES ASSUME NEW u \in Threads
               PROVE  /\ u \notin known' \/ status'[u] # "stored" => Empty(u)'
                      /\ status'[u] = "unborn" => u \notin known'
    BY DEF Secrets
  <2>1. CASE u # t
    BY <1>5, <2>1 DEF Secrets, Empty
  <2>2. CASE u = t
    <3>1. u \in known' /\ status'[u] # "unborn"
      BY <1>1, <2>2 DEF Answered, Created
    <3>2. CASE status'[u] # "stored"
      <4>1. status'[u] = status[u] /\ u # born /\ ~Alive(u)
        BY <2>2, <3>2 DEF Created, Alive
      <4>2. turns' = turns /\ saved' = saved /\ acked'[u] = acked[u]
        BY <2>2, <4>1 DEF TurnAdded, Accepts, Answered
      <4> QED
        BY <3>1, <4>1, <4>2 DEF Secrets, Empty, Alive
    <3> QED BY <3>1, <3>2
  <2> QED BY <2>1, <2>2
<1>7. Kept'
  <2> SUFFICES ASSUME NEW u \in Threads, status'[u] = "stored", creator'[u] \in Locked
               PROVE  LET own == saved'[u][creator'[u]] IN
                        /\ u \in known' => own # NoSteps
                        /\ own # NoSteps => own.of = u
                        /\ own.count <= turns'[u]
                        /\ turns'[u] < MaxTurns => own.count = acked'[u]
    BY DEF Kept
  <2>1. CASE u # t
    BY <1>5, <2>1 DEF Kept
  <2>2. CASE u = t /\ (t = born \/ creator[t] = tool)
    <3>1. creator'[u] = tool /\ tool \in Locked /\ (t = born \/ (Alive(t) /\ creator[t] = tool))
          /\ tool \in Tools /\ tool # OtherTool
      BY <1>1, <2>2 DEF Created, Alive, Locked
    <3>2. steps # NoSteps /\ steps.of = t
          /\ (turns[t] < MaxTurns => steps.count = saved[t][tool].count + 1)
      BY <2>2, <3>1
    <3>3. acked'[u] = IF acked[u] < MaxTurns THEN acked[u] + 1 ELSE MaxTurns
      BY <2>2, <3>1 DEF Answered
    <3>4. saved[u][tool] \in Histories /\ turns[u] \in 0 .. MaxTurns /\ acked[u] \in 0 .. MaxTurns
      BY <3>1 DEF TypeOK
    <3>5. t = born => turns[u] = 0 /\ acked[u] = 0 /\ saved[u][tool] = NoSteps
      BY <2>2, <3>1 DEF Secrets, Empty
    <3>6. /\ saved[u][tool].count <= turns[u]
          /\ turns[u] < MaxTurns => saved[u][tool].count = acked[u]
      BY <1>1, <2>2, <3>1, <3>5 DEF Kept, Alive
    <3>7. CASE turns[t] < MaxTurns
      <4>1. turns'[u] = turns[u] + 1 /\ saved'[u][tool] = steps
        BY <2>2, <3>1, <3>7 DEF TurnAdded, Accepts, TypeOK
      <4> QED
        BY <1>1, <2>2, <3>1, <3>2, <3>3, <3>4, <3>6, <3>7, <4>1
    <3>8. CASE ~(turns[t] < MaxTurns)
      <4>1. turns'[u] = turns[u] /\ saved'[u] = saved[u]
        BY <3>8 DEF TurnAdded, Accepts
      <4>2. t # born /\ turns[u] = MaxTurns
        BY <1>1, <2>2, <3>4, <3>5, <3>8
      <4>3. u \in known
        BY <1>1, <2>2, <4>2 DEF Secrets, Empty
      <4> QED
        BY <1>1, <2>2, <3>1, <4>1, <4>2, <4>3 DEF Kept, Alive
    <3> QED BY <3>7, <3>8
  <2>3. CASE u = t /\ t # born /\ creator[t] # tool
    <3>1. /\ creator'[u] = creator[u] /\ status'[u] = status[u] /\ u \in known
          /\ acked'[u] = acked[u] /\ creator[u] \in Tools
      BY <2>3 DEF Created, Answered, Locked
    <3>2. saved'[u][creator[u]] = saved[u][creator[u]] /\ turns'[u] \in {turns[u], turns[u] + 1}
      BY <2>3, <3>1 DEF TurnAdded, TypeOK
    <3>3. turns[u] \in Nat /\ saved[u][creator[u]] \in Histories
      BY <3>1 DEF TypeOK
    <3> QED
      BY <1>1, <3>1, <3>2, <3>3 DEF Kept
  <2> QED BY <2>1, <2>2, <2>3
<1> QED
  BY <1>2, <1>3, <1>4, <1>6, <1>7

\* A step under the lock starts from the steps of its thread and appends its own.
LEMMA StepIsOwn ==
    ASSUME IInv, NEW r \in Requests, NEW t \in Maybe, NEW born \in Maybe, Works(r, t, born)
    PROVE  LET tool == call[r].tool
               steps == Extended(Recalled(call[r]), t)
           IN /\ tool \in Tools /\ steps \in Histories /\ steps # NoSteps
              /\ history' = [history EXCEPT ![tool] = steps] /\ history'[tool] = steps
              /\ tool \in Locked /\ t \in Threads /\ (t = born \/ (Alive(t) /\ creator[t] = tool)) =>
                    steps.of = t /\ (turns[t] < MaxTurns => steps.count = saved[t][tool].count + 1)
<1> DEFINE tool == call[r].tool
           old == Recalled(call[r])
<1>1. call[r] \in Calls /\ tool \in Tools /\ call[r].thread \in Maybe /\ NoThread \notin Threads
  BY CallIsNotIdle, WorkflowConstants DEF IInv, TypeOK, Works, At
<1>2. old \in Histories
  BY <1>1, StepsAreCounted DEF Recalled, Restorable, Alive, IInv, TypeOK
<1>3. Extended(old, t) \in Histories /\ Extended(old, t) # NoSteps
  BY <1>2, StepsAreCounted
<1>4. history' = [history EXCEPT ![tool] = Extended(old, t)] /\ history'[tool] = Extended(old, t)
  BY <1>1 DEF Works, IInv, TypeOK
<1>5. ASSUME tool \in Locked, t \in Threads, t = born \/ (Alive(t) /\ creator[t] = tool)
      PROVE  /\ Extended(old, t).of = t
             /\ turns[t] < MaxTurns => Extended(old, t).count = saved[t][tool].count + 1
  <2>1. saved[t][tool] \in Histories /\ turns[t] \in 0 .. MaxTurns
    BY <1>1, <1>5 DEF IInv, TypeOK
  <2>2. old = saved[t][tool] /\ (old # NoSteps => old.of = t) /\ old.count <= turns[t]
    <3>1. CASE Opens(call[r])
      <4>1. t = born /\ status[t] = "unborn" /\ old = NoSteps
        BY <3>1, <1>1 DEF Works, WorksOn, Recalled
      <4>2. saved[t][tool] = NoSteps /\ turns[t] = 0
        BY <1>1, <1>5, <4>1 DEF IInv, Secrets, Empty
      <4> QED
        BY <4>1, <4>2 DEF NoSteps
    <3>2. CASE ~Opens(call[r])
      <4>1. t = call[r].thread /\ t # born /\ call[r].pc = "queued" /\ call[r] # Idle
        BY <1>1, <1>5, <3>2 DEF Works, WorksOn, At
      <4>2. t \in known /\ status[t] = "stored" /\ creator[t] = tool
        BY <1>5, <4>1 DEF IInv, Whereabouts, Alive
      <4>3. /\ saved[t][tool] # NoSteps /\ saved[t][tool].of = t
            /\ saved[t][tool].count <= turns[t]
        BY <1>5, <4>2 DEF IInv, Kept
      <4>4. old = saved[t][tool]
        BY <1>5, <3>2, <4>1, <4>2, <4>3 DEF Recalled, Restorable, Alive
      <4> QED
        BY <4>3, <4>4
    <3> QED BY <3>1, <3>2
  <2>3. turns[t] < MaxTurns => old.count < MaxHistory
    BY <1>2, <2>1, <2>2, StepsAreCounted, WorkflowConstants
  <2> QED
    BY <1>2, <2>2, <2>3, StepsAreCounted
<1> QED
  BY <1>1, <1>3, <1>4, <1>5

\* Of the calls that talk to the expert there is one per tool, and it has the lock.
LEMMA ExpertHasLock ==
    ASSUME Lines, NEW r \in Requests, NEW s \in Requests, At(s, "expert"),
           \/ At(r, "queued") /\ Holds(r) 
           \/ At(r, "expert") /\ r # s
           \/ call[r].tool \in Consulting
    PROVE  call[s].tool # call[r].tool
  BY DEF Lines, Holds, At, Locked

\* A call at the expert is not disturbed by what is done for the other tools.
LEMMA ExpertsKept ==
    ASSUME TypeOK, Lines, Whereabouts, AtExpert,
           NEW t \in Maybe, NEW born \in Maybe, NEW tool \in Tools \union {OtherTool},
           NEW steps \in Histories, NEW s \in Requests,
           At(s, "expert"), call'[s] = call[s], call[s].tool # tool,
           history'[call[s].tool] = history[call[s].tool],
           born \in Threads => status[born] = "unborn",
           Created(born, tool),
           TurnAdded(t, born, tool, steps) \/ UNCHANGED <<turns, saved>>
    PROVE  Ready(history[call[s].tool], call[s].thread, call[s].tool)'
<1> DEFINE u == call[s].thread
<1>1. call[s] \in Calls /\ call[s].tool \in Tools /\ NoThread \notin Threads /\ OtherTool \notin Tools
  BY CallIsNotIdle, WorkflowConstants DEF TypeOK, At
<1>2. Ready(history[call[s].tool], u, call[s].tool)
  BY DEF AtExpert
<1>3. u \in Threads => u # born /\ status'[u] = status[u] /\ creator'[u] = creator[u]
  BY DEF Whereabouts, At, Created
<1>4. u \in Threads => saved'[u][call[s].tool] = saved[u][call[s].tool]
  <2>1. CASE saved' = saved
    BY <2>1
  <2>2. CASE saved' = [saved EXCEPT ![t][tool] = steps]
    <3>1. u \in Threads => saved \in [Threads -> [Tools -> Histories]] /\ saved[u] \in [Tools -> Histories]
      BY DEF TypeOK
    <3> QED BY <1>1, <2>2, <3>1
  <2> QED
    BY <2>1, <2>2 DEF TurnAdded
<1>5. u \in Threads => turns'[u] \in {turns[u], turns[u] + 1} /\ turns[u] \in Nat
  BY WorkflowConstants DEF TurnAdded, TypeOK
<1>6. MaxTurns \in Nat
  BY WorkflowConstants
<1> QED
  BY <1>2, <1>3, <1>4, <1>5, <1>6 DEF Ready, Alive

\* A thread opened, and nothing stored in it yet.
LEMMA OpeningKeepsThreads ==
    ASSUME TypeOK, Secrets, Kept, NEW born \in Maybe, NEW tool \in Tools,
           born \in Threads => status[born] = "unborn",
           Created(born, tool), UNCHANGED <<turns, saved, known, acked>>
    PROVE  /\ status' \in [Threads -> {"unborn", "stored", "gone"}]
           /\ creator' \in [Threads -> Tools \union {OtherTool}]
           /\ Secrets' /\ Kept'
<1>1. /\ status' \in [Threads -> {"unborn", "stored", "gone"}]
      /\ creator' \in [Threads -> Tools \union {OtherTool}]
  BY DEF Created, TypeOK
<1>2. \A u \in Threads :
         /\ status'[u] = IF u = born THEN "stored" ELSE status[u]
         /\ creator'[u] = IF u = born THEN tool ELSE creator[u]
  BY DEF Created
<1>3. Secrets'
  BY <1>2 DEF Secrets, Empty
<1>4. Kept'
  <2>1. NoSteps.count = 0 /\ MaxTurns \in Nat
    BY WorkflowConstants DEF NoSteps
  <2> QED
    BY <1>2, <2>1 DEF Kept, Secrets, Empty, Locked
<1> QED
  BY <1>1, <1>3, <1>4

\* The parts of the type invariant make it up.
LEMMA TypesMakeTypeOK ==
    ASSUME DataTypes', LineTypes', call' \in [Requests -> {Idle} \union Calls]
    PROVE  TypeOK'
  BY DEF TypeOK, DataTypes, LineTypes

\* What the three outcomes of a step have in common.
LEMMA StepBegins ==
    ASSUME IInv, NEW r \in Requests, NEW t \in Maybe, NEW born \in Maybe, Works(r, t, born)
    PROVE  /\ call[r] \in Calls /\ call[r] # Idle /\ call[r].tool \in Tools
           /\ history' \in [Tools -> Histories] /\ proposal' = proposal
           /\ Created(born, call[r].tool)
           /\ born \in Threads => t = born /\ status[born] = "unborn"
           /\ t \in Threads /\ t # born => status[t] # "unborn" /\ t \in known
           /\ \A s \in Requests : At(s, "expert") =>
                 /\ s # r /\ call[s].tool # call[r].tool
                 /\ history'[call[s].tool] = history[call[s].tool]
<1>1. call[r] \in Calls /\ call[r] # Idle /\ call[r].tool \in Tools /\ NoThread \notin Threads
      /\ call[r].pc = "queued"
  BY CallIsNotIdle, WorkflowConstants DEF IInv, TypeOK, Works, At
<1>2. history' \in [Tools -> Histories]
  BY StepIsOwn DEF IInv, TypeOK
<1>3. born \in Threads => t = born /\ status[born] = "unborn"
  BY <1>1 DEF Works, WorksOn
<1>4. t \in Threads /\ t # born => status[t] # "unborn" /\ t \in known
  BY <1>1 DEF Works, WorksOn, IInv, Whereabouts
<1>5. ASSUME NEW s \in Requests, At(s, "expert")
      PROVE  /\ s # r /\ call[s].tool # call[r].tool
             /\ history'[call[s].tool] = history[call[s].tool]
  <2>1. s # r /\ call[s].tool # call[r].tool
    BY <1>1, <1>5, ExpertHasLock DEF Works, IInv, At
  <2>2. call[s].tool \in Tools
    BY <1>5, CallIsNotIdle DEF At, IInv, TypeOK
  <2> QED
    BY <2>1, <2>2, StepIsOwn DEF IInv, TypeOK
<1> QED
  BY <1>1, <1>2, <1>3, <1>4, <1>5 DEF Works

\* A step that is answered without an expert keeps the invariant.
LEMMA StepAnsweredKeeps ==
    ASSUME IInv, NEW r \in Requests, NEW t \in Maybe, NEW born \in Maybe, StepAnswered(r, t, born)
    PROVE  IInv'
<1> DEFINE tool == call[r].tool
           steps == history'[tool]
<1>1. Works(r, t, born) /\ TurnAdded(t, born, tool, steps) /\ Answered(t, born, tool) /\ Leave(r)
  BY DEF StepAnswered
<1>2. /\ call[r] \in Calls /\ call[r] # Idle /\ tool \in Tools
      /\ history' \in [Tools -> Histories] /\ proposal' = proposal
      /\ Created(born, tool)
      /\ born \in Threads => t = born /\ status[born] = "unborn"
      /\ t \in Threads /\ t # born => status[t] # "unborn" /\ t \in known
      /\ \A s \in Requests : At(s, "expert") =>
            /\ s # r /\ call[s].tool # tool
            /\ history'[call[s].tool] = history[call[s].tool]
  BY <1>1, StepBegins
<1>3. /\ steps \in Histories /\ steps # NoSteps
      /\ tool \in Locked /\ t \in Threads /\ (t = born \/ (Alive(t) /\ creator[t] = tool)) =>
            steps.of = t /\ (turns[t] < MaxTurns => steps.count = saved[t][tool].count + 1)
  BY <1>1, StepIsOwn
<1> HIDE DEF steps
<1>4. /\ DataTypes' /\ Secrets' /\ Kept'
  BY <1>1, <1>2, <1>3, TurnKeepsThreads DEF IInv, DataTypes, TypeOK
<1>5. LineTypes' /\ Lines' /\ call' = [call EXCEPT ![r] = Idle]
      /\ call' \in [Requests -> {Idle} \union Calls]
  BY <1>1, <1>2, LeaveKeepsLines DEF IInv, Leave, TypeOK
<1>6. \A s \in Requests : call'[s] = IF s = r THEN Idle ELSE call[s]
  BY <1>5 DEF IInv, TypeOK
<1>7. Whereabouts'
  BY <1>1, <1>2, <1>6 DEF IInv, Whereabouts, Created, Answered
<1>8. AtExpert'
  BY <1>1, <1>2, <1>3, <1>6, ExpertsKept DEF IInv, AtExpert, At
<1> QED
  BY <1>4, <1>5, <1>7, <1>8, TypesMakeTypeOK DEF IInv

\* A step that raises, and leaves what it appended, keeps it.
LEMMA StepFailsKeeps ==
    ASSUME IInv, NEW r \in Requests, NEW t \in Maybe, NEW born \in Maybe, StepFails(r, t, born)
    PROVE  IInv'
<1> DEFINE tool == call[r].tool
<1>1. Works(r, t, born) /\ Leave(r) /\ UNCHANGED <<turns, saved, known, acked>>
  BY DEF StepFails
<1>2. /\ call[r] \in Calls /\ call[r] # Idle /\ tool \in Tools
      /\ history' \in [Tools -> Histories] /\ proposal' = proposal
      /\ Created(born, tool)
      /\ born \in Threads => status[born] = "unborn"
      /\ \A s \in Requests : At(s, "expert") =>
            /\ s # r /\ call[s].tool # tool
            /\ history'[call[s].tool] = history[call[s].tool]
  BY <1>1, StepBegins
<1>3. DataTypes' /\ Secrets' /\ Kept'
  BY <1>1, <1>2, OpeningKeepsThreads DEF IInv, DataTypes, TypeOK
<1>4. LineTypes' /\ Lines' /\ call' = [call EXCEPT ![r] = Idle]
      /\ call' \in [Requests -> {Idle} \union Calls]
  BY <1>1, <1>2, LeaveKeepsLines DEF IInv, Leave, TypeOK
<1>5. \A s \in Requests : call'[s] = IF s = r THEN Idle ELSE call[s]
  BY <1>4 DEF IInv, TypeOK
<1>6. Whereabouts'
  BY <1>1, <1>2, <1>5 DEF IInv, Whereabouts, Created
<1>7. AtExpert'
  BY <1>1, <1>2, <1>5, ExpertsKept, StepsAreCounted DEF IInv, AtExpert, At
<1> QED
  BY <1>3, <1>4, <1>6, <1>7, TypesMakeTypeOK DEF IInv

\* The last step, while its expert is asked, keeps it.
LEMMA StepAsksExpertKeeps ==
    ASSUME IInv, NEW r \in Requests, NEW t \in Maybe, NEW born \in Maybe, StepAsksExpert(r, t, born)
    PROVE  IInv'
<1> DEFINE tool == call[r].tool
           c == [call[r] EXCEPT !.pc = "expert", !.thread = t]
<1>1. /\ Works(r, t, born) /\ tool \notin Consulting /\ call' = [call EXCEPT ![r] = c]
      /\ UNCHANGED <<queue, turns, saved, known, acked>>
  BY DEF StepAsksExpert
<1>2. /\ call[r] \in Calls /\ call[r] # Idle /\ tool \in Tools
      /\ history' \in [Tools -> Histories] /\ proposal' = proposal
      /\ Created(born, tool)
      /\ born \in Threads => t = born /\ status[born] = "unborn"
      /\ t \in Threads /\ t # born => status[t] # "unborn" /\ t \in known
      /\ \A s \in Requests : At(s, "expert") =>
            /\ s # r /\ call[s].tool # tool
            /\ history'[call[s].tool] = history[call[s].tool]
  BY <1>1, StepBegins
<1>3. c \in Calls /\ c # Idle /\ c.pc = "expert" /\ c.thread = t /\ c.tool = tool
  BY <1>2 DEF Calls, Stages, Idle
<1> HIDE DEF c
<1>4. DataTypes' /\ Secrets' /\ Kept'
  BY <1>1, <1>2, OpeningKeepsThreads DEF IInv, DataTypes, TypeOK
<1>5. LineTypes' /\ Lines' /\ call' \in [Requests -> {Idle} \union Calls]
  BY <1>1, <1>2, <1>3, StageKeepsLines DEF IInv, Works, Locked
<1>6. \A s \in Requests : call'[s] = IF s = r THEN c ELSE call[s]
  BY <1>1 DEF IInv, TypeOK
<1>7. Whereabouts'
  BY <1>1, <1>2, <1>3, <1>6 DEF IInv, Whereabouts, Created
<1>8. AtExpert'
  <2>1. Ready(history[tool], t, tool)'
    <3>1. tool \in Locked
      BY <1>1, <1>2 DEF Locked
    <3>2. history'[tool] # NoSteps
      BY <1>1, StepIsOwn
    <3>3. Alive(t)' /\ creator'[t] = tool =>
              t \in Threads /\ (t = born \/ (Alive(t) /\ creator[t] = tool))
      BY <1>2 DEF Alive, Created
    <3>4. Alive(t)' /\ creator'[t] = tool =>
              /\ history'[tool].of = t
              /\ turns[t] < MaxTurns => history'[tool].count = saved[t][tool].count + 1
      BY <1>1, <3>1, <3>3, StepIsOwn
    <3>5. call'[r].tool = call[r].tool
      BY <1>3, <1>6
    <3> QED
      BY <1>1, <3>2, <3>4, <3>5 DEF Ready
  <2>2. ASSUME NEW s \in Requests, s # r, At(s, "expert")
        PROVE  Ready(history[call[s].tool], call[s].thread, call[s].tool)'
    BY <1>1, <1>2, <1>6, <2>2, ExpertsKept, StepsAreCounted DEF IInv
  <2> QED
    BY <1>3, <1>6, <2>1, <2>2 DEF AtExpert, At
<1> QED
  BY <1>4, <1>5, <1>7, <1>8, TypesMakeTypeOK DEF IInv

\* A refusal or a cancel.
LEMMA LeavingKeeps ==
    ASSUME IInv, NEW r \in Requests, call[r] # Idle, Leave(r),
           UNCHANGED <<history, proposal, storeVars, known, acked>>
    PROVE  IInv'
<1> USE DEF storeVars
<1>1. DataTypes' /\ Secrets' /\ Kept'
  BY DEF IInv, DataTypes, TypeOK, Secrets, Empty, Kept
<1>2. LineTypes' /\ Lines' /\ call' = [call EXCEPT ![r] = Idle]
      /\ call' \in [Requests -> {Idle} \union Calls]
  BY LeaveKeepsLines DEF IInv, Leave, TypeOK
<1>3. \A s \in Requests : call'[s] = IF s = r THEN Idle ELSE call[s]
  BY <1>2 DEF IInv, TypeOK
<1>4. Whereabouts'
  BY <1>3 DEF IInv, Whereabouts
<1>5. AtExpert'
  BY <1>3 DEF IInv, AtExpert, At, Ready, Alive
<1> QED
  BY <1>1, <1>2, <1>4, <1>5, TypesMakeTypeOK DEF IInv

\* The answer of the expert keeps it.
LEMMA ExpertReturnsKeeps ==
    ASSUME IInv, NEW r \in Requests, ExpertReturns(r)
    PROVE  IInv'
<1> DEFINE tool == call[r].tool
           t == call[r].thread
<1>1. /\ At(r, "expert") /\ Leave(r)
      /\ TurnAdded(t, NoThread, tool, history[tool]) /\ Answered(t, NoThread, tool)
      /\ UNCHANGED <<history, proposal, status, creator>>
  BY DEF ExpertReturns
<1>2. /\ call[r] \in Calls /\ call[r] # Idle /\ tool \in Locked /\ tool \in Tools /\ t \in Maybe
      /\ NoThread \in Maybe /\ NoThread \notin Threads /\ history[tool] \in Histories
  BY <1>1, CallIsNotIdle, WorkflowConstants DEF IInv, TypeOK, Lines, At, Maybe
<1>3. Created(NoThread, tool)
  BY <1>1, <1>2 DEF Created, IInv, TypeOK
<1>4. t \in Threads => status[t] # "unborn" /\ (t \in known \/ creator[t] = tool)
  BY <1>1, <1>2 DEF IInv, Whereabouts
<1>5. history[tool] # NoSteps
      /\ (Alive(t) /\ creator[t] = tool =>
            /\ history[tool].of = t
            /\ turns[t] < MaxTurns => history[tool].count = saved[t][tool].count + 1)
  BY <1>1 DEF IInv, AtExpert, Ready
<1>6. DataTypes' /\ Secrets' /\ Kept'
  BY <1>1, <1>2, <1>3, <1>4, <1>5, TurnKeepsThreads DEF IInv, DataTypes, TypeOK
<1>7. LineTypes' /\ Lines' /\ call' = [call EXCEPT ![r] = Idle]
      /\ call' \in [Requests -> {Idle} \union Calls]
  BY <1>1, <1>2, LeaveKeepsLines DEF IInv, Leave, TypeOK
<1>8. \A s \in Requests : call'[s] = IF s = r THEN Idle ELSE call[s]
  BY <1>7 DEF IInv, TypeOK
<1>9. Whereabouts'
  BY <1>1, <1>2, <1>8 DEF IInv, Whereabouts, Answered
<1>10. AtExpert'
  <2> SUFFICES ASSUME NEW s \in Requests, s # r, At(s, "expert")
               PROVE  Ready(history[call[s].tool], call[s].thread, call[s].tool)'
    BY <1>8 DEF AtExpert, At
  <2>1. call[s].tool # tool
    BY <1>1, ExpertHasLock DEF IInv
  <2> QED
    BY <1>1, <1>2, <1>3, <1>8, <2>1, ExpertsKept DEF IInv
<1> QED
  BY <1>6, <1>7, <1>9, <1>10, TypesMakeTypeOK DEF IInv

\* The start of a consultation keeps it.
LEMMA ConsultationStartsKeeps ==
    ASSUME IInv, NEW r \in Requests, NEW t \in Maybe, NEW born \in Maybe,
           ConsultationStarts(r, t, born)
    PROVE  IInv'
<1> DEFINE tool == call[r].tool
           c == [call[r] EXCEPT !.pc = "dispatching", !.thread = t]
<1>1. /\ At(r, "starting") /\ WorksOn(call[r], t, born) /\ call' = [call EXCEPT ![r] = c]
      /\ Created(born, tool) /\ UNCHANGED <<queue, turns, saved, known, acked>>
      /\ proposal' = [proposal EXCEPT ![tool] = r]
      /\ history' = IF Opens(call[r]) THEN [history EXCEPT ![tool] = NoSteps] ELSE history
  BY DEF ConsultationStarts
<1>2. /\ call[r] \in Calls /\ call[r] # Idle /\ tool \in Tools /\ call[r].pc = "starting"
      /\ NoThread \notin Threads /\ tool \in Consulting /\ NoSteps \in Histories
  BY <1>1, CallIsNotIdle, WorkflowConstants, StepsAreCounted DEF IInv, TypeOK, Lines, At, Queued, Maybe, Histories
<1>3. born \in Threads => t = born /\ status[born] = "unborn"
  BY <1>1, <1>2 DEF WorksOn
<1>4. t \in Threads /\ t # born => status[t] # "unborn" /\ t \in known
  BY <1>1, <1>2 DEF WorksOn, IInv, Whereabouts
<1>5. c \in Calls /\ c # Idle /\ c.pc = "dispatching" /\ c.thread = t /\ c.tool = tool
  BY <1>2 DEF Calls, Stages, Idle
<1> HIDE DEF c
<1>6. history' \in [Tools -> Histories] /\ proposal' \in [Tools -> Requests \union {NoRequest}]
  BY <1>1, <1>2 DEF IInv, TypeOK
<1>7. DataTypes' /\ Secrets' /\ Kept'
  BY <1>1, <1>2, <1>3, <1>6, OpeningKeepsThreads DEF IInv, DataTypes, TypeOK
<1>8. LineTypes' /\ Lines' /\ call' \in [Requests -> {Idle} \union Calls]
  BY <1>1, <1>2, <1>5, StageKeepsLines DEF IInv, Queued, At
<1>9. \A s \in Requests : call'[s] = IF s = r THEN c ELSE call[s]
  BY <1>1 DEF IInv, TypeOK
<1>10. Whereabouts'
  BY <1>1, <1>2, <1>3, <1>4, <1>5, <1>9 DEF IInv, Whereabouts, Created
<1>11. AtExpert'
  <2> SUFFICES ASSUME NEW s \in Requests, s # r, At(s, "expert")
               PROVE  Ready(history[call[s].tool], call[s].thread, call[s].tool)'
    BY <1>5, <1>9 DEF AtExpert, At
  <2>1. call[s].tool # tool /\ call[s].tool \in Tools
    BY <1>2, ExpertHasLock, CallIsNotIdle DEF IInv, TypeOK, At
  <2>2. history'[call[s].tool] = history[call[s].tool]
    BY <1>1, <2>1 DEF IInv, TypeOK
  <2> QED
    BY <1>1, <1>2, <1>3, <1>9, <2>1, <2>2, ExpertsKept DEF IInv
<1> QED
  BY <1>7, <1>8, <1>10, <1>11, TypesMakeTypeOK DEF IInv

\* So does asking its models.
LEMMA ModelsAskedKeeps ==
    ASSUME IInv, NEW r \in Requests, ModelsAsked(r)
    PROVE  IInv'
<1> USE DEF storeVars
<1> DEFINE c == [call[r] EXCEPT !.pc = "consulting", !.asked = proposal[call[r].tool]]
<1>1. /\ At(r, "dispatching") /\ call' = [call EXCEPT ![r] = c]
      /\ UNCHANGED <<history, proposal, queue, storeVars, known, acked>>
  BY DEF ModelsAsked
<1>2. call[r] \in Calls /\ call[r] # Idle /\ call[r].pc = "dispatching" /\ call[r].tool \in Tools
  BY <1>1, CallIsNotIdle DEF IInv, TypeOK, At
<1>3. c \in Calls /\ c # Idle /\ c.pc = "consulting" /\ c.thread = call[r].thread /\ c.tool = call[r].tool
  BY <1>2 DEF Calls, Stages, Idle, IInv, TypeOK
<1> HIDE DEF c
<1>4. DataTypes' /\ Secrets' /\ Kept'
  BY <1>1 DEF IInv, DataTypes, TypeOK, Secrets, Empty, Kept
<1>5. LineTypes' /\ Lines' /\ call' \in [Requests -> {Idle} \union Calls]
  BY <1>1, <1>2, <1>3, StageKeepsLines DEF IInv, Queued, At
<1>6. \A s \in Requests : call'[s] = IF s = r THEN c ELSE call[s]
  BY <1>1 DEF IInv, TypeOK
<1>7. Whereabouts'
  BY <1>1, <1>2, <1>3, <1>6 DEF IInv, Whereabouts
<1>8. AtExpert'
  BY <1>1, <1>3, <1>6 DEF IInv, AtExpert, At, Ready, Alive
<1> QED
  BY <1>4, <1>5, <1>7, <1>8, TypesMakeTypeOK DEF IInv

\* So does its end.
LEMMA ConsultationEndsKeeps ==
    ASSUME IInv, NEW r \in Requests, ConsultationEnds(r)
    PROVE  IInv'
<1> DEFINE tool == call[r].tool
           t == call[r].thread
           steps == history'[tool]
<1>1. /\ At(r, "consulting") /\ Leave(r)
      /\ history' = [history EXCEPT ![tool] = Extended(history[tool], t)]
      /\ TurnAdded(t, NoThread, tool, steps) /\ Answered(t, NoThread, tool)
      /\ UNCHANGED <<proposal, status, creator>>
  BY DEF ConsultationEnds
<1>2. /\ call[r] \in Calls /\ call[r] # Idle /\ tool \in Tools /\ t \in Maybe
      /\ NoThread \in Maybe /\ NoThread \notin Threads /\ tool \in Consulting
  BY <1>1, CallIsNotIdle, WorkflowConstants DEF IInv, TypeOK, Lines, At, Queued, Maybe
<1>3. Created(NoThread, tool)
  BY <1>1, <1>2 DEF Created, IInv, TypeOK
<1>4. t \in Threads => status[t] # "unborn" /\ (t \in known \/ creator[t] = tool)
  BY <1>1, <1>2 DEF IInv, Whereabouts
<1>5. history' \in [Tools -> Histories] /\ steps \in Histories
      /\ \A other \in Tools : other # tool => history'[other] = history[other]
  BY <1>1, <1>2, StepsAreCounted DEF IInv, TypeOK
<1> HIDE DEF steps
<1>6. DataTypes' /\ Secrets' /\ Kept'
  BY <1>1, <1>2, <1>3, <1>4, <1>5, TurnKeepsThreads DEF IInv, DataTypes, TypeOK, Locked
<1>7. LineTypes' /\ Lines' /\ call' = [call EXCEPT ![r] = Idle]
      /\ call' \in [Requests -> {Idle} \union Calls]
  BY <1>1, <1>2, LeaveKeepsLines DEF IInv, Leave, TypeOK
<1>8. \A s \in Requests : call'[s] = IF s = r THEN Idle ELSE call[s]
  BY <1>7 DEF IInv, TypeOK
<1>9. Whereabouts'
  BY <1>1, <1>2, <1>8 DEF IInv, Whereabouts, Answered
<1>10. AtExpert'
  <2> SUFFICES ASSUME NEW s \in Requests, s # r, At(s, "expert")
               PROVE  Ready(history[call[s].tool], call[s].thread, call[s].tool)'
    BY <1>8 DEF AtExpert, At
  <2>1. call[s].tool # tool /\ call[s].tool \in Tools
    BY <1>2, ExpertHasLock, CallIsNotIdle DEF IInv, TypeOK, At
  <2> QED
    BY <1>1, <1>2, <1>3, <1>5, <1>8, <2>1, ExpertsKept DEF IInv
<1> QED
  BY <1>6, <1>7, <1>9, <1>10, TypesMakeTypeOK DEF IInv

\* The answer of another tool on the thread keeps it.
LEMMA OtherToolAnswersKeeps ==
    ASSUME IInv, NEW t \in Threads, OtherToolAnswers(t)
    PROVE  IInv'
<1> DEFINE born == IF Alive(t) THEN NoThread ELSE t
<1>1. /\ status[t] = "unborn" \/ (t \in known /\ Alive(t))
      /\ Created(born, OtherTool) /\ TurnAdded(t, born, OtherTool, NoSteps)
      /\ Answered(t, born, OtherTool) /\ UNCHANGED <<history, proposal, queue, call>>
  BY DEF OtherToolAnswers
<1>2. /\ NoThread \notin Threads /\ t \in Maybe /\ born \in Maybe /\ OtherTool \notin Locked
      /\ NoSteps \in Histories
  BY WorkflowConstants, StepsAreCounted DEF Maybe, Locked, IInv, TypeOK, Histories
<1>3. born \in Threads => t = born /\ status[born] = "unborn"
  BY <1>1, <1>2
<1>4. t # born => status[t] # "unborn" /\ t \in known
  BY <1>1 DEF Alive
<1> HIDE DEF born
<1>5. DataTypes' /\ Secrets' /\ Kept'
  BY <1>1, <1>2, <1>3, <1>4, TurnKeepsThreads DEF IInv, DataTypes, TypeOK
<1>6. LineTypes' /\ Lines'
  BY <1>1 DEF IInv, TypeOK, LineTypes, Lines, Queued, At
<1>7. Whereabouts'
  BY <1>1, <1>3, <1>2 DEF IInv, Whereabouts, Answered, Created
<1>8. AtExpert'
  <2> SUFFICES ASSUME NEW s \in Requests, At(s, "expert")
               PROVE  Ready(history[call[s].tool], call[s].thread, call[s].tool)'
    BY <1>1 DEF AtExpert, At
  <2>1. call[s].tool # OtherTool
    BY WorkflowConstants, CallIsNotIdle DEF IInv, TypeOK, At
  <2> QED
    BY <1>1, <1>2, <1>3, <2>1, ExpertsKept DEF IInv
<1> QED
  BY <1>1, <1>5, <1>6, <1>7, <1>8, TypesMakeTypeOK DEF IInv, TypeOK

\* A thread that expires keeps it.
LEMMA ExpireKeeps ==
    ASSUME IInv, NEW t \in Threads, Expire(t)
    PROVE  IInv'
<1>1. /\ status[t] = "stored" /\ status' = [status EXCEPT ![t] = "gone"]
      /\ turns' = [turns EXCEPT ![t] = 0]
      /\ saved' = [saved EXCEPT ![t] = [tool \in Tools |-> NoSteps]]
      /\ acked' = [acked EXCEPT ![t] = 0]
      /\ UNCHANGED <<history, proposal, queue, call, creator, known>>
  BY DEF Expire
<1>2. NoSteps \in Histories /\ MaxTurns \in Nat
  BY StepsAreCounted, WorkflowConstants DEF Histories
<1>3. DataTypes'
  BY <1>1, <1>2 DEF IInv, TypeOK, DataTypes
<1>4. Secrets' /\ Kept'
  BY <1>1 DEF IInv, TypeOK, Secrets, Empty, Kept
<1>5. LineTypes' /\ Lines' /\ call' \in [Requests -> {Idle} \union Calls]
  BY <1>1 DEF IInv, TypeOK, LineTypes, Lines, Queued, At
<1>6. Whereabouts' /\ AtExpert'
  BY <1>1 DEF IInv, TypeOK, Whereabouts, AtExpert, Ready, At, Alive
<1> QED
  BY <1>3, <1>4, <1>5, <1>6, TypesMakeTypeOK DEF IInv

\* A call that arrives keeps it.
LEMMA ArriveKeeps ==
    ASSUME IInv, NEW r \in Requests, NEW tool \in Tools, NEW t \in Maybe, NEW first \in BOOLEAN,
           Arrive(r, tool, t, first)
    PROVE  IInv'
<1> USE DEF storeVars
<1>1. LineTypes' /\ Lines' /\ call' \in [Requests -> {Idle} \union Calls]
  BY ArriveKeepsLines DEF IInv
<1>2. UNCHANGED <<history, proposal, storeVars, known, acked>>
  BY DEF Arrive
<1>3. \A s \in Requests : s # r => call'[s] = call[s]
  BY DEF Arrive, IInv, TypeOK
<1>4. call'[r].pc \in {"starting", "queued"} /\ call'[r].thread = t
      /\ (t \in Threads => t \in known /\ status[t] = "stored")
  BY WorkflowConstants DEF Arrive, IInv, TypeOK, Alive, Maybe
<1>5. DataTypes' /\ Secrets' /\ Kept'
  BY <1>2 DEF IInv, DataTypes, TypeOK, Secrets, Empty, Kept
<1>6. Whereabouts'
  BY <1>2, <1>3, <1>4 DEF IInv, Whereabouts
<1>7. AtExpert'
  BY <1>2, <1>3, <1>4 DEF IInv, AtExpert, At, Ready, Alive
<1> QED
  BY <1>1, <1>5, <1>6, <1>7, TypesMakeTypeOK DEF IInv

-----------------------------------------------------------------------------
(* The theorems.                                                           *)

\* The invariant holds initially.
LEMMA InitEstablishes == Init => IInv
<1> SUFFICES ASSUME Init PROVE IInv
  OBVIOUS
<1>1. NoSteps \in Histories /\ MaxTurns \in Nat \ {0}
  BY WorkflowConstants DEF Histories
<1>2. TypeOK
  BY <1>1 DEF Init, TypeOK
<1>3. Lines /\ Secrets /\ Whereabouts /\ Kept /\ AtExpert
  BY WorkflowConstants DEF Init, Lines, Queued, At, Secrets, Empty, Whereabouts, Kept, AtExpert
<1> QED
  BY <1>2, <1>3 DEF IInv

\* Every step keeps the invariant.
LEMMA NextKeeps == IInv /\ [Next]_vars => IInv'
<1> SUFFICES ASSUME IInv, [Next]_vars PROVE IInv'
  OBVIOUS
<1>1. ASSUME NEW r \in Requests, Working(r) PROVE IInv'
  <2>1. CASE \E t \in Maybe, born \in Maybe : StepAnswered(r, t, born)
    BY <2>1, StepAnsweredKeeps
  <2>2. CASE \E t \in Maybe, born \in Maybe : StepAsksExpert(r, t, born)
    BY <2>2, StepAsksExpertKeeps
  <2>3. CASE \E t \in Maybe, born \in Maybe : StepFails(r, t, born)
    BY <2>3, StepFailsKeeps
  <2>4. CASE \E t \in Maybe, born \in Maybe : ConsultationStarts(r, t, born)
    BY <2>4, ConsultationStartsKeeps
  <2>5. CASE StepRefused(r)
    BY <2>5, LeavingKeeps DEF StepRefused, At
  <2>6. CASE ExpertReturns(r)
    BY <2>6, ExpertReturnsKeeps
  <2>7. CASE ModelsAsked(r)
    BY <2>7, ModelsAskedKeeps
  <2>8. CASE ConsultationEnds(r)
    BY <2>8, ConsultationEndsKeeps
  <2> QED
    BY <1>1, <2>1, <2>2, <2>3, <2>4, <2>5, <2>6, <2>7, <2>8 DEF Working
<1>2. ASSUME NEW r \in Requests, NEW tool \in Tools, NEW t \in Maybe, NEW first \in BOOLEAN,
             Arrive(r, tool, t, first)
      PROVE  IInv'
  BY <1>2, ArriveKeeps
<1>3. ASSUME NEW r \in Requests, Cancel(r) PROVE IInv'
  BY <1>3, LeavingKeeps DEF Cancel
<1>4. ASSUME NEW t \in Threads, OtherToolAnswers(t) PROVE IInv'
  BY <1>4, OtherToolAnswersKeeps
<1>5. ASSUME NEW t \in Threads, Expire(t) PROVE IInv'
  BY <1>5, ExpireKeeps
<1>6. CASE UNCHANGED vars
  BY <1>6 DEF vars, storeVars, IInv, TypeOK, Lines, Queued, At, Secrets, Empty, Whereabouts, Kept,
              AtExpert, Ready, Alive
<1> QED
  BY <1>1, <1>2, <1>3, <1>4, <1>5, <1>6 DEF Next

\* The invariant holds in every state.
LEMMA Invariance == Spec => []IInv
  BY InitEstablishes, NextKeeps, PTL DEF Spec

\* Type correctness of the instances, the calls, their queues and the threads
\* (execute_workflow of tools/workflow/workflow_mixin.py and tools/consensus.py).
THEOREM TypeCorrect == Spec => []TypeOK
<1>1. IInv => TypeOK
  BY DEF IInv
<1> QED
  BY <1>1, Invariance, PTL

\* What a thread holds of the tool that opened it are its own steps only, however
\* calls of the same tool interleave, fail and are cancelled (the lock of
\* _get_workflow_lock, the reset and the restore of _execute_workflow_impl).
THEOREM ThreadsKeepTheirOwn == Spec => []SavedOwnSteps
<1>1. IInv => SavedOwnSteps
  BY DEF IInv, SavedOwnSteps, Secrets, Empty, Kept, Locked
<1> QED
  BY <1>1, Invariance, PTL

\* The thread holds exactly one step for each answer of its tool, as long as it has
\* room (store_conversation_turn, and the restore that undoes what a failed call
\* left on the instance).
THEOREM NoStepIsLost == Spec => []AckedStepsKept
<1>1. IInv => AckedStepsKept
  BY DEF IInv, AckedStepsKept, Kept, Alive, Locked
<1> QED
  BY <1>1, Invariance, PTL

\* execute_workflow serialises the calls of one instance: the lock is handed on by
\* every call that leaves, and one call at most is with the expert.
THEOREM CallsAreSerialised == Spec => []LockHandedOn
<1>1. ASSUME IInv PROVE LockHandedOn
  <2>1. \A tool \in Tools : \A i \in DOMAIN queue[tool] :
          /\ call[queue[tool][i]] # Idle /\ call[queue[tool][i]].tool = tool
          /\ \A j \in DOMAIN queue[tool] : queue[tool][i] = queue[tool][j] => i = j
    BY <1>1 DEF IInv, TypeOK, Lines
  <2>2. \A r \in Requests : At(r, "queued") \/ At(r, "expert") =>
            \E i \in DOMAIN queue[call[r].tool] : queue[call[r].tool][i] = r
    BY <1>1 DEF IInv, Lines, Queued
  <2>3. \A r, s \in Requests :
            At(r, "expert") /\ At(s, "expert") /\ call[r].tool = call[s].tool => r = s
    BY <1>1 DEF IInv, Lines
  <2> QED
    BY <2>1, <2>2, <2>3 DEF LockHandedOn
<1> QED
  BY <1>1, Invariance, PTL

-----------------------------------------------------------------------------
(* Sessions are logs.                                                      *)

\* What a step may do to the session of thread t.
SameSession(t) == SessionPhase(t)' = SessionPhase(t) /\ SessionSteps(t)' = SessionSteps(t)
Opened(t) ==
    /\ SessionPhase(t) = "unborn" /\ SessionPhase(t)' \in {"open", "foreign"}
    /\ SessionSteps(t)' = SessionSteps(t)
StepLogged(t) ==
    /\ SessionPhase(t) \in {"unborn", "open"} /\ SessionPhase(t)' = "open"
    /\ Len(SessionSteps(t)) < MaxTurns
    /\ SessionSteps(t)' = Append(SessionSteps(t), t)
Forgotten(t) ==
    SessionPhase(t) = "open" /\ SessionPhase(t)' = "closed" /\ SessionSteps(t)' = <<>>

\* One of these in one thread, and nothing in the others, is a step of the abstract sessions.
LEMMA OneThreadMoves ==
    ASSUME NEW t \in Threads, \A u \in Threads : u # t => SameSession(u),
           SameSession(t) \/ Opened(t) \/ StepLogged(t) \/ Forgotten(t)
    PROVE  [Sessions!Next]_<<SessionPhases, SessionLogs>>
<1> DEFINE phases == SessionPhases
           logs == SessionLogs
<1>1. /\ phases \in [Threads -> {phases[u] : u \in Threads}] /\ logs = [u \in Threads |-> SessionSteps(u)]
      /\ phases = [u \in Threads |-> SessionPhase(u)]
      /\ phases' = [u \in Threads |-> SessionPhase(u)'] /\ logs' = [u \in Threads |-> SessionSteps(u)']
  BY DEF SessionPhases, SessionLogs
<1>2. /\ phases' = [phases EXCEPT ![t] = SessionPhase(t)'] /\ phases[t] = SessionPhase(t)
      /\ logs' = [logs EXCEPT ![t] = SessionSteps(t)'] /\ logs[t] = SessionSteps(t)
  BY <1>1 DEF SameSession
<1>3. CASE SameSession(t)
  BY <1>1, <1>3 DEF SameSession, SessionPhases, SessionLogs
<1>4. CASE Opened(t)
  <2>1. logs' = logs
    BY <1>1, <1>4 DEF Opened, SameSession
  <2>2. Sessions!Open(t) \/ Sessions!OpenElsewhere(t)
    BY <1>2, <1>4, <2>1 DEF Opened, Sessions!Open, Sessions!OpenElsewhere, SessionPhases, SessionLogs
  <2> QED
    BY <2>2 DEF Sessions!Next
<1>5. CASE StepLogged(t)
  <2>1. Sessions!Answer(t)
    BY <1>2, <1>5 DEF StepLogged, Sessions!Answer, SessionPhases, SessionLogs
  <2> QED
    BY <2>1 DEF Sessions!Next
<1>6. CASE Forgotten(t)
  <2>1. Sessions!Forget(t)
    BY <1>2, <1>6 DEF Forgotten, Sessions!Forget, SessionPhases, SessionLogs
  <2> QED
    BY <2>1 DEF Sessions!Next
<1> QED
  BY <1>3, <1>4, <1>5, <1>6

\* A thread whose row, opener and steps stay as they are keeps its session.
LEMMA SameThreadSameSession ==
    ASSUME NEW t, status'[t] = status[t], creator'[t] = creator[t],
           creator[t] \in Locked => saved'[t][creator[t]] = saved[t][creator[t]]
    PROVE  SameSession(t)
  BY DEF SameSession, SessionPhase, SessionSteps, Locked

\* A list of n + 1 equal members is one of n with another behind.
LEMMA OneMoreAlike ==
    ASSUME NEW n \in Nat, NEW e
    PROVE  /\ [i \in 1 .. n + 1 |-> e] = Append([i \in 1 .. n |-> e], e)
           /\ Len([i \in 1 .. n |-> e]) = n
<1> DEFINE s == [i \in 1 .. n |-> e]
           w == [i \in 1 .. n + 1 |-> e]
<1>1. s \in Seq({e}) /\ Len(s) = n /\ w \in Seq({e}) /\ Len(w) = n + 1
  OBVIOUS
<1>2. /\ Append(s, e) \in Seq({e}) /\ Len(Append(s, e)) = n + 1
      /\ (\A i \in 1 .. n : Append(s, e)[i] = e) /\ Append(s, e)[n + 1] = e
  BY <1>1, AppendProperties
<1>3. \A i \in 1 .. n + 1 : i \in 1 .. n \/ i = n + 1
  OBVIOUS
<1> HIDE DEF s
<1>4. \A i \in 1 .. n + 1 : Append(s, e)[i] = w[i]
  BY <1>2, <1>3
<1> HIDE DEF w
<1>5. Append(s, e) = w
  BY <1>1, <1>2, <1>4, SeqEqual
<1> QED
  BY <1>1, <1>5 DEF s, w

\* A turn stored where TurnKeepsThreads says is a step of the session it belongs to, or of none.
LEMMA TurnIsLogged ==
    ASSUME TypeOK, Secrets, Kept,
           NEW t \in Maybe, NEW born \in Maybe, NEW tool \in Tools \union {OtherTool},
           NEW steps \in Histories,
           Created(born, tool), TurnAdded(t, born, tool, steps),
           born \in Threads => t = born /\ status[born] = "unborn",
           t \in Threads /\ t # born => status[t] # "unborn" /\ (t \in known \/ creator[t] = tool),
           tool \in Locked /\ t \in Threads /\ (t = born \/ (Alive(t) /\ creator[t] = tool)) =>
               /\ steps # NoSteps
               /\ steps.of = t
               /\ turns[t] < MaxTurns => steps.count = saved[t][tool].count + 1
    PROVE  [Sessions!Next]_<<SessionPhases, SessionLogs>>
<1>1. /\ NoThread \notin Threads /\ MaxTurns \in Nat \ {0} /\ OtherTool \notin Tools /\ Locked \subseteq Tools
      /\ NoSteps.count = 0
      /\ \A h \in Histories : h.count \in Nat /\ (h.count = 0 => h = NoSteps)
  BY WorkflowConstants, StepsAreCounted DEF Maybe, Locked, Histories, NoSteps
<1>2. ASSUME NEW u \in Threads, u # t PROVE SameSession(u)
  <2>1. status'[u] = status[u] /\ creator'[u] = creator[u] /\ saved'[u] = saved[u]
    BY <1>2 DEF Created, TurnAdded, TypeOK
  <2> QED
    BY <2>1, SameThreadSameSession
<1>3. CASE t \notin Threads
  <2>1. \A u \in Threads : SameSession(u)
    BY <1>2, <1>3
  <2>2. SessionPhases' = SessionPhases /\ SessionLogs' = SessionLogs
    BY <2>1 DEF SessionPhases, SessionLogs, SameSession
  <2> QED
    BY <2>2
<1>4. CASE t \in Threads /\ t = born
  <2>1. /\ status[t] = "unborn" /\ turns[t] = 0 /\ \A other \in Tools : saved[t][other] = NoSteps
        /\ status'[t] = "stored" /\ creator'[t] = tool
    BY <1>4 DEF Created, Secrets, Empty
  <2>2. SessionPhase(t) = "unborn" /\ SessionSteps(t) = <<>>
    BY <1>1, <2>1 DEF SessionPhase, SessionSteps, Locked
  <2>3. CASE tool \in Locked
    <3>1. saved'[t][tool] = steps /\ steps.of = t /\ steps.count = 1
      <4>1. turns[t] < MaxTurns /\ Accepts(t, born)
        BY <1>1, <1>4, <2>1 DEF Accepts
      <4>2. saved'[t][tool] = steps
        BY <1>1, <1>4, <2>3, <4>1 DEF TurnAdded, TypeOK
      <4> QED
        BY <1>1, <1>4, <2>1, <2>3, <4>1, <4>2
    <3>2. SessionPhase(t)' = "open" /\ SessionSteps(t)' = [i \in 1 .. 1 |-> t]
      BY <2>1, <2>3, <3>1 DEF SessionPhase, SessionSteps, Locked
    <3>3. [i \in 1 .. 1 |-> t] = Append(<<>>, t) /\ Len(<<>>) = 0
      OBVIOUS
    <3>4. StepLogged(t)
      BY <1>1, <2>2, <3>2, <3>3 DEF StepLogged
    <3> QED
      BY <1>2, <1>4, <3>4, OneThreadMoves
  <2>4. CASE tool \notin Locked
    <3>1. SessionPhase(t)' = "foreign" /\ SessionSteps(t)' = <<>>
      BY <2>1, <2>4 DEF SessionPhase, SessionSteps, Locked
    <3>2. Opened(t)
      BY <2>2, <3>1 DEF Opened
    <3> QED
      BY <1>2, <1>4, <3>2, OneThreadMoves
  <2> QED
    BY <2>3, <2>4
<1>5. CASE t \in Threads /\ t # born
  <2>1. status'[t] = status[t] /\ creator'[t] = creator[t] /\ status[t] # "unborn"
    BY <1>5 DEF Created
  <2>2. CASE Accepts(t, born) /\ tool \in Locked /\ creator[t] = tool
    <3>1. Alive(t) /\ turns[t] < MaxTurns /\ status[t] = "stored"
      BY <1>5, <2>2 DEF Accepts, Alive
    <3>2. saved'[t][tool] = steps /\ steps.of = t /\ steps.count = saved[t][tool].count + 1
      <4>1. saved'[t][tool] = steps
        BY <1>1, <1>5, <2>2 DEF TurnAdded, TypeOK
      <4> QED
        BY <1>5, <2>2, <3>1, <4>1
    <3> DEFINE n == saved[t][tool].count
    <3>3. /\ saved[t][tool] \in Histories /\ turns[t] \in 0 .. MaxTurns
          /\ n \in Nat /\ n <= turns[t] /\ (n # 0 => saved[t][tool].of = t)
      <4>1. saved[t][tool] \in Histories /\ turns[t] \in 0 .. MaxTurns
        BY <1>1, <1>5, <2>2 DEF TypeOK
      <4>2. n <= turns[t] /\ (saved[t][tool] # NoSteps => saved[t][tool].of = t)
        BY <1>5, <2>2, <3>1 DEF Kept
      <4> QED
        BY <1>1, <4>1, <4>2
    <3>4. SessionSteps(t) = [i \in 1 .. n |-> saved[t][tool].of]
      BY <2>2 DEF SessionSteps, Locked
    <3>5. [i \in 1 .. n |-> saved[t][tool].of] = [i \in 1 .. n |-> t]
      <4>1. CASE n = 0
        <5>1. 1 .. n = {}
          BY <4>1
        <5> QED
          BY <5>1, Zenon
      <4>2. CASE n # 0
        BY <3>3, <4>2
      <4> QED
        BY <4>1, <4>2
    <3>6. SessionSteps(t)' = [i \in 1 .. n + 1 |-> t] /\ SessionPhase(t) = "open" /\ SessionPhase(t)' = "open"
      BY <2>1, <2>2, <3>1, <3>2 DEF SessionPhase, SessionSteps, Locked
    <3> HIDE DEF n
    <3>7. SessionSteps(t)' = Append(SessionSteps(t), t) /\ Len(SessionSteps(t)) = n
      BY <3>3, <3>4, <3>5, <3>6, OneMoreAlike
    <3>8. n < MaxTurns
      BY <1>1, <3>1, <3>3
    <3>9. StepLogged(t)
      BY <3>6, <3>7, <3>8 DEF StepLogged
    <3> QED
      BY <1>2, <1>5, <3>9, OneThreadMoves
  <2>3. CASE ~(Accepts(t, born) /\ tool \in Locked /\ creator[t] = tool)
    <3>1. creator[t] \in Locked => saved'[t][creator[t]] = saved[t][creator[t]]
      <4>1. CASE saved' = saved
        BY <4>1
      <4>2. CASE Accepts(t, born) /\ saved' = [saved EXCEPT ![t][tool] = steps]
        <5>1. creator[t] \in Locked => creator[t] # tool
          BY <2>3, <4>2
        <5> QED
          BY <1>1, <1>5, <4>2, <5>1 DEF TypeOK
      <4> QED
        BY <4>1, <4>2 DEF TurnAdded
    <3>2. SameSession(t)
      BY <2>1, <3>1, SameThreadSameSession
    <3> QED
      BY <1>2, <1>5, <3>2, OneThreadMoves
  <2> QED
    BY <2>2, <2>3
<1> QED
  BY <1>3, <1>4, <1>5

\* A thread opened without a turn opens a session, or is no session of these tools.
LEMMA OpeningIsAbstract ==
    ASSUME TypeOK, Secrets, NEW born \in Maybe, NEW tool \in Tools,
           born \in Threads => status[born] = "unborn", Created(born, tool), UNCHANGED saved
    PROVE  [Sessions!Next]_<<SessionPhases, SessionLogs>>
<1>1. ASSUME NEW u \in Threads, u # born PROVE SameSession(u)
  <2>1. status'[u] = status[u] /\ creator'[u] = creator[u] /\ saved'[u] = saved[u]
    BY <1>1 DEF Created
  <2> QED
    BY <2>1, SameThreadSameSession
<1>2. CASE born \notin Threads
  <2>1. \A u \in Threads : SameSession(u)
    BY <1>1, <1>2
  <2>2. SessionPhases' = SessionPhases /\ SessionLogs' = SessionLogs
    BY <2>1 DEF SessionPhases, SessionLogs, SameSession
  <2> QED
    BY <2>2
<1>3. CASE born \in Threads
  <2>1. /\ status[born] = "unborn" /\ status'[born] = "stored" /\ creator'[born] = tool
        /\ \A other \in Tools : saved[born][other] = NoSteps /\ saved'[born][other] = NoSteps
    BY <1>3 DEF Created, Secrets, Empty
  <2>2. NoSteps.count = 0 /\ 1 .. 0 = {} /\ Locked \subseteq Tools
    BY DEF NoSteps, Locked
  <2>3. SessionSteps(born) = <<>> /\ SessionSteps(born)' = <<>>
    BY <2>1, <2>2 DEF SessionSteps, Locked
  <2>4. SessionPhase(born) = "unborn" /\ SessionPhase(born)' \in {"open", "foreign"}
    BY <2>1 DEF SessionPhase
  <2>5. Opened(born)
    BY <2>3, <2>4 DEF Opened
  <2> QED
    BY <1>1, <1>3, <2>5, OneThreadMoves
<1> QED
  BY <1>2, <1>3

\* What one step of a call does to the sessions.
LEMMA WorkingIsAbstract ==
    ASSUME IInv, NEW r \in Requests, Working(r)
    PROVE  [Sessions!Next]_<<SessionPhases, SessionLogs>>
<1> DEFINE tool == call[r].tool
           Abstract == [Sessions!Next]_<<SessionPhases, SessionLogs>>
<1>1. ASSUME NEW t \in Maybe, NEW born \in Maybe, StepAnswered(r, t, born) PROVE Abstract
  <2> DEFINE steps == history'[tool]
  <2>1. Works(r, t, born) /\ TurnAdded(t, born, tool, steps)
    BY <1>1 DEF StepAnswered
  <2>2. /\ tool \in Tools /\ Created(born, tool)
        /\ born \in Threads => t = born /\ status[born] = "unborn"
        /\ t \in Threads /\ t # born => status[t] # "unborn" /\ t \in known
    BY <2>1, StepBegins
  <2>3. /\ steps \in Histories /\ steps # NoSteps
        /\ tool \in Locked /\ t \in Threads /\ (t = born \/ (Alive(t) /\ creator[t] = tool)) =>
              steps.of = t /\ (turns[t] < MaxTurns => steps.count = saved[t][tool].count + 1)
    BY <2>1, StepIsOwn
  <2> HIDE DEF steps, tool
  <2> QED
    BY <2>1, <2>2, <2>3, TurnIsLogged DEF IInv
<1>2. ASSUME NEW t \in Maybe, NEW born \in Maybe, StepAsksExpert(r, t, born) \/ StepFails(r, t, born)
      PROVE  Abstract
  <2>1. Works(r, t, born) /\ UNCHANGED saved
    BY <1>2 DEF StepAsksExpert, StepFails
  <2>2. /\ tool \in Tools /\ Created(born, tool)
        /\ born \in Threads => status[born] = "unborn"
    BY <2>1, StepBegins
  <2> HIDE DEF tool
  <2> QED
    BY <2>1, <2>2, OpeningIsAbstract DEF IInv
<1>3. ASSUME NEW t \in Maybe, NEW born \in Maybe, ConsultationStarts(r, t, born) PROVE Abstract
  <2>1. /\ tool \in Tools /\ Created(born, tool) /\ UNCHANGED saved
        /\ born \in Threads => status[born] = "unborn"
    BY <1>3, CallIsNotIdle, WorkflowConstants DEF ConsultationStarts, At, WorksOn, IInv, TypeOK
  <2> HIDE DEF tool
  <2> QED
    BY <2>1, OpeningIsAbstract DEF IInv
<1>4. ASSUME StepRefused(r) \/ ModelsAsked(r) PROVE Abstract
  <2>1. UNCHANGED <<status, creator, saved>>
    BY <1>4 DEF StepRefused, ModelsAsked, storeVars
  <2>2. SessionPhases' = SessionPhases /\ SessionLogs' = SessionLogs
    BY <2>1 DEF SessionPhases, SessionLogs, SessionPhase, SessionSteps
  <2> QED
    BY <2>2
<1>5. ASSUME ExpertReturns(r) PROVE Abstract
  <2> DEFINE t == call[r].thread
  <2>1. /\ At(r, "expert") /\ TurnAdded(t, NoThread, tool, history[tool]) /\ UNCHANGED <<status, creator>>
    BY <1>5 DEF ExpertReturns
  <2>2. /\ call[r] # Idle /\ tool \in Tools /\ t \in Maybe
        /\ NoThread \in Maybe /\ NoThread \notin Threads /\ history[tool] \in Histories
    BY <2>1, CallIsNotIdle, WorkflowConstants DEF IInv, TypeOK, At, Maybe
  <2>3. Created(NoThread, tool)
    BY <2>1, <2>2 DEF Created, IInv, TypeOK
  <2>4. t \in Threads => status[t] # "unborn" /\ (t \in known \/ creator[t] = tool)
    BY <2>1, <2>2 DEF IInv, Whereabouts
  <2>5. history[tool] # NoSteps
        /\ (Alive(t) /\ creator[t] = tool =>
              /\ history[tool].of = t
              /\ turns[t] < MaxTurns => history[tool].count = saved[t][tool].count + 1)
    BY <2>1 DEF IInv, AtExpert, Ready
  <2> HIDE DEF tool, t
  <2> QED
    BY <2>1, <2>2, <2>3, <2>4, <2>5, TurnIsLogged DEF IInv
<1>6. ASSUME ConsultationEnds(r) PROVE Abstract
  <2> DEFINE t == call[r].thread
             steps == history'[tool]
  <2>1. /\ At(r, "consulting") /\ TurnAdded(t, NoThread, tool, steps) /\ UNCHANGED <<status, creator>>
        /\ history' = [history EXCEPT ![tool] = Extended(history[tool], t)]
    BY <1>6 DEF ConsultationEnds
  <2>2. /\ call[r] # Idle /\ tool \in Tools /\ t \in Maybe /\ tool \notin Locked
        /\ NoThread \in Maybe /\ NoThread \notin Threads
    BY <2>1, CallIsNotIdle, WorkflowConstants DEF IInv, TypeOK, Lines, At, Queued, Maybe, Locked
  <2>3. Created(NoThread, tool)
    BY <2>1, <2>2 DEF Created, IInv, TypeOK
  <2>4. t \in Threads => status[t] # "unborn" /\ (t \in known \/ creator[t] = tool)
    BY <2>1, <2>2 DEF IInv, Whereabouts
  <2>5. steps \in Histories
    BY <2>1, <2>2, StepsAreCounted DEF IInv, TypeOK
  <2> HIDE DEF tool, t, steps
  <2> QED
    BY <2>1, <2>2, <2>3, <2>4, <2>5, TurnIsLogged DEF IInv
<1> QED
  BY <1>1, <1>2, <1>3, <1>4, <1>5, <1>6 DEF Working

\* Every step maps to one of the abstract sessions, or to none.
LEMMA StepsAreAbstract == IInv /\ [Next]_vars => [Sessions!Next]_<<SessionPhases, SessionLogs>>
<1> DEFINE Abstract == [Sessions!Next]_<<SessionPhases, SessionLogs>>
<1> SUFFICES ASSUME IInv, [Next]_vars PROVE Abstract
  OBVIOUS
<1>1. ASSUME UNCHANGED <<status, creator, saved>> PROVE Abstract
  <2>1. SessionPhases' = SessionPhases /\ SessionLogs' = SessionLogs
    BY <1>1 DEF SessionPhases, SessionLogs, SessionPhase, SessionSteps
  <2> QED
    BY <2>1
<1>2. CASE UNCHANGED vars
  BY <1>1, <1>2 DEF vars, storeVars
<1>3. ASSUME NEW r \in Requests, NEW tool \in Tools, NEW t \in Maybe, NEW first \in BOOLEAN,
             Arrive(r, tool, t, first)
      PROVE  Abstract
  BY <1>1, <1>3 DEF Arrive, storeVars
<1>4. ASSUME NEW r \in Requests, Cancel(r) PROVE Abstract
  BY <1>1, <1>4 DEF Cancel, storeVars
<1>5. ASSUME NEW t \in Threads, OtherToolAnswers(t) PROVE Abstract
  <2> DEFINE born == IF Alive(t) THEN NoThread ELSE t
  <2>1. /\ status[t] = "unborn" \/ (t \in known /\ Alive(t))
        /\ Created(born, OtherTool) /\ TurnAdded(t, born, OtherTool, NoSteps)
    BY <1>5 DEF OtherToolAnswers
  <2>2. /\ NoThread \notin Threads /\ t \in Maybe /\ born \in Maybe /\ OtherTool \notin Locked
        /\ NoSteps \in Histories
    BY <1>5, WorkflowConstants, StepsAreCounted DEF Maybe, Locked, Histories
  <2>3. born \in Threads => t = born /\ status[born] = "unborn"
    BY <2>1, <2>2
  <2>4. t # born => status[t] # "unborn" /\ t \in known
    BY <2>1 DEF Alive
  <2> HIDE DEF born
  <2> QED
    BY <2>1, <2>2, <2>3, <2>4, TurnIsLogged DEF IInv
<1>6. ASSUME NEW t \in Threads, Expire(t) PROVE Abstract
  <2>1. /\ status[t] = "stored" /\ status' = [status EXCEPT ![t] = "gone"] /\ creator' = creator
        /\ saved' = [saved EXCEPT ![t] = [tool \in Tools |-> NoSteps]]
    BY <1>6 DEF Expire
  <2>2. \A u \in Threads : u # t => SameSession(u)
    <3> SUFFICES ASSUME NEW u \in Threads, u # t PROVE SameSession(u)
      OBVIOUS
    <3>1. status'[u] = status[u] /\ saved'[u] = saved[u]
      BY <2>1 DEF IInv, TypeOK
    <3> QED
      BY <2>1, <3>1, SameThreadSameSession
  <2>3. status'[t] = "gone" /\ \A tool \in Tools : saved'[t][tool] = NoSteps
    BY <1>6, <2>1 DEF IInv, TypeOK
  <2>4. CASE creator[t] \in Locked
    <3>1. NoSteps.count = 0 /\ 1 .. 0 = {}
      BY DEF NoSteps
    <3>2. SessionSteps(t)' = <<>>
      BY <2>1, <2>3, <2>4, <3>1 DEF SessionSteps, Locked
    <3>3. Forgotten(t)
      BY <2>1, <2>3, <2>4, <3>2 DEF Forgotten, SessionPhase, Locked
    <3> QED
      BY <1>6, <2>2, <3>3, OneThreadMoves
  <2>5. CASE creator[t] \notin Locked
    <3>1. SameSession(t)
      BY <2>1, <2>3, <2>5 DEF SameSession, SessionPhase, SessionSteps, Locked
    <3> QED
      BY <1>6, <2>2, <3>1, OneThreadMoves
  <2> QED
    BY <2>4, <2>5
<1> QED
  BY <1>2, <1>3, <1>4, <1>5, <1>6, WorkingIsAbstract DEF Next

\* The workflow tools, which share one instance, one list of steps and one lock for all sessions
\* of a tool, implement sessions that are logs of their own answered steps, for any number of
\* tools, calls and threads.
THEOREM SessionsAreIsolated == Spec => SessionsAreLogs
<1>1. Init => Sessions!Init
  BY DEF Init, Sessions!Init, SessionPhases, SessionLogs, SessionPhase, SessionSteps, NoSteps
<1>2. Spec => Sessions!Init /\ [][Sessions!Next]_<<SessionPhases, SessionLogs>>
  BY <1>1, StepsAreAbstract, Invariance, PTL DEF Spec
<1> QED
  BY <1>2 DEF SessionsAreLogs, Sessions!Spec
=============================================================================
