---------------------------- MODULE CliRunProofs ----------------------------
(***************************************************************************)
(* Theorems about a call of an agent, for every configuration of agents,   *)
(* every request, every output and every directory: what agents below one  *)
(* another inherit, the report of the two walks, the command and what it   *)
(* lets the agent do, the model it names, and the answer.                  *)
(***************************************************************************)
EXTENDS CliRun, SequenceTheorems, WellFoundedInduction, TLAPS

(* The depth a server reads counts the agents above it, and a call only    *)
(* gets as far as a command when that depth is within the limit.  The      *)
(* second part is what the limit protects: the depth is looked at once, in *)
(* the request, and the server never changes it afterwards.                *)
DepthCounts ==
    /\ depth = chain
    /\ call.phase \in {"before", "launching", "running"} => WithinDepth

(* A call has a phase, whatever else becomes of it. *)
HasPhase == "phase" \in DOMAIN call

IInv == HasPhase /\ DepthCounts /\ KeysWithheld

\* The steps of a call that leave the server alone, and the phase they leave it in.
Quiet ==
    /\ UNCHANGED server
    /\ HasPhase'
    /\ call'.phase \in {"before", "launching", "running"} =>
         call.phase \in {"before", "launching", "running"} \/ WithinDepth

\* Of the keys that may be withheld, an agent is given those its manifest declares.
LEMMA HandedIsDeclared ==
  ASSUME setting.strip
  PROVE  Handed \cap Secrets \subseteq Manifest(call.request).env
BY DEF Handed, Environment

\* A quiet step keeps what is known of the server.
LEMMA QuietKeeps ==
  ASSUME IInv, Quiet
  PROVE  IInv'
<1>1. DepthCounts'
  BY DEF IInv, DepthCounts, Quiet, server, WithinDepth, MaxDepth
<1>2. KeysWithheld'
  <2>1. setting.strip' => (Handed \cap Secrets \subseteq Manifest(call.request).env)'
    BY DEF Handed, Environment
  <2>2. (chain > 0 => inherited.keys \cap Secrets \subseteq Clients(setting.files)[inherited.from].env \cup setting.dotenv)'
        <=> (chain > 0 => inherited.keys \cap Secrets \subseteq Clients(setting.files)[inherited.from].env \cup setting.dotenv)
    BY DEF Quiet, server
  <2>3. setting' = setting
    BY DEF Quiet, server
  <2> QED
    BY <2>1, <2>2, <2>3 DEF IInv, KeysWithheld
<1> QED
  BY <1>1, <1>2 DEF IInv, Quiet, Nest, HasPhase, Idle

\* The agent's own call: one deeper, and with the keys its manifest declares.
LEMMA NestKeeps ==
  ASSUME IInv, Nest
  PROVE  IInv'
<1>1. DepthCounts'
  BY DEF Nest, IInv, DepthCounts, ChildDepth, Idle
<1>2. KeysWithheld'
  <2> DEFINE m == Clients(setting.files)[Cli]
             kept == Handed
  <2>1. /\ inherited'.from = Cli /\ inherited'.keys = kept \cup setting.dotenv /\ setting' = setting
        /\ ~Working'
    BY DEF Nest, Working, Idle
  <2>2. setting.strip => kept \cap Secrets \subseteq m.env
    BY HandedIsDeclared DEF Manifest, Cli
  <2> HIDE DEF kept
  <2> QED
    BY <2>1, <2>2 DEF KeysWithheld
<1> QED
  BY <1>1, <1>2 DEF IInv, Quiet, Nest, HasPhase, Idle

\* Looking at the directory and starting the run get no further than the request did.
LEMMA WorkIsQuiet ==
  ASSUME HasPhase, Scan \/ Unreadable \/ CutShort \/ Start \/ Launched
  PROVE  Quiet
<1>1. CASE Scan \/ Unreadable \/ CutShort
  <2>1. PICK walk, at : call' = Recorded(walk, at)
    BY <1>1 DEF Scan, Unreadable, CutShort
  <2>2. call'.phase = call.phase /\ HasPhase'
    BY <2>1 DEF Recorded, HasPhase
  <2> QED
    BY <1>1, <2>2 DEF Quiet, Scan, Unreadable, CutShort
<1>2. CASE Start
  <2>1. HasPhase' /\ call.phase = "before"
    BY <1>2 DEF Start, HasPhase, Ready
  <2> QED
    BY <1>2, <2>1 DEF Quiet, Start
<1>3. CASE Launched
  BY <1>3 DEF Quiet, Launched, HasPhase
<1> QED
  BY <1>1, <1>2, <1>3

\* However a run ends, it ends.
LEMMA EndIsQuiet ==
  ASSUME HasPhase, NEW output, NEW size,
         \/ NoExecutable \/ LaunchFails \/ Abandon \/ TimesOut \/ Cancel
         \/ Exit(output) \/ Respond(size) \/ Answered
  PROVE  Quiet
<1>1. CASE NoExecutable \/ LaunchFails \/ Abandon \/ TimesOut \/ Cancel
  <2>1. call'.phase = "done" /\ HasPhase'
    BY <1>1 DEF NoExecutable, LaunchFails, Abandon, TimesOut, Cancel, Failed, HasPhase
  <2> QED
    BY <1>1, <2>1 DEF Quiet, NoExecutable, LaunchFails, Abandon, TimesOut, Cancel
<1>2. CASE Exit(output)
  <2>1. call'.phase \in {"after", "done"} /\ HasPhase'
    BY <1>2 DEF Exit, HasPhase
  <2> QED
    BY <1>2, <2>1 DEF Quiet, Exit
<1>3. CASE Respond(size)
  <2>1. call'.phase = "done" /\ HasPhase'
    BY <1>3 DEF Respond, HasPhase
  <2> QED
    BY <1>3, <2>1 DEF Quiet, Respond
<1>4. CASE Answered
  BY <1>4 DEF Quiet, Answered, Idle, HasPhase
<1> QED
  BY <1>1, <1>2, <1>3, <1>4

\* A request is checked before anything is done for it.
LEMMA AskIsQuiet ==
  ASSUME NEW r, Ask(r)
  PROVE  Quiet
<1>1. /\ HasPhase' /\ UNCHANGED server
      /\ call'.phase = IF Accepted(r) THEN "before" ELSE "done"
  BY DEF Ask, Idle, HasPhase
<1> QED
  BY <1>1 DEF Quiet, Accepted

\* Files are not what the limit depends on.
LEMMA WritesAreQuiet ==
  ASSUME HasPhase, NEW p, NEW stamp, AgentWrites(p, stamp) \/ OtherWrites(p, stamp)
  PROVE  Quiet
<1>1. call'.phase = call.phase /\ HasPhase'
  BY DEF AgentWrites, OtherWrites, HasPhase
<1> QED
  BY <1>1 DEF Quiet, AgentWrites, OtherWrites

-----------------------------------------------------------------------------
\* The limit and the withholding of keys hold however the agents are configured to call one
\* another: a server below an agent counts one more than the one above it (_build_environment,
\* _check_recursion_guard), an agent is given the provider keys its manifest declares, and a
\* server below it has these and those of the .env file that it reads (reload_env).
THEOREM NestedCallsInherit == Spec => []NestedInherits
<1>1. Init => IInv
  BY DEF Init, IInv, HasPhase, DepthCounts, KeysWithheld, Working, Idle
<1>2. IInv /\ [Next]_vars => IInv'
  <2> SUFFICES ASSUME IInv, [Next]_vars PROVE IInv'
    OBVIOUS
  <2>1. CASE Nest
    BY <2>1, NestKeeps
  <2>2. ASSUME NEW r, Ask(r) PROVE IInv'
    BY <2>2, AskIsQuiet, QuietKeeps
  <2>3. CASE Scan \/ Unreadable \/ CutShort \/ Start \/ Launched
    BY <2>3, WorkIsQuiet, QuietKeeps DEF IInv
  <2>4. CASE NoExecutable \/ LaunchFails \/ Abandon \/ TimesOut \/ Cancel \/ Answered
    BY <2>4, EndIsQuiet, QuietKeeps DEF IInv
  <2>5. ASSUME NEW output, Exit(output) PROVE IInv'
    BY <2>5, EndIsQuiet, QuietKeeps DEF IInv
  <2>6. ASSUME NEW size, Respond(size) PROVE IInv'
    BY <2>6, EndIsQuiet, QuietKeeps DEF IInv
  <2>7. ASSUME NEW p, NEW stamp, AgentWrites(p, stamp) \/ OtherWrites(p, stamp) PROVE IInv'
    BY <2>7, WritesAreQuiet, QuietKeeps DEF IInv
  <2>8. CASE UNCHANGED vars
    <3>1. Quiet
      BY <2>8 DEF Quiet, vars, server, HasPhase, IInv
    <3> QED
      BY <3>1, QuietKeeps
  <2> QED
    BY <2>1, <2>2, <2>3, <2>4, <2>5, <2>6, <2>7, <2>8 DEF Next
<1>3. IInv => NestedInherits
  BY DEF IInv, DepthCounts, WithinDepth, Working, NestedInherits, DepthBounded
<1> QED
  BY <1>1, <1>2, <1>3, PTL DEF Spec

-----------------------------------------------------------------------------
(* The two walks.                                                          *)

IsWalk(w) == DOMAIN w = {"seen", "missed", "cut"} /\ w.missed \subseteq Paths /\ w.cut \in BOOLEAN

\* The parts of a call that the walks and the report go by.
Shaped ==
    /\ DOMAIN call = DOMAIN Idle
    /\ call.phase \in {"idle", "before", "launching", "running", "after", "done"}
    /\ IsWalk(call.pre) /\ IsWalk(call.post)
    /\ call.at \in Nat \ {0}
    /\ call.wrote \subseteq Paths
    /\ call.outcome = "answered" => call.phase = "done"

\* No stamp is newer than the clock, in the directory or in a walk, and a walk records only
\* files that it enters and that were there.
Stamped ==
    /\ clock \in Nat
    /\ disk \in [Paths -> 0 .. clock]
    /\ \A w \in {call.pre, call.post} : \A p \in DOMAIN w.seen :
        p \in Paths /\ Walked(p) /\ w.seen[p] \in 1 .. clock

\* What a walk recorded of a file is still so, unless somebody touched the file.
Kept(w, touched) == \A p \in DOMAIN w.seen \ touched : w.seen[p] = disk[p]

\* A walk has seen or missed every file that nobody touched: of those before a place in the
\* order, and of all.
Noted(w) == DOMAIN w.seen \cup w.missed
Progress(w, touched, at) ==
    \A j \in 1 .. Len(Order) :
        j < at /\ Order[j] \notin touched /\ Walked(Order[j]) /\ disk[Order[j]] # 0 => Order[j] \in Noted(w)
Met(w, touched) == \A p \in Paths \ touched : Walked(p) /\ disk[p] # 0 => p \in Noted(w)

\* The directory that the walk has read the names of holds every file that nobody touched.
Listed(listed, touched) == \A p \in Paths \ touched : disk[p] # 0 => Head(p) \in listed

\* What the agent wrote is newer than the first walk.
Newer == \A p \in call.wrote \cap DOMAIN call.pre.seen : disk[p] = 0 \/ call.pre.seen[p] < disk[p]

FirstWalk ==
    /\ call.wrote = {} /\ call.post = NoWalk
    /\ Kept(call.pre, call.others)
    /\ call.request.readOnly =>
        /\ Listed(call.listed, call.others)
        /\ ~call.pre.cut => Progress(call.pre, call.others, call.at)

FirstWalkDone ==
    LET touched == call.others \cup call.wrote IN
    /\ Kept(call.pre, touched)
    /\ call.request.readOnly /\ ~call.pre.cut => Met(call.pre, touched)
    /\ Newer

SecondWalk ==
    /\ Kept(call.post, call.others)
    /\ call.request.readOnly =>
        /\ Listed(call.listed, call.others)
        /\ ~call.post.cut => Progress(call.post, call.others, call.at)

WalkInv ==
    /\ Shaped /\ Stamped
    /\ call.phase = "before" => FirstWalk
    /\ call.phase \in {"launching", "running", "after"} => FirstWalkDone
    /\ Working => call.at = 1 /\ call.post = NoWalk
    /\ call.phase = "after" => SecondWalk
    /\ ReportIsExact

\* The order of the walk names every path.
LEMMA OrderNames ==
  /\ Len(Order) \in Nat
  /\ Paths = {Order[j] : j \in 1 .. Len(Order)}
<1>1. DOMAIN Order = 1 .. Len(Order) /\ Len(Order) \in Nat
  BY WalkAssumption
<1> QED
  BY <1>1 DEF Paths, Range

\* The order of the numbers is well-founded.
LEMMA LessIsWellFounded ==
  \E R : IsWellFoundedOn(R, Nat) /\ (\A x, y \in Nat : <<x, y>> \in R <=> x < y)
<1> DEFINE R == OpToRel(<, Nat)
<1>1. IsWellFoundedOn(R, Nat)
  BY NatLessThanWellFounded
<1>2. \A x, y \in Nat : <<x, y>> \in R <=> x < y
  BY DEF OpToRel
<1> QED
  BY <1>1, <1>2, Zenon

\* A set of numbers has a least one.
LEMMA HasLeast ==
  ASSUME NEW T, T \subseteq Nat, T # {}
  PROVE  \E m \in T : \A k \in T : m <= k
<1>1. PICK R : IsWellFoundedOn(R, Nat) /\ (\A x, y \in Nat : <<x, y>> \in R <=> x < y)
  BY LessIsWellFounded
<1>2. PICK m \in T : \A k \in T : <<k, m>> \notin R
  <2>1. IsWellFoundedOn(R, Nat)
    BY <1>1
  <2> QED
    BY <2>1, WFMin
<1>3. \A k \in T : ~(k < m)
  BY <1>1, <1>2
<1> QED
  BY <1>3

\* The next path to look at is one whose directory was listed, and none is passed over.
LEMMA NextIsListed ==
  ASSUME NEW listed, NEW i \in Nat \ {0}
  PROVE  /\ NextAt(listed, i) \in Nat \ {0}
         /\ NextAt(listed, i) <= Len(Order) =>
                NextAt(listed, i) \in i .. Len(Order) /\ Head(Order[NextAt(listed, i)]) \in listed
         /\ \A j \in i .. Len(Order) : Head(Order[j]) \in listed => NextAt(listed, i) <= j
<1> DEFINE later == {j \in i .. Len(Order) : Head(Order[j]) \in listed}
           n == NextAt(listed, i)
<1>1. Len(Order) \in Nat
  BY OrderNames
<1>2. CASE later = {}
  BY <1>1, <1>2 DEF NextAt
<1>3. CASE later # {}
  <2>1. later \subseteq Nat
    BY <1>1
  <2>2. n = CHOOSE j \in later : \A k \in later : j <= k
    BY <1>3 DEF NextAt
  <2>3. n \in later /\ \A k \in later : n <= k
    <3> HIDE DEF later, n
    <3> QED
      BY <1>3, <2>1, <2>2, HasLeast
  <2>4. n \in i .. Len(Order) /\ Head(Order[n]) \in listed
    BY <2>3
  <2>5. \A j \in i .. Len(Order) : Head(Order[j]) \in listed => n <= j
    BY <2>3
  <2> HIDE DEF n, later
  <2> QED
    BY <1>1, <2>4, <2>5 DEF n
<1> QED
  BY <1>2, <1>3

\* One more entry of a walk, seen or missed.
LEMMA VisitGoesOn ==
  ASSUME NEW w, IsWalk(w), NEW touched, Kept(w, touched), Stamped,
         NEW listed, NEW at \in Nat \ {0}, NextAt(listed, at) <= Len(Order),
         NEW v, \/ v = [w EXCEPT !.seen = Visit(@, Order[NextAt(listed, at)])]
                \/ v = [w EXCEPT !.missed = @ \cup {Order[NextAt(listed, at)]}]
  PROVE  /\ IsWalk(v) /\ v.cut = w.cut
         /\ \A p \in DOMAIN v.seen :
                \/ p \in DOMAIN w.seen /\ v.seen[p] = w.seen[p]
                \/ p \in Paths /\ Walked(p) /\ v.seen[p] \in 1 .. clock
         /\ Kept(v, touched)
         /\ Listed(listed, touched) /\ Progress(w, touched, at)
                => Progress(v, touched, NextAt(listed, at) + 1)
<1> DEFINE n == NextAt(listed, at)
           e == Order[n]
<1>1. n \in at .. Len(Order) /\ e \in Paths /\ Head(e) \in listed
  BY NextIsListed, OrderNames
<1>2. disk[e] \in 0 .. clock /\ clock \in Nat
  BY <1>1 DEF Stamped
<1>3. /\ v.cut = w.cut /\ IsWalk(v)
      /\ \/ v.seen = Visit(w.seen, e) /\ v.missed = w.missed
         \/ v.seen = w.seen /\ v.missed = w.missed \cup {e}
  <2> HIDE DEF e
  <2>1. v = [w EXCEPT !.seen = Visit(@, e)] \/ v = [w EXCEPT !.missed = @ \cup {e}]
    BY DEF e
  <2> QED
    BY <1>1, <2>1 DEF IsWalk
<1>4. /\ Noted(w) \subseteq Noted(v)
      /\ \A p \in DOMAIN v.seen :
            \/ p \in DOMAIN w.seen /\ p # e /\ v.seen[p] = w.seen[p]
            \/ p = e /\ Walked(e) /\ disk[e] # 0 /\ v.seen[e] = disk[e]
            \/ p \in DOMAIN w.seen /\ v.seen = w.seen
      /\ Walked(e) /\ disk[e] # 0 => e \in Noted(v)
  <2> HIDE DEF e
  <2>1. CASE v.seen = w.seen /\ v.missed = w.missed \cup {e}
    BY <2>1 DEF Noted
  <2>2. CASE v.seen = Visit(w.seen, e) /\ v.missed = w.missed
    <3>1. CASE Present(e)
      BY <2>2, <3>1 DEF Visit, Present, Noted
    <3>2. CASE ~Present(e)
      BY <2>2, <3>2 DEF Visit, Present, Noted
    <3> QED
      BY <3>1, <3>2
  <2> QED
    BY <1>3, <2>1, <2>2
<1>5. Kept(v, touched)
  BY <1>4 DEF Kept
<1>6. ASSUME Listed(listed, touched), Progress(w, touched, at) PROVE Progress(v, touched, n + 1)
  <2> SUFFICES ASSUME NEW j \in 1 .. Len(Order), j < n + 1,
                      Order[j] \notin touched, Walked(Order[j]), disk[Order[j]] # 0
               PROVE  Order[j] \in Noted(v)
    BY DEF Progress
  <2>1. Order[j] \in Paths /\ Head(Order[j]) \in listed
    BY <1>6, OrderNames DEF Listed
  <2>2. CASE j < at
    BY <1>4, <1>6, <2>2 DEF Progress
  <2>3. CASE j >= at
    <3>1. n <= j
      BY <2>1, <2>3, NextIsListed, OrderNames
    <3>2. j = n
      BY <3>1, <1>1, OrderNames
    <3> QED
      BY <1>4, <3>2
  <2> HIDE DEF n
  <2> QED
    BY <2>2, <2>3
<1>7. \A p \in DOMAIN v.seen :
        \/ p \in DOMAIN w.seen /\ v.seen[p] = w.seen[p]
        \/ p \in Paths /\ Walked(p) /\ v.seen[p] \in 1 .. clock
  <2> HIDE DEF e
  <2> QED
    BY <1>1, <1>2, <1>4
<1> QED
  BY <1>3, <1>5, <1>6, <1>7

\* A walk that is over has met every file that nobody touched.
LEMMA OverIsMet ==
  ASSUME WalkOver, call.at \in Nat \ {0}, NEW w, NEW touched,
         Listed(call.listed, touched), Progress(w, touched, call.at)
  PROVE  Met(w, touched)
<1> SUFFICES ASSUME NEW p \in Paths \ touched, Walked(p), disk[p] # 0
             PROVE  p \in Noted(w)
  BY DEF Met
<1>1. PICK j \in 1 .. Len(Order) : Order[j] = p
  BY OrderNames
<1>2. Head(Order[j]) \in call.listed
  BY <1>1 DEF Listed
<1>3. j < call.at
  BY <1>2, NextIsListed, OrderNames DEF WalkOver
<1> QED
  BY <1>1, <1>3 DEF Progress

\* The fields of an idle call.
LEMMA IdleFields ==
  DOMAIN Idle = {"phase", "request", "listed", "at", "pre", "post", "command", "wrote", "others", "temp",
                 "printed", "answer", "outcome", "report", "shown"}
  BY DEF Idle

\* Looking at one entry, or missing it, keeps what is known of both walks.
LEMMA ScanKeepsWalks ==
  ASSUME WalkInv, Scan \/ Unreadable
  PROVE  WalkInv'
<1> DEFINE n == NextAt(call.listed, call.at)
<1>0. PICK v : /\ \/ v = [Walk EXCEPT !.seen = Visit(@, Order[n])]
                  \/ v = [Walk EXCEPT !.missed = @ \cup {Order[n]}]
               /\ call' = Recorded(v, n + 1)
  BY DEF Scan, Unreadable, Entry
<1>1. /\ n <= Len(Order) /\ n \in Nat \ {0} /\ call.at \in Nat \ {0}
      /\ call' = Recorded(v, n + 1) /\ UNCHANGED <<server, directory>>
  BY <1>0, NextIsListed, OrderNames DEF WalkInv, Shaped, Scan, Unreadable, WalkOver
<1>2. /\ IsWalk(call.pre) /\ IsWalk(call.post) /\ IsWalk(Walk) /\ Stamped
  BY DEF WalkInv, Shaped, Walk
<1>3. /\ disk' = disk /\ clock' = clock
      /\ call'.phase = call.phase /\ call'.request = call.request /\ call'.listed = call.listed
      /\ call'.wrote = call.wrote /\ call'.others = call.others /\ call'.outcome = call.outcome
      /\ call'.at = n + 1 /\ DOMAIN call' = DOMAIN call
      /\ IF call.phase = "before" THEN call'.pre = v /\ call'.post = call.post
         ELSE call'.pre = call.pre /\ call'.post = v
  <2> HIDE DEF n
  <2> QED
    BY <1>1, IdleFields DEF WalkInv, Shaped, Recorded, directory
<1>4. ASSUME NEW touched, Kept(Walk, touched)
      PROVE  /\ IsWalk(v) /\ v.cut = Walk.cut
             /\ \A p \in DOMAIN v.seen :
                    \/ p \in DOMAIN Walk.seen /\ v.seen[p] = Walk.seen[p]
                    \/ p \in Paths /\ Walked(p) /\ v.seen[p] \in 1 .. clock
             /\ Kept(v, touched)
             /\ Listed(call.listed, touched) /\ Progress(Walk, touched, call.at)
                    => Progress(v, touched, n + 1)
  BY <1>0, <1>1, <1>2, <1>4, VisitGoesOn
<1>5. Kept(Walk, call.others) /\ call.outcome # "answered"
  BY DEF Scan, Unreadable, WalkInv, Shaped, FirstWalk, SecondWalk, Walk
<1> HIDE DEF n
<1>6. Shaped'
  BY <1>1, <1>2, <1>3, <1>4, <1>5 DEF WalkInv, Shaped, IsWalk
<1>7. Stamped'
  <2>1. \A w \in {call.pre, call.post, v} : \A p \in DOMAIN w.seen :
            p \in Paths /\ Walked(p) /\ w.seen[p] \in 1 .. clock
    BY <1>2, <1>4, <1>5 DEF Stamped, Walk
  <2>2. call'.pre \in {call.pre, v} /\ call'.post \in {call.post, v}
    BY <1>3
  <2> QED
    BY <1>2, <1>3, <2>1, <2>2 DEF Stamped, Walked
<1>8. CASE call.phase = "before"
  <2>1. FirstWalk'
    <3>1. Walk = call.pre
      BY <1>8 DEF Walk
    <3>2. /\ Kept(v, call.others) /\ v.cut = call.pre.cut
          /\ Listed(call.listed, call.others) /\ Progress(call.pre, call.others, call.at)
                => Progress(v, call.others, n + 1)
      BY <1>4, <1>5, <3>1
    <3>3. FirstWalk
      BY <1>8 DEF WalkInv
    <3>4. Kept(call.pre, call.others)'
      BY <1>3, <1>8, <3>2 DEF Kept
    <3>5. Listed(call.listed, call.others) => Listed(call.listed, call.others)'
      BY <1>3 DEF Listed
    <3>6. Progress(v, call.others, n + 1) => Progress(call.pre, call.others, call.at)'
      BY <1>3, <1>8 DEF Progress, Noted, Walked
    <3> QED
      BY <1>3, <1>8, <3>2, <3>3, <3>4, <3>5, <3>6 DEF FirstWalk
  <2> QED
    BY <1>3, <1>5, <1>6, <1>7, <1>8, <2>1 DEF WalkInv, Working, ReportIsExact, WritesReported, ReportsAreChanges
<1>9. CASE call.phase = "after"
  <2>1. Walk = call.post
    BY <1>9 DEF Walk
  <2>2. SecondWalk'
    <3>1. SecondWalk
      BY <1>9 DEF WalkInv
    <3>2. /\ Kept(v, call.others) /\ v.cut = call.post.cut
          /\ Listed(call.listed, call.others) /\ Progress(call.post, call.others, call.at)
                => Progress(v, call.others, n + 1)
      BY <1>4, <1>5, <2>1, <3>1 DEF SecondWalk
    <3>3. Kept(call.post, call.others)'
      BY <1>3, <1>9, <3>2 DEF Kept
    <3>4. Listed(call.listed, call.others) => Listed(call.listed, call.others)'
      BY <1>3 DEF Listed
    <3>5. Progress(v, call.others, n + 1) => Progress(call.post, call.others, call.at)'
      BY <1>3, <1>9 DEF Progress, Noted, Walked
    <3> QED
      BY <1>3, <1>9, <3>1, <3>2, <3>3, <3>4, <3>5 DEF SecondWalk
  <2>3. FirstWalkDone'
    BY <1>3, <1>9 DEF WalkInv, FirstWalkDone, Kept, Met, Noted, Newer, Walked
  <2> QED
    BY <1>3, <1>5, <1>6, <1>7, <1>9, <2>2, <2>3 DEF WalkInv, Working, ReportIsExact, WritesReported, ReportsAreChanges
<1> QED
  BY <1>8, <1>9 DEF Scan, Unreadable

\* A walk that is cut short keeps what it recorded, and claims no more.
LEMMA CutShortKeepsWalks ==
  ASSUME WalkInv, CutShort
  PROVE  WalkInv'
<1> DEFINE v == [Walk EXCEPT !.cut = TRUE]
<1>1. /\ Len(Order) + 1 \in Nat \ {0} /\ call' = Recorded(v, Len(Order) + 1)
      /\ disk' = disk /\ clock' = clock
  BY OrderNames DEF CutShort, directory
<1>2. /\ IsWalk(call.pre) /\ IsWalk(call.post) /\ IsWalk(Walk) /\ Stamped
  BY DEF WalkInv, Shaped, Walk
<1>3. /\ call'.phase = call.phase /\ call'.request = call.request /\ call'.listed = call.listed
      /\ call'.wrote = call.wrote /\ call'.others = call.others /\ call'.outcome = call.outcome
      /\ call'.at = Len(Order) + 1 /\ DOMAIN call' = DOMAIN call
      /\ IF call.phase = "before" THEN call'.pre = v /\ call'.post = call.post
         ELSE call'.pre = call.pre /\ call'.post = v
  <2> HIDE DEF v
  <2> QED
    BY <1>1, IdleFields DEF WalkInv, Shaped, Recorded
<1>4. IsWalk(v) /\ v.cut /\ v.seen = Walk.seen /\ v.missed = Walk.missed
  BY <1>2 DEF IsWalk
<1>5. call.outcome # "answered"
  BY DEF CutShort, WalkInv, Shaped
<1> HIDE DEF v
<1>6. Shaped'
  BY <1>1, <1>2, <1>3, <1>4, <1>5 DEF WalkInv, Shaped, IsWalk
<1>7. Stamped'
  <2>1. \A w \in {call.pre, call.post, v} : \A p \in DOMAIN w.seen :
            p \in Paths /\ Walked(p) /\ w.seen[p] \in 1 .. clock
    BY <1>2, <1>4 DEF Stamped, Walk
  <2>2. call'.pre \in {call.pre, v} /\ call'.post \in {call.post, v}
    BY <1>3
  <2> QED
    BY <1>1, <1>2, <2>1, <2>2 DEF Stamped, Walked
<1>8. CASE call.phase = "before"
  <2>1. FirstWalk'
    BY <1>1, <1>3, <1>4, <1>8 DEF WalkInv, FirstWalk, Kept, Listed, Walk
  <2> QED
    BY <1>3, <1>5, <1>6, <1>7, <1>8, <2>1 DEF WalkInv, Working, ReportIsExact, WritesReported, ReportsAreChanges
<1>9. CASE call.phase = "after"
  <2>1. SecondWalk'
    BY <1>1, <1>3, <1>4, <1>9 DEF WalkInv, SecondWalk, Kept, Listed, Walk
  <2>2. FirstWalkDone'
    BY <1>1, <1>3, <1>9 DEF WalkInv, FirstWalkDone, Kept, Met, Noted, Newer, Walked
  <2> QED
    BY <1>3, <1>5, <1>6, <1>7, <1>9, <2>1, <2>2 DEF WalkInv, Working, ReportIsExact, WritesReported, ReportsAreChanges
<1> QED
  BY <1>8, <1>9 DEF CutShort

\* An idle call has walked nowhere.
LEMMA IdleWalks ==
  ASSUME call' = Idle, Restored
  PROVE  WalkInv'
<1>1. Fresh \in [Paths -> 0 .. 1]
  BY DEF Fresh
<1>2. Stamped'
  BY <1>1 DEF Idle, NoWalk, Restored, Stamped
<1>3. Shaped' /\ call'.phase = "idle" /\ call'.outcome # "answered"
  <2>1. /\ call'.phase = "idle" /\ call'.outcome # "answered" /\ call'.at = 1 /\ call'.wrote = {}
        /\ call'.pre = NoWalk /\ call'.post = NoWalk /\ DOMAIN call' = DOMAIN Idle
    <3> HIDE DEF NoWalk
    <3> QED
      BY DEF Idle, NONE
  <2> QED
    BY <2>1 DEF Shaped, IsWalk, NoWalk
<1> QED
  BY <1>2, <1>3 DEF WalkInv, Working, ReportIsExact, WritesReported, ReportsAreChanges

\* A read-only request begins with the names of the directory.
LEMMA AskKeepsWalks ==
  ASSUME WalkInv, NEW r, Ask(r)
  PROVE  WalkInv'
<1>1. /\ disk' = disk /\ clock' = clock
      /\ call'.request = r /\ call'.phase \in {"before", "done"}
      /\ call'.phase = "before" => Accepted(r) /\ (r.readOnly => call'.listed = Tops)
      /\ call'.outcome \in {"refused", NONE} /\ DOMAIN call' = DOMAIN Idle
      /\ call'.at = 1 /\ call'.pre = NoWalk /\ call'.post = NoWalk /\ call'.wrote = {} /\ call'.others = {}
  <2> HIDE DEF NoWalk, Tops
  <2> QED
    BY DEF Ask, Idle, directory
<1>2. Shaped'
  BY <1>1 DEF Shaped, IsWalk, NoWalk, NONE
<1>3. Stamped'
  BY <1>1 DEF WalkInv, Stamped, NoWalk
<1>4. call'.phase = "before" => FirstWalk'
  <2>1. r.readOnly /\ call'.phase = "before" => Listed(call.listed, call.others)'
    BY <1>1 DEF Listed, Tops, Existing
  <2>2. Kept(call.pre, call.others)' /\ Progress(call.pre, call.others, call.at)'
    BY <1>1, OrderNames DEF Kept, Progress, NoWalk
  <2> QED
    BY <1>1, <2>1, <2>2 DEF FirstWalk
<1> QED
  BY <1>1, <1>2, <1>3, <1>4 DEF WalkInv, Working, ReportIsExact, WritesReported, ReportsAreChanges, NONE

\* The first walk is over when the run starts.
LEMMA StartKeepsWalks ==
  ASSUME WalkInv, Start
  PROVE  WalkInv'
<1>1. /\ disk' = disk /\ clock' = clock /\ WalkOver
      /\ call.phase = "before" /\ call'.phase = "launching" /\ call'.at = 1
      /\ call'.request = call.request /\ call'.pre = call.pre /\ call'.post = call.post
      /\ call'.wrote = call.wrote /\ call'.others = call.others /\ call'.outcome = call.outcome
      /\ DOMAIN call' = DOMAIN call
  BY IdleFields DEF WalkInv, Shaped, Start, Ready, directory
<1>2. FirstWalk /\ call.at \in Nat \ {0}
  BY <1>1 DEF WalkInv, Shaped
<1>3. Shaped' /\ call'.outcome # "answered"
  BY <1>1 DEF WalkInv, Shaped, IsWalk
<1>4. Stamped'
  BY <1>1 DEF WalkInv, Stamped, Walked
<1>5. FirstWalkDone'
  <2>1. call.request.readOnly /\ ~call.pre.cut => Met(call.pre, call.others)
    BY <1>1, <1>2, OverIsMet DEF FirstWalk
  <2> QED
    BY <1>1, <1>2, <2>1 DEF FirstWalk, FirstWalkDone, Kept, Met, Noted, Newer, Walked
<1> QED
  BY <1>1, <1>2, <1>3, <1>4, <1>5 DEF WalkInv, FirstWalk, ReportIsExact, WritesReported, ReportsAreChanges

\* The agent's process is there: nothing else has changed.
LEMMA LaunchedKeepsWalks ==
  ASSUME WalkInv, Launched
  PROVE  WalkInv'
<1>1. /\ disk' = disk /\ clock' = clock
      /\ call.phase = "launching" /\ call'.phase = "running" /\ call'.at = call.at
      /\ call'.request = call.request /\ call'.pre = call.pre /\ call'.post = call.post
      /\ call'.wrote = call.wrote /\ call'.others = call.others /\ call'.outcome = call.outcome
      /\ DOMAIN call' = DOMAIN call
  BY IdleFields DEF WalkInv, Shaped, Launched, directory
<1>2. FirstWalkDone /\ call.at = 1 /\ call.post = NoWalk
  BY <1>1 DEF WalkInv, Working
<1>3. Shaped' /\ call'.outcome # "answered"
  BY <1>1 DEF WalkInv, Shaped, IsWalk
<1>4. Stamped'
  BY <1>1 DEF WalkInv, Stamped, Walked
<1>5. FirstWalkDone'
  BY <1>1, <1>2 DEF FirstWalkDone, Kept, Met, Noted, Newer, Walked
<1> QED
  BY <1>1, <1>2, <1>3, <1>4, <1>5 DEF WalkInv, ReportIsExact, WritesReported, ReportsAreChanges

\* The second walk begins with the names of the directory as the run left it.
LEMMA ExitKeepsWalks ==
  ASSUME WalkInv, NEW output, Exit(output)
  PROVE  WalkInv'
<1>1. /\ disk' = disk /\ clock' = clock
      /\ call.phase = "running" /\ call'.phase \in {"after", "done"} /\ call'.at = call.at
      /\ call'.request = call.request /\ call'.pre = call.pre /\ call'.post = call.post
      /\ call'.wrote = call.wrote /\ call'.others = call.others /\ call'.outcome \in {NONE, "failed"}
      /\ call'.phase = "after" /\ call.request.readOnly => call'.listed = Tops
      /\ DOMAIN call' = DOMAIN call
  <2> HIDE DEF Tops
  <2> QED
    BY IdleFields DEF WalkInv, Shaped, Exit, directory
<1>2. FirstWalkDone /\ call.at = 1 /\ call.post = NoWalk
  BY <1>1 DEF WalkInv, Working
<1>3. Shaped' /\ call'.outcome # "answered"
  BY <1>1 DEF WalkInv, Shaped, IsWalk, NONE
<1>4. Stamped'
  BY <1>1 DEF WalkInv, Stamped, Walked
<1>5. FirstWalkDone'
  BY <1>1, <1>2 DEF FirstWalkDone, Kept, Met, Noted, Newer, Walked
<1>6. call'.phase = "after" => SecondWalk'
  <2>1. call.request.readOnly /\ call'.phase = "after" => Listed(call.listed, call.others)'
    BY <1>1 DEF Listed, Tops, Existing
  <2>2. Kept(call.post, call.others)' /\ Progress(call.post, call.others, call.at)'
    BY <1>1, <1>2, OrderNames DEF Kept, Progress, NoWalk
  <2> QED
    BY <1>1, <2>1, <2>2 DEF SecondWalk
<1> QED
  BY <1>1, <1>3, <1>4, <1>5, <1>6 DEF WalkInv, Working, ReportIsExact, WritesReported, ReportsAreChanges

\* A call that ends without an answer reports nothing.
LEMMA EndKeepsWalks ==
  ASSUME WalkInv, NoExecutable \/ LaunchFails \/ Abandon \/ TimesOut \/ Cancel
  PROVE  WalkInv'
<1>1. /\ disk' = disk /\ clock' = clock
      /\ call'.phase = "done" /\ call'.outcome # "answered" /\ call'.at = call.at
      /\ call'.pre = call.pre /\ call'.post = call.post /\ call'.wrote = call.wrote
      /\ DOMAIN call' = DOMAIN call
  <2>1. CASE NoExecutable
    BY <2>1, IdleFields DEF WalkInv, Shaped, NoExecutable, Failed, directory
  <2>2. CASE LaunchFails
    BY <2>2, IdleFields DEF WalkInv, Shaped, LaunchFails, Failed, directory
  <2>3. CASE TimesOut
    BY <2>3, IdleFields DEF WalkInv, Shaped, TimesOut, Failed, directory
  <2>4. CASE Cancel
    BY <2>4, IdleFields DEF WalkInv, Shaped, Cancel, Failed, directory
  <2>5. CASE Abandon
    BY <2>5, IdleFields DEF WalkInv, Shaped, Abandon, Failed, directory
  <2> QED
    BY <2>1, <2>2, <2>3, <2>4, <2>5
<1>2. Shaped' /\ Stamped'
  BY <1>1 DEF WalkInv, Shaped, Stamped, IsWalk, Walked
<1> QED
  BY <1>1, <1>2 DEF WalkInv, Working, ReportIsExact, WritesReported, ReportsAreChanges

\* What the agent or anyone else writes is new, and touches one file.
LEMMA WriteIsNew ==
  ASSUME Stamped, NEW p \in Paths, NEW stamp, Writes(p, stamp), call'.pre = call.pre, call'.post = call.post
  PROVE  /\ Stamped'
         /\ \A q \in Paths \ {p} : disk'[q] = disk[q]
         /\ disk'[p] = 0 \/ disk'[p] = clock + 1
<1>1. /\ clock \in Nat /\ clock' = clock + 1 /\ stamp \in {0, clock + 1}
      /\ disk \in [Paths -> 0 .. clock] /\ disk' = [disk EXCEPT ![p] = stamp]
  BY DEF Stamped, Writes
<1>2. disk' \in [Paths -> 0 .. clock + 1]
  BY <1>1
<1>3. \A w \in {call.pre, call.post} : \A q \in DOMAIN w.seen :
        q \in Paths /\ Walked(q) /\ w.seen[q] \in 1 .. clock + 1
  BY <1>1 DEF Stamped
<1>4. Stamped'
  BY <1>1, <1>2, <1>3 DEF Stamped, Walked
<1> QED
  BY <1>1, <1>4

\* What the agent writes does not make the report wrong.
LEMMA AgentKeepsWalks ==
  ASSUME WalkInv, NEW p \in Paths, NEW stamp, AgentWrites(p, stamp)
  PROVE  WalkInv'
<1>1. /\ Working /\ Writes(p, stamp)
      /\ call'.phase = call.phase /\ call'.request = call.request /\ call'.at = call.at
      /\ call'.pre = call.pre /\ call'.post = call.post /\ call'.others = call.others
      /\ call'.wrote = call.wrote \cup {p} /\ call'.outcome = call.outcome /\ DOMAIN call' = DOMAIN call
  BY IdleFields DEF WalkInv, Shaped, AgentWrites
<1>2. FirstWalkDone /\ Stamped /\ call.at = 1 /\ call.post = NoWalk
  BY <1>1 DEF WalkInv, Working
<1>3. /\ Stamped'
      /\ \A q \in Paths \ {p} : disk'[q] = disk[q]
      /\ disk'[p] = 0 \/ disk'[p] = clock + 1
  BY <1>1, <1>2, WriteIsNew
<1>4. Shaped' /\ call'.outcome # "answered"
  BY <1>1 DEF WalkInv, Working, Shaped, IsWalk
<1>5. \A q \in DOMAIN call.pre.seen : q \in Paths /\ call.pre.seen[q] < clock + 1
  BY <1>2 DEF Stamped
<1>6. FirstWalkDone'
  <2>1. Kept(call.pre, call.others \cup call.wrote)'
    BY <1>1, <1>2, <1>3, <1>5 DEF FirstWalkDone, Kept
  <2>2. Met(call.pre, call.others \cup call.wrote) => Met(call.pre, call.others \cup call.wrote)'
    BY <1>1, <1>3 DEF Met, Noted, Walked
  <2>3. Newer'
    BY <1>1, <1>2, <1>3, <1>5 DEF FirstWalkDone, Newer
  <2> QED
    BY <1>1, <1>2, <2>1, <2>2, <2>3 DEF FirstWalkDone
<1> QED
  BY <1>1, <1>2, <1>3, <1>4, <1>6 DEF WalkInv, Working, ReportIsExact, WritesReported, ReportsAreChanges

\* Neither does what others write meanwhile.
LEMMA OthersKeepWalks ==
  ASSUME WalkInv, NEW p \in Paths, NEW stamp, OtherWrites(p, stamp)
  PROVE  WalkInv'
<1>1. /\ call.phase \in {"before", "launching", "running", "after"} /\ Writes(p, stamp)
      /\ call'.phase = call.phase /\ call'.request = call.request /\ call'.at = call.at
      /\ call'.pre = call.pre /\ call'.post = call.post /\ call'.others = call.others \cup {p}
      /\ call'.wrote = call.wrote /\ call'.outcome = call.outcome /\ call'.listed = call.listed
      /\ DOMAIN call' = DOMAIN call
  BY IdleFields DEF WalkInv, Shaped, OtherWrites
<1>2. Stamped
  BY DEF WalkInv
<1>3. /\ Stamped'
      /\ \A q \in Paths \ {p} : disk'[q] = disk[q]
      /\ disk'[p] = 0 \/ disk'[p] = clock + 1
  BY <1>1, <1>2, WriteIsNew
<1>4. Shaped' /\ call'.outcome # "answered"
  BY <1>1 DEF WalkInv, Shaped, IsWalk
<1>5. \A w \in {call.pre, call.post} : \A q \in DOMAIN w.seen : q \in Paths /\ w.seen[q] < clock + 1
  BY <1>2 DEF Stamped
<1>6. ASSUME NEW touched, NEW w \in {call.pre, call.post}, Kept(w, touched)
      PROVE  \A q \in DOMAIN w.seen \ (touched \cup {p}) : w.seen[q] = disk'[q]
  BY <1>3, <1>5, <1>6 DEF Kept
<1>7. Listed(call.listed, call.others) => Listed(call.listed, call.others)'
  BY <1>1, <1>3 DEF Listed
<1>8. ASSUME NEW w \in {call.pre, call.post}, Progress(w, call.others, call.at)
      PROVE  \A j \in 1 .. Len(Order) :
                j < call.at /\ Order[j] \notin call'.others /\ Walked(Order[j]) /\ disk'[Order[j]] # 0
                    => Order[j] \in Noted(w)
  BY <1>1, <1>3, <1>8, OrderNames DEF Progress
<1>9. call.phase = "before" => FirstWalk'
  <2> SUFFICES ASSUME call.phase = "before" PROVE FirstWalk'
    OBVIOUS
  <2>1. FirstWalk
    BY DEF WalkInv
  <2>2. Kept(call.pre, call.others)'
    BY <1>1, <1>6, <2>1 DEF FirstWalk, Kept
  <2>3. Progress(call.pre, call.others, call.at) => Progress(call.pre, call.others, call.at)'
    BY <1>1, <1>8 DEF Progress, Noted, Walked
  <2> QED
    BY <1>1, <1>7, <2>1, <2>2, <2>3 DEF FirstWalk
<1>10. call.phase = "after" => SecondWalk'
  <2> SUFFICES ASSUME call.phase = "after" PROVE SecondWalk'
    OBVIOUS
  <2>1. SecondWalk
    BY DEF WalkInv
  <2>2. Kept(call.post, call.others)'
    BY <1>1, <1>6, <2>1 DEF SecondWalk, Kept
  <2>3. Progress(call.post, call.others, call.at) => Progress(call.post, call.others, call.at)'
    BY <1>1, <1>8 DEF Progress, Noted, Walked
  <2> QED
    BY <1>1, <1>7, <2>1, <2>2, <2>3 DEF SecondWalk
<1>11. call.phase \in {"launching", "running", "after"} => FirstWalkDone'
  <2> SUFFICES ASSUME call.phase \in {"launching", "running", "after"} PROVE FirstWalkDone'
    OBVIOUS
  <2>1. FirstWalkDone
    BY DEF WalkInv
  <2>2. Kept(call.pre, call.others \cup call.wrote)'
    BY <1>1, <1>6, <2>1 DEF FirstWalkDone, Kept
  <2>3. Met(call.pre, call.others \cup call.wrote) => Met(call.pre, call.others \cup call.wrote)'
    BY <1>1, <1>3 DEF Met, Noted, Walked
  <2>4. Newer'
    BY <1>1, <1>3, <1>5, <2>1 DEF FirstWalkDone, Newer
  <2> QED
    BY <1>1, <2>1, <2>2, <2>3, <2>4 DEF FirstWalkDone
<1> QED
  BY <1>1, <1>3, <1>4, <1>9, <1>10, <1>11 DEF WalkInv, Working, ReportIsExact, WritesReported, ReportsAreChanges

\* Where both walks met every file that nobody touched, they differ in what was written, as far
\* as both could read it, and in nothing else that both could read.
LEMMA DifferencesAreWrites ==
  ASSUME Stamped, FirstWalkDone, SecondWalk, call.wrote \subseteq Paths,
         Met(call.pre, call.others \cup call.wrote), Met(call.post, call.others)
  PROVE  LET diff == Differences(call.pre.seen, call.post.seen) IN
         /\ \A p \in call.wrote \ (call.others \cup Unread) :
                Walked(p) /\ (disk[p] # 0 \/ p \in DOMAIN call.pre.seen) => p \in diff
         /\ diff \subseteq call.wrote \cup call.others \cup Unread
<1> DEFINE pre == call.pre.seen
           post == call.post.seen
           diff == Differences(pre, post)
<1>1. \A p \in DOMAIN pre : p \in Paths /\ Walked(p) /\ pre[p] # 0
  BY DEF Stamped
<1>2. \A p \in DOMAIN post : p \in Paths /\ Walked(p) /\ post[p] # 0
  BY DEF Stamped
<1>3. \A p \in DOMAIN post \ call.others : post[p] = disk[p]
  BY DEF SecondWalk, Kept
<1>4. \A p \in DOMAIN pre \ (call.others \cup call.wrote) : pre[p] = disk[p]
  BY DEF FirstWalkDone, Kept
<1>5. \A p \in call.wrote \cap DOMAIN pre : disk[p] = 0 \/ disk[p] # pre[p]
  <2>1. \A p \in DOMAIN pre : pre[p] \in Nat
    BY DEF Stamped
  <2>2. \A p \in Paths : disk[p] \in Nat
    BY DEF Stamped
  <2> QED
    BY <1>1, <2>1, <2>2 DEF FirstWalkDone, Newer
<1>6. ASSUME NEW p \in call.wrote \ (call.others \cup Unread), Walked(p), disk[p] # 0 \/ p \in DOMAIN pre
      PROVE  p \in diff
  <2>1. CASE disk[p] # 0
    <3>1. p \in DOMAIN post /\ post[p] = disk[p]
      BY <1>3, <1>6, <2>1 DEF Met, Noted, Unread
    <3> QED
      BY <1>5, <2>1, <3>1 DEF Differences
  <2>2. CASE disk[p] = 0
    <3>1. p \in DOMAIN pre /\ p \notin DOMAIN post
      BY <1>2, <1>3, <1>6, <2>2
    <3> QED
      BY <3>1 DEF Differences
  <2> QED
    BY <2>1, <2>2
<1>7. ASSUME NEW p \in diff, p \notin call.wrote \cup call.others \cup Unread
      PROVE  FALSE
  <2>1. p \in DOMAIN pre => pre[p] = disk[p] /\ p \in DOMAIN post
    BY <1>1, <1>4, <1>7 DEF Met, Noted, Unread
  <2>2. p \in DOMAIN post => post[p] = disk[p] /\ p \in DOMAIN pre
    BY <1>2, <1>3, <1>7 DEF Met, Noted, Unread
  <2> QED
    BY <1>7, <2>1, <2>2 DEF Differences
<1> QED
  BY <1>6, <1>7

\* The answer to a read-only call carries the report.
LEMMA RespondKeepsWalks ==
  ASSUME WalkInv, NEW size, Respond(size)
  PROVE  WalkInv'
<1>1. /\ disk' = disk /\ clock' = clock /\ WalkOver /\ setting' = setting
      /\ call.phase = "after" /\ call'.phase = "done" /\ call'.at = call.at
      /\ call'.request = call.request /\ call'.pre = call.pre /\ call'.post = call.post
      /\ call'.wrote = call.wrote /\ call'.others = call.others
      /\ call.request.readOnly => call'.report = Report
      /\ DOMAIN call' = DOMAIN call
  <2> HIDE DEF Report, Limited
  <2> QED
    BY IdleFields DEF WalkInv, Shaped, Respond, directory, server
<1>2. FirstWalkDone /\ SecondWalk /\ Shaped /\ Stamped
  BY <1>1 DEF WalkInv
<1>3. Shaped' /\ Stamped'
  BY <1>1, <1>2 DEF Shaped, Stamped, IsWalk, Walked
<1>4. ASSUME call.request.readOnly, ~call'.report.partial
      PROVE  ReportIsExact'
  <2>1. /\ call'.report.partial = (call.pre.cut \/ call.post.cut)
        /\ call'.report.byModel =
             {p \in Differences(call.pre.seen, call.post.seen) : ~Belongs(Cli, p)}
        /\ call'.report.bookkeeping =
             {p \in Differences(call.pre.seen, call.post.seen) : Belongs(Cli, p)}
    BY <1>1, <1>4 DEF Report, Partial
  <2>2. Met(call.pre, call.others \cup call.wrote) /\ Met(call.post, call.others)
    BY <1>1, <1>2, <1>4, <2>1, OverIsMet DEF FirstWalkDone, SecondWalk, Shaped
  <2>3. /\ \A p \in call.wrote \ (call.others \cup Unread) :
              Walked(p) /\ (disk[p] # 0 \/ p \in DOMAIN call.pre.seen)
                => p \in Differences(call.pre.seen, call.post.seen)
        /\ Differences(call.pre.seen, call.post.seen) \subseteq call.wrote \cup call.others \cup Unread
    BY <1>2, <2>2, DifferencesAreWrites DEF Shaped
  <2>4. Cli' = Cli
    BY <1>1 DEF Cli
  <2>5. ReportsAreChanges'
    BY <1>1, <2>1, <2>3 DEF ReportsAreChanges, Unread
  <2>6. WritesReported'
    <3> SUFFICES ASSUME NEW p \in call'.wrote \ (call'.others \cup Unread'), Walked(p),
                        disk'[p] # 0 \/ p \in DOMAIN call'.pre.seen
                 PROVE  p \in (IF \E b \in Bookkeeping(Cli') : Matches(p, b)
                               THEN call'.report.bookkeeping ELSE call'.report.byModel)
      BY DEF WritesReported, Walked
    <3>1. p \in Differences(call.pre.seen, call.post.seen)
      BY <1>1, <2>3 DEF Unread
    <3>2. Belongs(Cli, p) <=> \E b \in Bookkeeping(Cli) : Matches(p, b)
      BY DEF Belongs
    <3> HIDE DEF Cli
    <3> QED
      BY <2>1, <2>4, <3>1, <3>2
  <2> QED
    BY <2>5, <2>6 DEF ReportIsExact
<1>5. ReportIsExact'
  BY <1>1, <1>4 DEF ReportIsExact, WritesReported, ReportsAreChanges
<1> QED
  BY <1>1, <1>3, <1>5 DEF WalkInv, Working

\* Every step keeps what is known of the walks.
LEMMA WalksStayInOrder == Spec => []WalkInv
<1>1. Init => WalkInv
  <2> SUFFICES ASSUME Init PROVE WalkInv
    OBVIOUS
  <2>1. Fresh \in [Paths -> 0 .. 1]
    BY DEF Fresh
  <2>2. Stamped
    BY <2>1 DEF Init, Idle, NoWalk, Stamped
  <2>3. /\ call.phase = "idle" /\ call.outcome # "answered" /\ call.at = 1 /\ call.wrote = {}
        /\ call.pre = NoWalk /\ call.post = NoWalk /\ DOMAIN call = DOMAIN Idle
    <3> HIDE DEF NoWalk
    <3> QED
      BY DEF Init, Idle, NONE
  <2>4. Shaped
    BY <2>3 DEF Shaped, IsWalk, NoWalk
  <2> QED
    BY <2>2, <2>3, <2>4 DEF WalkInv, Working, ReportIsExact, WritesReported, ReportsAreChanges
<1>2. WalkInv /\ [Next]_vars => WalkInv'
  <2> SUFFICES ASSUME WalkInv, [Next]_vars PROVE WalkInv'
    OBVIOUS
  <2>1. ASSUME NEW r, Ask(r) PROVE WalkInv'
    BY <2>1, AskKeepsWalks
  <2>2. CASE Scan \/ Unreadable
    BY <2>2, ScanKeepsWalks
  <2>3. CASE CutShort
    BY <2>3, CutShortKeepsWalks
  <2>4. CASE Start \/ Launched
    BY <2>4, StartKeepsWalks, LaunchedKeepsWalks
  <2>5. CASE NoExecutable \/ LaunchFails \/ Abandon \/ TimesOut \/ Cancel
    BY <2>5, EndKeepsWalks
  <2>6. CASE Nest \/ Answered
    BY <2>6, IdleWalks DEF Nest, Answered
  <2>7. ASSUME NEW output, Exit(output) PROVE WalkInv'
    BY <2>7, ExitKeepsWalks
  <2>8. ASSUME NEW size, Respond(size) PROVE WalkInv'
    BY <2>8, RespondKeepsWalks
  <2>9. ASSUME NEW p \in Paths, NEW stamp, AgentWrites(p, stamp) PROVE WalkInv'
    BY <2>9, AgentKeepsWalks
  <2>10. ASSUME NEW p \in Paths, NEW stamp, OtherWrites(p, stamp) PROVE WalkInv'
    BY <2>10, OthersKeepWalks
  <2>11. CASE UNCHANGED vars
    <3>1. /\ disk' = disk /\ clock' = clock /\ call' = call /\ setting' = setting
      BY <2>11 DEF vars
    <3>2. /\ Shaped' /\ Stamped' /\ (FirstWalk => FirstWalk') /\ (FirstWalkDone => FirstWalkDone')
          /\ (SecondWalk => SecondWalk')
      BY <3>1 DEF WalkInv, Shaped, Stamped, FirstWalk, FirstWalkDone, SecondWalk, IsWalk, Kept, Met,
                  Noted, Newer, Listed, Progress, Walked
    <3>3. ReportIsExact'
      BY <3>1 DEF WalkInv, ReportIsExact, WritesReported, ReportsAreChanges, Cli, Unread, Walked
    <3> QED
      BY <3>1, <3>2, <3>3 DEF WalkInv, Working
  <2> QED
    BY <2>1, <2>2, <2>3, <2>4, <2>5, <2>6, <2>7, <2>8, <2>9, <2>10, <2>11 DEF Next
<1> QED
  BY <1>1, <1>2, PTL DEF Spec

\* The report of a read-only run names what the agent wrote in the directories the walks enter and
\* only what somebody wrote, wherever the agent and others write between and during the two walks
\* (capture_snapshot, diff_snapshots, the verification in _execute_blocking), unless a walk was cut
\* short, which the report says, and but for what one of the walks could not read, which it does not.
THEOREM ReportTellsTheWrites == Spec => []ReportIsExact
<1>1. WalkInv => ReportIsExact
  BY DEF WalkInv
<1> QED
  BY <1>1, WalksStayInOrder, PTL

-----------------------------------------------------------------------------
(* The command.  What a loop over tokens keeps is shown from one token to  *)
(* the next: among the places where it fails there would be a first one.   *)

\* What holds at 0 and goes from each number to the next holds up to n.
LEMMA FromEachToTheNext ==
  ASSUME NEW n \in Nat, NEW T, 0 \in T, \A i \in 1 .. n : i - 1 \in T => i \in T
  PROVE  \A i \in 0 .. n : i \in T
<1> DEFINE U == (0 .. n) \ T
<1> SUFFICES ASSUME U # {} PROVE FALSE
  OBVIOUS
<1>1. U \subseteq Nat
  OBVIOUS
<1>2. PICK m \in U : \A k \in U : m <= k
  <2> HIDE DEF U
  <2> QED
    BY <1>1, HasLeast
<1>3. m \in 1 .. n /\ m - 1 \notin U
  BY <1>2
<1> QED
  BY <1>2, <1>3

\* The tokens of a command: strings, and the ones this module spells out.
Tokens ==
    STRING \cup TailTokens \cup {"--append-system-prompt"}
        \cup UNION {Range(InternalArgs[c]) \cup Range(ReadOnlyArgs[c]) \cup {ModelFlag[c]} : c \in Known}

\* A command of one token, and of two.
LEMMA Single ==
  ASSUME NEW S, NEW a \in S
  PROVE  <<a>> \in Seq(S) /\ Len(<<a>>) = 1 /\ <<a>>[1] = a
OBVIOUS

\* A flag and its value are a command of two.
LEMMA Pair ==
  ASSUME NEW S, NEW a \in S, NEW b \in S
  PROVE  <<a, b>> \in Seq(S) /\ Len(<<a, b>>) = 2 /\ <<a, b>>[1] = a /\ <<a, b>>[2] = b
OBVIOUS

\* Two elements appended one after the other are a pair appended at once.
LEMMA TwoAppended ==
  ASSUME NEW S, NEW s \in Seq(S), NEW x \in S, NEW y \in S
  PROVE  Append(Append(s, x), y) = s \o <<x, y>>
<1> DEFINE left == Append(Append(s, x), y)
           right == s \o <<x, y>>
<1>1. Len(s) \in Nat
  BY LenProperties
<1>2. /\ left \in Seq(S) /\ Len(left) = Len(s) + 2
      /\ \A i \in 1 .. Len(s) : left[i] = s[i]
      /\ left[Len(s) + 1] = x /\ left[Len(s) + 2] = y
  <2>1. /\ Append(s, x) \in Seq(S) /\ Len(Append(s, x)) = Len(s) + 1
        /\ \A i \in 1 .. Len(s) : Append(s, x)[i] = s[i]
        /\ Append(s, x)[Len(s) + 1] = x
    BY <1>1, AppendProperties
  <2> DEFINE m == Append(s, x)
  <2> HIDE DEF m
  <2>2. /\ left \in Seq(S) /\ Len(left) = Len(m) + 1
        /\ \A i \in 1 .. Len(m) : left[i] = m[i]
        /\ left[Len(m) + 1] = y
    BY <2>1, AppendProperties DEF m
  <2> HIDE DEF left
  <2> QED
    BY <1>1, <2>1, <2>2 DEF m
<1>3. /\ right \in Seq(S) /\ Len(right) = Len(s) + 2
      /\ \A i \in 1 .. Len(s) : right[i] = s[i]
      /\ right[Len(s) + 1] = x /\ right[Len(s) + 2] = y
  <2> DEFINE p == <<x, y>>
  <2>1. p \in Seq(S) /\ Len(p) = 2 /\ p[1] = x /\ p[2] = y
    BY Pair
  <2> HIDE DEF p
  <2>2. /\ s \o p \in Seq(S) /\ Len(s \o p) = Len(s) + Len(p)
        /\ \A i \in 1 .. Len(s) + Len(p) : (s \o p)[i] = IF i <= Len(s) THEN s[i] ELSE p[i - Len(s)]
    BY <2>1, ConcatProperties
  <2>3. right = s \o p
    BY DEF p
  <2> HIDE DEF right
  <2> QED
    BY <1>1, <2>1, <2>2, <2>3
<1> HIDE DEF left, right
<1>4. \A i \in 1 .. Len(left) : left[i] = right[i]
  BY <1>1, <1>2, <1>3
<1>5. left = right
  BY <1>2, <1>3, <1>4, SeqEqual
<1> QED
  BY <1>5 DEF left, right

\* What is left after the first n tokens.
Strips(f, n, command, bare, valued) ==
    f = [i \in 0 .. n |-> IF i = 0 THEN [kept |-> <<>>, skip |-> FALSE]
                          ELSE AfterToken(f[i - 1], command[i], bare, valued)]

\* The loop that strips a command runs to its end.
LEMMA StrippingExists ==
  ASSUME NEW command, NEW bare, NEW valued, NEW n \in Nat
  PROVE  \E f : Strips(f, n, command, bare, valued)
<1> DEFINE Done(k) == \E f : Strips(f, k, command, bare, valued)
           T == {k \in Nat : Done(k)}
<1>1. Done(0)
  <2> DEFINE f == [i \in 0 .. 0 |-> [kept |-> <<>>, skip |-> FALSE]]
  <2>1. Strips(f, 0, command, bare, valued)
    BY DEF Strips
  <2> QED
    BY <2>1
<1>2. ASSUME NEW k \in Nat, Done(k) PROVE Done(k + 1)
  <2>1. PICK f : Strips(f, k, command, bare, valued)
    BY <1>2
  <2> DEFINE g == [i \in 0 .. k + 1 |->
                      IF i = k + 1 THEN AfterToken(f[k], command[k + 1], bare, valued) ELSE f[i]]
  <2>2. \A i \in 0 .. k : g[i] = f[i]
    OBVIOUS
  <2>3. ASSUME NEW i \in 0 .. k + 1
        PROVE  g[i] = IF i = 0 THEN [kept |-> <<>>, skip |-> FALSE]
                      ELSE AfterToken(g[i - 1], command[i], bare, valued)
    <3>1. CASE i \in 0 .. k
      <4>1. g[i] = f[i] /\ (i # 0 => g[i - 1] = f[i - 1])
        BY <2>2, <3>1
      <4>2. f[i] = IF i = 0 THEN [kept |-> <<>>, skip |-> FALSE]
                   ELSE AfterToken(f[i - 1], command[i], bare, valued)
        BY <2>1, <3>1 DEF Strips
      <4> HIDE DEF g
      <4> QED
        BY <4>1, <4>2
    <3>2. CASE i = k + 1
      <4>1. g[i] = AfterToken(f[k], command[i], bare, valued) /\ g[i - 1] = f[k] /\ i # 0
        BY <2>2, <3>2
      <4> HIDE DEF g
      <4> QED
        BY <4>1
    <3> QED
      BY <3>1, <3>2
  <2>4. Strips(g, k + 1, command, bare, valued)
    BY <2>3 DEF Strips
  <2> QED
    BY <2>4
<1>3. 0 \in T /\ \A k \in 1 .. n : k - 1 \in T => k \in T
  <2> HIDE DEF Done
  <2>1. ASSUME NEW k \in 1 .. n, k - 1 \in T PROVE k \in T
    <3>1. k - 1 \in Nat /\ (k - 1) + 1 = k /\ k \in Nat
      OBVIOUS
    <3>2. Done((k - 1) + 1)
      BY <1>2, <2>1, <3>1
    <3> QED
      BY <3>1, <3>2
  <2> QED
    BY <1>1, <2>1
<1>4. n \in T
  <2> HIDE DEF T
  <2> QED
    BY <1>3, FromEachToTheNext
<1> QED
  BY <1>4

\* The loop takes one token after the other.
LEMMA StrippingStrips ==
  ASSUME NEW command \in Seq(Tokens), NEW bare, NEW valued
  PROVE  /\ Stripping(command, bare, valued)[0] = [kept |-> <<>>, skip |-> FALSE]
         /\ \A i \in 1 .. Len(command) : Stripping(command, bare, valued)[i] =
                AfterToken(Stripping(command, bare, valued)[i - 1], command[i], bare, valued)
<1>1. Len(command) \in Nat
  BY LenProperties
<1>2. Strips(Stripping(command, bare, valued), Len(command), command, bare, valued)
  <2>1. \E f : Strips(f, Len(command), command, bare, valued)
    BY <1>1, StrippingExists
  <2>2. PICK f : Strips(f, Len(command), command, bare, valued)
    BY <2>1
  <2>3. Stripping(command, bare, valued) = CHOOSE g : Strips(g, Len(command), command, bare, valued)
    BY DEF Stripping, Strips
  <2> QED
    BY <2>1, <2>3
<1>3. ASSUME NEW f, Strips(f, Len(command), command, bare, valued)
      PROVE  /\ f[0] = [kept |-> <<>>, skip |-> FALSE]
             /\ \A i \in 1 .. Len(command) : f[i] = AfterToken(f[i - 1], command[i], bare, valued)
  <2>1. /\ 0 \in 0 .. Len(command)
        /\ \A i \in 1 .. Len(command) : i \in 0 .. Len(command) /\ i # 0
    BY <1>1
  <2>2. \A i \in 0 .. Len(command) : f[i] = IF i = 0 THEN [kept |-> <<>>, skip |-> FALSE]
                                             ELSE AfterToken(f[i - 1], command[i], bare, valued)
    <3> HIDE DEF AfterToken
    <3> QED
      BY <1>3 DEF Strips
  <2> QED
    BY <2>1, <2>2
<1> DEFINE after == Stripping(command, bare, valued)
<1>4. Strips(after, Len(command), command, bare, valued)
  BY <1>2
<1> HIDE DEF after
<1>5. /\ after[0] = [kept |-> <<>>, skip |-> FALSE]
      /\ \A i \in 1 .. Len(command) : after[i] = AfterToken(after[i - 1], command[i], bare, valued)
  BY <1>3, <1>4
<1> QED
  BY <1>5 DEF after

\* A command without any of the tokens.
Free(s, tokens) == \A i \in 1 .. Len(s) : s[i] \notin tokens

Accs == [kept : Seq(Tokens), skip : BOOLEAN]

\* A token is kept, dropped, or skipped as the value of a flag.
LEMMA AfterTokenKeeps ==
  ASSUME NEW a \in Accs, NEW token \in Tokens, NEW bare, NEW valued,
         NEW b, b = AfterToken(a, token, bare, valued)
  PROVE  /\ b \in Accs
         /\ \/ a.skip /\ b.kept = a.kept /\ ~b.skip
            \/ ~a.skip /\ token \in valued /\ b.kept = a.kept /\ b.skip
            \/ ~a.skip /\ token \in bare \ valued /\ b.kept = a.kept /\ ~b.skip
            \/ ~a.skip /\ token \notin bare \cup valued /\ b.kept = Append(a.kept, token) /\ ~b.skip
<1>1. a.kept \in Seq(Tokens) /\ Append(a.kept, token) \in Seq(Tokens)
  BY LenProperties, AppendProperties DEF Accs
<1>2. CASE a.skip
  BY <1>2 DEF AfterToken, Accs
<1>3. CASE ~a.skip /\ token \in valued
  BY <1>3 DEF AfterToken, Accs
<1>4. CASE ~a.skip /\ token \in bare \ valued
  BY <1>4 DEF AfterToken, Accs
<1>5. CASE ~a.skip /\ token \notin bare \cup valued
  <2>1. b = [a EXCEPT !.kept = Append(a.kept, token)]
    BY <1>5 DEF AfterToken
  <2> QED
    BY <1>1, <1>5, <2>1 DEF Accs
<1> QED
  BY <1>2, <1>3, <1>4, <1>5

\* A token that is not one of them leaves a command free of them.
LEMMA FreeAppend ==
  ASSUME NEW s \in Seq(Tokens), NEW t \in Tokens, NEW tokens, Free(s, tokens), t \notin tokens
  PROVE  Free(Append(s, t), tokens)
<1> SUFFICES ASSUME NEW i \in 1 .. Len(Append(s, t)) PROVE Append(s, t)[i] \notin tokens
  BY DEF Free
<1>1. i \in 1 .. Len(s) \/ i = Len(s) + 1
  BY LenProperties, AppendProperties
<1>2. ASSUME i \in 1 .. Len(s) PROVE Append(s, t)[i] \notin tokens
  <2>1. Append(s, t)[i] = s[i]
    BY <1>2, AppendProperties
  <2> QED
    BY <1>2, <2>1 DEF Free
<1>3. ASSUME i = Len(s) + 1 PROVE Append(s, t)[i] \notin tokens
  BY <1>3, AppendProperties
<1> QED
  BY <1>1, <1>2, <1>3

\* Two commands free of some tokens make one that is.
LEMMA FreeJoin ==
  ASSUME NEW s \in Seq(Tokens), NEW t \in Seq(Tokens), NEW tokens, Free(s, tokens), Free(t, tokens)
  PROVE  Free(s \o t, tokens)
<1> SUFFICES ASSUME NEW i \in 1 .. Len(s \o t) PROVE (s \o t)[i] \notin tokens
  BY DEF Free
<1>1. /\ Len(s) \in Nat /\ Len(t) \in Nat /\ i \in 1 .. Len(s) + Len(t)
      /\ (s \o t)[i] = IF i <= Len(s) THEN s[i] ELSE t[i - Len(s)]
  BY ConcatProperties, LenProperties
<1>2. CASE i <= Len(s)
  BY <1>1, <1>2 DEF Free
<1>3. CASE i > Len(s)
  <2>1. i - Len(s) \in 1 .. Len(t)
    BY <1>1, <1>3
  <2> QED
    BY <1>1, <1>3, <2>1 DEF Free
<1> QED
  BY <1>1, <1>2, <1>3

\* Stripping leaves a command, and none of the flags that it strips.
LEMMA StrippingKeeps ==
  ASSUME NEW command \in Seq(Tokens), NEW bare, NEW valued
  PROVE  \A i \in 0 .. Len(command) :
            LET a == Stripping(command, bare, valued)[i] IN a \in Accs /\ Free(a.kept, bare \cup valued)
<1> DEFINE after == Stripping(command, bare, valued)
           T == {i \in 0 .. Len(command) : after[i] \in Accs /\ Free(after[i].kept, bare \cup valued)}
<1>1. Len(command) \in Nat /\ \A i \in 1 .. Len(command) : command[i] \in Tokens
  BY LenProperties, ElementOfSeq
<1>2. /\ after[0] = [kept |-> <<>>, skip |-> FALSE]
      /\ \A i \in 1 .. Len(command) : after[i] = AfterToken(after[i - 1], command[i], bare, valued)
  BY StrippingStrips
<1> HIDE DEF after
<1>3. 0 \in T
  <2>1. <<>> \in Seq(Tokens) /\ Len(<<>>) = 0
    BY EmptySeq
  <2>2. after[0].kept = <<>> /\ after[0] \in Accs
    BY <1>2, <2>1 DEF Accs
  <2> QED
    BY <1>1, <2>1, <2>2 DEF Free
<1>4. ASSUME NEW i \in 1 .. Len(command), i - 1 \in T PROVE i \in T
  <2>1. after[i - 1] \in Accs /\ Free(after[i - 1].kept, bare \cup valued)
    BY <1>4
  <2>2. after[i] = AfterToken(after[i - 1], command[i], bare, valued) /\ command[i] \in Tokens
    BY <1>1, <1>2
  <2>3. /\ after[i] \in Accs
        /\ \/ after[i].kept = after[i - 1].kept
           \/ command[i] \notin bare \cup valued /\ after[i].kept = Append(after[i - 1].kept, command[i])
    <3> DEFINE a == after[i - 1]
               b == after[i]
               token == command[i]
    <3>1. a \in Accs /\ token \in Tokens /\ b = AfterToken(a, token, bare, valued)
      BY <2>1, <2>2
    <3> HIDE DEF a, b, token
    <3>2. /\ b \in Accs
          /\ \/ b.kept = a.kept
             \/ token \notin bare \cup valued /\ b.kept = Append(a.kept, token)
      BY <3>1, AfterTokenKeeps
    <3> QED
      BY <3>2 DEF a, b, token
  <2>4. after[i - 1].kept \in Seq(Tokens)
    BY <2>1 DEF Accs
  <2>5. Free(after[i].kept, bare \cup valued)
    BY <2>1, <2>2, <2>3, <2>4, FreeAppend
  <2> QED
    BY <1>1, <2>3, <2>5
<1>5. \A i \in 0 .. Len(command) : i \in T
  <2> HIDE DEF T
  <2> QED
    BY <1>1, <1>3, <1>4, FromEachToTheNext
<1> QED
  BY <1>5 DEF after

\* What is stripped of flags is free of them.
LEMMA WithoutFree ==
  ASSUME NEW command \in Seq(Tokens), NEW bare, NEW valued
  PROVE  Without(command, bare, valued) \in Seq(Tokens) /\ Free(Without(command, bare, valued), bare \cup valued)
<1>1. Len(command) \in 0 .. Len(command)
  BY LenProperties
<1> QED
  BY <1>1, StrippingKeeps DEF Without, Accs

\* The tables of the agents that can be kept from writing, and of the others.
LEMMA RestrictingTables ==
  /\ ReadOnlyArgs["gemini"] = <<"--approval-mode", "plan">> /\ Bypasses["gemini"] = {"-y", "--yolo"}
  /\ ReadOnlyArgs["codex"] = <<"--sandbox", "read-only">>
  /\ Bypasses["codex"] = {"--dangerously-bypass-approvals-and-sandbox", "--full-auto"}
  /\ Overrides["codex"] = {"--sandbox", "-s"}
  /\ ReadOnlyArgs["claude"] = <<"--permission-mode", "plan">> /\ ReadOnlyArgs["aider"] = <<"--dry-run">>
  /\ ReadOnlyArgs["copilot"] =
        <<"--available-tools", "view,grep,glob", "--deny-tool", "write", "--deny-tool", "shell">>
  /\ Bypasses["copilot"] = {"--yolo", "--allow-all", "--allow-all-paths", "--allow-all-urls"}
  /\ \A c \in {"opencode", "crush", "kimi", "amp"} : ReadOnlyArgs[c] = <<>>
  /\ \A c \in Known \ {"codex"} : Overrides[c] = {}
  /\ \A c \in {"claude", "aider", "opencode", "crush", "kimi", "amp"} : Bypasses[c] = {}
  BY DEF ReadOnlyArgs, Bypasses, Overrides, Otherwise, Known

\* What the agent classes add at the end is free of whatever is not among their tokens.
LEMMA TailFree ==
  ASSUME NEW m, NEW c, NEW images, NEW tokens, tokens \cap TailTokens = {}
  PROVE  /\ OutputArgs(m) \o TransportArgs(c, images) \in Seq(Tokens)
         /\ OutputArgs(m) \in Seq(Tokens) /\ TransportArgs(c, images) \in Seq(Tokens)
         /\ Free(OutputArgs(m) \o TransportArgs(c, images), tokens)
<1>1. TailTokens \subseteq Tokens
  BY DEF Tokens
<1>2. ASSUME NEW s \in TailTokens, NEW t \in TailTokens
      PROVE  <<s, t>> \in Seq(Tokens) /\ Free(<<s, t>>, tokens)
  <2>1. s \in Tokens /\ t \in Tokens /\ s \notin tokens /\ t \notin tokens
    BY <1>1
  <2>2. /\ <<s, t>> \in Seq(Tokens) /\ Len(<<s, t>>) = 2
        /\ <<s, t>>[1] = s /\ <<s, t>>[2] = t
    BY <2>1, Pair
  <2> QED
    BY <2>1, <2>2 DEF Free
<1>3. <<>> \in Seq(Tokens) /\ Free(<<>>, tokens)
  BY DEF Free
<1>4. OutputArgs(m) \in Seq(Tokens) /\ Free(OutputArgs(m), tokens)
  BY <1>2, <1>3 DEF OutputArgs, TailTokens
<1>5. TransportArgs(c, images) \in Seq(Tokens) /\ Free(TransportArgs(c, images), tokens)
  <2> DEFINE a == IF "path" \in Attached(c, images) THEN <<"--attachment", "path">> ELSE <<>>
             b == IF "blob" \in Attached(c, images) THEN <<"--attachment", TEMP>> ELSE <<>>
  <2>1. a \in Seq(Tokens) /\ Free(a, tokens) /\ b \in Seq(Tokens) /\ Free(b, tokens)
    BY <1>2, <1>3 DEF TailTokens
  <2>2. a \o b \in Seq(Tokens) /\ Free(a \o b, tokens)
    <3> HIDE DEF a, b
    <3> QED
      BY <2>1, FreeJoin, ConcatProperties
  <2>3. TransportArgs(c, images) \in {<<"--prompt", PROMPT>>, <<"--message-file", TEMP>>, a \o b}
    BY DEF TransportArgs
  <2> HIDE DEF a, b
  <2>4. /\ <<"--prompt", PROMPT>> \in Seq(Tokens) /\ Free(<<"--prompt", PROMPT>>, tokens)
        /\ <<"--message-file", TEMP>> \in Seq(Tokens) /\ Free(<<"--message-file", TEMP>>, tokens)
    BY <1>2 DEF TailTokens
  <2> QED
    BY <2>2, <2>3, <2>4
<1> QED
  BY <1>4, <1>5, FreeJoin, ConcatProperties

\* A flag that is appended with its value outweighs the same flag before it.
LEMMA LastCounts ==
  ASSUME NEW s \in Seq(Tokens), NEW t \in Seq(Tokens), NEW flags,
         NEW flag \in Tokens, flag \in flags, NEW value \in Tokens, value \notin flags, Free(t, flags)
  PROVE  LastValue((s \o <<flag, value>>) \o t, flags) = value
<1> DEFINE u == s \o <<flag, value>>
           command == u \o t
           k == Len(s) + 1
<1>1. /\ <<flag, value>> \in Seq(Tokens) /\ Len(<<flag, value>>) = 2
      /\ <<flag, value>>[1] = flag /\ <<flag, value>>[2] = value
  BY Pair
<1>2. /\ u \in Seq(Tokens) /\ Len(s) \in Nat /\ Len(t) \in Nat /\ Len(u) = Len(s) + 2
      /\ u[k] = flag /\ u[k + 1] = value
  <2>1. /\ u \in Seq(Tokens) /\ Len(u) = Len(s) + Len(<<flag, value>>)
        /\ \A i \in 1 .. Len(s) + Len(<<flag, value>>) :
              u[i] = IF i <= Len(s) THEN s[i] ELSE <<flag, value>>[i - Len(s)]
    BY <1>1, ConcatProperties
  <2>2. Len(s) \in Nat /\ Len(t) \in Nat
    BY LenProperties
  <2> HIDE DEF u
  <2> QED
    BY <1>1, <2>1, <2>2
<1>3. /\ Len(command) = Len(u) + Len(t)
      /\ \A i \in 1 .. Len(u) + Len(t) : command[i] = IF i <= Len(u) THEN u[i] ELSE t[i - Len(u)]
  <2> HIDE DEF u
  <2> QED
    BY <1>2, ConcatProperties
<1> HIDE DEF command, u
<1> DEFINE at == {i \in 1 .. (Len(command) - 1) : command[i] \in flags}
<1>4. k \in at /\ command[k + 1] = value
  BY <1>2, <1>3
<1>5. ASSUME NEW j \in at, j > k PROVE FALSE
  <2>1. j \in 1 .. Len(u) + Len(t) /\ command[j] \in flags /\ j >= k + 1
    BY <1>2, <1>3, <1>5
  <2>2. CASE j = k + 1
    BY <1>4, <2>1, <2>2
  <2>3. CASE j > k + 1
    <3>1. j - Len(u) \in 1 .. Len(t) /\ command[j] = t[j - Len(u)]
      BY <1>2, <1>3, <2>1, <2>3
    <3> QED
      BY <2>1, <3>1 DEF Free
  <2> QED
    BY <1>2, <2>1, <2>2, <2>3
<1>6. \A j \in at : j <= k
  BY <1>2, <1>3, <1>5
<1>7. (CHOOSE i \in at : \A j \in at : j <= i) = k
  <2>1. at \subseteq Nat
    BY <1>2, <1>3
  <2> HIDE DEF at, k
  <2>2. \A i \in at : (\A j \in at : j <= i) => i = k
    BY <1>4, <1>6, <2>1
  <2> QED
    BY <1>4, <1>6, <2>2
<1> QED
  BY <1>4, <1>7 DEF LastValue, command, u

\* A command that is free of tokens holds none of them.
LEMMA FreeRange ==
  ASSUME NEW s \in Seq(Tokens), NEW tokens, Free(s, tokens)
  PROVE  Range(s) \cap tokens = {}
<1>1. DOMAIN s = 1 .. Len(s)
  BY LenProperties
<1> QED
  BY <1>1 DEF Range, Free

\* What is added in the middle of a command is in it.
LEMMA InTheMiddle ==
  ASSUME NEW s \in Seq(Tokens), NEW r \in Seq(Tokens), NEW t \in Seq(Tokens), NEW i \in 1 .. Len(r)
  PROVE  r[i] \in Range((s \o r) \o t)
<1> DEFINE u == s \o r
           w == u \o t
           k == Len(s) + i
<1>1. /\ u \in Seq(Tokens) /\ Len(u) = Len(s) + Len(r)
      /\ \A j \in 1 .. Len(s) + Len(r) : u[j] = IF j <= Len(s) THEN s[j] ELSE r[j - Len(s)]
  BY ConcatProperties
<1>2. Len(s) \in Nat /\ Len(r) \in Nat /\ Len(t) \in Nat /\ Len(u) \in Nat
  BY <1>1, LenProperties
<1>3. /\ w \in Seq(Tokens) /\ Len(w) = Len(u) + Len(t)
      /\ \A j \in 1 .. Len(u) + Len(t) : w[j] = IF j <= Len(u) THEN u[j] ELSE t[j - Len(u)]
  <2>1. u \in Seq(Tokens)
    BY <1>1
  <2> HIDE DEF u
  <2> QED
    BY <2>1, ConcatProperties
<1> HIDE DEF u
<1>4. DOMAIN w = 1 .. Len(w)
  BY <1>3, LenProperties
<1> HIDE DEF w
<1>5. w[k] = r[i] /\ k \in DOMAIN w
  BY <1>1, <1>2, <1>3, <1>4
<1>6. r[i] \in Range(w)
  BY <1>5 DEF Range
<1> QED
  BY <1>6 DEF w, u

\* A command of three and of six tokens.
LEMMA Triple ==
  ASSUME NEW S, NEW a \in S, NEW b \in S, NEW c \in S
  PROVE  <<a, b, c>> \in Seq(S)
OBVIOUS

\* A command of six tokens.
LEMMA Sextuple ==
  ASSUME NEW S, NEW a \in S, NEW b \in S, NEW c \in S, NEW d \in S, NEW e \in S, NEW f \in S
  PROVE  <<a, b, c, d, e, f>> \in Seq(S)
OBVIOUS

\* What clink passes and appends are commands too.
LEMMA OwnArgs ==
  ASSUME NEW c \in Known
  PROVE  InternalArgs[c] \in Seq(Tokens) /\ ReadOnlyArgs[c] \in Seq(Tokens) /\ ModelFlag[c] \in Tokens
<1>1. ModelFlag[c] \in Tokens
  BY DEF Tokens
<1>2. \A i \in DOMAIN InternalArgs[c] : InternalArgs[c][i] \in Tokens
  BY DEF Tokens, Range
<1>3. \A i \in DOMAIN ReadOnlyArgs[c] : ReadOnlyArgs[c][i] \in Tokens
  BY DEF Tokens, Range
<1>4. InternalArgs[c] \in {<<>>, <<"-o", "json">>, <<"exec">>, <<"--print">>, <<"--format", "json">>,
                <<"--output-format", "stream-json">>, <<"--output-format", "json", "--allow-all-tools">>}
  BY DEF InternalArgs, Otherwise, Known
<1>5. ReadOnlyArgs[c] \in {<<>>, <<"--approval-mode", "plan">>, <<"--sandbox", "read-only">>,
                <<"--permission-mode", "plan">>, <<"--dry-run">>,
                <<"--available-tools", "view,grep,glob", "--deny-tool", "write", "--deny-tool", "shell">>}
  BY RestrictingTables DEF Known
<1>6. ASSUME NEW s, \A i \in DOMAIN s : s[i] \in Tokens,
             \/ s = <<>>
             \/ \E a : s = <<a>>
             \/ \E a, b : s = <<a, b>>
             \/ \E a, b, d : s = <<a, b, d>>
             \/ \E a, b, d, e, f, g : s = <<a, b, d, e, f, g>>
      PROVE  s \in Seq(Tokens)
  <2>1. CASE s = <<>>
    BY <2>1
  <2>2. ASSUME NEW a, s = <<a>> PROVE s \in Seq(Tokens)
    <3>1. a \in Tokens
      BY <1>6, <2>2
    <3> QED
      BY <2>2, <3>1, Single
  <2>3. ASSUME NEW a, NEW b, s = <<a, b>> PROVE s \in Seq(Tokens)
    <3>1. a \in Tokens /\ b \in Tokens
      BY <1>6, <2>3
    <3> QED
      BY <2>3, <3>1, Pair
  <2>4. ASSUME NEW a, NEW b, NEW d, s = <<a, b, d>> PROVE s \in Seq(Tokens)
    <3>1. a \in Tokens /\ b \in Tokens /\ d \in Tokens
      BY <1>6, <2>4
    <3> QED
      BY <2>4, <3>1, Triple
  <2>5. ASSUME NEW a, NEW b, NEW d, NEW e, NEW f, NEW g, s = <<a, b, d, e, f, g>> PROVE s \in Seq(Tokens)
    <3>1. a \in Tokens /\ b \in Tokens /\ d \in Tokens /\ e \in Tokens /\ f \in Tokens /\ g \in Tokens
      BY <1>6, <2>5
    <3> QED
      BY <2>5, <3>1, Sextuple
  <2> QED
    BY <1>6, <2>1, <2>2, <2>3, <2>4, <2>5
<1>7. InternalArgs[c] \in Seq(Tokens)
  <2> DEFINE s == InternalArgs[c]
  <2>1. \/ s = <<>> \/ (\E a : s = <<a>>) \/ (\E a, b : s = <<a, b>>) \/ (\E a, b, d : s = <<a, b, d>>)
    BY <1>4
  <2>2. \A i \in DOMAIN s : s[i] \in Tokens
    BY <1>2
  <2> HIDE DEF s
  <2>3. s \in Seq(Tokens)
    BY <1>6, <2>1, <2>2
  <2> QED
    BY <2>3 DEF s
<1>8. ReadOnlyArgs[c] \in Seq(Tokens)
  <2> DEFINE s == ReadOnlyArgs[c]
  <2>1. s = <<>> \/ (\E a : s = <<a>>) \/ (\E a, b : s = <<a, b>>) \/ (\E a, b, d, e, f, g : s = <<a, b, d, e, f, g>>)
    BY <1>5
  <2>2. \A i \in DOMAIN s : s[i] \in Tokens
    BY <1>3
  <2> HIDE DEF s
  <2>3. s \in Seq(Tokens)
    BY <1>6, <2>1, <2>2
  <2> QED
    BY <2>3 DEF s
<1> QED
  BY <1>1, <1>7, <1>8

\* A command free of some tokens is free of fewer.
LEMMA FreeFewer ==
  ASSUME NEW s, NEW tokens, NEW fewer, fewer \subseteq tokens, Free(s, tokens)
  PROVE  Free(s, fewer)
BY DEF Free

\* A pair is free of what neither of the two is.
LEMMA FreePair ==
  ASSUME NEW a, NEW b, NEW tokens, a \notin tokens, b \notin tokens
  PROVE  Free(<<a, b>>, tokens)
BY DEF Free

\* So are six tokens.
LEMMA FreeSextuple ==
  ASSUME NEW a, NEW b, NEW c, NEW d, NEW e, NEW f, NEW tokens, {a, b, c, d, e, f} \cap tokens = {}
  PROVE  /\ Free(<<a, b, c, d, e, f>>, tokens)
         /\ 1 \in 1 .. Len(<<a, b, c, d, e, f>>) /\ 3 \in 1 .. Len(<<a, b, c, d, e, f>>)
         /\ <<a, b, c, d, e, f>>[1] = a /\ <<a, b, c, d, e, f>>[3] = c
BY DEF Free

\* The read-only flags keep an agent from writing wherever they follow a command that has none
\* of the flags they outweigh, and whatever the output and the prompt add to them.
LEMMA FlagsRestrict ==
  ASSUME NEW c \in Known, ReadOnlyArgs[c] # <<>>, NEW s \in Seq(Tokens), NEW t \in Seq(Tokens),
         Free(s, Bypasses[c] \cup Overrides[c]),
         \A tokens : tokens \cap TailTokens = {} => Free(t, tokens)
  PROVE  Restricted(c, (s \o ReadOnlyArgs[c]) \o t)
<1> DEFINE r == ReadOnlyArgs[c]
           command == (s \o r) \o t
<1>1. r \in Seq(Tokens) /\ \A i \in 1 .. Len(r) : r[i] \in Tokens
  BY OwnArgs, ElementOfSeq
<1>2. ASSUME Bypasses[c] \cap TailTokens = {}, Free(r, Bypasses[c])
      PROVE  Range(command) \cap Bypasses[c] = {}
  <2>1. Free(s, Bypasses[c]) /\ Free(t, Bypasses[c])
    BY <1>2, FreeFewer
  <2>2. Free(s \o r, Bypasses[c]) /\ s \o r \in Seq(Tokens)
    <3> HIDE DEF r
    <3> QED
      BY <1>1, <1>2, <2>1, FreeJoin, ConcatProperties
  <2>3. Free(command, Bypasses[c]) /\ command \in Seq(Tokens)
    <3> DEFINE u == s \o r
    <3>1. u \in Seq(Tokens) /\ Free(u, Bypasses[c]) /\ command = u \o t
      BY <2>2
    <3> HIDE DEF u, command
    <3> QED
      BY <2>1, <3>1, FreeJoin, ConcatProperties
  <2> HIDE DEF command
  <2> QED
    BY <2>3, FreeRange
<1>3. ASSUME NEW flag, NEW value, r = <<flag, value>>, NEW flags, flag \in flags, value \notin flags,
             flags \cap TailTokens = {}
      PROVE  LastValue(command, flags) = value
  <2>1. flag \in Tokens /\ value \in Tokens /\ Free(t, flags)
    BY <1>1, <1>3
  <2>2. LastValue((s \o <<flag, value>>) \o t, flags) = value
    BY <1>3, <2>1, LastCounts
  <2> QED
    BY <1>3, <2>2
<1>4. ASSUME NEW i \in 1 .. Len(r) PROVE r[i] \in Range(command)
  <2> HIDE DEF r
  <2> QED
    BY <1>1, InTheMiddle
<1>5. CASE c = "gemini"
  <2>1. r = <<"--approval-mode", "plan">> /\ Bypasses[c] = {"-y", "--yolo"}
    BY <1>5, RestrictingTables
  <2>2. Free(r, Bypasses[c]) /\ Bypasses[c] \cap TailTokens = {}
    <3>1. Bypasses[c] \cap TailTokens = {} /\ "--approval-mode" \notin Bypasses[c] /\ "plan" \notin Bypasses[c]
      BY <2>1 DEF TailTokens, PROMPT, TEMP
    <3>2. Free(<<"--approval-mode", "plan">>, Bypasses[c])
      BY <3>1, FreePair
    <3> QED
      BY <2>1, <3>1, <3>2
  <2>3. LastValue(command, {"--approval-mode"}) = "plan"
    <3>1. {"--approval-mode"} \cap TailTokens = {}
      BY DEF TailTokens, PROMPT, TEMP
    <3> HIDE DEF r, command
    <3> QED
      BY <1>3, <2>1, <3>1
  <2> HIDE DEF command
  <2>4. Restricted(c, command)
    BY <1>2, <1>5, <2>2, <2>3 DEF Restricted
  <2> QED
    BY <2>4 DEF command
<1>6. CASE c = "codex"
  <2>1. r = <<"--sandbox", "read-only">> /\ Bypasses[c] = {"--dangerously-bypass-approvals-and-sandbox", "--full-auto"}
    BY <1>6, RestrictingTables
  <2>2. Free(r, Bypasses[c]) /\ Bypasses[c] \cap TailTokens = {}
    <3>1. Bypasses[c] \cap TailTokens = {} /\ "--sandbox" \notin Bypasses[c] /\ "read-only" \notin Bypasses[c]
      BY <2>1 DEF TailTokens, PROMPT, TEMP
    <3>2. Free(<<"--sandbox", "read-only">>, Bypasses[c])
      BY <3>1, FreePair
    <3> QED
      BY <2>1, <3>1, <3>2
  <2>3. LastValue(command, {"--sandbox", "-s"}) = "read-only"
    <3>1. {"--sandbox", "-s"} \cap TailTokens = {}
      BY DEF TailTokens, PROMPT, TEMP
    <3> HIDE DEF r, command
    <3> QED
      BY <1>3, <2>1, <3>1
  <2> HIDE DEF command
  <2>4. Restricted(c, command)
    BY <1>2, <1>6, <2>2, <2>3 DEF Restricted
  <2> QED
    BY <2>4 DEF command
<1>7. CASE c = "claude"
  <2>1. r = <<"--permission-mode", "plan">>
    BY <1>7, RestrictingTables
  <2>2. LastValue(command, {"--permission-mode"}) = "plan"
    <3>1. {"--permission-mode"} \cap TailTokens = {}
      BY DEF TailTokens, PROMPT, TEMP
    <3> HIDE DEF r, command
    <3> QED
      BY <1>3, <2>1, <3>1
  <2> HIDE DEF command
  <2>3. Restricted(c, command)
    BY <1>7, <2>2 DEF Restricted
  <2> QED
    BY <2>3 DEF command
<1>8. CASE c = "aider"
  <2>1. r = <<"--dry-run">>
    BY <1>8, RestrictingTables
  <2>2. 1 \in 1 .. Len(r) /\ r[1] = "--dry-run"
    BY <2>1
  <2> HIDE DEF command, r
  <2>3. Restricted(c, command)
    BY <1>4, <1>8, <2>2 DEF Restricted
  <2> QED
    BY <2>3 DEF command, r
<1>9. CASE c = "copilot"
  <2>1. /\ r = <<"--available-tools", "view,grep,glob", "--deny-tool", "write", "--deny-tool", "shell">>
        /\ Bypasses[c] = {"--yolo", "--allow-all", "--allow-all-paths", "--allow-all-urls"}
    BY <1>9, RestrictingTables
  <2>2. /\ Bypasses[c] \cap TailTokens = {}
        /\ {"--available-tools", "view,grep,glob", "--deny-tool", "write", "--deny-tool", "shell"}
                \cap Bypasses[c] = {}
    BY <2>1 DEF TailTokens, PROMPT, TEMP
  <2>3. /\ Free(r, Bypasses[c]) /\ 1 \in 1 .. Len(r) /\ r[1] = "--available-tools"
        /\ 3 \in 1 .. Len(r) /\ r[3] = "--deny-tool"
    <3> DEFINE all == <<"--available-tools", "view,grep,glob", "--deny-tool", "write", "--deny-tool", "shell">>
    <3>1. /\ Free(all, Bypasses[c]) /\ 1 \in 1 .. Len(all) /\ all[1] = "--available-tools"
          /\ 3 \in 1 .. Len(all) /\ all[3] = "--deny-tool"
      <4> DEFINE tokens == Bypasses[c]
      <4>1. {"--available-tools", "view,grep,glob", "--deny-tool", "write", "--deny-tool", "shell"}
                \cap tokens = {}
        BY <2>2
      <4> HIDE DEF tokens
      <4>2. /\ Free(all, tokens) /\ 1 \in 1 .. Len(all) /\ all[1] = "--available-tools"
            /\ 3 \in 1 .. Len(all) /\ all[3] = "--deny-tool"
        BY <4>1, FreeSextuple
      <4> QED
        BY <4>2 DEF tokens
    <3>2. r = all
      BY <2>1
    <3> HIDE DEF all, r
    <3> QED
      BY <3>1, <3>2
  <2> HIDE DEF command, r
  <2>4. Restricted(c, command)
    <3>1. {"--available-tools", "--deny-tool"} \subseteq Range(command)
      BY <1>4, <2>3
    <3>2. Range(command) \cap Bypasses[c] = {}
      BY <1>2, <2>2, <2>3
    <3> QED
      BY <1>9, <3>1, <3>2 DEF Restricted
  <2> QED
    BY <2>4 DEF command, r
<1> QED
  BY <1>5, <1>6, <1>7, <1>8, <1>9, RestrictingTables DEF Known

\* A command is built of tokens.
LEMMA ConfiguredIsCommand ==
  ASSUME NEW m, IsManifest(m), m.name \in Known, NEW role \in DOMAIN m.roles
  PROVE  Configured(m, role) \in Seq(Tokens)
<1>1. ASSUME NEW s \in Seq(STRING) PROVE s \in Seq(Tokens)
  <2>1. s \in [1 .. Len(s) -> STRING] /\ Len(s) \in Nat
    BY LenProperties, ElementOfSeq
  <2>2. s \in [1 .. Len(s) -> Tokens]
    BY <2>1 DEF Tokens
  <2> QED
    BY <2>1, <2>2
<1>2. /\ m.command \in Seq(Tokens) /\ m.args \in Seq(Tokens) /\ m.roles[role] \in Seq(Tokens)
      /\ InternalArgs[m.name] \in Seq(Tokens)
  BY <1>1, OwnArgs DEF IsManifest
<1>3. SystemPrompt(m) \in Seq(Tokens)
  <2>1. "--append-system-prompt" \in Tokens /\ PROMPT \in Tokens
    BY DEF Tokens, TailTokens
  <2>2. <<"--append-system-prompt", PROMPT>> \in Seq(Tokens) /\ <<>> \in Seq(Tokens)
    BY <2>1, Pair
  <2> QED
    BY <2>2 DEF SystemPrompt
<1>4. ASSUME NEW s \in Seq(Tokens), NEW t \in Seq(Tokens) PROVE s \o t \in Seq(Tokens)
  BY ConcatProperties
<1> DEFINE a == m.command \o InternalArgs[m.name]
           b == a \o m.args
           d == b \o SystemPrompt(m)
<1>5. a \in Seq(Tokens)
  BY <1>2, <1>4
<1>6. b \in Seq(Tokens)
  <2> HIDE DEF a
  <2> QED
    BY <1>2, <1>4, <1>5
<1>7. d \in Seq(Tokens)
  <2> HIDE DEF b
  <2> QED
    BY <1>3, <1>4, <1>6
<1>8. d \o m.roles[role] \in Seq(Tokens)
  <2> HIDE DEF d
  <2> QED
    BY <1>2, <1>4, <1>7
<1> QED
  BY <1>8 DEF Configured

\* The manifest of a configured agent is its own, and that of a file that was read.
LEMMA ManifestIsTheAgents ==
  ASSUME NEW files, files \in Seq(Range(files)), \A m \in Range(files) : IsManifest(m), Loads(files),
         NEW c \in DOMAIN Clients(files)
  PROVE  LET m == Clients(files)[c] IN IsManifest(m) /\ m.name = c /\ c \in Known
<1>1. DOMAIN files = 1 .. Len(files) /\ Len(files) \in Nat
  BY LenProperties
<1>2. c \in {files[i].name : i \in DOMAIN files} /\ Clients(files)[c] = Resolved(Replacing(files, c))
  BY DEF Clients
<1> DEFINE T == {k \in 0 .. Len(files) : k < Len(files) /\ files[Len(files) - k].name = c}
<1>3. T # {}
  <2>1. PICK i \in DOMAIN files : files[i].name = c
    BY <1>2
  <2>2. Len(files) - i \in 0 .. Len(files) /\ Len(files) - i < Len(files) /\ Len(files) - (Len(files) - i) = i
    BY <1>1, <2>1
  <2> QED
    BY <2>1, <2>2
<1>4. PICK k \in T : \A j \in T : k <= j
  <2>1. T \subseteq Nat
    BY <1>1
  <2> HIDE DEF T
  <2> QED
    BY <1>3, <2>1, HasLeast
<1>5. \E i \in DOMAIN files : files[i].name = c /\ \A j \in DOMAIN files : files[j].name = c => j <= i
  <2>1. Len(files) - k \in DOMAIN files /\ files[Len(files) - k].name = c
    BY <1>1, <1>4
  <2>2. ASSUME NEW j \in DOMAIN files, files[j].name = c PROVE j <= Len(files) - k
    <3>1. Len(files) - j \in T
      <4>1. Len(files) - j \in 0 .. Len(files) /\ Len(files) - j < Len(files) /\ Len(files) - (Len(files) - j) = j
        BY <1>1, <2>2
      <4> QED
        BY <2>2, <4>1
    <3>2. k <= Len(files) - j
      BY <1>4, <3>1
    <3> QED
      BY <1>1, <1>4, <2>2, <3>2
  <2> QED
    BY <2>1, <2>2
<1>6. PICK i \in DOMAIN files : files[i].name = c /\ Replacing(files, c) = files[i]
  BY <1>5 DEF Replacing
<1>7. files[i] \in Range(files) /\ IsManifest(files[i]) /\ Registrable(files[i])
  BY <1>6 DEF Range, Loads
<1> DEFINE f == files[i]
           m == Resolved(f)
<1> HIDE DEF f
<1>8. IsManifest(f) /\ f.name = c /\ c \in Known
  BY <1>6, <1>7 DEF f, Registrable
<1>9. m.name = f.name /\ IsManifest(m)
  <2>1. <<>> \in Seq(STRING)
    BY EmptySeq
  <2> QED
    BY <1>8, <2>1 DEF Resolved, IsManifest
<1> QED
  BY <1>2, <1>6, <1>8, <1>9 DEF f

\* build_command makes a command of whatever the manifest says.
LEMMA BuiltIsCommand ==
  ASSUME NEW m, IsManifest(m), m.name \in Known, NEW role \in DOMAIN m.roles, NEW model \in STRING
  PROVE  BuildCommand(m, role, model) \in Seq(Tokens)
<1>1. Configured(m, role) \in Seq(Tokens)
  BY ConfiguredIsCommand
<1>2. StripModelFlags(m.name, Configured(m, role)) \in Seq(Tokens)
  <2> DEFINE line == Configured(m, role)
             bare == InlineModels(m.name)
             valued == ModelAliases[m.name]
  <2>1. line \in Seq(Tokens)
    BY <1>1
  <2> HIDE DEF line, bare, valued
  <2>2. Without(line, bare, valued) \in Seq(Tokens)
    BY <2>1, WithoutFree
  <2> QED
    BY <2>2 DEF StripModelFlags, line, bare, valued
<1>3. <<ModelFlag[m.name], model>> \in Seq(Tokens)
  <2>1. ModelFlag[m.name] \in Tokens /\ model \in Tokens
    BY OwnArgs DEF Tokens
  <2> QED
    BY <2>1, Pair
<1>4. StripModelFlags(m.name, Configured(m, role)) \o <<ModelFlag[m.name], model>> \in Seq(Tokens)
  BY <1>2, <1>3, ConcatProperties
<1> QED
  BY <1>1, <1>4 DEF BuildCommand

\* The command of a read-only run of an agent that can be kept from writing keeps it from writing.
LEMMA CommandRestricts ==
  ASSUME NEW m, IsManifest(m), m.name \in Known, NEW role \in DOMAIN m.roles, NEW model \in STRING,
         NEW images, ReadOnlyArgs[m.name] # <<>>
  PROVE  Restricted(m.name, Argv(m, role, model, TRUE, images))
<1> DEFINE c == m.name
           built == BuildCommand(m, role, model)
           s == Without(built, Bypasses[c], Overrides[c])
           r == ReadOnlyArgs[c]
           o == OutputArgs(m)
           t == TransportArgs(c, images)
<1>1. built \in Seq(Tokens)
  BY BuiltIsCommand
<1>2. s \in Seq(Tokens) /\ Free(s, Bypasses[c] \cup Overrides[c])
  <2> HIDE DEF built
  <2> QED
    BY <1>1, WithoutFree
<1>3. r \in Seq(Tokens)
  BY OwnArgs
<1>4. o \in Seq(Tokens) /\ t \in Seq(Tokens) /\ o \o t \in Seq(Tokens)
  <2>1. {} \cap TailTokens = {}
    OBVIOUS
  <2> QED
    BY <2>1, TailFree
<1>5. ASSUME NEW tokens, tokens \cap TailTokens = {} PROVE Free(o \o t, tokens)
  BY <1>5, TailFree
<1>6. Argv(m, role, model, TRUE, images) = ((s \o r) \o o) \o t
  BY DEF Argv, ApplyReadOnly
<1>7. ((s \o r) \o o) \o t = (s \o r) \o (o \o t)
  <2> HIDE DEF s, r, o, t
  <2>1. s \o r \in Seq(Tokens)
    BY <1>2, <1>3, ConcatProperties
  <2> DEFINE u == s \o r
  <2> HIDE DEF u
  <2>2. u \in Seq(Tokens)
    BY <2>1 DEF u
  <2>3. (u \o o) \o t = u \o (o \o t)
    BY <1>4, <2>2, ConcatAssociative
  <2> QED
    BY <2>3 DEF u
<1>8. Restricted(c, (s \o r) \o (o \o t))
  <2> DEFINE w == o \o t
  <2>1. w \in Seq(Tokens) /\ \A tokens : tokens \cap TailTokens = {} => Free(w, tokens)
    BY <1>4, <1>5
  <2>2. c \in Known /\ ReadOnlyArgs[c] # <<>>
    OBVIOUS
  <2> HIDE DEF w, s, c
  <2>3. Restricted(c, (s \o ReadOnlyArgs[c]) \o w)
    BY <1>2, <2>1, <2>2, FlagsRestrict
  <2> QED
    BY <2>3 DEF w, c
<1> HIDE DEF s, r, o, t
<1> QED
  BY <1>6, <1>7, <1>8

-----------------------------------------------------------------------------
(* The run.                                                                *)

\* A request that a run is made for: its agent has a manifest of its own, the role is one of
\* its roles, and the model does not look like a flag.
Fit(r) ==
    LET m == Manifest(r) IN
    /\ Loads(setting.files) /\ Selected(Clients(setting.files), r.cli) \in DOMAIN Clients(setting.files)
    /\ IsManifest(m) /\ m.name = Selected(Clients(setting.files), r.cli) /\ m.name \in Known
    /\ r.role \in DOMAIN m.roles
    /\ r.model \in STRING /\ r.model \notin FlagLike

\* The files of a run that an agent's exit leaves: its output file, where the manifest keeps it.
Spared(r) == IF Manifest(r).cleanup THEN {} ELSE {"output"}

RunInv ==
    /\ setting \in Settings
    /\ call.phase \in {"before", "launching", "running", "after"} => Fit(call.request)
    /\ call.phase = "before" => call.temp = {}
    /\ call.phase = "after" => call.temp \subseteq Spared(call.request)
    /\ Working =>
        /\ call.command = Command(Manifest(call.request), call.request)
        /\ call.temp \subseteq {"message", "attachment", "output"}
    /\ FilesAsFound

\* What is accepted is fit to run.
LEMMA AcceptedIsFit ==
  ASSUME setting \in Settings, Loads(setting.files), NEW r \in Asked, Accepted(r)
  PROVE  Fit(r)
<1> DEFINE clients == Clients(setting.files)
           c == Selected(clients, r.cli)
<1>1. c \in DOMAIN clients /\ Manifest(r) = clients[c]
  BY DEF Accepted, Manifest
<1>2. r.role \in DOMAIN clients[c].roles /\ r.model \notin FlagLike
  BY DEF Accepted, ModelAccepted
<1>3. r.model \in STRING
  BY RequestAssumption DEF Asked
<1>4. IsManifest(clients[c]) /\ clients[c].name = c /\ c \in Known
  <2> DEFINE files == setting.files
  <2>1. /\ files \in Seq(Range(files)) /\ \A m \in Range(files) : IsManifest(m)
        /\ Loads(files) /\ c \in DOMAIN Clients(files)
    BY <1>1, RequestAssumption
  <2> HIDE DEF files, c
  <2>2. LET m == Clients(files)[c] IN IsManifest(m) /\ m.name = c /\ c \in Known
    BY <2>1, ManifestIsTheAgents
  <2> QED
    BY <2>2 DEF files
<1> HIDE DEF clients
<1> QED
  BY <1>1, <1>2, <1>3, <1>4 DEF Fit, clients

\* A request begins a run that fits it.
LEMMA AskKeepsRuns ==
  ASSUME RunInv, NEW r \in Asked, Ask(r)
  PROVE  RunInv'
<1>1. setting' = setting
  BY DEF Ask, server
<1>2. /\ call'.request = r /\ call'.phase = (IF Accepted(r) THEN "before" ELSE "done")
      /\ call'.wrote = {} /\ call'.temp = {}
  BY DEF Ask, Idle
<1>3. Accepted(r) => Fit(r)
  BY AcceptedIsFit DEF RunInv, Ask
<1>4. Accepted(r) => Fit(r)'
  BY <1>1, <1>3 DEF Fit, Manifest
<1>5. FilesAsFound'
  BY <1>2 DEF FilesAsFound, EnforcedKeepsFiles, FilesRemoved
<1> QED
  BY <1>1, <1>2, <1>4, <1>5 DEF RunInv, Working

\* A step that leaves what the call runs alone; a process that is there at last is one.
LEMMA SameRun ==
  ASSUME RunInv, setting' = setting, call'.request = call.request,
         call'.phase = call.phase \/ (call.phase = "launching" /\ call'.phase = "running"),
         call'.temp = call.temp, call'.command = call.command, call'.outcome = call.outcome,
         EnforcedKeepsFiles'
  PROVE  RunInv'
<1>1. Fit(call.request) => Fit(call.request)'
  BY DEF Fit, Manifest
<1>2. Manifest(call.request)' = Manifest(call.request)
  BY DEF Manifest
<1>3. FilesRemoved'
  BY <1>2 DEF RunInv, FilesAsFound, FilesRemoved
<1>4. /\ Command(Manifest(call.request), call.request)' = Command(Manifest(call.request), call.request)
      /\ Spared(call.request)' = Spared(call.request)
  BY <1>2 DEF Spared
<1> QED
  BY <1>1, <1>3, <1>4 DEF RunInv, FilesAsFound, Working

\* The walks leave the run alone.
LEMMA WalkingKeepsRuns ==
  ASSUME WalkInv, RunInv, Scan \/ Unreadable \/ CutShort
  PROVE  RunInv'
<1>1. PICK walk, at : call' = Recorded(walk, at)
  BY DEF Scan, Unreadable, CutShort
<1>2. /\ call'.request = call.request /\ call'.phase = call.phase /\ call'.wrote = call.wrote
      /\ call'.temp = call.temp /\ call'.command = call.command /\ call'.outcome = call.outcome
  BY <1>1 DEF Recorded, WalkInv, Shaped, Idle
<1>3. setting' = setting
  BY DEF Scan, Unreadable, CutShort, server
<1>4. EnforcedKeepsFiles'
  BY <1>2, <1>3 DEF RunInv, FilesAsFound, EnforcedKeepsFiles, Cli
<1> QED
  BY <1>2, <1>3, <1>4, SameRun

\* A process that is there at last is the same run.
LEMMA LaunchedKeepsRuns ==
  ASSUME WalkInv, RunInv, Launched
  PROVE  RunInv'
<1>1. /\ call'.request = call.request /\ call.phase = "launching" /\ call'.phase = "running"
      /\ call'.wrote = call.wrote /\ call'.temp = call.temp /\ call'.command = call.command
      /\ call'.outcome = call.outcome
  BY DEF Launched, WalkInv, Shaped, Idle
<1>2. setting' = setting
  BY DEF Launched, server
<1>3. EnforcedKeepsFiles'
  BY <1>1, <1>2 DEF RunInv, FilesAsFound, EnforcedKeepsFiles, Cli
<1> QED
  BY <1>1, <1>2, <1>3, SameRun

\* A run starts with the command of its request, and its temporary files.
LEMMA StartKeepsRuns ==
  ASSUME WalkInv, RunInv, Start
  PROVE  RunInv'
<1>1. setting' = setting /\ call.phase = "before" /\ call.wrote = {} /\ Fit(call.request)
  BY DEF Start, Ready, server, WalkInv, FirstWalk, RunInv
<1>2. /\ call'.request = call.request /\ call'.phase = "launching" /\ call'.wrote = call.wrote
      /\ call'.command = Command(Manifest(call.request), call.request)
      /\ call'.temp = TempFiles(Manifest(call.request), call.request.images)
  BY DEF Start, WalkInv, Shaped, Idle
<1>3. Fit(call.request)' /\ Command(Manifest(call.request), call.request)' = Command(Manifest(call.request), call.request)
  BY <1>1, <1>2 DEF Fit, Manifest
<1>4. call'.temp \subseteq {"message", "attachment", "output"}
  BY <1>2 DEF TempFiles
<1>5. FilesAsFound'
  BY <1>1, <1>2 DEF FilesAsFound, EnforcedKeepsFiles, FilesRemoved
<1> QED
  BY <1>1, <1>2, <1>3, <1>4, <1>5 DEF RunInv, Working

\* The files that a run may have are those made for it.
LEMMA FilesOfARun ==
  ASSUME RunInv, call.phase \in {"before", "launching", "running", "after"}
  PROVE  call.temp \subseteq {"message", "attachment", "output"}
BY DEF RunInv, Spared, Working

\* However a call ends without an answer, only the output file can be left, or, after a cancel in
\* the launch, the file with the prompt.
LEMMA EndKeepsRuns ==
  ASSUME WalkInv, RunInv, NoExecutable \/ LaunchFails \/ Abandon \/ TimesOut \/ Cancel
  PROVE  RunInv'
<1>1. setting' = setting
  BY DEF NoExecutable, LaunchFails, Abandon, TimesOut, Cancel, server
<1>2. call.phase \in {"before", "launching", "running", "after"}
  BY DEF NoExecutable, LaunchFails, Abandon, TimesOut, Cancel, Ready
<1>3. /\ call'.request = call.request /\ call'.phase = "done" /\ call'.wrote = call.wrote
      /\ call'.outcome \in {"failed", "cancelled", "abandoned"}
      /\ call'.outcome # "abandoned" => call'.temp = Released(call.temp)
      /\ call'.outcome = "abandoned" => call'.temp = call.temp \ {"attachment"}
  <2>1. CASE NoExecutable
    <3>1. call'.temp = call.temp /\ call.temp = {} /\ Released({}) = {}
      BY <2>1 DEF NoExecutable, Ready, Failed, Released, WalkInv, Shaped, Idle, RunInv
    <3> QED
      BY <2>1, <3>1 DEF NoExecutable, Failed, WalkInv, Shaped, Idle
  <2>2. CASE LaunchFails
    BY <2>2 DEF LaunchFails, Failed, WalkInv, Shaped, Idle
  <2>3. CASE Abandon
    BY <2>3 DEF Abandon, Failed, WalkInv, Shaped, Idle
  <2>4. CASE TimesOut
    BY <2>4 DEF TimesOut, Failed, WalkInv, Shaped, Idle
  <2>5. CASE Cancel
    BY <2>5 DEF Cancel, Failed, WalkInv, Shaped, Idle
  <2> QED
    BY <2>1, <2>2, <2>3, <2>4, <2>5
<1>4. call.temp \subseteq {"message", "attachment", "output"}
  BY <1>2, FilesOfARun
<1>5. FilesRemoved'
  <2>1. call'.outcome # "answered"
    BY <1>3
  <2>2. ASSUME NEW f \in call'.temp
        PROVE  (f = "message" /\ call'.outcome = "abandoned") \/ f = "output"
    BY <1>3, <1>4, <2>2 DEF Released
  <2> QED
    BY <2>1, <2>2 DEF FilesRemoved
<1>6. EnforcedKeepsFiles'
  <2>1. call.phase = "before" => call.wrote = {}
    BY DEF WalkInv, FirstWalk
  <2> QED
    BY <1>1, <1>2, <1>3, <2>1 DEF RunInv, FilesAsFound, EnforcedKeepsFiles, Cli
<1> QED
  BY <1>1, <1>3, <1>5, <1>6 DEF RunInv, FilesAsFound, Working

\* A run that exits takes its temporary files away, but for an output file that is to stay.
LEMMA ExitKeepsRuns ==
  ASSUME WalkInv, RunInv, NEW output, Exit(output)
  PROVE  RunInv'
<1>1. setting' = setting /\ call.phase = "running" /\ Fit(call.request)
  BY DEF Exit, server, RunInv
<1>2. /\ call'.request = call.request /\ call'.phase \in {"after", "done"} /\ call'.wrote = call.wrote
      /\ call'.temp = Released(call.temp) \ (IF Manifest(call.request).cleanup THEN {"output"} ELSE {})
      /\ call'.phase = "done" => call'.outcome = "failed"
  BY DEF Exit, WalkInv, Shaped, Idle
<1>3. Fit(call.request)' /\ Spared(call.request)' = Spared(call.request)
  BY <1>1, <1>2 DEF Fit, Manifest, Spared
<1>4. call'.temp \subseteq Spared(call.request)
  <2>1. call.temp \subseteq {"message", "attachment", "output"}
    BY <1>1, FilesOfARun
  <2> QED
    BY <1>2, <2>1 DEF Spared, Released
<1>5. FilesRemoved'
  <2>1. call'.temp \subseteq {"output"}
    BY <1>4 DEF Spared
  <2> QED
    BY <1>2, <2>1 DEF FilesRemoved
<1>6. EnforcedKeepsFiles'
  BY <1>1, <1>2 DEF RunInv, FilesAsFound, EnforcedKeepsFiles, Cli
<1> QED
  BY <1>1, <1>2, <1>3, <1>4, <1>5, <1>6 DEF RunInv, FilesAsFound, Working

\* The answer of a run leaves nothing behind.
LEMMA RespondKeepsRuns ==
  ASSUME WalkInv, RunInv, NEW size, Respond(size)
  PROVE  RunInv'
<1>1. setting' = setting /\ call.phase = "after"
  BY DEF Respond, server
<1>2. /\ call'.request = call.request /\ call'.phase = "done" /\ call'.wrote = call.wrote
      /\ call'.temp = call.temp
  BY DEF Respond, WalkInv, Shaped, Idle
<1>3. FilesRemoved'
  <2>1. Manifest(call.request)' = Manifest(call.request)
    BY <1>1, <1>2 DEF Manifest
  <2>2. ASSUME NEW f \in call'.temp PROVE f = "output" /\ ~Manifest(call.request).cleanup
    BY <1>1, <1>2, <2>2 DEF RunInv, Spared
  <2> QED
    BY <1>2, <2>1, <2>2 DEF FilesRemoved
<1>4. EnforcedKeepsFiles'
  BY <1>1, <1>2 DEF RunInv, FilesAsFound, EnforcedKeepsFiles, Cli
<1> QED
  BY <1>1, <1>2, <1>3, <1>4 DEF RunInv, FilesAsFound, Working

\* A call that is over holds nothing.
LEMMA IdleRuns ==
  ASSUME RunInv, setting' = setting, call' = Idle
  PROVE  RunInv'
<1>1. call'.phase = "idle"
  BY DEF Idle
<1> QED
  BY <1>1 DEF RunInv, FilesAsFound, EnforcedKeepsFiles, FilesRemoved, Working

\* What others do leaves the run alone.
LEMMA OthersKeepRuns ==
  ASSUME WalkInv, RunInv, NEW p, NEW stamp, OtherWrites(p, stamp)
  PROVE  RunInv'
<1>1. /\ call'.request = call.request /\ call'.phase = call.phase /\ call'.wrote = call.wrote
      /\ call'.temp = call.temp /\ call'.command = call.command /\ call'.outcome = call.outcome
  BY DEF OtherWrites, WalkInv, Shaped, Idle
<1>2. setting' = setting
  BY DEF OtherWrites, server
<1>3. EnforcedKeepsFiles'
  BY <1>1, <1>2 DEF RunInv, FilesAsFound, EnforcedKeepsFiles, Cli
<1> QED
  BY <1>1, <1>2, <1>3, SameRun

\* The agent writes as far as its command lets it.
LEMMA AgentKeepsRuns ==
  ASSUME WalkInv, RunInv, NEW p, NEW stamp, AgentWrites(p, stamp)
  PROVE  RunInv'
<1>1. /\ call'.request = call.request /\ call'.phase = call.phase /\ call'.wrote = call.wrote \cup {p}
      /\ call'.temp = call.temp /\ call'.command = call.command /\ call'.outcome = call.outcome
  BY DEF AgentWrites, WalkInv, Shaped, Idle
<1>2. setting' = setting /\ Working /\ Fit(call.request)
  BY DEF AgentWrites, server, RunInv, Working
<1>3. ASSUME call.request.readOnly, ReadOnlyArgs[Cli] # <<>> PROVE Belongs(Cli, p)
  <2> DEFINE m == Manifest(call.request)
             r == call.request
  <2>1. /\ IsManifest(m) /\ m.name = Cli /\ m.name \in Known /\ r.role \in DOMAIN m.roles
        /\ r.model \in STRING
    BY <1>2 DEF Fit, Cli
  <2>2. call.command = Argv(m, r.role, r.model, TRUE, r.images)
    <3>1. r.readOnly = TRUE => Command(m, r) = Argv(m, r.role, r.model, TRUE, r.images)
      BY DEF Command
    <3>2. call.command = Command(m, r)
      BY <1>2 DEF RunInv
    <3>3. Argv(m, r.role, r.model, r.readOnly, r.images) = Argv(m, r.role, r.model, TRUE, r.images)
      BY <1>3 DEF Argv
    <3> QED
      BY <3>2, <3>3 DEF Command
  <2>3. Restricted(m.name, Argv(m, r.role, r.model, TRUE, r.images))
    <3> HIDE DEF m, r
    <3> QED
      BY <1>3, <2>1, CommandRestricts
  <2> QED
    BY <1>3, <2>1, <2>2, <2>3 DEF AgentWrites
<1>4. EnforcedKeepsFiles'
  <2>1. Cli' = Cli
    BY <1>1, <1>2 DEF Cli
  <2>2. ASSUME call.request.readOnly, ReadOnlyArgs[Cli] # <<>>, NEW q \in call.wrote PROVE Belongs(Cli, q)
    BY <1>2, <2>2 DEF RunInv, FilesAsFound, EnforcedKeepsFiles, Working
  <2>3. \A q : Belongs(Cli, q)' = Belongs(Cli, q)
    BY <2>1 DEF Belongs
  <2> QED
    BY <1>1, <1>3, <2>1, <2>2, <2>3 DEF EnforcedKeepsFiles
<1> QED
  BY <1>1, <1>2, <1>4, SameRun

\* The invariant of the runs, throughout.
LEMMA RunsStayInBounds == Spec => []RunInv
<1>1. Init => RunInv
  BY DEF Init, RunInv, Idle, FilesAsFound, EnforcedKeepsFiles, FilesRemoved, Working
<1>2. WalkInv /\ RunInv /\ [Next]_vars => RunInv'
  <2> SUFFICES ASSUME WalkInv, RunInv, [Next]_vars PROVE RunInv'
    OBVIOUS
  <2>1. ASSUME NEW r \in Asked, Ask(r) PROVE RunInv'
    BY <2>1, AskKeepsRuns
  <2>2. CASE Scan \/ Unreadable \/ CutShort
    BY <2>2, WalkingKeepsRuns
  <2>3. CASE Start \/ Launched
    BY <2>3, StartKeepsRuns, LaunchedKeepsRuns
  <2>4. CASE NoExecutable \/ LaunchFails \/ Abandon \/ TimesOut \/ Cancel
    BY <2>4, EndKeepsRuns
  <2>5. CASE Nest \/ Answered
    BY <2>5, IdleRuns DEF Nest, Answered, server
  <2>6. ASSUME NEW output, Exit(output) PROVE RunInv'
    BY <2>6, ExitKeepsRuns
  <2>7. ASSUME NEW size, Respond(size) PROVE RunInv'
    BY <2>7, RespondKeepsRuns
  <2>8. ASSUME NEW p, NEW stamp, AgentWrites(p, stamp) PROVE RunInv'
    BY <2>8, AgentKeepsRuns
  <2>9. ASSUME NEW p, NEW stamp, OtherWrites(p, stamp) PROVE RunInv'
    BY <2>9, OthersKeepRuns
  <2>10. CASE UNCHANGED vars
    <3>1. call' = call /\ setting' = setting
      BY <2>10 DEF vars
    <3>2. EnforcedKeepsFiles'
      BY <3>1 DEF RunInv, FilesAsFound, EnforcedKeepsFiles, Cli, Belongs
    <3> QED
      BY <3>1, <3>2, SameRun
  <2> QED
    BY <2>1, <2>2, <2>3, <2>4, <2>5, <2>6, <2>7, <2>8, <2>9, <2>10 DEF Next
<1> QED
  BY <1>1, <1>2, WalksStayInOrder, PTL DEF Spec

\* Whatever the manifests, the roles and the requests are, a read-only run of an agent that is
\* reported as enforced writes nothing but its own files (apply_read_only and the command it
\* makes), and no file made for an agent outlives its call but two: the file with the prompt when
\* the call is cancelled while the process is being created, and the output file of a run that did
\* not finish or whose manifest says to keep it (the clean-up of run_cli).
THEOREM CallsLeaveNothing == Spec => []FilesAsFound
<1>1. RunInv => FilesAsFound
  BY DEF RunInv
<1> QED
  BY <1>1, RunsStayInBounds, PTL

-----------------------------------------------------------------------------
(* Types.                                                                  *)

\* What TypeOK needs beside WalkInv: an agent is running only below the last one that may be
\* started, and a call is for one of the requests that its server may get.
Counted ==
    /\ setting \in Settings
    /\ depth \in Nat /\ chain \in 0 .. MaxChain
    /\ clock <= MaxEdits + 1
    /\ Working => chain < MaxChain
    /\ call.phase # "idle" => call.request \in Asked

\* A step of a call: it begins a run only below the last agent, and it keeps the request.
LEMMA CallsAreCounted ==
  ASSUME Counted, UNCHANGED server, clock' <= MaxEdits + 1,
         Working' => Working \/ chain < MaxChain,
         call'.phase # "idle" => call.phase # "idle" /\ call'.request = call.request
  PROVE  Counted'
  BY DEF Counted, server, Asked

\* The bounds are kept, and the requests are those of the server.
LEMMA RunsAreCounted == Spec => []Counted
<1>1. Init => Counted
  BY BoundAssumption DEF Init, Counted, Idle, Working
<1>2. WalkInv /\ Counted /\ [Next]_vars => Counted'
  <2> SUFFICES ASSUME WalkInv, Counted, [Next]_vars PROVE Counted'
    OBVIOUS
  <2>1. ASSUME NEW r \in Asked, Ask(r) PROVE Counted'
    BY <2>1 DEF Ask, Idle, Counted, server, directory, Asked, Working
  <2>2. CASE Scan \/ Unreadable \/ CutShort
    <3>1. PICK walk, at : call' = Recorded(walk, at)
      BY <2>2 DEF Scan, Unreadable, CutShort
    <3>2. call'.phase = call.phase /\ call'.request = call.request
      BY <3>1 DEF Recorded
    <3>3. (Working' => Working) /\ (call'.phase # "idle" => call.phase # "idle")
      BY <3>2 DEF Working
    <3> QED
      BY <2>2, <3>2, <3>3, CallsAreCounted DEF Scan, Unreadable, CutShort, Counted, directory
  <2>3. CASE Start
    <3>1. call'.request = call.request /\ call.phase # "idle" /\ chain < MaxChain
      BY <2>3 DEF Start, Ready
    <3> QED
      BY <2>3, <3>1, CallsAreCounted DEF Start, Counted, directory
  <2>4. CASE NoExecutable \/ LaunchFails \/ Abandon \/ TimesOut \/ Cancel
    <3>1. /\ call'.request = call.request /\ call.phase # "idle" /\ call'.phase = "done"
      BY <2>4 DEF NoExecutable, LaunchFails, Abandon, TimesOut, Cancel, Failed, Ready, WalkInv, Shaped, Idle
    <3>2. ~Working'
      BY <3>1 DEF Working
    <3> QED
      BY <2>4, <3>1, <3>2, CallsAreCounted
      DEF NoExecutable, LaunchFails, Abandon, TimesOut, Cancel, Counted, directory
  <2>5. CASE Answered
    <3>1. call'.phase = "idle" /\ clock' = 1
      BY <2>5 DEF Answered, Idle, Restored
    <3>2. ~Working'
      BY <3>1 DEF Working
    <3> QED
      BY <2>5, <3>1, <3>2, BoundAssumption, CallsAreCounted DEF Answered
  <2>6. CASE Nest
    <3>1. call'.phase = "idle" /\ clock' = 1 /\ chain < MaxChain
      BY <2>6 DEF Nest, Idle, Restored, Counted
    <3>2. ~Working'
      BY <3>1 DEF Working
    <3> QED
      BY <2>6, <3>1, <3>2, BoundAssumption DEF Nest, Counted, ChildDepth
  <2>7. ASSUME NEW output, Exit(output) PROVE Counted'
    <3>1. call'.request = call.request /\ call.phase = "running" /\ call'.phase \in {"after", "done"}
      BY <2>7 DEF Exit
    <3>2. ~Working'
      BY <3>1 DEF Working
    <3> QED
      BY <2>7, <3>1, <3>2, CallsAreCounted DEF Exit, Counted, directory
  <2>8. ASSUME NEW size, Respond(size) PROVE Counted'
    <3>1. call'.request = call.request /\ call.phase = "after" /\ call'.phase = "done"
      BY <2>8 DEF Respond
    <3>2. ~Working'
      BY <3>1 DEF Working
    <3> QED
      BY <2>8, <3>1, <3>2, CallsAreCounted DEF Respond, Counted, directory
  <2>9. ASSUME NEW p, NEW stamp, AgentWrites(p, stamp) \/ OtherWrites(p, stamp) PROVE Counted'
    <3>1. call'.request = call.request /\ call'.phase = call.phase
      BY <2>9, IdleFields DEF AgentWrites, OtherWrites, WalkInv, Shaped
    <3>2. clock' <= MaxEdits + 1
      BY <2>9, BoundAssumption DEF AgentWrites, OtherWrites, Writes, WalkInv, Stamped
    <3>3. (Working' => Working) /\ (call'.phase # "idle" => call.phase # "idle")
      BY <3>1 DEF Working
    <3> QED
      BY <2>9, <3>1, <3>2, <3>3, CallsAreCounted DEF AgentWrites, OtherWrites
  <2>10. CASE Launched
    <3>1. call'.request = call.request /\ call.phase = "launching"
      BY <2>10 DEF Launched
    <3>2. Working
      BY <3>1 DEF Working
    <3> QED
      BY <2>10, <3>1, <3>2, CallsAreCounted DEF Launched, Counted, directory
  <2>11. CASE UNCHANGED vars
    <3>1. Working' => Working
      BY <2>11 DEF vars, Working
    <3> QED
      BY <2>11, <3>1, CallsAreCounted DEF vars, server, Counted
  <2> QED
    BY <2>1, <2>2, <2>3, <2>4, <2>5, <2>6, <2>7, <2>8, <2>9, <2>10, <2>11 DEF Next
<1> QED
  BY <1>1, <1>2, WalksStayInOrder, PTL DEF Spec

\* A call, the server it came to and the directory have their types, however deep agents call
\* agents and whoever writes to the files meanwhile.
THEOREM TypeCorrect == Spec => []TypeOK
<1>1. ASSUME WalkInv, Counted PROVE TypeOK
  <2>1. clock \in Nat /\ clock <= MaxEdits + 1
    BY <1>1 DEF WalkInv, Stamped, Counted
  <2>2. disk \in [Paths -> 0 .. MaxEdits + 1]
    <3>1. 0 .. clock \subseteq 0 .. MaxEdits + 1
      BY <2>1, BoundAssumption
    <3> QED
      BY <1>1, <3>1 DEF WalkInv, Stamped
  <2>3. ASSUME NEW walk \in {call.pre, call.post}
        PROVE  /\ DOMAIN walk.seen \cup walk.missed \subseteq Paths
               /\ \A p \in DOMAIN walk.seen : walk.seen[p] \in 1 .. MaxEdits + 1
    <3>1. 1 .. clock \subseteq 1 .. MaxEdits + 1
      BY <2>1, BoundAssumption
    <3> QED
      BY <1>1, <3>1 DEF WalkInv, Stamped, Shaped, IsWalk
  <2> QED
    BY <1>1, <2>2, <2>3 DEF TypeOK, Counted, WalkInv, Shaped
<1> QED
  BY <1>1, RunsAreCounted, WalksStayInOrder, PTL

-----------------------------------------------------------------------------
(* The model.                                                              *)

\* What a loop over tokens has kept is free of what the tokens so far are free of, and it skips
\* the next one only after a flag.
LEMMA StrippingIsFree ==
  ASSUME NEW command \in Seq(Tokens), NEW bare, NEW valued, NEW n \in 0 .. Len(command), NEW X,
         \A i \in 1 .. n : command[i] \notin X
  PROVE  LET a == Stripping(command, bare, valued)[n] IN
         a \in Accs /\ Free(a.kept, X) /\ (a.skip => n \in 1 .. n /\ command[n] \in valued)
<1> DEFINE after == Stripping(command, bare, valued)
           T == {i \in 0 .. n : after[i] \in Accs /\ Free(after[i].kept, X)
                                /\ (after[i].skip => i \in 1 .. n /\ command[i] \in valued)}
<1>1. /\ Len(command) \in Nat /\ n \in Nat /\ \A i \in 1 .. n : command[i] \in Tokens /\ i \in 1 .. Len(command)
  BY LenProperties, ElementOfSeq
<1>2. /\ after[0] = [kept |-> <<>>, skip |-> FALSE]
      /\ \A i \in 1 .. n : after[i] = AfterToken(after[i - 1], command[i], bare, valued)
  BY <1>1, StrippingStrips
<1> HIDE DEF after
<1>3. 0 \in T
  <2>1. <<>> \in Seq(Tokens) /\ Len(<<>>) = 0
    BY EmptySeq
  <2>2. after[0].kept = <<>> /\ after[0] \in Accs /\ ~after[0].skip
    BY <1>2, <2>1 DEF Accs
  <2> QED
    BY <1>1, <2>1, <2>2 DEF Free
<1>4. ASSUME NEW i \in 1 .. n, i - 1 \in T PROVE i \in T
  <2> DEFINE a == after[i - 1]
             b == after[i]
             token == command[i]
  <2>1. a \in Accs /\ Free(a.kept, X) /\ token \in Tokens /\ token \notin X
    BY <1>1, <1>4
  <2>2. b = AfterToken(a, token, bare, valued)
    BY <1>2
  <2>3. b \in Accs /\ (b.skip => token \in valued) /\ (b.kept = a.kept \/ b.kept = Append(a.kept, token))
    <3> HIDE DEF a, b, token
    <3> QED
      BY <2>1, <2>2, AfterTokenKeeps
  <2>4. Free(b.kept, X)
    <3>1. a.kept \in Seq(Tokens)
      BY <2>1 DEF Accs
    <3> DEFINE k == a.kept
    <3> HIDE DEF a, b, token, k
    <3>2. k \in Seq(Tokens) /\ Free(k, X) /\ (b.kept = k \/ b.kept = Append(k, token))
      BY <2>1, <2>3, <3>1 DEF k
    <3> QED
      BY <2>1, <3>2, FreeAppend
  <2> QED
    BY <2>3, <2>4
<1>5. n \in T
  <2> HIDE DEF T
  <2>1. \A i \in 1 .. n : i - 1 \in T => i \in T
    BY <1>4
  <2> QED
    <3>1. n \in Nat /\ 0 \in T
      BY <1>1, <1>3
    <3>2. \A i \in 0 .. n : i \in T
      BY <2>1, <3>1, FromEachToTheNext
    <3> QED
      BY <3>1, <3>2
<1> QED
  BY <1>5 DEF after

\* The last token is not one of the given ones.
NotLast(s, flags) == Len(s) > 0 => s[Len(s)] \notin flags

\* Of a flag and its value that nothing strips both are kept, behind what is kept of the rest.
KeptBefore(s, pair, bare, valued) == Stripping(s \o pair, bare, valued)[Len(s)].kept
KeptWith(s, pair, bare, valued) == KeptBefore(s, pair, bare, valued) \o pair

\* A flag and its value that nothing strips stay together behind what is kept of the rest.
LEMMA PairIsKept ==
  ASSUME NEW s \in Seq(Tokens), NEW bare, NEW valued, NEW X, Free(s, X),
         NotLast(s, valued),
         NEW pair \in Seq(Tokens), Len(pair) = 2, Free(pair, bare), Free(pair, valued)
  PROVE  /\ KeptBefore(s, pair, bare, valued) \in Seq(Tokens) /\ Free(KeptBefore(s, pair, bare, valued), X)
         /\ Without(s \o pair, bare, valued) = KeptWith(s, pair, bare, valued)
<1> DEFINE command == s \o pair
           n == Len(s)
           after == Stripping(command, bare, valued)
           flag == pair[1]
           value == pair[2]
<1>1. /\ flag \in Tokens /\ value \in Tokens /\ flag \notin bare \cup valued /\ value \notin bare \cup valued
  <2>1. 1 \in 1 .. Len(pair) /\ 2 \in 1 .. Len(pair)
    OBVIOUS
  <2> QED
    BY <2>1, ElementOfSeq DEF Free
<1>2. /\ command \in Seq(Tokens) /\ Len(command) = n + 2 /\ n \in Nat
      /\ command[n + 1] = flag /\ command[n + 2] = value
      /\ \A i \in 1 .. n : command[i] = s[i]
  <2>1. /\ command \in Seq(Tokens) /\ Len(command) = Len(s) + Len(pair)
        /\ \A i \in 1 .. Len(s) + Len(pair) :
              command[i] = IF i <= Len(s) THEN s[i] ELSE pair[i - Len(s)]
    BY ConcatProperties
  <2>2. Len(s) \in Nat
    BY LenProperties
  <2> HIDE DEF command
  <2> QED
    BY <2>1, <2>2
<1>3. \A i \in 1 .. Len(command) : after[i] = AfterToken(after[i - 1], command[i], bare, valued)
  <2> HIDE DEF command
  <2> QED
    BY <1>2, StrippingStrips
<1> DEFINE a == after[n]
           k == a.kept
<1>4. a \in Accs /\ Free(k, X) /\ ~a.skip
  <2>1. \A i \in 1 .. n : command[i] \notin X
    BY <1>2 DEF Free
  <2>2. n \in 0 .. Len(command)
    BY <1>2
  <2> HIDE DEF command, n
  <2>3. a \in Accs /\ Free(k, X) /\ (a.skip => n \in 1 .. n /\ command[n] \in valued)
    BY <1>2, <2>1, <2>2, StrippingIsFree
  <2> QED
    BY <1>2, <2>3 DEF n, NotLast
<1>5. k \in Seq(Tokens)
  BY <1>4 DEF Accs
<1>6. after[n + 1] = AfterToken(a, flag, bare, valued) /\ after[n + 2] = AfterToken(after[n + 1], value, bare, valued)
  <2>1. n + 1 \in 1 .. Len(command) /\ n + 2 \in 1 .. Len(command) /\ (n + 1) - 1 = n /\ (n + 2) - 1 = n + 1
    BY <1>2
  <2> HIDE DEF after, command, n, flag, value
  <2> QED
    BY <1>2, <1>3, <2>1
<1>7. Without(command, bare, valued) = after[n + 2].kept
  BY <1>2 DEF Without
<1> DEFINE b == after[n + 1]
           d == after[n + 2]
<1> HIDE DEF after, command, n, a, flag, value
<1>8. b \in Accs /\ ~b.skip /\ b.kept = Append(k, flag)
  <2>1. /\ b = AfterToken(a, flag, bare, valued) /\ a \in Accs /\ ~a.skip /\ k = a.kept
        /\ flag \in Tokens /\ flag \notin bare \cup valued
    BY <1>1, <1>4, <1>6
  <2> HIDE DEF b, k
  <2> QED
    BY <2>1, AfterTokenKeeps
<1>9. d.kept = Append(Append(k, flag), value)
  <2>1. d = AfterToken(b, value, bare, valued)
    BY <1>6
  <2> HIDE DEF b, d, k
  <2>2. b \in Accs /\ ~b.skip /\ value \in Tokens /\ value \notin bare /\ value \notin valued
    BY <1>1, <1>8
  <2>3. \/ b.skip /\ d.kept = b.kept /\ ~d.skip
        \/ ~b.skip /\ value \in valued /\ d.kept = b.kept /\ d.skip
        \/ ~b.skip /\ value \in bare \ valued /\ d.kept = b.kept /\ ~d.skip
        \/ ~b.skip /\ value \notin bare \cup valued /\ d.kept = Append(b.kept, value) /\ ~d.skip
    BY <2>1, <2>2, AfterTokenKeeps
  <2>4. d.kept = Append(b.kept, value)
    BY <2>2, <2>3
  <2> QED
    BY <1>8, <2>4
<1>10. Append(Append(k, flag), value) = k \o pair
  <2>1. pair = <<flag, value>>
    BY DEF flag, value
  <2>2. Append(Append(k, flag), value) = k \o <<flag, value>>
    <3>1. flag \in Tokens /\ value \in Tokens /\ k \in Seq(Tokens)
      BY <1>1, <1>5
    <3> HIDE DEF k, flag, value
    <3> QED
      BY <3>1, TwoAppended
  <2> QED
    BY <2>1, <2>2
<1>11. k = KeptBefore(s, pair, bare, valued)
  BY DEF KeptBefore, a, n, after, command
<1> HIDE DEF k
<1> QED
  BY <1>4, <1>5, <1>7, <1>9, <1>10, <1>11 DEF command, KeptWith

\* A command with one model flag, its value behind it, names one model.
LEMMA OnePair ==
  ASSUME NEW c, NEW s \in Seq(Tokens), NEW t \in Seq(Tokens), NEW flag \in Tokens, NEW value \in Tokens,
         Free(s, ModelAliases[c] \cup InlineModels(c)), Free(t, ModelAliases[c] \cup InlineModels(c)),
         flag \in ModelAliases[c] \ InlineModels(c), value \notin ModelAliases[c] \cup InlineModels(c)
  PROVE  Range(ModelsNamed(c, (s \o <<flag, value>>) \o t)) = {value}
<1> DEFINE X == ModelAliases[c] \cup InlineModels(c)
           u == s \o <<flag, value>>
           command == u \o t
           k == Len(s) + 1
<1>1. /\ <<flag, value>> \in Seq(Tokens) /\ Len(<<flag, value>>) = 2
      /\ <<flag, value>>[1] = flag /\ <<flag, value>>[2] = value
  BY Pair
<1>2. /\ u \in Seq(Tokens) /\ Len(s) \in Nat /\ Len(t) \in Nat /\ Len(u) = Len(s) + 2
      /\ u[k] = flag /\ u[k + 1] = value /\ \A i \in 1 .. Len(s) : u[i] = s[i]
  <2>1. /\ u \in Seq(Tokens) /\ Len(u) = Len(s) + Len(<<flag, value>>)
        /\ \A i \in 1 .. Len(s) + Len(<<flag, value>>) :
              u[i] = IF i <= Len(s) THEN s[i] ELSE <<flag, value>>[i - Len(s)]
    BY <1>1, ConcatProperties
  <2>2. Len(s) \in Nat /\ Len(t) \in Nat
    BY LenProperties
  <2> HIDE DEF u
  <2> QED
    BY <1>1, <2>1, <2>2
<1>3. /\ command \in Seq(Tokens) /\ Len(command) = Len(u) + Len(t)
      /\ \A i \in 1 .. Len(u) + Len(t) : command[i] = IF i <= Len(u) THEN u[i] ELSE t[i - Len(u)]
  <2>1. u \in Seq(Tokens)
    BY <1>2
  <2> HIDE DEF u
  <2> QED
    BY <2>1, ConcatProperties
<1>4. DOMAIN command = 1 .. Len(command)
  <2> HIDE DEF command
  <2> QED
    BY <1>3, LenProperties
<1> HIDE DEF command, u
<1>5. k \in DOMAIN command /\ command[k] = flag /\ command[k + 1] = value /\ k < Len(command)
  BY <1>2, <1>3, <1>4
<1>6. ASSUME NEW i \in DOMAIN command, command[i] \in X PROVE i = k
  <2>1. i \in 1 .. Len(u) + Len(t)
    BY <1>3, <1>4
  <2>2. CASE i \in 1 .. Len(s)
    <3>1. command[i] = s[i]
      BY <1>2, <1>3, <2>1, <2>2
    <3> QED
      BY <1>6, <2>2, <3>1 DEF Free
  <2>3. CASE i = k + 1
    BY <1>5, <1>6, <2>3
  <2>4. CASE i > k + 1
    <3>1. i - Len(u) \in 1 .. Len(t) /\ command[i] = t[i - Len(u)]
      BY <1>2, <1>3, <2>1, <2>4
    <3> QED
      BY <1>6, <3>1 DEF Free
  <2> QED
    BY <1>2, <2>1, <2>2, <2>3, <2>4
<1> DEFINE named == ModelsNamed(c, command)
<1>7. DOMAIN named = {k}
  <2>1. DOMAIN named = {i \in DOMAIN command : command[i] \in X}
    BY DEF ModelsNamed
  <2> QED
    BY <1>5, <1>6, <2>1
<1>8. named[k] = value
  <2>1. k \in {i \in DOMAIN command : command[i] \in X}
    BY <1>5
  <2>2. command[k] \notin InlineModels(c)
    BY <1>5
  <2> HIDE DEF k
  <2> QED
    BY <1>5, <2>1, <2>2 DEF ModelsNamed
<1>9. Range(named) = {value}
  <2> HIDE DEF named, k
  <2> QED
    BY <1>7, <1>8 DEF Range
<1> QED
  BY <1>9 DEF command, u

\* The model flag of an agent is one of its spellings, no flag that a read-only call removes, and
\* no other token that clink adds.
LEMMA ModelTables ==
  ASSUME NEW c \in Known
  PROVE  /\ ModelFlag[c] \in ModelAliases[c]
         /\ ModelFlag[c] \notin Bypasses[c] \cup Overrides[c]
         /\ Free(ReadOnlyArgs[c], ModelAliases[c])
         /\ ModelAliases[c] \cap TailTokens = {}
<1>1. /\ ModelFlag[c] \in ModelAliases[c]
      /\ ModelFlag[c] \in {"-m", "--model", "--mode"} /\ ModelAliases[c] \subseteq {"-m", "--model", "--mode"}
  BY DEF ModelFlag, ModelAliases, Otherwise, Known
<1>2. Bypasses[c] \cup Overrides[c] \subseteq
        {"-y", "--yolo", "--dangerously-bypass-approvals-and-sandbox", "--full-auto", "--allow-all",
         "--allow-all-paths", "--allow-all-urls", "--sandbox", "-s"}
  BY RestrictingTables DEF Known
<1>3. Free(ReadOnlyArgs[c], {"-m", "--model", "--mode"})
  <2> DEFINE X == {"-m", "--model", "--mode"}
  <2>1. Free(<<>>, X)
    BY DEF Free
  <2>2. Free(<<"--approval-mode", "plan">>, X) /\ Free(<<"--sandbox", "read-only">>, X)
        /\ Free(<<"--permission-mode", "plan">>, X)
    BY FreePair
  <2>3. Free(<<"--dry-run">>, X)
    BY DEF Free
  <2>4. Free(<<"--available-tools", "view,grep,glob", "--deny-tool", "write", "--deny-tool", "shell">>, X)
    <3>1. {"--available-tools", "view,grep,glob", "--deny-tool", "write", "--deny-tool", "shell"} \cap X = {}
      OBVIOUS
    <3> HIDE DEF X
    <3> QED
      BY <3>1, FreeSextuple
  <2> HIDE DEF X
  <2> QED
    <3>1. ReadOnlyArgs[c] \in {<<>>, <<"--approval-mode", "plan">>, <<"--sandbox", "read-only">>,
                <<"--permission-mode", "plan">>, <<"--dry-run">>,
                <<"--available-tools", "view,grep,glob", "--deny-tool", "write", "--deny-tool", "shell">>}
      BY RestrictingTables DEF Known
    <3> QED
      BY <2>1, <2>2, <2>3, <2>4, <3>1 DEF X
<1>4. {"-m", "--model", "--mode"} \cap TailTokens = {}
  BY DEF TailTokens, PROMPT, TEMP
<1> QED
  BY <1>1, <1>2, <1>3, <1>4, FreeFewer

\* What is left of a line without its model flags does not end in a flag that waits for a value.
LEMMA NoFlagWaits ==
  ASSUME NEW line \in Seq(Tokens), NEW bare, NEW valued, NEW flags,
         \A i \in DOMAIN line : line[i] \in flags => i < Len(line) /\ line[i + 1] \notin bare \cup valued
  PROVE  NotLast(Without(line, bare, valued), flags)
<1> DEFINE after == Stripping(line, bare, valued)
           n == Len(line)
           Waits(i) == Len(after[i].kept) > 0 /\ after[i].kept[Len(after[i].kept)] \in flags
           T == {i \in 0 .. n : Waits(i) => i \in 1 .. n /\ ~after[i].skip /\ line[i] \in flags}
<1>1. n \in Nat /\ DOMAIN line = 1 .. n /\ \A i \in 1 .. n : line[i] \in Tokens
  BY LenProperties, ElementOfSeq
<1>2. /\ after[0] = [kept |-> <<>>, skip |-> FALSE]
      /\ \A i \in 1 .. n : after[i] = AfterToken(after[i - 1], line[i], bare, valued)
  BY StrippingStrips
<1>3. \A i \in 0 .. n : after[i] \in Accs
  BY StrippingKeeps
<1> HIDE DEF after
<1>4. 0 \in T
  <2>1. after[0].kept = <<>>
    BY <1>2
  <2> QED
    BY <1>1, <2>1
<1>5. ASSUME NEW i \in 1 .. n, i - 1 \in T PROVE i \in T
  <2> DEFINE a == after[i - 1]
             b == after[i]
             token == line[i]
  <2>1. a \in Accs /\ b = AfterToken(a, token, bare, valued) /\ token \in Tokens /\ i \in 0 .. n
    BY <1>1, <1>2, <1>3
  <2>2. \/ b.kept = a.kept /\ (a.skip \/ token \in bare \cup valued)
        \/ b.kept = Append(a.kept, token) /\ ~b.skip
    <3> HIDE DEF a, b, token
    <3> QED
      BY <2>1, AfterTokenKeeps
  <2>3. CASE b.kept = a.kept /\ (a.skip \/ token \in bare \cup valued)
    <3>1. ASSUME Waits(i - 1) PROVE FALSE
      <4>1. i - 1 \in 1 .. n /\ ~a.skip /\ line[i - 1] \in flags
        BY <1>5, <3>1
      <4>2. line[(i - 1) + 1] \notin bare \cup valued /\ (i - 1) + 1 = i
        BY <1>1, <4>1
      <4> QED
        BY <2>3, <4>1, <4>2
    <3>2. Waits(i) => Waits(i - 1)
      BY <2>3
    <3> HIDE DEF Waits
    <3> QED
      BY <2>1, <3>1, <3>2
  <2>4. CASE b.kept = Append(a.kept, token) /\ ~b.skip
    <3>1. a.kept \in Seq(Tokens)
      BY <2>1 DEF Accs
    <3>2. Len(b.kept) = Len(a.kept) + 1 /\ b.kept[Len(b.kept)] = token
      <4> DEFINE k == a.kept
      <4>1. k \in Seq(Tokens) /\ token \in Tokens /\ b.kept = Append(k, token)
        BY <2>1, <2>4, <3>1
      <4> HIDE DEF a, b, token, k
      <4>2. Len(Append(k, token)) = Len(k) + 1 /\ Append(k, token)[Len(k) + 1] = token
        BY <4>1, AppendProperties
      <4> QED
        BY <4>1, <4>2 DEF k
    <3> QED
      BY <2>1, <2>4, <3>2
  <2> QED
    BY <2>2, <2>3, <2>4
<1>6. n \in T
  <2> HIDE DEF T
  <2>1. \A i \in 1 .. n : i - 1 \in T => i \in T
    BY <1>5
  <2>2. \A i \in 0 .. n : i \in T
    BY <1>1, <1>4, <2>1, FromEachToTheNext
  <2> QED
    BY <1>1, <2>2
<1>7. ~Waits(n)
  <2>1. Waits(n) => n \in DOMAIN line /\ line[n] \in flags
    BY <1>1, <1>6
  <2> HIDE DEF Waits
  <2> QED
    BY <1>1, <2>1
<1> QED
  BY <1>7 DEF NotLast, Without, after

\* The command of a run that was asked to use a model names it, and no other.
LEMMA CommandNamesTheModel ==
  ASSUME NEW m, IsManifest(m), m.name \in Known, NEW role \in DOMAIN m.roles, ValuesFollow(m, role),
         NEW model \in STRING, model \notin FlagLike, model # NONE, NEW readOnly, NEW images
  PROVE  Range(ModelsNamed(m.name, Argv(m, role, model, readOnly, images))) = {model}
<1> DEFINE c == m.name
           X == ModelAliases[c] \cup InlineModels(c)
           line == Configured(m, role)
           s == StripModelFlags(c, line)
           flag == ModelFlag[c]
           built == s \o <<flag, model>>
           r == ReadOnlyArgs[c]
           o == OutputArgs(m)
           t == TransportArgs(c, images)
           last == o \o t
<1>1. line \in Seq(Tokens)
  BY ConfiguredIsCommand
<1>2. s \in Seq(Tokens) /\ Free(s, X)
  <2> DEFINE bare == InlineModels(c)
             valued == ModelAliases[c]
  <2> HIDE DEF line, bare, valued
  <2>1. Without(line, bare, valued) \in Seq(Tokens) /\ Free(Without(line, bare, valued), bare \cup valued)
    BY <1>1, WithoutFree
  <2>2. bare \cup valued = X
    BY DEF bare, valued
  <2> QED
    BY <2>1, <2>2 DEF StripModelFlags, bare, valued
<1>3. c \in Known /\ flag \in Tokens /\ r \in Seq(Tokens) /\ model \in Tokens
  BY OwnArgs DEF Tokens
<1>4. /\ flag \in ModelAliases[c] /\ flag \notin Bypasses[c] \cup Overrides[c]
      /\ Free(r, ModelAliases[c]) /\ ModelAliases[c] \cap TailTokens = {}
  BY ModelTables
<1>5. flag \in OwnTokens /\ TailTokens \subseteq OwnTokens /\ Range(r) \subseteq OwnTokens
  <2>1. flag \in {ModelFlag[d] : d \in Known} /\ Range(r) \in {Range(ReadOnlyArgs[d]) : d \in Known}
    BY <1>3
  <2> DEFINE A == UNION {Range(ReadOnlyArgs[d]) : d \in Known}
             B == {ModelFlag[d] : d \in Known}
  <2>2. OwnTokens = TailTokens \cup B \cup A
    BY DEF OwnTokens
  <2>3. flag \in B /\ Range(r) \subseteq A
    BY <2>1
  <2> HIDE DEF A, B, r, flag
  <2> QED
    BY <2>2, <2>3
<1>6. InlineModels(c) \cap OwnTokens = {}
  BY InlineAssumption DEF InlineModels
<1>7. flag \in ModelAliases[c] \ InlineModels(c) /\ X \cap TailTokens = {}
  BY <1>4, <1>5, <1>6
<1>8. Free(r, X)
  <2>1. DOMAIN r = 1 .. Len(r)
    BY <1>3, LenProperties
  <2>2. \A i \in 1 .. Len(r) : r[i] \in OwnTokens
    BY <1>5, <2>1 DEF Range
  <2> QED
    BY <1>4, <1>6, <2>2 DEF Free
<1>9. model \notin X /\ model \notin Bypasses[c] \cup Overrides[c]
  <2>1. X \cup Bypasses[c] \cup Overrides[c] \subseteq Flags
    BY DEF Flags, InlineModels
  <2> QED
    BY <2>1, RequestAssumption
<1>10. o \in Seq(Tokens) /\ t \in Seq(Tokens) /\ last \in Seq(Tokens) /\ Free(last, X)
  BY <1>7, TailFree
<1>11. BuildCommand(m, role, model) = built
  BY DEF BuildCommand
<1>12. NotLast(s, Overrides[c])
  <2> DEFINE bare == InlineModels(c)
             valued == ModelAliases[c]
             flags == Overrides[c]
  <2>1. \A i \in DOMAIN line : line[i] \in flags => i < Len(line) /\ line[i + 1] \notin bare \cup valued
    BY DEF ValuesFollow
  <2>2. s = Without(line, bare, valued)
    BY DEF StripModelFlags
  <2> HIDE DEF line, bare, valued, flags, s
  <2>3. NotLast(Without(line, bare, valued), flags)
    BY <1>1, <2>1, NoFlagWaits
  <2> QED
    BY <2>2, <2>3 DEF flags
<1> HIDE DEF c, s, flag, r, o, t, X
<1>13. \A a \in Seq(Tokens), b \in Seq(Tokens) : a \o b \in Seq(Tokens)
  BY ConcatProperties
<1>14. \A a \in Seq(Tokens), b \in Seq(Tokens), d \in Seq(Tokens) : (a \o b) \o d = a \o (b \o d)
  <2> TAKE a \in Seq(Tokens), b \in Seq(Tokens), d \in Seq(Tokens)
  <2> HIDE DEF X
  <2> QED
    BY ConcatAssociative, SMTT(30)
<1>15. <<flag, model>> \in Seq(Tokens)
  BY <1>3, Pair
<1>16. ASSUME NEW k \in Seq(Tokens), NEW e \in Seq(Tokens), Free(k, X), Free(e, X)
       PROVE  Range(ModelsNamed(c, (k \o <<flag, model>>) \o e)) = {model}
  <2>1. /\ Free(k, ModelAliases[c] \cup InlineModels(c)) /\ Free(e, ModelAliases[c] \cup InlineModels(c))
        /\ model \notin ModelAliases[c] \cup InlineModels(c)
    BY <1>9, <1>16 DEF X
  <2> QED
    BY <1>3, <1>7, <2>1, OnePair
<1>17. CASE ~readOnly
  <2>1. Argv(m, role, model, readOnly, images) = (built \o o) \o t
    BY <1>11, <1>17 DEF Argv, o, t, c
  <2>2. (built \o o) \o t = built \o last
    <3>1. built \in Seq(Tokens)
      BY <1>2, <1>13, <1>15
    <3> HIDE DEF built
    <3> QED
      BY <1>10, <1>14, <3>1
  <2>3. Range(ModelsNamed(c, built \o last)) = {model}
    <3> HIDE DEF last
    <3> QED
      BY <1>2, <1>10, <1>16
  <2> QED
    BY <2>1, <2>2, <2>3 DEF c
<1>18. CASE readOnly
  <2> DEFINE bare == Bypasses[c]
             valued == Overrides[c]
             pair == <<flag, model>>
  <2>0. /\ pair \in Seq(Tokens) /\ Len(pair) = 2 /\ Free(pair, bare) /\ Free(pair, valued)
        /\ NotLast(s, valued) /\ built = s \o pair
    <3>1. flag \notin bare /\ flag \notin valued /\ model \notin bare /\ model \notin valued
      BY <1>4, <1>9
    <3>2. NotLast(s, valued)
      BY <1>12
    <3> HIDE DEF bare, valued
    <3>3. Free(<<flag, model>>, bare) /\ Free(<<flag, model>>, valued)
      BY <3>1, FreePair
    <3> QED
      BY <1>15, <3>2, <3>3
  <2> DEFINE k == KeptBefore(s, pair, bare, valued)
             w == KeptWith(s, pair, bare, valued)
  <2>1. k \in Seq(Tokens) /\ Free(k, X) /\ Without(built, bare, valued) = w
    <3> HIDE DEF bare, valued, pair, built
    <3>1. /\ s \in Seq(Tokens) /\ Free(s, X) /\ NotLast(s, valued)
          /\ pair \in Seq(Tokens) /\ Len(pair) = 2 /\ Free(pair, bare) /\ Free(pair, valued)
      BY <1>2, <2>0
    <3>2. k \in Seq(Tokens) /\ Free(k, X) /\ Without(s \o pair, bare, valued) = w
      BY <3>1, PairIsKept
    <3> QED
      BY <2>0, <3>2
  <2>2. Argv(m, role, model, readOnly, images) = ((w \o r) \o o) \o t
    <3> HIDE DEF w
    <3> QED
      BY <1>11, <1>18, <2>1 DEF Argv, ApplyReadOnly, o, t, r, c
  <2>3. ((w \o r) \o o) \o t = w \o (r \o last)
    <3>1. w \in Seq(Tokens)
      <4> HIDE DEF k, pair
      <4> QED
        BY <1>13, <2>0, <2>1 DEF KeptWith, k
    <3> HIDE DEF w
    <3>2. w \o r \in Seq(Tokens)
      BY <1>3, <1>13, <3>1
    <3>3. ((w \o r) \o o) \o t = (w \o r) \o last
      BY <1>10, <1>14, <3>2
    <3> HIDE DEF last
    <3>4. (w \o r) \o last = w \o (r \o last)
      BY <1>3, <1>10, <1>14, <3>1
    <3> QED
      BY <3>3, <3>4
  <2>4. r \o last \in Seq(Tokens) /\ Free(r \o last, X)
    <3> HIDE DEF last
    <3> QED
      BY <1>3, <1>8, <1>10, <1>13, FreeJoin
  <2>5. Range(ModelsNamed(c, w \o (r \o last))) = {model}
    <3> DEFINE e == r \o last
    <3>1. e \in Seq(Tokens) /\ Free(e, X)
      BY <2>4
    <3> HIDE DEF e
    <3> HIDE DEF k
    <3>2. Range(ModelsNamed(c, (k \o <<flag, model>>) \o e)) = {model}
      BY <1>16, <2>1, <3>1
    <3> QED
      BY <3>2 DEF e, k, KeptWith
  <2> HIDE DEF w
  <2> QED
    BY <2>2, <2>3, <2>5 DEF c
<1> QED
  BY <1>17, <1>18

\* A run that was asked to use a model names that model and no other, whatever its manifest, its
\* role and the read-only flags say (build_command and apply_read_only of the agents), as long as
\* no manifest ends in a flag that a read-only call removes with its value.
THEOREM RunsUseTheModelAsked ==
  ASSUME FlagsHaveValues
  PROVE  Spec => []OneModelAsked
<1>1. RunInv => OneModelAsked
  <2> SUFFICES ASSUME RunInv, Working, call.request.model # NONE
               PROVE  Range(ModelsNamed(Cli, call.command)) = {call.request.model}
    BY DEF OneModelAsked
  <2> DEFINE r == call.request
             m == Manifest(r)
  <2>1. setting \in Settings /\ Fit(r) /\ call.command = Argv(m, r.role, r.model, r.readOnly, r.images)
    BY DEF RunInv, Command, Working
  <2>2. /\ IsManifest(m) /\ m.name = Cli /\ m.name \in Known /\ r.role \in DOMAIN m.roles
        /\ r.model \in STRING /\ r.model \notin FlagLike /\ r.model # NONE
    BY <2>1 DEF Fit, Cli
  <2>3. ValuesFollow(m, r.role)
    <3> DEFINE clients == Clients(setting.files)
    <3>1. Loads(setting.files) /\ Cli \in DOMAIN clients /\ m = clients[Cli]
      BY <2>1 DEF Fit, Cli, Manifest
    <3>2. \A role \in DOMAIN clients[Cli].roles : ValuesFollow(clients[Cli], role)
      BY <2>1, <3>1 DEF FlagsHaveValues
    <3> HIDE DEF clients
    <3> QED
      BY <2>2, <3>1, <3>2
  <2> HIDE DEF m, r
  <2>4. Range(ModelsNamed(m.name, Argv(m, r.role, r.model, r.readOnly, r.images))) = {r.model}
    <3> DEFINE role == r.role
               model == r.model
    <3>1. /\ IsManifest(m) /\ m.name \in Known /\ role \in DOMAIN m.roles /\ ValuesFollow(m, role)
          /\ model \in STRING /\ model \notin FlagLike /\ model # NONE
      BY <2>2, <2>3
    <3> HIDE DEF role, model
    <3>2. ASSUME NEW readOnly, NEW images
          PROVE  Range(ModelsNamed(m.name, Argv(m, role, model, readOnly, images))) = {model}
      BY <3>1, CommandNamesTheModel
    <3> QED
      BY <3>2 DEF role, model
  <2> QED
    BY <2>1, <2>2, <2>4 DEF r
<1> QED
  BY <1>1, RunsStayInBounds, PTL

-----------------------------------------------------------------------------
(* The answer.                                                             *)

\* The lines chosen from the first n.
Chooses(f, n, lines, kinds) ==
    f = [i \in 0 .. n |-> IF i = 0 THEN <<>> ELSE WithLine(f[i - 1], lines[i], kinds)]

\* The loop that chooses lines runs to its end.
LEMMA ChosenExists ==
  ASSUME NEW lines, NEW kinds, NEW n \in Nat
  PROVE  \E f : Chooses(f, n, lines, kinds)
<1> DEFINE Done(k) == \E f : Chooses(f, k, lines, kinds)
           T == {k \in Nat : Done(k)}
<1>1. Done(0)
  <2> DEFINE f == [i \in 0 .. 0 |-> <<>>]
  <2>1. Chooses(f, 0, lines, kinds)
    BY DEF Chooses
  <2> QED
    BY <2>1
<1>2. ASSUME NEW k \in Nat, Done(k) PROVE Done(k + 1)
  <2>1. PICK f : Chooses(f, k, lines, kinds)
    BY <1>2
  <2> DEFINE g == [i \in 0 .. k + 1 |-> IF i = k + 1 THEN WithLine(f[k], lines[k + 1], kinds) ELSE f[i]]
  <2>2. \A i \in 0 .. k : g[i] = f[i]
    OBVIOUS
  <2>3. ASSUME NEW i \in 0 .. k + 1
        PROVE  g[i] = IF i = 0 THEN <<>> ELSE WithLine(g[i - 1], lines[i], kinds)
    <3>1. CASE i \in 0 .. k
      <4>1. g[i] = f[i] /\ (i # 0 => g[i - 1] = f[i - 1])
        BY <2>2, <3>1
      <4>2. f[i] = IF i = 0 THEN <<>> ELSE WithLine(f[i - 1], lines[i], kinds)
        BY <2>1, <3>1 DEF Chooses
      <4> HIDE DEF g
      <4> QED
        BY <4>1, <4>2
    <3>2. CASE i = k + 1
      <4>1. g[i] = WithLine(f[k], lines[i], kinds) /\ g[i - 1] = f[k] /\ i # 0
        BY <2>2, <3>2
      <4> HIDE DEF g
      <4> QED
        BY <4>1
    <3> QED
      BY <3>1, <3>2
  <2>4. Chooses(g, k + 1, lines, kinds)
    BY <2>3 DEF Chooses
  <2> QED
    BY <2>4
<1>3. 0 \in T /\ \A k \in 1 .. n : k - 1 \in T => k \in T
  <2> HIDE DEF Done
  <2>1. ASSUME NEW k \in 1 .. n, k - 1 \in T PROVE k \in T
    <3>1. k - 1 \in Nat /\ (k - 1) + 1 = k /\ k \in Nat
      OBVIOUS
    <3>2. Done((k - 1) + 1)
      BY <1>2, <2>1, <3>1
    <3> QED
      BY <3>1, <3>2
  <2> QED
    BY <1>1, <2>1
<1>4. n \in T
  <2> HIDE DEF T
  <2> QED
    BY <1>3, FromEachToTheNext
<1> QED
  BY <1>4

\* The loop takes one line after the other.
LEMMA ChosenChooses ==
  ASSUME NEW S, NEW lines \in Seq(S), NEW kinds
  PROVE  /\ Chosen(lines, kinds)[0] = <<>>
         /\ \A i \in 1 .. Len(lines) : Chosen(lines, kinds)[i] =
                WithLine(Chosen(lines, kinds)[i - 1], lines[i], kinds)
<1>1. Len(lines) \in Nat
  BY LenProperties
<1>2. Chooses(Chosen(lines, kinds), Len(lines), lines, kinds)
  <2>1. \E f : Chooses(f, Len(lines), lines, kinds)
    BY <1>1, ChosenExists
  <2>2. Chosen(lines, kinds) = CHOOSE f : Chooses(f, Len(lines), lines, kinds)
    BY DEF Chosen, Chooses
  <2> QED
    BY <2>1, <2>2, Zenon
<1>3. ASSUME NEW f, Chooses(f, Len(lines), lines, kinds)
      PROVE  /\ f[0] = <<>>
             /\ \A i \in 1 .. Len(lines) : f[i] = WithLine(f[i - 1], lines[i], kinds)
  <2>1. /\ 0 \in 0 .. Len(lines)
        /\ \A i \in 1 .. Len(lines) : i \in 0 .. Len(lines) /\ i # 0
    BY <1>1
  <2>2. \A i \in 0 .. Len(lines) :
            f[i] = IF i = 0 THEN <<>> ELSE WithLine(f[i - 1], lines[i], kinds)
    BY <1>3 DEF Chooses
  <2> QED
    BY <2>1, <2>2
<1> DEFINE upto == Chosen(lines, kinds)
<1>4. Chooses(upto, Len(lines), lines, kinds)
  BY <1>2
<1> HIDE DEF upto
<1>5. /\ upto[0] = <<>>
      /\ \A i \in 1 .. Len(lines) : upto[i] = WithLine(upto[i - 1], lines[i], kinds)
  BY <1>3, <1>4
<1> QED
  BY <1>5 DEF upto

\* The lines chosen are lines of those kinds, and none are chosen only when there are none.
LEMMA OfTheseKinds ==
  ASSUME NEW S, NEW lines \in Seq(S), NEW kinds
  PROVE  /\ Of(lines, kinds) \in Seq(kinds \cap Range(lines))
         /\ Of(lines, kinds) = <<>> => kinds \cap Range(lines) = {}
<1> DEFINE upto == Chosen(lines, kinds)
           n == Len(lines)
           K == kinds \cap Range(lines)
           T == {i \in 0 .. n : upto[i] \in Seq(K) /\ (upto[i] = <<>> => \A j \in 1 .. i : lines[j] \notin kinds)}
<1>1. n \in Nat /\ DOMAIN lines = 1 .. n
  BY LenProperties
<1>2. /\ upto[0] = <<>>
      /\ \A i \in 1 .. n : upto[i] = IF lines[i] \in kinds THEN Append(upto[i - 1], lines[i]) ELSE upto[i - 1]
  BY ChosenChooses DEF WithLine
<1>3. \A i \in 1 .. n : lines[i] \in kinds => lines[i] \in K
  BY <1>1 DEF Range
<1> HIDE DEF upto, K
<1>4. 0 \in T
  <2>1. upto[0] \in Seq(K)
    BY <1>2, EmptySeq
  <2> QED
    BY <1>1, <2>1
<1>5. ASSUME NEW i \in 1 .. n, i - 1 \in T PROVE i \in T
  <2>1. upto[i - 1] \in Seq(K) /\ (upto[i - 1] = <<>> => \A j \in 1 .. i - 1 : lines[j] \notin kinds)
    BY <1>5
  <2>2. CASE lines[i] \in kinds
    <3> DEFINE a == upto[i - 1]
               e == lines[i]
    <3>1. upto[i] = Append(a, e) /\ a \in Seq(K) /\ e \in K
      BY <1>2, <1>3, <2>1, <2>2
    <3> HIDE DEF a, e
    <3>2. Append(a, e) \in Seq(K) /\ Append(a, e) # <<>>
      BY <3>1, AppendProperties
    <3>3. upto[i] \in Seq(K) /\ upto[i] # <<>>
      BY <3>1, <3>2
    <3> QED
      BY <1>1, <3>3
  <2>3. CASE lines[i] \notin kinds
    <3>1. upto[i] = upto[i - 1]
      BY <1>2, <2>3
    <3>2. \A j \in 1 .. i : j \in 1 .. i - 1 \/ j = i
      BY <1>1
    <3> QED
      BY <1>1, <2>1, <2>3, <3>1, <3>2
  <2> QED
    BY <2>2, <2>3
<1>6. n \in T
  <2> HIDE DEF T
  <2>1. \A i \in 1 .. n : i - 1 \in T => i \in T
    BY <1>5
  <2>2. \A i \in 0 .. n : i \in T
    BY <1>1, <1>4, <2>1, FromEachToTheNext
  <2> QED
    BY <1>1, <2>2
<1>7. upto[n] \in Seq(K) /\ (upto[n] = <<>> => K = {})
  <2>1. K = {lines[j] : j \in 1 .. n} \cap kinds
    BY <1>1 DEF K, Range
  <2> QED
    BY <1>6, <2>1
<1> QED
  BY <1>7 DEF Of, upto, K

\* The lines of some kinds are lines of the output, and of these kinds.
LEMMA OfFacts ==
  ASSUME NEW S, NEW lines \in Seq(S), NEW kinds, NEW s, s = Of(lines, kinds)
  PROVE  /\ Range(s) \subseteq kinds \cap Range(lines)
         /\ s # <<>> => /\ Range(s) # {} /\ Head(s) \in kinds \cap Range(lines)
                        /\ s[Len(s)] \in kinds \cap Range(lines)
         /\ s = <<>> => kinds \cap Range(lines) = {}
<1> DEFINE K == kinds \cap Range(lines)
<1>1. s \in Seq(K) /\ (s = <<>> => K = {})
  BY OfTheseKinds
<1> HIDE DEF K
<1>2. DOMAIN s = 1 .. Len(s) /\ Len(s) \in Nat /\ \A i \in 1 .. Len(s) : s[i] \in K
  BY <1>1, LenProperties, ElementOfSeq
<1>3. Range(s) \subseteq K
  BY <1>2 DEF Range
<1>4. ASSUME s # <<>> PROVE Range(s) # {} /\ Head(s) \in K /\ s[Len(s)] \in K
  <2>1. 1 \in 1 .. Len(s) /\ Len(s) \in 1 .. Len(s)
    BY <1>1, <1>2, <1>4, EmptySeq
  <2>2. Head(s) = s[1]
    BY <1>1, <1>4
  <2> QED
    BY <1>2, <2>1, <2>2 DEF Range
<1> QED
  BY <1>1, <1>3, <1>4 DEF K

\* An agent's own words, as AnswerIsOwnText has it.
IsOwn(c, answer, printed) ==
    LET content == Range(answer.content) IN
    /\ content # {} /\ "blank" \notin content
    /\ "subagent" \in content => c = "claude" /\ ("result" \in printed => "blank" \in printed)
    /\ content \cap {"meta", "fault"} # {} =>
          c = "claude" /\ printed \cap (Turns \cup {"result", "error", "blank"}) = {}
    /\ ("error" \in content /\ c \notin {"aider", "crush"}) => answer.marked
    /\ ("error" \in content /\ c \in {"codex", "opencode", "copilot", "kimi"}) => "text" \notin printed

\* What is in a sequence of one.
LEMMA SingleRange ==
  ASSUME NEW x
  PROVE  Range(<<x>>) = {x}
BY DEF Range

\* What a parsed answer consists of.
LEMMA ParsedFields ==
  ASSUME NEW content, NEW marked, NEW a, a = Parsed(content, marked)
  PROVE  a.content = content /\ a.marked = marked /\ (a.ok <=> content # <<>>)
BY DEF Parsed

\* Codex and Opencode: the messages, or else the errors, which are marked.
LEMMA CodexIsOwn ==
  ASSUME NEW c \in {"codex", "opencode"}, NEW lines \in Seq(LineKinds), NEW a, a = ParseCodex(lines), a.ok
  PROVE  IsOwn(c, a, Range(lines))
<1> DEFINE texts == Of(lines, {"text"})
           errors == Of(lines, {"error"})
<1>1. /\ Range(texts) \subseteq {"text"} \cap Range(lines)
      /\ texts # <<>> => Range(texts) # {}
      /\ texts = <<>> => {"text"} \cap Range(lines) = {}
  BY OfFacts
<1>2. /\ Range(errors) \subseteq {"error"} \cap Range(lines)
      /\ errors # <<>> => Range(errors) # {}
  BY OfFacts
<1>3. a = Parsed(IF texts = <<>> THEN errors ELSE texts, errors # <<>>)
  BY DEF ParseCodex
<1> HIDE DEF texts, errors
<1>4. CASE texts = <<>>
  <2>1. a.content = errors /\ errors # <<>>
    BY <1>3, <1>4, ParsedFields
  <2>2. a.marked
    <3>1. a = Parsed(errors, TRUE)
      <4>1. a = Parsed(errors, errors # <<>>)
        BY <1>3, <1>4
      <4>2. (errors # <<>>) = TRUE
        BY <2>1
      <4> QED
        BY <4>1, <4>2, Zenon
    <3> QED
      BY <3>1, ParsedFields
  <2>3. Range(a.content) \subseteq {"error"} /\ Range(a.content) # {}
    BY <1>2, <2>1
  <2> QED
    BY <1>1, <1>4, <2>2, <2>3 DEF IsOwn
<1>5. CASE texts # <<>>
  <2>1. a.content = texts
    BY <1>3, <1>5 DEF Parsed
  <2> QED
    BY <1>1, <1>5, <2>1 DEF IsOwn
<1> QED
  BY <1>4, <1>5

\* Copilot and Kimi: the messages.
LEMMA MessagesAreOwn ==
  ASSUME NEW c, NEW lines \in Seq(LineKinds), NEW a, NEW marked, a = Parsed(Of(lines, {"text"}), marked), a.ok
  PROVE  IsOwn(c, a, Range(lines))
<1> DEFINE texts == Of(lines, {"text"})
<1>1. /\ Range(texts) \subseteq {"text"} \cap Range(lines)
      /\ texts # <<>> => Range(texts) # {}
  BY OfFacts
<1> HIDE DEF texts
<1>2. a.content = texts /\ texts # <<>>
  BY DEF Parsed, texts
<1> QED
  BY <1>1, <1>2 DEF IsOwn

\* Amp: the last result, marked when it is an error, or the messages.
LEMMA AmpIsOwn ==
  ASSUME NEW lines \in Seq(LineKinds), NEW a, a = ParseAmp(lines), a.ok
  PROVE  IsOwn("amp", a, Range(lines))
<1> DEFINE results == Of(lines, {"result", "error", "blank"})
           final == IF results = <<>> THEN "blank" ELSE results[Len(results)]
           marked == "error" \in Range(lines)
<1>1. results # <<>> => results[Len(results)] \in {"result", "error", "blank"} \cap Range(lines)
  BY OfFacts
<1>2. a = Parsed(IF final = "blank" THEN Of(lines, {"text"}) ELSE <<final>>, marked)
  BY DEF ParseAmp
<1> HIDE DEF results
<1>3. CASE final = "blank"
  <2>1. a = Parsed(Of(lines, {"text"}), marked)
    BY <1>2, <1>3
  <2> HIDE DEF marked
  <2> QED
    BY <2>1, MessagesAreOwn
<1>4. CASE final # "blank"
  <2>1. final \in {"result", "error"} /\ final \in Range(lines)
    BY <1>1, <1>4
  <2> HIDE DEF final
  <2>2. a.content = <<final>> /\ a.marked = marked
    BY <1>2, <1>4 DEF Parsed
  <2>3. Range(a.content) = {final}
    BY <2>2, SingleRange
  <2> QED
    BY <2>1, <2>2, <2>3 DEF IsOwn
<1> QED
  BY <1>3, <1>4

\* Claude: the first result, or else the last turn, or else the last event; instead of one without
\* a text the last turn, or a notice.
LEMMA ClaudeIsOwn ==
  ASSUME NEW lines \in Seq(LineKinds), NEW complains, NEW a, a = ParseClaude(lines, complains), a.ok
  PROVE  IsOwn("claude", a, Range(lines))
<1> DEFINE closing == {"result", "error", "blank"}
           finals == Of(lines, closing)
           turns == Of(lines, Turns)
           turn == IF turns = <<>> THEN "blank" ELSE turns[Len(turns)]
           payload == IF finals # <<>> THEN Head(finals) ELSE IF turns # <<>> THEN turn ELSE lines[Len(lines)]
           printed == Range(lines)
<1>1. /\ finals # <<>> => Head(finals) \in closing \cap printed
      /\ finals = <<>> => closing \cap printed = {}
  <2> HIDE DEF closing
  <2> QED
    BY OfFacts
<1>2. /\ turns # <<>> => turns[Len(turns)] \in Turns \cap printed
      /\ turns = <<>> => Turns \cap printed = {}
  BY OfFacts
<1>3. /\ a # NotParsed
      /\ \/ payload \in Worded /\ a = Parsed(<<payload>>, payload = "error")
         \/ payload \notin Worded /\ turn \in Worded /\ a = Parsed(<<turn>>, FALSE)
         \/ a = Parsed(<<"notice">>, FALSE)
  <2>1. a # NotParsed
    BY DEF NotParsed
  <2> QED
    BY <2>1, Zenon DEF ParseClaude
<1> HIDE DEF finals, turns
<1>4. ASSUME NEW x, NEW marked, a = Parsed(<<x>>, marked), x # "blank", x = "error" => marked,
             x = "subagent" => ("result" \in printed => "blank" \in printed),
             x \in {"meta", "fault"} => printed \cap (Turns \cup closing) = {}
      PROVE  IsOwn("claude", a, printed)
  <2>1. a.content = <<x>> /\ a.marked = marked
    BY <1>4, ParsedFields
  <2>2. Range(a.content) = {x}
    BY <2>1, SingleRange
  <2>3. x = "error" => a.marked
    BY <1>4, <2>1, Zenon
  <2> HIDE DEF printed
  <2> QED
    BY <1>4, <2>2, <2>3 DEF IsOwn
<1>5. CASE payload \in Worded /\ a = Parsed(<<payload>>, payload = "error")
  <2> DEFINE x == payload
             marked == (x = "error")
  <2>1. a = Parsed(<<x>>, marked) /\ (x = "error" => marked)
    BY <1>5
  <2>2. x # "blank"
    BY <1>5 DEF Worded
  <2>3. CASE finals # <<>>
    <3>1. x \in closing
      BY <1>1, <2>3
    <3> HIDE DEF x, marked
    <3> QED
      BY <1>4, <2>1, <2>2, <3>1
  <2>4. CASE finals = <<>> /\ turns # <<>>
    <3>1. x \in Turns /\ "result" \notin printed
      BY <1>1, <1>2, <2>4
    <3>2. x \notin {"meta", "fault"}
      BY <3>1 DEF Turns
    <3> HIDE DEF x, marked
    <3> QED
      BY <1>4, <2>1, <2>2, <3>1, <3>2
  <2>5. CASE finals = <<>> /\ turns = <<>>
    <3>1. "result" \notin printed /\ printed \cap (Turns \cup closing) = {}
      BY <1>1, <1>2, <2>5
    <3> HIDE DEF x, marked
    <3> QED
      BY <1>4, <2>1, <2>2, <3>1
  <2> QED
    BY <2>3, <2>4, <2>5
<1>6. CASE payload \notin Worded /\ turn \in Worded /\ a = Parsed(<<turn>>, FALSE)
  <2>1. turn # "blank" /\ turns # <<>> /\ turn \in Turns
    BY <1>2, <1>6 DEF Worded
  <2>2. finals # <<>>
    BY <1>6, <2>1
  <2>3. "blank" \in printed
    <3>1. Head(finals) \notin Worded
      BY <1>6, <2>2
    <3> QED
      BY <1>1, <2>2, <3>1 DEF Worded
  <2>4. turn \notin {"meta", "fault", "error"}
    BY <2>1 DEF Turns
  <2> DEFINE x == turn
  <2>5. a = Parsed(<<x>>, FALSE) /\ x # "blank" /\ x \notin {"meta", "fault", "error"}
    BY <1>6, <2>1, <2>4
  <2> HIDE DEF x
  <2> QED
    BY <1>4, <2>3, <2>5
<1>7. CASE a = Parsed(<<"notice">>, FALSE)
  <2> DEFINE x == "notice"
  <2>1. a = Parsed(<<x>>, FALSE) /\ x \notin {"blank", "error", "subagent", "meta", "fault"}
    BY <1>7
  <2> HIDE DEF x
  <2> QED
    BY <1>4, <2>1
<1> QED
  BY <1>3, <1>5, <1>6, <1>7

\* Gemini: the response or a notice.
LEMMA GeminiIsOwn ==
  ASSUME NEW lines \in Seq(LineKinds), NEW complains, NEW a, a = ParseGemini(lines, complains), a.ok
  PROVE  IsOwn("gemini", a, Range(lines))
<1>1. PICK x \in {"text", "notice"} : a.content = <<x>>
  BY DEF ParseGemini, Parsed, NotParsed
<1>2. Range(a.content) = {x}
  BY <1>1, SingleRange
<1> QED
  BY <1>1, <1>2 DEF IsOwn

\* Aider: what stands before the token counts, or a notice.
LEMMA AiderIsOwn ==
  ASSUME NEW lines \in Seq(LineKinds), NEW a, a = ParseAider(lines), a.ok
  PROVE  IsOwn("aider", a, Range(lines))
<1> DEFINE counted == {i \in DOMAIN lines : lines[i] = "usage"}
           at == CHOOSE i \in counted : \A j \in counted : i <= j
           before == SubSeq(lines, 1, at - 1)
           body == Of(before, {"text", "error", "edit", "noise"})
<1>1. counted # {} /\ ((body # <<>> /\ a = Parsed(body, FALSE)) \/ a = Parsed(<<"notice">>, FALSE))
  BY DEF ParseAider, NotParsed
<1>2. at \in 1 .. Len(lines)
  <2>1. DOMAIN lines = 1 .. Len(lines) /\ Len(lines) \in Nat
    BY LenProperties
  <2>2. counted \subseteq Nat /\ counted \subseteq 1 .. Len(lines)
    BY <2>1
  <2> HIDE DEF counted
  <2>3. \E i \in counted : \A j \in counted : i <= j
    BY <1>1, <2>2, HasLeast
  <2> QED
    BY <2>2, <2>3
<1>3. before \in Seq(LineKinds)
  <2>1. Len(lines) \in Nat /\ \A i \in 1 .. Len(lines) : lines[i] \in LineKinds
    BY LenProperties, ElementOfSeq
  <2> HIDE DEF at
  <2> QED
    BY <1>2, <2>1
<1>4. Range(body) \subseteq {"text", "error", "edit", "noise"} /\ (body # <<>> => Range(body) # {})
  <2> HIDE DEF before
  <2> QED
    BY <1>3, OfFacts
<1> HIDE DEF body
<1>5. CASE body # <<>> /\ a = Parsed(body, FALSE)
  <2>1. a.content = body
    BY <1>5, ParsedFields
  <2> QED
    BY <1>4, <1>5, <2>1 DEF IsOwn
<1>6. CASE a = Parsed(<<"notice">>, FALSE)
  <2>1. a.content = <<"notice">>
    BY <1>6 DEF Parsed
  <2>2. Range(a.content) = {"notice"}
    BY <2>1, SingleRange
  <2> QED
    BY <2>2 DEF IsOwn
<1> QED
  BY <1>1, <1>5, <1>6

\* Crush: what it prints.
LEMMA CrushIsOwn ==
  ASSUME NEW lines \in Seq(LineKinds), Range(lines) \cap {"subagent", "meta", "fault"} = {},
         NEW a, a = ParseCrush(lines), a.ok
  PROVE  IsOwn("crush", a, Range(lines))
<1> DEFINE kinds == LineKinds \ {"blank"}
           s == Of(lines, kinds)
<1>1. "blank" \notin kinds
  OBVIOUS
<1>2. Range(s) \subseteq kinds \cap Range(lines) /\ (s # <<>> => Range(s) # {})
  <2> HIDE DEF kinds
  <2> QED
    BY OfFacts
<1>3. a = Parsed(s, FALSE)
  BY DEF ParseCrush
<1> HIDE DEF kinds, s
<1>4. a.content = s /\ s # <<>>
  BY <1>3, ParsedFields
<1> QED
  BY <1>1, <1>2, <1>4 DEF IsOwn

\* Whatever an agent printed, what its parser and its recovery make of it is its own.
LEMMA ParsedIsOwn ==
  ASSUME NEW c \in Known, NEW lines \in Seq(LineKinds),
         c = "crush" => Range(lines) \cap {"subagent", "meta", "fault"} = {},
         NEW complains, NEW a, a = Parse(c, lines, complains) \/ a = Recover(c, lines, complains), a.ok
  PROVE  IsOwn(c, a, Range(lines))
<1>1. ASSUME a = Parse(c, lines, complains) PROVE IsOwn(c, a, Range(lines))
  <2>1. CASE c = "codex"
    <3>1. a = ParseCodex(lines)
      BY <1>1, <2>1 DEF Parse
    <3> QED
      BY <2>1, <3>1, CodexIsOwn
  <2>2. CASE c = "opencode"
    <3>1. a = ParseOpencode(lines)
      BY <1>1, <2>2 DEF Parse
    <3>2. a = ParseCodex(lines)
      BY <3>1 DEF ParseOpencode, NotParsed
    <3> QED
      BY <2>2, <3>2, CodexIsOwn
  <2>3. CASE c = "copilot"
    <3> DEFINE marked == "error" \in Range(lines)
    <3>1. a = Parsed(Of(lines, {"text"}), marked)
      BY <1>1, <2>3 DEF Parse, ParseCopilot
    <3> HIDE DEF marked
    <3> QED
      BY <3>1, MessagesAreOwn
  <2>4. CASE c = "kimi"
    <3>1. a = Parsed(Of(lines, {"text"}), FALSE)
      BY <1>1, <2>4 DEF Parse, ParseKimi
    <3> QED
      BY <3>1, MessagesAreOwn
  <2>5. CASE c = "amp"
    <3>1. a = ParseAmp(lines)
      BY <1>1, <2>5 DEF Parse
    <3> QED
      BY <2>5, <3>1, AmpIsOwn
  <2>6. CASE c = "claude"
    <3>1. a = ParseClaude(lines, complains)
      BY <1>1, <2>6 DEF Parse
    <3> QED
      BY <2>6, <3>1, ClaudeIsOwn
  <2>7. CASE c = "gemini"
    <3>1. a = ParseGemini(lines, complains)
      BY <1>1, <2>7 DEF Parse
    <3> QED
      BY <2>7, <3>1, GeminiIsOwn
  <2>8. CASE c = "aider"
    <3>1. a = ParseAider(lines)
      BY <1>1, <2>8 DEF Parse
    <3> QED
      BY <2>8, <3>1, AiderIsOwn
  <2>9. CASE c = "crush"
    <3>1. a = ParseCrush(lines)
      BY <1>1, <2>9 DEF Parse
    <3> QED
      BY <2>9, <3>1, CrushIsOwn
  <2> QED
    BY <2>1, <2>2, <2>3, <2>4, <2>5, <2>6, <2>7, <2>8, <2>9 DEF Known
<1>2. ASSUME a = Recover(c, lines, complains) PROVE IsOwn(c, a, Range(lines))
  <2>1. CASE c \in {"codex", "opencode", "copilot", "claude"}
    <3>1. a = Parse(c, lines, complains)
      BY <1>2, <2>1 DEF Recover
    <3> QED
      BY <1>1, <3>1
  <2>2. CASE c \notin {"codex", "opencode", "copilot", "claude"}
    <3>1. a # NotParsed
      BY DEF NotParsed
    <3>2. c = "gemini" /\ a = Parsed(<<"error">>, TRUE)
      BY <1>2, <2>2, <3>1 DEF Recover
    <3>3. a.content = <<"error">> /\ a.marked
      BY <3>2 DEF Parsed
    <3>4. Range(a.content) = {"error"}
      BY <3>3, SingleRange
    <3> QED
      BY <3>2, <3>3, <3>4 DEF IsOwn
  <2> QED
    BY <2>1, <2>2
<1> QED
  BY <1>1, <1>2

\* What may be asked of a server.
Requests == NestedRequests \cup UNION {s.requests : s \in Settings}

AnswerInv ==
    /\ call.phase # "idle" => call.request \in Requests
    /\ call.phase = "after" => IsOwn(Cli, call.answer, call.printed)
    /\ AnswerIsSound

\* A step that does not get as far as an answer.
LEMMA NotYetAnswered ==
  ASSUME call'.outcome # "answered", call'.phase # "after",
         call'.phase # "idle" => call'.request \in Requests
  PROVE  AnswerInv'
BY DEF AnswerInv, AnswerIsSound, AnswerIsOwnText, AnswerFits

\* A step that leaves what was printed and what was answered alone.
LEMMA SameAnswer ==
  ASSUME AnswerInv, setting' = setting, call'.phase = call.phase, call'.request = call.request,
         call'.outcome = call.outcome, call'.answer = call.answer, call'.printed = call.printed,
         call'.shown = call.shown
  PROVE  AnswerInv'
<1>1. Cli' = Cli
  BY DEF Cli
<1> QED
  BY <1>1 DEF AnswerInv, AnswerIsSound, AnswerIsOwnText, AnswerFits, IsOwn

\* The exit of a run sets the answer, as its parser or a recovery finds it.
LEMMA ExitKeepsAnswers ==
  ASSUME WalkInv, RunInv, AnswerInv, NEW output \in Outputs(Cli), Exit(output)
  PROVE  AnswerInv'
<1> DEFINE m == Manifest(call.request)
           lines == IF m.toFile /\ output.lines = <<>> THEN output.file ELSE output.lines
           a == AnswerOf(m.name, m.toFile, output)
<1>1. setting' = setting /\ call.phase = "running" /\ Fit(call.request)
  BY DEF Exit, server, RunInv
<1>2. /\ call'.request = call.request /\ call'.answer = a /\ call'.printed = Range(lines)
      /\ call'.outcome # "answered" /\ (call'.phase = "after" => a.ok)
  BY DEF Exit, WalkInv, Shaped, Idle, NONE
<1>3. m.name = Cli /\ Cli \in Known /\ Cli' = Cli
  BY <1>1, <1>2 DEF Fit, Cli
<1>4. lines \in Seq(LineKinds) /\ (Cli = "crush" => Range(lines) \cap {"subagent", "meta", "fault"} = {})
  <2>1. output.lines \in Seq(LineKinds) /\ output.file \in Seq(LineKinds)
    BY <1>3, AnswerAssumption
  <2>2. Cli = "crush" => (Range(output.lines) \cup Range(output.file)) \cap {"subagent", "meta", "fault"} = {}
    BY AnswerAssumption
  <2> QED
    BY <2>1, <2>2
<1>5. a = Parse(Cli, lines, output.complains) \/ a = Recover(Cli, lines, output.complains)
  BY <1>3 DEF AnswerOf
<1>6. a.ok => IsOwn(Cli, a, Range(lines))
  <2> HIDE DEF a, lines
  <2> QED
    BY <1>3, <1>4, <1>5, ParsedIsOwn
<1>7. call'.phase = "after" => IsOwn(Cli, call.answer, call.printed)'
  <2> HIDE DEF a, lines
  <2> QED
    BY <1>2, <1>3, <1>6 DEF IsOwn
<1> QED
  BY <1>1, <1>2, <1>7 DEF AnswerInv, AnswerIsSound, AnswerIsOwnText, AnswerFits

\* The answer that is passed on is the one found, cut where the limit is.
LEMMA RespondKeepsAnswers ==
  ASSUME WalkInv, RunInv, AnswerInv, NEW size \in Sizes(call.request), Respond(size)
  PROVE  AnswerInv'
<1>1. setting' = setting /\ call.phase = "after"
  BY DEF Respond, server
<1>2. /\ call'.request = call.request /\ call'.phase = "done" /\ call'.answer = call.answer
      /\ call'.printed = call.printed /\ call'.shown = Limited(size.text, size.summary)
  BY DEF Respond, WalkInv, Shaped, Idle
<1>3. Cli' = Cli
  BY <1>1, <1>2 DEF Cli
<1>4. AnswerIsOwnText'
  BY <1>1, <1>2, <1>3 DEF AnswerInv, IsOwn, AnswerIsOwnText
<1>5. size.text \in Nat /\ size.summary \in Nat /\ MaxResponse \in Nat /\ MaxResponse >= 2
  BY <1>1, AnswerAssumption DEF AnswerInv, Requests
<1>6. AnswerFits'
  <2> DEFINE x == size.text
             y == size.summary
             shown == Limited(x, y)
  <2>1. x \in Nat /\ y \in Nat
    BY <1>5
  <2> HIDE DEF x, y
  <2>2. shown.length <= MaxResponse /\ (shown.length # shown.of => shown.told)
    <3>1. CASE x <= MaxResponse
      BY <3>1 DEF Limited
    <3>2. CASE ~(x <= MaxResponse) /\ y > 0
      BY <1>5, <2>1, <3>2 DEF Limited, Least
    <3>3. CASE ~(x <= MaxResponse) /\ ~(y > 0)
      <4>1. MaxResponse \div 2 \in Nat /\ 1 + MaxResponse \div 2 <= MaxResponse
        BY <1>5
      <4> QED
        BY <1>5, <2>1, <3>3, <4>1 DEF Limited, Least, HEADER
    <3> QED
      BY <3>1, <3>2, <3>3
  <2> HIDE DEF shown
  <2>3. call'.shown = shown
    BY <1>2 DEF shown, x, y
  <2> QED
    BY <2>2, <2>3 DEF AnswerFits
<1> QED
  BY <1>1, <1>2, <1>4, <1>6 DEF AnswerInv, AnswerIsSound

\* The invariant of the answers, throughout.
LEMMA AnswersStaySound == Spec => []AnswerInv
<1>1. Init => AnswerInv
  BY DEF Init, AnswerInv, Idle, NONE, AnswerIsSound, AnswerIsOwnText, AnswerFits
<1>2. WalkInv /\ RunInv /\ AnswerInv /\ [Next]_vars => AnswerInv'
  <2> SUFFICES ASSUME WalkInv, RunInv, AnswerInv, [Next]_vars PROVE AnswerInv'
    OBVIOUS
  <2>1. ASSUME NEW r \in Asked, Ask(r) PROVE AnswerInv'
    <3>1. call'.request = r /\ call'.phase \in {"before", "done"} /\ call'.outcome # "answered"
      BY <2>1 DEF Ask, Idle, NONE
    <3>2. r \in Requests
      BY DEF Asked, Requests, RunInv
    <3> QED
      BY <3>1, <3>2, NotYetAnswered
  <2>2. CASE Scan \/ Unreadable \/ CutShort
    <3>1. PICK walk, at : call' = Recorded(walk, at)
      BY <2>2 DEF Scan, Unreadable, CutShort
    <3>2. setting' = setting
      BY <2>2 DEF Scan, Unreadable, CutShort, server
    <3> QED
      BY <3>1, <3>2, SameAnswer DEF Recorded, WalkInv, Shaped, Idle
  <2>3. CASE Start \/ Launched
    <3>1. /\ call.phase \in {"before", "launching"} /\ call'.phase \in {"launching", "running"}
          /\ call'.request = call.request /\ call'.outcome = call.outcome
      BY <2>3 DEF Start, Launched, Ready, WalkInv, Shaped, Idle
    <3>2. call.outcome # "answered"
      BY <3>1 DEF WalkInv, Shaped
    <3> QED
      BY <3>1, <3>2, NotYetAnswered DEF AnswerInv
  <2>4. CASE NoExecutable \/ LaunchFails \/ Abandon \/ TimesOut \/ Cancel
    <3>1. call.phase # "idle"
      BY <2>4 DEF NoExecutable, LaunchFails, Abandon, TimesOut, Cancel, Ready
    <3>2. /\ call'.phase = "done" /\ call'.request = call.request
          /\ call'.outcome \in {"failed", "cancelled", "abandoned"}
      BY <2>4 DEF NoExecutable, LaunchFails, Abandon, TimesOut, Cancel, Failed, WalkInv, Shaped, Idle
    <3> QED
      BY <3>1, <3>2, NotYetAnswered DEF AnswerInv
  <2>5. CASE Nest \/ Answered
    <3>1. call' = Idle
      BY <2>5 DEF Nest, Answered
    <3> QED
      BY <3>1, NotYetAnswered DEF Idle, NONE
  <2>6. ASSUME NEW output \in Outputs(Cli), Exit(output) PROVE AnswerInv'
    BY <2>6, ExitKeepsAnswers
  <2>7. ASSUME NEW size \in Sizes(call.request), Respond(size) PROVE AnswerInv'
    BY <2>7, RespondKeepsAnswers
  <2>8. ASSUME NEW p, NEW stamp, AgentWrites(p, stamp) \/ OtherWrites(p, stamp) PROVE AnswerInv'
    <3>1. setting' = setting
      BY <2>8 DEF AgentWrites, OtherWrites, server
    <3> QED
      BY <2>8, <3>1, SameAnswer DEF AgentWrites, OtherWrites, WalkInv, Shaped, Idle
  <2>9. CASE UNCHANGED vars
    BY <2>9, SameAnswer DEF vars
  <2>10. ASSUME NEW output \in (IF call.phase = "running" THEN Outputs(Cli) ELSE {}), Exit(output) PROVE AnswerInv'
    BY <2>6, <2>10
  <2>11. ASSUME NEW size \in (IF call.phase = "after" THEN Sizes(call.request) ELSE {}), Respond(size) PROVE AnswerInv'
    BY <2>7, <2>11
  <2> QED
    BY <2>1, <2>2, <2>3, <2>4, <2>5, <2>8, <2>9, <2>10, <2>11 DEF Next
<1> QED
  BY <1>1, <1>2, WalksStayInOrder, RunsStayInBounds, PTL DEF Spec

\* What the caller gets is the agent's own words, marked when they are an error, and never a
\* delegate's or the session's, but for Claude's last turn when no result has a text and its last
\* event when there is neither (the parsers of clink and the recoveries of the agents).  The text,
\* without its metadata, is never longer than the limit or cut without saying so
\* (_apply_output_limit).
THEOREM AnswersAreTheAgents == Spec => []AnswerIsSound
<1>1. AnswerInv => AnswerIsSound
  BY DEF AnswerInv
<1> QED
  BY <1>1, AnswersStaySound, PTL
=============================================================================
