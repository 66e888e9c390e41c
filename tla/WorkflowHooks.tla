---------------------------- MODULE WorkflowHooks ----------------------------
(***************************************************************************)
(* What the eleven step-by-step tools decide for themselves: the hooks     *)
(* that debug, codereview, precommit, secaudit, refactor, analyze,         *)
(* testgen, thinkdeep, docgen, planner and tracer give to                  *)
(* tools/workflow/workflow_mixin.py.  Of each tool T:                      *)
(*   TRequest(q)    the validators of its request,                         *)
(*   TActions(q)    the phase its list of required actions is for,         *)
(*   TGuidance(q)   the phase its text on the next step is for,            *)
(*   TKeeps         what a step record holds besides step and findings,    *)
(*   TSkips(q)      the last step that never asks the expert,              *)
(*   TCalls(q, f)   whether the last step asks, given what was found,      *)
(*   TTells         what the prompt for the expert is made of,             *)
(*   TRemembers(q)  what the instance keeps of an answered step.           *)
(* Actions and guidance are two tables in the code, and only the case that *)
(* is picked is kept of either, as a phase of the work.                    *)
(***************************************************************************)
EXTENDS Naturals

CONSTANTS
    NoThread,       \* no continuation_id
    Schedule,       \* step_number and total_steps of the calls that are followed
    Levels          \* confidences of the calls that are followed

ASSUME HookConstants == Schedule \subseteq (Nat \ {0}) \X (Nat \ {0})

AllTools == {"debug", "codereview", "precommit", "secaudit", "refactor", "analyze",
             "testgen", "thinkdeep", "docgen", "planner", "tracer"}

Sections == {"request", "issue", "config", "files", "context", "issues", "hypotheses", "images"}

Confidences == {"exploring", "low", "medium", "high", "very_high", "almost_certain", "certain"}
MaybeConfidences == Confidences \union {"null"}
RefactorConfidences == {"exploring", "incomplete", "partial", "complete"}

\* One step as the agent sends it.  "files" says whether it names relevant_files, "kind" is
\* review_validation_type or precommit_type, "assist" use_assistant_model, "issue" that it reports
\* an issue, "much" that its findings are long or its session has found an issue, "left" the files docgen has not documented yet.
Requests(Threads) ==
    {q \in [thread : Threads \union {NoThread}, step : {s[1] : s \in Schedule}, total : {s[2] : s \in Schedule},
            more : BOOLEAN, conf : Levels, kind : {"external", "internal"},
            assist : BOOLEAN, issue : BOOLEAN, much : {FALSE}, files : BOOLEAN, mode : {"ask", "precision"}, left : {0, 1}] :
        <<q.step, q.total>> \in Schedule /\ ~(q.issue /\ q.files)}

\* WorkflowRequest: what a tool does not ask for has its default.
Plain(q) == q.kind = "external" /\ q.mode = "ask" /\ q.left = 0 /\ ~q.much /\ ~q.issue
NamesFiles(q) == q.step = 1 => q.files

\* Findings so far that are worth an expert: there are files or issues, or two steps.
Enough(f) == f.some \/ f.steps >= 2

ByConfidence(q, early, late) ==
    IF q.step = 1 THEN "start"
    ELSE IF q.conf \in early THEN "investigate"
    ELSE IF q.conf \in late THEN "verify" ELSE "general"

ByStep(q, last) == IF q.step = 1 THEN "start" ELSE IF q.step <= last THEN "investigate" ELSE "verify"
Certain(q) == q.conf = "certain" /\ ~q.more

-----------------------------------------------------------------------------
(* Debug.                                                                  *)

DebugRequest(q) == Plain(q) /\ q.conf \in MaybeConfidences

\* Faulty variant: the early steps of the text end before "low".
DebugGuidanceLow(q) ==
    IF q.step # 1 /\ q.conf = "almost_certain" THEN "finalize"
    ELSE ByConfidence(q, {"exploring"}, {"low", "medium", "high", "very_high"})

DebugActions(q) ==
    IF q.step # 1 /\ q.conf = "almost_certain" THEN "finalize"
    ELSE ByConfidence(q, {"exploring", "low"}, {"medium", "high", "very_high"})
DebugGuidance(q) ==
    IF q.step # 1 /\ q.conf = "almost_certain" THEN "finalize"
    ELSE ByConfidence(q, {"exploring", "low"}, {"medium", "high", "very_high"})
DebugKeeps == {"files", "context", "hypotheses", "images"}
DebugSkips(q) == Certain(q)
DebugCalls(q, f) == q.assist /\ Enough(f)
DebugTells == {"issue", "context", "hypotheses", "images", "files"}
DebugRemembers(q) == IF q.step = 1 THEN {"issue"} ELSE {}

-----------------------------------------------------------------------------
(* Codereview.                                                             *)

\* A review with a continuation_id: from an earlier conversation, or its own from the second step on.
FastTrack(q) == q.thread # NoThread /\ q.kind = "external"

\* The text refuses a last step before its time, but it is only written for steps that are not the last.
TooEarly(q) == q.total >= 3 /\ q.step < q.total /\ ~q.more

CodereviewRequest(q) == Plain([q EXCEPT !.kind = "external", !.issue = FALSE]) /\ q.conf = "low" /\ NamesFiles(q)
CodereviewActions(q) ==
    CASE FastTrack(q) -> IF q.step = 1 THEN "quick" ELSE "conclude"
      [] ~FastTrack(q) /\ q.step = 1 -> "start"
      [] ~FastTrack(q) /\ q.step = 2 -> "investigate"
      [] OTHER -> "verify"
CodereviewGuidance(q) ==
    CASE q.step = 1 -> IF FastTrack(q) THEN "quick" ELSE "start"
      [] q.step = 2 /\ TooEarly(q) -> "refuse"
      [] q.step = 2 /\ ~TooEarly(q) /\ (FastTrack(q) \/ (~q.more /\ q.kind = "external")) -> "conclude"
      [] q.step >= 3 /\ ~q.more /\ q.kind = "external" -> "conclude"
      [] OTHER -> IF q.step = 2 THEN "investigate" ELSE "verify"
CodereviewKeeps == {"files", "context", "issues", "hypotheses", "images"}
CodereviewSkips(q) == q.kind = "internal" /\ ~q.more
CodereviewCalls(q, f) == q.assist /\ (FastTrack(q) \/ Enough(f))
CodereviewTells == {"request", "config", "context", "issues", "hypotheses", "images"}
CodereviewRemembers(q) ==
    IF q.step = 1 THEN {"request"} \union (IF q.files THEN {"config"} ELSE {}) ELSE {}

-----------------------------------------------------------------------------
(* Precommit.                                                              *)

\* What is reviewed is a path here, which the first step must name.
PrecommitRequest(q) == Plain([q EXCEPT !.kind = "external", !.issue = FALSE]) /\ q.conf = "low"
PrecommitActions(q) ==
    CASE FastTrack(q) -> IF q.step = 1 THEN "quick" ELSE "conclude"
      [] ~FastTrack(q) /\ q.step = 1 -> "start"
      [] ~FastTrack(q) /\ q.step = 2 -> "investigate"
      [] OTHER -> IF q.much THEN "verify" ELSE "general"
PrecommitGuidance(q) ==
    CASE q.step = 1 -> IF FastTrack(q) THEN "quick" ELSE "start"
      [] q.step = 2 /\ TooEarly(q) -> "refuse"
      [] q.step = 2 /\ ~TooEarly(q) /\ (FastTrack(q) \/ (~q.more /\ q.kind = "external")) -> "conclude"
      [] q.step >= 3 /\ ~q.more /\ q.kind = "external" -> "conclude"
      [] OTHER -> IF q.step = 2 THEN "investigate" ELSE "verify"
PrecommitKeeps == {"files", "context", "issues", "hypotheses", "images"}
PrecommitSkips(q) == q.kind = "internal" /\ ~q.more
PrecommitCalls(q, f) == q.assist /\ (FastTrack(q) \/ Enough(f))
PrecommitTells == {"request", "config", "context", "issues", "hypotheses", "images"}
PrecommitRemembers(q) == IF q.step = 1 THEN {"request", "config"} ELSE {}

-----------------------------------------------------------------------------
(* Secaudit.                                                               *)

SecauditRequest(q) == Plain([q EXCEPT !.issue = FALSE]) /\ q.conf \in MaybeConfidences

\* The actions follow the six topics of the audit, the guidance follows the confidence.
SecauditActions(q) == IF q.step = 1 THEN "start" ELSE IF q.step <= 6 THEN "investigate" ELSE "general"
SecauditGuidance(q) == ByConfidence(q, {"exploring", "low"}, {"medium", "high"})
SecauditKeeps == {"files", "context", "issues", "hypotheses", "images"}
SecauditSkips(q) == Certain(q)
SecauditCalls(q, f) == q.assist /\ Enough(f)
SecauditTells == {"request", "config", "files", "context", "issues", "hypotheses", "images"}
SecauditRemembers(q) ==
    IF q.step = 1 THEN {"request"} \union (IF q.files THEN {"config"} ELSE {}) ELSE {}

\* prepare_step_data sets the configuration before the expert is asked.
SecauditPrepares(q) == IF q.step = 1 THEN {"config"} ELSE {}

-----------------------------------------------------------------------------
(* Refactor.                                                               *)

RefactorRequest(q) == Plain([q EXCEPT !.issue = FALSE]) /\ q.conf \in RefactorConfidences \union {"null"} /\ NamesFiles(q)
RefactorActions(q) == ByConfidence(q, {"exploring", "incomplete"}, {"partial"})
RefactorGuidance(q) == ByConfidence(q, {"exploring", "incomplete"}, {"partial"})
RefactorKeeps == {"files", "context", "issues", "hypotheses", "images"}
RefactorSkips(q) == q.conf = "complete" /\ ~q.more
RefactorCalls(q, f) == q.assist /\ q.conf # "complete" /\ Enough(f)
RefactorTells == {"request", "config", "context", "issues", "hypotheses", "images"}
RefactorRemembers(q) ==
    IF q.step = 1 THEN {"request"} \union (IF q.files THEN {"config"} ELSE {}) ELSE {}

-----------------------------------------------------------------------------
(* Analyze.                                                                *)

AnalyzeRequest(q) == Plain([q EXCEPT !.issue = FALSE]) /\ q.conf = "low" /\ NamesFiles(q)
AnalyzeActions(q) == ByStep(q, q.total - 1)
AnalyzeGuidance(q) == ByStep(q, q.total - 1)
AnalyzeKeeps == {"files", "context", "issues", "hypotheses", "images"}
AnalyzeSkips(q) == FALSE
AnalyzeCalls(q, f) == q.assist /\ (f.some \/ f.steps >= 1)
AnalyzeTells == {"request", "config", "context", "hypotheses", "images"}
AnalyzeRemembers(q) ==
    IF q.step = 1 THEN {"request"} \union (IF q.files THEN {"config"} ELSE {}) ELSE {}

-----------------------------------------------------------------------------
(* Testgen.                                                                *)

TestgenRequest(q) == Plain(q) /\ q.conf \in MaybeConfidences /\ NamesFiles(q)
TestgenActions(q) == ByConfidence(q, {"exploring", "low"}, {"medium", "high"})
TestgenGuidance(q) == ByConfidence(q, {"exploring", "low"}, {"medium", "high"})
TestgenKeeps == {"files", "context", "images"}
TestgenSkips(q) == Certain(q)
TestgenCalls(q, f) == q.assist /\ (f.some \/ f.steps >= 1)
TestgenTells == {"request", "context", "images"}
TestgenRemembers(q) == IF q.step = 1 THEN {"request"} ELSE {}

-----------------------------------------------------------------------------
(* Thinkdeep.                                                              *)

ThinkdeepRequest(q) == Plain([q EXCEPT !.issue = FALSE]) /\ q.conf \in Confidences

\* What is not on the list of the actions has those of the last case.
ThinkdeepActions(q) ==
    CASE q.step = 1 -> "start"
      [] q.step # 1 /\ q.conf = "low" -> "investigate"
      [] q.step # 1 /\ q.conf = "medium" -> "deepen"
      [] q.step # 1 /\ q.conf = "high" -> "verify"
      [] q.step # 1 /\ q.conf = "very_high" -> "synthesize"
      [] q.step # 1 /\ q.conf = "almost_certain" -> "finalize"
      [] OTHER -> "conclude"
ThinkdeepGuidance(q) ==
    CASE q.conf = "certain" -> "conclude"
      [] q.conf = "almost_certain" -> "finalize"
      [] q.conf = "very_high" -> "synthesize"
      [] q.conf = "high" -> "verify"
      [] q.conf = "medium" -> "deepen"
      [] OTHER -> "investigate"
ThinkdeepKeeps == {"files", "context", "issues", "hypotheses", "images"}
ThinkdeepSkips(q) == Certain(q)

\* use_assistant_model is not looked at.
ThinkdeepCalls(q, f) == q.conf # "certain" /\ ~q.more
ThinkdeepTells == {"context", "issues", "hypotheses"}
ThinkdeepRemembers(q) == {}

-----------------------------------------------------------------------------
(* Docgen, which never asks an expert.                                     *)

DocgenRequest(q) == Plain([q EXCEPT !.left = 0]) /\ q.conf = "low"
DocgenActions(q) ==
    CASE q.step = 1 -> "start"
      [] q.step = 2 -> "first file"
      [] q.step \in 3 .. 4 -> "next file"
      [] OTHER -> "verify"
DocgenGuidance(q) ==
    CASE q.step = 1 -> "start"
      [] q.step = 2 -> "first file"
      [] q.step \in 3 .. 4 -> "next file"
      [] OTHER -> "verify"
DocgenKeeps == {"files", "context", "hypotheses"}
DocgenSkips(q) == Certain(q)
DocgenRemembers(q) == IF q.step = 1 THEN {"request"} ELSE {}

\* handle_work_completion: the work does not end before every file is documented.
DocgenUnfinished(q) == q.left > 0

-----------------------------------------------------------------------------
(* Planner, which never asks an expert.                                    *)

PlannerRequest(q) == Plain(q) /\ q.conf = "low" /\ ~q.files

\* A plan of five steps or more is interrupted for reflection in its first three.
PlannerActions(q) ==
    CASE q.step = 1 -> "start"
      [] q.step = 2 /\ q.total >= 5 -> "evaluate"
      [] q.step = 3 /\ q.total >= 5 -> "validate"
      [] OTHER -> "general"
PlannerGuidance(q) ==
    CASE q.step = 1 /\ q.total >= 5 -> "start"
      [] q.step = 2 /\ q.total >= 5 -> "evaluate"
      [] q.step = 3 /\ q.total >= 5 -> "validate"
      [] OTHER -> "general"
PlannerKeeps == {}
PlannerSkips(q) == FALSE
PlannerRemembers(q) == {}

-----------------------------------------------------------------------------
(* Tracer, which never asks an expert.                                     *)

TracerRequest(q) == Plain([q EXCEPT !.mode = "ask"]) /\ q.conf \in MaybeConfidences

\* The mode is the one the instance remembers, not the one of the request.
TracerActions(q, mode) ==
    IF q.step = 1 /\ mode = "ask" THEN "choose" ELSE ByConfidence(q, {"exploring", "low"}, {"medium", "high"})
TracerGuidance(q, mode) ==
    IF q.step = 1 /\ mode = "ask" THEN "choose" ELSE ByConfidence(q, {"exploring", "low"}, {"medium", "high"})
TracerKeeps == {"files", "context", "images"}
TracerSkips(q) == FALSE
TracerRemembers(q) == IF q.step = 1 THEN {"request", "mode"} ELSE {}

-----------------------------------------------------------------------------
(* The hooks of a tool.                                                    *)

Valid(tool, q) ==
    CASE tool = "debug" -> DebugRequest(q)
      [] tool = "codereview" -> CodereviewRequest(q)
      [] tool = "precommit" -> PrecommitRequest(q)
      [] tool = "secaudit" -> SecauditRequest(q)
      [] tool = "refactor" -> RefactorRequest(q)
      [] tool = "analyze" -> AnalyzeRequest(q)
      [] tool = "testgen" -> TestgenRequest(q)
      [] tool = "thinkdeep" -> ThinkdeepRequest(q)
      [] tool = "docgen" -> DocgenRequest(q)
      [] tool = "planner" -> PlannerRequest(q)
      [] tool = "tracer" -> TracerRequest(q)

\* get_request_confidence: a null confidence has a value where the actions are picked; the text
\* goes by the request's own.
Assumed(tool, q) == IF q.conf # "null" THEN q.conf ELSE IF tool = "tracer" THEN "exploring" ELSE "low"

Actions(tool, q, mode) ==
    LET c == [q EXCEPT !.conf = Assumed(tool, q)] IN
    CASE tool = "debug" -> DebugActions(c)
      [] tool = "codereview" -> CodereviewActions(c)
      [] tool = "precommit" -> PrecommitActions(c)
      [] tool = "secaudit" -> SecauditActions(c)
      [] tool = "refactor" -> RefactorActions(c)
      [] tool = "analyze" -> AnalyzeActions(c)
      [] tool = "testgen" -> TestgenActions(c)
      [] tool = "thinkdeep" -> ThinkdeepActions(c)
      [] tool = "docgen" -> DocgenActions(c)
      [] tool = "planner" -> PlannerActions(c)
      [] tool = "tracer" -> TracerActions(c, mode)
Guidance(tool, q, mode) ==
    CASE tool = "debug" -> DebugGuidance(q)
      [] tool = "codereview" -> CodereviewGuidance(q)
      [] tool = "precommit" -> PrecommitGuidance(q)
      [] tool = "secaudit" -> SecauditGuidance(q)
      [] tool = "refactor" -> RefactorGuidance(q)
      [] tool = "analyze" -> AnalyzeGuidance(q)
      [] tool = "testgen" -> TestgenGuidance(q)
      [] tool = "thinkdeep" -> ThinkdeepGuidance(q)
      [] tool = "docgen" -> DocgenGuidance(q)
      [] tool = "planner" -> PlannerGuidance(q)
      [] tool = "tracer" -> TracerGuidance(q, mode)
Keeps(tool) ==
    CASE tool = "debug" -> DebugKeeps
      [] tool = "codereview" -> CodereviewKeeps
      [] tool = "precommit" -> PrecommitKeeps
      [] tool = "secaudit" -> SecauditKeeps
      [] tool = "refactor" -> RefactorKeeps
      [] tool = "analyze" -> AnalyzeKeeps
      [] tool = "testgen" -> TestgenKeeps
      [] tool = "thinkdeep" -> ThinkdeepKeeps
      [] tool = "docgen" -> DocgenKeeps
      [] tool = "planner" -> PlannerKeeps
      [] tool = "tracer" -> TracerKeeps
Skips(tool, q) ==
    CASE tool = "debug" -> DebugSkips(q)
      [] tool = "codereview" -> CodereviewSkips(q)
      [] tool = "precommit" -> PrecommitSkips(q)
      [] tool = "secaudit" -> SecauditSkips(q)
      [] tool = "refactor" -> RefactorSkips(q)
      [] tool = "analyze" -> AnalyzeSkips(q)
      [] tool = "testgen" -> TestgenSkips(q)
      [] tool = "thinkdeep" -> ThinkdeepSkips(q)
      [] tool = "docgen" -> DocgenSkips(q)
      [] tool = "planner" -> PlannerSkips(q)
      [] tool = "tracer" -> TracerSkips(q)

\* requires_expert_analysis and should_call_expert_analysis
CallsExpert(tool, q, f) ==
    CASE tool = "debug" -> DebugCalls(q, f)
      [] tool = "codereview" -> CodereviewCalls(q, f)
      [] tool = "precommit" -> PrecommitCalls(q, f)
      [] tool = "secaudit" -> SecauditCalls(q, f)
      [] tool = "refactor" -> RefactorCalls(q, f)
      [] tool = "analyze" -> AnalyzeCalls(q, f)
      [] tool = "testgen" -> TestgenCalls(q, f)
      [] tool = "thinkdeep" -> ThinkdeepCalls(q, f)
      [] OTHER -> FALSE
Tells(tool) ==
    CASE tool = "debug" -> DebugTells
      [] tool = "codereview" -> CodereviewTells
      [] tool = "precommit" -> PrecommitTells
      [] tool = "secaudit" -> SecauditTells
      [] tool = "refactor" -> RefactorTells
      [] tool = "analyze" -> AnalyzeTells
      [] tool = "testgen" -> TestgenTells
      [] tool = "thinkdeep" -> ThinkdeepTells
      [] OTHER -> {}
Remembers(tool, q) ==
    CASE tool = "debug" -> DebugRemembers(q)
      [] tool = "codereview" -> CodereviewRemembers(q)
      [] tool = "precommit" -> PrecommitRemembers(q)
      [] tool = "secaudit" -> SecauditRemembers(q)
      [] tool = "refactor" -> RefactorRemembers(q)
      [] tool = "analyze" -> AnalyzeRemembers(q)
      [] tool = "testgen" -> TestgenRemembers(q)
      [] tool = "thinkdeep" -> ThinkdeepRemembers(q)
      [] tool = "docgen" -> DocgenRemembers(q)
      [] tool = "planner" -> PlannerRemembers(q)
      [] tool = "tracer" -> TracerRemembers(q)

\* store_initial_issue: where the first step is put, to be told to the expert.
KeptAs(tool) ==
    CASE tool \in {"debug", "thinkdeep", "docgen"} -> {"issue"}
      [] tool \in {"planner", "tracer"} -> {}
      [] OTHER -> {"request"}
Prepares(tool, q) == IF tool = "secaudit" THEN SecauditPrepares(q) ELSE {}
=============================================================================
