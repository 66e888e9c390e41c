-------------------------- MODULE ProviderRequests --------------------------
(***************************************************************************)
(* What each adapter puts into the request it sends: the model's name, the *)
(* endpoint, the temperature, the thinking budget and the reasoning        *)
(* effort.  Temperatures are counted in tenths, the shares of a thinking   *)
(* budget in thousandths.  No caller passes max_output_tokens, so the      *)
(* adapters fall back to the model's own limit where they need one.        *)
(***************************************************************************)
EXTENDS ModelCatalog

ABSENT == -1                \* the parameter is left off the wire
MIN_THINKING_BUDGET == 1024

THINKING_LADDER == <<"minimal", "low", "medium", "high", "max">>
Rung(mode) == CHOOSE i \in DOMAIN THINKING_LADDER : THINKING_LADDER[i] = mode
ThinkingModes == {THINKING_LADDER[i] : i \in DOMAIN THINKING_LADDER}
ThinkingShare(mode) == <<5, 80, 330, 670, 1000>>[Rung(mode)]

\* Every entry a lookup finds; _build_maps and TemperatureConstraint see to it.
ASSUME RequestAssumption ==
    \A t \in ProviderTypes, n \in Names : \A e \in EntryFor(t, n) :
        /\ e.output \in Nat /\ e.maxThinking \in Nat
        /\ e.constraint \in {"fixed", "discrete", "range"}
        /\ e.efforts \subseteq ThinkingModes /\ e.effort \in ThinkingModes \cup {NONE}

(* TemperatureConstraint.create: o-series models take 1.0 and nothing else. *)
DISCRETE == {0, 3, 7, 10, 15, 20}
Distance(a, b) == IF a >= b THEN a - b ELSE b - a

ValidTemperature(constraint, x) ==
    CASE constraint = "fixed" -> x = 10
      [] constraint = "discrete" -> x \in DISCRETE
      [] constraint = "range" -> x \in 0..20

CorrectedTemperature(constraint, x) ==
    CASE constraint = "fixed" -> 10
      [] constraint = "discrete" ->
             CHOOSE v \in DISCRETE : \A w \in DISCRETE :
                 \/ Distance(v, x) < Distance(w, x)
                 \/ Distance(v, x) = Distance(w, x) /\ v <= w
      [] constraint = "range" -> IF x < 0 THEN 0 ELSE IF x > 20 THEN 20 ELSE x

EffectiveTemperature(e, x) ==
    IF e.sampling THEN CorrectedTemperature(e.constraint, x) ELSE ABSENT

(* validate_and_correct_temperature, before any adapter sees the value.    *)
ToolTemperature(e, x) ==
    IF ValidTemperature(e.constraint, x) THEN x ELSE CorrectedTemperature(e.constraint, x)

(* _resolve_reasoning_effort: the nearest rung the model accepts, a tie    *)
(* going up.                                                               *)
Nearest(e, mode) ==
    CHOOSE f \in e.efforts : \A g \in e.efforts :
        LET df == Distance(Rung(f), Rung(mode))
            dg == Distance(Rung(g), Rung(mode)) IN
        df < dg \/ (df = dg /\ Rung(f) >= Rung(g))
ReasoningEffort(e, mode) ==
    LET value == IF mode = NONE THEN e.effort ELSE mode IN
    IF e.efforts = {} \/ value = NONE THEN NONE ELSE Nearest(e, value)

\* Faulty variant: the budget may use up all of max_tokens.
Unfitted(budget, maxTokens) == budget

(* _build_request of the Anthropic adapter: the budget has a floor, and    *)
(* must leave room for the answer inside max_tokens.                       *)
Budget(maxThinking, mode) == (maxThinking * ThinkingShare(mode)) \div 1000
Floored(budget) == IF budget < MIN_THINKING_BUDGET THEN MIN_THINKING_BUDGET ELSE budget
Fitted(budget, maxTokens) ==
    IF budget >= maxTokens THEN maxTokens - MIN_THINKING_BUDGET ELSE budget
ClaudeBudget(e, mode) ==
    LET budget == Fitted(Floored(Budget(e.maxThinking, mode)), e.output) IN
    IF e.thinks /\ mode # NONE /\ e.maxThinking > 0 /\ budget >= MIN_THINKING_BUDGET
    THEN budget ELSE ABSENT

(* The Gemini adapter: no floor, and one preview model that refuses medium. *)
GeminiMode(name, mode) ==
    IF name = "gemini-3-pro-preview" /\ mode = "medium" THEN "high" ELSE mode
GeminiBudget(e, mode) ==
    IF e.thinks /\ mode # NONE /\ e.maxThinking > 0
    THEN Budget(e.maxThinking, GeminiMode(e.name, mode)) ELSE ABSENT

-----------------------------------------------------------------------------
(* A request: wire is the name in its model field.                         *)
Plain(wire) == [wire |-> wire, endpoint |-> "chat", temperature |-> ABSENT,
                thinking |-> ABSENT, max |-> ABSENT, effort |-> NONE]

AnthropicRequest(e, temperature, mode) ==
    LET budget == ClaudeBudget(e, mode) IN
    [Plain(e.name) EXCEPT !.endpoint = "messages", !.thinking = budget, !.max = e.output,
        !.temperature = IF budget = ABSENT THEN temperature ELSE ABSENT]

GeminiRequest(e, temperature, mode) ==
    [Plain(e.name) EXCEPT !.endpoint = "gemini", !.temperature = temperature,
        !.thinking = GeminiBudget(e, mode)]

(* The streaming method builds its request anew, and must come to the same. *)
GeminiStream(e, temperature, mode) == GeminiRequest(e, temperature, mode)

(* The shared implementation has two endpoints.  On the responses endpoint *)
(* the effort is the model's default, whatever mode was asked for.         *)
ResponsesRequest(e, wire) ==
    [Plain(wire) EXCEPT !.endpoint = "responses",
        !.effort = IF e.effort = NONE THEN "medium" ELSE e.effort]
ChatRequest(e, wire, temperature, mode) ==
    [Plain(wire) EXCEPT !.temperature = EffectiveTemperature(e, temperature),
        !.effort = ReasoningEffort(e, mode)]
CompatibleRequest(e, wire, temperature, mode) ==
    IF e.responses THEN ResponsesRequest(e, wire) ELSE ChatRequest(e, wire, temperature, mode)

(* Streaming, which Azure and DIAL inherit: a chat request that names what *)
(* the catalog makes of the name asked for.  A model of the responses      *)
(* endpoint is not streamed but asked in one piece, by the adapter's own   *)
(* generate_content.                                                       *)
CompatibleStream(e, wire, temperature, mode, whole) ==
    IF e.responses THEN whole ELSE ChatRequest(e, wire, temperature, mode)

(* The DIAL adapter posts to a URL of the deployment and sends no effort.   *)
DialRequest(e, temperature) ==
    [Plain(e.name) EXCEPT !.endpoint = "deployment",
        !.temperature = IF e.sampling THEN temperature ELSE ABSENT]

(* Azure wants the deployment in the model field: generate_content passes  *)
(* it on as the model's name, and the shared implementation reads that     *)
(* name in the catalog once more.                                          *)
AzureWire(e) == Resolve("azure", Deployment[e.name])

(* generate_content of the adapter, and then its streaming counterpart.    *)
WholeRequest(t, e, temperature, mode) ==
    CASE t = "anthropic" -> AnthropicRequest(e, temperature, mode)
      [] t = "google" -> GeminiRequest(e, temperature, mode)
      [] t = "dial" -> DialRequest(e, temperature)
      [] t = "azure" -> CompatibleRequest(e, AzureWire(e), temperature, mode)
      [] OTHER -> CompatibleRequest(e, e.name, temperature, mode)
StreamRequest(t, e, asked, temperature, mode) ==
    CASE t = "anthropic" -> AnthropicRequest(e, temperature, mode)
      [] t = "google" -> GeminiStream(e, temperature, mode)
      [] OTHER -> CompatibleStream(e, Resolve(t, asked), temperature, mode,
                                   WholeRequest(t, e, temperature, mode))

(* The request for entry e, asked for by some name.                        *)
Request(t, e, asked, temperature, mode, stream) ==
    IF stream THEN StreamRequest(t, e, asked, temperature, mode)
    ELSE WholeRequest(t, e, temperature, mode)
=============================================================================
