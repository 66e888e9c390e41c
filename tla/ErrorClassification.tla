------------------------- MODULE ErrorClassification -------------------------
(***************************************************************************)
(* How the adapters classify the exception of a failed attempt: whether it *)
(* is retried (_is_error_retryable, overridden by the OpenAI-compatible    *)
(* and the Gemini adapter) and whether it speaks against the provider's    *)
(* health (_is_provider_unhealthy_error, which none overrides).  The two   *)
(* read the same exception in a different order: the first may trust its   *)
(* message, the second trusts only its status code.                        *)
(***************************************************************************)
EXTENDS Integers

NoStatus == 0

_RETRYABLE_STATUS_CODES == {408, 500, 502, 503, 504, 529}
_NON_RETRYABLE_STATUS_CODES == {400, 401, 403, 404, 422}

(* What the classifiers tell apart.  "text" holds the groups of words they *)
(* look for in the message: "429", "rate limit", "quota", a permanent      *)
(* quota or size limit, or one of the retryable indicators, digits such as *)
(* "500" among them.  "body" is the type or code inside an OpenAI 429.     *)
(* "cause", which no classifier sees, is whose fault the failure is: the   *)
(* backend's, the request's by the status that refused it, or the caller's *)
(* although no such status says so (a request too large for the rate limit *)
(* or the output budget, or one that fails before it is sent, such as for  *)
(* want of a client that can be built).                                    *)
Texts == SUBSET {"429", "rate limit", "quota", "permanent", "indicator"}
FaultCauses == {"backend", "refused", "unnamed"}

\* An answer without content is an error of the OpenAI-compatible adapter only.
Raised(adapter) ==
    {"timeout", "connection", "other"} \cup
    CASE adapter = "openai_compatible" -> {"emptyLength", "emptyOther"}
      [] adapter = "gemini" -> {"sdkTransient"}
      [] adapter = "anthropic" -> {}

Refusal(status) == status \in 400 .. 499 \ {408, 429}
RequestTooLarge(x) == x.raised = "emptyLength" \/ x.body # "none"
WithoutAnswer(x) == x.raised = "other" /\ x.status = NoStatus

Shapes(adapter, statuses) ==
    {x \in [raised : Raised(adapter), status : statuses, text : Texts,
            body : {"none", "tokens", "permanent"}, cause : FaultCauses] :
        /\ x.raised # "other" => x.status = NoStatus
        /\ x.body # "none" => /\ adapter = "openai_compatible"
                              /\ x.status = 429 \/ (x.status = NoStatus /\ "429" \in x.text)
        /\ x.cause = "refused" <=> Refusal(x.status)
        /\ x.cause = "unnamed" => RequestTooLarge(x) \/ WithoutAnswer(x)
        /\ x.cause = "backend" => ~RequestTooLarge(x)}

-----------------------------------------------------------------------------
IndicatorsFirst(x) ==   \* faulty variant: the words are asked before the status code
    \/ x.raised \in {"timeout", "connection"}
    \/ "indicator" \in x.text
    \/ x.status \in _RETRYABLE_STATUS_CODES

\* Class hierarchy, then status code, then words; what looks like a rate limit never.
BaseRetries(x) ==
    /\ x.text \cap {"429", "rate limit"} = {}
    /\ \/ x.raised \in {"timeout", "connection"}
       \/ x.status \in _RETRYABLE_STATUS_CODES
       \/ "indicator" \in x.text /\ x.status \notin _NON_RETRYABLE_STATUS_CODES

\* A rate limit is one by its status, or by its words when it has no status, and is
\* retried unless its body says that the request itself is too large or invalid.
RateLimited(x) == x.status = 429 \/ (x.status = NoStatus /\ "429" \in x.text)

CompatibleRetries(x) ==
    CASE x.raised \in {"emptyLength", "emptyOther"} -> x.raised = "emptyOther"
      [] x.raised \in {"timeout", "connection"} -> TRUE
      [] OTHER -> \/ RateLimited(x) /\ x.body = "none"
                  \/ x.status \in _RETRYABLE_STATUS_CODES
                  \/ /\ ~RateLimited(x)
                     /\ x.status \notin _NON_RETRYABLE_STATUS_CODES
                     /\ BaseRetries(x)

\* Words about quotas are asked before anything else.
GeminiRetries(x) ==
    IF x.text \cap {"429", "quota"} # {}
    THEN "permanent" \notin x.text
    ELSE x.raised = "sdkTransient" \/ BaseRetries(x)

\* The adapters that classify for themselves; the Anthropic one uses the base class.
Retries(adapter, x) ==
    CASE adapter = "openai_compatible" -> CompatibleRetries(x)
      [] adapter = "gemini" -> GeminiRetries(x)
      [] adapter = "anthropic" -> BaseRetries(x)

\* Only a 4xx other than a request timeout or a rate limit is the caller's fault.
ProviderUnhealthy(x) == ~(x.status \in 400 .. 499 \ {408, 429})

\* What ProviderCall sees of x: the two verdicts, and whose fault it was.
Class(adapter, x) ==
    [retried |-> Retries(adapter, x), unhealthy |-> ProviderUnhealthy(x), cause |-> x.cause]

\* The errors of the OpenAI-compatible and the Anthropic adapter, with the status codes
\* that their lists name.
Listed == {NoStatus, 429} \cup _RETRYABLE_STATUS_CODES \cup _NON_RETRYABLE_STATUS_CODES

ListedErrors ==
    {Class("openai_compatible", x) : x \in Shapes("openai_compatible", Listed)} \cup
    {Class("anthropic", x) : x \in Shapes("anthropic", Listed)}
=============================================================================
