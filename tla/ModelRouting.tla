---------------------------- MODULE ModelRouting ----------------------------
(***************************************************************************)
(* From a model name to a request: configure_providers registers the       *)
(* providers whose keys are set, the restriction service holds the         *)
(* allowlists, and every call that names a model (or "auto") is routed to  *)
(* the first provider, in priority order, that validates the name.         *)
(*                                                                         *)
(* The restriction service is one object for the whole process, and asking *)
(* it changes it: is_allowed adds a resolved name to the allowlist it was  *)
(* asked about.  Lists, fallbacks and routes all ask.                      *)
(***************************************************************************)
EXTENDS ProviderRequests

CONSTANTS
    Settings,      \* environments: records of keys, policy, azureOwn, auto
    Temperatures,  \* temperatures callers ask for
    Categories     \* tool categories that occur

ASSUME RoutingAssumption ==
    /\ Temperatures \subseteq Int /\ Categories \subseteq {"extended", "fast", "balanced"}
    /\ \A s \in Settings : s.policy \in [ProviderTypes -> SUBSET Names]

VARIABLES
    setting,       \* the environment the process was started in
    allowed,       \* the restriction service's sets; {} is "no restriction"
    phase,         \* "new", "up" or "refused" (configure_providers raised)
    last           \* how the call being answered ended

vars == <<setting, allowed, phase, last>>

Modes == ThinkingModes
Asks == Names \cup {"auto"}
Outcomes == {"none", "sent", "rejected", "unavailable", "no_models"}

Nothing == [outcome |-> "none", kind |-> NONE, asked |-> NONE, name |-> NONE,
            type |-> NONE, model |-> NONE, stream |-> FALSE, request |-> Plain(NONE)]

TypeOK ==
    /\ setting \in Settings
    /\ allowed \in [ProviderTypes -> SUBSET Names]
    /\ phase \in {"new", "up", "refused"}
    /\ last.outcome \in Outcomes

-----------------------------------------------------------------------------
(* The providers configure_providers registers: a key left at its template *)
(* value counts as unset, and Azure needs a deployment as well.            *)
Registered ==
    {t \in ProviderTypes : setting.keys[t] = "set" /\ (t = "azure" => Entries(t) # {})}

(* The restriction service.  An allowlist entry admits the name itself and *)
(* whatever it resolves to.                                                *)
ResolvedEntries(A, t) == {Resolve(t, e) : e \in A[t]}

IsAllowed(A, t, names) == A[t] = {} \/ names \cap (A[t] \cup ResolvedEntries(A, t)) # {}

\* Faulty variant: what was asked about is on the list from then on.
LearnsAsked(A, t, names) == IF A[t] = {} THEN {} ELSE A[t] \cup names

(* What asking about the names leaves in the allowlist: nothing new when   *)
(* one of them is listed already.                                          *)
Learned(A, t, names) ==
    IF names \cap A[t] # {} THEN A[t] ELSE A[t] \cup (ResolvedEntries(A, t) \cap names)

(* AZURE_ALLOWED_MODELS is read by the adapter alone, and only when        *)
(* AZURE_OPENAI_ALLOWED_MODELS is empty; the other adapters' own allowlist *)
(* is read from the variable the service reads, and adds nothing to it.    *)
AdapterAllows(t, c) ==
    \/ t # "azure" \/ setting.policy["azure"] # {} \/ setting.azureOwn = {}
    \/ c \in setting.azureOwn \cup {Resolve(t, e) : e \in setting.azureOwn}

\* Faulty variant: a known model is served whatever the allowlist says.
CapableUnrestricted(A, t, n) == Known(t, Resolve(t, AsAsked(t, n)))

(* get_capabilities returns, instead of raising ValueError; the names the  *)
(* service is asked about on the way.                                      *)
AskedNames(t, n) == {AsAsked(t, n), Resolve(t, AsAsked(t, n))}
Capable(A, t, n) ==
    LET c == Resolve(t, AsAsked(t, n)) IN
    Known(t, c) /\ IsAllowed(A, t, AskedNames(t, n)) /\ AdapterAllows(t, c)
AfterCapable(A, t, n) ==
    IF Known(t, Resolve(t, AsAsked(t, n))) THEN Learned(A, t, AskedNames(t, n)) ELSE A[t]
AfterAsking(A, t, n) == [A EXCEPT ![t] = AfterCapable(A, t, n)]

(* validate_model_name: Azure claims every deployment it has, whatever the *)
(* allowlist says.                                                         *)
Validates(A, t, n) == (t = "azure" /\ AzureClaims(n)) \/ Capable(A, t, n)

(* get_provider_for_model: the first provider that validates the name, and *)
(* what the providers asked on the way left in their allowlists.           *)
Earliest(T) == CHOOSE t \in T : \A u \in T : Priority(t) <= Priority(u)
Route(A, n) ==
    LET takers == {t \in Registered : Validates(A, t, n)} IN
    IF takers = {} THEN NONE ELSE Earliest(takers)
AfterRoute(A, n, taker) ==
    [t \in ProviderTypes |->
        IF /\ t \in Registered
           /\ taker # NONE => Priority(t) <= Priority(taker)
           /\ ~(t = "azure" /\ AzureClaims(n))
        THEN AfterCapable(A, t, n) ELSE A[t]]

-----------------------------------------------------------------------------
(* Lists.  list_models asks about every canonical name; OpenRouter about   *)
(* aliases too, but lists none of them while it respects restrictions.     *)
AfterLists(A) ==
    [t \in ProviderTypes |->
        IF t \in Registered THEN A[t] \cup (ResolvedEntries(A, t) \cap Canonicals(t)) ELSE A[t]]

AllowedEntries(A, t) ==
    {e \in Entries(t) :
        \/ IsAllowed(A, t, {e.name})
        \/ t = "openrouter" /\ \E a \in e.aliases : IsAllowed(A, t, {a})}
ListModels(A, t) ==
    {e.name : e \in AllowedEntries(A, t)}
        \cup (IF t = "openrouter" THEN {} ELSE UNION {e.aliases : e \in AllowedEntries(A, t)})

(* get_available_models: a restricted provider shows the entries of its    *)
(* allowlist it can serve (_collect_restricted_display_names), or else     *)
(* what it lists.                                                          *)
Displayed(A, t) ==
    LET shown == {n \in A[t] : Capable(A, t, n)} IN
    IF A[t] = {} THEN ListModels(A, t)
    ELSE OrElse(shown, OrElse(A[t] \cap ListModels(A, t), ListModels(A, t)))

Available(A) ==
    LET B == AfterLists(A) IN UNION {Displayed(B, t) : t \in Registered}

(* listmodels: the list of a restricted provider, all names of another's   *)
(* models, and those of the custom endpoint whatever its allowlist says.   *)
NamesOf(t) == UNION {{e.name} \cup e.aliases : e \in Entries(t)}
PrintedWhole(A) ==
    {t \in Registered : t = "custom" \/ (t # "openrouter" /\ A[t] = {})}
Printed(A) == Available(A) \cup UNION {NamesOf(t) : t \in PrintedWhole(A)}

(* get_preferred_fallback_model: the first provider that chooses, or the   *)
(* first name of the first provider that has any.                          *)
Offered(A, t) == {n \in NamesOf(t) : IsAllowed(A, t, {n})}
Offering(A) == {t \in Registered : Offered(A, t) # {}}
Choosing(A) == Offering(A) \cap Choosers
HasFallback(A) == Offering(A) # {}
Fallback(A, category) ==
    LET choosing == Choosing(A)
        t == Earliest(OrElse(choosing, Offering(A))) IN
    IF choosing # {} THEN SelectPreferred(t, category, Offered(A, t)) ELSE First(Offered(A, t))
AfterFallback(A) ==
    LET choosing == Choosing(A)
        B == AfterLists(A) IN
    [t \in ProviderTypes |->
        IF choosing # {} => Priority(t) <= Priority(Earliest(choosing)) THEN B[t] ELSE A[t]]

-----------------------------------------------------------------------------
Init ==
    /\ setting \in Settings
    /\ allowed = setting.policy
    /\ phase = "new"
    /\ last = Nothing

(* configure_providers: at least one provider, and in auto mode at least   *)
(* one model on the list.                                                  *)
Configure ==
    /\ phase = "new"
    /\ phase' = IF Registered = {} \/ (setting.auto /\ Available(allowed) = {})
                THEN "refused" ELSE "up"
    /\ allowed' = IF setting.auto /\ Registered # {} THEN AfterLists(allowed) ELSE allowed
    /\ UNCHANGED <<setting, last>>

(* The capabilities a request is built from; OpenRouter makes them up for  *)
(* a "vendor/model" name it does not know.                                 *)
Generic(c) ==
    [type |-> "openrouter", name |-> c, aliases |-> {}, score |-> 9, thinks |-> FALSE,
     maxThinking |-> 0, output |-> 32768, sampling |-> TRUE, constraint |-> "range",
     responses |-> FALSE, efforts |-> {}, effort |-> NONE]
EntryOf(t, n) ==
    LET c == Resolve(t, AsAsked(t, n)) IN
    IF EntryFor(t, c) = {} THEN Generic(c) ELSE CHOOSE e \in EntryFor(t, c) : TRUE

Ended(outcome, kind, asked, name) ==
    [Nothing EXCEPT !.outcome = outcome, !.kind = kind, !.asked = asked, !.name = name]
Sent(kind, asked, name, t, e, stream, request) ==
    [Ended("sent", kind, asked, name) EXCEPT
        !.type = t, !.model = e.name, !.stream = stream, !.request = request]

(* handle_call_tool: the name, or the model "auto" stands for.             *)
ModelNamed(n, category) == IF n = "auto" THEN Fallback(allowed, category) ELSE Parsed(n)
AfterAuto(n) == IF n = "auto" THEN AfterFallback(allowed) ELSE allowed

NoModelForAuto(kind) ==
    /\ phase = "up" /\ ~HasFallback(allowed)
    /\ allowed' = AfterFallback(allowed)
    /\ last' = Ended("no_models", kind, "auto", NONE)
    /\ UNCHANGED <<setting, phase>>

(* No provider takes the name: the error lists the models and suggests     *)
(* one, or fails for want of any.                                          *)
Unavailable(kind, n, name, A, t) ==
    /\ t = NONE
    /\ LET B == AfterRoute(A, name, t) IN
       /\ allowed' = AfterLists(B)
       /\ last' = Ended(IF HasFallback(B) THEN "unavailable" ELSE "no_models", kind, n, name)

(* A tool reads the model's capabilities before it builds its prompt; that *)
(* is where a model Azure claimed against the allowlist is refused.        *)
Rejected(kind, n, name, A, t) ==
    /\ t # NONE /\ ~Capable(AfterRoute(A, name, t), t, name)
    /\ allowed' = AfterAsking(AfterRoute(A, name, t), t, name)
    /\ last' = Ended("rejected", kind, n, name)

(* A simple tool asks for thinking only where the model thinks; expert     *)
(* analysis passes its mode on, streaming the answer or not.               *)
Streams(kind) == IF kind = "expert" THEN BOOLEAN ELSE {FALSE}
ModeSent(kind, e, mode) == IF kind = "simple" /\ ~e.thinks THEN NONE ELSE mode

(* Azure's adapter has the shared implementation ask about the deployment, *)
(* except for a stream of chat chunks.                                     *)
AfterSending(A, t, n, stream) ==
    LET B == AfterAsking(A, t, n)
        e == EntryOf(t, n) IN
    IF t = "azure" /\ (stream => e.responses) THEN AfterAsking(B, t, Deployment[e.name]) ELSE B

Served(kind, n, name, A, t) ==
    /\ t # NONE /\ Capable(AfterRoute(A, name, t), t, name)
    /\ \E e \in {EntryOf(t, name)} :
       \E temperature \in Temperatures, mode \in Modes, stream \in Streams(kind) :
          /\ allowed' = AfterSending(AfterRoute(A, name, t), t, name, stream)
          /\ last' = Sent(kind, n, name, t, e, stream,
                          Request(t, e, name, ToolTemperature(e, temperature),
                                  ModeSent(kind, e, mode), stream))

(* consensus takes the names of its models as they are, without parsing,   *)
(* and goes on without capabilities: _consult_model.                       *)
CONSULT_TEMPERATURE == 10

UncheckedRequest(e) ==
    IF AzureWire(e) = e.name /\ e.responses
    THEN [Plain(AzureWire(e)) EXCEPT !.endpoint = "responses", !.effort = "medium"]
    ELSE [Plain(AzureWire(e)) EXCEPT !.temperature = CONSULT_TEMPERATURE]

Consult(n) ==
    /\ phase = "up"
    /\ \E t \in {Route(allowed, n)} : \E A \in {AfterRoute(allowed, n, t)} :
       IF t = NONE
       THEN /\ allowed' = AfterLists(A)
            /\ last' = Ended("unavailable", "consult", n, n)
       ELSE \E e \in {EntryOf(t, n)} :
            /\ allowed' = AfterSending(A, t, n, FALSE)
            /\ last' = Sent("consult", n, n, t, e, FALSE,
                           IF Capable(A, t, n)
                           THEN Request(t, e, n, ToolTemperature(e, CONSULT_TEMPERATURE),
                                        "medium", FALSE)
                           ELSE UncheckedRequest(e))
    /\ UNCHANGED <<setting, phase>>

(* listmodels and version ask for the list; the reconstruction of a thread *)
(* picks a fallback (resolve_fallback_model), turning to the list when no  *)
(* provider offers one.                                                    *)
ShowModels ==
    /\ phase = "up"
    /\ allowed' = AfterLists(allowed)
    /\ UNCHANGED <<setting, phase, last>>

PickFallback ==
    /\ phase = "up"
    /\ allowed' = IF HasFallback(allowed) THEN AfterFallback(allowed) ELSE AfterLists(allowed)
    /\ UNCHANGED <<setting, phase, last>>

Kinds == {"simple", "expert"}

CategoriesFor(n) == IF n = "auto" THEN Categories ELSE {"balanced"}

ToolCall(kind) ==
    \/ NoModelForAuto(kind)
    \/ /\ phase = "up"
       /\ UNCHANGED <<setting, phase>>
       /\ \E n \in Asks : \E category \in CategoriesFor(n) :
             /\ n = "auto" => HasFallback(allowed)
             /\ \E name \in {ModelNamed(n, category)}, A \in {AfterAuto(n)} :
                \E t \in {Route(A, name)} :
                \/ Unavailable(kind, n, name, A, t)
                \/ Rejected(kind, n, name, A, t)
                \/ Served(kind, n, name, A, t)

(* The call is answered; nothing of it is kept but what it left in the     *)
(* allowlists.                                                             *)
Answered ==
    /\ last # Nothing
    /\ last' = Nothing
    /\ UNCHANGED <<setting, allowed, phase>>

Next ==
    \/ last = Nothing /\ (Configure \/ ShowModels \/ PickFallback)
    \/ last = Nothing /\ (\E kind \in Kinds : ToolCall(kind))
    \/ last = Nothing /\ (\E n \in Names : Consult(n))
    \/ Answered

Spec == Init /\ [][Next]_vars

-----------------------------------------------------------------------------
(* The models a provider's allowlist names.                                *)
Admitted(t) == {Resolve(t, e) : e \in setting.policy[t]}
RestrictedAzure == setting.policy["azure"] # {} \/ setting.azureOwn # {}

(* Nothing more comes of resolving what the custom endpoint has resolved a *)
(* name to, unless it is a model the endpoint does not have.  The code     *)
(* checks it nowhere: it holds of the shipped catalogs, whose custom       *)
(* models share no name with OpenRouter's.                                 *)
Foreign(t, n) == EntryFor(t, n) = {} /\ EntryFor(t, Resolve(t, n)) = {}
ResolvesOnce ==
    \A c \in {Resolve("custom", n) : n \in Names} :
        Resolve("custom", c) = c \/ Foreign("custom", c)

(* Every request goes to a model its provider's allowlist admits, whatever *)
(* was asked before and under whichever name: is_allowed, the routes, the  *)
(* lists and the fallback change the list they read.  Left out is a model  *)
(* a consensus asks of a restricted Azure, whose adapter claims every      *)
(* deployment it has.                                                      *)
OnlyAllowedServed ==
    last.outcome = "sent" =>
        \/ setting.policy[last.type] = {}
        \/ last.model \in Admitted(last.type)
        \/ last.kind = "consult" /\ last.type = "azure"

(* What the service and the lists answer does not depend on what they were *)
(* asked before, though every question may add to the allowlists.          *)
AnswersStable ==
    last = Nothing =>
    /\ \A t \in Registered, n \in Names :
           Capable(allowed, t, n) = Capable(setting.policy, t, n)
    /\ \A n \in Names : Route(allowed, n) = Route(setting.policy, n)
    /\ Available(allowed) = Available(setting.policy)
    /\ \A t \in Registered : Offered(allowed, t) = Offered(setting.policy, t)

(* A model on the list, or printed by listmodels, is served to the tool    *)
(* that asks for it by that name, and to a consensus: what is shown and    *)
(* the route agree across providers, allowlists and aliases two providers  *)
(* share.  A name whose ":" a tool call reads as an option is out of a     *)
(* tool's reach, and so are two kinds of names of a restricted Azure: it   *)
(* claims names shown for a later provider, and its adapter refuses names  *)
(* that are shown when the allowlist is in AZURE_ALLOWED_MODELS, which the *)
(* service ignores.  Of listmodels' alone, so are the names of a custom    *)
(* endpoint with an allowlist, which it does not ask.                      *)
ServedAs(n) == Route(allowed, n) # NONE /\ Capable(allowed, Route(allowed, n), n)
AzureWithholds(n) ==
    \/ RestrictedAzure /\ Route(allowed, n) = "azure"
    \/ EntryFor("azure", n) # {} /\ ~AdapterAllows("azure", Resolve("azure", n))
CustomWithholds(n) == n \in NamesOf("custom") /\ setting.policy["custom"] # {}
ListedIsServed ==
    (phase = "up" /\ last = Nothing) =>
        /\ \A n \in Available(allowed) : ServedAs(n) \/ AzureWithholds(n)
        /\ \A n \in Printed(allowed) : ServedAs(n) \/ AzureWithholds(n) \/ CustomWithholds(n)

(* In auto mode a server that came up serves every category, with a model  *)
(* on the list, unless the lists hold nothing but models no catalog        *)
(* declares or a restricted Azure withholds the choice.                    *)
AutoServes ==
    (phase = "up" /\ last = Nothing /\ HasFallback(allowed)) =>
        \A category \in Categories :
            LET n == Fallback(allowed, category) IN ServedAs(n) \/ AzureWithholds(n)

(* A request that asks Claude for thinking leaves room for the answer and  *)
(* names no temperature: the floor, the cap and the fallback to no         *)
(* thinking at all must agree for every budget.                            *)
ThinkingFits ==
    (last.outcome = "sent" /\ last.type = "anthropic" /\ last.request.thinking # ABSENT) =>
        /\ MIN_THINKING_BUDGET <= last.request.thinking
        /\ last.request.thinking < last.request.max
        /\ last.request.temperature = ABSENT

(* No request carries a temperature its model refuses, or a reasoning      *)
(* effort outside the ones it declares on the chat endpoint; the           *)
(* corrections happen in the tool and again in the adapter.                *)
ParametersAccepted ==
    last.outcome = "sent" =>
        LET e == EntryOf(last.type, last.name) IN
        /\ last.request.temperature # ABSENT =>
              ValidTemperature(e.constraint, last.request.temperature)
        /\ (last.request.endpoint = "chat" /\ last.request.effort # NONE) =>
              last.request.effort \in e.efforts

(* Azure is asked by deployment name however the model was named, except   *)
(* by the streaming path, which the adapter inherits, and except that a    *)
(* deployment the catalog knows as an alias of its model is asked for by   *)
(* the model's name.                                                       *)
DeploymentOnWire ==
    (last.outcome = "sent" /\ last.type = "azure") =>
        \/ /\ EntryFor("azure", Deployment[last.model]) = {}
           /\ last.request.wire = Deployment[last.model]
        \/ /\ EntryFor("azure", Deployment[last.model]) # {}
           /\ last.request.wire = last.model
        \/ last.stream

(* What is sent is a request the model behind it accepts.                  *)
RequestsAreSound == ThinkingFits /\ ParametersAccepted /\ DeploymentOnWire
=============================================================================
