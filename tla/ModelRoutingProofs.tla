-------------------------- MODULE ModelRoutingProofs --------------------------
(***************************************************************************)
(* Theorems about the requests the adapters send, about the restrictions   *)
(* and about the names the server shows, for every catalog of models,      *)
(* every environment and every temperature a caller asks for.              *)
(***************************************************************************)
EXTENDS ModelSchema, FiniteSetTheorems, TLAPS

\* What is used of the entry a request is built from.
SoundEntry(e) ==
    /\ e.output \in Nat /\ e.maxThinking \in Nat
    /\ e.constraint \in {"fixed", "discrete", "range"}
    /\ e.efforts \subseteq ThinkingModes /\ e.effort \in ThinkingModes \cup {NONE}

\* Every entry is sound, the ones made up for undeclared names too.
LEMMA EntriesAreSound ==
  ASSUME NEW t, NEW n
  PROVE  SoundEntry(EntryOf(t, n))
<1> DEFINE c == Resolve(t, AsAsked(t, n))
<1>1. CASE EntryFor(t, c) = {}
  <2>1. EntryOf(t, n) = Generic(c)
    BY <1>1 DEF EntryOf
  <2> QED
    BY <2>1 DEF SoundEntry, Generic
<1>2. CASE EntryFor(t, c) # {}
  <2>1. EntryOf(t, n) \in EntryFor(t, c)
    BY <1>2 DEF EntryOf
  <2>2. t \in ProviderTypes /\ c \in Names
    BY <1>2 DEF EntryFor
  <2> QED
    BY <2>1, <2>2, RequestAssumption DEF SoundEntry
<1> QED
  BY <1>1, <1>2

-----------------------------------------------------------------------------
(* Thinking.                                                               *)

\* A mode has a rung, and a share of the budget.
LEMMA RungType ==
  ASSUME NEW mode \in ThinkingModes
  PROVE  Rung(mode) \in 1 .. 5 /\ THINKING_LADDER[Rung(mode)] = mode /\ ThinkingShare(mode) \in Nat
<1>1. DOMAIN THINKING_LADDER = 1 .. 5
  BY DEF THINKING_LADDER
<1>2. \E i \in DOMAIN THINKING_LADDER : THINKING_LADDER[i] = mode
  BY DEF ThinkingModes
<1>3. Rung(mode) \in 1 .. 5 /\ THINKING_LADDER[Rung(mode)] = mode
  BY <1>1, <1>2 DEF Rung
<1> HIDE DEF THINKING_LADDER
<1>4. <<5, 80, 330, 670, 1000>>[Rung(mode)] \in Nat
  BY <1>3
<1> QED
  BY <1>3, <1>4 DEF ThinkingShare

\* The floor, the cap and the fallback to no thinking agree: a budget leaves room for the answer.
LEMMA BudgetFits ==
  ASSUME NEW e, SoundEntry(e), NEW mode \in ThinkingModes \cup {NONE}, ClaudeBudget(e, mode) # ABSENT
  PROVE  MIN_THINKING_BUDGET <= ClaudeBudget(e, mode) /\ ClaudeBudget(e, mode) < e.output
<1> DEFINE share == Budget(e.maxThinking, mode)
           budget == Fitted(Floored(share), e.output)
<1>1. mode # NONE /\ budget >= MIN_THINKING_BUDGET /\ ClaudeBudget(e, mode) = budget
  BY DEF ClaudeBudget
<1>2. share \in Int
  <2>1. ThinkingShare(mode) \in Nat /\ e.maxThinking \in Nat
    BY <1>1, RungType DEF SoundEntry
  <2>2. e.maxThinking * ThinkingShare(mode) \in Int
    BY <2>1
  <2> QED
    BY <2>2 DEF Budget
<1> HIDE DEF share
<1>3. Floored(share) \in Int
  BY <1>2 DEF Floored, MIN_THINKING_BUDGET
<1>4. budget \in Int /\ budget < e.output
  BY <1>3 DEF Fitted, MIN_THINKING_BUDGET, SoundEntry
<1> HIDE DEF budget
<1> QED
  BY <1>1, <1>4 DEF MIN_THINKING_BUDGET

-----------------------------------------------------------------------------
(* Temperatures and efforts.                                               *)

\* A temperature that was corrected is one the model takes.
LEMMA CorrectedIsValid ==
  ASSUME NEW constraint \in {"fixed", "discrete", "range"}, NEW x \in Int
  PROVE  /\ CorrectedTemperature(constraint, x) \in Int
         /\ ValidTemperature(constraint, CorrectedTemperature(constraint, x))
<1>1. CASE constraint = "fixed"
  BY <1>1 DEF CorrectedTemperature, ValidTemperature
<1>2. CASE constraint = "range"
  BY <1>2 DEF CorrectedTemperature, ValidTemperature
<1>3. CASE constraint = "discrete"
  <2> DEFINE Near(v) == \A w \in DISCRETE :
                 \/ Distance(v, x) < Distance(w, x)
                 \/ Distance(v, x) = Distance(w, x) /\ v <= w
  <2>1. \E v \in DISCRETE : Near(v)
    <3>1. CASE x <= 1
      <4>1. Near(0) /\ 0 \in DISCRETE
        BY <3>1 DEF Distance, DISCRETE
      <4> QED
        BY <4>1
    <3>2. CASE 1 < x /\ x <= 5
      <4>1. Near(3) /\ 3 \in DISCRETE
        BY <3>2 DEF Distance, DISCRETE
      <4> QED
        BY <4>1
    <3>3. CASE 5 < x /\ x <= 8
      <4>1. Near(7) /\ 7 \in DISCRETE
        BY <3>3 DEF Distance, DISCRETE
      <4> QED
        BY <4>1
    <3>4. CASE 8 < x /\ x <= 12
      <4>1. Near(10) /\ 10 \in DISCRETE
        BY <3>4 DEF Distance, DISCRETE
      <4> QED
        BY <4>1
    <3>5. CASE 12 < x /\ x <= 17
      <4>1. Near(15) /\ 15 \in DISCRETE
        BY <3>5 DEF Distance, DISCRETE
      <4> QED
        BY <4>1
    <3>6. CASE 17 < x
      <4>1. Near(20) /\ 20 \in DISCRETE
        BY <3>6 DEF Distance, DISCRETE
      <4> QED
        BY <4>1
    <3> QED
      BY <3>1, <3>2, <3>3, <3>4, <3>5, <3>6
  <2>2. CorrectedTemperature(constraint, x) = CHOOSE v \in DISCRETE : Near(v)
    BY <1>3 DEF CorrectedTemperature
  <2>3. CorrectedTemperature(constraint, x) \in DISCRETE
    BY <2>1, <2>2
  <2> QED
    BY <1>3, <2>3 DEF ValidTemperature, DISCRETE
<1> QED
  BY <1>1, <1>2, <1>3

\* What a tool passes on, and what an adapter sends of it, are valid or left off.
LEMMA TemperaturesAreValid ==
  ASSUME NEW e, SoundEntry(e), NEW x \in Int
  PROVE  /\ ToolTemperature(e, x) \in Int /\ ValidTemperature(e.constraint, ToolTemperature(e, x))
         /\ \A y \in Int : EffectiveTemperature(e, y) # ABSENT =>
                ValidTemperature(e.constraint, EffectiveTemperature(e, y))
  BY CorrectedIsValid DEF ToolTemperature, EffectiveTemperature, SoundEntry

\* The effort that is sent is one the model accepts.
LEMMA EffortsAreAccepted ==
  ASSUME NEW e, SoundEntry(e), NEW mode \in ThinkingModes \cup {NONE}, ReasoningEffort(e, mode) # NONE
  PROVE  ReasoningEffort(e, mode) \in e.efforts
<1> DEFINE value == IF mode = NONE THEN e.effort ELSE mode
<1>1. e.efforts # {} /\ value # NONE /\ ReasoningEffort(e, mode) = Nearest(e, value)
  BY DEF ReasoningEffort
<1>2. value \in ThinkingModes
  BY <1>1 DEF SoundEntry
<1> HIDE DEF value
<1> DEFINE r == Rung(value)
           Closest(f) == \A g \in e.efforts :
                Distance(Rung(f), r) < Distance(Rung(g), r)
                \/ (Distance(Rung(f), r) = Distance(Rung(g), r) /\ Rung(f) >= Rung(g))
<1>3. r \in 1 .. 5 /\ \A f \in e.efforts : Rung(f) \in 1 .. 5
  BY <1>2, RungType DEF SoundEntry
<1> HIDE DEF r
<1> DEFINE On(k) == \E f \in e.efforts : Rung(f) = k
<1>4. \E f \in e.efforts : Closest(f)
  <2>1. ASSUME NEW f \in e.efforts, NEW d \in 0 .. 4,
               \/ Rung(f) = r + d /\ \A g \in e.efforts : Distance(Rung(g), r) >= d
               \/ Rung(f) = r - d /\ \A g \in e.efforts : Distance(Rung(g), r) >= d /\ Rung(g) # r + d
        PROVE  Closest(f)
    BY <1>3, <2>1 DEF Distance
  <2>2. \A d \in 0 .. 4 : (\A g \in e.efforts : Distance(Rung(g), r) >= d) =>
            \/ On(r + d) \/ On(r - d)
            \/ \A g \in e.efforts : Distance(Rung(g), r) >= d + 1
    BY <1>3 DEF Distance
  <2>3. \A d \in 0 .. 4 : (\A g \in e.efforts : Distance(Rung(g), r) >= d) /\ (On(r + d) \/ On(r - d))
            => \E f \in e.efforts : Closest(f)
    <3> SUFFICES ASSUME NEW d \in 0 .. 4, \A g \in e.efforts : Distance(Rung(g), r) >= d, On(r + d) \/ On(r - d)
                 PROVE  \E f \in e.efforts : Closest(f)
      OBVIOUS
    <3> HIDE DEF Closest
    <3>1. CASE On(r + d)
      BY <2>1, <3>1
    <3>2. CASE ~On(r + d) /\ On(r - d)
      BY <2>1, <3>2
    <3> QED
      BY <3>1, <3>2
  <2>4. \A g \in e.efforts : Distance(Rung(g), r) >= 0 /\ Distance(Rung(g), r) <= 4
    BY <1>3 DEF Distance
  <2> HIDE DEF Closest, On
  <2> DEFINE Beyond(d) == \A g \in e.efforts : Distance(Rung(g), r) >= d
  <2>5. Beyond(0)
    BY <2>4
  <2>6. \A d \in 0 .. 4 : Beyond(d) => (\E f \in e.efforts : Closest(f)) \/ Beyond(d + 1)
    BY <2>2, <2>3
  <2>7. ~Beyond(5)
    <3>1. \A g \in e.efforts : Distance(Rung(g), r) \in Int
      BY <1>3 DEF Distance
    <3> QED
      BY <1>1, <2>4, <3>1
  <2> HIDE DEF Beyond
  <2> QED
    BY <2>5, <2>6, <2>7
<1>5. Nearest(e, value) = CHOOSE f \in e.efforts : Closest(f)
  BY DEF Nearest, r
<1> HIDE DEF Closest
<1> QED
  BY <1>1, <1>4, <1>5

-----------------------------------------------------------------------------
(* Requests.                                                               *)

\* What the adapter of a provider sends for a temperature the tool has corrected.
SoundRequest(t, e, request) ==
    /\ (t = "anthropic" /\ request.thinking # ABSENT) =>
          /\ MIN_THINKING_BUDGET <= request.thinking /\ request.thinking < request.max
          /\ request.temperature = ABSENT
    /\ request.temperature # ABSENT => ValidTemperature(e.constraint, request.temperature)
    /\ (request.endpoint = "chat" /\ request.effort # NONE) => request.effort \in e.efforts

\* Claude's request: thinking fits, and then no temperature is named.
LEMMA AnthropicIsSound ==
  ASSUME NEW t, NEW e, SoundEntry(e), NEW x \in Int, ValidTemperature(e.constraint, x),
         NEW mode \in ThinkingModes \cup {NONE}
  PROVE  SoundRequest(t, e, AnthropicRequest(e, x, mode))
<1> DEFINE request == AnthropicRequest(e, x, mode)
<1>1. /\ request.thinking = ClaudeBudget(e, mode) /\ request.max = e.output
      /\ request.endpoint = "messages"
      /\ request.temperature = IF ClaudeBudget(e, mode) = ABSENT THEN x ELSE ABSENT
  BY DEF AnthropicRequest, Plain
<1> HIDE DEF request
<1>2. SoundRequest(t, e, request)
  BY <1>1, BudgetFits DEF SoundRequest
<1> QED
  BY <1>2 DEF request

\* The chat endpoint of the shared implementation corrects both parameters.
LEMMA ChatIsSound ==
  ASSUME NEW t, t # "anthropic", NEW e, SoundEntry(e), NEW wire, NEW x \in Int,
         NEW mode \in ThinkingModes \cup {NONE}
  PROVE  SoundRequest(t, e, ChatRequest(e, wire, x, mode))
<1> DEFINE request == ChatRequest(e, wire, x, mode)
<1>1. /\ request.endpoint = "chat" /\ request.effort = ReasoningEffort(e, mode)
      /\ request.temperature = EffectiveTemperature(e, x)
  BY DEF ChatRequest, Plain
<1> HIDE DEF request
<1>2. request.temperature # ABSENT => ValidTemperature(e.constraint, request.temperature)
  BY <1>1, TemperaturesAreValid
<1>3. request.effort # NONE => request.effort \in e.efforts
  BY <1>1, EffortsAreAccepted
<1>4. SoundRequest(t, e, request)
  BY <1>2, <1>3 DEF SoundRequest
<1> QED
  BY <1>4 DEF request

\* The responses endpoint takes no temperature.
LEMMA ResponsesIsSound ==
  ASSUME NEW t, t # "anthropic", NEW e, NEW wire
  PROVE  SoundRequest(t, e, ResponsesRequest(e, wire))
  BY DEF SoundRequest, ResponsesRequest, Plain

\* The request of every adapter in one piece.
LEMMA WholeIsSound ==
  ASSUME NEW t, NEW e, SoundEntry(e), NEW x \in Int, ValidTemperature(e.constraint, x),
         NEW mode \in ThinkingModes \cup {NONE}
  PROVE  SoundRequest(t, e, WholeRequest(t, e, x, mode))
<1>1. CASE t = "anthropic"
  BY <1>1, AnthropicIsSound DEF WholeRequest
<1>2. CASE t = "google"
  BY <1>2 DEF WholeRequest, GeminiRequest, Plain, SoundRequest
<1>3. CASE t = "dial"
  <2>1. WholeRequest(t, e, x, mode) = DialRequest(e, x)
    BY <1>3 DEF WholeRequest
  <2> QED
    BY <1>3, <2>1 DEF DialRequest, Plain, SoundRequest
<1>4. CASE t \notin {"anthropic", "google", "dial"}
  <2>1. \E wire : WholeRequest(t, e, x, mode) = CompatibleRequest(e, wire, x, mode)
    BY <1>4 DEF WholeRequest
  <2> QED
    BY <1>4, <2>1, ChatIsSound, ResponsesIsSound DEF CompatibleRequest
<1> QED
  BY <1>1, <1>2, <1>3, <1>4

\* Streaming builds the request anew and comes to a sound one too.
LEMMA RequestIsSound ==
  ASSUME NEW t, NEW e, SoundEntry(e), NEW asked, NEW x \in Int, ValidTemperature(e.constraint, x),
         NEW mode \in ThinkingModes \cup {NONE}, NEW stream \in BOOLEAN
  PROVE  SoundRequest(t, e, Request(t, e, asked, x, mode, stream))
<1>1. CASE ~stream
  BY <1>1, WholeIsSound DEF Request
<1>2. CASE stream /\ t = "anthropic"
  BY <1>2, AnthropicIsSound DEF Request, StreamRequest
<1>3. CASE stream /\ t = "google"
  <2>1. Request(t, e, asked, x, mode, stream) = GeminiRequest(e, x, mode)
    BY <1>3 DEF Request, StreamRequest, GeminiStream
  <2> QED
    BY <1>3, <2>1 DEF GeminiRequest, Plain, SoundRequest
<1>4. CASE stream /\ t \notin {"anthropic", "google"}
  <2>1. Request(t, e, asked, x, mode, stream) =
            IF e.responses THEN WholeRequest(t, e, x, mode)
            ELSE ChatRequest(e, Resolve(t, asked), x, mode)
    BY <1>4 DEF Request, StreamRequest, CompatibleStream
  <2> QED
    BY <1>4, <2>1, WholeIsSound, ChatIsSound
<1> QED
  BY <1>1, <1>2, <1>3, <1>4

-----------------------------------------------------------------------------
(* Names.                                                                  *)

\* A table is its function.
LEMMA TableHolds ==
  ASSUME NEW f
  PROVE  Table(f) = f
  BY DEF Table

\* The two tables of the catalog, read for the names in play.
LEMMA CatalogRead ==
  ASSUME NEW t \in ProviderTypes, NEW n \in Names
  PROVE  /\ Resolve(t, n) = Resolved(t, n)
         /\ EntryFor(t, n) = {e \in Entries(t) : Declares(e, n)}
<1> DEFINE resolved == [u \in ProviderTypes |-> Table([m \in Names |-> Resolved(u, m)])]
           entries == [u \in ProviderTypes |->
                          Table([m \in Names |-> {e \in Entries(u) : Declares(e, m)}])]
<1>1. Table(resolved)[t] = resolved[t] /\ Table(entries)[t] = entries[t]
  BY TableHolds
<1>2. Table([m \in Names |-> Resolved(t, m)])[n] = Resolved(t, n)
  BY TableHolds
<1>3. Table([m \in Names |-> {e \in Entries(t) : Declares(e, m)}])[n]
          = {e \in Entries(t) : Declares(e, n)}
  BY TableHolds
<1>4. ResolveTable = Table(resolved) /\ EntryTable = Table(entries)
  BY DEF ResolveTable, EntryTable
<1> QED
  BY <1>1, <1>2, <1>3, <1>4 DEF Resolve, EntryFor

\* A declared name resolves to the canonical name of its entry, the name the entry is found by.
LEMMA DeclaredResolves ==
  ASSUME NEW t \in ProviderTypes, NEW n \in Names, NEW e \in EntryFor(t, n)
  PROVE  /\ Resolve(t, n) = e.name /\ e \in Entries(t)
         /\ e.name \in Names /\ e.name \in Canonicals(t)
         /\ e \in EntryFor(t, e.name) /\ Resolve(t, e.name) = e.name
<1>1. e \in Entries(t) /\ e.name \in Names
  BY CatalogRead, CatalogAssumption DEF Entries
<1>2. e \in EntryFor(t, e.name)
  BY <1>1, CatalogRead DEF Declares
<1>3. \A m \in Names : e \in EntryFor(t, m) => Resolve(t, m) = e.name
  <2> SUFFICES ASSUME NEW m \in Names, e \in EntryFor(t, m) PROVE Resolve(t, m) = e.name
    OBVIOUS
  <2>1. (CHOOSE f \in EntryFor(t, m) : TRUE) = e
    BY CatalogAssumption DEF AliasMapsAreFunctions
  <2> QED
    BY <2>1, CatalogRead DEF Resolved, CanonicalOr
<1> QED
  BY <1>1, <1>2, <1>3 DEF Canonicals

\* Only the custom endpoint makes another name of a name it does not know.
LEMMA UndeclaredResolves ==
  ASSUME NEW t \in ProviderTypes, NEW n \in Names, EntryFor(t, n) = {}
  PROVE  Resolve(t, n) \in Names /\ (t # "custom" => Resolve(t, n) = n)
<1>1. CASE t # "custom"
  BY <1>1, CatalogRead DEF Resolved, CanonicalOr
<1>2. CASE t = "custom"
  <2>1. \A u, m : u \in ProviderTypes /\ m \in Names => CanonicalOr(u, m, m) \in Names
    BY DeclaredResolves DEF CanonicalOr
  <2>2. "openrouter" \in ProviderTypes
    BY DEF ProviderTypes, PROVIDER_PRIORITY_ORDER
  <2>3. n \in DOMAIN BaseOf => BaseOf[n] \in Names
    BY CatalogAssumption
  <2>4. \/ n \in DOMAIN BaseOf /\ Resolve(t, n) = CanonicalOr(t, BaseOf[n], BaseOf[n])
        \/ n \notin DOMAIN BaseOf /\ Resolve(t, n) = CanonicalOr("openrouter", n, n)
    BY <1>2, CatalogRead DEF Resolved, CanonicalOr
  <2> QED
    BY <1>2, <2>1, <2>2, <2>3, <2>4
<1> QED
  BY <1>1, <1>2

\* What resolves to a model the provider has.
LEMMA ResolvesToEntry ==
  ASSUME NEW t \in ProviderTypes, NEW n \in Names
  PROVE  /\ Resolve(t, n) \in Names
         /\ EntryFor(t, n) # {} =>
                /\ Resolve(t, n) \in Canonicals(t) /\ EntryFor(t, Resolve(t, n)) # {}
                /\ Resolve(t, Resolve(t, n)) = Resolve(t, n)
  BY DeclaredResolves, UndeclaredResolves

-----------------------------------------------------------------------------
(* Routes and deployments.                                                 *)

\* Every provider has its place in the order, so of any some one is the first.
LEMMA EarliestIsOne ==
  ASSUME NEW T \in SUBSET ProviderTypes, T # {}
  PROVE  Earliest(T) \in T /\ \A u \in T : Priority(Earliest(T)) <= Priority(u)
<1> DEFINE Leads(t) == \A u \in T : Priority(t) <= Priority(u)
           At(k) == \E t \in T : Priority(t) = k
           Past(k) == \A t \in T : Priority(t) >= k
<1>1. \A t \in ProviderTypes : Priority(t) \in 1 .. 8
  <2>1. DOMAIN PROVIDER_PRIORITY_ORDER = 1 .. 8
    BY DEF PROVIDER_PRIORITY_ORDER
  <2> QED
    BY <2>1 DEF ProviderTypes, Priority
<1>2. \A t \in T : Priority(t) \in 1 .. 8
  BY <1>1
<1>3. \A k \in 1 .. 8 : Past(k) => (\E t \in T : Leads(t)) \/ Past(k + 1)
  <2> SUFFICES ASSUME NEW k \in 1 .. 8, Past(k) PROVE (\E t \in T : Leads(t)) \/ Past(k + 1)
    OBVIOUS
  <2>1. CASE At(k)
    BY <2>1
  <2>2. CASE ~At(k)
    BY <1>2, <2>2
  <2> QED
    BY <2>1, <2>2
<1>4. Past(1) /\ ~Past(9)
  BY <1>2
<1> HIDE DEF Past, At
<1>5. \E t \in T : Leads(t)
  BY <1>3, <1>4
<1>6. Earliest(T) = CHOOSE t \in T : Leads(t)
  BY DEF Earliest
<1> HIDE DEF Leads
<1>7. Earliest(T) \in T /\ Leads(Earliest(T))
  BY <1>5, <1>6
<1> QED
  BY <1>7 DEF Leads

\* A route leads to a registered provider that takes the name.
LEMMA RouteTakes ==
  ASSUME NEW A, NEW n, Route(A, n) # NONE
  PROVE  Route(A, n) \in Registered /\ Validates(A, Route(A, n), n)
<1> DEFINE takers == {t \in Registered : Validates(A, t, n)}
<1>1. takers # {} /\ takers \in SUBSET ProviderTypes /\ Route(A, n) = Earliest(takers)
  BY DEF Route, Registered
<1>2. Earliest(takers) \in takers
  BY <1>1, EarliestIsOne
<1> QED
  BY <1>1, <1>2

\* A provider that takes a name has a model for it.
LEMMA ValidatesHas ==
  ASSUME NEW A, NEW t \in ProviderTypes, NEW n \in Names, Validates(A, t, n)
  PROVE  Has(t, n)
<1>1. CASE Capable(A, t, n)
  BY <1>1 DEF Capable, Has
<1>2. CASE t = "azure" /\ AzureClaims(n)
  <2>1. AzureName(n) \in Canonicals(t)
    BY <1>2 DEF AzureClaims
  <2>2. PICK e \in Entries(t) : e.name = AzureName(n)
    BY <2>1 DEF Canonicals
  <2>3. AzureName(n) \in Names /\ e \in EntryFor(t, AzureName(n))
    BY <2>2, CatalogRead, CatalogAssumption DEF Entries, Declares
  <2>4. EntryFor(t, Resolve(t, AzureName(n))) # {}
    BY <2>3, ResolvesToEntry
  <2> QED
    BY <1>2, <2>4 DEF Has, Known, AsAsked
<1> QED
  BY <1>1, <1>2 DEF Validates

\* The name of a deployment on the wire: its own, unless the catalog knows it.
NamesDeployment(model, wire) ==
    \/ EntryFor("azure", Deployment[model]) = {} /\ wire = Deployment[model]
    \/ EntryFor("azure", Deployment[model]) # {} /\ wire = model

\* Azure's adapter names the deployment, except where it streams.
LEMMA AzureNamesDeployment ==
  ASSUME NEW e, NEW asked, NEW x, NEW mode
  PROVE  Request("azure", e, asked, x, mode, FALSE).wire = AzureWire(e)
<1>1. Request("azure", e, asked, x, mode, FALSE) = CompatibleRequest(e, AzureWire(e), x, mode)
  BY DEF Request, WholeRequest
<1> QED
  BY <1>1 DEF CompatibleRequest, ResponsesRequest, ChatRequest, Plain

\* A model Azure serves has a deployment.
LEMMA AzureHasDeployment ==
  ASSUME NEW n, Known("azure", Resolve("azure", AsAsked("azure", n)))
  PROVE  EntryOf("azure", n).name \in DOMAIN Deployment
<1> DEFINE c == Resolve("azure", AsAsked("azure", n))
<1>1. EntryFor("azure", c) # {}
  BY DEF Known
<1>2. EntryOf("azure", n) \in EntryFor("azure", c)
  BY <1>1 DEF EntryOf
<1>3. "azure" \in ProviderTypes /\ c \in Names
  BY <1>1 DEF EntryFor
<1>4. EntryOf("azure", n) \in Entries("azure")
  BY <1>2, <1>3, CatalogRead
<1> QED
  BY <1>4, CatalogAssumption DEF Canonicals

\* What the shared implementation makes of a deployment's name.
LEMMA DeploymentIsNamed ==
  ASSUME NEW e, e.name \in DOMAIN Deployment
  PROVE  NamesDeployment(e.name, AzureWire(e))
<1> DEFINE d == Deployment[e.name]
<1>1. d \in Names /\ "azure" \in ProviderTypes
  BY CatalogAssumption DEF ProviderTypes, PROVIDER_PRIORITY_ORDER
<1>2. \A f \in EntryFor("azure", d) : f.name = e.name
  BY CatalogAssumption DEF DeploymentsApart
<1> HIDE DEF d
<1>3. CASE EntryFor("azure", d) = {}
  <2>1. Resolve("azure", d) = d
    BY <1>1, <1>3, UndeclaredResolves
  <2> QED
    BY <1>3, <2>1 DEF NamesDeployment, AzureWire, d
<1>4. CASE EntryFor("azure", d) # {}
  <2>1. PICK f \in EntryFor("azure", d) : TRUE
    BY <1>4
  <2>2. Resolve("azure", d) = f.name
    BY <1>1, <2>1, DeclaredResolves
  <2> QED
    BY <1>2, <1>4, <2>2 DEF NamesDeployment, AzureWire, d
<1> QED
  BY <1>3, <1>4

-----------------------------------------------------------------------------
(* Calls.                                                                  *)

\* What the invariant says of a call's outcome.
SoundOutcome(r) ==
    r.outcome = "sent" =>
        /\ SoundRequest(r.type, EntryOf(r.type, r.name), r.request)
        /\ r.type = "azure" => NamesDeployment(r.model, r.request.wire) \/ r.stream

\* The invariant is the property, read for the call being answered.
LEMMA OutcomeIsProperty ==
  SoundOutcome(last) => RequestsAreSound
<1> DEFINE e == EntryOf(last.type, last.name)
<1> SUFFICES ASSUME SoundOutcome(last) PROVE RequestsAreSound
  OBVIOUS
<1>1. ParametersAccepted
  BY DEF ParametersAccepted, SoundOutcome, SoundRequest
<1>2. ThinkingFits /\ DeploymentOnWire
  BY DEF ThinkingFits, DeploymentOnWire, SoundOutcome, SoundRequest, NamesDeployment
<1> QED
  BY <1>1, <1>2 DEF RequestsAreSound

\* A call that sent nothing is sound.
LEMMA EndedIsSound ==
  ASSUME NEW outcome, outcome # "sent", NEW kind, NEW n, NEW name
  PROVE  SoundOutcome(Ended(outcome, kind, n, name)) /\ SoundOutcome(Nothing)
  BY DEF SoundOutcome, Ended, Nothing

\* A call that sent a sound request is sound.
LEMMA SentIsSound ==
  ASSUME NEW kind, NEW n, NEW name, NEW t, NEW stream, NEW request,
         SoundRequest(t, EntryOf(t, name), request),
         t = "azure" => NamesDeployment(EntryOf(t, name).name, request.wire) \/ stream
  PROVE  SoundOutcome(Sent(kind, n, name, t, EntryOf(t, name), stream, request))
<1> DEFINE e == EntryOf(t, name)
           r == Sent(kind, n, name, t, e, stream, request)
<1>1. /\ r.type = t /\ r.name = name /\ r.request = request
      /\ r.model = e.name /\ r.stream = stream
  BY DEF Sent, Ended, Nothing
<1> HIDE DEF r
<1>2. SoundOutcome(r)
  BY <1>1 DEF SoundOutcome
<1> QED
  BY <1>2 DEF r

\* A tool's request: the temperature was corrected, the mode is a mode or none.
LEMMA ServedIsSound ==
  ASSUME NEW kind, NEW n, NEW name, NEW A, NEW t, Served(kind, n, name, A, t)
  PROVE  SoundOutcome(last)'
<1> DEFINE e == EntryOf(t, name)
<1>1. PICK temperature \in Temperatures, mode \in Modes, stream \in Streams(kind) :
          last' = Sent(kind, n, name, t, e, stream,
                       Request(t, e, name, ToolTemperature(e, temperature),
                               ModeSent(kind, e, mode), stream))
  BY DEF Served
<1>2. SoundEntry(e)
  BY EntriesAreSound
<1>3. temperature \in Int /\ stream \in BOOLEAN /\ ModeSent(kind, e, mode) \in ThinkingModes \cup {NONE}
  BY RoutingAssumption DEF Streams, ModeSent, Modes
<1> DEFINE x == ToolTemperature(e, temperature)
           sent == ModeSent(kind, e, mode)
           request == Request(t, e, name, x, sent, stream)
<1>4. x \in Int /\ ValidTemperature(e.constraint, x)
  BY <1>2, <1>3, TemperaturesAreValid
<1>5. SoundRequest(t, e, request)
  BY <1>2, <1>3, <1>4, RequestIsSound
<1>6. t = "azure" => NamesDeployment(e.name, request.wire) \/ stream
  <2> SUFFICES ASSUME t = "azure", ~stream PROVE NamesDeployment(e.name, request.wire)
    OBVIOUS
  <2>1. request.wire = AzureWire(e)
    BY <1>3, AzureNamesDeployment
  <2>2. Known(t, Resolve(t, AsAsked(t, name)))
    BY DEF Served, Capable
  <2>3. e.name \in DOMAIN Deployment
    BY <2>2, AzureHasDeployment
  <2> HIDE DEF e, request
  <2> QED
    BY <2>1, <2>3, DeploymentIsNamed
<1>7. last' = Sent(kind, n, name, t, e, stream, request)
  BY <1>1
<1> HIDE DEF request
<1>8. SoundOutcome(Sent(kind, n, name, t, e, stream, request))
  BY <1>5, <1>6, SentIsSound
<1> QED
  BY <1>7, <1>8 DEF SoundOutcome

\* A consultation's request: the checked one, or a plain one at the consensus temperature.
LEMMA ConsultedIsSound ==
  ASSUME NEW n \in Names, Consult(n)
  PROVE  SoundOutcome(last)'
<1> DEFINE t == Route(allowed, n)
           A == AfterRoute(allowed, n, t)
           e == EntryOf(t, n)
           x == ToolTemperature(e, CONSULT_TEMPERATURE)
           checked == Request(t, e, n, x, "medium", FALSE)
           request == IF Capable(A, t, n) THEN checked ELSE UncheckedRequest(e)
<1>1. CASE t = NONE
  <2>1. last' = Ended("unavailable", "consult", n, n)
    BY <1>1 DEF Consult
  <2>2. SoundOutcome(Ended("unavailable", "consult", n, n))
    BY EndedIsSound
  <2> QED
    BY <2>1, <2>2 DEF SoundOutcome
<1>2. CASE t # NONE
  <2>1. last' = Sent("consult", n, n, t, e, FALSE, request)
    BY <1>2 DEF Consult
  <2>2. SoundEntry(e) /\ CONSULT_TEMPERATURE \in Int /\ "medium" \in ThinkingModes
    BY EntriesAreSound DEF CONSULT_TEMPERATURE, ThinkingModes, THINKING_LADDER
  <2>3. x \in Int /\ ValidTemperature(e.constraint, x)
    BY <2>2, TemperaturesAreValid
  <2>3a. t = "azure" => NamesDeployment(e.name, AzureWire(e))
    <3> SUFFICES ASSUME t = "azure" PROVE NamesDeployment(e.name, AzureWire(e))
      OBVIOUS
    <3>1. Validates(allowed, t, n) /\ t \in ProviderTypes
      BY <1>2, RouteTakes DEF Registered
    <3>2. Known(t, Resolve(t, AsAsked(t, n)))
      BY <3>1, ValidatesHas DEF Has
    <3>3. e.name \in DOMAIN Deployment
      BY <3>2, AzureHasDeployment
    <3> HIDE DEF e, t
    <3> QED
      BY <3>3, DeploymentIsNamed
  <2> HIDE DEF e, x
  <2>4. SoundRequest(t, e, checked)
    BY <2>2, <2>3, RequestIsSound
  <2>5. t = "azure" => checked.wire = AzureWire(e)
    BY AzureNamesDeployment
  <2>6. SoundRequest(t, e, UncheckedRequest(e)) /\ UncheckedRequest(e).wire = AzureWire(e)
    <3>1. \A c \in {"fixed", "discrete", "range"} : ValidTemperature(c, 10)
      <4>1. ValidTemperature("fixed", 10) /\ ValidTemperature("range", 10)
        BY DEF ValidTemperature
      <4>2. ValidTemperature("discrete", 10)
        BY DEF ValidTemperature, DISCRETE
      <4> QED
        BY <4>1, <4>2
    <3>2. ValidTemperature(e.constraint, 10)
      BY <2>2, <3>1 DEF SoundEntry
    <3> QED
      BY <3>2 DEF UncheckedRequest, Plain, SoundRequest, CONSULT_TEMPERATURE
  <2>7. SoundRequest(t, e, request) /\ (t = "azure" => NamesDeployment(e.name, request.wire))
    BY <2>3a, <2>4, <2>5, <2>6
  <2> HIDE DEF request, t
  <2>8. SoundOutcome(Sent("consult", n, n, t, EntryOf(t, n), FALSE, request))
    BY <2>7, SentIsSound DEF e
  <2> QED
    BY <2>1, <2>8 DEF SoundOutcome, e
<1> QED
  BY <1>1, <1>2

\* Whatever a tool call comes to.
LEMMA ToolCallIsSound ==
  ASSUME NEW kind, ToolCall(kind)
  PROVE  SoundOutcome(last)'
<1>1. CASE NoModelForAuto(kind)
  <2>1. last' = Ended("no_models", kind, "auto", NONE)
    BY <1>1 DEF NoModelForAuto
  <2> QED
    BY <2>1, EndedIsSound DEF SoundOutcome
<1>2. ASSUME NEW n, NEW name, NEW A, NEW t, Unavailable(kind, n, name, A, t)
      PROVE  SoundOutcome(last)'
  <2>1. \E outcome \in {"unavailable", "no_models"} : last' = Ended(outcome, kind, n, name)
    BY <1>2 DEF Unavailable
  <2> QED
    BY <2>1, EndedIsSound DEF SoundOutcome
<1>3. ASSUME NEW n, NEW name, NEW A, NEW t, Rejected(kind, n, name, A, t)
      PROVE  SoundOutcome(last)'
  <2>1. last' = Ended("rejected", kind, n, name)
    BY <1>3 DEF Rejected
  <2> QED
    BY <2>1, EndedIsSound DEF SoundOutcome
<1> QED
  BY <1>1, <1>2, <1>3, ServedIsSound DEF ToolCall

\* Whatever was asked before, what goes on the wire is a request the model behind it accepts:
\* thinking leaves room for the answer, temperature and effort are its own, and Azure is asked
\* by deployment unless it streams or the catalog knows the deployment as an alias of its model
\* (_build_request, the adapters and their streaming counterparts).
THEOREM RequestsAreAccepted == SchemaSpec => []RequestsAreSound
<1>1. Init => SoundOutcome(last)
  BY EndedIsSound DEF Init
<1>2. SoundOutcome(last) /\ [SchemaNext]_vars => SoundOutcome(last)'
  <2> SUFFICES ASSUME SoundOutcome(last), [SchemaNext]_vars PROVE SoundOutcome(last)'
    OBVIOUS
  <2>1. CASE last' = last
    BY <2>1 DEF SoundOutcome
  <2>2. CASE Configure \/ ShowModels \/ PickFallback \/ GetInputSchema \/ UNCHANGED vars
    BY <2>1, <2>2 DEF Configure, ShowModels, PickFallback, GetInputSchema, vars
  <2>3. CASE Answered
    BY <2>3, EndedIsSound DEF Answered, SoundOutcome
  <2>4. ASSUME NEW kind \in Kinds, ToolCall(kind) PROVE SoundOutcome(last)'
    BY <2>4, ToolCallIsSound
  <2>5. ASSUME NEW n \in Names, Consult(n) PROVE SoundOutcome(last)'
    BY <2>5, ConsultedIsSound
  <2> QED
    BY <2>2, <2>3, <2>4, <2>5 DEF SchemaNext, Next
<1> QED
  BY <1>1, <1>2, OutcomeIsProperty, PTL DEF SchemaSpec

-----------------------------------------------------------------------------
(* What the allowlists can come to hold: the policy, what it resolves to,  *)
(* and, at the custom endpoint, names that nothing it serves resolves to.  *)
Idle(t, x) == t = "custom" /\ x \in Names /\ Foreign(t, x)

Within(policy, A) ==
    /\ A \in [ProviderTypes -> SUBSET Names]
    /\ \A t \in ProviderTypes :
          /\ policy[t] \subseteq A[t]
          /\ \A x \in A[t] : x \in policy[t] \/ x \in ResolvedEntries(policy, t) \/ Idle(t, x)
          /\ policy[t] = {} => A[t] = {}

\* Asking adds nothing but what entries resolve to.
Grows(A, B) ==
    /\ B = [t \in ProviderTypes |-> B[t]]
    /\ \A t \in ProviderTypes :
          A[t] \subseteq B[t] /\ \A x \in B[t] : x \in A[t] \/ x \in ResolvedEntries(A, t)

\* Resolving what was resolved leads no further, or nowhere.
LEMMA Rereads ==
  ASSUME ResolvesOnce, NEW t \in ProviderTypes, NEW n \in Names
  PROVE  /\ Resolve(t, Resolve(t, n)) = Resolve(t, n) \/ Idle(t, Resolve(t, n))
         /\ Idle(t, n) => Idle(t, Resolve(t, n))
<1> DEFINE c == Resolve(t, n)
<1>1. c \in Names
  BY ResolvesToEntry
<1>2. CASE t # "custom"
  BY <1>2, ResolvesToEntry, UndeclaredResolves DEF Idle
<1>3. CASE t = "custom"
  <2>1. Resolve(t, c) = c \/ Foreign(t, c)
    BY <1>3 DEF ResolvesOnce
  <2>2. Foreign(t, n) => EntryFor(t, c) = {}
    BY DEF Foreign
  <2>3. Resolve(t, c) = c /\ EntryFor(t, c) = {} => Foreign(t, c)
    BY DEF Foreign
  <2> QED
    BY <1>1, <1>3, <2>1, <2>2, <2>3 DEF Idle
<1> QED
  BY <1>2, <1>3

\* What the entries of a list within the policy resolve to is within it as well.
LEMMA ResolvedWithin ==
  ASSUME ResolvesOnce, NEW policy \in [ProviderTypes -> SUBSET Names], NEW A, Within(policy, A),
         NEW t \in ProviderTypes, NEW x \in ResolvedEntries(A, t)
  PROVE  x \in Names /\ (x \in policy[t] \/ x \in ResolvedEntries(policy, t) \/ Idle(t, x))
<1>1. PICK a \in A[t] : x = Resolve(t, a)
  BY DEF ResolvedEntries
<1>2. a \in Names /\ x \in Names
  BY <1>1, ResolvesToEntry DEF Within
<1>3. CASE a \in policy[t]
  <2>1. x \in ResolvedEntries(policy, t)
    BY <1>1, <1>3 DEF ResolvedEntries
  <2> QED
    BY <1>2, <2>1
<1>4. CASE a \in ResolvedEntries(policy, t)
  <2>1. PICK p \in policy[t] : a = Resolve(t, p)
    BY <1>4 DEF ResolvedEntries
  <2>2. p \in Names
    BY <2>1
  <2>3. Resolve(t, Resolve(t, p)) = Resolve(t, p) \/ Idle(t, a)
    BY <2>1, <2>2, Rereads
  <2>4. Idle(t, a) => Idle(t, x)
    BY <1>1, <1>2, Rereads
  <2> QED
    BY <1>1, <1>2, <1>4, <2>1, <2>3, <2>4
<1>5. CASE Idle(t, a)
  BY <1>1, <1>2, <1>5, Rereads
<1> QED
  BY <1>2, <1>3, <1>4, <1>5 DEF Within

\* A list that grew by what its entries resolve to stays within the policy.
LEMMA GrowsWithin ==
  ASSUME ResolvesOnce, NEW policy \in [ProviderTypes -> SUBSET Names],
         NEW A, Within(policy, A), NEW B, Grows(A, B)
  PROVE  Within(policy, B)
<1>1. ASSUME NEW t \in ProviderTypes PROVE policy[t] \subseteq B[t]
  BY DEF Within, Grows
<1>2. ASSUME NEW t \in ProviderTypes, NEW x \in B[t]
      PROVE  x \in Names /\ (x \in policy[t] \/ x \in ResolvedEntries(policy, t) \/ Idle(t, x))
  <2>1. x \in A[t] \/ x \in ResolvedEntries(A, t)
    BY DEF Grows
  <2> QED
    BY <2>1, ResolvedWithin DEF Within
<1>3. ASSUME NEW t \in ProviderTypes PROVE policy[t] = {} => B[t] = {}
  <2>1. A[t] = {} => ResolvedEntries(A, t) = {}
    BY DEF ResolvedEntries
  <2>2. policy[t] = {} => A[t] = {}
    BY DEF Within
  <2> QED
    BY <2>1, <2>2 DEF Grows
<1>4. B \in [ProviderTypes -> SUBSET Names]
  BY <1>2 DEF Grows
<1> QED
  BY <1>1, <1>2, <1>3, <1>4 DEF Within

-----------------------------------------------------------------------------
(* Every question leaves the lists within the policy.                      *)

\* Asking adds to a list only what the list resolves to.
LEMMA LearnedGrows ==
  ASSUME NEW A, NEW t, NEW n
  PROVE  /\ A[t] \subseteq AfterCapable(A, t, n)
         /\ \A x \in AfterCapable(A, t, n) : x \in A[t] \/ x \in ResolvedEntries(A, t)
  BY DEF AfterCapable, Learned

\* Listing, routing and choosing a fallback ask, and nothing more.
LEMMA AskingGrows ==
  ASSUME NEW A, A \in [ProviderTypes -> SUBSET Names]
  PROVE  /\ Grows(A, A) /\ Grows(A, AfterLists(A)) /\ Grows(A, AfterFallback(A)) /\ Grows(A, AfterRanking(A))
         /\ \A n, t : Grows(A, AfterRoute(A, n, t)) /\ Grows(A, AfterAsking(A, t, n))
<1>1. Grows(A, A) /\ Grows(A, AfterLists(A))
  BY DEF Grows, AfterLists
<1>2. Grows(A, AfterFallback(A))
  <2>1. \A t \in ProviderTypes : AfterFallback(A)[t] \in {A[t], AfterLists(A)[t]}
    BY DEF AfterFallback
  <2>2. AfterFallback(A) = [t \in ProviderTypes |-> AfterFallback(A)[t]]
    BY DEF AfterFallback
  <2> QED
    BY <1>1, <2>1, <2>2 DEF Grows
<1>3. Grows(A, AfterRanking(A))
  <2> DEFINE asked(t) == UNION {AfterCapable(A, t, r.name) : r \in {r \in RankedModels(A) : r.type = t}}
  <2>1. \A t \in ProviderTypes : AfterRanking(A)[t] = A[t] \cup asked(t)
    BY DEF AfterRanking
  <2>2. \A t : \A x \in asked(t) : x \in A[t] \/ x \in ResolvedEntries(A, t)
    BY LearnedGrows
  <2>3. AfterRanking(A) = [t \in ProviderTypes |-> AfterRanking(A)[t]]
    BY DEF AfterRanking
  <2> HIDE DEF asked
  <2> QED
    BY <2>1, <2>2, <2>3 DEF Grows
<1>4. ASSUME NEW n, NEW t PROVE Grows(A, AfterRoute(A, n, t))
  <2>1. \A u \in ProviderTypes : AfterRoute(A, n, t)[u] \in {A[u], AfterCapable(A, u, n)}
    BY DEF AfterRoute
  <2>2. AfterRoute(A, n, t) = [u \in ProviderTypes |-> AfterRoute(A, n, t)[u]]
    BY DEF AfterRoute
  <2> QED
    BY <2>1, <2>2, LearnedGrows DEF Grows
<1>5. ASSUME NEW n, NEW t PROVE Grows(A, AfterAsking(A, t, n))
  <2> DEFINE B == [A EXCEPT ![t] = AfterCapable(A, t, n)]
  <2>1. \A u \in ProviderTypes : B[u] \in {A[u], AfterCapable(A, u, n)}
    OBVIOUS
  <2>2. B = [u \in ProviderTypes |-> B[u]]
    OBVIOUS
  <2> HIDE DEF B
  <2>3. Grows(A, B)
    BY <2>1, <2>2, LearnedGrows DEF Grows
  <2> QED
    BY <2>3 DEF B, AfterAsking
<1> QED
  BY <1>1, <1>2, <1>3, <1>4, <1>5

\* So the lists stay within the policy, whatever is asked.
LEMMA AskingWithin ==
  ASSUME ResolvesOnce, NEW policy \in [ProviderTypes -> SUBSET Names], NEW A, Within(policy, A)
  PROVE  /\ Within(policy, AfterLists(A)) /\ Within(policy, AfterFallback(A)) /\ Within(policy, AfterRanking(A))
         /\ \A n, t : /\ Within(policy, AfterRoute(A, n, t))
                      /\ Within(policy, AfterAsking(A, t, n))
                      /\ \A stream : Within(policy, AfterSending(A, t, n, stream))
<1>1. ASSUME NEW C, Within(policy, C)
      PROVE  /\ Within(policy, AfterLists(C)) /\ Within(policy, AfterFallback(C)) /\ Within(policy, AfterRanking(C))
             /\ \A n, t : Within(policy, AfterRoute(C, n, t)) /\ Within(policy, AfterAsking(C, t, n))
  <2>1. C \in [ProviderTypes -> SUBSET Names]
    BY <1>1 DEF Within
  <2> QED
    BY <1>1, <2>1, AskingGrows, GrowsWithin
<1>2. ASSUME NEW n, NEW t, NEW stream PROVE Within(policy, AfterSending(A, t, n, stream))
  <2> DEFINE B == AfterAsking(A, t, n)
  <2>1. Within(policy, B)
    BY <1>1
  <2> HIDE DEF B
  <2>2. \A m : Within(policy, AfterAsking(B, t, m))
    BY <1>1, <2>1
  <2>3. \E m : AfterSending(A, t, n, stream) \in {B, AfterAsking(B, t, m)}
    BY DEF AfterSending, B
  <2> QED
    BY <2>1, <2>2, <2>3
<1> QED
  BY <1>1, <1>2

-----------------------------------------------------------------------------
(* What the lists answer.                                                  *)

\* A list within the policy admits what the policy admits, of the names that are not idle.
LEMMA AllowedAsPolicy ==
  ASSUME ResolvesOnce, NEW policy \in [ProviderTypes -> SUBSET Names], NEW A, Within(policy, A),
         NEW t \in ProviderTypes, NEW names, \A x \in names : ~Idle(t, x)
  PROVE  /\ IsAllowed(A, t, names) = IsAllowed(policy, t, names)
         /\ (A[t] = {}) = (policy[t] = {})
<1>1. (A[t] = {}) = (policy[t] = {})
  BY DEF Within
<1>2. ASSUME NEW x \in names
      PROVE  x \in A[t] \cup ResolvedEntries(A, t) <=> x \in policy[t] \cup ResolvedEntries(policy, t)
  <2>1. x \in policy[t] \cup ResolvedEntries(policy, t) => x \in A[t] \cup ResolvedEntries(A, t)
    BY DEF Within, ResolvedEntries
  <2>2. x \in A[t] => x \in policy[t] \cup ResolvedEntries(policy, t)
    BY DEF Within
  <2>3. x \in ResolvedEntries(A, t) => x \in policy[t] \cup ResolvedEntries(policy, t)
    BY ResolvedWithin
  <2> QED
    BY <2>1, <2>2, <2>3
<1>3. names \cap (A[t] \cup ResolvedEntries(A, t)) = {} <=> names \cap (policy[t] \cup ResolvedEntries(policy, t)) = {}
  BY <1>2
<1> QED
  BY <1>1, <1>3 DEF IsAllowed

\* A provider has a model for no idle name.
LEMMA IdleIsUnknown ==
  ASSUME NEW t \in ProviderTypes, NEW x, Idle(t, x)
  PROVE  /\ EntryFor(t, x) = {} /\ AsAsked(t, x) = x /\ ~Known(t, x) /\ ~Known(t, Resolve(t, x))
  BY DEF Idle, Foreign, AsAsked, Known

\* Which models are served does not depend on what was asked.
LEMMA CapableAsPolicy ==
  ASSUME ResolvesOnce, NEW policy \in [ProviderTypes -> SUBSET Names], NEW A, Within(policy, A),
         NEW t \in ProviderTypes, NEW n
  PROVE  Capable(A, t, n) = Capable(policy, t, n)
<1> DEFINE c == Resolve(t, AsAsked(t, n))
<1>1. CASE ~Known(t, c)
  BY <1>1 DEF Capable
<1>2. CASE Known(t, c)
  <2>1. \A x \in AskedNames(t, n) : ~Idle(t, x)
    BY <1>2, IdleIsUnknown DEF AskedNames
  <2>2. IsAllowed(A, t, AskedNames(t, n)) = IsAllowed(policy, t, AskedNames(t, n))
    BY <2>1, AllowedAsPolicy
  <2> QED
    BY <2>2 DEF Capable
<1> QED
  BY <1>1, <1>2

\* A route is the one of the policy, whatever was asked before.
LEMMA RouteAsPolicy ==
  ASSUME ResolvesOnce, NEW policy \in [ProviderTypes -> SUBSET Names], NEW A, Within(policy, A), NEW n
  PROVE  Route(A, n) = Route(policy, n)
<1>1. \A t \in Registered : Validates(A, t, n) = Validates(policy, t, n)
  BY CapableAsPolicy DEF Validates, Registered
<1>2. {t \in Registered : Validates(A, t, n)} = {t \in Registered : Validates(policy, t, n)}
  BY <1>1
<1> QED
  BY <1>2 DEF Route

\* Neither do the models a provider lists, or offers as a fallback.
LEMMA ListsAsPolicy ==
  ASSUME ResolvesOnce, NEW policy \in [ProviderTypes -> SUBSET Names], NEW A, Within(policy, A),
         NEW t \in ProviderTypes
  PROVE  ListModels(A, t) = ListModels(policy, t) /\ Offered(A, t) = Offered(policy, t)
<1>1. ASSUME NEW e \in Entries(t), NEW n \in {e.name} \cup e.aliases
      PROVE  n \in Names /\ EntryFor(t, n) # {} /\ ~Idle(t, n)
  <2>1. n \in Names
    BY CatalogAssumption DEF Entries
  <2>2. e \in EntryFor(t, n)
    BY <2>1, CatalogRead DEF Declares
  <2> QED
    BY <2>1, <2>2, IdleIsUnknown
<1>2. ASSUME NEW e \in Entries(t), NEW n \in {e.name} \cup e.aliases
      PROVE  IsAllowed(A, t, {n}) = IsAllowed(policy, t, {n})
  BY <1>1, AllowedAsPolicy
<1>3. AllowedEntries(A, t) = AllowedEntries(policy, t)
  BY <1>2 DEF AllowedEntries
<1>4. Offered(A, t) = Offered(policy, t)
  BY <1>2 DEF Offered, NamesOf
<1> QED
  BY <1>3, <1>4 DEF ListModels

\* Listing the models leaves the same names in every list within the policy, but for idle ones.
LEMMA ListedAsPolicy ==
  ASSUME ResolvesOnce, NEW policy \in [ProviderTypes -> SUBSET Names], NEW A, Within(policy, A),
         NEW t \in ProviderTypes, t \in Registered
  PROVE  /\ AfterLists(policy)[t] \subseteq AfterLists(A)[t]
         /\ \A x \in AfterLists(A)[t] : x \in AfterLists(policy)[t] \/ Idle(t, x)
<1> DEFINE listed == policy[t] \cup (ResolvedEntries(policy, t) \cap Canonicals(t))
<1>1. /\ AfterLists(policy)[t] = listed
      /\ AfterLists(A)[t] = A[t] \cup (ResolvedEntries(A, t) \cap Canonicals(t))
  BY DEF AfterLists
<1>2. listed \subseteq AfterLists(A)[t]
  <2>1. policy[t] \subseteq A[t]
    BY DEF Within
  <2> QED
    BY <1>1, <2>1 DEF ResolvedEntries
<1>3. ASSUME NEW x \in ResolvedEntries(policy, t) PROVE x \in listed \/ Idle(t, x)
  <2>1. PICK p \in policy[t] : x = Resolve(t, p)
    BY DEF ResolvedEntries
  <2>2. p \in Names /\ x \in Names
    BY <2>1, ResolvesToEntry
  <2>3. CASE EntryFor(t, p) # {}
    BY <2>1, <2>2, <2>3, ResolvesToEntry
  <2>4. CASE EntryFor(t, p) = {} /\ t # "custom"
    BY <2>1, <2>2, <2>4, UndeclaredResolves
  <2>5. CASE t = "custom" /\ EntryFor(t, x) = {}
    <3>1. Resolve(t, x) = x \/ Foreign(t, x)
      BY <2>1, <2>2, <2>5 DEF ResolvesOnce
    <3> QED
      BY <2>2, <2>5, <3>1 DEF Idle, Foreign
  <2>6. CASE t = "custom" /\ EntryFor(t, x) # {}
    <3>1. Resolve(t, x) = x
      BY <2>1, <2>2, <2>6 DEF ResolvesOnce, Foreign
    <3>2. x \in Canonicals(t)
      BY <2>2, <2>6, <3>1, ResolvesToEntry
    <3> QED
      BY <3>2
  <2> QED
    BY <2>3, <2>4, <2>5, <2>6
<1>4. ASSUME NEW x \in AfterLists(A)[t]
      PROVE  x \in policy[t] \/ x \in ResolvedEntries(policy, t) \/ Idle(t, x)
  <2>1. x \in A[t] \/ x \in ResolvedEntries(A, t)
    BY <1>1
  <2> QED
    BY <2>1, ResolvedWithin DEF Within
<1>5. \A x \in AfterLists(A)[t] : x \in listed \/ Idle(t, x)
  BY <1>3, <1>4
<1> QED
  BY <1>1, <1>2, <1>5

\* What get_available_models shows does not depend on what was asked.
LEMMA AvailableAsPolicy ==
  ASSUME ResolvesOnce, NEW policy \in [ProviderTypes -> SUBSET Names], NEW A, Within(policy, A)
  PROVE  Available(A) = Available(policy)
<1> DEFINE B == AfterLists(A)
           Q == AfterLists(policy)
<1>1. Within(policy, policy)
  BY DEF Within
<1>2. Within(policy, B) /\ Within(policy, Q)
  BY <1>1, AskingWithin
<1> SUFFICES ASSUME NEW t \in Registered PROVE Displayed(B, t) = Displayed(Q, t)
  BY DEF Available
<1>3. t \in ProviderTypes
  BY DEF Registered
<1>4. /\ Q[t] \subseteq B[t]
      /\ \A x \in B[t] : x \in Q[t] \/ Idle(t, x)
  BY <1>3, ListedAsPolicy
<1>5. (B[t] = {}) = (Q[t] = {}) /\ ListModels(B, t) = ListModels(Q, t)
  <2>1. (B[t] = {}) = (policy[t] = {}) /\ (Q[t] = {}) = (policy[t] = {})
    BY <1>2, <1>3 DEF Within
  <2> QED
    BY <1>2, <1>3, <2>1, ListsAsPolicy
<1>6. {n \in B[t] : Capable(B, t, n)} = {n \in Q[t] : Capable(Q, t, n)}
  <2>1. \A n : Capable(B, t, n) = Capable(Q, t, n)
    BY <1>2, <1>3, CapableAsPolicy
  <2>2. \A n : Idle(t, n) => ~Capable(B, t, n)
    BY <1>3, IdleIsUnknown DEF Capable
  <2> QED
    BY <1>4, <2>1, <2>2
<1>7. B[t] \cap ListModels(B, t) = Q[t] \cap ListModels(Q, t)
  <2>1. \A n \in ListModels(B, t) : ~Idle(t, n)
    <3> SUFFICES ASSUME NEW e \in Entries(t), NEW n \in {e.name} \cup e.aliases PROVE ~Idle(t, n)
      BY DEF ListModels, AllowedEntries
    <3>1. n \in Names
      BY CatalogAssumption DEF Entries
    <3>2. e \in EntryFor(t, n)
      BY <1>3, <3>1, CatalogRead DEF Declares
    <3> QED
      BY <1>3, <3>2, IdleIsUnknown
  <2> QED
    BY <1>4, <1>5, <2>1
<1> QED
  BY <1>5, <1>6, <1>7 DEF Displayed

-----------------------------------------------------------------------------
(* What is served.                                                         *)

\* A model that is served is one the policy admits.
LEMMA ServedIsAdmitted ==
  ASSUME ResolvesOnce, NEW policy \in [ProviderTypes -> SUBSET Names], NEW A, Within(policy, A),
         NEW t \in ProviderTypes, NEW n, Capable(A, t, n)
  PROVE  policy[t] = {} \/ EntryOf(t, n).name \in ResolvedEntries(policy, t)
<1> DEFINE a == AsAsked(t, n)
           c == Resolve(t, a)
<1>1. Capable(policy, t, n)
  BY CapableAsPolicy
<1>2. Known(t, c) /\ IsAllowed(policy, t, {a, c})
  BY <1>1 DEF Capable, AskedNames
<1>3. CASE EntryFor(t, c) # {}
  <2>1. c \in Names
    BY <1>3 DEF EntryFor
  <2>2. EntryOf(t, n).name = Resolve(t, c)
    <3>1. EntryOf(t, n) \in EntryFor(t, c)
      BY <1>3 DEF EntryOf
    <3> QED
      BY <2>1, <3>1, DeclaredResolves
  <2>3. ASSUME NEW p \in policy[t], c = Resolve(t, p)
        PROVE  EntryOf(t, n).name \in ResolvedEntries(policy, t)
    <3>1. p \in Names
      OBVIOUS
    <3>2. Resolve(t, c) = c \/ Idle(t, c)
      BY <2>3, <3>1, Rereads
    <3>3. Resolve(t, c) = c
      BY <1>3, <3>2, IdleIsUnknown
    <3> QED
      BY <2>2, <2>3, <3>3 DEF ResolvedEntries
  <2>4. c \in policy[t] => EntryOf(t, n).name \in ResolvedEntries(policy, t)
    BY <2>2 DEF ResolvedEntries
  <2>5. c \in ResolvedEntries(policy, t) => EntryOf(t, n).name \in ResolvedEntries(policy, t)
    BY <2>3 DEF ResolvedEntries
  <2>6. a \in policy[t] => EntryOf(t, n).name \in ResolvedEntries(policy, t)
    BY <2>3
  <2>7. a \in ResolvedEntries(policy, t) => EntryOf(t, n).name \in ResolvedEntries(policy, t)
    <3> SUFFICES ASSUME NEW p \in policy[t], a = Resolve(t, p)
                 PROVE  EntryOf(t, n).name \in ResolvedEntries(policy, t)
      BY DEF ResolvedEntries
    <3>1. p \in Names
      OBVIOUS
    <3>2. Resolve(t, a) = a \/ Idle(t, a)
      BY <3>1, Rereads
    <3>3. c = a
      BY <1>3, <3>2, IdleIsUnknown DEF Known
    <3> QED
      BY <2>3, <3>3
  <2> QED
    BY <1>2, <2>4, <2>5, <2>6, <2>7 DEF IsAllowed
<1>4. CASE EntryFor(t, c) = {}
  <2>1. t = "openrouter" /\ a = n /\ EntryOf(t, n).name = c
    BY <1>2, <1>4 DEF Known, AsAsked, EntryOf, Generic
  <2>3. a \in policy[t] => c \in ResolvedEntries(policy, t)
    BY DEF ResolvedEntries
  <2>4. c \in policy[t] => c \in ResolvedEntries(policy, t)
    <3> SUFFICES ASSUME c \in policy[t] PROVE Resolve(t, c) = c
      BY DEF ResolvedEntries
    <3>1. c \in Names
      OBVIOUS
    <3> QED
      BY <1>4, <2>1, <3>1, UndeclaredResolves
  <2>5. a \in ResolvedEntries(policy, t) => c \in ResolvedEntries(policy, t)
    <3> SUFFICES ASSUME NEW p \in policy[t], a = Resolve(t, p) PROVE c = a
      BY DEF ResolvedEntries
    <3>1. p \in Names
      OBVIOUS
    <3>2. Resolve(t, a) = a \/ Idle(t, a)
      BY <3>1, Rereads
    <3> QED
      BY <2>1, <3>2 DEF Idle
  <2> QED
    BY <1>2, <2>1, <2>3, <2>4, <2>5 DEF IsAllowed
<1> QED
  BY <1>3, <1>4

-----------------------------------------------------------------------------
(* The invariant: the lists are within the policy, and what was sent last  *)
(* went to a model it admits.                                              *)
AdmittedOutcome(r) ==
    r.outcome = "sent" =>
        \/ setting.policy[r.type] = {}
        \/ r.model \in ResolvedEntries(setting.policy, r.type)
        \/ r.kind = "consult" /\ r.type = "azure"

RestrictionsHold ==
    /\ setting \in Settings
    /\ Within(setting.policy, allowed)
    /\ AdmittedOutcome(last)

\* The invariant is both properties.
LEMMA RestrictionsImply ==
  ASSUME ResolvesOnce, RestrictionsHold
  PROVE  OnlyAllowedServed /\ AnswersStable
<1> DEFINE P == setting.policy
<1>1. P \in [ProviderTypes -> SUBSET Names] /\ Within(P, allowed)
  BY RoutingAssumption DEF RestrictionsHold
<1>2. OnlyAllowedServed
  BY DEF OnlyAllowedServed, RestrictionsHold, AdmittedOutcome, Admitted, ResolvedEntries
<1>3. \A t \in Registered : t \in ProviderTypes
  BY DEF Registered
<1>4. \A t \in Registered : Offered(allowed, t) = Offered(P, t)
  BY <1>1, <1>3, ListsAsPolicy
<1>5. \A t \in Registered, n \in Names : Capable(allowed, t, n) = Capable(P, t, n)
  BY <1>1, <1>3, CapableAsPolicy
<1>6. \A n \in Names : Route(allowed, n) = Route(P, n)
  BY <1>1, RouteAsPolicy
<1>7. Available(allowed) = Available(P)
  BY <1>1, AvailableAsPolicy
<1> QED
  BY <1>2, <1>4, <1>5, <1>6, <1>7 DEF AnswersStable

\* A tool call: whichever way it ends, the lists are within the policy and the model is admitted.
LEMMA ToolCallHolds ==
  ASSUME ResolvesOnce, RestrictionsHold, NEW kind, ToolCall(kind)
  PROVE  RestrictionsHold'
<1> DEFINE P == setting.policy
<1>1. P \in [ProviderTypes -> SUBSET Names] /\ Within(P, allowed) /\ setting \in Settings
  BY RoutingAssumption DEF RestrictionsHold
<1>2. SUFFICES setting' = setting /\ Within(P, allowed') /\ AdmittedOutcome(last')
  BY <1>1 DEF RestrictionsHold, AdmittedOutcome
<1>3. setting' = setting
  BY DEF ToolCall, NoModelForAuto
<1>4. \A outcome, k, n, name : outcome # "sent" => AdmittedOutcome(Ended(outcome, k, n, name))
  BY DEF AdmittedOutcome, Ended, Nothing
<1>5. CASE NoModelForAuto(kind)
  BY <1>1, <1>3, <1>4, <1>5, AskingWithin DEF NoModelForAuto
<1>6. ASSUME NEW n, NEW name, NEW A, Within(P, A), NEW t, t = Route(A, name),
             Unavailable(kind, n, name, A, t) \/ Rejected(kind, n, name, A, t) \/ Served(kind, n, name, A, t)
      PROVE  Within(P, allowed') /\ AdmittedOutcome(last')
  <2> DEFINE B == AfterRoute(A, name, t)
  <2>1. Within(P, B)
    BY <1>1, <1>6, AskingWithin
  <2>2. /\ Within(P, AfterLists(B)) /\ Within(P, AfterAsking(B, t, name))
        /\ \A stream : Within(P, AfterSending(B, t, name, stream))
    BY <1>1, <2>1, AskingWithin
  <2>3. CASE Unavailable(kind, n, name, A, t)
    <3>1. allowed' = AfterLists(B)
      BY <2>3 DEF Unavailable
    <3>2. \E outcome \in {"unavailable", "no_models"} : last' = Ended(outcome, kind, n, name)
      BY <2>3 DEF Unavailable
    <3> QED
      BY <1>4, <2>2, <3>1, <3>2
  <2>4. CASE Rejected(kind, n, name, A, t)
    BY <1>4, <2>2, <2>4 DEF Rejected
  <2>5. CASE Served(kind, n, name, A, t)
    <3>1. (\E stream : allowed' = AfterSending(B, t, name, stream)) /\ t # NONE /\ Capable(B, t, name)
      BY <2>5 DEF Served
    <3>2. \E stream, request : last' = Sent(kind, n, name, t, EntryOf(t, name), stream, request)
      BY <2>5 DEF Served
    <3>3. last'.type = t /\ last'.model = EntryOf(t, name).name
      BY <3>2 DEF Sent, Ended, Nothing
    <3>4. t \in ProviderTypes
      BY <1>6, <3>1, RouteTakes DEF Registered
    <3>5. P[t] = {} \/ EntryOf(t, name).name \in ResolvedEntries(P, t)
      BY <1>1, <2>1, <3>1, <3>4, ServedIsAdmitted
    <3> QED
      BY <2>2, <3>1, <3>3, <3>5 DEF AdmittedOutcome
  <2> QED
    BY <1>6, <2>3, <2>4, <2>5
<1>7. CASE ~NoModelForAuto(kind)
  <2>1. PICK n, name, A, t :
            /\ A = AfterAuto(n) /\ t = Route(A, name)
            /\ \/ Unavailable(kind, n, name, A, t) \/ Rejected(kind, n, name, A, t)
               \/ Served(kind, n, name, A, t)
    BY <1>7 DEF ToolCall
  <2>2. Within(P, A)
    <3>1. A = allowed \/ A = AfterFallback(allowed)
      BY <2>1 DEF AfterAuto
    <3>2. Within(P, AfterFallback(allowed))
      BY <1>1, AskingWithin
    <3> QED
      BY <1>1, <3>1, <3>2
  <2> QED
    BY <1>3, <1>6, <2>1, <2>2
<1> QED
  BY <1>3, <1>5, <1>7

\* A consultation: only a restricted Azure is asked for a model it does not admit.
LEMMA ConsultHolds ==
  ASSUME ResolvesOnce, RestrictionsHold, NEW n, Consult(n)
  PROVE  RestrictionsHold'
<1> DEFINE P == setting.policy
           t == Route(allowed, n)
           A == AfterRoute(allowed, n, t)
<1>1. P \in [ProviderTypes -> SUBSET Names] /\ Within(P, allowed) /\ setting \in Settings
  BY RoutingAssumption DEF RestrictionsHold
<1>2. setting' = setting
  BY DEF Consult
<1>3. SUFFICES Within(P, allowed') /\ AdmittedOutcome(last')
  BY <1>1, <1>2 DEF RestrictionsHold, AdmittedOutcome
<1>4. Within(P, AfterLists(A)) /\ Within(P, AfterSending(A, t, n, FALSE))
  <2>1. Within(P, A)
    BY <1>1, AskingWithin
  <2> QED
    BY <1>1, <2>1, AskingWithin
<1>5. CASE t = NONE
  <2>1. allowed' = AfterLists(A) /\ last' = Ended("unavailable", "consult", n, n)
    BY <1>5 DEF Consult
  <2> QED
    BY <1>4, <2>1 DEF AdmittedOutcome, Ended, Nothing
<1>6. CASE t # NONE
  <2>1. allowed' = AfterSending(A, t, n, FALSE)
    BY <1>6 DEF Consult
  <2>2. \E request : last' = Sent("consult", n, n, t, EntryOf(t, n), FALSE, request)
    BY <1>6 DEF Consult
  <2>3. last'.type = t /\ last'.model = EntryOf(t, n).name /\ last'.kind = "consult"
    BY <2>2 DEF Sent, Ended, Nothing
  <2>4. t \in ProviderTypes /\ (t = "azure" \/ Capable(allowed, t, n))
    BY <1>6, RouteTakes DEF Registered, Validates
  <2>5. t = "azure" \/ P[t] = {} \/ EntryOf(t, n).name \in ResolvedEntries(P, t)
    BY <1>1, <2>4, ServedIsAdmitted
  <2> QED
    BY <1>4, <2>1, <2>3, <2>5 DEF AdmittedOutcome
<1> QED
  BY <1>5, <1>6

\* The invariant holds of every server.
LEMMA SchemaKeepsRestrictions ==
  ASSUME ResolvesOnce
  PROVE  SchemaSpec => []RestrictionsHold
<1>1. Init => RestrictionsHold
  BY RoutingAssumption DEF Init, RestrictionsHold, Within, AdmittedOutcome, Nothing
<1>2. RestrictionsHold /\ [SchemaNext]_vars => RestrictionsHold'
  <2> SUFFICES ASSUME RestrictionsHold, [SchemaNext]_vars PROVE RestrictionsHold'
    OBVIOUS
  <2> DEFINE P == setting.policy
  <2>1. P \in [ProviderTypes -> SUBSET Names] /\ Within(P, allowed) /\ setting \in Settings /\ AdmittedOutcome(last)
    BY RoutingAssumption DEF RestrictionsHold
  <2>2. Within(P, AfterLists(allowed)) /\ Within(P, AfterFallback(allowed))
    BY <2>1, AskingWithin
  <2>3. ASSUME setting' = setting, Within(P, allowed'), last' \in {last, Nothing}
        PROVE  RestrictionsHold'
    BY <2>1, <2>3 DEF RestrictionsHold, AdmittedOutcome, Nothing
  <2>4. CASE Configure
    BY <2>1, <2>2, <2>3, <2>4 DEF Configure
  <2>5. CASE ShowModels \/ PickFallback
    BY <2>1, <2>2, <2>3, <2>5 DEF ShowModels, PickFallback
  <2>6. CASE Answered \/ UNCHANGED vars
    BY <2>1, <2>3, <2>6 DEF Answered, vars
  <2>7. CASE GetInputSchema
    <3>1. PICK default \in DefaultModels :
              \E A \in {IF default = "auto" THEN allowed
                        ELSE AfterRoute(allowed, default, Route(allowed, default))} :
                 allowed' \in {AfterRanking(B) : B \in {AfterLists(A)}}
      BY <2>7 DEF GetInputSchema
    <3>2. PICK A : /\ A = allowed \/ A = AfterRoute(allowed, default, Route(allowed, default))
                   /\ allowed' = AfterRanking(AfterLists(A))
      BY <3>1
    <3>3. Within(P, A)
      <4>1. Within(P, AfterRoute(allowed, default, Route(allowed, default)))
        BY <2>1, AskingWithin
      <4> QED
        BY <2>1, <3>2, <4>1
    <3>4. Within(P, AfterLists(A))
      BY <2>1, <3>3, AskingWithin
    <3>5. Within(P, allowed')
      BY <2>1, <3>2, <3>4, AskingWithin
    <3> QED
      BY <2>3, <2>7, <3>5 DEF GetInputSchema
  <2>8. ASSUME NEW kind \in Kinds, ToolCall(kind) PROVE RestrictionsHold'
    BY <2>8, ToolCallHolds
  <2>9. ASSUME NEW n \in Names, Consult(n) PROVE RestrictionsHold'
    BY <2>9, ConsultHolds
  <2> QED
    BY <2>4, <2>5, <2>6, <2>7, <2>8, <2>9 DEF SchemaNext, Next
<1> QED
  BY <1>1, <1>2, PTL DEF SchemaSpec

\* The allowlists change as they are read, and still every request goes to a model its
\* provider's allowlist admits (is_allowed, get_provider_for_model), provided the custom
\* catalog shares no name with OpenRouter's.
THEOREM RestrictionsAreKept ==
  ASSUME ResolvesOnce
  PROVE  SchemaSpec => []OnlyAllowedServed
  BY SchemaKeepsRestrictions, RestrictionsImply, PTL

\* What the service and the lists answer does not depend on what they were asked before
\* (get_available_models, get_preferred_fallback_model, _get_ranked_model_summaries).
THEOREM SchemaKeepsAnswers ==
  ASSUME ResolvesOnce
  PROVE  SchemaSpec => []AnswersStable
  BY SchemaKeepsRestrictions, RestrictionsImply, PTL

-----------------------------------------------------------------------------
(* Choices.  A finite set that is ordered has a first element; counting    *)
(* the elements before each shows it.                                      *)
Orders(R, T) ==
    /\ \A x \in T : <<x, x>> \notin R
    /\ \A x, y \in T : x = y \/ <<x, y>> \in R \/ <<y, x>> \in R
    /\ \A x, y, z \in T : <<x, y>> \in R /\ <<y, z>> \in R => <<x, z>> \in R

LEMMA FiniteHasFirst ==
  ASSUME NEW T, IsFiniteSet(T), T # {}, NEW R, Orders(R, T)
  PROVE  \E x \in T : \A y \in T : x = y \/ <<x, y>> \in R
<1> DEFINE before(x) == {y \in T : <<y, x>> \in R}
           n == Cardinality(T)
           count == [x \in T |-> Cardinality(before(x))]
<1>1. n \in Nat /\ n > 0
  BY FS_CardinalityType, FS_EmptySet
<1>2. IsFiniteSet(0 .. n - 1) /\ Cardinality(0 .. n - 1) = n
  BY <1>1, FS_Interval
<1>3. ASSUME NEW x \in T PROVE IsFiniteSet(before(x)) /\ Cardinality(before(x)) \in 0 .. n - 1
  <2>1. IsFiniteSet(T \ {x}) /\ Cardinality(T \ {x}) = n - 1
    BY FS_RemoveElement
  <2>2. before(x) \in SUBSET (T \ {x})
    BY DEF Orders
  <2> HIDE DEF before
  <2>3. IsFiniteSet(before(x)) /\ Cardinality(before(x)) <= n - 1
    BY <2>1, <2>2, FS_Subset
  <2> QED
    BY <1>1, <2>3, FS_CardinalityType
<1>4. ASSUME NEW x \in T, NEW y \in T, <<x, y>> \in R PROVE count[x] # count[y]
  <2>1. before(x) \in SUBSET before(y) /\ x \in before(y) /\ x \notin before(x)
    BY <1>4 DEF Orders
  <2> HIDE DEF before
  <2>2. Cardinality(before(x)) = Cardinality(before(y)) => before(y) = before(x)
    BY <1>3, <2>1, FS_Subset
  <2> QED
    BY <2>1, <2>2
<1>5. count \in Injection(T, 0 .. n - 1)
  <2>1. count \in [T -> 0 .. n - 1]
    BY <1>3
  <2>2. \A x, y \in T : count[x] = count[y] => x = y
    BY <1>4 DEF Orders
  <2> HIDE DEF count, n
  <2> QED
    BY <2>1, <2>2 DEF Injection, IsInjective
<1>6. count \in Surjection(T, 0 .. n - 1)
  BY <1>2, <1>5, FS_Injection
<1>7. PICK x \in T : count[x] = 0
  <2>1. 0 \in 0 .. n - 1
    BY <1>1
  <2> QED
    BY <1>6, <2>1 DEF Surjection
<1>8. before(x) = {}
  <2>1. IsFiniteSet(before(x)) /\ Cardinality(before(x)) = 0
    BY <1>3, <1>7
  <2> QED
    BY <2>1, FS_EmptySet
<1> QED
  BY <1>8 DEF Orders

\* The names are finitely many, and the order of their spelling tells them apart.
LEMMA NamesAreRanked ==
  /\ IsFiniteSet(Names)
  /\ \A n \in Names : Rank(n) \in Int
  /\ \A m, n \in Names : Rank(m) = Rank(n) => m = n
<1> DEFINE ranks == [n \in Names |-> CHOOSE i \in DOMAIN NameOrder : NameOrder[i] = n]
           N == Len(NameOrder)
<1>1. N \in Nat /\ DOMAIN NameOrder = 1 .. N /\ NameOrder \in [1 .. N -> Names]
  BY CatalogAssumption
<1>2. IsFiniteSet(Names)
  <2>1. NameOrder \in Surjection(1 .. N, Names)
    BY <1>1 DEF Surjection, Names
  <2>2. IsFiniteSet(1 .. N)
    BY <1>1, FS_Interval
  <2> QED
    BY <2>1, <2>2, FS_Surjection
<1>3. ASSUME NEW n \in Names PROVE Rank(n) \in 1 .. N /\ NameOrder[Rank(n)] = n
  <2>1. RankTable = ranks
    BY TableHolds DEF RankTable
  <2>2. Rank(n) = CHOOSE i \in DOMAIN NameOrder : NameOrder[i] = n
    BY <2>1 DEF Rank
  <2>3. \E i \in DOMAIN NameOrder : NameOrder[i] = n
    BY DEF Names
  <2> QED
    BY <1>1, <2>2, <2>3
<1> QED
  BY <1>2, <1>3

\* A score is a number, for every name.
LEMMA ScoresAreNumbers ==
  ASSUME NEW t, NEW n
  PROVE  Score(t, n) \in Int
<1>1. CASE n \in Canonicals(t)
  <2>1. \E e \in Entries(t) : e.name = n
    BY <1>1 DEF Canonicals
  <2>2. \A e \in Entries(t) : e.score \in Int
    BY CatalogAssumption DEF Entries
  <2> QED
    BY <1>1, <2>1, <2>2 DEF Score
<1>2. CASE n \notin Canonicals(t)
  BY <1>2 DEF Score
<1> QED
  BY <1>1, <1>2

\* Of any names there is a best, a worst and a first.
LEMMA ChoiceIsOne ==
  ASSUME NEW S \in SUBSET Names, S # {}
  PROVE  First(S) \in S /\ \A t : Best(t, S) \in S /\ Worst(t, S) \in S
<1>1. /\ IsFiniteSet(S)
      /\ \A n \in S : Rank(n) \in Int
      /\ \A m, n \in S : Rank(m) = Rank(n) => m = n
  BY NamesAreRanked, FS_Subset
<1>2. First(S) \in S
  <2> DEFINE R == {p \in S \X S : Rank(p[1]) < Rank(p[2])}
  <2>1. \A x, y \in S : <<x, y>> \in R <=> Rank(x) < Rank(y)
    OBVIOUS
  <2> HIDE DEF R
  <2>2. Orders(R, S)
    BY <1>1, <2>1 DEF Orders
  <2>3. \E x \in S : \A y \in S : x = y \/ <<x, y>> \in R
    BY <1>1, <2>2, FiniteHasFirst
  <2>4. ASSUME NEW x \in S, NEW y \in S, x = y \/ <<x, y>> \in R PROVE Rank(x) <= Rank(y)
    <3>1. x = y \/ Rank(x) < Rank(y)
      BY <2>1, <2>4
    <3> QED
      BY <1>1, <3>1
  <2>5. \E x \in S : \A y \in S : Rank(x) <= Rank(y)
    BY <2>3, <2>4
  <2> QED
    BY <2>5 DEF First
<1>3. ASSUME NEW t PROVE Best(t, S) \in S /\ Worst(t, S) \in S
  <2> DEFINE Over(x, y) == Score(t, x) > Score(t, y) \/ (Score(t, x) = Score(t, y) /\ Rank(x) > Rank(y))
             R == {p \in S \X S : Over(p[1], p[2])}
             Q == {p \in S \X S : Over(p[2], p[1])}
  <2>1. \A x, y \in S : (<<x, y>> \in R <=> Over(x, y)) /\ (<<x, y>> \in Q <=> Over(y, x))
    OBVIOUS
  <2> HIDE DEF R, Q
  <2>2. \A n \in S : Score(t, n) \in Int
    BY ScoresAreNumbers
  <2>3. Orders(R, S) /\ Orders(Q, S)
    BY <1>1, <2>1, <2>2 DEF Orders
  <2>4. /\ \E x \in S : \A y \in S : x = y \/ <<x, y>> \in R
        /\ \E x \in S : \A y \in S : x = y \/ <<x, y>> \in Q
    BY <1>1, <2>3, FiniteHasFirst
  <2>5. ASSUME NEW x \in S, NEW y \in S
        PROVE  /\ x = y \/ <<x, y>> \in R => Better(t, x, y)
               /\ x = y \/ <<x, y>> \in Q => Better(t, y, x)
    <3>1. Rank(x) \in Int /\ Rank(y) \in Int
      BY <1>1
    <3>2. (x = y \/ Over(x, y) => Better(t, x, y)) /\ (x = y \/ Over(y, x) => Better(t, y, x))
      BY <2>2, <3>1 DEF Better
    <3> QED
      BY <2>1, <3>2
  <2>6. /\ \E x \in S : \A y \in S : Better(t, x, y)
        /\ \E x \in S : \A y \in S : Better(t, y, x)
    BY <2>4, <2>5
  <2> QED
    BY <2>6 DEF Best, Worst
<1> QED
  BY <1>2, <1>3

\* The model a provider prefers is one of those it offers.
LEMMA PreferredIsOffered ==
  ASSUME NEW t, NEW category \in {"extended", "fast", "balanced"}, NEW S \in SUBSET Names, S # {}
  PROVE  SelectPreferred(t, category, S) \in S
<1>1. CASE category = "extended"
  <2> DEFINE T == OrElse({n \in S : HasThinking(t, n)}, S)
  <2>1. T \in SUBSET S /\ T # {}
    BY DEF OrElse
  <2> HIDE DEF T
  <2>2. Best(t, T) \in T
    BY <2>1, ChoiceIsOne
  <2> QED
    BY <1>1, <2>1, <2>2 DEF SelectPreferred, T
<1>2. CASE category = "fast"
  <2> DEFINE fast == S \cap FastNames
  <2>1. fast # {} => Best(t, fast) \in S
    BY ChoiceIsOne
  <2>2. Worst(t, S) \in S
    BY ChoiceIsOne
  <2> QED
    BY <1>2, <2>1, <2>2 DEF SelectPreferred
<1>3. CASE category = "balanced"
  BY <1>3, ChoiceIsOne DEF SelectPreferred
<1> QED
  BY <1>1, <1>2, <1>3

-----------------------------------------------------------------------------
(* What is listed is served.                                               *)
Hidden(n) == EntryFor("azure", n) # {} /\ ~AdapterAllows("azure", Resolve("azure", n))

\* A name that some provider takes has a route, and what has a route is served or withheld.
LEMMA TakenIsServed ==
  ASSUME ResolvesOnce, RestrictionsHold, NEW n, NEW t \in Registered, Validates(allowed, t, n)
  PROVE  ServedAs(n) \/ AzureWithholds(n)
<1> DEFINE takers == {u \in Registered : Validates(allowed, u, n)}
           u == Route(allowed, n)
<1>1. u # NONE
  <2>1. takers # {} /\ takers \in SUBSET ProviderTypes
    BY DEF Registered
  <2>2. Earliest(takers) \in ProviderTypes
    BY <2>1, EarliestIsOne
  <2>3. NONE \notin ProviderTypes
    BY DEF NONE, ProviderTypes, PROVIDER_PRIORITY_ORDER
  <2> QED
    BY <2>1, <2>2, <2>3 DEF Route
<1>2. u \in Registered /\ Validates(allowed, u, n)
  BY <1>1, RouteTakes
<1>3. CASE Capable(allowed, u, n)
  BY <1>1, <1>3 DEF ServedAs
<1>4. CASE u = "azure" /\ AzureClaims(n) /\ ~RestrictedAzure
  <2> DEFINE a == AzureName(n)
  <2>1. u \in ProviderTypes
    BY <1>2 DEF Registered
  <2>2. allowed[u] = {} /\ AdapterAllows(u, Resolve(u, a))
    BY <1>4, <2>1 DEF RestrictedAzure, RestrictionsHold, Within, AdapterAllows
  <2>3. PICK e \in Entries(u) : e.name = a
    BY <1>4 DEF AzureClaims, Canonicals
  <2>4. a \in Names
    BY <2>3, CatalogAssumption DEF Entries
  <2>5. EntryFor(u, a) # {}
    BY <2>1, <2>3, <2>4, CatalogRead DEF Declares
  <2>6. Known(u, Resolve(u, a))
    BY <2>1, <2>4, <2>5, ResolvesToEntry DEF Known
  <2>7. Capable(allowed, u, n)
    BY <1>4, <2>2, <2>6 DEF Capable, IsAllowed, AsAsked
  <2> QED
    BY <1>3, <2>7
<1>5. CASE u = "azure" /\ RestrictedAzure
  BY <1>5 DEF AzureWithholds
<1> QED
  BY <1>2, <1>3, <1>4, <1>5 DEF Validates

\* A provider takes the names of a model it is allowed, or hides them behind its own allowlist.
LEMMA EntryIsTaken ==
  ASSUME NEW A, NEW t \in ProviderTypes, NEW e \in Entries(t), NEW n \in {e.name} \cup e.aliases,
         IsAllowed(A, t, {n}) \/ IsAllowed(A, t, {e.name})
  PROVE  Validates(A, t, n) \/ (t = "azure" /\ Hidden(n))
<1>1. n \in Names
  BY CatalogAssumption DEF Entries
<1>2. e \in EntryFor(t, n)
  BY <1>1, CatalogRead DEF Declares
<1>3. Resolve(t, n) = e.name /\ Known(t, e.name)
  BY <1>1, <1>2, DeclaredResolves DEF Known
<1>4. CASE AsAsked(t, n) = n
  <2>1. IsAllowed(A, t, AskedNames(t, n))
    BY <1>3, <1>4 DEF IsAllowed, AskedNames
  <2>2. CASE AdapterAllows(t, e.name)
    BY <1>3, <1>4, <2>1, <2>2 DEF Capable, Validates
  <2>3. CASE ~AdapterAllows(t, e.name)
    <3>1. t = "azure"
      BY <2>3 DEF AdapterAllows
    <3> QED
      BY <1>2, <1>3, <2>3, <3>1 DEF Hidden
  <2> QED
    BY <2>2, <2>3
<1>5. CASE AsAsked(t, n) # n
  <2>1. t = "azure" /\ \E c \in DOMAIN Deployment : Deployment[c] = n
    BY <1>5 DEF AsAsked, AzureName
  <2>2. AzureName(n) \in DOMAIN Deployment
    BY <2>1 DEF AzureName
  <2> QED
    BY <2>1, <2>2, CatalogAssumption DEF AzureClaims, Validates
<1> QED
  BY <1>4, <1>5

\* OpenRouter lists a model when one of its aliases is allowed; then its name is allowed as well.
LEMMA AliasAllowsName ==
  ASSUME NEW A, A \in [ProviderTypes -> SUBSET Names], NEW e \in Entries("openrouter"),
         NEW a \in e.aliases, IsAllowed(A, "openrouter", {a})
  PROVE  IsAllowed(A, "openrouter", {e.name})
<1> DEFINE t == "openrouter"
<1>1. t \in ProviderTypes
  BY DEF ProviderTypes, PROVIDER_PRIORITY_ORDER
<1>2. a \in Names
  BY CatalogAssumption DEF Entries
<1>3. e \in EntryFor(t, a)
  BY <1>1, <1>2, CatalogRead DEF Declares
<1>4. Resolve(t, a) = e.name
  BY <1>1, <1>2, <1>3, DeclaredResolves
<1>5. CASE A[t] = {}
  BY <1>5 DEF IsAllowed
<1>6. CASE a \in A[t]
  <2>1. e.name \in ResolvedEntries(A, t)
    BY <1>4, <1>6 DEF ResolvedEntries
  <2> QED
    BY <2>1 DEF IsAllowed
<1>7. CASE a \in ResolvedEntries(A, t)
  <2>1. PICK x \in A[t] : a = Resolve(t, x)
    BY <1>7 DEF ResolvedEntries
  <2>2. x \in Names
    BY <1>1
  <2>3. Resolve(t, a) = a \/ a = x
    BY <1>1, <2>1, <2>2, ResolvesToEntry, UndeclaredResolves
  <2>4. CASE Resolve(t, a) = a
    BY <1>4, <1>7, <2>4 DEF IsAllowed
  <2>5. CASE a = x
    BY <1>6, <2>1, <2>5
  <2> QED
    BY <2>3, <2>4, <2>5
<1> QED
  BY <1>5, <1>6, <1>7 DEF IsAllowed

\* A provider takes, or hides, every name it lists.
LEMMA ListedIsTaken ==
  ASSUME ResolvesOnce, RestrictionsHold, NEW t \in Registered, NEW n \in Displayed(AfterLists(allowed), t)
  PROVE  Validates(allowed, t, n) \/ (t = "azure" /\ Hidden(n))
<1> DEFINE P == setting.policy
           B == AfterLists(allowed)
<1>1. P \in [ProviderTypes -> SUBSET Names] /\ Within(P, allowed) /\ t \in ProviderTypes
  BY RoutingAssumption DEF RestrictionsHold, Registered
<1>2. Within(P, B)
  BY <1>1, AskingWithin
<1>3. CASE Capable(B, t, n)
  <2>1. Capable(allowed, t, n)
    BY <1>1, <1>2, <1>3, CapableAsPolicy
  <2> QED
    BY <2>1 DEF Validates
<1>4. CASE n \in ListModels(B, t)
  <2>1. n \in ListModels(allowed, t)
    BY <1>1, <1>2, <1>4, ListsAsPolicy
  <2>2. PICK e \in AllowedEntries(allowed, t) :
            n = e.name \/ (t # "openrouter" /\ n \in e.aliases)
    BY <2>1 DEF ListModels
  <2>3. e \in Entries(t)
    BY <2>2 DEF AllowedEntries
  <2>4. IsAllowed(allowed, t, {e.name})
    <3>1. IsAllowed(allowed, t, {e.name}) \/ (t = "openrouter" /\ \E a \in e.aliases : IsAllowed(allowed, t, {a}))
      BY <2>2 DEF AllowedEntries
    <3>2. allowed \in [ProviderTypes -> SUBSET Names]
      BY <1>1 DEF Within
    <3> QED
      BY <2>3, <3>1, <3>2, AliasAllowsName
  <2> QED
    BY <1>1, <2>2, <2>3, <2>4, EntryIsTaken
<1>5. Capable(B, t, n) \/ n \in ListModels(B, t)
  BY DEF Displayed, OrElse
<1> QED
  BY <1>3, <1>4, <1>5

\* The model "auto" stands for is one that some provider offers.
LEMMA FallbackIsOffered ==
  ASSUME NEW A, NEW category \in Categories, HasFallback(A)
  PROVE  \E t \in Registered : Fallback(A, category) \in Offered(A, t)
<1> DEFINE choosing == Choosing(A)
           T == OrElse(choosing, Offering(A))
           t == Earliest(T)
<1>1. T \in SUBSET ProviderTypes /\ T # {} /\ T \subseteq Offering(A)
  BY DEF HasFallback, Offering, Choosing, OrElse, Registered
<1> HIDE DEF T
<1>2. t \in T
  BY <1>1, EarliestIsOne
<1>3. t \in Registered /\ Offered(A, t) # {}
  BY <1>1, <1>2 DEF Offering
<1> HIDE DEF t
<1>4. Offered(A, t) \in SUBSET Names
  BY CatalogAssumption DEF Offered, NamesOf, Entries
<1>5. category \in {"extended", "fast", "balanced"}
  BY RoutingAssumption
<1>6. /\ SelectPreferred(t, category, Offered(A, t)) \in Offered(A, t)
      /\ First(Offered(A, t)) \in Offered(A, t)
  BY <1>3, <1>4, <1>5, PreferredIsOffered, ChoiceIsOne
<1>7. Fallback(A, category) \in Offered(A, t)
  BY <1>6 DEF Fallback, t, T
<1> QED
  BY <1>3, <1>7

-----------------------------------------------------------------------------
(* What is advertised is true.                                             *)

\* A model a provider serves under some name it serves under the model's own name, as that model.
LEMMA ModelHasItsName ==
  ASSUME ResolvesOnce, NEW policy \in [ProviderTypes -> SUBSET Names],
         NEW A, Within(policy, A), NEW t \in ProviderTypes, NEW n \in Names, Capable(A, t, n),
         NEW m, m = EntryOf(t, n).name
  PROVE  /\ m \in Names /\ Capable(A, t, m) /\ EntryOf(t, m) = EntryOf(t, n)
         /\ Has(t, n) /\ Has(t, m)
<1> DEFINE a == AsAsked(t, n)
           c == Resolve(t, a)
<1>1. /\ Capable(policy, t, n)
      /\ Known(t, c) /\ AdapterAllows(t, c)
  <2>1. Capable(policy, t, n)
    BY CapableAsPolicy
  <2> QED
    BY <2>1 DEF Capable
<1>2. policy[t] = {} \/ m \in ResolvedEntries(policy, t)
  BY ServedIsAdmitted
<1>3. a \in Names
  <2>1. CASE t = "azure" /\ \E d \in DOMAIN Deployment : Deployment[d] = n
    <3>1. a \in DOMAIN Deployment
      BY <2>1 DEF AsAsked, AzureName
    <3> QED
      BY <3>1, CatalogAssumption DEF Canonicals, Entries
  <2>2. CASE ~(t = "azure" /\ \E d \in DOMAIN Deployment : Deployment[d] = n)
    BY <2>2 DEF AsAsked, AzureName
  <2> QED
    BY <2>1, <2>2
<1> HIDE DEF a
<1>4. c \in Names
  BY <1>3, ResolvesToEntry
<1>5. CASE EntryFor(t, c) # {}
  <2>1. EntryOf(t, n) \in EntryFor(t, c) /\ EntryOf(t, n) = CHOOSE e \in EntryFor(t, c) : TRUE
    BY <1>5 DEF EntryOf, a
  <2>2. Resolve(t, c) = m /\ m \in Canonicals(t) /\ m \in Names
    BY <1>4, <2>1, DeclaredResolves
  <2>3. Resolve(t, c) = c
    BY <1>3, <1>5, Rereads, IdleIsUnknown
  <2>4. c = m
    BY <2>2, <2>3
  <2>5. AsAsked(t, m) = m
    <3>1. ASSUME t = "azure", NEW d \in DOMAIN Deployment, Deployment[d] = m PROVE d = m
      <4>1. PICK e \in Entries(t) : e.name = m
        BY <2>2 DEF Canonicals
      <4>2. t \in ProviderTypes /\ e \in EntryFor(t, m)
        BY <2>2, <4>1, CatalogRead DEF Declares
      <4> QED
        BY <3>1, <4>1, <4>2, CatalogAssumption DEF DeploymentsApart
    <3> QED
      BY <2>2, <3>1, CatalogAssumption DEF AsAsked, AzureName
  <2>6. EntryOf(t, m) = EntryOf(t, n)
    <3>1. Resolve(t, AsAsked(t, m)) = c
      BY <2>3, <2>4, <2>5
    <3> HIDE DEF c
    <3>2. EntryOf(t, m) = CHOOSE e \in EntryFor(t, c) : TRUE
      BY <1>5, <3>1 DEF EntryOf
    <3> QED
      BY <2>1, <3>2
  <2>7. Capable(policy, t, m)
    BY <1>1, <1>2, <2>2, <2>3, <2>4, <2>5 DEF Capable, IsAllowed, AskedNames
  <2> QED
    BY <1>1, <2>2, <2>3, <2>4, <2>5, <2>6, <2>7, CapableAsPolicy DEF Has, a
<1>6. CASE EntryFor(t, c) = {}
  <2>1. t = "openrouter" /\ a = n /\ m = c
    BY <1>1, <1>6 DEF Known, AsAsked, EntryOf, Generic, a
  <2>2. c = n
    BY <1>6, <2>1, ResolvesToEntry, UndeclaredResolves
  <2> QED
    BY <1>1, <2>1, <2>2 DEF Has, a
<1> QED
  BY <1>5, <1>6

\* The names a provider shows are names of its models or on its allowlist.
LEMMA DisplayedAreShown ==
  ASSUME ResolvesOnce, NEW s \in Settings, NEW A, Within(s.policy, A),
         NEW t \in ProviderTypes, NEW n \in Displayed(A, t)
  PROVE  n \in NamesShown(t) /\ n \in Names
<1> DEFINE policy == s.policy
<1>1. policy \in [ProviderTypes -> SUBSET Names] /\ A \in [ProviderTypes -> SUBSET Names]
  BY RoutingAssumption DEF Within
<1>2. \A x \in policy[t] : x \in NamesShown(t) /\ x \in Names
  BY <1>1 DEF NamesShown
<1>3. \A e \in Entries(t) : \A x \in {e.name} \cup e.aliases : x \in NamesShown(t) /\ x \in Names
  <2> SUFFICES ASSUME NEW e \in Entries(t), NEW x \in {e.name} \cup e.aliases
               PROVE  x \in NamesShown(t) /\ x \in Names
    OBVIOUS
  <2>1. x \in Names
    BY CatalogAssumption DEF Entries
  <2>2. e \in EntryFor(t, x)
    BY <2>1, CatalogRead DEF Declares
  <2> QED
    BY <2>1, <2>2 DEF NamesShown
<1>4. CASE n \in ListModels(A, t)
  BY <1>3, <1>4 DEF ListModels, AllowedEntries
<1>5. CASE n \in A[t] /\ Capable(A, t, n)
  <2>1. n \in Names
    BY <1>1, <1>5
  <2>2. ASSUME NEW e \in EntryFor(t, n) PROVE n \in NamesShown(t)
    <3>1. e \in Entries(t) /\ Declares(e, n)
      BY <2>1, <2>2, CatalogRead
    <3> QED
      BY <1>3, <3>1 DEF Declares
  <2>3. CASE n \in policy[t]
    BY <1>2, <2>1, <2>3
  <2>4. CASE Idle(t, n)
    <3>1. ~Known(t, Resolve(t, AsAsked(t, n)))
      BY <2>4, IdleIsUnknown
    <3> QED
      BY <1>5, <3>1 DEF Capable
  <2>5. CASE n \in ResolvedEntries(policy, t) /\ ~Idle(t, n)
    <3>1. PICK p \in policy[t] : n = Resolve(t, p)
      BY <2>5 DEF ResolvedEntries
    <3>2. p \in Names
      BY <1>1
    <3>3. CASE EntryFor(t, p) # {}
      BY <2>1, <2>2, <3>1, <3>2, <3>3, ResolvesToEntry
    <3>4. CASE EntryFor(t, p) = {} /\ t # "custom"
      BY <1>2, <3>1, <3>2, <3>4, UndeclaredResolves
    <3>5. CASE EntryFor(t, n) = {} /\ t = "custom"
      <4>1. AsAsked(t, n) = n
        BY <3>5 DEF AsAsked
      <4>2. Known(t, Resolve(t, n)) /\ Resolve(t, n) = n
        BY <1>5, <2>5, <3>1, <3>2, <4>1, Rereads DEF Capable
      <4> QED
        BY <3>5, <4>2 DEF Known
    <3> QED
      BY <2>1, <2>2, <3>3, <3>4, <3>5
  <2>6. n \in policy[t] \/ n \in ResolvedEntries(policy, t) \/ Idle(t, n)
    BY <1>5 DEF Within
  <2> QED
    BY <2>1, <2>3, <2>4, <2>5, <2>6
<1> QED
  BY <1>4, <1>5 DEF Displayed, OrElse

\* A model of its own that a provider serves is on its list, under all its names if the provider
\* is not restricted, and else under one that is on its allowlist.
LEMMA OwnModelIsDisplayed ==
  ASSUME NEW A \in [ProviderTypes -> SUBSET Names], NEW B, B = AfterLists(A),
         NEW u \in Registered, u \notin {"azure", "openrouter"},
         NEW e \in Entries(u), Capable(B, u, e.name)
  PROVE  /\ e.name \in Displayed(B, u)
         /\ B[u] = {} => e.aliases \subseteq Displayed(B, u)
         /\ B[u] # {} => e.name \in B[u]
<1> DEFINE m == e.name
<1>1. u \in ProviderTypes /\ m \in Names /\ m \in Canonicals(u) /\ AsAsked(u, m) = m
  BY CatalogAssumption DEF Registered, Entries, Canonicals, AsAsked
<1>2. Resolve(u, m) = m
  <2>1. e \in EntryFor(u, m)
    BY <1>1, CatalogRead DEF Declares
  <2> QED
    BY <1>1, <2>1, DeclaredResolves
<1>3. CASE B[u] = {}
  <2>1. e \in AllowedEntries(B, u)
    BY <1>3 DEF AllowedEntries, IsAllowed
  <2>2. {m} \cup e.aliases \subseteq ListModels(B, u)
    BY <2>1 DEF ListModels
  <2> QED
    BY <1>3, <2>2 DEF Displayed
<1>4. CASE B[u] # {}
  <2>1. B[u] = A[u] \cup (ResolvedEntries(A, u) \cap Canonicals(u))
    BY <1>1 DEF AfterLists
  <2>2. m \in B[u] \/ m \in ResolvedEntries(B, u)
    BY <1>1, <1>2, <1>4 DEF Capable, IsAllowed, AskedNames
  <2>3. ASSUME NEW x \in B[u], m = Resolve(u, x) PROVE m \in B[u]
    <3>1. CASE x \in A[u]
      BY <1>1, <2>1, <2>3, <3>1 DEF ResolvedEntries
    <3>2. CASE x \in Canonicals(u)
      <4>1. PICK f \in Entries(u) : x = f.name
        BY <3>2 DEF Canonicals
      <4>2. x \in Names
        BY <4>1, CatalogAssumption DEF Entries
      <4>3. f \in EntryFor(u, x)
        BY <1>1, <4>1, <4>2, CatalogRead DEF Declares
      <4>4. Resolve(u, x) = x
        BY <1>1, <4>1, <4>2, <4>3, DeclaredResolves
      <4> QED
        BY <2>3, <4>4
    <3> QED
      BY <2>1, <3>1, <3>2
  <2>4. m \in B[u]
    BY <2>2, <2>3 DEF ResolvedEntries
  <2>5. m \in {x \in B[u] : Capable(B, u, x)}
    BY <2>4
  <2> QED
    BY <1>4, <2>4, <2>5 DEF Displayed, OrElse
<1> QED
  BY <1>3, <1>4

\* The priorities are the places 1 to 8, a place for each provider.
LEMMA PrioritiesAre ==
  /\ \A t \in ProviderTypes : Priority(t) \in 1 .. 8 /\ PROVIDER_PRIORITY_ORDER[Priority(t)] = t
  /\ \A t, u \in ProviderTypes : Priority(t) = Priority(u) => t = u
  /\ Priority("openrouter") = 8
<1>1. DOMAIN PROVIDER_PRIORITY_ORDER = 1 .. 8
  BY DEF PROVIDER_PRIORITY_ORDER
<1>2. \A t \in ProviderTypes : \E i \in DOMAIN PROVIDER_PRIORITY_ORDER : PROVIDER_PRIORITY_ORDER[i] = t
  BY DEF ProviderTypes
<1>3. \A t \in ProviderTypes : Priority(t) \in 1 .. 8 /\ PROVIDER_PRIORITY_ORDER[Priority(t)] = t
  <2> HIDE DEF PROVIDER_PRIORITY_ORDER
  <2> QED
    BY <1>1, <1>2 DEF Priority
<1>4. Priority("openrouter") = 8
  <2>1. "openrouter" \in ProviderTypes
    BY DEF ProviderTypes, PROVIDER_PRIORITY_ORDER
  <2>2. Priority("openrouter") \in 1 .. 8 /\ PROVIDER_PRIORITY_ORDER[Priority("openrouter")] = "openrouter"
    BY <1>3, <2>1
  <2>3. \A i \in 1 .. 8 : PROVIDER_PRIORITY_ORDER[i] = "openrouter" => i = 8
    BY DEF PROVIDER_PRIORITY_ORDER
  <2> QED
    BY <2>2, <2>3
<1> QED
  BY <1>3, <1>4

\* A name Azure hides is one of a model it has.
LEMMA HiddenIsHad ==
  ASSUME NEW n \in Names, Hidden(n)
  PROVE  Has("azure", n)
<1>1. "azure" \in ProviderTypes
  BY DEF ProviderTypes, PROVIDER_PRIORITY_ORDER
<1>2. CASE AsAsked("azure", n) = n
  <2>1. EntryFor("azure", n) # {}
    BY DEF Hidden
  <2>2. EntryFor("azure", Resolve("azure", n)) # {}
    BY <1>1, <2>1, ResolvesToEntry
  <2> QED
    BY <1>2, <2>2 DEF Has, Known
<1>3. CASE AsAsked("azure", n) # n
  <2>1. AzureClaims(n)
    <3>1. \E c \in DOMAIN Deployment : Deployment[c] = n
      BY <1>3 DEF AsAsked, AzureName
    <3>2. AzureName(n) \in DOMAIN Deployment
      BY <3>1 DEF AzureName
    <3> QED
      BY <3>2, CatalogAssumption DEF AzureClaims
  <2>2. Validates([t \in ProviderTypes |-> {}], "azure", n)
    BY <2>1 DEF Validates
  <2> QED
    BY <1>1, <2>2, ValidatesHas
<1> QED
  BY <1>2, <1>3

\* The entry of a model of the provider's own.
LEMMA OwnEntry ==
  ASSUME NEW u \in ProviderTypes, u # "azure", NEW e \in Entries(u)
  PROVE  EntryOf(u, e.name) = e
<1>1. e.name \in Names /\ AsAsked(u, e.name) = e.name
  BY CatalogAssumption DEF Entries, AsAsked
<1>2. e \in EntryFor(u, e.name)
  BY <1>1, CatalogRead DEF Declares
<1>3. Resolve(u, e.name) = e.name
  BY <1>1, <1>2, DeclaredResolves
<1>4. \A f \in EntryFor(u, e.name) : f = e
  BY <1>1, <1>2, CatalogAssumption DEF AliasMapsAreFunctions
<1> QED
  BY <1>1, <1>2, <1>3, <1>4 DEF EntryOf

\* The score of an entry is a number.
LEMMA ScoresOfEntries ==
  ASSUME NEW t, NEW n
  PROVE  EntryOf(t, n).score \in Int
<1> DEFINE c == Resolve(t, AsAsked(t, n))
<1>1. CASE EntryFor(t, c) = {}
  <2>1. EntryOf(t, n) = Generic(c)
    BY <1>1 DEF EntryOf
  <2> QED
    BY <2>1 DEF Generic
<1>2. CASE EntryFor(t, c) # {}
  <2>1. EntryOf(t, n) \in EntryFor(t, c)
    BY <1>2 DEF EntryOf
  <2>2. t \in ProviderTypes /\ c \in Names
    BY <1>2 DEF EntryFor
  <2>3. EntryOf(t, n) \in Entries(t)
    BY <2>1, <2>2, DeclaredResolves
  <2> QED
    BY <2>3, CatalogAssumption DEF Entries
<1> QED
  BY <1>1, <1>2

\* A name of a ranking: the first provider that displays it serves it.
LEMMA RankedNames ==
  ASSUME NEW B
  PROVE  /\ \A r \in RankedModels(B) : \E n : \E t \in Registered :
               /\ n \in Displayed(B, t) /\ Capable(B, t, n) /\ r = Ranked(n, t)
               /\ \A u \in Registered : n \in Displayed(B, u) => Priority(t) <= Priority(u)
         /\ \A n : \A t \in Registered :
               /\ n \in Displayed(B, t) /\ Capable(B, t, n)
               /\ \A u \in Registered : n \in Displayed(B, u) /\ Priority(u) <= Priority(t) => u = t
               => Ranked(n, t) \in RankedModels(B)
<1> DEFINE shown == [t \in Registered |-> Displayed(B, t)]
           first(n) == ListedBy(shown, n)
<1>1. \A r : r \in RankedModels(B) <=>
             \E p \in Listed(shown) : Capable(B, p[2], p[1]) /\ r = Ranked(p[1], p[2])
  BY TableHolds DEF RankedModels
<1>2. \A n : \A t \in Registered : n \in Displayed(B, t) =>
            /\ first(n) \in Registered /\ n \in Displayed(B, first(n))
            /\ \A u \in Registered : n \in Displayed(B, u) => Priority(first(n)) <= Priority(u)
  <2> SUFFICES ASSUME NEW n, NEW t \in Registered, n \in Displayed(B, t)
               PROVE  /\ first(n) \in Registered /\ n \in Displayed(B, first(n))
                      /\ \A u \in Registered : n \in Displayed(B, u) => Priority(first(n)) <= Priority(u)
    OBVIOUS
  <2> DEFINE T == {u \in Registered : n \in shown[u]}
  <2>1. T \in SUBSET ProviderTypes /\ t \in T
    BY DEF Registered
  <2>2. first(n) = Earliest(T)
    BY DEF ListedBy
  <2>3. Earliest(T) \in T /\ \A u \in T : Priority(Earliest(T)) <= Priority(u)
    <3> HIDE DEF T
    <3> QED
      BY <2>1, EarliestIsOne
  <2> QED
    BY <2>2, <2>3
<1>3. \A p : p \in Listed(shown) <=> \E n : (\E t \in Registered : n \in Displayed(B, t)) /\ p = <<n, first(n)>>
  BY DEF Listed
<1> HIDE DEF shown, first
<1>4. ASSUME NEW r \in RankedModels(B)
      PROVE  \E n : \E t \in Registered :
               /\ n \in Displayed(B, t) /\ Capable(B, t, n) /\ r = Ranked(n, t)
               /\ \A u \in Registered : n \in Displayed(B, u) => Priority(t) <= Priority(u)
  <2>1. PICK p \in Listed(shown) : Capable(B, p[2], p[1]) /\ r = Ranked(p[1], p[2])
    BY <1>1
  <2>2. PICK n : (\E t \in Registered : n \in Displayed(B, t)) /\ p = <<n, first(n)>>
    BY <1>3, <2>1
  <2>3. p[1] = n /\ p[2] = first(n)
    BY <2>2
  <2> QED
    BY <1>2, <2>1, <2>2, <2>3
<1>5. ASSUME NEW n, NEW t \in Registered, n \in Displayed(B, t), Capable(B, t, n),
             \A u \in Registered : n \in Displayed(B, u) /\ Priority(u) <= Priority(t) => u = t
      PROVE  Ranked(n, t) \in RankedModels(B)
  <2>1. first(n) = t
    BY <1>2, <1>5
  <2>2. <<n, t>> \in Listed(shown) /\ <<n, t>>[1] = n /\ <<n, t>>[2] = t
    BY <1>3, <1>5, <2>1
  <2> QED
    BY <1>1, <1>5, <2>2
<1> QED
  BY <1>4, <1>5

\* What is advertised is the foremost of what may be advertised of its model.
LEMMA AdvertisedAreForemost ==
  ASSUME NEW B, NEW r \in Advertised(B)
  PROVE  /\ r \in RankedModels(B) /\ OnPolicy(B, r)
         /\ \A s \in RankedModels(B) : OnPolicy(B, s) /\ s.model = r.model => ~Before(s, r)
<1> DEFINE S == {s \in RankedModels(B) : OnPolicy(B, s)}
<1>1. r \in Summaries(B)
  BY DEF Advertised
<1>2. r \in Foremost(S)
  BY <1>1 DEF Summaries
<1>3. r \in S /\ \A s \in S : Normalized(s.model) = Normalized(r.model) => ~Before(s, r)
  BY <1>2 DEF Foremost
<1> QED
  BY <1>3

\* No earlier provider takes the model that is advertised for a later one.
LEMMA AdvertisedIsRouted ==
  ASSUME ResolvesOnce, ModelsApart, RestrictionsHold, NEW B, B = AfterLists(allowed),
         NEW r \in Advertised(B)
  PROVE  /\ Route(allowed, r.model) = r.type
         /\ Capable(allowed, r.type, r.model)
         /\ EntryOf(r.type, r.model).name = r.model
<1> DEFINE P == setting.policy
           m == r.model
<1>1. /\ P \in [ProviderTypes -> SUBSET Names] /\ setting \in Settings
      /\ Within(P, allowed) /\ Within(P, B) /\ allowed \in [ProviderTypes -> SUBSET Names]
  <2>1. P \in [ProviderTypes -> SUBSET Names] /\ setting \in Settings /\ Within(P, allowed)
    BY RoutingAssumption DEF RestrictionsHold
  <2>2. Within(P, B)
    BY <2>1, AskingWithin
  <2> QED
    BY <2>1, <2>2 DEF Within
<1>2. PICK n : \E t \in Registered :
         /\ n \in Displayed(B, t) /\ Capable(B, t, n) /\ r = Ranked(n, t)
         /\ \A u \in Registered : n \in Displayed(B, u) => Priority(t) <= Priority(u)
  BY AdvertisedAreForemost, RankedNames
<1>2a. PICK t \in Registered :
         /\ n \in Displayed(B, t) /\ Capable(B, t, n) /\ r = Ranked(n, t)
         /\ \A u \in Registered : n \in Displayed(B, u) => Priority(t) <= Priority(u)
  BY <1>2
<1>3. /\ r.type = t /\ r.name = n /\ m = EntryOf(t, n).name /\ r.rank = EntryOf(t, n).score
      /\ t \in ProviderTypes
  BY <1>2a DEF Ranked, Registered
<1>4. n \in NamesShown(t) /\ n \in Names
  BY <1>1, <1>2a, <1>3, DisplayedAreShown
<1>5. /\ m \in Names /\ Capable(B, t, m) /\ EntryOf(t, m) = EntryOf(t, n) /\ Has(t, n)
  BY <1>1, <1>2a, <1>3, <1>4, ModelHasItsName
<1> HIDE DEF m, P
<1>6. Capable(allowed, t, m)
  BY <1>1, <1>3, <1>5, CapableAsPolicy
<1>7. ASSUME NEW u \in Registered, Validates(allowed, u, m), Priority(u) < Priority(t),
             \A v \in Registered : Validates(allowed, v, m) => Priority(u) <= Priority(v)
      PROVE  FALSE
  <2>1. u \in ProviderTypes /\ u # "openrouter"
    <3>1. Priority("openrouter") = 8 /\ \A v \in ProviderTypes : Priority(v) \in 1 .. 8
      BY PrioritiesAre
    <3> QED
      BY <1>3, <1>7, <3>1 DEF Registered
  <2>2. Has(u, m)
    BY <1>5, <1>7, <2>1, ValidatesHas
  <2>3. Yields(t, n, u, m)
    BY <1>3, <1>4, <1>5, <1>7, <2>1, <2>2 DEF ModelsApart
  <2>4. u # "azure"
    BY <2>3 DEF Yields
  <2>5. PICK e \in Entries(u) :
           /\ e.name = m /\ n \in {m} \cup e.aliases
           /\ n # m => EntryOf(t, n).score <= e.score /\ Rank(m) < Rank(n)
    BY <2>3 DEF Yields
  <2>6. Capable(B, u, m)
    BY <1>1, <1>7, <2>1, <2>4, CapableAsPolicy DEF Validates
  <2>7. /\ m \in Displayed(B, u)
        /\ B[u] = {} => e.aliases \subseteq Displayed(B, u)
        /\ B[u] # {} => m \in B[u]
    BY <1>1, <2>1, <2>4, <2>5, <2>6, OwnModelIsDisplayed
  <2>8. n \notin Displayed(B, u)
    BY <1>2a, <1>7, PrioritiesAre DEF Registered
  <2>9. n # m /\ B[u] # {} /\ m \in B[u]
    BY <2>5, <2>7, <2>8
  <2> DEFINE s == Ranked(m, u)
  <2>10. s \in RankedModels(B)
    <3>1. ASSUME NEW v \in Registered, m \in Displayed(B, v), Priority(v) <= Priority(u) PROVE v = u
      <4>1. v \in ProviderTypes
        BY DEF Registered
      <4>2. Validates(allowed, v, m) \/ (v = "azure" /\ Hidden(m))
        BY <3>1, ListedIsTaken
      <4>3. CASE v = "azure" /\ Hidden(m)
        <5>1. Has(v, m)
          BY <1>5, <4>3, HiddenIsHad
        <5>2. Priority(v) < Priority(t)
          BY <1>3, <1>7, <2>1, <3>1, <4>1, PrioritiesAre
        <5>3. Yields(t, n, v, m)
          BY <1>3, <1>4, <1>5, <4>1, <5>1, <5>2 DEF ModelsApart
        <5> QED
          BY <4>3, <5>3 DEF Yields
      <4>4. CASE Validates(allowed, v, m)
        BY <1>7, <2>1, <3>1, <4>1, <4>4, PrioritiesAre
      <4> QED
        BY <4>2, <4>3, <4>4
    <3> QED
      BY <2>6, <2>7, <3>1, RankedNames
  <2>11. EntryOf(u, m).name = m /\ EntryOf(u, m).score = e.score
    BY <1>5, <2>1, <2>4, <2>5, OwnEntry
  <2>12. s.name = m /\ s.model = m /\ s.rank = e.score /\ s.type = u
    BY <2>11 DEF Ranked
  <2>13. OnPolicy(B, s)
    BY <2>9, <2>12 DEF OnPolicy
  <2>14. Before(s, r)
    <3>1. EntryOf(t, n).score \in Int /\ e.score \in Int
      BY ScoresOfEntries, CatalogAssumption DEF Entries
    <3> QED
      BY <1>3, <2>5, <2>9, <2>12, <3>1 DEF Before
  <2> QED
    BY <2>10, <2>12, <2>13, <2>14, AdvertisedAreForemost DEF m
<1>8. Route(allowed, m) = t
  <2> DEFINE T == {v \in Registered : Validates(allowed, v, m)}
             u == Earliest(T)
  <2>1. t \in T /\ T \in SUBSET ProviderTypes
    BY <1>6 DEF Validates, Registered
  <2>2. Route(allowed, m) = u
    BY <2>1 DEF Route
  <2>3. u \in T /\ \A v \in T : Priority(u) <= Priority(v)
    <3> HIDE DEF T
    <3> QED
      BY <2>1, EarliestIsOne
  <2>4. u \in Registered /\ Validates(allowed, u, m) /\ Priority(u) <= Priority(t)
        /\ \A v \in Registered : Validates(allowed, v, m) => Priority(u) <= Priority(v)
    BY <2>1, <2>3
  <2> HIDE DEF u, T
  <2>5. ~(Priority(u) < Priority(t))
    BY <1>7, <2>4
  <2>6. u = t
    BY <2>4, <2>5, PrioritiesAre DEF Registered
  <2> QED
    BY <2>2, <2>6
<1> QED
  BY <1>3, <1>5, <1>6, <1>8 DEF m

\* Every name on the list (get_available_models) and every name listmodels prints, except of a
\* custom endpoint with an allowlist, and in auto mode the model chosen for every
\* category (get_preferred_fallback_model), is routed to a provider that serves it, or is one
\* that a restricted Azure withholds; and a schema that leaves "model" optional is right that
\* the default is served (is_effective_auto_mode).
THEOREM ListedModelsAreServed ==
  ASSUME ResolvesOnce
  PROVE  SchemaSpec => [](ListedIsServed /\ AutoServes /\ OptionalIsServed)
<1>1. RestrictionsHold => ListedIsServed
  <2>1. ASSUME RestrictionsHold, NEW n \in Available(allowed)
        PROVE  ServedAs(n) \/ AzureWithholds(n)
    <3>1. PICK t \in Registered : n \in Displayed(AfterLists(allowed), t)
      BY DEF Available
    <3>2. Validates(allowed, t, n) \/ Hidden(n)
      BY <2>1, <3>1, ListedIsTaken
    <3> QED
      BY <2>1, <3>2, TakenIsServed DEF Hidden, AzureWithholds
  <2>2. ASSUME RestrictionsHold, NEW t \in PrintedWhole(allowed), NEW n \in NamesOf(t)
        PROVE  ServedAs(n) \/ AzureWithholds(n) \/ CustomWithholds(n)
    <3>1. CASE allowed[t] = {}
      <4>1. PICK e \in Entries(t) : n \in {e.name} \cup e.aliases
        BY DEF NamesOf
      <4>2. t \in Registered /\ t \in ProviderTypes
        BY DEF PrintedWhole, Registered
      <4>3. IsAllowed(allowed, t, {n})
        BY <3>1 DEF IsAllowed
      <4>4. Validates(allowed, t, n) \/ Hidden(n)
        BY <4>1, <4>2, <4>3, EntryIsTaken
      <4> QED
        BY <2>2, <4>2, <4>4, TakenIsServed DEF Hidden, AzureWithholds
    <3>2. CASE allowed[t] # {}
      <4>1. t = "custom"
        BY <3>2 DEF PrintedWhole
      <4>2. setting.policy["custom"] # {}
        BY <2>2, <3>2, <4>1 DEF RestrictionsHold, Within, ProviderTypes, PROVIDER_PRIORITY_ORDER
      <4> QED
        BY <4>1, <4>2 DEF CustomWithholds
    <3> QED
      BY <3>1, <3>2
  <2> QED
    BY <2>1, <2>2 DEF ListedIsServed, Printed
<1>2. RestrictionsHold => AutoServes
  <2> SUFFICES ASSUME RestrictionsHold, HasFallback(allowed), NEW category \in Categories,
                      NEW n, n = Fallback(allowed, category)
               PROVE  ServedAs(n) \/ AzureWithholds(n)
    BY DEF AutoServes
  <2>1. PICK t \in Registered : n \in Offered(allowed, t)
    BY FallbackIsOffered
  <2>2. PICK e \in Entries(t) : n \in {e.name} \cup e.aliases /\ IsAllowed(allowed, t, {n})
    BY <2>1 DEF Offered, NamesOf
  <2>3. Validates(allowed, t, n) \/ Hidden(n)
    BY <2>2, EntryIsTaken DEF Registered
  <2> QED
    BY <2>3, TakenIsServed DEF Hidden, AzureWithholds
<1>3. RestrictionsHold => OptionalIsServed
  <2> SUFFICES ASSUME RestrictionsHold, NEW default \in DefaultModels,
                      ~EffectiveAuto(allowed, default), Parsed(default) = default
               PROVE  ServedAs(default) \/ (RestrictedAzure /\ Route(allowed, default) = "azure")
    BY DEF OptionalIsServed
  <2>1. Route(allowed, default) # NONE
    BY DEF EffectiveAuto
  <2>2. Route(allowed, default) \in Registered /\ Validates(allowed, Route(allowed, default), default)
    BY <2>1, RouteTakes
  <2>3. CASE Capable(allowed, Route(allowed, default), default)
    BY <2>1, <2>3 DEF ServedAs
  <2>4. CASE Route(allowed, default) = "azure" /\ ~RestrictedAzure
    <3>1. ServedAs(default) \/ AzureWithholds(default)
      BY <2>2, TakenIsServed
    <3>2. ~AzureWithholds(default)
      BY <2>4 DEF AzureWithholds, RestrictedAzure, AdapterAllows
    <3> QED
      BY <3>1, <3>2
  <2> QED
    BY <2>2, <2>3, <2>4 DEF Validates
<1>4. SchemaSpec => []RestrictionsHold
  BY SchemaKeepsRestrictions
<1> QED
  BY <1>1, <1>2, <1>3, <1>4, PTL

\* A caller that relays a model the description advertises (_get_ranked_model_summaries) gets
\* that model, from the provider it was ranked for, whatever the allowlists are and whatever
\* was asked before: if the catalogs keep the names of their models apart.
THEOREM AdvertisedModelsAreServed ==
  ASSUME ResolvesOnce, ModelsApart
  PROVE  SchemaSpec => []AdvertisedIsTrue
<1>1. RestrictionsHold => AdvertisedIsTrue
  BY AdvertisedIsRouted DEF AdvertisedIsTrue
<1> QED
  BY <1>1, SchemaKeepsRestrictions, PTL

\* The names the server shows or chooses, on the list, by listmodels, in a schema or for a
\* caller that names none, are served by the models they stand for or withheld as above.
THEOREM ShownModelsAreServed ==
  ASSUME ResolvesOnce, ModelsApart
  PROVE  SchemaSpec => []ShownIsServed
<1>1. ListedIsServed /\ AutoServes /\ OptionalIsServed /\ AdvertisedIsTrue => ShownIsServed
  BY DEF ShownIsServed
<1> QED
  BY <1>1, ListedModelsAreServed, AdvertisedModelsAreServed, PTL

-----------------------------------------------------------------------------
(* Types.                                                                  *)

\* Asking leaves allowlists of names.
LEMMA GrowsTyped ==
  ASSUME NEW A \in [ProviderTypes -> SUBSET Names], NEW B, Grows(A, B)
  PROVE  B \in [ProviderTypes -> SUBSET Names]
<1>1. ASSUME NEW t \in ProviderTypes PROVE B[t] \subseteq Names
  <2>1. \A p \in A[t] : Resolve(t, p) \in Names
    BY ResolvesToEntry
  <2>2. ResolvedEntries(A, t) \subseteq Names
    BY <2>1 DEF ResolvedEntries
  <2> QED
    BY <2>2 DEF Grows
<1> QED
  BY <1>1 DEF Grows

\* The same of every question the service is asked.
LEMMA AskingTyped ==
  ASSUME NEW A \in [ProviderTypes -> SUBSET Names]
  PROVE  /\ AfterLists(A) \in [ProviderTypes -> SUBSET Names]
         /\ AfterFallback(A) \in [ProviderTypes -> SUBSET Names]
         /\ AfterRanking(A) \in [ProviderTypes -> SUBSET Names]
         /\ \A n, t : /\ AfterRoute(A, n, t) \in [ProviderTypes -> SUBSET Names]
                      /\ AfterAsking(A, t, n) \in [ProviderTypes -> SUBSET Names]
                      /\ \A stream : AfterSending(A, t, n, stream) \in [ProviderTypes -> SUBSET Names]
<1> DEFINE Lists == [ProviderTypes -> SUBSET Names]
<1>1. \A C \in Lists :
         /\ AfterLists(C) \in Lists /\ AfterFallback(C) \in Lists /\ AfterRanking(C) \in Lists
         /\ \A n, t : AfterRoute(C, n, t) \in Lists /\ AfterAsking(C, t, n) \in Lists
  BY AskingGrows, GrowsTyped
<1> HIDE DEF Lists
<1>2. ASSUME NEW n, NEW t, NEW stream PROVE AfterSending(A, t, n, stream) \in Lists
  <2> DEFINE B == AfterAsking(A, t, n)
  <2>1. B \in Lists
    BY <1>1 DEF Lists
  <2> HIDE DEF B
  <2>2. \E m : AfterSending(A, t, n, stream) \in {B, AfterAsking(B, t, m)}
    BY DEF AfterSending, B
  <2> QED
    BY <1>1, <2>1, <2>2
<1> QED
  BY <1>1, <1>2 DEF Lists

\* How a call can end.
LEMMA OutcomesTyped ==
  /\ Nothing.outcome \in Outcomes
  /\ \A outcome, kind, n, name : outcome \in Outcomes => Ended(outcome, kind, n, name).outcome \in Outcomes
  /\ \A kind, n, name, t, e, stream, request : Sent(kind, n, name, t, e, stream, request).outcome \in Outcomes
BY DEF Nothing, Ended, Sent, Outcomes

\* A tool call keeps the types.
LEMMA ToolCallTyped ==
  ASSUME TypeOK, NEW kind, ToolCall(kind)
  PROVE  TypeOK'
<1> DEFINE Lists == [ProviderTypes -> SUBSET Names]
<1>1. allowed \in Lists /\ setting' = setting /\ phase' = phase
  BY DEF TypeOK, ToolCall, NoModelForAuto
<1>2. SUFFICES allowed' \in Lists /\ last'.outcome \in Outcomes
  BY <1>1 DEF TypeOK
<1>3. CASE NoModelForAuto(kind)
  <2>1. allowed' = AfterFallback(allowed) /\ last' = Ended("no_models", kind, "auto", NONE)
    BY <1>3 DEF NoModelForAuto
  <2> QED
    BY <1>1, <2>1, AskingTyped, OutcomesTyped DEF Outcomes
<1>4. CASE ~NoModelForAuto(kind)
  <2>1. PICK n, name, A, t :
            /\ A = AfterAuto(n)
            /\ \/ Unavailable(kind, n, name, A, t) \/ Rejected(kind, n, name, A, t)
               \/ Served(kind, n, name, A, t)
    BY <1>4 DEF ToolCall
  <2>2. A \in Lists
    <3>1. A = allowed \/ A = AfterFallback(allowed)
      BY <2>1 DEF AfterAuto
    <3>2. AfterFallback(allowed) \in Lists
      BY <1>1, AskingTyped
    <3> QED
      BY <1>1, <3>1, <3>2
  <2> DEFINE B == AfterRoute(A, name, t)
  <2>3. B \in Lists
    BY <2>2, AskingTyped
  <2>4. /\ AfterLists(B) \in Lists /\ AfterAsking(B, t, name) \in Lists
        /\ \A stream : AfterSending(B, t, name, stream) \in Lists
    BY <2>3, AskingTyped
  <2>5. CASE Unavailable(kind, n, name, A, t)
    <3>1. allowed' = AfterLists(B) /\ \E outcome \in {"unavailable", "no_models"} : last' = Ended(outcome, kind, n, name)
      BY <2>5 DEF Unavailable
    <3> QED
      BY <2>4, <3>1, OutcomesTyped DEF Outcomes
  <2>6. CASE Rejected(kind, n, name, A, t)
    <3>1. allowed' = AfterAsking(B, t, name) /\ last' = Ended("rejected", kind, n, name)
      BY <2>6 DEF Rejected
    <3> QED
      BY <2>4, <3>1, OutcomesTyped DEF Outcomes
  <2>7. CASE Served(kind, n, name, A, t)
    <3>1. \E stream : allowed' = AfterSending(B, t, name, stream)
      BY <2>7 DEF Served
    <3>2. \E stream, request : last' = Sent(kind, n, name, t, EntryOf(t, name), stream, request)
      BY <2>7 DEF Served
    <3> QED
      BY <2>4, <3>1, <3>2, OutcomesTyped
  <2> QED
    BY <2>1, <2>5, <2>6, <2>7
<1> QED
  BY <1>3, <1>4

\* A consultation keeps them.
LEMMA ConsultTyped ==
  ASSUME TypeOK, NEW n, Consult(n)
  PROVE  TypeOK'
<1> DEFINE Lists == [ProviderTypes -> SUBSET Names]
           t == Route(allowed, n)
           A == AfterRoute(allowed, n, t)
<1>1. allowed \in Lists /\ setting' = setting /\ phase' = phase
  BY DEF TypeOK, Consult
<1>2. SUFFICES allowed' \in Lists /\ last'.outcome \in Outcomes
  BY <1>1 DEF TypeOK
<1>3. A \in Lists
  BY <1>1, AskingTyped
<1>4. AfterLists(A) \in Lists /\ AfterSending(A, t, n, FALSE) \in Lists
  BY <1>3, AskingTyped
<1>5. CASE t = NONE
  <2>1. allowed' = AfterLists(A) /\ last' = Ended("unavailable", "consult", n, n)
    BY <1>5 DEF Consult
  <2> QED
    BY <1>4, <2>1, OutcomesTyped DEF Outcomes
<1>6. CASE t # NONE
  <2>1. allowed' = AfterSending(A, t, n, FALSE)
    BY <1>6 DEF Consult
  <2>2. \E request : last' = Sent("consult", n, n, t, EntryOf(t, n), FALSE, request)
    BY <1>6 DEF Consult
  <2> QED
    BY <1>4, <2>1, <2>2, OutcomesTyped
<1> QED
  BY <1>5, <1>6

\* Every variable has its type: whatever is asked of the restriction service, it holds
\* allowlists of names, one for each provider.
THEOREM TypeCorrect == SchemaSpec => []TypeOK
<1> DEFINE Lists == [ProviderTypes -> SUBSET Names]
<1>1. Init => TypeOK
  BY RoutingAssumption, OutcomesTyped DEF Init, TypeOK
<1>2. TypeOK /\ [SchemaNext]_vars => TypeOK'
  <2> SUFFICES ASSUME TypeOK, [SchemaNext]_vars PROVE TypeOK'
    OBVIOUS
  <2>1. allowed \in Lists /\ AfterLists(allowed) \in Lists /\ AfterFallback(allowed) \in Lists
    BY AskingTyped DEF TypeOK
  <2>2. CASE Configure
    BY <2>1, <2>2 DEF Configure, TypeOK
  <2>3. CASE ShowModels \/ PickFallback
    BY <2>1, <2>3 DEF ShowModels, PickFallback, TypeOK
  <2>4. CASE Answered \/ UNCHANGED vars
    BY <2>4, OutcomesTyped DEF Answered, vars, TypeOK
  <2>5. CASE GetInputSchema
    <3>1. PICK default \in DefaultModels :
              \E A \in {IF default = "auto" THEN allowed
                        ELSE AfterRoute(allowed, default, Route(allowed, default))} :
                 allowed' \in {AfterRanking(B) : B \in {AfterLists(A)}}
      BY <2>5 DEF GetInputSchema
    <3>2. PICK A : /\ A = allowed \/ A = AfterRoute(allowed, default, Route(allowed, default))
                   /\ allowed' = AfterRanking(AfterLists(A))
      BY <3>1
    <3>3. A \in Lists
      <4>1. AfterRoute(allowed, default, Route(allowed, default)) \in Lists
        BY <2>1, AskingTyped
      <4> QED
        BY <2>1, <3>2, <4>1
    <3>4. AfterLists(A) \in Lists
      BY <3>3, AskingTyped
    <3>5. allowed' \in Lists
      BY <3>2, <3>4, AskingTyped
    <3> QED
      BY <2>5, <3>5 DEF GetInputSchema, TypeOK
  <2>6. ASSUME NEW kind \in Kinds, ToolCall(kind) PROVE TypeOK'
    BY <2>6, ToolCallTyped
  <2>7. ASSUME NEW n \in Names, Consult(n) PROVE TypeOK'
    BY <2>7, ConsultTyped
  <2> QED
    BY <2>2, <2>3, <2>4, <2>5, <2>6, <2>7 DEF SchemaNext, Next
<1> QED
  BY <1>1, <1>2, PTL DEF SchemaSpec
==============================================================================
