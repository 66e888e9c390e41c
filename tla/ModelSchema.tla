----------------------------- MODULE ModelSchema -----------------------------
(***************************************************************************)
(* What a tool's schema tells the caller about models, ahead of any call:  *)
(* whether "model" must be given (is_effective_auto_mode), and the ranked  *)
(* models its description advertises (_get_ranked_model_summaries).        *)
(*                                                                         *)
(* The schema is built when tools are listed, so it reads and changes the  *)
(* same allowlists as the calls it advises.  What it promises is kept by   *)
(* other code: the handler's parsing, the routes and the adapters.         *)
(***************************************************************************)
EXTENDS ModelRouting

CONSTANTS
    Defaults,     \* values of DEFAULT_MODEL other than "auto"
    TailOf        \* names "vendor/model", before any ":": name -> the model part

ASSUME SchemaAssumption ==
    Defaults \subseteq Names /\ DOMAIN TailOf = Slashed \ DOMAIN BaseOf

MAX_SUMMARIES == 5

\* Faulty variant: a name several providers list is put down to the last of them.
LastLister(shown, n) ==
    CHOOSE t \in Registered : n \in shown[t] /\
        \A u \in Registered : n \in shown[u] => Priority(u) <= Priority(t)

(* get_available_models maps a name to the first provider that lists it.   *)
ListedBy(shown, n) == Earliest({t \in Registered : n \in shown[t]})

(* _collect_ranked_capabilities: the listed names whose provider has       *)
(* capabilities for them, by rank and then by name.                        *)
Ranked(n, t) ==
    [name |-> n, type |-> t, model |-> EntryOf(t, n).name, rank |-> EntryOf(t, n).score]
Listed(shown) == {<<n, ListedBy(shown, n)>> : n \in UNION {shown[t] : t \in Registered}}
RankedModels(B) ==
    UNION {{Ranked(p[1], p[2]) : p \in {p \in Listed(shown) : Capable(B, p[2], p[1])}} :
           shown \in {Table([t \in Registered |-> Displayed(B, t)])}}
Before(r, s) == r.rank > s.rank \/ (r.rank = s.rank /\ Rank(r.name) < Rank(s.name))

(* _normalize_model_identifier, which makes one model of the names several *)
(* providers have for it.                                                  *)
Untagged(n) == IF n \in DOMAIN BaseOf THEN BaseOf[n] ELSE n
Normalized(n) == IF Untagged(n) \in DOMAIN TailOf THEN TailOf[Untagged(n)] ELSE Untagged(n)

(* Once any provider is restricted, only models of restricted providers    *)
(* are advertised; of several names of one model, the first.               *)
OnPolicy(B, r) ==
    (\E t \in ProviderTypes : B[t] # {}) => {r.name, r.model} \cap B[r.type] # {}
Foremost(S) ==
    {r \in S : \A s \in S : Normalized(s.model) = Normalized(r.model) => ~Before(s, r)}
Summaries(B) ==
    UNION {Foremost(S) : S \in {{r \in RankedModels(B) : OnPolicy(B, r)}}}

(* The description names the first five.                                   *)
Advertised(B) ==
    UNION {{r \in S : Cardinality({s \in S : Before(s, r)}) < MAX_SUMMARIES} : S \in {Summaries(B)}}

(* is_effective_auto_mode: the model field is required when DEFAULT_MODEL  *)
(* is "auto" or no provider takes it, as it is spelt.                      *)
EffectiveAuto(A, default) == default = "auto" \/ Route(A, default) = NONE

(* get_input_schema: the auto mode check asks the route of the default,    *)
(* and the description lists and ranks.                                    *)
DefaultModels == IF setting.auto THEN {"auto"} ELSE Defaults
AfterRanking(B) ==
    LET ranked == RankedModels(B) IN
    [t \in ProviderTypes |->
        B[t] \cup UNION {AfterCapable(B, t, r.name) : r \in {r \in ranked : r.type = t}}]

GetInputSchema ==
    /\ phase = "up" /\ last = Nothing
    /\ \E default \in DefaultModels :
          \E A \in {IF default = "auto" THEN allowed
                  ELSE AfterRoute(allowed, default, Route(allowed, default))} :
             allowed' \in {AfterRanking(B) : B \in {AfterLists(A)}}
    /\ UNCHANGED <<setting, phase, last>>

SchemaNext == Next \/ GetInputSchema

SchemaSpec == Init /\ [][SchemaNext]_vars

-----------------------------------------------------------------------------
Settled == phase = "up" /\ last = Nothing

(* Of a model that two providers have, the earlier one's own name for it   *)
(* is the foremost, and the earlier one knows every name by which the      *)
(* later one shows it.  A name that Azure claims is no later provider's    *)
(* model.                                                                  *)
(* The code checks none of it: no two of the shipped catalogs share a      *)
(* model's name, nor has an earlier one such a name for an alias, and the  *)
(* shipped Azure catalog is empty.                                         *)
Has(t, n) == Known(t, Resolve(t, AsAsked(t, n)))
NamesShown(t) == {n \in Names : EntryFor(t, n) # {} \/ \E s \in Settings : n \in s.policy[t]}
Yields(t, n, u, m) ==
    /\ u # "azure"
    /\ \E e \in Entries(u) :
          /\ e.name = m /\ n \in {m} \cup e.aliases
          /\ n # m => EntryOf(t, n).score <= e.score /\ Rank(m) < Rank(n)
ModelsApart ==
    \A t, u \in ProviderTypes : Priority(u) < Priority(t) =>
        \A n \in NamesShown(t) :
            Has(t, n) /\ Has(u, EntryOf(t, n).name) => Yields(t, n, u, EntryOf(t, n).name)

(* A caller that relays an advertised name gets the model the description  *)
(* ranks, from the provider it was ranked for: the list, the alias maps,   *)
(* the handler's parsing and the route have to agree.  A ":" that the      *)
(* handler reads as an option is the exception.                            *)
AdvertisedIsTrue ==
    Settled =>
        \A B \in {AfterLists(allowed)} : \A r \in Advertised(B) :
            \/ /\ Route(allowed, r.model) = r.type
               /\ Capable(allowed, r.type, r.model)
               /\ EntryOf(r.type, r.model).name = r.model
            \/ Parsed(r.model) # r.model

(* A schema that leaves "model" optional is right that a call may leave it *)
(* out: the handler parses the default, which the schema does not, and     *)
(* the tool asks for its capabilities, which the route may not.            *)
OptionalIsServed ==
    Settled =>
        \A default \in DefaultModels :
            ~EffectiveAuto(allowed, default) =>
                \/ ServedAs(Parsed(default))
                \/ Parsed(default) # default
                \/ RestrictedAzure /\ Route(allowed, default) = "azure"

(* The names the server shows or chooses - on the list and by listmodels,  *)
(* in a schema, or for a caller that names none - are served by the models *)
(* they stand for, or withheld as said above.                              *)
ShownIsServed == ListedIsServed /\ AutoServes /\ AdvertisedIsTrue /\ OptionalIsServed
=============================================================================
