---------------------------- MODULE ModelCatalog ----------------------------
(***************************************************************************)
(* The models each provider knows, and how a provider reads a name.        *)
(*                                                                         *)
(* A catalog entry stands for one ModelCapabilities object loaded from     *)
(* conf/<provider>_models.json (or the file its environment variable       *)
(* names).  A name is a canonical model name, an alias, an Azure           *)
(* deployment, or a name nobody declared; case folding is left out (every  *)
(* lookup of the code folds case on both sides), and so are the caches of  *)
(* resolved aliases, which hold what a lookup returns.                     *)
(***************************************************************************)
EXTENDS Integers, Sequences, FiniteSetsExt, TLC

CONSTANTS
    Catalog,      \* the entries: records of type, name, aliases, score, thinks, ...
    Deployment,   \* Azure: canonical model name -> deployment name
    BaseOf,       \* names with a ":": name -> the part before the first ":"
    KeptWhole,    \* names "a/b:free", "a/b:beta" and "a/b:preview"
    Slashed,      \* names with a "/" before any ":"
    FastNames,    \* names holding one of _FAST_TIER_PATTERNS
    NameOrder     \* all names, in increasing string order

(* PROVIDER_PRIORITY_ORDER, native interfaces first, the catch-all last.   *)
PROVIDER_PRIORITY_ORDER ==
    <<"google", "openai", "azure", "anthropic", "xai", "dial", "custom", "openrouter">>

ProviderTypes == {PROVIDER_PRIORITY_ORDER[i] : i \in DOMAIN PROVIDER_PRIORITY_ORDER}
Priority(t) == CHOOSE i \in DOMAIN PROVIDER_PRIORITY_ORDER : PROVIDER_PRIORITY_ORDER[i] = t

Names == {NameOrder[i] : i \in DOMAIN NameOrder}
NONE == "-"                 \* no provider, no model, no parameter

(* A table is the function given; the comparison has TLC build it once,    *)
(* and not anew at every use.                                              *)
Table(f) == CHOOSE g \in {f} : g = f

RankTable == Table([n \in Names |-> CHOOSE i \in DOMAIN NameOrder : NameOrder[i] = n])
Rank(n) == RankTable[n]

(* The entries of a provider, and their alias-aware lookup (the alias map  *)
(* of a registry rejects an alias two models share, _build_maps).          *)
Entries(t) == {e \in Catalog : e.type = t}
Canonicals(t) == {e.name : e \in Entries(t)}
Declares(e, n) == n = e.name \/ n \in e.aliases
EntryTable ==
    Table([t \in ProviderTypes |-> Table([n \in Names |-> {e \in Entries(t) : Declares(e, n)}])])
EntryFor(t, n) == IF t \in ProviderTypes /\ n \in Names THEN EntryTable[t][n] ELSE {}
AliasMapsAreFunctions ==
    \A t \in ProviderTypes, n \in Names : \A e, f \in EntryFor(t, n) : e = f

(* Azure deployments: each serves one model, and one called by a declared   *)
(* name has a name of its own model.  The code does not check it.          *)
DeploymentsApart ==
    \A c, d \in DOMAIN Deployment :
        /\ Deployment[c] = Deployment[d] => c = d
        /\ \A e \in EntryFor("azure", Deployment[c]) : e.name = c

ASSUME CatalogAssumption ==
    /\ NameOrder \in Seq(Names)
    /\ \A e \in Catalog :
          e.type \in ProviderTypes /\ {e.name} \cup e.aliases \subseteq Names /\ e.score \in Int
    /\ DOMAIN Deployment = Canonicals("azure")
    /\ \A c \in DOMAIN Deployment : Deployment[c] \in Names
    /\ DOMAIN BaseOf \subseteq Names /\ KeptWhole \subseteq DOMAIN BaseOf \cap Slashed
    /\ \A n \in DOMAIN BaseOf : BaseOf[n] \in Names \ DOMAIN BaseOf
    /\ AliasMapsAreFunctions /\ DeploymentsApart

CanonicalOr(t, n, else) ==
    IF EntryFor(t, n) = {} THEN else ELSE (CHOOSE e \in EntryFor(t, n) : TRUE).name

(* _resolve_model_name.  The custom endpoint strips a version tag from an  *)
(* undeclared name and otherwise borrows OpenRouter's aliases; every other *)
(* provider returns an unknown name as it is.                              *)
Resolved(t, n) ==
    CanonicalOr(t, n,
        CASE t = "custom" /\ n \in DOMAIN BaseOf -> CanonicalOr(t, BaseOf[n], BaseOf[n])
          [] t = "custom" /\ n \notin DOMAIN BaseOf -> CanonicalOr("openrouter", n, n)
          [] OTHER -> n)
ResolveTable == Table([t \in ProviderTypes |-> Table([n \in Names |-> Resolved(t, n)])])
Resolve(t, n) == ResolveTable[t][n]

(* _lookup_capabilities of a resolved name: a declared model, or any       *)
(* "vendor/model" name at OpenRouter, which gets generic capabilities.     *)
Known(t, c) == EntryFor(t, c) # {} \/ (t = "openrouter" /\ c \in Slashed)

(* Azure answers to its deployment names too (get_capabilities looks them  *)
(* up before anything else).                                               *)
AzureName(n) ==
    IF \E c \in DOMAIN Deployment : Deployment[c] = n
    THEN CHOOSE c \in DOMAIN Deployment : Deployment[c] = n
    ELSE n
AsAsked(t, n) == IF t = "azure" THEN AzureName(n) ELSE n
AzureClaims(n) == AzureName(n) \in Canonicals("azure")

(* parse_model_option: what follows the first ":" is an option, except for *)
(* the suffixes OpenRouter uses.                                           *)
Parsed(n) == IF n \in DOMAIN BaseOf \ KeptWhole THEN BaseOf[n] ELSE n

-----------------------------------------------------------------------------
(* Selection by capability: select_preferred_model.  The map it reads is   *)
(* keyed by canonical names, so an alias scores 0 and thinks not.          *)
Score(t, n) ==
    IF n \in Canonicals(t) THEN (CHOOSE e \in Entries(t) : e.name = n).score ELSE 0
HasThinking(t, n) == \E e \in Entries(t) : e.name = n /\ e.thinks

Better(t, a, b) == Score(t, a) > Score(t, b) \/ (Score(t, a) = Score(t, b) /\ Rank(a) >= Rank(b))
Best(t, S) == CHOOSE a \in S : \A b \in S : Better(t, a, b)
Worst(t, S) == CHOOSE a \in S : \A b \in S : Better(t, b, a)
First(S) == CHOOSE a \in S : \A b \in S : Rank(a) <= Rank(b)

OrElse(S, T) == IF S # {} THEN S ELSE T

SelectPreferred(t, category, S) ==
    LET fast == S \cap FastNames IN
    CASE category = "extended" -> Best(t, OrElse({n \in S : HasThinking(t, n)}, S))
      [] category = "fast" -> IF fast # {} THEN Best(t, fast) ELSE Worst(t, S)
      [] category = "balanced" -> Best(t, S)

(* The providers whose get_preferred_model selects; the others return None. *)
Choosers == {"google", "openai", "anthropic", "xai"}
=============================================================================
