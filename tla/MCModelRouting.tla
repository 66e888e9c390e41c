--------------------------- MODULE MCModelRouting ---------------------------
(***************************************************************************)
(* A small world for ModelRouting: seven providers whose catalogs share    *)
(* aliases the way the shipped conf/*_models.json do (DIAL's "o4-mini" and *)
(* OpenRouter's "sonnet" are other providers' names), a DIAL model with a  *)
(* ":" in its name, a tagged local model, an OpenRouter name nobody        *)
(* declares, and an Azure with deployments of their own name and by an     *)
(* alias of their model.                                                   *)
(***************************************************************************)
EXTENDS ModelSchema

Entry(t, name, aliases, score) ==
    [type |-> t, name |-> name, aliases |-> aliases, score |-> score, thinks |-> FALSE,
     maxThinking |-> 0, output |-> 4096, sampling |-> TRUE, constraint |-> "range",
     responses |-> FALSE, efforts |-> {}, effort |-> NONE]

MCCatalog == {
    [Entry("google", "gemini-2.5-flash", {"flash"}, 10) EXCEPT !.thinks = TRUE, !.maxThinking = 24576],
    [Entry("google", "gemini-3-pro-preview", {"pro"}, 20) EXCEPT !.thinks = TRUE, !.maxThinking = 32768],
    [Entry("openai", "o4-mini", {"o4mini"}, 11) EXCEPT !.sampling = FALSE, !.constraint = "fixed"],
    [Entry("openai", "gpt-5.1-codex", {"codex"}, 19) EXCEPT
        !.thinks = TRUE, !.constraint = "fixed", !.responses = TRUE, !.effort = "high"],
    [Entry("azure", "o4-mini", {"o4mini"}, 11) EXCEPT !.constraint = "fixed", !.sampling = FALSE],
    [Entry("azure", "gpt-4o", {"4o"}, 12) EXCEPT !.constraint = "discrete"],
    [Entry("azure", "gpt-4.1", {"gpt4.1"}, 13) EXCEPT !.responses = TRUE],
    [Entry("anthropic", "sonnet-5", {"sonnet"}, 17) EXCEPT
        !.thinks = TRUE, !.maxThinking = 3000, !.output = 2500],
    [Entry("anthropic", "haiku-4", {"haiku"}, 11) EXCEPT
        !.thinks = TRUE, !.maxThinking = 3000, !.output = 2000],
    [Entry("dial", "o4-mini-2025", {"o4-mini"}, 11) EXCEPT !.constraint = "fixed"],
    [Entry("dial", "sonnet-v1:0", {"sonnet-4"}, 10) EXCEPT !.constraint = "discrete"],
    [Entry("custom", "llama3.2", {"llama"}, 6) EXCEPT !.efforts = {"low", "high", "max"}],
    Entry("openrouter", "anthropic/sonnet", {"sonnet"}, 18),
    Entry("openrouter", "openai/o4-mini", {"o4-mini", "o4mini"}, 11)}

MCDeployment == [c \in {"o4-mini", "gpt-4o", "gpt-4.1"} |->
                    CASE c = "o4-mini" -> "team-mini" [] c = "gpt-4o" -> "4o" [] c = "gpt-4.1" -> "gpt4.1"]
MCBaseOf == [n \in {"sonnet-v1:0", "llama3.2:latest", "a/b:free"} |->
                CASE n = "sonnet-v1:0" -> "sonnet-v1"
                  [] n = "llama3.2:latest" -> "llama3.2"
                  [] n = "a/b:free" -> "a/b"]
MCKeptWhole == {"a/b:free"}
MCSlashed == {"a/b:free", "a/b", "anthropic/sonnet", "openai/o4-mini"}
MCFastNames == {"flash", "gemini-2.5-flash", "o4-mini", "o4mini", "o4-mini-2025", "openai/o4-mini", "team-mini"}

MCNameOrder == <<"4o", "a/b", "a/b:free", "anthropic/sonnet", "b", "codex", "flash", "gemini-2.5-flash",
    "gemini-3-pro-preview", "gpt-4.1", "gpt-4o", "gpt-5.1-codex", "gpt4.1", "haiku", "haiku-4", "llama", "llama3.2",
    "llama3.2:latest", "o4-mini", "o4-mini-2025", "o4mini", "openai/o4-mini", "pro", "sonnet",
    "sonnet-4", "sonnet-5", "sonnet-v1", "sonnet-v1:0", "team-mini">>

MCTailOf == [n \in {"a/b", "anthropic/sonnet", "openai/o4-mini"} |->
                CASE n = "a/b" -> "b" [] n = "anthropic/sonnet" -> "sonnet"
                  [] n = "openai/o4-mini" -> "o4-mini"]

(* Environments.  A key is missing, still the template's, or set; the      *)
(* allowlists are the ones that can tell names, aliases and tags apart.    *)
Keys(T) == [t \in {"google", "openai", "azure", "anthropic", "xai", "dial", "custom", "openrouter"} |->
               IF t \in T THEN "set" ELSE IF t = "xai" THEN "template" ELSE "missing"]
Unrestricted == [t \in {"google", "openai", "azure", "anthropic", "xai", "dial", "custom", "openrouter"} |-> {}]
Policies == {
    Unrestricted,
    [Unrestricted EXCEPT !["openai"] = {"o4mini"}, !["google"] = {"pro"}],
    [Unrestricted EXCEPT !["openai"] = {"gpt-5.1-codex"}, !["anthropic"] = {"haiku"}],
    [Unrestricted EXCEPT !["azure"] = {"gpt-4o"}, !["dial"] = {"o4-mini", "sonnet-v1:0"}],
    [Unrestricted EXCEPT !["openrouter"] = {"sonnet", "a/b:free"}, !["custom"] = {"llama3.2:latest"}],
    [Unrestricted EXCEPT !["openrouter"] = {"a/b"}, !["anthropic"] = {"sonnet", "haiku-4"},
                          !["custom"] = {"b"}]}
Fleets == {
    {"google", "openai", "dial"}, {"azure", "dial"}, {"azure", "openai"},
    {"anthropic", "openrouter"}, {"custom", "openrouter"}, {"openrouter"}, {"xai"},
    {"dial", "custom"}, {"google", "azure", "anthropic", "dial", "custom", "openrouter"}}

MCSettings ==
    {[keys |-> Keys(T), policy |-> p,
      azureOwn |-> IF "azure" \in T THEN own ELSE {}, auto |-> auto] :
        T \in Fleets, p \in Policies, own \in {{}, {"o4-mini"}}, auto \in BOOLEAN}

ASSUME CatalogsApart == ResolvesOnce /\ ModelsApart
=============================================================================
