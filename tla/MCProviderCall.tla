--------------------------- MODULE MCProviderCall ---------------------------
(***************************************************************************)
(* An instance of ProviderCall whose errors are the ones that the OpenAI-  *)
(* compatible and the Anthropic adapter make of exceptions (ListedErrors). *)
(* They keep refused requests apart as long as the status code is one that *)
(* their lists know; Gemini's questions about words, and a 4xx on neither  *)
(* list, do not.                                                           *)
(***************************************************************************)
EXTENDS ProviderCall, ErrorClassification
=============================================================================
