--------------------------- MODULE MCWorkflowTools ---------------------------
(* Instances of WorkflowTools for TLC. *)
EXTENDS WorkflowTools, TLC

\* Safety runs: requests are interchangeable, and so are threads.
WorkflowSymmetry == Permutations(Threads) \union Permutations(Requests)
=============================================================================
