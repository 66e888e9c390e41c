-------------------------- MODULE MCWorkflowSession --------------------------
(* Instances of WorkflowSession for TLC. *)
EXTENDS WorkflowSession

\* A first step and a later one.
FirstAndLater == {<<1, 1>>, <<2, 2>>}
=============================================================================
