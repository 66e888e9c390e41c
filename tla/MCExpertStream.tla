---------------------------- MODULE MCExpertStream ----------------------------
(* Instances of ExpertStream for TLC. *)
EXTENDS ExpertStream
=============================================================================
