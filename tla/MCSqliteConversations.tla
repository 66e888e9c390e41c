------------------------ MODULE MCSqliteConversations ------------------------
(* Instances of SqliteConversations for TLC. *)
EXTENDS SqliteConversations, TLC

Symmetry == Permutations(Threads) \union Permutations(Processes)
=============================================================================
