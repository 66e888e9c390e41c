----------------------------- MODULE MCToolCalls -----------------------------
(* Instances of ToolCalls for TLC. *)
EXTENDS ToolCalls

\* A small window: of 30 tokens of content 9 for files, 15 for history, and the boundary admits 5.
\* A large one: of 80 tokens 32 for each, and the boundary admits 19.
Windows == [m \in Models |-> IF m = DefaultModel THEN 50 ELSE 100]
\* Files 1 and 3 fit the small boundary and file 2 the large one only; file 3 is too large to be
\* read, and path 4 is a folder that holds the first two.
Sizes == <<5, 17, 4, 1>>
Contents == <<{1}, {2}, {3}, {1, 2}>>
TooLarge == {3}
Named == {{}, {1}, {2}, {1, 3}, {4}, {2, 4}}

\* What the theorems about the prompts assume of the windows.
ASSUME WindowsAreAmple == AmpleWindows

\* Calls are interchangeable, and so are threads.
CallSymmetry == Permutations(Calls) \union Permutations(Threads)
=============================================================================
