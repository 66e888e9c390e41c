---------------------------- MODULE ThreadContext ----------------------------
(***************************************************************************)
(* What a model is shown of a conversation and of the files of a request:  *)
(* build_conversation_history of utils/context_reconstructor.py, the file  *)
(* processor of the tools, and the token shares of utils/model_context.py. *)
(*                                                                         *)
(* Sizes are in tokens.  The estimate made of a file before it is read and *)
(* the count of what was read are taken to agree, but for a file too large *)
(* to be read: a note stands for it.  A path, of a file or of a folder, is *)
(* a number, and paths compare as their numbers do.                        *)
(***************************************************************************)
EXTENDS Integers, Sequences, SequencesExt, FiniteSetsExt

CONSTANTS
    Models,         \* models with a provider
    Window,         \* context window of each model
    LargeWindow,    \* from here on shares are generous (300 000)
    MidWindow,      \* from here on files may fill more of theirs (500 000)
    HugeWindow,     \* from here on still more (1 000 000)
    Reserve,        \* tokens kept free beside embedded files, and the least budget (1 000)
    PathCount,      \* files and folders a request can name
    Content,        \* what a path stands for: itself, or the files below a folder
    Size,           \* size of each file
    Oversize,       \* files above max_size (1 000 000 bytes), which are not read
    NoteSize,       \* size of the note "FILE TOO LARGE"
    TurnSize        \* size of a turn

ASSUME ThreadContextConstants ==
    /\ Window \in [Models -> Nat]
    /\ LargeWindow <= MidWindow /\ MidWindow <= HugeWindow
    /\ Reserve \in Nat
    /\ LargeWindow \in Nat /\ MidWindow \in Nat /\ HugeWindow \in Nat
    /\ PathCount \in Nat
    /\ Content \in [1 .. PathCount -> SUBSET (1 .. PathCount)]
    /\ \A p \in 1 .. PathCount : \A f \in Content[p] : Content[f] = {f}
    /\ Size \in [1 .. PathCount -> Nat \ {0}]
    /\ NoteSize \in Nat \ {0}
    /\ Oversize \subseteq {f \in 1 .. PathCount : NoteSize <= Size[f]}
    /\ TurnSize \in Nat \ {0}

Paths == 1 .. PathCount
Folders == {p \in Paths : Content[p] # {p}}

\* The files that some paths stand for.
Expanded(paths) == UNION {Content[p] : p \in paths}

\* What is charged for a path before it is read, nothing for a folder; and what a file is once it is.
Estimated == [p \in Paths |-> IF p \in Folders THEN 0 ELSE Size[p]]
Read == [p \in Paths |-> IF p \in Oversize THEN NoteSize ELSE Size[p]]

\* The size of some files: of those up to each file, in turn.
TotalUpTo(size, files) ==
    LET upto[f \in 0 .. PathCount] ==
          IF f = 0 THEN 0 ELSE upto[f - 1] + (IF f \in files THEN size[f] ELSE 0)
    IN  upto

Total(size, files) == TotalUpTo(size, files)[PathCount]

-----------------------------------------------------------------------------
(* The shares of a model's window.                                         *)

Percent(n, p) == (n * p) \div 100

\* The content's share of the window, and the shares of files and history in the content.
Allocation(m) ==
    LET large == Window[m] >= LargeWindow
        content == Percent(Window[m], IF large THEN 80 ELSE 60)
    IN  [content |-> content,
         files |-> Percent(content, IF large THEN 40 ELSE 30),
         history |-> Percent(content, IF large THEN 40 ELSE 50)]

\* All paths of a request together, or none: the check at the boundary.
Boundary(m) ==
    Percent(Allocation(m).files, IF Window[m] >= HugeWindow THEN 80 ELSE IF Window[m] >= MidWindow THEN 70 ELSE 60)

FilesAdmitted(paths, m) == Total(Estimated, paths) <= Boundary(m)

\* The windows are ample: what is kept free leaves files as much again, and what the boundary admits.
AmpleWindows ==
    \A m \in Models : Allocation(m).files - Reserve >= Reserve /\ Allocation(m).files - Reserve >= Boundary(m)

-----------------------------------------------------------------------------
(* The history.                                                            *)

OrderUpTo(files) ==
    LET upto[f \in 0 .. PathCount] ==
          IF f = 0 THEN <<>> ELSE IF f \in files THEN Append(upto[f - 1], f) ELSE upto[f - 1]
    IN  upto

InPathOrder(files) == OrderUpTo(files)[PathCount]

\* Paths of a thread, each where it was named last, the newest turn's first.
Listing(ts) ==
    LET newest[n \in 0 .. Len(ts)] ==
          IF n = 0 THEN <<>>
          ELSE newest[n - 1] \o InPathOrder(ts[Len(ts) - n + 1].files \ Range(newest[n - 1]))
    IN  newest

FileList(ts) == Listing(ts)[Len(ts)]

\* A file that would exceed the budget is left out, and smaller ones after it may still go
\* in; a folder is not a file.
Planning(list, size, budget) ==
    LET GoesIn(held, p) == p \notin Folders /\ Total(size, held) + size[p] <= budget
        after[i \in 0 .. Len(list)] ==
          IF i = 0 THEN {}
          ELSE IF GoesIn(after[i - 1], list[i]) THEN after[i - 1] \union {list[i]} ELSE after[i - 1]
    IN  after

Planned(list, size, budget) == Planning(list, size, budget)[Len(list)]

\* How many turns go in, the newest first, beside files of the size "taken", which are
\* charged to the history's share as well.
TurnsWithin(ts, taken, budget) ==
    Max({0} \union {n \in 1 .. Len(ts) : taken + n * TurnSize <= budget})

\* Faulty variant: the share of the files is kept free although the files are charged.
HistoryBesideFiles(ts, m) ==
    LET share == Allocation(m)
        files == Planned(FileList(ts), Estimated, share.files)
    IN  [files |-> files, turns |-> TurnsWithin(ts, Total(Read, files), share.history - share.files)]

\* The history shown to model m of the turns ts.
History(ts, m) ==
    LET share == Allocation(m)
        files == Planned(FileList(ts), Estimated, share.files)
    IN  [files |-> files, turns |-> TurnsWithin(ts, Total(Read, files), share.history)]

\* No thread: no history.
NoHistory == [files |-> {}, turns |-> 0]

-----------------------------------------------------------------------------
(* The files of the request itself.                                        *)

\* Faulty variant: the files of the last turn only are taken for known.
NewSinceLastTurn(files, ts) == IF ts = <<>> THEN files ELSE files \ ts[Len(ts)].files

\* Those the thread has not had yet, a folder being new if it was not named; "ts" is the thread
\* as it is when the files are prepared.
NewFiles(paths, ts) == paths \ Range(FileList(ts))

FileBudget(m) ==
    LET share == Allocation(m).files - Reserve
    IN  IF share < Reserve THEN Reserve ELSE share

\* Faulty variant: the whole content's share is taken for free.
EmbeddedInContent(paths, m) == Planned(InPathOrder(Expanded(paths)), Read, Allocation(m).content)

\* Reading stops when the budget is used up, and passes over a file that does not fit.
Embedded(paths, m) == Planned(InPathOrder(Expanded(paths)), Read, FileBudget(m))
=============================================================================
