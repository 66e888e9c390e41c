----------------------------- MODULE CliOutputs -----------------------------
(***************************************************************************)
(* What clink makes of an agent's output: one parser per agent, and what   *)
(* the agents' classes recover from a run that exited with an error.       *)
(*                                                                         *)
(* An output is a sequence of lines (events, for the agents that print     *)
(* JSON), told apart only as far as a parser tells them apart:             *)
(*   text      the agent's own words      error    an error it reports     *)
(*   result    its final answer           usage    the summary line        *)
(*   subagent  a delegate's words         edit     an edit, without words  *)
(*   meta      bookkeeping with a text    noise    not an event at all     *)
(*   blank     a text that is empty       garbled  a broken JSON document  *)
(*   fault     an error object without a mark (Claude)                     *)
(***************************************************************************)
EXTENDS Naturals, Sequences, SequencesExt

LineKinds == {"text", "result", "subagent", "meta", "blank", "error", "fault", "usage", "edit", "noise",
              "garbled"}

\* The lines of the given kinds, up to each line and in all.
WithLine(chosen, line, kinds) == IF line \in kinds THEN Append(chosen, line) ELSE chosen

Chosen(lines, kinds) ==
    LET upto[i \in 0 .. Len(lines)] == IF i = 0 THEN <<>> ELSE WithLine(upto[i - 1], lines[i], kinds)
    IN upto

Of(lines, kinds) == Chosen(lines, kinds)[Len(lines)]

NotParsed == [ok |-> FALSE, content |-> <<>>, marked |-> FALSE]
Parsed(content, marked) == [ok |-> content # <<>>, content |-> content, marked |-> marked]

(* Codex: every message of the agent; the errors when there is none. *)
ParseCodex(lines) ==
    LET texts == Of(lines, {"text"})
        errors == Of(lines, {"error"})
    IN Parsed(IF texts = <<>> THEN errors ELSE texts, errors # <<>>)

(* Opencode: the same, from an output that holds any event at all. *)
ParseOpencode(lines) ==
    IF Range(lines) \subseteq {"noise", "garbled"} THEN NotParsed ELSE ParseCodex(lines)

\* Faulty variant: whatever has a content is part of the answer.
ParseEveryContent(lines) == Parsed(Of(lines, {"text", "subagent", "meta"}), FALSE)

(* Copilot: the root's messages, none of its delegates'; without any the   *)
(* run failed, with the last error it reported.                            *)
ParseCopilot(lines) == Parsed(Of(lines, {"text"}), "error" \in Range(lines))

(* Kimi: the lines of the assistant, none of the session's. *)
ParseKimi(lines) == Parsed(Of(lines, {"text"}), FALSE)

(* Amp: the last result with a text; otherwise every message. *)
ParseAmp(lines) ==
    LET results == Of(lines, {"result", "error", "blank"})
        final == IF results = <<>> THEN "blank" ELSE results[Len(results)]
    IN Parsed(IF final = "blank" THEN Of(lines, {"text"}) ELSE <<final>>, "error" \in Range(lines))

(* Claude prints one document.  Of its events the first result counts, or  *)
(* else the last turn, or else the last event, whatever it is; a result    *)
(* without a text gives way to the last turn.  Only a result says of       *)
(* itself that it is an error.  With no text in any of them but a          *)
(* complaint on stderr clink answers in Claude's place.                    *)
Turns == {"text", "subagent", "edit"}
Worded == {"text", "result", "subagent", "meta", "error", "fault"}

ParseClaude(lines, complains) ==
    LET finals == Of(lines, {"result", "error", "blank"})
        turns == Of(lines, Turns)
        turn == IF turns = <<>> THEN "blank" ELSE turns[Len(turns)]
        payload == IF finals # <<>> THEN Head(finals) ELSE IF turns # <<>> THEN turn ELSE lines[Len(lines)]
    IN IF lines = <<>> \/ Range(lines) \cap {"noise", "garbled"} # {} THEN NotParsed
       ELSE IF payload \in Worded THEN Parsed(<<payload>>, payload = "error")
       ELSE IF turn \in Worded THEN Parsed(<<turn>>, FALSE)
       ELSE IF complains THEN Parsed(<<"notice">>, FALSE) ELSE NotParsed

(* Gemini prints one object: a response; otherwise clink says what it can  *)
(* tell from the statistics and from stderr.                               *)
ParseGemini(lines, complains) ==
    IF lines = <<>> \/ Range(lines) \cap {"noise", "garbled"} # {} THEN NotParsed
    ELSE IF "text" \in Range(lines) THEN Parsed(<<"text">>, FALSE)
    ELSE IF complains \/ "usage" \in Range(lines) THEN Parsed(<<"notice">>, TRUE)
    ELSE NotParsed

(* Aider prints text: the answer ends at the line with the token counts,   *)
(* without which the run failed; the edits follow it.                      *)
ParseAider(lines) ==
    LET counted == {i \in DOMAIN lines : lines[i] = "usage"}
        at == CHOOSE i \in counted : \A j \in counted : i <= j
        body == Of(SubSeq(lines, 1, at - 1), {"text", "error", "edit", "noise"})
        edits == Of(SubSeq(lines, at, Len(lines)), {"edit"})
    IN IF counted = {} THEN NotParsed
       ELSE IF body # <<>> THEN Parsed(body, FALSE)
       ELSE IF edits # <<>> THEN Parsed(<<"notice">>, FALSE) ELSE NotParsed

(* Crush prints its answer and nothing else. *)
ParseCrush(lines) == Parsed(Of(lines, LineKinds \ {"blank"}), FALSE)

Parse(c, lines, complains) ==
    CASE c = "codex" -> ParseCodex(lines)
      [] c = "opencode" -> ParseOpencode(lines)
      [] c = "copilot" -> ParseCopilot(lines)
      [] c = "kimi" -> ParseKimi(lines)
      [] c = "amp" -> ParseAmp(lines)
      [] c = "claude" -> ParseClaude(lines, complains)
      [] c = "gemini" -> ParseGemini(lines, complains)
      [] c = "aider" -> ParseAider(lines)
      [] c = "crush" -> ParseCrush(lines)

(* A run that exited with an error: four agents' output is read all the    *)
(* same, Gemini's error object becomes the answer, the others' is not read.*)
Recover(c, lines, complains) ==
    CASE c \in {"codex", "opencode", "copilot", "claude"} -> Parse(c, lines, complains)
      [] c = "gemini" /\ "error" \in Range(lines) /\ "garbled" \notin Range(lines) -> Parsed(<<"error">>, TRUE)
      [] OTHER -> NotParsed

(* The answer of a finished run.  An output file stands in for an empty    *)
(* stdout.                                                                 *)
AnswerOf(c, toFile, output) ==
    LET lines == IF toFile /\ output.lines = <<>> THEN output.file ELSE output.lines
    IN IF output.code # 0 THEN Recover(c, lines, output.complains) ELSE Parse(c, lines, output.complains)
=============================================================================
