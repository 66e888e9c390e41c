------------------------------ MODULE MCCliRun ------------------------------
(***************************************************************************)
(* The nine shipped manifests and overrides that give the same flags in    *)
(* other places and spellings, requests for every agent, the outputs each  *)
(* parser tells apart, and a working directory with a gitignored file, one *)
(* of the agents' own, one that bears the name of a pruned directory, and  *)
(* one in such a directory below another.                                  *)
(***************************************************************************)
EXTENDS CliRun

MCInlineFlag == ("--model=old" :> "--model") @@ <<>>
MCInlineValue == ("--model=old" :> "old") @@ <<>>
MCSecrets == {"k1", "k2", "k3"}
MCFlagLike == Flags

Roles == ("default" :> <<>>) @@ <<>>
Shipped(name, command, args) ==
    [name |-> name, command |-> command, args |-> args, roles |-> Roles,
     models |-> {}, toFile |-> FALSE, cleanup |-> TRUE, env |-> {}]

ShippedFiles == <<
    Shipped("aider", <<"aider">>, <<"--no-auto-commits", "--yes-always">>),
    [Shipped("amp", <<"amp">>, <<"--execute", "--stream-json">>) EXCEPT
        !.models = {"deep", "large", "rush", "smart"}],
    Shipped("claude", <<"claude">>, <<"--permission-mode", "acceptEdits", "--model", "sonnet">>),
    Shipped("codex", <<"codex">>,
        <<"--json", "--dangerously-bypass-approvals-and-sandbox", "--enable", "web_search_request">>),
    Shipped("copilot", <<"copilot">>, <<>>),
    Shipped("crush", <<"crush">>, <<"run", "--quiet">>),
    Shipped("gemini", <<"gemini">>, <<"--yolo">>),
    Shipped("kimi", <<"kimi">>, <<>>),
    Shipped("opencode", <<"opencode", "run">>, <<>>)>>

(* Overrides: valued flags in front of values, flags in the role's         *)
(* arguments, the model in its other spellings, output through a file.     *)
UserFiles == <<
    [Shipped("codex", <<"codex">>, <<"-s", "workspace-write", "-m", "o3", "--full-auto">>) EXCEPT
        !.roles = ("reviewer" :> <<"--sandbox", "workspace-write">>) @@ <<>>, !.toFile = TRUE, !.env = {"k1"}],
    [Shipped("gemini", <<"gemini">>, <<"-y", "--model=old">>) EXCEPT
        !.roles = ("reviewer" :> <<"--approval-mode", "auto_edit", "--model">>) @@ <<>>,
        !.toFile = TRUE, !.cleanup = FALSE],
    [Shipped("copilot", <<"copilot">>, <<"--allow-all", "--model", "old">>) EXCEPT
        !.roles = ("reviewer" :> <<"--yolo">>) @@ <<>>],
    [Shipped("claude", <<"claude">>, <<"--append-system-prompt", "mine">>) EXCEPT
        !.roles = ("reviewer" :> <<"--permission-mode", "acceptEdits">>) @@ <<>>, !.env = {"k2"}],
    [Shipped("kimi", <<"kimi">>, <<"-m", "k3", "--model=old">>) EXCEPT
        !.roles = ("reviewer" :> <<"--model", "k2">>) @@ <<>>]>>

Request(cli, model, readOnly) ==
    [cli |-> cli, role |-> "default", model |-> model, readOnly |-> readOnly, images |-> {}, dir |-> ""]
Reviewer(cli, model, readOnly) == [Request(cli, model, readOnly) EXCEPT !.role = "reviewer"]
PlainRequests ==
    {Request(c, "m1", c # "aider") : c \in Known \ {"amp"}}
    \cup {Request(c, NONE, c = "aider") : c \in Known}
    \cup {Request("amp", "rush", TRUE), Request("amp", "m1", TRUE), Request("", "m1", FALSE)}
    \cup {[Request(c, NONE, FALSE) EXCEPT !.images = {"path", "blob", "unusable"}] : c \in {"copilot", "amp"}}
    \cup {[Request("crush", NONE, FALSE) EXCEPT !.dir = d] : d \in {"absolute", "relative"}}
ReviewerRequests ==
    {Reviewer(c, m, FALSE) : c \in {"codex", "gemini", "copilot", "claude", "kimi"}, m \in {NONE, "m1"}}
    \cup {Reviewer(c, "m1", TRUE) : c \in {"codex", "gemini", "copilot", "claude"}}
    \cup {Request("codex", "-s", TRUE), Request("unheard-of", NONE, FALSE)}
MCNestedRequests == {Request(c, NONE, FALSE) : c \in {"claude", "crush"}}
MCWired == {"claude", "codex"}

Started(files, limit, strip, requests) ==
    [files |-> files, limit |-> limit, keys |-> {"k1", "k2"}, dotenv |-> {"k3"}, strip |-> strip,
     requests |-> requests]
MCSettings == {
    Started(ShippedFiles, {}, FALSE, PlainRequests),
    Started(ShippedFiles \o UserFiles, {2}, TRUE, ReviewerRequests),
    Started(<<ShippedFiles[6]>>, {0}, TRUE, {Request("", "m1", FALSE), Request("claude", "m1", FALSE)}),
    Started(ShippedFiles \o <<Shipped("unheard-of", <<"x">>, <<>>)>>, {}, FALSE, PlainRequests)}

(* What the agents print. *)
Printed(lines, code) == [lines |-> lines, code |-> code, complains |-> code # 0, file |-> <<"text">>]
Streams == {<<"text">>, <<"meta", "text">>, <<"error">>, <<"text", "error">>, <<"noise">>, <<>>,
            <<"subagent">>, <<"subagent", "text">>, <<"meta", "blank">>}
Documents == {<<"text">>, <<"error">>, <<"garbled">>, <<>>, <<"blank">>, <<"noise", "error">>}
MCOutputs(c) ==
    IF c \in {"codex", "opencode", "copilot", "kimi"}
    THEN {Printed(lines, code) : lines \in Streams, code \in {0, 1}}
    ELSE IF c = "amp"
    THEN {Printed(lines, 0) : lines \in {<<"text", "result">>, <<"text", "error">>, <<"text", "blank">>, <<"meta">>, <<>>}}
    ELSE IF c = "aider"
    THEN {Printed(lines, 0) : lines \in
             {<<"meta", "text", "usage">>, <<"meta", "usage", "edit">>, <<"meta", "usage">>, <<"error">>}}
    ELSE IF c = "claude"
    THEN {Printed(lines, code) : lines \in Documents \cup {<<"meta", "text", "result">>, <<"blank", "text">>, <<"text", "subagent">>,
             <<"text", "edit", "blank">>, <<"meta">>, <<"text", "meta">>, <<"fault">>, <<"meta", "fault">>}, code \in {0, 1}}
    ELSE IF c = "gemini"
    THEN {Printed(lines, code) : lines \in Documents \cup {<<"blank", "usage">>}, code \in {0, 1}}
    ELSE {Printed(lines, code) : lines \in {<<"text">>, <<"error">>, <<>>}, code \in {0, 1}}

MCSizes(r) == IF r.readOnly THEN {[text |-> 2, summary |-> 0]} ELSE
           {[text |-> 2, summary |-> 0], [text |-> 20, summary |-> 0], [text |-> 21, summary |-> 0],
            [text |-> 21, summary |-> 3], [text |-> 30, summary |-> 24]}

(* The working directory. *)
MCOrder == <<<<".crush", "db">>, <<".env">>, <<"build">>, <<"web", "build", "x">>>>
MCInitially == {<<"build">>, <<"web", "build", "x">>}
MCPruned == {"build"}
MCBookkeeping(c) ==
    IF c = "crush" THEN {[path |-> <<".crush">>, below |-> TRUE]}
    ELSE IF c = "aider" THEN {[path |-> <<".crush", "history">>, below |-> FALSE]}
    ELSE {}

(* What the theorem about the model that is asked for presumes of manifests. *)
ASSUME ManifestsAreWhole == FlagsHaveValues
=============================================================================
