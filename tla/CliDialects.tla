---------------------------- MODULE CliDialects ----------------------------
(***************************************************************************)
(* How clink talks to the nine command-line agents it knows: the manifests *)
(* that configure them, the command each is started with, the flags a      *)
(* read-only call removes and adds, how the prompt and the images travel,  *)
(* and what the child process inherits.                                    *)
(*                                                                         *)
(* A command is a sequence of tokens.  Flags that only change the layout   *)
(* of an agent's output are left out.                                      *)
(***************************************************************************)
EXTENDS Naturals, Sequences, SequencesExt

CONSTANTS
    InlineFlag,   \* the flag of a "--flag=value" token, a function on those tokens
    InlineValue,  \* its value
    Secrets       \* the provider keys that may be withheld from a child

NONE == "none"
DEFAULT == "default"
PROMPT == "<prompt>"
TEMP == "<temporary file>"

Known == {"gemini", "codex", "claude", "opencode", "aider", "crush", "kimi", "amp", "copilot"}

\* A function on the known agents that is empty but for the given ones.
Otherwise(few, rest) == [c \in Known |-> IF c \in DOMAIN few THEN few[c] ELSE rest]

(* Arguments clink itself passes to every run of an agent. *)
InternalArgs == Otherwise(
    [gemini |-> <<"-o", "json">>, codex |-> <<"exec">>, claude |-> <<"--print">>,
     opencode |-> <<"--format", "json">>, kimi |-> <<"--output-format", "stream-json">>,
     copilot |-> <<"--output-format", "json", "--allow-all-tools">>], <<>>)

-----------------------------------------------------------------------------
(* Manifests.  The files of the later places replace, as a whole, the      *)
(* earlier ones of the same agent; one bad file refuses them all.          *)
Registrable(m) == m.name \in Known /\ m.command # <<>>

Resolved(m) ==
    [m EXCEPT !.roles = [r \in DOMAIN m.roles \cup {DEFAULT} |->
                            IF r \in DOMAIN m.roles THEN m.roles[r] ELSE <<>>]]

\* The last file of an agent, in the order of the places.
Replacing(files, c) ==
    files[CHOOSE i \in DOMAIN files :
            files[i].name = c /\ \A j \in DOMAIN files : files[j].name = c => j <= i]

Clients(files) == [c \in {files[i].name : i \in DOMAIN files} |-> Resolved(Replacing(files, c))]

Loads(files) == files # <<>> /\ \A i \in DOMAIN files : Registrable(files[i])

(* The agent a call names; with one agent configured it need not.          *)
Selected(clients, cli) ==
    IF cli # "" THEN cli
    ELSE IF \E c \in DOMAIN clients : DOMAIN clients = {c} THEN CHOOSE c \in DOMAIN clients : TRUE
    ELSE NONE

-----------------------------------------------------------------------------
(* Commands. *)

(* The command without the bare flags, and without the valued flags and    *)
(* the token that follows each: what is kept after each token, and whether *)
(* the next one is dropped.                                                *)
AfterToken(acc, token, bare, valued) ==
    IF acc.skip THEN [acc EXCEPT !.skip = FALSE]
    ELSE IF token \in valued THEN [acc EXCEPT !.skip = TRUE]
    ELSE IF token \in bare THEN acc
    ELSE [acc EXCEPT !.kept = Append(@, token)]

Stripping(command, bare, valued) ==
    LET after[i \in 0 .. Len(command)] ==
          IF i = 0 THEN [kept |-> <<>>, skip |-> FALSE]
          ELSE AfterToken(after[i - 1], command[i], bare, valued)
    IN after

Without(command, bare, valued) == Stripping(command, bare, valued)[Len(command)].kept

(* The spellings of the model flag an agent's class declares, and the one  *)
(* it uses.                                                                *)
ModelAliases == Otherwise(
    [codex |-> {"-m"}, opencode |-> {"-m"}, crush |-> {"-m", "--model"},
     kimi |-> {"-m", "--model"}, amp |-> {"-m", "--mode"}], {"--model"})
ModelFlag == Otherwise([codex |-> "-m", opencode |-> "-m", kimi |-> "-m", amp |-> "--mode"], "--model")

InlineModels(c) == {t \in DOMAIN InlineFlag : InlineFlag[t] \in ModelAliases[c]}

StripModelFlags(c, command) == Without(command, InlineModels(c), ModelAliases[c])

(* Claude takes the role's prompt as a flag, unless its manifest sets one. *)
SystemPrompt(m) ==
    IF m.name = "claude" /\ ~Contains(m.args, "--append-system-prompt")
    THEN <<"--append-system-prompt", PROMPT>> ELSE <<>>

Configured(m, role) == m.command \o InternalArgs[m.name] \o m.args \o SystemPrompt(m) \o m.roles[role]

BuildCommand(m, role, model) ==
    IF model = NONE THEN Configured(m, role)
    ELSE StripModelFlags(m.name, Configured(m, role)) \o <<ModelFlag[m.name], model>>

(* Read-only calls: what is removed, and what is appended. *)
ReadOnlyArgs == Otherwise(
    [gemini |-> <<"--approval-mode", "plan">>, codex |-> <<"--sandbox", "read-only">>,
     claude |-> <<"--permission-mode", "plan">>, aider |-> <<"--dry-run">>,
     copilot |-> <<"--available-tools", "view,grep,glob", "--deny-tool", "write", "--deny-tool", "shell">>], <<>>)
Bypasses == Otherwise(
    [gemini |-> {"-y", "--yolo"}, codex |-> {"--dangerously-bypass-approvals-and-sandbox", "--full-auto"},
     copilot |-> {"--yolo", "--allow-all", "--allow-all-paths", "--allow-all-urls"}], {})
Overrides == Otherwise([codex |-> {"--sandbox", "-s"}], {})

\* Faulty variant: the read-only flags are added to what is there.
AddReadOnly(c, command) == command \o ReadOnlyArgs[c]

ApplyReadOnly(c, command) == Without(command, Bypasses[c], Overrides[c]) \o ReadOnlyArgs[c]

(* How the prompt travels, and what the transport adds to the command.  An *)
(* image is a path the agent accepts, one it does not, a blob clink turns  *)
(* into a file, or nothing usable.                                         *)
Transport(c, images) ==
    IF c = "kimi" THEN "argv"
    ELSE IF c = "aider" THEN "message_file"
    ELSE IF c = "amp" /\ images # {} THEN "stream_json"
    ELSE "stdin"

Attached(c, images) == IF c = "copilot" THEN images \cap {"path", "blob"} ELSE {}

TransportArgs(c, images) ==
    IF c = "kimi" THEN <<"--prompt", PROMPT>>
    ELSE IF c = "aider" THEN <<"--message-file", TEMP>>
    ELSE (IF "path" \in Attached(c, images) THEN <<"--attachment", "path">> ELSE <<>>)
         \o (IF "blob" \in Attached(c, images) THEN <<"--attachment", TEMP>> ELSE <<>>)

OutputArgs(m) == IF m.toFile THEN <<"--output", TEMP>> ELSE <<>>

Argv(m, role, model, readOnly, images) ==
    LET built == BuildCommand(m, role, model)
    IN (IF readOnly THEN ApplyReadOnly(m.name, built) ELSE built)
       \o OutputArgs(m) \o TransportArgs(m.name, images)

(* What clink itself adds to a command has no inline form. *)
TailTokens == {"--output", "--prompt", "--message-file", "--attachment", "path", PROMPT, TEMP}
OwnTokens ==
    TailTokens \cup {ModelFlag[c] : c \in Known} \cup UNION {Range(ReadOnlyArgs[c]) : c \in Known}

ASSUME InlineAssumption == OwnTokens \cap DOMAIN InlineFlag = {}

\* What tells a flag from a value.
Flags == DOMAIN InlineFlag \cup UNION {ModelAliases[c] \cup Bypasses[c] \cup Overrides[c] : c \in Known}

(* The manifest of an agent and the arguments of its roles. *)
IsManifest(m) ==
    /\ DOMAIN m = {"name", "command", "args", "roles", "models", "toFile", "cleanup", "env"}
    /\ m.cleanup \in BOOLEAN
    /\ m.command \in Seq(STRING) /\ m.args \in Seq(STRING)
    /\ \A r \in DOMAIN m.roles : m.roles[r] \in Seq(STRING)

(* A flag that a read-only call removes with its value has one, and it is  *)
(* no model flag.                                                          *)
ValuesFollow(m, role) ==
    LET line == Configured(m, role) IN
    \A i \in DOMAIN line : line[i] \in Overrides[m.name] =>
        /\ i < Len(line)
        /\ line[i + 1] \notin ModelAliases[m.name] \cup InlineModels(m.name)

(* The files a run creates for its agent. *)
TempFiles(m, images) ==
    {f \in {"message", "attachment", "output"} :
        \/ f = "message" /\ Transport(m.name, images) = "message_file"
        \/ f = "attachment" /\ "blob" \in Attached(m.name, images)
        \/ f = "output" /\ m.toFile}

\* Faulty variant: a manifest that declares one key keeps them all.
KeepsAllKeys(m, environment, strip) ==
    IF strip /\ m.env = {} THEN environment \ Secrets ELSE environment \cup m.env

(* What the child inherits: keys may be withheld, but not the ones the     *)
(* manifest sets itself; its depth is one more than ours.                  *)
Environment(m, environment, strip) ==
    (IF strip THEN environment \ (Secrets \ m.env) ELSE environment) \cup m.env

ChildDepth(depth) == depth + 1

-----------------------------------------------------------------------------
(* How the agents read a command, as far as clink depends on it: the last  *)
(* value given to a flag counts, a bypass outweighs a restriction, and     *)
(* Copilot's denials outweigh what is allowed.                             *)
LastValue(command, flags) ==
    LET at == {i \in 1..(Len(command) - 1) : command[i] \in flags}
    IN IF at = {} THEN NONE ELSE command[(CHOOSE i \in at : \A j \in at : j <= i) + 1]

Restricted(c, command) ==
    LET tokens == Range(command) IN
    CASE c = "gemini" -> LastValue(command, {"--approval-mode"}) = "plan" /\ tokens \cap Bypasses[c] = {}
      [] c = "codex" -> LastValue(command, {"--sandbox", "-s"}) = "read-only" /\ tokens \cap Bypasses[c] = {}
      [] c = "claude" -> LastValue(command, {"--permission-mode"}) = "plan"
      [] c = "aider" -> "--dry-run" \in tokens
      [] c = "copilot" -> {"--available-tools", "--deny-tool"} \subseteq tokens /\ tokens \cap Bypasses[c] = {}
      [] OTHER -> FALSE

(* The values a command gives to the model flag, in every declared form. *)
ModelsNamed(c, command) ==
    LET pairs == {i \in DOMAIN command : command[i] \in ModelAliases[c]}
        inline == {i \in DOMAIN command : command[i] \in InlineModels(c)}
    IN [i \in pairs \cup inline |->
           IF i \in inline THEN InlineValue[command[i]]
           ELSE IF i < Len(command) THEN command[i + 1] ELSE NONE]
=============================================================================
