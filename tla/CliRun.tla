------------------------------- MODULE CliRun -------------------------------
(***************************************************************************)
(* One clink call from the request to the answer: the checks, the walk     *)
(* over the working directory before a read-only run, the run itself, the  *)
(* reading of its output, the walk after it and what the two tell, and the *)
(* limit on the answer.  Meanwhile the agent and other processes write to  *)
(* the same directory, and the agent may call clink of a server of its     *)
(* own: the calls are then those of the innermost server.                  *)
(*                                                                         *)
(* A file's stamp stands for its times and its size: every write gives it  *)
(* a new one.  The jobs a call may run in, and the agents' processes, are  *)
(* the subject of ClinkJobs.                                               *)
(***************************************************************************)
EXTENDS CliDialects, CliOutputs, FiniteSets

CONSTANTS
    Settings,      \* [files, limit, keys, dotenv, strip, requests]: how the user's server
                   \* may be started, the keys in the .env file that every server reads,
                   \* and what the user's client asks
    FlagLike,      \* model names that begin with "-"
    NestedRequests,\* what agents ask for
    Wired,         \* the agents that have Unison among their own servers
    Outputs(_),    \* what an agent may print before it exits
    Sizes(_),      \* lengths of the answers to a request, and of the summary in them (0: none)
    Order,         \* the paths of the working directory, in the walk's order
    Initially,     \* those that exist at the start
    Pruned,        \* the names of the directories a walk does not enter
    Bookkeeping(_),\* fs_violation_ignore_patterns: [path, below] of an agent
    MaxEntries,    \* entries a walk records at most
    MaxResponse,   \* characters of an answer at most
    MaxEdits,      \* changes to files (bound)
    MaxChain       \* agents started below one another (bound)

VARIABLES
    setting,  \* how the server was started
    depth,    \* UNISON_CLINK_DEPTH as the server reads it
    chain,    \* the agents between the user and this server
    inherited,\* the provider keys in its environment, and the agent that left them
    call,     \* the call in progress
    disk,     \* the stamp of every path; 0 when it does not exist
    clock     \* the latest stamp

server == <<setting, depth, chain, inherited>>
directory == <<disk, clock>>
vars == <<setting, depth, chain, inherited, call, disk, clock>>

Paths == Range(Order)

ASSUME WalkAssumption == Order \in Seq(Paths)

ASSUME RequestAssumption ==
    /\ \A s \in Settings : s.files \in Seq(Range(s.files)) /\ \A m \in Range(s.files) : IsManifest(m)
    /\ Flags \subseteq FlagLike
    /\ \A r \in NestedRequests \cup UNION {s.requests : s \in Settings} : r.model \in STRING

(* What is printed is made of the lines that the parsers tell apart; Crush *)
(* prints plain text, without events.                                      *)
ASSUME AnswerAssumption ==
    /\ MaxResponse \in Nat /\ MaxResponse >= 2
    /\ \A r \in NestedRequests \cup UNION {s.requests : s \in Settings} : \A size \in Sizes(r) :
            size.text \in Nat /\ size.summary \in Nat
    /\ \A c \in Known : \A o \in Outputs(c) : o.lines \in Seq(LineKinds) /\ o.file \in Seq(LineKinds)
    /\ \A o \in Outputs("crush") : (Range(o.lines) \cup Range(o.file)) \cap {"subagent", "meta", "fault"} = {}

ASSUME BoundAssumption == MaxEdits \in Nat /\ MaxChain \in Nat

\* Every agent whose manifest is read gives the flags that a read-only call removes their values.
FlagsHaveValues ==
    \A s \in Settings : Loads(s.files) =>
        LET clients == Clients(s.files) IN
        \A c \in DOMAIN clients : \A role \in DOMAIN clients[c].roles : ValuesFollow(clients[c], role)

NoWalk == [seen |-> <<>>, missed |-> {}, cut |-> FALSE]
Idle == [phase |-> "idle", request |-> NONE, listed |-> {}, at |-> 1, pre |-> NoWalk, post |-> NoWalk,
         command |-> <<>>, wrote |-> {}, others |-> {}, temp |-> {}, printed |-> {}, answer |-> NotParsed,
         outcome |-> NONE, report |-> NONE, shown |-> NONE]

(* Every call finds the directory as it was at the start (bound): nothing  *)
(* a call does depends on what an earlier one left there.                  *)
Fresh == [p \in Paths |-> IF p \in Initially THEN 1 ELSE 0]
Restored == disk' = Fresh /\ clock' = 1

Asked == IF chain = 0 THEN setting.requests ELSE NestedRequests

TypeOK ==
    /\ setting \in Settings
    /\ depth \in Nat /\ chain \in 0..MaxChain
    /\ call.phase \in {"idle", "before", "launching", "running", "after", "done"}
    /\ call.phase # "idle" => call.request \in Asked
    /\ \A walk \in {call.pre, call.post} :
          /\ DOMAIN walk.seen \cup walk.missed \subseteq Paths
          /\ \A p \in DOMAIN walk.seen : walk.seen[p] \in 1..MaxEdits + 1
    /\ disk \in [Paths -> 0..MaxEdits + 1]

Init ==
    /\ setting \in Settings
    /\ depth = 0 /\ chain = 0
    /\ inherited = [from |-> NONE, keys |-> setting.keys \cup setting.dotenv]
    /\ call = Idle
    /\ disk = Fresh
    /\ clock = 1

-----------------------------------------------------------------------------
(* The request.  A recursion limit that is not set, or not a number, is 1. *)
MaxDepth == IF setting.limit = {} THEN 1 ELSE CHOOSE n \in setting.limit : TRUE

WithinDepth == depth <= MaxDepth

\* Faulty variant: a model may look like a flag.
AnyModel(m, model) == m.models = {} \/ model \in m.models \cup {NONE}

ModelAccepted(m, model) ==
    /\ model \notin FlagLike
    /\ m.models = {} \/ model \in m.models \cup {NONE}

Manifest(r) ==
    LET clients == Clients(setting.files) IN clients[Selected(clients, r.cli)]

Accepted(r) ==
    LET clients == Clients(setting.files)
        cli == Selected(clients, r.cli)
    IN /\ WithinDepth
       /\ cli \in DOMAIN clients
       /\ r.role \in DOMAIN clients[cli].roles
       /\ ModelAccepted(clients[cli], r.model)
       /\ r.dir \in {"", "absolute"}

Existing == {p \in Paths : disk[p] # 0}
Tops == {Head(p) : p \in Existing}

Ask(r) ==
    /\ call.phase = "idle" /\ Loads(setting.files)
    /\ call' = [Idle EXCEPT
         !.request = r,
         !.phase = IF Accepted(r) THEN "before" ELSE "done",
         !.outcome = IF ~Accepted(r) THEN "refused" ELSE NONE,
         !.listed = IF Accepted(r) /\ r.readOnly THEN Tops ELSE {}]
    /\ UNCHANGED <<server, directory>>

Cli == Selected(Clients(setting.files), call.request.cli)
Command(m, r) == Argv(m, r.role, r.model, r.readOnly, r.images)

-----------------------------------------------------------------------------
(* The walks.  The names in the working directory are read first, those of *)
(* a directory in it when its turn comes; a path is looked at when its own *)
(* turn comes, and one that is gone by then is passed over.  A directory   *)
(* is skipped for its name wherever it lies.                               *)
Walked(p) == \A i \in 1..Len(p) - 1 : p[i] \notin Pruned

Present(p) == Walked(p) /\ disk[p] # 0

Visit(seen, p) ==
    IF Present(p)
    THEN [q \in DOMAIN seen \cup {p} |-> IF q = p THEN disk[p] ELSE seen[q]] ELSE seen

NextAt(listed, i) ==
    LET later == {j \in i..Len(Order) : Head(Order[j]) \in listed}
    IN IF later = {} THEN Len(Order) + 1 ELSE CHOOSE j \in later : \A k \in later : j <= k

WalkOver == NextAt(call.listed, call.at) > Len(Order)
Entry == Order[NextAt(call.listed, call.at)]
Walk == IF call.phase = "before" THEN call.pre ELSE call.post
Recorded(walk, at) ==
    IF call.phase = "before" THEN [call EXCEPT !.pre = walk, !.at = at] ELSE [call EXCEPT !.post = walk, !.at = at]

Scan ==
    /\ call.phase \in {"before", "after"} /\ ~WalkOver
    /\ Cardinality(DOMAIN Walk.seen) < MaxEntries
    /\ call' = Recorded([Walk EXCEPT !.seen = Visit(@, Entry)], NextAt(call.listed, call.at) + 1)
    /\ UNCHANGED <<server, directory>>

(* An entry that cannot be read is skipped without a mark, as is all that  *)
(* lies in a directory that cannot be listed; another walk may read it.    *)
Unreadable ==
    /\ call.phase \in {"before", "after"} /\ ~WalkOver /\ Present(Entry)
    /\ Cardinality(DOMAIN Walk.seen) < MaxEntries
    /\ call' = Recorded([Walk EXCEPT !.missed = @ \cup {Entry}], NextAt(call.listed, call.at) + 1)
    /\ UNCHANGED <<server, directory>>

(* Before every entry the cap is looked at, and the clock, which may have  *)
(* run out at any of them: the walk ends where it is.                      *)
CutShort ==
    /\ call.phase \in {"before", "after"} /\ ~WalkOver
    /\ call' = Recorded([Walk EXCEPT !.cut = TRUE], Len(Order) + 1)
    /\ UNCHANGED <<server, directory>>

-----------------------------------------------------------------------------
(* The run. *)
Ready == call.phase = "before" /\ WalkOver
Failed(c, outcome) == [c EXCEPT !.phase = "done", !.outcome = outcome]

NoExecutable ==
    /\ Ready
    /\ call' = Failed(call, "failed")
    /\ UNCHANGED <<server, directory>>

(* The agent's files are written and its process is created, which is      *)
(* awaited: the process may be at work before the await returns.           *)
Start ==
    /\ Ready /\ chain < MaxChain
    /\ LET m == Manifest(call.request) IN
       call' = [call EXCEPT !.phase = "launching", !.listed = {}, !.at = 1,
                            !.command = Command(m, call.request), !.temp = TempFiles(m, call.request.images)]
    /\ UNCHANGED <<server, directory>>

Working == call.phase \in {"launching", "running"}

Launched ==
    /\ call.phase = "launching"
    /\ call' = [call EXCEPT !.phase = "running"]
    /\ UNCHANGED <<server, directory>>

(* What is removed when a launch has failed, and however a run ends. *)
Released(temp) == temp \ {"message", "attachment"}

LaunchFails ==
    /\ call.phase = "launching" /\ call.wrote = {}
    /\ call' = [Failed(call, "failed") EXCEPT !.temp = Released(@)]
    /\ UNCHANGED <<server, directory>>

(* A cancel in the await of the launch finds no clean-up but Copilot's, of *)
(* its attachments.                                                        *)
Abandon ==
    /\ call.phase = "launching"
    /\ call' = [Failed(call, "abandoned") EXCEPT !.temp = @ \ {"attachment"}]
    /\ UNCHANGED <<server, directory>>

TimesOut ==
    /\ call.phase = "running"
    /\ call' = [Failed(call, "failed") EXCEPT !.temp = Released(@)]
    /\ UNCHANGED <<server, directory>>

Cancel ==
    /\ call.phase \in {"before", "running", "after"}
    /\ call' = [Failed(call, "cancelled") EXCEPT !.temp = Released(@)]
    /\ UNCHANGED <<server, directory>>

(* The agent exits.  Its output file is read and, unless the manifest says *)
(* otherwise, removed; its output is read, and a read-only run is followed *)
(* by the second walk.                                                     *)
Exit(output) ==
    LET m == Manifest(call.request)
        answer == AnswerOf(m.name, m.toFile, output)
    IN /\ call.phase = "running"
       /\ call' = [call EXCEPT
            !.temp = Released(@) \ (IF m.cleanup THEN {"output"} ELSE {}),
            !.printed = Range(IF m.toFile /\ output.lines = <<>> THEN output.file ELSE output.lines),
            !.answer = answer,
            !.outcome = IF answer.ok THEN NONE ELSE "failed",
            !.phase = IF answer.ok THEN "after" ELSE "done",
            !.listed = IF answer.ok /\ call.request.readOnly THEN Tops ELSE {}]
       /\ UNCHANGED <<server, directory>>

(* What the agent is given of the keys. *)
Handed == Environment(Manifest(call.request), inherited.keys, setting.strip)

(* The agent calls clink itself: a server of its own, started with what    *)
(* the agent was given, which reads the .env file again.                   *)
Nest ==
    /\ Working /\ Cli \in Wired
    /\ chain' = chain + 1
    /\ depth' = ChildDepth(depth)
    /\ inherited' = [from |-> Cli, keys |-> Handed \cup setting.dotenv]
    /\ call' = Idle
    /\ Restored
    /\ UNCHANGED setting

-----------------------------------------------------------------------------
(* The report and the answer. *)
\* Faulty variant: only the second walk can be partial.
PartialAfter == call.post.cut

Partial == call.pre.cut \/ call.post.cut

Differences(pre, post) ==
    (DOMAIN post \ DOMAIN pre) \cup (DOMAIN pre \ DOMAIN post)
        \cup {p \in DOMAIN pre \cap DOMAIN post : pre[p] # post[p]}

Matches(p, pattern) == IF pattern.below THEN IsPrefix(pattern.path, p) ELSE p = pattern.path

Belongs(c, p) == \E pattern \in Bookkeeping(c) : Matches(p, pattern)

Report ==
    LET diff == Differences(call.pre.seen, call.post.seen) IN
    [byModel |-> {p \in diff : ~Belongs(Cli, p)},
     bookkeeping |-> {p \in diff : Belongs(Cli, p)},
     partial |-> Partial,
     enforced |-> ReadOnlyArgs[Cli] # <<>>]

Least(a, b) == IF a < b THEN a ELSE b
HEADER == 1

(* The length of the answer, in thousands of characters, and whether the   *)
(* caller is told that it is not the whole of it.                          *)
Limited(size, summary) ==
    IF size <= MaxResponse THEN [of |-> size, length |-> size, told |-> FALSE]
    ELSE IF summary > 0 THEN [of |-> size, length |-> Least(summary, MaxResponse), told |-> TRUE]
    ELSE [of |-> size, length |-> HEADER + Least(4, MaxResponse \div 2), told |-> TRUE]

Respond(size) ==
    /\ call.phase = "after" /\ WalkOver
    /\ call' = [call EXCEPT
         !.phase = "done", !.outcome = "answered",
         !.report = IF call.request.readOnly THEN Report ELSE NONE,
         !.shown = Limited(size.text, size.summary)]
    /\ UNCHANGED <<server, directory>>

Answered ==
    /\ call.phase = "done"
    /\ call' = Idle
    /\ Restored
    /\ UNCHANGED server

-----------------------------------------------------------------------------
(* The other parties: the agent writes as far as its command lets it, and  *)
(* its own files always; anyone else writes anywhere, at any time.         *)
Writes(p, stamp) ==
    /\ clock <= MaxEdits
    /\ stamp \in {0, clock + 1} /\ stamp # disk[p]
    /\ disk' = [disk EXCEPT ![p] = stamp]
    /\ clock' = clock + 1

AgentWrites(p, stamp) ==
    /\ Working
    /\ call.request.readOnly => ~Restricted(Cli, call.command) \/ Belongs(Cli, p)
    /\ Writes(p, stamp)
    /\ call' = [call EXCEPT !.wrote = @ \cup {p}]
    /\ UNCHANGED server

OtherWrites(p, stamp) ==
    /\ call.phase \notin {"idle", "done"} /\ call.request.readOnly
    /\ Writes(p, stamp)
    /\ call' = [call EXCEPT !.others = @ \cup {p}]
    /\ UNCHANGED server

Next ==
    \/ \E r \in Asked : Ask(r)
    \/ Scan \/ Unreadable \/ CutShort
    \/ Start \/ Launched \/ NoExecutable \/ LaunchFails \/ Abandon \/ TimesOut \/ Cancel \/ Nest
    \/ \E output \in (IF call.phase = "running" THEN Outputs(Cli) ELSE {}) : Exit(output)
    \/ \E size \in (IF call.phase = "after" THEN Sizes(call.request) ELSE {}) : Respond(size)
    \/ Answered
    \/ \E p \in Paths, stamp \in 0..MaxEdits + 1 : AgentWrites(p, stamp) \/ OtherWrites(p, stamp)

Spec == Init /\ [][Next]_vars

-----------------------------------------------------------------------------
(* What a walk could not read, which no report tells. *)
Unread == call.pre.missed \cup call.post.missed

(* Whenever a read-only call is answered and its report is not marked      *)
(* partial, every path the agent wrote in a directory the walks enter, a   *)
(* gitignored file too, is in the report under the heading it belongs to,  *)
(* unless it did not exist before and does not now.  What others wrote to  *)
(* the same path meanwhile, and what one of the walks could not read, is   *)
(* left out of the claim.                                                  *)
WritesReported ==
    (call.outcome = "answered" /\ call.request.readOnly /\ ~call.report.partial) =>
        \A p \in call.wrote \ (call.others \cup Unread) :
            (Walked(p) /\ (disk[p] # 0 \/ p \in DOMAIN call.pre.seen))
               => p \in (IF \E b \in Bookkeeping(Cli) : Matches(p, b)
                         THEN call.report.bookkeeping ELSE call.report.byModel)

(* And nothing else is: such a report names only paths that somebody       *)
(* changed since the call began, or that one of the walks could not read.  *)
ReportsAreChanges ==
    (call.outcome = "answered" /\ call.request.readOnly /\ ~call.report.partial) =>
        call.report.byModel \cup call.report.bookkeeping \subseteq call.wrote \cup call.others \cup Unread

(* As far as the walks could read the directory, a caller can act on the   *)
(* report of a read-only run: it names what was written, and only that.    *)
ReportIsExact == WritesReported /\ ReportsAreChanges

(* read_only_enforced is true of every agent for which it is reported: the *)
(* command built from the manifest's, the role's and the request's flags   *)
(* keeps the agent from writing anything but its own files.                *)
EnforcedKeepsFiles ==
    (call.phase \in {"launching", "running", "after", "done"} /\ call.request.readOnly /\ call.wrote # {}) =>
        (ReadOnlyArgs[Cli] # <<>> => \A p \in call.wrote : Belongs(Cli, p))

(* A run that was asked to use a model names that model and no other,      *)
(* whatever its manifest, its role and the read-only flags say.            *)
OneModelAsked ==
    (Working /\ call.request.model # NONE) =>
        Range(ModelsNamed(Cli, call.command)) = {call.request.model}

(* However the agents are configured to call one another, there are never  *)
(* more of them below one another than the recursion limit allows.         *)
DepthBounded == Working => chain <= MaxDepth

(* An answer is the agent's own words, no delegate's and no session        *)
(* notices; but Claude's last turn counts as its own, whoever spoke it,    *)
(* when its document begins with no result that has a text, and without    *)
(* any turn or result the last event does, be it a notice or an error that *)
(* bears no mark.  The text of any other error is marked as such, and for  *)
(* the agents that print their messages one by one it only stands in for   *)
(* silence.                                                                *)
AnswerIsOwnText ==
    call.outcome = "answered" =>
        LET content == Range(call.answer.content) IN
        /\ content # {} /\ "blank" \notin content
        /\ "subagent" \in content =>
              Cli = "claude" /\ ("result" \in call.printed => "blank" \in call.printed)
        /\ content \cap {"meta", "fault"} # {} =>
              Cli = "claude" /\ call.printed \cap (Turns \cup {"result", "error", "blank"}) = {}
        /\ ("error" \in content /\ Cli \notin {"aider", "crush"}) => call.answer.marked
        /\ ("error" \in content /\ Cli \in {"codex", "opencode", "copilot", "kimi"}) => "text" \notin call.printed

(* Nothing written for the agent outlives the call but, after a cancel in  *)
(* the launch, the file with the prompt, and the output file of a run that *)
(* did not finish or whose manifest keeps it.                              *)
FilesRemoved == call.phase = "done" =>
    \A f \in call.temp :
        \/ f = "message" /\ call.outcome = "abandoned"
        \/ f = "output" /\ (call.outcome = "answered" => ~Manifest(call.request).cleanup)

(* With the stripping of provider keys on, an agent is given those that    *)
(* its manifest declares and no others, however many agents lie between it *)
(* and the user's own and whatever the servers between them read from the  *)
(* .env file; a server below an agent has those, and the file's.           *)
KeysWithheld == setting.strip =>
    /\ Working => Handed \cap Secrets \subseteq Manifest(call.request).env
    /\ chain > 0 =>
         inherited.keys \cap Secrets \subseteq Clients(setting.files)[inherited.from].env \cup setting.dotenv

(* The text that the caller gets is never longer than the limit, and the   *)
(* caller is told whenever it is not all of the answer.  (The metadata     *)
(* that go with it have no limit.)                                         *)
AnswerFits == call.outcome = "answered" =>
    /\ call.shown.length <= MaxResponse
    /\ (call.shown.length # call.shown.of => call.shown.told)

(* A call leaves the files as it found them: its own, but for the named    *)
(* exceptions, and, where the agent can be kept from writing, the          *)
(* project's.                                                              *)
FilesAsFound == EnforcedKeepsFiles /\ FilesRemoved

(* What an agent's own calls run under is what the outermost server set.   *)
NestedInherits == DepthBounded /\ KeysWithheld

(* What the caller reads is the agent's answer, or says that it is not.    *)
AnswerIsSound == AnswerIsOwnText /\ AnswerFits
=============================================================================
