# A verification of unison-mcp-server

The server takes tool calls from an MCP host over one connection and answers
them with language models behind several providers, and with external CLI
agents.  It is one asyncio process: requests are concurrent tasks that
interleave at every `await`, and worker threads, sweep threads, child processes
and other server processes that share a database file run beside it.  Most of
the defects its CHANGELOG.md tells of come from that, or from decisions that two
pieces of code take separately and that have to agree.  Both are the subject of
this directory: TLA+ modules translated from the source, TLC configurations
that check them on small instances, and TLAPS proofs of theorems that hold for
every instance.

`PROJECT.json` lists the same material for tools: components, runs, the source
lines of every definition, hazards, findings and theorems.

Run them with `tlc -config <run>.cfg <MC module>` and `tlapm <module>.tla`.

## 1. The system

| Component (source) | State | Operations | What is hard |
|---|---|---|---|
| Circuit breaker (`utils/circuit_breaker.py`) | state, failure count, two time stamps, probes in flight; one per provider | `allow_request`, `record_success`, `record_failure` | reports arrive from calls that were admitted in another state; probes that never report |
| Provider calls (`providers/base.py`, the adapters' classifiers) | the attempt of each call | sync and async retry loops, one-attempt streams | which errors are retried, and which of them count; cancellation |
| Storage (`utils/sqlite_storage.py`, `utils/storage_backend.py`) | rows with an expiry | `get`, `setex`, `atomic_update`, sweep | several processes on a file; the clock is read before the lock; expiry; restarts |
| Conversation store (`utils/conversation_store.py`) | threads of turns | `create_thread`, `get_thread`, `add_turn` | no acknowledged turn may be lost, on either backend |
| Clink jobs (`tools/clink_jobs.py`, `tools/clink.py`, `clink/agents/base.py`) | job records, asyncio tasks, CLI process trees, prompt files | start, wait, poll, cancel, run with timeout, shutdown | cancels at each of the awaits, processes that outlive their job, retried starts |
| CLI registry, dialects, parsers (`clink/`) | the manifests | the command of an agent, what it inherits, what its output means | flags that contradict each other; events that look like an answer; agents that call clink themselves |
| Read-only verification (`utils/fs_snapshot.py`, `tools/clink.py`) | two walks over a directory | walk, compare, classify | the directory changes during the walks, and walks are cut short |
| Workflow tools (`tools/workflow/workflow_mixin.py`) | steps of the last session, on a shared instance | a step, the last step with its expert analysis | one instance serves all sessions; the await of the expert; failed steps |
| The eleven step-by-step tools (`tools/debug.py` and others) | what an instance keeps of a session | hooks: keep, skip, ask, tell, guide, remember | several hooks decide about one step and have to agree |
| Consensus (`tools/consensus.py`) | proposal, answers, steps | fan-out to the models, later steps | the fan-out does not take the workflow's lock |
| Streaming bridge (`_generate_stream`, `utils/streaming.py`) | a queue between thread and loop, a throttle | push, notify, complete | order, errors in the middle, cancellation while the thread works |
| Handlers and one-shot tools (`handlers/`, `tools/simple/base.py`) | the model of the last call, on a shared instance | look up the thread, record, ask, record | two pieces of code record turns; nothing serialises calls |
| Context and budgets (`utils/context_reconstructor.py`, `utils/model_context.py`, `tools/shared/file_processor.py`) | none | choose the files and turns that fit a budget | boundaries of several budgets that share one window |
| Registry, routing, restrictions, schemas (`providers/registry.py`, `utils/model_restrictions.py`, `tools/shared/model_schema_builder.py`) | provider instances, allowlists with an alias cache | register, route, list, `is_allowed` | the cache changes while it is asked; listing must agree with routing |
| Provider adapters (`providers/*.py`) | none across calls | the parameters of a request | caps, floors and fallbacks that meet; parameters a model does not take |
| Tool registry, observability, configuration, files, prompts, scripts | one instance of each tool; none the program depends on | - | - |

How they interact: a handler looks up the conversation thread in the store,
records the question, resolves the model and calls the tool, which the tool
registry keeps for the life of the process.  The tool takes its lock (workflow
tools), asks a provider through the breaker and the retry loop, from a worker
thread or as a task, and appends its answer to the thread.  The clink tool starts
a job instead; the job's task runs a CLI, and requests that wait for it or poll
it come and go independently.  That CLI may have a server of its own and call
clink again.

## 2. The modules

| Module | Models | Composes or extends |
|---|---|---|
| `CircuitBreaker` | the breaker's methods, as actions over its fields | - |
| `ErrorClassification` | how an adapter classifies an exception, as functions | - |
| `ProviderCall` | concurrent calls through the retry loops and streams, and the backend | EXTENDS `CircuitBreaker`: each call step is a step of the breaker too |
| `ThreadLog` | what the store promises its callers (abstract) | - |
| `SqliteConversations` | the store over SQLite, with several processes and their sweep threads | implements `ThreadLog` when the file has one owner |
| `MemoryConversations` | the store over the in-memory backend | implements `ThreadLog` |
| `ConversationStorage` | the choice of the backend, and the store over it | composes the two, and states both refinements |
| `JobLedger` | what clink promises of its background runs (abstract) | - |
| `ClinkJobs` | job manager, clink tool, CLI runner, processes and teardown together | implements `JobLedger` |
| `CliDialects`, `CliOutputs` | manifests, commands, environments; parsers and recoveries (functions) | - |
| `CliRun` | one clink request from its checks to its answer, with the directory and agents below agents | EXTENDS both |
| `SessionLog` | what a step-by-step tool promises of its sessions (abstract) | - |
| `WorkflowTools` | concurrent workflow execution and consensus over the thread store | implements `SessionLog` |
| `WorkflowHooks` | what each of the eleven tools decides about a step (functions) | - |
| `WorkflowSession` | the sessions of one such tool: kept, restored, told to the expert | EXTENDS `WorkflowHooks`, implements `SessionLog` |
| `ExpertStream` | one request to the expert: thread, queue, loop, notifier, cancels | - |
| `ThreadContext` | shares of a window, embedded files, reconstructed history (functions) | - |
| `ToolCalls` | handler and one-shot tool over the store | EXTENDS `ThreadContext` |
| `ModelCatalog`, `ProviderRequests` | names of models; the parameters each adapter sends (functions) | the second EXTENDS the first |
| `ModelRouting` | registration, restrictions, routes, lists, fallbacks, requests | EXTENDS `ProviderRequests` |
| `ModelSchema` | what the schema of a tool says about models | EXTENDS `ModelRouting` |
| `MC...` | instances for TLC: definitions of constants and symmetry sets | the module of that name |
| `...Proofs` | inductive invariants, lemmas, theorems | the module of that name; `ProviderCallProofs` also holds those of `ErrorClassification` and `ExpertStream`, `ModelRoutingProofs` those of `ModelSchema`, `ConversationStorageProofs` those of the two backends |

Definitions whose comment begins with "Faulty variant" are not part of a
specification: each stands for a plausible mistake in the code that a property
has to notice, and is what PROJECT.json's mutants put in the place of the
definition they vary.

### CircuitBreaker, ErrorClassification and ProviderCall

The breaker's fields keep their names; the two monotonic time stamps are
stopwatches (`sinceOpened`, `sinceHalfOpen`) that stop once ResetTimeout has been
reached, which is all that the code compares them with.  `allow_request` is
`AllowRequest` when it returns True and `RejectRequest` when it does not, with
one action per branch.  In `ProviderCall` a call consults the breaker once, before
its first attempt, and makes up to MaxAttempts.  An error is what
`_is_error_retryable` and `_is_provider_unhealthy_error` say of it, and whose fault it
is: the backend's, that of a request refused by a 4xx, or that of a request which no
such status tells ("unnamed").  `ErrorClassification` computes the two verdicts from
what the classifiers look at (exception type, status code, words of the message, body
of a 429); whose fault it was they do not see.  A healthy backend produces the last two
kinds.  The run takes the errors that `ListedErrors` yields.  `Cancel` is the CancelledError of the async loop, which no
`except Exception` sees.

### ThreadLog, SqliteConversations, MemoryConversations, ConversationStorage

Time is relative: `left` is `expires_at - now`.  In the SQLite model every
operation has a `lag`, the age of the clock reading it uses.  `GetSelect` and
`GetDelete` are separate actions because they are separate statements outside a
transaction; `atomic_update` under BEGIN IMMEDIATE is one commit, and a restart
may come anywhere before it.  `self._lock` keeps a process's own sweep out of its
`get`, and nothing keeps out another process's.  The in-memory backend is atomic
per method, so `add_turn` is a read (`AddTurn`) and a write (`StoreTurn`), and the
sweep may run in between.  `CreateBackend` is the choice made at first use, which
falls back to memory.

### JobLedger and ClinkJobs

Each job is a task; its `pc` names the await at which it is suspended and an
action is what runs from one await to the next.  A cancel is pending in
`cancelling` until the task is resumed, and what it does depends on the await:
`CancelledBeforeFirstStep`, `CancelledInSnapshot`, `CancelledInLaunch`,
`CancelledInTalk`, `CancelledInDrain`.  The CLI (`leader`) and a descendant that
holds its pipe (`helper`) exit when they like, or never.  `JobLedger` is the same seen
from outside: a run is accepted (`Accept`), ends once (`Finish`) and is forgotten.
`JobStates` and `JobKeys` map to it.  A task that is cancelled before its first step leaves
its record as it was; the ledger calls that "unrecorded".

### CliDialects, CliOutputs and CliRun

A command is a sequence of tokens; the functions that strip and add flags do to
it what `_strip_model_flags` and `_apply_read_only` of each agent do.  An output is a
sequence of lines that are told apart only as far as a parser tells them apart.
In `CliRun` the walks take one directory entry per step (`Scan`), so that files
can change before, behind and between two entries; a walk may stop early, and it may find
an entry unreadable (`Unreadable`), which it skips without a mark.  A launch is two steps
(`Start`, `Launched`), between which the process is created: the launch may fail there
(`LaunchFails`) or be cancelled (`Abandon`), and the agent may be at work already.  A
file's stamp stands for its times and size.  `depth` is what the server read from
UNISON_CLINK_DEPTH, `chain` how many agents really are above it; `Handed` is what an agent
is given of the provider keys, to which a server below it adds those of the .env file
(`Nest`, `utils/env.py:35-57`).

### SessionLog, WorkflowTools, WorkflowHooks, WorkflowSession, ExpertStream

The same code is modelled at three grains.  `WorkflowTools` is about interleaving:
`history[tool]` stands for `work_history` on the shared instance (how many steps,
and for which thread they were sent: all for one, or "mixed"), and `queue[tool]`
is the `asyncio.Lock`, whose head holds it.  A step that needs no expert runs
from the lock to the answer without an await (`StepAnswered`); the last step of a
session awaits the expert with the lock held (`StepAsksExpert`,
`ExpertReturns`); a step that raises leaves what it appended on the instance
(`StepFails`).  The first step of consensus (`ConsultationStarts`,
`ModelsAsked`, `ConsultationEnds`) does not queue.

`WorkflowSession` takes one call at a time, as the lock does, and follows what is
remembered: the instance, what each thread has saved, what is consolidated, and
what the expert is told.  The eleven tools differ in the hooks of
`WorkflowHooks`; of a table of texts only the case that is picked is kept, as a
phase of the work, so that a step's required actions and the guidance next to
them can be compared.  `SessionLog` is what both promise: a session is a log of its own
answered steps, a step being represented by the thread it was sent for
(`SessionPhases` and `SessionLogs` map to it).  `ExpertStream` is one request to the expert: the worker
thread puts chunks, an error and the end into `queue`; the loop takes them one at
a time, each with an await on a notification that may fail.

### ThreadContext and ToolCalls

`ThreadContext` computes the shares of a model's window and what fits them, newest
files and turns first, in tokens.  A path is a number, in the order of the paths, and
stands for itself or, a folder, for the files in it; the
loops over files and turns are recursive functions, one round per step.  In `ToolCalls` a call runs without an await up
to the question (`Asks`), waits, and runs to its reply.  A turn records its
role, the call it belongs to, the model and the files.  `current` is the model on
the tool's instance, which the calls overwrite for one another.

### ModelCatalog, ProviderRequests, ModelRouting, ModelSchema

A catalog entry is one `ModelCapabilities`; a name is a canonical name, an alias,
a deployment or undeclared.  `allowed` is the restriction service's sets, and
every operation that asks them returns the changed sets too, as `is_allowed`
adds the names it has resolved.  `Printed` is what listmodels prints beyond the list:
the whole catalog of a provider that the service does not restrict, and the custom
endpoint's whether or not it is restricted.  `last` is how the latest call ended and, if it
was sent, the request.  `ModelSchema` adds the listing of tools, whose
descriptions promise what other code has to keep.

## 3. The runs

| Run | Configuration | What it asks |
|---|---|---|
| `provider_call` | `ProviderCall.cfg` | the failure count is exact, only the cooldown leaves OPEN, probes are metered, refused requests never open the circuit, leaked probes do not wedge it, it closes again |
| `storage` | `ConversationStorage.cfg` | no acknowledged turn is lost, doubled or moved; with one owner either backend implements `ThreadLog`; expired rows go |
| `sqlite_expiry_race` | `Sqlite_race.cfg` | **violated**: a live thread can be removed |
| `clink` | `ClinkJobs.cfg` | nothing is left behind by a run, keys and the limit hold, a completed run is its own, the runs are accounted for as `JobLedger` says, and runs end |
| `cli_run` | `CliRun.cfg` | the report on a read-only run is exact as far as the walks could read, temporary files and an enforced sandbox's files are as found, one model is asked, agents below agents inherit what they may, an answer is the agent's own text within the limit; each with the exceptions of section 5 |
| `workflow_steps` | `WorkflowTools_steps.cfg` | each session is a log of its own answered steps (`SessionLog`), none of which is lost, and the lock is handed on |
| `consensus_concurrent` | `WorkflowTools_consensus.cfg` | **violated**: models are asked about another call's proposal |
| `workflow_session` | `WorkflowSession.cfg` | what is consolidated matches what is saved, which is a `SessionLog` too; the expert knows its session and no other; a tool's hooks agree except where they are known not to |
| `expert_stream` | `ExpertStream.cfg` | an answer is whole, progress is in order and not repeated, one cancel waits for the provider, every call ends |
| `tool_calls` | `ToolCalls.cfg` | exchanges are recorded once and in order; a new thread's files reach the model as far as they fit, and once; prompts fit and keep the newest turns |
| `tool_calls_files` | `ToolCalls_files.cfg` | **violated**: a continuation's new files never reach its model |
| `model_routing` | `ModelRouting.cfg` | only allowed models are served, asking changes no answer, what the list, listmodels and a schema show is served, requests are ones their model accepts |

### Bounds, and why they are enough

- `provider_call`: two consecutive failures are the smallest threshold at which
  counting differs from "any failure"; three calls let one report late while two
  others open the circuit or probe it; one probe slot leaks and is reclaimed; two
  attempts distinguish the first from the last.  ResetTimeout is two ticks, so an
  event can fall before, on and after it.  The errors are those the OpenAI-compatible
  and Anthropic adapters make of exceptions whose status code is on one of their lists
  (or that have none); see section 5 for the others.
- `storage`: two processes are enough for every pair of interleaved operations, the
  two sweep threads included, and then share one thread; one process, or memory,
  has two threads.  A TTL of two ticks against a wait of one gives rows that are
  alive, expired for one reader only, and expired for all; two turns reach the
  limit, below and at it.  The unknown backend name `redis` falls back to memory.
- `clink`: two jobs under a limit of one and of two, chosen in the initial state;
  one key is enough for a conflict; one request at a time can start, wait, poll or
  cancel, and starting again is a new request.  The retention time is "has passed or not", so
  a job may be forgotten at any time after its end.  `CleansUp` leaves out two
  things the code does leave (section 5): helpers of a CLI that had exited by
  itself, and the prompt file of a run cancelled in its launch.
- `cli_run`: two changes to files suffice for one before and one after any entry is
  read, or for a change and its undoing; two entries fill the walk's cap below the
  number of paths; of the paths one lies in a pruned directory below the top, and one is a file
  with such a directory's name; the answer lengths lie below, at and above the limit (20, in
  thousands of characters).  Four agents below one another are more than any of the
  depths set (0, 1, 2).  Only claude and codex have Unison among their servers.
  Two of the three provider keys are in the user's environment, the third is in the .env file.
  One of the manifests, gemini's override, has an output file and keeps it.
  Each call finds the directory as it was at the start (`Restored`), as no call
  reads what an earlier one left there.
- `workflow_steps`: one tool with the lock and one whose first step bypasses it,
  two calls in flight, one thread of up to three turns that can be full, forgotten
  and shared with another tool.  With one thread, steps can still be foreign: those
  of calls without a thread.  The violated run uses two threads.
- `workflow_session`: each of the eleven tools, two threads to alternate between,
  two turns (one saved step and a full thread), two steps on the instance.
  `HooksAgree` compares the tables of all eleven tools at the step numbers around each of
  their thresholds (1, 2, 3, 4, 5 and 7), at every listed confidence and none (null), with
  and without a thread.
- `expert_stream`: four chunks, each empty, short or long, so that both thresholds
  (size 2, interval 2) are met alone, together and not at all, with a remainder.
- `tool_calls`: three calls over two threads of up to four turns, that is, two
  exchanges and a full thread; two models whose windows (50 and 100 tokens) lie on
  both sides of the step in the shares (60); a file that fits the small boundary
  (5), one that fits the large one only (17), and one too large to be read (4, its note 1);
  a folder that holds the first two.  The requests name none, one or two of these.
- `model_routing`: seven providers with thirteen models whose names overlap the way the
  shipped catalogs do, twenty-seven names, nine sets of keys and six allowlists; temperatures
  inside and outside what some model takes.  Allowlists only grow, by the names
  asked for, so all histories of questions are covered.
- Deadlock is checked except where the system really may stop: after the teardown
  (`clink`), when each call has been made (`tool_calls`, `expert_stream`), when
  the threads are used up and the tool has nothing to do (`workflow_session`), when
  start-up or the manifests are refused (`model_routing`, `cli_run`).

### Fairness

- `ProviderCall!FairSpec`: the clock advances and calls are made again and again
  (weak), and a call that can succeed infinitely often at last succeeds (strong).
  The last is the environment's part: a backend that is up answers, and not all
  clients send bad requests for ever.  Only `Recovers` and `NeverWedged` need it.
  `Recovers` has as its premises that the backend stays up and that, from some time on,
  no request whose fault goes unnamed is counted.
- `ConversationStorage!StorageSpec`: the clock advances and an operation that has
  begun ends (weak); the sweep timer of a process keeps firing, and not every
  sweep is cut short by a restart or kept out by a `get` (strong: both can
  disable it again and again).
- `ClinkJobs!FairSpec`: the event loop runs every task that can run (weak).
  Nothing is assumed of the CLI.  `EveryJobEnds` has the firing of timers as its
  premise, `CancelEnds` does without.
- `ExpertStream!StreamSpec`: the worker thread and the event loop are scheduled (weak).
  That the provider call itself ends is part of the first: its client has a
  time-out.  Nothing is assumed of the host.
- The other modules are checked for safety only.  For the workflow lock,
  `LockHandedOn` is the safety that its liveness rests on: whoever leaves gives up
  its place.

## 4. What is proved

TLAPS checks these for every value of the constants, under the named
assumptions of the modules (the ASSUMEs: thresholds are natural numbers,
"nothing" is not a member of the sets, catalog entries are what `_build_maps`
lets through, manifests are what the loader lets through, and the like).  TLC
evaluates every one of them on the instances.

| Module | Theorem | Property |
|---|---|---|
| `ProviderCallProofs` | TypeCorrect | `TypeOK` |
| | TripsInTime | `ClosedMeansFewFailures` |
| | CooldownIsKept | `OnlyCooldownLeavesOpen` |
| | ProbesAreMetered | `ProbesMetered` |
| | CallerFaultsAreHarmless (*) | `CallerFaultsNeverTrip` |
| | AnswersAreWhole | `AnswerIsWhole` of `ExpertStream` |
| | ProgressKeepsItsOrder | `ProgressInOrder` |
| | CancelledStreamsAreAwaited | `OneCancelWaits` |
| | StreamTypeCorrect | `StreamTypeOK` |
| `ConversationStorageProofs` | TypeCorrect, NoTurnLost | `TypeOK`, `AckedTurnsKept` of `SqliteConversations` |
| | StorageTypeCorrect, StorageKeepsTurns | `StorageTypeOK`, `AckedTurnsKept` over either backend |
| | MemoryIsALog | `MemoryImplementsLog` |
| | SoleOwnerIsALog | `SoleOwnerImplementsLog` |
| `ClinkJobsProofs` | TypeCorrect | `TypeOK` |
| | OnlyOnRequest | `CancelledOnPurpose` |
| | NeverFromAKilledRun | `CompletedMeansOwnExit` |
| | LimitsAreKept | `SessionLimits`, of which KeysAreExclusive and CapIsKept are the halves |
| | EveryJobIsAccounted | `JobsAreAccounted`: `ClinkJobs` implements `JobLedger` |
| | RunsCleanUp | `CleansUp` |
| `CliRunProofs` | TypeCorrect | `TypeOK` |
| | NestedCallsInherit | `NestedInherits` |
| | ReportTellsTheWrites | `ReportIsExact` |
| | CallsLeaveNothing | `FilesAsFound` |
| | RunsUseTheModelAsked (*) | `OneModelAsked` |
| | AnswersAreTheAgents | `AnswerIsSound` |
| `WorkflowToolsProofs` | TypeCorrect | `TypeOK` |
| | SessionsAreIsolated | `SessionsAreLogs`: `WorkflowTools` implements `SessionLog` |
| | ThreadsKeepTheirOwn | `SavedOwnSteps` |
| | NoStepIsLost | `AckedStepsKept` |
| | CallsAreSerialised | `LockHandedOn` |
| `WorkflowSessionProofs` | TypeCorrect | `TypeOK` |
| | SessionsAreIsolated | `SessionsAreLogs`: `WorkflowSession` implements `SessionLog` |
| | ConsolidatedFromHistory | `FoundMatchesHistory` |
| | ExpertIsTold | `ExpertKnowsItsSession` |
| | HooksGoTogether | `HooksAgree` |
| `ToolCallsProofs` | TypeCorrect | `TypeOK` |
| | EveryExchangeRecorded, ThreadsAreBounded | `ExchangesRecorded`, and that no thread outgrows the turn limit |
| | NewestTurnsAreShown | `NewestTurnsShown` |
| | PromptsFitTheWindow (*) | `PromptFits` |
| | FilesReachTheModel (*) | `FilesReachModelOnce` |
| `ModelRoutingProofs` | TypeCorrect | `TypeOK` |
| | RequestsAreAccepted | `RequestsAreSound` |
| | RestrictionsAreKept (*) | `OnlyAllowedServed` |
| | SchemaKeepsAnswers (*) | `AnswersStable` |
| | ListedModelsAreServed (*) | `ListedIsServed`, `AutoServes`, `OptionalIsServed` |
| | ShownModelsAreServed (*), AdvertisedModelsAreServed (*) | `ShownIsServed`, and its part `AdvertisedIsTrue` |

Theorems with (*) have a hypothesis of their own, which the configurations of the
runs satisfy (TLC evaluates the two about routing where it checks them), and so does
the code as it is shipped:

- CallerFaultsAreHarmless: the errors are among `ListedErrors`, all that the
  OpenAI-compatible and the Anthropic adapter make of exceptions whose status code is on
  one of their lists.  That their classifiers agree on every refused request among these
  is a lemma (`ListedRefusalsAreNeutral`); with the Gemini adapter, or a 4xx on neither
  list, they do not (section 5).
- RunsUseTheModelAsked, `FlagsHaveValues`: no manifest or role ends in a flag that
  a read-only call removes together with its value.  One that does, say a codex
  manifest ending in `--sandbox`, would have the model's flag taken for the value.
  No shipped manifest does.
- PromptsFitTheWindow and FilesReachTheModel, `AmpleWindows`: what the reserve of
  1000 tokens leaves of the files' share is at least the reserve, and what the boundary
  admits.  Below that the code falls back to a budget of 1000 tokens whatever the
  window.  The smallest window of a shipped catalog is 65 536, the default for a model
  nothing is known of 32 768; the files' shares are 11 796 and 5 898 there.
- Those about routing, `ResolvesOnce`: what a name resolves to at the custom
  endpoint resolves to itself, or to nothing that the endpoint has.  The code checks
  it nowhere; it holds of the shipped catalogs, whose custom models share no name
  with OpenRouter's.
- ShownModelsAreServed and AdvertisedModelsAreServed, also `ModelsApart`: when a provider
  with precedence has the model a later one shows under some name, it lists that model
  under its own name, before the alias and with no lower score; such a name is none that
  Azure claims.  The code checks it nowhere.
  No two shipped catalogs share a model's name, and the shipped Azure catalog is empty.
- Everything about routing, `DeploymentsApart` (part of `CatalogAssumption`): no two Azure
  models share a deployment, and a deployment has no other model's name or alias.  The code
  checks neither; where the second fails, the capabilities are one model's and the request
  goes out under another's name (`providers/azure_openai.py:94-96` against 301).

The arguments:

- **ProviderCall.**  The invariant adds `Coherent` to the types: slots are free
  while the circuit is closed, and each stopwatch runs in the state that it ends.
  The count must be known exactly: that it is below the threshold would not
  survive one more failure.  `ProbesCounted` is what ProbesAreMetered needs: how many
  probes of the present period there are, and of those admitted since the slots
  were last reclaimed, by cardinalities; the period before has aged out by the time a
  new one can begin, as a cooldown lies in between.
- **ExpertStream** (proved in the same module).  `QueueIsTheRest`: the queue holds the
  chunks that were made and not taken, and then how the stream ended.
  `RelayFollows`: the throttle's buffer is the latest part of what the call took, and
  what the host was sent is the rest of it, in order; if nothing failed to be sent,
  all of it.  `CallFollows` ties the answer to both, through one cancel and the second.
- **SqliteConversations.**  `Unborn`: a thread without a row has no turns, and
  only one process is about to insert it.  Without it a late insert could bring
  back a thread that others have written to.
- **ConversationStorage.**  The two refinements are proved step by step: each step maps
  to a step of `ThreadLog` or leaves its state alone.  `OnlyTheDeployed` and
  `DeletesWhatItSaw` are why a sole owner's delete is an expiry there: its own
  sweep is kept out by `self._lock` and nobody else has the file.  With two
  processes `DeletesWhatItSaw` is false, which is the first finding of section 5.
  `MemoryForgets` and `PendingWasRead` do the same for the gap between the read and
  the write of `add_turn` in memory.
- **ClinkJobs.**  `Phases` ties the record, the task and the process of a job
  together; `HelpersFollow`, `FilesFollow` and `OwnExits` say at which awaits a
  helper, a prompt file and an exit of the CLI's own may be there; `KeysApart` and
  `Capped` strengthen the two limits from processes to running jobs, which is what
  `start` looks at; `AtWork` and `DownIsQuiet` say what is left to do when the
  server stops.  What all steps of one task have in common is stated once
  (`TaskEffect`), and is enough for the refinement: such a step keeps what the ledger sees
  of the job, or ends it (`TaskIsAccounted`); a start is an `Accept`, and every other call, like
  the teardown, asks for cancels of running jobs only (`CallIsAccounted`, `ShutdownIsAccounted`).
- **WorkflowTools.**  `Lines`: a call that waits or works has exactly one place
  in its tool's queue, the first while it is at the expert.  `AtExpert`: the
  instance holds the thread's saved steps and one more for the whole await.
  `Kept` is the claim about stored threads, and `Secrets` and `Whereabouts` say
  that a call can only be about a thread the host was told of, or one that it
  has opened itself; otherwise two calls could share a thread nobody knows.  With
  `Kept`, an answer appends one step of the thread's own to what is saved, and every other step
  opens a session, forgets one, hands a thread to another tool or leaves the logs alone:
  that is `SessionLog`.
- **WorkflowSession.**  `OwnSaved`: what a thread the tool opened has saved are
  the steps it answered, and the request of the session where the expert is told
  one.  `AskingKnows`: while the expert is asked, the instance holds these and
  the present step, although failures and other sessions have used it before.
  The refinement rests on the first, and on `LoggedSessions`: what a thread has saved is of its
  own session and no more than its turns, so an answer it takes is one more step
  of that session, within the limit.
  HooksGoTogether goes through the tables tool by tool, for every step number and
  confidence; `Apart` is exact: where it holds the two tables do differ.
- **ToolCalls.**  Sequences of turns grow at the end only, so the first argument is
  about what an append keeps (`Appended`).  `OwnThread`: a call's turns are on its
  own thread or the one it was offered; `QuestionsFirst`: a question that is
  missing found its thread full or gone, and then so does its answer; `Handed`:
  no call knows a thread before it was created.  The second is about prompts.
  `PromptsAreRight` shows that whatever the thread, the files and the folders are, what is
  put together is right: a file is left out only where it does not fit, and a request that the
  boundary let through, without a folder, fits as a whole.  It rests on what each loop computes (`SizesAdd`, `OrderLists`,
  `ThreadLists`, `PlansFit`).  `PromptInv` carries that from the question to the reply,
  through the steps of other calls; for it answers must be credited to models that
  are there, because a later call goes on with them.
- **ModelRouting.**  The request of a call is built in one step, and
  is sound for every entry a catalog may hold (`EntriesAreSound`), the one made up
  for an undeclared name included.  The steps are that of the correction of
  temperatures, the nearest rung of an effort, and the arithmetic of the thinking
  budget between its floor of 1024 and the model's output limit.  For the restrictions
  the invariant is `RestrictionsHold`: an allowlist holds its policy, what the
  policy resolves to, and at the custom endpoint names that nothing there answers to,
  so that asking a grown list and asking the policy are the same question
  (`CapableAsPolicy`, `RouteAsPolicy`).  That the fallback picks a model from the list
  needs a first element of a finite set in a given order; `FiniteHasFirst` finds it by
  counting the elements before each.  An advertised name is a provider's foremost for
  its model.  If a provider with precedence could take it, it would have the model too, and
  list it under the model's own name before any alias; the alias would not be foremost then.
  So the route of the name is the provider it was ranked for, which is what
  AdvertisedModelsAreServed says.  ShownModelsAreServed adds the default of a schema, the
  list and what listmodels prints: a provider that the service does not restrict takes all
  its names, the custom endpoint's allowlist is one of the two exceptions.
- **CliRun.**  `DepthCounts`: the depth a server has read is the number of agents
  above it, and a call past its checks is within the limit, which no later step
  changes; `KeysWithheld` for the environment that is handed down (`HandedIsDeclared`: what an
  agent is given does not depend on where its server has the keys from, the .env file included).  `WalkInv`: an
  entry that a walk has is still so on the disk unless somebody touched it, what the
  agent wrote is newer than the first walk, and a walk that was not cut short has
  noted every entry up to where it is, as recorded or as missed (`Noted`); so where nobody else interferes the two walks differ
  exactly where the agent wrote.  `RunInv`: between its start and its end a run has the
  command of its request and no files but those made for it, and after the agent's exit at most
  an output file that its manifest keeps (`Spared`).
  RunsUseTheModelAsked then is about commands only: what stripping leaves holds
  none of the flags, the pair put behind it stays together, and neither the
  read-only flags nor the tail have a model flag.  `AnswerInv`: a result is what the
  agent's parser or its recovery found, cut at the limit; for Claude, which of its choices the
  parser has come to follows from which kinds of events there were (`ClaudeIsOwn`).  The types need `Counted`
  besides: a run begins only below the last agent that may be started, and a call is for a request
  its server may get.

Loops over data (the sizes of files, the order of a listing, the tokens of a
command, the lines of an output) are recursive functions, and what they compute is
proved for every input by least counterexample: among the rounds at which a claim
fails there would be a first (`HasLeast`, from the well-foundedness of <), so a
claim that holds at 0 and goes from each round to the next holds throughout
(`FromEachToTheNext`).  That such a function exists at all, which the definition of a
recursive function by CHOOSE needs, is proved in the same way (`LoopsRun`,
`StrippingExists`, `ChosenExists`).  The induction theorems of the library, which take
an operator as a parameter, are not used.

What stays with TLC.  All liveness: `Recovers`, `NeverWedged`, `EveryJobEnds`,
`CancelEnds`, `EveryCallEnds` and the removal of expired rows need fairness and ENABLED, which the
prover does not handle.  Every safety property of a passing run has its theorem, most
for all values of the constants and those marked (*) under their hypothesis.  A run has no
property `TypeOK`: each module's is proved instead.

## 5. Disagreements between the code and its documents

With a run each:

1. `sqlite_expiry_race`: `get()` judges a row expired and deletes it by key in
   another transaction (`utils/sqlite_storage.py:202-213`); another process can
   renew it in between, and the acknowledged turn is gone with the thread.
2. `consensus_concurrent`: the first step of consensus keeps its proposal on the
   shared instance and does not take the lock (`tools/consensus.py:487-491`), so
   two calls that start together have all their models asked about the second
   proposal.
3. `tool_calls_files`: a call that continues a thread arrives with its history
   embedded, and then is taken as the whole prompt (`tools/simple/base.py:356`):
   the files it names are not embedded if the thread has not had them.

Modelled, and excepted from a property that would not hold:

- A CLI that has exited while a helper of it holds the pipe: the process group is
  looked up through the reaped leader, nothing is found and nobody is killed
  (`clink/agents/base.py:474`).
- A cancel during the launch of a CLI leaves its prompt file (`clink/agents/base.py:320-343`,
  `CancelledInLaunch` of `ClinkJobs` and `Abandon` of `CliRun`), though not Copilot's attachments
  (`clink/agents/copilot.py:206-216`); a run that does not finish, from its launch to the reading of its
  output file, leaves that one (275), and so does one whose manifest sets its `cleanup` to
  false (386).  `FilesRemoved` names these.
- The walks of a read-only run skip a directory by its name at every depth
  (`utils/fs_snapshot.py:297-299`), and an entry or a directory that they cannot read without
  marking the report partial (268, 301): what one walk alone could read looks created or deleted, and a
  write there may go unreported.  `ReportIsExact` leaves both out (`Walked`, `Unread`).
- Every server reads the .env file into its environment again (`utils/env.py:35-57`), one
  below an agent too: provider keys withheld from the agent are there for that server if they
  are in the file.  What an agent itself is given is as declared (`KeysWithheld` has both).
- Claude's parser falls back, without a result, to the last turn, a delegate's included, and without
  turns to the last event (`clink/parsers/claude.py:36-40`): a notice of the session, or an
  error object, which goes out with `is_error` false (82, 131-135).  `AnswerIsOwnText` says when.
- The limit is on the text of an answer.  Of the metadata only `events` is dropped
  (`tools/clink.py:875-892`); `raw`, `raw_events` and `raw_output_file` hold the output as a whole.
  `AnswerFits` is about the text.
- A workflow tool that joins a thread of another tool has no steps to restore and
  clears none (`workflow_mixin.py:708`), so it adds those of its previous session to
  the thread; `SavedOwnSteps` and `SessionLog` are about the tool that opened the thread.
- `providers/base.py:627-631` says that a run of bad requests, a bad image and too long
  a context among them, cannot lock out a healthy provider.  Several do count: a 4xx
  that only its text makes retryable (a 413 whose message holds "500", or "quota" at
  the Gemini adapter), after its last attempt; a 429 whose body says that the request is
  too large (`providers/openai_compatible.py:1158-1167`); an output budget spent on
  reasoning (1086-1093); and whatever fails before it is sent, such as for want of a
  client that can be built, having no status code.  `CallerFaultsNeverTrip` is about requests
  refused by a listed 4xx, and `Recovers` asks that the others cease to be counted.
- One-shot calls keep their model on the shared instance across the await
  (`tools/simple/base.py:490`): a turn may be credited to another call's model, and
  an empty answer asked for again at it (535).  `ExchangesRecorded` does not ask
  who answered.
- A restricted Azure claims deployments outside its allowlist
  (`providers/azure_openai.py:94`); such a name is refused there although a later
  provider could serve it, and consensus serves it.
- "Azure requires the deployment identifier" (`providers/azure_openai.py:298-301`,
  `docs/azure_openai.md:19`).  The adapter hands the deployment to the shared implementation
  as a model's name, and that is read in the catalog once more
  (`providers/openai_compatible.py:680`): a deployment called by an alias of its model, or
  by its model's name in another case, goes out as the catalog spells the model.  On the
  streaming path the adapter inherits, the model's name goes out too, unless the caller
  named the deployment.  `RequestsAreSound` excepts both; case is not modelled.
- `tools/listmodels.py:343-357` prints every name of the custom endpoint whatever
  `CUSTOM_ALLOWED_MODELS` says, and 171-217 the whole catalog of an Azure restricted by
  `AZURE_ALLOWED_MODELS`, which the restriction service does not read; some of these names
  are refused when asked for.  `ShownIsServed` excepts them.
- A model name with a ':' of its own is read as a name with an option
  (`utils/model_resolution.py:30`), so a tool call cannot reach it.
- Spellings of flags that an agent's class does not list are not stripped
  (`--sandbox=danger-full-access`, claude's `--dangerously-skip-permissions`), and
  a model flag at the end of a manifest's arguments takes the first token of the
  role's (`clink/agents/base.py:205`).
- The check at the boundary promises "No partial inclusion" (`utils/file_utils.py:818`).  It
  counts nothing for a folder (645), though a request may name one; `read_files` expands
  it and passes over the files that do not fit (584-613).  A file above 1 000 000 bytes
  counts whole and reaches the model as a note (476-484).  `OpeningFilesReachModel` is about
  requests without a folder, with the note in such a file's place; `OnlyMisfitsLeftOut`
  says what holds of all.  A folder named again on a thread brings its files
  again, those the history shows included (`NoFileTwice`).
- thinkdeep asks its expert though the agent declined one.
- The required actions of a step and the text next to them are for different phases of the work
  in these steps (`Apart`; `ActionsAgree` is about all others):
  - thinkdeep at confidence "exploring", or one it has no list for, from its second step on: the
    actions say "Analysis complete - ready for implementation" (`tools/thinkdeep.py:406`), the
    text to continue investigating (502).  At its first step the text goes by the confidence.
  - debug, testgen and tracer with a null confidence: the actions are those of "low"
    or "exploring" (`workflow_mixin.py:921`, `tools/tracer.py:370`), the text the last resort.
  - codereview and precommit on a thread from the third step on: the actions are to proceed to the
    expert (`tools/codereview.py:265`, `tools/precommit.py:270`), the text to verify (630, 682);
    precommit without a thread says to verify, too, where its actions are general (328).
  - secaudit: the actions go by the step (`tools/secaudit.py:182-229`), the text by the
    confidence (559-585), which meet at step 1, up to step 6 at "exploring" and "low", and later at
    confidences neither low nor high.
  - planner at the first step of a plan of less than five: actions for a start, and a text that
    goes on with the plan (`tools/planner.py:241`, 406).

Noticed beside the models:

- An idempotency key matches a running job only; a retry after its completion
  starts a second paid run.
- `tools/consensus.py:717` catches `ProviderUnavailable`, which the providers have
  wrapped in RuntimeError by then, so unavailable models are not reported as
  skipped.
- Later steps of an older consensus session report the `accumulated_responses` of
  the latest one (576).
- A budget of exactly 0 remaining tokens reads as none (`tools/shared/file_processor.py:244`).
- `utils/streaming.py:25-29` documents either threshold as enough; the code and
  the comment at line 89 want both.
- As soon as one provider is restricted, the models of every unrestricted one
  disappear from the schemas, though they are served
  (`tools/shared/model_schema_builder.py:243`).
- SQLite that cannot be opened silently means memory (`utils/storage_backend.py:133`).
- A manifest that sets UNISON_CLINK_DEPTH itself resets the count, and so does a .env file that
  does under UNISON_MCP_FORCE_ENV_OVERRIDE; the recursion limit can be changed in the same ways.
- The images an expert gets are unchecked (`workflow_mixin.py:1656`), and an image
  an adapter cannot read is dropped without a word to the caller.
- `utils/env.py:112` edits the process's environment while clients are built;
  two threads that do so at once may restore the wrong value.
- `conversation_store.py:26` speaks of 20 turns; the default is 50.

## 6. What is not modelled, and why

- Text and layout: wording of prompts and answers, metadata, token counting, JSON
  forms.  No property depends on them; where a choice among texts matters
  (`WorkflowHooks`), the choice is modelled.
- Images, apart from how they travel to a CLI: an adapter forwards or drops
  them, and nothing else looks at them.
- Contents of files, path rules, gitignore and symbolic links: input and output.
  A path is ignored or it is not; whether it can be read is left open (`Unreadable`).
- Errors when a temporary file is removed, which the code ignores; a helper that a CLI forks
  before the await of its launch has returned.
- Servers below one another are of the same installation, with one .env file and one recursion limit.
- Sequential start-up: configuration, plugin loading, catalogs; only which
  providers and manifests result is modelled.
- The SDKs and the parsing of their answers; the metadata LiteLLM bundles, which is
  one more source of catalog entries.
- Spans, metrics and log records: nothing depends on them.  That a streamed call
  is recorded once is part of `AnswerIsWhole`.
- The file context of workflow steps: which step embeds files is fixed by its
  number and its hooks; the budget is the same as in `ThreadContext`.
- `delete()`, `keys()`, `get_thread_chain`: no caller, or reading only.
- The difference between the estimate of a file's tokens and the count after reading
  it: the two are taken to agree, but for folders and files too large to be read.  Paths that
  do not exist, which count nothing at the boundary and reach the model as a short note.

## 7. What is left

1. Liveness of `WorkflowTools`: a call that waits for the lock gets it.
2. The file context of workflow steps over `ThreadContext`, where a budget of 0
   would be reachable.
3. Concurrent consultations that share an observability context.
4. An abstract specification of the breaker's promise ("a provider that fails is left alone
   for the cooldown"), which `ProviderCall` would implement.
