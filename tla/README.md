# A TLA+ model of the research workspace

The repository is a desktop research companion: an Electron shell starts a
Python sidecar (FastAPI on one asyncio loop, SQLAlchemy on Postgres, a SAQ
worker in the same process, Docker for notebooks) that a React frontend talks
to over REST and one WebSocket per project. This directory holds TLA+ modules
that model its hardest parts, the TLC configurations that check them and TLAPS
proofs of the properties that matter most. Paths are relative to the repository.

Sections: 1 the system, 2 the modules, 3 the runs with their bounds and
fairness, 4 the proofs, 5 disagreements found while modelling, 6 what is not
modelled, 7 what comes next.

## 1. The system

| Component | State | Operations | Hard behaviour | Model |
|---|---|---|---|---|
| Execution Sandbox `backend/sandbox` | `_tokens`, `_running_containers`, `_live_servers`, `_live_server_locks`, notebook, containers | propose, mint, run_all, stop, start/stop server, ceiling, boot sweep | awaits between check and registration; containers outlive the process | `Sandbox` |
| Agent loop, approvals, traces, orphan sweep `backend/harness` | `_in_flight`, `_pending`, transcript, `turn_traces` | begin_turn, run_turn, interrupt, resolve, sweep_orphans | approval against Stop against timeout; rows in several transactions; a sweep beside live turns | `AgentTurn`, `Consent` |
| Session Transport `backend/ws` | `_sessions` | handle_connect, handle_message, broadcast | a reconnect races the old socket | `AgentTurn`, `Companion` |
| Citation stream `harness/streaming.py` | held text of a span | feed, flush | deltas cut delimiters anywhere | `CitationStream` |
| MCP bridge `harness/mcp` | a stdio process, `_initialized` | call, respawn | callers share one stdout; late answers | `McpClient` |
| Paper pipeline, chunks `backend/papers`, `memory` | five stage states, content, cards, chunks, edges | add, fetch, parse, extract, embed, trace, enrich, retry | jobs enqueued before commit, never retried; stages left `running` | `PaperPipeline` |
| Job queue, catch-up `backend/jobs` | queue, `scheduled_jobs` | enqueue, run_catchup_pass | enqueue and commit are apart; two rows a pass | `Catchup` |
| Feed, interest profile `backend/feed` | cursor, ledger of seen papers, items, profile | poll, save, dismiss, seed, re-extract, edit | read, minutes of LLM, write | `Feed`, `InterestProfile` |
| LLM client, rate limits, provider settings `backend/llm`, `ratelimit.py`, `settings` | bucket per provider, learnt budget, keys | call_with_retry, repair, save | pacing under cancellation; retries within retries | `LlmClient` |
| Matrix `backend/matrix` | cells | view, edit | two requests find one cell empty | `Matrix` |
| Search `backend/search`, `frontend/src/search` | cached pools, views | search, reveal, widen | read pool, minutes of fan-out, write pool | `SearchCache` |
| Writing `backend/writing`, `frontend/src/writing` | draft files, timers, buffers | autosave, compile, switch, new draft | PUTs of whole documents, reordered | `Manuscript` |
| Voice `frontend/src/voice` | recorder, queue, epoch | hold, release, speak, stop | awaits in a drain that a stop overtakes | `VoicePlayback` |
| Shell `frontend/src/app`, `state/useTabStack.ts` | tab stack, address bar, stored stack | open, close, activate, back, persist | two effects mirror each other; stale closures | `TabStack` |
| Companion pane `frontend/src/companion`, `state/useProjectSocket.ts` | socket, queue, buffer, entries | connect, switch project, send, stream | a close that comes after the next connect | `Companion` |
| Notes `backend/vault`, `api/notes.py`, `harness/tools/notes.py` | a file and a row per note | create, PATCH, save_note, update_note | the file is written, the row may wait, fail or be rolled back | `Notes` |
| Highlights `backend/vault`, `provenance`, `api/highlights.py` | anchors, rows, one mirror file per paper | create_highlight | file rewritten whole, rows in the caller's transaction | `Highlights` |
| Project memory, compaction `backend/memory`, `harness/compaction.py` | chunks of notes and summaries, a summary per conversation | chunk_and_embed_job, maybe_compact | read, delete, embed, insert; who enqueues and who does not | `ProjectMemory` |
| Subagents `harness/subagents.py` | a task and a trace row per level | run_subagent, its loop, deep_research | three tasks per level, cancelled from outside | `Subagents` |
| Context assembly, other tools, remaining API, desktop | - | - | see section 6 | none |

Components interact in four ways: calls inside the loop (an await is where
another task may run), rows in Postgres (one transaction per `db.session()`,
rolled back on an exception), jobs in SAQ (a handler's enqueue takes effect at
once, outside the transaction), and events broadcast on the project's socket.
`PROJECT.json` lists every component with its status and what of it is left
out, and the hazards with the line at which each bites.

## 2. Modules

One module per component; `MCSandbox`, `MCAgentTurn` and `MCPaperPipeline`
instantiate three of them for TLC, `MCServices` the other sixteen. `Consent` is
the abstract specification that `AgentTurn` implements. `Selection` has one
operator, which elements of a sequence are among a set, as a fold; `Catchup`,
`SearchCache` and `CitationStream` use it, and what it returns is proved once.
The theorems are in `Sandbox_proof`, `AgentTurn_proof`, `PaperPipeline_proof`,
and, for the components of `MCServices`, in `Services_proof` (composition,
Matrix, LlmClient, Feed, InterestProfile, McpClient, Catchup, SearchCache),
`Companion_proof`, `Citations_proof` (CitationStream), `Interface_proof`
(VoicePlayback, TabStack, Manuscript) and `Stores_proof` (Highlights,
ProjectMemory, Subagents, Notes).

Definitions whose comment begins with "Mutant:" are not part of a
specification. Each is a plausible bug of the definition after it; replacing the
one by the other makes the named property fail, which shows that the property
constrains the code (`PROJECT.json`, "mutants").

An action is all the code between two awaits, with the transaction, request or
event it ends in; `pc`-like fields name the await a task is suspended in.
Variables carry the source's names where they have one. Variables that only
properties read (`doubled`, `orphaned`, `mixed`, `overtaken`, `leaked`, ...)
record what has happened and constrain no step.

### Sandbox

`tokens`, `running`, `live`, `lock` are the module-level dictionaries of
`sandbox/__init__.py`; `notebook` is the experiment's `notebook.ipynb`;
`netOptin` the column `build_run_spec` reads; `rows` the committed
`experiment_runs`; `box` and `server` what Docker knows of run containers and
notebook servers. `job[r]` is the `run_all` activation of a `run_id`:
`RunCheck` (the two registry checks), `LoadRunSpec`, `ConsumeToken` (five
checks, mark used, hash), `LaunchContainer`, `RegisterRun`, `AnnounceRunning`,
the log stream and its timeout, `ReapContainer`, `PopRun`, `WriteRunFiles`,
`CommitRun`, each with the failures that can leave there. `op[p]` is a start,
stop or proposal request, or the ceiling task of a server (a server is its own
ceiling's process identity). `ProcessExits` forgets everything in memory and
loses jobs being worked on (SAQ does not retry them); queued jobs, files, rows
and containers remain; `SweepOne` and `Boot` are the lifespan's sweep and the
process after it.

Abstractions. A notebook is the set of its cells. A RunSpec is its network
opt-in; gpu behaves the same way. `notebook_path` in the row and the file are
one thing. The second container of the network fallback is started after the
first was removed, so one `StartContainer` stands for both.

### AgentTurn and Consent

`turn[t]` is the `_run_turn` task of an accepted user message; `slot` is
`_in_flight` of the one conversation modelled; `conn[c]` a WebSocket from
`handle_connect` to the end of its receive loop and `session` the entry of
`_sessions`; `transcript` the `messages` rows in `seq` order and `trace` the
`turn_traces` statuses. A transaction that adds rows reads `max(seq)` into
`base` and fails at its insert when another one committed in between
(`SeqTaken`, `SweepFails`): the UNIQUE key at work. A tool call is `OpenCall`,
`CallReturns`, `RecordCall`: one transaction for both rows, so an interrupt, a
timeout or an exception takes both back, while what the handler enqueued
(`acted`) stays. Interrupt, approval and timeout of `_await_approval` are
separate actions; `stopped` remembers that the flag came before the answer, the
case in which asyncio always sees the flag. When a Stop comes just behind the
answer either can be seen, and the model allows both. `BroadcastRaises` is a
`send_json` that raises something else than the `RuntimeError` that `broadcast`
catches; the abandoned generator is closed later (`CloseGenerator`), and only
then is the slot free.

`Consent` says what the gate is for, in five states of a request: it acts once,
only when granted, never once withdrawn, never after the loop went on.
`AgentTurn!Gate` maps a request to its state from `acted`, `yes`, the turn's
position and `stopped`; `ImplementsConsent` is that `AgentTurn` implements it,
stuttering included.

Abstractions. Ages are not modelled: a duplicate is within its five seconds or
not, by choice. A completion ends, calls tools or fails, by choice, as does a
dispatch. A database that fails other than by the UNIQUE key is left out. Which
tools enqueue is represented by the one confirm-tier tool, `run_all`. The
sweep's re-dispatch branch is no action: `ToolRowsPaired` shows that the
transcript never holds the call without a result that it looks for.

### PaperPipeline

`row[p]` holds the five stage states of `papers`; `pdf`, `content`, `chunks`,
`cards` the rows behind them. `jobs[p, k, at]` counts the `k`-jobs of `p` that
stand at a point: `waiting` in the queue, `working` between the transaction
that claims a stage and the one that ends it, or about to enqueue what comes
next. `AddPaper` and `CommitAdd` are apart because `add_paper` enqueues before
its caller commits; a worker in between finds no row. `Concurrency` is the
worker's. `StageFails`, `JobDies` and `Crash` are what may go wrong: an
exception the job records, one it does not, a process that goes. `Retry` is
`retry_paper` behind the button that `needsRetry` shows in the Library.
`Promote`, `OpenPaper` and the trace of references close the loop over papers that cite
each other. A job that goes without a final state is remembered in `orphaned`.

Abstractions. A chunk is its source, a card its fields, an edge the row of the
cited paper. Whether a PDF can be parsed or a model answers is a choice.

### Feed, InterestProfile, Catchup

`Feed`: a poll is queued, fetching, filtering or scoring, with the window it was
dispatched with; time is a tick, and a paper is published at one. The ledger
`seen_set` is `seen` with its reason; a unique violation loses the batch.
`InterestProfile`: the profile is a set of terms; every reader that finds it
empty seeds it, the re-extraction unions what a model returned, and each writes
back what it computed from its own read. `Catchup`: of `next_due_at` only the
order of the overdue rows matters, so `late` is a sequence; a pass that fails
leaves what it enqueued in the queue and its rows as they were.

### LlmClient and McpClient

`LlmClient`: `bucket` is the lock and the FIFO of its waiters, `gap` the ticks
since the last paced start; a call waits for the bucket, sleeps, is made, and
then returns, backs off, learns a limit and is resent, or is asked to repair its
answer; each may be cancelled wherever it awaits. `row` is the providers map of
settings, which `save_provider` and `save_model_budget` rewrite whole.
`McpClient`: `process` and `initialized` are the client's fields, `inbox` and
`stdout` the pipes of each spawned process, `reader` the caller in `readline`.
A line is the id it answers or noise; a caller gives up after
`_MAX_NOTIFICATION_SKIPS` lines or its timeout.

### Matrix and SearchCache

`Matrix`: one paper's row; `cells[c]` are the rows stored for a column, since
nothing keeps them unique. Views and edits read first and write later.
`SearchCache`: `pool[r]` is the cached result set, `tab` what a view shows,
`search` and `more` its requests. `mixed` and `lost` name the two ways in which
a view may stop showing its pool: a page of another result, and a widen that
overwrote another's.

### CitationStream

`feed` and `flush` of the span automaton as operators over tokens, and a
specification that feeds a text in deltas of any size and ends anywhere. The
reference definition is the same text fed in one piece.

### VoicePlayback, Manuscript, TabStack, Companion

The React hooks, with an action for each event handler, effect run, timer and
answered promise. A ref is read when the code reads it; what a closure captured
is a field of the request or timer that captured it. Effects run before the next
event. In `Manuscript` a PUT has a text and a stage (`sent`, `stored`,
answered), so that PUTs may be stored in another order than sent and answered
later still. In `TabStack` `url`, `past` and `future` are the browser's history
and `due` the effect that has yet to run. In `Companion` a socket has a queue of
events of its own and its `onclose` comes later than its `close()`; `slot` and
`started` are the turns at the other end.

### Notes, Highlights, ProjectMemory

`Notes`: `write[w]` is a request that creates or edits a note: `probing` for a
free path, `writing` its file, `flushing` its row, `flushed` in a transaction
that has yet to commit. `notes` and `files` are the committed rows and the
files. The file is written with no await, the statements around it have one, so
two requests may have one path in hand (`loose`), an INSERT waits for another of
the same key, and an edit rolled back leaves its file (`Left`). All titles have one slug,
which is the case in which paths collide.
`Highlights`: `mirror` is the paper's JSON file, read, extended and written with
no await in between; `anchors` and `highlights` are the rows, which the caller's
transaction commits together. `torn` is a write that was cut off.
`ProjectMemory`: `text[s]` is the version of a note or of a conversation's
summary, `chunks[s]` what is indexed of it, `chunking[j]` a `chunk_and_embed_job`
at READ COMMITTED: it reads, its DELETE finds the rows committed by then
(`doomed`) and waits for a transaction that has one of them, and it inserts with
its commit. Who enqueues is modelled as it is: POST after its commit, compaction
after its own, nobody else.

### Subagents

`parent` is the turn's `_dispatch_tool_bounded`, `agent[d]` where `run_subagent`
of level `d` stands, `task[d]` the loop it started, `trace[d]` its row. Level `d`
runs inside task `d - 1`. `cancelled` holds the tasks a `CancelledError` is on its
way to; one action delivers it to each kind of await, and `CancelRace` and
`Unwound` are the `finally` that cancels what is below and waits for it.
The branches of `run_subagent` for its own 120 seconds and for Stop are not
reachable under the turn, whose timer is the shorter one and whose waiter is
first in line; they are left out.

Each module's header says what it leaves out.

### MCServices

The sixteen components above from `Feed` on share no state with one another, so
their product would only multiply states. `moving` picks one of them in the
initial state; the others stay as they start. Every interleaving inside a
component is explored, none between components that cannot notice each other.
What does connect components is in the module where it bites: the jobs a poll is
in `Feed` and `Catchup`, the settings row in `LlmClient`, turns at the other end
of the socket in `Companion`, the transcript under reconnects in `AgentTurn`, the
turn that stops a subagent in `Subagents`.

Some of its properties state what several components promise in the same words:
`EntriesStand` (Matrix, LlmClient), `StoresAgree` (Notes, Highlights,
ProjectMemory), `CallsEnd` (McpClient, Subagents) and `DraftsKept` (both
properties of Manuscript) are conjunctions of theirs.

## 3. Runs

### Passing

| Run | Instance | Shows |
|---|---|---|
| `sandbox_runs` | 2 experiments, 2 runs, 2 tokens, no server, broadcast and Docker faults, crashes | `TokenOneShot`: a token starts one container at most; `ConsentGate`: a container has a spent token of its experiment, spec and network; `RegistryHonest`: while an experiment has one run, the registry is right about it |
| `notebook_servers` | 1 experiment, 2 requests, 2 servers, 1 run, Docker and save faults, crashes | `ServerTracked`: no server is forgotten; `OneServer`: none has a twin; `CeilingStopsItsOwn` |
| `sandbox_liveness` | 1 of each, no faults | `RunningClears`, `LockReleased`, `ServerStops` under fairness |
| `agent_turns` | 2 turns of one text, 2 connects, 1 completion, 1 call each, broadcast faults, crashes | `SlotIsTask`, `TurnsDontInterleave`, `ToolRowsPaired`, `NewestIsRegistered`, `CompleteIsAnswered`, `OrphansAnswered` |
| `approvals` | 1 turn, 2 completions, 2 calls, 2 connects | `ImplementsConsent`: the loop implements `Consent`; under fairness `SlotFrees` |
| `paper_pipeline` | a paper with an open copy that cites one without, one failure, crash, hasty retry or early opening | `StatusHonest`: no stage runs ahead of its input, what is done left its output, a paper is indexed once unless its embedding was retried, a stub costs nothing; `NoSilentStall`: a stage whose turn it is has a job coming or the Library shows Retry, unless its job vanished; `NeverRegresses`; under fairness `Settles` |
| `services` | fifteen components of `MCServices`, 1.0 million states | see the next table |
| `services_live` | the pane; catch-up passes and calls to a provider | `PaneConsistent` (next table); `OverdueDispatched`: neither the cap of two nor rows that wait for a model starve a row; `CallReturns`: every call ends, under contention, retries, repairs and learnt budgets |

`services`, and `services_live` for `Companion`, by component:

| Component | Instance | Property |
|---|---|---|
| `Feed` | 2 papers, 2 polls, 2 ticks, 1 failure | `FeedComplete`: the cursor leaves no paper behind that is neither seen, nor in a poll's window, nor lost with a failed poll; only overlapping polls can clash |
| `InterestProfile` | 2 terms, 2 readers, 1 save | `AdditiveIfUndisturbed`: re-extraction only adds if nobody wrote since it read |
| `Catchup` | 2 projects, cap 2, 1 failed pass | `RepeatsNeedFailure`: a row is dispatched again only after a failed pass |
| `LlmClient` | 2 calls, 1 retry each, 1 saved key | `Paced`: paced starts are an interval apart; `EntriesStand` (its half): a saved key is undone only by a budget learnt across its commit |
| `McpClient` | 2 callers, 2 processes, 3 requests, 1 unread line, 2 skips | `CallsEnd` (its half): a call returns the answer to its own request |
| `Matrix` | 2 columns, 1 custom, 2 views, 2 edits | `EntriesStand` (the other half): a cell has one row and shows the last edit unless two requests raced |
| `SearchCache` | 2 tabs, 2 papers, pages of 1, 2 results | `ShownIsPrefix`: a view shows its pool's first rows, once each, unless it mixed results or a widen was overwritten |
| `CitationStream` | all texts of up to 5 tokens, deltas of up to 2 | `SplitsDontMatter`: what is shown, stored and cited does not depend on where deltas are cut |
| `VoicePlayback` | 2 holds, 3 turns, 2 sentences | `NoStaleAudio`: nothing said before a stop, or by another turn, is played after it |
| `Manuscript` | 2 drafts, 2 texts, 2 clicks, 1 failed request | `DraftsKept`: a draft holds only its own text, and the last one unless a PUT was overtaken or the tab dropped it; the PDF is of the text shown |
| `TabStack` | 3 pages, 2 moves, 1 lost PUT | `TabsKept`: address bar and stored stack keep what the screen shows, but for a flag left set and a late title |
| `Companion` | 2 projects, 3 sockets, 2 messages, 1 drop | `PaneConsistent`: one connection at a time; no entry joins two finished answers unless a switch found its socket reference cleared |
| `Notes` | 3 requests, 1 title, 2 bodies | `StoresAgree` (a third): a note's file is its row's, unless two writes of the path overlapped or an edit ended without its row; the next edit alone makes up for either |
| `Highlights` | 3 requests | `StoresAgree`: a highlight has its anchor and, if no write was cut off, its entry in the mirror |
| `ProjectMemory` | 1 note, 1 conversation, 3 jobs, 2 versions of a text | `StoresAgree`: a source is indexed once, and by its last text when its jobs are done, unless two jobs of it overlapped or nobody enqueued one |
| `Subagents` | 3 levels, 2 completions each | `CallsEnd` (the other half): a tool call that ended left no subagent running, no row speaks of an end that was not, and the row of one that returned is closed |

`TypeOK` is checked in `sandbox_runs`, `agent_turns`, `paper_pipeline` and, for
the components of `MCServices`, in `services`.

Several properties have the form "unless X happened". X is a behaviour the code
really has, in which the promise fails (`mixed`, `lost`, `raced`, `overtaken`,
`forgotten`, `skipped`, `stale`, `leaked`, `doubled`, `orphaned`, `loose`, `torn`,
`overlapped`, `behind`); it is
recorded by exactly the steps that cause it, so that the property says no other
path leads there. Section 5 lists those of them that a document contradicts.

### Disagreements

Each of these runs checks one property that states the sentence quoted in
`PROJECT.json`, "findings", and TLC finds it violated.

| Run | Promise | What happens |
|---|---|---|
| `never_both` | a measured run or a live server, never both | `run_all` checks, awaits several times and registers much later, without the lock that start holds |
| `sweep_live_turn` | a running trace with no answer is a dead turn | a reconnect during a turn closes the live turn, which then has two assistant rows |
| `edit_lost` | an edit made inside the debounce window is never lost | a click on the open draft's own row shows the body of the list; a second click stores it over the edit |
| `queue_stuck` | a queued message is flushed once connected | after a switch of project the old socket's late `onclose` clears the reference to the new one |

### Bounds

*Sandbox.* Two runs with two tokens are the least with which a token can be
replayed and a registry entry overwritten or popped by another run; two
experiments the least with which a token can be used for the wrong one. Two
servers with two requests give a stop or ceiling of an old server that meets a
new one.

*AgentTurn.* Two turns give a transcript that could interleave, a duplicate, and
a slot reserved again; two connects an eviction, a sweep beside a live turn and
two sweeps at once. One completion with one call takes every path of the loop
except "the next call" and "the next iteration", which `approvals` adds.
`MaxIterations` stands for the code's own cap, `MaxCalls` is a bound of the
model. Crashes are not bounded.

*PaperPipeline.* A paper and a reference give both outcomes of a fetch, a stub,
its promotion and a trace over both. `MaxLive` = 2 lets a stage be doubled;
`Concurrency` = 2 lets two handlers race. One disturbance at any point
(`MaxTrouble`) is followed by everything the code does about it, and by any
number of retries of stages that failed or have no job.

*Services.* Every instance has the two actors (polls, readers, calls, views,
tabs, drafts, projects) that its races need, and one failure, which is enough
for each "unless". `MaxResults` and `MaxSpawns` = 2 give a second result set and
a respawned server. `MaxLength` = 5 holds a span, what stands around it and a
delimiter cut in two; `MaxDelta` = 2 cuts everywhere. Three turns in
`VoicePlayback` are an old reply, the voice message that stops it, and the next;
three sockets in `Companion` a reconnect and a switch. `Interval` = 2 ticks
distinguishes too early from just in time. Three writers in `Notes` are two that
race and the edit that repairs (`Torn` is the content of a file cut off); three
jobs in `ProjectMemory` the same; `MaxVersions` = 2 gives a text that is behind.
`MaxDepth` = 3 has a level with a level above and one below; `MaxIterations` = 2
the last completion and one before. Larger instances of two
components (three holds in `VoicePlayback`, four sockets in `Companion`) were checked while the modules were written and showed nothing more.

Symmetry is used only where no liveness is checked. `CHECK_DEADLOCK FALSE`
appears where the system may be at rest: the bounded messages, connections,
clicks and requests are used up.

### Fairness

*Sandbox, AgentTurn.* Weak fairness of each run's steps, each request's and
ceiling's, each turn's and each connect's: asyncio runs every task that is
ready; the ceiling's sleep, the stream's idle timeout, the approval and the
dispatch timeout end; a container's log stream ends by its exit or by that
timeout. Nothing is assumed of humans, of the arrival of requests, of faults or
of a boot after a crash. The fault actions are absent from `sandbox_liveness`:
with a failed save a server really may never be stopped again (the ceiling fires
once), and with a broadcast that raises an experiment stays registered.

*PaperPipeline.* The worker takes queued jobs and their steps end; a request
that enqueued commits; the researcher presses a Retry that is shown. Failures
are bounded, not fair: `Settles` says what happens once they stop.

*Catchup.* The sidecar is launched again and again, and a pass that is not made
to fail is completed. *LlmClient.* Time passes, the lock is handed on in order,
a request to a provider ends (each has a timeout). No fairness of errors, of
cancellation or of the researcher's saves.

## 4. Proofs

For all values of the constants, `Spec => []P` (`Spec => P` for three
action properties and a refinement: `NeverRegresses`, `Paced`,
`AdditiveIfUndisturbed`, `ImplementsConsent`):

| Theorem | Module | P |
|---|---|---|
| `TypeCorrect` | `Sandbox_proof` | `TypeOK` |
| `TokensAreOneShot` | `Sandbox_proof` | `TokenOneShot` |
| `NothingRunsUnconfirmed` | `Sandbox_proof` | `ConsentGate` |
| `RegistryIsHonest` | `Sandbox_proof` | `RegistryHonest` |
| `ServersAreTracked` | `Sandbox_proof` | `ServerTracked` |
| `ServersHaveNoTwin` | `Sandbox_proof` | `OneServer` |
| `CeilingsStopTheirOwn` | `Sandbox_proof` | `CeilingStopsItsOwn` |
| `TypeCorrect` | `AgentTurn_proof` | `TypeOK` |
| `SlotIsAlwaysTask` | `AgentTurn_proof` | `SlotIsTask` |
| `CallsAreAnswered` | `AgentTurn_proof` | `ToolRowsPaired` |
| `RowsDontInterleave` | `AgentTurn_proof` | `TurnsDontInterleave` |
| `CompleteMeansAnswered` | `AgentTurn_proof` | `CompleteIsAnswered` |
| `NewestStaysRegistered` | `AgentTurn_proof` | `NewestIsRegistered` |
| `SweepAnswersOrphans` | `AgentTurn_proof` | `OrphansAnswered` |
| `GateIsImplemented` | `AgentTurn_proof` | `ImplementsConsent` |
| `TypeCorrect` | `PaperPipeline_proof` | `TypeOK` |
| `ColumnsAreHonest` | `PaperPipeline_proof` | `StatusHonest` |
| `StallsAreSeen` | `PaperPipeline_proof` | `NoSilentStall` |
| `DoneStaysDone` | `PaperPipeline_proof` | `NeverRegresses` |
| `EntriesOfUserStand` | `Services_proof` | `EntriesStand` |
| `StartsArePaced` | `Services_proof` | `Paced` |
| `NothingIsLeftBehind` | `Services_proof` | `FeedComplete` |
| `ReextractionOnlyAdds` | `Services_proof` | `AdditiveIfUndisturbed` |
| `RepeatsAreFailures` | `Services_proof` | `RepeatsNeedFailure` |
| `ViewsShowTheirPools` | `Services_proof` | `ShownIsPrefix` |
| `PaneIsConsistent` | `Companion_proof` | `PaneConsistent` |
| `DeltasMayComeInAnyPieces` | `Citations_proof` | `SplitsDontMatter` |
| `AudioIsCurrent` | `Interface_proof` | `NoStaleAudio` |
| `TabsAreKept` | `Interface_proof` | `TabsKept` |
| `DraftsAreKept` | `Interface_proof` | `DraftsKept` |
| `CallsAreEnded` | `Stores_proof` | `CallsEnd` |
| `WhatIsStoredAgrees` | `Stores_proof` | `StoresAgree` |

Assumptions, each evaluated by every run of a module that extends it:
`SandboxAssumption` (fault switches are Booleans, requests and servers are
disjoint, `None` and `Missing` stand outside the sets beside them),
`AgentTurnAssumption` and `PaperPipelineAssumption` (the same for theirs; bounds
are numbers), `NoRowAssumption` (the absence of a row is no row),
`ServicesAssumption` (bounds are numbers, a repair has no more retries than a
call, custom columns are columns, a subagent has an iteration),
`DraftsAssumption` (there is a first draft, `None` is no text and no save),
`NotesAssumption` (`None` is no row and no text) and `HomeAssumption` (the pane
opens with a project). None bounds a set: turns, connections, runs, papers,
requests, jobs and levels may be any number, and texts and deltas of any length.

Almost none of the properties is inductive. What each needs beside it:

*Consent gate.* What is known of a token must be known from the moment a job
spends it. `Consented` calls a run held from `launching` on: a held run's token
is spent and is of its experiment and spec (`HeldToken`), no two held runs have
one token (`HeldOnce`), the network is no wider than the spec (`HeldNetwork`). A
token leaves `valid` once; every step but `ConsumeToken` leaves spent tokens and
held requests alone (`TokensStay`, `HeldStay`).

*Registry of runs.* A run never takes back that it has touched the registry
(`Touched`), so a second run spoils the first one's entry only from its own
registration on. `Registry`: what an entry names has registered itself there; a
container is reaped after its exit and popped after its removal; the entry of a
run that no other has interfered with is its own from registration to pop and
empty after it. All steps but these two are one lemma (`Steady`).

*Servers.* `Serve`: a request past its first step holds the lock; one that saves,
writes or removes has the registered server in hand until the pop; what is in
hand or registered is up; an armed or woken ceiling is of the registered server.

*Turns.* `Typed` adds to `TypeOK` that who works on a call has one. A step of a
task is characterised once (`TurnMoves`, `RowsMove`, `TraceMoves`,
`PcMoves`), a step of a connection likewise (`ConnMoves`, `SweepRowsMove`), and
each later invariant is proved from these and not from forty actions.
`Written`: no rows before the user message; while a turn is active nothing of
another turn stands behind its rows; its rows are together; a call has its
result behind it. The UNIQUE key is what makes an append of a stale `base` fail.
`Ended`: who finishes as complete has its answer last, and still has when it is
done. `Registry` and `Sweeping`: who is served is registered or about to be
evicted by the one who is; a listed orphan stays without a task, and a sweep has
each of them in its list, in hand or answered.

*The gate's refinement.* Beside `Typed`: a future is answered only while it is
awaited, and yes only by a human (`FutureAnswered`); what is dispatched was
granted before any Stop that the loop remembers (`CallGranted`). Every step then
leaves the status of every request but one as it is (`Keeps`), and that one makes
a step of `Consent` or none.

*Papers.* `PipelineInv` speaks of one paper at a time, over the counts of its
jobs at their points: nothing is stored or coming for a stub (`Blank`); a job has
its input from before it is enqueued (`Fed`); chunks plus jobs that will add them
are at most one set (`Once`); a stage enqueued once has one job, and none when it
is done (`Single`); what is queued or running has its job or lost it
(`Unstalled`). A job's move from one point to the next is one lemma
(`JobGoes`, `HandsOn`), used by every stage. `NeverRegresses` follows from `Single`.

*Services.* A step of `MCServices` is for every component one of its own or none
(`StepOfEach`), so each component's invariant is proved from its own `Next`.
`MatrixInv`: rows are only added, so what an edit found is still there. `LlmInv`:
the bucket's queue holds each waiter once, its head sleeps what is left, and what
is left and what has passed make an interval; a budget is written back on a row
no older than the saved key. `FeedInv`: an item behind the cursor is handled or in
the window or the batch of a poll; a filtered batch is new but for another poll's
insert. `ProfileInv`: nobody wrote, so the profile is part of what was read.
`CatchupInv`: `late` holds each overdue row once, a row has been dispatched once
more than there were failures at most, and not more often than that while it is
late or has yet to be scheduled. `SearchInv` is, for each view: what it waits
for is neither what it shows nor what it asks more of (`Awaits`), and an answer on
its way, if nothing was mixed or lost, continues the rows shown (`Continues`).

*The pane.* `PaneInv`: the reference is to an unclosed socket of the current
effect, or cleared (`OneOfHook`); unless a switch found it cleared (`leaked`),
sockets of older effects say nothing any more (`OthersQuiet`). Then, in each
socket's queue, events come in the order of turns, the end of a turn last
(`InOrder`), and behind what the pane holds back; the pane has yet to be told
what they say (`Fits`). So nothing buffered is of a turn that ended, and an entry
ends with the turn of it that is complete (`Apart`).

*The citation stream.* An advance either meets a stop (a quote mark, markup) and
takes it, or passes all of the buffer but a tail that may yet become markup.
The arrival of more changes neither: a first stop stays the first one
(`StopThenMore`), a held tail is the same or longer (`QuietThenMore`), and what
was passed would have been passed later (`PassedBefore`). An advance shortens
what is left or blocks (`AdvanceEnds`), so chains of advances end, in one state
(`Chain`, `ChainSettles`, `ChainsAgree`), which is what `feed` computes
(`BlockedIs`). Hence feeding two deltas is feeding their concatenation
(`FeedTwice`), and the stream is at any time the feed of what came in one piece
(`StreamInv`).

*Induction.* The library states it over operators, which no prover here
instantiates; `Induction` states it over the set of numbers of which a claim
holds, from the well-foundedness of `<`. With it `Services_proof` shows that the
recursive functions behind `Among` exist and what they select, and
`Citations_proof` the same for the advances of `feed`.

*Interface.* `VoiceInv`: what is queued or about to be heard is of this epoch and
turn, or will be found out by the epoch it was started in. `ShellInv`: every stored
copy with the last number is what the screen shows, and the flag of a push is
taken by the effect behind it. `EditorInv`: every copy of a text stays with the draft
it was typed into; the editor and the timer hold the last text; for every draft
without a recorded loss there is a number from which on all PUTs carry that text
(`SavedFrom`); whoever awaits a compile compiled what is shown.

*Stores.* `NotesInv`: one row per path; a call alone with its path knows its row,
and its file once written; a call that is not has its path in `loose`; an
INSERT under way keeps others out. `MemoryInv`: a job alone with its source
deletes all of its chunks and has read the last text, or another job is to come;
the last text is indexed, under way, pending, or recorded as behind. `MirrorsInv`: who
is about to commit has its entry. `ResearchInv`: a task that waits for nothing
has nothing running below it; a running task has its `run_subagent` racing or
unwinding. `OwnAnswer` of `McpClient` is inductive.

*Only model-checked*: liveness (`RunningClears`, `LockReleased`, `ServerStops`,
`SlotFrees`, `Settles`, `OverdueDispatched`, `CallReturns`: fairness and ENABLED are
outside the prover) and `TypeOK` of `MCServices`, of which the proofs establish
the parts they need. The disagreements are counterexamples.

## 5. Found while modelling, without a run of its own

The models contain each of these behaviours; the first group contradicts a
sentence of the repository, the second is only surprising.

Contradicted sentences:

- a crash between the assistant row and `trace.finish` leaves a trace `running`
  that the sweep, which looks for turns without an assistant row, never closes
  (`resume.py:186`, `loop.py:783`); the sweep is documented to leave none;
- a retry within five seconds of a turn that failed is folded into it and never
  answered, although only a completed turn is said to absorb its duplicate
  (`loop.py:411`);
- `notebook_hash` is taken before the container starts, so it is not of the
  notebook "as executed" (`PLANNER/Schema.md:431`), and a token is minted for a
  spec computed then and bound to no notebook, so what runs may not be what the
  prompt displayed (`PLANNER/Rules.md:169-171`);
- an edit of a note "re-enqueues this job", says `memory/__init__.py:139-140`;
  PATCH, `save_note` and `update_note` enqueue nothing, so what is retrieved of an
  edited note is its text at the POST (`behind` in `ProjectMemory`);
- `run_subagent` "never raises: a timeout, an interruption, or an unexpected
  failure" come back as a result (`subagents.py:222`). A Stop or the tool call's 60
  seconds reach it as a `CancelledError`, which passes `trace.finish`: the
  subagent's row stays `running`; its own branches for the two cannot be taken;
- `deep_research` is said to hold `search_papers` and `query_memory` only
  (`tools/research.py:7-10`); the loop checks the kind of a tool and not the list, so a
  model may call `deep_research` from within itself, and `per_turn_budget` is
  enforced nowhere;
- `update_cell` overwrites the value an extraction stored, which
  `matrix/__init__.py:207-208` says it never does;
- `closeAllTabs` relies on "the empty-stack effect in AppShell.tsx" to reopen the
  Dashboard (`useTabStack.ts:74-76`), but that effect runs only when `loaded`
  changes; and the effect that is to resolve "a deep link opened directly" finds
  the flag of the one before it set, so the stored stack's tab wins
  (`AppShell.tsx:526`).

Surprising:

- a message queued before a switch goes to the other project, and a second
  queued message replaces the first (`CompanionPane.tsx:365`); a message sent
  right after `turn_complete` may be refused while `trace.finish` still holds
  the slot, and a reconnect mid-turn leaves the turn talking to a dead socket;
  in both cases the pane goes on showing Stop;
- a request resent with a learnt budget does not pass the rate limiter;
- a respawned MCP server gets a request before its handshake;
- a mirror file cut off in the middle of a write is no JSON any more: every later
  highlight of that paper fails, over HTTP with a 404, and in the tool with "not in
  this project" and an anchor committed for no highlight (`vault/__init__.py:288`);
- two chunking jobs of one source at once leave its chunks twice, or an older
  text's beside the newer, until a job runs alone (`memory/__init__.py:144`);
- two notes of one title created at once write one file, and only one has a row;
- a provider that leaves out tool call ids gets two different ones for one call
  in a subagent's messages (`subagents.py:167,174`);
- a compaction in the middle of a turn shows the model its current message twice
  (`loop.py:515`);
- a subagent's running trace is swept like a dead turn's (`subagents.py:238`).

## 6. Not modelled, and why

- *Context assembly.* A pure, budgeted concatenation. Compaction is modelled as
  the writer of a summary; that it makes the loop read the history again is not.
- *The sweep and subagents together.* `Subagents` has the trace rows and
  `AgentTurn` the sweep; that the sweep takes a subagent's row for a dead turn's
  (section 5) is in neither.
- *Other tools, skills.* Thin calls into the components modelled; a skill shapes
  the prompt.
- *Retrieval and ranking, parsing, prompts.* Numeric or textual functions of
  external models' answers, with no protocol in them.
- *External services.* LLM providers, paper sources and Docker are what the code
  may see of them: answers, errors, silence, start, exit and removal.
- *Projects, graph, conversations API.* Single-transaction create, read and
  delete operations.
- *Desktop shell.* It starts and stops the sidecar; `Boot` and `ProcessExits`
  stand for what it does to it.
- *HTTP MCP client, speech models, LaTeX compiler, views.* Stateless between
  calls, or rendering only.
- Within the components that are modelled, `PROJECT.json` names the operations
  left out of each.

## 7. What comes next

1. The type invariant of `MCServices` as a whole; the parts missing are those of
   `Feed`, `McpClient` and the React hooks that no safety property rests on.
2. The sweep and `Subagents` in one composition, so that a subagent's row taken
   for a dead turn's (section 5) is a behaviour of a model.
