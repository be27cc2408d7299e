# Specifications of codeloom.engine

TLA+ models, TLC runs and TLAPS proofs about the engine: an asyncio program that
drives one orchestrating language-model agent, the child agents it spawns, and the
clients connected over a socket. Lines are those of the sources under `src/`.

## The system and its parts

| Component | State | Operations | Modelled in |
|---|---|---|---|
| `EngineSession` (`runtime/session.py`), commands `lifecycle.py` | session id, bound orchestrator, turn task, abort flag, queues `_pending_user` and `_inbox` | StartSession, SubmitUserMessage, AbortAgent, Shutdown, end of a turn, report of a child | `Session` |
| the same with `server.py`, `store/sqlite.py`, `store/state.py`, `clients/tui.py` | messages, replay task and its generation, the stored session, the client's chat | add and save a message, snapshot, replay, load, close, crash | `Connection` |
| `Subscriber` (`runtime/subscriber.py`) | bounded queue per client, byte counter, drop counter | put, evict, collapse, get | `Subscriber`, `Channel` |
| `PromptBroker` (`runtime/prompts.py`), `agents/prompter.py` | ask lock, futures, question on screen; interview | ask, answer, timeout, cancel_agent, cancel_all | `Prompts`, `Interview` |
| `Orchestrator` (`agents/orchestrator.py`) | child tasks, verification gate (`_verifying`, `_verify_owner`), last coder, unverified changes, survey counters | spawn, `_run_child`, `_start_verification`, abort of a child or of all | `Orchestrator` |
| Agent loop and compactor (`agents/agent_loop.py`, `compactor.py`) | history, truncation marker, ceilings, nudges | rounds of model call and tool calls, compaction, continuation, abort | `AgentLoop`, `Compactor` |
| Child agent (`agents/subagent.py`, `diagnostics.py`) | tools called, files touched, diagnoses | parallel calls, finish gate, report | `Subagent` |
| Judge (`runtime/judge_decisions.py` and its call sites) | none | decisions from a verdict | `Judge` |
| Write funnel (`runtime/tools/edits.py`, `store/edits.py`) | files, tracker digests, edit journal | edit, workspace edit, rollback, mkdir, delete, rename, undo | `WriteFunnel`, `TextEdits` |
| Language servers (`runtime/tools/lsp.py`) | client, open document, version, sent text, diagnostics | warm start, open, change, sync, diagnose, ask, shutdown | `Lsp` |
| MCP manager (`runtime/mcp/manager.py`) | per server status, session, cooling | start, call, reconnect, resources, restart, reload, aclose | `Mcp` |
| Commands and managed server (`runtime/tools/shell.py`, `server.py`) | processes and their groups, `_servers`, `_live_procs` | run, start, wait until ready, replace, stop, kill, sweep | `Processes` |
| Project memory (`runtime/store/memory.py`) | notes of files with their hashes, decisions | read and edit marks, remember, ingest, seed, render, prune | `WorkspaceMemory` |
| LLM provider (`llm/openrouter.py`, `provider.py`) | none | assembly of a stream, usage and cost, cache breakpoints | `Llm` |

How they interact. A client's command is handled by the session. A user message goes
to the question on screen if there is one (`Prompts`), else starts a turn or joins the
queue (`Session`). A turn runs the orchestrator, whose tool calls spawn children
(`Orchestrator`). Each child is an agent loop (`AgentLoop`) whose parallel calls (`Subagent`)
edit files through the write funnel (`WriteFunnel`), are diagnosed by the language server
(`Lsp`), run commands (`Processes`), call MCP servers (`Mcp`) and read and write the project
memory (`WorkspaceMemory`); the judge is asked before and after a call (`Judge`). A child that
ends posts its report to the session's inbox, which starts a turn. Children ask the user
through the one `PromptBroker`. Everything any of them emits goes to every client's
`Subscriber`, and the chat among it to the client's panel (`Connection`). All tasks share one
event loop: a step of the models is what happens between two awaits, and what makes the
program hard is what may happen at an await: another task's step, a cancellation, a timeout.
Only the language server is used by threads; there a step is what a lock or one message covers.

What each component promises:

* Session: one turn at a time; messages answered in order, none lost; no report twice;
  an abort silences its own turn only; "idle" shown only when nothing runs; nothing left
  waiting beside an idle orchestrator.
* Connection: a client that was told of no loss reads one history, the right one; the messages
  it shows are stored, but those whose save failed or that had no session to be saved to.
* Subscriber: exact books; full events are lost last and never silently; no lost wake-up.
* Prompts: one question at a time; the one on the screen is the one waited for; every
  question ends and the queue moves on.
* Orchestrator: one coder on the shared checkout, none while an earlier coder's edits are
  being verified (testers, which write too, may be spawned beside a coder); the gate always opens
  again; edits that were noted stay on the books until a complete verification was started; the
  user is told of those that are not; budget and survey caps.
* Agent loop: the provider never gets a tool call without its result or the reverse;
  compaction keeps the last exchange; the ceilings hold over every kind of grant.
* Child: an ok report means that everything in its books was diagnosed clean after its last edit,
  but for a diagnosis that an edit overtook and for a batch it undid.
* Judge: a worse verdict never gets more through; a verdict lifts no refusal of the denylist.
* Write funnel: undo restores what the newest batch replaced and nothing else; a batch that
  fails with an error of the disk leaves no trace, as far as the disk lets the rollback write
  and the journal's window reaches; no agent overwrites bytes it has not seen.
* Language servers: the books agree with what the server has read; no server is left; an
  operation ends unless the server lives and reads no more.
* MCP: nobody finds a closed session in the books, no connection is left, every call ends or is
  held in one wait for the server, none of which has a timeout.
* Processes: one managed server; no process escapes the session that started it.
* Memory: a note changes only when an agent writes about its file; a report leaves fresh notes
  alone; the newest decisions stay.

## Modules

**`Channel`, `Subscriber`.** `Channel` is what a client's queue promises, whatever the sizes
of events and the order of eviction: streaming events may disappear, another one only when
every slot is taken by its like, leaving a notice. `Subscriber` is the class: `items`, `bytes`,
`dropped`, `overflowed`, `wakeup` are its fields; `PutDelta` and `PutFull` are `put()` with
eviction (`Evicted`, `Without`) and `_collapse_overflow`; `Get` includes
`_maybe_note_recovery`; `Block` is the wait on an empty queue. `delivered` and `gap` are
history variables. `ImplementsChannel` is the refinement: `items` without the sizes is the
channel's queue, `dropped > 0` its `behind`.

**`Connection`** extends `Channel` with the session's chat: a step emits its events to the
client's queue before anybody else runs (`out`), so a crash falls between steps.
`AddMessage` shows and then saves; `AddUnsaved` is the message of a turn that is cancelled after the
session was closed under it (`ending`), which is shown, and which `_persist` passes over since
there is no session; `RequestSnapshot`, `Bound` and `CloseSession` emit a snapshot,
each of them cancelling the replay under way (`CancelReplay`); `Replay` is a slice of
`_replay_history`. `view` is the client's panel since the last replay began, with `lossy` for
a client that was told of a loss. A save may fail, or there is nowhere to save to (`atRisk`);
a crash keeps what is stored.

**`Session`.** A turn is an entry of `turns`; its phase tells a task that was created from
one that has run, since a task cancelled in between never runs (`TurnVanishes`).
`Finally` is the finally clause of `_run_turn` with `_maybe_pump`; `SwallowAbort` is the
cancellation that `apply_named_worktree` suppresses. `StartSession` and `Bound` are the two
halves of `start_session`, before and after `_bind_loop`; `ShutdownBegins`,
`ShutdownAbortsChildren`, `ShutdownEnds` are `aclose()` between its awaits. The children are
reduced to live, aborted, done and the orchestrator they belong to.

**`Prompts`, `Interview`.** An asker is idle, queued on `_ask_lock`, or in `_ask_one`. A lock that
is released goes to the first of its queue, who takes it in a step of its own; a newcomer
overtakes only waiters that were cancelled. Futures are resolved by `AnswerPrompt`, by `SubmitUserMessage`, by the timer (`Expire`), by
`AbortChild` and `CancelAll`; only `Resume`, a later step of the asker, takes the question off
the screen. The races lie between the two. Both behaviours of `asyncio.wait_for` (3.10 and
3.12) are allowed. `Interview` is the prompter that asks through the broker, as functions of
the fates of its questions and the lines of its reply.

**`Orchestrator`.** A child's `phase` is how far `_run_child` has come: created, running,
finishing (compression), closing (browser page), judging (merge gate), then done, or
lost when a cancellation strikes outside every try block. `Write` is an edit on the disk and
`Record` the `record_edit` that follows the wait for the language server; an abort between the
two leaves an edit in no book (`wrote` without `touched`). `SpawnCoder`, `SpawnVerifier`,
`SpawnAsk` are `spawn()`, which never suspends; `Finish` is everything from the end of the
compression to the next await, among it the notes of unverified edits and
`_release_verifier`; `CloseAndVerify` is `_start_verification` with all its refusals;
`Report` posts the report and may start a turn. `UserMessage`, `EndTurn`, `BreakTurn` and
`AnswerDirectly`, the turn that `_maybe_route_turn` answers without `run()` and so without the
notice, stand for the session. Actions not modelled change nothing the properties see: a
refused spawn (its only effect, the spent survey retry, is kept), researchers
and debuggers, `_survey_closed`, worktrees of older versions.

**`Compactor`, `AgentLoop`.** A message is its role and the ids of the calls it opens or
answers. `Compactions(h)` is the set of histories `compact()` may make of `h`: which groups go
depends on token counts and on the judge. `AgentLoop` is `run()`: `pc` is the await at which
it stands, `history`, `marker` and the counters are the fields. `Execute` appends the results
of one call each, `Dispatched` ends the round, `Round` nudges, asks the judge or goes on,
`ReplyCutoff` and `ReplyText` are the two ways without calls, `Continue` the user's grant,
`Overflow` the one retry, `Abort` and `Fail` truncate to the marker. `tainted` is history: a run
that compacted and was then cut short.

**`Subagent`** extends `Judge`. The calls of one reply go through the stages verify (judge),
run, settle (an edit waits for the language server under the write lock), read (a diagnosis is in
its thread) and screen, side by side. `Write` to `Recorded` is `apply_edit` and `record_edit`,
which forgets the diagnosis of the file; `UndoLast` is `undo_last`, which takes no lock, changes
every file of its batch and records the last (`untold` are the others); `Diagnose` and `Diagnosed`
are `get_diagnostics` before and after its await, so that an edit may fall between the
reading of the file and the booking of the verdict (`behind`, then `raced`); `ReplyText` is the finish
gate with its nudges; `Compressed` the status a report may get. `written` and `fresh` are
history: what was changed on the disk, and what was diagnosed since.

**`Judge`** holds the decision functions over verdicts in hundredths: commands, tool calls,
screening of results, reranking, diagnostics, extension of a run, the merge gate, briefs.

**`WriteFunnel`, `TextEdits`.** `disk` is a tree of files and directories, `tracker` the
`FileTracker` of each child, `batch` the newest batch of the journal: `last_batch` and the
rollback read nothing older. The write core never awaits, so a write is one step; `Outside` is
the shell or the user's editor, and also a lone write of the engine whose record a crash or a
journal error kept from the journal. `EditText`, `Create`, `WorkspaceEdit` are `_prepare` and
`_commit`; `WorkspaceFails` ends in `_rollback_committed`, which may fail for any of the files and passes over
it (`RolledBack`, `stuck`); `WorkspaceHalts`, an error of the journal within the batch, and
`WorkspaceDies` do not. `MkdirPath`,
`DeletePath`, `RenamePath` are the user's commands, which consult no tracker. `Undo` checks
every record (`Verified`) and folds `Revert` over the batch from its end, as `undo_last_sync`
does; `UndoStops` is an undo that an exception or a crash ends between two records. As in
the code, b"" in a record stands for an empty file and for a directory. `seen`, `base`, `left`
and `latest` are history variables. `seen` is kept apart from `tracker` so that a tracker shared by
mistake is noticed. `TextEdits` is what the tools make of a text: replacement of a string, of
lines, unified diffs and their hunks with fuzz, edits of the language server.

**`Lsp`.** Threads with one operation each on one document, after which they stop: open it, send a
change, check whether the disk is newer, diagnose, ask. The document may have been opened by the
warm start before. `inbox` is the pipe to the server, what it has not read; when `Pipe` messages are
in it, writing waits (`Stalled`), without a timeout and with the locks held. `doc` is what the
server has read; contents are numbered in the order they were on the disk. `Lock` to `Unlock` is the
document lock, `Client` and `Initialized` the start of the server under its own lock;
`ServerDies`, `TimedOut`, `Fails` and `Close`, `TakeClients`, `StopClients` (`shutdown_all`) may
fall between any two steps.

**`Mcp`.** Tasks of agents call a tool or read a resource, tasks of clients restart the
server (`complete_mcp_auth`) or replace the manager (`reload_integrations`); each suspends while
a connection is opened, initialized, used or closed (`Served`), while it is asked for approval or
between two attempts (`Timed`). `Cancel` is an abort of a child, and `aclose` cancelling the tasks
that ask for a token (`auth`). `session` is the connection in the books,
`conns` those that are open, `lost` those that no manager will close. `Attempt` to `Slept` is
`_reconnect_with_backoff`, `Cooled` the end of the cooling.

**`Processes`** extends `Judge`. A task makes one call and is the name of the group it starts: a
leader that may ignore SIGTERM, and kin that hold its pipes and may outlive it. `Approve` is the
judge or the user, `TakeOut` to `PortClosed` is `_stop_locked` with `_kill_group`, `AbortRunning` an
abort of a running command, `AbortElsewhere` one at any other await; `Aclose` and
`CloseSession` are the two ways a session ends, `Sweep` its `_kill_live_procs`.

**`WorkspaceMemory`.** A version is the content of a file and its hash. A note has the hash it was
written under (`sha`) and the versions that its words are about, in the fields that a report
replaces (`about`) and in the field `note`, which it keeps. `Read`, `Edit` mark a note as used,
`RememberFile` and `Remembered` are the tool before and after it waits for the lock, which merges
with the older fields, `Finish` is `ingest_result`, `Seed` a controller's memory as `_sanitize`
leaves it: any number of notes and decisions, with or without hash and words; `Render` the prompt that drops notes of
files that are gone, `Crash` a write that was cut short. Every `Save` prunes.

**`Llm`** assembles a stream of chunks into text, calls and usage, fills a missing cost, and
places the cache breakpoints.

**`Removal`** is what is left of a sequence when some of its places are taken out, in the order
it had; `Subscriber` and `Channel` evict with it.

**`OrchestratorProofs`, `SubscriberProofs`, `SessionProofs`, `PromptsProofs`, `AgentLoopProofs`,
`WorkspaceProofs`, `LspProofs`, `ListLemmas`.** Theorems, below. Some of them are about two or
three components; so that one module can extend them all, the definitions of `Connection`, `Mcp`,
`Processes`, `WorkspaceMemory` and `WriteFunnel` that every specification has carry the
component's name: `ConnectionInit`, `McpNext`, `FunnelSpec`.

The operators whose comment begins with "Mutant of" are not part of the specifications:
each is a plausible bug of the definition it precedes and shows that a property notices it.

## Runs

| Run | Instance | Shows |
|---|---|---|
| `subscriber` | 3 items, 6 bytes, sizes 1 and 3, 6 events | `QueueSound`, `ImplementsChannel` (refinement), `EveryFullEventSettles` (liveness) |
| `connection` | queue of 3, 2 messages, 2 sessions, 1 StartSession binding, 2 snapshots, 1 other event | `HistoryTrue`, `ShownIsStored` |
| `session` | 1 child, 3 messages, 2 sessions | `PumpExact`, `StatusTrue`, `WaitingEnds` (liveness) |
| `prompts` | 3 askers, 3 questions, 1 message | `BrokerExact`, `EveryAskEnds` (liveness); evaluates `InterviewChecked` |
| `orchestrator` | 3 agents, budget 3, one ask | `CodersApart`, `EditsNeverForgotten`, `QuietMeansAnnounced`, `GateHeldByLive`, `AsksBounded` |
| `agent_loop` | every limit 1, 2 calls in a round, 1 restored exchange | `HistoryKept`, `BudgetHolds`; evaluates `LlmChecked` |
| `subagent` | 2 files, 2 calls in a round, 2 rounds, 1 nudge | `ReportTrue`, `ChildEnds` (liveness) |
| `write_funnel` | 2 agents, 4 paths, 2 texts and the empty one, batches of 2, 4 steps | `UndoTakesBackItsBatch`, `AllOrNothing`, `NoBlindEdit`; evaluates `TextEditsChecked` |
| `lsp` | 2 threads, contents 0 to 2 | `ServerInStep`, `OperationsEnd` (liveness) |
| `mcp` | 2 calls, 1 command, 2 attempts, 2 connections opened | `ConnectionsKept`, `CallsEnd` (liveness) |
| `processes` | 2 tasks and the closing of the session | `ProcessesKept`, `CallsEnd` (liveness) |
| `workspace_memory` | 2 agents, 2 files, 2 contents, caps 1, 2 decisions | `NotesHold` (action property), `NewestDecisions` |

Four more configurations are kept beside these runs. Each checks what a document says and the code
does not keep, and TLC answers it with a counterexample:

| Configuration | Module | Shows |
|---|---|---|
| `OrchestratorWrites.cfg` | `MCOrchestrator` | not `WritesAreOnTheBooks`: a coder aborted while its edit waits for the language server leaves an edit that nobody is told of |
| `SubagentFinished.cfg` | `Subagent` | not `FinishedMeansClean`: a coder reports ok on a file that was not diagnosed after its last change |
| `WriteFunnelAtomic.cfg` | `MCWriteFunnel` | not `BatchesAreAtomic`: a failed batch stays half written |
| `WorkspaceMemoryStale.cfg` | `MCWorkspaceMemory` | not `StaleIsRewritten`: old words of a STALE note are carried under the new hash |

Every run but `subscriber` and `mcp` also checks the type invariant (`TypeOK`, or
`ConnectionTypeOK`, `FunnelTypeOK`, `ProcessesTypeOK`, `MemoryTypeOK`); in these two it is a part
of `QueueSound` and of `ConnectionsKept`. Deadlock is not checked anywhere: an engine whose clients
send nothing more rests, and every bound on an instance stops the behaviour.

What is pure is evaluated, for every small input, by named assumptions of the MC modules:
`TextEditsChecked` (a diff the tools show applies and yields the new text; fuzz follows a drift;
lines beside an edit stay whole; edits apart act at once), `LlmChecked` (parallel calls are not
mixed, usage is counted once, breakpoints advance) and `InterviewChecked` (three questions at
most; no brief invented for an unanswered one). They compare the operators with what the tools
are for, not with a second copy of the code.

Bounds and why they are enough.

* `subscriber`, `connection`: three items with two sizes reach the item ceiling, the byte
  ceiling, eviction of several small events for a large one, two collapses in a row and the
  recovery warning; six events let all of them follow each other. In `connection` the queue
  of three is smaller than a snapshot with the history of two messages and what is said
  meanwhile, so that losses happen; two sessions and two snapshots are a replay and what cuts it.
* `orchestrator`: a coder with its reviewer and tester, two coders in a row with a verifier
  between, or three asks (one over the cap and its retry); ids are used once, so the bound is
  on spawns in a behaviour, and the proofs lift it. `AsksApart`: asks are not mixed with other
  profiles, with which they share the budget, the inbox and the turn only. Three children
  cannot exceed the budget of three; `BudgetRespected` is proved instead (`BudgetKept`).
* `session`: one message that runs, one that waits and one that could overtake; one session
  that is left behind or closed and its successor. `prompts`: one question and two behind it.
* `agent_loop`: every grant, cutoff, nudge and shrink happens once, and each of them beside
  each other but the user's grant and the judge's (`OneGrant`), which only make a run longer.
  The bound on completions adds the limits up, so one that is not counted exceeds it.
* `subagent`: two parallel calls are an edit beside a diagnosis, of one file or of two; two
  rounds are an edit after a clean diagnosis; one nudge is used up.
* `write_funnel`: two top-level names may be files or directories with one entry, enough to
  move a directory with its content and to create a file with its parent; the rollback looks
  back one record (`RecentLimit`, 50 in the code), so that batches within and beyond its
  reach both occur; four steps are an edit, its undo, the undo of that and once more, or a
  read, a foreign write, an edit and an undo.
* `lsp`: two threads that open, or change, at once, or one that has the lock and one that waits
  for it; each does one operation. A pipe that holds one message is full at once.
* `mcp`: two calls on one connection and a command that replaces it; a second attempt of a
  reconnect. A connection beyond the bound fails as a server that does not start.
* `processes`: a server and the one that replaces it, or a command beside either, or a stop.
* `workspace_memory`: with caps of one, each save prunes; `OneOfAKind`: two agents of one profile
  differ in nothing; `OneFileRead`: an agent knows one file at a time; `DecisionsApart`: decisions
  beside those of the reports are made or seeded, one more than the cap, while there are no notes,
  since a save treats the two apart. A seed comes while no agent has read anything; a `remember` may
  be under way.

Agents, texts and files that are only compared with each other are symmetric in
`orchestrator`, `write_funnel` and `workspace_memory`, which check no liveness.

Fairness. The event loop runs every task that can run, so its steps are weakly fair: the turn
(`Session`), askers and timers (`Prompts`), the client's reads (`Subscriber`), the calls and
the end of a child (`Subagent`), the closing and every task of `Processes`, child tasks
(`Orchestrator`). In `Mcp` only the backoff, the approval prompt and the steps between two
awaits are fair (`Timed`): opening a connection, initializing, calling and closing wait for the
server without a timeout, so `CallsEnd` says that a call ends or stays in one such wait. In `Lsp` threads
and `shutdown_all` are fair; the server is not, neither its reading nor its answers: a request
times out, but a write to a full pipe waits, and `OperationsEnd` excepts what a server holds that
lives and reads no more (`Held`). A completion comes or fails, since a request has a timeout; an
agent's run ends because its rounds have a ceiling. A managed server's start and stop end by their
timeouts; a command has none of its own that bounds its relatives, and `CallsEnd` of
`Processes` leaves commands out. Nothing is assumed of users, of the content of answers, of aborts,
of the starting and the dying of servers. A client that stops reading is outside `EveryFullEventSettles`.

## What the code does otherwise than its documents say

These were met while the models were written; the properties except just these cases. The first
four have configurations of their own, above.

* `README.md:238` promises an explicit notice for what a coder leaves unfinished. An edit is written
  (`edits.py:777`), waits for the language server (`:782`) and is recorded afterwards (`:783`): aborted
  at that await, it is in no book (`WritesAreOnTheBooks`). `EditsNeverForgotten` is about edits
  that were recorded. What a coder writes by `run_command` is never recorded.
* `tools/lsp.py:148`: "a coder is not finished until this returns no Error diagnostics on every
  changed file after the last edit". The verdict is booked after the await of its thread
  (`agent_loop.py:1011`), also when an edit was recorded meanwhile; and `undo_last`, outside the
  write lock, records only the last file of its batch (`edits.py:1064`) (`FinishedMeansClean`).
  `ReportTrue` excepts these two.
* `docs/write-funnel.md:93`: "Multi-file batches are all-or-nothing". A restore that raises `OSError`,
  as on the full disk that made the commit fail, is passed over (`edits.py:845`), and an
  `sqlite3.Error` is not caught at `:817` (`BatchesAreAtomic`). `AllOrNothing` excepts the files
  whose restore failed and is not about errors of the journal.
* `docs/adding-a-profile.md:226`: "STALE notes are rewritten from the briefing". The field `note`
  is kept and gets the new hash (`memory.py:439`) (`StaleIsRewritten`). In the same way `remember`
  merges older fields into its entry (`:419`), and a seeded entry without a hash is shown as fresh
  (`:599`). `NotesHold` therefore says who changes a note, not that a fresh note is true.
* `README.md:238` again: a turn that `_maybe_route_turn` answers (`session.py:489`) carries no notice.
  `QuietMeansAnnounced` holds all the same: what is unverified came with a report, and the turn about
  that report goes to the model.
* `_add_message` shows a message also when there is no session to save it to (`session.py:420`,
  `:1535`). `ShownIsStored` excepts it.

* `subscriber.py:219-224`: the warning "dropped n streaming events ...; full message text was
  not affected" also follows a collapse that lost full events.
* `README.md:230` promises every finished child's report; an abort that arrives at
  `orchestrator.py:905` or `:921` ends the task without report or `AgentFinished`. `GateHeldByLive`
  and `EditsNeverForgotten` hold all the same; `QuietMeansAnnounced` excepts it.
* `docs/protocol.md:23` promises that a queued message is played; when the turn before it is
  aborted before its first step (`session.py:372`), it waits until something else starts a turn.
  `PumpExact` (its parts `NothingStranded`, `InOrder`) and `WaitingEnds` except it.
* `README.md:261` promises that shutdown aborts every child; those of an orchestrator replaced by
  a second StartSession (`lifecycle.py:60`) go on.
* `docs/protocol.md:23` again: a message that arrives between the settling of a question and the
  step that takes it off the screen is dropped without an error (`lifecycle.py:97`,
  `prompts.py:120-125`).
* `docs/write-funnel.md:78` and `:85` call undo exact; the undo of deleting or renaming an empty file
  makes a directory of its name (`edits.py:993`). `UndoTakesBackItsBatch` excepts batches that
  delete or rename b"", and claims the directories only when the batch is not itself an undo,
  whose records do not list those it made (`edits.py:1031`). `AllOrNothing` holds as far as the
  rollback looks back. A batch that was rolled back stays the newest of the journal, so undo
  refuses until the next edit.
* `README.md:263`: an abort puts the history back to the marker of the run. After a compaction the
  marker is stale (`agent_loop.py:617`): the truncation may take too little or split a call from
  its results, and the next dispatch raises "history pairing broken" (`:992`). `HistoryKept` excepts
  runs that compacted and were then cut short.
* `compactor.py:590` says "keep first system and the last exchange"; a last user message that is
  the first of the history is folded into the summary.
* `docs/archive/impl-plans/mcp-and-skills.md:141`: a server that is still dead after the backoff
  cools. `_ensure_call` catches no error of the reconnection itself (`manager.py:468`, `:474`), so a
  server that cannot be reached never cools and every call goes through the backoff again;
  only one that reconnects and then fails the call does (`Slept`, `Answer`).
* `lsp.py:526-529` wants no report of an older text taken for one of the newer; reports carry no
  version, so a late one is (`lsp.py:439`, `:693`).
* `docs/adding-a-tool.md:188` says that a timeout kills the whole tree; a group whose leader is gone
  is not found (`shell.py:219-247`), and its relatives go on.
* `README.md:335` and `docs/adding-a-profile.md:225`: a note ingested at the end of a child carries
  the hash of that moment, not of the text the child read (`memory.py`, `_disk_sha`); one that is
  remembered, the hash of before the wait for the lock.

`GateHeldByLive` excepts a session that is being closed. That the gate opens again is stated by it
as a safety property: whoever holds the gate is a task that still runs and releases it at its end. `ReportTrue` excepts, of the cards of
calls that must close, the calls that the judge refuses or that are aborted while it looks at
them. `ConnectionsKept` counts apart the connections the manager loses: one overwritten by another
task's, one whose initialize failed, one opened for a manager replaced meanwhile, one whose close
was aborted. `ShownIsStored` excepts messages whose save failed or was passed over.

## Proofs

Each theorem is one of its component's specification, for every value of the constants that the
component's assumption allows: any finite set of ids, any set of tasks, threads, children or files,
any limit. An invariant is seldom inductive; each module states one that is (`IInv`), proves
`Init => IInv` and `IInv /\ [Next]_vars => IInv'` action by action, and derives the properties
from it. Every one of them also holds on the instance of the component's run.

| Module | Proved of every behaviour |
|---|---|
| `OrchestratorProofs` | `TypeOK`, `OneLiveCoder`, `GateOfCurrentCoder`, `CodersApart`, `GateHeldByLive`, `EditsNeverForgotten`, `QuietMeansAnnounced`, `BudgetRespected`, `AsksBounded` |
| `SubscriberProofs` | `QueueSound`, `ImplementsChannel` (refinement); of `Connection` `ConnectionTypeOK`, `ShownIsStored`, `HistoryTrue` |
| `SessionProofs` | `TypeOK`, `PumpExact`, `StatusTrue`; of `WorkspaceMemory` `MemoryTypeOK`, `NewestDecisions`, `NotesHold` |
| `PromptsProofs` | `TypeOK`, `BrokerExact`; of `Mcp` `ConnectionsKept` |
| `AgentLoopProofs` | `TypeOK`, `HistoryKept`, `BudgetHolds` |
| `WorkspaceProofs` | of `Subagent` `TypeOK`, `ReportTrue`; of `Processes` `ProcessesTypeOK`, `ProcessesKept`; of `WriteFunnel` `FunnelTypeOK`, `UndoTakesBackItsBatch`, `NoBlindEdit`, `AllOrNothing` |
| `LspProofs` | `TypeOK`, `ServerInStep` |

`ListLemmas` has what the others need of lists, with the one induction the provers can do, over
sets of numbers (`LeastNumber`, `AllNumbers`: a set of numbers that is not empty has a least one).
What a removal leaves keeps its order and loses nothing else (`ButPlaces` and its relatives). A
fold is a function on the sets of places of its list (`FoldExists`); what holds at its start and
is kept by one step of it holds at its end (`FoldKeeps`, `FoldTyped`, `NumbersUpTo`). With these the proofs reach
the folds of undo, of ingestion, of pruning and of the chat, for lists of any length.

`OrchestratorProofs`. The inductive invariant adds what the properties rest on:

* The gate. `_verify_owner` is the inverse of `_verifying` (`MapsAgree`), so that a closed
  gate has a holder; a live coder is always `_last_coder_id` (`LiveCoderIsLast`), which is
  what a verifier spawned by the model adopts; holders are verifiers that have not been
  through `finish()` (`HoldersAreVerifiers`), which needs that only closing the session
  cancels a task before its first step (`CancelledEarly`). `OneLiveCoder` follows from
  `LiveCoderIsLast` alone: two live coders would both be the last one.
* The edits. Only coders that have begun to run edit, and what is noted was written
  (`EditorsAreCoders`), and a coder whose
  verification may still start carries every unverified edit of the checkout in its report
  (`ReportIsComplete`), so that clearing the list loses none. This holds since no other
  coder finishes meanwhile, and so uses the gate's part.
* `QuietMeansAnnounced` (`UserIsTold`): whatever ends a turn or a child leaves something behind that
  will tell the user, a report, the turn about one or another child, or leaves no unverified edits.
  A turn of the user's is not enough, since it may be answered without the model
  (`UntoldIsOnItsWay`, `QuietStep`).
* `RetryPaysForAsk`: the ask above the cap is paid by the retry.
* The budget: actions that start children tested it for as many as they start
  (`NewLives`), all others start none (`NoNewLives`).

`SubscriberProofs`. `QueueSound` is inductive with `KindsKept`: an event keeps its kind in the queue, so
that no eviction takes a full one. The lemmas about `TotalSize` are instances of the induction in
`ListLemmas`. The refinement maps the queue to its events without
their sizes: an eviction followed by an append is one `PutStreaming` or `Put` of the channel,
a collapse the `Put` that leaves a notice, a read with its recovery warning one `Take`.

Its second part is about `Connection`, which knows the queue as a `Channel`. `ShownIsStored` needs
`StoredInv`: every message on its way to the client, in the session, a running replay, the events
of the step (`out`), the queue or the page, is saved or at risk (`WaySafe`); each action saves what
it adds, or counts it as not saved, before it emits it, and neither the queue (`Joins`) nor the page makes up an
event. `HistoryTrue` needs `HistoryInv`, about what the client is going to have. A `Path` is the
list of pages that the client goes through as it reads a list of events, and `Reaches(p, g)` says
that the queue takes the client's page to `p` and the rest of the step takes that to `g`. The last
page, `g`, is true to the session (`PageTrue`): it is torn, or it has what the replay under way
has emitted so far, and with the rest of the replay, or without one, all messages of the session
if it is of that session (`HasReplayed`, `HasMessages`). What the session does extends the path by
a page that is true again (`AddMessageGoes`, `ReplayGoes`, `SnapshotGoes`, ...); what the queue
does to the path (`EmitReaches`, `ReceiveReaches`) leaves its end alone or tears it: a streaming
event turns no page, so its eviction leaves a path, and a notice tears whatever comes after it. A
new session has a number no page has (`StoredFirst`). `TranscriptTrue` then reads the path backwards:
when no page begins on the way, the last page is the client's with the messages added (`PageShowsAdded`).

`SessionProofs`. The status rests on `AbortAgrees`: while a turn is under way, `_aborting` says whether
an abort was asked for it. The pump rests on `WaitingInOrder` (the queue lies behind every message
begun), `ReportersDone` (a report is of a child that will not report again) and `ClosedIsEmpty`.
Every action is first shown to do one of six things with the work that is queued (`WorkStep`: it
idles, a report or a message joins, a message is begun, the pump begins one, the session is
dropped), and the three parts are proved of these. Its second part is about `WorkspaceMemory`: what a
section keeps is the end of all decisions made, all of them or as many as the cap allows, or more
while a seed was not saved over (`KeptOf`, `MemoryInv`). Pruning keeps this (`PruningKeeps`); an appended
decision is the same as the last of the section if and only if it is the same as the last of all,
but for a section with a cap of zero (`DecisionJoins`).

The notes rest on `NotesInv`: a path has one note, and there are no more than the cap unless they were
seeded. `NotesHold` compares two states. Every note that a report leaves was there before or has
the hash of the moment and words of its author beside the older ones (`Drawn`, `Spoken`, `IngestedDrawn`);
touching, pruning and dropping leave notes that were there (`OldNotesStay`); so `AuthorsChange`. A
report keeps the notes that were fresh, which is a fold over its paths (`Holding`, `IngestedHolds`,
`AllIngestedHolds`), and pruning drops the oldest only (`ReportsKeepFresh`).

`PromptsProofs`. `BrokerExact` speaks of the question on the screen; `AsksOwn` says of every other task
in `_ask_one` that it waits for a question of its own, also after `cancel_all` took it away.

Its second part is about `Mcp`, whose calls ask through the same broker: every open connection is
in the state of a manager that will close it, in the hands of a task that closes it, or
lost (`Accounted`); this needs that no two managers hold the same one (`OneOwner`) and that a
task which closes one has taken it out of the state before (`ClosedByOne`). A step of a task
leaves the session of the state alone, gives it up or takes it out to close it (`Moves`, `Drops`, `ClosesThen`);
only opening, the end of a close, an abort, the replacement of the manager and `aclose` do more.

`AgentLoopProofs`. The completions of a run are accounted for by its turns, its continued cutoffs, the
one retry of an overflow and the round under way (`SentIsAccounted`), the ceiling by what was
granted (`CeilingIsGranted`); a run that ends in whatever way resets both (`IdleIsReset`): `BudgetInv`.

`HistoryKept` needs `HistoryInv`: unless a run that had compacted was cut short (`tainted`), the
history is well-formed whenever no calls run, and so is what precedes `marker`, to which a
failed run truncates, until the run compacts and the marker no longer names a place of the
history (`Undamaged`); while calls run some message opened them (`CallsAreOpen`). Every action appends at most two messages, cuts
back to the marker, opens calls or compacts (`HistoryMoves`). A pairing lies between two messages that carry no
call, so a history may be cut behind any plain message and continued at any plain message
(`ValidBehindCut`, `ValidBehindPlain`, `ValidBeforePlain`); eviction takes whole exchanges of such a
history out (`KeptProperties`, `EvictionKeeps`) and a summary replaces what precedes a cut
(`CutOfSummary`, `SummaryKeeps`), which gives `CompactionKeeps` for any cap and any numbers of messages;
the last exchange survives since no cut falls into it (`ExchangeIsApart`, `ExchangeKept`).

The module also proves of `Judge`, for all verdicts, lengths and lists: that a worse verdict gets no
command through (`SuspicionNeverLoosens`, `NetworkIsAskedFor`), that one bad slice of a long
result is enough and that its ends are shown (`OneSliceIsEnough`, `EndsAreShown`), that the
extensions of a run are bounded (`ExtensionsBounded`), that a report worth more reaches the
parent with no less (`WorthIsAdmitted`), that no diagnostic the edit caused is hidden and the counts
agree (`EveryDiagnosticCounts`), and that reranking is a permutation (`RankingLosesNothing`: the
comparison is a linear order, so the rank is strictly monotone, and an injection of a finite set
into its own numbers).

`WorkspaceProofs`, of a child. An ok report is about the books; that nothing on the disk is missing in them holds
because what is not recorded yet is held by a call that will record it, an edit under the write
lock or an undo beside it, unless an abort cut it off there or it is of an undone batch
(`UnrecordedIsPending`), and an aborted run does not report ok (`ReportIsLast`). `CleanIsFresh`: a
clean verdict in the books is of what is on the disk, or its file is about to be recorded, was
overtaken or was undone; `ChangedIs` says what a change does to the diagnoses under way.

The same, of commands and servers. That no process escapes needs to know where everyone stands: a server that runs is in
the books, or in the hands of the caller that stops it, or that caller was interrupted
(`ServersKnown`); while somebody holds the lock the books show none (`BooksEmptied`); once the
session is closing no call starts a process any more (`NoneStarts`), so that what the sweep
signals is all there is (`SweptIsSignalled`).

The same, of the write funnel. `FunnelInv` is inductive: the disk is a tree, the trackers are what
their agents saw, and the newest batch took the disk from `base` to `left` (`Took`). This gives
`NoBlindEdit`, since an edit compares the tracker with the disk; a rollback puts back each file whose
record it finds and whose restore does not fail, one failure does not keep another from its own,
and the other files were never written (`RollbackRestores`), which is `AllOrNothing`. The rest is about undo:

* Trees. Ancestors of a path are its strict prefixes (`AncestorsAre`), so that the disk is a tree
  exactly when what lies above something is a directory (`TreesAre`). Writing, making parents, removing
  and renaming leave trees (`WriteLeavesTree`, `ParentsLeaveTree`, `RmdirLeavesTree`, `MoveLeavesTree`);
  of a rename this needs that the names below the source stay in order below the
  destination (`MovedIs`, `MovedAlong`).
* `Took` says of every batch that none of its paths leads to another (`Apart`), that the directories
  it made lead to what it created (`DirsAbove`), that its records hold the bytes of before
  (`FilesDiffer`), and, unless the batch is an undo, that it overwrote files, or created, deleted or
  renamed one thing (`Exact`). Without `Apart` undoing one record could spoil what the check
  (`CanUndo`) found at the path of another. Each action has its lemma (`EditsTook`, `CreationTook`,
  `DeletionTook`, `RenameTook`, `UndoTook`).
* An undo is a fold from the last record to the first, which the proofs unfold into stages
  (`RevertedStages`). Each record is undone on a tree that still has, at and below its path, what the
  check found (`OneMoreUndone`); so every stage is a tree (`FunnelTypeOK`), and all files of the
  records are back at the end. A creation taken back removes exactly the parents that were made for it
  (`UncreateIsExact`), a deletion finds its parents (`UndeleteIsExact`), so directories are back
  too (`UndoBringsBack`): `UndoRestores`.
* `UndoKeepsForeignWork`: with K the files whose bytes no record of the batch left, undoing a record
  keeps those of K (`RevertKeeps`; directories go only when empty, `RmdirKeeps`), so any number of
  records does (`RevertedKeeps`), also when the undo stops half way. The two are `UndoTakesBackItsBatch`.

The assumption these rest on (`WriteFunnelAssumption`, `WorkspacesAssumption`): paths are lists of
names, each with the paths above it, and the engine starts on a tree.

`LspProofs`. `Stage` is what the thread that has the document lock is about to do. The messages on
the way, the one of the warm start among them (`InboxAtFirst`), number the texts from the one the server holds, without a gap (`Chain`), and end with a
number and a text (`Ends`); these are what the books say, but for the moments between a message
and its booking, or a booking and its message (`Due`). Reading a message goes on with the chain
(`ReadText`, `ReadQuestion`), sending one extends it (`ChainGrows`, `QuestionsPass`). A server is up only
once it is known, and starts before anything was sent (`LifeKept`); what the thread found in the
books before it looked for the server is still there when it acts on it (`BooksKept`). Every
operation takes and releases the two locks as its locals say (`Moves`), and a step that does not
concern the lock leaves its holder where it is (`StageStays`). The module also proves that two
hunks or edits of a text whose ranges do not overlap, located on the original and applied the lower
first, replace exactly the lines they were located at (`BottomUpIsExact`), from what one splice
replaces and keeps (`SpliceReplaces`). More than two would need an induction over the list.

Model-checked only:

* Liveness (`WaitingEnds`, `EveryAskEnds`, `EveryFullEventSettles`, `ChildEnds`, `CallsEnd`,
  `OperationsEnd`): fairness and `ENABLED` are out of the prover's reach.
* The folds and recursive functions of `TextEdits` and `Llm` compute over data of any length: they are
  evaluated on small inputs only.

## Not modelled

* Git, GitHub, search, web, HTTP, browser, package, scanner and tree-sitter tools: each starts a
  program or asks a service and formats its answer, without state between calls.
* The records of the protocol, their JSON form, redaction: nothing happens over time.
* Metrics, trace, the log of judgements: written and never read by the engine.
* Dispatch tables of commands, configuration, language and skill discovery, profiles: read once,
  or tables; the fields that matter are constants of the modules.
* The headless and the dummy client; of the terminal client all but its chat.
* Of modelled parts: researchers and debuggers and worktrees of older versions
  (`orchestrator.py`); statistics, settings and the hooks' wiring (`session.py`), and what a
  failing save does to the turn that saves (`session.py:428`); wording of prompts, repeated-call
  warnings, images (`agent_loop.py`); the syntax gate of the write funnel; transports, token and
  configuration files of MCP; JSON-RPC framing and several languages at once (`lsp.py`); collected
  output and the choice of a port (`shell.py`, `server.py`); the cache of verdicts (`judge.py`);
  deletion and lists of sessions, schema migration (`sqlite.py`); HTTP of the LLM provider; the order of
  one connection's commands, which wait behind a StartSession that asks its own client (`server.py:71`).

## Plan

Done: the modules and proofs above. Next, in this order:

1. `TextEdits`: hunks beyond two, with the lemmas about folds.
