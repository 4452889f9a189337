# A verification of agent-sidecar

agent-sidecar is an HTTP service in front of an agent CLI (`claude` or `codex`). One
request, `POST /v1/converse`, is one *turn*: the sidecar reserves a slot, runs the CLI
in a task of its own, streams what it says as server-sent events, and gives the slot
back when the CLI has exited. This directory holds TLA+ models of that machinery, the
TLC configurations that check them and proofs checked by TLAPS.

Everything interesting in the sidecar happens because a turn can be ended by six parties
(its runner, its timer, `/cancel`, its stream, its client, the shutdown), because
`asyncio` delivers a cancellation at the place where a task happens to be suspended, and
because processes and threads go on when the task that started them has gone.

## Inventory

| Component | State | Operations | Meets | Correct if |
|---|---|---|---|---|
| Admission (`admission.py`) | turn per sessionKey, users in flight, keys held by a deletion | `reserve`, `release`, `get`, `exclusive`, `drain` | the turn's task, `/cancel`, DELETE, shutdown | the limits are kept and no slot leaks or is given back by another |
| Turn (`turn.py`) | task, stop reason, timer, event queue | `start`, `stop`, `_main`, `_run` | admission, runner, workspace, the stream through the queue | slots held exactly while the task lives; queue contract; one cancel; it ends |
| Stream (`routes/converse.py`) | position in the queue, terminal frame sent, drain deadline | `_event_stream`, `on_client_close` | the queue, sse-starlette, the client, shutdown | one terminal frame that tells the truth; it ends; no turn is left unattended |
| `/cancel`, DELETE (`routes/`) | none | look up and stop; remove a session's files | admission, session store | the right turn is stopped; no file is removed under a turn |
| Session store (`session.py`) | workspaces, session-id records, stateless directories | `workspace_for`, `remember_session_id`, `remove_paths`, `stateless_workspace` | turn, DELETE, resume check | deleted means gone; a key resumes only its own sessions |
| Route (`routes/converse.py`, `models.py`, `auth.py`, `config.py`) | none before the reservation | authentication, validation, `_run_limits`, `_preflight_resume`, `_merge_system_prompt`, `turn.start` | admission, session store, settings | a refused request leaves nothing; limits are the operator's and the client's |
| Codex runner (`codex_runner.py`) | process group, pipes, two helper tasks, last message and error | `_spawn`, `_stream`, `_ndjson_lines`, `_exit_status`, `_terminate`, `_finish` | turn (cancellation), operating system | no process is left; the cleanup is bounded; no line of output is lost; success means completion |
| Claude runner (`claude_runner.py`) | SDK query, result error, texts and tool names seen, private files | `run_turn`, `_run`, the translation of messages, `_forget_stateless_turn` | turn, SDK | the CLI is closed before the generator is; each text comes once; an error result is raised |
| Start-up and readiness (`app.py`, `codex_runner.py`, `routes/health.py`) | login process, credentials | `lifespan`, `ensure_codex_auth`, `/readyz` | operating system, settings | start-up ends; ready means the CLI can authenticate |
| Server life cycle (`app.py`, `__main__.py`) | admission | signal handling, drain | uvicorn | shutdown ends |
| Error and event types, MCP merging, metrics, logging, redaction, tracing | none that turns share | | | pure data or output only |

The behaviours that are hard to test, each with its line and the properties aimed at it,
are the list `hazards` of `PROJECT.json`.

## Modules

Each module's actions are what the code does between two suspensions of the event loop;
steps of threads, processes, clients and timers are actions of their own.

```
TurnLimits  <-implements-  Admission  <-extends-  Turn  <-extends, implements-  Converse  -implements->  StreamContract
                            ^      ^               |  relies on
                            |      |        RunnerContract  <-implement-  CodexProcess, ClaudeRunner
            SessionStore  --+      |
                                   +-- Service  -extends->  Startup
NdjsonLines  <-extends, implements-  CodexPipes

AdmissionProofs  <-extend-  TurnProofs  <-extends-  ConverseProofs
AdmissionProofs  <-extend-  SessionStoreProofs, ServiceProofs
NdjsonProofs (of CodexPipes),  CodexProofs (of CodexProcess),  ClaudeProofs (of ClaudeRunner)
```

**TurnLimits** is what the sidecar promises about concurrency, without the registry: a
set of turns in flight and a set of keys being deleted.

**Admission** is the class of that name: `bySession`, `users` and `held` are
`_by_session`, `_users` and `_held`. The class never awaits between a test and its update,
so a method is an action (`Reserve`, `Release`, `Hold`/`Unhold` for `exclusive`).
`Release` takes a set because shutdown stops all turns in one step of the loop.
`AdmissionNext` lets callers call in any order, also for a turn that holds nothing.

**Turn** is `Turn.start`, `stop`, `_main` and `_run`. `main[t]` names the await at which
the task is suspended:

| `main` | code |
|---|---|
| `new`, `refused` | before `start`; `start` raised BUSY |
| `created` | `create_task` was called, `_started` is still false |
| `workspace` | `to_thread(workspace_for)` of a session turn |
| `opening` | inside the runner, no CLI yet |
| `running` | inside the runner, waiting for its next event |
| `recording` | at the runner's yield: `_remembering_session_ids` waits for the thread that records the session id |
| `closing` | inside the runner's own cleanup |
| `leaving` | `to_thread(rmtree)` of a stateless turn |
| `done` | the `finally` of `_main` has run, or `stop` ended a task that never began |

`cancelling[t]` is a `task.cancel()` that has not been raised yet; while it is set the
task does nothing but receive it, at the place where it is (`CancelInWorkspace` ...
`CancelInLeaving`). A cancel raised in `closing` interrupts the cleanup: the CLI stays as
it is. A cancel raised in `recording` closes the runner from outside: with `codex` this
runs its cleanup, with `claude` (`Provider`) the SDK leaves its CLI to a detached task.
`stop` acts on the first call only; `ForceCancel` is the second cancel of `drain`. A turn
of `Stateless` makes its directory synchronously and removes it in a thread. `stoppedIn`
and `forced` are history: where the stop found the task, and whether shutdown cancelled it
again. `events[t]` keeps everything ever queued. `TaskRuns`, `StopCalled` and `WorldMoves`
say who may act.

**Converse** adds the other half: `_event_stream` reads the queue at `pos[t]`, is
suspended waiting (`reading`) or at a `yield` (`sending`), and ends by itself
(`returned`) or by the framework (`dropped`: client gone, send timeout, end of the
grace). `outcome` and `draining` are the locals of the generator; `wire` is what the
client received. `server` goes from `serving` through `sigterm` (streams get their grace)
and `draining` (`Admission.drain`) to `stopped`. sse-starlette and uvicorn are modelled
by what they do to the generator. When the wait returns without an item, one may still
have been put since: `ShutdownSeen` and `DrainDeadline` do not require an empty queue.

**StreamContract** is the client's view: events, one terminal frame, end of stream, unless
the connection is dropped. `Converse` implements it, and implements `TurnSpec`: the
stream and the shutdown make turns do nothing `Turn` does not allow.

**RunnerContract** is what `Turn` assumes of a runner: spawn, exit, end of the stream,
cleanup, and a cancel that cuts the cleanup. `detaches` says whether a runner closed at its
yield may leave its CLI behind (a session turn of claude) or not; it never changes.

**CodexProcess** is the codex runner below it: the group's leader and one member, processes
that left the group and hold pipes, `proc.returncode` that is set some time after the exit,
the two helper tasks, and a cancellation at every wait of `_stream`, `_exit_status`,
`_terminate` and `_finish`. Of codex's events it has those that decide how a turn ends:
messages (`message`: empty, prose or the JSON a structured turn asks for), reported errors,
`turn.completed` and `turn.failed`. `schema` is the private file of a structured turn.

**NdjsonLines** is `_ndjson_lines`: `written` is everything codex ever wrote, `got` and
`start` how far the reader has read and looked, `buf` and `skipping` its locals. A byte is a
newline, blank or something else. `lines` keeps where each yielded line began, so that it can
be compared with `written`, and `outgrown` where the lines begin that were over the limit as a
chunk ended: the limit is looked at nowhere else.

**CodexPipes** puts that reader beside `_send_prompt` and `_drain`, and codex at the other
end of three bounded pipes: it reads its prompt, writes and logs in any order, one blocking
call at a time. The limit of a line, a chunk, a pipe and the prompt are a few bytes, in the
proportions that matter: a line longer than two chunks, a prompt longer than a pipe.

**ClaudeRunner** is `run_turn` and `_run` of the claude runner: the generators around the
SDK's `query()`, the exit stack (`stack`: `_forget_stateless_turn` and the private files,
each removed by a thread that is waited for), the error result kept until the stream ends
(`resultError`), and a cancellation at every wait. `ephemeral` is the request's mode. `pc`
names the wait; `recording` is the yield at which the consumer may leave. The messages of
the SDK are texts (as deltas and then a block, or as a block), tool calls, tool results and results: `sent`,
`parts`, `toolNames` and `done` are what `progress` and the yielded events make of them.
`query()` itself is external: the module's header says what the code relies on.

**Startup** is the lifespan up to the first request: `_prepare_filesystem`, then for codex
`ensure_codex_auth` with the login process that may hang, and what `/readyz` says of the
deployment afterwards. A deployment is a record of settings and of the credentials that are
in the environment. `Ready` is `/readyz`; `Seen` is the file it and the login look for, the
CLI's own (`authFile`) or the one that `CLAUDE_AUTH_PATH` or `CODEX_AUTH_PATH` names
(`otherFile`), either of which may come at any time (`LoginWrites`, `OperatorProvides`).
`CodexEnv` and `ClaudeEnv` are the credentials in the environment of a CLI, and
`CanAuthenticate` says whether it has what it needs. Readiness and this differ in two ways
(Findings), which `ReadyTellsTruth` names and beyond which it allows none.

**Service** extends `Startup` and `Admission`: a request arrives at any time, is rejected
or checked (`Allowed`), waits for the resume check and for CLAUDE.md (`place`), and is let in
by `Reserve` as the last step. `RunLimits` and `ToolRules` are the
functions of the code on the settings; `ToolRules` is its loop over the characters, a
recursive function, and `WholeRules` the reference it is held against: the text between
commas outside parentheses, which `MCAdmission` compares with what `tests/unit/test_config.py`
expects.
How a turn then ends is `Turn`'s matter; here it may leave at any time.

**SessionStore** is the file side of session turns, for either `provider`: `workspace`,
`record` and `stored` are the workspace, the recorded session ids and the transcripts of a
key. Its actors are requests and turns (`place`: resume check, reservation, mkdir, CLI,
recording of the id), the threads that a turn leaves running when it is stopped (`makers`,
`writer`: `remember_session_id` reads and then appends), and DELETE (`deletion`: lists,
then removes transcripts, workspace and record, each of which may fail). A turn is here
what it does to files and its reservation, which is `Admission`'s; its task is `Turn`'s
matter, and its CLI is taken to exit before the reservation is released. A CLI that
outlives its reservation (Findings) would write beside a deletion; this is not composed
with the store. `issued`, `lost`, `unrecorded`, `late` and `clean` are history: which ids
the CLI gave, which of them the key could not record, whose mkdir came after the end of
the turn, and which keys no turn has started on since their last successful DELETE.

## Runs

| Run | Instance | Shows | States |
|---|---|---|---|
| `admission` | 7 requests, 4 keys, 2 users, cap 3, 3 pending at once, 9 deployments | the tables agree with each other; `TurnLimits` is implemented; only streams hold slots; each turn has its limits and rules; ready means able to authenticate, but for two settings (Findings); start-up ends | 14 700 |
| `turn` | 2 turns, 1 key, the second stateless, 1 event | reservation = life of the task, queue contract, CLI and directory left behind only by a cut cleanup, no refusal without a reason, the limits hold of the tasks, every turn let in ends | 453 000 |
| `turn_overlap` | as `turn`, no events | **violated**: see Findings | |
| `converse` | 1 stateless turn, 3 events | frames are the queue in order, one truthful terminal frame, end of stream means free, no unattended turn, both refinements; every stream ends, shutdown completes | 597 000 |
| `codex` | 2 cancels, plain and structured turns | nothing left of the group unless the cleanup is cut; success exactly when codex completed; `RunnerContract`; the cleanup ends whatever the processes do | 215 000 |
| `codex_stop` | 2 cancels | **violated**: see Findings | |
| `codex_pipes` | 3 kinds of byte, 6 bytes of output, limit 2, chunk 2, pipe 2, prompt 3 | lines come whole and none within the limit is lost; one over it is given up exactly if it is over it where a chunk ends (Findings); neither side waits for the other for ever; all output is read | 1 243 000 |
| `claude` | a stateless or a session turn, 2 private files, 2 texts, 2 tool calls, 2 cancels | files and slots only after the CLI, nothing left behind, the error result is raised, texts and tool results come once, `RunnerContract`, the cleanup ends | 444 000 |
| `claude_yield` | as `claude`, 1 cancel, no texts or tools | **violated**: see Findings | |
| `store` | 4 turns, 2 keys, 4 ids, both providers | a key resumes and deletes its own sessions only; transcripts stay findable through failed deletions; deleted is gone | 1 920 000 |
| `store_unrecorded`, `store_fresh` | as `store` | **violated**: see Findings | |

Every property of a passing run has a mutant in `PROJECT.json`: a plausible bug in one
definition of the model that makes TLC find the property violated.

**Bounds.** `admission`: the limits are four independent tests, and the instance has for
each a turn that only this test refuses; seven turns let a released slot be taken by
another turn of the same key and of the same user. The bodies ask for limits below, at
and above what some deployment allows, and the deployments are the ways to give either
CLI its credentials, or to seem to: each of the two ways in which readiness goes wrong
has its own; two pending requests race for a slot, a third shows that more add nothing
new. `turn`: turns meet in the registry only, in pairs (same key, same user); two turns
of one key are a turn and its successor. The cap and the limit per user are the matter
of `admission`, and of the theorems. `MaxEvents` bounds the events a runner yields; a
queue is only ever appended to, so one event before and none after the stop shows every
order, and in `converse` three show a `done` with something before and after it.
`MaxCancels = 2` is what the code can do: one by `stop`, one by `drain`. `codex_pipes`:
six bytes hold a line over the limit that spans chunks, with a line before and after it,
and one that passes the limit in its last chunk; the prompt does not fit into its pipe.
For `claude`, two texts and two tool calls are a text after another, and parallel calls
answered in the other order. The store's four turns are two new conversations of one
key, a turn that resumes the first of them, and a turn of another key that asks for that
same session; so turns in succession, a thread of one beside the next, a foreign resume
and a deletion between any two steps all occur. `late` and `clean` need no longer
history: a deletion resets the key. The proofs need none of these bounds.

**Deadlock** is checked in every run that has no natural end; a turn system whose turns
are all done steps on by deletions of a key, and `Converse` has the explicit step
`Exited`, `CodexProcess` and `ClaudeRunner` the step `Closed`, `CodexPipes` the step `Over`;
a turn that holds nothing may always call `release`; in `SessionStore` deletions go on for ever.

**Fairness.** The event loop runs a task that can run, a timer that is due fires, a cancel
is delivered, `rmtree` ends, and a CLI that the cleanup signals exits (`WF` of
`closing /\ CliExits`: both runners kill in the end; for codex this is what `CodexProcess`
checks). Nothing is assumed of a runner: it may yield for ever or stay silent. The stream
adds: a frame is sent or the send timeout fires, a disconnect is reported, the timers of
the shutdown fire. For codex, each bounded wait ends; nothing makes codex exit. For claude,
a CLI that the SDK closes exits and a thread ends; nothing is owed by a CLI left to a
detached task, and nothing by the SDK's stream. At start-up, the filesystem thread returns
and every wait for the login is bounded (`_LOGIN_TIMEOUT_SEC`, the two waits of `_terminate`);
the login itself owes nothing. For the pipes, a call of codex that can return does, and the
loop runs the tasks at each pipe; nothing makes codex call, read its prompt, or exit.

## Proofs

TLAPS checks these theorems for every set of turns, keys and users, every cap, every
number of events and cancellations, and every size of line, chunk and pipe. The assumptions
are named beside the constants: the types of the constants; that the marks for "no turn",
"no user", "no id" and "unset" are none of what they mark; that the CLI never makes the same
session id for two turns (`StoreAssumption`); and in `StartupAssumption` that the settings
have an `ANTHROPIC_API_KEY` if the environment has one, which is where they read it. Which
keys are set, passed through or in a file, and which paths are configured, is left open.

* `AdmissionProofs`. `AdmissionInv` is the type invariant, `UserSlotsMatchTurns` and
  `DeletionExcludesTurns`: inductive together and not alone, because `Release` removes a
  user from `users` on the strength of one turn, which is right only if no other
  registered turn has that user. The refinement of `TurnLimits` rests on it: `Reservable`
  says the same as `Fits` (`ReservableIffFits`), for which the keys in use are counted by
  the turns that hold them (`EntriesCountTurns`). What the limits mean (`WithinLimits`) is
  proved once of `TurnLimits` and carried over: `RegistryIsWithinLimits`,
  `TasksAreWithinLimits`, `ServiceIsWithinLimits`, `StoreIsWithinLimits`.
* `ServiceProofs`. Every step of the route is a step of the registry
  (`ServiceImplementsAdmission`), so the theorems above hold of the service.
  `ReservationIsLast` (`RegisteredTurns = Streaming`) is inductive with the types, because
  `Reserve` and the move to `streaming` are one step. `LimitsAreKept` follows it from what
  `Allowed` tested when the request came. `ReadinessIsTrue` is a matter of cases, over every
  setting of the keys, the pass-through and the auth paths: what is counted as ready is with
  the CLI, or is one of the two exceptions that `ReadyTellsTruth` names.
  `RulesAreWhole` says that the loop of `_tool_rules` finds `WholeRules` for every text: by
  induction over the characters, `InHand` says what the loop has after each (the rules
  that end up to there, the text since, the depth), and `EndHasItsNumber` that an end is
  found by its number. With it `TurnsRunAsConfigured` covers limits and rules.
  `StartInv` ties the phase to the login (`NoLoginIsLeft`), and gives `NothingIsServedEarly`
  and `StartupIsOneWay`.
* `TurnProofs`. Every step of `Turn` is one of three kinds for the registry
  (`RegistryStep`): one turn reserves and comes alive, some turns are released and die, or
  nothing changes. From this follow `HeldWhileAlive` (`ReservationFollowsTask`), that `Turn`
  implements `AdmissionSpec`, and with it `TasksImplementLimits` and `RefusalsAreJustified`.
  `CliIsContained` needs the invariant `CutInv`: a cancel pending in `closing` has left its
  mark in `stoppedIn` or `forced`, because a first stop finds `stoppedIn` unset.
  `StatelessDirsGo` adds `DirInv` to it, and `OverlapOnlyAfterCut` says of two CLIs on one key
  what is true instead of the header's claim (Findings): it follows from `CliIsContained`,
  since two turns of a key are never both registered. `HangInv` gives `NothingWaitsForever`:
  a stop disarms the timer only by sending the cancel that takes its place.
  `QueueContract` and `StopsAreAnnounced` rest on `QueueInv`: between a stop and the runner's
  cleanup the cancel is pending, so nothing the runner yields can follow `TurnStopped`; and a
  task that has not ended has no `TurnEnded`.
* `ConverseProofs`. Every step of the service is one `Turn` allows, or none of a turn's
  (`ConverseIsTurns`): all theorems of `TurnProofs` hold here. The stream's own invariant is
  `StreamInv`: `FramesOK` (what was sent is the beginning of the queue; before the end, all
  of it events), `PlaceOK` (where the generator is, against the item it is at) and `AfterOK`
  (what became of a turn whose stream is over). A turn may move beside its stream; what the
  stream counts on is `GoesOn`: the queue grows at its end, the first stop reason stays, a
  task that ended stays ended. `TerminalFrameIsTrue` also needs `StopInv` (only a stop
  makes a cancellation). From these follow `FramesComeInOrder`, `EndMeansFree`,
  `NoTurnUnattended` and the refinement of `StreamContract` (`StreamsKeepTheContract`), and
  from that `ClientsGetOneAnswer`. `ReadInv` gives `NoReaderIsForgotten`: the task that ends
  puts the end of the stream on the queue in the same step. `DrainInv` gives
  `ShutdownIsComplete`. `ServedTurnsKeepGuarantees` lists what the service has from `TurnProofs`.
* `NdjsonProofs`. `LinesInv` says where the reader is (`Position`: the current line begins
  at `begun` and has no newline up to `start`), what it has of the line (`Buffered`: its
  beginning, or nothing once it is given up) and that yielded lines are behind it
  (`Behind`). `LinesComeWhole` and `NoLineIsLost` are parts of it. `GivenUpIfOutgrown` needs a
  second layer: `OutgrownNow` says of the current line, and of those that begin in the rest of
  the chunk, whether they are over the limit where it ends, and `Accounted` that of the lines
  behind the reader exactly those were left out. A line whose newline is in
  the chunk is not over the limit where the chunk ends: it was given up before, or never is.
  `PipesImplementLines` carries them over to the reader among its pipes, where
  `PipesAreBounded` holds. `PipesNeverDeadlock` needs `Position` and the first newline among
  what was read (`FirstNewline`): the reader can always take a line, or the rest, or read on.
* `CodexProofs`. `CodexInv` is the types, `ProcessInv` (which processes and helper tasks can
  be left at each wait of the cleanup), `SchemaInv` (where the private file is) and
  `ResultInv` (what the result is decided from). `NothingIsLeft` and `SuccessMeansCompletion`
  are read off it at `closed`; `CodexIsARunner` is the refinement of `RunnerContract`. `HeardInv`
  (no cancel is swallowed) gives `CleanupIsNeverStuck`; `CleanupOnlyAdvances` counts the waits.
* `ClaudeProofs`. `OrderInv` (a removal is under way, and the generator closed, only with
  the CLI gone or after a cut), `ResultInv` and `FilesInv` (a file that exists is still on
  the exit stack, with a thread, or withdrawn) give `CliGoesFirst`, `ErrorsAreRaised` and
  `FilesAreGone`; `EventsInv` gives `EventsAreFaithful`; `ClaudeIsARunner` is the
  refinement. `CleanupIsNeverStuck` and `CleanupOnlyAdvances` are as for codex, with the
  exit stack among what is waited for.
* `SessionStoreProofs`. `KeysAreIsolated`, `SessionsHaveOneKey` and `OnlyDeletionRemoves`, by
  `OwnInv`: whatever a key has recorded, stored or is about to delete was issued to it (`Owned`), the CLI of a turn
  runs a session of the turn's own key (`RunsOwn`), and an id issued to a key was made for
  one of its turns (`Descent`), so no id belongs to two keys. `DeletionSparesOthers` needs all
  of it, because a DELETE finds files by id and would remove another key's file of that name.
  `StoreTypeCorrect` adds `ReservedInv`: the registry is that of the turns under way; every step
  is one of the registry's (`StoreImplementsAdmission`).
  `RetryFindsTranscripts` and `DeletionIsComplete`, by `KeepInv`, which
  follows an id and a deletion. `Traced` and `WriterInv`: a stored transcript belongs to a turn
  that is still to record it, or its id is in the record, or lost, or could not be recorded.
  `Progress` and `CleanInv`: on a key under deletion no turn is under way (`HeldIsQuiet`, from
  `DeletionExcludesTurns`), so each stage leaves what the next one counts on, and after the
  last one only the threads of ended turns add anything.

Only model-checked: liveness (`AcceptedTurnEnds`, `StreamEnds`, `ShutdownCompletes`, both
`CleanupEnds`, `StartupEnds`, `CodexNeverStuck`, `OutputIsReadToTheEnd`), which is out of the
prover's reach. Every invariant and action property of the runs is proved.

The safety that each of them rests on is proved, for every value of the constants: wherever
something waits, what it waits for is there (second column), and no step goes back or round
in circles (third). That fairness then brings the end about is what TLC checks.

| liveness | never stuck | only advances |
| --- | --- | --- |
| `AcceptedTurnEnds` | `NothingWaitsForever` | `TurnsGoForward` |
| `StreamEnds` | `NoReaderIsForgotten` | `FramesComeInOrder`, `ClientsGetOneAnswer` |
| `ShutdownCompletes` | `ShutdownIsComplete` | `TurnsGoForward` |
| `CleanupEnds` of codex | `CleanupIsNeverStuck` | `CleanupOnlyAdvances` |
| `CleanupEnds` of claude | `CleanupIsNeverStuck` | `CleanupOnlyAdvances` |
| `CodexNeverStuck`, `OutputIsReadToTheEnd` | `PipesNeverDeadlock` | `ReaderAdvances` |
| `StartupEnds` | `NoLoginIsLeft` | `StartupIsOneWay` |

`NoTurnHangs`, `TurnsOnlyAdvance`, `OverlapNeedsCut`, `ReadersHaveWriters`,
`ShutdownReachesAll`, `KeysShareNothing`, `LoginIsWatched`, `StartupAdvances`,
`NothingBeforeServing`, `NoDeadlockAtPipes`, `ReadingAdvances`, `CleanupNeverStuck`,
`CleanupAdvances`, `OneTerminalFrame` and `WithinLimits` are stated in the components for
these theorems and are not in a `.cfg`; TLC checks them too when they are added to the one of
their component.

Induction. The library's induction theorems take an operator as a parameter, which the
provers cannot instantiate. `InductionBySet` (`AdmissionProofs`) takes the property as the
set of the numbers that have it instead, and follows from the well-foundedness of `<`;
`LoopUnfolds` uses it to show that the recursion of `Loop` defines a function, and
`FirstNewline` (`NdjsonProofs`) rests on the same fact.

## Findings

* **A first stop can interrupt the cleanup** (`turn_overlap`). `turn.py`'s header says a
  turn is cancelled at most once, so the runner's cleanup always completes before the
  reservation is released and a new turn cannot overlap the old CLI. When the runner has
  ended by itself and is in its cleanup, the first stop (the timer, `/cancel`, a
  disconnect) is the cancel that interrupts it. TLC's trace: `RunnerEnds`, `Timeout`,
  `CancelInClosing`, end of the task, and the next turn of the key spawns its CLI beside
  the old one. `CliIsContained` proves that this, the force-cancel of shutdown
  and, with claude, the next finding are the only ways.
* **A stop while the session id is recorded detaches claude's CLI** (`claude_yield`). The
  consumer of the runner waits for a thread inside its loop (`routes/converse.py:281`). A cancel
  raised there leaves `query()` at its yield, which is the situation the comment at
  `claude_runner.py:222` avoids for error results: the CLI is closed by a task of its own,
  after the files are removed and the slot is given back.
* **One stop can skip codex's SIGKILL** (`codex_stop`). The same in the codex runner: a
  cancel raised at the wait for the SIGTERM grace leaves `_terminate` before the sweep
  that `docs/operations.md` and the comment at `codex_runner.py:532` say always happens.
* **An id that was not recorded is not deleted** (`store_unrecorded`). The comment at
  `routes/converse.py:285` expects a 400 on resume and nothing else; with codex the transcript
  also survives DELETE, which answers "deleted".
* **A turn can resume what was just deleted** (`store_fresh`). The resume check is awaited before
  the reservation; a DELETE that runs in between is not seen by it, against `openapi.yaml`.
* **Not every line over the limit is skipped** (`codex_pipes`). The comment at
  `codex_runner.py:30` and `docs/operations.md:223` say that lines over 8 MiB are skipped. The
  code looks at the limit only on the rest of a chunk (line 488): a line that passes it in the
  chunk that brings its newline is yielded (478-482), up to one read over the limit.
  `GivenUpAtChunkEnds` states what the code does; its mutant, `TakeLineWithinLimit`, is what
  the documents say, and TLC tells them apart.
* **`/readyz` can be wrong about the CLI** (`admission`). It looks for the file that
  `CLAUDE_AUTH_PATH` or `CODEX_AUTH_PATH` names, and no CLI is told of these; and it counts a
  `CLAUDE_CODE_OAUTH_TOKEN` that `CODEX_ENV_PASSTHROUGH` takes away from claude. The docstring
  at `health.py:69` knows of neither. `ReadyTellsTruth` has both as exceptions
  (`LooksElsewhere`, `CountsWithheldToken`), and neither can be left out.

The last two are divergences which a passing run states exactly, instead of a run that TLC
finds violated.

The docstring of `remember_session_id` counts on one writer per record, since a key has
one turn; a stopped turn's thread goes on beside the next turn's. The model has both
writers (`ReadRecord`, `AppendRecord`), and every property of the store holds with them.

## Not modelled, and the plan

Left out for good, because no turn shares or waits on it: texts, formats, logs, metrics,
tracing and its flush, redaction, `/healthz` and `/metrics`, error handlers and their bodies,
and `scripts/smoke.py`, a client. Left out as pure data: the arguments and options a CLI is
given (`_invocation` and the options of the SDK), the merge of two MCP dictionaries, and the
tool items of codex, which are relayed one to one. What the SDK, uvicorn, sse-starlette and
the operating system do is modelled by its effect on the sidecar.

Simplified: a message of the SDK that cannot be translated, a session record that is not
text, and transcripts claude stores under a shortened project name are not in the models.
Of an auth file the models know that it exists, as the code does, and not what is in it.

What could still be added: the store composed with CLIs that outlive their reservation; the
translation of codex's tool items; an instance of `Converse` with two turns, which the
refinement of `Turn` and the theorems make less urgent.
