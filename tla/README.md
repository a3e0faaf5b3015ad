# Verification of the DramaGo agent server

The Go server in `services/server` runs AI agents on a user's video projects. An
agent works inside a chat session; it may ask the user questions through cards,
and after a confirmation it may call tools that cost money (image and video
generation). This directory models the protocols behind that in TLA+,
model-checks them with TLC and proves the central theorems with TLAPS.

Paths below are relative to `services/server/internal/` unless they start with
`docs/` or `apps/`.

## Inventory

| component | state | operations | interacts with |
|---|---|---|---|
| session service (`service/agent/agent_sessions_service.go`) | per session: run records, current ACP session and its turn count, last status; one row in `agent_sessions` | create, StartRun, FinishRun, SetACPSessionState, ClearACPSessionID, CancelRun, WithRunStatus, Status, boot reconciliation | runtime, HTTP handlers, selection decisions (as guard) |
| agent runtime (`service/agent/agent_runtime.go`) | one goroutine per run, its context, the closed flag and wait group | SubmitAgentMessage, runAgent, Close | session service, ACP runner, RunTerminalHandler |
| HTTP cancel and wiring (`http/handlers/agent_sessions.go`, `app/app.go`, `app/wire.go`) | none of its own | cancel, onCancelled, RunTerminalHandler | session service, selection service |
| selection service (`service/selection/store.go`, `repository/agent_selection_repo.go`) | rows of `agent_selections`: status, expiry, generation claim and outcome | Create, Decide, FindReusable, CancelPendingByRun, ExpirePendingByRun, sweeps, ClaimGenerationUse, CompleteGenerationUse | MCP tools, HTTP handlers, terminal handler |
| ask and generate tools (`app/mcp`) | tool calls in flight | AskUserSelection, AskUserForm, AwaitUserSelection, CreateGenerationMessage, CreateGenerationBatch | selection service, generation runtime |
| Jimeng Seedance queue (`service/generation/generation_jimeng_queue.go`, `generation_runtime_tasks.go`, `app/generation_worker.go`) | status and provider id of the Seedance rows, the queue's mutex | create, retry, submit, queue check, poll, manual poll, delete, worker rounds | task store, Jimeng provider, notifications |
| generation task store (`service/generation/generation_tasks_service.go`, `repository/generation_task_repo.go`) | rows of `generation_tasks`, their asset rows with a selected flag, deleted slots, rows of `project_selected_assets`, conversations, attempts | Upsert, UpsertExisting, RecordError, ListPending, Delete; UpsertSelectedAsset, DeleteSelectedAsset(ByRequest), UpdateAsset, DeleteAsset | everything that generates, HTTP handlers |
| generation tasks of other kinds (`service/generation`) | rows of `generation_tasks` | background image generation, hand-off to polling, polls, recovery of orphans, batches | providers, notifications |
| generation notifications (`service/generation/generation_notifications_service.go`, `http/handlers/generation_tasks.go`, `apps/workspace/src/domains/generation`) | one row per task with a target; subscribers and their bounded buffers; the panel's task list | TrackTaskTarget, SyncTask, AnnounceTaskStarted, AnnounceTaskCompletion, Publish, HandleGenerationNotificationEvents, GenerationNotificationSync | whoever writes a task row; the panel |
| durable workflow (`repository/agent_execution_repo.go`, `repository/agent_workflow_uow.go`, `repository/agent_session_repo.go`) | one row per session (active workflow, barrier, revision), workflows, tasks, invocations; leased rows: continuations, root-final deliveries, hand-offs, root leases; ledgers of commands | CreateWorkflowEnvelope, ReplaceWorkflow, TerminateWorkflow, ApplyProjectionWriteSet, CompareAndSwap*, Claim*, Transition*, Ack, Release | nothing yet: no service calls it |
| ACP runner (`service/acp`) | registry of resident sessions, their agent process, lease count, idle timer and run mutex; pending permission requests; one router per process | Run (lease, launch or reuse, bind, prompt, sweep, unbind, keep or close, give back), Close, ResolvePermission, idle eviction, process watcher | agent runtime, agent processes, HTTP handlers |
| event broker and chat log (`service/events/broker.go`, `service/chat/store.go`, `http/handlers/agent_events.go`) | subscribers and their bounded buffers, the history file of a session and its buffered writer, one SSE handler per connection | Publish, Subscribe, AppendAgentEvent, ListAgentEvents, HandleAgentEvents | everything that runs; the chat panel |
| chat panel (`apps/workspace/src/domains/agent`, `apps/workspace/src/shared/lib/sse`) | event sources with their last event id, cursor, running flag, messages shown | connect, reconnect, resume, applyEventSequence, refreshAgentChatTranscript, hydrate, status poll | SSE handler, transcript and session endpoints |
| documents, canon, assets, settings, prompt packs, billing | files and single rows | CRUD | HTTP handlers |

What is hard about them:

- **Concurrency.** Storing an event and fanning it out are two critical sections;
  claims of a lease are an UPDATE and a SELECT. Every method of the session service holds one mutex, but the
  protocols span several methods. The goroutine of a cancelled run is still out
  when the next run starts; HTTP cancel is three separate critical sections; the
  ask tools look for a reusable card and create one in two.
- **Failure.** The process may die at any moment. Run records live in memory
  only; the session row is reconciled at boot; cards and claims are durable.
- **Ordering.** Terminal handler, cancel callback, expiry and user click write
  the same row. Completion may arrive after cancellation.
- **Time.** Runs have no timeout by default; cards and confirmations expire by the
  wall clock; generation tasks are resubmitted after two minutes; leases end while
  their holder is still working.
- **Processes.** An agent process outlives the run that started it. The next run, the
  idle timer, the watcher of its connection, the grace timer of a cancelled prompt and
  shutdown all take it out of its entry under the registry's mutex and close it after
  they released it; while it lives it may ask for a permission at any moment.
- **Delivery.** Buffers are bounded and drop; connections break and resume;
  answers of commands get lost and are repeated; transcripts arrive in any order.

What makes them correct: one agent at a time per session, records that can always
be cancelled, final run and card states, decisions only for live runs, at most
one paid request per confirmation; for generation tasks, one provider job per
submission, no task that nobody finishes, and a panel and a notification that tell how it ended; one selected asset per resource,
shown by the task it came from; for agent processes, one run of a session at a time, no
process that nobody can find, none closed while it works; for workflows, writes fenced by
their lease, one active workflow and one open final answer per session; for the
panel, no stored event missed unnoticed or shown twice, and in the end all of
them shown.

## Modules

| module | what it models |
|---|---|
| `AgentRuns` | sessions, run records, run goroutines, cancel, close, restart |
| `ApprovedSpend` | abstract: what a confirmation promises the user |
| `ACPResident` | the resident agent processes of the ACP runner, the runs that lease them, permission requests, shutdown |
| `ACPResidentProofs` | theorems about `ACPResident` |
| `AgentApproval` | EXTENDS `AgentRuns`: cards, ask calls, generate calls; implements `ApprovedSpend` |
| `AgentApprovalProofs` | theorems about `AgentRuns` and `AgentApproval`, and that these implement `ApprovedSpend` |
| `TakingTurns` | abstract: what a queue before a resource for one promises |
| `SeedanceQueue` | the rows, requests, submissions, polls and worker rounds of Jimeng Seedance videos; implements `TakingTurns` |
| `SeedanceQueueProofs` | theorems about `SeedanceQueue`, and that it implements `TakingTurns` |
| `AssetSelection` | the assets of image tasks, their deletion, and which of them a resource has selected |
| `AssetSelectionProofs` | theorems about `AssetSelection` |
| `ImageTask` | one image generated in the background: its goroutines, polls and orphans, its notification, and the panel |
| `ImageTaskProofs` | theorems about `ImageTask` |
| `FencedDelivery` | abstract: what a lease with a fence promises |
| `AgentOutbox` | the leased rows of the durable workflow and their workers; implements `FencedDelivery`, also as part of `AgentWorkflow` |
| `AgentOutboxProofs` | theorems about `AgentOutbox` |
| `AgentWorkflow` | EXTENDS `AgentOutbox`: the transactions that create, update, replace and end workflows |
| `AgentWorkflowProofs` | EXTENDS `AgentOutboxProofs`: theorems about `AgentWorkflow` |
| `AgentEventStream` | from the publishers of a run through history, broker and SSE to the chat panel |
| `AgentEventStreamProofs` | theorems about `AgentEventStream` |
| `*MC` | model values, symmetry sets and bounds for TLC |

`AgentApproval` extends `AgentRuns` because the two share the runs.
`SeedanceQueue` stands alone: a generate call of an agent ends where a request to
create a task begins, and nothing of the queue is read by the agent modules.
`AssetSelection` stands alone too: it holds image tasks, which the queue does not
hold, and the other table their saves write. `ImageTask` takes the same saves for one
status and looks at who makes them, when, and who is told: the two modules share no state
but that status. `AgentWorkflow` extends `AgentOutbox`
because replacements and ends create and discard leased rows while workers hold
them. `AgentEventStream` stands alone: it is generic in what publishes.
`ACPResident` is what `AgentRuns` takes for the environment of a run: the steps of one
call of the runner, from `RunAgent` to its return. The two share only the context that is
cancelled and the fact that the call returns, so `ACPResident` justifies the fairness
`AgentRuns` assumes of a cancelled runner (`CancelledPromptReleases`) and is checked on its own.

### AgentRuns

The state is that of one chat session: all state of the service is keyed by
session id and no operation touches two sessions.

- `loaded` and `session` are the entry of `store.sessions`; `saved` is the
  database row. The row keeps the ACP session and the last status only, so
  `FromRow` (loadSessionUnlocked) yields a session without run records and with
  the turn count -1, "unknown".
- `work[r]` is the position of run r's request handler and goroutine; the other
  functions by run are its local variables, dropped when it ends.
- One action per critical section: `StartRun`, `SetACPSessionState`,
  `ClearACPSessionID`, `FinishRun` (through `FinishGoroutineRun` and
  `FailPreparation`), `CancelRun`, `ReadCancelledStatus`. `OnCancelled` is the
  HTTP handler's callback; `BeginClose` and `FinishClose` are the two halves of
  `Close`; `Restart` is a crash followed by the boot reconciliation.
- The runner is the environment: `RunnerSucceeds`, `RunnerFails`, `RunnerPanics`.
- Writes to the row succeed. `persistSessionUnlocked` logs and ignores an error,
  which would let memory and row differ.

### ACPResident

A run is a call of `runOnce`; a second attempt on a new ACP session is part of its prompt.

- `step[r]` is where a run is; `Holding` are the steps with the entry's run mutex. One
  action is one critical section, or one call of the agent process with what the code
  does with its outcome. The steps from `sweeping` on are the deferred function.
- A run makes at most one entry and starts at most one process, so an entry, a process and
  its router are named by the run that made them. `registry[s]` is `residentSessions`,
  `held[e]` the process of an entry, `leases[e]` its count, `armed` and `evictors` its idle
  timer before and after it fired.
- Whoever takes a process out of an entry (`Take`) closes it later, without the mutex:
  until `Kill` it is `doomed`, and a run or a call of Close that waits for it goes on then.
- `bound[p]` is the run a process's router delegates to. Callbacks hold the router's read
  lock, `Unbind` takes its write lock: `Drained` is that it may.
- A permission request (`ask`) is entered, stored as pending, decided and answered.
  `ResolvePermission` looks the session's client up and puts the decision into its channel; it
  is one action, because the two in between can only settle the request.
- `GraceEnds` closes the process of a prompt that goes on 10 s after its cancellation,
  `Watch` takes one that exited, `Evict` is the idle timer's callback, `Close` with
  `TakeOne` and `CloseReturns` the shutdown, whichever callers it has.
- Abstracted: the launch fingerprint (any process found may match or not), which backends
  support residence (a run that succeeded keeps its process or not), the prompts of a run (one),
  callbacks other than permission requests (they behave as one that returns soon), requests that are
  answered without the user. Cancellation is looked at by prompts only; the
  calls before may fail for any reason.
- External: the SDK's connection and the agent process, which may exit, ask and never answer.
- Not reachable and left out: an error of `bind`, a process without a router.

### AgentApproval

`card` holds the rows of `agent_selections`, `ask` and `call` the tool calls in
flight; `spent` is a history variable counting provider requests made on a
card's authority. A tool call is not tied to the life of the run that made it: it
continues after the run was cancelled and is lost only in a crash.

- `FindReusable` and `Create` are the two halves of an ask.
- `Decide` is one action, because it holds the session mutex (WithRunStatus) over
  the conditional update of the row.
- `PrepareGeneration`, `ReadClaim`, `Claim`, `Execute`, `CompleteGenerationUse`
  are the steps of a generate call. `Claim` is the SQL compare-and-swap.
  `Execute` may reach the provider or fail before; `CompleteGenerationUse` may
  fail to store the outcome.
- `HandleTerminalRun` and `SettleCancelled` extend `NotifyTerminal` and
  `OnCancelled` by what the application wires to them.
- Time is the bit `due` of a card, which `PassTTL` sets at any moment.
- Abstracted: the comparison of a generation request with the confirmed plan.
  The tools rebuild the request from the confirmed plan, so every call for one
  card has one fingerprint and a claim is a bit. `"selected"` also stands for
  `"custom"`.

### ApprovedSpend

Per card: unasked, asked, approved or refused, claimed, closed, and a counter of
spends. `Spend` needs the phase claimed and the counter 0. `AgentApproval`
implements it with the phase computed from the row (`PhaseOf`).

### SeedanceQueue

The provider takes one Seedance job at a time, so the server keeps further
requests as rows with the status `queued`. The route decides whether a task goes
through the queue; the model holds such tasks only, one request per task id.

- `row[t]` is the status and the provider id of a row. The statuses `running`,
  `pending` and `processing` of other providers do not occur, because Jimeng's
  `normalizeStatus` maps them to `submitted`. `deleted` rows are gone for all
  writers; the status only says that there was a row.
- `older` and `stale` abstract `updated_at`: the order of the pending rows by it
  (`ListPending` sorts by it and so does the queue's check), and whether a
  `submitting` row is two minutes old.
- `proc[<<t, role>>]` is a program counter and the local copy of what will be
  written: `create` and `retry` for the handler and its goroutine, `worker` for
  the poll of a task in a round, `user` for a poll by hand. Each database read or
  write and each call of the provider is a step of its own. `queueMu` is
  `jimengSeedanceQueueMu`.
- `Decides` and `DecisionStored` are the two halves of the critical section in
  `CreateGenerationMessage` and `RetryGenerationTask`; `QueueChecked` and
  `QueuedTaskClaimed` those of `submitQueuedJimengSeedanceGeneration`.
- `SubmissionStarts`, `SubmissionAccepted` / `SubmissionRefused` and
  `SubmissionSaved` are `submitPendingGeneration`, wherever it is called from.
- `WorkerLists` begins a round when all polls of the previous one have ended
  (`wg.Wait` in `PollPendingGenerationTasks`). For the rows of `unready` the route,
  the provider or the request cannot be set up, which records an attempt only.
- `jobs[t]` are the provider's jobs of a task; `JobEnds` is the provider.
- `Restart` drops all processes. Nothing is reconciled at boot: the worker finds
  what is left.
- Assumed: writes of the local database succeed; an accepted request carries an
  id (`submit_id`); the two queries of a queue check see one state of the rows,
  which the mutex does not guarantee against a submission that is just being
  saved, but such a save only ever ends an activity.

`TakingTurns` has one phase per request: `Joins` the queue, `Enters` at once if no other is queued
or admitted, `Admit` when none is admitted, `Finish`, `Delete`. A task is admitted while its row is
`submitting` or `submitted` (`PhaseOf`).

### AssetSelection

A creative resource (a character, a scene, ...) shows one selected image. The
choice is stored twice: as a flag on an asset row of the task that made the image
and as a row of `project_selected_assets`, whose id is a hash of its fields, the
title among them.

- `task[t]` is a row of `generation_tasks` with its asset rows and its deleted
  slots. `type` and `cap` are the columns `resource_type` and `capability_id`;
  `None` stands for a value that is no resource type, e.g. `image.generate`.
  `polled` says that a provider task id is stored. The statuses before the end of
  a generation are one, `"active"`.
- `row` is the set of selected rows that are not soft-deleted; a record is its own
  id. A section belongs to one document, all assets are images.
- `gen[t]` is the goroutine `completeSubmittedGeneration` and the record it
  holds. `ReadProgressAssets` and `GenerationEnds` are the read and the save of
  `taskWithCurrentProgressAssets` on the failure and hand-off paths.
- `reader[p]` is a poll of the worker, a status check (`GetGenerationVideo`) or a
  retry between its read of the task and its save. A read keeps no assets: each of
  these saves replaces them.
- `Save` is `upsertTask` with all it calls: default selection, the task row, its
  asset and deleted-slot rows, selected rows. `SaveRefused` is what it leaves
  behind when an asset has no local copy and the asset rows are refused.
- `ReplaceSelection` is `replaceResourceSelectionLocked`; the user's operations
  are one action each, because each holds the service's mutex.
- Titles are two: the one a record carries in memory and the file name a stored
  asset is read back with. The user may give either.
- Assumed by constants: `PicksWhileActive = FALSE`, the user selects assets of
  tasks that have ended; `RetriesPolled = FALSE`, only tasks that were never handed
  off to polling are retried. The code enforces neither; "Findings not kept as
  runs" says what the second is needed for.
- Bounds: one generation of a task at a time (`RetrySaves`), `MaxSlot + 1` assets,
  `Readers` in flight.

### ImageTask

- `row` is the status of the task and whether it has a provider task id. `age` are the
  two deadlines the code computes from its dates: 15 minutes since `created_at`
  (`maxBackgroundImageGenerationAge`), 240 s since `updated_at`
  (`jimengImageGenerationHardTimeout`). Both may pass at any moment.
- `proc[p]` is the handler that creates or retries the task, with its goroutine, or the
  worker's poll: a program counter, the provider id of the copy it read, and what it has
  written and not told yet. Writing the row (`Upsert`, one critical section of the task
  service) and telling about it are two steps: `Tell` is the listener that `upsertTask` calls
  after it released its mutex, and `SyncTask`, which every caller calls next. `Track` is the
  `Tell` of a new task, after `TrackTaskTarget`.
- `notice` is the notification's row; `Synced` what `SyncTask` makes of it.
- `Answers` is how a goroutine ends: delivered, failed (the request's own deadline included) or
  handed over to polling (`handOffPendingGeneration`). `PollEnds` and `PollRecovers` are the
  two ways through `PollGenerationTask` an image can take.
- `panel` is the SSE connection with its buffer, and the task list the user sees. An event,
  whatever it says, makes the list be fetched again (`due`).
- `missed` is a history variable: a crash came between a completion and its telling.
- A process that finds the row deleted ends; in the code the goroutine of a deleted task goes on
  without being able to write.
- Assumed: a task is retried after the request that creates it was answered, which is a few
  statements after its row can be listed; writes to the local database succeed; a completed image has an asset that
  the client is shown; a provider that is still at work names its job with an id that can be polled;
  the answer of a fetch that a later one overtakes is dropped (SWR does so); the worker's round
  has room for this row (the limit is the subject of `SeedanceQueueWindow`).

### AgentOutbox and FencedDelivery

- `row[r]` holds the columns of a leased row that its operations compare: status,
  `lease_mode` (hand-offs only), owner, whether `lease_until` is to come, past or
  NULL, `fence_token`, revision. The statuses of the four kinds are one set;
  `allowed...Transition` are the tables of the code.
- `at[w]` is a worker: what it was answered and what it is about to do. A claim is
  an UPDATE (`ClaimContinuation`, `ClaimRootFinalDelivery`,
  `ClaimFailedRootFinalDeliveryForReconcile`, `ClaimWorkflowHandoff`,
  `ClaimRootRunLease`) and the SELECT that answers it (`ReadClaim`).
- `Written` is what a transition does to the row, `Applied` the transaction, whose
  answer arrives or gets lost; a worker without an answer repeats the command and
  is answered from the ledger (`Replayed`; continuations have none).
- Time is `LeaseEnds`, at any moment. `LeaseHolds` is `lease_until > at` with a
  clock that the caller may have read earlier.
- `SendPrompt` is the external effect of a hand-off; `prompts` and `returns` are
  history variables.
- Assumed: `PromptReads`, a claim is read back before its lease ends.

`FencedDelivery` says per delivery: a stage and at most one tenant; `Take`, `Change`
by the tenant, `GiveUp`; and `Order`, by which those who order deliveries let several of them
appear (once, from `Absent`) and call others off, in one step. The tenant of a row is the worker whose claim
wrote the token that the row still has (`Tenants`). Workers alone never order anything; the
transactions of `AgentWorkflow` do.

### AgentWorkflow

- `session` is the row of the session: active workflow, barrier (the
  root-final delivery that must be published first), revision. `workflow`, `task`
  and `invocation` are status and revision of each row; one root task and one
  root invocation per workflow.
- One action per transaction: `CreateWorkflowEnvelope`, `ReplaceWorkflow`,
  `TerminateWorkflow`, `ApplyProjectionWriteSet`, `CompareAndSwapTask`,
  `CompareAndSwapInvocation`, `CompareAndSwapWorkflowState`. Each is refused
  (`IsRefused`: ErrAgentStaleRevision), replayed from its ledger or key
  (`IsReplayed`), or takes effect, and its answer may get lost.
- `client[c]` is the command of a caller, with the revisions it read when it made
  up its mind (`Plans`). The callers are an assumption, as no service calls these
  operations: they act on the active workflow, and lift the barrier when its answer
  is published.
- The ids that an answer or a replacement creates are computed from the workflow
  (`FinalOf`, `HandoffOf`, `ContinuationOf`), as the callers' ids are.

### AgentEventStream

- Server: `log` and `flushed` are the history (file and writer), `pub[p]` a publisher
  between `AppendAgentEvent` and the end of its fan-out, `chan[s]` a subscriber's
  buffer, `conn[s]` the SSE handler (replay pages, then live, with its watermark).
- Client: `source[s]` is an event source with its `lastEventId`; `client` the panel's
  cursor, running flag, and how often each event is shown; `due` and `inflight` the
  transcript requests. `client.skipped` is a history variable: the numbers of the
  gaps that were noticed since the last transcript.
- `Publish` and `publishGuaranteedAgentEvent` serve one subscriber each, as the reader
  may take an event between the two selects of the second.
- `handleStreamingAgentEvent` is what a frame does to the panel, called by
  `SendReplayed` and `SendLive`: a frame on the network is one not yet sent.
- `Crash` loses what the writer held and ends the run (boot reconciliation).
- Abstracted: event contents to four kinds; the projection of the history to
  messages (a transcript shows what is in the history).

## Runs

| run | instance | checks | result |
|---|---|---|---|
| `AgentRuns` | 2 runs, 2 cancel requests, 1 turn | `ExecutingRunIsOnRecord`, `OneAgentAtATime`, `RowSaysRunningIffActive`, `NothingSurvivesClose`, `RunFateIsFinal`; `CancelledRunEnds`, `CloseReturns` under `RunsFairness` | holds |
| `ACPResident` | 2 runs of one session, 1 permission request, 2 calls of Close | `OneRunPerSession`, `NoOrphanProcess`, `CallbacksHaveTheirRun`, `WorkingProcessIsLeftAlone`; `CancelledPromptReleases`, `ShutdownIsComplete` under `Fairness` | holds |
| `AgentApproval` | 1 run, 2 cards, 1 ask, 2 generate calls | `AtMostOneSpend`, `ImplementsApprovedSpend`, `DecisionNeedsLiveRun`, `DecisionIsFinal` | holds |
| `SeedanceQueue` | 2 tasks, limit 2, both deletable, 2 jobs each, 1 restart | `OneActiveTask`, `DeletedStaysDeleted`, `ImplementsTakingTurns`; `TasksSettle` under `FairSpec` | holds |
| `SeedanceQueueJobs` | 2 tasks, one retried and polled by hand, 4 jobs each, 1 restart | `JobsAreAskedFor` | holds |
| `SeedanceQueueWindow` | 3 tasks, limit 2, 1 job each | `QueuedTaskIsSubmitted` under `FairSpec` | violated |
| `AssetSelection` | 2 tasks, 2 slots, 1 resource, 1 media asset, 1 reader, assets may be refused | `SingleChoice`, `SelectionHasTask`, `FlaggedSlotHasRow`, `OnlyCompletionReplaces` | holds |
| `ImageTask` | 1 task of either kind, buffer of 1, 1 retry, 1 crash or broken connection | `NoticeFollowsTask`; `PanelShowsTheEnd` under `ImageFairness` | holds |
| `AgentOutbox` | one row of each kind in turn, 3 workers of 2 owners, tokens up to 4 | `OneWriter`, `PromptsAreReconciled`, `UncertaintyIsKept`, `ImplementsFencedDelivery` | holds |
| `AgentWorkflow` | 3 workflows with their rows, 2 clients, 1 worker, revisions up to 3 | `PointerIsTheActiveOne`, `EndedScopeIsQuiet`, `OneOpenFinal`, `EffectIsAcknowledged`, `EndIsFinal` | holds |
| `AgentEventStream` | 2 publishers of 2 events, buffers and pages of 1, 2 transcripts on their way, 1 lost connection, 1 crash | `MissesAreNoticed`, `NothingShownTwice`, `TranscriptConverges` under `StreamFairness` | holds |
| `AgentEventStreamResumed` | the same events, buffers of 3, pages of 2, no faults | `ResumedStreamEnds` under `StreamFairness` | violated |

The type invariants without a run are proved (see Proofs) and hold for every instance.

**Why the bounds are enough.** Two runs are the goroutine of a cancelled run and the
run that replaced it, and with two cancel requests a session is loaded again while another request is
between its critical sections. A third run adds one that is admitted while both are
out; the safety properties are proved for every number. Cards expire
at any moment and crashes are unlimited, so the runs are bounded only in the
number of ids. For spending, the two calls race for one card while the second
card shows that nothing leaks from one card to another; the theorems below
cover every number. The two properties of decisions relate a card to its own
run; they too are proved for every number of runs.

For agent processes, two runs of one session lease one entry or make two, and the second
finds, replaces or misses the first one's process, while the first's timers, watcher and
request may still be at work. Two calls of Close are one that shuts down and one that waits for
it. Nothing of the runner relates two sessions but `Close`, and the theorems hold for any number of
sessions and runs.

For the queue, one task is active and one waits for it, and two requests can race;
with three tasks (`SeedanceQueueWindow`) a third row blocks both. That a new task does not pass a
waiting one takes three tasks as well; that part of `ImplementsTakingTurns` rests on the theorem `TurnsAreTaken`, and
holds in TLC for three tasks under `Spec` (`PollLimit` 3, one task deletable, one job each, a restart: 62,839
states), an instance too large for `TasksSettle`. `PollLimit` is 2
instead of 5: it matters only whether the pending rows fit into a round. They do in
`SeedanceQueue` and do not in `SeedanceQueueWindow`. `MaxJobs` stops a
submission that would be accepted once more; in `SeedanceQueueJobs` it is one more
than `JobsAreAskedFor` allows any task, and the theorems hold for each value.
`Retryable`, `Deletable` and `Refreshable` name the
tasks the user acts on. `SlowSubmissions = FALSE` says that a submission ends
within two minutes; see "Findings not kept as runs" for what happens otherwise.

For selections, two tasks of one resource replace each other's selection, and two
slots let an asset be deleted or selected while another one stays. One reader and
one goroutine per task are three writers of two tasks beside the user; with a
second reader a retry that was read before the hand-off does what `RetriesPolled`
excludes. A media asset is what no task shows.

Image tasks do not see one another but in the limit of a round, so `ImageTask` has one. The kinds
are a tracked task of Jimeng and an untracked one of another provider (`SomeKinds`): orphans
and the notification have nothing to do with each other. One retry puts a second goroutine beside the
first and a poll beside both. With a buffer of 1, the second event before the panel reads is dropped.
One fault is a crash or a broken connection at any moment; the theorem about the notification
holds for any number of both and of retries.

The operations of `AgentOutbox` touch one row each, so one row at a time exists
(`Created`), and the kinds take turns. Two workers of one owner and one of another
are the claims that owner and token must tell apart; `MaxToken = 4` lets a row be
claimed, taken over twice and sent back. In `AgentWorkflow` three workflows are a
replacement of a replacement. One worker and one claim suffice there
(`MaxToken = 1`): what several do to a row is the run of `AgentOutbox`, and here a
worker either holds a stale claim or does not. `HandoffsWait` leaves hand-offs
pending, which nothing else reads; `InvocationsEarly` and `ContinuationsEarly` keep
invocations (independent of everything else) and continuations (discarded with
their workflow) to the beginning of a session.

For the event stream, a buffer of 1 drops and pushes out at the second event, a page
of 1 takes several reads for one replay, and with two publishers two events are on
their way at once and may overtake each other. Two transcripts are enough for
one to overtake the other; a lost connection and a crash may each come at any moment.

**Symmetry** is used for ids the code only compares, in runs of safety
properties, and never in a run with a liveness property.

**Fairness.** `RunsFairness` is weak fairness of a goroutine's own steps (the Go
scheduler), of the runner's return *once its context is cancelled* (its
contract), and of the wait group. A runner that is not cancelled may work for
ever, because `DefaultAgentRunTimeout` is 0. Nothing forces users to cancel or
decide.

`Fairness` of `ACPResident`: weak fairness of what happens without anybody's help.
Goroutines go on, a fired timer's callback runs, the grace period of a cancelled prompt ends, a
closed process dies, a call to a dead process fails, a permission request times out.
It is stated for all these steps together: no run, request or call of Close repeats a step, so
none can be passed over for ever. Nobody has to call Run, Cancel or Close or to answer a
request, and no live process has to answer or to exit.

`FairSpec` of the queue: weak fairness of goroutines, of time (a `submitting` row
ages) and of the provider's jobs, which end. Strong fairness of the provider's
answer and of a round in which every poll can be set up: they may fail any number
of times, not for ever. Rounds come every 20 s for as long as the server runs.

`ImageFairness`: weak fairness of each handler with its goroutine, of the worker (every 20 s), of time,
of the connection (an event source reconnects and is read) and of fetches, the panel's timer included
(30 s while the task is pending). Strong fairness of `Answers`: a provider that reports progress, which is a
save with its telling in between, does so only until the request's deadline. No provider has to deliver
anything when it is polled.

`StreamFairness`: goroutines go on, the run ends, sources reconnect (the event
source retries for ever), requests that were sent are answered while the server
lives, and the status poll runs while the panel waits for a run it started. A
lost connection or a crash is never required.

**Deadlock** is checked for the agent modules: a crash or the boot after it is
always possible. The queue's runs bound tasks and restarts, and stop when
everything is done; the ACP runner is closed or idle in the end and its ids are used up. The leased rows end in statuses nobody leaves, clients may have nothing to
ask for, and a stream is over when everything is shown, so those runs may stop too.

### What the violations show

- `QueuedTaskIsSubmitted`: a poll that finds that its task must wait writes
  nothing, so waiting rows stay at the front of the order by `updated_at`. When
  they fill the limit, the active task is never polled, its end is not noticed,
  and nobody is submitted again.
- `ResumedStreamEnds`: a terminal event may be stored before, and delivered after,
  an event of another publisher, because persisting and fan-out are two critical
  sections. The panel takes it for a duplicate of what its cursor has passed. The run's
  own connection is saved by the status poll; a resumed connection has none
  (`AgentStateSync.tsx:217-219` relies on "a future terminal event"), stays open, and the
  panel stays "running".

### Findings not kept as runs

Found with TLC on instances of the same modules; those with a name are stated in the
modules and can be checked again with the constants given.

- `TerminalEventIsTerminal` of `AgentRuns` (3 runs, 1 cancel request, 2 turns):
  `cancelRun` loads the session again whenever no run is active. Cancelling twice
  drops the record of the cancelled run; when its goroutine finishes after the next
  message was accepted, `FinishRun` finds no record and answers the session's status
  `running`, which goes to the terminal handler. Cards of the cancelled run become
  expired instead of cancelled.
- `CancelSparesExecutingRun` of `AgentApproval` (2 runs, 1 card, 1 ask, no calls):
  the HTTP handler reads the status again after the cancellation
  (`http/handlers/agent_sessions.go:170`) and settles the cards of the run it finds
  there, which may be a new one.
- `OneActiveTask` of `SeedanceQueue` with `SlowSubmissions = TRUE`: the worker submits a
  row a second time after two minutes although the request may take 1000 s. The
  first request settles the row, the next task starts, and the second submission of
  the first task is still at work.
- `SingleChoice` of `AssetSelection` with `RetriesPolled = TRUE`: the image branch of
  `RetryGenerationTask` (`generation_runtime_tasks.go:199`) leaves the provider task id
  in the row, so the worker polls the previous attempt while the new one runs. When
  the poll completes the task, its first asset is selected; the new attempt fails,
  reads that asset back under its file name and stores it as a second selected
  asset.
- `OneWriter` of `AgentOutbox` with `PromptReads = FALSE`: when a lease ends and is
  claimed again between a claim's UPDATE and its SELECT, both workers go by one
  token. The comment at `repository/agent_session_repo.go:93-94` says that a claim
  "returns the new monotonic fence token".
- `RequestsAreCancelledFirst` of `ACPResident` (the constants of the run): a run's pending permission requests are settled
  (`cancelPendingPermissions`) before it unbinds from the router, but the router still
  delegates to it in between, so a request that arrives then is stored after the sweep. The
  design (`docs/plans/2026-07-16-resident-acp-sessions-design.md`) has the run cancel pending
  permissions first. Such a request is out of the user's reach, since the client is no longer
  on the active list; it holds the router's read lock until it times out (30 minutes), and
  the run, with its run mutex and lease, and the next run of the session wait that long.
- `ErrorPathClosesFirst` of `ACPResident` (the constants of the run): the grace timer of a
  cancelled prompt and `Close` take a process out of its entry and close it on the side, so the run finds
  nothing to invalidate and gives its lease back while the process may be alive. The design
  (lifecycle item 5) says "Every error path closes and clears it before releasing the lease". The next
  run starts a process of its own, so nothing else follows.
- `MissesAreRepaired` of `AgentEventStream` (the constants of the run): a gap asks for the
  transcript, but the answer is discarded while the run goes on if it is not newer
  than the cursor (`chat-sync.ts:79-94`); the missing event is shown after the run only.
- A guaranteed event is lost if the reader empties the buffer between the two
  selects of `publishGuaranteedAgentEvent` (`broker.go:107-128`), or when another
  guaranteed event pushes it out; `events.go:56-57` calls it guaranteed. The
  panel notices the gap, except for a terminal event on a resumed connection.
- A crash of the server leaves a panel with a resumed connection "running": the boot
  ends the run in the session's row and publishes no event.

- `PanelShowsTheEnd` of `ImageTask` without its last three cases. A retry of a tracked task whose
  notification is completed is announced when it starts, but not when it completes
  (`completeTaskNotification` returns early, `AnnounceTaskCompletion` leaves it to `SyncTask`), although
  `generation_notifications_service.go:157-164` says "retried tasks announce again": a panel that has seen
  it fail in between stays at "failed". A poll that read the row before it completed can
  fail it afterwards, and failures are never announced. After a crash, a row that was
  `submitted` without a provider id, or `running` at a provider other than Jimeng, is in no list
  that anybody works on (`Forgotten`).
- The 15 minutes of `isExpiredBackgroundImageGeneration` are counted from `created_at`, which a retry keeps, as
  it keeps the provider id of the last attempt. So an old task that is retried is failed by
  the next poll that finds the previous job without a result, while the new
  attempt is at work; `generation_tasks_service.go:27-31` says "the whole wait since submission".
- `ListPending` fills a round with videos first, so as many pending videos as the limit (5) keep
  images from being polled, timed out and recovered.

## Proofs

`AgentApprovalProofs` proves for every number of runs, cancel requests and turns, from
`NoneAssumption` (the empty id is not an id):

| theorem | property |
|---|---|
| `RunsTypes` | `RunsTypeOK` |
| `RunsInvariant` | the inductive invariant `RunsInv` |
| `ExecutingRunsAreOnRecord` | `ExecutingRunIsOnRecord` |
| `OneAgentHolds` | `OneAgentAtATime` |
| `RowIsTrue` | `RowSaysRunningIffActive` |
| `CloseWaits` | `NothingSurvivesClose` |
| `FatesAreFinal` | `RunFateIsFinal` |
| `RunningRunsAreDriven` | `RunningIsDriven`: a record that says running has a goroutine that will finish it |

and for every number of cards, questions, asks and calls, from `NoneNotCard` as well:

| theorem | property |
|---|---|
| `ApprovalTypes` | `ApprovalTypeOK` |
| `ApprovalInvariant` | the inductive invariant `ApprovalInv` |
| `OneSpendPerCard` | `AtMostOneSpend` |
| `SpendIsApproved` | `SpendWasApprovedAndClaimed` |
| `DecisionsAreFinal` | `DecisionIsFinal` |
| `DecisionsNeedLiveRuns` | `DecisionNeedsLiveRun` |
| `PromiseInvariant` | the inductive invariant `PromiseInv` |
| `PromiseIsKept` | `ImplementsApprovedSpend`, the refinement |
| `RunsAreComposed` | `Spec => RunsSpec` |
| `OneAgentSpends` | `OneAgentAtATime` in the composition |
| `DecisionsAreAwaited` | `DecisionIsAwaited`: a card becomes decided only while the goroutine of its run is out |

**The argument for the runs.** `OneAgentAtATime` follows from `ExecutingRunIsOnRecord` once at most one
record says running. `RunsInv` adds what makes that inductive: the records, the
session's last status and the row agree (`RecordsAgree`), a run that has not started has no
record (`NewRunsHaveNoRecord`), and what may be at work while `Close` waits and after it. The
delicate steps are those that drop the session's records: `cancelRun` loads the session
again only when no run is active, and then no run on record executes. `RunningIsDriven` is the converse
of `ExecutingRunIsOnRecord`, and inductive beside `RunsInv`.

**The argument for the spending.** `AtMostOneSpend` is not inductive: it does not say that a call
about to execute is alone and that its card is unspent. `SpendInv` adds that a
call in flight is authorised by a submitted row, that calls past the claim hold
a claimed card and no two of them the same one, that an executing call's card is
unspent, and that unclaimed cards are unspent and claimed ones submitted. All
steps that settle pending cards are instances of one predicate (`Settling`), as
submitted rows are out of their reach. `SpendKept` handles every step that moves
no claim and spends nothing, `SpendMoved` those that only move a call towards the
claim; `Claim` and `Execute` are the two cases that matter.

**The refinement.** The phase of a card in `ApprovedSpend` is computed from its row (`PhaseOf`).
`OutcomeInv` says what that needs beside `SpendInv`: only a claimed card has an outcome, and none
while the holder of its claim has not executed. Each action then has a lemma that names the abstract step
it is (`CreateRefines`, `DecideRefines`, `ClaimRefines`, ...); a step that settles several cards is one abstract
step as well (`RefusingRefines`).

**The composition.** Every step of `AgentApproval` is a step of `AgentRuns` or leaves its variables
alone (`ComposedStep`; a decision that loads the session is its hydration), so what is proved of the runs holds with
the cards. `DecisionsAreAwaited` puts the two together: the guard of `Decide` asks the record, and
`RunningIsDriven` says that behind a running record there is an agent.

`SeedanceQueueProofs` proves for every number of tasks, limit, bound on jobs and
number of restarts, from `QueueAssumption` and `NobodyAssumption` (the empty
holder of the mutex is no process):

| theorem | property | for |
|---|---|---|
| `SeedanceTypes` | `SeedanceTypeOK` | all behaviours |
| `QueueInvariantHolds` | `QueueInvariant` | `Quiet` |
| `OneActiveTaskHolds` | `OneActiveTask` | `Quiet` |
| `DeletedStays` | `DeletedStaysDeleted` | `Quiet` |
| `SettledStays` | `SettledStaysSettled`: a settled row keeps its status until it is deleted | `Quiet` |
| `TurnsAreTaken` | `ImplementsTakingTurns`, the refinement | `Quiet` |
| `SpendInvariant` | the inductive invariant `SpendInv` | `~SlowSubmissions` |
| `JobsHold` | `JobsAreAskedFor` | `~SlowSubmissions` |

`Quiet` is the hypothesis of the run `SeedanceQueue`: nothing is retried or polled
by hand, and no submission outlasts two minutes. Each part is needed: a poll by
hand writes with `Upsert` what it learned before a deletion, a retry or the end of
the task, a retry does not wait for a submission or a poll in flight, and slow
submissions violate `OneActiveTask`.

**The argument.** `OneActiveTask` is not inductive, since the activity begins with
a decision taken earlier. `QueueInvariant` adds that whoever decides holds the
mutex, that what it decided is still true (no row is pending but its own, or none
is active), and what the status of a row is while its goroutine (`CreatorOK`) or
its poll (`WorkerOK`) is at work. The age of the row is what keeps the two apart:
the worker does not list a `submitting` row that is not stale. `StepOf` says that a
step on one task keeps the invariant of all others if it makes a row pending or
active only with the mutex; each action then has to be checked for its own task.
The two action properties follow from the same invariant: a settled or deleted
row has no writer left (`RowStep`). So does the refinement: whoever writes a row writes it from the
phase it is in, and a decision that is stored finds the queue as it was when the mutex was taken
(`CreateTurns`, `WorkerTurns`); every other write keeps a task admitted or ends it (`WriteTurns`).

`JobsHold` needs only that no submission outlasts two minutes, and holds for any retries, polls by
hand and deletions. Its argument is a budget. `Debt(t)` counts who may yet submit task `t`: the row
itself while it waits to be taken or was left by a restart, and the create request, the retry and the worker
that are on their way to the provider. `SpendInv` says that the jobs there are and the debt together never exceed one
creation, the retries and the restarts. A retry or a restart raises both sides, a submission turns debt into a
job, and a worker that takes a stale row only passes its debt on: no goroutine is still submitting a row that is stale
(`PlacesOK`), which is where slow submissions would break it.

`ACPResidentProofs` proves for every number of sessions, requests and calls of Close and
every finite number of runs, from `ResidentAssumption`:

| theorem | property |
|---|---|
| `ResidentTypes` | `ResidentTypeOK` |
| `SessionsRunOneAtATime` | `OneRunPerSession` |
| `ProcessesAreReachable` | `NoOrphanProcess` |
| `CallbacksAreDrained` | `CallbacksHaveTheirRun` |
| `WorkGoesOn` | `WorkingProcessIsLeftAlone` |

**The argument.** `ResidentInv` has three parts. `LeaseInv`: the lease count of an entry is the
number of runs that lease it (a cardinality, hence the finite runs), and while the runner is open a leased
entry is the registry's; so the runs of a session lease one entry, and its mutex
admits one. `ProcessInv`: a process in an entry was made by a run of that session, one that is
doomed is in no entry, and a run that works with a process that is still its entry's is
the only one to do so. `BindInv`: which router a run is bound to at which step, that a request in service
belongs to a run that is bound, and that no two runs share a router. `WorkGoesOn` is then a
case split: every step that takes a process needs an entry without a lease, a process that exited, a
run that is cancelled, or the run itself.

`AgentOutboxProofs` proves for every number of rows, workers, owners and tokens,
from `OutboxAssumption`:

| theorem | property | for |
|---|---|---|
| `BaseInvariant` | the inductive invariant `BaseInv` | all behaviours |
| `OutboxTypes` | `OutboxTypeOK` | all behaviours |
| `UncertaintyHolds` | `UncertaintyIsKept` | all behaviours |
| `PromptsReconciled` | `PromptsAreReconciled` | all behaviours |
| `OutboxInvariant` | the inductive invariant `OutboxInv` | `PromptReads` |
| `OneWriterHolds` | `OneWriter` | `PromptReads` |
| `FencedDeliveryHolds` | `ImplementsFencedDelivery` | `PromptReads` |

`PromptReads` is the constant that says that a claim is read back before its lease ends. Without it the fence fails, as
two claims may then go by one token; what else is promised does not depend on it.

**The argument.** `BaseInv` is what holds of every execution: the types, that a worker at work has a
row and only allowed transitions under way, that an owned row is open. `PromptsAreReconciled` needs a
budget: the prompts sent for a hand-off and the workers that may still send one (`Senders`, with those whose dispatch is only
in the ledger) are paid for by its returns to pending and the dispatch under way (`Budget`). A worker gets
into `Senders` with the transition that takes the row out of `leased`, and a crash that replays the ledger puts
nobody else there.

`OneWriter` is not inductive: it compares what two workers go by
and not where it comes from. `OutboxInv` adds that no two claims of a row wrote the
same token and none a token above the row's, that a worker which has read its claim
goes by the token that claim wrote (this needs `PromptReads`: while a claim is not
read back, the row keeps its lease and token), and what a worker that passes the
fence knows of its row. For each action one lemma says what the step does
(`...Does`), and three lemmas carry the invariant over steps that claim, write or
leave a row. For the refinement the tenant of a row is a set computed from claims;
each lemma of a step gives the abstract step it is.

`AgentWorkflowProofs` proves for every number of workflows, clients and revisions, from
`WorkflowAssumption` (the rows a workflow may get are its own and do not exist in the
beginning):

| theorem | property |
|---|---|
| `WorkflowTypes` | `WorkflowTypeOK` |
| `PointerAgrees` | `PointerIsTheActiveOne` |
| `EndsAreFinal` | `EndIsFinal` |
| `EffectsAreAcknowledged` | `EffectIsAcknowledged` |
| `ScopeInvariant` | the inductive invariant `ScopeInv` |
| `EndsAreQuiet` | `EndedScopeIsQuiet` |
| `BarrierHolds` | `OneOpenFinal` |
| `WorkflowPrompts` | `PromptsAreReconciled` in the composition |
| `WorkflowUncertainty` | `UncertaintyIsKept` in the composition |
| `WorkersStayFenced` | `OneWriter` in the composition, from `PromptReads` |
| `WorkflowsFence` | `ImplementsFencedDelivery` in the composition, from `PromptReads` |

**The argument.** Nothing in the rows says which commands are on their way, so
`StoreInv` speaks of the clients (`ClientOK`): the revision a client has read is not newer than its row
and older than an end, a command is complete, an id it is to create is unused and no other
client's. So a compare-and-swap that succeeds finds a workflow that has not ended.
`Grows` says of every step that rows that are written get a new revision, which keeps all
that was read before. `Commands` are the effects of the transactions; `SendingCases` shows that every
other outcome changes the client only. `ScopeInv` adds the workers: rows that exist are never
unmade, a claimed row exists, final answers and hand-offs appear with the end of their workflow only
(`RowsComeLate`), and a client that is about to lift the barrier has either read an old revision of
the session or the final answer is published (`LiftsAreDue`). To the workers a command is a step that discards rows
or lets them appear (`RowsShift`), which keeps the invariants of `AgentOutboxProofs`; to the commands a worker's step is one that changes the
status of open rows only (`WorkersKeep`). The refinement of `FencedDelivery` carries over the same way: a step of a worker is the abstract
step it is without clients (`StepRefines`), and a transaction is an `Order` (`OrderRefines`), since
rows that are discarded or have just appeared have no owner.

`ImageTaskProofs` proves for all kinds of task, every buffer and any number of retries and faults, from
`ImageAssumption`:

| theorem | property |
|---|---|
| `ImageTypeCorrect` | `ImageTypeOK` |
| `NotificationFollows` | `NoticeFollowsTask` |

**The argument.** `NoticeFollowsTask` is not inductive: it does not say that whoever has written a
completion goes on to tell of it, and a new target would start with a notification behind its
task. `NoticeInv` adds `NewsIsTold` (a process with news of a completion is telling),
`UnbornIsIdle` and `TrackedFirst` (until the target is stored nobody else has the task, so it is not
completed). A failure or a start that is told late does no harm because a completed notification stays as it is:
`TellKeeps` is that case, and the mutant `Synced_FailureStays` the mistake it excludes.

`AssetSelectionProofs` proves for every number of tasks, slots, resource types, sections, media
assets and readers, from `MaxSlotNat`, `CapabilityType`, `NoneNotType` and `MediaNotSlots` (an asset of the
media library is no slot of a task):

| theorem | property | for |
|---|---|---|
| `SelInvIsInvariant` | the inductive invariant `SelInv` | all behaviours |
| `TypesAreRight` | `SelectionTypeOK` | all behaviours |
| `SelectionsHaveTasks` | `SelectionHasTask` | all behaviours |
| `FlaggedSlotsHaveRows` | `FlaggedSlotHasRow` | all behaviours |
| `OnlyCompletionsReplace` | `OnlyCompletionReplaces` | all behaviours |
| `ChoicesAreSingle` | `SingleChoice` | `Orderly` |

The first five hold for any number of polls and requests in flight and whatever the user picks or
retries. `Orderly` is the hypothesis of the run `AssetSelection`: no picks of assets of a running
task, no retries of a task with a provider task id, one poll or request in flight at a
time.

**The argument.** `FlaggedSlotHasRow` holds for tasks with a capability, and the capability is
overwritten by every save with the one of a record read or built long before, perhaps of a task that was
deleted in between. `SelInv` therefore adds that some assignment `c` of capabilities to tasks is the one of
all existing rows and of all records in memory (`Held`): a deleted task has no capability of its own to
compare with, and a check or a retry may bring it back. `StoreStep` is the one
argument about the tables: a step that writes some tasks and clears rows with their flags
keeps the agreement of all the others. `Writes` is its usual case, and saves, refused saves and clicks are
instances. `SingleChoice` fails when a record with flags is saved beside a selection made in between,
so `Choice` adds that the record of a goroutine has no flags, and what keeps it so: while
a goroutine has a task, the row is active, unflagged and not polled (`Quiet`), and no poll or check of it is in
flight.

`AgentEventStreamProofs` proves for every set of publishers with any events, every buffer and page size, and any
number of lost connections, transcripts and crashes, from `StreamAssumption` (a terminal event is the runner's last, the
event of the earlier run is none of this run's):

| theorem | property |
|---|---|
| `StreamInvariant` | the inductive invariant `StreamInv` |
| `StreamTypes` | `StreamTypeOK` |
| `MissesNoticed` | `MissesAreNoticed` |
| `ShownOnce` | `NothingShownTwice` |

**The argument.** Both properties speak of the cursor and of what is shown; whether the next frame breaks them depends on
where it comes from. `StreamInv` therefore follows an event from its publisher on. `YetToCome(e)`: its publisher has not
come to it. An event in the history is there once and no longer to come (`LogOK`); a frame, at its publisher, in a
buffer or in a page, carries the place of its event, or 0 if the event is in no place (`FrameOK`); a transcript is a
beginning of the history (`IsPrefix`); and the panel has shown nothing behind its cursor and nothing that is yet to come (`PanelOK`).
So a frame that is no duplicate shows its event for the first time, and what it skips was not shown or is recorded as
a gap. The one delicate case is a crash: it cuts the history back, perhaps to before the cursor, and an event stored
there later would count as passed. `PanelOK` says that the cursor is behind the end of the history only when nothing is yet
to come, as the runs that published died with the server. `Extends` carries frames, panel and transcripts over
the steps of publishers, `StreamsKeep` and `ClientKeeps` over those of handlers and client.

Every safety invariant and every action property that a run checks is thus proved, and the three refinements, that of
`FencedDelivery` both of the workers alone and with the clients whose transactions write their rows. Left to TLC alone
are the liveness properties
`CancelledRunEnds`, `CloseReturns`, `CancelledPromptReleases`, `ShutdownIsComplete`, `TasksSettle`,
`PanelShowsTheEnd` and `TranscriptConverges`, because
fairness and ENABLED are out of the prover's reach, and everything that is proved from an
assumption on the constants (`Quiet`, `Orderly`, `PromptReads`, `~SlowSubmissions`) where that assumption fails.

## Not modelled

Of the generation tasks: batches (creates in parallel, whose status is computed from their rows), synchronous generation (texts
and audio, one write within the request), the list of notifications and which were read. Of the ACP runner: the terminals and files an
agent process works with, the choice of backend, credentials, the translation of its updates to
events. Of the durable workflow: artifacts, root proposals, queued inputs and the
lists a recovery reads. Of the event stream: the projection of events to messages,
archived and cleared sessions. Documents, canon, assets, settings, prompt packs and billing
are formats and single-row updates without a protocol. The browser workspace and the
Electron shell (`apps/workspace`) are clients of the HTTP API.

Known gaps of what is modelled: failing database writes; the title goroutine (it
shares the wait group of `Close` but no run state); events; a generate call that
claims after its run was cancelled is possible in the model as it is in the code
(the claim checks the row, not the run). Two identical asks
in parallel put up two cards, and a late goroutine of a cancelled run resets the
turn counter of its ACP session: both are in the model and in the code, and no
property forbids them. An ask in flight when its run ends puts up a card that no
handler settles; it stays until it expires and authorises nothing
(`DecisionNeedsLiveRun`). Three behaviours of `AssetSelection` have no property
because the code does not keep the obvious one: deleting a slot of a task whose
capability is no resource type erases its resource type, after which deleting its
selected asset leaves the selected row; selecting a selected asset under another
title resets the flag that was just set; and a save of a copy read earlier brings
back slots deleted in between. In the queue: what manual polls and
retries may undo is in the model, but no property is stated about it, as the code
promises nothing; video tasks of other providers share the poll limit with the
queue and are not in the model.

## Plan

1. Batches and synchronous generation in `ImageTask`.
2. Compose `ACPResident` with `AgentRuns`, so that the context of a run and the return of its
   call are shared instead of assumed.
3. Proofs: the action properties of the composition of 2.
