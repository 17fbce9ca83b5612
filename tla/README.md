# A verification project for agent-joe

agent-joe is a coding agent for the terminal: a Rust workspace whose root actor talks to a
language-model provider, runs the tools the model asks for, delegates to worker actors, keeps
everything it does in a session database and lets the user steer, interrupt, clear and resume.
This directory holds TLA+ models of that program, the TLC configurations that check them and
TLAPS proofs about them. `PROJECT.json` is the index: which definition models which lines, which
run checks which property, which mutation of the code each property notices, which hazards of the
code the properties are for.

To check an instance run `tlc -config TurnMachine_interactive.cfg MC_TurnMachine`, to check a proof
`tlapm TurnMachineProofs.tla`.

| Modules | Model | Run | Proofs |
| --- | --- | --- | --- |
| `TurnMachine`, `MC_TurnMachine` | the turn engine, the actor around it and its tasks (section 3) | `interactive`, `agents`, `follow_ups`, `lost_turn` | `TurnMachineProofs` |
| `WorkerRegistry` | delegation to workers (4) | `worker_sessions` | `WorkerRegistryProofs` |
| `ToolScheduler`, `MC_ToolScheduler`, implementing `SharedWorkspace` | batches of tools over one workspace (5) | `leases` | `ToolSchedulerProofs` |
| `SessionLog` | one session on disk, through crashes (6) | `crashes` | `SessionProofs` |
| `SessionGenerations`, implementing `DurableSessions` | the database files of all sessions (7) | `rotation` | `SessionProofs` |
| `ChangeJournal` | whose an edit is (8) | `edits` | `ChangeJournalProofs` |
| `SessionMerge` | worktrees and their way into main (9) | `merges` | `SessionMergeProofs` |
| `KnowledgeGenerations` | answers from frozen sources (10) | `knowledge` | `KnowledgeGenerationsProofs` |
| `PlanReview` | plans, questions, approvals (11) | `plans` | `PlanReviewProofs` |

## 1. The system

Paths are below `src/src/`.

| Part | State it keeps | Operations | Hard behaviour |
| --- | --- | --- | --- |
| **Turn engine** (`turn-engine`) | the session's life, the current turn and its phase, queued follow-ups, a copy of the question gate, retry budgets, the tool batch | events (start, steer, interrupt, clear, stop, questions changed, provider and tool reports, cleanup) give a list of effects | late and duplicate reports, clears and interrupts in every phase, retries, order of effects |
| **Session actor** (`actors/src/actor.rs`, `states/`) | the engine, the conversation, the runtime, pending replies | one handler per message, executes the engine's effects in order | effects that change what a later effect of the same list relies on; waiting for tasks inside a handler |
| **Provider tasks** (`states/provider_task.rs`) | one request in flight, its stream | launch after the previous one, report, end, cancel | the report that comes after the cancel; a failure found early while the task still runs |
| **Tool scheduler** (`states/scheduler.rs`) | the groups of one batch, the job under way | group, authorise, lease, record intent, run, record completion, report | cancellation at every step, panics, a sibling that asks a question |
| **Workspace access** (`workspace-access`) | fair reader/writer lock, reader slots, revision, writer mutex | lease for a tool's effect, release | readers against writers, cancel while waiting, managed processes |
| **Execution scopes** (`utils/src/execution.rs`) | a tree of cancellation tokens, task trackers, registered resources | child, finish, register, follow a workspace | cancel and wait; tasks spawned while waiting |
| **Worker registry** (`worker-registry`, `actors/src/worker_registry`) | entries and their state, allocations per session, budgets, evidence, the session's log of workers | register, run, cancel, wait, complete, collect, clean up, restore | four active and thirty-two starts, one writer, reports across crashes |
| **Worker actors** (`actors/src/worker.rs`, `workers/`) | an actor like the root's with one request to answer | run_worker, stop | the caller must always be answered |
| **Session log** (`session`) | an event log with a snapshot per session, owners, pending tool batch, indexes | record an event, recover, fork, resume, prune | crash between intent and completion, two processes, failing storage |
| **Session generations** (`session/src/generations.rs`) | numbered databases and a manifest | rotate, reload, archive, remove | crash in the middle of a rotation, another process that rotates |
| **Conversation** (`conversation`, `actors/src/compactor.rs`) | history, deferred input, checkpoint | append, defer, plan a request, compact | a compaction prepared from an older history; unanswered tool calls |
| **Interaction** (`interaction`, `common-models/src/interaction`) | work mode, plan, evidence, questions | ask, answer, withdraw, review, authorise | commit before publish, limits, mode changes while tools run |
| **Workflows** (`workflows`) | pipelines, plan continuation, merge approval | run steps, approve, merge | the approval outlives what it approved |
| **Response stream** (`response-stream`) | one response under construction | deltas, completed items, usage | order of items, truncated streams |
| **Change journal** (`utils/src/changes.rs`, `workspace/unix/edits.rs`) | baseline, edit records, observed versions | apply, undo, review | crash between rename and confirmation, other writers |
| **Worktrees** (`utils/src/git/worktrees`) | a git worktree per session and its checkpoints | create at first write, checkpoint, merge, prune | partial failure of git operations |
| **Managed processes, sandbox** (`sandbox`, `utils/src/cargo.rs`) | process registry, isolation | launch, poll, stop | a process that outlives its tool |
| **Immutable and knowledge workers** (`actors/src/immutable_workers.rs`, `knowledge.rs`) | endpoints per conversation, slots, queue | insert, ask, clear, invalidate | a question racing with a clear |
| **File watcher, clients, tools, analysis, knowledge-indexer, commands, app, macros** | caches, HTTP streams, screens | – | little protocol of their own |

How they meet: a user command or a task's report is a message in the actor's mailbox; the handler
feeds one event to the turn engine and executes the effects it returns: report to the interface and
the session log, append history, launch a provider task, spawn the scheduler for a batch, clear,
clean up. Tasks live in the turn's execution scope. `Cleanup` cancels that scope, waits for its
tasks in the background and then posts `TurnCleaned`; shutdown waits inside the handler. The
scheduler takes leases from the workspace, records intents and completions in the session log and
starts workers through the registry; a worker is another actor with the same engine.

What makes the parts correct, in a sentence each: the engine owns every task that runs and tells
the truth about it once; the scheduler runs no edit beside a read; the registry never runs more
workers than it lists, nor two writers; the log never claims less than happened nor more than is
known; a rotation loses no session; the journal never claims an edit that is not there; an answer
given is an answer used.

## 2. How the project is laid out

One module per component, each with the processes that act on it at once: the modules do not share
variables, because the components do not. Where one component relies on another, its module holds
what the other promises: the scheduler's tools are jobs to `TurnMachine`, stored reports are a map to
`WorkerRegistry`, a session's snapshot is one version to `SessionGenerations`. Two components have an
abstract specification of what they promise to the others (`SharedWorkspace`, `DurableSessions`),
which the detailed module implements under a refinement mapping.

An `MC_` module has the model values and constraints of a run, nothing else. Definitions whose
comment starts with "Variant" are mistakes that the definition beside them avoids; no action uses
them. `PROJECT.json` lists under `mutants` which property notices each when it is put in.

Every safety property that a passing run checks is proved, action properties and refinements
included. The order was by weight: types and questions of the engine, the worker registry, plan review,
the scheduler with its refinement, the generations with theirs, knowledge, the ownership of tasks and
turns in the engine, merges, the change journal, what the engine tells of its batches, and the session
log. What stays with TLC is in section 12. A component's proofs have a module of their own;
`SessionProofs` has those of the two modules about what is on disk.

## 3. TurnMachine

One module for the engine and the actor around it, because the hazards are in their meeting: an
effect executed in the wrong order is a defect of neither alone.

**State.** `life` and `stopSignal` are `SessionState` and the actor's stop signal; `phase`, `turn`,
`batch`, `cleanup`, `queue` and `worker` are `TurnState`, `Turn`, `ToolBatch`, `Cleanup`, the follow-ups
and the role of `turn-engine/src/machine.rs` and `turn.rs`; `gate` is the engine's copy of the gate and
`questions` the number of open required questions (`common-models/src/interaction/question.rs`);
`persistence` is `Persistence`, and `behind` remembers that a clear or an activation has failed since
the gate was last set. The tasks are `runs` (provider requests), `execs` (tool executors) and
`cleanups`, each with its turn, its operation, the stage it has reached and whether it was cancelled.
`mailbox` holds what tasks posted, in order. `status`, `replies` and `history` are what the interface
and the session log, the callers of `run_worker` and the conversation were told, written where the code
writes them.

**Actions.** A handler of the actor is one action: event, transition, effects. The user's commands
(`Start`, `Steer`, `Interrupt`, `Clear`, `NewSession`, `Resume`, `Answer`, `StopActor`) may come at
any time; the tasks' reports are taken from the mailbox in order (`ReceiveProvider`,
`ReceiveStarted`, `ReceiveCompleted`, `ReceiveFinished`, `ReceiveAsk`, `ReceiveCleanup`). The tasks
have their own steps: a provider run sends, is late, is cancelled; the executor groups, starts, is
asked, ends, is cut off, panics. Shutdown stops the handling, waits, and finishes.

**Abstractions.** A provider answers with a final response, a tool batch, a failure (transport, rate
limit or fatal) or nothing; text and usage are left out. A tool ends well, fails, repeats a failure
or refuses: the engine stops at the third repetition of a failure, counted per turn instead of per
fingerprint of the failure. Reports of single operations, sleep inhibition and wording are left
out. Workspace relocation is not modelled.

**Storage.** `StorageFails` is `SessionPersistence::fail`, which any record may lead to; it is a step
of its own before the rest of the handler that it happens in. Afterwards a request is spawned with the
failure as its answer (`NewRun`), a batch is refused (`NewExec`, `Refused`) and a worker's outcome is a
failure (`WorkerResult`); another session repairs it. A clear either makes the new session (`Cleared`)
or fails (`ClearFails`, `effects.rs:39`): the engine has opened its gate already
(`machine.rs:442`), the conversation and its questions stay, and nothing sets the gate again before the
next question, answer or session. `status` is what the engine reports; the interface is told Failed
for every end once storage has failed. A request that was sent before the failure may still answer as
if storage worked, which adds behaviours and removes none.

**Constants and bounds.** `Mode` is the actor's request mode, `Starts` the kinds of turns the user
starts (empty for a worker actor, which has no user), `TransportRetries` and `RateLimitRetries` the
budgets. `MaxTurns`, `MaxQuestions`, `MaxRequests`, `MaxOps` and `MaxJobs` bound how often the
environment acts and how many operations one turn performs, never how the engine reacts. Two inputs
are enough for a turn and a follow-up that crosses its end, two jobs for a group and a remainder,
several operations for a result that must precede a request and for reports of requests that were
retried. The code's budgets are 5 transport retries and 2 for rate limits; the runs use at most one,
which is exhausted after a retry. `Mode` is "Continue" in the runs; "SingleResponse" is covered by
the proofs, which hold for both.

**Fairness.** `FairSpec` is weak fairness of the handlers (the actor takes its next message) and of
the tasks: a provider request has a deadline (`request_timeout`), a tool has one (`tool_timeout`),
a cancelled task is dropped or awaited to its end. Nothing is assumed of the user; a queue drains
only if questions are answered again and again (`[]<>(questions = 0)` is a premise of
`QueueDrains`).

### Runs

| Run | What it asks |
| --- | --- |
| `interactive` | two inputs, a required question, batches, a retry, failing storage, clears that succeed or fail, input during a pending clear, interrupts, switches and stops in every order: no follow-up is left behind by an idle session (`NoOrphanedFollowUps`), a waiting turn waits behind a closed gate, the gate is closed only with a question open, and a question closes it unless a clear is pending or has failed (`QuestionsAgree`), a live task is always one the engine waits for or has cancelled (`NoUnownedWork`) |
| `agents` | a user's turn or a worker's requests, with batches of up to two jobs and a retry: the conversation has the result of a batch, once and truthfully, before the next request (`ResultsAreTold`); under fairness a turn settles however it is interrupted or cleared (`TurnSettles`), `run_worker` is answered, storage or no storage (`WorkerIsAnswered`) and a stop ends (`StopCompletes`) |
| `follow_ups` | three inputs and a question: every turn reported at work is in the engine's hands (`TurnsAreOwned`), no task of an earlier turn runs beside a later turn's (`TurnsDoNotOverlap`), and under fairness queued follow-ups are taken up (`QueueDrains`) |
| `lost_turn` | the finding below |

`agents` has three action constraints in `MC_TurnMachine`: `OneRole`, since a process is the session of
a user or of one worker, never both, `SmallBatches`, which lets only an input's first batch have
two jobs, and `WorkersLoseStorage`, which leaves the failing storage of a user's session to the other
runs. The part of `ResultsAreTold` about the record's truth leaves out
exchanges recorded by a forced stop while reports are unread: there the code records the batch stored
in the session database, whose completions the scheduler wrote itself (`session/src/control.rs:61`);
that is `SessionLog`'s subject. The runs `agents` and `follow_ups` accept no input while a clear is
pending (`InputDuringClear = FALSE`) because of the finding; `interactive` does.

### Finding: a follow-up begun by a clear is lost

A clear of a working turn waits for the turn's cleanup. Input accepted meanwhile is queued. When the
cleanup arrives, `finish_interactive` (`turn-engine/src/machine.rs:835`) begins the next follow-up
and returns `ClearHistory`, `BeginTurn` and `LaunchProvider` in this order. Executing `ClearHistory`
activates a fresh session, which replaces the whole `TurnMachine`
(`actors/src/states/actor_state.rs:143`); the old machine is dropped and with it the `OwnedScope` of
the turn it had just begun. The follow-up is reported as running and its request starts in a
cancelled scope; nothing reports it again. `machine_tests.rs:552` expects the request to belong to
the follow-up; it tests the machine without executing the effects. Run `lost_turn` has the trace.

### Proofs

`TurnMachineProofs` proves `TypeCorrect == Spec => []TypeOK` for every request mode, every set of
starts and all retry budgets and bounds that the module's named assumptions allow. It
has one lemma per helper that says what the helper returns for typed arguments, one per action, and
the temporal step.

Then the safety of follow-ups, questions and requests:

- `FollowUpsAreTakenUp` (`NoOrphanedFollowUps`) and `QuestionsAreSafe` (`QuestionsAgree`, that is
  `WaitingNeedsGate`, `GateNeedsQuestion` and `QuestionClosesGate`) from one invariant, `QuestionInv`,
  because each part needs the others: a follow-up may stay queued only while the gate is shut, the gate is shut
  only while a question is open, and a turn waits only in that case. The conjunction is inductive
  relative to `TypeOK`: every handler that leaves the session idle has looked at the queue, and every
  handler that opens the gate takes up what the gate held back. A clear opens the gate before the
  question goes; the exceptions of `QuestionClosesGate` are that time and, when the clear fails, the
  time until the next question or answer.
- `RequestsAreOwned` – `PendingRequestIsOwned`. Strengthened by `WorkerIsAtWork`: an active session
  that holds a worker's request is not idle. It is what the step `BecomeIdle` has to give up, so the
  proof shows that every way to become idle answers the request.
- `OutcomesAreFinal` – `RepliesAreFinal`, an action property, from the same invariant.

Its second half is about who owns what runs:

- `TasksAreOwned` – `NoUnownedWork`. Alone it is not inductive: a message could be taken for the
  answer of a task that is still live, and the machine would move on without it. `TaskInv` adds that
  a turn begins once (`NamesAreNew`), that the tag of a new operation is above all tags in use, so
  that a retry is no older request (`TagsAreNew`), and that a response with tool calls and the end of
  an executor come from tasks that have ended or are cancelled (`ReportsAreLate`).
- `TurnsAreApart` – `TurnsDoNotOverlap`, by `LoneInv`: only the turn at work has live tasks, and a
  cleanup message is in the mailbox only when its turn's tasks have ended.
- `PromisesAreKept` – `TurnsAreOwned`, by `OwnInv`: every turn whose last report promises a later one
  is the machine's turn or in its queue, and an idle machine has it in the queue. `EndInv` adds that
  an actor that shuts down is never at work.

`TurnsAreApart` and `PromisesAreKept` assume `~InputDuringClear`, the condition of the finding: with
input during a clear the machine is replaced while it owns a turn, and run `lost_turn` refutes
`TurnsAreOwned`.

Last, what the conversation is told:

- `ConversationIsTold` – `ResultsAreTold`, for any number of jobs, retries and turns, by `TellInv`
  beside `TaskInv`. The batch that is recorded is the machine's, which knows only what messages told
  it, so the invariant says that the batch differs from the executor only by messages on their way
  (`BatchFollows`), that such a message tells of what has happened (`NewsIsOfJobs`), and that the end
  of an executor or of a turn comes after all of them (`NewsIsInOrder`, `CleanupsAreLate`). Then each
  executor is recorded once and before the next request (`ExchangesAreOnce`) and truthfully
  (`ExchangesAreTrue`), but for a forced stop with reports unread.

## 4. WorkerRegistry

The root delegates: a `start_worker` tool prepares a worker, registers it and spawns a task; the
task runs the worker's actor, stores its report in the session log and only then publishes it in the
registry. The module covers the registry (`worker-registry/src/lib.rs`, `state.rs`, `report.rs`), the
launch (`actors/src/worker_registry/launch.rs`), the tools that read and cancel
(`actors/src/tools/worker_status.rs`), the completion review of the root's answer, and what the
session log does with workers when sessions are created, resumed, forked or lost in a crash.

**State.** `entry[o][i]` is the state of worker `i` in the registry's entries of owner `o` (a
session), `unread` the finished entries whose report nobody collected, `starts` the allocations,
`used` the ids handed out. A task is `stage`, `owner`, `role`, `report` and membership in
`cancelled`; the stages are the awaits of `start` in `launch.rs`:

| `stage` | The code is |
| --- | --- |
| `Registering` | between `register` and the stored registration |
| `Spawned` | spawned, not yet polled |
| `Working` | in `run_worker`, under its deadline |
| `Ended` | done, its work cleaned up, the report not yet handed to the log |
| `Settled` | the report stored, or failed to be; the writer lock still held |
| `Released` | the lock given back, `complete` still to be called |

`holders` is the workspace's writer mutex (a set, so that the model could show two holders), `tool`
what the root's tool task is in the middle of, `turn` the root's turn, `session` the open session,
`saved` and `log` what the session database knows: the sessions and, for each, the status of its
workers (`Registered` until a report is stored).

**Actions.** One per registry call or step of the task. `Register` is `PreparedWorker::new`, the
admission and the entry, which the code does without an await; `StoreRegistration` and
`RegistrationFails` are the two ends of storing it. `Cancel`, `Cleanup` and `Collect` are the calls
of `worker_status`. `TaskRuns`, `RunEnds`, `StoreReport`, `ReleaseWriter`, `Publish` are the task.
`StopTurn`, `Answer`, `TurnEnds` are what the turn does to workers: both ends of a turn cancel its
scope, and the turn is over when the scope has drained. `NewSession`, `Resume`, `Fork` restore the
registry from a snapshot, `Crash` leaves the log only.

**Abstractions.** A report is its status; the request, progress, evidence and token usage are data
of other components. A call that is refused changes nothing and is not a step. The tools of one
batch of the root are polled by one task, and `start` does not await, so no other tool of the root
runs between its two steps – the tasks and the stop of the turn do (`tool = "Start"`). Storage that
fails has stored nothing. The recovery that `/resume` commits to the log may succeed although
opening the session fails afterwards (`NotOpened`); the session that was open then stays open. Ids
come from the time and a counter and are never reused.

**Constants.** `MaxActive` and `MaxStarts` stand for the code's 4 and 32; `Owners` and `Ids` are the
sessions and workers of an instance. They are interchangeable, which the safety runs use as
symmetry; the liveness run does not.

Run `worker_sessions` (two sessions, two workers, a limit of two): unfinished entries and tasks are
the same workers, all of the open session, and none is left when a turn is over (`WorkIsOwned`);
writers and the root's edits exclude each other (`EditorsAreAlone`); no answer before every report is
read (`AnswersSeeReports`); registry and log agree whatever crashes (`LogIsTrue`); a turn that stops
becomes idle (`TurnBecomesIdle`). Two sessions are the fewest that can be forked, switched and resumed
against each other. The theorems below remove the bounds.

**Fairness.** Weak fairness of each task, of the two ends of a start, of the end of an edit and of
the end of the turn: spawned tasks are scheduled, `launch.rs:169` wraps a worker in a timeout, tools
of the root have theirs. Nothing is assumed of the root's model or of the user.

### Proofs

`WorkerRegistryProofs` proves every safety property of the run, the limit on running workers and on
starts, and that a stored report is final, for any sets of sessions and ids and
any limits, from `NamesAssumption` (the root is no worker, "no session" is no session) and
`LimitsAssumption` (the limits are naturals). None of the properties is inductive alone; `Inv` adds:

- `Listed` – unfinished entries and tasks are the *same* workers, both of the open session. From it
  and `Limited` (the count over entries that `reserve` makes) follows the limit on tasks. It needs `Idle`: sessions are switched only when the turn is over, and the turn is over only
  when no task is left, so no restore meets a running worker.
- `Locked` – a write worker holds the lock from its preparation to its stored report, and the lock
  has one holder.
- `Stored` – how far the log is at each stage: nothing before the registration is stored,
  `Registered` while the worker works, its report (or a failure to store it) afterwards; ids that
  were not handed out and sessions that were not saved are in no log.
- `Counted` – the allocation of the open session is never behind its log, and ahead of it while a
  start is under way. This is why the limit on starts survives `Restore`, which recomputes the
  allocation from the log.

There is one lemma per part and step (`ListedStep`, `StoredStep`, ...), each split by action, with
the switches of sessions (`SwitchEntries`, `ResumeStored`, `ForkStored`) and steps that leave the
log alone (`StoredSame`, `CountedSame`) shared between them.

Model-checked only: `TurnBecomesIdle`.

## 5. ToolScheduler and SharedWorkspace

The tools of a turn, from the batch to the reports: `actors/src/states/scheduler.rs` over
`workspace-access/src/lib.rs`, with the managed processes of `utils/src/cargo.rs` and `sandbox`.

**State.** Each executor (the root's, and one per worker it delegates to) has its `batch`, its
`phase`, the `group` it runs and the `next` index. A job is a pair of executor and index; `stage` is
the await it is at, `outcome` what it reports, `helper` the worker whose report it waits for. `queue`
is the fair lock with its waiting jobs, `writer` the mutex of `Workspace.writer`, `revision` and
`reported` the revision and who was told it. `processes`, `started` and `stopping` are the process
registry, `policy` what authorisation allows now, `edits` and `tasks` what tools did to files and what
they left running, `inGit`, `worktree` and `checkpoint` whether the project has Git and the session a
worktree.

**Tools.** A kind stands for the tools of one effect (`tool_defs.rs:32`). `start_worker` ("worker") is a
`DelegateRead`: it is concurrent, allowed in plan mode, and returns when its worker runs; what the
worker may do is authorised when it is launched. `gather_context`, `make_changes`, `validate_rust` and
`run_workflow` ("gather", "change", "validate", "workflow") wait inside the tool until their worker's
report is in the registry (`delegated.rs:54`), which is after the worker's own batch, its processes and
its writer lock (phase "gone"); the steps of a workflow do so one after another. A `run_workflow` has
the effect of a workflow that edits; those that only read or validate are "gather" and "validate". When
a delegation is interrupted its worker, which belongs to the turn, runs on.

**Actions.** What an executor does between two awaits is one action, except where another thread can
come between: the grant of the lock, the look at the session's worktree (`CheckpointFails`), the checks
before the tool with the creation of a worktree (none outside Git), the tool's end, the release of the
lease and the record of the completion are steps of their own. Each may fail where the code's does, and
cancellation may come at each of them.

**SharedWorkspace** is the promise to the tools: readers together or one editor alone, and a revision
names one content. The mapping takes readers and editors from the stages that hold a lease, the
content from the sum of edits, `told` from the revisions reported.

Run `leases` checks seven sets of batches (`BatchesThatMeet`), the root's and that of a worker: a worker
that reads beside a patch of the root, a worker's check after the start of a process, the start and the
stop of a process before a question, a delegation and a read in one group, a delegated change, a
delegated validation, and a workflow of two steps whose second worker has nothing to run. The workflow
is outside Git, the others in it. The run asks `ImpactIsTrue`, `NoEditBesideProcess`, the refinement
`WorkspaceIsShared` and `BatchesEnd`. Of a delegation `ImpactIsTrue` says only that "not started" is
true: a stopped workflow reports no workspace change whatever its workers edited (`scheduler.rs:138`),
and their reports tell of that. Two workers are the fewest for a workflow that goes on, and two places
for a group and a remainder.

**Fairness.** Weak fairness of the executors and their tools, of cancellation once it has come, of the
end of work that is awaited, and of processes told to stop or cancelled: spawned tasks are scheduled and
the processes of a cancelled scope are killed. No deadline of a tool is relied on, and nothing is assumed
of a process nobody stops, of the user, or of cancellation coming. That the root's batch ends depends on
the batches of the workers that its tools wait for; these may need the writer lock, which a delegating
tool does not hold.

`ToolSchedulerProofs` needs no finiteness: `ToolInv` says for each job what it waits for, holds and
has done at its stage (`Waiting`, `Honest`), who may hold the workspace together (`Alone`) and what a
worktree is needed for in Git (`Rooted`). Steps are either aside (no lease, edit or revision moves) or
steps of one job. In the refinement, `Grant` is `StartReading` or `StartEditing`, an edit is `Edit`, a
release `StopReading` or `StopEditing`, an edit refused beside a process `Skip`; the others stutter.
Model-checked only: `BatchesEnd`.

## 6. SessionLog

One session on disk (`session/src/lib.rs`) and the process that owns it: its conversation, its turn
and the tools of that turn. An event is one transaction; it may fail, without effect, and the process
may crash between any two. Another process then claims the session, records `Recovered` and goes on.

`stored` is the snapshot (history, pending batch, deferred answers, queue, checkpoint, processes),
`conversation` the process's copy; `ran`, `accepted`, `heard` and `excused` are observations the
properties compare them with. The records of one handler come in the code's order; after storage has
failed no request and no tool starts.

Run `crashes` (two prompts, a question, two calls, one of which starts a process, one more text, two
lives, one failed record) asks: a call that took effect is never told not to have run
(`EffectsAreTold`); what the process tells model and user is on disk (`ConversationIsStored`); an
accepted input survives, once and in order (`InputsSurvive`); calls and results stay together in every
history that may be sent (`ExchangesAreWhole`). Two lives are the fewest with a recovery, and one
failed record lets a handler stop between any two of its records; a second fault meets a process that
has stopped.

Left out: the status of turns, how a question is asked, artifacts, forks, indexes, workers (section
4), runtime updates, and contention of two live processes for a session (section 7).

The first part of `SessionProofs` proves all four properties, and the types, for any prompts,
questions and calls and any number of texts, lives and failed records. Calls may be infinitely many;
`SessionAssumption` asks that those which start a process are finite, because recovery writes a message
for each, and that prompts are not questions. `Vec::retain` is `Without`, a sequence defined by the
ranks of what is kept, so that its order can be proved without induction. The invariant has four layers,
each inductive relative to those before it.

- `SafeInv`, for `EffectsSurvive`. `BatchInv` pairs the step a job has reached with what the snapshot
  says of its operation (`Steps`): a job that ran is "intended" or "done" on disk, however its
  completion failed. `EffectsInv` adds that an identifier is used once, so no exchange of the past
  tells of a call at work. `DeferredInv` says that only answers wait for a batch. `ProcessInv` is about
  the window between the start of a process and the record of it, in which the process may already
  have ended.
- `StoredInv`, for `ConversationSurvives`: memory and disk agree, and a prompt is in the queue or in
  turn, not in both (`QueueInv`), so that the record that ends a turn takes nothing from the queue.
- `WholeInv` and `MemoryInv`, for `ExchangesStayWhole`. `heard`, the calls at work when an answer was
  given, is compared with the calls that are still pending: the answer may be in a history only when
  none of them is. A compaction under preparation keeps ending after an exchange, because histories
  only grow.
- `OnceInv`, `HeldInv` and `OrderInv`, for `InputsAreKept`. An input is in one of history, deferred
  answers and queue (`OnceInv`); every accepted one is, and the live process has a prompt that waits on disk in turn or
  in its own queue (`HeldInv`), because that queue decides which prompt is said next. `OrderInv` says that
  each of the three is in the order of acceptance and that nothing in the queue, and no deferred answer,
  was accepted before an input of the history. `InputCases` reduces the actions to the few things they
  do to inputs, so that each of these is proved over nine cases instead of twenty.

The layers were model-checked on the run's bounds before they were proved.

## 7. SessionGenerations and DurableSessions

All sessions of a project live in one database until it is full; then the active conversations move
to the next and the oldest of three is archived (`session/src/generations.rs`). Several processes do
this at once, under a lock that writers share and rotation holds alone.

**State.** `manifest` is `generations.json`, `db` and `archives` the files, `cached` the generation
that each process's open catalog takes for the current one, `proc` where each process is, `handles`
the sessions it has open. How much a database holds is left open: a write may find it full.

**Abstractions.** One thread per process; the removal and the opening of a next database are one step;
a crash ends the process, a failed rotation returns an error. A session is its version and its owner.
Reads are in the mapping, which looks a session up as `Catalog::database` does.

**DurableSessions** is one store of one version and one owner per session, changed by its owner, with
`Retire` for whole inactive conversations and `Exit` for a process. Run `rotation` (two processes, a
session with a worker and another, three generations, four operations, two faults) checks the
refinement `StoreIsDurable` and `FamiliesStayTogether`. Three generations are the fewest with an
archive and four operations the fewest that create a family, another session and change one after.

The second part of `SessionProofs` proves both for any sets of processes and sessions and any parents –
not even a family tree is assumed to be finite or free of cycles. `GenerationsInv` is `StoreInv` (an
archive is a copy of an old database that does not change any more, families are archived whole,
ancestors exist, families are together) and `WorkInv` (who holds the lock, that the layout is known
under the lock, that the next database holds whole families and every running owner's sessions, that
sessions about to be created are unborn). Relatedness is an equivalence because ancestors are linearly
ordered. In the refinement a commit is `Create`, `Claim`, `Record` or `Release`, the switch of the
manifest is `Retire` or a stutter, a crash is `Exit`, and everything else shows a reader nothing. That
the last archive of a session exists follows from the least-number principle of the library.

## 8. ChangeJournal

Edits of files and what the session's journal says of them (`utils/src/changes.rs`,
`utils/src/workspace/unix/edits.rs`), beside other programs that write the same files. The writer's
lease admits one edit, undo or validation at a time, so there is one `task`; `records` and
`validation` are what is saved, `observed` what this process has seen, `wrote`, `known`, `late` and
`touched` observations.

`Listed` are the files of the inventory: Git's or the scan's, and of these the sources
(`changes.rs:813`). Only they are in the baseline and in the fingerprint of a validation
(`Workspace`); of a file outside, ignored or an archive, the baseline is `Missing` although it exists.

Run `edits` (two files, one of them `Listed`, two contents, one command, three tasks, one foreign write,
one failure or crash) asks: the journal is what happened (`JournalIsTrue`); a review never gives work to
the wrong side (`ReviewIsHonest`); a validation counts only for the inventoried contents it ran with
(`EvidenceIsCurrent`); Joe replaces nothing it has not read (`ForeignEditsSurvive`), inside the
inventory or out of it. One part of `ReviewIsHonest` cannot hold of every file: a file outside the
inventory that Joe alone has read and edited is reviewed as `JoeAndExternal`, because what Joe read
differs from the baseline's `Missing` (`changes.rs:678-700`). The property asks of a `JoeAndExternal`
that another program wrote the file or that its contents were no baseline. Three tasks are an edit, its
undo and something after; one foreign write is enough for every place between two steps.

Left out: the index and git parts of a review, commit messages, size limits. The baseline is captured at
the start, and the inventory does not change (rules of what is ignored are not edited). The window
between the last comparison and the rename is in the code, and exempted by `late`; a foreign write and
its undoing during one validation is not seen by the code either, since it compares contents.

A review looks at the edits of a file that records have begun, in the order of the records; a record
has at most one of a file, so the module speaks of the set `Intended(f)` of records and of its greatest
member before another (`LeftBefore`) instead of a list.

`ChangeJournalProofs` proves all four properties for any files, contents, commands and bounds.
`EditsInv` compares the journal with what Joe really did, `wrote`. `JournalInv`: every write is an edit
its record intends, every confirmation a write, records write in their order and a file once each, an
undo reverses a fully applied record, and while no other program has written a file each of Joe's writes
starts from what the one before it left, the first from what was on disk (`Leaves`). `WorkInv` is what
the work at hand knows at each step: the saved record is the one it works with unless it is failing,
what it has made is confirmed or in flight, and the versions it will replace were read or written by
Joe. That an observed version is known after a restart (`ObservedIsKnown`) needs the journal: the
version the last confirmed record left was written. A review is honest because, where nothing is in
flight, the records that intend a file and the writes of it are the same sequence (`LeftIs`); a crash
between the save and the rename breaks that, and is what `Uncertain` is for.

## 9. SessionMerge

The worktree of a session: created at the first write (`session/src/runtime.rs`), offered by a
completed task, merged by the user's answer (`workflows/src/merge`), moved by Git
(`utils/src/git/worktrees/session.rs`), pruned by `/prune` (`session/src/prune.rs`).

Git is trees of versions, numbered in the order in which they are written: a commit is its tree, its
parents and its ancestors, the merge base the greatest common ancestor. Refs of one libgit2 transaction
are written one after another in any order. `actor` is each session's actor, `store` what it stored,
`pruner` another process; users edit worktrees and the root by hand. A process may end and storage fail
between any two records and any two writes of Git. A turn is a task or the resolution of a conflict.

Run `merges` (two sessions, two files alike, two edits, two turns, one trouble) asks: main takes only
what the standing approval covers (`MainIsApproved`) and loses nothing (`MainKeepsItsWork`); a
worktree goes only when its files are in main's past (`NothingIsLost`); a fork keeps what it reads
(`ForksKeepTheirSource`); question and approval agree at rest (`QuestionsMatch`). The system stops
when turns and edits are used up, so deadlock is not checked.

Left out: ignored files, the index, other worktrees, contention for Git's locks; an amended message is
a new commit with the same tree; a merge asks for a message exactly when the task left something to
commit; `Leave` within a turn is its end and then `Leave`. What modelling met in the code, and the
module keeps:

- `runtime.rs:72`: giving an unused worktree back is a removal by Git and then three records, between
  which storage may fail (`DiscardUnused`). A fork whose first write fails reads its source again, which a merge may have
  removed meanwhile; the property excepts it and its forks (`regained`).
- `prune.rs:66`: readers are looked for before the session is claimed.
- `execution.rs:331`: a conflict is recorded before its worktree is prepared; if that fails, the
  approval stays `Resolving`. No property covers this one.
- `runtime.rs:98`: a crash between the worktree's creation and its record leaves a branch that blocks
  later first writes and that `/prune` does not list.

`SessionMergeProofs` proves all five properties, and the types, for any sessions, files and bounds.
`MergeInv` has three parts. `RepositoryInv`: a commit is no older, file by file, than what it descends
from, the ancestors of main are a line, and the checkout is no older than main; each follows from merges
taking the younger side of a file. `SessionInv`: a worktree is no older than its branch but for the
markers of a stored conflict, recorded squashes are the approved commit put `Onto` a commit of main, and
an actor at each step believes what is stored. `ConsentInv`: what an approved merge, a conflict being
prepared, its resolution and the commit that is offered without a question hold beside main is in the
standing approval. `BaseOnto` joins them: the merge base of a line and a commit put onto one of its
commits is that commit, so a squash takes only what was approved however far main has moved. Without the
line the merge base could be an older commit and a merge bring back what main had replaced. Which steps
can remove a worktree (`TreesStay`) and move a checked session's main (`CheckedMoves`) then give the
action properties.

## 10. KnowledgeGenerations

A root conversation prepares a generation of workers that answer from frozen sources
(`actors/src/knowledge.rs`, `immutable_workers.rs`). `slot` says who prepares and who is served;
`gens` each generation with what its `Freshness` compares; `alive`, `work` and `mailbox` the worker
actors; `calls` the tool calls with the await each is at; `world` what changes under them: the files
of main and of the worktree, where the session works, the model. `unseen` remembers of each result
what has not been right at any moment since it was made.

Run `knowledge` (three calls in order of their start, two preparations, two changes, one place in the
queue) asks: who asks finds the workers of the generation that is served, and cleared knowledge stays
away (`RoutesAreKnown`); a result was right about files, model and service at some moment after it was
made (`AnswersAreCurrent`); a preparation gives the slot back (`PreparationsEnd`, with fairness only
for a call that can go on). Calls, preparations and changes end, so deadlock is not checked.

One worker stands for a generation's; snapshot workers, reports of status and request budgets are left
out, the capture of files is one step, preparing runs alone as in the code. Calls of one group are
polled by one task in the code, so their interleaving here is larger. A check that cannot be made
invalidates the generation like one that fails (`Judges`). Two things the code does and the properties
allow: `repartition_knowledge` reads the generation before it begins (`knowledge.rs:568`), and the
workspace may change between a preparation's last check and its publication.

`KnowledgeGenerationsProofs` proves both invariants for any bounds. `KnowledgeInv` is `RegistryInv`
(tickets are handed out in order and none that was cleared is held; each preparation's progress is on
a generation of its own; what serves was published), that a question is with the worker its call was
made for, and `ChecksAreKept`: once a check after the answer has compared the files, "files" is not
among what was never right. The last step of the check then rules out the rest, because a valid
published generation is the one that is served.

## 11. PlanReview

The plan of a session, the requirements it was made for, questions and the approval of a finished plan
(`interaction/`, `workflows/src/plan.rs`, `actors/src/states/plan_completion.rs`). `saved` are the
sessions in storage, `memory` the actor's copy, `policy` the copy tools are authorised by, `turn` what
the turn's last request showed the model. A handler is a sequence of updates, each recorded before it
is taken over; storage may fail or the process crash between any two.

Run `plans` asks `CompletionIsSupported` (a completed step keeps its evidence, and while the plan is
current the request that completed it knew all wishes), `OfferIsFresh` and `CopiesAgree`. A third update
is the first that could leave a step completed although the requirements have changed since, which
`plan.rs:140` refuses; `LongPlansAlone` in `MC_PlanReview` admits it in one session without faults. An
offer that is left beside the session that already implements the plan (a crash in `NewAgent`) is in the
model and caught by no property.

The model's updates use the revisions its last request showed. After a crash or a failed record the
process is `Stopped` until `Resume` on any saved session; `/resume` in a live process is left out.
Compactions change nothing; an approval's workflow shows the model nothing; a step cites one source
(eight in the code, which `PlanAssumption` keeps below the evidence limit as there); ids of questions
are the smallest unused; a prompt queued behind the gate begins after it opens. A crash between the
record of the mode and the withdrawal leaves an offer in Implement mode, and one in `NewAgent` an extra
session with the plan: both are in the model. `wishes` and `knew` are observations; a step that stays
completed keeps what its completion knew (`Restated`).

`PlanReviewProofs` treats a handler as a path of updates each of which follows the one before
(`Follows`), so that a crash at any point leaves a state the path went through. `ReviewInv` is what
every saved session satisfies (`SavedInv`), the agreement of the copies, and what a running turn has
seen (`TurnInv`).

## 12. What the proofs leave to TLC

- Liveness (`TurnSettles`, `QueueDrains`, `StopCompletes`, `WorkerIsAnswered`, `TurnBecomesIdle`,
  `BatchesEnd`, `PreparationsEnd`): fairness and ENABLED are outside the prover's reach.
- `lost_turn` is a counterexample; the theorem that the property holds without the input it needs is
  `PromisesAreKept`.
- What is recursive: no module with a theorem declares a RECURSIVE operator, so nothing was left out for
  it. Where the source filters, folds or follows parents, the modules use sets, ranks and least sets.

Every invariant and every action property of a passing run is stated by a theorem.

The theorems assume the named assumptions of each module's constants and nothing else, unless their
statement says so.

## 13. Not modelled

Drawing, wording, file search, provider wire formats, project analysis, the sandbox's isolation
rules and provisioning, generated code. `PROJECT.json` lists every source file under a component
with the reason.
