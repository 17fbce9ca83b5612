----------------------------- MODULE TurnMachine -----------------------------
(***************************************************************************)
(* The turn state machine of one agent session (turn-engine/machine.rs and *)
(* turn.rs) as its actor runs it (actors/src/actor.rs and                  *)
(* actors/src/states): provider requests, tool batches, cleanup and        *)
(* shutdown are tasks that run beside the actor and report to its mailbox. *)
(*                                                                         *)
(* A handler of the actor runs to completion and executes the effects of   *)
(* its transition in order, so one handler is one action.  User commands   *)
(* are handled at any time; the messages of the tasks wait in `mailbox',   *)
(* whose order is what the protocol between cleanup and tasks relies on.   *)
(***************************************************************************)
EXTENDS Integers, Sequences, FiniteSets

CONSTANTS
  Mode,               \* RequestMode of the actor: "Continue" | "SingleResponse"
  Starts,             \* the TurnStart kinds of user inputs; {} without a user
  MaxTurns,           \* bound: user inputs are accepted while fewer turns exist
  MaxQuestions,       \* bound on the required questions ever raised
  MaxRequests,        \* bound on the RunWorker requests
  MaxOps,             \* bound on the operations (tags) of one turn
  MaxJobs,            \* bound on the tool calls of one batch
  TransportRetries,   \* retries of a request that failed in transport (5)
  RateLimitRetries,   \* retries of a rate-limited request (2)
  InputDuringClear    \* may the user submit input while a clear is pending?

ASSUME ModeAssumption == Mode \in {"Continue", "SingleResponse"}
ASSUME StartsAssumption == Starts \subseteq {"Provider", "Tool"}
ASSUME BoundsAssumption ==
  /\ MaxTurns \in Nat /\ MaxQuestions \in Nat /\ MaxRequests \in Nat
  /\ MaxOps \in Nat /\ MaxJobs \in Nat
ASSUME RetryAssumption == TransportRetries \in Nat /\ RateLimitRetries \in Nat
ASSUME ClearAssumption == InputDuringClear \in BOOLEAN

VARIABLES
  life,        \* SessionState: Running, Closing, ShuttingDown, Stopped
  stopSignal,  \* the actor's stop signal is set (post_stop runs next)
  phase,       \* TurnState
  turn,        \* the turn that owns the phase
  batch,       \* its tool batch, in Tools and in Stopping after Tools
  cleanup,     \* work, outcome and history disposition of a stopping turn
  gate,        \* QuestionGate of the session
  queue,       \* accepted follow-ups
  worker,      \* SessionRole: request number of the worker role, or 0
  questions,   \* unanswered required questions of the interaction state
  asked,       \* required questions raised so far (bound only)
  persistence, \* Persistence of the session state: Ready until a record fails
  behind,      \* a clear or an activation has failed since the last
               \* synchronisation of the gate (read by the properties only)
  runs,        \* provider tasks
  execs,       \* tool executors, the finished ones included
  cleanups,    \* turns whose cleanup task waits for the turn's tasks
  mailbox,     \* messages of the tasks to the actor
  status,      \* last lifecycle reported of each accepted turn
  replies,     \* outcome of each RunWorker request
  history      \* tool exchanges in the conversation

engine  == <<phase, turn, batch, cleanup, runs, execs, cleanups, status>>
control == <<life, stopSignal>>
asking  == <<questions, asked, persistence, behind>>
vars == <<life, stopSignal, phase, turn, batch, cleanup, gate, queue, worker,
          questions, asked, persistence, behind, runs, execs, cleanups,
          mailbox, status, replies, history>>

-----------------------------------------------------------------------------
(* Values.  A definition whose comment starts with "Variant" is a mistake  *)
(* that the definition after it avoids; no action uses it.                 *)

Lives      == {"Running", "Closing", "ShuttingDown", "Stopped"}
Phases     == {"Idle", "Provider", "Tools", "Waiting", "Stopping"}
Gates      == {"Open", "Required"}
Outcomes   == {"WaitingForInput", "Completed", "Cancelled", "Failed"}
Terminal   == {"Completed", "Cancelled", "Failed"}
Status     == {"Queued", "Running", "WaitingForTools", "WaitingForInput",
               "Cancelling", "Saved"} \cup Terminal
Entries    == {"Queued", "Running", "Completed"}
Jobs       == {"queued", "scheduled", "running", "asking", "done"}
Failures   == {"Transport", "RateLimit", "UsageLimit", "Other"}
Updates    == {"Tools", "Continue", "Complete", "Compacted", "Reconcile"}
                \cup Failures
Results    == {"ok", "fail", "fatal"}   \* fail: repeats a failure of the turn
WorkerOutcomes == {"Pending", "AlreadyRunning", "Stopped"} \cup Terminal

NoTurn    == [id |-> 0, op |-> 0, attempt |-> 0, plans |-> 0, failures |-> 0]
NoBatch   == [entries |-> <<>>, stop |-> FALSE]
NoCleanup == [work |-> "None", outcome |-> "None", clear |-> FALSE]

FollowUp(id, start) == [id |-> id, start |-> start]

Message(kind, tag, job, what) ==
  [kind |-> kind, turn |-> tag.turn, op |-> tag.op, job |-> job, what |-> what]

Tag(t) == [turn |-> t.id, op |-> t.op]
IsTagged(x, t) == x.turn = t.id /\ x.op = t.op

\* Variant: stopping a turn leaves its tasks running.
CancelNothing(tasks, id) == tasks

\* ExecutionScope: cancelling a turn's scope cancels the tasks below it.
CancelTurn(tasks, id) ==
  {IF x.turn = id THEN [x EXCEPT !.cancelled = TRUE] ELSE x : x \in tasks}

CancelAll(tasks) == {[x EXCEPT !.cancelled = TRUE] : x \in tasks}

\* Variant: the queue is drained without a report.
CancelSilently(st, q) == st

\* Session::cancel_queue: every queued follow-up is reported Cancelled.
CancelQueue(st, q) ==
  [i \in DOMAIN st |->
     IF \E k \in DOMAIN q : q[k].id = i THEN "Cancelled" ELSE st[i]]

\* ... and the queue is drained.
DrainQueue(q) == <<>>

Enqueue(q, f) == Append(q, f)

SaveQueue(st, q) ==
  [i \in DOMAIN st |->
     IF \E k \in DOMAIN q : q[k].id = i THEN "Saved" ELSE st[i]]

Report(st, id, s) == [st EXCEPT ![id] = s]

\* ToolBatch::messages: what the conversation records of each tool call.
Exchange(t, b) == [turn |-> t.id, op |-> t.op, entries |-> b.entries]

\* Effect::AppendHistory
Record(h, t, b) == Append(h, Exchange(t, b))

\* HistoryDisposition of a turn that is already stopping
Disposition(pending, clear) == pending \/ clear

-----------------------------------------------------------------------------
(* The transitions that move the engine.  `st' is the status after the     *)
(* reports already made by the handler.                                    *)

\* Session::stop and Effect::Cleanup
Stop(t, b, work, outcome, clear, st) ==
  /\ phase' = "Stopping"
  /\ turn' = t
  /\ batch' = b
  /\ cleanup' = [work |-> work, outcome |-> outcome, clear |-> clear]
  /\ runs' = CancelTurn(runs, t.id)
  /\ execs' = CancelTurn(execs, t.id)
  /\ cleanups' = cleanups \cup {t.id}
  /\ status' = IF outcome = "Cancelled" THEN Report(st, t.id, "Cancelling")
                                        ELSE st

StorageFailed == persistence = "Failed"

\* ProviderContext::spawn: without storage the task only reports the failure.
NewRun(t) ==
  [turn |-> t.id, op |-> t.op,
   state |-> IF StorageFailed THEN "refused" ELSE "streaming",
   cancelled |-> FALSE]

\* SessionTurn::prepare_tools: without storage no job is begun.
NewExec(t, n) ==
  [turn |-> t.id, op |-> t.op, live |-> TRUE, cancelled |-> FALSE,
   halted |-> StorageFailed, jobs |-> [j \in 1..n |-> "queued"]]

Held(g) == g = "Required"

\* Session::launch_provider and Effect::LaunchProvider; `previous' says
\* whether the turn's previous request is cancelled and awaited.
LaunchProvider(t, g, previous, st) ==
  \/ /\ Held(g)
     /\ Stop(t, NoBatch, "Provider", "WaitingForInput", FALSE, st)
  \/ /\ ~Held(g)
     /\ phase' = "Provider"
     /\ turn' = t
     /\ batch' = NoBatch
     /\ cleanup' = NoCleanup
     /\ runs' = (IF previous THEN CancelTurn(runs, t.id) ELSE runs)
                  \cup {NewRun(t)}
     /\ status' = Report(st, t.id, "Running")
     /\ UNCHANGED <<execs, cleanups>>

\* Session::launch_tools and Effect::LaunchTools
LaunchTools(t, n, st) ==
  /\ phase' = "Tools"
  /\ turn' = t
  /\ batch' = [entries |-> [j \in 1..n |-> "Queued"], stop |-> FALSE]
  /\ cleanup' = NoCleanup
  /\ execs' = execs \cup {NewExec(t, n)}
  /\ status' = Report(st, t.id, "WaitingForTools")
  /\ UNCHANGED <<runs, cleanups>>

FirstRun(id) == [NoTurn EXCEPT !.id = id, !.op = 1]
NextRun(t)   == [t EXCEPT !.op = @ + 1, !.attempt = 0]

\* Session::begin
Begin(f, g, st) ==
  \/ f.start = "Provider" /\ LaunchProvider(FirstRun(f.id), g, FALSE, st)
  \/ f.start = "Tool" /\ Mode = "Continue" /\ LaunchTools(FirstRun(f.id), 1, st)
  \/ /\ f.start = "Tool" /\ Mode # "Continue"
     /\ Stop(FirstRun(f.id), NoBatch, "Provider", "Failed", FALSE, st)

BecomeIdle(st) ==
  /\ phase' = "Idle" /\ turn' = NoTurn /\ batch' = NoBatch
  /\ cleanup' = NoCleanup
  /\ status' = st
  /\ UNCHANGED <<runs, execs, cleanups>>

BecomeWaiting(id, st) ==
  /\ phase' = "Waiting" /\ turn' = [NoTurn EXCEPT !.id = id]
  /\ batch' = NoBatch /\ cleanup' = NoCleanup
  /\ status' = st
  /\ UNCHANGED <<runs, execs, cleanups>>

NewId(st) == Len(st) + 1

Accept(st) == Append(st, "Queued")

-----------------------------------------------------------------------------
Init ==
  /\ life = "Running" /\ stopSignal = FALSE
  /\ phase = "Idle" /\ turn = NoTurn /\ batch = NoBatch /\ cleanup = NoCleanup
  /\ gate = "Open" /\ queue = <<>> /\ worker = 0
  /\ questions = 0 /\ asked = 0 /\ persistence = "Ready" /\ behind = FALSE
  /\ runs = {} /\ execs = {} /\ cleanups = {} /\ mailbox = <<>>
  /\ status = <<>> /\ replies = <<>> /\ history = <<>>

\* The actor takes messages until it is told to stop; in ShuttingDown it is
\* inside the handler that awaits its tasks.
Handling == life \in {"Running", "Closing"} /\ ~stopSignal
Active   == life = "Running" /\ ~stopSignal
IsIdle   == phase \in {"Idle", "Waiting"}

-----------------------------------------------------------------------------
(* Commands of the user and of the parent actor                            *)

ClearPending == phase = "Stopping" /\ cleanup.clear

HasUser == Starts # {}

\* Variant: off by one
GateOfMany(n) == IF n > 1 THEN "Required" ELSE "Open"

\* Questions::gate
GateOf(n) == IF n > 0 THEN "Required" ELSE "Open"

MayInput ==
  /\ Active /\ HasUser
  /\ Len(status) < MaxTurns
  /\ InputDuringClear \/ ~ClearPending

\* SessionEvent::Start
Start(kind) ==
  /\ MayInput /\ kind \in Starts
  /\ LET f  == FollowUp(NewId(status), kind)
         st == Accept(status)
     IN  \/ /\ phase = "Idle" /\ gate = "Open"
            /\ Begin(f, gate, st)
            /\ UNCHANGED queue
         \/ /\ phase = "Idle" /\ gate = "Required"
            /\ queue' = Enqueue(queue, f)
            /\ BecomeWaiting(f.id, Report(st, f.id, "WaitingForInput"))
         \/ /\ phase # "Idle"
            /\ queue' = Enqueue(queue, f)
            /\ status' = st
            /\ UNCHANGED <<phase, turn, batch, cleanup, runs, execs, cleanups>>
  /\ UNCHANGED <<control, gate, worker, asking, mailbox, replies, history>>

\* SessionEvent::Steer: an interrupt that retains history, then a start.
Steer ==
  /\ MayInput
  /\ LET f  == FollowUp(NewId(status), "Provider")
         st == CancelQueue(Accept(status), queue)
     IN  \/ /\ phase = "Idle" /\ gate = "Open"
            /\ queue' = <<>>
            /\ Begin(f, gate, st)
         \/ /\ phase = "Idle" /\ gate = "Required"
            /\ queue' = <<f>>
            /\ BecomeWaiting(f.id, Report(st, f.id, "WaitingForInput"))
         \/ /\ phase = "Waiting"
            /\ LET cancelled == Report(st, turn.id, "Cancelled")
               IN  \/ /\ gate = "Required"
                      /\ queue' = <<f>>
                      /\ BecomeWaiting(f.id,
                           Report(cancelled, f.id, "WaitingForInput"))
                   \/ /\ gate = "Open"
                      /\ queue' = <<>>
                      /\ Begin(f, gate, cancelled)
         \/ /\ phase \in {"Provider", "Tools"}
            /\ queue' = <<f>>
            /\ Stop(turn, batch, phase, "Cancelled", FALSE, st)
         \/ /\ phase = "Stopping"
            /\ queue' = <<f>>
            /\ cleanup' = [cleanup EXCEPT !.outcome =
                             IF @ = "WaitingForInput" THEN "Cancelled" ELSE @]
            /\ status' = st
            /\ UNCHANGED <<phase, turn, batch, runs, execs, cleanups>>
  /\ UNCHANGED <<control, gate, worker, asking, mailbox, replies, history>>

\* SessionEvent::Interrupt on the engine; `clear' is HistoryDisposition::Clear.
InterruptEngine(clear) ==
  LET st == CancelQueue(status, queue)
  IN  /\ queue' = DrainQueue(queue)
      /\ \/ phase = "Idle" /\ BecomeIdle(st)
         \/ phase = "Waiting" /\ BecomeIdle(Report(st, turn.id, "Cancelled"))
         \/ /\ phase \in {"Provider", "Tools"}
            /\ Stop(turn, batch, phase, "Cancelled", clear, st)
         \/ /\ phase = "Stopping"
            /\ cleanup' = [cleanup EXCEPT
                 !.outcome = IF @ = "WaitingForInput" THEN "Cancelled" ELSE @,
                 !.clear = Disposition(@, clear)]
            /\ status' = st
            /\ UNCHANGED <<phase, turn, batch, runs, execs, cleanups>>

\* Message::Interrupt, and Message::ProcessPersistenceFailed
Interrupt ==
  /\ Active
  /\ InterruptEngine(FALSE)
  /\ UNCHANGED <<control, gate, worker, asking, mailbox, replies, history>>

\* SessionPersistence::fail.  A record, the session of a clear or a process
\* record fails inside some handler: it is a step of its own before the rest
\* of that handler, which sees it.  Only another session repairs it.
StorageFails ==
  /\ Handling /\ ~StorageFailed
  /\ persistence' = "Failed"
  /\ UNCHANGED <<control, engine, gate, queue, worker, questions, asked, behind,
                 mailbox, replies, history>>

\* ActorState::clear_history and activate_session: a fresh machine, a fresh
\* interaction state and a fresh conversation.
FreshSession ==
  /\ gate' = "Open" /\ worker' = 0
  /\ questions' = 0 /\ history' = <<>> /\ behind' = FALSE
  /\ UNCHANGED asked

\* Effect::ClearHistory where the new session is made.  When the watcher
\* cannot follow it afterwards, it is activated with failed storage.
Cleared == FreshSession /\ persistence' \in {"Ready", "Failed"}

\* Effect::ClearHistory where that fails, and the session's storage with it:
\* the conversation and its questions stay.
ClearFails ==
  /\ StorageFailed
  /\ behind' = TRUE
  /\ UNCHANGED <<questions, asked, persistence>>

\* Message::Clear and Command::Clear: the gate opens before the clear, which
\* is made at once or by the end of the cleanup.
Clear ==
  /\ Active /\ HasUser
  /\ InterruptEngine(TRUE)
  /\ \/ IsIdle /\ Cleared
     \/ IsIdle /\ ClearFails /\ gate' = "Open" /\ UNCHANGED <<worker, history>>
     \/ ~IsIdle /\ gate' = "Open" /\ UNCHANGED <<worker, asking, history>>
  /\ UNCHANGED <<control, mailbox, replies>>

\* Command::New is refused unless the session is idle; when it fails to make
\* a session, the queue is cancelled all the same.
NewSession ==
  /\ Active /\ HasUser /\ IsIdle
  /\ InterruptEngine(FALSE)
  /\ \/ FreshSession /\ persistence' = "Ready"
     \/ UNCHANGED <<gate, worker, asking, history>>
  /\ UNCHANGED <<control, mailbox, replies>>

\* Command::Resume and Command::Fork: another session is activated, with or
\* without required questions; the one left keeps its queue in its log.  When
\* the watcher cannot follow, the command ends before it syncs the gate.
Resume(restored) ==
  /\ Active /\ HasUser /\ IsIdle
  /\ asked + restored <= MaxQuestions
  /\ LET st == SaveQueue(status, queue)
     IN  BecomeIdle(IF phase = "Waiting" THEN Report(st, turn.id, "Saved")
                                         ELSE st)
  /\ queue' = <<>> /\ worker' = 0 /\ history' = <<>>
  /\ questions' = restored /\ asked' = asked + restored
  /\ persistence' = "Ready"
  /\ \/ gate' = GateOf(restored) /\ behind' = FALSE
     \/ gate' = "Open" /\ behind' = TRUE
  /\ UNCHANGED <<control, mailbox, replies>>

\* Variant: only a waiting turn is resumed.
WakesWaiting(g) == phase = "Waiting" /\ gate = "Required" /\ g = "Open"

\* Variant: only an idle session takes up its queue.
WakesIdle(g) == phase = "Idle" /\ gate = "Required" /\ g = "Open"

\* The gate opens for a session that holds work back.
Wakes(g) == IsIdle /\ gate = "Required" /\ g = "Open"

\* SessionEvent::QuestionsChanged
QuestionsChanged(g) ==
  /\ gate' = g /\ behind' = FALSE
  /\ \/ /\ Wakes(g) /\ queue # <<>>
        /\ queue' = Tail(queue)
        /\ Begin(Head(queue), g, status)
     \/ /\ Wakes(g) /\ queue = <<>>
        /\ Begin(FollowUp(NewId(status), "Provider"), g, Accept(status))
        /\ UNCHANGED queue
     \/ /\ ~Wakes(g)
        /\ UNCHANGED <<engine, queue>>

\* Command::Answer: one required question is answered, if that can be
\* recorded; the gate is synced either way.
Answer ==
  /\ Handling /\ questions > 0
  /\ questions' = IF StorageFailed THEN questions ELSE questions - 1
  /\ \/ life = "Running" /\ QuestionsChanged(GateOf(questions'))
     \/ life # "Running" /\ UNCHANGED <<engine, queue, gate, behind>>
  /\ UNCHANGED <<control, worker, asked, persistence, mailbox, replies, history>>

\* SessionState::worker_result: without storage every outcome is a failure.
WorkerResult(outcome) == IF StorageFailed THEN "Failed" ELSE outcome

\* Message::RunWorker and SessionEvent::StartWorker
StartWorker ==
  /\ Handling /\ Len(replies) < MaxRequests
  /\ \/ /\ life = "Running" /\ phase = "Idle" /\ worker = 0
        /\ replies' = Append(replies, "Pending")
        /\ worker' = Len(replies) + 1
        /\ Begin(FollowUp(NewId(status), "Provider"), gate, Accept(status))
     \/ /\ life = "Running" /\ ~(phase = "Idle" /\ worker = 0)
        /\ replies' = Append(replies, WorkerResult("AlreadyRunning"))
        /\ UNCHANGED <<engine, worker>>
     \/ /\ life = "Closing"
        /\ replies' = Append(replies, WorkerResult("Stopped"))
        /\ UNCHANGED <<engine, worker>>
  /\ UNCHANGED <<control, gate, queue, asking, mailbox, history>>

\* Message::KYS and Event::StopRequested
StopRequested ==
  /\ Active /\ HasUser
  /\ InterruptEngine(FALSE)
  /\ life' = IF IsIdle THEN "ShuttingDown" ELSE "Closing"
  /\ UNCHANGED <<stopSignal, gate, worker, asking, mailbox, replies, history>>

\* actor_ref.stop by a supervisor or by RunningWorker::stop
StopActor ==
  /\ Handling
  /\ stopSignal' = TRUE
  /\ UNCHANGED <<life, engine, gate, queue, worker, asking, mailbox, replies,
                 history>>

-----------------------------------------------------------------------------
(* The messages of the tasks                                               *)

Deliver(kind) ==
  /\ Handling
  /\ mailbox # <<>> /\ Head(mailbox).kind = kind
  /\ mailbox' = Tail(mailbox)

\* ProviderUpdate::for_mode and AcceptedResponse::text_only
ForMode(u) ==
  IF Mode = "SingleResponse" /\ u \in {"Tools", "Continue", "Compacted"}
  THEN "Other" ELSE u

\* ProviderRetry: how often a request of this failure kind is repeated.
RetryBudget(failure) ==
  IF Mode # "Continue" THEN 0
  ELSE CASE failure = "Transport" -> TransportRetries
         [] failure = "RateLimit" -> RateLimitRetries
         [] OTHER -> 0

\* Session::provider_failed
ProviderFailed(failure) ==
  LET exhausted == failure = "UsageLimit"
      st == IF exhausted THEN CancelQueue(status, queue) ELSE status
  IN  /\ queue' = IF exhausted THEN <<>> ELSE queue
      /\ \/ /\ turn.attempt < RetryBudget(failure)
            /\ LaunchProvider([turn EXCEPT !.op = @ + 1, !.attempt = @ + 1],
                              gate, TRUE, st)
         \/ /\ turn.attempt >= RetryBudget(failure)
            /\ Stop(turn, NoBatch, "Provider", "Failed", FALSE, st)

\* Session::accept_response and Session::reconcile_plan
AcceptUpdate(u) ==
  \/ /\ u = "Tools"
     /\ \E n \in 1..MaxJobs :
          LaunchTools([NextRun(turn) EXCEPT !.plans = 0], n, status)
     /\ UNCHANGED queue
  \/ /\ u = "Continue"
     /\ LaunchProvider(NextRun(turn), gate, TRUE, status)
     /\ UNCHANGED queue
  \/ /\ u \in {"Complete", "Compacted"}
     /\ Stop(turn, NoBatch, "Provider", "Completed", FALSE, status)
     /\ UNCHANGED queue
  \/ /\ u = "Reconcile" /\ Mode = "Continue" /\ turn.plans < 2
     /\ LaunchProvider([NextRun(turn) EXCEPT !.plans = @ + 1],
                       gate, TRUE, status)
     /\ UNCHANGED queue
  \/ /\ u = "Reconcile" /\ ~(Mode = "Continue" /\ turn.plans < 2)
     /\ ProviderFailed("Other")
  \/ /\ u \in Failures
     /\ ProviderFailed(u)

\* Message::Provider and SessionEvent::Provider
ReceiveProvider ==
  /\ Deliver("Provider")
  /\ LET m == Head(mailbox)
         current == life = "Running" /\ phase = "Provider" /\ IsTagged(m, turn)
     IN  \/ current /\ AcceptUpdate(ForMode(m.what))
         \/ ~current /\ UNCHANGED <<engine, queue>>
  /\ UNCHANGED <<control, gate, worker, asking, replies, history>>

\* TurnState::tools_mut: the batch that tool events still update.
OwnsTools(m) ==
  /\ phase = "Tools" \/ (phase = "Stopping" /\ cleanup.work = "Tools")
  /\ IsTagged(m, turn)

ToolHandlerUnchanged ==
  UNCHANGED <<control, phase, cleanup, gate, queue, worker, asking, runs,
              execs, cleanups, status, replies, history>>

\* ToolEvent::Started and ToolBatch::start
ReceiveStarted ==
  /\ Deliver("Started")
  /\ LET m == Head(mailbox)
     IN  batch' = IF OwnsTools(m) /\ batch.entries[m.job] = "Queued"
                  THEN [batch EXCEPT !.entries[m.job] = "Running"]
                  ELSE batch
  /\ ToolHandlerUnchanged
  /\ UNCHANGED turn

\* ToolEvent::Completed: ToolBatch::complete, FailureTracker::record and
\* Effect::UpdateContext, whose failure comes back as ContextFailed.
ReceiveCompleted(contextFailed) ==
  /\ Deliver("Completed")
  /\ LET m == Head(mailbox)
         news == OwnsTools(m) /\ batch.entries[m.job] # "Completed"
         failures == turn.failures + (IF m.what = "fail" THEN 1 ELSE 0)
         stop == m.what = "fatal" \/ (m.what = "fail" /\ failures >= 3)
     IN  \/ /\ news
            /\ turn' = [turn EXCEPT !.failures = failures]
            /\ batch' = [entries |-> [batch.entries EXCEPT ![m.job] = "Completed"],
                         stop |-> batch.stop \/ stop \/ contextFailed]
         \/ /\ ~news /\ ~contextFailed
            /\ UNCHANGED <<turn, batch>>
  /\ ToolHandlerUnchanged

\* ToolEvent::Finished
ReceiveFinished ==
  /\ Deliver("Finished")
  /\ LET m == Head(mailbox)
         current == phase = "Tools" /\ IsTagged(m, turn)
         stop == m.what = "panicked" \/ batch.stop
     IN  \/ /\ current /\ stop
            /\ Stop(turn, batch, "Tools", "Failed", FALSE, status)
            /\ UNCHANGED history
         \/ /\ current /\ ~stop
            /\ history' = Record(history, turn, batch)
            /\ LaunchProvider(NextRun(turn), gate, FALSE, status)
         \/ /\ ~current
            /\ UNCHANGED <<engine, history>>
  /\ UNCHANGED <<control, gate, queue, worker, asking, replies>>

\* Message::AskQuestion: a cancelled scope may not ask, and nothing is asked
\* that cannot be recorded; the gate is synced either way.
ReceiveAsk ==
  /\ Deliver("Ask")
  /\ LET m == Head(mailbox)
         allowed == \E e \in execs : /\ e.turn = m.turn /\ e.op = m.op
                                    /\ ~e.cancelled
         raised == IF allowed /\ ~StorageFailed THEN 1 ELSE 0
     IN  /\ questions' = questions + raised
         /\ asked' = asked + raised
         /\ \/ life = "Running" /\ QuestionsChanged(GateOf(questions + raised))
            \/ life # "Running" /\ UNCHANGED <<engine, gate, queue, behind>>
  /\ UNCHANGED <<control, worker, persistence, replies, history>>

\* The next turn of Session::finish_interactive, with the history retained.
AfterTurn(st) ==
  \/ /\ cleanup.outcome = "WaitingForInput" /\ gate = "Required"
     /\ BecomeWaiting(turn.id, st)
     /\ UNCHANGED queue
  \/ /\ gate = "Open" /\ queue # <<>>
     /\ queue' = Tail(queue)
     /\ Begin(Head(queue), gate, st)
  \/ /\ cleanup.outcome = "WaitingForInput" /\ gate = "Open" /\ queue = <<>>
     /\ Begin(FollowUp(NewId(st), "Provider"), gate, Accept(st))
     /\ UNCHANGED queue
  \/ /\ cleanup.outcome # "WaitingForInput"
     /\ gate = "Required" \/ queue = <<>>
     /\ BecomeIdle(st)
     /\ UNCHANGED queue

\* Session::finish_interactive with Clear: ClearHistory is executed before
\* the effects of the next turn and replaces the machine.  The tasks of that
\* turn are launched below a scope that the dropped machine has cancelled.
AfterClear(st) ==
  /\ queue' = <<>>
  /\ Cleared
  /\ \/ /\ gate = "Required" \/ queue = <<>>
        /\ BecomeIdle(st)
     \/ /\ gate = "Open" /\ queue # <<>>
        /\ phase' = "Idle" /\ turn' = NoTurn
        /\ batch' = NoBatch /\ cleanup' = NoCleanup
        /\ LET f == Head(queue)
               t == FirstRun(f.id)
           IN  \/ /\ f.start = "Provider"
                  /\ runs' = runs \cup {[NewRun(t) EXCEPT !.cancelled = TRUE]}
                  /\ status' = Report(st, f.id, "Running")
                  /\ UNCHANGED <<execs, cleanups>>
               \/ /\ f.start = "Tool" /\ Mode = "Continue"
                  /\ execs' = execs \cup {[NewExec(t, 1) EXCEPT !.cancelled = TRUE]}
                  /\ status' = Report(st, f.id, "WaitingForTools")
                  /\ UNCHANGED <<runs, cleanups>>
               \/ /\ f.start = "Tool" /\ Mode # "Continue"
                  /\ cleanups' = cleanups \cup {f.id}
                  /\ status' = st
                  /\ UNCHANGED <<runs, execs>>

\* What a worker's caller is told of the turn's outcome.
WorkerOutcome(outcome) ==
  WorkerResult(IF outcome = "WaitingForInput" THEN "Cancelled" ELSE outcome)

\* Session::finish_history, once all of the turn's tasks have ended
FinishedHistory ==
  IF cleanup.work = "Tools" THEN Record(history, turn, batch) ELSE history

\* The role taken out of the session by finish_turn
RoleAfterTurn == 0

\* SessionEvent::CleanupFinished and Session::finish_turn
ReceiveCleanup ==
  /\ Deliver("Cleanup")
  /\ LET current == phase = "Stopping" /\ Head(mailbox).turn = turn.id
         st == Report(status, turn.id, cleanup.outcome)
     IN  \/ /\ current /\ life = "Running" /\ worker # 0
            /\ replies' = [replies EXCEPT ![worker] = WorkerOutcome(cleanup.outcome)]
            /\ worker' = RoleAfterTurn /\ stopSignal' = TRUE
            /\ history' = FinishedHistory
            /\ BecomeIdle(st)
            /\ UNCHANGED <<life, gate, queue, asking>>
         \/ /\ current /\ life = "Running" /\ worker = 0 /\ ~cleanup.clear
            /\ history' = FinishedHistory
            /\ AfterTurn(st)
            /\ UNCHANGED <<control, gate, worker, asking, replies>>
         \/ /\ current /\ life = "Running" /\ worker = 0 /\ cleanup.clear
            /\ AfterClear(st)
            /\ UNCHANGED <<control, replies>>
         \/ /\ current /\ life = "Running" /\ worker = 0 /\ cleanup.clear
            /\ ClearFails
            /\ history' = FinishedHistory
            /\ AfterTurn(st)
            /\ UNCHANGED <<control, gate, worker, replies>>
         \/ /\ current /\ life = "Closing"
            /\ life' = "ShuttingDown"
            /\ UNCHANGED <<stopSignal, engine, gate, queue, worker, asking,
                           replies, history>>
         \/ /\ ~current
            /\ UNCHANGED <<control, engine, gate, queue, worker, asking,
                           replies, history>>

-----------------------------------------------------------------------------
(* The end of the actor                                                    *)

\* Worker::stop (ractor's post_stop), Event::Shutdown and Effect::Shutdown
Shutdown ==
  /\ stopSignal /\ life \in {"Running", "Closing"}
  /\ life' = "ShuttingDown"
  /\ \/ /\ phase \in {"Provider", "Tools"}
        /\ phase' = "Stopping"
        /\ cleanup' = [work |-> phase, outcome |-> "Cancelled", clear |-> FALSE]
        /\ UNCHANGED <<turn, batch>>
     \/ /\ phase = "Stopping"
        /\ UNCHANGED <<phase, turn, batch, cleanup>>
     \/ /\ IsIdle
        /\ phase' = "Idle" /\ turn' = NoTurn
        /\ UNCHANGED <<batch, cleanup>>
  /\ runs' = CancelAll(runs)
  /\ execs' = CancelAll(execs)
  /\ UNCHANGED <<stopSignal, gate, queue, worker, asking, cleanups, mailbox,
                 status, replies, history>>

\* The reply of Shutdown::finish
AnswerRequest(rs) ==
  IF worker = 0 THEN rs ELSE [rs EXCEPT ![worker] = WorkerResult("Stopped")]

\* ExecutionScope::finish has waited for every task; Shutdown::finish
ShutdownFinished ==
  /\ life = "ShuttingDown"
  /\ runs = {} /\ cleanups = {} /\ \A e \in execs : ~e.live
  /\ life' = "Stopped" /\ stopSignal' = TRUE
  /\ LET st == CancelQueue(status, queue)
     IN  \/ /\ phase = "Stopping"
            /\ status' = Report(st, turn.id, "Cancelled")
            /\ history' = FinishedHistory
         \/ /\ phase # "Stopping"
            /\ status' = st
            /\ UNCHANGED history
  /\ replies' = AnswerRequest(replies)
  /\ phase' = "Idle" /\ turn' = NoTurn /\ batch' = NoBatch
  /\ cleanup' = NoCleanup /\ queue' = <<>> /\ worker' = 0
  /\ UNCHANGED <<gate, asking, runs, execs, cleanups, mailbox>>

-----------------------------------------------------------------------------
(* The tasks                                                               *)

TaskUnchanged ==
  UNCHANGED <<control, phase, turn, batch, cleanup, gate, queue, worker,
              asking, status, replies, history>>

Send(m) == mailbox' = Append(mailbox, m)

\* A request of the same turn is sent only after the previous one has ended.
First(r) == \A other \in runs : other.turn = r.turn => other.op >= r.op

\* ProviderTask: the answer, or a failure, of one request.  The actor may
\* find the failure in the stream (`early') while the task is still reading.
ProviderSend(r, u, early) ==
  /\ ~r.cancelled /\ First(r)
  /\ r.state = "streaming" \/ (r.state = "refused" /\ u = "Other" /\ ~early)
  /\ r.op < MaxOps \/ u \in {"Complete", "UsageLimit", "Other"}
  /\ early => u \in Failures
  /\ runs' = (runs \ {r}) \cup
               (IF early THEN {[r EXCEPT !.state = "unread"]} ELSE {})
  /\ Send(Message("Provider", r, 0, u))
  /\ UNCHANGED <<execs, cleanups>>
  /\ TaskUnchanged

\* The task whose failure was found early ends with a result of its own.
ProviderLate(r) ==
  /\ r.state = "unread" /\ ~r.cancelled
  /\ runs' = runs \ {r}
  /\ Send(Message("Provider", r, 0, "Transport"))
  /\ UNCHANGED <<execs, cleanups>>
  /\ TaskUnchanged

\* A cancelled request ends without a word.
ProviderCancelled(r) ==
  /\ r.cancelled /\ First(r)
  /\ runs' = runs \ {r}
  /\ UNCHANGED <<execs, cleanups, mailbox>>
  /\ TaskUnchanged

In(e, states) == {j \in DOMAIN e.jobs : e.jobs[j] \in states}
Busy(e) == In(e, {"scheduled", "running", "asking"}) # {}

Change(e, new) == execs' = (execs \ {e}) \cup {new}

AskPending(e, j) ==
  \E i \in DOMAIN mailbox : /\ mailbox[i].kind = "Ask" /\ mailbox[i].job = j
                           /\ mailbox[i].turn = e.turn /\ mailbox[i].op = e.op

Asks == Cardinality({i \in DOMAIN mailbox : mailbox[i].kind = "Ask"})

\* Executor::schedule and next_group: the next jobs, in order, unless the
\* scope is cancelled, a required question waits or a result stops the turn.
ExecSchedule(e) ==
  /\ e.live /\ ~Busy(e) /\ ~e.cancelled /\ ~e.halted /\ questions = 0
  /\ \E last \in In(e, {"queued"}) :
       Change(e, [e EXCEPT !.jobs =
         [j \in DOMAIN @ |-> IF @[j] = "queued" /\ j <= last THEN "scheduled"
                                                             ELSE @[j]]])
  /\ UNCHANGED <<runs, cleanups, mailbox>>
  /\ TaskUnchanged

\* Executor::invoke: authorised, and past the lease, before any cancellation
ToolStart(e, j) ==
  /\ e.live /\ e.jobs[j] = "scheduled" /\ questions = 0
  /\ Change(e, [e EXCEPT !.jobs[j] = "running"])
  /\ Send(Message("Started", e, j, "ok"))
  /\ UNCHANGED <<runs, cleanups>>
  /\ TaskUnchanged

\* A tool asks a required question and waits for the actor's receipt.
ToolAsk(e, j) ==
  /\ e.live /\ e.jobs[j] = "running"
  /\ asked + Asks < MaxQuestions
  /\ Change(e, [e EXCEPT !.jobs[j] = "asking"])
  /\ Send(Message("Ask", e, j, "ok"))
  /\ UNCHANGED <<runs, cleanups>>
  /\ TaskUnchanged

\* Executor::execute reports a result, also of a job that was never invoked;
\* an invocation that asks ends with its receipt or with its cancellation.
ToolDone(e, j, result) ==
  /\ e.live
  /\ \/ e.jobs[j] \in {"scheduled", "running"}
     \/ e.jobs[j] = "asking" /\ (e.cancelled \/ ~AskPending(e, j))
  /\ Change(e, [e EXCEPT !.jobs[j] = "done",
                         !.halted = @ \/ result = "fatal"])
  /\ Send(Message("Completed", e, j, result))
  /\ UNCHANGED <<runs, cleanups>>
  /\ TaskUnchanged

\* prepare_tools has refused the batch.
Refused(e) == e.halted /\ In(e, {"done"}) = {}

\* Executor::spawn: the scheduler has stopped, by itself or by a panic that
\* drops the jobs it was running; a refused batch ends as a failure.
ExecFinish(e, how) ==
  /\ e.live
  /\ \/ how = "panicked"
     \/ /\ how = "ok" /\ ~Busy(e) /\ ~Refused(e)
        /\ \/ In(e, {"queued"}) = {}
           \/ e.cancelled \/ e.halted \/ questions > 0
  /\ Change(e, [e EXCEPT !.live = FALSE])
  /\ Send(Message("Finished", e, 0, how))
  /\ UNCHANGED <<runs, cleanups>>
  /\ TaskUnchanged

\* Variant: the tool executor is not awaited.
DrainedOfRuns(id) == \A r \in runs : r.turn # id

\* Variant: a cancelled request is not awaited.
DrainedOfExecs(id) == \A e \in execs : e.live => e.turn # id

\* Variant: an executor that has ended is still awaited.
DrainedOfAll(id) == DrainedOfRuns(id) /\ \A e \in execs : e.turn # id

\* ExecutionScope::finish: the tracker has no task of the turn left.
Drained(id) == DrainedOfRuns(id) /\ \A e \in execs : e.live => e.turn # id

\* Effect::Cleanup: the turn's scope has waited for the turn's tasks.
CleanupDone(id) ==
  /\ Drained(id)
  /\ cleanups' = cleanups \ {id}
  /\ Send(Message("Cleanup", [turn |-> id, op |-> 0], 0, "ok"))
  /\ UNCHANGED <<runs, execs>>
  /\ TaskUnchanged

-----------------------------------------------------------------------------
Commands ==
  \/ \E kind \in Starts : Start(kind)
  \/ Steer
  \/ Interrupt
  \/ Clear
  \/ NewSession
  \/ \E restored \in 0..MaxQuestions : Resume(restored)
  \/ StartWorker
  \/ StopRequested
  \/ StopActor

Handlers ==
  \/ ReceiveProvider
  \/ ReceiveStarted
  \/ \E contextFailed \in BOOLEAN : ReceiveCompleted(contextFailed)
  \/ ReceiveFinished
  \/ ReceiveAsk
  \/ ReceiveCleanup
  \/ Shutdown
  \/ ShutdownFinished

Tasks ==
  \/ \E r \in runs :
       \/ \E u \in Updates, early \in BOOLEAN : ProviderSend(r, u, early)
       \/ ProviderLate(r)
       \/ ProviderCancelled(r)
  \/ \E e \in execs :
       \/ ExecSchedule(e)
       \/ \E j \in DOMAIN e.jobs :
            \/ ToolStart(e, j)
            \/ ToolAsk(e, j)
            \/ \E result \in Results : ToolDone(e, j, result)
       \/ \E how \in {"ok", "panicked"} : ExecFinish(e, how)
  \/ \E id \in cleanups : CleanupDone(id)

Terminated == life = "Stopped" /\ UNCHANGED vars

Next == Commands \/ Answer \/ Handlers \/ Tasks \/ StorageFails \/ Terminated

Spec == Init /\ [][Next]_vars

\* The runtime polls the actor and its tasks, and the timeouts of requests
\* and tools end what hangs; nothing is assumed of the user.
FairSpec == Spec /\ WF_vars(Handlers) /\ WF_vars(Tasks)

-----------------------------------------------------------------------------
(* Properties                                                              *)

Turns   == [id : Nat, op : Nat, attempt : Nat, plans : Nat, failures : Nat]
Batches == [entries : Seq(Entries), stop : BOOLEAN]
Cleanups == [work : {"None", "Provider", "Tools"},
             outcome : {"None"} \cup Outcomes, clear : BOOLEAN]
Runs == [turn : Nat, op : Nat, state : {"streaming", "refused", "unread"},
         cancelled : BOOLEAN]
Execs == [turn : Nat, op : Nat, live : BOOLEAN, cancelled : BOOLEAN,
          halted : BOOLEAN, jobs : Seq(Jobs)]
Messages == [kind : {"Provider", "Started", "Completed", "Finished", "Ask",
                     "Cleanup"},
             turn : Nat, op : Nat, job : Nat,
             what : Updates \cup Results \cup {"panicked"}]

\* Every variable keeps its type, the turns that own the phase or wait in the
\* queue were accepted, and a stopping turn knows its outcome.
TypeOK ==
  /\ life \in Lives /\ stopSignal \in BOOLEAN
  /\ phase \in Phases /\ turn \in Turns /\ batch \in Batches
  /\ cleanup \in Cleanups
  /\ gate \in Gates
  /\ queue \in Seq([id : Nat, start : {"Provider", "Tool"}])
  /\ worker \in 0..Len(replies)
  /\ questions \in Nat /\ asked \in Nat
  /\ persistence \in {"Ready", "Failed"} /\ behind \in BOOLEAN
  /\ runs \subseteq Runs /\ execs \subseteq Execs
  /\ cleanups \subseteq Nat
  /\ mailbox \in Seq(Messages)
  /\ status \in Seq(Status)
  /\ replies \in Seq(WorkerOutcomes)
  /\ history \in Seq([turn : Nat, op : Nat, entries : Seq(Entries)])
  /\ phase = "Idle" \/ turn.id \in DOMAIN status
  /\ phase = "Stopping" => cleanup.outcome \in Outcomes
  /\ \A k \in DOMAIN queue : queue[k].id \in DOMAIN status

\* An idle session with an open gate has nothing queued: no accepted
\* follow-up is left behind by the step that became idle (finish_interactive,
\* QuestionsChanged, Interrupt).
NoOrphanedFollowUps ==
  Active /\ phase = "Idle" /\ gate = "Open" => queue = <<>>

\* A turn waits only while the gate is closed, so that the answer that opens
\* it always finds the turn (QuestionsChanged, finish_interactive).
WaitingNeedsGate == Active /\ phase = "Waiting" => gate = "Required"

\* The machine's gate is never closed without a question whose answer opens
\* it, whatever was cleared, failed or switched meanwhile.
GateNeedsQuestion == Active /\ gate = "Required" => questions > 0

\* A required question that waits closes the gate, so that no turn begins
\* beside it, except while a clear is pending or after a clear or an
\* activation has failed: both leave the question, and the gate open until
\* the next question or answer (effects.rs:39, actor_state.rs:290).
QuestionClosesGate ==
  Active /\ questions > 0 => gate = "Required" \/ ClearPending \/ behind

\* What waits for an answer is found by the answer, and what the gate lets
\* through is known: the questions, the gate and the phase agree.
QuestionsAgree == WaitingNeedsGate /\ GateNeedsQuestion /\ QuestionClosesGate

\* Work that is not cancelled is the work the machine waits for: a request
\* of the current tag in Provider, a tool batch of the current tag in Tools.
NoUnownedWork ==
  /\ \A r \in runs : ~r.cancelled => phase = "Provider" /\ IsTagged(r, turn)
  /\ \A e \in execs : e.live /\ ~e.cancelled =>
                        phase = "Tools" /\ IsTagged(e, turn)

\* No task of another turn still runs when a turn works, a cancelled one
\* included: its cleanup has waited for it (Effect::Cleanup).
TurnsDoNotOverlap ==
  phase \in {"Provider", "Tools"} =>
    /\ \A r \in runs : r.turn = turn.id
    /\ \A e \in execs : e.live => e.turn = turn.id

\* A request goes out only when the conversation has one exchange for every
\* tool batch of its turn, and no batch is ever recorded twice.
RequestsSeeResults ==
  LET Of(e) == {k \in DOMAIN history : /\ history[k].turn = e.turn
                                       /\ history[k].op = e.op}
  IN  \A e \in execs :
        /\ Cardinality(Of(e)) <= 1
        /\ phase = "Provider" /\ e.turn = turn.id => Cardinality(Of(e)) = 1

\* What has become of a job, as ToolState records it
Truth(e) ==
  [j \in DOMAIN e.jobs |->
     CASE e.jobs[j] = "done" -> "Completed"
       [] e.jobs[j] \in {"queued", "scheduled"} -> "Queued"
       [] OTHER -> "Running"]

\* The conversation tells the model the truth about every tool call: an
\* exchange recorded when no message of the batch is left unread (all but a
\* forced stop) says "not executed" or "completion unknown" of no other jobs.
HistoryIsTrue ==
  \A k \in DOMAIN history, e \in execs :
    IsTagged(history[k], [id |-> e.turn, op |-> e.op])
      /\ (\A i \in DOMAIN mailbox : mailbox[i].turn # e.turn)
      => history[k].entries = Truth(e)

\* The conversation has the result of every tool batch, once, before the next
\* request, and says what became of its calls.
ResultsAreTold == RequestsSeeResults /\ HistoryIsTrue

\* A RunWorker request is unanswered only while the machine holds it.
PendingRequestIsOwned ==
  \A i \in DOMAIN replies :
    replies[i] = "Pending" <=> worker = i /\ life # "Stopped"

\* A turn whose last report says that it is queued or at work is queued in
\* the machine or owns it.
TurnsAreOwned ==
  \A i \in DOMAIN status :
    status[i] \in {"Queued", "Running", "WaitingForTools", "Cancelling"} =>
      (phase # "Idle" /\ turn.id = i) \/ (\E k \in DOMAIN queue : queue[k].id = i)

\* The outcome of a RunWorker request is decided once.
RepliesAreFinal ==
  [][\A i \in DOMAIN replies :
       replies[i] # "Pending" => replies'[i] = replies[i]]_vars

\* Every turn that is at work settles.
TurnSettles ==
  \A i \in 1..(MaxTurns + MaxQuestions + MaxRequests) :
    (i \in DOMAIN status /\ status[i] \in {"Running", "WaitingForTools", "Cancelling"})
      ~> (i \in DOMAIN status /\ status[i] \in Terminal \cup {"WaitingForInput", "Saved"})

\* A queued follow-up begins or is cancelled, if the user answers.
QueueDrains ==
  []<>(questions = 0) =>
    \A i \in 1..(MaxTurns + MaxQuestions + MaxRequests) :
      (i \in DOMAIN status /\ status[i] = "Queued")
        ~> (i \in DOMAIN status /\ status[i] # "Queued")

\* The caller of a worker gets an outcome.
WorkerIsAnswered ==
  \A i \in 1..MaxRequests :
    (i \in DOMAIN replies /\ replies[i] = "Pending")
      ~> (i \in DOMAIN replies /\ replies[i] # "Pending")

\* An actor that was told to stop ends, and with it all of its tasks.
StopCompletes ==
  (stopSignal \/ life \in {"Closing", "ShuttingDown"}) ~> life = "Stopped"

=============================================================================
