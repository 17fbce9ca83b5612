---------------------------- MODULE WorkerRegistry ----------------------------
(***************************************************************************)
(* Delegated workers: the registry of their states (worker-registry), the  *)
(* task that runs each of them (actors/src/worker_registry/launch.rs), the *)
(* lock of the workspace's writer, and what the session log keeps of them  *)
(* across crashes, switches and forks of sessions.                         *)
(*                                                                         *)
(* The tools of one batch of the root are polled by one task, and `start`  *)
(* does not await: while it runs no other tool of the root does, but the   *)
(* tasks of the workers and the stop of the turn interleave with its two   *)
(* steps (register, store the registration).  A call that is refused       *)
(* changes nothing and is not a step.                                      *)
(***************************************************************************)
EXTENDS Integers, FiniteSets

CONSTANTS
  Owners,      \* sessions, saved or still to be created
  Ids,         \* worker ids (time and counter in the code: never reused)
  Root,        \* the root as a holder of the writer lock
  NoSession,   \* no session is open: the process has just started
  MaxActive,   \* workers that may be active at once, over all owners (4)
  MaxStarts    \* workers that one session may start (32)

ASSUME NamesAssumption == Root \notin Ids /\ NoSession \notin Owners
ASSUME LimitsAssumption == MaxActive \in Nat /\ MaxStarts \in Nat

VARIABLES
  entry,      \* RegistryState.entries: the WorkerState of (owner, id)
  unread,     \* finished entries whose report is not collected yet
  starts,     \* RegistryState.allocations: workers started by each owner
  used,       \* ids handed out
  stage,      \* progress of the task of each worker
  owner,      \* the owner that the task has captured
  role,       \* WorkerRole of its request
  report,     \* status of its report, once it has ended
  cancelled,  \* live workers whose scope is cancelled
  holders,    \* who holds the workspace's writer lock
  tool,       \* what the root's tool task is in the middle of
  turn,       \* the root's turn
  session,    \* the open session
  saved,      \* sessions that exist in the log
  log         \* Snapshot.workers of each session, by status

registry == <<entry, unread, starts, used>>
tasks    == <<stage, owner, role, report, cancelled>>
storage  == <<saved, log>>
vars == <<entry, unread, starts, used, stage, owner, role, report, cancelled,
          holders, tool, turn, session, saved, log>>

-----------------------------------------------------------------------------
(* Values.  A definition whose comment starts with "Variant" is a mistake  *)
(* that the definition after it avoids; no action uses it.                 *)

Final    == {"Completed", "Failed", "Cancelled", "TimedOut",
             "BudgetExhausted", "Interrupted"}
Active   == {"Registered", "Running", "Cancelling"}
Statuses == Active \cup Final
Stages   == {"None", "Registering", "Spawned", "Working", "Ended", "Settled",
             "Released"}
Roles    == {"Read", "Write"}
Turns    == {"None", "Active", "Stopping", "Answered"}

Live      == {i \in Ids : stage[i] # "None"}
Outcomes(i) == {"Completed", "Failed", "TimedOut", "BudgetExhausted"}
                 \cup (IF i \in cancelled THEN {"Cancelled"} ELSE {})

\* Variant: the runner does not come back from a cancelled worker.
OutcomesUncancelled(i) == IF i \in cancelled THEN {} ELSE Outcomes(i)

\* Outcome of run_worker under its deadline, with the state of the budget
Results(i) == Outcomes(i)

ActiveEntries ==
  {e \in Owners \X Ids : entry[e[1]][e[2]] \in Active}

\* Allocation::reserve
Reserve(o) ==
  Cardinality(ActiveEntries) < MaxActive /\ starts[o] < MaxStarts

\* Variant: the lock only keeps two tools of the root apart.
LockOfTheRoot == Root \notin holders

\* try_lock_owned of the workspace's writer
LockIsFree == holders = {}

\* Variant: an entry may go as soon as its worker is being cancelled.
RemovableEarly(s) == s \in Final \cup {"Cancelling"}

\* WorkerStatus::terminal, which cleanup asks for
Removable(s) == s \in Final

\* WorkerState::apply of WorkerUpdate::Finished
Finish(s, r) == IF s \in Active THEN r ELSE s

\* Variant: the report stands although it could not be stored.
KeepReport(r, stored) == r

\* The status that the registry is given, stored or not
SettledReport(r, stored) == IF stored THEN r ELSE "Failed"

\* WorkerView::recover: without a final report the worker was interrupted.
Recovered(s) == IF s = "Registered" THEN "Interrupted" ELSE s

Logged(o) == {i \in Ids : log[o][i] # "Absent"}

\* The allocation of a restored session
RestoredStarts(n) == n

\* Variant: the completion review asks only for workers that still run.
PendingActive(o) == {i \in Ids : entry[o][i] \in Active}

\* WorkerRegistry::pending: not finished, or finished and not collected
Pending(o) == {i \in Ids : entry[o][i] \in Active \/ <<o, i>> \in unread}

\* ExecutionScope::finish of the turn's scope has returned.
TurnIsOver == Live = {} /\ tool = "None"

\* SessionAction::new: no switch before the turn is idle
MaySwitch == turn = "None"

\* The task of worker i is over, and what it held in memory is gone.
TaskGone(i) ==
  /\ stage' = [stage EXCEPT ![i] = "None"]
  /\ owner' = [owner EXCEPT ![i] = NoSession]
  /\ role' = [role EXCEPT ![i] = "Read"]
  /\ report' = [report EXCEPT ![i] = "Failed"]
  /\ cancelled' = cancelled \ {i}

-----------------------------------------------------------------------------
(* The process starts without a session.                                   *)

Init ==
  /\ entry = [o \in Owners |-> [i \in Ids |-> "Absent"]]
  /\ unread = {}
  /\ starts = [o \in Owners |-> 0]
  /\ used = {}
  /\ stage = [i \in Ids |-> "None"]
  /\ owner = [i \in Ids |-> NoSession]
  /\ role = [i \in Ids |-> "Read"]
  /\ report = [i \in Ids |-> "Failed"]
  /\ cancelled = {}
  /\ holders = {}
  /\ tool = "None"
  /\ turn = "None"
  /\ session = NoSession
  /\ saved = {}
  /\ log = [o \in Owners |-> [i \in Ids |-> "Absent"]]

-----------------------------------------------------------------------------
(* Sessions                                                                *)

\* Start, /new, a clear and a plan handoff: a new session, WorkerRecovery::Fresh
NewSession(o) ==
  /\ MaySwitch
  /\ o \in Owners \ saved
  /\ saved' = saved \cup {o}
  /\ session' = o
  /\ UNCHANGED <<registry, tasks, holders, tool, turn, log>>

\* WorkerRegistry::restore
Restore(o, workers) ==
  /\ entry' = [entry EXCEPT ![o] = [i \in Ids |-> Recovered(workers[i])]]
  /\ unread' = {e \in unread : e[1] # o}
  /\ starts' = [starts EXCEPT
       ![o] = RestoredStarts(Cardinality({i \in Ids : workers[i] # "Absent"}))]
  /\ session' = o

\* The recovery of the log is committed first; opening what was recovered or
\* forked may still fail, and the session that was open stays open.
NotOpened == UNCHANGED <<entry, unread, starts, session>>

\* /resume of another session, and the session named when the process starts
Resume(o) ==
  /\ MaySwitch
  /\ o \in saved \ {session}
  /\ log' = [log EXCEPT ![o] = [i \in Ids |-> Recovered(log[o][i])]]
  /\ Restore(o, log'[o]) \/ NotOpened
  /\ UNCHANGED <<used, tasks, holders, tool, turn, saved>>

\* /fork: the snapshot is copied as it is, and restored under the new owner.
Fork(o) ==
  /\ MaySwitch
  /\ session # NoSession
  /\ o \in Owners \ saved
  /\ saved' = saved \cup {o}
  /\ log' = [log EXCEPT ![o] = log[session]]
  /\ Restore(o, log[session]) \/ NotOpened
  /\ UNCHANGED <<used, tasks, holders, tool, turn>>

\* The process ends; the log is all that remains.
Crash ==
  /\ session # NoSession
  /\ entry' = [o \in Owners |-> [i \in Ids |-> "Absent"]]
  /\ unread' = {}
  /\ starts' = [o \in Owners |-> 0]
  /\ stage' = [i \in Ids |-> "None"]
  /\ owner' = [i \in Ids |-> NoSession]
  /\ role' = [i \in Ids |-> "Read"]
  /\ report' = [i \in Ids |-> "Failed"]
  /\ cancelled' = {}
  /\ holders' = {}
  /\ tool' = "None"
  /\ turn' = "None"
  /\ session' = NoSession
  /\ UNCHANGED <<used, storage>>

-----------------------------------------------------------------------------
(* The root's turn                                                         *)

BeginTurn ==
  /\ session # NoSession
  /\ turn = "None"
  /\ turn' = "Active"
  /\ UNCHANGED <<registry, tasks, holders, tool, session, storage>>

\* An interrupt or a failure: the turn's scope and the workers' are cancelled.
StopTurn ==
  /\ turn = "Active"
  /\ turn' = "Stopping"
  /\ cancelled' = Live
  /\ UNCHANGED <<registry, stage, owner, role, report, holders, tool, session,
                 storage>>

\* A complete response passes the completion review (no tool runs meanwhile).
Answer ==
  /\ turn = "Active"
  /\ tool = "None"
  /\ Pending(session) = {}
  /\ turn' = "Answered"
  /\ cancelled' = Live
  /\ UNCHANGED <<registry, stage, owner, role, report, holders, tool, session,
                 storage>>

TurnEnds ==
  /\ turn \in {"Stopping", "Answered"}
  /\ TurnIsOver
  /\ turn' = "None"
  /\ UNCHANGED <<registry, tasks, holders, tool, session, storage>>

-----------------------------------------------------------------------------
(* Tools of the root                                                       *)

\* PreparedWorker::new takes the lock for a writer, then the registry admits
\* the worker; if it does not, the lock is given back in the same call.
Register(i, r) ==
  /\ turn = "Active"
  /\ tool = "None"
  /\ i \notin used
  /\ r = "Write" => LockIsFree
  /\ Reserve(session)
  /\ starts' = [starts EXCEPT ![session] = @ + 1]
  /\ entry' = [entry EXCEPT ![session][i] = "Registered"]
  /\ used' = used \cup {i}
  /\ stage' = [stage EXCEPT ![i] = "Registering"]
  /\ owner' = [owner EXCEPT ![i] = session]
  /\ role' = [role EXCEPT ![i] = r]
  /\ holders' = IF r = "Write" THEN holders \cup {i} ELSE holders
  /\ tool' = "Start"
  /\ UNCHANGED <<unread, report, cancelled, turn, session, storage>>

\* The registration is stored and the task spawned ...
StoreRegistration(i) ==
  /\ stage[i] = "Registering"
  /\ log' = [log EXCEPT ![owner[i]][i] = "Registered"]
  /\ stage' = [stage EXCEPT ![i] = "Spawned"]
  /\ tool' = "None"
  /\ UNCHANGED <<registry, owner, role, report, cancelled, holders, turn,
                 session, saved>>

\* ... or it cannot be stored: the worker has failed before it ran.
RegistrationFails(i) ==
  /\ stage[i] = "Registering"
  /\ entry' = [entry EXCEPT ![owner[i]][i] = Finish(@, "Failed")]
  /\ unread' = unread \cup {<<owner[i], i>>}
  /\ TaskGone(i)
  /\ holders' = holders \ {i}
  /\ tool' = "None"
  /\ UNCHANGED <<starts, used, turn, session, storage>>

\* worker_status cancel
Cancel(i) ==
  /\ turn = "Active" /\ tool = "None"
  /\ entry[session][i] \in {"Registered", "Running"}
  /\ entry' = [entry EXCEPT ![session][i] = "Cancelling"]
  /\ cancelled' = cancelled \cup {i}
  /\ UNCHANGED <<unread, starts, used, stage, owner, role, report, holders,
                 tool, turn, session, storage>>

\* worker_status cleanup
Cleanup(i) ==
  /\ turn = "Active" /\ tool = "None"
  /\ Removable(entry[session][i])
  /\ entry' = [entry EXCEPT ![session][i] = "Absent"]
  /\ unread' = unread \ {<<session, i>>}
  /\ UNCHANGED <<starts, used, tasks, holders, tool, turn, session, storage>>

\* worker_status status and wait, and a workflow that waits for its worker,
\* collect one report, list collects all.
Collect(S) ==
  /\ turn = "Active" /\ tool = "None"
  /\ \E i \in S : <<session, i>> \in unread
  /\ unread' = {e \in unread : e[1] # session \/ e[2] \notin S}
  /\ UNCHANGED <<entry, starts, used, tasks, holders, tool, turn, session,
                 storage>>

\* A Write or Validate tool of the root holds the lock while it runs.
BeginEdit ==
  /\ turn = "Active"
  /\ tool = "None"
  /\ LockIsFree
  /\ holders' = holders \cup {Root}
  /\ tool' = "Edit"
  /\ UNCHANGED <<registry, tasks, turn, session, storage>>

EndEdit ==
  /\ tool = "Edit"
  /\ holders' = holders \ {Root}
  /\ tool' = "None"
  /\ UNCHANGED <<registry, tasks, turn, session, storage>>

-----------------------------------------------------------------------------
(* The task of a worker                                                    *)

\* WorkerRegistry::running; a worker that is being cancelled stays so.
TaskRuns(i) ==
  /\ stage[i] = "Spawned"
  /\ stage' = [stage EXCEPT ![i] = "Working"]
  /\ entry' = [entry EXCEPT ![owner[i]][i] =
                 IF @ = "Registered" THEN "Running" ELSE @]
  /\ UNCHANGED <<unread, starts, used, owner, role, report, cancelled, holders,
                 tool, turn, session, storage>>

\* The worker answers, fails, panics, is cancelled or out of time, and the
\* work it owns has been cleaned up.
RunEnds(i) ==
  /\ stage[i] = "Working"
  /\ \E s \in Results(i) : report' = [report EXCEPT ![i] = s]
  /\ stage' = [stage EXCEPT ![i] = "Ended"]
  /\ UNCHANGED <<registry, owner, role, cancelled, holders, tool, turn, session,
                 storage>>

\* The report goes to the log before anybody is told.
StoreReport(i) ==
  /\ stage[i] = "Ended"
  /\ \E stored \in BOOLEAN :
       /\ report' = [report EXCEPT ![i] = SettledReport(@, stored)]
       /\ log' = IF stored THEN [log EXCEPT ![owner[i]][i] = report[i]] ELSE log
  /\ stage' = [stage EXCEPT ![i] = "Settled"]
  /\ UNCHANGED <<registry, owner, role, cancelled, holders, tool, turn, session,
                 saved>>

ReleaseWriter(i) ==
  /\ stage[i] = "Settled"
  /\ holders' = holders \ {i}
  /\ stage' = [stage EXCEPT ![i] = "Released"]
  /\ UNCHANGED <<registry, owner, role, report, cancelled, tool, turn, session,
                 storage>>

\* WorkerRegistry::complete, the last step of the task
Publish(i) ==
  /\ stage[i] = "Released"
  /\ entry' = [entry EXCEPT ![owner[i]][i] = Finish(@, report[i])]
  /\ unread' = IF entry[owner[i]][i] \in Active
                 THEN unread \cup {<<owner[i], i>>} ELSE unread
  /\ TaskGone(i)
  /\ UNCHANGED <<starts, used, holders, tool, turn, session, storage>>

-----------------------------------------------------------------------------
Sessions ==
  \/ \E o \in Owners : NewSession(o) \/ Resume(o) \/ Fork(o)
  \/ Crash

RootTurn == BeginTurn \/ StopTurn \/ Answer \/ TurnEnds

StartSettles(i) == StoreRegistration(i) \/ RegistrationFails(i)

Tools ==
  \/ \E i \in Ids, r \in Roles : Register(i, r)
  \/ \E i \in Ids : StartSettles(i) \/ Cancel(i) \/ Cleanup(i) \/ Collect({i})
  \/ Collect(Ids)
  \/ BeginEdit
  \/ EndEdit

Task(i) ==
  \/ TaskRuns(i)
  \/ RunEnds(i)
  \/ StoreReport(i)
  \/ ReleaseWriter(i)
  \/ Publish(i)

Next == Sessions \/ RootTurn \/ Tools \/ \E i \in Ids : Task(i)

Spec == Init /\ [][Next]_vars

(* Tasks are scheduled, `start` and the root's edits return, and a worker  *)
(* ends by its deadline at the latest: launch.rs wraps it in a timeout,    *)
(* and what it owns obeys the cancelled scope.                             *)
Fairness ==
  /\ \A i \in Ids : WF_vars(StartSettles(i)) /\ WF_vars(Task(i))
  /\ WF_vars(EndEdit)
  /\ WF_vars(TurnEnds)

FairSpec == Spec /\ Fairness

-----------------------------------------------------------------------------
(* Properties                                                              *)

\* Every variable has its type; no owner has started more than it may.
TypeOK ==
  /\ entry \in [Owners -> [Ids -> Statuses \cup {"Absent"}]]
  /\ unread \subseteq Owners \X Ids
  /\ starts \in [Owners -> 0..MaxStarts]
  /\ used \subseteq Ids
  /\ stage \in [Ids -> Stages]
  /\ owner \in [Ids -> Owners \cup {NoSession}]
  /\ role \in [Ids -> Roles]
  /\ report \in [Ids -> Final]
  /\ cancelled \subseteq Ids
  /\ holders \subseteq Ids \cup {Root}
  /\ tool \in {"None", "Start", "Edit"}
  /\ turn \in Turns
  /\ session \in Owners \cup {NoSession}
  /\ saved \subseteq Owners
  /\ log \in [Owners -> [Ids -> Final \cup {"Absent", "Registered"}]]

\* Work as the registry names it, by owner and id
Work == {<<owner[i], i>> : i \in Live}

\* No more tasks of workers exist than may be active, whatever was cancelled,
\* cleaned up, forked or restored: the limit counts entries, not tasks.
WorkLimit == Cardinality(Work) <= MaxActive

\* A task always has an entry of the open session that is not final: nothing
\* can remove, finish or restore the entry of a worker that still runs.
LiveWorkIsListed ==
  \A i \in Live : owner[i] = session /\ entry[session][i] \in Active

Editors == {i \in Ids : role[i] = "Write" /\ stage[i] \in {"Working", "Ended"}}
             \cup {x \in {Root} : tool = "Edit"}

\* At most one of the root and the write workers edits the workspace.
EditorsAreAlone == \A x, y \in Editors : x = y

\* Workers live within the turn that started them; an idle session has none.
NoWorkWithoutTurn == turn = "None" => Live = {}

\* A running worker has an owner: the entry that lists it and the turn that
\* cancels and awaits it (restore and cleanup of the registry, finish_turn).
WorkIsOwned == LiveWorkIsListed /\ NoWorkWithoutTurn

\* The root's final answer is given with no worker at work and every report
\* collected (the completion review, and the end of the turn after it).
AnswersSeeReports ==
  turn = "Answered" =>
    /\ Live = {}
    /\ \A i \in Ids : entry[session][i] \notin Active /\ <<session, i>> \notin unread

\* What the registry tells of a finished worker is what the log holds, except
\* for a failure and an interruption that the log has not recorded (yet), and
\* for a session that was recovered in the log and could not be opened.
ReportsAreStored ==
  \A o \in Owners, i \in Ids : entry[o][i] \in Final =>
    \/ entry[o][i] = log[o][i]
    \/ entry[o][i] = "Failed" /\ log[o][i] \in {"Absent", "Registered"}
    \/ entry[o][i] = "Failed" /\ log[o][i] = "Interrupted" /\ o # session
    \/ entry[o][i] = "Interrupted" /\ log[o][i] = "Registered"

\* No session's log says that a worker has ended while its task still works.
EndedWorkHasEnded ==
  \A o \in Owners, i \in Ids :
    stage[i] \in {"Registering", "Spawned", "Working", "Ended"}
      => log[o][i] \notin Final

\* The registry and the log say the same of a worker that has ended, and
\* neither is ahead of the worker (the report is stored, then published).
LogIsTrue == ReportsAreStored /\ EndedWorkHasEnded

\* No session ever holds more workers than it may start, over restarts,
\* forks and switches between sessions.
StartsAreBounded == \A o \in Owners : Cardinality(Logged(o)) <= MaxStarts

\* A stored report is never replaced, and no stored worker forgotten.
StoredReportsStay ==
  [][\A o \in Owners, i \in Ids :
       /\ log[o][i] \in Final => log'[o][i] = log[o][i]
       /\ log[o][i] # "Absent" => log'[o][i] # "Absent"]_vars

\* A turn that stops or has answered becomes idle: every worker it started
\* comes to its end, cancelled or not (finish_turn, TurnIsOver).
TurnBecomesIdle == (turn \in {"Stopping", "Answered"}) ~> (turn = "None")
=============================================================================
