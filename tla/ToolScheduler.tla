---------------------------- MODULE ToolScheduler ----------------------------
(***************************************************************************)
(* The tools of a turn: a batch of the root and the batches of the workers *)
(* it delegates to, each run by an Executor (actors/src/states/            *)
(* scheduler.rs), over one Workspace (workspace-access/src/lib.rs), with   *)
(* the managed processes that they start and stop.                         *)
(*                                                                         *)
(* A job is a place in a batch.  What happens between two awaits of one    *)
(* executor is one action, except where another thread could come between: *)
(* the grant of the lock, the checks before the tool runs, its end, the    *)
(* release of the lease and the record of the completion are steps.        *)
(***************************************************************************)
EXTENDS Integers, Sequences, FiniteSets

CONSTANTS
  Root,       \* the executor of the root
  Workers,    \* executors of the workers that the root may start
  Batches,    \* what the executors may be asked to run
  ReadLimit,  \* readers of the workspace, and concurrent jobs of an executor
  MaxEdits,   \* bound: edits of one job
  NoOne       \* nobody holds the writer lock

Executors == {Root} \cup Workers

\* The tools, by what they do; cargo's are awaited when they are interrupted.
\* start_worker ("worker") returns when its worker runs; gather_context,
\* make_changes, validate_rust and run_workflow wait for the report of theirs.
Delegating == {"gather", "change", "validate", "workflow"}
Kinds  == {"read", "ask", "patch", "fmt", "check", "start", "stop", "worker"}
            \cup Delegating
Awaited == {"fmt", "check", "start", "stop"}
Effect(k) ==
  CASE k = "read"                    -> "Read"
    [] k = "ask"                     -> "Interaction"
    [] k \in {"patch", "fmt", "start"} -> "Write"
    [] k = "check"                   -> "Validate"
    [] k = "stop"                    -> "ProcessControl"
    [] k \in {"worker", "gather"}    -> "DelegateRead"
    [] k \in {"change", "workflow"}  -> "DelegateWrite"
    [] k = "validate"                -> "DelegateValidate"
Harmless == {"Read", "DelegateRead", "Interaction"}
Concurrent(k) == Effect(k) \in Harmless
Exclusive(k)  == Effect(k) \in {"Write", "Validate"}

ASSUME ExecutorsAssumption == Root \notin Workers /\ NoOne \notin Executors
ASSUME BatchesAssumption == Batches \subseteq [Executors -> Seq(Kinds)]
ASSUME LimitsAssumption == ReadLimit \in Nat \ {0} /\ MaxEdits \in Nat

VARIABLES
  batch,      \* the jobs of each executor
  phase,      \* "off", "runs", "over" (no more jobs), "gone" (scope finished)
  group,      \* indices that the executor runs now
  next,       \* first index it has not scheduled
  helper,     \* the worker whose report a tool waits for
  inGit,      \* the project is a Git repository
  stage,      \* how far each job is
  outcome,    \* what it will report, or has reported
  queue,      \* jobs that wait for the workspace lock, first come first served
  writer,     \* who holds Workspace.writer
  revision,   \* Workspace.revision
  reported,   \* the revision told to a job and the content it found
  policy,     \* "open", "reads" (plan mode or review), "closed" (question)
  processes,  \* jobs whose managed process is registered
  started,    \* ProcessRegistry: jobs that have ever started one
  stopping,   \* of those, the ones told to stop
  cancelled,  \* executors whose scope is cancelled
  edits,      \* changes each job has made to files
  tasks,      \* interrupted jobs whose blocking work still runs
  worktree,   \* the session has a worktree of its own
  checkpoint  \* jobs that found none, and may give theirs back

schedule == <<batch, phase, group, next, helper, inGit>>
access   == <<queue, writer, revision, reported>>
external == <<policy, processes, started, stopping, cancelled>>
files    == <<edits, tasks, worktree, checkpoint>>
vars == <<batch, phase, group, next, helper, inGit, stage, outcome, queue,
          writer, revision, reported, policy, processes, started, stopping,
          cancelled, edits, tasks, worktree, checkpoint>>

Places  == UNION {DOMAIN b[e] : b \in Batches, e \in Executors}
Jobs    == {j \in Executors \X Places : j[2] \in DOMAIN batch[j[1]]}
Kind(j) == batch[j[1]][j[2]]
JobEffect(j) == Effect(Kind(j))
Leased  == {"leased", "works", "stopped", "ends"}
Stages  == Leased \cup {"waits", "slot", "locks", "delegated", "released", "done"}

-----------------------------------------------------------------------------
(* Outcomes.  A definition whose comment starts with "Variant" is a        *)
(* mistake that the definition after it avoids; no action uses it.         *)

None == [kind |-> "None", impact |-> "None"]
Ok   == [kind |-> "Ok", impact |-> "None"]
Failure(kind, impact) == [kind |-> kind, impact |-> impact]

StopsTurn(r) ==
  \/ r.impact = "MayHaveChanged"
  \/ r.kind \in {"Worker", "Timeout", "Cancelled", "Panicked", "Persistence"}

Effects(k) ==
  IF Effect(k) \in {"Write", "ProcessControl", "DelegateWrite"}
  THEN "MayHaveChanged" ELSE "NoWorkspaceChange"

\* What a tool that fails by itself may report: any error is an Execution
\* failure by its effect; apply_patch says when it has not begun to write; a
\* command that fails and a workflow that stops report their output, and never
\* a change; a worker that may not run is refused before it starts.
OwnFailures(j) ==
  {Failure("Execution", Effects(Kind(j))), Failure("Panicked", Effects(Kind(j)))}
    \cup (IF Kind(j) = "patch" /\ edits[j] = 0
          THEN {Failure("InvalidInput", "NoWorkspaceChange")} ELSE {})
    \cup (IF Kind(j) \in {"fmt", "check", "start"}
          THEN {Failure(k, "NoWorkspaceChange") :
                  k \in {"Validation", "Timeout", "Cancelled"}} ELSE {})
    \cup (IF Kind(j) \in {"worker"} \cup Delegating /\ helper[j] = NoOne
          THEN {Failure("InvalidInput", "NotStarted")} ELSE {})
    \cup (IF Kind(j) = "workflow"
          THEN {Failure("Validation", "NoWorkspaceChange")} ELSE {})

-----------------------------------------------------------------------------
(* The workspace.                                                          *)

Readers == {j \in Jobs : stage[j] \in Leased /\ JobEffect(j) = "Read"}
Editors == {j \in Jobs : stage[j] \in Leased /\ Exclusive(Kind(j))}
Slots   == {j \in Jobs : JobEffect(j) = "Read" /\ stage[j] \in Leased \cup {"locks"}}

Content == Cardinality({x \in (DOMAIN edits) \X (1..MaxEdits) : x[2] <= edits[x[1]]})

\* TRUE iff the workspace lock may be given to `j` at once.
Free(j) == Editors = {} /\ (Exclusive(Kind(j)) => Readers = {})

\* Variant: the processes of the executor's own turn or worker only.
TargetRunsOwn(j) == \E p \in processes : p[1] = j[1]
\* Scopes of a session share one list of resources.
TargetRuns(j) == processes # {}

\* Variant: a call that gives up keeps its place.
StayInQueue(j) == queue
LeaveQueue(j) == SelectSeq(queue, LAMBDA k : k # j)

DropLease(j) == IF JobEffect(j) = "Write" THEN revision + 1 ELSE revision

DropWriter(j) ==
  IF j[1] = Root /\ Exclusive(Kind(j)) /\ writer = Root THEN NoOne ELSE writer

\* Variant: the lease is dropped with the future of the tool.
FinishedAtOnce(j) == TRUE
\* scope.finish(): blocking work that the tool left behind has ended.
Finished(j) == j \notin tasks

\* Variant: a tool that failed is taken not to have written.
UnchangedIfFailed(j) == TRUE
Unchanged(j) == edits[j] = 0

Permits(effect) ==
  CASE policy = "closed" -> FALSE
    [] policy = "reads"  -> effect \in Harmless
    [] policy = "open"   -> TRUE
Allowed(k) == Permits(Effect(k))

CancelScope(e) == IF e = Root THEN Executors ELSE {e}
Own(e) == {p \in processes : p[1] = e}

-----------------------------------------------------------------------------
(* The executor: groups of concurrent jobs, or one exclusive job at a time. *)

GroupAt(b, i) ==
  IF Concurrent(b[i])
  THEN {k \in i..Len(b) : \A m \in i..k : Concurrent(b[m])}
  ELSE {i}

InitWith(b) ==
  /\ batch = b
  /\ phase = [e \in Executors |-> IF e = Root THEN "runs" ELSE "off"]
  /\ group = [e \in Executors |-> {}] /\ next = [e \in Executors |-> 1]
  /\ helper = [j \in Executors \X Places |-> NoOne] /\ inGit \in BOOLEAN
  /\ stage = [j \in Executors \X Places |-> "waits"]
  /\ outcome = [j \in Executors \X Places |-> None]
  /\ queue = <<>> /\ writer = NoOne /\ revision = 0
  /\ reported = [j \in Executors \X Places |-> <<>>]
  /\ policy \in {"open", "reads"}
  /\ processes = {} /\ stopping = {} /\ started = {} /\ cancelled = {}
  /\ edits = [j \in Executors \X Places |-> 0]
  /\ tasks = {} /\ worktree = FALSE /\ checkpoint = {}

Init == \E b \in Batches : InitWith(b)

\* The scope of a worker is finished when it has no more to do.
Schedule(e) ==
  /\ phase[e] = "runs"
  /\ \A i \in group[e] : stage[<<e, i>>] = "done"
  /\ IF \/ e \in cancelled \/ policy = "closed" \/ next[e] > Len(batch[e])
        \/ \E i \in group[e] : StopsTurn(outcome[<<e, i>>])
     THEN /\ phase' = [phase EXCEPT ![e] = "over"]
          /\ group' = [group EXCEPT ![e] = {}]
          /\ cancelled' = IF e = Root THEN cancelled ELSE cancelled \cup {e}
          /\ UNCHANGED next
     ELSE LET g == GroupAt(batch[e], next[e]) IN
          /\ group' = [group EXCEPT ![e] = g]
          /\ next' = [next EXCEPT ![e] = @ + Cardinality(g)]
          /\ UNCHANGED <<phase, cancelled>>
  /\ UNCHANGED <<batch, helper, inGit, stage, outcome, access, policy,
                 processes, stopping, started, files>>

\* buffered(read_limit): results leave the buffer in the order of the jobs.
Admitted(j) ==
  /\ j[2] \in group[j[1]] /\ stage[j] = "waits"
  /\ Cardinality({i \in group[j[1]] : /\ i < j[2]
                    /\ \E k \in group[j[1]] : k <= i /\ stage[<<j[1], k>>] # "done"})
       < ReadLimit

\* The job is over before it has a lease.
Refuse(j, kind) ==
  /\ stage' = [stage EXCEPT ![j] = "released"]
  /\ outcome' = [outcome EXCEPT ![j] = Failure(kind, "NotStarted")]
  /\ queue' = LeaveQueue(j) /\ writer' = DropWriter(j)
  /\ UNCHANGED <<schedule, external, files, reported>>

\* An unknown tool, a bad input, a panic, or a worker's exhausted budget.
PrepareFails(j) ==
  /\ Admitted(j)
  /\ \E kind \in {"InvalidInput", "Panicked"}
                   \cup (IF j[1] = Root THEN {} ELSE {"Worker"}) : Refuse(j, kind)
  /\ UNCHANGED revision

WriterIsFree(j) == j[1] = Root /\ Exclusive(Kind(j)) => writer = NoOne

Deny(j) ==
  /\ Admitted(j) /\ ~(Allowed(Kind(j)) /\ WriterIsFree(j))
  /\ Refuse(j, "InvalidInput") /\ UNCHANGED revision

Enter(j) ==
  /\ Admitted(j) /\ Allowed(Kind(j)) /\ WriterIsFree(j)
  /\ writer' = IF j[1] = Root /\ Exclusive(Kind(j)) THEN Root ELSE writer
  /\ stage' = [stage EXCEPT ![j] =
       CASE JobEffect(j) = "Read" -> "slot"
         [] Exclusive(Kind(j))    -> "locks"
         [] OTHER -> "delegated"]
  /\ queue' = IF Exclusive(Kind(j)) THEN Append(queue, j) ELSE queue
  /\ UNCHANGED <<schedule, outcome, revision, reported, external, files>>

TakeSlot(j) ==
  /\ stage[j] = "slot" /\ j[1] \notin cancelled
  /\ Cardinality(Slots) < ReadLimit
  /\ stage' = [stage EXCEPT ![j] = "locks"] /\ queue' = Append(queue, j)
  /\ UNCHANGED <<schedule, outcome, writer, revision, reported, external, files>>

\* Workspace::acquire, cancelled while it waits.
GiveUp(j) ==
  /\ stage[j] \in {"slot", "locks", "delegated"} /\ j[1] \in cancelled
  /\ Refuse(j, "Cancelled") /\ UNCHANGED revision

Granted(j) ==
  /\ j[1] \notin cancelled
  /\ \/ stage[j] = "locks" /\ queue # <<>> /\ Head(queue) = j /\ Free(j)
     \/ stage[j] = "delegated"

\* The lease is granted and dropped again: a process would see the change.
RefuseBeside(j) ==
  /\ Granted(j) /\ Exclusive(Kind(j)) /\ TargetRuns(j)
  /\ Refuse(j, "Validation") /\ revision' = DropLease(j)

Grant(j) ==
  /\ Granted(j) /\ ~(Exclusive(Kind(j)) /\ TargetRuns(j))
  /\ stage' = [stage EXCEPT ![j] = "leased"] /\ queue' = LeaveQueue(j)
  /\ reported' = IF JobEffect(j) \in {"Read", "Write", "Validate"}
                 THEN [reported EXCEPT ![j] = <<revision, Content>>]
                 ELSE reported
  /\ UNCHANGED <<schedule, outcome, writer, revision, external, files>>

\* Under the lease.  Before a first write the session has no worktree; if that
\* cannot be read, the lease is dropped at once.
Needs(j) == JobEffect(j) = "Write" /\ ~worktree

CheckpointFails(j) ==
  /\ stage[j] = "leased"
  /\ stage' = [stage EXCEPT ![j] = "released"]
  /\ outcome' = [outcome EXCEPT ![j] = Failure("Execution", "NoWorkspaceChange")]
  /\ revision' = DropLease(j) /\ writer' = DropWriter(j)
  /\ UNCHANGED <<schedule, queue, reported, external, files>>

\* The first write gives the session a worktree, if the project is in Git, the
\* policy is asked again and the intent is stored; each of them may fail.
WithWorktree(j) == worktree \/ (Needs(j) /\ inGit)

Begin(j) ==
  /\ stage[j] = "leased"
  /\ checkpoint' = IF Needs(j) THEN checkpoint \cup {j} ELSE checkpoint
  /\ \/ /\ Allowed(Kind(j))
        /\ worktree' = WithWorktree(j)
        /\ stage' = [stage EXCEPT ![j] = "works"]
        /\ stopping' = IF Kind(j) = "stop" THEN stopping \cup Own(j[1]) ELSE stopping
        /\ UNCHANGED outcome
     \/ /\ \/ /\ worktree' \in {worktree, WithWorktree(j)}
              /\ outcome' = [outcome EXCEPT ![j] = Failure("Execution", "NotStarted")]
           \/ /\ worktree' = WithWorktree(j)
              /\ \E r \in {Failure("Execution", Effects(Kind(j))),
                          Failure(IF Allowed(Kind(j)) THEN "Persistence"
                                  ELSE "InvalidInput", "NotStarted")} :
                   outcome' = [outcome EXCEPT ![j] = r]
        /\ stage' = [stage EXCEPT ![j] = "ends"]
        /\ UNCHANGED stopping
  /\ UNCHANGED <<schedule, access, policy, processes, started, cancelled, edits, tasks>>

-----------------------------------------------------------------------------
(* The tool.  Work that it does in blocking tasks outlives its future.     *)

Edit(j) ==
  /\ \/ Kind(j) \in {"patch", "fmt"} /\ stage[j] \in {"works", "stopped"}
     \/ Kind(j) = "patch" /\ j \in tasks
  /\ edits[j] < MaxEdits
  /\ edits' = [edits EXCEPT ![j] = @ + 1]
  /\ UNCHANGED <<schedule, stage, outcome, access, external, tasks, worktree,
                 checkpoint>>

End(j, result) ==
  /\ stage' = [stage EXCEPT ![j] = "ends"]
  /\ outcome' = [outcome EXCEPT ![j] = result]
  /\ UNCHANGED <<batch, group, next, helper, inGit, queue, revision, reported,
                 stopping, edits, worktree, checkpoint>>

\* cargo start: the process belongs to the turn, and outlives the tool.
Launch(j) ==
  /\ Kind(j) = "start" /\ stage[j] = "works" /\ j[1] \notin cancelled
  /\ processes' = processes \cup {j} /\ started' = started \cup {j}
  /\ End(j, Ok)
  /\ UNCHANGED <<phase, writer, policy, cancelled, tasks>>

\* A required question closes the gate at once.
Ask(j) ==
  /\ Kind(j) = "ask" /\ stage[j] = "works" /\ j[1] = Root
  /\ policy' = "closed"
  /\ End(j, Ok)
  /\ UNCHANGED <<phase, writer, processes, started, cancelled, tasks>>

\* A worker that may edit or validate keeps the writer lock until it is gone.
Edits(w) == \E i \in DOMAIN batch[w] : Exclusive(Kind(<<w, i>>))
Reported(j) == helper[j] # NoOne /\ phase[helper[j]] = "gone"
\* The steps of a workflow follow each other; other tools start one worker.
MayStart(j) == helper[j] = NoOne \/ (Kind(j) = "workflow" /\ Reported(j))

Delegate(j, w) ==
  /\ Kind(j) \in {"worker"} \cup Delegating /\ stage[j] = "works" /\ j[1] = Root
  /\ MayStart(j) /\ phase[w] = "off" /\ w \notin cancelled
  /\ Permits(IF Edits(w) THEN "DelegateWrite" ELSE "DelegateRead")
  /\ Edits(w) => Kind(j) # "gather" /\ writer = NoOne
  /\ phase' = [phase EXCEPT ![w] = "runs"]
  /\ writer' = IF Edits(w) THEN w ELSE writer
  /\ IF Kind(j) \in Delegating
     THEN /\ helper' = [helper EXCEPT ![j] = w]
          /\ UNCHANGED <<batch, group, next, inGit, stage, outcome, queue, revision,
                         reported, stopping, edits, worktree, checkpoint>>
     ELSE End(j, Ok)
  /\ UNCHANGED <<policy, processes, started, cancelled, tasks>>

\* The tool returns.  `stop` waits for the process, a delegation for its worker;
\* a panic may leave tasks.
Return(j) ==
  /\ stage[j] \in {"works", "stopped"}
  /\ helper[j] = NoOne \/ Reported(j)
  /\ \/ /\ \/ Kind(j) \in {"read", "patch", "fmt", "check"}
           \/ Kind(j) \in Delegating /\ Reported(j)
           \/ Kind(j) = "stop" /\ Own(j[1]) = {} /\ \E p \in started : p[1] = j[1]
        /\ End(j, Ok)
        /\ UNCHANGED <<tasks, started>>
     \/ \E result \in OwnFailures(j) :
          /\ Kind(j) = "stop" => \A p \in started : p[1] # j[1]
          /\ End(j, result)
          /\ \/ UNCHANGED tasks
             \/ result.kind = "Panicked" /\ Kind(j) \in {"read", "patch"}
                  /\ tasks' = tasks \cup {j}
          \* the process has already ended with an error
          /\ started' \in {started} \cup
               (IF Kind(j) = "start" THEN {started \cup {j}} ELSE {})
  /\ UNCHANGED <<phase, writer, policy, processes, cancelled>>

\* invoke: cancellation or the deadline, whichever comes first.  The worker of
\* a delegation belongs to the turn, and runs on.
Interrupt(j) ==
  /\ stage[j] = "works"
  /\ \E reason \in {"Timeout"} \cup (IF j[1] \in cancelled THEN {"Cancelled"} ELSE {}) :
       IF Kind(j) \in Awaited
       THEN /\ stage' = [stage EXCEPT ![j] = "stopped"]
            /\ UNCHANGED <<schedule, outcome, access, files>>
       ELSE /\ End(j, Failure(reason, Effects(Kind(j))))
            /\ \/ UNCHANGED tasks
               \/ Kind(j) \in {"read", "patch"} /\ tasks' = tasks \cup {j}
            /\ UNCHANGED <<phase, writer>>
  /\ UNCHANGED <<policy, processes, started, cancelled, stopping>>

TasksEnd(j) ==
  /\ j \in tasks /\ stage[j] = "ends"
  /\ tasks' = tasks \ {j}
  /\ UNCHANGED <<schedule, stage, outcome, access, external, edits, worktree,
                 checkpoint>>

\* After scope.finish(): a worktree made for nothing is given back, then the
\* lease and the writer lock are dropped.
Discards(j) == outcome[j] # Ok /\ j \in checkpoint /\ worktree /\ Unchanged(j)

Release(j) ==
  /\ stage[j] = "ends" /\ Finished(j)
  /\ \/ /\ Discards(j)
        /\ worktree' = FALSE
        /\ outcome' = [outcome EXCEPT ![j].impact =
             IF @ = "NotStarted" THEN @ ELSE "NoWorkspaceChange"]
     \/ UNCHANGED <<worktree, outcome>>   \* nothing to discard, or it fails
  /\ stage' = [stage EXCEPT ![j] = "released"]
  /\ revision' = DropLease(j) /\ writer' = DropWriter(j)
  /\ UNCHANGED <<schedule, queue, reported, external, edits, tasks, checkpoint>>

\* A completion that cannot be stored replaces the result.
Complete(j) ==
  /\ stage[j] = "released"
  /\ stage' = [stage EXCEPT ![j] = "done"]
  /\ outcome' \in {outcome, [outcome EXCEPT ![j] = Failure("Persistence", "MayHaveChanged")]}
  /\ UNCHANGED <<schedule, access, external, files>>

-----------------------------------------------------------------------------
(* What happens around the tools.                                          *)

CancelWork(e) ==
  /\ e \notin cancelled /\ phase[e] # "off"
  /\ cancelled' = cancelled \cup CancelScope(e)
  /\ UNCHANGED <<schedule, stage, outcome, access, policy, processes, started,
                 stopping, files>>

\* The user answers, or changes the mode or the plan under review.
ChangePolicy ==
  /\ policy' \in {"open", "reads"} \ {policy}
  /\ UNCHANGED <<schedule, stage, outcome, access, processes, started, stopping,
                 cancelled, files>>

\* The process exits or is killed; if that cannot be stored, its owner stops.
ProcessEnds(p) ==
  /\ p \in processes
  /\ processes' = processes \ {p} /\ stopping' = stopping \ {p}
  /\ cancelled' \in {cancelled, cancelled \cup CancelScope(p[1])}
  /\ UNCHANGED <<schedule, stage, outcome, access, policy, started, files>>

\* The task of a worker waits for its processes and releases the writer lock.
WorkerGone(w) ==
  /\ phase[w] = "over" /\ Own(w) = {}
  /\ phase' = [phase EXCEPT ![w] = "gone"]
  /\ writer' = IF writer = w THEN NoOne ELSE writer
  /\ UNCHANGED <<batch, group, next, helper, inGit, stage, outcome, queue,
                 revision, reported, external, files>>

-----------------------------------------------------------------------------
Before(j) == \/ PrepareFails(j) \/ Deny(j) \/ Enter(j) \/ TakeSlot(j)
             \/ GiveUp(j) \/ RefuseBeside(j) \/ Grant(j)
             \/ CheckpointFails(j) \/ Begin(j)
Work(j)   == \/ Launch(j) \/ Ask(j) \/ \E w \in Workers : Delegate(j, w)
             \/ Return(j)
After(j)  == TasksEnd(j) \/ Release(j) \/ Complete(j)
Proceed(j) == \/ Before(j) \/ Work(j) \/ After(j)
              \/ j[1] \in cancelled /\ Interrupt(j)

Next ==
  \/ \E e \in Executors : Schedule(e) \/ CancelWork(e)
  \/ \E j \in Jobs : \/ Before(j) \/ Edit(j) \/ Work(j) \/ Interrupt(j)
                     \/ After(j) \/ ProcessEnds(j)
  \/ \E w \in Workers : WorkerGone(w)
  \/ ChangePolicy

\* The executors and their tools run, tools return once what they wait for has
\* come, cancellation reaches them, work that is awaited ends, and a process
\* that is told to stop does.  No deadline is relied on.
Fairness ==
  /\ \A e \in Executors : WF_vars(Schedule(e))
  /\ \A w \in Workers : WF_vars(WorkerGone(w))
  /\ \A e \in Executors, i \in Places :
       LET j == <<e, i>> IN
       /\ WF_vars(j \in Jobs /\ Proceed(j))
       /\ WF_vars((j \in stopping \/ j[1] \in cancelled) /\ ProcessEnds(j))

Spec == Init /\ [][Next]_vars /\ Fairness

-----------------------------------------------------------------------------
(* Properties.                                                             *)

TypeOK ==
  /\ batch \in Batches
  /\ phase \in [Executors -> {"off", "runs", "over", "gone"}]
  /\ stage \in [Executors \X Places -> Stages]
  /\ writer \in Executors \cup {NoOne} /\ revision \in Nat
  /\ policy \in {"open", "reads", "closed"} /\ cancelled \subseteq Executors
  /\ processes \subseteq started /\ stopping \subseteq processes
  /\ edits \in [Executors \X Places -> 0..MaxEdits]
  /\ helper \in [Executors \X Places -> Workers \cup {NoOne}]
  /\ inGit \in BOOLEAN /\ worktree \in BOOLEAN

\* The detailed scheduler keeps what SharedWorkspace promises: readers share,
\* an edit happens only under the lease of its job, even one made by work that
\* an interrupted tool left behind, and a revision names one content.
Abstract == INSTANCE SharedWorkspace WITH
  Tools <- Executors \X Places, readers <- Readers, editors <- Editors,
  content <- Content, dirty <- \E j \in Editors : edits[j] > 0,
  told <- {reported[j] : j \in {i \in Jobs : reported[i] # <<>>}}
WorkspaceIsShared == Abstract!Spec

\* A result that says the tool did not start, or changed nothing, is true
\* (unless it is the output of a command, which ran), and in Git the worktree
\* that holds edits or runs a process is not given back.  Of a delegation only
\* "not started" is told: its worker reports for itself.
ImpactIsTrue ==
  /\ \A j \in Jobs : stage[j] = "done" =>
       /\ outcome[j].impact = "NotStarted" => 
            edits[j] = 0 /\ j \notin started /\ helper[j] = NoOne
       /\ outcome[j].impact = "NoWorkspaceChange" /\ Kind(j) # "fmt" => edits[j] = 0
  /\ inGit /\ (Content > 0 \/ processes # {}) => worktree

\* No tool edits or validates while the managed process of another tool runs,
\* whichever executor started it and however long the tool waited.
NoEditBesideProcess ==
  \A j \in Jobs :
    Exclusive(Kind(j)) /\ (stage[j] \in {"works", "stopped"} \/ j \in tasks)
      => processes \subseteq {j}

\* Every executor comes to the end of its batch, whoever is cancelled while it
\* waits for a slot, for the lock, for a process or for the report of a worker,
\* which has a batch of its own; a worker is gone then.
BatchesEnd ==
  /\ phase[Root] = "runs" ~> phase[Root] = "over"
  /\ \A w \in Workers : phase[w] = "runs" ~> phase[w] = "gone"
=============================================================================
