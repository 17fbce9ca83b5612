------------------------- MODULE ToolSchedulerProofs -------------------------
(***************************************************************************)
(* Proofs about ToolScheduler, for every set of workers, every batch of    *)
(* tools and every number of edits: it implements SharedWorkspace, no tool *)
(* edits beside the managed process of another, and what a result says of  *)
(* its effect is true.                                                     *)
(*                                                                         *)
(* The lease is what all of it hangs on.  A job holds it from the grant to *)
(* the release, in the stages of Leased; a tool changes files only there,  *)
(* and the work it leaves behind keeps it there.  So who holds the lease   *)
(* alone knows that nobody else changes files, starts a process or gives   *)
(* the worktree back.                                                      *)
(***************************************************************************)
EXTENDS ToolScheduler, FiniteSetTheorems, TLAPS

Calls == Executors \X Places
Outcomes ==
  [kind : {"None", "Ok", "Execution", "Panicked", "InvalidInput", "Validation",
           "Timeout", "Cancelled", "Worker", "Persistence"},
   impact : {"None", "NotStarted", "NoWorkspaceChange", "MayHaveChanged"}]

Begun == {"works", "stopped", "ends", "released", "done"}
Ended == {"ends", "released", "done"}

\* The edits that Content counts
Made == {x \in (DOMAIN edits) \X (1..MaxEdits) : x[2] <= edits[x[1]]}

Types ==
  /\ TypeOK
  /\ outcome \in [Calls -> Outcomes]
  /\ reported \in [Calls -> {<<>>} \cup (Nat \X Nat)]
  /\ tasks \subseteq Calls /\ checkpoint \subseteq Calls /\ started \subseteq Calls
  /\ IsFiniteSet(Made)

\* Only a read or an exclusive job comes for the lock, and only it is told a
\* revision when it has it.
Waiting(j) ==
  /\ stage[j] = "locks" => JobEffect(j) = "Read" \/ Exclusive(Kind(j))
  /\ stage[j] = "slot" => JobEffect(j) = "Read"
  /\ stage[j] = "delegated" => JobEffect(j) # "Read" /\ ~Exclusive(Kind(j))
  /\ reported[j] # <<>> => stage[j] \in Leased \cup Ended

\* What a job has done, it did under its lease, and its result admits it.
Honest(j) ==
  /\ edits[j] > 0 => stage[j] \in Begun /\ Kind(j) \in {"patch", "fmt"}
  /\ j \in started => stage[j] \in Ended /\ Kind(j) = "start"
  /\ j \in checkpoint => stage[j] \in Begun /\ JobEffect(j) = "Write"
  /\ j \in tasks =>
       /\ stage[j] = "ends" /\ Kind(j) \in {"read", "patch"}
       /\ Kind(j) = "patch" => outcome[j].impact = "MayHaveChanged"
  /\ helper[j] # NoOne => stage[j] \in Begun /\ Kind(j) \in Delegating
  /\ stage[j] \in Ended =>
       /\ outcome[j].impact = "NotStarted" =>
            edits[j] = 0 /\ j \notin started /\ helper[j] = NoOne
       /\ outcome[j].impact = "NoWorkspaceChange" /\ Kind(j) # "fmt" => edits[j] = 0

\* The job that edits or validates is alone, and no other's process runs.
Alone ==
  /\ \A j, k \in Editors : j = k
  /\ Editors # {} => Readers = {}
  /\ \A j \in Editors : processes \subseteq {j}

\* In Git, edits and processes are in a worktree; one that a job may give back
\* holds nothing but what this job did.
Rooted ==
  inGit =>
  /\ \A j \in Calls : edits[j] > 0 => worktree
  /\ processes # {} => worktree
  /\ \A j \in Jobs : JobEffect(j) = "Write" /\ (stage[j] \in {"works", "stopped"} \/ j \in tasks)
       => worktree
  /\ \A j \in Jobs : stage[j] \in Leased /\ j \in checkpoint =>
       /\ \A k \in Calls : k # j => edits[k] = 0
       /\ processes = {} \/ (stage[j] = "ends" /\ outcome[j] = Ok)

ToolInv == Types /\ (\A j \in Calls : Waiting(j) /\ Honest(j)) /\ Alone /\ Rooted

-----------------------------------------------------------------------------
(* The steps of Next, by what they do to the jobs, the workspace, the      *)
(* files and the processes                                                 *)

relevant ==
  <<batch, helper, inGit, stage, outcome, reported, revision, processes, started,
    edits, tasks, worktree, checkpoint>>

\* An executor, a scope or the policy changes.
Aside == UNCHANGED relevant

\* A job goes on towards its lease,
Approaches(j) ==
  /\ \/ stage[j] = "waits" /\ \E t \in {"slot", "locks", "delegated"} :
          /\ stage' = [stage EXCEPT ![j] = t]
          /\ t = "locks" => Exclusive(Kind(j))
          /\ t = "delegated" => JobEffect(j) # "Read" /\ ~Exclusive(Kind(j))
          /\ t = "slot" => JobEffect(j) = "Read"
     \/ stage[j] = "slot" /\ stage' = [stage EXCEPT ![j] = "locks"]
  /\ UNCHANGED <<batch, helper, inGit, outcome, reported, revision, processes, started,
                 edits, tasks, worktree, checkpoint>>

\* or it is refused before it has one.
Refused(j) ==
  /\ stage[j] \in {"waits", "slot", "locks", "delegated"}
  /\ stage' = [stage EXCEPT ![j] = "released"]
  /\ \E kind \in {"InvalidInput", "Panicked", "Worker", "Cancelled", "Validation"} :
       outcome' = [outcome EXCEPT ![j] = Failure(kind, "NotStarted")]
  /\ revision' # revision => revision' = revision + 1 /\ Editors = {} /\ Readers = {}
  /\ revision' \in Nat
  /\ UNCHANGED <<batch, helper, inGit, reported, processes, started, edits, tasks,
                 worktree, checkpoint>>

\* A tool that is awaited is told to stop.
ToldToStop(j) ==
  /\ stage[j] = "works" /\ stage' = [stage EXCEPT ![j] = "stopped"]
  /\ UNCHANGED <<batch, helper, inGit, outcome, reported, revision, processes, started,
                 edits, tasks, worktree, checkpoint>>

\* A tool has a result, and may leave work or a process behind.
Results(j, r) ==
  /\ stage[j] \in {"works", "stopped"}
  /\ stage' = [stage EXCEPT ![j] = "ends"]
  /\ r \in Outcomes /\ outcome' = [outcome EXCEPT ![j] = r]
  /\ r.impact = "NotStarted" =>
       helper[j] = NoOne /\ Kind(j) \in {"worker"} \cup Delegating
  /\ r.impact = "NoWorkspaceChange" /\ Kind(j) = "patch" => edits[j] = 0
  /\ \/ tasks' = tasks
     \/ /\ tasks' = tasks \cup {j} /\ Kind(j) \in {"read", "patch"}
        /\ Kind(j) = "patch" => r.impact = "MayHaveChanged"
  /\ \/ processes' = processes /\ started' = started
     \/ processes' = processes /\ started' = started \cup {j} /\ Kind(j) = "start"
     \/ /\ processes' = processes \cup {j} /\ started' = started \cup {j}
        /\ Kind(j) = "start" /\ r = Ok
  /\ UNCHANGED <<batch, helper, inGit, reported, revision, edits, worktree, checkpoint>>

\* A tool starts a worker and waits for its report.
Hires(j) ==
  /\ stage[j] = "works" /\ Kind(j) \in Delegating
  /\ \E w \in Workers : helper' = [helper EXCEPT ![j] = w]
  /\ UNCHANGED <<batch, inGit, stage, outcome, reported, revision, processes, started,
                 edits, tasks, worktree, checkpoint>>

JobStep(j) ==
  \/ Approaches(j) \/ Refused(j) \/ Grant(j) \/ CheckpointFails(j) \/ Begin(j)
  \/ ToldToStop(j) \/ Hires(j) \/ (\E r \in Outcomes : Results(j, r))
  \/ Edit(j) \/ TasksEnd(j) \/ Release(j) \/ Complete(j) \/ ProcessEnds(j)

\* A tool's own result or interruption is one of these.
LEMMA ResultsAreKnown ==
  ASSUME Types, NEW j \in Jobs, Launch(j) \/ Ask(j) \/ (\E w \in Workers : Delegate(j, w))
                                  \/ Return(j) \/ Interrupt(j)
  PROVE  ToldToStop(j) \/ Hires(j) \/ \E r \in Outcomes : Results(j, r)
<1>1. Ok \in Outcomes /\ Ok.impact = "None"
  BY DEF Ok, Outcomes
<1>2. CASE Launch(j)
  <2>1. Results(j, Ok)
    BY <1>1, <1>2 DEF Launch, End, Results
  <2> QED BY <1>1, <2>1
<1>3. CASE Ask(j)
  <2>1. Results(j, Ok)
    BY <1>1, <1>3 DEF Ask, End, Results
  <2> QED BY <1>1, <2>1
<1>4. CASE \E w \in Workers : Delegate(j, w)
  <2>1. CASE Kind(j) \in Delegating
    BY <1>4, <2>1 DEF Delegate, Hires
  <2>2. CASE Kind(j) \notin Delegating
    <3>1. Results(j, Ok)
      BY <1>1, <1>4, <2>2 DEF Delegate, End, Results
    <3> QED BY <1>1, <3>1
  <2> QED BY <2>1, <2>2
<1>5. CASE Return(j)
  <2>1. CASE End(j, Ok) /\ UNCHANGED <<tasks, started>>
    <3>1. Results(j, Ok)
      BY <1>1, <1>5, <2>1 DEF Return, End, Results
    <3> QED BY <1>1, <3>1
  <2>2. CASE \E result \in OwnFailures(j) :
               /\ End(j, result)
               /\ \/ UNCHANGED tasks
                  \/ result.kind = "Panicked" /\ Kind(j) \in {"read", "patch"}
                       /\ tasks' = tasks \cup {j}
               /\ started' \in {started} \cup
                    (IF Kind(j) = "start" THEN {started \cup {j}} ELSE {})
    <3>1. PICK r \in OwnFailures(j) :
               /\ End(j, r)
               /\ \/ UNCHANGED tasks
                  \/ r.kind = "Panicked" /\ Kind(j) \in {"read", "patch"}
                       /\ tasks' = tasks \cup {j}
               /\ started' \in {started} \cup
                    (IF Kind(j) = "start" THEN {started \cup {j}} ELSE {})
      BY <2>2
    <3>2. /\ r \in Outcomes
          /\ r.impact = "NotStarted" =>
               helper[j] = NoOne /\ Kind(j) \in {"worker"} \cup Delegating
          /\ r.impact = "NoWorkspaceChange" /\ Kind(j) = "patch" => edits[j] = 0
          /\ r.kind = "Panicked" /\ Kind(j) = "patch" => r.impact = "MayHaveChanged"
      BY <3>1 DEF OwnFailures, Failure, Effects, Effect, Outcomes
    <3>3. Results(j, r)
      BY <1>5, <3>1, <3>2 DEF Return, End, Results
    <3> QED BY <3>2, <3>3
  <2> QED BY <1>5, <2>1, <2>2 DEF Return
<1>6. CASE Interrupt(j)
  <2>1. PICK reason \in {"Timeout", "Cancelled"} :
       IF Kind(j) \in Awaited
       THEN /\ stage' = [stage EXCEPT ![j] = "stopped"]
            /\ UNCHANGED <<schedule, outcome, access, files>>
       ELSE /\ End(j, Failure(reason, Effects(Kind(j))))
            /\ \/ UNCHANGED tasks
               \/ Kind(j) \in {"read", "patch"} /\ tasks' = tasks \cup {j}
            /\ UNCHANGED <<phase, writer>>
    BY <1>6 DEF Interrupt
  <2>2. CASE Kind(j) \in Awaited
    BY <1>6, <2>1, <2>2 DEF Interrupt, ToldToStop, schedule, access, files
  <2>3. CASE Kind(j) \notin Awaited
    <3> DEFINE r == Failure(reason, Effects(Kind(j)))
    <3>1. /\ r \in Outcomes /\ r.impact # "NotStarted"
          /\ Kind(j) = "patch" => r.impact = "MayHaveChanged"
      BY DEF Failure, Effects, Effect, Outcomes
    <3>2. Results(j, r)
      BY <1>6, <2>1, <2>3, <3>1 DEF Interrupt, End, Results
    <3> QED BY <3>1, <3>2
  <2> QED BY <2>2, <2>3
<1> QED BY <1>2, <1>3, <1>4, <1>5, <1>6

\* A refused job has no lease; a number goes only when nobody has one.
LEMMA RefusalsAreKnown ==
  ASSUME Types, NEW j \in Jobs, PrepareFails(j) \/ Deny(j) \/ GiveUp(j) \/ RefuseBeside(j),
         Waiting(j)
  PROVE  Refused(j)
<1>1. revision \in Nat
  BY DEF Types, TypeOK
<1>2. CASE PrepareFails(j)
  BY <1>1, <1>2 DEF PrepareFails, Admitted, Refuse, Refused, schedule, external, files
<1>3. CASE Deny(j)
  BY <1>1, <1>3 DEF Deny, Admitted, Refuse, Refused, schedule, external, files
<1>4. CASE GiveUp(j)
  BY <1>1, <1>4 DEF GiveUp, Refuse, Refused, schedule, external, files
<1>5. CASE RefuseBeside(j)
  <2>1. stage[j] = "locks" /\ Editors = {} /\ Readers = {}
    BY <1>5 DEF RefuseBeside, Granted, Waiting, Free
  <2> QED BY <1>1, <1>5, <2>1
      DEF RefuseBeside, Refuse, Refused, DropLease, schedule, external, files
<1> QED BY <1>2, <1>3, <1>4, <1>5

LEMMA StepsAreKnown ==
  ASSUME Types, \A j \in Calls : Waiting(j), [Next]_vars
  PROVE  Aside \/ \E j \in Jobs : JobStep(j)
<1>1. ASSUME NEW e \in Executors, Schedule(e) \/ CancelWork(e) PROVE Aside
  BY <1>1 DEF Schedule, CancelWork, Aside, relevant, schedule, access, files
<1>2. ASSUME NEW j \in Jobs, Before(j) PROVE JobStep(j)
  <2>1. Waiting(j)
    BY DEF Jobs, Calls
  <2>2. CASE Enter(j)
    BY <2>2 DEF Enter, Admitted, JobStep, Approaches, schedule, external, files, Exclusive, JobEffect
  <2>3. CASE TakeSlot(j)
    BY <2>3 DEF TakeSlot, JobStep, Approaches, schedule, external, files
  <2>4. CASE PrepareFails(j) \/ Deny(j) \/ GiveUp(j) \/ RefuseBeside(j)
    BY <2>1, <2>4, RefusalsAreKnown DEF JobStep
  <2> QED BY <1>2, <2>2, <2>3, <2>4 DEF Before, JobStep
<1>3. ASSUME NEW j \in Jobs, Work(j) \/ Interrupt(j) PROVE JobStep(j)
  BY <1>3, ResultsAreKnown DEF Work, JobStep
<1>4. ASSUME NEW j \in Jobs, Edit(j) \/ After(j) \/ ProcessEnds(j) PROVE JobStep(j)
  BY <1>4 DEF After, JobStep
<1>5. ASSUME NEW w \in Workers, WorkerGone(w) PROVE Aside
  BY <1>5 DEF WorkerGone, Aside, relevant, external, files
<1>6. CASE ChangePolicy
  BY <1>6 DEF ChangePolicy, Aside, relevant, schedule, access, files
<1>7. CASE UNCHANGED vars
  BY <1>7 DEF vars, Aside, relevant
<1> QED BY <1>1, <1>2, <1>3, <1>4, <1>5, <1>6, <1>7 DEF Next

-----------------------------------------------------------------------------
(* Who holds the lease                                                     *)

LEMMA JobsStay ==
  ASSUME batch' = batch
  PROVE  /\ Jobs' = Jobs
         /\ \A j \in Calls : Kind(j)' = Kind(j) /\ JobEffect(j)' = JobEffect(j)
                             /\ (Exclusive(Kind(j))' <=> Exclusive(Kind(j)))
  BY DEF Jobs, Calls, Kind, JobEffect, Exclusive, Places

\* Exclusive jobs and readers are different jobs.
LEMMA EffectsDiffer ==
  ASSUME NEW j
  PROVE  /\ JobEffect(j) = "Read" => ~Exclusive(Kind(j))
         /\ JobEffect(j) = "Write" => Exclusive(Kind(j))
         /\ Kind(j) \in {"patch", "fmt", "start"} => JobEffect(j) = "Write"
         /\ Exclusive(Kind(j)) /\ JobEffect(j) # "Write" => JobEffect(j) = "Validate"
         /\ Kind(j) = "read" => JobEffect(j) = "Read"
<1>1. Kind(j) \in {"patch", "fmt", "start"} => Effect(Kind(j)) = "Write"
  BY DEF Effect
<1>2. Kind(j) = "read" => Effect(Kind(j)) = "Read"
  BY DEF Effect
<1> QED BY <1>1, <1>2 DEF JobEffect, Exclusive

LeasesStay == Readers' = Readers /\ Editors' = Editors

\* A job that moves within the stages of the lease, or outside of them.
LEMMA LeaseIsKept ==
  ASSUME Types, NEW j \in Jobs, batch' = batch, NEW t,
         stage' = [stage EXCEPT ![j] = t], t \in Leased <=> stage[j] \in Leased
  PROVE  LeasesStay
<1>1. \A k \in Jobs : stage'[k] \in Leased <=> stage[k] \in Leased
  BY DEF Types, TypeOK, Jobs
<1> QED BY <1>1, JobsStay DEF LeasesStay, Readers, Editors, Jobs, Calls

LEMMA LeaseIsGranted ==
  ASSUME Types, NEW j \in Jobs, batch' = batch, stage' = [stage EXCEPT ![j] = "leased"]
  PROVE  /\ Readers' = IF JobEffect(j) = "Read" THEN Readers \cup {j} ELSE Readers
         /\ Editors' = IF Exclusive(Kind(j)) THEN Editors \cup {j} ELSE Editors
<1> USE DEF Leased
<1>1. /\ \A k \in Jobs : k # j => stage'[k] = stage[k]
      /\ stage'[j] = "leased"
  BY DEF Types, TypeOK, Jobs
<1>2. Readers' = IF JobEffect(j) = "Read" THEN Readers \cup {j} ELSE Readers
  BY <1>1, JobsStay DEF Readers, Jobs, Calls
<1>3. Editors' = IF Exclusive(Kind(j)) THEN Editors \cup {j} ELSE Editors
  BY <1>1, JobsStay DEF Editors, Jobs, Calls
<1> QED BY <1>2, <1>3

LEMMA LeaseIsReleased ==
  ASSUME Types, NEW j \in Jobs, batch' = batch, stage' = [stage EXCEPT ![j] = "released"]
  PROVE  Readers' = Readers \ {j} /\ Editors' = Editors \ {j}
<1>1. /\ \A k \in Jobs : k # j => stage'[k] = stage[k]
      /\ stage'[j] = "released"
  BY DEF Types, TypeOK, Jobs
<1>2. Readers' = Readers \ {j}
  BY <1>1, JobsStay DEF Readers, Jobs, Calls, Leased
<1>3. Editors' = Editors \ {j}
  BY <1>1, JobsStay DEF Editors, Jobs, Calls, Leased
<1> QED BY <1>2, <1>3

\* Only the grant and the release change who holds the lease.
LEMMA LeasesAreKept ==
  ASSUME Types, NEW j \in Jobs, Honest(j),
         \/ Approaches(j) \/ Refused(j) \/ Begin(j) \/ ToldToStop(j) \/ Hires(j)
         \/ (\E r \in Outcomes : Results(j, r))
         \/ Edit(j) \/ TasksEnd(j) \/ Complete(j) \/ ProcessEnds(j)
  PROVE  LeasesStay /\ batch' = batch
<1>1. CASE Approaches(j)
  <2>1. PICK t \in {"slot", "locks", "delegated"} : stage' = [stage EXCEPT ![j] = t]
    BY <1>1 DEF Approaches
  <2>2. stage[j] \in {"waits", "slot"} /\ batch' = batch
    BY <1>1 DEF Approaches
  <2> QED BY <2>1, <2>2, LeaseIsKept DEF Leased
<1>2. CASE Refused(j)
  BY <1>2, LeaseIsKept DEF Refused, Leased
<1>3. CASE Begin(j)
  BY <1>3, LeaseIsKept DEF Begin, Leased, schedule
<1>4. CASE ToldToStop(j)
  BY <1>4, LeaseIsKept DEF ToldToStop, Leased
<1>5. CASE \E r \in Outcomes : Results(j, r)
  BY <1>5, LeaseIsKept DEF Results, Leased
<1>6. CASE Edit(j) \/ TasksEnd(j) \/ ProcessEnds(j) \/ Hires(j)
  <2>1. batch' = batch /\ stage' = stage
    BY <1>6 DEF Edit, TasksEnd, ProcessEnds, Hires, schedule
  <2> QED BY <2>1, JobsStay DEF LeasesStay, Readers, Editors, Jobs, Calls
<1>7. CASE Complete(j)
  BY <1>7, LeaseIsKept DEF Complete, Leased, schedule
<1> QED BY <1>1, <1>2, <1>3, <1>4, <1>5, <1>6, <1>7

LEMMA AsideKeepsLeases == Aside => LeasesStay
  BY JobsStay DEF Aside, relevant, LeasesStay, Readers, Editors, Jobs, Calls

-----------------------------------------------------------------------------
(* Each part of the invariant is kept                                      *)

JobInv == \A j \in Calls : Waiting(j) /\ Honest(j)

\* What the grant of a lease has checked
LEMMA GrantIsFree ==
  ASSUME NEW j, Grant(j), Waiting(j)
  PROVE  /\ batch' = batch /\ stage' = [stage EXCEPT ![j] = "leased"]
         /\ JobEffect(j) = "Read" => Editors = {}
         /\ Exclusive(Kind(j)) => Editors = {} /\ Readers = {} /\ processes = {}
         /\ stage[j] \in {"locks", "delegated"}
  BY DEF Grant, Granted, Free, Waiting, TargetRuns, schedule

LEMMA AloneKeeps ==
  ASSUME Types, JobInv, Alone, [Next]_vars
  PROVE  Alone'
<1>1. CASE Aside
  BY <1>1, AsideKeepsLeases DEF Aside, relevant, LeasesStay, Alone
<1>2. ASSUME NEW j \in Jobs, JobStep(j) PROVE Alone'
  <2>1. Waiting(j) /\ Honest(j) /\ j \in Calls
    BY DEF JobInv, Jobs, Calls
  <2>2. CASE \/ Approaches(j) \/ Refused(j) \/ Begin(j) \/ ToldToStop(j)
             \/ Hires(j) \/ Edit(j) \/ TasksEnd(j) \/ Complete(j)
    <3>1. processes' = processes
      BY <2>2 DEF Approaches, Refused, Begin, ToldToStop, Hires, Edit, TasksEnd, Complete,
                  external
    <3> QED BY <2>1, <2>2, <3>1, LeasesAreKept DEF LeasesStay, Alone
  <2>3. CASE ProcessEnds(j)
    <3>1. processes' \subseteq processes
      BY <2>3 DEF ProcessEnds
    <3> QED BY <2>1, <2>3, <3>1, LeasesAreKept DEF LeasesStay, Alone
  <2>4. CASE \E r \in Outcomes : Results(j, r)
    <3>1. LeasesStay
      BY <2>1, <2>4, LeasesAreKept
    <3>2. CASE processes' = processes
      BY <3>1, <3>2 DEF LeasesStay, Alone
    <3>3. CASE processes' # processes
      <4>1. processes' = processes \cup {j} /\ Kind(j) = "start" /\ stage[j] \in Leased
        BY <2>4, <3>3 DEF Results, Leased
      <4>2. j \in Editors
        BY <4>1, EffectsDiffer DEF Editors
      <4> QED BY <3>1, <4>1, <4>2 DEF LeasesStay, Alone
    <3> QED BY <3>2, <3>3
  <2>5. CASE Grant(j)
    <3>1. processes' = processes
      BY <2>5 DEF Grant, external
    <3>2. /\ Readers' = IF JobEffect(j) = "Read" THEN Readers \cup {j} ELSE Readers
          /\ Editors' = IF Exclusive(Kind(j)) THEN Editors \cup {j} ELSE Editors
      BY <2>1, <2>5, GrantIsFree, LeaseIsGranted
    <3>3. CASE Exclusive(Kind(j))
      <4>1. Editors' = {j} /\ Readers' = {} /\ processes' = {}
        BY <2>1, <2>5, <3>1, <3>2, <3>3, GrantIsFree, EffectsDiffer
      <4> QED BY <4>1 DEF Alone
    <3>4. CASE ~Exclusive(Kind(j))
      BY <2>1, <2>5, <3>1, <3>2, <3>4, GrantIsFree DEF Alone
    <3> QED BY <3>3, <3>4
  <2>6. CASE Release(j) \/ CheckpointFails(j)
    <3>1. /\ processes' = processes /\ batch' = batch
          /\ stage' = [stage EXCEPT ![j] = "released"]
      BY <2>6 DEF Release, CheckpointFails, external, schedule
    <3>2. Readers' = Readers \ {j} /\ Editors' = Editors \ {j}
      BY <3>1, LeaseIsReleased
    <3> QED BY <3>1, <3>2 DEF Alone
  <2> QED BY <1>2, <2>2, <2>3, <2>4, <2>5, <2>6 DEF JobStep
<1> QED BY <1>1, <1>2, StepsAreKnown DEF JobInv

\* Nothing of a job changes but by its own steps.
LEMMA OthersStay ==
  ASSUME Types, NEW j \in Jobs, JobStep(j), NEW k \in Calls, k # j, Waiting(k), Honest(k)
  PROVE  Waiting(k)' /\ Honest(k)'
<1>1. /\ batch' = batch /\ stage'[k] = stage[k] /\ outcome'[k] = outcome[k]
      /\ reported'[k] = reported[k] /\ edits'[k] = edits[k]
      /\ (k \in tasks' => k \in tasks) /\ (k \in started' <=> k \in started)
      /\ (k \in checkpoint' <=> k \in checkpoint) /\ helper'[k] = helper[k]
  <2> USE DEF Types, TypeOK, Calls, schedule, access, external, files
  <2>1. CASE Approaches(j) \/ Refused(j)
    BY <2>1 DEF Approaches, Refused
  <2>2. CASE Grant(j)
    BY <2>2 DEF Grant
  <2>3. CASE Begin(j)
    BY <2>3 DEF Begin
  <2>4. CASE ToldToStop(j) \/ \E r \in Outcomes : Results(j, r)
    BY <2>4 DEF ToldToStop, Results
  <2>5. CASE Edit(j) \/ TasksEnd(j) \/ ProcessEnds(j)
    BY <2>5 DEF Edit, TasksEnd, ProcessEnds
  <2>6. CASE Release(j) \/ CheckpointFails(j)
    BY <2>6 DEF Release, CheckpointFails
  <2>7. CASE Complete(j) \/ Hires(j)
    BY <2>7 DEF Complete, Hires
  <2> QED BY <2>1, <2>2, <2>3, <2>4, <2>5, <2>6, <2>7 DEF JobStep
<1> QED BY <1>1, JobsStay DEF Waiting, Honest

\* What giving a worktree back does to a result
LEMMA ResultIsAmended ==
  ASSUME Types, NEW j \in Calls, NEW impact,
         impact = IF outcome[j].impact = "NotStarted" THEN outcome[j].impact
                  ELSE "NoWorkspaceChange",
         outcome' = [outcome EXCEPT ![j].impact = impact]
  PROVE  /\ outcome' \in [Calls -> Outcomes] /\ outcome'[j].impact = impact
         /\ \A k \in Calls : k # j => outcome'[k] = outcome[k]
<1>1. outcome \in [Calls -> Outcomes] /\ outcome[j] \in Outcomes
  BY DEF Types
<1>2. impact \in {"NotStarted", "NoWorkspaceChange"}
  OBVIOUS
<1>3. [outcome[j] EXCEPT !.impact = impact] \in Outcomes
  BY <1>1, <1>2 DEF Outcomes
<1>4. [outcome[j] EXCEPT !.impact = impact].impact = impact
  BY <1>1 DEF Outcomes
<1>5. outcome' = [outcome EXCEPT ![j] = [outcome[j] EXCEPT !.impact = impact]]
  OBVIOUS
<1> HIDE DEF Types
<1> QED BY <1>1, <1>3, <1>4, <1>5

\* The job that steps: it waits for what it may have, and admits what it did.
LEMMA OwnStepIsHonest ==
  ASSUME Types, NEW j \in Jobs, JobStep(j), Waiting(j), Honest(j)
  PROVE  Waiting(j)' /\ Honest(j)'
<1>1. /\ j \in Calls /\ edits[j] \in 0..MaxEdits /\ stage[j] \in Stages
      /\ MaxEdits \in Nat /\ outcome[j] \in Outcomes
  BY LimitsAssumption DEF Types, TypeOK, Jobs, Calls
<1>2. /\ Kind(j)' = Kind(j) /\ JobEffect(j)' = JobEffect(j)
      /\ Exclusive(Kind(j))' <=> Exclusive(Kind(j))
  <2>1. batch' = batch
    BY DEF JobStep, Approaches, Refused, Grant, CheckpointFails, Begin, ToldToStop, Hires,
           Results, Edit, TasksEnd, Release, Complete, ProcessEnds, schedule
  <2> QED BY <1>1, <2>1, JobsStay
<1>3. /\ stage \in [Calls -> Stages] /\ outcome \in [Calls -> Outcomes]
      /\ edits \in [Calls -> 0..MaxEdits] /\ reported \in [Calls -> {<<>>} \cup (Nat \X Nat)]
  BY DEF Types, TypeOK, Calls
<1>14. helper \in [Calls -> Workers \cup {NoOne}]
  BY DEF Types, TypeOK, Calls
<1> USE DEF Leased, Begun, Ended
<1>4. CASE Approaches(j)
  <2>1. /\ outcome' = outcome /\ reported' = reported
        /\ edits' = edits /\ tasks' = tasks /\ started' = started /\ checkpoint' = checkpoint
        /\ stage[j] \in {"waits", "slot"} /\ helper' = helper
    BY <1>4 DEF Approaches
  <2>2. PICK t \in {"slot", "locks", "delegated"} :
          /\ stage' = [stage EXCEPT ![j] = t]
          /\ t = "locks" => JobEffect(j) = "Read" \/ Exclusive(Kind(j))
          /\ t = "slot" => JobEffect(j) = "Read"
          /\ t = "delegated" => JobEffect(j) # "Read" /\ ~Exclusive(Kind(j))
    <3>1. CASE stage[j] = "waits"
      BY <1>4, <3>1 DEF Approaches
    <3>2. CASE stage[j] = "slot"
      BY <1>4, <3>2 DEF Approaches, Waiting
    <3> QED BY <2>1, <3>1, <3>2
  <2>3. stage'[j] = t
    BY <1>1, <1>3, <2>2
  <2> QED BY <1>1, <2>1, <2>2, <2>3, <1>2 DEF Waiting, Honest
<1>5. CASE Refused(j)
  <2>1. stage'[j] = "released" /\ edits[j] = 0 /\ j \notin started /\ j \notin checkpoint
        /\ j \notin tasks /\ reported[j] = <<>> /\ helper[j] = NoOne
    BY <1>1, <1>3, <1>5 DEF Refused, Waiting, Honest
  <2>2. /\ reported' = reported /\ edits' = edits /\ tasks' = tasks
        /\ started' = started /\ checkpoint' = checkpoint /\ helper' = helper
    BY <1>5 DEF Refused
  <2> QED BY <2>1, <2>2, <1>2 DEF Waiting, Honest
<1>6. CASE Grant(j)
  <2>1. /\ stage'[j] = "leased" /\ stage[j] \in {"locks", "delegated"}
        /\ outcome' = outcome /\ edits' = edits /\ tasks' = tasks
        /\ started' = started /\ checkpoint' = checkpoint /\ helper' = helper
    BY <1>1, <1>3, <1>6, GrantIsFree DEF Grant, schedule, external, files
  <2> QED BY <1>1, <2>1, <1>2 DEF Waiting, Honest
<1>7. CASE Begin(j)
  <2>1. /\ stage[j] = "leased" /\ stage'[j] \in {"works", "ends"}
        /\ reported' = reported /\ edits' = edits /\ tasks' = tasks /\ started' = started
        /\ j \in checkpoint' => j \in checkpoint \/ JobEffect(j) = "Write"
        /\ helper' = helper
    BY <1>1, <1>3, <1>7 DEF Begin, schedule, access, Needs
  <2>2. /\ edits[j] = 0 /\ j \notin started /\ j \notin tasks /\ j \notin checkpoint
        /\ helper[j] = NoOne
    BY <1>1, <2>1 DEF Honest
  <2> QED BY <2>1, <2>2, <1>2 DEF Waiting, Honest
<1>8. CASE ToldToStop(j)
  BY <1>1, <1>3, <1>8, <1>2, <1>3 DEF ToldToStop, Waiting, Honest
<1>9. CASE \E r \in Outcomes : Results(j, r)
  <2>1. PICK r \in Outcomes : Results(j, r)
    BY <1>9
  <2>2. /\ stage[j] \in {"works", "stopped"} /\ stage'[j] = "ends"
        /\ reported' = reported /\ edits' = edits /\ checkpoint' = checkpoint
        /\ outcome'[j] = r /\ helper' = helper
    BY <1>1, <1>3, <2>1 DEF Results
  <2>3. j \notin tasks /\ j \notin started
    BY <2>2 DEF Honest
  <2>4. /\ j \in tasks' => Kind(j) \in {"read", "patch"}
                           /\ (Kind(j) = "patch" => r.impact = "MayHaveChanged")
        /\ j \in started' => Kind(j) = "start"
    BY <2>1, <2>3 DEF Results
  <2>5. /\ r.impact = "NotStarted" =>
             edits[j] = 0 /\ helper[j] = NoOne /\ Kind(j) # "start"
        /\ r.impact = "NoWorkspaceChange" /\ Kind(j) # "fmt" => edits[j] = 0
    BY <1>1, <2>1 DEF Results, Honest, Delegating
  <2> QED BY <2>2, <2>4, <2>5, <1>2 DEF Waiting, Honest
<1>10. CASE Edit(j)
  <2>1. /\ stage' = stage /\ outcome' = outcome /\ reported' = reported
        /\ tasks' = tasks /\ started' = started /\ checkpoint' = checkpoint
        /\ helper' = helper /\ Kind(j) \in {"patch", "fmt"}
        /\ stage[j] \in {"works", "stopped"} \/ (j \in tasks /\ Kind(j) = "patch")
    BY <1>10 DEF Edit, schedule, access, external
  <2>2. stage[j] \in Ended => outcome[j].impact = "MayHaveChanged"
    BY <2>1 DEF Honest
  <2> QED BY <2>1, <2>2, <1>2 DEF Waiting, Honest
<1>11. CASE TasksEnd(j) \/ ProcessEnds(j)
  <2>1. /\ stage' = stage /\ outcome' = outcome /\ reported' = reported
        /\ edits' = edits /\ started' = started /\ checkpoint' = checkpoint
        /\ (j \in tasks' => j \in tasks) /\ helper' = helper
    BY <1>11 DEF TasksEnd, ProcessEnds, schedule, access, external, files
  <2> QED BY <2>1, <1>2 DEF Waiting, Honest
<1>12. CASE Release(j)
  <2>1. /\ stage[j] = "ends" /\ stage'[j] = "released"
        /\ reported' = reported /\ edits' = edits /\ tasks' = tasks /\ j \notin tasks
        /\ started' = started /\ checkpoint' = checkpoint /\ helper' = helper
    BY <1>1, <1>3, <1>12 DEF Release, Finished, schedule, external
  <2>2. \/ outcome'[j] = outcome[j]
        \/ edits[j] = 0 /\ (outcome'[j].impact = "NotStarted" => outcome[j].impact = "NotStarted")
    <3> DEFINE impact == IF outcome[j].impact = "NotStarted" THEN outcome[j].impact
                         ELSE "NoWorkspaceChange"
    <3>1. CASE UNCHANGED outcome
      BY <3>1
    <3>2. CASE edits[j] = 0 /\ outcome' = [outcome EXCEPT ![j].impact = impact]
      BY <1>1, <3>2, ResultIsAmended
    <3> QED BY <1>12, <3>1, <3>2 DEF Release, Discards, Unchanged
  <2> QED BY <1>1, <2>1, <2>2, <1>2 DEF Waiting, Honest
<1>13. CASE Complete(j)
  <2>1. /\ stage[j] = "released" /\ stage'[j] = "done"
        /\ reported' = reported /\ edits' = edits /\ tasks' = tasks
        /\ started' = started /\ checkpoint' = checkpoint /\ helper' = helper
    BY <1>1, <1>3, <1>13 DEF Complete, schedule, access, external, files
  <2>2. outcome'[j] = outcome[j] \/ outcome'[j].impact = "MayHaveChanged"
    BY <1>1, <1>3, <1>13 DEF Complete, Failure
  <2> QED BY <1>1, <2>1, <2>2, <1>2 DEF Waiting, Honest
<1>15. CASE Hires(j)
  <2>1. /\ stage' = stage /\ outcome' = outcome /\ reported' = reported
        /\ edits' = edits /\ tasks' = tasks /\ started' = started
        /\ checkpoint' = checkpoint /\ stage[j] = "works" /\ Kind(j) \in Delegating
    BY <1>15 DEF Hires
  <2> QED BY <1>1, <2>1, <1>2 DEF Waiting, Honest
<1>16. CASE CheckpointFails(j)
  <2>1. /\ stage[j] = "leased" /\ stage'[j] = "released"
        /\ reported' = reported /\ edits' = edits /\ tasks' = tasks
        /\ started' = started /\ checkpoint' = checkpoint /\ helper' = helper
    BY <1>1, <1>3, <1>16 DEF CheckpointFails, schedule, external, files
  <2>2. /\ edits[j] = 0 /\ j \notin started /\ j \notin tasks /\ j \notin checkpoint
        /\ helper[j] = NoOne
    BY <1>1, <2>1 DEF Honest
  <2> QED BY <1>1, <2>1, <2>2, <1>2 DEF Waiting, Honest
<1> QED
  BY <1>4, <1>5, <1>6, <1>7, <1>8, <1>9, <1>10, <1>11, <1>12, <1>13, <1>15, <1>16
     DEF JobStep

LEMMA JobInvKeeps ==
  ASSUME Types, JobInv, [Next]_vars
  PROVE  JobInv'
<1>1. CASE Aside
  BY <1>1, JobsStay DEF Aside, relevant, JobInv, Waiting, Honest, Calls
<1>2. ASSUME NEW j \in Jobs, JobStep(j) PROVE JobInv'
  BY <1>2, OwnStepIsHonest, OthersStay DEF JobInv, Calls, Jobs
<1> QED BY <1>1, <1>2, StepsAreKnown DEF JobInv

\* A worktree that is given back holds nothing of anybody.
LEMMA RootedKeeps ==
  ASSUME Types, JobInv, Alone, Rooted, [Next]_vars
  PROVE  Rooted'
<1>1. CASE Aside
  BY <1>1, JobsStay DEF Aside, relevant, Rooted, Calls, Jobs
<1>2. ASSUME NEW j \in Jobs, JobStep(j), inGit PROVE Rooted'
  <2>1. /\ Waiting(j) /\ Honest(j) /\ j \in Calls /\ Jobs \subseteq Calls
        /\ stage \in [Calls -> Stages] /\ outcome \in [Calls -> Outcomes]
        /\ edits \in [Calls -> 0..MaxEdits] /\ worktree \in BOOLEAN
    BY DEF JobInv, Jobs, Calls, Types, TypeOK
  <2>2. /\ Jobs' = Jobs /\ Calls' = Calls
        /\ \A k \in Jobs : JobEffect(k)' = JobEffect(k)
    <3>1. batch' = batch
      BY <1>2 DEF JobStep, Approaches, Refused, Grant, CheckpointFails, Begin, ToldToStop,
                  Hires, Results, Edit, TasksEnd, Release, Complete, ProcessEnds, schedule
    <3> QED BY <2>1, <3>1, JobsStay DEF Calls, Places
  <2>3. CASE Approaches(j) \/ Refused(j) \/ Grant(j) \/ CheckpointFails(j) \/ Complete(j)
    <3>1. /\ edits' = edits /\ processes' = processes /\ worktree' = worktree
          /\ tasks' = tasks /\ checkpoint' = checkpoint
      BY <2>3 DEF Approaches, Refused, Grant, CheckpointFails, Complete, external, files
    <3>2. /\ stage'[j] \notin {"works", "stopped", "ends"}
          /\ stage'[j] \in Leased => j \notin checkpoint
          /\ \A k \in Jobs : k # j => stage'[k] = stage[k] /\ outcome'[k] = outcome[k]
      <4>1. CASE Approaches(j) \/ Refused(j)
        BY <2>1, <4>1 DEF Approaches, Refused, Leased
      <4>2. CASE Grant(j)
        BY <2>1, <4>2, GrantIsFree DEF Grant, Honest, Begun
      <4>3. CASE Complete(j) \/ CheckpointFails(j)
        BY <2>1, <4>3 DEF Complete, CheckpointFails, Leased
      <4> QED BY <2>3, <4>1, <4>2, <4>3
    <3> QED BY <1>2, <2>1, <2>2, <3>1, <3>2 DEF Rooted
  <2>4. CASE Begin(j)
    <3>1. /\ edits' = edits /\ processes' = processes /\ tasks' = tasks
          /\ stage[j] = "leased" /\ j \notin tasks /\ j \notin checkpoint
          /\ \A k \in Jobs : k # j => stage'[k] = stage[k] /\ outcome'[k] = outcome[k]
          /\ stage'[j] \in {"works", "ends"}
      BY <2>1, <2>4 DEF Begin, Honest, Begun
    <3>2. /\ worktree => worktree'
          /\ stage'[j] = "works" /\ JobEffect(j) = "Write" => worktree'
          /\ \/ checkpoint' = checkpoint
             \/ checkpoint' = checkpoint \cup {j} /\ ~worktree
      BY <1>2, <2>1, <2>4 DEF Begin, Needs, WithWorktree
    <3>3. j \in checkpoint' => ~worktree
      BY <3>1, <3>2
    <3>4. ~worktree => processes = {} /\ \A k \in Calls : edits[k] = 0
      BY <1>2, <2>1, LimitsAssumption DEF Rooted
    <3> QED BY <1>2, <2>1, <2>2, <3>1, <3>2, <3>3, <3>4 DEF Rooted
  <2>5. CASE ToldToStop(j)
    <3>1. /\ edits' = edits /\ processes' = processes /\ tasks' = tasks
          /\ worktree' = worktree /\ checkpoint' = checkpoint /\ outcome' = outcome
          /\ stage[j] = "works" /\ stage'[j] = "stopped"
          /\ \A k \in Jobs : k # j => stage'[k] = stage[k]
      BY <2>1, <2>5 DEF ToldToStop
    <3> QED BY <1>2, <2>1, <2>2, <3>1 DEF Rooted, Leased
  <2>6. CASE \E r \in Outcomes : Results(j, r)
    <3>1. PICK r \in Outcomes : Results(j, r)
      BY <2>6
    <3>2. /\ edits' = edits /\ worktree' = worktree /\ checkpoint' = checkpoint
          /\ stage[j] \in {"works", "stopped"} /\ stage'[j] = "ends" /\ outcome'[j] = r
          /\ \A k \in Jobs : k # j => stage'[k] = stage[k] /\ outcome'[k] = outcome[k]
          /\ \A k \in Jobs : k # j /\ k \in tasks' => k \in tasks
          /\ \/ processes' = processes
             \/ processes' = processes \cup {j} /\ Kind(j) = "start" /\ r = Ok
      BY <2>1, <3>1 DEF Results
    <3>3. j \in checkpoint => processes = {}
      BY <1>2, <3>2 DEF Rooted, Leased
    <3>4. ASSUME processes' # processes
          PROVE  worktree /\ \A k \in Jobs : stage[k] \in Leased /\ k \in checkpoint => k = j
      <4>1. JobEffect(j) = "Write" /\ j \in Editors
        BY <3>2, <3>4, EffectsDiffer DEF Editors, Leased
      <4>2. \A k \in Jobs : k \in checkpoint => JobEffect(k) = "Write"
        BY <2>1 DEF JobInv, Honest
      <4> QED BY <1>2, <3>2, <4>1, <4>2, EffectsDiffer DEF Rooted, Alone, Editors
    <3> QED BY <1>2, <2>1, <2>2, <3>2, <3>3, <3>4 DEF Rooted, Leased
  <2>7. CASE Edit(j)
    <3>1. /\ stage' = stage /\ outcome' = outcome /\ processes' = processes /\ tasks' = tasks
          /\ worktree' = worktree /\ checkpoint' = checkpoint
          /\ \A k \in Calls : k # j => edits'[k] = edits[k]
      BY <2>1, <2>7 DEF Edit, external
    <3>2. JobEffect(j) = "Write" /\ worktree /\ j \in Editors
      BY <1>2, <2>1, <2>7, EffectsDiffer DEF Edit, Rooted, Editors, Leased, Honest
    <3>3. \A k \in Jobs : stage[k] \in Leased /\ k \in checkpoint => k = j
      BY <2>1, <3>2, EffectsDiffer DEF JobInv, Honest, Alone, Editors
    <3> QED BY <1>2, <2>1, <2>2, <3>1, <3>2, <3>3 DEF Rooted
  <2>8. CASE TasksEnd(j) \/ ProcessEnds(j) \/ Hires(j)
    <3>1. /\ stage' = stage /\ outcome' = outcome /\ edits' = edits
          /\ worktree' = worktree /\ checkpoint' = checkpoint
          /\ processes' \subseteq processes /\ tasks' \subseteq tasks
      BY <2>8 DEF TasksEnd, ProcessEnds, Hires, external, files
    <3> QED BY <1>2, <2>2, <3>1 DEF Rooted
  <2>9. CASE Release(j)
    <3>1. /\ edits' = edits /\ processes' = processes /\ tasks' = tasks
          /\ checkpoint' = checkpoint /\ stage[j] = "ends" /\ stage'[j] = "released"
          /\ j \notin tasks
          /\ \A k \in Jobs : k # j => stage'[k] = stage[k]
      BY <2>1, <2>9 DEF Release, Finished, external
    <3>2. \A k \in Jobs : k # j => outcome'[k] = outcome[k]
      <4> DEFINE impact == IF outcome[j].impact = "NotStarted" THEN outcome[j].impact
                           ELSE "NoWorkspaceChange"
      <4>1. CASE outcome' = [outcome EXCEPT ![j].impact = impact]
        BY <2>1, <4>1, ResultIsAmended
      <4>2. CASE UNCHANGED outcome
        BY <4>2
      <4> QED BY <2>9, <4>1, <4>2 DEF Release
    <3>3. CASE worktree' = worktree
      BY <1>2, <2>1, <2>2, <3>1, <3>2, <3>3 DEF Rooted, Leased
    <3>4. CASE worktree' # worktree
      <4>1. outcome[j] # Ok /\ j \in checkpoint /\ edits[j] = 0
        BY <2>1, <2>9, <3>4 DEF Release, Discards, Unchanged
      <4>2. processes = {} /\ \A k \in Calls : edits[k] = 0
        BY <1>2, <2>1, <3>1, <4>1 DEF Rooted, Leased
      <4>3. j \in Editors
        BY <2>1, <3>1, <4>1, EffectsDiffer DEF Honest, Editors, Leased
      <4>4. \A k \in Jobs :
              JobEffect(k) = "Write" /\ (stage[k] \in {"works", "stopped"} \/ k \in tasks)
                => k = j
        BY <2>1, <4>3, EffectsDiffer DEF JobInv, Honest, Alone, Editors, Leased
      <4>5. \A k \in Calls : ~(edits[k] > 0)
        BY <4>2
      <4> QED BY <1>2, <2>1, <2>2, <3>1, <4>2, <4>4, <4>5 DEF Rooted, Leased
    <3> QED BY <3>3, <3>4
  <2> QED BY <1>2, <2>3, <2>4, <2>5, <2>6, <2>7, <2>8, <2>9 DEF JobStep
<1>3. ASSUME NEW j \in Jobs, JobStep(j) PROVE inGit' = inGit
  BY <1>3 DEF JobStep, Approaches, Refused, Grant, CheckpointFails, Begin, ToldToStop, Hires,
              Results, Edit, TasksEnd, Release, Complete, ProcessEnds, schedule
<1> QED BY <1>1, <1>2, <1>3, StepsAreKnown DEF JobInv, Rooted

-----------------------------------------------------------------------------
(* Types, and the edits that are counted                                   *)

LEMMA ContentIsCounted ==
  ASSUME Types
  PROVE  Content = Cardinality(Made) /\ Content \in Nat
  BY FS_CardinalityType DEF Types, Made, Content

\* An edit adds one to what is counted.
LEMMA EditIsCounted ==
  ASSUME Types, NEW j \in Calls, Edit(j)
  PROVE  IsFiniteSet(Made') /\ Content' = Content + 1 /\ edits' \in [Calls -> 0..MaxEdits]
<1> DEFINE x == <<j, edits[j] + 1>>
<1>1. /\ edits \in [Calls -> 0..MaxEdits] /\ edits[j] < MaxEdits /\ MaxEdits \in Nat
      /\ edits' = [edits EXCEPT ![j] = edits[j] + 1]
  BY LimitsAssumption DEF Types, TypeOK, Edit, Calls
<1>2. edits' \in [Calls -> 0..MaxEdits] /\ edits[j] + 1 \in 1..MaxEdits
  BY <1>1
<1>3. Made' = Made \cup {x} /\ x \notin Made
  BY <1>1, <1>2 DEF Made
<1>4. IsFiniteSet(Made)
  BY DEF Types
<1> HIDE DEF x
<1>5. IsFiniteSet(Made \cup {x}) /\ Cardinality(Made \cup {x}) = Cardinality(Made) + 1
  BY <1>3, <1>4, FS_AddElement
<1>6. Content = Cardinality(Made) /\ Content' = Cardinality(Made')
  BY DEF Content, Made
<1> QED BY <1>2, <1>3, <1>5, <1>6

LEMMA ContentStays ==
  ASSUME edits' = edits
  PROVE  Made' = Made /\ Content' = Content
  BY DEF Made, Content

\* The jobs and their results keep their types.
LEMMA JobTypesKeep ==
  ASSUME Types, NEW j \in Jobs, JobStep(j)
  PROVE  /\ batch' \in Batches
         /\ stage' \in [Calls -> Stages] /\ outcome' \in [Calls -> Outcomes]
         /\ reported' \in [Calls -> {<<>>} \cup (Nat \X Nat)]
         /\ tasks' \subseteq Calls /\ checkpoint' \subseteq Calls /\ started' \subseteq Calls
         /\ edits' \in [Calls -> 0..MaxEdits] /\ IsFiniteSet(Made') /\ worktree' \in BOOLEAN
         /\ revision' \in Nat /\ (processes \subseteq started => processes' \subseteq started')
         /\ helper' \in [Calls -> Workers \cup {NoOne}] /\ inGit' \in BOOLEAN
<1>1. /\ j \in Calls /\ batch \in Batches
      /\ stage \in [Calls -> Stages] /\ outcome \in [Calls -> Outcomes]
      /\ reported \in [Calls -> {<<>>} \cup (Nat \X Nat)]
      /\ tasks \subseteq Calls /\ checkpoint \subseteq Calls /\ started \subseteq Calls
      /\ edits \in [Calls -> 0..MaxEdits] /\ IsFiniteSet(Made) /\ worktree \in BOOLEAN
      /\ revision \in Nat
      /\ helper \in [Calls -> Workers \cup {NoOne}] /\ inGit \in BOOLEAN
  BY DEF Jobs, Types, TypeOK, Calls
<1>2. {"slot", "locks", "delegated", "released", "done"} \cup Leased \subseteq Stages
  BY DEF Stages
<1> USE DEF schedule, access, external, files
<1>3. CASE Approaches(j)
  BY <1>1, <1>2, <1>3, ContentStays DEF Approaches
<1>4. CASE Refused(j)
  <2>1. \A kind \in {"InvalidInput", "Panicked", "Worker", "Cancelled", "Validation"} :
          Failure(kind, "NotStarted") \in Outcomes
    BY DEF Failure, Outcomes
  <2> QED BY <1>1, <1>2, <1>4, <2>1, ContentStays DEF Refused
<1>5. CASE Grant(j)
  <2>1. Content \in Nat
    BY ContentIsCounted
  <2>2. "leased" \in Stages
    BY DEF Stages, Leased
  <2>3. stage' \in [Calls -> Stages] /\ reported' \in [Calls -> {<<>>} \cup (Nat \X Nat)]
    BY <1>1, <1>5, <2>1, <2>2 DEF Grant
  <2> QED BY <1>1, <1>5, <2>3, ContentStays DEF Grant
<1>6. CASE Begin(j)
  <2>1. "works" \in Stages /\ "ends" \in Stages
    BY DEF Stages, Leased
  <2>2. \A kind \in {"Execution", "InvalidInput", "Persistence"} :
          Failure(kind, "NotStarted") \in Outcomes
    BY DEF Failure, Outcomes
  <2>5. Failure("Execution", Effects(Kind(j))) \in Outcomes
    BY DEF Failure, Outcomes, Effects
  <2>6. \/ outcome' = outcome
        \/ \E r \in Outcomes : outcome' = [outcome EXCEPT ![j] = r]
    BY <1>6, <2>2, <2>5 DEF Begin
  <2>3. stage' \in [Calls -> Stages] /\ outcome' \in [Calls -> Outcomes]
    <3>1. outcome' \in [Calls -> Outcomes]
      BY <1>1, <2>6
    <3>2. \E t \in {"works", "ends"} : stage' = [stage EXCEPT ![j] = t]
      BY <1>6 DEF Begin
    <3> QED BY <1>1, <2>1, <3>1, <3>2
  <2>4. worktree' \in BOOLEAN /\ checkpoint' \subseteq Calls
    BY <1>1, <1>6 DEF Begin, WithWorktree
  <2> QED BY <1>1, <1>6, <2>3, <2>4, ContentStays DEF Begin
<1>7. CASE ToldToStop(j)
  <2>1. "stopped" \in Stages
    BY DEF Stages, Leased
  <2> QED BY <1>1, <1>7, <2>1, ContentStays DEF ToldToStop
<1>8. CASE \E r \in Outcomes : Results(j, r)
  <2>1. "ends" \in Stages
    BY DEF Stages, Leased
  <2>2. PICK r \in Outcomes : Results(j, r)
    BY <1>8
  <2>3. stage' \in [Calls -> Stages] /\ outcome' \in [Calls -> Outcomes]
    BY <1>1, <2>1, <2>2 DEF Results
  <2> QED BY <1>1, <2>2, <2>3, ContentStays DEF Results
<1>9. CASE Edit(j)
  BY <1>1, <1>9, EditIsCounted DEF Edit
<1>10. CASE TasksEnd(j) \/ ProcessEnds(j) \/ Hires(j)
  BY <1>1, <1>10, ContentStays DEF TasksEnd, ProcessEnds, Hires
<1>11. CASE Release(j)
  <2> DEFINE impact == IF outcome[j].impact = "NotStarted" THEN outcome[j].impact
                       ELSE "NoWorkspaceChange"
  <2>1. outcome' \in [Calls -> Outcomes]
    <3>1. CASE outcome' = [outcome EXCEPT ![j].impact = impact]
      BY <1>1, <3>1, ResultIsAmended
    <3>2. CASE UNCHANGED outcome
      BY <1>1, <3>2
    <3> QED BY <1>11, <3>1, <3>2 DEF Release
  <2>2. revision' \in Nat /\ worktree' \in BOOLEAN /\ stage' \in [Calls -> Stages]
    <3>1. /\ worktree' = FALSE \/ worktree' = worktree
          /\ stage' = [stage EXCEPT ![j] = "released"]
          /\ revision' = DropLease(j)
      BY <1>11 DEF Release
    <3>2. revision' \in Nat
      BY <1>1, <3>1 DEF DropLease
    <3>3. stage' \in [Calls -> Stages]
      BY <1>1, <1>2, <3>1
    <3> QED BY <1>1, <3>1, <3>2, <3>3
  <2> QED BY <1>1, <1>11, <2>1, <2>2, ContentStays DEF Release
<1>12. CASE Complete(j)
  <2>1. Failure("Persistence", "MayHaveChanged") \in Outcomes
    BY DEF Failure, Outcomes
  <2> QED BY <1>1, <1>2, <1>12, <2>1, ContentStays DEF Complete
<1>13. CASE CheckpointFails(j)
  <2>1. Failure("Execution", "NoWorkspaceChange") \in Outcomes /\ DropLease(j) \in Nat
    BY <1>1 DEF Failure, Outcomes, DropLease
  <2> QED BY <1>1, <1>2, <1>13, <2>1, ContentStays DEF CheckpointFails
<1> QED
  BY <1>3, <1>4, <1>5, <1>6, <1>7, <1>8, <1>9, <1>10, <1>11, <1>12, <1>13 DEF JobStep

\* The executors, the lock, the policy and the scopes keep theirs.
ControlTypes ==
  /\ phase \in [Executors -> {"off", "runs", "over", "gone"}]
  /\ writer \in Executors \cup {NoOne}
  /\ policy \in {"open", "reads", "closed"} /\ cancelled \subseteq Executors
  /\ stopping \subseteq processes

LEMMA ControlTypesKeep ==
  ASSUME Types, [Next]_vars
  PROVE  ControlTypes'
<1>1. ControlTypes /\ Root \in Executors /\ Workers \subseteq Executors
  BY DEF ControlTypes, Types, TypeOK, Executors
<1> USE DEF ControlTypes, schedule, access, external, files
<1>2. ASSUME NEW e \in Executors PROVE CancelScope(e) \subseteq Executors
  BY DEF CancelScope
<1>3. ASSUME NEW e \in Executors, Schedule(e) \/ CancelWork(e) PROVE ControlTypes'
  <2>1. CASE Schedule(e)
    BY <1>1, <1>3, <2>1 DEF Schedule
  <2>2. CASE CancelWork(e)
    BY <1>1, <1>2, <2>2 DEF CancelWork
  <2> QED BY <1>3, <2>1, <2>2
<1>4. ASSUME NEW j \in Jobs, Before(j) PROVE ControlTypes'
  <2>1. DropWriter(j) \in {NoOne, writer}
    BY DEF DropWriter
  <2>2. CASE \E kind : Refuse(j, kind)
    BY <1>1, <2>1, <2>2 DEF Refuse
  <2>3. CASE Enter(j) \/ TakeSlot(j) \/ Grant(j)
    BY <1>1, <2>3 DEF Enter, TakeSlot, Grant
  <2>4. CASE Begin(j)
    <3>1. Own(j[1]) \subseteq processes
      BY DEF Own
    <3> QED BY <1>1, <2>4, <3>1 DEF Begin
  <2>5. CASE CheckpointFails(j)
    BY <1>1, <2>1, <2>5 DEF CheckpointFails
  <2> QED BY <1>4, <2>2, <2>3, <2>4, <2>5
          DEF Before, PrepareFails, Deny, GiveUp, RefuseBeside
<1>5. ASSUME NEW j \in Jobs, Work(j) \/ Interrupt(j) PROVE ControlTypes'
  <2>1. CASE Launch(j) \/ Ask(j) \/ Return(j)
    BY <1>1, <2>1 DEF Launch, Ask, Return, End
  <2>2. CASE \E w \in Workers : Delegate(j, w)
    BY <1>1, <2>2 DEF Delegate, End
  <2>3. CASE Interrupt(j)
    BY <1>1, <2>3 DEF Interrupt, End
  <2> QED BY <1>5, <2>1, <2>2, <2>3 DEF Work
<1>6. ASSUME NEW j \in Jobs, Edit(j) \/ After(j) \/ ProcessEnds(j) PROVE ControlTypes'
  <2>1. DropWriter(j) \in {NoOne, writer} /\ j[1] \in Executors
    BY DEF DropWriter, Jobs
  <2>2. CASE Edit(j) \/ TasksEnd(j) \/ Complete(j)
    BY <1>1, <2>2 DEF Edit, TasksEnd, Complete
  <2>3. CASE Release(j)
    BY <1>1, <2>1, <2>3 DEF Release
  <2>4. CASE ProcessEnds(j)
    <3>1. CancelScope(j[1]) \subseteq Executors
      BY <1>2, <2>1
    <3> QED BY <1>1, <2>4, <3>1 DEF ProcessEnds
  <2> QED BY <1>6, <2>2, <2>3, <2>4 DEF After
<1>7. ASSUME NEW w \in Workers, WorkerGone(w) PROVE ControlTypes'
  BY <1>1, <1>7 DEF WorkerGone
<1>8. CASE ChangePolicy
  BY <1>1, <1>8 DEF ChangePolicy
<1>9. CASE UNCHANGED vars
  BY <1>1, <1>9 DEF vars
<1> QED BY <1>3, <1>4, <1>5, <1>6, <1>7, <1>8, <1>9 DEF Next

LEMMA TypesKeep ==
  ASSUME Types, JobInv, [Next]_vars
  PROVE  Types'
<1>1. CASE Aside
  <2>1. Made' = Made
    BY <1>1, ContentStays DEF Aside, relevant
  <2> QED BY <1>1, <2>1, ControlTypesKeep
      DEF Aside, relevant, Types, TypeOK, ControlTypes, Calls
<1>2. ASSUME NEW j \in Jobs, JobStep(j) PROVE Types'
  <2>1. ControlTypes' /\ processes \subseteq started
    BY ControlTypesKeep DEF Types, TypeOK
  <2>2. /\ batch' \in Batches
        /\ stage' \in [Calls -> Stages] /\ outcome' \in [Calls -> Outcomes]
        /\ reported' \in [Calls -> {<<>>} \cup (Nat \X Nat)]
        /\ tasks' \subseteq Calls /\ checkpoint' \subseteq Calls /\ started' \subseteq Calls
        /\ edits' \in [Calls -> 0..MaxEdits] /\ IsFiniteSet(Made') /\ worktree' \in BOOLEAN
        /\ revision' \in Nat /\ processes' \subseteq started'
        /\ helper' \in [Calls -> Workers \cup {NoOne}] /\ inGit' \in BOOLEAN
    BY <1>2, <2>1, JobTypesKeep
  <2>3. TypeOK'
    BY <2>1, <2>2 DEF TypeOK, ControlTypes, Calls
  <2> QED BY <2>2, <2>3 DEF Types, Calls
<1> QED BY <1>1, <1>2, StepsAreKnown DEF JobInv

-----------------------------------------------------------------------------
(* The invariant, and what follows from it                                 *)

LEMMA ToolsStart == Init => ToolInv
<1> SUFFICES ASSUME NEW b \in Batches, InitWith(b) PROVE ToolInv
  BY DEF Init
<1>1. /\ batch \in Batches /\ phase \in [Executors -> {"off", "runs", "over", "gone"}]
      /\ stage = [j \in Calls |-> "waits"] /\ outcome = [j \in Calls |-> None]
      /\ reported = [j \in Calls |-> <<>>] /\ edits = [j \in Calls |-> 0]
      /\ writer = NoOne /\ revision = 0 /\ policy \in {"open", "reads"}
      /\ processes = {} /\ stopping = {} /\ started = {} /\ cancelled = {}
      /\ tasks = {} /\ worktree = FALSE /\ checkpoint = {}
      /\ helper = [j \in Calls |-> NoOne] /\ inGit \in BOOLEAN
  BY DEF InitWith, Calls
<1>2. Made = {} /\ MaxEdits \in Nat
  BY <1>1, LimitsAssumption DEF Made
<1>3. IsFiniteSet(Made)
  BY <1>2, FS_EmptySet
<1>4. None \in Outcomes /\ "waits" \in Stages
  BY DEF None, Outcomes, Stages
<1>5. TypeOK
  <2>1. stage \in [Calls -> Stages]
    BY <1>1, <1>4
  <2>2. 0 \in 0..MaxEdits
    BY <1>2
  <2>3. edits \in [Calls -> 0..MaxEdits]
    BY <1>1, <2>2
  <2> QED BY <1>1, <2>1, <2>3 DEF TypeOK, Calls
<1>6. Types
  BY <1>1, <1>3, <1>4, <1>5 DEF Types
<1>7. JobInv
  BY <1>1 DEF JobInv, Waiting, Honest, Ended, Begun
<1>8. Editors = {}
  BY <1>1 DEF Editors, Leased, Jobs, Calls
<1>9. Alone
  BY <1>8 DEF Alone
<1>10. Rooted
  BY <1>1 DEF Rooted, Leased, Jobs, Calls
<1> QED BY <1>6, <1>7, <1>9, <1>10 DEF ToolInv, JobInv

LEMMA ToolsGoOn == ToolInv /\ [Next]_vars => ToolInv'
<1> SUFFICES ASSUME ToolInv, [Next]_vars PROVE ToolInv'
  OBVIOUS
<1>1. Types /\ JobInv /\ Alone /\ Rooted
  BY DEF ToolInv, JobInv
<1>2. Types' /\ JobInv' /\ Alone' /\ Rooted'
  BY <1>1, TypesKeep, JobInvKeeps, AloneKeeps, RootedKeeps
<1> QED BY <1>2 DEF ToolInv, JobInv

\* The inductive invariant of the scheduler, the lease and the files.
THEOREM ToolsAreSound == Spec => []ToolInv
<1>1. Init => ToolInv
  BY ToolsStart
<1>2. ToolInv /\ [Next]_vars => ToolInv'
  BY ToolsGoOn
<1> QED BY <1>1, <1>2, PTL DEF Spec

\* Every variable keeps its type.
THEOREM ToolsAreTyped == Spec => []TypeOK
<1>1. ToolInv => TypeOK
  BY DEF ToolInv, Types
<1> QED BY <1>1, ToolsAreSound, PTL

\* No tool edits or validates beside the managed process of another tool,
\* whichever executor started it and however long the tool waited.
THEOREM ProcessesAreAlone == Spec => []NoEditBesideProcess
<1>1. ToolInv => NoEditBesideProcess
  <2> SUFFICES ASSUME ToolInv, NEW j \in Jobs, Exclusive(Kind(j)),
                      stage[j] \in {"works", "stopped"} \/ j \in tasks
               PROVE  processes \subseteq {j}
    BY DEF NoEditBesideProcess
  <2>1. stage[j] \in Leased
    BY DEF ToolInv, Honest, Leased, Jobs, Calls
  <2>2. j \in Editors
    BY <2>1 DEF Editors
  <2> QED BY <2>2 DEF ToolInv, Alone
<1> QED BY <1>1, ToolsAreSound, PTL

\* A result that says the tool did not start, or changed nothing, is true, and
\* in Git the worktree that holds edits or runs a process is not given back.
THEOREM ResultsAreTrue == Spec => []ImpactIsTrue
<1>1. ToolInv => ImpactIsTrue
  <2> SUFFICES ASSUME ToolInv PROVE ImpactIsTrue
    OBVIOUS
  <2>1. ASSUME NEW j \in Jobs, stage[j] = "done"
        PROVE  /\ outcome[j].impact = "NotStarted" =>
                    edits[j] = 0 /\ j \notin started /\ helper[j] = NoOne
               /\ outcome[j].impact = "NoWorkspaceChange" /\ Kind(j) # "fmt" => edits[j] = 0
    <3>1. Honest(j) /\ stage[j] \in Ended
      BY <2>1 DEF ToolInv, Jobs, Calls, Ended
    <3> QED BY <3>1 DEF Honest
  <2>2. ASSUME inGit, ~worktree PROVE Content = 0 /\ processes = {}
    <3>1. edits \in [Calls -> 0..MaxEdits] /\ MaxEdits \in Nat /\ Types
      BY LimitsAssumption DEF ToolInv, Types, TypeOK, Calls
    <3>2. \A j \in Calls : edits[j] = 0
      BY <2>2, <3>1 DEF ToolInv, Rooted
    <3>3. Made = {}
      BY <3>1, <3>2 DEF Made
    <3>4. Content = 0
      BY <3>1, <3>3, ContentIsCounted, FS_EmptySet
    <3> QED BY <2>2, <3>4 DEF ToolInv, Rooted
  <2>3. Content \in Nat
    BY ContentIsCounted DEF ToolInv
  <2> QED BY <2>1, <2>2, <2>3 DEF ImpactIsTrue
<1> QED BY <1>1, ToolsAreSound, PTL

-----------------------------------------------------------------------------
(* The scheduler implements SharedWorkspace.  Each step of a job is a step *)
(* of its tool there, or changes nothing there.                            *)

Dirty == \E j \in Editors : edits[j] > 0
Told  == {reported[j] : j \in {i \in Jobs : reported[i] # <<>>}}

NothingIsSeen ==
  /\ LeasesStay /\ Content' = Content /\ revision' = revision
  /\ (Dirty' <=> Dirty) /\ Told' = Told

LEMMA UnseenIsStutter == NothingIsSeen => UNCHANGED Abstract!vars
  BY DEF NothingIsSeen, LeasesStay, Dirty, Told, Abstract!vars

\* Who keeps the reports and the edits keeps what was told and whether the
\* workspace is dirty.
LEMMA SameIsUnseen ==
  ASSUME LeasesStay, batch' = batch, reported' = reported, edits' = edits,
         revision' = revision
  PROVE  NothingIsSeen
<1>1. Jobs' = Jobs
  BY JobsStay
<1> QED BY <1>1, ContentStays DEF LeasesStay, NothingIsSeen, Dirty, Told

\* The grant of a lease to a tool that looks, or to one that edits.
LEMMA GrantIsStart ==
  ASSUME ToolInv, NEW j \in Jobs, Grant(j)
  PROVE  Abstract!Next \/ UNCHANGED Abstract!vars
<1>1. /\ Types /\ Waiting(j) /\ Honest(j) /\ j \in Calls /\ Alone
  BY DEF ToolInv, Jobs, Calls
<1>2. /\ batch' = batch /\ edits' = edits /\ revision' = revision
      /\ stage' = [stage EXCEPT ![j] = "leased"]
      /\ stage[j] \in {"locks", "delegated"}
      /\ JobEffect(j) = "Read" => Editors = {}
      /\ Exclusive(Kind(j)) => Editors = {} /\ Readers = {}
      /\ Readers' = IF JobEffect(j) = "Read" THEN Readers \cup {j} ELSE Readers
      /\ Editors' = IF Exclusive(Kind(j)) THEN Editors \cup {j} ELSE Editors
      /\ Jobs' = Jobs /\ Content' = Content
  BY <1>1, GrantIsFree, LeaseIsGranted, JobsStay, ContentStays DEF Grant, external, files
<1>3. /\ j \notin Readers /\ edits[j] = 0 /\ reported[j] = <<>>
      /\ edits \in [Calls -> 0..MaxEdits] /\ MaxEdits \in Nat
      /\ reported \in [Calls -> {<<>>} \cup (Nat \X Nat)] /\ Jobs \subseteq Calls
      /\ revision \in Nat /\ Content \in Nat
  BY <1>1, <1>2, ContentIsCounted, LimitsAssumption
     DEF Waiting, Honest, Leased, Ended, Begun, Readers, Types, TypeOK, Jobs, Calls
<1>4. Exclusive(Kind(j)) \/ JobEffect(j) = "Read" => Told' = Told \cup {<<revision, Content>>}
  <2> SUFFICES ASSUME Exclusive(Kind(j)) \/ JobEffect(j) = "Read"
               PROVE  Told' = Told \cup {<<revision, Content>>}
    OBVIOUS
  <2>1. JobEffect(j) \in {"Read", "Write", "Validate"}
    BY EffectsDiffer
  <2> DEFINE pair == <<revision, Content>>
  <2>2. reported' = [reported EXCEPT ![j] = pair] /\ pair # <<>>
    BY <2>1 DEF Grant
  <2> HIDE DEF pair
  <2>3. reported'[j] = pair /\ \A k \in Jobs : k # j => reported'[k] = reported[k]
    BY <1>1, <1>3, <2>2
  <2>4. ASSUME NEW p \in Told' PROVE p \in Told \cup {pair}
    <3>1. PICK i \in Jobs : reported'[i] # <<>> /\ p = reported'[i]
      BY <1>2 DEF Told
    <3> QED BY <2>3, <3>1 DEF Told
  <2>5. ASSUME NEW p \in Told PROVE p \in Told'
    <3>1. PICK i \in Jobs : reported[i] # <<>> /\ p = reported[i]
      BY DEF Told
    <3>2. i # j
      BY <1>3, <3>1
    <3>3. reported'[i] # <<>> /\ p = reported'[i] /\ i \in Jobs'
      BY <1>2, <2>3, <3>1, <3>2
    <3> QED BY <3>3 DEF Told
  <2>6. pair \in Told'
    BY <1>2, <2>2, <2>3 DEF Told
  <2>7. Told' = Told \cup {pair}
    BY <2>4, <2>5, <2>6
  <2> QED BY <2>7 DEF pair
<1>5. CASE JobEffect(j) = "Read"
  <2>1. /\ Editors = {} /\ Editors' = Editors /\ Readers' = Readers \cup {j}
        /\ Told' = Told \cup {<<revision, Content>>} /\ (Dirty' <=> Dirty)
    BY <1>2, <1>4, <1>5, EffectsDiffer DEF Dirty
  <2>2. Abstract!StartReading(j)
    BY <1>2, <1>3, <2>1 DEF Abstract!StartReading, Told, Dirty
  <2> QED BY <1>1, <2>2 DEF Abstract!Next, Calls
<1>6. CASE Exclusive(Kind(j))
  <2>1. /\ Editors = {} /\ Readers = {} /\ Editors' = {j} /\ Readers' = Readers
        /\ Told' = Told \cup {<<revision, Content>>} /\ ~Dirty /\ ~Dirty'
    BY <1>1, <1>2, <1>3, <1>4, <1>6, EffectsDiffer DEF Dirty
  <2>2. Abstract!StartEditing(j)
    BY <1>2, <2>1 DEF Abstract!StartEditing, Told, Dirty
  <2> QED BY <1>1, <2>2 DEF Abstract!Next, Calls
<1>7. CASE JobEffect(j) # "Read" /\ ~Exclusive(Kind(j))
  <2>1. reported' = reported
    BY <1>7 DEF Grant, Exclusive, JobEffect
  <2>2. LeasesStay
    BY <1>2, <1>7 DEF LeasesStay
  <2> QED BY <1>2, <2>1, <2>2, SameIsUnseen, UnseenIsStutter
<1> QED BY <1>5, <1>6, <1>7

\* An edit is made by the tool that has the workspace for itself.
LEMMA EditIsEdit ==
  ASSUME ToolInv, NEW j \in Jobs, Edit(j)
  PROVE  Abstract!Next
<1>1. /\ Types /\ Honest(j) /\ j \in Calls /\ edits \in [Calls -> 0..MaxEdits]
  BY DEF ToolInv, Jobs, Calls, Types, TypeOK
<1>2. LeasesStay /\ batch' = batch /\ Jobs' = Jobs
  BY <1>1, LeasesAreKept, JobsStay
<1>3. j \in Editors
  BY <1>1, EffectsDiffer DEF Edit, Honest, Editors, Leased
<1>4. revision' = revision /\ reported' = reported
      /\ edits' = [edits EXCEPT ![j] = edits[j] + 1]
  BY DEF Edit, access
<1>5. Dirty'
  BY <1>1, <1>2, <1>3, <1>4 DEF LeasesStay, Dirty
<1>6. Told' = Told
  BY <1>2, <1>4 DEF Told
<1>7. Content' = Content + 1
  BY <1>1, EditIsCounted
<1>8. Abstract!Edit(j)
  BY <1>2, <1>3, <1>4, <1>5, <1>6, <1>7 DEF LeasesStay, Abstract!Edit, Dirty, Told
<1> QED BY <1>1, <1>8 DEF Abstract!Next, Calls

\* The release: what was edited gets a new revision.
LEMMA ReleaseIsStop ==
  ASSUME ToolInv, NEW j \in Jobs, Release(j)
  PROVE  Abstract!Next \/ UNCHANGED Abstract!vars
<1>1. /\ Types /\ Honest(j) /\ j \in Calls /\ Alone /\ edits \in [Calls -> 0..MaxEdits]
  BY DEF ToolInv, Jobs, Calls, Types, TypeOK
<1>2. /\ batch' = batch /\ edits' = edits /\ reported' = reported /\ stage[j] = "ends"
      /\ revision' = DropLease(j) /\ Readers' = Readers \ {j} /\ Editors' = Editors \ {j}
      /\ Jobs' = Jobs /\ Content' = Content
  BY <1>1, LeaseIsReleased, JobsStay, ContentStays DEF Release, schedule
<1>3. Told' = Told
  BY <1>2 DEF Told
<1>4. CASE Exclusive(Kind(j))
  <2>1. j \in Editors /\ Editors = {j} /\ Readers = {}
    BY <1>1, <1>2, <1>4 DEF Editors, Leased, Alone
  <2>2. Editors' = {} /\ Readers' = Readers /\ ~Dirty'
    BY <1>2, <2>1 DEF Dirty
  <2>3. revision' = revision + 1 \/ (~Dirty /\ revision' = revision)
    <3>1. CASE JobEffect(j) = "Write"
      BY <1>2, <3>1 DEF DropLease
    <3>2. CASE JobEffect(j) # "Write"
      <4>1. ~(edits[j] > 0)
        BY <1>1, <3>2, EffectsDiffer DEF Honest
      <4> QED BY <1>2, <2>1, <3>2, <4>1 DEF DropLease, Dirty
    <3> QED BY <3>1, <3>2
  <2>4. Abstract!StopEditing(j)
    BY <1>2, <1>3, <2>1, <2>2, <2>3 DEF Abstract!StopEditing, Told, Dirty
  <2> QED BY <1>1, <2>4 DEF Abstract!Next, Calls
<1>5. CASE ~Exclusive(Kind(j))
  <2>1. revision' = revision /\ Editors' = Editors /\ (Dirty' <=> Dirty)
    BY <1>2, <1>5, EffectsDiffer DEF DropLease, Editors, Dirty
  <2>2. CASE j \in Readers
    <3>1. Abstract!StopReading(j)
      BY <1>2, <1>3, <2>1, <2>2 DEF Abstract!StopReading, Told, Dirty
    <3> QED BY <1>1, <3>1 DEF Abstract!Next, Calls
  <2>3. CASE j \notin Readers
    <3>1. LeasesStay
      BY <1>2, <2>1, <2>3 DEF LeasesStay
    <3> QED BY <1>2, <2>1, <3>1, SameIsUnseen, UnseenIsStutter
  <2> QED BY <2>2, <2>3
<1> QED BY <1>4, <1>5

\* A lease that is given back before anything began
LEMMA FailureIsStop ==
  ASSUME ToolInv, NEW j \in Jobs, CheckpointFails(j)
  PROVE  Abstract!Next \/ UNCHANGED Abstract!vars
<1>1. /\ Types /\ Honest(j) /\ j \in Calls /\ Alone
      /\ edits \in [Calls -> 0..MaxEdits] /\ MaxEdits \in Nat
  BY LimitsAssumption DEF ToolInv, Jobs, Calls, Types, TypeOK
<1>2. /\ batch' = batch /\ edits' = edits /\ reported' = reported /\ stage[j] = "leased"
      /\ revision' = DropLease(j) /\ Readers' = Readers \ {j} /\ Editors' = Editors \ {j}
      /\ Jobs' = Jobs /\ Content' = Content
  BY <1>1, LeaseIsReleased, JobsStay, ContentStays DEF CheckpointFails, schedule, files
<1>3. Told' = Told /\ ~(edits[j] > 0)
  BY <1>1, <1>2 DEF Told, Honest, Begun
<1>4. CASE Exclusive(Kind(j))
  <2>1. Editors = {j} /\ Readers = {} /\ Editors' = {} /\ ~Dirty /\ ~Dirty'
    BY <1>1, <1>2, <1>3, <1>4 DEF Editors, Leased, Alone, Dirty
  <2>2. Readers' = Readers /\ (revision' = revision + 1 \/ revision' = revision)
    BY <1>2, <2>1 DEF DropLease
  <2>3. Abstract!StopEditing(j)
    BY <1>2, <1>3, <2>1, <2>2 DEF Abstract!StopEditing, Told, Dirty
  <2> QED BY <1>1, <2>3 DEF Abstract!Next, Calls
<1>5. CASE ~Exclusive(Kind(j))
  <2>1. revision' = revision /\ Editors' = Editors /\ (Dirty' <=> Dirty)
    BY <1>2, <1>5, EffectsDiffer DEF DropLease, Editors, Dirty
  <2>2. CASE j \in Readers
    <3>1. Abstract!StopReading(j)
      BY <1>2, <1>3, <2>1, <2>2 DEF Abstract!StopReading, Told, Dirty
    <3> QED BY <1>1, <3>1 DEF Abstract!Next, Calls
  <2>3. CASE j \notin Readers
    <3>1. LeasesStay
      BY <1>2, <2>1, <2>3 DEF LeasesStay
    <3> QED BY <1>2, <2>1, <3>1, SameIsUnseen, UnseenIsStutter
  <2> QED BY <2>2, <2>3
<1> QED BY <1>4, <1>5

LEMMA StepIsShared ==
  ASSUME ToolInv, [Next]_vars
  PROVE  Abstract!Next \/ UNCHANGED Abstract!vars
<1>1. Types /\ JobInv
  BY DEF ToolInv, JobInv
<1>2. CASE Aside
  <2>1. LeasesStay
    BY <1>2, AsideKeepsLeases
  <2> QED BY <1>2, <2>1, SameIsUnseen, UnseenIsStutter DEF Aside, relevant
<1>3. ASSUME NEW j \in Jobs, JobStep(j) PROVE Abstract!Next \/ UNCHANGED Abstract!vars
  <2>1. Waiting(j) /\ Honest(j) /\ j \in Calls
    BY <1>1 DEF JobInv, Jobs, Calls
  <2>2. CASE \/ Approaches(j) \/ Begin(j) \/ ToldToStop(j) \/ TasksEnd(j) \/ Complete(j)
             \/ Hires(j) \/ ProcessEnds(j) \/ \E r \in Outcomes : Results(j, r)
    <3>1. LeasesStay /\ batch' = batch
      BY <1>1, <2>1, <2>2, LeasesAreKept
    <3>2. reported' = reported /\ edits' = edits /\ revision' = revision
      BY <2>2 DEF Approaches, Begin, ToldToStop, Hires, TasksEnd, Complete, ProcessEnds,
                  Results, access, files
    <3> QED BY <3>1, <3>2, SameIsUnseen, UnseenIsStutter
  <2>3. CASE Refused(j)
    <3>1. LeasesStay /\ batch' = batch /\ Jobs' = Jobs
      BY <1>1, <2>1, <2>3, LeasesAreKept, JobsStay
    <3>2. reported' = reported /\ edits' = edits
      BY <2>3 DEF Refused
    <3>3. CASE revision' = revision
      BY <3>1, <3>2, <3>3, SameIsUnseen, UnseenIsStutter
    <3>4. CASE revision' # revision
      <4>1. revision' = revision + 1 /\ Editors = {} /\ Readers = {}
        BY <2>3, <3>4 DEF Refused
      <4>2. Content' = Content /\ (Dirty' <=> Dirty) /\ Told' = Told
        BY <3>1, <3>2, ContentStays DEF LeasesStay, Dirty, Told
      <4>3. Abstract!Skip
        BY <3>1, <4>1, <4>2 DEF LeasesStay, Abstract!Skip, Dirty, Told
      <4> QED BY <4>3 DEF Abstract!Next
    <3> QED BY <3>3, <3>4
  <2>4. CASE Grant(j)
    BY <2>4, GrantIsStart
  <2>5. CASE Edit(j)
    BY <2>5, EditIsEdit
  <2>6. CASE Release(j) \/ CheckpointFails(j)
    BY <2>6, ReleaseIsStop, FailureIsStop
  <2> QED BY <1>3, <2>2, <2>3, <2>4, <2>5, <2>6 DEF JobStep
<1> QED BY <1>1, <1>2, <1>3, StepsAreKnown DEF JobInv

\* Tools look at the workspace together or change it alone, and a revision
\* that two tools were told names one content: the scheduler, its lease and
\* the blocking work of interrupted tools implement SharedWorkspace.
THEOREM SchedulerSharesWorkspace == Spec => WorkspaceIsShared
<1>1. Init => Abstract!Init
  <2> SUFFICES ASSUME Init PROVE Abstract!Init
    OBVIOUS
  <2>1. /\ ToolInv /\ stage = [j \in Calls |-> "waits"] /\ reported = [j \in Calls |-> <<>>]
        /\ edits = [j \in Calls |-> 0] /\ revision = 0
    BY ToolsStart DEF Init, InitWith, Calls
  <2>2. Readers = {} /\ Editors = {} /\ Told = {} /\ ~Dirty
    BY <2>1 DEF Readers, Editors, Leased, Jobs, Calls, Told, Dirty
  <2>3. Content = 0
    <3>1. Made = {}
      BY <2>1, LimitsAssumption DEF Made
    <3> QED BY <2>1, <3>1, ContentIsCounted, FS_EmptySet DEF ToolInv
  <2> QED BY <2>1, <2>2, <2>3 DEF Abstract!Init, Told, Dirty
<1>2. ToolInv /\ [Next]_vars => [Abstract!Next]_(Abstract!vars)
  BY StepIsShared
<1> QED BY <1>1, <1>2, ToolsAreSound, PTL DEF Spec, WorkspaceIsShared, Abstract!Spec

=============================================================================
