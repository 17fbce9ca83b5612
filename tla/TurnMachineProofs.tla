------------------------- MODULE TurnMachineProofs -------------------------
(***************************************************************************)
(* Proofs about TurnMachine for every value of its constants.              *)
(*                                                                         *)
(* The operators that move the engine are typed once (ReportType ...       *)
(* BeginType); each action of Next has a lemma that cites them.            *)
(*                                                                         *)
(* The invariants of follow-ups, questions and requests are inductive      *)
(* relative to TypeOK once they speak of the whole handler: a handler that *)
(* leaves the session idle has looked at the queue, and one that opens the *)
(* gate has taken up what the gate held back.                              *)
(***************************************************************************)
EXTENDS TurnMachine, TLAPS, SequenceTheorems, FiniteSetTheorems

FollowUps == [id : Nat, start : {"Provider", "Tool"}]
Exchanges == [turn : Nat, op : Nat, entries : Seq(Entries)]

\* The part of TypeOK that speaks of the engine's variables alone.
EngineType ==
  /\ phase \in Phases /\ turn \in Turns /\ batch \in Batches
  /\ cleanup \in Cleanups
  /\ runs \subseteq Runs /\ execs \subseteq Execs /\ cleanups \subseteq Nat
  /\ status \in Seq(Status)
  /\ phase = "Idle" \/ turn.id \in DOMAIN status
  /\ phase = "Stopping" => cleanup.outcome \in Outcomes

\* A queue of follow-ups that were accepted.
QueueType(q, st) ==
  /\ q \in Seq(FollowUps)
  /\ \A k \in DOMAIN q : q[k].id \in DOMAIN st

\* The rest of TypeOK.
SessionType ==
  /\ life \in Lives /\ stopSignal \in BOOLEAN
  /\ gate \in Gates
  /\ worker \in 0..Len(replies)
  /\ questions \in Nat /\ asked \in Nat
  /\ persistence \in {"Ready", "Failed"} /\ behind \in BOOLEAN
  /\ mailbox \in Seq(Messages)
  /\ replies \in Seq(WorkerOutcomes)
  /\ history \in Seq(Exchanges)

\* TypeOK in three parts.
LEMMA TypeParts ==
  TypeOK <=> EngineType /\ SessionType /\ QueueType(queue, status)
BY DEF TypeOK, EngineType, SessionType, QueueType, FollowUps, Exchanges

\* ... and of the next state.
LEMMA NextTypeParts ==
  TypeOK' <=> EngineType' /\ SessionType' /\ QueueType(queue', status')
BY DEF TypeOK, EngineType, SessionType, QueueType, FollowUps, Exchanges

-----------------------------------------------------------------------------
(* Operators on the reported statuses, the queue and the tasks             *)

\* Reports keep the type and the set of accepted turns.
LEMMA ReportType ==
  ASSUME NEW st \in Seq(Status), NEW id, NEW s \in Status
  PROVE  /\ Report(st, id, s) \in Seq(Status)
         /\ DOMAIN Report(st, id, s) = DOMAIN st
<1>1. DOMAIN Report(st, id, s) = DOMAIN st
  BY DEF Report
<1>2. DOMAIN st = 1..Len(st)
  BY LenProperties
<1>3. CASE id \in DOMAIN st
  BY <1>1, <1>2, <1>3, ExceptSeq DEF Report
<1>4. CASE id \notin DOMAIN st
  <2>1. Report(st, id, s) = st
    BY <1>2, <1>4, LenProperties DEF Report
  <2> QED
    BY <2>1
<1> QED
  BY <1>3, <1>4

\* Cancelling the queue keeps the type and the set of accepted turns.
LEMMA CancelQueueType ==
  ASSUME NEW st \in Seq(Status), NEW q
  PROVE  /\ CancelQueue(st, q) \in Seq(Status)
         /\ DOMAIN CancelQueue(st, q) = DOMAIN st
<1>1. "Cancelled" \in Status
  BY DEF Status, Terminal
<1> QED
  BY <1>1 DEF CancelQueue

\* Leaving a session keeps the type and the set of accepted turns.
LEMMA SaveQueueType ==
  ASSUME NEW st \in Seq(Status), NEW q
  PROVE  /\ SaveQueue(st, q) \in Seq(Status)
         /\ DOMAIN SaveQueue(st, q) = DOMAIN st
<1>1. "Saved" \in Status
  BY DEF Status
<1> QED
  BY <1>1 DEF SaveQueue

\* Accepting an input adds one turn, the one with the new identity.
LEMMA AcceptType ==
  ASSUME NEW st \in Seq(Status)
  PROVE  /\ Accept(st) \in Seq(Status)
         /\ NewId(st) \in Nat
         /\ NewId(st) \in DOMAIN Accept(st)
         /\ DOMAIN st \subseteq DOMAIN Accept(st)
BY DEF Accept, NewId, Status

\* A queue stays well typed when its head leaves it.
LEMMA TailType ==
  ASSUME NEW q, NEW st, QueueType(q, st), q # <<>>
  PROVE  /\ QueueType(Tail(q), st)
         /\ Head(q) \in FollowUps
         /\ Head(q).id \in DOMAIN st
<1>1. q \in Seq(FollowUps)
  BY DEF QueueType
<1>2. /\ Tail(q) \in Seq(FollowUps)
      /\ \A i \in DOMAIN Tail(q) : i + 1 \in DOMAIN q /\ Tail(q)[i] = q[i + 1]
  BY <1>1
<1>3. 1 \in DOMAIN q /\ Head(q) = q[1]
  BY <1>1
<1> QED
  BY <1>1, <1>2, <1>3 DEF QueueType

\* ... and when an accepted follow-up joins it.
LEMMA EnqueueType ==
  ASSUME NEW q, NEW st, QueueType(q, st),
         NEW f \in FollowUps, f.id \in DOMAIN st
  PROVE  QueueType(Enqueue(q, f), st)
BY DEF QueueType, Enqueue

\* A queue stays well typed as turns are accepted.
LEMMA QueueGrows ==
  ASSUME NEW q, NEW st, NEW new, QueueType(q, st), DOMAIN st \subseteq DOMAIN new
  PROVE  QueueType(q, new)
BY DEF QueueType

\* The empty queue and the queue of one follow-up.
LEMMA ShortQueues ==
  ASSUME NEW st
  PROVE  /\ QueueType(<<>>, st)
         /\ \A f \in FollowUps : f.id \in DOMAIN st => QueueType(<<f>>, st)
BY DEF QueueType

\* Cancellation keeps the type of the tasks.
LEMMA CancelType ==
  /\ \A id : runs \subseteq Runs => CancelTurn(runs, id) \subseteq Runs
  /\ \A id : execs \subseteq Execs => CancelTurn(execs, id) \subseteq Execs
  /\ runs \subseteq Runs => CancelAll(runs) \subseteq Runs
  /\ execs \subseteq Execs => CancelAll(execs) \subseteq Execs
BY DEF CancelTurn, CancelAll, Runs, Execs

\* What the variables of a phase hold outside of it is well typed.
LEMMA NullTypes ==
  /\ NoTurn \in Turns /\ NoBatch \in Batches /\ NoCleanup \in Cleanups
BY DEF NoTurn, NoBatch, NoCleanup, Turns, Batches, Cleanups

-----------------------------------------------------------------------------
(* The transitions of the engine                                           *)

\* Stopping a turn that was accepted keeps the engine's types.
LEMMA StopType ==
  ASSUME EngineType,
         NEW t \in Turns, NEW b \in Batches, NEW work \in {"Provider", "Tools"},
         NEW outcome \in Outcomes, NEW clear \in BOOLEAN,
         NEW st \in Seq(Status), t.id \in DOMAIN st,
         Stop(t, b, work, outcome, clear, st)
  PROVE  EngineType' /\ DOMAIN status' = DOMAIN st
<1>1. t.id \in Nat
  BY DEF Turns
<1>2. phase' \in Phases /\ turn' \in Turns /\ batch' \in Batches
  BY DEF Stop, Phases
<1>3. cleanup' \in Cleanups /\ cleanup'.outcome \in Outcomes
  BY DEF Stop, Cleanups
<1>4. runs' \subseteq Runs /\ execs' \subseteq Execs
  BY CancelType DEF Stop, EngineType
<1>5. cleanups' \subseteq Nat
  BY <1>1 DEF Stop, EngineType
<1>6. status' \in Seq(Status) /\ DOMAIN status' = DOMAIN st
  <2>1. "Cancelling" \in Status
    BY DEF Status
  <2> QED
    BY <2>1, ReportType DEF Stop
<1>7. turn'.id \in DOMAIN status'
  BY <1>6 DEF Stop
<1> QED
  BY <1>2, <1>3, <1>4, <1>5, <1>6, <1>7 DEF EngineType

\* The first request of a turn and the one after another are turns.
LEMMA RunTypes ==
  /\ \A id \in Nat : FirstRun(id) \in Turns /\ FirstRun(id).id = id
  /\ \A t \in Turns : NextRun(t) \in Turns /\ NextRun(t).id = t.id
<1>1. ASSUME NEW id \in Nat
      PROVE  FirstRun(id) \in Turns /\ FirstRun(id).id = id
  BY DEF FirstRun, NoTurn, Turns
<1>2. ASSUME NEW t \in Turns
      PROVE  NextRun(t) \in Turns /\ NextRun(t).id = t.id
  <2>1. t.op + 1 \in Nat
    BY DEF Turns
  <2> QED
    BY <2>1 DEF NextRun, Turns
<1> QED
  BY <1>1, <1>2

\* A request that is launched, or held back by a question, keeps the types.
LEMMA LaunchProviderType ==
  ASSUME EngineType,
         NEW t \in Turns, NEW g, NEW previous \in BOOLEAN,
         NEW st \in Seq(Status), t.id \in DOMAIN st,
         LaunchProvider(t, g, previous, st)
  PROVE  EngineType' /\ DOMAIN status' = DOMAIN st
<1>1. CASE Held(g) /\ Stop(t, NoBatch, "Provider", "WaitingForInput", FALSE, st)
  BY <1>1, StopType, NullTypes DEF Outcomes
<1>2. CASE /\ ~Held(g)
           /\ phase' = "Provider" /\ turn' = t
           /\ batch' = NoBatch /\ cleanup' = NoCleanup
           /\ runs' = (IF previous THEN CancelTurn(runs, t.id) ELSE runs)
                        \cup {NewRun(t)}
           /\ status' = Report(st, t.id, "Running")
           /\ UNCHANGED <<execs, cleanups>>
  <2>1. NewRun(t) \in Runs
    BY DEF NewRun, Runs, Turns
  <2>2. runs' \subseteq Runs
    BY <1>2, <2>1, CancelType DEF EngineType
  <2>3. status' \in Seq(Status) /\ DOMAIN status' = DOMAIN st
    <3>1. "Running" \in Status
      BY DEF Status
    <3> QED
      BY <1>2, <3>1, ReportType
  <2> QED
    BY <1>2, <2>2, <2>3, NullTypes DEF EngineType, Phases
<1> QED
  BY <1>1, <1>2 DEF LaunchProvider

\* A tool batch that is launched keeps the types.
LEMMA LaunchToolsType ==
  ASSUME EngineType,
         NEW t \in Turns, NEW n \in Nat,
         NEW st \in Seq(Status), t.id \in DOMAIN st,
         LaunchTools(t, n, st)
  PROVE  EngineType' /\ DOMAIN status' = DOMAIN st
<1>1. batch' \in Batches
  <2>1. "Queued" \in Entries
    BY DEF Entries
  <2>2. [j \in 1..n |-> "Queued"] \in Seq(Entries)
    BY <2>1
  <2> QED
    BY <2>2 DEF LaunchTools, Batches
<1>2. NewExec(t, n) \in Execs
  <2>1. "queued" \in Jobs
    BY DEF Jobs
  <2>2. [j \in 1..n |-> "queued"] \in Seq(Jobs)
    BY <2>1
  <2> QED
    BY <2>2 DEF NewExec, StorageFailed, Execs, Turns
<1>3. status' \in Seq(Status) /\ DOMAIN status' = DOMAIN st
  <2>1. "WaitingForTools" \in Status
    BY DEF Status
  <2> QED
    BY <2>1, ReportType DEF LaunchTools
<1> QED
  BY <1>1, <1>2, <1>3, NullTypes DEF LaunchTools, EngineType, Phases

\* A turn that begins keeps the types.
LEMMA BeginType ==
  ASSUME EngineType,
         NEW f \in FollowUps, NEW g, NEW st \in Seq(Status),
         f.id \in DOMAIN st, Begin(f, g, st)
  PROVE  EngineType' /\ DOMAIN status' = DOMAIN st
<1>1. FirstRun(f.id) \in Turns /\ FirstRun(f.id).id = f.id
  BY RunTypes DEF FollowUps
<1>2. CASE LaunchProvider(FirstRun(f.id), g, FALSE, st)
  BY <1>1, <1>2, LaunchProviderType
<1>3. CASE LaunchTools(FirstRun(f.id), 1, st)
  BY <1>1, <1>3, LaunchToolsType
<1>4. CASE Stop(FirstRun(f.id), NoBatch, "Provider", "Failed", FALSE, st)
  BY <1>1, <1>4, StopType, NullTypes DEF Outcomes
<1> QED
  BY <1>2, <1>3, <1>4 DEF Begin

\* A session that becomes idle keeps the types.
LEMMA BecomeIdleType ==
  ASSUME EngineType, NEW st \in Seq(Status), BecomeIdle(st)
  PROVE  EngineType' /\ DOMAIN status' = DOMAIN st
BY NullTypes DEF BecomeIdle, EngineType, Phases

\* A turn that waits for an answer keeps the types.
LEMMA BecomeWaitingType ==
  ASSUME EngineType, NEW id \in Nat, NEW st \in Seq(Status),
         id \in DOMAIN st, BecomeWaiting(id, st)
  PROVE  EngineType' /\ DOMAIN status' = DOMAIN st
<1>1. turn' \in Turns /\ turn'.id = id
  BY DEF BecomeWaiting, NoTurn, Turns
<1> QED
  BY <1>1, NullTypes DEF BecomeWaiting, EngineType, Phases

\* A step that leaves the engine alone keeps its types.
LEMMA EngineUnchanged ==
  ASSUME EngineType, UNCHANGED engine
  PROVE  EngineType' /\ DOMAIN status' = DOMAIN status
BY DEF EngineType, engine

\* The queue stays well typed across a step of the engine.
LEMMA QueueUnchanged ==
  ASSUME QueueType(queue, status), UNCHANGED queue,
         DOMAIN status \subseteq DOMAIN status'
  PROVE  QueueType(queue', status')
BY DEF QueueType

-----------------------------------------------------------------------------
(* Commands                                                                *)

\* What an input adds: a follow-up of the newly accepted turn.
LEMMA InputType ==
  ASSUME EngineType, NEW kind \in {"Provider", "Tool"}
  PROVE  /\ FollowUp(NewId(status), kind) \in FollowUps
         /\ FollowUp(NewId(status), kind).id = NewId(status)
         /\ Accept(status) \in Seq(Status)
         /\ NewId(status) \in DOMAIN Accept(status)
         /\ DOMAIN status \subseteq DOMAIN Accept(status)
BY AcceptType DEF EngineType, FollowUp, FollowUps

\* Input that starts, waits or queues keeps the types.
LEMMA StartKeepsType ==
  ASSUME TypeOK, NEW kind \in Starts, Start(kind)
  PROVE  TypeOK'
<1> DEFINE f  == FollowUp(NewId(status), kind)
           st == Accept(status)
<1>1. EngineType /\ SessionType /\ QueueType(queue, status)
  BY TypeParts
<1>2. /\ f \in FollowUps /\ f.id \in DOMAIN st
      /\ st \in Seq(Status) /\ DOMAIN status \subseteq DOMAIN st
      /\ f.id \in Nat
  <2>1. kind \in {"Provider", "Tool"}
    BY StartsAssumption
  <2> QED
    BY <1>1, <2>1, InputType DEF FollowUps
<1>3. SessionType'
  BY <1>1 DEF Start, SessionType, control, asking
<1>4. QueueType(queue, st) /\ QueueType(Enqueue(queue, f), st)
  BY <1>1, <1>2, QueueGrows, EnqueueType
<1> HIDE DEF f, st
<1>5. CASE Begin(f, gate, st) /\ UNCHANGED queue
  BY <1>1, <1>2, <1>3, <1>4, <1>5, BeginType, NextTypeParts, QueueUnchanged
<1>6. CASE /\ queue' = Enqueue(queue, f)
           /\ BecomeWaiting(f.id, Report(st, f.id, "WaitingForInput"))
  <2>1. "WaitingForInput" \in Status
    BY DEF Status
  <2>2. /\ Report(st, f.id, "WaitingForInput") \in Seq(Status)
        /\ DOMAIN Report(st, f.id, "WaitingForInput") = DOMAIN st
    BY <1>2, <2>1, ReportType
  <2>3. EngineType' /\ DOMAIN status' = DOMAIN st
    BY <1>1, <1>2, <1>6, <2>2, BecomeWaitingType
  <2> QED
    BY <1>3, <1>4, <1>6, <2>3, NextTypeParts, QueueGrows
<1>7. CASE /\ queue' = Enqueue(queue, f) /\ status' = st
           /\ UNCHANGED <<phase, turn, batch, cleanup, runs, execs, cleanups>>
  <2>1. EngineType'
    BY <1>1, <1>2, <1>7 DEF EngineType
  <2> QED
    BY <1>3, <1>4, <1>7, <2>1, NextTypeParts
<1> QED
  BY <1>5, <1>6, <1>7 DEF Start, f, st

\* Reporting one turn, after others were cancelled, keeps the type.
LEMMA StatusNames ==
  {"Queued", "Running", "WaitingForTools", "WaitingForInput", "Cancelling",
   "Saved", "Completed", "Cancelled", "Failed"} \subseteq Status
BY DEF Status, Terminal

\* A turn that is stopping may be cancelled instead, keeping the types.
LEMMA StoppingType ==
  ASSUME EngineType, phase = "Stopping", NEW clear \in BOOLEAN,
         NEW st \in Seq(Status), DOMAIN status \subseteq DOMAIN st,
         cleanup' = [cleanup EXCEPT
           !.outcome = IF @ = "WaitingForInput" THEN "Cancelled" ELSE @,
           !.clear = clear],
         status' = st,
         UNCHANGED <<phase, turn, batch, runs, execs, cleanups>>
  PROVE  EngineType'
<1>1. cleanup' \in Cleanups /\ cleanup'.outcome \in Outcomes
  BY DEF EngineType, Cleanups, Outcomes
<1> QED
  BY <1>1 DEF EngineType

\* Steering keeps the types.
LEMMA SteerKeepsType ==
  ASSUME TypeOK, Steer
  PROVE  TypeOK'
<1> DEFINE f  == FollowUp(NewId(status), "Provider")
           st == CancelQueue(Accept(status), queue)
<1>1. EngineType /\ SessionType /\ QueueType(queue, status)
  BY TypeParts
<1>2. /\ f \in FollowUps /\ f.id \in DOMAIN st /\ f.id \in Nat
      /\ st \in Seq(Status) /\ DOMAIN status \subseteq DOMAIN st
  BY <1>1, InputType, CancelQueueType DEF FollowUps
<1>3. SessionType'
  BY <1>1 DEF Steer, SessionType, control, asking
<1>4. QueueType(<<>>, st) /\ QueueType(<<f>>, st)
  BY <1>2, ShortQueues
<1> HIDE DEF f, st
<1>5. \A id : /\ Report(st, id, "Cancelled") \in Seq(Status)
              /\ DOMAIN Report(st, id, "Cancelled") = DOMAIN st
  BY <1>2, ReportType, StatusNames
<1>6. ASSUME NEW now \in Seq(Status), DOMAIN now = DOMAIN st,
             Begin(f, gate, now), queue' = <<>>
      PROVE  TypeOK'
  BY <1>1, <1>2, <1>3, <1>6, BeginType, NextTypeParts, ShortQueues
<1>7. ASSUME NEW now \in Seq(Status), DOMAIN now = DOMAIN st,
             BecomeWaiting(f.id, Report(now, f.id, "WaitingForInput")),
             queue' = <<f>>
      PROVE  TypeOK'
  <2>1. /\ Report(now, f.id, "WaitingForInput") \in Seq(Status)
        /\ DOMAIN Report(now, f.id, "WaitingForInput") = DOMAIN st
    BY <1>2, <1>7, ReportType, StatusNames
  <2>2. EngineType' /\ DOMAIN status' = DOMAIN st
    BY <1>1, <1>2, <1>7, <2>1, BecomeWaitingType
  <2> QED
    BY <1>2, <1>3, <1>7, <2>2, ShortQueues, NextTypeParts
<1>8. CASE /\ phase \in {"Provider", "Tools"} /\ queue' = <<f>>
           /\ Stop(turn, batch, phase, "Cancelled", FALSE, st)
  <2>1. turn \in Turns /\ batch \in Batches /\ turn.id \in DOMAIN st
    BY <1>1, <1>2, <1>8 DEF EngineType
  <2>2. EngineType' /\ DOMAIN status' = DOMAIN st
    BY <1>1, <1>2, <1>8, <2>1, StopType DEF Outcomes
  <2> QED
    BY <1>2, <1>3, <1>8, <2>2, ShortQueues, NextTypeParts
<1>9. CASE /\ phase = "Stopping" /\ queue' = <<f>>
           /\ cleanup' = [cleanup EXCEPT !.outcome =
                            IF @ = "WaitingForInput" THEN "Cancelled" ELSE @]
           /\ status' = st
           /\ UNCHANGED <<phase, turn, batch, runs, execs, cleanups>>
  <2>1. cleanup' \in Cleanups /\ cleanup'.outcome \in Outcomes
    BY <1>1, <1>9 DEF EngineType, Cleanups, Outcomes
  <2>2. EngineType'
    BY <1>1, <1>2, <1>9, <2>1 DEF EngineType
  <2> QED
    BY <1>2, <1>3, <1>9, <2>2, ShortQueues, NextTypeParts
<1> QED
  BY <1>2, <1>5, <1>6, <1>7, <1>8, <1>9 DEF Steer, f, st

\* An interrupt of the engine keeps its types and drains the queue.
LEMMA InterruptEngineType ==
  ASSUME EngineType, NEW clear \in BOOLEAN, InterruptEngine(clear)
  PROVE  EngineType' /\ queue' = <<>>
<1> SUFFICES EngineType'
  BY DEF InterruptEngine, DrainQueue
<1> DEFINE st == CancelQueue(status, queue)
<1>1. st \in Seq(Status) /\ DOMAIN st = DOMAIN status
  BY CancelQueueType DEF EngineType
<1> HIDE DEF st
<1>2. Report(st, turn.id, "Cancelled") \in Seq(Status)
  BY <1>1, ReportType, StatusNames
<1>3. CASE BecomeIdle(st)
  BY <1>1, <1>3, BecomeIdleType
<1>4. CASE BecomeIdle(Report(st, turn.id, "Cancelled"))
  BY <1>2, <1>4, BecomeIdleType
<1>5. CASE /\ phase \in {"Provider", "Tools"}
           /\ Stop(turn, batch, phase, "Cancelled", clear, st)
  <2>1. turn \in Turns /\ batch \in Batches /\ turn.id \in DOMAIN st
    BY <1>1, <1>5 DEF EngineType
  <2> QED
    BY <1>1, <1>5, <2>1, StopType DEF Outcomes
<1>6. CASE /\ phase = "Stopping"
           /\ cleanup' = [cleanup EXCEPT
                !.outcome = IF @ = "WaitingForInput" THEN "Cancelled" ELSE @,
                !.clear = Disposition(@, clear)]
           /\ status' = st
           /\ UNCHANGED <<phase, turn, batch, runs, execs, cleanups>>
  <2>1. Disposition(cleanup.clear, clear) \in BOOLEAN
    BY DEF EngineType, Cleanups, Disposition
  <2> QED
    BY <1>1, <1>6, <2>1, StoppingType
<1> QED
  BY <1>3, <1>4, <1>5, <1>6 DEF InterruptEngine, st

\* Interrupting keeps the types.
LEMMA InterruptKeepsType ==
  ASSUME TypeOK, Interrupt
  PROVE  TypeOK'
<1>1. EngineType /\ SessionType
  BY TypeParts
<1>2. EngineType' /\ queue' = <<>>
  BY <1>1, InterruptEngineType DEF Interrupt
<1>3. SessionType'
  BY <1>1 DEF Interrupt, SessionType, control, asking
<1> QED
  BY <1>2, <1>3, ShortQueues, NextTypeParts

\* A fresh session has well-typed variables.
LEMMA FreshSessionType ==
  ASSUME SessionType, FreshSession, persistence' \in {"Ready", "Failed"},
         UNCHANGED <<life, stopSignal, mailbox, replies>>
  PROVE  SessionType'
<1>1. behind' \in BOOLEAN
  BY DEF FreshSession
<1> QED
  BY <1>1 DEF SessionType, FreshSession, Gates

\* Clearing keeps the types.
LEMMA ClearKeepsType ==
  ASSUME TypeOK, Clear
  PROVE  TypeOK'
<1>1. EngineType /\ SessionType
  BY TypeParts
<1>2. EngineType' /\ queue' = <<>>
  BY <1>1, InterruptEngineType DEF Clear
<1>3. SessionType'
  <2>1. CASE Cleared
    BY <1>1, <2>1, FreshSessionType DEF Clear, Cleared, control
  <2>2. CASE gate' = "Open" /\ UNCHANGED <<worker, asking, history>>
    BY <1>1, <2>2 DEF Clear, SessionType, control, asking, Gates
  <2>3. CASE gate' = "Open" /\ ClearFails /\ UNCHANGED <<worker, history>>
    BY <1>1, <2>3 DEF Clear, SessionType, control, ClearFails, Gates
  <2> QED
    BY <2>1, <2>2, <2>3 DEF Clear
<1> QED
  BY <1>2, <1>3, ShortQueues, NextTypeParts

\* A new session keeps the types.
LEMMA NewSessionKeepsType ==
  ASSUME TypeOK, NewSession
  PROVE  TypeOK'
<1>1. EngineType /\ SessionType
  BY TypeParts
<1>2. EngineType' /\ queue' = <<>>
  BY <1>1, InterruptEngineType DEF NewSession
<1>3. SessionType'
  <2>1. CASE FreshSession /\ persistence' = "Ready"
    BY <1>1, <2>1, FreshSessionType DEF NewSession, control
  <2>2. CASE UNCHANGED <<gate, worker, asking, history>>
    BY <1>1, <2>2 DEF NewSession, SessionType, control, asking
  <2> QED
    BY <2>1, <2>2 DEF NewSession
<1> QED
  BY <1>2, <1>3, ShortQueues, NextTypeParts

\* Resuming another session keeps the types.
LEMMA ResumeKeepsType ==
  ASSUME TypeOK, NEW restored \in 0..MaxQuestions, Resume(restored)
  PROVE  TypeOK'
<1>1. EngineType /\ SessionType
  BY TypeParts
<1> DEFINE saved == SaveQueue(status, queue)
           st == IF phase = "Waiting" THEN Report(saved, turn.id, "Saved")
                                      ELSE saved
<1>2. st \in Seq(Status)
  BY <1>1, SaveQueueType, ReportType, StatusNames DEF EngineType
<1>3. BecomeIdle(st) /\ queue' = <<>>
  BY DEF Resume
<1>4. EngineType'
  BY <1>1, <1>2, <1>3, BecomeIdleType
<1>5. SessionType'
  <2>1. restored \in Nat
    BY BoundsAssumption
  <2>2. gate' \in Gates
    BY DEF Resume, GateOf, Gates
  <2>3. behind' \in BOOLEAN
    BY DEF Resume
  <2> QED
    BY <1>1, <2>1, <2>2, <2>3 DEF Resume, SessionType, control
<1> QED
  BY <1>3, <1>4, <1>5, ShortQueues, NextTypeParts

\* A gate that changes begins the work that it held back, keeping the types.
LEMMA QuestionsChangedType ==
  ASSUME EngineType, QueueType(queue, status),
         NEW g \in Gates, QuestionsChanged(g)
  PROVE  EngineType' /\ QueueType(queue', status') /\ gate' \in Gates
<1>1. gate' \in Gates
  BY DEF QuestionsChanged
<1>2. status \in Seq(Status)
  BY DEF EngineType
<1>3. CASE /\ queue # <<>> /\ queue' = Tail(queue)
           /\ Begin(Head(queue), g, status)
  BY <1>1, <1>2, <1>3, TailType, BeginType, QueueGrows
<1>4. CASE /\ Begin(FollowUp(NewId(status), "Provider"), g, Accept(status))
           /\ UNCHANGED queue
  BY <1>1, <1>4, InputType, BeginType, QueueUnchanged
<1>5. CASE UNCHANGED <<engine, queue>>
  BY <1>1, <1>5, EngineUnchanged, QueueUnchanged
<1> QED
  BY <1>3, <1>4, <1>5 DEF QuestionsChanged

\* The gate that the questions call for.
LEMMA GateOfType == \A n : GateOf(n) \in Gates
BY DEF GateOf, Gates

\* An answer keeps the types.
LEMMA AnswerKeepsType ==
  ASSUME TypeOK, Answer
  PROVE  TypeOK'
<1>1. EngineType /\ SessionType /\ QueueType(queue, status)
  BY TypeParts
<1>2. EngineType' /\ QueueType(queue', status') /\ gate' \in Gates
  <2>1. CASE QuestionsChanged(GateOf(questions'))
    BY <1>1, <2>1, GateOfType, QuestionsChangedType
  <2>2. CASE UNCHANGED <<engine, queue, gate>>
    BY <1>1, <2>2, EngineUnchanged, QueueUnchanged DEF SessionType
  <2> QED
    BY <2>1, <2>2 DEF Answer
<1>3. behind' \in BOOLEAN /\ persistence' = persistence
  BY <1>1 DEF Answer, SessionType, QuestionsChanged
<1>4. questions' \in Nat
  BY <1>1 DEF Answer, SessionType
<1>5. SessionType'
  BY <1>1, <1>2, <1>3, <1>4 DEF Answer, SessionType, control
<1> QED
  BY <1>2, <1>5, NextTypeParts

\* A worker's request keeps the types.
LEMMA StartWorkerKeepsType ==
  ASSUME TypeOK, StartWorker
  PROVE  TypeOK'
<1>1. EngineType /\ SessionType /\ QueueType(queue, status)
  BY TypeParts
<1>2. EngineType' /\ QueueType(queue', status')
  <2>1. CASE Begin(FollowUp(NewId(status), "Provider"), gate, Accept(status))
    BY <1>1, <2>1, InputType, BeginType, QueueUnchanged DEF StartWorker
  <2>2. CASE UNCHANGED engine
    BY <1>1, <2>2, EngineUnchanged, QueueUnchanged DEF StartWorker
  <2> QED
    BY <2>1, <2>2 DEF StartWorker
<1>3. replies' \in Seq(WorkerOutcomes) /\ worker' \in 0..Len(replies')
  <2>1. /\ "Pending" \in WorkerOutcomes
        /\ WorkerResult("AlreadyRunning") \in WorkerOutcomes
        /\ WorkerResult("Stopped") \in WorkerOutcomes
    BY DEF WorkerOutcomes, WorkerResult, Terminal
  <2>2. replies \in Seq(WorkerOutcomes) /\ worker \in 0..Len(replies)
    BY <1>1 DEF SessionType
  <2>3. \E o \in WorkerOutcomes : replies' = Append(replies, o)
    BY <2>1 DEF StartWorker
  <2>4. worker' \in {worker, Len(replies) + 1}
    BY DEF StartWorker
  <2> QED
    BY <2>2, <2>3, <2>4
<1>4. SessionType'
  BY <1>1, <1>3 DEF StartWorker, SessionType, control, asking
<1> QED
  BY <1>2, <1>4, NextTypeParts

\* A stop request keeps the types.
LEMMA StopRequestedKeepsType ==
  ASSUME TypeOK, StopRequested
  PROVE  TypeOK'
<1>1. EngineType /\ SessionType
  BY TypeParts
<1>2. EngineType' /\ queue' = <<>>
  BY <1>1, InterruptEngineType DEF StopRequested
<1>3. SessionType'
  BY <1>1 DEF StopRequested, SessionType, asking, Lives
<1> QED
  BY <1>2, <1>3, ShortQueues, NextTypeParts

\* So does the stop signal.
LEMMA StopActorKeepsType ==
  ASSUME TypeOK, StopActor
  PROVE  TypeOK'
BY DEF TypeOK, StopActor, engine, asking

-----------------------------------------------------------------------------
(* Messages of the tasks                                                   *)

\* A delivered message is typed and leaves a typed mailbox.
LEMMA DeliverType ==
  ASSUME SessionType, NEW kind, Deliver(kind)
  PROVE  Head(mailbox) \in Messages /\ mailbox' \in Seq(Messages)
BY DEF SessionType, Deliver

\* A failed request is retried or stops the turn; either keeps the types.
LEMMA ProviderFailedType ==
  ASSUME EngineType, QueueType(queue, status), phase = "Provider",
         NEW failure, ProviderFailed(failure)
  PROVE  EngineType' /\ QueueType(queue', status')
<1> DEFINE exhausted == failure = "UsageLimit"
           st == IF exhausted THEN CancelQueue(status, queue) ELSE status
           retry == [turn EXCEPT !.op = @ + 1, !.attempt = @ + 1]
<1>1. st \in Seq(Status) /\ DOMAIN st = DOMAIN status
  BY CancelQueueType DEF EngineType
<1>2. queue' = <<>> \/ queue' = queue
  BY DEF ProviderFailed
<1> HIDE DEF st
<1>3. turn \in Turns /\ turn.id \in DOMAIN st
  BY <1>1 DEF EngineType
<1>4. retry \in Turns /\ retry.id = turn.id
  <2>1. turn.op + 1 \in Nat /\ turn.attempt + 1 \in Nat
    BY <1>3 DEF Turns
  <2> QED
    BY <1>3, <2>1 DEF Turns
<1> HIDE DEF retry
<1>5. EngineType' /\ DOMAIN status' = DOMAIN st
  <2>1. CASE LaunchProvider(retry, gate, TRUE, st)
    BY <1>1, <1>3, <1>4, <2>1, LaunchProviderType
  <2>2. CASE Stop(turn, NoBatch, "Provider", "Failed", FALSE, st)
    BY <1>1, <1>3, <2>2, StopType, NullTypes DEF Outcomes
  <2> QED
    BY <2>1, <2>2 DEF ProviderFailed, st, retry
<1> QED
  BY <1>1, <1>2, <1>5, ShortQueues, QueueUnchanged

\* An accepted response keeps the types.
LEMMA AcceptUpdateType ==
  ASSUME EngineType, QueueType(queue, status), phase = "Provider",
         NEW u, AcceptUpdate(u)
  PROVE  EngineType' /\ QueueType(queue', status')
<1>1. /\ turn \in Turns /\ status \in Seq(Status)
      /\ turn.id \in DOMAIN status
  BY DEF EngineType
<1>2. NextRun(turn) \in Turns /\ NextRun(turn).id = turn.id
  BY <1>1, RunTypes
<1>3. /\ [NextRun(turn) EXCEPT !.plans = 0] \in Turns
      /\ [NextRun(turn) EXCEPT !.plans = 0].id = turn.id
      /\ [NextRun(turn) EXCEPT !.plans = @ + 1] \in Turns
      /\ [NextRun(turn) EXCEPT !.plans = @ + 1].id = turn.id
  BY <1>2 DEF Turns
<1>4. ASSUME NEW n \in 1..MaxJobs, UNCHANGED queue,
             LaunchTools([NextRun(turn) EXCEPT !.plans = 0], n, status)
      PROVE  EngineType' /\ QueueType(queue', status')
  <2>1. n \in Nat
    BY BoundsAssumption
  <2> QED
    BY <1>1, <1>3, <1>4, <2>1, LaunchToolsType, QueueUnchanged
<1>5. ASSUME NEW t \in Turns, t.id = turn.id, UNCHANGED queue,
             LaunchProvider(t, gate, TRUE, status)
      PROVE  EngineType' /\ QueueType(queue', status')
  BY <1>1, <1>5, LaunchProviderType, QueueUnchanged
<1>6. CASE /\ Stop(turn, NoBatch, "Provider", "Completed", FALSE, status)
           /\ UNCHANGED queue
  BY <1>1, <1>6, StopType, NullTypes, QueueUnchanged DEF Outcomes
<1>7. CASE ProviderFailed("Other") \/ ProviderFailed(u)
  BY <1>7, ProviderFailedType
<1> QED
  BY <1>2, <1>3, <1>4, <1>5, <1>6, <1>7 DEF AcceptUpdate

\* The provider's answer keeps the types.
LEMMA ReceiveProviderKeepsType ==
  ASSUME TypeOK, ReceiveProvider
  PROVE  TypeOK'
<1>1. EngineType /\ SessionType /\ QueueType(queue, status)
  BY TypeParts
<1>2. EngineType' /\ QueueType(queue', status')
  <2>1. CASE phase = "Provider" /\ AcceptUpdate(ForMode(Head(mailbox).what))
    BY <1>1, <2>1, AcceptUpdateType
  <2>2. CASE UNCHANGED <<engine, queue>>
    BY <1>1, <2>2, EngineUnchanged, QueueUnchanged
  <2> QED
    BY <2>1, <2>2 DEF ReceiveProvider
<1>3. mailbox' \in Seq(Messages)
  BY <1>1, DeliverType DEF ReceiveProvider
<1>4. SessionType'
  BY <1>1, <1>3 DEF ReceiveProvider, SessionType, control, asking
<1> QED
  BY <1>2, <1>4, NextTypeParts

\* What the tool handlers leave alone.
LEMMA ToolHandlerType ==
  ASSUME TypeOK, ToolHandlerUnchanged, mailbox' \in Seq(Messages),
         batch' \in Batches, turn' \in Turns, turn'.id = turn.id
  PROVE  TypeOK'
BY DEF TypeOK, ToolHandlerUnchanged, control, asking

\* Changing one entry of a batch keeps its type.
LEMMA EntryType ==
  ASSUME NEW entries \in Seq(Entries), NEW j, NEW e \in Entries
  PROVE  [entries EXCEPT ![j] = e] \in Seq(Entries)
<1>1. CASE j \in 1..Len(entries)
  BY <1>1, ExceptSeq
<1>2. CASE j \notin 1..Len(entries)
  BY <1>2, LenProperties
<1> QED
  BY <1>1, <1>2

\* A tool that starts keeps the types.
LEMMA ReceiveStartedKeepsType ==
  ASSUME TypeOK, ReceiveStarted
  PROVE  TypeOK'
<1>1. EngineType /\ SessionType
  BY TypeParts
<1>2. mailbox' \in Seq(Messages)
  BY <1>1, DeliverType DEF ReceiveStarted
<1>3. batch' \in Batches
  <2>1. batch.entries \in Seq(Entries) /\ batch \in Batches
    BY <1>1 DEF EngineType, Batches
  <2>2. [batch.entries EXCEPT ![Head(mailbox).job] = "Running"] \in Seq(Entries)
    BY <2>1, EntryType DEF Entries
  <2> QED
    BY <2>1, <2>2 DEF ReceiveStarted, Batches
<1>4. turn' \in Turns /\ turn'.id = turn.id
  BY <1>1 DEF EngineType, ReceiveStarted
<1> QED
  BY <1>2, <1>3, <1>4, ToolHandlerType DEF ReceiveStarted

\* A tool's result keeps the types.
LEMMA ReceiveCompletedKeepsType ==
  ASSUME TypeOK, NEW contextFailed \in BOOLEAN, ReceiveCompleted(contextFailed)
  PROVE  TypeOK'
<1>1. EngineType /\ SessionType
  BY TypeParts
<1>2. mailbox' \in Seq(Messages)
  BY <1>1, DeliverType DEF ReceiveCompleted
<1>3. turn \in Turns /\ batch \in Batches
  BY <1>1 DEF EngineType
<1> DEFINE m == Head(mailbox)
           failures == turn.failures + (IF m.what = "fail" THEN 1 ELSE 0)
           stop == m.what = "fatal" \/ (m.what = "fail" /\ failures >= 3)
<1>4. CASE /\ turn' = [turn EXCEPT !.failures = failures]
           /\ batch' = [entries |-> [batch.entries EXCEPT ![m.job] = "Completed"],
                        stop |-> batch.stop \/ stop \/ contextFailed]
  <2>1. turn' \in Turns /\ turn'.id = turn.id
    BY <1>3, <1>4 DEF Turns
  <2>2. [batch.entries EXCEPT ![m.job] = "Completed"] \in Seq(Entries)
    BY <1>3, EntryType DEF Batches, Entries
  <2>3. batch' \in Batches
    BY <1>4, <2>2 DEF Batches
  <2> QED
    BY <1>2, <2>1, <2>3, ToolHandlerType DEF ReceiveCompleted
<1>5. CASE UNCHANGED <<turn, batch>>
  BY <1>2, <1>3, <1>5, ToolHandlerType DEF ReceiveCompleted
<1> QED
  BY <1>4, <1>5 DEF ReceiveCompleted

\* An exchange that is recorded keeps the type of the conversation.
LEMMA RecordType ==
  ASSUME EngineType, SessionType
  PROVE  /\ Record(history, turn, batch) \in Seq(Exchanges)
         /\ FinishedHistory \in Seq(Exchanges)
<1>1. Exchange(turn, batch) \in Exchanges
  BY DEF EngineType, Exchange, Exchanges, Turns, Batches
<1>2. history \in Seq(Exchanges)
  BY DEF SessionType
<1> QED
  BY <1>1, <1>2 DEF Record, FinishedHistory

\* The end of a batch keeps the types.
LEMMA ReceiveFinishedKeepsType ==
  ASSUME TypeOK, ReceiveFinished
  PROVE  TypeOK'
<1>1. EngineType /\ SessionType /\ QueueType(queue, status)
  BY TypeParts
<1>2. /\ turn \in Turns /\ batch \in Batches /\ status \in Seq(Status)
      /\ phase = "Tools" => turn.id \in DOMAIN status
  BY <1>1 DEF EngineType
<1>3. NextRun(turn) \in Turns /\ NextRun(turn).id = turn.id
  BY <1>2, RunTypes
<1>4. EngineType' /\ DOMAIN status' = DOMAIN status
  <2>1. CASE phase = "Tools" /\ Stop(turn, batch, "Tools", "Failed", FALSE, status)
    BY <1>1, <1>2, <2>1, StopType DEF Outcomes
  <2>2. CASE phase = "Tools" /\ LaunchProvider(NextRun(turn), gate, FALSE, status)
    BY <1>1, <1>2, <1>3, <2>2, LaunchProviderType
  <2>3. CASE UNCHANGED engine
    BY <1>1, <2>3, EngineUnchanged
  <2> QED
    BY <2>1, <2>2, <2>3 DEF ReceiveFinished
<1>5. QueueType(queue', status')
  BY <1>1, <1>4, QueueUnchanged DEF ReceiveFinished
<1>6. SessionType'
  <2>1. mailbox' \in Seq(Messages)
    BY <1>1, DeliverType DEF ReceiveFinished
  <2>2. history' \in Seq(Exchanges)
    BY <1>1, RecordType DEF ReceiveFinished, SessionType
  <2> QED
    BY <1>1, <2>1, <2>2 DEF ReceiveFinished, SessionType, control, asking
<1> QED
  BY <1>4, <1>5, <1>6, NextTypeParts

\* A question that is asked keeps the types.
LEMMA ReceiveAskKeepsType ==
  ASSUME TypeOK, ReceiveAsk
  PROVE  TypeOK'
<1>1. EngineType /\ SessionType /\ QueueType(queue, status)
  BY TypeParts
<1>2. mailbox' \in Seq(Messages)
  BY <1>1, DeliverType DEF ReceiveAsk
<1>3. PICK raised \in {0, 1} :
        /\ questions' = questions + raised /\ asked' = asked + raised
        /\ \/ QuestionsChanged(GateOf(questions + raised))
           \/ UNCHANGED <<engine, gate, queue, behind>>
  BY DEF ReceiveAsk
<1>4. EngineType' /\ QueueType(queue', status') /\ gate' \in Gates
  <2>1. CASE QuestionsChanged(GateOf(questions + raised))
    BY <1>1, <2>1, GateOfType, QuestionsChangedType
  <2>2. CASE UNCHANGED <<engine, gate, queue>>
    BY <1>1, <2>2, EngineUnchanged, QueueUnchanged DEF SessionType
  <2> QED
    BY <1>3, <2>1, <2>2
<1>5. questions' \in Nat /\ asked' \in Nat
  BY <1>1, <1>3 DEF SessionType
<1>6. SessionType'
  <2>1. behind' \in BOOLEAN
    BY <1>1, <1>3 DEF SessionType, QuestionsChanged
  <2> QED
    BY <1>1, <1>2, <1>4, <1>5, <2>1 DEF ReceiveAsk, SessionType, control
<1> QED
  BY <1>4, <1>6, NextTypeParts

\* The turn after a finished one keeps the types.
LEMMA AfterTurnType ==
  ASSUME EngineType, phase = "Stopping", QueueType(queue, status),
         NEW st \in Seq(Status), DOMAIN st = DOMAIN status, AfterTurn(st)
  PROVE  EngineType' /\ QueueType(queue', status')
<1>1. QueueType(queue, st)
  BY QueueGrows
<1>2. CASE BecomeWaiting(turn.id, st) /\ UNCHANGED queue
  <2>1. turn.id \in Nat /\ turn.id \in DOMAIN st
    BY DEF EngineType, Turns
  <2> QED
    BY <1>2, <2>1, BecomeWaitingType, QueueUnchanged
<1>3. CASE /\ queue # <<>> /\ queue' = Tail(queue)
           /\ Begin(Head(queue), gate, st)
  BY <1>1, <1>3, TailType, BeginType, QueueGrows
<1>4. CASE /\ Begin(FollowUp(NewId(st), "Provider"), gate, Accept(st))
           /\ UNCHANGED queue
  <2>1. /\ Accept(st) \in Seq(Status) /\ NewId(st) \in Nat
        /\ NewId(st) \in DOMAIN Accept(st) /\ DOMAIN st \subseteq DOMAIN Accept(st)
    BY AcceptType
  <2>2. /\ FollowUp(NewId(st), "Provider") \in FollowUps
        /\ FollowUp(NewId(st), "Provider").id = NewId(st)
    BY <2>1 DEF FollowUp, FollowUps
  <2> QED
    BY <1>4, <2>1, <2>2, BeginType, QueueUnchanged
<1>5. CASE BecomeIdle(st) /\ UNCHANGED queue
  BY <1>5, BecomeIdleType, QueueUnchanged
<1> QED
  BY <1>2, <1>3, <1>4, <1>5 DEF AfterTurn

\* A clear, with the tasks of the turn it swallows, keeps the types.
LEMMA AfterClearType ==
  ASSUME EngineType, QueueType(queue, status),
         NEW st \in Seq(Status), DOMAIN st = DOMAIN status, AfterClear(st)
  PROVE  EngineType' /\ QueueType(queue', status')
<1> SUFFICES EngineType'
  BY ShortQueues DEF AfterClear
<1>1. CASE BecomeIdle(st)
  BY <1>1, BecomeIdleType
<1>2. CASE /\ queue # <<>>
           /\ phase' = "Idle" /\ turn' = NoTurn
           /\ batch' = NoBatch /\ cleanup' = NoCleanup
           /\ LET f == Head(queue)
                  t == FirstRun(f.id)
              IN  \/ /\ runs' = runs \cup {[NewRun(t) EXCEPT !.cancelled = TRUE]}
                     /\ status' = Report(st, f.id, "Running")
                     /\ UNCHANGED <<execs, cleanups>>
                  \/ /\ execs' = execs \cup {[NewExec(t, 1) EXCEPT !.cancelled = TRUE]}
                     /\ status' = Report(st, f.id, "WaitingForTools")
                     /\ UNCHANGED <<runs, cleanups>>
                  \/ /\ cleanups' = cleanups \cup {f.id}
                     /\ status' = st
                     /\ UNCHANGED <<runs, execs>>
  <2> DEFINE f == Head(queue)
             t == FirstRun(f.id)
  <2>1. f.id \in Nat /\ t \in Turns
    BY <1>2, TailType, RunTypes DEF FollowUps
  <2>2. [NewRun(t) EXCEPT !.cancelled = TRUE] \in Runs
    BY <2>1 DEF NewRun, Runs, Turns
  <2>3. [NewExec(t, 1) EXCEPT !.cancelled = TRUE] \in Execs
    <3>1. [j \in 1..1 |-> "queued"] \in Seq(Jobs)
      BY DEF Jobs
    <3> QED
      BY <2>1, <3>1 DEF NewExec, StorageFailed, Execs, Turns
  <2>4. status' \in Seq(Status)
    BY <1>2, ReportType, StatusNames
  <2>5. /\ phase' \in Phases /\ turn' \in Turns /\ batch' \in Batches
        /\ cleanup' \in Cleanups /\ phase' = "Idle"
    BY <1>2, NullTypes DEF Phases
  <2>6. runs' \subseteq Runs /\ execs' \subseteq Execs /\ cleanups' \subseteq Nat
    BY <1>2, <2>1, <2>2, <2>3 DEF EngineType
  <2> QED
    BY <2>4, <2>5, <2>6 DEF EngineType
<1> QED
  BY <1>1, <1>2 DEF AfterClear

\* The end of a turn keeps the types.
LEMMA ReceiveCleanupKeepsType ==
  ASSUME TypeOK, ReceiveCleanup
  PROVE  TypeOK'
<1>1. EngineType /\ SessionType /\ QueueType(queue, status)
  BY TypeParts
<1>2. mailbox' \in Seq(Messages)
  BY <1>1, DeliverType DEF ReceiveCleanup
<1> DEFINE st == Report(status, turn.id, cleanup.outcome)
<1>3. phase = "Stopping" => st \in Seq(Status) /\ DOMAIN st = DOMAIN status
  BY <1>1, ReportType, StatusNames DEF EngineType, Outcomes
<1> HIDE DEF st
<1>4. CASE /\ phase = "Stopping"
           /\ replies' = [replies EXCEPT ![worker] = WorkerOutcome(cleanup.outcome)]
           /\ worker' = RoleAfterTurn /\ stopSignal' = TRUE
           /\ history' = FinishedHistory
           /\ BecomeIdle(st)
           /\ UNCHANGED <<life, gate, queue, asking>>
  <2>1. EngineType' /\ QueueType(queue', status')
    BY <1>1, <1>3, <1>4, BecomeIdleType, QueueUnchanged
  <2>2. replies' \in Seq(WorkerOutcomes)
    <3>1. WorkerOutcome(cleanup.outcome) \in WorkerOutcomes
      BY <1>1, <1>4
        DEF EngineType, Outcomes, WorkerOutcome, WorkerResult, WorkerOutcomes,
            Terminal
    <3>2. CASE worker \in 1..Len(replies)
      BY <1>1, <1>4, <3>1, <3>2, ExceptSeq DEF SessionType
    <3>3. CASE worker \notin 1..Len(replies)
      BY <1>1, <1>4, <3>3, LenProperties DEF SessionType
    <3> QED
      BY <3>2, <3>3
  <2>3. worker' \in 0..Len(replies')
    BY <1>4, <2>2 DEF RoleAfterTurn
  <2>4. history' \in Seq(Exchanges)
    BY <1>1, <1>4, RecordType
  <2>5. SessionType'
    BY <1>1, <1>2, <1>4, <2>2, <2>3, <2>4 DEF SessionType, asking
  <2> QED
    BY <2>1, <2>5, NextTypeParts
<1>5. CASE /\ phase = "Stopping"
           /\ history' = FinishedHistory
           /\ AfterTurn(st)
           /\ UNCHANGED <<control, gate, worker, asking, replies>>
  <2>1. EngineType' /\ QueueType(queue', status')
    BY <1>1, <1>3, <1>5, AfterTurnType
  <2>2. history' \in Seq(Exchanges)
    BY <1>1, <1>5, RecordType
  <2>3. SessionType'
    BY <1>1, <1>2, <1>5, <2>2 DEF SessionType, control, asking
  <2> QED
    BY <2>1, <2>3, NextTypeParts
<1>6. CASE /\ phase = "Stopping"
           /\ AfterClear(st)
           /\ UNCHANGED <<control, replies>>
  <2>1. EngineType' /\ QueueType(queue', status')
    BY <1>1, <1>3, <1>6, AfterClearType
  <2>2. SessionType'
    <3>1. /\ gate' = "Open" /\ worker' = 0 /\ questions' = 0 /\ history' = <<>>
          /\ asked' = asked /\ persistence' \in {"Ready", "Failed"}
          /\ behind' \in BOOLEAN
      BY <1>6 DEF AfterClear, Cleared, FreshSession
    <3> QED
      BY <1>1, <1>2, <1>6, <3>1 DEF SessionType, control, Gates
  <2> QED
    BY <2>1, <2>2, NextTypeParts
<1>7. CASE /\ phase = "Stopping"
           /\ ClearFails
           /\ history' = FinishedHistory
           /\ AfterTurn(st)
           /\ UNCHANGED <<control, gate, worker, replies>>
  <2>1. EngineType' /\ QueueType(queue', status')
    BY <1>1, <1>3, <1>7, AfterTurnType
  <2>2. history' \in Seq(Exchanges)
    BY <1>1, <1>7, RecordType
  <2>3. SessionType'
    BY <1>1, <1>2, <1>7, <2>2 DEF SessionType, control, ClearFails
  <2> QED
    BY <2>1, <2>3, NextTypeParts
<1>8. CASE UNCHANGED <<stopSignal, engine, gate, queue, worker, asking,
                       replies, history>>
  <2>1. EngineType' /\ QueueType(queue', status')
    BY <1>1, <1>8, EngineUnchanged, QueueUnchanged
  <2>2. life' \in Lives
    BY <1>1 DEF ReceiveCleanup, control, SessionType, Lives
  <2>3. SessionType'
    BY <1>1, <1>2, <1>8, <2>2 DEF SessionType, asking
  <2> QED
    BY <2>1, <2>3, NextTypeParts
<1> QED
  BY <1>4, <1>5, <1>6, <1>7, <1>8 DEF ReceiveCleanup, control, st

-----------------------------------------------------------------------------
(* The end of the actor and the tasks                                      *)

\* Shutting down keeps the types.
LEMMA ShutdownKeepsType ==
  ASSUME TypeOK, Shutdown
  PROVE  TypeOK'
<1>1. EngineType /\ SessionType /\ QueueType(queue, status)
  BY TypeParts
<1>2. runs' \subseteq Runs /\ execs' \subseteq Execs
  BY <1>1, CancelType DEF Shutdown, EngineType
<1>3. /\ phase' \in Phases /\ turn' \in Turns /\ batch' \in Batches
      /\ cleanup' \in Cleanups
      /\ phase' = "Idle" \/ (turn' = turn /\ phase # "Idle")
      /\ phase' = "Stopping" => cleanup'.outcome \in Outcomes
  <2>1. CASE /\ phase \in {"Provider", "Tools"} /\ phase' = "Stopping"
             /\ cleanup' = [work |-> phase, outcome |-> "Cancelled",
                            clear |-> FALSE]
             /\ UNCHANGED <<turn, batch>>
    <3>1. cleanup' \in Cleanups /\ cleanup'.outcome \in Outcomes
      BY <2>1 DEF Cleanups, Outcomes
    <3> QED
      BY <1>1, <2>1, <3>1 DEF EngineType, Phases
  <2>2. CASE phase = "Stopping" /\ UNCHANGED <<phase, turn, batch, cleanup>>
    BY <1>1, <2>2 DEF EngineType
  <2>3. CASE /\ phase' = "Idle" /\ turn' = NoTurn
             /\ UNCHANGED <<batch, cleanup>>
    BY <1>1, <2>3, NullTypes DEF EngineType, Phases
  <2> QED
    BY <2>1, <2>2, <2>3 DEF Shutdown
<1>4. UNCHANGED <<stopSignal, gate, queue, worker, asking, cleanups, mailbox,
                  status, replies, history>> /\ life' \in Lives
  BY DEF Shutdown, Lives
<1>5. EngineType'
  BY <1>1, <1>2, <1>3, <1>4 DEF EngineType
<1>6. SessionType'
  BY <1>1, <1>4 DEF SessionType, asking
<1>7. QueueType(queue', status')
  BY <1>1, <1>4, QueueUnchanged
<1> QED
  BY <1>5, <1>6, <1>7, NextTypeParts

\* The end of the actor keeps the types.
LEMMA ShutdownFinishedKeepsType ==
  ASSUME TypeOK, ShutdownFinished
  PROVE  TypeOK'
<1>1. EngineType /\ SessionType
  BY TypeParts
<1> DEFINE st == CancelQueue(status, queue)
<1>2. st \in Seq(Status) /\ Report(st, turn.id, "Cancelled") \in Seq(Status)
  BY <1>1, CancelQueueType, ReportType, StatusNames DEF EngineType
<1>3. status' \in Seq(Status) /\ history' \in Seq(Exchanges)
  BY <1>1, <1>2, RecordType DEF ShutdownFinished, SessionType
<1>4. replies' \in Seq(WorkerOutcomes)
  <2>1. WorkerResult("Stopped") \in WorkerOutcomes
    BY DEF WorkerOutcomes, WorkerResult, Terminal
  <2>2. replies \in Seq(WorkerOutcomes) /\ worker \in 0..Len(replies)
    BY <1>1 DEF SessionType
  <2>3. CASE worker = 0
    BY <2>2, <2>3 DEF ShutdownFinished, AnswerRequest
  <2>4. CASE worker # 0
    BY <2>1, <2>2, <2>4, ExceptSeq DEF ShutdownFinished, AnswerRequest
  <2> QED
    BY <2>3, <2>4
<1>5. EngineType'
  BY <1>1, <1>3, NullTypes DEF ShutdownFinished, EngineType, Phases
<1>6. SessionType'
  BY <1>1, <1>3, <1>4 DEF ShutdownFinished, SessionType, asking, Lives
<1>7. QueueType(queue', status')
  BY ShortQueues DEF ShutdownFinished
<1> QED
  BY <1>5, <1>6, <1>7, NextTypeParts

\* A step of the tasks keeps the types if what it changes is typed.
LEMMA TaskType ==
  ASSUME TypeOK, TaskUnchanged,
         runs' \subseteq Runs, execs' \subseteq Execs, cleanups' \subseteq Nat,
         mailbox' \in Seq(Messages)
  PROVE  TypeOK'
BY DEF TypeOK, TaskUnchanged, control, asking

\* A message of a task is a message of the mailbox.
LEMMA SendType ==
  ASSUME SessionType, NEW m \in Messages, Send(m)
  PROVE  mailbox' \in Seq(Messages)
BY DEF SessionType, Send

\* What a provider task does keeps the types.
LEMMA ProviderStepKeepsType ==
  ASSUME TypeOK, NEW r \in runs,
         \/ \E u \in Updates, early \in BOOLEAN : ProviderSend(r, u, early)
         \/ ProviderLate(r)
         \/ ProviderCancelled(r)
  PROVE  TypeOK'
<1>1. EngineType /\ SessionType
  BY TypeParts
<1>2. /\ r \in Runs /\ runs \subseteq Runs /\ execs \subseteq Execs
      /\ cleanups \subseteq Nat
  BY <1>1 DEF EngineType
<1>3. \A u \in Updates : Message("Provider", r, 0, u) \in Messages
  BY <1>2 DEF Message, Messages, Runs
<1>4. ASSUME NEW u \in Updates, NEW early \in BOOLEAN, ProviderSend(r, u, early)
      PROVE  TypeOK'
  <2>1. [r EXCEPT !.state = "unread"] \in Runs
    BY <1>2 DEF Runs
  <2>2. runs' \subseteq Runs
    BY <1>2, <1>4, <2>1 DEF ProviderSend
  <2>3. mailbox' \in Seq(Messages)
    BY <1>1, <1>3, <1>4, SendType DEF ProviderSend
  <2> QED
    BY <1>2, <1>4, <2>2, <2>3, TaskType DEF ProviderSend
<1>5. CASE ProviderLate(r)
  <2>1. "Transport" \in Updates
    BY DEF Updates, Failures
  <2>2. mailbox' \in Seq(Messages)
    BY <1>1, <1>3, <1>5, <2>1, SendType DEF ProviderLate
  <2> QED
    BY <1>2, <1>5, <2>2, TaskType DEF ProviderLate
<1>6. CASE ProviderCancelled(r)
  <2>1. mailbox' \in Seq(Messages)
    BY <1>1, <1>6 DEF ProviderCancelled, SessionType
  <2> QED
    BY <1>2, <1>6, <2>1, TaskType DEF ProviderCancelled
<1> QED
  BY <1>4, <1>5, <1>6

\* Changing one job of an executor keeps its type.
LEMMA JobType ==
  ASSUME NEW e \in Execs, NEW j \in DOMAIN e.jobs, NEW s \in Jobs
  PROVE  /\ [e EXCEPT !.jobs[j] = s] \in Execs
         /\ \A h \in BOOLEAN : [e EXCEPT !.jobs[j] = s, !.halted = h] \in Execs
<1>1. e.jobs \in Seq(Jobs) /\ j \in 1..Len(e.jobs)
  BY LenProperties DEF Execs
<1>2. [e.jobs EXCEPT ![j] = s] \in Seq(Jobs)
  BY <1>1, ExceptSeq
<1> QED
  BY <1>2 DEF Execs

\* What a tool executor does keeps the types.
LEMMA ExecutorStepKeepsType ==
  ASSUME TypeOK, NEW e \in execs,
         \/ ExecSchedule(e)
         \/ \E j \in DOMAIN e.jobs :
              \/ ToolStart(e, j)
              \/ ToolAsk(e, j)
              \/ \E result \in Results : ToolDone(e, j, result)
         \/ \E how \in {"ok", "panicked"} : ExecFinish(e, how)
  PROVE  TypeOK'
<1>1. EngineType /\ SessionType
  BY TypeParts
<1>2. /\ e \in Execs /\ runs \subseteq Runs /\ execs \subseteq Execs
      /\ cleanups \subseteq Nat
  BY <1>1 DEF EngineType
<1>3. \A new \in Execs : Change(e, new) => execs' \subseteq Execs
  BY <1>2 DEF Change
<1>4. \A j \in DOMAIN e.jobs : j \in Nat
  BY <1>2, LenProperties DEF Execs
<1>5. CASE ExecSchedule(e)
  <2>1. mailbox' \in Seq(Messages)
    BY <1>1, <1>5 DEF ExecSchedule, SessionType
  <2>2. PICK last \in In(e, {"queued"}) :
          Change(e, [e EXCEPT !.jobs =
            [j \in DOMAIN @ |-> IF @[j] = "queued" /\ j <= last THEN "scheduled"
                                                                ELSE @[j]]])
    BY <1>5 DEF ExecSchedule
  <2> DEFINE jobs == [j \in DOMAIN e.jobs |->
                        IF e.jobs[j] = "queued" /\ j <= last THEN "scheduled"
                                                             ELSE e.jobs[j]]
  <2>3. jobs \in Seq(Jobs)
    BY <1>2 DEF Execs, Jobs
  <2>4. [e EXCEPT !.jobs = jobs] \in Execs
    BY <1>2, <2>3 DEF Execs
  <2>5. execs' \subseteq Execs
    BY <1>3, <2>2, <2>4
  <2> QED
    BY <1>2, <1>5, <2>1, <2>5, TaskType DEF ExecSchedule
<1>6. ASSUME NEW j \in DOMAIN e.jobs,
             \/ ToolStart(e, j)
             \/ ToolAsk(e, j)
             \/ \E result \in Results : ToolDone(e, j, result)
      PROVE  TypeOK'
  <2>1. \A s \in Jobs, h \in BOOLEAN :
           /\ [e EXCEPT !.jobs[j] = s] \in Execs
           /\ [e EXCEPT !.jobs[j] = s, !.halted = h] \in Execs
    BY <1>2, <1>6, JobType
  <2>2. \A kind \in {"Started", "Completed", "Ask"}, what \in Results :
           Message(kind, e, j, what) \in Messages
    BY <1>2, <1>4, <1>6 DEF Message, Messages, Execs
  <2>3. CASE ToolStart(e, j)
    <3>1. mailbox' \in Seq(Messages)
      BY <1>1, <2>2, <2>3, SendType DEF ToolStart, Results
    <3>2. execs' \subseteq Execs
      BY <1>3, <2>1, <2>3 DEF ToolStart, Jobs
    <3> QED
      BY <1>2, <2>3, <3>1, <3>2, TaskType DEF ToolStart
  <2>4. CASE ToolAsk(e, j)
    <3>1. mailbox' \in Seq(Messages)
      BY <1>1, <2>2, <2>4, SendType DEF ToolAsk, Results
    <3>2. execs' \subseteq Execs
      BY <1>3, <2>1, <2>4 DEF ToolAsk, Jobs
    <3> QED
      BY <1>2, <2>4, <3>1, <3>2, TaskType DEF ToolAsk
  <2>5. ASSUME NEW result \in Results, ToolDone(e, j, result)
        PROVE  TypeOK'
    <3>1. mailbox' \in Seq(Messages)
      BY <1>1, <2>2, <2>5, SendType DEF ToolDone
    <3>2. (e.halted \/ result = "fatal") \in BOOLEAN
      OBVIOUS
    <3>3. execs' \subseteq Execs
      BY <1>3, <2>1, <2>5, <3>2 DEF ToolDone, Jobs
    <3> QED
      BY <1>2, <2>5, <3>1, <3>3, TaskType DEF ToolDone
  <2> QED
    BY <1>6, <2>3, <2>4, <2>5
<1>7. ASSUME NEW how \in {"ok", "panicked"}, ExecFinish(e, how)
      PROVE  TypeOK'
  <2>1. Message("Finished", e, 0, how) \in Messages
    BY <1>2 DEF Message, Messages, Execs, Results
  <2>2. mailbox' \in Seq(Messages)
    BY <1>1, <1>7, <2>1, SendType DEF ExecFinish
  <2>3. [e EXCEPT !.live = FALSE] \in Execs
    BY <1>2 DEF Execs
  <2>4. execs' \subseteq Execs
    BY <1>3, <1>7, <2>3 DEF ExecFinish
  <2> QED
    BY <1>2, <1>7, <2>2, <2>4, TaskType DEF ExecFinish
<1> QED
  BY <1>5, <1>6, <1>7

\* The end of a cleanup keeps the types.
LEMMA CleanupDoneKeepsType ==
  ASSUME TypeOK, NEW id \in cleanups, CleanupDone(id)
  PROVE  TypeOK'
<1>1. EngineType /\ SessionType
  BY TypeParts
<1>2. Message("Cleanup", [turn |-> id, op |-> 0], 0, "ok") \in Messages
  BY <1>1 DEF EngineType, Message, Messages, Results
<1>3. mailbox' \in Seq(Messages)
  BY <1>1, <1>2, SendType DEF CleanupDone
<1> QED
  BY <1>1, <1>3, TaskType DEF CleanupDone, EngineType

-----------------------------------------------------------------------------
(* Type correctness                                                        *)

\* The session starts well typed.
LEMMA InitType == Init => TypeOK
<1> SUFFICES ASSUME Init PROVE TypeOK
  OBVIOUS
<1>1. EngineType
  BY NullTypes DEF Init, EngineType, Phases
<1>2. worker \in 0..Len(replies)
  BY DEF Init
<1>3. SessionType
  <2>1. /\ mailbox \in Seq(Messages) /\ replies \in Seq(WorkerOutcomes)
        /\ history \in Seq(Exchanges)
    BY EmptySeq DEF Init
  <2>2. /\ life \in Lives /\ stopSignal \in BOOLEAN /\ gate \in Gates
        /\ questions \in Nat /\ asked \in Nat
        /\ persistence \in {"Ready", "Failed"} /\ behind \in BOOLEAN
    BY DEF Init, Lives, Gates
  <2> QED
    BY <1>2, <2>1, <2>2 DEF SessionType
<1>4. QueueType(queue, status)
  BY ShortQueues DEF Init
<1> QED
  BY <1>1, <1>3, <1>4, TypeParts

\* Every step keeps the types.
LEMMA NextType == TypeOK /\ [Next]_vars => TypeOK'
<1> SUFFICES ASSUME TypeOK, [Next]_vars
             PROVE  TypeOK'
  OBVIOUS
<1>1. CASE Commands
  BY <1>1, StartKeepsType, SteerKeepsType, InterruptKeepsType, ClearKeepsType,
     NewSessionKeepsType, ResumeKeepsType, StartWorkerKeepsType,
     StopRequestedKeepsType, StopActorKeepsType
     DEF Commands
<1>2. CASE Answer
  BY <1>2, AnswerKeepsType
<1>3. CASE Handlers
  BY <1>3, ReceiveProviderKeepsType, ReceiveStartedKeepsType,
     ReceiveCompletedKeepsType, ReceiveFinishedKeepsType, ReceiveAskKeepsType,
     ReceiveCleanupKeepsType, ShutdownKeepsType, ShutdownFinishedKeepsType
     DEF Handlers
<1>4. CASE Tasks
  BY <1>4, ProviderStepKeepsType, ExecutorStepKeepsType, CleanupDoneKeepsType
     DEF Tasks
<1>5. CASE StorageFails
  BY <1>5 DEF StorageFails, engine, control, TypeOK
<1>6. CASE UNCHANGED vars
  BY <1>6 DEF vars, TypeOK
<1> QED
  BY <1>1, <1>2, <1>3, <1>4, <1>5, <1>6 DEF Next, Terminated

\* In every state of every execution the variables have their types, the turns
\* in the engine and in the queue were accepted, and a stopping turn has an
\* outcome to report: no handler reports a turn that the session never took.
THEOREM TypeCorrect == Spec => []TypeOK
BY InitType, NextType, PTL DEF Spec

-----------------------------------------------------------------------------
(* Follow-ups, questions and requests                                      *)

\* What the queue, the phase and the gate know of each other.
QuestionInv ==
  /\ NoOrphanedFollowUps
  /\ WaitingNeedsGate
  /\ GateNeedsQuestion
  /\ QuestionClosesGate

\* The gate agrees with the questions, or was left behind by a failed change.
Mirrors ==
  /\ gate = "Required" => questions > 0
  /\ questions > 0 => gate = "Required" \/ behind

\* A session with a worker role has a turn, so that the role never outlives
\* the turn in a handler that replaces the machine (Clear, New, Resume).
WorkerIsAtWork == Active /\ worker # 0 => ~IsIdle

WorkerInv == PendingRequestIsOwned /\ WorkerIsAtWork

\* The session has a turn and no clear is pending.
Works == ~IsIdle /\ ~ClearPending

-----------------------------------------------------------------------------
(* The transitions that give the session a turn                            *)

\* A turn that is stopped without a clear.
LEMMA StopWorks ==
  ASSUME NEW t, NEW b, NEW work, NEW outcome, NEW st,
         Stop(t, b, work, outcome, FALSE, st)
  PROVE  Works'
BY DEF Stop, Works, IsIdle, ClearPending

\* A request.
LEMMA LaunchProviderWorks ==
  ASSUME NEW t, NEW g, NEW previous, NEW st, LaunchProvider(t, g, previous, st)
  PROVE  Works'
BY StopWorks DEF LaunchProvider, Works, IsIdle, ClearPending

\* A tool batch.
LEMMA LaunchToolsWorks ==
  ASSUME NEW t, NEW n, NEW st, LaunchTools(t, n, st)
  PROVE  Works'
BY DEF LaunchTools, Works, IsIdle, ClearPending

\* A turn that begins.
LEMMA BeginWorks ==
  ASSUME NEW f, NEW g, NEW st, Begin(f, g, st)
  PROVE  Works'
BY StopWorks, LaunchProviderWorks, LaunchToolsWorks DEF Begin

\* A response, or the failure of a request.
LEMMA AcceptUpdateWorks ==
  ASSUME NEW u, AcceptUpdate(u)
  PROVE  Works'
<1>1. ASSUME NEW failure, ProviderFailed(failure)
      PROVE  Works'
  BY <1>1, StopWorks, LaunchProviderWorks DEF ProviderFailed
<1>2. ASSUME NEW n, LaunchTools([NextRun(turn) EXCEPT !.plans = 0], n, status)
      PROVE  Works'
  BY <1>2, LaunchToolsWorks
<1> QED
  BY <1>1, <1>2, StopWorks, LaunchProviderWorks DEF AcceptUpdate

\* An interrupt leaves the session idle, or stopping with what was decided
\* about the history, and the queue empty.
LEMMA InterruptPhase ==
  ASSUME TypeOK, NEW clear \in BOOLEAN, InterruptEngine(clear)
  PROVE  /\ queue' = <<>>
         /\ phase' = IF IsIdle THEN "Idle" ELSE "Stopping"
         /\ ClearPending' <=> ClearPending \/ (clear /\ ~IsIdle)
<1>1. queue' = <<>>
  BY DEF InterruptEngine, DrainQueue
<1>2. phase \in Phases /\ cleanup \in Cleanups
  BY DEF TypeOK
<1>3. CASE IsIdle
  BY <1>1, <1>3 DEF InterruptEngine, IsIdle, BecomeIdle, ClearPending
<1>4. CASE phase \in {"Provider", "Tools"}
  BY <1>1, <1>4 DEF InterruptEngine, IsIdle, Stop, ClearPending
<1>5. CASE phase = "Stopping"
  <2>1. /\ phase' = "Stopping"
        /\ cleanup' = [cleanup EXCEPT
             !.outcome = IF @ = "WaitingForInput" THEN "Cancelled" ELSE @,
             !.clear = Disposition(@, clear)]
    BY <1>5 DEF InterruptEngine, IsIdle
  <2>2. cleanup'.clear = Disposition(cleanup.clear, clear)
    BY <1>2, <2>1 DEF Cleanups
  <2> QED
    BY <1>1, <1>5, <2>1, <2>2 DEF IsIdle, ClearPending, Disposition
<1> QED
  BY <1>2, <1>3, <1>4, <1>5 DEF Phases, IsIdle

-----------------------------------------------------------------------------
(* Follow-ups and questions                                                *)

\* A session at work is safe if its gate agrees with the questions.
LEMMA WorksIsSafe ==
  ASSUME Works', Mirrors'
  PROVE  QuestionInv'
BY DEF Works, QuestionInv, NoOrphanedFollowUps, WaitingNeedsGate,
       GateNeedsQuestion, QuestionClosesGate, Mirrors, IsIdle

\* A session that takes no more handlers has nothing to keep.
LEMMA InactiveIsSafe ==
  ASSUME ~Active'
  PROVE  QuestionInv'
BY DEF QuestionInv, NoOrphanedFollowUps, WaitingNeedsGate,
       GateNeedsQuestion, QuestionClosesGate, Mirrors

\* A step that changes none of the variables involved.
LEMMA UninvolvedIsSafe ==
  ASSUME QuestionInv, Active' => Active,
         UNCHANGED <<phase, cleanup, gate, queue, questions, behind>>
  PROVE  QuestionInv'
BY DEF QuestionInv, NoOrphanedFollowUps, WaitingNeedsGate,
       GateNeedsQuestion, QuestionClosesGate, Mirrors, ClearPending

\* The gate that the questions call for is the one they are mirrored by.
LEMMA GateOfMirrors ==
  \A n \in Nat : /\ GateOf(n) = "Required" <=> n > 0
                 /\ GateOf(n) = "Open" <=> n = 0
BY DEF GateOf

\* Input.
LEMMA StartIsSafe ==
  ASSUME TypeOK, QuestionInv, NEW kind, Start(kind)
  PROVE  QuestionInv'
<1>1. UNCHANGED <<life, stopSignal, gate, questions, behind>> /\ Active /\ Active'
  BY DEF Start, MayInput, control, asking, Active
<1>2. CASE phase = "Idle"
  <2>1. Mirrors'
    BY <1>1, <1>2 DEF QuestionInv, GateNeedsQuestion, QuestionClosesGate, Mirrors, ClearPending
  <2>2. CASE gate = "Open"
    BY <1>2, <2>1, <2>2, BeginWorks, WorksIsSafe DEF Start
  <2>3. CASE gate = "Required"
    <3>1. phase' = "Waiting"
      BY <1>2, <2>3 DEF Start, BecomeWaiting
    <3> QED
      BY <1>1, <2>1, <2>3, <3>1
        DEF QuestionInv, NoOrphanedFollowUps, WaitingNeedsGate,
            GateNeedsQuestion, QuestionClosesGate, Mirrors
  <2> QED
    BY <1>2, <2>2, <2>3 DEF Start
<1>3. CASE phase # "Idle"
  <2>1. UNCHANGED <<phase, cleanup>>
    BY <1>3 DEF Start
  <2> QED
    BY <1>1, <1>3, <2>1
      DEF QuestionInv, NoOrphanedFollowUps, WaitingNeedsGate,
          GateNeedsQuestion, QuestionClosesGate, Mirrors, ClearPending
<1> QED
  BY <1>2, <1>3

\* Steering.
LEMMA SteerIsSafe ==
  ASSUME TypeOK, QuestionInv, Steer
  PROVE  QuestionInv'
<1>1. UNCHANGED <<life, stopSignal, gate, questions, behind>> /\ Active /\ Active'
  BY DEF Steer, MayInput, control, asking, Active
<1>2. ~ClearPending => Mirrors'
  BY <1>1 DEF QuestionInv, GateNeedsQuestion, QuestionClosesGate, Mirrors
<1>3. CASE IsIdle
  <2>1. ~ClearPending
    BY <1>3 DEF IsIdle, ClearPending
  <2>2. CASE phase' = "Waiting" /\ gate = "Required"
    BY <1>1, <1>2, <2>1, <2>2
      DEF QuestionInv, NoOrphanedFollowUps, WaitingNeedsGate,
          GateNeedsQuestion, QuestionClosesGate, Mirrors
  <2>3. CASE Works'
    BY <1>2, <2>1, <2>3, WorksIsSafe
  <2> QED
    BY <1>3, <2>2, <2>3, BeginWorks DEF Steer, IsIdle, BecomeWaiting
<1>4. CASE phase \in {"Provider", "Tools"}
  <2>1. Works'
    BY <1>4, StopWorks DEF Steer
  <2>2. ~ClearPending
    BY <1>4 DEF ClearPending
  <2> QED
    BY <1>2, <2>1, <2>2, WorksIsSafe
<1>5. CASE phase = "Stopping"
  <2>1. phase' = phase
    BY <1>5 DEF Steer
  <2>2. cleanup'.clear = cleanup.clear
    BY <1>5 DEF Steer, TypeOK, Cleanups
  <2> QED
    BY <1>1, <1>2, <1>5, <2>1, <2>2
      DEF QuestionInv, NoOrphanedFollowUps, WaitingNeedsGate,
          GateNeedsQuestion, QuestionClosesGate, Mirrors, ClearPending
<1> QED
  BY <1>3, <1>4, <1>5 DEF TypeOK, Phases, IsIdle

\* An interrupt that retains the history.
LEMMA InterruptIsSafe ==
  ASSUME TypeOK, QuestionInv, Interrupt
  PROVE  QuestionInv'
<1>1. UNCHANGED <<life, stopSignal, gate, questions, behind>> /\ Active /\ Active'
  BY DEF Interrupt, control, asking, Active
<1>2. /\ queue' = <<>> /\ phase' \in {"Idle", "Stopping"}
      /\ ClearPending' <=> ClearPending
  BY InterruptPhase DEF Interrupt
<1> QED
  BY <1>1, <1>2
    DEF QuestionInv, NoOrphanedFollowUps, WaitingNeedsGate,
        GateNeedsQuestion, QuestionClosesGate, Mirrors

\* A clear: carried out at once, or pending.
LEMMA ClearIsSafe ==
  ASSUME TypeOK, QuestionInv, Clear
  PROVE  QuestionInv'
<1>1. /\ queue' = <<>> /\ phase' \in {"Idle", "Stopping"}
      /\ ~IsIdle => ClearPending'
  BY InterruptPhase DEF Clear
<1>2. gate' = "Open" /\ (IsIdle => questions' = 0 \/ behind')
  BY DEF Clear, Cleared, FreshSession, ClearFails
<1> QED
  BY <1>1, <1>2
    DEF QuestionInv, NoOrphanedFollowUps, WaitingNeedsGate,
        GateNeedsQuestion, QuestionClosesGate, Mirrors

\* Another session.
LEMMA NewSessionIsSafe ==
  ASSUME TypeOK, QuestionInv, NewSession
  PROVE  QuestionInv'
<1>1. /\ queue' = <<>> /\ phase' \in {"Idle", "Stopping"}
  BY InterruptPhase DEF NewSession
<1>2. CASE gate' = "Open" /\ questions' = 0
  BY <1>1, <1>2
    DEF QuestionInv, NoOrphanedFollowUps, WaitingNeedsGate,
        GateNeedsQuestion, QuestionClosesGate
<1>3. CASE UNCHANGED <<life, stopSignal, gate, asking>>
  BY <1>1, <1>3
    DEF QuestionInv, NoOrphanedFollowUps, WaitingNeedsGate, GateNeedsQuestion,
        QuestionClosesGate, ClearPending, NewSession, IsIdle, Active, asking
<1> QED
  BY <1>2, <1>3 DEF NewSession, FreshSession, control

\* A resumed session, whose questions decide its gate.
LEMMA ResumeIsSafe ==
  ASSUME TypeOK, QuestionInv, NEW restored \in 0..MaxQuestions, Resume(restored)
  PROVE  QuestionInv'
<1>1. /\ queue' = <<>> /\ phase' = "Idle"
      /\ questions' = restored
      /\ gate' = GateOf(restored) \/ (gate' = "Open" /\ behind')
  BY DEF Resume, BecomeIdle
<1>2. restored \in Nat
  BY BoundsAssumption
<1> QED
  BY <1>1, <1>2, GateOfMirrors
    DEF QuestionInv, NoOrphanedFollowUps, WaitingNeedsGate,
        GateNeedsQuestion, QuestionClosesGate, Mirrors

\* The questions change and the machine is told: what the gate held back is
\* taken up, and what it holds back goes on waiting.
LEMMA QuestionsChangedIsSafe ==
  ASSUME TypeOK, QuestionInv, Active,
         questions' \in Nat, QuestionsChanged(GateOf(questions'))
  PROVE  QuestionInv'
<1>1. /\ gate' = GateOf(questions')
      /\ gate' = "Required" <=> questions' > 0
      /\ gate' \in Gates
      /\ Mirrors'
  BY GateOfMirrors, GateOfType DEF QuestionsChanged, Mirrors
<1>2. CASE Wakes(GateOf(questions'))
  <2>1. Works'
    BY <1>2, BeginWorks DEF QuestionsChanged
  <2> QED
    BY <1>1, <2>1, WorksIsSafe
<1>3. CASE ~Wakes(GateOf(questions'))
  <2>1. UNCHANGED <<phase, cleanup, queue>>
    BY <1>3 DEF QuestionsChanged, engine
  <2>2. IsIdle /\ gate' = "Open" => gate = "Open"
    BY <1>1, <1>3 DEF Wakes, TypeOK, Gates
  <2>3. phase = "Waiting" => gate = "Required"
    BY DEF QuestionInv, WaitingNeedsGate
  <2>4. NoOrphanedFollowUps'
    BY <2>1, <2>2 DEF NoOrphanedFollowUps, QuestionInv, IsIdle
  <2>5. WaitingNeedsGate'
    BY <1>1, <2>1, <2>2, <2>3 DEF WaitingNeedsGate, IsIdle, Gates
  <2>6. GateNeedsQuestion' /\ QuestionClosesGate'
    BY <1>1 DEF GateNeedsQuestion, QuestionClosesGate
  <2> QED
    BY <2>4, <2>5, <2>6 DEF QuestionInv
<1> QED
  BY <1>2, <1>3

\* An answer.
LEMMA AnswerIsSafe ==
  ASSUME TypeOK, QuestionInv, Answer
  PROVE  QuestionInv'
<1>1. CASE life = "Running"
  <2>1. Active /\ questions' \in Nat /\ QuestionsChanged(GateOf(questions'))
    BY <1>1 DEF Answer, Active, Handling, TypeOK
  <2> QED
    BY <2>1, QuestionsChangedIsSafe
<1>2. CASE life # "Running"
  <2>1. ~Active'
    BY <1>2 DEF Answer, Active, control
  <2> QED
    BY <2>1, InactiveIsSafe
<1> QED
  BY <1>1, <1>2

\* A question that is asked.
LEMMA ReceiveAskIsSafe ==
  ASSUME TypeOK, QuestionInv, ReceiveAsk
  PROVE  QuestionInv'
<1>1. CASE life = "Running"
  <2>1. Active
    BY <1>1 DEF ReceiveAsk, Deliver, Active, Handling
  <2>2. questions' \in Nat /\ QuestionsChanged(GateOf(questions'))
    BY <1>1 DEF ReceiveAsk, TypeOK
  <2> QED
    BY <2>1, <2>2, QuestionsChangedIsSafe
<1>2. CASE life # "Running"
  <2>1. ~Active'
    BY <1>2 DEF ReceiveAsk, Active, control
  <2> QED
    BY <2>1, InactiveIsSafe
<1> QED
  BY <1>1, <1>2

\* A worker's request.
LEMMA StartWorkerIsSafe ==
  ASSUME TypeOK, QuestionInv, StartWorker
  PROVE  QuestionInv'
<1>1. UNCHANGED <<life, stopSignal, gate, queue, questions, behind>>
  BY DEF StartWorker, control, asking
<1>2. CASE life = "Running" /\ phase = "Idle" /\ worker = 0
  <2>1. Works'
    BY <1>2, BeginWorks DEF StartWorker
  <2>2. Mirrors'
    BY <1>1, <1>2 DEF StartWorker, Handling, Active, QuestionInv,
                      GateNeedsQuestion, QuestionClosesGate, Mirrors, ClearPending
  <2> QED
    BY <2>1, <2>2, WorksIsSafe
<1>3. CASE ~(life = "Running" /\ phase = "Idle" /\ worker = 0)
  <2>1. UNCHANGED <<phase, cleanup>>
    BY <1>3 DEF StartWorker, engine
  <2> QED
    BY <1>1, <2>1, UninvolvedIsSafe DEF Active
<1> QED
  BY <1>2, <1>3

\* The answer of the provider.
LEMMA ReceiveProviderIsSafe ==
  ASSUME TypeOK, QuestionInv, ReceiveProvider
  PROVE  QuestionInv'
<1>1. UNCHANGED <<life, stopSignal, gate, questions, behind>>
  BY DEF ReceiveProvider, control, asking
<1>2. CASE phase = "Provider" /\ life = "Running"
           /\ AcceptUpdate(ForMode(Head(mailbox).what))
  <2>1. Mirrors'
    BY <1>1, <1>2 DEF ReceiveProvider, Deliver, Handling, Active, QuestionInv,
                      GateNeedsQuestion, QuestionClosesGate, Mirrors, ClearPending
  <2> QED
    BY <1>2, <2>1, AcceptUpdateWorks, WorksIsSafe
<1>3. CASE UNCHANGED <<engine, queue>>
  BY <1>1, <1>3, UninvolvedIsSafe DEF engine, Active
<1> QED
  BY <1>2, <1>3 DEF ReceiveProvider

\* The start and the result of a tool.
LEMMA ToolEventIsSafe ==
  ASSUME TypeOK, QuestionInv, ToolHandlerUnchanged
  PROVE  QuestionInv'
BY UninvolvedIsSafe DEF ToolHandlerUnchanged, control, asking, Active

\* The end of a batch.
LEMMA ReceiveFinishedIsSafe ==
  ASSUME TypeOK, QuestionInv, ReceiveFinished
  PROVE  QuestionInv'
<1>1. UNCHANGED <<life, stopSignal, gate, queue, questions, behind>>
  BY DEF ReceiveFinished, control, asking
<1>2. CASE Works' /\ phase = "Tools"
  <2>1. Active' => Mirrors'
    BY <1>1, <1>2 DEF Active, QuestionInv, GateNeedsQuestion, QuestionClosesGate, Mirrors, ClearPending
  <2> QED
    BY <1>2, <2>1, WorksIsSafe, InactiveIsSafe
<1>3. CASE UNCHANGED engine
  BY <1>1, <1>3, UninvolvedIsSafe DEF engine, Active
<1> QED
  BY <1>2, <1>3, StopWorks, LaunchProviderWorks DEF ReceiveFinished

\* The end of a turn: the next one begins, waits for its answer, or there is
\* none.
LEMMA ReceiveCleanupIsSafe ==
  ASSUME TypeOK, QuestionInv, ReceiveCleanup
  PROVE  QuestionInv'
<1> DEFINE st == Report(status, turn.id, cleanup.outcome)
<1>1. CASE stopSignal' = TRUE
  BY <1>1, InactiveIsSafe DEF Active
<1>2. CASE /\ ~cleanup.clear /\ AfterTurn(st)
           /\ UNCHANGED <<control, gate, asking>>
  <2>1. Active' => Mirrors'
    BY <1>2 DEF Active, QuestionInv, GateNeedsQuestion, QuestionClosesGate, Mirrors, ClearPending,
                control, asking
  <2>2. CASE Works'
    BY <2>1, <2>2, WorksIsSafe, InactiveIsSafe
  <2>3. CASE phase' = "Waiting" /\ gate' = "Required"
    BY <2>1, <2>3 DEF QuestionInv, NoOrphanedFollowUps, WaitingNeedsGate,
                      GateNeedsQuestion, QuestionClosesGate, Mirrors
  <2>4. CASE phase' = "Idle" /\ (gate' = "Required" \/ queue' = <<>>)
    BY <2>1, <2>4 DEF QuestionInv, NoOrphanedFollowUps, WaitingNeedsGate,
                      GateNeedsQuestion, QuestionClosesGate, Mirrors
  <2> QED
    BY <1>2, <2>2, <2>3, <2>4, BeginWorks
      DEF AfterTurn, BecomeWaiting, BecomeIdle, control
<1>3. CASE AfterClear(st)
  <2>1. queue' = <<>> /\ gate' = "Open" /\ questions' = 0 /\ phase' = "Idle"
    BY <1>3 DEF AfterClear, Cleared, FreshSession, BecomeIdle
  <2> QED
    BY <2>1 DEF QuestionInv, NoOrphanedFollowUps, WaitingNeedsGate,
                GateNeedsQuestion, QuestionClosesGate, Mirrors
<1>4. CASE ClearFails /\ AfterTurn(st) /\ UNCHANGED <<control, gate, worker>>
  <2>1. Active' => Mirrors'
    BY <1>4 DEF Active, QuestionInv, GateNeedsQuestion, Mirrors, ClearFails,
                control
  <2>2. CASE Works'
    BY <2>1, <2>2, WorksIsSafe, InactiveIsSafe
  <2>3. CASE phase' = "Waiting" /\ gate' = "Required"
    BY <2>1, <2>3 DEF QuestionInv, NoOrphanedFollowUps, WaitingNeedsGate,
                      GateNeedsQuestion, QuestionClosesGate, Mirrors
  <2>4. CASE phase' = "Idle" /\ (gate' = "Required" \/ queue' = <<>>)
    BY <2>1, <2>4 DEF QuestionInv, NoOrphanedFollowUps, WaitingNeedsGate,
                      GateNeedsQuestion, QuestionClosesGate, Mirrors
  <2> QED
    BY <1>4, <2>2, <2>3, <2>4, BeginWorks
      DEF AfterTurn, BecomeWaiting, BecomeIdle, control
<1>5. CASE life' = "ShuttingDown"
  BY <1>5, InactiveIsSafe DEF Active
<1>6. CASE UNCHANGED <<control, engine, gate, queue, worker, asking>>
  BY <1>6, UninvolvedIsSafe DEF control, engine, asking, Active
<1> QED
  BY <1>1, <1>2, <1>3, <1>4, <1>5, <1>6 DEF ReceiveCleanup

\* The end of the actor.
LEMMA EndIsSafe ==
  ASSUME QuestionInv, StopRequested \/ StopActor \/ Shutdown \/ ShutdownFinished
  PROVE  QuestionInv'
<1>1. ~Active'
  BY DEF StopRequested, StopActor, Shutdown, ShutdownFinished, Active
<1> QED
  BY <1>1, InactiveIsSafe

\* What the tasks leave alone.
LEMMA TaskUninvolved == Tasks => TaskUnchanged
BY DEF Tasks, ProviderSend, ProviderLate, ProviderCancelled, ExecSchedule,
       ToolStart, ToolAsk, ToolDone, ExecFinish, CleanupDone

\* Every step keeps the invariant of the questions.
LEMMA QuestionStep == TypeOK /\ QuestionInv /\ [Next]_vars => QuestionInv'
<1> SUFFICES ASSUME TypeOK, QuestionInv, [Next]_vars
             PROVE  QuestionInv'
  OBVIOUS
<1>1. CASE Commands
  BY <1>1, StartIsSafe, SteerIsSafe, InterruptIsSafe, ClearIsSafe,
     NewSessionIsSafe, ResumeIsSafe, StartWorkerIsSafe, EndIsSafe
     DEF Commands
<1>2. CASE Answer
  BY <1>2, AnswerIsSafe
<1>3. CASE Handlers
  <2>1. ASSUME ReceiveStarted \/ \E c \in BOOLEAN : ReceiveCompleted(c)
        PROVE  QuestionInv'
    BY <2>1, ToolEventIsSafe DEF ReceiveStarted, ReceiveCompleted
  <2> QED
    BY <1>3, <2>1, ReceiveProviderIsSafe, ReceiveFinishedIsSafe,
       ReceiveAskIsSafe, ReceiveCleanupIsSafe, EndIsSafe
       DEF Handlers
<1>4. CASE Tasks
  BY <1>4, TaskUninvolved, UninvolvedIsSafe
     DEF TaskUnchanged, control, asking, Active
<1>5. CASE StorageFails
  BY <1>5, UninvolvedIsSafe DEF StorageFails, engine, control, Active
<1>6. CASE UNCHANGED vars
  BY <1>6, UninvolvedIsSafe DEF vars, Active
<1> QED
  BY <1>1, <1>2, <1>3, <1>4, <1>5, <1>6 DEF Next, Terminated

\* Both parts of the invariant hold in every execution.
LEMMA QuestionsStaySafe == Spec => []QuestionInv
<1>1. Init => QuestionInv
  BY DEF Init, QuestionInv, NoOrphanedFollowUps, WaitingNeedsGate,
         GateNeedsQuestion, QuestionClosesGate, Mirrors
<1> QED
  BY <1>1, QuestionStep, TypeCorrect, PTL DEF Spec

\* In every execution, whatever the bounds, an idle session with an open gate
\* has no follow-up left in its queue.
THEOREM FollowUpsAreTakenUp == Spec => []NoOrphanedFollowUps
<1>1. QuestionInv => NoOrphanedFollowUps
  BY DEF QuestionInv
<1> QED
  BY <1>1, QuestionsStaySafe, PTL

\* In every execution a turn waits only while a required question is
\* unanswered, whose answer the gate still waits for; and a required question
\* closes the gate unless a clear is about to withdraw it, or a clear or an
\* activation has failed since the gate was last synchronised.
THEOREM QuestionsAreSafe == Spec => []QuestionsAgree
<1>1. QuestionInv => QuestionsAgree
  BY DEF QuestionInv, QuestionsAgree
<1> QED
  BY <1>1, QuestionsStaySafe, PTL

-----------------------------------------------------------------------------
(* Requests of worker sessions                                             *)

\* A step that answers no request keeps the invariant if the session stays at
\* work while it has the role.
LEMMA WorkerUninvolved ==
  ASSUME WorkerInv, UNCHANGED <<worker, replies>>,
         life' = "Stopped" <=> life = "Stopped",
         Active' /\ worker # 0 => ~IsIdle'
  PROVE  WorkerInv'
BY DEF WorkerInv, PendingRequestIsOwned, WorkerIsAtWork

\* Input and interrupts leave the role alone, and what an idle session gives
\* up it does not hold.
LEMMA CommandKeepsWorker ==
  ASSUME TypeOK, WorkerInv,
         \/ \E kind \in Starts : Start(kind)
         \/ Steer \/ Interrupt \/ Clear \/ NewSession
         \/ \E restored \in 0..MaxQuestions : Resume(restored)
  PROVE  WorkerInv'
<1>1. Active /\ UNCHANGED <<life, stopSignal, replies>>
  BY DEF Start, Steer, MayInput, Interrupt, Clear, NewSession, Resume, control
<1>2. IsIdle => worker = 0
  BY <1>1 DEF WorkerInv, WorkerIsAtWork
<1>3. worker' = worker
  BY <1>2 DEF Start, Steer, Interrupt, Clear, NewSession, Resume, Cleared,
              FreshSession
<1>4. ASSUME ~IsIdle PROVE ~IsIdle'
  <2>1. CASE \E kind \in Starts : Start(kind)
    BY <1>4, <2>1 DEF Start, IsIdle
  <2>2. CASE Steer
    BY <1>4, <2>2, StopWorks DEF Steer, IsIdle, Works
  <2>3. CASE Interrupt \/ Clear \/ NewSession
    BY <1>4, <2>3, InterruptPhase DEF Interrupt, Clear, NewSession, IsIdle
  <2>4. CASE \E restored \in 0..MaxQuestions : Resume(restored)
    BY <1>4, <2>4 DEF Resume
  <2> QED
    BY <2>1, <2>2, <2>3, <2>4
<1> QED
  BY <1>1, <1>2, <1>3, <1>4, WorkerUninvolved

\* Questions that change can only give the session a turn.
LEMMA QuestionsKeepWorker ==
  ASSUME WorkerInv, Answer \/ ReceiveAsk
  PROVE  WorkerInv'
<1>1. UNCHANGED <<life, stopSignal, worker, replies>>
  BY DEF Answer, ReceiveAsk, control
<1>2. ASSUME NEW g, QuestionsChanged(g), ~IsIdle
      PROVE  ~IsIdle'
  BY <1>2 DEF QuestionsChanged, Wakes, engine, IsIdle
<1>3. ~IsIdle => ~IsIdle'
  BY <1>2 DEF Answer, ReceiveAsk, engine, IsIdle
<1> QED
  BY <1>1, <1>3, WorkerUninvolved DEF Active, WorkerInv, WorkerIsAtWork

\* A request is accepted with a turn, or answered at once.
LEMMA StartWorkerKeepsWorker ==
  ASSUME TypeOK, WorkerInv, StartWorker
  PROVE  WorkerInv'
<1>1. /\ replies \in Seq(WorkerOutcomes) /\ worker \in 0..Len(replies)
      /\ life # "Stopped" /\ UNCHANGED <<life, stopSignal>>
  BY DEF TypeOK, StartWorker, Handling, control
<1>2. \A o : LET new == Append(replies, o)
             IN  /\ DOMAIN new = 1..(Len(replies) + 1)
                 /\ \A i \in 1..Len(replies) : new[i] = replies[i]
                 /\ new[Len(replies) + 1] = o
  BY <1>1
<1>3. DOMAIN replies = 1..Len(replies)
  BY <1>1
<1>4. CASE phase = "Idle" /\ worker = 0 /\ life = "Running"
  <2>1. replies' = Append(replies, "Pending") /\ worker' = Len(replies) + 1
    BY <1>4 DEF StartWorker
  <2>2. \A i \in 1..Len(replies) : replies[i] # "Pending"
    BY <1>3, <1>4 DEF WorkerInv, PendingRequestIsOwned
  <2>3. PendingRequestIsOwned'
    BY <1>1, <1>2, <2>1, <2>2 DEF PendingRequestIsOwned
  <2>4. Works'
    BY <1>4, BeginWorks DEF StartWorker
  <2> QED
    BY <2>3, <2>4 DEF WorkerInv, WorkerIsAtWork, Works
<1>5. CASE ~(life = "Running" /\ phase = "Idle" /\ worker = 0)
  <2>1. /\ UNCHANGED <<engine, worker>>
        /\ \E o \in {"AlreadyRunning", "Stopped", "Failed"} :
             replies' = Append(replies, o)
    BY <1>5 DEF StartWorker, WorkerResult
  <2>2. PendingRequestIsOwned'
    BY <1>1, <1>2, <1>3, <2>1 DEF WorkerInv, PendingRequestIsOwned
  <2>3. WorkerIsAtWork'
    BY <1>1, <2>1 DEF WorkerInv, WorkerIsAtWork, Active, engine, IsIdle
  <2> QED
    BY <2>2, <2>3 DEF WorkerInv
<1> QED
  BY <1>4, <1>5

\* The answer of the provider, the events of the tools and the steps of the
\* tasks leave the session at work.
LEMMA WorkKeepsWorker ==
  ASSUME WorkerInv,
         \/ ReceiveProvider \/ ReceiveStarted
         \/ \E c \in BOOLEAN : ReceiveCompleted(c)
         \/ ReceiveFinished \/ Tasks
  PROVE  WorkerInv'
<1>1. UNCHANGED <<life, stopSignal, worker, replies>>
  BY TaskUninvolved
    DEF ReceiveProvider, ReceiveStarted, ReceiveCompleted, ReceiveFinished,
        ToolHandlerUnchanged, TaskUnchanged, control
<1>2. ~IsIdle => ~IsIdle'
  BY TaskUninvolved, AcceptUpdateWorks, StopWorks, LaunchProviderWorks
    DEF ReceiveProvider, ReceiveStarted, ReceiveCompleted, ReceiveFinished,
        ToolHandlerUnchanged, TaskUnchanged, Works, engine, IsIdle
<1> QED
  BY <1>1, <1>2, WorkerUninvolved DEF Active, WorkerInv, WorkerIsAtWork

\* The turn of a worker answers its request and gives up the role; any other
\* turn ends in a session without the role.
LEMMA ReceiveCleanupKeepsWorker ==
  ASSUME TypeOK, WorkerInv, ReceiveCleanup
  PROVE  WorkerInv'
<1>1. /\ replies \in Seq(WorkerOutcomes) /\ worker \in 0..Len(replies)
      /\ life # "Stopped" /\ DOMAIN replies = 1..Len(replies)
  BY DEF TypeOK, ReceiveCleanup, Deliver, Handling
<1>2. CASE /\ phase = "Stopping" /\ life = "Running" /\ worker # 0
           /\ replies' = [replies EXCEPT ![worker] = WorkerOutcome(cleanup.outcome)]
           /\ worker' = RoleAfterTurn /\ UNCHANGED life
  <2>1. WorkerOutcome(cleanup.outcome) # "Pending"
    BY <1>2 DEF TypeOK, Outcomes, WorkerOutcome, WorkerResult
  <2>2. worker' = 0 /\ DOMAIN replies' = DOMAIN replies
    BY <1>2 DEF RoleAfterTurn
  <2>3. \A i \in DOMAIN replies' : replies'[i] # "Pending"
    BY <1>1, <1>2, <2>1, <2>2 DEF WorkerInv, PendingRequestIsOwned
  <2>4. \A i \in DOMAIN replies' : worker' # i
    BY <1>1, <2>2
  <2> QED
    BY <2>2, <2>3, <2>4 DEF WorkerInv, PendingRequestIsOwned, WorkerIsAtWork
<1>3. CASE /\ worker = 0 /\ worker' = 0 /\ UNCHANGED <<life, replies>>
  BY <1>3, WorkerUninvolved
<1>4. CASE /\ life = "Closing" /\ life' = "ShuttingDown"
           /\ UNCHANGED <<worker, replies>>
  BY <1>4, WorkerUninvolved DEF Active
<1>5. CASE UNCHANGED <<control, engine, worker, replies>>
  BY <1>5, WorkerUninvolved
    DEF control, engine, Active, IsIdle, WorkerInv, WorkerIsAtWork
<1> QED
  BY <1>2, <1>3, <1>4, <1>5
    DEF ReceiveCleanup, AfterClear, Cleared, FreshSession, control

\* The end of the actor answers what is still unanswered.
LEMMA EndKeepsWorker ==
  ASSUME TypeOK, WorkerInv,
         StopRequested \/ StopActor \/ Shutdown \/ ShutdownFinished
  PROVE  WorkerInv'
<1>1. CASE StopRequested \/ StopActor \/ Shutdown
  <2>1. /\ UNCHANGED <<worker, replies>> /\ ~Active'
        /\ life # "Stopped" /\ life' # "Stopped"
    BY <1>1 DEF StopRequested, StopActor, Shutdown, Handling, Active
  <2> QED
    BY <2>1, WorkerUninvolved
<1>2. CASE ShutdownFinished
  <2>1. /\ worker' = 0 /\ life' = "Stopped" /\ life # "Stopped" /\ ~Active'
        /\ replies' = AnswerRequest(replies)
        /\ worker \in 0..Len(replies) /\ DOMAIN replies = 1..Len(replies)
    BY <1>2 DEF ShutdownFinished, Active, TypeOK
  <2>2. DOMAIN replies' = DOMAIN replies
    BY <2>1 DEF AnswerRequest
  <2>3. \A i \in DOMAIN replies' : replies'[i] # "Pending"
    BY <2>1, <2>2 DEF AnswerRequest, WorkerResult, WorkerInv, PendingRequestIsOwned
  <2> QED
    BY <2>1, <2>3 DEF WorkerInv, PendingRequestIsOwned, WorkerIsAtWork
<1> QED
  BY <1>1, <1>2

\* Every step keeps the invariant of the workers.
LEMMA WorkerStep == TypeOK /\ WorkerInv /\ [Next]_vars => WorkerInv'
<1> SUFFICES ASSUME TypeOK, WorkerInv, [Next]_vars
             PROVE  WorkerInv'
  OBVIOUS
<1>1. CASE Commands
  BY <1>1, CommandKeepsWorker, StartWorkerKeepsWorker, EndKeepsWorker
     DEF Commands
<1>2. CASE Answer
  BY <1>2, QuestionsKeepWorker
<1>3. CASE Handlers
  BY <1>3, WorkKeepsWorker, QuestionsKeepWorker, ReceiveCleanupKeepsWorker,
     EndKeepsWorker
     DEF Handlers
<1>4. CASE Tasks
  BY <1>4, WorkKeepsWorker
<1>5. CASE StorageFails
  BY <1>5 DEF StorageFails, engine, control, WorkerInv, PendingRequestIsOwned,
              WorkerIsAtWork, Active, IsIdle
<1>6. CASE UNCHANGED vars
  BY <1>6 DEF vars, WorkerInv, PendingRequestIsOwned, WorkerIsAtWork, Active,
              IsIdle
<1> QED
  BY <1>1, <1>2, <1>3, <1>4, <1>5, <1>6 DEF Next, Terminated

\* The session starts without a request.
LEMMA WorkerInit == Init => WorkerInv
BY DEF Init, WorkerInv, PendingRequestIsOwned, WorkerIsAtWork

\* A request of a parent is unanswered exactly while the session holds the
\* role it gave it and has not stopped: no handler drops the reply channel
\* without an outcome, and none answers a request twice.
THEOREM RequestsAreOwned == Spec => []PendingRequestIsOwned
<1>1. WorkerInv => PendingRequestIsOwned
  BY DEF WorkerInv
<1> QED
  BY <1>1, WorkerInit, WorkerStep, TypeCorrect, PTL DEF Spec

\* Only the request that the session holds is ever answered.
LEMMA AnswersArePending ==
  ASSUME TypeOK, WorkerInv, [Next]_vars
  PROVE  \A i \in DOMAIN replies : replies[i] # "Pending" => replies'[i] = replies[i]
<1>1. replies \in Seq(WorkerOutcomes) /\ DOMAIN replies = 1..Len(replies)
  BY DEF TypeOK
<1>2. CASE UNCHANGED replies
  BY <1>2
<1>3. CASE \E o : replies' = Append(replies, o)
  BY <1>1, <1>3
<1>4. CASE /\ life # "Stopped"
           /\ \E o : replies' = [replies EXCEPT ![worker] = o]
  BY <1>4 DEF WorkerInv, PendingRequestIsOwned
<1>5. [Next]_vars =>
        \/ UNCHANGED replies
        \/ \E o : replies' = Append(replies, o)
        \/ life # "Stopped" /\ \E o : replies' = [replies EXCEPT ![worker] = o]
  <2>1. CASE Commands
    BY <2>1 DEF Commands, Start, Steer, Interrupt, Clear, NewSession, Resume,
                StartWorker, StopRequested, StopActor
  <2>2. CASE Answer
    BY <2>2 DEF Answer
  <2>3. CASE Handlers
    BY <2>3 DEF Handlers, ReceiveProvider, ReceiveStarted, ReceiveCompleted,
                ReceiveFinished, ReceiveAsk, ReceiveCleanup, Shutdown,
                ShutdownFinished, ToolHandlerUnchanged, AnswerRequest,
                Deliver, Handling
  <2>4. CASE Tasks
    BY <2>4, TaskUninvolved DEF TaskUnchanged
  <2>5. CASE UNCHANGED vars
    BY <2>5 DEF vars
  <2>6. CASE StorageFails
    BY <2>6 DEF StorageFails
  <2> QED
    BY <2>1, <2>2, <2>3, <2>4, <2>5, <2>6 DEF Next, Terminated
<1> QED
  BY <1>2, <1>3, <1>4, <1>5

\* The outcome of a request is decided once, in every execution.
THEOREM OutcomesAreFinal == Spec => RepliesAreFinal
<1>1. TypeOK /\ WorkerInv /\ [Next]_vars =>
        [\A i \in DOMAIN replies :
           replies[i] # "Pending" => replies'[i] = replies[i]]_vars
  BY AnswersArePending
<1>2. Spec => []WorkerInv
  BY WorkerInit, WorkerStep, TypeCorrect, PTL DEF Spec
<1> QED
  BY <1>1, <1>2, TypeCorrect, PTL DEF Spec, RepliesAreFinal

-----------------------------------------------------------------------------
(* Who owns tasks and turns.                                               *)
(*                                                                         *)
(* A turn begins once and an operation of it begins once, so a message     *)
(* names one task. The messages that make the machine go on come from a    *)
(* task that has ended, so what runs is what the machine waits for, or is  *)
(* cancelled (TaskInv). A turn ends when its cleanup has waited for its    *)
(* tasks, so nothing of it runs beside the next turn (LoneInv), unless     *)
(* input comes while a clear is pending: the last two theorems exclude     *)
(* that, and run lost_turn shows what happens then. A turn whose last      *)
(* report promises a later one is the turn at work or in the queue         *)
(* (OwnInv).  The executors of a turn say what becomes of its jobs before  *)
(* they say that they have ended, so the batch that is recorded then says  *)
(* the same (TellInv).                                                     *)

-----------------------------------------------------------------------------
(* The tasks of turns                                                      *)

AtWork == phase \in {"Provider", "Tools", "Stopping"}
Mail == {mailbox[i] : i \in DOMAIN mailbox}
Ids(q) == {q[k].id : k \in DOMAIN q}
OneEach(q) == \A k, l \in DOMAIN q : q[k].id = q[l].id => k = l
Same(x, y) == x.turn = y.turn /\ x.op = y.op
Distinct(tasks) == \A x, y \in tasks : Same(x, y) => x = y

\* A turn is begun once: what has a task or a message is not queued.
Begun(id) ==
  \/ \E r \in runs : r.turn = id
  \/ \E e \in execs : e.turn = id
  \/ \E m \in Mail : m.turn = id
  \/ id \in cleanups
NamesAreNew ==
  /\ \A id : Begun(id) => id \in DOMAIN status /\ id \notin Ids(queue)
  /\ OneEach(queue)
  /\ AtWork => turn.id \notin Ids(queue)

\* An operation is begun once.
TagsAreNew ==
  /\ AtWork => /\ \A r \in runs : r.turn = turn.id => r.op <= turn.op
               /\ \A e \in execs : e.turn = turn.id => e.op <= turn.op
               /\ \A m \in Mail : m.turn = turn.id => m.op <= turn.op
  /\ Distinct(runs) /\ Distinct(execs)

\* A response with tool calls, and the end of an executor, are reported by a
\* task that has ended.
ReportsAreLate ==
  /\ \A m \in Mail, r \in runs :
       m.kind = "Provider" /\ m.what = "Tools" /\ Same(m, r) => r.cancelled
  /\ \A m \in Mail, e \in execs : m.kind = "Finished" /\ Same(m, e) => ~e.live

TaskInv == NamesAreNew /\ TagsAreNew /\ ReportsAreLate /\ NoUnownedWork

\* What a handler takes from the mailbox, and how the queue may change: it
\* gets only turns that were just accepted.
MailShrinks == Mail' \subseteq Mail
QueueMoves ==
  /\ DOMAIN status \subseteq DOMAIN status'
  /\ Ids(queue') \subseteq Ids(queue) \cup (DOMAIN status' \ DOMAIN status)
  /\ OneEach(queue')

\* The turns that a handler may begin, or go on with.
MayBegin(id) == id \in DOMAIN status' /\ id \notin Ids(queue') /\ ~Begun(id)
Between == phase \notin {"Provider", "Tools"}

-----------------------------------------------------------------------------
(* Queues, mailboxes and sets of tasks                                     *)

\* Taking the head of a queue leaves its other turns, once each.
LEMMA TailMoves ==
  ASSUME NEW S, NEW q \in Seq(S), q # <<>>, OneEach(q)
  PROVE  /\ Head(q).id \in Ids(q) /\ Head(q).id \notin Ids(Tail(q))
         /\ Ids(Tail(q)) \subseteq Ids(q) /\ OneEach(Tail(q))
<1>1. /\ Len(q) \in Nat \ {0} /\ DOMAIN q = 1..Len(q) /\ Head(q) = q[1]
      /\ DOMAIN Tail(q) = 1..(Len(q) - 1)
      /\ \A k \in 1..(Len(q) - 1) : Tail(q)[k] = q[k + 1] /\ k + 1 \in DOMAIN q
  OBVIOUS
<1>2. 1 \in DOMAIN q
  BY <1>1
<1>3. Head(q).id \notin Ids(Tail(q))
  <2>1. SUFFICES ASSUME NEW k \in DOMAIN Tail(q), Tail(q)[k].id = Head(q).id PROVE FALSE
    BY DEF Ids
  <2>2. q[k + 1].id = q[1].id /\ k + 1 \in DOMAIN q /\ k + 1 # 1
    BY <1>1, <2>1
  <2> QED BY <1>2, <2>2 DEF OneEach
<1>4. OneEach(Tail(q))
  <2>1. SUFFICES ASSUME NEW k \in DOMAIN Tail(q), NEW l \in DOMAIN Tail(q),
                        Tail(q)[k].id = Tail(q)[l].id
                 PROVE  k = l
    BY DEF OneEach
  <2>2. /\ q[k + 1].id = q[l + 1].id /\ k + 1 \in DOMAIN q /\ l + 1 \in DOMAIN q
        /\ k \in Nat /\ l \in Nat
    BY <1>1, <2>1
  <2>3. k + 1 = l + 1
    BY <2>2 DEF OneEach
  <2> QED BY <2>2, <2>3
<1> QED BY <1>1, <1>2, <1>3, <1>4 DEF Ids

\* Appending a follow-up adds its turn, once.
LEMMA EnqueueMoves ==
  ASSUME NEW S, NEW q \in Seq(S), NEW f \in S, OneEach(q), f.id \notin Ids(q)
  PROVE  Ids(Enqueue(q, f)) = Ids(q) \cup {f.id} /\ OneEach(Enqueue(q, f))
<1> DEFINE p == Enqueue(q, f)
<1>1. /\ Len(q) \in Nat /\ DOMAIN q = 1..Len(q) /\ DOMAIN p = 1..(Len(q) + 1)
      /\ p[Len(q) + 1] = f /\ \A k \in 1..Len(q) : p[k] = q[k]
  BY DEF Enqueue
<1> HIDE DEF p
<1>2. \A k \in DOMAIN p : k \in DOMAIN q \/ (k = Len(q) + 1 /\ k \notin DOMAIN q)
  BY <1>1
<1>3. Len(q) + 1 \in DOMAIN p /\ DOMAIN q \subseteq DOMAIN p
  BY <1>1
<1>4. Ids(p) = Ids(q) \cup {f.id}
  BY <1>1, <1>2, <1>3 DEF Ids
<1>5. \A k \in DOMAIN q : q[k].id # f.id
  BY DEF Ids
<1>6. OneEach(p)
  BY <1>1, <1>2, <1>5 DEF OneEach
<1> QED BY <1>4, <1>6 DEF p

\* The turns of the short queues.
LEMMA ShortMoves ==
  /\ Ids(<<>>) = {} /\ OneEach(<<>>)
  /\ \A f : Ids(<<f>>) = {f.id} /\ OneEach(<<f>>)
<1>1. Ids(<<>>) = {} /\ OneEach(<<>>)
  BY DEF Ids, OneEach
<1>2. ASSUME NEW f PROVE Ids(<<f>>) = {f.id} /\ OneEach(<<f>>)
  <2>1. DOMAIN <<f>> = {1} /\ <<f>>[1] = f
    OBVIOUS
  <2> QED BY <2>1 DEF Ids, OneEach
<1> QED BY <1>1, <1>2

\* What is in the mailbox after a delivery and after a message.
LEMMA MailMoves ==
  ASSUME TypeOK
  PROVE  /\ Mail \subseteq Messages
         /\ mailbox # <<>> => Head(mailbox) \in Mail
         /\ mailbox' = mailbox => Mail' = Mail
         /\ mailbox # <<>> /\ mailbox' = Tail(mailbox) => Mail' \subseteq Mail
         /\ \A m \in Messages : Send(m) => Mail' = Mail \cup {m}
<1>1. mailbox \in Seq(Messages)
  BY DEF TypeOK
<1>2. Mail \subseteq Messages
  BY <1>1 DEF Mail
<1>3. mailbox # <<>> => Head(mailbox) \in Mail
  <2>1. mailbox # <<>> => Head(mailbox) = mailbox[1] /\ 1 \in DOMAIN mailbox
    BY <1>1
  <2> QED BY <2>1 DEF Mail
<1>4. mailbox # <<>> /\ mailbox' = Tail(mailbox) => Mail' \subseteq Mail
  <2>1. SUFFICES ASSUME mailbox # <<>>, mailbox' = Tail(mailbox), NEW i \in DOMAIN mailbox'
                 PROVE  mailbox'[i] \in Mail
    BY DEF Mail
  <2>2. mailbox'[i] = mailbox[i + 1] /\ i + 1 \in DOMAIN mailbox
    BY <1>1, <2>1
  <2> QED BY <2>2 DEF Mail
<1>5. ASSUME NEW m \in Messages, Send(m) PROVE Mail' = Mail \cup {m}
  <2>1. /\ Len(mailbox) \in Nat /\ DOMAIN mailbox = 1..Len(mailbox)
        /\ DOMAIN mailbox' = 1..(Len(mailbox) + 1)
        /\ mailbox'[Len(mailbox) + 1] = m
        /\ \A i \in 1..Len(mailbox) : mailbox'[i] = mailbox[i]
    BY <1>1, <1>5 DEF Send
  <2>2. \A i \in DOMAIN mailbox' : i \in DOMAIN mailbox \/ i = Len(mailbox) + 1
    BY <2>1
  <2>3. Len(mailbox) + 1 \in DOMAIN mailbox' /\ DOMAIN mailbox \subseteq DOMAIN mailbox'
    BY <2>1
  <2> QED BY <2>1, <2>2, <2>3 DEF Mail
<1> QED BY <1>2, <1>3, <1>4, <1>5 DEF Mail

\* A cancelled task is the same task, cancelled.
Cancels(new, old, id) ==
  /\ new.turn = old.turn /\ new.op = old.op
  /\ new.cancelled <=> old.cancelled \/ old.turn = id

\* Cancelling a turn changes its tasks and no others.
LEMMA CancelMoves ==
  ASSUME TypeOK, NEW id
  PROVE  /\ \A r \in CancelTurn(runs, id) : \E o \in runs : Cancels(r, o, id)
         /\ \A e \in CancelTurn(execs, id) : \E o \in execs :
              Cancels(e, o, id) /\ e.live = o.live
         /\ Distinct(runs) => Distinct(CancelTurn(runs, id))
         /\ Distinct(execs) => Distinct(CancelTurn(execs, id))
<1> DEFINE C(x) == IF x.turn = id THEN [x EXCEPT !.cancelled = TRUE] ELSE x
<1>1. ASSUME NEW r \in runs PROVE Cancels(C(r), r, id)
  <2>1. r \in Runs
    BY DEF TypeOK
  <2> QED BY <2>1 DEF Runs, Cancels
<1>2. ASSUME NEW e \in execs PROVE Cancels(C(e), e, id) /\ C(e).live = e.live
  <2>1. e \in Execs
    BY DEF TypeOK
  <2> QED BY <2>1 DEF Execs, Cancels
<1>3. CancelTurn(runs, id) = {C(r) : r \in runs} /\ CancelTurn(execs, id) = {C(e) : e \in execs}
  BY DEF CancelTurn
<1> HIDE DEF C
<1>4. ASSUME Distinct(runs) PROVE Distinct(CancelTurn(runs, id))
  <2>1. SUFFICES ASSUME NEW x \in runs, NEW y \in runs, Same(C(x), C(y)) PROVE C(x) = C(y)
    BY <1>3 DEF Distinct
  <2>2. Same(x, y)
    BY <1>1, <2>1 DEF Same, Cancels
  <2> QED BY <1>4, <2>2 DEF Distinct
<1>5. ASSUME Distinct(execs) PROVE Distinct(CancelTurn(execs, id))
  <2>1. SUFFICES ASSUME NEW x \in execs, NEW y \in execs, Same(C(x), C(y)) PROVE C(x) = C(y)
    BY <1>3 DEF Distinct
  <2>2. Same(x, y)
    BY <1>2, <2>1 DEF Same, Cancels
  <2> QED BY <1>5, <2>2 DEF Distinct
<1> QED BY <1>1, <1>2, <1>3, <1>4, <1>5
-----------------------------------------------------------------------------
(* Steps of the machine.  The tasks there were remain or are cancelled,    *)
(* and one operation may be added, of a turn that begins or of the next    *)
(* tag of the turn at work.                                                *)

RunsFade(R) ==
  /\ Distinct(R)
  /\ \A r \in R : \E o \in runs : Same(r, o) /\ (o.cancelled => r.cancelled)
ExecsFade(E) ==
  /\ Distinct(E)
  /\ \A e \in E : \E o \in execs :
       Same(e, o) /\ (e.live => o.live) /\ (o.cancelled => e.cancelled)

\* The tasks there are fade, cancelled or not.
LEMMA TasksFade ==
  ASSUME TypeOK, TaskInv
  PROVE  /\ RunsFade(runs) /\ ExecsFade(execs)
         /\ \A id : RunsFade(CancelTurn(runs, id)) /\ ExecsFade(CancelTurn(execs, id))
         /\ RunsFade(CancelAll(runs)) /\ ExecsFade(CancelAll(execs))
         /\ \A r \in CancelAll(runs) : r.cancelled
         /\ \A e \in CancelAll(execs) : e.cancelled
<1>1. Distinct(runs) /\ Distinct(execs)
  BY DEF TaskInv, TagsAreNew
<1>2. RunsFade(runs) /\ ExecsFade(execs)
  BY <1>1 DEF RunsFade, ExecsFade, Same
<1>3. ASSUME NEW id PROVE RunsFade(CancelTurn(runs, id)) /\ ExecsFade(CancelTurn(execs, id))
  BY <1>1, CancelMoves DEF RunsFade, ExecsFade, Same, Cancels
<1> DEFINE C(x) == [x EXCEPT !.cancelled = TRUE]
<1>4. ASSUME NEW r \in runs PROVE Same(C(r), r) /\ C(r).cancelled
  <2>1. r \in Runs
    BY DEF TypeOK
  <2> QED BY <2>1 DEF Runs, Same
<1>5. ASSUME NEW e \in execs PROVE Same(C(e), e) /\ C(e).cancelled /\ C(e).live = e.live
  <2>1. e \in Execs
    BY DEF TypeOK
  <2> QED BY <2>1 DEF Execs, Same
<1>6. CancelAll(runs) = {C(r) : r \in runs} /\ CancelAll(execs) = {C(e) : e \in execs}
  BY DEF CancelAll
<1> HIDE DEF C
<1>7. Distinct(CancelAll(runs))
  <2>1. SUFFICES ASSUME NEW x \in runs, NEW y \in runs, Same(C(x), C(y)) PROVE C(x) = C(y)
    BY <1>6 DEF Distinct
  <2>2. Same(x, y)
    BY <1>4, <2>1 DEF Same
  <2> QED BY <1>1, <2>2 DEF Distinct
<1>8. Distinct(CancelAll(execs))
  <2>1. SUFFICES ASSUME NEW x \in execs, NEW y \in execs, Same(C(x), C(y)) PROVE C(x) = C(y)
    BY <1>6 DEF Distinct
  <2>2. Same(x, y)
    BY <1>5, <2>1 DEF Same
  <2> QED BY <1>1, <2>2 DEF Distinct
<1> QED BY <1>2, <1>3, <1>4, <1>5, <1>6, <1>7, <1>8 DEF RunsFade, ExecsFade

\* What has begun stays out of the queue.
LEMMA NamesStayNew ==
  ASSUME TypeOK, TaskInv, QueueMoves, NEW id, Begun(id) \/ (AtWork /\ id = turn.id)
  PROVE  id \in DOMAIN status' /\ id \notin Ids(queue')
<1>1. id \in DOMAIN status /\ id \notin Ids(queue)
  BY DEF TaskInv, NamesAreNew, AtWork, TypeOK
<1> QED BY <1>1 DEF QueueMoves

\* The operation that a step adds, if any, is new.
Continues(id, op, adds) ==
  \/ MayBegin(id)
  \/ AtWork /\ id = turn.id /\ (op > turn.op \/ (op = turn.op /\ ~adds))

\* A step that adds at most the next operation of one turn keeps the tasks apart.
LEMMA StepKeepsTasks ==
  ASSUME TypeOK, TaskInv, QueueMoves, MailShrinks, NoUnownedWork',
         NEW id, NEW op \in Nat, NEW R, NEW E, RunsFade(R), ExecsFade(E),
         NEW r0, r0.turn = id, r0.op = op, NEW e0, e0.turn = id, e0.op = op,
         runs' \in {R, R \cup {r0}}, execs' \in {E, E \cup {e0}},
         cleanups' \in {cleanups, cleanups \cup {id}},
         \/ Continues(id, op, runs' # R \/ execs' # E) /\ (AtWork' => turn'.id = id /\ turn'.op = op)
         \/ ~AtWork' /\ runs' = R /\ execs' = E /\ cleanups' = cleanups
  PROVE  TaskInv'
<1>1. /\ \A r \in R : \E o \in runs : Same(r, o) /\ (o.cancelled => r.cancelled)
      /\ \A e \in E : \E o \in execs :
           Same(e, o) /\ (e.live => o.live) /\ (o.cancelled => e.cancelled)
      /\ Distinct(R) /\ Distinct(E)
  BY DEF RunsFade, ExecsFade
<1>2. \A n : Begun(n)' =>
        Begun(n) \/ (n = id /\ Continues(id, op, runs' # R \/ execs' # E))
  BY <1>1 DEF Begun, MailShrinks, Same
<1>3. Continues(id, op, runs' # R \/ execs' # E) =>
        id \in DOMAIN status' /\ id \notin Ids(queue')
  BY NamesStayNew DEF Continues, MayBegin
<1>4. NamesAreNew'
  <2>1. \A n : Begun(n)' => n \in DOMAIN status' /\ n \notin Ids(queue')
    BY <1>2, <1>3, NamesStayNew
  <2>2. OneEach(queue')
    BY DEF QueueMoves
  <2>3. AtWork' => turn'.id \notin Ids(queue')
    BY <1>3
  <2> QED BY <2>1, <2>2, <2>3 DEF NamesAreNew
\* What there was of the turn has lower tags.
<1>5. ASSUME Continues(id, op, runs' # R \/ execs' # E)
      PROVE  /\ \A r \in runs : r.turn = id => r.op <= op /\ (runs' # R => r.op < op)
             /\ \A e \in execs : e.turn = id => e.op <= op /\ (execs' # E => e.op < op)
             /\ \A m \in Mail : m.turn = id =>
                  m.op <= op /\ (runs' # R \/ execs' # E => m.op < op)
  <2>1. CASE MayBegin(id)
    BY <2>1 DEF MayBegin, Begun
  <2>2. CASE AtWork /\ id = turn.id /\ (op > turn.op \/ (op = turn.op /\ ~(runs' # R \/ execs' # E)))
    <3>1. /\ turn.op \in Nat /\ \A r \in runs : r.op \in Nat
          /\ \A e \in execs : e.op \in Nat
          /\ \A m \in Mail : m.op \in Nat
      BY MailMoves DEF TypeOK, Turns, Runs, Execs, Messages
    <3>2. /\ \A r \in runs : r.turn = id => r.op <= turn.op
          /\ \A e \in execs : e.turn = id => e.op <= turn.op
          /\ \A m \in Mail : m.turn = id => m.op <= turn.op
      BY <2>2 DEF TaskInv, TagsAreNew
    <3> QED BY <2>2, <3>1, <3>2
  <2> QED BY <1>5, <2>1, <2>2 DEF Continues
<1>6. TagsAreNew'
  <2>1. CASE Continues(id, op, runs' # R \/ execs' # E) /\ (AtWork' => turn'.id = id /\ turn'.op = op)
    <3>1. /\ \A r \in runs : r.turn = id => r.op <= op /\ (runs' # R => r.op < op)
          /\ \A e \in execs : e.turn = id => e.op <= op /\ (execs' # E => e.op < op)
          /\ \A m \in Mail : m.turn = id => m.op <= op
      BY <1>5, <2>1
    <3>2. /\ \A r \in R : r.turn = id => r.op <= op /\ (runs' # R => r.op < op)
          /\ \A e \in E : e.turn = id => e.op <= op /\ (execs' # E => e.op < op)
      BY <1>1, <3>1 DEF Same
    <3>3. Distinct(runs')
      <4>1. CASE runs' = R
        BY <1>1, <4>1
      <4>2. CASE runs' = R \cup {r0} /\ runs' # R
        <5>1. \A r \in R : ~Same(r, r0) /\ ~Same(r0, r)
          BY <3>2, <4>2 DEF Same
        <5> QED BY <1>1, <4>2, <5>1 DEF Distinct
      <4> QED BY <4>1, <4>2
    <3>4. Distinct(execs')
      <4>1. CASE execs' = E
        BY <1>1, <4>1
      <4>2. CASE execs' = E \cup {e0} /\ execs' # E
        <5>1. \A e \in E : ~Same(e, e0) /\ ~Same(e0, e)
          BY <3>2, <4>2 DEF Same
        <5> QED BY <1>1, <4>2, <5>1 DEF Distinct
      <4> QED BY <4>1, <4>2
    <3>5. AtWork' => /\ \A r \in runs' : r.turn = turn'.id => r.op <= turn'.op
                     /\ \A e \in execs' : e.turn = turn'.id => e.op <= turn'.op
                     /\ \A m \in Mail' : m.turn = turn'.id => m.op <= turn'.op
      BY <2>1, <3>1, <3>2 DEF MailShrinks
    <3> QED BY <3>3, <3>4, <3>5 DEF TagsAreNew
  <2>2. CASE ~AtWork' /\ runs' = R /\ execs' = E
    BY <1>1, <2>2 DEF TagsAreNew
  <2> QED BY <2>1, <2>2
<1>7. ReportsAreLate'
  <2>1. ASSUME NEW m \in Mail', NEW r \in runs', m.kind = "Provider", m.what = "Tools", Same(m, r)
        PROVE  r.cancelled
    <3>1. CASE r \in R
      <4>1. PICK o \in runs : Same(r, o) /\ (o.cancelled => r.cancelled)
        BY <1>1, <3>1
      <4>2. m \in Mail /\ Same(m, o)
        BY <2>1, <4>1 DEF MailShrinks, Same
      <4> QED BY <2>1, <4>1, <4>2 DEF TaskInv, ReportsAreLate
    <3>2. CASE r \notin R
      <4>1. r = r0 /\ runs' # R /\ Continues(id, op, runs' # R \/ execs' # E)
        BY <3>2
      <4>2. m.turn = id /\ m.op = op /\ m \in Mail
        BY <2>1, <4>1 DEF Same, MailShrinks
      <4> QED BY <1>5, <4>1, <4>2
    <3> QED BY <3>1, <3>2
  <2>2. ASSUME NEW m \in Mail', NEW e \in execs', m.kind = "Finished", Same(m, e)
        PROVE  ~e.live
    <3>1. CASE e \in E
      <4>1. PICK o \in execs : Same(e, o) /\ (e.live => o.live)
        BY <1>1, <3>1
      <4>2. m \in Mail /\ Same(m, o)
        BY <2>2, <4>1 DEF MailShrinks, Same
      <4> QED BY <2>2, <4>1, <4>2 DEF TaskInv, ReportsAreLate
    <3>2. CASE e \notin E
      <4>1. e = e0 /\ execs' # E /\ Continues(id, op, runs' # R \/ execs' # E)
        BY <3>2
      <4>2. m.turn = id /\ m.op = op /\ m \in Mail
        BY <2>2, <4>1 DEF Same, MailShrinks
      <4> QED BY <1>5, <4>1, <4>2
    <3> QED BY <3>1, <3>2
  <2> QED BY <2>1, <2>2 DEF ReportsAreLate
<1> QED BY <1>4, <1>6, <1>7 DEF TaskInv
-----------------------------------------------------------------------------
(* Turns that do not overlap                                               *)

\* Nothing runs but the turn at work, its cleanup message comes after its
\* tasks, and a clear that is pending leaves nothing queued.
LoneInv ==
  /\ \A r \in runs : AtWork /\ r.turn = turn.id
  /\ \A e \in execs : e.live => AtWork /\ e.turn = turn.id
  /\ \A m \in Mail : m.kind = "Cleanup" => Drained(m.turn)
  /\ phase \in {"Provider", "Tools"} =>
       /\ turn.id \notin cleanups
       /\ \A m \in Mail : m.kind = "Cleanup" => m.turn # turn.id
  /\ ClearPending => queue = <<>>

\* The tasks of the turn before have ended.
Ended == ~AtWork \/ Drained(turn.id)

\* ... and, when the turn before has ended, alone.
LEMMA StepKeepsLone ==
  ASSUME TaskInv, LoneInv, MailShrinks, ClearPending' => queue' = <<>>,
         NEW id, NEW R, NEW E, RunsFade(R), ExecsFade(E),
         NEW r0, r0.turn = id, NEW e0, e0.turn = id,
         runs' \in {R, R \cup {r0}}, execs' \in {E, E \cup {e0}},
         cleanups' \in {cleanups, cleanups \cup {id}},
         phase' \in {"Provider", "Tools"} => cleanups' = cleanups,
         \/ /\ AtWork /\ id = turn.id /\ AtWork' /\ turn'.id = id
            /\ runs' # R \/ execs' # E \/ phase' \in {"Provider", "Tools"} =>
                 phase \in {"Provider", "Tools"}
         \/ MayBegin(id) /\ Ended /\ AtWork' /\ turn'.id = id
         \/ Ended /\ ~AtWork' /\ runs' = R /\ execs' = E
  PROVE  LoneInv'
<1>1. /\ \A r \in R : \E o \in runs : Same(r, o)
      /\ \A e \in E : \E o \in execs : Same(e, o) /\ (e.live => o.live)
  BY DEF RunsFade, ExecsFade
<1>2. Ended => R = {} /\ \A e \in E : ~e.live
  BY <1>1 DEF Ended, LoneInv, Drained, DrainedOfRuns
<1>3. \A r \in runs' : AtWork' /\ r.turn = turn'.id
  BY <1>1, <1>2 DEF LoneInv, Same
<1>4. \A e \in execs' : e.live => AtWork' /\ e.turn = turn'.id
  BY <1>1, <1>2 DEF LoneInv, Same
<1>5. ASSUME NEW m \in Mail', m.kind = "Cleanup" PROVE Drained(m.turn)'
  <2>1. m \in Mail /\ Drained(m.turn)
    BY <1>5 DEF MailShrinks, LoneInv
  <2>2. (\A r \in R : r.turn # m.turn) /\ (\A e \in E : e.live => e.turn # m.turn)
    BY <1>1, <2>1 DEF Drained, DrainedOfRuns, Same
  <2>3. runs' # R \/ execs' # E => m.turn # id
    BY <1>5, <2>1 DEF LoneInv, MayBegin, Begun
  <2> QED BY <2>2, <2>3 DEF Drained, DrainedOfRuns
<1>6. phase' \in {"Provider", "Tools"} =>
        /\ turn'.id \notin cleanups'
        /\ \A m \in Mail' : m.kind = "Cleanup" => m.turn # turn'.id
  <2>1. SUFFICES ASSUME phase' \in {"Provider", "Tools"}
                 PROVE  /\ turn'.id \notin cleanups
                        /\ \A m \in Mail : m.kind = "Cleanup" => m.turn # turn'.id
    BY DEF MailShrinks
  <2>2. AtWork'
    BY <2>1 DEF AtWork
  <2> QED BY <2>1, <2>2 DEF LoneInv, MayBegin, Begun
<1> QED BY <1>3, <1>4, <1>5, <1>6 DEF LoneInv

-----------------------------------------------------------------------------
(* What the conversation is told of a batch                                *)
(*                                                                         *)
(* The executors say what becomes of their jobs, the machine's batch       *)
(* follows them, message by message, and what it says when no message is   *)
(* left goes into the conversation.                                        *)

\* The messages that tell of a job.
Progress == {"Started", "Completed"}

\* An exchange is recorded once, for a batch whose operation is over, and
\* before the next request of its turn.
Recorded(e, h) == \E k \in DOMAIN h : Same(h[k], e)
ExchangesAreOnce ==
  /\ \A k \in DOMAIN history : \E e \in execs : Same(history[k], e)
  /\ \A k, l \in DOMAIN history : Same(history[k], history[l]) => k = l
  /\ AtWork => \A k \in DOMAIN history : ~IsTagged(history[k], turn)
  /\ phase \in {"Provider", "Tools"} =>
       \A e \in execs : e.turn = turn.id =>
         Recorded(e, history) \/ (phase = "Tools" /\ e.op = turn.op)

\* The batch says of every job what its executor says, or the message that
\* tells of the difference is on its way.
Batched == phase = "Tools" \/ (phase = "Stopping" /\ cleanup.work = "Tools")
Agrees(e, entries, mail) ==
  /\ DOMAIN entries = DOMAIN e.jobs
  /\ \A j \in DOMAIN e.jobs :
       /\ \/ entries[j] = Truth(e)[j]
          \/ \E m \in mail : /\ Same(m, e) /\ m.job = j
                             /\ m.kind = IF e.jobs[j] = "done" THEN "Completed" ELSE "Started"
       /\ entries[j] = "Completed" => e.jobs[j] = "done"
       /\ entries[j] = "Running" => e.jobs[j] \notin {"queued", "scheduled"}
BatchFollows ==
  Batched => /\ \E e \in execs : IsTagged(e, turn)
             /\ \A e \in execs : IsTagged(e, turn) => Agrees(e, batch.entries, Mail)

\* What a message tells of a job has happened.
NewsIsOfJobs ==
  \A m \in Mail, e \in execs : m.kind \in Progress /\ Same(m, e) =>
    /\ m.job \in DOMAIN e.jobs /\ e.jobs[m.job] \notin {"queued", "scheduled"}
    /\ m.kind = "Completed" => e.jobs[m.job] = "done"

\* The end of an executor, and of a turn, is told last.
Closes(last, m) ==
  \/ last.kind = "Finished" /\ Same(last, m)
  \/ last.kind = "Cleanup" /\ last.turn = m.turn
NewsIsInOrder ==
  \A i, l \in DOMAIN mailbox :
    mailbox[l].kind \in Progress /\ Closes(mailbox[i], mailbox[l]) => l < i

\* The cleanup of a turn is reported when none of its tasks is left, and the
\* turn has stopped by then.
CleanupsAreLate ==
  /\ \A m \in Mail : m.kind = "Cleanup" => Drained(m.turn)
  /\ phase \in {"Provider", "Tools"} =>
       /\ turn.id \notin cleanups
       /\ \A m \in Mail : m.kind = "Cleanup" => m.turn # turn.id

\* A recorded exchange says what has become of its jobs; only one of a forced
\* stop was recorded before all that was said of them.
Excused(e) == life = "Stopped" /\ \E m \in Mail : m.turn = e.turn
ExchangesAreTrue ==
  \A k \in DOMAIN history, e \in execs : Same(history[k], e) =>
    ~e.live /\ (history[k].entries = Truth(e) \/ Excused(e))

TellInv ==
  /\ ExchangesAreOnce /\ BatchFollows /\ NewsIsOfJobs /\ NewsIsInOrder
  /\ CleanupsAreLate /\ ExchangesAreTrue

\* What a handler does to the mailbox, the conversation and the batch.
SameTag == turn'.id = turn.id /\ turn'.op = turn.op
MailTakes == mailbox' = mailbox \/ (mailbox # <<>> /\ mailbox' = Tail(mailbox))
HistoryMoves ==
  /\ \A k \in DOMAIN history' : \E e \in execs : Same(history'[k], e)
  /\ \A k, l \in DOMAIN history' : Same(history'[k], history'[l]) => k = l
  /\ \A k \in DOMAIN history', e \in execs : Same(history'[k], e) =>
       ~e.live /\ (history'[k].entries = Truth(e) \/ Excused(e)')
  /\ AtWork /\ AtWork' /\ SameTag =>
       \A k \in DOMAIN history' : ~IsTagged(history'[k], turn)
  /\ phase \in {"Provider", "Tools"} /\ phase' \in {"Provider", "Tools"} =>
       \A e \in execs : e.turn = turn.id =>
         Recorded(e, history') \/ (phase' = "Tools" /\ SameTag /\ e.op = turn.op)
BatchMoves ==
  Batched' => \/ phase' = "Tools" /\ phase # "Tools"
              \/ /\ Batched /\ SameTag
                 /\ \A e \in execs : IsTagged(e, turn) => Agrees(e, batch'.entries, Mail')
Moves == MailTakes /\ HistoryMoves /\ BatchMoves

\* The same executor, cancelled or not.
Kept(e, o) == Same(e, o) /\ e.live = o.live /\ e.jobs = o.jobs
ExecsStay(E) ==
  /\ \A e \in E : \E o \in execs : Kept(e, o)
  /\ \A o \in execs : \E e \in E : Kept(e, o)

\* Taking a message leaves the others in their order.
LEMMA TakingKeepsOrder ==
  ASSUME TypeOK, NewsIsInOrder, MailTakes
  PROVE  NewsIsInOrder' /\ MailShrinks
<1>1. mailbox \in Seq(Messages)
  BY DEF TypeOK
<1>2. CASE mailbox' = mailbox
  BY <1>2, MailMoves DEF NewsIsInOrder, MailShrinks
<1>3. CASE mailbox # <<>> /\ mailbox' = Tail(mailbox)
  <2>1. \A i \in DOMAIN mailbox' :
          i \in Nat /\ i + 1 \in DOMAIN mailbox /\ mailbox'[i] = mailbox[i + 1]
    BY <1>1, <1>3
  <2>2. SUFFICES ASSUME NEW i \in DOMAIN mailbox', NEW l \in DOMAIN mailbox',
                        mailbox'[l].kind \in Progress, Closes(mailbox'[i], mailbox'[l])
                 PROVE  l < i
    BY <1>3, MailMoves DEF NewsIsInOrder, MailShrinks
  <2>3. l + 1 < i + 1
    BY <2>1, <2>2 DEF NewsIsInOrder
  <2> QED BY <2>1, <2>3
<1> QED BY <1>2, <1>3 DEF MailTakes

\* What is said of an executor holds of the same executor, cancelled.
LEMMA KeptSays ==
  ASSUME NEW e, NEW o, Kept(e, o)
  PROVE  /\ Truth(e) = Truth(o)
         /\ \A entries, mail : Agrees(o, entries, mail) => Agrees(e, entries, mail)
<1>1. Truth(e) = Truth(o)
  BY DEF Kept, Truth
<1> QED BY <1>1 DEF Kept, Agrees, Same

\* A handler that adds at most the next operation of one turn leaves the
\* exchanges true.
LEMMA StepKeepsTold ==
  ASSUME TypeOK, TaskInv, TellInv, Moves,
         NEW id, NEW op \in Nat, AtWork' => turn'.id = id /\ turn'.op = op,
         NEW R, RunsFade(R), NEW r0, r0.turn = id, runs' \in {R, R \cup {r0}},
         NEW E, ExecsStay(E), NEW e0, e0.turn = id, e0.op = op,
         execs' \in {E, E \cup {e0}}, execs' # E => phase' # "Provider",
         phase' \in {"Provider", "Tools"} => cleanups' = cleanups,
         phase' = "Tools" /\ phase # "Tools" =>
           execs' = E \cup {e0} /\ Agrees(e0, batch'.entries, Mail'),
         \/ MayBegin(id)
         \/ /\ AtWork /\ id = turn.id
            /\ op > turn.op \/ (op = turn.op /\ runs' = R /\ execs' = E)
            /\ phase' = "Tools" /\ phase # "Tools" => op > turn.op
            /\ runs' # R \/ execs' # E \/ phase' \in {"Provider", "Tools"} =>
                 phase \in {"Provider", "Tools"}
         \/ ~AtWork' /\ runs' = R /\ execs' = E
  PROVE  TellInv'
<1> DEFINE New == MayBegin(id)
           Next1 == AtWork /\ id = turn.id /\ op > turn.op
           Adds == runs' # R \/ execs' # E
<1>1. /\ \A r \in R : \E o \in runs : Same(r, o)
      /\ \A e \in E : \E o \in execs : Kept(e, o)
      /\ \A o \in execs : \E e \in E : Kept(e, o)
  BY DEF RunsFade, ExecsStay
<1>2. MailShrinks /\ NewsIsInOrder'
  BY TakingKeepsOrder DEF TellInv, Moves
\* What is added has a new tag.
<1>3. ASSUME New \/ Next1
      PROVE  /\ \A e \in execs : ~(e.turn = id /\ e.op = op)
             /\ \A m \in Mail : ~(m.turn = id /\ m.op = op)
  <2>1. CASE New
    BY <2>1 DEF MayBegin, Begun
  <2>2. CASE Next1
    <3>1. turn.op \in Nat /\ (\A e \in execs : e.op \in Nat) /\ (\A m \in Mail : m.op \in Nat)
      BY MailMoves DEF TypeOK, Turns, Execs, Messages
    <3>2. /\ \A e \in execs : e.turn = id => e.op <= turn.op
          /\ \A m \in Mail : m.turn = id => m.op <= turn.op
      BY <2>2 DEF TaskInv, TagsAreNew
    <3> QED BY <2>2, <3>1, <3>2
  <2> QED BY <1>3, <2>1, <2>2
<1>4. Adds => New \/ Next1
  OBVIOUS
<1>5. \A e \in execs' : (\E o \in execs : Kept(e, o)) \/ (e = e0 /\ execs' # E)
  BY <1>1
<1>6. \A o \in execs : \E e \in execs' : Kept(e, o)
  BY <1>1
<1>7. ExchangesAreOnce'
  <2>1. \A k \in DOMAIN history' : \E e \in execs' : Same(history'[k], e)
    BY <1>6 DEF Moves, HistoryMoves, Kept, Same
  <2>2. \A k, l \in DOMAIN history' : Same(history'[k], history'[l]) => k = l
    BY DEF Moves, HistoryMoves
  <2>3. ASSUME AtWork', NEW k \in DOMAIN history', IsTagged(history'[k], turn') PROVE FALSE
    <3>1. PICK o \in execs : Same(history'[k], o)
      BY DEF Moves, HistoryMoves
    <3>2. o.turn = id /\ o.op = op
      BY <2>3, <3>1 DEF IsTagged, Same
    <3>3. ~(New \/ Next1)
      BY <1>3, <3>2
    <3>4. AtWork /\ SameTag
      BY <2>3, <3>3 DEF SameTag
    <3> QED BY <2>3, <3>4 DEF Moves, HistoryMoves, IsTagged, SameTag
  <2>4. ASSUME phase' \in {"Provider", "Tools"}, NEW e \in execs', e.turn = turn'.id
        PROVE  Recorded(e, history') \/ (phase' = "Tools" /\ e.op = turn'.op)
    <3>0. AtWork'
      BY <2>4 DEF AtWork
    <3>1. CASE e = e0 /\ execs' # E
      BY <2>4, <3>0, <3>1
    <3>2. ASSUME NEW o \in execs, Kept(e, o) PROVE Recorded(e, history') \/ (phase' = "Tools" /\ e.op = turn'.op)
      <4>1. ~New
        BY <2>4, <3>0, <3>2 DEF MayBegin, Begun, Kept, Same
      <4>2. phase \in {"Provider", "Tools"} /\ o.turn = turn.id
        BY <2>4, <3>0, <3>2, <4>1 DEF Kept, Same
      <4>3. Recorded(o, history') \/ (phase' = "Tools" /\ SameTag /\ o.op = turn.op)
        BY <2>4, <4>2 DEF Moves, HistoryMoves
      <4> QED BY <3>2, <4>3 DEF Recorded, Kept, Same, SameTag
    <3> QED BY <1>5, <3>1, <3>2
  <2> QED BY <2>1, <2>2, <2>3, <2>4 DEF ExchangesAreOnce
<1>8. BatchFollows'
  <2>1. SUFFICES ASSUME Batched'
                 PROVE  /\ \E e \in execs' : IsTagged(e, turn')
                        /\ \A e \in execs' : IsTagged(e, turn') => Agrees(e, batch'.entries, Mail')
    BY DEF BatchFollows, IsTagged
  <2>2. AtWork'
    BY <2>1 DEF Batched, AtWork
  <2>3. CASE phase' = "Tools" /\ phase # "Tools"
    <3>1. execs' = E \cup {e0} /\ Agrees(e0, batch'.entries, Mail')
      BY <2>3
    <3>2. New \/ Next1
      BY <2>3, <2>2, <1>1, <1>4
    <3>3. ASSUME NEW e \in execs', IsTagged(e, turn') PROVE e = e0
      BY <1>3, <1>5, <2>2, <3>2, <3>3 DEF IsTagged, Kept, Same
    <3> QED BY <2>2, <3>1, <3>3 DEF IsTagged
  <2>4. CASE /\ Batched /\ SameTag
             /\ \A e \in execs : IsTagged(e, turn) => Agrees(e, batch'.entries, Mail')
    <3>1. PICK o \in execs : IsTagged(o, turn)
      BY <2>4 DEF TellInv, BatchFollows
    <3>2. ~(New \/ Next1)
      BY <1>3, <2>2, <2>4, <3>1 DEF IsTagged, SameTag
    <3>3. ASSUME NEW e \in execs', IsTagged(e, turn') PROVE Agrees(e, batch'.entries, Mail')
      <4>1. PICK p \in execs : Kept(e, p)
        BY <1>4, <1>5, <3>2
      <4>2. IsTagged(p, turn)
        BY <2>4, <3>3, <4>1 DEF IsTagged, Kept, Same, SameTag
      <4> QED BY <2>4, <4>1, <4>2, KeptSays
    <3>4. PICK e \in execs' : Kept(e, o)
      BY <1>6
    <3>5. IsTagged(e, turn')
      BY <2>4, <3>1, <3>4 DEF IsTagged, Kept, Same, SameTag
    <3> QED BY <3>3, <3>5
  <2> QED BY <2>1, <2>3, <2>4 DEF Moves, BatchMoves
<1>9. NewsIsOfJobs'
  <2>1. SUFFICES ASSUME NEW m \in Mail', NEW e \in execs', m.kind \in Progress, Same(m, e)
                 PROVE  /\ m.job \in DOMAIN e.jobs /\ e.jobs[m.job] \notin {"queued", "scheduled"}
                        /\ m.kind = "Completed" => e.jobs[m.job] = "done"
    BY DEF NewsIsOfJobs
  <2>2. m \in Mail
    BY <1>2 DEF MailShrinks
  <2>3. PICK o \in execs : Kept(e, o)
    BY <1>3, <1>4, <1>5, <2>1, <2>2 DEF Same
  <2>4. Same(m, o)
    BY <2>1, <2>3 DEF Kept, Same
  <2>5. /\ m.job \in DOMAIN o.jobs /\ o.jobs[m.job] \notin {"queued", "scheduled"}
        /\ m.kind = "Completed" => o.jobs[m.job] = "done"
    BY <2>1, <2>2, <2>4 DEF TellInv, NewsIsOfJobs
  <2> QED BY <2>3, <2>5 DEF Kept
<1>10. CleanupsAreLate'
  <2>1. ASSUME NEW m \in Mail', m.kind = "Cleanup" PROVE Drained(m.turn)'
    <3>1. m \in Mail /\ Drained(m.turn)
      BY <1>2, <2>1 DEF MailShrinks, TellInv, CleanupsAreLate
    <3>2. (\A r \in R : r.turn # m.turn) /\ (\A e \in E : e.live => e.turn # m.turn)
      BY <1>1, <3>1 DEF Drained, DrainedOfRuns, Same, Kept
    <3>3. Adds => m.turn # id
      <4>1. New => m.turn # id
        BY <3>1 DEF MayBegin, Begun
      <4>2. phase \in {"Provider", "Tools"} /\ id = turn.id => m.turn # id
        BY <2>1, <3>1 DEF TellInv, CleanupsAreLate
      <4> QED BY <4>1, <4>2
    <3> QED BY <3>2, <3>3 DEF Drained, DrainedOfRuns
  <2>2. ASSUME phase' \in {"Provider", "Tools"}
        PROVE  /\ turn'.id \notin cleanups'
               /\ \A m \in Mail' : m.kind = "Cleanup" => m.turn # turn'.id
    <3>1. AtWork'
      BY <2>2 DEF AtWork
    <3>2. CASE New
      BY <1>2, <2>2, <3>1, <3>2 DEF MayBegin, Begun, MailShrinks
    <3>3. CASE ~New
      BY <1>2, <2>2, <3>1, <3>3 DEF MailShrinks, TellInv, CleanupsAreLate
    <3> QED BY <3>2, <3>3
  <2> QED BY <2>1, <2>2 DEF CleanupsAreLate
<1>11. ExchangesAreTrue'
  <2>1. SUFFICES ASSUME NEW k \in DOMAIN history', NEW e \in execs', Same(history'[k], e)
                 PROVE  ~e.live /\ (history'[k].entries = Truth(e) \/ Excused(e)')
    BY DEF ExchangesAreTrue
  <2>2. PICK p \in execs : Same(history'[k], p)
    BY DEF Moves, HistoryMoves
  <2>3. PICK o \in execs : Kept(e, o)
    BY <1>3, <1>4, <1>5, <2>1, <2>2 DEF Same
  <2>4. Same(history'[k], o)
    BY <2>1, <2>3 DEF Kept, Same
  <2>5. ~o.live /\ (history'[k].entries = Truth(o) \/ Excused(o)')
    BY <2>4 DEF Moves, HistoryMoves
  <2>6. Truth(e) = Truth(o) /\ e.turn = o.turn /\ e.live = o.live
    BY <2>3, KeptSays DEF Kept, Same
  <2> QED BY <2>5, <2>6 DEF Excused
<1> QED BY <1>2, <1>7, <1>8, <1>9, <1>10, <1>11 DEF TellInv

\* Cancelling executors leaves their jobs as they are.
LEMMA ExecutorsStay ==
  ASSUME TypeOK
  PROVE  /\ ExecsStay(execs) /\ ExecsStay(CancelAll(execs))
         /\ \A id : ExecsStay(CancelTurn(execs, id))
<1> DEFINE C(e) == [e EXCEPT !.cancelled = TRUE]
<1>1. ASSUME NEW e \in execs PROVE Kept(C(e), e) /\ Kept(e, e)
  <2>1. e \in Execs
    BY DEF TypeOK
  <2> QED BY <2>1 DEF Execs, Kept, Same
<1>2. CancelAll(execs) = {C(e) : e \in execs}
  BY DEF CancelAll
<1>3. \A id : CancelTurn(execs, id) = {IF e.turn = id THEN C(e) ELSE e : e \in execs}
  BY DEF CancelTurn
<1> HIDE DEF C
<1>4. \A id : ExecsStay(CancelTurn(execs, id))
  <2> SUFFICES ASSUME NEW id PROVE ExecsStay(CancelTurn(execs, id))
    OBVIOUS
  <2> DEFINE D(e) == IF e.turn = id THEN C(e) ELSE e
  <2>1. \A e \in execs : Kept(D(e), e)
    BY <1>1
  <2>2. CancelTurn(execs, id) = {D(e) : e \in execs}
    BY <1>3
  <2> HIDE DEF D
  <2> QED BY <2>1, <2>2 DEF ExecsStay
<1> QED BY <1>1, <1>2, <1>4 DEF ExecsStay

-----------------------------------------------------------------------------
(* The transitions that give the machine a turn or take it away            *)

\* A clear leaves nothing queued.
ClearsQueue(clear) == clear => queue' = <<>>

\* A turn that stops cancels all that is not cancelled.
LEMMA StopKeeps ==
  ASSUME TypeOK, TaskInv, QueueMoves, MailShrinks,
         NEW t \in Turns, NEW b, NEW work, NEW outcome, NEW clear, NEW st,
         Stop(t, b, work, outcome, clear, st),
         \/ MayBegin(t.id) /\ Between
         \/ AtWork /\ t.id = turn.id /\ t.op >= turn.op
  PROVE  /\ TaskInv'
         /\ (LoneInv /\ (MayBegin(t.id) /\ Between => Ended) /\ ClearsQueue(clear) => LoneInv')
         /\ (TellInv /\ Moves => TellInv')
<1>1. /\ phase' = "Stopping" /\ turn' = t /\ AtWork'
      /\ runs' = CancelTurn(runs, t.id) /\ execs' = CancelTurn(execs, t.id)
      /\ cleanups' = cleanups \cup {t.id}
      /\ cleanup' = [work |-> work, outcome |-> outcome, clear |-> clear]
  BY DEF Stop, AtWork
<1>2. RunsFade(runs') /\ ExecsFade(execs')
  BY <1>1, TasksFade
<1>3. /\ \A o \in runs : o.cancelled \/ o.turn = t.id
      /\ \A o \in execs : o.live => o.cancelled \/ o.turn = t.id
  BY DEF TaskInv, NoUnownedWork, IsTagged, Between
<1>4. NoUnownedWork'
  <2>1. \A r \in runs' : r.cancelled
    BY <1>1, <1>3, CancelMoves DEF Cancels
  <2>2. \A e \in execs' : e.live => e.cancelled
    BY <1>1, <1>3, CancelMoves DEF Cancels
  <2> QED BY <2>1, <2>2 DEF NoUnownedWork
<1>5. t.op \in Nat /\ turn.op \in Nat
  BY DEF Turns, TypeOK
<1> DEFINE r0 == [turn |-> t.id, op |-> t.op]
<1>6. r0.turn = t.id /\ r0.op = t.op
  OBVIOUS
<1> HIDE DEF r0
<1>7. Continues(t.id, t.op, runs' # runs' \/ execs' # execs')
  BY <1>5 DEF Continues
<1>8. turn'.id = t.id /\ turn'.op = t.op
  BY <1>1
<1>9. TaskInv'
  BY <1>1, <1>2, <1>4, <1>5, <1>6, <1>7, <1>8, StepKeepsTasks
<1>10. ASSUME LoneInv, MayBegin(t.id) /\ Between => Ended, ClearsQueue(clear) PROVE LoneInv'
  <2>1. ClearPending' => queue' = <<>>
    BY <1>1, <1>10 DEF ClearPending, ClearsQueue
  <2>2. phase' \notin {"Provider", "Tools"}
    BY <1>1
  <2>3. CASE AtWork /\ t.id = turn.id
    BY <1>1, <1>2, <1>6, <1>8, <1>10, <2>1, <2>2, <2>3, StepKeepsLone
  <2>4. CASE MayBegin(t.id) /\ Between
    BY <1>1, <1>2, <1>6, <1>8, <1>10, <2>1, <2>2, <2>4, StepKeepsLone
  <2> QED BY <2>3, <2>4
<1>11. ASSUME TellInv, Moves PROVE TellInv'
  <2>1. ExecsStay(execs')
    BY <1>1, ExecutorsStay
  <2>2. t.op > turn.op \/ t.op = turn.op \/ MayBegin(t.id)
    BY <1>5
  <2>3. phase' \notin {"Provider", "Tools"}
    BY <1>1
  <2> QED BY <1>1, <1>2, <1>5, <1>6, <1>8, <1>11, <2>1, <2>2, <2>3, StepKeepsTold
<1> QED BY <1>9, <1>10, <1>11

\* A request follows an answered operation or begins a turn.
LEMMA LaunchProviderKeeps ==
  ASSUME TypeOK, TaskInv, QueueMoves, MailShrinks,
         NEW t \in Turns, NEW g, NEW previous \in BOOLEAN, NEW st,
         LaunchProvider(t, g, previous, st),
         \/ MayBegin(t.id) /\ Between
         \/ /\ t.id = turn.id /\ t.op > turn.op
            /\ \/ phase = "Provider" /\ previous
               \/ phase = "Tools" /\ \A e \in execs : e.live => e.cancelled
  PROVE  /\ TaskInv'
         /\ (LoneInv /\ (MayBegin(t.id) /\ Between => Ended) => LoneInv')
         /\ (TellInv /\ Moves => TellInv')
<1>1. t.op \in Nat /\ turn.op \in Nat
  BY DEF Turns, TypeOK
<1>2. \/ MayBegin(t.id) /\ Between
      \/ AtWork /\ t.id = turn.id /\ t.op > turn.op /\ ~Between
  BY DEF AtWork, Between
<1>3. CASE Stop(t, NoBatch, "Provider", "WaitingForInput", FALSE, st)
  <2>1. \/ MayBegin(t.id) /\ Between
        \/ AtWork /\ t.id = turn.id /\ t.op >= turn.op
    BY <1>1, <1>2
  <2>2. ClearsQueue(FALSE)
    BY DEF ClearsQueue
  <2> QED BY <1>3, <2>1, <2>2, StopKeeps
<1>4. CASE ~Stop(t, NoBatch, "Provider", "WaitingForInput", FALSE, st)
  <2> DEFINE R == IF previous THEN CancelTurn(runs, t.id) ELSE runs
             r0 == NewRun(t)
  <2>1. /\ phase' = "Provider" /\ turn' = t /\ AtWork' /\ ~ClearPending'
        /\ runs' = R \cup {r0} /\ execs' = execs /\ cleanups' = cleanups
    BY <1>4 DEF LaunchProvider, AtWork, ClearPending
  <2>2. RunsFade(R) /\ ExecsFade(execs)
    BY TasksFade
  <2>3. r0.turn = t.id /\ r0.op = t.op
    BY DEF NewRun
  <2>4. ASSUME NEW r \in R PROVE r.cancelled
    <3>1. CASE previous
      <4>1. PICK o \in runs : Cancels(r, o, t.id)
        BY <2>4, <3>1, CancelMoves
      <4>2. o.cancelled \/ o.turn = t.id
        BY <1>2 DEF TaskInv, NoUnownedWork, IsTagged, Between
      <4> QED BY <4>1, <4>2 DEF Cancels
    <3>2. CASE ~previous
      <4>1. phase # "Provider" /\ r \in runs
        BY <2>4, <3>2 DEF Between
      <4> QED BY <4>1 DEF TaskInv, NoUnownedWork
    <3> QED BY <3>1, <3>2
  <2>5. \A e \in execs : e.live => e.cancelled
    BY DEF TaskInv, NoUnownedWork, Between
  <2> HIDE DEF R, r0
  <2>6. NoUnownedWork'
    BY <2>1, <2>3, <2>4, <2>5 DEF NoUnownedWork, IsTagged
  <2>7. Continues(t.id, t.op, runs' # R \/ execs' # execs)
    BY <1>1, <1>2 DEF Continues
  <2> DEFINE e0 == [turn |-> t.id, op |-> t.op]
  <2>8. e0.turn = t.id /\ e0.op = t.op
    OBVIOUS
  <2> HIDE DEF e0
  <2>9. turn'.id = t.id /\ turn'.op = t.op
    BY <2>1
  <2>10. TaskInv'
    BY <1>1, <2>1, <2>2, <2>3, <2>6, <2>7, <2>8, <2>9, StepKeepsTasks
  <2>11. ASSUME LoneInv, MayBegin(t.id) /\ Between => Ended PROVE LoneInv'
    <3>1. CASE AtWork /\ t.id = turn.id /\ ~Between
      <4>1. phase \in {"Provider", "Tools"}
        BY <3>1 DEF Between
      <4> QED BY <2>1, <2>2, <2>3, <2>8, <2>9, <2>11, <3>1, <4>1, StepKeepsLone
    <3>2. CASE MayBegin(t.id) /\ Between
      BY <2>1, <2>2, <2>3, <2>8, <2>9, <2>11, <3>2, StepKeepsLone
    <3> QED BY <1>2, <3>1, <3>2
  <2>12. ASSUME TellInv, Moves PROVE TellInv'
    <3>1. ExecsStay(execs)
      BY ExecutorsStay
    <3>2. phase' # "Tools"
      BY <2>1
    <3>3. MayBegin(t.id) \/ (AtWork /\ t.id = turn.id /\ t.op > turn.op /\ phase \in {"Provider", "Tools"})
      BY <1>2 DEF Between
    <3> QED BY <1>1, <2>1, <2>2, <2>3, <2>8, <2>9, <2>12, <3>1, <3>2, <3>3, StepKeepsTold
  <2> QED BY <2>10, <2>11, <2>12
<1> QED BY <1>3, <1>4

\* A batch follows the request that asked for it or begins a turn.
LEMMA LaunchToolsKeeps ==
  ASSUME TypeOK, TaskInv, QueueMoves, MailShrinks,
         NEW t \in Turns, NEW n, NEW st, LaunchTools(t, n, st),
         \/ MayBegin(t.id) /\ Between
         \/ /\ t.id = turn.id /\ t.op > turn.op /\ phase = "Provider"
            /\ \A r \in runs : r.cancelled
  PROVE  /\ TaskInv'
         /\ (LoneInv /\ (MayBegin(t.id) /\ Between => Ended) => LoneInv')
         /\ (TellInv /\ Moves => TellInv')
<1>1. t.op \in Nat /\ turn.op \in Nat
  BY DEF Turns, TypeOK
<1> DEFINE e0 == NewExec(t, n)
           r0 == [turn |-> t.id, op |-> t.op]
<1>2. /\ phase' = "Tools" /\ turn' = t /\ AtWork' /\ ~ClearPending'
      /\ runs' = runs /\ execs' = execs \cup {e0} /\ cleanups' = cleanups
  BY DEF LaunchTools, AtWork, ClearPending
<1>3. RunsFade(runs) /\ ExecsFade(execs)
  BY TasksFade
<1>4. e0.turn = t.id /\ e0.op = t.op /\ r0.turn = t.id /\ r0.op = t.op
  BY DEF NewExec
<1>12. Agrees(e0, batch'.entries, Mail')
  <2>1. batch'.entries = [j \in 1..n |-> "Queued"] /\ e0.jobs = [j \in 1..n |-> "queued"]
    BY DEF LaunchTools, NewExec
  <2>2. Truth(e0) = [j \in 1..n |-> "Queued"]
    BY <2>1 DEF Truth
  <2> QED BY <2>1, <2>2 DEF Agrees
<1> HIDE DEF e0, r0
<1>5. /\ \A r \in runs : r.cancelled
      /\ \A e \in execs : e.live => e.cancelled
  BY DEF TaskInv, NoUnownedWork, Between
<1>6. NoUnownedWork'
  BY <1>2, <1>4, <1>5 DEF NoUnownedWork, IsTagged
<1>7. Continues(t.id, t.op, runs' # runs \/ execs' # execs)
  BY <1>1 DEF Continues, AtWork
<1>8. turn'.id = t.id /\ turn'.op = t.op
  BY <1>2
<1>9. TaskInv'
  BY <1>1, <1>2, <1>3, <1>4, <1>6, <1>7, <1>8, StepKeepsTasks
<1>10. ASSUME LoneInv, MayBegin(t.id) /\ Between => Ended PROVE LoneInv'
  <2>1. CASE AtWork /\ t.id = turn.id /\ phase = "Provider"
    BY <1>2, <1>3, <1>4, <1>8, <1>10, <2>1, StepKeepsLone
  <2>2. CASE MayBegin(t.id) /\ Between
    BY <1>2, <1>3, <1>4, <1>8, <1>10, <2>2, StepKeepsLone
  <2> QED BY <2>1, <2>2 DEF AtWork
<1>11. ASSUME TellInv, Moves PROVE TellInv'
  <2>1. ExecsStay(execs)
    BY ExecutorsStay
  <2>2. MayBegin(t.id) \/ (AtWork /\ t.id = turn.id /\ t.op > turn.op /\ phase = "Provider")
    BY DEF AtWork
  <2> QED BY <1>1, <1>2, <1>3, <1>4, <1>8, <1>11, <1>12, <2>1, <2>2, StepKeepsTold
<1> QED BY <1>9, <1>10, <1>11
\* A turn that begins finds no task of it, and what there was is cancelled.
LEMMA BeginKeeps ==
  ASSUME TypeOK, TaskInv, QueueMoves, MailShrinks,
         NEW f, f.id \in Nat, NEW g, NEW st, Begin(f, g, st),
         MayBegin(f.id), Between
  PROVE  /\ TaskInv'
         /\ (LoneInv /\ Ended => LoneInv')
         /\ (TellInv /\ Moves => TellInv')
<1> DEFINE t == FirstRun(f.id)
<1>1. t \in Turns /\ t.id = f.id
  BY RunTypes
<1>2. \/ LaunchProvider(t, g, FALSE, st)
      \/ LaunchTools(t, 1, st)
      \/ Stop(t, NoBatch, "Provider", "Failed", FALSE, st)
  BY DEF Begin
<1> HIDE DEF t
<1>3. MayBegin(t.id)
  BY <1>1
<1>4. CASE LaunchProvider(t, g, FALSE, st)
  BY <1>1, <1>3, <1>4, LaunchProviderKeeps
<1>5. CASE LaunchTools(t, 1, st)
  BY <1>1, <1>3, <1>5, LaunchToolsKeeps
<1>6. CASE Stop(t, NoBatch, "Provider", "Failed", FALSE, st)
  <2>1. ClearsQueue(FALSE)
    BY DEF ClearsQueue
  <2> QED BY <1>1, <1>3, <1>6, <2>1, StopKeeps
<1> QED BY <1>2, <1>4, <1>5, <1>6

\* A machine comes to rest when no task is left that it waits for.
LEMMA RestKeeps ==
  ASSUME TypeOK, TaskInv, QueueMoves, MailShrinks, NoUnownedWork',
         ~AtWork', UNCHANGED <<runs, execs, cleanups>>
  PROVE  /\ TaskInv'
         /\ (LoneInv /\ Ended => LoneInv')
         /\ (TellInv /\ Moves => TellInv')
<1> DEFINE x == [turn |-> 0, op |-> 0]
<1>1. x.turn = 0 /\ x.op = 0
  OBVIOUS
<1> HIDE DEF x
<1>2. RunsFade(runs) /\ ExecsFade(execs)
  BY TasksFade
<1>3. TaskInv'
  BY <1>1, <1>2, StepKeepsTasks
<1>4. ASSUME LoneInv, Ended PROVE LoneInv'
  <2>1. phase' \notin {"Provider", "Tools"} /\ ~ClearPending'
    BY DEF AtWork, ClearPending
  <2> QED BY <1>1, <1>2, <1>4, <2>1, StepKeepsLone
<1>5. ASSUME TellInv, Moves PROVE TellInv'
  <2>1. phase' \notin {"Provider", "Tools"} /\ ExecsStay(execs)
    BY ExecutorsStay DEF AtWork
  <2>2. 0 \in Nat
    OBVIOUS
  <2> QED BY <1>1, <1>2, <1>5, <2>1, <2>2, StepKeepsTold
<1> QED BY <1>3, <1>4, <1>5

\* Between turns, nothing that runs is awaited.
LEMMA RestIsOwned ==
  ASSUME TaskInv, Between, UNCHANGED <<runs, execs>>
  PROVE  NoUnownedWork'
BY DEF TaskInv, NoUnownedWork, Between

\* A handler that leaves the work alone.
LEMMA SameKeeps ==
  ASSUME TypeOK, TaskInv, QueueMoves, MailShrinks,
         phase' = phase, turn'.id = turn.id, turn'.op = turn.op,
         UNCHANGED <<runs, execs, cleanups>>
  PROVE  /\ TaskInv'
         /\ (LoneInv /\ (ClearPending' => queue' = <<>>) => LoneInv')
         /\ (TellInv /\ Moves => TellInv')
<1> DEFINE x == [turn |-> turn.id, op |-> turn.op]
<1>1. x.turn = turn.id /\ x.op = turn.op
  OBVIOUS
<1> HIDE DEF x
<1>2. RunsFade(runs) /\ ExecsFade(execs) /\ turn.op \in Nat
  BY TasksFade DEF TypeOK, Turns
<1>3. NoUnownedWork'
  BY DEF TaskInv, NoUnownedWork, IsTagged
<1>4. AtWork' <=> AtWork
  BY DEF AtWork
<1>5. Continues(turn.id, turn.op, runs' # runs \/ execs' # execs) \/ ~AtWork'
  BY <1>2, <1>4 DEF Continues
<1>6. TaskInv'
  BY <1>1, <1>2, <1>3, <1>4, <1>5, StepKeepsTasks
<1>7. ASSUME LoneInv, ClearPending' => queue' = <<>> PROVE LoneInv'
  BY <1>4, <1>7 DEF LoneInv, Drained, DrainedOfRuns, MailShrinks
<1>8. ASSUME TellInv, Moves PROVE TellInv'
  <2>1. ExecsStay(execs)
    BY ExecutorsStay
  <2>2. (AtWork /\ (phase' \in {"Provider", "Tools"} => phase \in {"Provider", "Tools"})) \/ ~AtWork'
    BY <1>4
  <2> QED BY <1>1, <1>2, <1>8, <2>1, <2>2, StepKeepsTold
<1> QED BY <1>6, <1>7, <1>8

-----------------------------------------------------------------------------
(* What the handlers do to the queue                                       *)

\* No report changes which turns were accepted.
LEMMA EngineStatus ==
  ASSUME NEW st
  PROVE  /\ \A t, g, p : LaunchProvider(t, g, p, st) => DOMAIN status' = DOMAIN st
         /\ \A t, b, w, o, c : Stop(t, b, w, o, c, st) => DOMAIN status' = DOMAIN st
         /\ \A t, n : LaunchTools(t, n, st) => DOMAIN status' = DOMAIN st
         /\ \A f, g : Begin(f, g, st) => DOMAIN status' = DOMAIN st
         /\ \A id, s : DOMAIN Report(st, id, s) = DOMAIN st
         /\ \A id, n, s : BecomeWaiting(id, Report(st, n, s)) => DOMAIN status' = DOMAIN st
         /\ \A q : DOMAIN CancelQueue(st, q) = DOMAIN st
         /\ \A q : DOMAIN SaveQueue(st, q) = DOMAIN st
<1>1. \A id, s : DOMAIN Report(st, id, s) = DOMAIN st
  BY DEF Report
<1>2. \A t, b, w, o, c : Stop(t, b, w, o, c, st) => DOMAIN status' = DOMAIN st
  BY <1>1 DEF Stop
<1>3. \A t, g, p : LaunchProvider(t, g, p, st) => DOMAIN status' = DOMAIN st
  BY <1>1, <1>2 DEF LaunchProvider
<1>4. \A t, n : LaunchTools(t, n, st) => DOMAIN status' = DOMAIN st
  BY <1>1 DEF LaunchTools
<1>5. \A f, g : Begin(f, g, st) => DOMAIN status' = DOMAIN st
  BY <1>2, <1>3, <1>4 DEF Begin
<1>6. /\ \A q : DOMAIN CancelQueue(st, q) = DOMAIN st
      /\ \A q : DOMAIN SaveQueue(st, q) = DOMAIN st
  BY DEF CancelQueue, SaveQueue
<1>7. \A id, n, s : BecomeWaiting(id, Report(st, n, s)) => DOMAIN status' = DOMAIN st
  BY <1>1 DEF BecomeWaiting
<1> QED BY <1>1, <1>2, <1>3, <1>4, <1>5, <1>6, <1>7

\* An input gets an identity that nothing has.
LEMMA InputIsNew ==
  ASSUME TypeOK, TaskInv
  PROVE  /\ NewId(status) \in Nat /\ NewId(status) \notin DOMAIN status
         /\ DOMAIN Accept(status) = DOMAIN status \cup {NewId(status)}
         /\ ~Begun(NewId(status)) /\ NewId(status) \notin Ids(queue)
<1>1. status \in Seq(Status)
  BY DEF TypeOK
<1>2. /\ NewId(status) \in Nat /\ NewId(status) \notin DOMAIN status
      /\ DOMAIN Accept(status) = DOMAIN status \cup {NewId(status)}
  BY <1>1 DEF NewId, Accept
<1>3. Ids(queue) \subseteq DOMAIN status
  BY DEF TypeOK, Ids
<1> QED BY <1>2, <1>3 DEF TaskInv, NamesAreNew

\* The turns of the queue stay, begin or are dropped; an input joins them.
LEMMA QueueSteps ==
  ASSUME TypeOK, TaskInv, DOMAIN status \subseteq DOMAIN status'
  PROVE  /\ queue' = queue => QueueMoves
         /\ queue' = <<>> => QueueMoves
         /\ (queue # <<>> /\ queue' \in {Tail(queue), <<>>} =>
              QueueMoves /\ MayBegin(Head(queue).id) /\ Head(queue).id \in Nat)
         /\ \A f \in FollowUps : f.id = NewId(status) /\ f.id \in DOMAIN status' =>
              /\ queue' = Enqueue(queue, f) => QueueMoves
              /\ queue' = <<f>> => QueueMoves
              /\ queue' \in {queue, <<>>} => MayBegin(f.id)
<1>1. OneEach(queue) /\ queue \in Seq(FollowUps)
  BY DEF TaskInv, NamesAreNew, TypeOK, FollowUps
<1>2. queue' = queue => QueueMoves
  BY <1>1 DEF QueueMoves
<1>3. queue' = <<>> => QueueMoves
  BY ShortMoves DEF QueueMoves
<1>4. ASSUME queue # <<>>, queue' \in {Tail(queue), <<>>}
      PROVE  QueueMoves /\ MayBegin(Head(queue).id) /\ Head(queue).id \in Nat
  <2>1. /\ Head(queue).id \in Ids(queue) /\ Head(queue).id \notin Ids(queue')
        /\ Ids(queue') \subseteq Ids(queue) /\ OneEach(queue')
    BY <1>1, <1>4, TailMoves, ShortMoves
  <2>2. Head(queue).id \in DOMAIN status
    BY <2>1 DEF Ids, TypeOK
  <2>3. ~Begun(Head(queue).id)
    BY <2>1 DEF TaskInv, NamesAreNew
  <2>4. DOMAIN status \subseteq Nat
    BY DEF TypeOK
  <2> QED BY <2>1, <2>2, <2>3, <2>4 DEF QueueMoves, MayBegin
<1>5. ASSUME NEW f \in FollowUps, f.id = NewId(status), f.id \in DOMAIN status'
      PROVE  /\ queue' = Enqueue(queue, f) => QueueMoves
             /\ queue' = <<f>> => QueueMoves
             /\ queue' \in {queue, <<>>} => MayBegin(f.id)
  <2>1. ~Begun(f.id) /\ f.id \notin Ids(queue) /\ f.id \notin DOMAIN status
    BY <1>5, InputIsNew
  <2>2. queue' = Enqueue(queue, f) => Ids(queue') = Ids(queue) \cup {f.id} /\ OneEach(queue')
    BY <1>1, <2>1, EnqueueMoves
  <2>3. queue' = <<f>> => Ids(queue') = {f.id} /\ OneEach(queue')
    BY ShortMoves
  <2>4. queue' \in {queue, <<>>} => f.id \notin Ids(queue')
    BY <2>1, ShortMoves
  <2> QED BY <1>5, <2>1, <2>2, <2>3, <2>4 DEF QueueMoves, MayBegin
<1> QED BY <1>2, <1>3, <1>4, <1>5
-----------------------------------------------------------------------------
(* Commands                                                                *)

\* What a step does to the tasks is safe; without input during a clear, the
\* turns also keep apart.
TaskStep == TaskInv' /\ (LoneInv /\ ~InputDuringClear => LoneInv')

\* A handler also leaves the exchanges true, given what it does to the mailbox,
\* the conversation and the batch.
HandlerStep ==
  /\ TaskInv' /\ (LoneInv /\ ~InputDuringClear => LoneInv')
  /\ (TellInv /\ Moves => TellInv')

\* A machine at rest has no work of its own.
LEMMA NotAtWork ==
  /\ IsIdle => ~AtWork /\ Between /\ Ended /\ ~ClearPending
  /\ (BecomeIdle(status) => ~AtWork' /\ UNCHANGED <<runs, execs, cleanups>>)
  /\ \A st : BecomeIdle(st) => ~AtWork' /\ UNCHANGED <<runs, execs, cleanups>>
  /\ \A id, st : BecomeWaiting(id, st) => ~AtWork' /\ UNCHANGED <<runs, execs, cleanups>>
BY DEF IsIdle, AtWork, Between, Ended, ClearPending, BecomeIdle, BecomeWaiting

\* A machine at rest stays at rest.
LEMMA IdleKeeps ==
  ASSUME TypeOK, TaskInv, QueueMoves, MailShrinks, IsIdle,
         ~AtWork', UNCHANGED <<runs, execs, cleanups>>
  PROVE  HandlerStep
<1>1. NoUnownedWork'
  BY RestIsOwned, NotAtWork
<1> QED BY <1>1, RestKeeps, NotAtWork DEF HandlerStep

\* ... or begins a turn.
LEMMA IdleBegins ==
  ASSUME TypeOK, TaskInv, QueueMoves, MailShrinks, IsIdle,
         NEW f, f.id \in Nat, NEW g, NEW st, Begin(f, g, st), MayBegin(f.id)
  PROVE  HandlerStep
BY BeginKeeps, NotAtWork DEF HandlerStep

\* Input begins a turn, waits or is queued, and leaves other work alone.
LEMMA StartKeepsTasks ==
  ASSUME TypeOK, TaskInv, NEW kind \in Starts, Start(kind)
  PROVE  HandlerStep
<1> DEFINE f  == FollowUp(NewId(status), kind)
           st == Accept(status)
<1>1. EngineType /\ kind \in {"Provider", "Tool"}
  BY TypeParts, StartsAssumption
<1>2. /\ f \in FollowUps /\ f.id = NewId(status) /\ f.id \in DOMAIN st /\ f.id \in Nat
      /\ DOMAIN status \subseteq DOMAIN st
  BY <1>1, InputType DEF FollowUps
<1>3. MailShrinks
  BY MailMoves DEF Start, MailShrinks
<1>4. ~InputDuringClear => ~ClearPending
  BY DEF Start, MayInput
<1>5. \/ /\ phase = "Idle"
         /\ Begin(f, gate, st) /\ UNCHANGED queue
      \/ /\ phase = "Idle"
         /\ queue' = Enqueue(queue, f)
         /\ BecomeWaiting(f.id, Report(st, f.id, "WaitingForInput"))
      \/ /\ queue' = Enqueue(queue, f) /\ status' = st
         /\ UNCHANGED <<phase, turn, cleanup, runs, execs, cleanups>>
  BY DEF Start
<1> HIDE DEF f, st
<1>6. CASE phase = "Idle" /\ Begin(f, gate, st) /\ UNCHANGED queue
  <2>1. DOMAIN status' = DOMAIN st
    BY <1>6, EngineStatus
  <2>2. QueueMoves /\ MayBegin(f.id)
    BY <1>2, <1>6, <2>1, QueueSteps
  <2> QED BY <1>2, <1>3, <1>6, <2>2, IdleBegins DEF IsIdle
<1>7. CASE /\ phase = "Idle" /\ queue' = Enqueue(queue, f)
           /\ BecomeWaiting(f.id, Report(st, f.id, "WaitingForInput"))
  <2>1. DOMAIN status' = DOMAIN st
    BY <1>7, EngineStatus DEF BecomeWaiting
  <2>2. QueueMoves
    BY <1>2, <1>7, <2>1, QueueSteps
  <2> QED BY <1>3, <1>7, <2>2, NotAtWork, IdleKeeps DEF IsIdle
<1>8. CASE /\ queue' = Enqueue(queue, f) /\ status' = st
           /\ UNCHANGED <<phase, turn, cleanup, runs, execs, cleanups>>
  <2>1. QueueMoves
    BY <1>2, <1>8, QueueSteps
  <2>2. ~InputDuringClear => ~ClearPending'
    BY <1>4, <1>8 DEF ClearPending
  <2> QED BY <1>3, <1>8, <2>1, <2>2, SameKeeps DEF HandlerStep
<1> QED BY <1>5, <1>6, <1>7, <1>8

\* Steering cancels the work of the turn it replaces.
LEMMA SteerKeepsTasks ==
  ASSUME TypeOK, TaskInv, Steer
  PROVE  HandlerStep
<1> DEFINE f  == FollowUp(NewId(status), "Provider")
           st == CancelQueue(Accept(status), queue)
<1>1. EngineType
  BY TypeParts
<1>2. /\ f \in FollowUps /\ f.id = NewId(status) /\ f.id \in DOMAIN st /\ f.id \in Nat
      /\ DOMAIN status \subseteq DOMAIN st
  BY <1>1, InputType, EngineStatus DEF FollowUps
<1>3. MailShrinks
  BY MailMoves DEF Steer, MailShrinks
<1>4. ~InputDuringClear => ~ClearPending
  BY DEF Steer, MayInput
<1> DEFINE cancelled == Report(st, turn.id, "Cancelled")
<1>5. \/ IsIdle /\ queue' = <<>> /\ Begin(f, gate, st)
      \/ IsIdle /\ queue' = <<>> /\ Begin(f, gate, cancelled)
      \/ IsIdle /\ queue' = <<f>> /\ BecomeWaiting(f.id, Report(st, f.id, "WaitingForInput"))
      \/ /\ IsIdle /\ queue' = <<f>>
         /\ BecomeWaiting(f.id, Report(cancelled, f.id, "WaitingForInput"))
      \/ /\ phase \in {"Provider", "Tools"} /\ queue' = <<f>>
         /\ Stop(turn, batch, phase, "Cancelled", FALSE, st)
      \/ /\ phase = "Stopping" /\ queue' = <<f>> /\ status' = st
         /\ cleanup' = [cleanup EXCEPT !.outcome =
                          IF @ = "WaitingForInput" THEN "Cancelled" ELSE @]
         /\ UNCHANGED <<phase, turn, batch, runs, execs, cleanups>>
  BY DEF Steer, IsIdle
<1>6. DOMAIN cancelled = DOMAIN st
  BY EngineStatus
<1> HIDE DEF f, st, cancelled
<1>7. DOMAIN status' = DOMAIN st
  <2>1. /\ \A id, s : BecomeWaiting(id, Report(st, id, s)) => DOMAIN status' = DOMAIN st
        /\ \A id, s : BecomeWaiting(id, Report(cancelled, id, s)) => DOMAIN status' = DOMAIN st
        /\ Begin(f, gate, st) => DOMAIN status' = DOMAIN st
        /\ Begin(f, gate, cancelled) => DOMAIN status' = DOMAIN st
        /\ Stop(turn, batch, phase, "Cancelled", FALSE, st) => DOMAIN status' = DOMAIN st
    BY <1>6, EngineStatus
  <2> QED BY <1>5, <2>1
<1>8. QueueMoves /\ (queue' = <<>> => MayBegin(f.id))
  BY <1>2, <1>5, <1>7, QueueSteps
<1>9. CASE /\ IsIdle /\ queue' = <<>>
           /\ Begin(f, gate, st) \/ Begin(f, gate, cancelled)
  BY <1>2, <1>3, <1>8, <1>9, IdleBegins
<1>10. CASE /\ IsIdle
            /\ \/ BecomeWaiting(f.id, Report(st, f.id, "WaitingForInput"))
               \/ BecomeWaiting(f.id, Report(cancelled, f.id, "WaitingForInput"))
  BY <1>3, <1>8, <1>10, NotAtWork, IdleKeeps
<1>11. CASE /\ phase \in {"Provider", "Tools"}
            /\ Stop(turn, batch, phase, "Cancelled", FALSE, st)
  <2>1. turn \in Turns /\ turn.op >= turn.op /\ AtWork /\ ~Between
    BY <1>11 DEF TypeOK, Turns, AtWork, Between
  <2>2. ClearsQueue(FALSE)
    BY DEF ClearsQueue
  <2> QED BY <1>3, <1>8, <1>11, <2>1, <2>2, StopKeeps DEF HandlerStep
<1>12. CASE /\ phase = "Stopping"
            /\ cleanup' = [cleanup EXCEPT !.outcome =
                             IF @ = "WaitingForInput" THEN "Cancelled" ELSE @]
            /\ UNCHANGED <<phase, turn, batch, runs, execs, cleanups>>
  <2>1. cleanup'.clear = cleanup.clear
    BY <1>12 DEF TypeOK, Cleanups
  <2>2. ~InputDuringClear => ~ClearPending'
    BY <1>4, <1>12, <2>1 DEF ClearPending
  <2> QED BY <1>3, <1>8, <1>12, <2>2, SameKeeps DEF HandlerStep
<1> QED BY <1>5, <1>9, <1>10, <1>11, <1>12

\* An interrupt cancels the work of the turn it stops.
LEMMA InterruptKeepsTasks ==
  ASSUME TypeOK, TaskInv, NEW clear, InterruptEngine(clear), UNCHANGED mailbox
  PROVE  HandlerStep
<1> DEFINE st == CancelQueue(status, queue)
<1>1. MailShrinks /\ queue' = <<>>
  BY MailMoves DEF InterruptEngine, MailShrinks, DrainQueue
<1>2. \/ IsIdle /\ BecomeIdle(st)
      \/ IsIdle /\ BecomeIdle(Report(st, turn.id, "Cancelled"))
      \/ phase \in {"Provider", "Tools"} /\ Stop(turn, batch, phase, "Cancelled", clear, st)
      \/ status' = st /\ UNCHANGED <<phase, turn, batch, runs, execs, cleanups>>
  BY DEF InterruptEngine, IsIdle
<1>3. DOMAIN status' = DOMAIN status
  BY <1>2, EngineStatus DEF BecomeIdle
<1>4. QueueMoves
  BY <1>1, <1>3, QueueSteps
<1> HIDE DEF st
<1>5. CASE IsIdle /\ (BecomeIdle(st) \/ BecomeIdle(Report(st, turn.id, "Cancelled")))
  BY <1>1, <1>4, <1>5, NotAtWork, IdleKeeps
<1>6. CASE phase \in {"Provider", "Tools"} /\ Stop(turn, batch, phase, "Cancelled", clear, st)
  <2>1. turn \in Turns /\ turn.op >= turn.op /\ AtWork /\ ~Between
    BY <1>6 DEF TypeOK, Turns, AtWork, Between
  <2>2. ClearsQueue(clear)
    BY <1>1 DEF ClearsQueue
  <2> QED BY <1>1, <1>4, <1>6, <2>1, <2>2, StopKeeps DEF HandlerStep
<1>7. CASE UNCHANGED <<phase, turn, batch, runs, execs, cleanups>>
  BY <1>1, <1>4, <1>7, SameKeeps DEF HandlerStep
<1> QED BY <1>2, <1>5, <1>6, <1>7

\* Another session is activated only at rest.
LEMMA ResumeKeepsTasks ==
  ASSUME TypeOK, TaskInv, NEW restored, Resume(restored)
  PROVE  HandlerStep
<1>1. MailShrinks /\ queue' = <<>> /\ IsIdle
  BY MailMoves DEF Resume, MailShrinks
<1>2. \E st : BecomeIdle(st) /\ DOMAIN st = DOMAIN status
  <2> DEFINE saved == SaveQueue(status, queue)
  <2>1. BecomeIdle(saved) \/ BecomeIdle(Report(saved, turn.id, "Saved"))
    BY DEF Resume
  <2>2. DOMAIN saved = DOMAIN status /\ DOMAIN Report(saved, turn.id, "Saved") = DOMAIN saved
    BY EngineStatus
  <2> QED BY <2>1, <2>2
<1>3. DOMAIN status' = DOMAIN status
  BY <1>2 DEF BecomeIdle
<1>4. QueueMoves
  BY <1>1, <1>3, QueueSteps
<1> QED BY <1>1, <1>2, <1>4, NotAtWork, IdleKeeps

\* A handler that leaves the engine and the queue alone.
LEMMA ElsewhereKeeps ==
  ASSUME TypeOK, TaskInv, MailShrinks, UNCHANGED <<engine, queue>>
  PROVE  HandlerStep
<1>1. QueueMoves
  BY QueueSteps DEF engine
<1>2. (ClearPending' <=> ClearPending) /\ queue' = queue
  BY DEF ClearPending, engine
<1> QED BY <1>1, <1>2, SameKeeps DEF HandlerStep, engine, LoneInv

\* An answer begins a turn only at rest.
LEMMA QuestionsKeepTasks ==
  ASSUME TypeOK, TaskInv, MailShrinks, NEW g, QuestionsChanged(g)
  PROVE  HandlerStep
<1>1. CASE Wakes(g) /\ queue # <<>> /\ queue' = Tail(queue) /\ Begin(Head(queue), g, status)
  <2>1. DOMAIN status' = DOMAIN status
    BY <1>1, EngineStatus
  <2>2. QueueMoves /\ MayBegin(Head(queue).id) /\ Head(queue).id \in Nat
    BY <1>1, <2>1, QueueSteps
  <2> QED BY <1>1, <2>2, IdleBegins DEF Wakes
<1>2. CASE /\ Wakes(g) /\ queue' = queue
           /\ Begin(FollowUp(NewId(status), "Provider"), g, Accept(status))
  <2> DEFINE f == FollowUp(NewId(status), "Provider")
             st == Accept(status)
  <2>1. /\ f \in FollowUps /\ f.id = NewId(status) /\ f.id \in DOMAIN st /\ f.id \in Nat
        /\ DOMAIN status \subseteq DOMAIN st
    BY InputType, TypeParts DEF FollowUps
  <2> HIDE DEF f, st
  <2>2. Begin(f, g, st)
    BY <1>2 DEF f, st
  <2>3. DOMAIN status' = DOMAIN st
    BY <2>2, EngineStatus
  <2>4. QueueMoves /\ MayBegin(f.id)
    BY <1>2, <2>1, <2>3, QueueSteps
  <2> QED BY <1>2, <2>1, <2>2, <2>4, IdleBegins DEF Wakes
<1>3. CASE UNCHANGED <<engine, queue>>
  BY <1>3, ElsewhereKeeps
<1> QED BY <1>1, <1>2, <1>3 DEF QuestionsChanged

\* A request of the parent begins a turn only at rest.
LEMMA StartWorkerKeepsTasks ==
  ASSUME TypeOK, TaskInv, StartWorker
  PROVE  HandlerStep
<1>1. MailShrinks /\ queue' = queue
  BY MailMoves DEF StartWorker, MailShrinks
<1>2. CASE phase = "Idle" /\ Begin(FollowUp(NewId(status), "Provider"), gate, Accept(status))
  <2> DEFINE f == FollowUp(NewId(status), "Provider")
             st == Accept(status)
  <2>1. /\ f \in FollowUps /\ f.id = NewId(status) /\ f.id \in DOMAIN st /\ f.id \in Nat
        /\ DOMAIN status \subseteq DOMAIN st
    BY InputType, TypeParts DEF FollowUps
  <2> HIDE DEF f, st
  <2>2. Begin(f, gate, st)
    BY <1>2 DEF f, st
  <2>3. DOMAIN status' = DOMAIN st
    BY <2>2, EngineStatus
  <2>4. QueueMoves /\ MayBegin(f.id)
    BY <1>1, <2>1, <2>3, QueueSteps
  <2> QED BY <1>1, <1>2, <2>1, <2>2, <2>4, IdleBegins DEF IsIdle
<1>3. CASE UNCHANGED engine
  BY <1>1, <1>3, ElsewhereKeeps
<1> QED BY <1>2, <1>3 DEF StartWorker
-----------------------------------------------------------------------------
(* Messages                                                                *)

\* A handler takes the head of the mailbox.
LEMMA DeliverTakes ==
  ASSUME TypeOK, NEW kind, Deliver(kind)
  PROVE  MailShrinks /\ Head(mailbox) \in Mail /\ Head(mailbox).kind = kind
BY MailMoves DEF Deliver, MailShrinks

\* The tag of the next operation of the turn at work.
Follows(t) == t \in Turns /\ t.id = turn.id /\ t.op > turn.op

\* The tags that the handlers give to the next operation.
LEMMA NextOps ==
  ASSUME TypeOK
  PROVE  /\ Follows(NextRun(turn))
         /\ Follows([NextRun(turn) EXCEPT !.plans = 0])
         /\ Follows([NextRun(turn) EXCEPT !.plans = @ + 1])
         /\ Follows([turn EXCEPT !.op = @ + 1, !.attempt = @ + 1])
<1>1. /\ turn \in Turns /\ turn.op \in Nat /\ turn.plans \in Nat
      /\ turn.attempt \in Nat /\ turn.id \in Nat /\ turn.failures \in Nat
  BY DEF TypeOK, Turns
<1>2. NextRun(turn) = [turn EXCEPT !.op = turn.op + 1, !.attempt = 0]
  BY DEF NextRun
<1> DEFINE Step(o, a) == [turn EXCEPT !.op = o, !.attempt = a]
<1>3. ASSUME NEW o \in Nat, NEW a \in Nat, o > turn.op
      PROVE  Follows(Step(o, a)) /\ Step(o, a).plans \in Nat
  BY <1>1, <1>3 DEF Turns, Follows
<1>4. turn.op + 1 \in Nat /\ turn.op + 1 > turn.op /\ turn.attempt + 1 \in Nat
  BY <1>1
<1> HIDE DEF Step
<1>5. Follows(NextRun(turn)) /\ NextRun(turn).plans \in Nat
  <2>1. NextRun(turn) = Step(turn.op + 1, 0)
    BY <1>2 DEF Step
  <2> QED BY <1>3, <1>4, <2>1
<1> DEFINE n == NextRun(turn)
<1>6. n \in Turns /\ n.id = turn.id /\ n.op > turn.op /\ n.plans + 1 \in Nat
  BY <1>5 DEF Follows
<1> HIDE DEF n
<1>7. Follows([n EXCEPT !.plans = 0])
  BY <1>6 DEF Turns, Follows
<1>8. Follows([n EXCEPT !.plans = @ + 1])
  BY <1>6 DEF Turns, Follows
<1>9. Follows([turn EXCEPT !.op = @ + 1, !.attempt = @ + 1])
  BY <1>3, <1>4 DEF Step
<1> QED BY <1>5, <1>7, <1>8, <1>9 DEF n

\* A request is answered by its retry, by the next operation or by the end.
LEMMA RequestContinues ==
  ASSUME TypeOK, TaskInv, MailShrinks, QueueMoves, phase = "Provider"
  PROVE  /\ \A t, st : Follows(t) /\ LaunchProvider(t, gate, TRUE, st) => HandlerStep
         /\ \A outcome, st :
              Stop(turn, NoBatch, "Provider", outcome, FALSE, st) => HandlerStep
<1>1. turn \in Turns /\ turn.op >= turn.op /\ AtWork /\ ~Between
  BY DEF TypeOK, Turns, AtWork, Between
<1>2. ASSUME NEW t, NEW st, Follows(t), LaunchProvider(t, gate, TRUE, st)
      PROVE  HandlerStep
  BY <1>1, <1>2, LaunchProviderKeeps DEF HandlerStep, Follows
<1>3. ASSUME NEW outcome, NEW st, Stop(turn, NoBatch, "Provider", outcome, FALSE, st)
      PROVE  HandlerStep
  <2>1. ClearsQueue(FALSE)
    BY DEF ClearsQueue
  <2> QED BY <1>1, <1>3, <2>1, StopKeeps DEF HandlerStep
<1> QED BY <1>2, <1>3

\* A failed request is repeated or ends the turn.
LEMMA ProviderFailedKeeps ==
  ASSUME TypeOK, TaskInv, MailShrinks, phase = "Provider",
         NEW failure, ProviderFailed(failure)
  PROVE  HandlerStep
<1> DEFINE st == IF failure = "UsageLimit" THEN CancelQueue(status, queue) ELSE status
           t  == [turn EXCEPT !.op = @ + 1, !.attempt = @ + 1]
<1>1. /\ LaunchProvider(t, gate, TRUE, st) \/ Stop(turn, NoBatch, "Provider", "Failed", FALSE, st)
      /\ queue' \in {queue, <<>>}
  BY DEF ProviderFailed
<1>2. Follows(t)
  BY NextOps
<1>3. DOMAIN st = DOMAIN status
  BY EngineStatus
<1> HIDE DEF st, t
<1>4. DOMAIN status' = DOMAIN status
  BY <1>1, <1>3, EngineStatus
<1>5. QueueMoves
  BY <1>1, <1>4, QueueSteps
<1> QED BY <1>1, <1>2, <1>5, RequestContinues

\* An answer is followed by one operation of the turn that asked, or by none.
LEMMA ReceiveProviderKeepsTasks ==
  ASSUME TypeOK, TaskInv, ReceiveProvider
  PROVE  HandlerStep
<1> DEFINE m == Head(mailbox)
           u == ForMode(m.what)
<1>1. MailShrinks /\ m \in Mail /\ m.kind = "Provider"
  BY DeliverTakes DEF ReceiveProvider
<1>2. CASE UNCHANGED <<engine, queue>>
  BY <1>1, <1>2, ElsewhereKeeps
<1>3. CASE phase = "Provider" /\ IsTagged(m, turn) /\ AcceptUpdate(u)
  <2>1. u = "Tools" => m.what = "Tools"
    BY DEF ForMode
  <2> HIDE DEF u
  <2>2. /\ turn \in Turns /\ turn.plans \in Nat
    BY DEF TypeOK, Turns
  <2>3. CASE u = "Tools" /\ UNCHANGED queue /\
               \E n \in 1..MaxJobs : LaunchTools([NextRun(turn) EXCEPT !.plans = 0], n, status)
    <3> DEFINE t == [NextRun(turn) EXCEPT !.plans = 0]
    <3>1. Follows(t)
      BY NextOps
    <3>2. PICK n \in 1..MaxJobs : LaunchTools(t, n, status)
      BY <2>3
    <3> HIDE DEF t
    <3>3. DOMAIN status' = DOMAIN status
      BY <3>2, EngineStatus
    <3>4. QueueMoves
      BY <2>3, <3>3, QueueSteps
    <3>5. \A r \in runs : r.cancelled
      BY <1>1, <1>3, <2>1, <2>3
         DEF TaskInv, NoUnownedWork, ReportsAreLate, IsTagged, Same
    <3>6. ~Between
      BY <1>3 DEF Between
    <3> QED BY <1>1, <1>3, <3>1, <3>2, <3>4, <3>5, <3>6, LaunchToolsKeeps DEF HandlerStep, Follows
  <2>4. CASE UNCHANGED queue /\ LaunchProvider(NextRun(turn), gate, TRUE, status)
    <3>1. DOMAIN status' = DOMAIN status
      BY <2>4, EngineStatus
    <3>2. QueueMoves
      BY <2>4, <3>1, QueueSteps
    <3> QED BY <1>1, <1>3, <2>4, <3>2, NextOps, RequestContinues
  <2>5. CASE UNCHANGED queue /\ Stop(turn, NoBatch, "Provider", "Completed", FALSE, status)
    <3>1. DOMAIN status' = DOMAIN status
      BY <2>5, EngineStatus
    <3>2. QueueMoves
      BY <2>5, <3>1, QueueSteps
    <3> QED BY <1>1, <1>3, <2>5, <3>2, RequestContinues
  <2>6. CASE UNCHANGED queue /\
               LaunchProvider([NextRun(turn) EXCEPT !.plans = @ + 1], gate, TRUE, status)
    <3> DEFINE t == [NextRun(turn) EXCEPT !.plans = @ + 1]
    <3>1. Follows(t)
      BY NextOps
    <3>2. LaunchProvider(t, gate, TRUE, status)
      BY <2>6
    <3> HIDE DEF t
    <3>3. DOMAIN status' = DOMAIN status
      BY <3>2, EngineStatus
    <3>4. QueueMoves
      BY <2>6, <3>3, QueueSteps
    <3> QED BY <1>1, <1>3, <3>1, <3>2, <3>4, RequestContinues
  <2>7. CASE \E failure : ProviderFailed(failure)
    BY <1>1, <1>3, <2>7, ProviderFailedKeeps
  <2> QED BY <1>3, <2>3, <2>4, <2>5, <2>6, <2>7 DEF AcceptUpdate
<1> QED BY <1>2, <1>3 DEF ReceiveProvider

\* Progress of a batch changes no task.
LEMMA ToolEventKeepsTasks ==
  ASSUME TypeOK, TaskInv,
         ReceiveStarted \/ \E failed \in BOOLEAN : ReceiveCompleted(failed)
  PROVE  HandlerStep
<1>1. MailShrinks
  BY DeliverTakes DEF ReceiveStarted, ReceiveCompleted
<1>2. /\ UNCHANGED <<phase, cleanup, queue, runs, execs, cleanups, status>>
      /\ turn'.id = turn.id /\ turn'.op = turn.op
  BY DEF ReceiveStarted, ReceiveCompleted, ToolHandlerUnchanged, TypeOK, Turns
<1>3. QueueMoves
  BY <1>2, QueueSteps
<1>4. ClearPending' <=> ClearPending
  BY <1>2 DEF ClearPending
<1> QED BY <1>1, <1>2, <1>3, <1>4, SameKeeps DEF HandlerStep, LoneInv

\* The end of a batch is followed by a request once its executor has ended.
LEMMA ReceiveFinishedKeepsTasks ==
  ASSUME TypeOK, TaskInv, ReceiveFinished
  PROVE  HandlerStep
<1> DEFINE m == Head(mailbox)
<1>1. MailShrinks /\ m \in Mail /\ m.kind = "Finished" /\ queue' = queue
  BY DeliverTakes DEF ReceiveFinished
<1>2. turn \in Turns /\ turn.op >= turn.op
  BY DEF TypeOK, Turns
<1>3. CASE phase = "Tools" /\ Stop(turn, batch, "Tools", "Failed", FALSE, status)
  <2>1. QueueMoves
    BY <1>1, <1>3, EngineStatus, QueueSteps
  <2>2. ClearsQueue(FALSE) /\ AtWork /\ ~Between
    BY <1>3 DEF ClearsQueue, AtWork, Between
  <2> QED BY <1>1, <1>2, <1>3, <2>1, <2>2, StopKeeps DEF HandlerStep
<1>4. CASE /\ phase = "Tools" /\ IsTagged(m, turn)
           /\ LaunchProvider(NextRun(turn), gate, FALSE, status)
  <2>1. QueueMoves
    BY <1>1, <1>4, EngineStatus, QueueSteps
  <2>2. \A e \in execs : e.live => e.cancelled
    BY <1>1, <1>4 DEF TaskInv, NoUnownedWork, ReportsAreLate, IsTagged, Same
  <2>3. ~Between
    BY <1>4 DEF Between
  <2> QED BY <1>1, <1>4, <2>1, <2>2, <2>3, NextOps, LaunchProviderKeeps
     DEF HandlerStep, Follows
<1>5. CASE UNCHANGED engine
  BY <1>1, <1>5, ElsewhereKeeps
<1> QED BY <1>3, <1>4, <1>5 DEF ReceiveFinished

\* A question of a tool changes no task of the turn at work.
LEMMA ReceiveAskKeepsTasks ==
  ASSUME TypeOK, TaskInv, ReceiveAsk
  PROVE  HandlerStep
<1>1. MailShrinks
  BY DeliverTakes DEF ReceiveAsk
<1>2. CASE \E g : QuestionsChanged(g)
  BY <1>1, <1>2, QuestionsKeepTasks
<1>3. CASE UNCHANGED <<engine, queue>>
  BY <1>1, <1>3, ElsewhereKeeps
<1> QED BY <1>2, <1>3 DEF ReceiveAsk

\* ... nor does its answer.
LEMMA AnswerKeepsTasks ==
  ASSUME TypeOK, TaskInv, Answer
  PROVE  HandlerStep
<1>1. MailShrinks
  BY MailMoves DEF Answer, MailShrinks
<1>2. CASE \E g : QuestionsChanged(g)
  BY <1>1, <1>2, QuestionsKeepTasks
<1>3. CASE UNCHANGED <<engine, queue>>
  BY <1>1, <1>3, ElsewhereKeeps
<1> QED BY <1>2, <1>3 DEF Answer
\* A stopping turn whose cleanup is reported has no task left.
LEMMA CleanupEnds ==
  ASSUME LoneInv, Head(mailbox) \in Mail, Head(mailbox).kind = "Cleanup",
         Head(mailbox).turn = turn.id
  PROVE  Ended
BY DEF LoneInv, Ended

\* The next turn begins, or the machine comes to rest.
LEMMA AfterTurnKeeps ==
  ASSUME TypeOK, TaskInv, MailShrinks, Between, LoneInv => Ended,
         NEW st, DOMAIN st = DOMAIN status, NewId(st) = NewId(status),
         DOMAIN Accept(st) = DOMAIN Accept(status), AfterTurn(st)
  PROVE  HandlerStep
<1>1. CASE queue' = queue /\ (BecomeWaiting(turn.id, st) \/ BecomeIdle(st))
  <2>1. status' = st /\ ~AtWork' /\ UNCHANGED <<runs, execs, cleanups>>
    BY <1>1 DEF BecomeWaiting, BecomeIdle, AtWork
  <2>2. QueueMoves /\ NoUnownedWork'
    BY <1>1, <2>1, QueueSteps, RestIsOwned
  <2> QED BY <2>1, <2>2, RestKeeps DEF HandlerStep
<1>2. CASE queue # <<>> /\ queue' = Tail(queue) /\ Begin(Head(queue), gate, st)
  <2>1. DOMAIN status' = DOMAIN status
    BY <1>2, EngineStatus
  <2>2. QueueMoves /\ MayBegin(Head(queue).id) /\ Head(queue).id \in Nat
    BY <1>2, <2>1, QueueSteps
  <2> QED BY <1>2, <2>2, BeginKeeps DEF HandlerStep
<1>3. CASE queue' = queue /\ Begin(FollowUp(NewId(st), "Provider"), gate, Accept(st))
  <2> DEFINE f == FollowUp(NewId(status), "Provider")
             new == Accept(st)
  <2>1. /\ f \in FollowUps /\ f.id = NewId(status) /\ f.id \in DOMAIN new /\ f.id \in Nat
        /\ DOMAIN status \subseteq DOMAIN new
    BY InputType, TypeParts DEF FollowUps
  <2>2. Begin(f, gate, new)
    BY <1>3
  <2> HIDE DEF f, new
  <2>3. DOMAIN status' = DOMAIN new
    BY <2>2, EngineStatus
  <2>4. QueueMoves /\ MayBegin(f.id)
    BY <1>3, <2>1, <2>3, QueueSteps
  <2> QED BY <2>1, <2>2, <2>4, BeginKeeps DEF HandlerStep
<1> QED BY <1>1, <1>2, <1>3 DEF AfterTurn

\* The next turn of a cleared session is launched below a scope that is
\* cancelled.
LEMMA AfterClearKeeps ==
  ASSUME TypeOK, TaskInv, MailShrinks, ClearPending, LoneInv => Ended,
         NEW st, DOMAIN st = DOMAIN status, AfterClear(st)
  PROVE  HandlerStep
<1>1. Between /\ queue' = <<>> /\ ~AtWork'
  BY DEF ClearPending, Between, AfterClear, BecomeIdle, AtWork
<1>2. CASE BecomeIdle(st)
  <2>1. status' = st /\ UNCHANGED <<runs, execs, cleanups>>
    BY <1>2 DEF BecomeIdle
  <2>2. QueueMoves /\ NoUnownedWork'
    BY <1>1, <2>1, QueueSteps, RestIsOwned
  <2> QED BY <1>1, <2>1, <2>2, RestKeeps DEF HandlerStep
<1>3. CASE queue # <<>> /\ ~BecomeIdle(st)
  <2> DEFINE f  == Head(queue)
             t  == FirstRun(f.id)
             r0 == [NewRun(t) EXCEPT !.cancelled = TRUE]
             e0 == [NewExec(t, 1) EXCEPT !.cancelled = TRUE]
  <2>1. /\ \/ runs' = runs \cup {r0} /\ UNCHANGED <<execs, cleanups>>
           \/ execs' = execs \cup {e0} /\ UNCHANGED <<runs, cleanups>>
           \/ cleanups' = cleanups \cup {f.id} /\ UNCHANGED <<runs, execs>>
        /\ \/ status' = Report(st, f.id, "Running")
           \/ status' = Report(st, f.id, "WaitingForTools")
           \/ status' = st
    BY <1>3 DEF AfterClear
  <2>2. DOMAIN status' = DOMAIN status
    BY <2>1, EngineStatus
  <2>3. QueueMoves /\ MayBegin(f.id) /\ f.id \in Nat
    BY <1>1, <1>3, <2>2, QueueSteps
  <2>4. /\ r0.turn = f.id /\ r0.op = 1 /\ r0.cancelled
        /\ e0.turn = f.id /\ e0.op = 1 /\ e0.cancelled
    BY DEF FirstRun, NoTurn, NewRun, NewExec
  <2>5. (\A r \in runs : r.cancelled) /\ (\A e \in execs : e.live => e.cancelled)
    BY <1>1 DEF TaskInv, NoUnownedWork, Between
  <2>6. RunsFade(runs) /\ ExecsFade(execs)
    BY TasksFade
  <2> HIDE DEF f, t, r0, e0
  <2>7. NoUnownedWork'
    BY <2>1, <2>4, <2>5 DEF NoUnownedWork
  <2>8. Continues(f.id, 1, runs' # runs \/ execs' # execs)
    BY <2>3 DEF Continues
  <2>9. TaskInv'
    BY <1>1, <2>1, <2>3, <2>4, <2>6, <2>7, <2>8, StepKeepsTasks
  <2>10. ~LoneInv
    BY <1>3 DEF LoneInv
  <2>11. ASSUME TellInv, Moves PROVE TellInv'
    <3>1. ExecsStay(execs) /\ phase' \notin {"Provider", "Tools"} /\ 1 \in Nat
      BY <1>1, ExecutorsStay DEF AtWork
    <3> QED BY <1>1, <2>1, <2>3, <2>4, <2>6, <2>11, <3>1, StepKeepsTold
  <2> QED BY <2>9, <2>10, <2>11 DEF HandlerStep
<1> QED BY <1>2, <1>3 DEF AfterClear

\* Intervals that agree have the same end.
LEMMA SameInterval ==
  ASSUME NEW k \in Nat, NEW l \in Nat, 1..k = 1..l PROVE k = l
<1>1. ASSUME k < l PROVE FALSE
  <2>1. l \in 1..l /\ l \notin 1..k
    BY <1>1
  <2> QED BY <2>1
<1>2. ASSUME l < k PROVE FALSE
  <2>1. k \in 1..k /\ k \notin 1..l
    BY <1>2
  <2> QED BY <2>1
<1> QED BY <1>1, <1>2

\* Sequences with the same domain have the same length.
LEMMA SameLength ==
  ASSUME NEW S, NEW p \in Seq(S), NEW q \in Seq(S), DOMAIN p = DOMAIN q
  PROVE  Len(p) = Len(q)
<1>1. /\ Len(p) \in Nat /\ Len(q) \in Nat
      /\ DOMAIN p = 1..Len(p) /\ DOMAIN q = 1..Len(q)
  OBVIOUS
<1> QED BY <1>1, SameInterval

\* The next turn begins when the cleanup of the one before is reported.
LEMMA ReceiveCleanupKeepsTasks ==
  ASSUME TypeOK, TaskInv, ReceiveCleanup
  PROVE  HandlerStep
<1> DEFINE m  == Head(mailbox)
           st == Report(status, turn.id, cleanup.outcome)
           current == phase = "Stopping" /\ m.turn = turn.id
<1>1. MailShrinks /\ m \in Mail /\ m.kind = "Cleanup"
  BY DeliverTakes DEF ReceiveCleanup
<1>2. DOMAIN st = DOMAIN status
  BY EngineStatus
<1>3. ASSUME phase = "Stopping"
      PROVE  NewId(st) = NewId(status) /\ DOMAIN Accept(st) = DOMAIN Accept(status)
  <2>1. cleanup.outcome \in Status
    BY <1>3, StatusNames DEF TypeOK, Outcomes
  <2>2. status \in Seq(Status) /\ st \in Seq(Status)
    BY <2>1, ReportType DEF TypeOK
  <2> HIDE DEF st
  <2>3. Len(st) = Len(status)
    BY <1>2, <2>2, SameLength
  <2> QED BY <2>2, <2>3 DEF NewId, Accept
<1>4. current => Between /\ (LoneInv => Ended)
  BY <1>1, CleanupEnds DEF Between
<1> HIDE DEF st
<1>5. CASE current /\ BecomeIdle(st) /\ UNCHANGED queue
  <2>1. status' = st /\ ~AtWork' /\ UNCHANGED <<runs, execs, cleanups>>
    BY <1>5 DEF BecomeIdle, AtWork
  <2>2. QueueMoves /\ NoUnownedWork'
    BY <1>2, <1>4, <1>5, <2>1, QueueSteps, RestIsOwned
  <2> QED BY <1>1, <1>4, <1>5, <2>1, <2>2, RestKeeps DEF HandlerStep
<1>6. CASE current /\ AfterTurn(st)
  BY <1>1, <1>2, <1>3, <1>4, <1>6, AfterTurnKeeps
<1>7. CASE current /\ cleanup.clear /\ AfterClear(st)
  <2>1. ClearPending
    BY <1>7 DEF ClearPending
  <2> QED BY <1>1, <1>2, <1>4, <1>7, <2>1, AfterClearKeeps
<1>8. CASE UNCHANGED <<engine, queue>>
  BY <1>1, <1>8, ElsewhereKeeps
<1> QED BY <1>5, <1>6, <1>7, <1>8 DEF ReceiveCleanup, st

-----------------------------------------------------------------------------
(* The end of the actor and the tasks                                      *)

\* An actor that stops cancels everything.
LEMMA ShutdownKeepsTasks ==
  ASSUME TypeOK, TaskInv, Shutdown
  PROVE  HandlerStep
<1>1. MailShrinks /\ QueueMoves /\ queue' = queue
  BY MailMoves, QueueSteps DEF Shutdown, MailShrinks
<1>2. /\ runs' = CancelAll(runs) /\ execs' = CancelAll(execs) /\ cleanups' = cleanups
      /\ phase' \notin {"Provider", "Tools"}
      /\ (AtWork /\ AtWork' /\ turn' = turn) \/ (IsIdle /\ ~AtWork')
      /\ ClearPending' => ClearPending
  BY DEF Shutdown, IsIdle, AtWork, ClearPending
<1>3. /\ RunsFade(runs') /\ ExecsFade(execs')
      /\ (\A r \in runs' : r.cancelled) /\ (\A e \in execs' : e.cancelled)
  BY <1>2, TasksFade
<1>4. NoUnownedWork'
  BY <1>3 DEF NoUnownedWork
<1>5. turn.op \in Nat
  BY DEF TypeOK, Turns
<1> DEFINE x == [turn |-> turn.id, op |-> turn.op]
<1>6. x.turn = turn.id /\ x.op = turn.op
  OBVIOUS
<1> HIDE DEF x
<1>7. CASE AtWork /\ AtWork' /\ turn' = turn
  <2>1. Continues(turn.id, turn.op, runs' # runs' \/ execs' # execs')
    BY <1>5, <1>7 DEF Continues
  <2>2. TaskInv'
    BY <1>1, <1>2, <1>3, <1>4, <1>5, <1>6, <1>7, <2>1, StepKeepsTasks
  <2>3. ASSUME LoneInv PROVE LoneInv'
    <3>1. ClearPending' => queue' = <<>>
      BY <1>1, <1>2, <2>3 DEF LoneInv
    <3> QED BY <1>1, <1>2, <1>3, <1>6, <1>7, <2>3, <3>1, StepKeepsLone
  <2>4. ASSUME TellInv, Moves PROVE TellInv'
    <3>1. ExecsStay(execs')
      BY <1>2, ExecutorsStay
    <3> QED BY <1>2, <1>3, <1>5, <1>6, <1>7, <2>4, <3>1, StepKeepsTold
  <2> QED BY <2>2, <2>3, <2>4 DEF HandlerStep
<1>8. CASE IsIdle /\ ~AtWork'
  <2>1. TaskInv'
    BY <1>1, <1>2, <1>3, <1>4, <1>5, <1>6, <1>8, StepKeepsTasks
  <2>2. ASSUME LoneInv PROVE LoneInv'
    <3>1. (ClearPending' => queue' = <<>>) /\ Ended
      BY <1>1, <1>2, <1>8, <2>2, NotAtWork DEF LoneInv
    <3> QED BY <1>1, <1>2, <1>3, <1>6, <1>8, <2>2, <3>1, StepKeepsLone
  <2>3. ASSUME TellInv, Moves PROVE TellInv'
    <3>1. ExecsStay(execs')
      BY <1>2, ExecutorsStay
    <3> QED BY <1>2, <1>3, <1>5, <1>6, <1>8, <2>3, <3>1, StepKeepsTold
  <2> QED BY <2>1, <2>2, <2>3 DEF HandlerStep
<1> QED BY <1>2, <1>7, <1>8

\* ... and ends without a task.
LEMMA ShutdownFinishedKeepsTasks ==
  ASSUME TypeOK, TaskInv, ShutdownFinished
  PROVE  HandlerStep
<1>1. MailShrinks /\ queue' = <<>>
  BY MailMoves DEF ShutdownFinished, MailShrinks
<1>2. DOMAIN status' = DOMAIN status
  <2> DEFINE st == CancelQueue(status, queue)
  <2>1. status' = Report(st, turn.id, "Cancelled") \/ status' = st
    BY DEF ShutdownFinished
  <2> QED BY <2>1, EngineStatus
<1>3. QueueMoves
  BY <1>1, <1>2, QueueSteps
<1>4. /\ ~AtWork' /\ UNCHANGED <<runs, execs, cleanups>>
      /\ runs = {} /\ \A e \in execs : ~e.live
  BY DEF ShutdownFinished, AtWork
<1>5. NoUnownedWork' /\ Ended
  BY <1>4 DEF NoUnownedWork, Ended, Drained, DrainedOfRuns
<1> QED BY <1>1, <1>3, <1>4, <1>5, RestKeeps DEF HandlerStep

\* A set of tasks fades when one leaves or is replaced by the same, ended.
LEMMA OneFades ==
  ASSUME TypeOK, TaskInv
  PROVE  /\ \A r \in runs : RunsFade(runs \ {r})
         /\ \A r \in runs : \A new :
              Same(new, r) /\ (r.cancelled => new.cancelled) =>
                RunsFade((runs \ {r}) \cup {new})
         /\ \A e \in execs : \A new :
              Same(new, e) /\ (new.live => e.live) /\ (e.cancelled => new.cancelled) =>
                ExecsFade((execs \ {e}) \cup {new})
<1>1. Distinct(runs) /\ Distinct(execs)
  BY DEF TaskInv, TagsAreNew
<1>2. ASSUME NEW r \in runs PROVE RunsFade(runs \ {r})
  BY <1>1 DEF RunsFade, Distinct, Same
<1>3. ASSUME NEW r \in runs, NEW new, Same(new, r), r.cancelled => new.cancelled
      PROVE  RunsFade((runs \ {r}) \cup {new})
  BY <1>1, <1>3 DEF RunsFade, Distinct, Same
<1>4. ASSUME NEW e \in execs, NEW new, Same(new, e), new.live => e.live,
             e.cancelled => new.cancelled
      PROVE  ExecsFade((execs \ {e}) \cup {new})
  BY <1>1, <1>4 DEF ExecsFade, Distinct, Same
<1> QED BY <1>2, <1>3, <1>4

\* What a task may tell the actor.
Reports(m) ==
  /\ \/ \E r \in runs : Same(m, r)
     \/ \E e \in execs : Same(m, e)
     \/ m.turn \in cleanups /\ m.op = 0
  /\ m.kind = "Provider" /\ m.what = "Tools" => \A r \in runs' : ~Same(m, r)
  /\ m.kind = "Finished" => \A e \in execs' : Same(m, e) => ~e.live
  /\ m.kind = "Cleanup" => m.turn \in cleanups /\ Drained(m.turn)

\* A task that reports or ends owns no more than it did.
LEMMA ReportKeeps ==
  ASSUME TypeOK, TaskInv, TaskUnchanged, RunsFade(runs'), ExecsFade(execs'),
         cleanups' \subseteq cleanups,
         NEW m, Mail' \subseteq Mail \/ (Mail' = Mail \cup {m} /\ Reports(m))
  PROVE  TaskStep
<1>1. UNCHANGED <<phase, turn, cleanup, queue, status>> /\ (AtWork' <=> AtWork)
  BY DEF TaskUnchanged, AtWork
<1>2. /\ \A r \in runs' : \E o \in runs : Same(r, o) /\ (o.cancelled => r.cancelled)
      /\ \A e \in execs' : \E o \in execs :
           Same(e, o) /\ (e.live => o.live) /\ (o.cancelled => e.cancelled)
      /\ Distinct(runs') /\ Distinct(execs')
  BY DEF RunsFade, ExecsFade
<1>3. ASSUME NEW n \in Mail', n \notin Mail PROVE n = m /\ Reports(m)
  BY <1>3
<1>4. \A n : Begun(n)' => Begun(n)
  BY <1>2, <1>3 DEF Begun, Same, Reports
<1>5. NamesAreNew'
  BY <1>1, <1>4 DEF TaskInv, NamesAreNew
<1>6. turn.op \in Nat
  BY DEF TypeOK, Turns
<1>7. TagsAreNew'
  <2>1. AtWork => /\ \A r \in runs' : r.turn = turn.id => r.op <= turn.op
                  /\ \A e \in execs' : e.turn = turn.id => e.op <= turn.op
    BY <1>2 DEF TaskInv, TagsAreNew, Same
  <2>2. ASSUME AtWork, NEW n \in Mail', n.turn = turn.id PROVE n.op <= turn.op
    <3>1. CASE n \in Mail
      BY <2>2, <3>1 DEF TaskInv, TagsAreNew
    <3>2. CASE n \notin Mail
      BY <1>3, <1>6, <2>2, <3>2 DEF TaskInv, TagsAreNew, Reports, Same
    <3> QED BY <3>1, <3>2
  <2> QED BY <1>1, <1>2, <2>1, <2>2 DEF TagsAreNew
<1>8. ReportsAreLate'
  <2>1. ASSUME NEW n \in Mail', NEW r \in runs', n.kind = "Provider", n.what = "Tools", Same(n, r)
        PROVE  r.cancelled
    <3>1. n \in Mail
      BY <1>3, <2>1 DEF Reports
    <3>2. PICK o \in runs : Same(r, o) /\ (o.cancelled => r.cancelled)
      BY <1>2
    <3>3. Same(n, o)
      BY <2>1, <3>2 DEF Same
    <3> QED BY <2>1, <3>1, <3>2, <3>3 DEF TaskInv, ReportsAreLate
  <2>2. ASSUME NEW n \in Mail', NEW e \in execs', n.kind = "Finished", Same(n, e)
        PROVE  ~e.live
    <3>1. CASE n \in Mail
      <4>1. PICK o \in execs : Same(e, o) /\ (e.live => o.live)
        BY <1>2
      <4>2. Same(n, o)
        BY <2>2, <4>1 DEF Same
      <4> QED BY <2>2, <3>1, <4>1, <4>2 DEF TaskInv, ReportsAreLate
    <3>2. CASE n \notin Mail
      BY <1>3, <2>2, <3>2 DEF Reports
    <3> QED BY <3>1, <3>2
  <2> QED BY <2>1, <2>2 DEF ReportsAreLate
<1>9. NoUnownedWork'
  BY <1>1, <1>2 DEF TaskInv, NoUnownedWork, IsTagged, Same
<1>10. ASSUME LoneInv PROVE LoneInv'
  <2>1. \A r \in runs' : AtWork' /\ r.turn = turn'.id
    BY <1>1, <1>2, <1>10 DEF LoneInv, Same
  <2>2. \A e \in execs' : e.live => AtWork' /\ e.turn = turn'.id
    BY <1>1, <1>2, <1>10 DEF LoneInv, Same
  <2>3. ASSUME NEW id, Drained(id) PROVE Drained(id)'
    BY <1>2, <2>3 DEF Drained, DrainedOfRuns, Same
  <2>4. \A n \in Mail' : n.kind = "Cleanup" => Drained(n.turn)
    BY <1>3, <1>10 DEF LoneInv, Reports
  <2>5. phase \in {"Provider", "Tools"} =>
          /\ turn.id \notin cleanups'
          /\ \A n \in Mail' : n.kind = "Cleanup" => n.turn # turn.id
    BY <1>3, <1>10 DEF LoneInv, Reports
  <2>6. ClearPending' => queue' = <<>>
    BY <1>1, <1>10 DEF LoneInv, ClearPending
  <2> QED BY <1>1, <2>1, <2>2, <2>3, <2>4, <2>5, <2>6 DEF LoneInv
<1> QED BY <1>5, <1>7, <1>8, <1>9, <1>10 DEF TaskInv, TaskStep

\* Steps of a provider task.
LEMMA ProviderStepKeepsTasks ==
  ASSUME TypeOK, TaskInv, NEW r \in runs,
         \/ \E u \in Updates, early \in BOOLEAN : ProviderSend(r, u, early)
         \/ ProviderLate(r)
         \/ ProviderCancelled(r)
  PROVE  TaskStep
<1>1. r \in Runs /\ TaskUnchanged /\ cleanups' = cleanups /\ execs' = execs
  BY DEF ProviderSend, ProviderLate, ProviderCancelled, TypeOK
<1>2. ExecsFade(execs')
  BY <1>1, TasksFade
<1>3. ASSUME NEW u \in Updates
      PROVE  LET m == Message("Provider", r, 0, u)
             IN  m \in Messages /\ Same(m, r) /\ m.kind = "Provider" /\ m.what = u
  BY <1>1 DEF Message, Messages, Runs, Same
<1>4. ASSUME NEW u \in Updates, NEW early \in BOOLEAN, ProviderSend(r, u, early)
      PROVE  TaskStep
  <2> DEFINE m == Message("Provider", r, 0, u)
             unread == [r EXCEPT !.state = "unread"]
  <2>1. m \in Messages /\ Same(m, r) /\ m.kind = "Provider" /\ m.what = u /\ Send(m)
    BY <1>3, <1>4 DEF ProviderSend
  <2>2. /\ runs' = runs \ {r} \/ runs' = (runs \ {r}) \cup {unread}
        /\ u = "Tools" => runs' = runs \ {r}
    BY <1>4 DEF ProviderSend, Failures
  <2>3. Same(unread, r) /\ (r.cancelled => unread.cancelled)
    BY <1>1 DEF Runs, Same
  <2> HIDE DEF m, unread
  <2>4. RunsFade(runs')
    BY <2>2, <2>3, OneFades
  <2>5. Mail' = Mail \cup {m}
    BY <2>1, MailMoves
  <2>6. u = "Tools" => \A other \in runs' : ~Same(m, other)
    BY <2>1, <2>2 DEF TaskInv, TagsAreNew, Distinct, Same
  <2>7. Reports(m)
    BY <2>1, <2>6 DEF Reports
  <2> QED BY <1>1, <1>2, <2>4, <2>5, <2>7, ReportKeeps
<1>5. CASE ProviderLate(r)
  <2> DEFINE m == Message("Provider", r, 0, "Transport")
  <2>1. m \in Messages /\ Same(m, r) /\ m.kind = "Provider" /\ m.what = "Transport" /\ Send(m)
    BY <1>3, <1>5 DEF ProviderLate, Updates, Failures
  <2> HIDE DEF m
  <2>2. RunsFade(runs') /\ Mail' = Mail \cup {m}
    BY <1>5, <2>1, OneFades, MailMoves DEF ProviderLate
  <2>3. Reports(m)
    BY <2>1 DEF Reports
  <2> QED BY <1>1, <1>2, <2>2, <2>3, ReportKeeps
<1>6. CASE ProviderCancelled(r)
  <2>1. RunsFade(runs') /\ Mail' = Mail
    BY <1>6, OneFades, MailMoves DEF ProviderCancelled
  <2> QED BY <1>1, <1>2, <2>1, ReportKeeps
<1> QED BY <1>4, <1>5, <1>6

\* An executor changes, and may say so.
LEMMA ExecutorKeeps ==
  ASSUME TypeOK, TaskInv, NEW e \in execs, TaskUnchanged, UNCHANGED <<runs, cleanups>>,
         NEW new, Change(e, new), Same(new, e), new.live => e.live,
         e.cancelled => new.cancelled
  PROVE  /\ UNCHANGED mailbox => TaskStep
         /\ \A kind, job, what :
              LET m == Message(kind, e, job, what)
              IN  /\ m \in Messages /\ Send(m)
                  /\ kind \in {"Started", "Ask", "Completed", "Finished"}
                  /\ kind = "Finished" => ~new.live
                  => TaskStep
<1>1. execs' = (execs \ {e}) \cup {new}
  BY DEF Change
<1>2. RunsFade(runs') /\ ExecsFade(execs')
  BY <1>1, TasksFade, OneFades
<1>3. ASSUME UNCHANGED mailbox PROVE TaskStep
  <2>1. Mail' = Mail
    BY <1>3, MailMoves
  <2> QED BY <1>2, <2>1, ReportKeeps
<1>4. ASSUME NEW kind, NEW job, NEW what, Message(kind, e, job, what) \in Messages,
             Send(Message(kind, e, job, what)),
             kind \in {"Started", "Ask", "Completed", "Finished"},
             kind = "Finished" => ~new.live
      PROVE  TaskStep
  <2> DEFINE m == Message(kind, e, job, what)
  <2>1. m.kind = kind /\ Same(m, e)
    BY DEF Message, Same
  <2>2. m \in Messages /\ Send(m)
    BY <1>4
  <2> HIDE DEF m
  <2>3. Mail' = Mail \cup {m}
    BY <2>2, MailMoves
  <2>4. kind = "Finished" => \A x \in execs' : Same(m, x) => ~x.live
    <3>1. \A x \in execs : Same(m, x) => x = e
      BY <2>1 DEF TaskInv, TagsAreNew, Distinct, Same
    <3> QED BY <1>1, <1>4, <3>1
  <2>5. Reports(m)
    BY <1>4, <2>1, <2>4 DEF Reports
  <2> QED BY <1>2, <2>3, <2>5, ReportKeeps
<1> QED BY <1>3, <1>4

\* Steps of a tool executor.
LEMMA ExecutorStepKeepsTasks ==
  ASSUME TypeOK, TaskInv, NEW e \in execs,
         \/ ExecSchedule(e)
         \/ \E j \in DOMAIN e.jobs :
              \/ ToolStart(e, j)
              \/ ToolAsk(e, j)
              \/ \E result \in Results : ToolDone(e, j, result)
         \/ \E how \in {"ok", "panicked"} : ExecFinish(e, how)
  PROVE  TaskStep
<1>1. e \in Execs /\ TaskUnchanged /\ UNCHANGED <<runs, cleanups>>
  BY DEF ExecSchedule, ToolStart, ToolAsk, ToolDone, ExecFinish, TypeOK
<1>2. DOMAIN e.jobs \subseteq Nat
  BY <1>1, LenProperties DEF Execs
<1> DEFINE Jobbed(jobs, h) == [e EXCEPT !.jobs = jobs, !.halted = h]
<1>3. \A jobs, h : /\ Same(Jobbed(jobs, h), e) /\ Jobbed(jobs, h).live = e.live
                   /\ Jobbed(jobs, h).cancelled = e.cancelled
  BY <1>1 DEF Execs, Same
<1>4. \A jobs : [e EXCEPT !.jobs = jobs] = Jobbed(jobs, e.halted)
  BY <1>1 DEF Execs
<1> HIDE DEF Jobbed
<1>5. \A kind \in {"Started", "Completed", "Ask"}, what \in Results, j \in DOMAIN e.jobs :
        Message(kind, e, j, what) \in Messages
  BY <1>1, <1>2 DEF Message, Messages, Execs
<1>6. \A j, x : [e EXCEPT !.jobs[j] = x] = Jobbed([e.jobs EXCEPT ![j] = x], e.halted)
  BY <1>1 DEF Execs, Jobbed
<1>7. CASE ExecSchedule(e)
  <2>1. PICK jobs : Change(e, [e EXCEPT !.jobs = jobs])
    BY <1>7 DEF ExecSchedule
  <2>2. Change(e, Jobbed(jobs, e.halted)) /\ UNCHANGED mailbox
    BY <1>4, <1>7, <2>1 DEF ExecSchedule
  <2> QED BY <1>1, <1>3, <2>2, ExecutorKeeps
<1>8. ASSUME NEW j \in DOMAIN e.jobs,
             \/ ToolStart(e, j)
             \/ ToolAsk(e, j)
             \/ \E result \in Results : ToolDone(e, j, result)
      PROVE  TaskStep
  <2>1. ASSUME NEW jobs, NEW h, NEW kind \in {"Started", "Completed", "Ask"},
               NEW what \in Results, Change(e, Jobbed(jobs, h)),
               Send(Message(kind, e, j, what))
        PROVE  TaskStep
    BY <1>1, <1>3, <1>5, <2>1, ExecutorKeeps
  <2>2. CASE ToolStart(e, j)
    <3>1. /\ Change(e, Jobbed([e.jobs EXCEPT ![j] = "running"], e.halted))
          /\ Send(Message("Started", e, j, "ok"))
      BY <1>6, <2>2 DEF ToolStart
    <3> QED BY <2>1, <3>1 DEF Results
  <2>3. CASE ToolAsk(e, j)
    <3>1. /\ Change(e, Jobbed([e.jobs EXCEPT ![j] = "asking"], e.halted))
          /\ Send(Message("Ask", e, j, "ok"))
      BY <1>6, <2>3 DEF ToolAsk
    <3> QED BY <2>1, <3>1 DEF Results
  <2>4. ASSUME NEW result \in Results, ToolDone(e, j, result) PROVE TaskStep
    <3> DEFINE h == e.halted \/ result = "fatal"
    <3>1. /\ Change(e, [e EXCEPT !.jobs[j] = "done", !.halted = h])
          /\ Send(Message("Completed", e, j, result))
      BY <2>4, Zenon DEF ToolDone
    <3> HIDE DEF h
    <3>2. [e EXCEPT !.jobs[j] = "done", !.halted = h] = Jobbed([e.jobs EXCEPT ![j] = "done"], h)
      BY <1>1 DEF Execs, Jobbed
    <3>3. Change(e, Jobbed([e.jobs EXCEPT ![j] = "done"], h))
      BY <3>1, <3>2, Zenon
    <3> QED BY <2>1, <3>1, <3>3
  <2> QED BY <1>8, <2>2, <2>3, <2>4
<1>9. ASSUME NEW how \in {"ok", "panicked"}, ExecFinish(e, how)
      PROVE  TaskStep
  <2> DEFINE new == [e EXCEPT !.live = FALSE]
  <2>1. Message("Finished", e, 0, how) \in Messages
    BY <1>1 DEF Message, Messages, Execs, Results
  <2>2. Same(new, e) /\ ~new.live /\ new.cancelled = e.cancelled
    BY <1>1 DEF Execs, Same
  <2>3. Change(e, new) /\ Send(Message("Finished", e, 0, how))
    BY <1>9 DEF ExecFinish
  <2> HIDE DEF new
  <2> QED BY <1>1, <2>1, <2>2, <2>3, ExecutorKeeps
<1> QED BY <1>7, <1>8, <1>9

\* A cleanup reports when its turn has no task left.
LEMMA CleanupDoneKeepsTasks ==
  ASSUME TypeOK, TaskInv, NEW id \in cleanups, CleanupDone(id)
  PROVE  TaskStep
<1> DEFINE m == Message("Cleanup", [turn |-> id, op |-> 0], 0, "ok")
<1>1. m \in Messages /\ m.kind = "Cleanup" /\ m.turn = id /\ m.op = 0 /\ Send(m)
  BY DEF CleanupDone, TypeOK, Message, Messages, Results
<1> HIDE DEF m
<1>2. Mail' = Mail \cup {m}
  BY <1>1, MailMoves
<1>3. /\ runs' = runs /\ execs' = execs /\ cleanups' \subseteq cleanups
      /\ TaskUnchanged /\ Drained(id)
  BY DEF CleanupDone
<1>4. RunsFade(runs') /\ ExecsFade(execs')
  BY <1>3, TasksFade
<1>5. Reports(m)
  BY <1>1, <1>3 DEF Reports
<1> QED BY <1>2, <1>3, <1>4, <1>5, ReportKeeps

-----------------------------------------------------------------------------
(* Work is owned, and turns do not overlap                                 *)

\* The session starts without tasks.
LEMMA TasksInit == Init => TaskInv /\ LoneInv
<1> SUFFICES ASSUME Init PROVE TaskInv /\ LoneInv
  OBVIOUS
<1>1. Mail = {} /\ Ids(queue) = {} /\ OneEach(queue)
  BY ShortMoves DEF Init, Mail
<1> QED BY <1>1 DEF Init, TaskInv, NamesAreNew, TagsAreNew, ReportsAreLate, NoUnownedWork,
                    LoneInv, Begun, AtWork, Distinct, ClearPending

\* No command loses track of a task.
LEMMA CommandKeepsTasks ==
  ASSUME TypeOK, TaskInv, Commands
  PROVE  HandlerStep
<1>1. CASE \E clear : InterruptEngine(clear) /\ UNCHANGED mailbox
  BY <1>1, InterruptKeepsTasks
<1>2. CASE StopActor
  <2>1. MailShrinks /\ UNCHANGED <<engine, queue>>
    BY <1>2, MailMoves DEF StopActor, MailShrinks
  <2> QED BY <2>1, ElsewhereKeeps
<1> QED BY <1>1, <1>2, StartKeepsTasks, SteerKeepsTasks, ResumeKeepsTasks, StartWorkerKeepsTasks
           DEF Commands, Interrupt, Clear, NewSession, StopRequested

\* No handler does.
LEMMA HandlersKeepTasks ==
  ASSUME TypeOK, TaskInv,
         Commands \/ Answer \/ Handlers \/ StorageFails \/ UNCHANGED vars
  PROVE  HandlerStep
<1>1. CASE Commands
  BY <1>1, CommandKeepsTasks
<1>2. CASE Answer
  BY <1>2, AnswerKeepsTasks
<1>3. CASE Handlers
  BY <1>3, ReceiveProviderKeepsTasks, ToolEventKeepsTasks, ReceiveFinishedKeepsTasks,
     ReceiveAskKeepsTasks, ReceiveCleanupKeepsTasks, ShutdownKeepsTasks,
     ShutdownFinishedKeepsTasks DEF Handlers
<1>4. CASE UNCHANGED vars
  <2>1. MailShrinks /\ UNCHANGED <<engine, queue>>
    BY <1>4, MailMoves DEF vars, MailShrinks, engine
  <2> QED BY <2>1, ElsewhereKeeps
<1>5. CASE StorageFails
  <2>1. MailShrinks /\ UNCHANGED <<engine, queue>>
    BY <1>5, MailMoves DEF StorageFails, MailShrinks
  <2> QED BY <2>1, ElsewhereKeeps
<1> QED BY <1>1, <1>2, <1>3, <1>4, <1>5

\* No step does.
LEMMA TasksNext ==
  ASSUME TypeOK, TaskInv, [Next]_vars
  PROVE  TaskStep
<1>1. CASE Commands \/ Answer \/ Handlers \/ StorageFails \/ UNCHANGED vars
  BY <1>1, HandlersKeepTasks DEF TaskStep, HandlerStep
<1>2. CASE Tasks
  BY <1>2, ProviderStepKeepsTasks, ExecutorStepKeepsTasks, CleanupDoneKeepsTasks DEF Tasks
<1> QED BY <1>1, <1>2 DEF Next, Terminated

\* Work that is not cancelled is the work the machine waits for: no handler,
\* for any order of messages and any retry, leaves a request or a batch
\* behind that could still act for a turn that has moved on.
THEOREM TasksAreOwned == Spec => []NoUnownedWork
<1>1. TypeOK /\ TaskInv /\ [Next]_vars => TaskInv'
  BY TasksNext DEF TaskStep
<1>2. TaskInv => NoUnownedWork
  BY DEF TaskInv
<1> QED BY <1>1, <1>2, TasksInit, TypeCorrect, PTL DEF Spec

\* If no input arrives while a clear is pending, a turn begins only after the
\* cleanup of the one before has waited for its tasks: nothing of another
\* turn runs beside it.
THEOREM TurnsAreApart == ~InputDuringClear => (Spec => []TurnsDoNotOverlap)
<1> SUFFICES ASSUME ~InputDuringClear PROVE Spec => []TurnsDoNotOverlap
  OBVIOUS
<1>1. TypeOK /\ (TaskInv /\ LoneInv) /\ [Next]_vars => (TaskInv /\ LoneInv)'
  BY TasksNext DEF TaskStep
<1>2. TaskInv /\ LoneInv => TurnsDoNotOverlap
  BY DEF LoneInv, TurnsDoNotOverlap
<1> QED BY <1>1, <1>2, TasksInit, TypeCorrect, PTL DEF Spec

-----------------------------------------------------------------------------
(* Handlers, and what the conversation is told                             *)

\* A message that is not of a job takes none of those away.
LEMMA OthersStay ==
  ASSUME TypeOK, MailTakes, mailbox' = mailbox \/ Head(mailbox).kind \notin Progress
  PROVE  /\ \A m \in Mail : m.kind \in Progress => m \in Mail'
         /\ \A e, entries : Agrees(e, entries, Mail) => Agrees(e, entries, Mail')
<1>1. \A m \in Mail : m.kind \in Progress => m \in Mail'
  <2>1. CASE mailbox' = mailbox
    BY <2>1, MailMoves
  <2>2. CASE mailbox # <<>> /\ mailbox' = Tail(mailbox) /\ Head(mailbox).kind \notin Progress
    <3>1. SUFFICES ASSUME NEW i \in DOMAIN mailbox, mailbox[i].kind \in Progress
                   PROVE  mailbox[i] \in Mail'
      BY DEF Mail
    <3>2. /\ Len(mailbox) \in Nat \ {0} /\ DOMAIN mailbox = 1..Len(mailbox)
          /\ Head(mailbox) = mailbox[1]
          /\ DOMAIN mailbox' = 1..(Len(mailbox) - 1)
          /\ \A l \in 1..(Len(mailbox) - 1) : mailbox'[l] = mailbox[l + 1]
      BY <2>2 DEF TypeOK
    <3>3. mailbox[i] # mailbox[1]
      BY <2>2, <3>1, <3>2
    <3>4. i # 1
      BY <3>3
    <3>5. i \in 2..Len(mailbox)
      BY <3>2, <3>4
    <3>6. i - 1 \in DOMAIN mailbox' /\ mailbox'[i - 1] = mailbox[i]
      BY <3>2, <3>5
    <3> QED BY <3>6 DEF Mail
  <2> QED BY <2>1, <2>2 DEF MailTakes
<1>2. "Started" \in Progress /\ "Completed" \in Progress
  BY DEF Progress
<1> QED BY <1>1, <1>2 DEF Agrees

\* A handler that records nothing.
LEMMA HistoryStays ==
  ASSUME TellInv, life # "Stopped",
         \/ /\ history' = history
            /\ phase = "Tools" /\ phase' \in {"Provider", "Tools"} => phase' = "Tools" /\ SameTag
         \/ /\ history' = <<>>
            /\ phase \notin {"Provider", "Tools"} \/ phase' \notin {"Provider", "Tools"}
  PROVE  HistoryMoves
<1>1. CASE /\ history' = history
           /\ phase = "Tools" /\ phase' \in {"Provider", "Tools"} => phase' = "Tools" /\ SameTag
  <2>1. \A k \in DOMAIN history, e \in execs : Same(history[k], e) =>
          ~e.live /\ history[k].entries = Truth(e)
    BY DEF TellInv, ExchangesAreTrue, Excused
  <2>2. phase \in {"Provider", "Tools"} /\ phase' \in {"Provider", "Tools"} =>
          \A e \in execs : e.turn = turn.id =>
            Recorded(e, history) \/ (phase' = "Tools" /\ SameTag /\ e.op = turn.op)
    BY <1>1 DEF TellInv, ExchangesAreOnce
  <2> QED BY <1>1, <2>1, <2>2 DEF TellInv, ExchangesAreOnce, HistoryMoves
<1>2. CASE /\ history' = <<>>
           /\ phase \notin {"Provider", "Tools"} \/ phase' \notin {"Provider", "Tools"}
  <2>1. DOMAIN history' = {}
    BY <1>2
  <2> QED BY <1>2, <2>1 DEF HistoryMoves
<1> QED BY <1>1, <1>2

\* A handler that leaves the batch, begins one or ends it.
BatchStays ==
  Batched' => (phase' = "Tools" /\ phase # "Tools") \/ (Batched /\ SameTag /\ batch' = batch)

\* ... moves nothing that is said of the jobs.
LEMMA BatchStaysMoves ==
  ASSUME TypeOK, TellInv, MailTakes, mailbox' = mailbox \/ Head(mailbox).kind \notin Progress,
         BatchStays
  PROVE  BatchMoves
<1>1. Batched => \A e \in execs : IsTagged(e, turn) => Agrees(e, batch.entries, Mail')
  BY OthersStay DEF TellInv, BatchFollows
<1> QED BY <1>1 DEF BatchStays, BatchMoves

\* The transitions of the engine and the batch.
LEMMA EngineBatches ==
  /\ \A t, g, p, st : LaunchProvider(t, g, p, st) => ~Batched' /\ phase' \in {"Provider", "Stopping"}
  /\ \A t, n, st : LaunchTools(t, n, st) => phase' = "Tools"
  /\ \A f, g, st : Begin(f, g, st) =>
       (Batched' => phase' = "Tools") /\ phase' \in {"Provider", "Tools", "Stopping"}
  /\ \A t, b, w, o, c, st : Stop(t, b, w, o, c, st) =>
       phase' = "Stopping" /\ turn' = t /\ batch' = b /\ (Batched' => w = "Tools")
  /\ \A st : BecomeIdle(st) => ~Batched' /\ phase' = "Idle"
  /\ \A id, st : BecomeWaiting(id, st) => ~Batched' /\ phase' = "Waiting"
<1>1. \A t, b, w, o, c, st : Stop(t, b, w, o, c, st) =>
        phase' = "Stopping" /\ turn' = t /\ batch' = b /\ (Batched' => w = "Tools")
  BY DEF Stop, Batched
<1>2. \A t, g, p, st : LaunchProvider(t, g, p, st) => ~Batched' /\ phase' \in {"Provider", "Stopping"}
  <2> SUFFICES ASSUME NEW t, NEW g, NEW p, NEW st, LaunchProvider(t, g, p, st)
               PROVE  ~Batched' /\ phase' \in {"Provider", "Stopping"}
    OBVIOUS
  <2>1. CASE Stop(t, NoBatch, "Provider", "WaitingForInput", FALSE, st)
    BY <2>1 DEF Stop, Batched
  <2>2. CASE phase' = "Provider"
    BY <2>2 DEF Batched
  <2> QED BY <2>1, <2>2 DEF LaunchProvider
<1>3. \A t, n, st : LaunchTools(t, n, st) => phase' = "Tools"
  BY DEF LaunchTools
<1>4. \A f, g, st : Begin(f, g, st) =>
        (Batched' => phase' = "Tools") /\ phase' \in {"Provider", "Tools", "Stopping"}
  <2> SUFFICES ASSUME NEW f, NEW g, NEW st, Begin(f, g, st)
               PROVE  (Batched' => phase' = "Tools") /\ phase' \in {"Provider", "Tools", "Stopping"}
    OBVIOUS
  <2> DEFINE t == FirstRun(f.id)
  <2>1. \/ LaunchProvider(t, g, FALSE, st)
        \/ LaunchTools(t, 1, st)
        \/ Stop(t, NoBatch, "Provider", "Failed", FALSE, st)
    BY DEF Begin
  <2> HIDE DEF t
  <2>2. CASE LaunchProvider(t, g, FALSE, st)
    BY <1>2, <2>2
  <2>3. CASE LaunchTools(t, 1, st)
    BY <1>3, <2>3
  <2>4. CASE Stop(t, NoBatch, "Provider", "Failed", FALSE, st)
    BY <2>4 DEF Stop, Batched
  <2> QED BY <2>1, <2>2, <2>3, <2>4
<1>5. /\ \A st : BecomeIdle(st) => ~Batched' /\ phase' = "Idle"
      /\ \A id, st : BecomeWaiting(id, st) => ~Batched' /\ phase' = "Waiting"
  BY DEF BecomeIdle, BecomeWaiting, Batched
<1> QED BY <1>1, <1>2, <1>3, <1>4, <1>5

\* A handler that finds no batch, does nothing to the work, or stops it.
Settles ==
  \/ phase # "Tools" /\ (Batched' => phase' = "Tools")
  \/ UNCHANGED <<phase, turn, batch, cleanup>>
  \/ phase' = "Stopping" /\ UNCHANGED <<turn, batch>> /\ (Batched' => Batched)

\* ... and records nothing.
LEMMA QuietMoves ==
  ASSUME TypeOK, TellInv, life # "Stopped", Settles,
         MailTakes, mailbox' = mailbox \/ Head(mailbox).kind \notin Progress,
         \/ history' = history
         \/ history' = <<>> /\ phase \notin {"Provider", "Tools"}
  PROVE  Moves
<1>1. /\ BatchStays
      /\ phase = "Tools" /\ phase' \in {"Provider", "Tools"} => phase' = "Tools" /\ SameTag
  BY DEF Settles, BatchStays, SameTag, Batched
<1> QED BY <1>1, HistoryStays, BatchStaysMoves DEF Moves

\* The engine settles when a turn begins at rest, and when one stops.
LEMMA EngineSettles ==
  /\ IsIdle => phase # "Tools"
  /\ \A f, g, st : phase # "Tools" /\ Begin(f, g, st) => Settles
  /\ \A st : phase # "Tools" /\ BecomeIdle(st) => Settles
  /\ \A id, st : phase # "Tools" /\ BecomeWaiting(id, st) => Settles
  /\ \A w, o, c, st : Stop(turn, batch, w, o, c, st) /\ (w = "Tools" => Batched) => Settles
  /\ UNCHANGED engine => Settles
<1>1. IsIdle => phase # "Tools"
  BY DEF IsIdle
<1>2. ASSUME NEW f, NEW g, NEW st, phase # "Tools", Begin(f, g, st) PROVE Settles
  BY <1>2, EngineBatches DEF Settles
<1>3. ASSUME NEW st, phase # "Tools", BecomeIdle(st) PROVE Settles
  BY <1>3, EngineBatches DEF Settles
<1>4. ASSUME NEW id, NEW st, phase # "Tools", BecomeWaiting(id, st) PROVE Settles
  BY <1>4, EngineBatches DEF Settles
<1>5. ASSUME NEW w, NEW o, NEW c, NEW st, Stop(turn, batch, w, o, c, st), w = "Tools" => Batched
      PROVE  Settles
  <2>1. phase' = "Stopping" /\ turn' = turn /\ batch' = batch /\ (Batched' => w = "Tools")
    BY <1>5, EngineBatches
  <2> QED BY <1>5, <2>1 DEF Settles
<1>6. UNCHANGED engine => Settles
  BY DEF engine, Settles
<1> QED BY <1>1, <1>2, <1>3, <1>4, <1>5, <1>6

\* A turn that is stopping keeps its work.
LEMMA CleanupSettles ==
  ASSUME phase = "Stopping", phase' = phase, turn' = turn, batch' = batch,
         cleanup'.work = cleanup.work
  PROVE  Settles
BY DEF Settles, Batched

\* Interrupts stop the work.
LEMMA InterruptSettles ==
  ASSUME TypeOK, NEW clear, InterruptEngine(clear)
  PROVE  Settles
<1> DEFINE st == CancelQueue(status, queue)
<1>1. CASE IsIdle /\ (BecomeIdle(st) \/ BecomeIdle(Report(st, turn.id, "Cancelled")))
  BY <1>1, EngineSettles
<1>2. CASE phase \in {"Provider", "Tools"} /\ Stop(turn, batch, phase, "Cancelled", clear, st)
  <2>1. phase = "Tools" => Batched
    BY DEF Batched
  <2> QED BY <1>2, <2>1, EngineSettles
<1>3. CASE /\ phase = "Stopping" /\ UNCHANGED <<phase, turn, batch>>
           /\ cleanup' = [cleanup EXCEPT
                !.outcome = IF @ = "WaitingForInput" THEN "Cancelled" ELSE @,
                !.clear = Disposition(@, clear)]
  <2>1. cleanup'.work = cleanup.work
    BY <1>3 DEF TypeOK, Cleanups
  <2> QED BY <1>3, <2>1, CleanupSettles
<1> QED BY <1>1, <1>2, <1>3 DEF InterruptEngine, IsIdle

\* So does steering.
LEMMA SteerSettles ==
  ASSUME TypeOK, Steer
  PROVE  Settles
<1> DEFINE f  == FollowUp(NewId(status), "Provider")
           st == CancelQueue(Accept(status), queue)
           cancelled == Report(st, turn.id, "Cancelled")
<1>1. CASE IsIdle /\ (Begin(f, gate, st) \/ Begin(f, gate, cancelled))
  BY <1>1, EngineSettles
<1>2. CASE /\ IsIdle
           /\ \/ BecomeWaiting(f.id, Report(st, f.id, "WaitingForInput"))
              \/ BecomeWaiting(f.id, Report(cancelled, f.id, "WaitingForInput"))
  BY <1>2, EngineSettles
<1>3. CASE phase \in {"Provider", "Tools"} /\ Stop(turn, batch, phase, "Cancelled", FALSE, st)
  <2>1. phase = "Tools" => Batched
    BY DEF Batched
  <2> QED BY <1>3, <2>1, EngineSettles
<1>4. CASE /\ phase = "Stopping" /\ UNCHANGED <<phase, turn, batch>>
           /\ cleanup' = [cleanup EXCEPT !.outcome =
                            IF @ = "WaitingForInput" THEN "Cancelled" ELSE @]
  <2>1. cleanup'.work = cleanup.work
    BY <1>4 DEF TypeOK, Cleanups
  <2> QED BY <1>4, <2>1, CleanupSettles
<1> QED BY <1>1, <1>2, <1>3, <1>4 DEF Steer, IsIdle

\* Questions begin turns only at rest.
LEMMA QuestionsSettle ==
  ASSUME NEW g, QuestionsChanged(g)
  PROVE  Settles
<1>1. Wakes(g) => IsIdle
  BY DEF Wakes
<1> QED BY <1>1, EngineSettles DEF QuestionsChanged, engine

\* Commands record nothing.
LEMMA CommandMoves ==
  ASSUME TypeOK, TellInv, Commands
  PROVE  Moves
<1> USE DEF MailTakes, Active, Handling
<1>1. CASE \E kind \in Starts : Start(kind)
  <2>1. PICK kind \in Starts : Start(kind)
    BY <1>1
  <2>2. mailbox' = mailbox /\ history' = history /\ life # "Stopped"
    BY <2>1 DEF Start, MayInput
  <2>3. Settles
    <3>1. CASE phase = "Idle"
      BY <2>1, <3>1, EngineSettles DEF Start
    <3>2. CASE UNCHANGED <<phase, turn, batch, cleanup>>
      BY <3>2 DEF Settles
    <3> QED BY <2>1, <3>1, <3>2 DEF Start
  <2> QED BY <2>2, <2>3, QuietMoves
<1>2. CASE Steer
  <2>1. mailbox' = mailbox /\ history' = history /\ life # "Stopped"
    BY <1>2 DEF Steer, MayInput
  <2> QED BY <1>2, <2>1, SteerSettles, QuietMoves
<1>3. CASE Interrupt \/ StopRequested
  <2>1. /\ InterruptEngine(FALSE) /\ life # "Stopped"
        /\ mailbox' = mailbox /\ history' = history
    BY <1>3 DEF Interrupt, StopRequested
  <2> QED BY <2>1, InterruptSettles, QuietMoves
<1>4. CASE Clear \/ NewSession
  <2>1. /\ \E clear : InterruptEngine(clear)
        /\ mailbox' = mailbox /\ life # "Stopped"
        /\ history' = history \/ (IsIdle /\ history' = <<>>)
    BY <1>4 DEF Clear, NewSession, Cleared, FreshSession
  <2> QED BY <2>1, InterruptSettles, QuietMoves DEF IsIdle
<1>5. CASE \E restored \in 0..MaxQuestions : Resume(restored)
  <2>1. /\ IsIdle /\ \E st : BecomeIdle(st)
        /\ mailbox' = mailbox /\ life # "Stopped" /\ history' = <<>>
    BY <1>5 DEF Resume
  <2> QED BY <2>1, EngineSettles, QuietMoves DEF IsIdle
<1>6. CASE StartWorker
  <2>1. /\ mailbox' = mailbox /\ history' = history /\ life # "Stopped"
        /\ \/ phase = "Idle" /\ \E f, g, st : Begin(f, g, st)
           \/ UNCHANGED engine
    BY <1>6 DEF StartWorker
  <2> QED BY <2>1, EngineSettles, QuietMoves
<1>7. CASE StopActor
  <2>1. mailbox' = mailbox /\ history' = history /\ life # "Stopped" /\ UNCHANGED engine
    BY <1>7 DEF StopActor
  <2> QED BY <2>1, EngineSettles, QuietMoves
<1> QED BY <1>1, <1>2, <1>3, <1>4, <1>5, <1>6, <1>7 DEF Commands

\* A delivery takes one message.
LEMMA DeliverMoves ==
  ASSUME NEW kind, Deliver(kind)
  PROVE  /\ MailTakes /\ life # "Stopped"
         /\ kind \notin Progress => Head(mailbox).kind \notin Progress
BY DEF Deliver, MailTakes, Handling

\* Answers of the user record nothing.
LEMMA AnswerMoves ==
  ASSUME TypeOK, TellInv, Answer
  PROVE  Moves
<1>1. /\ MailTakes /\ mailbox' = mailbox /\ life # "Stopped" /\ history' = history
      /\ (\E g : QuestionsChanged(g)) \/ UNCHANGED engine
  BY DEF Answer, MailTakes, Handling
<1> QED BY <1>1, QuestionsSettle, EngineSettles, QuietMoves

\* ... nor do questions of tools.
LEMMA ReceiveAskMoves ==
  ASSUME TypeOK, TellInv, ReceiveAsk
  PROVE  Moves
<1>1. MailTakes /\ life # "Stopped" /\ Head(mailbox).kind \notin Progress
  BY DeliverMoves DEF ReceiveAsk, Progress
<1>2. /\ history' = history
      /\ (\E g : QuestionsChanged(g)) \/ UNCHANGED engine
  BY DEF ReceiveAsk
<1> QED BY <1>1, <1>2, QuestionsSettle, EngineSettles, QuietMoves

\* ... nor do responses.
LEMMA ReceiveProviderMoves ==
  ASSUME TypeOK, TellInv, ReceiveProvider
  PROVE  Moves
<1>1. MailTakes /\ life # "Stopped" /\ Head(mailbox).kind \notin Progress /\ history' = history
  BY DeliverMoves DEF ReceiveProvider, Progress
<1>2. CASE UNCHANGED engine
  BY <1>1, <1>2, EngineSettles, QuietMoves
<1>3. CASE phase = "Provider" /\ \E u : AcceptUpdate(u)
  <2>1. PICK u : AcceptUpdate(u)
    BY <1>3
  <2>2. \/ \E t, n, st : LaunchTools(t, n, st)
        \/ \E t, g, p, st : LaunchProvider(t, g, p, st)
        \/ \E o, st : Stop(turn, NoBatch, "Provider", o, FALSE, st)
    BY <2>1 DEF AcceptUpdate, ProviderFailed
  <2>3. Batched' => phase' = "Tools"
    <3>1. CASE \E t, n, st : LaunchTools(t, n, st)
      BY <3>1, EngineBatches
    <3>2. CASE \E t, g, p, st : LaunchProvider(t, g, p, st)
      BY <3>2, EngineBatches
    <3>3. CASE \E o, st : Stop(turn, NoBatch, "Provider", o, FALSE, st)
      BY <3>3 DEF Stop, Batched
    <3> QED BY <2>2, <3>1, <3>2, <3>3
  <2>4. Settles
    BY <1>3, <2>3 DEF Settles
  <2> QED BY <1>1, <2>4, QuietMoves
<1> QED BY <1>2, <1>3 DEF ReceiveProvider

\* ... nor does a shutdown.
LEMMA ShutdownMoves ==
  ASSUME TypeOK, TellInv, Shutdown
  PROVE  Moves
<1>1. MailTakes /\ mailbox' = mailbox /\ life # "Stopped" /\ history' = history
  BY DEF Shutdown, MailTakes
<1>2. CASE /\ phase \in {"Provider", "Tools"} /\ phase' = "Stopping"
           /\ cleanup' = [work |-> phase, outcome |-> "Cancelled", clear |-> FALSE]
           /\ UNCHANGED <<turn, batch>>
  <2>1. Settles
    BY <1>2 DEF Settles, Batched
  <2> QED BY <1>1, <2>1, QuietMoves
<1>3. CASE phase = "Stopping" /\ UNCHANGED <<phase, turn, batch, cleanup>>
  <2>1. Settles
    BY <1>3 DEF Settles
  <2> QED BY <1>1, <2>1, QuietMoves
<1>4. CASE IsIdle /\ phase' = "Idle"
  <2>1. Settles
    BY <1>4 DEF Settles, Batched, IsIdle
  <2> QED BY <1>1, <2>1, QuietMoves
<1> QED BY <1>2, <1>3, <1>4 DEF Shutdown

\* A step of the progress of one job.
LEMMA ProgressMoves ==
  ASSUME TypeOK, TellInv, MailTakes, mailbox # <<>>, mailbox' = Tail(mailbox),
         NEW m, m = Head(mailbox), life # "Stopped", history' = history, phase' = phase,
         cleanup' = cleanup, SameTag,
         Batched /\ IsTagged(m, turn) =>
           /\ DOMAIN batch'.entries = DOMAIN batch.entries
           /\ \A j \in DOMAIN batch.entries : j # m.job => batch'.entries[j] = batch.entries[j]
           /\ m.job \in DOMAIN batch.entries =>
                batch'.entries[m.job] =
                  IF m.kind = "Completed" THEN "Completed"
                  ELSE IF batch.entries[m.job] = "Queued" THEN "Running"
                  ELSE batch.entries[m.job],
         ~(Batched /\ IsTagged(m, turn)) => batch' = batch,
         m.kind \in Progress
  PROVE  Moves
<1>1. HistoryMoves
  <2>1. phase = "Tools" /\ phase' \in {"Provider", "Tools"} => phase' = "Tools" /\ SameTag
    OBVIOUS
  <2> QED BY <2>1, HistoryStays
<1>2. m \in Mail /\ \A n \in Mail : n = m \/ n \in Mail'
  <2>1. /\ Len(mailbox) \in Nat \ {0} /\ DOMAIN mailbox = 1..Len(mailbox) /\ m = mailbox[1]
        /\ DOMAIN mailbox' = 1..(Len(mailbox) - 1)
        /\ \A l \in 1..(Len(mailbox) - 1) : mailbox'[l] = mailbox[l + 1]
    BY DEF TypeOK
  <2>2. ASSUME NEW i \in DOMAIN mailbox, i # 1 PROVE mailbox[i] \in Mail'
    <3>1. i - 1 \in DOMAIN mailbox' /\ mailbox'[i - 1] = mailbox[i]
      BY <2>1, <2>2
    <3> QED BY <3>1 DEF Mail
  <2>3. 1 \in DOMAIN mailbox
    BY <2>1
  <2> QED BY <2>1, <2>2, <2>3 DEF Mail
<1>3. ASSUME Batched, NEW e \in execs, IsTagged(e, turn)
      PROVE  Agrees(e, batch'.entries, Mail')
  <2>1. Agrees(e, batch.entries, Mail)
    BY <1>3 DEF TellInv, BatchFollows
  <2>2. CASE IsTagged(m, turn)
    <3>1. Same(m, e)
      BY <1>3, <2>2 DEF Same, IsTagged
    <3>2. /\ m.job \in DOMAIN e.jobs /\ e.jobs[m.job] \notin {"queued", "scheduled"}
          /\ m.kind = "Completed" => e.jobs[m.job] = "done"
      BY <1>2, <3>1 DEF TellInv, NewsIsOfJobs
    <3>3. /\ DOMAIN batch.entries = DOMAIN e.jobs /\ DOMAIN batch'.entries = DOMAIN e.jobs
          /\ \A j \in DOMAIN e.jobs : j # m.job => batch'.entries[j] = batch.entries[j]
          /\ batch'.entries[m.job] =
               IF m.kind = "Completed" THEN "Completed"
               ELSE IF batch.entries[m.job] = "Queued" THEN "Running"
               ELSE batch.entries[m.job]
      BY <1>3, <2>1, <2>2, <3>2 DEF Agrees
    <3>4. ASSUME NEW j \in DOMAIN e.jobs, j # m.job
          PROVE  /\ \/ batch'.entries[j] = Truth(e)[j]
                    \/ \E n \in Mail' : /\ Same(n, e) /\ n.job = j
                                        /\ n.kind = IF e.jobs[j] = "done" THEN "Completed" ELSE "Started"
                 /\ batch'.entries[j] = "Completed" => e.jobs[j] = "done"
                 /\ batch'.entries[j] = "Running" => e.jobs[j] \notin {"queued", "scheduled"}
      BY <1>2, <2>1, <3>3, <3>4 DEF Agrees
    <3> DEFINE j == m.job
    <3>5. j \in DOMAIN e.jobs
      BY <3>2
    <3>6. Truth(e)[j] = IF e.jobs[j] = "done" THEN "Completed" ELSE "Running"
      BY <3>2 DEF Truth
    <3>7. /\ batch'.entries[j] = "Completed" => e.jobs[j] = "done"
          /\ batch'.entries[j] = "Running" => e.jobs[j] \notin {"queued", "scheduled"}
      BY <2>1, <3>2, <3>3 DEF Agrees
    <3>8. \/ batch'.entries[j] = Truth(e)[j]
          \/ \E n \in Mail' : /\ Same(n, e) /\ n.job = j
                              /\ n.kind = IF e.jobs[j] = "done" THEN "Completed" ELSE "Started"
      <4>1. CASE m.kind = "Completed"
        BY <3>2, <3>3, <3>6, <4>1
      <4>2. CASE m.kind = "Started" /\ e.jobs[j] # "done"
        <5>1. batch.entries[j] \in {"Queued", "Running", "Completed"}
          BY <2>1, <3>2 DEF TypeOK, Batches, Entries, Agrees
        <5> QED BY <2>1, <3>2, <3>3, <3>6, <4>2, <5>1 DEF Agrees
      <4>3. CASE m.kind = "Started" /\ e.jobs[j] = "done"
        <5>1. CASE batch.entries[j] = Truth(e)[j]
          BY <3>3, <3>6, <4>3, <5>1
        <5>2. CASE \E n \in Mail : Same(n, e) /\ n.job = j /\ n.kind = "Completed"
          BY <1>2, <4>3, <5>2
        <5> QED BY <2>1, <3>5, <4>3, <5>1, <5>2 DEF Agrees
      <4> QED BY <4>1, <4>2, <4>3 DEF Progress
    <3> QED BY <3>3, <3>4, <3>7, <3>8 DEF Agrees
  <2>3. CASE ~IsTagged(m, turn)
    <3>1. ~Same(m, e) /\ batch' = batch
      BY <1>3, <2>3 DEF Same, IsTagged
    <3> QED BY <1>2, <2>1, <3>1 DEF Agrees
  <2> QED BY <2>2, <2>3
<1>4. Batched' <=> Batched
  BY DEF Batched
<1> QED BY <1>1, <1>3, <1>4 DEF Moves, BatchMoves

\* The progress of a job moves its entry of the batch.
LEMMA ToolEventMoves ==
  ASSUME TypeOK, TellInv,
         ReceiveStarted \/ \E failed \in BOOLEAN : ReceiveCompleted(failed)
  PROVE  Moves
<1> DEFINE m == Head(mailbox)
<1>1. /\ MailTakes /\ mailbox # <<>> /\ mailbox' = Tail(mailbox) /\ life # "Stopped"
      /\ m.kind \in Progress /\ history' = history /\ phase' = phase /\ cleanup' = cleanup
      /\ m.kind = (IF ReceiveStarted THEN "Started" ELSE "Completed")
  BY DeliverMoves DEF ReceiveStarted, ReceiveCompleted, Deliver, Progress, ToolHandlerUnchanged
<1>2. SameTag
  BY DEF ReceiveStarted, ReceiveCompleted, SameTag, TypeOK, Turns
<1>3. OwnsTools(m) <=> Batched /\ IsTagged(m, turn)
  BY DEF OwnsTools, Batched
<1>4. batch \in Batches /\ batch.entries \in Seq(Entries)
  BY DEF TypeOK, Batches
<1> DEFINE E == batch.entries
<1>5. CASE ReceiveStarted
  <2>1. m.kind = "Started"
    BY <1>5 DEF ReceiveStarted, Deliver
  <2>2. batch' = IF OwnsTools(m) /\ E[m.job] = "Queued"
                 THEN [batch EXCEPT !.entries[m.job] = "Running"]
                 ELSE batch
    BY <1>5 DEF ReceiveStarted
  <2>3. batch'.entries = IF OwnsTools(m) /\ E[m.job] = "Queued"
                         THEN [E EXCEPT ![m.job] = "Running"] ELSE E
    BY <1>4, <2>2 DEF Batches
  <2>4. /\ DOMAIN batch'.entries = DOMAIN E
        /\ \A j \in DOMAIN E : j # m.job => batch'.entries[j] = E[j]
        /\ OwnsTools(m) /\ m.job \in DOMAIN E =>
             batch'.entries[m.job] = IF E[m.job] = "Queued" THEN "Running" ELSE E[m.job]
    BY <2>3
  <2>5. ~OwnsTools(m) => batch' = batch
    BY <2>2
  <2> HIDE DEF m, E
  <2> QED BY <1>1, <1>2, <1>3, <2>1, <2>4, <2>5, ProgressMoves DEF m, E
<1>6. ASSUME NEW failed \in BOOLEAN, ReceiveCompleted(failed) PROVE Moves
  <2>1. m.kind = "Completed"
    BY <1>6 DEF ReceiveCompleted, Deliver
  <2>2. \/ /\ OwnsTools(m) /\ E[m.job] # "Completed"
           /\ batch'.entries = [E EXCEPT ![m.job] = "Completed"]
        \/ /\ ~(OwnsTools(m) /\ E[m.job] # "Completed")
           /\ batch' = batch
    BY <1>6 DEF ReceiveCompleted
  <2>3. OwnsTools(m) =>
          /\ DOMAIN batch'.entries = DOMAIN E
          /\ \A j \in DOMAIN E : j # m.job => batch'.entries[j] = E[j]
          /\ m.job \in DOMAIN E => batch'.entries[m.job] = "Completed"
    BY <2>2
  <2>4. ~OwnsTools(m) => batch' = batch
    BY <2>2
  <2> HIDE DEF m, E
  <2> QED BY <1>1, <1>2, <1>3, <2>1, <2>3, <2>4, ProgressMoves DEF m, E
<1> QED BY <1>5, <1>6

\* When the end of the executor or of the turn is told, the batch says what
\* has become of its jobs.
LEMMA BatchIsTrue ==
  ASSUME TypeOK, TaskInv, TellInv, Batched, mailbox # <<>>, NEW m, m = Head(mailbox),
         \/ m.kind = "Finished" /\ IsTagged(m, turn)
         \/ m.kind = "Cleanup" /\ m.turn = turn.id,
         NEW e \in execs, IsTagged(e, turn)
  PROVE  ~e.live /\ batch.entries = Truth(e)
<1>1. m \in Mail /\ 1 \in DOMAIN mailbox /\ m = mailbox[1] /\ DOMAIN mailbox \subseteq Nat \ {0}
  BY MailMoves DEF TypeOK
<1>2. ~e.live
  <2>1. CASE m.kind = "Finished" /\ IsTagged(m, turn)
    <3>1. Same(m, e)
      BY <2>1 DEF IsTagged, Same
    <3> QED BY <1>1, <2>1, <3>1 DEF TaskInv, ReportsAreLate
  <2>2. CASE m.kind = "Cleanup" /\ m.turn = turn.id
    <3>1. Drained(turn.id)
      BY <1>1, <2>2 DEF TellInv, CleanupsAreLate
    <3> QED BY <3>1 DEF Drained, IsTagged
  <2> QED BY <2>1, <2>2
<1>3. ASSUME NEW n \in Mail, n.kind \in Progress, Same(n, e) PROVE FALSE
  <2>1. PICK l \in DOMAIN mailbox : n = mailbox[l]
    BY DEF Mail
  <2>2. Closes(m, n)
    BY <1>3 DEF Closes, Same, IsTagged
  <2>3. l < 1
    BY <1>1, <1>3, <2>1, <2>2 DEF TellInv, NewsIsInOrder
  <2> QED BY <1>1, <2>3
<1>4. Agrees(e, batch.entries, Mail)
  BY DEF TellInv, BatchFollows
<1>5. DOMAIN batch.entries = DOMAIN e.jobs /\ \A j \in DOMAIN e.jobs : batch.entries[j] = Truth(e)[j]
  BY <1>3, <1>4 DEF Agrees, Progress
<1>6. batch.entries \in Seq(Entries)
  BY DEF TypeOK, Batches
<1>7. batch.entries = [j \in DOMAIN e.jobs |-> batch.entries[j]]
  BY <1>5, <1>6
<1>8. Truth(e) = [j \in DOMAIN e.jobs |-> Truth(e)[j]]
  BY DEF Truth
<1>9. batch.entries = Truth(e)
  BY <1>5, <1>7, <1>8
<1> QED BY <1>2, <1>9

\* What is recorded when the batch is true.
LEMMA RecordMoves ==
  ASSUME TypeOK, TaskInv, TellInv, Batched, life # "Stopped",
         history' = Record(history, turn, batch),
         \A e \in execs : IsTagged(e, turn) =>
           ~e.live /\ (batch.entries = Truth(e) \/ Excused(e)'),
         AtWork' => ~SameTag
  PROVE  HistoryMoves
<1>1. history \in Seq([turn : Nat, op : Nat, entries : Seq(Entries)]) /\ AtWork
  BY DEF TypeOK, Batched, AtWork
<1> DEFINE x == Exchange(turn, batch)
           n == Len(history) + 1
<1>2. x.turn = turn.id /\ x.op = turn.op /\ x.entries = batch.entries
  BY DEF Exchange
<1>3. /\ DOMAIN history' = DOMAIN history \cup {n} /\ n \notin DOMAIN history
      /\ history'[n] = x /\ \A k \in DOMAIN history : history'[k] = history[k]
  BY <1>1 DEF Record
<1> HIDE DEF x, n
<1>4. PICK o \in execs : IsTagged(o, turn)
  BY DEF TellInv, BatchFollows
<1>5. Same(x, o) /\ \A e : Same(x, e) => IsTagged(e, turn)
  BY <1>2, <1>4 DEF Same, IsTagged
<1>6. \A k \in DOMAIN history : ~Same(history[k], x) /\ ~Same(x, history[k])
  BY <1>1, <1>2 DEF TellInv, ExchangesAreOnce, Same, IsTagged
<1>7. \A k \in DOMAIN history' : \E e \in execs : Same(history'[k], e)
  BY <1>3, <1>5 DEF TellInv, ExchangesAreOnce
<1>8. \A k, l \in DOMAIN history' : Same(history'[k], history'[l]) => k = l
  BY <1>3, <1>6 DEF TellInv, ExchangesAreOnce
<1>9. ASSUME NEW k \in DOMAIN history', NEW e \in execs, Same(history'[k], e)
      PROVE  ~e.live /\ (history'[k].entries = Truth(e) \/ Excused(e)')
  <2>1. CASE k = n
    BY <1>2, <1>3, <1>5, <1>9, <2>1
  <2>2. CASE k \in DOMAIN history
    BY <1>3, <1>9, <2>2 DEF TellInv, ExchangesAreTrue, Excused
  <2> QED BY <1>3, <2>1, <2>2
<1>10. ASSUME phase \in {"Provider", "Tools"}, NEW e \in execs, e.turn = turn.id
       PROVE  Recorded(e, history')
  <2>1. CASE e.op = turn.op
    BY <1>2, <1>3, <1>10, <2>1 DEF Recorded, Same
  <2>2. CASE e.op # turn.op
    BY <1>3, <1>10, <2>2 DEF TellInv, ExchangesAreOnce, Recorded
  <2> QED BY <2>1, <2>2
<1> QED BY <1>7, <1>8, <1>9, <1>10 DEF HistoryMoves

\* A batch that ends is recorded, or its turn stops.
LEMMA ReceiveFinishedMoves ==
  ASSUME TypeOK, TaskInv, TellInv, ReceiveFinished
  PROVE  Moves
<1> DEFINE m == Head(mailbox)
<1>1. /\ MailTakes /\ mailbox # <<>> /\ life # "Stopped" /\ m.kind = "Finished"
      /\ m.kind \notin Progress
  BY DeliverMoves DEF ReceiveFinished, Deliver, Progress
<1>2. CASE phase = "Tools" /\ Stop(turn, batch, "Tools", "Failed", FALSE, status) /\ UNCHANGED history
  <2>1. Settles
    BY <1>2, EngineSettles DEF Batched
  <2> QED BY <1>1, <1>2, <2>1, QuietMoves
<1>3. CASE /\ phase = "Tools" /\ IsTagged(m, turn)
           /\ history' = Record(history, turn, batch)
           /\ LaunchProvider(NextRun(turn), gate, FALSE, status)
  <2>1. Batched
    BY <1>3 DEF Batched
  <2>2. \A e \in execs : IsTagged(e, turn) => ~e.live /\ batch.entries = Truth(e)
    BY <1>1, <1>3, <2>1, BatchIsTrue
  <2>3. turn' = NextRun(turn) /\ ~Batched'
    BY <1>3, EngineBatches DEF LaunchProvider, Stop
  <2>4. turn' \in Turns /\ turn'.op > turn.op /\ turn \in Turns
    BY <2>3, NextOps DEF Follows, TypeOK
  <2>5. ~SameTag
    BY <2>4 DEF SameTag, Turns
  <2> QED BY <1>1, <1>3, <2>1, <2>2, <2>3, <2>5, RecordMoves DEF Moves, BatchMoves
<1>4. CASE UNCHANGED <<engine, history>>
  BY <1>1, <1>4, EngineSettles, QuietMoves
<1> QED BY <1>2, <1>3, <1>4 DEF ReceiveFinished

\* The turn that begins after another is another.
LEMMA NextTurnIsNew ==
  ASSUME TypeOK, TaskInv, AtWork, NEW st, NewId(st) = NewId(status), AfterTurn(st), AtWork'
  PROVE  ~SameTag
<1>1. turn.id \in DOMAIN status /\ turn.id \notin Ids(queue)
  BY DEF TypeOK, AtWork, TaskInv, NamesAreNew
<1>2. \A f, g, new : Begin(f, g, new) => turn'.id = f.id
  <2>1. \A f : FirstRun(f.id).id = f.id
    BY DEF FirstRun, NoTurn
  <2>2. \A t, b, w, o, c, new : Stop(t, b, w, o, c, new) => turn' = t
    BY DEF Stop
  <2>3. \A t, g, p, new : LaunchProvider(t, g, p, new) => turn' = t
    BY <2>2 DEF LaunchProvider
  <2>4. \A t, n, new : LaunchTools(t, n, new) => turn' = t
    BY DEF LaunchTools
  <2> SUFFICES ASSUME NEW f, NEW g, NEW new, Begin(f, g, new) PROVE turn'.id = f.id
    OBVIOUS
  <2> DEFINE t == FirstRun(f.id)
  <2>5. \/ LaunchProvider(t, g, FALSE, new)
        \/ LaunchTools(t, 1, new)
        \/ Stop(t, NoBatch, "Provider", "Failed", FALSE, new)
    BY DEF Begin
  <2> HIDE DEF t
  <2>6. turn' = t
    BY <2>2, <2>3, <2>4, <2>5
  <2> QED BY <2>1, <2>6 DEF t
<1>3. CASE queue # <<>> /\ Begin(Head(queue), gate, st)
  <2>1. Head(queue).id \in Ids(queue)
    <3>1. queue \in Seq(FollowUps) /\ OneEach(queue)
      BY DEF TypeOK, FollowUps, TaskInv, NamesAreNew
    <3> QED BY <1>3, <3>1, TailMoves
  <2> QED BY <1>1, <1>2, <1>3, <2>1 DEF SameTag
<1>4. CASE Begin(FollowUp(NewId(st), "Provider"), gate, Accept(st))
  <2>1. NewId(st) \notin DOMAIN status
    BY InputIsNew
  <2>2. turn'.id = NewId(st)
    BY <1>2, <1>4 DEF FollowUp
  <2> QED BY <1>1, <2>1, <2>2 DEF SameTag
<1>5. CASE BecomeWaiting(turn.id, st) \/ BecomeIdle(st)
  BY <1>5 DEF BecomeWaiting, BecomeIdle, AtWork
<1> QED BY <1>3, <1>4, <1>5 DEF AfterTurn

\* A turn that ends records its batch, unless it is cleared.
LEMMA ReceiveCleanupMoves ==
  ASSUME TypeOK, TaskInv, TellInv, ReceiveCleanup
  PROVE  Moves
<1> DEFINE m  == Head(mailbox)
           st == Report(status, turn.id, cleanup.outcome)
           current == phase = "Stopping" /\ m.turn = turn.id
<1>1. /\ MailTakes /\ mailbox # <<>> /\ life # "Stopped" /\ m.kind = "Cleanup"
      /\ m.kind \notin Progress
  BY DeliverMoves DEF ReceiveCleanup, Deliver, Progress
<1>2. phase = "Stopping" => NewId(st) = NewId(status)
  <2> SUFFICES ASSUME phase = "Stopping" PROVE NewId(st) = NewId(status)
    OBVIOUS
  <2>1. cleanup.outcome \in Status
    BY StatusNames DEF TypeOK, Outcomes
  <2>2. status \in Seq(Status) /\ st \in Seq(Status) /\ DOMAIN st = DOMAIN status
    BY <2>1, ReportType, EngineStatus DEF TypeOK
  <2> HIDE DEF st
  <2> QED BY <2>2, SameLength DEF NewId
<1> HIDE DEF st
<1>3. CASE /\ current /\ history' = FinishedHistory
           /\ BecomeIdle(st) \/ AfterTurn(st)
  <2>1. AtWork' => ~SameTag
    BY <1>2, <1>3, NextTurnIsNew DEF BecomeIdle, AtWork
  <2>2. Batched' => phase' = "Tools"
    <3>1. \/ BecomeIdle(st) \/ \E id : BecomeWaiting(id, st)
          \/ \E f, new : Begin(f, gate, new)
      BY <1>3 DEF AfterTurn
    <3> QED BY <3>1, EngineBatches
  <2>3. CASE cleanup.work = "Tools"
    <3>1. Batched /\ history' = Record(history, turn, batch)
      BY <1>3, <2>3 DEF Batched, FinishedHistory
    <3>2. \A e \in execs : IsTagged(e, turn) => ~e.live /\ batch.entries = Truth(e)
      BY <1>1, <1>3, <3>1, BatchIsTrue
    <3>3. HistoryMoves
      BY <1>1, <2>1, <3>1, <3>2, RecordMoves
    <3> QED BY <1>1, <1>3, <2>2, <3>3 DEF Moves, BatchMoves
  <2>4. CASE cleanup.work # "Tools"
    <3>1. history' = history /\ Settles
      BY <1>3, <2>2, <2>4 DEF FinishedHistory, Settles
    <3> QED BY <1>1, <3>1, QuietMoves
  <2> QED BY <2>3, <2>4
<1>4. CASE current /\ AfterClear(st)
  <2>1. history' = <<>> /\ phase' = "Idle"
    BY <1>4 DEF AfterClear, Cleared, FreshSession, BecomeIdle
  <2>2. Settles
    BY <1>4, <2>1 DEF Settles, Batched
  <2> QED BY <1>1, <1>4, <2>1, <2>2, QuietMoves
<1>5. CASE UNCHANGED <<engine, history>>
  BY <1>1, <1>5, EngineSettles, QuietMoves
<1> QED BY <1>3, <1>4, <1>5 DEF ReceiveCleanup, st

\* A forced stop records the batch as far as it is known.
LEMMA ShutdownFinishedMoves ==
  ASSUME TypeOK, TaskInv, TellInv, ShutdownFinished
  PROVE  Moves
<1>1. /\ MailTakes /\ mailbox' = mailbox /\ life # "Stopped" /\ life' = "Stopped"
      /\ phase' = "Idle" /\ \A e \in execs : ~e.live
  BY DEF ShutdownFinished, MailTakes
<1>2. ~AtWork' /\ ~Batched'
  BY <1>1 DEF AtWork, Batched
<1>3. CASE phase = "Stopping" /\ cleanup.work = "Tools"
  <2>1. Batched /\ history' = Record(history, turn, batch)
    BY <1>3 DEF ShutdownFinished, Batched, FinishedHistory
  <2>2. ASSUME NEW e \in execs, IsTagged(e, turn), ~Excused(e)'
        PROVE  batch.entries = Truth(e)
    <3>1. \A m \in Mail : m.turn # e.turn
      BY <1>1, <2>2, MailMoves DEF Excused
    <3>2. Agrees(e, batch.entries, Mail)
      BY <2>1, <2>2 DEF TellInv, BatchFollows
    <3>3. DOMAIN batch.entries = DOMAIN e.jobs /\ \A j \in DOMAIN e.jobs : batch.entries[j] = Truth(e)[j]
      BY <3>1, <3>2 DEF Agrees, Same
    <3>4. batch.entries \in Seq(Entries)
      BY DEF TypeOK, Batches
    <3>5. batch.entries = [j \in DOMAIN e.jobs |-> batch.entries[j]]
      BY <3>3, <3>4
    <3>6. Truth(e) = [j \in DOMAIN e.jobs |-> Truth(e)[j]]
      BY DEF Truth
    <3> QED BY <3>3, <3>5, <3>6
  <2>3. HistoryMoves
    BY <1>1, <1>2, <2>1, <2>2, RecordMoves
  <2> QED BY <1>1, <1>2, <2>3 DEF Moves, BatchMoves
<1>4. CASE ~(phase = "Stopping" /\ cleanup.work = "Tools")
  <2>1. history' = history
    BY <1>4 DEF ShutdownFinished, FinishedHistory
  <2>2. HistoryMoves
    BY <1>1, <2>1, HistoryStays
  <2> QED BY <1>1, <1>2, <2>2 DEF Moves, BatchMoves
<1> QED BY <1>3, <1>4

\* What is told stays as it is when nothing happens.
LEMMA TellStutters ==
  ASSUME TypeOK, TellInv, UNCHANGED <<control, engine, mailbox, history>>
  PROVE  TellInv'
<1>1. Mail' = Mail
  BY MailMoves
<1> QED BY <1>1
   DEF control, engine, TellInv, ExchangesAreOnce, BatchFollows, NewsIsOfJobs, NewsIsInOrder,
       CleanupsAreLate, ExchangesAreTrue, Batched, AtWork, Excused, Drained, DrainedOfRuns

\* No command and no handler tells what is not so.
LEMMA HandlersTell ==
  ASSUME TypeOK, TaskInv, TellInv, Commands \/ Answer \/ Handlers
  PROVE  TellInv'
<1>1. CASE Commands
  BY <1>1, CommandMoves, HandlersKeepTasks DEF HandlerStep
<1>2. CASE Answer
  BY <1>2, AnswerMoves, HandlersKeepTasks DEF HandlerStep
<1>3. CASE Handlers
  <2>1. Moves
    BY <1>3, ReceiveProviderMoves, ToolEventMoves, ReceiveFinishedMoves, ReceiveAskMoves,
       ReceiveCleanupMoves, ShutdownMoves, ShutdownFinishedMoves DEF Handlers
  <2> QED BY <1>3, <2>1, HandlersKeepTasks DEF HandlerStep
<1> QED BY <1>1, <1>2, <1>3

-----------------------------------------------------------------------------
(* Tasks, and what the conversation is told                                *)

\* A message that is appended is the last of the mailbox.
LEMMA SendingKeepsOrder ==
  ASSUME TypeOK, NewsIsInOrder, NEW m \in Messages, Send(m),
         m.kind \in Progress => \A o \in Mail : ~Closes(o, m)
  PROVE  NewsIsInOrder'
<1>1. /\ Len(mailbox) \in Nat /\ DOMAIN mailbox = 1..Len(mailbox)
      /\ DOMAIN mailbox' = 1..(Len(mailbox) + 1)
      /\ mailbox'[Len(mailbox) + 1] = m
      /\ \A i \in 1..Len(mailbox) : mailbox'[i] = mailbox[i] /\ mailbox[i] \in Mail
  BY DEF TypeOK, Send, Mail
<1>2. SUFFICES ASSUME NEW i \in DOMAIN mailbox', NEW l \in DOMAIN mailbox',
                      mailbox'[l].kind \in Progress, Closes(mailbox'[i], mailbox'[l])
               PROVE  l < i
  BY DEF NewsIsInOrder
<1>3. CASE l = Len(mailbox) + 1
  <2>1. mailbox'[i] \notin Mail
    BY <1>1, <1>2, <1>3
  <2>2. mailbox'[i] = m /\ mailbox'[l] = m
    BY <1>1, <1>3, <2>1
  <2>3. m.kind \in {"Finished", "Cleanup"}
    BY <1>2, <2>2 DEF Closes
  <2> QED BY <1>2, <2>2, <2>3 DEF Progress
<1>4. CASE l # Len(mailbox) + 1 /\ i # Len(mailbox) + 1
  <2>1. /\ i \in DOMAIN mailbox /\ l \in DOMAIN mailbox
        /\ mailbox'[i] = mailbox[i] /\ mailbox'[l] = mailbox[l]
    BY <1>1, <1>4
  <2> QED BY <1>2, <2>1 DEF NewsIsInOrder
<1>5. CASE l # Len(mailbox) + 1 /\ i = Len(mailbox) + 1
  BY <1>1, <1>5
<1> QED BY <1>3, <1>4, <1>5

\* A provider task, or a cleanup, tells nothing of a job.
LEMMA OthersTell ==
  ASSUME TypeOK, TellInv, TaskUnchanged, execs' = execs, RunsFade(runs'),
         cleanups' \subseteq cleanups,
         \/ mailbox' = mailbox
         \/ \E m \in Messages :
              /\ Send(m) /\ m.kind \notin Progress
              /\ m.kind = "Cleanup" => m.turn \in cleanups /\ Drained(m.turn)
  PROVE  TellInv'
<1>1. /\ UNCHANGED <<life, phase, turn, batch, cleanup, history>>
      /\ (AtWork' <=> AtWork) /\ (Batched' <=> Batched)
  BY DEF TaskUnchanged, control, AtWork, Batched
<1>2. /\ Mail \subseteq Mail'
      /\ \A m \in Mail' : \/ m \in Mail
                          \/ /\ m.kind \notin Progress
                             /\ m.kind = "Cleanup" => m.turn \in cleanups /\ Drained(m.turn)
  BY MailMoves
<1>3. NewsIsInOrder'
  <2>1. CASE mailbox' = mailbox
    BY <2>1 DEF TellInv, NewsIsInOrder
  <2>2. ASSUME NEW m \in Messages, Send(m), m.kind \notin Progress PROVE NewsIsInOrder'
    BY <2>2, SendingKeepsOrder DEF TellInv
  <2> QED BY <2>1, <2>2
<1>4. ExchangesAreOnce'
  BY <1>1 DEF TellInv, ExchangesAreOnce
<1>5. BatchFollows'
  <2>1. \A e, entries : Agrees(e, entries, Mail) => Agrees(e, entries, Mail')
    BY <1>2 DEF Agrees
  <2> QED BY <1>1, <2>1 DEF TellInv, BatchFollows
<1>6. NewsIsOfJobs'
  BY <1>2 DEF TellInv, NewsIsOfJobs
<1>7. CleanupsAreLate'
  <2>1. ASSUME NEW id, Drained(id) PROVE Drained(id)'
    BY <2>1 DEF Drained, DrainedOfRuns, RunsFade, Same
  <2>2. \A m \in Mail' : m.kind = "Cleanup" => Drained(m.turn)
    BY <1>2 DEF TellInv, CleanupsAreLate
  <2>3. phase' \in {"Provider", "Tools"} =>
          /\ turn'.id \notin cleanups'
          /\ \A m \in Mail' : m.kind = "Cleanup" => m.turn # turn'.id
    BY <1>1, <1>2 DEF TellInv, CleanupsAreLate
  <2>4. \A m \in Mail' : m.kind = "Cleanup" => Drained(m.turn)'
    BY <2>1, <2>2
  <2> QED BY <2>3, <2>4 DEF CleanupsAreLate
<1>8. ExchangesAreTrue'
  BY <1>1, <1>2 DEF TellInv, ExchangesAreTrue, Excused
<1> QED BY <1>3, <1>4, <1>5, <1>6, <1>7, <1>8 DEF TellInv

\* A job goes on, and what the batch does not know of it yet is told.
Waits(job) == job \in {"queued", "scheduled"}
GoesOn(old, new) ==
  /\ old = "done" => new = "done"
  /\ Waits(new) => Waits(old)
Alike(old, new) == (old = "done" <=> new = "done") /\ (Waits(old) <=> Waits(new))
Tells(m, e, j, job) ==
  Same(m, e) /\ m.job = j /\ m.kind = IF job = "done" THEN "Completed" ELSE "Started"

\* An executor goes on with its jobs, tells what it has done, or ends.
LEMMA ExecutorTells ==
  ASSUME TypeOK, TaskInv, TellInv, NEW e \in execs, e.live,
         TaskUnchanged, UNCHANGED <<runs, cleanups>>,
         NEW new, Change(e, new), Same(new, e), DOMAIN new.jobs = DOMAIN e.jobs,
         \A j \in DOMAIN e.jobs : GoesOn(e.jobs[j], new.jobs[j]),
         \A j \in DOMAIN e.jobs :
           Alike(e.jobs[j], new.jobs[j]) \/ \E m \in Mail' : Tells(m, e, j, new.jobs[j]),
         \/ mailbox' = mailbox
         \/ \E m \in Messages :
              /\ Send(m) /\ Same(m, e) /\ m.kind # "Cleanup"
              /\ m.kind \in Progress =>
                   /\ m.job \in DOMAIN e.jobs /\ ~Waits(new.jobs[m.job])
                   /\ m.kind = "Completed" => new.jobs[m.job] = "done"
  PROVE  TellInv'
<1>1. /\ UNCHANGED <<life, phase, turn, batch, cleanup, history, runs, cleanups>>
      /\ (AtWork' <=> AtWork) /\ (Batched' <=> Batched)
  BY DEF TaskUnchanged, control, AtWork, Batched
<1>2. /\ execs' = (execs \ {e}) \cup {new}
      /\ \A o \in execs : Same(o, e) => o = e
  BY DEF Change, TaskInv, TagsAreNew, Distinct
<1>3. /\ Mail \subseteq Mail'
      /\ \A m \in Mail' :
           \/ m \in Mail
           \/ /\ Same(m, e) /\ m.kind # "Cleanup"
              /\ m.kind \in Progress =>
                   /\ m.job \in DOMAIN e.jobs /\ ~Waits(new.jobs[m.job])
                   /\ m.kind = "Completed" => new.jobs[m.job] = "done"
  BY MailMoves
\* Nothing was said after the executor: it is alive.
<1>4. /\ \A m \in Mail : m.kind = "Finished" => ~Same(m, e)
      /\ \A m \in Mail : m.kind = "Cleanup" => m.turn # e.turn
      /\ \A k \in DOMAIN history : ~Same(history[k], e)
  BY DEF TaskInv, ReportsAreLate, TellInv, CleanupsAreLate, Drained, ExchangesAreTrue
<1>5. NewsIsInOrder'
  <2>1. CASE mailbox' = mailbox
    BY <2>1 DEF TellInv, NewsIsInOrder
  <2>2. ASSUME NEW m \in Messages, Send(m), Same(m, e) PROVE NewsIsInOrder'
    <3>1. \A o \in Mail : ~Closes(o, m)
      BY <1>4, <2>2 DEF Closes, Same
    <3> QED BY <2>2, <3>1, SendingKeepsOrder DEF TellInv
  <2> QED BY <2>1, <2>2
<1>6. ExchangesAreOnce'
  <2>1. \A k \in DOMAIN history : \E o \in execs' : Same(history[k], o)
    BY <1>2, <1>4 DEF TellInv, ExchangesAreOnce
  <2>2. phase \in {"Provider", "Tools"} =>
          \A o \in execs' : o.turn = turn.id =>
            Recorded(o, history) \/ (phase = "Tools" /\ o.op = turn.op)
    BY <1>2 DEF TellInv, ExchangesAreOnce, Recorded, Same
  <2> QED BY <1>1, <2>1, <2>2 DEF TellInv, ExchangesAreOnce
<1>7. BatchFollows'
  <2>1. SUFFICES ASSUME Batched
                 PROVE  /\ \E o \in execs' : IsTagged(o, turn)
                        /\ \A o \in execs' : IsTagged(o, turn) => Agrees(o, batch.entries, Mail')
    BY <1>1 DEF BatchFollows
  <2>2. /\ \E o \in execs : IsTagged(o, turn)
        /\ \A o \in execs : IsTagged(o, turn) => Agrees(o, batch.entries, Mail)
    BY <2>1 DEF TellInv, BatchFollows
  <2>3. \E o \in execs' : IsTagged(o, turn)
    BY <1>2, <2>2 DEF IsTagged, Same
  <2>4. \A o \in execs \ {e} : IsTagged(o, turn) => Agrees(o, batch.entries, Mail')
    BY <1>3, <2>2 DEF Agrees
  <2>5. ASSUME IsTagged(new, turn) PROVE Agrees(new, batch.entries, Mail')
    <3>1. Agrees(e, batch.entries, Mail)
      BY <2>2, <2>5 DEF IsTagged, Same
    <3>2. SUFFICES ASSUME NEW j \in DOMAIN e.jobs
                   PROVE  /\ \/ batch.entries[j] = Truth(new)[j]
                             \/ \E m \in Mail' : Tells(m, new, j, new.jobs[j])
                          /\ batch.entries[j] = "Completed" => new.jobs[j] = "done"
                          /\ batch.entries[j] = "Running" => ~Waits(new.jobs[j])
      BY <3>1 DEF Agrees, Tells, Waits
    <3>3. GoesOn(e.jobs[j], new.jobs[j])
      OBVIOUS
    <3>4. CASE Alike(e.jobs[j], new.jobs[j])
      <4>1. Truth(new)[j] = Truth(e)[j]
        BY <3>4 DEF Truth, Alike, Waits
      <4>2. \/ batch.entries[j] = Truth(e)[j]
            \/ \E m \in Mail : Tells(m, e, j, e.jobs[j])
        BY <3>1 DEF Agrees, Tells
      <4>3. \A m : Tells(m, e, j, e.jobs[j]) => Tells(m, new, j, new.jobs[j])
        BY <3>4 DEF Tells, Same, Alike
      <4> QED BY <1>3, <3>1, <3>3, <4>1, <4>2, <4>3 DEF Agrees, GoesOn, Waits
    <3>5. CASE \E m \in Mail' : Tells(m, e, j, new.jobs[j])
      <4>1. \E m \in Mail' : Tells(m, new, j, new.jobs[j])
        BY <3>5 DEF Tells, Same
      <4> QED BY <3>1, <3>3, <4>1 DEF Agrees, GoesOn, Waits
    <3> QED BY <3>4, <3>5
  <2> QED BY <1>2, <2>3, <2>4, <2>5
<1>8. NewsIsOfJobs'
  <2>1. SUFFICES ASSUME NEW m \in Mail', NEW o \in execs', m.kind \in Progress, Same(m, o)
                 PROVE  /\ m.job \in DOMAIN o.jobs /\ ~Waits(o.jobs[m.job])
                        /\ m.kind = "Completed" => o.jobs[m.job] = "done"
    BY DEF NewsIsOfJobs, Waits
  <2>2. CASE o = new
    <3>1. CASE m \in Mail
      <4>1. Same(m, e)
        BY <2>1, <2>2 DEF Same
      <4>2. /\ m.job \in DOMAIN e.jobs /\ ~Waits(e.jobs[m.job])
            /\ m.kind = "Completed" => e.jobs[m.job] = "done"
        BY <2>1, <3>1, <4>1 DEF TellInv, NewsIsOfJobs, Waits
      <4> QED BY <2>2, <4>2 DEF GoesOn
    <3>2. CASE m \notin Mail
      BY <1>3, <2>1, <2>2, <3>2
    <3> QED BY <3>1, <3>2
  <2>3. CASE o \in execs \ {e}
    <3>1. m \in Mail
      BY <1>2, <1>3, <2>1, <2>3 DEF Same
    <3> QED BY <2>1, <2>3, <3>1 DEF TellInv, NewsIsOfJobs, Waits
  <2> QED BY <1>2, <2>2, <2>3
<1>9. CleanupsAreLate'
  <2>1. \A m \in Mail' : m.kind = "Cleanup" => m \in Mail
    BY <1>3
  <2>2. ASSUME NEW m \in Mail', m.kind = "Cleanup" PROVE Drained(m.turn)'
    <3>1. Drained(m.turn) /\ m.turn # e.turn
      BY <1>4, <2>1, <2>2 DEF TellInv, CleanupsAreLate
    <3> QED BY <1>1, <1>2, <3>1 DEF Drained, DrainedOfRuns, Same
  <2> QED BY <1>1, <2>1, <2>2 DEF TellInv, CleanupsAreLate
<1>10. ExchangesAreTrue'
  <2>1. SUFFICES ASSUME NEW k \in DOMAIN history, NEW o \in execs', Same(history[k], o)
                 PROVE  ~o.live /\ (history[k].entries = Truth(o) \/ Excused(o)')
    BY <1>1 DEF ExchangesAreTrue
  <2>2. o \in execs
    BY <1>2, <1>4, <2>1 DEF Same
  <2> QED BY <1>1, <1>3, <2>1, <2>2 DEF TellInv, ExchangesAreTrue, Excused
<1> QED BY <1>5, <1>6, <1>7, <1>8, <1>9, <1>10 DEF TellInv

\* What a provider task tells is of no job.
LEMMA ProviderTells ==
  ASSUME TypeOK, TaskInv, TellInv, NEW r \in runs,
         \/ \E u \in Updates, early \in BOOLEAN : ProviderSend(r, u, early)
         \/ ProviderLate(r)
         \/ ProviderCancelled(r)
  PROVE  TellInv'
<1>1. r \in Runs /\ TaskUnchanged /\ cleanups' = cleanups /\ execs' = execs
  BY DEF ProviderSend, ProviderLate, ProviderCancelled, TypeOK
<1>2. /\ RunsFade(runs \ {r})
      /\ RunsFade((runs \ {r}) \cup {[r EXCEPT !.state = "unread"]})
  <2> DEFINE unread == [r EXCEPT !.state = "unread"]
  <2>1. Same(unread, r) /\ (r.cancelled => unread.cancelled)
    BY <1>1 DEF Runs, Same
  <2> HIDE DEF unread
  <2>2. RunsFade(runs \ {r}) /\ RunsFade((runs \ {r}) \cup {unread})
    BY <2>1, OneFades
  <2> QED BY <2>2 DEF unread
<1>3. RunsFade(runs')
  BY <1>2 DEF ProviderSend, ProviderLate, ProviderCancelled
<1>4. "Transport" \in Updates
  BY DEF Updates, Failures
<1>5. mailbox' = mailbox \/ \E u \in Updates : Send(Message("Provider", r, 0, u))
  BY <1>4 DEF ProviderSend, ProviderLate, ProviderCancelled
<1>6. ASSUME NEW u \in Updates, Send(Message("Provider", r, 0, u))
      PROVE  \E m \in Messages :
               /\ Send(m) /\ m.kind \notin Progress
               /\ m.kind = "Cleanup" => m.turn \in cleanups /\ Drained(m.turn)
  <2> DEFINE m == Message("Provider", r, 0, u)
  <2>1. m \in Messages /\ m.kind = "Provider"
    BY <1>1 DEF Message, Messages, Runs
  <2> HIDE DEF m
  <2>2. Send(m)
    BY <1>6 DEF m
  <2> QED BY <2>1, <2>2 DEF Progress
<1> QED BY <1>1, <1>3, <1>5, <1>6, OthersTell

\* An executor tells of every job that starts and of every one that is done.
LEMMA ExecutorStepTells ==
  ASSUME TypeOK, TaskInv, TellInv, NEW e \in execs,
         \/ ExecSchedule(e)
         \/ \E j \in DOMAIN e.jobs :
              \/ ToolStart(e, j)
              \/ ToolAsk(e, j)
              \/ \E result \in Results : ToolDone(e, j, result)
         \/ \E how \in {"ok", "panicked"} : ExecFinish(e, how)
  PROVE  TellInv'
<1>1. /\ e \in Execs /\ e.live /\ TaskUnchanged /\ UNCHANGED <<runs, cleanups>>
  BY DEF ExecSchedule, ToolStart, ToolAsk, ToolDone, ExecFinish, TypeOK
<1>2. e.jobs \in Seq(Jobs) /\ DOMAIN e.jobs \subseteq Nat
  BY <1>1, LenProperties DEF Execs
<1> DEFINE Jobbed(jobs, h) == [e EXCEPT !.jobs = jobs, !.halted = h]
<1>3. \A jobs, h : Same(Jobbed(jobs, h), e) /\ Jobbed(jobs, h).jobs = jobs
  BY <1>1 DEF Execs, Same
<1>4. \A jobs : [e EXCEPT !.jobs = jobs] = Jobbed(jobs, e.halted)
  BY <1>1 DEF Execs
<1>5. \A j, x : [e EXCEPT !.jobs[j] = x] = Jobbed([e.jobs EXCEPT ![j] = x], e.halted)
  BY <1>1 DEF Execs
<1> HIDE DEF Jobbed
<1>6. CASE ExecSchedule(e)
  <2>1. PICK last \in In(e, {"queued"}) :
          Change(e, [e EXCEPT !.jobs =
            [j \in DOMAIN @ |-> IF @[j] = "queued" /\ j <= last THEN "scheduled"
                                                                ELSE @[j]]])
    BY <1>6 DEF ExecSchedule
  <2> DEFINE jobs == [j \in DOMAIN e.jobs |->
                        IF e.jobs[j] = "queued" /\ j <= last THEN "scheduled"
                                                             ELSE e.jobs[j]]
  <2>2. Change(e, [e EXCEPT !.jobs = jobs])
    BY <2>1
  <2>3. /\ DOMAIN jobs = DOMAIN e.jobs
        /\ \A j \in DOMAIN e.jobs : GoesOn(e.jobs[j], jobs[j]) /\ Alike(e.jobs[j], jobs[j])
    BY DEF GoesOn, Alike, Waits
  <2> HIDE DEF jobs
  <2>4. Change(e, Jobbed(jobs, e.halted)) /\ mailbox' = mailbox
    BY <1>4, <1>6, <2>2 DEF ExecSchedule
  <2> QED BY <1>1, <1>3, <2>3, <2>4, ExecutorTells
<1>7. ASSUME NEW j \in DOMAIN e.jobs, NEW x \in {"running", "asking", "done"}, NEW h,
             NEW kind \in {"Started", "Completed", "Ask"}, NEW what \in Results,
             Change(e, Jobbed([e.jobs EXCEPT ![j] = x], h)), Send(Message(kind, e, j, what)),
             e.jobs[j] # "done", kind = "Completed" <=> x = "done",
             x = "asking" => e.jobs[j] = "running", x = "running" => kind = "Started",
             kind = "Started" => x = "running"
      PROVE  TellInv'
  <2> DEFINE jobs == [e.jobs EXCEPT ![j] = x]
             m == Message(kind, e, j, what)
  <2>1. m \in Messages /\ m.kind = kind /\ m.job = j /\ Same(m, e)
    BY <1>1, <1>2, <1>7 DEF Message, Messages, Execs, Same
  <2>2. /\ DOMAIN jobs = DOMAIN e.jobs /\ jobs[j] = x
        /\ \A i \in DOMAIN e.jobs : i # j => jobs[i] = e.jobs[i]
    BY <1>2
  <2>3. Change(e, Jobbed(jobs, h)) /\ Send(m)
    BY <1>7
  <2> HIDE DEF jobs, m
  <2>4. m \in Mail'
    BY <2>1, <2>3, MailMoves
  <2>5. \A i \in DOMAIN e.jobs : GoesOn(e.jobs[i], jobs[i])
    BY <1>7, <2>2 DEF GoesOn, Waits
  <2>6. \A i \in DOMAIN e.jobs :
          Alike(e.jobs[i], jobs[i]) \/ \E o \in Mail' : Tells(o, e, i, jobs[i])
    <3>1. \A i \in DOMAIN e.jobs : i # j => Alike(e.jobs[i], jobs[i])
      BY <2>2 DEF Alike
    <3>2. CASE kind = "Ask"
      <4>1. Alike(e.jobs[j], jobs[j])
        BY <1>7, <2>2, <3>2 DEF Alike, Waits
      <4> QED BY <3>1, <4>1
    <3>3. CASE kind # "Ask"
      <4>1. Tells(m, e, j, jobs[j])
        BY <1>7, <2>1, <2>2, <3>3 DEF Tells
      <4> QED BY <2>4, <3>1, <4>1
    <3> QED BY <3>2, <3>3
  <2>7. /\ m.kind # "Cleanup"
        /\ m.kind \in Progress =>
             /\ m.job \in DOMAIN e.jobs /\ ~Waits(jobs[m.job])
             /\ m.kind = "Completed" => jobs[m.job] = "done"
    BY <1>7, <2>1, <2>2 DEF Waits
  <2> QED BY <1>1, <1>3, <2>1, <2>2, <2>3, <2>5, <2>6, <2>7, ExecutorTells
<1>8. ASSUME NEW j \in DOMAIN e.jobs, ToolStart(e, j) PROVE TellInv'
  <2>1. /\ Change(e, Jobbed([e.jobs EXCEPT ![j] = "running"], e.halted))
        /\ Send(Message("Started", e, j, "ok")) /\ e.jobs[j] = "scheduled"
    BY <1>5, <1>8 DEF ToolStart
  <2> QED BY <1>7, <2>1 DEF Results
<1>9. ASSUME NEW j \in DOMAIN e.jobs, ToolAsk(e, j) PROVE TellInv'
  <2>1. /\ Change(e, Jobbed([e.jobs EXCEPT ![j] = "asking"], e.halted))
        /\ Send(Message("Ask", e, j, "ok")) /\ e.jobs[j] = "running"
    BY <1>5, <1>9 DEF ToolAsk
  <2> QED BY <1>7, <2>1 DEF Results
<1>10. ASSUME NEW j \in DOMAIN e.jobs, NEW result \in Results, ToolDone(e, j, result)
       PROVE  TellInv'
  <2> DEFINE h == e.halted \/ result = "fatal"
  <2>1. /\ Change(e, [e EXCEPT !.jobs[j] = "done", !.halted = h])
        /\ Send(Message("Completed", e, j, result))
    BY <1>10, Zenon DEF ToolDone
  <2> HIDE DEF h
  <2>2. [e EXCEPT !.jobs[j] = "done", !.halted = h] = Jobbed([e.jobs EXCEPT ![j] = "done"], h)
    BY <1>1 DEF Execs, Jobbed
  <2>3. Change(e, Jobbed([e.jobs EXCEPT ![j] = "done"], h))
    BY <2>1, <2>2, Zenon
  <2>4. e.jobs[j] # "done"
    BY <1>10 DEF ToolDone
  <2> QED BY <1>7, <2>1, <2>3, <2>4
<1>11. ASSUME NEW how \in {"ok", "panicked"}, ExecFinish(e, how) PROVE TellInv'
  <2> DEFINE new == [e EXCEPT !.live = FALSE]
             m == Message("Finished", e, 0, how)
  <2>1. m \in Messages /\ m.kind = "Finished" /\ Same(m, e)
    BY <1>1 DEF Message, Messages, Execs, Results, Same
  <2>2. Same(new, e) /\ new.jobs = e.jobs
    BY <1>1 DEF Execs, Same
  <2>3. Change(e, new) /\ Send(m)
    BY <1>11 DEF ExecFinish
  <2> HIDE DEF new, m
  <2>4. \A j \in DOMAIN e.jobs : GoesOn(e.jobs[j], new.jobs[j]) /\ Alike(e.jobs[j], new.jobs[j])
    BY <2>2 DEF GoesOn, Alike
  <2>5. m.kind # "Cleanup" /\ m.kind \notin Progress
    BY <2>1 DEF Progress
  <2> QED BY <1>1, <2>1, <2>2, <2>3, <2>4, <2>5, ExecutorTells
<1> QED BY <1>6, <1>8, <1>9, <1>10, <1>11

\* A cleanup tells that its turn has no task left.
LEMMA CleanupTells ==
  ASSUME TypeOK, TaskInv, TellInv, NEW id \in cleanups, CleanupDone(id)
  PROVE  TellInv'
<1> DEFINE m == Message("Cleanup", [turn |-> id, op |-> 0], 0, "ok")
<1>1. m \in Messages /\ m.kind = "Cleanup" /\ m.turn = id /\ Send(m)
  BY DEF CleanupDone, TypeOK, Message, Messages, Results
<1> HIDE DEF m
<1>2. m.kind \notin Progress
  BY <1>1 DEF Progress
<1>3. /\ runs' = runs /\ execs' = execs /\ cleanups' \subseteq cleanups
      /\ TaskUnchanged /\ Drained(id)
  BY DEF CleanupDone
<1>4. RunsFade(runs')
  BY <1>3, TasksFade
<1> QED BY <1>1, <1>2, <1>3, <1>4, OthersTell

\* The session starts with nothing told.
LEMMA TellInit == Init => TellInv
<1> SUFFICES ASSUME Init PROVE TellInv
  OBVIOUS
<1>1. Mail = {} /\ DOMAIN mailbox = {} /\ DOMAIN history = {}
  BY DEF Init, Mail
<1> QED BY <1>1 DEF Init, TellInv, ExchangesAreOnce, BatchFollows, NewsIsOfJobs, NewsIsInOrder,
                    CleanupsAreLate, ExchangesAreTrue, Batched, AtWork

\* No step tells what is not so.
LEMMA TellNext == TypeOK /\ TaskInv /\ TellInv /\ [Next]_vars => TellInv'
<1> SUFFICES ASSUME TypeOK, TaskInv, TellInv, [Next]_vars PROVE TellInv'
  OBVIOUS
<1>1. CASE Commands \/ Answer \/ Handlers
  BY <1>1, HandlersTell
<1>2. CASE Tasks
  <2>1. ASSUME NEW r \in runs,
               \/ \E u \in Updates, early \in BOOLEAN : ProviderSend(r, u, early)
               \/ ProviderLate(r)
               \/ ProviderCancelled(r)
        PROVE  TellInv'
    BY <2>1, ProviderTells
  <2>2. ASSUME NEW e \in execs,
               \/ ExecSchedule(e)
               \/ \E j \in DOMAIN e.jobs :
                    \/ ToolStart(e, j)
                    \/ ToolAsk(e, j)
                    \/ \E result \in Results : ToolDone(e, j, result)
               \/ \E how \in {"ok", "panicked"} : ExecFinish(e, how)
        PROVE  TellInv'
    BY <2>2, ExecutorStepTells
  <2>3. ASSUME NEW id \in cleanups, CleanupDone(id) PROVE TellInv'
    BY <2>3, CleanupTells
  <2> QED BY <1>2, <2>1, <2>2, <2>3 DEF Tasks
<1>3. CASE StorageFails
  BY <1>3, TellStutters DEF StorageFails
<1>4. CASE UNCHANGED vars
  BY <1>4, TellStutters DEF vars, control, engine
<1> QED BY <1>1, <1>2, <1>3, <1>4 DEF Next, Terminated

\* What the invariant says of the exchanges.
LEMMA ExchangesSay == TypeOK /\ TellInv => ResultsAreTold
<1> SUFFICES ASSUME TypeOK, TellInv PROVE ResultsAreTold
  OBVIOUS
<1> DEFINE Of(e) == {k \in DOMAIN history : /\ history[k].turn = e.turn
                                            /\ history[k].op = e.op}
<1>1. RequestsSeeResults
  <2> SUFFICES ASSUME NEW e \in execs
               PROVE  /\ Cardinality(Of(e)) <= 1
                      /\ phase = "Provider" /\ e.turn = turn.id => Cardinality(Of(e)) = 1
    BY DEF RequestsSeeResults
  <2>1. \A k \in Of(e) : Of(e) = {k}
    BY DEF TellInv, ExchangesAreOnce, Same
  <2>2. Of(e) = {} => Cardinality(Of(e)) = 0
    BY FS_EmptySet
  <2>3. \A k \in Of(e) : Cardinality(Of(e)) = 1
    BY <2>1, FS_Singleton
  <2>4. phase = "Provider" /\ e.turn = turn.id => Of(e) # {}
    BY DEF TellInv, ExchangesAreOnce, Recorded, Same
  <2> HIDE DEF Of
  <2> QED BY <2>2, <2>3, <2>4
<1>2. HistoryIsTrue
  BY DEF TellInv, ExchangesAreTrue, HistoryIsTrue, Excused, IsTagged, Same, Mail
<1> QED BY <1>1, <1>2 DEF ResultsAreTold

\* ResultsAreTold: a request goes out when the conversation has one exchange
\* for every batch of its turn, and an exchange says what became of its jobs.
THEOREM ConversationIsTold == Spec => []ResultsAreTold
<1>1. Init => TaskInv /\ TellInv
  BY TasksInit, TellInit
<1>2. TypeOK /\ (TaskInv /\ TellInv) /\ [Next]_vars => (TaskInv /\ TellInv)'
  <2>1. TypeOK /\ TaskInv /\ [Next]_vars => TaskInv'
    BY TasksNext DEF TaskStep
  <2> QED BY <2>1, TellNext
<1>3. TypeOK /\ (TaskInv /\ TellInv) => ResultsAreTold
  BY ExchangesSay
<1> QED BY <1>1, <1>2, <1>3, TypeCorrect, PTL DEF Spec

-----------------------------------------------------------------------------
(* Reports and owners                                                      *)

\* The reports that promise a later one.
Live == {"Queued", "Running", "WaitingForTools", "Cancelling"}

\* The turns with such a report wait in the queue, but for one.
Free(st, q) == \A i \in DOMAIN st : st[i] \in Live => i \in Ids(q)
Told(st, id, q) == \A i \in DOMAIN st : st[i] \in Live => i = id \/ i \in Ids(q)

\* A machine that works owns its turn; at rest it owns what is queued.
OwnInv ==
  /\ IsIdle => Free(status, queue)
  /\ ~IsIdle => Told(status, turn.id, queue)

\* The reports that end a turn or put it aside promise nothing.
LEMMA LiveReports ==
  /\ \A o \in Outcomes : o \notin Live
  /\ "Saved" \notin Live /\ "WaitingForInput" \notin Live /\ "Cancelled" \notin Live
BY DEF Outcomes, Live

\* What reports do to the turns that are owned.
LEMMA ReportsOwned ==
  ASSUME NEW st, NEW q
  PROVE  /\ Free(st, q) => \A id : Told(st, id, q)
         /\ \A id, s : Told(st, id, q) => Told(Report(st, id, s), id, q)
         /\ \A id, s : Told(st, id, q) /\ s \notin Live => Free(Report(st, id, s), q)
         /\ \A id, s : Free(st, q) => Told(Report(st, id, s), id, q)
         /\ \A id, s : Free(st, q) /\ s \notin Live => Free(Report(st, id, s), q)
         /\ \A p : Free(st, q) => Free(CancelQueue(st, q), p) /\ Free(SaveQueue(st, q), p)
         /\ \A p, id : Told(st, id, q) => Told(CancelQueue(st, q), id, p)
         /\ \A p, id : Free(st, q) /\ Ids(q) \subseteq Ids(p) \cup {id} => Told(st, id, p)
<1>1. \A id, s, i : i \in DOMAIN st => Report(st, id, s)[i] = (IF i = id THEN s ELSE st[i])
  BY DEF Report
<1>2. \A id, s : DOMAIN Report(st, id, s) = DOMAIN st
  BY DEF Report
<1>3. "Cancelled" \notin Live /\ "Saved" \notin Live
  BY LiveReports
<1>4. /\ DOMAIN CancelQueue(st, q) = DOMAIN st /\ DOMAIN SaveQueue(st, q) = DOMAIN st
      /\ \A i \in DOMAIN st :
           /\ CancelQueue(st, q)[i] = (IF i \in Ids(q) THEN "Cancelled" ELSE st[i])
           /\ SaveQueue(st, q)[i] = (IF i \in Ids(q) THEN "Saved" ELSE st[i])
  BY DEF CancelQueue, SaveQueue, Ids
<1>5. Free(st, q) => \A id : Told(st, id, q)
  BY DEF Free, Told
<1>6. /\ \A id, s : Told(st, id, q) => Told(Report(st, id, s), id, q)
      /\ \A id, s : Told(st, id, q) /\ s \notin Live => Free(Report(st, id, s), q)
  BY <1>1, <1>2 DEF Free, Told
<1>7. /\ \A id, s : Free(st, q) => Told(Report(st, id, s), id, q)
      /\ \A id, s : Free(st, q) /\ s \notin Live => Free(Report(st, id, s), q)
  BY <1>1, <1>2 DEF Free, Told
<1>8. \A p : Free(st, q) => Free(CancelQueue(st, q), p) /\ Free(SaveQueue(st, q), p)
  BY <1>3, <1>4 DEF Free
<1>9. \A p, id : Told(st, id, q) => Told(CancelQueue(st, q), id, p)
  BY <1>3, <1>4 DEF Told
<1>10. \A p, id : Free(st, q) /\ Ids(q) \subseteq Ids(p) \cup {id} => Told(st, id, p)
  BY DEF Free, Told
<1> QED BY <1>5, <1>6, <1>7, <1>8, <1>9, <1>10

\* An accepted turn is owned when it begins or joins the queue.
LEMMA AcceptOwned ==
  ASSUME NEW st \in Seq(Status), NEW q
  PROVE  /\ Free(st, q) => Told(Accept(st), NewId(st), q)
         /\ \A p : Ids(q) \cup {NewId(st)} \subseteq Ids(p) =>
              /\ Free(st, q) => Free(Accept(st), p)
              /\ \A id : Told(st, id, q) => Told(Accept(st), id, p)
<1>1. \A i \in DOMAIN Accept(st) :
        i # NewId(st) => i \in DOMAIN st /\ Accept(st)[i] = st[i]
  BY DEF Accept, NewId
<1> QED BY <1>1 DEF Free, Told

\* The ids of a queue are those of its head and of its tail.
LEMMA TailIds ==
  ASSUME NEW S, NEW q \in Seq(S), q # <<>>
  PROVE  Ids(q) \subseteq Ids(Tail(q)) \cup {Head(q).id}
<1>1. /\ Len(q) \in Nat \ {0} /\ DOMAIN q = 1..Len(q) /\ Head(q) = q[1]
      /\ DOMAIN Tail(q) = 1..(Len(q) - 1)
      /\ \A k \in 1..(Len(q) - 1) : Tail(q)[k] = q[k + 1]
  OBVIOUS
<1>2. ASSUME NEW k \in DOMAIN q, k # 1 PROVE q[k].id \in Ids(Tail(q))
  <2>1. k - 1 \in 1..(Len(q) - 1) /\ (k - 1) + 1 = k
    BY <1>1, <1>2
  <2>2. Tail(q)[k - 1] = q[k] /\ k - 1 \in DOMAIN Tail(q)
    BY <1>1, <2>1
  <2> QED BY <2>2 DEF Ids
<1> QED BY <1>1, <1>2 DEF Ids

\* ... and those of a longer queue include the new one.
LEMMA EnqueueIds ==
  ASSUME NEW S, NEW q \in Seq(S), NEW f \in S
  PROVE  Ids(q) \cup {f.id} \subseteq Ids(Enqueue(q, f))
<1>1. /\ Len(q) \in Nat /\ DOMAIN q = 1..Len(q)
      /\ DOMAIN Enqueue(q, f) = 1..(Len(q) + 1)
      /\ Enqueue(q, f)[Len(q) + 1] = f /\ \A k \in 1..Len(q) : Enqueue(q, f)[k] = q[k]
  BY DEF Enqueue
<1>2. Len(q) + 1 \in DOMAIN Enqueue(q, f) /\ DOMAIN q \subseteq DOMAIN Enqueue(q, f)
  BY <1>1
<1> QED BY <1>1, <1>2 DEF Ids

\* The engine's transitions own the turn they are about.
LEMMA EngineOwns ==
  ASSUME NEW st
  PROVE  /\ \A t, b, w, o, c :
              Stop(t, b, w, o, c, st) /\ Told(st, t.id, queue') => OwnInv'
         /\ \A t, g, p :
              LaunchProvider(t, g, p, st) /\ Told(st, t.id, queue') => OwnInv'
         /\ \A t, n : LaunchTools(t, n, st) /\ Told(st, t.id, queue') => OwnInv'
         /\ \A f, g : Begin(f, g, st) /\ Told(st, f.id, queue') => OwnInv'
         /\ BecomeIdle(st) /\ Free(st, queue') => OwnInv'
         /\ \A id : BecomeWaiting(id, st) /\ Free(st, queue') => OwnInv'
<1>1. \A t, b, w, o, c :
        Stop(t, b, w, o, c, st) /\ Told(st, t.id, queue') => OwnInv'
  BY ReportsOwned DEF Stop, OwnInv, IsIdle
<1>2. \A t, g, p :
        LaunchProvider(t, g, p, st) /\ Told(st, t.id, queue') => OwnInv'
  <2>1. ASSUME NEW t, NEW g, NEW p, LaunchProvider(t, g, p, st), Told(st, t.id, queue')
        PROVE  OwnInv'
    <3>1. CASE Stop(t, NoBatch, "Provider", "WaitingForInput", FALSE, st)
      BY <1>1, <2>1, <3>1
    <3>2. CASE /\ phase' = "Provider" /\ turn' = t
               /\ status' = Report(st, t.id, "Running")
      BY <2>1, <3>2, ReportsOwned DEF OwnInv, IsIdle
    <3> QED BY <2>1, <3>1, <3>2 DEF LaunchProvider
  <2> QED BY <2>1
<1>3. \A t, n : LaunchTools(t, n, st) /\ Told(st, t.id, queue') => OwnInv'
  BY ReportsOwned DEF LaunchTools, OwnInv, IsIdle
<1>4. \A f : FirstRun(f.id).id = f.id
  BY DEF FirstRun, NoTurn
<1>5. \A f, g : Begin(f, g, st) /\ Told(st, f.id, queue') => OwnInv'
  BY <1>1, <1>2, <1>3, <1>4 DEF Begin
<1>6. BecomeIdle(st) /\ Free(st, queue') => OwnInv'
  BY DEF BecomeIdle, OwnInv, IsIdle
<1>7. \A id : BecomeWaiting(id, st) /\ Free(st, queue') => OwnInv'
  BY DEF BecomeWaiting, OwnInv, IsIdle
<1> QED BY <1>1, <1>2, <1>3, <1>5, <1>6, <1>7
\* Input is owned from the moment it is accepted.
LEMMA StartOwns ==
  ASSUME TypeOK, OwnInv, NEW kind \in Starts, Start(kind)
  PROVE  OwnInv'
<1> DEFINE f  == FollowUp(NewId(status), kind)
           st == Accept(status)
<1>1. status \in Seq(Status) /\ queue \in Seq(FollowUps)
  BY DEF TypeOK, FollowUps
<1>2. f \in FollowUps /\ f.id = NewId(status)
  BY InputType, TypeParts, StartsAssumption
<1>3. /\ Free(status, queue) => Told(st, f.id, queue)
      /\ Free(status, queue) => Free(st, Enqueue(queue, f))
      /\ \A id : Told(status, id, queue) => Told(st, id, Enqueue(queue, f))
  BY <1>1, <1>2, AcceptOwned, EnqueueIds
<1>4. \/ phase = "Idle" /\ Begin(f, gate, st) /\ UNCHANGED queue
      \/ /\ phase = "Idle" /\ queue' = Enqueue(queue, f)
         /\ BecomeWaiting(f.id, Report(st, f.id, "WaitingForInput"))
      \/ queue' = Enqueue(queue, f) /\ status' = st /\ UNCHANGED <<phase, turn>>
  BY DEF Start
<1> HIDE DEF f, st
<1>5. CASE phase = "Idle" /\ Begin(f, gate, st) /\ UNCHANGED queue
  <2>1. Told(st, f.id, queue')
    BY <1>3, <1>5 DEF OwnInv, IsIdle
  <2> QED BY <1>5, <2>1, EngineOwns
<1>6. CASE /\ phase = "Idle" /\ queue' = Enqueue(queue, f)
           /\ BecomeWaiting(f.id, Report(st, f.id, "WaitingForInput"))
  <2>1. Free(st, queue')
    BY <1>3, <1>6 DEF OwnInv, IsIdle
  <2>2. Free(Report(st, f.id, "WaitingForInput"), queue')
    BY <2>1, ReportsOwned, LiveReports
  <2> QED BY <1>6, <2>2, EngineOwns
<1>7. CASE queue' = Enqueue(queue, f) /\ status' = st /\ UNCHANGED <<phase, turn>>
  BY <1>3, <1>7 DEF OwnInv, IsIdle
<1> QED BY <1>4, <1>5, <1>6, <1>7

\* Steering cancels what it drops from the queue and reports it.
LEMMA SteerOwns ==
  ASSUME TypeOK, OwnInv, Steer
  PROVE  OwnInv'
<1> DEFINE f  == FollowUp(NewId(status), "Provider")
           st == CancelQueue(Accept(status), queue)
           cancelled == Report(st, turn.id, "Cancelled")
\* What waited is cancelled, and the new turn is not yet owned.
<1>1. /\ IsIdle => Told(st, f.id, <<>>) /\ Told(cancelled, f.id, <<>>)
      /\ ~IsIdle => Told(st, turn.id, <<f>>)
  <2>1. status \in Seq(Status) /\ f.id = NewId(status)
    BY DEF TypeOK, FollowUp
  <2>2. Ids(<<f>>) = {f.id} /\ Ids(<<>>) = {}
    BY ShortMoves
  <2>3. \A i \in DOMAIN Accept(status) :
          i # f.id => i \in DOMAIN status /\ Accept(status)[i] = status[i]
    BY <2>1 DEF Accept, NewId
  <2>4. /\ DOMAIN st = DOMAIN Accept(status)
        /\ \A i \in DOMAIN st :
             st[i] = (IF i \in Ids(queue) THEN "Cancelled" ELSE Accept(status)[i])
    BY DEF CancelQueue, Ids
  <2>5. "Cancelled" \notin Live
    BY LiveReports
  <2>6. /\ DOMAIN cancelled = DOMAIN st
        /\ \A i \in DOMAIN st : cancelled[i] = (IF i = turn.id THEN "Cancelled" ELSE st[i])
    BY DEF Report
  <2> HIDE DEF f, st, cancelled
  <2>7. IsIdle => Told(st, f.id, <<>>)
    BY <2>3, <2>4, <2>5 DEF OwnInv, Free, Told
  <2>8. IsIdle => Told(cancelled, f.id, <<>>)
    BY <2>5, <2>6, <2>7 DEF Told
  <2>9. ~IsIdle => Told(st, turn.id, <<f>>)
    BY <2>2, <2>3, <2>4, <2>5 DEF OwnInv, Told
  <2> QED BY <2>7, <2>8, <2>9
<1>2. \/ IsIdle /\ queue' = <<>> /\ Begin(f, gate, st)
      \/ IsIdle /\ queue' = <<>> /\ Begin(f, gate, cancelled)
      \/ IsIdle /\ queue' = <<f>> /\ BecomeWaiting(f.id, Report(st, f.id, "WaitingForInput"))
      \/ /\ IsIdle /\ queue' = <<f>>
         /\ BecomeWaiting(f.id, Report(cancelled, f.id, "WaitingForInput"))
      \/ /\ ~IsIdle /\ queue' = <<f>>
         /\ Stop(turn, batch, phase, "Cancelled", FALSE, st)
      \/ /\ ~IsIdle /\ queue' = <<f>> /\ status' = st
         /\ UNCHANGED <<phase, turn>>
  BY DEF Steer, IsIdle
<1> HIDE DEF f, st, cancelled
<1>3. \A s : Told(s, f.id, <<>>) => Free(Report(s, f.id, "WaitingForInput"), <<f>>)
  <2>1. \A s : Told(s, f.id, <<>>) => Told(s, f.id, <<f>>)
    BY ShortMoves DEF Told
  <2> QED BY <2>1, ReportsOwned, LiveReports
<1>4. CASE IsIdle /\ queue' = <<>> /\ (Begin(f, gate, st) \/ Begin(f, gate, cancelled))
  BY <1>1, <1>4, EngineOwns
<1>5. CASE /\ IsIdle /\ queue' = <<f>>
           /\ \/ BecomeWaiting(f.id, Report(st, f.id, "WaitingForInput"))
              \/ BecomeWaiting(f.id, Report(cancelled, f.id, "WaitingForInput"))
  BY <1>1, <1>3, <1>5, EngineOwns
<1>6. CASE /\ ~IsIdle /\ queue' = <<f>>
           /\ Stop(turn, batch, phase, "Cancelled", FALSE, st)
  BY <1>1, <1>6, EngineOwns
<1>7. CASE ~IsIdle /\ queue' = <<f>> /\ status' = st /\ UNCHANGED <<phase, turn>>
  BY <1>1, <1>7 DEF OwnInv, IsIdle
<1> QED BY <1>2, <1>4, <1>5, <1>6, <1>7

\* So does an interrupt.
LEMMA InterruptOwns ==
  ASSUME TypeOK, OwnInv, NEW clear, InterruptEngine(clear)
  PROVE  OwnInv'
<1> DEFINE st == CancelQueue(status, queue)
<1>1. /\ IsIdle => Free(st, queue')
      /\ ~IsIdle => Told(st, turn.id, queue')
  BY ReportsOwned DEF OwnInv
<1>2. \/ IsIdle /\ BecomeIdle(st)
      \/ IsIdle /\ BecomeIdle(Report(st, turn.id, "Cancelled"))
      \/ ~IsIdle /\ Stop(turn, batch, phase, "Cancelled", clear, st)
      \/ ~IsIdle /\ status' = st /\ UNCHANGED <<phase, turn>>
  BY DEF InterruptEngine, IsIdle
<1> HIDE DEF st
<1>3. IsIdle => Free(Report(st, turn.id, "Cancelled"), queue')
  BY <1>1, ReportsOwned, LiveReports
<1>4. CASE ~IsIdle /\ status' = st /\ UNCHANGED <<phase, turn>>
  BY <1>1, <1>4 DEF OwnInv, IsIdle
<1>5. CASE ~IsIdle /\ Stop(turn, batch, phase, "Cancelled", clear, st)
  BY <1>1, <1>5, EngineOwns
<1> QED BY <1>1, <1>2, <1>3, <1>4, <1>5, EngineOwns

\* A session that is left saves what it drops.
LEMMA ResumeOwns ==
  ASSUME TypeOK, OwnInv, NEW restored, Resume(restored)
  PROVE  OwnInv'
<1> DEFINE st == SaveQueue(status, queue)
<1>1. IsIdle /\ (BecomeIdle(st) \/ BecomeIdle(Report(st, turn.id, "Saved")))
  BY DEF Resume
<1>2. Free(st, queue')
  BY <1>1, ReportsOwned DEF OwnInv
<1> HIDE DEF st
<1>3. Free(Report(st, turn.id, "Saved"), queue')
  BY <1>2, ReportsOwned, LiveReports
<1> QED BY <1>1, <1>2, <1>3, EngineOwns

\* A handler that leaves the engine and the queue alone.
LEMMA ElsewhereOwns ==
  ASSUME OwnInv, UNCHANGED <<phase, status, queue>>, turn'.id = turn.id
  PROVE  OwnInv'
BY DEF OwnInv, IsIdle

\* The turn that begins after a rest, and the one that is new.
LEMMA NextOwned ==
  ASSUME TypeOK, NEW st \in Seq(Status), Free(st, queue), NEW g
  PROVE  /\ (queue # <<>> /\ queue' = Tail(queue) /\ Begin(Head(queue), g, st) => OwnInv')
         /\ (UNCHANGED queue /\ Begin(FollowUp(NewId(st), "Provider"), g, Accept(st)) => OwnInv')
<1>1. queue \in Seq(FollowUps)
  BY DEF TypeOK, FollowUps
<1>2. ASSUME queue # <<>>, queue' = Tail(queue), Begin(Head(queue), g, st) PROVE OwnInv'
  <2>1. Told(st, Head(queue).id, queue')
    BY <1>1, <1>2, TailIds, ReportsOwned
  <2> QED BY <1>2, <2>1, EngineOwns
<1>3. ASSUME UNCHANGED queue, Begin(FollowUp(NewId(st), "Provider"), g, Accept(st)) PROVE OwnInv'
  <2> DEFINE f == FollowUp(NewId(st), "Provider")
             new == Accept(st)
  <2>1. f.id = NewId(st)
    BY DEF FollowUp
  <2>2. Told(new, f.id, queue')
    BY <1>3, <2>1, AcceptOwned
  <2>3. Begin(f, g, new)
    BY <1>3
  <2> HIDE DEF f, new
  <2> QED BY <2>2, <2>3, EngineOwns
<1> QED BY <1>2, <1>3

\* An answer takes up what is queued.
LEMMA QuestionsOwn ==
  ASSUME TypeOK, OwnInv, NEW g, QuestionsChanged(g)
  PROVE  OwnInv'
<1>1. status \in Seq(Status)
  BY DEF TypeOK
<1>2. Wakes(g) => Free(status, queue)
  BY DEF OwnInv, Wakes
<1>3. CASE UNCHANGED <<engine, queue>>
  BY <1>3, ElsewhereOwns DEF engine
<1> QED BY <1>1, <1>2, <1>3, NextOwned DEF QuestionsChanged

\* A request of the parent is owned by the turn it begins.
LEMMA StartWorkerOwns ==
  ASSUME TypeOK, OwnInv, StartWorker
  PROVE  OwnInv'
<1>1. status \in Seq(Status) /\ queue' = queue
  BY DEF TypeOK, StartWorker
<1>2. CASE phase = "Idle" /\ Begin(FollowUp(NewId(status), "Provider"), gate, Accept(status))
  <2>1. Free(status, queue)
    BY <1>2 DEF OwnInv, IsIdle
  <2> QED BY <1>1, <1>2, <2>1, NextOwned
<1>3. CASE UNCHANGED engine
  BY <1>1, <1>3, ElsewhereOwns DEF engine
<1> QED BY <1>2, <1>3 DEF StartWorker
\* A failed request keeps its turn, and a used-up limit reports the queue.
LEMMA ProviderFailedOwns ==
  ASSUME TypeOK, OwnInv, phase = "Provider", NEW failure, ProviderFailed(failure)
  PROVE  OwnInv'
<1> DEFINE st == IF failure = "UsageLimit" THEN CancelQueue(status, queue) ELSE status
           t  == [turn EXCEPT !.op = @ + 1, !.attempt = @ + 1]
<1>1. /\ LaunchProvider(t, gate, TRUE, st) \/ Stop(turn, NoBatch, "Provider", "Failed", FALSE, st)
      /\ queue' = (IF failure = "UsageLimit" THEN <<>> ELSE queue)
  BY DEF ProviderFailed
<1>2. t.id = turn.id
  BY NextOps DEF Follows
<1>3. Told(st, turn.id, queue')
  <2>1. Told(status, turn.id, queue)
    BY DEF OwnInv, IsIdle
  <2> QED BY <1>1, <2>1, ReportsOwned
<1> HIDE DEF st, t
<1> QED BY <1>1, <1>2, <1>3, EngineOwns

\* An answer keeps its turn.
LEMMA ReceiveProviderOwns ==
  ASSUME TypeOK, OwnInv, ReceiveProvider
  PROVE  OwnInv'
<1> DEFINE u == ForMode(Head(mailbox).what)
<1>1. CASE UNCHANGED <<engine, queue>>
  BY <1>1, ElsewhereOwns DEF engine
<1>2. CASE phase = "Provider" /\ AcceptUpdate(u)
  <2>1. Told(status, turn.id, queue)
    BY <1>2 DEF OwnInv, IsIdle
  <2> HIDE DEF u
  <2>2. ASSUME NEW t, Follows(t), UNCHANGED queue,
               LaunchProvider(t, gate, TRUE, status) \/ \E n : LaunchTools(t, n, status)
        PROVE  OwnInv'
    BY <2>1, <2>2, EngineOwns DEF Follows
  <2>3. CASE UNCHANGED queue /\ Stop(turn, NoBatch, "Provider", "Completed", FALSE, status)
    BY <2>1, <2>3, EngineOwns
  <2>4. CASE \E failure : ProviderFailed(failure)
    BY <1>2, <2>4, ProviderFailedOwns
  <2>5. CASE UNCHANGED queue /\
               \E n \in 1..MaxJobs : LaunchTools([NextRun(turn) EXCEPT !.plans = 0], n, status)
    <3> DEFINE t == [NextRun(turn) EXCEPT !.plans = 0]
    <3>1. Follows(t) /\ \E n : LaunchTools(t, n, status)
      BY <2>5, NextOps
    <3> HIDE DEF t
    <3> QED BY <2>2, <2>5, <3>1
  <2>6. CASE UNCHANGED queue /\ LaunchProvider(NextRun(turn), gate, TRUE, status)
    BY <2>2, <2>6, NextOps
  <2>7. CASE UNCHANGED queue /\
               LaunchProvider([NextRun(turn) EXCEPT !.plans = @ + 1], gate, TRUE, status)
    <3> DEFINE t == [NextRun(turn) EXCEPT !.plans = @ + 1]
    <3>1. Follows(t) /\ LaunchProvider(t, gate, TRUE, status)
      BY <2>7, NextOps
    <3> HIDE DEF t
    <3> QED BY <2>2, <2>7, <3>1
  <2> QED BY <1>2, <2>3, <2>4, <2>5, <2>6, <2>7 DEF AcceptUpdate
<1> QED BY <1>1, <1>2 DEF ReceiveProvider

\* So does the progress of a batch,
LEMMA ToolEventOwns ==
  ASSUME TypeOK, OwnInv,
         ReceiveStarted \/ \E failed \in BOOLEAN : ReceiveCompleted(failed)
  PROVE  OwnInv'
<1>1. UNCHANGED <<phase, status, queue>> /\ turn'.id = turn.id
  BY DEF ReceiveStarted, ReceiveCompleted, ToolHandlerUnchanged, TypeOK, Turns
<1> QED BY <1>1, ElsewhereOwns

\* the end of a batch,
LEMMA ReceiveFinishedOwns ==
  ASSUME TypeOK, OwnInv, ReceiveFinished
  PROVE  OwnInv'
<1>1. queue' = queue /\ (phase = "Tools" => Told(status, turn.id, queue))
  BY DEF ReceiveFinished, OwnInv, IsIdle
<1>2. CASE phase = "Tools" /\ Stop(turn, batch, "Tools", "Failed", FALSE, status)
  BY <1>1, <1>2, EngineOwns
<1>3. CASE phase = "Tools" /\ LaunchProvider(NextRun(turn), gate, FALSE, status)
  BY <1>1, <1>3, NextOps, EngineOwns DEF Follows
<1>4. CASE UNCHANGED engine
  BY <1>1, <1>4, ElsewhereOwns DEF engine
<1> QED BY <1>2, <1>3, <1>4 DEF ReceiveFinished

\* and a question or its answer.
LEMMA AskOwns ==
  ASSUME TypeOK, OwnInv, ReceiveAsk \/ Answer
  PROVE  OwnInv'
<1>1. CASE \E g : QuestionsChanged(g)
  BY <1>1, QuestionsOwn
<1>2. CASE UNCHANGED <<engine, queue>>
  BY <1>2, ElsewhereOwns DEF engine
<1> QED BY <1>1, <1>2 DEF ReceiveAsk, Answer

\* A finished turn is reported before the next one begins.
LEMMA ReceiveCleanupOwns ==
  ASSUME TypeOK, OwnInv, ClearPending => queue = <<>>, ReceiveCleanup
  PROVE  OwnInv'
<1> DEFINE st == Report(status, turn.id, cleanup.outcome)
           current == phase = "Stopping" /\ Head(mailbox).turn = turn.id
<1>1. ASSUME phase = "Stopping" PROVE st \in Seq(Status) /\ Free(st, queue)
  <2>1. cleanup.outcome \in Outcomes /\ Told(status, turn.id, queue)
    BY <1>1 DEF TypeOK, OwnInv, IsIdle
  <2>2. cleanup.outcome \in Status /\ cleanup.outcome \notin Live
    BY <2>1, StatusNames, LiveReports DEF Outcomes
  <2> QED BY <2>1, <2>2, ReportsOwned, ReportType DEF TypeOK
<1> HIDE DEF st
<1>2. CASE current /\ BecomeIdle(st) /\ UNCHANGED queue
  BY <1>1, <1>2, EngineOwns
<1>3. CASE current /\ AfterTurn(st)
  BY <1>1, <1>3, NextOwned, EngineOwns DEF AfterTurn
<1>4. CASE current /\ cleanup.clear /\ AfterClear(st)
  <2>1. queue = <<>>
    BY <1>4 DEF ClearPending
  <2>2. BecomeIdle(st) /\ queue' = queue
    BY <1>4, <2>1 DEF AfterClear
  <2> QED BY <1>1, <1>4, <2>2, EngineOwns
<1>5. CASE UNCHANGED <<engine, queue>>
  BY <1>5, ElsewhereOwns DEF engine
<1> QED BY <1>2, <1>3, <1>4, <1>5 DEF ReceiveCleanup, st

\* Shutting down keeps the turn to report,
LEMMA ShutdownOwns ==
  ASSUME OwnInv, Shutdown
  PROVE  OwnInv'
<1>1. UNCHANGED <<status, queue>>
  BY DEF Shutdown
<1>2. CASE ~IsIdle /\ phase' = "Stopping" /\ turn' = turn
  BY <1>1, <1>2 DEF OwnInv, IsIdle
<1>3. CASE IsIdle /\ phase' = "Idle"
  BY <1>1, <1>3 DEF OwnInv, IsIdle
<1> QED BY <1>2, <1>3 DEF Shutdown, IsIdle

\* An actor that waits for its tasks is at rest or has a turn to stop.
EndInv == life = "ShuttingDown" => phase \in {"Idle", "Waiting", "Stopping"}

\* No step leaves an actor that shuts down at work.
LEMMA EndStep ==
  ASSUME EndInv, [Next]_vars
  PROVE  EndInv'
<1>1. CASE life = "ShuttingDown" /\ life' = "ShuttingDown"
  <2>1. ~Handling /\ ~Active
    BY <1>1 DEF Handling, Active
  <2>2. phase' = phase
    BY <1>1, <2>1
       DEF Next, Commands, Start, MayInput, Steer, Interrupt, Clear, NewSession, Resume,
           StartWorker, StopRequested, StopActor, Answer, Handlers, ReceiveProvider,
           ReceiveStarted, ReceiveCompleted, ReceiveFinished, ReceiveAsk, ReceiveCleanup,
           Deliver, Shutdown, ShutdownFinished, Tasks, ProviderSend, ProviderLate,
           ProviderCancelled, ExecSchedule, ToolStart, ToolAsk, ToolDone, ExecFinish,
           CleanupDone, TaskUnchanged, StorageFails, Terminated, vars
  <2> QED BY <1>1, <2>2 DEF EndInv
<1>2. CASE life # "ShuttingDown" /\ life' = "ShuttingDown"
  <2>1. CASE StopRequested
    BY <1>2, <2>1 DEF StopRequested, InterruptEngine, BecomeIdle, IsIdle, EndInv
  <2>2. CASE ReceiveCleanup
    BY <1>2, <2>2 DEF ReceiveCleanup, EndInv, control, engine
  <2>3. CASE Shutdown
    BY <1>2, <2>3 DEF Shutdown, IsIdle, EndInv
  <2> QED
    BY <1>2, <2>1, <2>2, <2>3
       DEF Next, Commands, Start, Steer, Interrupt, Clear, NewSession, Resume,
           StartWorker, StopActor, Answer, Handlers, ReceiveProvider, ReceiveStarted,
           ReceiveCompleted, ReceiveFinished, ReceiveAsk, ToolHandlerUnchanged,
           ShutdownFinished, Tasks, ProviderSend, ProviderLate, ProviderCancelled,
           ExecSchedule, ToolStart, ToolAsk, ToolDone, ExecFinish, CleanupDone,
           TaskUnchanged, StorageFails, Terminated, vars, control
<1> QED BY <1>1, <1>2 DEF EndInv

\* and its end reports it and the queue.
LEMMA ShutdownFinishedOwns ==
  ASSUME OwnInv, EndInv, ShutdownFinished
  PROVE  OwnInv'
<1> DEFINE st == CancelQueue(status, queue)
<1>1. /\ IsIdle => Free(st, queue')
      /\ ~IsIdle => Told(st, turn.id, queue')
  BY ReportsOwned DEF OwnInv
<1>2. /\ phase' = "Idle"
      /\ \/ phase = "Stopping" /\ status' = Report(st, turn.id, "Cancelled")
         \/ IsIdle /\ status' = st
  BY DEF ShutdownFinished, EndInv, IsIdle
<1> HIDE DEF st
<1>3. Free(status', queue')
  BY <1>1, <1>2, ReportsOwned, LiveReports DEF IsIdle
<1> QED BY <1>2, <1>3 DEF OwnInv, IsIdle

\* Every step keeps the promises.
LEMMA OwnStep ==
  ASSUME TypeOK, OwnInv, EndInv, ClearPending => queue = <<>>, [Next]_vars
  PROVE  OwnInv'
<1>1. CASE Commands
  <2>1. CASE \E clear : InterruptEngine(clear)
    BY <2>1, InterruptOwns
  <2>2. CASE StopActor
    BY <2>2, ElsewhereOwns DEF StopActor, engine
  <2> QED BY <1>1, <2>1, <2>2, StartOwns, SteerOwns, ResumeOwns, StartWorkerOwns
             DEF Commands, Interrupt, Clear, NewSession, StopRequested
<1>2. CASE Answer
  BY <1>2, AskOwns
<1>3. CASE Handlers
  BY <1>3, ReceiveProviderOwns, ToolEventOwns, ReceiveFinishedOwns, AskOwns,
     ReceiveCleanupOwns, ShutdownOwns, ShutdownFinishedOwns DEF Handlers
<1>4. CASE Tasks
  <2>1. TaskUnchanged
    BY <1>4 DEF Tasks, ProviderSend, ProviderLate, ProviderCancelled, ExecSchedule,
                ToolStart, ToolAsk, ToolDone, ExecFinish, CleanupDone
  <2> QED BY <2>1, ElsewhereOwns DEF TaskUnchanged
<1>5. CASE StorageFails
  BY <1>5, ElsewhereOwns DEF StorageFails, engine
<1>6. CASE UNCHANGED vars
  BY <1>6, ElsewhereOwns DEF vars
<1> QED BY <1>1, <1>2, <1>3, <1>4, <1>5, <1>6 DEF Next, Terminated

\* If no input arrives while a clear is pending, the last report of a turn is
\* never a promise that nothing keeps: a turn said to be queued, running or
\* cancelling is queued in the machine or owns it.
THEOREM PromisesAreKept == ~InputDuringClear => (Spec => []TurnsAreOwned)
<1> SUFFICES ASSUME ~InputDuringClear PROVE Spec => []TurnsAreOwned
  OBVIOUS
<1> DEFINE Inv == TaskInv /\ LoneInv /\ OwnInv /\ EndInv
<1>1. Init => Inv
  <2>1. Init => OwnInv /\ EndInv
    BY DEF Init, OwnInv, EndInv, Free, IsIdle
  <2> QED BY <2>1, TasksInit
<1>2. TypeOK /\ Inv /\ [Next]_vars => Inv'
  BY TasksNext, OwnStep, EndStep DEF TaskStep, LoneInv
<1>3. Inv => TurnsAreOwned
  BY DEF OwnInv, Free, Told, Live, IsIdle, TurnsAreOwned, Ids
<1> QED BY <1>1, <1>2, <1>3, TypeCorrect, PTL DEF Spec

=============================================================================
