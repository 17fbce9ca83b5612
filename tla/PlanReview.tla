------------------------------ MODULE PlanReview ------------------------------
(***************************************************************************)
(* The plan of a session, the requirements it was made for, the questions  *)
(* that are put to the user and the approval of a finished plan            *)
(* (interaction/, common-models/src/interaction/, workflows/src/plan.rs,   *)
(* actors/src/states/plan_completion.rs).                                  *)
(*                                                                         *)
(* Every change is an update of the interaction state that is recorded     *)
(* before it is taken over.  A handler may make several; storage may fail  *)
(* or the process crash between any two of them, and a saved session may   *)
(* be resumed.  The model writes its updates from what its last request    *)
(* showed it, while the user answers and corrects.                         *)
(***************************************************************************)
EXTENDS Integers, SequencesExt

CONSTANTS
  Steps,          \* ids of plan steps
  Definitions,    \* what a step may be: [kind, needs, text]
  OpenStates,     \* states the model gives to a step that is not completed
  MaxQuestions,   \* bound: ids of questions, 1..MaxQuestions
  MaxResults,     \* bound: tool results kept as evidence at a time
  EvidenceLimit,  \* Planning::record_evidence, 256 in the code
  MaxRevision,    \* bound: accepted plan updates
  MaxWishes,      \* bound: prompts and corrections of the user
  MaxSessions,    \* bound: sessions
  MaxFaults       \* bound: failures and crashes

\* At most sixteen steps cite eight sources each in the code, fewer than the
\* limit; here a step cites one.
ASSUME PlanAssumption ==
  /\ Cardinality(Steps) <= EvidenceLimit /\ EvidenceLimit \in Nat
  /\ {MaxQuestions, MaxResults, MaxRevision, MaxWishes, MaxSessions, MaxFaults} \subseteq Nat
  /\ OpenStates \subseteq {"Pending", "InProgress", "Blocked"}
  /\ \A d \in Definitions : d.kind \in {"Investigation", "Implementation"} /\ d.needs \subseteq Steps

VARIABLES
  saved,    \* the sessions in storage: what their events amount to
  current,  \* the session this process works on
  memory,   \* SessionState.interaction of the actor
  policy,   \* InteractionPolicy, the copy that tools are authorized by
  turn,     \* what the turn is doing and what its last request showed
  life,     \* "Ready"; "Stopped" without a process or with Persistence::Failed
  faults    \* failures and crashes so far

vars == <<saved, current, memory, policy, turn, life, faults>>

-----------------------------------------------------------------------------
(* Plans.  `wishes' and `knew' are observations: what the user has asked   *)
(* for so far, and how much of it the request knew that completed a step   *)
(* or stated it open.  A definition whose comment starts with "Variant" is *)
(* a mistake that the definition after it avoids; no action uses it.       *)

\* Evidence, in the order of its names: "answer:" sorts before "tool:".
AnswerSource(q) == q
ToolSource(k) == MaxQuestions + k

NoPlanning(mode) ==
  [mode |-> mode, revision |-> 0, covers |-> 0, requirements |-> 0,
   steps |-> <<>>, evidence |-> {}, wishes |-> 0]
HasPlan(p) == DOMAIN p.steps # {}

\* Planning::review
Review(p) == IF p.covers = p.requirements THEN "Current" ELSE "Required"

\* Variant: the revision counts accepted plans only.
RequirementsKept(p) == p
\* Planning::requirements_changed
RequirementsChanged(p) ==
  [p EXCEPT !.requirements = IF HasPlan(p) THEN @ + 1 ELSE @]

\* Variant: the oldest names go, cited or not.
RecordUnretained(p, source) ==
  LET all == p.evidence \cup {source}
  IN [p EXCEPT !.evidence =
        {s \in all : Cardinality({t \in all : t > s}) < EvidenceLimit}]
\* Planning::record_evidence: what no step cites is evicted, in name order.
RecordEvidence(p, source) ==
  LET all      == p.evidence \cup {source}
      retained == {p.steps[s].cites : s \in DOMAIN p.steps}
      free     == all \ retained
      room     == EvidenceLimit - Cardinality(all \cap retained)
  IN [p EXCEPT !.evidence =
        (all \cap retained) \cup {s \in free : Cardinality({t \in free : t > s}) < room}]

InProgress(steps) == {s \in DOMAIN steps : steps[s].state = "InProgress"}
Done(steps, ids) == \A s \in ids : s \in DOMAIN steps /\ steps[s].state = "Completed"

\* PlanStep::supported; 0 cites nothing
Supported(steps, s, evidence) ==
  /\ steps[s].needs \subseteq DOMAIN steps \ {s}
  /\ steps[s].cites = 0 \/ steps[s].cites \in evidence
  /\ steps[s].state \in {"InProgress", "Completed"} => Done(steps, steps[s].needs)
  /\ steps[s].state = "Completed" => steps[s].cites # 0

\* PlanGraph::reachable
Reachable(steps) ==
  LET after(ids) == {s \in DOMAIN steps : steps[s].needs \subseteq ids}
  IN FoldLeft(LAMBDA ids, s : after(ids), {}, SetToSeq(DOMAIN steps))

\* PlanGraph::new
WellFormed(steps, evidence) ==
  /\ DOMAIN steps # {}
  /\ Cardinality(InProgress(steps)) <= 1
  /\ \A s \in DOMAIN steps : Supported(steps, s, evidence)
  /\ Reachable(steps) = DOMAIN steps

Definition(step) == [kind |-> step.kind, needs |-> step.needs, text |-> step.text]

\* Variant: a completed step may stay so after the requirements have changed.
StepMayStay(old, s, step, review) ==
  LET same == s \in DOMAIN old /\ Definition(old[s]) = Definition(step)
      was  == IF s \in DOMAIN old THEN old[s].state ELSE "None"
  IN \/ step.state \in {"Pending", "Blocked"}
     \/ step.state = "InProgress" /\ was \in {"None", "Pending", "Blocked"}
     \/ step.state \in {"InProgress", "Completed"} /\ was = step.state /\ same
     \/ /\ step.state = "Completed" /\ review = "Current"
        /\ was \in {"Pending", "InProgress"} /\ same
\* PlanStep::transition
StepMayBecome(old, s, step, review) ==
  LET same == s \in DOMAIN old /\ Definition(old[s]) = Definition(step)
      was  == IF s \in DOMAIN old THEN old[s].state ELSE "None"
  IN \/ step.state \in {"Pending", "Blocked"}
     \/ step.state = "InProgress" /\ was \in {"None", "Pending", "Blocked"}
     \/ step.state = "InProgress" /\ was = "InProgress" /\ same
     \/ /\ step.state = "Completed" /\ review = "Current"
        /\ was \in {"Pending", "InProgress", "Completed"} /\ same

\* PlanGraph::transition
MayBecome(p, steps) ==
  /\ \A s \in DOMAIN p.steps : p.steps[s].state = "Completed" => s \in DOMAIN steps
  /\ \A s \in DOMAIN steps : StepMayBecome(p.steps, s, steps[s], Review(p))

\* Plan::update accepts an update written for these revisions.
Accepts(p, shown, steps) ==
  /\ shown.revision = p.revision /\ shown.requirements = p.requirements
  /\ WellFormed(steps, p.evidence)
  /\ MayBecome(p, steps)

\* Plan::investigation
InvestigationComplete(p) ==
  LET ids == {s \in DOMAIN p.steps : p.steps[s].kind = "Investigation"}
  IN ids # {} /\ Done(p.steps, ids)

\* PlanHandoff::new
HandoffReady(p) ==
  p.mode = "Plan" /\ Review(p) = "Current" /\ InvestigationComplete(p)

\* ProviderContext::completion_obligations, the part about the plan
NoObligations(p) ==
  /\ Review(p) = "Current"
  /\ p.mode = "Plan" => InvestigationComplete(p)
  /\ p.mode = "Implement" => Done(p.steps, DOMAIN p.steps)

-----------------------------------------------------------------------------
(* Questions and updates                                                   *)

Question(id, purpose, required) == [id |-> id, purpose |-> purpose, required |-> required]
InteractionState(p) == [planning |-> p, pending |-> {}, answered |-> {}]

\* The names of questions are arbitrary: the next one is the smallest.
Unused(state) ==
  LET ids == (1..MaxQuestions) \ (state.answered \cup {q.id : q \in state.pending})
  IN {q \in ids : \A r \in ids : q <= r}
Pending(state, purpose) == {q \in state.pending : q.purpose = purpose}

\* Questions::gate
Gate(state) == IF \E q \in state.pending : q.required THEN "Required" ELSE "Open"

\* Planning::with_answer
WithAnswer(p, q) ==
  LET heard == [p EXCEPT !.wishes = @ + 1]
  IN RecordEvidence(IF q.purpose = "Clarification" THEN RequirementsChanged(heard) ELSE p,
                    AnswerSource(q.id))

Ask(state, q) == [state EXCEPT !.pending = @ \cup {q}]
\* Questions::withdraw and Questions::answer
Settle(state, qs) ==
  [state EXCEPT !.pending = @ \ qs, !.answered = @ \cup {q.id : q \in qs}]

\* Events.  Event::Began tells the prompt of a turn.
PlanningEvent(p) == [kind |-> "Planning", planning |-> p]
AskedEvent(q) == [kind |-> "Asked", question |-> q]
WithdrawnEvent(purpose) == [kind |-> "Withdrawn", purpose |-> purpose]
AnsweredEvent(q) == [kind |-> "Answered", id |-> q.id]
BeganEvent == [kind |-> "Began"]

Heard(state) == [state EXCEPT !.planning.wishes = @ + 1]

\* Variant: an answer is replayed as text only.
ReplayAnswerText(s, q) == Settle(s, {q})
ReplayAnswer(s, q) == [Settle(s, {q}) EXCEPT !.planning = WithAnswer(s.planning, q)]

\* SessionSnapshot::transition for the events of the interaction
Transition(s, event) ==
  CASE event.kind = "Planning"  -> [s EXCEPT !.planning = event.planning]
    [] event.kind = "Asked"     -> Ask(s, event.question)
    [] event.kind = "Withdrawn" -> Settle(s, Pending(s, event.purpose))
    [] event.kind = "Answered"  ->
         ReplayAnswer(s, CHOOSE q \in s.pending : q.id = event.id)
    [] event.kind = "Began"     -> Heard(s)

\* InteractionUpdate: the state and the event that tells it
Update(state, event) == [state |-> state, event |-> event]
Planned(state, p) == Update([state EXCEPT !.planning = p], PlanningEvent(p))
Asked(state, q) == Update(Ask(state, q), AskedEvent(q))
Withdrawn(state, purpose) ==
  Update(Settle(state, Pending(state, purpose)), WithdrawnEvent(purpose))
Answered(state, q) ==
  Update([Settle(state, {q}) EXCEPT !.planning = WithAnswer(state.planning, q)],
         AnsweredEvent(q))
Began(state) == Update(Heard(state), BeganEvent)

\* InteractionPolicy::set
PolicyOf(state) ==
  [mode |-> state.planning.mode, gate |-> Gate(state), review |-> Review(state.planning)]

-----------------------------------------------------------------------------
(* Handlers                                                                *)

NoRequest == [revision |-> -1, requirements |-> -1, wishes |-> -1]
Shown(p) == [revision |-> p.revision, requirements |-> p.requirements, wishes |-> p.wishes]
Turn(state, shown) == [state |-> state, shown |-> shown]
IdleTurn == Turn("Idle", NoRequest)

\* Launching a request shows the model the plan (RuntimeSnapshot.planning).
Request(state) == Turn("Provider", Shown(state.planning))
\* A required question leaves the turn waiting instead.
RequestOrWait(state) ==
  IF Gate(state) = "Open" THEN Request(state) ELSE Turn("Waiting", NoRequest)

Ready == life = "Ready"

\* The first n updates are recorded; a handler makes at most three.
Replayed(s, updates, n) ==
  LET After(t, k) == IF k <= n THEN Transition(t, updates[k].event) ELSE t
  IN After(After(After(s, 1), 2), 3)
Recorded(updates, n) == [saved EXCEPT ![current] = Replayed(@, updates, n)]
StateAfter(updates, n) == IF n = 0 THEN memory ELSE updates[n].state

\* InteractionControl::refresh_interaction
Refreshed(state) == PolicyOf(state)

Apply(updates, n) ==
  /\ saved' = Recorded(updates, n)
  /\ memory' = StateAfter(updates, n)
  /\ policy' = IF n = 0 THEN policy ELSE Refreshed(StateAfter(updates, n))

\* The handler makes these updates and the turn goes on as `next'; or the
\* process dies after n of them, or the next one cannot be recorded.  After
\* that nothing goes on until a process is started.
Handle(updates, next) ==
  \/ Apply(updates, Len(updates)) /\ turn' = next /\ UNCHANGED <<current, life, faults>>
  \/ /\ faults < MaxFaults /\ faults' = faults + 1
     /\ \E n \in 0..Len(updates) :
          /\ Apply(updates, n)
          /\ life' = "Stopped"
     /\ turn' = IdleTurn
     /\ UNCHANGED current

\* Variant: the offer stays until it is answered.
KeepContinuation(state) == <<>>
\* InteractionControl::withdraw_questions
WithdrawContinuation(state) ==
  IF Pending(state, "PlanContinuation") = {} THEN <<>>
  ELSE <<Withdrawn(state, "PlanContinuation")>>
Last0(updates) == StateAfter(updates, Len(updates))

\* InteractionControl::reconcile_plan
Reconcile(state) ==
  IF HasPlan(state.planning) THEN <<Planned(state, RequirementsChanged(state.planning))>>
  ELSE <<>>

\* SessionTurn::begin with a prompt of the user, and the first request
Begin ==
  /\ Ready /\ turn.state \in {"Idle", "Next"}
  /\ memory.planning.wishes < MaxWishes
  /\ Gate(memory) = "Open"
  /\ LET first  == WithdrawContinuation(memory)
         second == first \o Reconcile(Last0(first))
         third  == Append(second, Began(Last0(second)))
     IN Handle(third, Request(Last0(third)))

\* The response asks for tools, or the tools are done.
CallTools == turn.state = "Provider" /\ turn' = [turn EXCEPT !.state = "Tools"]
ToolsDone == turn.state = "Tools" /\ turn' = RequestOrWait(memory)
\* The gate opened for a waiting turn, or a request is made again.
Continue == turn.state = "Waiting" /\ Gate(memory) = "Open" /\ turn' = Request(memory)

\* The turn fails, or the user interrupts or corrects it.
Stop ==
  /\ turn.state \notin {"Idle", "Next"}
  /\ turn' = IdleTurn

Progress ==
  /\ Ready
  /\ CallTools \/ ToolsDone \/ Continue \/ Stop
  /\ UNCHANGED <<saved, current, memory, policy, life, faults>>

\* Plans the model may write: every step with a definition, a state and at
\* most one source.
Step(definition, state, cites, knew) ==
  [kind |-> definition.kind, needs |-> definition.needs, text |-> definition.text,
   state |-> state, cites |-> cites, knew |-> knew]
WrittenSteps(knew) ==
  {Step(d, st, 0, 0) : d \in Definitions, st \in OpenStates}
    \cup {Step(d, "Completed", c, knew) : d \in Definitions, c \in memory.planning.evidence}
WrittenPlans(knew) ==
  UNION {[ids -> WrittenSteps(knew)] : ids \in SUBSET Steps}

\* A step that was completed before keeps what its completion knew.
Restated(old, steps) ==
  [s \in DOMAIN steps |->
     IF s \in DOMAIN old /\ old[s].state = "Completed" /\ steps[s].state = "Completed"
     THEN [steps[s] EXCEPT !.knew = old[s].knew] ELSE steps[s]]

\* Message::UpdatePlan
UpdatePlan ==
  /\ Ready /\ turn.state = "Tools"
  /\ memory.planning.revision < MaxRevision
  /\ \E steps \in WrittenPlans(turn.shown.wishes) :
       /\ Accepts(memory.planning, turn.shown, steps)
       /\ Handle(<<Planned(memory, [memory.planning EXCEPT !.revision = @ + 1,
                     !.covers = memory.planning.requirements,
                     !.steps = Restated(memory.planning.steps, steps)])>>, turn)

\* Message::AskQuestion
RequestQuestion ==
  /\ Ready /\ turn.state = "Tools"
  /\ \E required \in BOOLEAN : \E id \in Unused(memory) :
       Handle(<<Asked(memory, Question(id, "Clarification", required))>>, turn)

\* InteractionControl::record_plan_evidence for the result of another tool
RecordPlanEvidence ==
  /\ Ready /\ turn.state = "Tools"
  /\ \E k \in 1..MaxResults :
       /\ ToolSource(k) \notin memory.planning.evidence
       /\ Handle(<<Planned(memory, RecordEvidence(memory.planning, ToolSource(k)))>>, turn)

\* ActorState::offer_plan_continuation
OfferContinuation(state, id) ==
  IF state.planning.mode = "Plan" /\ state.pending = {} /\ HandoffReady(state.planning)
  THEN <<Asked(state, Question(id, "PlanContinuation", FALSE))>>
  ELSE <<>>

\* ProviderContext::review: an answer completes the turn when nothing is left
\* to do, otherwise the model is asked again.
Complete ==
  /\ Ready /\ turn.state = "Provider"
  /\ \/ /\ NoObligations(memory.planning)
        /\ Gate(memory) = "Open"
        /\ \/ \E id \in Unused(memory) : Handle(OfferContinuation(memory, id), IdleTurn)
           \/ Handle(<<>>, Turn("Next", NoRequest))
     \/ ~NoObligations(memory.planning) /\ Handle(<<>>, RequestOrWait(memory))

\* Command::Plan and Command::Implement
SetWorkMode ==
  /\ Ready /\ turn.state = "Idle"
  /\ \E mode \in {"Plan", "Implement"} :
       /\ mode # memory.planning.mode
       /\ LET first == <<Planned(memory, [memory.planning EXCEPT !.mode = mode])>>
          IN Handle(first \o WithdrawContinuation(Last0(first)), IdleTurn)

\* An answer that opens the gate of an idle session begins a turn.
Resumed(state) ==
  IF turn.state = "Idle" /\ Gate(memory) = "Required" /\ Gate(state) = "Open"
  THEN Turn("Waiting", NoRequest) ELSE turn

\* Command::Answer of a clarification
AnswerClarification ==
  /\ Ready
  /\ memory.planning.wishes < MaxWishes
  /\ \E q \in Pending(memory, "Clarification") :
       LET update == Answered(memory, q) IN Handle(<<update>>, Resumed(update.state))

\* ActorState::answer_plan.  The workflow that implements the plan runs before
\* the model is asked again, so it is shown nothing.
Approvals == IF turn.state = "Idle" THEN Pending(memory, "PlanContinuation") ELSE {}
KeepPlanning ==
  /\ Ready
  /\ \E q \in Approvals : Handle(<<Answered(memory, q)>>, IdleTurn)
ImplementHere ==
  /\ Ready /\ HandoffReady(memory.planning)
  /\ \E q \in Approvals :
       LET first  == <<Answered(memory, q)>>
           state  == Last0(first)
           second == Append(first, Planned(state, [state.planning EXCEPT !.mode = "Implement"]))
       IN Handle(second \o WithdrawContinuation(Last0(second)), Turn("Tools", NoRequest))

\* SessionActivation::from_plan
Handoff == InteractionState([memory.planning EXCEPT !.mode = "Implement"])
Fresh == InteractionState(NoPlanning("Implement"))

NewAgent ==
  /\ Ready /\ HandoffReady(memory.planning) /\ Len(saved) < MaxSessions
  /\ \E q \in Approvals :
       LET answered == Recorded(<<Answered(memory, q)>>, 1)
       IN \/ \* the new session works on the plan
             /\ saved' = Append(answered, Handoff)
             /\ current' = Len(saved) + 1
             /\ memory' = Handoff /\ policy' = Refreshed(Handoff)
             /\ turn' = Turn("Tools", NoRequest)
             /\ UNCHANGED <<life, faults>>
          \/ \* its first records fail: the question stays
             /\ faults < MaxFaults /\ faults' = faults + 1
             /\ \E s \in {Fresh, Handoff} : saved' = Append(saved, s)
             /\ life' \in {"Ready", "Stopped"}
             /\ UNCHANGED <<current, memory, policy, turn>>
          \/ \* the answer cannot be recorded, or the process dies after it
             /\ faults < MaxFaults /\ faults' = faults + 1
             /\ \E s \in {saved, answered} : saved' = Append(s, Handoff)
             /\ life' = "Stopped"
             /\ UNCHANGED <<current, memory, policy, turn>>

\* A process is started, on any of the sessions.  Choosing one with /resume
\* while a process works does the same and is left out.
Resume ==
  /\ ~Ready
  /\ \E i \in DOMAIN saved :
       /\ current' = i
       /\ memory' = saved[i] /\ policy' = Refreshed(saved[i])
  /\ life' = "Ready" /\ turn' = IdleTurn
  /\ UNCHANGED <<saved, faults>>

-----------------------------------------------------------------------------
(* Specification                                                           *)

Init ==
  /\ saved = <<InteractionState(NoPlanning("Implement"))>>
  /\ current = 1
  /\ memory = saved[1] /\ policy = PolicyOf(saved[1])
  /\ turn = IdleTurn /\ life = "Ready" /\ faults = 0

Next ==
  \/ Begin \/ Progress \/ Complete
  \/ UpdatePlan \/ RequestQuestion \/ RecordPlanEvidence
  \/ AnswerClarification \/ KeepPlanning \/ ImplementHere \/ NewAgent
  \/ SetWorkMode \/ Resume

Spec == Init /\ [][Next]_vars

-----------------------------------------------------------------------------
(* Properties                                                              *)

\* A completed step keeps the evidence it cites when the limit evicts other
\* sources; and while the plan is current it was completed by a request that
\* knew everything the user had asked for: answers and prompts that arrive
\* while a request runs, later updates, and crashes between the records of a
\* handler never let older work pass for the new one.
CompletionIsSupported ==
  \A i \in DOMAIN saved :
    LET p == saved[i].planning
    IN \A s \in DOMAIN p.steps : p.steps[s].state = "Completed" =>
         /\ p.steps[s].cites \in p.evidence
         /\ Review(p) = "Current" => p.steps[s].knew = p.wishes

\* A session that offers to implement its plan still has the finished,
\* reviewed investigation it offers, unless a crash split the change of mode
\* from the withdrawal of the offer.
OfferIsFresh ==
  \A i \in DOMAIN saved :
    Pending(saved[i], "PlanContinuation") # {} =>
      \/ HandoffReady(saved[i].planning)
      \/ faults > 0 /\ saved[i].planning.mode = "Implement"

\* While storage works, the actor, its saved session and the policy that tools
\* are authorized by agree whenever no handler runs.
CopiesAgree ==
  Ready => memory = saved[current] /\ policy = PolicyOf(memory)
=============================================================================
