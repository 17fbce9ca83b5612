-------------------------- MODULE PlanReviewProofs --------------------------
(***************************************************************************)
(* Proofs of the safety of PlanReview for every number of sessions, crashes*)
(* and updates.                                                            *)
(*                                                                         *)
(* A handler is a chain of updates, each recorded before it is taken over. *)
(* So every state that a crash may leave in storage is the state of one of *)
(* its updates, and what each of them keeps holds of every saved session.  *)
(* The rest is about the turn: what its request showed is either still true*)
(* or no longer accepted, and no turn works while an offer stands.         *)
(***************************************************************************)
EXTENDS PlanReview, SequenceTheorems, TLAPS

Modes    == {"Plan", "Implement"}
Purposes == {"Clarification", "PlanContinuation"}
StepRecords ==
  [kind : {"Investigation", "Implementation"}, needs : SUBSET Steps,
   text : {d.text : d \in Definitions},
   state : {"Pending", "InProgress", "Blocked", "Completed"}, cites : Nat, knew : Int]
Graphs == UNION {[ids -> StepRecords] : ids \in SUBSET Steps}
Plannings ==
  [mode : Modes, revision : Nat, covers : Nat, requirements : Nat, steps : Graphs,
   evidence : SUBSET Nat, wishes : Nat]
QuestionRecords == [id : Nat, purpose : Purposes, required : BOOLEAN]
States == [planning : Plannings, pending : SUBSET QuestionRecords, answered : SUBSET Nat]
Turns ==
  [state : {"Idle", "Next", "Provider", "Tools", "Waiting"},
   shown : [revision : Int, requirements : Int, wishes : Int]]

\* What the user has asked for is what a completed step of a current plan knew.
CompletionStands(p) ==
  \A s \in DOMAIN p.steps : p.steps[s].state = "Completed" =>
    /\ p.steps[s].cites \in p.evidence
    /\ Review(p) = "Current" => p.steps[s].knew = p.wishes

\* An offer is the only question, and what it offers is unchanged.
OfferStands(s) ==
  \A q \in Pending(s, "PlanContinuation") :
    /\ s.pending = {q}
    /\ Review(s.planning) = "Current" /\ InvestigationComplete(s.planning)

\* What holds of every state of the interaction, saved or in memory.
Sound(s) ==
  /\ s \in States
  /\ \A q, r \in s.pending : q.id = r.id => q = r
  /\ s.planning.covers <= s.planning.requirements
  /\ CompletionStands(s.planning)
  /\ OfferStands(s)

\* The offer of a session whose mode has changed
Overtaken(s) ==
  Pending(s, "PlanContinuation") # {} /\ s.planning.mode = "Implement"

\* What a request showed is older than the plan, or it is true.
Informed(p, shown) ==
  /\ shown.revision <= p.revision /\ shown.requirements <= p.requirements
  /\ shown.revision = p.revision /\ shown.requirements = p.requirements /\ HasPlan(p)
       => shown.wishes = p.wishes

SavedInv ==
  /\ saved \in Seq(States) /\ current \in DOMAIN saved
  /\ \A i \in DOMAIN saved : Sound(saved[i])
  /\ \A i \in DOMAIN saved : Overtaken(saved[i]) => faults > 0
  /\ faults \in Nat /\ turn \in Turns

\* The turn of a process that works
TurnInv ==
  /\ Informed(memory.planning, turn.shown)
  /\ turn.state # "Idle" => Pending(memory, "PlanContinuation") = {}

ReviewInv == SavedInv /\ CopiesAgree /\ (Ready => TurnInv)

-----------------------------------------------------------------------------
(* The updates of a handler                                                *)

Events ==
  {PlanningEvent(p) : p \in Plannings} \cup {AskedEvent(q) : q \in QuestionRecords}
    \cup {WithdrawnEvent(purpose) : purpose \in Purposes}
    \cup {AnsweredEvent(q) : q \in QuestionRecords} \cup {BeganEvent}
UpdateRecords == [state : States, event : Events]

\* An update tells its state, which is sound, to whoever replays it.
Follows(s, update) ==
  /\ update \in UpdateRecords
  /\ Transition(s, update.event) = update.state
  /\ Sound(update.state)

Before(s, updates, k) == IF k = 1 THEN s ELSE updates[k - 1].state
After(s, updates) == IF Len(updates) = 0 THEN s ELSE updates[Len(updates)].state

\* At most n updates, each made from the state of the one before it
Path(s, updates, n) ==
  /\ updates \in Seq(UpdateRecords) /\ Len(updates) <= n
  /\ \A k \in 1..Len(updates) : Follows(Before(s, updates, k), updates[k])

\* A handler that records nothing.
LEMMA PathOfNothing ==
  ASSUME NEW s, NEW n \in Nat
  PROVE  Path(s, <<>>, n) /\ After(s, <<>>) = s
  BY DEF Path, After

\* One more update continues a path.
LEMMA PathGoesOn ==
  ASSUME NEW s, NEW updates, NEW n \in Nat, Path(s, updates, n),
         NEW update, Follows(After(s, updates), update)
  PROVE  /\ Path(s, Append(updates, update), n + 1)
         /\ After(s, Append(updates, update)) = update.state
         /\ updates \o <<update>> = Append(updates, update)
<1>1. updates \in Seq(UpdateRecords) /\ update \in UpdateRecords /\ Len(updates) \in Nat
  BY DEF Path, Follows
<1> DEFINE longer == Append(updates, update)
<1>2. /\ longer \in Seq(UpdateRecords) /\ Len(longer) = Len(updates) + 1
      /\ \A k \in 1..Len(updates) : longer[k] = updates[k]
      /\ longer[Len(updates) + 1] = update
  BY <1>1
<1>3. \A k \in 1..Len(longer) : Follows(Before(s, longer, k), longer[k])
  <2> SUFFICES ASSUME NEW k \in 1..Len(longer) PROVE Follows(Before(s, longer, k), longer[k])
    OBVIOUS
  <2>1. CASE k = Len(longer)
    <3>1. Before(s, longer, k) = After(s, updates)
      BY <1>1, <1>2, <2>1 DEF Before, After
    <3> QED BY <1>2, <2>1, <3>1
  <2>2. CASE k # Len(longer)
    <3>1. k \in 1..Len(updates) /\ Before(s, longer, k) = Before(s, updates, k)
      BY <1>1, <1>2, <2>2 DEF Before
    <3> QED BY <1>2, <3>1 DEF Path
  <2> QED BY <2>1, <2>2
<1>4. updates \o <<update>> = longer
  BY <1>1
<1> QED BY <1>1, <1>2, <1>3, <1>4 DEF Path, After

\* What a crash leaves in storage is the state of an update.
LEMMA PathIsReplayed ==
  ASSUME NEW s, NEW updates, Path(s, updates, 3), NEW n \in Nat, n <= Len(updates)
  PROVE  Replayed(s, updates, n) = IF n = 0 THEN s ELSE updates[n].state
<1>1. Len(updates) \in Nat /\ Len(updates) <= 3
  BY DEF Path
<1>2. \A k \in 1..Len(updates) :
        Transition(Before(s, updates, k), updates[k].event) = updates[k].state
  BY DEF Path, Follows
<1>3. n \in {0, 1, 2, 3}
  BY <1>1
<1>4. CASE n = 0
  BY <1>4 DEF Replayed
<1>5. CASE n = 1
  BY <1>1, <1>2, <1>5 DEF Replayed, Before
<1>6. CASE n = 2
  BY <1>1, <1>2, <1>6 DEF Replayed, Before
<1>7. CASE n = 3
  BY <1>1, <1>2, <1>7 DEF Replayed, Before
<1> QED BY <1>3, <1>4, <1>5, <1>6, <1>7

-----------------------------------------------------------------------------
(* What each update keeps                                                  *)

SamePlan(p, r) ==
  /\ r.mode = p.mode /\ r.revision = p.revision /\ r.covers = p.covers
  /\ r.requirements = p.requirements /\ r.steps = p.steps /\ r.wishes = p.wishes

\* Recording evidence evicts nothing that a step cites.
LEMMA EvidenceIsKept ==
  ASSUME NEW p \in Plannings, NEW source \in Nat
  PROVE  /\ RecordEvidence(p, source) \in Plannings
         /\ SamePlan(p, RecordEvidence(p, source))
         /\ \A s \in DOMAIN p.steps :
              p.steps[s].cites \in p.evidence =>
                p.steps[s].cites \in RecordEvidence(p, source).evidence
<1> DEFINE all      == p.evidence \cup {source}
           retained == {p.steps[s].cites : s \in DOMAIN p.steps}
           free     == all \ retained
           room     == EvidenceLimit - Cardinality(all \cap retained)
           kept     == (all \cap retained)
                         \cup {s \in free : Cardinality({t \in free : t > s}) < room}
<1>1. RecordEvidence(p, source) = [p EXCEPT !.evidence = kept]
  BY DEF RecordEvidence
<1>2. kept \in SUBSET Nat
  BY DEF Plannings
<1>3. all \cap retained \subseteq kept
  OBVIOUS
<1> HIDE DEF kept
<1>4. \A s \in DOMAIN p.steps : p.steps[s].cites \in p.evidence => p.steps[s].cites \in kept
  BY <1>3
<1> QED BY <1>1, <1>2, <1>4 DEF Plannings, SamePlan

\* New requirements make a plan one that is to be reviewed.
LEMMA RequirementsAreNew ==
  ASSUME NEW p \in Plannings, p.covers <= p.requirements
  PROVE  LET r == RequirementsChanged(p)
         IN /\ r \in Plannings /\ r.steps = p.steps /\ r.covers = p.covers
            /\ r.mode = p.mode /\ r.revision = p.revision
            /\ r.evidence = p.evidence /\ r.wishes = p.wishes
            /\ r.covers <= r.requirements
            /\ p.requirements <= r.requirements
            /\ HasPlan(p) => p.requirements < r.requirements /\ Review(r) = "Required"
  BY DEF Plannings, RequirementsChanged, HasPlan, Review

\* A plan that is to be reviewed, or none, claims nothing.
LEMMA NothingIsClaimed ==
  ASSUME NEW p, ~HasPlan(p) \/ Review(p) = "Required",
         \A s \in DOMAIN p.steps : p.steps[s].state = "Completed" =>
           p.steps[s].cites \in p.evidence
  PROVE  CompletionStands(p)
  BY DEF CompletionStands, HasPlan

\* What an answer does to the plan: a clarification is a requirement, the
\* answer to an offer is none.
LEMMA AnswerIsHeard ==
  ASSUME NEW p \in Plannings, p.covers <= p.requirements, CompletionStands(p),
         NEW q \in QuestionRecords
  PROVE  LET r == WithAnswer(p, q)
         IN /\ r \in Plannings /\ r.covers <= r.requirements /\ CompletionStands(r)
            /\ r.steps = p.steps /\ r.mode = p.mode /\ r.revision = p.revision
            /\ p.requirements <= r.requirements
            /\ q.purpose # "Clarification" => SamePlan(p, r)
            /\ q.purpose = "Clarification" /\ HasPlan(p) => p.requirements < r.requirements
<1> DEFINE heard == [p EXCEPT !.wishes = @ + 1]
           asked == IF q.purpose = "Clarification" THEN RequirementsChanged(heard) ELSE p
           r     == WithAnswer(p, q)
<1>1. q.id \in Nat
  BY DEF QuestionRecords
<1>2. /\ heard \in Plannings /\ heard.covers = p.covers /\ heard.steps = p.steps
      /\ heard.requirements = p.requirements /\ heard.evidence = p.evidence
      /\ heard.mode = p.mode /\ heard.revision = p.revision
  BY DEF Plannings
<1>3. r = RecordEvidence(asked, q.id)
  BY DEF WithAnswer, AnswerSource
<1>4. CASE q.purpose = "Clarification"
  <2>1. asked = RequirementsChanged(heard)
    BY <1>4
  <2> HIDE DEF heard, asked, r
  <2>2. /\ asked \in Plannings /\ asked.steps = p.steps /\ asked.evidence = p.evidence
        /\ asked.covers <= asked.requirements /\ p.requirements <= asked.requirements
        /\ asked.mode = p.mode /\ asked.revision = p.revision
        /\ HasPlan(p) => p.requirements < asked.requirements /\ Review(asked) = "Required"
    BY <1>2, <2>1, RequirementsAreNew DEF HasPlan
  <2>3. /\ r \in Plannings /\ SamePlan(asked, r)
        /\ \A s \in DOMAIN asked.steps :
             asked.steps[s].cites \in asked.evidence => asked.steps[s].cites \in r.evidence
    BY <1>1, <1>3, <2>2, EvidenceIsKept
  <2>4. ~HasPlan(r) \/ Review(r) = "Required"
    BY <2>2, <2>3 DEF HasPlan, SamePlan, Review
  <2>5. CompletionStands(r)
    BY <2>2, <2>3, <2>4, NothingIsClaimed DEF CompletionStands, SamePlan
  <2> QED BY <1>4, <2>2, <2>3, <2>5 DEF SamePlan, r
<1>5. CASE q.purpose # "Clarification"
  <2>1. /\ r \in Plannings /\ SamePlan(p, r)
        /\ \A s \in DOMAIN p.steps :
             p.steps[s].cites \in p.evidence => p.steps[s].cites \in r.evidence
    BY <1>1, <1>3, <1>5, EvidenceIsKept
  <2> HIDE DEF r
  <2>2. CompletionStands(r)
    BY <2>1 DEF CompletionStands, SamePlan, Review
  <2>3. p.requirements \in Nat /\ p.requirements <= p.requirements
    BY DEF Plannings
  <2> QED BY <1>5, <2>1, <2>2, <2>3 DEF SamePlan, r
<1> QED BY <1>4, <1>5

\* The plan is replaced.
LEMMA PlanIsUpdated ==
  ASSUME NEW s, Sound(s), NEW p \in Plannings, p.covers <= p.requirements,
         CompletionStands(p),
         \/ Pending(s, "PlanContinuation") = {}
         \/ Review(p) = "Current" /\ InvestigationComplete(p)
  PROVE  /\ Follows(s, Planned(s, p))
         /\ Planned(s, p).state.planning = p
         /\ Planned(s, p).state.pending = s.pending
<1> DEFINE t == [s EXCEPT !.planning = p]
<1>1. /\ t \in States /\ t.planning = p /\ t.pending = s.pending
      /\ \A q \in QuestionRecords : q \in t.pending => q \in s.pending
  BY DEF Sound, States
<1>2. Planned(s, p).state = t /\ Planned(s, p).event = PlanningEvent(p)
  BY DEF Planned, Update
<1>3. Planned(s, p) \in UpdateRecords
  BY <1>1 DEF UpdateRecords, Events, Planned, Update
<1>4. Transition(s, PlanningEvent(p)) = t
  BY DEF Transition, PlanningEvent
<1>5. OfferStands(t)
  BY <1>1 DEF OfferStands, Sound, Pending
<1> HIDE DEF t
<1>6. Sound(t)
  BY <1>1, <1>5 DEF Sound
<1> QED BY <1>1, <1>2, <1>3, <1>4, <1>6 DEF Follows

\* A question is put to the user: the offer only when there is no other.
LEMMA QuestionIsAsked ==
  ASSUME NEW s, Sound(s), NEW q \in QuestionRecords,
         \A r \in s.pending : r.id # q.id,
         \/ q.purpose = "Clarification" /\ Pending(s, "PlanContinuation") = {}
         \/ s.pending = {} /\ Review(s.planning) = "Current" /\ InvestigationComplete(s.planning)
  PROVE  /\ Follows(s, Asked(s, q))
         /\ Asked(s, q).state.planning = s.planning
         /\ Asked(s, q).state.pending = s.pending \cup {q}
<1> DEFINE t == Ask(s, q)
<1>1. t \in States /\ t.planning = s.planning /\ t.pending = s.pending \cup {q}
  BY DEF Sound, States, Ask
<1>2. Asked(s, q).state = t /\ Asked(s, q).event = AskedEvent(q)
  BY DEF Asked, Update
<1>3. Asked(s, q) \in UpdateRecords
  BY <1>1 DEF UpdateRecords, Events, Asked, Update
<1>4. Transition(s, AskedEvent(q)) = t
  BY DEF Transition, AskedEvent
<1>5. OfferStands(t)
  BY <1>1 DEF OfferStands, Sound, Pending
<1> HIDE DEF t
<1>6. Sound(t)
  BY <1>1, <1>5 DEF Sound
<1> QED BY <1>1, <1>2, <1>3, <1>4, <1>6 DEF Follows

\* What settling questions leaves
LEMMA QuestionsAreSettled ==
  ASSUME NEW s, Sound(s), NEW qs \in SUBSET s.pending
  PROVE  LET t == Settle(s, qs)
         IN /\ t \in States /\ t.planning = s.planning /\ t.pending = s.pending \ qs
            /\ Sound(t)
<1> DEFINE t == Settle(s, qs)
<1>1. s \in States /\ qs \in SUBSET QuestionRecords
  BY DEF Sound, States
<1>2. {q.id : q \in qs} \in SUBSET Nat
  BY <1>1 DEF QuestionRecords
<1>3. t \in States /\ t.planning = s.planning /\ t.pending = s.pending \ qs
  BY <1>1, <1>2 DEF States, Settle
<1>4. OfferStands(t)
  BY <1>3 DEF OfferStands, Sound, Pending
<1> HIDE DEF t
<1>5. Sound(t)
  BY <1>3, <1>4 DEF Sound
<1> QED BY <1>3, <1>5 DEF t

\* The offer is withdrawn.
LEMMA OfferIsWithdrawn ==
  ASSUME NEW s, Sound(s)
  PROVE  LET u == Withdrawn(s, "PlanContinuation")
         IN /\ Follows(s, u) /\ u.state.planning = s.planning
            /\ Pending(u.state, "PlanContinuation") = {}
            /\ u.state.pending \subseteq s.pending
<1> DEFINE qs == Pending(s, "PlanContinuation")
           t  == Settle(s, qs)
           u  == Withdrawn(s, "PlanContinuation")
<1>1. qs \in SUBSET s.pending
  BY DEF Pending
<1>2. t \in States /\ t.planning = s.planning /\ t.pending = s.pending \ qs /\ Sound(t)
  BY <1>1, QuestionsAreSettled
<1>3. u.state = t /\ u.event = WithdrawnEvent("PlanContinuation")
  BY DEF Withdrawn, Update
<1>4. u \in UpdateRecords
  BY <1>2 DEF UpdateRecords, Events, Withdrawn, Update, Purposes
<1>5. Transition(s, WithdrawnEvent("PlanContinuation")) = t
  BY DEF Transition, WithdrawnEvent
<1>6. Pending(t, "PlanContinuation") = {}
  BY <1>2 DEF Pending
<1> QED BY <1>2, <1>3, <1>4, <1>5, <1>6 DEF Follows

\* A question is answered; no offer is left beside one.
LEMMA QuestionIsAnswered ==
  ASSUME NEW s, Sound(s), NEW q \in s.pending
  PROVE  LET u == Answered(s, q)
         IN /\ Follows(s, u) /\ u.state.planning = WithAnswer(s.planning, q)
            /\ u.state.pending = s.pending \ {q}
            /\ Pending(u.state, "PlanContinuation") = {}
<1> DEFINE p == s.planning
           r == WithAnswer(p, q)
           t == [Settle(s, {q}) EXCEPT !.planning = r]
           u == Answered(s, q)
<1>1. s \in States /\ p \in Plannings /\ q \in QuestionRecords /\ q.id \in Nat
  BY DEF Sound, States, QuestionRecords
<1>2. /\ Settle(s, {q}) \in States /\ Settle(s, {q}).pending = s.pending \ {q}
      /\ Sound(Settle(s, {q}))
  BY QuestionsAreSettled
<1>3. Pending(Settle(s, {q}), "PlanContinuation") = {}
  <2>1. CASE Pending(s, "PlanContinuation") = {}
    BY <1>2, <2>1 DEF Pending
  <2>2. CASE Pending(s, "PlanContinuation") # {}
    BY <1>2, <2>2 DEF Sound, OfferStands, Pending
  <2> QED BY <2>1, <2>2
<1>4. r \in Plannings /\ r.covers <= r.requirements /\ CompletionStands(r)
  BY <1>1, AnswerIsHeard DEF Sound
<1>5. /\ t \in States /\ t.planning = r /\ t.pending = s.pending \ {q}
      /\ Pending(t, "PlanContinuation") = {}
  BY <1>2, <1>3, <1>4 DEF States, Pending
<1>6. Sound(t)
  BY <1>2, <1>4, <1>5 DEF Sound, OfferStands
<1>7. u.state = t /\ u.event = AnsweredEvent(q)
  BY DEF Answered, Update
<1>8. u \in UpdateRecords
  BY <1>1, <1>5 DEF UpdateRecords, Events, Answered, Update
<1>9. Transition(s, AnsweredEvent(q)) = t
  <2>1. (CHOOSE a \in s.pending : a.id = q.id) = q
    BY DEF Sound
  <2>2. Transition(s, AnsweredEvent(q))
          = ReplayAnswer(s, CHOOSE a \in s.pending : a.id = q.id)
    BY DEF Transition, AnsweredEvent
  <2> QED BY <2>1, <2>2 DEF ReplayAnswer, Settle
<1> QED BY <1>5, <1>6, <1>7, <1>8, <1>9 DEF Follows

\* A prompt begins a turn, after it made the plan one to be reviewed.
LEMMA PromptIsHeard ==
  ASSUME NEW s, Sound(s), ~HasPlan(s.planning) \/ Review(s.planning) = "Required"
  PROVE  /\ Follows(s, Began(s))
         /\ Began(s).state.pending = s.pending
         /\ Began(s).state.planning.mode = s.planning.mode
<1> DEFINE p == [s.planning EXCEPT !.wishes = @ + 1]
           t == Heard(s)
<1>1. s \in States /\ s.planning \in Plannings
  BY DEF Sound, States
<1>2. /\ p \in Plannings /\ p.covers = s.planning.covers /\ p.steps = s.planning.steps
      /\ p.requirements = s.planning.requirements /\ p.evidence = s.planning.evidence
      /\ p.mode = s.planning.mode
  BY <1>1 DEF Plannings
<1>3. t = [s EXCEPT !.planning = p]
  BY <1>1 DEF Heard, States
<1>4. t \in States /\ t.planning = p /\ t.pending = s.pending
  BY <1>1, <1>2, <1>3 DEF States
<1>5. Review(p) = Review(s.planning) /\ (HasPlan(p) <=> HasPlan(s.planning))
  BY <1>2 DEF Review, HasPlan
<1>6. CompletionStands(p)
  BY <1>2, <1>5, NothingIsClaimed DEF Sound, CompletionStands
<1>7. OfferStands(t)
  BY <1>2, <1>4, <1>5 DEF OfferStands, Sound, Pending, InvestigationComplete
<1>8. Sound(t)
  BY <1>2, <1>4, <1>6, <1>7 DEF Sound
<1>9. Began(s).state = t /\ Began(s).event = BeganEvent /\ Began(s) \in UpdateRecords
  BY <1>4 DEF Began, Update, UpdateRecords, Events
<1>10. Transition(s, BeganEvent) = t
  BY DEF Transition, BeganEvent
<1> QED BY <1>2, <1>4, <1>8, <1>9, <1>10 DEF Follows

-----------------------------------------------------------------------------
(* What a handler keeps                                                    *)

\* The session that a process works on is replaced by a sound one.
LEMMA SessionIsReplaced ==
  ASSUME SavedInv, NEW t, Sound(t), Overtaken(t) => faults' > 0,
         saved' = [saved EXCEPT ![current] = t],
         faults' \in Nat, faults <= faults', current' = current, turn' \in Turns
  PROVE  SavedInv' /\ saved'[current'] = t
<1>1. saved \in Seq(States) /\ current \in DOMAIN saved /\ t \in States /\ faults \in Nat
  BY DEF SavedInv, Sound
<1>2. /\ saved' \in Seq(States) /\ DOMAIN saved' = DOMAIN saved /\ saved'[current] = t
      /\ \A i \in DOMAIN saved : i # current => saved'[i] = saved[i]
  BY <1>1
<1>3. \A i \in DOMAIN saved' : Sound(saved'[i])
  BY <1>1, <1>2 DEF SavedInv
<1>4. \A i \in DOMAIN saved' : Overtaken(saved'[i]) => faults' > 0
  BY <1>1, <1>2 DEF SavedInv
<1> QED BY <1>1, <1>2, <1>3, <1>4 DEF SavedInv

LEMMA HandlerKeeps ==
  ASSUME ReviewInv, Ready, NEW updates, NEW next, next \in Turns,
         Path(memory, updates, 3),
         Overtaken(After(memory, updates)) => faults > 0,
         Informed(After(memory, updates).planning, next.shown),
         next.state # "Idle" => Pending(After(memory, updates), "PlanContinuation") = {},
         Handle(updates, next)
  PROVE  ReviewInv'
<1>1. /\ memory = saved[current] /\ policy = PolicyOf(memory) /\ SavedInv
      /\ Sound(memory) /\ current \in DOMAIN saved /\ faults \in Nat /\ Len(updates) \in Nat
  BY DEF ReviewInv, SavedInv, CopiesAgree, Path
<1>2. ASSUME NEW n \in Nat, n <= Len(updates)
      PROVE  /\ Sound(StateAfter(updates, n))
             /\ Recorded(updates, n) = [saved EXCEPT ![current] = StateAfter(updates, n)]
  <2>1. Sound(StateAfter(updates, n))
    BY <1>1, <1>2 DEF StateAfter, Path, Follows
  <2>2. Replayed(saved[current], updates, n) = StateAfter(updates, n)
    BY <1>1, <1>2, PathIsReplayed DEF StateAfter
  <2> QED BY <2>1, <2>2 DEF Recorded
<1>3. ASSUME NEW n \in Nat, n <= Len(updates), Apply(updates, n)
      PROVE  /\ memory' = StateAfter(updates, n) /\ policy' = PolicyOf(memory')
             /\ saved' = [saved EXCEPT ![current] = memory'] /\ Sound(memory')
  BY <1>1, <1>2, <1>3 DEF Apply, Refreshed, StateAfter
<1>4. CASE Apply(updates, Len(updates)) /\ turn' = next /\ UNCHANGED <<current, life, faults>>
  <2>1. /\ memory' = After(memory, updates) /\ policy' = PolicyOf(memory') /\ Sound(memory')
        /\ saved' = [saved EXCEPT ![current] = memory']
    BY <1>1, <1>3, <1>4 DEF StateAfter, After
  <2>2. /\ faults' \in Nat /\ faults <= faults' /\ turn' \in Turns /\ current' = current
        /\ Overtaken(memory') => faults' > 0
    BY <1>1, <1>4, <2>1
  <2>3. SavedInv' /\ saved'[current'] = memory'
    BY <1>1, <2>1, <2>2, SessionIsReplaced
  <2> QED BY <1>4, <2>1, <2>3 DEF ReviewInv, CopiesAgree, TurnInv
<1>5. CASE /\ faults' = faults + 1
           /\ \E n \in 0..Len(updates) : Apply(updates, n) /\ life' = "Stopped"
           /\ turn' = IdleTurn /\ UNCHANGED current
  <2>1. PICK n \in 0..Len(updates) : Apply(updates, n) /\ life' = "Stopped"
    BY <1>5
  <2>2. n \in Nat /\ n <= Len(updates)
    BY <1>1, <2>1
  <2>3. Sound(memory') /\ saved' = [saved EXCEPT ![current] = memory']
    BY <1>3, <2>1, <2>2
  <2>4. IdleTurn \in Turns /\ faults' \in Nat /\ faults' > 0 /\ faults <= faults'
    BY <1>1, <1>5 DEF IdleTurn, Turn, NoRequest, Turns
  <2>5. SavedInv'
    BY <1>1, <1>5, <2>3, <2>4, SessionIsReplaced
  <2> QED BY <2>1, <2>5 DEF ReviewInv, CopiesAgree, Ready
<1> QED BY <1>4, <1>5 DEF Handle

-----------------------------------------------------------------------------
(* What each action keeps                                                  *)

\* The facts about the session at work that the proofs below use
LEMMA AtWork ==
  ASSUME ReviewInv, Ready
  PROVE  /\ Sound(memory) /\ memory.planning \in Plannings /\ turn \in Turns
         /\ Overtaken(memory) => faults > 0
         /\ Informed(memory.planning, turn.shown)
         /\ turn.state # "Idle" => Pending(memory, "PlanContinuation") = {}
  BY DEF ReviewInv, SavedInv, CopiesAgree, TurnInv, Sound, States

\* A request shows what is true; without a request nothing is shown.
LEMMA RequestsAreInformed ==
  ASSUME NEW s, s.planning \in Plannings, NEW state \in {"Idle", "Next", "Waiting", "Tools"}
  PROVE  /\ Request(s) \in Turns /\ Request(s).state = "Provider"
         /\ Informed(s.planning, Request(s).shown)
         /\ Turn(state, NoRequest) \in Turns /\ Turn(state, NoRequest).state = state
         /\ Informed(s.planning, Turn(state, NoRequest).shown)
         /\ RequestOrWait(s) \in Turns /\ RequestOrWait(s).state # "Idle"
         /\ Informed(s.planning, RequestOrWait(s).shown)
  BY DEF Request, Shown, Turn, NoRequest, Turns, Informed, Plannings, RequestOrWait

\* Withdrawing the offer, if there is one, as part of a handler.
LEMMA WithdrawalGoesOn ==
  ASSUME NEW s, NEW updates, NEW n \in Nat, Path(s, updates, n), Sound(After(s, updates))
  PROVE  LET longer == updates \o WithdrawContinuation(After(s, updates))
         IN /\ Path(s, longer, n + 1) /\ Sound(After(s, longer))
            /\ After(s, longer).planning = After(s, updates).planning
            /\ Pending(After(s, longer), "PlanContinuation") = {}
<1> DEFINE t      == After(s, updates)
           longer == updates \o WithdrawContinuation(t)
<1>1. updates \in Seq(UpdateRecords) /\ Len(updates) \in Nat
  BY DEF Path
<1>2. CASE Pending(t, "PlanContinuation") = {}
  <2>1. longer = updates
    BY <1>1, <1>2 DEF WithdrawContinuation
  <2>2. Path(s, longer, n + 1)
    BY <1>1, <2>1 DEF Path
  <2> QED BY <1>2, <2>1, <2>2
<1>3. CASE Pending(t, "PlanContinuation") # {}
  <2> DEFINE u == Withdrawn(t, "PlanContinuation")
  <2>1. longer = updates \o <<u>>
    BY <1>3 DEF WithdrawContinuation
  <2>2. /\ Follows(t, u) /\ u.state.planning = t.planning
        /\ Pending(u.state, "PlanContinuation") = {}
    BY OfferIsWithdrawn
  <2> HIDE DEF u
  <2> DEFINE one == Append(updates, u)
  <2>3. Path(s, one, n + 1) /\ After(s, one) = u.state /\ updates \o <<u>> = one
    BY <2>2, PathGoesOn
  <2> HIDE DEF one
  <2>4. longer = one
    BY <2>1, <2>3
  <2> QED BY <2>2, <2>3, <2>4 DEF Follows
<1> QED BY <1>2, <1>3

\* A handler of one update
LEMMA OneUpdate ==
  ASSUME NEW s, NEW u, Follows(s, u)
  PROVE  Path(s, <<u>>, 1) /\ Path(s, <<u>>, 3) /\ After(s, <<u>>) = u.state
<1>1. Path(s, <<>>, 0) /\ After(s, <<>>) = s
  BY PathOfNothing
<1>2. /\ Path(s, Append(<<>>, u), 0 + 1)
      /\ After(s, Append(<<>>, u)) = u.state
  BY <1>1, PathGoesOn
<1>3. Append(<<>>, u) = <<u>>
  OBVIOUS
<1> QED BY <1>2, <1>3 DEF Path

\* Begin: the offer is withdrawn, the plan is to be reviewed, and the prompt
\* is heard.
LEMMA BeginKeeps == ReviewInv /\ Begin => ReviewInv'
<1> SUFFICES ASSUME ReviewInv, Begin PROVE ReviewInv'
  OBVIOUS
<1> DEFINE first  == WithdrawContinuation(memory)
           s1     == Last0(first)
           second == first \o Reconcile(s1)
           s2     == Last0(second)
           third  == Append(second, Began(s2))
<1>1. Ready /\ Handle(third, Request(Last0(third)))
  BY DEF Begin
<1>2. \A us : Last0(us) = After(memory, us)
  BY DEF Last0, StateAfter, After
<1>3. Sound(memory)
  BY <1>1, AtWork
<1>4. Path(memory, first, 1) /\ Sound(s1) /\ Pending(s1, "PlanContinuation") = {}
  <2>1. Path(memory, <<>>, 0) /\ After(memory, <<>>) = memory
    BY PathOfNothing
  <2>2. <<>> \o first = first
    BY DEF WithdrawContinuation
  <2>3. /\ Path(memory, <<>> \o first, 0 + 1) /\ Sound(After(memory, <<>> \o first))
        /\ Pending(After(memory, <<>> \o first), "PlanContinuation") = {}
    BY <1>3, <2>1, WithdrawalGoesOn
  <2> QED BY <1>2, <2>2, <2>3
<1> HIDE DEF first
<1>5. /\ Path(memory, second, 2) /\ Sound(s2) /\ Pending(s2, "PlanContinuation") = {}
      /\ ~HasPlan(s2.planning) \/ Review(s2.planning) = "Required"
  <2>1. s1 = After(memory, first) /\ first \in Seq(UpdateRecords) /\ Len(first) \in Nat
    BY <1>2, <1>4 DEF Path
  <2>2. CASE HasPlan(s1.planning)
    <3> DEFINE r == RequirementsChanged(s1.planning)
               u == Planned(s1, r)
    <3>1. /\ r \in Plannings /\ r.covers <= r.requirements /\ Review(r) = "Required"
          /\ r.steps = s1.planning.steps /\ r.evidence = s1.planning.evidence
      BY <1>4, <2>2, RequirementsAreNew DEF Sound, States
    <3> HIDE DEF r
    <3>2. CompletionStands(r)
      BY <1>4, <3>1, NothingIsClaimed DEF Sound, CompletionStands
    <3>3. Follows(s1, u) /\ u.state.planning = r /\ u.state.pending = s1.pending
      BY <1>4, <3>1, <3>2, PlanIsUpdated
    <3> HIDE DEF u
    <3>4. /\ Path(memory, Append(first, u), 1 + 1) /\ After(memory, Append(first, u)) = u.state
          /\ first \o <<u>> = Append(first, u)
      BY <1>4, <2>1, <3>3, PathGoesOn
    <3>5. second = Append(first, u)
      BY <2>2, <3>4 DEF Reconcile, r, u
    <3>6. s2 = u.state
      BY <1>2, <3>4, <3>5
    <3> HIDE DEF s1, s2, second
    <3> QED BY <1>4, <3>1, <3>3, <3>4, <3>5, <3>6 DEF Follows, Pending
  <2>3. CASE ~HasPlan(s1.planning)
    <3>1. second = first
      BY <2>1, <2>3 DEF Reconcile
    <3>2. Path(memory, second, 2)
      BY <1>4, <2>1, <3>1 DEF Path
    <3> QED BY <1>4, <2>3, <3>1, <3>2
  <2> QED BY <2>2, <2>3
<1> HIDE DEF second
<1>6. s2 = After(memory, second)
  BY <1>2
<1> HIDE DEF s2
<1>7. /\ Path(memory, third, 3) /\ Sound(Last0(third))
      /\ Pending(Last0(third), "PlanContinuation") = {}
  <2> DEFINE u == Began(s2)
  <2>1. Follows(s2, u) /\ u.state.pending = s2.pending
    BY <1>5, PromptIsHeard
  <2> HIDE DEF u
  <2>2. Path(memory, Append(second, u), 2 + 1) /\ After(memory, Append(second, u)) = u.state
    BY <1>5, <1>6, <2>1, PathGoesOn
  <2> QED BY <1>2, <1>5, <2>1, <2>2 DEF Follows, Pending, u
<1> HIDE DEF third
<1>8. After(memory, third).planning \in Plannings /\ ~Overtaken(After(memory, third))
  BY <1>2, <1>7 DEF Sound, States, Overtaken
<1>9. /\ Request(Last0(third)) \in Turns
      /\ Informed(After(memory, third).planning, Request(Last0(third)).shown)
  BY <1>2, <1>8, RequestsAreInformed
<1> QED BY <1>1, <1>2, <1>7, <1>8, <1>9, HandlerKeeps

\* Progress: the turn goes from its request to its tools and back.
LEMMA ProgressKeeps == ReviewInv /\ Progress => ReviewInv'
<1> SUFFICES ASSUME ReviewInv, Progress PROVE ReviewInv'
  OBVIOUS
<1>1. Ready /\ UNCHANGED <<saved, current, memory, policy, life, faults>>
  BY DEF Progress
<1>2. /\ Sound(memory) /\ memory.planning \in Plannings /\ turn \in Turns
      /\ Informed(memory.planning, turn.shown)
      /\ turn.state # "Idle" => Pending(memory, "PlanContinuation") = {}
  BY <1>1, AtWork
<1>3. /\ turn' \in Turns /\ Informed(memory.planning, turn'.shown)
      /\ turn'.state # "Idle" => Pending(memory, "PlanContinuation") = {}
  <2>1. CASE CallTools
    BY <1>2, <2>1 DEF CallTools, Turns
  <2>2. CASE ToolsDone
    BY <1>2, <2>2, RequestsAreInformed DEF ToolsDone
  <2>3. CASE Continue
    BY <1>2, <2>3, RequestsAreInformed DEF Continue
  <2>4. CASE Stop
    BY <1>2, <2>4, RequestsAreInformed DEF Stop, IdleTurn
  <2> QED BY <2>1, <2>2, <2>3, <2>4 DEF Progress
<1> QED BY <1>1, <1>3
        DEF ReviewInv, SavedInv, CopiesAgree, TurnInv, Ready

\* Complete: an offer is made by a turn that ends, when nothing else is asked.
LEMMA CompleteKeeps == ReviewInv /\ Complete => ReviewInv'
<1> SUFFICES ASSUME ReviewInv, Complete PROVE ReviewInv'
  OBVIOUS
<1>1. /\ Ready /\ turn.state = "Provider" /\ Sound(memory) /\ memory.planning \in Plannings
      /\ Pending(memory, "PlanContinuation") = {} /\ ~Overtaken(memory)
  BY AtWork DEF Complete, Overtaken
<1>2. Path(memory, <<>>, 3) /\ After(memory, <<>>) = memory
  BY PathOfNothing
<1>3. ASSUME NEW id \in Unused(memory), Handle(OfferContinuation(memory, id), IdleTurn)
      PROVE  ReviewInv'
  <2> DEFINE q  == Question(id, "PlanContinuation", FALSE)
             us == OfferContinuation(memory, id)
  <2>1. q \in QuestionRecords /\ q.purpose = "PlanContinuation"
    BY <1>3, PlanAssumption DEF Unused, Question, QuestionRecords, Purposes
  <2>2. CASE us = <<>>
    BY <1>1, <1>2, <1>3, <2>2, RequestsAreInformed, HandlerKeeps DEF IdleTurn
  <2>3. CASE us # <<>>
    <3> DEFINE u == Asked(memory, q)
    <3>1. /\ us = <<u>> /\ memory.pending = {} /\ memory.planning.mode = "Plan"
          /\ Review(memory.planning) = "Current" /\ InvestigationComplete(memory.planning)
      BY <2>3 DEF OfferContinuation, HandoffReady
    <3>2. Follows(memory, u) /\ u.state.planning = memory.planning
      BY <1>1, <2>1, <3>1, QuestionIsAsked
    <3> HIDE DEF u
    <3>3. Path(memory, us, 3) /\ After(memory, us) = u.state
      BY <3>1, <3>2, OneUpdate
    <3>4. ~Overtaken(u.state)
      BY <3>1, <3>2 DEF Overtaken
    <3> QED
      BY <1>1, <1>3, <3>2, <3>3, <3>4, RequestsAreInformed, HandlerKeeps DEF IdleTurn
  <2> QED BY <2>2, <2>3
<1>4. CASE Handle(<<>>, Turn("Next", NoRequest))
  BY <1>1, <1>2, <1>4, RequestsAreInformed, HandlerKeeps
<1>5. CASE Handle(<<>>, RequestOrWait(memory))
  BY <1>1, <1>2, <1>5, RequestsAreInformed, HandlerKeeps
<1> QED BY <1>3, <1>4, <1>5 DEF Complete

\* The plan that an accepted update leaves
LEMMA PlanIsAccepted ==
  ASSUME NEW p \in Plannings, NEW steps \in Graphs
  PROVE  LET r == [p EXCEPT !.revision = @ + 1, !.covers = p.requirements, !.steps = steps]
         IN /\ r \in Plannings /\ r.steps = steps /\ r.covers = r.requirements
            /\ r.covers <= r.requirements /\ r.requirements = p.requirements
            /\ r.revision = p.revision + 1 /\ r.evidence = p.evidence /\ r.wishes = p.wishes
<1> DEFINE next == p.revision + 1
           now  == p.requirements
           r    == [p EXCEPT !.revision = next, !.covers = now, !.steps = steps]
<1>1. next \in Nat /\ now \in Nat /\ now <= now
  BY DEF Plannings
<1>2. /\ r.steps = steps /\ r.covers = now /\ r.requirements = now /\ r.revision = next
      /\ r.evidence = p.evidence /\ r.wishes = p.wishes
  BY DEF Plannings
<1> HIDE DEF next, now
<1>3. r \in Plannings
  BY <1>1 DEF Plannings
<1> QED BY <1>1, <1>2, <1>3 DEF next, now

\* UpdatePlan: an update is accepted only when what its request showed is
\* still true, so a step it completes knew all that the user asked for; and a
\* step that stays completed did so under a review that is current.
LEMMA UpdatePlanKeeps == ReviewInv /\ UpdatePlan => ReviewInv'
<1> SUFFICES ASSUME ReviewInv, UpdatePlan PROVE ReviewInv'
  OBVIOUS
<1> DEFINE p == memory.planning
<1>1. /\ Ready /\ turn.state = "Tools" /\ Sound(memory) /\ p \in Plannings /\ turn \in Turns
      /\ Pending(memory, "PlanContinuation") = {} /\ Informed(p, turn.shown)
  BY AtWork DEF UpdatePlan
<1>2. PICK steps \in WrittenPlans(turn.shown.wishes) :
        /\ Accepts(p, turn.shown, steps)
        /\ Handle(<<Planned(memory, [p EXCEPT !.revision = @ + 1,
                      !.covers = p.requirements, !.steps = Restated(p.steps, steps)])>>, turn)
  BY DEF UpdatePlan
<1> DEFINE stated == Restated(p.steps, steps)
           r == [p EXCEPT !.revision = @ + 1, !.covers = p.requirements, !.steps = stated]
           u == Planned(memory, r)
<1>3. \A step \in WrittenSteps(turn.shown.wishes) :
        /\ step \in StepRecords
        /\ step.state = "Completed" =>
             step.cites \in p.evidence /\ step.knew = turn.shown.wishes
  BY <1>1, PlanAssumption DEF WrittenSteps, StepRecords, Step, Turns, Plannings
<1>4. PICK ids \in SUBSET Steps : steps \in [ids -> WrittenSteps(turn.shown.wishes)]
  BY <1>2 DEF WrittenPlans
<1>5. /\ steps \in [ids -> StepRecords]
      /\ \A s \in DOMAIN steps : steps[s].state = "Completed" =>
           steps[s].cites \in p.evidence /\ steps[s].knew = turn.shown.wishes
  BY <1>3, <1>4
<1>5a. /\ stated \in [ids -> StepRecords]
      /\ \A s \in DOMAIN stated :
           /\ stated[s].state = steps[s].state /\ stated[s].cites = steps[s].cites
           /\ \/ stated[s].knew = steps[s].knew
              \/ /\ s \in DOMAIN p.steps /\ p.steps[s].state = "Completed"
                 /\ stated[s].knew = p.steps[s].knew
  <2>1. DOMAIN stated = ids /\ DOMAIN steps = ids
    BY <1>5 DEF Restated
  <2>2. ASSUME NEW s \in ids
        PROVE  /\ stated[s] \in StepRecords
               /\ stated[s].state = steps[s].state /\ stated[s].cites = steps[s].cites
               /\ \/ stated[s].knew = steps[s].knew
                  \/ /\ s \in DOMAIN p.steps /\ p.steps[s].state = "Completed"
                     /\ stated[s].knew = p.steps[s].knew
    <3>1. steps[s] \in StepRecords
      BY <1>5
    <3>2. s \in DOMAIN p.steps => p.steps[s].knew \in Int
      BY <1>1 DEF Plannings, Graphs, StepRecords
    <3>3. CASE s \in DOMAIN p.steps /\ p.steps[s].state = "Completed" /\ steps[s].state = "Completed"
      <4>1. stated[s] = [steps[s] EXCEPT !.knew = p.steps[s].knew]
        BY <2>1, <3>3 DEF Restated
      <4> QED BY <3>1, <3>2, <3>3, <4>1 DEF StepRecords
    <3>4. CASE ~(s \in DOMAIN p.steps /\ p.steps[s].state = "Completed" /\ steps[s].state = "Completed")
      <4>1. stated[s] = steps[s]
        BY <2>1, <3>4 DEF Restated
      <4> QED BY <3>1, <4>1
    <3> QED BY <3>3, <3>4
  <2>3. stated = [s \in ids |-> stated[s]]
    BY <2>1 DEF Restated
  <2> HIDE DEF stated
  <2> QED BY <2>1, <2>2, <2>3
<1> HIDE DEF stated
<1>6. /\ r \in Plannings /\ r.steps = stated /\ r.covers = r.requirements
      /\ r.covers <= r.requirements /\ r.requirements = p.requirements
      /\ r.revision = p.revision + 1 /\ r.evidence = p.evidence /\ r.wishes = p.wishes
  <2>1. stated \in Graphs
    BY <1>4, <1>5a DEF Graphs
  <2> QED BY <1>1, <2>1, PlanIsAccepted
<1>7. ASSUME NEW s \in DOMAIN stated, stated[s].state = "Completed"
      PROVE  stated[s].cites \in p.evidence /\ stated[s].knew = p.wishes
  <2>1. s \in DOMAIN steps /\ steps[s].state = "Completed"
    BY <1>5, <1>7, <1>5a
  <2>2. s \in DOMAIN p.steps /\ Review(p) = "Current"
    BY <1>2, <2>1 DEF Accepts, MayBecome, StepMayBecome
  <2>3. /\ HasPlan(p) /\ turn.shown.revision = p.revision
        /\ turn.shown.requirements = p.requirements
    BY <1>2, <2>2 DEF HasPlan, Accepts
  <2>4. turn.shown.wishes = p.wishes
    BY <1>1, <2>3 DEF Informed
  <2>5. p.steps[s].state = "Completed" => p.steps[s].knew = p.wishes
    BY <1>1, <2>2 DEF Sound, CompletionStands
  <2> QED BY <1>5, <1>7, <1>5a, <2>1, <2>4, <2>5
<1> HIDE DEF r
<1>8. CompletionStands(r)
  BY <1>6, <1>7 DEF CompletionStands
<1> HIDE DEF p
<1>9. Follows(memory, u) /\ u.state.planning = r /\ u.state.pending = memory.pending
  BY <1>1, <1>6, <1>8, PlanIsUpdated DEF p
<1>10. Handle(<<u>>, turn)
  BY <1>2 DEF p, r, stated
<1> HIDE DEF u
<1>11. Path(memory, <<u>>, 3) /\ After(memory, <<u>>) = u.state
  BY <1>9, OneUpdate
<1>12. Pending(u.state, "PlanContinuation") = {} /\ ~Overtaken(u.state)
  BY <1>1, <1>9 DEF Pending, Overtaken
<1>13. Informed(r, turn.shown)
  BY <1>1, <1>6 DEF Informed, Turns, Plannings
<1> QED BY <1>1, <1>9, <1>10, <1>11, <1>12, <1>13, HandlerKeeps

\* RequestQuestion: a turn at work has no offer beside its question.
LEMMA RequestQuestionKeeps == ReviewInv /\ RequestQuestion => ReviewInv'
<1> SUFFICES ASSUME ReviewInv, RequestQuestion PROVE ReviewInv'
  OBVIOUS
<1>1. /\ Ready /\ turn.state = "Tools" /\ Sound(memory) /\ turn \in Turns
      /\ Pending(memory, "PlanContinuation") = {} /\ Informed(memory.planning, turn.shown)
  BY AtWork DEF RequestQuestion
<1>2. PICK required \in BOOLEAN, id \in Unused(memory) :
        Handle(<<Asked(memory, Question(id, "Clarification", required))>>, turn)
  BY DEF RequestQuestion
<1> DEFINE q == Question(id, "Clarification", required)
           u == Asked(memory, q)
<1>3. /\ q \in QuestionRecords /\ q.purpose = "Clarification"
      /\ \A r \in memory.pending : r.id # q.id
  BY <1>2, PlanAssumption DEF Unused, Question, QuestionRecords, Purposes
<1>4. /\ Follows(memory, u) /\ u.state.planning = memory.planning
      /\ u.state.pending = memory.pending \cup {q}
  BY <1>1, <1>3, QuestionIsAsked
<1>5. Pending(u.state, "PlanContinuation") = {} /\ ~Overtaken(u.state)
  BY <1>1, <1>3, <1>4 DEF Pending, Overtaken
<1> HIDE DEF u
<1>6. Path(memory, <<u>>, 3) /\ After(memory, <<u>>) = u.state
  BY <1>4, OneUpdate
<1> QED BY <1>1, <1>2, <1>4, <1>5, <1>6, HandlerKeeps DEF u

\* RecordPlanEvidence: no step loses what it cites.
LEMMA RecordPlanEvidenceKeeps == ReviewInv /\ RecordPlanEvidence => ReviewInv'
<1> SUFFICES ASSUME ReviewInv, RecordPlanEvidence PROVE ReviewInv'
  OBVIOUS
<1> DEFINE p == memory.planning
<1>1. /\ Ready /\ turn.state = "Tools" /\ Sound(memory) /\ p \in Plannings /\ turn \in Turns
      /\ Pending(memory, "PlanContinuation") = {} /\ Informed(p, turn.shown)
      /\ p.covers <= p.requirements /\ CompletionStands(p)
  BY AtWork DEF RecordPlanEvidence, Sound
<1>2. PICK k \in 1..MaxResults :
        Handle(<<Planned(memory, RecordEvidence(p, ToolSource(k)))>>, turn)
  BY DEF RecordPlanEvidence
<1> DEFINE r == RecordEvidence(p, ToolSource(k))
           u == Planned(memory, r)
<1>3. ToolSource(k) \in Nat
  BY <1>2, PlanAssumption DEF ToolSource
<1>4. /\ r \in Plannings /\ SamePlan(p, r)
      /\ \A s \in DOMAIN p.steps :
           p.steps[s].cites \in p.evidence => p.steps[s].cites \in r.evidence
  BY <1>1, <1>3, EvidenceIsKept
<1> HIDE DEF r
<1>5. CompletionStands(r) /\ r.covers <= r.requirements /\ Informed(r, turn.shown)
  BY <1>1, <1>4 DEF CompletionStands, SamePlan, Review, Informed, HasPlan
<1>6. Follows(memory, u) /\ u.state.planning = r /\ u.state.pending = memory.pending
  BY <1>1, <1>4, <1>5, PlanIsUpdated
<1>7. Handle(<<u>>, turn)
  BY <1>2 DEF r
<1> HIDE DEF u
<1>8. Path(memory, <<u>>, 3) /\ After(memory, <<u>>) = u.state
  BY <1>6, OneUpdate
<1>9. Pending(u.state, "PlanContinuation") = {} /\ ~Overtaken(u.state)
  BY <1>1, <1>6 DEF Pending, Overtaken
<1> QED BY <1>1, <1>5, <1>6, <1>7, <1>8, <1>9, HandlerKeeps

\* A change of mode keeps what a plan claims.
LEMMA ModeIsChanged ==
  ASSUME NEW p \in Plannings, NEW mode \in Modes
  PROVE  LET r == [p EXCEPT !.mode = mode]
         IN /\ r \in Plannings /\ r.mode = mode /\ r.steps = p.steps
            /\ r.covers = p.covers /\ r.requirements = p.requirements
            /\ Review(r) = Review(p)
            /\ InvestigationComplete(r) <=> InvestigationComplete(p)
            /\ CompletionStands(p) => CompletionStands(r)
<1> DEFINE r == [p EXCEPT !.mode = mode]
<1>1. /\ r \in Plannings /\ r.mode = mode /\ r.steps = p.steps /\ r.covers = p.covers
      /\ r.requirements = p.requirements /\ r.evidence = p.evidence /\ r.wishes = p.wishes
  BY DEF Plannings
<1> HIDE DEF r
<1>2. Review(r) = Review(p)
  BY <1>1 DEF Review
<1>3. InvestigationComplete(r) <=> InvestigationComplete(p)
  BY <1>1 DEF InvestigationComplete
<1>4. CompletionStands(p) => CompletionStands(r)
  BY <1>1, <1>2 DEF CompletionStands
<1> QED BY <1>1, <1>2, <1>3, <1>4 DEF r

LEMMA ModeUpdate ==
  ASSUME NEW s, Sound(s), NEW mode \in Modes
  PROVE  LET u == Planned(s, [s.planning EXCEPT !.mode = mode])
         IN Follows(s, u) /\ u.state.pending = s.pending
<1> DEFINE p == s.planning
           r == [p EXCEPT !.mode = mode]
<1>1. p \in Plannings /\ CompletionStands(p) /\ p.covers <= p.requirements
  BY DEF Sound, States
<1>2. /\ r \in Plannings /\ CompletionStands(r) /\ r.covers <= r.requirements
      /\ Review(r) = Review(p) /\ (InvestigationComplete(r) <=> InvestigationComplete(p))
  BY <1>1, ModeIsChanged
<1>3. \/ Pending(s, "PlanContinuation") = {}
      \/ Review(p) = "Current" /\ InvestigationComplete(p)
  BY DEF Sound, OfferStands
<1> HIDE DEF r, p
<1>4. \/ Pending(s, "PlanContinuation") = {}
      \/ Review(r) = "Current" /\ InvestigationComplete(r)
  BY <1>2, <1>3
<1>5. Follows(s, Planned(s, r)) /\ Planned(s, r).state.pending = s.pending
  BY <1>2, <1>4, PlanIsUpdated
<1> QED BY <1>5 DEF r, p

\* SetWorkMode: the offer goes with the mode it was made in.
LEMMA SetWorkModeKeeps == ReviewInv /\ SetWorkMode => ReviewInv'
<1> SUFFICES ASSUME ReviewInv, SetWorkMode PROVE ReviewInv'
  OBVIOUS
<1>1. Ready /\ Sound(memory)
  BY AtWork DEF SetWorkMode
<1>2. PICK mode \in Modes :
        LET first == <<Planned(memory, [memory.planning EXCEPT !.mode = mode])>>
        IN Handle(first \o WithdrawContinuation(Last0(first)), IdleTurn)
  BY DEF SetWorkMode, Modes
<1> DEFINE u     == Planned(memory, [memory.planning EXCEPT !.mode = mode])
           first == <<u>>
           all   == first \o WithdrawContinuation(After(memory, first))
<1>3. Follows(memory, u)
  BY <1>1, <1>2, ModeUpdate
<1>4. Last0(first) = After(memory, first)
  BY DEF Last0, StateAfter, After
<1>5. Handle(all, IdleTurn)
  BY <1>2, <1>4
<1> HIDE DEF u
<1>6. Path(memory, first, 1) /\ Sound(After(memory, first))
  BY <1>3, OneUpdate DEF Follows
<1>7. /\ Path(memory, all, 1 + 1) /\ Sound(After(memory, all))
      /\ Pending(After(memory, all), "PlanContinuation") = {}
  BY <1>6, WithdrawalGoesOn
<1> HIDE DEF all
<1>8. Path(memory, all, 3)
  BY <1>7 DEF Path
<1>9. After(memory, all).planning \in Plannings /\ ~Overtaken(After(memory, all))
  BY <1>7 DEF Sound, States, Overtaken
<1> QED
  BY <1>1, <1>5, <1>7, <1>8, <1>9, RequestsAreInformed, HandlerKeeps DEF IdleTurn

\* AnswerClarification: an answer is a requirement that no request has shown.
LEMMA AnswerClarificationKeeps == ReviewInv /\ AnswerClarification => ReviewInv'
<1> SUFFICES ASSUME ReviewInv, AnswerClarification PROVE ReviewInv'
  OBVIOUS
<1> DEFINE p == memory.planning
<1>1. /\ Ready /\ Sound(memory) /\ p \in Plannings /\ turn \in Turns
      /\ p.covers <= p.requirements /\ CompletionStands(p) /\ Informed(p, turn.shown)
  BY AtWork DEF AnswerClarification, Sound
<1>2. PICK q \in memory.pending :
        /\ q.purpose = "Clarification"
        /\ Handle(<<Answered(memory, q)>>, Resumed(Answered(memory, q).state))
  BY DEF AnswerClarification, Pending
<1> DEFINE u == Answered(memory, q)
           r == WithAnswer(p, q)
<1>3. /\ Follows(memory, u) /\ u.state.planning = r
      /\ Pending(u.state, "PlanContinuation") = {}
  BY <1>1, QuestionIsAnswered
<1>4. q \in QuestionRecords
  BY <1>1 DEF Sound, States
<1>5. /\ r \in Plannings /\ r.steps = p.steps /\ r.revision = p.revision
      /\ p.requirements <= r.requirements
      /\ HasPlan(p) => p.requirements < r.requirements
  BY <1>1, <1>2, <1>4, AnswerIsHeard
<1> HIDE DEF r, p
<1>6. Informed(r, turn.shown)
  BY <1>1, <1>5 DEF Informed, Plannings, Turns, HasPlan
<1>7. Resumed(u.state) \in Turns /\ Informed(u.state.planning, Resumed(u.state).shown)
  BY <1>1, <1>3, <1>5, <1>6, RequestsAreInformed DEF Resumed
<1> HIDE DEF u
<1>8. Path(memory, <<u>>, 3) /\ After(memory, <<u>>) = u.state /\ ~Overtaken(u.state)
  BY <1>3, OneUpdate DEF Overtaken
<1>9. Handle(<<u>>, Resumed(u.state))
  BY <1>2 DEF u
<1> QED BY <1>1, <1>3, <1>7, <1>8, <1>9, HandlerKeeps

\* KeepPlanning: the answer to an offer changes nothing but the question.
LEMMA KeepPlanningKeeps == ReviewInv /\ KeepPlanning => ReviewInv'
<1> SUFFICES ASSUME ReviewInv, KeepPlanning PROVE ReviewInv'
  OBVIOUS
<1>1. Ready /\ Sound(memory)
  BY AtWork DEF KeepPlanning
<1>2. PICK q \in memory.pending : Handle(<<Answered(memory, q)>>, IdleTurn)
  BY DEF KeepPlanning, Approvals, Pending
<1> DEFINE u == Answered(memory, q)
<1>3. Follows(memory, u) /\ Pending(u.state, "PlanContinuation") = {}
  BY <1>1, QuestionIsAnswered
<1> HIDE DEF u
<1>4. Path(memory, <<u>>, 3) /\ After(memory, <<u>>) = u.state /\ ~Overtaken(u.state)
  BY <1>3, OneUpdate DEF Overtaken
<1>5. u.state.planning \in Plannings /\ Handle(<<u>>, IdleTurn)
  BY <1>2, <1>3 DEF Follows, Sound, States, u
<1> QED BY <1>1, <1>3, <1>4, <1>5, RequestsAreInformed, HandlerKeeps DEF IdleTurn

\* ImplementHere: the answer, the mode, and the offer if it were still there.
LEMMA ImplementHereKeeps == ReviewInv /\ ImplementHere => ReviewInv'
<1> SUFFICES ASSUME ReviewInv, ImplementHere PROVE ReviewInv'
  OBVIOUS
<1>1. Ready /\ Sound(memory)
  BY AtWork DEF ImplementHere
<1>2. PICK q \in memory.pending :
        LET first  == <<Answered(memory, q)>>
            state  == Last0(first)
            second == Append(first, Planned(state, [state.planning EXCEPT !.mode = "Implement"]))
        IN Handle(second \o WithdrawContinuation(Last0(second)), Turn("Tools", NoRequest))
  BY DEF ImplementHere, Approvals, Pending
<1> DEFINE u      == Answered(memory, q)
           first  == <<u>>
           t      == After(memory, first)
           w      == Planned(t, [t.planning EXCEPT !.mode = "Implement"])
           second == Append(first, w)
           all    == second \o WithdrawContinuation(After(memory, second))
<1>3. \A us : Last0(us) = After(memory, us)
  BY DEF Last0, StateAfter, After
<1>4. Handle(all, Turn("Tools", NoRequest))
  BY <1>2, <1>3
<1>5. Follows(memory, u)
  BY <1>1, QuestionIsAnswered
<1> HIDE DEF u
<1>6. Path(memory, first, 1) /\ Sound(t)
  BY <1>5, OneUpdate DEF Follows
<1> HIDE DEF first, t
<1>7. Follows(t, w)
  BY <1>6, ModeUpdate DEF Modes
<1> HIDE DEF w
<1>8. Path(memory, second, 1 + 1) /\ Sound(After(memory, second))
  BY <1>6, <1>7, PathGoesOn DEF Follows, t
<1> HIDE DEF second
<1>9. /\ Path(memory, all, 2 + 1) /\ Sound(After(memory, all))
      /\ Pending(After(memory, all), "PlanContinuation") = {}
  BY <1>8, WithdrawalGoesOn
<1> HIDE DEF all
<1>10. After(memory, all).planning \in Plannings /\ ~Overtaken(After(memory, all))
  BY <1>9 DEF Sound, States, Overtaken
<1> QED BY <1>1, <1>4, <1>9, <1>10, RequestsAreInformed, HandlerKeeps

\* The sessions in storage are followed by a new one.
LEMMA SessionIsAdded ==
  ASSUME SavedInv, NEW older, older \in Seq(States), DOMAIN older = DOMAIN saved,
         \A i \in DOMAIN older : Sound(older[i]) /\ (Overtaken(older[i]) => faults' > 0),
         NEW t, Sound(t), ~Overtaken(t), saved' = Append(older, t),
         faults' \in Nat, current' \in 1..(Len(saved) + 1), turn' \in Turns
  PROVE  /\ SavedInv' /\ saved'[Len(saved) + 1] = t
         /\ \A i \in DOMAIN older : saved'[i] = older[i]
<1>1. saved \in Seq(States) /\ t \in States /\ Len(older) = Len(saved) /\ Len(saved) \in Nat
  BY DEF SavedInv, Sound
<1>2. /\ saved' \in Seq(States) /\ DOMAIN saved' = 1..(Len(saved) + 1)
      /\ saved'[Len(saved) + 1] = t /\ DOMAIN older = 1..Len(saved)
      /\ \A i \in DOMAIN older : saved'[i] = older[i]
  BY <1>1
<1>3. \A i \in DOMAIN saved' : i # Len(saved) + 1 => i \in DOMAIN older
  BY <1>1, <1>2
<1>4. \A i \in DOMAIN saved' : Sound(saved'[i]) /\ (Overtaken(saved'[i]) => faults' > 0)
  BY <1>2, <1>3
<1> QED BY <1>2, <1>4 DEF SavedInv

\* A session starts without questions.
LEMMA SessionStarts ==
  ASSUME NEW p \in Plannings, p.covers <= p.requirements, CompletionStands(p)
  PROVE  /\ Sound(InteractionState(p)) /\ ~Overtaken(InteractionState(p))
         /\ InteractionState(p).planning = p
         /\ Pending(InteractionState(p), "PlanContinuation") = {}
<1> DEFINE s == InteractionState(p)
<1>1. s \in States /\ s.planning = p /\ s.pending = {}
  BY DEF InteractionState, States
<1> HIDE DEF s
<1>2. Pending(s, "PlanContinuation") = {}
  BY <1>1 DEF Pending
<1>3. Sound(s) /\ ~Overtaken(s)
  BY <1>1, <1>2 DEF Sound, OfferStands, Overtaken
<1> QED BY <1>1, <1>2, <1>3 DEF s

LEMMA NothingIsPlanned ==
  ASSUME NEW mode \in Modes
  PROVE  /\ NoPlanning(mode) \in Plannings /\ CompletionStands(NoPlanning(mode))
         /\ NoPlanning(mode).covers <= NoPlanning(mode).requirements
<1>1. <<>> \in Graphs
  <2>1. <<>> \in [{} -> StepRecords]
    OBVIOUS
  <2> QED BY <2>1 DEF Graphs
<1>2. DOMAIN NoPlanning(mode).steps = {}
  BY DEF NoPlanning
<1> QED BY <1>1, <1>2 DEF NoPlanning, Plannings, CompletionStands

\* NewAgent: the plan goes to a session of its own, or the question stays.
LEMMA NewAgentKeeps == ReviewInv /\ NewAgent => ReviewInv'
<1> SUFFICES ASSUME ReviewInv, NewAgent PROVE ReviewInv'
  OBVIOUS
<1>1. /\ Ready /\ Sound(memory) /\ memory.planning \in Plannings /\ turn \in Turns
      /\ SavedInv /\ memory = saved[current] /\ policy = PolicyOf(memory)
      /\ TurnInv /\ current \in DOMAIN saved /\ saved \in Seq(States) /\ faults \in Nat
      /\ DOMAIN saved = 1..Len(saved) /\ Len(saved) \in Nat
  BY AtWork DEF NewAgent, ReviewInv, CopiesAgree, SavedInv
<1>2. Sound(Handoff) /\ ~Overtaken(Handoff) /\ Handoff.planning \in Plannings
      /\ Pending(Handoff, "PlanContinuation") = {}
  <2> DEFINE r == [memory.planning EXCEPT !.mode = "Implement"]
  <2>1. r \in Plannings /\ CompletionStands(r) /\ r.covers <= r.requirements
    BY <1>1, ModeIsChanged DEF Modes, Sound
  <2> HIDE DEF r
  <2>2. Handoff = InteractionState(r)
    BY DEF Handoff, r
  <2> QED BY <2>1, <2>2, SessionStarts
<1>3. Sound(Fresh) /\ ~Overtaken(Fresh)
  BY NothingIsPlanned, SessionStarts DEF Fresh, Modes
<1>4. PICK q \in memory.pending :
        LET answered == Recorded(<<Answered(memory, q)>>, 1)
        IN \/ /\ saved' = Append(answered, Handoff) /\ current' = Len(saved) + 1
              /\ memory' = Handoff /\ policy' = Refreshed(Handoff)
              /\ turn' = Turn("Tools", NoRequest) /\ UNCHANGED <<life, faults>>
           \/ /\ faults' = faults + 1
              /\ \E s \in {Fresh, Handoff} : saved' = Append(saved, s)
              /\ UNCHANGED <<current, memory, policy, turn>>
           \/ /\ faults' = faults + 1
              /\ \E s \in {saved, answered} : saved' = Append(s, Handoff)
              /\ life' = "Stopped" /\ UNCHANGED <<current, memory, policy, turn>>
  BY DEF NewAgent, Approvals, Pending
<1> DEFINE u        == Answered(memory, q)
           answered == Recorded(<<u>>, 1)
<1>5. /\ answered \in Seq(States) /\ DOMAIN answered = DOMAIN saved
      /\ \A i \in DOMAIN saved : Sound(answered[i]) /\ (Overtaken(answered[i]) => faults > 0)
  <2>1. Follows(memory, u) /\ Pending(u.state, "PlanContinuation") = {}
    BY <1>1, QuestionIsAnswered
  <2> HIDE DEF u
  <2> DEFINE us == <<u>>
  <2>2. Path(memory, us, 3) /\ Len(us) = 1 /\ us[1] = u
    BY <2>1, OneUpdate
  <2> HIDE DEF us
  <2>3. Replayed(memory, us, 1) = u.state
    BY <2>2, PathIsReplayed
  <2>4. answered = [saved EXCEPT ![current] = u.state]
    BY <1>1, <2>3 DEF Recorded, us
  <2>5. Sound(u.state) /\ ~Overtaken(u.state) /\ u.state \in States
    BY <2>1 DEF Follows, Overtaken, Sound
  <2>6. /\ answered \in Seq(States) /\ DOMAIN answered = DOMAIN saved
        /\ answered[current] = u.state
        /\ \A i \in DOMAIN saved : i # current => answered[i] = saved[i]
    <3> HIDE DEF answered
    <3> QED BY <1>1, <2>4, <2>5
  <2> HIDE DEF answered
  <2> QED BY <1>1, <2>5, <2>6 DEF SavedInv
<1> HIDE DEF answered
<1>6. \A i \in DOMAIN saved : Sound(saved[i]) /\ (Overtaken(saved[i]) => faults > 0)
  BY <1>1 DEF SavedInv
<1>7. CASE /\ saved' = Append(answered, Handoff) /\ current' = Len(saved) + 1
           /\ memory' = Handoff /\ policy' = Refreshed(Handoff)
           /\ turn' = Turn("Tools", NoRequest) /\ UNCHANGED <<life, faults>>
  <2>1. turn' \in Turns /\ Informed(Handoff.planning, turn'.shown)
    BY <1>2, <1>7, RequestsAreInformed
  <2>2. /\ faults' = faults /\ faults' \in Nat /\ current' \in 1..(Len(saved) + 1)
        /\ saved' = Append(answered, Handoff)
    BY <1>1, <1>7
  <2>3. SavedInv' /\ saved'[Len(saved) + 1] = Handoff
    BY <1>1, <1>2, <1>5, <2>1, <2>2, SessionIsAdded
  <2> QED BY <1>2, <1>7, <2>1, <2>3 DEF ReviewInv, CopiesAgree, TurnInv, Refreshed
<1>8. CASE /\ faults' = faults + 1
           /\ \E s \in {Fresh, Handoff} : saved' = Append(saved, s)
           /\ UNCHANGED <<current, memory, policy, turn>>
  <2>1. PICK s \in {Fresh, Handoff} : saved' = Append(saved, s)
    BY <1>8
  <2>2. faults' \in Nat /\ faults' > 0 /\ current' \in 1..(Len(saved) + 1)
    BY <1>1, <1>8
  <2>3. SavedInv' /\ \A i \in DOMAIN saved : saved'[i] = saved[i]
    BY <1>1, <1>2, <1>3, <1>6, <1>8, <2>1, <2>2, SessionIsAdded
  <2> QED BY <1>1, <1>8, <2>3 DEF ReviewInv, CopiesAgree, TurnInv
<1>9. CASE /\ faults' = faults + 1
           /\ \E s \in {saved, answered} : saved' = Append(s, Handoff)
           /\ life' = "Stopped" /\ UNCHANGED <<current, memory, policy, turn>>
  <2>1. PICK s \in {saved, answered} : saved' = Append(s, Handoff)
    BY <1>9
  <2>2. faults' \in Nat /\ faults' > 0 /\ current' \in 1..(Len(saved) + 1)
    BY <1>1, <1>9
  <2>3. SavedInv'
    BY <1>1, <1>2, <1>5, <1>6, <1>9, <2>1, <2>2, SessionIsAdded
  <2> QED BY <1>9, <2>3 DEF ReviewInv, CopiesAgree, Ready
<1> QED BY <1>4, <1>7, <1>8, <1>9 DEF answered

\* Resume: a process takes over what is saved.
LEMMA ResumeKeeps == ReviewInv /\ Resume => ReviewInv'
<1> SUFFICES ASSUME ReviewInv, Resume PROVE ReviewInv'
  OBVIOUS
<1>1. PICK i \in DOMAIN saved :
        /\ current' = i /\ memory' = saved[i] /\ policy' = Refreshed(saved[i])
        /\ turn' = IdleTurn /\ UNCHANGED <<saved, faults>>
  BY DEF Resume
<1>2. SavedInv /\ saved[i].planning \in Plannings
  BY DEF ReviewInv, SavedInv, Sound, States
<1>3. turn' \in Turns /\ Informed(saved[i].planning, turn'.shown) /\ turn'.state = "Idle"
  BY <1>1, <1>2, RequestsAreInformed DEF IdleTurn
<1> QED BY <1>1, <1>2, <1>3 DEF ReviewInv, SavedInv, CopiesAgree, TurnInv, Refreshed

-----------------------------------------------------------------------------
(* The theorems                                                            *)

LEMMA ReviewStarts == Init => ReviewInv
<1> SUFFICES ASSUME Init PROVE ReviewInv
  OBVIOUS
<1> DEFINE s == InteractionState(NoPlanning("Implement"))
<1>1. /\ Sound(s) /\ ~Overtaken(s) /\ s.planning \in Plannings
      /\ Pending(s, "PlanContinuation") = {}
  BY NothingIsPlanned, SessionStarts DEF Modes
<1> HIDE DEF s
<1>2. /\ saved = <<s>> /\ current = 1 /\ memory = s /\ policy = PolicyOf(s)
      /\ turn = IdleTurn /\ faults = 0
  BY DEF Init, s
<1>3. s \in States
  BY <1>1 DEF Sound
<1>4. saved \in Seq(States) /\ DOMAIN saved = {1} /\ saved[1] = s
  BY <1>2, <1>3
<1>5. turn \in Turns /\ Informed(s.planning, turn.shown) /\ turn.state = "Idle"
  BY <1>1, <1>2, RequestsAreInformed DEF IdleTurn
<1> QED BY <1>1, <1>2, <1>4, <1>5 DEF ReviewInv, SavedInv, CopiesAgree, TurnInv

LEMMA ReviewGoesOn == ReviewInv /\ [Next]_vars => ReviewInv'
<1>1. CASE Next
  BY <1>1, BeginKeeps, ProgressKeeps, CompleteKeeps, UpdatePlanKeeps, RequestQuestionKeeps,
     RecordPlanEvidenceKeeps, AnswerClarificationKeeps, KeepPlanningKeeps,
     ImplementHereKeeps, NewAgentKeeps, SetWorkModeKeeps, ResumeKeeps DEF Next
<1>2. CASE UNCHANGED vars
  BY <1>2 DEF vars, ReviewInv, SavedInv, CopiesAgree, TurnInv, Ready
<1> QED BY <1>1, <1>2

\* Whatever the user and the model do, and wherever a handler is cut short:
\* the inductive invariant of the interaction.
THEOREM ReviewIsSound == Spec => []ReviewInv
<1>1. Init => ReviewInv
  BY ReviewStarts
<1>2. ReviewInv /\ [Next]_vars => ReviewInv'
  BY ReviewGoesOn
<1> QED BY <1>1, <1>2, PTL DEF Spec

\* A completed step keeps its evidence, and while the plan is current it was
\* completed by a request that knew all that the user had asked for.
THEOREM CompletedStepsAreSupported == Spec => []CompletionIsSupported
<1>1. ReviewInv => CompletionIsSupported
  BY DEF ReviewInv, SavedInv, Sound, CompletionStands, CompletionIsSupported
<1> QED BY <1>1, ReviewIsSound, PTL

\* An offer to implement the plan still offers the finished investigation that
\* the user is asked to approve.
THEOREM OffersAreFresh == Spec => []OfferIsFresh
<1>1. ReviewInv => OfferIsFresh
  <2> SUFFICES ASSUME ReviewInv, NEW i \in DOMAIN saved,
                      Pending(saved[i], "PlanContinuation") # {}
               PROVE  \/ HandoffReady(saved[i].planning)
                      \/ faults > 0 /\ saved[i].planning.mode = "Implement"
    BY DEF OfferIsFresh
  <2>1. Sound(saved[i]) /\ (Overtaken(saved[i]) => faults > 0)
    BY DEF ReviewInv, SavedInv
  <2>2. /\ Review(saved[i].planning) = "Current" /\ InvestigationComplete(saved[i].planning)
        /\ saved[i].planning.mode \in Modes
    BY <2>1 DEF Sound, OfferStands, States, Plannings
  <2> QED BY <2>1, <2>2 DEF HandoffReady, Overtaken, Modes
<1> QED BY <1>1, ReviewIsSound, PTL

\* The actor, its saved session and the policy of its tools agree between
\* handlers.
THEOREM PolicyIsCurrent == Spec => []CopiesAgree
<1>1. ReviewInv => CopiesAgree
  BY DEF ReviewInv
<1> QED BY <1>1, ReviewIsSound, PTL

=============================================================================
