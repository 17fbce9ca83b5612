------------------------- MODULE KnowledgeGenerations -------------------------
(***************************************************************************)
(* The repository knowledge of a root conversation: generations of worker  *)
(* actors that answer from frozen sources (actors/src/knowledge.rs,        *)
(* immutable_workers.rs, workers/knowledge_worker.rs and the tools that    *)
(* use them).  Tool calls that read run side by side; files, the model and *)
(* the session's worktree change under them, and a call may be dropped at  *)
(* any point where it waits.                                               *)
(*                                                                         *)
(* A generation has one worker.  Snapshot workers and the budget of a      *)
(* request are left out.                                                   *)
(***************************************************************************)
EXTENDS Integers, FiniteSets, SequencesExt

CONSTANTS
  MaxCalls,        \* bound: tool calls
  MaxGenerations,  \* bound: preparations
  MaxChanges,      \* bound: edits, model changes and relocations
  QueueLimit       \* permits of knowledge_queue

ASSUME KnowledgeAssumption ==
  MaxCalls \in Nat /\ MaxGenerations \in Nat /\ MaxChanges \in Nat /\ QueueLimit \in Nat

\* Calls, and the tickets of preparations with the generations they make,
\* in the order they begin.
Calls == 1..MaxCalls
Generations == 1..MaxGenerations
NoOne == 0

VARIABLES
  slot,        \* RegistryState::knowledge: who prepares, who is served
  gens,        \* each generation with its Freshness
  cancelled,   \* preparations whose token is cancelled
  registered,  \* generations whose workers are in RegistryState::workers
  alive,       \* generations whose worker actors run
  work,        \* what the worker of a generation does
  mailbox,     \* the questions that wait for it
  calls,       \* the tool calls
  world,       \* files of main and of the worktree, where the root works, the model
  changes,     \* changes so far
  unseen,      \* history: what was never right since a call's result was made
  cleared      \* history: preparations begun before knowledge was last cleared

vars == <<slot, gens, cancelled, registered, alive, work, mailbox, calls, world,
          changes, unseen, cleared>>
registry == <<slot, cancelled, registered, cleared>>
actors == <<alive, work, mailbox>>
outside == <<world, changes>>

Places == {"main", "worktree"}
Unmade == [made |-> "no", inputs |-> 1, place |-> "main", model |-> 1, valid |-> TRUE]
Asleep == [asker |-> NoOne, step |-> "idle", seen |-> FALSE]
NotCalled == [op |-> "none", step |-> "new", gen |-> NoOne, worker |-> NoOne,
              place |-> "main", seen |-> 0]

-----------------------------------------------------------------------------
(* The registry.  A definition whose comment starts with "Variant" is a    *)
(* mistake that the definition after it avoids; no action uses it.         *)

Active(c) == calls[c].step \notin {"new", "ok", "failed"}
Builds(c) == calls[c].op \in {"prepare", "repartition"}
Begun == {g \in Generations : gens[g].made # "no"}
Building(g) == \E c \in Calls : Active(c) /\ Builds(c) /\ calls[c].gen = g
Stale(g) == IF g = NoOne THEN gens ELSE [gens EXCEPT ![g].valid = FALSE]
Goes(c, step) == calls' = [calls EXCEPT ![c].step = step]

\* Slot::invalidate, for a slot that is taken out of the registry.
Retire ==
  /\ gens' = Stale(slot.serves)
  /\ cancelled' = cancelled \cup ({slot.ticket} \ {NoOne})
  /\ slot' = [ticket |-> NoOne, serves |-> NoOne]
  /\ registered' = {}
  /\ cleared' = Begun

\* Variant: a preparation that ends without a generation leaves its slot.
LeaveSlot(g) == slot
\* Slot::rollback: only the preparation that holds the slot gives it back.
Rollback(g) == IF slot.ticket = g THEN [slot EXCEPT !.ticket = NoOne] ELSE slot

\* A call ends without a result, by an error or because its future is
\* dropped; a preparation it began is dropped with it.
Fails(c) ==
  /\ Goes(c, "failed")
  /\ IF Builds(c) /\ calls[c].gen # NoOne
       THEN /\ slot' = Rollback(calls[c].gen)
            /\ cancelled' = cancelled \cup {calls[c].gen}
       ELSE UNCHANGED <<slot, cancelled>>
  /\ UNCHANGED <<registered, cleared>>

-----------------------------------------------------------------------------
(* Freshness::check: whether the files are the generation's is read in a   *)
(* blocking task; the model and the validity are compared after it.        *)

Matches(g) == world.content[gens[g].place] = gens[g].inputs
\* Variant: the model and the validity are not looked at again.
InputsHold(g, seen) == seen
Holds(g, seen) == seen /\ world.model = gens[g].model /\ gens[g].valid

\* What comes after a check that a call has passed.
AfterCheck(c) ==
  CASE Builds(c) -> "publish"
    [] calls[c].op = "ask" -> "send"
    [] calls[c].op = "search" /\ calls[c].step = "judge" -> "result"
    [] OTHER -> "ok"

Looks(c) ==
  /\ calls[c].step \in {"look", "look again"}
  /\ UNCHANGED <<actors, outside, gens>>
  /\ IF gens[calls[c].gen].valid
       THEN /\ calls' = [calls EXCEPT
                 ![c].step = IF @ = "look" THEN "judge" ELSE "judge again",
                 ![c].seen = IF Matches(calls[c].gen) THEN 1 ELSE 0]
            /\ UNCHANGED registry
       ELSE Fails(c)

\* A check that fails, or cannot be made, invalidates the generation.
Judges(c) ==
  /\ calls[c].step \in {"judge", "judge again"}
  /\ UNCHANGED <<actors, outside>>
  /\ \/ /\ Holds(calls[c].gen, calls[c].seen = 1)
        /\ Goes(c, AfterCheck(c)) /\ UNCHANGED <<registry, gens>>
     \/ Fails(c) /\ gens' = Stale(calls[c].gen)

-----------------------------------------------------------------------------
(* Tool calls of the root.  A call that prepares runs alone.               *)

MayStart(c, op) ==
  /\ calls[c].step = "new" /\ \A d \in 1..(c - 1) : calls[d].step # "new"
  /\ \A d \in Calls : Active(d) => op # "prepare" /\ calls[d].op # "prepare"

Starts(c, op, first, worker) ==
  /\ MayStart(c, op)
  /\ calls' = [calls EXCEPT ![c] =
       [NotCalled EXCEPT !.op = op, !.step = first, !.worker = worker, !.place = world.place]]
  /\ UNCHANGED <<registry, gens, actors, outside>>

StartPrepare(c) == Starts(c, "prepare", "begin", NoOne)
StartRepartition(c) == Starts(c, "repartition", "find", NoOne)
StartSearch(c) == Starts(c, "search", "get", NoOne)
\* The worker is one of those listed at that moment.
StartAsk(c) == \E g \in registered : Starts(c, "ask", "get", g)

\* The tool's clear_knowledge.
Clear(c) ==
  /\ MayStart(c, "clear")
  /\ calls' = [calls EXCEPT ![c].op = "clear", ![c].step = "ok"]
  /\ Retire
  /\ UNCHANGED <<actors, outside>>

\* repartition_knowledge looks the generation up before it begins.
Find(c) ==
  /\ calls[c].step = "find"
  /\ UNCHANGED <<gens, actors, outside>>
  /\ IF slot.serves = NoOne
       THEN Fails(c)
       ELSE /\ calls' = [calls EXCEPT ![c].step = "begin", ![c].worker = slot.serves]
            /\ UNCHANGED registry

\* Preparation::begin.
Begin(c) ==
  /\ calls[c].step = "begin"
  /\ UNCHANGED <<actors, outside>>
  /\ IF slot.ticket # NoOne
       THEN Fails(c) /\ UNCHANGED gens
       ELSE LET g == Cardinality(Begun) + 1 IN
              /\ g \in Generations
              /\ slot' = [slot EXCEPT !.ticket = g]
              /\ gens' = [gens EXCEPT ![g].made = "begun"]
              /\ calls' = [calls EXCEPT ![c].gen = g, ![c].step = "capture"]
              /\ UNCHANGED <<cancelled, registered, cleared>>

\* The files are captured for a preparation, or compared with those of the
\* generation that is partitioned again.
Capture(c) ==
  LET p == calls[c].place   now == world.content[p]   old == calls[c].worker IN
  /\ calls[c].step = "capture"
  /\ UNCHANGED <<gens, actors, outside>>
  /\ IF calls[c].op = "repartition" /\ <<gens[old].place, gens[old].inputs>> # <<p, now>>
       THEN Fails(c)
       ELSE /\ calls' = [calls EXCEPT ![c].seen = now,
              ![c].step = IF calls[c].op = "prepare" THEN "index" ELSE "build"]
            /\ UNCHANGED registry

\* The index is made; the files must be the ones captured before it.
Index(c) ==
  /\ calls[c].step = "index"
  /\ UNCHANGED <<gens, actors, outside>>
  /\ IF world.content[calls[c].place] = calls[c].seen
       THEN Goes(c, "build") /\ UNCHANGED registry
       ELSE Fails(c)

\* build_knowledge up to its check: a new Freshness, the shards, their workers.
Build(c) ==
  LET g == calls[c].gen IN
  /\ calls[c].step = "build"
  /\ UNCHANGED <<work, mailbox, outside>>
  /\ IF g \in cancelled
       THEN Fails(c) /\ UNCHANGED <<gens, alive>>
       ELSE /\ gens' = [gens EXCEPT ![g] =
                 [made |-> "built", inputs |-> calls[c].seen, place |-> calls[c].place,
                  model |-> world.model, valid |-> TRUE]]
            /\ alive' = alive \cup {g}
            /\ Goes(c, "look")
            /\ UNCHANGED registry

\* Variant: the workers of the generation before stay in the list.
AddWorkers(g) == registered \cup {g}
ReplaceWorkers(g) == {g}

\* Preparation::publish.
Publish(c) ==
  LET g == calls[c].gen IN
  /\ calls[c].step = "publish"
  /\ UNCHANGED <<actors, outside>>
  /\ IF slot.ticket = g /\ g \notin cancelled
       THEN /\ slot' = [ticket |-> NoOne, serves |-> g]
            /\ gens' = [Stale(slot.serves) EXCEPT ![g].made = "published"]
            /\ registered' = ReplaceWorkers(g)
            /\ cancelled' = cancelled \cup {g}
            /\ Goes(c, "ok")
            /\ UNCHANGED cleared
       ELSE Fails(c) /\ UNCHANGED gens

\* knowledge(owner), and the scope part of Generation::check.
Get(c) ==
  /\ calls[c].step = "get"
  /\ UNCHANGED <<gens, actors, outside>>
  /\ IF slot.serves # NoOne /\ gens[slot.serves].place = calls[c].place
       THEN /\ calls' = [calls EXCEPT ![c].gen = slot.serves, ![c].step = "look"]
            /\ UNCHANGED registry
       ELSE Fails(c)

\* search and inspect make their result between two checks.
Result(c) ==
  /\ calls[c].step = "result"
  /\ Goes(c, "look again")
  /\ UNCHANGED <<registry, gens, actors, outside>>

-----------------------------------------------------------------------------
(* Questions.  A permit of the queue is held by a question until the       *)
(* worker is done with it; the gate is held while one is answered.         *)

InHand(g) == work[g].step # "idle"
Queued == {c \in Calls : \E g \in Generations :
             c \in ToSet(mailbox[g]) \/ (InHand(g) /\ work[g].asker = c)}
HoldsGate(g) == work[g].step \notin {"idle", "gate"}

\* The registry's ask up to the wait for the reply.
Send(c) ==
  LET g == calls[c].worker IN
  /\ calls[c].step = "send"
  /\ UNCHANGED <<registry, gens, alive, work, outside>>
  /\ IF g \in registered /\ Cardinality(Queued) < QueueLimit
       THEN Goes(c, "wait") /\ mailbox' = [mailbox EXCEPT ![g] = Append(@, c)]
       ELSE Goes(c, "failed") /\ UNCHANGED mailbox

\* A call fails, is dropped, or its question times out.
Interrupt(c) ==
  /\ Active(c)
  /\ Fails(c)
  /\ UNCHANGED <<gens, actors, outside>>

Proceeds(c) ==
  \/ Find(c) \/ Begin(c) \/ Capture(c) \/ Index(c) \/ Build(c) \/ Publish(c)
  \/ Get(c) \/ Looks(c) \/ Judges(c) \/ Result(c) \/ Send(c)

Sets(g, step) == work' = [work EXCEPT ![g].step = step]
Waits(c) == calls[c].step = "wait"
\* The worker replies and takes the next question; nobody may be listening.
Replies(g, outcome) ==
  /\ work' = [work EXCEPT ![g] = Asleep]
  /\ IF Waits(work[g].asker) THEN Goes(work[g].asker, outcome) ELSE UNCHANGED calls

Take(g) ==
  /\ g \in alive /\ ~InHand(g) /\ mailbox[g] # <<>>
  /\ work' = [work EXCEPT ![g].asker = Head(mailbox[g]), ![g].step = "gate"]
  /\ mailbox' = [mailbox EXCEPT ![g] = Tail(@)]
  /\ UNCHANGED <<registry, gens, alive, calls, outside>>

Enter(g) ==
  /\ work[g].step = "gate" /\ \A h \in Generations : ~HoldsGate(h)
  /\ Sets(g, "look")
  /\ UNCHANGED <<registry, gens, alive, mailbox, calls, outside>>

WorkerLooks(g) ==
  /\ work[g].step \in {"look", "look again"} /\ gens[g].valid
  /\ work' = [work EXCEPT ![g].step = IF @ = "look" THEN "judge" ELSE "judge again",
                          ![g].seen = Matches(g)]
  /\ UNCHANGED <<registry, gens, alive, mailbox, calls, outside>>

WorkerJudges(g) ==
  /\ work[g].step \in {"judge", "judge again"}
  /\ UNCHANGED <<registry, alive, mailbox, outside>>
  /\ \/ /\ Holds(g, work[g].seen) /\ UNCHANGED gens
        /\ IF work[g].step = "judge"
             THEN Sets(g, "model") /\ UNCHANGED calls
             ELSE Replies(g, "ok")
     \/ Replies(g, "failed") /\ gens' = Stale(g)

\* Snapshot::answer.
ModelAnswers(g) ==
  /\ work[g].step = "model"
  /\ Sets(g, "look again") /\ UNCHANGED calls
  /\ UNCHANGED <<registry, gens, alive, mailbox, outside>>

\* The caller is gone, the generation is stale, or the model fails.
GivesUp(g) ==
  /\ InHand(g)
  /\ ~Waits(work[g].asker) \/ ~gens[g].valid \/ work[g].step = "model"
  /\ Replies(g, "failed")
  /\ UNCHANGED <<registry, gens, alive, mailbox, outside>>

\* The worker of a generation that nothing holds any more is killed: what
\* it was asked is never answered.
Dies(g) ==
  /\ g \in alive /\ g \notin registered /\ ~Building(g)
  /\ alive' = alive \ {g}
  /\ mailbox' = [mailbox EXCEPT ![g] = <<>>]
  /\ work' = [work EXCEPT ![g] = Asleep]
  /\ calls' = [c \in Calls |->
       IF Waits(c) /\ calls[c].worker = g THEN [calls[c] EXCEPT !.step = "failed"] ELSE calls[c]]
  /\ UNCHANGED <<registry, gens, outside>>

WorkerProceeds(g) ==
  \/ Take(g) \/ Enter(g) \/ WorkerLooks(g) \/ WorkerJudges(g) \/ ModelAnswers(g) \/ GivesUp(g)

-----------------------------------------------------------------------------
(* What changes under the calls.                                           *)

Changes == changes < MaxChanges /\ changes' = changes + 1
Other(n) == 3 - n

Edit(p) ==
  /\ Changes
  /\ world' = [world EXCEPT !.content[p] = Other(@)]
  /\ UNCHANGED <<registry, gens, actors, calls>>

SwitchModel ==
  /\ Changes
  /\ world' = [world EXCEPT !.model = Other(@)]
  /\ UNCHANGED <<registry, gens, actors, calls>>

\* relocate_session, in the actor's handler, beside the calls: the session
\* moves into a worktree of its own, or back to main after its merge.
Relocate ==
  /\ Changes
  /\ world' = [world EXCEPT !.place = IF @ = "main" THEN "worktree" ELSE "main"]
  /\ Retire
  /\ UNCHANGED <<actors, calls>>

\* The conversation is cleared, switched or closed while no tool runs; the
\* actor waits until the workers have stopped.
CloseConversation ==
  /\ slot.serves # NoOne /\ \A c \in Calls : ~Active(c)
  /\ Retire
  /\ alive' = alive \ registered
  /\ mailbox' = [g \in Generations |-> IF g \in registered THEN <<>> ELSE mailbox[g]]
  /\ work' = [g \in Generations |-> IF g \in registered THEN Asleep ELSE work[g]]
  /\ UNCHANGED <<calls, outside>>

-----------------------------------------------------------------------------
Init ==
  /\ slot = [ticket |-> NoOne, serves |-> NoOne]
  /\ gens = [g \in Generations |-> Unmade]
  /\ cancelled = {} /\ registered = {} /\ alive = {} /\ cleared = {}
  /\ work = [g \in Generations |-> Asleep]
  /\ mailbox = [g \in Generations |-> <<>>]
  /\ calls = [c \in Calls |-> NotCalled]
  /\ world = [content |-> [p \in Places |-> 1], place |-> "main", model |-> 1]
  /\ changes = 0
  /\ unseen = [c \in Calls |-> {}]

Step ==
  \/ \E c \in Calls :
       \/ StartPrepare(c) \/ StartRepartition(c) \/ StartSearch(c) \/ StartAsk(c)
       \/ Clear(c) \/ Interrupt(c) \/ Proceeds(c)
  \/ \E g \in Generations : WorkerProceeds(g) \/ Dies(g)
  \/ \E p \in Places : Edit(p)
  \/ SwitchModel \/ Relocate \/ CloseConversation

\* The generation that a call's result is made from, once it is made.
UsedBy(c) == IF calls[c].op = "ask" THEN calls[c].worker ELSE calls[c].gen
Answered(c) ==
  \/ calls[c].op = "search" /\ calls[c].step \in {"look again", "judge again", "ok"}
  \/ calls[c].op = "ask" /\ calls[c].step \in {"wait", "ok"}
       /\ (calls[c].step = "wait" => /\ work[calls[c].worker].asker = c
                                     /\ work[calls[c].worker].step \in {"look again", "judge again"})
Wrong(g) ==
  {w \in {"files", "model", "service"} :
     \/ w = "files" /\ ~Matches(g)
     \/ w = "model" /\ world.model # gens[g].model
     \/ w = "service" /\ slot.serves # g}

Observe(c) ==
  IF ~Answered(c)' THEN {}
  ELSE IF ~Answered(c) THEN Wrong(UsedBy(c))'
  ELSE IF calls[c].step = "ok" THEN unseen[c]
  ELSE unseen[c] \cap Wrong(UsedBy(c))'

Observed == unseen' = [c \in Calls |-> Observe(c)]
Next == Step /\ Observed

\* The runtime polls a call that can go on; nothing else is needed.
Fairness == \A c \in Calls : WF_vars(Proceeds(c) /\ Observed)
Spec == Init /\ [][Next]_vars /\ Fairness

-----------------------------------------------------------------------------
TypeOK ==
  /\ slot \in [ticket : Generations \cup {NoOne}, serves : Generations \cup {NoOne}]
  /\ gens \in [Generations -> [made : {"no", "begun", "built", "published"}, inputs : 1..2,
                               place : Places, model : 1..2, valid : BOOLEAN]]
  /\ cancelled \subseteq Generations /\ cleared \subseteq Generations
  /\ registered \subseteq Generations /\ alive \subseteq Generations
  /\ work \in [Generations -> [asker : Calls \cup {NoOne}, seen : BOOLEAN, step :
       {"idle", "gate", "look", "judge", "model", "look again", "judge again"}]]
  /\ \A g \in Generations : ToSet(mailbox[g]) \subseteq Calls
  /\ world \in [content : [Places -> 1..2], place : Places, model : 1..2]
  /\ changes \in 0..MaxChanges

\* Whoever asks for knowledge finds the workers of the generation that is
\* served and no others; an older one is trusted by nobody, and knowledge
\* that was cleared is not served again by a preparation that had begun
\* before (Slot, Preparation::publish, rollback, clear_knowledge).
RoutesAreKnown ==
  /\ registered = {slot.serves} \ {NoOne}
  /\ registered \subseteq alive
  /\ slot.serves \notin cleared
  /\ \A g \in Generations :
       gens[g].made = "published" /\ gens[g].valid => slot.serves = g

\* A result that a call gives was still right after it was made: since then
\* the files were those the generation was made from, the model was the same
\* and the generation was served, each at some moment, whatever changed
\* while the model was answering (Freshness::check after the answer).
AnswersAreCurrent == \A c \in Calls : calls[c].step = "ok" => unseen[c] = {}

\* A preparation that has taken the slot gives it back or publishes: a call
\* that fails, is cleared or dropped never leaves knowledge "preparing".
PreparationsEnd == \A g \in Generations : slot.ticket = g ~> slot.ticket # g
=============================================================================
