------------------------------ MODULE SessionLog ------------------------------
(***************************************************************************)
(* A session's snapshot on disk (session/src/lib.rs), the conversation and *)
(* the turn of the process that owns it, and the tools of that turn.       *)
(*                                                                         *)
(* Each event is recorded by a transaction of its own.  A transaction may  *)
(* fail, without effect; the process may crash between any two.  Then      *)
(* another process claims the session, records Recovered and goes on from  *)
(* the snapshot.                                                           *)
(***************************************************************************)
EXTENDS Integers, FiniteSets, SequencesExt

CONSTANTS
  Prompts,    \* inputs of the user, one turn each
  Questions,  \* questions that the user may answer, once each
  Calls,      \* operations that the model may ask for, each in one batch
  Starters,   \* of those, the ones that start a managed process
  MaxTexts,   \* bound: messages of the model that ask for nothing
  MaxLives,   \* bound: processes that ever own the session
  MaxFailures,  \* bound: records that fail
  NoItem      \* the null item

ASSUME SessionAssumption ==
  /\ Starters \subseteq Calls /\ IsFiniteSet(Starters)
  /\ MaxTexts \in Nat /\ MaxLives \in Nat /\ MaxFailures \in Nat
  /\ NoItem \notin Prompts \cup Questions /\ Prompts \cap Questions = {}

VARIABLES
  stored,       \* Snapshot
  conversation, \* Conversation of the process
  persistence,  \* Persistence: "Ready" or "Failed"
  life,         \* "down" or "up"
  lives,        \* processes so far
  phase,        \* "idle", "asks", "tools", "stopping", "recorded" or "ended"
  turn,         \* input of the current turn
  outcome,      \* how that turn ends
  queue,        \* TurnMachine's follow-ups
  batch,        \* TurnMachine's tool batch, as far as its messages tell
  plan,         \* compaction that the provider task prepares; 0: none
  texts,        \* messages of the model so far
  used,         \* prompts and calls that are taken
  live,         \* calls whose managed process runs
  ran,          \* observation: calls that took effect
  accepted,     \* observation: inputs that a successful record holds
  heard,        \* observation: calls at work when a question was answered
  excused,      \* observation: prompts of turns reported cancelled or failed
  failures      \* records that have failed

process == <<life, lives>>
control == <<phase, turn, outcome, queue>>
seen    == <<ran, accepted, heard, excused>>
logVars == <<stored, conversation, persistence, life, lives, phase, turn, outcome,
          queue, batch, plan, texts, used, live, ran, accepted, heard,
          excused, failures>>

-----------------------------------------------------------------------------
(* Messages, and what they tell of an operation.  A definition whose       *)
(* comment starts with "Variant" is a mistake that the definition after it *)
(* avoids; no action uses it.                                              *)

NoCalls == [c \in {} |-> "queued"]
Message(kind, item, calls) == [kind |-> kind, item |-> item, calls |-> calls]
Input(kind, item) == Message(kind, item, NoCalls)
Text == Message("text", NoItem, NoCalls)

\* Operation::result_content.  "refused" and "done" are results as the tool
\* gave them: the first says that it did not start.
Told(state) ==
  CASE state \in {"queued", "never"} -> "not executed"
    [] state = "intended"             -> "uncertain"
    [] OTHER                          -> state

\* Variant: an operation without a recorded completion has not run.
ExchangeAsUnrun(ops) ==
  <<Message("calls", NoItem, [c \in DOMAIN ops |-> "asked"]),
    Message("results", NoItem,
            [c \in DOMAIN ops |-> IF ops[c] = "intended" THEN "not executed" ELSE Told(ops[c])])>>
\* PendingBatch::messages
Exchange(ops) ==
  <<Message("calls", NoItem, [c \in DOMAIN ops |-> "asked"]),
    Message("results", NoItem, [c \in DOMAIN ops |-> Told(ops[c])])>>

-----------------------------------------------------------------------------
(* Snapshot::transition.                                                   *)

Pending(s) == s.pending # NoCalls

\* Variant: an answer is said at once.
AnsweredAtOnce(s, q) == [s EXCEPT !.history = Append(@, Input("answer", q))]
\* QuestionAnswered
Answered(s, q) ==
  IF Pending(s) THEN [s EXCEPT !.deferred = Append(@, Input("answer", q))]
  ELSE [s EXCEPT !.history = Append(@, Input("answer", q))]

Queued(s, p) == [s EXCEPT !.queued = Append(@, p)]
\* Vec::retain: what is in `q' but not in `gone', in its order
Without(q, gone) ==
  LET kept == {i \in DOMAIN q : q[i] \notin gone}
      rank == [i \in kept |-> Cardinality({j \in kept : j <= i})]
  IN [k \in 1..Cardinality(kept) |-> q[CHOOSE i \in kept : rank[i] = k]]
Unqueued(s, turns) == [s EXCEPT !.queued = Without(@, turns)]

\* Variant: the prompt of a turn that begins stays in the queue.
BeganOnly(s, p) == [s EXCEPT !.history = Append(@, Input("prompt", p))]
Began(s, p) == [Unqueued(s, {p}) EXCEPT !.history = Append(@, Input("prompt", p))]

History(s, messages) ==
  [s EXCEPT !.history = @ \o messages \o s.deferred, !.deferred = <<>>, !.pending = NoCalls]

Prepared(s, ops) == [s EXCEPT !.pending = ops]

OpAs(s, c, state) == [s EXCEPT !.pending[c] = state]
Intent(s, c) == OpAs(s, c, "intended")

\* Completed; `starts` iff the result names a managed process.  A process
\* whose end came first keeps that end.
Completed(s, c, state, starts) ==
  [OpAs(s, c, state) EXCEPT !.processes =
     IF starts /\ s.processes[c] = "none" THEN [@ EXCEPT ![c] = "running"] ELSE @]

ProcessCompleted(s, c) ==
  [s EXCEPT !.processes[c] = "ended", !.evidence = @ \ {c}]

\* Positions after a complete exchange or a message of the model.
Ends(h) == {i \in DOMAIN h : h[i].kind \in {"text", "results"}}
Boundaries(h) == {i \in Ends(h) : Cardinality({j \in Ends(h) : j > i}) >= 2}

\* CompactionTransition::new; the memory stands for the messages it replaces.
CanCompact(s, through, generation) ==
  through > s.through /\ generation = s.generation + 1 /\ ~Pending(s) /\ through \in Ends(s.history)
Compacted(s, through, generation) ==
  [s EXCEPT !.through = through, !.generation = generation]

\* Saved processes of which the history does not tell yet, one message each
Evidence(s) ==
  LET new == {c \in Starters : s.processes[c] # "none" /\ c \notin s.evidence}
  IN [i \in 1..Cardinality(new) |-> Input("evidence", NoItem)]

PromptsOf(queued) == [i \in DOMAIN queued |-> Input("prompt", queued[i])]
Unanswered(s) == IF Pending(s) THEN Exchange(s.pending) ELSE <<>>

\* Variant: the deferred answers go before the batch that they waited for.
RecoveredOutOfOrder(s) == s.deferred \o Unanswered(s) \o PromptsOf(s.queued)
RecoveredInput(s) == Unanswered(s) \o s.deferred \o PromptsOf(s.queued)

Recovered(s) ==
  [s EXCEPT
     !.history = @ \o Evidence(s) \o RecoveredInput(s),
     !.deferred = <<>>, !.pending = NoCalls, !.queued = <<>>,
     !.processes = [c \in Starters |-> IF @[c] = "running" THEN "unknown" ELSE @[c]],
     !.evidence = {c \in Starters : s.processes[c] # "none"}]

-----------------------------------------------------------------------------
(* Records.                                                                *)

Failure == failures < MaxFailures /\ failures' = failures + 1

\* SessionPersistence::record of an event that leads to `new`
Record(new) ==
  \/ stored' = new /\ UNCHANGED <<persistence, failures>>
  \/ Failure /\ UNCHANGED stored /\ persistence' = "Failed"

\* The snapshot refuses the event.
Refuse == UNCHANGED <<stored, failures>> /\ persistence' = "Failed"

\* SessionControl::append_history: the stored batch replaces the messages.
StoredMessages(given) == IF Pending(stored) THEN Exchange(stored.pending) ELSE given

AppendTo(c, messages) ==
  [c EXCEPT !.history = @ \o messages \o c.deferred, !.deferred = <<>>]

AppendHistory(given) ==
  \/ LET messages == StoredMessages(given)
     IN /\ Record(History(stored, messages))
        /\ conversation' = AppendTo(conversation, messages)
  \/ /\ stored' \in {stored, History(stored, given)}   \* the snapshot could not be read
     /\ Failure /\ persistence' = "Failed"
     /\ conversation' = AppendTo(conversation, given)

\* ProviderContext::spawn: no request is made when storage has failed.
LaunchProvider ==
  IF persistence' = "Ready" THEN phase' = "asks" /\ UNCHANGED outcome
  ELSE phase' = "stopping" /\ outcome' = "Stopped"

-----------------------------------------------------------------------------
(* A life of the session.                                                  *)

\* create_session with an empty history
LogInit ==
  /\ stored = [history |-> <<>>, pending |-> NoCalls, deferred |-> <<>>, queued |-> <<>>,
               through |-> 0, generation |-> 0,
               processes |-> [c \in Starters |-> "none"], evidence |-> {}]
  /\ conversation = [history |-> <<>>, deferred |-> <<>>, through |-> 0, generation |-> 0]
  /\ persistence = "Ready" /\ life = "up" /\ lives = 1
  /\ phase = "idle" /\ turn = NoItem /\ outcome = "None" /\ queue = <<>>
  /\ batch = NoCalls /\ plan = 0 /\ texts = 0 /\ used = {} /\ live = {}
  /\ ran = {} /\ accepted = <<>> /\ excused = {} /\ failures = 0
  /\ heard = [q \in Questions |-> {}]

\* A crash, or the drop of the session; nothing but the snapshot is left.
\* Ownership is released or belongs to a process that has exited.
Exit ==
  /\ life = "up" /\ lives < MaxLives
  /\ life' = "down"
  /\ conversation' = [history |-> <<>>, deferred |-> <<>>, through |-> 0, generation |-> 0]
  /\ persistence' = "Ready" /\ phase' = "idle" /\ turn' = NoItem /\ outcome' = "None"
  /\ queue' = <<>> /\ batch' = NoCalls /\ plan' = 0 /\ live' = {}
  /\ UNCHANGED <<stored, lives, texts, used, seen, failures>>

\* ResumableSession::new, resume and SessionActivation::resume; when Recovered
\* cannot be recorded, the session stays closed.
Resume ==
  /\ life = "down"
  /\ life' = "up" /\ lives' = lives + 1
  /\ stored' = Recovered(stored)
  /\ conversation' = [history |-> stored'.history, deferred |-> stored'.deferred,
                      through |-> stored'.through, generation |-> stored'.generation]
  /\ UNCHANGED <<persistence, control, batch, plan, texts, used, live, seen, failures>>

-----------------------------------------------------------------------------
(* Input of the user.                                                      *)

Listens == life = "up" /\ phase \in {"idle", "asks", "tools", "stopping"}

Accept(x, done) == accepted' = IF done THEN Append(accepted, x) ELSE accepted

\* SessionControl::begin_turn, of a turn with prompt `p`
BeginTurn(p) ==
  /\ Record(Began(stored, p))
  /\ conversation' = [conversation EXCEPT !.history = Append(@, Input("prompt", p))]
  /\ LaunchProvider /\ turn' = p

Submit(p) ==
  /\ Listens /\ p \notin used
  /\ used' = used \cup {p}
  /\ \/ /\ phase = "idle"
        /\ BeginTurn(p)
        /\ UNCHANGED queue
     \/ /\ phase # "idle"
        /\ Record(Queued(stored, p))                    \* queue_input
        /\ queue' = Append(queue, p)
        /\ UNCHANGED <<conversation, phase, turn, outcome>>
  /\ Accept(p, persistence' = "Ready")
  /\ UNCHANGED <<process, batch, plan, texts, live, ran, heard, excused>>

IsOpen(q) ==
  \A i \in DOMAIN stored.history : stored.history[i] # Input("answer", q)

\* SessionTurn::answer: the answer is committed before it is said.
Answer(q) ==
  /\ Listens /\ persistence = "Ready"
  /\ IsOpen(q) /\ \A i \in DOMAIN stored.deferred : stored.deferred[i] # Input("answer", q)
  /\ Record(Answered(stored, q))
  /\ conversation' =
       IF persistence' = "Failed" THEN conversation
       ELSE IF batch # NoCalls
            THEN [conversation EXCEPT !.deferred = Append(@, Input("answer", q))]
            ELSE [conversation EXCEPT !.history = Append(@, Input("answer", q))]
  /\ Accept(q, persistence' = "Ready")
  /\ heard' = [heard EXCEPT ![q] = DOMAIN batch]
  /\ UNCHANGED <<process, control, batch, plan, texts, used, live, ran, excused>>

\* SessionPersistence::report: when storage has failed, so has the turn.
Report(turns, end) ==
  excused' = IF end = "Completed" /\ persistence' = "Ready" THEN excused ELSE excused \cup turns

\* Interrupt: the follow-ups are cancelled, then the turn is stopped.  Each is
\* a record of its own, so any of them may fail.
Interrupt ==
  /\ life = "up" /\ phase \in {"asks", "tools", "stopping"}
  /\ \E cancelled \in SUBSET ToSet(queue) :
       /\ stored' = Unqueued(stored, cancelled)
       /\ IF cancelled = ToSet(queue) THEN UNCHANGED <<persistence, failures>>
          ELSE Failure /\ persistence' = "Failed"
  /\ Report(ToSet(queue), "Stopped")
  /\ queue' = <<>> /\ phase' = "stopping" /\ plan' = 0
  /\ outcome' = IF phase = "stopping" THEN outcome ELSE "Stopped"
  /\ UNCHANGED <<conversation, process, turn, batch, texts, used, live, ran, accepted, heard>>

-----------------------------------------------------------------------------
(* The provider.                                                           *)

\* A message of the model, or its last; `given` may be followed by a request
\* to reconcile the plan.
Say ==
  /\ life = "up" /\ phase = "asks" /\ texts < MaxTexts
  /\ texts' = texts + 1
  /\ AppendHistory(<<Text>>)
  /\ \/ LaunchProvider
     \/ phase' = "stopping" /\ outcome' \in {"Completed", "Stopped"}
  /\ plan' = 0
  /\ UNCHANGED <<process, turn, queue, batch, used, live, seen>>

\* provider_failed, and every provider that is to be started when storage failed
ProviderFails ==
  /\ life = "up" /\ phase = "asks"
  /\ phase' = "stopping" /\ outcome' = "Stopped" /\ plan' = 0
  /\ UNCHANGED <<stored, conversation, persistence, process, turn, queue, batch, texts,
                 used, live, seen, failures>>

\* CompactionPlan::new, over the history as it is now
Plan ==
  /\ life = "up" /\ phase = "asks" /\ plan = 0
  /\ plan' \in {b \in Boundaries(conversation.history) : b > conversation.through}
  /\ UNCHANGED <<stored, conversation, persistence, process, control, batch, texts, used,
                 live, seen, failures>>

\* ProviderSession::compact
Compact ==
  /\ life = "up" /\ phase = "asks" /\ plan # 0
  /\ LET generation == conversation.generation + 1
     IN IF CanCompact(stored, plan, generation)
        THEN Record(Compacted(stored, plan, generation))
        ELSE Refuse
  /\ plan' = 0
  /\ \/ /\ persistence' = "Ready"
        /\ conversation' = [conversation EXCEPT !.through = plan, !.generation = @ + 1]
        /\ UNCHANGED <<phase, outcome>>
     \/ /\ persistence' = "Failed"
        /\ phase' = "stopping" /\ outcome' = "Stopped"
        /\ UNCHANGED conversation
  /\ UNCHANGED <<process, turn, queue, batch, texts, used, live, seen>>

\* Any other record of the session (usage, planning, changes) fails.
StorageFails ==
  /\ Listens /\ persistence = "Ready"
  /\ Failure /\ persistence' = "Failed"
  /\ UNCHANGED <<stored, conversation, process, control, batch, plan, texts, used, live, seen>>

-----------------------------------------------------------------------------
(* The tools.                                                              *)

\* LaunchTools and prepare_batch
Launch(ops) ==
  /\ life = "up" /\ phase = "asks"
  /\ ops # {} /\ ops \cap used = {}
  /\ used' = used \cup ops
  /\ IF Pending(stored) THEN Refuse ELSE Record(Prepared(stored, [c \in ops |-> "queued"]))
  /\ \/ /\ persistence' = "Ready"
        /\ batch' = [c \in ops |-> "queued"] /\ phase' = "tools" /\ UNCHANGED outcome
     \/ /\ persistence' = "Failed"                        \* no job is started
        /\ batch' = [c \in ops |-> "never"] /\ phase' = "stopping" /\ outcome' = "Stopped"
  /\ plan' = 0
  /\ UNCHANGED <<conversation, process, turn, queue, texts, live, seen>>

Works(c, state) ==
  /\ life = "up" /\ phase \in {"tools", "stopping"} /\ c \in DOMAIN batch /\ batch[c] = state
  /\ UNCHANGED <<conversation, persistence, process, control, plan, texts, used, accepted, heard, excused>>

Becomes(c, state) == batch' = [batch EXCEPT ![c] = state]

\* Executor::record_intent; when it fails, see Decline.
Intend(c) ==
  /\ Works(c, "queued")
  /\ stored' = Intent(stored, c) /\ Becomes(c, "intended")
  /\ UNCHANGED <<live, ran, failures>>

\* A job that is refused before its intent, or whose intent cannot be
\* recorded; its completion is recorded in turn.
Decline(c) ==
  /\ Works(c, "queued")
  /\ \/ stored' = Completed(stored, c, "refused", FALSE) /\ Becomes(c, "refused") /\ UNCHANGED failures
     \/ Failure /\ UNCHANGED stored /\ Becomes(c, "uncertain")
  /\ UNCHANGED <<live, ran>>

\* The tool changes something, or starts its process.
TakeEffect(c) ==
  /\ Works(c, "intended")
  /\ Becomes(c, "ran") /\ ran' = ran \cup {c}
  /\ live' = IF c \in Starters THEN live \cup {c} ELSE live
  /\ UNCHANGED <<stored, failures>>

\* Executor::record_completion, of a tool that ended or was cancelled
Complete(c) ==
  /\ Works(c, "ran") \/ Works(c, "intended")
  /\ LET done == Completed(stored, c, "done", c \in Starters /\ batch[c] = "ran")
     IN \/ stored' = done /\ Becomes(c, "done") /\ UNCHANGED failures
        \/ Failure /\ UNCHANGED stored /\ Becomes(c, "uncertain")
  /\ UNCHANGED <<live, ran>>

\* The completion of a managed process, recorded by the task that awaits it
ProcessEnds(c) ==
  /\ life = "up" /\ c \in live
  /\ live' = live \ {c}
  /\ Record(ProcessCompleted(stored, c))
  /\ UNCHANGED <<conversation, process, control, batch, plan, texts, used, seen>>

\* What the machine's batch tells: the executor has sent all it has to say.
MachineExchange == Exchange(batch)
Quiet == \A c \in DOMAIN batch : batch[c] \notin {"intended", "ran"}

\* ToolEvent::Finished: the next request follows, or the turn stops.
BatchEnds ==
  /\ life = "up" /\ phase = "tools" /\ Quiet
  /\ \/ /\ \A c \in DOMAIN batch : batch[c] \in {"done", "refused"}
        /\ AppendHistory(MachineExchange)
        /\ batch' = NoCalls /\ LaunchProvider
     \/ /\ phase' = "stopping" /\ outcome' = "Stopped"
        /\ UNCHANGED <<stored, conversation, persistence, batch, failures>>
  /\ UNCHANGED <<process, turn, queue, plan, texts, used, live, seen>>

-----------------------------------------------------------------------------
(* The end of a turn: one handler, three records.                          *)

\* finish_history, when the scope of the turn has finished
FinishHistory ==
  /\ life = "up" /\ phase = "stopping" /\ Quiet
  /\ IF batch = NoCalls THEN UNCHANGED <<stored, conversation, persistence, failures>>
     ELSE AppendHistory(MachineExchange)
  /\ batch' = NoCalls /\ phase' = "recorded"
  /\ UNCHANGED <<process, turn, outcome, queue, plan, texts, used, live, seen>>

ReportEnd ==
  /\ life = "up" /\ phase = "recorded"
  /\ Record(Unqueued(stored, {turn}))
  /\ Report({turn}, outcome)
  /\ phase' = "ended" /\ turn' = NoItem /\ outcome' = "None"
  /\ UNCHANGED <<conversation, process, queue, batch, plan, texts, used, live, ran, accepted, heard>>

BeginNext ==
  /\ life = "up" /\ phase = "ended"
  /\ IF queue = <<>>
     THEN phase' = "idle" /\ UNCHANGED <<stored, conversation, persistence, turn, outcome, queue, failures>>
     ELSE BeginTurn(Head(queue)) /\ queue' = Tail(queue)
  /\ UNCHANGED <<process, batch, plan, texts, used, live, seen>>

LogNext ==
  \/ Exit \/ Resume \/ Interrupt \/ Say \/ ProviderFails \/ Plan \/ Compact \/ StorageFails
  \/ BatchEnds \/ FinishHistory \/ ReportEnd \/ BeginNext
  \/ \E p \in Prompts : Submit(p)
  \/ \E q \in Questions : Answer(q)
  \/ \E ops \in SUBSET Calls : Launch(ops)
  \/ \E c \in Calls : Intend(c) \/ Decline(c) \/ TakeEffect(c) \/ Complete(c) \/ ProcessEnds(c)

LogSpec == LogInit /\ [][LogNext]_logVars

-----------------------------------------------------------------------------
(* Properties.                                                             *)

Exchanges(h) == {i \in DOMAIN h : h[i].kind = "results"}

\* What the model is told of operation `c`, by the messages of `h`
TellsOf(c, h) == {h[i].calls[c] : i \in {k \in Exchanges(h) : c \in DOMAIN h[k].calls}}

\* A call that took effect is never lost and never said not to have run: not
\* in the conversation, not on disk, and not in what the next recovery would
\* say.  A saved process is said to run only while it does.
EffectsAreTold ==
  /\ \A c \in ran :
       LET durable == TellsOf(c, stored.history \o Unanswered(stored))
       IN /\ durable # {} /\ durable \subseteq {"uncertain", "done"}
          /\ TellsOf(c, conversation.history) \subseteq {"uncertain", "done"}
  /\ life = "up" /\ persistence = "Ready" =>
       \A c \in Starters : stored.processes[c] = "running" => c \in live

\* While storage works, the conversation of the process, its follow-ups and
\* its batch are those on disk: a crash would lose nothing that the model or
\* the user has been told.
ConversationIsStored ==
  life = "up" /\ persistence = "Ready" =>
    /\ conversation = [history |-> stored.history, deferred |-> stored.deferred,
                       through |-> stored.through, generation |-> stored.generation]
    /\ queue = stored.queued
    /\ DOMAIN batch = DOMAIN stored.pending

\* An input whose record succeeded stays, once and in its order, in the
\* history or in what recovery adds to it, over all crashes; only a prompt
\* whose turn was reported cancelled or failed may be gone.
InputsSurvive ==
  LET whole == stored.history \o RecoveredInput(stored)
      Places(x) == {i \in DOMAIN whole : whole[i].item = x}
      kept == (Prompts \cap ToSet(accepted)) \ excused
      said == Questions \cap ToSet(accepted)
  IN /\ \A x \in kept \cup said : \E i \in DOMAIN whole : Places(x) = {i}
     /\ \A S \in {kept, said} : \A k, l \in DOMAIN accepted :
          k < l /\ accepted[k] \in S /\ accepted[l] \in S =>
            \A i \in Places(accepted[k]), j \in Places(accepted[l]) : i < j

\* In every history that a provider may be sent, before and after a restart,
\* calls are followed at once by their results; a call is told of once; and an
\* answer comes after the results of the calls that it was given under, so
\* that no request is refused for it.  A compaction ends after an exchange.
ExchangesAreWhole ==
  /\ \A h \in {conversation.history, stored.history \o RecoveredInput(stored)} :
       /\ \A i \in DOMAIN h : h[i].kind = "calls" =>
            i < Len(h) /\ h[i+1].kind = "results" /\ DOMAIN h[i+1].calls = DOMAIN h[i].calls
       /\ \A i, k \in Exchanges(h) : i # k => DOMAIN h[i].calls \cap DOMAIN h[k].calls = {}
       /\ \A i \in DOMAIN h : h[i].kind = "answer" =>
            \A k \in Exchanges(h) : DOMAIN h[k].calls \cap heard[h[i].item] # {} => k < i
  /\ stored.through \in {0} \cup Ends(stored.history)
  /\ conversation.through \in {0} \cup Ends(conversation.history)
=============================================================================
