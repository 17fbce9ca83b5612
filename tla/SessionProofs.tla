---------------------------- MODULE SessionProofs ----------------------------
(***************************************************************************)
(* Proofs about what is on disk: SessionLog, one session's snapshot and    *)
(* the process that owns it, and SessionGenerations, the database files    *)
(* that hold all of them.  The first part is about any prompts, questions  *)
(* and calls and any number of lives and failed records: effects,          *)
(* exchanges and inputs survive all crashes.  The second is about any      *)
(* processes, sessions and families: conversations stay together, and the  *)
(* generations implement DurableSessions.                                  *)
(***************************************************************************)
EXTENDS SessionLog, SessionGenerations, SequenceTheorems, FiniteSetTheorems, WellFoundedInduction, TLAPS

-----------------------------------------------------------------------------
(* SessionLog: the invariant.  SafeInv, about the operations and the       *)
(* processes, holds on its own; the queues and the conversation need it,   *)
(* the exchanges need both, and the inputs need all of these.              *)

Tables(S) == UNION {[C -> S] : C \in SUBSET Calls}
OpStates == {"queued", "intended", "refused", "done"}
JobStates == OpStates \cup {"never", "ran", "uncertain"}
Tellings == {"asked", "not executed", "uncertain", "refused", "done"}
LogMessages ==
  {Text, Input("evidence", NoItem)}
    \cup {Input("prompt", p) : p \in Prompts} \cup {Input("answer", q) : q \in Questions}
    \cup [kind : {"calls", "results"}, item : {NoItem}, calls : Tables(Tellings)]
Snapshots ==
  [history : Seq(LogMessages), pending : Tables(OpStates), deferred : Seq(LogMessages),
   queued : Seq(Prompts), through : Nat, generation : Nat,
   processes : [Starters -> {"none", "running", "ended", "unknown"}],
   evidence : SUBSET Starters]
Conversations ==
  [history : Seq(LogMessages), deferred : Seq(LogMessages), through : Nat, generation : Nat]

LogTypes ==
  /\ stored \in Snapshots /\ conversation \in Conversations
  /\ persistence \in {"Ready", "Failed"} /\ life \in {"up", "down"} /\ lives \in Nat
  /\ phase \in {"idle", "asks", "tools", "stopping", "recorded", "ended"}
  /\ turn \in Prompts \cup {NoItem} /\ outcome \in {"None", "Completed", "Stopped"}
  /\ queue \in Seq(Prompts) /\ batch \in Tables(JobStates)
  /\ plan \in Nat /\ texts \in Nat /\ failures \in Nat
  /\ used \subseteq Prompts \cup Calls /\ live \subseteq Starters /\ ran \subseteq Calls
  /\ accepted \in Seq(Prompts \cup Questions) /\ heard \in [Questions -> SUBSET Calls]
  /\ excused \subseteq Prompts \cup {NoItem}

\* The calls that a history tells of, its answers, and whose messages it has.
Mentioned(h) == UNION {DOMAIN h[i].calls : i \in Exchanges(h)}
AnswersOf(h) == {h[i].item : i \in {k \in DOMAIN h : h[k].kind = "answer"}}
ItemsOf(h) == {h[i].item : i \in DOMAIN h}

\* What the snapshot says of a job at each of its steps.
Steps == {<<"queued", "queued">>, <<"refused", "refused">>, <<"intended", "intended">>,
          <<"ran", "intended">>, <<"done", "done">>, <<"uncertain", "queued">>,
          <<"uncertain", "intended">>}

\* The batch on disk is the one at work, step by step, unless it was never
\* started; a batch without one was recorded by a failed process only.
BatchInv ==
  /\ life = "down" => phase = "idle"
  /\ phase = "tools" => batch # NoCalls
  /\ batch # NoCalls => phase \in {"tools", "stopping"} /\ DOMAIN stored.pending \subseteq DOMAIN batch
  /\ phase = "asks" => stored.pending = NoCalls
  /\ life = "up" /\ persistence = "Ready" /\ batch = NoCalls => stored.pending = NoCalls
  /\ \A c \in DOMAIN batch :
       IF batch[c] = "never"
       THEN persistence = "Failed" /\ (c \in DOMAIN stored.pending => stored.pending[c] = "queued")
       ELSE c \in DOMAIN stored.pending /\ <<batch[c], stored.pending[c]>> \in Steps

\* A call is in one place: with the operations or in the history.  One that
\* took effect is recorded as intended or done.
EffectsInv ==
  /\ ran \cup DOMAIN stored.pending \cup DOMAIN batch \subseteq used
  /\ Mentioned(stored.history) \cup Mentioned(conversation.history) \subseteq used
  /\ DOMAIN stored.pending \cap Mentioned(stored.history) = {}
  /\ DOMAIN batch \cap (Mentioned(stored.history) \cup Mentioned(conversation.history)) = {}
  /\ \A c \in DOMAIN batch : batch[c] = "never" => c \notin ran
  /\ \A c \in ran :
       /\ c \in DOMAIN stored.pending \/ c \in Mentioned(stored.history)
       /\ c \in DOMAIN stored.pending => stored.pending[c] \in {"intended", "done"}
       /\ TellsOf(c, stored.history) \cup TellsOf(c, conversation.history) \subseteq {"uncertain", "done"}

\* Only answers wait for the batch.
OnlyAnswers(h) == \A i \in DOMAIN h : h[i].kind = "answer"
DeferredInv == OnlyAnswers(stored.deferred) /\ OnlyAnswers(conversation.deferred)

\* A process that is said to run, or whose start is not recorded yet, runs.
ProcessInv ==
  life = "up" /\ persistence = "Ready" => \A c \in Starters :
    /\ stored.processes[c] = "running" => c \in live
    /\ c \in DOMAIN batch /\ batch[c] = "ran" => c \in live \/ stored.processes[c] = "ended"

\* The process has what is on disk, and each prompt once.
Distinctly(q) == \A i, k \in DOMAIN q : q[i] = q[k] => i = k
QueueInv ==
  /\ life = "down" => queue = <<>> /\ turn = NoItem
  /\ phase \in {"idle", "ended"} => turn = NoItem
  /\ phase = "idle" => queue = <<>>
  /\ Distinctly(queue) /\ turn \notin ToSet(queue)
  /\ ToSet(queue) \cup ({turn} \ {NoItem}) \subseteq used
Matches(c, s) ==
  c.history = s.history /\ c.deferred = s.deferred /\ c.through = s.through /\ c.generation = s.generation
StoredInv ==
  /\ QueueInv
  /\ life = "up" /\ persistence = "Ready" =>
       Matches(conversation, stored) /\ queue = stored.queued /\ DOMAIN batch = DOMAIN stored.pending

\* Exchanges are whole, told once, and before the answers given under them: `w'
\* has the calls at work when a question was answered.
Followed(h) ==
  \A i \in DOMAIN h : h[i].kind = "calls" =>
    i < Len(h) /\ h[i+1].kind = "results" /\ DOMAIN h[i+1].calls = DOMAIN h[i].calls
ToldOnce(h) == \A i, k \in Exchanges(h) : i # k => DOMAIN h[i].calls \cap DOMAIN h[k].calls = {}
AnswersAreLate(h, w) ==
  \A i \in DOMAIN h : h[i].kind = "answer" =>
    \A k \in Exchanges(h) : DOMAIN h[k].calls \cap w[h[i].item] # {} => k < i
IsWhole(h) == Followed(h) /\ ToldOnce(h)
WholeInv ==
  /\ IsWhole(stored.history) /\ AnswersAreLate(stored.history, heard)
  /\ IsWhole(conversation.history) /\ AnswersAreLate(conversation.history, heard)
  /\ \A q \in Questions : heard[q] \subseteq used
  /\ \A q \in AnswersOf(stored.history) : heard[q] \cap (DOMAIN stored.pending \cup DOMAIN batch) = {}
  /\ \A q \in AnswersOf(conversation.history) : heard[q] \cap DOMAIN batch = {}

\* A compaction ends after an exchange, or after a message of the model.
MemoryInv ==
  /\ stored.through \in {0} \cup Ends(stored.history)
  /\ conversation.through \in {0} \cup Ends(conversation.history)
  /\ plan \in {0} \cup Ends(conversation.history)
  /\ life = "down" => plan = 0

\* Each input is in one place, once.
OneItem(h) == \A i, k \in DOMAIN h : h[i].item = h[k].item /\ h[i].item # NoItem => i = k
OnceInv ==
  /\ Distinctly(accepted)
  /\ Prompts \cap (ToSet(accepted) \cup ItemsOf(stored.history) \cup ToSet(stored.queued)) \subseteq used
  /\ OneItem(stored.history) /\ Distinctly(stored.queued) /\ OneItem(stored.deferred)
  /\ (ToSet(stored.queued) \cup ToSet(queue)) \cap ItemsOf(stored.history) = {}
  /\ ItemsOf(stored.deferred) \cap ItemsOf(stored.history) = {}

\* An input that was accepted is on disk; the process has its prompt in turn.
KeptPrompts == (Prompts \cap ToSet(accepted)) \ excused
HeldInv ==
  /\ stored.pending = NoCalls => stored.deferred = <<>>
  /\ KeptPrompts \subseteq ItemsOf(stored.history) \cup ToSet(stored.queued)
  /\ life = "up" => KeptPrompts \cap ToSet(stored.queued) \subseteq ToSet(queue) \cup {turn}
  /\ Questions \cap ToSet(accepted) \subseteq ItemsOf(stored.history) \cup ItemsOf(stored.deferred)

\* Inputs are in the order of their acceptance: `acc' has them as accepted.
Earlier(acc, x, y) == \E k, l \in DOMAIN acc : k < l /\ acc[k] = x /\ acc[l] = y
InOrder(acc, h, S) ==
  \A i, k \in DOMAIN h : h[i].item \in S /\ h[k].item \in S /\ Earlier(acc, h[i].item, h[k].item) => i < k
SameOrder(acc, q, S) ==
  \A i, k \in DOMAIN q : q[i] \in S /\ q[k] \in S /\ Earlier(acc, q[i], q[k]) => i < k
NoneEarlier(acc, X, Y) == \A x \in X, y \in Y : ~Earlier(acc, x, y)
OrderInv ==
  /\ InOrder(accepted, stored.history, KeptPrompts)
  /\ SameOrder(accepted, stored.queued, KeptPrompts) /\ SameOrder(accepted, queue, KeptPrompts)
  /\ NoneEarlier(accepted, KeptPrompts \cap ToSet(stored.queued), KeptPrompts \cap ItemsOf(stored.history))
  /\ InOrder(accepted, stored.history, Questions) /\ InOrder(accepted, stored.deferred, Questions)
  /\ NoneEarlier(accepted, ItemsOf(stored.deferred), Questions \cap ItemsOf(stored.history))

-----------------------------------------------------------------------------
(* Histories, piece by piece                                               *)

\* The positions of two sequences, one after the other.
LEMMA Joins ==
  ASSUME NEW M, NEW a \in Seq(M), NEW b \in Seq(M)
  PROVE  /\ a \o b \in Seq(M) /\ Len(a) \in Nat /\ Len(a \o b) = Len(a) + Len(b)
         /\ \A i \in DOMAIN a : i \in DOMAIN (a \o b) /\ (a \o b)[i] = a[i] /\ i \in Nat /\ i <= Len(a)
         /\ \A i \in DOMAIN b : /\ Len(a) + i \in DOMAIN (a \o b) /\ (a \o b)[Len(a) + i] = b[i]
                                /\ i \in Nat /\ i > 0
         /\ \A i \in DOMAIN (a \o b) : i \in DOMAIN a \/ \E k \in DOMAIN b : i = Len(a) + k
<1>1. /\ Len(a) \in Nat /\ Len(b) \in Nat
      /\ DOMAIN a = 1..Len(a) /\ DOMAIN b = 1..Len(b)
  BY LenProperties
<1>2. /\ a \o b \in Seq(M) /\ Len(a \o b) = Len(a) + Len(b)
      /\ \A i \in 1..(Len(a) + Len(b)) :
           (a \o b)[i] = IF i <= Len(a) THEN a[i] ELSE b[i - Len(a)]
  BY ConcatProperties
<1>3. DOMAIN (a \o b) = 1..(Len(a) + Len(b))
  BY <1>2, LenProperties
<1>4. ASSUME NEW i \in DOMAIN a
      PROVE  i \in DOMAIN (a \o b) /\ (a \o b)[i] = a[i] /\ i \in Nat /\ i <= Len(a)
  BY <1>1, <1>2, <1>3
<1>5. ASSUME NEW i \in DOMAIN b
      PROVE  Len(a) + i \in DOMAIN (a \o b) /\ (a \o b)[Len(a) + i] = b[i] /\ i \in Nat /\ i > 0
  <2>1. /\ Len(a) + i \in 1..(Len(a) + Len(b)) /\ ~(Len(a) + i <= Len(a))
        /\ (Len(a) + i) - Len(a) = i
    BY <1>1
  <2> QED BY <1>1, <1>2, <1>3, <2>1
<1>6. ASSUME NEW i \in DOMAIN (a \o b)
      PROVE  i \in DOMAIN a \/ \E k \in DOMAIN b : i = Len(a) + k
  <2>1. CASE i <= Len(a)
    BY <1>1, <1>3, <2>1
  <2>2. CASE ~(i <= Len(a))
    <3>1. i - Len(a) \in DOMAIN b /\ i = Len(a) + (i - Len(a))
      BY <1>1, <1>3, <2>2
    <3> QED BY <3>1
  <2> QED BY <2>1, <2>2
<1> QED BY <1>1, <1>2, <1>4, <1>5, <1>6

\* What a history has, piece by piece.
LEMMA JoinedSets ==
  ASSUME NEW M, NEW a \in Seq(M), NEW b \in Seq(M)
  PROVE  /\ ToSet(a \o b) = ToSet(a) \cup ToSet(b)
         /\ ItemsOf(a \o b) = ItemsOf(a) \cup ItemsOf(b)
         /\ AnswersOf(a \o b) = AnswersOf(a) \cup AnswersOf(b)
         /\ Mentioned(a \o b) = Mentioned(a) \cup Mentioned(b)
         /\ \A c : TellsOf(c, a \o b) = TellsOf(c, a) \cup TellsOf(c, b)
         /\ Ends(a) \subseteq Ends(a \o b)
<1> DEFINE h == a \o b
<1>1. /\ \A i \in DOMAIN a : i \in DOMAIN h /\ h[i] = a[i]
      /\ \A i \in DOMAIN b : \E k \in DOMAIN h : h[k] = b[i]
      /\ \A i \in DOMAIN h : (i \in DOMAIN a /\ h[i] = a[i]) \/ \E k \in DOMAIN b : h[i] = b[k]
  BY Joins
<1> HIDE DEF h
<1>2. ToSet(h) = ToSet(a) \cup ToSet(b)
  BY <1>1 DEF ToSet
<1>3. ItemsOf(h) = ItemsOf(a) \cup ItemsOf(b)
  BY <1>1 DEF ItemsOf
<1>4. AnswersOf(h) = AnswersOf(a) \cup AnswersOf(b)
  BY <1>1 DEF AnswersOf
<1>5. Mentioned(h) = Mentioned(a) \cup Mentioned(b)
  BY <1>1 DEF Mentioned, Exchanges
<1>6. ASSUME NEW c PROVE TellsOf(c, h) = TellsOf(c, a) \cup TellsOf(c, b)
  BY <1>1 DEF TellsOf, Exchanges
<1>7. Ends(a) \subseteq Ends(h)
  BY <1>1 DEF Ends
<1> QED BY <1>2, <1>3, <1>4, <1>5, <1>6, <1>7 DEF h

\* Two whole pieces make a whole, if the second tells of other calls.
LEMMA JoinedWholes ==
  ASSUME NEW a \in Seq(LogMessages), NEW b \in Seq(LogMessages), IsWhole(a), IsWhole(b),
         Mentioned(a) \cap Mentioned(b) = {}
  PROVE  IsWhole(a \o b)
<1> DEFINE h == a \o b
           n == Len(a)
<1>1. /\ n \in Nat /\ Len(h) = n + Len(b) /\ Len(b) \in Nat
      /\ \A i \in DOMAIN a : i \in DOMAIN h /\ h[i] = a[i] /\ i \in Nat /\ i <= n
      /\ \A i \in DOMAIN b : /\ n + i \in DOMAIN h /\ h[n + i] = b[i]
                             /\ i \in Nat /\ i > 0 /\ i <= Len(b)
      /\ \A i \in DOMAIN h : i \in DOMAIN a \/ \E k \in DOMAIN b : i = n + k
  BY Joins, LenProperties
<1>2. /\ \A i \in Nat : i > 0 /\ i < n => i + 1 \in DOMAIN a
      /\ \A i \in Nat : i > 0 /\ i < Len(b) => i + 1 \in DOMAIN b
  BY <1>1, LenProperties
<1>3. \A i \in DOMAIN a : i > 0
  BY LenProperties
<1> HIDE DEF h, n
<1>4. /\ \A k \in Exchanges(a) : DOMAIN a[k].calls \subseteq Mentioned(a)
      /\ \A k \in Exchanges(b) : DOMAIN b[k].calls \subseteq Mentioned(b)
  BY DEF Mentioned
<1>5. Followed(h)
  <2>1. SUFFICES ASSUME NEW i \in DOMAIN h, h[i].kind = "calls"
                 PROVE  i < Len(h) /\ h[i+1].kind = "results" /\ DOMAIN h[i+1].calls = DOMAIN h[i].calls
    BY DEF Followed
  <2>2. CASE i \in DOMAIN a
    <3>1. /\ i < Len(a) /\ a[i+1].kind = "results" /\ DOMAIN a[i+1].calls = DOMAIN a[i].calls
      BY <1>1, <2>1, <2>2 DEF IsWhole, Followed
    <3>2. i + 1 \in DOMAIN a
      BY <1>1, <1>2, <1>3, <2>2, <3>1 DEF n
    <3>3. i < Len(h)
      BY <1>1, <2>2, <3>1 DEF n
    <3> QED BY <1>1, <2>2, <3>1, <3>2, <3>3
  <2>3. ASSUME NEW k \in DOMAIN b, i = n + k
        PROVE  i < Len(h) /\ h[i+1].kind = "results" /\ DOMAIN h[i+1].calls = DOMAIN h[i].calls
    <3>1. h[i] = b[k]
      BY <1>1, <2>3
    <3>2. /\ k < Len(b) /\ b[k+1].kind = "results" /\ DOMAIN b[k+1].calls = DOMAIN b[k].calls
      BY <2>1, <3>1 DEF IsWhole, Followed
    <3>3. k + 1 \in DOMAIN b /\ n + (k + 1) = i + 1
      BY <1>1, <1>2, <2>3, <3>2
    <3>4. h[i + 1] = b[k + 1]
      BY <1>1, <3>3
    <3> QED BY <1>1, <2>3, <3>1, <3>2, <3>4
  <2> QED BY <1>1, <2>2, <2>3
\* An exchange of the whole is one of a piece.
<1>6. \A i \in Exchanges(h) :
        \/ i \in Exchanges(a) /\ h[i] = a[i] /\ i \in Nat /\ i <= n
        \/ \E k \in Exchanges(b) : i = n + k /\ h[i] = b[k] /\ k \in Nat /\ k > 0
  BY <1>1 DEF Exchanges
<1>7. ToldOnce(h)
  <2>1. SUFFICES ASSUME NEW i \in Exchanges(h), NEW k \in Exchanges(h), i # k
                 PROVE  DOMAIN h[i].calls \cap DOMAIN h[k].calls = {}
    BY DEF ToldOnce
  <2>2. CASE i \in Exchanges(a) /\ h[i] = a[i] /\ k \in Exchanges(a) /\ h[k] = a[k]
    BY <2>1, <2>2 DEF IsWhole, ToldOnce
  <2>3. ASSUME NEW j \in Exchanges(b), NEW l \in Exchanges(b), i = n + j, h[i] = b[j], k = n + l, h[k] = b[l]
        PROVE  DOMAIN h[i].calls \cap DOMAIN h[k].calls = {}
    BY <2>1, <2>3 DEF IsWhole, ToldOnce
  <2> QED BY <1>4, <1>6, <2>1, <2>2, <2>3
<1> QED BY <1>5, <1>7 DEF IsWhole, h

\* Two pieces have their answers late, if those of the first are to no call that
\* the second tells of.
LEMMA JoinedLate ==
  ASSUME NEW a \in Seq(LogMessages), NEW b \in Seq(LogMessages), NEW w,
         AnswersAreLate(a, w), AnswersAreLate(b, w), \A q \in AnswersOf(a) : w[q] \cap Mentioned(b) = {}
  PROVE  AnswersAreLate(a \o b, w)
<1> DEFINE h == a \o b
           n == Len(a)
<1>1. /\ n \in Nat
      /\ \A i \in DOMAIN a : i \in DOMAIN h /\ h[i] = a[i] /\ i \in Nat /\ i <= n
      /\ \A i \in DOMAIN b : n + i \in DOMAIN h /\ h[n + i] = b[i] /\ i \in Nat /\ i > 0
      /\ \A i \in DOMAIN h : i \in DOMAIN a \/ \E k \in DOMAIN b : i = n + k
  BY Joins
<1> HIDE DEF h, n
<1>4. \A k \in Exchanges(b) : DOMAIN b[k].calls \subseteq Mentioned(b)
  BY DEF Mentioned
<1>6. \A i \in Exchanges(h) :
        \/ i \in Exchanges(a) /\ h[i] = a[i] /\ i \in Nat /\ i <= n
        \/ \E k \in Exchanges(b) : i = n + k /\ h[i] = b[k] /\ k \in Nat /\ k > 0
  BY <1>1 DEF Exchanges
<1>8. AnswersAreLate(h, w)
  <2>1. SUFFICES ASSUME NEW i \in DOMAIN h, h[i].kind = "answer", NEW k \in Exchanges(h),
                        DOMAIN h[k].calls \cap w[h[i].item] # {}
                 PROVE  k < i
    BY DEF AnswersAreLate
  <2>2. CASE i \in DOMAIN a
    <3>1. a[i].item \in AnswersOf(a) /\ h[i] = a[i]
      BY <1>1, <2>1, <2>2 DEF AnswersOf
    <3>2. k \in Exchanges(a) /\ h[k] = a[k]
      BY <1>4, <1>6, <2>1, <3>1
    <3> QED BY <2>1, <2>2, <3>1, <3>2 DEF AnswersAreLate
  <2>3. ASSUME NEW j \in DOMAIN b, i = n + j PROVE k < i
    <3>1. h[i] = b[j] /\ j \in Nat /\ j > 0
      BY <1>1, <2>3
    <3>2. CASE k \in Exchanges(a) /\ k \in Nat /\ k <= n
      BY <1>1, <2>3, <3>1, <3>2
    <3>3. ASSUME NEW l \in Exchanges(b), k = n + l, h[k] = b[l], l \in Nat PROVE k < i
      <4>1. l < j
        BY <2>1, <3>1, <3>3 DEF AnswersAreLate
      <4> QED BY <1>1, <2>3, <3>1, <3>3, <4>1
    <3> QED BY <1>6, <2>1, <3>2, <3>3
  <2> QED BY <1>1, <2>2, <2>3
<1> QED BY <1>8 DEF h

\* So has a piece without answers, or one that tells of no call.
LEMMA NoneLate ==
  ASSUME NEW h, AnswersOf(h) = {} \/ Mentioned(h) = {}, NEW w
  PROVE  AnswersAreLate(h, w)
BY DEF AnswersOf, Mentioned, AnswersAreLate

\* Three pieces.
LEMMA JoinedSetsOfThree ==
  ASSUME NEW M, NEW a \in Seq(M), NEW b \in Seq(M), NEW d \in Seq(M)
  PROVE  /\ (a \o b) \o d \in Seq(M)
         /\ ToSet((a \o b) \o d) = (ToSet(a) \cup ToSet(b)) \cup ToSet(d)
         /\ ItemsOf((a \o b) \o d) = (ItemsOf(a) \cup ItemsOf(b)) \cup ItemsOf(d)
         /\ AnswersOf((a \o b) \o d) = (AnswersOf(a) \cup AnswersOf(b)) \cup AnswersOf(d)
         /\ Mentioned((a \o b) \o d) = (Mentioned(a) \cup Mentioned(b)) \cup Mentioned(d)
         /\ \A c : TellsOf(c, (a \o b) \o d) = (TellsOf(c, a) \cup TellsOf(c, b)) \cup TellsOf(c, d)
         /\ Ends(a) \subseteq Ends((a \o b) \o d)
<1> DEFINE e == a \o b
           h == e \o d
<1>1. e \in Seq(M) /\ h \in Seq(M)
  <2>1. e \in Seq(M)
    BY ConcatProperties
  <2> HIDE DEF e
  <2> QED BY <2>1, ConcatProperties
<1>2. /\ ToSet(e) = ToSet(a) \cup ToSet(b)
      /\ ItemsOf(e) = ItemsOf(a) \cup ItemsOf(b)
      /\ AnswersOf(e) = AnswersOf(a) \cup AnswersOf(b)
      /\ Mentioned(e) = Mentioned(a) \cup Mentioned(b)
      /\ \A c : TellsOf(c, e) = TellsOf(c, a) \cup TellsOf(c, b)
      /\ Ends(a) \subseteq Ends(e)
  BY JoinedSets
<1> HIDE DEF e
<1>3. /\ ToSet(h) = ToSet(e) \cup ToSet(d)
      /\ ItemsOf(h) = ItemsOf(e) \cup ItemsOf(d)
      /\ AnswersOf(h) = AnswersOf(e) \cup AnswersOf(d)
      /\ Mentioned(h) = Mentioned(e) \cup Mentioned(d)
      /\ \A c : TellsOf(c, h) = TellsOf(c, e) \cup TellsOf(c, d)
      /\ Ends(e) \subseteq Ends(h)
  BY <1>1, JoinedSets
<1> HIDE DEF h
<1>4. \A c : TellsOf(c, h) = (TellsOf(c, a) \cup TellsOf(c, b)) \cup TellsOf(c, d)
  BY <1>2, <1>3
<1> QED BY <1>1, <1>2, <1>3, <1>4 DEF h, e

\* The positions of a set in their order: each has a rank of its own, and
\* each rank up to their number is taken.
LEMMA Ranks ==
  ASSUME NEW n \in Nat, NEW K \in SUBSET (1..n), NEW r \in [K -> Nat],
         \A i \in K : r[i] = Cardinality({j \in K : j <= i})
  PROVE  /\ Cardinality(K) \in Nat
         /\ \A i \in K : r[i] \in 1..Cardinality(K)
         /\ \A i, j \in K : i < j => r[i] < r[j]
         /\ \A k \in 1..Cardinality(K) : \E i \in K : r[i] = k
<1>1. IsFiniteSet(K) /\ Cardinality(K) \in Nat
  <2>1. IsFiniteSet(1..n)
    BY FS_Interval
  <2> QED BY <2>1, FS_Subset, FS_CardinalityType
<1>2. ASSUME NEW i \in K PROVE r[i] \in 1..Cardinality(K)
  <2> DEFINE L == {j \in K : j <= i}
  <2>1. IsFiniteSet(L) /\ Cardinality(L) <= Cardinality(K)
    BY <1>1, FS_Subset
  <2>2. i \in L /\ L # {}
    <3>1. i \in L
      OBVIOUS
    <3> QED BY <3>1
  <2>3. Cardinality(L) \in Nat /\ Cardinality(L) # 0
    BY <2>1, <2>2, FS_EmptySet, FS_CardinalityType
  <2> QED BY <1>1, <2>1, <2>3
<1>3. ASSUME NEW i \in K, NEW j \in K, i < j PROVE r[i] < r[j]
  <2> DEFINE L == {l \in K : l <= i}
             U == {l \in K : l <= j}
  <2>1. IsFiniteSet(U)
    BY <1>1, FS_Subset
  <2>2. L \subseteq U /\ j \in U /\ j \notin L
    <3>1. K \subseteq Nat
      OBVIOUS
    <3>2. \A l \in K : l <= i => l <= j
      BY <1>3, <3>1
    <3>3. j \in U /\ ~(j <= i)
      BY <1>3, <3>1
    <3> QED BY <3>2, <3>3
  <2>3. Cardinality(L) <= Cardinality(U) /\ Cardinality(L) # Cardinality(U)
    BY <2>1, <2>2, FS_Subset
  <2>4. r[i] = Cardinality(L) /\ r[j] = Cardinality(U)
    OBVIOUS
  <2> QED BY <2>3, <2>4
<1>4. \A k \in 1..Cardinality(K) : \E i \in K : r[i] = k
  <2> DEFINE T == 1..Cardinality(K)
  <2>1. r \in [K -> T]
    BY <1>2
  <2>2. \A i, j \in K : r[i] = r[j] => i = j
    <3> SUFFICES ASSUME NEW i \in K, NEW j \in K, r[i] = r[j], i # j PROVE FALSE
      OBVIOUS
    <3>1. i < j \/ j < i
      OBVIOUS
    <3> QED BY <1>3, <3>1
  <2>3. r \in Injection(K, T)
    BY <2>1, <2>2 DEF Injection, IsInjective
  <2>4. IsFiniteSet(T) /\ Cardinality(T) = Cardinality(K)
    <3>1. Cardinality(T) = IF 1 > Cardinality(K) THEN 0 ELSE Cardinality(K) - 1 + 1
      BY <1>1, FS_Interval
    <3>2. IsFiniteSet(T)
      BY <1>1, FS_Interval
    <3> QED BY <1>1, <3>1, <3>2
  <2>5. r \in Surjection(K, T)
    BY <2>3, <2>4, FS_Injection
  <2> QED BY <2>5 DEF Surjection
<1> QED BY <1>1, <1>2, <1>3, <1>4

\* The rank of a position among those that are retained.
RankIn(q, gone, i) == Cardinality({j \in {l \in DOMAIN q : q[l] \notin gone} : j <= i})

\* How many there are.
Retained(q, gone) == Cardinality({i \in DOMAIN q : q[i] \notin gone})

\* What is retained of a queue is there in its order.
LEMMA WithoutKeeps ==
  ASSUME NEW M, NEW q \in Seq(M), NEW gone
  PROVE  /\ Without(q, gone) \in Seq(M)
         /\ DOMAIN Without(q, gone) = 1..Retained(q, gone)
         /\ \A i \in DOMAIN q : q[i] \notin gone =>
              /\ RankIn(q, gone, i) \in DOMAIN Without(q, gone)
              /\ Without(q, gone)[RankIn(q, gone, i)] = q[i]
         /\ \A k \in DOMAIN Without(q, gone) :
              \E i \in DOMAIN q : q[i] \notin gone /\ RankIn(q, gone, i) = k
         /\ \A i, j \in DOMAIN q : q[i] \notin gone /\ q[j] \notin gone /\ i < j =>
              RankIn(q, gone, i) < RankIn(q, gone, j)
<1> DEFINE K == {i \in DOMAIN q : q[i] \notin gone}
           r == [i \in K |-> Cardinality({j \in K : j <= i})]
           n == Cardinality(K)
           w == Without(q, gone)
<1>1. DOMAIN q = 1..Len(q) /\ Len(q) \in Nat /\ \A i \in DOMAIN q : q[i] \in M
  BY LenProperties
<1>2. r \in [K -> Nat]
  <2> SUFFICES ASSUME NEW i \in K PROVE Cardinality({j \in K : j <= i}) \in Nat
    OBVIOUS
  <2>1. IsFiniteSet(1..Len(q))
    BY <1>1, FS_Interval
  <2>2. {j \in K : j <= i} \in SUBSET (1..Len(q))
    BY <1>1
  <2>3. IsFiniteSet({j \in K : j <= i})
    BY <2>1, <2>2, FS_Subset
  <2> QED BY <2>3, FS_CardinalityType
<1>3. \A i \in K : r[i] = Cardinality({j \in K : j <= i}) /\ r[i] = RankIn(q, gone, i)
  BY DEF RankIn
<1>4. w = [k \in 1..n |-> q[CHOOSE i \in K : r[i] = k]]
  BY DEF Without
<1> HIDE DEF w, r
<1>5. /\ n \in Nat
      /\ \A i \in K : r[i] \in 1..n
      /\ \A i, j \in K : i < j => r[i] < r[j]
      /\ \A k \in 1..n : \E i \in K : r[i] = k
  <2> HIDE DEF K
  <2>1. K \in SUBSET (1..Len(q))
    BY <1>1 DEF K
  <2> QED BY <1>1, <1>2, <1>3, <2>1, Ranks DEF n
<1>6. K \subseteq DOMAIN q /\ \A i \in DOMAIN q : q[i] \notin gone <=> i \in K
  OBVIOUS
<1> HIDE DEF K, n
<1>7. \A i \in K, j \in K : r[i] = r[j] => i = j
  <2> SUFFICES ASSUME NEW i \in K, NEW j \in K, r[i] = r[j], i # j PROVE FALSE
    OBVIOUS
  <2>1. i \in Nat /\ j \in Nat
    BY <1>1, <1>6
  <2>2. i < j \/ j < i
    BY <2>1
  <2> QED BY <1>2, <1>5, <2>2
<1>8. ASSUME NEW k \in 1..n
      PROVE  \E i \in K : r[i] = k /\ w[k] = q[i]
  <2> DEFINE i == CHOOSE i \in K : r[i] = k
  <2>1. i \in K /\ r[i] = k
    BY <1>5
  <2>2. w[k] = q[i]
    BY <1>4
  <2> QED BY <2>1, <2>2
<1>9. DOMAIN w = 1..n
  BY <1>4
<1>10. w \in Seq(M)
  <2>1. \A k \in 1..n : w[k] \in M
    BY <1>1, <1>6, <1>8
  <2>2. w = [k \in 1..n |-> w[k]]
    BY <1>4
  <2>3. w \in [1..n -> M]
    BY <2>1, <2>2
  <2> QED BY <1>5, <2>3
<1>11. \A i \in K : r[i] \in DOMAIN w /\ w[r[i]] = q[i]
  <2> SUFFICES ASSUME NEW i \in K PROVE r[i] \in DOMAIN w /\ w[r[i]] = q[i]
    OBVIOUS
  <2>1. PICK j \in K : r[j] = r[i] /\ w[r[i]] = q[j]
    BY <1>5, <1>8
  <2>2. i = j
    BY <1>7, <2>1
  <2> QED BY <1>5, <1>9, <2>1, <2>2
<1>12. \A k \in DOMAIN w : \E i \in K : r[i] = k
  BY <1>8, <1>9
<1>13. n = Retained(q, gone)
  BY DEF n, K, Retained
<1>14. \A k \in DOMAIN w : \E i \in DOMAIN q : q[i] \notin gone /\ RankIn(q, gone, i) = k
  BY <1>3, <1>6, <1>12
<1>15. \A i \in DOMAIN q : q[i] \notin gone => RankIn(q, gone, i) \in DOMAIN w /\ w[RankIn(q, gone, i)] = q[i]
  BY <1>3, <1>6, <1>11
<1>16. \A i, j \in DOMAIN q : q[i] \notin gone /\ q[j] \notin gone /\ i < j => RankIn(q, gone, i) < RankIn(q, gone, j)
  BY <1>3, <1>5, <1>6
<1> QED BY <1>9, <1>10, <1>13, <1>14, <1>15, <1>16 DEF w

\* Its elements are those that are not gone, each once if it was there once.
LEMMA WithoutElements ==
  ASSUME NEW M, NEW q \in Seq(M), NEW gone
  PROVE  /\ ToSet(Without(q, gone)) = ToSet(q) \ gone
         /\ Distinctly(q) => Distinctly(Without(q, gone))
<1>1. /\ \A i \in DOMAIN q : q[i] \notin gone =>
           /\ RankIn(q, gone, i) \in DOMAIN Without(q, gone)
           /\ Without(q, gone)[RankIn(q, gone, i)] = q[i]
      /\ \A k \in DOMAIN Without(q, gone) :
           \E i \in DOMAIN q : q[i] \notin gone /\ RankIn(q, gone, i) = k
  BY WithoutKeeps
<1>2. ToSet(Without(q, gone)) = ToSet(q) \ gone
  BY <1>1 DEF ToSet
<1>3. ASSUME Distinctly(q) PROVE Distinctly(Without(q, gone))
  BY <1>1, <1>3 DEF Distinctly
<1> QED BY <1>2, <1>3

\* The order of a set is kept.
LEMMA WithoutOrder ==
  ASSUME NEW M, NEW q \in Seq(M), NEW gone, NEW acc, NEW S, SameOrder(acc, q, S)
  PROVE  SameOrder(acc, Without(q, gone), S)
<1> DEFINE w == Without(q, gone)
<1>1. SUFFICES ASSUME NEW k \in DOMAIN w, NEW l \in DOMAIN w, w[k] \in S, w[l] \in S, Earlier(acc, w[k], w[l])
               PROVE  k < l
  BY DEF SameOrder
<1>2. PICK i \in DOMAIN q : q[i] \notin gone /\ RankIn(q, gone, i) = k /\ w[k] = q[i]
  BY WithoutKeeps
<1>3. PICK j \in DOMAIN q : q[j] \notin gone /\ RankIn(q, gone, j) = l /\ w[l] = q[j]
  BY WithoutKeeps
<1>4. i < j
  BY <1>1, <1>2, <1>3 DEF SameOrder
<1> QED BY <1>2, <1>3, <1>4, WithoutKeeps

\* Nothing goes if nothing is there to go.
LEMMA WithoutNone ==
  ASSUME NEW M, NEW q \in Seq(M), NEW gone, ToSet(q) \cap gone = {}
  PROVE  Without(q, gone) = q
<1>1. DOMAIN q = 1..Len(q) /\ Len(q) \in Nat /\ q = [i \in 1..Len(q) |-> q[i]]
  BY LenProperties
<1>2. /\ {i \in DOMAIN q : q[i] \notin gone} = 1..Len(q)
      /\ \A i \in 1..Len(q) : q[i] \notin gone
  BY <1>1 DEF ToSet
<1>3. ASSUME NEW i \in 1..Len(q) PROVE RankIn(q, gone, i) = i
  <2>1. {j \in {l \in DOMAIN q : q[l] \notin gone} : j <= i} = 1..i
    BY <1>1, <1>2
  <2>2. Cardinality(1..i) = i
    BY FS_Interval
  <2> QED BY <2>1, <2>2 DEF RankIn
<1>4. DOMAIN Without(q, gone) = 1..Len(q) /\ \A i \in 1..Len(q) : Without(q, gone)[i] = q[i]
  <2>1. Cardinality(1..Len(q)) = Len(q)
    BY <1>1, FS_Interval
  <2> QED BY <1>1, <1>2, <1>3, <2>1, WithoutKeeps DEF Retained
<1>5. Without(q, gone) \in Seq(M)
  BY WithoutKeeps
<1>6. Without(q, gone) = [i \in 1..Len(q) |-> Without(q, gone)[i]]
  BY <1>4, <1>5, LenProperties
<1> QED BY <1>1, <1>4, <1>6

\* Nothing is left if all is to go.
LEMMA WithoutAll ==
  ASSUME NEW M, NEW q \in Seq(M)
  PROVE  Without(q, ToSet(q)) = <<>>
<1>1. {i \in DOMAIN q : q[i] \notin ToSet(q)} = {}
  BY DEF ToSet
<1>2. Cardinality({}) = 0
  BY FS_EmptySet
<1>3. DOMAIN Without(q, ToSet(q)) = 1..0 /\ Without(q, ToSet(q)) \in Seq(M)
  BY <1>1, <1>2, WithoutKeeps DEF Retained
<1>4. Len(Without(q, ToSet(q))) = 0
  BY <1>3, LenProperties
<1> QED BY <1>3, <1>4, EmptySeq

\* The first of a queue that has each of its elements once.
LEMMA WithoutHead ==
  ASSUME NEW M, NEW q \in Seq(M), q # <<>>, Distinctly(q)
  PROVE  Without(q, {Head(q)}) = Tail(q)
<1> DEFINE n == Len(q) - 1
           w == Without(q, {Head(q)})
<1>1. /\ DOMAIN q = 1..Len(q) /\ Len(q) \in Nat \ {0} /\ n \in Nat
      /\ Tail(q) \in Seq(M) /\ Len(Tail(q)) = n
      /\ \A i \in 1..n : Tail(q)[i] = q[i+1]
      /\ Head(q) = q[1]
  BY LenProperties, EmptySeq, HeadTailProperties
<1>2. /\ {i \in DOMAIN q : q[i] \notin {Head(q)}} = 2..Len(q)
      /\ \A i \in 2..Len(q) : q[i] \notin {Head(q)} /\ i \in DOMAIN q
  BY <1>1 DEF Distinctly
<1>3. ASSUME NEW i \in 2..Len(q) PROVE RankIn(q, {Head(q)}, i) = i - 1
  <2>1. {j \in {l \in DOMAIN q : q[l] \notin {Head(q)}} : j <= i} = 2..i
    BY <1>1, <1>2
  <2>2. Cardinality(2..i) = i - 1
    BY FS_Interval
  <2> QED BY <2>1, <2>2 DEF RankIn
<1>4. Cardinality(2..Len(q)) = n
  BY <1>1, FS_Interval
<1>5. DOMAIN w = 1..n /\ w \in Seq(M)
  BY <1>1, <1>2, <1>4, WithoutKeeps DEF Retained
<1>6. ASSUME NEW i \in 1..n PROVE w[i] = Tail(q)[i]
  <2>1. i + 1 \in 2..Len(q) /\ (i + 1) - 1 = i
    BY <1>1
  <2>2. RankIn(q, {Head(q)}, i + 1) = i
    BY <1>3, <2>1
  <2>3. i + 1 \in DOMAIN q /\ q[i + 1] \notin {Head(q)}
    BY <1>2, <2>1
  <2>4. w[RankIn(q, {Head(q)}, i + 1)] = q[i + 1]
    BY <2>3, WithoutKeeps
  <2> QED BY <1>1, <2>2, <2>4
<1> HIDE DEF w, n
<1>7. w = [i \in 1..n |-> w[i]] /\ Tail(q) = [i \in 1..n |-> Tail(q)[i]]
  BY <1>1, <1>5, LenProperties
<1> QED BY <1>6, <1>7 DEF w

\* A table of calls.
LEMMA TableFacts ==
  ASSUME NEW S, NEW f \in Tables(S)
  PROVE  /\ DOMAIN f \subseteq Calls /\ f \in [DOMAIN f -> S]
         /\ f = NoCalls <=> DOMAIN f = {}
<1>1. PICK C \in SUBSET Calls : f \in [C -> S]
  BY DEF Tables
<1>2. DOMAIN f = C
  BY <1>1
<1>3. f = [c \in C |-> f[c]]
  BY <1>1
<1>4. C = {} => f = NoCalls
  BY <1>3 DEF NoCalls
<1>5. DOMAIN NoCalls = {}
  BY DEF NoCalls
<1> QED BY <1>1, <1>2, <1>4, <1>5

\* A step of one call in a table.
LEMMA TableStep ==
  ASSUME NEW S, NEW f \in Tables(S), NEW c \in DOMAIN f, NEW x \in S
  PROVE  /\ [f EXCEPT ![c] = x] \in Tables(S)
         /\ DOMAIN [f EXCEPT ![c] = x] = DOMAIN f
         /\ \A d \in DOMAIN f : [f EXCEPT ![c] = x][d] = IF d = c THEN x ELSE f[d]
<1>1. DOMAIN f \in SUBSET Calls /\ f \in [DOMAIN f -> S]
  BY TableFacts
<1>2. [f EXCEPT ![c] = x] \in [DOMAIN f -> S]
  BY <1>1
<1> QED BY <1>1, <1>2 DEF Tables

\* A table of one state for each call.
LEMMA TableOf ==
  ASSUME NEW S, NEW ops \in SUBSET Calls, NEW x \in S
  PROVE  [c \in ops |-> x] \in Tables(S)
<1>1. [c \in ops |-> x] \in [ops -> S]
  OBVIOUS
<1> QED BY <1>1 DEF Tables

\* The empty table.
LEMMA NoCallsTable ==
  ASSUME NEW S
  PROVE  NoCalls \in Tables(S) /\ DOMAIN NoCalls = {}
<1>1. NoCalls \in [{} -> S]
  BY DEF NoCalls
<1> QED BY <1>1 DEF Tables

\* The messages that carry an input.
LEMMA InputTypes ==
  /\ Text \in LogMessages /\ Input("evidence", NoItem) \in LogMessages
  /\ \A p \in Prompts : Input("prompt", p) \in LogMessages
  /\ \A q \in Questions : Input("answer", q) \in LogMessages
BY DEF LogMessages

\* Their fields.
LEMMA InputFields ==
  ASSUME NEW kind, NEW item
  PROVE  /\ Input(kind, item).kind = kind /\ Input(kind, item).item = item
         /\ Input(kind, item).calls = NoCalls
         /\ Text.kind = "text" /\ Text.item = NoItem
BY DEF Input, Text, Message

\* Operations of which there is something to tell.
Tellable == JobStates \ {"ran"}

\* An exchange tells of its operations, and of nothing else.
LEMMA ExchangeFacts ==
  ASSUME NEW ops \in Tables(Tellable)
  PROVE  /\ Exchange(ops) \in Seq(LogMessages)
         /\ Mentioned(Exchange(ops)) = DOMAIN ops
         /\ \A c : TellsOf(c, Exchange(ops)) = {Told(ops[d]) : d \in DOMAIN ops \cap {c}}
         /\ AnswersOf(Exchange(ops)) = {} /\ ItemsOf(Exchange(ops)) = {NoItem}
         /\ IsWhole(Exchange(ops)) /\ Len(Exchange(ops)) = 2
<1> DEFINE asked == [c \in DOMAIN ops |-> "asked"]
           told == [c \in DOMAIN ops |-> Told(ops[c])]
           m1 == Message("calls", NoItem, asked)
           m2 == Message("results", NoItem, told)
           h == Exchange(ops)
<1>1. DOMAIN ops \in SUBSET Calls /\ ops \in [DOMAIN ops -> Tellable]
  BY TableFacts
<1>2. asked \in Tables(Tellings) /\ told \in Tables(Tellings)
  <2>1. \A c \in DOMAIN ops : Told(ops[c]) \in Tellings
    BY <1>1 DEF Told, Tellable, JobStates, OpStates, Tellings
  <2>2. told \in [DOMAIN ops -> Tellings] /\ asked \in [DOMAIN ops -> Tellings]
    BY <2>1 DEF Tellings
  <2> QED BY <1>1, <2>2 DEF Tables
<1>3. m1 \in LogMessages /\ m2 \in LogMessages
  BY <1>2 DEF Message, LogMessages
<1>4. h = <<m1, m2>>
  BY DEF Exchange
<1>5. /\ m1.kind = "calls" /\ m1.item = NoItem /\ DOMAIN m1.calls = DOMAIN ops
      /\ m2.kind = "results" /\ m2.item = NoItem /\ DOMAIN m2.calls = DOMAIN ops
      /\ \A c \in DOMAIN ops : m2.calls[c] = Told(ops[c])
  BY DEF Message
<1> HIDE DEF m1, m2, h, asked, told
<1>6. h \in Seq(LogMessages) /\ Len(h) = 2 /\ DOMAIN h = {1, 2} /\ h[1] = m1 /\ h[2] = m2
  BY <1>3, <1>4
<1>7. Exchanges(h) = {2}
  BY <1>5, <1>6 DEF Exchanges
<1>8. Mentioned(h) = DOMAIN ops
  BY <1>5, <1>6, <1>7 DEF Mentioned
<1>9. \A c : TellsOf(c, h) = {Told(ops[d]) : d \in DOMAIN ops \cap {c}}
  BY <1>5, <1>6, <1>7 DEF TellsOf
<1>10. AnswersOf(h) = {} /\ ItemsOf(h) = {NoItem}
  BY <1>5, <1>6 DEF AnswersOf, ItemsOf
<1>11. IsWhole(h)
  BY <1>5, <1>6, <1>7 DEF IsWhole, Followed, ToldOnce
<1> QED BY <1>6, <1>8, <1>9, <1>10, <1>11 DEF h

\* A message that is an input or a text of the model.
LEMMA InputAlone ==
  ASSUME NEW m \in LogMessages, m.kind \notin {"calls", "results"}
  PROVE  /\ <<m>> \in Seq(LogMessages) /\ Len(<<m>>) = 1
         /\ Mentioned(<<m>>) = {} /\ IsWhole(<<m>>) /\ \A c : TellsOf(c, <<m>>) = {}
         /\ ItemsOf(<<m>>) = {m.item}
         /\ AnswersOf(<<m>>) = IF m.kind = "answer" THEN {m.item} ELSE {}
<1> DEFINE h == <<m>>
<1>1. h \in Seq(LogMessages) /\ Len(h) = 1 /\ DOMAIN h = {1} /\ h[1] = m
  OBVIOUS
<1> HIDE DEF h
<1>2. Exchanges(h) = {}
  BY <1>1 DEF Exchanges
<1>3. Mentioned(h) = {} /\ \A c : TellsOf(c, h) = {}
  BY <1>2 DEF Mentioned, TellsOf
<1>4. IsWhole(h)
  BY <1>1, <1>2 DEF IsWhole, Followed, ToldOnce
<1>5. ItemsOf(h) = {m.item} /\ AnswersOf(h) = IF m.kind = "answer" THEN {m.item} ELSE {}
  BY <1>1 DEF ItemsOf, AnswersOf
<1> QED BY <1>1, <1>3, <1>4, <1>5 DEF h

\* Nothing is said yet.
LEMMA NothingSaid ==
  /\ Mentioned(<<>>) = {} /\ \A c : TellsOf(c, <<>>) = {}
  /\ ItemsOf(<<>>) = {} /\ AnswersOf(<<>>) = {} /\ IsWhole(<<>>) /\ ToSet(<<>>) = {}
BY DEF Mentioned, TellsOf, Exchanges, ItemsOf, AnswersOf, IsWhole, Followed, ToldOnce, ToSet

\* Inputs and texts tell of no call.
LEMMA InputsOnly ==
  ASSUME NEW h \in Seq(LogMessages), \A i \in DOMAIN h : h[i].kind \notin {"calls", "results"}
  PROVE  Mentioned(h) = {} /\ IsWhole(h) /\ \A c : TellsOf(c, h) = {}
<1>1. Exchanges(h) = {}
  BY DEF Exchanges
<1>2. Mentioned(h) = {} /\ \A c : TellsOf(c, h) = {}
  BY <1>1 DEF Mentioned, TellsOf
<1>3. IsWhole(h)
  BY <1>1 DEF IsWhole, Followed, ToldOnce
<1> QED BY <1>2, <1>3

-----------------------------------------------------------------------------
(* The snapshot after each event                                           *)

\* What an event may leave alone.
SameMemory(s, n) == n.through = s.through /\ n.generation = s.generation
SameProcesses(s, n) == n.processes = s.processes /\ n.evidence = s.evidence

\* An answer is said, or deferred while a batch is pending.
LEMMA AnsweredFields ==
  ASSUME NEW s \in Snapshots, NEW q \in Questions, NEW n, n = Answered(s, q)
  PROVE  /\ n \in Snapshots /\ n.pending = s.pending /\ n.queued = s.queued
         /\ SameMemory(s, n) /\ SameProcesses(s, n)
         /\ s.pending = NoCalls => n.deferred = s.deferred /\ n.history = s.history \o <<Input("answer", q)>>
         /\ s.pending # NoCalls => n.history = s.history /\ n.deferred = s.deferred \o <<Input("answer", q)>>
<1> DEFINE m == Input("answer", q)
<1>1. m \in LogMessages
  BY InputTypes
<1> HIDE DEF m
<1>2. s.history \in Seq(LogMessages) /\ s.deferred \in Seq(LogMessages)
  BY DEF Snapshots
<1>3. /\ Append(s.history, m) = s.history \o <<m>> /\ Append(s.history, m) \in Seq(LogMessages)
      /\ Append(s.deferred, m) = s.deferred \o <<m>> /\ Append(s.deferred, m) \in Seq(LogMessages)
  BY <1>1, <1>2, AppendIsConcat, AppendProperties
<1>4. n = IF Pending(s) THEN [s EXCEPT !.deferred = Append(@, m)] ELSE [s EXCEPT !.history = Append(@, m)]
  BY DEF Answered, m
<1>5. n \in Snapshots
  <2>1. CASE Pending(s)
    <3>1. n = [s EXCEPT !.deferred = s.deferred \o <<m>>]
      BY <1>3, <1>4, <2>1
    <3> QED BY <1>3, <3>1 DEF Snapshots
  <2>2. CASE ~Pending(s)
    <3>1. n = [s EXCEPT !.history = s.history \o <<m>>]
      BY <1>3, <1>4, <2>2
    <3> QED BY <1>3, <3>1 DEF Snapshots
  <2> QED BY <2>1, <2>2
<1>6. /\ n.pending = s.pending /\ n.queued = s.queued /\ SameMemory(s, n) /\ SameProcesses(s, n)
      /\ s.pending = NoCalls => n.deferred = s.deferred /\ n.history = s.history \o <<m>>
      /\ s.pending # NoCalls => n.history = s.history /\ n.deferred = s.deferred \o <<m>>
  BY <1>3, <1>4 DEF Snapshots, Pending, SameMemory, SameProcesses
<1> QED BY <1>5, <1>6 DEF m

\* A prompt is queued.
LEMMA QueuedFields ==
  ASSUME NEW s \in Snapshots, NEW p \in Prompts, NEW n, n = Queued(s, p)
  PROVE  /\ n \in Snapshots /\ n.pending = s.pending /\ n.history = s.history /\ n.deferred = s.deferred
         /\ SameMemory(s, n) /\ SameProcesses(s, n)
         /\ n.queued = s.queued \o <<p>>
<1>1. Append(s.queued, p) = s.queued \o <<p>> /\ Append(s.queued, p) \in Seq(Prompts)
  BY AppendIsConcat, AppendProperties DEF Snapshots
<1> QED BY <1>1 DEF Queued, Snapshots, SameMemory, SameProcesses

\* Prompts leave the queue.
LEMMA UnqueuedFields ==
  ASSUME NEW s \in Snapshots, NEW turns, NEW n, n = Unqueued(s, turns)
  PROVE  /\ n \in Snapshots /\ n.pending = s.pending /\ n.history = s.history /\ n.deferred = s.deferred
         /\ SameMemory(s, n) /\ SameProcesses(s, n)
         /\ n.queued = Without(s.queued, turns)
<1>1. s.queued \in Seq(Prompts)
  BY DEF Snapshots
<1>2. Without(s.queued, turns) \in Seq(Prompts)
  BY <1>1, WithoutKeeps
<1> QED BY <1>2 DEF Unqueued, Snapshots, SameMemory, SameProcesses

\* A turn begins with its prompt.
LEMMA BeganFields ==
  ASSUME NEW s \in Snapshots, NEW p \in Prompts, NEW n, n = Began(s, p)
  PROVE  /\ n \in Snapshots /\ n.pending = s.pending /\ n.deferred = s.deferred
         /\ SameMemory(s, n) /\ SameProcesses(s, n)
         /\ n.queued = Without(s.queued, {p})
         /\ n.history = s.history \o <<Input("prompt", p)>>
<1> DEFINE m == Input("prompt", p)
           u == Unqueued(s, {p})
<1>1. m \in LogMessages
  BY InputTypes
<1>2. /\ u \in Snapshots /\ u.pending = s.pending /\ u.history = s.history /\ u.deferred = s.deferred
      /\ SameMemory(s, u) /\ SameProcesses(s, u)
      /\ u.queued = Without(s.queued, {p})
  BY UnqueuedFields
<1>3. n = [u EXCEPT !.history = Append(@, m)]
  BY DEF Began
<1> HIDE DEF m, u
<1>4. u.history \in Seq(LogMessages)
  BY <1>2 DEF Snapshots
<1>5. Append(u.history, m) = u.history \o <<m>> /\ Append(u.history, m) \in Seq(LogMessages)
  BY <1>1, <1>4, AppendIsConcat, AppendProperties
<1>6. n \in Snapshots
  BY <1>2, <1>3, <1>5 DEF Snapshots
<1>7. /\ n.pending = u.pending /\ n.deferred = u.deferred /\ n.queued = u.queued
      /\ n.through = u.through /\ n.generation = u.generation
      /\ n.processes = u.processes /\ n.evidence = u.evidence
      /\ n.history = u.history \o <<m>>
  BY <1>2, <1>3, <1>5 DEF Snapshots
<1> QED BY <1>2, <1>6, <1>7 DEF SameMemory, SameProcesses, m

\* Messages are appended, and the batch is closed.
LEMMA HistoryFields ==
  ASSUME NEW s \in Snapshots, NEW messages \in Seq(LogMessages), NEW n, n = History(s, messages)
  PROVE  /\ n \in Snapshots /\ n.queued = s.queued /\ SameMemory(s, n) /\ SameProcesses(s, n)
         /\ n.pending = NoCalls /\ n.deferred = <<>>
         /\ n.history = (s.history \o messages) \o s.deferred
<1>1. s.history \in Seq(LogMessages) /\ s.deferred \in Seq(LogMessages)
  BY DEF Snapshots
<1>2. (s.history \o messages) \o s.deferred \in Seq(LogMessages)
  BY <1>1, ConcatProperties
<1>3. NoCalls \in Tables(OpStates) /\ <<>> \in Seq(LogMessages)
  BY NoCallsTable
<1>4. n = [s EXCEPT !.history = (@ \o messages) \o s.deferred, !.deferred = <<>>, !.pending = NoCalls]
  BY DEF History
<1>5. n \in Snapshots
  BY <1>2, <1>3, <1>4 DEF Snapshots
<1>6. /\ n.queued = s.queued /\ SameMemory(s, n) /\ SameProcesses(s, n)
      /\ n.pending = NoCalls /\ n.deferred = <<>>
      /\ n.history = (s.history \o messages) \o s.deferred
  BY <1>4 DEF Snapshots, SameMemory, SameProcesses
<1> QED BY <1>5, <1>6

\* A batch is prepared.
LEMMA PreparedFields ==
  ASSUME NEW s \in Snapshots, NEW ops \in Tables(OpStates), NEW n, n = Prepared(s, ops)
  PROVE  /\ n \in Snapshots /\ n.history = s.history /\ n.deferred = s.deferred /\ n.queued = s.queued
         /\ SameMemory(s, n) /\ SameProcesses(s, n) /\ n.pending = ops
BY DEF Prepared, Snapshots, SameMemory, SameProcesses

\* An operation takes a step.
LEMMA OpAsFields ==
  ASSUME NEW s \in Snapshots, NEW c \in DOMAIN s.pending, NEW x \in OpStates, NEW n, n = OpAs(s, c, x)
  PROVE  /\ n \in Snapshots /\ n.history = s.history /\ n.deferred = s.deferred /\ n.queued = s.queued
         /\ SameMemory(s, n) /\ SameProcesses(s, n)
         /\ DOMAIN n.pending = DOMAIN s.pending
         /\ \A d \in DOMAIN s.pending : n.pending[d] = IF d = c THEN x ELSE s.pending[d]
<1> DEFINE f == [s.pending EXCEPT ![c] = x]
<1>1. s.pending \in Tables(OpStates)
  BY DEF Snapshots
<1>2. /\ f \in Tables(OpStates) /\ DOMAIN f = DOMAIN s.pending
      /\ \A d \in DOMAIN s.pending : f[d] = IF d = c THEN x ELSE s.pending[d]
  BY <1>1, TableStep
<1>3. n = [s EXCEPT !.pending = f]
  BY DEF OpAs
<1> HIDE DEF f
<1> QED BY <1>2, <1>3 DEF Snapshots, SameMemory, SameProcesses

\* An operation is completed, which may name a managed process.
LEMMA CompletedFields ==
  ASSUME NEW s \in Snapshots, NEW c \in DOMAIN s.pending, NEW x \in OpStates,
         NEW starts \in BOOLEAN, starts => c \in Starters, NEW n, n = Completed(s, c, x, starts)
  PROVE  /\ n \in Snapshots /\ n.history = s.history /\ n.deferred = s.deferred /\ n.queued = s.queued
         /\ SameMemory(s, n) /\ n.evidence = s.evidence
         /\ DOMAIN n.pending = DOMAIN s.pending
         /\ \A d \in DOMAIN s.pending : n.pending[d] = IF d = c THEN x ELSE s.pending[d]
         /\ \A d \in Starters : n.processes[d] = IF starts /\ d = c /\ s.processes[d] = "none"
                                                 THEN "running" ELSE s.processes[d]
<1> DEFINE o == OpAs(s, c, x)
           f == IF starts /\ s.processes[c] = "none" THEN [s.processes EXCEPT ![c] = "running"] ELSE s.processes
<1>1. /\ o \in Snapshots /\ o.history = s.history /\ o.deferred = s.deferred /\ o.queued = s.queued
      /\ SameMemory(s, o) /\ SameProcesses(s, o)
      /\ DOMAIN o.pending = DOMAIN s.pending
      /\ \A d \in DOMAIN s.pending : o.pending[d] = IF d = c THEN x ELSE s.pending[d]
  BY OpAsFields
<1>2. s.processes \in [Starters -> {"none", "running", "ended", "unknown"}]
  BY DEF Snapshots
<1>3. /\ f \in [Starters -> {"none", "running", "ended", "unknown"}]
      /\ \A d \in Starters : f[d] = IF starts /\ d = c /\ s.processes[d] = "none"
                                    THEN "running" ELSE s.processes[d]
  BY <1>2
<1>4. n = [o EXCEPT !.processes = f]
  <2>1. o.processes = s.processes
    BY <1>1 DEF SameProcesses
  <2>2. n = [o EXCEPT !.processes = IF starts /\ s.processes[c] = "none" THEN [@ EXCEPT ![c] = "running"] ELSE @]
    BY DEF Completed
  <2> HIDE DEF o
  <2> QED BY <1>1, <2>1, <2>2
<1> HIDE DEF o, f
<1>5. n \in Snapshots
  BY <1>1, <1>3, <1>4 DEF Snapshots
<1>6. /\ n.history = o.history /\ n.deferred = o.deferred /\ n.queued = o.queued /\ n.pending = o.pending
      /\ n.through = o.through /\ n.generation = o.generation /\ n.evidence = o.evidence /\ n.processes = f
  BY <1>1, <1>4 DEF Snapshots
<1> QED BY <1>1, <1>3, <1>5, <1>6 DEF SameMemory, SameProcesses

\* A managed process ends.
LEMMA ProcessCompletedFields ==
  ASSUME NEW s \in Snapshots, NEW c \in Starters, NEW n, n = ProcessCompleted(s, c)
  PROVE  /\ n \in Snapshots /\ n.history = s.history /\ n.deferred = s.deferred /\ n.queued = s.queued
         /\ n.pending = s.pending /\ SameMemory(s, n)
         /\ \A d \in Starters : n.processes[d] = IF d = c THEN "ended" ELSE s.processes[d]
<1>1. n.processes = [s.processes EXCEPT ![c] = "ended"] /\ n.evidence = s.evidence \ {c}
  BY DEF ProcessCompleted, Snapshots
<1>2. n \in Snapshots
  BY DEF ProcessCompleted, Snapshots
<1>3. /\ n.history = s.history /\ n.deferred = s.deferred /\ n.queued = s.queued
      /\ n.pending = s.pending /\ SameMemory(s, n)
  BY DEF ProcessCompleted, Snapshots, SameMemory
<1> QED BY <1>1, <1>2, <1>3 DEF Snapshots

\* The memory advances.
LEMMA CompactedFields ==
  ASSUME NEW s \in Snapshots, NEW through \in Nat, NEW generation \in Nat,
         NEW n, n = Compacted(s, through, generation)
  PROVE  /\ n \in Snapshots /\ n.history = s.history /\ n.deferred = s.deferred /\ n.queued = s.queued
         /\ n.pending = s.pending /\ SameProcesses(s, n)
         /\ n.through = through /\ n.generation = generation
BY DEF Compacted, Snapshots, SameProcesses

-----------------------------------------------------------------------------
(* What a recovery adds                                                    *)

\* The prompts of the queue, one message each.
LEMMA PromptMessages ==
  ASSUME NEW q \in Seq(Prompts)
  PROVE  /\ PromptsOf(q) \in Seq(LogMessages) /\ DOMAIN PromptsOf(q) = DOMAIN q
         /\ \A i \in DOMAIN q : PromptsOf(q)[i].item = q[i] /\ PromptsOf(q)[i].kind = "prompt"
         /\ ItemsOf(PromptsOf(q)) = ToSet(q) /\ AnswersOf(PromptsOf(q)) = {}
         /\ Mentioned(PromptsOf(q)) = {} /\ IsWhole(PromptsOf(q)) /\ \A c : TellsOf(c, PromptsOf(q)) = {}
<1> DEFINE h == PromptsOf(q)
<1>1. DOMAIN q = 1..Len(q) /\ Len(q) \in Nat /\ \A i \in DOMAIN q : q[i] \in Prompts
  BY LenProperties
<1>2. DOMAIN h = DOMAIN q /\ \A i \in DOMAIN q : h[i] = Input("prompt", q[i])
  BY DEF PromptsOf
<1>3. h \in Seq(LogMessages)
  <2>1. \A i \in 1..Len(q) : Input("prompt", q[i]) \in LogMessages
    BY <1>1, InputTypes
  <2>2. h = [i \in 1..Len(q) |-> Input("prompt", q[i])]
    BY <1>1 DEF PromptsOf
  <2>3. h \in [1..Len(q) -> LogMessages]
    BY <2>1, <2>2
  <2> QED BY <1>1, <2>3
<1>4. \A i \in DOMAIN q : h[i].item = q[i] /\ h[i].kind = "prompt"
  BY <1>2, InputFields
<1> HIDE DEF h
<1>5. ItemsOf(h) = ToSet(q) /\ AnswersOf(h) = {}
  BY <1>2, <1>4 DEF ItemsOf, ToSet, AnswersOf
<1>6. Mentioned(h) = {} /\ IsWhole(h) /\ \A c : TellsOf(c, h) = {}
  BY <1>2, <1>3, <1>4, InputsOnly
<1> QED BY <1>2, <1>3, <1>4, <1>5, <1>6 DEF h

\* The saved processes, which carry no input.
LEMMA EvidenceMessages ==
  ASSUME NEW s \in Snapshots
  PROVE  /\ Evidence(s) \in Seq(LogMessages)
         /\ ItemsOf(Evidence(s)) \subseteq {NoItem} /\ AnswersOf(Evidence(s)) = {}
         /\ Mentioned(Evidence(s)) = {} /\ IsWhole(Evidence(s)) /\ \A c : TellsOf(c, Evidence(s)) = {}
<1> DEFINE new == {c \in Starters : s.processes[c] # "none" /\ c \notin s.evidence}
           h == Evidence(s)
<1>1. Cardinality(new) \in Nat
  <2>1. IsFiniteSet(new)
    BY SessionAssumption, FS_Subset
  <2> QED BY <2>1, FS_CardinalityType
<1>2. h = [i \in 1..Cardinality(new) |-> Input("evidence", NoItem)]
  BY DEF Evidence
<1> HIDE DEF new, h
<1>3. h \in Seq(LogMessages)
  <2>1. h \in [1..Cardinality(new) -> LogMessages]
    BY <1>2, InputTypes
  <2> QED BY <1>1, <2>1
<1>4. \A i \in DOMAIN h : h[i].item = NoItem /\ h[i].kind = "evidence"
  BY <1>2, InputFields
<1>5. ItemsOf(h) \subseteq {NoItem} /\ AnswersOf(h) = {}
  BY <1>4 DEF ItemsOf, AnswersOf
<1>6. Mentioned(h) = {} /\ IsWhole(h) /\ \A c : TellsOf(c, h) = {}
  BY <1>3, <1>4, InputsOnly
<1> QED BY <1>3, <1>5, <1>6 DEF h

\* The batch that no message tells of yet.
LEMMA UnansweredMessages ==
  ASSUME NEW s \in Snapshots
  PROVE  /\ Unanswered(s) \in Seq(LogMessages)
         /\ Mentioned(Unanswered(s)) = DOMAIN s.pending
         /\ \A c : TellsOf(c, Unanswered(s)) = {Told(s.pending[d]) : d \in DOMAIN s.pending \cap {c}}
         /\ AnswersOf(Unanswered(s)) = {} /\ ItemsOf(Unanswered(s)) \subseteq {NoItem}
         /\ IsWhole(Unanswered(s))
<1>1. s.pending \in Tables(OpStates)
  BY DEF Snapshots
<1>2. s.pending \in Tables(Tellable) /\ (s.pending = NoCalls <=> DOMAIN s.pending = {})
  <2>1. DOMAIN s.pending \in SUBSET Calls /\ s.pending \in [DOMAIN s.pending -> OpStates]
    BY <1>1, TableFacts
  <2>2. s.pending \in [DOMAIN s.pending -> Tellable]
    BY <2>1 DEF Tellable, JobStates, OpStates
  <2> QED BY <1>1, <2>1, <2>2, TableFacts DEF Tables
<1>3. CASE Pending(s)
  BY <1>2, <1>3, ExchangeFacts DEF Unanswered
<1>4. CASE ~Pending(s)
  <2>1. Unanswered(s) = <<>> /\ DOMAIN s.pending = {}
    BY <1>2, <1>4 DEF Unanswered, Pending
  <2> QED BY <2>1, NothingSaid
<1> QED BY <1>3, <1>4

\* What recovery says next, and what is said with it.
LEMMA RecoveredInputFacts ==
  ASSUME NEW s \in Snapshots, OnlyAnswers(s.deferred)
  PROVE  /\ RecoveredInput(s) \in Seq(LogMessages)
         /\ Mentioned(RecoveredInput(s)) = DOMAIN s.pending
         /\ \A c : TellsOf(c, RecoveredInput(s)) = {Told(s.pending[d]) : d \in DOMAIN s.pending \cap {c}}
         /\ AnswersOf(RecoveredInput(s)) = AnswersOf(s.deferred)
         /\ ItemsOf(RecoveredInput(s)) \ {NoItem} = (ItemsOf(s.deferred) \cup ToSet(s.queued)) \ {NoItem}
<1>1. s.deferred \in Seq(LogMessages) /\ s.queued \in Seq(Prompts)
  BY DEF Snapshots
<1>2. Mentioned(s.deferred) = {} /\ \A c : TellsOf(c, s.deferred) = {}
  BY <1>1, InputsOnly DEF OnlyAnswers
<1> DEFINE u == Unanswered(s)
           d == s.deferred
           p == PromptsOf(s.queued)
<1>3. /\ u \in Seq(LogMessages) /\ Mentioned(u) = DOMAIN s.pending
      /\ \A c : TellsOf(c, u) = {Told(s.pending[e]) : e \in DOMAIN s.pending \cap {c}}
      /\ AnswersOf(u) = {} /\ ItemsOf(u) \subseteq {NoItem}
  BY UnansweredMessages
<1>4. /\ p \in Seq(LogMessages) /\ Mentioned(p) = {} /\ \A c : TellsOf(c, p) = {}
      /\ AnswersOf(p) = {} /\ ItemsOf(p) = ToSet(s.queued)
  BY <1>1, PromptMessages
<1>5. d \in Seq(LogMessages) /\ Mentioned(d) = {} /\ \A c : TellsOf(c, d) = {}
  BY <1>1, <1>2
<1> HIDE DEF u, p, d
<1>6. /\ (u \o d) \o p \in Seq(LogMessages)
      /\ Mentioned((u \o d) \o p) = (Mentioned(u) \cup Mentioned(d)) \cup Mentioned(p)
      /\ \A c : TellsOf(c, (u \o d) \o p) = (TellsOf(c, u) \cup TellsOf(c, d)) \cup TellsOf(c, p)
      /\ AnswersOf((u \o d) \o p) = (AnswersOf(u) \cup AnswersOf(d)) \cup AnswersOf(p)
      /\ ItemsOf((u \o d) \o p) = (ItemsOf(u) \cup ItemsOf(d)) \cup ItemsOf(p)
  <2>1. u \in Seq(LogMessages) /\ d \in Seq(LogMessages) /\ p \in Seq(LogMessages)
    BY <1>3, <1>4, <1>5
  <2> QED BY <2>1, JoinedSetsOfThree
<1>7. RecoveredInput(s) = (u \o d) \o p
  BY DEF RecoveredInput, u, p, d
<1>8. \A c : TellsOf(c, (u \o d) \o p) = TellsOf(c, u)
  BY <1>4, <1>5, <1>6
<1>9. Mentioned((u \o d) \o p) = DOMAIN s.pending /\ AnswersOf((u \o d) \o p) = AnswersOf(d)
  BY <1>3, <1>4, <1>5, <1>6
<1>10. ItemsOf((u \o d) \o p) \ {NoItem} = (ItemsOf(d) \cup ToSet(s.queued)) \ {NoItem}
  BY <1>3, <1>4, <1>6
<1> QED BY <1>3, <1>6, <1>7, <1>8, <1>9, <1>10 DEF d

\* The session is recovered.
LEMMA RecoveredFields ==
  ASSUME NEW s \in Snapshots, NEW n, n = Recovered(s)
  PROVE  /\ n \in Snapshots /\ SameMemory(s, n)
         /\ n.history = (s.history \o Evidence(s)) \o RecoveredInput(s)
         /\ n.deferred = <<>> /\ n.pending = NoCalls /\ n.queued = <<>>
         /\ \A c \in Starters : n.processes[c] # "running"
<1> DEFINE f == [c \in Starters |-> IF s.processes[c] = "running" THEN "unknown" ELSE s.processes[c]]
           e == {c \in Starters : s.processes[c] # "none"}
           h == (s.history \o Evidence(s)) \o RecoveredInput(s)
<1>1. n = [s EXCEPT !.history = h, !.deferred = <<>>, !.pending = NoCalls, !.queued = <<>>,
                    !.processes = f, !.evidence = e]
  BY DEF Recovered
<1>2. h \in Seq(LogMessages)
  <2>1. s.history \in Seq(LogMessages) /\ s.deferred \in Seq(LogMessages) /\ s.queued \in Seq(Prompts)
    BY DEF Snapshots
  <2>2. Evidence(s) \in Seq(LogMessages) /\ Unanswered(s) \in Seq(LogMessages)
        /\ PromptsOf(s.queued) \in Seq(LogMessages)
    BY <2>1, EvidenceMessages, UnansweredMessages, PromptMessages
  <2>3. RecoveredInput(s) \in Seq(LogMessages)
    BY <2>1, <2>2, ConcatProperties DEF RecoveredInput
  <2> QED BY <2>1, <2>2, <2>3, ConcatProperties
<1>3. f \in [Starters -> {"none", "running", "ended", "unknown"}] /\ \A c \in Starters : f[c] # "running"
  BY DEF Snapshots
<1>4. e \subseteq Starters
  OBVIOUS
<1>5. NoCalls \in Tables(OpStates) /\ <<>> \in Seq(LogMessages) /\ <<>> \in Seq(Prompts)
  BY NoCallsTable
<1> HIDE DEF f, e, h
<1>6. n \in Snapshots
  BY <1>1, <1>2, <1>3, <1>4, <1>5 DEF Snapshots
<1>7. /\ SameMemory(s, n) /\ n.history = h /\ n.deferred = <<>> /\ n.pending = NoCalls /\ n.queued = <<>>
      /\ n.processes = f
  BY <1>1 DEF Snapshots, SameMemory
<1> QED BY <1>3, <1>6, <1>7 DEF h

-----------------------------------------------------------------------------
(* The records                                                             *)

\* A record that fails is seen to; one that does not leads to what it says.
LEMMA RecordStep ==
  ASSUME LogTypes, NEW new, Record(new)
  PROVE  /\ stored' \in {stored, new} /\ failures' \in Nat
         /\ persistence' \in {persistence, "Failed"}
         /\ persistence' = "Ready" => persistence = "Ready" /\ stored' = new
         /\ stored' # new => persistence' = "Failed"
BY DEF Record, Failure, LogTypes

\* What a record of messages leads to, on disk and in the conversation.
SaidInStored(m) ==
  /\ stored' \in Snapshots
  /\ stored'.history = (stored.history \o m) \o stored.deferred
  /\ stored'.deferred = <<>> /\ stored'.pending = NoCalls /\ stored'.queued = stored.queued
  /\ SameMemory(stored, stored') /\ SameProcesses(stored, stored')
SaidInConversation(m) ==
  /\ conversation' \in Conversations
  /\ conversation'.history = (conversation.history \o m) \o conversation.deferred
  /\ conversation'.deferred = <<>> /\ SameMemory(conversation, conversation')

\* Either way the messages are those of the stored batch, if there is one and
\* it can be read, or the ones given; the conversation has them in any case.
LEMMA AppendStep ==
  ASSUME LogTypes, NEW given \in Seq(LogMessages), AppendHistory(given)
  PROVE  /\ failures' \in Nat /\ persistence' \in {persistence, "Failed"}
         /\ \E m \in Seq(LogMessages) :
              /\ m = given \/ (Pending(stored) /\ m = Exchange(stored.pending))
              /\ persistence' = "Ready" /\ Pending(stored) => m = Exchange(stored.pending)
              /\ SaidInConversation(m)
              /\ (stored' = stored /\ persistence' = "Failed") \/ SaidInStored(m)
<1>1. stored \in Snapshots /\ conversation \in Conversations /\ failures \in Nat
  BY DEF LogTypes
<1>2. Pending(stored) => Exchange(stored.pending) \in Seq(LogMessages)
  BY <1>1, UnansweredMessages DEF Unanswered
<1>3. ASSUME NEW m \in Seq(LogMessages), conversation' = AppendTo(conversation, m)
      PROVE  SaidInConversation(m)
  <2> DEFINE h == (conversation.history \o m) \o conversation.deferred
  <2>1. conversation.history \in Seq(LogMessages) /\ conversation.deferred \in Seq(LogMessages)
    BY <1>1 DEF Conversations
  <2>2. h \in Seq(LogMessages) /\ <<>> \in Seq(LogMessages)
    BY <2>1, ConcatProperties
  <2>3. conversation' = [conversation EXCEPT !.history = h, !.deferred = <<>>]
    BY <1>3 DEF AppendTo
  <2> HIDE DEF h
  <2>4. conversation' \in Conversations
    BY <1>1, <2>2, <2>3 DEF Conversations
  <2>5. conversation'.history = h /\ conversation'.deferred = <<>> /\ SameMemory(conversation, conversation')
    BY <1>1, <2>3 DEF Conversations, SameMemory
  <2> QED BY <2>4, <2>5 DEF SaidInConversation, h
<1>4. ASSUME NEW m \in Seq(LogMessages), stored' = History(stored, m) PROVE SaidInStored(m)
  BY <1>1, <1>4, HistoryFields DEF SaidInStored
<1>5. CASE /\ Record(History(stored, StoredMessages(given)))
           /\ conversation' = AppendTo(conversation, StoredMessages(given))
  <2> DEFINE m == StoredMessages(given)
  <2>1. m \in Seq(LogMessages)
    BY <1>2 DEF StoredMessages
  <2>2. /\ m = given \/ (Pending(stored) /\ m = Exchange(stored.pending))
        /\ Pending(stored) => m = Exchange(stored.pending)
    BY DEF StoredMessages
  <2>3. /\ stored' \in {stored, History(stored, m)} /\ failures' \in Nat
        /\ persistence' \in {persistence, "Failed"}
        /\ stored' # History(stored, m) => persistence' = "Failed"
    BY <1>5, RecordStep
  <2>4. conversation' = AppendTo(conversation, m)
    BY <1>5
  <2> HIDE DEF m
  <2>5. SaidInConversation(m) /\ (stored' = History(stored, m) => SaidInStored(m))
    BY <1>3, <1>4, <2>1, <2>4
  <2> QED BY <2>1, <2>2, <2>3, <2>5
<1>6. CASE /\ stored' \in {stored, History(stored, given)} /\ Failure /\ persistence' = "Failed"
           /\ conversation' = AppendTo(conversation, given)
  BY <1>1, <1>3, <1>4, <1>6 DEF Failure
<1> QED BY <1>5, <1>6 DEF AppendHistory

\* A turn begins, on disk and in the conversation.
LEMMA BeginStep ==
  ASSUME LogTypes, NEW p \in Prompts, BeginTurn(p)
  PROVE  /\ failures' \in Nat /\ persistence' \in {persistence, "Failed"} /\ stored' \in Snapshots
         /\ stored' \in {stored, Began(stored, p)}
         /\ persistence' = "Ready" => persistence = "Ready" /\ stored' = Began(stored, p)
         /\ stored' # Began(stored, p) => persistence' = "Failed"
         /\ conversation' \in Conversations
         /\ conversation'.history = conversation.history \o <<Input("prompt", p)>>
         /\ conversation'.deferred = conversation.deferred /\ SameMemory(conversation, conversation')
         /\ turn' = p
         /\ \/ persistence' = "Ready" /\ phase' = "asks" /\ outcome' = outcome
            \/ persistence' = "Failed" /\ phase' = "stopping" /\ outcome' = "Stopped"
<1>1. stored \in Snapshots /\ conversation \in Conversations
  BY DEF LogTypes
<1>2. /\ Record(Began(stored, p)) /\ turn' = p
      /\ conversation' = [conversation EXCEPT !.history = Append(@, Input("prompt", p))]
      /\ LaunchProvider
  BY DEF BeginTurn
<1>3. /\ stored' \in {stored, Began(stored, p)} /\ failures' \in Nat
      /\ persistence' \in {persistence, "Failed"}
      /\ persistence' = "Ready" => persistence = "Ready" /\ stored' = Began(stored, p)
      /\ stored' # Began(stored, p) => persistence' = "Failed"
  BY <1>2, RecordStep
<1>4. stored' \in Snapshots
  BY <1>1, <1>3, BeganFields
<1> DEFINE m == Input("prompt", p)
<1>5. m \in LogMessages
  BY InputTypes
<1>6. conversation' = [conversation EXCEPT !.history = Append(@, m)]
  BY <1>2
<1> HIDE DEF m
<1>7. conversation.history \in Seq(LogMessages)
  BY <1>1 DEF Conversations
<1>8. /\ Append(conversation.history, m) = conversation.history \o <<m>>
      /\ Append(conversation.history, m) \in Seq(LogMessages)
  BY <1>5, <1>7, AppendIsConcat, AppendProperties
<1>9. conversation' \in Conversations
  BY <1>1, <1>6, <1>8 DEF Conversations
<1>10. /\ conversation'.history = conversation.history \o <<m>>
       /\ conversation'.deferred = conversation.deferred /\ SameMemory(conversation, conversation')
  BY <1>1, <1>6, <1>8 DEF Conversations, SameMemory
<1>11. persistence' \in {"Ready", "Failed"}
  BY <1>3 DEF LogTypes
<1>12. \/ persistence' = "Ready" /\ phase' = "asks" /\ outcome' = outcome
       \/ persistence' = "Failed" /\ phase' = "stopping" /\ outcome' = "Stopped"
  BY <1>2, <1>11 DEF LaunchProvider
<1> QED BY <1>2, <1>3, <1>4, <1>9, <1>10, <1>12 DEF m

-----------------------------------------------------------------------------
(* Types, and the batch at work                                            *)

\* What the jobs that are at rest tell is an exchange.
LEMMA MachineMessages ==
  ASSUME LogTypes, Quiet
  PROVE  batch \in Tables(Tellable) /\ MachineExchange \in Seq(LogMessages)
<1>1. batch \in Tables(JobStates)
  BY DEF LogTypes
<1>2. DOMAIN batch \in SUBSET Calls /\ batch \in [DOMAIN batch -> JobStates]
  BY <1>1, TableFacts
<1>3. batch \in [DOMAIN batch -> Tellable]
  BY <1>2 DEF Quiet, Tellable, JobStates, OpStates
<1>4. batch \in Tables(Tellable)
  BY <1>2, <1>3 DEF Tables
<1> QED BY <1>4, ExchangeFacts DEF MachineExchange

\* A job takes a step; the job was at work, so its operation is recorded.
LEMMA JobStep ==
  ASSUME LogTypes, BatchInv, NEW c, NEW from, NEW to, Works(c, from), Becomes(c, to),
         from # "never", to \in JobStates
  PROVE  /\ batch' \in Tables(JobStates) /\ DOMAIN batch' = DOMAIN batch /\ c \in DOMAIN batch
         /\ \A d \in DOMAIN batch : batch'[d] = IF d = c THEN to ELSE batch[d]
         /\ c \in DOMAIN stored.pending /\ <<from, stored.pending[c]>> \in Steps
         /\ batch # NoCalls /\ batch' # NoCalls /\ c \in Calls
<1>1. batch \in Tables(JobStates) /\ c \in DOMAIN batch /\ batch[c] = from
  BY DEF LogTypes, Works
<1>2. /\ batch' \in Tables(JobStates) /\ DOMAIN batch' = DOMAIN batch
      /\ \A d \in DOMAIN batch : batch'[d] = IF d = c THEN to ELSE batch[d]
  BY <1>1, TableStep DEF Becomes
<1>3. c \in DOMAIN stored.pending /\ <<from, stored.pending[c]>> \in Steps
  BY <1>1 DEF BatchInv
<1>4. batch # NoCalls /\ batch' # NoCalls /\ c \in Calls
  BY <1>1, <1>2, TableFacts
<1> QED BY <1>1, <1>2, <1>3, <1>4

\* No request finds a batch, at work or on disk.
LEMMA AsksAlone ==
  ASSUME BatchInv, phase = "asks"
  PROVE  batch = NoCalls /\ stored.pending = NoCalls
BY DEF BatchInv

\* A launch makes a batch, which is on disk unless the record fails.
LEMMA LaunchStep ==
  ASSUME LogTypes, BatchInv, NEW ops \in SUBSET Calls, Launch(ops)
  PROVE  /\ life = "up" /\ phase = "asks" /\ ops # {} /\ ops \cap used = {} /\ used' = used \cup ops
         /\ batch = NoCalls /\ stored.pending = NoCalls
         /\ failures' \in Nat /\ stored' \in Snapshots
         /\ stored' \in {stored, Prepared(stored, [c \in ops |-> "queued"])}
         /\ batch' \in Tables(JobStates) /\ DOMAIN batch' = ops /\ batch' # NoCalls
         /\ \/ /\ persistence = "Ready" /\ persistence' = "Ready" /\ phase' = "tools" /\ outcome' = outcome
               /\ \A c \in ops : batch'[c] = "queued"
               /\ stored' = Prepared(stored, [c \in ops |-> "queued"])
            \/ /\ persistence' = "Failed" /\ phase' = "stopping" /\ outcome' = "Stopped"
               /\ \A c \in ops : batch'[c] = "never"
         /\ plan' = 0
         /\ UNCHANGED <<conversation, process, turn, queue, texts, live, seen>>
<1>1. /\ life = "up" /\ phase = "asks" /\ ops # {} /\ ops \cap used = {} /\ used' = used \cup ops
      /\ plan' = 0
      /\ UNCHANGED <<conversation, process, turn, queue, texts, live, seen>>
  BY DEF Launch
<1>2. batch = NoCalls /\ stored.pending = NoCalls
  BY <1>1, AsksAlone
<1> DEFINE t == [c \in ops |-> "queued"]
           u == [c \in ops |-> "never"]
<1>3. /\ Record(Prepared(stored, t))
      /\ \/ persistence' = "Ready" /\ batch' = t /\ phase' = "tools" /\ outcome' = outcome
         \/ persistence' = "Failed" /\ batch' = u /\ phase' = "stopping" /\ outcome' = "Stopped"
  BY <1>2 DEF Launch, Pending
<1>4. /\ t \in Tables(OpStates) /\ t \in Tables(JobStates) /\ u \in Tables(JobStates)
      /\ DOMAIN t = ops /\ DOMAIN u = ops
      /\ \A c \in ops : t[c] = "queued" /\ u[c] = "never"
  BY TableOf DEF OpStates, JobStates
<1> HIDE DEF t, u
<1>5. stored \in Snapshots
  BY DEF LogTypes
<1>6. /\ stored' \in {stored, Prepared(stored, t)} /\ failures' \in Nat
      /\ persistence' = "Ready" => persistence = "Ready" /\ stored' = Prepared(stored, t)
  BY <1>3, RecordStep
<1>7. stored' \in Snapshots
  BY <1>4, <1>5, <1>6, PreparedFields
<1>8. batch' # NoCalls
  BY <1>1, <1>3, <1>4, NoCallsTable
<1> QED BY <1>1, <1>2, <1>3, <1>4, <1>6, <1>7, <1>8 DEF t

\* Each variable keeps its type.
LEMMA LogTypesStep ==
  ASSUME LogTypes, BatchInv, [LogNext]_logVars
  PROVE  LogTypes'
<1> USE DEF process, control, seen, logVars
<1>1. stored \in Snapshots /\ conversation \in Conversations
  BY DEF LogTypes
<1>2. CASE UNCHANGED logVars
  BY <1>2 DEF LogTypes
<1>3. CASE Exit
  <2>1. conversation' \in Conversations
    BY <1>3 DEF Exit, Conversations
  <2>2. batch' \in Tables(JobStates)
    BY <1>3, NoCallsTable DEF Exit
  <2> QED BY <1>3, <2>1, <2>2 DEF Exit, LogTypes
<1>4. CASE Resume
  <2>1. stored' \in Snapshots
    BY <1>1, <1>4, RecoveredFields DEF Resume
  <2>2. conversation' \in Conversations
    BY <1>4, <2>1 DEF Resume, Conversations, Snapshots
  <2> QED BY <1>4, <2>1, <2>2 DEF Resume, LogTypes
<1>5. CASE Interrupt
  <2>1. stored' \in Snapshots
    BY <1>1, <1>5, UnqueuedFields DEF Interrupt
  <2>2. ToSet(queue) \subseteq Prompts
    BY DEF LogTypes, ToSet
  <2>3. excused' \subseteq Prompts \cup {NoItem}
    BY <1>5, <2>2 DEF Interrupt, Report, LogTypes
  <2>4. failures' \in Nat /\ persistence' \in {"Ready", "Failed"}
    BY <1>5 DEF Interrupt, Failure, LogTypes
  <2>5. /\ queue' = <<>> /\ phase' = "stopping" /\ plan' = 0 /\ outcome' \in {outcome, "Stopped"}
        /\ UNCHANGED <<conversation, process, turn, batch, texts, used, live, ran, accepted, heard>>
    BY <1>5 DEF Interrupt
  <2> QED BY <2>1, <2>3, <2>4, <2>5 DEF LogTypes
<1>6. CASE Say
  <2>1. <<Text>> \in Seq(LogMessages)
    BY InputTypes
  <2>2. AppendHistory(<<Text>>)
    BY <1>6 DEF Say
  <2>3. /\ failures' \in Nat /\ persistence' \in {persistence, "Failed"}
        /\ stored' \in Snapshots /\ conversation' \in Conversations
    BY <1>1, <2>1, <2>2, AppendStep DEF SaidInStored, SaidInConversation
  <2>4. /\ texts' = texts + 1 /\ plan' = 0 /\ phase' \in {"asks", "stopping"}
        /\ outcome' \in {outcome, "Completed", "Stopped"}
        /\ UNCHANGED <<process, turn, queue, batch, used, live, seen>>
    BY <1>6 DEF Say, LaunchProvider
  <2> QED BY <2>3, <2>4 DEF LogTypes
<1>7. CASE ProviderFails
  BY <1>7 DEF ProviderFails, LogTypes
<1>8. CASE Plan
  <2>1. plan' \in Nat
    <3>1. plan' \in DOMAIN conversation.history
      BY <1>8 DEF Plan, Boundaries, Ends
    <3>2. conversation.history \in Seq(LogMessages)
      BY <1>1 DEF Conversations
    <3> QED BY <3>1, <3>2, LenProperties
  <2> QED BY <1>8, <2>1 DEF Plan, LogTypes
<1>9. CASE Compact
  <2> DEFINE generation == conversation.generation + 1
  <2>1. generation \in Nat /\ plan \in Nat
    BY <1>1 DEF Conversations, LogTypes
  <2>2. \/ Record(Compacted(stored, plan, generation))
        \/ Refuse
    BY <1>9 DEF Compact
  <2>3. stored' \in Snapshots /\ failures' \in Nat /\ persistence' \in {"Ready", "Failed"}
    <3> HIDE DEF generation
    <3>1. CASE Record(Compacted(stored, plan, generation))
      <4>1. /\ stored' \in {stored, Compacted(stored, plan, generation)} /\ failures' \in Nat
            /\ persistence' \in {persistence, "Failed"}
        BY <3>1, RecordStep
      <4>2. Compacted(stored, plan, generation) \in Snapshots
        BY <1>1, <2>1, CompactedFields
      <4> QED BY <1>1, <4>1, <4>2 DEF LogTypes
    <3>2. CASE Refuse
      BY <3>2 DEF Refuse, LogTypes
    <3> QED BY <2>2, <3>1, <3>2
  <2>4. conversation' \in {conversation, [conversation EXCEPT !.through = plan, !.generation = generation]}
    BY <1>1, <1>9 DEF Compact, Conversations
  <2>5. conversation' \in Conversations
    BY <1>1, <2>1, <2>4 DEF Conversations
  <2> QED BY <1>9, <2>3, <2>5 DEF Compact, LogTypes
<1>10. CASE StorageFails
  BY <1>10 DEF StorageFails, Failure, LogTypes
<1>11. CASE BatchEnds
  <2>1. CASE /\ AppendHistory(MachineExchange) /\ batch' = NoCalls /\ LaunchProvider
    <3>1. MachineExchange \in Seq(LogMessages)
      BY <1>11, MachineMessages DEF BatchEnds
    <3>2. /\ failures' \in Nat /\ persistence' \in {persistence, "Failed"}
          /\ stored' \in Snapshots /\ conversation' \in Conversations
      BY <1>1, <2>1, <3>1, AppendStep DEF SaidInStored, SaidInConversation
    <3>3. batch' \in Tables(JobStates)
      BY <2>1, NoCallsTable
    <3>4. /\ phase' \in {"asks", "stopping"} /\ outcome' \in {outcome, "Stopped"}
          /\ UNCHANGED <<process, turn, queue, plan, texts, used, live, seen>>
      BY <1>11, <2>1 DEF BatchEnds, LaunchProvider
    <3> QED BY <3>2, <3>3, <3>4 DEF LogTypes
  <2>2. CASE /\ phase' = "stopping" /\ outcome' = "Stopped"
             /\ UNCHANGED <<stored, conversation, persistence, batch, failures>>
    BY <1>11, <2>2 DEF BatchEnds, LogTypes
  <2> QED BY <1>11, <2>1, <2>2 DEF BatchEnds
<1>12. CASE FinishHistory
  <2>1. /\ batch' = NoCalls /\ phase' = "recorded"
        /\ UNCHANGED <<process, turn, outcome, queue, plan, texts, used, live, seen>>
    BY <1>12 DEF FinishHistory
  <2>2. batch' \in Tables(JobStates)
    BY <2>1, NoCallsTable
  <2>3. CASE UNCHANGED <<stored, conversation, persistence, failures>>
    BY <2>1, <2>2, <2>3 DEF LogTypes
  <2>4. CASE AppendHistory(MachineExchange)
    <3>1. MachineExchange \in Seq(LogMessages)
      BY <1>12, MachineMessages DEF FinishHistory
    <3>2. /\ failures' \in Nat /\ persistence' \in {persistence, "Failed"}
          /\ stored' \in Snapshots /\ conversation' \in Conversations
      BY <1>1, <2>4, <3>1, AppendStep DEF SaidInStored, SaidInConversation
    <3> QED BY <2>1, <2>2, <3>2 DEF LogTypes
  <2> QED BY <1>12, <2>3, <2>4 DEF FinishHistory
<1>13. CASE ReportEnd
  <2>1. Record(Unqueued(stored, {turn}))
    BY <1>13 DEF ReportEnd
  <2>2. stored' \in Snapshots /\ failures' \in Nat /\ persistence' \in {"Ready", "Failed"}
    BY <1>1, <2>1, RecordStep, UnqueuedFields DEF LogTypes
  <2>3. excused' \subseteq Prompts \cup {NoItem}
    BY <1>13 DEF ReportEnd, Report, LogTypes
  <2> QED BY <1>13, <2>2, <2>3 DEF ReportEnd, LogTypes
<1>14. CASE BeginNext
  <2>1. CASE /\ phase' = "idle" /\ UNCHANGED <<stored, conversation, persistence, turn, outcome, queue, failures>>
    BY <1>14, <2>1 DEF BeginNext, LogTypes
  <2>2. CASE queue # <<>> /\ BeginTurn(Head(queue)) /\ queue' = Tail(queue)
    <3>1. Head(queue) \in Prompts /\ Tail(queue) \in Seq(Prompts)
      BY <2>2, HeadTailProperties DEF LogTypes
    <3>2. /\ failures' \in Nat /\ persistence' \in {persistence, "Failed"} /\ stored' \in Snapshots
          /\ conversation' \in Conversations /\ turn' = Head(queue)
          /\ phase' \in {"asks", "stopping"} /\ outcome' \in {outcome, "Stopped"}
      BY <2>2, <3>1, BeginStep
    <3> QED BY <1>14, <2>2, <3>1, <3>2 DEF BeginNext, LogTypes
  <2> QED BY <1>14, <2>1, <2>2 DEF BeginNext
<1>15. ASSUME NEW p \in Prompts, Submit(p) PROVE LogTypes'
  <2>1. accepted' \in Seq(Prompts \cup Questions)
    <3>1. accepted \in Seq(Prompts \cup Questions) /\ p \in Prompts \cup Questions
      BY DEF LogTypes
    <3> QED BY <1>15, <3>1, AppendProperties DEF Submit, Accept
  <2>2. /\ used' = used \cup {p}
        /\ UNCHANGED <<process, batch, plan, texts, live, ran, heard, excused>>
    BY <1>15 DEF Submit
  <2>3. CASE BeginTurn(p) /\ UNCHANGED queue
    <3>1. /\ failures' \in Nat /\ persistence' \in {persistence, "Failed"} /\ stored' \in Snapshots
          /\ conversation' \in Conversations /\ turn' = p
          /\ phase' \in {"asks", "stopping"} /\ outcome' \in {outcome, "Stopped"}
      BY <2>3, BeginStep
    <3> QED BY <2>1, <2>2, <2>3, <3>1 DEF LogTypes
  <2>4. CASE /\ Record(Queued(stored, p)) /\ queue' = Append(queue, p)
             /\ UNCHANGED <<conversation, phase, turn, outcome>>
    <3>1. stored' \in Snapshots /\ failures' \in Nat /\ persistence' \in {persistence, "Failed"}
      BY <1>1, <2>4, RecordStep, QueuedFields
    <3>2. queue' \in Seq(Prompts)
      BY <2>4, AppendProperties DEF LogTypes
    <3> QED BY <2>1, <2>2, <2>4, <3>1, <3>2 DEF LogTypes
  <2> QED BY <1>15, <2>3, <2>4 DEF Submit
<1>16. ASSUME NEW q \in Questions, Answer(q) PROVE LogTypes'
  <2>1. accepted' \in Seq(Prompts \cup Questions)
    <3>1. accepted \in Seq(Prompts \cup Questions) /\ q \in Prompts \cup Questions
      BY DEF LogTypes
    <3> QED BY <1>16, <3>1, AppendProperties DEF Answer, Accept
  <2>2. Record(Answered(stored, q))
    BY <1>16 DEF Answer
  <2>3. stored' \in Snapshots /\ failures' \in Nat /\ persistence' \in {persistence, "Failed"}
    BY <1>1, <2>2, RecordStep, AnsweredFields
  <2>4. heard' \in [Questions -> SUBSET Calls]
    <3>1. DOMAIN batch \subseteq Calls
      BY TableFacts DEF LogTypes
    <3> QED BY <1>16, <3>1 DEF Answer, LogTypes
  <2>5. conversation' \in Conversations
    <3> DEFINE m == Input("answer", q)
    <3>1. m \in LogMessages
      BY InputTypes
    <3>2. conversation' \in {conversation, [conversation EXCEPT !.deferred = Append(@, m)],
                                           [conversation EXCEPT !.history = Append(@, m)]}
      BY <1>16 DEF Answer
    <3> HIDE DEF m
    <3>3. /\ Append(conversation.history, m) \in Seq(LogMessages)
          /\ Append(conversation.deferred, m) \in Seq(LogMessages)
      BY <1>1, <3>1, AppendProperties DEF Conversations
    <3> QED BY <1>1, <3>2, <3>3 DEF Conversations
  <2> QED BY <1>16, <2>1, <2>3, <2>4, <2>5 DEF Answer, LogTypes
<1>17. ASSUME NEW ops \in SUBSET Calls, Launch(ops) PROVE LogTypes'
  <2>1. /\ stored' \in Snapshots /\ failures' \in Nat /\ batch' \in Tables(JobStates)
        /\ used' = used \cup ops /\ plan' = 0
        /\ persistence' \in {"Ready", "Failed"} /\ phase' \in {"tools", "stopping"}
        /\ outcome' \in {outcome, "Stopped"}
        /\ UNCHANGED <<conversation, process, turn, queue, texts, live, seen>>
    BY <1>17, LaunchStep
  <2> QED BY <2>1 DEF LogTypes
<1>18. ASSUME NEW c \in Calls, Intend(c) PROVE LogTypes'
  <2>1. /\ Works(c, "queued") /\ Becomes(c, "intended") /\ stored' = OpAs(stored, c, "intended")
        /\ UNCHANGED <<live, ran, failures>>
    BY <1>18 DEF Intend, Intent
  <2>2. batch' \in Tables(JobStates) /\ c \in DOMAIN stored.pending
    BY <2>1, JobStep DEF JobStates, OpStates
  <2>3. stored' \in Snapshots
    BY <1>1, <2>1, <2>2, OpAsFields DEF OpStates
  <2> QED BY <2>1, <2>2, <2>3 DEF Works, LogTypes
<1>19. ASSUME NEW c \in Calls, Decline(c) PROVE LogTypes'
  <2>1. Works(c, "queued") /\ UNCHANGED <<live, ran>>
    BY <1>19 DEF Decline
  <2>2. CASE stored' = Completed(stored, c, "refused", FALSE) /\ Becomes(c, "refused") /\ UNCHANGED failures
    <3>1. batch' \in Tables(JobStates) /\ c \in DOMAIN stored.pending
      BY <2>1, <2>2, JobStep DEF JobStates, OpStates
    <3>2. stored' \in Snapshots
      BY <1>1, <2>2, <3>1, CompletedFields DEF OpStates
    <3> QED BY <2>1, <2>2, <3>1, <3>2 DEF Works, LogTypes
  <2>3. CASE Failure /\ UNCHANGED stored /\ Becomes(c, "uncertain")
    <3>1. batch' \in Tables(JobStates)
      BY <2>1, <2>3, JobStep DEF JobStates, OpStates
    <3> QED BY <2>1, <2>3, <3>1 DEF Works, Failure, LogTypes
  <2> QED BY <1>19, <2>2, <2>3 DEF Decline
<1>20. ASSUME NEW c \in Calls, TakeEffect(c) PROVE LogTypes'
  <2>1. Works(c, "intended") /\ Becomes(c, "ran")
    BY <1>20 DEF TakeEffect
  <2>2. batch' \in Tables(JobStates)
    BY <2>1, JobStep DEF JobStates, OpStates
  <2> QED BY <1>20, <2>1, <2>2 DEF TakeEffect, Works, LogTypes
<1>21. ASSUME NEW c \in Calls, Complete(c) PROVE LogTypes'
  <2>1. PICK from \in {"ran", "intended"} : Works(c, from)
    BY <1>21 DEF Complete
  <2>2. UNCHANGED <<live, ran>> /\ c \in DOMAIN batch
    BY <1>21, <2>1 DEF Complete, Works
  <2>3. CASE /\ stored' = Completed(stored, c, "done", c \in Starters /\ batch[c] = "ran")
             /\ Becomes(c, "done") /\ UNCHANGED failures
    <3>1. batch' \in Tables(JobStates) /\ c \in DOMAIN stored.pending
      BY <2>1, <2>3, JobStep DEF JobStates, OpStates
    <3>2. PICK starts \in BOOLEAN : starts = (c \in Starters /\ batch[c] = "ran")
      OBVIOUS
    <3>3. stored' = Completed(stored, c, "done", starts) /\ (starts => c \in Starters)
      BY <2>3, <3>2
    <3>4. stored' \in Snapshots
      BY <1>1, <3>1, <3>3, CompletedFields DEF OpStates
    <3> QED BY <2>1, <2>2, <2>3, <3>1, <3>4 DEF Works, LogTypes
  <2>4. CASE Failure /\ UNCHANGED stored /\ Becomes(c, "uncertain")
    <3>1. batch' \in Tables(JobStates)
      BY <2>1, <2>4, JobStep DEF JobStates, OpStates
    <3> QED BY <2>1, <2>2, <2>4, <3>1 DEF Works, Failure, LogTypes
  <2> QED BY <1>21, <2>3, <2>4 DEF Complete
<1>22. ASSUME NEW c \in Calls, ProcessEnds(c) PROVE LogTypes'
  <2>1. Record(ProcessCompleted(stored, c)) /\ c \in Starters
    BY <1>22 DEF ProcessEnds, LogTypes
  <2>2. stored' \in Snapshots /\ failures' \in Nat /\ persistence' \in {"Ready", "Failed"}
    BY <1>1, <2>1, RecordStep, ProcessCompletedFields DEF LogTypes
  <2> QED BY <1>22, <2>2 DEF ProcessEnds, LogTypes
<1> QED BY <1>2, <1>3, <1>4, <1>5, <1>6, <1>7, <1>8, <1>9, <1>10, <1>11, <1>12, <1>13, <1>14, <1>15, <1>16, <1>17,
           <1>18, <1>19, <1>20, <1>21, <1>22 DEF LogNext

\* A job takes a step; the session goes on.
JobFrame(c) ==
  /\ UNCHANGED <<conversation, persistence, process, control, plan, texts, used, accepted, heard, excused>>
  /\ life = "up" /\ phase \in {"tools", "stopping"}
  /\ stored' \in Snapshots /\ stored'.history = stored.history /\ stored'.deferred = stored.deferred
  /\ stored'.queued = stored.queued /\ SameMemory(stored, stored')
  /\ c \in DOMAIN batch /\ c \in DOMAIN stored.pending
  /\ DOMAIN batch' = DOMAIN batch /\ DOMAIN stored'.pending = DOMAIN stored.pending
  /\ \A d \in DOMAIN batch : d # c => batch'[d] = batch[d]
  /\ \A d \in DOMAIN stored.pending : d # c => stored'.pending[d] = stored.pending[d]
  /\ <<batch[c], stored.pending[c]>> \in Steps /\ <<batch'[c], stored'.pending[c]>> \in Steps
  /\ batch[c] # "never" /\ batch'[c] # "never"
  /\ batch # NoCalls /\ batch' # NoCalls

\* Its process is known to run once the completion is recorded.
Starts(c) ==
  /\ batch[c] \in {"ran", "intended"} /\ batch'[c] # "ran" /\ UNCHANGED live
  /\ \A d \in Starters : stored'.processes[d] = IF d = c /\ batch[c] = "ran" /\ stored.processes[d] = "none"
                                                THEN "running" ELSE stored.processes[d]
\* It is only the tool's step that takes effect.
TakesEffect(c) ==
  /\ batch[c] = "intended" /\ batch'[c] = "ran" /\ stored.pending[c] = "intended" /\ stored' = stored
  /\ ran' = ran \cup {c} /\ live' = IF c \in Starters THEN live \cup {c} ELSE live

\* What a job's step does: only TakeEffect has an effect, and no record of one is undone.
LEMMA JobActions ==
  ASSUME LogTypes, BatchInv, NEW c \in Calls, Intend(c) \/ Decline(c) \/ TakeEffect(c) \/ Complete(c)
  PROVE  /\ JobFrame(c)
         /\ TakesEffect(c) \/ (UNCHANGED ran /\ (stored.pending[c] \in {"intended", "done"} =>
                                                  stored'.pending[c] \in {"intended", "done"}))
         /\ TakesEffect(c) \/ (UNCHANGED live /\ SameProcesses(stored, stored') /\ batch'[c] # "ran") \/ Starts(c)
<1>1. stored \in Snapshots
  BY DEF LogTypes
\* The frame, from what the job and its operation do.
<1>2. ASSUME NEW from, NEW to \in JobStates, from # "never", to # "never", Works(c, from), Becomes(c, to),
             stored' \in Snapshots, stored'.history = stored.history, stored'.deferred = stored.deferred,
             stored'.queued = stored.queued, SameMemory(stored, stored'),
             DOMAIN stored'.pending = DOMAIN stored.pending,
             \A d \in DOMAIN stored.pending : d # c => stored'.pending[d] = stored.pending[d],
             <<from, stored.pending[c]>> \in Steps => <<to, stored'.pending[c]>> \in Steps
      PROVE  JobFrame(c) /\ batch[c] = from /\ batch'[c] = to
  <2>1. /\ DOMAIN batch' = DOMAIN batch /\ c \in DOMAIN batch
        /\ \A d \in DOMAIN batch : batch'[d] = IF d = c THEN to ELSE batch[d]
        /\ c \in DOMAIN stored.pending /\ <<from, stored.pending[c]>> \in Steps
        /\ batch # NoCalls /\ batch' # NoCalls
    BY <1>2, JobStep
  <2>2. /\ UNCHANGED <<conversation, persistence, process, control, plan, texts, used, accepted, heard, excused>>
        /\ life = "up" /\ phase \in {"tools", "stopping"} /\ batch[c] = from
    BY <1>2 DEF Works
  <2> QED BY <1>2, <2>1, <2>2 DEF JobFrame
<1>3. CASE Intend(c)
  <2>1. /\ Works(c, "queued") /\ Becomes(c, "intended") /\ stored' = OpAs(stored, c, "intended")
        /\ UNCHANGED <<live, ran>>
    BY <1>3 DEF Intend, Intent
  <2>2. c \in DOMAIN stored.pending
    BY <2>1, JobStep DEF JobStates, OpStates
  <2>3. /\ stored' \in Snapshots /\ stored'.history = stored.history /\ stored'.deferred = stored.deferred
        /\ stored'.queued = stored.queued /\ SameMemory(stored, stored') /\ SameProcesses(stored, stored')
        /\ DOMAIN stored'.pending = DOMAIN stored.pending
        /\ \A d \in DOMAIN stored.pending : stored'.pending[d] = IF d = c THEN "intended" ELSE stored.pending[d]
    BY <1>1, <2>1, <2>2, OpAsFields DEF OpStates
  <2>4. <<"intended", stored'.pending[c]>> \in Steps /\ stored'.pending[c] = "intended"
    BY <2>2, <2>3 DEF Steps
  <2>5. JobFrame(c) /\ batch'[c] = "intended"
    BY <1>2, <2>1, <2>3, <2>4 DEF JobStates, OpStates
  <2> QED BY <2>1, <2>3, <2>4, <2>5
<1>4. CASE Decline(c)
  <2>1. Works(c, "queued") /\ UNCHANGED <<live, ran>>
    BY <1>4 DEF Decline
  <2>2. CASE stored' = Completed(stored, c, "refused", FALSE) /\ Becomes(c, "refused")
    <3>1. c \in DOMAIN stored.pending /\ <<"queued", stored.pending[c]>> \in Steps
      BY <2>1, <2>2, JobStep DEF JobStates, OpStates
    <3>2. PICK starts \in BOOLEAN : starts = FALSE
      OBVIOUS
    <3>3. stored' = Completed(stored, c, "refused", starts) /\ (starts => c \in Starters) /\ "refused" \in OpStates
      BY <2>2, <3>2 DEF OpStates
    <3>4. /\ stored' \in Snapshots /\ stored'.history = stored.history /\ stored'.deferred = stored.deferred
          /\ stored'.queued = stored.queued /\ SameMemory(stored, stored') /\ stored'.evidence = stored.evidence
          /\ DOMAIN stored'.pending = DOMAIN stored.pending
          /\ \A d \in DOMAIN stored.pending : stored'.pending[d] = IF d = c THEN "refused" ELSE stored.pending[d]
          /\ \A d \in Starters : stored'.processes[d] = IF starts /\ d = c /\ stored.processes[d] = "none"
                                                        THEN "running" ELSE stored.processes[d]
      BY <1>1, <3>1, <3>3, CompletedFields
    <3>5. <<"refused", stored'.pending[c]>> \in Steps
      BY <3>1, <3>4 DEF Steps
    <3>6. JobFrame(c) /\ batch'[c] = "refused"
      <4>1. "refused" \in JobStates /\ Becomes(c, "refused")
        BY <2>2 DEF JobStates, OpStates
      <4>2. \A d \in DOMAIN stored.pending : d # c => stored'.pending[d] = stored.pending[d]
        BY <3>4
      <4>3. /\ stored' \in Snapshots /\ stored'.history = stored.history /\ stored'.deferred = stored.deferred
            /\ stored'.queued = stored.queued /\ SameMemory(stored, stored')
            /\ DOMAIN stored'.pending = DOMAIN stored.pending
        BY <3>4
      <4>4. Works(c, "queued") /\ "queued" # "never" /\ "refused" # "never"
        BY <2>1
      <4>5. <<"queued", stored.pending[c]>> \in Steps => <<"refused", stored'.pending[c]>> \in Steps
        BY <3>5
      <4> QED BY <1>2, <4>1, <4>2, <4>3, <4>4, <4>5
    <3>7. SameProcesses(stored, stored')
      BY <1>1, <3>2, <3>4 DEF SameProcesses, Snapshots
    <3>8. stored.pending[c] \notin {"intended", "done"}
      BY <3>1 DEF Steps
    <3> QED BY <2>1, <3>6, <3>7, <3>8
  <2>3. CASE UNCHANGED stored /\ Becomes(c, "uncertain")
    <3>1. <<"queued", stored.pending[c]>> \in Steps => <<"uncertain", stored.pending[c]>> \in Steps
      BY DEF Steps
    <3>2. JobFrame(c) /\ batch'[c] = "uncertain"
      BY <1>1, <1>2, <2>1, <2>3, <3>1 DEF JobStates, OpStates, SameMemory
    <3> QED BY <2>1, <2>3, <3>2 DEF SameProcesses
  <2> QED BY <1>4, <2>2, <2>3 DEF Decline
<1>5. CASE TakeEffect(c)
  <2>1. /\ Works(c, "intended") /\ Becomes(c, "ran") /\ stored' = stored
        /\ ran' = ran \cup {c} /\ live' = IF c \in Starters THEN live \cup {c} ELSE live
    BY <1>5 DEF TakeEffect
  <2>2. <<"intended", stored.pending[c]>> \in Steps => <<"ran", stored.pending[c]>> \in Steps
    BY DEF Steps
  <2>3. JobFrame(c) /\ batch[c] = "intended" /\ batch'[c] = "ran"
    BY <1>1, <1>2, <2>1, <2>2 DEF JobStates, OpStates, SameMemory
  <2>4. stored.pending[c] = "intended"
    BY <2>3 DEF JobFrame, Steps
  <2> QED BY <2>1, <2>3, <2>4 DEF TakesEffect
<1>6. CASE Complete(c)
  <2>1. PICK from \in {"ran", "intended"} : Works(c, from)
    BY <1>6 DEF Complete
  <2>2. UNCHANGED <<live, ran>>
    BY <1>6 DEF Complete
  <2>3. CASE stored' = Completed(stored, c, "done", c \in Starters /\ batch[c] = "ran") /\ Becomes(c, "done")
    <3>1. c \in DOMAIN stored.pending
      BY <2>1, <2>3, JobStep DEF JobStates, OpStates
    <3>2. PICK starts \in BOOLEAN : starts = (c \in Starters /\ batch[c] = "ran")
      OBVIOUS
    <3>3. stored' = Completed(stored, c, "done", starts) /\ (starts => c \in Starters) /\ "done" \in OpStates
      BY <2>3, <3>2 DEF OpStates
    <3>4. /\ stored' \in Snapshots /\ stored'.history = stored.history /\ stored'.deferred = stored.deferred
          /\ stored'.queued = stored.queued /\ SameMemory(stored, stored')
          /\ DOMAIN stored'.pending = DOMAIN stored.pending
          /\ \A d \in DOMAIN stored.pending : stored'.pending[d] = IF d = c THEN "done" ELSE stored.pending[d]
          /\ \A d \in Starters : stored'.processes[d] = IF starts /\ d = c /\ stored.processes[d] = "none"
                                                        THEN "running" ELSE stored.processes[d]
      BY <1>1, <3>1, <3>3, CompletedFields
    <3>5. <<"done", stored'.pending[c]>> \in Steps /\ stored'.pending[c] = "done"
      BY <3>1, <3>4 DEF Steps
    <3>6. JobFrame(c) /\ batch[c] = from /\ batch'[c] = "done"
      BY <1>2, <2>1, <2>3, <3>4, <3>5 DEF JobStates, OpStates
    <3>7. Starts(c)
      BY <2>1, <2>2, <3>2, <3>4, <3>6 DEF Starts
    <3> QED BY <2>2, <3>5, <3>6, <3>7
  <2>4. CASE UNCHANGED stored /\ Becomes(c, "uncertain")
    <3>1. <<from, stored.pending[c]>> \in Steps => <<"uncertain", stored.pending[c]>> \in Steps
      BY <2>1 DEF Steps
    <3>2. JobFrame(c) /\ batch'[c] = "uncertain"
      BY <1>1, <1>2, <2>1, <2>4, <3>1 DEF JobStates, OpStates, SameMemory
    <3> QED BY <2>2, <2>4, <3>2 DEF SameProcesses
  <2> QED BY <1>6, <2>3, <2>4 DEF Complete
<1> QED BY <1>3, <1>4, <1>5, <1>6

\* The batch on disk stays the one at work.
LEMMA BatchStep ==
  ASSUME LogTypes, BatchInv, [LogNext]_logVars
  PROVE  BatchInv'
<1> USE DEF process, control, seen, logVars
<1>1. /\ stored \in Snapshots /\ conversation \in Conversations
      /\ life \in {"up", "down"} /\ persistence \in {"Ready", "Failed"}
  BY DEF LogTypes
<1>2. DOMAIN NoCalls = {} /\ (batch = NoCalls <=> DOMAIN batch = {})
      /\ (stored.pending = NoCalls <=> DOMAIN stored.pending = {})
  BY <1>1, NoCallsTable, TableFacts DEF LogTypes, Snapshots
\* Nothing but the phase, to one that allows what there is, and the record.
<1>3. ASSUME UNCHANGED <<life, batch>>, stored'.pending = stored.pending,
             persistence' \in {persistence, "Failed"},
             life = "down" => phase' = "idle",
             phase' = "tools" => batch # NoCalls,
             batch # NoCalls => phase' \in {"tools", "stopping"},
             phase' = "asks" => stored.pending = NoCalls
      PROVE  BatchInv'
  BY <1>1, <1>3 DEF BatchInv
\* No batch, neither at work nor on disk.
<1>4. ASSUME batch' = NoCalls, phase' # "tools", life' = "down" => phase' = "idle",
             stored'.pending = NoCalls \/ ((life' = "down" \/ persistence' = "Failed") /\ phase' # "asks")
      PROVE  BatchInv'
  BY <1>2, <1>4 DEF BatchInv
<1>5. CASE UNCHANGED logVars
  BY <1>5 DEF BatchInv
<1>6. CASE Exit
  BY <1>4, <1>6 DEF Exit
<1>7. CASE Resume
  <2>1. stored'.pending = NoCalls
    BY <1>1, <1>7, RecoveredFields DEF Resume
  <2>2. phase = "idle" /\ batch = NoCalls
    BY <1>7 DEF Resume, BatchInv
  <2> QED BY <1>4, <1>7, <2>1, <2>2 DEF Resume
<1>8. CASE Interrupt
  <2>1. stored'.pending = stored.pending
    BY <1>1, <1>8, UnqueuedFields DEF Interrupt
  <2>2. persistence' \in {persistence, "Failed"}
    BY <1>8 DEF Interrupt
  <2> QED BY <1>3, <1>8, <2>1, <2>2 DEF Interrupt, BatchInv
<1>9. CASE Say
  <2>1. batch = NoCalls /\ stored.pending = NoCalls
    BY <1>9, AsksAlone DEF Say
  <2>2. AppendHistory(<<Text>>) /\ <<Text>> \in Seq(LogMessages)
    BY <1>9, InputTypes DEF Say
  <2>3. stored'.pending = NoCalls
    BY <2>1, <2>2, AppendStep DEF SaidInStored
  <2>4. phase' \in {"asks", "stopping"} /\ UNCHANGED <<life, batch>> /\ life = "up"
    BY <1>9 DEF Say, LaunchProvider
  <2> QED BY <1>4, <2>1, <2>3, <2>4
<1>10. CASE ProviderFails
  BY <1>3, <1>10 DEF ProviderFails, BatchInv
<1>11. CASE Plan
  BY <1>11 DEF Plan, BatchInv
<1>12. CASE Compact
  <2>1. batch = NoCalls /\ stored.pending = NoCalls
    BY <1>12, AsksAlone DEF Compact
  <2>2. stored'.pending = NoCalls
    <3> DEFINE generation == conversation.generation + 1
    <3>1. generation \in Nat /\ plan \in Nat
      BY <1>1 DEF Conversations, LogTypes
    <3>2. Record(Compacted(stored, plan, generation)) \/ Refuse
      BY <1>12 DEF Compact
    <3> HIDE DEF generation
    <3>3. stored' \in {stored, Compacted(stored, plan, generation)}
      BY <3>2, RecordStep DEF Refuse
    <3>4. Compacted(stored, plan, generation).pending = stored.pending
      BY <1>1, <3>1, CompactedFields
    <3> QED BY <2>1, <3>3, <3>4
  <2>3. phase' \in {"asks", "stopping"} /\ UNCHANGED <<life, batch>> /\ life = "up"
    BY <1>12 DEF Compact
  <2> QED BY <1>4, <2>1, <2>2, <2>3
<1>13. CASE StorageFails
  BY <1>3, <1>13 DEF StorageFails, BatchInv
<1>14. CASE BatchEnds
  <2>1. CASE AppendHistory(MachineExchange) /\ batch' = NoCalls /\ LaunchProvider
    <3>1. MachineExchange \in Seq(LogMessages)
      BY <1>14, MachineMessages DEF BatchEnds
    <3>2. stored'.pending = NoCalls \/ persistence' = "Failed"
      BY <2>1, <3>1, AppendStep DEF SaidInStored
    <3>3. /\ life' = "up" /\ phase' \in {"asks", "stopping"}
          /\ phase' = "asks" => persistence' = "Ready"
      BY <1>14, <2>1 DEF BatchEnds, LaunchProvider
    <3> QED BY <1>4, <2>1, <3>2, <3>3
  <2>2. CASE /\ phase' = "stopping" /\ outcome' = "Stopped"
             /\ UNCHANGED <<stored, conversation, persistence, batch, failures>>
    BY <1>3, <1>14, <2>2 DEF BatchEnds
  <2> QED BY <1>14, <2>1, <2>2 DEF BatchEnds
<1>15. CASE FinishHistory
  <2>1. batch' = NoCalls /\ phase' = "recorded" /\ life' = "up"
    BY <1>15 DEF FinishHistory
  <2>2. stored'.pending = NoCalls \/ persistence' = "Failed"
    <3>1. CASE batch = NoCalls
      BY <1>1, <1>15, <3>1 DEF FinishHistory, BatchInv
    <3>2. CASE AppendHistory(MachineExchange)
      <4>1. MachineExchange \in Seq(LogMessages)
        BY <1>15, MachineMessages DEF FinishHistory
      <4> QED BY <3>2, <4>1, AppendStep DEF SaidInStored
    <3> QED BY <1>15, <3>1, <3>2 DEF FinishHistory
  <2> QED BY <1>4, <2>1, <2>2
<1>16. CASE ReportEnd
  <2>1. Record(Unqueued(stored, {turn})) /\ phase' = "ended" /\ UNCHANGED <<life, batch>> /\ life = "up"
    BY <1>16 DEF ReportEnd
  <2>2. stored' \in {stored, Unqueued(stored, {turn})} /\ persistence' \in {persistence, "Failed"}
    BY <2>1, RecordStep
  <2>3. stored'.pending = stored.pending
    BY <1>1, <2>2, UnqueuedFields
  <2>4. batch = NoCalls
    BY <1>16 DEF ReportEnd, BatchInv
  <2> QED BY <1>3, <2>1, <2>2, <2>3, <2>4
<1>17. CASE BeginNext
  <2>1. batch = NoCalls /\ UNCHANGED <<life, batch>> /\ life = "up"
    BY <1>17 DEF BeginNext, BatchInv
  <2>2. CASE phase' = "idle" /\ UNCHANGED <<stored, conversation, persistence, turn, outcome, queue, failures>>
    BY <1>3, <2>1, <2>2
  <2>3. CASE queue # <<>> /\ BeginTurn(Head(queue)) /\ queue' = Tail(queue)
    <3>1. Head(queue) \in Prompts
      BY <2>3, HeadTailProperties DEF LogTypes
    <3>2. /\ persistence' \in {persistence, "Failed"} /\ stored' \in {stored, Began(stored, Head(queue))}
          /\ \/ persistence' = "Ready" /\ persistence = "Ready" /\ phase' = "asks"
             \/ persistence' = "Failed" /\ phase' = "stopping"
      BY <2>3, <3>1, BeginStep
    <3>3. stored'.pending = stored.pending
      BY <1>1, <3>1, <3>2, BeganFields
    <3>4. phase' = "asks" => stored.pending = NoCalls
      BY <2>1, <3>2 DEF BatchInv
    <3> QED BY <1>3, <2>1, <3>2, <3>3, <3>4
  <2> QED BY <1>17, <2>2, <2>3 DEF BeginNext
<1>18. ASSUME NEW p \in Prompts, Submit(p) PROVE BatchInv'
  <2>1. UNCHANGED <<life, batch>> /\ life = "up"
    BY <1>18 DEF Submit, Listens
  <2>2. CASE phase = "idle" /\ BeginTurn(p)
    <3>1. /\ persistence' \in {persistence, "Failed"} /\ stored' \in {stored, Began(stored, p)}
          /\ \/ persistence' = "Ready" /\ persistence = "Ready" /\ phase' = "asks"
             \/ persistence' = "Failed" /\ phase' = "stopping"
      BY <2>2, BeginStep
    <3>2. stored'.pending = stored.pending
      BY <1>1, <3>1, BeganFields
    <3>3. batch = NoCalls /\ (phase' = "asks" => stored.pending = NoCalls)
      BY <2>1, <2>2, <3>1 DEF BatchInv
    <3> QED BY <1>3, <2>1, <3>1, <3>2, <3>3
  <2>3. CASE /\ Record(Queued(stored, p)) /\ queue' = Append(queue, p)
             /\ UNCHANGED <<conversation, phase, turn, outcome>>
    <3>1. stored' \in {stored, Queued(stored, p)} /\ persistence' \in {persistence, "Failed"}
      BY <2>3, RecordStep
    <3>2. stored'.pending = stored.pending
      BY <1>1, <3>1, QueuedFields
    <3> QED BY <1>3, <2>1, <2>3, <3>1, <3>2 DEF BatchInv
  <2> QED BY <1>18, <2>2, <2>3 DEF Submit
<1>19. ASSUME NEW q \in Questions, Answer(q) PROVE BatchInv'
  <2>1. Record(Answered(stored, q)) /\ UNCHANGED <<process, control, batch>>
    BY <1>19 DEF Answer
  <2>2. stored' \in {stored, Answered(stored, q)} /\ persistence' \in {persistence, "Failed"}
    BY <2>1, RecordStep
  <2>3. stored'.pending = stored.pending
    BY <1>1, <2>2, AnsweredFields
  <2> QED BY <1>3, <2>1, <2>2, <2>3 DEF BatchInv
<1>20. ASSUME NEW ops \in SUBSET Calls, Launch(ops) PROVE BatchInv'
  <2> DEFINE t == [c \in ops |-> "queued"]
  <2>1. /\ life' = "up" /\ batch' # NoCalls /\ DOMAIN batch' = ops /\ stored.pending = NoCalls
        /\ stored' \in {stored, Prepared(stored, t)}
        /\ \/ /\ persistence' = "Ready" /\ phase' = "tools" /\ stored' = Prepared(stored, t)
              /\ \A c \in ops : batch'[c] = "queued"
           \/ /\ persistence' = "Failed" /\ phase' = "stopping"
              /\ \A c \in ops : batch'[c] = "never"
    BY <1>20, LaunchStep
  <2>2. t \in Tables(OpStates) /\ DOMAIN t = ops /\ \A c \in ops : t[c] = "queued"
    BY TableOf DEF OpStates
  <2> HIDE DEF t
  <2>3. Prepared(stored, t).pending = t
    BY <1>1, <2>2, PreparedFields
  <2>4. stored'.pending \in {stored.pending, t}
    BY <2>1, <2>3
  <2>5. DOMAIN stored'.pending \subseteq DOMAIN batch'
    BY <1>2, <2>1, <2>2, <2>4
  <2>6. ASSUME NEW c \in DOMAIN batch'
        PROVE  IF batch'[c] = "never"
               THEN persistence' = "Failed" /\ (c \in DOMAIN stored'.pending => stored'.pending[c] = "queued")
               ELSE c \in DOMAIN stored'.pending /\ <<batch'[c], stored'.pending[c]>> \in Steps
    BY <1>2, <2>1, <2>2, <2>3, <2>4, <2>6 DEF Steps
  <2> QED BY <2>1, <2>5, <2>6 DEF BatchInv
<1>21. ASSUME NEW c \in Calls, JobFrame(c) PROVE BatchInv'
  <2>1. /\ DOMAIN batch' = DOMAIN batch /\ c \in DOMAIN batch
        /\ \A d \in DOMAIN batch : d # c => batch'[d] = batch[d]
        /\ batch'[c] # "never" /\ <<batch'[c], stored'.pending[c]>> \in Steps
        /\ DOMAIN stored'.pending = DOMAIN stored.pending /\ c \in DOMAIN stored.pending
        /\ \A d \in DOMAIN stored.pending : d # c => stored'.pending[d] = stored.pending[d]
        /\ batch # NoCalls /\ batch' # NoCalls
        /\ UNCHANGED <<life, phase, persistence>> /\ life = "up" /\ phase \in {"tools", "stopping"}
    BY <1>21 DEF JobFrame
  <2>2. DOMAIN stored'.pending \subseteq DOMAIN batch'
    BY <2>1 DEF BatchInv
  <2>3. ASSUME NEW d \in DOMAIN batch'
        PROVE  IF batch'[d] = "never"
               THEN persistence' = "Failed" /\ (d \in DOMAIN stored'.pending => stored'.pending[d] = "queued")
               ELSE d \in DOMAIN stored'.pending /\ <<batch'[d], stored'.pending[d]>> \in Steps
    <3>1. CASE d = c
      BY <2>1, <3>1
    <3>2. CASE d # c
      BY <2>1, <3>2 DEF BatchInv
    <3> QED BY <3>1, <3>2
  <2> QED BY <2>1, <2>2, <2>3 DEF BatchInv
<1>22. ASSUME NEW c \in Calls, Intend(c) \/ Decline(c) \/ TakeEffect(c) \/ Complete(c) PROVE BatchInv'
  BY <1>21, <1>22, JobActions
<1>23. ASSUME NEW c \in Calls, ProcessEnds(c) PROVE BatchInv'
  <2>1. Record(ProcessCompleted(stored, c)) /\ c \in Starters /\ UNCHANGED <<process, control, batch>>
    BY <1>23 DEF ProcessEnds, LogTypes
  <2>2. stored' \in {stored, ProcessCompleted(stored, c)} /\ persistence' \in {persistence, "Failed"}
    BY <2>1, RecordStep
  <2>3. stored'.pending = stored.pending
    BY <1>1, <2>1, <2>2, ProcessCompletedFields
  <2> QED BY <1>3, <2>1, <2>2, <2>3 DEF BatchInv
<1> QED BY <1>5, <1>6, <1>7, <1>8, <1>9, <1>10, <1>11, <1>12, <1>13, <1>14, <1>15, <1>16, <1>17, <1>18, <1>19,
           <1>20, <1>22, <1>23 DEF LogNext

-----------------------------------------------------------------------------
(* What the records leave alone                                            *)

\* A record that is of no batch and says nothing of a call.
Calm ==
  /\ stored' \in Snapshots /\ conversation' \in Conversations
  /\ Mentioned(stored'.history) = Mentioned(stored.history)
  /\ \A c : TellsOf(c, stored'.history) = TellsOf(c, stored.history)
  /\ Mentioned(conversation'.history) \subseteq Mentioned(conversation.history)
  /\ \A c : TellsOf(c, conversation'.history) \subseteq TellsOf(c, conversation.history)
  /\ stored'.pending = stored.pending /\ DOMAIN batch' \subseteq DOMAIN batch
  /\ \A c \in DOMAIN batch' : batch'[c] = batch[c]
  /\ OnlyAnswers(stored'.deferred) /\ OnlyAnswers(conversation'.deferred)
  /\ UNCHANGED ran /\ used \subseteq used'
  /\ \/ life' = "down" \/ persistence' = "Failed"
     \/ SameProcesses(stored, stored') /\ UNCHANGED live
     \/ \E c \in Starters : live' = live \ {c} /\ \A d \in Starters :
          stored'.processes[d] = IF d = c THEN "ended" ELSE stored.processes[d]
  /\ persistence' = "Ready" => persistence = "Ready" \/ life' = "down"
  /\ life' \in {life, "down"}

\* An input or a text joins a history.
LEMMA Joined ==
  ASSUME NEW h \in Seq(LogMessages), NEW m \in LogMessages, m.kind \notin {"calls", "results"}
  PROVE  /\ h \o <<m>> \in Seq(LogMessages)
         /\ Mentioned(h \o <<m>>) = Mentioned(h)
         /\ \A c : TellsOf(c, h \o <<m>>) = TellsOf(c, h)
         /\ ItemsOf(h \o <<m>>) = ItemsOf(h) \cup {m.item}
         /\ AnswersOf(h \o <<m>>) = AnswersOf(h) \cup (IF m.kind = "answer" THEN {m.item} ELSE {})
         /\ Ends(h) \subseteq Ends(h \o <<m>>)
         /\ OnlyAnswers(h) /\ m.kind = "answer" => OnlyAnswers(h \o <<m>>)
<1> DEFINE n == <<m>>
<1>1. /\ n \in Seq(LogMessages) /\ Mentioned(n) = {} /\ \A c : TellsOf(c, n) = {}
      /\ ItemsOf(n) = {m.item} /\ AnswersOf(n) = IF m.kind = "answer" THEN {m.item} ELSE {}
  BY InputAlone
<1>2. DOMAIN n = {1} /\ n[1] = m
  OBVIOUS
<1> HIDE DEF n
<1>3. /\ h \o n \in Seq(LogMessages)
      /\ Mentioned(h \o n) = Mentioned(h) \cup Mentioned(n)
      /\ \A c : TellsOf(c, h \o n) = TellsOf(c, h) \cup TellsOf(c, n)
      /\ ItemsOf(h \o n) = ItemsOf(h) \cup ItemsOf(n)
      /\ AnswersOf(h \o n) = AnswersOf(h) \cup AnswersOf(n)
      /\ Ends(h) \subseteq Ends(h \o n)
  <2>1. n \in Seq(LogMessages)
    BY <1>1
  <2> QED BY <2>1, JoinedSets, ConcatProperties
<1>4. \A c : TellsOf(c, h \o n) = TellsOf(c, h)
  BY <1>1, <1>3
<1>5. ASSUME OnlyAnswers(h), m.kind = "answer" PROVE OnlyAnswers(h \o n)
  <2>1. \A i \in DOMAIN (h \o n) : (i \in DOMAIN h /\ (h \o n)[i] = h[i]) \/ (h \o n)[i] = n[1]
    BY <1>1, <1>2, Joins
  <2> QED BY <1>2, <1>5, <2>1 DEF OnlyAnswers
<1> QED BY <1>1, <1>3, <1>4, <1>5 DEF n

\* Deferred answers tell of no call.
LEMMA DeferredFacts ==
  ASSUME NEW h \in Seq(LogMessages), OnlyAnswers(h)
  PROVE  Mentioned(h) = {} /\ IsWhole(h) /\ \A c : TellsOf(c, h) = {}
BY InputsOnly DEF OnlyAnswers

\* Each of these actions is calm.
LEMMA CalmSteps ==
  ASSUME LogTypes, BatchInv, DeferredInv,
         \/ Exit \/ Interrupt \/ Say \/ ProviderFails \/ Plan \/ Compact \/ StorageFails
         \/ ReportEnd \/ BeginNext \/ UNCHANGED logVars
         \/ (\E p \in Prompts : Submit(p)) \/ (\E q \in Questions : Answer(q))
         \/ (\E c \in Calls : ProcessEnds(c))
  PROVE  Calm
<1> USE DEF process, control, seen, logVars
<1>1. /\ stored \in Snapshots /\ conversation \in Conversations /\ persistence \in {"Ready", "Failed"}
      /\ stored.history \in Seq(LogMessages) /\ stored.deferred \in Seq(LogMessages)
      /\ conversation.history \in Seq(LogMessages) /\ conversation.deferred \in Seq(LogMessages)
      /\ life \in {"up", "down"}
  BY DEF LogTypes, Snapshots, Conversations
\* Neither a history nor what is deferred changes.
<1>2. ASSUME stored' \in Snapshots, conversation' \in Conversations,
             stored'.history = stored.history, stored'.deferred = stored.deferred,
             stored'.pending = stored.pending, SameProcesses(stored, stored'),
             conversation'.history = conversation.history, conversation'.deferred = conversation.deferred,
             UNCHANGED <<batch, ran, life, live>>, used \subseteq used', persistence' \in {persistence, "Failed"}
      PROVE  Calm
  BY <1>1, <1>2 DEF Calm, DeferredInv
<1>3. CASE Exit
  <2>1. conversation' \in Conversations /\ conversation'.history = <<>> /\ conversation'.deferred = <<>>
    BY <1>3 DEF Exit, Conversations
  <2>2. Mentioned(<<>>) = {} /\ (\A c : TellsOf(c, <<>>) = {}) /\ OnlyAnswers(<<>>)
    BY NothingSaid DEF OnlyAnswers
  <2>3. DOMAIN batch' = {} /\ life' = "down"
    BY <1>3, NoCallsTable DEF Exit
  <2> QED BY <1>1, <1>3, <2>1, <2>2, <2>3 DEF Exit, Calm, DeferredInv
<1>4. CASE Interrupt
  <2>1. /\ stored' \in Snapshots /\ stored'.history = stored.history /\ stored'.deferred = stored.deferred
        /\ stored'.pending = stored.pending /\ SameProcesses(stored, stored')
    BY <1>1, <1>4, UnqueuedFields DEF Interrupt
  <2>2. persistence' \in {persistence, "Failed"}
    BY <1>4 DEF Interrupt
  <2> QED BY <1>1, <1>2, <1>4, <2>1, <2>2 DEF Interrupt
<1>5. CASE Say
  <2>1. stored.pending = NoCalls
    BY <1>5, AsksAlone DEF Say
  <2>2. AppendHistory(<<Text>>) /\ <<Text>> \in Seq(LogMessages)
    BY <1>5, InputTypes DEF Say
  <2>3. /\ persistence' \in {persistence, "Failed"}
        /\ SaidInConversation(<<Text>>)
        /\ (stored' = stored /\ persistence' = "Failed") \/ SaidInStored(<<Text>>)
    BY <2>1, <2>2, AppendStep DEF Pending
  <2>4. Text \in LogMessages /\ Text.kind = "text"
    BY InputTypes, InputFields
  <2> DEFINE m == <<Text>>
  <2>5. m \in Seq(LogMessages) /\ Mentioned(m) = {} /\ \A c : TellsOf(c, m) = {}
    BY <2>4, InputAlone
  <2>6. /\ persistence' \in {persistence, "Failed"}
        /\ SaidInConversation(m)
        /\ (stored' = stored /\ persistence' = "Failed") \/ SaidInStored(m)
    BY <2>3
  <2> HIDE DEF m
  <2>7. ASSUME NEW h \in Seq(LogMessages), NEW d \in Seq(LogMessages), OnlyAnswers(d)
        PROVE  Mentioned((h \o m) \o d) = Mentioned(h) /\ \A c : TellsOf(c, (h \o m) \o d) = TellsOf(c, h)
    <3>1. Mentioned(d) = {} /\ \A c : TellsOf(c, d) = {}
      BY <2>7, DeferredFacts
    <3>2. /\ Mentioned((h \o m) \o d) = (Mentioned(h) \cup Mentioned(m)) \cup Mentioned(d)
          /\ \A c : TellsOf(c, (h \o m) \o d) = (TellsOf(c, h) \cup TellsOf(c, m)) \cup TellsOf(c, d)
      BY <2>5, JoinedSetsOfThree
    <3> QED BY <2>5, <3>1, <3>2
  <2>8. OnlyAnswers(<<>>)
    BY DEF OnlyAnswers
  <2>9. UNCHANGED <<batch, ran, life, live, used>>
    BY <1>5 DEF Say
  <2>10. /\ conversation' \in Conversations /\ OnlyAnswers(conversation'.deferred)
         /\ Mentioned(conversation'.history) = Mentioned(conversation.history)
         /\ \A c : TellsOf(c, conversation'.history) = TellsOf(c, conversation.history)
    BY <1>1, <2>6, <2>7, <2>8 DEF SaidInConversation, DeferredInv
  <2>11. /\ stored' \in Snapshots /\ OnlyAnswers(stored'.deferred)
         /\ Mentioned(stored'.history) = Mentioned(stored.history)
         /\ \A c : TellsOf(c, stored'.history) = TellsOf(c, stored.history)
         /\ stored'.pending = stored.pending /\ SameProcesses(stored, stored')
    <3>1. CASE stored' = stored
      BY <1>1, <3>1 DEF DeferredInv, SameProcesses
    <3>2. CASE SaidInStored(m)
      BY <1>1, <2>1, <2>7, <2>8, <3>2 DEF SaidInStored, DeferredInv
    <3> QED BY <2>6, <3>1, <3>2
  <2> QED BY <1>1, <2>6, <2>9, <2>10, <2>11 DEF Calm
<1>6. CASE ProviderFails
  BY <1>1, <1>2, <1>6 DEF ProviderFails, SameProcesses
<1>7. CASE Plan
  BY <1>1, <1>2, <1>7 DEF Plan, SameProcesses
<1>8. CASE Compact
  <2> DEFINE generation == conversation.generation + 1
  <2>1. generation \in Nat /\ plan \in Nat
    BY <1>1 DEF Conversations, LogTypes
  <2>2. (Record(Compacted(stored, plan, generation)) \/ Refuse) /\ persistence' \in {"Ready", "Failed"}
    BY <1>8 DEF Compact
  <2>3. conversation' \in {conversation, [conversation EXCEPT !.through = plan, !.generation = generation]}
    BY <1>1, <1>8 DEF Compact, Conversations
  <2> HIDE DEF generation
  <2>4. stored' \in {stored, Compacted(stored, plan, generation)} /\ persistence' \in {persistence, "Failed"}
    BY <2>2, RecordStep DEF Refuse
  <2>5. /\ stored' \in Snapshots /\ stored'.history = stored.history /\ stored'.deferred = stored.deferred
        /\ stored'.pending = stored.pending /\ SameProcesses(stored, stored')
    <3>1. CASE stored' = stored
      BY <1>1, <3>1 DEF SameProcesses
    <3>2. CASE stored' = Compacted(stored, plan, generation)
      <4> DEFINE n == Compacted(stored, plan, generation)
      <4>1. /\ n \in Snapshots /\ n.history = stored.history /\ n.deferred = stored.deferred
            /\ n.pending = stored.pending /\ SameProcesses(stored, n)
        <5>1. stored \in Snapshots
          BY <1>1
        <5> QED BY <2>1, <5>1, CompactedFields
      <4> QED BY <3>2, <4>1
    <3> QED BY <2>4, <3>1, <3>2
  <2>6. /\ conversation' \in Conversations
        /\ conversation'.history = conversation.history /\ conversation'.deferred = conversation.deferred
    BY <1>1, <2>1, <2>3 DEF Conversations
  <2>7. UNCHANGED <<batch, ran, life, live, used>>
    BY <1>8 DEF Compact
  <2> QED BY <1>2, <2>4, <2>5, <2>6, <2>7
<1>9. CASE StorageFails
  BY <1>1, <1>2, <1>9 DEF StorageFails, SameProcesses
<1>10. CASE ReportEnd
  <2>1. Record(Unqueued(stored, {turn}))
    BY <1>10 DEF ReportEnd
  <2>2. stored' \in {stored, Unqueued(stored, {turn})} /\ persistence' \in {persistence, "Failed"}
    BY <2>1, RecordStep
  <2>3. /\ stored' \in Snapshots /\ stored'.history = stored.history /\ stored'.deferred = stored.deferred
        /\ stored'.pending = stored.pending /\ SameProcesses(stored, stored')
    BY <1>1, <2>2, UnqueuedFields DEF SameProcesses
  <2> QED BY <1>1, <1>2, <1>10, <2>2, <2>3 DEF ReportEnd
\* A turn begins.
<1>11. ASSUME NEW p \in Prompts, BeginTurn(p), UNCHANGED <<batch, ran, life, live>>, used \subseteq used'
       PROVE  Calm
  <2>1. /\ persistence' \in {persistence, "Failed"} /\ stored' \in {stored, Began(stored, p)}
        /\ conversation' \in Conversations
        /\ conversation'.history = conversation.history \o <<Input("prompt", p)>>
        /\ conversation'.deferred = conversation.deferred
    BY <1>11, BeginStep
  <2> DEFINE m == Input("prompt", p)
  <2>2. m \in LogMessages /\ m.kind = "prompt"
    BY InputTypes, InputFields
  <2>3. /\ Began(stored, p) \in Snapshots /\ Began(stored, p).pending = stored.pending
        /\ Began(stored, p).deferred = stored.deferred /\ SameProcesses(stored, Began(stored, p))
        /\ Began(stored, p).history = stored.history \o <<m>>
    BY <1>1, BeganFields
  <2>4. conversation'.history = conversation.history \o <<m>>
    BY <2>1
  <2> HIDE DEF m
  <2>5. /\ Mentioned(stored.history \o <<m>>) = Mentioned(stored.history)
        /\ \A c : TellsOf(c, stored.history \o <<m>>) = TellsOf(c, stored.history)
        /\ Mentioned(conversation.history \o <<m>>) = Mentioned(conversation.history)
        /\ \A c : TellsOf(c, conversation.history \o <<m>>) = TellsOf(c, conversation.history)
    BY <1>1, <2>2, Joined
  <2>6. /\ stored' \in Snapshots /\ stored'.pending = stored.pending /\ stored'.deferred = stored.deferred
        /\ SameProcesses(stored, stored') /\ Mentioned(stored'.history) = Mentioned(stored.history)
        /\ \A c : TellsOf(c, stored'.history) = TellsOf(c, stored.history)
    <3>1. CASE stored' = stored
      BY <1>1, <3>1 DEF SameProcesses
    <3>2. CASE stored' = Began(stored, p)
      BY <2>3, <2>5, <3>2
    <3> QED BY <2>1, <3>1, <3>2
  <2> QED BY <1>1, <1>11, <2>1, <2>4, <2>5, <2>6 DEF Calm, DeferredInv
<1>12. CASE BeginNext
  <2>1. UNCHANGED <<batch, ran, life, live, used>>
    BY <1>12 DEF BeginNext
  <2>2. CASE UNCHANGED <<stored, conversation, persistence>>
    BY <1>1, <1>2, <2>1, <2>2 DEF SameProcesses
  <2>3. CASE queue # <<>> /\ BeginTurn(Head(queue))
    <3>1. Head(queue) \in Prompts
      BY <2>3, HeadTailProperties DEF LogTypes
    <3> QED BY <1>11, <2>1, <2>3, <3>1
  <2> QED BY <1>12, <2>2, <2>3 DEF BeginNext
<1>13. CASE UNCHANGED logVars
  BY <1>1, <1>2, <1>13 DEF SameProcesses
<1>14. ASSUME NEW p \in Prompts, Submit(p) PROVE Calm
  <2>1. UNCHANGED <<batch, ran, life, live>> /\ used' = used \cup {p}
    BY <1>14 DEF Submit
  <2>2. CASE BeginTurn(p)
    BY <1>11, <2>1, <2>2
  <2>3. CASE Record(Queued(stored, p)) /\ UNCHANGED conversation
    <3>1. stored' \in {stored, Queued(stored, p)} /\ persistence' \in {persistence, "Failed"}
      BY <2>3, RecordStep
    <3>2. /\ stored' \in Snapshots /\ stored'.history = stored.history /\ stored'.deferred = stored.deferred
          /\ stored'.pending = stored.pending /\ SameProcesses(stored, stored')
      BY <1>1, <3>1, QueuedFields DEF SameProcesses
    <3> QED BY <1>1, <1>2, <2>1, <2>3, <3>1, <3>2
  <2> QED BY <1>14, <2>2, <2>3 DEF Submit
<1>15. ASSUME NEW q \in Questions, Answer(q) PROVE Calm
  <2> DEFINE m == Input("answer", q)
  <2>1. m \in LogMessages /\ m.kind = "answer"
    BY InputTypes, InputFields
  <2>2. Record(Answered(stored, q)) /\ UNCHANGED <<batch, ran, life, live, used>>
    BY <1>15 DEF Answer
  <2>3. stored' \in {stored, Answered(stored, q)} /\ persistence' \in {persistence, "Failed"}
    BY <2>2, RecordStep
  <2>4. /\ Answered(stored, q) \in Snapshots /\ Answered(stored, q).pending = stored.pending
        /\ SameProcesses(stored, Answered(stored, q))
        /\ \/ Answered(stored, q).deferred = stored.deferred /\ Answered(stored, q).history = stored.history \o <<m>>
           \/ Answered(stored, q).history = stored.history /\ Answered(stored, q).deferred = stored.deferred \o <<m>>
    BY <1>1, AnsweredFields
  <2>5. conversation' \in {conversation, [conversation EXCEPT !.deferred = Append(@, m)],
                                         [conversation EXCEPT !.history = Append(@, m)]}
    BY <1>15 DEF Answer
  <2> HIDE DEF m
  <2>6. /\ Append(conversation.history, m) = conversation.history \o <<m>>
        /\ Append(conversation.deferred, m) = conversation.deferred \o <<m>>
    BY <1>1, <2>1, AppendIsConcat
  <2>7. /\ \A h \in {stored.history, conversation.history} :
              h \o <<m>> \in Seq(LogMessages) /\ Mentioned(h \o <<m>>) = Mentioned(h)
              /\ \A c : TellsOf(c, h \o <<m>>) = TellsOf(c, h)
        /\ \A h \in {stored.deferred, conversation.deferred} :
              h \o <<m>> \in Seq(LogMessages) /\ OnlyAnswers(h \o <<m>>)
    BY <1>1, <2>1, Joined DEF DeferredInv
  <2>8. /\ stored' \in Snapshots /\ stored'.pending = stored.pending /\ SameProcesses(stored, stored')
        /\ OnlyAnswers(stored'.deferred) /\ Mentioned(stored'.history) = Mentioned(stored.history)
        /\ \A c : TellsOf(c, stored'.history) = TellsOf(c, stored.history)
    <3>1. CASE stored' = stored
      BY <1>1, <3>1 DEF SameProcesses, DeferredInv
    <3>2. CASE stored' = Answered(stored, q)
      BY <2>4, <2>7, <3>2 DEF DeferredInv
    <3> QED BY <2>3, <3>1, <3>2
  <2>9. /\ conversation' \in Conversations /\ OnlyAnswers(conversation'.deferred)
        /\ Mentioned(conversation'.history) = Mentioned(conversation.history)
        /\ \A c : TellsOf(c, conversation'.history) = TellsOf(c, conversation.history)
    <3>1. CASE conversation' = conversation
      BY <1>1, <3>1 DEF DeferredInv
    <3>2. CASE conversation' = [conversation EXCEPT !.deferred = Append(@, m)]
      <4>1. conversation' \in Conversations
        BY <1>1, <2>6, <2>7, <3>2 DEF Conversations
      <4>2. conversation'.history = conversation.history /\ conversation'.deferred = conversation.deferred \o <<m>>
        BY <1>1, <2>6, <3>2 DEF Conversations
      <4> QED BY <2>7, <4>1, <4>2
    <3>3. CASE conversation' = [conversation EXCEPT !.history = Append(@, m)]
      <4>1. conversation' \in Conversations
        BY <1>1, <2>6, <2>7, <3>3 DEF Conversations
      <4>2. conversation'.deferred = conversation.deferred /\ conversation'.history = conversation.history \o <<m>>
        BY <1>1, <2>6, <3>3 DEF Conversations
      <4> QED BY <2>7, <4>1, <4>2 DEF DeferredInv
    <3> QED BY <2>5, <3>1, <3>2, <3>3
  <2> QED BY <1>1, <2>2, <2>3, <2>8, <2>9 DEF Calm
<1>16. ASSUME NEW c \in Calls, ProcessEnds(c) PROVE Calm
  <2>1. /\ Record(ProcessCompleted(stored, c)) /\ c \in Starters /\ live' = live \ {c}
        /\ UNCHANGED <<conversation, batch, ran, used, life>>
    BY <1>16 DEF ProcessEnds, LogTypes
  <2>2. /\ stored' \in {stored, ProcessCompleted(stored, c)} /\ persistence' \in {persistence, "Failed"}
        /\ stored' # ProcessCompleted(stored, c) => persistence' = "Failed"
    BY <2>1, RecordStep
  <2>3. /\ stored' \in Snapshots /\ stored'.history = stored.history /\ stored'.deferred = stored.deferred
        /\ stored'.pending = stored.pending
        /\ persistence' = "Failed" \/
             \A d \in Starters : stored'.processes[d] = IF d = c THEN "ended" ELSE stored.processes[d]
    BY <1>1, <2>1, <2>2, ProcessCompletedFields
  <2> QED BY <1>1, <2>1, <2>2, <2>3 DEF Calm, DeferredInv
<1> QED BY <1>3, <1>4, <1>5, <1>6, <1>7, <1>8, <1>9, <1>10, <1>12, <1>13, <1>14, <1>15, <1>16

-----------------------------------------------------------------------------
(* Calls that took effect                                                  *)

\* What a history tells, and of what.
LEMMA TellsAndMentions ==
  ASSUME NEW h, NEW c
  PROVE  (c \in Mentioned(h) => TellsOf(c, h) # {}) /\ (c \notin Mentioned(h) => TellsOf(c, h) = {})
BY DEF Mentioned, TellsOf

\* What ends a batch tells of each of its calls, and nothing wrong of those
\* that took effect, whether it is told by the snapshot or by the machine.
LEMMA ExchangeTells ==
  ASSUME LogTypes, BatchInv, EffectsInv, Quiet, batch # NoCalls, NEW m \in Seq(LogMessages),
         m = MachineExchange \/ (Pending(stored) /\ m = Exchange(stored.pending))
  PROVE  /\ Mentioned(m) \subseteq DOMAIN batch /\ DOMAIN stored.pending \subseteq Mentioned(m)
         /\ \A c \in ran : TellsOf(c, m) \subseteq {"uncertain", "done"}
         /\ AnswersOf(m) = {} /\ ItemsOf(m) = {NoItem} /\ IsWhole(m) /\ Len(m) = 2
<1>1. DOMAIN stored.pending \subseteq DOMAIN batch
  BY DEF BatchInv
<1>2. CASE m = MachineExchange
  <2>1. batch \in Tables(Tellable) /\ m = Exchange(batch)
    BY <1>2, MachineMessages DEF MachineExchange
  <2>2. /\ Mentioned(m) = DOMAIN batch
        /\ \A c : TellsOf(c, m) = {Told(batch[d]) : d \in DOMAIN batch \cap {c}}
        /\ AnswersOf(m) = {} /\ ItemsOf(m) = {NoItem} /\ IsWhole(m) /\ Len(m) = 2
    BY <2>1, ExchangeFacts
  <2>3. ASSUME NEW c \in ran, c \in DOMAIN batch PROVE Told(batch[c]) \in {"uncertain", "done"}
    <3>1. batch[c] # "never"
      BY <2>3 DEF EffectsInv
    <3>2. c \in DOMAIN stored.pending /\ <<batch[c], stored.pending[c]>> \in Steps
      BY <2>3, <3>1 DEF BatchInv
    <3>3. stored.pending[c] \in {"intended", "done"} /\ batch[c] \notin {"intended", "ran"}
      BY <2>3, <3>2 DEF EffectsInv, Quiet
    <3>4. batch[c] \in {"uncertain", "done"}
      BY <3>2, <3>3 DEF Steps
    <3> QED BY <3>4 DEF Told
  <2>4. \A c \in ran : TellsOf(c, m) \subseteq {"uncertain", "done"}
    BY <2>2, <2>3
  <2> QED BY <1>1, <2>2, <2>4
<1>3. CASE Pending(stored) /\ m = Exchange(stored.pending)
  <2>1. stored \in Snapshots /\ m = Unanswered(stored)
    BY <1>3 DEF LogTypes, Unanswered
  <2>2. /\ Mentioned(m) = DOMAIN stored.pending
        /\ \A c : TellsOf(c, m) = {Told(stored.pending[d]) : d \in DOMAIN stored.pending \cap {c}}
    BY <2>1, UnansweredMessages
  <2>3. AnswersOf(m) = {} /\ ItemsOf(m) = {NoItem} /\ IsWhole(m) /\ Len(m) = 2
    <3>1. stored.pending \in Tables(Tellable)
      <4>1. DOMAIN stored.pending \in SUBSET Calls /\ stored.pending \in [DOMAIN stored.pending -> OpStates]
        BY <2>1, TableFacts DEF Snapshots
      <4>2. stored.pending \in [DOMAIN stored.pending -> Tellable]
        BY <4>1 DEF Tellable, JobStates, OpStates
      <4> QED BY <4>1, <4>2 DEF Tables
    <3> QED BY <1>3, <3>1, ExchangeFacts
  <2>4. ASSUME NEW c \in ran, c \in DOMAIN stored.pending PROVE Told(stored.pending[c]) \in {"uncertain", "done"}
    BY <2>4 DEF EffectsInv, Told
  <2>5. \A c \in ran : TellsOf(c, m) \subseteq {"uncertain", "done"}
    BY <2>2, <2>4
  <2> QED BY <1>1, <2>2, <2>3, <2>5
<1> QED BY <1>2, <1>3

\* The end of a batch: its messages are recorded, and the process drops it.
BatchCloses(m) ==
  /\ life = "up" /\ life' = "up" /\ batch # NoCalls /\ batch' = NoCalls /\ Quiet
  /\ m \in Seq(LogMessages)
  /\ m = MachineExchange \/ (Pending(stored) /\ m = Exchange(stored.pending))
  /\ persistence' = "Ready" /\ Pending(stored) => m = Exchange(stored.pending)
  /\ SaidInConversation(m)
  /\ (stored' = stored /\ persistence' = "Failed") \/ SaidInStored(m)
  /\ persistence' \in {persistence, "Failed"}
  /\ UNCHANGED <<lives, turn, queue, plan, texts, used, live, seen>>

\* At the end of a batch its messages are recorded, or nothing is.
LEMMA EndCases ==
  ASSUME LogTypes, BatchInv, BatchEnds \/ FinishHistory
  PROVE  (\E m : BatchCloses(m)) \/ UNCHANGED <<stored, conversation, persistence, batch, process, ran, live, used>>
<1> USE DEF process, control, seen
\* The messages of the machine are recorded.
<1>2. ASSUME AppendHistory(MachineExchange), batch # NoCalls, batch' = NoCalls, Quiet, life = "up", UNCHANGED process,
             UNCHANGED <<turn, queue, plan, texts, used, live, seen>>
      PROVE  \E m : BatchCloses(m)
  <2>1. MachineExchange \in Seq(LogMessages)
    BY <1>2, MachineMessages
  <2>2. PICK m \in Seq(LogMessages) :
          /\ m = MachineExchange \/ (Pending(stored) /\ m = Exchange(stored.pending))
          /\ persistence' = "Ready" /\ Pending(stored) => m = Exchange(stored.pending)
          /\ SaidInConversation(m)
          /\ (stored' = stored /\ persistence' = "Failed") \/ SaidInStored(m)
    BY <1>2, <2>1, AppendStep
  <2>3. persistence' \in {persistence, "Failed"}
    BY <1>2, <2>1, AppendStep
  <2>4. BatchCloses(m)
    BY <1>2, <2>2, <2>3 DEF BatchCloses
  <2> QED BY <2>4
<1>4. CASE BatchEnds
  <2>1. /\ Quiet /\ life = "up" /\ batch # NoCalls /\ UNCHANGED <<process, turn, queue, plan, texts, used, live, seen>>
    BY <1>4 DEF BatchEnds, BatchInv
  <2>2. CASE AppendHistory(MachineExchange) /\ batch' = NoCalls
    BY <1>2, <2>1, <2>2
  <2>3. CASE UNCHANGED <<stored, conversation, persistence, batch, failures>>
    BY <2>1, <2>3
  <2> QED BY <1>4, <2>2, <2>3 DEF BatchEnds
<1>5. CASE FinishHistory
  <2>1. /\ Quiet /\ life = "up" /\ batch' = NoCalls
        /\ UNCHANGED <<process, turn, queue, plan, texts, used, live, seen>>
    BY <1>5 DEF FinishHistory
  <2>2. CASE batch = NoCalls
    BY <1>5, <2>1, <2>2 DEF FinishHistory
  <2>3. CASE batch # NoCalls
    BY <1>2, <1>5, <2>1, <2>3 DEF FinishHistory
  <2> QED BY <2>2, <2>3
<1> QED BY <1>4, <1>5

\* What remains of the actions: those that are not calm end or start a batch,
\* recover the session or are a step of a job.
LEMMA NextCases ==
  ASSUME LogTypes, BatchInv, DeferredInv, [LogNext]_logVars
  PROVE  \/ Calm \/ Resume \/ (\E m : BatchCloses(m))
         \/ (\E ops \in SUBSET Calls : Launch(ops))
         \/ (\E c \in Calls : Intend(c) \/ Decline(c) \/ TakeEffect(c) \/ Complete(c))
<1> USE DEF process, control, seen, logVars
<1>1. stored \in Snapshots /\ conversation \in Conversations
  BY DEF LogTypes
<1>2. CASE UNCHANGED <<stored, conversation, persistence, batch, process, ran, live, used>>
  BY <1>1, <1>2 DEF Calm, SameProcesses, DeferredInv, LogTypes
<1>3. ASSUME \/ Exit \/ Interrupt \/ Say \/ ProviderFails \/ Plan \/ Compact \/ StorageFails
             \/ ReportEnd \/ BeginNext \/ UNCHANGED logVars
             \/ (\E p \in Prompts : Submit(p)) \/ (\E q \in Questions : Answer(q))
             \/ (\E c \in Calls : ProcessEnds(c))
      PROVE  Calm
  BY <1>3, CalmSteps
<1> QED BY <1>2, <1>3, EndCases DEF LogNext

\* Deferred messages are answers.
LEMMA DeferredStep ==
  ASSUME LogTypes, BatchInv, DeferredInv, [LogNext]_logVars
  PROVE  DeferredInv'
<1>1. OnlyAnswers(<<>>)
  BY DEF OnlyAnswers
<1>2. CASE Calm
  BY <1>2 DEF Calm, DeferredInv
<1>3. CASE Resume
  <2>1. stored'.deferred = <<>>
    BY <1>3, RecoveredFields DEF Resume, LogTypes
  <2>2. conversation'.deferred = stored'.deferred
    BY <1>3 DEF Resume
  <2> QED BY <1>1, <2>1, <2>2 DEF DeferredInv
<1>4. ASSUME NEW m, BatchCloses(m) PROVE DeferredInv'
  BY <1>1, <1>4 DEF BatchCloses, SaidInConversation, SaidInStored, DeferredInv
<1>5. ASSUME NEW ops \in SUBSET Calls, Launch(ops) PROVE DeferredInv'
  <2> DEFINE t == [c \in ops |-> "queued"]
  <2>1. UNCHANGED conversation /\ stored' \in {stored, Prepared(stored, t)}
    BY <1>5, LaunchStep
  <2>2. t \in Tables(OpStates)
    BY TableOf DEF OpStates
  <2> HIDE DEF t
  <2>3. stored'.deferred = stored.deferred
    BY <2>1, <2>2, PreparedFields DEF LogTypes
  <2> QED BY <2>1, <2>3 DEF DeferredInv
<1>6. ASSUME NEW c \in Calls, Intend(c) \/ Decline(c) \/ TakeEffect(c) \/ Complete(c) PROVE DeferredInv'
  <2>1. JobFrame(c)
    BY <1>6, JobActions
  <2> QED BY <2>1 DEF JobFrame, DeferredInv
<1> QED BY <1>2, <1>3, <1>4, <1>5, <1>6, NextCases

\* A call stays where it is told of.
LEMMA EffectsStep ==
  ASSUME LogTypes, BatchInv, DeferredInv, EffectsInv, [LogNext]_logVars
  PROVE  EffectsInv'
<1>1. /\ stored \in Snapshots /\ conversation \in Conversations
      /\ stored.history \in Seq(LogMessages) /\ stored.deferred \in Seq(LogMessages)
      /\ conversation.history \in Seq(LogMessages) /\ conversation.deferred \in Seq(LogMessages)
      /\ DOMAIN NoCalls = {}
  BY NoCallsTable DEF LogTypes, Snapshots, Conversations
<1>2. CASE Calm
  <2>1. /\ ran' = ran /\ used \subseteq used' /\ stored'.pending = stored.pending
        /\ DOMAIN batch' \subseteq DOMAIN batch /\ \A c \in DOMAIN batch' : batch'[c] = batch[c]
        /\ Mentioned(stored'.history) = Mentioned(stored.history)
        /\ Mentioned(conversation'.history) \subseteq Mentioned(conversation.history)
    BY <1>2 DEF Calm
  <2>2. \A c \in ran : TellsOf(c, stored'.history) \cup TellsOf(c, conversation'.history) \subseteq {"uncertain", "done"}
    BY <1>2 DEF Calm, EffectsInv
  <2> QED BY <2>1, <2>2 DEF EffectsInv
<1>3. CASE Resume
  <2>1. /\ stored' = Recovered(stored) /\ conversation'.history = stored'.history
        /\ UNCHANGED <<batch, used, seen>> /\ life = "down"
    BY <1>3 DEF Resume
  <2>2. batch = NoCalls
    BY <2>1 DEF BatchInv
  <2> DEFINE a == stored.history
             e == Evidence(stored)
             r == RecoveredInput(stored)
  <2>3. stored'.history = (a \o e) \o r /\ stored'.pending = NoCalls
    BY <1>1, <2>1, RecoveredFields
  <2>4. /\ e \in Seq(LogMessages) /\ Mentioned(e) = {} /\ \A c : TellsOf(c, e) = {}
    BY <1>1, EvidenceMessages
  <2>5. /\ r \in Seq(LogMessages) /\ Mentioned(r) = DOMAIN stored.pending
        /\ \A c : TellsOf(c, r) = {Told(stored.pending[d]) : d \in DOMAIN stored.pending \cap {c}}
    BY <1>1, RecoveredInputFacts DEF DeferredInv
  <2>6. a \in Seq(LogMessages)
    BY <1>1
  <2> HIDE DEF e, r
  <2>7. /\ Mentioned(stored'.history) = (Mentioned(a) \cup Mentioned(e)) \cup Mentioned(r)
        /\ \A c : TellsOf(c, stored'.history) = (TellsOf(c, a) \cup TellsOf(c, e)) \cup TellsOf(c, r)
    <3>1. e \in Seq(LogMessages) /\ r \in Seq(LogMessages)
      BY <2>4, <2>5
    <3> HIDE DEF a
    <3> QED BY <2>3, <2>6, <3>1, JoinedSetsOfThree
  <2>8. Mentioned(stored'.history) = Mentioned(stored.history) \cup DOMAIN stored.pending
    BY <2>4, <2>5, <2>7
  <2>9. \A c \in ran : TellsOf(c, stored'.history) \subseteq {"uncertain", "done"}
    <3>1. SUFFICES ASSUME NEW c \in ran PROVE TellsOf(c, stored'.history) \subseteq {"uncertain", "done"}
      OBVIOUS
    <3>2. TellsOf(c, stored.history) \subseteq {"uncertain", "done"}
      BY DEF EffectsInv
    <3>3. c \in DOMAIN stored.pending => Told(stored.pending[c]) \in {"uncertain", "done"}
      BY DEF EffectsInv, Told
    <3>4. TellsOf(c, r) \subseteq {"uncertain", "done"}
      BY <2>5, <3>3
    <3> QED BY <2>4, <2>7, <3>2, <3>4
  <2>10. ran' = ran /\ used' = used /\ batch' = NoCalls
    BY <2>1, <2>2 DEF seen
  <2> HIDE DEF a
  <2> QED BY <1>1, <2>1, <2>3, <2>8, <2>9, <2>10 DEF EffectsInv
<1>4. ASSUME NEW m, BatchCloses(m) PROVE EffectsInv'
  <2>1. /\ batch # NoCalls /\ batch' = NoCalls /\ Quiet /\ m \in Seq(LogMessages) /\ SaidInConversation(m)
        /\ m = MachineExchange \/ (Pending(stored) /\ m = Exchange(stored.pending))
        /\ stored' = stored \/ SaidInStored(m)
        /\ ran' = ran /\ used' = used
    BY <1>4 DEF BatchCloses, seen
  <2>2. /\ Mentioned(m) \subseteq DOMAIN batch /\ DOMAIN stored.pending \subseteq Mentioned(m)
        /\ \A c \in ran : TellsOf(c, m) \subseteq {"uncertain", "done"}
    BY <2>1, ExchangeTells
  <2>3. ASSUME NEW h \in Seq(LogMessages), NEW d \in Seq(LogMessages), OnlyAnswers(d)
        PROVE  /\ Mentioned((h \o m) \o d) = Mentioned(h) \cup Mentioned(m)
               /\ \A c : TellsOf(c, (h \o m) \o d) = TellsOf(c, h) \cup TellsOf(c, m)
    <3>1. Mentioned(d) = {} /\ \A c : TellsOf(c, d) = {}
      BY <2>3, DeferredFacts
    <3>2. /\ Mentioned((h \o m) \o d) = (Mentioned(h) \cup Mentioned(m)) \cup Mentioned(d)
          /\ \A c : TellsOf(c, (h \o m) \o d) = (TellsOf(c, h) \cup TellsOf(c, m)) \cup TellsOf(c, d)
      BY <2>1, JoinedSetsOfThree
    <3> QED BY <3>1, <3>2
  <2>4. /\ Mentioned(conversation'.history) = Mentioned(conversation.history) \cup Mentioned(m)
        /\ \A c : TellsOf(c, conversation'.history) = TellsOf(c, conversation.history) \cup TellsOf(c, m)
    BY <1>1, <2>1, <2>3 DEF SaidInConversation, DeferredInv
  <2>5. \/ stored' = stored
        \/ /\ stored'.pending = NoCalls
           /\ Mentioned(stored'.history) = Mentioned(stored.history) \cup Mentioned(m)
           /\ \A c : TellsOf(c, stored'.history) = TellsOf(c, stored.history) \cup TellsOf(c, m)
    <3>1. CASE SaidInStored(m)
      <4>1. stored'.pending = NoCalls /\ stored'.history = (stored.history \o m) \o stored.deferred
        BY <3>1 DEF SaidInStored
      <4>2. OnlyAnswers(stored.deferred)
        BY DEF DeferredInv
      <4> QED BY <1>1, <2>3, <4>1, <4>2
    <3> QED BY <2>1, <3>1
  <2>6. DOMAIN batch \subseteq used /\ DOMAIN batch' = {}
    BY <1>1, <2>1 DEF EffectsInv
  <2>7. CASE stored' = stored
    BY <1>1, <2>1, <2>2, <2>4, <2>6, <2>7 DEF EffectsInv
  <2>8. CASE /\ stored'.pending = NoCalls
             /\ Mentioned(stored'.history) = Mentioned(stored.history) \cup Mentioned(m)
             /\ \A c : TellsOf(c, stored'.history) = TellsOf(c, stored.history) \cup TellsOf(c, m)
    BY <1>1, <2>1, <2>2, <2>4, <2>6, <2>8 DEF EffectsInv
  <2> QED BY <2>5, <2>7, <2>8
<1>5. ASSUME NEW ops \in SUBSET Calls, Launch(ops) PROVE EffectsInv'
  <2> DEFINE t == [c \in ops |-> "queued"]
  <2>1. /\ UNCHANGED <<conversation, ran>> /\ stored' \in {stored, Prepared(stored, t)}
        /\ stored.pending = NoCalls /\ ops \cap used = {} /\ used' = used \cup ops /\ DOMAIN batch' = ops
    BY <1>5, LaunchStep DEF seen
  <2>2. t \in Tables(OpStates) /\ DOMAIN t = ops
    BY TableOf DEF OpStates
  <2> HIDE DEF t
  <2>3. stored'.history = stored.history /\ stored'.pending \in {NoCalls, t}
    BY <1>1, <2>1, <2>2, PreparedFields
  <2>4. DOMAIN stored'.pending \subseteq ops
    BY <1>1, <2>2, <2>3
  <2>5. ran \subseteq used /\ Mentioned(stored.history) \cup Mentioned(conversation.history) \subseteq used
    BY DEF EffectsInv
  <2>6. \A c \in ran : c \in Mentioned(stored.history)
    BY <1>1, <2>1 DEF EffectsInv
  <2> QED BY <2>1, <2>3, <2>4, <2>5, <2>6 DEF EffectsInv
<1>6. ASSUME NEW c \in Calls, Intend(c) \/ Decline(c) \/ TakeEffect(c) \/ Complete(c) PROVE EffectsInv'
  <2>1. JobFrame(c)
    BY <1>6, JobActions
  <2>2. /\ UNCHANGED <<conversation, used>> /\ stored'.history = stored.history
        /\ DOMAIN batch' = DOMAIN batch /\ DOMAIN stored'.pending = DOMAIN stored.pending
        /\ c \in DOMAIN batch /\ c \in DOMAIN stored.pending
        /\ \A d \in DOMAIN batch : d # c => batch'[d] = batch[d]
        /\ \A d \in DOMAIN stored.pending : d # c => stored'.pending[d] = stored.pending[d]
        /\ batch[c] # "never" /\ batch'[c] # "never"
    BY <2>1 DEF JobFrame
  <2>3. CASE TakesEffect(c)
    <3>1. ran' = ran \cup {c} /\ stored' = stored /\ stored.pending[c] = "intended"
      BY <2>3 DEF TakesEffect
    <3>2. c \in used /\ c \notin Mentioned(stored.history) /\ c \notin Mentioned(conversation.history)
      BY <2>2 DEF EffectsInv
    <3>3. TellsOf(c, stored.history) = {} /\ TellsOf(c, conversation.history) = {}
      BY <3>2, TellsAndMentions
    <3> QED BY <2>2, <3>1, <3>2, <3>3 DEF EffectsInv
  <2>4. CASE /\ UNCHANGED ran
             /\ stored.pending[c] \in {"intended", "done"} => stored'.pending[c] \in {"intended", "done"}
    BY <2>2, <2>4 DEF EffectsInv
  <2> QED BY <1>6, <2>3, <2>4, JobActions
<1> QED BY <1>2, <1>3, <1>4, <1>5, <1>6, NextCases

\* A process that is said to run does.
LEMMA ProcessStep ==
  ASSUME LogTypes, BatchInv, DeferredInv, ProcessInv, [LogNext]_logVars
  PROVE  ProcessInv'
<1>1. stored \in Snapshots /\ life \in {"up", "down"} /\ DOMAIN NoCalls = {}
  BY NoCallsTable DEF LogTypes
<1>2. CASE Calm
  <2>1. SUFFICES ASSUME life' = "up", persistence' = "Ready", NEW c \in Starters
                 PROVE  /\ stored'.processes[c] = "running" => c \in live'
                        /\ c \in DOMAIN batch' /\ batch'[c] = "ran" => c \in live' \/ stored'.processes[c] = "ended"
    BY DEF ProcessInv
  <2>2. life = "up" /\ persistence = "Ready" /\ DOMAIN batch' \subseteq DOMAIN batch
        /\ \A d \in DOMAIN batch' : batch'[d] = batch[d]
    BY <1>2, <2>1 DEF Calm
  <2>3. CASE SameProcesses(stored, stored') /\ UNCHANGED live
    BY <2>2, <2>3 DEF SameProcesses, ProcessInv
  <2>4. ASSUME NEW d \in Starters, live' = live \ {d},
               \A e \in Starters : stored'.processes[e] = IF e = d THEN "ended" ELSE stored.processes[e]
        PROVE  /\ stored'.processes[c] = "running" => c \in live'
               /\ c \in DOMAIN batch' /\ batch'[c] = "ran" => c \in live' \/ stored'.processes[c] = "ended"
    BY <2>2, <2>4 DEF ProcessInv
  <2> QED BY <1>2, <2>1, <2>3, <2>4 DEF Calm
<1>3. CASE Resume
  <2>1. batch' = NoCalls
    BY <1>3 DEF Resume, BatchInv
  <2>2. \A c \in Starters : stored'.processes[c] # "running"
    BY <1>1, <1>3, RecoveredFields DEF Resume
  <2> QED BY <1>1, <2>1, <2>2 DEF ProcessInv
<1>4. ASSUME NEW m, BatchCloses(m) PROVE ProcessInv'
  <2>1. /\ life = "up" /\ batch' = NoCalls /\ UNCHANGED live /\ persistence' \in {persistence, "Failed"}
        /\ persistence' = "Failed" \/ SameProcesses(stored, stored')
    BY <1>4 DEF BatchCloses, SaidInStored
  <2> QED BY <1>1, <2>1 DEF SameProcesses, ProcessInv
<1>5. ASSUME NEW ops \in SUBSET Calls, Launch(ops) PROVE ProcessInv'
  <2> DEFINE t == [c \in ops |-> "queued"]
  <2>1. /\ life = "up" /\ UNCHANGED live /\ stored' \in {stored, Prepared(stored, t)} /\ DOMAIN batch' = ops
        /\ \A c \in ops : batch'[c] \in {"queued", "never"}
        /\ persistence' = "Ready" => persistence = "Ready"
    BY <1>5, LaunchStep
  <2>2. t \in Tables(OpStates)
    BY TableOf DEF OpStates
  <2> HIDE DEF t
  <2>3. stored'.processes = stored.processes
    BY <1>1, <2>1, <2>2, PreparedFields DEF SameProcesses
  <2>4. \A c \in DOMAIN batch' : batch'[c] # "ran"
    BY <2>1
  <2> QED BY <2>1, <2>3, <2>4 DEF ProcessInv
<1>6. ASSUME NEW c \in Calls, Intend(c) \/ Decline(c) \/ TakeEffect(c) \/ Complete(c) PROVE ProcessInv'
  <2>1. JobFrame(c)
    BY <1>6, JobActions
  <2>2. /\ UNCHANGED <<persistence, process>> /\ life = "up"
        /\ DOMAIN batch' = DOMAIN batch /\ c \in DOMAIN batch
        /\ \A d \in DOMAIN batch : d # c => batch'[d] = batch[d]
    BY <2>1 DEF JobFrame
  <2>3. CASE TakesEffect(c)
    BY <2>2, <2>3 DEF TakesEffect, ProcessInv
  <2>4. CASE UNCHANGED live /\ SameProcesses(stored, stored') /\ batch'[c] # "ran"
    BY <2>2, <2>4 DEF SameProcesses, ProcessInv
  <2>5. CASE Starts(c)
    BY <2>2, <2>5 DEF Starts, ProcessInv
  <2> QED BY <1>6, <2>3, <2>4, <2>5, JobActions
<1> QED BY <1>2, <1>3, <1>4, <1>5, <1>6, NextCases

-----------------------------------------------------------------------------

\* What the proofs below stand on.
SafeInv == LogTypes /\ BatchInv /\ DeferredInv /\ EffectsInv /\ ProcessInv

\* No operation and no process at first.
LEMMA SafeInit == LogInit => SafeInv
<1> SUFFICES ASSUME LogInit PROVE SafeInv
  OBVIOUS
<1>1. NoCalls \in Tables(OpStates) /\ NoCalls \in Tables(JobStates) /\ DOMAIN NoCalls = {}
  BY NoCallsTable
<1>2. stored \in Snapshots /\ conversation \in Conversations
  BY <1>1 DEF LogInit, Snapshots, Conversations
<1>3. LogTypes
  BY <1>1, <1>2 DEF LogInit, LogTypes
<1>4. BatchInv
  BY <1>1 DEF LogInit, BatchInv
<1>5. DeferredInv
  BY DEF LogInit, DeferredInv, OnlyAnswers
<1>6. EffectsInv
  BY <1>1, NothingSaid DEF LogInit, EffectsInv
<1>7. ProcessInv
  BY <1>1 DEF LogInit, ProcessInv
<1> QED BY <1>3, <1>4, <1>5, <1>6, <1>7 DEF SafeInv

\* Every step keeps what is said of operations and processes.
LEMMA SafeStep == SafeInv /\ [LogNext]_logVars => SafeInv'
BY LogTypesStep, BatchStep, DeferredStep, EffectsStep, ProcessStep DEF SafeInv

\* So it holds in every life.
LEMMA SafeAlways == LogSpec => []SafeInv
BY SafeInit, SafeStep, PTL DEF LogSpec

\* Type correctness of the snapshot, the conversation and the turn.
THEOREM LogTypeCorrect == LogSpec => []LogTypes
<1>1. SafeInv => LogTypes
  BY DEF SafeInv
<1> QED BY <1>1, SafeAlways, PTL

\* A call that took effect is never lost and never said not to have run, over
\* all crashes and failed records; a saved process is said to run only while it
\* does.
THEOREM EffectsSurvive == LogSpec => []EffectsAreTold
<1>1. ASSUME SafeInv PROVE EffectsAreTold
  <2>1. /\ stored \in Snapshots /\ stored.history \in Seq(LogMessages)
        /\ Unanswered(stored) \in Seq(LogMessages)
    BY <1>1, UnansweredMessages DEF SafeInv, LogTypes, Snapshots
  <2>2. ASSUME NEW c \in ran
        PROVE  /\ TellsOf(c, stored.history \o Unanswered(stored)) # {}
               /\ TellsOf(c, stored.history \o Unanswered(stored)) \subseteq {"uncertain", "done"}
               /\ TellsOf(c, conversation.history) \subseteq {"uncertain", "done"}
    <3>1. TellsOf(c, stored.history \o Unanswered(stored)) = TellsOf(c, stored.history) \cup TellsOf(c, Unanswered(stored))
      BY <2>1, JoinedSets
    <3>2. TellsOf(c, Unanswered(stored)) = {Told(stored.pending[d]) : d \in DOMAIN stored.pending \cap {c}}
      BY <2>1, UnansweredMessages
    <3>3. /\ c \in DOMAIN stored.pending \/ c \in Mentioned(stored.history)
          /\ c \in DOMAIN stored.pending => Told(stored.pending[c]) \in {"uncertain", "done"}
          /\ TellsOf(c, stored.history) \cup TellsOf(c, conversation.history) \subseteq {"uncertain", "done"}
      BY <1>1 DEF SafeInv, EffectsInv, Told
    <3>4. c \in Mentioned(stored.history) => TellsOf(c, stored.history) # {}
      BY TellsAndMentions
    <3> QED BY <3>1, <3>2, <3>3, <3>4
  <2>3. life = "up" /\ persistence = "Ready" =>
          \A c \in Starters : stored.processes[c] = "running" => c \in live
    BY <1>1 DEF SafeInv, ProcessInv
  <2> QED BY <2>2, <2>3 DEF EffectsAreTold
<1> QED BY <1>1, SafeAlways, PTL

-----------------------------------------------------------------------------
(* The process and its snapshot                                            *)

\* A prompt joins a queue that does not have it.
LEMMA QueueAppend ==
  ASSUME NEW M, NEW q \in Seq(M), NEW p \in M
  PROVE  /\ Append(q, p) \in Seq(M) /\ ToSet(Append(q, p)) = ToSet(q) \cup {p}
         /\ Distinctly(q) /\ p \notin ToSet(q) => Distinctly(Append(q, p))
<1> DEFINE a == Append(q, p)
<1>1. /\ a \in Seq(M) /\ Len(a) = Len(q) + 1 /\ Len(q) \in Nat /\ a[Len(q) + 1] = p
      /\ \A i \in 1..Len(q) : a[i] = q[i]
      /\ DOMAIN q = 1..Len(q)
  BY AppendProperties, LenProperties
<1> HIDE DEF a
<1>2. DOMAIN a = 1..(Len(q) + 1)
  BY <1>1, LenProperties
<1>3. \A i \in DOMAIN a : i \in DOMAIN q \/ i = Len(q) + 1
  BY <1>1, <1>2
<1>4. Len(q) + 1 \in DOMAIN a /\ DOMAIN q \subseteq DOMAIN a
  BY <1>1, <1>2
<1>5. ToSet(a) = ToSet(q) \cup {p}
  BY <1>1, <1>3, <1>4 DEF ToSet
<1>6. ASSUME Distinctly(q), p \notin ToSet(q) PROVE Distinctly(a)
  <2>1. \A i \in DOMAIN q : q[i] # p
    BY <1>6 DEF ToSet
  <2>2. SUFFICES ASSUME NEW i \in DOMAIN a, NEW k \in DOMAIN a, a[i] = a[k] PROVE i = k
    BY DEF Distinctly
  <2>3. CASE i \in DOMAIN q /\ k \in DOMAIN q
    BY <1>1, <1>6, <2>2, <2>3 DEF Distinctly
  <2> QED BY <1>1, <1>3, <2>1, <2>2, <2>3
<1> QED BY <1>1, <1>5, <1>6 DEF a

\* The first leaves a queue.
LEMMA QueueTail ==
  ASSUME NEW M, NEW q \in Seq(M), q # <<>>
  PROVE  /\ Head(q) \in M /\ Head(q) \in ToSet(q) /\ Tail(q) \in Seq(M) /\ ToSet(q) = ToSet(Tail(q)) \cup {Head(q)}
         /\ Distinctly(q) => Distinctly(Tail(q)) /\ Head(q) \notin ToSet(Tail(q))
<1> DEFINE t == Tail(q)
<1>1. /\ DOMAIN q = 1..Len(q) /\ Len(q) \in Nat \ {0} /\ Head(q) \in M
      /\ t \in Seq(M) /\ Len(t) = Len(q) - 1
      /\ \A i \in 1..Len(t) : t[i] = q[i+1]
      /\ Head(q) = q[1]
  BY LenProperties, EmptySeq, HeadTailProperties
<1> HIDE DEF t
<1>2. DOMAIN t = 1..(Len(q) - 1)
  BY <1>1, LenProperties
<1>3. \A i \in DOMAIN t : i \in Nat /\ i + 1 \in DOMAIN q /\ t[i] = q[i + 1] /\ i + 1 # 1
  BY <1>1, <1>2
<1>4. 1 \in DOMAIN q
  BY <1>1
<1>5. Head(q) \in ToSet(q) /\ ToSet(q) = ToSet(t) \cup {Head(q)}
  <2>1. \A i \in DOMAIN q : i = 1 \/ (i - 1 \in DOMAIN t /\ t[i - 1] = q[i])
    BY <1>1, <1>2
  <2>2. ToSet(q) \subseteq ToSet(t) \cup {Head(q)}
    BY <1>1, <2>1 DEF ToSet
  <2>3. ToSet(t) \subseteq ToSet(q)
    BY <1>3 DEF ToSet
  <2>4. Head(q) \in ToSet(q)
    BY <1>1, <1>4 DEF ToSet
  <2> QED BY <2>2, <2>3, <2>4
<1>6. ASSUME Distinctly(q) PROVE Distinctly(t) /\ Head(q) \notin ToSet(t)
  <2>1. \A i \in DOMAIN t : t[i] # Head(q)
    BY <1>1, <1>3, <1>4, <1>6 DEF Distinctly
  <2>2. SUFFICES ASSUME NEW i \in DOMAIN t, NEW k \in DOMAIN t, t[i] = t[k] PROVE i = k
    BY <2>1 DEF Distinctly, ToSet
  <2>3. i + 1 = k + 1
    BY <1>3, <1>6, <2>2 DEF Distinctly
  <2> QED BY <1>3, <2>3
<1> QED BY <1>1, <1>5, <1>6 DEF t

\* The process has each prompt once.
LEMMA QueueStep ==
  ASSUME LogTypes, BatchInv, QueueInv, [LogNext]_logVars
  PROVE  QueueInv'
<1> USE DEF process, control, seen, logVars
<1>1. /\ queue \in Seq(Prompts) /\ turn \in Prompts \cup {NoItem} /\ NoItem \notin Prompts
      /\ ToSet(queue) \subseteq Prompts /\ ToSet(<<>>) = {} /\ Distinctly(<<>>)
  BY SessionAssumption DEF LogTypes, ToSet, Distinctly
\* The turn goes on, with its follow-ups.
<1>2. ASSUME UNCHANGED <<turn, queue, life>>, used \subseteq used',
             phase' \in {phase, "asks", "tools", "stopping", "recorded"}
      PROVE  QueueInv'
  BY <1>2 DEF QueueInv
<1>3. CASE Exit
  BY <1>1, <1>3 DEF Exit, QueueInv
<1>4. CASE Resume
  <2>1. queue' = <<>> /\ turn' = NoItem /\ used' = used
    BY <1>4 DEF Resume, QueueInv
  <2> QED BY <1>1, <2>1 DEF QueueInv
<1>5. CASE Interrupt
  <2>1. queue' = <<>> /\ phase' = "stopping" /\ UNCHANGED <<turn, used, life>> /\ life = "up"
    BY <1>5 DEF Interrupt
  <2> QED BY <1>1, <2>1 DEF QueueInv
<1>6. CASE Say \/ ProviderFails \/ Plan \/ Compact \/ StorageFails \/ BatchEnds \/ FinishHistory \/ UNCHANGED logVars
  BY <1>2, <1>6 DEF Say, LaunchProvider, ProviderFails, Plan, Compact, StorageFails, BatchEnds, FinishHistory
<1>7. CASE ReportEnd
  <2>1. phase' = "ended" /\ turn' = NoItem /\ UNCHANGED <<queue, used, life>> /\ life = "up"
    BY <1>7 DEF ReportEnd
  <2> QED BY <1>1, <2>1 DEF QueueInv
<1>8. CASE BeginNext
  <2>1. UNCHANGED <<used, life>> /\ life = "up" /\ turn = NoItem
    BY <1>8 DEF BeginNext, QueueInv
  <2>2. CASE queue = <<>> /\ phase' = "idle" /\ UNCHANGED <<turn, queue>>
    BY <2>1, <2>2 DEF QueueInv
  <2>3. CASE queue # <<>> /\ BeginTurn(Head(queue)) /\ queue' = Tail(queue)
    <3>1. /\ Head(queue) \in Prompts /\ Head(queue) \in ToSet(queue) /\ Tail(queue) \in Seq(Prompts)
          /\ ToSet(Tail(queue)) \subseteq ToSet(queue)
          /\ Distinctly(Tail(queue)) /\ Head(queue) \notin ToSet(Tail(queue))
      BY <1>1, <2>3, QueueTail DEF QueueInv
    <3>2. turn' = Head(queue) /\ phase' \in {"asks", "stopping"}
      BY <2>3, <3>1, BeginStep
    <3> QED BY <2>1, <2>3, <3>1, <3>2 DEF QueueInv
  <2> QED BY <1>8, <2>2, <2>3 DEF BeginNext
<1>9. ASSUME NEW p \in Prompts, Submit(p) PROVE QueueInv'
  <2>1. p \notin used /\ used' = used \cup {p} /\ UNCHANGED life /\ life = "up"
    BY <1>9 DEF Submit, Listens
  <2>2. CASE phase = "idle" /\ BeginTurn(p) /\ UNCHANGED queue
    <3>1. turn' = p /\ phase' \in {"asks", "stopping"}
      BY <2>2, BeginStep
    <3> QED BY <1>1, <2>1, <2>2, <3>1 DEF QueueInv
  <2>3. CASE phase # "idle" /\ queue' = Append(queue, p) /\ UNCHANGED <<phase, turn>>
    <3>1. p \notin ToSet(queue) /\ p # turn
      BY <1>1, <2>1 DEF QueueInv
    <3>2. ToSet(queue') = ToSet(queue) \cup {p} /\ Distinctly(queue')
      BY <1>1, <2>3, <3>1, QueueAppend DEF QueueInv
    <3> QED BY <2>1, <2>3, <3>1, <3>2 DEF QueueInv
  <2> QED BY <1>9, <2>2, <2>3 DEF Submit
<1>10. ASSUME NEW q \in Questions, Answer(q) PROVE QueueInv'
  BY <1>2, <1>10 DEF Answer
<1>11. ASSUME NEW ops \in SUBSET Calls, Launch(ops) PROVE QueueInv'
  <2>1. UNCHANGED <<turn, queue, life>> /\ used' = used \cup ops /\ phase' \in {"tools", "stopping"}
    BY <1>11, LaunchStep
  <2> QED BY <1>2, <2>1
<1>12. ASSUME NEW c \in Calls, Intend(c) \/ Decline(c) \/ TakeEffect(c) \/ Complete(c) PROVE QueueInv'
  <2>1. JobFrame(c)
    BY <1>12, JobActions
  <2> QED BY <1>2, <2>1 DEF JobFrame
<1>13. ASSUME NEW c \in Calls, ProcessEnds(c) PROVE QueueInv'
  BY <1>2, <1>13 DEF ProcessEnds
<1> QED BY <1>3, <1>4, <1>5, <1>6, <1>7, <1>8, <1>9, <1>10, <1>11, <1>12, <1>13 DEF LogNext

\* While storage works, the process has what is on disk.
LEMMA StoredStep ==
  ASSUME SafeInv, StoredInv, [LogNext]_logVars
  PROVE  StoredInv'
<1> USE DEF process, control, seen, logVars
<1>1. LogTypes /\ BatchInv /\ DeferredInv /\ EffectsInv /\ QueueInv
  BY DEF SafeInv, StoredInv
<1>2. /\ stored \in Snapshots /\ conversation \in Conversations
      /\ conversation.history \in Seq(LogMessages) /\ conversation.deferred \in Seq(LogMessages)
      /\ queue \in Seq(Prompts) /\ stored.queued \in Seq(Prompts) /\ life \in {"up", "down"}
      /\ persistence \in {"Ready", "Failed"} /\ DOMAIN NoCalls = {}
  BY <1>1, NoCallsTable DEF LogTypes, Snapshots, Conversations
<1>3. QueueInv'
  BY <1>1, QueueStep
<1> DEFINE Same(s, n) == n.history = s.history /\ n.deferred = s.deferred /\ n.queued = s.queued /\ SameMemory(s, n)
           Has == Matches(conversation, stored) /\ queue = stored.queued /\ DOMAIN batch = DOMAIN stored.pending
           Goal == Matches(conversation', stored') /\ queue' = stored'.queued /\ DOMAIN batch' = DOMAIN stored'.pending
<1>4. SUFFICES ASSUME life' = "up", persistence' = "Ready" PROVE Goal
  BY <1>3 DEF StoredInv
<1>5. life = "up" /\ persistence = "Ready" => Has
  BY DEF StoredInv
\* Neither what is said nor what is queued changes.
<1>6. ASSUME life = "up", persistence = "Ready", UNCHANGED <<conversation, queue>>, Same(stored, stored'),
             (batch' = batch /\ stored'.pending = stored.pending) \/ DOMAIN batch' = DOMAIN stored'.pending
      PROVE  Goal
  BY <1>5, <1>6 DEF Matches, SameMemory
<1>7. CASE Exit
  BY <1>4, <1>7 DEF Exit
<1>8. CASE Resume
  <2>1. /\ Matches(conversation', stored') /\ queue' = <<>> /\ batch' = NoCalls
    BY <1>1, <1>8 DEF Resume, Matches, QueueInv, BatchInv
  <2>2. stored'.queued = <<>> /\ stored'.pending = NoCalls
    BY <1>2, <1>8, RecoveredFields DEF Resume
  <2> QED BY <1>2, <2>1, <2>2
<1>9. CASE Interrupt
  <2>1. /\ life = "up" /\ persistence = "Ready" /\ stored' = Unqueued(stored, ToSet(queue))
        /\ queue' = <<>> /\ UNCHANGED <<conversation, batch>>
    BY <1>4, <1>9 DEF Interrupt
  <2>2. /\ stored'.history = stored.history /\ stored'.deferred = stored.deferred
        /\ SameMemory(stored, stored') /\ stored'.pending = stored.pending
        /\ stored'.queued = Without(stored.queued, ToSet(queue))
    BY <1>2, <2>1, UnqueuedFields
  <2>3. stored'.queued = <<>>
    BY <1>2, <1>5, <2>1, <2>2, WithoutAll
  <2> QED BY <1>5, <2>1, <2>2, <2>3 DEF Matches, SameMemory
\* The same messages are said in both.
<1>10. ASSUME NEW m, life = "up", persistence = "Ready", SaidInConversation(m), SaidInStored(m), UNCHANGED queue,
              batch' = NoCalls
       PROVE  Goal
  BY <1>2, <1>5, <1>10 DEF Matches, SaidInConversation, SaidInStored, SameMemory
<1>11. CASE Say
  <2>1. stored.pending = NoCalls /\ batch = NoCalls
    BY <1>1, <1>11, AsksAlone DEF Say
  <2>2. AppendHistory(<<Text>>) /\ <<Text>> \in Seq(LogMessages)
    BY <1>11, InputTypes DEF Say
  <2>3. persistence = "Ready" /\ SaidInConversation(<<Text>>) /\ SaidInStored(<<Text>>)
    BY <1>1, <1>2, <1>4, <2>1, <2>2, AppendStep DEF Pending
  <2> QED BY <1>10, <1>11, <2>1, <2>3 DEF Say
<1>12. CASE ProviderFails \/ Plan \/ StorageFails \/ UNCHANGED logVars
  <2>1. UNCHANGED <<stored, conversation, queue, batch, life>> /\ persistence' \in {persistence, "Failed"}
    BY <1>12 DEF ProviderFails, Plan, StorageFails
  <2> QED BY <1>2, <1>4, <1>6, <2>1 DEF SameMemory
<1>13. CASE Compact
  <2> DEFINE generation == conversation.generation + 1
  <2>1. generation \in Nat /\ plan \in Nat
    BY <1>1, <1>2 DEF Conversations, LogTypes
  <2>2. /\ IF CanCompact(stored, plan, generation)
           THEN Record(Compacted(stored, plan, generation)) ELSE Refuse
        /\ conversation' = [conversation EXCEPT !.through = plan, !.generation = generation]
        /\ UNCHANGED <<queue, batch, life>> /\ life = "up"
    BY <1>2, <1>4, <1>13 DEF Compact, Conversations
  <2> HIDE DEF generation
  <2>3. stored' = Compacted(stored, plan, generation) /\ persistence = "Ready"
    BY <1>1, <1>4, <2>2, RecordStep DEF Refuse
  <2> DEFINE n == Compacted(stored, plan, generation)
  <2>4. /\ n.history = stored.history /\ n.deferred = stored.deferred /\ n.queued = stored.queued
        /\ n.pending = stored.pending /\ n.through = plan /\ n.generation = generation
    <3>1. stored \in Snapshots
      BY <1>2
    <3> QED BY <2>1, <3>1, CompactedFields
  <2>5. /\ conversation'.history = conversation.history /\ conversation'.deferred = conversation.deferred
        /\ conversation'.through = plan /\ conversation'.generation = generation
    BY <1>2, <2>2 DEF Conversations
  <2> HIDE DEF n
  <2>6. stored' = n
    BY <2>3 DEF n
  <2> QED BY <1>5, <2>2, <2>3, <2>4, <2>5, <2>6 DEF Matches
<1>14. ASSUME NEW m, BatchCloses(m) PROVE Goal
  BY <1>4, <1>10, <1>14, <1>2 DEF BatchCloses
<1>15. CASE ReportEnd
  <2>1. /\ Record(Unqueued(stored, {turn})) /\ UNCHANGED <<conversation, queue, batch, life>> /\ life = "up"
    BY <1>15 DEF ReportEnd
  <2>2. stored' = Unqueued(stored, {turn}) /\ persistence = "Ready"
    BY <1>1, <1>4, <2>1, RecordStep
  <2>3. /\ stored'.history = stored.history /\ stored'.deferred = stored.deferred
        /\ SameMemory(stored, stored') /\ stored'.pending = stored.pending
        /\ stored'.queued = Without(stored.queued, {turn})
    BY <1>2, <2>2, UnqueuedFields
  <2>4. ToSet(stored.queued) \cap {turn} = {}
    BY <1>1, <1>5, <2>1, <2>2 DEF QueueInv
  <2>5. stored'.queued = stored.queued
    BY <1>2, <2>3, <2>4, WithoutNone
  <2> QED BY <1>6, <2>1, <2>2, <2>3, <2>5
\* A turn begins, in both.
<1>16. ASSUME NEW p \in Prompts, BeginTurn(p), UNCHANGED batch, life = "up", queue' = Without(queue, {p})
       PROVE  Goal
  <2>1. /\ stored' = Began(stored, p) /\ persistence = "Ready"
        /\ conversation'.history = conversation.history \o <<Input("prompt", p)>>
        /\ conversation'.deferred = conversation.deferred /\ SameMemory(conversation, conversation')
    BY <1>1, <1>4, <1>16, BeginStep
  <2>2. /\ stored'.history = stored.history \o <<Input("prompt", p)>> /\ stored'.deferred = stored.deferred
        /\ SameMemory(stored, stored') /\ stored'.pending = stored.pending
        /\ stored'.queued = Without(stored.queued, {p})
    BY <1>2, <2>1, BeganFields
  <2> QED BY <1>5, <1>16, <2>1, <2>2 DEF Matches, SameMemory
<1>17. CASE BeginNext
  <2>1. UNCHANGED <<batch, life>> /\ life = "up"
    BY <1>17 DEF BeginNext
  <2>2. CASE UNCHANGED <<stored, conversation, persistence, queue>>
    BY <1>4, <1>6, <2>1, <2>2 DEF SameMemory
  <2>3. CASE queue # <<>> /\ BeginTurn(Head(queue)) /\ queue' = Tail(queue)
    <3>1. Head(queue) \in Prompts
      BY <1>2, <2>3, QueueTail
    <3>2. queue' = Without(queue, {Head(queue)})
      BY <1>1, <1>2, <2>3, WithoutHead DEF QueueInv
    <3> QED BY <1>16, <2>1, <2>3, <3>1, <3>2
  <2> QED BY <1>17, <2>2, <2>3 DEF BeginNext
<1>18. ASSUME NEW p \in Prompts, Submit(p) PROVE Goal
  <2>1. UNCHANGED <<batch, life>> /\ life = "up"
    BY <1>18 DEF Submit, Listens
  <2>2. CASE phase = "idle" /\ BeginTurn(p) /\ UNCHANGED queue
    <3>1. queue = <<>>
      BY <1>1, <2>2 DEF QueueInv
    <3>2. ToSet(queue) \cap {p} = {}
      BY <3>1 DEF ToSet
    <3>3. queue' = Without(queue, {p})
      BY <1>2, <2>2, <3>2, WithoutNone
    <3> QED BY <1>16, <2>1, <2>2, <3>3
  <2>3. CASE Record(Queued(stored, p)) /\ queue' = Append(queue, p) /\ UNCHANGED conversation
    <3>1. stored' = Queued(stored, p) /\ persistence = "Ready"
      BY <1>1, <1>4, <2>3, RecordStep
    <3>2. /\ stored'.history = stored.history /\ stored'.deferred = stored.deferred
          /\ SameMemory(stored, stored') /\ stored'.pending = stored.pending
          /\ stored'.queued = stored.queued \o <<p>>
      BY <1>2, <3>1, QueuedFields
    <3>3. queue' = queue \o <<p>>
      BY <1>2, <2>3, AppendIsConcat
    <3> QED BY <1>5, <2>1, <2>3, <3>1, <3>2, <3>3 DEF Matches, SameMemory
  <2> QED BY <1>18, <2>2, <2>3 DEF Submit
<1>19. ASSUME NEW q \in Questions, Answer(q) PROVE Goal
  <2> DEFINE m == Input("answer", q)
  <2>1. /\ Record(Answered(stored, q)) /\ UNCHANGED <<batch, life, queue>> /\ life = "up"
        /\ conversation' = IF batch # NoCalls THEN [conversation EXCEPT !.deferred = Append(@, m)]
                                              ELSE [conversation EXCEPT !.history = Append(@, m)]
    BY <1>4, <1>19 DEF Answer, Listens
  <2>2. stored' = Answered(stored, q) /\ persistence = "Ready"
    BY <1>1, <1>4, <2>1, RecordStep
  <2>3. m \in LogMessages
    BY InputTypes
  <2>4. /\ stored'.pending = stored.pending /\ stored'.queued = stored.queued /\ SameMemory(stored, stored')
        /\ stored.pending = NoCalls => stored'.deferred = stored.deferred /\ stored'.history = stored.history \o <<m>>
        /\ stored.pending # NoCalls => stored'.history = stored.history /\ stored'.deferred = stored.deferred \o <<m>>
    BY <1>2, <2>2, AnsweredFields
  <2> HIDE DEF m
  <2>5. /\ Append(conversation.history, m) = conversation.history \o <<m>>
        /\ Append(conversation.deferred, m) = conversation.deferred \o <<m>>
    BY <1>2, <2>3, AppendIsConcat
  <2>6. Has
    BY <1>5, <2>1, <2>2
  <2>7. batch = NoCalls <=> stored.pending = NoCalls
    BY <1>1, <1>2, <2>6, TableFacts DEF LogTypes, Snapshots
  <2>8. CASE batch # NoCalls
    <3>1. /\ conversation'.deferred = conversation.deferred \o <<m>> /\ conversation'.history = conversation.history
          /\ conversation'.through = conversation.through /\ conversation'.generation = conversation.generation
      BY <1>2, <2>1, <2>5, <2>8 DEF Conversations
    <3> QED BY <2>1, <2>4, <2>6, <2>7, <2>8, <3>1 DEF Matches, SameMemory
  <2>9. CASE batch = NoCalls
    <3>1. /\ conversation'.history = conversation.history \o <<m>> /\ conversation'.deferred = conversation.deferred
          /\ conversation'.through = conversation.through /\ conversation'.generation = conversation.generation
      BY <1>2, <2>1, <2>5, <2>9 DEF Conversations
    <3> QED BY <2>1, <2>4, <2>6, <2>7, <2>9, <3>1 DEF Matches, SameMemory
  <2> QED BY <2>8, <2>9
<1>20. ASSUME NEW ops \in SUBSET Calls, Launch(ops) PROVE Goal
  <2> DEFINE t == [c \in ops |-> "queued"]
  <2>1. /\ life = "up" /\ persistence = "Ready" /\ stored' = Prepared(stored, t) /\ DOMAIN batch' = ops
        /\ UNCHANGED <<conversation, queue>>
    BY <1>1, <1>4, <1>20, LaunchStep
  <2>2. t \in Tables(OpStates) /\ DOMAIN t = ops
    BY TableOf DEF OpStates
  <2> HIDE DEF t
  <2>3. Same(stored, stored') /\ stored'.pending = t
    BY <1>2, <2>1, <2>2, PreparedFields
  <2> QED BY <1>6, <2>1, <2>2, <2>3
<1>21. ASSUME NEW c \in Calls, Intend(c) \/ Decline(c) \/ TakeEffect(c) \/ Complete(c) PROVE Goal
  <2>1. JobFrame(c)
    BY <1>1, <1>21, JobActions
  <2>2. /\ life = "up" /\ persistence = "Ready" /\ UNCHANGED <<conversation, queue>> /\ Same(stored, stored')
        /\ DOMAIN batch' = DOMAIN batch /\ DOMAIN stored'.pending = DOMAIN stored.pending
    BY <1>4, <2>1 DEF JobFrame
  <2> QED BY <1>5, <1>6, <2>2
<1>22. ASSUME NEW c \in Calls, ProcessEnds(c) PROVE Goal
  <2>1. /\ Record(ProcessCompleted(stored, c)) /\ c \in Starters /\ life = "up"
        /\ UNCHANGED <<conversation, batch, queue>>
    BY <1>1, <1>22 DEF ProcessEnds, LogTypes
  <2>2. stored' = ProcessCompleted(stored, c) /\ persistence = "Ready"
    BY <1>1, <1>4, <2>1, RecordStep
  <2>3. Same(stored, stored') /\ stored'.pending = stored.pending
    BY <1>2, <2>1, <2>2, ProcessCompletedFields
  <2> QED BY <1>6, <2>1, <2>2, <2>3
<1>23. CASE BatchEnds \/ FinishHistory
  <2>1. CASE UNCHANGED <<stored, conversation, persistence, batch>>
    <3>1. UNCHANGED queue /\ life = "up"
      BY <1>23 DEF BatchEnds, FinishHistory
    <3> QED BY <1>4, <1>6, <2>1, <3>1 DEF SameMemory
  <2>2. CASE \E m : BatchCloses(m)
    BY <1>14, <2>2
  <2> QED BY <1>1, <1>23, <2>1, <2>2, EndCases
<1> HIDE DEF Goal
<1> QED BY <1>7, <1>8, <1>9, <1>11, <1>12, <1>13, <1>15, <1>17, <1>18, <1>19, <1>20, <1>21, <1>22, <1>23 DEF LogNext

\* What the process has is what is on disk.
LEMMA StoredInit == LogInit => StoredInv
<1> SUFFICES ASSUME LogInit PROVE StoredInv
  OBVIOUS
<1>1. QueueInv
  BY DEF LogInit, QueueInv, Distinctly, ToSet
<1>2. Matches(conversation, stored) /\ queue = stored.queued /\ DOMAIN batch = DOMAIN stored.pending
  BY DEF LogInit, Matches
<1> QED BY <1>1, <1>2 DEF StoredInv

\* While storage works, the conversation, the follow-ups and the batch of the
\* process are those on disk, after every step and over all crashes.
THEOREM ConversationSurvives == LogSpec => []ConversationIsStored
<1>1. SafeInv /\ StoredInv /\ [LogNext]_logVars => (SafeInv /\ StoredInv)'
  BY SafeStep, StoredStep
<1>2. ASSUME SafeInv, StoredInv PROVE ConversationIsStored
  <2>1. conversation \in Conversations
    BY <1>2 DEF SafeInv, LogTypes
  <2>2. ASSUME Matches(conversation, stored)
        PROVE  conversation = [history |-> stored.history, deferred |-> stored.deferred,
                               through |-> stored.through, generation |-> stored.generation]
    BY <2>1, <2>2 DEF Conversations, Matches
  <2> QED BY <1>2, <2>2 DEF StoredInv, ConversationIsStored
<1> QED BY <1>1, <1>2, SafeInit, StoredInit, PTL DEF LogSpec

-----------------------------------------------------------------------------
(* Whole exchanges                                                         *)

\* An input or a text joins a whole history.
LEMMA JoinedWhole ==
  ASSUME NEW h \in Seq(LogMessages), NEW m \in LogMessages, m.kind \notin {"calls", "results"},
         IsWhole(h), NEW w, AnswersAreLate(h, w)
  PROVE  IsWhole(h \o <<m>>) /\ AnswersAreLate(h \o <<m>>, w)
<1> DEFINE n == <<m>>
<1>1. n \in Seq(LogMessages) /\ Mentioned(n) = {} /\ IsWhole(n)
  BY InputAlone
<1> HIDE DEF n
<1>2. AnswersAreLate(n, w)
  BY <1>1, NoneLate
<1>3. IsWhole(h \o n)
  BY <1>1, JoinedWholes
<1>4. AnswersAreLate(h \o n, w)
  BY <1>1, <1>2, JoinedLate
<1> QED BY <1>3, <1>4 DEF n

\* A whole piece without answers, or that tells of no call, and answers join a
\* whole history.
LEMMA JoinedWholesOfThree ==
  ASSUME NEW a \in Seq(LogMessages), NEW b \in Seq(LogMessages), NEW d \in Seq(LogMessages), NEW w,
         IsWhole(a), AnswersAreLate(a, w), IsWhole(b), AnswersOf(b) = {} \/ Mentioned(b) = {},
         IsWhole(d), Mentioned(d) = {},
         Mentioned(a) \cap Mentioned(b) = {}, \A q \in AnswersOf(a) : w[q] \cap Mentioned(b) = {}
  PROVE  IsWhole((a \o b) \o d) /\ AnswersAreLate((a \o b) \o d, w)
<1> DEFINE e == a \o b
<1>1. AnswersAreLate(b, w) /\ AnswersAreLate(d, w)
  BY NoneLate
<1>2. e \in Seq(LogMessages)
  BY Joins
<1>3. IsWhole(e)
  BY JoinedWholes
<1>4. AnswersAreLate(e, w)
  BY <1>1, JoinedLate
<1> HIDE DEF e
<1>5. IsWhole(e \o d)
  BY <1>2, <1>3, JoinedWholes
<1>6. AnswersAreLate(e \o d, w)
  BY <1>1, <1>2, <1>4, JoinedLate
<1> QED BY <1>5, <1>6 DEF e

\* What recovery says next is whole, and stays so after a history that does
\* not tell of the pending batch.
LEMMA RecoveredWhole ==
  ASSUME NEW s \in Snapshots, OnlyAnswers(s.deferred), NEW h \in Seq(LogMessages), NEW w,
         IsWhole(h), AnswersAreLate(h, w), Mentioned(h) \cap DOMAIN s.pending = {},
         \A q \in AnswersOf(h) : w[q] \cap DOMAIN s.pending = {}
  PROVE  IsWhole(h \o RecoveredInput(s)) /\ AnswersAreLate(h \o RecoveredInput(s), w)
<1> DEFINE u == Unanswered(s)
           d == s.deferred
           p == PromptsOf(s.queued)
           r == RecoveredInput(s)
<1>1. u \in Seq(LogMessages) /\ IsWhole(u) /\ AnswersOf(u) = {}
  BY UnansweredMessages
<1>2. s.deferred \in Seq(LogMessages) /\ s.queued \in Seq(Prompts)
  BY DEF Snapshots
<1>3. d \in Seq(LogMessages) /\ IsWhole(d) /\ Mentioned(d) = {}
  BY <1>2, DeferredFacts
<1>4. p \in Seq(LogMessages) /\ IsWhole(p) /\ Mentioned(p) = {}
  BY <1>2, PromptMessages
<1>5. r \in Seq(LogMessages) /\ Mentioned(r) = DOMAIN s.pending
  BY RecoveredInputFacts
<1>6. r = (u \o d) \o p
  BY DEF RecoveredInput
<1> HIDE DEF u, d, p, r
<1>7. AnswersAreLate(u, w)
  BY <1>1, NoneLate
<1>8. IsWhole((u \o d) \o p) /\ AnswersAreLate((u \o d) \o p, w)
  BY <1>1, <1>3, <1>4, <1>7, JoinedWholesOfThree
<1>9. IsWhole(h \o r)
  BY <1>5, <1>6, <1>8, JoinedWholes
<1>10. AnswersAreLate(h \o r, w)
  BY <1>5, <1>6, <1>8, JoinedLate
<1> QED BY <1>9, <1>10 DEF r

\* The histories stay whole.
LEMMA WholeStep ==
  ASSUME SafeInv, StoredInv, WholeInv, [LogNext]_logVars
  PROVE  WholeInv'
<1> USE DEF process, control, seen, logVars
<1>1. LogTypes /\ BatchInv /\ DeferredInv /\ EffectsInv
  BY DEF SafeInv
<1>2. /\ stored \in Snapshots /\ conversation \in Conversations
      /\ stored.history \in Seq(LogMessages) /\ stored.deferred \in Seq(LogMessages)
      /\ conversation.history \in Seq(LogMessages) /\ conversation.deferred \in Seq(LogMessages)
      /\ DOMAIN NoCalls = {}
  BY <1>1, NoCallsTable DEF LogTypes, Snapshots, Conversations
\* Nothing is said.
<1>3. ASSUME stored'.history = stored.history, conversation'.history = conversation.history,
             UNCHANGED heard, used \subseteq used',
             DOMAIN stored'.pending \subseteq DOMAIN stored.pending, DOMAIN batch' \subseteq DOMAIN batch
      PROVE  WholeInv'
  BY <1>3 DEF WholeInv
<1>4. CASE Exit
  <2>1. /\ conversation'.history = <<>> /\ UNCHANGED <<stored, heard, used>> /\ batch' = NoCalls
    BY <1>4 DEF Exit
  <2>2. IsWhole(<<>>) /\ AnswersOf(<<>>) = {} /\ AnswersAreLate(<<>>, heard)
    BY NothingSaid, NoneLate
  <2> QED BY <1>2, <2>1, <2>2 DEF WholeInv
<1>5. CASE Resume
  <2>1. /\ stored' = Recovered(stored) /\ conversation'.history = stored'.history
        /\ UNCHANGED <<heard, used, batch>> /\ batch = NoCalls
    BY <1>1, <1>5 DEF Resume, BatchInv
  <2> DEFINE a == stored.history
             e == Evidence(stored)
             r == RecoveredInput(stored)
  <2>2. stored'.history = (a \o e) \o r /\ stored'.pending = NoCalls
    BY <1>2, <2>1, RecoveredFields
  <2>3. /\ IsWhole(a) /\ AnswersAreLate(a, heard) /\ a \in Seq(LogMessages)
        /\ Mentioned(a) \cap DOMAIN stored.pending = {}
        /\ \A q \in AnswersOf(a) : heard[q] \cap DOMAIN stored.pending = {}
    BY <1>1, <1>2 DEF WholeInv, EffectsInv
  <2>4. e \in Seq(LogMessages) /\ IsWhole(e) /\ Mentioned(e) = {} /\ AnswersOf(e) = {}
    BY <1>2, EvidenceMessages
  <2>5. OnlyAnswers(stored.deferred)
    BY <1>1 DEF DeferredInv
  <2> HIDE DEF a, e
  <2> DEFINE h == a \o e
  <2>6. h \in Seq(LogMessages) /\ Mentioned(h) = Mentioned(a) /\ AnswersOf(h) = AnswersOf(a)
    <3>1. /\ Mentioned(h) = Mentioned(a) \cup Mentioned(e)
          /\ AnswersOf(h) = AnswersOf(a) \cup AnswersOf(e)
      <4>1. a \in Seq(LogMessages) /\ e \in Seq(LogMessages)
        BY <2>3, <2>4
      <4> QED BY <4>1, JoinedSets
    <3> QED BY <2>3, <2>4, <3>1, Joins
  <2>7. IsWhole(h)
    BY <2>3, <2>4, JoinedWholes
  <2>8. AnswersAreLate(h, heard)
    <3>1. AnswersAreLate(e, heard)
      BY <2>4, NoneLate
    <3> QED BY <2>3, <2>4, <3>1, JoinedLate
  <2> HIDE DEF h
  <2>9. IsWhole(h \o r) /\ AnswersAreLate(h \o r, heard)
    BY <1>2, <2>3, <2>5, <2>6, <2>7, <2>8, RecoveredWhole
  <2>10. stored'.history = h \o r
    BY <2>2 DEF h
  <2> QED BY <1>2, <2>1, <2>2, <2>9, <2>10 DEF WholeInv
<1>6. CASE Interrupt \/ ReportEnd
  <2>1. /\ \/ \E turns : stored' = Unqueued(stored, turns)
           \/ stored' = stored
        /\ UNCHANGED <<conversation, heard, used, batch>>
    <3>1. CASE Interrupt
      BY <3>1 DEF Interrupt
    <3>2. CASE ReportEnd
      <4>1. Record(Unqueued(stored, {turn})) /\ UNCHANGED <<conversation, heard, used, batch>>
        BY <3>2 DEF ReportEnd
      <4> QED BY <1>1, <4>1, RecordStep
    <3> QED BY <1>6, <3>1, <3>2
  <2>2. stored'.history = stored.history /\ stored'.pending = stored.pending
    BY <1>2, <2>1, UnqueuedFields
  <2> QED BY <1>3, <2>1, <2>2
\* The same messages may be said on disk, and are in the conversation; they
\* have no answers, and no batch is left.
<1>7. ASSUME NEW m \in Seq(LogMessages), SaidInConversation(m), stored' = stored \/ SaidInStored(m),
             IsWhole(m), AnswersOf(m) = {},
             (Mentioned(stored.history) \cup Mentioned(conversation.history)) \cap Mentioned(m) = {},
             \A q \in AnswersOf(stored.history) \cup AnswersOf(conversation.history) : heard[q] \cap Mentioned(m) = {},
             UNCHANGED <<heard, used>>, batch' = NoCalls
      PROVE  WholeInv'
  <2>1. /\ IsWhole(stored.history) /\ AnswersAreLate(stored.history, heard)
        /\ IsWhole(conversation.history) /\ AnswersAreLate(conversation.history, heard)
        /\ IsWhole(stored.deferred) /\ Mentioned(stored.deferred) = {}
        /\ IsWhole(conversation.deferred) /\ Mentioned(conversation.deferred) = {}
    BY <1>1, <1>2, DeferredFacts DEF WholeInv, DeferredInv
  <2>2. ASSUME NEW h \in Seq(LogMessages), NEW d \in Seq(LogMessages), IsWhole(h), AnswersAreLate(h, heard),
               IsWhole(d), Mentioned(d) = {}, Mentioned(h) \cap Mentioned(m) = {},
               \A q \in AnswersOf(h) : heard[q] \cap Mentioned(m) = {}
        PROVE  IsWhole((h \o m) \o d) /\ AnswersAreLate((h \o m) \o d, heard)
    BY <1>7, <2>2, JoinedWholesOfThree
  <2>3. IsWhole(conversation'.history) /\ AnswersAreLate(conversation'.history, heard)
    BY <1>2, <1>7, <2>1, <2>2 DEF SaidInConversation
  <2>4. CASE stored' = stored
    BY <1>2, <1>7, <2>3, <2>4 DEF WholeInv
  <2>5. CASE SaidInStored(m)
    <3>1. IsWhole(stored'.history) /\ AnswersAreLate(stored'.history, heard) /\ stored'.pending = NoCalls
      BY <1>2, <1>7, <2>1, <2>2, <2>5 DEF SaidInStored
    <3> QED BY <1>2, <1>7, <2>3, <3>1 DEF WholeInv
  <2> QED BY <1>7, <2>4, <2>5
<1>8. CASE Say
  <2>1. stored.pending = NoCalls /\ batch = NoCalls
    BY <1>1, <1>8, AsksAlone DEF Say
  <2>2. AppendHistory(<<Text>>) /\ <<Text>> \in Seq(LogMessages) /\ UNCHANGED <<heard, used, batch>>
    BY <1>8, InputTypes DEF Say
  <2>3. SaidInConversation(<<Text>>) /\ (stored' = stored \/ SaidInStored(<<Text>>))
    BY <1>1, <2>1, <2>2, AppendStep DEF Pending
  <2>4. IsWhole(<<Text>>) /\ Mentioned(<<Text>>) = {} /\ AnswersOf(<<Text>>) = {}
    BY InputTypes, InputFields, InputAlone
  <2> QED BY <1>7, <2>1, <2>2, <2>3, <2>4
<1>9. ASSUME NEW m, BatchCloses(m) PROVE WholeInv'
  <2>1. /\ batch # NoCalls /\ Quiet /\ m \in Seq(LogMessages)
        /\ m = MachineExchange \/ (Pending(stored) /\ m = Exchange(stored.pending))
        /\ SaidInConversation(m) /\ (stored' = stored \/ SaidInStored(m))
        /\ UNCHANGED <<heard, used>> /\ batch' = NoCalls
    BY <1>9 DEF BatchCloses
  <2>2. Mentioned(m) \subseteq DOMAIN batch /\ AnswersOf(m) = {} /\ IsWhole(m)
    BY <1>1, <2>1, ExchangeTells
  <2>3. /\ DOMAIN batch \cap (Mentioned(stored.history) \cup Mentioned(conversation.history)) = {}
        /\ \A q \in AnswersOf(stored.history) \cup AnswersOf(conversation.history) : heard[q] \cap DOMAIN batch = {}
    BY <1>1 DEF EffectsInv, WholeInv
  <2> QED BY <1>7, <2>1, <2>2, <2>3
<1>10. CASE BatchEnds \/ FinishHistory
  <2>1. CASE UNCHANGED <<stored, conversation, persistence, batch>>
    BY <1>3, <1>10, <2>1 DEF BatchEnds, FinishHistory
  <2> QED BY <1>1, <1>9, <1>10, <2>1, EndCases
<1>11. CASE ProviderFails \/ Plan \/ StorageFails \/ UNCHANGED logVars
  BY <1>3, <1>11 DEF ProviderFails, Plan, StorageFails
<1>12. CASE Compact
  <2> DEFINE generation == conversation.generation + 1
  <2>1. generation \in Nat /\ plan \in Nat
    BY <1>1, <1>2 DEF Conversations, LogTypes
  <2>2. Record(Compacted(stored, plan, generation)) \/ Refuse
    BY <1>12 DEF Compact
  <2>3. conversation' \in {conversation, [conversation EXCEPT !.through = plan, !.generation = generation]}
    BY <1>2, <1>12 DEF Compact, Conversations
  <2> HIDE DEF generation
  <2>4. stored' \in {stored, Compacted(stored, plan, generation)}
    BY <1>1, <2>2, RecordStep DEF Refuse
  <2>5. stored'.history = stored.history /\ stored'.pending = stored.pending
    <3>1. stored \in Snapshots
      BY <1>2
    <3> DEFINE n == Compacted(stored, plan, generation)
    <3>2. n.history = stored.history /\ n.pending = stored.pending
      BY <2>1, <3>1, CompactedFields
    <3> QED BY <2>4, <3>2
  <2>6. conversation'.history = conversation.history
    BY <1>2, <2>3 DEF Conversations
  <2> QED BY <1>3, <1>12, <2>5, <2>6 DEF Compact
\* A turn begins.
<1>13. ASSUME NEW p \in Prompts, BeginTurn(p), UNCHANGED <<heard, batch>>, used \subseteq used'
       PROVE  WholeInv'
  <2> DEFINE m == Input("prompt", p)
  <2>1. stored' \in {stored, Began(stored, p)} /\ conversation'.history = conversation.history \o <<m>>
    BY <1>1, <1>13, BeginStep
  <2>2. m \in LogMessages /\ m.kind = "prompt"
    BY InputTypes, InputFields
  <2>3. Began(stored, p).pending = stored.pending /\ Began(stored, p).history = stored.history \o <<m>>
    BY <1>2, BeganFields
  <2> HIDE DEF m
  <2>4. ASSUME NEW h \in Seq(LogMessages), IsWhole(h), AnswersAreLate(h, heard)
        PROVE  /\ IsWhole(h \o <<m>>) /\ AnswersAreLate(h \o <<m>>, heard)
               /\ AnswersOf(h \o <<m>>) = AnswersOf(h)
    BY <2>2, <2>4, Joined, JoinedWhole
  <2>5. /\ IsWhole(conversation'.history) /\ AnswersAreLate(conversation'.history, heard)
        /\ AnswersOf(conversation'.history) = AnswersOf(conversation.history)
    BY <1>2, <2>1, <2>4 DEF WholeInv
  <2>6. /\ IsWhole(stored'.history) /\ AnswersAreLate(stored'.history, heard)
        /\ AnswersOf(stored'.history) = AnswersOf(stored.history) /\ stored'.pending = stored.pending
    <3>1. CASE stored' = stored
      BY <3>1 DEF WholeInv
    <3>2. CASE stored' = Began(stored, p)
      BY <1>2, <2>3, <2>4, <3>2 DEF WholeInv
    <3> QED BY <2>1, <3>1, <3>2
  <2> QED BY <1>13, <2>5, <2>6 DEF WholeInv
<1>14. CASE BeginNext
  <2>1. UNCHANGED <<heard, batch, used>>
    BY <1>14 DEF BeginNext
  <2>2. CASE UNCHANGED <<stored, conversation>>
    BY <1>3, <2>1, <2>2
  <2>3. CASE queue # <<>> /\ BeginTurn(Head(queue))
    <3>1. Head(queue) \in Prompts
      BY <1>1, <2>3, HeadTailProperties DEF LogTypes
    <3> QED BY <1>13, <2>1, <2>3, <3>1
  <2> QED BY <1>14, <2>2, <2>3 DEF BeginNext
<1>15. ASSUME NEW p \in Prompts, Submit(p) PROVE WholeInv'
  <2>1. UNCHANGED <<heard, batch>> /\ used \subseteq used'
    BY <1>15 DEF Submit
  <2>2. CASE BeginTurn(p)
    BY <1>13, <2>1, <2>2
  <2>3. CASE Record(Queued(stored, p)) /\ UNCHANGED conversation
    <3>1. stored' \in {stored, Queued(stored, p)}
      BY <1>1, <2>3, RecordStep
    <3>2. stored'.history = stored.history /\ stored'.pending = stored.pending
      BY <1>2, <3>1, QueuedFields
    <3> QED BY <1>3, <2>1, <2>3, <3>2
  <2> QED BY <1>15, <2>2, <2>3 DEF Submit
<1>16. ASSUME NEW q \in Questions, Answer(q) PROVE WholeInv'
  <2> DEFINE m == Input("answer", q)
  <2>1. /\ Record(Answered(stored, q)) /\ UNCHANGED <<batch, used>> /\ life = "up" /\ persistence = "Ready"
        /\ IsOpen(q) /\ heard' = [heard EXCEPT ![q] = DOMAIN batch]
        /\ conversation' = IF persistence' = "Failed" THEN conversation
                           ELSE IF batch # NoCalls THEN [conversation EXCEPT !.deferred = Append(@, m)]
                                                   ELSE [conversation EXCEPT !.history = Append(@, m)]
    BY <1>16 DEF Answer, Listens
  <2>2. m \in LogMessages /\ m.kind = "answer" /\ m.item = q
    BY InputTypes, InputFields
  <2>3. q \notin AnswersOf(stored.history) /\ conversation.history = stored.history
    <3>1. ASSUME NEW i \in DOMAIN stored.history, stored.history[i].kind = "answer", stored.history[i].item = q
          PROVE  FALSE
      <4>1. stored.history[i] \in LogMessages
        BY <1>2, ElementOfSeq, LenProperties
      <4>2. stored.history[i] = m
        BY <3>1, <4>1, SessionAssumption DEF LogMessages, Text, Input, Message
      <4> QED BY <2>1, <4>2 DEF IsOpen
    <3>2. conversation.history = stored.history
      BY <2>1 DEF StoredInv, Matches
    <3> QED BY <3>1, <3>2 DEF AnswersOf
  <2>4. /\ heard \in [Questions -> SUBSET Calls] /\ DOMAIN batch \subseteq used
        /\ heard' \in [Questions -> SUBSET Calls] /\ heard'[q] = DOMAIN batch
        /\ \A x \in Questions : x # q => heard'[x] = heard[x]
    <3>1. DOMAIN batch \subseteq Calls
      BY <1>1, TableFacts DEF LogTypes
    <3> QED BY <1>1, <2>1, <3>1 DEF LogTypes, EffectsInv
  \* The answers that were heard before were heard under the same calls.
  <2>5. ASSUME NEW h \in Seq(LogMessages), q \notin AnswersOf(h), AnswersAreLate(h, heard)
        PROVE  /\ AnswersAreLate(h, heard') /\ AnswersOf(h) \subseteq Questions
               /\ \A x \in AnswersOf(h) : heard'[x] = heard[x]
    <3>1. \A i \in DOMAIN h : h[i] \in LogMessages
      BY ElementOfSeq, LenProperties
    <3>2. AnswersOf(h) \subseteq Questions
      BY <3>1 DEF AnswersOf, LogMessages, Text, Input, Message
    <3>3. \A i \in DOMAIN h : h[i].kind = "answer" => h[i].item \in AnswersOf(h)
      BY DEF AnswersOf
    <3>4. \A x \in AnswersOf(h) : heard'[x] = heard[x]
      BY <2>4, <2>5, <3>2
    <3>5. AnswersAreLate(h, heard')
      BY <2>5, <3>3, <3>4 DEF AnswersAreLate
    <3> QED BY <3>2, <3>4, <3>5
  <2>6. /\ AnswersAreLate(stored.history, heard') /\ \A x \in AnswersOf(stored.history) : heard'[x] = heard[x]
    BY <1>2, <2>3, <2>5 DEF WholeInv
  <2>7. \A x \in Questions : heard'[x] \subseteq used'
    BY <2>1, <2>4 DEF WholeInv
  \* The answer waits, or is not recorded.
  <2>8. ASSUME stored'.history = stored.history, conversation'.history = conversation.history,
               stored'.pending = stored.pending
        PROVE  WholeInv'
    BY <2>1, <2>3, <2>6, <2>7, <2>8 DEF WholeInv
  <2>9. \/ stored' = stored /\ persistence' = "Failed"
        \/ stored' = Answered(stored, q) /\ persistence' = persistence
    BY <2>1 DEF Record
  <2>10. /\ Answered(stored, q).pending = stored.pending
         /\ stored.pending = NoCalls => Answered(stored, q).history = stored.history \o <<m>>
         /\ stored.pending # NoCalls => Answered(stored, q).history = stored.history
    BY <1>2, AnsweredFields
  <2>11. batch = NoCalls <=> stored.pending = NoCalls
    BY <1>1, <1>2, <2>1, TableFacts DEF LogTypes, Snapshots, StoredInv
  <2>12. /\ Append(conversation.history, m) = conversation.history \o <<m>>
         /\ [conversation EXCEPT !.history = Append(@, m)].history = Append(conversation.history, m)
         /\ [conversation EXCEPT !.deferred = Append(@, m)].history = conversation.history
    <3> HIDE DEF m
    <3> QED BY <1>2, <2>2, AppendIsConcat DEF Conversations
  <2>13. CASE stored' = stored /\ persistence' = "Failed"
    BY <2>1, <2>8, <2>13
  <2>14. CASE stored' = Answered(stored, q) /\ persistence' = "Ready" /\ batch # NoCalls
    BY <2>1, <2>8, <2>10, <2>11, <2>12, <2>14
  <2>15. CASE stored' = Answered(stored, q) /\ persistence' = "Ready" /\ batch = NoCalls
    <3>1. /\ stored'.history = stored.history \o <<m>> /\ conversation'.history = stored.history \o <<m>>
          /\ stored'.pending = NoCalls
      BY <2>1, <2>3, <2>10, <2>11, <2>12, <2>15
    <3> HIDE DEF m
    <3>2. IsWhole(stored.history \o <<m>>) /\ AnswersAreLate(stored.history \o <<m>>, heard')
      BY <1>2, <2>2, <2>6, JoinedWhole DEF WholeInv
    <3> QED BY <1>2, <2>1, <2>7, <2>15, <3>1, <3>2 DEF WholeInv
  <2> QED BY <2>1, <2>9, <2>13, <2>14, <2>15
<1>17. ASSUME NEW ops \in SUBSET Calls, Launch(ops) PROVE WholeInv'
  <2> DEFINE t == [c \in ops |-> "queued"]
  <2>1. /\ stored' \in {stored, Prepared(stored, t)} /\ DOMAIN batch' = ops /\ stored.pending = NoCalls
        /\ UNCHANGED conversation /\ ops \cap used = {} /\ used' = used \cup ops
    BY <1>1, <1>17, LaunchStep
  <2>2. t \in Tables(OpStates) /\ DOMAIN t = ops
    BY TableOf DEF OpStates
  <2> HIDE DEF t
  <2>3. stored'.history = stored.history /\ DOMAIN stored'.pending \subseteq ops
    BY <1>2, <2>1, <2>2, PreparedFields
  <2>4. UNCHANGED heard
    BY <1>17 DEF Launch
  <2>5. ASSUME NEW h \in Seq(LogMessages), NEW q \in AnswersOf(h)
        PROVE  q \in Questions
    <3>1. \A i \in DOMAIN h : h[i] \in LogMessages
      BY ElementOfSeq, LenProperties
    <3> QED BY <3>1 DEF AnswersOf, LogMessages, Text, Input, Message
  <2>6. \A q \in AnswersOf(stored.history) \cup AnswersOf(conversation.history) : heard[q] \cap ops = {}
    BY <1>2, <2>1, <2>5 DEF WholeInv
  <2> QED BY <2>1, <2>3, <2>4, <2>6 DEF WholeInv
<1>18. ASSUME NEW c \in Calls, Intend(c) \/ Decline(c) \/ TakeEffect(c) \/ Complete(c) PROVE WholeInv'
  <2>1. JobFrame(c) /\ UNCHANGED heard
    BY <1>1, <1>18, JobActions DEF Intend, Decline, TakeEffect, Complete, Works
  <2> QED BY <1>3, <2>1 DEF JobFrame
<1>19. ASSUME NEW c \in Calls, ProcessEnds(c) PROVE WholeInv'
  <2>1. /\ Record(ProcessCompleted(stored, c)) /\ c \in Starters
        /\ UNCHANGED <<conversation, batch, used, heard>>
    BY <1>1, <1>19 DEF ProcessEnds, LogTypes
  <2>2. stored'.history = stored.history /\ stored'.pending = stored.pending
    BY <1>1, <1>2, <2>1, RecordStep, ProcessCompletedFields
  <2> QED BY <1>3, <2>1, <2>2
<1> QED BY <1>4, <1>5, <1>6, <1>8, <1>10, <1>11, <1>12, <1>14, <1>15, <1>16, <1>17, <1>18, <1>19 DEF LogNext

\* The memory ends where an exchange or a message of the model does.
LEMMA MemoryStep ==
  ASSUME SafeInv, MemoryInv, [LogNext]_logVars
  PROVE  MemoryInv'
<1> USE DEF process, control, seen, logVars
<1>1. LogTypes /\ BatchInv /\ DeferredInv
  BY DEF SafeInv
<1>2. /\ stored \in Snapshots /\ conversation \in Conversations
      /\ stored.history \in Seq(LogMessages) /\ stored.deferred \in Seq(LogMessages)
      /\ conversation.history \in Seq(LogMessages) /\ conversation.deferred \in Seq(LogMessages)
  BY <1>1 DEF LogTypes, Snapshots, Conversations
\* The histories may grow.
<1>3. ASSUME SameMemory(stored, stored'), SameMemory(conversation, conversation'), plan' \in {plan, 0},
             Ends(stored.history) \subseteq Ends(stored'.history),
             Ends(conversation.history) \subseteq Ends(conversation'.history), life' = life
      PROVE  MemoryInv'
  BY <1>3 DEF MemoryInv, SameMemory
<1>4. ASSUME SameMemory(stored, stored'), stored'.history = stored.history, UNCHANGED conversation,
             plan' \in {plan, 0}, life' = life
      PROVE  MemoryInv'
  BY <1>4 DEF MemoryInv, SameMemory
<1>5. CASE Exit
  <2>1. /\ conversation'.through = 0 /\ plan' = 0 /\ UNCHANGED stored
    BY <1>5 DEF Exit
  <2> QED BY <2>1 DEF MemoryInv
<1>6. CASE Resume
  <2>1. /\ stored' = Recovered(stored) /\ conversation'.history = stored'.history
        /\ conversation'.through = stored'.through /\ UNCHANGED plan /\ plan = 0
    BY <1>6 DEF Resume, MemoryInv
  <2> DEFINE a == stored.history
             e == Evidence(stored)
             r == RecoveredInput(stored)
  <2>2. stored'.history = (a \o e) \o r /\ SameMemory(stored, stored')
    BY <1>2, <2>1, RecoveredFields
  <2>3. a \in Seq(LogMessages) /\ e \in Seq(LogMessages) /\ r \in Seq(LogMessages)
    BY <1>1, <1>2, EvidenceMessages, RecoveredInputFacts DEF DeferredInv
  <2> HIDE DEF e, r
  <2>4. Ends(a) \subseteq Ends((a \o e) \o r)
    <3> HIDE DEF a
    <3> QED BY <2>3, JoinedSetsOfThree
  <2> QED BY <2>1, <2>2, <2>4 DEF MemoryInv, SameMemory
<1>7. CASE Interrupt
  BY <1>2, <1>4, <1>7, UnqueuedFields DEF Interrupt
<1>8. CASE ReportEnd
  <2>1. stored' \in {stored, Unqueued(stored, {turn})}
    BY <1>1, <1>8, RecordStep DEF ReportEnd
  <2>2. SameMemory(stored, stored') /\ stored'.history = stored.history
    BY <1>2, <2>1, UnqueuedFields DEF SameMemory
  <2> QED BY <1>4, <1>8, <2>2 DEF ReportEnd
\* Messages are said, and what was deferred with them.
<1>9. ASSUME NEW m \in Seq(LogMessages), SaidInConversation(m), stored' = stored \/ SaidInStored(m),
             plan' \in {plan, 0}, life' = life
      PROVE  MemoryInv'
  <2>1. Ends(conversation.history) \subseteq Ends(conversation'.history) /\ SameMemory(conversation, conversation')
    BY <1>2, <1>9, JoinedSetsOfThree DEF SaidInConversation
  <2>2. Ends(stored.history) \subseteq Ends(stored'.history) /\ SameMemory(stored, stored')
    <3>1. CASE stored' = stored
      BY <3>1 DEF SameMemory
    <3>2. CASE SaidInStored(m)
      BY <1>2, <1>9, <3>2, JoinedSetsOfThree DEF SaidInStored
    <3> QED BY <1>9, <3>1, <3>2
  <2> QED BY <1>3, <1>9, <2>1, <2>2
<1>10. CASE Say
  <2>1. stored.pending = NoCalls
    BY <1>1, <1>10, AsksAlone DEF Say
  <2>2. AppendHistory(<<Text>>) /\ <<Text>> \in Seq(LogMessages) /\ plan' = 0 /\ life' = life
    BY <1>10, InputTypes DEF Say
  <2>3. SaidInConversation(<<Text>>) /\ (stored' = stored \/ SaidInStored(<<Text>>))
    BY <1>1, <2>1, <2>2, AppendStep DEF Pending
  <2> QED BY <1>9, <2>2, <2>3
<1>11. CASE BatchEnds \/ FinishHistory
  <2>1. UNCHANGED <<plan, life>>
    BY <1>11 DEF BatchEnds, FinishHistory
  <2>2. CASE UNCHANGED <<stored, conversation, persistence, batch>>
    BY <1>4, <2>1, <2>2 DEF SameMemory
  <2>3. ASSUME NEW m, BatchCloses(m) PROVE MemoryInv'
    BY <1>9, <2>1, <2>3 DEF BatchCloses
  <2> QED BY <1>1, <1>11, <2>2, <2>3, EndCases
<1>12. CASE ProviderFails \/ StorageFails \/ UNCHANGED logVars
  BY <1>4, <1>12 DEF ProviderFails, StorageFails, SameMemory
<1>13. CASE Plan
  <2>1. plan' \in Ends(conversation.history) /\ UNCHANGED <<stored, conversation, life>> /\ life = "up"
    BY <1>13 DEF Plan, Boundaries
  <2> QED BY <2>1 DEF MemoryInv
<1>14. CASE Compact
  <2> DEFINE generation == conversation.generation + 1
  <2>1. generation \in Nat /\ plan \in Nat
    BY <1>1, <1>2 DEF Conversations, LogTypes
  <2>2. /\ (CanCompact(stored, plan, generation) /\ Record(Compacted(stored, plan, generation))) \/ Refuse
        /\ life = "up" /\ plan' = 0 /\ UNCHANGED life /\ plan # 0
    BY <1>14 DEF Compact
  <2>3. conversation' \in {conversation, [conversation EXCEPT !.through = plan, !.generation = generation]}
    BY <1>2, <1>14 DEF Compact, Conversations
  <2> HIDE DEF generation
  <2>4. \/ stored' = stored
        \/ stored' = Compacted(stored, plan, generation) /\ plan \in Ends(stored.history)
    BY <1>1, <2>2, RecordStep DEF Refuse, CanCompact
  <2>5. /\ conversation'.history = conversation.history
        /\ conversation'.through \in {conversation.through, plan}
    BY <1>2, <2>3 DEF Conversations
  <2>6. stored'.through \in {0} \cup Ends(stored'.history)
    <3>1. stored \in Snapshots
      BY <1>2
    <3> DEFINE n == Compacted(stored, plan, generation)
    <3>2. n.history = stored.history /\ n.through = plan
      BY <2>1, <3>1, CompactedFields
    <3> QED BY <2>4, <3>2 DEF MemoryInv
  <2> QED BY <2>2, <2>5, <2>6 DEF MemoryInv
\* A turn begins.
<1>15. ASSUME NEW p \in Prompts, BeginTurn(p), UNCHANGED <<plan, life>> PROVE MemoryInv'
  <2> DEFINE m == Input("prompt", p)
  <2>1. /\ stored' \in {stored, Began(stored, p)} /\ conversation'.history = conversation.history \o <<m>>
        /\ SameMemory(conversation, conversation')
    BY <1>1, <1>15, BeginStep
  <2>2. m \in LogMessages /\ m.kind = "prompt"
    BY InputTypes, InputFields
  <2>3. SameMemory(stored, Began(stored, p)) /\ Began(stored, p).history = stored.history \o <<m>>
    BY <1>2, BeganFields
  <2> HIDE DEF m
  <2>4. /\ Ends(stored.history) \subseteq Ends(stored.history \o <<m>>)
        /\ Ends(conversation.history) \subseteq Ends(conversation.history \o <<m>>)
    BY <1>2, <2>2, Joined
  <2>5. SameMemory(stored, stored') /\ Ends(stored.history) \subseteq Ends(stored'.history)
    BY <2>1, <2>3, <2>4 DEF SameMemory
  <2> QED BY <1>3, <1>15, <2>1, <2>4, <2>5
<1>16. CASE BeginNext
  <2>1. UNCHANGED <<plan, life>>
    BY <1>16 DEF BeginNext
  <2>2. CASE UNCHANGED <<stored, conversation>>
    BY <1>4, <2>1, <2>2 DEF SameMemory
  <2>3. CASE queue # <<>> /\ BeginTurn(Head(queue))
    <3>1. Head(queue) \in Prompts
      BY <1>1, <2>3, HeadTailProperties DEF LogTypes
    <3> QED BY <1>15, <2>1, <2>3, <3>1
  <2> QED BY <1>16, <2>2, <2>3 DEF BeginNext
<1>17. ASSUME NEW p \in Prompts, Submit(p) PROVE MemoryInv'
  <2>1. UNCHANGED <<plan, life>>
    BY <1>17 DEF Submit
  <2>2. CASE BeginTurn(p)
    BY <1>15, <2>1, <2>2
  <2>3. CASE Record(Queued(stored, p)) /\ UNCHANGED conversation
    <3>1. stored' \in {stored, Queued(stored, p)}
      BY <1>1, <2>3, RecordStep
    <3>2. stored'.history = stored.history /\ SameMemory(stored, stored')
      BY <1>2, <3>1, QueuedFields DEF SameMemory
    <3> QED BY <1>4, <2>1, <2>3, <3>2
  <2> QED BY <1>17, <2>2, <2>3 DEF Submit
<1>18. ASSUME NEW q \in Questions, Answer(q) PROVE MemoryInv'
  <2> DEFINE m == Input("answer", q)
  <2>1. /\ Record(Answered(stored, q)) /\ UNCHANGED <<plan, life>>
        /\ conversation' \in {conversation, [conversation EXCEPT !.deferred = Append(@, m)],
                                            [conversation EXCEPT !.history = Append(@, m)]}
    BY <1>18 DEF Answer
  <2>2. m \in LogMessages /\ m.kind = "answer"
    BY InputTypes, InputFields
  <2>3. stored' \in {stored, Answered(stored, q)}
    BY <1>1, <2>1, RecordStep
  <2>4. /\ SameMemory(stored, Answered(stored, q))
        /\ Answered(stored, q).history \in {stored.history, stored.history \o <<m>>}
    BY <1>2, AnsweredFields
  <2> HIDE DEF m
  <2>5. Append(conversation.history, m) = conversation.history \o <<m>>
    BY <1>2, <2>2, AppendIsConcat
  <2>6. /\ conversation'.history \in {conversation.history, conversation.history \o <<m>>}
        /\ SameMemory(conversation, conversation')
    BY <1>2, <2>1, <2>5 DEF Conversations, SameMemory
  <2>7. /\ Ends(stored.history) \subseteq Ends(stored.history \o <<m>>)
        /\ Ends(conversation.history) \subseteq Ends(conversation.history \o <<m>>)
    BY <1>2, <2>2, Joined
  <2>8. SameMemory(stored, stored') /\ Ends(stored.history) \subseteq Ends(stored'.history)
    BY <2>3, <2>4, <2>7 DEF SameMemory
  <2> QED BY <1>3, <2>1, <2>6, <2>7, <2>8
<1>19. ASSUME NEW ops \in SUBSET Calls, Launch(ops) PROVE MemoryInv'
  <2> DEFINE t == [c \in ops |-> "queued"]
  <2>1. stored' \in {stored, Prepared(stored, t)} /\ UNCHANGED conversation /\ plan' = 0
    BY <1>1, <1>19, LaunchStep
  <2>2. t \in Tables(OpStates)
    BY TableOf DEF OpStates
  <2>3. UNCHANGED life
    BY <1>19 DEF Launch
  <2> HIDE DEF t
  <2>4. stored'.history = stored.history /\ SameMemory(stored, stored')
    BY <1>2, <2>1, <2>2, PreparedFields DEF SameMemory
  <2> QED BY <1>4, <2>1, <2>3, <2>4
<1>20. ASSUME NEW c \in Calls, Intend(c) \/ Decline(c) \/ TakeEffect(c) \/ Complete(c) PROVE MemoryInv'
  <2>1. JobFrame(c)
    BY <1>1, <1>20, JobActions
  <2> QED BY <1>4, <2>1 DEF JobFrame
<1>21. ASSUME NEW c \in Calls, ProcessEnds(c) PROVE MemoryInv'
  <2>1. /\ Record(ProcessCompleted(stored, c)) /\ c \in Starters /\ UNCHANGED <<conversation, plan, life>>
    BY <1>1, <1>21 DEF ProcessEnds, LogTypes
  <2>2. stored' \in {stored, ProcessCompleted(stored, c)}
    BY <1>1, <2>1, RecordStep
  <2>3. stored'.history = stored.history /\ SameMemory(stored, stored')
    BY <1>2, <2>1, <2>2, ProcessCompletedFields DEF SameMemory
  <2> QED BY <1>4, <2>1, <2>3
<1> QED BY <1>5, <1>6, <1>7, <1>8, <1>10, <1>11, <1>12, <1>13, <1>14, <1>16, <1>17, <1>18, <1>19, <1>20,
           <1>21 DEF LogNext

\* Nothing is said at first.
LEMMA WholeInit == LogInit => WholeInv /\ MemoryInv
<1> SUFFICES ASSUME LogInit PROVE WholeInv /\ MemoryInv
  OBVIOUS
<1>1. AnswersOf(<<>>) = {} /\ IsWhole(<<>>) /\ AnswersAreLate(<<>>, heard)
  BY NothingSaid, NoneLate
<1>2. WholeInv
  BY <1>1 DEF LogInit, WholeInv
<1>3. MemoryInv
  BY DEF LogInit, MemoryInv
<1> QED BY <1>2, <1>3

\* In every history that a provider may be sent, before and after a restart,
\* calls are followed by their results, told of once, and before the answers
\* that were given under them; a compaction ends after an exchange.
THEOREM ExchangesStayWhole == LogSpec => []ExchangesAreWhole
<1>1. SafeInv /\ StoredInv /\ WholeInv /\ MemoryInv /\ [LogNext]_logVars
        => (SafeInv /\ StoredInv /\ WholeInv /\ MemoryInv)'
  BY SafeStep, StoredStep, WholeStep, MemoryStep
<1>2. ASSUME SafeInv, WholeInv, MemoryInv PROVE ExchangesAreWhole
  <2>1. stored \in Snapshots /\ stored.history \in Seq(LogMessages) /\ OnlyAnswers(stored.deferred)
    BY <1>2 DEF SafeInv, LogTypes, DeferredInv, Snapshots
  <2>2. /\ Mentioned(stored.history) \cap DOMAIN stored.pending = {}
        /\ \A q \in AnswersOf(stored.history) : heard[q] \cap DOMAIN stored.pending = {}
        /\ IsWhole(stored.history) /\ AnswersAreLate(stored.history, heard)
    BY <1>2 DEF SafeInv, EffectsInv, WholeInv
  <2>3. ASSUME NEW h \in {conversation.history, stored.history \o RecoveredInput(stored)}
        PROVE  Followed(h) /\ ToldOnce(h) /\ AnswersAreLate(h, heard)
    BY <1>2, <2>1, <2>2, RecoveredWhole DEF WholeInv, IsWhole
  <2> QED BY <1>2, <2>3 DEF ExchangesAreWhole, MemoryInv, Followed, ToldOnce, AnswersAreLate
<1> QED BY <1>1, <1>2, SafeInit, StoredInit, WholeInit, PTL DEF LogSpec

-----------------------------------------------------------------------------
(* Inputs, once and in order                                               *)

\* What a message of a history carries.
LEMMA ItemTypes ==
  ASSUME NEW h \in Seq(LogMessages)
  PROVE  /\ ItemsOf(h) \subseteq Prompts \cup Questions \cup {NoItem}
         /\ OnlyAnswers(h) => ItemsOf(h) \subseteq Questions
<1>1. \A i \in DOMAIN h : h[i] \in LogMessages
  BY ElementOfSeq, LenProperties
<1>2. \A m \in LogMessages : /\ m.item \in Prompts \cup Questions \cup {NoItem}
                             /\ m.kind = "answer" => m.item \in Questions
  BY DEF LogMessages, Text, Input, Message
<1> QED BY <1>1, <1>2 DEF ItemsOf, OnlyAnswers

\* Two pieces that share no input.
LEMMA JoinedOneItem ==
  ASSUME NEW a \in Seq(LogMessages), NEW b \in Seq(LogMessages), OneItem(a), OneItem(b),
         ItemsOf(a) \cap ItemsOf(b) \subseteq {NoItem}
  PROVE  OneItem(a \o b)
<1> DEFINE h == a \o b
           n == Len(a)
<1>1. /\ n \in Nat
      /\ \A i \in DOMAIN a : i \in DOMAIN h /\ h[i] = a[i]
      /\ \A i \in DOMAIN b : n + i \in DOMAIN h /\ h[n + i] = b[i]
      /\ \A i \in DOMAIN h : i \in DOMAIN a \/ \E k \in DOMAIN b : i = n + k
  BY Joins
<1> HIDE DEF h, n
<1>2. /\ \A i \in DOMAIN a : a[i].item \in ItemsOf(a)
      /\ \A i \in DOMAIN b : b[i].item \in ItemsOf(b)
  BY DEF ItemsOf
<1>3. SUFFICES ASSUME NEW i \in DOMAIN h, NEW k \in DOMAIN h, h[i].item = h[k].item, h[i].item # NoItem
               PROVE  i = k
  BY DEF OneItem, h
<1>4. CASE i \in DOMAIN a /\ k \in DOMAIN a
  BY <1>1, <1>3, <1>4 DEF OneItem
<1>5. ASSUME NEW j \in DOMAIN b, NEW l \in DOMAIN b, i = n + j, k = n + l PROVE i = k
  BY <1>1, <1>3, <1>5 DEF OneItem
<1> QED BY <1>1, <1>2, <1>3, <1>4, <1>5

\* Two pieces, of which the second has nothing earlier than the first.
LEMMA JoinedOrder ==
  ASSUME NEW a \in Seq(LogMessages), NEW b \in Seq(LogMessages), NEW acc, NEW S,
         InOrder(acc, a, S), InOrder(acc, b, S), NoneEarlier(acc, S \cap ItemsOf(b), S \cap ItemsOf(a))
  PROVE  InOrder(acc, a \o b, S)
<1> DEFINE h == a \o b
           n == Len(a)
<1>1. /\ n \in Nat
      /\ \A i \in DOMAIN a : i \in DOMAIN h /\ h[i] = a[i] /\ i \in Nat /\ i <= n
      /\ \A i \in DOMAIN b : n + i \in DOMAIN h /\ h[n + i] = b[i] /\ i \in Nat /\ i > 0
      /\ \A i \in DOMAIN h : i \in DOMAIN a \/ \E k \in DOMAIN b : i = n + k
  BY Joins
<1> HIDE DEF h, n
<1>2. /\ \A i \in DOMAIN a : a[i].item \in ItemsOf(a)
      /\ \A i \in DOMAIN b : b[i].item \in ItemsOf(b)
  BY DEF ItemsOf
<1>3. SUFFICES ASSUME NEW i \in DOMAIN h, NEW k \in DOMAIN h, h[i].item \in S, h[k].item \in S,
                      Earlier(acc, h[i].item, h[k].item)
               PROVE  i < k
  BY DEF InOrder, h
<1>4. CASE i \in DOMAIN a /\ k \in DOMAIN a
  BY <1>1, <1>3, <1>4 DEF InOrder
<1>5. ASSUME NEW j \in DOMAIN b, NEW l \in DOMAIN b, i = n + j, k = n + l PROVE i < k
  <2>1. j < l
    BY <1>1, <1>3, <1>5 DEF InOrder
  <2> QED BY <1>1, <1>5, <2>1
<1>6. ASSUME i \in DOMAIN a, NEW l \in DOMAIN b, k = n + l PROVE i < k
  BY <1>1, <1>6
<1>7. ASSUME NEW j \in DOMAIN b, i = n + j, k \in DOMAIN a PROVE FALSE
  BY <1>1, <1>2, <1>3, <1>7 DEF NoneEarlier
<1> QED BY <1>1, <1>4, <1>5, <1>6, <1>7

\* A piece that has none of the inputs in question, or one message only.
LEMMA FewInOrder ==
  ASSUME NEW h \in Seq(LogMessages), NEW acc, NEW S, S \cap ItemsOf(h) = {}
  PROVE  InOrder(acc, h, S)
BY DEF InOrder, ItemsOf

\* Fewer inputs are in order, too.
LEMMA LessInOrder ==
  ASSUME NEW acc, NEW S, NEW T
  PROVE  /\ \A h : InOrder(acc, h, S) /\ T \cap ItemsOf(h) \subseteq S => InOrder(acc, h, T)
         /\ \A q : SameOrder(acc, q, S) /\ T \cap ToSet(q) \subseteq S => SameOrder(acc, q, T)
BY DEF InOrder, SameOrder, ItemsOf, ToSet

\* An input that is accepted is later than those before it.
LEMMA Accepted ==
  ASSUME NEW M, NEW acc \in Seq(M), NEW x \in M, x \notin ToSet(acc)
  PROVE  /\ \A y, z : Earlier(Append(acc, x), y, z) => Earlier(acc, y, z) \/ (z = x /\ y # x)
         /\ \A y : ~Earlier(acc, x, y) /\ ~Earlier(acc, y, x)
<1> DEFINE n == Len(acc)
           b == Append(acc, x)
<1>1. /\ n \in Nat /\ DOMAIN acc = 1..n /\ DOMAIN b = 1..(n + 1) /\ b[n + 1] = x
      /\ \A i \in 1..n : b[i] = acc[i]
  BY AppendProperties, LenProperties
<1> HIDE DEF n, b
<1>2. \A i \in DOMAIN acc : acc[i] # x
  BY DEF ToSet
<1>3. ASSUME NEW y, NEW z, Earlier(b, y, z) PROVE Earlier(acc, y, z) \/ (z = x /\ y # x)
  <2>1. PICK k \in DOMAIN b, l \in DOMAIN b : k < l /\ b[k] = y /\ b[l] = z
    BY <1>3 DEF Earlier
  <2>2. k \in 1..n /\ y = acc[k] /\ y # x
    BY <1>1, <1>2, <2>1
  <2>3. CASE l = n + 1
    BY <1>1, <2>1, <2>2, <2>3
  <2>4. CASE l # n + 1
    <3>1. l \in 1..n /\ z = acc[l]
      BY <1>1, <2>1, <2>4
    <3> QED BY <1>1, <2>1, <2>2, <3>1 DEF Earlier
  <2> QED BY <2>3, <2>4
<1>4. \A y : ~Earlier(acc, x, y) /\ ~Earlier(acc, y, x)
  BY <1>2 DEF Earlier
<1> QED BY <1>3, <1>4 DEF b

\* The order of `S' stays when `b' is accepted in place of `acc'.
KeepsOrder(acc, b, S) ==
  /\ \A h : InOrder(acc, h, S) => InOrder(b, h, S)
  /\ \A q : SameOrder(acc, q, S) => SameOrder(b, q, S)
  /\ \A X, Y : Y \subseteq S /\ NoneEarlier(acc, X, Y) => NoneEarlier(b, X, Y)

\* It does where one more input is accepted, or none.
LEMMA AcceptedOrder ==
  ASSUME NEW M, NEW acc \in Seq(M), NEW x \in M, x \notin ToSet(acc),
         NEW b, b = acc \/ b = Append(acc, x), NEW S, x \notin S
  PROVE  KeepsOrder(acc, b, S) /\ \A y : ~Earlier(b, x, y)
<1> DEFINE n == Append(acc, x)
<1>1. /\ \A y, z : Earlier(n, y, z) => Earlier(acc, y, z) \/ (z = x /\ y # x)
      /\ \A y : ~Earlier(acc, x, y)
  BY Accepted
<1> HIDE DEF n
<1>2. CASE b = acc
  BY <1>1, <1>2 DEF KeepsOrder, InOrder, SameOrder, NoneEarlier
<1>3. CASE b = n
  <2>1. \A y, z : z # x /\ Earlier(b, y, z) => Earlier(acc, y, z)
    BY <1>1, <1>3
  <2>2. \A y : ~Earlier(b, x, y)
    BY <1>1, <1>3
  <2> QED BY <2>1, <2>2 DEF KeepsOrder, InOrder, SameOrder, NoneEarlier
<1> QED BY <1>2, <1>3 DEF n

\* A prompt joins a queue in which nothing is later.
LEMMA QueueOrder ==
  ASSUME NEW M, NEW q \in Seq(M), NEW p \in M, NEW acc, NEW S, SameOrder(acc, q, S),
         \A y : ~Earlier(acc, p, y)
  PROVE  SameOrder(acc, Append(q, p), S)
<1> DEFINE a == Append(q, p)
           n == Len(q)
<1>1. /\ n \in Nat /\ DOMAIN q = 1..n /\ DOMAIN a = 1..(n + 1) /\ a[n + 1] = p
      /\ \A i \in 1..n : a[i] = q[i]
  BY AppendProperties, LenProperties
<1> HIDE DEF a, n
<1>2. SUFFICES ASSUME NEW i \in DOMAIN a, NEW k \in DOMAIN a, a[i] \in S, a[k] \in S, Earlier(acc, a[i], a[k])
               PROVE  i < k
  BY DEF SameOrder, a
<1>3. i \in 1..n
  BY <1>1, <1>2
<1>4. CASE k \in 1..n
  BY <1>1, <1>2, <1>3, <1>4 DEF SameOrder
<1> QED BY <1>1, <1>3, <1>4

\* The first of a queue is taken, in its order.
LEMMA TailOrder ==
  ASSUME NEW M, NEW q \in Seq(M), q # <<>>, NEW acc, NEW S, SameOrder(acc, q, S)
  PROVE  /\ SameOrder(acc, Tail(q), S)
         /\ Head(q) \in S => NoneEarlier(acc, S \cap ToSet(Tail(q)), {Head(q)})
<1> DEFINE t == Tail(q)
<1>1. /\ DOMAIN q = 1..Len(q) /\ Len(q) \in Nat \ {0} /\ Head(q) = q[1]
      /\ DOMAIN t = 1..(Len(q) - 1)
      /\ \A i \in 1..(Len(q) - 1) : t[i] = q[i+1]
  BY LenProperties, EmptySeq, HeadTailProperties
<1> HIDE DEF t
<1>2. \A i \in DOMAIN t : i \in Nat /\ i > 0 /\ i + 1 \in DOMAIN q /\ t[i] = q[i + 1]
  BY <1>1
<1>3. SameOrder(acc, t, S)
  <2>1. SUFFICES ASSUME NEW i \in DOMAIN t, NEW k \in DOMAIN t, t[i] \in S, t[k] \in S, Earlier(acc, t[i], t[k])
                 PROVE  i < k
    BY DEF SameOrder
  <2>2. i + 1 < k + 1
    BY <1>2, <2>1 DEF SameOrder
  <2> QED BY <1>2, <2>2
<1>4. ASSUME Head(q) \in S, NEW i \in DOMAIN t, t[i] \in S, Earlier(acc, t[i], Head(q)) PROVE FALSE
  <2>1. 1 \in DOMAIN q /\ i + 1 \in DOMAIN q /\ q[i + 1] \in S /\ q[1] \in S /\ Earlier(acc, q[i + 1], q[1])
    BY <1>1, <1>2, <1>4
  <2>2. i + 1 < 1
    BY <2>1 DEF SameOrder
  <2> QED BY <1>2, <1>4, <2>2
<1>5. Head(q) \in S => NoneEarlier(acc, S \cap ToSet(t), {Head(q)})
  BY <1>4 DEF NoneEarlier, ToSet
<1> QED BY <1>3, <1>5 DEF t

\* The prompts of a queue, and answers, as they are said.
LEMMA PromptsInOrder ==
  ASSUME NEW q \in Seq(Prompts)
  PROVE  /\ Distinctly(q) => OneItem(PromptsOf(q))
         /\ \A acc, S : SameOrder(acc, q, S) => InOrder(acc, PromptsOf(q), S)
<1> DEFINE h == PromptsOf(q)
<1>1. DOMAIN h = DOMAIN q /\ \A i \in DOMAIN q : h[i].item = q[i]
  BY PromptMessages
<1> HIDE DEF h
<1>2. Distinctly(q) => OneItem(h)
  BY <1>1 DEF Distinctly, OneItem
<1>3. \A acc, S : SameOrder(acc, q, S) => InOrder(acc, h, S)
  BY <1>1 DEF SameOrder, InOrder
<1> QED BY <1>2, <1>3 DEF h

\* A piece without inputs.
LEMMA NoItems ==
  ASSUME NEW h \in Seq(LogMessages), ItemsOf(h) \subseteq {NoItem}
  PROVE  OneItem(h) /\ \A acc, S : NoItem \notin S => InOrder(acc, h, S)
BY DEF ItemsOf, OneItem, InOrder

-----------------------------------------------------------------------------
(* What the actions do to the inputs                                       *)

\* Nothing.
Holds ==
  /\ stored'.history = stored.history /\ stored'.deferred = stored.deferred /\ stored'.queued = stored.queued
  /\ stored'.pending = NoCalls => stored.pending = NoCalls
  /\ UNCHANGED <<turn, queue, accepted, excused, life>> /\ used \subseteq used'
\* Messages are said, and what was deferred with them.
Says(m) ==
  /\ m \in Seq(LogMessages) /\ ItemsOf(m) = {NoItem} /\ SaidInStored(m)
  /\ UNCHANGED <<turn, queue, accepted, excused, life, used>>
\* A record is made, and if storage works its input is accepted.
Accepts(x, new) ==
  \/ stored' = new /\ accepted' = Append(accepted, x)
  \/ stored' \in {stored, new} /\ accepted' = accepted
\* A turn begins, with a new prompt or the first that waits.
BeginsNew(p) ==
  /\ life = "up" /\ turn = NoItem /\ turn' = p /\ UNCHANGED <<life, excused>>
  /\ p \notin used /\ used' = used \cup {p} /\ queue = <<>> /\ queue' = <<>> /\ Accepts(p, Began(stored, p))
BeginsHead ==
  /\ life = "up" /\ turn = NoItem /\ queue # <<>> /\ turn' = Head(queue) /\ queue' = Tail(queue)
  /\ stored' \in {stored, Began(stored, Head(queue))} /\ UNCHANGED <<life, used, accepted, excused>>
\* A new prompt waits.
Queues(p) ==
  /\ p \notin used /\ used' = used \cup {p} /\ UNCHANGED <<turn, excused, life>>
  /\ queue' = Append(queue, p) /\ Accepts(p, Queued(stored, p))
\* A question is answered.
Answers(q) ==
  /\ q \notin ItemsOf(stored.history) \cup ItemsOf(stored.deferred)
  /\ UNCHANGED <<turn, queue, excused, life, used>>
  /\ stored' = Answered(stored, q) /\ accepted' = Append(accepted, q)
\* Prompts leave the queues; the process still has those that are kept.
Leaves(gone) ==
  /\ stored' \in {stored, Unqueued(stored, gone)} /\ UNCHANGED <<accepted, life, used>>
  /\ excused \subseteq excused' /\ queue' \in {queue, <<>>}
  /\ KeptPrompts' \cap gone \cap ToSet(stored.queued) = {}
  /\ \A p \in KeptPrompts' \cap (ToSet(queue) \cup {turn}) :
       p \in ToSet(queue') \cup {turn'} \/ p \notin ToSet(stored'.queued)

\* Each action does one of these, or ends or begins a life.
LEMMA InputCases ==
  ASSUME SafeInv, StoredInv, [LogNext]_logVars
  PROVE  \/ Exit \/ Resume \/ Holds \/ BeginsHead
         \/ (\E m : Says(m)) \/ (\E gone : Leaves(gone))
         \/ (\E p \in Prompts : BeginsNew(p) \/ Queues(p)) \/ (\E q \in Questions : Answers(q))
<1> USE DEF process, control, seen, logVars
<1>1. LogTypes /\ BatchInv /\ DeferredInv /\ EffectsInv /\ QueueInv
  BY DEF SafeInv, StoredInv
<1>2. /\ stored \in Snapshots /\ conversation \in Conversations
      /\ stored.history \in Seq(LogMessages) /\ stored.deferred \in Seq(LogMessages)
      /\ queue \in Seq(Prompts) /\ stored.queued \in Seq(Prompts)
      /\ persistence \in {"Ready", "Failed"} /\ DOMAIN NoCalls = {}
  BY <1>1, NoCallsTable DEF LogTypes, Snapshots
<1> DEFINE Same == /\ stored'.history = stored.history /\ stored'.deferred = stored.deferred
                   /\ stored'.queued = stored.queued
<1>3. ASSUME Same, stored'.pending = stored.pending, UNCHANGED <<turn, queue, accepted, excused, life>>,
             used \subseteq used'
      PROVE  Holds
  BY <1>3 DEF Holds
<1>4. CASE Interrupt
  <2>1. PICK gone \in SUBSET ToSet(queue) : stored' = Unqueued(stored, gone)
    BY <1>4 DEF Interrupt
  <2>2. excused' = excused \cup ToSet(queue) /\ queue' = <<>> /\ UNCHANGED <<accepted, life, used, turn>>
    BY <1>4 DEF Interrupt, Report
  <2>3. KeptPrompts' \cap ToSet(queue) = {}
    BY <2>2 DEF KeptPrompts
  <2> QED BY <2>1, <2>2, <2>3 DEF Leaves
<1>5. CASE ReportEnd
  <2>1. /\ Record(Unqueued(stored, {turn})) /\ UNCHANGED <<accepted, life, used, queue>>
        /\ Report({turn}, outcome)
    BY <1>5 DEF ReportEnd
  <2>2. /\ stored' \in {stored, Unqueued(stored, {turn})}
        /\ persistence' = "Ready" => persistence = "Ready" /\ stored' = Unqueued(stored, {turn})
    BY <1>1, <2>1, RecordStep
  <2>3. life = "up"
    BY <1>5 DEF ReportEnd
  <2>4. CASE turn \in excused' /\ excused \subseteq excused'
    <3>1. turn \notin KeptPrompts'
      BY <2>4 DEF KeptPrompts
    <3> QED BY <2>1, <2>2, <2>4, <3>1 DEF Leaves
  <2>5. CASE excused' = excused /\ persistence' = "Ready"
    <3>1. turn \notin ToSet(stored.queued)
      BY <1>1, <2>2, <2>3, <2>5 DEF QueueInv, StoredInv
    <3>2. stored'.queued = stored.queued
      BY <1>2, <2>2, <2>5, <3>1, UnqueuedFields, WithoutNone
    <3> QED BY <2>1, <2>2, <2>5, <3>1, <3>2 DEF Leaves
  <2> QED BY <2>1, <2>4, <2>5 DEF Report
<1>6. CASE Say
  <2>1. stored.pending = NoCalls
    BY <1>1, <1>6, AsksAlone DEF Say
  <2>2. AppendHistory(<<Text>>) /\ <<Text>> \in Seq(LogMessages) /\ UNCHANGED <<turn, queue, accepted, excused, life, used>>
    BY <1>6, InputTypes DEF Say
  <2>3. stored' = stored \/ SaidInStored(<<Text>>)
    BY <1>1, <2>1, <2>2, AppendStep DEF Pending
  <2>4. ItemsOf(<<Text>>) = {NoItem}
    BY InputTypes, InputFields, InputAlone
  <2>5. CASE stored' = stored
    BY <1>3, <2>2, <2>5
  <2> QED BY <2>2, <2>3, <2>4, <2>5 DEF Says
<1>7. CASE BatchEnds \/ FinishHistory
  <2>1. UNCHANGED <<turn, queue, accepted, excused, life, used>>
    BY <1>7 DEF BatchEnds, FinishHistory
  <2>2. CASE stored' = stored
    BY <1>3, <2>1, <2>2
  <2>3. ASSUME NEW m, BatchCloses(m), stored' # stored PROVE Says(m)
    <3>1. ItemsOf(m) = {NoItem} /\ m \in Seq(LogMessages) /\ SaidInStored(m)
      BY <1>1, <2>3, ExchangeTells DEF BatchCloses
    <3> QED BY <2>1, <3>1 DEF Says
  <2> QED BY <1>1, <1>7, <2>2, <2>3, EndCases
<1>8. CASE ProviderFails \/ Plan \/ StorageFails \/ UNCHANGED logVars
  BY <1>3, <1>8 DEF ProviderFails, Plan, StorageFails
<1>9. CASE Compact
  <2> DEFINE generation == conversation.generation + 1
  <2>1. generation \in Nat /\ plan \in Nat
    BY <1>1, <1>2 DEF Conversations, LogTypes
  <2>2. Record(Compacted(stored, plan, generation)) \/ Refuse
    BY <1>9 DEF Compact
  <2>3. UNCHANGED <<turn, queue, accepted, excused, life, used>>
    BY <1>9 DEF Compact
  <2> HIDE DEF generation
  <2>4. stored' = stored \/ stored' = Compacted(stored, plan, generation)
    BY <1>1, <2>2, RecordStep DEF Refuse
  <2>5. Same /\ stored'.pending = stored.pending
    <3>1. stored \in Snapshots
      BY <1>2
    <3> DEFINE n == Compacted(stored, plan, generation)
    <3>2. /\ n.history = stored.history /\ n.deferred = stored.deferred /\ n.queued = stored.queued
          /\ n.pending = stored.pending
      BY <2>1, <3>1, CompactedFields
    <3> QED BY <2>4, <3>2
  <2> QED BY <1>3, <2>3, <2>5
<1>10. CASE BeginNext
  <2>1. UNCHANGED <<life, used, accepted, excused>> /\ life = "up" /\ turn = NoItem
    BY <1>1, <1>10 DEF BeginNext, QueueInv
  <2>2. CASE UNCHANGED <<stored, turn, queue>>
    BY <1>3, <2>1, <2>2
  <2>3. CASE queue # <<>> /\ BeginTurn(Head(queue)) /\ queue' = Tail(queue)
    <3>1. Head(queue) \in Prompts
      BY <1>2, <2>3, QueueTail
    <3>2. stored' \in {stored, Began(stored, Head(queue))} /\ turn' = Head(queue)
      BY <1>1, <2>3, <3>1, BeginStep
    <3> QED BY <2>1, <2>3, <3>2 DEF BeginsHead
  <2> QED BY <1>10, <2>2, <2>3 DEF BeginNext
<1>11. ASSUME NEW p \in Prompts, Submit(p) PROVE BeginsNew(p) \/ Queues(p)
  <2>1. /\ p \notin used /\ used' = used \cup {p} /\ UNCHANGED <<life, excused>> /\ life = "up"
        /\ accepted' = IF persistence' = "Ready" THEN Append(accepted, p) ELSE accepted
    BY <1>11 DEF Submit, Listens, Accept
  <2>2. CASE phase = "idle" /\ BeginTurn(p) /\ UNCHANGED queue
    <3>1. queue = <<>> /\ turn = NoItem
      BY <1>1, <2>2 DEF QueueInv
    <3>2. /\ stored' \in {stored, Began(stored, p)} /\ turn' = p
          /\ persistence' = "Ready" => stored' = Began(stored, p)
      BY <1>1, <2>2, BeginStep
    <3>3. Accepts(p, Began(stored, p))
      BY <2>1, <3>2 DEF Accepts
    <3> QED BY <2>1, <2>2, <3>1, <3>2, <3>3 DEF BeginsNew
  <2>3. CASE Record(Queued(stored, p)) /\ queue' = Append(queue, p) /\ UNCHANGED turn
    <3>1. /\ stored' \in {stored, Queued(stored, p)}
          /\ persistence' = "Ready" => stored' = Queued(stored, p)
      BY <1>1, <2>3, RecordStep
    <3>2. Accepts(p, Queued(stored, p))
      BY <2>1, <3>1 DEF Accepts
    <3> QED BY <2>1, <2>3, <3>2 DEF Queues
  <2> QED BY <1>11, <2>2, <2>3 DEF Submit
<1>12. ASSUME NEW q \in Questions, Answer(q) PROVE Answers(q) \/ Holds
  <2> DEFINE m == Input("answer", q)
  <2>1. /\ Record(Answered(stored, q)) /\ UNCHANGED <<turn, queue, excused, life, used>> /\ persistence = "Ready"
        /\ accepted' = IF persistence' = "Ready" THEN Append(accepted, q) ELSE accepted
        /\ \A i \in DOMAIN stored.history : stored.history[i] # m
        /\ \A i \in DOMAIN stored.deferred : stored.deferred[i] # m
    BY <1>12 DEF Answer, Accept, IsOpen
  <2>2. ASSUME NEW h \in Seq(LogMessages), \A i \in DOMAIN h : h[i] # m PROVE q \notin ItemsOf(h)
    <3>1. \A x \in LogMessages : x.item = q => x = m
      BY SessionAssumption DEF LogMessages, Text, Input, Message
    <3>2. \A i \in DOMAIN h : h[i] \in LogMessages
      BY ElementOfSeq, LenProperties
    <3> QED BY <2>2, <3>1, <3>2 DEF ItemsOf
  <2>3. q \notin ItemsOf(stored.history) \cup ItemsOf(stored.deferred)
    BY <1>2, <2>1, <2>2
  <2>4. \/ stored' = stored /\ persistence' = "Failed"
        \/ stored' = Answered(stored, q) /\ persistence' = "Ready"
    BY <2>1 DEF Record
  <2>5. CASE stored' = stored /\ persistence' = "Failed"
    BY <1>3, <2>1, <2>5
  <2> QED BY <2>1, <2>3, <2>4, <2>5 DEF Answers
<1>13. ASSUME NEW ops \in SUBSET Calls, Launch(ops) PROVE Holds
  <2> DEFINE t == [c \in ops |-> "queued"]
  <2>1. stored' \in {stored, Prepared(stored, t)} /\ stored.pending = NoCalls /\ used \subseteq used'
    BY <1>1, <1>13, LaunchStep
  <2>2. t \in Tables(OpStates)
    BY TableOf DEF OpStates
  <2>3. UNCHANGED <<turn, queue, accepted, excused, life>>
    BY <1>13 DEF Launch
  <2> HIDE DEF t
  <2>4. Same
    BY <1>2, <2>1, <2>2, PreparedFields
  <2> QED BY <2>1, <2>3, <2>4 DEF Holds
<1>14. ASSUME NEW c \in Calls, Intend(c) \/ Decline(c) \/ TakeEffect(c) \/ Complete(c) PROVE Holds
  <2>1. JobFrame(c)
    BY <1>1, <1>14, JobActions
  <2>2. stored'.pending # NoCalls
    BY <1>2, <2>1 DEF JobFrame
  <2> QED BY <2>1, <2>2 DEF JobFrame, Holds
<1>15. ASSUME NEW c \in Calls, ProcessEnds(c) PROVE Holds
  <2>1. /\ Record(ProcessCompleted(stored, c)) /\ c \in Starters
        /\ UNCHANGED <<turn, queue, accepted, excused, life, used>>
    BY <1>1, <1>15 DEF ProcessEnds, LogTypes
  <2>2. stored' \in {stored, ProcessCompleted(stored, c)}
    BY <1>1, <2>1, RecordStep
  <2>3. Same /\ stored'.pending = stored.pending
    BY <1>2, <2>1, <2>2, ProcessCompletedFields
  <2> QED BY <1>3, <2>1, <2>3
<1> QED BY <1>4, <1>5, <1>6, <1>7, <1>8, <1>9, <1>10, <1>11, <1>12, <1>13, <1>14, <1>15 DEF LogNext

\* What recovery says next has each input once, and in order.
LEMMA RecoveredOnce ==
  ASSUME NEW s \in Snapshots, OnlyAnswers(s.deferred), OneItem(s.deferred), Distinctly(s.queued)
  PROVE  OneItem(RecoveredInput(s))
<1> DEFINE u == Unanswered(s)
           d == s.deferred
           p == PromptsOf(s.queued)
<1>1. s.deferred \in Seq(LogMessages) /\ s.queued \in Seq(Prompts)
  BY DEF Snapshots
<1>2. u \in Seq(LogMessages) /\ ItemsOf(u) \subseteq {NoItem} /\ OneItem(u)
  BY UnansweredMessages, NoItems
<1>3. d \in Seq(LogMessages) /\ ItemsOf(d) \subseteq Questions /\ OneItem(d)
  BY <1>1, ItemTypes
<1>4. p \in Seq(LogMessages) /\ ItemsOf(p) \subseteq Prompts /\ OneItem(p)
  BY <1>1, PromptMessages, PromptsInOrder DEF ToSet
<1>5. RecoveredInput(s) = (u \o d) \o p
  BY DEF RecoveredInput
<1> HIDE DEF u, d, p
<1>6. u \o d \in Seq(LogMessages) /\ ItemsOf(u \o d) = ItemsOf(u) \cup ItemsOf(d) /\ OneItem(u \o d)
  <2>1. ItemsOf(u) \cap ItemsOf(d) \subseteq {NoItem}
    BY <1>2
  <2> QED BY <1>2, <1>3, <2>1, Joins, JoinedSets, JoinedOneItem
<1>7. ItemsOf(u \o d) \cap ItemsOf(p) \subseteq {NoItem}
  BY <1>2, <1>3, <1>4, <1>6, SessionAssumption
<1> QED BY <1>4, <1>5, <1>6, <1>7, JoinedOneItem

\* And in the order in which they were accepted.
LEMMA RecoveredOrder ==
  ASSUME NEW s \in Snapshots, OnlyAnswers(s.deferred), NEW acc, NEW S,
         InOrder(acc, s.deferred, S), SameOrder(acc, s.queued, S), S \subseteq Prompts \/ S \subseteq Questions
  PROVE  InOrder(acc, RecoveredInput(s), S)
<1> DEFINE u == Unanswered(s)
           d == s.deferred
           p == PromptsOf(s.queued)
<1>1. s.deferred \in Seq(LogMessages) /\ s.queued \in Seq(Prompts) /\ NoItem \notin S
  BY SessionAssumption DEF Snapshots
<1>2. u \in Seq(LogMessages) /\ S \cap ItemsOf(u) = {} /\ InOrder(acc, u, S)
  BY <1>1, UnansweredMessages, NoItems
<1>3. d \in Seq(LogMessages) /\ ItemsOf(d) \subseteq Questions /\ InOrder(acc, d, S)
  BY <1>1, ItemTypes
<1>4. p \in Seq(LogMessages) /\ ItemsOf(p) \subseteq Prompts /\ InOrder(acc, p, S)
  BY <1>1, PromptMessages, PromptsInOrder DEF ToSet
<1>5. RecoveredInput(s) = (u \o d) \o p
  BY DEF RecoveredInput
<1> HIDE DEF u, d, p
<1>6. u \o d \in Seq(LogMessages) /\ ItemsOf(u \o d) = ItemsOf(u) \cup ItemsOf(d) /\ InOrder(acc, u \o d, S)
  <2>1. NoneEarlier(acc, S \cap ItemsOf(d), S \cap ItemsOf(u))
    BY <1>2 DEF NoneEarlier
  <2>2. InOrder(acc, u \o d, S)
    BY <1>2, <1>3, <2>1, JoinedOrder
  <2> QED BY <1>2, <1>3, <2>2, Joins, JoinedSets
<1>7. S \cap ItemsOf(p) = {} \/ S \cap ItemsOf(u \o d) = {}
  BY <1>2, <1>3, <1>4, <1>6, SessionAssumption
<1>8. NoneEarlier(acc, S \cap ItemsOf(p), S \cap ItemsOf(u \o d))
  BY <1>7 DEF NoneEarlier
<1> QED BY <1>4, <1>5, <1>6, <1>8, JoinedOrder

\* And so after a history, of which it has no input.
LEMMA RecoveredInputs ==
  ASSUME LogTypes, DeferredInv, OnceInv, OrderInv, NEW h \in Seq(LogMessages), OneItem(h),
         ItemsOf(h) \ {NoItem} = ItemsOf(stored.history) \ {NoItem},
         InOrder(accepted, h, KeptPrompts), InOrder(accepted, h, Questions)
  PROVE  LET w == h \o RecoveredInput(stored)
         IN /\ w \in Seq(LogMessages) /\ OneItem(w)
            /\ InOrder(accepted, w, KeptPrompts) /\ InOrder(accepted, w, Questions)
            /\ ItemsOf(w) \ {NoItem} =
                 (ItemsOf(stored.history) \cup ItemsOf(stored.deferred) \cup ToSet(stored.queued)) \ {NoItem}
<1> DEFINE r == RecoveredInput(stored)
           w == h \o r
           K == KeptPrompts
<1>1. /\ stored \in Snapshots /\ OnlyAnswers(stored.deferred) /\ stored.deferred \in Seq(LogMessages)
      /\ stored.queued \in Seq(Prompts) /\ K \subseteq Prompts /\ NoItem \notin Prompts \cup Questions
      /\ Prompts \cap Questions = {}
  BY SessionAssumption DEF LogTypes, DeferredInv, Snapshots, KeptPrompts
<1>2. ItemsOf(stored.deferred) \subseteq Questions /\ ToSet(stored.queued) \subseteq Prompts
  BY <1>1, ItemTypes DEF ToSet
<1>3. /\ r \in Seq(LogMessages)
      /\ ItemsOf(r) \ {NoItem} = (ItemsOf(stored.deferred) \cup ToSet(stored.queued)) \ {NoItem}
  BY <1>1, RecoveredInputFacts
<1>4. OneItem(r)
  BY <1>1, RecoveredOnce DEF OnceInv
<1>5. InOrder(accepted, r, K) /\ InOrder(accepted, h, K)
  <2>1. InOrder(accepted, stored.deferred, K)
    BY <1>1, <1>2, FewInOrder
  <2> QED BY <1>1, <2>1, RecoveredOrder DEF OrderInv
<1>6. InOrder(accepted, r, Questions)
  <2>1. SameOrder(accepted, stored.queued, Questions)
    BY <1>1, <1>2 DEF SameOrder, ToSet
  <2> QED BY <1>1, <2>1, RecoveredOrder DEF OrderInv
<1>7. NoneEarlier(accepted, K \cap ItemsOf(r), K \cap ItemsOf(h))
  <2>1. K \cap ItemsOf(r) \subseteq K \cap ToSet(stored.queued) /\ K \cap ItemsOf(h) = K \cap ItemsOf(stored.history)
    BY <1>1, <1>2, <1>3
  <2> QED BY <2>1 DEF OrderInv, NoneEarlier
<1>8. NoneEarlier(accepted, Questions \cap ItemsOf(r), Questions \cap ItemsOf(h))
  <2>1. /\ Questions \cap ItemsOf(r) \subseteq ItemsOf(stored.deferred)
        /\ Questions \cap ItemsOf(h) = Questions \cap ItemsOf(stored.history)
    BY <1>1, <1>2, <1>3
  <2> QED BY <2>1 DEF OrderInv, NoneEarlier
<1>9. ItemsOf(h) \cap ItemsOf(r) \subseteq {NoItem}
  BY <1>3 DEF OnceInv
<1> HIDE DEF r, K
<1>10. w \in Seq(LogMessages) /\ ItemsOf(w) = ItemsOf(h) \cup ItemsOf(r)
  BY <1>3, Joins, JoinedSets
<1>11. OneItem(w)
  BY <1>3, <1>4, <1>9, JoinedOneItem
<1>12. InOrder(accepted, w, K)
  BY <1>3, <1>5, <1>7, JoinedOrder
<1>13. InOrder(accepted, w, Questions)
  BY <1>3, <1>6, <1>8, JoinedOrder
<1> QED BY <1>3, <1>10, <1>11, <1>12, <1>13 DEF r, K

\* So it is in the history that a recovery leaves.
LEMMA ResumedInputs ==
  ASSUME LogTypes, DeferredInv, OnceInv, OrderInv, Resume
  PROVE  /\ OneItem(stored'.history)
         /\ InOrder(accepted, stored'.history, KeptPrompts) /\ InOrder(accepted, stored'.history, Questions)
         /\ ItemsOf(stored'.history) \ {NoItem} =
              (ItemsOf(stored.history) \cup ItemsOf(stored.deferred) \cup ToSet(stored.queued)) \ {NoItem}
         /\ stored'.queued = <<>> /\ stored'.deferred = <<>>
<1> DEFINE a == stored.history
           e == Evidence(stored)
           h == a \o e
           K == KeptPrompts
<1>1. stored \in Snapshots /\ a \in Seq(LogMessages) /\ NoItem \notin K /\ NoItem \notin Questions
  BY SessionAssumption DEF LogTypes, Snapshots, KeptPrompts
<1>2. stored' = Recovered(stored)
  BY DEF Resume
<1>3. stored'.history = h \o RecoveredInput(stored) /\ stored'.queued = <<>> /\ stored'.deferred = <<>>
  BY <1>1, <1>2, RecoveredFields
<1>4. /\ e \in Seq(LogMessages) /\ ItemsOf(e) \subseteq {NoItem} /\ OneItem(e)
      /\ InOrder(accepted, e, K) /\ InOrder(accepted, e, Questions)
  BY <1>1, EvidenceMessages, NoItems
<1>5. OneItem(a) /\ InOrder(accepted, a, K) /\ InOrder(accepted, a, Questions)
  BY DEF OnceInv, OrderInv
<1> HIDE DEF e, K, a
<1>6. /\ NoneEarlier(accepted, K \cap ItemsOf(e), K \cap ItemsOf(a))
      /\ NoneEarlier(accepted, Questions \cap ItemsOf(e), Questions \cap ItemsOf(a))
  BY <1>1, <1>4 DEF NoneEarlier
<1>7. h \in Seq(LogMessages) /\ ItemsOf(h) = ItemsOf(a) \cup ItemsOf(e)
  BY <1>1, <1>4, Joins, JoinedSets
<1>8. OneItem(h)
  BY <1>1, <1>4, <1>5, JoinedOneItem
<1>9. InOrder(accepted, h, K)
  BY <1>1, <1>4, <1>5, <1>6, JoinedOrder
<1>10. InOrder(accepted, h, Questions)
  BY <1>1, <1>4, <1>5, <1>6, JoinedOrder
<1> HIDE DEF h
<1>11. ItemsOf(h) \ {NoItem} = ItemsOf(stored.history) \ {NoItem}
  BY <1>4, <1>7 DEF a
<1> QED BY <1>3, <1>7, <1>8, <1>9, <1>10, <1>11, RecoveredInputs DEF K

\* What is on disk after each of these.
LEMMA InputFacts ==
  ASSUME LogTypes, DeferredInv
  PROVE  /\ stored \in Snapshots /\ stored.history \in Seq(LogMessages) /\ stored.deferred \in Seq(LogMessages)
         /\ stored.queued \in Seq(Prompts) /\ queue \in Seq(Prompts) /\ accepted \in Seq(Prompts \cup Questions)
         /\ ToSet(stored.queued) \subseteq Prompts /\ ToSet(queue) \subseteq Prompts
         /\ OnlyAnswers(stored.deferred) /\ ItemsOf(stored.deferred) \subseteq Questions
         /\ KeptPrompts \subseteq Prompts /\ NoItem \notin Prompts \cup Questions /\ Prompts \cap Questions = {}
         /\ ToSet(<<>>) = {} /\ ItemsOf(<<>>) = {}
<1>1. /\ stored \in Snapshots /\ stored.history \in Seq(LogMessages) /\ stored.deferred \in Seq(LogMessages)
      /\ stored.queued \in Seq(Prompts) /\ queue \in Seq(Prompts) /\ accepted \in Seq(Prompts \cup Questions)
      /\ OnlyAnswers(stored.deferred)
  BY DEF LogTypes, Snapshots, DeferredInv
<1>2. ItemsOf(stored.deferred) \subseteq Questions
  BY <1>1, ItemTypes
<1>3. ToSet(stored.queued) \subseteq Prompts /\ ToSet(queue) \subseteq Prompts
  BY <1>1 DEF ToSet
<1> QED BY <1>1, <1>2, <1>3, NothingSaid, SessionAssumption DEF KeptPrompts

\* A turn begins.
LEMMA BegunFacts ==
  ASSUME LogTypes, DeferredInv, NEW p \in Prompts
  PROVE  LET n == Began(stored, p)
             m == Input("prompt", p)
         IN /\ n.history = stored.history \o <<m>> /\ ItemsOf(n.history) = ItemsOf(stored.history) \cup {p}
            /\ <<m>> \in Seq(LogMessages) /\ ItemsOf(<<m>>) = {p} /\ OneItem(<<m>>)
            /\ n.deferred = stored.deferred /\ n.pending = stored.pending
            /\ n.queued = Without(stored.queued, {p})
            /\ ToSet(n.queued) = ToSet(stored.queued) \ {p}
            /\ Distinctly(stored.queued) => Distinctly(n.queued)
            /\ \A acc, S : SameOrder(acc, stored.queued, S) => SameOrder(acc, n.queued, S)
<1> DEFINE n == Began(stored, p)
           m == Input("prompt", p)
<1>1. stored \in Snapshots /\ stored.history \in Seq(LogMessages) /\ stored.queued \in Seq(Prompts)
  BY InputFacts
<1>2. m \in LogMessages /\ m.kind = "prompt" /\ m.item = p
  BY InputTypes, InputFields
<1>3. /\ n.history = stored.history \o <<m>> /\ n.deferred = stored.deferred /\ n.pending = stored.pending
      /\ n.queued = Without(stored.queued, {p})
  BY <1>1, BeganFields
<1> HIDE DEF n, m
<1>4. /\ ItemsOf(stored.history \o <<m>>) = ItemsOf(stored.history) \cup {p}
      /\ <<m>> \in Seq(LogMessages) /\ ItemsOf(<<m>>) = {p}
  BY <1>1, <1>2, Joined, InputAlone
<1>5. OneItem(<<m>>)
  BY DEF OneItem
<1>6. /\ ToSet(n.queued) = ToSet(stored.queued) \ {p}
      /\ Distinctly(stored.queued) => Distinctly(n.queued)
      /\ \A acc, S : SameOrder(acc, stored.queued, S) => SameOrder(acc, n.queued, S)
  BY <1>1, <1>3, WithoutElements, WithoutOrder
<1> QED BY <1>3, <1>4, <1>5, <1>6 DEF n, m

\* A question is answered.
LEMMA AnsweredFacts ==
  ASSUME LogTypes, DeferredInv, NEW q \in Questions, stored' = Answered(stored, q)
  PROVE  LET m == Input("answer", q)
         IN /\ <<m>> \in Seq(LogMessages) /\ ItemsOf(<<m>>) = {q} /\ OneItem(<<m>>)
            /\ stored'.queued = stored.queued /\ stored'.pending = stored.pending
            /\ \/ /\ stored.pending = NoCalls /\ stored'.deferred = stored.deferred
                  /\ stored'.history = stored.history \o <<m>>
                  /\ ItemsOf(stored'.history) = ItemsOf(stored.history) \cup {q}
               \/ /\ stored.pending # NoCalls /\ stored'.history = stored.history
                  /\ stored'.deferred = stored.deferred \o <<m>>
                  /\ ItemsOf(stored'.deferred) = ItemsOf(stored.deferred) \cup {q}
<1> DEFINE m == Input("answer", q)
<1>1. stored \in Snapshots /\ stored.history \in Seq(LogMessages) /\ stored.deferred \in Seq(LogMessages)
  BY InputFacts
<1>2. m \in LogMessages /\ m.kind = "answer" /\ m.item = q
  BY InputTypes, InputFields
<1>3. /\ stored'.queued = stored.queued /\ stored'.pending = stored.pending
      /\ stored.pending = NoCalls => stored'.deferred = stored.deferred /\ stored'.history = stored.history \o <<m>>
      /\ stored.pending # NoCalls => stored'.history = stored.history /\ stored'.deferred = stored.deferred \o <<m>>
  BY <1>1, AnsweredFields
<1> HIDE DEF m
<1>4. /\ ItemsOf(stored.history \o <<m>>) = ItemsOf(stored.history) \cup {q}
      /\ ItemsOf(stored.deferred \o <<m>>) = ItemsOf(stored.deferred) \cup {q}
      /\ <<m>> \in Seq(LogMessages) /\ ItemsOf(<<m>>) = {q}
  BY <1>1, <1>2, Joined, InputAlone
<1>5. OneItem(<<m>>)
  BY DEF OneItem
<1> QED BY <1>3, <1>4, <1>5 DEF m

\* Messages are said.
LEMMA SaidFacts ==
  ASSUME LogTypes, DeferredInv, NEW m, Says(m)
  PROVE  /\ m \in Seq(LogMessages) /\ OneItem(m) /\ stored.history \o m \in Seq(LogMessages)
         /\ \A acc : InOrder(acc, m, KeptPrompts) /\ InOrder(acc, m, Questions)
         /\ ItemsOf(m) = {NoItem} /\ ItemsOf(stored.history \o m) = ItemsOf(stored.history) \cup {NoItem}
         /\ stored'.history = (stored.history \o m) \o stored.deferred
         /\ ItemsOf(stored'.history) = (ItemsOf(stored.history) \cup {NoItem}) \cup ItemsOf(stored.deferred)
         /\ stored'.deferred = <<>> /\ stored'.pending = NoCalls /\ stored'.queued = stored.queued
<1>1. /\ stored.history \in Seq(LogMessages) /\ stored.deferred \in Seq(LogMessages)
      /\ m \in Seq(LogMessages) /\ ItemsOf(m) = {NoItem} /\ NoItem \notin KeptPrompts /\ NoItem \notin Questions
  BY InputFacts DEF Says
<1>2. OneItem(m) /\ \A acc : InOrder(acc, m, KeptPrompts) /\ InOrder(acc, m, Questions)
  BY <1>1, NoItems
<1>3. /\ stored.history \o m \in Seq(LogMessages)
      /\ ItemsOf(stored.history \o m) = ItemsOf(stored.history) \cup {NoItem}
  BY <1>1, Joins, JoinedSets
<1>4. ItemsOf((stored.history \o m) \o stored.deferred)
        = (ItemsOf(stored.history) \cup {NoItem}) \cup ItemsOf(stored.deferred)
  BY <1>1, JoinedSetsOfThree
<1> QED BY <1>1, <1>2, <1>3, <1>4 DEF Says, SaidInStored

\* A prompt waits.
LEMMA QueuesFacts ==
  ASSUME LogTypes, DeferredInv, NEW p \in Prompts
  PROVE  LET n == Queued(stored, p)
         IN /\ n.history = stored.history /\ n.deferred = stored.deferred /\ n.pending = stored.pending
            /\ n.queued = Append(stored.queued, p) /\ ToSet(n.queued) = ToSet(stored.queued) \cup {p}
<1>1. stored \in Snapshots /\ stored.queued \in Seq(Prompts)
  BY InputFacts
<1>2. Append(stored.queued, p) = stored.queued \o <<p>>
  BY <1>1, AppendIsConcat
<1> DEFINE n == Queued(stored, p)
<1>3. /\ n.history = stored.history /\ n.deferred = stored.deferred /\ n.pending = stored.pending
      /\ n.queued = Append(stored.queued, p)
  BY <1>1, <1>2, QueuedFields
<1>4. ToSet(Append(stored.queued, p)) = ToSet(stored.queued) \cup {p}
  BY <1>1, QueueAppend
<1> HIDE DEF n
<1> QED BY <1>3, <1>4 DEF n

\* Prompts leave the queue.
LEMMA LeavesFacts ==
  ASSUME LogTypes, DeferredInv, NEW gone, Leaves(gone)
  PROVE  /\ stored'.history = stored.history /\ stored'.deferred = stored.deferred
         /\ stored'.pending = stored.pending /\ UNCHANGED <<accepted, life, used>>
         /\ ToSet(stored'.queued) \subseteq ToSet(stored.queued)
         /\ ToSet(stored.queued) \subseteq ToSet(stored'.queued) \cup gone
         /\ Distinctly(stored.queued) => Distinctly(stored'.queued)
         /\ \A acc, S : SameOrder(acc, stored.queued, S) => SameOrder(acc, stored'.queued, S)
         /\ KeptPrompts' \subseteq KeptPrompts /\ queue' \in {queue, <<>>}
<1>1. stored \in Snapshots /\ stored.queued \in Seq(Prompts)
  BY InputFacts
<1>2. /\ stored' \in {stored, Unqueued(stored, gone)} /\ UNCHANGED <<accepted, life, used>>
      /\ queue' \in {queue, <<>>} /\ excused \subseteq excused'
  BY DEF Leaves
<1>3. KeptPrompts' \subseteq KeptPrompts
  BY <1>2 DEF KeptPrompts
<1> DEFINE n == Unqueued(stored, gone)
<1>4. /\ n.history = stored.history /\ n.deferred = stored.deferred /\ n.pending = stored.pending
      /\ n.queued = Without(stored.queued, gone)
  BY <1>1, UnqueuedFields
<1>5. /\ ToSet(n.queued) = ToSet(stored.queued) \ gone
      /\ Distinctly(stored.queued) => Distinctly(n.queued)
      /\ \A acc, S : SameOrder(acc, stored.queued, S) => SameOrder(acc, n.queued, S)
  BY <1>1, <1>4, WithoutElements, WithoutOrder
<1> HIDE DEF n
<1>6. CASE stored' = stored
  BY <1>2, <1>3, <1>6
<1>7. CASE stored' = n
  BY <1>2, <1>3, <1>4, <1>5, <1>7
<1> QED BY <1>2, <1>6, <1>7 DEF n

\* Each input stays in one place, once.
LEMMA OnceStep ==
  ASSUME SafeInv, StoredInv, OnceInv, HeldInv, OrderInv, [LogNext]_logVars
  PROVE  OnceInv'
<1>1. LogTypes /\ DeferredInv /\ BatchInv /\ QueueInv
  BY DEF SafeInv, StoredInv
<1>2. /\ stored \in Snapshots /\ stored.history \in Seq(LogMessages) /\ stored.deferred \in Seq(LogMessages)
      /\ stored.queued \in Seq(Prompts) /\ queue \in Seq(Prompts) /\ accepted \in Seq(Prompts \cup Questions)
      /\ ToSet(stored.queued) \subseteq Prompts /\ ToSet(queue) \subseteq Prompts
      /\ ItemsOf(stored.deferred) \subseteq Questions
      /\ NoItem \notin Prompts \cup Questions /\ Prompts \cap Questions = {}
      /\ ToSet(<<>>) = {} /\ ItemsOf(<<>>) = {}
  BY <1>1, InputFacts
<1>3. Distinctly(<<>>) /\ OneItem(<<>>)
  BY DEF Distinctly, OneItem
<1>4. CASE Holds
  BY <1>4 DEF Holds, OnceInv
<1>5. CASE Exit
  <2>1. queue' = <<>> /\ UNCHANGED <<stored, accepted, used>>
    BY <1>5 DEF Exit, seen
  <2> QED BY <1>2, <2>1 DEF OnceInv
<1>6. CASE Resume
  <2>1. UNCHANGED <<queue, accepted, used>> /\ queue = <<>>
    BY <1>1, <1>6 DEF Resume, QueueInv, control, seen
  <2>2. /\ OneItem(stored'.history) /\ stored'.queued = <<>> /\ stored'.deferred = <<>>
        /\ ItemsOf(stored'.history) \ {NoItem} =
             (ItemsOf(stored.history) \cup ItemsOf(stored.deferred) \cup ToSet(stored.queued)) \ {NoItem}
    BY <1>1, <1>6, ResumedInputs
  <2> QED BY <1>2, <1>3, <2>1, <2>2 DEF OnceInv
<1>7. ASSUME NEW m, Says(m) PROVE OnceInv'
  <2>1. UNCHANGED <<queue, accepted, used>>
    BY <1>7 DEF Says
  <2>2. /\ m \in Seq(LogMessages) /\ OneItem(m) /\ stored.history \o m \in Seq(LogMessages)
        /\ ItemsOf(m) = {NoItem} /\ ItemsOf(stored.history \o m) = ItemsOf(stored.history) \cup {NoItem}
        /\ stored'.history = (stored.history \o m) \o stored.deferred
        /\ ItemsOf(stored'.history) = (ItemsOf(stored.history) \cup {NoItem}) \cup ItemsOf(stored.deferred)
        /\ stored'.deferred = <<>> /\ stored'.queued = stored.queued
    BY <1>1, <1>7, SaidFacts
  <2>3. OneItem(stored.history \o m)
    BY <1>2, <2>2, JoinedOneItem DEF OnceInv
  <2>4. ItemsOf(stored.history \o m) \cap ItemsOf(stored.deferred) \subseteq {NoItem}
    BY <2>2 DEF OnceInv
  <2> DEFINE e == stored.history \o m
  <2>5. OneItem(stored'.history)
    <3>1. stored.deferred \in Seq(LogMessages) /\ OneItem(stored.deferred)
      BY <1>2 DEF OnceInv
    <3>2. e \in Seq(LogMessages) /\ OneItem(e) /\ ItemsOf(e) \cap ItemsOf(stored.deferred) \subseteq {NoItem}
      BY <2>2, <2>3, <2>4
    <3>3. stored'.history = e \o stored.deferred
      BY <2>2
    <3> HIDE DEF e
    <3>4. OneItem(e \o stored.deferred)
      BY <3>1, <3>2, JoinedOneItem
    <3> QED BY <3>3, <3>4
  <2> QED BY <1>2, <1>3, <2>1, <2>2, <2>5 DEF OnceInv
<1>8. ASSUME NEW gone, Leaves(gone) PROVE OnceInv'
  <2>1. /\ stored'.history = stored.history /\ stored'.deferred = stored.deferred /\ UNCHANGED <<accepted, used>>
        /\ ToSet(stored'.queued) \subseteq ToSet(stored.queued) /\ queue' \in {queue, <<>>}
        /\ Distinctly(stored.queued) => Distinctly(stored'.queued)
    BY <1>1, <1>8, LeavesFacts
  <2> QED BY <1>2, <2>1 DEF OnceInv
\* A prompt joins the history.
<1>9. ASSUME NEW p \in Prompts, stored' = Began(stored, p), p \notin ItemsOf(stored.history), p \in used',
             used \subseteq used', ToSet(queue') \subseteq ToSet(queue) \ {p},
             ToSet(accepted') \subseteq ToSet(accepted) \cup {p}, Distinctly(accepted')
      PROVE  OnceInv'
  <2> DEFINE m == Input("prompt", p)
  <2>1. /\ stored'.history = stored.history \o <<m>> /\ ItemsOf(stored'.history) = ItemsOf(stored.history) \cup {p}
        /\ <<m>> \in Seq(LogMessages) /\ ItemsOf(<<m>>) = {p} /\ OneItem(<<m>>)
        /\ stored'.deferred = stored.deferred
        /\ ToSet(stored'.queued) = ToSet(stored.queued) \ {p}
        /\ Distinctly(stored.queued) => Distinctly(stored'.queued)
    BY <1>1, <1>9, BegunFacts
  <2> HIDE DEF m
  <2>2. OneItem(stored'.history)
    <3>1. stored.history \in Seq(LogMessages) /\ OneItem(stored.history)
      BY <1>2 DEF OnceInv
    <3> DEFINE n == <<m>>
    <3>2. /\ n \in Seq(LogMessages) /\ OneItem(n) /\ ItemsOf(stored.history) \cap ItemsOf(n) \subseteq {NoItem}
          /\ stored'.history = stored.history \o n
      BY <1>9, <2>1
    <3> HIDE DEF n
    <3>3. OneItem(stored.history \o n)
      BY <3>1, <3>2, JoinedOneItem
    <3> QED BY <3>2, <3>3
  <2> QED BY <1>2, <1>9, <2>1, <2>2 DEF OnceInv
\* A new input may be accepted.
<1>10. ASSUME NEW x \in Prompts \cup Questions, x \notin ToSet(accepted), accepted' \in {accepted, Append(accepted, x)}
       PROVE  Distinctly(accepted') /\ ToSet(accepted') \subseteq ToSet(accepted) \cup {x}
  <2>1. Distinctly(Append(accepted, x)) /\ ToSet(Append(accepted, x)) = ToSet(accepted) \cup {x}
    BY <1>2, <1>10, QueueAppend DEF OnceInv
  <2> QED BY <1>10, <2>1 DEF OnceInv
\* Nothing but the queues changes.
<1>11. ASSUME stored'.history = stored.history, stored'.deferred = stored.deferred, used \subseteq used',
              Distinctly(accepted'), Distinctly(stored'.queued),
              Prompts \cap (ToSet(accepted') \cup ToSet(stored'.queued)) \subseteq used',
              (ToSet(stored'.queued) \cup ToSet(queue')) \cap ItemsOf(stored.history) = {}
       PROVE  OnceInv'
  BY <1>11 DEF OnceInv
<1>12. ASSUME NEW p \in Prompts, BeginsNew(p) PROVE OnceInv'
  <2>1. /\ p \notin used /\ used' = used \cup {p} /\ queue' = <<>> /\ queue = <<>> /\ Accepts(p, Began(stored, p))
    BY <1>12 DEF BeginsNew
  <2>2. p \notin ToSet(accepted) /\ p \notin ItemsOf(stored.history)
    BY <2>1 DEF OnceInv
  <2>3. Distinctly(accepted') /\ ToSet(accepted') \subseteq ToSet(accepted) \cup {p}
    BY <1>10, <2>1, <2>2 DEF Accepts
  <2>4. CASE stored' = Began(stored, p)
    BY <1>2, <1>9, <2>1, <2>2, <2>3, <2>4
  <2>5. CASE stored' = stored
    BY <1>2, <1>11, <2>1, <2>3, <2>5 DEF OnceInv
  <2> QED BY <2>1, <2>4, <2>5 DEF Accepts
<1>13. CASE BeginsHead
  <2> DEFINE p == Head(queue)
  <2>1. /\ queue # <<>> /\ queue' = Tail(queue) /\ UNCHANGED <<used, accepted>>
        /\ stored' \in {stored, Began(stored, p)}
    BY <1>13 DEF BeginsHead
  <2>2. /\ p \in Prompts /\ p \in ToSet(queue) /\ ToSet(queue') \subseteq ToSet(queue) \ {p}
    BY <1>1, <1>2, <2>1, QueueTail DEF QueueInv
  <2>3. p \in used /\ p \notin ItemsOf(stored.history)
    BY <1>1, <2>2 DEF QueueInv, OnceInv
  <2> HIDE DEF p
  <2>4. CASE stored' = Began(stored, p)
    BY <1>9, <2>1, <2>2, <2>3, <2>4 DEF OnceInv
  <2>5. CASE stored' = stored
    BY <1>11, <2>1, <2>2, <2>5 DEF OnceInv
  <2> QED BY <2>1, <2>4, <2>5
<1>14. ASSUME NEW p \in Prompts, Queues(p) PROVE OnceInv'
  <2>1. /\ p \notin used /\ used' = used \cup {p} /\ queue' = Append(queue, p) /\ Accepts(p, Queued(stored, p))
    BY <1>14 DEF Queues
  <2>2. p \notin ToSet(accepted) /\ p \notin ItemsOf(stored.history) /\ p \notin ToSet(stored.queued)
    BY <2>1 DEF OnceInv
  <2>3. Distinctly(accepted') /\ ToSet(accepted') \subseteq ToSet(accepted) \cup {p}
    BY <1>10, <2>1, <2>2 DEF Accepts
  <2>4. ToSet(queue') = ToSet(queue) \cup {p}
    BY <1>2, <2>1, QueueAppend
  <2>5. CASE stored' = Queued(stored, p)
    <3>1. /\ stored'.history = stored.history /\ stored'.deferred = stored.deferred
          /\ stored'.queued = Append(stored.queued, p) /\ ToSet(stored'.queued) = ToSet(stored.queued) \cup {p}
      BY <1>1, <2>5, QueuesFacts
    <3>2. Distinctly(stored'.queued)
      BY <1>2, <2>2, <3>1, QueueAppend DEF OnceInv
    <3> QED BY <1>11, <2>1, <2>2, <2>3, <2>4, <3>1, <3>2 DEF OnceInv
  <2>6. CASE stored' = stored
    BY <1>11, <2>1, <2>2, <2>3, <2>4, <2>6 DEF OnceInv
  <2> QED BY <2>1, <2>5, <2>6 DEF Accepts
<1>15. ASSUME NEW q \in Questions, Answers(q) PROVE OnceInv'
  <2> DEFINE m == Input("answer", q)
  <2>1. /\ q \notin ItemsOf(stored.history) \cup ItemsOf(stored.deferred) /\ UNCHANGED <<queue, used>>
        /\ stored' = Answered(stored, q) /\ accepted' = Append(accepted, q)
    BY <1>15 DEF Answers
  <2>2. q \notin ToSet(accepted) /\ q \notin Prompts
    BY <1>2, <2>1 DEF HeldInv
  <2>3. Distinctly(accepted') /\ ToSet(accepted') \subseteq ToSet(accepted) \cup {q}
    BY <1>10, <2>1, <2>2
  <2>4. /\ <<m>> \in Seq(LogMessages) /\ ItemsOf(<<m>>) = {q} /\ OneItem(<<m>>)
        /\ stored'.queued = stored.queued
        /\ \/ /\ stored.pending = NoCalls /\ stored'.deferred = stored.deferred
              /\ stored'.history = stored.history \o <<m>>
              /\ ItemsOf(stored'.history) = ItemsOf(stored.history) \cup {q}
           \/ /\ stored'.history = stored.history
              /\ stored'.deferred = stored.deferred \o <<m>>
              /\ ItemsOf(stored'.deferred) = ItemsOf(stored.deferred) \cup {q}
    BY <1>1, <2>1, AnsweredFacts
  <2> HIDE DEF m
  <2>5. CASE /\ stored'.deferred = stored.deferred /\ stored'.history = stored.history \o <<m>>
             /\ ItemsOf(stored'.history) = ItemsOf(stored.history) \cup {q}
    <3>1. OneItem(stored'.history)
      <4>1. stored.history \in Seq(LogMessages) /\ OneItem(stored.history)
        BY <1>2 DEF OnceInv
      <4> DEFINE n == <<m>>
      <4>2. /\ n \in Seq(LogMessages) /\ OneItem(n) /\ ItemsOf(stored.history) \cap ItemsOf(n) \subseteq {NoItem}
            /\ stored'.history = stored.history \o n
        BY <2>1, <2>4, <2>5
      <4> HIDE DEF n
      <4>3. OneItem(stored.history \o n)
        BY <4>1, <4>2, JoinedOneItem
      <4> QED BY <4>2, <4>3
    <3> QED BY <1>2, <2>1, <2>2, <2>3, <2>4, <2>5, <3>1 DEF OnceInv
  <2>6. CASE /\ stored'.history = stored.history /\ stored'.deferred = stored.deferred \o <<m>>
             /\ ItemsOf(stored'.deferred) = ItemsOf(stored.deferred) \cup {q}
    <3>1. OneItem(stored'.deferred)
      <4>1. stored.deferred \in Seq(LogMessages) /\ OneItem(stored.deferred)
        BY <1>2 DEF OnceInv
      <4> DEFINE n == <<m>>
      <4>2. /\ n \in Seq(LogMessages) /\ OneItem(n) /\ ItemsOf(stored.deferred) \cap ItemsOf(n) \subseteq {NoItem}
            /\ stored'.deferred = stored.deferred \o n
        BY <2>1, <2>4, <2>6
      <4> HIDE DEF n
      <4>3. OneItem(stored.deferred \o n)
        BY <4>1, <4>2, JoinedOneItem
      <4> QED BY <4>2, <4>3
    <3> QED BY <1>2, <2>1, <2>2, <2>3, <2>4, <2>6, <3>1 DEF OnceInv
  <2> QED BY <2>4, <2>5, <2>6
<1> QED BY <1>4, <1>5, <1>6, <1>7, <1>8, <1>12, <1>13, <1>14, <1>15, InputCases

\* The inputs that are accepted stay.
LEMMA HeldStep ==
  ASSUME SafeInv, StoredInv, OnceInv, HeldInv, OrderInv, [LogNext]_logVars
  PROVE  HeldInv'
<1> DEFINE K == KeptPrompts
           R == Questions \cap ToSet(accepted)
<1>1. LogTypes /\ DeferredInv /\ QueueInv
  BY DEF SafeInv, StoredInv
<1>2. /\ ToSet(stored.queued) \subseteq Prompts /\ ItemsOf(stored.deferred) \subseteq Questions
      /\ K \subseteq Prompts /\ NoItem \notin Prompts \cup Questions /\ Prompts \cap Questions = {}
      /\ ToSet(<<>>) = {} /\ ItemsOf(<<>>) = {} /\ accepted \in Seq(Prompts \cup Questions)
  BY <1>1, InputFacts
<1>3. /\ stored.pending = NoCalls => stored.deferred = <<>>
      /\ K \subseteq ItemsOf(stored.history) \cup ToSet(stored.queued)
      /\ life = "up" => K \cap ToSet(stored.queued) \subseteq ToSet(queue) \cup {turn}
      /\ R \subseteq ItemsOf(stored.history) \cup ItemsOf(stored.deferred)
  BY DEF HeldInv
\* What is kept, when the accepted inputs are as before, or one more.
<1>4. ASSUME accepted' = accepted, excused \subseteq excused' PROVE K' \subseteq K /\ R' = R
  BY <1>4 DEF KeptPrompts
<1>5. ASSUME NEW x \in Prompts \cup Questions, accepted' \in {accepted, Append(accepted, x)}, excused' = excused
      PROVE  /\ K' \subseteq K \cup {x} /\ R' \subseteq R \cup {x}
             /\ accepted' = accepted => K' = K /\ R' = R
  <2>1. ToSet(Append(accepted, x)) = ToSet(accepted) \cup {x}
    BY <1>2, <1>5, QueueAppend
  <2> QED BY <1>5, <2>1 DEF KeptPrompts
<1>6. CASE Holds
  <2>1. /\ stored'.history = stored.history /\ stored'.deferred = stored.deferred /\ stored'.queued = stored.queued
        /\ stored'.pending = NoCalls => stored.pending = NoCalls
        /\ UNCHANGED <<turn, queue, accepted, excused, life>>
    BY <1>6 DEF Holds
  <2> QED BY <1>3, <2>1 DEF HeldInv, KeptPrompts
<1>7. CASE Exit
  <2>1. life' = "down" /\ UNCHANGED <<stored, accepted, excused>>
    BY <1>7 DEF Exit, seen
  <2> QED BY <1>3, <2>1 DEF HeldInv, KeptPrompts
<1>8. CASE Resume
  <2>1. UNCHANGED <<accepted, excused>>
    BY <1>8 DEF Resume, seen
  <2>2. /\ stored'.queued = <<>> /\ stored'.deferred = <<>>
        /\ ItemsOf(stored'.history) \ {NoItem} =
             (ItemsOf(stored.history) \cup ItemsOf(stored.deferred) \cup ToSet(stored.queued)) \ {NoItem}
    BY <1>1, <1>8, ResumedInputs
  <2>3. K' = K /\ R' = R
    BY <2>1 DEF KeptPrompts
  <2> HIDE DEF K, R
  <2>4. K' \subseteq ItemsOf(stored'.history) /\ R' \subseteq ItemsOf(stored'.history)
    <3>1. NoItem \notin K /\ NoItem \notin R
      BY <1>2 DEF R
    <3> QED BY <1>3, <2>2, <2>3, <3>1
  <2> QED BY <1>2, <2>2, <2>4 DEF HeldInv, K, R
<1>9. ASSUME NEW m, Says(m) PROVE HeldInv'
  <2>1. UNCHANGED <<turn, queue, accepted, excused, life>>
    BY <1>9 DEF Says
  <2>2. /\ ItemsOf(stored'.history) = (ItemsOf(stored.history) \cup {NoItem}) \cup ItemsOf(stored.deferred)
        /\ stored'.deferred = <<>> /\ stored'.queued = stored.queued
    BY <1>1, <1>9, SaidFacts
  <2> QED BY <1>2, <1>3, <2>1, <2>2 DEF HeldInv, KeptPrompts
<1>10. ASSUME NEW gone, Leaves(gone) PROVE HeldInv'
  <2>1. /\ stored'.history = stored.history /\ stored'.deferred = stored.deferred
        /\ stored'.pending = stored.pending /\ UNCHANGED <<accepted, life>>
        /\ ToSet(stored'.queued) \subseteq ToSet(stored.queued)
        /\ ToSet(stored.queued) \subseteq ToSet(stored'.queued) \cup gone
        /\ K' \subseteq K
    BY <1>1, <1>10, LeavesFacts
  <2>2. /\ K' \cap gone \cap ToSet(stored.queued) = {}
        /\ \A p \in K' \cap (ToSet(queue) \cup {turn}) :
             p \in ToSet(queue') \cup {turn'} \/ p \notin ToSet(stored'.queued)
    BY <1>10 DEF Leaves
  <2>3. R' = R
    BY <2>1
  <2> HIDE DEF K, R
  <2>4. K' \subseteq ItemsOf(stored'.history) \cup ToSet(stored'.queued)
    BY <1>3, <2>1, <2>2
  <2>5. life' = "up" => K' \cap ToSet(stored'.queued) \subseteq ToSet(queue') \cup {turn'}
    BY <1>3, <2>1, <2>2
  <2> QED BY <1>3, <2>1, <2>3, <2>4, <2>5 DEF HeldInv, K, R
\* A prompt joins the history, and the process takes it up.
<1>11. ASSUME NEW p \in Prompts, stored' = Began(stored, p), K' \subseteq K \cup {p}, R' \subseteq R,
              turn' = p, turn = NoItem, ToSet(queue) \subseteq ToSet(queue') \cup {p}, life' = life
       PROVE  HeldInv'
  <2>1. /\ ItemsOf(stored'.history) = ItemsOf(stored.history) \cup {p}
        /\ stored'.deferred = stored.deferred /\ stored'.pending = stored.pending
        /\ ToSet(stored'.queued) = ToSet(stored.queued) \ {p}
    BY <1>1, <1>11, BegunFacts
  <2>2. NoItem \notin K
    BY <1>2
  <2> HIDE DEF K, R
  <2>3. /\ K' \subseteq ItemsOf(stored'.history) \cup ToSet(stored'.queued)
        /\ R' \subseteq ItemsOf(stored'.history) \cup ItemsOf(stored'.deferred)
    BY <1>3, <1>11, <2>1
  <2>4. life' = "up" => K' \cap ToSet(stored'.queued) \subseteq ToSet(queue') \cup {turn'}
    BY <1>3, <1>11, <2>1, <2>2
  <2> QED BY <1>3, <2>1, <2>3, <2>4 DEF HeldInv, K, R
\* Nothing is recorded, and the process takes the prompt up.
<1>12. ASSUME stored' = stored, K' = K, R' = R, life' = life,
              ToSet(queue) \cup ({turn} \ {NoItem}) \subseteq ToSet(queue') \cup {turn'}
       PROVE  HeldInv'
  <2>1. NoItem \notin K
    BY <1>2
  <2> HIDE DEF K, R
  <2>2. life' = "up" => K' \cap ToSet(stored'.queued) \subseteq ToSet(queue') \cup {turn'}
    BY <1>3, <1>12, <2>1
  <2> QED BY <1>3, <1>12, <2>2 DEF HeldInv, K, R
<1>13. ASSUME NEW p \in Prompts, BeginsNew(p) PROVE HeldInv'
  <2>1. /\ turn = NoItem /\ turn' = p /\ UNCHANGED <<life, excused>> /\ queue' = <<>> /\ queue = <<>>
        /\ Accepts(p, Began(stored, p))
    BY <1>13 DEF BeginsNew
  <2>2. K' \subseteq K \cup {p} /\ R' \subseteq R \cup {p} /\ (accepted' = accepted => K' = K /\ R' = R)
    BY <1>5, <2>1 DEF Accepts
  <2>3. R' \subseteq R
    BY <1>2, <1>13, <2>2
  <2> HIDE DEF K, R
  <2>4. CASE stored' = Began(stored, p)
    BY <1>11, <2>1, <2>2, <2>3, <2>4
  <2>5. CASE stored' = stored /\ accepted' = accepted
    BY <1>12, <2>1, <2>2, <2>5
  <2> QED BY <2>1, <2>4, <2>5 DEF Accepts
<1>14. CASE BeginsHead
  <2> DEFINE p == Head(queue)
  <2>1. /\ turn = NoItem /\ turn' = p /\ queue # <<>> /\ queue' = Tail(queue) /\ UNCHANGED <<life, accepted, excused>>
        /\ stored' \in {stored, Began(stored, p)}
    BY <1>14 DEF BeginsHead
  <2>2. p \in Prompts /\ ToSet(queue) = ToSet(queue') \cup {p}
    <3>1. queue \in Seq(Prompts)
      BY <1>1, InputFacts
    <3> QED BY <2>1, <3>1, QueueTail
  <2>3. K' = K /\ R' = R
    BY <2>1 DEF KeptPrompts
  <2> HIDE DEF K, R, p
  <2>4. CASE stored' = Began(stored, p)
    BY <1>11, <2>1, <2>2, <2>3, <2>4
  <2>5. CASE stored' = stored
    BY <1>12, <2>1, <2>2, <2>3, <2>5
  <2> QED BY <2>1, <2>4, <2>5
<1>15. ASSUME NEW p \in Prompts, Queues(p) PROVE HeldInv'
  <2>1. /\ queue' = Append(queue, p) /\ Accepts(p, Queued(stored, p)) /\ UNCHANGED <<turn, excused, life>>
    BY <1>15 DEF Queues
  <2>2. K' \subseteq K \cup {p} /\ R' \subseteq R \cup {p} /\ (accepted' = accepted => K' = K /\ R' = R)
    BY <1>5, <2>1 DEF Accepts
  <2>3. R' \subseteq R
    BY <1>2, <1>15, <2>2
  <2>4. ToSet(queue') = ToSet(queue) \cup {p}
    <3>1. queue \in Seq(Prompts)
      BY <1>1, InputFacts
    <3> QED BY <2>1, <3>1, QueueAppend
  <2> HIDE DEF K, R
  <2>5. CASE stored' = Queued(stored, p)
    <3>1. /\ stored'.history = stored.history /\ stored'.deferred = stored.deferred
          /\ stored'.pending = stored.pending /\ ToSet(stored'.queued) = ToSet(stored.queued) \cup {p}
      BY <1>1, <2>5, QueuesFacts
    <3>2. /\ K' \subseteq ItemsOf(stored'.history) \cup ToSet(stored'.queued)
          /\ R' \subseteq ItemsOf(stored'.history) \cup ItemsOf(stored'.deferred)
      BY <1>3, <2>2, <2>3, <3>1
    <3>3. life' = "up" => K' \cap ToSet(stored'.queued) \subseteq ToSet(queue') \cup {turn'}
      BY <1>3, <2>1, <2>2, <2>4, <3>1
    <3> QED BY <1>3, <3>1, <3>2, <3>3 DEF HeldInv, K, R
  <2>6. CASE stored' = stored /\ accepted' = accepted
    BY <1>12, <2>1, <2>2, <2>4, <2>6
  <2> QED BY <2>1, <2>5, <2>6 DEF Accepts
<1>16. ASSUME NEW q \in Questions, Answers(q) PROVE HeldInv'
  <2>1. /\ UNCHANGED <<turn, queue, excused, life>> /\ stored' = Answered(stored, q)
        /\ accepted' = Append(accepted, q)
    BY <1>16 DEF Answers
  <2>2. K' \subseteq K \cup {q} /\ R' \subseteq R \cup {q}
    BY <1>5, <2>1
  <2>3. K' \subseteq K
    <3>1. K' \subseteq Prompts
      BY DEF KeptPrompts
    <3> QED BY <1>2, <1>16, <2>2, <3>1
  <2>4. /\ stored'.queued = stored.queued /\ stored'.pending = stored.pending
        /\ \/ /\ stored.pending = NoCalls /\ stored'.deferred = stored.deferred
              /\ ItemsOf(stored'.history) = ItemsOf(stored.history) \cup {q}
           \/ /\ stored.pending # NoCalls /\ stored'.history = stored.history
              /\ ItemsOf(stored'.deferred) = ItemsOf(stored.deferred) \cup {q}
    BY <1>1, <2>1, AnsweredFacts
  <2> HIDE DEF K, R
  <2>5. /\ K' \subseteq ItemsOf(stored'.history) \cup ToSet(stored'.queued)
        /\ R' \subseteq ItemsOf(stored'.history) \cup ItemsOf(stored'.deferred)
        /\ life' = "up" => K' \cap ToSet(stored'.queued) \subseteq ToSet(queue') \cup {turn'}
        /\ stored'.pending = NoCalls => stored'.deferred = <<>>
    BY <1>3, <2>1, <2>2, <2>3, <2>4
  <2> QED BY <2>5 DEF HeldInv, K, R
<1> QED BY <1>6, <1>7, <1>8, <1>9, <1>10, <1>13, <1>14, <1>15, <1>16, InputCases

\* The inputs stay in the order of their acceptance.
LEMMA OrderStep ==
  ASSUME SafeInv, StoredInv, OnceInv, HeldInv, OrderInv, [LogNext]_logVars
  PROVE  OrderInv'
<1> DEFINE K == KeptPrompts
           Q == Questions
<1>1. LogTypes /\ DeferredInv /\ QueueInv
  BY DEF SafeInv, StoredInv
<1>2. /\ stored.history \in Seq(LogMessages) /\ stored.deferred \in Seq(LogMessages) /\ queue \in Seq(Prompts)
      /\ stored.queued \in Seq(Prompts) /\ accepted \in Seq(Prompts \cup Questions)
      /\ ToSet(stored.queued) \subseteq Prompts /\ ItemsOf(stored.deferred) \subseteq Q
      /\ K \subseteq Prompts /\ NoItem \notin Prompts \cup Q /\ Prompts \cap Q = {}
      /\ ToSet(<<>>) = {} /\ ItemsOf(<<>>) = {}
  BY <1>1, InputFacts
<1>3. \A acc, S : InOrder(acc, <<>>, S) /\ SameOrder(acc, <<>>, S)
  BY DEF InOrder, SameOrder
<1>4. \A acc, X : NoneEarlier(acc, {}, X) /\ NoneEarlier(acc, X, {})
  BY DEF NoneEarlier
<1>5. \A acc, X, Y, U, V : NoneEarlier(acc, X, Y) /\ U \subseteq X /\ V \subseteq Y => NoneEarlier(acc, U, V)
  BY DEF NoneEarlier
<1>6. /\ InOrder(accepted, stored.history, K)
      /\ SameOrder(accepted, stored.queued, K) /\ SameOrder(accepted, queue, K)
      /\ NoneEarlier(accepted, K \cap ToSet(stored.queued), K \cap ItemsOf(stored.history))
      /\ InOrder(accepted, stored.history, Q) /\ InOrder(accepted, stored.deferred, Q)
      /\ NoneEarlier(accepted, ItemsOf(stored.deferred), Q \cap ItemsOf(stored.history))
  BY DEF OrderInv
<1>7. CASE Holds
  <2>1. /\ stored'.history = stored.history /\ stored'.deferred = stored.deferred /\ stored'.queued = stored.queued
        /\ UNCHANGED <<queue, accepted, excused>>
    BY <1>7 DEF Holds
  <2> QED BY <1>6, <2>1 DEF OrderInv, KeptPrompts
<1>8. CASE Exit
  <2>1. queue' = <<>> /\ UNCHANGED <<stored, accepted, excused>>
    BY <1>8 DEF Exit, seen
  <2> QED BY <1>3, <1>6, <2>1 DEF OrderInv, KeptPrompts
<1>9. CASE Resume
  <2>1. UNCHANGED <<queue, accepted, excused>>
    BY <1>9 DEF Resume, seen, control
  <2>2. K' = K
    BY <2>1 DEF KeptPrompts
  <2>3. /\ InOrder(accepted, stored'.history, K) /\ InOrder(accepted, stored'.history, Q)
        /\ stored'.queued = <<>> /\ stored'.deferred = <<>>
    BY <1>1, <1>9, ResumedInputs
  <2> HIDE DEF K
  <2>4. K \cap ToSet(<<>>) = {}
    BY <1>2
  <2>5. /\ SameOrder(accepted, stored'.queued, K) /\ SameOrder(accepted, queue', K)
        /\ InOrder(accepted, stored'.deferred, Q)
        /\ NoneEarlier(accepted, K \cap ToSet(stored'.queued), K \cap ItemsOf(stored'.history))
        /\ NoneEarlier(accepted, ItemsOf(stored'.deferred), Q \cap ItemsOf(stored'.history))
    <3>1. /\ SameOrder(accepted, queue, K) /\ \A S : InOrder(accepted, <<>>, S) /\ SameOrder(accepted, <<>>, S)
          /\ \A X : NoneEarlier(accepted, {}, X)
      BY <1>3, <1>4, <1>6
    <3>2. /\ ItemsOf(stored'.deferred) = {} /\ K \cap ToSet(stored'.queued) = {}
          /\ stored'.deferred = <<>> /\ stored'.queued = <<>> /\ queue' = queue
      BY <1>2, <2>1, <2>3, <2>4
    <3> QED BY <3>1, <3>2
  <2>6. accepted' = accepted
    BY <2>1
  <2> QED BY <2>2, <2>3, <2>5, <2>6 DEF OrderInv, K
<1>10. ASSUME NEW m, Says(m) PROVE OrderInv'
  <2> DEFINE e == stored.history \o m
             d == stored.deferred
  <2>1. UNCHANGED <<queue, accepted, excused>>
    BY <1>10 DEF Says
  <2>2. /\ m \in Seq(LogMessages) /\ e \in Seq(LogMessages) /\ d \in Seq(LogMessages)
        /\ InOrder(accepted, m, K) /\ InOrder(accepted, m, Q)
        /\ ItemsOf(m) = {NoItem} /\ ItemsOf(e) = ItemsOf(stored.history) \cup {NoItem}
        /\ stored'.history = e \o d
        /\ ItemsOf(stored'.history) = (ItemsOf(stored.history) \cup {NoItem}) \cup ItemsOf(d)
        /\ stored'.deferred = <<>> /\ stored'.queued = stored.queued
    BY <1>1, <1>2, <1>10, SaidFacts
  <2>3. K' = K
    BY <2>1 DEF KeptPrompts
  <2>4. InOrder(accepted, d, K)
    BY <1>2, FewInOrder
  <2> HIDE DEF K
  <2>5. InOrder(accepted, e, K) /\ InOrder(accepted, e, Q)
    <3>1. K \cap ItemsOf(m) = {} /\ Q \cap ItemsOf(m) = {}
      BY <1>2, <2>2
    <3>2. /\ NoneEarlier(accepted, K \cap ItemsOf(m), K \cap ItemsOf(stored.history))
          /\ NoneEarlier(accepted, Q \cap ItemsOf(m), Q \cap ItemsOf(stored.history))
      BY <1>4, <3>1
    <3> QED BY <1>2, <1>6, <2>2, <3>2, JoinedOrder
  <2>6. d \in Seq(LogMessages) /\ InOrder(accepted, d, Q) /\ Q \cap ItemsOf(d) = ItemsOf(d) /\ K \cap ItemsOf(d) = {}
    BY <1>2, <1>6
  <2>7. /\ NoneEarlier(accepted, K \cap ItemsOf(d), K \cap ItemsOf(e))
        /\ NoneEarlier(accepted, Q \cap ItemsOf(d), Q \cap ItemsOf(e))
    <3>1. Q \cap ItemsOf(e) = Q \cap ItemsOf(stored.history)
      BY <1>2, <2>2
    <3>2. NoneEarlier(accepted, ItemsOf(d), Q \cap ItemsOf(stored.history))
      BY <1>6
    <3>3. \A X : NoneEarlier(accepted, {}, X)
      BY <1>4
    <3> HIDE DEF d, e
    <3> QED BY <2>6, <3>1, <3>2, <3>3
  <2>8. K \cap ItemsOf(stored'.history) = K \cap ItemsOf(stored.history)
    BY <1>2, <2>2
  <2> HIDE DEF e, d
  <2>9. InOrder(accepted, e \o d, K)
    BY <2>2, <2>4, <2>5, <2>7, JoinedOrder
  <2>10. InOrder(accepted, e \o d, Q)
    BY <2>2, <2>5, <2>6, <2>7, JoinedOrder
  <2>11. /\ SameOrder(accepted, stored'.queued, K) /\ SameOrder(accepted, queue', K)
         /\ InOrder(accepted, stored'.deferred, Q)
         /\ NoneEarlier(accepted, K \cap ToSet(stored'.queued), K \cap ItemsOf(stored'.history))
         /\ NoneEarlier(accepted, ItemsOf(stored'.deferred), Q \cap ItemsOf(stored'.history))
    <3>1. /\ SameOrder(accepted, stored.queued, K) /\ SameOrder(accepted, queue, K)
          /\ NoneEarlier(accepted, K \cap ToSet(stored.queued), K \cap ItemsOf(stored.history))
          /\ \A S : InOrder(accepted, <<>>, S) /\ \A X : NoneEarlier(accepted, {}, X)
      BY <1>3, <1>4, <1>6
    <3>2. ItemsOf(stored'.deferred) = {} /\ stored'.deferred = <<>> /\ stored'.queued = stored.queued /\ queue' = queue
      BY <1>2, <2>1, <2>2
    <3> QED BY <2>8, <3>1, <3>2
  <2>12. accepted' = accepted
    BY <2>1
  <2> QED BY <2>2, <2>3, <2>9, <2>10, <2>11, <2>12 DEF OrderInv, K
<1>11. ASSUME NEW gone, Leaves(gone) PROVE OrderInv'
  <2>1. /\ stored'.history = stored.history /\ stored'.deferred = stored.deferred /\ accepted' = accepted
        /\ ToSet(stored'.queued) \subseteq ToSet(stored.queued) /\ queue' \in {queue, <<>>}
        /\ \A acc, S : SameOrder(acc, stored.queued, S) => SameOrder(acc, stored'.queued, S)
        /\ K' \subseteq K
    BY <1>1, <1>11, LeavesFacts
  <2> HIDE DEF K
  <2>2. /\ InOrder(accepted, stored.history, K')
        /\ SameOrder(accepted, stored'.queued, K') /\ SameOrder(accepted, queue, K')
    BY <1>6, <2>1, LessInOrder
  <2>3. NoneEarlier(accepted, K' \cap ToSet(stored'.queued), K' \cap ItemsOf(stored.history))
    <3>1. /\ K' \cap ToSet(stored'.queued) \subseteq K \cap ToSet(stored.queued)
          /\ K' \cap ItemsOf(stored.history) \subseteq K \cap ItemsOf(stored.history)
      BY <2>1
    <3> QED BY <1>5, <1>6, <3>1
  <2> QED BY <1>3, <1>6, <2>1, <2>2, <2>3 DEF OrderInv, K
\* A new prompt is later than all that was accepted.
<1>12. ASSUME NEW p \in Prompts, p \notin used, accepted' \in {accepted, Append(accepted, p)}, excused' = excused
       PROVE  /\ K' \subseteq K \cup {p} /\ p \notin ItemsOf(stored.history) /\ p \notin ToSet(stored.queued)
              /\ \A y : ~Earlier(accepted', p, y)
              /\ InOrder(accepted', stored.history, K')
              /\ SameOrder(accepted', stored.queued, K') /\ SameOrder(accepted', queue, K')
              /\ NoneEarlier(accepted', K \cap ToSet(stored.queued), K' \cap ItemsOf(stored.history))
              /\ InOrder(accepted', stored.history, Q) /\ InOrder(accepted', stored.deferred, Q)
              /\ NoneEarlier(accepted', ItemsOf(stored.deferred), Q \cap ItemsOf(stored.history))
  <2>1. /\ p \notin ToSet(accepted) /\ p \notin ItemsOf(stored.history)
        /\ p \notin ToSet(stored.queued) /\ p \notin ToSet(queue)
    BY <1>1, <1>12 DEF OnceInv, QueueInv
  <2> DEFINE M == Prompts \cup Questions
             b == accepted'
  <2>2. p \in M /\ p \notin Q /\ accepted \in Seq(M) /\ (b = accepted \/ b = Append(accepted, p))
    BY <1>2, <1>12
  <2>3. K' \subseteq K \cup {p} /\ p \notin K
    <3> HIDE DEF M
    <3>1. ToSet(Append(accepted, p)) = ToSet(accepted) \cup {p}
      BY <2>2, QueueAppend
    <3> QED BY <1>12, <2>1, <3>1 DEF KeptPrompts
  <2> HIDE DEF K, M, b, Q
  <2>5. /\ InOrder(b, stored.history, K) /\ SameOrder(b, stored.queued, K) /\ SameOrder(b, queue, K)
        /\ NoneEarlier(b, K \cap ToSet(stored.queued), K \cap ItemsOf(stored.history))
        /\ \A y : ~Earlier(b, p, y)
    <3>1. KeepsOrder(accepted, b, K) /\ \A y : ~Earlier(b, p, y)
      BY <2>1, <2>2, <2>3, AcceptedOrder
    <3>2. K \cap ItemsOf(stored.history) \subseteq K
      OBVIOUS
    <3> QED BY <1>6, <3>1, <3>2 DEF KeepsOrder
  <2>6. /\ InOrder(b, stored.history, Q) /\ InOrder(b, stored.deferred, Q)
        /\ NoneEarlier(b, ItemsOf(stored.deferred), Q \cap ItemsOf(stored.history))
    <3>1. KeepsOrder(accepted, b, Q)
      BY <2>1, <2>2, AcceptedOrder
    <3>2. Q \cap ItemsOf(stored.history) \subseteq Q
      OBVIOUS
    <3> QED BY <1>6, <3>1, <3>2 DEF KeepsOrder
  <2>7. /\ K' \cap ItemsOf(stored.history) \subseteq K /\ K' \cap ToSet(stored.queued) \subseteq K
        /\ K' \cap ToSet(queue) \subseteq K /\ K' \cap ItemsOf(stored.history) \subseteq K \cap ItemsOf(stored.history)
    BY <2>1, <2>3
  <2>8. InOrder(b, stored.history, K') /\ SameOrder(b, stored.queued, K') /\ SameOrder(b, queue, K')
    BY <2>5, <2>7, LessInOrder
  <2>9. NoneEarlier(b, K \cap ToSet(stored.queued), K' \cap ItemsOf(stored.history))
    BY <1>5, <2>5, <2>7
  <2> QED BY <2>1, <2>3, <2>5, <2>6, <2>8, <2>9 DEF b
\* A prompt joins the history, later than what is there and earlier than what waits.
<1>13. ASSUME NEW p \in Prompts, stored' = Began(stored, p),
              InOrder(accepted', stored.history, K'),
              SameOrder(accepted', stored.queued, K'), SameOrder(accepted', queue', K'),
              NoneEarlier(accepted', K' \cap {p}, K' \cap (ItemsOf(stored.history) \cup {p})),
              NoneEarlier(accepted', (K' \cap ToSet(stored.queued)) \ {p}, K' \cap (ItemsOf(stored.history) \cup {p})),
              InOrder(accepted', stored.history, Q), InOrder(accepted', stored.deferred, Q),
              NoneEarlier(accepted', ItemsOf(stored.deferred), Q \cap ItemsOf(stored.history))
       PROVE  OrderInv'
  <2> DEFINE n == <<Input("prompt", p)>>
             b == accepted'
             L == K'
             H == stored.history
  <2>1. /\ stored'.history = H \o n /\ ItemsOf(stored'.history) = ItemsOf(H) \cup {p}
        /\ n \in Seq(LogMessages) /\ ItemsOf(n) = {p} /\ H \in Seq(LogMessages)
        /\ stored'.deferred = stored.deferred /\ ToSet(stored'.queued) = ToSet(stored.queued) \ {p}
        /\ \A acc, S : SameOrder(acc, stored.queued, S) => SameOrder(acc, stored'.queued, S)
    BY <1>1, <1>2, <1>13, BegunFacts
  <2>2. p \notin Q
    BY <1>2, <1>13
  <2>3. /\ InOrder(b, H, L) /\ InOrder(b, H, Q) /\ SameOrder(b, stored'.queued, L) /\ SameOrder(b, queue', L)
        /\ NoneEarlier(b, L \cap {p}, L \cap (ItemsOf(H) \cup {p}))
        /\ NoneEarlier(b, L \cap ToSet(stored'.queued), L \cap ItemsOf(stored'.history))
    <3>1. L \cap ToSet(stored'.queued) = (L \cap ToSet(stored.queued)) \ {p}
      BY <2>1
    <3> QED BY <1>13, <2>1, <3>1
  <2> HIDE DEF n, b, L, H, K, Q
  <2>4. InOrder(b, n, L)
    <3>1. p \in L => ~Earlier(b, p, p)
      BY <2>3 DEF NoneEarlier
    <3> QED BY <2>1, <3>1 DEF InOrder, ItemsOf
  <2>5. InOrder(b, n, Q)
    BY <2>1, <2>2, FewInOrder
  <2>6. NoneEarlier(b, L \cap ItemsOf(n), L \cap ItemsOf(H))
    BY <2>1, <2>3 DEF NoneEarlier
  <2>7. NoneEarlier(b, Q \cap ItemsOf(n), Q \cap ItemsOf(H))
    BY <2>1, <2>2 DEF NoneEarlier
  <2>8. InOrder(b, H \o n, L)
    BY <2>1, <2>3, <2>4, <2>6, JoinedOrder
  <2>9. InOrder(b, H \o n, Q)
    BY <2>1, <2>3, <2>5, <2>7, JoinedOrder
  <2>10. Q \cap ItemsOf(stored'.history) = Q \cap ItemsOf(H)
    BY <2>1, <2>2
  <2> QED BY <1>13, <2>1, <2>3, <2>8, <2>9, <2>10 DEF OrderInv, b, L, H, K, Q
<1>14. ASSUME NEW p \in Prompts, BeginsNew(p) PROVE OrderInv'
  <2>1. /\ turn = NoItem /\ life = "up" /\ excused' = excused /\ queue' = <<>> /\ queue = <<>>
        /\ p \notin used /\ Accepts(p, Began(stored, p))
    BY <1>14 DEF BeginsNew
  <2>2. accepted' \in {accepted, Append(accepted, p)}
    BY <2>1 DEF Accepts
  <2> DEFINE b == accepted'
             L == K'
  <2>3. /\ L \subseteq K \cup {p} /\ p \notin ItemsOf(stored.history) /\ p \notin ToSet(stored.queued)
        /\ \A y : ~Earlier(b, p, y)
        /\ InOrder(b, stored.history, L)
        /\ SameOrder(b, stored.queued, L) /\ SameOrder(b, queue, L)
        /\ NoneEarlier(b, K \cap ToSet(stored.queued), L \cap ItemsOf(stored.history))
        /\ InOrder(b, stored.history, Q) /\ InOrder(b, stored.deferred, Q)
        /\ NoneEarlier(b, ItemsOf(stored.deferred), Q \cap ItemsOf(stored.history))
    BY <1>12, <2>1, <2>2
  <2>4. K \cap ToSet(stored.queued) = {}
    BY <1>2, <2>1 DEF HeldInv
  <2>5. CASE stored' = stored /\ accepted' = accepted
    <3>1. K' = K
      BY <2>1, <2>5 DEF KeptPrompts
    <3> QED BY <1>6, <2>1, <2>5, <3>1 DEF OrderInv
  <2>6. CASE stored' = Began(stored, p)
    <3> HIDE DEF K, L, b, Q
    <3>1. NoneEarlier(b, L \cap {p}, L \cap (ItemsOf(stored.history) \cup {p}))
      BY <2>3 DEF NoneEarlier
    <3>2. (L \cap ToSet(stored.queued)) \ {p} = {}
      BY <2>3, <2>4
    <3>3. NoneEarlier(b, (L \cap ToSet(stored.queued)) \ {p}, L \cap (ItemsOf(stored.history) \cup {p}))
      BY <1>4, <3>2
    <3>4. SameOrder(b, queue', L)
      BY <1>3, <2>1
    <3> QED BY <1>13, <2>3, <2>6, <3>1, <3>3, <3>4 DEF L, b
  <2> QED BY <2>1, <2>5, <2>6 DEF Accepts

<1>15. CASE BeginsHead
  <2> DEFINE p == Head(queue)
             t == Tail(queue)
             I == ItemsOf(stored.history)
             W == ToSet(stored.queued)
  <2>1. /\ life = "up" /\ turn = NoItem /\ queue # <<>> /\ queue' = t /\ UNCHANGED <<accepted, excused>>
        /\ stored' \in {stored, Began(stored, p)}
    BY <1>15 DEF BeginsHead
  <2>2. /\ p \in Prompts /\ p \in ToSet(queue) /\ ToSet(queue) = ToSet(t) \cup {p}
    BY <1>2, <2>1, QueueTail
  <2>3. K' = K
    BY <2>1 DEF KeptPrompts
  <2>4. K \cap W \subseteq ToSet(queue) /\ p \notin I /\ (p \in K => p \in W)
    BY <1>2, <2>1, <2>2 DEF HeldInv, OnceInv
  <2>5. SameOrder(accepted, t, K) /\ (p \in K => NoneEarlier(accepted, K \cap ToSet(t), {p}))
    BY <1>2, <1>6, <2>1, TailOrder
  <2>6. ~Earlier(accepted, p, p)
    BY <1>2 DEF OnceInv, Distinctly, Earlier
  <2>7. CASE stored' = Began(stored, p)
    <3> HIDE DEF p, t, I, W, K, Q
    <3>1. NoneEarlier(accepted, K \cap W, K \cap I)
      BY <1>6 DEF I, W
    <3>2. NoneEarlier(accepted, K \cap {p}, K \cap (I \cup {p}))
      BY <2>4, <2>6, <3>1 DEF NoneEarlier
    <3>3. NoneEarlier(accepted, (K \cap W) \ {p}, K \cap (I \cup {p}))
      BY <2>2, <2>4, <2>5, <3>1 DEF NoneEarlier
    <3> QED BY <1>6, <1>13, <2>1, <2>2, <2>3, <2>5, <2>7, <3>2, <3>3 DEF I, W
  <2>8. CASE stored' = stored
    <3>1. accepted' = accepted /\ queue' = t
      BY <2>1
    <3> QED BY <1>6, <2>3, <2>5, <2>8, <3>1 DEF OrderInv
  <2> QED BY <2>1, <2>7, <2>8
<1>16. ASSUME NEW p \in Prompts, Queues(p) PROVE OrderInv'
  <2> DEFINE b == accepted'
             L == K'
             I == ItemsOf(stored.history)
  <2>1. /\ p \notin used /\ excused' = excused /\ queue' = Append(queue, p) /\ Accepts(p, Queued(stored, p))
    BY <1>16 DEF Queues
  <2>2. accepted' \in {accepted, Append(accepted, p)}
    BY <2>1 DEF Accepts
  <2>3. /\ L \subseteq K \cup {p} /\ p \notin I /\ p \notin ToSet(stored.queued)
        /\ \A y : ~Earlier(b, p, y)
        /\ InOrder(b, stored.history, L)
        /\ SameOrder(b, stored.queued, L) /\ SameOrder(b, queue, L)
        /\ NoneEarlier(b, K \cap ToSet(stored.queued), L \cap I)
        /\ InOrder(b, stored.history, Q) /\ InOrder(b, stored.deferred, Q)
        /\ NoneEarlier(b, ItemsOf(stored.deferred), Q \cap I)
    BY <1>12, <2>1, <2>2
  <2> HIDE DEF b, L, K, Q
  <2>4. SameOrder(b, Append(queue, p), L)
    BY <1>2, <2>3, QueueOrder
  <2>5. CASE stored' = Queued(stored, p)
    <3>1. /\ stored'.history = stored.history /\ stored'.deferred = stored.deferred
          /\ stored'.queued = Append(stored.queued, p) /\ ToSet(stored'.queued) = ToSet(stored.queued) \cup {p}
      BY <1>1, <2>5, QueuesFacts
    <3>2. SameOrder(b, Append(stored.queued, p), L)
      BY <1>2, <2>3, QueueOrder
    <3>3. NoneEarlier(b, L \cap ToSet(stored'.queued), L \cap I)
      BY <2>3, <3>1 DEF NoneEarlier
    <3> QED BY <2>1, <2>3, <2>4, <3>1, <3>2, <3>3 DEF OrderInv, b, L, K, Q
  <2>6. CASE stored' = stored /\ accepted' = accepted
    <3>1. K' = K
      BY <2>1, <2>6 DEF KeptPrompts, K
    <3> QED BY <1>6, <2>1, <2>4, <2>6, <3>1 DEF OrderInv, b, L, K, Q
  <2> QED BY <2>1, <2>5, <2>6 DEF Accepts
\* An answer is later than all that was accepted.
<1>17. ASSUME NEW q \in Questions, Answers(q) PROVE OrderInv'
  <2> DEFINE M == Prompts \cup Questions
             b == accepted'
             H == stored.history
             D == stored.deferred
             n == <<Input("answer", q)>>
             R == Q \ {q}
  <2>1. /\ q \notin ItemsOf(H) \cup ItemsOf(D) /\ UNCHANGED <<queue, excused>>
        /\ stored' = Answered(stored, q) /\ b = Append(accepted, q)
    BY <1>17 DEF Answers
  <2>2. /\ q \in M /\ q \notin ToSet(accepted) /\ q \notin K /\ accepted \in Seq(M) /\ q \notin R
        /\ b = Append(accepted, q)
    BY <1>2, <2>1 DEF HeldInv
  <2>3. K' = K
    <3> HIDE DEF M
    <3>1. ToSet(Append(accepted, q)) = ToSet(accepted) \cup {q}
      BY <2>2, QueueAppend
    <3> QED BY <1>2, <2>1, <3>1 DEF KeptPrompts
  <2>4. /\ n \in Seq(LogMessages) /\ ItemsOf(n) = {q} /\ H \in Seq(LogMessages) /\ D \in Seq(LogMessages)
        /\ stored'.queued = stored.queued
        /\ \/ /\ stored.pending = NoCalls /\ stored'.deferred = D
              /\ stored'.history = H \o n /\ ItemsOf(stored'.history) = ItemsOf(H) \cup {q}
           \/ /\ stored.pending # NoCalls /\ stored'.history = H
              /\ stored'.deferred = D \o n /\ ItemsOf(stored'.deferred) = ItemsOf(D) \cup {q}
    BY <1>1, <1>2, <2>1, AnsweredFacts
  <2>5. stored.pending = NoCalls => D = <<>>
    BY DEF HeldInv
  <2>6. /\ InOrder(accepted, H, Q) /\ InOrder(accepted, D, Q) /\ InOrder(accepted, H, K)
        /\ SameOrder(accepted, stored.queued, K) /\ SameOrder(accepted, queue, K)
        /\ NoneEarlier(accepted, ItemsOf(D), Q \cap ItemsOf(H))
        /\ NoneEarlier(accepted, K \cap ToSet(stored.queued), K \cap ItemsOf(H))
        /\ ItemsOf(D) \subseteq Q
    BY <1>2, <1>6
  <2> HIDE DEF K, M, b, H, D, n
  <2>7. KeepsOrder(accepted, b, K) /\ \A y : ~Earlier(b, q, y)
    BY <2>2, AcceptedOrder
  <2> HIDE DEF R
  <2>8. KeepsOrder(accepted, b, R)
    BY <2>2, AcceptedOrder
  <2>9. R \subseteq Q /\ Q \cap ItemsOf(H) \subseteq R /\ Q \cap ItemsOf(D) \subseteq R
    BY <2>1 DEF R
  <2>10. InOrder(b, H, Q) /\ InOrder(b, D, Q)
    <3>1. R \cap ItemsOf(H) \subseteq Q /\ R \cap ItemsOf(D) \subseteq Q
      BY <2>9
    <3>2. InOrder(accepted, H, R) /\ InOrder(accepted, D, R)
      BY <2>6, <3>1, LessInOrder
    <3>3. InOrder(b, H, R) /\ InOrder(b, D, R)
      BY <2>8, <3>2 DEF KeepsOrder
    <3> QED BY <2>9, <3>3, LessInOrder
  <2>11. NoneEarlier(b, ItemsOf(D), Q \cap ItemsOf(H)) /\ NoneEarlier(b, {q}, Q \cap ItemsOf(H))
    <3>1. NoneEarlier(b, ItemsOf(D), Q \cap ItemsOf(H))
      BY <2>6, <2>8, <2>9 DEF KeepsOrder
    <3> QED BY <2>7, <3>1 DEF NoneEarlier
  <2>12. /\ InOrder(b, H, K) /\ SameOrder(b, stored.queued, K) /\ SameOrder(b, queue, K)
         /\ NoneEarlier(b, K \cap ToSet(stored.queued), K \cap ItemsOf(H))
    <3>1. K \cap ItemsOf(H) \subseteq K
      OBVIOUS
    <3> QED BY <2>6, <2>7, <3>1 DEF KeepsOrder
  <2>13. InOrder(b, n, Q) /\ InOrder(b, n, K)
    <3>1. \A i \in DOMAIN n : n[i].item = q
      BY <2>4 DEF ItemsOf
    <3>2. InOrder(b, n, Q)
      BY <2>7, <3>1 DEF InOrder
    <3>3. InOrder(b, n, K)
      BY <2>2, <3>1 DEF InOrder
    <3> QED BY <3>2, <3>3
  <2>14. /\ \A h : NoneEarlier(b, Q \cap ItemsOf(n), Q \cap ItemsOf(h))
         /\ \A h : NoneEarlier(b, K \cap ItemsOf(n), K \cap ItemsOf(h))
    BY <2>2, <2>4, <2>7 DEF NoneEarlier
  <2>15. CASE stored'.deferred = D /\ D = <<>> /\ stored'.history = H \o n /\ ItemsOf(stored'.history) = ItemsOf(H) \cup {q}
    <3>1. InOrder(b, H \o n, Q)
      BY <2>4, <2>10, <2>13, <2>14, JoinedOrder
    <3>2. InOrder(b, H \o n, K)
      BY <2>4, <2>12, <2>13, <2>14, JoinedOrder
    <3>3. ItemsOf(stored'.deferred) = {} /\ NoneEarlier(b, {}, Q \cap ItemsOf(stored'.history))
      BY <1>2, <1>4, <2>15
    <3>4. K \cap ItemsOf(stored'.history) = K \cap ItemsOf(H)
      BY <2>2, <2>15
    <3>5. queue' = queue
      BY <2>1
    <3> QED BY <2>3, <2>4, <2>10, <2>12, <2>15, <3>1, <3>2, <3>3, <3>4, <3>5 DEF OrderInv, K, b
  <2>16. CASE stored'.history = H /\ stored'.deferred = D \o n /\ ItemsOf(stored'.deferred) = ItemsOf(D) \cup {q}
    <3>1. InOrder(b, D \o n, Q)
      BY <2>4, <2>10, <2>13, <2>14, JoinedOrder
    <3>2. NoneEarlier(b, ItemsOf(stored'.deferred), Q \cap ItemsOf(H))
      BY <2>11, <2>16 DEF NoneEarlier
    <3>3. queue' = queue
      BY <2>1
    <3> QED BY <2>3, <2>4, <2>10, <2>12, <2>16, <3>1, <3>2, <3>3 DEF OrderInv, K, b
  <2> QED BY <2>4, <2>5, <2>15, <2>16
<1> QED BY <1>7, <1>8, <1>9, <1>10, <1>11, <1>14, <1>15, <1>16, <1>17, InputCases

\* Nothing is accepted at first.
LEMMA InputsInit == LogInit => OnceInv /\ HeldInv /\ OrderInv
<1> SUFFICES ASSUME LogInit PROVE OnceInv /\ HeldInv /\ OrderInv
  OBVIOUS
<1>1. /\ ToSet(<<>>) = {} /\ ItemsOf(<<>>) = {} /\ Distinctly(<<>>) /\ OneItem(<<>>)
      /\ \A acc, S : InOrder(acc, <<>>, S) /\ SameOrder(acc, <<>>, S)
      /\ \A acc, X, Y : X = {} => NoneEarlier(acc, X, Y)
  BY NothingSaid DEF Distinctly, OneItem, InOrder, SameOrder, NoneEarlier, ToSet
<1>2. OnceInv /\ HeldInv
  BY <1>1 DEF LogInit, OnceInv, HeldInv, KeptPrompts
<1>3. OrderInv
  BY <1>1 DEF LogInit, OrderInv
<1> QED BY <1>2, <1>3

\* What the order of the inputs stands on.
LEMMA InputsAlways == LogSpec => [](SafeInv /\ StoredInv /\ OnceInv /\ HeldInv /\ OrderInv)
<1>1. SafeInv /\ StoredInv /\ OnceInv /\ HeldInv /\ OrderInv /\ [LogNext]_logVars
        => (SafeInv /\ StoredInv /\ OnceInv /\ HeldInv /\ OrderInv)'
  BY SafeStep, StoredStep, OnceStep, HeldStep, OrderStep
<1> QED BY <1>1, SafeInit, StoredInit, InputsInit, PTL DEF LogSpec

\* An input whose record succeeded stays, once and in the order in which it was
\* accepted, in the history or in what the next recovery adds to it.
THEOREM InputsAreKept == LogSpec => []InputsSurvive
<1>1. ASSUME SafeInv, OnceInv, HeldInv, OrderInv PROVE InputsSurvive
  <2> DEFINE w == stored.history \o RecoveredInput(stored)
             Places(x) == {i \in DOMAIN w : w[i].item = x}
             kept == (Prompts \cap ToSet(accepted)) \ excused
             said == Questions \cap ToSet(accepted)
  <2>1. /\ LogTypes /\ DeferredInv /\ stored.history \in Seq(LogMessages) /\ NoItem \notin Prompts \cup Questions
    BY <1>1, SessionAssumption DEF SafeInv, LogTypes, Snapshots
  <2>2. /\ OneItem(stored.history)
        /\ InOrder(accepted, stored.history, KeptPrompts) /\ InOrder(accepted, stored.history, Questions)
    BY <1>1 DEF OnceInv, OrderInv
  <2>3. /\ OneItem(w) /\ InOrder(accepted, w, KeptPrompts) /\ InOrder(accepted, w, Questions)
        /\ ItemsOf(w) \ {NoItem} =
             (ItemsOf(stored.history) \cup ItemsOf(stored.deferred) \cup ToSet(stored.queued)) \ {NoItem}
    BY <1>1, <2>1, <2>2, RecoveredInputs
  <2> HIDE DEF w
  <2>4. kept \cup said \subseteq ItemsOf(w) /\ NoItem \notin kept \cup said
    BY <1>1, <2>1, <2>3 DEF HeldInv, KeptPrompts
  <2>5. ASSUME NEW x \in kept \cup said PROVE \E i \in DOMAIN w : Places(x) = {i}
    <3>1. PICK i \in DOMAIN w : w[i].item = x
      BY <2>4, <2>5 DEF ItemsOf
    <3>2. Places(x) = {i}
      BY <2>3, <2>4, <2>5, <3>1 DEF OneItem
    <3> QED BY <3>2
  <2>6. InOrder(accepted, w, kept) /\ InOrder(accepted, w, said)
    BY <2>3 DEF InOrder, KeptPrompts
  <2>7. ASSUME NEW S \in {kept, said}, NEW k \in DOMAIN accepted, NEW l \in DOMAIN accepted,
               k < l, accepted[k] \in S, accepted[l] \in S,
               NEW i \in Places(accepted[k]), NEW j \in Places(accepted[l])
        PROVE  i < j
    <3>1. Earlier(accepted, w[i].item, w[j].item)
      BY <2>7 DEF Earlier
    <3> QED BY <2>6, <2>7, <3>1 DEF InOrder
  <2> QED BY <2>5, <2>7 DEF InputsSurvive, w
<1> QED BY <1>1, InputsAlways, PTL

-----------------------------------------------------------------------------
(* SessionGenerations: the inductive invariant has two halves.  StoreInv   *)
(* is about the files: an archive is a copy of an old database that nobody *)
(* changes any more, a family is archived as a whole, and a session's      *)
(* ancestors exist.  WorkInv is about the processes: whoever writes or     *)
(* rotates holds the lock over the layout that the manifest names, and the *)
(* next database of a rotation holds what the current ones do, whole       *)
(* families of it.                                                         *)

Entries == {Nothing} \cup [version : Nat \ {0}, owner : Procs \cup {NoOne}]
Catalogs == [Sessions -> Entries]

Ops == {"create", "claim", "record", "release"}
Outside    == {"idle", "exited", "wait", "again"}
Writing    == {"write", "moved"}
Recovering == {"open", "removed"}
Rotating   == {"locked", "rotate", "copy", "archived"}

Work == [at : Outside \cup Writing \cup Recovering \cup Rotating,
         lock : {"none", "shared", "exclusive"}, op : Ops \cup {"none"},
         id : Sessions \cup {NoOne}, goal : {"none", "reload", "full", "rotated"},
         layout : Int, todo : SUBSET Sessions]

Current == manifest.current
Related(s, t) == Ancestors[s] \cap Ancestors[t] # {}

DiskTypes ==
  /\ manifest \in [state : {"Ready", "Retiring"}, current : Nat]
  /\ DOMAIN db \subseteq Nat /\ db \in [DOMAIN db -> Catalogs]
  /\ DOMAIN archives \subseteq {g \in Nat : g < Current}
  /\ archives \in [DOMAIN archives -> Catalogs]

WorkTypes ==
  /\ proc \in [Procs -> Work] /\ cached \in [Procs -> Int]

\* What a process that runs can find: both databases of the layout exist.
LayoutIsThere == Searched(Current) \subseteq DOMAIN db
\* Nobody writes to a database that was copied to an archive.
ArchivesAreTrue ==
  \A g \in DOMAIN archives : g \in DOMAIN db => archives[g] = db[g]
\* A family is archived as a whole.
ArchivesAreWhole ==
  \A s, t \in Sessions :
    s \in Searchable(Current) /\ Related(s, t) /\ InArchives(t) # {}
      => t \in Searchable(Current)
\* A session that exists, or did until it was archived; its ancestors do.
Known(s) == Present(s) \/ InArchives(s) # {}
AncestorsExist ==
  \A s \in Sessions : Known(s) => \A a \in Ancestors[s] : Known(a)
FamiliesAreTogether ==
  \A s, t \in Sessions :
    db[Current][s] # Nothing /\ Related(s, t) /\ Known(t) => db[Current][t] # Nothing

StoreInv ==
  /\ DiskTypes /\ LayoutIsThere /\ ArchivesAreTrue /\ ArchivesAreWhole
  /\ AncestorsExist /\ FamiliesAreTogether

\* No database and no archive has the session.
Unborn(s) ==
  /\ \A g \in DOMAIN db : db[g][s] = Nothing
  /\ \A g \in DOMAIN archives : archives[g][s] = Nothing

Locked(p) ==
  /\ proc[p].at \in Outside => proc[p].lock = "none"
  /\ proc[p].at \in Writing => proc[p].lock \in {"shared", "exclusive"}
  /\ proc[p].at \in Recovering \cup Rotating => proc[p].lock = "exclusive"
  /\ proc[p].at = "wait" => proc[p].goal \in {"reload", "full"}
Asks(p) ==
  IF proc[p].at \in {"idle", "exited"} THEN proc[p].op = "none"
  ELSE /\ proc[p].op \in Ops /\ proc[p].id \in Sessions
       /\ proc[p].op = "claim" => Parent[proc[p].id] = NoOne
       /\ proc[p].op = "create" => Unborn(proc[p].id)
Knows(p) == proc[p].at \in Writing \cup Rotating => Fresh(p)
HasMoved(p) ==
  proc[p].at = "moved" => \A s \in RequestedSet(p) : db[Current][s] # Nothing

\* The sessions that the next database has, or will have.
Chosen(p) == proc[p].todo \cup {s \in Sessions : db[Current + 1][s] # Nothing}
Copies(p) ==
  proc[p].at \in {"copy", "archived"} =>
    /\ Current + 1 \in DOMAIN db
    /\ proc[p].todo \subseteq Searchable(Current)
    /\ \A s \in Sessions : db[Current + 1][s] \in {Nothing, Find(Current, s)}
    /\ Active(Current) \subseteq Chosen(p)
    /\ \A s, t \in Searchable(Current) : Related(s, t) /\ s \in Chosen(p) => t \in Chosen(p)
Archived(p) ==
  proc[p].at = "archived" =>
    proc[p].todo = {} /\ Current > 0 /\ Current - 1 \in DOMAIN archives

Sound(p) ==
  Locked(p) /\ Asks(p) /\ Knows(p) /\ HasMoved(p) /\ Copies(p) /\ Archived(p)

Apart ==
  \A p, q \in Procs : p # q =>
    /\ proc[p].lock = "exclusive" => proc[q].lock = "none"
    /\ proc[p].op = "create" /\ proc[q].op = "create" => proc[p].id # proc[q].id

WorkInv == WorkTypes /\ Apart /\ \A p \in Procs : Sound(p)

GenerationsInv == StoreInv /\ WorkInv

-----------------------------------------------------------------------------
(* Families.                                                               *)

\* A family consists of sessions, its own among them,
LEMMA AncestorsAreSessions ==
  ASSUME NEW s \in Sessions
  PROVE  Ancestors[s] \subseteq Sessions /\ s \in Ancestors[s]
BY DEF Ancestors

\* is the least set with the parent of each of its members,
LEMMA AncestorsAreLeast ==
  ASSUME NEW s \in Sessions, NEW S \in SUBSET Sessions, s \in S, HasParents(S)
  PROVE  Ancestors[s] \subseteq S
BY DEF Ancestors

\* has that parent itself,
LEMMA AncestorsHaveParents ==
  ASSUME NEW s \in Sessions
  PROVE  HasParents(Ancestors[s])
BY GenerationsAssumption DEF Ancestors, HasParents

\* and holds the family of each of its members.
LEMMA AncestorsOfAncestors ==
  ASSUME NEW s \in Sessions, NEW a \in Ancestors[s]
  PROVE  Ancestors[a] \subseteq Ancestors[s]
<1>1. a \in Sessions /\ Ancestors[s] \in SUBSET Sessions
  BY AncestorsAreSessions
<1> QED BY <1>1, AncestorsHaveParents, AncestorsAreLeast

\* The ancestors are those of the parent, and the session.
LEMMA AncestorsOfChild ==
  ASSUME NEW s \in Sessions
  PROVE  /\ Parent[s] = NoOne => Ancestors[s] = {s}
         /\ Parent[s] # NoOne => /\ Parent[s] \in Sessions
                                 /\ Ancestors[s] = {s} \cup Ancestors[Parent[s]]
<1>1. Ancestors[s] \subseteq Sessions /\ s \in Ancestors[s]
  BY AncestorsAreSessions
<1>2. ASSUME Parent[s] = NoOne PROVE Ancestors[s] = {s}
  <2>1. HasParents({s})
    BY <1>2 DEF HasParents
  <2> QED BY <1>1, <2>1, AncestorsAreLeast
<1>3. ASSUME Parent[s] # NoOne
      PROVE  Parent[s] \in Sessions /\ Ancestors[s] = {s} \cup Ancestors[Parent[s]]
  <2> DEFINE u == Parent[s]
  <2>1. u \in Sessions /\ u \in Ancestors[s]
    BY <1>1, <1>3, AncestorsHaveParents, GenerationsAssumption DEF HasParents
  <2>2. Ancestors[u] \subseteq Ancestors[s]
    BY <2>1, AncestorsOfAncestors
  <2>3. u \in Ancestors[u] /\ Ancestors[u] \subseteq Sessions
    BY <2>1, AncestorsAreSessions
  <2>4. HasParents({s} \cup Ancestors[u])
    BY <2>1, <2>3, AncestorsHaveParents DEF HasParents
  <2>5. Ancestors[s] \subseteq {s} \cup Ancestors[u]
    BY <2>3, <2>4, AncestorsAreLeast
  <2> QED BY <1>1, <2>1, <2>2, <2>5
<1> QED BY <1>2, <1>3

\* Of two ancestors of a session one is an ancestor of the other.
LEMMA AncestorsAreOrdered ==
  ASSUME NEW s \in Sessions, NEW a \in Ancestors[s], NEW b \in Ancestors[s]
  PROVE  a \in Ancestors[b] \/ b \in Ancestors[a]
<1> DEFINE S == {x \in Sessions : x \in Ancestors[b] \/ b \in Ancestors[x]}
<1>1. b \in Sessions
  BY AncestorsAreSessions
<1>2. s \in S
  BY AncestorsAreSessions
<1>3. ASSUME NEW x \in S, Parent[x] # NoOne PROVE Parent[x] \in S
  <2>1. Parent[x] \in Sessions /\ Ancestors[x] = {x} \cup Ancestors[Parent[x]]
    BY <1>3, AncestorsOfChild
  <2>2. CASE x \in Ancestors[b]
    BY <1>1, <1>3, <2>1, <2>2, AncestorsHaveParents DEF HasParents
  <2>3. CASE x # b /\ b \in Ancestors[x]
    BY <2>1, <2>3
  <2> QED BY <1>1, <2>2, <2>3, AncestorsAreSessions
<1>4. HasParents(S)
  BY <1>3 DEF HasParents
<1>5. Ancestors[s] \subseteq S
  <2> HIDE DEF S
  <2>1. S \subseteq Sessions
    BY DEF S
  <2> QED BY <1>2, <1>4, <2>1, AncestorsAreLeast
<1> QED BY <1>5

\* To be of a family is an equivalence.
LEMMA FamiliesArePartition ==
  /\ \A s \in Sessions : Related(s, s)
  /\ \A s, t \in Sessions : Related(s, t) => Related(t, s)
  /\ \A s, t, u \in Sessions : Related(s, t) /\ Related(t, u) => Related(s, u)
<1>1. ASSUME NEW s \in Sessions, NEW t \in Sessions, NEW u \in Sessions,
             Related(s, t), Related(t, u)
      PROVE  Related(s, u)
  <2>1. PICK a : a \in Ancestors[s] /\ a \in Ancestors[t]
    BY <1>1 DEF Related
  <2>2. PICK b : b \in Ancestors[t] /\ b \in Ancestors[u]
    BY <1>1 DEF Related
  <2>3. CASE a \in Ancestors[b]
    BY <2>1, <2>2, <2>3, AncestorsOfAncestors DEF Related
  <2>4. CASE b \in Ancestors[a]
    BY <2>1, <2>2, <2>4, AncestorsOfAncestors DEF Related
  <2> QED BY <2>1, <2>2, <2>3, <2>4, AncestorsAreOrdered
<1> QED BY <1>1, AncestorsAreSessions DEF Related

\* A child is of the family of its parent; a session that has no relatives
\* yet brings the parent's with it.
LEMMA ChildIsRelated ==
  ASSUME NEW s \in Sessions, NEW t \in Sessions, Related(s, t), s \notin Ancestors[t]
  PROVE  Parent[s] # NoOne /\ Related(Parent[s], t)
BY AncestorsOfChild DEF Related

-----------------------------------------------------------------------------
(* The files.                                                              *)

\* The entry of a session that is not there.
LEMMA EntriesAreTyped ==
  /\ Nothing \in Entries /\ Nothing = [version |-> 0, owner |-> NoOne]
  /\ Empty \in Catalogs /\ \A s \in Sessions : Empty[s] = Nothing
BY DEF Entries, Nothing, Empty, Catalogs

\* What a process finds, without the case distinctions.
LEMMA FindIsTyped ==
  ASSUME DiskTypes, LayoutIsThere
  PROVE  /\ Current \in Nat /\ Current \in DOMAIN db /\ db[Current] \in Catalogs
         /\ Current > 0 => /\ Current - 1 \in DOMAIN db
                           /\ Current - 1 \in Nat /\ db[Current - 1] \in Catalogs
         /\ \A s \in Sessions :
              /\ Find(Current, s) \in Entries
              /\ s \in Searchable(Current) <=> Find(Current, s) # Nothing
              /\ Present(s) <=> Find(Current, s) # Nothing
              /\ db[Current][s] # Nothing => Find(Current, s) = db[Current][s]
BY EntriesAreTyped DEF DiskTypes, LayoutIsThere, Current, Searched, Find, Searchable, Present, Catalogs

\* The layout, what its databases hold and the archives stay.
LayoutStays ==
  /\ manifest'.current = Current /\ archives' = archives
  /\ \A g \in Searched(Current) : g \in DOMAIN db' /\ db'[g] = db[g]
  /\ \A g \in DOMAIN db' : g # Current + 1 => g \in DOMAIN db /\ db'[g] = db[g]

StoreStays ==
  /\ Current' = Current /\ archives' = archives
  /\ Searchable(Current)' = Searchable(Current)
  /\ \A s \in Sessions :
       /\ Find(Current, s)' = Find(Current, s) /\ db[Current][s]' = db[Current][s]
       /\ (Present(s))' = Present(s) /\ Kept(s)' = Kept(s)
       /\ InArchives(s)' = InArchives(s)

\* The files stay sound where the manifest and its databases stay.
LEMMA LayoutKeepsStore ==
  ASSUME StoreInv, LayoutStays, DiskTypes'
  PROVE  StoreInv' /\ StoreStays
<1>1. DiskTypes /\ LayoutIsThere
  BY DEF StoreInv
<1>2. Current' = Current /\ Current \in Nat /\ Searched(Current)' = Searched(Current)
  BY <1>1, FindIsTyped DEF LayoutStays, Current, Searched
<1>3. LayoutIsThere'
  BY <1>2 DEF LayoutStays, LayoutIsThere
<1>4. \A s \in Sessions : Find(Current, s)' = Find(Current, s) /\ db[Current][s]' = db[Current][s]
  BY <1>2 DEF LayoutStays, Find, Searched
<1>5. Searchable(Current)' = Searchable(Current)
  BY <1>2, <1>4 DEF Searchable
<1>6. \A s \in Sessions : (Present(s))' = Present(s)
  BY <1>1, <1>3, <1>4, FindIsTyped, <1>2 DEF Present, LayoutIsThere, Current
<1>7. \A s \in Sessions : InArchives(s)' = InArchives(s)
  BY DEF InArchives, LayoutStays
<1>8. \A s \in Sessions : Kept(s)' = Kept(s)
  BY <1>2, <1>4, <1>6, <1>7 DEF Kept, LayoutStays, Current
<1>9. ArchivesAreTrue'
  <2>1. \A g \in DOMAIN archives : g # Current + 1
    BY <1>1, <1>2 DEF DiskTypes
  <2> QED BY <2>1 DEF StoreInv, ArchivesAreTrue, LayoutStays
<1>10. ArchivesAreWhole' /\ AncestorsExist' /\ FamiliesAreTogether'
  BY <1>2, <1>4, <1>5, <1>6, <1>7, AncestorsAreSessions
     DEF StoreInv, ArchivesAreWhole, AncestorsExist, FamiliesAreTogether, Related, Current, Known
<1> QED BY <1>2, <1>3, <1>4, <1>5, <1>6, <1>7, <1>8, <1>9, <1>10 DEF StoreInv, StoreStays, LayoutStays

\* Sessions are found where they were, and nothing about them changes.
FindingStays ==
  /\ Current' = Current /\ archives' = archives
  /\ Searchable(Current)' = Searchable(Current)
  /\ \A s \in Sessions :
       /\ Find(Current, s)' = Find(Current, s)
       /\ db[Current][s] # Nothing => db[Current][s]' = db[Current][s]
       /\ (Present(s))' = Present(s) /\ Kept(s)' = Kept(s)
       /\ InArchives(s)' = InArchives(s)

\* Sessions are brought into the current database, whole families of them.
LEMMA FillingKeepsStore ==
  ASSUME StoreInv, manifest' = manifest, archives' = archives,
         NEW c \in Catalogs, db' = [db EXCEPT ![Current] = c],
         \A s \in Sessions : \/ c[s] = db[Current][s]
                             \/ db[Current][s] = Nothing /\ c[s] = Find(Current, s),
         \A s, t \in Sessions :
           c[s] # Nothing /\ db[Current][s] = Nothing /\ Related(s, t)
           /\ t \in Searchable(Current) => c[t] # Nothing
  PROVE  StoreInv' /\ FindingStays
<1>1. DiskTypes /\ LayoutIsThere
  BY DEF StoreInv
<1>2. /\ Current' = Current /\ Current \in Nat /\ Current \in DOMAIN db
      /\ DOMAIN db' = DOMAIN db /\ db'[Current] = c
      /\ \A g \in DOMAIN db : g # Current => db'[g] = db[g]
  BY <1>1, FindIsTyped DEF Current
<1>3. DiskTypes' /\ LayoutIsThere'
  BY <1>1, <1>2 DEF DiskTypes, LayoutIsThere, Searched, Current
<1>4. \A s \in Sessions : Find(Current, s)' = Find(Current, s)
  <2>1. Current > 0 => Current - 1 \in DOMAIN db /\ Current - 1 # Current
    BY <1>1, <1>2, FindIsTyped
  <2> QED BY <1>2, <2>1 DEF Find
<1>5. Searchable(Current)' = Searchable(Current)
  BY <1>2, <1>4 DEF Searchable
<1>6. \A s \in Sessions : (Present(s))' = Present(s) /\ InArchives(s)' = InArchives(s)
  BY <1>1, <1>2, <1>3, <1>4 DEF Present, InArchives, LayoutIsThere, Current
<1>7. \A s \in Sessions : Kept(s)' = Kept(s)
  BY <1>2, <1>4, <1>6 DEF Kept, Current
<1>8. ArchivesAreTrue'
  <2>1. Current \notin DOMAIN archives
    BY <1>1, <1>2 DEF DiskTypes
  <2> QED BY <1>2, <2>1 DEF StoreInv, ArchivesAreTrue
<1>9. ArchivesAreWhole' /\ AncestorsExist'
  BY <1>2, <1>5, <1>6, <1>7, AncestorsAreSessions
     DEF StoreInv, ArchivesAreWhole, AncestorsExist, Related, Known
<1>10. FamiliesAreTogether'
  <2> SUFFICES ASSUME NEW s \in Sessions, NEW t \in Sessions,
                      c[s] # Nothing, Related(s, t), Known(t)
               PROVE  c[t] # Nothing
    BY <1>2, <1>6 DEF FamiliesAreTogether, Related, Current, Known
  <2>1. CASE db[Current][s] # Nothing
    BY <2>1 DEF StoreInv, FamiliesAreTogether, Related, Current
  <2>2. CASE db[Current][s] = Nothing
    <3>1. s \in Searchable(Current)
      BY <1>1, <2>2, FindIsTyped
    <3>2. t \in Searchable(Current)
      BY <1>1, <3>1, FindIsTyped DEF StoreInv, ArchivesAreWhole, Known
    <3> QED BY <2>2, <3>2
  <2> QED BY <2>1, <2>2
<1> QED BY <1>2, <1>3, <1>4, <1>5, <1>6, <1>7, <1>8, <1>9, <1>10 DEF StoreInv, FindingStays

\* A session that no database and no archive has does not exist.
LEMMA UnbornIsNothing ==
  ASSUME DiskTypes, LayoutIsThere, NEW s \in Sessions, Unborn(s)
  PROVE  Kept(s) = Nothing /\ ~Present(s) /\ InArchives(s) = {} /\ Find(Current, s) = Nothing
<1>1. Find(Current, s) = Nothing
  BY FindIsTyped DEF Unborn, Find
<1>2. ~Present(s) /\ InArchives(s) = {}
  BY <1>1, FindIsTyped DEF Unborn, InArchives
<1> QED BY <1>1, <1>2 DEF Kept

\* An owner writes a session that is in the current database, or a new one
\* whose parent is.
LEMMA WritingKeepsStore ==
  ASSUME StoreInv, manifest' = manifest, archives' = archives,
         NEW s \in Sessions, NEW e \in Entries \ {Nothing},
         NEW c \in Catalogs, db' = [db EXCEPT ![Current] = c],
         c[s] = e, \A t \in Sessions : t # s => c[t] = db[Current][t],
         \/ db[Current][s] # Nothing
         \/ Unborn(s) /\ (Parent[s] # NoOne => db[Current][Parent[s]] # Nothing)
  PROVE  /\ StoreInv' /\ Current' = Current
         /\ Present(s)' /\ Kept(s)' = e
         /\ \A t \in Sessions : t # s => Kept(t)' = Kept(t) /\ (Present(t))' = Present(t)
         /\ \A t \in Sessions : InArchives(t)' = InArchives(t)
<1>1. DiskTypes /\ LayoutIsThere
  BY DEF StoreInv
<1>2. c[s] = e /\ e # Nothing /\ \A t \in Sessions : t # s => c[t] = db[Current][t]
  OBVIOUS
<1>3. /\ Current' = Current /\ Current \in Nat /\ Current \in DOMAIN db
      /\ DOMAIN db' = DOMAIN db /\ db'[Current] = c
      /\ \A g \in DOMAIN db : g # Current => db'[g] = db[g]
  BY <1>1, <1>2, FindIsTyped DEF Current
<1>4. DiskTypes' /\ LayoutIsThere'
  BY <1>1, <1>2, <1>3 DEF DiskTypes, LayoutIsThere, Searched, Current
<1>5. Current > 0 => Current - 1 \in DOMAIN db /\ Current - 1 # Current
  BY <1>1, <1>3, FindIsTyped
<1>6. /\ Find(Current, s)' = e
      /\ \A t \in Sessions : t # s => Find(Current, t)' = Find(Current, t)
  <2>1. Find(Current, s)' = e
    BY <1>2, <1>3 DEF Find
  <2>2. ASSUME NEW t \in Sessions, t # s PROVE Find(Current, t)' = Find(Current, t)
    <3>1. c[t] = db[Current][t] /\ db'[Current'] = c
      BY <1>2, <1>3, <2>2
    <3>2. CASE Current = 0
      BY <1>3, <3>1, <3>2 DEF Find
    <3>3. CASE Current # 0
      <4>1. Current' - 1 \in DOMAIN db /\ db'[Current' - 1] = db[Current - 1]
        BY <1>3, <1>5, <3>3
      <4> QED BY <1>3, <3>1, <3>3, <4>1 DEF Find
    <3> QED BY <3>2, <3>3
  <2> QED BY <2>1, <2>2
<1>7. \A t \in Sessions : InArchives(t)' = InArchives(t)
  BY DEF InArchives
<1>8. Present(s)' /\ \A t \in Sessions : t # s => (Present(t))' = Present(t)
  BY <1>1, <1>3, <1>4, <1>6 DEF Present, LayoutIsThere, Current
<1>9. Kept(s)' = e /\ \A t \in Sessions : t # s => Kept(t)' = Kept(t)
  BY <1>3, <1>6, <1>7, <1>8 DEF Kept, Current
<1>10. \A t \in Sessions : t \in Searchable(Current)' <=> t = s \/ t \in Searchable(Current)
  BY <1>3, <1>6 DEF Searchable
<1>11. ArchivesAreTrue'
  <2>1. Current \notin DOMAIN archives
    BY <1>1, <1>3 DEF DiskTypes
  <2> QED BY <1>3, <2>1 DEF StoreInv, ArchivesAreTrue
<1>12. \A t \in Sessions : Known(t)' <=> t = s \/ Known(t)
  BY <1>7, <1>8 DEF Known
<1>13. CASE db[Current][s] # Nothing
  <2>1. Present(s) /\ s \in Searchable(Current)
    BY <1>1, <1>13, FindIsTyped
  <2>2. \A t \in Sessions : /\ t \in Searchable(Current)' <=> t \in Searchable(Current)
                            /\ Known(t)' <=> Known(t)
                            /\ c[t] # Nothing <=> db[Current][t] # Nothing
    BY <1>2, <1>10, <1>12, <1>13, <2>1 DEF Known
  <2>3. ArchivesAreWhole' /\ AncestorsExist'
    BY <1>7, <2>2, AncestorsAreSessions DEF StoreInv, ArchivesAreWhole, AncestorsExist, Related
  <2>4. FamiliesAreTogether'
    BY <1>3, <2>2 DEF StoreInv, FamiliesAreTogether, Related, Current
  <2> QED BY <1>3, <1>4, <1>7, <1>8, <1>9, <1>11, <2>3, <2>4 DEF StoreInv
<1>14. CASE Unborn(s) /\ (Parent[s] # NoOne => db[Current][Parent[s]] # Nothing)
  <2>1. ~Known(s)
    BY <1>1, <1>14, UnbornIsNothing DEF Known
  <2>2. \A t \in Sessions : db[Current][t] # Nothing => Known(t) /\ t \in Searchable(Current)
    BY <1>1, FindIsTyped DEF Known
  \* who is of its family is in the current database, as the parent is
  <2>3. ASSUME NEW t \in Sessions, t # s, Related(s, t), Known(t)
        PROVE  db[Current][t] # Nothing
    <3>1. s \notin Ancestors[t]
      BY <2>1, <2>3 DEF StoreInv, AncestorsExist
    <3>2. Parent[s] # NoOne /\ Related(Parent[s], t)
      BY <2>3, <3>1, ChildIsRelated
    <3>3. Parent[s] \in Sessions /\ db[Current][Parent[s]] # Nothing
      BY <1>14, <3>2, AncestorsOfChild
    <3> QED BY <2>3, <3>2, <3>3 DEF StoreInv, FamiliesAreTogether
  <2>4. FamiliesAreTogether'
    <3> SUFFICES ASSUME NEW x \in Sessions, NEW t \in Sessions, c[x] # Nothing,
                        Related(x, t), Known(t)'
                 PROVE  c[t] # Nothing
      BY <1>3 DEF FamiliesAreTogether, Related, Current
    <3>1. CASE t = s
      BY <1>2, <3>1
    <3>2. CASE t # s /\ x = s
      BY <1>2, <1>12, <2>3, <3>2
    <3>3. CASE t # s /\ x # s
      BY <1>2, <1>12, <3>3 DEF StoreInv, FamiliesAreTogether
    <3> QED BY <3>1, <3>2, <3>3
  <2>5. ArchivesAreWhole'
    <3> SUFFICES ASSUME NEW x \in Sessions, NEW t \in Sessions, x = s \/ x \in Searchable(Current),
                        Related(x, t), InArchives(t) # {}
                 PROVE  t = s \/ t \in Searchable(Current)
      BY <1>7, <1>10 DEF ArchivesAreWhole, Related
    <3> QED BY <2>2, <2>3 DEF StoreInv, ArchivesAreWhole, Known
  <2>6. AncestorsExist'
    <3> SUFFICES ASSUME NEW t \in Sessions, t = s \/ Known(t), NEW a \in Ancestors[t]
                 PROVE  a = s \/ Known(a)
      BY <1>12, AncestorsAreSessions DEF AncestorsExist
    <3>1. CASE t # s
      BY <3>1 DEF StoreInv, AncestorsExist
    <3>2. CASE t = s /\ a # s
      <4>1. Parent[s] \in Sessions /\ a \in Ancestors[Parent[s]] /\ Parent[s] # NoOne
        BY <3>2, AncestorsOfChild
      <4> QED BY <1>14, <2>2, <4>1 DEF StoreInv, AncestorsExist
    <3> QED BY <3>1, <3>2
  <2> QED BY <1>3, <1>4, <1>7, <1>8, <1>9, <1>11, <2>4, <2>5, <2>6 DEF StoreInv
<1> QED BY <1>13, <1>14

\* Of some generations below n one is the last.
LEMMA LeastNumber ==
  ASSUME NEW S \in SUBSET Nat, S # {}
  PROVE  \E x \in S : \A y \in S : x <= y
<1> DEFINE R == OpToRel(<, Nat)
<1>1. IsWellFoundedOn(R, Nat)
  BY NatLessThanWellFounded
<1>2. \A x, y \in Nat : y < x => <<y, x>> \in R
  BY DEF OpToRel
<1> HIDE DEF R
<1>3. PICK x \in S : \A y \in S : <<y, x>> \notin R
  BY <1>1, WFMin
<1>4. ASSUME NEW y \in S PROVE x <= y
  <2>1. x \in Nat /\ y \in Nat /\ ~(y < x)
    BY <1>2, <1>3
  <2> QED BY <2>1
<1> QED BY <1>4

\* The last of some earlier generations.
LEMMA LastGeneration ==
  ASSUME NEW n \in Nat, NEW S, S # {}, \A g \in S : g \in Nat /\ g < n
  PROVE  Max(S) \in S /\ \A g \in S : g <= Max(S)
<1> DEFINE T == {n - g : g \in S}
<1>1. T \in SUBSET Nat /\ T # {}
  OBVIOUS
<1>2. PICK x \in T : \A y \in T : x <= y
  BY <1>1, LeastNumber
<1>3. PICK m \in S : x = n - m
  OBVIOUS
<1>4. \A g \in S : m >= g
  <2> TAKE g \in S
  <2>1. x <= n - g
    BY <1>2
  <2> QED BY <1>3, <2>1
<1>5. Max(S) \in S /\ \A g \in S : Max(S) >= g
  BY <1>4 DEF Max
<1> QED BY <1>5

\* An archive is made of the old database.
LEMMA ArchivingKeepsStore ==
  ASSUME StoreInv, manifest' = manifest, db' = db, Current > 0,
         archives' = With(archives, Current - 1, db[Current - 1])
  PROVE  /\ StoreInv' /\ Current' = Current /\ Current - 1 \in DOMAIN archives'
         /\ Searchable(Current)' = Searchable(Current)
         /\ \A s \in Sessions :
              /\ Find(Current, s)' = Find(Current, s)
              /\ Kept(s)' = Kept(s) /\ (Present(s))' = Present(s)
              /\ ~Present(s) => InArchives(s)' = InArchives(s)
         /\ \A s \in Sessions : Unborn(s) => Unborn(s)'
<1> DEFINE old == Current - 1
<1>1. /\ DiskTypes /\ LayoutIsThere /\ Current \in Nat
      /\ old \in Nat /\ old < Current /\ old \in DOMAIN db /\ db[old] \in Catalogs
  BY FindIsTyped DEF StoreInv
<1>2. /\ DOMAIN archives' = DOMAIN archives \cup {old} /\ archives'[old] = db[old]
      /\ \A g \in DOMAIN archives : g # old => archives'[g] = archives[g]
      /\ archives' = [g \in DOMAIN archives \cup {old} |->
                        IF g = old THEN db[old] ELSE archives[g]]
  BY DEF With, old
<1> HIDE DEF old
<1>3. \A g \in DOMAIN archives : g \in DOMAIN db => archives[g] = db[g]
  BY DEF StoreInv, ArchivesAreTrue
<1>4. Current' = Current /\ Searchable(Current)' = Searchable(Current)
      /\ \A s \in Sessions : Find(Current, s)' = Find(Current, s)
  BY DEF Current, Searchable, Find
<1>5. \A s \in Sessions : (Present(s))' = Present(s)
  BY DEF Present, Find, Searched
<1>6. DiskTypes'
  <2>1. DOMAIN archives' \subseteq {g \in Nat : g < Current}
    BY <1>1, <1>2 DEF DiskTypes
  <2>2. archives' \in [DOMAIN archives' -> Catalogs]
    BY <1>1, <1>2 DEF DiskTypes
  <2> QED BY <1>1, <1>4, <2>1, <2>2 DEF DiskTypes
<1>7. LayoutIsThere' /\ ArchivesAreTrue'
  BY <1>1, <1>2, <1>3 DEF LayoutIsThere, ArchivesAreTrue, Searched, Current
\* what it holds can still be found, or was archived before
<1>8. ASSUME NEW s \in Sessions, ~Present(s)
      PROVE  /\ InArchives(s)' = InArchives(s)
             /\ \A g \in InArchives(s) : archives'[g] = archives[g]
  <2>1. Find(Current, s) = Nothing
    BY <1>1, <1>8, FindIsTyped
  <2>2. db[old][s] = Nothing
    BY <1>1, <2>1 DEF Find, old
  <2>3. \A g \in InArchives(s) : g \in DOMAIN archives /\ g # old
    BY <1>1, <1>3, <2>2 DEF InArchives
  <2>4. \A g \in InArchives(s)' : g \in InArchives(s)
    BY <1>2, <2>2 DEF InArchives
  <2> QED BY <1>2, <2>3, <2>4 DEF InArchives
<1>9. ASSUME NEW s \in Sessions PROVE Kept(s)' = Kept(s)
  <2>1. CASE Present(s)
    BY <1>4, <1>5, <2>1 DEF Kept, Current
  <2>2. CASE ~Present(s) /\ InArchives(s) = {}
    BY <1>5, <1>8, <2>2 DEF Kept
  <2>3. CASE ~Present(s) /\ InArchives(s) # {}
    <3>1. \A g \in InArchives(s) : g \in Nat /\ g < Current
      BY <1>1 DEF InArchives, DiskTypes
    <3>2. Max(InArchives(s)) \in InArchives(s)
      BY <1>1, <2>3, <3>1, LastGeneration
    <3> QED BY <1>5, <1>8, <2>3, <3>2 DEF Kept
  <2> QED BY <2>1, <2>2, <2>3
<1>10. ASSUME NEW s \in Sessions, InArchives(s)' # {}
       PROVE  InArchives(s) # {} \/ s \in Searchable(Current)
  BY <1>1, <1>8, <1>10, FindIsTyped
<1>11. \A s \in Sessions : Known(s)' <=> Known(s)
  <2>1. \A s \in Sessions : InArchives(s) # {} => InArchives(s)' # {} \/ Present(s)
    BY <1>8
  <2> QED BY <1>1, <1>5, <1>10, <2>1, FindIsTyped DEF Known
<1>12. ArchivesAreWhole' /\ AncestorsExist' /\ FamiliesAreTogether'
  BY <1>4, <1>10, <1>11, AncestorsAreSessions
     DEF StoreInv, ArchivesAreWhole, AncestorsExist, FamiliesAreTogether, Related, Current
<1>13. ASSUME NEW s \in Sessions, Unborn(s) PROVE Unborn(s)'
  BY <1>1, <1>2, <1>13 DEF Unborn
<1> QED BY <1>2, <1>4, <1>5, <1>6, <1>7, <1>8, <1>9, <1>12, <1>13 DEF StoreInv, old

\* The sessions that leave when the next database becomes the current one.
Leaving == {s \in Searchable(Current) : db[Current][s] = Nothing /\ db[Current + 1][s] = Nothing}

\* The manifest names the next database, which holds whole families and the
\* sessions of every process that runs; the old one is in an archive.
LEMMA SwitchingKeepsStore ==
  ASSUME StoreInv, db' = db, archives' = archives,
         manifest' \in [state : {"Ready", "Retiring"}, current : {Current + 1}],
         Current + 1 \in DOMAIN db,
         Current > 0 => Current - 1 \in DOMAIN archives,
         \A s \in Sessions : db[Current + 1][s] \in {Nothing, Find(Current, s)},
         \A s, t \in Searchable(Current) :
           Related(s, t) /\ db[Current + 1][s] # Nothing => db[Current + 1][t] # Nothing
  PROVE  /\ StoreInv' /\ Current' = Current + 1
         /\ \A s \in Sessions : /\ Kept(s)' = Kept(s) /\ InArchives(s)' = InArchives(s)
                                /\ Present(s)' <=> Present(s) /\ s \notin Leaving
                                /\ s \in Leaving => InArchives(s) # {}
         /\ \A s \in Leaving, t \in Sessions : Related(s, t) /\ Present(t) => t \in Leaving
<1> DEFINE next == Current + 1
<1>1. /\ DiskTypes /\ LayoutIsThere /\ Current \in Nat /\ next \in Nat /\ next > 0
      /\ next - 1 = Current /\ Current' = next /\ next \in DOMAIN db /\ db[next] \in Catalogs
      /\ Current \in DOMAIN db
  BY FindIsTyped DEF StoreInv, DiskTypes, Current
<1>2. \A s \in Sessions : db[next][s] \in {Nothing, Find(Current, s)}
  OBVIOUS
<1> DEFINE found(s) == IF db[next][s] # Nothing THEN db[next][s] ELSE db[Current][s]
<1>3. \A s \in Sessions : Find(Current, s)' = found(s)
  BY <1>1 DEF Find
<1>4. Leaving \subseteq Searchable(Current)
      /\ \A s \in Sessions : s \in Leaving <=>
           s \in Searchable(Current) /\ db[Current][s] = Nothing /\ db[next][s] = Nothing
  BY DEF Leaving, Searchable
<1> HIDE DEF next
<1>5. \A s \in Sessions : Present(s) => (s \in Leaving \/ found(s) = Find(Current, s))
  BY <1>1, <1>2, <1>4, FindIsTyped
<1>6. DiskTypes' /\ LayoutIsThere' /\ ArchivesAreTrue'
  <2>1. DiskTypes'
    BY <1>1 DEF DiskTypes, Current
  <2>2. LayoutIsThere'
    BY <1>1 DEF LayoutIsThere, Searched
  <2> QED BY <2>1, <2>2 DEF StoreInv, ArchivesAreTrue
<1>7. ASSUME NEW s \in Sessions PROVE Present(s)' <=> Present(s) /\ s \notin Leaving
  <2>1. Present(s)' <=> found(s) # Nothing
    BY <1>1, <1>3, <1>6 DEF Present, LayoutIsThere, Current
  <2>2. found(s) # Nothing => Find(Current, s) # Nothing
    BY <1>1, <1>2, FindIsTyped
  <2> QED BY <1>1, <1>4, <1>5, <2>1, <2>2, FindIsTyped
<1>8. \A s \in Sessions : InArchives(s)' = InArchives(s)
  BY DEF InArchives
<1>9. ASSUME NEW s \in Leaving PROVE InArchives(s) # {} /\ Kept(s)' = Kept(s)
  <2> DEFINE old == Current - 1
  <2>1. s \in Sessions /\ db[Current][s] = Nothing /\ Find(Current, s) # Nothing
    BY <1>1, <1>4, FindIsTyped DEF Searchable
  <2>2. /\ Current > 0 /\ Find(Current, s) = db[old][s]
        /\ old \in DOMAIN db /\ old \in Nat /\ old < Current
    BY <1>1, <2>1, FindIsTyped DEF Find
  <2>3. old \in DOMAIN archives /\ archives[old] = db[old]
    BY <2>2 DEF StoreInv, ArchivesAreTrue
  <2>4. old \in InArchives(s) /\ \A g \in InArchives(s) : g \in Nat /\ g < Current
    BY <1>1, <2>1, <2>2, <2>3 DEF InArchives, DiskTypes
  <2>5. Max(InArchives(s)) = old
    <3>1. Max(InArchives(s)) \in InArchives(s) /\ \A g \in InArchives(s) : g <= Max(InArchives(s))
      BY <1>1, <2>4, LastGeneration
    <3> QED BY <1>1, <2>2, <2>4, <3>1
  <2>6. ~Present(s)' /\ Present(s)
    BY <1>1, <1>7, <1>9, <2>1, FindIsTyped
  <2> HIDE DEF old
  <2> QED BY <1>8, <2>1, <2>2, <2>3, <2>4, <2>5, <2>6 DEF Kept, Current
<1>10. ASSUME NEW s \in Sessions, s \notin Leaving PROVE Kept(s)' = Kept(s)
  <2>1. CASE Present(s)
    BY <1>1, <1>3, <1>5, <1>7, <1>10, <2>1 DEF Kept, Current
  <2>2. CASE ~Present(s)
    BY <1>7, <1>8, <2>2 DEF Kept
  <2> QED BY <2>1, <2>2
<1>11. ASSUME NEW s \in Leaving, NEW t \in Sessions, Related(s, t), Present(t)
       PROVE  t \in Leaving
  <2>1. s \in Sessions /\ s \in Searchable(Current) /\ t \in Searchable(Current)
    BY <1>1, <1>4, <1>11, FindIsTyped DEF Searchable
  <2>2. Related(t, s)
    BY <1>11, <2>1, FamiliesArePartition
  <2>3. db[next][t] = Nothing
    BY <1>4, <2>1, <2>2 DEF next
  <2>4. db[Current][t] = Nothing
    BY <1>1, <1>4, <2>1, <2>2, FindIsTyped DEF StoreInv, FamiliesAreTogether, Known
  <2> QED BY <1>4, <2>1, <2>3, <2>4
<1>12. \A s \in Sessions : Known(s)' <=> Known(s)
  BY <1>1, <1>4, <1>7, <1>8, <1>9, FindIsTyped DEF Known
<1>13. \A s \in Sessions : s \in Searchable(Current)' <=> Present(s)'
  <2>1. LayoutIsThere'
    BY <1>6
  <2> QED BY <2>1 DEF Searchable, Present, LayoutIsThere, Current
<1>14. ArchivesAreWhole'
  <2> SUFFICES ASSUME NEW s \in Sessions, NEW t \in Sessions, Present(s)', Related(s, t),
                      InArchives(t) # {}
               PROVE  Present(t)'
    BY <1>8, <1>13 DEF ArchivesAreWhole, Related
  <2>1. s \in Searchable(Current) /\ s \notin Leaving /\ t \in Searchable(Current)
    BY <1>1, <1>7, FindIsTyped DEF StoreInv, ArchivesAreWhole
  <2>2. t \notin Leaving
    BY <1>1, <1>7, <1>11, <2>1, FamiliesArePartition
  <2> QED BY <1>1, <1>7, <2>1, <2>2, FindIsTyped
<1>15. AncestorsExist'
  BY <1>12, AncestorsAreSessions DEF StoreInv, AncestorsExist
<1>16. FamiliesAreTogether'
  <2> SUFFICES ASSUME NEW s \in Sessions, NEW t \in Sessions, db[next][s] # Nothing,
                      Related(s, t), Known(t)
               PROVE  db[next][t] # Nothing
    BY <1>1, <1>12 DEF FamiliesAreTogether, Related
  <2>1. s \in Searchable(Current)
    BY <1>1, <1>2, FindIsTyped
  <2>2. t \in Searchable(Current)
    BY <1>1, <2>1, FindIsTyped DEF StoreInv, ArchivesAreWhole, Known
  <2> QED BY <2>1, <2>2 DEF next
<1> QED BY <1>1, <1>6, <1>7, <1>8, <1>9, <1>10, <1>11, <1>14, <1>15, <1>16 DEF StoreInv, next

-----------------------------------------------------------------------------
(* The processes.                                                          *)

\* What a step of p may do to the files while others work.
OthersAreSafe(p) ==
  /\ \A q \in Procs, s \in Sessions :
       q # p /\ proc[q].op = "create" /\ proc[q].id = s => Unborn(s)'
  /\ \/ disk' = disk
     \/ proc[p].lock = "exclusive"
     \/ /\ proc[p].lock = "shared" /\ manifest' = manifest
        /\ \A s \in Sessions : db[Current][s] # Nothing => db'[Current][s] # Nothing

\* What a process asks for exists.
LEMMA RequestsAreSessions ==
  ASSUME NEW p \in Procs, Asks(p), proc[p].at \notin {"idle", "exited"}
  PROVE  RequestedSet(p) \subseteq Sessions /\ proc[p].id \in Sessions
BY GenerationsAssumption DEF Asks, RequestedSet, Requested

\* A step of one process leaves the others sound.
LEMMA OthersStaySound ==
  ASSUME WorkInv, NEW p \in Procs, NEW q \in Procs, q # p, OthersAreSafe(p),
         proc[p].at # "exited",
         \A r \in Procs : r # p => proc'[r] = proc[r] /\ cached'[r] = cached[r]
  PROVE  Sound(q)'
<1>1. /\ proc'[q] = proc[q] /\ cached'[q] = cached[q] /\ Sound(q)
      /\ proc[p].lock # "none" => proc[q].lock # "exclusive"
      /\ proc[p].lock = "exclusive" => proc[q].lock = "none"
      /\ proc[p].lock \in {"none", "shared", "exclusive"} /\ proc[q].at \in Outside \cup Writing \cup Recovering \cup Rotating
  BY DEF WorkInv, Apart, WorkTypes, Work
<1>2. Locked(q)' /\ Asks(q)'
  BY <1>1 DEF Sound, Locked, Asks, OthersAreSafe, Ops
<1>3. CASE disk' = disk
  <2>1. manifest' = manifest /\ db' = db /\ archives' = archives
    BY <1>3 DEF disk
  <2>2. Knows(q)' /\ HasMoved(q)' /\ Archived(q)'
    BY <1>1, <2>1 DEF Sound, Knows, HasMoved, Archived, Fresh, RequestedSet, Requested, Current
  <2>3. Active(Current)' \subseteq Active(Current)
    BY <1>1, <2>1 DEF Active, Searchable, Find, Running, At, Current
  <2>4. Copies(q)'
    <3>1. Chosen(q)' = Chosen(q) /\ Searchable(Current)' = Searchable(Current) /\ Current' = Current
      BY <1>1, <2>1 DEF Chosen, Searchable, Find, Current
    <3>2. \A s \in Sessions : Find(Current, s)' = Find(Current, s)
      BY <2>1 DEF Find, Current
    <3> QED BY <1>1, <2>1, <2>3, <3>1, <3>2 DEF Sound, Copies, Related
  <2> QED BY <1>2, <2>2, <2>4 DEF Sound
<1>4. CASE proc[q].lock = "none"
  <2>1. proc[q].at \in Outside
    BY <1>1, <1>4 DEF Sound, Locked
  <2> QED BY <1>1, <1>2, <2>1
      DEF Sound, Knows, HasMoved, Copies, Archived, Outside, Writing, Rotating
<1>5. CASE proc[p].lock = "shared" /\ proc[q].lock # "none" /\ disk' # disk
  <2>1. proc[q].at \in Writing
    BY <1>1, <1>5 DEF Sound, Locked
  <2>2. manifest' = manifest
        /\ \A s \in Sessions : db[Current][s] # Nothing => db'[Current][s] # Nothing
    BY <1>5 DEF OthersAreSafe
  <2>3. RequestedSet(q) \subseteq Sessions
    BY <1>1, <2>1, RequestsAreSessions DEF Sound, Writing
  <2>4. Knows(q)' /\ HasMoved(q)'
    BY <1>1, <2>1, <2>2, <2>3 DEF Sound, Knows, HasMoved, Fresh, RequestedSet, Requested, Current
  <2> QED BY <1>1, <1>2, <2>1, <2>4 DEF Sound, Copies, Archived, Writing
<1> QED BY <1>1, <1>3, <1>4, <1>5 DEF OthersAreSafe

\* What a step of p must do to its own work.
LEMMA StepKeepsWork ==
  ASSUME WorkInv, NEW p \in Procs, OthersAreSafe(p), proc[p].at # "exited", Sound(p)',
         NEW w \in Work, NEW k \in Int,
         proc' = [proc EXCEPT ![p] = w], cached' = [cached EXCEPT ![p] = k],
         \/ w.lock \in {"none", proc[p].lock}
         \/ w.lock = "shared" /\ Shareable
         \/ Unlocked,
         \/ w.op = "none"
         \/ w.op = proc[p].op /\ w.id = proc[p].id
         \/ w.op = "create" => \A q \in Procs : ~(proc[q].op = "create" /\ proc[q].id = w.id)
  PROVE  WorkInv'
<1>1. /\ proc' \in [Procs -> Work] /\ cached' \in [Procs -> Int]
      /\ proc'[p] = w /\ \A r \in Procs : r # p => proc'[r] = proc[r] /\ cached'[r] = cached[r]
  BY DEF WorkInv, WorkTypes
<1>2. \A q \in Procs : Sound(q)'
  BY <1>1, OthersStaySound
<1>3. w.lock \in {"none", "shared", "exclusive"}
  BY DEF Work
<1>4. Apart'
  <2> SUFFICES ASSUME NEW q \in Procs, NEW r \in Procs, q # r
               PROVE  /\ proc'[q].lock = "exclusive" => proc'[r].lock = "none"
                      /\ proc'[q].op = "create" /\ proc'[r].op = "create"
                           => proc'[q].id # proc'[r].id
    BY DEF Apart
  <2>1. CASE q # p /\ r # p
    BY <1>1, <2>1 DEF WorkInv, Apart
  <2>2. CASE q = p
    BY <1>1, <1>3, <2>2 DEF WorkInv, Apart, Unlocked
  <2>3. CASE r = p
    BY <1>1, <1>3, <2>3 DEF WorkInv, Apart, Unlocked, Shareable
  <2> QED BY <2>1, <2>2, <2>3
<1> QED BY <1>1, <1>2, <1>4 DEF WorkInv, WorkTypes

-----------------------------------------------------------------------------
(* Steps that change no file.                                              *)

NobodyExits == \A p \in Procs : proc'[p].at = "exited" <=> proc[p].at = "exited"

\* Nothing of what the store promises changes.
Unseen ==
  /\ Alive' = Alive
  /\ \A s \in Sessions : Kept(s)' = Kept(s) /\ (s \in Unsearchable' <=> s \in Unsearchable)

\* A step that shows a reader nothing is a stutter of the abstract store.
LEMMA UnseenIsStutter == Unseen => UNCHANGED Durable!vars
<1> SUFFICES ASSUME Unseen PROVE UNCHANGED Durable!vars
  OBVIOUS
<1>1. Unsearchable' = Unsearchable
  BY DEF Unseen, Unsearchable
<1>2. [s \in Sessions |-> Kept(s)]' = [s \in Sessions |-> Kept(s)]
  BY DEF Unseen
<1> QED BY <1>1, <1>2 DEF Unseen, Durable!vars

\* The processes are the same unless one exits.
LEMMA SameProcessesLive ==
  ASSUME NobodyExits
  PROVE  Alive' = Alive
BY DEF NobodyExits, Alive, Running, At

\* A step that changes no file.
LEMMA FilesStay ==
  ASSUME GenerationsInv, NEW p \in Procs, disk' = disk
  PROVE  /\ StoreInv' /\ OthersAreSafe(p)
         /\ \A s \in Sessions : Kept(s)' = Kept(s) /\ (s \in Unsearchable' <=> s \in Unsearchable)
         /\ \A s : Unborn(s)' <=> Unborn(s)
<1>1. manifest' = manifest /\ db' = db /\ archives' = archives
  BY DEF disk
<1>2. LayoutStays /\ DiskTypes'
  BY <1>1 DEF LayoutStays, GenerationsInv, StoreInv, DiskTypes, LayoutIsThere, Current
<1>3. StoreInv' /\ StoreStays
  BY <1>2, LayoutKeepsStore DEF GenerationsInv
<1>4. \A s : Unborn(s)' <=> Unborn(s)
  BY <1>1 DEF Unborn
<1>5. OthersAreSafe(p)
  <2>1. \A q \in Procs : proc[q].op = "create" => Unborn(proc[q].id)
    BY DEF GenerationsInv, WorkInv, Sound, Asks
  <2> QED BY <1>4, <2>1 DEF OthersAreSafe
<1> QED BY <1>3, <1>4, <1>5 DEF StoreStays, Unsearchable

\* A step of p that changes no file and takes it where it needs nothing of
\* them but the layout.
LEMMA QuietStep ==
  ASSUME GenerationsInv, NEW p \in Procs, disk' = disk, proc[p].at # "exited",
         NEW w \in Work, NEW k \in Int,
         proc' = [proc EXCEPT ![p] = w], cached' = [cached EXCEPT ![p] = k],
         \/ w.lock \in {"none", proc[p].lock}
         \/ w.lock = "shared" /\ Shareable
         \/ Unlocked,
         \/ w.op = "none"
         \/ w.op = proc[p].op /\ w.id = proc[p].id
         \/ w.op = "create" => \A q \in Procs : ~(proc[q].op = "create" /\ proc[q].id = w.id),
         Locked(p)', Asks(p)', w.at \notin {"moved", "copy", "archived"},
         w.at \in Writing \cup Rotating => manifest.state = "Ready" /\ k = Current
  PROVE  /\ GenerationsInv'
         /\ w.at # "exited" => Unseen
<1>1. proc'[p] = w /\ cached'[p] = k /\ manifest' = manifest
      /\ \A q \in Procs : q # p => proc'[q] = proc[q]
  BY DEF GenerationsInv, WorkInv, WorkTypes, disk
<1>2. StoreInv' /\ OthersAreSafe(p)
      /\ \A s \in Sessions : Kept(s)' = Kept(s) /\ (s \in Unsearchable' <=> s \in Unsearchable)
  BY FilesStay
<1>3. Sound(p)'
  BY <1>1 DEF Sound, Knows, Fresh, HasMoved, Copies, Archived, Current
<1>4. WorkInv'
  BY <1>2, <1>3, StepKeepsWork DEF GenerationsInv
<1>5. w.at # "exited" => NobodyExits
  BY <1>1 DEF NobodyExits
<1> QED BY <1>2, <1>4, <1>5, SameProcessesLive DEF GenerationsInv, Unseen

\* What is known of a process that takes a step.
LEMMA WorkIsTyped ==
  ASSUME GenerationsInv, NEW p \in Procs
  PROVE  /\ proc[p] \in Work /\ cached[p] \in Int /\ proc \in [Procs -> Work]
         /\ cached = [cached EXCEPT ![p] = cached[p]]
         /\ Idle \in Work /\ Exited \in Work
         /\ Sound(p) /\ Current \in Nat /\ StoreInv /\ WorkInv
BY DEF GenerationsInv, WorkInv, WorkTypes, Work, Idle, Exited, Unopened, Outside,
       StoreInv, DiskTypes, Current

\* An operation that returns, or fails.
LEMMA ReturnIsQuiet ==
  ASSUME GenerationsInv, NEW p \in Procs, disk' = disk, cached' = cached,
         proc[p].at # "exited", Returns(p)
  PROVE  GenerationsInv' /\ Unseen
<1>1. Idle \in Work /\ Idle.at = "idle" /\ Idle.lock = "none" /\ Idle.op = "none"
  BY WorkIsTyped DEF Idle
<1>2. proc'[p] = Idle
  BY WorkIsTyped DEF Returns
<1>3. Locked(p)' /\ Asks(p)'
  BY <1>1, <1>2 DEF Locked, Asks, Outside, Writing, Recovering, Rotating
<1> HIDE DEF Idle
<1>4. proc' = [proc EXCEPT ![p] = Idle] /\ cached' = [cached EXCEPT ![p] = cached[p]]
  BY WorkIsTyped DEF Returns
<1>5. Idle.at \notin Writing \cup Rotating \cup {"moved", "copy", "archived", "exited"}
  BY <1>1 DEF Writing, Rotating
<1> QED BY <1>1, <1>3, <1>4, <1>5, WorkIsTyped, QuietStep

\* A shared lock is taken, or waited for.
LEMMA SharesIsQuiet ==
  ASSUME GenerationsInv, NEW p \in Procs, proc[p].at # "exited",
         NEW request \in Work, Shares(p, request),
         request.lock = "none", request.op \in Ops, request.id \in Sessions,
         request.op = "claim" => Parent[request.id] = NoOne,
         request.op = "create" => Unborn(request.id),
         \/ request.op = proc[p].op /\ request.id = proc[p].id
         \/ request.op = "create" =>
              \A q \in Procs : ~(proc[q].op = "create" /\ proc[q].id = request.id)
  PROVE  GenerationsInv' /\ Unseen
<1> DEFINE w == IF Fresh(p) THEN [request EXCEPT !.at = "write", !.lock = "shared"]
                ELSE [request EXCEPT !.at = "wait", !.goal = "reload"]
<1>1. /\ w \in Work /\ w.op = request.op /\ w.id = request.id
      /\ \/ w.at = "write" /\ w.lock = "shared" /\ Fresh(p)
         \/ w.at = "wait" /\ w.lock = "none" /\ w.goal = "reload"
  BY DEF Work, Outside, Writing
<1>2. proc' = [proc EXCEPT ![p] = w] /\ disk' = disk /\ cached' = cached /\ Shareable
  BY DEF Shares, disk
<1> HIDE DEF w
<1>3. proc'[p] = w /\ archives' = archives /\ db' = db
  BY <1>2, WorkIsTyped DEF disk
<1>4. Locked(p)' /\ Asks(p)'
  BY <1>1, <1>3 DEF Locked, Asks, Outside, Writing, Recovering, Rotating, Unborn
<1>5. w.at = "write" => manifest.state = "Ready" /\ cached[p] = Current
  BY <1>1 DEF Fresh, Current
<1>6. /\ w.at \notin {"moved", "copy", "archived", "exited"}
      /\ w.at \in Writing \cup Rotating => w.at = "write"
  BY <1>1 DEF Writing, Rotating
<1>7. cached' = [cached EXCEPT ![p] = cached[p]] /\ cached[p] \in Int
  BY <1>2, WorkIsTyped
<1> QED BY <1>1, <1>2, <1>4, <1>5, <1>6, <1>7, QuietStep

\* An operation begins.
LEMMA BeginIsQuiet ==
  ASSUME GenerationsInv, NEW p \in Procs, NEW op \in Ops, NEW s \in Sessions, Begin(p, op, s)
  PROVE  GenerationsInv' /\ Unseen
<1> DEFINE request == [Idle EXCEPT !.op = op, !.id = s]
<1>1. /\ request \in Work /\ request.lock = "none" /\ request.op = op /\ request.id = s
      /\ Shares(p, request) /\ Eligible(p, op, s) /\ proc[p].at # "exited"
  BY WorkIsTyped DEF Begin, At, Idle, Work, Ops
<1>2. op = "claim" => Parent[s] = NoOne
  BY <1>1 DEF Eligible
<1>3. op = "create" => Unborn(s) /\ \A q \in Procs : ~(proc[q].op = "create" /\ proc[q].id = s)
  BY <1>1 DEF Eligible, Unborn
<1> HIDE DEF request
<1> QED BY <1>1, <1>2, <1>3, SharesIsQuiet

\* An operation is tried again after a migration.
LEMMA AgainIsQuiet ==
  ASSUME GenerationsInv, NEW p \in Procs, Again(p)
  PROVE  GenerationsInv' /\ Unseen
<1>1. /\ proc[p].at = "again" /\ Shares(p, proc[p]) /\ proc[p] \in Work
      /\ Locked(p) /\ Asks(p)
  BY WorkIsTyped DEF Again, At, Sound
<1>2. proc[p].lock = "none"
  BY <1>1 DEF Locked, Outside
<1> QED BY <1>1, <1>2, SharesIsQuiet DEF Asks

\* A process that goes on with its operation.
LEMMA AdvanceIsQuiet ==
  ASSUME GenerationsInv, NEW p \in Procs, disk' = disk,
         NEW w \in Work, NEW k \in Int,
         proc' = [proc EXCEPT ![p] = w], cached' = [cached EXCEPT ![p] = k],
         proc[p].at \notin {"idle", "exited"}, w.op = proc[p].op, w.id = proc[p].id,
         \/ w.at \in {"wait", "again"} /\ w.lock = "none"
              /\ w.goal \in {"reload", "full"}
         \/ w.at = "again" /\ w.lock = "none"
         \/ w.at \in {"locked", "rotate", "write", "open"} /\ w.lock = "exclusive",
         w.lock \in {"none", proc[p].lock} \/ Unlocked,
         w.at \in {"locked", "rotate", "write"} => manifest.state = "Ready" /\ k = Current
  PROVE  GenerationsInv' /\ Unseen
<1>1. proc'[p] = w /\ archives' = archives /\ db' = db /\ Asks(p)
  BY WorkIsTyped DEF disk, Sound
<1>2. Locked(p)' /\ Asks(p)'
  BY <1>1 DEF Locked, Asks, Outside, Writing, Recovering, Rotating, Unborn
<1>3. w.at \notin {"moved", "copy", "archived", "exited"}
      /\ (w.at \in Writing \cup Rotating => w.at \in {"locked", "rotate", "write"})
  BY DEF Writing, Rotating
<1> QED BY <1>2, <1>3, QuietStep

\* The map is full: the process gives the lock up to rotate.
LEMMA MapFullIsQuiet ==
  ASSUME GenerationsInv, NEW p \in Procs, MapFull(p)
  PROVE  GenerationsInv' /\ Unseen
<1>1. /\ disk' = disk /\ cached' = cached /\ cached' = [cached EXCEPT ![p] = cached[p]]
      /\ proc[p] \in Work /\ cached[p] \in Int /\ Sound(p)
      /\ proc[p].at \in {"write", "moved"}
  BY WorkIsTyped DEF MapFull, disk
<1>2. CASE Returns(p)
  BY <1>1, <1>2, ReturnIsQuiet
<1>3. CASE proc' = [proc EXCEPT ![p] = [@ EXCEPT !.at = "wait", !.lock = "none",
                                                 !.goal = "full", !.layout = cached[p]]]
  <2> DEFINE w == [proc[p] EXCEPT !.at = "wait", !.lock = "none", !.goal = "full",
                                  !.layout = cached[p]]
  <2>1. /\ w \in Work /\ w.at = "wait" /\ w.lock = "none" /\ w.goal = "full"
        /\ w.op = proc[p].op /\ w.id = proc[p].id
    BY <1>1 DEF Work, Outside
  <2>2. proc' = [proc EXCEPT ![p] = w]
    BY <1>3
  <2> HIDE DEF w
  <2> QED BY <1>1, <2>1, <2>2, AdvanceIsQuiet
<1>4. CASE Goes(p, "rotate") /\ proc[p].lock # "shared"
  <2> DEFINE w == [proc[p] EXCEPT !.at = "rotate"]
  <2>1. /\ w \in Work /\ w.at = "rotate" /\ w.lock = proc[p].lock
        /\ w.op = proc[p].op /\ w.id = proc[p].id
    BY <1>1 DEF Work, Rotating
  <2>2. proc' = [proc EXCEPT ![p] = w]
    BY <1>4 DEF Goes
  <2>3. proc[p].lock = "exclusive" /\ manifest.state = "Ready" /\ cached[p] = Current
    BY <1>1, <1>4 DEF Sound, Locked, Knows, Fresh, Writing, Current
  <2> HIDE DEF w
  <2> QED BY <1>1, <2>1, <2>2, <2>3, AdvanceIsQuiet
<1> QED BY <1>2, <1>3, <1>4 DEF MapFull

\* Opened: the catalog that an exclusive access asked for.
LEMMA OpenedIsQuiet ==
  ASSUME GenerationsInv, NEW p \in Procs, disk' = disk, NEW k \in Int,
         proc[p].at \in {"wait", "open"}, proc' = [proc EXCEPT ![p] = Opened(@)],
         cached' = [cached EXCEPT ![p] = k],
         manifest.state = "Ready" /\ k = Current,
         proc[p].at = "wait" => Unlocked
  PROVE  GenerationsInv' /\ Unseen
<1> DEFINE w == Opened(proc[p])
<1>1. /\ proc[p] \in Work /\ Sound(p) /\ proc' = [proc EXCEPT ![p] = w]
      /\ proc[p].at \notin {"idle", "exited"}
  BY WorkIsTyped
<1>2. /\ proc[p].at = "wait" => proc[p].goal \in {"reload", "full"}
      /\ proc[p].at = "open" => proc[p].lock = "exclusive"
  BY <1>1 DEF Sound, Locked, Recovering
<1>3. /\ w \in Work /\ w.op = proc[p].op /\ w.id = proc[p].id
      /\ \/ w.at = "again" /\ w.lock = "none"
         \/ w.at = "locked" /\ w.lock = "exclusive"
         \/ w.at = "write" /\ w.lock = proc[p].lock /\ w.lock = "exclusive"
  BY <1>1, <1>2 DEF Work, Opened, Outside, Rotating, Writing
<1>4. w.lock \in {"none", proc[p].lock} \/ Unlocked
  BY <1>2, <1>3
<1> HIDE DEF w
<1> QED BY <1>1, <1>3, <1>4, AdvanceIsQuiet

\* The exclusive lock is taken.
LEMMA LockIsQuiet ==
  ASSUME GenerationsInv, NEW p \in Procs, Lock(p)
  PROVE  GenerationsInv' /\ Unseen
<1>1. disk' = disk /\ proc[p].at = "wait" /\ Unlocked /\ proc[p] \in Work
  BY WorkIsTyped DEF Lock, At, disk
<1>2. CASE Fresh(p)
  <2>1. /\ proc' = [proc EXCEPT ![p] = Opened(@)] /\ cached' = [cached EXCEPT ![p] = cached[p]]
        /\ cached[p] \in Int /\ manifest.state = "Ready" /\ cached[p] = Current
    BY <1>2, WorkIsTyped DEF Lock, Fresh, Current
  <2> QED BY <1>1, <2>1, OpenedIsQuiet
<1>3. CASE ~Fresh(p)
  <2> DEFINE w == [proc[p] EXCEPT !.at = "open", !.lock = "exclusive"]
  <2>1. /\ w \in Work /\ w.at = "open" /\ w.lock = "exclusive"
        /\ w.op = proc[p].op /\ w.id = proc[p].id
    BY <1>1 DEF Work, Recovering
  <2>2. proc' = [proc EXCEPT ![p] = w] /\ cached' = [cached EXCEPT ![p] = Unopened]
    BY <1>3 DEF Lock
  <2>3. Unopened \in Int
    BY DEF Unopened
  <2> HIDE DEF w
  <2> QED BY <1>1, <2>1, <2>2, <2>3, AdvanceIsQuiet
<1> QED BY <1>2, <1>3

\* The catalog is opened, or cannot be.
LEMMA OpenIsQuiet ==
  ASSUME GenerationsInv, NEW p \in Procs, Open(p)
  PROVE  GenerationsInv' /\ Unseen
<1>1. disk' = disk /\ proc[p].at = "open" /\ manifest.state = "Ready" /\ Current \in Int
  BY WorkIsTyped DEF Open, At, disk
<1>2. CASE Returns(p) /\ UNCHANGED cached
  BY <1>1, <1>2, ReturnIsQuiet
<1>3. CASE cached' = [cached EXCEPT ![p] = manifest.current] /\ proc' = [proc EXCEPT ![p] = Opened(@)]
  BY <1>1, <1>3, OpenedIsQuiet DEF Current
<1> QED BY <1>2, <1>3 DEF Open

\* The process rotates, or finds that another one has.
LEMMA DecideIsQuiet ==
  ASSUME GenerationsInv, NEW p \in Procs, Decide(p)
  PROVE  GenerationsInv' /\ Unseen
<1>1. /\ disk' = disk /\ cached' = [cached EXCEPT ![p] = cached[p]] /\ cached[p] \in Int
      /\ proc[p].at = "locked" /\ proc[p] \in Work /\ Sound(p)
  BY WorkIsTyped DEF Decide, At, disk
<1>2. PICK at \in {"rotate", "write"} : Goes(p, at)
  BY DEF Decide
<1> DEFINE w == [proc[p] EXCEPT !.at = at]
<1>3. /\ w \in Work /\ w.at = at /\ w.lock = proc[p].lock
      /\ w.op = proc[p].op /\ w.id = proc[p].id
  BY <1>1 DEF Work, Rotating, Writing
<1>4. proc' = [proc EXCEPT ![p] = w]
  BY <1>2 DEF Goes
<1>5. proc[p].lock = "exclusive" /\ manifest.state = "Ready" /\ cached[p] = Current
  BY <1>1 DEF Sound, Locked, Knows, Fresh, Rotating, Current
<1> HIDE DEF w
<1> QED BY <1>1, <1>3, <1>4, <1>5, AdvanceIsQuiet

\* A rotation fails.
LEMMA RotationFailsIsQuiet ==
  ASSUME GenerationsInv, NEW p \in Procs, RotationFails(p)
  PROVE  GenerationsInv' /\ Unseen
BY ReturnIsQuiet DEF RotationFails, disk

\* A process that crashes is one less.
LEMMA CrashIsExit ==
  ASSUME GenerationsInv, NEW p \in Procs, Crash(p)
  PROVE  GenerationsInv' /\ Durable!Exit(p)
<1>1. /\ disk' = disk /\ proc[p].at # "exited" /\ proc \in [Procs -> Work]
      /\ Exited \in Work /\ Exited.at = "exited" /\ Exited.lock = "none" /\ Exited.op = "none"
  BY WorkIsTyped DEF Crash, At, Exited, Idle, disk
<1>2. proc' = [proc EXCEPT ![p] = Exited] /\ cached' = [cached EXCEPT ![p] = Unopened]
  BY DEF Crash
<1> HIDE DEF Exited
<1>3. proc'[p] = Exited /\ \A q \in Procs : q # p => proc'[q] = proc[q]
  BY <1>1, <1>2
<1>4. Locked(p)' /\ Asks(p)'
  BY <1>1, <1>3 DEF Locked, Asks, Outside, Writing, Recovering, Rotating
<1>5. Exited.at \notin Writing \cup Rotating \cup {"moved", "copy", "archived"} /\ Unopened \in Int
  BY <1>1 DEF Writing, Rotating, Unopened
<1>6. GenerationsInv'
  BY <1>1, <1>2, <1>4, <1>5, QuietStep
<1>7. Alive' = Alive \ {p} /\ p \in Alive
  BY <1>1, <1>3 DEF Alive, Running, At
<1>8. \A s \in Sessions : Kept(s)' = Kept(s) /\ (s \in Unsearchable' <=> s \in Unsearchable)
  BY <1>1, FilesStay
<1>9. [s \in Sessions |-> Kept(s)]' = [s \in Sessions |-> Kept(s)] /\ Unsearchable' = Unsearchable
  <2>1. Unsearchable' = Unsearchable
    BY <1>8 DEF Unsearchable
  <2> QED BY <1>8, <2>1
<1> QED BY <1>6, <1>7, <1>9 DEF Durable!Exit

-----------------------------------------------------------------------------
(* Steps that change files and nothing that can be seen.                   *)

\* A session that is to be created is not there yet.
LEMMA UnbornIsAsked ==
  ASSUME GenerationsInv, NEW q \in Procs, proc[q].op = "create"
  PROVE  Unborn(proc[q].id) /\ proc[q].id \in Sessions
BY WorkIsTyped DEF Sound, Asks

\* A step that keeps every session and what the archives have of it shows a reader nothing.
LEMMA StayingIsUnseen ==
  ASSUME NobodyExits,
         \A s \in Sessions : Kept(s)' = Kept(s) /\ (Present(s))' = Present(s)
                             /\ (~Present(s) => InArchives(s)' = InArchives(s))
  PROVE  Unseen
BY SameProcessesLive DEF Unseen, Unsearchable

\* A family moves to the current database.
LEMMA MoveIsUnseen ==
  ASSUME GenerationsInv, NEW p \in Procs, Move(p)
  PROVE  GenerationsInv' /\ Unseen
<1>1. /\ proc[p].at = "write" /\ proc[p] \in Work /\ Sound(p) /\ StoreInv /\ WorkInv
      /\ DiskTypes /\ LayoutIsThere
      /\ manifest' = manifest /\ archives' = archives /\ cached' = cached
      /\ cached' = [cached EXCEPT ![p] = cached[p]] /\ cached[p] \in Int
  BY WorkIsTyped DEF Move, At, StoreInv
<1>2. cached[p] = Current /\ proc[p].lock \in {"shared", "exclusive"} /\ Asks(p)
      /\ RequestedSet(p) \subseteq Sessions /\ proc[p].id \in Sessions
  BY <1>1, RequestsAreSessions DEF Sound, Knows, Locked, Fresh, Writing, Current
<1> DEFINE old == RequestedSet(p) \ {s \in Sessions : db[Current][s] # Nothing}
           c == [s \in Sessions |-> IF s \in Family(Current, old) /\ db[Current][s] = Nothing
                                    THEN Find(Current, s) ELSE db[Current][s]]
<1>3. CASE Returns(p) /\ UNCHANGED db
  BY <1>1, <1>3, ReturnIsQuiet DEF disk
<1>4. CASE /\ old \subseteq Searchable(Current)
           /\ db' = [db EXCEPT ![Current] = c] /\ Goes(p, "moved")
  <2>1. /\ old \subseteq Sessions
        /\ \A s \in Sessions : s \in Family(Current, old) <=>
             s \in Searchable(Current) /\ \E x \in old : Related(s, x)
    BY <1>2 DEF Family, Related, Searchable
  <2>2. c \in Catalogs
    BY <1>1, FindIsTyped DEF Catalogs
  <2>3. \A s \in Sessions : c[s] = IF s \in Family(Current, old) /\ db[Current][s] = Nothing
                                   THEN Find(Current, s) ELSE db[Current][s]
    OBVIOUS
  <2> HIDE DEF c
  <2>4. ASSUME NEW s \in Sessions, NEW t \in Sessions, c[s] # Nothing, db[Current][s] = Nothing,
               Related(s, t), t \in Searchable(Current)
        PROVE  c[t] # Nothing
    <3>1. s \in Family(Current, old)
      BY <2>3, <2>4
    <3>2. t \in Family(Current, old)
      <4>1. PICK x \in old : Related(s, x)
        BY <2>1, <3>1
      <4>2. Related(t, x)
        BY <2>1, <2>4, <4>1, FamiliesArePartition
      <4> QED BY <2>1, <2>4, <4>2
    <3> QED BY <1>1, <2>3, <2>4, <3>2, FindIsTyped
  <2>5. StoreInv' /\ FindingStays
    <3>1. \A s \in Sessions : \/ c[s] = db[Current][s]
                              \/ db[Current][s] = Nothing /\ c[s] = Find(Current, s)
      BY <2>3
    <3>2. \A s, t \in Sessions :
            c[s] # Nothing /\ db[Current][s] = Nothing /\ Related(s, t)
            /\ t \in Searchable(Current) => c[t] # Nothing
      BY <2>4
    <3>3. db' = [db EXCEPT ![Current] = c]
      BY <1>4
    <3> QED BY <1>1, <2>2, <3>1, <3>2, <3>3, FillingKeepsStore
  <2>6. db'[Current] = c /\ DOMAIN db' = DOMAIN db
        /\ \A g \in DOMAIN db : g # Current => db'[g] = db[g]
    BY <1>1, <1>4, FindIsTyped
  <2>7. \A s \in Sessions : Unborn(s) => Unborn(s)'
    <3> SUFFICES ASSUME NEW s \in Sessions, Unborn(s) PROVE Unborn(s)'
      OBVIOUS
    <3>1. c[s] = Nothing
      BY <1>1, <2>3, UnbornIsNothing, FindIsTyped DEF Unborn
    <3> QED BY <1>1, <2>6, <3>1 DEF Unborn
  <2>8. OthersAreSafe(p)
    <3>1. \A s \in Sessions : db[Current][s] # Nothing => db'[Current][s] # Nothing
      BY <2>3, <2>6
    <3> QED BY <1>1, <1>2, <2>7, <3>1, UnbornIsAsked DEF OthersAreSafe
  <2> DEFINE w == [proc[p] EXCEPT !.at = "moved"]
  <2>9. /\ w \in Work /\ w.at = "moved" /\ w.lock = proc[p].lock
        /\ w.op = proc[p].op /\ w.id = proc[p].id
    BY <1>1 DEF Work, Writing
  <2>10. proc' = [proc EXCEPT ![p] = w]
    BY <1>4 DEF Goes
  <2> HIDE DEF w
  <2>11. proc'[p] = w /\ \A q \in Procs : q # p => proc'[q] = proc[q]
    BY <2>10, WorkIsTyped
  <2>12. Locked(p)' /\ Asks(p)'
    BY <1>1, <1>2, <2>7, <2>9, <2>11
       DEF Sound, Locked, Asks, Writing, Outside, Recovering, Rotating
  <2>13. Knows(p)'
    BY <1>1 DEF Sound, Knows, Fresh, Writing
  <2>14. RequestedSet(p)' = RequestedSet(p)
    BY <2>9, <2>11 DEF RequestedSet, Requested
  <2>15. \A s \in RequestedSet(p) : c[s] # Nothing
    <3> SUFFICES ASSUME NEW s \in RequestedSet(p), db[Current][s] = Nothing PROVE c[s] # Nothing
      BY <1>2, <2>3
    <3>1. s \in old /\ s \in Searchable(Current) /\ s \in Sessions
      BY <1>2, <1>4
    <3>2. s \in Family(Current, old)
      BY <2>1, <3>1, FamiliesArePartition
    <3> QED BY <1>1, <2>3, <3>1, <3>2, FindIsTyped
  <2>16. HasMoved(p)'
    BY <1>1, <2>6, <2>14, <2>15 DEF HasMoved, Current
  <2>17. Sound(p)'
    BY <2>9, <2>11, <2>12, <2>13, <2>16 DEF Sound, Copies, Archived
  <2>18. WorkInv'
    BY <1>1, <2>8, <2>9, <2>10, <2>17, StepKeepsWork
  <2>19. NobodyExits
    BY <1>1, <2>9, <2>11 DEF NobodyExits
  <2> QED BY <2>5, <2>18, <2>19, StayingIsUnseen DEF GenerationsInv, FindingStays
<1> QED
  <2>1. \/ Returns(p) /\ UNCHANGED db
        \/ /\ old \subseteq Searchable(Current)
           /\ db' = [db EXCEPT ![Current] = c] /\ Goes(p, "moved")
    BY <1>2 DEF Move
  <2> QED BY <1>3, <1>4, <2>1

\* Steps under the lock that keep the layout.
LEMMA RotatingIsUnseen ==
  ASSUME GenerationsInv, NEW p \in Procs, proc[p].lock = "exclusive", proc[p].at # "exited",
         LayoutStays, DiskTypes', \A s \in Sessions : Unborn(s) => Unborn(s)',
         NEW w \in Work, proc' = [proc EXCEPT ![p] = w], cached' = cached,
         w.at # "exited", Sound(p)', w.lock \in {"none", "exclusive"},
         \/ w.op = "none"
         \/ w.op = proc[p].op /\ w.id = proc[p].id
  PROVE  GenerationsInv' /\ Unseen
<1>1. StoreInv' /\ StoreStays
  BY LayoutKeepsStore, WorkIsTyped
<1>2. OthersAreSafe(p)
  BY UnbornIsAsked DEF OthersAreSafe
<1>3. cached' = [cached EXCEPT ![p] = cached[p]] /\ cached[p] \in Int /\ WorkInv
      /\ proc \in [Procs -> Work]
  BY WorkIsTyped
<1>4. WorkInv'
  BY <1>2, <1>3, StepKeepsWork
<1>5. NobodyExits
  BY <1>3 DEF NobodyExits
<1> QED BY <1>1, <1>4, <1>5, StayingIsUnseen DEF GenerationsInv, StoreStays

\* A retired database is removed; its archive has all that it held.
LEMMA RemoveIsUnseen ==
  ASSUME GenerationsInv, NEW p \in Procs, RemoveRetired(p)
  PROVE  GenerationsInv' /\ Unseen
<1>1. /\ proc[p].at = "open" /\ proc[p] \in Work /\ Sound(p) /\ StoreInv
      /\ manifest.state = "Retiring" /\ cached' = cached
      /\ manifest' = manifest /\ archives' = archives /\ proc \in [Procs -> Work]
  BY WorkIsTyped DEF RemoveRetired, At
<1>2. proc[p].lock = "exclusive" /\ Asks(p)
  BY <1>1 DEF Sound, Locked, Recovering
<1>3. CASE Returns(p) /\ UNCHANGED db
  BY <1>1, <1>3, ReturnIsQuiet DEF disk
<1>4. CASE db' = Restrict(db, DOMAIN db \ {Retired(manifest.current)}) /\ Goes(p, "removed")
  <2> DEFINE gone == Current - 2
  <2>1. /\ DOMAIN db' = DOMAIN db \ {gone} /\ \A g \in DOMAIN db' : db'[g] = db[g]
        /\ db' = [g \in DOMAIN db \ {gone} |-> db[g]]
    BY <1>4 DEF Restrict, Retired, Current
  <2>2. Current \in Nat /\ gone \notin Searched(Current) /\ LayoutIsThere /\ DiskTypes
    BY <1>1, WorkIsTyped DEF Searched, StoreInv
  <2> HIDE DEF gone
  <2>3. LayoutStays
    BY <1>1, <2>1, <2>2 DEF LayoutStays, LayoutIsThere, Current
  <2>4. DiskTypes'
    BY <1>1, <2>1, <2>2 DEF DiskTypes, Current
  <2>5. \A s \in Sessions : Unborn(s) => Unborn(s)'
    BY <1>1, <2>1 DEF Unborn
  <2> DEFINE w == [proc[p] EXCEPT !.at = "removed"]
  <2>6. /\ w \in Work /\ w.at = "removed" /\ w.lock = "exclusive"
        /\ w.op = proc[p].op /\ w.id = proc[p].id
    BY <1>1, <1>2 DEF Work, Recovering
  <2>7. proc' = [proc EXCEPT ![p] = w]
    BY <1>4 DEF Goes
  <2> HIDE DEF w
  <2>8. proc'[p] = w
    BY <1>1, <2>7
  <2>9. Locked(p)' /\ Asks(p)'
    BY <1>1, <1>2, <2>5, <2>6, <2>8 DEF Locked, Asks, Outside, Writing, Recovering
  <2>10. Sound(p)'
    BY <2>6, <2>8, <2>9 DEF Sound, Knows, HasMoved, Copies, Archived, Writing, Rotating
  <2> QED BY <1>1, <1>2, <2>3, <2>4, <2>5, <2>6, <2>7, <2>10, RotatingIsUnseen
<1> QED BY <1>3, <1>4 DEF RemoveRetired

\* The manifest is ready again.
LEMMA SaveReadyIsUnseen ==
  ASSUME GenerationsInv, NEW p \in Procs, SaveReady(p)
  PROVE  GenerationsInv' /\ Unseen
<1>1. /\ proc[p].at = "removed" /\ proc[p] \in Work /\ Sound(p) /\ StoreInv
      /\ manifest' = [manifest EXCEPT !.state = "Ready"] /\ cached' = cached
      /\ db' = db /\ archives' = archives /\ proc \in [Procs -> Work]
  BY WorkIsTyped DEF SaveReady, At
<1>2. proc[p].lock = "exclusive" /\ Asks(p)
  BY <1>1 DEF Sound, Locked, Recovering
<1>3. LayoutIsThere /\ DiskTypes
  BY <1>1 DEF StoreInv
<1>4. LayoutStays
  BY <1>1, <1>3 DEF LayoutStays, LayoutIsThere, Current, DiskTypes
<1>5. DiskTypes'
  BY <1>1, <1>3 DEF DiskTypes, Current
<1>6. \A s \in Sessions : Unborn(s) => Unborn(s)'
  BY <1>1 DEF Unborn
<1> DEFINE w == [proc[p] EXCEPT !.at = "open"]
<1>7. /\ w \in Work /\ w.at = "open" /\ w.lock = "exclusive"
      /\ w.op = proc[p].op /\ w.id = proc[p].id
  BY <1>1, <1>2 DEF Work, Recovering
<1>8. proc' = [proc EXCEPT ![p] = w]
  BY DEF Goes, SaveReady
<1> HIDE DEF w
<1>9. proc'[p] = w
  BY <1>1, <1>8
<1>10. Locked(p)' /\ Asks(p)'
  BY <1>1, <1>2, <1>6, <1>7, <1>9 DEF Locked, Asks, Outside, Writing, Recovering
<1>11. Sound(p)'
  BY <1>7, <1>9, <1>10 DEF Sound, Knows, HasMoved, Copies, Archived, Writing, Rotating
<1> QED BY <1>1, <1>2, <1>4, <1>5, <1>6, <1>7, <1>8, <1>11, RotatingIsUnseen

\* What a process that rotates has.
LEMMA RotatingIsReady ==
  ASSUME GenerationsInv, NEW p \in Procs, proc[p].at \in {"rotate", "copy", "archived"}
  PROVE  /\ proc[p] \in Work /\ proc \in [Procs -> Work] /\ proc[p].lock = "exclusive"
         /\ Asks(p) /\ cached[p] = Current /\ manifest.state = "Ready" /\ Sound(p)
         /\ StoreInv /\ DiskTypes /\ LayoutIsThere /\ Current \in Nat
BY WorkIsTyped DEF Sound, Locked, Knows, Fresh, Rotating, Current, StoreInv

\* The next database is created.
LEMMA PrepareIsUnseen ==
  ASSUME GenerationsInv, NEW p \in Procs, Prepare(p)
  PROVE  GenerationsInv' /\ Unseen
<1>1. /\ proc[p] \in Work /\ proc \in [Procs -> Work] /\ proc[p].lock = "exclusive"
      /\ Asks(p) /\ cached[p] = Current /\ manifest.state = "Ready" /\ StoreInv
      /\ DiskTypes /\ LayoutIsThere /\ Current \in Nat /\ proc[p].at = "rotate"
      /\ manifest' = manifest /\ archives' = archives /\ cached' = cached
      /\ RequestedSet(p) \subseteq Sessions
  BY RotatingIsReady, RequestsAreSessions DEF Prepare, At
<1> DEFINE next == Current + 1
           chosen == Active(Current) \cup RequestedSet(p)
           fam == Family(Current, chosen)
<1>2. db' = With(db, next, Empty)
  BY <1>1 DEF Prepare
<1>3. /\ DOMAIN db' = DOMAIN db \cup {next} /\ db'[next] = Empty
      /\ \A g \in DOMAIN db : g # next => db'[g] = db[g]
      /\ db' = [g \in DOMAIN db \cup {next} |-> IF g = next THEN Empty ELSE db[g]]
  BY <1>2 DEF With
<1>4. LayoutStays
  BY <1>1, <1>3 DEF LayoutStays, LayoutIsThere, Searched, Current
<1>5. next \in Nat /\ next = Current + 1
  BY <1>1
<1>6. DiskTypes'
  <2> HIDE DEF next
  <2> QED BY <1>1, <1>3, <1>5, EntriesAreTyped DEF DiskTypes, Current
<1>7. \A s \in Sessions : Unborn(s) => Unborn(s)'
  BY <1>1, <1>3, EntriesAreTyped DEF Unborn
<1>8. StoreStays
  BY <1>1, <1>4, <1>6, LayoutKeepsStore
<1>9. CASE Returns(p)
  <2>1. proc'[p] = Idle /\ proc' = [proc EXCEPT ![p] = Idle]
        /\ Idle \in Work /\ Idle.at = "idle" /\ Idle.lock = "none" /\ Idle.op = "none"
    BY <1>1, <1>9, WorkIsTyped DEF Returns, Idle
  <2> HIDE DEF Idle
  <2>2. Sound(p)'
    BY <2>1 DEF Sound, Locked, Asks, Knows, HasMoved, Copies, Archived,
                Outside, Writing, Recovering, Rotating
  <2> QED BY <1>1, <1>4, <1>6, <1>7, <2>1, <2>2, RotatingIsUnseen
<1>10. CASE /\ chosen \subseteq Searchable(Current)
            /\ proc' = [proc EXCEPT ![p] = [@ EXCEPT !.at = "copy", !.todo = fam]]
  <2>1. /\ fam \subseteq Searchable(Current) /\ Searchable(Current) \subseteq Sessions
        /\ \A s \in Searchable(Current) : s \in fam <=> \E x \in chosen : Related(s, x)
    BY DEF Family, Related, Searchable
  <2>2. chosen \subseteq Sessions /\ chosen \subseteq fam
    BY <1>10, <2>1, FamiliesArePartition
  <2>3. \A s, t \in Searchable(Current) : Related(s, t) /\ s \in fam => t \in fam
    <3> SUFFICES ASSUME NEW s \in Searchable(Current), NEW t \in Searchable(Current),
                        Related(s, t), s \in fam
                 PROVE  t \in fam
      OBVIOUS
    <3>1. PICK x \in chosen : Related(s, x)
      BY <2>1
    <3>2. Related(t, x)
      BY <2>1, <2>2, <3>1, FamiliesArePartition
    <3> QED BY <2>1, <3>2
  <2>4. Active(Current) \subseteq fam
    BY <2>2
  <2> HIDE DEF fam, chosen, next
  <2> DEFINE w == [proc[p] EXCEPT !.at = "copy", !.todo = fam]
  <2>5. /\ w \in Work /\ w.at = "copy" /\ w.lock = "exclusive" /\ w.todo = fam
        /\ w.op = proc[p].op /\ w.id = proc[p].id
    BY <1>1, <2>1 DEF Work, Rotating
  <2>6. proc' = [proc EXCEPT ![p] = w]
    BY <1>10
  <2> HIDE DEF w
  <2>7. proc'[p] = w /\ \A q \in Procs : q # p => proc'[q] = proc[q]
    BY <1>1, <2>6
  <2>8. Locked(p)' /\ Asks(p)' /\ Knows(p)'
    BY <1>1, <1>7, <2>5, <2>7
       DEF Locked, Asks, Knows, Fresh, Outside, Writing, Recovering, Rotating, Current
  <2>9. Active(Current)' = Active(Current)
    <3>1. NobodyExits
      BY <1>1, <2>5, <2>7 DEF NobodyExits
    <3>2. \A o : Running(o)' <=> Running(o)
      BY <3>1 DEF NobodyExits, Running, At
    <3>3. \A s \in Searchable(Current) : s \in Sessions
      BY <2>1
    <3> QED BY <1>8, <3>2, <3>3 DEF Active, StoreStays
  <2>10. Chosen(p)' = fam
    BY <1>1, <1>3, <1>5, <1>8, <2>5, <2>7, EntriesAreTyped DEF Chosen, StoreStays
  <2>11. Copies(p)'
    <3>1. (Current + 1)' = next /\ next \in DOMAIN db' /\ proc'[p].todo = fam
      BY <1>3, <1>5, <1>8, <2>5, <2>7 DEF StoreStays
    <3>2. \A s \in Sessions : db'[next][s] = Nothing
      BY <1>3, EntriesAreTyped
    <3>3. Searchable(Current)' = Searchable(Current)
      BY <1>8 DEF StoreStays
    <3> QED BY <2>1, <2>3, <2>4, <2>9, <2>10, <3>1, <3>2, <3>3 DEF Copies, Related
  <2>12. Sound(p)'
    BY <2>5, <2>7, <2>8, <2>11 DEF Sound, HasMoved, Archived
  <2> QED BY <1>1, <1>4, <1>6, <1>7, <2>5, <2>6, <2>12, RotatingIsUnseen
<1> QED
  <2>1. \/ Returns(p)
        \/ /\ chosen \subseteq Searchable(Current)
           /\ proc' = [proc EXCEPT ![p] = [@ EXCEPT !.at = "copy", !.todo = fam]]
    BY <1>1 DEF Prepare
  <2> QED BY <1>9, <1>10, <2>1

\* A session is copied to the next database.
LEMMA CopyIsUnseen ==
  ASSUME GenerationsInv, NEW p \in Procs, Copy(p)
  PROVE  GenerationsInv' /\ Unseen
<1> DEFINE next == Current + 1
<1>1. /\ proc[p] \in Work /\ proc \in [Procs -> Work] /\ proc[p].lock = "exclusive"
      /\ Asks(p) /\ cached[p] = Current /\ manifest.state = "Ready" /\ StoreInv
      /\ DiskTypes /\ LayoutIsThere /\ Current \in Nat /\ proc[p].at = "copy"
      /\ manifest' = manifest /\ archives' = archives /\ cached' = cached
      /\ Copies(p) /\ next \in Nat /\ next \in DOMAIN db
  BY RotatingIsReady DEF Copy, At, Sound, Copies
<1>2. PICK s \in proc[p].todo : /\ db' = [db EXCEPT ![next][s] = Find(Current, s)]
                                /\ proc' = [proc EXCEPT ![p].todo = @ \ {s}]
  BY <1>1 DEF Copy
<1>3. /\ s \in Sessions /\ s \in Searchable(Current) /\ Find(Current, s) \in Entries
      /\ Find(Current, s) # Nothing /\ db[next] \in Catalogs
  BY <1>1, FindIsTyped DEF Copies, Work, Searchable, DiskTypes
<1> DEFINE c == [db[next] EXCEPT ![s] = Find(Current, s)]
<1>4. /\ c \in Catalogs /\ c[s] = Find(Current, s)
      /\ \A t \in Sessions : t # s => c[t] = db[next][t]
  BY <1>3 DEF Catalogs
<1>5. db' = [db EXCEPT ![next] = c]
  BY <1>2
<1> HIDE DEF c
<1>6. /\ DOMAIN db' = DOMAIN db /\ db'[next] = c
      /\ \A g \in DOMAIN db : g # next => db'[g] = db[g]
  BY <1>1, <1>5
<1>7. LayoutStays
  BY <1>1, <1>6 DEF LayoutStays, LayoutIsThere, Searched, Current
<1>8. DiskTypes'
  <2> HIDE DEF next
  <2> QED BY <1>1, <1>4, <1>5, <1>6 DEF DiskTypes, Current
<1>9. StoreStays
  BY <1>1, <1>7, <1>8, LayoutKeepsStore
<1>10. \A x \in Sessions : Unborn(x) => Unborn(x)'
  <2>1. ~Unborn(s)
    BY <1>1, <1>3, UnbornIsNothing
  <2> HIDE DEF next
  <2> QED BY <1>1, <1>4, <1>6, <2>1 DEF Unborn
<1> DEFINE w == [proc[p] EXCEPT !.todo = proc[p].todo \ {s}]
<1>11. /\ w \in Work /\ w.at = "copy" /\ w.lock = "exclusive" /\ w.todo = proc[p].todo \ {s}
       /\ w.op = proc[p].op /\ w.id = proc[p].id
  BY <1>1 DEF Work
<1>12. proc' = [proc EXCEPT ![p] = w]
  BY <1>2
<1> HIDE DEF w
<1>13. proc'[p] = w /\ \A q \in Procs : q # p => proc'[q] = proc[q]
  BY <1>1, <1>12
<1>14. Locked(p)' /\ Asks(p)' /\ Knows(p)'
  BY <1>1, <1>10, <1>11, <1>13
     DEF Locked, Asks, Knows, Fresh, Outside, Writing, Recovering, Rotating, Current
<1>15. Active(Current)' = Active(Current)
  <2>1. NobodyExits
    BY <1>1, <1>11, <1>13 DEF NobodyExits
  <2>2. \A o : Running(o)' <=> Running(o)
    BY <2>1 DEF NobodyExits, Running, At
  <2>3. \A x \in Searchable(Current) : x \in Sessions
    BY DEF Searchable
  <2> QED BY <1>9, <2>2, <2>3 DEF Active, StoreStays
<1>16. (Current + 1)' = next
  BY <1>9 DEF StoreStays
<1>17. Chosen(p)' = Chosen(p)
  <2>1. Chosen(p)' = (proc[p].todo \ {s}) \cup {x \in Sessions : c[x] # Nothing}
    BY <1>6, <1>11, <1>13, <1>16 DEF Chosen
  <2>2. {x \in Sessions : c[x] # Nothing} = {s} \cup {x \in Sessions : db[next][x] # Nothing}
    BY <1>3, <1>4
  <2> QED BY <2>1, <2>2 DEF Chosen
<1>18. Copies(p)'
  <2>1. \A x \in Sessions : c[x] \in {Nothing, Find(Current, x)}
    BY <1>1, <1>4 DEF Copies
  <2>2. \A x \in Sessions : Find(Current, x)' = Find(Current, x)
    BY <1>9 DEF StoreStays
  <2>3. Searchable(Current)' = Searchable(Current)
    BY <1>9 DEF StoreStays
  <2> HIDE DEF next
  <2> QED BY <1>1, <1>6, <1>11, <1>13, <1>15, <1>16, <1>17, <2>1, <2>2, <2>3 DEF Copies, Related
<1>19. Sound(p)'
  BY <1>11, <1>13, <1>14, <1>18 DEF Sound, HasMoved, Archived
<1> QED BY <1>1, <1>7, <1>8, <1>10, <1>11, <1>12, <1>19, RotatingIsUnseen

\* The database before the current one is archived.
LEMMA ArchiveIsUnseen ==
  ASSUME GenerationsInv, NEW p \in Procs, Archive(p)
  PROVE  GenerationsInv' /\ Unseen
<1>1. /\ proc[p] \in Work /\ proc \in [Procs -> Work] /\ proc[p].lock = "exclusive"
      /\ Asks(p) /\ cached[p] = Current /\ manifest.state = "Ready" /\ StoreInv
      /\ Current > 0 /\ proc[p].at = "copy" /\ proc[p].todo = {}
      /\ manifest' = manifest /\ db' = db /\ cached' = cached
      /\ archives' = With(archives, Current - 1, db[Current - 1]) /\ Copies(p)
  BY RotatingIsReady DEF Archive, At, Sound
<1>2. /\ StoreInv' /\ Current' = Current /\ Current - 1 \in DOMAIN archives'
      /\ Searchable(Current)' = Searchable(Current)
      /\ \A s \in Sessions :
           /\ Find(Current, s)' = Find(Current, s)
           /\ Kept(s)' = Kept(s) /\ (Present(s))' = Present(s)
           /\ ~Present(s) => InArchives(s)' = InArchives(s)
      /\ \A s \in Sessions : Unborn(s) => Unborn(s)'
  BY <1>1, ArchivingKeepsStore
<1> DEFINE w == [proc[p] EXCEPT !.at = "archived"]
<1>3. /\ w \in Work /\ w.at = "archived" /\ w.lock = "exclusive" /\ w.todo = {}
      /\ w.op = proc[p].op /\ w.id = proc[p].id
  BY <1>1 DEF Work, Rotating
<1>4. proc' = [proc EXCEPT ![p] = w]
  BY DEF Archive, Goes
<1> HIDE DEF w
<1>5. proc'[p] = w /\ \A q \in Procs : q # p => proc'[q] = proc[q]
  BY <1>1, <1>4
<1>6. Locked(p)' /\ Asks(p)' /\ Knows(p)' /\ Archived(p)'
  BY <1>1, <1>2, <1>3, <1>5
     DEF Locked, Asks, Knows, Fresh, Archived, Outside, Writing, Recovering, Rotating, Current
<1>7. NobodyExits
  BY <1>1, <1>3, <1>5 DEF NobodyExits
<1>8. Active(Current)' = Active(Current)
  <2>1. \A o : Running(o)' <=> Running(o)
    BY <1>7 DEF NobodyExits, Running, At
  <2>2. \A x \in Searchable(Current) : x \in Sessions
    BY DEF Searchable
  <2> QED BY <1>2, <2>1, <2>2 DEF Active
<1>9. Chosen(p)' = Chosen(p)
  BY <1>1, <1>2, <1>3, <1>5 DEF Chosen
<1>10. Copies(p)'
  <2>1. \A x \in Sessions : Find(Current, x)' = Find(Current, x)
    BY <1>2
  <2>2. Searchable(Current)' = Searchable(Current)
    BY <1>2
  <2> QED BY <1>1, <1>2, <1>3, <1>5, <1>8, <1>9, <2>1, <2>2 DEF Copies, Related
<1>11. Sound(p)'
  BY <1>3, <1>5, <1>6, <1>10 DEF Sound, HasMoved
<1>12. OthersAreSafe(p)
  BY <1>1, <1>2, UnbornIsAsked DEF OthersAreSafe
<1>13. cached' = [cached EXCEPT ![p] = cached[p]] /\ cached[p] \in Int /\ WorkInv
  BY <1>1, WorkIsTyped
<1>14. WorkInv'
  BY <1>1, <1>3, <1>4, <1>11, <1>12, <1>13, StepKeepsWork
<1> QED BY <1>2, <1>7, <1>14, StayingIsUnseen DEF GenerationsInv

-----------------------------------------------------------------------------
(* Steps that can be seen.                                                 *)

\* Families mean the same in both specifications.
LEMMA SameFamilies ==
  /\ \A s, t : Durable!Related(s, t) <=> Related(s, t)
BY DEF Durable!Related, Related, Durable!Ancestors, Ancestors, Durable!HasParents, HasParents

\* What the store promises exists, in the words of the abstract one.
LEMMA ExistsIsPresent ==
  ASSUME StoreInv, NEW s \in Sessions
  PROVE  /\ Durable!Exists(s) <=> Present(s)
         /\ Present(s) => Kept(s) = Find(Current, s) /\ Kept(s) \in Entries \ {Nothing}
         /\ Kept(s) # Nothing /\ Kept(s) \in Entries => Kept(s).version \in Nat \ {0}
<1>1. Present(s) => Kept(s) = Find(Current, s) /\ Kept(s) \in Entries \ {Nothing}
  BY FindIsTyped DEF StoreInv, Kept, Current
<1>2. Kept(s) # Nothing /\ Kept(s) \in Entries => Kept(s).version \in Nat \ {0}
  BY DEF Entries
<1>3. ~Present(s) /\ s \notin Unsearchable => Kept(s) = Nothing
  BY DEF Unsearchable, Kept
<1>4. s \in Unsearchable => ~Present(s)
  BY DEF Unsearchable
<1>5. Durable!Exists(s) <=> Kept(s).version > 0 /\ s \notin Unsearchable
  BY DEF Durable!Exists
<1> QED BY <1>1, <1>2, <1>3, <1>4, <1>5 DEF Nothing

\* The switch of the manifest retires what no process has open.
LEMMA SwitchIsRetire ==
  ASSUME GenerationsInv, NEW p \in Procs, Switch(p)
  PROVE  GenerationsInv' /\ (Unseen \/ Durable!Next)
<1>1. /\ proc[p] \in Work /\ proc \in [Procs -> Work] /\ proc[p].lock = "exclusive"
      /\ Asks(p) /\ cached[p] = Current /\ StoreInv /\ DiskTypes /\ LayoutIsThere
      /\ Current \in Nat /\ proc[p].at \in {"copy", "archived"} /\ proc[p].todo = {}
      /\ db' = db /\ archives' = archives /\ cached' = [cached EXCEPT ![p] = Unopened]
      /\ Copies(p) /\ Current + 1 \in DOMAIN db
      /\ Current > 0 => Current - 1 \in DOMAIN archives
  BY RotatingIsReady DEF Switch, At, Sound, Archived, Copies
<1>2. manifest' \in [state : {"Ready", "Retiring"}, current : {Current + 1}]
  BY <1>1 DEF Switch
<1>3. /\ \A s \in Sessions : db[Current + 1][s] \in {Nothing, Find(Current, s)}
      /\ \A s, t \in Searchable(Current) :
           Related(s, t) /\ db[Current + 1][s] # Nothing => db[Current + 1][t] # Nothing
      /\ \A s \in Active(Current) : db[Current + 1][s] # Nothing
  BY <1>1 DEF Copies, Chosen, Searchable
<1>4. /\ StoreInv' /\ Current' = Current + 1
      /\ \A s \in Sessions : /\ Kept(s)' = Kept(s) /\ InArchives(s)' = InArchives(s)
                             /\ Present(s)' <=> Present(s) /\ s \notin Leaving
                             /\ s \in Leaving => InArchives(s) # {}
      /\ \A s \in Leaving, t \in Sessions : Related(s, t) /\ Present(t) => t \in Leaving
  BY <1>1, <1>2, <1>3, SwitchingKeepsStore
<1> DEFINE w == [proc[p] EXCEPT !.at = "open", !.goal = "rotated"]
<1>5. /\ w \in Work /\ w.at = "open" /\ w.lock = "exclusive"
      /\ w.op = proc[p].op /\ w.id = proc[p].id
  BY <1>1 DEF Work, Recovering
<1>6. proc' = [proc EXCEPT ![p] = w]
  BY DEF Switch
<1> HIDE DEF w
<1>7. proc'[p] = w /\ \A q \in Procs : q # p => proc'[q] = proc[q]
  BY <1>1, <1>6
<1>8. \A s \in Sessions : Unborn(s) => Unborn(s)'
  BY <1>1 DEF Unborn
<1>9. Locked(p)' /\ Asks(p)'
  BY <1>1, <1>5, <1>7, <1>8 DEF Locked, Asks, Outside, Writing, Recovering, Rotating
<1>10. Sound(p)'
  BY <1>5, <1>7, <1>9 DEF Sound, Knows, HasMoved, Copies, Archived, Writing, Rotating
<1>11. OthersAreSafe(p)
  BY <1>1, <1>8, UnbornIsAsked DEF OthersAreSafe
<1>12. Unopened \in Int /\ WorkInv
  BY WorkIsTyped DEF Unopened
<1>13. WorkInv'
  BY <1>1, <1>5, <1>6, <1>10, <1>11, <1>12, StepKeepsWork
<1>14. NobodyExits
  BY <1>1, <1>5, <1>7 DEF NobodyExits
<1>15. Alive' = Alive
  BY <1>14, SameProcessesLive
<1>16. \A s \in Leaving : /\ s \in Sessions /\ Present(s) /\ s \notin Unsearchable
                          /\ Kept(s).owner \notin Alive
  <2> TAKE s \in Leaving
  <2>1. s \in Searchable(Current) /\ s \in Sessions /\ db[Current + 1][s] = Nothing
    BY DEF Leaving, Searchable
  <2>2. Present(s) /\ Kept(s) = Find(Current, s)
    BY <1>1, <2>1, FindIsTyped, ExistsIsPresent
  <2>3. ~Running(Find(Current, s).owner)
    BY <1>3, <2>1 DEF Active
  <2> QED BY <2>1, <2>2, <2>3 DEF Alive, Running, Unsearchable
<1>17. Unsearchable' = Unsearchable \cup Leaving
  <2>1. \A s \in Sessions : s \in Unsearchable' <=> s \in Unsearchable \/ s \in Leaving
    BY <1>4 DEF Unsearchable
  <2> QED BY <1>16, <2>1 DEF Unsearchable
<1>18. CASE Leaving = {}
  BY <1>4, <1>13, <1>15, <1>17, <1>18 DEF GenerationsInv, Unseen
<1>19. CASE Leaving # {}
  <2>1. \A s \in Leaving : Durable!Exists(s)
    BY <1>1, <1>16, ExistsIsPresent
  <2>2. \A s \in Leaving, t \in Sessions :
          Durable!Related(s, t) /\ Durable!Exists(t) => t \in Leaving
    BY <1>1, <1>4, SameFamilies, ExistsIsPresent
  <2>3. [s \in Sessions |-> Kept(s)]' = [s \in Sessions |-> Kept(s)]
    BY <1>4
  <2>4. \A s \in Leaving : [t \in Sessions |-> Kept(t)][s].owner \notin Alive
    BY <1>16
  <2>5. Durable!Retire(Leaving)
    BY <1>15, <1>17, <1>19, <2>1, <2>2, <2>3, <2>4 DEF Durable!Retire
  <2>6. Leaving \in SUBSET Sessions /\ Unsearchable' # Unsearchable
    BY <1>16, <1>17, <1>19
  <2> QED BY <1>4, <1>13, <2>5, <2>6 DEF GenerationsInv, Durable!Next
<1> QED BY <1>18, <1>19

\* A session in the current database, or a new one whose parent is there.
Writable(p) ==
  LET s == proc[p].id IN
  \/ db[Current][s] # Nothing
  \/ /\ Unborn(s) /\ proc[p].op = "create"
     /\ Parent[s] # NoOne => db[Current][Parent[s]] # Nothing

\* A step that saves e for session s and nothing else.
Saves(s, e) ==
  /\ GenerationsInv' /\ Alive' = Alive /\ Unsearchable' = Unsearchable
  /\ [t \in Sessions |-> Kept(t)]' = [[t \in Sessions |-> Kept(t)] EXCEPT ![s] = e]

\* A commit saves its session where a reader looks first.
LEMMA CommitWrites ==
  ASSUME GenerationsInv, NEW p \in Procs, Commit(p), NEW s \in Sessions, s = proc[p].id,
         NEW e \in Entries \ {Nothing},
         db' = [db EXCEPT ![Current][s] = e], Writable(p)
  PROVE  Saves(s, e)
<1>1. /\ proc[p].at = "moved" /\ proc[p] \in Work /\ proc \in [Procs -> Work] /\ Sound(p)
      /\ StoreInv /\ WorkInv /\ DiskTypes /\ LayoutIsThere
      /\ manifest' = manifest /\ archives' = archives /\ cached' = cached
      /\ cached' = [cached EXCEPT ![p] = cached[p]] /\ cached[p] \in Int /\ Returns(p)
  BY WorkIsTyped DEF Commit, At, StoreInv
<1>2. proc[p].lock \in {"shared", "exclusive"}
  BY <1>1 DEF Sound, Locked, Writing
<1> DEFINE c == [db[Current] EXCEPT ![s] = e]
<1>3. c \in Catalogs /\ c[s] = e /\ (\A t \in Sessions : t # s => c[t] = db[Current][t])
      /\ db' = [db EXCEPT ![Current] = c]
  BY <1>1, FindIsTyped DEF Catalogs
<1> HIDE DEF c
<1>4. /\ StoreInv' /\ Current' = Current
      /\ Present(s)' /\ Kept(s)' = e
      /\ \A t \in Sessions : t # s => Kept(t)' = Kept(t) /\ (Present(t))' = Present(t)
      /\ \A t \in Sessions : InArchives(t)' = InArchives(t)
  <2>1. \/ db[Current][s] # Nothing
        \/ Unborn(s) /\ (Parent[s] # NoOne => db[Current][Parent[s]] # Nothing)
    BY DEF Writable
  <2>2. s \in Sessions /\ e \in Entries \ {Nothing}
    OBVIOUS
  <2> QED BY ONLY <1>1, <1>3, <2>1, <2>2, WritingKeepsStore
<1>5. /\ DOMAIN db' = DOMAIN db /\ db'[Current] = c
      /\ \A g \in DOMAIN db : g # Current => db'[g] = db[g]
  BY <1>1, <1>3, FindIsTyped
<1>6. \A t \in Sessions : t # s /\ Unborn(t) => Unborn(t)'
  BY <1>1, <1>3, <1>5, FindIsTyped DEF Unborn
<1>7. \A q \in Procs : q # p /\ proc[q].op = "create" => proc[q].id # s
  <2> SUFFICES ASSUME NEW q \in Procs, q # p, proc[q].op = "create", proc[q].id = s
               PROVE  FALSE
    OBVIOUS
  <2>1. Unborn(s)
    BY UnbornIsAsked
  <2>2. db[Current][s] = Nothing
    BY <1>1, <2>1, FindIsTyped DEF Unborn
  <2> QED BY <1>1, <2>2 DEF WorkInv, Apart, Writable
<1>8. \A t \in Sessions : db[Current][t] # Nothing => db'[Current][t] # Nothing
  BY <1>3, <1>5
<1>9. OthersAreSafe(p)
  BY <1>1, <1>2, <1>6, <1>7, <1>8, UnbornIsAsked DEF OthersAreSafe
<1>10. proc'[p] = Idle /\ proc' = [proc EXCEPT ![p] = Idle]
       /\ Idle \in Work /\ Idle.at = "idle" /\ Idle.lock = "none" /\ Idle.op = "none"
  BY <1>1, WorkIsTyped DEF Returns, Idle
<1> HIDE DEF Idle
<1>11. Sound(p)'
  BY <1>10 DEF Sound, Locked, Asks, Knows, HasMoved, Copies, Archived,
               Outside, Writing, Recovering, Rotating
<1>12. WorkInv'
  BY <1>1, <1>9, <1>10, <1>11, StepKeepsWork
<1>13. NobodyExits
  BY <1>1, <1>10 DEF NobodyExits
<1>14. Kept(s) = db[Current][s] /\ (Present(s) \/ InArchives(s) = {})
  <2>1. CASE db[Current][s] # Nothing
    BY <1>1, <2>1, FindIsTyped, ExistsIsPresent
  <2>2. CASE Unborn(s)
    BY <1>1, <2>2, UnbornIsNothing, FindIsTyped DEF Unborn
  <2> QED BY <2>1, <2>2 DEF Writable
<1>15. Unsearchable' = Unsearchable
  BY <1>4, <1>14 DEF Unsearchable
<1>16. [t \in Sessions |-> Kept(t)]' = [[t \in Sessions |-> Kept(t)] EXCEPT ![s] = e]
  BY <1>4
<1> QED BY <1>4, <1>12, <1>13, <1>14, <1>15, <1>16, SameProcessesLive DEF GenerationsInv, Saves

\* So it is a write of the abstract store, or nothing.
LEMMA CommitIsWrite ==
  ASSUME GenerationsInv, NEW p \in Procs, Commit(p)
  PROVE  GenerationsInv' /\ (Unseen \/ Durable!Next)
<1>0. PICK s \in Sessions : s = proc[p].id
  BY WorkIsTyped DEF Commit, At, Sound, Asks
<1> DEFINE entry == db[Current][s]
           kept == [t \in Sessions |-> Kept(t)]
<1>1. /\ proc[p].at = "moved" /\ Sound(p) /\ StoreInv /\ DiskTypes /\ LayoutIsThere
      /\ cached[p] = Current /\ s \in Sessions /\ proc[p].op \in Ops /\ Asks(p)
      /\ cached' = cached /\ Returns(p) /\ manifest' = manifest /\ archives' = archives
      /\ \A u \in RequestedSet(p) : db[Current][u] # Nothing
  BY <1>0, WorkIsTyped DEF Commit, At, Sound, Knows, Fresh, Asks, HasMoved, Writing, Current, StoreInv
<1>2. p \in Alive /\ NoOne \notin Procs /\ entry \in Entries
  BY <1>1, FindIsTyped, GenerationsAssumption DEF Alive, Running, At, Catalogs
<1>3. CASE ~Allowed(p, entry)
  <2>1. disk' = disk
    BY <1>0, <1>1, <1>3 DEF Commit, disk
  <2> QED BY <1>1, <2>1, ReturnIsQuiet
<1>4. CASE Allowed(p, entry)
  <2>0. PICK e : e = Written(p, entry)
    OBVIOUS
  <2>1. db' = [db EXCEPT ![Current][s] = e]
    BY <1>0, <1>1, <1>4, <2>0 DEF Commit
  <2>2. CASE proc[p].op = "create"
    <3>1. e = [version |-> 1, owner |-> p] /\ e \in Entries \ {Nothing}
      BY <2>0, <2>2 DEF Written, Entries, Nothing
    <3>2. Unborn(s) /\ (Parent[s] # NoOne => db[Current][Parent[s]] # Nothing)
      BY <1>0, <1>1, <2>2 DEF Asks, RequestedSet, Requested
    <3>3. /\ GenerationsInv' /\ Alive' = Alive /\ Unsearchable' = Unsearchable
          /\ kept' = [kept EXCEPT ![s] = e]
      <4>1. Writable(p)
        BY <1>0, <2>2, <3>2 DEF Writable
      <4>2. Saves(s, e)
        BY <1>0, <2>1, <3>1, <4>1, CommitWrites
      <4> QED BY <4>2 DEF Saves
    <3>4. Kept(s) = Nothing /\ Nothing.version = 0
      BY <1>1, <3>2, UnbornIsNothing DEF Nothing
    <3>5. Parent[s] = NoOne \/ Durable!Exists(Parent[s])
      <4> SUFFICES ASSUME Parent[s] # NoOne PROVE Durable!Exists(Parent[s])
        OBVIOUS
      <4>1. Parent[s] \in Sessions
        BY <1>1, AncestorsOfChild
      <4> QED BY <1>1, <3>2, <4>1, FindIsTyped, ExistsIsPresent
    <3>6. Durable!Create(p, s)
      BY <1>1, <3>1, <3>3, <3>4, <3>5 DEF Durable!Create, Durable!Put
    <3>7. kept'[s] # kept[s]
      BY <1>1, <3>1, <3>3, <3>4
    <3> QED BY <1>1, <1>2, <3>3, <3>6, <3>7 DEF Durable!Next
  <2>3. CASE proc[p].op # "create"
    <3>1. entry # Nothing
      <4>1. CASE proc[p].op = "claim"
        BY <1>0, <1>1, <4>1, GenerationsAssumption DEF RequestedSet, Requested
      <4>2. CASE proc[p].op # "claim"
        BY <1>2, <1>4, <2>3, <4>2 DEF Allowed, Nothing
      <4> QED BY <4>1, <4>2
    <3>2. entry.version \in Nat \ {0} /\ entry.owner \in Procs \cup {NoOne}
          /\ entry = [version |-> entry.version, owner |-> entry.owner]
      BY <1>2, <3>1 DEF Entries
    <3>3. Present(s) /\ Kept(s) = entry /\ Durable!Exists(s) /\ kept[s] = entry
      BY <1>1, <3>1, FindIsTyped, ExistsIsPresent
    <3>4. ASSUME NEW v \in Nat \ {0}, NEW o \in Procs \cup {NoOne},
                 e = [version |-> v, owner |-> o]
          PROVE  /\ GenerationsInv' /\ Durable!Put(s, v, o)
                 /\ v # entry.version \/ o # entry.owner => kept'[s] # kept[s]
      <4>1. e \in Entries \ {Nothing}
        BY <3>4 DEF Entries, Nothing
      <4>2. /\ GenerationsInv' /\ Alive' = Alive /\ Unsearchable' = Unsearchable
            /\ kept' = [kept EXCEPT ![s] = e]
        <5>1. Writable(p)
          BY <1>0, <3>1 DEF Writable
        <5>2. Saves(s, e)
          BY <1>0, <2>1, <4>1, <5>1, CommitWrites
        <5> QED BY <5>2 DEF Saves
      <4>3. e # entry <=> v # entry.version \/ o # entry.owner
        BY <3>2, <3>4
      <4>4. kept'[s] = e
        BY <1>1, <4>2
      <4> QED BY <3>3, <3>4, <4>2, <4>3, <4>4 DEF Durable!Put
    <3>5. CASE proc[p].op = "claim"
      <4>1. e = [version |-> entry.version, owner |-> p] /\ entry.owner \notin Alive
            /\ Parent[s] = NoOne
        BY <1>0, <1>1, <1>4, <2>0, <3>2, <3>5 DEF Written, Allowed, Alive, Asks
      <4>2. GenerationsInv' /\ Durable!Put(s, entry.version, p) /\ kept'[s] # kept[s]
        BY <1>2, <3>2, <3>4, <4>1
      <4>3. Durable!Claim(p, s)
        BY <3>3, <4>1, <4>2 DEF Durable!Claim
      <4> QED BY <1>1, <1>2, <4>2, <4>3 DEF Durable!Next
    <3>6. CASE proc[p].op = "record"
      <4>1. e = [version |-> entry.version + 1, owner |-> p] /\ entry.owner = p
        BY <1>0, <1>1, <1>4, <2>0, <3>2, <3>6 DEF Written, Allowed
      <4>2. entry.version + 1 \in Nat \ {0} /\ entry.version + 1 # entry.version
        BY <3>2
      <4>3. GenerationsInv' /\ Durable!Put(s, entry.version + 1, p) /\ kept'[s] # kept[s]
        BY <3>4, <4>1, <4>2
      <4>4. Durable!Record(p, s)
        BY <3>3, <4>1, <4>3 DEF Durable!Record
      <4> QED BY <1>1, <1>2, <4>3, <4>4 DEF Durable!Next
    <3>7. CASE proc[p].op = "release"
      <4>1. e = [version |-> entry.version, owner |-> NoOne] /\ entry.owner = p
        BY <1>0, <1>1, <1>4, <2>0, <3>2, <3>7 DEF Written, Allowed
      <4>2. GenerationsInv' /\ Durable!Put(s, entry.version, NoOne) /\ kept'[s] # kept[s]
        BY <1>2, <3>2, <3>4, <4>1
      <4>3. Durable!Release(p, s)
        BY <3>3, <4>1, <4>2 DEF Durable!Release
      <4> QED BY <1>1, <1>2, <4>2, <4>3 DEF Durable!Next
    <3> QED BY <1>1, <2>3, <3>5, <3>6, <3>7 DEF Ops
  <2> QED BY <2>2, <2>3
<1> QED BY <1>3, <1>4

-----------------------------------------------------------------------------
(* The theorems.                                                           *)

\* Every step keeps the invariant and is a step of the abstract store.
LEMMA EveryStep ==
  ASSUME GenerationsInv, [Next]_vars
  PROVE  GenerationsInv' /\ [Durable!Next]_(Durable!vars)
<1>1. CASE UNCHANGED vars
  <2>1. GenerationsInv'
    BY <1>1 DEF GenerationsInv, StoreInv, WorkInv, vars, DiskTypes, WorkTypes, LayoutIsThere,
       ArchivesAreTrue, ArchivesAreWhole, AncestorsExist, FamiliesAreTogether, Known, Present,
       InArchives, Find, Searched, Searchable, Current, Related, Apart, Sound, Locked, Asks,
       Unborn, Knows, Fresh, HasMoved, RequestedSet, Requested, Copies, Chosen, Active, Running,
       At, Archived
  <2>2. Unseen
    BY <1>1 DEF vars, Unseen, Alive, Running, At, Kept, Present, InArchives, Find, Searched,
                Unsearchable
  <2> QED BY <2>1, <2>2, UnseenIsStutter
<1>2. CASE Next
  <2>1. PICK p \in Procs :
          \/ \E op \in {"create", "claim", "record", "release"}, s \in Sessions : Begin(p, op, s)
          \/ Again(p) \/ Move(p) \/ Commit(p) \/ MapFull(p)
          \/ Lock(p) \/ RemoveRetired(p) \/ SaveReady(p) \/ Open(p) \/ Decide(p)
          \/ Prepare(p) \/ Copy(p) \/ Archive(p) \/ Switch(p)
          \/ RotationFails(p) \/ Crash(p)
    BY <1>2 DEF Next
  <2>2. CASE \E op \in Ops, s \in Sessions : Begin(p, op, s)
    BY <2>2, BeginIsQuiet, UnseenIsStutter
  <2>3. CASE Again(p) \/ MapFull(p) \/ Lock(p) \/ Open(p) \/ Decide(p) \/ RotationFails(p)
    BY <2>3, AgainIsQuiet, MapFullIsQuiet, LockIsQuiet, OpenIsQuiet, DecideIsQuiet,
       RotationFailsIsQuiet, UnseenIsStutter
  <2>4. CASE Move(p) \/ RemoveRetired(p) \/ SaveReady(p) \/ Prepare(p) \/ Copy(p) \/ Archive(p)
    BY <2>4, MoveIsUnseen, RemoveIsUnseen, SaveReadyIsUnseen, PrepareIsUnseen, CopyIsUnseen,
       ArchiveIsUnseen, UnseenIsStutter
  <2>5. CASE Commit(p) \/ Switch(p)
    BY <2>5, CommitIsWrite, SwitchIsRetire, UnseenIsStutter
  <2>6. CASE Crash(p)
    BY <2>6, CrashIsExit DEF Durable!Next
  <2> QED BY <2>1, <2>2, <2>3, <2>4, <2>5, <2>6 DEF Ops
<1> QED BY <1>1, <1>2

\* The invariant and the abstract store at first.
LEMMA StartsSound ==
  ASSUME Init
  PROVE  GenerationsInv /\ Durable!Init
<1>1. /\ manifest = [state |-> "Ready", current |-> 0] /\ Current = 0
      /\ DOMAIN db = {0} /\ db[0] = Empty /\ db = [g \in {0} |-> Empty]
      /\ DOMAIN archives = {} /\ Searched(Current) = {0}
  BY DEF Init, Current, Searched
<1>2. Nothing \in Entries /\ Empty \in Catalogs
  BY DEF Entries, Catalogs, Empty
<1>3. \A s \in Sessions : /\ Find(Current, s) = Nothing /\ db[Current][s] = Nothing
                          /\ ~Present(s) /\ InArchives(s) = {} /\ Kept(s) = Nothing
  <2>1. \A s \in Sessions : db[Current][s] = Nothing
    BY <1>1 DEF Empty
  <2>2. \A s \in Sessions : Find(Current, s) = Nothing
    BY <1>1, <2>1 DEF Find
  <2>3. \A s \in Sessions : ~Present(s) /\ InArchives(s) = {}
    BY <1>1, <2>2 DEF Present, InArchives, Current
  <2> QED BY <2>1, <2>2, <2>3 DEF Kept
<1>4. DiskTypes
  BY <1>1, <1>2 DEF DiskTypes
<1>5. StoreInv
  BY <1>1, <1>3, <1>4 DEF StoreInv, LayoutIsThere, ArchivesAreTrue, ArchivesAreWhole,
     AncestorsExist, FamiliesAreTogether, Known, Searchable
<1>6. \A p \in Procs : proc[p] = Idle /\ ~(proc[p].at = "exited")
  BY DEF Init, Idle
<1>7. WorkTypes
  BY <1>6 DEF Init, WorkTypes, Work, Idle, Outside, Unopened
<1>8. \A p \in Procs : Sound(p)
  BY <1>6 DEF Idle, Sound, Locked, Asks, Knows, HasMoved, Copies, Archived,
              Outside, Writing, Recovering, Rotating
<1>9. WorkInv
  BY <1>6, <1>7, <1>8 DEF WorkInv, Apart, Idle
<1>10. Alive = Procs /\ Unsearchable = {}
  BY <1>3, <1>6 DEF Alive, Running, At, Unsearchable
<1> QED BY <1>3, <1>5, <1>9, <1>10 DEF GenerationsInv, Durable!Init, Nothing

\* Whatever the processes write, rotate, recover, and wherever they crash, the
\* files and the processes' knowledge of them stay sound (generations.rs).
THEOREM GenerationsAreSound == Spec => []GenerationsInv
<1>1. Init => GenerationsInv
  BY StartsSound
<1>2. GenerationsInv /\ [Next]_vars => GenerationsInv'
  BY EveryStep
<1> QED BY <1>1, <1>2, PTL DEF Spec

\* The invariant says that families are together.
LEMMA TogetherStay == GenerationsInv => FamiliesStayTogether
<1> SUFFICES ASSUME GenerationsInv, NEW s \in Sessions, NEW t \in Sessions,
                    db[manifest.current][s] # Nothing,
                    Ancestors[s] \cap Ancestors[t] # {}, Kept(t) # Nothing
             PROVE  db[manifest.current][t] # Nothing
  BY DEF FamiliesStayTogether
<1>1. Known(t)
  BY DEF Known, Kept
<1> QED BY <1>1 DEF GenerationsInv, StoreInv, FamiliesAreTogether, Related, Current

\* When the current database has a session, it has every session of the same
\* conversation that exists or is archived (Catalog::migrate, Catalog::rotate):
\* no migration and no rotation ever finds half a conversation.
THEOREM ConversationsStayWhole == Spec => []FamiliesStayTogether
BY GenerationsAreSound, TogetherStay, PTL

\* The generations, their manifest, the locks and the copies are a store with
\* one version and one owner per session (Catalog::database, Catalog::rotate,
\* StoreAccess::reload): every commit is one of its writes, the switch of the
\* manifest retires whole conversations that no process owns, a crash ends a
\* process, and every other step changes nothing that a reader finds.
THEOREM GenerationsAreDurable == Spec => StoreIsDurable
<1>1. Init => Durable!Init
  BY StartsSound
<1>2. GenerationsInv /\ [Next]_vars => [Durable!Next]_(Durable!vars)
  BY EveryStep
<1> QED BY <1>1, <1>2, GenerationsAreSound, PTL DEF Spec, StoreIsDurable, Durable!Spec
=============================================================================
