---------------------- MODULE KnowledgeGenerationsProofs ----------------------
(***************************************************************************)
(* Proofs about KnowledgeGenerations, for any number of calls, generations *)
(* and changes: who asks finds the workers of the generation that is       *)
(* served, and no call gives a result that was never right after it was    *)
(* made.                                                                   *)
(*                                                                         *)
(* The inductive invariant says how far each preparation has brought its   *)
(* generation and that no two share one; that a question is where its      *)
(* asker sent it; and what the check after an answer has already ruled     *)
(* out.                                                                    *)
(***************************************************************************)
EXTENDS KnowledgeGenerations, FiniteSetTheorems, TLAPS

-----------------------------------------------------------------------------
(* The invariant.                                                          *)

\* What the calls of each tool go through.
Making == {"capture", "index", "build"}
Offering == {"look", "judge", "publish"}
Reading == {"look", "judge", "result", "look again", "judge again"}
Over == {"ok", "failed"}
Fits(op, step) ==
  \/ op = "none" /\ step = "new"
  \/ op = "clear" /\ step = "ok"
  \/ op \in {"prepare", "repartition"} /\ step \in {"find", "begin"} \cup Making \cup Offering \cup Over
  \/ op = "search" /\ step \in {"get"} \cup Reading \cup Over
  \/ op = "ask" /\ step \in {"get", "look", "judge", "send", "wait"} \cup Over

Steps == {"new", "find", "begin", "get", "send", "wait"} \cup Making \cup Offering \cup Reading \cup Over
Call == [op : {"none", "prepare", "repartition", "search", "ask", "clear"}, step : Steps,
         gen : Generations \cup {NoOne}, worker : Generations \cup {NoOne},
         place : Places, seen : 0..2]

CallTypes == calls \in [Calls -> Call]
QueueTypes == mailbox \in [Generations -> Seq(Calls)]

\* A preparation with a ticket, and what it has made of its generation.
Maker(c) == Builds(c) /\ calls[c].step \in Making \cup Offering
Published(g) == g \in Generations /\ gens[g].made = "published"
CallIsSound(c) ==
  /\ Fits(calls[c].op, calls[c].step)
  /\ Maker(c) => calls[c].gen \in Generations
  /\ Maker(c) /\ calls[c].step \in Making => gens[calls[c].gen].made = "begun"
  /\ Maker(c) /\ calls[c].step \in {"index", "build"} => calls[c].seen \in 1..2
  /\ Maker(c) /\ calls[c].step \in Offering =>
       gens[calls[c].gen].made = "built" /\ calls[c].gen \in alive
  /\ calls[c].op = "search" /\ calls[c].step \in Reading \cup {"ok"} => Published(calls[c].gen)
  /\ calls[c].op = "ask" => Published(calls[c].worker)

MakersAreApart ==
  \A c, d \in Calls : c # d /\ Maker(c) /\ Maker(d) => calls[c].gen # calls[d].gen

\* Tickets are handed out in order, and none twice.
TicketsAreNew ==
  /\ \E n \in 0..MaxGenerations : Begun = 1..n
  /\ cleared \subseteq Begun
  /\ slot.ticket \notin cleared
  /\ slot.serves # NoOne => Published(slot.serves)

\* A question is with the worker that its call was made for.
QuestionsAreAsked ==
  /\ \A g \in Generations : \A c \in Calls :
       c \in ToSet(mailbox[g]) \/ work[g].asker = c =>
         calls[c].op = "ask" /\ calls[c].worker = g /\ calls[c].step \in {"wait"} \cup Over
  /\ \A g \in Generations : InHand(g) <=> work[g].asker # NoOne

\* The files were compared after the result was made.
Compared(c) ==
  \/ calls[c].op = "search" /\ calls[c].step = "judge again" /\ calls[c].seen = 1
  \/ /\ calls[c].op = "ask" /\ calls[c].step = "wait"
     /\ work[calls[c].worker].asker = c
     /\ work[calls[c].worker].step = "judge again" /\ work[calls[c].worker].seen
ChecksAreKept ==
  /\ unseen \in [Calls -> SUBSET {"files", "model", "service"}]
  /\ \A c \in Calls : Answered(c) /\ Compared(c) => "files" \notin unseen[c]

RegistryInv ==
  /\ TypeOK /\ CallTypes /\ RoutesAreKnown /\ TicketsAreNew
  /\ MakersAreApart /\ \A c \in Calls : CallIsSound(c)
KnowledgeInv ==
  RegistryInv /\ QueueTypes /\ QuestionsAreAsked /\ ChecksAreKept /\ AnswersAreCurrent

-----------------------------------------------------------------------------
(* Facts about the operators.                                              *)

LEMMA NumbersAreNatural ==
  /\ Calls \subseteq Nat \ {0} /\ Generations \subseteq Nat \ {0}
  /\ NoOne = 0 /\ NoOne \notin Calls /\ NoOne \notin Generations
BY KnowledgeAssumption DEF Calls, Generations, NoOne

Generation == [made : {"no", "begun", "built", "published"}, inputs : 1..2,
               place : Places, model : 1..2, valid : BOOLEAN]
GenTypes == gens \in [Generations -> Generation]

\* A generation that is marked stale stays what it was otherwise.
LEMMA StaleIsQuiet ==
  ASSUME GenTypes, NEW g \in Generations \cup {NoOne}
  PROVE  /\ Stale(g) \in [Generations -> Generation]
         /\ \A h \in Generations :
              /\ Stale(g)[h].made = gens[h].made /\ Stale(g)[h].inputs = gens[h].inputs
              /\ Stale(g)[h].place = gens[h].place /\ Stale(g)[h].model = gens[h].model
              /\ Stale(g)[h].valid => gens[h].valid
         /\ g # NoOne => ~Stale(g)[g].valid
<1>1. CASE g = NoOne
  BY <1>1 DEF GenTypes, Stale
<1>2. CASE g # NoOne
  <2>1. Stale(g) = [gens EXCEPT ![g].valid = FALSE] /\ g \in Generations
    BY <1>2 DEF Stale
  <2>2. \A h \in Generations : gens[h] \in Generation
    BY DEF GenTypes
  <2>3. \A h \in Generations :
          Stale(g)[h] = IF h = g THEN [gens[h] EXCEPT !.valid = FALSE] ELSE gens[h]
    BY <2>1 DEF GenTypes
  <2>4. ASSUME NEW h \in Generations
        PROVE  /\ Stale(g)[h] \in Generation
               /\ Stale(g)[h].made = gens[h].made /\ Stale(g)[h].inputs = gens[h].inputs
               /\ Stale(g)[h].place = gens[h].place /\ Stale(g)[h].model = gens[h].model
               /\ Stale(g)[h].valid => gens[h].valid /\ h # g
    BY <2>2, <2>3 DEF Generation
  <2>5. Stale(g) \in [Generations -> Generation]
    BY <2>1, <2>4 DEF GenTypes
  <2> QED BY <2>1, <2>4, <2>5
<1> QED BY <1>1, <1>2

\* A generation is never unmade; what was valid may cease to be.
GensStay ==
  \A g \in Generations :
    gens'[g].made = gens[g].made /\ (gens'[g].valid => gens[g].valid)

LEMMA FailureIsQuiet ==
  ASSUME RegistryInv, NEW c \in Calls, Fails(c)
  PROVE  /\ calls' = [calls EXCEPT ![c] = [calls[c] EXCEPT !.step = "failed"]]
         /\ slot'.serves = slot.serves /\ slot'.ticket \in {slot.ticket, NoOne}
         /\ slot' \in [ticket : Generations \cup {NoOne}, serves : Generations \cup {NoOne}]
         /\ cancelled' \subseteq Generations
         /\ registered' = registered /\ cleared' = cleared
<1>1. calls[c] \in Call /\ calls' = [calls EXCEPT ![c].step = "failed"]
  BY DEF Fails, Goes, RegistryInv, CallTypes
<1>2. calls[c].gen \in Generations \cup {NoOne}
  BY <1>1 DEF Call
<1>3. CASE Builds(c) /\ calls[c].gen # NoOne
  BY <1>1, <1>2, <1>3 DEF Fails, Rollback, RegistryInv, TypeOK
<1>4. CASE ~(Builds(c) /\ calls[c].gen # NoOne)
  BY <1>1, <1>4 DEF Fails, RegistryInv, TypeOK
<1> QED BY <1>1, <1>3, <1>4

-----------------------------------------------------------------------------
(* Types.                                                                  *)

Types == TypeOK /\ CallTypes /\ QueueTypes
RegistryTypes ==
  /\ slot \in [ticket : Generations \cup {NoOne}, serves : Generations \cup {NoOne}]
  /\ cancelled \subseteq Generations /\ cleared \subseteq Generations
  /\ registered \subseteq Generations
Job == [asker : Calls \cup {NoOne}, seen : BOOLEAN,
        step : {"idle", "gate", "look", "judge", "model", "look again", "judge again"}]
ActorTypes == alive \subseteq Generations /\ work \in [Generations -> Job] /\ QueueTypes
WorldTypes ==
  world \in [content : [Places -> 1..2], place : Places, model : 1..2] /\ changes \in 0..MaxChanges

LEMMA TypesHaveParts ==
  /\ Types <=> GenTypes /\ RegistryTypes /\ ActorTypes /\ WorldTypes /\ CallTypes
  /\ Types' <=> GenTypes' /\ RegistryTypes' /\ ActorTypes' /\ WorldTypes' /\ CallTypes'
<1>1. /\ QueueTypes => \A g \in Generations : ToSet(mailbox[g]) \subseteq Calls
      /\ QueueTypes' => \A g \in Generations : ToSet(mailbox'[g]) \subseteq Calls
  BY DEF QueueTypes, ToSet
<1> QED BY <1>1 DEF Types, TypeOK, GenTypes, Generation, RegistryTypes, ActorTypes, Job, WorldTypes

LEMMA PartsStay ==
  /\ GenTypes /\ UNCHANGED gens => GenTypes'
  /\ RegistryTypes /\ UNCHANGED registry => RegistryTypes'
  /\ ActorTypes /\ UNCHANGED actors => ActorTypes'
  /\ WorldTypes /\ UNCHANGED outside => WorldTypes'
  /\ CallTypes /\ UNCHANGED calls => CallTypes'
BY DEF GenTypes, RegistryTypes, ActorTypes, QueueTypes, WorldTypes, CallTypes,
       registry, actors, outside

LEMMA OneCallMoves ==
  ASSUME RegistryInv, NEW c \in Calls, NEW r \in Call, calls' = [calls EXCEPT ![c] = r],
         alive \subseteq alive',
         \A g \in Generations :
           \/ gens'[g].made = gens[g].made \/ gens[g].made = "no"
           \/ Maker(c) /\ g = calls[c].gen /\ gens[g].made # "published",
         Maker(c)' => \/ Maker(c) /\ r.gen = calls[c].gen
                      \/ gens[r.gen].made = "no",
         CallIsSound(c)'
  PROVE  CallTypes' /\ MakersAreApart' /\ \A d \in Calls : CallIsSound(d)'
<1>1. /\ calls'[c] = r /\ CallTypes'
      /\ \A d \in Calls : d # c => calls'[d] = calls[d]
  BY DEF RegistryInv, CallTypes
<1>2. \A d \in Calls : d # c /\ Maker(d)' => Maker(d)
  BY <1>1 DEF Maker, Builds
<1>3. \A d \in Calls : Maker(d) => /\ calls[d].gen \in Generations
                                   /\ gens[calls[d].gen].made \in {"begun", "built"}
  BY DEF RegistryInv, CallIsSound, Maker
<1>4. MakersAreApart'
  <2> SUFFICES ASSUME NEW d \in Calls, NEW e \in Calls, d # e, Maker(d)', Maker(e)'
               PROVE  calls'[d].gen # calls'[e].gen
    BY DEF MakersAreApart
  <2>1. CASE d # c /\ e # c
    BY <1>1, <1>2, <2>1 DEF RegistryInv, MakersAreApart
  <2>2. CASE d = c
    BY <1>1, <1>2, <1>3, <2>2 DEF RegistryInv, MakersAreApart
  <2>3. CASE e = c
    BY <1>1, <1>2, <1>3, <2>3 DEF RegistryInv, MakersAreApart
  <2> QED BY <2>1, <2>2, <2>3
<1>5. ASSUME NEW d \in Calls, d # c PROVE CallIsSound(d)'
  <2>1. calls'[d] = calls[d] /\ CallIsSound(d) /\ (Maker(d)' <=> Maker(d))
    BY <1>1, <1>5 DEF RegistryInv, Maker, Builds
  <2>2. Maker(d) => gens'[calls[d].gen].made = gens[calls[d].gen].made
    BY <1>3, <1>5 DEF RegistryInv, MakersAreApart
  <2>3. \A g : Published(g) => Published(g)'
    BY <1>3 DEF Published
  <2> QED BY <2>1, <2>2, <2>3 DEF CallIsSound
<1> QED BY <1>1, <1>4, <1>5

LEMMA RegistryStays ==
  ASSUME RegistryInv, slot'.serves = slot.serves, slot'.ticket \in {slot.ticket, NoOne},
         registered' = registered, cleared' = cleared, alive \subseteq alive',
         \A g \in Generations :
           \/ gens'[g].made = gens[g].made /\ (gens'[g].valid => gens[g].valid)
           \/ gens[g].made = "begun" /\ gens'[g].made = "built"
  PROVE  RoutesAreKnown' /\ TicketsAreNew'
<1>1. RoutesAreKnown'
  BY DEF RegistryInv, RoutesAreKnown
<1>2. Begun' = Begun /\ \A g : Published(g) => Published(g)'
  BY DEF Begun, Published
<1>3. slot'.ticket \notin cleared'
  BY NumbersAreNatural DEF RegistryInv, TicketsAreNew, TypeOK
<1> QED BY <1>1, <1>2, <1>3 DEF RegistryInv, TicketsAreNew

LEMMA QuietMove ==
  ASSUME RegistryInv, QueueTypes, NEW c \in Calls, NEW r \in Call,
         calls' = [calls EXCEPT ![c] = r], UNCHANGED <<registry, gens, outside>>,
         alive' = alive, ActorTypes',
         Maker(c)' => Maker(c) /\ r.gen = calls[c].gen,
         CallIsSound(c)'
  PROVE  RegistryInv' /\ QueueTypes'
<1>1. CallTypes' /\ MakersAreApart' /\ \A d \in Calls : CallIsSound(d)'
  BY OneCallMoves
<1>2. RoutesAreKnown' /\ TicketsAreNew'
  BY NumbersAreNatural, RegistryStays DEF registry
<1>3. Types
  BY DEF RegistryInv, Types
<1>4. GenTypes' /\ RegistryTypes' /\ WorldTypes'
  BY <1>3, TypesHaveParts, PartsStay
<1>5. Types'
  BY <1>1, <1>4, TypesHaveParts
<1> QED BY <1>1, <1>2, <1>5 DEF Types, RegistryInv

LEMMA FailMove ==
  ASSUME RegistryInv, QueueTypes, NEW c \in Calls, Active(c), Fails(c),
         UNCHANGED <<actors, outside>>,
         UNCHANGED gens \/ \E g \in Generations \cup {NoOne} : gens' = Stale(g)
  PROVE  RegistryInv' /\ QueueTypes'
<1> DEFINE r == [calls[c] EXCEPT !.step = "failed"]
<1>1. /\ calls[c] \in Call /\ r \in Call /\ calls' = [calls EXCEPT ![c] = r] /\ calls'[c] = r
      /\ Types /\ calls[c].step \notin {"new", "ok", "failed"} /\ CallIsSound(c)
  BY FailureIsQuiet DEF RegistryInv, CallTypes, Call, Steps, Over, Types, Active
<1>2. r.op = calls[c].op /\ r.step = "failed" /\ r.worker = calls[c].worker
  BY <1>1 DEF Call
<1>3. GenTypes' /\ GensStay
  BY <1>1, TypesHaveParts, StaleIsQuiet DEF GensStay, GenTypes
<1>4. ~Maker(c)'
  BY <1>1, <1>2 DEF Maker, Making, Offering
<1>5. CallIsSound(c)'
  <2>1. Fits(r.op, r.step)
    BY <1>1, <1>2 DEF CallIsSound, Fits, Over, Making, Offering, Reading
  <2>2. \A g : Published(g) => Published(g)'
    BY <1>3 DEF Published, GensStay
  <2> QED BY <1>1, <1>2, <1>4, <2>1, <2>2 DEF CallIsSound, Reading
<1> HIDE DEF r
<1>6. alive' = alive /\ \A g \in Generations : gens'[g].made = gens[g].made
  BY <1>3 DEF actors, GensStay
<1>7. CallTypes' /\ MakersAreApart' /\ \A d \in Calls : CallIsSound(d)'
  BY <1>1, <1>4, <1>5, <1>6, OneCallMoves
<1>8. RoutesAreKnown' /\ TicketsAreNew'
  BY <1>3, <1>6, FailureIsQuiet, RegistryStays DEF GensStay
<1>9. RegistryTypes'
  BY <1>1, FailureIsQuiet, TypesHaveParts DEF RegistryTypes
<1>10. ActorTypes' /\ WorldTypes'
  BY <1>1, TypesHaveParts, PartsStay
<1> QED BY <1>3, <1>7, <1>8, <1>9, <1>10, TypesHaveParts DEF Types, RegistryInv

-----------------------------------------------------------------------------
(* The steps of the calls.                                                 *)

LEMMA StartsKeep ==
  ASSUME RegistryInv, QueueTypes, NEW c \in Calls, NEW op, NEW first, NEW worker,
         Starts(c, op, first, worker),
         \/ op = "prepare" /\ first = "begin" /\ worker = NoOne
         \/ op = "repartition" /\ first = "find" /\ worker = NoOne
         \/ op = "search" /\ first = "get" /\ worker = NoOne
         \/ op = "ask" /\ first = "get" /\ worker \in registered
  PROVE  RegistryInv' /\ QueueTypes'
<1> DEFINE r == [NotCalled EXCEPT !.op = op, !.step = first, !.worker = worker,
                                  !.place = world.place]
<1>0. NotCalled \in Call
  BY DEF NotCalled, Call, Steps, Places
<1>1. calls' = [calls EXCEPT ![c] = r] /\ UNCHANGED <<registry, gens, actors, outside>>
  BY DEF Starts
<1>2. worker \in registered => Published(worker) /\ worker \in Generations
  BY DEF RegistryInv, RoutesAreKnown, TicketsAreNew, Published
<1>3. r \in Call
  <2>1. op \in {"prepare", "repartition", "search", "ask"} /\ first \in Steps
    BY DEF Steps
  <2>2. worker \in Generations \cup {NoOne} /\ world.place \in Places
    BY <1>2 DEF RegistryInv, TypeOK
  <2> QED BY <1>0, <2>1, <2>2 DEF Call
<1>4. calls'[c] = r
  BY <1>1 DEF RegistryInv, CallTypes
<1>5. r.op = op /\ r.step = first /\ r.worker = worker
  BY <1>0 DEF Call
<1> HIDE DEF r
<1>6. ~Maker(c)'
  BY <1>4, <1>5 DEF Maker, Builds, Making, Offering
<1>7. Fits(op, first) /\ first \notin Reading \cup {"ok"}
  BY DEF Fits, Reading
<1>8. op = "ask" => Published(worker)'
  <2>1. gens' = gens
    BY <1>1
  <2> QED BY <1>2, <2>1 DEF Published
<1>9. CallIsSound(c)'
  BY <1>4, <1>5, <1>6, <1>7, <1>8 DEF CallIsSound
<1>10. ActorTypes' /\ alive' = alive
  BY <1>1, TypesHaveParts, PartsStay DEF RegistryInv, Types, actors
<1> QED BY <1>1, <1>3, <1>6, <1>9, <1>10, QuietMove

\* A step of a call that only moves on.
LEMMA GoesKeeps ==
  ASSUME RegistryInv, QueueTypes, NEW c \in Calls, NEW r \in Call,
         calls' = [calls EXCEPT ![c] = r], r.op = calls[c].op, r.op # "none",
         UNCHANGED <<registry, gens, outside>>, alive' = alive, ActorTypes',
         Fits(r.op, r.step),
         r.op = "ask" => r.worker = calls[c].worker,
         r.op = "search" /\ r.step \in Reading \cup {"ok"} => Published(r.gen),
         Builds(c) /\ r.step \in {"index", "build"} => r.seen \in 1..2,
         Builds(c) /\ r.step \in Making \cup Offering =>
           /\ r.gen = calls[c].gen
           /\ \/ r.step \in Making /\ calls[c].step \in Making
              \/ r.step \in Offering /\ calls[c].step \in Offering
  PROVE  RegistryInv' /\ QueueTypes'
<1>1. /\ calls[c] \in Call /\ calls'[c] = r
      /\ CallIsSound(c) /\ gens' = gens /\ alive' = alive
  BY DEF RegistryInv, CallTypes
<1>3. Maker(c)' => Maker(c) /\ r.gen = calls[c].gen
  BY <1>1 DEF Maker, Builds
<1>4. CallIsSound(c)'
  <2>1. \A g : Published(g)' <=> Published(g)
    BY <1>1 DEF Published
  <2>2. Making \cap Offering = {}
    BY DEF Making, Offering
  <2> QED BY <1>1, <1>3, <2>1, <2>2 DEF CallIsSound, Maker, Builds
<1> QED BY <1>1, <1>3, <1>4, QuietMove

LEMMA CallFields ==
  ASSUME RegistryInv, NEW c \in Calls
  PROVE  /\ calls[c] \in Call /\ calls[c].seen \in 0..2 /\ calls[c].step \in Steps
         /\ calls[c].gen \in Generations \cup {NoOne}
         /\ calls[c].worker \in Generations \cup {NoOne}
         /\ calls[c].place \in Places /\ CallIsSound(c)
         /\ Fits(calls[c].op, calls[c].step)
<1>1. calls[c] \in Call /\ CallIsSound(c)
  BY DEF RegistryInv, CallTypes
<1> QED BY <1>1 DEF Call, CallIsSound

LEMMA FindKeeps ==
  ASSUME RegistryInv, QueueTypes, NEW c \in Calls, Find(c)
  PROVE  RegistryInv' /\ QueueTypes'
<1>1. calls[c].op \in {"prepare", "repartition"} /\ Active(c)
  BY CallFields DEF Find, Fits, Active, Over, Reading
<1>2. CASE slot.serves = NoOne
  BY <1>1, <1>2, FailMove DEF Find
<1>3. CASE slot.serves # NoOne
  <2> DEFINE r == [calls[c] EXCEPT !.step = "begin", !.worker = slot.serves]
  <2>0. slot.serves \in Generations \cup {NoOne}
    BY DEF RegistryInv, TypeOK
  <2>1. /\ calls' = [calls EXCEPT ![c] = r] /\ r \in Call
        /\ r.op = calls[c].op /\ r.step = "begin"
    BY <1>3, <2>0, CallFields DEF Find, RegistryInv, CallTypes, Call, Steps
  <2> HIDE DEF r
  <2>2. UNCHANGED <<registry, gens, outside>> /\ alive' = alive /\ ActorTypes'
    BY <1>3, TypesHaveParts, PartsStay DEF Find, RegistryInv, Types, actors
  <2>3. Fits(calls[c].op, "begin") /\ "begin" \notin Making \cup Offering /\ "begin" \in Steps
    BY <1>1 DEF Fits, Making, Offering, Steps
  <2> QED BY <1>1, <2>1, <2>2, <2>3, GoesKeeps
<1> QED BY <1>2, <1>3

\* A step of one call that leaves the rest alone.
LEMMA CallGoes ==
  ASSUME RegistryInv, QueueTypes, NEW c \in Calls, NEW step \in Steps,
         Fits(calls[c].op, step), calls[c].op # "none",
         calls' = [calls EXCEPT ![c].step = step],
         UNCHANGED <<registry, gens, outside>>, alive' = alive, ActorTypes',
         calls[c].op = "search" /\ step \in Reading \cup {"ok"} => calls[c].step \in Reading,
         Builds(c) /\ step \in {"index", "build"} => calls[c].seen \in 1..2,
         Builds(c) /\ step \in Making \cup Offering =>
           \/ step \in Making /\ calls[c].step \in Making
           \/ step \in Offering /\ calls[c].step \in Offering
  PROVE  RegistryInv' /\ QueueTypes'
<1>1. calls[c].op = "search" /\ step \in Reading \cup {"ok"} => Published(calls[c].gen)
  BY CallFields DEF CallIsSound
<1> DEFINE r == [calls[c] EXCEPT !.step = step]
<1>2. /\ calls' = [calls EXCEPT ![c] = r] /\ r \in Call /\ r.op = calls[c].op
      /\ r.step = step /\ r.gen = calls[c].gen /\ r.worker = calls[c].worker
      /\ r.seen = calls[c].seen
  BY CallFields DEF Call
<1> HIDE DEF r
<1> QED BY <1>1, <1>2, GoesKeeps

LEMMA CaptureKeeps ==
  ASSUME RegistryInv, QueueTypes, NEW c \in Calls, Capture(c)
  PROVE  RegistryInv' /\ QueueTypes'
<1>1. calls[c].op \in {"prepare", "repartition"} /\ Active(c) /\ calls[c].step = "capture"
  BY CallFields DEF Capture, Fits, Active, Over, Reading
<1> DEFINE now == world.content[calls[c].place]
           step == IF calls[c].op = "prepare" THEN "index" ELSE "build"
<1>2. CASE Fails(c)
  BY <1>1, <1>2, FailMove DEF Capture
<1>3. CASE ~Fails(c)
  <2>1. /\ calls' = [calls EXCEPT ![c].seen = now,
                ![c].step = IF calls[c].op = "prepare" THEN "index" ELSE "build"]
        /\ UNCHANGED registry
    BY <1>3 DEF Capture
  <2>2. now \in 1..2 /\ now \in 0..2
    <3>1. world.content[calls[c].place] \in 1..2
      BY CallFields DEF RegistryInv, TypeOK
    <3> QED BY <3>1
  <2>3. step \in Making /\ step \in Steps
    BY DEF Making, Steps
  <2> DEFINE r == [calls[c] EXCEPT !.seen = now, !.step = step]
  <2>4. /\ calls' = [calls EXCEPT ![c] = r] /\ r \in Call
        /\ r.op = calls[c].op /\ r.step = step /\ r.gen = calls[c].gen /\ r.seen = now
    BY <2>1, <2>2, <2>3, CallFields DEF RegistryInv, CallTypes, Call
  <2>5. UNCHANGED <<registry, gens, outside>> /\ alive' = alive /\ ActorTypes'
    BY <2>1, TypesHaveParts, PartsStay DEF Capture, RegistryInv, Types, actors
  <2>6. Fits(calls[c].op, step) /\ calls[c].step \in Making
    BY <1>1 DEF Fits, Making
  <2> HIDE DEF now, step, r
  <2> QED BY <1>1, <2>2, <2>3, <2>4, <2>5, <2>6, GoesKeeps
<1> QED BY <1>2, <1>3

LEMMA IndexKeeps ==
  ASSUME RegistryInv, QueueTypes, NEW c \in Calls, Index(c)
  PROVE  RegistryInv' /\ QueueTypes'
<1>1. calls[c].op \in {"prepare", "repartition"} /\ Active(c) /\ calls[c].step = "index"
  BY CallFields DEF Index, Fits, Active, Over, Reading
<1>2. CASE Fails(c)
  BY <1>1, <1>2, FailMove DEF Index
<1>3. CASE ~Fails(c)
  <2>1. Goes(c, "build") /\ UNCHANGED registry
    BY <1>3 DEF Index
  <2>2. UNCHANGED <<registry, gens, outside>> /\ alive' = alive /\ ActorTypes'
    BY <2>1, TypesHaveParts, PartsStay DEF Index, RegistryInv, Types, actors
  <2>3. Fits(calls[c].op, "build") /\ "build" \in Making /\ "index" \in Making /\ "build" \in Steps
    BY <1>1 DEF Fits, Making, Steps
  <2>4. calls[c].seen \in 1..2
    BY <1>1, <2>3, CallFields DEF CallIsSound, Maker, Builds, Making
  <2> QED BY <1>1, <2>1, <2>2, <2>3, <2>4, CallGoes DEF Goes
<1> QED BY <1>2, <1>3

LEMMA GetKeeps ==
  ASSUME RegistryInv, QueueTypes, NEW c \in Calls, Get(c)
  PROVE  RegistryInv' /\ QueueTypes'
<1>1. calls[c].op \in {"search", "ask"} /\ Active(c) /\ ~Builds(c)
  BY CallFields DEF Get, Fits, Active, Over, Reading, Builds, Making, Offering
<1>2. CASE Fails(c)
  BY <1>1, <1>2, FailMove DEF Get
<1>3. CASE ~Fails(c)
  <2>1. /\ calls' = [calls EXCEPT ![c].gen = slot.serves, ![c].step = "look"]
        /\ UNCHANGED registry /\ slot.serves # NoOne
    BY <1>3 DEF Get
  <2>2. slot.serves \in Generations \cup {NoOne} /\ Published(slot.serves)
    BY <2>1 DEF RegistryInv, TypeOK, TicketsAreNew
  <2> DEFINE r == [calls[c] EXCEPT !.gen = slot.serves, !.step = "look"]
  <2>3. /\ calls' = [calls EXCEPT ![c] = r] /\ r \in Call /\ r.op = calls[c].op
        /\ r.step = "look" /\ r.gen = slot.serves /\ r.worker = calls[c].worker
    BY <2>1, <2>2, CallFields DEF RegistryInv, CallTypes, Call, Steps, Offering
  <2>5. UNCHANGED <<registry, gens, outside>> /\ alive' = alive /\ ActorTypes'
    BY <2>1, TypesHaveParts, PartsStay DEF Get, RegistryInv, Types, actors
  <2>6. Fits(calls[c].op, "look") /\ "look" \in Steps
    BY <1>1 DEF Fits, Reading, Steps
  <2> HIDE DEF r
  <2> QED BY <1>1, <2>2, <2>3, <2>5, <2>6, GoesKeeps
<1> QED BY <1>2, <1>3

LEMMA LooksKeeps ==
  ASSUME RegistryInv, QueueTypes, NEW c \in Calls, Looks(c)
  PROVE  RegistryInv' /\ QueueTypes'
<1> DEFINE seen == IF Matches(calls[c].gen) THEN 1 ELSE 0
           step == IF calls[c].step = "look" THEN "judge" ELSE "judge again"
<1>1. calls[c].op \in {"prepare", "repartition", "search", "ask"} /\ Active(c)
  BY CallFields DEF Looks, Fits, Active, Over
<1>2. CASE Fails(c)
  BY <1>1, <1>2, FailMove DEF Looks
<1>3. CASE ~Fails(c)
  <2>1. calls' = [calls EXCEPT ![c].step = IF @ = "look" THEN "judge" ELSE "judge again",
                               ![c].seen = seen] /\ UNCHANGED registry
    BY <1>3 DEF Looks
  <2>2. seen \in 0..2 /\ step \in Steps
    BY DEF Steps, Reading
  <2> DEFINE r == [calls[c] EXCEPT !.step = step, !.seen = seen]
  <2>3. /\ calls' = [calls EXCEPT ![c] = r] /\ r \in Call /\ r.op = calls[c].op
        /\ r.step = step /\ r.gen = calls[c].gen /\ r.worker = calls[c].worker
    BY <2>1, <2>2, CallFields DEF RegistryInv, CallTypes, Call
  <2>5. UNCHANGED <<registry, gens, outside>> /\ alive' = alive /\ ActorTypes'
    BY <2>1, TypesHaveParts, PartsStay DEF Looks, RegistryInv, Types, actors
  <2>6. /\ Fits(calls[c].op, step) /\ step \notin {"index", "build"} /\ "judge" \in Offering
        /\ Builds(c) /\ step \in Making \cup Offering => step \in Offering /\ calls[c].step \in Offering
    BY <1>1, CallFields DEF Looks, Fits, Reading, Steps, Offering, Making, Builds, Over
  <2>7. calls[c].op = "search" => Published(calls[c].gen)
    BY CallFields DEF CallIsSound, Looks, Reading
  <2> HIDE DEF seen, step, r
  <2> QED BY <1>1, <2>2, <2>3, <2>5, <2>6, <2>7, GoesKeeps
<1> QED BY <1>2, <1>3

LEMMA JudgesKeeps ==
  ASSUME RegistryInv, QueueTypes, NEW c \in Calls, Judges(c)
  PROVE  RegistryInv' /\ QueueTypes'
<1>1. calls[c].op \in {"prepare", "repartition", "search", "ask"} /\ Active(c)
  BY CallFields DEF Judges, Fits, Active, Over
<1>2. CASE Fails(c) /\ gens' = Stale(calls[c].gen)
  BY <1>1, <1>2, CallFields, FailMove DEF Judges
<1>3. CASE Goes(c, AfterCheck(c)) /\ UNCHANGED <<registry, gens>>
  <2>1. UNCHANGED <<registry, gens, outside>> /\ alive' = alive /\ ActorTypes'
    BY <1>3, TypesHaveParts, PartsStay DEF Judges, RegistryInv, Types, actors
  <2> DEFINE after == AfterCheck(c)
  <2>2. /\ Builds(c) => after = "publish"
        /\ calls[c].op = "ask" => after = "send"
        /\ calls[c].op = "search" => after \in {"result", "ok"}
    BY DEF AfterCheck, Builds
  <2> HIDE DEF after
  <2>3. /\ Fits(calls[c].op, after) /\ after \in Steps /\ after \notin {"index", "build"}
        /\ Builds(c) => after \in Offering /\ calls[c].step \in Offering
        /\ calls[c].op = "search" => calls[c].step \in Reading
    BY <1>1, <2>2, CallFields DEF Judges, Fits, Reading, Steps, Offering, Making, Builds, Over
  <2>4. calls' = [calls EXCEPT ![c].step = after]
    BY <1>3 DEF Goes, after
  <2> QED BY <1>1, <2>1, <2>3, <2>4, CallGoes
<1> QED BY <1>2, <1>3 DEF Judges

LEMMA ResultKeeps ==
  ASSUME RegistryInv, QueueTypes, NEW c \in Calls, Result(c)
  PROVE  RegistryInv' /\ QueueTypes'
<1>1. calls[c].op = "search" /\ calls[c].step \in Reading /\ ~Builds(c)
  BY CallFields DEF Result, Fits, Making, Offering, Over, Reading, Builds
<1>2. Fits(calls[c].op, "look again") /\ "look again" \in Steps
  BY <1>1 DEF Fits, Reading, Steps
<1>3. UNCHANGED <<registry, gens, outside>> /\ alive' = alive /\ ActorTypes'
  BY TypesHaveParts, PartsStay DEF Result, RegistryInv, Types, actors
<1> QED BY <1>1, <1>2, <1>3, CallGoes DEF Result, Goes

LEMMA SendKeeps ==
  ASSUME RegistryInv, QueueTypes, NEW c \in Calls, Send(c)
  PROVE  RegistryInv' /\ QueueTypes'
<1>1. calls[c].op = "ask" /\ ~Builds(c)
  BY CallFields DEF Send, Fits, Making, Offering, Over, Reading, Builds
<1>2. /\ Fits(calls[c].op, "wait") /\ "wait" \in Steps
      /\ Fits(calls[c].op, "failed") /\ "failed" \in Steps
  BY <1>1 DEF Fits, Steps, Over
<1>3. UNCHANGED <<registry, gens, outside>> /\ alive' = alive /\ work' = work
  BY DEF Send
<1>4. mailbox' = mailbox \/ mailbox' = [mailbox EXCEPT ![calls[c].worker] = Append(@, c)]
  BY DEF Send
<1>5. QueueTypes'
  <2>1. CASE mailbox' = [mailbox EXCEPT ![calls[c].worker] = Append(@, c)]
    <3>1. calls[c].worker \in Generations /\ mailbox[calls[c].worker] \in Seq(Calls)
      BY <1>1, CallFields DEF CallIsSound, Published, QueueTypes
    <3>2. Append(mailbox[calls[c].worker], c) \in Seq(Calls)
      BY <3>1
    <3> QED BY <2>1, <3>2 DEF QueueTypes
  <2> QED BY <1>4, <2>1 DEF QueueTypes
<1>6. ActorTypes'
  BY <1>3, <1>5, TypesHaveParts DEF RegistryInv, Types, ActorTypes
<1>7. CASE Goes(c, "wait")
  BY <1>1, <1>2, <1>3, <1>6, <1>7, CallGoes DEF Goes, Reading, Making, Offering
<1>8. CASE Goes(c, "failed")
  BY <1>1, <1>2, <1>3, <1>6, <1>8, CallGoes DEF Goes, Reading, Making, Offering
<1> QED BY <1>7, <1>8 DEF Send

\* Preparation::begin: the ticket is the next number.
LEMMA BeginKeeps ==
  ASSUME RegistryInv, QueueTypes, NEW c \in Calls, Begin(c)
  PROVE  RegistryInv' /\ QueueTypes'
<1>1. calls[c].op \in {"prepare", "repartition"} /\ Active(c) /\ ~Maker(c) /\ Types
  BY CallFields DEF Begin, Fits, Active, Over, Reading, Maker, Making, Offering, RegistryInv, Types
<1>2. CASE slot.ticket # NoOne
  BY <1>1, <1>2, FailMove DEF Begin
<1>3. CASE slot.ticket = NoOne
  <2>1. PICK n \in 0..MaxGenerations : Begun = 1..n
    BY DEF RegistryInv, TicketsAreNew
  <2>2. Cardinality(Begun) = n
    BY <2>1, FS_Interval
  <2> DEFINE g == Cardinality(Begun) + 1
             r == [calls[c] EXCEPT !.gen = g, !.step = "capture"]
  <2>3. /\ g \in Generations /\ g = n + 1 /\ n + 1 \in 0..MaxGenerations
        /\ slot' = [slot EXCEPT !.ticket = g] /\ gens' = [gens EXCEPT ![g].made = "begun"]
        /\ calls' = [calls EXCEPT ![c].gen = g, ![c].step = "capture"]
        /\ UNCHANGED <<cancelled, registered, cleared, actors, outside>>
    BY <1>3, <2>1, <2>2, KnowledgeAssumption DEF Begin, Generations
  <2>4. g \notin Begun /\ gens[g].made = "no"
    BY <2>1, <2>3, KnowledgeAssumption DEF Begun
  <2> HIDE DEF g
  <2>5. /\ \A h \in Generations : gens'[h].made = IF h = g THEN "begun" ELSE gens[h].made
        /\ \A h \in Generations : gens'[h].valid = gens[h].valid
        /\ GenTypes'
    <3>1. \A h \in Generations : gens[h] \in Generation
      BY <1>1, TypesHaveParts DEF GenTypes
    <3>2. \A h \in Generations : gens'[h] = IF h = g THEN [gens[h] EXCEPT !.made = "begun"]
                                            ELSE gens[h]
      BY <2>3 DEF RegistryInv, TypeOK
    <3>3. \A h \in Generations :
            /\ gens'[h] \in Generation /\ gens'[h].valid = gens[h].valid
            /\ gens'[h].made = IF h = g THEN "begun" ELSE gens[h].made
      BY <3>1, <3>2 DEF Generation
    <3>4. DOMAIN gens' = Generations /\ gens' = [h \in DOMAIN gens' |-> gens'[h]]
      BY <2>3 DEF RegistryInv, TypeOK
    <3> QED BY <3>3, <3>4 DEF GenTypes
  <2>6. /\ calls' = [calls EXCEPT ![c] = r] /\ r \in Call /\ calls'[c] = r
        /\ r.op = calls[c].op /\ r.step = "capture" /\ r.gen = g
    BY <2>3, CallFields DEF RegistryInv, CallTypes, Call, Steps, Making
  <2> HIDE DEF r
  <2>7. Fits(r.op, "capture") /\ "capture" \in Making /\ "capture" \notin Offering
    BY <1>1, <2>6 DEF Fits, Making, Offering
  <2>8. CallIsSound(c)'
    BY <1>1, <2>3, <2>5, <2>6, <2>7 DEF CallIsSound, Maker, Builds
  <2>9. CallTypes' /\ MakersAreApart' /\ \A d \in Calls : CallIsSound(d)'
    BY <2>3, <2>4, <2>5, <2>6, <2>8, OneCallMoves DEF actors
  <2>10. slot'.serves = slot.serves /\ slot'.ticket = g /\ RegistryTypes'
    BY <2>3 DEF RegistryInv, TypeOK, RegistryTypes
  <2>11. RoutesAreKnown'
    BY <2>3, <2>5, <2>10 DEF RegistryInv, RoutesAreKnown, actors
  <2>12. TicketsAreNew'
    <3>1. Begun' = Begun \cup {g}
      BY <2>3, <2>5 DEF Begun
    <3>2. Begun' = 1..(n + 1)
      BY <2>1, <2>3, <3>1
    <3>3. \A h : Published(h) => Published(h)'
      BY <2>4, <2>5 DEF Published
    <3> QED BY <2>3, <2>4, <2>10, <3>1, <3>2, <3>3 DEF RegistryInv, TicketsAreNew
  <2>13. ActorTypes' /\ WorldTypes'
    BY <1>1, <2>3, TypesHaveParts, PartsStay
  <2> QED BY <2>5, <2>9, <2>10, <2>11, <2>12, <2>13, TypesHaveParts DEF Types, RegistryInv
<1> QED BY <1>2, <1>3

LEMMA BuildKeeps ==
  ASSUME RegistryInv, QueueTypes, NEW c \in Calls, Build(c)
  PROVE  RegistryInv' /\ QueueTypes'
<1> DEFINE g == calls[c].gen
           made == [made |-> "built", inputs |-> calls[c].seen, place |-> calls[c].place,
                    model |-> world.model, valid |-> TRUE]
           r == [calls[c] EXCEPT !.step = "look"]
<1>1. /\ calls[c].op \in {"prepare", "repartition"} /\ Active(c) /\ calls[c].step \in Making
      /\ Types
  BY CallFields DEF Build, Fits, Active, Over, Reading, Making, Offering, RegistryInv, Types
<1>2. Maker(c) /\ g \in Generations /\ gens[g].made = "begun"
  BY <1>1, CallFields DEF Maker, Builds, CallIsSound
<1>3. CASE g \in cancelled
  BY <1>1, <1>3, FailMove DEF Build, actors
<1>4. CASE g \notin cancelled
  <2>1. /\ gens' = [gens EXCEPT ![g] = made] /\ alive' = alive \cup {g}
        /\ calls' = [calls EXCEPT ![c] = r]
        /\ UNCHANGED <<registry, work, mailbox, outside>>
    BY <1>4 DEF Build, Goes
  <2>2. made \in Generation
    <3>1. calls[c].seen \in 1..2
      BY <1>2, CallFields DEF Build, CallIsSound
    <3> QED BY <3>1, CallFields DEF Generation, RegistryInv, TypeOK
  <2>3. r \in Call /\ calls'[c] = r /\ r.op = calls[c].op /\ r.step = "look" /\ r.gen = g
    BY <2>1, CallFields DEF RegistryInv, CallTypes, Call, Steps, Offering
  <2>4. made.made = "built"
    OBVIOUS
  <2> HIDE DEF made, r
  <2>5. /\ gens'[g].made = "built"
        /\ \A h \in Generations : h # g => gens'[h] = gens[h]
        /\ GenTypes'
    BY <1>1, <1>2, <2>1, <2>2, <2>4, TypesHaveParts DEF GenTypes
  <2>6. Fits(r.op, "look") /\ "look" \in Offering /\ "look" \notin Making
        /\ "look" \notin {"index", "build"} /\ Maker(c)'
    BY <1>1, <2>3 DEF Fits, Making, Offering, Maker, Builds
  <2>7. CallIsSound(c)'
    BY <1>1, <1>2, <2>1, <2>3, <2>5, <2>6 DEF CallIsSound
  <2>8. CallTypes' /\ MakersAreApart' /\ \A d \in Calls : CallIsSound(d)'
    BY <1>2, <2>1, <2>3, <2>5, <2>7, OneCallMoves
  <2>9. RoutesAreKnown' /\ TicketsAreNew'
    BY <1>2, <2>1, <2>5, RegistryStays DEF registry
  <2>10. RegistryTypes' /\ WorldTypes'
    BY <1>1, <2>1, TypesHaveParts, PartsStay
  <2>11. ActorTypes'
    BY <1>1, <1>2, <2>1, TypesHaveParts DEF ActorTypes, QueueTypes
  <2> QED BY <2>5, <2>8, <2>9, <2>10, <2>11, TypesHaveParts DEF Types, RegistryInv
<1> QED BY <1>3, <1>4

\* Preparation::publish: the generation replaces the one that was served.
LEMMA PublishKeeps ==
  ASSUME RegistryInv, QueueTypes, NEW c \in Calls, Publish(c)
  PROVE  RegistryInv' /\ QueueTypes'
<1>0. PICK g \in Generations \cup {NoOne} : g = calls[c].gen
  BY CallFields
<1> DEFINE r == [calls[c] EXCEPT !.step = "ok"]
<1>1. /\ calls[c].op \in {"prepare", "repartition"} /\ Active(c)
      /\ calls[c].step \in Offering /\ calls[c].step \notin Making /\ Types
  BY CallFields DEF Publish, Fits, Active, Over, Reading, Making, Offering, RegistryInv, Types
<1>2. Maker(c) /\ g \in Generations /\ gens[g].made = "built" /\ g \in alive
  BY <1>0, <1>1, CallFields DEF Maker, Builds, CallIsSound
<1>3. CASE ~(slot.ticket = g /\ g \notin cancelled)
  BY <1>0, <1>1, <1>3, FailMove DEF Publish
<1>4. CASE slot.ticket = g /\ g \notin cancelled
  <2>1. /\ slot' = [ticket |-> NoOne, serves |-> g]
        /\ gens' = [Stale(slot.serves) EXCEPT ![g].made = "published"]
        /\ registered' = {g} /\ cancelled' = cancelled \cup {g} /\ cleared' = cleared
        /\ calls' = [calls EXCEPT ![c] = r]
        /\ UNCHANGED <<actors, outside>>
    BY <1>0, <1>4 DEF Publish, Goes, ReplaceWorkers
  <2>2. slot.serves \in Generations \cup {NoOne} /\ GenTypes
    BY <1>1, TypesHaveParts DEF RegistryTypes
  <2>3. /\ Stale(slot.serves) \in [Generations -> Generation]
        /\ \A h \in Generations : /\ Stale(slot.serves)[h].made = gens[h].made
                                  /\ Stale(slot.serves)[h].valid => gens[h].valid
        /\ slot.serves # NoOne => ~Stale(slot.serves)[slot.serves].valid
    BY <2>2, StaleIsQuiet
  <2>4. /\ GenTypes' /\ gens'[g].made = "published"
        /\ \A h \in Generations : h # g => gens'[h] = Stale(slot.serves)[h]
    BY <1>2, <2>1, <2>3 DEF GenTypes, Generation
  <2>5. r \in Call /\ calls'[c] = r /\ r.op = calls[c].op /\ r.step = "ok"
    BY <2>1, CallFields DEF RegistryInv, CallTypes, Call, Steps, Over
  <2> HIDE DEF r
  <2>6. ~Maker(c)' /\ Fits(r.op, "ok")
    BY <1>1, <2>5 DEF Maker, Making, Offering, Fits, Over
  <2>7. CallIsSound(c)'
    BY <1>1, <2>5, <2>6 DEF CallIsSound
  <2>8. \A h \in Generations : h # g => gens'[h].made = gens[h].made
    BY <2>3, <2>4
  <2>9. CallTypes' /\ MakersAreApart' /\ \A d \in Calls : CallIsSound(d)'
    <3>1. alive' = alive
      BY <2>1 DEF actors
    <3>2. \A h \in Generations :
            \/ gens'[h].made = gens[h].made \/ gens[h].made = "no"
            \/ Maker(c) /\ h = calls[c].gen /\ gens[h].made # "published"
      BY <1>0, <1>2, <2>8
    <3> QED BY <2>1, <2>5, <2>6, <2>7, <3>1, <3>2, OneCallMoves
  <2>10. RoutesAreKnown'
    <3>1. ASSUME NEW h \in Generations, h # g
          PROVE  ~(gens'[h].made = "published" /\ gens'[h].valid)
      <4>1. gens'[h].valid => gens[h].valid /\ h # slot.serves
        BY <2>3, <2>4, <3>1, NumbersAreNatural
      <4> QED BY <2>8, <3>1, <4>1 DEF RegistryInv, RoutesAreKnown
    <3>2. \A h \in Generations : gens'[h].made = "published" /\ gens'[h].valid => h = g
      BY <3>1
    <3>3. slot'.serves = g /\ g \notin cleared /\ g # NoOne
      BY <1>2, <1>4, <2>1, NumbersAreNatural DEF RegistryInv, TicketsAreNew
    <3> QED BY <1>2, <2>1, <3>2, <3>3 DEF RoutesAreKnown, actors
  <2>11. TicketsAreNew'
    <3>1. Begun' = Begun /\ \A h : Published(h) => Published(h)'
      BY <1>2, <2>4, <2>8 DEF Begun, Published
    <3>2. Published(g)'
      BY <1>2, <2>4 DEF Published
    <3> QED BY <1>1, <2>1, <3>1, <3>2, NumbersAreNatural
            DEF RegistryInv, TypeOK, TicketsAreNew, Published
  <2>12. RegistryTypes' /\ ActorTypes' /\ WorldTypes'
    BY <1>1, <1>2, <2>1, TypesHaveParts, PartsStay DEF RegistryTypes
  <2> QED BY <2>4, <2>9, <2>10, <2>11, <2>12, TypesHaveParts DEF Types, RegistryInv
<1> QED BY <1>3, <1>4

LEMMA ProceedsKeeps ==
  ASSUME RegistryInv, QueueTypes, NEW c \in Calls, Proceeds(c) \/ Interrupt(c)
  PROVE  RegistryInv' /\ QueueTypes'
<1>1. CASE Interrupt(c)
  BY <1>1, FailMove DEF Interrupt
<1> QED
  BY <1>1, FindKeeps, BeginKeeps, CaptureKeeps, IndexKeeps, BuildKeeps, PublishKeeps, GetKeeps,
     LooksKeeps, JudgesKeeps, ResultKeeps, SendKeeps DEF Proceeds

-----------------------------------------------------------------------------
(* The steps of the workers and of the world.                              *)

\* Steps that change no call, or end one that waits for an answer.
LEMMA WorkersKeep ==
  ASSUME RegistryInv, ActorTypes', WorldTypes', UNCHANGED registry, alive' = alive,
         UNCHANGED gens \/ \E g \in Generations \cup {NoOne} : gens' = Stale(g),
         \/ UNCHANGED calls
         \/ \E c \in Calls, outcome \in Over : Waits(c) /\ calls' = [calls EXCEPT ![c].step = outcome]
  PROVE  RegistryInv' /\ QueueTypes'
<1>1. GenTypes /\ RegistryTypes /\ CallTypes
  BY DEF RegistryInv, TypeOK, GenTypes, Generation, RegistryTypes
<1>2. GenTypes' /\ GensStay
  BY <1>1, StaleIsQuiet DEF GenTypes, GensStay
<1>3. RoutesAreKnown' /\ TicketsAreNew'
  BY <1>2, NumbersAreNatural, RegistryStays DEF registry, GensStay
<1>4. \A g : Published(g) => Published(g)'
  BY <1>2 DEF Published, GensStay
<1>5. CallTypes' /\ MakersAreApart' /\ \A d \in Calls : CallIsSound(d)'
  <2>1. CASE UNCHANGED calls
    <3>1. CallTypes' /\ MakersAreApart' /\ \A d \in Calls : Maker(d)' <=> Maker(d)
      BY <1>1, <2>1 DEF CallTypes, RegistryInv, MakersAreApart, Maker, Builds
    <3>2. ASSUME NEW d \in Calls PROVE CallIsSound(d)'
      BY <1>2, <1>4, <2>1, <3>1 DEF RegistryInv, CallIsSound, GensStay
    <3> QED BY <3>1, <3>2
  <2>2. ASSUME NEW c \in Calls, NEW outcome \in Over, Waits(c),
               calls' = [calls EXCEPT ![c].step = outcome]
        PROVE  CallTypes' /\ MakersAreApart' /\ \A d \in Calls : CallIsSound(d)'
    <3> DEFINE r == [calls[c] EXCEPT !.step = outcome]
    <3>1. /\ calls' = [calls EXCEPT ![c] = r] /\ r \in Call /\ calls'[c] = r
          /\ r.op = calls[c].op /\ r.step = outcome /\ r.worker = calls[c].worker
      BY <2>2, CallFields DEF RegistryInv, CallTypes, Call, Steps
    <3> HIDE DEF r
    <3>2. calls[c].op = "ask" /\ Fits(r.op, r.step)
      BY <2>2, <3>1, CallFields DEF Waits, Fits, Over, Making, Offering, Reading
    <3>3. ~Maker(c)'
      BY <3>1, <3>2 DEF Maker, Builds
    <3>4. CallIsSound(c)'
      BY <1>4, <3>1, <3>2, <3>3, CallFields DEF CallIsSound
    <3> QED BY <1>2, <3>1, <3>3, <3>4, OneCallMoves DEF GensStay
  <2> QED BY <2>1, <2>2
<1>6. RegistryTypes'
  BY <1>1, PartsStay
<1> QED BY <1>2, <1>3, <1>5, <1>6, TypesHaveParts DEF Types, RegistryInv

LEMMA TakeKeeps ==
  ASSUME RegistryInv, QueueTypes, NEW g \in Generations, Take(g)
  PROVE  RegistryInv' /\ QueueTypes'
<1>1. ActorTypes /\ WorldTypes
  BY TypesHaveParts DEF RegistryInv, Types
<1>2. /\ mailbox[g] \in Seq(Calls) /\ mailbox[g] # <<>>
      /\ work' = [work EXCEPT ![g].asker = Head(mailbox[g]), ![g].step = "gate"]
      /\ mailbox' = [mailbox EXCEPT ![g] = Tail(mailbox[g])]
  BY DEF Take, QueueTypes
<1>3. Head(mailbox[g]) \in Calls /\ Tail(mailbox[g]) \in Seq(Calls)
  BY <1>2
<1>4. ActorTypes'
  <2>1. work[g] \in Job
    BY <1>1 DEF ActorTypes
  <2> DEFINE r == [work[g] EXCEPT !.asker = Head(mailbox[g]), !.step = "gate"]
  <2>2. r \in Job
    BY <1>3, <2>1 DEF Job
  <2>3. work' = [work EXCEPT ![g] = r]
    BY <1>1, <1>2 DEF ActorTypes
  <2> HIDE DEF r
  <2> QED BY <1>1, <1>2, <1>3, <2>2, <2>3 DEF Take, ActorTypes, QueueTypes
<1> QED BY <1>1, <1>4, PartsStay, WorkersKeep DEF Take

LEMMA WorkerKeeps ==
  ASSUME RegistryInv, QueueTypes, NEW g \in Generations,
         \/ Enter(g) \/ WorkerLooks(g) \/ WorkerJudges(g) \/ ModelAnswers(g) \/ GivesUp(g)
  PROVE  RegistryInv' /\ QueueTypes'
<1>1. ActorTypes /\ WorldTypes
  BY TypesHaveParts DEF RegistryInv, Types
<1>2. UNCHANGED registry /\ alive' = alive /\ mailbox' = mailbox /\ UNCHANGED outside
  BY DEF Enter, WorkerLooks, WorkerJudges, ModelAnswers, GivesUp
<1>3. UNCHANGED gens \/ \E h \in Generations \cup {NoOne} : gens' = Stale(h)
  BY DEF Enter, WorkerLooks, WorkerJudges, ModelAnswers, GivesUp
<1>4. \/ UNCHANGED calls /\ \/ Enter(g) \/ WorkerLooks(g) \/ Sets(g, "model") \/ Sets(g, "look again")
      \/ Replies(g, "ok") \/ Replies(g, "failed")
  BY DEF Enter, WorkerLooks, WorkerJudges, ModelAnswers, GivesUp, Over
<1>5. ASSUME NEW outcome \in Over, Replies(g, outcome)
      PROVE  /\ ActorTypes'
             /\ \/ UNCHANGED calls
                \/ \E c \in Calls : Waits(c) /\ calls' = [calls EXCEPT ![c].step = outcome]
  <2>1. ActorTypes'
    <3>1. Asleep \in Job
      BY NumbersAreNatural DEF Asleep, Job
    <3> QED BY <1>1, <1>2, <1>5, <3>1 DEF Replies, ActorTypes, QueueTypes
  <2>2. work[g].asker \in Calls \/ UNCHANGED calls
    <3>1. work[g].asker \in Calls \cup {NoOne}
      BY <1>1 DEF ActorTypes, Job
    <3>2. calls \in [Calls -> Call] /\ NoOne \notin Calls
      BY NumbersAreNatural DEF RegistryInv, CallTypes
    <3>3. CASE work[g].asker = NoOne
      BY <1>5, <3>2, <3>3 DEF Replies, Goes
    <3> QED BY <3>1, <3>3
  <2> QED BY <1>5, <2>1, <2>2 DEF Replies, Goes
<1>6. CASE UNCHANGED calls /\ \/ Enter(g) \/ WorkerLooks(g) \/ Sets(g, "model") \/ Sets(g, "look again")
  <2>1. work[g] \in Job /\ Matches(g) \in BOOLEAN
    BY <1>1 DEF ActorTypes, Matches
  <2>2. ASSUME NEW step \in {"look", "model", "look again"}, Sets(g, step) PROVE ActorTypes'
    BY <1>1, <1>2, <2>1, <2>2 DEF Sets, ActorTypes, QueueTypes, Job
  <2>3. ASSUME WorkerLooks(g) PROVE ActorTypes'
    <3> DEFINE r == [work[g] EXCEPT !.step = IF work[g].step = "look" THEN "judge"
                                             ELSE "judge again", !.seen = Matches(g)]
    <3>1. r \in Job
      BY <2>1 DEF Job
    <3>2. work' = [work EXCEPT ![g] = r]
      BY <1>1, <2>3 DEF WorkerLooks, ActorTypes
    <3> HIDE DEF r
    <3> QED BY <1>1, <1>2, <3>1, <3>2 DEF ActorTypes, QueueTypes
  <2>4. ActorTypes'
    BY <1>6, <2>2, <2>3 DEF Enter
  <2> QED BY <1>1, <1>2, <1>3, <1>6, <2>4, PartsStay, WorkersKeep
<1>7. ASSUME NEW outcome \in Over, Replies(g, outcome) PROVE RegistryInv' /\ QueueTypes'
  BY <1>1, <1>2, <1>3, <1>5, <1>7, PartsStay, WorkersKeep
<1> QED BY <1>4, <1>6, <1>7 DEF Over

LEMMA WorldKeeps ==
  ASSUME RegistryInv, QueueTypes, (\E p \in Places : Edit(p)) \/ SwitchModel
  PROVE  RegistryInv' /\ QueueTypes'
<1>1. GenTypes /\ ActorTypes /\ WorldTypes
  BY TypesHaveParts DEF RegistryInv, Types
<1>2. /\ UNCHANGED <<registry, gens, actors, calls>> /\ changes < MaxChanges
      /\ changes' = changes + 1
  BY DEF Edit, SwitchModel, Changes
<1>3. \A n \in 1..2 : Other(n) \in 1..2
  BY DEF Other
<1>4. changes' \in 0..MaxChanges
  BY <1>1, <1>2, KnowledgeAssumption DEF WorldTypes
<1>5. ASSUME NEW p \in Places, Edit(p) PROVE WorldTypes'
  <2>1. world' = [world EXCEPT !.content = [world.content EXCEPT ![p] = Other(@)]]
    BY <1>5 DEF Edit
  <2>2. [world.content EXCEPT ![p] = Other(@)] \in [Places -> 1..2]
    BY <1>1, <1>3 DEF WorldTypes
  <2> QED BY <1>1, <1>4, <2>1, <2>2 DEF WorldTypes
<1>6. ASSUME SwitchModel PROVE WorldTypes'
  BY <1>1, <1>3, <1>4, <1>6 DEF SwitchModel, WorldTypes
<1>7. WorldTypes' /\ ActorTypes' /\ alive' = alive
  BY <1>1, <1>2, <1>5, <1>6, PartsStay DEF actors
<1> QED BY <1>2, <1>7, WorkersKeep

\* A worker that nothing holds is killed, and those that wait for it fail.
LEMMA DiesKeeps ==
  ASSUME RegistryInv, QueueTypes, NEW g \in Generations, Dies(g)
  PROVE  RegistryInv' /\ QueueTypes'
<1>1. Types
  BY DEF RegistryInv, Types
<1>2. /\ g \notin registered /\ ~Building(g) /\ alive' = alive \ {g}
      /\ work' = [work EXCEPT ![g] = Asleep] /\ mailbox' = [mailbox EXCEPT ![g] = <<>>]
      /\ UNCHANGED <<registry, gens, outside>>
  BY DEF Dies
<1>3. \A c \in Calls : calls'[c] = IF Waits(c) /\ calls[c].worker = g
                                   THEN [calls[c] EXCEPT !.step = "failed"] ELSE calls[c]
  BY DEF Dies
<1>4. \A c \in Calls : /\ calls'[c] \in Call /\ calls'[c].op = calls[c].op
                       /\ calls'[c].gen = calls[c].gen /\ calls'[c].worker = calls[c].worker
                       /\ calls'[c].seen = calls[c].seen
                       /\ \/ calls'[c].step = calls[c].step
                          \/ calls[c].step = "wait" /\ calls'[c].step = "failed"
  <2> SUFFICES ASSUME NEW c \in Calls
               PROVE  /\ calls'[c] \in Call /\ calls'[c].op = calls[c].op
                      /\ calls'[c].gen = calls[c].gen /\ calls'[c].worker = calls[c].worker
                      /\ calls'[c].seen = calls[c].seen
                      /\ \/ calls'[c].step = calls[c].step
                         \/ calls[c].step = "wait" /\ calls'[c].step = "failed"
    OBVIOUS
  <2>1. calls[c] \in Call /\ "failed" \in Steps
    BY CallFields DEF Steps, Over
  <2>2. CASE Waits(c) /\ calls[c].worker = g
    BY <1>3, <2>1, <2>2 DEF Call, Waits
  <2>3. CASE ~(Waits(c) /\ calls[c].worker = g)
    BY <1>3, <2>1, <2>3
  <2> QED BY <2>2, <2>3
<1>5. CallTypes'
  BY <1>4 DEF Dies, CallTypes
<1>6. \A c \in Calls : Maker(c)' <=> Maker(c)
  BY <1>4 DEF Maker, Builds, Making, Offering
<1>7. MakersAreApart'
  BY <1>4, <1>6 DEF RegistryInv, MakersAreApart
<1>8. ASSUME NEW c \in Calls PROVE CallIsSound(c)'
  <2>1. CallIsSound(c) /\ \A h : Published(h)' <=> Published(h)
    BY <1>2 DEF RegistryInv, Published
  <2>2. Maker(c) => calls[c].gen # g
    BY <1>2 DEF Maker, Building, Active, Making, Offering
  <2>3. CASE calls'[c].step = calls[c].step
    BY <1>2, <1>4, <1>6, <2>1, <2>2, <2>3 DEF CallIsSound
  <2>4. CASE calls[c].step = "wait" /\ calls'[c].step = "failed"
    <3>1. calls[c].op = "ask" /\ ~Maker(c)
      BY <2>4, CallFields DEF Fits, Maker, Making, Offering, Over, Reading
    <3> QED BY <1>4, <1>6, <2>1, <2>4, <3>1 DEF CallIsSound, Fits, Over
  <2> QED BY <1>4, <2>3, <2>4
<1>9. RoutesAreKnown'
  BY <1>2 DEF RegistryInv, RoutesAreKnown, registry
<1>10. TicketsAreNew'
  BY <1>2 DEF RegistryInv, TicketsAreNew, registry, Begun, Published
<1>11. GenTypes' /\ RegistryTypes' /\ WorldTypes'
  BY <1>1, <1>2, TypesHaveParts, PartsStay
<1>12. ActorTypes'
  <2>1. Asleep \in Job /\ <<>> \in Seq(Calls)
    BY NumbersAreNatural DEF Asleep, Job
  <2> QED BY <1>1, <1>2, <2>1, TypesHaveParts DEF ActorTypes, QueueTypes
<1> QED BY <1>5, <1>7, <1>8, <1>9, <1>10, <1>11, <1>12, TypesHaveParts DEF Types, RegistryInv

\* Knowledge that is cleared: what was begun before is never served again.
LEMMA RetireKeeps ==
  ASSUME RegistryInv, Retire
  PROVE  /\ RoutesAreKnown' /\ TicketsAreNew' /\ GenTypes' /\ RegistryTypes'
         /\ GensStay /\ \A g : Published(g) => Published(g)'
<1>1. GenTypes /\ RegistryTypes
  BY TypesHaveParts DEF RegistryInv, TypeOK, GenTypes, Generation, RegistryTypes
<1>2. GenTypes' /\ GensStay
  BY <1>1, StaleIsQuiet DEF Retire, RegistryTypes, GenTypes, GensStay
<1>3. /\ slot' = [ticket |-> NoOne, serves |-> NoOne] /\ registered' = {} /\ cleared' = Begun
      /\ Begun \subseteq Generations
  BY DEF Retire, Begun
<1>4. RegistryTypes'
  BY <1>1, <1>3 DEF RegistryTypes, Retire
<1>5. RoutesAreKnown'
  <2>1. ASSUME NEW g \in Generations, gens'[g].made = "published", gens'[g].valid PROVE FALSE
    <3>1. gens[g].made = "published" /\ gens[g].valid
      BY <1>2, <2>1 DEF GensStay
    <3>2. slot.serves = g /\ g # NoOne
      BY <3>1, NumbersAreNatural DEF RegistryInv, RoutesAreKnown
    <3>3. ~gens'[g].valid
      BY <1>1, <3>2, StaleIsQuiet DEF Retire
    <3> QED BY <2>1, <3>3
  <2> QED BY <1>3, <2>1, NumbersAreNatural DEF RoutesAreKnown
<1>6. \A g : Published(g) => Published(g)'
  BY <1>2 DEF Published, GensStay
<1>7. TicketsAreNew'
  <2>1. Begun' = Begun
    BY <1>2 DEF Begun, GensStay
  <2> QED BY <1>3, <2>1, NumbersAreNatural DEF RegistryInv, TicketsAreNew
<1> QED BY <1>2, <1>4, <1>5, <1>6, <1>7

LEMMA ClearKeeps ==
  ASSUME RegistryInv, QueueTypes, NEW c \in Calls, Clear(c)
  PROVE  RegistryInv' /\ QueueTypes'
<1> DEFINE r == [calls[c] EXCEPT !.op = "clear", !.step = "ok"]
<1>1. Types /\ UNCHANGED <<actors, outside>> /\ calls[c].step = "new"
  BY DEF Clear, MayStart, RegistryInv, Types
<1>2. /\ calls' = [calls EXCEPT ![c] = r] /\ r \in Call /\ calls'[c] = r
      /\ r.op = "clear" /\ r.step = "ok"
  BY CallFields DEF Clear, RegistryInv, CallTypes, Call, Steps, Over
<1> HIDE DEF r
<1>3. ~Maker(c)' /\ Fits(r.op, r.step)
  BY <1>2 DEF Maker, Builds, Fits
<1>4. CallIsSound(c)'
  BY <1>2, <1>3 DEF CallIsSound
<1>5. Retire /\ alive' = alive
  BY <1>1 DEF Clear, actors
<1>6. CallTypes' /\ MakersAreApart' /\ \A d \in Calls : CallIsSound(d)'
  BY <1>2, <1>3, <1>4, <1>5, OneCallMoves, RetireKeeps DEF GensStay
<1>7. ActorTypes' /\ WorldTypes'
  BY <1>1, TypesHaveParts, PartsStay
<1> QED BY <1>5, <1>6, <1>7, RetireKeeps, TypesHaveParts DEF Types, RegistryInv

LEMMA LeavingKeeps ==
  ASSUME RegistryInv, QueueTypes, Relocate \/ CloseConversation
  PROVE  RegistryInv' /\ QueueTypes'
<1>1. Types /\ Retire /\ calls' = calls
  BY DEF RegistryInv, Types, Relocate, CloseConversation
<1>2. WorldTypes'
  <2>1. CASE Relocate
    BY <1>1, <2>1, TypesHaveParts, KnowledgeAssumption DEF Relocate, Changes, WorldTypes, Places
  <2>2. CASE CloseConversation
    BY <1>1, <2>2, TypesHaveParts, PartsStay DEF CloseConversation
  <2> QED BY <2>1, <2>2
<1>3. ActorTypes' /\ (alive' = alive \/ CloseConversation)
  <2>1. CASE Relocate
    BY <1>1, <2>1, TypesHaveParts, PartsStay DEF Relocate, actors
  <2>2. CASE CloseConversation
    <3>1. Asleep \in Job /\ <<>> \in Seq(Calls)
      BY NumbersAreNatural DEF Asleep, Job
    <3> QED BY <1>1, <2>2, <3>1, TypesHaveParts DEF CloseConversation, ActorTypes, QueueTypes
  <2> QED BY <2>1, <2>2
<1>4. CallTypes' /\ MakersAreApart' /\ \A d \in Calls : Maker(d)' <=> Maker(d)
  BY <1>1 DEF CallTypes, RegistryInv, MakersAreApart, Maker, Builds
<1>5. ASSUME NEW d \in Calls PROVE CallIsSound(d)'
  <2>1. CloseConversation => ~Maker(d)
    BY DEF CloseConversation, Active, Maker, Making, Offering
  <2> QED BY <1>1, <1>3, <1>4, <2>1, RetireKeeps DEF RegistryInv, CallIsSound, GensStay
<1> QED BY <1>1, <1>2, <1>3, <1>4, <1>5, RetireKeeps, TypesHaveParts DEF Types, RegistryInv

LEMMA StepKeeps ==
  ASSUME RegistryInv, QueueTypes, Step
  PROVE  RegistryInv' /\ QueueTypes'
<1>1. ASSUME NEW c \in Calls,
             StartPrepare(c) \/ StartRepartition(c) \/ StartSearch(c) \/ StartAsk(c)
      PROVE  RegistryInv' /\ QueueTypes'
  BY <1>1, StartsKeep DEF StartPrepare, StartRepartition, StartSearch, StartAsk
<1>2. ASSUME NEW c \in Calls, Clear(c) \/ Interrupt(c) \/ Proceeds(c)
      PROVE  RegistryInv' /\ QueueTypes'
  BY <1>2, ClearKeeps, ProceedsKeeps
<1>3. ASSUME NEW g \in Generations, WorkerProceeds(g) \/ Dies(g)
      PROVE  RegistryInv' /\ QueueTypes'
  BY <1>3, TakeKeeps, WorkerKeeps, DiesKeeps DEF WorkerProceeds
<1> QED BY <1>1, <1>2, <1>3, WorldKeeps, LeavingKeeps DEF Step

-----------------------------------------------------------------------------
(* Questions.                                                              *)

\* Steps of one call, and of one worker.
CallActs(d) ==
  \/ StartPrepare(d) \/ StartRepartition(d) \/ StartSearch(d) \/ StartAsk(d)
  \/ Clear(d) \/ Interrupt(d) \/ Proceeds(d)
WorldActs ==
  (\E p \in Places : Edit(p)) \/ SwitchModel \/ Relocate

LEMMA OthersStay ==
  ASSUME RegistryInv, NEW d \in Calls, CallActs(d)
  PROVE  /\ \A c \in Calls : c # d => calls'[c] = calls[c]
         /\ work' = work /\ world' = world
         /\ mailbox' = mailbox \/ Send(d)
<1>1. \A c \in Calls : c # d => calls'[c] = calls[c]
  <2>1. CASE StartPrepare(d) \/ StartRepartition(d) \/ StartSearch(d) \/ StartAsk(d)
    BY <2>1 DEF StartPrepare, StartRepartition, StartSearch, StartAsk, Starts, RegistryInv, CallTypes
  <2>2. CASE Clear(d) \/ Interrupt(d)
    BY <2>2 DEF Clear, Interrupt, Fails, Goes, RegistryInv, CallTypes
  <2>3. CASE Find(d) \/ Begin(d) \/ Capture(d) \/ Index(d) \/ Build(d) \/ Publish(d)
    BY <2>3 DEF Find, Begin, Capture, Index, Build, Publish, Fails, Goes, RegistryInv, CallTypes
  <2>4. CASE Get(d) \/ Looks(d) \/ Judges(d) \/ Result(d) \/ Send(d)
    BY <2>4 DEF Get, Looks, Judges, Result, Send, Fails, Goes, RegistryInv, CallTypes
  <2> QED BY <2>1, <2>2, <2>3, <2>4 DEF CallActs, Proceeds
<1>2. work' = work /\ world' = world /\ (mailbox' = mailbox \/ Send(d))
  BY DEF CallActs, Proceeds, StartPrepare, StartRepartition, StartSearch, StartAsk, Starts, Clear,
         Interrupt, Find, Begin, Capture, Index, Build, Publish, Get, Looks, Judges, Result, Send,
         actors, outside
<1> QED BY <1>1, <1>2

\* What a step may do to a call that has asked.
CallsSettle ==
  \A c \in Calls : calls[c].op = "ask" /\ calls[c].step \in {"wait"} \cup Over =>
    /\ calls'[c].op = "ask" /\ calls'[c].worker = calls[c].worker
    /\ \/ calls'[c].step = calls[c].step
       \/ calls[c].step = "wait" /\ calls'[c].step \in Over

LEMMA CallsDoSettle ==
  ASSUME RegistryInv, QueueTypes, Step
  PROVE  CallsSettle
<1> SUFFICES ASSUME NEW c \in Calls, calls[c].op = "ask", calls[c].step \in {"wait"} \cup Over
             PROVE  /\ calls'[c].op = "ask" /\ calls'[c].worker = calls[c].worker
                    /\ \/ calls'[c].step = calls[c].step
                       \/ calls[c].step = "wait" /\ calls'[c].step \in Over
  BY DEF CallsSettle
<1>1. calls[c] \in Call /\ calls \in [Calls -> Call]
  BY DEF RegistryInv, CallTypes
<1>2. ASSUME NEW outcome \in Over, Waits(c), calls'[c] = [calls[c] EXCEPT !.step = outcome]
      PROVE  /\ calls'[c].op = "ask" /\ calls'[c].worker = calls[c].worker
             /\ calls[c].step = "wait" /\ calls'[c].step \in Over
  BY <1>1, <1>2 DEF Waits, Call
<1>3. ASSUME NEW d \in Calls, CallActs(d)
      PROVE  \/ calls'[c] = calls[c]
             \/ Waits(c) /\ calls'[c] = [calls[c] EXCEPT !.step = "failed"]
  <2>1. CASE d # c
    BY <1>3, <2>1, OthersStay
  <2>2. CASE d = c
    <3>1. Interrupt(c)
      BY <1>3, <2>2 DEF CallActs, Proceeds, StartPrepare, StartRepartition, StartSearch, StartAsk,
         Starts, Clear, MayStart, Find, Begin, Capture, Index, Build, Publish, Get, Looks, Judges,
         Result, Send, Over
    <3> QED BY <1>1, <3>1 DEF Interrupt, Active, Fails, Goes, Waits, Over
  <2> QED BY <2>1, <2>2
<1>4. ASSUME NEW g \in Generations, WorkerProceeds(g) \/ Dies(g)
      PROVE  \/ calls'[c] = calls[c]
             \/ \E outcome \in Over : Waits(c) /\ calls'[c] = [calls[c] EXCEPT !.step = outcome]
  BY <1>1, <1>4 DEF WorkerProceeds, Dies, Take, Enter, WorkerLooks, WorkerJudges, ModelAnswers,
     GivesUp, Replies, Goes, Over
<1>5. CASE WorldActs \/ CloseConversation
  BY <1>5 DEF WorldActs, Edit, SwitchModel, Relocate, CloseConversation
<1> QED BY <1>2, <1>3, <1>4, <1>5 DEF Step, CallActs, WorldActs, Over

\* A question moves from its call to a mailbox, to the worker, and is dropped.
LEMMA QuestionsStay ==
  ASSUME KnowledgeInv, Step,
         \A g \in Generations : \A c \in Calls :
           c \in ToSet(mailbox'[g]) \/ work'[g].asker = c =>
             \/ c \in ToSet(mailbox[g]) \/ work[g].asker = c
             \/ calls'[c].op = "ask" /\ calls'[c].worker = g /\ calls'[c].step = "wait",
         \A g \in Generations : work'[g].step # "idle" <=> work'[g].asker # NoOne
  PROVE  QuestionsAreAsked'
<1>1. CallsSettle
  BY CallsDoSettle DEF KnowledgeInv
<1> QED BY <1>1 DEF KnowledgeInv, QuestionsAreAsked, CallsSettle, InHand

LEMMA QuestionsAfterCalls ==
  ASSUME KnowledgeInv, Step, NEW d \in Calls, CallActs(d)
  PROVE  QuestionsAreAsked'
<1>1. work' = work /\ (mailbox' = mailbox \/ Send(d))
  BY OthersStay DEF KnowledgeInv
<1>2. \A g \in Generations : work'[g].step # "idle" <=> work'[g].asker # NoOne
  BY <1>1 DEF KnowledgeInv, QuestionsAreAsked, InHand
<1>3. CASE mailbox' = mailbox
  BY <1>1, <1>2, <1>3, QuestionsStay
<1>4. CASE Send(d) /\ mailbox' # mailbox
  <2>1. /\ mailbox' = [mailbox EXCEPT ![calls[d].worker] = Append(@, d)]
        /\ calls' = [calls EXCEPT ![d].step = "wait"]
    BY <1>4 DEF Send, Goes
  <2>2. calls[d].op = "ask" /\ calls[d] \in Call
    BY <1>4, CallFields DEF KnowledgeInv, Send, Fits, Making, Offering, Reading, Over
  <2>3. calls'[d].op = "ask" /\ calls'[d].worker = calls[d].worker /\ calls'[d].step = "wait"
    BY <2>1, <2>2 DEF KnowledgeInv, RegistryInv, CallTypes, Call
  <2>4. ASSUME NEW g \in Generations, NEW c \in Calls, c \in ToSet(mailbox'[g])
        PROVE  c \in ToSet(mailbox[g]) \/ (c = d /\ g = calls[d].worker)
    <3>1. mailbox[g] \in Seq(Calls) /\ mailbox'[g] = IF g = calls[d].worker
                                                     THEN Append(mailbox[g], d) ELSE mailbox[g]
      BY <2>1 DEF KnowledgeInv, QueueTypes
    <3>2. PICK i \in DOMAIN mailbox'[g] : c = mailbox'[g][i]
      BY <2>4 DEF ToSet
    <3> QED BY <3>1, <3>2 DEF ToSet
  <2> QED BY <1>1, <1>2, <2>3, <2>4, QuestionsStay
<1> QED BY <1>1, <1>3, <1>4

\* What a step of a worker does to the workers and their mailboxes.
LEMMA QuestionsAfterWorkers ==
  ASSUME KnowledgeInv, Step, NEW g \in Generations, WorkerProceeds(g) \/ Dies(g)
  PROVE  QuestionsAreAsked'
<1>1. work \in [Generations -> Job] /\ mailbox \in [Generations -> Seq(Calls)] /\ NoOne \notin Calls
  BY TypesHaveParts, NumbersAreNatural DEF KnowledgeInv, RegistryInv, Types, ActorTypes, QueueTypes
<1>2. \A h \in Generations : work[h].step # "idle" <=> work[h].asker # NoOne
  BY DEF KnowledgeInv, QuestionsAreAsked, InHand
<1>3. CASE Take(g)
  <2>1. /\ mailbox[g] \in Seq(Calls) /\ mailbox[g] # <<>>
        /\ work' = [work EXCEPT ![g].asker = Head(mailbox[g]), ![g].step = "gate"]
        /\ mailbox' = [mailbox EXCEPT ![g] = Tail(mailbox[g])]
    BY <1>1, <1>3 DEF Take
  <2>2. /\ work'[g].asker = Head(mailbox[g]) /\ work'[g].step = "gate"
        /\ mailbox'[g] = Tail(mailbox[g])
        /\ \A h \in Generations : h # g => work'[h] = work[h] /\ mailbox'[h] = mailbox[h]
    BY <1>1, <2>1 DEF Job
  <2>3. /\ Head(mailbox[g]) \in Calls /\ Head(mailbox[g]) \in ToSet(mailbox[g])
        /\ ToSet(Tail(mailbox[g])) \subseteq ToSet(mailbox[g])
    <3>1. Len(mailbox[g]) > 0 /\ Head(mailbox[g]) = mailbox[g][1] /\ mailbox[g][1] \in Calls
      BY <2>1
    <3>2. ASSUME NEW x \in ToSet(Tail(mailbox[g])) PROVE x \in ToSet(mailbox[g])
      <4>1. PICK i \in DOMAIN Tail(mailbox[g]) : x = Tail(mailbox[g])[i]
        BY DEF ToSet
      <4>2. i \in 1..(Len(mailbox[g]) - 1) /\ x = mailbox[g][i + 1]
        BY <2>1, <3>1, <4>1
      <4>3. i + 1 \in DOMAIN mailbox[g]
        BY <2>1, <3>1, <4>2
      <4> QED BY <4>2, <4>3 DEF ToSet
    <3>3. 1 \in DOMAIN mailbox[g]
      BY <2>1, <3>1
    <3> QED BY <3>1, <3>2, <3>3 DEF ToSet
  <2> QED BY <1>1, <1>2, <2>2, <2>3, QuestionsStay
<1>4. ASSUME mailbox' = mailbox, work' = [work EXCEPT ![g] = Asleep] PROVE QuestionsAreAsked'
  <2>1. work'[g] = Asleep /\ \A h \in Generations : h # g => work'[h] = work[h]
    BY <1>1, <1>4
  <2> QED BY <1>1, <1>2, <1>4, <2>1, QuestionsStay DEF Asleep
<1>5. CASE Dies(g)
  <2>1. /\ work'[g] = Asleep /\ mailbox'[g] = <<>>
        /\ \A h \in Generations : h # g => work'[h] = work[h] /\ mailbox'[h] = mailbox[h]
    BY <1>1, <1>5 DEF Dies
  <2>2. ToSet(<<>>) = {}
    BY DEF ToSet
  <2>3. Asleep.step = "idle" /\ Asleep.asker = NoOne
    BY DEF Asleep
  <2>4. \A h \in Generations : work'[h].step # "idle" <=> work'[h].asker # NoOne
    BY <1>2, <2>1, <2>3
  <2>5. \A h \in Generations : \A c \in Calls :
          c \in ToSet(mailbox'[h]) \/ work'[h].asker = c =>
            c \in ToSet(mailbox[h]) \/ work[h].asker = c
    BY <1>1, <2>1, <2>2, <2>3
  <2> QED BY <2>4, <2>5, QuestionsStay
<1>6. ASSUME mailbox' = mailbox, InHand(g),
             \A h \in Generations : work'[h].asker = work[h].asker,
             \A h \in Generations : h # g => work'[h] = work[h], work'[g].step # "idle"
      PROVE  QuestionsAreAsked'
  BY <1>2, <1>6, QuestionsStay DEF InHand
<1>7. CASE Enter(g) \/ WorkerLooks(g) \/ WorkerJudges(g) \/ ModelAnswers(g) \/ GivesUp(g)
  <2>1. mailbox' = mailbox /\ InHand(g)
    BY <1>7 DEF Enter, WorkerLooks, WorkerJudges, ModelAnswers, GivesUp, InHand
  <2>2. CASE work' = [work EXCEPT ![g] = Asleep]
    BY <1>4, <2>1, <2>2
  <2>3. CASE work' # [work EXCEPT ![g] = Asleep]
    <3>1. \/ \E step \in {"look", "model", "look again"} : work' = [work EXCEPT ![g].step = step]
          \/ WorkerLooks(g)
      BY <1>7, <2>3 DEF Enter, WorkerJudges, ModelAnswers, GivesUp, Sets, Replies
    <3>2. /\ \A h \in Generations : work'[h].asker = work[h].asker
          /\ \A h \in Generations : h # g => work'[h] = work[h]
          /\ work'[g].step # "idle"
      <4>1. work[g] \in Job
        BY <1>1
      <4>2. ASSUME NEW step \in {"look", "model", "look again"},
                   work' = [work EXCEPT ![g].step = step]
            PROVE  work'[g].asker = work[g].asker /\ work'[g].step = step
        BY <1>1, <4>1, <4>2 DEF Job
      <4>3. ASSUME WorkerLooks(g)
            PROVE  work'[g].asker = work[g].asker /\ work'[g].step \in {"judge", "judge again"}
        BY <1>1, <4>1, <4>3 DEF WorkerLooks, Job
      <4>4. \A h \in Generations : h # g => work'[h] = work[h]
        BY <1>1, <3>1 DEF WorkerLooks
      <4> QED BY <3>1, <4>2, <4>3, <4>4
    <3> QED BY <1>6, <2>1, <3>2
  <2> QED BY <2>2, <2>3
<1> QED BY <1>3, <1>5, <1>7 DEF WorkerProceeds

LEMMA QuestionsKeep ==
  ASSUME KnowledgeInv, Step
  PROVE  QuestionsAreAsked'
<1>1. CASE WorldActs
  <2>1. work' = work /\ mailbox' = mailbox
    BY <1>1 DEF WorldActs, Edit, SwitchModel, Relocate, actors
  <2> QED BY <2>1, QuestionsStay DEF KnowledgeInv, QuestionsAreAsked, InHand
<1>2. CASE CloseConversation
  <2>1. \A g \in Generations :
          \/ work'[g] = Asleep /\ mailbox'[g] = <<>>
          \/ work'[g] = work[g] /\ mailbox'[g] = mailbox[g]
    BY <1>2 DEF CloseConversation
  <2>2. ToSet(<<>>) = {}
    BY DEF ToSet
  <2> QED BY <2>1, <2>2, NumbersAreNatural, QuestionsStay
          DEF KnowledgeInv, QuestionsAreAsked, InHand, Asleep
<1> QED BY <1>1, <1>2, QuestionsAfterCalls, QuestionsAfterWorkers DEF Step, CallActs, WorldActs

-----------------------------------------------------------------------------
(* Answers.                                                                *)

\* What is to be shown of a call after a step.
AnswerIsFine(c) ==
  /\ unseen'[c] \subseteq {"files", "model", "service"}
  /\ Answered(c)' /\ Compared(c)' => "files" \notin unseen'[c]
  /\ calls'[c].step = "ok" => unseen'[c] = {}

LEMMA AnswersKeep ==
  ASSUME Observed, \A c \in Calls : AnswerIsFine(c)
  PROVE  ChecksAreKept' /\ AnswersAreCurrent'
<1>1. unseen' = [c \in Calls |-> unseen'[c]]
  BY DEF Observed
<1> QED BY <1>1 DEF AnswerIsFine, ChecksAreKept, AnswersAreCurrent

LEMMA UnseenAfter ==
  ASSUME KnowledgeInv, Observed, NEW c \in Calls
  PROVE  /\ unseen'[c] \subseteq {"files", "model", "service"}
         /\ unseen[c] \subseteq {"files", "model", "service"}
         /\ ~Answered(c)' => unseen'[c] = {}
         /\ Answered(c)' /\ Answered(c) /\ calls[c].step = "ok" => unseen'[c] = unseen[c]
         /\ Answered(c)' /\ Answered(c) /\ calls[c].step # "ok" =>
              unseen'[c] = unseen[c] \cap Wrong(UsedBy(c))'
<1>1. unseen'[c] = Observe(c)
  BY DEF Observed
<1>2. unseen[c] \subseteq {"files", "model", "service"}
  BY DEF KnowledgeInv, ChecksAreKept
<1>3. Wrong(UsedBy(c))' \subseteq {"files", "model", "service"}
  BY DEF Wrong
<1> QED BY <1>1, <1>2, <1>3 DEF Observe

\* A call that a step does not concern.
LEMMA QuietAnswer ==
  ASSUME KnowledgeInv, Observed, NEW c \in Calls, calls'[c] = calls[c],
         calls[c].step # "ok" /\ Answered(c)' => Answered(c),
         calls[c].step # "ok" /\ Compared(c)' => Compared(c)
  PROVE  AnswerIsFine(c)
<1>1. CASE calls[c].step = "ok"
  <2>1. unseen[c] = {} /\ (Answered(c)' <=> Answered(c))
    BY <1>1 DEF KnowledgeInv, AnswersAreCurrent, Answered
  <2> QED BY <1>1, <2>1, UnseenAfter DEF AnswerIsFine
<1>2. CASE calls[c].step # "ok"
  BY <1>2, UnseenAfter DEF AnswerIsFine, KnowledgeInv, ChecksAreKept
<1> QED BY <1>1, <1>2

\* A call that has no result yet, or none any more.
LEMMA NoAnswer ==
  ASSUME KnowledgeInv, Observed, NEW c \in Calls, ~Answered(c)'
  PROVE  AnswerIsFine(c)
BY UnseenAfter DEF AnswerIsFine

\* The check that a result has passed: the model is the same and the
\* generation is served; the files were compared before.
LEMMA CheckedAnswer ==
  ASSUME KnowledgeInv, Observed, NEW c \in Calls, Answered(c), Answered(c)', Compared(c),
         calls[c].step # "ok", NEW g \in Generations, UsedBy(c)' = g,
         world'.model = gens'[g].model, gens'[g].valid, Published(g)', RegistryInv'
  PROVE  AnswerIsFine(c)
<1>1. slot'.serves = g
  BY DEF RegistryInv, RoutesAreKnown, Published
<1>2. Wrong(UsedBy(c))' \subseteq {"files"}
  BY <1>1 DEF Wrong
<1>3. "files" \notin unseen[c]
  BY DEF KnowledgeInv, ChecksAreKept
<1> QED BY <1>2, <1>3, UnseenAfter DEF AnswerIsFine

LEMMA AnswersAfterCalls ==
  ASSUME KnowledgeInv, Step, Observed, RegistryInv', NEW d \in Calls, CallActs(d), NEW c \in Calls
  PROVE  AnswerIsFine(c)
<1>1. /\ calls[c] \in Call /\ calls \in [Calls -> Call] /\ work' = work /\ world' = world
      /\ Fits(calls[c].op, calls[c].step)
  BY CallFields, OthersStay DEF KnowledgeInv, RegistryInv, CallTypes
<1>2. CASE c # d
  <2>1. calls'[c] = calls[c]
    BY <1>2, OthersStay DEF KnowledgeInv
  <2> QED BY <1>1, <2>1, QuietAnswer DEF Answered, Compared
<1>3. ASSUME Fails(c) PROVE AnswerIsFine(c)
  <2>1. calls'[c].step = "failed"
    BY <1>1, <1>3 DEF Fails, Goes, Call
  <2> QED BY <2>1, NoAnswer DEF Answered
<1>4. CASE c = d /\ ~Fails(c)
  <2>1. CASE StartPrepare(c) \/ StartRepartition(c) \/ StartSearch(c) \/ StartAsk(c) \/ Clear(c)
    <3>1. \/ calls'[c].step \in {"begin", "find", "get"}
          \/ calls'[c].op = "clear"
      <4>1. NotCalled \in Call
        BY DEF NotCalled, Call, Steps, Places
      <4>2. ASSUME NEW op, NEW first, NEW worker, Starts(c, op, first, worker)
            PROVE  calls'[c].step = first
        BY <1>1, <4>1, <4>2 DEF Starts, Call
      <4>3. ASSUME Clear(c) PROVE calls'[c].op = "clear"
        BY <1>1, <4>3 DEF Clear, Call
      <4> QED BY <2>1, <4>2, <4>3 DEF StartPrepare, StartRepartition, StartSearch, StartAsk
    <3> QED BY <3>1, NoAnswer DEF Answered
  <2>2. CASE Find(c) \/ Begin(c) \/ Capture(c) \/ Index(c) \/ Build(c) \/ Publish(c)
    <3>1. calls[c].op \in {"prepare", "repartition"}
      BY <1>1, <2>2 DEF Find, Begin, Capture, Index, Build, Publish, Fits, Over, Reading
    <3>2. calls'[c].op = calls[c].op
      BY <1>1, <1>4, <2>2 DEF Find, Begin, Capture, Index, Build, Publish, Goes, Call
    <3> QED BY <3>1, <3>2, NoAnswer DEF Answered
  <2>3. CASE Get(c)
    <3>1. calls'[c].step = "look"
      BY <1>1, <1>4, <2>3 DEF Get, Call
    <3> QED BY <3>1, NoAnswer DEF Answered
  <2>4. CASE Result(c)
    <3>1. calls'[c].step = "look again" /\ ~Compared(c)'
      BY <1>1, <2>4 DEF Result, Goes, Call, Compared
    <3> QED BY <3>1, UnseenAfter DEF AnswerIsFine
  <2>5. CASE Send(c)
    <3>1. calls'[c].op = "ask" /\ calls'[c].step \in {"wait", "failed"}
          /\ calls'[c].worker = calls[c].worker /\ calls[c].step = "send"
      BY <1>1, <2>5 DEF Send, Goes, Call, Fits, Over, Making, Offering, Reading
    <3>2. calls[c].worker \in Generations
      BY <1>1, <2>5, CallFields DEF KnowledgeInv, Send, CallIsSound, Published, Fits, Over, Making,
         Offering, Reading
    <3>3. work[calls[c].worker].asker # c
      BY <3>1, <3>2 DEF KnowledgeInv, QuestionsAreAsked, Over
    <3> QED BY <1>1, <3>1, <3>3, NoAnswer DEF Answered
  <2>6. CASE Looks(c)
    <3>1. /\ gens' = gens /\ calls'[c].op = calls[c].op /\ calls'[c].gen = calls[c].gen
          /\ calls'[c].step = IF calls[c].step = "look" THEN "judge" ELSE "judge again"
          /\ calls'[c].seen = 1 => Matches(calls[c].gen)
      <4> DEFINE step == IF calls[c].step = "look" THEN "judge" ELSE "judge again"
                 seen == IF Matches(calls[c].gen) THEN 1 ELSE 0
      <4>1. gens' = gens /\ calls'[c] = [calls[c] EXCEPT !.step = step, !.seen = seen]
        BY <1>1, <1>4, <2>6 DEF Looks
      <4>2. seen = 1 => Matches(calls[c].gen)
        OBVIOUS
      <4> HIDE DEF seen, step
      <4>3. /\ calls'[c].op = calls[c].op /\ calls'[c].gen = calls[c].gen
            /\ calls'[c].step = step /\ calls'[c].seen = seen
        BY <1>1, <4>1 DEF Call
      <4> QED BY <4>1, <4>2, <4>3 DEF step
    <3>2. CASE calls[c].step = "look"
      BY <3>1, <3>2, NoAnswer DEF Answered
    <3>3. CASE calls[c].step = "look again"
      <4>1. calls[c].op = "search" /\ Answered(c) /\ Answered(c)'
        BY <1>1, <3>1, <3>3 DEF Fits, Answered, Making, Offering, Over
      <4>2. Compared(c)' => Matches(calls[c].gen)
        BY <3>1, <4>1 DEF Compared
      <4>3. Matches(calls[c].gen) => "files" \notin Wrong(UsedBy(c))'
        BY <1>1, <3>1, <4>1 DEF Matches, Wrong, UsedBy
      <4> QED BY <3>1, <3>3, <4>1, <4>2, <4>3, UnseenAfter DEF AnswerIsFine
    <3> QED BY <2>6, <3>2, <3>3 DEF Looks
  <2>7. CASE Judges(c)
    <3>1. /\ Holds(calls[c].gen, calls[c].seen = 1) /\ gens' = gens
          /\ calls'[c].op = calls[c].op /\ calls'[c].gen = calls[c].gen
          /\ calls'[c].step = AfterCheck(c)
      <4>1. /\ Holds(calls[c].gen, calls[c].seen = 1) /\ gens' = gens
            /\ calls' = [calls EXCEPT ![c].step = AfterCheck(c)]
        BY <1>4, <2>7 DEF Judges, Goes
      <4> DEFINE after == AfterCheck(c)
      <4>2. calls'[c] = [calls[c] EXCEPT !.step = after]
        BY <1>1, <4>1
      <4> HIDE DEF after
      <4>3. /\ calls'[c].op = calls[c].op /\ calls'[c].gen = calls[c].gen
            /\ calls'[c].step = after
        BY <1>1, <4>2 DEF Call
      <4> QED BY <4>1, <4>3 DEF after
    <3>2. CASE calls[c].step = "judge"
      <4>1. calls[c].op \in {"prepare", "repartition", "search", "ask"}
        BY <1>1, <3>2 DEF Fits, Over
      <4>2. AfterCheck(c) \in {"publish", "send", "result"}
        BY <3>2, <4>1 DEF AfterCheck, Builds
      <4> QED BY <3>1, <4>2, NoAnswer DEF Answered
    <3>3. CASE calls[c].step = "judge again"
      <4>1. calls[c].op = "search" /\ AfterCheck(c) = "ok"
        BY <1>1, <3>3 DEF Fits, AfterCheck, Builds, Making, Offering, Over
      <4>2. Answered(c) /\ Answered(c)' /\ Compared(c)
        BY <3>1, <3>3, <4>1 DEF Answered, Compared, Holds
      <4>3. PICK g \in Generations : g = calls[c].gen
        BY <1>1, <3>3, <4>1, CallFields DEF KnowledgeInv, CallIsSound, Published, Reading
      <4>4. Published(g)
        BY <3>3, <4>1, <4>3, CallFields DEF KnowledgeInv, CallIsSound, Reading
      <4>5. Published(g)' /\ UsedBy(c)' = g /\ world'.model = gens'[g].model /\ gens'[g].valid
        BY <1>1, <3>1, <4>1, <4>3, <4>4 DEF Published, UsedBy, Holds
      <4> QED BY <3>3, <4>2, <4>5, CheckedAnswer
    <3> QED BY <2>7, <3>2, <3>3 DEF Judges
  <2> QED BY <1>3, <1>4, <2>1, <2>2, <2>3, <2>4, <2>5, <2>6, <2>7
          DEF CallActs, Proceeds, Interrupt
<1> QED BY <1>2, <1>3, <1>4

\* How far each step of a worker brings it.
LEMMA WorkerWays ==
  ASSUME work \in [Generations -> Job], NEW g \in Generations
  PROVE  /\ Take(g) => work'[g].step = "gate"
         /\ Enter(g) => work'[g].step = "look"
         /\ WorkerLooks(g) => work'[g].step = IF work[g].step = "look" THEN "judge" ELSE "judge again"
         /\ WorkerJudges(g) => Sets(g, "model") \/ work'[g] = Asleep
         /\ Sets(g, "model") => work'[g].step = "model"
         /\ ModelAnswers(g) => work'[g].step = "look again"
         /\ GivesUp(g) \/ Dies(g) => work'[g] = Asleep
<1>1. work[g] \in Job
  OBVIOUS
<1>2. ASSUME NEW step \in {"gate", "look", "judge", "model", "look again", "judge again"},
             work' = [work EXCEPT ![g].step = step]
      PROVE  work'[g].step = step
  BY <1>1, <1>2 DEF Job
<1>3. Take(g) => work'[g].step = "gate"
  <2>1. ASSUME NEW asker, work' = [work EXCEPT ![g].asker = asker, ![g].step = "gate"]
        PROVE  work'[g].step = "gate"
    BY <1>1, <2>1 DEF Job
  <2> QED BY <2>1 DEF Take
<1>4. Enter(g) => work'[g].step = "look"
  BY <1>2 DEF Enter, Sets
<1>5. WorkerLooks(g) => work'[g].step = IF work[g].step = "look" THEN "judge" ELSE "judge again"
  <2>1. ASSUME NEW step, NEW seen, work' = [work EXCEPT ![g].step = step, ![g].seen = seen]
        PROVE  work'[g].step = step
    BY <1>1, <2>1 DEF Job
  <2> QED BY <2>1 DEF WorkerLooks
<1>6. WorkerJudges(g) => Sets(g, "model") \/ work'[g] = Asleep
  BY DEF WorkerJudges, Replies
<1>7. Sets(g, "model") => work'[g].step = "model"
  BY <1>2 DEF Sets
<1>8. ModelAnswers(g) => work'[g].step = "look again"
  BY <1>2 DEF ModelAnswers, Sets
<1>9. GivesUp(g) \/ Dies(g) => work'[g] = Asleep
  BY DEF GivesUp, Dies, Replies
<1> QED BY <1>3, <1>4, <1>5, <1>6, <1>7, <1>8, <1>9

\* A waiting call whose worker has not begun to answer it, or does not any more.
LEMMA AnswersAfterWorkers ==
  ASSUME KnowledgeInv, Step, Observed, RegistryInv', NEW g \in Generations,
         WorkerProceeds(g) \/ Dies(g), NEW c \in Calls
  PROVE  AnswerIsFine(c)
<1>1. /\ calls[c] \in Call /\ calls \in [Calls -> Call] /\ work \in [Generations -> Job]
      /\ work[g] \in Job /\ Fits(calls[c].op, calls[c].step) /\ world' = world
      /\ calls[c].op = "ask" => Published(calls[c].worker)
  BY CallFields, TypesHaveParts DEF KnowledgeInv, RegistryInv, Types, ActorTypes, CallIsSound,
     CallTypes, WorkerProceeds, Take, Enter, WorkerLooks, WorkerJudges, ModelAnswers, GivesUp, Dies,
     outside
<1>2. \A h \in Generations : h # g => work'[h] = work[h]
  BY <1>1 DEF WorkerProceeds, Take, Enter, WorkerLooks, WorkerJudges, ModelAnswers, GivesUp, Dies,
     Replies, Sets
<1>3. \/ calls'[c] = calls[c]
      \/ \E outcome \in Over : /\ Waits(c) /\ work[g].asker = c /\ Replies(g, outcome)
                               /\ calls'[c] = [calls[c] EXCEPT !.step = outcome]
      \/ Waits(c) /\ calls'[c] = [calls[c] EXCEPT !.step = "failed"]
  BY <1>1 DEF WorkerProceeds, Take, Enter, WorkerLooks, WorkerJudges, ModelAnswers, GivesUp, Dies,
     Replies, Goes, Over
<1>4. ASSUME calls'[c] = [calls[c] EXCEPT !.step = "failed"] PROVE AnswerIsFine(c)
  <2>1. calls'[c].step = "failed"
    BY <1>1, <1>4 DEF Call
  <2> QED BY <2>1, NoAnswer DEF Answered
<1>5. CASE calls'[c] = calls[c]
  <2>1. CASE ~(calls[c].op = "ask" /\ calls[c].step = "wait" /\ calls[c].worker = g)
    <3>1. calls[c].step # "ok" => (Answered(c)' <=> Answered(c)) /\ (Compared(c)' <=> Compared(c))
      BY <1>1, <1>2, <1>5, <2>1 DEF Answered, Compared, Published
    <3> QED BY <1>5, <3>1, QuietAnswer
  <2>2. CASE calls[c].op = "ask" /\ calls[c].step = "wait" /\ calls[c].worker = g
    <3>1. CASE ~(work'[g].asker = c /\ work'[g].step \in {"look again", "judge again"})
      BY <1>5, <2>2, <3>1, NoAnswer DEF Answered
    <3>2. CASE work'[g].asker = c /\ work'[g].step \in {"look again", "judge again"}
      <4>1. Sets(g, "look again") \/ (WorkerLooks(g) /\ work[g].step = "look again")
        <5>1. ~Take(g) /\ ~Enter(g) /\ ~Sets(g, "model") /\ work'[g] # Asleep
          <6>1. Asleep.step = "idle" /\ work \in [Generations -> Job]
            BY <1>1 DEF Asleep
          <6>2. work'[g].step \in {"look again", "judge again"}
            BY <3>2
          <6> QED BY <6>1, <6>2, WorkerWays
        <5>2. WorkerLooks(g) \/ ModelAnswers(g)
          BY <1>1, <5>1, WorkerWays DEF WorkerProceeds
        <5>3. WorkerLooks(g) => work[g].step = "look again"
          BY <1>1, <3>2, WorkerWays DEF WorkerLooks
        <5> QED BY <5>2, <5>3 DEF ModelAnswers
      <4>2. CASE Sets(g, "look again")
        <5>1. work'[g].step = "look again"
          BY <1>1, <4>2 DEF Sets, Job
        <5>2. ~Compared(c)'
          BY <1>5, <2>2, <5>1 DEF Compared
        <5> QED BY <1>5, <2>2, <5>2, UnseenAfter DEF AnswerIsFine
      <4>3. CASE WorkerLooks(g) /\ work[g].step = "look again"
        <5>1. /\ gens' = gens /\ work'[g].asker = work[g].asker
              /\ work'[g].step = "judge again" /\ work'[g].seen = Matches(g)
          BY <1>1, <4>3 DEF WorkerLooks, Job
        <5>2. Answered(c) /\ Answered(c)'
          BY <1>5, <2>2, <3>2, <4>3, <5>1 DEF Answered
        <5>3. Compared(c)' => Matches(g)
          BY <1>5, <2>2, <5>1 DEF Compared
        <5>4. Matches(g) => "files" \notin Wrong(UsedBy(c))'
          BY <1>1, <1>5, <2>2, <5>1 DEF Matches, Wrong, UsedBy
        <5> QED BY <1>5, <2>2, <5>2, <5>3, <5>4, UnseenAfter DEF AnswerIsFine
      <4> QED BY <4>1, <4>2, <4>3
    <3> QED BY <3>1, <3>2
  <2> QED BY <2>1, <2>2
<1>6. ASSUME Waits(c), work[g].asker = c, Replies(g, "ok"),
             calls'[c] = [calls[c] EXCEPT !.step = "ok"]
      PROVE  AnswerIsFine(c)
  <2>1. calls'[c].step = "ok" /\ calls'[c].op = calls[c].op /\ calls'[c].worker = calls[c].worker
    BY <1>1, <1>6 DEF Call
  <2>2. calls[c].op = "ask" /\ calls[c].worker = g /\ calls[c].step = "wait"
    BY <1>6 DEF KnowledgeInv, QuestionsAreAsked, Waits
  <2>3. WorkerJudges(g) /\ Holds(g, work[g].seen) /\ work[g].step = "judge again" /\ gens' = gens
    <3>1. ~GivesUp(g) /\ ~Dies(g)
      <4>1. \A h \in Calls : h = c /\ (GivesUp(g) \/ Dies(g)) => calls'[c].step \in {"failed", "wait"}
        BY <1>1, <1>6 DEF GivesUp, Dies, Replies, Goes, Waits, Call
      <4> QED BY <2>1, <4>1
    <3>2. work'[g] = Asleep /\ Asleep.step = "idle"
      BY <1>1, <1>6 DEF Replies, Asleep
    <3>3. WorkerJudges(g)
      <4>1. work'[g].step = "idle"
        BY <3>2
      <4>2. ~Take(g) /\ ~Enter(g) /\ ~WorkerLooks(g) /\ ~ModelAnswers(g)
        BY <1>1, <4>1, WorkerWays
      <4> QED BY <3>1, <4>2 DEF WorkerProceeds
    <3>4. ~Replies(g, "failed")
      <4>1. ASSUME Replies(g, "failed") PROVE FALSE
        <5>1. calls' = [calls EXCEPT ![c].step = "failed"]
          BY <1>6, <4>1 DEF Replies, Goes
        <5>2. calls'[c].step = "failed"
          BY <1>1, <5>1 DEF Call
        <5> QED BY <2>1, <5>2
      <4> QED BY <4>1
    <3>5. Holds(g, work[g].seen) /\ gens' = gens
      BY <3>3, <3>4 DEF WorkerJudges
    <3>6. work[g].step = "judge again"
      BY <1>1, <2>1, <2>2, <3>3, <3>4 DEF WorkerJudges
    <3> QED BY <3>3, <3>5, <3>6
  <2>4. Answered(c) /\ Answered(c)' /\ Compared(c) /\ UsedBy(c)' = g
    <3>1. Answered(c)
      BY <1>6, <2>2, <2>3 DEF Answered
    <3>2. Answered(c)' /\ UsedBy(c)' = g
      BY <2>1, <2>2 DEF Answered, UsedBy
    <3>3. Compared(c)
      BY <1>6, <2>2, <2>3 DEF Compared, Holds
    <3> QED BY <3>1, <3>2, <3>3
  <2>5. Published(g)' /\ world'.model = gens'[g].model /\ gens'[g].valid
    BY <1>1, <2>2, <2>3 DEF Published, Holds
  <2> QED BY <2>2, <2>4, <2>5, CheckedAnswer
<1> QED BY <1>3, <1>4, <1>5, <1>6 DEF Over

LEMMA AnswersAfterStep ==
  ASSUME KnowledgeInv, Step, Observed, RegistryInv', NEW c \in Calls
  PROVE  AnswerIsFine(c)
<1>1. CASE WorldActs
  <2>1. calls' = calls /\ work' = work
    BY <1>1 DEF WorldActs, Edit, SwitchModel, Relocate, actors
  <2> QED BY <2>1, QuietAnswer DEF Answered, Compared
<1>2. CASE CloseConversation
  <2>1. calls' = calls /\ calls[c].step \in {"new", "ok", "failed"}
    BY <1>2 DEF CloseConversation, Active
  <2>2. calls[c].step # "ok" => ~Answered(c)' /\ ~Compared(c)'
    BY <2>1 DEF Answered, Compared
  <2> QED BY <2>1, <2>2, QuietAnswer
<1> QED BY <1>1, <1>2, AnswersAfterCalls, AnswersAfterWorkers DEF Step, CallActs, WorldActs

-----------------------------------------------------------------------------
(* The theorems.                                                           *)

LEMMA StartsKnown ==
  ASSUME Init
  PROVE  KnowledgeInv
<1>1. \A c \in Calls : calls[c] = NotCalled /\ NotCalled.op = "none" /\ NotCalled.step = "new"
  BY DEF Init, NotCalled
<1>2. \A g \in Generations : gens[g] = Unmade /\ Unmade.made = "no"
  BY DEF Init, Unmade
<1>3. \A g \in Generations : /\ work[g] = Asleep /\ Asleep.step = "idle" /\ Asleep.asker = NoOne
                             /\ mailbox[g] = <<>>
  BY DEF Init, Asleep
<1>4. Types
  <2>1. GenTypes /\ CallTypes
    BY DEF Init, GenTypes, Generation, Unmade, CallTypes, Call, NotCalled, Steps, Places
  <2>2. ActorTypes
    BY NumbersAreNatural DEF Init, ActorTypes, Job, Asleep, QueueTypes
  <2>3. RegistryTypes /\ WorldTypes
    BY KnowledgeAssumption DEF Init, RegistryTypes, WorldTypes, Places
  <2> QED BY <2>1, <2>2, <2>3, TypesHaveParts
<1>5. RoutesAreKnown
  BY <1>2 DEF Init, RoutesAreKnown
<1>6. TicketsAreNew
  <2>1. Begun = {} /\ 1..0 = {} /\ 0 \in 0..MaxGenerations
    BY <1>2, KnowledgeAssumption DEF Begun
  <2> QED BY <2>1 DEF Init, TicketsAreNew
<1>7. \A c \in Calls : ~Maker(c) /\ CallIsSound(c)
  BY <1>1 DEF Maker, Builds, CallIsSound, Fits
<1>8. RegistryInv
  BY <1>4, <1>5, <1>6, <1>7 DEF RegistryInv, Types, MakersAreApart
<1>9. QuestionsAreAsked
  <2>1. ToSet(<<>>) = {}
    BY DEF ToSet
  <2> QED BY <1>3, <2>1, NumbersAreNatural DEF QuestionsAreAsked, InHand
<1>10. ChecksAreKept /\ AnswersAreCurrent
  BY <1>1 DEF Init, ChecksAreKept, AnswersAreCurrent
<1> QED BY <1>4, <1>8, <1>9, <1>10 DEF KnowledgeInv, Types

\* Whatever calls run side by side and whatever changes under them, every
\* preparation, question and check is where the code believes it to be.
THEOREM KnowledgeIsSound == Spec => []KnowledgeInv
<1>1. Init => KnowledgeInv
  BY StartsKnown
<1>2. KnowledgeInv /\ [Next]_vars => KnowledgeInv'
  <2> SUFFICES ASSUME KnowledgeInv, [Next]_vars PROVE KnowledgeInv'
    OBVIOUS
  <2>1. CASE Next
    <3>1. Step /\ Observed
      BY <2>1 DEF Next
    <3>2. RegistryInv' /\ QueueTypes'
      BY <3>1, StepKeeps DEF KnowledgeInv
    <3>3. QuestionsAreAsked'
      BY <3>1, QuestionsKeep
    <3>4. ChecksAreKept' /\ AnswersAreCurrent'
      BY <3>1, <3>2, AnswersAfterStep, AnswersKeep
    <3> QED BY <3>2, <3>3, <3>4 DEF KnowledgeInv
  <2>2. CASE UNCHANGED vars
    <3>1. /\ UNCHANGED <<slot, gens, cancelled, registered, alive, work, mailbox>>
          /\ UNCHANGED <<calls, world, changes, unseen, cleared>>
      BY <2>2 DEF vars
    <3>2. TypeOK' /\ CallTypes' /\ QueueTypes'
      BY <3>1 DEF KnowledgeInv, RegistryInv, TypeOK, CallTypes, QueueTypes
    <3>3. RoutesAreKnown'
      BY <3>1 DEF KnowledgeInv, RegistryInv, RoutesAreKnown
    <3>4. TicketsAreNew'
      BY <3>1 DEF KnowledgeInv, RegistryInv, TicketsAreNew, Published, Begun
    <3>5. MakersAreApart' /\ \A c \in Calls : CallIsSound(c)'
      BY <3>1 DEF KnowledgeInv, RegistryInv, MakersAreApart, CallIsSound, Maker, Builds, Published
    <3>6. QuestionsAreAsked'
      BY <3>1 DEF KnowledgeInv, QuestionsAreAsked, InHand
    <3>7. ChecksAreKept' /\ AnswersAreCurrent'
      BY <3>1 DEF KnowledgeInv, ChecksAreKept, AnswersAreCurrent, Answered, Compared
    <3> QED BY <3>2, <3>3, <3>4, <3>5, <3>6, <3>7 DEF KnowledgeInv, RegistryInv
  <2> QED BY <2>1, <2>2
<1> QED BY <1>1, <1>2, PTL DEF Spec

\* Whoever asks finds the workers of the generation that is served and no
\* others; cleared knowledge never comes back (Preparation::publish, rollback,
\* clear_knowledge).
THEOREM RoutesStayKnown == Spec => []RoutesAreKnown
<1>1. KnowledgeInv => RoutesAreKnown
  BY DEF KnowledgeInv, RegistryInv
<1> QED BY <1>1, KnowledgeIsSound, PTL

\* A result that a call gives was right at some moment after it was made:
\* about the files, the model and the generation (Freshness::check).
THEOREM AnswersStayCurrent == Spec => []AnswersAreCurrent
<1>1. KnowledgeInv => AnswersAreCurrent
  BY DEF KnowledgeInv
<1> QED BY <1>1, KnowledgeIsSound, PTL
=============================================================================
