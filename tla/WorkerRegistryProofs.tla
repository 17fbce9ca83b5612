------------------------ MODULE WorkerRegistryProofs ------------------------
(***************************************************************************)
(* Proofs of the safety of WorkerRegistry, for any number of sessions and  *)
(* workers and any limits.                                                 *)
(*                                                                         *)
(* The properties are inductive together with what they leave unsaid: that *)
(* tasks and unfinished entries are the same workers (Listed), so that the *)
(* limit on entries is one on tasks; that the lock follows the role of a   *)
(* task (Locked); how far the log is at each stage of a task (Stored); and *)
(* that an allocation is never behind the log (Counted).                   *)
(***************************************************************************)
EXTENDS WorkerRegistry, FiniteSetTheorems, TLAPS

\* Unfinished entries and tasks are the same workers, of the open session.
Listed ==
  /\ LiveWorkIsListed
  /\ \A o \in Owners, i \in Ids : entry[o][i] \in Active => i \in Live /\ owner[i] = o

\* An idle session has no tasks; one tool at a time starts a worker.
Idle ==
  /\ turn # "None" => session \in Owners
  /\ turn = "None" => Live = {} /\ tool = "None"
  /\ \A i \in Ids : stage[i] = "Registering" => tool = "Start"
  /\ \A i, j \in Ids : stage[i] = "Registering" /\ stage[j] = "Registering" => i = j

\* The registry counts its unfinished entries.
Limited == IsFiniteSet(ActiveEntries) /\ Cardinality(ActiveEntries) <= MaxActive

Writing == {"Registering", "Spawned", "Working", "Ended", "Settled"}

\* Write workers and the root's edits hold the lock, which has one holder.
Locked ==
  /\ \A i \in Ids : role[i] = "Write" /\ stage[i] \in Writing => i \in holders
  /\ tool = "Edit" => Root \in holders
  /\ \A x, y \in holders : x = y

\* How far the log is at each stage of a task.
Stored ==
  /\ ReportsAreStored
  /\ \A i \in Ids : stage[i] \in {"Spawned", "Working", "Ended"}
       => log[owner[i]][i] = "Registered"
  /\ \A i \in Ids : stage[i] \in {"Settled", "Released"}
       => \/ report[i] = log[owner[i]][i]
          \/ report[i] = "Failed" /\ log[owner[i]][i] = "Registered"
  /\ \A o \in Owners, i \in Ids :
       stage[i] = "Registering" \/ (i \in Live /\ o # owner[i]) \/ i \notin used
         => log[o][i] = "Absent"
  /\ \A i \in Ids : i \notin used => i \notin Live
  /\ \A o \in Owners \ saved, i \in Ids : log[o][i] = "Absent" /\ entry[o][i] = "Absent"
  /\ session \in saved \cup {NoSession}

Registering == \E i \in Ids : stage[i] = "Registering"

\* The allocation of the open session covers its log and the start under way.
Counted ==
  /\ \A o \in Owners : IsFiniteSet(Logged(o)) /\ Cardinality(Logged(o)) <= MaxStarts
  /\ session \in Owners => Cardinality(Logged(session)) <= starts[session]
  /\ session \in Owners /\ Registering => Cardinality(Logged(session)) < starts[session]

Inv ==
  /\ TypeOK
  /\ Listed
  /\ Idle
  /\ Limited
  /\ Locked
  /\ Stored
  /\ Counted
  /\ AnswersSeeReports

-----------------------------------------------------------------------------
(* Initially                                                               *)

LEMMA InitInv == Init => Inv
<1> SUFFICES ASSUME Init PROVE Inv
  OBVIOUS
<1>1. ActiveEntries = {} /\ \A o \in Owners : Logged(o) = {}
  BY DEF Init, ActiveEntries, Active, Logged
<1>2. TypeOK
  BY LimitsAssumption DEF Init, TypeOK, Statuses, Final, Stages, Roles, Turns
<1>3. Listed /\ Idle /\ Locked
  BY NamesAssumption DEF Init, Listed, LiveWorkIsListed, Live, Active, Idle,
     Locked, Writing
<1>4. Stored
  BY DEF Init, Stored, ReportsAreStored, Live, Final
<1>5. Limited /\ Counted
  BY <1>1, FS_EmptySet, LimitsAssumption, NamesAssumption
  DEF Init, Limited, Counted
<1>6. AnswersSeeReports
  BY DEF Init, AnswersSeeReports
<1> QED
  BY <1>2, <1>3, <1>4, <1>5, <1>6 DEF Inv

\* A task belongs to the open session, whose turn is not idle.
LEMMA TaskOwner ==
  ASSUME Inv, NEW i \in Live
  PROVE  /\ owner[i] = session /\ session \in Owners /\ turn # "None"
         /\ entry[session][i] \in Active
BY DEF Inv, Listed, LiveWorkIsListed, Idle

-----------------------------------------------------------------------------
(* Types                                                                   *)

\* Restoring a session starts at most MaxStarts workers anew.
LEMMA RestoreTypes ==
  ASSUME TypeOK, NEW o \in Owners,
         NEW workers \in [Ids -> Final \cup {"Absent", "Registered"}],
         Cardinality({i \in Ids : workers[i] # "Absent"}) \in 0..MaxStarts,
         Restore(o, workers)
  PROVE  /\ entry' \in [Owners -> [Ids -> Statuses \cup {"Absent"}]]
         /\ unread' \subseteq Owners \X Ids
         /\ starts' \in [Owners -> 0..MaxStarts]
         /\ session' \in Owners
<1>1. [i \in Ids |-> Recovered(workers[i])] \in [Ids -> Statuses \cup {"Absent"}]
  BY DEF Recovered, Statuses, Final
<1> QED
  BY <1>1 DEF Restore, RestoredStarts, TypeOK

LEMMA TypeStep == Inv /\ [Next]_vars => TypeOK'
<1> SUFFICES ASSUME Inv, [Next]_vars PROVE TypeOK'
  OBVIOUS
<1> USE DEF TypeOK
<1>0. TypeOK
  BY DEF Inv
<1>1. ASSUME NEW o \in Owners, NewSession(o) PROVE TypeOK'
  BY <1>0, <1>1 DEF NewSession, registry, tasks
<1>2. ASSUME NEW o \in Owners, Resume(o) PROVE TypeOK'
  <2>1. log' \in [Owners -> [Ids -> Final \cup {"Absent", "Registered"}]]
    BY <1>0, <1>2 DEF Resume, Recovered, Final
  <2>2. {i \in Ids : log'[o][i] # "Absent"} = Logged(o)
    BY <1>0, <1>2 DEF Resume, Recovered, Logged
  <2>3. Cardinality(Logged(o)) \in 0..MaxStarts
    BY FS_CardinalityType, LimitsAssumption DEF Inv, Counted
  <2>4. CASE Restore(o, log'[o])
    BY <1>0, <1>2, <2>1, <2>2, <2>3, <2>4, RestoreTypes DEF Resume, tasks
  <2>5. CASE NotOpened
    BY <1>0, <1>2, <2>1, <2>5 DEF Resume, NotOpened, tasks
  <2> QED
    BY <1>2, <2>4, <2>5 DEF Resume
<1>3. ASSUME NEW o \in Owners, Fork(o) PROVE TypeOK'
  <2>1. session \in Owners /\ log[session] \in [Ids -> Final \cup {"Absent", "Registered"}]
    BY <1>0, <1>3 DEF Fork
  <2>2. {i \in Ids : log[session][i] # "Absent"} = Logged(session)
    BY DEF Logged
  <2>3. Cardinality(Logged(session)) \in 0..MaxStarts
    BY <2>1, FS_CardinalityType, LimitsAssumption DEF Inv, Counted
  <2>4. CASE Restore(o, log[session])
    BY <1>0, <1>3, <2>1, <2>2, <2>3, <2>4, RestoreTypes DEF Fork, tasks
  <2>5. CASE NotOpened
    BY <1>0, <1>3, <2>1, <2>5 DEF Fork, NotOpened, tasks
  <2> QED
    BY <1>3, <2>4, <2>5 DEF Fork
<1>4. CASE Crash
  BY <1>0, <1>4, LimitsAssumption
  DEF Crash, storage, Statuses, Final, Stages, Roles, Turns
<1>5. CASE RootTurn
  BY <1>0, <1>5
  DEF RootTurn, BeginTurn, StopTurn, Answer, TurnEnds, registry, tasks, storage,
      Live, Turns
<1>6. ASSUME NEW i \in Ids, NEW r \in Roles, Register(i, r) PROVE TypeOK'
  <2>1. session \in Owners
    BY <1>6 DEF Register, Inv, Idle
  <2>2. starts[session] + 1 \in 0..MaxStarts
    BY <1>0, <1>6, <2>1, LimitsAssumption DEF Register, Reserve
  <2> QED
    BY <1>0, <1>6, <2>1, <2>2 DEF Register, storage, Statuses, Active, Stages
<1>7. ASSUME NEW i \in Ids, StoreRegistration(i) PROVE TypeOK'
  BY <1>0, <1>7 DEF StoreRegistration, registry, Stages
<1>8. ASSUME NEW i \in Ids, RegistrationFails(i) PROVE TypeOK'
  <2>1. owner[i] \in Owners
    BY <1>8, TaskOwner DEF RegistrationFails, Live
  <2> QED
    BY <1>0, <1>8, <2>1
    DEF RegistrationFails, TaskGone, storage, Finish, Statuses, Final, Stages, Roles
<1>9. ASSUME NEW i \in Ids, Cancel(i) \/ Cleanup(i) PROVE TypeOK'
  <2>1. session \in Owners
    BY <1>9 DEF Cancel, Cleanup, Inv, Idle
  <2>2. CASE Cancel(i)
    BY <1>0, <2>1, <2>2 DEF Cancel, storage, Statuses, Active
  <2>3. CASE Cleanup(i)
    BY <1>0, <2>1, <2>3 DEF Cleanup, tasks, storage, Statuses
  <2> QED
    BY <1>9, <2>2, <2>3
<1>10. ASSUME NEW S, Collect(S) PROVE TypeOK'
  BY <1>0, <1>10 DEF Collect, tasks, storage
<1>11. CASE BeginEdit \/ EndEdit
  BY <1>0, <1>11 DEF BeginEdit, EndEdit, registry, tasks, storage
<1>12. ASSUME NEW i \in Ids, TaskRuns(i) \/ RunEnds(i) \/ ReleaseWriter(i) PROVE TypeOK'
  <2>1. CASE TaskRuns(i)
    <3>1. owner[i] \in Owners
      BY <2>1, TaskOwner DEF TaskRuns, Live
    <3> QED
      BY <1>0, <2>1, <3>1 DEF TaskRuns, storage, Stages, Statuses, Active
  <2>2. CASE RunEnds(i)
    BY <1>0, <2>2 DEF RunEnds, Results, Outcomes, registry, storage, Stages, Final
  <2>3. CASE ReleaseWriter(i)
    BY <1>0, <2>3 DEF ReleaseWriter, registry, storage, Stages
  <2> QED
    BY <1>12, <2>1, <2>2, <2>3
<1>13. ASSUME NEW i \in Ids, StoreReport(i) PROVE TypeOK'
  <2>1. owner[i] \in Owners
    BY <1>13, TaskOwner DEF StoreReport, Live
  <2> QED
    BY <1>0, <1>13, <2>1 DEF StoreReport, SettledReport, registry, Stages, Final
<1>14. ASSUME NEW i \in Ids, Publish(i) PROVE TypeOK'
  <2>1. owner[i] \in Owners
    BY <1>14, TaskOwner DEF Publish, Live
  <2> QED
    BY <1>0, <1>14, <2>1
    DEF Publish, TaskGone, storage, Finish, Statuses, Final, Stages, Roles
<1>15. CASE UNCHANGED vars
  BY <1>0, <1>15 DEF vars
<1> QED
  BY <1>1, <1>2, <1>3, <1>4, <1>5, <1>6, <1>7, <1>8, <1>9, <1>10, <1>11, <1>12,
     <1>13, <1>14, <1>15
  DEF Next, Sessions, Tools, StartSettles, Task

-----------------------------------------------------------------------------
(* Entries and tasks                                                       *)

\* A restored session has no unfinished entry.
LEMMA RestoredAreFinal ==
  ASSUME NEW o \in Owners, NEW s, s \in Final \cup {"Absent", "Registered"}
  PROVE  Recovered(s) \notin Active
BY DEF Recovered, Active, Final

\* Resuming and forking: the session is idle, other sessions' entries stay,
\* and neither way the new entries are unfinished.
LEMMA SwitchEntries ==
  ASSUME Inv, NEW o \in Owners, Resume(o) \/ Fork(o)
  PROVE  /\ Live = {} /\ tool = "None" /\ turn = "None"
         /\ UNCHANGED <<tasks, holders, tool, turn>>
         /\ \A p \in Owners, i \in Ids : entry[p][i] \notin Active
         /\ \A p \in Owners, i \in Ids : entry'[p][i] \notin Active
<1>1. Live = {} /\ tool = "None" /\ turn = "None"
  BY DEF Resume, Fork, MaySwitch, Inv, Idle
<1>2. \A p \in Owners, i \in Ids : entry[p][i] \notin Active
  BY <1>1 DEF Inv, Listed
<1>3. ASSUME NEW workers, Restore(o, workers),
             \A i \in Ids : workers[i] \in Final \cup {"Absent", "Registered"}
      PROVE  \A p \in Owners, i \in Ids : entry'[p][i] \notin Active
  BY <1>2, <1>3, RestoredAreFinal DEF Restore, Inv, TypeOK
<1>4. \A i \in Ids : log'[o][i] \in Final \cup {"Absent", "Registered"}
  BY TypeStep DEF Next, Sessions, TypeOK
<1>5. CASE Resume(o)
  <2>1. CASE NotOpened
    BY <1>1, <1>2, <1>5, <2>1 DEF NotOpened, Resume, tasks
  <2>2. CASE Restore(o, log'[o])
    BY <1>1, <1>2, <1>3, <1>4, <1>5, <2>2 DEF Resume, tasks
  <2> QED
    BY <1>5, <2>1, <2>2 DEF Resume
<1>6. CASE Fork(o)
  <2>1. CASE NotOpened
    BY <1>1, <1>2, <1>6, <2>1 DEF NotOpened, Fork, tasks
  <2>2. CASE Restore(o, log[session])
    <3>1. \A i \in Ids : log[session][i] \in Final \cup {"Absent", "Registered"}
      BY <1>6 DEF Fork, Inv, TypeOK
    <3> QED
      BY <1>1, <1>2, <1>3, <1>6, <2>2, <3>1 DEF Fork, tasks
  <2> QED
    BY <1>6, <2>1, <2>2 DEF Fork
<1> QED
  BY <1>5, <1>6

LEMMA ListedStep == Inv /\ [Next]_vars => Listed'
<1> SUFFICES ASSUME Inv, [Next]_vars PROVE Listed'
  OBVIOUS
<1> USE DEF Listed, LiveWorkIsListed, Live
<1>0. TypeOK /\ Listed
  BY DEF Inv
<1>1. ASSUME NEW o \in Owners, NewSession(o) PROVE Listed'
  BY <1>0, <1>1 DEF NewSession, MaySwitch, Inv, Idle, registry, tasks
<1>2. ASSUME NEW o \in Owners, Resume(o) \/ Fork(o) PROVE Listed'
  BY <1>2, SwitchEntries DEF tasks
<1>3. CASE Crash
  BY <1>3 DEF Crash, Active
<1>4. CASE RootTurn
  BY <1>0, <1>4
  DEF RootTurn, BeginTurn, StopTurn, Answer, TurnEnds, registry, tasks
<1>5. ASSUME NEW i \in Ids, NEW r \in Roles, Register(i, r) PROVE Listed'
  <2>1. session \in Owners /\ i \notin Live
    BY <1>5 DEF Register, Inv, Idle, Stored
  <2> QED
    BY <1>0, <1>5, <2>1 DEF Register, TypeOK, Active
<1>6. ASSUME NEW i \in Ids, StoreRegistration(i) PROVE Listed'
  BY <1>0, <1>6 DEF StoreRegistration, registry, TypeOK
<1>7. ASSUME NEW i \in Ids, RegistrationFails(i) PROVE Listed'
  <2>1. owner[i] = session /\ session \in Owners
    BY <1>7, TaskOwner DEF RegistrationFails
  <2> QED
    BY <1>0, <1>7, <2>1 DEF RegistrationFails, TaskGone, TypeOK, Finish, Active
<1>8. ASSUME NEW i \in Ids, Cancel(i) \/ Cleanup(i) PROVE Listed'
  <2>1. session \in Owners
    BY <1>8 DEF Cancel, Cleanup, Inv, Idle
  <2> QED
    BY <1>0, <1>8, <2>1
    DEF Cancel, Cleanup, Removable, tasks, TypeOK, Active, Final
<1>9. ASSUME NEW S, Collect(S) PROVE Listed'
  BY <1>0, <1>9 DEF Collect, tasks
<1>10. CASE BeginEdit \/ EndEdit
  BY <1>0, <1>10 DEF BeginEdit, EndEdit, registry, tasks
<1>11. ASSUME NEW i \in Ids, TaskRuns(i) PROVE Listed'
  <2>1. owner[i] = session /\ session \in Owners
    BY <1>11, TaskOwner DEF TaskRuns
  <2> QED
    BY <1>0, <1>11, <2>1 DEF TaskRuns, TypeOK, Active
<1>12. ASSUME NEW i \in Ids, RunEnds(i) \/ StoreReport(i) \/ ReleaseWriter(i) PROVE Listed'
  BY <1>0, <1>12 DEF RunEnds, StoreReport, ReleaseWriter, registry, TypeOK
<1>13. ASSUME NEW i \in Ids, Publish(i) PROVE Listed'
  <2>1. owner[i] = session /\ session \in Owners /\ report[i] \in Final
    BY <1>0, <1>13, TaskOwner DEF Publish, TypeOK
  <2> QED
    BY <1>0, <1>13, <2>1 DEF Publish, TaskGone, TypeOK, Finish, Active, Final
<1>14. CASE UNCHANGED vars
  BY <1>0, <1>14 DEF vars
<1> QED
  BY <1>1, <1>2, <1>3, <1>4, <1>5, <1>6, <1>7, <1>8, <1>9, <1>10, <1>11, <1>12,
     <1>13, <1>14
  DEF Next, Sessions, Tools, StartSettles, Task

LEMMA IdleStep == Inv /\ [Next]_vars => Idle'
<1> SUFFICES ASSUME Inv, [Next]_vars PROVE Idle'
  OBVIOUS
<1> USE DEF Idle, Live
<1>0. TypeOK /\ Idle
  BY DEF Inv
<1>1. ASSUME NEW o \in Owners, NewSession(o) PROVE Idle'
  BY <1>0, <1>1 DEF NewSession, tasks, MaySwitch
<1>2. ASSUME NEW o \in Owners, Resume(o) \/ Fork(o) PROVE Idle'
  BY <1>0, <1>2, SwitchEntries DEF tasks
<1>3. CASE Crash
  BY <1>3 DEF Crash
<1>4. CASE RootTurn
  BY <1>0, <1>4
  DEF RootTurn, BeginTurn, StopTurn, Answer, TurnEnds, TurnIsOver, tasks, TypeOK
<1>5. ASSUME NEW i \in Ids, NEW r \in Roles, Register(i, r) PROVE Idle'
  BY <1>0, <1>5 DEF Register, TypeOK
<1>6. ASSUME NEW i \in Ids, StoreRegistration(i) PROVE Idle'
  BY <1>0, <1>6 DEF StoreRegistration, TypeOK
<1>7. ASSUME NEW i \in Ids, RegistrationFails(i) PROVE Idle'
  BY <1>0, <1>7 DEF RegistrationFails, TaskGone, TypeOK
<1>8. ASSUME NEW i \in Ids, Cancel(i) \/ Cleanup(i) PROVE Idle'
  BY <1>0, <1>8 DEF Cancel, Cleanup, tasks
<1>9. ASSUME NEW S, Collect(S) PROVE Idle'
  BY <1>0, <1>9 DEF Collect, tasks
<1>10. CASE BeginEdit \/ EndEdit
  BY <1>0, <1>10 DEF BeginEdit, EndEdit, registry, tasks
<1>11. ASSUME NEW i \in Ids, Task(i) PROVE Idle'
  BY <1>0, <1>11
  DEF Task, TaskRuns, RunEnds, StoreReport, ReleaseWriter, Publish, TaskGone, TypeOK
<1>12. CASE UNCHANGED vars
  BY <1>0, <1>12 DEF vars
<1> QED
  BY <1>1, <1>2, <1>3, <1>4, <1>5, <1>6, <1>7, <1>8, <1>9, <1>10, <1>11, <1>12
  DEF Next, Sessions, Tools, StartSettles

-----------------------------------------------------------------------------
(* The limit on active workers                                             *)

\* A step that registers no worker makes no entry unfinished that was not.
LEMMA NoNewEntries ==
  ASSUME Inv, [Next]_vars, \A i \in Ids, r \in Roles : ~Register(i, r)
  PROVE  ActiveEntries' \subseteq ActiveEntries
<1> USE DEF ActiveEntries
<1>0. TypeOK
  BY DEF Inv
<1>1. ASSUME NEW o \in Owners, NewSession(o)
      PROVE  ActiveEntries' \subseteq ActiveEntries
  BY <1>1 DEF NewSession, registry
<1>2. ASSUME NEW o \in Owners, Resume(o) \/ Fork(o)
      PROVE  ActiveEntries' \subseteq ActiveEntries
  BY <1>2, SwitchEntries
<1>3. CASE Crash
  BY <1>3 DEF Crash, Active
<1>4. CASE RootTurn
  BY <1>4 DEF RootTurn, BeginTurn, StopTurn, Answer, TurnEnds, registry
<1>5. ASSUME NEW i \in Ids, StoreRegistration(i)
      PROVE  ActiveEntries' \subseteq ActiveEntries
  BY <1>5 DEF StoreRegistration, registry
<1>6. ASSUME NEW i \in Ids, RegistrationFails(i)
      PROVE  ActiveEntries' \subseteq ActiveEntries
  <2>1. owner[i] \in Owners
    BY <1>6, TaskOwner DEF RegistrationFails, Live
  <2> QED
    BY <1>0, <1>6, <2>1 DEF RegistrationFails, TypeOK, Finish, Active
<1>7. ASSUME NEW i \in Ids, Cancel(i)
      PROVE  ActiveEntries' \subseteq ActiveEntries
  BY <1>0, <1>7 DEF Cancel, TypeOK, Active, Inv, Idle
<1>8. ASSUME NEW i \in Ids, Cleanup(i)
      PROVE  ActiveEntries' \subseteq ActiveEntries
  BY <1>0, <1>8 DEF Cleanup, TypeOK, Active, Inv, Idle
<1>9. ASSUME NEW S, Collect(S)
      PROVE  ActiveEntries' \subseteq ActiveEntries
  BY <1>9 DEF Collect
<1>10. CASE BeginEdit \/ EndEdit
  BY <1>10 DEF BeginEdit, EndEdit, registry
<1>11. ASSUME NEW i \in Ids, TaskRuns(i)
       PROVE  ActiveEntries' \subseteq ActiveEntries
  <2>1. owner[i] \in Owners
    BY <1>11, TaskOwner DEF TaskRuns, Live
  <2> QED
    BY <1>0, <1>11, <2>1 DEF TaskRuns, TypeOK, Active
<1>12. ASSUME NEW i \in Ids, RunEnds(i) \/ StoreReport(i) \/ ReleaseWriter(i)
       PROVE  ActiveEntries' \subseteq ActiveEntries
  BY <1>12 DEF RunEnds, StoreReport, ReleaseWriter, registry
<1>13. ASSUME NEW i \in Ids, Publish(i)
       PROVE  ActiveEntries' \subseteq ActiveEntries
  <2>1. owner[i] \in Owners /\ report[i] \in Final
    BY <1>0, <1>13, TaskOwner DEF Publish, Live, TypeOK
  <2> QED
    BY <1>0, <1>13, <2>1 DEF Publish, TypeOK, Finish, Active, Final
<1>14. CASE UNCHANGED vars
  BY <1>14 DEF vars
<1> QED
  BY <1>1, <1>2, <1>3, <1>4, <1>5, <1>6, <1>7, <1>8, <1>9, <1>10, <1>11, <1>12,
     <1>13, <1>14
  DEF Next, Sessions, Tools, StartSettles, Task

LEMMA LimitedStep == Inv /\ [Next]_vars => Limited'
<1> SUFFICES ASSUME Inv, [Next]_vars PROVE Limited'
  OBVIOUS
<1>0. Limited
  BY DEF Inv
<1>1. ASSUME NEW i \in Ids, NEW r \in Roles, Register(i, r) PROVE Limited'
  <2>1. Cardinality(ActiveEntries) + 1 <= MaxActive
    BY <1>0, <1>1, FS_CardinalityType, LimitsAssumption DEF Register, Reserve, Limited
  <2>2. ActiveEntries' = ActiveEntries \cup {<<session, i>>}
    BY <1>1 DEF Register, ActiveEntries, Inv, Idle, TypeOK, Active
  <2>3. IsFiniteSet(ActiveEntries') /\ Cardinality(ActiveEntries') <= Cardinality(ActiveEntries) + 1
    <3>1. IsFiniteSet(ActiveEntries) /\ Cardinality(ActiveEntries) \in Nat
      BY <1>0, FS_CardinalityType DEF Limited
    <3>2. /\ IsFiniteSet(ActiveEntries \cup {<<session, i>>})
          /\ Cardinality(ActiveEntries \cup {<<session, i>>}) =
               IF <<session, i>> \in ActiveEntries
                 THEN Cardinality(ActiveEntries) ELSE Cardinality(ActiveEntries) + 1
      BY <3>1, FS_AddElement
    <3> HIDE DEF ActiveEntries
    <3> QED
      BY <2>2, <3>1, <3>2
  <2>4. Cardinality(ActiveEntries) \in Nat /\ Cardinality(ActiveEntries') \in Nat
    BY <1>0, <2>3, FS_CardinalityType DEF Limited
  <2> QED
    BY <2>1, <2>3, <2>4, LimitsAssumption DEF Limited
<1>2. CASE \A i \in Ids, r \in Roles : ~Register(i, r)
  <2>1. ActiveEntries' \subseteq ActiveEntries
    BY <1>2, NoNewEntries
  <2>2. IsFiniteSet(ActiveEntries') /\ Cardinality(ActiveEntries') <= Cardinality(ActiveEntries)
    BY <1>0, <2>1, FS_Subset DEF Limited
  <2>3. Cardinality(ActiveEntries) \in Nat /\ Cardinality(ActiveEntries') \in Nat
    BY <1>0, <2>2, FS_CardinalityType DEF Limited
  <2> QED
    BY <1>0, <2>2, <2>3, LimitsAssumption DEF Limited
<1> QED
  BY <1>1, <1>2

-----------------------------------------------------------------------------
(* The writer lock                                                         *)

LEMMA LockedStep == Inv /\ [Next]_vars => Locked'
<1> SUFFICES ASSUME Inv, [Next]_vars PROVE Locked'
  OBVIOUS
<1> USE DEF Locked
<1>0. TypeOK /\ Locked
  BY DEF Inv
<1>1. ASSUME NEW o \in Owners, NewSession(o) PROVE Locked'
  BY <1>0, <1>1 DEF NewSession, tasks
<1>2. ASSUME NEW o \in Owners, Resume(o) \/ Fork(o) PROVE Locked'
  BY <1>0, <1>2, SwitchEntries DEF tasks
<1>3. CASE Crash
  BY <1>3 DEF Crash, Writing
<1>4. CASE RootTurn
  BY <1>0, <1>4 DEF RootTurn, BeginTurn, StopTurn, Answer, TurnEnds, tasks
<1>5. ASSUME NEW i \in Ids, NEW r \in Roles, Register(i, r) PROVE Locked'
  BY <1>0, <1>5, NamesAssumption DEF Register, LockIsFree, TypeOK, Writing
<1>6. ASSUME NEW i \in Ids, StoreRegistration(i) PROVE Locked'
  BY <1>0, <1>6 DEF StoreRegistration, TypeOK, Writing
<1>7. ASSUME NEW i \in Ids, RegistrationFails(i) PROVE Locked'
  BY <1>0, <1>7 DEF RegistrationFails, TaskGone, TypeOK, Writing
<1>8. ASSUME NEW i \in Ids, Cancel(i) \/ Cleanup(i) PROVE Locked'
  BY <1>0, <1>8 DEF Cancel, Cleanup, tasks
<1>9. ASSUME NEW S, Collect(S) PROVE Locked'
  BY <1>0, <1>9 DEF Collect, tasks
<1>10. CASE BeginEdit
  BY <1>0, <1>10 DEF BeginEdit, LockIsFree, tasks
<1>11. CASE EndEdit
  BY <1>0, <1>11, NamesAssumption DEF EndEdit, tasks
<1>12. ASSUME NEW i \in Ids, TaskRuns(i) \/ RunEnds(i) \/ StoreReport(i) PROVE Locked'
  BY <1>0, <1>12 DEF TaskRuns, RunEnds, StoreReport, TypeOK, Writing
<1>13. ASSUME NEW i \in Ids, ReleaseWriter(i) PROVE Locked'
  BY <1>0, <1>13, NamesAssumption DEF ReleaseWriter, TypeOK, Writing
<1>14. ASSUME NEW i \in Ids, Publish(i) PROVE Locked'
  BY <1>0, <1>14 DEF Publish, TaskGone, TypeOK, Writing
<1>15. CASE UNCHANGED vars
  BY <1>0, <1>15 DEF vars
<1> QED
  BY <1>1, <1>2, <1>3, <1>4, <1>5, <1>6, <1>7, <1>8, <1>9, <1>10, <1>11, <1>12,
     <1>13, <1>14, <1>15
  DEF Next, Sessions, Tools, StartSettles, Task

-----------------------------------------------------------------------------
(* The final answer                                                        *)

LEMMA AnswersStep == Inv /\ [Next]_vars => AnswersSeeReports'
<1> SUFFICES ASSUME Inv, [Next]_vars, turn' = "Answered"
             PROVE  AnswersSeeReports'
  BY DEF AnswersSeeReports
<1>1. CASE Answer
  <2>1. \A i \in Ids : entry[session][i] \notin Active /\ <<session, i>> \notin unread
    BY <1>1 DEF Answer, Pending
  <2>2. Live = {}
    BY <2>1, TaskOwner DEF Live
  <2> QED
    BY <1>1, <2>1, <2>2 DEF Answer, AnswersSeeReports, registry, Live
<1>2. CASE turn = "Answered"
  <2>0. Live = {} /\ \A i \in Ids : stage[i] = "None"
    BY <1>2 DEF Inv, AnswersSeeReports, Live
  <2>1. CASE EndEdit \/ UNCHANGED vars
    BY <1>2, <2>1 DEF EndEdit, registry, tasks, vars, Inv, AnswersSeeReports, Live
  <2>2. CASE Sessions
    BY <1>2, <2>2 DEF Sessions, NewSession, Resume, Fork, MaySwitch, Crash
  <2>3. CASE RootTurn
    BY <1>2, <2>3 DEF RootTurn, BeginTurn, StopTurn, Answer, TurnEnds
  <2>4. ASSUME NEW i \in Ids, StartSettles(i) \/ Task(i) PROVE FALSE
    BY <2>0, <2>4
    DEF StartSettles, StoreRegistration, RegistrationFails, Task, TaskRuns,
        RunEnds, StoreReport, ReleaseWriter, Publish
  <2>5. CASE Tools /\ ~EndEdit
    BY <1>2, <2>4, <2>5 DEF Tools, Register, Cancel, Cleanup, Collect, BeginEdit
  <2> QED
    BY <2>1, <2>2, <2>3, <2>4, <2>5 DEF Next
<1>3. turn = "Answered" \/ Answer
  <2>1. CASE UNCHANGED vars
    BY <2>1 DEF vars
  <2>2. CASE Sessions
    BY <2>2 DEF Sessions, NewSession, Resume, Fork, Crash
  <2>3. CASE RootTurn
    BY <2>3 DEF RootTurn, BeginTurn, StopTurn, TurnEnds
  <2>4. CASE Tools
    BY <2>4 DEF Tools, Register, StartSettles, StoreRegistration,
       RegistrationFails, Cancel, Cleanup, Collect, BeginEdit, EndEdit
  <2>5. ASSUME NEW i \in Ids, Task(i) PROVE turn = "Answered"
    BY <2>5 DEF Task, TaskRuns, RunEnds, StoreReport, ReleaseWriter, Publish
  <2> QED
    BY <2>1, <2>2, <2>3, <2>4, <2>5 DEF Next
<1> QED
  BY <1>1, <1>2, <1>3

-----------------------------------------------------------------------------
(* Registry, log and tasks                                                 *)

\* A step that leaves the log and the sessions alone, and the stage and the
\* report of every task that stays.
LEMMA StoredSame ==
  ASSUME Inv, UNCHANGED <<used, log, session, saved>>,
         \A i \in Ids :
           \/ stage'[i] = "None"
           \/ /\ stage'[i] = stage[i] /\ owner'[i] = owner[i] /\ report'[i] = report[i]
           \/ /\ stage[i] = "Spawned" /\ stage'[i] = "Working" /\ owner'[i] = owner[i]
           \/ /\ stage[i] = "Working" /\ stage'[i] = "Ended" /\ owner'[i] = owner[i]
           \/ /\ stage[i] = "Settled" /\ stage'[i] = "Released"
              /\ owner'[i] = owner[i] /\ report'[i] = report[i],
         \A o \in Owners, i \in Ids :
           \/ entry'[o][i] = entry[o][i]
           \/ o = session /\ entry'[o][i] \notin Final
           \/ o = session /\ entry'[o][i] = log[o][i]
           \/ /\ o = session /\ entry'[o][i] = "Failed"
              /\ log[o][i] \in {"Absent", "Registered"}
  PROVE  Stored'
<1>0. Stored /\ NoSession \notin Owners
  BY NamesAssumption DEF Inv
<1>1. ReportsAreStored'
  BY <1>0 DEF Stored, ReportsAreStored
<1>2. \A i \in Ids : stage'[i] \in {"Spawned", "Working", "Ended"}
        => log'[owner'[i]][i] = "Registered"
  BY <1>0 DEF Stored
<1>3. \A i \in Ids : stage'[i] \in {"Settled", "Released"}
        => \/ report'[i] = log'[owner'[i]][i]
           \/ report'[i] = "Failed" /\ log'[owner'[i]][i] = "Registered"
  BY <1>0 DEF Stored
<1>4. \A o \in Owners, i \in Ids :
        stage'[i] = "Registering" \/ (stage'[i] # "None" /\ o # owner'[i]) \/ i \notin used'
          => log'[o][i] = "Absent"
  BY <1>0 DEF Stored, Live
<1>5. \A i \in Ids : i \notin used' => stage'[i] = "None"
  BY <1>0 DEF Stored, Live
<1>6. \A o \in Owners \ saved', i \in Ids : log'[o][i] = "Absent" /\ entry'[o][i] = "Absent"
  BY <1>0 DEF Stored
<1> QED
  BY <1>0, <1>1, <1>2, <1>3, <1>4, <1>5, <1>6 DEF Stored, Live

LEMMA ResumeStored == ASSUME Inv, NEW o \in Owners, Resume(o) PROVE Stored'
<1>0. TypeOK /\ Stored /\ TypeOK'
  BY TypeStep DEF Inv, Next, Sessions
<1>1. Live = {} /\ Live' = {}
  BY SwitchEntries DEF tasks, Live
<1>2. /\ o \in saved /\ o # session /\ UNCHANGED <<used, saved>>
      /\ log' = [log EXCEPT ![o] = [i \in Ids |-> Recovered(log[o][i])]]
  BY DEF Resume
<1>3. /\ \A i \in Ids : log'[o][i] = Recovered(log[o][i])
      /\ \A p \in Owners \ {o} : log'[p] = log[p]
  BY <1>0, <1>2 DEF TypeOK
<1>4. ReportsAreStored'
  <2>1. CASE NotOpened
    BY <1>0, <1>2, <1>3, <2>1 DEF NotOpened, Stored, ReportsAreStored, Recovered, Final
  <2>2. CASE Restore(o, log'[o])
    <3>1. /\ \A i \in Ids : entry'[o][i] = log'[o][i]
          /\ \A p \in Owners \ {o} : entry'[p] = entry[p]
          /\ session' = o
      BY <1>0, <1>3, <2>2 DEF Restore, Recovered, TypeOK
    <3> QED
      BY <1>0, <1>3, <3>1 DEF Stored, ReportsAreStored
  <2> QED
    BY <2>1, <2>2 DEF Resume
<1>5. \A p \in Owners \ saved', i \in Ids : log'[p][i] = "Absent" /\ entry'[p][i] = "Absent"
  BY <1>0, <1>2, <1>3 DEF Resume, NotOpened, Restore, Stored, TypeOK
<1>6. session' \in saved' \cup {NoSession}
  BY <1>0, <1>2 DEF Resume, NotOpened, Restore, Stored
<1>7. \A p \in Owners, i \in Ids : log[p][i] = "Absent" => log'[p][i] = "Absent"
  BY <1>3 DEF Recovered
<1> QED
  BY <1>0, <1>1, <1>2, <1>4, <1>5, <1>6, <1>7 DEF Stored, Live

LEMMA ForkStored == ASSUME Inv, NEW o \in Owners, Fork(o) PROVE Stored'
<1>0. TypeOK /\ Stored /\ NoSession \notin Owners
  BY NamesAssumption DEF Inv
<1>1. Live = {} /\ Live' = {}
  BY SwitchEntries DEF tasks, Live
<1>2. /\ o \notin saved /\ saved' = saved \cup {o} /\ UNCHANGED used
      /\ session \in saved /\ session \in Owners /\ o # session
      /\ log' = [log EXCEPT ![o] = log[session]]
  BY <1>0 DEF Fork, Stored, TypeOK
<1>3. log'[o] = log[session] /\ \A p \in Owners \ {o} : log'[p] = log[p]
  BY <1>0, <1>2 DEF TypeOK
<1>4. ReportsAreStored'
  <2>1. CASE NotOpened
    BY <1>0, <1>2, <1>3, <2>1 DEF NotOpened, Stored, ReportsAreStored, Final
  <2>2. CASE Restore(o, log[session])
    <3>1. /\ \A i \in Ids : entry'[o][i] = Recovered(log[session][i])
          /\ \A p \in Owners \ {o} : entry'[p] = entry[p]
          /\ session' = o
      BY <1>0, <2>2 DEF Restore, TypeOK
    <3> QED
      BY <1>0, <1>3, <3>1 DEF Stored, ReportsAreStored, Recovered, Final
  <2> QED
    BY <2>1, <2>2 DEF Fork
<1>5. \A p \in Owners \ saved', i \in Ids : log'[p][i] = "Absent" /\ entry'[p][i] = "Absent"
  BY <1>0, <1>2, <1>3 DEF Fork, NotOpened, Restore, Stored, TypeOK
<1>6. session' \in saved'
  BY <1>2 DEF Fork, NotOpened, Restore
<1>7. \A p \in Owners, i \in Ids : i \notin used => log'[p][i] = "Absent"
  BY <1>0, <1>2, <1>3 DEF Stored
<1> QED
  BY <1>0, <1>1, <1>2, <1>4, <1>5, <1>6, <1>7 DEF Stored, Live

LEMMA StoredStep == Inv /\ [Next]_vars => Stored'
<1> SUFFICES ASSUME Inv, [Next]_vars PROVE Stored'
  OBVIOUS
<1>0. TypeOK /\ Stored /\ NoSession \notin Owners
  BY NamesAssumption DEF Inv
<1>1. ASSUME NEW o \in Owners, NewSession(o) PROVE Stored'
  <2>1. Live = {} /\ UNCHANGED <<registry, tasks, log>> /\ saved' = saved \cup {o}
        /\ session' = o /\ o \notin saved
    BY <1>1 DEF NewSession, MaySwitch, Inv, Idle
  <2>2. ReportsAreStored'
    BY <1>0, <2>1 DEF Stored, ReportsAreStored, registry, Final
  <2> QED
    BY <1>0, <2>1, <2>2 DEF Stored, Live, registry, tasks
<1>2. ASSUME NEW o \in Owners, Resume(o) \/ Fork(o) PROVE Stored'
  BY <1>2, ResumeStored, ForkStored
<1>3. CASE Crash
  <2>1. /\ \A i \in Ids : stage'[i] = "None"
        /\ \A o \in Owners, i \in Ids : entry'[o][i] = "Absent"
        /\ UNCHANGED <<used, saved, log>> /\ session' = NoSession
    BY <1>3 DEF Crash, storage
  <2> QED
    BY <1>0, <2>1 DEF Stored, ReportsAreStored, Live, Final
<1>4. CASE RootTurn
  BY <1>4, StoredSame
  DEF RootTurn, BeginTurn, StopTurn, Answer, TurnEnds, registry, tasks, storage
<1>5. ASSUME NEW i \in Ids, NEW r \in Roles, Register(i, r) PROVE Stored'
  <2>1. session \in Owners /\ session \in saved /\ i \notin used /\ i \notin Live
    BY <1>0, <1>5 DEF Register, Inv, Idle, Stored
  <2>2. /\ used' = used \cup {i} /\ UNCHANGED <<report, session, saved, log>>
        /\ stage'[i] = "Registering"
        /\ \A j \in Ids \ {i} : stage'[j] = stage[j] /\ owner'[j] = owner[j]
        /\ \A o \in Owners, j \in Ids : entry'[o][j] =
             IF o = session /\ j = i THEN "Registered" ELSE entry[o][j]
    BY <1>0, <1>5, <2>1 DEF Register, TypeOK, storage
  <2>3. \A o \in Owners : log[o][i] = "Absent"
    BY <1>0, <2>1 DEF Stored
  <2>4. ReportsAreStored'
    BY <1>0, <2>2 DEF Stored, ReportsAreStored, Final
  <2>5. \A j \in Ids : stage'[j] \in {"Spawned", "Working", "Ended"}
          => log'[owner'[j]][j] = "Registered"
    BY <1>0, <2>2 DEF Stored
  <2>6. \A j \in Ids : stage'[j] \in {"Settled", "Released"}
          => \/ report'[j] = log'[owner'[j]][j]
             \/ report'[j] = "Failed" /\ log'[owner'[j]][j] = "Registered"
    BY <1>0, <2>2 DEF Stored
  <2>7. \A o \in Owners, j \in Ids :
          stage'[j] = "Registering" \/ (j \in Live' /\ o # owner'[j]) \/ j \notin used'
            => log'[o][j] = "Absent"
    BY <1>0, <2>1, <2>2 DEF Stored, Live
  <2>8. \A j \in Ids : j \notin used' => j \notin Live'
    BY <1>0, <2>1, <2>2 DEF Stored, Live
  <2>9. \A o \in Owners \ saved', j \in Ids :
          log'[o][j] = "Absent" /\ entry'[o][j] = "Absent"
    BY <1>0, <2>1, <2>2 DEF Stored
  <2>10. session' \in saved' \cup {NoSession}
    BY <1>0, <2>2 DEF Stored
  <2> QED
    BY <2>4, <2>5, <2>6, <2>7, <2>8, <2>9, <2>10 DEF Stored
<1>6. ASSUME NEW i \in Ids, StoreRegistration(i) PROVE Stored'
  <2>1. owner[i] = session /\ session \in Owners /\ session \in saved /\ i \in used
        /\ entry[session][i] \in Active /\ \A o \in Owners : log[o][i] = "Absent"
    BY <1>0, <1>6, TaskOwner DEF StoreRegistration, Live, Stored
  <2>2. /\ UNCHANGED <<entry, used, owner, report, session, saved>>
        /\ stage'[i] = "Spawned" /\ log'[session][i] = "Registered"
        /\ \A j \in Ids \ {i} : stage'[j] = stage[j]
        /\ \A o \in Owners, j \in Ids : o # session \/ j # i => log'[o][j] = log[o][j]
    BY <1>0, <1>6, <2>1 DEF StoreRegistration, TypeOK, registry
  <2>3. ReportsAreStored'
    BY <1>0, <2>1, <2>2 DEF Stored, ReportsAreStored, Final, Active
  <2>4. \A j \in Ids : j \in Live => owner[j] \in Owners
    BY TaskOwner
  <2>5. \A j \in Ids : stage'[j] \in {"Spawned", "Working", "Ended"}
          => log'[owner'[j]][j] = "Registered"
    BY <1>0, <2>1, <2>2, <2>4 DEF Stored, Live
  <2>6. \A j \in Ids : stage'[j] \in {"Settled", "Released"}
          => \/ report'[j] = log'[owner'[j]][j]
             \/ report'[j] = "Failed" /\ log'[owner'[j]][j] = "Registered"
    BY <1>0, <2>2, <2>4 DEF Stored, Live
  <2>7. \A o \in Owners, j \in Ids :
          stage'[j] = "Registering" \/ (j \in Live' /\ o # owner'[j]) \/ j \notin used'
            => log'[o][j] = "Absent"
    BY <1>0, <2>1, <2>2 DEF Stored, Live
  <2>8. \A j \in Ids : j \notin used' => j \notin Live'
    BY <1>0, <2>1, <2>2 DEF Stored, Live
  <2>9. \A o \in Owners \ saved', j \in Ids :
          log'[o][j] = "Absent" /\ entry'[o][j] = "Absent"
    BY <1>0, <2>1, <2>2 DEF Stored
  <2>10. session' \in saved' \cup {NoSession}
    BY <1>0, <2>2 DEF Stored
  <2> QED
    BY <2>3, <2>5, <2>6, <2>7, <2>8, <2>9, <2>10 DEF Stored
<1>7. ASSUME NEW i \in Ids, RegistrationFails(i) PROVE Stored'
  <2>1. owner[i] = session /\ session \in Owners /\ log[session][i] = "Absent"
    BY <1>0, <1>7, TaskOwner DEF RegistrationFails, Live, Stored
  <2>2. \A o \in Owners, j \in Ids :
          \/ entry'[o][j] = entry[o][j]
          \/ o = session /\ j = i /\ entry'[o][j] = "Failed"
    BY <1>0, <1>7, <2>1 DEF RegistrationFails, TypeOK, Finish
  <2> QED
    BY <1>0, <1>7, <2>1, <2>2, StoredSame
    DEF RegistrationFails, TaskGone, storage, TypeOK
<1>8. ASSUME NEW i \in Ids, Cancel(i) PROVE Stored'
  <2>1. session \in Owners
    BY <1>8 DEF Cancel, Inv, Idle
  <2>2. \A o \in Owners, j \in Ids :
          entry'[o][j] = entry[o][j] \/ (o = session /\ entry'[o][j] \notin Final)
    BY <1>0, <1>8, <2>1 DEF Cancel, TypeOK, Final
  <2> QED
    BY <1>0, <1>8, <2>2, StoredSame DEF Cancel, storage
<1>9. ASSUME NEW i \in Ids, Cleanup(i) PROVE Stored'
  <2>1. session \in Owners
    BY <1>9 DEF Cleanup, Inv, Idle
  <2>2. \A o \in Owners, j \in Ids :
          entry'[o][j] = entry[o][j] \/ (o = session /\ entry'[o][j] \notin Final)
    BY <1>0, <1>9, <2>1 DEF Cleanup, TypeOK, Final
  <2> QED
    BY <1>0, <1>9, <2>2, StoredSame DEF Cleanup, tasks, storage
<1>10. ASSUME NEW S, Collect(S) PROVE Stored'
  BY <1>10, StoredSame DEF Collect, tasks, storage
<1>11. CASE BeginEdit \/ EndEdit
  BY <1>11, StoredSame DEF BeginEdit, EndEdit, registry, tasks, storage
<1>12. ASSUME NEW i \in Ids, TaskRuns(i) PROVE Stored'
  <2>1. owner[i] = session /\ session \in Owners
    BY <1>12, TaskOwner DEF TaskRuns, Live
  <2>2. \A o \in Owners, j \in Ids :
          entry'[o][j] = entry[o][j] \/ (o = session /\ entry'[o][j] \notin Final)
    BY <1>0, <1>12, <2>1 DEF TaskRuns, TypeOK, Final
  <2> QED
    BY <1>0, <1>12, <2>2, StoredSame DEF TaskRuns, storage, TypeOK
<1>13. ASSUME NEW i \in Ids, RunEnds(i) \/ ReleaseWriter(i) PROVE Stored'
  BY <1>0, <1>13, StoredSame DEF RunEnds, ReleaseWriter, registry, storage, TypeOK
<1>14. ASSUME NEW i \in Ids, StoreReport(i) PROVE Stored'
  <2>1. owner[i] = session /\ session \in Owners /\ log[session][i] = "Registered"
        /\ entry[session][i] \in Active /\ session \in saved /\ i \in used
    BY <1>0, <1>14, TaskOwner DEF StoreReport, Live, Stored
  <2>2. /\ UNCHANGED <<entry, used, owner, session, saved>>
        /\ stage'[i] = "Settled"
        /\ \A j \in Ids \ {i} : stage'[j] = stage[j] /\ report'[j] = report[j]
        /\ \A o \in Owners, j \in Ids : o # session \/ j # i => log'[o][j] = log[o][j]
        /\ \/ report'[i] = log'[session][i]
           \/ report'[i] = "Failed" /\ log'[session][i] = "Registered"
    BY <1>0, <1>14, <2>1 DEF StoreReport, SettledReport, TypeOK, registry
  <2>3. ReportsAreStored'
    BY <1>0, <2>1, <2>2 DEF Stored, ReportsAreStored, Final, Active
  <2>4. \A j \in Ids : j \in Live => owner[j] \in Owners
    BY TaskOwner
  <2>5. \A j \in Ids : stage'[j] \in {"Spawned", "Working", "Ended"}
          => log'[owner'[j]][j] = "Registered"
    BY <1>0, <2>2, <2>4 DEF Stored, Live
  <2>6. \A j \in Ids : stage'[j] \in {"Settled", "Released"}
          => \/ report'[j] = log'[owner'[j]][j]
             \/ report'[j] = "Failed" /\ log'[owner'[j]][j] = "Registered"
    <3>1. ASSUME NEW j \in Ids, j # i, stage[j] \in {"Settled", "Released"}
          PROVE  \/ report'[j] = log'[owner'[j]][j]
                 \/ report'[j] = "Failed" /\ log'[owner'[j]][j] = "Registered"
      BY <1>0, <2>2, <2>4, <3>1 DEF Stored, Live
    <3> QED
      BY <2>1, <2>2, <3>1
  <2>7. \A o \in Owners, j \in Ids :
          stage'[j] = "Registering" \/ (j \in Live' /\ o # owner'[j]) \/ j \notin used'
            => log'[o][j] = "Absent"
    <3>1. ASSUME NEW o \in Owners, NEW j \in Ids, o # session \/ j # i,
                 stage'[j] = "Registering" \/ (j \in Live' /\ o # owner'[j]) \/ j \notin used'
          PROVE  log'[o][j] = "Absent"
      <4>1. stage[j] = "Registering" \/ (j \in Live /\ o # owner[j]) \/ j \notin used
        BY <1>14, <2>1, <2>2, <3>1 DEF Live, StoreReport
      <4> QED
        BY <1>0, <2>2, <3>1, <4>1 DEF Stored
    <3>2. stage'[i] # "Registering" /\ owner'[i] = session /\ i \in used'
      BY <2>1, <2>2
    <3> QED
      BY <3>1, <3>2
  <2>8. \A j \in Ids : j \notin used' => j \notin Live'
    BY <1>0, <2>1, <2>2 DEF Stored, Live
  <2>9. \A o \in Owners \ saved', j \in Ids :
          log'[o][j] = "Absent" /\ entry'[o][j] = "Absent"
    BY <1>0, <2>1, <2>2 DEF Stored
  <2>10. session' \in saved' \cup {NoSession}
    BY <1>0, <2>2 DEF Stored
  <2> QED
    BY <2>3, <2>5, <2>6, <2>7, <2>8, <2>9, <2>10 DEF Stored
<1>15. ASSUME NEW i \in Ids, Publish(i) PROVE Stored'
  <2>1. owner[i] = session /\ session \in Owners
        /\ \/ report[i] = log[session][i]
           \/ report[i] = "Failed" /\ log[session][i] = "Registered"
    BY <1>0, <1>15, TaskOwner DEF Publish, Live, Stored
  <2>2. \A o \in Owners, j \in Ids :
          \/ entry'[o][j] = entry[o][j]
          \/ o = session /\ j = i /\ entry'[o][j] = report[i]
    BY <1>0, <1>15, <2>1 DEF Publish, TypeOK, Finish
  <2> QED
    BY <1>0, <1>15, <2>1, <2>2, StoredSame DEF Publish, TaskGone, storage, TypeOK
<1>16. CASE UNCHANGED vars
  BY <1>16, StoredSame DEF vars
<1> QED
  BY <1>1, <1>2, <1>3, <1>4, <1>5, <1>6, <1>7, <1>8, <1>9, <1>10, <1>11, <1>12,
     <1>13, <1>14, <1>15, <1>16
  DEF Next, Sessions, Tools, StartSettles, Task

-----------------------------------------------------------------------------
(* Allocations                                                             *)

\* A step that logs no new worker and begins no start.
LEMMA CountedSame ==
  ASSUME Counted, UNCHANGED <<starts, session>>,
         \A o \in Owners : Logged(o)' = Logged(o), Registering' => Registering
  PROVE  Counted'
<1> HIDE DEF Logged, Registering
<1>1. session \in Owners => Logged(session)' = Logged(session)
  OBVIOUS
<1> QED
  BY <1>1 DEF Counted

LEMMA CountedStep == Inv /\ [Next]_vars => Counted'
<1> SUFFICES ASSUME Inv, [Next]_vars PROVE Counted'
  OBVIOUS
<1>0. TypeOK /\ Counted /\ Stored
  BY DEF Inv
<1>a. \A o \in Owners : Cardinality(Logged(o)) \in Nat
  BY <1>0, FS_CardinalityType DEF Counted
<1>b. Live = {} => ~Registering
  BY DEF Live, Registering
<1>1. ASSUME NEW o \in Owners, NewSession(o) PROVE Counted'
  <2>1. session' = o /\ UNCHANGED starts /\ \A p \in Owners : Logged(p)' = Logged(p)
    BY <1>1 DEF NewSession, registry, Logged
  <2>2. ~Registering'
    BY <1>1, <1>b DEF NewSession, MaySwitch, Inv, Idle, Registering, tasks, Live
  <2>3. Logged(o) = {}
    BY <1>0, <1>1 DEF NewSession, Stored, Logged
  <2>4. Cardinality(Logged(o)) <= starts[o]
    BY <1>0, <2>3, FS_EmptySet DEF TypeOK
  <2> HIDE DEF Logged, Registering
  <2> QED
    BY <1>0, <2>1, <2>2, <2>4 DEF Counted
<1>2. ASSUME NEW o \in Owners, Resume(o) \/ Fork(o) PROVE Counted'
  <2>1. ~Registering'
    BY <1>2, SwitchEntries DEF tasks, Registering, Live
  <2>2. /\ \A p \in Owners \ {o} : Logged(p)' = Logged(p)
        /\ Logged(o)' = Logged(o) \/ (session \in Owners /\ Logged(o)' = Logged(session))
    BY <1>0, <1>2 DEF Resume, Fork, Logged, Recovered, TypeOK
  <2>3. \A p \in Owners : IsFiniteSet(Logged(p)') /\ Cardinality(Logged(p)') <= MaxStarts
    BY <1>0, <2>2 DEF Counted
  <2>4. CASE NotOpened
    <3>1. session \in Owners => session # o
      BY <1>0, <1>2 DEF Resume, Fork, Stored
    <3>2. session \in Owners => Logged(session)' = Logged(session)
      BY <2>2, <2>4, <3>1 DEF NotOpened, Logged
    <3> HIDE DEF Logged, Registering
    <3> QED
      BY <1>0, <2>1, <2>3, <2>4, <3>2 DEF Counted, NotOpened
  <2>5. CASE ~NotOpened
    <3>1. session' = o /\ starts'[o] = Cardinality(Logged(o)')
      <4>1. CASE Resume(o)
        <5>1. {i \in Ids : log'[o][i] # "Absent"} = Logged(o)'
          BY DEF Logged
        <5> QED
          BY <1>0, <2>5, <4>1, <5>1 DEF Resume, Restore, RestoredStarts, TypeOK
      <4>2. CASE Fork(o)
        <5>1. {i \in Ids : log[session][i] # "Absent"} = Logged(o)'
          BY <1>0, <4>2 DEF Fork, Logged, TypeOK
        <5> QED
          BY <1>0, <2>5, <4>2, <5>1 DEF Fork, Restore, RestoredStarts, TypeOK
      <4> QED
        BY <1>2, <4>1, <4>2
    <3>2. Cardinality(Logged(o)') \in Nat
      BY <2>3, FS_CardinalityType
    <3> HIDE DEF Logged, Registering
    <3> QED
      BY <2>1, <2>3, <3>1, <3>2 DEF Counted
  <2> QED
    BY <2>4, <2>5
<1>3. CASE Crash
  <2>1. session' = NoSession /\ \A p \in Owners : Logged(p)' = Logged(p)
    BY <1>3 DEF Crash, storage, Logged
  <2> HIDE DEF Logged, Registering
  <2> QED
    BY <1>0, <2>1, NamesAssumption DEF Counted
<1>4. CASE RootTurn
  BY <1>0, <1>4, CountedSame
  DEF RootTurn, BeginTurn, StopTurn, Answer, TurnEnds, registry, tasks, storage,
      Logged, Registering
<1>5. ASSUME NEW i \in Ids, NEW r \in Roles, Register(i, r) PROVE Counted'
  <2>1. /\ session \in Owners /\ session' = session
        /\ \A p \in Owners : Logged(p)' = Logged(p)
    BY <1>5 DEF Register, Inv, Idle, Logged, storage
  <2>2. starts'[session] = starts[session] + 1 /\ starts[session] \in Nat
    BY <1>0, <1>5, <2>1, LimitsAssumption DEF Register, TypeOK
  <2> HIDE DEF Logged, Registering
  <2>3. Cardinality(Logged(session)) <= starts[session]
    BY <1>0, <2>1 DEF Counted
  <2> QED
    BY <1>0, <1>a, <2>1, <2>2, <2>3 DEF Counted
<1>6. ASSUME NEW i \in Ids, StoreRegistration(i) PROVE Counted'
  <2>1. owner[i] = session /\ session \in Owners
    BY <1>6, TaskOwner DEF StoreRegistration, Live
  <2>2. UNCHANGED <<starts, session>> /\ Registering /\ ~Registering'
    BY <1>0, <1>6 DEF StoreRegistration, registry, Registering, TypeOK, Inv, Idle
  <2>3. /\ Logged(session)' = Logged(session) \cup {i}
        /\ \A p \in Owners \ {session} : Logged(p)' = Logged(p)
    BY <1>0, <1>6, <2>1 DEF StoreRegistration, Logged, TypeOK
  <2> HIDE DEF Logged, Registering
  <2>4. /\ IsFiniteSet(Logged(session) \cup {i})
        /\ Cardinality(Logged(session) \cup {i}) =
             IF i \in Logged(session) THEN Cardinality(Logged(session))
             ELSE Cardinality(Logged(session)) + 1
    BY <1>0, <2>1, FS_AddElement DEF Counted
  <2>5. Cardinality(Logged(session)) < starts[session] /\ starts[session] \in 0..MaxStarts
    BY <1>0, <2>1, <2>2 DEF Counted, TypeOK
  <2>6. Cardinality(Logged(session) \cup {i}) <= starts[session]
        /\ Cardinality(Logged(session) \cup {i}) <= MaxStarts
    BY <1>a, <2>1, <2>4, <2>5, LimitsAssumption
  <2> QED
    BY <1>0, <2>1, <2>2, <2>3, <2>4, <2>6 DEF Counted
<1>7. ASSUME NEW i \in Ids, RegistrationFails(i) PROVE Counted'
  BY <1>0, <1>7, CountedSame
  DEF RegistrationFails, TaskGone, storage, Logged, Registering, TypeOK
<1>8. ASSUME NEW i \in Ids, Cancel(i) \/ Cleanup(i) PROVE Counted'
  BY <1>0, <1>8, CountedSame DEF Cancel, Cleanup, tasks, storage, Logged, Registering
<1>9. ASSUME NEW S, Collect(S) PROVE Counted'
  BY <1>0, <1>9, CountedSame DEF Collect, tasks, storage, Logged, Registering
<1>10. CASE BeginEdit \/ EndEdit
  BY <1>0, <1>10, CountedSame
  DEF BeginEdit, EndEdit, registry, tasks, storage, Logged, Registering
<1>11. ASSUME NEW i \in Ids, StoreReport(i) PROVE Counted'
  <2>1. owner[i] = session /\ session \in Owners /\ log[session][i] = "Registered"
        /\ report[i] \in Final
    BY <1>0, <1>11, TaskOwner DEF StoreReport, Live, Stored, TypeOK
  <2>2. \A p \in Owners : Logged(p)' = Logged(p)
    BY <1>0, <1>11, <2>1 DEF StoreReport, Logged, TypeOK, Final
  <2>3. Registering' => Registering
    BY <1>0, <1>11 DEF StoreReport, Registering, TypeOK
  <2> QED
    BY <1>0, <1>11, <2>2, <2>3, CountedSame DEF StoreReport, registry
<1>12. ASSUME NEW i \in Ids, TaskRuns(i) \/ RunEnds(i) \/ ReleaseWriter(i) \/ Publish(i)
       PROVE  Counted'
  BY <1>0, <1>12, CountedSame
  DEF TaskRuns, RunEnds, ReleaseWriter, Publish, TaskGone, registry, storage,
      Logged, Registering, TypeOK
<1>13. CASE UNCHANGED vars
  BY <1>0, <1>13, CountedSame DEF vars, Logged, Registering
<1> QED
  BY <1>1, <1>2, <1>3, <1>4, <1>5, <1>6, <1>7, <1>8, <1>9, <1>10, <1>11, <1>12,
     <1>13
  DEF Next, Sessions, Tools, StartSettles, Task

-----------------------------------------------------------------------------
(* The invariant                                                           *)

LEMMA InvStep == Inv /\ [Next]_vars => Inv'
BY TypeStep, ListedStep, IdleStep, LimitedStep, LockedStep, StoredStep,
   CountedStep, AnswersStep DEF Inv

\* The invariant holds in every state that the program reaches.
THEOREM Invariant == Spec => []Inv
BY InitInv, InvStep, PTL DEF Spec

-----------------------------------------------------------------------------
(* What it implies                                                         *)

\* Every variable has its type; no owner has started more than it may.
THEOREM TypeCorrect == Spec => []TypeOK
<1>1. Inv => TypeOK
  BY DEF Inv
<1> QED
  BY Invariant, <1>1, PTL

\* The limit on entries is one on tasks: each task has an entry it cannot lose.
LEMMA WorkIsListed == Inv => Work \subseteq ActiveEntries
<1> SUFFICES ASSUME Inv, NEW i \in Live PROVE <<owner[i], i>> \in ActiveEntries
  BY DEF Work
<1> QED
  BY TaskOwner DEF ActiveEntries, Live

\* At most MaxActive tasks of workers exist at any time (Reserve counts the
\* unfinished entries of all owners, whatever was cancelled or cleaned up).
THEOREM WorkIsLimited == Spec => []WorkLimit
<1>1. Inv => WorkLimit
  <2> SUFFICES ASSUME Inv PROVE WorkLimit
    OBVIOUS
  <2>1. Work \subseteq ActiveEntries /\ IsFiniteSet(ActiveEntries)
        /\ Cardinality(ActiveEntries) <= MaxActive
    BY WorkIsListed DEF Inv, Limited
  <2>2. IsFiniteSet(Work) /\ Cardinality(Work) <= Cardinality(ActiveEntries)
    BY <2>1, FS_Subset
  <2>3. Cardinality(Work) \in Nat /\ Cardinality(ActiveEntries) \in Nat
    BY <2>1, <2>2, FS_CardinalityType
  <2> QED
    BY <2>1, <2>2, <2>3, LimitsAssumption DEF WorkLimit
<1> QED
  BY Invariant, <1>1, PTL

\* No cancel, cleanup, fork or restore takes the entry of a running worker,
\* and the session becomes idle, and may be switched, only without workers.
THEOREM WorkStaysOwned == Spec => []WorkIsOwned
<1>1. Inv => WorkIsOwned
  BY DEF Inv, Listed, Idle, WorkIsOwned, NoWorkWithoutTurn
<1> QED
  BY Invariant, <1>1, PTL

\* A worker with the role Write and the root never edit at the same time.
THEOREM OneEditor == Spec => []EditorsAreAlone
<1>1. Inv => EditorsAreAlone
  <2> SUFFICES ASSUME Inv PROVE EditorsAreAlone
    OBVIOUS
  <2>1. Editors \subseteq holders
    BY DEF Inv, Locked, Editors, Writing
  <2> QED
    BY <2>1 DEF Inv, Locked, EditorsAreAlone
<1> QED
  BY Invariant, <1>1, PTL

\* The completion review lets no answer pass a worker or a report.
THEOREM AnswersComeLast == Spec => []AnswersSeeReports
<1>1. Inv => AnswersSeeReports
  BY DEF Inv
<1> QED
  BY Invariant, <1>1, PTL

\* The registry and the log agree on how a worker has ended, and the log never
\* runs ahead of a task.
THEOREM ReportsAreTrue == Spec => []LogIsTrue
<1>1. Inv => ReportsAreStored
  BY DEF Inv, Stored
<1>2. Inv => EndedWorkHasEnded
  <2> SUFFICES ASSUME Inv, NEW o \in Owners, NEW i \in Ids,
                      stage[i] \in {"Registering", "Spawned", "Working", "Ended"}
               PROVE  log[o][i] \notin Final
    BY DEF EndedWorkHasEnded
  <2>1. i \in Live
    BY DEF Live
  <2>2. log[o][i] \in {"Absent", "Registered"}
    BY <2>1 DEF Inv, Stored
  <2> QED
    BY <2>2 DEF Final
<1>3. Inv => LogIsTrue
  BY <1>1, <1>2 DEF LogIsTrue
<1> QED
  BY Invariant, <1>3, PTL

\* Restarts, forks and switches give a session no further starts.
THEOREM StartsStayBounded == Spec => []StartsAreBounded
<1>1. Inv => StartsAreBounded
  BY DEF Inv, Counted, StartsAreBounded
<1> QED
  BY Invariant, <1>1, PTL

-----------------------------------------------------------------------------
(* Stored reports                                                          *)

KeepsReports ==
  \A o \in Owners, i \in Ids :
    /\ log[o][i] \in Final => log'[o][i] = log[o][i]
    /\ log[o][i] # "Absent" => log'[o][i] # "Absent"

LEMMA KeepsStep == Inv /\ [Next]_vars => KeepsReports
<1> SUFFICES ASSUME Inv, [Next]_vars PROVE KeepsReports
  OBVIOUS
<1>0. TypeOK /\ Stored
  BY DEF Inv
<1>1. CASE UNCHANGED log
  BY <1>1 DEF KeepsReports
<1>2. ASSUME NEW o \in Owners, Resume(o) PROVE KeepsReports
  BY <1>0, <1>2 DEF Resume, Recovered, Final, KeepsReports, TypeOK
<1>3. ASSUME NEW o \in Owners, Fork(o) PROVE KeepsReports
  <2>1. \A i \in Ids : log[o][i] = "Absent"
    BY <1>0, <1>3 DEF Fork, Stored
  <2>2. \A p \in Owners \ {o} : log'[p] = log[p]
    BY <1>0, <1>3 DEF Fork, TypeOK
  <2> QED
    BY <2>1, <2>2 DEF KeepsReports, Final
<1>4. ASSUME NEW i \in Ids, StoreRegistration(i) PROVE KeepsReports
  <2>1. owner[i] \in Owners /\ log[owner[i]][i] = "Absent"
    BY <1>0, <1>4, TaskOwner DEF StoreRegistration, Stored, Live
  <2> QED
    BY <1>0, <1>4, <2>1 DEF StoreRegistration, KeepsReports, TypeOK, Final
<1>5. ASSUME NEW i \in Ids, StoreReport(i) PROVE KeepsReports
  <2>1. owner[i] \in Owners /\ log[owner[i]][i] = "Registered"
    BY <1>0, <1>5, TaskOwner DEF StoreReport, Stored, Live
  <2>2. report[i] # "Absent"
    BY <1>0 DEF TypeOK, Final
  <2> QED
    BY <1>0, <1>5, <2>1, <2>2 DEF StoreReport, KeepsReports, TypeOK, Final
<1>6. CASE \E o \in Owners : NewSession(o)
  BY <1>1, <1>6 DEF NewSession
<1>7. CASE Crash \/ RootTurn
  BY <1>1, <1>7
  DEF Crash, RootTurn, BeginTurn, StopTurn, Answer, TurnEnds, storage
<1>8. ASSUME NEW i \in Ids, NEW r \in Roles, Register(i, r) PROVE KeepsReports
  BY <1>1, <1>8 DEF Register, storage
<1>9. ASSUME NEW i \in Ids, RegistrationFails(i) \/ Cancel(i) \/ Cleanup(i)
      PROVE  KeepsReports
  BY <1>1, <1>9 DEF RegistrationFails, Cancel, Cleanup, storage
<1>10. ASSUME NEW S, Collect(S) PROVE KeepsReports
  BY <1>1, <1>10 DEF Collect, storage
<1>11. CASE BeginEdit \/ EndEdit
  BY <1>1, <1>11 DEF BeginEdit, EndEdit, storage
<1>12. ASSUME NEW i \in Ids, TaskRuns(i) \/ RunEnds(i) \/ ReleaseWriter(i) \/ Publish(i)
       PROVE  KeepsReports
  BY <1>1, <1>12 DEF TaskRuns, RunEnds, ReleaseWriter, Publish, storage
<1>13. CASE UNCHANGED vars
  BY <1>1, <1>13 DEF vars
<1> QED
  BY <1>2, <1>3, <1>4, <1>5, <1>6, <1>7, <1>8, <1>9, <1>10, <1>11, <1>12, <1>13
  DEF Next, Sessions, Tools, StartSettles, Task

\* A stored report is never replaced, by a late task, a recovery or a fork.
THEOREM ReportsStay == Spec => StoredReportsStay
<1>1. Inv /\ [Next]_vars => [KeepsReports]_vars
  BY KeepsStep
<1>2. Spec => [][KeepsReports]_vars
  BY Invariant, <1>1, PTL DEF Spec
<1> QED
  BY <1>2 DEF StoredReportsStay, KeepsReports
=============================================================================
