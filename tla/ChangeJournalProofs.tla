------------------------- MODULE ChangeJournalProofs -------------------------
(***************************************************************************)
(* Proofs of the honesty of ChangeJournal, for any files, contents and     *)
(* bounds.                                                                 *)
(*                                                                         *)
(* The journal is compared with `wrote`, what Joe really did.  A record    *)
(* intends each of its writes and confirms nothing else (JournalInv); the  *)
(* work at hand knows which of its edits are made (TaskInv); and as long   *)
(* as no other program writes a file, each of Joe's writes starts from     *)
(* what the one before it left (Leaves).                                   *)
(***************************************************************************)
EXTENDS ChangeJournal, TLAPS, WellFoundedInduction

Edits == [file : Files, before : Contents, after : Contents]
States == {"prepared", "applying", "applied", "failed", "undone"}
Records == [edits : Seq(Edits), applied : Nat, inFlight : BOOLEAN, state : States, undoOf : Nat]
Active == {"ready", "begun", "compared", "replaced", "failing", "undone"}
Disks == [Files -> Contents]
Workspaces == [Listed -> Contents]
Tasks == [at : Active \cup {"idle", "validating"}, id : Nat, record : Records,
          command : Commands \cup {Unseen}, before : Workspaces \cup {Unseen}]
Wrote == [file : Files, id : Nat, to : Contents]
LastRuns == [passed : BOOLEAN, began : Workspaces, ended : Workspaces]

Types ==
  /\ disk \in Disks /\ records \in Seq(Records) /\ wrote \in Seq(Wrote)
  /\ validation \subseteq [command : Commands, workspace : Workspaces]
  /\ observed \in [Files -> Contents \cup {Unseen}] /\ task \in Tasks
  /\ known \in [Files -> SUBSET Contents] /\ late \in BOOLEAN /\ touched \subseteq Files
  /\ lastRun \in [Commands -> LastRuns \cup {Unseen}]

-----------------------------------------------------------------------------
(* The invariant                                                           *)

Distinct(edits) == \A k, l \in DOMAIN edits : edits[k].file = edits[l].file => k = l
RecordInv(r) ==
  /\ Distinct(r.edits)
  /\ r.applied <= Len(r.edits)
  /\ r.inFlight => r.applied < Len(r.edits)

Written(i, e) == [file |-> e.file, id |-> i, to |-> e.after] \in ToSet(wrote)
Makes(r, e) == \E k \in Begun(r) : r.edits[k] = e

\* What a record confirms was written; an undo puts back a record that was
\* fully applied, and a record is undone by one that is.
ConfirmedInv(i) == \A k \in 1..records[i].applied : Written(i, records[i].edits[k])
UndoInv(i) ==
  LET u == records[i].undoOf
  IN u # 0 => /\ u \in DOMAIN records /\ u < i /\ FullyConfirmed(records[u])
              /\ records[i].edits = Reversed(records[u].edits)
UndoneInv(i) ==
  records[i].state = "undone" =>
    \E u \in DOMAIN records :
      /\ records[u].undoOf = i /\ FullyConfirmed(records[u])
      /\ records[u].edits = Reversed(records[i].edits)

\* The version that Joe's writes before the n-th left of a file.
Leaves(f, n, version) ==
  \/ (\A l \in Writes(f) : n <= l) /\ version = Original
  \/ \E m \in Writes(f) : /\ m < n /\ \A l \in Writes(f) : l < n => l <= m
                          /\ version = wrote[m].to

\* A write is an edit that its record intends.
WriteInv(l) ==
  LET w == wrote[l] IN
  /\ w.id \in DOMAIN records /\ w.to \in known[w.file]
  /\ \E e \in Edits : /\ Makes(records[w.id], e) /\ e.file = w.file /\ e.after = w.to
                      /\ w.file \notin touched => Leaves(w.file, l, e.before)
\* Records write one after another, and each a file once.
OrderInv ==
  \A k, l \in DOMAIN wrote :
    /\ k <= l => wrote[k].id <= wrote[l].id
    /\ wrote[k].id = wrote[l].id /\ wrote[k].file = wrote[l].file => k = l

JournalInv ==
  /\ \A i \in DOMAIN records : RecordInv(records[i]) /\ ConfirmedInv(i)
  /\ \A i \in DOMAIN records : UndoInv(i) /\ UndoneInv(i)
  /\ \A l \in DOMAIN wrote : WriteInv(l)
  /\ OrderInv
  /\ \A f \in Files \ touched : Leaves(f, Len(wrote) + 1, disk[f])

KnownInv ==
  \A f \in Files : /\ baseline[f] \in known[f]
                   /\ observed[f] # Unseen => observed[f] \in known[f]

\* Edits that the work at hand may have made.
Made(at, r) == IF at \in {"begun", "compared"} THEN 1..r.applied ELSE Begun(r)
SavedInv(r, s) ==
  /\ r.edits = s.edits /\ r.undoOf = s.undoOf
  /\ r.state # "undone" /\ s.state # "undone"
  /\ FullyConfirmed(s) => FullyConfirmed(r)
WorkInv(at, id, r) ==
  /\ id = Len(records) /\ id # 0 /\ RecordInv(r) /\ SavedInv(r, records[id])
  /\ at # "failing" => records[id] = r
  /\ \A k \in 1..r.applied : Written(id, r.edits[k])
  /\ \A l \in DOMAIN wrote : wrote[l].id = id =>
       \E k \in Made(at, r) : r.edits[k].file = wrote[l].file
  /\ \A k \in DOMAIN r.edits : r.edits[k].before \in known[r.edits[k].file]
  /\ at = "ready" => ~r.inFlight
  /\ at \in {"begun", "compared", "replaced"} => r.inFlight
  /\ at = "compared" =>
       \/ disk[Current(r).file] = Current(r).before
       \/ late /\ Current(r).file \in touched
  /\ at = "replaced" => Written(id, Current(r))
  /\ at = "undone" => r.undoOf # 0 /\ FullyConfirmed(r)
TaskInv ==
  /\ task.at \in Active => WorkInv(task.at, task.id, task.record)
  /\ task.at = "validating" => task.command \in Commands /\ task.before \in Workspaces

ValidInv ==
  \A v \in validation :
    lastRun[v.command] = [passed |-> TRUE, began |-> v.workspace, ended |-> v.workspace]

CountInv == foreign \in Nat
EditsInv == Types /\ JournalInv /\ KnownInv /\ TaskInv /\ ValidInv

-----------------------------------------------------------------------------
(* Records and what they hold                                              *)

\* A set of numbers has a least one ...
LEMMA Smallest ==
  ASSUME NEW S, S \subseteq Nat, S # {}
  PROVE  \E m \in S : \A k \in S : m <= k
<1> DEFINE R == OpToRel(<, Nat)
<1>1. IsWellFoundedOn(R, Nat)
  BY NatLessThanWellFounded
<1>2. \A x, y \in Nat : y < x => <<y, x>> \in R
  BY DEF OpToRel
<1> HIDE DEF R
<1>3. PICK m \in S : \A y \in S : ~(<<y, m>> \in R)
  BY <1>1, WFMin
<1>4. \A k \in S : ~(k < m)
  BY <1>2, <1>3
<1> QED BY <1>3, <1>4

\* ... and positions in a sequence have a last one.
LEMMA LastPosition ==
  ASSUME NEW n \in Nat, NEW S, S \subseteq 1..n, S # {}
  PROVE  \E m \in S : \A k \in S : k <= m
<1> DEFINE T == {n - k : k \in S}
<1>1. PICK s \in S : TRUE
  OBVIOUS
<1>2. n - s \in T /\ T \subseteq Nat
  OBVIOUS
<1>3. PICK t \in T : \A k \in T : t <= k
  BY <1>2, Smallest
<1>4. PICK m \in S : t = n - m
  BY <1>3
<1>5. \A k \in S : n - m <= n - k
  BY <1>3, <1>4
<1> QED BY <1>4, <1>5

\* A record has at most one edit of a file.
LEMMA EditOfIs ==
  ASSUME NEW r \in Records, Distinct(r.edits), NEW k \in DOMAIN r.edits,
         NEW f, f = r.edits[k].file
  PROVE  EditOf(r, f) = r.edits[k]
<1>1. \A e \in ToSet(r.edits) : e.file = f => e = r.edits[k]
  BY DEF ToSet, Distinct
<1>2. r.edits[k] \in ToSet(r.edits)
  BY DEF ToSet
<1> QED BY <1>1, <1>2 DEF EditOf

\* The edits that a record has begun are edits of it.
LEMMA BegunIs ==
  ASSUME NEW r \in Records, RecordInv(r)
  PROVE  /\ Begun(r) \subseteq DOMAIN r.edits /\ 1..r.applied \subseteq Begun(r)
         /\ r.inFlight => r.applied + 1 \in DOMAIN r.edits
         /\ Begun(r) = 1..r.applied \cup (IF r.inFlight THEN {r.applied + 1} ELSE {})
         /\ \A k \in DOMAIN r.edits : r.edits[k] \in Edits
<1>1. /\ r.edits \in Seq(Edits) /\ r.applied \in Nat /\ r.inFlight \in BOOLEAN
      /\ r.applied <= Len(r.edits) /\ (r.inFlight => r.applied < Len(r.edits))
  BY DEF Records, RecordInv
<1>2. DOMAIN r.edits = 1..Len(r.edits) /\ Len(r.edits) \in Nat
  BY <1>1
<1>3. Begun(r) = 1..r.applied \cup (IF r.inFlight THEN {r.applied + 1} ELSE {})
  <2>1. CASE r.inFlight
    <3>1. Begun(r) = 1..(r.applied + 1)
      BY <2>1 DEF Begun
    <3>2. 1..(r.applied + 1) = 1..r.applied \cup {r.applied + 1}
      BY <1>1
    <3> QED BY <2>1, <3>1, <3>2
  <2>2. CASE ~r.inFlight
    <3>1. Begun(r) = 1..(r.applied + 0)
      BY <2>2 DEF Begun
    <3> QED BY <1>1, <2>2, <3>1
  <2> QED BY <2>1, <2>2
<1>4. \A k \in DOMAIN r.edits : r.edits[k] \in Edits
  BY <1>1
<1>5. r.inFlight => r.applied + 1 \in DOMAIN r.edits
  BY <1>1, <1>2
<1>6. 1..r.applied \subseteq DOMAIN r.edits
  BY <1>1, <1>2
<1> QED BY <1>3, <1>4, <1>5, <1>6

\* To reverse edits twice changes nothing but their direction.
LEMMA ReversedIs ==
  ASSUME NEW edits \in Seq(Edits), Distinct(edits)
  PROVE  /\ Reversed(edits) \in Seq(Edits) /\ Distinct(Reversed(edits))
         /\ Len(Reversed(edits)) = Len(edits)
         /\ \A k \in DOMAIN Reversed(edits) : \E l \in DOMAIN edits :
              /\ Reversed(edits)[k].file = edits[l].file
              /\ Reversed(edits)[k].before = edits[l].after
<1> DEFINE back == [k \in DOMAIN edits |-> Edit(edits[k].file, edits[k].after, edits[k].before)]
           n == Len(edits)
<1>1. n \in Nat /\ DOMAIN edits = 1..n /\ \A k \in 1..n : edits[k] \in Edits
  OBVIOUS
<1>2. back \in Seq(Edits) /\ Len(back) = n
  <2>1. back \in [1..n -> Edits]
    BY <1>1 DEF Edit, Edits
  <2> QED BY <1>1, <2>1
<1> HIDE DEF n
<1>3. Reversed(edits) = [k \in 1..n |-> back[(n - k) + 1]]
  BY <1>2 DEF Reversed, Reverse
<1>4. \A k \in 1..n : (n - k) + 1 \in 1..n
  BY <1>1
<1>5. Reversed(edits) \in [1..n -> Edits]
  BY <1>1, <1>2, <1>3, <1>4
<1>6. Reversed(edits) \in Seq(Edits) /\ Len(Reversed(edits)) = n /\ DOMAIN Reversed(edits) = 1..n
  BY <1>1, <1>5
<1>7. ASSUME NEW k \in 1..n
      PROVE  Reversed(edits)[k] = [file   |-> edits[(n - k) + 1].file,
                                   before |-> edits[(n - k) + 1].after,
                                   after  |-> edits[(n - k) + 1].before]
  BY <1>1, <1>3, <1>4, <1>7 DEF Edit
<1> HIDE DEF back
<1>8. ASSUME NEW k \in 1..n
      PROVE  /\ Reversed(edits)[k].file = edits[(n - k) + 1].file
             /\ Reversed(edits)[k].before = edits[(n - k) + 1].after
  <2>1. Reversed(edits)[k] = [file   |-> edits[(n - k) + 1].file,
                              before |-> edits[(n - k) + 1].after,
                              after  |-> edits[(n - k) + 1].before]
    BY <1>7
  <2> QED BY <2>1
<1>9. Distinct(Reversed(edits))
  <2>1. ASSUME NEW k \in 1..n, NEW l \in 1..n, Reversed(edits)[k].file = Reversed(edits)[l].file
        PROVE  k = l
    <3>1. (n - k) + 1 = (n - l) + 1
      BY <1>1, <1>4, <1>8, <2>1 DEF Distinct
    <3> QED BY <1>1, <3>1
  <2> QED BY <1>6, <2>1 DEF Distinct
<1> QED BY <1>1, <1>4, <1>6, <1>8, <1>9 DEF n
\* The version that the tracker last saw of a file, or finds in its records,
\* was read or written by Joe.
LEMMA ObservedIsKnown ==
  ASSUME Types, JournalInv, KnownInv, NEW f \in Files
  PROVE  ObservedVersion(f) \in known[f]
<1> DEFINE confirmed == {i \in DOMAIN records : Applied(records[i], f)}
           last == CHOOSE i \in confirmed : \A j \in confirmed : j <= i
<1>1. CASE observed[f] # Unseen
  BY <1>1 DEF ObservedVersion, KnownInv
<1>2. CASE observed[f] = Unseen /\ confirmed = {}
  <2>1. ObservedVersion(f) = baseline[f]
    BY <1>2 DEF ObservedVersion
  <2> QED BY <2>1 DEF KnownInv
<1>3. CASE observed[f] = Unseen /\ confirmed # {}
  <2>1. records \in Seq(Records) /\ wrote \in Seq(Wrote)
    BY DEF Types
  <2>2. confirmed \subseteq 1..Len(records) /\ Len(records) \in Nat
    BY <2>1
  <2>3. \E m \in confirmed : \A j \in confirmed : j <= m
    BY <1>3, <2>2, LastPosition
  <2>4. last \in confirmed
    BY <2>3
  <2>5. ObservedVersion(f) = EditOf(records[last], f).after
    BY <1>3 DEF ObservedVersion
  <2> HIDE DEF last
  <2>6. last \in DOMAIN records /\ records[last] \in Records
    BY <2>1, <2>4
  <2>7. PICK k \in 1..records[last].applied : records[last].edits[k].file = f
    BY <2>4 DEF Applied
  <2>8. RecordInv(records[last]) /\ ConfirmedInv(last)
    BY <2>6 DEF JournalInv
  <2>9. k \in DOMAIN records[last].edits
    BY <2>6, <2>8, BegunIs
  <2>10. EditOf(records[last], f) = records[last].edits[k]
    BY <2>6, <2>7, <2>8, <2>9, EditOfIs DEF RecordInv
  <2>11. Written(last, records[last].edits[k])
    BY <2>8 DEF ConfirmedInv
  <2>12. PICK l \in DOMAIN wrote : wrote[l] = [file |-> f, id |-> last, to |-> records[last].edits[k].after]
    BY <2>7, <2>11 DEF Written, ToSet
  <2>13. wrote[l].to \in known[wrote[l].file]
    BY DEF JournalInv, WriteInv
  <2> QED BY <2>5, <2>10, <2>12, <2>13
<1> QED BY <1>1, <1>2, <1>3
-----------------------------------------------------------------------------
(* What keeps the journal true                                             *)

\* A step that writes no file keeps the journal true if the records keep
\* their edits, confirm only what was written and disown nothing.
LEMMA JournalKept ==
  ASSUME Types, Types', JournalInv, UNCHANGED wrote,
         \A f \in Files : known[f] \subseteq known'[f],
         touched \subseteq touched', \A f \in Files \ touched' : disk'[f] = disk[f],
         DOMAIN records \subseteq DOMAIN records',
         \A i \in DOMAIN records' : RecordInv(records'[i]) /\ ConfirmedInv(i)',
         \A i \in DOMAIN records : /\ records'[i].edits = records[i].edits
                                   /\ records'[i].undoOf = records[i].undoOf
                                   /\ FullyConfirmed(records[i]) => FullyConfirmed(records'[i]),
         \A i \in DOMAIN records' \ DOMAIN records :
           UndoInv(i)' /\ records'[i].state # "undone",
         \A i \in DOMAIN records : records'[i].state = "undone" =>
           \/ records[i].state = "undone"
           \/ \E u \in DOMAIN records :
                /\ records[u].undoOf = i /\ FullyConfirmed(records[u])
                /\ records[u].edits = Reversed(records[i].edits),
         \A l \in DOMAIN wrote, e \in Edits :
           Makes(records[wrote[l].id], e) /\ e.file = wrote[l].file => Makes(records'[wrote[l].id], e)
  PROVE  JournalInv'
<1>1. ASSUME NEW i \in DOMAIN records'
      PROVE  UndoInv(i)'
  <2>1. CASE i \in DOMAIN records
    <3>1. UndoInv(i)
      BY <2>1 DEF JournalInv
    <3> DEFINE u == records[i].undoOf
    <3>2. records'[i].undoOf = u /\ records'[i].edits = records[i].edits
      BY <2>1
    <3>3. u # 0 => /\ u \in DOMAIN records /\ u < i /\ FullyConfirmed(records[u])
                   /\ records[i].edits = Reversed(records[u].edits)
      BY <3>1 DEF UndoInv
    <3>4. u # 0 => /\ u \in DOMAIN records' /\ u < i /\ FullyConfirmed(records'[u])
                   /\ records'[i].edits = Reversed(records'[u].edits)
      BY <3>2, <3>3
    <3> QED BY <3>2, <3>4 DEF UndoInv
  <2> QED BY <1>1, <2>1
<1>2. ASSUME NEW i \in DOMAIN records', records'[i].state = "undone"
      PROVE  \E u \in DOMAIN records' :
               /\ records'[u].undoOf = i /\ FullyConfirmed(records'[u])
               /\ records'[u].edits = Reversed(records'[i].edits)
  <2>1. i \in DOMAIN records
    BY <1>2
  <2>2. UndoneInv(i)
    BY <2>1 DEF JournalInv
  <2>3. PICK u \in DOMAIN records :
          /\ records[u].undoOf = i /\ FullyConfirmed(records[u])
          /\ records[u].edits = Reversed(records[i].edits)
    BY <1>2, <2>1, <2>2 DEF UndoneInv
  <2>4. /\ records'[u].undoOf = i /\ FullyConfirmed(records'[u])
        /\ records'[u].edits = records[u].edits /\ records'[i].edits = records[i].edits
    BY <2>1, <2>3
  <2> QED BY <2>3, <2>4
<1>3. ASSUME NEW l \in DOMAIN wrote'
      PROVE  WriteInv(l)'
  <2>1. l \in DOMAIN wrote /\ wrote[l] \in Wrote /\ wrote'[l] = wrote[l] /\ Writes(wrote[l].file)' = Writes(wrote[l].file)
    BY <1>3 DEF Types, Writes
  <2>2. WriteInv(l)
    BY <2>1 DEF JournalInv
  <2>3. wrote[l].id \in DOMAIN records' /\ wrote[l].to \in known'[wrote[l].file]
    BY <2>1, <2>2 DEF WriteInv, Wrote
  <2>4. PICK e \in Edits :
          /\ Makes(records[wrote[l].id], e) /\ e.file = wrote[l].file /\ e.after = wrote[l].to
          /\ wrote[l].file \notin touched => Leaves(wrote[l].file, l, e.before)
    BY <2>2 DEF WriteInv
  <2>5. Makes(records'[wrote[l].id], e)
    BY <2>1, <2>4
  <2>6. Leaves(wrote[l].file, l, e.before) => Leaves(wrote[l].file, l, e.before)'
    BY <2>1 DEF Leaves
  <2> QED BY <2>1, <2>3, <2>4, <2>5, <2>6 DEF WriteInv
<1>4. OrderInv'
  BY DEF JournalInv, OrderInv
<1>5. ASSUME NEW f \in Files \ touched'
      PROVE  Leaves(f, Len(wrote) + 1, disk[f])'
  <2>1. Leaves(f, Len(wrote) + 1, disk[f]) /\ disk'[f] = disk[f]
    BY <1>5 DEF JournalInv
  <2> QED BY <2>1 DEF Leaves, Writes
<1>6. \A i \in DOMAIN records' : UndoneInv(i)'
  BY <1>2 DEF UndoneInv
<1> QED BY <1>1, <1>3, <1>4, <1>5, <1>6 DEF JournalInv

\* A step that leaves the records alone, too.
LEMMA JournalStays ==
  ASSUME Types, Types', JournalInv, UNCHANGED <<records, wrote>>,
         \A f \in Files : known[f] \subseteq known'[f],
         touched \subseteq touched', \A f \in Files \ touched' : disk'[f] = disk[f]
  PROVE  JournalInv'
<1>1. \A i \in DOMAIN records' : RecordInv(records'[i]) /\ ConfirmedInv(i)'
  BY DEF JournalInv, ConfirmedInv, Written
<1> QED BY <1>1, JournalKept
-----------------------------------------------------------------------------
(* Where the work goes, and what it saves                                  *)

\* Nothing is at work.
LEMMA IdleIs ==
  Idle \in Tasks /\ Idle.at = "idle" /\ Idle.id = 0 /\ Idle.record = Prepared(<<>>, 0)
<1>1. Prepared(<<>>, 0) \in Records
  BY DEF Prepared, Records, States
<1> QED BY <1>1 DEF Idle, Tasks

\* The baseline has versions, and so has the workspace a validation is about.
LEMMA VersionsAre ==
  ASSUME disk \in Disks
  PROVE  baseline \in Disks /\ Workspace \in Workspaces
BY JournalAssumption DEF baseline, Disks, Workspace, Workspaces

\* The work goes on with a record, or is over.
LEMMA GoesOn ==
  ASSUME task \in Tasks, NEW at \in Active \cup {"idle"}, NEW r \in Records, Goes(at, r)
  PROVE  /\ task' \in Tasks /\ task'.at = at
         /\ at # "idle" => task'.id = task.id /\ task'.record = r
<1>1. CASE at = "idle"
  BY <1>1, IdleIs DEF Goes
<1>2. CASE at # "idle"
  <2>1. task' = [task EXCEPT !.at = at, !.record = r]
    BY <1>2 DEF Goes
  <2> QED BY <2>1, <1>2 DEF Tasks
<1> QED BY <1>1, <1>2

\* A work that wrote every edit it says saves its record.
LEMMA RecordSaved ==
  ASSUME Types, Types', JournalInv, task.at \in Active, WorkInv(task.at, task.id, task.record),
         NEW r \in Records, RecordInv(r), SavedInv(r, task.record),
         \A k \in 1..r.applied : Written(task.id, r.edits[k]),
         \A l \in DOMAIN wrote : wrote[l].id = task.id =>
           \E k \in Begun(r) : r.edits[k].file = wrote[l].file,
         records' = [records EXCEPT ![task.id] = r], UNCHANGED <<disk, wrote, known, touched>>
  PROVE  JournalInv' /\ records'[task.id] = r /\ Len(records') = Len(records)
<1>0. PICK id \in Nat : id = task.id
  BY DEF Types, Tasks
<1>1. records \in Seq(Records) /\ wrote \in Seq(Wrote) /\ id = Len(records) /\ id # 0
  BY <1>0 DEF Types, WorkInv
<1>2. id \in DOMAIN records
  BY <1>1
<1>3. /\ records'[id] = r /\ DOMAIN records' = DOMAIN records /\ Len(records') = Len(records)
      /\ \A i \in DOMAIN records : i # id => records'[i] = records[i]
  BY <1>0, <1>1, <1>2
<1>4. SavedInv(r, records[id])
  BY <1>0 DEF WorkInv, SavedInv
<1>5. \A i \in DOMAIN records' : RecordInv(records'[i]) /\ ConfirmedInv(i)'
  <2>1. ConfirmedInv(id)'
    BY <1>0, <1>3 DEF ConfirmedInv, Written
  <2>2. ASSUME NEW i \in DOMAIN records, i # id
        PROVE  RecordInv(records'[i]) /\ ConfirmedInv(i)'
    BY <1>3, <2>2 DEF JournalInv, ConfirmedInv, Written
  <2> QED BY <1>3, <2>1, <2>2
<1>6. \A i \in DOMAIN records : /\ records'[i].edits = records[i].edits
                                /\ records'[i].undoOf = records[i].undoOf
                                /\ FullyConfirmed(records[i]) => FullyConfirmed(records'[i])
  BY <1>3, <1>4 DEF SavedInv
<1>7. \A i \in DOMAIN records : records'[i].state = "undone" => records[i].state = "undone"
  BY <1>3 DEF SavedInv
<1>8. ASSUME NEW l \in DOMAIN wrote, NEW e \in Edits,
             Makes(records[wrote[l].id], e), e.file = wrote[l].file
      PROVE  Makes(records'[wrote[l].id], e)
  <2>1. CASE wrote[l].id # id
    <3>1. wrote[l].id \in DOMAIN records
      BY DEF JournalInv, WriteInv
    <3> QED BY <1>3, <1>8, <2>1, <3>1
  <2>2. CASE wrote[l].id = id
    <3>1. PICK k \in Begun(records[id]) : records[id].edits[k] = e
      BY <1>8, <2>2 DEF Makes
    <3>2. records[id] \in Records /\ RecordInv(records[id]) /\ records[id].edits = r.edits
      BY <1>1, <1>2, <1>4 DEF JournalInv, SavedInv
    <3>3. k \in DOMAIN r.edits /\ r.edits[k] = e
      BY <3>1, <3>2, BegunIs
    <3>4. PICK j \in Begun(r) : r.edits[j].file = wrote[l].file
      BY <1>0, <2>2
    <3>5. j \in DOMAIN r.edits /\ j = k
      BY <1>8, <3>3, <3>4, BegunIs DEF RecordInv, Distinct
    <3> QED BY <1>3, <2>2, <3>3, <3>4, <3>5 DEF Makes
  <2> QED BY <2>1, <2>2
<1>9. JournalInv'
  BY <1>3, <1>5, <1>6, <1>7, <1>8, JournalKept
<1> QED BY <1>0, <1>3, <1>9
\* Saving a record, or failing to, keeps the invariant.
LEMMA SaveKeeps ==
  ASSUME EditsInv, task.at \in Active, NEW r \in Records, RecordInv(r), SavedInv(r, task.record),
         NEW next \in {"ready", "begun", "undone", "idle"}, NEW else \in {"failing", "idle"},
         \A k \in 1..r.applied : Written(task.id, r.edits[k]),
         \A l \in DOMAIN wrote : wrote[l].id = task.id =>
           \E k \in Made(next, r) : r.edits[k].file = wrote[l].file,
         next = "ready" => ~r.inFlight, next = "begun" => r.inFlight,
         next = "undone" => r.undoOf # 0 /\ FullyConfirmed(r),
         Save(r, next, else), UNCHANGED <<disk, validation, observed, wrote, seen, lastRun>>
  PROVE  EditsInv'
<1>1. Types /\ JournalInv /\ KnownInv /\ ValidInv /\ WorkInv(task.at, task.id, task.record)
  BY DEF EditsInv, TaskInv
<1>2. UNCHANGED <<disk, validation, observed, wrote, known, late, touched, lastRun>>
  BY DEF seen
<1>3. KnownInv' /\ ValidInv'
  BY <1>1, <1>2 DEF KnownInv, ValidInv
<1>0. PICK id \in Nat : id = task.id
  BY <1>1 DEF Types, Tasks
<1>4. /\ task.id = Len(records) /\ task.id # 0 /\ task \in Tasks /\ records \in Seq(Records)
      /\ SavedInv(r, records[task.id])
      /\ \A k \in DOMAIN r.edits : r.edits[k].before \in known[r.edits[k].file]
  BY <1>1 DEF WorkInv, SavedInv, Types
<1>5. \A k \in Made(next, r) : k \in Begun(r)
  BY BegunIs DEF Made
<1>6. \A l \in DOMAIN wrote : wrote[l].id = task.id =>
        \E k \in Begun(r) : r.edits[k].file = wrote[l].file
  BY <1>5
<1>7. CASE records' = [records EXCEPT ![task.id] = r] /\ Goes(next, r)
  <2>1. records' \in Seq(Records)
    BY <1>4, <1>7
  <2>2. /\ task' \in Tasks /\ task'.at = next
        /\ next # "idle" => task'.id = task.id /\ task'.record = r
    BY <1>4, <1>7, GoesOn DEF Active
  <2>3. Types'
    BY <1>1, <1>2, <2>1, <2>2 DEF Types
  <2>4. JournalInv' /\ records'[task.id] = r /\ Len(records') = Len(records)
    BY <1>1, <1>2, <1>6, <1>7, <2>3, RecordSaved
  <2>5. ASSUME next # "idle"
        PROVE  WorkInv(next, id, r)'
    <3>1. SavedInv(r, r)
      BY DEF SavedInv
    <3>2. \A k \in 1..r.applied : Written(id, r.edits[k])'
      BY <1>0, <1>2 DEF Written
    <3>3. records'[id] = r /\ id = Len(records') /\ id # 0
      BY <1>0, <1>4, <2>4
    <3> QED BY <1>0, <1>2, <1>4, <3>1, <3>2, <3>3, <2>5 DEF WorkInv
  <2>6. TaskInv'
    BY <1>0, <2>2, <2>5 DEF TaskInv, Active
  <2> QED BY <1>3, <2>3, <2>4, <2>6 DEF EditsInv
<1>8. CASE UNCHANGED records /\ Goes(else, r)
  <2>1. /\ task' \in Tasks /\ task'.at = else
        /\ else # "idle" => task'.id = task.id /\ task'.record = r
    BY <1>4, <1>8, GoesOn DEF Active
  <2>2. Types'
    BY <1>1, <1>2, <1>8, <2>1 DEF Types
  <2>3. JournalInv'
    BY <1>1, <1>2, <1>8, <2>2, JournalStays
  <2>4. ASSUME else # "idle"
        PROVE  WorkInv(else, id, r)'
    <3>1. \A k \in 1..r.applied : Written(id, r.edits[k])'
      BY <1>0, <1>2 DEF Written
    <3>2. Made(else, r) = Begun(r) /\ else = "failing"
      BY <2>4 DEF Made
    <3> QED BY <1>0, <1>2, <1>4, <1>6, <1>8, <3>1, <3>2 DEF WorkInv
  <2>5. TaskInv'
    BY <1>0, <2>1, <2>4 DEF TaskInv, Active
  <2> QED BY <1>3, <2>2, <2>3, <2>5 DEF EditsInv
<1> QED BY <1>7, <1>8 DEF Save
-----------------------------------------------------------------------------
(* The steps of an edit or undo                                            *)

\* What is known of the work at hand.
LEMMA WorkIs ==
  ASSUME EditsInv, task.at \in Active
  PROVE  /\ WorkInv(task.at, task.id, task.record) /\ task.record \in Records
         /\ SavedInv(task.record, task.record) /\ RecordInv(task.record)
         /\ Begun(task.record) \subseteq DOMAIN task.record.edits
BY BegunIs DEF EditsInv, Types, Tasks, TaskInv, WorkInv, SavedInv

\* The steps of a record change its marks only.
LEMMA MarksAre ==
  ASSUME NEW r \in Records
  PROVE  /\ BeginFile(r) \in Records /\ BeginFile(r).edits = r.edits
         /\ BeginFile(r).applied = r.applied /\ BeginFile(r).inFlight
         /\ BeginFile(r).undoOf = r.undoOf /\ BeginFile(r).state = "applying"
         /\ ConfirmFile(r) \in Records /\ ConfirmFile(r).edits = r.edits
         /\ ConfirmFile(r).applied = r.applied + 1 /\ ~ConfirmFile(r).inFlight
         /\ ConfirmFile(r).undoOf = r.undoOf /\ ConfirmFile(r).state = r.state
<1>1. /\ BeginFile(r) \in Records /\ BeginFile(r).edits = r.edits
      /\ BeginFile(r).applied = r.applied /\ BeginFile(r).inFlight
      /\ BeginFile(r).undoOf = r.undoOf /\ BeginFile(r).state = "applying"
  BY DEF BeginFile, Records, States
<1>2. /\ ConfirmFile(r) \in Records /\ ConfirmFile(r).edits = r.edits
      /\ ConfirmFile(r).applied = r.applied + 1 /\ ~ConfirmFile(r).inFlight
      /\ ConfirmFile(r).undoOf = r.undoOf /\ ConfirmFile(r).state = r.state
  <2>1. PICK n \in Nat : n = r.applied + 1
    BY DEF Records
  <2>2. ConfirmFile(r) = [r EXCEPT !.inFlight = FALSE, !.applied = n]
    BY <2>1 DEF ConfirmFile
  <2> QED BY <2>1, <2>2 DEF Records
<1> QED BY <1>1, <1>2

\* ChangeTracker::apply_record: the next edit is saved as in flight ...
LEMMA BeginKeeps == EditsInv /\ Begin => EditsInv'
<1> SUFFICES ASSUME EditsInv, Begin
             PROVE  EditsInv'
  OBVIOUS
<1> DEFINE r == task.record
           s == BeginFile(r)
<1>1. task.at = "ready" /\ task.at \in Active /\ r.applied < Len(r.edits)
  BY DEF Begin, At, Active
<1>2. WorkInv("ready", task.id, r) /\ r \in Records /\ RecordInv(r)
  BY <1>1, WorkIs
<1>3. /\ s \in Records /\ s.edits = r.edits /\ s.applied = r.applied /\ s.inFlight
      /\ s.undoOf = r.undoOf /\ s.state = "applying" /\ ~FullyConfirmed(r)
  <2>1. r.applied # Len(r.edits)
    BY <1>1, <1>2 DEF Records
  <2> QED BY <1>2, <2>1, MarksAre DEF FullyConfirmed
<1> HIDE DEF s
<1>4. RecordInv(s) /\ SavedInv(s, r)
  BY <1>1, <1>2, <1>3 DEF RecordInv, SavedInv, WorkInv
<1>5. Made("ready", r) = 1..r.applied /\ Made("begun", s) = 1..r.applied
  <2>1. ~r.inFlight
    BY <1>2 DEF WorkInv
  <2> QED BY <1>2, <1>3, <2>1, BegunIs DEF Made
<1>6. /\ \A k \in 1..s.applied : Written(task.id, s.edits[k])
      /\ \A l \in DOMAIN wrote : wrote[l].id = task.id =>
           \E k \in Made("begun", s) : s.edits[k].file = wrote[l].file
  BY <1>2, <1>3, <1>5 DEF WorkInv
<1>7. /\ Save(s, "begun", "failing")
      /\ UNCHANGED <<disk, validation, observed, wrote, seen, lastRun>>
  BY DEF Begin, s
<1> QED BY <1>1, <1>3, <1>4, <1>6, <1>7, SaveKeeps

\* ... and as confirmed, once the file is replaced ...
LEMMA ConfirmKeeps == EditsInv /\ Confirm => EditsInv'
<1> SUFFICES ASSUME EditsInv, Confirm
             PROVE  EditsInv'
  OBVIOUS
<1> DEFINE r == task.record
           s == ConfirmFile(r)
<1>1. task.at = "replaced" /\ task.at \in Active
  BY DEF Confirm, At, Active
<1>2. WorkInv("replaced", task.id, r) /\ r \in Records /\ RecordInv(r)
  BY <1>1, WorkIs
<1>3. r.inFlight /\ r.applied < Len(r.edits) /\ Written(task.id, r.edits[r.applied + 1])
  BY <1>2 DEF WorkInv, RecordInv, Current
<1>4. /\ s \in Records /\ s.edits = r.edits /\ s.applied = r.applied + 1 /\ ~s.inFlight
      /\ s.undoOf = r.undoOf /\ s.state = r.state /\ ~FullyConfirmed(r)
  BY <1>2, <1>3, MarksAre DEF FullyConfirmed
<1> HIDE DEF s
<1>5. RecordInv(s) /\ SavedInv(s, r)
  BY <1>2, <1>3, <1>4 DEF RecordInv, SavedInv, WorkInv, Records
<1>6. 1..s.applied = 1..r.applied \cup {r.applied + 1} /\ Begun(r) = 1..s.applied /\ Begun(s) = 1..s.applied
  <2>1. 1..s.applied = 1..r.applied \cup {r.applied + 1}
    BY <1>2, <1>4 DEF Records
  <2> QED BY <1>2, <1>3, <1>4, <1>5, <2>1, BegunIs
<1>7. Made("replaced", r) = Begun(r) /\ Made("ready", s) = Begun(s)
  BY DEF Made
<1>8. /\ \A k \in 1..s.applied : Written(task.id, s.edits[k])
      /\ \A l \in DOMAIN wrote : wrote[l].id = task.id =>
           \E k \in Made("ready", s) : s.edits[k].file = wrote[l].file
  <2>1. /\ \A k \in 1..r.applied : Written(task.id, r.edits[k])
        /\ \A l \in DOMAIN wrote : wrote[l].id = task.id =>
             \E k \in Made("replaced", r) : r.edits[k].file = wrote[l].file
    BY <1>2 DEF WorkInv
  <2> QED BY <1>3, <1>4, <1>6, <1>7, <2>1
<1>9. /\ Save(s, "ready", "failing")
      /\ UNCHANGED <<disk, validation, observed, wrote, seen, lastRun>>
  BY DEF Confirm, s
<1> QED BY <1>1, <1>4, <1>5, <1>8, <1>9, SaveKeeps

\* ... until the record is complete, ...
LEMMA CompleteKeeps == EditsInv /\ Complete => EditsInv'
<1> SUFFICES ASSUME EditsInv, Complete
             PROVE  EditsInv'
  OBVIOUS
<1> DEFINE r == task.record
           s == [r EXCEPT !.state = "applied"]
           next == IF r.undoOf # 0 THEN "undone" ELSE "idle"
<1>1. task.at = "ready" /\ task.at \in Active /\ FullyConfirmed(r)
  BY DEF Complete, At, Active
<1>2. WorkInv("ready", task.id, r) /\ r \in Records /\ RecordInv(r)
  BY <1>1, WorkIs
<1>3. /\ s \in Records /\ s.edits = r.edits /\ s.applied = r.applied /\ s.inFlight = r.inFlight
      /\ s.undoOf = r.undoOf /\ s.state = "applied"
  BY <1>2 DEF Records, States
<1>4. /\ Save(s, next, "idle")
      /\ UNCHANGED <<disk, validation, observed, wrote, seen, lastRun>>
  BY DEF Complete
<1>5. /\ next \in {"ready", "begun", "undone", "idle"} /\ next \notin {"ready", "begun"}
      /\ next = "undone" => r.undoOf # 0
  OBVIOUS
<1> HIDE DEF s, next
<1>6. RecordInv(s) /\ SavedInv(s, r) /\ FullyConfirmed(s) /\ Begun(s) = Begun(r)
  BY <1>1, <1>2, <1>3 DEF RecordInv, SavedInv, WorkInv, FullyConfirmed, Begun
<1>7. Made("ready", r) = Begun(s) /\ Made(next, s) = Begun(s)
  BY <1>5, <1>6 DEF Made
<1>8. /\ \A k \in 1..s.applied : Written(task.id, s.edits[k])
      /\ \A l \in DOMAIN wrote : wrote[l].id = task.id =>
           \E k \in Made(next, s) : s.edits[k].file = wrote[l].file
  BY <1>2, <1>3, <1>7 DEF WorkInv
<1> QED BY <1>1, <1>3, <1>4, <1>5, <1>6, <1>8, SaveKeeps

\* ... or has failed.
LEMMA FailKeeps == EditsInv /\ Fail => EditsInv'
<1> SUFFICES ASSUME EditsInv, Fail
             PROVE  EditsInv'
  OBVIOUS
<1> DEFINE r == task.record
           s == [r EXCEPT !.state = "failed"]
<1>1. task.at = "failing" /\ task.at \in Active
  BY DEF Fail, At, Active
<1>2. WorkInv("failing", task.id, r) /\ r \in Records /\ RecordInv(r)
  BY <1>1, WorkIs
<1>3. /\ s \in Records /\ s.edits = r.edits /\ s.applied = r.applied /\ s.inFlight = r.inFlight
      /\ s.undoOf = r.undoOf /\ s.state = "failed"
  BY <1>2 DEF Records, States
<1>4. /\ Save(s, "idle", "idle")
      /\ UNCHANGED <<disk, validation, observed, wrote, seen, lastRun>>
  BY DEF Fail
<1> HIDE DEF s
<1>5. RecordInv(s) /\ SavedInv(s, r) /\ Begun(s) = Begun(r)
  BY <1>2, <1>3 DEF RecordInv, SavedInv, WorkInv, FullyConfirmed, Begun
<1>6. Made("failing", r) = Begun(s) /\ Made("idle", s) = Begun(s)
  BY <1>5 DEF Made
<1>7. /\ \A k \in 1..s.applied : Written(task.id, s.edits[k])
      /\ \A l \in DOMAIN wrote : wrote[l].id = task.id =>
           \E k \in Made("idle", s) : s.edits[k].file = wrote[l].file
  BY <1>2, <1>3, <1>6 DEF WorkInv
<1> QED BY <1>1, <1>3, <1>4, <1>5, <1>7, SaveKeeps
\* The work goes on with the record it has.
LEMMA GoesKeeps ==
  ASSUME EditsInv, task.at \in Active, NEW at \in {"compared", "failing"},
         at = "compared" =>
           task.at = "begun" /\ disk[Current(task.record).file] = Current(task.record).before,
         Goes(at, task.record), late' \in BOOLEAN,
         UNCHANGED <<disk, records, validation, observed, wrote, known, touched, lastRun>>
  PROVE  EditsInv'
<1>1. /\ Types /\ JournalInv /\ KnownInv /\ ValidInv
      /\ WorkInv(task.at, task.id, task.record) /\ task \in Tasks /\ task.record \in Records
  BY DEF EditsInv, TaskInv, Types, Tasks
<1>2. PICK id \in Nat, r \in Records : id = task.id /\ r = task.record
  BY <1>1 DEF Tasks
<1>3. task' \in Tasks /\ task'.at = at /\ task'.id = id /\ task'.record = r
  BY <1>1, <1>2, GoesOn DEF Active
<1>4. Types'
  BY <1>1, <1>3 DEF Types
<1>5. JournalInv'
  BY <1>1, <1>4, JournalStays
<1>6. KnownInv' /\ ValidInv'
  BY <1>1 DEF KnownInv, ValidInv
<1>7. WorkInv(task.at, id, r)
  BY <1>1, <1>2
<1>8. \A l \in DOMAIN wrote : wrote[l].id = id => \E k \in Made(at, r) : r.edits[k].file = wrote[l].file
  <2>1. Made(task.at, r) \subseteq Made(at, r)
    BY <1>2, <1>7, BegunIs DEF Made, WorkInv
  <2> QED BY <1>7, <2>1 DEF WorkInv
<1>9. \A k \in 1..r.applied : Written(id, r.edits[k])'
  BY <1>7 DEF WorkInv, Written
<1>10. WorkInv(at, id, r)'
  BY <1>2, <1>7, <1>8, <1>9 DEF WorkInv
<1>11. TaskInv'
  BY <1>3, <1>10 DEF TaskInv
<1> QED BY <1>4, <1>5, <1>6, <1>11 DEF EditsInv

\* WorkspacePolicy::stage_edit and StagedEdit::apply: staging or replacing a
\* file fails, or the file is compared.
LEMMA CompareKeeps == EditsInv /\ (StageFails \/ ReplaceFails \/ Compare) => EditsInv'
<1>0. EditsInv => late \in BOOLEAN
  BY DEF EditsInv, Types
<1>1. ASSUME EditsInv, StageFails
      PROVE  EditsInv'
  BY <1>0, <1>1, GoesKeeps DEF StageFails, At, Active, journal, seen
<1>2. ASSUME EditsInv, ReplaceFails
      PROVE  EditsInv'
  BY <1>0, <1>2, GoesKeeps DEF ReplaceFails, At, Active, journal, seen
<1>3. ASSUME EditsInv, Compare
      PROVE  EditsInv'
  BY <1>3, GoesKeeps DEF Compare, At, Active, journal, counts
<1> QED BY <1>1, <1>2, <1>3
\* A write changes nothing of what was left before it, ...
LEMMA LeavesKept ==
  ASSUME wrote \in Seq(Wrote), NEW w \in Wrote, wrote' = Append(wrote, w),
         NEW f, NEW n \in 1..(Len(wrote) + 1), NEW version, Leaves(f, n, version)
  PROVE  Leaves(f, n, version)'
<1>1. /\ DOMAIN wrote = 1..Len(wrote) /\ DOMAIN wrote' = 1..(Len(wrote) + 1) /\ Len(wrote) \in Nat
      /\ \A l \in DOMAIN wrote : wrote'[l] = wrote[l]
  OBVIOUS
<1>2. \A l \in Writes(f) : l \in DOMAIN wrote /\ l \in Writes(f)' /\ wrote'[l] = wrote[l]
  BY <1>1 DEF Writes
<1>3. \A l \in Writes(f)' : l \in Writes(f) \/ n <= l
  BY <1>1 DEF Writes
<1>4. CASE (\A l \in Writes(f) : n <= l) /\ version = Original
  BY <1>3, <1>4 DEF Leaves
<1>5. CASE \E m \in Writes(f) : /\ m < n /\ \A l \in Writes(f) : l < n => l <= m
                                /\ version = wrote[m].to
  <2>1. PICK m \in Writes(f) : /\ m < n /\ \A l \in Writes(f) : l < n => l <= m
                               /\ version = wrote[m].to
    BY <1>5
  <2>2. \A l \in Writes(f)' : l < n => l <= m
    <3>1. ASSUME NEW l \in Writes(f)', l < n
          PROVE  l \in Writes(f)
      <4>1. l \in DOMAIN wrote'
        BY <3>1 DEF Writes
      <4> QED BY <1>1, <1>3, <3>1, <4>1
    <3> QED BY <2>1, <3>1
  <2> QED BY <1>2, <2>1, <2>2 DEF Leaves
<1> QED BY <1>4, <1>5 DEF Leaves

\* ... and is what is left of its file.
LEMMA LeavesNow ==
  ASSUME wrote \in Seq(Wrote), NEW w \in Wrote, wrote' = Append(wrote, w),
         NEW n \in Nat, n = Len(wrote)
  PROVE  /\ Leaves(w.file, n + 2, w.to)'
         /\ \A f, version : f # w.file /\ Leaves(f, n + 1, version) => Leaves(f, n + 2, version)'
<1>2. /\ DOMAIN wrote = 1..n /\ DOMAIN wrote' = 1..(n + 1) /\ wrote'[n + 1] = w
      /\ \A l \in 1..n : wrote'[l] = wrote[l]
  OBVIOUS
<1>3. Leaves(w.file, n + 2, w.to)'
  <2>1. n + 1 \in Writes(w.file)'
    BY <1>2 DEF Writes
  <2>2. \A l \in Writes(w.file)' : l <= n + 1
    BY <1>2 DEF Writes
  <2> QED BY <1>2, <2>1, <2>2 DEF Leaves
<1>4. ASSUME NEW f, NEW version, f # w.file, Leaves(f, n + 1, version)
      PROVE  Leaves(f, n + 2, version)'
  <2>1. Writes(f)' = Writes(f)
    BY <1>2, <1>4 DEF Writes
  <2>2. \A l \in Writes(f) : l \in 1..n /\ wrote'[l] = wrote[l]
    BY <1>2 DEF Writes
  <2>3. CASE (\A l \in Writes(f) : n + 1 <= l) /\ version = Original
    <3>1. Writes(f) = {}
      BY <2>2, <2>3
    <3> QED BY <2>1, <2>3, <3>1 DEF Leaves
  <2>4. CASE \E m \in Writes(f) : /\ m < n + 1 /\ \A l \in Writes(f) : l < n + 1 => l <= m
                                  /\ version = wrote[m].to
    <3>1. PICK m \in Writes(f) : /\ \A l \in Writes(f) : l < n + 1 => l <= m
                                 /\ version = wrote[m].to
      BY <2>4
    <3>2. m < n + 2 /\ \A l \in Writes(f) : l <= m
      BY <2>2, <3>1
    <3> QED BY <2>1, <2>2, <3>1, <3>2 DEF Leaves
  <2> QED BY <1>4, <2>3, <2>4 DEF Leaves
<1> QED BY <1>3, <1>4
\* StagedEdit::apply: the file is replaced.
LEMMA ReplaceKeeps == EditsInv /\ Replace => EditsInv'
<1> SUFFICES ASSUME EditsInv, Replace
             PROVE  EditsInv'
  OBVIOUS
<1>1. task.at = "compared" /\ task.at \in Active
  BY DEF Replace, At, Active
<1>2. /\ Types /\ JournalInv /\ KnownInv /\ ValidInv /\ task \in Tasks
      /\ records \in Seq(Records) /\ wrote \in Seq(Wrote)
  BY DEF EditsInv, Types
<1>3. PICK id \in Nat, r \in Records : id = task.id /\ r = task.record
  BY <1>2 DEF Tasks
<1>4. WorkInv("compared", id, r) /\ RecordInv(r)
  BY <1>1, <1>3, WorkIs
<1>5. r.inFlight /\ r.applied + 1 \in DOMAIN r.edits /\ Current(r) \in Edits
  BY <1>4, BegunIs DEF WorkInv, Current
<1>6. PICK e \in Edits : e = Current(r)
  BY <1>5
<1>7. PICK w \in Wrote : w.file = e.file /\ w.id = id /\ w.to = e.after
                         /\ w = [file |-> e.file, id |-> id, to |-> e.after]
  BY DEF Wrote, Edits
<1>8. PICK n \in Nat : n = Len(wrote)
  BY <1>2
<1>9. /\ disk' = [disk EXCEPT ![e.file] = e.after]
      /\ wrote' = Append(wrote, w)
      /\ known' = [known EXCEPT ![e.file] = @ \cup {e.after}]
      /\ \/ Goes("replaced", r) /\ observed' = [observed EXCEPT ![e.file] = e.after]
         \/ Goes("failing", r) /\ UNCHANGED observed
      /\ UNCHANGED <<records, validation, late, touched, lastRun>>
  BY <1>3, <1>6, <1>7 DEF Replace, journal
<1>10. PICK at \in {"replaced", "failing"} : Goes(at, r)
  BY <1>9
<1>11. task' \in Tasks /\ task'.at = at /\ task'.id = id /\ task'.record = r
  BY <1>2, <1>3, <1>10, GoesOn DEF Active
<1>12. /\ disk' \in Disks /\ known' \in [Files -> SUBSET Contents]
       /\ observed' \in [Files -> Contents \cup {Unseen}] /\ wrote' \in Seq(Wrote)
       /\ \A f \in Files : known[f] \subseteq known'[f] /\ (f # e.file => disk'[f] = disk[f])
       /\ disk'[e.file] = e.after /\ e.after \in known'[e.file]
  BY <1>2, <1>9 DEF Types, Edits, Disks
<1>13. Types'
  BY <1>2, <1>9, <1>11, <1>12 DEF Types
<1>14. KnownInv' /\ ValidInv'
  BY <1>2, <1>9, <1>12 DEF KnownInv, ValidInv, Types
<1>15. /\ DOMAIN wrote = 1..n /\ DOMAIN wrote' = 1..(n + 1) /\ wrote'[n + 1] = w /\ Len(wrote') = n + 1
       /\ \A l \in 1..n : wrote'[l] = wrote[l] /\ wrote[l] \in Wrote
  BY <1>2, <1>8, <1>9
<1>16. \A i, d : Written(i, d) => Written(i, d)'
  BY <1>15 DEF Written, ToSet
<1>17. \A i \in DOMAIN records' : RecordInv(records'[i]) /\ ConfirmedInv(i)'
  BY <1>2, <1>9, <1>16 DEF JournalInv, ConfirmedInv
<1>18. \A i \in DOMAIN records' : UndoInv(i)' /\ UndoneInv(i)'
  BY <1>2, <1>9 DEF JournalInv, UndoInv, UndoneInv
<1>19. id = Len(records) /\ id \in DOMAIN records /\ records[id] = r
  BY <1>2, <1>4 DEF WorkInv
<1>20. ASSUME NEW l \in 1..n
       PROVE  WriteInv(l)'
  <2>1. WriteInv(l) /\ wrote'[l] = wrote[l] /\ wrote[l] \in Wrote
    BY <1>2, <1>15, <1>20 DEF JournalInv
  <2>2. PICK d \in Edits :
          /\ Makes(records[wrote[l].id], d) /\ d.file = wrote[l].file /\ d.after = wrote[l].to
          /\ wrote[l].file \notin touched => Leaves(wrote[l].file, l, d.before)
    BY <2>1 DEF WriteInv
  <2>3. PICK f \in Files : f = wrote[l].file
    BY <2>1 DEF Wrote
  <2>4. f \notin touched => Leaves(f, l, d.before)'
    BY <1>2, <1>8, <1>9, <1>20, <2>2, <2>3, LeavesKept
  <2>5. wrote[l].id \in DOMAIN records /\ wrote[l].to \in known'[f]
    BY <1>12, <2>1, <2>3 DEF WriteInv
  <2> QED BY <1>9, <2>1, <2>2, <2>3, <2>4, <2>5 DEF WriteInv
<1>21. WriteInv(n + 1)'
  <2>1. Makes(r, e)
    BY <1>4, <1>5, <1>6, BegunIs DEF Makes, Current
  <2>2. e.file \in Files /\ (e.file \notin touched => disk[e.file] = e.before)
    BY <1>4, <1>6 DEF WorkInv, Edits
  <2>3. e.file \notin touched => Leaves(e.file, n + 1, e.before)
    BY <1>2, <1>8, <2>2 DEF JournalInv
  <2>4. e.file \notin touched => Leaves(e.file, n + 1, e.before)'
    BY <1>2, <1>8, <1>9, <2>3, LeavesKept
  <2> QED BY <1>7, <1>9, <1>12, <1>15, <1>19, <2>1, <2>4 DEF WriteInv
<1>22. OrderInv'
  <2>1. \A l \in 1..n : wrote[l].id <= id
    BY <1>2, <1>15, <1>19 DEF JournalInv, WriteInv
  <2>2. \A l \in 1..n : ~(wrote[l].id = id /\ wrote[l].file = e.file)
    <3>1. ASSUME NEW l \in 1..n, wrote[l].id = id, wrote[l].file = e.file
          PROVE  FALSE
      <4>1. PICK k \in 1..r.applied : r.edits[k].file = e.file
        BY <1>4, <1>15, <3>1 DEF WorkInv, Made
      <4>2. k \in DOMAIN r.edits /\ k # r.applied + 1
        BY <1>4, BegunIs DEF Records
      <4> QED BY <1>4, <1>5, <1>6, <4>1, <4>2 DEF RecordInv, Distinct, Current
    <3> QED BY <3>1
  <2>3. OrderInv
    BY <1>2 DEF JournalInv
  <2>4. ASSUME NEW k \in 1..(n + 1), NEW l \in 1..(n + 1)
        PROVE  /\ k <= l => wrote'[k].id <= wrote'[l].id
               /\ wrote'[k].id = wrote'[l].id /\ wrote'[k].file = wrote'[l].file => k = l
    <3>1. CASE k \in 1..n /\ l \in 1..n
      BY <1>15, <2>3, <3>1 DEF OrderInv
    <3>2. CASE k \in 1..n /\ l = n + 1
      BY <1>7, <1>15, <2>1, <2>2, <3>2
    <3>3. CASE k = n + 1 /\ l \in 1..n
      BY <1>7, <1>15, <2>1, <2>2, <3>3
    <3>4. CASE k = n + 1 /\ l = n + 1
      BY <1>7, <1>15, <3>4
    <3> QED BY <2>4, <3>1, <3>2, <3>3, <3>4
  <2> QED BY <1>15, <2>4 DEF OrderInv
<1>23. ASSUME NEW f \in Files \ touched'
       PROVE  Leaves(f, Len(wrote) + 1, disk[f])'
  <2>1. Leaves(f, n + 1, disk[f])
    BY <1>2, <1>8, <1>9, <1>23 DEF JournalInv
  <2>2. PICK version : version = disk'[f]
    OBVIOUS
  <2>3. Leaves(f, n + 2, version)'
    <3>1. CASE f = e.file
      BY <1>2, <1>7, <1>8, <1>9, <1>12, <2>2, <3>1, LeavesNow
    <3>2. CASE f # e.file
      BY <1>2, <1>7, <1>8, <1>9, <1>12, <2>1, <2>2, <3>2, LeavesNow
    <3> QED BY <3>1, <3>2
  <2>4. Len(wrote') + 1 = n + 2
    BY <1>15
  <2> QED BY <2>2, <2>3, <2>4 DEF Leaves, Writes
<1>24. \A l \in DOMAIN wrote' : WriteInv(l)'
  BY <1>15, <1>20, <1>21
<1>25. JournalInv'
  BY <1>17, <1>18, <1>22, <1>23, <1>24 DEF JournalInv
<1>26. WorkInv(at, id, r)'
  <2>1. \A k \in 1..r.applied : Written(id, r.edits[k])'
    BY <1>4, <1>16 DEF WorkInv
  <2>2. \A l \in DOMAIN wrote' : wrote'[l].id = id =>
          \E k \in Made(at, r) : r.edits[k].file = wrote'[l].file
    <3>1. Made(at, r) = 1..r.applied \cup {r.applied + 1} /\ Made("compared", r) = 1..r.applied
      BY <1>4, <1>5, BegunIs DEF Made
    <3>2. \A l \in 1..n : wrote[l].id = id => \E k \in 1..r.applied : r.edits[k].file = wrote[l].file
      BY <1>4, <1>15, <3>1 DEF WorkInv
    <3>3. r.edits[r.applied + 1].file = wrote'[n + 1].file
      BY <1>6, <1>7, <1>15 DEF Current
    <3> QED BY <1>15, <3>1, <3>2, <3>3
  <2>3. \A k \in DOMAIN r.edits : r.edits[k].before \in known'[r.edits[k].file]
    BY <1>4, <1>12, BegunIs DEF WorkInv, Edits
  <2>4. Written(id, Current(r))'
    <3>1. w \in ToSet(wrote')
      BY <1>15 DEF ToSet
    <3> QED BY <1>6, <1>7, <3>1 DEF Written
  <2>5. id = Len(records') /\ id # 0 /\ SavedInv(r, records'[id]) /\ records'[id] = r
    BY <1>4, <1>9, <1>19 DEF WorkInv
  <2> QED BY <1>4, <1>5, <2>1, <2>2, <2>3, <2>4, <2>5 DEF WorkInv
<1>27. TaskInv'
  BY <1>11, <1>26 DEF TaskInv
<1> QED BY <1>13, <1>14, <1>25, <1>27 DEF EditsInv
\* ChangeTracker::undo: the record is marked as undone.
LEMMA MarkUndoneKeeps == EditsInv /\ MarkUndone => EditsInv'
<1> SUFFICES ASSUME EditsInv, MarkUndone
             PROVE  EditsInv'
  OBVIOUS
<1>1. task.at = "undone" /\ task.at \in Active
  BY DEF MarkUndone, At, Active
<1>2. /\ Types /\ JournalInv /\ KnownInv /\ ValidInv /\ task \in Tasks
      /\ records \in Seq(Records) /\ wrote \in Seq(Wrote)
  BY DEF EditsInv, Types
<1>3. PICK id \in Nat, r \in Records, u \in Nat : id = task.id /\ r = task.record /\ u = r.undoOf
  BY <1>2 DEF Tasks, Records
<1>4. WorkInv("undone", id, r)
  BY <1>1, <1>3, WorkIs
<1>5. id \in DOMAIN records /\ records[id] = r /\ u # 0 /\ FullyConfirmed(r)
  BY <1>2, <1>3, <1>4 DEF WorkInv
<1>6. u \in DOMAIN records /\ records[id].edits = Reversed(records[u].edits)
  BY <1>2, <1>3, <1>5 DEF JournalInv, UndoInv
<1>7. /\ task' = Idle /\ UNCHANGED <<disk, validation, observed, wrote, known, late, touched, lastRun>>
      /\ UNCHANGED records \/ records' = [records EXCEPT ![u].state = "undone"]
  BY <1>3 DEF MarkUndone, seen
<1>8. task' \in Tasks /\ task'.at = "idle"
  BY <1>7, IdleIs
<1>9. TaskInv' /\ KnownInv' /\ ValidInv'
  BY <1>2, <1>7, <1>8 DEF TaskInv, Active, KnownInv, ValidInv
<1>10. CASE UNCHANGED records
  <2>1. Types'
    BY <1>2, <1>7, <1>8, <1>10 DEF Types
  <2>2. JournalInv'
    BY <1>2, <1>7, <1>10, <2>1, JournalStays
  <2> QED BY <1>9, <2>1, <2>2 DEF EditsInv
<1>11. CASE records' = [records EXCEPT ![u].state = "undone"]
  <2>1. PICK s \in Records :
          /\ s = [records[u] EXCEPT !.state = "undone"]
          /\ s.edits = records[u].edits /\ s.applied = records[u].applied
          /\ s.inFlight = records[u].inFlight /\ s.undoOf = records[u].undoOf
    <3>1. PICK before \in Records : before = records[u]
      BY <1>2, <1>6
    <3> DEFINE s == [before EXCEPT !.state = "undone"]
    <3>2. /\ s \in Records /\ s.edits = before.edits /\ s.applied = before.applied
          /\ s.inFlight = before.inFlight /\ s.undoOf = before.undoOf
      BY DEF Records, States
    <3> QED BY <3>1, <3>2
  <2>2. records' = [records EXCEPT ![u] = s]
    BY <1>11, <2>1
  <2>3. /\ records' \in Seq(Records) /\ DOMAIN records' = DOMAIN records /\ records'[u] = s
        /\ \A i \in DOMAIN records : i # u => records'[i] = records[i]
    BY <1>2, <1>6, <2>2
  <2>4. Types'
    BY <1>2, <1>7, <1>8, <2>3 DEF Types
  <2>5. \A i \in DOMAIN records :
          /\ records'[i].edits = records[i].edits /\ records'[i].applied = records[i].applied
          /\ records'[i].inFlight = records[i].inFlight /\ records'[i].undoOf = records[i].undoOf
    BY <2>1, <2>3
  <2>6. \A i \in DOMAIN records : FullyConfirmed(records[i]) => FullyConfirmed(records'[i])
    BY <2>5 DEF FullyConfirmed
  <2>7. \A i \in DOMAIN records' : RecordInv(records'[i]) /\ ConfirmedInv(i)'
    BY <1>2, <1>7, <2>3, <2>5 DEF JournalInv, RecordInv, ConfirmedInv, Written
  <2>8. \A i \in DOMAIN records : records'[i].state = "undone" =>
          \/ records[i].state = "undone"
          \/ \E v \in DOMAIN records :
               /\ records[v].undoOf = i /\ FullyConfirmed(records[v])
               /\ records[v].edits = Reversed(records[i].edits)
    BY <1>3, <1>5, <1>6, <2>3
  <2>9. \A l \in DOMAIN wrote, e \in Edits :
          Makes(records[wrote[l].id], e) /\ e.file = wrote[l].file => Makes(records'[wrote[l].id], e)
    <3>1. \A l \in DOMAIN wrote : wrote[l].id \in DOMAIN records
      BY <1>2 DEF JournalInv, WriteInv
    <3>2. \A i \in DOMAIN records : Begun(records'[i]) = Begun(records[i])
      BY <2>5 DEF Begun
    <3>3. \A i \in DOMAIN records : \A e \in Edits : Makes(records[i], e) => Makes(records'[i], e)
      BY <2>5, <3>2 DEF Makes
    <3> QED BY <3>1, <3>3
  <2>10. JournalInv'
    BY <1>2, <1>7, <2>3, <2>4, <2>5, <2>6, <2>7, <2>8, <2>9, JournalKept
  <2> QED BY <1>9, <2>4, <2>10 DEF EditsInv
<1> QED BY <1>7, <1>10, <1>11

-----------------------------------------------------------------------------
(* What happens beside an edit                                             *)

\* Where no record and no file is written, and nothing is at work.
LEMMA RestKeeps ==
  ASSUME EditsInv, UNCHANGED <<records, wrote, disk, touched>>, task' \in Tasks,
         task'.at \notin Active, late' = late,
         task'.at = "validating" => task'.command \in Commands /\ task'.before \in Workspaces,
         known' \in [Files -> SUBSET Contents], \A f \in Files : known[f] \subseteq known'[f],
         observed' \in [Files -> Contents \cup {Unseen}],
         \A f \in Files : observed'[f] # Unseen => observed'[f] \in known'[f],
         validation' \subseteq [command : Commands, workspace : Workspaces],
         lastRun' \in [Commands -> LastRuns \cup {Unseen}], ValidInv'
  PROVE  EditsInv'
<1>1. Types /\ JournalInv /\ KnownInv
  BY DEF EditsInv
<1>2. Types'
  BY <1>1 DEF Types
<1>3. JournalInv'
  BY <1>1, <1>2, JournalStays
<1>4. KnownInv'
  BY <1>1 DEF KnownInv
<1> QED BY <1>2, <1>3, <1>4 DEF EditsInv, TaskInv

\* Reading a file is knowing it.
LEMMA ObserveKeeps == ASSUME NEW f \in Files PROVE EditsInv /\ Observe(f) => EditsInv'
<1> SUFFICES ASSUME EditsInv, Observe(f)
             PROVE  EditsInv'
  OBVIOUS
<1>1. Types /\ KnownInv /\ ValidInv
  BY DEF EditsInv
<1>2. disk[f] \in Contents
  BY <1>1 DEF Types, Disks
<1>3. /\ known' \in [Files -> SUBSET Contents] /\ \A g \in Files : known[g] \subseteq known'[g]
      /\ observed' \in [Files -> Contents \cup {Unseen}]
      /\ \A g \in Files : observed'[g] # Unseen => observed'[g] \in known'[g]
  BY <1>1, <1>2 DEF Types, KnownInv, Observe
<1>4. /\ UNCHANGED <<records, wrote, disk, touched, late, validation, lastRun, task>>
      /\ task.at = "idle"
  BY DEF Observe, At, journal
<1>5. ValidInv'
  BY <1>1, <1>4 DEF ValidInv
<1> HIDE DEF Observe
<1> QED BY <1>1, <1>3, <1>4, <1>5, RestKeeps DEF Types, Active

\* CargoTools: a validation begins, ...
LEMMA ValidateKeeps == ASSUME NEW c \in Commands PROVE EditsInv /\ Validate(c) => EditsInv'
<1> SUFFICES ASSUME EditsInv, Validate(c)
             PROVE  EditsInv'
  OBVIOUS
<1>1. Types /\ KnownInv /\ ValidInv
  BY DEF EditsInv
<1>2. /\ task' \in Tasks /\ task'.at = "validating" /\ task'.command \in Commands
      /\ task'.before \in Workspaces
  <2>1. Workspace \in Workspaces
    BY <1>1, VersionsAre DEF Types
  <2> QED BY <2>1, IdleIs DEF Validate, Tasks
<1>3. UNCHANGED <<records, wrote, disk, touched, known, late, observed, validation, lastRun>>
  BY DEF Validate, journal, seen
<1>4. ValidInv'
  BY <1>1, <1>3 DEF ValidInv
<1> QED BY <1>1, <1>2, <1>3, <1>4, RestKeeps DEF Types, KnownInv, Active

\* ... and ends with evidence or without.
LEMMA ValidatedKeeps ==
  ASSUME NEW passed \in BOOLEAN PROVE EditsInv /\ Validated(passed) => EditsInv'
<1> SUFFICES ASSUME EditsInv, Validated(passed)
             PROVE  EditsInv'
  OBVIOUS
<1>1. Types /\ KnownInv /\ ValidInv
  BY DEF EditsInv
<1>2. task' \in Tasks /\ task'.at = "idle"
  BY IdleIs DEF Validated
<1>3. UNCHANGED <<records, wrote, disk, touched, known, late, observed>>
  BY DEF Validated, seen
<1>4. task.command \in Commands /\ task.before \in Workspaces
  BY DEF Validated, At, EditsInv, TaskInv
<1>5. PICK c \in Commands, before \in Workspaces, now \in Workspaces :
        c = task.command /\ before = task.before /\ now = Workspace
  BY <1>1, <1>4, VersionsAre DEF Types
<1>6. CASE UNCHANGED <<validation, lastRun>>
  <2>1. ValidInv'
    BY <1>1, <1>6 DEF ValidInv
  <2> QED BY <1>1, <1>2, <1>3, <1>6, <2>1, RestKeeps DEF Types, KnownInv, Active
<1>7. CASE /\ validation' = Retain(c) \cup
                (IF passed /\ before = now THEN {[command |-> c, workspace |-> now]} ELSE {})
           /\ lastRun' = [lastRun EXCEPT ![c] = [passed |-> passed, began |-> before, ended |-> now]]
  <2>1. now \in Workspaces /\ [passed |-> passed, began |-> before, ended |-> now] \in LastRuns
    BY <1>1 DEF Types, LastRuns
  <2>2. validation' \subseteq [command : Commands, workspace : Workspaces]
    BY <1>1, <1>7, <2>1 DEF Types, Retain
  <2>3. lastRun' \in [Commands -> LastRuns \cup {Unseen}]
    BY <1>1, <1>7, <2>1 DEF Types
  <2>4. ASSUME NEW v \in validation'
        PROVE  lastRun'[v.command] = [passed |-> TRUE, began |-> v.workspace, ended |-> v.workspace]
    <3>1. CASE v \in Retain(c)
      <4>1. v \in validation /\ v.command # c /\ v.command \in Commands
        BY <1>1, <3>1 DEF Retain, Types
      <4> QED BY <1>1, <1>7, <4>1 DEF ValidInv, Types
    <3>2. CASE v = [command |-> c, workspace |-> now] /\ passed /\ before = now
      <4>1. passed = TRUE
        BY <3>2
      <4> QED BY <1>1, <1>7, <3>2, <4>1 DEF Types
    <3> QED BY <1>7, <2>4, <3>1, <3>2
  <2>5. ValidInv'
    BY <2>4 DEF ValidInv
  <2> QED BY <1>1, <1>2, <1>3, <2>2, <2>3, <2>5, RestKeeps DEF Types, KnownInv, Active
<1> QED BY <1>5, <1>6, <1>7 DEF Validated

\* Another program writes a file: it is touched, and what is compared now
\* comes too late.
LEMMA ForeignKeeps ==
  ASSUME NEW f \in Files, NEW version \in Contents
  PROVE  EditsInv /\ Foreign(f, version) => EditsInv'
<1> SUFFICES ASSUME EditsInv, Foreign(f, version)
             PROVE  EditsInv'
  OBVIOUS
<1>1. Types /\ JournalInv /\ KnownInv /\ ValidInv /\ TaskInv
  BY DEF EditsInv
<1>2. /\ disk' = [disk EXCEPT ![f] = version] /\ touched' = touched \cup {f}
      /\ late' = (task.at = "compared")
      /\ UNCHANGED <<records, validation, observed, task, wrote, known, lastRun>>
  BY DEF Foreign, journal, At
<1>3. Types' /\ \A g \in Files : g # f => disk'[g] = disk[g]
  BY <1>1, <1>2 DEF Types, Disks
<1>4. JournalInv'
  BY <1>1, <1>2, <1>3, JournalStays
<1>5. KnownInv' /\ ValidInv'
  BY <1>1, <1>2 DEF KnownInv, ValidInv
<1>6. ASSUME task.at \in Active
      PROVE  WorkInv(task.at, task.id, task.record)'
  <2>1. WorkInv(task.at, task.id, task.record) /\ task.record \in Records
    BY <1>6, WorkIs
  <2>2. task.at = "compared" => Current(task.record) \in Edits
    BY <2>1, BegunIs DEF WorkInv, Current
  <2>3. task.at = "compared" =>
          \/ disk'[Current(task.record).file] = Current(task.record).before
          \/ late' /\ Current(task.record).file \in touched'
    BY <1>2, <1>3, <2>1, <2>2 DEF WorkInv, Edits
  <2>4. \A i, d : Written(i, d)' = Written(i, d)
    BY <1>2 DEF Written
  <2> QED BY <1>2, <2>1, <2>3, <2>4 DEF WorkInv
<1>7. TaskInv'
  BY <1>1, <1>2, <1>6 DEF TaskInv
<1> QED BY <1>3, <1>4, <1>5, <1>7 DEF EditsInv

\* ChangeTracker::restored: after a crash nothing has been observed.
LEMMA CrashKeeps == EditsInv /\ Crash => EditsInv'
<1> SUFFICES ASSUME EditsInv, Crash
             PROVE  EditsInv'
  OBVIOUS
<1>1. Types /\ KnownInv /\ ValidInv
  BY DEF EditsInv
<1>2. task' \in Tasks /\ task'.at = "idle"
  BY IdleIs DEF Crash
<1>3. /\ UNCHANGED <<records, wrote, disk, touched, known, late, validation, lastRun>>
      /\ observed' = [f \in Files |-> Unseen]
  BY DEF Crash, journal, seen
<1>4. ValidInv'
  BY <1>1, <1>3 DEF ValidInv
<1> QED BY <1>1, <1>2, <1>3, <1>4, RestKeeps DEF Types, Active
\* A prepared record has made no edit.
LEMMA PreparedIs ==
  ASSUME NEW edits \in Seq(Edits), Distinct(edits), NEW undoOf \in Nat,
         NEW p, p = Prepared(edits, undoOf)
  PROVE  /\ p \in Records /\ RecordInv(p) /\ SavedInv(p, p) /\ p.edits = edits /\ p.undoOf = undoOf
         /\ p.applied = 0 /\ ~p.inFlight /\ p.state = "prepared" /\ Begun(p) = {}
<1>1. /\ p \in Records /\ p.edits = edits /\ p.undoOf = undoOf
      /\ p.applied = 0 /\ ~p.inFlight /\ p.state = "prepared"
  BY DEF Prepared, Records, States
<1>2. RecordInv(p)
  <2>1. Len(edits) \in Nat
    OBVIOUS
  <2> QED BY <1>1, <2>1 DEF RecordInv
<1>3. Begun(p) = {}
  BY <1>1, <1>2, BegunIs
<1> QED BY <1>1, <1>2, <1>3 DEF SavedInv

\* ChangeTracker::apply_record: edits of known versions are prepared.
LEMMA PrepareKeeps ==
  ASSUME EditsInv, NEW edits \in Seq(Edits), Distinct(edits), NEW undoOf \in Nat,
         \A k \in DOMAIN edits : edits[k].before \in known[edits[k].file],
         undoOf # 0 => /\ undoOf \in DOMAIN records /\ FullyConfirmed(records[undoOf])
                       /\ edits = Reversed(records[undoOf].edits),
         Prepare(edits, undoOf)
  PROVE  EditsInv'
<1>1. /\ Types /\ JournalInv /\ KnownInv /\ ValidInv
      /\ records \in Seq(Records) /\ wrote \in Seq(Wrote)
  BY DEF EditsInv, Types
<1>2. PICK p : p = Prepared(edits, undoOf)
  OBVIOUS
<1>3. /\ p \in Records /\ RecordInv(p) /\ SavedInv(p, p) /\ p.edits = edits /\ p.undoOf = undoOf
      /\ p.applied = 0 /\ ~p.inFlight /\ p.state = "prepared" /\ Begun(p) = {}
  BY <1>2, PreparedIs
<1>4. PICK n \in Nat : n = Len(records)
  BY <1>1
<1>5. /\ records' = Append(records, p)
      /\ task' = [Idle EXCEPT !.at = "ready", !.id = n + 1, !.record = p]
      /\ UNCHANGED <<disk, validation, observed, wrote, known, late, touched, lastRun>>
  BY <1>2, <1>4 DEF Prepare, seen
<1>6. task' \in Tasks /\ task'.at = "ready" /\ task'.id = n + 1 /\ task'.record = p
  <2>1. PICK id \in Nat : id = n + 1
    OBVIOUS
  <2>2. task' = [Idle EXCEPT !.at = "ready", !.id = id, !.record = p]
    BY <1>5, <2>1
  <2>3. task' \in Tasks /\ task'.at = "ready" /\ task'.id = id /\ task'.record = p
    BY <1>3, <2>2, IdleIs DEF Tasks, Active
  <2> QED BY <2>1, <2>3
<1>7. /\ records' \in Seq(Records) /\ DOMAIN records = 1..n /\ DOMAIN records' = 1..(n + 1)
      /\ records'[n + 1] = p /\ Len(records') = n + 1 /\ \A i \in 1..n : records'[i] = records[i]
  BY <1>1, <1>3, <1>4, <1>5
<1>8. Types'
  BY <1>1, <1>5, <1>6, <1>7 DEF Types
<1>9. KnownInv' /\ ValidInv'
  BY <1>1, <1>5 DEF KnownInv, ValidInv
<1>10. \A i \in DOMAIN records' : RecordInv(records'[i]) /\ ConfirmedInv(i)'
  <2>1. ASSUME NEW i \in 1..n
        PROVE  RecordInv(records'[i]) /\ ConfirmedInv(i)'
    BY <1>1, <1>5, <1>7, <2>1 DEF JournalInv, ConfirmedInv, Written
  <2>2. RecordInv(records'[n + 1]) /\ ConfirmedInv(n + 1)'
    BY <1>3, <1>7 DEF ConfirmedInv
  <2>3. \A i \in 1..(n + 1) : i \in 1..n \/ i = n + 1
    OBVIOUS
  <2> QED BY <1>7, <2>1, <2>2, <2>3
<1>11. ASSUME NEW i \in DOMAIN records' \ DOMAIN records
       PROVE  UndoInv(i)' /\ records'[i].state # "undone"
  <2>1. i = n + 1
    BY <1>7, <1>11
  <2>2. undoOf # 0 => /\ undoOf \in 1..n /\ undoOf < i /\ FullyConfirmed(records'[undoOf])
                      /\ records'[i].edits = Reversed(records'[undoOf].edits)
    BY <1>3, <1>7, <2>1
  <2> QED BY <1>3, <1>7, <2>1, <2>2 DEF UndoInv
<1>12. \A l \in DOMAIN wrote : wrote[l].id \in DOMAIN records
  BY <1>1 DEF JournalInv, WriteInv
<1>13. JournalInv'
  BY <1>1, <1>5, <1>7, <1>8, <1>10, <1>11, <1>12, JournalKept
<1>14. WorkInv("ready", n + 1, p)'
  <2>1. \A l \in DOMAIN wrote' : wrote'[l].id # n + 1
    BY <1>5, <1>7, <1>12
  <2>2. \A k \in DOMAIN p.edits : p.edits[k].before \in known'[p.edits[k].file]
    BY <1>3, <1>5
  <2> QED BY <1>3, <1>7, <2>1, <2>2 DEF WorkInv
<1>15. TaskInv'
  BY <1>6, <1>14 DEF TaskInv
<1> QED BY <1>8, <1>9, <1>13, <1>15 DEF EditsInv

\* apply_patch, write_to_file and rename_file edit what they have read ...
LEMMA EditFilesKeeps == EditsInv /\ EditFiles => EditsInv'
<1> SUFFICES ASSUME EditsInv, EditFiles
             PROVE  EditsInv'
  OBVIOUS
<1>1. Types /\ JournalInv /\ KnownInv
  BY DEF EditsInv
<1>2. PICK paths \in {s \in UNION {[1..n -> Files] : n \in 1..2} : IsInjective(s)} :
        \E after \in [DOMAIN paths -> Contents] :
          Prepare([k \in DOMAIN paths |-> Edit(paths[k], disk[paths[k]], after[k])], 0)
  BY DEF EditFiles
<1>3. PICK after \in [DOMAIN paths -> Contents] :
        Prepare([k \in DOMAIN paths |-> Edit(paths[k], disk[paths[k]], after[k])], 0)
  BY <1>2
<1>4. PICK n \in 1..2 : paths \in [1..n -> Files]
  OBVIOUS
<1>5. PICK edits : edits = [k \in 1..n |-> Edit(paths[k], disk[paths[k]], after[k])]
  OBVIOUS
<1>6. \A k \in 1..n : edits[k] \in Edits /\ edits[k].file = paths[k]
  BY <1>1, <1>4, <1>5 DEF Edit, Edits, Types, Disks
<1>7. edits \in Seq(Edits) /\ DOMAIN edits = 1..n
  BY <1>4, <1>5, <1>6
<1>8. Distinct(edits)
  BY <1>4, <1>6, <1>7 DEF Distinct, IsInjective
<1>9. Prepare(edits, 0)
  BY <1>3, <1>4, <1>5
<1>10. ASSUME NEW k \in DOMAIN edits
       PROVE  edits[k].before \in known[edits[k].file]
  <2>1. edits[k].file \in Files /\ edits[k].before \in Contents
    BY <1>6, <1>7, <1>10 DEF Edits
  <2>2. ObservedVersion(edits[k].file) \in {Unseen, edits[k].before}
    BY <1>9, <1>10 DEF Prepare, Preflight
  <2>3. ObservedVersion(edits[k].file) \in known[edits[k].file]
    BY <1>1, <2>1, ObservedIsKnown
  <2>4. ObservedVersion(edits[k].file) # Unseen
    BY <1>1, <2>1, <2>3, JournalAssumption DEF Types
  <2> QED BY <2>2, <2>3, <2>4
<1> QED BY <1>7, <1>8, <1>9, <1>10, PrepareKeeps

\* ... and an undo what an edit has left.
LEMMA UndoKeeps == ASSUME NEW i \in DOMAIN records PROVE EditsInv /\ Undo(i) => EditsInv'
<1> SUFFICES ASSUME EditsInv, Undo(i)
             PROVE  EditsInv'
  OBVIOUS
<1>1. Types /\ JournalInv /\ records \in Seq(Records) /\ wrote \in Seq(Wrote)
  BY DEF EditsInv, Types
<1>2. PICK r \in Records : r = records[i]
  BY <1>1
<1>3. i \in Nat /\ i # 0
  BY <1>1
<1>4. RecordInv(r) /\ ConfirmedInv(i) /\ FullyConfirmed(r)
  BY <1>1, <1>2 DEF JournalInv, Undo
<1>5. r.edits \in Seq(Edits) /\ Distinct(r.edits)
  BY <1>4 DEF Records, RecordInv
<1>6. PICK edits \in Seq(Edits) : edits = Reversed(r.edits)
  BY <1>5, ReversedIs
<1>7. Prepare(edits, i)
  BY <1>2, <1>6 DEF Undo
<1>8. ASSUME NEW k \in DOMAIN edits
      PROVE  edits[k].before \in known[edits[k].file]
  <2>1. PICK l \in DOMAIN r.edits : edits[k].file = r.edits[l].file /\ edits[k].before = r.edits[l].after
    BY <1>5, <1>6, <1>8, ReversedIs
  <2>2. l \in 1..r.applied
    BY <1>4, <1>5 DEF FullyConfirmed
  <2>3. Written(i, r.edits[l])
    BY <1>2, <1>4, <2>2 DEF ConfirmedInv
  <2>4. PICK m \in DOMAIN wrote : wrote[m] = [file |-> r.edits[l].file, id |-> i, to |-> r.edits[l].after]
    BY <2>3 DEF Written, ToSet
  <2>5. wrote[m].to \in known[wrote[m].file]
    BY <1>1 DEF JournalInv, WriteInv
  <2> QED BY <2>1, <2>4, <2>5
<1> QED BY <1>2, <1>3, <1>4, <1>5, <1>6, <1>7, <1>8, ReversedIs, PrepareKeeps
-----------------------------------------------------------------------------
(* The invariant                                                           *)

\* A session begins with an empty journal.
LEMMA InitEdits == Init => EditsInv
<1> SUFFICES ASSUME Init
             PROVE  EditsInv
  OBVIOUS
<1>1. /\ disk = [f \in Files |-> Original] /\ records = <<>> /\ wrote = <<>> /\ validation = {} /\ touched = {}
      /\ observed = [f \in Files |-> Unseen] /\ known = [f \in Files |-> {baseline[f]}]
      /\ task = Idle /\ late = FALSE /\ lastRun = [c \in Commands |-> Unseen]
  BY DEF Init
<1>2. Types
  <2>1. disk \in Disks /\ observed \in [Files -> Contents \cup {Unseen}]
        /\ known \in [Files -> SUBSET Contents]
    BY <1>1, JournalAssumption, VersionsAre DEF Disks
  <2>2. records \in Seq(Records) /\ wrote \in Seq(Wrote)
    BY <1>1
  <2>3. task \in Tasks /\ lastRun \in [Commands -> LastRuns \cup {Unseen}]
    BY <1>1, IdleIs
  <2> QED BY <1>1, <2>1, <2>2, <2>3 DEF Types
<1>3. DOMAIN records = {} /\ DOMAIN wrote = {} /\ Len(wrote) = 0
  BY <1>1
<1>4. \A f \in Files \ touched : Leaves(f, Len(wrote) + 1, disk[f])
  BY <1>1, <1>3 DEF Leaves, Writes
<1>5. JournalInv
  BY <1>3, <1>4 DEF JournalInv, OrderInv
<1>6. KnownInv /\ ValidInv
  BY <1>1 DEF KnownInv, ValidInv
<1>7. TaskInv
  BY <1>1, IdleIs DEF TaskInv, Active
<1> QED BY <1>2, <1>5, <1>6, <1>7 DEF EditsInv

\* Every step keeps the invariant.
LEMMA NextEdits == EditsInv /\ [Next]_vars => EditsInv'
<1> SUFFICES ASSUME EditsInv, [Next]_vars
             PROVE  EditsInv'
  OBVIOUS
<1>1. ASSUME UNCHANGED vars
      PROVE  EditsInv'
  <2>1. UNCHANGED <<disk, records, validation, observed, task, wrote, known, late, touched, lastRun>>
    BY <1>1 DEF vars
  <2>2. Types' /\ KnownInv' /\ ValidInv'
    BY <2>1 DEF EditsInv, Types, KnownInv, ValidInv
  <2>3. JournalInv'
    BY <2>1, <2>2, JournalStays DEF EditsInv
  <2>4. TaskInv'
    BY <2>1 DEF EditsInv, TaskInv, WorkInv, Written
  <2> QED BY <2>2, <2>3, <2>4 DEF EditsInv
<1>2. CASE \E f \in Files : Observe(f)
  BY <1>2, ObserveKeeps
<1>3. CASE EditFiles \/ \E i \in DOMAIN records : Undo(i)
  BY <1>3, EditFilesKeeps, UndoKeeps
<1>4. CASE StageFails \/ Begin \/ Compare \/ Replace \/ ReplaceFails \/ Confirm
  BY <1>4, CompareKeeps, BeginKeeps, ReplaceKeeps, ConfirmKeeps
<1>5. CASE Complete \/ Fail \/ MarkUndone
  BY <1>5, CompleteKeeps, FailKeeps, MarkUndoneKeeps
<1>6. CASE \E c \in Commands : Validate(c)
  BY <1>6, ValidateKeeps
<1>7. CASE \E passed \in BOOLEAN : Validated(passed)
  BY <1>7, ValidatedKeeps
<1>8. CASE \E f \in Files, version \in Contents : Foreign(f, version)
  BY <1>8, ForeignKeeps
<1>9. CASE Crash
  BY <1>9, CrashKeeps
<1> QED BY <1>1, <1>2, <1>3, <1>4, <1>5, <1>6, <1>7, <1>8, <1>9 DEF Next

\* The journal, the work at hand and the evidence are always well-formed.
THEOREM ChangeJournalHolds == Spec => []EditsInv
BY InitEdits, NextEdits, PTL DEF Spec

-----------------------------------------------------------------------------
(* The properties                                                          *)

\* What a record has begun, it intends.
LEMMA MakesIntends ==
  ASSUME NEW i \in DOMAIN records, NEW e \in Edits, Makes(records[i], e)
  PROVE  i \in Intended(e.file)
BY DEF Makes, Intended, Intends

\* The journal is what happened: what it confirms was written, what was
\* written it confirms or has in flight, and what it calls undone was put
\* back.
LEMMA JournalTold == EditsInv => JournalIsTrue
<1> SUFFICES ASSUME EditsInv
             PROVE  JournalIsTrue
  OBVIOUS
<1>1. JournalInv /\ wrote \in Seq(Wrote)
  BY DEF EditsInv, Types
<1>2. ASSUME NEW i \in DOMAIN records, NEW k \in 1..records[i].applied
      PROVE  [file |-> records[i].edits[k].file, id |-> i, to |-> records[i].edits[k].after] \in ToSet(wrote)
  BY <1>1, <1>2 DEF JournalInv, ConfirmedInv, Written
<1>3. ASSUME NEW w \in ToSet(wrote)
      PROVE  w.id \in Intended(w.file)
  <2>1. PICK l \in DOMAIN wrote : wrote[l] = w
    BY <1>3 DEF ToSet
  <2>2. w.id \in DOMAIN records /\ \E e \in Edits : Makes(records[w.id], e) /\ e.file = w.file
    BY <1>1, <2>1 DEF JournalInv, WriteInv
  <2> QED BY <2>2, MakesIntends
<1>4. ASSUME NEW i \in DOMAIN records, records[i].state = "undone"
      PROVE  \E u \in DOMAIN records :
               /\ records[u].undoOf = i /\ FullyConfirmed(records[u])
               /\ records[u].edits = Reversed(records[i].edits)
  BY <1>1, <1>4 DEF JournalInv, UndoneInv
<1> QED BY <1>2, <1>3, <1>4 DEF JournalIsTrue

\* The journal is what happened, through failed saves and crashes
\* (ChangeTracker::apply_record, ChangeTracker::undo).
THEOREM JournalIsAlwaysTrue == Spec => []JournalIsTrue
BY ChangeJournalHolds, JournalTold, PTL

\* A validation counts only for the contents it began and ended with, and
\* only if its command has not failed since
\* (ChangeTracker::record_validation).
THEOREM EvidenceIsAlwaysCurrent == Spec => []EvidenceIsCurrent
<1>1. EditsInv => EvidenceIsCurrent
  BY DEF EditsInv, ValidInv, EvidenceIsCurrent
<1> QED BY <1>1, ChangeJournalHolds, PTL

\* Only another program's write counts as one.
LEMMA ForeignIsCounted == Spec => []CountInv
<1>1. Init => CountInv
  BY DEF Init, CountInv
<1>2. ASSUME CountInv, [Next]_vars
      PROVE  CountInv'
  <2>1. foreign' = foreign \/ foreign' = foreign + 1
    <3>1. CASE UNCHANGED vars
      BY <3>1 DEF vars
    <3>2. CASE (\E f \in Files : Observe(f)) \/ EditFiles \/ \E i \in DOMAIN records : Undo(i)
      BY <3>2 DEF Observe, EditFiles, Undo, Prepare, counts
    <3>3. CASE StageFails \/ Begin \/ Compare \/ Replace \/ ReplaceFails \/ Confirm
      BY <3>3 DEF StageFails, Begin, Compare, Replace, ReplaceFails, Confirm, counts, Quiet
    <3>4. CASE Complete \/ Fail \/ MarkUndone \/ Crash
      BY <3>4 DEF Complete, Fail, MarkUndone, Crash, Quiet
    <3>5. CASE (\E c \in Commands : Validate(c)) \/ \E passed \in BOOLEAN : Validated(passed)
      BY <3>5 DEF Validate, Validated
    <3>6. CASE \E f \in Files, version \in Contents : Foreign(f, version)
      BY <3>6 DEF Foreign
    <3> QED BY <1>2, <3>1, <3>2, <3>3, <3>4, <3>5, <3>6 DEF Next
  <2> QED BY <1>2, <2>1 DEF CountInv
<1> QED BY <1>1, <1>2, PTL DEF Spec

\* Joe replaces no version of a file that it has not captured or read, but for
\* a write between the comparison and the rename (StagedEdit::apply).
THEOREM ForeignEditsAreKept == Spec => ForeignEditsSurvive
<1>1. ASSUME EditsInv, CountInv, [Next]_vars,
             NEW f \in Files, disk'[f] # disk[f], foreign' = foreign
      PROVE  disk[f] \in known[f] \/ late
  <2>1. Types /\ KnownInv
    BY <1>1 DEF EditsInv
  <2>2. Replace \/ \E g \in Files, version \in Contents : Foreign(g, version)
    BY <1>1 DEF Next, vars, Observe, EditFiles, Undo, Prepare, StageFails, Begin, Compare,
                ReplaceFails, Confirm, Complete, Fail, MarkUndone, Validate, Validated, Crash
  <2>3. CASE Replace
    <3>1. task.at = "compared" /\ task.at \in Active /\ disk' = [disk EXCEPT ![Current(task.record).file] = Current(task.record).after]
      BY <2>3 DEF Replace, At, Active
    <3>2. WorkInv("compared", task.id, task.record) /\ task.record \in Records
      BY <1>1, <3>1, WorkIs
    <3>3. f = Current(task.record).file
      BY <1>1, <2>1, <3>1 DEF Types, Disks
    <3>4. Current(task.record).before \in known[f]
      BY <3>2, <3>3, BegunIs DEF WorkInv, Current
    <3> QED BY <3>2, <3>3, <3>4 DEF WorkInv
  <2>4. CASE \E g \in Files, version \in Contents : Foreign(g, version)
    <3>1. foreign' = foreign + 1
      BY <2>4 DEF Foreign
    <3> QED BY <1>1, <3>1 DEF CountInv
  <2> QED BY <2>2, <2>3, <2>4
<1>2. EditsInv /\ CountInv /\ [Next]_vars =>
        [\A f \in Files :
           disk'[f] # disk[f] /\ foreign' = foreign => disk[f] \in known[f] \/ late]_vars
  BY <1>1
<1> QED BY <1>2, ChangeJournalHolds, ForeignIsCounted, PTL DEF Spec, ForeignEditsSurvive
-----------------------------------------------------------------------------
(* The review                                                              *)

\* A write is the edit of its file in a record that intends it.
LEMMA WriteIs ==
  ASSUME EditsInv, NEW f \in Files, NEW l \in Writes(f)
  PROVE  /\ l \in DOMAIN wrote /\ l \in Nat /\ l <= Len(wrote) /\ wrote[l].file = f
         /\ wrote[l].id \in Intended(f) /\ wrote[l].id \in Nat
         /\ wrote[l].to = EditOf(records[wrote[l].id], f).after
         /\ f \notin touched => Leaves(f, l, EditOf(records[wrote[l].id], f).before)
<1>1. JournalInv /\ wrote \in Seq(Wrote) /\ records \in Seq(Records)
  BY DEF EditsInv, Types
<1>2. l \in DOMAIN wrote /\ l \in Nat /\ l <= Len(wrote) /\ wrote[l].file = f /\ wrote[l].id \in Nat
  <2>1. l \in 1..Len(wrote) /\ wrote[l].file = f /\ wrote[l] \in Wrote
    BY <1>1 DEF Writes
  <2> QED BY <1>1, <2>1 DEF Wrote
<1>3. PICK i \in DOMAIN records : i = wrote[l].id
  BY <1>1, <1>2 DEF JournalInv, WriteInv
<1>4. PICK e \in Edits : /\ Makes(records[i], e) /\ e.file = f /\ e.after = wrote[l].to
                         /\ f \notin touched => Leaves(f, l, e.before)
  BY <1>1, <1>2, <1>3 DEF JournalInv, WriteInv
<1>5. EditOf(records[i], f) = e
  <2>1. records[i] \in Records /\ RecordInv(records[i])
    BY <1>1 DEF JournalInv
  <2>2. PICK k \in DOMAIN records[i].edits : records[i].edits[k] = e
    BY <1>4, <2>1, BegunIs DEF Makes
  <2> QED BY <1>4, <2>1, <2>2, EditOfIs DEF RecordInv
<1> QED BY <1>2, <1>3, <1>4, <1>5, MakesIntends

\* Where nothing is uncertain, what a record intends was written.
LEMMA IntendedIsWritten ==
  ASSUME EditsInv, NEW f \in Files, ~Uncertain(f), NEW i \in Intended(f)
  PROVE  \E l \in Writes(f) : wrote[l].id = i
<1>1. JournalInv /\ wrote \in Seq(Wrote) /\ records \in Seq(Records)
  BY DEF EditsInv, Types
<1>2. i \in DOMAIN records
  BY DEF Intended
<1>3. PICK r \in Records : r = records[i]
  BY <1>1, <1>2
<1>4. RecordInv(r) /\ ConfirmedInv(i)
  BY <1>1, <1>2, <1>3 DEF JournalInv
<1>5. PICK k \in Begun(r) : r.edits[k].file = f
  BY <1>3 DEF Intended, Intends
<1>6. k \in 1..r.applied
  <2>1. r.inFlight => r.edits[r.applied + 1].file # f
    BY <1>2, <1>3 DEF Uncertain, Current
  <2> QED BY <1>4, <1>5, <2>1, BegunIs
<1>7. Written(i, r.edits[k])
  BY <1>3, <1>4, <1>6 DEF ConfirmedInv
<1>8. PICK l \in DOMAIN wrote : wrote[l] = [file |-> f, id |-> i, to |-> r.edits[k].after]
  BY <1>5, <1>7 DEF Written, ToSet
<1> QED BY <1>8 DEF Writes

\* Records write a file in their order.
LEMMA WritesAreOrdered ==
  ASSUME EditsInv, NEW f \in Files, NEW k \in Writes(f), NEW l \in Writes(f)
  PROVE  k < l <=> wrote[k].id < wrote[l].id
<1>1. /\ k \in DOMAIN wrote /\ k \in Nat /\ wrote[k].file = f /\ wrote[k].id \in Nat
      /\ l \in DOMAIN wrote /\ l \in Nat /\ wrote[l].file = f /\ wrote[l].id \in Nat
  BY WriteIs
<1>2. OrderInv
  BY DEF EditsInv, JournalInv
<1>3. /\ k <= l => wrote[k].id <= wrote[l].id
      /\ l <= k => wrote[l].id <= wrote[k].id
      /\ wrote[k].id = wrote[l].id => k = l
  BY <1>1, <1>2 DEF OrderInv
<1> QED BY <1>1, <1>3

\* What the records say was left of a file is what the last of the same
\* writes left.
LEMMA LeftIs ==
  ASSUME EditsInv, NEW f \in Files, ~Uncertain(f), NEW n \in Nat, NEW m \in Nat,
         \A l \in Writes(f) : l < m <=> wrote[l].id < n
  PROVE  /\ baseline[f] = Original =>
              \A version : Leaves(f, m, version) => version = LeftBefore(f, n)
         /\ (\E i \in Intended(f) : i < n) =>
              \E l \in Writes(f) : /\ l < m /\ \A k \in Writes(f) : k < m => k <= l
                                   /\ LeftBefore(f, n) = wrote[l].to
<1> DEFINE earlier == {i \in Intended(f) : i < n}
           last == CHOOSE i \in earlier : \A j \in earlier : j <= i
<1>1. CASE earlier = {}
  <2>1. LeftBefore(f, n) = baseline[f]
    BY <1>1 DEF LeftBefore
  <2>2. \A l \in Writes(f) : ~(l < m)
    BY <1>1, WriteIs
  <2> QED BY <1>1, <2>1, <2>2 DEF Leaves
<1>2. CASE earlier # {}
  <2>1. earlier \subseteq 1..Len(records) /\ Len(records) \in Nat
    BY DEF Intended, EditsInv, Types
  <2>2. last \in earlier /\ \A j \in earlier : j <= last
    <3>1. \E i \in earlier : \A j \in earlier : j <= i
      BY <1>2, <2>1, LastPosition
    <3> QED BY <3>1
  <2>3. LeftBefore(f, n) = EditOf(records[last], f).after
    BY <1>2 DEF LeftBefore
  <2> HIDE DEF last
  <2>4. last \in Intended(f) /\ last < n /\ last \in Nat
    BY <2>1, <2>2
  <2>5. PICK l \in Writes(f) : wrote[l].id = last
    BY <2>4, IntendedIsWritten
  <2>6. l < m /\ l \in Nat /\ LeftBefore(f, n) = wrote[l].to
    BY <2>3, <2>4, <2>5, WriteIs
  <2>7. ASSUME NEW k \in Writes(f), k < m
        PROVE  k <= l
    <3>1. k \in Nat /\ wrote[k].id \in earlier /\ wrote[k].id \in Nat
      BY <2>7, WriteIs
    <3>2. ~(wrote[l].id < wrote[k].id)
      BY <2>2, <2>4, <2>5, <3>1
    <3> QED BY <2>6, <3>1, <3>2, WritesAreOrdered
  <2>8. ASSUME NEW version, Leaves(f, m, version)
        PROVE  version = LeftBefore(f, n)
    <3>1. ~(m <= l)
      BY <2>6
    <3>2. PICK k \in Writes(f) : /\ k < m /\ \A j \in Writes(f) : j < m => j <= k
                                 /\ version = wrote[k].to
      BY <2>8, <3>1 DEF Leaves
    <3>3. k = l
      BY <2>6, <2>7, <3>2, WriteIs
    <3> QED BY <2>6, <3>2, <3>3
  <2> QED BY <2>6, <2>7, <2>8
<1> QED BY <1>1, <1>2

\* A review never gives Joe's work to others or others' work to Joe.
LEMMA ReviewTold == EditsInv => ReviewIsHonest
<1> SUFFICES ASSUME EditsInv, NEW f \in Files
             PROVE  /\ Ownership(f) = "External" => Writes(f) = {}
                    /\ Ownership(f) = "Joe" =>
                         \E k \in Writes(f) : (\A l \in Writes(f) : l <= k) /\ disk[f] = wrote[k].to
                    /\ Ownership(f) = "JoeAndExternal" =>
                         Writes(f) # {} /\ (f \in touched \/ baseline[f] # Original)
  BY DEF ReviewIsHonest
<1>1. PICK n \in Nat, m \in Nat : n = Len(records) + 1 /\ m = Len(wrote) + 1
  BY DEF EditsInv, Types
<1>2. \A l \in Writes(f) : l < m /\ wrote[l].id < n
  BY <1>1, WriteIs DEF Intended, EditsInv, Types
<1>3. \A i \in Intended(f) : i < n
  BY <1>1 DEF Intended, EditsInv, Types
<1>4. ASSUME Ownership(f) = "External"
      PROVE  Writes(f) = {}
  <2>1. Intended(f) = {}
    BY <1>4 DEF Ownership
  <2> QED BY <2>1, WriteIs
<1>5. ASSUME Ownership(f) = "Joe"
      PROVE  \E k \in Writes(f) : (\A l \in Writes(f) : l <= k) /\ disk[f] = wrote[k].to
  <2>1. ~Uncertain(f) /\ Intended(f) # {} /\ disk[f] = LeftBefore(f, n)
    BY <1>1, <1>5 DEF Ownership
  <2> QED BY <1>2, <1>3, <2>1, LeftIs
<1>6. ASSUME Ownership(f) = "JoeAndExternal"
      PROVE  Writes(f) # {}
  <2>1. ~Uncertain(f) /\ Intended(f) # {}
    BY <1>6 DEF Ownership
  <2>2. PICK i \in Intended(f) : TRUE
    BY <2>1
  <2> QED BY <2>1, <2>2, IntendedIsWritten
<1>7. ASSUME Ownership(f) = "JoeAndExternal", f \notin touched, baseline[f] = Original
      PROVE  FALSE
  <2>1. ~Uncertain(f) /\ ~(disk[f] = LeftBefore(f, n) /\ ~Broken(f))
    BY <1>1, <1>7 DEF Ownership
  <2>2. disk[f] = LeftBefore(f, n)
    <3>1. Leaves(f, m, disk[f])
      BY <1>1, <1>7 DEF EditsInv, JournalInv
    <3> QED BY <1>2, <1>7, <2>1, <3>1, LeftIs
  <2>3. PICK i \in Intended(f) : EditOf(records[i], f).before # LeftBefore(f, i)
    BY <2>1, <2>2 DEF Broken
  <2>4. PICK l \in Writes(f) : wrote[l].id = i
    BY <2>1, IntendedIsWritten
  <2>5. i \in Nat /\ l \in Nat /\ Leaves(f, l, EditOf(records[i], f).before)
    BY <1>7, <2>4, WriteIs
  <2>6. \A k \in Writes(f) : k < l <=> wrote[k].id < i
    BY <2>4, WritesAreOrdered
  <2> QED BY <1>7, <2>1, <2>3, <2>5, <2>6, LeftIs
<1> QED BY <1>4, <1>5, <1>6, <1>7

\* Whatever failed or crashed, a file called External was never replaced by
\* Joe, one called Joe's has the version Joe wrote last, and one called both
\* was written by Joe and by another program, or was there before the task
\* outside the inventory (ChangeTracker::review).
THEOREM ReviewIsAlwaysHonest == Spec => []ReviewIsHonest
BY ChangeJournalHolds, ReviewTold, PTL

=============================================================================
