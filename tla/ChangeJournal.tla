----------------------------- MODULE ChangeJournal -----------------------------
(***************************************************************************)
(* The change journal of a session (utils/src/changes.rs) and the edits it *)
(* describes (utils/src/workspace/unix/edits.rs), beside other programs    *)
(* that write the same files.                                              *)
(*                                                                         *)
(* The writer's lease admits one edit, undo or validation at a time.  The  *)
(* journal is saved with the session; a save or a file operation may fail, *)
(* and the process may crash between any two steps.                        *)
(***************************************************************************)
EXTENDS Integers, SequencesExt

CONSTANTS
  Files,       \* paths
  Listed,      \* source files that Git or the inventory lists
  Contents,    \* versions of a file
  Missing,     \* FileVersion::Missing
  Original,    \* the version of every file when the task begins
  Commands,    \* cargo commands that validate the workspace
  MaxTasks,    \* bound: edits, undos and validations
  MaxForeign,  \* bound: writes of other programs
  MaxFaults,   \* bound: failures and crashes
  Unseen       \* no version

ASSUME JournalAssumption ==
  /\ Listed \subseteq Files
  /\ {Missing, Original} \subseteq Contents /\ Unseen \notin Contents
  /\ MaxTasks \in Nat /\ MaxForeign \in Nat /\ MaxFaults \in Nat

VARIABLES
  disk,        \* contents of the files
  records,     \* ChangeSnapshot.records, as saved
  validation,  \* ChangeSnapshot.validation, as saved
  observed,    \* TrackerState.observed
  task,        \* the edit, undo or validation at work
  wrote,       \* observation: the files that Joe replaced, in order
  known,       \* observation: versions of a file in the baseline, or that Joe read or wrote
  late,        \* observation: another program wrote after the last comparison
  touched,     \* observation: files that other programs have written
  lastRun,     \* observation: the last validation recorded of each command
  runs,        \* validations so far
  foreign,     \* writes of other programs so far
  faults       \* failures and crashes so far

journal == <<records, validation>>
seen == <<known, late, touched>>
counts == <<runs, foreign, faults>>
vars == <<disk, records, validation, observed, task, wrote, known, late,
          touched, lastRun, runs, foreign, faults>>

\* Of an ignored file, or an archive, nothing is captured: the baseline has
\* it as missing.
baseline == [f \in Files |-> IF f \in Listed THEN Original ELSE Missing]
\* What a validation is about (ChangeTracker::workspace_fingerprint).
Workspace == [f \in Listed |-> disk[f]]

-----------------------------------------------------------------------------
(* Edits and records.  EditRecord.applied is always a prefix of the edits  *)
(* and in_flight the edit after it.  A definition whose comment starts     *)
(* with "Variant" is a mistake that the definition after it avoids; no     *)
(* action uses it.                                                         *)

Edit(file, before, after) == [file |-> file, before |-> before, after |-> after]
Prepared(edits, undoOf) ==
  [edits |-> edits, applied |-> 0, inFlight |-> FALSE, state |-> "prepared", undoOf |-> undoOf]

BeginFile(r) == [r EXCEPT !.inFlight = TRUE, !.state = "applying"]
ConfirmFile(r) == [r EXCEPT !.inFlight = FALSE, !.applied = @ + 1]
FullyConfirmed(r) == ~r.inFlight /\ r.applied = Len(r.edits)
Current(r) == r.edits[r.applied + 1]

\* Edits a record may have made: those applied and the one in flight.
Begun(r) == 1..(r.applied + IF r.inFlight THEN 1 ELSE 0)
Intends(r, file) == \E k \in Begun(r) : r.edits[k].file = file
Applied(r, file) == \E k \in 1..r.applied : r.edits[k].file = file
\* EditRecord::prepared refuses to edit a path twice.
EditOf(r, file) == CHOOSE e \in ToSet(r.edits) : e.file = file

\* Variant: after a restart nothing has been observed, so nothing is stale.
VersionThisLife(file) == observed[file]
\* TrackerState::observed_version
ObservedVersion(file) ==
  LET confirmed == {i \in DOMAIN records : Applied(records[i], file)}
      last == CHOOSE i \in confirmed : \A j \in confirmed : j <= i
  IN IF observed[file] # Unseen THEN observed[file]
     ELSE IF confirmed = {} THEN baseline[file]
     ELSE EditOf(records[last], file).after

\* FileEdit::preflight; an undo compares with the disk only.
Preflight(edits, undoOf) ==
  \A k \in DOMAIN edits :
    /\ disk[edits[k].file] = edits[k].before
    /\ undoOf # 0 \/ ObservedVersion(edits[k].file) \in {Unseen, edits[k].before}

\* EditRecord::undo_edits
Reversed(edits) ==
  Reverse([k \in DOMAIN edits |-> Edit(edits[k].file, edits[k].after, edits[k].before)])

-----------------------------------------------------------------------------
(* Saving, and the work at hand.                                           *)

Idle == [at |-> "idle", id |-> 0, record |-> Prepared(<<>>, 0), command |-> Unseen, before |-> Unseen]
Fault == faults < MaxFaults /\ faults' = faults + 1
Quiet == UNCHANGED <<runs, foreign>>
MoreTasks == Len(records) + runs < MaxTasks

At(at) == task.at = at
Goes(at, r) == task' = IF at = "idle" THEN Idle ELSE [task EXCEPT !.at = at, !.record = r]

\* TrackerState::record: the record is saved and the work goes on at `next`,
\* or the save fails, the journal keeps what it had, and it goes on at `else`.
Save(r, next, else) ==
  \/ records' = [records EXCEPT ![task.id] = r] /\ Goes(next, r) /\ UNCHANGED faults
  \/ Fault /\ UNCHANGED records /\ Goes(else, r)

-----------------------------------------------------------------------------
Init ==
  /\ disk = [f \in Files |-> Original]
  /\ records = <<>> /\ validation = {}
  /\ observed = [f \in Files |-> Unseen]
  /\ task = Idle
  /\ wrote = <<>> /\ known = [f \in Files |-> {baseline[f]}] /\ late = FALSE /\ touched = {}
  /\ lastRun = [c \in Commands |-> Unseen]
  /\ runs = 0 /\ foreign = 0 /\ faults = 0

\* Files::read_file and the other reading tools
Observe(f) ==
  /\ At("idle")
  /\ observed' = [observed EXCEPT ![f] = disk[f]]
  /\ known' = [known EXCEPT ![f] = @ \cup {disk[f]}]
  /\ UNCHANGED <<disk, journal, task, wrote, late, touched, lastRun, counts>>

\* ChangeTracker::apply_record: preflight, and the record saved as prepared.
Prepare(edits, undoOf) ==
  /\ At("idle") /\ MoreTasks
  /\ Preflight(edits, undoOf)
  /\ records' = Append(records, Prepared(edits, undoOf))
  /\ task' = [Idle EXCEPT !.at = "ready", !.id = Len(records) + 1, !.record = Prepared(edits, undoOf)]
  /\ UNCHANGED <<disk, validation, observed, wrote, seen, lastRun, counts>>

\* A tool reads the files it edits (apply_patch, write_to_file, rename_file)
\* and replaces each by another version.
EditFiles ==
  \E paths \in {s \in UNION {[1..n -> Files] : n \in 1..2} : IsInjective(s)} :
    \E after \in [DOMAIN paths -> Contents] :
      /\ \A k \in DOMAIN paths : after[k] # disk[paths[k]]
      /\ Prepare([k \in DOMAIN paths |-> Edit(paths[k], disk[paths[k]], after[k])], 0)

\* ChangeTracker::undo
Undo(i) ==
  /\ records[i].state = "applied" /\ FullyConfirmed(records[i])
  /\ Prepare(Reversed(records[i].edits), i)

\* WorkspacePolicy::stage_edit fails for one of the files.
StageFails ==
  /\ At("ready") /\ task.record.state = "prepared" /\ Fault
  /\ Goes("failing", task.record)
  /\ UNCHANGED <<disk, journal, observed, wrote, seen, lastRun>> /\ Quiet

\* Variant: the journal hears of a file once it is replaced.
BeginUnsaved ==
  /\ At("ready") /\ task.record.applied < Len(task.record.edits)
  /\ Goes("begun", BeginFile(task.record)) /\ UNCHANGED faults /\ UNCHANGED records
  /\ UNCHANGED <<disk, validation, observed, wrote, seen, lastRun>> /\ Quiet
Begin ==
  /\ At("ready") /\ task.record.applied < Len(task.record.edits)
  /\ Save(BeginFile(task.record), "begun", "failing")
  /\ UNCHANGED <<disk, validation, observed, wrote, seen, lastRun>> /\ Quiet

\* StagedEdit::apply compares, then replaces the file and syncs.
Compare ==
  /\ At("begun")
  /\ LET e == Current(task.record)
     IN Goes(IF disk[e.file] = e.before THEN "compared" ELSE "failing", task.record)
  /\ late' = FALSE
  /\ UNCHANGED <<disk, journal, observed, wrote, known, touched, lastRun, counts>>

Replace ==
  /\ At("compared")
  /\ LET e == Current(task.record)
     IN /\ disk' = [disk EXCEPT ![e.file] = e.after]
        /\ wrote' = Append(wrote, [file |-> e.file, id |-> task.id, to |-> e.after])
        /\ known' = [known EXCEPT ![e.file] = @ \cup {e.after}]
        /\ \/ /\ UNCHANGED faults /\ Goes("replaced", task.record)
              /\ observed' = [observed EXCEPT ![e.file] = e.after]
           \/ Fault /\ Goes("failing", task.record) /\ UNCHANGED observed
  /\ UNCHANGED <<journal, late, touched, lastRun>> /\ Quiet

ReplaceFails ==
  /\ At("compared") /\ Fault
  /\ Goes("failing", task.record)
  /\ UNCHANGED <<disk, journal, observed, wrote, seen, lastRun>> /\ Quiet

Confirm ==
  /\ At("replaced")
  /\ Save(ConfirmFile(task.record), "ready", "failing")
  /\ UNCHANGED <<disk, validation, observed, wrote, seen, lastRun>> /\ Quiet

\* The work of apply_record is over; an undo has yet to mark its original.
Complete ==
  /\ At("ready") /\ FullyConfirmed(task.record)
  /\ Save([task.record EXCEPT !.state = "applied"],
          IF task.record.undoOf # 0 THEN "undone" ELSE "idle", "idle")
  /\ UNCHANGED <<disk, validation, observed, wrote, seen, lastRun>> /\ Quiet
Fail ==
  /\ At("failing")
  /\ Save([task.record EXCEPT !.state = "failed"], "idle", "idle")
  /\ UNCHANGED <<disk, validation, observed, wrote, seen, lastRun>> /\ Quiet

MarkUndone ==
  /\ At("undone")
  /\ \/ /\ UNCHANGED faults
        /\ records' = [records EXCEPT ![task.record.undoOf].state = "undone"]
     \/ Fault /\ UNCHANGED records
  /\ task' = Idle
  /\ UNCHANGED <<disk, validation, observed, wrote, seen, lastRun>> /\ Quiet

-----------------------------------------------------------------------------
(* Validations (CargoTools, ChangeTracker::record_validation).             *)

Validate(c) ==
  /\ At("idle") /\ MoreTasks /\ runs' = runs + 1
  /\ task' = [Idle EXCEPT !.at = "validating", !.command = c, !.before = Workspace]
  /\ UNCHANGED <<disk, journal, observed, wrote, seen, lastRun, foreign, faults>>

\* Variant: a run that proves nothing leaves what is recorded.
Retained(c) == {v \in validation : v.workspace = Workspace}
\* Evidence of the same command, or about other contents, is dropped.
Retain(c) == {v \in validation : v.command # c /\ v.workspace = Workspace}

Validated(passed) ==
  /\ At("validating")
  /\ LET c == task.command
     IN \/ /\ validation' = Retain(c) \cup
               (IF passed /\ task.before = Workspace
                THEN {[command |-> c, workspace |-> Workspace]} ELSE {})
           /\ lastRun' = [lastRun EXCEPT ![c] =
                [passed |-> passed, began |-> task.before, ended |-> Workspace]]
           /\ UNCHANGED faults
        \/ Fault /\ UNCHANGED <<validation, lastRun>>
  /\ task' = Idle
  /\ UNCHANGED <<disk, records, observed, wrote, seen, runs, foreign>>

-----------------------------------------------------------------------------
(* What nobody here controls.                                              *)

Foreign(f, version) ==
  /\ foreign < MaxForeign /\ foreign' = foreign + 1
  /\ disk[f] # version /\ disk' = [disk EXCEPT ![f] = version]
  /\ late' = At("compared")
  /\ touched' = touched \cup {f}
  /\ UNCHANGED <<journal, observed, task, wrote, known, lastRun, runs, faults>>

\* The session is resumed from what was saved (ChangeTracker::restored).
Crash ==
  /\ Fault
  /\ observed' = [f \in Files |-> Unseen]
  /\ task' = Idle
  /\ UNCHANGED <<disk, journal, wrote, seen, lastRun>> /\ Quiet

Next ==
  \/ \E f \in Files : Observe(f)
  \/ EditFiles
  \/ \E i \in DOMAIN records : Undo(i)
  \/ StageFails \/ Begin \/ Compare \/ Replace \/ ReplaceFails \/ Confirm
  \/ Complete \/ Fail \/ MarkUndone
  \/ \E c \in Commands : Validate(c)
  \/ \E passed \in BOOLEAN : Validated(passed)
  \/ \E f \in Files, version \in Contents : Foreign(f, version)
  \/ Crash

Spec == Init /\ [][Next]_vars

-----------------------------------------------------------------------------
(* ChangeTracker::review: whose a file's change is.                        *)

Intended(f) == {i \in DOMAIN records : Intends(records[i], f)}
\* What Joe left of a file with the edits before record `n`.
LeftBefore(f, n) ==
  LET earlier == {i \in Intended(f) : i < n}
      last == CHOOSE i \in earlier : \A j \in earlier : j <= i
  IN IF earlier = {} THEN baseline[f] ELSE EditOf(records[last], f).after
\* Variant: a record that failed is certain.
UncertainApplying(f) ==
  \E i \in DOMAIN records :
    /\ records[i].state = "applying" /\ records[i].inFlight
    /\ Current(records[i]).file = f
Uncertain(f) == \E i \in DOMAIN records : records[i].inFlight /\ Current(records[i]).file = f
\* Something changed the file between two of the edits, or before them.
Broken(f) == \E i \in Intended(f) : EditOf(records[i], f).before # LeftBefore(f, i)
Ownership(f) ==
  IF Uncertain(f) THEN "Uncertain"
  ELSE IF Intended(f) = {} THEN "External"
  ELSE IF disk[f] = LeftBefore(f, Len(records) + 1) /\ ~Broken(f) THEN "Joe"
  ELSE "JoeAndExternal"

-----------------------------------------------------------------------------
(* Properties.                                                             *)

Writes(f) == {k \in DOMAIN wrote : wrote[k].file = f}

\* A review never gives Joe's work to others or others' work to Joe
\* (ChangeTracker::review): whatever failed or crashed, a file called
\* External was never replaced by Joe, one called Joe's has the version Joe
\* wrote last, and one called both was really written by Joe and by another
\* program.  Only a file that the baseline had missed is called both for
\* Joe's edits alone: it was there before the task, outside the inventory.
ReviewIsHonest ==
  \A f \in Files :
    /\ Ownership(f) = "External" => Writes(f) = {}
    /\ Ownership(f) = "Joe" =>
         \E k \in Writes(f) : (\A l \in Writes(f) : l <= k) /\ disk[f] = wrote[k].to
    /\ Ownership(f) = "JoeAndExternal" =>
         Writes(f) # {} /\ (f \in touched \/ baseline[f] # Original)

\* The journal is what happened, through failed saves and crashes
\* (ChangeTracker::apply_record, ChangeTracker::undo): a confirmed file was
\* replaced by that record, a replaced file is confirmed or in flight, and a
\* record is marked undone only after all of it was put back.
JournalIsTrue ==
  /\ \A i \in DOMAIN records : \A k \in 1..records[i].applied :
       LET e == records[i].edits[k]
       IN [file |-> e.file, id |-> i, to |-> e.after] \in ToSet(wrote)
  /\ \A w \in ToSet(wrote) : w.id \in Intended(w.file)
  /\ \A i \in DOMAIN records : records[i].state = "undone" =>
       \E u \in DOMAIN records :
         /\ records[u].undoOf = i /\ FullyConfirmed(records[u])
         /\ records[u].edits = Reversed(records[i].edits)

\* Joe replaces no version of a file that it has not captured or read, of
\* another program or from before the task, inside the inventory or not
\* (FileEdit::preflight, StagedEdit::apply), not even after a restart:
\* except for a write that falls between the comparison and the rename.
ForeignEditsSurvive ==
  [][\A f \in Files :
       disk'[f] # disk[f] /\ foreign' = foreign => disk[f] \in known[f] \/ late]_vars

\* A command's validation counts only if its last recorded run passed and
\* began and ended with the present contents of the inventoried files
\* (ChangeTracker::record_validation, completion_obligations): edits, undos
\* and other programs' writes during or after a run, and later runs that
\* fail, take it back.
EvidenceIsCurrent ==
  \A c \in Commands :
    [command |-> c, workspace |-> Workspace] \in validation
      => lastRun[c] = [passed |-> TRUE, began |-> Workspace, ended |-> Workspace]
=============================================================================
