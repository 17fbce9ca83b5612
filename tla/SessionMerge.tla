------------------------------ MODULE SessionMerge ------------------------------
(***************************************************************************)
(* The worktree of a session and its way back into main: the first write   *)
(* creates it (session/src/runtime.rs), a completed task offers it, the    *)
(* user's answer merges it (workflows/src/merge), Git moves the refs and   *)
(* removes it (utils/src/git/worktrees/session.rs), and /prune removes     *)
(* what is left (session/src/prune.rs).                                    *)
(*                                                                         *)
(* Sessions run in processes of their own.  The user edits the worktrees   *)
(* and the checkout of main by hand.  A process may end, and its storage   *)
(* may fail, between any two records and any two writes of Git.            *)
(***************************************************************************)
EXTENDS Integers, Sequences, FiniteSets

CONSTANTS
  Sessions,    \* root sessions of one project
  First,       \* the session that exists at the start
  None,        \* no session
  Files,       \* files under version control
  MaxEdits,    \* bound: edits of worktrees
  MaxTurns,    \* bound: tasks and prunes begun
  MaxTrouble   \* bound: edits of main, crashes and storage failures

ASSUME MergeAssumption ==
  /\ First \in Sessions /\ None \notin Sessions
  /\ MaxEdits \in Nat /\ MaxTurns \in Nat /\ MaxTrouble \in Nat

VARIABLES
  commits,     \* every commit: its tree, its parents and all its ancestors
  main,        \* refs/heads/main, checked out in the project root
  root,        \* the files of the project root
  wt,          \* worktrees: branch, files, MERGE_HEAD and recorded squash merges
  store,       \* what a session has stored: worktree, source, approval, question
  actor,       \* the actor of each session
  pruner,      \* /prune, run in another process
  edits,       \* edits of worktrees and of the root; each writes a new version
  turns,       \* tasks and prunes so far
  faults,      \* crashes and storage failures so far
  consent,     \* observation: versions that the user's standing approval covers
  regained     \* observation: forks that read their source again after a failed
               \* write, and their forks

repository == <<commits, main, root>>
observed == <<consent, regained>>
vars == <<commits, main, root, wt, store, actor, pruner, edits, turns, faults,
          consent, regained>>

Marks == -1      \* the version of a file with conflict markers
NoTree == <<>>   \* no directory

-----------------------------------------------------------------------------
(* Git: a definition whose comment starts with "Variant" is a mistake that *)
(* the definition after it avoids; no action uses it.                      *)

Ancestors(c) == commits[c].ancestors
Integrated(c) == c \in Ancestors(main)
Versions(tree) == {tree[f] : f \in Files}

Commit(tree, parents) ==
  [tree |-> tree, parents |-> parents,
   ancestors |-> {Len(commits) + 1} \cup UNION {Ancestors(parents[i]) : i \in DOMAIN parents}]

\* The merge base: ids grow, so the greatest common ancestor descends from no other.
Base(a, b) == LET common == Ancestors(a) \cap Ancestors(b)
              IN CHOOSE c \in common : \A d \in common : d <= c

\* Repository::merge_commits, file by file.
Merged(base, ours, theirs) ==
  [f \in Files |-> IF ours[f] = theirs[f] \/ theirs[f] = base[f] THEN ours[f]
                   ELSE IF ours[f] = base[f] THEN theirs[f] ELSE Marks]
Conflicts(tree) == {f \in Files : tree[f] = Marks}

Present(s) == wt[s].tree # NoTree
Tip(s) == commits[wt[s].branch]
Clean(s) == wt[s].mergeHead = 0 /\ wt[s].tree = Tip(s).tree

\* MergeRecord: the commit that an approved commit became in main.
Recorded(s, approved) ==
  IF \E pair \in wt[s].merges : pair[1] = approved
  THEN (CHOOSE pair \in wt[s].merges : pair[1] = approved)[2] ELSE approved

\* ResolutionState: the merge that a conflict resolution ends.
ResolutionPending(s, conflict) ==
  wt[s].mergeHead = conflict.target /\ wt[s].branch = conflict.commit
ResolutionCommitted(s, conflict) ==
  /\ Tip(s).parents = <<conflict.commit, conflict.target>>
  /\ wt[s].mergeHead \in {0, conflict.target}

\* commit_snapshot: may it run, the commits after it and the one it returns.
CanCommit(s, conflict) ==
  /\ Present(s)
  /\ IF conflict.kind = "Resolving"
     THEN /\ ResolutionPending(s, conflict) \/ ResolutionCommitted(s, conflict)
          /\ \A f \in conflict.paths : wt[s].tree[f] # Marks
     ELSE wt[s].mergeHead = 0
Parents(s, conflict) ==
  IF conflict.kind = "Resolving" /\ ResolutionPending(s, conflict)
  THEN <<wt[s].branch, conflict.target>> ELSE <<wt[s].branch>>
AsCommitted(s, conflict) ==
  wt[s].tree = Tip(s).tree /\ Len(Parents(s, conflict)) = 1
Snapshot(s, conflict) ==
  IF AsCommitted(s, conflict) THEN commits
  ELSE Append(commits, Commit(wt[s].tree, Parents(s, conflict)))
SnapshotId(s, conflict) ==
  IF AsCommitted(s, conflict) THEN wt[s].branch ELSE Len(commits) + 1

-----------------------------------------------------------------------------
(* Approvals.  running is ResolutionActivity, which is not stored.         *)

NoApproval == [kind |-> "None", commit |-> 0, target |-> 0, paths |-> {}, running |-> FALSE]
Awaiting(c) == [NoApproval EXCEPT !.kind = "Awaiting", !.commit = c]
Approved(c) == [NoApproval EXCEPT !.kind = "Approved", !.commit = c]
Resolving(c, target, paths) ==
  [kind |-> "Resolving", commit |-> c, target |-> target, paths |-> paths, running |-> TRUE]
Paused(approval) == [approval EXCEPT !.running = FALSE]

\* MergeApproval::transition for TaskStarted with a turn of the user's.
TaskStarted(approval) ==
  IF approval.kind \in {"Awaiting", "Approved"} THEN NoApproval ELSE Paused(approval)

\* Variant: only a merge that was approved is asked again.
RecoversApproved(approval, asked) == approval.kind = "Approved"
\* MergeApproval::recovery: an approval that must be asked for again.
Recovers(approval, asked) ==
  approval.kind = "Approved" \/ (approval.kind = "Awaiting" /\ ~asked)

Down == [pc |-> "down", approval |-> NoApproval, turn |-> "none", commit |-> 0,
         keep |-> FALSE, source |-> None, queued |-> FALSE]

MoreTrouble == faults + edits.root < MaxTrouble
Fault == MoreTrouble /\ faults' = faults + 1
More == turns < MaxTurns /\ turns' = turns + 1
Goto(s, pc) == actor' = [actor EXCEPT ![s].pc = pc]

\* SessionMerge::record_merge: withdraw the question, store the approval, ask
\* the new question; the process may stop between the three.  (A process that
\* stops before them or after them is Leave.)
Records(s, next) ==
  LET withdrawn == [store EXCEPT ![s].asked = FALSE]
      approved == [withdrawn EXCEPT ![s].approval = Paused(next)]
  IN <<withdrawn, approved, [approved EXCEPT ![s].asked = (next.kind = "Awaiting")]>>
RecordMerge(s, next, rest) ==
  LET steps == Records(s, next) IN
  \/ /\ store' = steps[3]
     /\ actor' = [actor EXCEPT ![s] = [rest EXCEPT !.approval = next]]
     /\ UNCHANGED faults
  \/ /\ Fault
     /\ store' \in {steps[1], steps[2]} \ {store, steps[3]}
     /\ actor' = [actor EXCEPT ![s] = Down]

Idle(s) == [Down EXCEPT !.pc = "idle", !.queued = actor[s].queued]
Revoke(s) == consent' = [consent EXCEPT ![s] = {}] /\ UNCHANGED regained
\* A merge that fails, or keeps the worktree, is offered again.
OfferAgain(s) == RecordMerge(s, Awaiting(actor[s].commit), Idle(s)) /\ Revoke(s)

-----------------------------------------------------------------------------
Init ==
  /\ commits = <<[tree |-> [f \in Files |-> 0], parents |-> <<>>, ancestors |-> {1}]>>
  /\ main = 1 /\ root = commits[1].tree
  /\ wt = [s \in Sessions |-> [branch |-> 0, tree |-> NoTree, mergeHead |-> 0, merges |-> {}]]
  /\ store = [s \in Sessions |-> [worktree |-> FALSE, source |-> None,
                                  approval |-> NoApproval, asked |-> FALSE]]
  /\ actor = [s \in Sessions |-> [Down EXCEPT !.pc = IF s = First THEN "idle" ELSE "unborn"]]
  /\ pruner = [pc |-> "none", target |-> None, force |-> FALSE]
  /\ edits = [worktrees |-> 0, root |-> 0] /\ turns = 0 /\ faults = 0
  /\ consent = [s \in Sessions |-> {}] /\ regained = {}

-----------------------------------------------------------------------------
(* The life of a session.                                                  *)

\* SessionAction::Fork: the actor goes on with the fork, which reads its source.
Fork(p, s) ==
  /\ actor[p].pc = "idle" /\ actor[s].pc = "unborn"
  /\ store' = [store EXCEPT ![s].source = IF store[p].worktree THEN p ELSE store[p].source]
  /\ actor' = [actor EXCEPT ![p] = Down, ![s].pc = "idle"]
  /\ regained' = IF ~store[p].worktree /\ p \in regained THEN regained \cup {s} ELSE regained
  /\ UNCHANGED <<repository, wt, pruner, edits, turns, faults, consent>>

\* The process exits, crashes or opens another session; or its storage fails,
\* after which it starts nothing and merges nothing.  A task that is cut short
\* leaves what a task that fails leaves.
Leave(s) ==
  /\ actor[s].pc \notin {"unborn", "down", "pruning", "turn", "created", "offering"}
  /\ IF actor[s].pc = "idle" THEN UNCHANGED faults ELSE Fault
  /\ actor' = [actor EXCEPT ![s] = Down] /\ Revoke(s)
  /\ UNCHANGED <<repository, wt, store, pruner, edits, turns>>

\* SessionWorkspace::resolve for a read: the session's own worktree, or its source's.
Readable(s) ==
  LET w == IF store[s].worktree THEN s ELSE store[s].source IN w # None => Present(w)

\* ActorState::activate_session
Resume(s) ==
  /\ actor[s].pc = "down" /\ Readable(s)
  /\ LET stored == store[s].approval
     IN IF Recovers(stored, store[s].asked)
        THEN RecordMerge(s, Awaiting(stored.commit), Idle(s))
        ELSE /\ actor' = [actor EXCEPT ![s] = [Idle(s) EXCEPT !.approval = stored]]
             /\ UNCHANGED <<store, faults>>
  /\ Revoke(s)
  /\ UNCHANGED <<repository, wt, pruner, edits, turns>>

-----------------------------------------------------------------------------
(* Tasks and edits.                                                        *)

BeginTask(s) ==
  /\ actor[s].pc = "idle" /\ More
  /\ RecordMerge(s, TaskStarted(actor[s].approval),
                 [actor[s] EXCEPT !.pc = "turn", !.turn = "task"])
  /\ Revoke(s)
  /\ UNCHANGED <<repository, wt, pruner, edits>>

\* Message::ResolveMerge: nothing begins beside a task, or after a pause.
ResolveMerge(s) ==
  /\ actor[s].queued /\ actor[s].pc \in {"idle", "turn"}
  /\ actor' = [actor EXCEPT ![s].queued = FALSE,
       ![s].pc = IF actor[s].approval.running THEN "turn" ELSE @,
       ![s].turn = IF actor[s].approval.running /\ actor[s].pc = "idle" THEN "resolution" ELSE @]
  /\ UNCHANGED <<repository, wt, store, pruner, edits, turns, faults, observed>>

\* SessionTurn::observe for interrupts, steering and stops.
Interrupt(s) ==
  /\ actor[s].pc \in {"idle", "turn"} /\ actor[s].approval.running
  /\ RecordMerge(s, Paused(actor[s].approval), Idle(s))
  /\ Revoke(s)
  /\ UNCHANGED <<repository, wt, pruner, edits, turns>>

\* The task fails, or completes with nothing to offer: no worktree, no review
\* of the changes, a failed workflow, plan mode or follow-ups that wait.
EndTask(s) ==
  /\ actor[s].pc \in {"turn", "created"}
  /\ actor' = [actor EXCEPT ![s].pc = "idle", ![s].turn = "none", ![s].source = None]
  /\ UNCHANGED <<repository, wt, store, pruner, edits, turns, faults, observed>>

CompleteTask(s) ==
  /\ actor[s].pc \in {"turn", "created"} /\ store[s].worktree
  /\ actor' = [actor EXCEPT ![s].pc = "offering", ![s].source = None]
  /\ UNCHANGED <<repository, wt, store, pruner, edits, turns, faults, observed>>

\* SessionWorktree::create, and the record that names it; a fork begins with a
\* checkpoint of its source.
FirstWrite(s) ==
  LET source == store[s].source
      created(base, id) == [branch |-> id, tree |-> base, mergeHead |-> 0, merges |-> {}]
  IN /\ actor[s].pc = "turn" /\ ~store[s].worktree /\ wt[s].branch = 0
     /\ IF source = None
        THEN /\ wt' = [wt EXCEPT ![s] = created(commits[main].tree, main)]
             /\ UNCHANGED commits
        ELSE /\ CanCommit(source, NoApproval)
             /\ commits' = Snapshot(source, NoApproval)
             /\ LET id == SnapshotId(source, NoApproval)
                IN wt' = [wt EXCEPT ![source].branch = id,
                                    ![s] = created(wt[source].tree, id)]
     /\ \/ /\ store' = [store EXCEPT ![s].worktree = TRUE, ![s].source = None]
           /\ actor' = [actor EXCEPT ![s].pc = "created", ![s].source = source]
           /\ UNCHANGED faults
        \/ /\ Fault /\ actor' = [actor EXCEPT ![s] = Down] /\ UNCHANGED store
     /\ UNCHANGED <<main, root, pruner, edits, turns, observed>>

\* An edit writes a version that nobody has written before.
Fresh == edits.worktrees + edits.root + 1
Change(s, f) ==
  /\ edits.worktrees < MaxEdits /\ edits' = [edits EXCEPT !.worktrees = @ + 1]
  /\ wt' = [wt EXCEPT ![s].tree[f] = Fresh]
  \* what is written while an approved conflict is resolved is covered
  /\ consent' = [consent EXCEPT ![s] =
       IF @ # {} /\ actor[s].approval.kind = "Resolving" THEN @ \cup {Fresh} ELSE @]
  /\ UNCHANGED regained

Edit(s, f) ==
  /\ actor[s].pc \in {"turn", "created"} /\ store[s].worktree /\ Present(s)
  /\ Change(s, f)
  /\ actor' = [actor EXCEPT ![s].pc = "turn", ![s].source = None]
  /\ UNCHANGED <<repository, store, pruner, turns, faults>>

\* The user edits a worktree or the checkout of main, and commits or reverts there.
UserEdits(s, f) ==
  /\ Present(s) /\ Change(s, f)
  /\ UNCHANGED <<repository, store, actor, pruner, turns, faults>>
UserEditsRoot(f) ==
  /\ MoreTrouble /\ edits' = [edits EXCEPT !.root = @ + 1]
  /\ root' = [root EXCEPT ![f] = Fresh]
  /\ UNCHANGED <<commits, main, wt, store, actor, pruner, turns, faults, observed>>
UserCommits ==
  /\ root # commits[main].tree
  /\ commits' = Append(commits, Commit(root, <<main>>)) /\ main' = Len(commits')
  /\ UNCHANGED <<root, wt, store, actor, pruner, edits, turns, faults, observed>>
UserReverts ==
  /\ root # commits[main].tree /\ root' = commits[main].tree
  /\ UNCHANGED <<commits, main, wt, store, actor, pruner, edits, turns, faults, observed>>

-----------------------------------------------------------------------------
(* The offer: SessionMerge::offer_merge.                                   *)

\* MergeWorkspace::proposal: the worktree is committed; an integrated commit
\* is not offered.  A resolution clears MERGE_HEAD in the step after it.
Propose(s) ==
  LET conflict == actor[s].approval
      id == SnapshotId(s, conflict)
      offered == IF conflict.kind # "Resolving" /\ Integrated(id) THEN 0 ELSE id
  IN /\ actor[s].pc = "offering"
     /\ IF CanCommit(s, conflict)
        THEN /\ commits' = Snapshot(s, conflict)
             /\ wt' = [wt EXCEPT ![s].branch = id]
             /\ actor' = [actor EXCEPT ![s].commit = offered,
                  ![s].pc = IF offered = 0 \/ AsCommitted(s, conflict) THEN "proposed" ELSE "describing"]
        ELSE /\ actor' = [actor EXCEPT ![s].pc = "idle", ![s].turn = "none"]
             /\ UNCHANGED <<commits, wt>>
     /\ UNCHANGED <<main, root, store, pruner, edits, turns, faults, observed>>

\* describe_proposal: a reviewed message replaces the commit by one of the same
\* tree, unless something changed meanwhile.  A task without changes has none.
Describable(s) ==
  /\ wt[s].branch = actor[s].commit /\ ~Integrated(wt[s].branch) /\ wt[s].tree = Tip(s).tree
Described(s) ==
  IF actor[s].pc = "describing" THEN Append(commits, Commit(Tip(s).tree, Tip(s).parents)) ELSE commits

\* Variant: a resolution that was paused still skips the question.
SkipsAnyResolution(s) == actor[s].approval.kind = "Resolving"
\* MergeApproval::resolution: this turn resolves the conflict the user approved.
SkipsQuestion(s) ==
  actor[s].approval.kind = "Resolving" /\ actor[s].approval.running /\ actor[s].turn = "resolution"

\* MergeProposal::new and the record of its event.
Offer(s) ==
  LET c == IF actor[s].pc = "describing" THEN Len(commits) + 1 ELSE actor[s].commit IN
  /\ actor[s].pc = "proposed" \/ (actor[s].pc = "describing" /\ Describable(s))
  /\ commits' = Described(s)
  /\ wt' = [wt EXCEPT ![s].mergeHead = 0,
                      ![s].branch = IF actor[s].pc = "describing" THEN c ELSE @]
  /\ IF c # 0 /\ SkipsQuestion(s)
     THEN /\ RecordMerge(s, Approved(c), [Idle(s) EXCEPT !.pc = "approved", !.commit = c])
          /\ UNCHANGED observed
     ELSE /\ RecordMerge(s, IF c = 0 THEN NoApproval ELSE Awaiting(c), Idle(s))
          /\ Revoke(s)
  /\ UNCHANGED <<main, root, pruner, edits, turns>>

OfferFails(s) ==
  /\ actor[s].pc = "describing" /\ ~Describable(s)
  /\ wt' = [wt EXCEPT ![s].mergeHead = 0]
  /\ actor' = [actor EXCEPT ![s].pc = "idle", ![s].turn = "none", ![s].commit = 0]
  /\ UNCHANGED <<repository, store, pruner, edits, turns, faults, observed>>

\* SessionTurn::answer: the question goes with the answer, before the approval
\* is recorded.
Answer(s, merge) ==
  LET c == actor[s].approval.commit IN
  /\ actor[s].pc = "idle" /\ store[s].asked /\ actor[s].approval.kind = "Awaiting"
  /\ IF merge
     THEN /\ store[s].worktree
          /\ RecordMerge(s, Approved(c), [Idle(s) EXCEPT !.pc = "approved", !.commit = c])
          /\ consent' = [consent EXCEPT ![s] = Versions(commits[c].tree)] /\ UNCHANGED regained
     ELSE RecordMerge(s, NoApproval, Idle(s)) /\ Revoke(s)
  /\ UNCHANGED <<repository, wt, pruner, edits, turns>>

-----------------------------------------------------------------------------
(* The merge: SessionMerge::merge_commit.                                  *)

\* Variant: no session is asked whether it still reads the worktree.
NoReaders(s) == FALSE
\* SessionStore::has_worktree_readers
HasReaders(s) == \E r \in Sessions : store[r].source = s

WorktreeCleanup(s) ==
  /\ actor[s].pc = "approved"
  /\ actor' = [actor EXCEPT ![s].pc = "ready", ![s].keep = HasReaders(s)]
  /\ UNCHANGED <<repository, wt, store, pruner, edits, turns, faults, observed>>

\* merge_into_target commits the worktree before it locks the refs.
Checkpoint(s) ==
  /\ actor[s].pc = "ready"
  /\ IF CanCommit(s, NoApproval)
     THEN /\ commits' = Snapshot(s, NoApproval)
          /\ wt' = [wt EXCEPT ![s].branch = SnapshotId(s, NoApproval)]
          /\ Goto(s, "checked")
          /\ UNCHANGED <<store, faults, observed>>
     ELSE OfferAgain(s) /\ UNCHANGED <<commits, wt>>
  /\ UNCHANGED <<main, root, pruner, edits, turns>>

\* The commit is the one the user approved, or what it became in main.
IsApproved(s) == wt[s].branch = Recorded(s, actor[s].commit)

\* Variant: any commit that main has not integrated moves main forward.
AlwaysFastForward(s) == TRUE
\* MergeState: one commit on top of main becomes main; all else is squashed.
FastForward(s) == Tip(s).parents = <<main>>

RootIsClean == root = commits[main].tree

Squash(s) == Merged(commits[Base(main, wt[s].branch)].tree, commits[main].tree, Tip(s).tree)
\* MergeCheckout::new: files the merge changes hold what the branch holds.
CanCheckout(s, tree) == \A f \in Files : tree[f] # Tip(s).tree[f] => wt[s].tree[f] = Tip(s).tree[f]
Checkout(s, tree) ==
  [f \in Files |-> IF tree[f] # Tip(s).tree[f] THEN tree[f] ELSE wt[s].tree[f]]

\* What stops a merge that is not yet in main.
Refused(s) ==
  \/ ~IsApproved(s)
  \/ /\ ~Integrated(wt[s].branch)
     /\ \/ ~RootIsClean
        \/ ~FastForward(s) /\ Conflicts(Squash(s)) = {} /\ ~CanCheckout(s, Squash(s))
CanMove(s) == ~Refused(s) /\ ~Integrated(wt[s].branch)
Conflicted(s) == CanMove(s) /\ ~FastForward(s) /\ Conflicts(Squash(s)) # {}

\* The refs and files after main moved to commit id.
Squashed(s, id) ==
  [wt[s] EXCEPT !.branch = id, !.tree = Checkout(s, Squash(s)),
                !.merges = {p \in @ : p[1] # actor[s].commit} \cup {<<actor[s].commit, id>>}]

MoveMain(s) ==
  /\ actor[s].pc = "checked" /\ CanMove(s) /\ ~Conflicted(s)
  /\ IF FastForward(s)
     THEN main' = wt[s].branch /\ root' = Tip(s).tree /\ UNCHANGED <<commits, wt>>
     ELSE /\ commits' = Append(commits, Commit(Squash(s), <<main>>))
          /\ main' = Len(commits') /\ root' = Squash(s)
          /\ wt' = [wt EXCEPT ![s] = Squashed(s, Len(commits'))]
  /\ Goto(s, "merged")
  /\ UNCHANGED <<store, pruner, edits, turns, faults, observed>>

\* The process ends while files are checked out, root first, or while the refs
\* are written one after the other.
MoveMainStops(s) ==
  /\ actor[s].pc = "checked" /\ CanMove(s) /\ ~Conflicted(s) /\ Fault
  /\ IF FastForward(s)
     THEN root' = Tip(s).tree /\ UNCHANGED <<commits, main, wt>>
     ELSE LET id == Len(commits) + 1
              after == Squashed(s, id) IN
          /\ commits' = Append(commits, Commit(Squash(s), <<main>>))
          /\ root' = Squash(s)
          /\ \/ UNCHANGED <<main, wt>>
             \/ \E branch \in {wt[s].branch, id}, merges \in {wt[s].merges, after.merges},
                   m \in {main, id} :
                  /\ wt' = [wt EXCEPT ![s].branch = branch, ![s].merges = merges,
                                      ![s].tree = after.tree]
                  /\ main' = m
  /\ actor' = [actor EXCEPT ![s] = Down]
  /\ UNCHANGED <<store, pruner, edits, turns, observed>>

AlreadyMerged(s) ==
  /\ actor[s].pc = "checked" /\ IsApproved(s) /\ Integrated(wt[s].branch)
  /\ Goto(s, "merged")
  /\ UNCHANGED <<repository, wt, store, pruner, edits, turns, faults, observed>>

MergeFails(s) ==
  /\ actor[s].pc = "checked" /\ Refused(s) /\ OfferAgain(s)
  /\ UNCHANGED <<repository, wt, pruner, edits, turns>>

\* resolve_merge: the conflict is recorded, then the worktree is prepared.
Conflict(s) ==
  /\ actor[s].pc = "checked" /\ Conflicted(s)
  /\ RecordMerge(s, Resolving(wt[s].branch, main, Conflicts(Squash(s))),
                 [Idle(s) EXCEPT !.pc = "preparing"])
  /\ UNCHANGED <<repository, wt, pruner, edits, turns, observed>>

\* prepare_resolution, which refuses a worktree that has changed.
Prepare(s) ==
  LET target == actor[s].approval.target
      ready == wt[s].branch = actor[s].approval.commit /\ Clean(s)
  IN /\ actor[s].pc = "preparing"
     /\ IF ready
        THEN wt' = [wt EXCEPT ![s].mergeHead = target,
               ![s].tree = Merged(commits[Base(target, wt[s].branch)].tree,
                                  Tip(s).tree, commits[target].tree)]
        ELSE UNCHANGED wt
     /\ actor' = [actor EXCEPT ![s].pc = "idle", ![s].queued = ready]
     /\ UNCHANGED <<repository, store, pruner, edits, turns, faults, observed>>

-----------------------------------------------------------------------------
(* Removal of a worktree.                                                  *)

Removed == [branch |-> 0, tree |-> NoTree, mergeHead |-> 0, merges |-> {}]
\* The directory goes first; then the refs, one after the other.
PartlyRemoved(s) ==
  {[Removed EXCEPT !.branch = b, !.merges = m] : b \in {0, wt[s].branch}, m \in {{}, wt[s].merges}}

\* SessionWorkspace::discard_unused after a first write that failed: Git removes
\* the worktree, then the records drop it and restore the source it began from.
DiscardUnused(s) ==
  LET rest == [actor[s] EXCEPT !.pc = "turn", !.source = None]
      dropped == [store EXCEPT ![s].worktree = FALSE, ![s].source = None]
  IN /\ actor[s].pc = "created" /\ Clean(s)
     /\ \/ /\ wt' = [wt EXCEPT ![s] = Removed]
           /\ store' = [store EXCEPT ![s].worktree = FALSE, ![s].source = actor[s].source]
           /\ actor' = [actor EXCEPT ![s] = rest]
           /\ regained' = IF actor[s].source = None THEN regained ELSE regained \cup {s}
           /\ UNCHANGED faults
        \/ \* the process stops, or Git fails and the turn goes on
           /\ Fault /\ \E w \in PartlyRemoved(s) : wt' = [wt EXCEPT ![s] = w]
           /\ \E act \in {Down, rest} : actor' = [actor EXCEPT ![s] = act]
           /\ UNCHANGED <<store, regained>>
        \/ \* the process stops, or its storage fails, between the records
           /\ Fault /\ wt' = [wt EXCEPT ![s] = Removed]
           /\ store' = dropped /\ actor' = [actor EXCEPT ![s] = Down]
           /\ UNCHANGED regained
     /\ UNCHANGED <<repository, pruner, edits, turns, consent>>

\* Variant: a worktree whose branch is in main is removed with its local changes.
RemovableDirty(s, approved) ==
  wt[s].branch = Recorded(s, approved) /\ Integrated(wt[s].branch) /\ wt[s].mergeHead = 0
\* SessionCleanup::new after a merge.
Removable(s, approved) ==
  wt[s].branch = Recorded(s, approved) /\ Integrated(wt[s].branch) /\ Clean(s)

Cleanup(s) ==
  /\ actor[s].pc = "merged"
  /\ IF ~actor[s].keep /\ Removable(s, actor[s].commit)
     THEN \/ /\ wt' = [wt EXCEPT ![s] = Removed] /\ Goto(s, "cleaned")
             /\ UNCHANGED <<store, faults, observed>>
          \/ \* the process stops, or Git fails and the merge is offered again
             /\ Fault
             /\ \E w \in PartlyRemoved(s) : wt' = [wt EXCEPT ![s] = w]
             /\ \/ actor' = [actor EXCEPT ![s] = Down] /\ UNCHANGED store
                \/ LET again == Awaiting(actor[s].commit) IN
                   /\ actor' = [actor EXCEPT ![s] = [Idle(s) EXCEPT !.approval = again]]
                   /\ store' = Records(s, again)[3]
             /\ Revoke(s)
     ELSE OfferAgain(s) /\ UNCHANGED wt
  /\ UNCHANGED <<repository, pruner, edits, turns>>

\* The worktree is cleared and the approval ends, in two records.
Finish(s) ==
  LET cleared == [store EXCEPT ![s].worktree = FALSE, ![s].source = None] IN
  /\ actor[s].pc = "cleaned"
  /\ \/ /\ store' = [cleared EXCEPT ![s].approval = NoApproval, ![s].asked = FALSE]
        /\ actor' = [actor EXCEPT ![s] = Idle(s)] /\ UNCHANGED faults
     \/ /\ Fault /\ store' = cleared
        /\ actor' = [actor EXCEPT ![s] = Down]
  /\ Revoke(s)
  /\ UNCHANGED <<repository, wt, pruner, edits, turns>>

\* SessionStore::prune_worktree looks for readers, claims the session, removes
\* the worktree and records that; an active session cannot be claimed.
PruneLooks(s, force) ==
  /\ pruner.pc = "none" /\ store[s].worktree /\ ~HasReaders(s) /\ More
  /\ pruner' = [pc |-> "looked", target |-> s, force |-> force]
  /\ UNCHANGED <<repository, wt, store, actor, edits, faults, observed>>
PruneClaims ==
  LET s == pruner.target IN
  /\ pruner.pc = "looked"
  /\ IF actor[s].pc = "down" /\ store[s].worktree
     THEN Goto(s, "pruning") /\ pruner' = [pruner EXCEPT !.pc = "claimed"]
     ELSE pruner' = [pruner EXCEPT !.pc = "none"] /\ UNCHANGED actor
  /\ UNCHANGED <<repository, wt, store, edits, turns, faults, observed>>
\* for_prune and finish_interrupted.
PruneMay(s) ==
  \/ pruner.force
  \/ wt[s].branch = 0
  \/ Integrated(wt[s].branch) /\ (Present(s) => Clean(s))
PruneRemoves ==
  LET s == pruner.target IN
  /\ pruner.pc = "claimed"
  /\ \/ /\ PruneMay(s) /\ wt' = [wt EXCEPT ![s] = Removed]
        /\ pruner' = [pruner EXCEPT !.pc = "removed"] /\ UNCHANGED <<actor, faults>>
     \/ /\ PruneMay(s) /\ Fault
        /\ \E w \in PartlyRemoved(s) : wt' = [wt EXCEPT ![s] = w]
        /\ pruner' = [pruner EXCEPT !.pc = "none"] /\ Goto(s, "down")
     \/ /\ ~PruneMay(s)
        /\ pruner' = [pruner EXCEPT !.pc = "none"] /\ Goto(s, "down")
        /\ UNCHANGED <<wt, faults>>
  /\ UNCHANGED <<repository, store, edits, turns, observed>>
PruneRecords ==
  LET s == pruner.target IN
  /\ pruner.pc = "removed"
  /\ \/ /\ store' = [store EXCEPT ![s] = [worktree |-> FALSE, source |-> None,
                                          approval |-> NoApproval, asked |-> FALSE]]
        /\ UNCHANGED faults
     \/ Fault /\ UNCHANGED store
  /\ pruner' = [pruner EXCEPT !.pc = "none"] /\ Goto(s, "down")
  /\ UNCHANGED <<repository, wt, edits, turns, observed>>

-----------------------------------------------------------------------------
Merging(s) ==
  \/ WorktreeCleanup(s) \/ Checkpoint(s) \/ MoveMain(s) \/ MoveMainStops(s)
  \/ AlreadyMerged(s) \/ MergeFails(s) \/ Conflict(s) \/ Prepare(s)
  \/ Cleanup(s) \/ Finish(s)
Working(s) ==
  \/ BeginTask(s) \/ ResolveMerge(s) \/ Interrupt(s) \/ EndTask(s) \/ CompleteTask(s)
  \/ FirstWrite(s) \/ DiscardUnused(s) \/ \E f \in Files : Edit(s, f)
  \/ Propose(s) \/ Offer(s) \/ OfferFails(s) \/ \E merge \in BOOLEAN : Answer(s, merge)
Living(s) ==
  \/ \E p \in Sessions : Fork(p, s)
  \/ Leave(s) \/ Resume(s)
User ==
  \/ \E s \in Sessions, f \in Files : UserEdits(s, f)
  \/ \E f \in Files : UserEditsRoot(f)
  \/ UserCommits \/ UserReverts
Pruning ==
  \/ \E s \in Sessions, force \in BOOLEAN : PruneLooks(s, force)
  \/ PruneClaims \/ PruneRemoves \/ PruneRecords

Next ==
  \/ \E s \in Sessions : Living(s) \/ Working(s) \/ Merging(s)
  \/ User \/ Pruning

Spec == Init /\ [][Next]_vars

-----------------------------------------------------------------------------
TypeOK ==
  /\ main \in DOMAIN commits
  /\ \A c \in DOMAIN commits : commits[c].tree \in [Files -> Int]
  /\ root \in [Files -> Nat]
  /\ \A s \in Sessions :
       /\ wt[s].branch \in 0..Len(commits)
       /\ Present(s) => wt[s].branch # 0 /\ wt[s].tree \in [Files -> Int]
       /\ store[s].source \in Sessions \cup {None}
       /\ ~store[s].approval.running

\* Main takes from a session only what the user said yes to: the versions of
\* the approved commit, and what was written while that approval's conflict was
\* resolved; never later edits, a paused resolution or conflict markers.
MainIsApproved ==
  [][\A s \in Sessions :
       actor[s].pc = "checked" /\ actor'[s] # actor[s] =>
         \A f \in Files : commits'[main'].tree[f] \in Versions(commits[main].tree) \cup consent[s]]_vars

\* A merge takes no file of main, or of the user's checkout of main, back to an
\* earlier version: concurrent sessions and the user lose no work.
MainKeepsItsWork ==
  [][\A s \in Sessions, f \in Files :
       actor[s].pc = "checked" /\ actor'[s] # actor[s] =>
         /\ commits'[main'].tree[f] # commits[main].tree[f] =>
              \A c \in Ancestors(main) : commits[c].tree[f] # commits'[main'].tree[f]
         /\ root[f] # commits[main].tree[f] => root'[f] = root[f]]_vars

\* A worktree goes only when its files are those of a commit that main descends
\* from, unless its removal was forced or nothing had been written in it.
NothingIsLost ==
  [][\A s \in Sessions :
       \/ ~(Present(s) /\ ~Present(s)')
       \/ actor[s].pc = "created"
       \/ actor[s].pc = "pruning" /\ pruner.force
       \/ \E c \in Ancestors(main) : commits[c].tree = wt[s].tree]_vars

\* A merge never removes the worktree that a fork still reads.  Excepted is a
\* fork that lost its source and regained it, when its first write failed, and a
\* fork of that one: the merge may have looked for readers in between.
ForksKeepTheirSource ==
  [][\A s, r \in Sessions :
       Present(s) /\ actor[s].pc = "merged" /\ store[r].source = s /\ r \notin regained
         => Present(s)']_vars

\* While a session rests, its merge question is pending exactly when an approval
\* awaits it, and what is stored is what the actor believes.
QuestionsMatch ==
  \A s \in Sessions : actor[s].pc = "idle" =>
    /\ store[s].asked <=> actor[s].approval.kind = "Awaiting"
    /\ store[s].approval = Paused(actor[s].approval)
=============================================================================
