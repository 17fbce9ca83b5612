-------------------------- MODULE SessionGenerations --------------------------
(***************************************************************************)
(* The database generations of a project's sessions                        *)
(* (session/src/generations.rs), shared by several processes.  A full      *)
(* database is rotated: the active conversations are copied to the next    *)
(* generation, the oldest of three is archived and removed.  Writers share *)
(* the lock of the directory; rotation and recovery hold it alone.         *)
(*                                                                         *)
(* Any step of a process may be its last.  How much a database holds is    *)
(* left open: a write may find it full at any time.                        *)
(***************************************************************************)
EXTENDS Integers, FiniteSetsExt, Functions

CONSTANTS
  Procs,          \* processes; one that exited never returns
  Sessions,       \* identifiers of sessions
  Parent,         \* the session that a worker's session belongs to, or NoOne
  NoOne,          \* no process, no session
  MaxGeneration,  \* bound: the last generation
  MaxOperations,  \* bound: operations
  MaxFaults       \* bound: crashes and failed rotations

ASSUME GenerationsAssumption ==
  /\ Parent \in [Sessions -> Sessions \cup {NoOne}]
  /\ NoOne \notin Procs \cup Sessions
  /\ MaxGeneration \in Nat /\ MaxOperations \in Nat /\ MaxFaults \in Nat

VARIABLES
  manifest,  \* generations.json: Ready or Retiring, and the current generation
  db,        \* contents of the generations that have a data.mdb
  archives,  \* contents of the archives that are published
  cached,    \* generation that the open catalog of a process calls current
  proc,      \* what each process does
  handles,   \* sessions that each process has open
  operations, \* operations so far
  faults      \* crashes and failed rotations so far

vars == <<manifest, db, archives, cached, proc, handles, operations, faults>>
disk == <<manifest, db, archives>>

Unopened == -1

-----------------------------------------------------------------------------
(* Sessions in a catalog.  A layout is named by its current generation:    *)
(* Layout::new admits no other old one than the one before.  A definition  *)
(* whose comment starts with "Variant" is a mistake that the definition    *)
(* after it avoids; no action uses it.                                     *)

Nothing == [version |-> 0, owner |-> NoOne]
Empty == [s \in Sessions |-> Nothing]
\* `files` with those of generation g.
With(files, g, contents) ==
  [h \in DOMAIN files \cup {g} |-> IF h = g THEN contents ELSE files[h]]

Searched(layout) == {layout} \cup (IF layout = 0 THEN {} ELSE {layout - 1})
\* Catalog::database: what current holds hides what old holds
Find(layout, s) ==
  IF db[layout][s] # Nothing \/ layout = 0 THEN db[layout][s] ELSE db[layout - 1][s]
Searchable(layout) == {s \in Sessions : Find(layout, s) # Nothing}

\* A session, its parent, its parent's parent...: the least set that holds the
\* session and, with each of its members, the parent.
HasParents(S) == \A s \in S : Parent[s] # NoOne => Parent[s] \in S
Ancestors == [s \in Sessions |->
  {a \in Sessions : \A S \in SUBSET Sessions : s \in S /\ HasParents(S) => a \in S}]
\* Conversation::new reads every session's parents, and fails on a missing one.
Readable(layout) == \A s \in Searchable(layout) : Ancestors[s] \subseteq Searchable(layout)
\* Variant: the sessions asked for, without the conversations they belong to.
FamilyAlone(layout, chosen) == chosen
Family(layout, chosen) ==
  {s \in Searchable(layout) : \E c \in chosen : Ancestors[s] \cap Ancestors[c] # {}}

-----------------------------------------------------------------------------
(* Processes and the lock of the directory.                                *)

Idle == [at |-> "idle", lock |-> "none", op |-> "none", id |-> NoOne,
         goal |-> "none", layout |-> Unopened, todo |-> {}]
Exited == [Idle EXCEPT !.at = "exited"]

At(p, at) == proc[p].at = at
Running(o) == o \in Procs /\ ~At(o, "exited")
Goes(p, at) == proc' = [proc EXCEPT ![p].at = at]
\* An operation ends, with its result or an error; the lock is dropped.
Returns(p) == proc' = [proc EXCEPT ![p] = Idle]

Fault == faults < MaxFaults /\ faults' = faults + 1

Unlocked == \A p \in Procs : proc[p].lock = "none"
Shareable == \A p \in Procs : proc[p].lock # "exclusive"

\* The session whose family an operation brings into the current database.
Requested(p) == IF proc[p].op = "create" THEN Parent[proc[p].id] ELSE proc[p].id
RequestedSet(p) == {Requested(p)} \ {NoOne}

\* the cached catalog is that of the manifest
Fresh(p) == manifest.state = "Ready" /\ cached[p] = manifest.current

-----------------------------------------------------------------------------
Init ==
  /\ manifest = [state |-> "Ready", current |-> 0]
  /\ db = [g \in {0} |-> Empty]
  /\ archives = <<>>
  /\ cached = [p \in Procs |-> 0]
  /\ proc = [p \in Procs |-> Idle]
  /\ handles = [p \in Procs |-> {}]
  /\ operations = 0
  /\ faults = 0

\* Operations that a process has a session, or a choice of sessions, for.
\* Identifiers are new: no session is created twice.
Eligible(p, op, s) ==
  CASE op = "create" -> /\ \A g \in DOMAIN db : db[g][s] = Nothing
                        /\ \A g \in DOMAIN archives : archives[g][s] = Nothing
                        /\ \A q \in Procs : ~(proc[q].op = "create" /\ proc[q].id = s)
                        /\ Parent[s] \in handles[p] \cup {NoOne}
    [] op = "claim"  -> Parent[s] = NoOne /\ s \notin handles[p]
    [] OTHER         -> s \in handles[p]

\* SessionStore::shared_access
Shares(p, request) ==
  /\ Shareable
  /\ proc' = [proc EXCEPT ![p] =
       IF Fresh(p) THEN [request EXCEPT !.at = "write", !.lock = "shared"]
       ELSE [request EXCEPT !.at = "wait", !.goal = "reload"]]
  /\ UNCHANGED <<disk, cached, handles, faults>>

\* SessionStore::update, for the operations of a session.
Begin(p, op, s) ==
  /\ At(p, "idle") /\ Eligible(p, op, s)
  /\ Shares(p, [Idle EXCEPT !.op = op, !.id = s])
  /\ operations < MaxOperations /\ operations' = operations + 1
\* The second attempt, once the catalog is open.
Again(p) == At(p, "again") /\ Shares(p, proc[p]) /\ UNCHANGED operations

-----------------------------------------------------------------------------
(* A write: migrate, then the caller's transaction.                        *)

\* Catalog::migrate, one transaction.  What current has is not overwritten.
Move(p) ==
  /\ At(p, "write")
  /\ LET layout == cached[p]
         old == RequestedSet(p) \ {s \in Sessions : db[layout][s] # Nothing}
     IN IF old \subseteq Searchable(layout) /\ (old # {} => Readable(layout))
        THEN /\ db' = [db EXCEPT ![layout] = [s \in Sessions |->
                         IF s \in Family(layout, old) /\ @[s] = Nothing
                         THEN Find(layout, s) ELSE @[s]]]
             /\ Goes(p, "moved")
        ELSE Returns(p) /\ UNCHANGED db
  /\ UNCHANGED <<manifest, archives, cached, handles, operations, faults>>

\* The caller's transaction on the current database: what it writes, and
\* whether the caller has the session afterwards.
Allowed(p, entry) ==
  CASE proc[p].op = "create" -> TRUE
    [] proc[p].op = "claim"  -> ~Running(entry.owner)
    [] OTHER                 -> entry.owner = p
Written(p, entry) ==
  CASE proc[p].op = "create"  -> [version |-> 1, owner |-> p]
    [] proc[p].op = "claim"   -> [entry EXCEPT !.owner = p]
    [] proc[p].op = "release" -> [entry EXCEPT !.owner = NoOne]
    [] OTHER                  -> [entry EXCEPT !.version = @ + 1]

Commit(p) ==
  /\ At(p, "moved")
  /\ LET s == proc[p].id
         entry == db[cached[p]][s]
     IN IF Allowed(p, entry)
        THEN /\ db' = [db EXCEPT ![cached[p]][s] = Written(p, entry)]
             /\ handles' = [handles EXCEPT ![p] =
                  IF proc[p].op = "release" THEN @ \ {s} ELSE @ \cup {s}]
        ELSE UNCHANGED <<db, handles>>
  /\ Returns(p)
  /\ UNCHANGED <<manifest, archives, cached, operations, faults>>

\* A transaction finds the database full and aborts.  A shared writer asks
\* for the lock and notes the layout; one that has rotated already fails.
MapFull(p) ==
  /\ proc[p].at \in {"write", "moved"}
  /\ proc[p].goal = "rotated" \/ cached[p] < MaxGeneration
  /\ CASE proc[p].goal = "rotated" -> Returns(p)
       [] proc[p].lock = "shared"  ->
            proc' = [proc EXCEPT ![p] = [@ EXCEPT !.at = "wait", !.lock = "none",
                                                  !.goal = "full", !.layout = cached[p]]]
       [] OTHER                    -> Goes(p, "rotate")
  /\ UNCHANGED <<disk, cached, handles, operations, faults>>

-----------------------------------------------------------------------------
(* Exclusive access, and the recovery of a retirement.                     *)

\* What follows once the catalog of an exclusive access is open: dropped, or
\* UpdateState::Rotate, or the write after StoreAccess::rotate.
Opened(request) ==
  CASE request.goal = "reload" -> [request EXCEPT !.at = "again", !.lock = "none", !.goal = "none"]
    [] request.goal = "full"   -> [request EXCEPT !.at = "locked", !.lock = "exclusive"]
    [] OTHER                   -> [request EXCEPT !.at = "write"]

\* SessionStore::access
Lock(p) ==
  /\ At(p, "wait") /\ Unlocked
  /\ IF Fresh(p)
     THEN proc' = [proc EXCEPT ![p] = Opened(@)] /\ UNCHANGED cached
     ELSE /\ proc' = [proc EXCEPT ![p] = [@ EXCEPT !.at = "open", !.lock = "exclusive"]]
          /\ cached' = [cached EXCEPT ![p] = Unopened]
  /\ UNCHANGED <<disk, handles, operations, faults>>

\* The generation that a manifest of this current one retires.
Retired(current) == current - 2

\* StoreAccess::reload
RemoveRetired(p) ==
  /\ At(p, "open") /\ manifest.state = "Retiring"
  /\ IF Retired(manifest.current) \in DOMAIN archives
     THEN /\ db' = Restrict(db, DOMAIN db \ {Retired(manifest.current)})
          /\ Goes(p, "removed")
     ELSE Returns(p) /\ UNCHANGED db
  /\ UNCHANGED <<manifest, archives, cached, handles, operations, faults>>
SaveReady(p) ==
  /\ At(p, "removed")
  /\ manifest' = [manifest EXCEPT !.state = "Ready"]
  /\ Goes(p, "open")
  /\ UNCHANGED <<db, archives, cached, handles, operations, faults>>
Open(p) ==
  /\ At(p, "open") /\ manifest.state = "Ready"
  /\ IF Searched(manifest.current) \subseteq DOMAIN db
     THEN /\ cached' = [cached EXCEPT ![p] = manifest.current]
          /\ proc' = [proc EXCEPT ![p] = Opened(@)]
     ELSE Returns(p) /\ UNCHANGED cached
  /\ UNCHANGED <<disk, handles, operations, faults>>

\* The tail of SessionStore::update: rotate if nobody has, or if still full.
Decide(p) ==
  /\ At(p, "locked")
  /\ \/ cached[p] < MaxGeneration /\ Goes(p, "rotate")
     \/ cached[p] # proc[p].layout /\ Goes(p, "write")
  /\ UNCHANGED <<disk, cached, handles, operations, faults>>

-----------------------------------------------------------------------------
(* Catalog::rotate.                                                        *)

\* Variant: a conversation moves when its next write asks for it.
ActiveOnDemand(layout) == {}
Active(layout) == {s \in Searchable(layout) : Running(Find(layout, s).owner)}

\* A rotation that was interrupted may have left a next database behind.
Prepare(p) ==
  /\ At(p, "rotate")
  /\ LET layout == cached[p]
         chosen == Active(layout) \cup RequestedSet(p)
     IN /\ db' = With(db, layout + 1, Empty)
        /\ IF chosen \subseteq Searchable(layout) /\ Readable(layout)
           THEN proc' = [proc EXCEPT ![p] = [@ EXCEPT !.at = "copy", !.todo = Family(layout, chosen)]]
           ELSE Returns(p)
  /\ UNCHANGED <<manifest, archives, cached, handles, operations, faults>>

\* One session, one transaction, in the order of the identifiers.
Copy(p) ==
  /\ At(p, "copy")
  /\ proc[p].todo # {}
  /\ LET s == CHOOSE s \in proc[p].todo : TRUE
     IN /\ db' = [db EXCEPT ![cached[p] + 1][s] = Find(cached[p], s)]
        /\ proc' = [proc EXCEPT ![p].todo = @ \ {s}]
  /\ UNCHANGED <<manifest, archives, cached, handles, operations, faults>>

\* The archive is verified and published under its name.
Archive(p) ==
  /\ At(p, "copy") /\ proc[p].todo = {} /\ cached[p] > 0
  /\ LET old == cached[p] - 1
     IN archives' = With(archives, old, db[old])
  /\ Goes(p, "archived")
  /\ UNCHANGED <<manifest, db, cached, handles, operations, faults>>

\* The manifest names the next generation; the catalog is dropped and opened
\* again by StoreAccess::reload.
Switch(p) ==
  /\ \/ At(p, "archived") /\ manifest' = [state |-> "Retiring", current |-> cached[p] + 1]
     \/ /\ At(p, "copy") /\ proc[p].todo = {} /\ cached[p] = 0
        /\ manifest' = [state |-> "Ready", current |-> 1]
  /\ cached' = [cached EXCEPT ![p] = Unopened]
  /\ proc' = [proc EXCEPT ![p] = [@ EXCEPT !.at = "open", !.goal = "rotated"]]
  /\ UNCHANGED <<db, archives, handles, operations, faults>>

\* A full destination, or a failing disk: the existing databases remain.
RotationFails(p) ==
  /\ proc[p].at \in {"copy", "archived", "open", "removed"} /\ Fault
  /\ Returns(p)
  /\ UNCHANGED <<disk, cached, handles, operations>>

Crash(p) ==
  /\ ~At(p, "exited") /\ Fault
  /\ proc' = [proc EXCEPT ![p] = Exited]
  /\ cached' = [cached EXCEPT ![p] = Unopened]
  /\ handles' = [handles EXCEPT ![p] = {}]
  /\ UNCHANGED <<disk, operations>>

Next ==
  \E p \in Procs :
    \/ \E op \in {"create", "claim", "record", "release"}, s \in Sessions : Begin(p, op, s)
    \/ Again(p) \/ Move(p) \/ Commit(p) \/ MapFull(p)
    \/ Lock(p) \/ RemoveRetired(p) \/ SaveReady(p) \/ Open(p) \/ Decide(p)
    \/ Prepare(p) \/ Copy(p) \/ Archive(p) \/ Switch(p)
    \/ RotationFails(p) \/ Crash(p)

Spec == Init /\ [][Next]_vars

-----------------------------------------------------------------------------
(* Properties.                                                             *)

\* Where a reader finds a session: as the code does, or in an archive.
Alive == {p \in Procs : Running(p)}
Present(s) ==
  /\ Searched(manifest.current) \subseteq DOMAIN db
  /\ Find(manifest.current, s) # Nothing
InArchives(s) == {g \in DOMAIN archives : archives[g][s] # Nothing}
Kept(s) ==
  IF Present(s) THEN Find(manifest.current, s)
  ELSE IF InArchives(s) # {} THEN archives[Max(InArchives(s))][s]
  ELSE Nothing
Unsearchable == {s \in Sessions : ~Present(s) /\ InArchives(s) # {}}

Durable == INSTANCE DurableSessions
  WITH alive <- Alive, saved <- [s \in Sessions |-> Kept(s)], archived <- Unsearchable

\* Whatever process writes, rotates, stops halfway or crashes, the session
\* store is one store of one version per session (Catalog::database,
\* Catalog::rotate and StoreAccess::reload): every write changes the last
\* version by its owner, no rotation or recovery changes or loses one, and
\* only whole inactive conversations become unsearchable.
StoreIsDurable == Durable!Spec

\* Conversations are never split: when one of a family's sessions is in the
\* current database all that exist are (Catalog::migrate, Catalog::rotate).
\* Otherwise the rest would be archived alone and Conversation::new fail on
\* every later migration and rotation.
FamiliesStayTogether ==
  \A s, t \in Sessions :
    /\ db[manifest.current][s] # Nothing
    /\ Ancestors[s] \cap Ancestors[t] # {}
    /\ Kept(t) # Nothing
    => db[manifest.current][t] # Nothing
=============================================================================
