---------------------------- MODULE DurableSessions ----------------------------
(***************************************************************************)
(* What the session store promises the processes of a project, whichever   *)
(* database files it keeps the sessions in: one saved version and one      *)
(* owner per session, changed by one transaction at a time.  Inactive      *)
(* conversations may be archived; nothing else ever leaves the store.      *)
(***************************************************************************)
EXTENDS Integers

CONSTANTS
  Procs,     \* processes
  Sessions,  \* identifiers of sessions
  Parent,    \* the session that a worker's session belongs to, or NoOne
  NoOne      \* no process, no session

VARIABLES
  alive,     \* processes that run
  saved,     \* version and owner of each session; version 0: not created
  archived   \* sessions that are not searchable any more

vars == <<alive, saved, archived>>

-----------------------------------------------------------------------------
(* Families: a session, its worker sessions, theirs...                     *)

\* A session, its parent, its parent's parent...: the least set that holds the
\* session and, with each of its members, the parent.
HasParents(S) == \A s \in S : Parent[s] # NoOne => Parent[s] \in S
Ancestors == [s \in Sessions |->
  {a \in Sessions : \A S \in SUBSET Sessions : s \in S /\ HasParents(S) => a \in S}]
Related(s, t) == Ancestors[s] \cap Ancestors[t] # {}

Exists(s) == saved[s].version > 0 /\ s \notin archived
Put(s, version, owner) ==
  /\ saved' = [saved EXCEPT ![s] = [version |-> version, owner |-> owner]]
  /\ UNCHANGED <<alive, archived>>

-----------------------------------------------------------------------------
Init ==
  /\ alive = Procs
  /\ saved = [s \in Sessions |-> [version |-> 0, owner |-> NoOne]]
  /\ archived = {}

Create(p, s) ==
  /\ saved[s].version = 0
  /\ Parent[s] = NoOne \/ Exists(Parent[s])
  /\ Put(s, 1, p)

\* Only a session whose owner is gone can be resumed, by its root.
Claim(p, s) ==
  /\ Exists(s) /\ Parent[s] = NoOne
  /\ saved[s].owner \notin alive
  /\ Put(s, saved[s].version, p)

Record(p, s) ==
  /\ Exists(s) /\ saved[s].owner = p
  /\ Put(s, saved[s].version + 1, p)

Release(p, s) ==
  /\ Exists(s) /\ saved[s].owner = p
  /\ Put(s, saved[s].version, NoOne)

Exit(p) ==
  /\ p \in alive
  /\ alive' = alive \ {p}
  /\ UNCHANGED <<saved, archived>>

\* Whole families leave together, and none that a running process owns.
Retire(gone) ==
  /\ gone # {} /\ archived' = archived \cup gone
  /\ \A s \in gone : Exists(s) /\ saved[s].owner \notin alive
  /\ \A s \in gone, t \in Sessions : Related(s, t) /\ Exists(t) => t \in gone
  /\ UNCHANGED <<alive, saved>>

Next ==
  \/ \E p \in Procs : Exit(p)
  \/ \E s \in Sessions :
       /\ saved'[s] # saved[s]
       /\ \E p \in alive : Create(p, s) \/ Claim(p, s) \/ Record(p, s) \/ Release(p, s)
  \/ archived' # archived /\ \E gone \in SUBSET Sessions : Retire(gone)

Spec == Init /\ [][Next]_vars
=============================================================================
