--------------------------- MODULE SharedWorkspace ---------------------------
(***************************************************************************)
(* What workspace-access promises to the tools of a session: tools look at *)
(* the workspace together or change it alone, and a revision that a tool   *)
(* has been told names one content.  ToolScheduler implements it.          *)
(***************************************************************************)
EXTENDS Naturals, FiniteSets

CONSTANT Tools

VARIABLES
  readers,   \* tools that look at the workspace
  editors,   \* the tool that has it for itself: one at most
  content,   \* number of edits made so far
  revision,  \* number told to tools that look
  dirty,     \* edited since the editor came
  told       \* pairs of a revision and the content it was told for

vars == <<readers, editors, content, revision, dirty, told>>

Init ==
  /\ readers = {} /\ editors = {}
  /\ content = 0 /\ revision = 0 /\ dirty = FALSE
  /\ told = {}

\* Readers share, and learn a revision.
StartReading(t) ==
  /\ editors = {} /\ t \notin readers
  /\ readers' = readers \cup {t}
  /\ told' = told \cup {<<revision, content>>}
  /\ UNCHANGED <<editors, content, revision, dirty>>

StopReading(t) ==
  /\ t \in readers
  /\ readers' = readers \ {t}
  /\ UNCHANGED <<editors, content, revision, dirty, told>>

\* An editor, or a tool that validates, comes alone; it may learn the revision.
StartEditing(t) ==
  /\ editors = {} /\ readers = {}
  /\ editors' = {t}
  /\ told' \in {told, told \cup {<<revision, content>>}}
  /\ UNCHANGED <<readers, content, revision, dirty>>

Edit(t) ==
  /\ t \in editors
  /\ content' = content + 1 /\ dirty' = TRUE
  /\ UNCHANGED <<readers, editors, revision, told>>

\* An edited workspace gets a new revision before anyone else sees it.
StopEditing(t) ==
  /\ t \in editors
  /\ editors' = {} /\ dirty' = FALSE
  /\ \/ revision' = revision + 1
     \/ ~dirty /\ UNCHANGED revision
  /\ UNCHANGED <<readers, content, told>>

\* An editor that is refused at once also takes a number.
Skip ==
  /\ editors = {} /\ readers = {}
  /\ revision' = revision + 1
  /\ UNCHANGED <<readers, editors, content, dirty, told>>

Next ==
  \/ \E t \in Tools : \/ StartReading(t) \/ StopReading(t)
                      \/ StartEditing(t) \/ Edit(t) \/ StopEditing(t)
  \/ Skip

Spec == Init /\ [][Next]_vars

TypeOK ==
  /\ readers \subseteq Tools /\ editors \subseteq Tools
  /\ content \in Nat /\ revision \in Nat /\ dirty \in BOOLEAN
  /\ told \subseteq Nat \X Nat

\* Nobody looks at a workspace that is being edited.
EditorsAreAlone == editors # {} => readers = {}

\* Two tools that were told the same revision saw the same content.
RevisionsNameContent == \A p, q \in told : p[1] = q[1] => p[2] = q[2]
=============================================================================
