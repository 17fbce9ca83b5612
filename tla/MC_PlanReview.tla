---------------------------- MODULE MC_PlanReview ----------------------------
(* Model values for TLC: two steps, one of which may need the other.       *)
EXTENDS PlanReview

Open == {"Pending", "InProgress"}
Two == {"look", "build"}
Kinds ==
  {[kind |-> "Investigation", needs |-> {}, text |-> 1],
   [kind |-> "Implementation", needs |-> {"look"}, text |-> 1]}

\* A third update, the first that may leave a step completed that an earlier
\* one completed, only in one session without faults.
LongPlansAlone ==
  memory'.planning.revision > 2 => faults' = 0 /\ Len(saved') = 1
=============================================================================
