------------------------ MODULE MC_SessionGenerations ------------------------
(* A conversation of two sessions and another of one; the processes are    *)
(* alike.                                                                  *)
EXTENDS SessionGenerations, TLC

CONSTANT root, worker, other
ThreeSessions == {root, worker, other}
OneWorker == [s \in ThreeSessions |-> IF s = worker THEN root ELSE NoOne]
Alike == Permutations(Procs)
=============================================================================
