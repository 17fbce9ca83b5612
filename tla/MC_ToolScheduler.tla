------------------------- MODULE MC_ToolScheduler -------------------------
(* What the root and its workers are asked to do: every case of waiting for*)
(* slots, for the lock, for the writer, for a process and for a worker.    *)
(* The steps of a workflow start a worker each: one of these has no tools  *)
(* to run.                                                                 *)
EXTENDS ToolScheduler

CONSTANT worker
Asked(r, w) == [e \in Executors |-> CASE e = Root -> r [] e = worker -> w
                                       [] OTHER -> <<>>]

BatchesThatMeet ==
  {Asked(<<"worker", "patch">>, <<"read">>),
   Asked(<<"start", "worker">>, <<"check">>),
   Asked(<<"start", "stop">>, <<"ask">>),
   Asked(<<"gather", "read">>, <<>>),
   Asked(<<"change">>, <<"fmt">>),
   Asked(<<"workflow">>, <<"patch">>),
   Asked(<<"validate">>, <<"check">>)}

\* Outside Git there is no worktree to make or to give back.
InitOfBatches == Init /\ inGit = (batch[Root] # <<"workflow">>)
SpecOfBatches == InitOfBatches /\ [][Next]_vars /\ Fairness
=============================================================================
