--------------------------- MODULE MC_TurnMachine ---------------------------
(* Model values for TLC: the kinds of turn that the inputs of a run have,  *)
(* and the constraints of the run `agents'.                                *)
EXTENDS TurnMachine

PromptsAndTools == {"Provider", "Tool"}
Prompts         == {"Provider"}

-----------------------------------------------------------------------------
(* A process is the session of a user or of one worker: its machine has    *)
(* turns of inputs or turns of RunWorker requests, not both.  The first    *)
(* batch of an input's turn may have more than one job.                    *)

OneRole ==
  /\ Len(status') > Len(status) /\ replies' = replies => replies = <<>>
  /\ Len(replies') > Len(replies) => replies # <<>> \/ status = <<>>

SmallBatches ==
  replies # <<>> \/ turn'.op > 2 => Len(batch'.entries) <= 1

\* Storage fails under a worker; under a user it does in the other runs.
WorkersLoseStorage == persistence' # persistence => replies # <<>>
=============================================================================
