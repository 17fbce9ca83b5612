---------------------------- MODULE MC_SessionLog ----------------------------
(* Two calls, of which one starts a process; the prompts are alike.        *)
EXTENDS SessionLog, TLC

CONSTANT call, starter
TwoCalls == {call, starter}
OneStarter == {starter}
Alike == Permutations(Prompts)
=============================================================================
