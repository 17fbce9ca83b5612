---------------------------- MODULE MC_SessionMerge ----------------------------
(* Two sessions, the second a fork of the first or a session of its own,   *)
(* and two files that differ in nothing.                                   *)
EXTENDS SessionMerge, TLC
CONSTANTS s1, s2, f1, f2
Symmetry == Permutations(Files)
=============================================================================
