--------------------------- MODULE MC_ChangeJournal ---------------------------
(* One file of the inventory and one outside it.                           *)
EXTENDS ChangeJournal
=============================================================================
