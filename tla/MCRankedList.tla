----------------------------- MODULE MCRankedList -----------------------------
(* RankedList for TLC.                                                       *)
EXTENDS RankedList
=============================================================================
