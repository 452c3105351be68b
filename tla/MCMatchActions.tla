--------------------------- MODULE MCMatchActions ---------------------------
(* Instances of MatchActions for TLC.                                      *)
EXTENDS MatchActions
=============================================================================
