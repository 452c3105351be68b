-------------------------- MODULE MCProfileAnalysis --------------------------
(* ProfileAnalysis for TLC.                                                  *)
EXTENDS ProfileAnalysis
=============================================================================
