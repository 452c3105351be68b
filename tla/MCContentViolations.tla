------------------------ MODULE MCContentViolations ------------------------
(* ContentViolations for TLC.                                              *)
EXTENDS ContentViolations, TLC

\* Requests are interchangeable.
Symmetry == Permutations(Requests)
=============================================================================
