-------------------------------- MODULE MCPhotos --------------------------------
(* Photos for TLC.                                                             *)
EXTENDS Photos, TLC

\* Photos and processes are interchangeable.
Symmetry == Permutations(Photos) \cup Permutations(Actors)
=============================================================================
