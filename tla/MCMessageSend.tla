--------------------------- MODULE MCMessageSend ---------------------------
(* Instances of MessageSend for TLC.                                       *)
EXTENDS MessageSend, TLC

TwoTexts == {"hello", "rude"}
RudeText == {"rude"}

\* Requests are interchangeable.
RequestSymmetry == Permutations(Requests)
=============================================================================
