---------------------------- MODULE MCRefreshTokens ----------------------------
(* RefreshTokens for TLC.                                                       *)
EXTENDS RefreshTokens, Integers, TLC

\* Tokens, tabs and requests are interchangeable.
Symmetry == Permutations(Tokens) \cup Permutations(Tabs) \cup Permutations(Requests)

\* What follows the second token that is let go of is not explored, nor is what two tabs do
\* that log out at once.
Explored ==
  /\ Cardinality(dropped) <= 1
  /\ Cardinality({b \in Tabs : leaving[b] # "no"}) <= 1
=============================================================================
