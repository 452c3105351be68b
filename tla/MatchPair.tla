------------------------------ MODULE MatchPair -----------------------------
(***************************************************************************)
(* What match actions promise, request by request: each operation reads    *)
(* and changes the pair's rows in one step.                                *)
(***************************************************************************)
CONSTANT Users
VARIABLES action, mutual, unmatchedBy
rows == <<action, mutual, unmatchedBy>>

Edges == {e \in Users \X Users : e[1] # e[2]}
PairOf(e) == {e[1], e[2]}
Pairs == {PairOf(e) : e \in Edges}

Init ==
  /\ action = [e \in Edges |-> "none"]
  /\ mutual = [p \in Pairs |-> "none"]
  /\ unmatchedBy = [p \in Pairs |-> "nobody"]

\* The actor takes back the consent to the pair: an open conversation closes.
Withdraw(e) ==
  IF mutual[PairOf(e)] = "ACTIVE"
  THEN /\ mutual' = [mutual EXCEPT ![PairOf(e)] = "UNMATCHED"]
       /\ unmatchedBy' = [unmatchedBy EXCEPT ![PairOf(e)] = e[1]]
  ELSE UNCHANGED <<mutual, unmatchedBy>>

Like(e) ==
  /\ action[e] # "BLOCK"
  /\ action' = [action EXCEPT ![e] = "LIKE"]
  /\ IF action[<<e[2], e[1]>>] = "LIKE"
     THEN /\ mutual' = [mutual EXCEPT ![PairOf(e)] = "ACTIVE"]
          /\ unmatchedBy' = [unmatchedBy EXCEPT ![PairOf(e)] = "nobody"]
     ELSE UNCHANGED <<mutual, unmatchedBy>>

Reject(e, verb) ==
  /\ action[e] # "BLOCK"
  /\ action' = [action EXCEPT ![e] = verb]
  /\ Withdraw(e)

Undo(e) ==
  /\ action[e] \in {"LIKE", "PASS"}
  /\ action' = [action EXCEPT ![e] = "none"]
  /\ IF action[e] = "LIKE" THEN Withdraw(e) ELSE UNCHANGED <<mutual, unmatchedBy>>

Unmatch(e) ==
  /\ mutual[PairOf(e)] = "ACTIVE"
  /\ Withdraw(e)
  /\ UNCHANGED action

Next ==
  \E e \in Edges :
    \/ Like(e)
    \/ \E verb \in {"PASS", "BLOCK"} : Reject(e, verb)
    \/ Undo(e)
    \/ Unmatch(e)

Spec == Init /\ [][Next]_rows
=============================================================================
