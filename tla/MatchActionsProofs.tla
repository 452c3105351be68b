------------------------- MODULE MatchActionsProofs -------------------------
(* What holds of MatchActions for every set of users and requests.         *)
EXTENDS MatchActions, TLAPS

\* The steps only a request that reads or writes its MatchAction row takes.
ActionSteps == {"readOwn", "upsert", "delete"} \cup TxSteps

\* A request in flight is about a pair of users, and a conversation unmatch
\* never takes a step of the other four operations.
Addressed ==
  \A r \in Requests : InFlight(r) =>
    /\ edge[r] \in Edges
    /\ pc[r] \in ActionSteps => op[r] # "UNMATCH"

LEMMA EdgeFacts == \A e \in Edges : /\ e[1] \in Users /\ e[2] \in Users
                                    /\ PairOf(e) \in Pairs
                                    /\ PairOf(e) \subseteq Users
                                    /\ Reverse(e) \in Edges
  BY DEF Edges, PairOf, Pairs, Reverse

LEMMA SameValue ==
  ASSUME NEW D, NEW R, NEW f \in [D -> R], NEW x \in D, NEW v, f[x] = v
  PROVE  f = [f EXCEPT ![x] = v]
  OBVIOUS

LEMMA ActiveAgain ==
  ASSUME TypeOK, NEW p \in Pairs, UNCHANGED <<mutual, unmatchedBy>>,
         mutual[p] = "ACTIVE", unmatchedBy[p] = "nobody"
  PROVE  /\ mutual' = [mutual EXCEPT ![p] = "ACTIVE"]
         /\ unmatchedBy' = [unmatchedBy EXCEPT ![p] = "nobody"]
  BY SameValue DEF TypeOK

LEMMA PairFacts == \A e, f \in Edges : PairOf(e) = PairOf(f) => f = e \/ f = Reverse(e)
  BY DEF Edges, PairOf, Reverse

LEMMA PromiseNames == /\ Promise!Edges = Edges
                      /\ Promise!Pairs = Pairs
                      /\ \A e : Promise!PairOf(e) = PairOf(e)
  BY DEF Promise!Edges, Promise!Pairs, Promise!PairOf, Edges, Pairs, PairOf

LEMMA Typing == Spec => [](TypeOK /\ Addressed)
<1>1. Init => TypeOK /\ Addressed
  BY DEF Init, NoEdge, TypeOK, Addressed, InFlight, Steps, Verbs
<1>2. TypeOK /\ Addressed /\ [Next]_vars => TypeOK' /\ Addressed'
  <2> SUFFICES ASSUME TypeOK, Addressed, [Next]_vars
               PROVE  TypeOK' /\ Addressed'
    OBVIOUS
  <2> USE DEF TypeOK, Addressed, InFlight, ActionSteps, Steps, PreTx, TxSteps, PostTx, Verbs, rows, lists
  <2>1. ASSUME NEW r \in Requests, NEW e \in Edges, NEW o \in Verbs \cup {"UNDO", "UNMATCH"},
               Begin(r, e, o)
        PROVE  TypeOK' /\ Addressed'
    BY <2>1 DEF Begin, Goto
  <2>2. ASSUME NEW r \in Requests, Finish(r), UNCHANGED rows,
               stale' \in SUBSET Users, unannounced' \in SUBSET Pairs
        PROVE  TypeOK' /\ Addressed'
    BY <2>2 DEF Finish, Goto
  <2>3. ASSUME NEW r \in Requests, InFlight(r), NEW step \in Steps, Proceed(r, step),
               step \in ActionSteps => op[r] # "UNMATCH",
               UNCHANGED rows, stale' \in SUBSET Users, unannounced' \in SUBSET Pairs
        PROVE  TypeOK' /\ Addressed'
    BY <2>3 DEF Proceed, Goto
  <2>4. ASSUME NEW r \in Requests, InFlight(r), op[r] # "UNMATCH",
               NEW w \in {"CREATE", "REACTIVATE", "UNMATCH"},
               WriteMutual(r, w), UNCHANGED <<rows, lists>>
        PROVE  TypeOK' /\ Addressed'
    BY <2>4 DEF WriteMutual, Goto
  <2>5. ASSUME NEW r \in Requests, CheckVisible(r)
        PROVE  TypeOK' /\ Addressed'
    BY <2>5, <2>2, <2>3 DEF CheckVisible
  <2>6. ASSUME NEW r \in Requests, CheckActive(r)
        PROVE  TypeOK' /\ Addressed'
    BY <2>6, <2>2, <2>3 DEF CheckActive
  <2>7. ASSUME NEW r \in Requests, ReadOwn(r)
        PROVE  TypeOK' /\ Addressed'
    <3>1. CASE Finish(r)
      BY <2>7, <2>2, <3>1 DEF ReadOwn
    <3>2. CASE ~Finish(r)
      BY <2>7, <3>2 DEF ReadOwn, Goto
    <3> QED BY <3>1, <3>2
  <2>8. ASSUME NEW r \in Requests, Upsert(r)
        PROVE  TypeOK' /\ Addressed'
    BY <2>8, <2>3 DEF Upsert
  <2>9. ASSUME NEW r \in Requests, DeleteRow(r)
        PROVE  TypeOK' /\ Addressed'
    BY <2>9, <2>2, <2>3 DEF DeleteRow
  <2>10. ASSUME NEW r \in Requests, ReadReverse(r)
         PROVE  TypeOK' /\ Addressed'
    BY <2>10, <2>3 DEF ReadReverse
  <2>11. ASSUME NEW r \in Requests, LookupMutual(r)
         PROVE  TypeOK' /\ Addressed'
    <3>1. mutual[Pair(r)] \in {"none", "ACTIVE", "UNMATCHED"}
      BY <2>11, EdgeFacts DEF LookupMutual, Pair
    <3> QED BY <2>11, <2>3, <3>1 DEF LookupMutual
  <2>12. ASSUME NEW r \in Requests, CreateMutual(r)
         PROVE  TypeOK' /\ Addressed'
    BY <2>12, <2>2, <2>4 DEF CreateMutual
  <2>13. ASSUME NEW r \in Requests, Reactivate(r)
         PROVE  TypeOK' /\ Addressed'
    BY <2>13, <2>4 DEF Reactivate
  <2>14. ASSUME NEW r \in Requests, Unpair(r)
         PROVE  TypeOK' /\ Addressed'
    BY <2>14, <2>3, <2>4 DEF Unpair
  <2>15. ASSUME NEW r \in Requests, Commit(r)
         PROVE  TypeOK' /\ Addressed'
    <3>1. edge[r] \in Edges /\ Pair(r) \in Pairs /\ Pair(r) \subseteq Users /\ edge[r][1] \in Users
      BY <2>15, EdgeFacts DEF Commit, Pair
    <3>2. mutual' \in [Pairs -> {"none", "ACTIVE", "UNMATCHED"}]
          /\ unmatchedBy' \in [Pairs -> Users \cup {Nobody}]
      BY <2>15, <3>1 DEF Commit, SetMutual
    <3>3. stale' \in SUBSET Users /\ unannounced' \in SUBSET Pairs
      BY <2>15, <3>1 DEF Commit
    <3>4. action' \in [Edges -> Verbs \cup {"none"}]
      BY <2>15, <3>1 DEF Commit, RowAfter
    <3> QED BY <2>15, <3>2, <3>3, <3>4 DEF Commit, Goto
  <2>16. ASSUME NEW r \in Requests, MarkUnmatched(r)
         PROVE  TypeOK' /\ Addressed'
    <3>1. edge[r] \in Edges /\ Pair(r) \in Pairs /\ Pair(r) \subseteq Users /\ edge[r][1] \in Users
      BY <2>16, EdgeFacts DEF MarkUnmatched, Pair
    <3> QED BY <2>16, <3>1 DEF MarkUnmatched, Goto
  <2>17. ASSUME NEW r \in Requests, Announce(r)
         PROVE  TypeOK' /\ Addressed'
    BY <2>17, <2>3 DEF Announce
  <2>18. ASSUME NEW r \in Requests, RefreshActor(r)
         PROVE  TypeOK' /\ Addressed'
    BY <2>18, <2>2, <2>3 DEF RefreshActor
  <2>19. ASSUME NEW r \in Requests, RefreshOther(r)
         PROVE  TypeOK' /\ Addressed'
    BY <2>19, <2>2 DEF RefreshOther
  <2>20. ASSUME NEW r \in Requests, Abort(r)
         PROVE  TypeOK' /\ Addressed'
    BY <2>20, <2>2 DEF Abort
  <2>21. CASE UNCHANGED vars
    BY <2>21 DEF vars
  <2>22. QED
    BY <2>1, <2>5, <2>6, <2>7, <2>8, <2>9, <2>10, <2>11, <2>12, <2>13, <2>14, <2>15,
       <2>16, <2>17, <2>18, <2>19, <2>20, <2>21 DEF Next, Step
<1>3. QED
  BY <1>1, <1>2, PTL DEF Spec

\* Every variable keeps its type, whatever the requests, users and admission.
THEOREM TypeCorrect == Spec => []TypeOK
  BY Typing, PTL

\* No two actions of one user on one candidate overlap, and the actor of a
\* request that is past its visibility check has not blocked the candidate.
BlockInv ==
  /\ \A r, s \in Requests :
       /\ r # s
       /\ InFlight(r) /\ InFlight(s)
       /\ "UNMATCH" \notin {op[r], op[s]}
       => edge[r] # edge[s]
  /\ \A r \in Requests : pc[r] \in ActionSteps => action[edge[r]] # "BLOCK"

\* When a user has one action on a candidate running at a time, no
\* interleaving with the other side's requests, no abort and no later request
\* overwrites or deletes a BLOCK.
THEOREM BlockCannotBeUndone == ASSUME Admission # "any" PROVE Spec => BlockIsFinal
<1>1. Init => BlockInv
  BY DEF Init, BlockInv, InFlight, ActionSteps, TxSteps
<1>2. TypeOK /\ Addressed /\ BlockInv /\ [Next]_vars => BlockInv'
  <2> SUFFICES ASSUME TypeOK, Addressed, BlockInv, [Next]_vars
               PROVE  BlockInv'
    OBVIOUS
  <2> USE DEF TypeOK, InFlight, ActionSteps, TxSteps, rows, lists
  <2>1. ASSUME NEW r \in Requests, NEW e \in Edges, NEW o \in Verbs \cup {"UNDO", "UNMATCH"},
               Begin(r, e, o)
        PROVE  BlockInv'
    <3>1. \A s \in Requests : s # r /\ InFlight(s) /\ "UNMATCH" \notin {o, op[s]} => edge[s] # e
      BY <2>1, AdmissionAssumption DEF Begin, Admit, Pair
    <3> QED BY <2>1, <3>1 DEF Begin, Goto, BlockInv
  <2>2. ASSUME NEW r \in Requests, Finish(r), UNCHANGED action
        PROVE  BlockInv'
    BY <2>2 DEF Finish, Goto, BlockInv
  <2>3. ASSUME NEW r \in Requests, InFlight(r), NEW step \in Steps, Goto(r, step),
               UNCHANGED <<action, edge, op>>,
               step \in ActionSteps => action[edge[r]] # "BLOCK"
        PROVE  BlockInv'
    BY <2>3 DEF Goto, BlockInv
  <2>4. ASSUME NEW r \in Requests, Commit(r)
        PROVE  BlockInv'
    BY <2>4 DEF Commit, Goto, BlockInv, Addressed
  <2>5. ASSUME NEW r \in Requests, CheckVisible(r) \/ CheckActive(r)
        PROVE  BlockInv'
    BY <2>5, <2>2, <2>3 DEF CheckVisible, CheckActive, Proceed, Steps, PreTx
  <2>6. ASSUME NEW r \in Requests, ReadOwn(r) \/ Upsert(r) \/ DeleteRow(r)
        PROVE  BlockInv'
    BY <2>6, <2>2, <2>3 DEF ReadOwn, Upsert, DeleteRow, Proceed, Steps, PreTx, BlockInv
  <2>7. ASSUME NEW r \in Requests, ReadReverse(r) \/ LookupMutual(r)
        PROVE  BlockInv'
    <3>1. mutual[Pair(r)] \in {"none", "ACTIVE", "UNMATCHED"}
      BY <2>7, EdgeFacts DEF ReadReverse, LookupMutual, Pair, Addressed
    <3> QED BY <2>7, <3>1, <2>3 DEF ReadReverse, LookupMutual, Proceed, Steps, BlockInv
  <2>8. ASSUME NEW r \in Requests, CreateMutual(r) \/ Reactivate(r) \/ Unpair(r)
        PROVE  BlockInv'
    BY <2>8, <2>2, <2>3 DEF CreateMutual, Reactivate, Unpair, WriteMutual, Proceed, Steps, BlockInv
  <2>9. ASSUME NEW r \in Requests,
               MarkUnmatched(r) \/ Announce(r) \/ RefreshActor(r) \/ RefreshOther(r) \/ Abort(r)
        PROVE  BlockInv'
    BY <2>9, <2>2, <2>3
    DEF MarkUnmatched, Announce, RefreshActor, RefreshOther, Abort, Proceed, Steps, PostTx
  <2>10. CASE UNCHANGED vars
    BY <2>10 DEF vars, BlockInv
  <2>11. QED
    BY <2>1, <2>4, <2>5, <2>6, <2>7, <2>8, <2>9, <2>10 DEF Next, Step
<1>3. TypeOK /\ Addressed /\ BlockInv /\ [Next]_vars
      => [\A e \in Edges : action[e] = "BLOCK" => action'[e] = "BLOCK"]_vars
  <2> SUFFICES ASSUME TypeOK, Addressed, BlockInv, [Next]_vars
               PROVE  \A e \in Edges : action[e] = "BLOCK" => action'[e] = "BLOCK"
    OBVIOUS
  <2>1. ASSUME NEW r \in Requests, Commit(r)
        PROVE  \A e \in Edges : action[e] = "BLOCK" => action'[e] = "BLOCK"
    BY <2>1 DEF Commit, BlockInv, TypeOK, ActionSteps, TxSteps
  <2>2. CASE UNCHANGED action
    BY <2>2
  <2>3. QED
    BY <2>1, <2>2 DEF Next, Step, vars, rows, Begin, CheckVisible, CheckActive, ReadOwn, Upsert,
       DeleteRow, ReadReverse, LookupMutual, CreateMutual, Reactivate, Unpair, MarkUnmatched,
       Announce, RefreshActor, RefreshOther, Abort
<1>4. QED
  BY <1>1, <1>2, <1>3, Typing, PTL DEF Spec, BlockIsFinal

----------------------------------------------------------------------------
\* The discipline of the MutualMatch row, whatever overlaps: one transaction
\* at a time has written it, an insert still faces an absent row, and only a
\* LIKE gets to write ACTIVE.
MutualInv ==
  /\ \A r \in Requests : pc[r] \notin {"commit"} \cup PostTx => write[r] = "none"
  /\ \A r, s \in Requests :
       /\ pc[r] = "commit" /\ write[r] # "none"
       /\ pc[s] = "commit" /\ write[s] # "none"
       /\ Pair(r) = Pair(s)
       => r = s
  /\ InsertIsFirst
  /\ \A r \in Requests : pc[r] \in {"reverse", "lookup", "create", "reactivate"} => op[r] = "LIKE"
  /\ \A r \in Requests : pc[r] = "commit" /\ Created(r) => op[r] = "LIKE"
  /\ BlameFollowsStatus

LEMMA MutualInvariance == Spec => []MutualInv
<1>1. Init => MutualInv
  BY DEF Init, MutualInv, InsertIsFirst, Created, BlameFollowsStatus, PostTx
<1>2. TypeOK /\ Addressed /\ MutualInv /\ [Next]_vars => MutualInv'
  <2> SUFFICES ASSUME TypeOK, Addressed, MutualInv, [Next]_vars
               PROVE  MutualInv'
    OBVIOUS
  <2> USE DEF TypeOK, InFlight, InsertIsFirst, Created, PostTx, Pair, rows, lists
  <2>1. ASSUME NEW r \in Requests, NEW e \in Edges, NEW o \in Verbs \cup {"UNDO", "UNMATCH"},
               Begin(r, e, o)
        PROVE  MutualInv'
    BY <2>1 DEF Begin, Goto, MutualInv, BlameFollowsStatus
  <2>2. ASSUME NEW r \in Requests, Finish(r), UNCHANGED rows
        PROVE  MutualInv'
    BY <2>2 DEF Finish, Goto, MutualInv, BlameFollowsStatus
  <2>3. ASSUME NEW r \in Requests, NEW step \in Steps, Proceed(r, step), UNCHANGED rows,
               step \in {"reverse", "lookup", "create", "reactivate"} => op[r] = "LIKE",
               IF step \in PostTx THEN TRUE ELSE write[r] = "none"
        PROVE  MutualInv'
    BY <2>3 DEF Proceed, Goto, MutualInv, BlameFollowsStatus
  <2>4. ASSUME NEW r \in Requests, NEW w \in {"CREATE", "REACTIVATE", "UNMATCH"},
               pc[r] \in {"create", "reactivate", "unpair"},
               w # "UNMATCH" => op[r] = "LIKE",
               w = "CREATE" => mutual[Pair(r)] = "none",
               WriteMutual(r, w), UNCHANGED rows
        PROVE  MutualInv'
    <3>1. \A s \in Requests : pc[s] = "commit" /\ write[s] # "none" => Pair(s) # Pair(r)
      BY <2>4 DEF WriteMutual, MutualFree, HoldsMutual, TxSteps
    <3> QED BY <2>4, <3>1 DEF WriteMutual, Goto, MutualInv, BlameFollowsStatus
  <2>5. ASSUME NEW r \in Requests, Commit(r)
        PROVE  MutualInv'
    <3>1. edge[r] \in Edges /\ Pair(r) \in Pairs /\ edge[r][1] \in Pair(r)
      BY <2>5, EdgeFacts DEF Commit, Addressed, PairOf
    <3>2. BlameFollowsStatus'
      BY <2>5, <3>1 DEF Commit, SetMutual, MutualInv, BlameFollowsStatus
    <3>3. \A p \in Pairs : p # Pair(r) \/ write[r] = "none" => mutual'[p] = mutual[p]
      BY <2>5, <3>1 DEF Commit, SetMutual
    <3>4. InsertIsFirst'
      <4> SUFFICES ASSUME NEW s \in Requests, pc'[s] = "commit", write'[s] = "CREATE"
                   PROVE  mutual'[Pair(s)'] = "none"
        OBVIOUS
      <4>1. s # r /\ pc[s] = "commit" /\ write[s] = "CREATE" /\ edge'[s] = edge[s]
        BY <2>5 DEF Commit, Goto
      <4>2. Pair(s) \in Pairs
        BY <4>1, EdgeFacts DEF Addressed
      <4>3. Pair(s) # Pair(r) \/ write[r] = "none"
        BY <2>5, <4>1 DEF Commit, MutualInv
      <4> QED BY <3>3, <4>1, <4>2, <4>3 DEF MutualInv
    <3> QED BY <2>5, <3>2, <3>4 DEF Commit, Goto, MutualInv
  <2>6. ASSUME NEW r \in Requests, MarkUnmatched(r)
        PROVE  MutualInv'
    <3>1. edge[r] \in Edges /\ Pair(r) \in Pairs /\ edge[r][1] \in Pair(r)
      BY <2>6, EdgeFacts DEF MarkUnmatched, Addressed, PairOf
    <3>2. \A s \in Requests : pc[s] = "commit" /\ write[s] # "none" => Pair(s) # Pair(r)
      BY <2>6 DEF MarkUnmatched, MutualFree, HoldsMutual, TxSteps
    <3>3. BlameFollowsStatus'
      BY <2>6, <3>1 DEF MarkUnmatched, MutualInv, BlameFollowsStatus
    <3>4. InsertIsFirst'
      BY <2>6, <3>2, EdgeFacts DEF MarkUnmatched, Goto, MutualInv, Addressed
    <3> QED BY <2>6, <3>3, <3>4 DEF MarkUnmatched, Goto, MutualInv
  <2>7. ASSUME NEW r \in Requests, CheckVisible(r) \/ CheckActive(r) \/ ReadOwn(r)
        PROVE  MutualInv'
    <3>1. CASE ReadOwn(r) /\ ~Finish(r)
      BY <3>1 DEF ReadOwn, Goto, MutualInv, BlameFollowsStatus
    <3> QED BY <2>7, <3>1, <2>2, <2>3 DEF CheckVisible, CheckActive, ReadOwn, Steps, PreTx, MutualInv
  <2>8. ASSUME NEW r \in Requests, Upsert(r) \/ DeleteRow(r) \/ ReadReverse(r) \/ LookupMutual(r)
        PROVE  MutualInv'
    <3>1. mutual[Pair(r)] \in {"none", "ACTIVE", "UNMATCHED"}
      BY <2>8, EdgeFacts DEF Upsert, DeleteRow, ReadReverse, LookupMutual, Addressed
    <3> QED BY <2>8, <3>1, <2>2, <2>3
            DEF Upsert, DeleteRow, ReadReverse, LookupMutual, Steps, TxSteps, MutualInv
  <2>9. ASSUME NEW r \in Requests, CreateMutual(r) \/ Reactivate(r) \/ Unpair(r)
        PROVE  MutualInv'
    BY <2>9, <2>2, <2>3, <2>4 DEF CreateMutual, Reactivate, Unpair, Steps, TxSteps, MutualInv
  <2>10. ASSUME NEW r \in Requests,
                Announce(r) \/ RefreshActor(r) \/ RefreshOther(r) \/ Abort(r)
         PROVE  MutualInv'
    BY <2>10, <2>2, <2>3 DEF Announce, RefreshActor, RefreshOther, Abort, Steps
  <2>11. CASE UNCHANGED vars
    BY <2>11 DEF vars, MutualInv, BlameFollowsStatus
  <2>12. QED
    BY <2>1, <2>5, <2>6, <2>7, <2>8, <2>9, <2>10, <2>11 DEF Next, Step
<1>3. QED
  BY <1>1, <1>2, Typing, PTL DEF Spec

\* However many requests detect the same first match at once, the one that
\* inserts the conversation finds no row: the others abort on the unique key.
THEOREM OneFirstMatch == Spec => []InsertIsFirst
<1>1. MutualInv => InsertIsFirst
  BY DEF MutualInv
<1>2. QED
  BY <1>1, MutualInvariance, PTL

\* unmatchedByUserId and status agree under every interleaving of commits.
THEOREM BlameAgrees == Spec => []BlameFollowsStatus
<1>1. MutualInv => BlameFollowsStatus
  BY DEF MutualInv
<1>2. QED
  BY <1>1, MutualInvariance, PTL

\* PASS, BLOCK, undo and unmatch never open or reopen a conversation.
THEOREM ActivationByLike == Spec => ActivationStoresLike
<1> DEFINE Stores(p) == mutual[p] # "ACTIVE" /\ mutual'[p] = "ACTIVE" =>
                          \E e \in Edges : PairOf(e) = p /\ action'[e] = "LIKE"
<1>1. TypeOK /\ Addressed /\ MutualInv /\ [Next]_vars => [\A p \in Pairs : Stores(p)]_vars
  <2> SUFFICES ASSUME TypeOK, Addressed, MutualInv, Next, NEW p \in Pairs
               PROVE  Stores(p)
    BY DEF vars
  <2>1. ASSUME NEW r \in Requests, Commit(r)
        PROVE  Stores(p)
    <3>1. edge[r] \in Edges /\ Pair(r) \in Pairs
      BY <2>1, EdgeFacts DEF Commit, Addressed, InFlight, Pair
    <3>2. CASE p = Pair(r) /\ Created(r)
      <4>1. action'[edge[r]] = "LIKE"
        BY <2>1, <3>1, <3>2 DEF Commit, RowAfter, MutualInv, TypeOK
      <4> QED BY <3>1, <3>2, <4>1 DEF Pair
    <3>3. CASE p # Pair(r) \/ ~Created(r)
      BY <2>1, <3>1, <3>3 DEF Commit, SetMutual, Created, TypeOK
    <3> QED BY <3>2, <3>3
  <2>2. ASSUME NEW r \in Requests, MarkUnmatched(r)
        PROVE  Stores(p)
    BY <2>2 DEF MarkUnmatched, TypeOK
  <2>3. CASE UNCHANGED mutual
    BY <2>3
  <2>4. QED
    BY <2>1, <2>2, <2>3 DEF Next, Step, rows, Begin, CheckVisible, CheckActive, ReadOwn, Upsert,
       DeleteRow, ReadReverse, LookupMutual, CreateMutual, Reactivate, Unpair,
       Announce, RefreshActor, RefreshOther, Abort
<1>2. QED
  BY <1>1, Typing, MutualInvariance, PTL DEF Spec, ActivationStoresLike

----------------------------------------------------------------------------
(* Requests that do not overlap on a pair implement MatchPair.             *)

\* What a request has read is still so when it acts on it, and its pending
\* write is the one its operation calls for.
SerialStep(r) ==
  LET own   == action[edge[r]]
      other == action[Reverse(edge[r])]
      pair  == mutual[Pair(r)]
      withdraws == op[r] \in {"PASS", "BLOCK"} \/ (op[r] = "UNDO" /\ seen[r] = "LIKE")
  IN
  /\ pc[r] \in ActionSteps => own # "BLOCK"
  /\ pc[r] = "readOwn" => op[r] = "UNDO"
  /\ pc[r] \in {"upsert"} => op[r] \in Verbs
  /\ pc[r] = "delete" => op[r] = "UNDO"
  /\ pc[r] \in {"delete", "unpair", "commit"} /\ op[r] = "UNDO"
       => seen[r] = own /\ own \in {"LIKE", "PASS"}
  /\ pc[r] = "unpair" => withdraws
  /\ pc[r] \in {"lookup", "create", "reactivate"} => other = "LIKE"
  /\ pc[r] = "create" => pair = "none"
  /\ pc[r] = "reactivate" => pair = "UNMATCHED"
  /\ pc[r] = "commit" /\ op[r] = "LIKE" =>
       \/ write[r] = "none" /\ (other # "LIKE" \/ pair = "ACTIVE")
       \/ Created(r) /\ other = "LIKE"
  /\ pc[r] = "commit" /\ withdraws =>
       \/ write[r] = "none" /\ pair # "ACTIVE"
       \/ write[r] = "UNMATCH" /\ pair = "ACTIVE"
  /\ pc[r] = "commit" /\ op[r] = "UNDO" /\ seen[r] = "PASS" => write[r] = "none"
  /\ pc[r] = "markUnmatched" => pair = "ACTIVE"

SerialInv ==
  /\ \A r, s \in Requests : r # s /\ InFlight(r) /\ InFlight(s) => Pair(r) # Pair(s)
  /\ \A r \in Requests : SerialStep(r)

LEMMA SerialInvariance == ASSUME Admission = "serial" PROVE Spec => []SerialInv
<1>1. Init => SerialInv
  BY DEF Init, SerialInv, SerialStep, InFlight, ActionSteps, TxSteps
<1>2. TypeOK /\ Addressed /\ MutualInv /\ SerialInv /\ [Next]_vars => SerialInv'
  <2> SUFFICES ASSUME TypeOK, Addressed, MutualInv, SerialInv, [Next]_vars
               PROVE  SerialInv'
    OBVIOUS
  <2> USE DEF TypeOK, InFlight, ActionSteps, TxSteps, rows, lists
  <2>1. ASSUME NEW r \in Requests, NEW e \in Edges, NEW o \in Verbs \cup {"UNDO", "UNMATCH"},
               Begin(r, e, o)
        PROVE  SerialInv'
    <3>1. \A s \in Requests : s # r /\ InFlight(s) => Pair(s) # PairOf(e)
      BY <2>1 DEF Begin, Admit
    <3>2. \A s, t \in Requests : s # t /\ InFlight(s)' /\ InFlight(t)' => Pair(s)' # Pair(t)'
      BY <2>1, <3>1 DEF Begin, Goto, SerialInv, Pair
    <3>3. ASSUME NEW s \in Requests PROVE SerialStep(s)'
      <4>1. CASE s = r
        BY <2>1, <4>1 DEF Begin, Goto, SerialStep
      <4>2. CASE s # r
        <5>1. SerialStep(s)
          BY DEF SerialInv
        <5> QED BY <2>1, <4>2, <5>1 DEF Begin, Goto, SerialStep, Pair, Created
      <4> QED BY <4>1, <4>2
    <3> QED BY <3>2, <3>3 DEF SerialInv
  \* A step that commits nothing leaves the other requests as they were.
  <2>2. ASSUME NEW r \in Requests, UNCHANGED <<action, mutual>>,
               \A s \in Requests : s # r =>
                 /\ pc'[s] = pc[s] /\ edge'[s] = edge[s] /\ op'[s] = op[s]
                 /\ seen'[s] = seen[s] /\ write'[s] = write[s],
               pc'[r] = "idle" \/ (InFlight(r) /\ edge'[r] = edge[r]),
               SerialStep(r)'
        PROVE  SerialInv'
    <3>1. \A s, t \in Requests : s # t /\ InFlight(s)' /\ InFlight(t)' => Pair(s)' # Pair(t)'
      BY <2>2 DEF SerialInv, Pair
    <3>2. ASSUME NEW s \in Requests, s # r PROVE SerialStep(s)'
      <4>1. SerialStep(s)
        BY DEF SerialInv
      <4> QED BY <2>2, <3>2, <4>1 DEF SerialStep, Pair, Created
    <3> QED BY <2>2, <3>1, <3>2 DEF SerialInv
  <2>3. ASSUME NEW r \in Requests, Finish(r), UNCHANGED rows
        PROVE  SerialInv'
    <3>1. SerialStep(r)'
      BY <2>3 DEF Finish, Goto, SerialStep
    <3> QED BY <2>2, <2>3, <3>1 DEF Finish, Goto
  <2>4. ASSUME NEW r \in Requests, InFlight(r), NEW step \in Steps, Proceed(r, step),
               UNCHANGED rows, SerialStep(r)'
        PROVE  SerialInv'
    BY <2>2, <2>4 DEF Proceed, Goto
  <2>5. ASSUME NEW r \in Requests, CheckVisible(r) \/ CheckActive(r)
        PROVE  SerialInv'
    <3>1. SerialStep(r)
      BY DEF SerialInv
    <3>2. ASSUME NEW step \in {"readOwn", "upsert", "markUnmatched"}, Proceed(r, step)
          PROVE  SerialStep(r)'
      <4>1. CASE CheckVisible(r)
        <5>1. /\ pc[r] = "check" /\ op[r] # "UNMATCH" /\ action[edge[r]] # "BLOCK"
              /\ step = IF op[r] = "UNDO" THEN "readOwn" ELSE "upsert"
              /\ UNCHANGED action
          BY <3>2, <4>1 DEF CheckVisible, Proceed, Finish, Goto
        <5> QED BY <3>2, <5>1 DEF Proceed, Goto, SerialStep
      <4>2. CASE CheckActive(r)
        <5>1. step = "markUnmatched" /\ mutual[Pair(r)] = "ACTIVE" /\ UNCHANGED <<action, mutual>>
          BY <3>2, <4>2 DEF CheckActive, Proceed, Finish, Goto
        <5> QED BY <3>2, <5>1 DEF Proceed, Goto, SerialStep, Pair
      <4> QED BY <2>5, <4>1, <4>2
    <3> QED BY <2>3, <2>4, <2>5, <3>2 DEF CheckVisible, CheckActive, Steps, PreTx
  <2>6. ASSUME NEW r \in Requests, ReadOwn(r)
        PROVE  SerialInv'
    <3>1. SerialStep(r)
      BY DEF SerialInv
    <3>2. CASE ~Finish(r)
      <4>1. SerialStep(r)'
        BY <2>6, <3>1, <3>2 DEF ReadOwn, Goto, SerialStep, Pair
      <4> QED BY <2>2, <2>6, <3>2, <4>1 DEF ReadOwn, Goto
    <3> QED BY <2>3, <2>6, <3>2 DEF ReadOwn
  <2>7. ASSUME NEW r \in Requests,
               Upsert(r) \/ DeleteRow(r) \/ ReadReverse(r) \/ LookupMutual(r)
        PROVE  SerialInv'
    <3>1. SerialStep(r)
      BY DEF SerialInv
    <3>2. mutual[Pair(r)] \in {"none", "ACTIVE", "UNMATCHED"}
      BY <2>7, EdgeFacts DEF Upsert, DeleteRow, ReadReverse, LookupMutual, Addressed, Pair
    <3>3. ASSUME NEW step \in Steps, Proceed(r, step)
          PROVE  SerialStep(r)'
      BY <2>7, <3>1, <3>2, <3>3
      DEF Upsert, DeleteRow, ReadReverse, LookupMutual, Proceed, Goto, SerialStep, Pair,
          Verbs, Created, MutualInv, PostTx
    <3> QED BY <2>3, <2>4, <2>7, <3>2, <3>3
            DEF Upsert, DeleteRow, ReadReverse, LookupMutual, Steps
  <2>8. ASSUME NEW r \in Requests, CreateMutual(r) \/ Reactivate(r) \/ Unpair(r)
        PROVE  SerialInv'
    <3>1. SerialStep(r)
      BY DEF SerialInv
    <3>2. ASSUME NEW w \in {"CREATE", "REACTIVATE", "UNMATCH"}, WriteMutual(r, w)
          PROVE  SerialInv'
      <4>1. SerialStep(r)'
        BY <2>8, <3>1, <3>2 DEF CreateMutual, Reactivate, Unpair, WriteMutual, Goto,
           SerialStep, Pair, Created, MutualInv, PostTx, Proceed, Finish
      <4> QED BY <2>2, <2>8, <3>2, <4>1 DEF CreateMutual, Reactivate, Unpair, WriteMutual, Goto
    <3>3. ASSUME Unpair(r), Proceed(r, "commit")
          PROVE  SerialInv'
      <4>1. SerialStep(r)'
        BY <3>1, <3>3 DEF Unpair, Proceed, Goto, SerialStep, Pair, Created, MutualInv, PostTx, WriteMutual
      <4> QED BY <2>4, <3>3, <4>1 DEF Unpair, Steps
    <3> QED BY <2>3, <2>8, <3>2, <3>3 DEF CreateMutual, Reactivate, Unpair
  \* A committing request is the only one in flight on its pair.
  <2>9. ASSUME NEW r \in Requests, Commit(r) \/ MarkUnmatched(r)
        PROVE  SerialInv'
    <3>1. edge[r] \in Edges /\ Pair(r) \in Pairs /\ InFlight(r)
      BY <2>9, EdgeFacts DEF Commit, MarkUnmatched, Addressed, Pair
    <3>2. \A s, t \in Requests : s # t /\ InFlight(s)' /\ InFlight(t)' => Pair(s)' # Pair(t)'
      BY <2>9, <3>1 DEF Commit, MarkUnmatched, Goto, SerialInv, Pair
    <3>3. SerialStep(r)'
      BY <2>9 DEF Commit, MarkUnmatched, Goto, SerialStep
    <3>4. ASSUME NEW s \in Requests, s # r PROVE SerialStep(s)'
      <4>1. CASE ~InFlight(s)
        BY <2>9, <3>4, <4>1 DEF Commit, MarkUnmatched, Goto, SerialStep
      <4>2. CASE InFlight(s)
        <5>1. edge[s] \in Edges /\ Pair(s) \in Pairs /\ Reverse(edge[s]) \in Edges /\ Pair(s) # Pair(r)
          BY <3>1, <3>4, <4>2, EdgeFacts DEF Addressed, SerialInv, Pair
        <5>2. edge[s] # edge[r] /\ Reverse(edge[s]) # edge[r]
          BY <5>1 DEF Pair, PairOf, Reverse, Edges
        <5>3. /\ action'[edge[s]] = action[edge[s]]
              /\ action'[Reverse(edge[s])] = action[Reverse(edge[s])]
              /\ mutual'[Pair(s)] = mutual[Pair(s)]
          BY <2>9, <5>1, <5>2 DEF Commit, SetMutual, MarkUnmatched
        <5>4. /\ pc'[s] = pc[s] /\ edge'[s] = edge[s] /\ op'[s] = op[s]
              /\ seen'[s] = seen[s] /\ write'[s] = write[s]
          BY <2>9, <3>4 DEF Commit, MarkUnmatched, Goto
        <5>5. SerialStep(s)
          BY DEF SerialInv
        <5> QED BY <5>3, <5>4, <5>5 DEF SerialStep, Pair, Created
      <4> QED BY <4>1, <4>2
    <3> QED BY <3>2, <3>3, <3>4 DEF SerialInv
  <2>10. ASSUME NEW r \in Requests,
                Announce(r) \/ RefreshActor(r) \/ RefreshOther(r) \/ Abort(r)
         PROVE  SerialInv'
    <3>1. ASSUME NEW step \in PostTx, Proceed(r, step)
          PROVE  SerialStep(r)'
      BY <3>1 DEF Proceed, Goto, SerialStep, PostTx
    <3> QED BY <2>3, <2>4, <2>10, <3>1
            DEF Announce, RefreshActor, RefreshOther, Abort, Steps, PostTx
  <2>11. CASE UNCHANGED vars
    BY <2>11 DEF vars, SerialInv, SerialStep, Pair, Created
  <2>12. QED
    BY <2>1, <2>5, <2>6, <2>7, <2>8, <2>9, <2>10, <2>11 DEF Next, Step
<1>3. QED
  BY <1>1, <1>2, Typing, MutualInvariance, PTL DEF Spec

\* When requests do not overlap on a pair, every transaction of MatchActions
\* changes the rows as one operation of MatchPair does, and every other step
\* (reads, refusals, list rebuilds, aborts) leaves them alone.
THEOREM SerialRequestsAreAtomic == ASSUME Admission = "serial" PROVE Spec => AtomicRequests
<1> USE DEF Promise!Edges, Promise!Pairs, Promise!PairOf, Edges, Pairs, PairOf
<1>1. Init => Promise!Init
  BY DEF Init, Promise!Init, Nobody
<1>2. TypeOK /\ Addressed /\ MutualInv /\ SerialInv /\ [Next]_vars
      => [Promise!Next]_<<action, mutual, unmatchedBy>>
  <2> SUFFICES ASSUME TypeOK, Addressed, MutualInv, SerialInv, [Next]_vars
               PROVE  Promise!Next \/ UNCHANGED rows
    BY DEF rows
  <2>1. ASSUME NEW r \in Requests, Commit(r)
        PROVE  Promise!Next
    <3> DEFINE e == edge[r]
    <3>1. e \in Edges /\ Pair(r) = PairOf(e) /\ SerialStep(r)
      BY <2>1 DEF Commit, Addressed, InFlight, Pair, SerialInv
    <3>2. pc[r] = "commit" /\ action[e] # "BLOCK" /\ op[r] \in Verbs \cup {"UNDO"}
      BY <2>1, <3>1 DEF Commit, SerialStep, ActionSteps, TxSteps, Addressed, InFlight, TypeOK
    <3>3. action' = [action EXCEPT ![e] = RowAfter(r)] /\ SetMutual(r)
      BY <2>1 DEF Commit
    <3>4. write[r] \in {"none", "CREATE", "REACTIVATE", "UNMATCH"} /\ seen[r] \in Verbs \cup {"none"}
      BY DEF TypeOK
    <3>5. PairOf(e) \in Pairs
      BY <3>1
    <3>6. CASE op[r] = "LIKE"
      <4>1. CASE write[r] = "none" /\ action[Reverse(e)] # "LIKE"
        BY <3>1, <3>2, <3>3, <3>6, <4>1
        DEF SetMutual, RowAfter, Promise!Next, Promise!Like, Reverse
      <4>2. CASE write[r] = "none" /\ action[Reverse(e)] = "LIKE"
        <5>1. mutual[PairOf(e)] = "ACTIVE"
          BY <3>1, <3>2, <3>6, <4>2 DEF SerialStep, Created
        <5>2. unmatchedBy[PairOf(e)] = "nobody"
          BY <3>5, <5>1 DEF MutualInv, BlameFollowsStatus, Nobody
        <5>3. UNCHANGED <<mutual, unmatchedBy>>
          BY <3>3, <4>2 DEF SetMutual
        <5>4. /\ mutual' = [mutual EXCEPT ![PairOf(e)] = "ACTIVE"]
              /\ unmatchedBy' = [unmatchedBy EXCEPT ![PairOf(e)] = "nobody"]
          BY <3>5, <5>1, <5>2, <5>3, ActiveAgain
        <5> QED BY <3>1, <3>2, <3>3, <3>6, <4>2, <5>4 DEF RowAfter, Promise!Next, Promise!Like, Reverse
      <4>3. CASE write[r] # "none"
        <5>1. Created(r) /\ action[Reverse(e)] = "LIKE"
          BY <3>1, <3>2, <3>6, <4>3 DEF SerialStep
        <5>2. /\ mutual' = [mutual EXCEPT ![PairOf(e)] = "ACTIVE"]
              /\ unmatchedBy' = [unmatchedBy EXCEPT ![PairOf(e)] = "nobody"]
          <6>1. write[r] # "none" /\ write[r] # "UNMATCH"
            BY <5>1 DEF Created
          <6>2. /\ mutual' = [mutual EXCEPT ![Pair(r)] = "ACTIVE"]
                /\ unmatchedBy' = [unmatchedBy EXCEPT ![Pair(r)] = Nobody]
            BY <3>3, <6>1 DEF SetMutual
          <6> QED BY <3>1, <6>2 DEF Nobody
        <5> QED BY <3>1, <3>2, <3>3, <3>6, <5>1, <5>2 DEF RowAfter, Promise!Next, Promise!Like, Reverse
      <4> QED BY <4>1, <4>2, <4>3
    <3>7. ASSUME op[r] \in {"PASS", "BLOCK"} \/ (op[r] = "UNDO" /\ seen[r] = "LIKE")
          PROVE  Promise!Withdraw(e)
      <4>1. \/ write[r] = "none" /\ mutual[PairOf(e)] # "ACTIVE"
            \/ write[r] = "UNMATCH" /\ mutual[PairOf(e)] = "ACTIVE"
        BY <3>1, <3>2, <3>7 DEF SerialStep
      <4> QED BY <3>1, <3>3, <4>1 DEF SetMutual, Promise!Withdraw
    <3>8. CASE op[r] \in {"PASS", "BLOCK"}
      BY <3>1, <3>2, <3>3, <3>7, <3>8 DEF RowAfter, Promise!Next, Promise!Reject
    <3>9. CASE op[r] = "UNDO"
      <4>1. seen[r] = action[e] /\ action[e] \in {"LIKE", "PASS"}
        BY <3>1, <3>2, <3>9 DEF SerialStep
      <4>2. action[e] = "PASS" => UNCHANGED <<mutual, unmatchedBy>>
        BY <3>1, <3>2, <3>3, <3>9, <4>1 DEF SerialStep, SetMutual
      <4> QED BY <3>1, <3>3, <3>7, <3>9, <4>1, <4>2 DEF RowAfter, Promise!Next, Promise!Undo
    <3> QED BY <3>2, <3>6, <3>8, <3>9 DEF Verbs
  <2>2. ASSUME NEW r \in Requests, MarkUnmatched(r)
        PROVE  Promise!Next
    <3>1. edge[r] \in Edges /\ mutual[PairOf(edge[r])] = "ACTIVE"
      BY <2>2 DEF MarkUnmatched, Addressed, InFlight, SerialInv, SerialStep, Pair
    <3> QED BY <2>2, <3>1 DEF MarkUnmatched, Pair, Promise!Next, Promise!Unmatch, Promise!Withdraw
  <2>3. CASE UNCHANGED rows
    BY <2>3
  <2>4. QED
    BY <2>1, <2>2, <2>3 DEF Next, Step, vars, rows, Begin, CheckVisible, CheckActive, ReadOwn,
       Upsert, DeleteRow, ReadReverse, LookupMutual, CreateMutual, Reactivate, Unpair,
       Announce, RefreshActor, RefreshOther, Abort
<1>3. QED
  BY <1>1, <1>2, Typing, MutualInvariance, SerialInvariance, PTL
  DEF Spec, AtomicRequests, Promise!Spec, Promise!rows

\* A conversation is open only between two users who like each other, when
\* requests do not overlap on the pair: so it is of MatchPair's operations.
THEOREM SerialActiveMeansBothLike ==
  ASSUME Admission = "serial" PROVE Spec => []ActiveMeansBothLike
<1>1. Init => ActiveMeansBothLike
  BY EdgeFacts DEF Init, ActiveMeansBothLike
<1>2. TypeOK /\ ActiveMeansBothLike /\ [Promise!Next]_<<action, mutual, unmatchedBy>>
      => ActiveMeansBothLike'
  <2> SUFFICES ASSUME TypeOK, ActiveMeansBothLike, NEW e \in Edges,
                      \/ Promise!Like(e)
                      \/ \E verb \in {"PASS", "BLOCK"} : Promise!Reject(e, verb)
                      \/ Promise!Undo(e)
                      \/ Promise!Unmatch(e),
                      NEW f \in Edges, mutual'[PairOf(f)] = "ACTIVE"
               PROVE  action'[f] = "LIKE"
    BY PromiseNames DEF Promise!Next, ActiveMeansBothLike
  <2>1. e \in Edges /\ Reverse(e) \in Edges /\ PairOf(e) \in Pairs /\ PairOf(f) \in Pairs
        /\ PairOf(Reverse(e)) = PairOf(e)
    BY EdgeFacts DEF PairOf, Reverse
  <2>2. mutual[PairOf(f)] = "ACTIVE" => action[f] = "LIKE"
    BY DEF ActiveMeansBothLike
  <2>3. CASE Promise!Like(e)
    BY <2>1, <2>2, <2>3, PairFacts, PromiseNames DEF Promise!Like, Reverse, TypeOK
  <2>4. ASSUME Promise!Withdraw(e)
        PROVE  PairOf(f) # PairOf(e) /\ mutual[PairOf(f)] = "ACTIVE"
    BY <2>1, <2>4, PromiseNames DEF Promise!Withdraw, TypeOK
  <2>5. CASE \E verb \in {"PASS", "BLOCK"} : Promise!Reject(e, verb)
    BY <2>1, <2>2, <2>4, <2>5 DEF Promise!Reject, TypeOK
  <2>6. CASE Promise!Undo(e)
    <3>1. CASE action[e] = "LIKE"
      BY <2>1, <2>2, <2>4, <2>6, <3>1 DEF Promise!Undo, TypeOK
    <3>2. CASE action[e] # "LIKE"
      BY <2>1, <2>2, <2>6, <3>2 DEF Promise!Undo, TypeOK
    <3> QED BY <3>1, <3>2
  <2>7. CASE Promise!Unmatch(e)
    BY <2>2, <2>4, <2>7 DEF Promise!Unmatch
  <2> QED BY <2>3, <2>5, <2>6, <2>7
<1>3. Spec => [][Promise!Next]_<<action, mutual, unmatchedBy>>
  BY SerialRequestsAreAtomic, PTL DEF AtomicRequests, Promise!Spec, Promise!rows
<1>4. QED
  BY <1>1, <1>2, <1>3, Typing, PTL DEF Spec

\* Two users who like each other have a conversation, even while their requests run.
BothLikeMeansPaired ==
  \A e \in Edges : action[e] = "LIKE" /\ action[Reverse(e)] = "LIKE" => mutual[PairOf(e)] # "none"

\* No mutual match is missed when requests do not overlap on a pair: whichever LIKE
\* comes second finds the first, and a MutualMatch row is never deleted.
THEOREM SerialNoMissedMatch ==
  ASSUME Admission = "serial" PROVE Spec => []NoMissedMatch
<1>1. Init => BothLikeMeansPaired
  BY EdgeFacts DEF Init, BothLikeMeansPaired
<1>2. TypeOK /\ BothLikeMeansPaired /\ [Promise!Next]_<<action, mutual, unmatchedBy>>
      => BothLikeMeansPaired'
  <2> SUFFICES ASSUME TypeOK, BothLikeMeansPaired, NEW e \in Edges,
                      \/ Promise!Like(e)
                      \/ \E verb \in {"PASS", "BLOCK"} : Promise!Reject(e, verb)
                      \/ Promise!Undo(e)
                      \/ Promise!Unmatch(e),
                      NEW f \in Edges, action'[f] = "LIKE", action'[Reverse(f)] = "LIKE"
               PROVE  mutual'[PairOf(f)] # "none"
    BY PromiseNames DEF Promise!Next, BothLikeMeansPaired
  <2>1. e \in Edges /\ Reverse(e) \in Edges /\ PairOf(e) \in Pairs /\ PairOf(f) \in Pairs
        /\ Reverse(f) \in Edges /\ PairOf(Reverse(e)) = PairOf(e) /\ PairOf(Reverse(f)) = PairOf(f)
    BY EdgeFacts DEF PairOf, Reverse
  <2>2. action[f] = "LIKE" /\ action[Reverse(f)] = "LIKE" => mutual[PairOf(f)] # "none"
    BY DEF BothLikeMeansPaired
  <2>3. ASSUME Promise!Withdraw(e), mutual[PairOf(f)] # "none"
        PROVE  mutual'[PairOf(f)] # "none"
    BY <2>1, <2>3, PromiseNames DEF Promise!Withdraw, TypeOK
  <2>4. CASE Promise!Like(e)
    <3>1. action' = [action EXCEPT ![e] = "LIKE"]
      BY <2>4 DEF Promise!Like
    <3>2. CASE action[Reverse(e)] = "LIKE"
      <4>1. mutual' = [mutual EXCEPT ![PairOf(e)] = "ACTIVE"]
        BY <2>4, <3>2, PromiseNames DEF Promise!Like, Reverse
      <4>2. CASE PairOf(f) = PairOf(e)
        BY <2>1, <4>1, <4>2 DEF TypeOK
      <4>3. CASE PairOf(f) # PairOf(e)
        <5>1. action'[f] = action[f] /\ action'[Reverse(f)] = action[Reverse(f)]
          BY <2>1, <3>1, <4>3 DEF TypeOK
        <5> QED BY <2>1, <2>2, <4>1, <4>3, <5>1 DEF TypeOK
      <4> QED BY <4>2, <4>3
    <3>3. CASE action[Reverse(e)] # "LIKE"
      <4>1. UNCHANGED mutual
        BY <2>4, <3>3 DEF Promise!Like, Reverse
      <4>2. action'[Reverse(e)] # "LIKE"
        <5>1. Reverse(e) # e
          BY <2>1 DEF Reverse, Edges
        <5> QED BY <2>1, <3>1, <3>3, <5>1 DEF TypeOK
      <4>3. f # e /\ f # Reverse(e)
        <5>1. Reverse(Reverse(e)) = e
          BY <2>1 DEF Reverse, Edges
        <5> QED BY <4>2, <5>1
      <4>4. Reverse(f) # e /\ Reverse(f) # Reverse(e)
        <5>1. PairOf(f) # PairOf(e)
          BY <2>1, <4>3, PairFacts
        <5> QED BY <2>1, <5>1
      <4>5. action[f] = "LIKE" /\ action[Reverse(f)] = "LIKE"
        BY <2>1, <3>1, <4>3, <4>4 DEF TypeOK
      <4> QED BY <2>2, <4>1, <4>5
    <3> QED BY <3>2, <3>3
  <2>5. CASE \E verb \in {"PASS", "BLOCK"} : Promise!Reject(e, verb)
    <3>1. PICK verb \in {"PASS", "BLOCK"} : Promise!Reject(e, verb)
      BY <2>5
    <3>2. action[f] = "LIKE" /\ action[Reverse(f)] = "LIKE"
      BY <2>1, <3>1 DEF Promise!Reject, TypeOK
    <3> QED BY <2>2, <2>3, <3>1, <3>2 DEF Promise!Reject
  <2>6. CASE Promise!Undo(e)
    <3>1. action[f] = "LIKE" /\ action[Reverse(f)] = "LIKE"
      BY <2>1, <2>6 DEF Promise!Undo, TypeOK
    <3> QED BY <2>2, <2>3, <2>6, <3>1 DEF Promise!Undo
  <2>7. CASE Promise!Unmatch(e)
    BY <2>2, <2>3, <2>7 DEF Promise!Unmatch
  <2> QED BY <2>4, <2>5, <2>6, <2>7
<1>3. Spec => [][Promise!Next]_<<action, mutual, unmatchedBy>>
  BY SerialRequestsAreAtomic, PTL DEF AtomicRequests, Promise!Spec, Promise!rows
<1>4. BothLikeMeansPaired => NoMissedMatch
  BY DEF BothLikeMeansPaired, NoMissedMatch
<1>5. QED
  BY <1>1, <1>2, <1>3, <1>4, Typing, PTL DEF Spec

----------------------------------------------------------------------------
(* Waiting for locks.                                                      *)

\* A request about to write a row waits for the one that holds its lock: the guards of
\* Upsert and DeleteRow, of WriteMutual and of MarkUnmatched.
WaitsFor(r, s) ==
  \/ pc[r] \in {"upsert", "delete"} /\ HoldsAction(s, edge[r])
  \/ /\ \/ pc[r] \in {"create", "reactivate", "markUnmatched"}
        \/ pc[r] = "unpair" /\ mutual[Pair(r)] = "ACTIVE"
     /\ HoldsMutual(s, Pair(r))

\* Who is waited for by one who is waited for waits for nobody.
ShortWaits ==
  \A r, s, t, u \in Requests : WaitsFor(r, s) /\ WaitsFor(s, t) => ~WaitsFor(t, u)

\* However many requests overlap on a pair, chains of lock waits are at most two long, so
\* there is no cycle: every transaction takes its MatchAction row before the MutualMatch
\* row, and has nothing left to wait for once it has the second.
THEOREM NoWaitCycle == Spec => []ShortWaits
<1>1. MutualInv => ShortWaits
  <2> SUFFICES ASSUME MutualInv, NEW r \in Requests, NEW s \in Requests, NEW t \in Requests,
                      NEW u \in Requests, WaitsFor(r, s), WaitsFor(s, t)
               PROVE  ~WaitsFor(t, u)
    BY DEF ShortWaits
  <2>1. pc[s] \in TxSteps
    BY DEF WaitsFor, HoldsAction, HoldsMutual
  <2>2. pc[s] \notin {"upsert", "delete"}
    BY <2>1 DEF TxSteps
  <2>3. pc[t] \in TxSteps /\ write[t] # "none"
    BY <2>2 DEF WaitsFor, HoldsMutual
  <2>4. pc[t] = "commit"
    BY <2>3 DEF MutualInv, TxSteps, PostTx
  <2>. QED  BY <2>4 DEF WaitsFor
<1>. QED  BY <1>1, MutualInvariance, PTL

----------------------------------------------------------------------------
(* What follows a commit.                                                  *)

\* The request has committed and will still ask for the rebuild of the user's list.
OwesRebuild(r, u) ==
  /\ pc[r] \in PostTx
  /\ \/ u = edge[r][1] /\ pc[r] # "otherList"
     \/ u = edge[r][2] /\ write[r] # "none"

Announces(r, p) == pc[r] = "announce" /\ Pair(r) = p

FollowUpOwed ==
  /\ \A u \in stale : \E r \in Requests : OwesRebuild(r, u)
  /\ \A p \in unannounced : \E r \in Requests : Announces(r, p)

\* A request that has not committed owes nothing; what the others owe does not change
\* by what it does.
LEMMA OthersOwe ==
  ASSUME TypeOK, FollowUpOwed, NEW r \in Requests, pc[r] \notin PostTx,
         \A s \in Requests \ {r} : pc'[s] = pc[s] /\ edge'[s] = edge[s] /\ write'[s] = write[s],
         UNCHANGED lists
  PROVE  FollowUpOwed'
<1>1. \A s \in Requests, u \in stale : OwesRebuild(s, u) => OwesRebuild(s, u)'
  BY DEF OwesRebuild
<1>2. \A s \in Requests, p \in unannounced : Announces(s, p) => Announces(s, p)'
  BY DEF Announces, Pair, PostTx
<1>. QED  BY <1>1, <1>2 DEF FollowUpOwed, lists

\* Every step keeps it, unless the request dies.
LEMMA FollowUpStep ==
  ASSUME ~Faults, TypeOK, Addressed, FollowUpOwed, [Next]_vars
  PROVE  FollowUpOwed'
<1>1. ASSUME NEW r \in Requests, pc[r] \notin PostTx,
             Finish(r) \/ (\E step \in Steps : Proceed(r, step)), UNCHANGED lists
      PROVE  FollowUpOwed'
  BY <1>1, OthersOwe DEF TypeOK, Finish, Proceed, Goto
<1>2. ASSUME NEW r \in Requests, NEW w, pc[r] \notin PostTx, WriteMutual(r, w), UNCHANGED lists
      PROVE  FollowUpOwed'
  BY <1>2, OthersOwe DEF TypeOK, WriteMutual, Goto
<1>3. ASSUME NEW r \in Requests, NEW e \in Edges, NEW o \in Verbs \cup {"UNDO", "UNMATCH"},
             Begin(r, e, o)
      PROVE  FollowUpOwed'
  BY <1>3, OthersOwe DEF TypeOK, Begin, Goto, InFlight, PostTx
<1>4. ASSUME NEW r \in Requests, CheckVisible(r) \/ CheckActive(r) \/ ReadOwn(r)
      PROVE  FollowUpOwed'
  <2>1. pc[r] \notin PostTx /\ UNCHANGED lists
    BY <1>4 DEF CheckVisible, CheckActive, ReadOwn, PostTx
  <2>2. CASE Finish(r) \/ (\E step \in Steps : Proceed(r, step))
    BY <1>1, <2>1, <2>2
  <2>3. CASE ReadOwn(r) /\ ~Finish(r)
    BY <2>1, <2>3, OthersOwe DEF TypeOK, ReadOwn, Goto
  <2>. QED  BY <1>4, <2>2, <2>3 DEF CheckVisible, CheckActive, ReadOwn, Steps, PreTx
<1>5. ASSUME NEW r \in Requests, Upsert(r) \/ DeleteRow(r) \/ ReadReverse(r) \/ LookupMutual(r)
      PROVE  FollowUpOwed'
  <2>1. pc[r] \notin PostTx /\ UNCHANGED lists
    BY <1>5 DEF Upsert, DeleteRow, ReadReverse, LookupMutual, PostTx
  <2>2. mutual[Pair(r)] \in {"none", "ACTIVE", "UNMATCHED"}
    BY <1>5, EdgeFacts DEF TypeOK, Addressed, InFlight, Pair, Upsert, DeleteRow, ReadReverse, LookupMutual
  <2>. QED  BY <1>1, <1>5, <2>1, <2>2 DEF Upsert, DeleteRow, ReadReverse, LookupMutual, Steps, TxSteps
<1>6. ASSUME NEW r \in Requests, CreateMutual(r) \/ Reactivate(r) \/ Unpair(r)
      PROVE  FollowUpOwed'
  <2>1. pc[r] \notin PostTx /\ UNCHANGED lists
    BY <1>6 DEF CreateMutual, Reactivate, Unpair, PostTx
  <2>. QED  BY <1>1, <1>2, <1>6, <2>1 DEF CreateMutual, Reactivate, Unpair, Steps, TxSteps
<1>7. ASSUME NEW r \in Requests, Commit(r)
      PROVE  FollowUpOwed'
  <2>1. /\ pc' = [pc EXCEPT ![r] = IF Created(r) THEN "announce" ELSE "actorList"]
        /\ edge' = edge /\ write' = write /\ pc[r] = "commit"
    BY <1>7 DEF Commit, Goto
  <2>2. \A s \in Requests : \A u : OwesRebuild(s, u) => OwesRebuild(s, u)'
    BY <2>1 DEF TypeOK, OwesRebuild, PostTx
  <2>3. \A s \in Requests : \A p : Announces(s, p) => Announces(s, p)'
    BY <2>1 DEF TypeOK, Announces, Pair
  <2>4. OwesRebuild(r, edge[r][1])' /\ (write[r] # "none" => OwesRebuild(r, edge[r][2])')
    BY <2>1 DEF TypeOK, OwesRebuild, PostTx
  <2>5. \A u \in stale' : u \in stale \/ u = edge[r][1] \/ (write[r] # "none" /\ u = edge[r][2])
    BY <1>7 DEF Commit, Pair, PairOf
  <2>6. \A p \in unannounced' : p \in unannounced \/ Announces(r, p)'
    BY <1>7, <2>1 DEF TypeOK, Commit, Announces, Pair
  <2>7. \A u \in stale' : \E s \in Requests : OwesRebuild(s, u)'
    BY <2>1, <2>2, <2>4, <2>5 DEF FollowUpOwed
  <2>8. \A p \in unannounced' : \E s \in Requests : Announces(s, p)'
    BY <2>3, <2>6 DEF FollowUpOwed
  <2>. QED  BY <2>7, <2>8 DEF FollowUpOwed
<1>8. ASSUME NEW r \in Requests, MarkUnmatched(r)
      PROVE  FollowUpOwed'
  <2>1. /\ pc' = [pc EXCEPT ![r] = "actorList"] /\ write' = [write EXCEPT ![r] = "UNMATCH"]
        /\ edge' = edge /\ pc[r] = "markUnmatched" /\ UNCHANGED unannounced
    BY <1>8 DEF MarkUnmatched, Goto
  <2>2. \A s \in Requests : \A u : OwesRebuild(s, u) => OwesRebuild(s, u)'
    BY <2>1 DEF TypeOK, OwesRebuild, PostTx
  <2>3. \A s \in Requests : \A p : Announces(s, p) => Announces(s, p)'
    BY <2>1 DEF TypeOK, Announces, Pair
  <2>4. OwesRebuild(r, edge[r][1])' /\ OwesRebuild(r, edge[r][2])'
    BY <2>1 DEF TypeOK, OwesRebuild, PostTx
  <2>5. \A u \in stale' : u \in stale \/ u = edge[r][1] \/ u = edge[r][2]
    BY <1>8 DEF MarkUnmatched, Pair, PairOf
  <2>. QED  BY <2>1, <2>2, <2>3, <2>4, <2>5 DEF FollowUpOwed
<1>9. ASSUME NEW r \in Requests, Announce(r)
      PROVE  FollowUpOwed'
  <2>1. /\ pc' = [pc EXCEPT ![r] = "actorList"] /\ pc[r] = "announce"
        /\ UNCHANGED <<edge, write, stale>> /\ unannounced' = unannounced \ {Pair(r)}
    BY <1>9 DEF Announce, Proceed, Goto
  <2>2. \A s \in Requests : \A u : OwesRebuild(s, u) => OwesRebuild(s, u)'
    BY <2>1 DEF TypeOK, OwesRebuild, PostTx
  <2>3. \A s \in Requests, p \in unannounced' : Announces(s, p) => Announces(s, p)'
    BY <2>1 DEF TypeOK, Announces, Pair
  <2>. QED  BY <2>1, <2>2, <2>3 DEF FollowUpOwed
<1>10. ASSUME NEW r \in Requests, RefreshActor(r)
       PROVE  FollowUpOwed'
  <2>1. pc[r] = "actorList" /\ stale' = stale \ {edge[r][1]} /\ UNCHANGED unannounced
    BY <1>10 DEF RefreshActor
  <2>2. \A s \in Requests \ {r} : pc'[s] = pc[s] /\ edge'[s] = edge[s] /\ write'[s] = write[s]
    BY <1>10 DEF TypeOK, RefreshActor, Finish, Proceed, Goto
  <2>3. write[r] # "none" => pc'[r] = "otherList" /\ edge'[r] = edge[r] /\ write'[r] = write[r]
    BY <1>10 DEF TypeOK, RefreshActor, Proceed, Goto
  <2>4. \A s \in Requests, u \in stale' : OwesRebuild(s, u) => OwesRebuild(s, u)'
    BY <2>1, <2>2, <2>3 DEF OwesRebuild, PostTx
  <2>5. \A s \in Requests : \A p : Announces(s, p) => Announces(s, p)'
    BY <2>1, <2>2 DEF Announces, Pair
  <2>. QED  BY <2>1, <2>4, <2>5 DEF FollowUpOwed
<1>11. ASSUME NEW r \in Requests, RefreshOther(r)
       PROVE  FollowUpOwed'
  <2>1. pc[r] = "otherList" /\ stale' = stale \ {edge[r][2]} /\ UNCHANGED unannounced
    BY <1>11 DEF RefreshOther
  <2>2. \A s \in Requests \ {r} : pc'[s] = pc[s] /\ edge'[s] = edge[s] /\ write'[s] = write[s]
    BY <1>11 DEF TypeOK, RefreshOther, Finish, Goto
  <2>3. \A s \in Requests, u \in stale' : OwesRebuild(s, u) => OwesRebuild(s, u)'
    BY <2>1, <2>2 DEF OwesRebuild, PostTx
  <2>4. \A s \in Requests : \A p : Announces(s, p) => Announces(s, p)'
    BY <2>1, <2>2 DEF Announces, Pair
  <2>. QED  BY <2>1, <2>3, <2>4 DEF FollowUpOwed
<1>12. CASE UNCHANGED vars
  BY <1>12 DEF vars, FollowUpOwed, OwesRebuild, Announces, Pair
<1>13. \A r \in Requests : ~Abort(r)
  BY DEF Abort
<1>. QED
  BY <1>3, <1>4, <1>5, <1>6, <1>7, <1>8, <1>9, <1>10, <1>11, <1>12, <1>13 DEF Next, Step

\* As long as no request dies, whoever's match list a commit has made outdated, and each
\* match nobody has been told about, has a request under way that will see to it: no
\* branch of the handlers forgets the other side, and no other request's work hides it.
THEOREM NothingForgotten == ASSUME ~Faults PROVE Spec => []FollowUpOwed
<1>1. Init => FollowUpOwed
  BY DEF Init, FollowUpOwed
<1>2. TypeOK /\ Addressed /\ FollowUpOwed /\ [Next]_vars => FollowUpOwed'
  BY FollowUpStep
<1>. QED  BY <1>1, <1>2, Typing, PTL DEF Spec
=============================================================================
