---------------------------- MODULE MatchActions ----------------------------
(***************************************************************************)
(* LIKE / PASS / BLOCK / undo on a match candidate, mutual-match detection *)
(* and conversation unmatch, at the granularity of the SQL statements the  *)
(* server issues under PostgreSQL's READ COMMITTED isolation.              *)
(*                                                                         *)
(* A request is a process.  createAction and deleteAction first read the   *)
(* database outside any transaction (visibility, the row to undo), then    *)
(* run one interactive transaction, then refresh match lists.  A           *)
(* transaction holds the row lock of what it wrote until it commits, sees  *)
(* only committed rows of others, and is rolled back when it aborts: its   *)
(* writes are therefore kept in the request and reach action and mutual    *)
(* at Commit.                                                              *)
(***************************************************************************)
EXTENDS FiniteSets

CONSTANTS
  Users,        \* accounts
  Requests,     \* request slots: how many requests can be in flight at once
  Admission,    \* "any", "per_actor" or "serial", see Admit
  Faults        \* TRUE: a request may die at any point (crash, timeout, lost connection)

ASSUME AdmissionAssumption == Admission \in {"any", "per_actor", "serial"}
ASSUME FaultsAssumption == Faults \in BOOLEAN

VARIABLES
  action,       \* committed MatchAction rows: action[<<actor, target>>]
  mutual,       \* committed MutualMatch rows: status of the unordered pair
  unmatchedBy,  \* MutualMatch.unmatchedByUserId, Nobody when null
  pc,           \* the next statement of each request
  edge,         \* the request's <<actor, target>>
  op,           \* what the request asks for
  seen,         \* the action deleteAction read before its transaction
  write,        \* the request's uncommitted write to the MutualMatch row
  stale,        \* users whose ranked match list predates a committed change
  unannounced   \* pairs activated and not yet notified

vars == <<action, mutual, unmatchedBy, pc, edge, op, seen, write, stale, unannounced>>

Nobody == "nobody"
Verbs == {"LIKE", "PASS", "BLOCK"}
Edges == {e \in Users \X Users : e[1] # e[2]}
PairOf(e) == {e[1], e[2]}
Pairs == {PairOf(e) : e \in Edges}
Reverse(e) == <<e[2], e[1]>>
NoEdge == <<Nobody, Nobody>>

TxSteps == {"reverse", "lookup", "create", "reactivate", "unpair", "commit"}
PreTx == {"check", "readOwn", "upsert", "delete", "markUnmatched"}
PostTx == {"announce", "actorList", "otherList"}
Steps == {"idle"} \cup PreTx \cup TxSteps \cup PostTx

TypeOK ==
  /\ action \in [Edges -> Verbs \cup {"none"}]
  /\ mutual \in [Pairs -> {"none", "ACTIVE", "UNMATCHED"}]
  /\ unmatchedBy \in [Pairs -> Users \cup {Nobody}]
  /\ pc \in [Requests -> Steps]
  /\ edge \in [Requests -> Edges \cup {NoEdge}]
  /\ op \in [Requests -> Verbs \cup {"UNDO", "UNMATCH"}]
  /\ seen \in [Requests -> Verbs \cup {"none"}]
  /\ write \in [Requests -> {"none", "CREATE", "REACTIVATE", "UNMATCH"}]
  /\ stale \in SUBSET Users
  /\ unannounced \in SUBSET Pairs

Init ==
  /\ action = [e \in Edges |-> "none"]
  /\ mutual = [p \in Pairs |-> "none"]
  /\ unmatchedBy = [p \in Pairs |-> Nobody]
  /\ pc = [r \in Requests |-> "idle"]
  /\ edge = [r \in Requests |-> NoEdge]
  /\ op = [r \in Requests |-> "LIKE"]
  /\ seen = [r \in Requests |-> "none"]
  /\ write = [r \in Requests |-> "none"]
  /\ stale = {}
  /\ unannounced = {}

Pair(r) == PairOf(edge[r])
InFlight(r) == pc[r] # "idle"

\* The row locks a transaction holds: its MatchAction row from its first
\* statement on, the MutualMatch row once it has written it.
HoldsAction(r, e) == pc[r] \in TxSteps /\ edge[r] = e
HoldsMutual(r, p) == pc[r] \in TxSteps /\ Pair(r) = p /\ write[r] # "none"
ActionFree(e) == \A r \in Requests : ~HoldsAction(r, e)
MutualFree(p) == \A r \in Requests : ~HoldsMutual(r, p)

Goto(r, step) == pc' = [pc EXCEPT ![r] = step]
\* Ends a request; a transaction still open is rolled back with its locks.
Finish(r) ==
  /\ Goto(r, "idle")
  /\ edge' = [edge EXCEPT ![r] = NoEdge]
  /\ op' = [op EXCEPT ![r] = "LIKE"]
  /\ write' = [write EXCEPT ![r] = "none"]
  /\ seen' = [seen EXCEPT ![r] = "none"]
Proceed(r, step) == Goto(r, step) /\ UNCHANGED <<edge, op, write, seen>>

rows == <<action, mutual, unmatchedBy>>
lists == <<stale, unannounced>>

----------------------------------------------------------------------------
(* The statements, in the order the handlers issue them.                   *)

\* Which requests may overlap.  "any" is what the server allows.  "per_actor"
\* is what one open match page allows: it starts no LIKE, PASS, BLOCK or undo
\* on a candidate while another is pending.  "serial" lets a pair have one
\* request at a time.
Admit(e, o) ==
  \A r \in Requests : InFlight(r) =>
    /\ Admission = "per_actor" /\ "UNMATCH" \notin {o, op[r]} => edge[r] # e
    /\ Admission = "serial" => Pair(r) # PairOf(e)

Begin(r, e, o) ==
  /\ ~InFlight(r)
  /\ Admit(e, o)
  /\ edge' = [edge EXCEPT ![r] = e]
  /\ op' = [op EXCEPT ![r] = o]
  /\ Goto(r, "check")
  /\ UNCHANGED <<rows, seen, write, lists>>

\* (A definition named Mutant... is a plausible bug in the definition that
\* follows it.  No specification uses it: it shows that a property can fail.)
MutantCheckVisible(r) ==  \* the actor's own BLOCK does not hide the candidate
  /\ pc[r] = "check"
  /\ op[r] # "UNMATCH"
  /\ \/ Finish(r)
     \/ Proceed(r, IF op[r] = "UNDO" THEN "readOwn" ELSE "upsert")
  /\ UNCHANGED <<rows, lists>>

\* assertMatchCandidateVisible.  What it asks of the two profiles is outside
\* this module: the request may be refused for it at will.  What matters here
\* is that a candidate the actor has blocked is refused.
CheckVisible(r) ==
  /\ pc[r] = "check"
  /\ op[r] # "UNMATCH"
  /\ \/ Finish(r)
     \/ action[edge[r]] # "BLOCK" /\ Proceed(r, IF op[r] = "UNDO" THEN "readOwn" ELSE "upsert")
  /\ UNCHANGED <<rows, lists>>

\* assertActiveConversationParticipant, for the conversation's own unmatch.
CheckActive(r) ==
  /\ pc[r] = "check"
  /\ op[r] = "UNMATCH"
  /\ \/ mutual[Pair(r)] # "ACTIVE" /\ Finish(r)
     \/ mutual[Pair(r)] = "ACTIVE" /\ Proceed(r, "markUnmatched")
  /\ UNCHANGED <<rows, lists>>

\* deleteAction reads the row it is to undo before the transaction starts.
ReadOwn(r) ==
  /\ pc[r] = "readOwn"
  /\ \/ action[edge[r]] \in {"none", "BLOCK"} /\ Finish(r)
     \/ /\ action[edge[r]] \in {"LIKE", "PASS"}
        /\ seen' = [seen EXCEPT ![r] = action[edge[r]]]
        /\ Goto(r, "delete")
        /\ UNCHANGED <<edge, op, write>>
  /\ UNCHANGED <<rows, lists>>

\* The upsert waits for the row lock, then inserts or overwrites.
Upsert(r) ==
  /\ pc[r] = "upsert"
  /\ ActionFree(edge[r])
  /\ Proceed(r, IF op[r] = "LIKE" THEN "reverse" ELSE "unpair")
  /\ UNCHANGED <<rows, lists>>

MutantDeleteRow(r) ==  \* undoing a LIKE leaves the conversation open
  /\ pc[r] = "delete"
  /\ \/ action[edge[r]] = "none" /\ Finish(r)
     \/ action[edge[r]] # "none" /\ ActionFree(edge[r]) /\ Proceed(r, "commit")
  /\ UNCHANGED <<rows, lists>>

\* The delete fails when the row is gone, and deletes whatever it now holds.
DeleteRow(r) ==
  /\ pc[r] = "delete"
  /\ \/ action[edge[r]] = "none" /\ Finish(r)
     \/ /\ action[edge[r]] # "none"
        /\ ActionFree(edge[r])
        /\ Proceed(r, IF seen[r] = "LIKE" THEN "unpair" ELSE "commit")
  /\ UNCHANGED <<rows, lists>>

MutantReadReverse(r) ==  \* actor and target swapped: reads its own row
  /\ pc[r] = "reverse"
  /\ Proceed(r, IF action[edge[r]] = "LIKE" THEN "lookup" ELSE "commit")
  /\ UNCHANGED <<rows, lists>>

MutantReadReverseLocking(r) ==  \* SELECT ... FOR UPDATE on the reverse row
  /\ pc[r] = "reverse"
  /\ ActionFree(Reverse(edge[r]))
  /\ Proceed(r, IF action[Reverse(edge[r])] = "LIKE" THEN "lookup" ELSE "commit")
  /\ UNCHANGED <<rows, lists>>

ReadReverse(r) ==
  /\ pc[r] = "reverse"
  /\ Proceed(r, IF action[Reverse(edge[r])] = "LIKE" THEN "lookup" ELSE "commit")
  /\ UNCHANGED <<rows, lists>>

LookupMutual(r) ==
  /\ pc[r] = "lookup"
  /\ Proceed(r, CASE mutual[Pair(r)] = "none"      -> "create"
                  [] mutual[Pair(r)] = "ACTIVE"    -> "commit"
                  [] mutual[Pair(r)] = "UNMATCHED" -> "reactivate")
  /\ UNCHANGED <<rows, lists>>

\* A write to the MutualMatch row, not visible to others before Commit.
WriteMutual(r, w) ==
  /\ MutualFree(Pair(r))
  /\ write' = [write EXCEPT ![r] = w]
  /\ Goto(r, "commit")
  /\ UNCHANGED <<edge, op, seen>>

\* The insert waits for a concurrent insert of the same pair; when that one
\* commits, the unique key (userId1, userId2) aborts this transaction.
CreateMutual(r) ==
  /\ pc[r] = "create"
  /\ \/ mutual[Pair(r)] # "none" /\ MutualFree(Pair(r)) /\ Finish(r)
     \/ mutual[Pair(r)] = "none" /\ WriteMutual(r, "CREATE")
  /\ UNCHANGED <<rows, lists>>

\* Update by id: whatever status the row has by the time the lock is granted.
Reactivate(r) ==
  /\ pc[r] = "reactivate"
  /\ WriteMutual(r, "REACTIVATE")
  /\ UNCHANGED <<rows, lists>>

\* updateMany where status = ACTIVE: a row whose committed status does not
\* match is skipped at once, even while another transaction is activating it.
Unpair(r) ==
  /\ pc[r] = "unpair"
  /\ \/ mutual[Pair(r)] # "ACTIVE" /\ Proceed(r, "commit")
     \/ mutual[Pair(r)] = "ACTIVE" /\ WriteMutual(r, "UNMATCH")
  /\ UNCHANGED <<rows, lists>>

----------------------------------------------------------------------------
Created(r) == write[r] \in {"CREATE", "REACTIVATE"}
MutantRowAfter(r) == op[r]  \* an undo stores its own name
RowAfter(r) == IF op[r] = "UNDO" THEN "none" ELSE op[r]

MutantSetMutual(r) ==  \* reactivation keeps the old unmatchedByUserId
  CASE write[r] = "none"    -> UNCHANGED <<mutual, unmatchedBy>>
    [] write[r] = "UNMATCH" -> /\ mutual' = [mutual EXCEPT ![Pair(r)] = "UNMATCHED"]
                               /\ unmatchedBy' = [unmatchedBy EXCEPT ![Pair(r)] = edge[r][1]]
    [] OTHER                -> /\ mutual' = [mutual EXCEPT ![Pair(r)] = "ACTIVE"]
                               /\ UNCHANGED unmatchedBy

\* What committing the request's write makes of its MutualMatch row.
SetMutual(r) ==
  CASE write[r] = "none"    -> UNCHANGED <<mutual, unmatchedBy>>
    [] write[r] = "UNMATCH" -> /\ mutual' = [mutual EXCEPT ![Pair(r)] = "UNMATCHED"]
                               /\ unmatchedBy' = [unmatchedBy EXCEPT ![Pair(r)] = edge[r][1]]
    [] OTHER                -> /\ mutual' = [mutual EXCEPT ![Pair(r)] = "ACTIVE"]
                               /\ unmatchedBy' = [unmatchedBy EXCEPT ![Pair(r)] = Nobody]

Commit(r) ==
  /\ pc[r] = "commit"
  /\ action' = [action EXCEPT ![edge[r]] = RowAfter(r)]
  /\ SetMutual(r)
  /\ stale' = stale \cup {edge[r][1]} \cup (IF write[r] = "none" THEN {} ELSE Pair(r))
  /\ unannounced' = unannounced \cup (IF Created(r) THEN {Pair(r)} ELSE {})
  /\ Goto(r, IF Created(r) THEN "announce" ELSE "actorList")
  /\ UNCHANGED <<edge, op, seen, write>>

\* markUnmatched: a single statement, by id, whatever the status is by now.
MarkUnmatched(r) ==
  /\ pc[r] = "markUnmatched"
  /\ MutualFree(Pair(r))
  /\ mutual' = [mutual EXCEPT ![Pair(r)] = "UNMATCHED"]
  /\ unmatchedBy' = [unmatchedBy EXCEPT ![Pair(r)] = edge[r][1]]
  /\ stale' = stale \cup Pair(r)
  /\ write' = [write EXCEPT ![r] = "UNMATCH"]
  /\ Goto(r, "actorList")
  /\ UNCHANGED <<action, unannounced, edge, op, seen>>

MutantAnnounce(r) ==  \* the notification is skipped
  /\ pc[r] = "announce"
  /\ Proceed(r, "actorList")
  /\ UNCHANGED <<rows, lists>>

\* After the transaction: e-mail and push to both sides of a new match ...
Announce(r) ==
  /\ pc[r] = "announce"
  /\ unannounced' = unannounced \ {Pair(r)}
  /\ Proceed(r, "actorList")
  /\ UNCHANGED <<rows, stale>>

MutantRefreshActor(r) ==  \* the other side's list is forgotten
  /\ pc[r] = "actorList"
  /\ stale' = stale \ {edge[r][1]}
  /\ Finish(r)
  /\ UNCHANGED <<rows, unannounced>>

\* ... then the list rebuild of the actor, and of the other side when the
\* pair's MutualMatch row was written.
RefreshActor(r) ==
  /\ pc[r] = "actorList"
  /\ stale' = stale \ {edge[r][1]}
  /\ IF write[r] = "none" THEN Finish(r) ELSE Proceed(r, "otherList")
  /\ UNCHANGED <<rows, unannounced>>

RefreshOther(r) ==
  /\ pc[r] = "otherList"
  /\ stale' = stale \ {edge[r][2]}
  /\ Finish(r)
  /\ UNCHANGED <<rows, unannounced>>

\* A request that dies loses its open transaction and whatever was to follow.
Abort(r) ==
  /\ Faults
  /\ InFlight(r)
  /\ Finish(r)
  /\ UNCHANGED <<rows, lists>>

Step(r) ==
  \/ CheckVisible(r) \/ CheckActive(r) \/ ReadOwn(r)
  \/ Upsert(r) \/ DeleteRow(r) \/ ReadReverse(r) \/ LookupMutual(r)
  \/ CreateMutual(r) \/ Reactivate(r) \/ Unpair(r) \/ Commit(r)
  \/ MarkUnmatched(r) \/ Announce(r) \/ RefreshActor(r) \/ RefreshOther(r)

Next ==
  \E r \in Requests :
    \/ \E e \in Edges, o \in Verbs \cup {"UNDO", "UNMATCH"} : Begin(r, e, o)
    \/ Step(r)
    \/ Abort(r)

Spec == Init /\ [][Next]_vars

\* The database queues the waiters of a row lock and Node runs every request
\* whose statement has returned, so no request is passed over for ever.
Fairness == \A r \in Requests : SF_vars(Step(r))
FairSpec == Spec /\ Fairness

----------------------------------------------------------------------------
Quiet(p) == \A r \in Requests : InFlight(r) => Pair(r) # p

\* BLOCK cannot be undone: a BLOCK row is never overwritten nor deleted, by
\* whatever the blocker asks next (deleteAction's 403, the visibility check).
BlockIsFinal ==
  [][\A e \in Edges : action[e] = "BLOCK" => action'[e] = "BLOCK"]_vars

\* A conversation is open only between two users who both like each other:
\* pass, block and undo close it in the transaction that changes the row.
ActiveMeansBothLike ==
  \A e \in Edges : mutual[PairOf(e)] = "ACTIVE" => action[e] = "LIKE"

\* Two users who like each other have a conversation (perhaps unmatched by
\* one of them) once no request of theirs is running: detection missed none.
NoMissedMatch ==
  \A e \in Edges :
    /\ Quiet(PairOf(e))
    /\ action[e] = "LIKE"
    /\ action[Reverse(e)] = "LIKE"
    => mutual[PairOf(e)] # "none"

\* A pair becomes ACTIVE, the first time or again, only in a step after which
\* at least one of the two likes the other: detection runs on a LIKE alone,
\* whatever the two have withdrawn while it ran.
ActivationStoresLike ==
  [][\A p \in Pairs : mutual[p] # "ACTIVE" /\ mutual'[p] = "ACTIVE" =>
       \E e \in Edges : PairOf(e) = p /\ action'[e] = "LIKE"]_vars

\* Of several requests that detect the same first match, one inserts the
\* MutualMatch row: when an insert commits the pair has no row yet, so two
\* simultaneous LIKEs cannot open two conversations.
InsertIsFirst ==
  \A r \in Requests : pc[r] = "commit" /\ write[r] = "CREATE" => mutual[Pair(r)] = "none"

\* unmatchedByUserId names one of the two users exactly while the pair is
\* UNMATCHED, whichever of the four writers came last.
BlameFollowsStatus ==
  \A p \in Pairs : IF mutual[p] = "UNMATCHED" THEN unmatchedBy[p] \in p
                                               ELSE unmatchedBy[p] = Nobody

\* No two transactions wait for each other's row locks: every request ends.
RequestsEnd == \A r \in Requests : InFlight(r) ~> ~InFlight(r)

\* Everyone whose match list a commit has changed gets a rebuild, and every
\* match that became ACTIVE is announced, as long as no request dies.
ListsRefreshed == \A u \in Users : u \in stale ~> u \notin stale
MatchesAnnounced == \A p \in Pairs : p \in unannounced ~> p \notin unannounced

\* Requests that do not overlap on a pair keep the promise of MatchPair: each
\* changes the rows of its pair as one atomic operation, or not at all.
Promise == INSTANCE MatchPair
  WITH Users <- Users, action <- action, mutual <- mutual, unmatchedBy <- unmatchedBy
AtomicRequests == Promise!Spec
=============================================================================
