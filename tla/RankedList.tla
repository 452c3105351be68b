------------------------------ MODULE RankedList ------------------------------
(***************************************************************************)
(* One viewer's ranked match list: the rows of MatchListRank, the list     *)
(* cached in Redis, the requests that change who belongs on it, the        *)
(* rebuild job rebuild:{viewerUserId} (or, without Redis, runs started     *)
(* inline), and the readers that fill the cache or ask for a rebuild of an *)
(* empty list.                                                             *)
(*                                                                         *)
(* A request, a run and a reader are processes; an action is one await of  *)
(* theirs.  A list is the set of the candidates on it.                     *)
(***************************************************************************)
EXTENDS StableJob, Sequences

CONSTANTS
  Candidates,
  Writers,     \* requests that change the facts the list is built from
  Readers,     \* requests for the list
  Runs,        \* bound: rebuilds that may exist at once
  MaxChanges   \* bound: the number of changes

ASSUME MaxChangesAssumption == MaxChanges \in Nat

VARIABLES
  eligible,   \* the candidates the facts put on the list
  changes,    \* how often the facts have changed
  recent,     \* history: the lists they have made since the last change that asks for a
              \* rebuild, its own included
  fresh,      \* history: the same since the last change that asks for anything
  ranks,      \* the candidates with a MatchListRank row
  cache,      \* the list in Redis: empty, or the set of that one list
  guard,      \* the list-empty key in Redis
  writer,     \* the calls each writer still makes after its commit
  reader,     \* each reader's next step and the list it has built
  job,        \* the Bull job rebuild:{viewerUserId}
  run,        \* the rebuilds
  redis,      \* REDIS_URL is set: there are a queue and a cache
  materialized, \* MATCH_LIST_MATERIALIZED
  stale,      \* history: the cached list has missed an invalidation, see Miss
  mishap      \* history: a rebuild has been lost and none has begun since, see Mishap

facts == <<eligible, changes, recent, fresh>>
stored == <<ranks, cache, guard>>
setting == <<redis, materialized>>
vars == <<facts, stored, writer, reader, job, run, setting, stale, mishap>>

Lists == SUBSET Candidates
Calls(u) == {writer[u][i] : i \in DOMAIN writer[u]}
NoRun == [at |-> "idle", list |-> {}, todo |-> {}, retry |-> FALSE]
NoReader == [at |-> "idle", list |-> {}, old |-> FALSE]

\* The calls that follow a commit: a match action, an undo and a finished analysis; an
\* unmatch, a first profile and new preferences; new preferences with another dating
\* chapter; that chapter alone and a submission; a patch of anything else, a review of
\* the viewer's photos and whatever a candidate does.
FollowUps ==
  {<<"invalidate", "enqueue">>, <<"enqueue">>, <<"enqueue", "invalidate">>,
   <<"invalidate">>, <<>>}
Rebuilt == {calls \in FollowUps : \E i \in DOMAIN calls : calls[i] = "enqueue"}

TypeOK ==
  /\ eligible \in Lists /\ ranks \in Lists
  /\ changes \in 0 .. MaxChanges
  /\ recent \subseteq Lists /\ fresh \subseteq Lists
  /\ cache \in {{}} \cup {{list} : list \in Lists}
  /\ writer \in [Writers -> FollowUps]
  /\ reader \in [Readers -> [at : {"idle", "store", "enqueue"}, list : Lists, old : BOOLEAN]]
  /\ job \in Job
  /\ run \in [Runs -> [at : {"idle", "read", "upsert", "purge", "invalidate", "requeue"},
                       list : Lists, todo : Lists, retry : BOOLEAN]]
  /\ {guard, redis, materialized, stale, mishap} \subseteq BOOLEAN

Init ==
  /\ eligible = {} /\ ranks = {}
  /\ changes = 0
  /\ recent = {eligible} /\ fresh = {eligible}
  /\ cache = {}
  /\ guard = FALSE
  /\ writer = [u \in Writers |-> <<>>]
  /\ reader = [r \in Readers |-> NoReader]
  /\ job = NoJob
  /\ run = [w \in Runs |-> NoRun]
  /\ redis \in BOOLEAN /\ materialized \in BOOLEAN
  /\ stale = FALSE /\ mishap = FALSE

\* A rebuild a writer asks for is lost when it is asked for under the id of a finished
\* job, or while the job has read facts that are out of date; when it cannot be asked
\* for; when it stops at its time budget as a job, whose own id swallows the retry, or
\* at the second try; when it fails for the last time; when whoever was to ask for it
\* or to run it dies and no retry makes up for it; and when it runs inline beside one
\* that has read another list.  Only a rebuild that begins alone makes up for a loss.
Mishap(happens) == mishap' = (mishap \/ happens)

At(steps) == \E w \in Runs : run[w].at \in steps
Writing == {"upsert", "purge"}
AfterRead == Writing \cup {"invalidate", "requeue"}
Goto(w, step) == run' = [run EXCEPT ![w].at = step]
Leave(w) == run' = [run EXCEPT ![w] = NoRun]

\* A rebuild begins; which free place it takes is of no consequence.
Idle == {w \in Runs : run[w].at = "idle"}
Start == Idle # {} /\ Goto(CHOOSE w \in Idle : TRUE, "read")

----------------------------------------------------------------------------
(* The two calls: invalidateMatchListCache and enqueueRebuild.             *)

\* An invalidation passes by the lists that readers are about to store.
Overtake == reader' = [r \in Readers |-> [reader[r] EXCEPT !.old = @ \/ reader[r].at = "store"]]

\* One that does not reach Redis passes by the cached list, too.
Miss == stale' = redis /\ Overtake

MutantInvalidate ==  \* only the list-empty key is deleted
  /\ guard' = FALSE
  /\ UNCHANGED <<cache, reader, stale>>

\* Redis errors are swallowed.
Invalidate ==
  \/ /\ redis
     /\ cache' = {}
     /\ guard' = FALSE
     /\ stale' = FALSE
     /\ Overtake
  \/ /\ Miss
     /\ UNCHANGED <<cache, guard>>

\* With the queue up: add under the fixed id.  Without it: a run of its own.
EnqueueRebuild ==
  \/ /\ redis
     /\ job' = Added(job)
     /\ UNCHANGED run
  \/ /\ ~redis
     /\ Start
     /\ UNCHANGED job

\* The id is in the way of a rebuild with facts as recent as a writer's change.
Swallowed ==
  \/ job.state \in Finished
  \/ \E w \in Runs : run[w].at \in AfterRead /\ run[w].list \notin recent

----------------------------------------------------------------------------
(* The requests.                                                           *)

\* The transaction of a request that changes who belongs on the list, then the calls
\* that follow it, if any.
Commit(u) ==
  /\ writer[u] = <<>>
  /\ changes < MaxChanges
  /\ changes' = changes + 1
  /\ eligible' \in Lists
  /\ \E calls \in FollowUps :
       /\ writer' = [writer EXCEPT ![u] = calls]
       /\ recent' = {eligible'} \cup (IF calls \in Rebuilt THEN {} ELSE recent)
       /\ fresh' = {eligible'} \cup (IF calls # <<>> THEN {} ELSE fresh)
  /\ UNCHANGED <<stored, reader, job, run, setting, stale, mishap>>

WriterInvalidates(u) ==
  /\ writer[u] # <<>> /\ Head(writer[u]) = "invalidate"
  /\ Invalidate
  /\ writer' = [writer EXCEPT ![u] = Tail(@)]
  /\ UNCHANGED <<facts, ranks, job, run, setting, mishap>>

WriterEnqueues(u) ==
  /\ writer[u] # <<>> /\ Head(writer[u]) = "enqueue"
  /\ EnqueueRebuild
  /\ Mishap(redis /\ Swallowed)
  /\ writer' = [writer EXCEPT ![u] = Tail(@)]
  /\ UNCHANGED <<facts, stored, reader, setting, stale>>

\* The queue refuses the job, or the process dies: no further call is made.
WriterFails(u) ==
  /\ writer[u] # <<>>
  /\ writer' = [writer EXCEPT ![u] = <<>>]
  /\ Mishap("enqueue" \in Calls(u))
  /\ IF "invalidate" \in Calls(u) THEN Miss ELSE UNCHANGED <<reader, stale>>
  /\ UNCHANGED <<facts, stored, job, run, setting>>

----------------------------------------------------------------------------
(* The readers.                                                            *)

\* getOrBuildRankedList on a miss: the list is built from the facts (and only returned
\* when there is no Redis) ...
BuildList(r) ==
  /\ redis /\ ~materialized
  /\ reader[r].at = "idle"
  /\ cache = {}
  /\ reader' = [reader EXCEPT ![r] = [at |-> "store", list |-> eligible, old |-> FALSE]]
  /\ UNCHANGED <<facts, stored, writer, job, run, setting, stale, mishap>>

\* ... and stored, unless Redis fails or the viewer was not ready.
StoreList(r) ==
  /\ reader[r].at = "store"
  /\ reader' = [reader EXCEPT ![r] = NoReader]
  /\ \/ /\ cache' = {reader[r].list}
        /\ stale' = reader[r].old
     \/ UNCHANGED <<cache, stale>>
  /\ UNCHANGED <<facts, ranks, guard, writer, job, run, setting, mishap>>

\* listFromMaterializedRanks on an empty first page: maybeEnqueueListEmpty, once per
\* life of the key, or whenever Redis fails.
ReadEmpty(r) ==
  /\ materialized
  /\ reader[r].at = "idle"
  /\ ranks = {}
  /\ \/ redis /\ ~guard /\ guard' = TRUE
     \/ UNCHANGED guard
  /\ reader' = [reader EXCEPT ![r].at = "enqueue"]
  /\ UNCHANGED <<facts, ranks, cache, writer, job, run, setting, stale, mishap>>

ReaderEnqueues(r) ==
  /\ reader[r].at = "enqueue"
  /\ EnqueueRebuild
  /\ reader' = [reader EXCEPT ![r] = NoReader]
  /\ UNCHANGED <<facts, stored, writer, setting, stale, mishap>>

\* A reader fails or dies: nothing was its to do.
ReaderFails(r) ==
  /\ reader[r].at # "idle"
  /\ reader' = [reader EXCEPT ![r] = NoReader]
  /\ UNCHANGED <<facts, stored, writer, job, run, setting, stale, mishap>>

\* A key in Redis reaches its time to live.
Expire ==
  /\ cache' \in {cache, {}}
  /\ guard' \in {guard, FALSE}
  /\ <<cache, guard>>' # <<cache, guard>>
  /\ UNCHANGED <<facts, ranks, writer, reader, job, run, setting, stale, mishap>>

----------------------------------------------------------------------------
(* A rebuild: rebuildMatchListRanks inside runJob.                         *)

Return == job' = (IF redis THEN Returned(job) ELSE job)

Take ==
  /\ job.state = "waiting"
  /\ job' = Taken(job)
  /\ Start
  /\ UNCHANGED <<facts, stored, writer, reader, setting, stale, mishap>>

MutantSnapshot(w) ==  \* a snapshot that is not ready is persisted by no one
  /\ run[w].at = "read"
  /\ \/ /\ run' = [run EXCEPT ![w].at = IF eligible = {} THEN "not_ready" ELSE "upsert",
                              ![w].list = eligible, ![w].todo = eligible]
        /\ UNCHANGED mishap
     \/ Goto(w, "requeue") /\ Mishap(redis \/ run[w].retry)
  /\ UNCHANGED <<facts, stored, writer, reader, job, setting, stale>>

\* buildMatchListRankSnapshot: rows, none, or out of time.
Snapshot(w) ==
  /\ run[w].at = "read"
  /\ \/ /\ run' = [run EXCEPT ![w].at = IF eligible = {} THEN "purge" ELSE "upsert",
                              ![w].list = eligible, ![w].todo = eligible]
        /\ mishap' = \E v \in Runs \ {w} :
                       \/ mishap /\ run[v].at \in AfterRead
                       \/ run[v].at \in Writing /\ run[v].list # eligible
     \/ Goto(w, "requeue") /\ Mishap(redis \/ run[w].retry)
  /\ UNCHANGED <<facts, stored, writer, reader, job, setting, stale>>

\* replaceRankSnapshot: a transaction per chunk of rows ...
UpsertChunk(w) ==
  /\ run[w].at = "upsert"
  /\ \E chunk \in SUBSET run[w].todo \ {{}} :
       /\ ranks' = ranks \cup chunk
       /\ run' = [run EXCEPT ![w].todo = @ \ chunk,
                             ![w].at = IF chunk = run[w].todo THEN "purge" ELSE "upsert"]
  /\ UNCHANGED <<facts, cache, guard, writer, reader, job, setting, stale, mishap>>

MutantPurge(w) ==  \* a snapshot without rows is not written at all
  /\ run[w].at = "purge"
  /\ ranks' = IF run[w].list = {} THEN ranks ELSE ranks \cap run[w].list
  /\ Goto(w, "invalidate")
  /\ UNCHANGED <<facts, cache, guard, writer, reader, job, setting, stale, mishap>>

\* ... then every other row is deleted; all of them when the snapshot has none.
Purge(w) ==
  /\ run[w].at = "purge"
  /\ ranks' = ranks \cap run[w].list
  /\ Goto(w, "invalidate")
  /\ UNCHANGED <<facts, cache, guard, writer, reader, job, setting, stale, mishap>>

RunInvalidates(w) ==
  /\ run[w].at = "invalidate"
  /\ Invalidate
  /\ Leave(w)
  /\ Return
  /\ UNCHANGED <<facts, ranks, writer, setting, mishap>>

\* budget_exceeded: nothing is written; a retry is asked for unless this was one.
\* As a job the retry meets its own id; inline it is a run of its own.
Requeue(w) ==
  /\ run[w].at = "requeue"
  /\ IF redis \/ run[w].retry
     THEN Leave(w)
     ELSE run' = [run EXCEPT ![w] = [NoRun EXCEPT !.at = "read", !.retry = TRUE]]
  /\ Return
  /\ UNCHANGED <<facts, stored, writer, reader, setting, stale, mishap>>

MutantRunFails(w) ==  \* the error is caught in runJob and the job returns
  /\ run[w].at \in {"read", "upsert", "purge"}
  /\ Leave(w)
  /\ Return
  /\ Mishap(~redis)
  /\ UNCHANGED <<facts, stored, writer, reader, setting, stale>>

\* A query or a transaction fails and the job throws.
RunFails(w) ==
  /\ run[w].at \in {"read", "upsert", "purge"}
  /\ Leave(w)
  /\ job' = (IF redis THEN Thrown(job) ELSE job)
  /\ Mishap(~redis \/ Thrown(job).state = "failed")
  /\ UNCHANGED <<facts, stored, writer, reader, setting, stale>>

RunDies(w) ==
  /\ run[w].at # "idle"
  /\ Leave(w)
  /\ Mishap(~redis \/ job.stalls = MaxStalls)
  /\ UNCHANGED <<facts, stored, writer, reader, job, setting, stale>>

WorkerGone == job.state = "active" /\ \A w \in Runs : run[w].at = "idle"

JobStalls ==
  /\ WorkerGone
  /\ job' = Stalled(job)
  /\ UNCHANGED <<facts, stored, writer, reader, run, setting, stale, mishap>>

BackoffEnds ==
  /\ job.state = "delayed"
  /\ job' = Elapsed(job)
  /\ UNCHANGED <<facts, stored, writer, reader, run, setting, stale, mishap>>

JobForgotten ==
  /\ job.state \in Finished
  /\ job' = Forgotten(job)
  /\ UNCHANGED <<facts, stored, writer, reader, run, setting, stale, mishap>>

WriterStep(u) == WriterInvalidates(u) \/ WriterEnqueues(u)
RunStep(w) == Snapshot(w) \/ UpsertChunk(w) \/ Purge(w) \/ RunInvalidates(w) \/ Requeue(w)

Next ==
  \/ \E u \in Writers : Commit(u) \/ WriterStep(u) \/ WriterFails(u)
  \/ \E r \in Readers :
       BuildList(r) \/ StoreList(r) \/ ReadEmpty(r) \/ ReaderEnqueues(r) \/ ReaderFails(r)
  \/ \E w \in Runs : RunStep(w) \/ RunFails(w) \/ RunDies(w)
  \/ Take \/ Expire \/ JobStalls \/ BackoffEnds \/ JobForgotten

Spec == Init /\ [][Next]_vars

\* Node runs every continuation; Bull hands out waiting jobs, ends backoffs and checks
\* for stalled jobs on its timers.
Fairness ==
  /\ \A u \in Writers : WF_vars(WriterStep(u))
  /\ \A w \in Runs : WF_vars(RunStep(w))
  /\ WF_vars(Take) /\ WF_vars(BackoffEnds) /\ WF_vars(JobStalls)

FairSpec == Spec /\ Fairness

----------------------------------------------------------------------------
\* A rebuild is still to come, or under way with facts that are recent enough.
Coming ==
  \/ \E u \in Writers : "enqueue" \in Calls(u)
  \/ job.state \in {"waiting", "delayed"}
  \/ WorkerGone
  \/ \E w \in Runs :
       \/ run[w].at = "read"
       \/ run[w].at \in Writing /\ run[w].list \in recent
       \/ run[w].at = "requeue" /\ ~run[w].retry

\* The rows are a list that the facts have made no earlier than the last change that
\* asks for a rebuild, or a rebuild of them is coming, also after a run has failed or
\* died between its chunks and through changes nobody asks a rebuild for.
RanksFollow == ~mishap => ranks \in recent \/ Coming

\* A cached list from before the last change that asks for an invalidation or a rebuild
\* is about to be dropped, although an unmatch, a first profile and new preferences do
\* not drop it themselves: the rebuild they ask for does.
CacheFollows ==
  ~mishap /\ ~stale /\ cache \notin {{}} \cup {{list} : list \in fresh}
  => \/ Coming
     \/ At({"invalidate"})
     \/ \E u \in Writers : "invalidate" \in Calls(u)

\* Every change that asks for a rebuild reaches the rows, unless the rebuild is lost.
EventuallyRanked == ranks \notin recent ~> ranks \in recent \/ mishap
=============================================================================
