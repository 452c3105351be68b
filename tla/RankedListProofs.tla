--------------------------- MODULE RankedListProofs ---------------------------
(***************************************************************************)
(* Proofs about RankedList, for every set of candidates, writers, readers  *)
(* and runs: the type invariant, and that rows and a cached list which are *)
(* older than the last change that asks for it are about to be replaced.   *)
(*                                                                         *)
(* Besides what the queue guarantees, the inductive invariant says what    *)
(* runs under way at once may have read: as long as no rebuild is lost,    *)
(* they have read the same list, and if it is out of date another rebuild  *)
(* is to read the facts.  A loss ends with a rebuild that begins alone.    *)
(***************************************************************************)
EXTENDS RankedList, TLAPS

RunSteps == {"idle", "read", "upsert", "purge", "invalidate", "requeue"}
Run == [at : RunSteps, list : Lists, todo : Lists, retry : BOOLEAN]
Reader == [at : {"idle", "store", "enqueue"}, list : Lists, old : BOOLEAN]
Sequels == {<<"invalidate", "enqueue">>, <<"enqueue">>, <<"enqueue", "invalidate">>,
            <<"invalidate">>, <<>>}
CallsOf(s) == {s[i] : i \in DOMAIN s}

----------------------------------------------------------------------------
(* The calls of a writer.                                                  *)

\* What is left of a writer's calls after the first of them.
LEMMA Sequel ==
  ASSUME NEW s \in Sequels, s # <<>>
  PROVE  /\ Tail(s) \in Sequels
         /\ CallsOf(s) = {Head(s)} \cup CallsOf(Tail(s))
<1>1. CASE s = <<"invalidate", "enqueue">>
  <2>1. Head(s) = "invalidate" /\ Tail(s) = <<"enqueue">>
    BY <1>1
  <2>2. DOMAIN s = {1, 2} /\ DOMAIN Tail(s) = {1}
    BY <1>1, <2>1
  <2>. QED  BY <1>1, <2>1, <2>2 DEF CallsOf, Sequels
<1>2. CASE s = <<"enqueue", "invalidate">>
  <2>1. Head(s) = "enqueue" /\ Tail(s) = <<"invalidate">>
    BY <1>2
  <2>2. DOMAIN s = {1, 2} /\ DOMAIN Tail(s) = {1}
    BY <1>2, <2>1
  <2>. QED  BY <1>2, <2>1, <2>2 DEF CallsOf, Sequels
<1>3. ASSUME NEW call \in {"enqueue", "invalidate"}, s = <<call>>
      PROVE  Tail(s) \in Sequels /\ CallsOf(s) = {Head(s)} \cup CallsOf(Tail(s))
  <2>1. Head(s) = call /\ s \in Seq({"enqueue", "invalidate"}) /\ Len(s) = 1
    BY <1>3
  <2>2. Tail(s) \in Seq({"enqueue", "invalidate"}) /\ Len(Tail(s)) = 0
    BY <2>1
  <2>3. Tail(s) = <<>>
    BY <2>2
  <2>4. DOMAIN s = {1} /\ s[1] = call /\ DOMAIN Tail(s) = {}
    BY <1>3, <2>3
  <2>. QED  BY <2>1, <2>3, <2>4 DEF CallsOf, Sequels
<1>. QED  BY <1>1, <1>2, <1>3 DEF Sequels

\* What a change asks for.
LEMMA FollowUpsAre ==
  /\ FollowUps = Sequels
  /\ CallsOf(<<>>) = {}
  /\ \A s \in FollowUps :
       /\ s \in Rebuilt <=> "enqueue" \in CallsOf(s)
       /\ s # <<>> => "enqueue" \in CallsOf(s) \/ "invalidate" \in CallsOf(s)
<1>1. FollowUps = Sequels
  BY DEF FollowUps, Sequels
<1>2. CallsOf(<<>>) = {}
  BY DEF CallsOf
<1>3. ASSUME NEW s \in FollowUps
      PROVE  s \in Rebuilt <=> "enqueue" \in CallsOf(s)
  BY DEF Rebuilt, CallsOf
<1>4. ASSUME NEW s \in FollowUps, s # <<>>
      PROVE  "enqueue" \in CallsOf(s) \/ "invalidate" \in CallsOf(s)
  <2>1. CASE s = <<"invalidate", "enqueue">> \/ s = <<"invalidate">>
    <3>1. 1 \in DOMAIN s /\ s[1] = "invalidate"
      BY <2>1
    <3>. QED  BY <3>1 DEF CallsOf
  <2>2. CASE s = <<"enqueue">> \/ s = <<"enqueue", "invalidate">>
    <3>1. 1 \in DOMAIN s /\ s[1] = "enqueue"
      BY <2>2
    <3>. QED  BY <3>1 DEF CallsOf
  <2>. QED  BY <1>4, <2>1, <2>2 DEF FollowUps
<1>. QED  BY <1>1, <1>2, <1>3, <1>4

----------------------------------------------------------------------------
(* The runs.                                                               *)

\* What an action makes of one run; the others stay.
Becomes(w, x) ==
  /\ run' \in [Runs -> Run]
  /\ run'[w] = x
  /\ \A v \in Runs : v # w => run'[v] = run[v]

LEMMA RunSet ==
  ASSUME TypeOK, NEW w \in Runs, NEW x \in Run, run' = [run EXCEPT ![w] = x]
  PROVE  Becomes(w, x)
<1>1. run \in [Runs -> Run]
  BY DEF TypeOK, Run, RunSteps
<1>. QED  BY <1>1 DEF Becomes

LEMMA RunGoes ==
  ASSUME TypeOK, NEW w \in Runs, NEW step \in RunSteps, Goto(w, step)
  PROVE  \E x \in Run : /\ Becomes(w, x) /\ x.at = step /\ x.list = run[w].list
                        /\ x.todo = run[w].todo /\ x.retry = run[w].retry
<1>1. run \in [Runs -> Run] /\ run[w] \in Run
  BY DEF TypeOK, Run, RunSteps
<1> DEFINE x == [run[w] EXCEPT !.at = step]
<1>2. x \in Run /\ x.at = step /\ x.list = run[w].list /\ x.todo = run[w].todo
      /\ x.retry = run[w].retry
  BY <1>1 DEF Run
<1>3. run' = [run EXCEPT ![w] = x]
  BY <1>1 DEF Goto
<1> HIDE DEF x
<1>. QED  BY <1>2, <1>3, RunSet

LEMMA RunLeaves ==
  ASSUME TypeOK, NEW w \in Runs, Leave(w)
  PROVE  NoRun.at = "idle" /\ Becomes(w, NoRun)
<1>1. NoRun \in Run /\ NoRun.at = "idle"
  BY DEF NoRun, Run, RunSteps, Lists
<1>. QED  BY <1>1, RunSet DEF Leave

LEMMA RunStarts ==
  ASSUME TypeOK, Start
  PROVE  \E w \in Runs, x \in Run : run[w].at = "idle" /\ Becomes(w, x) /\ x.at = "read"
<1>1. PICK w \in Idle : Goto(w, "read")
  BY DEF Start
<1>2. w \in Runs /\ run[w].at = "idle" /\ "read" \in RunSteps
  BY DEF Idle, RunSteps
<1>. QED  BY <1>1, <1>2, RunGoes

\* The snapshot is of the facts as they are, or the run is out of time.
LEMMA RunReads ==
  ASSUME TypeOK, NEW w \in Runs, Snapshot(w)
  PROVE  \E x \in Run :
           /\ Becomes(w, x)
           /\ \/ /\ x.at = (IF eligible = {} THEN "purge" ELSE "upsert")
                 /\ x.list = eligible /\ x.todo = eligible
                 /\ mishap' = \E v \in Runs \ {w} :
                                \/ mishap /\ run[v].at \in AfterRead
                                \/ run[v].at \in Writing /\ run[v].list # eligible
              \/ /\ x.at = "requeue" /\ x.retry = run[w].retry
                 /\ mishap' = (mishap \/ redis \/ run[w].retry)
<1>1. run \in [Runs -> Run] /\ run[w] \in Run /\ eligible \in Lists
  BY DEF TypeOK, Run, RunSteps
<1>2. CASE Goto(w, "requeue") /\ Mishap(redis \/ run[w].retry)
  <2>1. "requeue" \in RunSteps
    BY DEF RunSteps
  <2>2. PICK x \in Run : Becomes(w, x) /\ x.at = "requeue" /\ x.retry = run[w].retry
    BY <1>2, <2>1, RunGoes
  <2>. QED  BY <1>2, <2>2 DEF Mishap
<1>3. ASSUME run' = [run EXCEPT ![w].at = IF eligible = {} THEN "purge" ELSE "upsert",
                              ![w].list = eligible, ![w].todo = eligible]
      PROVE  \E x \in Run : /\ Becomes(w, x)
                            /\ x.at = (IF eligible = {} THEN "purge" ELSE "upsert")
                            /\ x.list = eligible /\ x.todo = eligible
  <2> DEFINE x == [run[w] EXCEPT !.at = IF eligible = {} THEN "purge" ELSE "upsert",
                                !.list = eligible, !.todo = eligible]
  <2>1. x \in Run /\ x.at = (IF eligible = {} THEN "purge" ELSE "upsert") /\ x.list = eligible
        /\ x.todo = eligible
    BY <1>1 DEF Run, RunSteps
  <2>2. run' = [run EXCEPT ![w] = x]
    BY <1>1, <1>3
  <2> HIDE DEF x
  <2>. QED  BY <2>1, <2>2, RunSet
<1>4. \/ /\ run' = [run EXCEPT ![w].at = IF eligible = {} THEN "purge" ELSE "upsert",
                              ![w].list = eligible, ![w].todo = eligible]
         /\ mishap' = \E v \in Runs \ {w} :
                        \/ mishap /\ run[v].at \in AfterRead
                        \/ run[v].at \in Writing /\ run[v].list # eligible
      \/ Goto(w, "requeue") /\ Mishap(redis \/ run[w].retry)
  BY DEF Snapshot
<1>5. CASE Goto(w, "requeue") /\ Mishap(redis \/ run[w].retry)
  BY <1>2, <1>5
<1>. QED  BY <1>3, <1>4, <1>5

LEMMA RunUpserts ==
  ASSUME TypeOK, NEW w \in Runs, UpsertChunk(w)
  PROVE  \E x \in Run, chunk \in SUBSET run[w].todo :
           /\ Becomes(w, x) /\ ranks' = ranks \cup chunk /\ ranks' \in Lists
           /\ x.at = (IF chunk = run[w].todo THEN "purge" ELSE "upsert")
           /\ x.list = run[w].list /\ x.todo = run[w].todo \ chunk
<1>1. run \in [Runs -> Run] /\ run[w] \in Run /\ ranks \in Lists
  BY DEF TypeOK, Run, RunSteps
<1>2. PICK chunk \in SUBSET run[w].todo \ {{}} :
        /\ ranks' = ranks \cup chunk
        /\ run' = [run EXCEPT ![w].todo = run[w].todo \ chunk,
                              ![w].at = IF chunk = run[w].todo THEN "purge" ELSE "upsert"]
  BY <1>1 DEF UpsertChunk
<1> DEFINE x == [run[w] EXCEPT !.todo = run[w].todo \ chunk,
                              !.at = IF chunk = run[w].todo THEN "purge" ELSE "upsert"]
<1>3. x \in Run /\ x.at = (IF chunk = run[w].todo THEN "purge" ELSE "upsert")
      /\ x.list = run[w].list /\ x.todo = run[w].todo \ chunk /\ ranks' \in Lists
  BY <1>1, <1>2 DEF Run, RunSteps, Lists
<1>4. run' = [run EXCEPT ![w] = x]
  BY <1>1, <1>2
<1> HIDE DEF x
<1>. QED  BY <1>2, <1>3, <1>4, RunSet

LEMMA RunPurges ==
  ASSUME TypeOK, NEW w \in Runs, Purge(w)
  PROVE  \E x \in Run : Becomes(w, x) /\ x.at = "invalidate" /\ x.list = run[w].list
<1>1. "invalidate" \in RunSteps
  BY DEF RunSteps
<1>. QED  BY <1>1, RunGoes DEF Purge

LEMMA RunRequeues ==
  ASSUME TypeOK, NEW w \in Runs, Requeue(w)
  PROVE  \E x \in Run :
           Becomes(w, x) /\ x.at = (IF redis \/ run[w].retry THEN "idle" ELSE "read")
<1>1. CASE redis \/ run[w].retry
  <2>1. NoRun.at = "idle" /\ Becomes(w, NoRun)
    BY <1>1, RunLeaves DEF Requeue
  <2>2. NoRun \in Run
    BY DEF NoRun, Run, RunSteps, Lists
  <2>. QED  BY <1>1, <2>1, <2>2
<1>2. CASE ~(redis \/ run[w].retry)
  <2> DEFINE x == [NoRun EXCEPT !.at = "read", !.retry = TRUE]
  <2>1. x \in Run /\ x.at = "read"
    BY DEF NoRun, Run, RunSteps, Lists
  <2>2. run' = [run EXCEPT ![w] = x]
    BY <1>2 DEF Requeue
  <2> HIDE DEF x
  <2>. QED  BY <1>2, <2>1, <2>2, RunSet
<1>. QED  BY <1>1, <1>2

----------------------------------------------------------------------------
(* The job.                                                                *)

\* What each event makes of a job.
LEMMA JobEvents ==
  ASSUME NEW j \in Job
  PROVE  /\ NoJob \in Job /\ NoJob.state = "none"
         /\ Added(j) \in Job /\ (j.state = "none" => Added(j).state = "waiting")
         /\ (j.state # "none" => Added(j) = j)
         /\ Taken(j) \in Job /\ Taken(j).state = "active" /\ Taken(j).stalls = j.stalls
         /\ Returned(j) \in Job /\ Returned(j).state = "completed"
         /\ Thrown(j) \in Job /\ Thrown(j).state \in {"delayed", "failed"}
         /\ Elapsed(j) \in Job /\ Elapsed(j).state = "waiting"
         /\ Stalled(j) \in Job /\ Stalled(j).state \in {"waiting", "failed"}
         /\ (j.stalls # MaxStalls => Stalled(j).state = "waiting")
         /\ Forgotten(j) \in Job
         /\ (Forgotten(j).state = "none" \/ Forgotten(j) = j)
<1> USE DEF Job, Live, Finished, Attempts, MaxStalls
<1>1. NoJob \in Job /\ NoJob.state = "none"
  BY DEF NoJob
<1>2. Added(j) \in Job /\ (j.state = "none" => Added(j).state = "waiting")
      /\ (j.state # "none" => Added(j) = j)
  BY DEF Added, NoJob
<1>3. Taken(j) \in Job /\ Taken(j).state = "active" /\ Taken(j).stalls = j.stalls
  BY DEF Taken
<1>4. Returned(j) \in Job /\ Returned(j).state = "completed"
  BY DEF Returned
<1>5. Thrown(j) \in Job /\ Thrown(j).state \in {"delayed", "failed"}
  <2>1. j.failures \in 0 .. 3
    OBVIOUS
  <2>2. CASE j.failures + 1 < 3
    <3>1. Thrown(j) = [j EXCEPT !.failures = j.failures + 1, !.state = "delayed"]
      BY <2>2 DEF Thrown
    <3>2. j.failures + 1 \in 0 .. 3
      BY <2>1, <2>2
    <3>. QED  BY <3>1, <3>2
  <2>3. CASE ~(j.failures + 1 < 3)
    <3>1. Thrown(j) = [j EXCEPT !.failures = 3, !.state = "failed"]
      BY <2>3 DEF Thrown
    <3>2. 3 \in 0 .. 3
      OBVIOUS
    <3>. QED  BY <3>1, <3>2
  <2>. QED  BY <2>2, <2>3
<1>6. Elapsed(j) \in Job /\ Elapsed(j).state = "waiting"
  BY DEF Elapsed
<1>7. Stalled(j) \in Job /\ Stalled(j).state \in {"waiting", "failed"}
      /\ (j.stalls # MaxStalls => Stalled(j).state = "waiting")
  <2>1. j.stalls \in 0 .. 1
    OBVIOUS
  <2>2. CASE j.stalls < 1
    <3>1. Stalled(j) = [j EXCEPT !.stalls = j.stalls + 1, !.state = "waiting"]
      BY <2>2 DEF Stalled
    <3>2. j.stalls + 1 \in 0 .. 1
      BY <2>1, <2>2
    <3>. QED  BY <3>1, <3>2
  <2>3. CASE ~(j.stalls < 1)
    <3>1. Stalled(j) = [j EXCEPT !.state = "failed"] /\ j.stalls = 1
      BY <2>1, <2>3 DEF Stalled
    <3>. QED  BY <3>1
  <2>. QED  BY <2>2, <2>3
<1>8. Forgotten(j) \in Job /\ (Forgotten(j).state = "none" \/ Forgotten(j) = j)
  BY <1>1 DEF Forgotten
<1>. QED  BY <1>1, <1>2, <1>3, <1>4, <1>5, <1>6, <1>7, <1>8

----------------------------------------------------------------------------
(* Types.                                                                  *)

LEMMA TypeParts ==
  ASSUME eligible' \in Lists, ranks' \in Lists, changes' \in 0 .. MaxChanges,
         recent' \subseteq Lists, fresh' \subseteq Lists,
         cache' \in {{}} \cup {{list} : list \in Lists},
         writer' \in [Writers -> Sequels], reader' \in [Readers -> Reader], job' \in Job,
         run' \in [Runs -> Run],
         guard' \in BOOLEAN, redis' \in BOOLEAN, materialized' \in BOOLEAN,
         stale' \in BOOLEAN, mishap' \in BOOLEAN
  PROVE  TypeOK'
BY FollowUpsAre DEF TypeOK, Run, RunSteps, Reader

LEMMA TypeFacts ==
  ASSUME TypeOK
  PROVE  /\ eligible \in Lists /\ ranks \in Lists /\ changes \in 0 .. MaxChanges
         /\ recent \subseteq Lists /\ fresh \subseteq Lists
         /\ cache \in {{}} \cup {{list} : list \in Lists}
         /\ writer \in [Writers -> Sequels] /\ reader \in [Readers -> Reader] /\ job \in Job
         /\ run \in [Runs -> Run]
         /\ guard \in BOOLEAN /\ redis \in BOOLEAN /\ materialized \in BOOLEAN
         /\ stale \in BOOLEAN /\ mishap \in BOOLEAN
BY FollowUpsAre DEF TypeOK, Run, RunSteps, Reader

\* What an invalidation does to the readers.
LEMMA OvertakeTypes ==
  ASSUME TypeOK, Overtake
  PROVE  /\ reader' \in [Readers -> Reader]
         /\ \A r \in Readers : /\ reader'[r].at = reader[r].at
                               /\ reader[r].at = "store" => reader'[r].old
<1>1. reader \in [Readers -> Reader]
  BY TypeFacts
<1>2. ASSUME NEW r \in Readers
      PROVE  reader'[r] \in Reader /\ reader'[r].at = reader[r].at
             /\ (reader[r].at = "store" => reader'[r].old)
  <2>1. reader[r] \in Reader
    BY <1>1
  <2>2. reader'[r] = [reader[r] EXCEPT !.old = reader[r].old \/ reader[r].at = "store"]
    BY DEF Overtake
  <2>3. (reader[r].old \/ reader[r].at = "store") \in BOOLEAN
    OBVIOUS
  <2>. QED  BY <2>1, <2>2, <2>3 DEF Reader
<1>. QED  BY <1>2 DEF Overtake

\* A cached list that outlives an invalidation is stale, and so are those in the hands of
\* the readers.
LEMMA InvalidateTypes ==
  ASSUME TypeOK, Invalidate
  PROVE  /\ cache' \in {{}} \cup {{list} : list \in Lists} /\ guard' \in BOOLEAN
         /\ stale' \in BOOLEAN /\ reader' \in [Readers -> Reader]
         /\ \A r \in Readers : /\ reader'[r].at = reader[r].at
                               /\ reader[r].at = "store" => reader'[r].old
         /\ (redis /\ cache' = {}) \/ (stale' = redis /\ cache' = cache)
<1>1. /\ cache \in {{}} \cup {{list} : list \in Lists}
      /\ guard \in BOOLEAN /\ redis \in BOOLEAN
  BY TypeFacts
<1>. QED  BY <1>1, OvertakeTypes DEF Invalidate, Miss

\* The job and the runs when a rebuild is asked for.
LEMMA EnqueueTypes ==
  ASSUME TypeOK, EnqueueRebuild
  PROVE  job' \in Job /\ run' \in [Runs -> Run]
<1>1. CASE redis /\ job' = Added(job) /\ run' = run
  BY <1>1, TypeFacts, JobEvents
<1>2. CASE Start /\ job' = job
  BY <1>2, TypeFacts, RunStarts DEF Becomes
<1>. QED  BY <1>1, <1>2 DEF EnqueueRebuild

LEMMA TypeStep ==
  ASSUME TypeOK, [Next]_vars
  PROVE  TypeOK'
<1>1. /\ eligible \in Lists /\ ranks \in Lists /\ changes \in 0 .. MaxChanges
      /\ recent \subseteq Lists /\ fresh \subseteq Lists
      /\ cache \in {{}} \cup {{list} : list \in Lists}
      /\ writer \in [Writers -> Sequels] /\ reader \in [Readers -> Reader] /\ job \in Job
      /\ run \in [Runs -> Run]
      /\ guard \in BOOLEAN /\ redis \in BOOLEAN /\ materialized \in BOOLEAN
      /\ stale \in BOOLEAN /\ mishap \in BOOLEAN
  BY TypeFacts
<1>2. NoReader \in Reader
  BY DEF NoReader, Reader, Lists
<1> USE DEF facts, stored, setting
<1>3. ASSUME NEW happens, Mishap(happens)
      PROVE  mishap' \in BOOLEAN
  BY <1>3 DEF Mishap
<1>4. ASSUME NEW u \in Writers, Commit(u)
      PROVE  TypeOK'
  <2>1. changes' \in 0 .. MaxChanges /\ eligible' \in Lists
    BY <1>1, <1>4, MaxChangesAssumption DEF Commit
  <2>2. writer' \in [Writers -> Sequels]
    BY <1>1, <1>4, FollowUpsAre DEF Commit
  <2>3. recent' \subseteq Lists /\ fresh' \subseteq Lists
    BY <1>1, <1>4, <2>1 DEF Commit
  <2>. QED  BY <1>1, <1>4, <2>1, <2>2, <2>3, TypeParts DEF Commit
<1>5. ASSUME NEW u \in Writers, writer[u] # <<>>, writer' = [writer EXCEPT ![u] = Tail(@)]
      PROVE  writer' \in [Writers -> Sequels]
  BY <1>1, <1>5, Sequel
<1>6. ASSUME NEW u \in Writers, WriterInvalidates(u)
      PROVE  TypeOK'
  BY <1>1, <1>5, <1>6, InvalidateTypes, TypeParts DEF WriterInvalidates
<1>7. ASSUME NEW u \in Writers, WriterEnqueues(u)
      PROVE  TypeOK'
  BY <1>1, <1>3, <1>5, <1>7, EnqueueTypes, TypeParts DEF WriterEnqueues
<1>8. ASSUME NEW u \in Writers, WriterFails(u)
      PROVE  TypeOK'
  <2>1. writer' \in [Writers -> Sequels]
    BY <1>1, <1>8 DEF WriterFails, Sequels
  <2>2. mishap' \in BOOLEAN
    BY <1>3, <1>8 DEF WriterFails
  <2>3. stale' \in BOOLEAN /\ reader' \in [Readers -> Reader]
    BY <1>1, <1>8, OvertakeTypes DEF WriterFails, Miss
  <2>. QED  BY <1>1, <1>8, <2>1, <2>2, <2>3, TypeParts DEF WriterFails
<1>9. ASSUME NEW r \in Readers, BuildList(r)
      PROVE  TypeOK'
  <2>1. [at |-> "store", list |-> eligible, old |-> FALSE] \in Reader
    BY <1>1 DEF Reader
  <2>2. reader' \in [Readers -> Reader]
    BY <1>1, <1>9, <2>1 DEF BuildList
  <2>. QED  BY <1>1, <1>9, <2>2, TypeParts DEF BuildList
<1>10. ASSUME NEW r \in Readers, StoreList(r)
       PROVE  TypeOK'
  <2>1. reader' \in [Readers -> Reader]
    BY <1>1, <1>2, <1>10 DEF StoreList
  <2>2. cache' \in {{}} \cup {{list} : list \in Lists} /\ stale' \in BOOLEAN
    BY <1>1, <1>10 DEF StoreList, Reader
  <2>. QED  BY <1>1, <1>10, <2>1, <2>2, TypeParts DEF StoreList
<1>11. ASSUME NEW r \in Readers, ReadEmpty(r)
       PROVE  TypeOK'
  <2>1. [reader[r] EXCEPT !.at = "enqueue"] \in Reader
    BY <1>1 DEF Reader
  <2>2. reader' = [reader EXCEPT ![r] = [reader[r] EXCEPT !.at = "enqueue"]]
    BY <1>1, <1>11 DEF ReadEmpty
  <2>3. reader' \in [Readers -> Reader] /\ guard' \in BOOLEAN
    BY <1>1, <1>11, <2>1, <2>2 DEF ReadEmpty
  <2>. QED  BY <1>1, <1>11, <2>3, TypeParts DEF ReadEmpty
<1>12. ASSUME NEW r \in Readers, ReaderEnqueues(r) \/ ReaderFails(r)
       PROVE  TypeOK'
  <2>1. reader' \in [Readers -> Reader]
    BY <1>1, <1>2, <1>12 DEF ReaderEnqueues, ReaderFails
  <2>2. job' \in Job /\ run' \in [Runs -> Run]
    BY <1>1, <1>12, EnqueueTypes DEF ReaderEnqueues, ReaderFails
  <2>. QED  BY <1>1, <1>12, <2>1, <2>2, TypeParts DEF ReaderEnqueues, ReaderFails
<1>13. ASSUME NEW w \in Runs, Snapshot(w)
       PROVE  TypeOK'
  <2>1. run' \in [Runs -> Run] /\ mishap' \in BOOLEAN
    BY <1>1, <1>13, RunReads DEF Becomes
  <2>. QED  BY <1>1, <1>13, <2>1, TypeParts DEF Snapshot
<1>14. ASSUME NEW w \in Runs, UpsertChunk(w)
       PROVE  TypeOK'
  <2>1. run' \in [Runs -> Run] /\ ranks' \in Lists
    BY <1>14, RunUpserts DEF Becomes
  <2>. QED  BY <1>1, <1>14, <2>1, TypeParts DEF UpsertChunk
<1>15. ASSUME NEW w \in Runs, Purge(w)
       PROVE  TypeOK'
  <2>1. run' \in [Runs -> Run]
    BY <1>15, RunPurges DEF Becomes
  <2>2. ranks' \in Lists
    BY <1>1, <1>15 DEF Purge, Lists
  <2>. QED  BY <1>1, <1>15, <2>1, <2>2, TypeParts DEF Purge
<1>16. Return => job' \in Job
  BY <1>1, JobEvents DEF Return
<1>17. ASSUME NEW w \in Runs, RunInvalidates(w)
       PROVE  TypeOK'
  <2>1. run' \in [Runs -> Run]
    BY <1>17, RunLeaves DEF RunInvalidates, Becomes
  <2>. QED  BY <1>1, <1>16, <1>17, <2>1, InvalidateTypes, TypeParts DEF RunInvalidates
<1>18. ASSUME NEW w \in Runs, Requeue(w)
       PROVE  TypeOK'
  <2>1. run' \in [Runs -> Run]
    BY <1>18, RunRequeues DEF Becomes
  <2>. QED  BY <1>1, <1>16, <1>18, <2>1, TypeParts DEF Requeue
<1>19. ASSUME NEW w \in Runs, RunFails(w) \/ RunDies(w)
       PROVE  TypeOK'
  <2>1. run' \in [Runs -> Run]
    BY <1>19, RunLeaves DEF RunFails, RunDies, Becomes
  <2>2. job' \in Job /\ mishap' \in BOOLEAN
    BY <1>1, <1>3, <1>19, JobEvents DEF RunFails, RunDies
  <2>. QED  BY <1>1, <1>19, <2>1, <2>2, TypeParts DEF RunFails, RunDies
<1>20. CASE Take
  <2>1. run' \in [Runs -> Run] /\ job' \in Job
    BY <1>1, <1>20, RunStarts, JobEvents DEF Take, Becomes
  <2>. QED  BY <1>1, <1>20, <2>1, TypeParts DEF Take
<1>21. CASE Expire
  <2>1. cache' \in {{}} \cup {{list} : list \in Lists} /\ guard' \in BOOLEAN
    BY <1>1, <1>21 DEF Expire
  <2>. QED  BY <1>1, <1>21, <2>1, TypeParts DEF Expire
<1>22. CASE JobStalls \/ BackoffEnds \/ JobForgotten
  <2>1. job' \in Job
    BY <1>1, <1>22, JobEvents DEF JobStalls, BackoffEnds, JobForgotten
  <2>. QED  BY <1>1, <1>22, <2>1, TypeParts DEF JobStalls, BackoffEnds, JobForgotten
<1>23. CASE UNCHANGED vars
  BY <1>1, <1>23, TypeParts DEF vars
<1>. QED
  BY <1>4, <1>6, <1>7, <1>8, <1>9, <1>10, <1>11, <1>12, <1>13, <1>14, <1>15, <1>17, <1>18, <1>19,
     <1>20, <1>21, <1>22, <1>23 DEF Next, WriterStep, RunStep

----------------------------------------------------------------------------
(* The queue.                                                              *)

\* A job of the queue is worked on by one run, and is active meanwhile; without the
\* queue there is no job.
OneRun ==
  IF ~redis THEN job.state = "none"
  ELSE \A w \in Runs : run[w].at # "idle" =>
         job.state = "active" /\ \A v \in Runs : v # w => run[v].at = "idle"

\* The job of a worker that has died is taken again.
StallsLeft == ~mishap /\ WorkerGone => job.stalls # MaxStalls

\* A run that is out of time as a job, or for the second time, is a lost rebuild.
RequeueOnce ==
  ~mishap => \A w \in Runs : run[w].at = "requeue" => ~redis /\ ~run[w].retry

\* What a run that moves on, or fails, does to the queue.
LEMMA RunEffects ==
  ASSUME TypeOK, NEW w \in Runs, RunStep(w) \/ RunFails(w)
  PROVE  /\ run[w].at # "idle"
         /\ \A v \in Runs : v # w => run'[v] = run[v]
         /\ redis /\ run'[w].at = "idle" => job'.state \in {"completed", "delayed", "failed"}
         /\ ~redis \/ run'[w].at # "idle" => job' = job
         /\ mishap /\ ~mishap' => run'[w].at # "idle"
         /\ UNCHANGED <<redis, writer, eligible, recent, fresh>>
<1>1. mishap \in BOOLEAN /\ redis \in BOOLEAN /\ job \in Job
  BY TypeFacts
<1>2. Return => /\ redis => job'.state \in {"completed", "delayed", "failed"}
                /\ ~redis => job' = job
  BY <1>1, JobEvents DEF Return
<1> USE DEF facts, stored, setting
<1>3. CASE Snapshot(w)
  <2>1. run[w].at = "read" /\ UNCHANGED <<redis, writer, eligible, recent, fresh, job>>
    BY <1>3 DEF Snapshot
  <2>2. PICK x \in Run : Becomes(w, x) /\ x.at # "idle"
    BY <1>1, <1>3, RunReads
  <2>. QED  BY <2>1, <2>2 DEF Becomes
<1>4. CASE UpsertChunk(w)
  <2>1. run[w].at = "upsert" /\ UNCHANGED <<redis, writer, eligible, recent, fresh, job, mishap>>
    BY <1>4 DEF UpsertChunk
  <2>2. PICK x \in Run : Becomes(w, x) /\ x.at # "idle"
    BY <1>4, RunUpserts
  <2>. QED  BY <2>1, <2>2 DEF Becomes
<1>5. CASE Purge(w)
  <2>1. run[w].at = "purge" /\ UNCHANGED <<redis, writer, eligible, recent, fresh, job, mishap>>
    BY <1>5 DEF Purge
  <2>2. PICK x \in Run : Becomes(w, x) /\ x.at # "idle"
    BY <1>5, RunPurges
  <2>. QED  BY <2>1, <2>2 DEF Becomes
<1>6. CASE RunInvalidates(w)
  <2>1. run[w].at = "invalidate" /\ Return /\ UNCHANGED <<redis, writer, eligible, recent, fresh, mishap>>
    BY <1>6 DEF RunInvalidates
  <2>2. Becomes(w, NoRun) /\ NoRun.at = "idle"
    BY <1>6, RunLeaves DEF RunInvalidates
  <2>. QED  BY <1>2, <2>1, <2>2 DEF Becomes
<1>7. CASE Requeue(w)
  <2>1. run[w].at = "requeue" /\ Return /\ UNCHANGED <<redis, writer, eligible, recent, fresh, mishap>>
    BY <1>7 DEF Requeue
  <2>2. PICK x \in Run : Becomes(w, x) /\ (redis => x.at = "idle")
    BY <1>7, RunRequeues
  <2>. QED  BY <1>1, <1>2, <2>1, <2>2 DEF Becomes
<1>8. CASE RunFails(w)
  <2>1. /\ run[w].at \in {"read", "upsert", "purge"} /\ UNCHANGED <<redis, writer, eligible, recent, fresh>>
        /\ job' = (IF redis THEN Thrown(job) ELSE job) /\ (~mishap' => ~mishap)
    BY <1>1, <1>8 DEF RunFails, Mishap
  <2>2. Becomes(w, NoRun) /\ NoRun.at = "idle"
    BY <1>8, RunLeaves DEF RunFails
  <2>3. Thrown(job).state \in {"delayed", "failed"}
    BY <1>1, JobEvents
  <2>. QED  BY <1>1, <2>1, <2>2, <2>3 DEF Becomes
<1>. QED  BY <1>3, <1>4, <1>5, <1>6, <1>7, <1>8 DEF RunStep

\* A run that dies leaves its job active; a rebuild is lost, unless the queue takes it again.
LEMMA DeathEffects ==
  ASSUME TypeOK, NEW w \in Runs, RunDies(w)
  PROVE  /\ run[w].at # "idle" /\ run'[w].at = "idle"
         /\ \A v \in Runs : v # w => run'[v] = run[v]
         /\ ~mishap' => ~mishap /\ redis /\ job.stalls # MaxStalls
         /\ UNCHANGED <<redis, writer, eligible, recent, fresh, ranks, job>>
<1>1. mishap \in BOOLEAN /\ redis \in BOOLEAN
  BY TypeFacts
<1>2. Becomes(w, NoRun) /\ NoRun.at = "idle"
  BY RunLeaves DEF RunDies
<1>. QED  BY <1>1, <1>2 DEF RunDies, Mishap, facts, stored, setting, Becomes

\* A rebuild that is asked for is to come, unless the id of a finished job or of one
\* that has read the facts is in the way.
LEMMA EnqueueEffects ==
  ASSUME TypeOK, OneRun, EnqueueRebuild
  PROVE  /\ \/ run' = run /\ (job' = job \/ (redis /\ job.state = "none" /\ job'.state = "waiting"))
            \/ /\ ~redis /\ job' = job
               /\ \E w \in Runs : /\ run[w].at = "idle" /\ run'[w].at = "read"
                                  /\ \A v \in Runs : v # w => run'[v] = run[v]
         /\ \/ ~redis /\ \E w \in Runs : run'[w].at = "read"
            \/ job'.state \in {"waiting", "delayed"}
            \/ WorkerGone'
            \/ \E w \in Runs : run'[w].at = "read"
            \/ redis /\ (job.state \in Finished \/ At(AfterRead))
<1>1. redis \in BOOLEAN /\ job \in Job /\ run \in [Runs -> Run]
  BY TypeFacts
<1>2. CASE redis /\ job' = Added(job) /\ run' = run
  <2>1. job' = job \/ (job.state = "none" /\ job'.state = "waiting")
    BY <1>1, <1>2, JobEvents
  <2>2. job.state \in {"none", "waiting", "delayed", "active"} \cup Finished
    BY <1>1 DEF Job, Live, Finished
  <2>3. job.state = "none" => job'.state = "waiting"
    BY <1>1, <1>2, JobEvents
  <2>4. ~At(AfterRead) => \A w \in Runs : run[w].at \in {"idle", "read"}
    BY <1>1 DEF At, AfterRead, Writing, Run, RunSteps
  <2>. QED  BY <1>2, <2>1, <2>2, <2>3, <2>4 DEF WorkerGone
<1>3. CASE ~redis /\ Start /\ job' = job
  <2>1. PICK w \in Runs, x \in Run : run[w].at = "idle" /\ Becomes(w, x) /\ x.at = "read"
    BY <1>3, RunStarts
  <2>. QED  BY <1>3, <2>1 DEF Becomes
<1>. QED  BY <1>2, <1>3 DEF EnqueueRebuild

\* The actions that leave the queue and the runs alone.
Apart ==
  \/ \E u \in Writers : Commit(u) \/ WriterInvalidates(u) \/ WriterFails(u)
  \/ \E r \in Readers : BuildList(r) \/ StoreList(r) \/ ReadEmpty(r) \/ ReaderFails(r)
  \/ Expire
  \/ UNCHANGED vars

LEMMA ApartEffects ==
  ASSUME TypeOK, Apart
  PROVE  UNCHANGED <<job, run, redis>> /\ (~mishap' => ~mishap)
<1>1. mishap \in BOOLEAN
  BY TypeFacts
<1> USE DEF setting
<1>2. ASSUME NEW u \in Writers, Commit(u) \/ WriterInvalidates(u) \/ WriterFails(u)
      PROVE  UNCHANGED <<job, run, redis>> /\ (~mishap' => ~mishap)
  BY <1>1, <1>2 DEF Commit, WriterInvalidates, WriterFails, Mishap
<1>3. ASSUME NEW r \in Readers, BuildList(r) \/ StoreList(r) \/ ReadEmpty(r) \/ ReaderFails(r)
      PROVE  UNCHANGED <<job, run, redis>> /\ (~mishap' => ~mishap)
  <2>1. UNCHANGED <<job, run, redis, mishap>>
    BY <1>3 DEF BuildList, StoreList, ReadEmpty, ReaderFails
  <2>. QED  BY <2>1
<1>4. CASE Expire
  <2>1. UNCHANGED <<job, run, redis, mishap>>
    BY <1>4 DEF Expire
  <2>. QED  BY <2>1
<1>5. CASE UNCHANGED vars
  BY <1>5 DEF vars
<1>. QED  BY <1>2, <1>3, <1>4, <1>5 DEF Apart

LEMMA Steps ==
  ASSUME [Next]_vars
  PROVE  \/ Apart
         \/ \E u \in Writers : WriterEnqueues(u)
         \/ \E r \in Readers : ReaderEnqueues(r)
         \/ \E w \in Runs : RunStep(w) \/ RunFails(w) \/ RunDies(w)
         \/ Take \/ JobStalls \/ BackoffEnds \/ JobForgotten
BY DEF Next, WriterStep, Apart

\* Whether there is a queue does not change.
LEMMA RedisStays ==
  ASSUME [Next]_vars
  PROVE  redis' = redis
BY DEF Next, vars, setting, WriterStep, RunStep, Commit, WriterInvalidates, WriterEnqueues,
   WriterFails, BuildList, StoreList, ReadEmpty, ReaderEnqueues, ReaderFails, Snapshot, UpsertChunk,
   Purge, RunInvalidates, Requeue, RunFails, RunDies, Take, Expire, JobStalls, BackoffEnds,
   JobForgotten

\* A loss ends with a rebuild that reads the facts beside no other.
LEMMA HealEffects ==
  ASSUME TypeOK, [Next]_vars, mishap, ~mishap'
  PROVE  \E w \in Runs, x \in Run :
           /\ Becomes(w, x)
           /\ x.at = (IF eligible = {} THEN "purge" ELSE "upsert")
           /\ x.list = eligible /\ x.todo = eligible
           /\ \A v \in Runs : v # w => run[v].at \notin AfterRead
           /\ UNCHANGED <<eligible, recent, fresh, ranks>>
<1> USE DEF facts, stored, setting
<1>1. PICK w \in Runs : Snapshot(w)
  BY DEF Next, vars, WriterStep, RunStep, Commit, WriterInvalidates, WriterEnqueues, WriterFails,
     BuildList, StoreList, ReadEmpty, ReaderEnqueues, ReaderFails, UpsertChunk, Purge,
     RunInvalidates, Requeue, RunFails, RunDies, Take, Expire, JobStalls, BackoffEnds, JobForgotten,
     Mishap
<1>2. UNCHANGED <<eligible, recent, fresh, ranks>>
  BY <1>1 DEF Snapshot
<1>. QED  BY <1>1, <1>2, RunReads

LEMMA QueueStep ==
  ASSUME TypeOK, OneRun, StallsLeft, [Next]_vars
  PROVE  OneRun' /\ StallsLeft'
<1>1. redis \in BOOLEAN /\ job \in Job /\ mishap \in BOOLEAN
  BY TypeFacts
<1> USE DEF setting
<1>2. ASSUME NEW w \in Runs, RunStep(w) \/ RunFails(w)
      PROVE  OneRun' /\ StallsLeft'
  BY <1>1, <1>2, RunEffects DEF OneRun, StallsLeft, WorkerGone
<1>3. ASSUME NEW w \in Runs, RunDies(w)
      PROVE  OneRun' /\ StallsLeft'
  BY <1>1, <1>3, DeathEffects DEF OneRun, StallsLeft, WorkerGone
<1>4. CASE Take
  <2>1. job.state = "waiting" /\ job' = Taken(job) /\ redis' = redis
    BY <1>4 DEF Take
  <2>2. PICK w \in Runs, x \in Run : run[w].at = "idle" /\ Becomes(w, x) /\ x.at = "read"
    BY <1>4, RunStarts DEF Take
  <2>3. job'.state = "active"
    BY <1>1, <2>1, JobEvents
  <2>. QED  BY <1>1, <2>1, <2>2, <2>3 DEF OneRun, StallsLeft, WorkerGone, Becomes
<1>5. ASSUME EnqueueRebuild, redis' = redis, ~mishap' => ~mishap
      PROVE  OneRun' /\ StallsLeft'
  BY <1>1, <1>5, EnqueueEffects DEF OneRun, StallsLeft, WorkerGone
<1>6. CASE \/ \E u \in Writers : WriterEnqueues(u)
           \/ \E r \in Readers : ReaderEnqueues(r)
  BY <1>1, <1>5, <1>6 DEF WriterEnqueues, ReaderEnqueues, Mishap
<1>7. CASE JobStalls \/ BackoffEnds \/ JobForgotten
  <2>1. /\ UNCHANGED <<run, redis, mishap>>
        /\ job.state # "none" \/ job' = job
        /\ job.state # "active" \/ \A w \in Runs : run[w].at = "idle"
        /\ job'.state # "active"
    BY <1>1, <1>7, JobEvents DEF JobStalls, BackoffEnds, JobForgotten, Finished, WorkerGone
  <2>. QED  BY <1>1, <2>1 DEF OneRun, StallsLeft, WorkerGone
<1>8. CASE Apart
  <2>1. UNCHANGED <<job, run, redis>> /\ (~mishap' => ~mishap)
    BY <1>8, ApartEffects
  <2>. QED  BY <1>1, <2>1 DEF OneRun, StallsLeft, WorkerGone
<1>. QED  BY <1>2, <1>3, <1>4, <1>6, <1>7, <1>8, Steps

LEMMA RequeueStep ==
  ASSUME TypeOK, OneRun, RequeueOnce, [Next]_vars
  PROVE  RequeueOnce'
<1>1. SUFFICES ASSUME ~mishap' PROVE \A w \in Runs : run'[w].at = "requeue" => ~redis' /\ ~run'[w].retry
  BY DEF RequeueOnce
<1>2. mishap \in BOOLEAN /\ redis \in BOOLEAN /\ run \in [Runs -> Run]
  BY TypeFacts
<1> USE DEF setting
<1>0. CASE mishap
  BY <1>0, <1>1, HealEffects DEF Becomes, AfterRead
<1>3. ASSUME ~mishap, redis' = redis,
             \A v \in Runs : run'[v] = run[v] \/ run'[v].at # "requeue"
      PROVE  \A w \in Runs : run'[w].at = "requeue" => ~redis' /\ ~run'[w].retry
  BY <1>3 DEF RequeueOnce
<1>4. ASSUME ~mishap, NEW w \in Runs, RunStep(w) \/ RunFails(w)
      PROVE  \A v \in Runs : run'[v].at = "requeue" => ~redis' /\ ~run'[v].retry
  <2>1. ~mishap /\ redis' = redis /\ \A v \in Runs : v # w => run'[v] = run[v]
    BY <1>1, <1>4, RunEffects
  <2>2. run'[w].at = "requeue" => ~redis' /\ ~run'[w].retry
    <3>1. CASE Snapshot(w)
      <4>1. PICK x \in Run :
              /\ Becomes(w, x)
              /\ \/ x.at = (IF eligible = {} THEN "purge" ELSE "upsert")
                 \/ x.retry = run[w].retry /\ mishap' = (mishap \/ redis \/ run[w].retry)
        BY <3>1, RunReads
      <4>. QED  BY <1>1, <1>2, <2>1, <4>1 DEF Becomes, Run
    <3>2. CASE UpsertChunk(w)
      BY <3>2, RunUpserts DEF Becomes
    <3>3. CASE Purge(w)
      BY <3>3, RunPurges DEF Becomes
    <3>4. CASE RunInvalidates(w) \/ RunFails(w)
      BY <3>4, RunLeaves DEF Becomes, RunInvalidates, RunFails
    <3>5. CASE Requeue(w)
      BY <3>5, RunRequeues DEF Becomes
    <3>. QED  BY <1>4, <3>1, <3>2, <3>3, <3>4, <3>5 DEF RunStep
  <2>. QED  BY <2>1, <2>2 DEF RequeueOnce
<1>5. ASSUME ~mishap, NEW w \in Runs, RunDies(w)
      PROVE  \A v \in Runs : run'[v].at = "requeue" => ~redis' /\ ~run'[v].retry
  BY <1>1, <1>3, <1>5, DeathEffects
<1>6. CASE ~mishap /\ Take
  <2>1. PICK w \in Runs, x \in Run : Becomes(w, x) /\ x.at = "read"
    BY <1>6, RunStarts DEF Take
  <2>. QED  BY <1>1, <1>3, <1>6, <2>1 DEF Take, Becomes
<1>7. ASSUME ~mishap, EnqueueRebuild, redis' = redis
      PROVE  \A w \in Runs : run'[w].at = "requeue" => ~redis' /\ ~run'[w].retry
  BY <1>1, <1>3, <1>7, EnqueueEffects
<1>8. CASE /\ ~mishap
           /\ \/ \E u \in Writers : WriterEnqueues(u)
              \/ \E r \in Readers : ReaderEnqueues(r)
  BY <1>7, <1>8 DEF WriterEnqueues, ReaderEnqueues
<1>9. CASE ~mishap /\ (JobStalls \/ BackoffEnds \/ JobForgotten)
  BY <1>1, <1>3, <1>9 DEF JobStalls, BackoffEnds, JobForgotten
<1>10. CASE ~mishap /\ Apart
  BY <1>1, <1>3, <1>10, ApartEffects
<1>. QED  BY <1>0, <1>4, <1>5, <1>6, <1>8, <1>9, <1>10, Steps

----------------------------------------------------------------------------
(* The rows.                                                               *)

Pending == \E u \in Writers : "enqueue" \in Calls(u)

\* A rebuild has yet to read the facts, or a writer has yet to ask for one.
Unread ==
  \/ Pending
  \/ \E w \in Runs : run[w].at = "read" \/ (run[w].at = "requeue" /\ ~run[w].retry)

\* The facts of now are among those since the last change.
FactsKnown == eligible \in recent /\ eligible \in fresh

\* A run that has read the facts has put on the list what is no longer to do; all of
\* them have read the same list, and if it is out of date it will be read again.
FactsRead ==
  ~mishap =>
    /\ \A w \in Runs : run[w].at \in Writing =>
         /\ run[w].list \ run[w].todo \subseteq ranks
         /\ run[w].at = "purge" => run[w].list \subseteq ranks
    /\ \A v, w \in Runs :
         run[v].at \in Writing /\ run[w].at \in Writing => run[v].list = run[w].list
    /\ Unread \/ \A w \in Runs : run[w].at \in Writing => run[w].list \in recent

LEMMA CallsAre == \A u \in Writers : Calls(u) = CallsOf(writer[u])
BY DEF Calls, CallsOf

\* The calls of the writers after a step.
LEMMA WriterEffects ==
  ASSUME TypeOK, NEW u \in Writers
  PROVE  /\ Commit(u) =>
              /\ \A v \in Writers : Calls(v) \subseteq Calls(v)'
              /\ eligible' \in recent' /\ eligible' \in fresh'
              /\ "enqueue" \in Calls(u)' \/ recent \subseteq recent'
              /\ "enqueue" \in Calls(u)' \/ "invalidate" \in Calls(u)' \/ fresh \subseteq fresh'
         /\ WriterInvalidates(u) \/ WriterEnqueues(u) =>
              /\ Calls(u) = {Head(writer[u])} \cup Calls(u)'
              /\ \A v \in Writers : v # u => Calls(v)' = Calls(v)
         /\ WriterFails(u) => \A v \in Writers : v # u => Calls(v)' = Calls(v)
<1>1. writer \in [Writers -> Sequels]
  BY TypeFacts
<1>2. ASSUME Commit(u)
      PROVE  /\ \A v \in Writers : Calls(v) \subseteq Calls(v)'
             /\ eligible' \in recent' /\ eligible' \in fresh'
             /\ "enqueue" \in Calls(u)' \/ recent \subseteq recent'
             /\ "enqueue" \in Calls(u)' \/ "invalidate" \in Calls(u)' \/ fresh \subseteq fresh'
  <2>1. PICK s \in FollowUps :
          /\ writer' = [writer EXCEPT ![u] = s]
          /\ recent' = {eligible'} \cup (IF s \in Rebuilt THEN {} ELSE recent)
          /\ fresh' = {eligible'} \cup (IF s # <<>> THEN {} ELSE fresh)
    BY <1>2 DEF Commit
  <2>2. writer'[u] = s /\ \A v \in Writers : v # u => writer'[v] = writer[v]
    BY <1>1, <2>1
  <2>3. Calls(u)' = CallsOf(s) /\ \A v \in Writers : v # u => Calls(v)' = Calls(v)
    BY <2>2 DEF Calls, CallsOf
  <2>4. Calls(u) = {}
    BY <1>2, FollowUpsAre, CallsAre DEF Commit
  <2>. QED  BY <2>1, <2>3, <2>4, FollowUpsAre
<1>3. ASSUME WriterInvalidates(u) \/ WriterEnqueues(u)
      PROVE  /\ Calls(u) = {Head(writer[u])} \cup Calls(u)'
             /\ \A v \in Writers : v # u => Calls(v)' = Calls(v)
  <2>1. writer[u] # <<>> /\ writer' = [writer EXCEPT ![u] = Tail(writer[u])]
    BY <1>3 DEF WriterInvalidates, WriterEnqueues
  <2>2. writer'[u] = Tail(writer[u]) /\ \A v \in Writers : v # u => writer'[v] = writer[v]
    BY <1>1, <2>1
  <2>3. CallsOf(writer[u]) = {Head(writer[u])} \cup CallsOf(Tail(writer[u]))
    BY <1>1, <2>1, Sequel
  <2>. QED  BY <2>2, <2>3 DEF Calls, CallsOf
<1>4. ASSUME WriterFails(u)
      PROVE  \A v \in Writers : v # u => Calls(v)' = Calls(v)
  BY <1>1, <1>4 DEF WriterFails, Calls
<1>. QED  BY <1>2, <1>3, <1>4

\* The rows are the list of the job's run once it has deleted all others.
JustWritten ==
  ~mishap /\ redis => \A w \in Runs : run[w].at = "invalidate" => ranks = run[w].list

\* A rebuild that a writer asks for is not swallowed, unless it is lost.
LEMMA EnqueuedComes ==
  ASSUME TypeOK, OneRun, NEW u \in Writers, WriterEnqueues(u), ~mishap'
  PROVE  /\ ~mishap
         /\ redis \/ Unread'
         /\ redis => /\ job.state \notin Finished
                     /\ \A w \in Runs : run[w].at \in AfterRead => run[w].list \in recent
<1>1. mishap \in BOOLEAN /\ redis \in BOOLEAN
  BY TypeFacts
<1>2. EnqueueRebuild /\ ~mishap /\ ~(redis /\ Swallowed)
  BY <1>1 DEF WriterEnqueues, Mishap
<1>3. redis => /\ job.state \notin Finished
               /\ \A w \in Runs : run[w].at \in AfterRead => run[w].list \in recent
  BY <1>2 DEF Swallowed
<1>4. redis \/ \E w \in Runs : run'[w].at = "read"
  <2>1. CASE ~redis
    BY <1>2, <2>1, RunStarts DEF EnqueueRebuild, Becomes
  <2>. QED  BY <1>1, <2>1
<1>. QED  BY <1>2, <1>3, <1>4 DEF Unread

\* It comes, or a run that has read facts as recent as the writer's change is under way
\* or has just put them on the list.
LEMMA EnqueuedKeeps ==
  ASSUME TypeOK, OneRun, RequeueOnce, JustWritten, NEW u \in Writers, WriterEnqueues(u), ~mishap'
  PROVE  Coming' \/ (ranks' \in recent' /\ At({"invalidate"})')
<1> USE DEF facts, stored, setting
<1>1. redis \in BOOLEAN /\ ~mishap /\ EnqueueRebuild /\ UNCHANGED <<recent, ranks, redis>>
  BY TypeFacts, EnqueuedComes DEF WriterEnqueues
<1>2. redis => /\ job.state \notin Finished
               /\ \A w \in Runs : run[w].at \in AfterRead => run[w].list \in recent
  BY EnqueuedComes
<1>3. CASE redis /\ At(AfterRead)
  <2>1. PICK w \in Runs : run[w].at \in AfterRead /\ run[w].list \in recent
    BY <1>2, <1>3 DEF At
  <2>2. run' = run
    BY <1>1, <1>3 DEF EnqueueRebuild
  <2>3. CASE run[w].at \in Writing
    BY <1>1, <2>1, <2>2, <2>3 DEF Coming
  <2>4. CASE run[w].at = "invalidate"
    BY <1>1, <1>3, <2>1, <2>2, <2>4 DEF At, JustWritten
  <2>5. run[w].at # "requeue"
    BY <1>1, <1>3 DEF RequeueOnce
  <2>. QED  BY <2>1, <2>3, <2>4, <2>5 DEF AfterRead
<1>4. CASE ~(redis /\ At(AfterRead))
  BY <1>1, <1>2, <1>4, EnqueueEffects DEF Coming
<1>. QED  BY <1>3, <1>4

\* The steps that leave the queue and the runs alone.
LEMMA ApartKeeps ==
  ASSUME TypeOK, Apart, ~mishap'
  PROVE  /\ ranks' = ranks
         /\ Pending => Pending'
         /\ FactsKnown => FactsKnown'
         /\ Pending' \/ recent \subseteq recent'
<1> USE DEF facts, stored
<1>1. ASSUME NEW u \in Writers, Commit(u)
      PROVE  /\ ranks' = ranks
             /\ Pending => Pending'
             /\ FactsKnown'
             /\ Pending' \/ recent \subseteq recent'
  <2>1. ranks' = ranks
    BY <1>1 DEF Commit
  <2>. QED  BY <1>1, <2>1, WriterEffects DEF Pending, FactsKnown
<1>2. ASSUME NEW u \in Writers, WriterInvalidates(u)
      PROVE  UNCHANGED <<eligible, recent, fresh, ranks>> /\ (Pending => Pending')
  <2>1. UNCHANGED <<eligible, recent, fresh, ranks>> /\ Head(writer[u]) = "invalidate"
    BY <1>2 DEF WriterInvalidates
  <2>. QED  BY <1>2, <2>1, WriterEffects DEF Pending
<1>3. ASSUME NEW u \in Writers, WriterFails(u)
      PROVE  UNCHANGED <<eligible, recent, fresh, ranks>> /\ (Pending => Pending')
  <2>1. UNCHANGED <<eligible, recent, fresh, ranks>> /\ "enqueue" \notin Calls(u)
    BY <1>3 DEF WriterFails, Mishap
  <2>. QED  BY <1>3, <2>1, WriterEffects DEF Pending
<1>4. CASE \/ \E r \in Readers : BuildList(r) \/ StoreList(r) \/ ReadEmpty(r) \/ ReaderFails(r)
           \/ Expire
           \/ UNCHANGED vars
  <2>1. UNCHANGED <<eligible, recent, fresh, ranks, writer>>
    BY <1>4 DEF BuildList, StoreList, ReadEmpty, ReaderFails, Expire, vars
  <2>. QED  BY <2>1 DEF Pending, Calls, FactsKnown
<1>. QED  BY <1>1, <1>2, <1>3, <1>4 DEF Apart, FactsKnown

LEMMA FactsKnownStep ==
  ASSUME TypeOK, FactsKnown, [Next]_vars
  PROVE  FactsKnown'
<1> USE DEF facts, stored, setting
<1>1. ASSUME NEW u \in Writers, Commit(u)
      PROVE  FactsKnown'
  BY <1>1, WriterEffects DEF FactsKnown
<1>2. CASE UNCHANGED facts
  BY <1>2 DEF FactsKnown
<1>. QED
  BY <1>1, <1>2 DEF Next, vars, WriterStep, RunStep, WriterInvalidates, WriterEnqueues, WriterFails,
     BuildList, StoreList, ReadEmpty, ReaderEnqueues, ReaderFails, Snapshot, UpsertChunk, Purge,
     RunInvalidates, Requeue, RunFails, RunDies, Take, Expire, JobStalls, BackoffEnds, JobForgotten

LEMMA FactsStep ==
  ASSUME TypeOK, OneRun, RequeueOnce, FactsKnown, FactsRead, [Next]_vars
  PROVE  FactsRead'
<1>1. SUFFICES ASSUME ~mishap' PROVE FactsRead'
  BY DEF FactsRead
<1>2. run \in [Runs -> Run] /\ ranks \in Lists /\ mishap \in BOOLEAN /\ redis \in BOOLEAN
  BY TypeFacts
<1> USE DEF facts, stored, setting
<1>3. CASE mishap
  <2>1. PICK w \in Runs, x \in Run :
          /\ Becomes(w, x)
          /\ x.at = (IF eligible = {} THEN "purge" ELSE "upsert")
          /\ x.list = eligible /\ x.todo = eligible
          /\ \A v \in Runs : v # w => run[v].at \notin AfterRead
          /\ UNCHANGED <<eligible, recent, fresh, ranks>>
    BY <1>1, <1>3, HealEffects
  <2>2. \A v \in Runs : run'[v].at \in Writing => v = w
    BY <2>1 DEF Becomes, AfterRead
  <2>. QED  BY <2>1, <2>2 DEF Becomes, FactsRead, FactsKnown
<1> DEFINE Same == \A v \in Runs : run'[v].at \in Writing => run'[v] = run[v]
<1>4. ASSUME ~mishap, Same, ranks \subseteq ranks',
             \/ Unread'
             \/ ~Unread /\ recent \subseteq recent'
             \/ \A v \in Runs : run'[v].at \in Writing => run'[v].list \in recent'
      PROVE  FactsRead'
  BY <1>4 DEF FactsRead
<1>5. ASSUME ~mishap, NEW w \in Runs, RunStep(w) \/ RunFails(w)
      PROVE  FactsRead'
  <2>1. /\ run[w].at # "idle" /\ UNCHANGED <<eligible, recent, writer, redis>>
        /\ \A u \in Runs : u # w => run'[u] = run[u]
    BY <1>5, RunEffects
  <2>2. Pending' <=> Pending
    BY <2>1 DEF Pending, Calls
  <2>3. /\ \A v \in Runs : run[v].at \in Writing =>
             /\ run[v].list \ run[v].todo \subseteq ranks
             /\ run[v].at = "purge" => run[v].list \subseteq ranks
        /\ \A v, u \in Runs :
             run[v].at \in Writing /\ run[u].at \in Writing => run[v].list = run[u].list
        /\ Unread \/ \A v \in Runs : run[v].at \in Writing => run[v].list \in recent
    BY <1>5 DEF FactsRead
  <2>4. CASE Snapshot(w)
    <3>1. ranks' = ranks /\ run[w].at = "read"
      BY <2>4 DEF Snapshot
    <3>2. PICK x \in Run :
            /\ Becomes(w, x)
            /\ \/ /\ x.at = (IF eligible = {} THEN "purge" ELSE "upsert")
                  /\ x.list = eligible /\ x.todo = eligible
                  /\ \A v \in Runs : v # w /\ run[v].at \in Writing => run[v].list = eligible
               \/ x.at = "requeue" /\ ~x.retry
      BY <1>1, <1>5, <2>4, RunReads
    <3>3. CASE /\ x.at = (IF eligible = {} THEN "purge" ELSE "upsert")
               /\ x.list = eligible /\ x.todo = eligible
               /\ \A v \in Runs : v # w /\ run[v].at \in Writing => run[v].list = eligible
      <4>1. \A v \in Runs : run'[v].at \in Writing =>
              /\ run'[v].list = eligible
              /\ run'[v].list \ run'[v].todo \subseteq ranks
              /\ run'[v].at = "purge" => run'[v].list \subseteq ranks
        BY <2>3, <3>2, <3>3 DEF Becomes
      <4>. QED  BY <2>1, <3>1, <4>1 DEF FactsRead, FactsKnown
    <3>4. CASE x.at = "requeue" /\ ~x.retry
      <4>1. Same /\ Unread'
        BY <2>1, <3>2, <3>4 DEF Becomes, Writing, Unread
      <4>. QED  BY <1>4, <1>5, <3>1, <4>1
    <3>. QED  BY <3>2, <3>3, <3>4
  <2>5. CASE UpsertChunk(w)
    <3>1. PICK x \in Run, chunk \in SUBSET run[w].todo :
            /\ Becomes(w, x) /\ ranks' = ranks \cup chunk
            /\ x.at = (IF chunk = run[w].todo THEN "purge" ELSE "upsert")
            /\ x.list = run[w].list /\ x.todo = run[w].todo \ chunk
      BY <2>5, RunUpserts
    <3>2. run[w].at = "upsert"
      BY <2>5 DEF UpsertChunk
    <3>3. run[w].at \in Writing /\ run[w].list \ run[w].todo \subseteq ranks
      BY <2>3, <3>2 DEF Writing
    <3>4. \A v \in Runs : run'[v].at \in Writing =>
            run[v].at \in Writing /\ run'[v].list = run[v].list
      BY <3>1, <3>3 DEF Becomes
    <3>5. ASSUME NEW v \in Runs, run'[v].at \in Writing
          PROVE  /\ run'[v].list \ run'[v].todo \subseteq ranks'
                 /\ run'[v].at = "purge" => run'[v].list \subseteq ranks'
      <4>1. CASE v = w
        <5>1. run'[v] = x
          BY <3>1, <4>1 DEF Becomes
        <5>2. x.list \ x.todo \subseteq ranks \cup chunk
          BY <3>1, <3>3
        <5>3. x.at = "purge" => x.list \subseteq ranks \cup chunk
          BY <3>1, <3>3
        <5>. QED  BY <3>1, <5>1, <5>2, <5>3
      <4>2. CASE v # w
        BY <2>1, <2>3, <3>1, <3>5, <4>2
      <4>. QED  BY <4>1, <4>2
    <3>6. Unread => Unread'
      BY <2>1, <2>2, <3>2 DEF Unread
    <3>. QED  BY <2>1, <2>3, <3>4, <3>5, <3>6 DEF FactsRead
  <2>6. CASE Purge(w)
    <3>1. ranks' = ranks \cap run[w].list /\ run[w].at = "purge"
      BY <2>6 DEF Purge
    <3>2. PICK x \in Run : Becomes(w, x) /\ x.at = "invalidate"
      BY <2>6, RunPurges
    <3>3. \A v \in Runs : run'[v].at \in Writing => run'[v] = run[v]
      BY <3>2 DEF Becomes, Writing
    <3>4. run[w].at \in Writing
      BY <3>1 DEF Writing
    <3>5. ASSUME NEW v \in Runs, run'[v].at \in Writing
          PROVE  /\ run'[v].list \ run'[v].todo \subseteq ranks'
                 /\ run'[v].at = "purge" => run'[v].list \subseteq ranks'
      <4>1. run'[v] = run[v] /\ run[v].list = run[w].list
        BY <2>3, <3>3, <3>4, <3>5
      <4>. QED  BY <2>3, <3>1, <3>5, <4>1
    <3>6. Unread => Unread'
      BY <2>1, <2>2, <3>1 DEF Unread
    <3>. QED  BY <2>1, <2>3, <3>3, <3>5, <3>6 DEF FactsRead
  <2>7. CASE RunInvalidates(w) \/ RunFails(w) \/ Requeue(w)
    <3>1. ranks' = ranks
      BY <2>7 DEF RunInvalidates, RunFails, Requeue
    <3>2. run'[w].at \in {"idle", "read"}
      BY <2>7, RunLeaves, RunRequeues DEF RunInvalidates, RunFails, Becomes
    <3>3. Same
      BY <2>1, <3>2 DEF Writing
    <3>4. CASE redis
      <4>1. \A v \in Runs : v # w => run[v].at = "idle"
        BY <2>1, <3>4 DEF OneRun
      <4>2. \A v \in Runs : run'[v].at \notin Writing
        BY <2>1, <3>2, <4>1 DEF Writing
      <4>. QED  BY <1>4, <1>5, <3>1, <3>3, <4>2
    <3>5. CASE ~redis
      <4>1. ~RunFails(w)
        BY <1>1, <3>5 DEF RunFails, Mishap
      <4>2. CASE RunInvalidates(w)
        <5>1. Unread => Unread'
          BY <2>1, <2>2, <4>2 DEF Unread, RunInvalidates
        <5>. QED  BY <1>4, <1>5, <2>1, <3>1, <3>3, <5>1
      <4>3. CASE Requeue(w)
        <5>1. ~run[w].retry
          BY <1>5, <4>3 DEF RequeueOnce, Requeue
        <5>2. PICK x \in Run : Becomes(w, x) /\ x.at = "read"
          BY <3>5, <4>3, <5>1, RunRequeues
        <5>3. Unread'
          BY <5>2 DEF Unread, Becomes
        <5>. QED  BY <1>4, <1>5, <3>1, <3>3, <5>3
      <4>. QED  BY <2>7, <4>1, <4>2, <4>3
    <3>. QED  BY <1>2, <3>4, <3>5
  <2>. QED  BY <1>5, <2>4, <2>5, <2>6, <2>7 DEF RunStep
<1>6. ASSUME ~mishap, NEW w \in Runs, RunDies(w)
      PROVE  FactsRead'
  <2>1. /\ UNCHANGED <<eligible, recent, writer, ranks>> /\ run'[w].at = "idle" /\ redis
        /\ run[w].at # "idle"
        /\ \A u \in Runs : u # w => run'[u] = run[u]
    BY <1>1, <1>6, DeathEffects
  <2>2. \A v \in Runs : run'[v].at \notin Writing
    BY <2>1 DEF OneRun, Writing
  <2>. QED  BY <1>4, <1>6, <2>1, <2>2
<1>7. ASSUME ~mishap, EnqueueRebuild, UNCHANGED <<eligible, recent, ranks>>,
             \/ Pending => Pending'
             \/ Unread'
             \/ \A v \in Runs : run[v].at \in AfterRead => run[v].list \in recent
      PROVE  FactsRead'
  <2>1. \A v \in Runs : run'[v] = run[v] \/ (run[v].at = "idle" /\ run'[v].at = "read")
    BY <1>7, EnqueueEffects
  <2>2. Same
    BY <2>1 DEF Writing
  <2>3. (Pending => Pending') => (Unread => Unread')
    BY <2>1 DEF Unread
  <2>4. (\A v \in Runs : run[v].at \in AfterRead => run[v].list \in recent)
        => \A v \in Runs : run'[v].at \in Writing => run'[v].list \in recent'
    BY <1>7, <2>2 DEF AfterRead
  <2>. QED  BY <1>4, <1>7, <2>2, <2>3, <2>4
<1>8. ASSUME ~mishap, NEW u \in Writers, WriterEnqueues(u)
      PROVE  FactsRead'
  <2>1. EnqueueRebuild /\ UNCHANGED <<eligible, recent, ranks>>
    BY <1>8 DEF WriterEnqueues
  <2>. QED  BY <1>1, <1>2, <1>7, <1>8, <2>1, EnqueuedComes
<1>9. ASSUME ~mishap, NEW r \in Readers, ReaderEnqueues(r)
      PROVE  FactsRead'
  <2>1. EnqueueRebuild /\ UNCHANGED <<eligible, recent, ranks, writer>>
    BY <1>9 DEF ReaderEnqueues
  <2>2. Pending' <=> Pending
    BY <2>1 DEF Pending, Calls
  <2>. QED  BY <1>7, <1>9, <2>1, <2>2
<1>10. CASE ~mishap /\ Take
  <2>1. PICK w \in Runs, x \in Run : run[w].at = "idle" /\ Becomes(w, x) /\ x.at = "read"
    BY <1>10, RunStarts DEF Take
  <2>2. Same /\ Unread'
    BY <2>1 DEF Becomes, Writing, Unread
  <2>3. ranks' = ranks
    BY <1>10 DEF Take
  <2>. QED  BY <1>4, <1>10, <2>2, <2>3
<1>11. CASE ~mishap /\ (JobStalls \/ BackoffEnds \/ JobForgotten)
  <2>1. UNCHANGED <<eligible, recent, writer, ranks, run>>
    BY <1>11 DEF JobStalls, BackoffEnds, JobForgotten
  <2>2. Unread' <=> Unread
    BY <2>1 DEF Unread, Pending, Calls
  <2>. QED  BY <1>4, <1>11, <2>1, <2>2
<1>12. CASE ~mishap /\ Apart
  <2>1. UNCHANGED run
    BY <1>12, ApartEffects
  <2>2. ranks' = ranks /\ (Pending => Pending') /\ (Pending' \/ recent \subseteq recent')
    BY <1>1, <1>12, ApartKeeps
  <2>3. Unread => Unread'
    BY <2>1, <2>2 DEF Unread
  <2>4. Unread' \/ recent \subseteq recent'
    BY <2>2 DEF Unread
  <2>. QED  BY <1>4, <1>12, <2>1, <2>2, <2>3, <2>4
<1>. QED  BY <1>2, <1>3, <1>5, <1>6, <1>8, <1>9, <1>10, <1>11, <1>12, Steps

LEMMA JustWrittenStep ==
  ASSUME TypeOK, OneRun, FactsRead, JustWritten, [Next]_vars
  PROVE  JustWritten'
<1>1. run \in [Runs -> Run] /\ ranks \in Lists /\ mishap \in BOOLEAN
  BY TypeFacts
<1> USE DEF facts, stored, setting
<1>2. redis' = redis
  BY RedisStays
<1>3. SUFFICES ASSUME ~mishap', redis, NEW v \in Runs, run'[v].at = "invalidate"
      PROVE  ranks' = run'[v].list
  BY <1>2 DEF JustWritten
<1>4. CASE mishap
  BY <1>3, <1>4, HealEffects DEF Becomes, AfterRead
<1>5. ASSUME ~mishap, run'[v] = run[v], ranks' = ranks
      PROVE  ranks' = run'[v].list
  BY <1>3, <1>5 DEF JustWritten
<1>6. ASSUME ~mishap, NEW w \in Runs, RunStep(w) \/ RunFails(w)
      PROVE  ranks' = run'[v].list
  <2>1. run[w].at # "idle" /\ \A u \in Runs : u # w => run'[u] = run[u]
    BY <1>6, RunEffects
  <2>2. v = w
    BY <1>3, <2>1 DEF OneRun
  <2>3. Purge(w)
    <3>1. CASE Snapshot(w)
      BY <1>3, <2>2, <3>1, RunReads DEF Becomes
    <3>2. CASE UpsertChunk(w)
      BY <1>3, <2>2, <3>2, RunUpserts DEF Becomes
    <3>3. CASE RunInvalidates(w) \/ RunFails(w) \/ Requeue(w)
      BY <1>3, <2>2, <3>3, RunLeaves, RunRequeues DEF Becomes, RunInvalidates, RunFails
    <3>. QED  BY <1>6, <3>1, <3>2, <3>3 DEF RunStep
  <2>4. run'[w].list = run[w].list
    BY <2>3, RunPurges DEF Becomes
  <2>5. run[w].at = "purge" /\ ranks' = ranks \cap run[w].list
    BY <2>3 DEF Purge
  <2>6. run[w].list \subseteq ranks
    BY <1>6, <2>5 DEF FactsRead, Writing
  <2>. QED  BY <2>2, <2>4, <2>5, <2>6
<1>7. ASSUME ~mishap, NEW w \in Runs, RunDies(w)
      PROVE  ranks' = run'[v].list
  BY <1>3, <1>5, <1>7, DeathEffects
<1>8. ASSUME ~mishap, EnqueueRebuild, ranks' = ranks
      PROVE  ranks' = run'[v].list
  BY <1>3, <1>5, <1>8, EnqueueEffects
<1>9. CASE /\ ~mishap
           /\ \/ \E u \in Writers : WriterEnqueues(u)
              \/ \E r \in Readers : ReaderEnqueues(r)
  BY <1>8, <1>9 DEF WriterEnqueues, ReaderEnqueues
<1>10. CASE ~mishap /\ Take
  <2>1. PICK w \in Runs, x \in Run : Becomes(w, x) /\ x.at = "read"
    BY <1>10, RunStarts DEF Take
  <2>. QED  BY <1>3, <1>5, <1>10, <2>1 DEF Take, Becomes
<1>11. CASE ~mishap /\ (JobStalls \/ BackoffEnds \/ JobForgotten)
  BY <1>5, <1>11 DEF JobStalls, BackoffEnds, JobForgotten
<1>12. CASE ~mishap /\ Apart
  BY <1>3, <1>5, <1>12, ApartEffects, ApartKeeps
<1>. QED  BY <1>1, <1>4, <1>6, <1>7, <1>9, <1>10, <1>11, <1>12, Steps

\* A rebuild that is coming stays so until its run deletes the rows it does not want:
\* then the rows are facts that are recent enough.
LEMMA ComingStep ==
  ASSUME TypeOK, OneRun, StallsLeft, RequeueOnce, FactsKnown, FactsRead, JustWritten, Coming, [Next]_vars,
         ~mishap, ~mishap'
  PROVE  Coming' \/ (ranks' \in recent' /\ At({"invalidate"})')
<1>1. redis \in BOOLEAN /\ job \in Job /\ run \in [Runs -> Run] /\ ranks \in Lists
  BY TypeFacts
<1> USE DEF facts, stored, setting
<1>2. ASSUME NEW w \in Runs, RunStep(w) \/ RunFails(w)
      PROVE  Coming' \/ (ranks' \in recent' /\ At({"invalidate"})')
  <2>1. /\ run[w].at # "idle" /\ UNCHANGED <<redis, writer, eligible, recent>>
        /\ \A v \in Runs : v # w => run'[v] = run[v]
    BY <1>2, RunEffects
  <2>2. CASE Pending
    <3>1. Pending'
      BY <2>1, <2>2 DEF Pending, Calls
    <3>. QED  BY <3>1 DEF Coming, Pending
  <2>3. CASE \E v \in Runs : /\ v # w
                            /\ \/ run[v].at = "read"
                               \/ run[v].at \in Writing /\ run[v].list \in recent
                               \/ run[v].at = "requeue" /\ ~run[v].retry
    BY <2>1, <2>3 DEF Coming
  <2>4. CASE ~Pending /\ \A v \in Runs : v # w => /\ run[v].at # "read"
                                               /\ ~(run[v].at \in Writing /\ run[v].list \in recent)
                                               /\ ~(run[v].at = "requeue" /\ ~run[v].retry)
    <3>1. \/ run[w].at \in Writing /\ run[w].list \in recent
          \/ run[w].at = "read"
          \/ run[w].at = "requeue" /\ ~run[w].retry
      <4>1. CASE redis
        <5>1. job.state = "active"
          BY <2>1, <4>1 DEF OneRun
        <5>. QED  BY <2>1, <2>4, <5>1 DEF Coming, WorkerGone, Pending
      <4>2. CASE ~redis
        <5>1. job.state = "none"
          BY <4>2 DEF OneRun
        <5>. QED  BY <2>1, <2>4, <5>1 DEF Coming, WorkerGone, Pending
      <4>. QED  BY <1>1, <4>1, <4>2
    <3>2. run[w].at = "purge" => run[w].list \subseteq ranks
      BY DEF FactsRead, Writing
    <3>3. CASE Snapshot(w)
      <4>1. PICK x \in Run :
              /\ Becomes(w, x)
              /\ \/ x.at = (IF eligible = {} THEN "purge" ELSE "upsert") /\ x.list = eligible
                 \/ x.at = "requeue" /\ ~x.retry
        BY <3>3, RunReads
      <4>. QED  BY <2>1, <4>1 DEF Becomes, Coming, Writing, FactsKnown
    <3>4. CASE UpsertChunk(w)
      <4>1. PICK x \in Run : Becomes(w, x) /\ x.at \in Writing /\ x.list = run[w].list
        BY <3>4, RunUpserts DEF Writing
      <4>2. run[w].list \in recent
        BY <3>1, <3>4 DEF UpsertChunk
      <4>. QED  BY <2>1, <4>1, <4>2 DEF Becomes, Coming
    <3>5. CASE Purge(w)
      <4>1. ranks' = ranks \cap run[w].list /\ run[w].at = "purge"
        BY <3>5 DEF Purge
      <4>2. ranks' \in recent'
        <5>1. ranks' = run[w].list
          BY <3>2, <4>1
        <5>. QED  BY <2>1, <3>1, <4>1, <5>1
      <4>3. PICK x \in Run : Becomes(w, x) /\ x.at = "invalidate"
        BY <3>5, RunPurges
      <4>. QED  BY <4>2, <4>3 DEF Becomes, At
    <3>6. ~RunInvalidates(w)
      BY <3>1 DEF RunInvalidates, Writing
    <3>7. CASE Requeue(w)
      <4>1. ~redis /\ ~run[w].retry
        BY <3>7 DEF Requeue, RequeueOnce
      <4>2. PICK x \in Run : Becomes(w, x) /\ x.at = "read"
        BY <3>7, <4>1, RunRequeues
      <4>. QED  BY <4>2 DEF Becomes, Coming
    <3>8. CASE RunFails(w)
      <4>1. redis /\ job' = Thrown(job) /\ job'.state # "failed"
        BY <1>1, <3>8 DEF RunFails, Mishap
      <4>2. job'.state = "delayed"
        BY <1>1, <4>1, JobEvents
      <4>. QED  BY <4>2 DEF Coming
    <3>. QED  BY <1>2, <3>3, <3>4, <3>5, <3>6, <3>7, <3>8 DEF RunStep
  <2>. QED  BY <2>2, <2>3, <2>4
<1>3. ASSUME NEW w \in Runs, RunDies(w)
      PROVE  Coming'
  <2>1. /\ run[w].at # "idle" /\ run'[w].at = "idle" /\ redis /\ job' = job
        /\ \A v \in Runs : v # w => run'[v] = run[v]
    BY <1>3, DeathEffects
  <2>2. job.state = "active" /\ \A v \in Runs : v # w => run[v].at = "idle"
    BY <2>1 DEF OneRun
  <2>. QED  BY <2>1, <2>2 DEF Coming, WorkerGone
<1>4. ASSUME NEW u \in Writers, WriterEnqueues(u)
      PROVE  Coming' \/ (ranks' \in recent' /\ At({"invalidate"})')
  BY <1>4, EnqueuedKeeps
<1>5. ASSUME NEW r \in Readers, ReaderEnqueues(r)
      PROVE  Coming'
  <2>1. EnqueueRebuild /\ UNCHANGED <<recent, writer>>
    BY <1>5 DEF ReaderEnqueues
  <2>2. Pending => Pending'
    BY <2>1 DEF Pending, Calls
  <2>3. \/ run' = run /\ (job' = job \/ (redis /\ job.state = "none" /\ job'.state = "waiting"))
        \/ \E w \in Runs : run'[w].at = "read"
    BY <2>1, EnqueueEffects
  <2>. QED  BY <2>1, <2>2, <2>3 DEF Coming, Pending, WorkerGone
<1>6. CASE Take
  <2>1. PICK w \in Runs, x \in Run : Becomes(w, x) /\ x.at = "read"
    BY <1>6, RunStarts DEF Take
  <2>. QED  BY <2>1 DEF Coming, Becomes
<1>7. CASE JobStalls \/ BackoffEnds
  <2>1. job'.state = "waiting"
    <3>1. CASE JobStalls
      <4>1. job.stalls # MaxStalls
        BY <3>1 DEF JobStalls, StallsLeft
      <4>. QED  BY <1>1, <3>1, <4>1, JobEvents DEF JobStalls
    <3>2. CASE BackoffEnds
      BY <1>1, <3>2, JobEvents DEF BackoffEnds
    <3>. QED  BY <1>7, <3>1, <3>2
  <2>. QED  BY <2>1 DEF Coming
<1>8. CASE JobForgotten
  <2>1. UNCHANGED <<recent, writer, run>> /\ job.state \in Finished
    BY <1>8 DEF JobForgotten
  <2>. QED  BY <2>1 DEF Coming, Finished, WorkerGone, Calls
<1>9. CASE Apart
  <2>1. UNCHANGED <<job, run>>
    BY <1>9, ApartEffects
  <2>2. (Pending => Pending') /\ (Pending' \/ recent \subseteq recent')
    BY <1>9, ApartKeeps
  <2>. QED  BY <2>1, <2>2 DEF Coming, Pending, WorkerGone
<1>. QED  BY <1>2, <1>3, <1>4, <1>5, <1>6, <1>7, <1>8, <1>9, Steps

LEMMA RanksStep ==
  ASSUME TypeOK, OneRun, StallsLeft, RequeueOnce, FactsKnown, FactsRead, JustWritten, RanksFollow, [Next]_vars
  PROVE  RanksFollow'
<1>1. SUFFICES ASSUME ~mishap', ~Coming' PROVE ranks' \in recent'
  BY DEF RanksFollow
<1> USE DEF facts, stored, setting
<1>2. CASE mishap
  <2>1. PICK w \in Runs, x \in Run :
          Becomes(w, x) /\ x.at = (IF eligible = {} THEN "purge" ELSE "upsert")
          /\ x.list = eligible /\ UNCHANGED <<eligible, recent>>
    BY <1>1, <1>2, HealEffects
  <2>. QED  BY <1>1, <2>1 DEF Becomes, Coming, Writing, FactsKnown
<1>3. CASE ~mishap /\ Coming
  BY <1>1, <1>3, ComingStep
<1>4. CASE ~mishap /\ ~Coming
  <2>1. ranks \in recent
    BY <1>4 DEF RanksFollow
  <2>2. ~Unread /\ \A w \in Runs : run[w].at \notin Writing
    BY <1>4 DEF Coming, Unread, Pending, FactsRead
  <2>3. ASSUME UNCHANGED <<recent, ranks>>
        PROVE  ranks' \in recent'
    BY <2>1, <2>3
  <2>4. ASSUME NEW w \in Runs, RunStep(w) \/ RunFails(w)
        PROVE  UNCHANGED <<recent, ranks>>
    <3>1. recent' = recent
      BY <2>4, RunEffects
    <3>2. ranks' = ranks
      BY <2>2, <2>4 DEF RunStep, Snapshot, UpsertChunk, Purge, RunInvalidates, Requeue, RunFails,
         Writing
    <3>. QED  BY <3>1, <3>2
  <2>5. ASSUME NEW w \in Runs, RunDies(w)
        PROVE  UNCHANGED <<recent, ranks>>
    BY <2>5, DeathEffects
  <2>6. CASE \/ \E u \in Writers : WriterEnqueues(u)
             \/ \E r \in Readers : ReaderEnqueues(r)
             \/ Take \/ JobStalls \/ BackoffEnds \/ JobForgotten
    BY <2>3, <2>6 DEF WriterEnqueues, ReaderEnqueues, Take, JobStalls, BackoffEnds, JobForgotten
  <2>7. CASE Apart
    <3>1. ~Pending'
      BY <1>1 DEF Coming, Pending
    <3>. QED  BY <1>1, <2>1, <2>7, <3>1, ApartKeeps
  <2>. QED  BY <2>3, <2>4, <2>5, <2>6, <2>7, Steps
<1>5. mishap \in BOOLEAN
  BY TypeFacts
<1>. QED  BY <1>2, <1>3, <1>4, <1>5

----------------------------------------------------------------------------
(* The cached list.                                                        *)

\* Without Redis there is no cache, and no reader stores a list.
NoRedis == ~redis => cache = {} /\ \A r \in Readers : reader[r].at # "store"

\* An invalidation of the cache is to come.
Dropping ==
  \/ Coming
  \/ At({"invalidate"})
  \/ \E u \in Writers : "invalidate" \in Calls(u)

\* So it is, too, while a reader holds a list from before the last change that asks for
\* one, unless the invalidation has passed it by.
ReadersFollow ==
  ~mishap =>
    \A r \in Readers :
      reader[r].at = "store" /\ ~reader[r].old /\ reader[r].list \notin fresh => Dropping

\* An invalidation of the cache happens, or is tried in vain.
Dropped == Invalidate \/ (Miss /\ UNCHANGED cache)

LEMMA DroppedEffects ==
  ASSUME TypeOK, Dropped
  PROVE  /\ \A r \in Readers : /\ reader'[r].at = reader[r].at
                               /\ reader[r].at = "store" => reader'[r].old
         /\ cache' = {} \/ (stale' = redis /\ cache' = cache)
BY InvalidateTypes, OvertakeTypes DEF Dropped, Miss

LEMMA NoRedisStep ==
  ASSUME TypeOK, NoRedis, [Next]_vars
  PROVE  NoRedis'
<1>1. /\ redis \in BOOLEAN /\ reader \in [Readers -> Reader]
      /\ cache \in {{}} \cup {{list} : list \in Lists}
  BY TypeFacts
<1> USE DEF stored, setting
<1>2. redis' = redis
  BY RedisStays
<1>3. SUFFICES ASSUME ~redis PROVE cache' = {} /\ \A r \in Readers : reader'[r].at # "store"
  BY <1>2 DEF NoRedis
<1>4. cache = {} /\ \A r \in Readers : reader[r].at # "store"
  BY <1>3 DEF NoRedis
<1>5. CASE Dropped
  <2>1. cache' = {}
    BY <1>4, <1>5, DroppedEffects
  <2>. QED  BY <1>4, <1>5, <2>1, DroppedEffects
<1>10. ASSUME NEW u \in Writers, WriterFails(u)
       PROVE  Dropped \/ UNCHANGED <<cache, reader>>
  BY <1>10 DEF WriterFails, Dropped
<1>6. ASSUME NEW r \in Readers, StoreList(r) \/ ReadEmpty(r) \/ ReaderEnqueues(r) \/ ReaderFails(r)
      PROVE  cache' = {} /\ \A q \in Readers : reader'[q].at # "store"
  <2>1. cache' = cache
    BY <1>4, <1>6 DEF StoreList, ReadEmpty, ReaderEnqueues, ReaderFails
  <2>2. reader' = [reader EXCEPT ![r] = NoReader] \/ reader' = [reader EXCEPT ![r].at = "enqueue"]
    BY <1>6 DEF StoreList, ReadEmpty, ReaderEnqueues, ReaderFails
  <2>3. reader'[r].at # "store"
    BY <1>1, <2>2 DEF NoReader, Reader
  <2>4. \A q \in Readers : q # r => reader'[q] = reader[q]
    BY <1>1, <2>2
  <2>. QED  BY <1>4, <2>1, <2>3, <2>4
<1>7. CASE Expire
  BY <1>4, <1>7 DEF Expire
<1>8. CASE UNCHANGED <<cache, reader>>
  BY <1>4, <1>8
<1>9. \A r \in Readers : ~BuildList(r)
  BY <1>3 DEF BuildList
<1>. QED
  BY <1>5, <1>6, <1>7, <1>8, <1>9, <1>10 DEF Next, vars, WriterStep, RunStep, Commit,
     WriterInvalidates, WriterEnqueues, Dropped, Snapshot, UpsertChunk, Purge, RunInvalidates, Requeue, RunFails,
     RunDies, Take, JobStalls, BackoffEnds, JobForgotten

\* An invalidation to come stays so until one happens.
LEMMA DroppingStep ==
  ASSUME TypeOK, OneRun, StallsLeft, RequeueOnce, FactsKnown, FactsRead, JustWritten, Dropping,
         [Next]_vars, ~mishap, ~mishap'
  PROVE  Dropping' \/ Dropped
<1>1. CASE Coming
  BY <1>1, ComingStep DEF Dropping
<1>2. ASSUME NEW v \in Runs, run[v].at = "invalidate", run'[v] = run[v]
      PROVE  Dropping'
  BY <1>2 DEF Dropping, At
<1>3. ASSUME NEW v \in Writers, "invalidate" \in Calls(v)'
      PROVE  Dropping'
  BY <1>3 DEF Dropping
<1> USE DEF facts, stored, setting
<1>4. ASSUME NEW v \in Runs, run[v].at = "invalidate"
      PROVE  Dropping' \/ Dropped
  <2>1. ASSUME NEW w \in Runs, RunStep(w) \/ RunFails(w)
        PROVE  Dropping' \/ Dropped
    <3>1. CASE w = v
      <4>1. RunInvalidates(w)
        BY <1>4, <2>1, <3>1 DEF RunStep, Snapshot, UpsertChunk, Purge, Requeue, RunFails
      <4>. QED  BY <4>1 DEF RunInvalidates, Dropped
    <3>2. CASE w # v
      BY <1>2, <1>4, <2>1, <3>2, RunEffects
    <3>. QED  BY <3>1, <3>2
  <2>2. ASSUME NEW w \in Runs, RunDies(w)
        PROVE  Dropping'
    <3>1. /\ run[w].at # "idle" /\ run'[w].at = "idle" /\ redis /\ job' = job
          /\ \A x \in Runs : x # w => run'[x] = run[x]
      BY <2>2, DeathEffects
    <3>2. job.state = "active" /\ \A x \in Runs : x # w => run[x].at = "idle"
      BY <3>1 DEF OneRun
    <3>. QED  BY <3>1, <3>2 DEF Dropping, Coming, WorkerGone
  <2>3. CASE Take
    <3>1. PICK w \in Runs, x \in Run : run[w].at = "idle" /\ Becomes(w, x)
      BY <2>3, RunStarts DEF Take
    <3>. QED  BY <1>2, <1>4, <3>1 DEF Becomes
  <2>4. CASE JobStalls \/ BackoffEnds \/ JobForgotten
    <3>1. run' = run
      BY <2>4 DEF JobStalls, BackoffEnds, JobForgotten
    <3>. QED  BY <1>2, <1>4, <3>1
  <2>5. CASE Apart
    BY <1>2, <1>4, <2>5, ApartEffects
  <2>6. ASSUME EnqueueRebuild
        PROVE  Dropping'
    <3>1. run'[v] = run[v]
      BY <1>4, <2>6, EnqueueEffects
    <3>. QED  BY <1>2, <1>4, <3>1
  <2>. QED  BY <2>1, <2>2, <2>3, <2>4, <2>5, <2>6, Steps DEF WriterEnqueues, ReaderEnqueues
<1>5. ASSUME NEW v \in Writers, "invalidate" \in Calls(v)
      PROVE  Dropping' \/ Dropped
  <2>1. CASE UNCHANGED writer
    <3>1. "invalidate" \in Calls(v)'
      BY <1>5, <2>1 DEF Calls
    <3>. QED  BY <1>3, <3>1
  <2>2. ASSUME NEW u \in Writers, WriterInvalidates(u)
        PROVE  Dropped
    BY <2>2 DEF WriterInvalidates, Dropped
  <2>3. ASSUME NEW u \in Writers, WriterEnqueues(u)
        PROVE  Dropping'
    <3>1. Head(writer[u]) = "enqueue"
      BY <2>3 DEF WriterEnqueues
    <3>2. "invalidate" \in Calls(v)'
      BY <1>5, <2>3, <3>1, WriterEffects
    <3>. QED  BY <1>3, <3>2
  <2>4. ASSUME NEW u \in Writers, Commit(u)
        PROVE  Dropping'
    <3>1. "invalidate" \in Calls(v)'
      BY <1>5, <2>4, WriterEffects
    <3>. QED  BY <1>3, <3>1
  <2>5. ASSUME NEW u \in Writers, WriterFails(u)
        PROVE  Dropping' \/ Dropped
    <3>1. CASE u = v
      BY <1>5, <2>5, <3>1 DEF WriterFails, Dropped
    <3>2. CASE u # v
      <4>1. "invalidate" \in Calls(v)'
        BY <1>5, <2>5, <3>2, WriterEffects
      <4>. QED  BY <1>3, <4>1
    <3>. QED  BY <3>1, <3>2
  <2>6. ASSUME NEW r \in Readers, BuildList(r) \/ StoreList(r) \/ ReadEmpty(r) \/ ReaderEnqueues(r) \/ ReaderFails(r)
        PROVE  UNCHANGED writer
    BY <2>6 DEF BuildList, StoreList, ReadEmpty, ReaderEnqueues, ReaderFails
  <2>7. ASSUME NEW w \in Runs, RunStep(w) \/ RunFails(w) \/ RunDies(w)
        PROVE  UNCHANGED writer
    BY <2>7, RunEffects, DeathEffects
  <2>8. ASSUME Expire \/ Take \/ JobStalls \/ BackoffEnds \/ JobForgotten \/ UNCHANGED vars
        PROVE  UNCHANGED writer
    BY <2>8 DEF Expire, Take, JobStalls, BackoffEnds, JobForgotten, vars
  <2>. QED  BY <2>1, <2>2, <2>3, <2>4, <2>5, <2>6, <2>7, <2>8 DEF Next, WriterStep
<1>. QED  BY <1>1, <1>4, <1>5 DEF Dropping, At

LEMMA CacheStep ==
  ASSUME TypeOK, OneRun, StallsLeft, RequeueOnce, FactsKnown, FactsRead, JustWritten, NoRedis,
         CacheFollows, ReadersFollow, [Next]_vars
  PROVE  CacheFollows' /\ ReadersFollow'
<1>1. /\ redis \in BOOLEAN /\ reader \in [Readers -> Reader] /\ mishap \in BOOLEAN
      /\ stale \in BOOLEAN
  BY TypeFacts
<1> DEFINE Current == cache = {} \/ \E list \in fresh : cache = {list}
           Held(r) == reader[r].at = "store" /\ ~reader[r].old
<1>2. CacheFollows <=> (~mishap /\ ~stale => Current \/ Dropping)
  BY DEF CacheFollows, Dropping
<1>3. CacheFollows' <=> (~mishap' /\ ~stale' => Current' \/ Dropping')
  BY DEF CacheFollows, Dropping
<1>4. CASE mishap' \/ Dropping'
  BY <1>3, <1>4 DEF ReadersFollow
<1>5. CASE mishap /\ ~mishap'
  <2>1. PICK w \in Runs, x \in Run :
          Becomes(w, x) /\ x.at = (IF eligible = {} THEN "purge" ELSE "upsert")
          /\ x.list = eligible /\ UNCHANGED <<eligible, recent>>
    BY <1>5, HealEffects
  <2>2. Dropping'
    BY <2>1 DEF Becomes, Coming, Writing, FactsKnown, Dropping
  <2>. QED  BY <1>4, <2>2
<1>6. CASE Dropped
  <2>1. NoRedis'
    BY NoRedisStep
  <2>2. redis' = redis
    BY RedisStays
  <2>3. CASE redis
    <3>1. (stale' \/ cache' = {}) /\ \A r \in Readers : reader'[r].at = "store" => reader'[r].old
      BY <1>6, <2>3, DroppedEffects
    <3>. QED  BY <1>3, <3>1 DEF ReadersFollow
  <2>4. CASE ~redis
    <3>1. cache' = {} /\ \A r \in Readers : reader'[r].at # "store"
      BY <2>1, <2>2, <2>4 DEF NoRedis
    <3>. QED  BY <1>3, <3>1 DEF ReadersFollow
  <2>. QED  BY <1>1, <2>3, <2>4
<1>7. CASE ~mishap /\ ~mishap' /\ ~Dropping' /\ ~Dropped
  <2>1. ~Dropping
    BY <1>7, DroppingStep
  <2>2. stale \/ Current
    BY <1>2, <1>7, <2>1
  <2>3. \A r \in Readers : Held(r) => reader[r].list \in fresh
    BY <1>7, <2>1 DEF ReadersFollow
  <2>4. /\ stale' \/ Current'
        /\ \A r \in Readers : Held(r)' => reader'[r].list \in fresh'
    <3> USE DEF facts, stored, setting
    <3>1. CASE UNCHANGED <<cache, reader, stale>> /\ fresh \subseteq fresh'
      BY <2>2, <2>3, <3>1
    <3>2. ASSUME NEW u \in Writers, Commit(u)
          PROVE  UNCHANGED <<cache, reader, stale>> /\ fresh \subseteq fresh'
      BY <1>7, <3>2, WriterEffects DEF Commit, Dropping, Coming
    <3>3. ASSUME NEW u \in Writers, WriterFails(u) \/ WriterInvalidates(u)
          PROVE  UNCHANGED <<cache, reader, stale, fresh>>
      BY <1>7, <3>3 DEF WriterFails, WriterInvalidates, Dropped
    <3>4. ASSUME NEW r \in Readers, BuildList(r)
          PROVE  /\ stale' \/ Current'
                 /\ \A q \in Readers : Held(q)' => reader'[q].list \in fresh'
      <4>1. /\ UNCHANGED <<cache, stale, fresh>> /\ reader'[r].list = eligible
            /\ \A q \in Readers : q # r => reader'[q] = reader[q]
        BY <1>1, <3>4 DEF BuildList
      <4>. QED  BY <2>2, <2>3, <4>1 DEF FactsKnown
    <3>5. ASSUME NEW r \in Readers,
                 StoreList(r) \/ ReadEmpty(r) \/ ReaderEnqueues(r) \/ ReaderFails(r)
          PROVE  /\ stale' \/ Current'
                 /\ \A q \in Readers : Held(q)' => reader'[q].list \in fresh'
      <4>1. fresh' = fresh
        BY <3>5 DEF StoreList, ReadEmpty, ReaderEnqueues, ReaderFails
      <4>2. \/ UNCHANGED <<cache, stale>>
            \/ reader[r].at = "store" /\ cache' = {reader[r].list} /\ stale' = reader[r].old
        BY <3>5 DEF StoreList, ReadEmpty, ReaderEnqueues, ReaderFails
      <4>3. stale' \/ Current'
        BY <1>1, <2>2, <2>3, <4>1, <4>2
      <4>4. reader' = [reader EXCEPT ![r] = NoReader] \/ reader' = [reader EXCEPT ![r].at = "enqueue"]
        BY <3>5 DEF StoreList, ReadEmpty, ReaderEnqueues, ReaderFails
      <4>5. reader'[r].at # "store"
        BY <1>1, <4>4 DEF NoReader, Reader
      <4>6. \A q \in Readers : q # r => reader'[q] = reader[q]
        BY <1>1, <4>4
      <4>. QED  BY <2>3, <4>1, <4>3, <4>5, <4>6
    <3>6. CASE Expire
      BY <2>2, <2>3, <3>6 DEF Expire
    <3>. QED
      BY <1>7, <3>1, <3>2, <3>3, <3>4, <3>5, <3>6 DEF Next, vars, WriterStep, RunStep,
         WriterEnqueues, Snapshot, UpsertChunk, Purge, RunInvalidates, Dropped,
         Requeue, RunFails, RunDies, Take, JobStalls, BackoffEnds, JobForgotten
  <2>. QED  BY <1>3, <2>4 DEF ReadersFollow
<1>. QED  BY <1>1, <1>4, <1>5, <1>6, <1>7

----------------------------------------------------------------------------
(* The theorems.                                                           *)

Inv ==
  /\ TypeOK /\ OneRun /\ StallsLeft /\ RequeueOnce
  /\ FactsKnown /\ FactsRead /\ JustWritten /\ NoRedis
  /\ RanksFollow /\ CacheFollows /\ ReadersFollow

LEMMA InitInv ==
  ASSUME Init
  PROVE  Inv
<1>1. NoJob \in Job /\ NoJob.state = "none"
  BY DEF NoJob, Job, Live, Finished, Attempts, MaxStalls
<1>2. NoRun \in Run /\ NoRun.at = "idle"
  BY DEF NoRun, Run, RunSteps, Lists
<1>3. NoReader \in Reader /\ NoReader.at = "idle"
  BY DEF NoReader, Reader, Lists
<1>4. {} \in Lists /\ 0 \in 0 .. MaxChanges /\ <<>> \in Sequels
  BY MaxChangesAssumption DEF Lists, Sequels
<1>5. TypeOK
  <2>1. run \in [Runs -> Run] /\ reader \in [Readers -> Reader] /\ writer \in [Writers -> Sequels]
    BY <1>2, <1>3, <1>4 DEF Init
  <2>. QED  BY <1>1, <1>4, <2>1, FollowUpsAre DEF Init, TypeOK, Run, RunSteps, Reader
<1>6. \A w \in Runs : run[w].at = "idle"
  BY <1>2 DEF Init
<1>7. \A r \in Readers : reader[r].at = "idle"
  BY <1>3 DEF Init
<1>8. OneRun /\ StallsLeft /\ RequeueOnce
  BY <1>1, <1>6 DEF Init, OneRun, StallsLeft, RequeueOnce, WorkerGone
<1>9. FactsKnown /\ RanksFollow
  BY DEF Init, FactsKnown, RanksFollow
<1>10. FactsRead /\ JustWritten /\ NoRedis /\ CacheFollows /\ ReadersFollow
  BY <1>6, <1>7, <1>9 DEF Init, FactsRead, JustWritten, Writing, NoRedis, CacheFollows, ReadersFollow
<1>. QED  BY <1>5, <1>8, <1>9, <1>10 DEF Inv

LEMMA InvStep ==
  ASSUME Inv, [Next]_vars
  PROVE  Inv'
BY TypeStep, QueueStep, RequeueStep, FactsKnownStep, FactsStep, JustWrittenStep, NoRedisStep,
   RanksStep, CacheStep DEF Inv

LEMMA Invariance == Spec => []Inv
BY InitInv, InvStep, PTL DEF Spec

\* Every value keeps its type.
THEOREM TypeCorrect == Spec => []TypeOK
<1>1. Inv => TypeOK
  BY DEF Inv
<1>. QED  BY <1>1, Invariance, PTL

\* Rows of the ranked list that are older than the last change that asks for a rebuild
\* are about to be rebuilt, or that rebuild has been lost, see Mishap, and no other has
\* begun since.
THEOREM RowsFollow == Spec => []RanksFollow
<1>1. Inv => RanksFollow
  BY DEF Inv
<1>. QED  BY <1>1, Invariance, PTL

\* A cached list that is older than the last change that asks for an invalidation or a
\* rebuild is about to be dropped, or it has missed its invalidation, or the rebuild that
\* was to drop it has been lost.
THEOREM CacheIsDropped == Spec => []CacheFollows
<1>1. Inv => CacheFollows
  BY DEF Inv
<1>. QED  BY <1>1, Invariance, PTL
=============================================================================
