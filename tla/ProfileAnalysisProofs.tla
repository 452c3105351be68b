------------------------- MODULE ProfileAnalysisProofs -------------------------
(***************************************************************************)
(* Proofs about ProfileAnalysis, for every number of requests and runs and *)
(* any bound on the texts: the type invariant, that no profile is stuck,   *)
(* that the evaluation is of the text submitted last, that the ranked list *)
(* follows, and that an erased profile stays erased.                       *)
(*                                                                         *)
(* The inductive invariant adds what the queue guarantees: while a run of  *)
(* the queue is under way its job is active and it is the only one, and a  *)
(* job whose worker has died may stall once more, or a mishap has happened.*)
(* For the evaluation it adds that without the queue a submission is in    *)
(* one pair of hands, and that the run under way holds the text submitted  *)
(* last.                                                                   *)
(***************************************************************************)
EXTENDS ProfileAnalysis, TLAPS

RunSteps == {"idle", "read", "mark", "evaluate", "persist", "fail", "rank"}
RequestSteps == {"idle", "edit", "submit", "enqueue"}
Run == [at : RunSteps, text : Texts]

\* A job of the queue is worked on by one run, and is active meanwhile; without the
\* queue there is no job.
OneRun ==
  IF ~bull THEN job.state = "none"
  ELSE \A w \in Runs : run[w].at # "idle" =>
         job.state = "active" /\ \A v \in Runs : v # w => run[v].at = "idle"

\* The job of a worker that has died is taken again.
StallsLeft == ~mishap /\ WorkerGone => job.stalls # MaxStalls

\* Nothing is under way that could bring the profile back.
Erased ==
  deleted /\ ~overlap =>
    /\ status = "DRAFT" /\ text = 0 /\ evaluated = None
    /\ \A r \in Requests : request[r] = "idle"
    /\ \A w \in Runs : run[w].at \notin Working

\* Without the queue, where a run is started per request: a submission is in one pair of
\* hands, and there is none while the profile may be submitted.
OneSubmission ==
  ~mishap /\ ~deleted /\ ~bull =>
    /\ \A r \in Requests : request[r] = "enqueue" =>
         /\ status = "SUBMITTED" /\ ~At({"read"} \cup Working)
         /\ \A q \in Requests : request[q] = "enqueue" => q = r
    /\ \A w \in Runs : run[w].at = "read" => status = "SUBMITTED"
    /\ \A v, w \in Runs :
         run[v].at \in {"read"} \cup Working /\ run[w].at \in {"read"} \cup Working => v = w

\* The status says what the run under way does, and the run has read the text submitted
\* last, or a later one.
TextInHand ==
  ~mishap /\ ~deleted =>
    /\ submitted <= text
    /\ \A w \in Runs :
         /\ run[w].at = "mark" => status = "SUBMITTED"
         /\ run[w].at \in {"evaluate", "persist", "fail"} => status = "ANALYZING"
         /\ run[w].at \in {"mark", "evaluate", "persist"} => run[w].text >= submitted

Current == OneSubmission /\ TextInHand /\ EvaluationIsCurrent

Inv == TypeOK /\ OneRun /\ StallsLeft /\ Erased /\ NothingStuck /\ RankFollows /\ Current

----------------------------------------------------------------------------
(* The job.                                                                *)

\* What each event makes of a job.
LEMMA JobEvents ==
  ASSUME NEW j \in Job
  PROVE  /\ NoJob \in Job /\ NoJob.state = "none"
         /\ Added(j) \in Job /\ (j.state = "none" => Added(j).state = "waiting")
         /\ (j.state # "none" => Added(j) = j)
         /\ Taken(j) \in Job /\ Taken(j).state = "active" /\ Taken(j).stalls = j.stalls
         /\ Returned(j) \in Job /\ Returned(j).state = "completed"
         /\ Thrown(j) \in Job /\ Thrown(j).state \in {"delayed", "failed"}
         /\ Elapsed(j) \in Job /\ Elapsed(j).state = "waiting"
         /\ Stalled(j) \in Job /\ Stalled(j).state \in {"waiting", "failed"}
         /\ (j.stalls # MaxStalls => Stalled(j).state = "waiting")
         /\ Forgotten(j) \in Job
         /\ (Forgotten(j).state = "none" \/ Forgotten(j) = j)
<1> USE DEF Job, Live, Finished, Attempts, MaxStalls
<1>1. NoJob \in Job /\ NoJob.state = "none"
  BY DEF NoJob
<1>2. Added(j) \in Job /\ (j.state = "none" => Added(j).state = "waiting")
      /\ (j.state # "none" => Added(j) = j)
  BY DEF Added, NoJob
<1>3. Taken(j) \in Job /\ Taken(j).state = "active" /\ Taken(j).stalls = j.stalls
  BY DEF Taken
<1>4. Returned(j) \in Job /\ Returned(j).state = "completed"
  BY DEF Returned
<1>5. Thrown(j) \in Job /\ Thrown(j).state \in {"delayed", "failed"}
  <2>1. j.failures \in 0 .. 3
    OBVIOUS
  <2>2. CASE j.failures + 1 < 3
    <3>1. Thrown(j) = [j EXCEPT !.failures = j.failures + 1, !.state = "delayed"]
      BY <2>2 DEF Thrown
    <3>2. j.failures + 1 \in 0 .. 3
      BY <2>1, <2>2
    <3>. QED  BY <3>1, <3>2
  <2>3. CASE ~(j.failures + 1 < 3)
    <3>1. Thrown(j) = [j EXCEPT !.failures = 3, !.state = "failed"]
      BY <2>3 DEF Thrown
    <3>2. 3 \in 0 .. 3
      OBVIOUS
    <3>. QED  BY <3>1, <3>2
  <2>. QED  BY <2>2, <2>3
<1>6. Elapsed(j) \in Job /\ Elapsed(j).state = "waiting"
  BY DEF Elapsed
<1>7. Stalled(j) \in Job /\ Stalled(j).state \in {"waiting", "failed"}
      /\ (j.stalls # MaxStalls => Stalled(j).state = "waiting")
  <2>1. j.stalls \in 0 .. 1
    OBVIOUS
  <2>2. CASE j.stalls < 1
    <3>1. Stalled(j) = [j EXCEPT !.stalls = j.stalls + 1, !.state = "waiting"]
      BY <2>2 DEF Stalled
    <3>2. j.stalls + 1 \in 0 .. 1
      BY <2>1, <2>2
    <3>. QED  BY <3>1, <3>2
  <2>3. CASE ~(j.stalls < 1)
    <3>1. Stalled(j) = [j EXCEPT !.state = "failed"] /\ j.stalls = 1
      BY <2>1, <2>3 DEF Stalled
    <3>. QED  BY <3>1
  <2>. QED  BY <2>2, <2>3
<1>8. Forgotten(j) \in Job /\ (Forgotten(j).state = "none" \/ Forgotten(j) = j)
  BY <1>1 DEF Forgotten
<1>. QED  BY <1>1, <1>2, <1>3, <1>4, <1>5, <1>6, <1>7, <1>8

\* The job when the processor's promise settles.
LEMMA Settled ==
  ASSUME TypeOK
  PROVE  /\ Return => job' \in Job /\ (~bull => job' = job)
                      /\ (bull => job'.state = "completed")
         /\ Throw => job' \in Job /\ mishap' \in BOOLEAN /\ (~bull => mishap')
                     /\ (~mishap' => bull /\ job'.state = "delayed" /\ ~mishap)
                     /\ (bull => job'.state \in {"delayed", "failed"}) /\ (~bull => job' = job)
<1>1. job \in Job /\ bull \in BOOLEAN /\ mishap \in BOOLEAN
  BY DEF TypeOK
<1>2. Returned(job) \in Job /\ Returned(job).state = "completed" /\ Thrown(job) \in Job
      /\ Thrown(job).state \in {"delayed", "failed"}
  BY <1>1, JobEvents
<1>3. ASSUME Return
      PROVE  job' \in Job /\ (~bull => job' = job) /\ (bull => job'.state = "completed")
  BY <1>1, <1>2, <1>3 DEF Return
<1>4. ASSUME Throw
      PROVE  /\ job' \in Job /\ mishap' \in BOOLEAN /\ (~bull => mishap')
             /\ (~mishap' => bull /\ job'.state = "delayed" /\ ~mishap)
             /\ (bull => job'.state \in {"delayed", "failed"}) /\ (~bull => job' = job)
  <2>1. job' = (IF bull THEN Thrown(job) ELSE job)
    BY <1>4 DEF Throw
  <2>2. mishap' = (mishap \/ ~bull \/ Thrown(job).state = "failed")
    BY <1>4 DEF Throw, Mishap
  <2>. QED  BY <1>1, <1>2, <2>1, <2>2
<1>. QED  BY <1>3, <1>4

----------------------------------------------------------------------------
(* Types.                                                                  *)

\* A run that moves is typed, and the others stay.
LEMMA RunMoves ==
  ASSUME TypeOK, NEW w \in Runs
  PROVE  /\ \A next \in RunSteps : Goto(w, next) =>
              /\ run' \in [Runs -> Run] /\ run'[w].at = next /\ run'[w].text = run[w].text
              /\ \A v \in Runs : v # w => run'[v] = run[v]
         /\ \A x \in Run : run' = [run EXCEPT ![w] = x] =>
              run' \in [Runs -> Run] /\ run'[w] = x /\ \A v \in Runs : v # w => run'[v] = run[v]
         /\ NoRun \in Run /\ NoRun.at = "idle"
<1>1. run \in [Runs -> Run] /\ run[w] \in Run
  BY DEF TypeOK, Run, RunSteps
<1>2. ASSUME NEW next \in RunSteps, Goto(w, next)
      PROVE  /\ run' \in [Runs -> Run] /\ run'[w].at = next /\ run'[w].text = run[w].text
             /\ \A v \in Runs : v # w => run'[v] = run[v]
  <2> DEFINE x == [run[w] EXCEPT !.at = next]
  <2>1. x \in Run /\ x.at = next /\ x.text = run[w].text
    BY <1>1 DEF Run
  <2>2. run' = [run EXCEPT ![w] = x]
    BY <1>1, <1>2 DEF Goto
  <2> HIDE DEF x
  <2>. QED  BY <1>1, <2>1, <2>2
<1>3. NoRun \in Run /\ NoRun.at = "idle"
  BY MaxTextAssumption DEF NoRun, Run, RunSteps, Texts
<1>. QED  BY <1>1, <1>2, <1>3

LEMMA TypeParts ==
  ASSUME status' \in Statuses, text' \in Texts, evaluated' \in Texts \cup {None},
         deleted' \in BOOLEAN, request' \in [Requests -> RequestSteps], job' \in Job,
         run' \in [Runs -> Run], bull' \in BOOLEAN, unranked' \in BOOLEAN, submitted' \in Texts,
         overlap' \in BOOLEAN, mishap' \in BOOLEAN
  PROVE  TypeOK'
BY DEF TypeOK, RequestSteps, RunSteps, Run

LEMMA TypeStep ==
  ASSUME TypeOK, [Next]_vars
  PROVE  TypeOK'
<1>1. /\ status \in Statuses /\ text \in Texts /\ evaluated \in Texts \cup {None}
      /\ deleted \in BOOLEAN /\ request \in [Requests -> RequestSteps] /\ job \in Job
      /\ run \in [Runs -> Run] /\ bull \in BOOLEAN /\ unranked \in BOOLEAN /\ submitted \in Texts
      /\ overlap \in BOOLEAN /\ mishap \in BOOLEAN
  BY DEF TypeOK, RequestSteps, RunSteps, Run
<1>2. {"DRAFT", "SUBMITTED", "ANALYZING", "ANALYZED", "FAILED"} \subseteq Statuses /\ 0 \in Texts
  BY MaxTextAssumption DEF Statuses, Texts
<1>3. ASSUME NEW r \in Requests, NEW next \in RequestSteps, Step(r, next)
      PROVE  request' \in [Requests -> RequestSteps]
  BY <1>1, <1>3 DEF Step
<1>4. ASSUME NEW happens, Mishap(happens)
      PROVE  mishap' \in BOOLEAN
  BY <1>4 DEF Mishap
<1> USE DEF profile, history
<1>5. ASSUME NEW r \in Requests,
             BeginEdit(r) \/ BeginSubmit(r) \/ Refuse(r) \/ MarkSubmitted(r) \/ RequestDies(r)
      PROVE  TypeOK'
  <2>1. request' \in [Requests -> RequestSteps]
    BY <1>3, <1>5 DEF BeginEdit, BeginSubmit, Refuse, MarkSubmitted, RequestDies, RequestSteps
  <2>2. mishap' \in BOOLEAN
    BY <1>1, <1>4, <1>5 DEF BeginEdit, BeginSubmit, Refuse, MarkSubmitted, RequestDies
  <2>. QED
    BY <1>1, <1>2, <1>5, <2>1, <2>2, TypeParts DEF BeginEdit, BeginSubmit, Refuse, MarkSubmitted,
       RequestDies
<1>6. ASSUME NEW r \in Requests, SaveEdit(r)
      PROVE  TypeOK'
  <2>1. request' \in [Requests -> RequestSteps]
    BY <1>3, <1>6 DEF SaveEdit, RequestSteps
  <2>2. text' \in Texts
    BY <1>1, <1>6, MaxTextAssumption DEF SaveEdit, Texts
  <2>. QED  BY <1>1, <1>6, <2>1, <2>2, TypeParts DEF SaveEdit
<1>7. ASSUME NEW r \in Requests, AddJob(r)
      PROVE  TypeOK'
  <2>1. request' \in [Requests -> RequestSteps]
    BY <1>3, <1>7 DEF AddJob, RequestSteps
  <2>2. job' \in Job /\ mishap' \in BOOLEAN
    <3>1. Added(job) \in Job
      BY <1>1, JobEvents
    <3>. QED  BY <1>1, <1>4, <1>7, <3>1 DEF AddJob
  <2>. QED  BY <1>1, <1>7, <2>1, <2>2, TypeParts DEF AddJob
<1>8. ASSUME NEW r \in Requests, RunInline(r)
      PROVE  TypeOK'
  <2>1. request' \in [Requests -> RequestSteps]
    BY <1>3, <1>8 DEF RunInline, RequestSteps
  <2>2. run' \in [Runs -> Run]
    BY <1>8, RunMoves DEF RunInline, RunSteps
  <2>. QED  BY <1>1, <1>8, <2>1, <2>2, TypeParts DEF RunInline
<1>9. ASSUME NEW w \in Runs, Take(w)
      PROVE  TypeOK'
  <2>1. run' \in [Runs -> Run] /\ job' \in Job
    BY <1>1, <1>9, RunMoves, JobEvents DEF Take, RunSteps
  <2>. QED  BY <1>1, <1>9, <2>1, TypeParts DEF Take
<1>10. ASSUME NEW w \in Runs, Read(w)
       PROVE  TypeOK'
  <2>1. [at |-> "mark", text |-> text] \in Run
    BY <1>1 DEF Run, RunSteps
  <2>2. run' \in [Runs -> Run]
    BY <1>10, <2>1, RunMoves DEF Read, RunSteps
  <2>3. job' \in Job /\ mishap' \in BOOLEAN
    BY <1>1, <1>10, Settled DEF Read
  <2>. QED  BY <1>1, <1>10, <2>2, <2>3, TypeParts DEF Read
<1>11. ASSUME NEW w \in Runs, MarkAnalyzing(w)
       PROVE  TypeOK'
  <2>1. run' \in [Runs -> Run]
    BY <1>11, RunMoves DEF MarkAnalyzing, RunSteps
  <2>2. job' \in Job /\ mishap' \in BOOLEAN
    BY <1>1, <1>4, <1>11, Settled DEF MarkAnalyzing
  <2>. QED  BY <1>1, <1>2, <1>11, <2>1, <2>2, TypeParts DEF MarkAnalyzing
<1>12. ASSUME NEW w \in Runs, Evaluate(w)
       PROVE  TypeOK'
  <2>1. run' \in [Runs -> Run]
    BY <1>12, RunMoves DEF Evaluate, RunSteps
  <2>. QED  BY <1>1, <1>12, <2>1, TypeParts DEF Evaluate
<1>13. ASSUME NEW w \in Runs, Persist(w)
       PROVE  TypeOK'
  <2>1. run' \in [Runs -> Run]
    BY <1>13, RunMoves DEF Persist, RunSteps
  <2>2. evaluated' \in Texts \cup {None} /\ status' \in Statuses /\ unranked' \in BOOLEAN
    BY <1>1, <1>2, <1>13 DEF Persist, Run
  <2>. QED  BY <1>1, <1>13, <2>1, <2>2, TypeParts DEF Persist
<1>14. ASSUME NEW w \in Runs, MarkFailed(w)
       PROVE  TypeOK'
  <2>1. run' \in [Runs -> Run]
    BY <1>14, RunMoves DEF MarkFailed
  <2>2. job' \in Job /\ mishap' \in BOOLEAN
    BY <1>1, <1>4, <1>14, Settled DEF MarkFailed
  <2>. QED  BY <1>1, <1>2, <1>14, <2>1, <2>2, TypeParts DEF MarkFailed
<1>15. ASSUME NEW w \in Runs, RankSideEffects(w)
       PROVE  TypeOK'
  <2>1. run' \in [Runs -> Run]
    BY <1>15, RunMoves DEF RankSideEffects
  <2>2. job' \in Job /\ mishap' \in BOOLEAN /\ unranked' \in BOOLEAN
    BY <1>1, <1>15, Settled DEF RankSideEffects
  <2>. QED  BY <1>1, <1>15, <2>1, <2>2, TypeParts DEF RankSideEffects
<1>16. ASSUME NEW w \in Runs, RunDies(w)
       PROVE  TypeOK'
  <2>1. run' \in [Runs -> Run] /\ mishap' \in BOOLEAN
    BY <1>4, <1>16, RunMoves DEF RunDies
  <2>. QED  BY <1>1, <1>16, <2>1, TypeParts DEF RunDies
<1>17. CASE JobStalls \/ BackoffEnds \/ JobForgotten
  <2>1. job' \in Job
    BY <1>1, <1>17, JobEvents DEF JobStalls, BackoffEnds, JobForgotten
  <2>. QED  BY <1>1, <1>17, <2>1, TypeParts DEF JobStalls, BackoffEnds, JobForgotten
<1>18. CASE DeleteAccount
  <2>1. overlap' \in BOOLEAN
    BY <1>18 DEF DeleteAccount
  <2>. QED  BY <1>1, <1>2, <1>18, <2>1, TypeParts DEF DeleteAccount
<1>19. CASE UNCHANGED vars
  BY <1>1, <1>19, TypeParts DEF vars
<1>. QED
  BY <1>5, <1>6, <1>7, <1>8, <1>9, <1>10, <1>11, <1>12, <1>13, <1>14, <1>15, <1>16, <1>17, <1>18,
     <1>19 DEF Next, RunStep, Enqueue

----------------------------------------------------------------------------
(* What a run does to the queue.                                           *)

LEMMA RunEffects ==
  ASSUME TypeOK, NEW w \in Runs, RunStep(w)
  PROVE  /\ run[w].at # "idle"
         /\ \A v \in Runs : v # w => run'[v] = run[v]
         /\ bull /\ run'[w].at = "idle" => job'.state \in {"completed", "delayed", "failed"}
         /\ ~bull \/ run'[w].at # "idle" => job' = job
         /\ ~mishap' => ~mishap
         /\ UNCHANGED <<request, deleted, overlap, bull, text>>
<1>1. mishap \in BOOLEAN /\ bull \in BOOLEAN
  BY DEF TypeOK
<1>2. [at |-> "mark", text |-> text] \in Run
  BY DEF TypeOK, Run, RunSteps
<1> USE DEF profile
<1>3. CASE Read(w)
  <2>1. run[w].at = "read" /\ UNCHANGED <<request, deleted, overlap, bull, text>>
    BY <1>3 DEF Read
  <2>2. CASE \/ run' = [run EXCEPT ![w] = [at |-> "mark", text |-> text]]
             \/ Goto(w, "rank")
    <3>1. run'[w].at # "idle" /\ \A v \in Runs : v # w => run'[v] = run[v]
      BY <1>2, <2>2, RunMoves DEF RunSteps
    <3>2. (job' = job /\ mishap' = mishap) \/ run' = [run EXCEPT ![w] = NoRun]
      BY <1>3 DEF Read
    <3>3. run' # [run EXCEPT ![w] = NoRun]
      BY <3>1, RunMoves
    <3>. QED  BY <1>1, <2>1, <3>1, <3>2, <3>3
  <2>3. CASE run' = [run EXCEPT ![w] = NoRun] /\ ((Return /\ mishap' = mishap) \/ Throw)
    BY <1>1, <2>1, <2>3, RunMoves, Settled
  <2>. QED  BY <1>3, <2>2, <2>3 DEF Read
<1>4. CASE MarkAnalyzing(w)
  <2>1. run[w].at = "mark" /\ UNCHANGED <<request, deleted, overlap, bull, text>>
    BY <1>4 DEF MarkAnalyzing
  <2>2. CASE Goto(w, "evaluate") /\ job' = job /\ mishap' = mishap
    BY <1>1, <2>1, <2>2, RunMoves DEF RunSteps
  <2>3. CASE run' = [run EXCEPT ![w] = NoRun] /\ Return /\ Mishap(TRUE)
    BY <1>1, <2>1, <2>3, RunMoves, Settled DEF Mishap
  <2>. QED  BY <1>4, <2>2, <2>3 DEF MarkAnalyzing
<1>5. CASE Evaluate(w) \/ Persist(w)
  <2>1. /\ run[w].at # "idle" /\ job' = job /\ mishap' = mishap
        /\ UNCHANGED <<request, deleted, overlap, bull, text>>
    BY <1>5 DEF Evaluate, Persist, history
  <2>2. PICK next \in {"persist", "fail", "rank"} : Goto(w, next)
    BY <1>5 DEF Evaluate, Persist
  <2>3. run'[w].at = next /\ \A v \in Runs : v # w => run'[v] = run[v]
    BY <2>2, RunMoves DEF RunSteps
  <2>. QED  BY <1>1, <2>1, <2>3
<1>7. CASE MarkFailed(w)
  <2>1. /\ run[w].at = "fail" /\ UNCHANGED <<request, deleted, overlap, bull, text>>
        /\ run' = [run EXCEPT ![w] = NoRun] /\ Return
    BY <1>7 DEF MarkFailed
  <2>2. ~mishap' => ~mishap
    BY <1>1, <1>7 DEF MarkFailed, Mishap
  <2>. QED  BY <1>1, <2>1, <2>2, RunMoves, Settled
<1>8. CASE RankSideEffects(w)
  <2>1. run[w].at = "rank" /\ UNCHANGED <<request, deleted, overlap, bull, text>>
        /\ run' = [run EXCEPT ![w] = NoRun] /\ ((Return /\ mishap' = mishap) \/ Throw)
    BY <1>8 DEF RankSideEffects
  <2>. QED  BY <1>1, <2>1, RunMoves, Settled
<1>. QED  BY <1>3, <1>4, <1>5, <1>7, <1>8 DEF RunStep

\* A run that dies leaves its job active; a mishap, unless the queue takes it again.
LEMMA DeathEffects ==
  ASSUME TypeOK, NEW w \in Runs, RunDies(w)
  PROVE  /\ run[w].at # "idle" /\ run'[w].at = "idle"
         /\ \A v \in Runs : v # w => run'[v] = run[v]
         /\ job' = job
         /\ ~mishap' => /\ ~mishap /\ bull /\ job.stalls # MaxStalls
                        /\ run[w].at \notin {"evaluate", "persist", "fail"}
         /\ UNCHANGED <<status, text, evaluated, request, deleted, overlap, bull, unranked>>
BY RunMoves DEF TypeOK, RunDies, Mishap, profile

\* A request does nothing to the job but add it, and starts a run only without a queue.
LEMMA RequestEffects ==
  ASSUME TypeOK, OneRun, NEW r \in Requests,
         \/ BeginEdit(r) \/ SaveEdit(r) \/ BeginSubmit(r) \/ Refuse(r) \/ MarkSubmitted(r)
         \/ Enqueue(r) \/ RequestDies(r)
  PROVE  /\ bull' = bull /\ (~mishap' => ~mishap)
         /\ job' = job \/ (bull /\ job.state = "none" /\ job'.state = "waiting")
         /\ run' = run \/ (~bull /\ job' = job /\ \E w \in Runs :
              /\ run[w].at = "idle" /\ run'[w].at = "read"
              /\ \A v \in Runs : v # w => run'[v] = run[v])
<1>1. mishap \in BOOLEAN /\ bull \in BOOLEAN
  BY DEF TypeOK
<1>2. CASE AddJob(r)
  <2>1. bull /\ bull' = bull /\ run' = run /\ (job' = Added(job) \/ job' = job)
    BY <1>2 DEF AddJob
  <2>2. ~mishap' => ~mishap
    BY <1>1, <1>2 DEF AddJob, Mishap
  <2>3. Added(job) = job \/ (job.state = "none" /\ Added(job).state = "waiting")
    BY JobEvents DEF TypeOK
  <2>. QED  BY <2>1, <2>2, <2>3
<1>3. CASE RunInline(r)
  <2>1. ~bull /\ bull' = bull /\ job' = job /\ mishap' = mishap
    BY <1>3 DEF RunInline, history
  <2>2. PICK w \in Runs : run[w].at = "idle" /\ Goto(w, "read")
    BY <1>3 DEF RunInline
  <2>. QED  BY <1>1, <2>1, <2>2, RunMoves DEF RunSteps
<1>4. CASE ~Enqueue(r)
  BY <1>1, <1>4 DEF BeginEdit, SaveEdit, BeginSubmit, Refuse, MarkSubmitted, RequestDies, Mishap, history
<1>. QED  BY <1>2, <1>3, <1>4 DEF Enqueue

LEMMA QueueStep ==
  ASSUME TypeOK, OneRun, StallsLeft, [Next]_vars
  PROVE  OneRun' /\ StallsLeft'
<1>1. bull \in BOOLEAN /\ job \in Job /\ mishap \in BOOLEAN
  BY DEF TypeOK
<1>2. ASSUME NEW w \in Runs, RunStep(w)
      PROVE  OneRun' /\ StallsLeft'
  BY <1>1, <1>2, RunEffects DEF OneRun, StallsLeft, WorkerGone
<1>3. ASSUME NEW w \in Runs, RunDies(w)
      PROVE  OneRun' /\ StallsLeft'
  BY <1>1, <1>3, DeathEffects DEF OneRun, StallsLeft, WorkerGone
<1>4. ASSUME NEW w \in Runs, Take(w)
      PROVE  OneRun' /\ StallsLeft'
  <2>1. job.state = "waiting" /\ run[w].at = "idle" /\ job' = Taken(job) /\ bull' = bull
        /\ Goto(w, "read")
    BY <1>4 DEF Take
  <2>2. job'.state = "active" /\ run'[w].at = "read" /\ \A v \in Runs : v # w => run'[v] = run[v]
    BY <1>1, <2>1, JobEvents, RunMoves DEF RunSteps
  <2>. QED  BY <1>1, <2>1, <2>2 DEF OneRun, StallsLeft, WorkerGone
<1>5. ASSUME NEW r \in Requests,
             \/ BeginEdit(r) \/ SaveEdit(r) \/ BeginSubmit(r) \/ Refuse(r) \/ MarkSubmitted(r)
             \/ Enqueue(r) \/ RequestDies(r)
      PROVE  OneRun' /\ StallsLeft'
  BY <1>1, <1>5, RequestEffects DEF OneRun, StallsLeft, WorkerGone
<1>6. CASE JobStalls \/ BackoffEnds \/ JobForgotten
  <2>1. /\ UNCHANGED <<run, bull, mishap>>
        /\ job.state # "none" \/ job' = job
        /\ job.state # "active" \/ \A w \in Runs : run[w].at = "idle"
        /\ job'.state # "active"
    BY <1>1, <1>6, JobEvents DEF JobStalls, BackoffEnds, JobForgotten, history, Finished
  <2>. QED  BY <1>1, <2>1 DEF OneRun, StallsLeft, WorkerGone
<1>7. CASE UNCHANGED <<run, bull, mishap, job>>
  BY <1>7 DEF OneRun, StallsLeft, WorkerGone
<1>. QED  BY <1>2, <1>3, <1>4, <1>5, <1>6, <1>7 DEF Next, vars, DeleteAccount

----------------------------------------------------------------------------
(* The erased profile.                                                     *)

LEMMA ErasedStep ==
  ASSUME TypeOK, Erased, [Next]_vars
  PROVE  Erased'
<1>1. request \in [Requests -> RequestSteps] /\ run \in [Runs -> Run]
  BY DEF TypeOK, Run, RunSteps, RequestSteps
<1> USE DEF profile, history
<1>2. CASE DeleteAccount
  <2>1. /\ status' = "DRAFT" /\ text' = 0 /\ evaluated' = None /\ request' = request /\ run' = run
        /\ overlap' = ((\E r \in Requests : request[r] # "idle") \/ At(Working))
    BY <1>2 DEF DeleteAccount
  <2>. QED  BY <2>1 DEF Erased, At
<1>3. SUFFICES ASSUME ~DeleteAccount, deleted', ~overlap'
      PROVE  /\ status' = "DRAFT" /\ text' = 0 /\ evaluated' = None
             /\ \A r \in Requests : request'[r] = "idle"
             /\ \A w \in Runs : run'[w].at \notin Working
  BY <1>2 DEF Erased
<1>4. ASSUME NEW r \in Requests,
             \/ BeginEdit(r) \/ SaveEdit(r) \/ BeginSubmit(r) \/ Refuse(r) \/ MarkSubmitted(r)
             \/ Enqueue(r) \/ RequestDies(r)
      PROVE  FALSE
  <2>1. ~deleted \/ request[r] # "idle"
    BY <1>4 DEF BeginEdit, SaveEdit, BeginSubmit, Refuse, MarkSubmitted, Enqueue, AddJob, RunInline,
       RequestDies
  <2>2. deleted' = deleted /\ overlap' = overlap
    BY <1>4 DEF BeginEdit, SaveEdit, BeginSubmit, Refuse, MarkSubmitted, Enqueue, AddJob, RunInline,
       RequestDies
  <2>. QED  BY <1>3, <2>1, <2>2 DEF Erased
<1>5. ASSUME NEW w \in Runs, RunStep(w) \/ RunDies(w) \/ Take(w)
      PROVE  /\ status' = "DRAFT" /\ text' = 0 /\ evaluated' = None
             /\ \A r \in Requests : request'[r] = "idle"
             /\ \A v \in Runs : run'[v].at \notin Working
  <2>1. deleted' = deleted /\ overlap' = overlap /\ request' = request
    BY <1>5, RunEffects, DeathEffects DEF Take
  <2>2. /\ status = "DRAFT" /\ text = 0 /\ evaluated = None
        /\ \A r \in Requests : request[r] = "idle"
        /\ \A v \in Runs : run[v].at \notin Working
    BY <1>3, <2>1 DEF Erased
  <2>3. Read(w) \/ RankSideEffects(w) \/ RunDies(w) \/ Take(w)
    BY <1>5, <2>2 DEF RunStep, MarkAnalyzing, Evaluate, Persist, MarkFailed, Working
  <2>4. UNCHANGED <<status, text, evaluated>>
    BY <2>3 DEF Read, RankSideEffects, RunDies, Take
  <2>5. (\A v \in Runs : v # w => run'[v] = run[v]) /\ run'[w].at \in {"idle", "read"}
    <3>1. CASE Take(w)
      BY <3>1, RunMoves DEF Take, RunSteps
    <3>2. CASE Read(w) \/ RankSideEffects(w) \/ RunDies(w)
      <4>1. run' = [run EXCEPT ![w] = NoRun]
        BY <2>2, <3>2 DEF Read, RankSideEffects, RunDies
      <4>. QED  BY <4>1, RunMoves
    <3>. QED  BY <2>3, <3>1, <3>2
  <2>. QED  BY <2>1, <2>2, <2>4, <2>5 DEF Working
<1>6. CASE JobStalls \/ BackoffEnds \/ JobForgotten \/ UNCHANGED vars
  <2>1. UNCHANGED <<status, text, evaluated, deleted, overlap, request, run>>
    BY <1>6 DEF JobStalls, BackoffEnds, JobForgotten, vars
  <2>. QED  BY <1>3, <2>1 DEF Erased
<1>. QED  BY <1>3, <1>4, <1>5, <1>6 DEF Next

----------------------------------------------------------------------------
(* The profile that waits.                                                 *)

\* What a run leaves a SUBMITTED or an ANALYZING profile with.
LEMMA StuckRun ==
  ASSUME TypeOK, OneRun, NothingStuck, NEW w \in Runs, RunStep(w), ~mishap'
  PROVE  InHand'
<1>1. /\ run[w].at # "idle" /\ \A v \in Runs : v # w => run'[v] = run[v]
      /\ UNCHANGED <<request, bull>> /\ ~mishap
  BY RunEffects
<1>2. bull \in BOOLEAN /\ InHand
  BY <1>1 DEF TypeOK, NothingStuck
<1>3. /\ ~bull => job.state = "none"
      /\ bull => job.state = "active" /\ \A v \in Runs : v # w => run[v].at = "idle"
  BY <1>1, <1>2 DEF OneRun
<1>4. ASSUME status = "SUBMITTED"
      PROVE  run[w].at \in {"read", "mark"} \/ ~Idle \/ \E v \in Runs : v # w /\ run[v].at \in {"read", "mark"}
  BY <1>1, <1>2, <1>3, <1>4 DEF InHand, WorkerGone, At
<1>5. Idle' <=> Idle
  BY <1>1 DEF Idle
<1>6. ASSUME status' = status, status = "SUBMITTED", run[w].at \notin {"read", "mark"}
      PROVE  InHand'
  BY <1>1, <1>4, <1>5, <1>6 DEF InHand, At
<1>7. ASSUME status' = status, status = "ANALYZING", run[w].at \notin {"evaluate", "persist", "fail"}
      PROVE  InHand'
  BY <1>1, <1>2, <1>7 DEF InHand, At
<1>8. ASSUME status' \notin {"SUBMITTED", "ANALYZING"}
      PROVE  InHand'
  BY <1>8 DEF InHand
<1> USE DEF profile, history
<1>9. CASE Read(w)
  <2>1. status' = status /\ run[w].at = "read"
    BY <1>9 DEF Read
  <2>2. CASE status = "SUBMITTED"
    <3>1. CASE run' = [run EXCEPT ![w] = [at |-> "mark", text |-> text]]
      <4>1. run'[w].at = "mark"
        BY <3>1 DEF TypeOK
      <4>. QED  BY <2>1, <2>2, <4>1 DEF InHand, At
    <3>2. CASE run' = [run EXCEPT ![w] = NoRun] /\ Throw
      BY <3>2, Settled, <2>1, <2>2 DEF InHand
    <3>. QED  BY <1>9, <2>2, <3>1, <3>2 DEF Read
  <2>. QED  BY <1>7, <1>8, <2>1, <2>2
<1>10. CASE MarkAnalyzing(w)
  <2>1. status' = "ANALYZING" /\ Goto(w, "evaluate")
    BY <1>10 DEF MarkAnalyzing, Mishap
  <2>2. run'[w].at = "evaluate"
    BY <2>1, RunMoves DEF RunSteps
  <2>. QED  BY <2>1, <2>2 DEF InHand, At
<1>11. CASE Evaluate(w)
  <2>1. run[w].at = "evaluate" /\ status' = status /\ (Goto(w, "persist") \/ Goto(w, "fail"))
    BY <1>11 DEF Evaluate
  <2>2. run'[w].at \in {"persist", "fail"}
    BY <2>1, RunMoves DEF RunSteps
  <2>3. CASE status = "ANALYZING"
    BY <2>1, <2>2, <2>3 DEF InHand, At
  <2>. QED  BY <1>6, <1>8, <2>1, <2>3
<1>12. CASE Persist(w)
  <2>1. run[w].at = "persist" /\ (status' = "ANALYZED" \/ (status' = status /\ Goto(w, "fail")))
    BY <1>12 DEF Persist
  <2>2. CASE Goto(w, "fail") /\ status' = status /\ status = "ANALYZING"
    <3>1. run'[w].at = "fail"
      BY <2>2, RunMoves DEF RunSteps
    <3>. QED  BY <2>2, <3>1 DEF InHand, At
  <2>. QED  BY <1>6, <1>8, <2>1, <2>2
<1>13. CASE MarkFailed(w)
  BY <1>8, <1>13 DEF MarkFailed, Mishap
<1>14. CASE RankSideEffects(w)
  <2>1. run[w].at = "rank" /\ status' = status
    BY <1>14 DEF RankSideEffects
  <2>. QED  BY <1>6, <1>7, <1>8, <2>1
<1>. QED  BY <1>9, <1>10, <1>11, <1>12, <1>13, <1>14 DEF RunStep

LEMMA StuckStep ==
  ASSUME TypeOK, OneRun, StallsLeft, NothingStuck, [Next]_vars
  PROVE  NothingStuck'
<1>1. SUFFICES ASSUME ~mishap' PROVE InHand'
  BY DEF NothingStuck
<1>2. bull \in BOOLEAN /\ mishap \in BOOLEAN /\ job \in Job /\ request \in [Requests -> RequestSteps]
  BY DEF TypeOK, RequestSteps
<1> USE DEF profile, history
<1>3. ASSUME NEW w \in Runs, RunStep(w) PROVE InHand'
  BY <1>1, <1>3, StuckRun
<1>4. ASSUME NEW w \in Runs, RunDies(w) PROVE InHand'
  <2>1. /\ run[w].at \notin {"idle", "evaluate", "persist", "fail"} /\ run'[w].at = "idle"
        /\ \A v \in Runs : v # w => run'[v] = run[v]
        /\ job' = job /\ bull /\ ~mishap /\ status' = status /\ request' = request
    BY <1>1, <1>4, DeathEffects
  <2>2. job.state = "active" /\ \A v \in Runs : v # w => run[v].at = "idle"
    BY <2>1 DEF OneRun
  <2>3. WorkerGone'
    BY <2>1, <2>2 DEF WorkerGone
  <2>. QED  BY <2>1, <2>3 DEF NothingStuck, InHand, At
<1>5. ASSUME NEW w \in Runs, Take(w) PROVE InHand'
  <2>1. /\ run[w].at = "idle" /\ Goto(w, "read") /\ status' = status /\ mishap' = mishap
    BY <1>5 DEF Take
  <2>2. run'[w].at = "read" /\ \A v \in Runs : v # w => run'[v] = run[v]
    BY <2>1, RunMoves DEF RunSteps
  <2>. QED  BY <1>1, <2>1, <2>2 DEF NothingStuck, InHand, At
<1>6. ASSUME NEW r \in Requests, MarkSubmitted(r) PROVE InHand'
  <2>1. status' = "SUBMITTED" /\ request'[r] = "enqueue"
    BY <1>2, <1>6 DEF MarkSubmitted, Step
  <2>. QED  BY <2>1 DEF InHand, Idle
<1>7. ASSUME NEW r \in Requests,
             BeginEdit(r) \/ SaveEdit(r) \/ BeginSubmit(r) \/ Refuse(r) \/ RequestDies(r)
      PROVE  InHand'
  <2>1. /\ UNCHANGED <<status, job, run>> /\ ~mishap
        /\ \E next \in RequestSteps : Step(r, next)
        /\ request[r] # "enqueue"
    BY <1>1, <1>2, <1>7 DEF BeginEdit, SaveEdit, BeginSubmit, Refuse, RequestDies, Mishap, RequestSteps
  <2>2. \A q \in Requests : q # r => request'[q] = request[q]
    BY <1>2, <2>1 DEF Step
  <2>3. ~Idle => ~Idle'
    BY <2>1, <2>2 DEF Idle
  <2>4. InHand
    BY <2>1 DEF NothingStuck
  <2>. QED  BY <2>1, <2>3, <2>4 DEF InHand, WorkerGone, At
<1>8. ASSUME NEW r \in Requests, AddJob(r) PROVE InHand'
  <2>1. /\ job' = Added(job) /\ job.state \notin Finished /\ ~At(AfterRead)
        /\ UNCHANGED <<status, run>> /\ ~mishap
    BY <1>1, <1>2, <1>8 DEF AddJob, Mishap
  <2>2. status # "ANALYZING"
    BY <2>1 DEF NothingStuck, InHand, At, AfterRead, Working
  <2>3. job'.state \in {"waiting", "delayed", "active"}
    <3>1. job.state \in {"none", "waiting", "delayed", "active"}
      BY <1>2, <2>1 DEF Job, Live, Finished
    <3>. QED  BY <1>2, <2>1, <3>1, JobEvents
  <2>4. At({"read", "mark"})' \/ \A w \in Runs : run'[w].at = "idle"
    BY <2>1 DEF TypeOK, At, AfterRead, Working
  <2>. QED  BY <2>1, <2>2, <2>3, <2>4 DEF InHand, WorkerGone
<1>9. ASSUME NEW r \in Requests, RunInline(r) PROVE InHand'
  <2>1. PICK w \in Runs : run[w].at = "idle" /\ Goto(w, "read")
    BY <1>9 DEF RunInline
  <2>2. run'[w].at = "read" /\ \A v \in Runs : v # w => run'[v] = run[v]
    BY <2>1, RunMoves DEF RunSteps
  <2>3. status' = status /\ mishap' = mishap
    BY <1>9 DEF RunInline
  <2>. QED  BY <1>1, <2>1, <2>2, <2>3 DEF NothingStuck, InHand, At
<1>10. CASE JobStalls
  <2>1. UNCHANGED <<status, run, mishap>> /\ WorkerGone /\ job' = Stalled(job)
    BY <1>10 DEF JobStalls, WorkerGone
  <2>2. job'.state = "waiting"
    BY <1>1, <1>2, <2>1, JobEvents DEF StallsLeft
  <2>. QED  BY <1>1, <2>1, <2>2 DEF NothingStuck, InHand, At
<1>11. CASE BackoffEnds
  <2>1. UNCHANGED <<status, run, mishap>> /\ job'.state = "waiting"
    BY <1>2, <1>11, JobEvents DEF BackoffEnds
  <2>. QED  BY <1>1, <2>1 DEF NothingStuck, InHand, At
<1>12. CASE JobForgotten
  <2>1. UNCHANGED <<status, run, mishap, request>> /\ job.state \in {"completed", "failed"}
    BY <1>12 DEF JobForgotten, Finished
  <2>. QED  BY <1>1, <2>1 DEF NothingStuck, InHand, At, WorkerGone, Idle
<1>13. CASE DeleteAccount
  BY <1>13 DEF DeleteAccount, InHand
<1>14. CASE UNCHANGED vars
  <2>1. InHand
    BY <1>1, <1>14 DEF vars, NothingStuck
  <2>. QED  BY <1>14, <2>1 DEF vars, InHand, WorkerGone, At, Idle
<1>. QED
  BY <1>3, <1>4, <1>5, <1>6, <1>7, <1>8, <1>9, <1>10, <1>11, <1>12, <1>13, <1>14 DEF Next, Enqueue

----------------------------------------------------------------------------
(* The ranked list.                                                        *)

Pending == job.state \in {"waiting", "active", "delayed"}

LEMMA RankStep ==
  ASSUME TypeOK, OneRun, StallsLeft, RankFollows, [Next]_vars
  PROVE  RankFollows'
<1>1. SUFFICES ASSUME ~mishap', ~deleted', status' = "ANALYZED", unranked'
      PROVE  At({"rank"})' \/ Pending'
  BY DEF RankFollows, Pending
<1>2. bull \in BOOLEAN /\ mishap \in BOOLEAN /\ job \in Job
  BY DEF TypeOK
<1> USE DEF profile, history
<1>3. ASSUME ~mishap, ~deleted, status = "ANALYZED", unranked
      PROVE  At({"rank"}) \/ Pending
  BY <1>3 DEF RankFollows, Pending
<1>4. ASSUME NEW w \in Runs, RunStep(w) PROVE At({"rank"})' \/ Pending'
  <2>1. /\ run[w].at # "idle" /\ \A v \in Runs : v # w => run'[v] = run[v]
        /\ ~mishap /\ ~deleted /\ bull' = bull
        /\ ~bull \/ run'[w].at # "idle" => job' = job
    BY <1>1, <1>4, RunEffects
  <2>2. bull => job.state = "active"
    BY <2>1 DEF OneRun
  <2>3. ASSUME run'[w].at # "idle", bull
        PROVE  Pending'
    BY <2>1, <2>2, <2>3 DEF Pending
  <2>4. ASSUME status = "ANALYZED", unranked, ~bull, run[w].at # "rank"
        PROVE  At({"rank"})'
    <3>1. ~Pending
      BY <2>4 DEF OneRun, Pending
    <3>. QED  BY <1>3, <2>1, <2>4, <3>1 DEF At
  <2>5. ASSUME Throw
        PROVE  Pending'
    BY <1>1, <2>5, Settled DEF Pending
  <2>6. CASE Read(w)
    <3>1. status = "ANALYZED"
      BY <1>1, <2>6 DEF Read
    <3>2. CASE Goto(w, "rank")
      BY <3>2, RunMoves DEF RunSteps, At
    <3>. QED  BY <2>5, <2>6, <3>1, <3>2 DEF Read
  <2>7. CASE MarkAnalyzing(w)
    BY <1>1, <2>7 DEF MarkAnalyzing, Mishap
  <2>8. CASE Evaluate(w)
    <3>1. status = "ANALYZED" /\ unranked /\ run[w].at # "rank"
          /\ (Goto(w, "persist") \/ Goto(w, "fail"))
      BY <1>1, <2>8 DEF Evaluate
    <3>2. run'[w].at # "idle"
      BY <3>1, RunMoves DEF RunSteps
    <3>. QED  BY <1>2, <2>3, <2>4, <3>1, <3>2
  <2>9. CASE Persist(w)
    <3>1. CASE Goto(w, "rank")
      BY <3>1, RunMoves DEF RunSteps, At
    <3>2. CASE Goto(w, "fail") /\ UNCHANGED <<status, evaluated, unranked>>
      <4>1. run'[w].at # "idle"
        BY <3>2, RunMoves DEF RunSteps
      <4>2. run[w].at # "rank"
        BY <2>9 DEF Persist
      <4>. QED  BY <1>1, <1>2, <2>3, <2>4, <3>2, <4>1, <4>2
    <3>. QED  BY <2>9, <3>1, <3>2 DEF Persist
  <2>10. CASE MarkFailed(w)
    BY <1>1, <2>10 DEF MarkFailed, Mishap
  <2>11. CASE RankSideEffects(w)
    BY <1>1, <2>5, <2>11 DEF RankSideEffects
  <2>. QED  BY <1>4, <2>6, <2>7, <2>8, <2>9, <2>10, <2>11 DEF RunStep
<1>5. ASSUME NEW w \in Runs, RunDies(w) PROVE At({"rank"})' \/ Pending'
  <2>1. run[w].at # "idle" /\ job' = job /\ bull
    BY <1>1, <1>5, DeathEffects
  <2>. QED  BY <2>1 DEF OneRun, Pending
<1>6. ASSUME NEW w \in Runs, Take(w) PROVE At({"rank"})' \/ Pending'
  BY <1>2, <1>6, JobEvents DEF Take, Pending
<1>7. ASSUME NEW r \in Requests,
             \/ BeginEdit(r) \/ SaveEdit(r) \/ BeginSubmit(r) \/ Refuse(r) \/ MarkSubmitted(r)
             \/ Enqueue(r) \/ RequestDies(r)
      PROVE  At({"rank"})' \/ Pending'
  <2>1. /\ job' = job \/ job'.state = "waiting"
        /\ run' = run \/ (\E w \in Runs :
             run[w].at = "idle" /\ \A v \in Runs : v # w => run'[v] = run[v])
        /\ ~mishap
    BY <1>1, <1>7, RequestEffects
  <2>2. status = "ANALYZED" /\ UNCHANGED <<deleted, unranked>>
    BY <1>1, <1>7 DEF BeginEdit, SaveEdit, BeginSubmit, Refuse, MarkSubmitted, Enqueue, AddJob,
       RunInline, RequestDies
  <2>3. At({"rank"}) \/ Pending
    BY <1>1, <1>3, <2>1, <2>2
  <2>4. At({"rank"}) => At({"rank"})'
    BY <2>1 DEF At
  <2>. QED  BY <2>1, <2>3, <2>4 DEF Pending
<1>8. CASE JobStalls \/ BackoffEnds
  <2>1. job'.state = "waiting"
    <3>1. CASE JobStalls
      <4>1. WorkerGone /\ ~mishap
        BY <1>1, <3>1 DEF JobStalls, WorkerGone
      <4>2. job.stalls # MaxStalls
        BY <4>1 DEF StallsLeft
      <4>. QED  BY <1>2, <3>1, <4>2, JobEvents DEF JobStalls
    <3>2. CASE BackoffEnds
      BY <1>2, <3>2, JobEvents DEF BackoffEnds
    <3>. QED  BY <1>8, <3>1, <3>2
  <2>. QED  BY <2>1 DEF Pending
<1>9. CASE JobForgotten
  <2>1. UNCHANGED <<status, deleted, unranked, run, mishap>> /\ ~Pending
    BY <1>9 DEF JobForgotten, Finished, Pending
  <2>. QED  BY <1>1, <1>3, <2>1 DEF At
<1>10. CASE DeleteAccount
  BY <1>1, <1>10 DEF DeleteAccount
<1>11. CASE UNCHANGED vars
  BY <1>1, <1>3, <1>11 DEF vars, At, Pending
<1>. QED  BY <1>4, <1>5, <1>6, <1>7, <1>8, <1>9, <1>10, <1>11 DEF Next

----------------------------------------------------------------------------
(* The text of the evaluation.                                             *)

\* What Current says while nothing has gone wrong.
LEMMA CurrentParts ==
  ASSUME TypeOK
  PROVE  /\ text \in Int /\ submitted \in Int /\ evaluated \in Int
         /\ \A w \in Runs : run[w].text \in Int /\ run[w].at \in RunSteps
BY MaxTextAssumption DEF TypeOK, Texts, None, RunSteps

\* Two runs do not work on a text at once.
LEMMA OneWorker ==
  ASSUME OneRun, OneSubmission, ~mishap, ~deleted,
         NEW v \in Runs, NEW w \in Runs, run[v].at \in Working, run[w].at \in Working
  PROVE  v = w
BY DEF OneRun, OneSubmission, Working

\* A run that moves, without a mishap, takes its submission with it.
LEMMA CurrentRun ==
  ASSUME TypeOK, OneRun, Current, ~mishap, ~deleted, ~mishap', NEW w \in Runs, RunStep(w)
  PROVE  Current'
<1>1. /\ run[w].at # "idle" /\ \A v \in Runs : v # w => run'[v] = run[v]
      /\ UNCHANGED <<request, deleted, bull, text>>
  BY RunEffects
<1>2. submitted' = submitted
  BY DEF RunStep, Read, MarkAnalyzing, Evaluate, Persist, MarkFailed, RankSideEffects, history
<1>3. OneSubmission /\ TextInHand /\ EvaluationIsCurrent
  BY DEF Current
<1>4. Throw => bull
  BY Settled
<1>5. ASSUME UNCHANGED <<status, evaluated>>,
             run'[w].at \in Working => run[w].at \in Working /\ run'[w].text = run[w].text,
             run'[w].at = run[w].at \/ run'[w].at \notin {"read", "mark"},
             run'[w].at \in {"evaluate", "persist"} => run[w].at \in {"evaluate", "persist"},
             run'[w].at = "fail" => run[w].at \in {"evaluate", "persist", "fail"}
      PROVE  Current'
  <2>1. TextInHand'
    BY <1>1, <1>2, <1>3, <1>5 DEF TextInHand, Working
  <2>2. OneSubmission'
    BY <1>1, <1>3, <1>5 DEF OneSubmission, At, Working
  <2>. QED  BY <1>2, <1>3, <1>5, <2>1, <2>2 DEF Current, EvaluationIsCurrent
<1>6. ASSUME run[w].at \in Working, run'[w].at \notin {"read"} \cup (Working \ {"evaluate"}),
             status' # "SUBMITTED",
             run'[w].at = "evaluate" => status' = "ANALYZING" /\ run[w].at = "mark" /\ run'[w].text = run[w].text
      PROVE  OneSubmission' /\ TextInHand'
  <2>1. ASSUME NEW v \in Runs, v # w
        PROVE  run'[v].at \notin Working /\ (~bull => run'[v].at # "read")
    BY <1>1, <1>3, <1>6, <2>1, OneWorker DEF OneSubmission, Working
  <2>2. TextInHand'
    BY <1>1, <1>2, <1>3, <1>6, <2>1 DEF TextInHand, Working
  <2>3. ~bull => \A r \in Requests : request[r] # "enqueue"
    BY <1>3, <1>6 DEF OneSubmission, At, Working
  <2>. QED  BY <1>1, <1>6, <2>1, <2>2, <2>3 DEF OneSubmission, At, Working
<1>7. CASE Read(w)
  <2>1. run[w].at = "read" /\ UNCHANGED <<status, evaluated>>
    BY <1>7 DEF Read, profile
  <2>2. CASE status = "SUBMITTED" /\ run' = [run EXCEPT ![w] = [at |-> "mark", text |-> text]]
    <3>1. run'[w].at = "mark" /\ run'[w].text = text
      BY <2>2 DEF TypeOK
    <3>2. TextInHand'
      BY <1>1, <1>2, <1>3, <2>1, <2>2, <3>1, CurrentParts DEF TextInHand
    <3>3. OneSubmission'
      BY <1>1, <1>3, <2>1, <2>2, <3>1 DEF OneSubmission, At, Working
    <3>. QED  BY <1>2, <1>3, <2>1, <2>2, <3>2, <3>3 DEF Current, EvaluationIsCurrent
  <2>3. CASE Goto(w, "rank") \/ run' = [run EXCEPT ![w] = NoRun]
    <3>1. run'[w].at \in {"rank", "idle"}
      BY <2>3, RunMoves DEF RunSteps
    <3>. QED  BY <1>5, <2>1, <3>1 DEF Working
  <2>. QED  BY <1>7, <2>2, <2>3 DEF Read
<1>8. CASE MarkAnalyzing(w)
  <2>1. /\ run[w].at = "mark" /\ status' = "ANALYZING" /\ Goto(w, "evaluate")
        /\ evaluated' = evaluated
    BY <1>8 DEF MarkAnalyzing, Mishap
  <2>2. run'[w].at = "evaluate" /\ run'[w].text = run[w].text
    BY <2>1, RunMoves DEF RunSteps
  <2>3. OneSubmission' /\ TextInHand'
    BY <1>6, <2>1, <2>2 DEF Working
  <2>. QED  BY <2>1, <2>3 DEF Current, EvaluationIsCurrent
<1>9. CASE Evaluate(w)
  <2>1. run[w].at = "evaluate" /\ UNCHANGED <<status, evaluated>>
        /\ (Goto(w, "persist") \/ Goto(w, "fail"))
    BY <1>9 DEF Evaluate, profile
  <2>2. run'[w].at \in {"persist", "fail"} /\ run'[w].text = run[w].text
    BY <2>1, RunMoves DEF RunSteps
  <2>. QED  BY <1>5, <2>1, <2>2 DEF Working
<1>10. CASE Persist(w)
  <2>1. CASE status' = "ANALYZED" /\ evaluated' = run[w].text /\ Goto(w, "rank")
    <3>1. run[w].at = "persist" /\ run'[w].at = "rank"
      BY <1>10, <2>1, RunMoves DEF Persist, RunSteps
    <3>2. OneSubmission' /\ TextInHand'
      BY <1>6, <2>1, <3>1 DEF Working
    <3>3. run[w].text >= submitted
      BY <1>3, <3>1 DEF TextInHand
    <3>. QED  BY <1>2, <2>1, <3>2, <3>3 DEF Current, EvaluationIsCurrent
  <2>2. CASE UNCHANGED <<status, evaluated>> /\ Goto(w, "fail")
    <3>1. run[w].at = "persist" /\ run'[w].at = "fail" /\ run'[w].text = run[w].text
      BY <1>10, <2>2, RunMoves DEF Persist, RunSteps
    <3>. QED  BY <1>5, <2>2, <3>1 DEF Working
  <2>. QED  BY <1>10, <2>1, <2>2 DEF Persist
<1>11. CASE MarkFailed(w)
  <2>1. run[w].at = "fail" /\ status' = "FAILED" /\ run' = [run EXCEPT ![w] = NoRun]
    BY <1>11 DEF MarkFailed, Mishap
  <2>2. run'[w].at = "idle"
    BY <2>1, RunMoves
  <2>3. OneSubmission' /\ TextInHand'
    BY <1>6, <2>1, <2>2 DEF Working
  <2>. QED  BY <2>1, <2>3 DEF Current, EvaluationIsCurrent
<1>12. CASE RankSideEffects(w)
  <2>1. UNCHANGED <<status, evaluated>> /\ run' = [run EXCEPT ![w] = NoRun]
    BY <1>12 DEF RankSideEffects, profile
  <2>2. run'[w].at = "idle"
    BY <2>1, RunMoves
  <2>. QED  BY <1>5, <2>1, <2>2 DEF Working
<1>. QED  BY <1>7, <1>8, <1>9, <1>10, <1>11, <1>12 DEF RunStep

\* Every step keeps Current: a submission is made of the text there is, of a profile that
\* nobody works on.
LEMMA CurrentStep ==
  ASSUME TypeOK, OneRun, Current, [Next]_vars
  PROVE  Current'
<1>1. mishap \in BOOLEAN /\ bull \in BOOLEAN /\ deleted \in BOOLEAN
  BY DEF TypeOK
<1>2. SUFFICES ASSUME ~mishap', ~deleted'
      PROVE  Current'
  BY DEF Current, OneSubmission, TextInHand, EvaluationIsCurrent
<1> USE DEF profile, history
<1>3. OneSubmission /\ TextInHand /\ EvaluationIsCurrent
  BY DEF Current
<1>4. ASSUME NEW w \in Runs, RunStep(w)
      PROVE  Current'
  BY <1>2, <1>4, CurrentRun, RunEffects
<1>5. ASSUME NEW w \in Runs, RunDies(w)
      PROVE  Current'
  <2>1. /\ run'[w].at = "idle" /\ \A v \in Runs : v # w => run'[v] = run[v]
        /\ ~mishap /\ ~deleted /\ bull'
        /\ UNCHANGED <<status, text, evaluated>>
    BY <1>2, <1>5, DeathEffects
  <2>2. submitted' = submitted
    BY <1>5 DEF RunDies
  <2>. QED  BY <1>3, <2>1, <2>2 DEF Current, OneSubmission, TextInHand, EvaluationIsCurrent
<1>6. ASSUME NEW w \in Runs, Take(w)
      PROVE  Current'
  <2>1. /\ run'[w].at = "read" /\ \A v \in Runs : v # w => run'[v] = run[v]
        /\ ~mishap /\ ~deleted /\ bull' = bull /\ UNCHANGED <<status, text, evaluated, submitted>>
    BY <1>2, <1>6, RunMoves DEF Take, RunSteps
  <2>2. bull
    BY <1>1, <1>6 DEF Take, OneRun
  <2>. QED  BY <1>3, <2>1, <2>2 DEF Current, OneSubmission, TextInHand, EvaluationIsCurrent
<1>7. ASSUME NEW r \in Requests,
             BeginEdit(r) \/ SaveEdit(r) \/ BeginSubmit(r) \/ Refuse(r) \/ RequestDies(r) \/ AddJob(r)
      PROVE  Current'
  <2>1. /\ ~mishap /\ ~deleted /\ bull' = bull
        /\ UNCHANGED <<status, evaluated, submitted, run>>
    BY <1>1, <1>2, <1>7 DEF BeginEdit, SaveEdit, BeginSubmit, Refuse, RequestDies, AddJob, Mishap
  <2>2. text' = text \/ text' = text + 1
    BY <1>7 DEF BeginEdit, SaveEdit, BeginSubmit, Refuse, RequestDies, AddJob
  <2>3. \A q \in Requests : request'[q] = "enqueue" => request[q] = "enqueue"
    BY <1>7 DEF TypeOK, BeginEdit, SaveEdit, BeginSubmit, Refuse, RequestDies, AddJob, Step
  <2>4. TextInHand'
    BY <1>3, <2>1, <2>2, CurrentParts DEF TextInHand
  <2>5. OneSubmission'
    BY <1>3, <2>1, <2>3 DEF OneSubmission, At
  <2>. QED  BY <1>3, <2>1, <2>4, <2>5 DEF Current, EvaluationIsCurrent
<1>8. ASSUME NEW r \in Requests, MarkSubmitted(r)
      PROVE  Current'
  <2>1. /\ ~mishap /\ ~deleted /\ UNCHANGED <<bull, run, text>> /\ submitted' = text
        /\ status \in SUBMITTABLE_STATUSES /\ status' = "SUBMITTED" /\ Step(r, "enqueue")
    BY <1>1, <1>2, <1>8 DEF MarkSubmitted, Mishap
  <2>2. ~At(Working)
    BY <1>3, <2>1 DEF TextInHand, At, Working, SUBMITTABLE_STATUSES
  <2>3. ~bull => ~At({"read"}) /\ \A q \in Requests : request[q] # "enqueue"
    BY <1>3, <2>1 DEF OneSubmission, At, SUBMITTABLE_STATUSES
  <2>4. \A q \in Requests : q # r => request'[q] = request[q]
    BY <2>1 DEF TypeOK, Step
  <2>5. TextInHand'
    BY <2>1, <2>2, CurrentParts DEF TextInHand, At, Working
  <2>6. OneSubmission'
    BY <2>1, <2>2, <2>3, <2>4 DEF OneSubmission, At
  <2>. QED  BY <2>1, <2>5, <2>6 DEF Current, EvaluationIsCurrent
<1>9. ASSUME NEW r \in Requests, RunInline(r)
      PROVE  Current'
  <2>1. /\ ~mishap /\ ~deleted /\ ~bull /\ UNCHANGED <<bull, status, text, evaluated, submitted>>
        /\ request[r] = "enqueue" /\ Step(r, "idle")
    BY <1>2, <1>9 DEF RunInline
  <2>2. PICK w \in Runs : run[w].at = "idle" /\ Goto(w, "read")
    BY <1>9 DEF RunInline
  <2>3. run'[w].at = "read" /\ \A v \in Runs : v # w => run'[v] = run[v]
    BY <2>2, RunMoves DEF RunSteps
  <2>4. \A q \in Requests : request'[q] # "enqueue"
    BY <1>3, <2>1 DEF TypeOK, Step, OneSubmission
  <2>5. status = "SUBMITTED" /\ ~At({"read"} \cup Working)
    BY <1>3, <2>1 DEF OneSubmission
  <2>6. TextInHand'
    BY <1>3, <2>1, <2>3 DEF TextInHand
  <2>7. OneSubmission'
    BY <2>1, <2>3, <2>4, <2>5 DEF OneSubmission, At
  <2>. QED  BY <1>3, <2>1, <2>6, <2>7 DEF Current, EvaluationIsCurrent
<1>10. CASE JobStalls \/ BackoffEnds \/ JobForgotten \/ UNCHANGED vars
  <2>1. UNCHANGED <<status, text, evaluated, deleted, request, run, bull, submitted, mishap>>
    BY <1>10 DEF JobStalls, BackoffEnds, JobForgotten, vars
  <2>. QED  BY <1>3, <2>1 DEF Current, OneSubmission, TextInHand, EvaluationIsCurrent, At
<1>11. ~DeleteAccount
  BY <1>2 DEF DeleteAccount
<1>. QED  BY <1>4, <1>5, <1>6, <1>7, <1>8, <1>9, <1>10, <1>11 DEF Next, Enqueue

----------------------------------------------------------------------------
(* The theorems.                                                           *)

LEMMA InitInv ==
  ASSUME Init
  PROVE  Inv
<1>1. NoJob \in Job /\ NoJob.state = "none"
  BY DEF NoJob, Job, Live, Finished, Attempts, MaxStalls
<1>2. 0 \in Texts /\ 1 \in Texts
  BY MaxTextAssumption DEF Texts
<1>3. NoRun \in Run /\ NoRun.at = "idle"
  BY <1>2 DEF NoRun, Run, RunSteps
<1>4. request \in [Requests -> RequestSteps] /\ run \in [Runs -> Run]
      /\ \A w \in Runs : run[w].at = "idle"
  BY <1>3 DEF Init, RequestSteps
<1>5. TypeOK
  <2>1. request \in [Requests -> {"idle", "edit", "submit", "enqueue"}]
    BY <1>4 DEF RequestSteps
  <2>2. run \in [Runs -> [at : {"idle", "read", "mark", "evaluate", "persist", "fail", "rank"}, text : Texts]]
    BY <1>4 DEF Run, RunSteps
  <2>. QED  BY <1>1, <1>2, <2>1, <2>2 DEF Init, TypeOK, Statuses
<1>6. OneRun /\ StallsLeft
  BY <1>1, <1>4 DEF Init, OneRun, StallsLeft, WorkerGone
<1>7. Erased /\ NothingStuck /\ RankFollows
  BY DEF Init, Erased, NothingStuck, InHand, RankFollows
<1>8. Current
  <2>1. status = "DRAFT" /\ text = 1 /\ submitted = 0 /\ \A r \in Requests : request[r] = "idle"
    BY DEF Init
  <2>2. OneSubmission
    BY <1>4, <2>1 DEF OneSubmission, Working
  <2>3. TextInHand /\ EvaluationIsCurrent
    BY <1>4, <2>1 DEF TextInHand, EvaluationIsCurrent
  <2>. QED  BY <2>2, <2>3 DEF Current
<1>. QED  BY <1>5, <1>6, <1>7, <1>8 DEF Inv

LEMMA InvStep ==
  ASSUME Inv, [Next]_vars
  PROVE  Inv'
BY TypeStep, QueueStep, ErasedStep, StuckStep, RankStep, CurrentStep DEF Inv

LEMMA Invariance == Spec => []Inv
BY InitInv, InvStep, PTL DEF Spec

\* Every value keeps its type.
THEOREM TypeCorrect == Spec => []TypeOK
<1>1. Inv => TypeOK
  BY DEF Inv
<1>. QED  BY <1>1, Invariance, PTL

\* A SUBMITTED or ANALYZING profile is always in the hands of a request, of the job or
\* of a run, however the requests, runs, retries and deaths interleave.
THEOREM NeverStuck == Spec => []NothingStuck
<1>1. Inv => NothingStuck
  BY DEF Inv
<1>. QED  BY <1>1, Invariance, PTL

\* An evaluation the ranked list does not follow yet has a run or a job that will ask.
THEOREM RanksFollow == Spec => []RankFollows
<1>1. Inv => RankFollows
  BY DEF Inv
<1>. QED  BY <1>1, Invariance, PTL

\* An ANALYZED profile shows an evaluation of the text submitted last or of a later one, with
\* the queue and without it, however often it is edited and submitted again.
THEOREM CurrentEvaluation == Spec => []EvaluationIsCurrent
<1>1. Inv => EvaluationIsCurrent
  BY DEF Inv, Current
<1>. QED  BY <1>1, Invariance, PTL

\* Nothing of a deleted account comes back through a queued job or a run that had not
\* yet read the profile.
THEOREM StaysErased == Spec => []ErasedStaysErased
<1>1. Inv => ErasedStaysErased
  BY DEF Inv, Erased, ErasedStaysErased
<1>. QED  BY <1>1, Invariance, PTL
=============================================================================
