--------------------------- MODULE ProfileAnalysis ---------------------------
(***************************************************************************)
(* The life of one user's profile from a saved text to its evaluation: the *)
(* requests that edit and submit it, the Bull job under the id             *)
(* analysis:{userId} (or, without Redis, the runs started inline), the     *)
(* worker's run, and the deletion of the account.                          *)
(*                                                                         *)
(* A request and a run are processes; each action is one await of theirs   *)
(* and the code up to the next one.  A text is its version number.         *)
(***************************************************************************)
EXTENDS StableJob, Integers

CONSTANTS
  Requests,   \* HTTP requests that may be in flight at once
  Runs,       \* runs of the worker that may exist at once
  MaxText     \* bound: the number of saved versions of the text

ASSUME MaxTextAssumption == MaxText \in Nat \ {0}

VARIABLES
  status,     \* UserProfile.status
  text,       \* version of the profile's text, 0 when it has been scrubbed
  evaluated,  \* version the latest UserProfileEvaluation describes, None when there is none
  deleted,    \* the account has been deleted
  request,    \* what each request does next
  job,        \* the Bull job analysis:{userId}
  run,        \* each run's next step and the text it has read
  bull,       \* whether the queue came up at boot
  unranked,   \* the ranked list has not been asked to follow the evaluation
  submitted,  \* history: the text at the latest submission
  overlap,    \* history: a request or a run was under way at the deletion
  mishap      \* history: what has gone wrong, see Mishap

vars == <<status, text, evaluated, deleted, request, job, run, bull, unranked,
          submitted, overlap, mishap>>

None == -1
Texts == 0 .. MaxText
Statuses == {"DRAFT", "SUBMITTED", "ANALYZING", "ANALYZED", "FAILED"}
SUBMITTABLE_STATUSES == {"DRAFT", "ANALYZED", "FAILED"}
NoRun == [at |-> "idle", text |-> 0]

profile == <<status, text, evaluated>>
history == <<submitted, overlap, mishap>>

TypeOK ==
  /\ status \in Statuses
  /\ text \in Texts
  /\ evaluated \in Texts \cup {None}
  /\ deleted \in BOOLEAN
  /\ request \in [Requests -> {"idle", "edit", "submit", "enqueue"}]
  /\ job \in Job
  /\ run \in [Runs -> [at : {"idle", "read", "mark", "evaluate", "persist", "fail", "rank"}, text : Texts]]
  /\ bull \in BOOLEAN
  /\ unranked \in BOOLEAN
  /\ submitted \in Texts
  /\ overlap \in BOOLEAN
  /\ mishap \in BOOLEAN

Init ==
  /\ status = "DRAFT"
  /\ text = 1
  /\ evaluated = None
  /\ deleted = FALSE
  /\ request = [r \in Requests |-> "idle"]
  /\ job = NoJob
  /\ run = [w \in Runs |-> NoRun]
  /\ bull \in BOOLEAN
  /\ unranked = FALSE
  /\ submitted = 0
  /\ overlap = FALSE
  /\ mishap = FALSE

Working == {"mark", "evaluate", "persist", "fail"}
AfterRead == Working \cup {"rank"}
At(steps) == \E w \in Runs : run[w].at \in steps

\* Mishaps are: a submission that writes SUBMITTED after another one has left the
\* states it checked for; a job added under the id of a finished job, or of a job whose
\* run has already read the profile; a job that cannot be added, or has thrown for the
\* last time; a status that cannot be written; a death that no retry makes up for.
Mishap(happens) == mishap' = (mishap \/ happens)
Step(r, next) == request' = [request EXCEPT ![r] = next]
Goto(w, next) == run' = [run EXCEPT ![w].at = next]

----------------------------------------------------------------------------
(* Requests.                                                               *)

\* patchForUser: the account is checked and the text moderated ...
BeginEdit(r) ==
  /\ request[r] = "idle"
  /\ ~deleted
  /\ Step(r, "edit")
  /\ UNCHANGED <<profile, deleted, job, run, bull, unranked, history>>

\* ... and then saved, whatever the status is by now, or refused.
SaveEdit(r) ==
  /\ request[r] = "edit"
  /\ Step(r, "idle")
  /\ \/ UNCHANGED text
     \/ text < MaxText /\ text' = text + 1
  /\ UNCHANGED <<status, evaluated, deleted, job, run, bull, unranked, history>>

\* submitForUser: status, gender and photo gates.
BeginSubmit(r) ==
  /\ request[r] = "idle"
  /\ ~deleted
  /\ status \in SUBMITTABLE_STATUSES
  /\ Step(r, "submit")
  /\ UNCHANGED <<profile, deleted, job, run, bull, unranked, history>>

\* A gate refuses, or the update fails: nothing has changed.
Refuse(r) ==
  /\ request[r] = "submit"
  /\ Step(r, "idle")
  /\ UNCHANGED <<profile, deleted, job, run, bull, unranked, history>>

MarkSubmitted(r) ==
  /\ request[r] = "submit"
  /\ status' = "SUBMITTED"
  /\ submitted' = text
  /\ Mishap(status \notin SUBMITTABLE_STATUSES)
  /\ Step(r, "enqueue")
  /\ UNCHANGED <<text, evaluated, deleted, job, run, bull, unranked, overlap>>

\* enqueueOrRunInline.
AddJob(r) ==
  /\ request[r] = "enqueue"
  /\ bull
  /\ Step(r, "idle")
  /\ \/ /\ job' = Added(job)
        /\ Mishap(job.state \in Finished \/ At(AfterRead))
     \/ Mishap(TRUE) /\ UNCHANGED job
  /\ UNCHANGED <<profile, deleted, run, bull, unranked, submitted, overlap>>

RunInline(r) ==
  /\ request[r] = "enqueue"
  /\ ~bull
  /\ Step(r, "idle")
  /\ \E w \in Runs :
       /\ run[w].at = "idle"
       /\ Goto(w, "read")
  /\ UNCHANGED <<profile, deleted, job, bull, unranked, history>>

----------------------------------------------------------------------------
(* The worker.                                                             *)

\* The processor's promise settles: returned, or thrown for a retry.
Return == job' = (IF bull THEN Returned(job) ELSE job)
Throw ==
  /\ job' = (IF bull THEN Thrown(job) ELSE job)
  /\ Mishap(~bull \/ Thrown(job).state = "failed")

Take(w) ==
  /\ job.state = "waiting"
  /\ run[w].at = "idle"
  /\ job' = Taken(job)
  /\ Goto(w, "read")
  /\ UNCHANGED <<profile, deleted, request, bull, unranked, history>>

MutantRead(w) ==  \* a profile already ANALYZED is skipped, as any that is not SUBMITTED
  /\ run[w].at = "read"
  /\ \/ /\ status = "SUBMITTED"
        /\ run' = [run EXCEPT ![w] = [at |-> "mark", text |-> text]]
        /\ UNCHANGED <<job, mishap>>
     \/ /\ status # "SUBMITTED"
        /\ run' = [run EXCEPT ![w] = NoRun]
        /\ Return /\ UNCHANGED mishap
     \/ run' = [run EXCEPT ![w] = NoRun] /\ Throw
  /\ UNCHANGED <<profile, deleted, request, bull, unranked, submitted, overlap>>

\* runForUser: the profile row, or an error that makes the job throw.  A profile
\* already ANALYZED is a retry after failed side effects.
Read(w) ==
  /\ run[w].at = "read"
  /\ \/ /\ status = "SUBMITTED"
        /\ run' = [run EXCEPT ![w] = [at |-> "mark", text |-> text]]
        /\ UNCHANGED <<job, mishap>>
     \/ status = "ANALYZED" /\ Goto(w, "rank") /\ UNCHANGED <<job, mishap>>
     \/ /\ status \notin {"SUBMITTED", "ANALYZED"}
        /\ run' = [run EXCEPT ![w] = NoRun]
        /\ Return /\ UNCHANGED mishap
     \/ run' = [run EXCEPT ![w] = NoRun] /\ Throw
  /\ UNCHANGED <<profile, deleted, request, bull, unranked, submitted, overlap>>

MutantMarkAnalyzing(w) ==  \* the name the API gives the state is stored
  /\ run[w].at = "mark"
  /\ status' = "processing"
  /\ Goto(w, "evaluate")
  /\ UNCHANGED <<text, evaluated, deleted, request, job, bull, unranked, history>>

\* markAnalyzing: whatever the status is by now.
MarkAnalyzing(w) ==
  /\ run[w].at = "mark"
  /\ \/ status' = "ANALYZING" /\ Goto(w, "evaluate") /\ UNCHANGED <<job, mishap>>
     \/ /\ run' = [run EXCEPT ![w] = NoRun]
        /\ Return /\ Mishap(TRUE)
        /\ UNCHANGED status
  /\ UNCHANGED <<text, evaluated, deleted, request, bull, unranked, submitted, overlap>>

MutantEvaluate(w) ==  \* a failed evaluation escapes runForUser and the job throws
  /\ run[w].at = "evaluate"
  /\ \/ Goto(w, "persist") /\ UNCHANGED <<job, mishap>>
     \/ run' = [run EXCEPT ![w] = NoRun] /\ Throw
  /\ UNCHANGED <<profile, deleted, request, bull, unranked, submitted, overlap>>

\* The evaluation by the language model succeeds or fails.
Evaluate(w) ==
  /\ run[w].at = "evaluate"
  /\ Goto(w, "persist") \/ Goto(w, "fail")
  /\ UNCHANGED <<profile, deleted, request, job, bull, unranked, history>>

MutantPersist(w) ==  \* an evaluation is stored only when the profile has none
  /\ run[w].at = "persist"
  /\ \/ /\ status' = "ANALYZED"
        /\ evaluated' = IF evaluated = None THEN run[w].text ELSE evaluated
        /\ unranked' = TRUE
        /\ Goto(w, "rank")
     \/ Goto(w, "fail") /\ UNCHANGED <<status, evaluated, unranked>>
  /\ UNCHANGED <<text, deleted, request, job, bull, history>>

\* persistAnalysisSuccess: status and evaluation in one transaction.
Persist(w) ==
  /\ run[w].at = "persist"
  /\ \/ /\ status' = "ANALYZED"
        /\ evaluated' = run[w].text
        /\ unranked' = TRUE
        /\ Goto(w, "rank")
     \/ Goto(w, "fail") /\ UNCHANGED <<status, evaluated, unranked>>
  /\ UNCHANGED <<text, deleted, request, job, bull, history>>

MutantMarkFailed(w) ==  \* the outcome is returned, the status left
  /\ run[w].at = "fail"
  /\ run' = [run EXCEPT ![w] = NoRun]
  /\ Return
  /\ UNCHANGED <<profile, deleted, request, bull, unranked, history>>

\* markAnalysisFailed: best effort; the job returns normally either way.
MarkFailed(w) ==
  /\ run[w].at = "fail"
  /\ \/ status' = "FAILED" /\ UNCHANGED mishap
     \/ Mishap(TRUE) /\ UNCHANGED status
  /\ run' = [run EXCEPT ![w] = NoRun]
  /\ Return
  /\ UNCHANGED <<text, evaluated, deleted, request, bull, unranked, submitted, overlap>>

\* invalidateMatchListCache and enqueueRebuild; the latter may throw.
RankSideEffects(w) ==
  /\ run[w].at = "rank"
  /\ run' = [run EXCEPT ![w] = NoRun]
  /\ \/ unranked' = FALSE /\ Return /\ UNCHANGED mishap
     \/ Throw /\ UNCHANGED unranked
  /\ UNCHANGED <<profile, deleted, request, bull, submitted, overlap>>

----------------------------------------------------------------------------
(* The queue, the process, the account.                                    *)

JobStalls ==
  /\ job.state = "active"
  /\ \A w \in Runs : run[w].at = "idle"
  /\ job' = Stalled(job)
  /\ UNCHANGED <<profile, deleted, request, run, bull, unranked, history>>

BackoffEnds ==
  /\ job.state = "delayed"
  /\ job' = Elapsed(job)
  /\ UNCHANGED <<profile, deleted, request, run, bull, unranked, history>>

JobForgotten ==
  /\ job.state \in Finished
  /\ job' = Forgotten(job)
  /\ UNCHANGED <<profile, deleted, request, run, bull, unranked, history>>

\* A process dies: its requests and runs are lost, the job stays as it is.
RequestDies(r) ==
  /\ request[r] # "idle"
  /\ Step(r, "idle")
  /\ Mishap(request[r] = "enqueue")
  /\ UNCHANGED <<profile, deleted, job, run, bull, unranked, submitted, overlap>>

RunDies(w) ==
  /\ run[w].at # "idle"
  /\ run' = [run EXCEPT ![w] = NoRun]
  /\ Mishap(~bull \/ run[w].at \in {"evaluate", "persist", "fail"} \/ job.stalls = MaxStalls)
  /\ UNCHANGED <<profile, deleted, request, job, bull, unranked, submitted, overlap>>

MutantDeleteAccount ==  \* the scrub leaves the status as it is
  /\ ~deleted
  /\ deleted' = TRUE
  /\ text' = 0
  /\ evaluated' = None
  /\ overlap' = ((\E r \in Requests : request[r] # "idle") \/ At(Working))
  /\ UNCHANGED <<status, request, job, run, bull, unranked, submitted, mishap>>

\* scrubAndSoftDeleteAccount: one transaction.
DeleteAccount ==
  /\ ~deleted
  /\ deleted' = TRUE
  /\ status' = "DRAFT"
  /\ text' = 0
  /\ evaluated' = None
  /\ overlap' = ((\E r \in Requests : request[r] # "idle") \/ At(Working))
  /\ UNCHANGED <<request, job, run, bull, unranked, submitted, mishap>>

RunStep(w) ==
  \/ Read(w) \/ MarkAnalyzing(w) \/ Evaluate(w) \/ Persist(w) \/ MarkFailed(w) \/ RankSideEffects(w)

Enqueue(r) == AddJob(r) \/ RunInline(r)

Next ==
  \/ \E r \in Requests :
       \/ BeginEdit(r) \/ SaveEdit(r) \/ BeginSubmit(r) \/ Refuse(r) \/ MarkSubmitted(r)
       \/ Enqueue(r) \/ RequestDies(r)
  \/ \E w \in Runs : Take(w) \/ RunStep(w) \/ RunDies(w)
  \/ JobStalls \/ BackoffEnds \/ JobForgotten \/ DeleteAccount

Spec == Init /\ [][Next]_vars

\* Node runs every continuation, Bull hands out waiting jobs, ends backoffs and
\* checks for stalled jobs on its timers.
Fairness ==
  /\ \A r \in Requests : WF_vars(Enqueue(r))
  /\ \A w \in Runs : WF_vars(RunStep(w))
  /\ WF_vars(\E w \in Runs : Take(w)) /\ WF_vars(BackoffEnds) /\ WF_vars(JobStalls)

FairSpec == Spec /\ Fairness

----------------------------------------------------------------------------
Idle == \A r \in Requests : request[r] # "enqueue"

WorkerGone == job.state = "active" /\ \A w \in Runs : run[w].at = "idle"

InHand ==
  /\ status = "SUBMITTED" =>
       ~Idle \/ job.state \in {"waiting", "delayed"} \/ At({"read", "mark"}) \/ WorkerGone
  /\ status = "ANALYZING" => At({"evaluate", "persist", "fail"})

\* No profile is left waiting, also when the worker dies early: SUBMITTED means that a
\* job is about to be added, will run (again), or a run is about to move the profile on;
\* ANALYZING means that a run has it in hand.  Neither state can be submitted again, so
\* a profile left there is lost.
NothingStuck == ~mishap => InHand

\* The evaluation of an ANALYZED profile is of the text submitted last, or of a later one.
EvaluationIsCurrent ==
  ~mishap /\ ~deleted /\ status = "ANALYZED" => evaluated >= submitted

\* A new evaluation is followed by a rebuild of the ranked list, also when asking
\* for it fails at first: the retried job finds ANALYZED and asks again.
RankFollows ==
  /\ ~mishap /\ ~deleted /\ status = "ANALYZED" /\ unranked
  => At({"rank"}) \/ job.state \in {"waiting", "active", "delayed"}

\* After the deletion of the account no text and no evaluation of it reappear, unless
\* a request was being handled or a text evaluated at the deletion: a job that is
\* still queued, or has not looked at the profile yet, does nothing.
ErasedStaysErased == deleted /\ ~overlap => text = 0 /\ evaluated = None

\* Every submission is decided, unless something goes wrong.
Decided ==
  status \in {"SUBMITTED", "ANALYZING"} ~> status \in {"ANALYZED", "FAILED", "DRAFT"} \/ mishap
=============================================================================
