-------------------------------- MODULE Photos --------------------------------
(***************************************************************************)
(* The photos of one profile: upload, deletion and choice of the primary   *)
(* photo by the owner, and the decision on a new photo by the moderation   *)
(* job, by an admin or by the hourly SLA cron.  The driver is "rekognition".*)
(*                                                                         *)
(* A request, a job run and a cron's handling of one photo are processes;  *)
(* an action is one await of theirs.                                       *)
(***************************************************************************)
EXTENDS Naturals, FiniteSets

CONSTANTS
  Photos,   \* the ids that uploads will use, each once
  Actors    \* bound: processes at work at once

VARIABLES
  photo,    \* the UserProfilePhoto rows
  age,      \* the age of an undecided photo, see Ages
  file,     \* the photos with an object in the photo storage
  jobs,     \* the photos whose moderation job may run (again)
  act,      \* what each process does next
  astray,   \* history: the photos whose file may not follow the row, see Astray
  misled    \* history: the primary photo was decided on outdated facts, see Misled

vars == <<photo, age, file, jobs, act, astray, misled>>

Undecided == {"PENDING", "FLAGGED_FOR_REVIEW"}   \* REVIEWABLE
Decided == {"APPROVED", "REJECTED"}
Statuses == Undecided \cup Decided

\* soft: flagged for a middling confidence only, what SLA rule A accepts.
Row == [status : Statuses, key : BOOLEAN, primary : BOOLEAN, soft : BOOLEAN]
Unused == [status |-> "unused", key |-> FALSE, primary |-> FALSE, soft |-> FALSE]
Gone == [Unused EXCEPT !.status = "gone"]

\* New, beyond mlStuckMinutes, beyond slaLowHours, beyond slaMaxHours.
Ages == 0 .. 3

Verdicts == {"APPROVED", "REJECTED", "SOFT", "HARD"}
Steps == {"idle", "save", "key", "enqueue", "undo", "delete", "unstore", "promote",
          "primary", "find", "write"}

\* saw: the process has read that a photo is primary; key: and its storage key.
Idle == [at |-> "idle", by |-> "none", photo |-> "none", verdict |-> "HARD",
         saw |-> FALSE, key |-> FALSE]

TypeOK ==
  /\ photo \in [Photos -> Row \cup {Unused, Gone}]
  /\ age \in [Photos -> Ages]
  /\ file \subseteq Photos /\ jobs \subseteq Photos /\ astray \subseteq Photos
  /\ act \in [Actors -> {Idle} \cup
       [at : Steps, by : {"owner", "job", "admin", "cron"}, photo : Photos,
        verdict : Verdicts, saw : BOOLEAN, key : BOOLEAN]]
  /\ misled \in BOOLEAN

Init ==
  /\ photo = [p \in Photos |-> Unused]
  /\ age = [p \in Photos |-> 0]
  /\ file = {} /\ jobs = {} /\ astray = {}
  /\ act = [a \in Actors |-> Idle]
  /\ misled = FALSE

Exists(p) == photo[p].status \in Statuses
Approved == {p \in Photos : photo[p].status = "APPROVED"}
Primary == {p \in Photos : photo[p].primary}

Astray(p, happens) == astray' = IF happens THEN astray \cup {p} ELSE astray
Misled(happens) == misled' = (misled \/ happens)

At(a, step) == act[a].at = step
Begin(a, step, by, p) ==
  /\ At(a, "idle")
  /\ act' = [act EXCEPT ![a] = [Idle EXCEPT !.at = step, !.by = by, !.photo = p]]
Goto(a, step) == act' = [act EXCEPT ![a].at = step]
Leave(a) == act' = [act EXCEPT ![a] = Idle]

----------------------------------------------------------------------------
(* uploadPhotoForUser                                                      *)

Upload(a, p) ==
  /\ photo[p] = Unused
  /\ photo' = [photo EXCEPT ![p] = [Unused EXCEPT !.status = "PENDING"]]
  /\ Begin(a, "save", "owner", p)
  /\ UNCHANGED <<age, file, jobs, astray, misled>>

SaveFile(a) ==
  /\ At(a, "save")
  /\ file' = file \cup {act[a].photo}
  /\ Goto(a, "key")
  /\ UNCHANGED <<photo, age, jobs, astray, misled>>

MutantSetKey(a) ==  \* the row is not looked for
  /\ At(a, "key")
  /\ photo' = [photo EXCEPT ![act[a].photo].key = TRUE] /\ Goto(a, "enqueue")
  /\ UNCHANGED <<age, file, jobs, astray, misled>>

\* The update throws when the row has been deleted, or when the database fails.
SetKey(a) ==
  /\ At(a, "key")
  /\ LET p == act[a].photo IN
     \/ Exists(p) /\ photo' = [photo EXCEPT ![p].key = TRUE] /\ Goto(a, "enqueue")
     \/ photo' = photo /\ Goto(a, "undo")
  /\ UNCHANGED <<age, file, jobs, astray, misled>>

\* The storage refuses the file.
SaveFails(a) ==
  /\ At(a, "save")
  /\ Goto(a, "undo")
  /\ UNCHANGED <<photo, age, file, jobs, astray, misled>>

MutantUndo(a) ==  \* the row of the failed upload stays
  /\ At(a, "undo")
  /\ Leave(a)
  /\ Astray(act[a].photo, act[a].photo \in file)
  /\ UNCHANGED <<photo, age, file, jobs, misled>>

\* The catch deletes the row; the file, if it has been stored, stays.
Undo(a) ==
  /\ At(a, "undo")
  /\ LET p == act[a].photo IN
     /\ photo' = [photo EXCEPT ![p] = Gone]
     /\ Misled(photo[p].primary)
     /\ Astray(p, p \in file)
  /\ Leave(a)
  /\ UNCHANGED <<age, file, jobs>>

\* add of the job, or its inline run; a failure is ignored.
Enqueue(a) ==
  /\ At(a, "enqueue")
  /\ jobs' \in {jobs, jobs \cup {act[a].photo}}
  /\ Leave(a)
  /\ UNCHANGED <<photo, age, file, astray, misled>>

----------------------------------------------------------------------------
(* deletePhotoForUser and setPrimaryPhotoForUser                           *)

Delete(a, p) ==
  /\ Exists(p)
  /\ At(a, "idle")
  /\ act' = [act EXCEPT ![a] = [Idle EXCEPT !.at = "delete", !.by = "owner", !.photo = p,
                                            !.saw = photo[p].primary, !.key = photo[p].key]]
  /\ UNCHANGED <<photo, age, file, jobs, astray, misled>>

\* The deletion throws when another one came first.  The row deleted may have become
\* the primary photo, or have got its file, since it was read.
DeleteRow(a) ==
  /\ At(a, "delete")
  /\ LET p == act[a].photo IN
     IF Exists(p)
     THEN /\ photo' = [photo EXCEPT ![p] = Gone]
          /\ Misled(photo[p].primary /\ ~act[a].saw)
          /\ Astray(p, ~act[a].key)
          /\ Goto(a, "unstore")
     ELSE Leave(a) /\ UNCHANGED <<photo, astray, misled>>
  /\ UNCHANGED <<age, file, jobs>>

\* A failure of the storage is ignored.
DeleteFile(a) ==
  /\ At(a, "unstore")
  /\ LET p == act[a].photo IN
     \/ /\ act[a].key
        /\ file' = file \ {p}
        /\ UNCHANGED astray
     \/ /\ Astray(p, TRUE)
        /\ UNCHANGED file
  /\ IF act[a].saw THEN Goto(a, "promote") ELSE Leave(a)
  /\ UNCHANGED <<photo, age, jobs, misled>>

\* findFirstApprovedByProfile
FindPromoted(a) ==
  /\ At(a, "promote")
  /\ IF Approved = {} THEN Leave(a)
     ELSE \E q \in Approved :
            act' = [act EXCEPT ![a].at = "primary", ![a].photo = q]
  /\ UNCHANGED <<photo, age, file, jobs, astray, misled>>

Choose(a, p) ==
  /\ photo[p].status = "APPROVED"
  /\ Begin(a, "primary", "owner", p)
  /\ UNCHANGED <<photo, age, file, jobs, astray, misled>>

MutantSetPrimary(a) ==  \* the other photos stay primary
  /\ At(a, "primary")
  /\ LET p == act[a].photo IN
     IF Exists(p)
     THEN photo' = [photo EXCEPT ![p].primary = TRUE] /\ Misled(p \notin Approved)
     ELSE UNCHANGED photo /\ Misled(act[a].saw)
  /\ Leave(a)
  /\ UNCHANGED <<age, file, jobs, astray>>

\* setPrimaryExclusive, one transaction; it throws when the photo has been deleted.
\* The photo may have been rejected since it was read.
SetPrimary(a) ==
  /\ At(a, "primary")
  /\ LET p == act[a].photo IN
     IF Exists(p)
     THEN /\ photo' = [q \in Photos |-> [photo[q] EXCEPT !.primary = q = p]]
          /\ Misled(p \notin Approved)
     ELSE UNCHANGED photo /\ Misled(act[a].saw)
  /\ Leave(a)
  /\ UNCHANGED <<age, file, jobs, astray>>

----------------------------------------------------------------------------
(* The decision: the job, an admin, the cron.                              *)

DecideNext(verdict) == IF verdict = "APPROVED" THEN "find" ELSE "write"

Review(a, by, p, verdict) ==
  /\ At(a, "idle")
  /\ act' = [act EXCEPT ![a] = [Idle EXCEPT !.at = DecideNext(verdict), !.by = by,
                                            !.photo = p, !.verdict = verdict]]
  /\ UNCHANGED <<photo, age, file, jobs, astray, misled>>

\* processPendingPhoto; without the file the verdict is an error, a hard flag.
Moderate(a, p) ==
  /\ p \in jobs
  /\ photo[p].status = "PENDING"
  /\ \E verdict \in Verdicts :
       /\ p \notin file => verdict = "HARD"
       /\ Review(a, "job", p, verdict)

\* A job returns at once when its photo is not PENDING; one that fails for the last
\* time is dropped.
DropJob(p) ==
  /\ p \in jobs
  /\ jobs' = jobs \ {p}
  /\ UNCHANGED <<photo, age, file, act, astray, misled>>

\* moderatePhoto
AdminReviews(a, p) ==
  /\ photo[p].status \in Undecided
  /\ \E verdict \in {"APPROVED", "REJECTED"} : Review(a, "admin", p, verdict)

\* flagStuckPending
FlagStuck(a, p) ==
  /\ photo[p].status = "PENDING"
  /\ age[p] >= 1
  /\ Review(a, "cron", p, "HARD")

MutantSlaApprove(a, p) ==  \* rule A alone
  /\ photo[p].status = "FLAGGED_FOR_REVIEW"
  /\ age[p] >= 2 /\ photo[p].soft
  /\ Review(a, "cron", p, "APPROVED")

\* slaAutoApprove: rule A for soft flags, rule B for every flag.
SlaApprove(a, p) ==
  /\ photo[p].status = "FLAGGED_FOR_REVIEW"
  /\ age[p] = 3 \/ (age[p] = 2 /\ photo[p].soft)
  /\ Review(a, "cron", p, "APPROVED")

\* The first statement of an approval.
FindPrimary(a) ==
  /\ At(a, "find")
  /\ act' = [act EXCEPT ![a].at = "write", ![a].saw = Approved \cap Primary # {}]
  /\ UNCHANGED <<photo, age, file, jobs, astray, misled>>

MutantExpected(a) == Statuses  \* the update is unconditional

\* The statuses under which the update applies: an admin's is unconditional.
Expected(a) ==
  CASE act[a].by = "admin" -> Statuses
    [] act[a].by = "cron" /\ act[a].verdict = "APPROVED" -> {"FLAGGED_FOR_REVIEW"}
    [] OTHER -> {"PENDING"}

NewStatus(verdict) == IF verdict \in Decided THEN verdict ELSE "FLAGGED_FOR_REVIEW"

\* The update.  What it takes for granted may have changed: whether another photo is
\* primary, and for an admin that the photo is undecided.
Write(a) ==
  /\ At(a, "write")
  /\ LET p == act[a].photo
         v == act[a].verdict
     IN /\ IF Exists(p) /\ photo[p].status \in Expected(a)
           THEN /\ photo' = [photo EXCEPT ![p].status = NewStatus(v),
                                          ![p].primary = (v = "APPROVED" /\ ~act[a].saw),
                                          ![p].soft = (v = "SOFT")]
                /\ Misled(\/ v = "APPROVED" /\ act[a].saw # (Approved \cap Primary # {})
                          \/ photo[p].status \in Decided)
           ELSE UNCHANGED <<photo, misled>>
        /\ jobs' = IF act[a].by = "job" THEN jobs \ {p} ELSE jobs
  /\ Leave(a)
  /\ UNCHANGED <<age, file, astray>>

----------------------------------------------------------------------------
\* An await throws, or the process dies.  An upload leaves the row behind, or the
\* file; a deletion leaves the file, or no primary photo.
Stop(a) ==
  /\ ~At(a, "idle")
  /\ Leave(a)
  /\ Astray(act[a].photo, act[a].at \in {"save", "key", "undo", "unstore"})
  /\ Misled(act[a].saw /\ act[a].at \in {"unstore", "promote", "primary"})
  /\ UNCHANGED <<photo, age, file, jobs>>

GrowOld(p) ==
  /\ photo[p].status \in Undecided
  /\ age[p] < 3
  /\ age' = [age EXCEPT ![p] = @ + 1]
  /\ UNCHANGED <<photo, file, jobs, act, astray, misled>>

Continue(a) ==
  \/ SaveFile(a) \/ SaveFails(a) \/ SetKey(a) \/ Undo(a) \/ Enqueue(a)
  \/ DeleteRow(a) \/ DeleteFile(a) \/ FindPromoted(a) \/ SetPrimary(a)
  \/ FindPrimary(a) \/ Write(a)

CronTakes(a, p) == FlagStuck(a, p) \/ SlaApprove(a, p)

Next ==
  \/ \E a \in Actors :
       \/ Continue(a)
       \/ Stop(a)
       \/ \E p \in Photos :
            \/ Upload(a, p) \/ Delete(a, p) \/ Choose(a, p)
            \/ Moderate(a, p) \/ AdminReviews(a, p) \/ CronTakes(a, p)
  \/ \E p \in Photos : DropJob(p) \/ GrowOld(p)

Spec == Init /\ [][Next]_vars

\* Time passes, every process goes on, and the cron comes round every hour to every
\* photo that is due, not to die in the middle each time.
Fairness ==
  /\ \A p \in Photos :
       /\ WF_vars(GrowOld(p))
       /\ SF_vars(\E a \in Actors : CronTakes(a, p))
  /\ \A a \in Actors :
       /\ WF_vars(Continue(a))
       /\ \A p \in Photos :
            /\ SF_vars(act[a].by = "cron" /\ act[a].photo = p /\ FindPrimary(a))
            /\ SF_vars(act[a].by = "cron" /\ act[a].photo = p /\ Write(a))

FairSpec == Spec /\ Fairness

----------------------------------------------------------------------------
\* "a conditional update so stale workers cannot overwrite admin/SLA transitions":
\* the decision on a photo is changed only by an admin who began the review before it.
DecisionStands ==
  [][\A p \in Photos :
       photo[p].status \in Decided /\ photo'[p].status \in Statuses \ {photo[p].status}
       => \E a \in Actors : At(a, "write") /\ act[a].by = "admin" /\ act[a].photo = p]_vars

Promoting == \E a \in Actors : act[a].saw /\ act[a].at \in {"unstore", "promote", "primary"}

\* One approved photo is the primary one as soon as any is approved, also across
\* deletions, choices and concurrent decisions, unless one of them acted on facts
\* that had changed since it read them or stopped half-way.
OnePrimary ==
  ~misled => /\ Primary \subseteq Approved
             /\ \A p, q \in Primary : p = q
             /\ Approved # {} => Primary # {} \/ Promoting

Handled(p) ==
  \E a \in Actors : act[a].photo = p /\ act[a].at \in {"save", "key", "undo", "unstore"}

\* A photo has its file as long as it has its row, and no longer.
FileFollowsRow == \A p \in Photos \ astray : ~Handled(p) => (p \in file <=> Exists(p))

\* Every photo is decided in the end, also when its moderation job is lost.
EventuallyDecided ==
  \A p \in Photos : photo[p].status \in Undecided ~> photo[p].status \notin Undecided
=============================================================================
