------------------------------ MODULE StableJob ------------------------------
(***************************************************************************)
(* One Bull job under a fixed job id, as the queues of src/dating-api use  *)
(* it: attempts: 3 with a backoff, finished jobs retained                  *)
(* (removeOnComplete: 100, removeOnFail: 200), the default maxStalledCount *)
(* of 1.  A job is a record; the operators say what each event makes of it.*)
(***************************************************************************)
EXTENDS Naturals

Attempts == 3
MaxStalls == 1

Live == {"waiting", "active", "delayed"}
Finished == {"completed", "failed"}

Job == [state : {"none"} \cup Live \cup Finished, failures : 0 .. Attempts, stalls : 0 .. MaxStalls]
NoJob == [state |-> "none", failures |-> 0, stalls |-> 0]

\* Queue.add under an id that is taken leaves the job there as it is, whatever
\* its state: only an absent job is created.
Added(j) == IF j.state = "none" THEN [NoJob EXCEPT !.state = "waiting"] ELSE j

Taken(j) == [j EXCEPT !.state = "active"]
Returned(j) == [j EXCEPT !.state = "completed"]

\* The processor threw: again after the backoff, until the attempts are used up.
Thrown(j) ==
  IF j.failures + 1 < Attempts THEN [j EXCEPT !.failures = @ + 1, !.state = "delayed"]
                               ELSE [j EXCEPT !.failures = Attempts, !.state = "failed"]
Elapsed(j) == [j EXCEPT !.state = "waiting"]

\* The process working on the job is gone and its lock has expired.
Stalled(j) ==
  IF j.stalls < MaxStalls THEN [j EXCEPT !.stalls = @ + 1, !.state = "waiting"]
                          ELSE [j EXCEPT !.state = "failed"]

\* Enough later jobs have finished for this one to be removed.
Forgotten(j) == IF j.state \in Finished THEN NoJob ELSE j
=============================================================================
