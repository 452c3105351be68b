----------------------------- MODULE PhotosProofs -----------------------------
(***************************************************************************)
(* Proofs about Photos, for every number of photos and of processes: the   *)
(* type invariant, that one photo is the primary one, that files follow    *)
(* their rows, and that a decision stands.                                 *)
(*                                                                         *)
(* OnePrimary is inductive as it stands.  FileFollowsRow is not: it needs  *)
(* what the upload and the deletion know of a photo half-way, unless it is *)
(* recorded as astray.                                                     *)
(***************************************************************************)
EXTENDS Photos, TLAPS

Process == [at : Steps, by : {"owner", "job", "admin", "cron"}, photo : Photos,
            verdict : Verdicts, saw : BOOLEAN, key : BOOLEAN]

----------------------------------------------------------------------------
(* Types.                                                                  *)

\* A process at work has a photo, and a row that is not there has no flags.
LEMMA Typed ==
  ASSUME TypeOK
  PROVE  /\ \A a \in Actors : act[a] \in {Idle} \cup Process
         /\ \A a \in Actors : ~At(a, "idle") => act[a] \in Process
         /\ \A p \in Photos : Exists(p) => photo[p] \in Row
         /\ \A p \in Photos : ~Exists(p) => photo[p] \in {Unused, Gone}
<1>1. \A a \in Actors : act[a] \in {Idle} \cup Process
  BY DEF TypeOK, Process
<1>2. \A p \in Photos : photo[p] \in Row \cup {Unused, Gone}
  BY DEF TypeOK
<1>3. Unused.status \notin Statuses /\ Gone.status \notin Statuses
  BY DEF Unused, Gone, Statuses, Undecided, Decided
<1>4. Idle.at = "idle"
  BY DEF Idle
<1>. QED  BY <1>1, <1>2, <1>3, <1>4 DEF At, Exists, Row

AnyRow == [status : Statuses \cup {"unused", "gone"}, key : BOOLEAN, primary : BOOLEAN,
           soft : BOOLEAN]

\* A row that is not there has no flags.
LEMMA Absent ==
  ASSUME NEW x \in {Unused, Gone}
  PROVE  x \in AnyRow /\ x.primary = FALSE /\ x.key = FALSE
<1>1. Unused \in AnyRow /\ Gone \in AnyRow
  BY DEF Unused, Gone, AnyRow
<1>2. Unused.primary = FALSE /\ Gone.primary = FALSE /\ Unused.key = FALSE /\ Gone.key = FALSE
  BY DEF Unused, Gone
<1>. QED  BY <1>1, <1>2

\* A process that begins is one of Process.
LEMMA Begun ==
  ASSUME NEW step \in Steps, NEW p \in Photos, NEW by \in {"owner", "job", "admin", "cron"},
         NEW verdict \in Verdicts, NEW saw \in BOOLEAN, NEW key \in BOOLEAN
  PROVE  /\ [Idle EXCEPT !.at = step, !.by = by, !.photo = p] \in Process
         /\ [Idle EXCEPT !.at = step, !.by = by, !.photo = p, !.saw = saw, !.key = key] \in Process
         /\ [Idle EXCEPT !.at = step, !.by = by, !.photo = p, !.verdict = verdict] \in Process
BY DEF Idle, Process, Verdicts

\* A process that goes on is one of Process.
LEMMA GoneOn ==
  ASSUME NEW x \in Process, NEW step \in Steps, NEW p \in Photos, NEW saw \in BOOLEAN
  PROVE  /\ [x EXCEPT !.at = step] \in Process
         /\ [x EXCEPT !.at = step, !.photo = p] \in Process
         /\ [x EXCEPT !.at = step, !.saw = saw] \in Process
BY DEF Process

\* The types, part by part.
LEMMA TypeParts ==
  ASSUME photo' \in [Photos -> Row \cup {Unused, Gone}], age' \in [Photos -> Ages],
         file' \subseteq Photos, jobs' \subseteq Photos, astray' \subseteq Photos,
         act' \in [Actors -> {Idle} \cup Process], misled' \in BOOLEAN
  PROVE  TypeOK'
BY DEF TypeOK, Process

\* The steps that begin something.
LEMMA BeginTypes ==
  ASSUME TypeOK, NEW a \in Actors, NEW p \in Photos,
         \/ Upload(a, p) \/ Delete(a, p) \/ Choose(a, p)
         \/ Moderate(a, p) \/ AdminReviews(a, p) \/ CronTakes(a, p)
  PROVE  TypeOK'
<1>1. /\ photo \in [Photos -> Row \cup {Unused, Gone}] /\ age \in [Photos -> Ages]
      /\ file \subseteq Photos /\ jobs \subseteq Photos /\ astray \subseteq Photos
      /\ act \in [Actors -> {Idle} \cup Process] /\ misled \in BOOLEAN
  BY DEF TypeOK, Process
<1>2. ASSUME NEW new \in Process, act' = [act EXCEPT ![a] = new],
             UNCHANGED <<photo, age, file, jobs, astray, misled>>
      PROVE  TypeOK'
  BY <1>1, <1>2, TypeParts
<1>3. ASSUME NEW by \in {"job", "admin", "cron"}, NEW verdict \in Verdicts, Review(a, by, p, verdict)
      PROVE  TypeOK'
  <2>1. DecideNext(verdict) \in Steps
    BY DEF DecideNext, Steps
  <2>. QED  BY <1>2, <1>3, <2>1, Begun DEF Review
<1>4. CASE Upload(a, p)
  <2>1. [Unused EXCEPT !.status = "PENDING"] \in Row
    BY DEF Unused, Row, Statuses, Undecided
  <2>2. photo' = [photo EXCEPT ![p] = [Unused EXCEPT !.status = "PENDING"]]
        /\ act' = [act EXCEPT ![a] = [Idle EXCEPT !.at = "save", !.by = "owner", !.photo = p]]
        /\ UNCHANGED <<age, file, jobs, astray, misled>>
    BY <1>4 DEF Upload, Begin
  <2>3. [Idle EXCEPT !.at = "save", !.by = "owner", !.photo = p] \in Process
    BY Begun DEF Steps, Verdicts
  <2>. QED  BY <1>1, <2>1, <2>2, <2>3, TypeParts
<1>5. CASE Delete(a, p)
  <2>1. photo[p].primary \in BOOLEAN /\ photo[p].key \in BOOLEAN
    BY <1>5, Typed DEF Delete, Row
  <2>2. [Idle EXCEPT !.at = "delete", !.by = "owner", !.photo = p,
                     !.saw = photo[p].primary, !.key = photo[p].key] \in Process
    BY <2>1, Begun DEF Steps, Verdicts
  <2>. QED  BY <1>2, <1>5, <2>2 DEF Delete
<1>6. CASE Choose(a, p)
  <2>1. [Idle EXCEPT !.at = "primary", !.by = "owner", !.photo = p] \in Process
    BY Begun DEF Steps, Verdicts
  <2>. QED  BY <1>2, <1>6, <2>1 DEF Choose, Begin
<1>7. CASE Moderate(a, p)
  BY <1>3, <1>7 DEF Moderate
<1>8. CASE AdminReviews(a, p)
  BY <1>3, <1>8 DEF AdminReviews, Verdicts
<1>9. CASE CronTakes(a, p)
  BY <1>3, <1>9 DEF CronTakes, FlagStuck, SlaApprove, Verdicts
<1>. QED  BY <1>4, <1>5, <1>6, <1>7, <1>8, <1>9

\* The steps of a process at work.
LEMMA ContinueTypes ==
  ASSUME TypeOK, NEW a \in Actors, Continue(a) \/ Stop(a)
  PROVE  TypeOK'
<1>1. /\ photo \in [Photos -> Row \cup {Unused, Gone}] /\ age \in [Photos -> Ages]
      /\ file \subseteq Photos /\ jobs \subseteq Photos /\ astray \subseteq Photos
      /\ act \in [Actors -> {Idle} \cup Process] /\ misled \in BOOLEAN
  BY DEF TypeOK, Process
<1> DEFINE p == act[a].photo
<1>2. act[a] \in Process /\ p \in Photos
  <2>1. ~At(a, "idle")
    BY DEF Continue, SaveFile, SaveFails, SetKey, Undo, Enqueue, DeleteRow, DeleteFile,
       FindPromoted, SetPrimary, FindPrimary, Write, Stop, At
  <2>. QED  BY <2>1, Typed DEF Process
<1>3. ASSUME Leave(a) \/ \E step \in Steps : Goto(a, step)
      PROVE  act' \in [Actors -> {Idle} \cup Process]
  BY <1>1, <1>2, <1>3, GoneOn DEF Leave, Goto
<1>4. ASSUME NEW happens, Misled(happens)
      PROVE  misled' \in BOOLEAN
  BY <1>4 DEF Misled
<1>5. ASSUME NEW happens, Astray(p, happens)
      PROVE  astray' \subseteq Photos
  BY <1>1, <1>2, <1>5 DEF Astray
<1>6. CASE SaveFile(a) \/ SaveFails(a)
  <2>1. act' \in [Actors -> {Idle} \cup Process]
    BY <1>3, <1>6 DEF SaveFile, SaveFails, Steps
  <2>. QED  BY <1>1, <1>2, <1>6, <2>1, TypeParts DEF SaveFile, SaveFails
<1>7. CASE SetKey(a)
  <2>1. act' \in [Actors -> {Idle} \cup Process]
    BY <1>3, <1>7 DEF SetKey, Steps
  <2>2. photo' \in [Photos -> Row \cup {Unused, Gone}]
    <3>1. CASE Exists(p) /\ photo' = [photo EXCEPT ![p].key = TRUE]
      <4>1. [photo[p] EXCEPT !.key = TRUE] \in Row
        BY <1>2, <3>1, Typed DEF Row
      <4>. QED  BY <1>1, <1>2, <3>1, <4>1
    <3>2. CASE photo' = photo
      BY <1>1, <3>2
    <3>. QED  BY <1>1, <1>7, <3>1, <3>2 DEF SetKey
  <2>. QED  BY <1>1, <1>7, <2>1, <2>2, TypeParts DEF SetKey
<1>8. CASE Undo(a)
  <2>1. act' \in [Actors -> {Idle} \cup Process] /\ misled' \in BOOLEAN /\ astray' \subseteq Photos
    BY <1>3, <1>4, <1>5, <1>8 DEF Undo
  <2>. QED  BY <1>1, <1>2, <1>8, <2>1, TypeParts DEF Undo
<1>9. CASE Enqueue(a)
  <2>1. act' \in [Actors -> {Idle} \cup Process] /\ jobs' \subseteq Photos
    BY <1>1, <1>2, <1>3, <1>9 DEF Enqueue
  <2>. QED  BY <1>1, <1>9, <2>1, TypeParts DEF Enqueue
<1>10. CASE DeleteRow(a)
  <2>1. act' \in [Actors -> {Idle} \cup Process]
    BY <1>3, <1>10 DEF DeleteRow, Steps
  <2>2. misled' \in BOOLEAN /\ astray' \subseteq Photos
    BY <1>1, <1>4, <1>5, <1>10 DEF DeleteRow
  <2>. QED  BY <1>1, <1>2, <1>10, <2>1, <2>2, TypeParts DEF DeleteRow
<1>11. CASE DeleteFile(a)
  <2>1. act' \in [Actors -> {Idle} \cup Process]
    BY <1>3, <1>11 DEF DeleteFile, Steps
  <2>2. file' \subseteq Photos /\ astray' \subseteq Photos
    BY <1>1, <1>5, <1>11 DEF DeleteFile
  <2>. QED  BY <1>1, <1>11, <2>1, <2>2, TypeParts DEF DeleteFile
<1>12. CASE FindPromoted(a)
  <2>1. ASSUME NEW q \in Approved, act' = [act EXCEPT ![a].at = "primary", ![a].photo = q]
        PROVE  act' \in [Actors -> {Idle} \cup Process]
    <3>1. q \in Photos /\ "primary" \in Steps
      BY DEF Approved, Steps
    <3>2. [act[a] EXCEPT !.at = "primary", !.photo = q] \in Process
      BY <1>2, <3>1, GoneOn
    <3>3. act' = [act EXCEPT ![a] = [act[a] EXCEPT !.at = "primary", !.photo = q]]
      BY <1>1, <2>1
    <3>. QED  BY <1>1, <3>2, <3>3
  <2>2. act' \in [Actors -> {Idle} \cup Process]
    BY <1>3, <1>12, <2>1 DEF FindPromoted
  <2>. QED  BY <1>1, <1>12, <2>2, TypeParts DEF FindPromoted
<1>13. CASE SetPrimary(a)
  <2>1. act' \in [Actors -> {Idle} \cup Process] /\ misled' \in BOOLEAN
    BY <1>3, <1>4, <1>13 DEF SetPrimary
  <2>2. photo' \in [Photos -> Row \cup {Unused, Gone}]
    <3>1. CASE Exists(p)
      <4>1. photo' = [q \in Photos |-> [photo[q] EXCEPT !.primary = q = p]]
        BY <1>13, <3>1 DEF SetPrimary
      <4>2. ASSUME NEW q \in Photos
            PROVE  [photo[q] EXCEPT !.primary = q = p] \in Row \cup {Unused, Gone}
        <5>1. CASE Exists(q)
          BY <5>1, Typed DEF Row
        <5>2. CASE ~Exists(q)
          <6>1. (q = p) = FALSE /\ photo[q] \in {Unused, Gone}
            BY <3>1, <5>2, Typed
          <6>2. photo[q] \in AnyRow /\ photo[q].primary = FALSE
            BY <6>1, Absent
          <6>3. [photo[q] EXCEPT !.primary = FALSE] = photo[q]
            BY <6>2 DEF AnyRow
          <6>4. [photo[q] EXCEPT !.primary = q = p] = [photo[q] EXCEPT !.primary = FALSE]
            BY <6>1, Zenon
          <6>. QED  BY <6>1, <6>3, <6>4
        <5>. QED  BY <5>1, <5>2
      <4>. QED  BY <4>1, <4>2
    <3>2. CASE ~Exists(p)
      BY <1>1, <1>13, <3>2 DEF SetPrimary
    <3>. QED  BY <3>1, <3>2
  <2>. QED  BY <1>1, <1>13, <2>1, <2>2, TypeParts DEF SetPrimary
<1>14. CASE FindPrimary(a)
  <2>1. (Approved \cap Primary # {}) \in BOOLEAN /\ "write" \in Steps
    BY DEF Steps
  <2>2. [act[a] EXCEPT !.at = "write", !.saw = Approved \cap Primary # {}] \in Process
    BY <1>2, <2>1, GoneOn
  <2>3. act' = [act EXCEPT ![a] = [act[a] EXCEPT !.at = "write", !.saw = Approved \cap Primary # {}]]
    BY <1>1, <1>14 DEF FindPrimary
  <2>. QED  BY <1>1, <1>14, <2>2, <2>3, TypeParts DEF FindPrimary
<1>15. CASE Write(a)
  <2>1. act' \in [Actors -> {Idle} \cup Process] /\ misled' \in BOOLEAN /\ jobs' \subseteq Photos
    BY <1>1, <1>3, <1>4, <1>15 DEF Write
  <2>2. photo' \in [Photos -> Row \cup {Unused, Gone}]
    <3> DEFINE v == act[a].verdict
               new == [photo[p] EXCEPT !.status = NewStatus(v),
                                       !.primary = (v = "APPROVED" /\ ~act[a].saw),
                                       !.soft = (v = "SOFT")]
    <3>1. CASE Exists(p) /\ photo[p].status \in Expected(a)
      <4>1. NewStatus(v) \in Statuses
        BY DEF NewStatus, Statuses, Decided, Undecided
      <4>2. new \in Row
        BY <1>2, <3>1, <4>1, Typed DEF Row
      <4>3. photo' = [photo EXCEPT ![p] = new]
        BY <1>1, <1>2, <1>15, <3>1 DEF Write
      <4>. QED  BY <1>1, <1>2, <4>2, <4>3
    <3>2. CASE ~(Exists(p) /\ photo[p].status \in Expected(a))
      BY <1>1, <1>15, <3>2 DEF Write
    <3>. QED  BY <3>1, <3>2
  <2>. QED  BY <1>1, <1>15, <2>1, <2>2, TypeParts DEF Write
<1>16. CASE Stop(a)
  <2>1. act' \in [Actors -> {Idle} \cup Process] /\ misled' \in BOOLEAN /\ astray' \subseteq Photos
    BY <1>3, <1>4, <1>5, <1>16 DEF Stop
  <2>. QED  BY <1>1, <1>16, <2>1, TypeParts DEF Stop
<1>. QED
  BY <1>6, <1>7, <1>8, <1>9, <1>10, <1>11, <1>12, <1>13, <1>14, <1>15, <1>16 DEF Continue

LEMMA TypeStep ==
  ASSUME TypeOK, [Next]_vars
  PROVE  TypeOK'
<1>1. ASSUME NEW p \in Photos, DropJob(p) \/ GrowOld(p)
      PROVE  TypeOK'
  BY <1>1 DEF TypeOK, DropJob, GrowOld, Ages
<1>2. CASE UNCHANGED vars
  BY <1>2 DEF TypeOK, vars
<1>. QED  BY <1>1, <1>2, BeginTypes, ContinueTypes DEF Next

----------------------------------------------------------------------------
(* One primary photo.                                                      *)

\* A step of one process leaves the others where they are; unless it was promoting and
\* is not any more, a promotion under way stays under way.
LEMMA StillPromoting ==
  ASSUME TypeOK, NEW a \in Actors, NEW new, act' = [act EXCEPT ![a] = new],
         act[a].saw /\ act[a].at \in {"unstore", "promote", "primary"} =>
           new.saw /\ new.at \in {"unstore", "promote", "primary"}
  PROVE  Promoting => Promoting'
BY DEF TypeOK, Promoting

\* A step that changes neither the approved nor the primary photos.
LEMMA SamePrimary ==
  ASSUME OnePrimary, misled' = FALSE => misled = FALSE,
         Approved' = Approved, Primary' = Primary, Promoting => Promoting'
  PROVE  misled \in BOOLEAN /\ misled' \in BOOLEAN => OnePrimary'
BY DEF OnePrimary, Approved, Primary

\* Steps on rows other than a decision or a change of the primary photo.
LEMMA BeginPrimary ==
  ASSUME TypeOK, TypeOK', OnePrimary, NEW a \in Actors, NEW p \in Photos,
         \/ Upload(a, p) \/ Delete(a, p) \/ Choose(a, p)
         \/ Moderate(a, p) \/ AdminReviews(a, p) \/ CronTakes(a, p)
  PROVE  OnePrimary'
<1>1. misled' = misled /\ misled \in BOOLEAN
  BY DEF Upload, Delete, Choose, Moderate, AdminReviews, CronTakes, FlagStuck, SlaApprove, Review,
     TypeOK
<1>2. At(a, "idle") /\ \E new : act' = [act EXCEPT ![a] = new]
  BY DEF Upload, Delete, Choose, Moderate, AdminReviews, CronTakes, FlagStuck, SlaApprove, Review,
     Begin
<1>3. Promoting => Promoting'
  BY <1>2, StillPromoting DEF At
<1>4. Approved' = Approved /\ Primary' = Primary
  <2>1. CASE Upload(a, p)
    <3>1. photo' = [photo EXCEPT ![p] = [Unused EXCEPT !.status = "PENDING"]] /\ photo[p] = Unused
      BY <2>1 DEF Upload
    <3>2. [Unused EXCEPT !.status = "PENDING"].status = "PENDING"
          /\ [Unused EXCEPT !.status = "PENDING"].primary = FALSE
          /\ Unused.status # "APPROVED"
      BY DEF Unused
    <3>. QED  BY <3>1, <3>2, Absent DEF Approved, Primary, TypeOK
  <2>2. CASE photo' = photo
    BY <2>2 DEF Approved, Primary
  <2>. QED
    BY <2>1, <2>2 DEF Delete, Choose, Moderate, AdminReviews, CronTakes, FlagStuck, SlaApprove,
       Review
<1>. QED  BY <1>1, <1>3, <1>4, SamePrimary

\* Steps of a process at work.
LEMMA ContinuePrimary ==
  ASSUME TypeOK, TypeOK', OnePrimary, NEW a \in Actors, Continue(a) \/ Stop(a)
  PROVE  OnePrimary'
<1> DEFINE p == act[a].photo
<1>1. ~At(a, "idle") /\ act[a] \in Process /\ p \in Photos
  <2>1. ~At(a, "idle")
    BY DEF Continue, SaveFile, SaveFails, SetKey, Undo, Enqueue, DeleteRow, DeleteFile,
       FindPromoted, SetPrimary, FindPrimary, Write, Stop, At
  <2>. QED  BY <2>1, Typed DEF Process
<1>2. misled \in BOOLEAN /\ misled' \in BOOLEAN
  BY DEF TypeOK
<1>3. ASSUME NEW step, Goto(a, step), act[a].saw /\ act[a].at \in {"unstore", "promote", "primary"} =>
                                        step \in {"unstore", "promote", "primary"}
      PROVE  Promoting => Promoting'
  <2>1. act' = [act EXCEPT ![a] = [act[a] EXCEPT !.at = step]]
    BY <1>3 DEF Goto, TypeOK
  <2>2. [act[a] EXCEPT !.at = step].at = step /\ [act[a] EXCEPT !.at = step].saw = act[a].saw
    BY <1>1 DEF Process
  <2>. QED  BY <1>3, <2>1, <2>2, StillPromoting
<1>4. ASSUME Leave(a), ~(act[a].saw /\ act[a].at \in {"unstore", "promote", "primary"})
      PROVE  Promoting => Promoting'
  BY <1>4, StillPromoting DEF Leave
<1>5. ASSUME photo' = [photo EXCEPT ![p] = Gone]
      PROVE  Approved' = Approved \ {p} /\ Primary' = Primary \ {p}
  <2>1. Gone.status # "APPROVED" /\ Gone.primary = FALSE
    BY DEF Gone, Unused
  <2>. QED  BY <1>1, <1>5, <2>1 DEF TypeOK, Approved, Primary
<1>6. CASE SaveFile(a) \/ SaveFails(a)
  <2>1. photo' = photo /\ misled' = misled /\ (Goto(a, "key") \/ Goto(a, "undo"))
        /\ act[a].at = "save"
    BY <1>6 DEF SaveFile, SaveFails, At
  <2>2. Approved' = Approved /\ Primary' = Primary
    BY <2>1 DEF Approved, Primary
  <2>. QED  BY <1>2, <1>3, <2>1, <2>2, SamePrimary
<1>7. CASE SetKey(a)
  <2>1. misled' = misled /\ (Goto(a, "enqueue") \/ Goto(a, "undo")) /\ act[a].at = "key"
    BY <1>7 DEF SetKey, At
  <2>2. Approved' = Approved /\ Primary' = Primary
    <3>1. CASE Exists(p) /\ photo' = [photo EXCEPT ![p].key = TRUE]
      <4>1. photo' = [photo EXCEPT ![p] = [photo[p] EXCEPT !.key = TRUE]]
        BY <1>1, <3>1 DEF TypeOK
      <4>2. /\ [photo[p] EXCEPT !.key = TRUE].status = photo[p].status
            /\ [photo[p] EXCEPT !.key = TRUE].primary = photo[p].primary
        BY <1>1, <3>1, Typed DEF Row
      <4>. QED  BY <1>1, <4>1, <4>2 DEF Approved, Primary, TypeOK
    <3>2. CASE photo' = photo
      BY <3>2 DEF Approved, Primary
    <3>. QED  BY <1>1, <1>7, <3>1, <3>2 DEF SetKey
  <2>. QED  BY <1>2, <1>3, <2>1, <2>2, SamePrimary
<1>8. CASE Undo(a)
  <2>1. Approved' = Approved \ {p} /\ Primary' = Primary \ {p}
    BY <1>5, <1>8 DEF Undo
  <2>2. Promoting => Promoting'
    BY <1>4, <1>8 DEF Undo, At
  <2>3. misled' = (misled \/ photo[p].primary)
    BY <1>8 DEF Undo, Misled
  <2>. QED  BY <1>1, <2>1, <2>2, <2>3 DEF OnePrimary, Primary, Approved
<1>9. CASE Enqueue(a)
  <2>1. photo' = photo /\ misled' = misled /\ Leave(a) /\ act[a].at = "enqueue"
    BY <1>9 DEF Enqueue, At
  <2>2. Approved' = Approved /\ Primary' = Primary
    BY <2>1 DEF Approved, Primary
  <2>. QED  BY <1>2, <1>4, <2>1, <2>2, SamePrimary
<1>10. CASE DeleteRow(a)
  <2>1. act[a].at = "delete"
    BY <1>10 DEF DeleteRow, At
  <2>2. CASE Exists(p)
    <3>1. Approved' = Approved \ {p} /\ Primary' = Primary \ {p}
      BY <1>5, <1>10, <2>2 DEF DeleteRow
    <3>2. Goto(a, "unstore") /\ misled' = (misled \/ (photo[p].primary /\ ~act[a].saw))
      BY <1>10, <2>2 DEF DeleteRow, Misled
    <3>3. Promoting => Promoting'
      BY <1>3, <2>1, <3>2
    <3>4. act[a].saw => Promoting'
      BY <1>1, <3>2 DEF Goto, TypeOK, Promoting, Process
    <3>. QED  BY <1>1, <3>1, <3>2, <3>3, <3>4 DEF OnePrimary, Primary, Approved
  <2>3. CASE ~Exists(p)
    <3>1. photo' = photo /\ misled' = misled /\ Leave(a)
      BY <1>10, <2>3 DEF DeleteRow
    <3>2. Approved' = Approved /\ Primary' = Primary
      BY <3>1 DEF Approved, Primary
    <3>. QED  BY <1>2, <1>4, <2>1, <3>1, <3>2, SamePrimary
  <2>. QED  BY <2>2, <2>3
<1>11. CASE DeleteFile(a)
  <2>1. photo' = photo /\ misled' = misled /\ IF act[a].saw THEN Goto(a, "promote") ELSE Leave(a)
    BY <1>11 DEF DeleteFile
  <2>2. Approved' = Approved /\ Primary' = Primary
    BY <2>1 DEF Approved, Primary
  <2>3. Promoting => Promoting'
    BY <1>3, <1>4, <2>1
  <2>. QED  BY <1>2, <2>1, <2>2, <2>3, SamePrimary
<1>12. CASE FindPromoted(a)
  <2>1. photo' = photo /\ misled' = misled /\ act[a].at = "promote"
    BY <1>12 DEF FindPromoted, At
  <2>2. Approved' = Approved /\ Primary' = Primary
    BY <2>1 DEF Approved, Primary
  <2>3. CASE Approved = {}
    BY <2>1, <2>2, <2>3 DEF OnePrimary, Approved, Primary
  <2>4. CASE Approved # {}
    <3>1. PICK q \in Approved : act' = [act EXCEPT ![a].at = "primary", ![a].photo = q]
      BY <1>12, <2>4 DEF FindPromoted
    <3>2. act' = [act EXCEPT ![a] = [act[a] EXCEPT !.at = "primary", !.photo = q]]
      BY <3>1 DEF TypeOK
    <3>3. /\ [act[a] EXCEPT !.at = "primary", !.photo = q].at = "primary"
          /\ [act[a] EXCEPT !.at = "primary", !.photo = q].saw = act[a].saw
      BY <1>1 DEF Process
    <3>4. Promoting => Promoting'
      BY <3>2, <3>3, StillPromoting
    <3>. QED  BY <1>2, <2>1, <2>2, <3>4, SamePrimary
  <2>. QED  BY <2>3, <2>4
<1>13. CASE SetPrimary(a)
  <2>1. CASE Exists(p)
    <3>1. photo' = [q \in Photos |-> [photo[q] EXCEPT !.primary = q = p]]
          /\ misled' = (misled \/ p \notin Approved)
      BY <1>13, <2>1 DEF SetPrimary, Misled
    <3>2. \A q \in Photos : /\ photo'[q].status = photo[q].status
                            /\ photo'[q].primary = (q = p)
      <4>1. ASSUME NEW q \in Photos
            PROVE  photo[q] \in AnyRow
        BY Typed, Absent DEF Row, AnyRow
      <4>. QED  BY <3>1, <4>1 DEF AnyRow
    <3>3. Approved' = Approved /\ Primary' = {p}
      BY <1>1, <3>2 DEF Approved, Primary
    <3>. QED  BY <3>1, <3>3 DEF OnePrimary
  <2>2. CASE ~Exists(p)
    <3>1. photo' = photo /\ misled' = (misled \/ act[a].saw) /\ Leave(a)
      BY <1>13, <2>2 DEF SetPrimary, Misled
    <3>2. Approved' = Approved /\ Primary' = Primary
      BY <3>1 DEF Approved, Primary
    <3>3. ~misled' => ~misled /\ ~act[a].saw
      BY <3>1
    <3>4. ~act[a].saw => (Promoting => Promoting')
      BY <1>4, <3>1
    <3>. QED  BY <3>2, <3>3, <3>4 DEF OnePrimary, Approved, Primary
  <2>. QED  BY <2>1, <2>2
<1>14. CASE FindPrimary(a)
  <2>1. photo' = photo /\ misled' = misled /\ act[a].at = "find"
        /\ \E new : act' = [act EXCEPT ![a] = new]
    <3>1. act' = [act EXCEPT ![a] = [act[a] EXCEPT !.at = "write", !.saw = Approved \cap Primary # {}]]
      BY <1>14 DEF FindPrimary, TypeOK
    <3>. QED  BY <1>14, <3>1 DEF FindPrimary, At
  <2>2. Approved' = Approved /\ Primary' = Primary
    BY <2>1 DEF Approved, Primary
  <2>3. Promoting => Promoting'
    BY <2>1, StillPromoting
  <2>. QED  BY <1>2, <2>1, <2>2, <2>3, SamePrimary
<1>15. CASE Write(a)
  <2> DEFINE v == act[a].verdict
             new == [photo[p] EXCEPT !.status = NewStatus(v),
                                     !.primary = (v = "APPROVED" /\ ~act[a].saw),
                                     !.soft = (v = "SOFT")]
  <2>1. Promoting => Promoting'
    BY <1>4, <1>15 DEF Write, At
  <2>2. CASE Exists(p) /\ photo[p].status \in Expected(a)
    <3>1. photo' = [photo EXCEPT ![p] = new]
      BY <1>1, <1>15, <2>2 DEF Write, TypeOK
    <3>2. misled' = (misled \/ \/ v = "APPROVED" /\ act[a].saw # (Approved \cap Primary # {})
                               \/ photo[p].status \in Decided)
      BY <1>15, <2>2 DEF Write, Misled
    <3>3. /\ new.status = "APPROVED" <=> v = "APPROVED"
          /\ new.primary <=> v = "APPROVED" /\ ~act[a].saw
      BY <1>1, <2>2, Typed DEF Row, NewStatus, Decided
    <3>4. SUFFICES ASSUME ~misled'
                   PROVE  OnePrimary'
      BY DEF OnePrimary
    <3>5. ~misled /\ p \notin Approved /\ p \notin Primary
          /\ (v = "APPROVED" => act[a].saw = (Approved \cap Primary # {}))
      BY <3>2, <3>4 DEF OnePrimary, Approved, Decided
    <3>6. act[a].saw \in BOOLEAN
      BY <1>1 DEF Process
    <3>7. \A q \in Photos : q # p => photo'[q] = photo[q]
      BY <3>1 DEF TypeOK
    <3>8. /\ photo'[p].status = "APPROVED" <=> v = "APPROVED"
          /\ photo'[p].primary <=> v = "APPROVED" /\ ~act[a].saw
      <4>1. photo'[p] = new
        BY <1>1, <3>1 DEF TypeOK
      <4>. QED  BY <3>3, <4>1
    <3> HIDE DEF new
    <3>9. Approved' = IF v = "APPROVED" THEN Approved \cup {p} ELSE Approved
      BY <1>1, <3>5, <3>7, <3>8 DEF Approved
    <3>10. Primary' = IF v = "APPROVED" /\ ~act[a].saw THEN Primary \cup {p} ELSE Primary
      BY <1>1, <3>5, <3>7, <3>8 DEF Primary
    <3>11. Primary \subseteq Approved /\ (\A q, r \in Primary : q = r)
           /\ (Approved # {} => Primary # {} \/ Promoting)
      BY <3>5 DEF OnePrimary
    <3>12. v = "APPROVED" => (act[a].saw <=> Primary # {})
      BY <3>5, <3>6, <3>11
    <3>. QED  BY <2>1, <3>9, <3>10, <3>11, <3>12 DEF OnePrimary
  <2>3. CASE ~(Exists(p) /\ photo[p].status \in Expected(a))
    <3>1. photo' = photo /\ misled' = misled
      BY <1>15, <2>3 DEF Write
    <3>2. Approved' = Approved /\ Primary' = Primary
      BY <3>1 DEF Approved, Primary
    <3>. QED  BY <1>2, <2>1, <3>1, <3>2, SamePrimary
  <2>. QED  BY <2>2, <2>3
<1>16. CASE Stop(a)
  <2>1. photo' = photo /\ Leave(a)
        /\ misled' = (misled \/ (act[a].saw /\ act[a].at \in {"unstore", "promote", "primary"}))
    BY <1>16 DEF Stop, Misled
  <2>2. Approved' = Approved /\ Primary' = Primary
    BY <2>1 DEF Approved, Primary
  <2>3. ~misled' => ~misled /\ (Promoting => Promoting')
    BY <1>4, <2>1
  <2>. QED  BY <2>2, <2>3 DEF OnePrimary, Approved, Primary
<1>. QED
  BY <1>6, <1>7, <1>8, <1>9, <1>10, <1>11, <1>12, <1>13, <1>14, <1>15, <1>16 DEF Continue

LEMMA PrimaryStep ==
  ASSUME TypeOK, TypeOK', OnePrimary, [Next]_vars
  PROVE  OnePrimary'
<1>1. ASSUME NEW p \in Photos, DropJob(p) \/ GrowOld(p)
      PROVE  OnePrimary'
  BY <1>1 DEF OnePrimary, Approved, Primary, Promoting, DropJob, GrowOld
<1>2. CASE UNCHANGED vars
  BY <1>2 DEF OnePrimary, Approved, Primary, Promoting, vars
<1>. QED  BY <1>1, <1>2, BeginPrimary, ContinuePrimary DEF Next

----------------------------------------------------------------------------
(* Files and rows.                                                         *)

Uploading(a) == act[a].at \in {"save", "key", "undo"}

\* What holds of a photo half-way through its upload or deletion, unless it is astray:
\* an upload has its row, without a key, and its file only once that has been saved; a
\* deletion that has read a key has read the row's, and has deleted the row when it
\* deletes the file.
HalfWay(a) ==
  LET p == act[a].photo IN
  p \notin astray =>
    /\ Uploading(a) => Exists(p) /\ ~photo[p].key
    /\ act[a].at = "save" => p \notin file
    /\ act[a].at = "key" => p \in file
    /\ act[a].at = "delete" /\ act[a].key => photo[p].key \/ ~Exists(p)
    /\ act[a].at = "unstore" => ~Exists(p)

\* A photo is uploaded once.
OneUpload ==
  /\ \A a \in Actors : act[a].at # "idle" => photo[act[a].photo].status # "unused"
  /\ \A a, b \in Actors : a # b /\ Uploading(a) /\ Uploading(b) => act[a].photo # act[b].photo

FileInv == FileFollowsRow /\ OneUpload /\ \A a \in Actors : HalfWay(a)

\* A step of one process that changes no file and no row's existence or key, and goes
\* neither on with an upload nor with a deletion.
LEMMA QuietFiles ==
  ASSUME TypeOK, FileInv, NEW a \in Actors, NEW new, act' = [act EXCEPT ![a] = new],
         file' = file, astray \subseteq astray',
         \A q \in Photos : /\ Exists(q)' <=> Exists(q)
                           /\ photo'[q].key = photo[q].key
                           /\ photo[q].status # "unused" => photo'[q].status # "unused",
         new.at \notin {"save", "key", "undo", "unstore"},
         new.at # "idle" => new.photo \in Photos /\ photo[new.photo].status # "unused",
         new.at = "delete" => photo[new.photo].key = new.key,
         Uploading(a) \/ act[a].at = "unstore" => act[a].photo \in astray'
  PROVE  FileInv'
<1>1. /\ act'[a] = new
      /\ \A b \in Actors : b # a => act'[b] = act[b]
      /\ \A b \in Actors : act[b].at # "idle" => act[b].photo \in Photos
  <2>1. \A b \in Actors : act[b].at # "idle" => act[b].photo \in Photos
    BY Typed DEF At, Process
  <2>. QED  BY <2>1 DEF TypeOK
<1>2. OneUpload'
  BY <1>1 DEF FileInv, OneUpload, Uploading
<1>3. ASSUME NEW b \in Actors
      PROVE  HalfWay(b)'
  <2>1. CASE b = a
    BY <1>1, <2>1 DEF HalfWay, Uploading
  <2>2. CASE b # a
    BY <1>1, <2>2 DEF FileInv, HalfWay, Uploading
  <2>. QED  BY <2>1, <2>2
<1>4. FileFollowsRow'
  <2>1. ASSUME NEW q \in Photos \ astray', Handled(q)
        PROVE  Handled(q)'
    BY <1>1, <2>1 DEF Handled, Uploading
  <2>. QED  BY <2>1 DEF FileInv, FileFollowsRow
<1>. QED  BY <1>2, <1>3, <1>4 DEF FileInv

\* A step of process a that touches no photo but p.
TouchesOnly(a, p) ==
  /\ act[a].photo = p \/ act[a].at = "idle"
  /\ \A b \in Actors : b # a => act'[b] = act[b]
  /\ act'[a].at # "idle" => act'[a].photo \in Photos /\ photo'[act'[a].photo].status # "unused"
  /\ act'[a].at \in {"save", "key", "undo", "unstore", "delete"} => act'[a].photo = p
  /\ photo'[p].status # "unused"
  /\ \A q \in Photos : q # p => photo'[q] = photo[q] /\ (q \in file' <=> q \in file)
  /\ astray \subseteq astray'

\* What it leaves in order for p and for the processes at work on it.
LeavesInOrder(a, p) ==
  /\ act'[a].at \in {"save", "key", "undo"} =>
       \A b \in Actors : b # a /\ act[b].photo = p => ~Uploading(b)
  /\ HalfWay(a)'
  /\ \A b \in Actors : b # a /\ act[b].photo = p => HalfWay(b)'
  /\ p \in astray' \/ act'[a].at \in {"save", "key", "undo", "unstore"} \/ Handled(p)'
     \/ (p \in file' <=> Exists(p)')

LEMMA OnePhoto ==
  ASSUME TypeOK, FileInv, NEW a \in Actors, NEW p \in Photos, TouchesOnly(a, p), LeavesInOrder(a, p)
  PROVE  FileInv'
<1> USE DEF TouchesOnly, LeavesInOrder
<1>1. \A b \in Actors : act[b].at # "idle" => act[b].photo \in Photos
  BY Typed DEF At, Process
<1>2. OneUpload'
  <2>1. \A b \in Actors : act'[b].at # "idle" => photo'[act'[b].photo].status # "unused"
    BY <1>1 DEF FileInv, OneUpload
  <2>2. \A b, c \in Actors : b # c /\ Uploading(b)' /\ Uploading(c)' => act'[b].photo # act'[c].photo
    BY <1>1 DEF FileInv, OneUpload, Uploading
  <2>. QED  BY <2>1, <2>2 DEF OneUpload
<1>3. ASSUME NEW b \in Actors, b # a, act[b].photo # p
      PROVE  HalfWay(b)'
  BY <1>1, <1>3 DEF FileInv, HalfWay, Uploading, Exists
<1>4. ASSUME NEW q \in Photos, q # p, q \notin astray', ~Handled(q)'
      PROVE  q \in file' <=> Exists(q)'
  <2>1. ~Handled(q)
    BY <1>1, <1>4 DEF Handled
  <2>. QED  BY <1>4, <2>1 DEF FileInv, FileFollowsRow, Exists
<1>5. FileFollowsRow'
  <2>1. p \notin astray' /\ ~Handled(p)' => (p \in file' <=> Exists(p)')
    BY <1>1 DEF Handled, HalfWay, Uploading
  <2>. QED  BY <1>4, <2>1 DEF FileFollowsRow
<1>. QED  BY <1>2, <1>3, <1>5 DEF FileInv

LEMMA BeginFiles ==
  ASSUME TypeOK, TypeOK', FileInv, NEW a \in Actors, NEW p \in Photos,
         \/ Upload(a, p) \/ Delete(a, p) \/ Choose(a, p)
         \/ Moderate(a, p) \/ AdminReviews(a, p) \/ CronTakes(a, p)
  PROVE  FileInv'
<1>1. ASSUME NEW new, new.at \notin {"save", "key", "undo", "unstore"}, new.photo = p,
             new.at = "delete" => photo[p].key = new.key, act' = [act EXCEPT ![a] = new],
             photo[p].status # "unused", At(a, "idle"), UNCHANGED <<photo, file, astray>>
      PROVE  FileInv'
  BY <1>1, QuietFiles DEF At, Uploading, Exists
<1>2. CASE Upload(a, p)
  <2> DEFINE new == [Idle EXCEPT !.at = "save", !.by = "owner", !.photo = p]
             row == [Unused EXCEPT !.status = "PENDING"]
  <2>1. /\ photo' = [photo EXCEPT ![p] = row] /\ photo[p] = Unused
        /\ act' = [act EXCEPT ![a] = new] /\ act[a].at = "idle"
        /\ file' = file /\ astray' = astray
    BY <1>2 DEF Upload, Begin, At
  <2>2. /\ new.at = "save" /\ new.photo = p
        /\ row.status = "PENDING" /\ row.key = FALSE /\ Unused.status = "unused"
    BY DEF Idle, Unused
  <2>3. /\ photo'[p] = row /\ \A q \in Photos : q # p => photo'[q] = photo[q]
        /\ act'[a] = new /\ \A b \in Actors : b # a => act'[b] = act[b]
    BY <2>1 DEF TypeOK
  <2> HIDE DEF new, row
  <2>4. ASSUME NEW b \in Actors, act[b].photo = p
        PROVE  act[b].at = "idle"
    BY <2>1, <2>2, <2>4 DEF FileInv, OneUpload
  <2>5. p \notin astray => p \notin file
    <3>1. ~Handled(p)
      BY <2>4 DEF Handled
    <3>. QED  BY <2>1, <2>2, <3>1 DEF FileInv, FileFollowsRow, Exists, Statuses, Undecided, Decided
  <2>6. HalfWay(a)'
    BY <2>1, <2>2, <2>3, <2>5 DEF HalfWay, Uploading, Exists, Statuses, Undecided
  <2>7. \A b \in Actors : b # a /\ act[b].photo = p => HalfWay(b)'
    BY <2>3, <2>4 DEF HalfWay, Uploading
  <2>8. TouchesOnly(a, p)
    BY <2>1, <2>2, <2>3, <2>4, <2>6, <2>7 DEF TouchesOnly, Uploading
  <2>9. LeavesInOrder(a, p)
    BY <2>1, <2>2, <2>3, <2>4, <2>6, <2>7 DEF LeavesInOrder, Uploading
  <2>. QED  BY <1>1, <2>8, <2>9, OnePhoto
<1>3. CASE Delete(a, p)
  <2> DEFINE new == [Idle EXCEPT !.at = "delete", !.by = "owner", !.photo = p,
                                 !.saw = photo[p].primary, !.key = photo[p].key]
  <2>1. new.at = "delete" /\ new.photo = p /\ new.key = photo[p].key
    BY DEF Idle
  <2>2. photo[p].status # "unused"
    BY <1>3 DEF Delete, Exists, Statuses, Undecided, Decided
  <2>3. act' = [act EXCEPT ![a] = new] /\ At(a, "idle") /\ UNCHANGED <<photo, file, astray>>
    BY <1>3 DEF Delete
  <2> HIDE DEF new
  <2>. QED  BY <1>1, <2>1, <2>2, <2>3
<1>4. CASE Choose(a, p)
  <2> DEFINE new == [Idle EXCEPT !.at = "primary", !.by = "owner", !.photo = p]
  <2>1. new.at = "primary" /\ new.photo = p
    BY DEF Idle
  <2>2. act' = [act EXCEPT ![a] = new] /\ At(a, "idle") /\ UNCHANGED <<photo, file, astray>>
        /\ photo[p].status # "unused"
    BY <1>4 DEF Choose, Begin
  <2> HIDE DEF new
  <2>. QED  BY <1>1, <2>1, <2>2
<1>5. ASSUME NEW by, NEW verdict, Review(a, by, p, verdict), photo[p].status # "unused"
      PROVE  FileInv'
  <2> DEFINE new == [Idle EXCEPT !.at = DecideNext(verdict), !.by = by, !.photo = p,
                                 !.verdict = verdict]
  <2>1. new.at \in {"find", "write"} /\ new.photo = p
    BY DEF Idle, DecideNext
  <2>2. act' = [act EXCEPT ![a] = new] /\ At(a, "idle") /\ UNCHANGED <<photo, file, astray>>
    BY <1>5 DEF Review
  <2> HIDE DEF new
  <2>. QED  BY <1>1, <1>5, <2>1, <2>2
<1>6. CASE Moderate(a, p)
  BY <1>5, <1>6 DEF Moderate
<1>7. CASE AdminReviews(a, p)
  BY <1>5, <1>7 DEF AdminReviews, Undecided
<1>8. CASE CronTakes(a, p)
  BY <1>5, <1>8 DEF CronTakes, FlagStuck, SlaApprove
<1>. QED  BY <1>2, <1>3, <1>4, <1>6, <1>7, <1>8

LEMMA ContinueFiles ==
  ASSUME TypeOK, TypeOK', FileInv, NEW a \in Actors, act[a] \in Process, act[a].at # "idle",
         NEW p \in Photos, act[a].photo = p, Continue(a) \/ Stop(a)
  PROVE  FileInv'
<1>1. act[a].at # "idle" /\ act[a] \in Process /\ p \in Photos
  OBVIOUS
<1>2. /\ photo[p].status # "unused"
      /\ \A b \in Actors : b # a /\ Uploading(a) /\ Uploading(b) => act[b].photo # p
      /\ \A b \in Actors : HalfWay(b)
  BY <1>1 DEF FileInv, OneUpload
<1>3. ASSUME NEW step, Goto(a, step)
      PROVE  \E new : /\ act' = [act EXCEPT ![a] = new] /\ new.at = step /\ new.photo = p
                      /\ new.key = act[a].key
  <2> DEFINE new == [act[a] EXCEPT !.at = step]
  <2>1. act' = [act EXCEPT ![a] = new]
    BY <1>3 DEF Goto, TypeOK
  <2>2. new.at = step /\ new.photo = p /\ new.key = act[a].key
    BY <1>1 DEF Process
  <2> HIDE DEF new
  <2>. QED  BY <2>1, <2>2
<1>4. ASSUME Leave(a)
      PROVE  \E new : act' = [act EXCEPT ![a] = new] /\ new.at = "idle"
  <2>1. Idle.at = "idle"
    BY DEF Idle
  <2>. QED  BY <1>4, <2>1 DEF Leave
<1>5. ASSUME NEW new, act' = [act EXCEPT ![a] = new]
      PROVE  act'[a] = new /\ \A b \in Actors : b # a => act'[b] = act[b]
  BY <1>5 DEF TypeOK
\* Steps that go on with neither an upload nor a deletion.
<1>6. ASSUME NEW new, act' = [act EXCEPT ![a] = new],
             new.at \notin {"save", "key", "undo", "unstore", "delete"},
             new.at # "idle" => new.photo \in Photos /\ photo[new.photo].status # "unused",
             UNCHANGED <<photo, file>>, astray \subseteq astray',
             Uploading(a) \/ act[a].at = "unstore" => p \in astray'
      PROVE  FileInv'
  BY <1>6, QuietFiles DEF Exists
<1>7. CASE SaveFile(a)
  <2>1. act[a].at = "save" /\ file' = file \cup {p} /\ UNCHANGED <<photo, astray>> /\ Goto(a, "key")
    BY <1>7 DEF SaveFile, At
  <2>2. PICK new : act' = [act EXCEPT ![a] = new] /\ new.at = "key" /\ new.photo = p
    BY <1>3, <2>1
  <2>3. HalfWay(a)'
    BY <1>2, <1>5, <2>1, <2>2 DEF HalfWay, Uploading, Exists
  <2>4. ASSUME NEW b \in Actors, b # a, act[b].photo = p
        PROVE  HalfWay(b)' /\ ~Uploading(b)
    BY <1>2, <1>5, <2>1, <2>2, <2>4 DEF HalfWay, Uploading, Exists
  <2>5. TouchesOnly(a, p)
    BY <1>1, <1>5, <1>2, <2>1, <2>2, <2>3, <2>4 DEF TouchesOnly
  <2>6. LeavesInOrder(a, p)
    BY <1>1, <1>5, <1>2, <2>1, <2>2, <2>3, <2>4 DEF LeavesInOrder
  <2>. QED  BY <1>1, <2>5, <2>6, OnePhoto
<1>8. CASE SaveFails(a)
  <2>1. act[a].at = "save" /\ UNCHANGED <<photo, file, astray>> /\ Goto(a, "undo")
    BY <1>8 DEF SaveFails, At
  <2>2. PICK new : act' = [act EXCEPT ![a] = new] /\ new.at = "undo" /\ new.photo = p
    BY <1>3, <2>1
  <2>3. HalfWay(a)'
    BY <1>2, <1>5, <2>1, <2>2 DEF HalfWay, Uploading, Exists
  <2>4. ASSUME NEW b \in Actors, b # a, act[b].photo = p
        PROVE  HalfWay(b)' /\ ~Uploading(b)
    BY <1>2, <1>5, <2>1, <2>2, <2>4 DEF HalfWay, Uploading, Exists
  <2>5. TouchesOnly(a, p)
    BY <1>1, <1>5, <1>2, <2>1, <2>2, <2>3, <2>4 DEF TouchesOnly
  <2>6. LeavesInOrder(a, p)
    BY <1>1, <1>5, <1>2, <2>1, <2>2, <2>3, <2>4 DEF LeavesInOrder
  <2>. QED  BY <1>1, <2>5, <2>6, OnePhoto
<1>9. CASE SetKey(a)
  <2>1. act[a].at = "key" /\ UNCHANGED <<file, astray>>
    BY <1>9 DEF SetKey, At
  <2>2. CASE Exists(p) /\ photo' = [photo EXCEPT ![p].key = TRUE] /\ Goto(a, "enqueue")
    <3>1. photo' = [photo EXCEPT ![p] = [photo[p] EXCEPT !.key = TRUE]] /\ Goto(a, "enqueue")
      BY <1>1, <2>2 DEF TypeOK
    <3>2. /\ photo'[p].status = photo[p].status /\ photo'[p].key = TRUE
          /\ \A q \in Photos : q # p => photo'[q] = photo[q]
      <4>1. /\ [photo[p] EXCEPT !.key = TRUE].status = photo[p].status
            /\ [photo[p] EXCEPT !.key = TRUE].key = TRUE
        BY <2>2, <1>1, Typed DEF Row
      <4>. QED  BY <1>1, <3>1, <4>1 DEF TypeOK
    <3>3. PICK new : act' = [act EXCEPT ![a] = new] /\ new.at = "enqueue" /\ new.photo = p
      BY <1>3, <3>1
    <3>4. HalfWay(a)' /\ act'[a].at = "enqueue"
      BY <1>5, <3>3 DEF HalfWay, Uploading
    <3>5. ASSUME NEW b \in Actors, b # a, act[b].photo = p
          PROVE  HalfWay(b)' /\ ~Uploading(b)
      BY <1>2, <1>5, <2>1, <3>2, <3>3, <3>5 DEF HalfWay, Uploading, Exists
    <3>6. p \notin astray' => p \in file' /\ Exists(p)'
      BY <1>2, <2>1, <2>2, <3>2 DEF HalfWay, Exists
    <3>7. TouchesOnly(a, p)
      BY <1>1, <1>5, <1>2, <2>1, <3>2, <3>3, <3>4, <3>5, <3>6 DEF TouchesOnly
    <3>8. LeavesInOrder(a, p)
      BY <1>1, <1>5, <1>2, <2>1, <3>2, <3>3, <3>4, <3>5, <3>6 DEF LeavesInOrder
    <3>. QED  BY <1>1, <3>7, <3>8, OnePhoto
  <2>3. CASE photo' = photo /\ Goto(a, "undo")
    <3>1. photo' = photo /\ Goto(a, "undo")
      BY <2>3
    <3>2. PICK new : act' = [act EXCEPT ![a] = new] /\ new.at = "undo" /\ new.photo = p
      BY <1>3, <3>1
    <3>3. HalfWay(a)'
      BY <1>2, <1>5, <2>1, <2>3, <3>1, <3>2 DEF HalfWay, Uploading, Exists
    <3>4. ASSUME NEW b \in Actors, b # a, act[b].photo = p
          PROVE  HalfWay(b)' /\ ~Uploading(b)
      BY <1>2, <1>5, <2>1, <3>1, <3>2, <3>4 DEF HalfWay, Uploading, Exists
    <3>5. TouchesOnly(a, p)
      BY <1>1, <1>5, <1>2, <2>1, <3>1, <3>2, <3>3, <3>4 DEF TouchesOnly
    <3>6. LeavesInOrder(a, p)
      BY <1>1, <1>5, <1>2, <2>1, <3>1, <3>2, <3>3, <3>4 DEF LeavesInOrder
    <3>. QED  BY <1>1, <3>5, <3>6, OnePhoto
  <2>. QED  BY <1>1, <1>9, <2>2, <2>3 DEF SetKey
<1>10. ASSUME photo' = [photo EXCEPT ![p] = Gone]
       PROVE  /\ ~Exists(p)' /\ photo'[p].status # "unused" /\ photo'[p].key = FALSE
              /\ \A q \in Photos : q # p => photo'[q] = photo[q]
  <2>1. Gone.status = "gone" /\ Gone.key = FALSE
    BY DEF Gone, Unused
  <2>. QED  BY <1>1, <1>10, <2>1 DEF TypeOK, Exists, Statuses, Undecided, Decided
<1>11. CASE Undo(a)
  <2>1. /\ act[a].at = "undo" /\ photo' = [photo EXCEPT ![p] = Gone] /\ file' = file /\ Leave(a)
        /\ astray \subseteq astray' /\ (p \in file => p \in astray')
    BY <1>11 DEF Undo, Astray, At
  <2>2. PICK new : act' = [act EXCEPT ![a] = new] /\ new.at = "idle"
    BY <1>4, <2>1
  <2>3. HalfWay(a)'
    BY <1>5, <2>2 DEF HalfWay, Uploading
  <2>4. ASSUME NEW b \in Actors, b # a, act[b].photo = p
        PROVE  HalfWay(b)' /\ ~Uploading(b)
    BY <1>2, <1>5, <1>10, <2>1, <2>2, <2>4 DEF HalfWay, Uploading
  <2>5. TouchesOnly(a, p)
    <3>1. act'[a] = new /\ \A b \in Actors : b # a => act'[b] = act[b]
      BY <1>5, <2>2
    <3>2. photo'[p].status # "unused" /\ \A q \in Photos : q # p => photo'[q] = photo[q]
      BY <1>10, <2>1
    <3>. QED  BY <1>1, <2>1, <2>2, <3>1, <3>2 DEF TouchesOnly
  <2>6. LeavesInOrder(a, p)
    <3>1. act'[a] = new
      BY <1>5, <2>2
    <3>2. p \in astray' \/ (p \in file' <=> Exists(p)')
      BY <1>10, <2>1
    <3>. QED  BY <2>2, <2>3, <2>4, <3>1, <3>2 DEF LeavesInOrder
  <2>. QED  BY <1>1, <2>5, <2>6, OnePhoto
<1>12. CASE Enqueue(a)
  <2>1. act[a].at = "enqueue" /\ UNCHANGED <<photo, file, astray>> /\ Leave(a)
    BY <1>12 DEF Enqueue, At
  <2>. QED  BY <1>4, <1>6, <2>1 DEF Uploading
<1>13. CASE DeleteRow(a)
  <2>1. act[a].at = "delete" /\ file' = file
    BY <1>13 DEF DeleteRow, At
  <2>2. CASE Exists(p)
    <3>1. /\ photo' = [photo EXCEPT ![p] = Gone] /\ Goto(a, "unstore")
          /\ astray \subseteq astray' /\ (act[a].key \/ p \in astray')
      BY <1>13, <2>2 DEF DeleteRow, Astray
    <3>2. PICK new : act' = [act EXCEPT ![a] = new] /\ new.at = "unstore" /\ new.photo = p
      BY <1>3, <3>1
    <3>3. HalfWay(a)'
      BY <1>5, <1>10, <3>1, <3>2 DEF HalfWay, Uploading
    <3>4. ASSUME NEW b \in Actors, b # a, act[b].photo = p
          PROVE  HalfWay(b)'
      <4>1. p \notin astray' => ~Uploading(b)
        BY <1>2, <2>1, <2>2, <3>1, <3>4 DEF HalfWay
      <4>. QED  BY <1>5, <1>10, <3>1, <3>2, <3>4, <4>1 DEF HalfWay, Uploading
    <3>5. TouchesOnly(a, p)
      <4>1. act'[a] = new /\ \A b \in Actors : b # a => act'[b] = act[b]
        BY <1>5, <3>2
      <4>2. photo'[p].status # "unused" /\ \A q \in Photos : q # p => photo'[q] = photo[q]
        BY <1>10, <3>1
      <4>. QED  BY <1>1, <2>1, <3>1, <3>2, <4>1, <4>2 DEF TouchesOnly
    <3>6. LeavesInOrder(a, p)
      BY <1>1, <1>5, <1>10, <2>1, <3>1, <3>2, <3>3, <3>4 DEF LeavesInOrder
    <3>. QED  BY <1>1, <3>5, <3>6, OnePhoto
  <2>3. CASE ~Exists(p)
    <3>1. UNCHANGED <<photo, astray>> /\ Leave(a)
      BY <1>13, <2>3 DEF DeleteRow
    <3>. QED  BY <1>4, <1>6, <2>1, <3>1 DEF Uploading
  <2>. QED  BY <2>2, <2>3
<1>14. CASE DeleteFile(a)
  <2>1. /\ act[a].at = "unstore" /\ photo' = photo /\ astray \subseteq astray'
        /\ file' \subseteq file /\ file \ {p} \subseteq file' /\ (p \notin file' \/ p \in astray')
        /\ (Goto(a, "promote") \/ Leave(a))
    BY <1>14 DEF DeleteFile, Astray, At
  <2>2. PICK new : /\ act' = [act EXCEPT ![a] = new]
                   /\ new.at = "idle" \/ (new.at = "promote" /\ new.photo = p)
    BY <1>3, <1>4, <2>1
  <2>3. HalfWay(a)'
    BY <1>5, <2>2 DEF HalfWay, Uploading
  <2>4. ASSUME NEW b \in Actors, b # a, act[b].photo = p
        PROVE  HalfWay(b)'
    BY <1>2, <1>5, <2>1, <2>2, <2>4 DEF HalfWay, Uploading, Exists
  <2>5. p \notin astray' => ~Exists(p)'
    BY <1>2, <2>1 DEF HalfWay, Exists
  <2>6. TouchesOnly(a, p)
    <3>1. act'[a] = new /\ \A b \in Actors : b # a => act'[b] = act[b]
      BY <1>5, <2>2
    <3>2. \A q \in Photos : q # p => (q \in file' <=> q \in file)
      BY <2>1
    <3>. QED  BY <1>1, <1>2, <2>1, <2>2, <3>1, <3>2 DEF TouchesOnly
  <2>7. LeavesInOrder(a, p)
    BY <1>1, <1>5, <1>2, <2>1, <2>2, <2>3, <2>4, <2>5 DEF LeavesInOrder
  <2>. QED  BY <1>1, <2>6, <2>7, OnePhoto
<1>15. CASE FindPromoted(a)
  <2>1. act[a].at = "promote" /\ UNCHANGED <<photo, file, astray>>
    BY <1>15 DEF FindPromoted, At
  <2>2. CASE Leave(a)
    BY <1>4, <1>6, <2>1, <2>2 DEF Uploading
  <2>3. ASSUME NEW q \in Approved, act' = [act EXCEPT ![a].at = "primary", ![a].photo = q]
        PROVE  FileInv'
    <3> DEFINE new == [act[a] EXCEPT !.at = "primary", !.photo = q]
    <3>1. act' = [act EXCEPT ![a] = new]
      BY <2>3 DEF TypeOK
    <3>2. new.at = "primary" /\ new.photo = q
      BY <1>1 DEF Process
    <3> HIDE DEF new
    <3>. QED  BY <1>6, <2>1, <3>1, <3>2 DEF Approved, Uploading
  <2>. QED  BY <1>15, <2>2, <2>3 DEF FindPromoted
<1>16. CASE SetPrimary(a)
  <2>1. act[a].at = "primary" /\ UNCHANGED <<file, astray>> /\ Leave(a)
    BY <1>16 DEF SetPrimary, At
  <2>2. \A q \in Photos : photo'[q].status = photo[q].status /\ photo'[q].key = photo[q].key
    <3>1. \A q \in Photos : photo[q] \in AnyRow
      BY Typed, Absent DEF Row, AnyRow
    <3>2. CASE Exists(p)
      <4>1. photo' = [q \in Photos |-> [photo[q] EXCEPT !.primary = q = p]]
        BY <1>16, <3>2 DEF SetPrimary
      <4>. QED  BY <3>1, <4>1 DEF AnyRow
    <3>3. CASE ~Exists(p)
      BY <1>16, <3>3 DEF SetPrimary
    <3>. QED  BY <3>2, <3>3
  <2>3. PICK new : act' = [act EXCEPT ![a] = new] /\ new.at = "idle"
    BY <1>4, <2>1
  <2>. QED  BY <2>1, <2>2, <2>3, QuietFiles DEF Exists, Uploading
<1>17. CASE FindPrimary(a)
  <2> DEFINE new == [act[a] EXCEPT !.at = "write", !.saw = Approved \cap Primary # {}]
  <2>1. act[a].at = "find" /\ UNCHANGED <<photo, file, astray>>
    BY <1>17 DEF FindPrimary, At
  <2>2. act' = [act EXCEPT ![a] = new]
    BY <1>17 DEF FindPrimary, TypeOK
  <2>3. new.at = "write" /\ new.photo = p
    BY <1>1 DEF Process
  <2> HIDE DEF new
  <2>. QED  BY <1>1, <1>2, <1>6, <2>1, <2>2, <2>3 DEF Uploading
<1>18. CASE Write(a)
  <2> DEFINE v == act[a].verdict
             row == [photo[p] EXCEPT !.status = NewStatus(v),
                                     !.primary = (v = "APPROVED" /\ ~act[a].saw),
                                     !.soft = (v = "SOFT")]
  <2>1. act[a].at = "write" /\ UNCHANGED <<file, astray>> /\ Leave(a)
    BY <1>18 DEF Write, At
  <2>2. PICK new : act' = [act EXCEPT ![a] = new] /\ new.at = "idle"
    BY <1>4, <2>1
  <2>3. CASE Exists(p) /\ photo[p].status \in Expected(a)
    <3>1. photo' = [photo EXCEPT ![p] = row]
      BY <1>1, <1>18, <2>3 DEF Write, TypeOK
    <3>2. row.status \in Statuses /\ row.key = photo[p].key
      BY <1>1, <2>3, Typed DEF Row, NewStatus, Statuses, Decided, Undecided
    <3>3. photo'[p] = row /\ \A q \in Photos : q # p => photo'[q] = photo[q]
      BY <1>1, <3>1 DEF TypeOK
    <3> HIDE DEF row
    <3>4. \A q \in Photos : /\ Exists(q)' <=> Exists(q)
                            /\ photo'[q].key = photo[q].key
                            /\ photo[q].status # "unused" => photo'[q].status # "unused"
      BY <2>3, <3>2, <3>3 DEF Exists, Statuses, Undecided, Decided
    <3>. QED  BY <2>1, <2>2, <3>4, QuietFiles DEF Uploading
  <2>4. CASE ~(Exists(p) /\ photo[p].status \in Expected(a))
    <3>1. photo' = photo
      BY <1>18, <2>4 DEF Write
    <3>. QED  BY <1>6, <2>1, <2>2, <3>1 DEF Uploading
  <2>. QED  BY <2>3, <2>4
<1>19. CASE Stop(a)
  <2>1. /\ UNCHANGED <<photo, file>> /\ Leave(a) /\ astray \subseteq astray'
        /\ act[a].at \in {"save", "key", "undo", "unstore"} => p \in astray'
    BY <1>19 DEF Stop, Astray
  <2>. QED  BY <1>4, <1>6, <2>1 DEF Uploading
<1>. QED
  BY <1>7, <1>8, <1>9, <1>11, <1>12, <1>13, <1>14, <1>15, <1>16, <1>17, <1>18, <1>19 DEF Continue

LEMMA FileStep ==
  ASSUME TypeOK, TypeOK', FileInv, [Next]_vars
  PROVE  FileInv'
<1>1. ASSUME UNCHANGED <<photo, file, act, astray>>
      PROVE  FileInv'
  BY <1>1 DEF FileInv, FileFollowsRow, OneUpload, HalfWay, Uploading, Exists, Handled
<1>2. ASSUME NEW p \in Photos, DropJob(p) \/ GrowOld(p)
      PROVE  FileInv'
  BY <1>1, <1>2 DEF DropJob, GrowOld
<1>3. CASE UNCHANGED vars
  BY <1>1, <1>3 DEF vars
<1>4. ASSUME NEW a \in Actors, Continue(a) \/ Stop(a)
      PROVE  FileInv'
  <2>1. ~At(a, "idle")
    BY <1>4 DEF Continue, SaveFile, SaveFails, SetKey, Undo, Enqueue, DeleteRow, DeleteFile,
       FindPromoted, SetPrimary, FindPrimary, Write, Stop, At
  <2>2. act[a] \in Process /\ act[a].at # "idle" /\ act[a].photo \in Photos
    BY <2>1, Typed DEF Process, At
  <2>. QED  BY <1>4, <2>2, ContinueFiles
<1>. QED  BY <1>2, <1>3, <1>4, BeginFiles DEF Next

----------------------------------------------------------------------------
(* Decisions.                                                              *)

\* Only a write changes the status of a decided photo that stays, and only an admin's
\* applies to a decided one.
LEMMA DecisionStep ==
  ASSUME TypeOK, [Next]_vars, NEW p \in Photos,
         photo[p].status \in Decided, photo'[p].status \in Statuses \ {photo[p].status}
  PROVE  \E a \in Actors : At(a, "write") /\ act[a].by = "admin" /\ act[a].photo = p
<1>1. photo' # photo
  OBVIOUS
<1>2. ASSUME NEW a \in Actors, NEW q \in Photos, photo' = [photo EXCEPT ![q] = Gone]
      PROVE  FALSE
  <2>1. Gone.status \notin Statuses
    BY DEF Gone, Unused, Statuses, Undecided, Decided
  <2>. QED  BY <1>2, <2>1 DEF TypeOK
<1>3. ASSUME NEW a \in Actors, NEW q \in Photos, Upload(a, q)
      PROVE  FALSE
  <2>1. photo[q].status \notin Decided
    BY <1>3 DEF Upload, Unused, Decided
  <2>. QED  BY <1>3, <2>1 DEF Upload, TypeOK
<1>4. ASSUME NEW a \in Actors, SetKey(a)
      PROVE  FALSE
  <2>1. photo' = [photo EXCEPT ![act[a].photo].key = TRUE]
    BY <1>1, <1>4 DEF SetKey
  <2>2. Exists(p) /\ photo[p] \in Row
    BY Typed DEF Exists, Statuses
  <2>. QED  BY <2>1, <2>2 DEF TypeOK, Row
<1>5. ASSUME NEW a \in Actors, SetPrimary(a)
      PROVE  FALSE
  <2>1. photo' = [q \in Photos |-> [photo[q] EXCEPT !.primary = q = act[a].photo]]
    BY <1>1, <1>5 DEF SetPrimary
  <2>2. photo[p] \in Row
    BY Typed DEF Exists, Statuses
  <2>. QED  BY <2>1, <2>2 DEF Row
<1>6. ASSUME NEW a \in Actors, Undo(a) \/ DeleteRow(a)
      PROVE  FALSE
  <2>1. photo' = [photo EXCEPT ![act[a].photo] = Gone]
    BY <1>1, <1>6 DEF Undo, DeleteRow
  <2>2. act[a].photo \in Photos
    <3>1. ~At(a, "idle")
      BY <1>6 DEF Undo, DeleteRow, At
    <3>. QED  BY <3>1, Typed DEF Process
  <2>. QED  BY <1>2, <2>1, <2>2
<1>7. ASSUME NEW a \in Actors, Write(a)
      PROVE  At(a, "write") /\ act[a].by = "admin" /\ act[a].photo = p
  <2> DEFINE q == act[a].photo
             v == act[a].verdict
             row == [photo[q] EXCEPT !.status = NewStatus(v),
                                     !.primary = (v = "APPROVED" /\ ~act[a].saw),
                                     !.soft = (v = "SOFT")]
  <2>1. At(a, "write") /\ photo[q].status \in Expected(a)
    BY <1>1, <1>7 DEF Write
  <2>2. photo' = [photo EXCEPT ![q] = row]
    BY <1>1, <1>7, Zenon DEF Write
  <2> HIDE DEF row
  <2>3. q = p
    BY <2>2 DEF TypeOK
  <2>4. act[a].by = "admin"
    BY <2>1, <2>3 DEF Expected, Decided
  <2>. QED  BY <2>1, <2>3, <2>4
<1>8. ASSUME NEW a \in Actors, Continue(a) \/ Stop(a)
      PROVE  Write(a)
  BY <1>1, <1>4, <1>5, <1>6, <1>8 DEF Continue, Stop, SaveFile, SaveFails, Enqueue, DeleteFile,
     FindPromoted, FindPrimary
<1>9. \A a \in Actors, q \in Photos :
        ~(Delete(a, q) \/ Choose(a, q) \/ Moderate(a, q) \/ AdminReviews(a, q) \/ CronTakes(a, q))
  BY <1>1 DEF Delete, Choose, Moderate, AdminReviews, CronTakes, FlagStuck, SlaApprove, Review
<1>10. \A q \in Photos : ~(DropJob(q) \/ GrowOld(q))
  BY <1>1 DEF DropJob, GrowOld
<1>. QED  BY <1>1, <1>3, <1>7, <1>8, <1>9, <1>10 DEF Next, vars

----------------------------------------------------------------------------

\* Every reachable state satisfies the three invariants.
LEMMA Invariance == Spec => [](TypeOK /\ OnePrimary /\ FileInv)
<1>1. Init => TypeOK /\ OnePrimary /\ FileInv
  <2>1. ASSUME Init
        PROVE  TypeOK
    <3>1. photo \in [Photos -> Row \cup {Unused, Gone}] /\ age \in [Photos -> Ages]
      BY <2>1 DEF Init, Ages
    <3>2. /\ file \subseteq Photos /\ jobs \subseteq Photos /\ astray \subseteq Photos
          /\ misled \in BOOLEAN
      BY <2>1 DEF Init
    <3>3. act \in [Actors -> {Idle} \cup Process]
      BY <2>1 DEF Init
    <3>. QED  BY <3>1, <3>2, <3>3 DEF TypeOK, Process
  <2>2. ASSUME Init
        PROVE  OnePrimary /\ FileInv
    <3>1. Unused.status = "unused" /\ Unused.primary = FALSE /\ Idle.at = "idle"
      BY DEF Unused, Idle
    <3>2. /\ \A p \in Photos : photo[p].status = "unused" /\ photo[p].primary = FALSE
          /\ \A a \in Actors : act[a].at = "idle"
          /\ file = {}
      BY <2>2, <3>1 DEF Init
    <3>3. OnePrimary
      BY <3>2 DEF OnePrimary, Primary, Approved
    <3>4. FileInv
      BY <3>2 DEF FileInv, FileFollowsRow, OneUpload, HalfWay, Uploading, Exists, Statuses,
         Undecided, Decided
    <3>. QED  BY <3>3, <3>4
  <2>. QED  BY <2>1, <2>2
<1>2. TypeOK /\ OnePrimary /\ FileInv /\ [Next]_vars => TypeOK' /\ OnePrimary' /\ FileInv'
  BY TypeStep, PrimaryStep, FileStep
<1>. QED  BY <1>1, <1>2, PTL DEF Spec

\* The types of rows, files, jobs and processes; a row that is not there has no flags.
THEOREM TypeCorrect == Spec => []TypeOK
BY Invariance, PTL

\* However uploads, deletions, choices and decisions interleave, there is one primary
\* photo, an approved one, as soon as any is approved, but for the recorded races.
THEOREM OnePrimaryPhoto == Spec => []OnePrimary
BY Invariance, PTL

\* A photo's file is stored as long as its row is, and no longer, but for the recorded
\* failures and races.
THEOREM FilesFollowRows == Spec => []FileFollowsRow
<1>1. FileInv => FileFollowsRow
  BY DEF FileInv
<1>. QED  BY <1>1, Invariance, PTL

\* No job and no cron ever changes a decision: only an admin does.
THEOREM DecisionsStand == Spec => DecisionStands
<1> DEFINE Stands == \A p \in Photos :
             photo[p].status \in Decided /\ photo'[p].status \in Statuses \ {photo[p].status}
             => \E a \in Actors : At(a, "write") /\ act[a].by = "admin" /\ act[a].photo = p
<1>1. TypeOK /\ [Next]_vars => [Stands]_vars
  BY DecisionStep
<1>. QED  BY <1>1, Invariance, PTL DEF Spec, DecisionStands
=============================================================================
