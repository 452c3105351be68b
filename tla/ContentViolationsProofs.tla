------------------------ MODULE ContentViolationsProofs ------------------------
(***************************************************************************)
(* Proofs about ContentViolations, for every number of requests and all    *)
(* limits: the type invariant, that who has struck out is restricted, and  *)
(* that a restriction stands.                                              *)
(*                                                                         *)
(* The one fact that RestrictionStands needs of the past is what a request *)
(* about to reset a mute has read: a mute that had ended, so has still.    *)
(* StruckOut needs to look ahead: a mute covers the violations when it is  *)
(* in force at every later time at which they still call for one.          *)
(***************************************************************************)
EXTENDS ContentViolations, FiniteSetTheorems, TLAPS

Steps == {"idle", "reset", "record", "count", "mute", "recordEdit", "countEdits", "block"}
States == {"ok", "messaging_muted", "profile_edit_blocked"}
RequestState == [at : Steps, saw : States \X (Ends \cup {Null}), counted : 0 .. MaxStrikes,
                 end : Ends \cup {Null}]

\* What a request about to reset has read is a mute that has ended.
Ended(x) == x.at = "reset" => x.saw[1] = "messaging_muted" /\ x.saw[2] # Null /\ x.saw[2] <= now
ResetsExpired == \A r \in Requests : Ended(request[r])

StrikesPast == \A i \in DOMAIN strikes : strikes[i] <= now

\* The violations so far call for a mute at the time.
Struck(time) == Recent(Hour, time) >= HourlyLimit \/ Recent(Day, time) >= DailyLimit

\* A mute with this end is enough for them, and no mute is needed for them, from now on.
Covers(end) ==
  /\ \A time \in Nat : time >= now /\ Struck(time) => Forever(end) \/ end > time
  /\ Len(strikes) >= LifetimeLimit => Forever(end)
Clean ==
  /\ \A time \in Nat : time >= now => ~Struck(time)
  /\ Len(strikes) < LifetimeLimit

\* What a request is about to write is enough, unless a violation has come since.
MutesCover ==
  \A r \in Requests : request[r].at = "mute" =>
    /\ request[r].counted <= Len(strikes)
    /\ request[r].counted = Len(strikes) => Covers(request[r].end)

\* What the user's row says is enough once every violation has been counted.
Covered ==
  ~mishap /\ Nobody({"count", "mute"}) =>
    IF status = "messaging_muted" THEN Covers(until) ELSE Clean
Blocked ==
  ~mishap /\ Nobody({"countEdits", "block"}) /\ edits >= ProfileLimit =>
    status = "profile_edit_blocked"

Inv == TypeOK /\ ResetsExpired /\ StrikesPast /\ MutesCover /\ Covered /\ Blocked

----------------------------------------------------------------------------
(* Types.                                                                  *)

\* The bounds are numbers, and the end of a mute is one of Ends.
LEMMA Bounds ==
  ASSUME TypeOK
  PROVE  /\ MaxTime \in Nat /\ MaxStrikes \in Nat /\ now \in Nat
         /\ now + Hour \in Ends /\ now + Day \in Ends
         /\ Len(strikes) \in 0 .. MaxStrikes
<1>1. MaxTime \in Nat /\ MaxStrikes \in Nat /\ Hour \in Nat \ {0} /\ Day \in Nat \ {0}
  BY LimitsAssumption
<1>2. now \in 0 .. MaxTime
  BY DEF TypeOK
<1>3. Len(strikes) \in 0 .. MaxStrikes
  BY <1>1 DEF TypeOK
<1>. QED  BY <1>1, <1>2, <1>3 DEF Ends

\* A request's change of its own record keeps the type of all.
LEMMA RequestTypes ==
  ASSUME TypeOK, NEW r \in Requests
  PROVE  /\ \A step \in Steps : Goto(r, step) => request' \in [Requests -> RequestState]
         /\ \A step \in Steps : Begin(r, step) => request' \in [Requests -> RequestState]
         /\ Leave(r) => request' \in [Requests -> RequestState]
         /\ \A end \in Ends \cup {Null} : Muting(r, end) => request' \in [Requests -> RequestState]
<1>1. request \in [Requests -> RequestState] /\ request[r] \in RequestState
  BY DEF TypeOK, RequestState, Steps, States
<1>2. Idle \in RequestState
  BY LimitsAssumption DEF Idle, RequestState, Steps, States
<1>3. ASSUME NEW step \in Steps, Begin(r, step)
      PROVE  request' \in [Requests -> RequestState]
  <2>1. fields \in States \X (Ends \cup {Null})
    BY DEF TypeOK, fields, States
  <2>2. [Idle EXCEPT !.at = step, !.saw = fields] \in RequestState
    BY <1>2, <2>1 DEF RequestState
  <2>. QED  BY <1>1, <1>3, <2>2 DEF Begin
<1>4. ASSUME NEW end \in Ends \cup {Null}, Muting(r, end)
      PROVE  request' \in [Requests -> RequestState]
  <2>1. [request[r] EXCEPT !.at = "mute", !.counted = Len(strikes), !.end = end] \in RequestState
    BY <1>1, Bounds DEF RequestState, Steps
  <2>. QED  BY <1>1, <1>4, <2>1 DEF Muting
<1>5. ASSUME NEW step \in Steps, Goto(r, step)
      PROVE  request' \in [Requests -> RequestState]
  <2>1. [request[r] EXCEPT !.at = step] \in RequestState
    BY <1>1 DEF RequestState
  <2>. QED  BY <1>1, <1>5, <2>1 DEF Goto
<1>. QED  BY <1>1, <1>2, <1>3, <1>4, <1>5 DEF Leave

LEMMA TypeParts ==
  ASSUME now' \in 0 .. MaxTime, status' \in States, until' \in Ends \cup {Null},
         strikes' \in Seq(0 .. MaxTime), Len(strikes') <= MaxStrikes, edits' \in 0 .. MaxStrikes,
         request' \in [Requests -> RequestState], mishap' \in BOOLEAN
  PROVE  TypeOK'
BY DEF TypeOK, RequestState, Steps, States

LEMMA TypeStep ==
  ASSUME TypeOK, [Next]_vars
  PROVE  TypeOK'
<1>1. /\ now \in 0 .. MaxTime /\ status \in States /\ until \in Ends \cup {Null}
      /\ strikes \in Seq(0 .. MaxTime) /\ Len(strikes) <= MaxStrikes /\ edits \in 0 .. MaxStrikes
      /\ request \in [Requests -> RequestState] /\ mishap \in BOOLEAN
  BY DEF TypeOK, RequestState, Steps, States
<1>2. ASSUME NEW happens, Mishap(happens)
      PROVE  mishap' \in BOOLEAN
  BY <1>2 DEF Mishap
<1> USE DEF fields
<1>3. ASSUME NEW r \in Requests, CheckMessage(r) \/ CheckEdit(r) \/ CountEdits(r)
      PROVE  TypeOK'
  <2>1. request' \in [Requests -> RequestState]
    BY <1>3, RequestTypes DEF CheckMessage, CheckEdit, CountEdits, Steps
  <2>. QED  BY <1>1, <1>3, <2>1, TypeParts DEF CheckMessage, CheckEdit, CountEdits
<1>4. ASSUME NEW r \in Requests, Reset(r)
      PROVE  TypeOK'
  <2>1. request' \in [Requests -> RequestState]
    BY <1>4, RequestTypes DEF Reset, Steps
  <2>. QED  BY <1>1, <1>2, <1>4, <2>1, TypeParts DEF Reset, States
<1>5. ASSUME NEW r \in Requests, Record(r)
      PROVE  TypeOK'
  <2>1. request' \in [Requests -> RequestState]
    BY <1>5, RequestTypes DEF Record, Steps
  <2>2. strikes' \in Seq(0 .. MaxTime) /\ Len(strikes') <= MaxStrikes
    BY <1>1, <1>5, LimitsAssumption DEF Record
  <2>. QED  BY <1>1, <1>5, <2>1, <2>2, TypeParts DEF Record
<1>6. ASSUME NEW r \in Requests, Count(r)
      PROVE  TypeOK'
  <2>1. request' \in [Requests -> RequestState]
    BY <1>6, RequestTypes, Bounds DEF Count
  <2>. QED  BY <1>1, <1>6, <2>1, TypeParts DEF Count
<1>7. ASSUME NEW r \in Requests, Mute(r)
      PROVE  TypeOK'
  <2>1. request' \in [Requests -> RequestState] /\ mishap' \in BOOLEAN
    BY <1>2, <1>7, RequestTypes DEF Mute
  <2>2. status' \in States /\ until' \in Ends \cup {Null}
    BY <1>1, <1>7 DEF Mute, States, RequestState
  <2>. QED  BY <1>1, <1>7, <2>1, <2>2, TypeParts DEF Mute
<1>8. ASSUME NEW r \in Requests, RecordEdit(r)
      PROVE  TypeOK'
  <2>1. request' \in [Requests -> RequestState]
    BY <1>8, RequestTypes DEF RecordEdit, Steps
  <2>2. edits' \in 0 .. MaxStrikes
    BY <1>1, <1>8, LimitsAssumption DEF RecordEdit
  <2>. QED  BY <1>1, <1>8, <2>1, <2>2, TypeParts DEF RecordEdit
<1>9. ASSUME NEW r \in Requests, Block(r)
      PROVE  TypeOK'
  <2>1. request' \in [Requests -> RequestState] /\ mishap' \in BOOLEAN
    BY <1>2, <1>9, RequestTypes DEF Block
  <2>. QED  BY <1>1, <1>9, <2>1, TypeParts DEF Block, States
<1>10. ASSUME NEW r \in Requests, Stop(r)
       PROVE  TypeOK'
  <2>1. request' \in [Requests -> RequestState] /\ mishap' \in BOOLEAN
    BY <1>2, <1>10, RequestTypes DEF Stop
  <2>. QED  BY <1>1, <1>10, <2>1, TypeParts DEF Stop
<1>11. CASE ClearExpired
  BY <1>1, <1>11, TypeParts DEF ClearExpired, States
<1>12. CASE Unblock
  BY <1>1, <1>2, <1>12, TypeParts DEF Unblock, States
<1>13. CASE Tick
  <2>1. now' \in 0 .. MaxTime
    BY <1>1, <1>13, LimitsAssumption DEF Tick
  <2>. QED  BY <1>1, <1>13, <2>1, TypeParts DEF Tick
<1>14. CASE UNCHANGED vars
  BY <1>1, <1>14, TypeParts DEF vars
<1>. QED
  BY <1>3, <1>4, <1>5, <1>6, <1>7, <1>8, <1>9, <1>10, <1>11, <1>12, <1>13, <1>14 DEF Next

----------------------------------------------------------------------------
(* Restrictions.                                                           *)

\* What has ended has ended for good.
LEMMA TimePasses ==
  ASSUME TypeOK, [Next]_vars
  PROVE  /\ now \in Nat /\ now' \in Nat /\ now <= now'
         /\ Ends \cup {Null} \subseteq Nat
<1>1. now \in Nat /\ Ends \cup {Null} \subseteq Nat
  BY LimitsAssumption DEF TypeOK, Ends, Null
<1>2. now' = now \/ now' = now + 1
  BY DEF Next, vars, fields, CheckMessage, Reset, Record, Count, Mute, CheckEdit, RecordEdit,
     CountEdits, Block, Stop, ClearExpired, Unblock, Tick
<1>. QED  BY <1>1, <1>2

\* A step keeps ResetsExpired when the request it moves, if any, does.
LEMMA OneRequest ==
  ASSUME Inv, [Next]_vars, NEW r \in Requests, NEW x, request' = [request EXCEPT ![r] = x], Ended(x)'
  PROVE  ResetsExpired'
<1>1. request \in [Requests -> RequestState]
  BY DEF Inv, TypeOK, RequestState, Steps, States
<1>2. ASSUME NEW q \in Requests, q # r
      PROVE  Ended(request[q])'
  <2>1. request'[q] = request[q] /\ request[q].saw[2] \in Ends \cup {Null}
    BY <1>1, <1>2 DEF RequestState
  <2>2. Ended(request[q])
    BY DEF Inv, ResetsExpired
  <2>. QED  BY <2>1, <2>2, TimePasses DEF Inv, Ended
<1>3. request'[r] = x
  BY <1>1
<1>. QED  BY <1>2, <1>3 DEF ResetsExpired, Ended

LEMMA ResetsStep ==
  ASSUME Inv, [Next]_vars
  PROVE  ResetsExpired'
<1>1. request \in [Requests -> RequestState]
  BY DEF Inv, TypeOK, RequestState, Steps, States
<1>2. ASSUME NEW r \in Requests, NEW step, step # "reset", Goto(r, step)
      PROVE  ResetsExpired'
  <2>1. request' = [request EXCEPT ![r] = [request[r] EXCEPT !.at = step]]
    BY <1>1, <1>2 DEF Goto
  <2>2. [request[r] EXCEPT !.at = step].at # "reset"
    BY <1>1, <1>2 DEF RequestState
  <2>. QED  BY <2>1, <2>2, OneRequest DEF Ended
<1>3. ASSUME NEW r \in Requests, Leave(r)
      PROVE  ResetsExpired'
  <2>1. Idle.at # "reset"
    BY DEF Idle
  <2>. QED  BY <1>3, <2>1, OneRequest DEF Leave, Ended
<1>4. ASSUME NEW r \in Requests, NEW step, Begin(r, step),
             step = "reset" => status = "messaging_muted" /\ Expired(until) /\ now' = now
      PROVE  ResetsExpired'
  <2> DEFINE x == [Idle EXCEPT !.at = step, !.saw = fields]
  <2>1. request' = [request EXCEPT ![r] = x]
    BY <1>4 DEF Begin
  <2>2. x.at = step /\ x.saw[1] = status /\ x.saw[2] = until
    BY DEF Idle, fields
  <2> HIDE DEF x
  <2>. QED  BY <1>4, <2>1, <2>2, OneRequest DEF Ended, Expired, Forever
<1>5. ASSUME NEW r \in Requests, NEW end, Muting(r, end)
      PROVE  ResetsExpired'
  <2> DEFINE x == [request[r] EXCEPT !.at = "mute", !.counted = Len(strikes), !.end = end]
  <2>1. request' = [request EXCEPT ![r] = x]
    BY <1>1, <1>5 DEF Muting
  <2>2. x.at = "mute"
    BY <1>1 DEF RequestState
  <2> HIDE DEF x
  <2>. QED  BY <2>1, <2>2, OneRequest DEF Ended
<1>6. ASSUME request' = request
      PROVE  ResetsExpired'
  <2>1. ASSUME NEW q \in Requests
        PROVE  Ended(request[q])'
    <3>1. request[q].saw[2] \in Ends \cup {Null} /\ Ended(request[q])
      BY <1>1 DEF RequestState, Inv, ResetsExpired
    <3>. QED  BY <1>6, <3>1, TimePasses DEF Inv, Ended
  <2>. QED  BY <2>1 DEF ResetsExpired
<1>7. ASSUME NEW r \in Requests, CheckMessage(r) \/ Reset(r) \/ Record(r) \/ Count(r) \/ Mute(r)
      PROVE  ResetsExpired'
  BY <1>2, <1>3, <1>4, <1>5, <1>7 DEF CheckMessage, Reset, Record, Count, Mute
<1>8. ASSUME NEW r \in Requests, CheckEdit(r) \/ RecordEdit(r) \/ CountEdits(r) \/ Block(r) \/ Stop(r)
      PROVE  ResetsExpired'
  BY <1>2, <1>3, <1>4, <1>8 DEF CheckEdit, RecordEdit, CountEdits, Block, Stop
<1>9. CASE ClearExpired \/ Unblock \/ Tick
  BY <1>6, <1>9 DEF ClearExpired, Unblock, Tick
<1>. QED  BY <1>6, <1>7, <1>8, <1>9 DEF Next, vars

\* A step without a mishap lifts no mute before its end, and no block.
LEMMA StandsStep ==
  ASSUME Inv, [Next]_vars, ~mishap'
  PROVE  /\ Muted => Muted' \/ (~Forever(until) /\ until <= now')
         /\ status = "profile_edit_blocked" => status' = "profile_edit_blocked"
<1>1. now \in Nat /\ until \in Ends \cup {Null} /\ Ends \cup {Null} \subseteq Nat
  BY TimePasses DEF Inv, TypeOK
<1>2. CASE UNCHANGED fields
  BY <1>1, <1>2, TimePasses DEF fields, Muted, Expired, Forever, Inv
<1>3. ASSUME NEW r \in Requests, Reset(r)
      PROVE  status = "messaging_muted" /\ ~Muted
  <2>1. request[r].saw = fields /\ request[r].at = "reset"
    BY <1>3 DEF Reset, Mishap, At
  <2>2. Ended(request[r])
    BY DEF Inv, ResetsExpired
  <2>. QED  BY <2>1, <2>2 DEF Ended, Muted, Expired, Forever, fields
<1>4. ASSUME NEW r \in Requests, Mute(r)
      PROVE  Muted' /\ status # "profile_edit_blocked"
  BY <1>4 DEF Mute, Mishap, Muted, Expired, Forever
<1>5. ASSUME NEW r \in Requests, Block(r)
      PROVE  ~Muted /\ status' = "profile_edit_blocked"
  BY <1>5 DEF Block, Mishap, Muted
<1>6. CASE ClearExpired
  BY <1>6 DEF ClearExpired, Muted
<1>7. ~Unblock
  BY DEF Unblock, Mishap
<1>8. CASE Tick
  BY <1>2, <1>8 DEF Tick
<1>9. ASSUME NEW r \in Requests,
             \/ CheckMessage(r) \/ Record(r) \/ Count(r) \/ CheckEdit(r) \/ RecordEdit(r)
             \/ CountEdits(r) \/ Stop(r)
      PROVE  UNCHANGED fields
  BY <1>9 DEF CheckMessage, Record, Count, CheckEdit, RecordEdit, CountEdits, Stop, fields
<1>. QED  BY <1>2, <1>3, <1>4, <1>5, <1>6, <1>7, <1>8, <1>9 DEF Next, vars

----------------------------------------------------------------------------
(* Who has struck out.                                                     *)

\* The violations that count at a later time are among those that count now, and count
\* only when there are any.
LEMMA StrikeCounts ==
  ASSUME TypeOK, NEW span \in Nat, NEW time \in Nat
  PROVE  /\ Recent(span, time) \in Nat /\ Within(span) \in Nat
         /\ time >= now => Recent(span, time) <= Within(span)
         /\ Recent(span, time) > 0 => \E i \in DOMAIN strikes : strikes[i] + span > time
<1> DEFINE R == {i \in DOMAIN strikes : strikes[i] + span > time}
           W == {i \in DOMAIN strikes : strikes[i] + span >= now}
<1>1. /\ Len(strikes) \in Nat /\ DOMAIN strikes = 1 .. Len(strikes)
      /\ \A i \in DOMAIN strikes : strikes[i] \in Nat
      /\ now \in Nat
  BY LimitsAssumption DEF TypeOK
<1>2. IsFiniteSet(DOMAIN strikes)
  BY <1>1, FS_Interval
<1>3. IsFiniteSet(R) /\ IsFiniteSet(W)
  BY <1>2, FS_Subset
<1>4. Cardinality(R) \in Nat /\ Cardinality(W) \in Nat
  BY <1>3, FS_CardinalityType
<1>5. ASSUME time >= now
      PROVE  Cardinality(R) <= Cardinality(W)
  <2>1. R \subseteq W
    BY <1>1, <1>5
  <2> HIDE DEF R, W
  <2>. QED  BY <1>3, <2>1, FS_Subset
<1>6. ASSUME Cardinality(R) > 0
      PROVE  \E i \in DOMAIN strikes : strikes[i] + span > time
  <2>1. R # {}
    BY <1>6, FS_EmptySet
  <2>. QED  BY <2>1
<1>. QED  BY <1>4, <1>5, <1>6 DEF Recent, Within

\* When more is struck later, or time passes, what covers goes on covering.
LEMMA CoversKept ==
  ASSUME TypeOK, [Next]_vars, strikes' = strikes
  PROVE  /\ \A end : Covers(end) => Covers(end)'
         /\ Clean => Clean'
<1>1. now \in Nat /\ now' \in Nat /\ now <= now'
  BY TimePasses
<1>2. \A time \in Nat : Struck(time)' <=> Struck(time)
  BY DEF Struck, Recent
<1>. QED  BY <1>1, <1>2 DEF Covers, Clean, Forever

\* A mute that has ended and was enough is needed no more.
LEMMA Lapsed ==
  ASSUME TypeOK, Covers(until), Expired(until)
  PROVE  Clean
BY LimitsAssumption DEF TypeOK, Ends, Null, Covers, Clean, Expired, Forever

\* A request's change of its own record.
LEMMA RequestMoves ==
  ASSUME TypeOK, NEW r \in Requests
  PROVE  /\ \A step : Goto(r, step) \/ Begin(r, step) =>
              request'[r].at = step /\ \A q \in Requests : q # r => request'[q] = request[q]
         /\ \A step : Begin(r, step) => request[r].at = "idle"
         /\ Leave(r) =>
              request'[r].at = "idle" /\ \A q \in Requests : q # r => request'[q] = request[q]
         /\ \A end : Muting(r, end) =>
              /\ request'[r].at = "mute" /\ request'[r].counted = Len(strikes)
              /\ request'[r].end = end
              /\ \A q \in Requests : q # r => request'[q] = request[q]
<1>1. request \in [Requests -> RequestState]
  BY DEF TypeOK, RequestState, Steps, States
<1>2. ASSUME NEW step, Goto(r, step) \/ Begin(r, step)
      PROVE  request'[r].at = step /\ \A q \in Requests : q # r => request'[q] = request[q]
  BY <1>1, <1>2 DEF Goto, Begin, Idle, RequestState
<1>3. ASSUME Leave(r)
      PROVE  request'[r].at = "idle" /\ \A q \in Requests : q # r => request'[q] = request[q]
  BY <1>1, <1>3 DEF Leave, Idle
<1>4. ASSUME NEW end, Muting(r, end)
      PROVE  /\ request'[r].at = "mute" /\ request'[r].counted = Len(strikes)
             /\ request'[r].end = end
             /\ \A q \in Requests : q # r => request'[q] = request[q]
  BY <1>1, <1>4 DEF Muting, RequestState
<1>5. \A step : Begin(r, step) => request[r].at = "idle"
  BY DEF Begin, At
<1>. QED  BY <1>2, <1>3, <1>4, <1>5

\* The end that a request has computed covers the violations it has counted; the one that
\* computes none has found none to cover.
LEMMA Counted ==
  ASSUME TypeOK, StrikesPast
  PROVE  /\ Covers(Null)
         /\ Len(strikes) < LifetimeLimit => Covers(now + Day)
         /\ Len(strikes) < LifetimeLimit /\ Within(Day) < DailyLimit => Covers(now + Hour)
         /\ Len(strikes) < LifetimeLimit /\ Within(Day) < DailyLimit /\ Within(Hour) < HourlyLimit
            => Clean
<1>1. /\ Hour \in Nat /\ Day \in Nat /\ Hour < Day /\ now \in Nat /\ Len(strikes) \in Nat
      /\ {HourlyLimit, DailyLimit, LifetimeLimit} \subseteq Nat \ {0}
      /\ \A i \in DOMAIN strikes : strikes[i] \in Nat /\ strikes[i] <= now
  BY LimitsAssumption DEF TypeOK, StrikesPast
<1>2. Covers(Null)
  BY DEF Covers, Forever
<1>3. ASSUME NEW time \in Nat, time >= now, NEW span \in {Hour, Day}
      PROVE  /\ Recent(span, time) \in Nat /\ Within(span) \in Nat
             /\ Recent(span, time) <= Within(span)
             /\ Recent(span, time) > 0 => now + span > time
  <2>1. span \in Nat
    BY <1>1
  <2>2. /\ Recent(span, time) \in Nat /\ Within(span) \in Nat
        /\ Recent(span, time) <= Within(span)
        /\ Recent(span, time) > 0 => \E i \in DOMAIN strikes : strikes[i] + span > time
    BY <1>3, <2>1, StrikeCounts
  <2>3. \A i \in DOMAIN strikes : strikes[i] + span > time => now + span > time
    BY <1>1, <2>1
  <2>. QED  BY <2>2, <2>3
<1>4. ASSUME NEW time \in Nat, time >= now, Struck(time)
      PROVE  /\ now + Day > time
             /\ Within(Day) < DailyLimit => now + Hour > time
             /\ ~(Within(Day) < DailyLimit /\ Within(Hour) < HourlyLimit)
  <2>1. CASE Recent(Hour, time) >= HourlyLimit
    BY <1>1, <1>3, <1>4, <2>1
  <2>2. CASE Recent(Day, time) >= DailyLimit
    BY <1>1, <1>3, <1>4, <2>2
  <2>. QED  BY <1>4, <2>1, <2>2 DEF Struck
<1>. QED  BY <1>1, <1>2, <1>4 DEF Covers, Clean

\* Every step keeps the three parts about the violations of messages.
LEMMA CoveredStep ==
  ASSUME Inv, [Next]_vars
  PROVE  StrikesPast' /\ MutesCover' /\ Covered'
<1>1. /\ TypeOK /\ MutesCover /\ Covered /\ mishap \in BOOLEAN
      /\ now \in Nat /\ now' \in Nat /\ now <= now'
      /\ \A i \in DOMAIN strikes : strikes[i] \in Nat /\ strikes[i] <= now
  BY TimePasses, LimitsAssumption DEF Inv, TypeOK, StrikesPast
<1>2. ASSUME strikes' = strikes
      PROVE  StrikesPast'
  BY <1>1, <1>2 DEF StrikesPast
\* Nobody counts or mutes anew, and whoever stops doing so makes it a mishap.
<1> DEFINE Calm ==
      /\ \A q \in Requests : request'[q].at = "mute" => request'[q] = request[q]
      /\ ~mishap' => ~mishap /\ \A q \in Requests :
           request[q].at \in {"count", "mute"} => request'[q].at \in {"count", "mute"}
<1>3. ASSUME Calm, strikes' = strikes
      PROVE  MutesCover'
  BY <1>1, <1>3, CoversKept DEF MutesCover
<1>4. ASSUME Calm, UNCHANGED <<status, until, strikes>>
      PROVE  MutesCover' /\ Covered'
  <2>1. Covered'
    BY <1>1, <1>4, CoversKept DEF Covered, Nobody
  <2>. QED  BY <1>3, <1>4, <2>1
<1>5. ASSUME Calm, strikes' = strikes, status' # "messaging_muted",
             ~mishap' => status # "messaging_muted" \/ Expired(until)
      PROVE  MutesCover' /\ Covered'
  <2>1. ASSUME ~mishap', Nobody({"count", "mute"})'
        PROVE  Clean
    <3>1. ~mishap /\ Nobody({"count", "mute"})
      BY <1>5, <2>1 DEF Nobody
    <3>. QED  BY <1>1, <1>5, <2>1, <3>1, Lapsed DEF Covered
  <2>2. Covered'
    BY <1>1, <1>5, <2>1, CoversKept DEF Covered
  <2>. QED  BY <1>3, <1>5, <2>2
<1>6. ASSUME NEW r \in Requests, CheckMessage(r) \/ CheckEdit(r) \/ RecordEdit(r) \/ CountEdits(r)
      PROVE  Calm /\ UNCHANGED <<status, until, strikes>>
  BY <1>1, <1>6, RequestMoves DEF CheckMessage, CheckEdit, RecordEdit, CountEdits, At, fields
<1>7. ASSUME NEW r \in Requests, Stop(r)
      PROVE  Calm /\ UNCHANGED <<status, until, strikes>>
  BY <1>1, <1>7, RequestMoves DEF Stop, Mishap, At, fields
<1>8. ASSUME NEW r \in Requests, Reset(r)
      PROVE  MutesCover' /\ Covered'
  <2>1. Calm /\ strikes' = strikes /\ status' # "messaging_muted"
    BY <1>1, <1>8, RequestMoves DEF Reset, Mishap, At
  <2>2. ASSUME ~mishap'
        PROVE  Expired(until)
    <3>1. request[r].saw = fields /\ request[r].at = "reset"
      BY <1>8, <2>2 DEF Reset, Mishap, At
    <3>2. Ended(request[r])
      BY DEF Inv, ResetsExpired
    <3>. QED  BY <3>1, <3>2 DEF Ended, Expired, Forever, fields
  <2>. QED  BY <1>5, <2>1, <2>2
<1>9. ASSUME NEW r \in Requests, Record(r)
      PROVE  StrikesPast' /\ MutesCover' /\ Covered'
  <2>1. /\ strikes' = Append(strikes, now) /\ now' = now /\ strikes \in Seq(0 .. MaxTime)
        /\ request'[r].at = "count" /\ \A q \in Requests : q # r => request'[q] = request[q]
    BY <1>1, <1>9, RequestMoves DEF Record, TypeOK
  <2>2. Len(strikes') = Len(strikes) + 1 /\ Len(strikes) \in Nat
    BY <2>1
  <2>3. StrikesPast'
    BY <1>1, <2>1 DEF StrikesPast
  <2>4. MutesCover'
    <3>1. SUFFICES ASSUME NEW q \in Requests, request'[q].at = "mute"
          PROVE  request'[q].counted <= Len(strikes') /\ request'[q].counted # Len(strikes')
      BY DEF MutesCover
    <3>2. q # r /\ request'[q] = request[q]
      BY <2>1, <3>1
    <3>3. request[q].counted <= Len(strikes)
      BY <1>1, <3>1, <3>2 DEF MutesCover
    <3>4. request[q].counted \in Nat
      BY <1>1, LimitsAssumption DEF TypeOK
    <3>. QED  BY <2>2, <3>2, <3>3, <3>4
  <2>5. Covered'
    BY <2>1 DEF Covered, Nobody
  <2>. QED  BY <2>3, <2>4, <2>5
<1>10. ASSUME NEW r \in Requests, Count(r)
       PROVE  MutesCover' /\ Covered'
  <2>1. /\ UNCHANGED <<now, status, until, strikes, mishap>> /\ Len(strikes) \in Nat
        /\ {HourlyLimit, DailyLimit, LifetimeLimit} \subseteq Nat
        /\ Within(Hour) \in Nat /\ Within(Day) \in Nat
    BY <1>1, <1>10, LimitsAssumption, StrikeCounts DEF Count, TypeOK, fields
  <2>2. ASSUME NEW end, Muting(r, end), Covers(end)
        PROVE  MutesCover' /\ Covered'
    <3>1. MutesCover'
      BY <1>1, <2>1, <2>2, RequestMoves, CoversKept DEF MutesCover
    <3>2. Covered'
      BY <1>1, <2>2, RequestMoves DEF Covered, Nobody
    <3>. QED  BY <3>1, <3>2
  <2>3. ASSUME Leave(r), Clean
        PROVE  MutesCover' /\ Covered'
    <3>1. MutesCover'
      BY <1>1, <2>1, <2>3, RequestMoves, CoversKept DEF MutesCover
    <3>2. status # "messaging_muted" => Covered'
      BY <1>1, <2>1, <2>3, CoversKept DEF Covered
    <3>3. Clean => Covers(until)
      BY <1>1, <2>1 DEF Clean, Covers
    <3>4. Covered'
      BY <1>1, <2>1, <2>3, <3>3, CoversKept DEF Covered
    <3>. QED  BY <3>1, <3>4
  <2>4. CASE Len(strikes) >= LifetimeLimit
    BY <1>1, <1>10, <2>2, <2>4, Counted DEF Count, Inv
  <2>5. CASE Len(strikes) < LifetimeLimit /\ Within(Day) >= DailyLimit
    BY <1>1, <1>10, <2>1, <2>2, <2>5, Counted DEF Count, Inv
  <2>6. CASE Len(strikes) < LifetimeLimit /\ Within(Day) < DailyLimit /\ Within(Hour) >= HourlyLimit
    BY <1>1, <1>10, <2>1, <2>2, <2>6, Counted DEF Count, Inv
  <2>7. CASE Len(strikes) < LifetimeLimit /\ Within(Day) < DailyLimit /\ Within(Hour) < HourlyLimit
    BY <1>1, <1>10, <2>1, <2>3, <2>7, Counted DEF Count, Inv
  <2>. QED  BY <2>1, <2>4, <2>5, <2>6, <2>7
<1>11. ASSUME NEW r \in Requests, Mute(r)
       PROVE  MutesCover' /\ Covered'
  <2>1. /\ request[r].at = "mute" /\ status' = "messaging_muted" /\ until' = request[r].end
        /\ request'[r].at = "idle" /\ \A q \in Requests : q # r => request'[q] = request[q]
        /\ strikes' = strikes /\ (~mishap' => request[r].counted = Len(strikes))
    BY <1>1, <1>11, RequestMoves DEF Mute, At, Mishap
  <2>2. MutesCover'
    BY <1>1, <2>1, CoversKept DEF MutesCover
  <2>3. ~mishap' => Covers(request[r].end)
    BY <1>1, <2>1 DEF MutesCover
  <2>4. Covered'
    <3>1. ~mishap' => \A end : end = request[r].end => Covers(end)'
      BY <1>1, <2>1, <2>3, CoversKept
    <3>. QED  BY <2>1, <3>1 DEF Covered, Covers, Forever
  <2>. QED  BY <2>2, <2>4
<1>12. ASSUME NEW r \in Requests, Block(r)
       PROVE  MutesCover' /\ Covered'
  <2>1. Calm /\ strikes' = strikes /\ status' # "messaging_muted"
        /\ (~mishap' => status # "messaging_muted" \/ Expired(until))
    BY <1>1, <1>12, RequestMoves DEF Block, Mishap, At
  <2>. QED  BY <1>5, <2>1
<1>13. ASSUME ClearExpired
       PROVE  MutesCover' /\ Covered'
  <2>1. Calm /\ strikes' = strikes /\ status' # "messaging_muted" /\ Expired(until)
    BY <1>1, <1>13 DEF ClearExpired
  <2>. QED  BY <1>5, <2>1
<1>14. ASSUME Unblock
       PROVE  MutesCover' /\ Covered'
  <2>1. Calm /\ strikes' = strikes /\ status' # "messaging_muted" /\ mishap'
    BY <1>1, <1>14 DEF Unblock, Mishap
  <2>. QED  BY <1>5, <2>1
<1>15. ASSUME Tick \/ UNCHANGED vars
       PROVE  MutesCover' /\ Covered'
  <2>1. Calm /\ UNCHANGED <<status, until, strikes>>
    BY <1>1, <1>15 DEF Tick, vars, fields
  <2>. QED  BY <1>4, <2>1
<1>16. strikes' = strikes \/ \E r \in Requests : Record(r)
  BY DEF Next, vars, CheckMessage, Reset, Count, Mute, CheckEdit, RecordEdit, CountEdits, Block,
     Stop, ClearExpired, Unblock, Tick
<1>17. StrikesPast'
  BY <1>2, <1>9, <1>16
<1> HIDE DEF Calm
<1>. QED
  BY <1>4, <1>6, <1>7, <1>8, <1>9, <1>10, <1>11, <1>12, <1>13, <1>14, <1>15, <1>17 DEF Next

\* Every step keeps the part about the profile's violations.
LEMMA BlockedStep ==
  ASSUME Inv, [Next]_vars
  PROVE  Blocked'
<1>1. TypeOK /\ Blocked /\ mishap \in BOOLEAN /\ edits \in Nat /\ ProfileLimit \in Nat
  BY LimitsAssumption DEF Inv, TypeOK
<1> DEFINE Calm ==
      ~mishap' => ~mishap /\ \A q \in Requests :
        request[q].at \in {"countEdits", "block"} => request'[q].at \in {"countEdits", "block"}
<1>2. ASSUME Calm, edits' = edits,
             ~mishap' => status # "profile_edit_blocked" \/ status' = "profile_edit_blocked"
      PROVE  Blocked'
  BY <1>1, <1>2 DEF Blocked, Nobody
<1>3. ASSUME NEW r \in Requests, CheckMessage(r) \/ CheckEdit(r) \/ Record(r) \/ Count(r)
      PROVE  Calm /\ UNCHANGED <<status, edits>>
  BY <1>1, <1>3, RequestMoves DEF CheckMessage, CheckEdit, Record, Count, At, fields
<1>4. ASSUME NEW r \in Requests, Stop(r)
      PROVE  Calm /\ UNCHANGED <<status, edits>>
  BY <1>1, <1>4, RequestMoves DEF Stop, Mishap, At, fields
<1>5. ASSUME NEW r \in Requests, Reset(r)
      PROVE  Calm /\ edits' = edits /\ (~mishap' => status # "profile_edit_blocked")
  <2>1. Calm /\ edits' = edits
    BY <1>1, <1>5, RequestMoves DEF Reset, Mishap, At
  <2>2. ASSUME ~mishap'
        PROVE  status # "profile_edit_blocked"
    <3>1. request[r].saw = fields /\ request[r].at = "reset"
      BY <1>5, <2>2 DEF Reset, Mishap, At
    <3>2. Ended(request[r])
      BY DEF Inv, ResetsExpired
    <3>. QED  BY <3>1, <3>2 DEF Ended, fields
  <2>. QED  BY <2>1, <2>2
<1>6. ASSUME NEW r \in Requests, Mute(r)
      PROVE  Calm /\ edits' = edits /\ (~mishap' => status # "profile_edit_blocked")
  BY <1>1, <1>6, RequestMoves DEF Mute, Mishap, At
<1>7. ASSUME NEW r \in Requests, RecordEdit(r)
      PROVE  Blocked'
  <2>1. request'[r].at = "countEdits"
    BY <1>1, <1>7, RequestMoves DEF RecordEdit
  <2>. QED  BY <2>1 DEF Blocked, Nobody
<1>8. ASSUME NEW r \in Requests, CountEdits(r)
      PROVE  Blocked'
  <2>1. UNCHANGED <<edits, status, mishap>>
    BY <1>8 DEF CountEdits, fields
  <2>2. CASE edits >= ProfileLimit
    <3>1. request'[r].at = "block"
      BY <1>1, <1>8, <2>2, RequestMoves DEF CountEdits
    <3>. QED  BY <3>1 DEF Blocked, Nobody
  <2>3. CASE ~(edits >= ProfileLimit)
    BY <2>1, <2>3 DEF Blocked
  <2>. QED  BY <2>2, <2>3
<1>9. ASSUME NEW r \in Requests, Block(r)
      PROVE  Blocked'
  BY <1>9 DEF Block, Blocked
<1>10. CASE ClearExpired \/ Tick \/ UNCHANGED vars
  <2>1. Calm /\ edits' = edits /\ (status # "profile_edit_blocked" \/ status' = status)
    BY <1>10 DEF ClearExpired, Tick, vars, fields
  <2>. QED  BY <1>2, <2>1
<1>11. CASE Unblock
  BY <1>11 DEF Unblock, Mishap, Blocked
<1> HIDE DEF Calm
<1>. QED  BY <1>2, <1>3, <1>4, <1>5, <1>6, <1>7, <1>8, <1>9, <1>10, <1>11 DEF Next

----------------------------------------------------------------------------

\* Every reachable state satisfies the inductive invariant.
LEMMA Invariance == Spec => []Inv
<1>1. ASSUME Init
      PROVE  Inv
  <2>1. Idle \in RequestState /\ Idle.at = "idle"
    BY LimitsAssumption DEF Idle, RequestState, Steps, States
  <2>2. request \in [Requests -> RequestState] /\ ResetsExpired
    BY <1>1, <2>1 DEF Init, ResetsExpired, Ended
  <2>3. /\ now \in 0 .. MaxTime /\ edits \in 0 .. MaxStrikes
        /\ status \in States /\ until \in Ends \cup {Null} /\ strikes = <<>> /\ mishap \in BOOLEAN
    <3>1. 0 \in 0 .. MaxTime /\ 0 \in 0 .. MaxStrikes
      BY LimitsAssumption
    <3>2. now = 0 /\ edits = 0 /\ status = "ok" /\ until = Null /\ strikes = <<>> /\ mishap = FALSE
      BY <1>1 DEF Init
    <3>. QED  BY <3>1, <3>2 DEF States
  <2>4. strikes \in Seq(0 .. MaxTime) /\ Len(strikes) <= MaxStrikes
    <3>1. MaxStrikes >= 0
      BY LimitsAssumption
    <3>. QED  BY <2>3, <3>1
  <2>5. TypeOK
    BY <2>2, <2>3, <2>4 DEF TypeOK, RequestState, Steps, States
  <2>6. /\ status = "ok" /\ Len(strikes) = 0 /\ DOMAIN strikes = {} /\ edits = 0
        /\ \A r \in Requests : request[r].at = "idle"
    BY <1>1, <2>1 DEF Init
  <2>7. Clean
    <3>1. ASSUME NEW time \in Nat, NEW span \in {Hour, Day}
          PROVE  Recent(span, time) = 0
      <4>1. {i \in DOMAIN strikes : strikes[i] + span > time} = {}
        BY <2>6
      <4>. QED  BY <4>1, FS_EmptySet DEF Recent
    <3>. QED  BY <2>6, <3>1, LimitsAssumption DEF Clean, Struck
  <2>8. StrikesPast /\ MutesCover /\ Covered
    BY <2>6, <2>7 DEF StrikesPast, MutesCover, Covered
  <2>9. Blocked
    BY <2>6, LimitsAssumption DEF Blocked
  <2>. QED  BY <2>2, <2>5, <2>8, <2>9 DEF Inv
<1>2. Inv /\ [Next]_vars => Inv'
  BY TypeStep, ResetsStep, CoveredStep, BlockedStep DEF Inv
<1>. QED  BY <1>1, <1>2, PTL DEF Spec

\* The types of the status fields, of the violations and of the requests under way.
THEOREM TypeCorrect == Spec => []TypeOK
<1>1. Inv => TypeOK
  BY DEF Inv
<1>. QED  BY <1>1, Invariance, PTL

\* For any limits and spans, and however refused messages, refused edits, crons and the clock
\* interleave, who has reached a limit is muted or blocked once the violation is counted.
THEOREM StruckOutRestricted == Spec => []StruckOut
<1>1. ASSUME Inv
      PROVE  StruckOut
  <2>1. SUFFICES ASSUME ~mishap PROVE StruckOut
    BY DEF StruckOut
  <2>2. now \in Nat /\ until \in Nat /\ Len(strikes) \in Nat /\ LifetimeLimit \in Nat
    BY <1>1, LimitsAssumption DEF Inv, TypeOK, Ends, Null
  <2>3. ASSUME Nobody({"count", "mute"})
        PROVE  /\ Struck(now) => Muted
               /\ Len(strikes) >= LifetimeLimit => Muted /\ Forever(until)
    <3>1. IF status = "messaging_muted" THEN Covers(until) ELSE Clean
      BY <1>1, <2>1, <2>3 DEF Inv, Covered
    <3>. QED  BY <2>2, <3>1 DEF Covers, Clean, Muted, Expired, Forever
  <2>4. Blocked
    BY <1>1 DEF Inv
  <2>. QED  BY <2>1, <2>3, <2>4 DEF StruckOut, Struck, Blocked
<1>. QED  BY <1>1, Invariance, PTL

\* Whatever requests and crons overlap, and for any limits, a mute in force is lifted by
\* nobody before its end and a block never, but for the recorded mishaps.
THEOREM RestrictionsStand == Spec => RestrictionStands
<1> DEFINE Stands == ~mishap' =>
             /\ Muted => Muted' \/ (~Forever(until) /\ until <= now')
             /\ status = "profile_edit_blocked" => status' = "profile_edit_blocked"
<1>1. Inv /\ [Next]_vars => [Stands]_vars
  BY StandsStep
<1>. QED  BY <1>1, Invariance, PTL DEF Spec, RestrictionStands
=============================================================================
