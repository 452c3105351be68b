--------------------------- MODULE ContentViolations ---------------------------
(***************************************************************************)
(* The violations of one user and the restriction they lead to: a mute of  *)
(* the messages, for a time or for ever, or a block of profile edits.  One *)
(* status field holds either.                                              *)
(*                                                                         *)
(* A request is a message or a profile edit whose text is refused: one     *)
(* with a clean text only checks the status.  An action is one await.      *)
(***************************************************************************)
EXTENDS Naturals, Sequences, FiniteSets

CONSTANTS
  Requests,        \* bound: requests of the user at once
  HourlyLimit, DailyLimit, LifetimeLimit, ProfileLimit,  \* 3, 10, 20 and 3 in the code
  Hour, Day,       \* in units of the clock
  MaxTime, MaxStrikes   \* bounds: the clock, and the violations of each kind

ASSUME LimitsAssumption ==
  /\ {HourlyLimit, DailyLimit, LifetimeLimit, ProfileLimit} \subseteq Nat \ {0}
  /\ {Hour, Day} \subseteq Nat \ {0} /\ Hour < Day
  /\ {MaxTime, MaxStrikes} \subseteq Nat

VARIABLES
  now,        \* the time
  status,     \* User.contentViolationStatus
  until,      \* User.contentViolationMutedUntil
  strikes,    \* when each message violation was recorded
  edits,      \* the number of profile violations
  request,    \* what each request does next
  mishap      \* history, see Mishap

fields == <<status, until>>
vars == <<now, fields, strikes, edits, request, mishap>>

Null == 0   \* no end: a mute ends after it begins, so never at 0
Forever(end) == end = Null
Ends == 1 .. (MaxTime + Hour + Day)

\* saw: the two fields as the request has read them; counted: the violations of its
\* kind when it counted them; end: the end of the mute it is about to write.
Idle == [at |-> "idle", saw |-> <<"ok", Null>>, counted |-> 0, end |-> Null]

TypeOK ==
  /\ now \in 0 .. MaxTime
  /\ status \in {"ok", "messaging_muted", "profile_edit_blocked"}
  /\ until \in Ends \cup {Null}
  /\ strikes \in Seq(0 .. MaxTime) /\ Len(strikes) <= MaxStrikes
  /\ edits \in 0 .. MaxStrikes
  /\ request \in [Requests ->
       [at : {"idle", "reset", "record", "count", "mute", "recordEdit", "countEdits", "block"},
        saw : {"ok", "messaging_muted", "profile_edit_blocked"} \X (Ends \cup {Null}),
        counted : 0 .. MaxStrikes, end : Ends \cup {Null}]]
  /\ mishap \in BOOLEAN

Init ==
  /\ now = 0
  /\ status = "ok" /\ until = Null
  /\ strikes = <<>> /\ edits = 0
  /\ request = [r \in Requests |-> Idle]
  /\ mishap = FALSE

\* An admin has lifted the restriction; a request has stopped after recording a
\* violation, or written after another one had been recorded, or after the time it
\* muted for; one restriction has replaced the other kind.
Mishap(happens) == mishap' = (mishap \/ happens)

At(r, step) == request[r].at = step
Goto(r, step) == request' = [request EXCEPT ![r].at = step]
Begin(r, step) ==
  /\ At(r, "idle")
  /\ request' = [request EXCEPT ![r] = [Idle EXCEPT !.at = step, !.saw = fields]]
Leave(r) == request' = [request EXCEPT ![r] = Idle]

\* The violations since span ago.
Within(span) == Cardinality({i \in DOMAIN strikes : strikes[i] + span >= now})
Expired(end) == ~Forever(end) /\ end <= now

----------------------------------------------------------------------------
(* A message.                                                              *)

\* isUserBlocked lets an expired mute pass, but resets it first.
CheckMessage(r) ==
  /\ \/ status # "messaging_muted" /\ Begin(r, "record")
     \/ status = "messaging_muted" /\ Expired(until) /\ Begin(r, "reset")
  /\ UNCHANGED <<now, fields, strikes, edits, mishap>>

\* Unconditional: also when another mute has been written meanwhile.
Reset(r) ==
  /\ At(r, "reset")
  /\ status' = "ok" /\ until' = Null
  /\ Goto(r, "record") \/ Leave(r)
  /\ Mishap(request[r].saw # fields)
  /\ UNCHANGED <<now, strikes, edits>>

Record(r) ==
  /\ At(r, "record")
  /\ Len(strikes) < MaxStrikes
  /\ strikes' = Append(strikes, now)
  /\ Goto(r, "count")
  /\ UNCHANGED <<now, fields, edits, mishap>>

Muting(r, end) ==
  request' = [request EXCEPT ![r].at = "mute", ![r].counted = Len(strikes), ![r].end = end]

MutantCount(r) ==  \* the shortest mute first
  /\ At(r, "count")
  /\ CASE Within(Hour) >= HourlyLimit -> Muting(r, now + Hour)
       [] Within(Hour) < HourlyLimit /\ Within(Day) >= DailyLimit -> Muting(r, now + Day)
       [] OTHER -> Leave(r)
  /\ UNCHANGED <<now, fields, strikes, edits, mishap>>

MutantSpan(r) ==  \* the mute ends in milliseconds, the clock is in other units
  /\ At(r, "count")
  /\ IF Within(Hour) >= HourlyLimit THEN Muting(r, now + 1000 * Hour) ELSE Leave(r)
  /\ UNCHANGED <<now, fields, strikes, edits, mishap>>

\* The three counts, taken together: the longest mute they call for.
Count(r) ==
  /\ At(r, "count")
  /\ IF Len(strikes) >= LifetimeLimit THEN Muting(r, Null)
     ELSE IF Within(Day) >= DailyLimit THEN Muting(r, now + Day)
     ELSE IF Within(Hour) >= HourlyLimit THEN Muting(r, now + Hour)
     ELSE Leave(r)
  /\ UNCHANGED <<now, fields, strikes, edits, mishap>>

Mute(r) ==
  /\ At(r, "mute")
  /\ status' = "messaging_muted"
  /\ until' = request[r].end
  /\ Leave(r)
  /\ Mishap(\/ request[r].counted # Len(strikes)
            \/ Expired(request[r].end)
            \/ status = "profile_edit_blocked")
  /\ UNCHANGED <<now, strikes, edits>>

----------------------------------------------------------------------------
(* A profile edit.                                                         *)

CheckEdit(r) ==
  /\ status # "profile_edit_blocked"
  /\ Begin(r, "recordEdit")
  /\ UNCHANGED <<now, fields, strikes, edits, mishap>>

RecordEdit(r) ==
  /\ At(r, "recordEdit")
  /\ edits < MaxStrikes
  /\ edits' = edits + 1
  /\ Goto(r, "countEdits")
  /\ UNCHANGED <<now, fields, strikes, mishap>>

CountEdits(r) ==
  /\ At(r, "countEdits")
  /\ IF edits >= ProfileLimit THEN Goto(r, "block") ELSE Leave(r)
  /\ UNCHANGED <<now, fields, strikes, edits, mishap>>

\* mutedUntil keeps its value.
Block(r) ==
  /\ At(r, "block")
  /\ status' = "profile_edit_blocked"
  /\ Leave(r)
  /\ Mishap(status = "messaging_muted" /\ ~Expired(until))
  /\ UNCHANGED <<now, until, strikes, edits>>

----------------------------------------------------------------------------
(* Others.                                                                 *)

MutantClearExpired ==  \* mutes without an end are cleared with the others
  /\ status = "messaging_muted"
  /\ Forever(until) \/ until <= now
  /\ status' = "ok" /\ until' = Null
  /\ UNCHANGED <<now, strikes, edits, request, mishap>>

\* The cron, one conditional update.
ClearExpired ==
  /\ status = "messaging_muted"
  /\ Expired(until)
  /\ status' = "ok" /\ until' = Null
  /\ UNCHANGED <<now, strikes, edits, request, mishap>>

\* unblockUser by an admin.
Unblock ==
  /\ status' = "ok" /\ until' = Null
  /\ Mishap(TRUE)
  /\ UNCHANGED <<now, strikes, edits, request>>

Stop(r) ==
  /\ ~At(r, "idle")
  /\ Leave(r)
  /\ Mishap(At(r, "count") \/ At(r, "mute") \/ At(r, "countEdits") \/ At(r, "block"))
  /\ UNCHANGED <<now, fields, strikes, edits>>

Tick ==
  /\ now < MaxTime
  /\ now' = now + 1
  /\ UNCHANGED <<fields, strikes, edits, request, mishap>>

Next ==
  \/ \E r \in Requests :
       \/ CheckMessage(r) \/ Reset(r) \/ Record(r) \/ Count(r) \/ Mute(r)
       \/ CheckEdit(r) \/ RecordEdit(r) \/ CountEdits(r) \/ Block(r)
       \/ Stop(r)
  \/ ClearExpired \/ Unblock \/ Tick

Spec == Init /\ [][Next]_vars

----------------------------------------------------------------------------
Muted == status = "messaging_muted" /\ ~Expired(until)

Nobody(steps) == \A r \in Requests : request[r].at \notin steps

\* The violations a mute that lasts for the span would still be in force for.
Recent(span, time) == Cardinality({i \in DOMAIN strikes : strikes[i] + span > time})

\* Whoever has struck out is restricted once the strikes have been counted: three in
\* an hour, ten in a day and twenty ever mute the messages, the twenty without an
\* end; three in the profile block its edits.
StruckOut ==
  ~mishap =>
    /\ Nobody({"count", "mute"}) =>
         /\ Recent(Hour, now) >= HourlyLimit \/ Recent(Day, now) >= DailyLimit => Muted
         /\ Len(strikes) >= LifetimeLimit => Muted /\ Forever(until)
    /\ Nobody({"countEdits", "block"}) /\ edits >= ProfileLimit => status = "profile_edit_blocked"

\* A mute in force stays until its end and a block for ever, whatever requests and
\* crons overlap.
RestrictionStands ==
  [][~mishap' => /\ Muted => Muted' \/ (~Forever(until) /\ until <= now')
                 /\ status = "profile_edit_blocked" => status' = "profile_edit_blocked"]_vars
=============================================================================
