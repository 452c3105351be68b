------------------------- MODULE MessageSendProofs -------------------------
(***************************************************************************)
(* Proofs about MessageSend, for every number of requests, senders, keys   *)
(* and texts, with or without deaths.                                      *)
(*                                                                         *)
(* The inductive invariant Inv ties each row to the request that inserted  *)
(* it and each answer to a row; every action of the handler either leaves  *)
(* rows and answers alone, answers with a row it found, or inserts and     *)
(* fans out its own row.                                                   *)
(***************************************************************************)
EXTENDS MessageSend, TLAPS

----------------------------------------------------------------------------
(* The inductive invariant.                                                *)

\* A row belongs to the request that inserted it, and is fanned out when that
\* request answers.
RowsBelong ==
  \A m \in rows :
    /\ req[m.id].stage \in {"fanout", "replied", "died"}
    /\ m.sender = req[m.id].sender /\ m.key = req[m.id].key
    /\ m.text \in {req[m.id].text, Erased}
    /\ At(m.id, "replied") => fanouts[m.id] = 1 /\ req[m.id].reply = m.id
    /\ ~At(m.id, "replied") => fanouts[m.id] = 0

\* The table has one row per id and per client key.
RowsUnique ==
  \A m, n \in rows :
    m.id = n.id \/ (m.sender = n.sender /\ m.key = n.key /\ m.key # NoKey) => m = n

\* Nothing is fanned out that was not stored.
FanoutsStored ==
  \A r \in Requests : (\A m \in rows : m.id # r) => fanouts[r] = 0

\* A request about to fan out has stored its row, and an answer names a row
\* under the request's key, or its own.
AnswersName ==
  \A r \in Requests :
    /\ At(r, "fanout") => req[r].reply = r /\ \E m \in rows : m.id = r
    /\ At(r, "replied") =>
         \E m \in rows :
           /\ m.id = req[r].reply /\ m.sender = req[r].sender /\ m.key = req[r].key
           /\ m.text \in {req[r].text, Erased}

Inv == TypeOK /\ RowsBelong /\ RowsUnique /\ FanoutsStored /\ AnswersName

\* A step of a request that stores nothing, answers nothing and fans nothing out.
Quiet(r, x) ==
  /\ req[r].stage \in Working \ {"fanout"}
  /\ x \in (Working \cup Ended) \ {"fanout", "replied"}
  /\ Goto(r, x)

----------------------------------------------------------------------------
(* The kinds of steps.                                                     *)

\* What a quiet step leaves true, whatever it does to mutes and status.
LEMMA QuietStep ==
  ASSUME Inv, NEW r \in Requests, NEW x, Quiet(r, x),
         rows' = rows, fanouts' = fanouts,
         open' \in BOOLEAN, deleted' \subseteq Senders, muted' \subseteq Senders
  PROVE  Inv'
<1>1. TypeOK'
  BY DEF Inv, TypeOK, Quiet, Goto, Request, Working, Ended
<1>2. /\ \A q \in Requests : q # r => req'[q] = req[q]
      /\ req'[r] = [req[r] EXCEPT !.stage = x]
  BY DEF Inv, TypeOK, Quiet, Goto
<1>3. \A m \in rows : m.id \in Requests /\ m.id # r
  BY DEF Inv, TypeOK, Row, RowsBelong, Quiet, Working
<1>4. RowsBelong'
  BY <1>2, <1>3 DEF Inv, RowsBelong, At
<1>5. RowsUnique' /\ FanoutsStored'
  BY DEF Inv, RowsUnique, FanoutsStored
<1>6. AnswersName'
  BY <1>2 DEF Inv, AnswersName, At, Quiet, TypeOK, Request
<1>. QED  BY <1>1, <1>4, <1>5, <1>6 DEF Inv

\* An answer with a row found under the request's key.
LEMMA ReplyStep ==
  ASSUME Inv, NEW r \in Requests, NEW m \in Found(r), ReplyWith(r, m),
         req[r].stage \in Working \ {"fanout"},
         UNCHANGED <<open, deleted, muted, rows, fanouts>>
  PROVE  Inv'
<1>1. CASE m.text # req[r].text
  <2>1. Quiet(r, "refused")
    BY <1>1 DEF ReplyWith, Quiet, Goto, Ended
  <2>. QED  BY <2>1, QuietStep DEF Inv, TypeOK
<1>2. CASE m.text = req[r].text
  <2>1. m \in rows /\ m \in Row /\ m.sender = req[r].sender /\ m.key = req[r].key
    BY DEF Found, Clash, Inv, TypeOK
  <2>2. /\ \A q \in Requests : q # r => req'[q] = req[q]
        /\ req'[r] = [req[r] EXCEPT !.stage = "replied", !.reply = m.id]
    BY <1>2 DEF ReplyWith, Inv, TypeOK
  <2>3. TypeOK'
    <3>0. req[r] \in Request /\ m.id \in Requests /\ "replied" \in Working \cup Ended \cup {"idle"}
      BY <2>1 DEF Inv, TypeOK, Row, Ended
    <3>1. [req[r] EXCEPT !.stage = "replied", !.reply = m.id] \in Request
      BY <3>0 DEF Request
    <3>2. req' \in [Requests -> Request]
      BY <1>2, <3>1 DEF ReplyWith, Inv, TypeOK
    <3>. QED  BY <3>2 DEF Inv, TypeOK
  <2>4. \A n \in rows : n.id \in Requests /\ n.id # r
    BY DEF Inv, TypeOK, Row, RowsBelong, Working
  <2>5. RowsBelong'
    BY <2>2, <2>4 DEF Inv, RowsBelong, At
  <2>6. RowsUnique' /\ FanoutsStored'
    BY DEF Inv, RowsUnique, FanoutsStored
  <2>7. req[r] \in Request
    BY DEF Inv, TypeOK
  <2>8. AnswersName'
    <3>1. req'[r].stage = "replied" /\ req'[r].reply = m.id /\ req'[r].sender = m.sender
          /\ req'[r].key = m.key /\ req'[r].text = m.text
      BY <1>2, <2>1, <2>2, <2>7 DEF Request
    <3>2. \A q \in Requests : q # r => req'[q] = req[q]
      BY <2>2
    <3>3. rows' = rows /\ m \in rows
      BY <2>1
    <3>. QED  BY <3>1, <3>2, <3>3 DEF Inv, AnswersName, At
  <2>. QED  BY <2>3, <2>5, <2>6, <2>8 DEF Inv
<1>. QED  BY <1>1, <1>2

\* The insert that finds no clash.
LEMMA InsertStep ==
  ASSUME ConstantsAssumption, Inv, NEW r \in Requests, Insert(r)
  PROVE  Inv'
<1> USE DEF At
<1>1. CASE Clash(r) # {}
  <2>1. Quiet(r, "relookup") /\ UNCHANGED <<open, deleted, muted, rows, fanouts>>
    BY <1>1 DEF Insert, Quiet, Goto, Working
  <2>. QED  BY <2>1, QuietStep DEF Inv, TypeOK
<1>2. CASE Clash(r) = {}
  <2> DEFINE new == [id |-> r, sender |-> req[r].sender, key |-> req[r].key,
                     text |-> req[r].text, status |-> "SENT"]
  <2>1. /\ rows' = rows \cup {new}
        /\ req' = [req EXCEPT ![r].stage = "fanout", ![r].reply = r]
        /\ UNCHANGED <<open, deleted, muted, fanouts>> /\ req[r].stage = "insert"
    BY <1>2 DEF Insert
  <2>2. req[r] \in Request /\ \A m \in rows : m \in Row
    BY DEF Inv, TypeOK
  <2>3. /\ \A q \in Requests : q # r => req'[q] = req[q]
        /\ req'[r] = [req[r] EXCEPT !.stage = "fanout", !.reply = r]
    BY <2>1 DEF Inv, TypeOK
  <2>4. /\ req'[r].stage = "fanout" /\ req'[r].reply = r
        /\ req'[r].sender = req[r].sender /\ req'[r].key = req[r].key
        /\ req'[r].text = req[r].text
    BY <2>2, <2>3 DEF Request
  <2>5. new \in Row
    BY <2>2 DEF Request, Row
  <2>6. [req[r] EXCEPT !.stage = "fanout", !.reply = r] \in Request
    <3>1. "fanout" \in Working
      BY DEF Working
    <3>. QED  BY <2>2, <3>1 DEF Request
  <2>7. TypeOK'
    <3>1. req' \in [Requests -> Request]
      BY <2>1, <2>6 DEF Inv, TypeOK
    <3>. QED  BY <2>1, <2>5, <3>1 DEF Inv, TypeOK
  <2>8. \A m \in rows : m.id \in Requests /\ m.id # r
    BY <2>1, <2>2 DEF Inv, Row, RowsBelong
  <2>9. fanouts[r] = 0
    BY <2>8 DEF Inv, FanoutsStored
  <2>10. RowsBelong'
    <3>1. \A m \in rows : req'[m.id] = req[m.id]
      BY <2>3, <2>8
    <3>2. SUFFICES ASSUME NEW m \in rows'
                   PROVE  /\ req'[m.id].stage \in {"fanout", "replied", "died"}
                          /\ m.sender = req'[m.id].sender /\ m.key = req'[m.id].key
                          /\ m.text \in {req'[m.id].text, Erased}
                          /\ req'[m.id].stage = "replied" => fanouts[m.id] = 1 /\ req'[m.id].reply = m.id
                          /\ req'[m.id].stage # "replied" => fanouts[m.id] = 0
      BY <2>1 DEF RowsBelong
    <3>3. CASE m \in rows
      BY <3>1, <3>3 DEF Inv, RowsBelong
    <3>4. CASE m = new
      BY <2>4, <2>9, <3>4
    <3>. QED  BY <2>1, <3>3, <3>4
  <2>11. RowsUnique'
    <3>1. \A m \in rows : ~(m.sender = new.sender /\ m.key = new.key /\ m.key # NoKey)
      BY <1>2 DEF Clash
    <3>2. \A m \in rows : m.id # new.id
      BY <2>8
    <3>. QED  BY <2>1, <3>1, <3>2 DEF Inv, RowsUnique
  <2>12. FanoutsStored'
    BY <2>1 DEF Inv, FanoutsStored
  <2>13. AnswersName'
    <3>1. new \in rows' /\ new.id = r /\ rows \subseteq rows'
      BY <2>1
    <3>2. \A q \in Requests : q # r => req'[q] = req[q]
      BY <2>3
    <3>3. SUFFICES ASSUME NEW q \in Requests
                   PROVE  /\ req'[q].stage = "fanout" =>
                               req'[q].reply = q /\ \E m \in rows' : m.id = q
                          /\ req'[q].stage = "replied" =>
                               \E m \in rows' :
                                 /\ m.id = req'[q].reply /\ m.sender = req'[q].sender
                                 /\ m.key = req'[q].key /\ m.text \in {req'[q].text, Erased}
      BY DEF AnswersName
    <3>4. CASE q = r
      BY <2>4, <3>1, <3>4
    <3>5. CASE q # r
      BY <3>1, <3>2, <3>5 DEF Inv, AnswersName
    <3>. QED  BY <3>4, <3>5
  <2>. QED  BY <2>7, <2>10, <2>11, <2>12, <2>13 DEF Inv
<1>. QED  BY <1>1, <1>2

\* The creator answers and fans out.
LEMMA FanOutStep ==
  ASSUME Inv, NEW r \in Requests, FanOut(r)
  PROVE  Inv'
<1> USE DEF At
<1>1. /\ req[r].stage = "fanout" /\ req[r] \in Request /\ req[r].reply = r
      /\ UNCHANGED <<open, deleted, muted, rows>>
      /\ fanouts' = [fanouts EXCEPT ![r] = @ + 1]
      /\ req' = [req EXCEPT ![r].stage = "replied"]
  BY DEF FanOut, Goto, Inv, TypeOK, AnswersName
<1>2. PICK own \in rows : own.id = r
  BY <1>1 DEF Inv, AnswersName
<1>3. fanouts[r] = 0 /\ own.sender = req[r].sender /\ own.key = req[r].key
      /\ own.text \in {req[r].text, Erased}
  BY <1>1, <1>2 DEF Inv, RowsBelong
<1>4. /\ \A q \in Requests : q # r => req'[q] = req[q] /\ fanouts'[q] = fanouts[q]
      /\ req'[r] = [req[r] EXCEPT !.stage = "replied"]
      /\ fanouts'[r] = 1
  BY <1>1, <1>3 DEF Inv, TypeOK
<1>5. /\ req'[r].stage = "replied" /\ req'[r].reply = r /\ req'[r].sender = req[r].sender
      /\ req'[r].key = req[r].key /\ req'[r].text = req[r].text
  BY <1>1, <1>4 DEF Request
<1>6. TypeOK'
  <2>1. "replied" \in Ended
    BY DEF Ended
  <2>2. req' \in [Requests -> Request]
    BY <1>1, <2>1 DEF Inv, TypeOK, Request
  <2>3. fanouts' \in [Requests -> Nat]
    BY <1>1 DEF Inv, TypeOK
  <2>. QED  BY <1>1, <2>2, <2>3 DEF Inv, TypeOK
<1>7. \A m \in rows : m.id \in Requests
  BY DEF Inv, TypeOK, Row
<1>8. RowsBelong'
  <2>1. \A m \in rows : m.id = r => m = own
    BY <1>2 DEF Inv, RowsUnique
  <2>2. SUFFICES ASSUME NEW m \in rows
                 PROVE  /\ req'[m.id].stage \in {"fanout", "replied", "died"}
                        /\ m.sender = req'[m.id].sender /\ m.key = req'[m.id].key
                        /\ m.text \in {req'[m.id].text, Erased}
                        /\ req'[m.id].stage = "replied" => fanouts'[m.id] = 1 /\ req'[m.id].reply = m.id
                        /\ req'[m.id].stage # "replied" => fanouts'[m.id] = 0
    BY <1>1 DEF RowsBelong
  <2>3. CASE m.id = r
    BY <1>3, <1>4, <1>5, <2>1, <2>3
  <2>4. CASE m.id # r
    BY <1>4, <1>7, <2>4 DEF Inv, RowsBelong
  <2>. QED  BY <2>3, <2>4
<1>9. RowsUnique'
  BY <1>1 DEF Inv, RowsUnique
<1>10. FanoutsStored'
  BY <1>1, <1>2, <1>4 DEF Inv, FanoutsStored
<1>11. AnswersName'
  BY <1>1, <1>2, <1>3, <1>4, <1>5 DEF Inv, AnswersName
<1>. QED  BY <1>6, <1>8, <1>9, <1>10, <1>11 DEF Inv

\* A request dies, with its row stored or not.
LEMMA DieStep ==
  ASSUME Inv, NEW r \in Requests, Die(r)
  PROVE  Inv'
<1> USE DEF At
<1>1. CASE req[r].stage # "fanout"
  <2>1. Quiet(r, "died") /\ UNCHANGED <<open, deleted, muted, rows, fanouts>>
    BY <1>1 DEF Die, Quiet, Goto, Ended
  <2>. QED  BY <2>1, QuietStep DEF Inv, TypeOK
<1>2. CASE req[r].stage = "fanout"
  <2>1. /\ UNCHANGED <<open, deleted, muted, rows, fanouts>> /\ req[r] \in Request
        /\ req' = [req EXCEPT ![r].stage = "died"]
    BY DEF Die, Goto, Inv, TypeOK
  <2>2. /\ \A q \in Requests : q # r => req'[q] = req[q]
        /\ req'[r] = [req[r] EXCEPT !.stage = "died"]
    BY <2>1 DEF Inv, TypeOK
  <2>3. /\ req'[r].stage = "died" /\ req'[r].sender = req[r].sender
        /\ req'[r].key = req[r].key /\ req'[r].text = req[r].text
    BY <2>1, <2>2 DEF Request
  <2>4. TypeOK'
    <3>1. "died" \in Ended
      BY DEF Ended
    <3>2. req' \in [Requests -> Request]
      BY <2>1, <3>1 DEF Inv, TypeOK, Request
    <3>. QED  BY <2>1, <3>2 DEF Inv, TypeOK
  <2>5. \A m \in rows : m.id \in Requests
    BY DEF Inv, TypeOK, Row
  <2>6. RowsBelong'
    BY <1>2, <2>1, <2>2, <2>3, <2>5 DEF Inv, RowsBelong
  <2>7. RowsUnique' /\ FanoutsStored' /\ AnswersName'
    BY <2>1, <2>2, <2>3 DEF Inv, RowsUnique, FanoutsStored, AnswersName
  <2>. QED  BY <2>4, <2>6, <2>7 DEF Inv
<1>. QED  BY <1>1, <1>2

\* A new request takes a client key.
LEMMA BeginStep ==
  ASSUME Inv, NEW r \in Requests, Begin(r)
  PROVE  Inv'
<1> USE DEF At
<1>1. /\ UNCHANGED <<open, deleted, muted, rows, fanouts>>
      /\ req[r].stage = "idle" /\ req[r] \in Request
  BY DEF Begin, Inv, TypeOK
<1>2. PICK k \in Keys \cup {NoKey}, b \in BOOLEAN :
        req' = [req EXCEPT ![r].stage = "open", ![r].key = k, ![r].replay = b]
  BY DEF Begin
<1>3. /\ \A q \in Requests : q # r => req'[q] = req[q]
      /\ req'[r] = [req[r] EXCEPT !.stage = "open", !.key = k, !.replay = b]
  BY <1>2 DEF Inv, TypeOK
<1>4. "open" \in Working
  BY DEF Working
<1>5. req'[r] \in Request /\ req'[r].stage = "open"
  BY <1>1, <1>3, <1>4 DEF Request
<1>6. req' \in [Requests -> Request]
  BY <1>2, <1>3, <1>5 DEF Inv, TypeOK
<1>7. TypeOK'
  BY <1>1, <1>6 DEF Inv, TypeOK
<1>8. \A m \in rows : m.id \in Requests /\ m.id # r
  BY <1>1 DEF Inv, TypeOK, Row, RowsBelong
<1>9. RowsBelong'
  BY <1>1, <1>3, <1>8 DEF Inv, RowsBelong
<1>10. RowsUnique' /\ FanoutsStored'
  BY <1>1 DEF Inv, RowsUnique, FanoutsStored
<1>11. AnswersName'
  <2>1. rows' = rows /\ req'[r].stage = "open" /\ \A q \in Requests : q # r => req'[q] = req[q]
    BY <1>1, <1>3, <1>5
  <2>. QED  BY <2>1 DEF Inv, AnswersName
<1>. QED  BY <1>11, <1>7, <1>9, <1>10 DEF Inv

\* Erasing rows keeps their ids, senders and keys.
LEMMA DeleteStep ==
  ASSUME Inv, NEW s \in Senders, DeleteAccount(s)
  PROVE  Inv'
<1> DEFINE erase(m) == IF m.sender = s THEN [m EXCEPT !.status = "DELETED", !.text = Erased] ELSE m
<1>1. /\ rows' = {erase(m) : m \in rows} /\ UNCHANGED <<muted, req, fanouts>>
      /\ deleted' = deleted \cup {s} /\ open' = FALSE
  BY DEF DeleteAccount
<1>2. ASSUME NEW m \in rows
      PROVE  /\ erase(m) \in Row /\ erase(m).id = m.id /\ erase(m).sender = m.sender
             /\ erase(m).key = m.key /\ erase(m).text \in {m.text, Erased}
  <2>1. m \in Row
    BY DEF Inv, TypeOK
  <2>. QED  BY <2>1 DEF Row
<1> HIDE DEF erase
<1>3. TypeOK'
  BY <1>1, <1>2 DEF Inv, TypeOK
<1>4. RowsBelong'
  <2>1. SUFFICES ASSUME NEW m \in rows
                 PROVE  /\ req[m.id].stage \in {"fanout", "replied", "died"}
                        /\ m.sender = req[m.id].sender /\ m.key = req[m.id].key
                        /\ erase(m).text \in {req[m.id].text, Erased}
                        /\ req[m.id].stage = "replied" => fanouts[m.id] = 1 /\ req[m.id].reply = m.id
                        /\ req[m.id].stage # "replied" => fanouts[m.id] = 0
    BY <1>1, <1>2 DEF RowsBelong, At
  <2>. QED  BY <1>2, <2>1 DEF Inv, RowsBelong, At
<1>5. RowsUnique'
  <2>1. SUFFICES ASSUME NEW m \in rows, NEW n \in rows,
                        m.id = n.id \/ (m.sender = n.sender /\ m.key = n.key /\ m.key # NoKey)
                 PROVE  m = n
    BY <1>1, <1>2 DEF RowsUnique
  <2>. QED  BY <2>1 DEF Inv, RowsUnique
<1>6. FanoutsStored'
  BY <1>1, <1>2 DEF Inv, FanoutsStored
<1>7. AnswersName'
  <2>1. \A m \in rows : \E n \in rows' :
          /\ n.id = m.id /\ n.sender = m.sender /\ n.key = m.key /\ n.text \in {m.text, Erased}
    BY <1>1, <1>2
  <2>. QED  BY <1>1, <2>1 DEF Inv, AnswersName, At
<1>. QED  BY <1>3, <1>4, <1>5, <1>6, <1>7 DEF Inv

----------------------------------------------------------------------------
(* The invariant, and what it gives.                                       *)

\* One step of the specification.
LEMMA NextStep == ConstantsAssumption /\ Inv /\ [Next]_vars => Inv'
<1> SUFFICES ASSUME ConstantsAssumption, Inv, [Next]_vars PROVE Inv'
  OBVIOUS
<1> USE DEF At
<1>q. ASSUME NEW r \in Requests, NEW x, Quiet(r, x), UNCHANGED <<open, deleted, rows, fanouts>>,
             muted' \subseteq Senders
      PROVE  Inv'
  BY <1>q, QuietStep DEF Inv, TypeOK
<1>1. CASE UNCHANGED vars
  BY <1>1 DEF vars, Inv, TypeOK, RowsBelong, RowsUnique, FanoutsStored, AnswersName
<1>2. ASSUME NEW r \in Requests, Begin(r) PROVE Inv'
  BY <1>2, BeginStep
<1>3. ASSUME NEW r \in Requests, Step(r) PROVE Inv'
  <2>1. CASE CheckOpen(r)
    BY <2>1, <1>q DEF CheckOpen, Quiet, Working, Ended, Inv, TypeOK
  <2>2. CASE Lookup(r)
    <3>1. req[r].stage \in Working \ {"fanout"} /\ UNCHANGED <<open, deleted, muted, rows, fanouts>>
      BY <2>2 DEF Lookup, Working
    <3>2. CASE Found(r) = {}
      BY <2>2, <3>1, <3>2, <1>q DEF Lookup, Quiet, Working, Inv, TypeOK
    <3>3. CASE \E m \in Found(r) : ReplyWith(r, m)
      BY <3>1, <3>3, ReplyStep
    <3>. QED  BY <2>2, <3>2, <3>3 DEF Lookup
  <2>3. CASE CheckMuted(r)
    BY <2>3, <1>q DEF CheckMuted, Quiet, Working, Ended, Inv, TypeOK
  <2>4. CASE Moderate(r)
    BY <2>4, <1>q DEF Moderate, Quiet, Working, Ended, Inv, TypeOK
  <2>5. CASE Strike(r)
    BY <2>5, <1>q DEF Strike, Quiet, Working, Inv, TypeOK
  <2>6. CASE Enforce(r)
    <3>1. req[r].sender \in Senders /\ muted \subseteq Senders
      BY DEF Inv, TypeOK, Request
    <3>2. muted' \subseteq Senders
      BY <2>6, <3>1 DEF Enforce
    <3>. QED  BY <2>6, <3>2, <1>q DEF Enforce, Quiet, Working, Ended
  <2>7. CASE TakeSlot(r)
    BY <2>7, <1>q DEF TakeSlot, Quiet, Working, Ended, Inv, TypeOK
  <2>8. CASE LookupAgain(r)
    <3>1. req[r].stage \in Working \ {"fanout"} /\ UNCHANGED <<open, deleted, muted, rows, fanouts>>
      BY <2>8 DEF LookupAgain, Working
    <3>2. CASE Found(r) = {}
      BY <2>8, <3>1, <3>2, <1>q DEF LookupAgain, Quiet, Working, Inv, TypeOK
    <3>3. CASE \E m \in Found(r) : ReplyWith(r, m)
      BY <3>1, <3>3, ReplyStep
    <3>. QED  BY <2>8, <3>2, <3>3 DEF LookupAgain
  <2>9. CASE Insert(r)
    BY <2>9, InsertStep
  <2>10. CASE Relookup(r)
    <3>1. req[r].stage \in Working \ {"fanout"} /\ UNCHANGED <<open, deleted, muted, rows, fanouts>>
      BY <2>10 DEF Relookup, Working
    <3>2. CASE Found(r) = {}
      BY <2>10, <3>1, <3>2, <1>q DEF Relookup, Quiet, Ended, Inv, TypeOK
    <3>3. CASE \E m \in Found(r) : ReplyWith(r, m)
      BY <3>1, <3>3, ReplyStep
    <3>. QED  BY <2>10, <3>2, <3>3 DEF Relookup
  <2>11. CASE FanOut(r)
    BY <2>11, FanOutStep
  <2>. QED  BY <1>3, <2>1, <2>2, <2>3, <2>4, <2>5, <2>6, <2>7, <2>8, <2>9, <2>10, <2>11 DEF Step
<1>4. ASSUME NEW r \in Requests, Die(r) PROVE Inv'
  BY <1>4, DieStep
<1>5. CASE Unmatch \/ Rematch \/ \E s \in Senders : MuteRunsOut(s)
  <2>1. UNCHANGED <<deleted, rows, req, fanouts>> /\ open' \in BOOLEAN /\ muted' \subseteq Senders
    BY <1>5 DEF Unmatch, Rematch, MuteRunsOut, Inv, TypeOK
  <2>2. TypeOK'
    BY <2>1 DEF Inv, TypeOK
  <2>3. RowsBelong' /\ RowsUnique' /\ FanoutsStored'
    BY <2>1 DEF Inv, RowsBelong, RowsUnique, FanoutsStored
  <2>4. AnswersName'
    BY <2>1 DEF Inv, AnswersName
  <2>. QED  BY <2>2, <2>3, <2>4 DEF Inv
<1>6. ASSUME NEW s \in Senders, DeleteAccount(s) PROVE Inv'
  BY <1>6, DeleteStep
<1>. QED  BY <1>1, <1>2, <1>3, <1>4, <1>5, <1>6 DEF Next

\* The strengthened invariant holds throughout.
THEOREM Invariant == Spec => []Inv
<1>1. ASSUME Init PROVE Inv
  <2>1. \A r \in Requests : req[r] \in Request /\ req[r].stage = "idle"
    BY <1>1 DEF Init, Request
  <2>2. req \in [Requests -> Request]
    BY <1>1, <2>1 DEF Init
  <2>3. TypeOK
    BY <1>1, <2>2 DEF Init, TypeOK
  <2>4. RowsBelong /\ RowsUnique /\ FanoutsStored
    BY <1>1 DEF Init, RowsBelong, RowsUnique, FanoutsStored
  <2>5. AnswersName
    BY <2>1 DEF AnswersName, At
  <2>. QED  BY <2>3, <2>4, <2>5 DEF Inv
<1>2. Inv /\ [Next]_vars => Inv'
  BY NextStep, ConstantsAssumption
<1>. QED  BY <1>1, <1>2, PTL DEF Spec

\* The type invariant.
THEOREM TypeCorrect == Spec => []TypeOK
<1>1. Inv => TypeOK
  BY DEF Inv
<1>. QED  BY <1>1, Invariant, PTL

\* Successful answers under one key name one message, with the posted text.
THEOREM AnswersAgree == Spec => []RepliesAgree
<1>1. Inv => RepliesAgree
  <2> SUFFICES ASSUME Inv, NEW r \in Requests, At(r, "replied")
               PROVE  /\ \E m \in rows :
                           /\ m.id = req[r].reply /\ m.sender = req[r].sender
                           /\ m.text \in {req[r].text, Erased}
                      /\ \A q \in Requests :
                           /\ At(q, "replied") /\ q # r
                           /\ req[q].sender = req[r].sender /\ req[q].key = req[r].key
                           /\ req[r].key # NoKey
                           => req[q].reply = req[r].reply
    BY DEF RepliesAgree
  <2>1. PICK m \in rows : /\ m.id = req[r].reply /\ m.sender = req[r].sender
                          /\ m.key = req[r].key /\ m.text \in {req[r].text, Erased}
    BY DEF Inv, AnswersName
  <2>2. ASSUME NEW q \in Requests, At(q, "replied"),
               req[q].sender = req[r].sender, req[q].key = req[r].key, req[r].key # NoKey
        PROVE  req[q].reply = req[r].reply
    <3>1. PICK n \in rows : n.id = req[q].reply /\ n.sender = req[q].sender /\ n.key = req[q].key
      BY <2>2 DEF Inv, AnswersName
    <3>2. m = n
      BY <2>1, <2>2, <3>1 DEF Inv, RowsUnique
    <3>. QED  BY <2>1, <3>1, <3>2
  <2>. QED  BY <2>1, <2>2
<1>. QED  BY <1>1, Invariant, PTL

\* The side effects of a message happen at most once, and only a death between the insert
\* and the fan-out keeps a stored message from them.
THEOREM FanOutExact == Spec => []FanOutFollowsInsert
<1>1. Inv => FanOutFollowsInsert
  <2>1. ASSUME Inv, NEW r \in Requests
        PROVE  fanouts[r] <= 1 /\ (fanouts[r] = 1 => \E m \in rows : m.id = r)
    <3>1. CASE \A m \in rows : m.id # r
      BY <2>1, <3>1 DEF Inv, FanoutsStored
    <3>2. CASE \E m \in rows : m.id = r
      <4>1. fanouts[r] \in {0, 1}
        BY <2>1, <3>2 DEF Inv, RowsBelong
      <4>. QED  BY <3>2, <4>1
    <3>. QED  BY <3>1, <3>2
  <2>2. ASSUME Inv, NEW m \in rows
        PROVE  fanouts[m.id] = 1 \/ req[m.id].stage \in {"fanout", "died"}
    BY <2>2 DEF Inv, RowsBelong, At
  <2>. QED  BY <2>1, <2>2 DEF FanOutFollowsInsert
<1>. QED  BY <1>1, Invariant, PTL

----------------------------------------------------------------------------
(* Retries of stored messages.                                             *)

Free(r) ==
  req[r].replay /\ req[r].sender \notin deleted =>
    /\ req[r].stage \in {"open", "lookup", "replied", "refused", "died"}
    /\ req[r].stage \in {"open", "lookup"} => Found(r) # {}

\* What makes ReplayIsFree inductive: the row such a retry will find is there.
ReplayInv == \A r \in Requests : Free(r)

\* Steps of one request: the others still find their rows.
LEMMA OthersStayFree ==
  ASSUME ReplayInv, NEW r \in Requests, Free(r)',
         \A q \in Requests : q # r => req'[q] = req[q],
         rows \subseteq rows', deleted' = deleted
  PROVE  ReplayInv'
<1> SUFFICES ASSUME NEW q \in Requests, q # r PROVE Free(q)'
  BY DEF ReplayInv
<1>1. req'[q] = req[q]
  OBVIOUS
<1>2. Found(q) \subseteq Found(q)'
  BY <1>1 DEF Found, Clash
<1>. QED  BY <1>1, <1>2 DEF ReplayInv, Free

\* A request past the lookup is not a free retry and cannot become one.
LEMMA BusyStep ==
  ASSUME Inv, ReplayInv, NEW r \in Requests,
         req[r].stage \notin {"idle", "open", "lookup", "replied", "refused", "died"},
         \A q \in Requests : q # r => req'[q] = req[q],
         req'[r].replay = req[r].replay, req'[r].sender = req[r].sender,
         rows \subseteq rows', deleted' = deleted
  PROVE  ReplayInv'
<1>1. Free(r)'
  BY DEF ReplayInv, Free
<1>. QED  BY <1>1, OthersStayFree

LEMMA ReplayStep == Inv /\ ReplayInv /\ [Next]_vars => ReplayInv'
<1> SUFFICES ASSUME Inv, ReplayInv, [Next]_vars PROVE ReplayInv'
  OBVIOUS
<1> USE DEF At
<1>t. req \in [Requests -> Request] /\ \A r \in Requests : req[r] \in Request
  BY DEF Inv, TypeOK
<1>g. ASSUME NEW r \in Requests, NEW x, Goto(r, x)
      PROVE  /\ \A q \in Requests : q # r => req'[q] = req[q]
             /\ req'[r].stage = x /\ req'[r].replay = req[r].replay
             /\ req'[r].sender = req[r].sender /\ req'[r].key = req[r].key
  <2>1. req'[r] = [req[r] EXCEPT !.stage = x] /\ \A q \in Requests : q # r => req'[q] = req[q]
    BY <1>g, <1>t DEF Goto
  <2>. QED  BY <2>1, <1>t DEF Request
<1>w. ASSUME NEW r \in Requests, NEW m, ReplyWith(r, m)
      PROVE  /\ \A q \in Requests : q # r => req'[q] = req[q]
             /\ req'[r].stage \in {"replied", "refused"} /\ req'[r].replay = req[r].replay
             /\ req'[r].sender = req[r].sender /\ req'[r].key = req[r].key
  <2>1. CASE m.text = req[r].text
    <3>1. /\ req'[r] = [req[r] EXCEPT !.stage = "replied", !.reply = m.id]
          /\ \A q \in Requests : q # r => req'[q] = req[q]
      BY <1>w, <1>t, <2>1 DEF ReplyWith
    <3>. QED  BY <3>1, <1>t DEF Request
  <2>2. CASE m.text # req[r].text
    <3>1. Goto(r, "refused")
      BY <1>w, <2>2 DEF ReplyWith, Goto
    <3>. QED  BY <3>1, <1>g
  <2>. QED  BY <2>1, <2>2
<1>1. CASE UNCHANGED vars
  BY <1>1 DEF vars, ReplayInv, Free, Found, Clash
<1>2. ASSUME NEW r \in Requests, Begin(r) PROVE ReplayInv'
  <2>1. PICK k \in Keys \cup {NoKey} :
          req' = [req EXCEPT ![r].stage = "open", ![r].key = k,
                    ![r].replay = \E m \in rows :
                      k # NoKey /\ m.key = k /\ m.sender = req[r].sender /\ m.status = "SENT"]
    BY <1>2 DEF Begin
  <2> DEFINE stored == \E m \in rows :
                         k # NoKey /\ m.key = k /\ m.sender = req[r].sender /\ m.status = "SENT"
  <2>2. /\ \A q \in Requests : q # r => req'[q] = req[q]
        /\ req'[r] = [req[r] EXCEPT !.stage = "open", !.key = k, !.replay = stored]
    BY <2>1, <1>t
  <2>3. /\ req'[r].stage = "open" /\ req'[r].key = k /\ req'[r].sender = req[r].sender
        /\ req'[r].replay = stored
    BY <2>2, <1>t, Zenon DEF Request
  <2>4. rows' = rows /\ deleted' = deleted
    BY <1>2 DEF Begin
  <2>5. stored => Found(r)' # {}
    BY <2>3, <2>4 DEF Found, Clash
  <2>6. Free(r)'
    BY <2>3, <2>5, Zenon DEF Free
  <2>. QED  BY <2>2, <2>4, <2>6, OthersStayFree
<1>3. ASSUME NEW r \in Requests, CheckOpen(r) PROVE ReplayInv'
  <2>1. PICK x \in {"lookup", "refused"} : Goto(r, x)
    BY <1>3 DEF CheckOpen
  <2>2. rows' = rows /\ deleted' = deleted /\ req[r].stage = "open"
    BY <1>3 DEF CheckOpen
  <2>3. Found(r)' = Found(r)
    BY <1>g, <2>1, <2>2 DEF Found, Clash
  <2>4. Free(r)'
    BY <1>g, <2>1, <2>2, <2>3 DEF ReplayInv, Free
  <2>. QED  BY <1>g, <2>1, <2>2, <2>4, OthersStayFree
<1>4. ASSUME NEW r \in Requests, Lookup(r) PROVE ReplayInv'
  <2>1. rows' = rows /\ deleted' = deleted /\ req[r].stage = "lookup"
    BY <1>4 DEF Lookup
  <2>2. CASE Found(r) = {}
    <3>1. Goto(r, "mute")
      BY <1>4, <2>2 DEF Lookup
    <3>2. Free(r)'
      BY <1>g, <2>1, <2>2, <3>1 DEF ReplayInv, Free
    <3>. QED  BY <1>g, <2>1, <3>1, <3>2, OthersStayFree
  <2>3. CASE \E m \in Found(r) : ReplyWith(r, m)
    <3>1. PICK m \in Found(r) : ReplyWith(r, m)
      BY <2>3
    <3>2. Free(r)'
      BY <1>w, <3>1 DEF Free
    <3>. QED  BY <1>w, <2>1, <3>1, <3>2, OthersStayFree
  <2>. QED  BY <1>4, <2>2, <2>3 DEF Lookup
<1>5. ASSUME NEW r \in Requests,
             CheckMuted(r) \/ Moderate(r) \/ Strike(r) \/ Enforce(r) \/ TakeSlot(r) \/ FanOut(r)
      PROVE  ReplayInv'
  <2>1. /\ req[r].stage \in {"mute", "moderate", "strike", "enforce", "slot", "fanout"}
        /\ rows' = rows /\ deleted' = deleted /\ \E x \in Working \cup Ended : Goto(r, x)
    BY <1>5 DEF CheckMuted, Moderate, Strike, Enforce, TakeSlot, FanOut, Working, Ended
  <2>. QED  BY <1>g, <2>1, BusyStep
<1>6. ASSUME NEW r \in Requests, LookupAgain(r) \/ Relookup(r) PROVE ReplayInv'
  <2>1. req[r].stage \in {"lookupAgain", "relookup"} /\ rows' = rows /\ deleted' = deleted
    BY <1>6 DEF LookupAgain, Relookup
  <2>2. (\E x : Goto(r, x)) \/ (\E m : ReplyWith(r, m))
    BY <1>6 DEF LookupAgain, Relookup
  <2>. QED  BY <1>g, <1>w, <2>1, <2>2, BusyStep
<1>7. ASSUME NEW r \in Requests, Insert(r) PROVE ReplayInv'
  <2>1. req[r].stage = "insert" /\ rows \subseteq rows' /\ deleted' = deleted
    BY <1>7 DEF Insert
  <2>2. CASE Clash(r) = {}
    <3>1. /\ req'[r] = [req[r] EXCEPT !.stage = "fanout", !.reply = r]
          /\ \A q \in Requests : q # r => req'[q] = req[q]
      BY <1>7, <1>t, <2>2 DEF Insert
    <3>2. req'[r].replay = req[r].replay /\ req'[r].sender = req[r].sender
      BY <3>1, <1>t DEF Request
    <3>. QED  BY <2>1, <3>1, <3>2, BusyStep
  <2>3. CASE Clash(r) # {}
    <3>1. Goto(r, "relookup")
      BY <1>7, <2>3 DEF Insert
    <3>. QED  BY <1>g, <2>1, <3>1, BusyStep
  <2>. QED  BY <2>2, <2>3
<1>8. ASSUME NEW r \in Requests, Die(r) PROVE ReplayInv'
  <2>1. Goto(r, "died") /\ rows' = rows /\ deleted' = deleted
    BY <1>8 DEF Die
  <2>2. Free(r)'
    BY <1>g, <2>1 DEF Free
  <2>. QED  BY <1>g, <2>1, <2>2, OthersStayFree
<1>9. CASE Unmatch \/ Rematch \/ \E s \in Senders : MuteRunsOut(s)
  BY <1>9 DEF Unmatch, Rematch, MuteRunsOut, ReplayInv, Free, Found, Clash
<1>10. ASSUME NEW s \in Senders, DeleteAccount(s) PROVE ReplayInv'
  <2> SUFFICES ASSUME NEW r \in Requests, req'[r].replay, req'[r].sender \notin deleted'
               PROVE  /\ req'[r].stage \in {"open", "lookup", "replied", "refused", "died"}
                      /\ req'[r].stage \in {"open", "lookup"} => Found(r)' # {}
    BY DEF ReplayInv, Free
  <2>1. req' = req /\ req[r].sender # s /\ req[r].sender \notin deleted
    BY <1>10 DEF DeleteAccount
  <2>2. \A m \in rows : m.sender # s => m \in rows'
    BY <1>10 DEF DeleteAccount
  <2>3. Found(r) \subseteq Found(r)'
    BY <2>1, <2>2 DEF Found, Clash
  <2>. QED  BY <2>1, <2>3 DEF ReplayInv, Free
<1>. QED  BY <1>1, <1>2, <1>3, <1>4, <1>5, <1>6, <1>7, <1>8, <1>9, <1>10 DEF Next, Step

\* A retry of a stored message costs nothing and is refused by no mute.
THEOREM RetriesAreFree == Spec => []ReplayIsFree
<1>1. Init => ReplayInv
  <2> SUFFICES ASSUME Init, NEW r \in Requests PROVE Free(r)
    BY DEF ReplayInv
  <2>1. req[r].replay = FALSE
    BY DEF Init
  <2>. QED  BY <2>1 DEF Free
<1>2. ReplayInv => ReplayIsFree
  BY DEF ReplayInv, Free, ReplayIsFree
<1>. QED  BY <1>1, <1>2, ReplayStep, Invariant, PTL DEF Spec
=============================================================================
