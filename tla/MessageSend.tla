---------------------------- MODULE MessageSend ----------------------------
(***************************************************************************)
(* POST /me/conversations/:id/messages on one conversation: concurrent     *)
(* requests, first attempts and retries under a client key alike, racing   *)
(* unmatch, rematch and the deletion of an account.  One action per await  *)
(* of sendMessage.  A message is named by the request that inserted it.    *)
(*                                                                         *)
(* Which strike mutes a sender and which send is one too many per minute   *)
(* are left open: every outcome is allowed.                                *)
(***************************************************************************)
EXTENDS Naturals, FiniteSets

CONSTANTS
  Senders,   \* the two participants
  Keys,      \* client message ids
  NoKey,     \* no client message id
  Texts,     \* message texts
  Flagged,   \* the texts that moderation rejects
  Requests,  \* bound on the requests of a run
  None,      \* no message
  Crashes    \* whether the server may die in a request

ASSUME ConstantsAssumption ==
  /\ NoKey \notin Keys /\ None \notin Requests
  /\ Flagged \subseteq Texts /\ "[deleted user]" \notin Texts
  /\ Crashes \in BOOLEAN

VARIABLES
  open,     \* MutualMatch.status = ACTIVE
  deleted,  \* senders who have deleted their account
  muted,    \* senders with a running messaging mute
  rows,     \* the Message table
  req,      \* the requests
  fanouts   \* per message, how often it has been fanned out

vars == <<open, deleted, muted, rows, req, fanouts>>

Erased == "[deleted user]"

Working == {"open", "lookup", "mute", "moderate", "strike", "enforce", "slot",
            "lookupAgain", "insert", "relookup", "fanout"}
Ended == {"replied", "refused", "failed", "died"}
Row == [id : Requests, sender : Senders, key : Keys \cup {NoKey}, text : Texts \cup {Erased},
        status : {"SENT", "DELETED"}]
Request == [stage : Working \cup Ended \cup {"idle"}, sender : Senders,
            key : Keys \cup {NoKey}, text : Texts, reply : Requests \cup {None},
            replay : BOOLEAN]  \* history: its message was stored when it began

TypeOK ==
  /\ open \in BOOLEAN
  /\ deleted \subseteq Senders /\ muted \subseteq Senders
  /\ rows \subseteq Row
  /\ req \in [Requests -> Request]
  /\ fanouts \in [Requests -> Nat]

Init ==
  /\ open = TRUE
  /\ deleted = {} /\ muted = {}
  /\ rows = {}
  /\ req \in [Requests -> [stage : {"idle"}, sender : Senders, key : {NoKey}, text : Texts,
                           reply : {None}, replay : {FALSE}]]
  /\ fanouts = [r \in Requests |-> 0]

----------------------------------------------------------------------------
At(r, stage) == req[r].stage = stage
Goto(r, stage) == req' = [req EXCEPT ![r].stage = stage]

\* The unique key of a message; rows without a client key never clash.
Clash(r) == {m \in rows : req[r].key # NoKey /\ m.sender = req[r].sender /\ m.key = req[r].key}

\* findSentMessageByClientKey
Found(r) == {m \in Clash(r) : m.status = "SENT"}

\* (Definitions named Mutant... are plausible bugs in the definition that
\* follows them; no specification uses them.)
MutantReplyWith(r, m) ==  \* no comparison of the texts
  req' = [req EXCEPT ![r].stage = "replied", ![r].reply = m.id]

\* A replay answers with the row it found, if that has the text it was given.
ReplyWith(r, m) ==
  req' = IF m.text = req[r].text
         THEN [req EXCEPT ![r].stage = "replied", ![r].reply = m.id]
         ELSE [req EXCEPT ![r].stage = "refused"]

----------------------------------------------------------------------------
\* A client posts, with or without a key, for the first time or again.
Begin(r) ==
  /\ At(r, "idle") /\ req[r].sender \notin deleted
  /\ \E k \in Keys \cup {NoKey} :
       req' = [req EXCEPT ![r].stage = "open", ![r].key = k,
                 ![r].replay = \E m \in rows :
                   k # NoKey /\ m.key = k /\ m.sender = req[r].sender /\ m.status = "SENT"]
  /\ UNCHANGED <<open, deleted, muted, rows, fanouts>>

CheckOpen(r) ==
  /\ At(r, "open")
  /\ Goto(r, IF open THEN "lookup" ELSE "refused")
  /\ UNCHANGED <<open, deleted, muted, rows, fanouts>>

MutantLookup(r) ==  \* no lookup before moderation
  /\ At(r, "lookup")
  /\ Goto(r, "mute")
  /\ UNCHANGED <<open, deleted, muted, rows, fanouts>>

Lookup(r) ==
  /\ At(r, "lookup")
  /\ IF Found(r) = {} THEN Goto(r, "mute") ELSE \E m \in Found(r) : ReplyWith(r, m)
  /\ UNCHANGED <<open, deleted, muted, rows, fanouts>>

CheckMuted(r) ==
  /\ At(r, "mute")
  /\ Goto(r, IF req[r].sender \in muted THEN "refused" ELSE "moderate")
  /\ UNCHANGED <<open, deleted, muted, rows, fanouts>>

\* The moderation service may also fail.
Moderate(r) ==
  /\ At(r, "moderate")
  /\ \/ Goto(r, IF req[r].text \in Flagged THEN "strike" ELSE "slot")
     \/ Goto(r, "failed")
  /\ UNCHANGED <<open, deleted, muted, rows, fanouts>>

\* recordViolation, and the counts that enforceViolationThreshold reads.
Strike(r) ==
  /\ At(r, "strike")
  /\ Goto(r, "enforce")
  /\ UNCHANGED <<open, deleted, muted, rows, fanouts>>

Enforce(r) ==
  /\ At(r, "enforce")
  /\ muted' \in {muted, muted \cup {req[r].sender}}
  /\ Goto(r, "refused")
  /\ UNCHANGED <<open, deleted, rows, fanouts>>

TakeSlot(r) ==
  /\ At(r, "slot")
  /\ \/ Goto(r, "lookupAgain")
     \/ Goto(r, "refused")
  /\ UNCHANGED <<open, deleted, muted, rows, fanouts>>

LookupAgain(r) ==
  /\ At(r, "lookupAgain")
  /\ IF Found(r) = {} THEN Goto(r, "insert") ELSE \E m \in Found(r) : ReplyWith(r, m)
  /\ UNCHANGED <<open, deleted, muted, rows, fanouts>>

\* The insert fails on a clash with the unique key.
Insert(r) ==
  /\ At(r, "insert")
  /\ IF Clash(r) = {}
     THEN /\ rows' = rows \cup {[id |-> r, sender |-> req[r].sender, key |-> req[r].key,
                                 text |-> req[r].text, status |-> "SENT"]}
          /\ req' = [req EXCEPT ![r].stage = "fanout", ![r].reply = r]
     ELSE Goto(r, "relookup") /\ UNCHANGED rows
  /\ UNCHANGED <<open, deleted, muted, fanouts>>

MutantRelookup(r) ==  \* reported as created
  /\ At(r, "relookup")
  /\ IF Found(r) = {} THEN Goto(r, "failed")
     ELSE \E m \in Found(r) : req' = [req EXCEPT ![r].stage = "fanout", ![r].reply = m.id]
  /\ UNCHANGED <<open, deleted, muted, rows, fanouts>>

Relookup(r) ==
  /\ At(r, "relookup")
  /\ IF Found(r) = {} THEN Goto(r, "failed") ELSE \E m \in Found(r) : ReplyWith(r, m)
  /\ UNCHANGED <<open, deleted, muted, rows, fanouts>>

\* afterPersistBestEffort: socket event, e-mail and push are all started here.
FanOut(r) ==
  /\ At(r, "fanout")
  /\ fanouts' = [fanouts EXCEPT ![req[r].reply] = @ + 1]
  /\ Goto(r, "replied")
  /\ UNCHANGED <<open, deleted, muted, rows>>

Die(r) ==
  /\ Crashes
  /\ req[r].stage \in Working
  /\ Goto(r, "died")
  /\ UNCHANGED <<open, deleted, muted, rows, fanouts>>

----------------------------------------------------------------------------
(* What else happens to the conversation and its senders.                  *)

Unmatch ==
  /\ open
  /\ open' = FALSE
  /\ UNCHANGED <<deleted, muted, rows, req, fanouts>>

Rematch ==
  /\ ~open /\ deleted = {}
  /\ open' = TRUE
  /\ UNCHANGED <<deleted, muted, rows, req, fanouts>>

MuteRunsOut(s) ==
  /\ s \in muted
  /\ muted' = muted \ {s}
  /\ UNCHANGED <<open, deleted, rows, req, fanouts>>

MutantDeleteAccount(s) ==  \* the text is nulled
  /\ s \notin deleted
  /\ deleted' = deleted \cup {s}
  /\ open' = FALSE
  /\ rows' = {IF m.sender = s THEN [m EXCEPT !.status = "DELETED", !.text = None] ELSE m : m \in rows}
  /\ UNCHANGED <<muted, req, fanouts>>

\* One transaction ends the conversation and erases the sender's messages.
DeleteAccount(s) ==
  /\ s \notin deleted
  /\ deleted' = deleted \cup {s}
  /\ open' = FALSE
  /\ rows' = {IF m.sender = s THEN [m EXCEPT !.status = "DELETED", !.text = Erased] ELSE m :
                m \in rows}
  /\ UNCHANGED <<muted, req, fanouts>>

Step(r) ==
  \/ CheckOpen(r) \/ Lookup(r) \/ CheckMuted(r) \/ Moderate(r) \/ Strike(r) \/ Enforce(r)
  \/ TakeSlot(r) \/ LookupAgain(r) \/ Insert(r) \/ Relookup(r) \/ FanOut(r)

Next ==
  \/ \E r \in Requests : Begin(r) \/ Step(r) \/ Die(r)
  \/ Unmatch \/ Rematch
  \/ \E s \in Senders : MuteRunsOut(s) \/ DeleteAccount(s)

Spec == Init /\ [][Next]_vars

----------------------------------------------------------------------------
\* All successful answers to one sender and key name the same message, and it
\* has the text that was posted (until it is erased), however many attempts overlap.
RepliesAgree ==
  \A r \in Requests : At(r, "replied") =>
    /\ \E m \in rows :
         /\ m.id = req[r].reply /\ m.sender = req[r].sender
         /\ m.text \in {req[r].text, Erased}
    /\ \A q \in Requests :
         /\ At(q, "replied") /\ q # r
         /\ req[q].sender = req[r].sender /\ req[q].key = req[r].key /\ req[r].key # NoKey
         => req[q].reply = req[r].reply

\* The side effects of a message belong to the attempt that inserted it: it is fanned out
\* at most once and only after it was stored, and a stored message has been fanned out
\* unless the request that stored it is just about to do so or died before it could.
FanOutFollowsInsert ==
  /\ \A r \in Requests : fanouts[r] <= 1 /\ (fanouts[r] = 1 => \E m \in rows : m.id = r)
  /\ \A m \in rows : fanouts[m.id] = 1 \/ req[m.id].stage \in {"fanout", "died"}

\* A retry of a message already stored is neither moderated nor counted again,
\* and a mute does not refuse it, unless its sender's account goes meanwhile.
ReplayIsFree ==
  \A r \in Requests :
    req[r].replay /\ req[r].sender \notin deleted =>
      req[r].stage \in {"open", "lookup", "replied", "refused", "died"}
=============================================================================
