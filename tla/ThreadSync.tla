----------------------------- MODULE ThreadSync -----------------------------
(***************************************************************************)
(* The open conversation in the browser against the server's message log:  *)
(* first page and refetch, message.new events over a socket that may drop, *)
(* catch-up after a reconnect, polling, and optimistic sends.              *)
(*                                                                         *)
(* A message is its position in the server's (createdAt, id) order.  The   *)
(* bounds keep the log shorter than a page (30) and a catch-up (100).  The *)
(* ref that mirrors the cached thread is taken to be up to date.           *)
(***************************************************************************)
EXTENDS Naturals, Sequences, FiniteSets, SequencesExt

CONSTANTS
  MaxMessages,  \* bound on the messages of the conversation
  MaxMishaps,   \* bound on the mishaps of a run
  MaxPolls,     \* bound on the polls in flight
  Scenarios     \* what may happen: mode "ws" or "poll", whether the viewer sends, mishaps,
                \* and how many messages are there when the page is opened

ASSUME BoundsAssumption == MaxMessages \in Nat /\ MaxMishaps \in Nat /\ MaxPolls \in Nat

Kinds == {"disconnect", "overlap", "slowJoin", "fetchFails", "sendFails", "sendOffline",
          "refetch", "lateCommit", "reorder", "lostEvent"}
ASSUME ScenariosAssumption ==
  Scenarios \subseteq [mode : {"ws", "poll"}, sends : BOOLEAN, mishaps : SUBSET Kinds,
                       preloaded : 0 .. MaxMessages]

VARIABLES
  scenario,   \* the scenario of this run
  next,       \* the next position the server's clock hands out
  stored,     \* committed messages
  late,       \* messages with a position whose insert has not committed
  published,  \* messages whose message.new has been emitted
  thread,     \* the cached thread, in display order
  loaded,     \* the first page has been shown, and the socket handlers are attached
  connected,  \* the socket, as the browser sees it
  joined,     \* the server has joined the socket to its user's room
  wire,       \* events on their way to the browser
  page,       \* the page query
  after,      \* the catch-up and poll requests in flight
  send,       \* the send mutation; before: the snapshot its onMutate took
  mishaps     \* how many mishaps have happened

server == <<next, stored, late, published>>
socket == <<connected, joined>>
vars == <<scenario, server, thread, loaded, socket, wire, page, after, send, mishaps>>

Messages == 1 .. MaxMessages
Pending == 0  \* the optimistic row, whose id starts with pending-
Requests == [answered : BOOLEAN, cursor : Messages, reply : Seq(Messages)]
NoQuery == [stage |-> "none", reply |-> <<>>]
NoSend == [stage |-> "none", id |-> 0, before |-> <<>>]

TypeOK ==
  /\ scenario \in Scenarios
  /\ next \in 1 .. MaxMessages + 1
  /\ stored \subseteq Messages /\ late \subseteq Messages /\ published \subseteq Messages
  /\ thread \in Seq(Messages \cup {Pending})
  /\ loaded \in BOOLEAN /\ connected \in BOOLEAN /\ joined \in BOOLEAN
  /\ wire \in Seq(Messages)
  /\ page \in [stage : {"none", "asked", "answered"}, reply : Seq(Messages)]
  /\ after \subseteq Requests
  /\ send \in [stage : {"none", "posted", "stored"}, id : Messages \cup {0},
               before : Seq(Messages)]
  /\ mishaps \in 0 .. MaxMishaps

Init ==
  /\ scenario \in Scenarios
  /\ next = scenario.preloaded + 1
  /\ stored = 1 .. scenario.preloaded /\ late = {} /\ published = stored
  /\ thread = <<>> /\ loaded = FALSE
  /\ connected = FALSE /\ joined = FALSE /\ wire = <<>>
  /\ page = NoQuery /\ after = {} /\ send = NoSend
  /\ mishaps = 0

May(kind) == kind \in scenario.mishaps
Mishap == mishaps < MaxMishaps /\ mishaps' = mishaps + 1
Smooth == UNCHANGED mishaps

\* The members of a finite set of naturals in ascending order.
Ascending(S) ==
  CHOOSE s \in [1 .. Cardinality(S) -> S] : \A i, j \in DOMAIN s : i < j => s[i] < s[j]

\* The rows of thread t at the positions in S, in the order of t.
Rows(t, S) == [n \in 1 .. Cardinality(S) |-> t[Ascending(S)[n]]]

----------------------------------------------------------------------------
(* The cache of conversation-messages-cache.ts.                            *)

\* (Definitions named Mutant... are plausible bugs in the definition that
\* follows them; no specification uses them.)
MutantAppendUnique(prev, incoming) == prev \o incoming  \* no check by id

AppendUnique(prev, incoming) ==
  prev \o Rows(incoming, {i \in DOMAIN incoming : incoming[i] \notin ToSet(prev)})

Persisted(t) == Rows(t, {i \in DOMAIN t : t[i] # Pending})

MutantReplacePending(prev, m) == AppendUnique(prev, <<m>>)  \* the optimistic row stays

ReplacePending(prev, m) == AppendUnique(Persisted(prev), <<m>>)

\* getLastPersistedMessageId; 0 when there is none.
LastPersisted(t) == IF Persisted(t) = <<>> THEN 0 ELSE Last(Persisted(t))

\* The snapshot a send takes, before it adds its optimistic row.
MutantSnapshot(t) == AppendUnique(t, <<Pending>>)
Snapshot(t) == t

----------------------------------------------------------------------------
(* The server.                                                             *)

\* The other participant's message, stored in one step ...
StoreOther ==
  /\ next <= MaxMessages
  /\ next' = next + 1
  /\ stored' = stored \cup {next}
  /\ Smooth
  /\ UNCHANGED <<scenario, late, published, thread, loaded, socket, wire, page, after, send>>

\* ... or stamped now and committed after messages stamped later.
StampLate ==
  /\ May("lateCommit") /\ Mishap
  /\ next <= MaxMessages
  /\ next' = next + 1
  /\ late' = late \cup {next}
  /\ UNCHANGED <<scenario, stored, published, thread, loaded, socket, wire, page, after, send>>

CommitLate ==
  \E m \in late :
    /\ late' = late \ {m}
    /\ stored' = stored \cup {m}
    /\ Smooth
    /\ UNCHANGED <<scenario, next, published, thread, loaded, socket, wire, page, after, send>>

StoreOwn ==
  /\ send.stage = "posted"
  /\ next <= MaxMessages
  /\ next' = next + 1
  /\ stored' = stored \cup {next}
  /\ send' = [send EXCEPT !.stage = "stored", !.id = next]
  /\ Smooth
  /\ UNCHANGED <<scenario, late, published, thread, loaded, socket, wire, page, after>>

\* message.new reaches the sockets in the room, and is gone for others.  The
\* emit is best effort: the server may die, or fail to emit, once it has stored.
Publish ==
  \E m \in stored \ published :
    /\ May("reorder") \/ \A n \in stored \ published : m <= n
    /\ published' = published \cup {m}
    /\ \/ /\ wire' = IF joined THEN Append(wire, m) ELSE wire
          /\ Smooth
       \/ May("lostEvent") /\ Mishap /\ UNCHANGED wire
    /\ UNCHANGED <<scenario, next, stored, late, thread, loaded, socket, page, after, send>>

\* The handshake's credentials are looked up after the browser saw it connect.
JoinRoom ==
  /\ connected /\ ~joined
  /\ joined' = TRUE
  /\ Smooth
  /\ UNCHANGED <<scenario, server, thread, loaded, connected, wire, page, after, send>>

AnswerPage ==
  /\ page.stage = "asked"
  /\ page' = [stage |-> "answered", reply |-> Ascending(stored)]
  /\ Smooth
  /\ UNCHANGED <<scenario, server, thread, loaded, socket, wire, after, send>>

AnswerAfter ==
  \E q \in after :
    /\ ~q.answered
    /\ after' = (after \ {q}) \cup
                {[q EXCEPT !.answered = TRUE, !.reply = Ascending({m \in stored : m > q.cursor})]}
    /\ Smooth
    /\ UNCHANGED <<scenario, server, thread, loaded, socket, wire, page, send>>

----------------------------------------------------------------------------
(* The browser.                                                            *)

Viewer == <<scenario, server>>

\* Asks for what follows the last message of thread t.
AskAfter(t) == after \cup {[answered |-> FALSE, cursor |-> LastPersisted(t), reply |-> <<>>]}

MutantCatchUp(t) == UNCHANGED after  \* nothing is asked for on connect

\* runCatchUp: nothing to go by in an empty thread, one request at a time.
CatchUp(t) ==
  after' = IF LastPersisted(t) = 0 \/ after # {} THEN after ELSE AskAfter(t)

\* The query runs when the page opens, and again on focus or reconnect once stale.
AskPage ==
  /\ page.stage = "none"
  /\ \/ ~loaded /\ Smooth
     \/ loaded /\ May("refetch") /\ Mishap
  /\ page' = [stage |-> "asked", reply |-> <<>>]
  /\ UNCHANGED <<Viewer, thread, loaded, socket, wire, after, send>>

\* The page replaces the thread.  The first one attaches the socket handlers.
ShowPage ==
  /\ page.stage = "answered"
  /\ thread' = page.reply
  /\ page' = NoQuery
  /\ loaded' = TRUE
  /\ IF connected /\ ~loaded THEN CatchUp(page.reply) ELSE UNCHANGED after
  /\ Smooth
  /\ UNCHANGED <<Viewer, socket, wire, send>>

Connect ==
  /\ scenario.mode = "ws" /\ ~connected
  /\ connected' = TRUE
  /\ \/ joined' = TRUE /\ Smooth
     \/ joined' = FALSE /\ May("slowJoin") /\ Mishap
  /\ IF loaded THEN CatchUp(thread) ELSE UNCHANGED after
  /\ UNCHANGED <<Viewer, thread, loaded, wire, page, send>>

SocketDrops ==
  /\ May("disconnect") /\ Mishap
  /\ connected
  /\ after = {} \/ May("overlap")
  /\ connected' = FALSE /\ joined' = FALSE
  /\ wire' = <<>>
  /\ UNCHANGED <<Viewer, thread, loaded, page, after, send>>

\* Nobody listens before the first page is shown.
Deliver ==
  /\ wire # <<>>
  /\ thread' = IF loaded THEN AppendUnique(thread, <<Head(wire)>>) ELSE thread
  /\ wire' = Tail(wire)
  /\ Smooth
  /\ UNCHANGED <<Viewer, loaded, socket, page, after, send>>

Poll ==
  /\ scenario.mode = "poll" /\ loaded
  /\ Cardinality(after) < MaxPolls
  /\ LastPersisted(thread) # 0
  /\ after' = AskAfter(thread)
  /\ Smooth
  /\ UNCHANGED <<Viewer, thread, loaded, socket, wire, page, send>>

MergeAfter ==
  \E q \in after :
    /\ q.answered
    /\ thread' = AppendUnique(thread, q.reply)
    /\ after' = after \ {q}
    /\ Smooth
    /\ UNCHANGED <<Viewer, loaded, socket, wire, page, send>>

\* A failed request is dropped: the next poll or connect is the retry.
AfterFails ==
  /\ May("fetchFails") /\ Mishap
  /\ \E q \in after : after' = after \ {q}
  /\ UNCHANGED <<Viewer, thread, loaded, socket, wire, page, send>>

\* The composer allows one send at a time.
Send ==
  /\ scenario.sends /\ loaded
  /\ send.stage = "none" /\ next <= MaxMessages
  /\ connected \/ scenario.mode = "poll" \/ May("sendOffline")
  /\ send' = [stage |-> "posted", id |-> 0, before |-> Snapshot(thread)]
  /\ thread' = AppendUnique(thread, <<Pending>>)
  /\ Smooth
  /\ UNCHANGED <<Viewer, loaded, socket, wire, page, after>>

SendSucceeds ==
  /\ send.stage = "stored" /\ send.id \in published
  /\ thread' = ReplacePending(thread, send.id)
  /\ send' = NoSend
  /\ Smooth
  /\ UNCHANGED <<Viewer, loaded, socket, wire, page, after>>

\* Refused, or stored and the answer lost: the thread goes back to the snapshot.
SendFails ==
  /\ May("sendFails") /\ Mishap
  /\ send.stage # "none"
  /\ thread' = send.before
  /\ send' = NoSend
  /\ UNCHANGED <<Viewer, loaded, socket, wire, page, after>>

Next ==
  \/ StoreOther \/ StampLate \/ CommitLate \/ StoreOwn \/ Publish \/ JoinRoom
  \/ AnswerPage \/ AnswerAfter
  \/ AskPage \/ ShowPage \/ Connect \/ SocketDrops \/ Deliver
  \/ Poll \/ MergeAfter \/ AfterFails
  \/ Send \/ SendSucceeds \/ SendFails

Spec == Init /\ [][Next]_vars

\* Servers answer, events in flight arrive, the socket reconnects (its attempts
\* are unlimited) and the poll timer keeps ticking.
Fairness ==
  /\ WF_vars(CommitLate) /\ WF_vars(StoreOwn) /\ WF_vars(Publish) /\ WF_vars(JoinRoom)
  /\ WF_vars(AnswerPage) /\ WF_vars(AnswerAfter)
  /\ WF_vars(~loaded /\ AskPage) /\ WF_vars(ShowPage)
  /\ WF_vars(Connect) /\ WF_vars(Deliver)
  /\ WF_vars(Poll) /\ WF_vars(MergeAfter) /\ WF_vars(SendSucceeds)

FairSpec == Spec /\ Fairness

----------------------------------------------------------------------------
Shown == ToSet(thread) \ {Pending}

\* A message is displayed once, however it arrives: page, event, catch-up, poll
\* or the answer to the send, in any order.
NoDuplicates == \A i, j \in DOMAIN thread : thread[i] = thread[j] => i = j

\* An optimistic row goes away with its send, whether that succeeds or fails
\* and whatever replaced the thread meanwhile.
NoGhost == Pending \in ToSet(thread) => send.stage # "none"

CleanThread == NoDuplicates /\ NoGhost

\* The conditions under which the thread is complete in the end.  (An empty thread has
\* no last message: neither a catch-up nor a poll is ever made from it.)
Lossless ==
  /\ scenario.preloaded > 0
  /\ \/ scenario.mode = "ws" /\ scenario.mishaps \subseteq {"reorder"}
     \/ scenario.mode = "ws" /\ ~scenario.sends /\ scenario.mishaps \subseteq {"disconnect"}
     \/ scenario.mode = "poll" /\ ~scenario.sends /\ scenario.mishaps \subseteq {"fetchFails"}

\* A request in flight brings message m, or will.
Fetched(m) == \E q \in after : IF q.answered THEN m \in ToSet(q.reply) ELSE m > q.cursor

\* The next poll, or the catch-up of the next connect, will ask for message m.
WillBeAsked(m) ==
  /\ scenario.mode = "poll" \/ (~connected /\ after = {})
  /\ LastPersisted(thread) \in 1 .. m - 1

\* Under these conditions no stored message is ever lost once the page is shown: it is
\* displayed, or its event is still to be delivered, or a request fetches it, or the
\* cursor of the next request is before it.
NothingLost ==
  Lossless /\ loaded =>
    \A m \in stored \ Shown :
      \/ connected /\ (m \notin published \/ m \in ToSet(wire))
      \/ Fetched(m)
      \/ WillBeAsked(m)

\* In the end the thread shows every stored message, when the server joins the
\* socket to the room before it answers the catch-up, and: the socket stays up
\* once the viewer has begun to write; or, across reconnects, the viewer only
\* reads and each catch-up is over before the next drop; or, under polling with
\* lost polls, the viewer only reads.
LosslessThread == Lossless => <>[](stored \subseteq Shown)
=============================================================================
