-------------------------------- MODULE Sockets --------------------------------
(***************************************************************************)
(* The realtime connections of one user: handshake and registration, the   *)
(* user's presence in Redis, the periodic revalidation, disconnection, and *)
(* the log-out and account deletion that close them.                       *)
(*                                                                         *)
(* Each socket has three handlers that interleave: handleConnection (on),  *)
(* handleDisconnect (off) and a tick of the revalidation timer (tick).     *)
(* An action is one await of theirs.  The sockets may be on any nodes.     *)
(***************************************************************************)
EXTENDS FiniteSets

CONSTANTS
  Sessions,  \* the web sessions of the user
  Sockets    \* the ids that connections will use, each once

\* What a socket is opened with: a session cookie or a bearer token.
Bearer == "bearer"
Credentials == Sessions \cup {Bearer}

VARIABLES
  session,   \* the UserSession rows, and the access token: "live" or "revoked" (also: expired)
  enabled,   \* the user is ACTIVE
  of,        \* the credential of each socket
  open,      \* the sockets whose connection is up
  timer,     \* the sockets with a running revalidation timer
  presence,  \* presence:user:{userId} in Redis
  on, off, tick,  \* what each socket's handlers do next; a timer is "late" when it has missed
                  \* a write and no socket has written since
  closing,   \* what log-outs (by session) and the account deletion do next
  raced,     \* history: the sockets that went away while being registered or refreshed
  missed     \* history: the open sockets whose presence was not written, or has been lost

rows == <<session, enabled>>
handlers == <<on, off, tick>>
socketsVars == <<rows, of, open, timer, presence, handlers, closing, raced, missed>>

Everything == "all"   \* the account deletion closes every session

SocketsTypeOK ==
  /\ session \in [Credentials -> {"live", "revoked"}]
  /\ enabled \in BOOLEAN
  /\ of \in [Sockets -> Credentials]
  /\ open \subseteq Sockets /\ timer \subseteq Sockets /\ presence \subseteq Sockets
  /\ on \in [Sockets -> {"new", "join", "write", "timer", "done"}]
  /\ off \in [Sockets -> {"no", "clear", "drop", "done"}]
  /\ tick \in [Sockets -> {"no", "refresh", "late"}]
  /\ closing \in [Sessions \cup {Everything} -> {"no", "kick", "clear", "revoke", "done"}]
  /\ raced \subseteq Sockets /\ missed \subseteq Sockets

SocketsInit ==
  /\ session = [c \in Credentials |-> "live"]
  /\ enabled = TRUE
  /\ of = [k \in Sockets |-> Bearer]
  /\ open = {} /\ timer = {} /\ presence = {}
  /\ on = [k \in Sockets |-> "new"]
  /\ off = [k \in Sockets |-> "no"]
  /\ tick = [k \in Sockets |-> "no"]
  /\ closing = [c \in Sessions \cup {Everything} |-> "no"]
  /\ raced = {} /\ missed = {}

\* validateHandshake, isConnectionAllowed and isBearerConnectionAllowed.
Valid(c) == enabled /\ session[c] = "live"
Allowed(k) == Valid(of[k])

\* The sockets in the room of the session, or of the user, from the join on.
Room(c) == {k \in open : on[k] \in {"write", "timer", "done"} /\ c \in {of[k], Everything}}

\* A handler of the socket is between two awaits.
Busy(k) == on[k] \in {"join", "write", "timer"} \/ tick[k] = "refresh"

\* The end of a set of connections: handleDisconnect stops the timer and forgets the
\* socket at once, then clears its presence, all that only once the handshake is over.
Close(gone) ==
  /\ open' = open \ gone
  /\ timer' = timer \ gone
  /\ off' = [k \in Sockets |->
       IF k \notin gone THEN off[k] ELSE IF on[k] = "join" THEN "done" ELSE "clear"]
  /\ raced' = raced \cup {k \in gone : Busy(k)}
  /\ missed' = missed \ gone

\* writeRedisPresence: each write gives the key of the user 90 seconds from now, whoever
\* else is in it.  When Redis is down, or fails, nothing is written and nothing thrown.
Write(k) ==
  \/ /\ presence' = presence \cup {k}
     /\ missed' = missed \ {k}
     /\ tick' = [j \in Sockets |-> IF j # k /\ tick[j] = "refresh" THEN "refresh" ELSE "no"]
  \/ /\ presence' = presence
     /\ missed' = missed \cup ({k} \cap open)
     /\ tick' = [tick EXCEPT ![k] = "late"]

----------------------------------------------------------------------------
(* handleConnection                                                        *)

Handshake(k, c) ==
  /\ on[k] = "new"
  /\ Valid(c)
  /\ of' = [of EXCEPT ![k] = c]
  /\ open' = open \cup {k}
  /\ on' = [on EXCEPT ![k] = "join"]
  /\ UNCHANGED <<rows, timer, presence, off, tick, closing, raced, missed>>

\* The rooms and the maps of the node: no await in between waits for anything.
Join(k) ==
  /\ on[k] = "join"
  /\ on' = [on EXCEPT ![k] = "write"]
  /\ UNCHANGED <<rows, of, open, timer, presence, off, tick, closing, raced, missed>>

WritePresence(k) ==
  /\ on[k] = "write"
  /\ Write(k)
  /\ on' = [on EXCEPT ![k] = "timer"]
  /\ UNCHANGED <<rows, of, open, timer, off, closing, raced>>

MutantStartTimer(k) ==  \* connections are not revalidated
  /\ on[k] = "timer"
  /\ on' = [on EXCEPT ![k] = "done"]
  /\ UNCHANGED <<rows, of, open, timer, presence, off, tick, closing, raced, missed>>

\* startConnectionRevalidation, also on a socket that has gone meanwhile.
StartTimer(k) ==
  /\ on[k] = "timer"
  /\ timer' = timer \cup {k}
  /\ on' = [on EXCEPT ![k] = "done"]
  /\ UNCHANGED <<rows, of, open, presence, off, tick, closing, raced, missed>>

----------------------------------------------------------------------------
(* A tick of the timer.                                                    *)

\* The check; a connection that is no longer allowed is closed.
Revalidate(k) ==
  /\ k \in timer
  /\ tick[k] # "refresh"
  /\ IF Allowed(k)
     THEN /\ tick' = [tick EXCEPT ![k] = "refresh"]
          /\ UNCHANGED <<open, timer, off, raced, missed>>
     ELSE /\ IF k \in open THEN Close({k})
             ELSE timer' = timer \ {k} /\ UNCHANGED <<open, off, raced, missed>>
          /\ UNCHANGED tick
  /\ UNCHANGED <<rows, of, presence, on, closing>>

\* A check that throws, as when the database does not answer, is an unhandled rejection:
\* it is logged, the presence is not refreshed, and the timer goes on.
CheckThrows(k) ==
  /\ k \in timer
  /\ tick[k] # "refresh"
  /\ tick' = [tick EXCEPT ![k] = "late"]
  /\ UNCHANGED <<rows, of, open, timer, presence, on, off, closing, raced, missed>>

\* refreshPresence
Refresh(k) ==
  /\ tick[k] = "refresh"
  /\ Write(k)
  /\ UNCHANGED <<rows, of, open, timer, on, off, closing, raced>>

----------------------------------------------------------------------------
(* handleDisconnect                                                        *)

\* The client closes, or the network does.
Disconnect(k) ==
  /\ k \in open
  /\ Close({k})
  /\ UNCHANGED <<rows, of, presence, on, tick, closing>>

MutantClearPresence(k) ==  \* only the maps of the node forget the socket
  /\ off[k] = "clear"
  /\ off' = [off EXCEPT ![k] = IF presence = {} THEN "drop" ELSE "done"]
  /\ UNCHANGED <<rows, of, open, timer, presence, on, tick, closing, raced, missed>>

\* clearRedisSocket: remove the member and count the others (what comes between the two
\* might as well come before both, or after the deletion), ...
ClearPresence(k) ==
  /\ off[k] = "clear"
  /\ presence' = presence \ {k}
  /\ off' = [off EXCEPT ![k] = IF presence' = {} THEN "drop" ELSE "done"]
  /\ UNCHANGED <<rows, of, open, timer, on, tick, closing, raced, missed>>

\* ... and delete the key when there was none.
DropKey(k) ==
  /\ off[k] = "drop"
  /\ presence' = {}
  /\ missed' = missed \cup (presence \cap open)
  /\ off' = [off EXCEPT ![k] = "done"]
  /\ UNCHANGED <<rows, of, open, timer, on, tick, closing, raced>>

\* The node of the socket dies, or Redis does not do what the disconnection asks.
Vanish(k) ==
  /\ k \in open \cup timer \/ Busy(k) \/ off[k] \in {"clear", "drop"}
  /\ open' = open \ {k} /\ timer' = timer \ {k}
  /\ on' = [on EXCEPT ![k] = "done"]
  /\ off' = [off EXCEPT ![k] = "done"]
  /\ tick' = [tick EXCEPT ![k] = "no"]
  /\ raced' = raced \cup {k}
  /\ missed' = missed \ {k}
  /\ UNCHANGED <<rows, of, presence, closing>>

\* The key lives for 90 seconds after the last write of any socket and timers write every
\* 60 seconds: it may expire once each of them has missed a write, or is slow with it.
PresenceExpires ==
  /\ \A k \in timer : tick[k] # "no"
  /\ \A k \in Sockets : on[k] # "timer"
  /\ presence' = {}
  /\ missed' = missed \cup (presence \cap open)
  /\ UNCHANGED <<rows, of, open, timer, handlers, closing, raced>>

----------------------------------------------------------------------------
(* logout and deleteAccount; c is the session, or Everything.  A request    *)
(* may stop for good after any step.                                       *)

Continue(c, step) == closing' = [closing EXCEPT ![c] = step]

Logout(s) ==
  /\ closing[s] = "no"
  /\ session[s] = "live"
  /\ Continue(s, "kick")
  /\ UNCHANGED <<rows, of, open, timer, presence, handlers, raced, missed>>

DeleteAccount ==
  /\ closing[Everything] = "no"
  /\ enabled' = FALSE
  /\ Continue(Everything, "kick")
  /\ UNCHANGED <<session, of, open, timer, presence, handlers, raced, missed>>

\* disconnectBySessionId, disconnectByUserId: every socket in the room, on any node.  The
\* loop over the maps of this node finds the same, or some that have come meanwhile: for
\* those it is a Disconnect.
Kick(c) ==
  /\ closing[c] = "kick"
  /\ Close(Room(c))
  /\ Continue(c, "clear")
  /\ UNCHANGED <<rows, of, presence, on, tick>>

\* Then the presence of the sockets that Redis has listed, the newcomers perhaps too, or
\* the whole key: it is counted and deleted as above.
ClearRoom(c) ==
  /\ closing[c] = "clear"
  /\ \E listed \in (SUBSET {k \in presence : c \in {of[k], Everything}}) \cup {presence} :
       /\ presence' = presence \ listed
       /\ missed' = missed \cup (listed \cap open)
  /\ Continue(c, "revoke")
  /\ UNCHANGED <<rows, of, open, timer, handlers, raced>>

MutantRevoke(c) ==  \* an upsert in the place of updateMany
  /\ closing[c] = "revoke"
  /\ session' = [s \in Credentials \cup {c} |-> IF c = s THEN "revoked" ELSE session[s]]
  /\ Continue(c, "done")
  /\ UNCHANGED <<enabled, of, open, timer, presence, handlers, raced, missed>>

\* Only now is the session revoked.
Revoke(c) ==
  /\ closing[c] = "revoke"
  /\ session' = [s \in Credentials |-> IF s \in Sessions /\ c \in {s, Everything} THEN "revoked" ELSE session[s]]
  /\ Continue(c, "done")
  /\ UNCHANGED <<enabled, of, open, timer, presence, handlers, raced, missed>>

Expire(c) ==
  /\ session[c] = "live"
  /\ session' = [session EXCEPT ![c] = "revoked"]
  /\ UNCHANGED <<enabled, of, open, timer, presence, handlers, closing, raced, missed>>

Connecting(k) == Join(k) \/ WritePresence(k) \/ StartTimer(k)
Disconnecting(k) == ClearPresence(k) \/ DropKey(k)

SocketsNext ==
  \/ \E k \in Sockets :
       \/ \E c \in Credentials : Handshake(k, c)
       \/ Connecting(k) \/ Revalidate(k) \/ CheckThrows(k) \/ Refresh(k)
       \/ Disconnect(k) \/ Disconnecting(k) \/ Vanish(k)
  \/ PresenceExpires
  \/ \E s \in Sessions : Logout(s)
  \/ \E c \in Credentials : Expire(c)
  \/ DeleteAccount
  \/ \E c \in Sessions \cup {Everything} : Kick(c) \/ ClearRoom(c) \/ Revoke(c)

SocketsSpec == SocketsInit /\ [][SocketsNext]_socketsVars

\* Node runs every continuation and fires every timer, and some check of each connection
\* gets its answer; a socket has no timer before it has been registered.
SocketsFairness == \A k \in Sockets : WF_socketsVars(Connecting(k) \/ Revalidate(k) \/ Refresh(k))

SocketsFairSpec == SocketsSpec /\ SocketsFairness

----------------------------------------------------------------------------
\* Presence decides whether a message is also sent by e-mail and push.  It names no
\* socket that is gone, except one that went while it was being registered or refreshed,
\* or with its node, or whose clean-up Redis did not do (raced).  It names every
\* registered socket, except one that has not been written since a write failed, another
\* socket's clean-up or a log-out deleted it, or the key expired under it (missed).
PresenceFollows ==
  /\ \A k \in presence \ raced : k \in open \/ off[k] = "clear"
  /\ \A k \in open : on[k] \in {"timer", "done"} => k \in presence \cup missed

\* A log-out closes the sockets before it revokes the session, so a socket may slip in
\* between: it is closed in the end all the same, as is one of an expired session or a
\* deleted user.
KickedOut == (\E k \in open : ~Allowed(k)) ~> (\A k \in open : Allowed(k))
=============================================================================
