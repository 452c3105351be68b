----------------------------- MODULE RefreshTokens -----------------------------
(***************************************************************************)
(* The refresh tokens of one user: the rows of the server, the tabs (or    *)
(* apps) that store a token each, rotation, and the log-outs.              *)
(*                                                                         *)
(* A refresh request goes through the awaits of rotateRefreshToken: check, *)
(* revoke, store.  A tab waits for one request at a time                   *)
(* (coordinateRefreshAccessToken) and may give it up while the server      *)
(* still works on it.                                                      *)
(***************************************************************************)
EXTENDS FiniteSets

CONSTANTS
  Tokens,    \* the refresh tokens, each issued at most once
  Tabs,      \* the browser tabs and apps of the user
  Requests,  \* the refresh requests, each sent at most once
  None       \* no token, no request

ASSUME NoneAssumption == None \notin Tokens \cup Requests

VARIABLES
  row,      \* the RefreshToken rows: "new" has none yet
  held,     \* tokenStorage of each tab
  asking,   \* refreshPromise of each tab: the request it waits for
  at,       \* what the handler of each request does next, or how it has ended
  old,      \* the token in the body of each request
  new,      \* the token that each request has stored
  leaving,  \* the log-out of each tab: "no", "sent", "done", "failed"
  sent,     \* the token that a log-out sends
  dropped,  \* history: tokens that a tab has let go of, or never got, without revoking them
  ended,    \* history: tokens revoked by a log-out while no request was past its check
  out       \* history: every token has been revoked so, and nobody has signed in since

request == <<asking, at, old, new>>
logout == <<leaving, sent>>
history == <<dropped, ended, out>>
vars == <<row, held, request, logout, history>>

TypeOK ==
  /\ row \in [Tokens -> {"new", "active", "revoked", "expired"}]
  /\ held \in [Tabs -> Tokens \cup {None}]
  /\ asking \in [Tabs -> Requests \cup {None}]
  /\ at \in [Requests -> {"free", "check", "revoke", "store", "granted", "denied", "over"}]
  /\ old \in [Requests -> Tokens \cup {None}]
  /\ new \in [Requests -> Tokens \cup {None}]
  /\ leaving \in [Tabs -> {"no", "sent", "done", "failed"}]
  /\ sent \in [Tabs -> Tokens \cup {None}]
  /\ dropped \subseteq Tokens /\ ended \subseteq Tokens /\ out \in BOOLEAN

Init ==
  /\ row = [t \in Tokens |-> "new"]
  /\ held = [b \in Tabs |-> None]
  /\ asking = [b \in Tabs |-> None]
  /\ at = [r \in Requests |-> "free"]
  /\ old = [r \in Requests |-> None]
  /\ new = [r \in Requests |-> None]
  /\ leaving = [b \in Tabs |-> "no"]
  /\ sent = [b \in Tabs |-> None]
  /\ dropped = {} /\ ended = {} /\ out = FALSE

\* The requests that have found t active and have not answered.
Rotating(t) == {r \in Requests : old[r] = t /\ at[r] \in {"revoke", "store"}}

\* updateMany where revokedAt is null.
Revoked(ts) == [t \in Tokens |->
  IF t \in ts /\ row[t] \in {"active", "expired"} THEN "revoked" ELSE row[t]]

----------------------------------------------------------------------------
(* Tabs.                                                                   *)

\* Sign-in: the tab stores the pair in the place of any other, or gets no answer.
Login(b, t) ==
  /\ row[t] = "new"
  /\ row' = [row EXCEPT ![t] = "active"]
  /\ out' = FALSE
  /\ \/ held' = [held EXCEPT ![b] = t] /\ dropped' = dropped \cup ({held[b]} \ {None})
     \/ held' = held /\ dropped' = dropped \cup {t}
  /\ UNCHANGED <<request, logout, ended>>

\* A tab is closed, with its session storage, or it clears its tokens when /auth/me fails,
\* after a sign-in or at the start: no log-out is sent.
Forget(b) ==
  /\ held[b] # None
  /\ held' = [held EXCEPT ![b] = None]
  /\ dropped' = dropped \cup {held[b]}
  /\ UNCHANGED <<row, request, logout, ended, out>>

\* A duplicated tab starts with a copy of the session storage.
Duplicate(b, c) ==
  /\ held[b] # None
  /\ held[c] = None /\ leaving[c] = "no" /\ asking[c] = None
  /\ held' = [held EXCEPT ![c] = held[b]]
  /\ UNCHANGED <<row, request, logout, history>>

\* coordinateRefreshAccessToken: the stored token, one request at a time.
Refresh(b, r) ==
  /\ held[b] # None /\ asking[b] = None
  /\ at[r] = "free"
  /\ at' = [at EXCEPT ![r] = "check"]
  /\ old' = [old EXCEPT ![r] = held[b]]
  /\ asking' = [asking EXCEPT ![b] = r]
  /\ UNCHANGED <<row, held, new, logout, history>>

\* setTokenPair, even in a tab that has logged out meanwhile.
Receive(b) ==
  /\ asking[b] # None
  /\ at[asking[b]] = "granted"
  /\ held' = [held EXCEPT ![b] = new[asking[b]]]
  /\ dropped' = IF held[b] \in {None, old[asking[b]]} THEN dropped ELSE dropped \cup {held[b]}
  /\ at' = [at EXCEPT ![asking[b]] = "over"]
  /\ asking' = [asking EXCEPT ![b] = None]
  /\ UNCHANGED <<row, old, new, logout, ended, out>>

\* A 401: the tab forgets its tokens when the session cookie still serves or when it has
\* just been opened, and else logs out.
Refused(b) ==
  /\ asking[b] # None
  /\ at[asking[b]] = "denied"
  /\ at' = [at EXCEPT ![asking[b]] = "over"]
  /\ asking' = [asking EXCEPT ![b] = None]
  /\ \/ held' = [held EXCEPT ![b] = None] /\ dropped' = dropped \cup ({held[b]} \ {None})
        /\ UNCHANGED logout
     \/ leaving[b] = "no" /\ leaving' = [leaving EXCEPT ![b] = "sent"]
        /\ sent' = [sent EXCEPT ![b] = held[b]]
        /\ UNCHANGED <<held, dropped>>
  /\ UNCHANGED <<row, old, new, ended, out>>

\* No answer comes; the server may still be at it.
GiveUp(b) ==
  /\ asking[b] # None
  /\ asking' = [asking EXCEPT ![b] = None]
  /\ dropped' = dropped \cup ({new[asking[b]]} \ {None})
  /\ UNCHANGED <<row, held, at, old, new, logout, ended, out>>

\* logout reads the stored token and sends it.
Logout(b) ==
  /\ leaving[b] = "no"
  /\ leaving' = [leaving EXCEPT ![b] = "sent"]
  /\ sent' = [sent EXCEPT ![b] = held[b]]
  /\ UNCHANGED <<row, held, request, history>>

\* The tab forgets what it stores, whatever became of the request.
ClearTokens(b) ==
  /\ leaving[b] \in {"done", "failed"}
  /\ dropped' = IF leaving[b] = "failed" \/ held[b] # sent[b]
                THEN dropped \cup ({held[b]} \ {None}) ELSE dropped
  /\ held' = [held EXCEPT ![b] = None]
  /\ leaving' = [leaving EXCEPT ![b] = "no"]
  /\ sent' = [sent EXCEPT ![b] = None]
  /\ UNCHANGED <<row, request, ended, out>>

----------------------------------------------------------------------------
(* rotateRefreshToken.                                                     *)

Steps(r, step) == at' = [at EXCEPT ![r] = step]

MutantCheck(r) ==  \* the signature is enough
  /\ at[r] = "check"
  /\ Steps(r, IF old[r] \in Tokens THEN "revoke" ELSE "denied")
  /\ UNCHANGED <<row, held, asking, old, new, logout, history>>

\* isActive
Check(r) ==
  /\ at[r] = "check"
  /\ Steps(r, IF row[old[r]] = "active" THEN "revoke" ELSE "denied")
  /\ UNCHANGED <<row, held, asking, old, new, logout, history>>

MutantRevoke(r) ==  \* the old token is left to expire
  /\ at[r] = "revoke"
  /\ Steps(r, "store")
  /\ UNCHANGED <<row, held, asking, old, new, logout, history>>

\* The count of the rows it has revoked is not looked at: of two overlapping exchanges of
\* one token, both go on.
Revoke(r) ==
  /\ at[r] = "revoke"
  /\ row' = Revoked({old[r]})
  /\ Steps(r, "store")
  /\ UNCHANGED <<held, asking, old, new, logout, history>>

MutantStore(r, t) ==  \* the request forgets which token it has stored
  /\ at[r] = "store"
  /\ row[t] = "new"
  /\ row' = [row EXCEPT ![t] = "active"]
  /\ new' = [q \in Requests \ {r} |-> new[q]]
  /\ Steps(r, "granted")
  /\ UNCHANGED <<held, asking, old, logout, history>>

\* generateTokenPair
Store(r, t) ==
  /\ at[r] = "store"
  /\ row[t] = "new"
  /\ row' = [row EXCEPT ![t] = "active"]
  /\ new' = [new EXCEPT ![r] = t]
  /\ Steps(r, "granted")
  /\ dropped' = IF \E b \in Tabs : asking[b] = r THEN dropped ELSE dropped \cup {t}
  /\ UNCHANGED <<held, asking, old, logout, ended, out>>

\* An error of the database, answered with 401; or the process ends, with no answer.
Fail(r) ==
  /\ at[r] \in {"check", "revoke", "store"}
  /\ Steps(r, "denied") \/ Steps(r, "over")
  /\ UNCHANGED <<row, held, asking, old, new, logout, history>>

----------------------------------------------------------------------------
(* Log-out at the server.                                                  *)

\* The token in the body is revoked, ...
LogoutRevokes(b) ==
  /\ leaving[b] = "sent"
  /\ row' = Revoked({sent[b]})
  /\ ended' = ended \cup {t \in {sent[b]} \ {None} : Rotating(t) = {}}
  /\ leaving' = [leaving EXCEPT ![b] = "done"]
  /\ UNCHANGED <<held, request, sent, dropped, out>>

LogoutFails(b) ==
  /\ leaving[b] = "sent"
  /\ leaving' = [leaving EXCEPT ![b] = "failed"]
  /\ UNCHANGED <<row, held, request, sent, history>>

\* ... and every token of the user when there is none but an access token.
RevokeAll ==
  /\ \E t \in Tokens : row[t] # "new"
  /\ row' = Revoked(Tokens)
  /\ ended' = ended \cup {t \in Tokens : row[t] # "new" /\ Rotating(t) = {}}
  /\ out' = \A t \in Tokens : Rotating(t) = {}
  /\ UNCHANGED <<held, request, logout, dropped>>

Expire(t) ==
  /\ row[t] = "active"
  /\ row' = [row EXCEPT ![t] = "expired"]
  /\ UNCHANGED <<held, request, logout, history>>

Next ==
  \/ \E b \in Tabs :
       \/ \E t \in Tokens : Login(b, t)
       \/ Forget(b)
       \/ \E c \in Tabs : Duplicate(b, c)
       \/ \E r \in Requests : Refresh(b, r)
       \/ Receive(b) \/ Refused(b) \/ GiveUp(b)
       \/ Logout(b) \/ LogoutRevokes(b) \/ LogoutFails(b) \/ ClearTokens(b)
  \/ \E r \in Requests :
       \/ Check(r) \/ Revoke(r) \/ Fail(r)
       \/ \E t \in Tokens : Store(r, t)
  \/ RevokeAll
  \/ \E t \in Tokens : Expire(t)

Spec == Init /\ [][Next]_vars

----------------------------------------------------------------------------
\* A rotation, a copy of a tab and a log-out that arrives leave no usable token behind:
\* every active one is stored in a tab, or on its way to the tab that waits for it, or a
\* tab has let go of it without revoking it.  A tab does so when it is closed, when
\* /auth/me or a refresh of its is refused, when a sign-in or the answer of a refresh
\* replaces another token, when an answer or a log-out gets lost, and when it is refreshed
\* while it logs out.
NoneLeftBehind ==
  \A t \in Tokens : row[t] = "active" =>
    \/ t \in dropped
    \/ \E b \in Tabs : held[b] = t \/ (asking[b] # None /\ new[asking[b]] = t)

\* A token that has been exchanged, perhaps by several requests at once, is never usable
\* again.  A token revoked by a log-out is exchanged by no request that had not found it
\* active before; and when all of the user's are revoked, and no request is past its
\* check, none becomes usable before the next sign-in.
RevocationHolds ==
  /\ \A r \in Requests : at[r] = "store" \/ new[r] # None => row[old[r]] = "revoked"
  /\ \A t \in ended : Rotating(t) = {}
  /\ out => \A t \in Tokens : row[t] # "active"
=============================================================================
