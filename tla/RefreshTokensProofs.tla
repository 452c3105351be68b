-------------------------- MODULE RefreshTokensProofs --------------------------
(***************************************************************************)
(* Proofs about RefreshTokens, for every number of tokens, tabs and        *)
(* requests: the type invariant, and the two invariants on revocation and  *)
(* on tokens that nobody holds.                                            *)
(*                                                                         *)
(* A row only ages: it is issued once and never active again once revoked. *)
(* The rest of the inductive invariant says which tokens have been issued, *)
(* and which must have been revoked by now, because a request has exchanged*)
(* them or a log-out has ended them; and that nothing is on the way to a   *)
(* row once everything has been revoked.                                   *)
(***************************************************************************)
EXTENDS RefreshTokens, TLAPS

\* Whatever is held, sent, exchanged or answered has been issued.
Issued ==
  /\ \A b \in Tabs : held[b] # None => row[held[b]] # "new"
  /\ \A b \in Tabs : sent[b] # None => row[sent[b]] # "new"
  /\ \A r \in Requests : at[r] # "free" => old[r] \in Tokens /\ row[old[r]] # "new"
  /\ \A r \in Requests : new[r] # None => row[new[r]] # "new"

\* A request has stored a token exactly when it has been granted.
Stages ==
  \A r \in Requests :
    /\ at[r] \in {"free", "check", "revoke", "store", "denied"} => new[r] = None
    /\ at[r] = "granted" => new[r] # None

\* A request that has revoked its token, and may still store or has stored another.
Exchanged(r) == at[r] = "store" \/ new[r] # None

\* The tokens exchanged, sent by a finished log-out, or ended, have been revoked.
Spent ==
  /\ \A r \in Requests : Exchanged(r) => row[old[r]] = "revoked"
  /\ \A b \in Tabs : leaving[b] = "done" /\ sent[b] # None => row[sent[b]] = "revoked"
  /\ \A t \in ended : row[t] = "revoked"

\* No request is past its check of a token that has ended.
EndedAreOut == \A t \in ended : Rotating(t) = {}

\* Once everything has been revoked nothing is usable, and nothing is on the way.
OutIsOut ==
  out => /\ \A t \in Tokens : row[t] # "active"
         /\ \A r \in Requests : at[r] \notin {"revoke", "store"}

Inv == TypeOK /\ Issued /\ Stages /\ Spent /\ EndedAreOut /\ OutIsOut /\ NoneLeftBehind

----------------------------------------------------------------------------
(* Rows.                                                                   *)

\* A row that has been issued stays so, a revoked one stays revoked, and only a
\* new one becomes active.
Aging ==
  \A t \in Tokens : /\ row[t] # "new" => row'[t] # "new"
                    /\ row[t] = "revoked" => row'[t] = "revoked"
                    /\ row'[t] = "active" => row[t] \in {"active", "new"}

\* Revoking leaves no issued token of the set but revoked ones, and the others as
\* they are.
LEMMA RevokedRows ==
  ASSUME TypeOK, NEW ts, row' = Revoked(ts)
  PROVE  /\ row' \in [Tokens -> {"new", "active", "revoked", "expired"}]
         /\ Aging
         /\ \A t \in Tokens : row'[t] = "active" => row[t] = "active"
         /\ \A t \in Tokens : t \in ts /\ row[t] # "new" => row'[t] = "revoked"
BY DEF TypeOK, Revoked, Aging

----------------------------------------------------------------------------
(* The steps of a tab.                                                     *)

\* The token that a sign-in replaces is recorded.
LEMMA LoginStep ==
  ASSUME Inv, NEW b \in Tabs, NEW t \in Tokens, Login(b, t)
  PROVE  Inv'
<1> USE NoneAssumption DEF Inv, TypeOK, Login, request, logout
<1>1. TypeOK'
  <2>1. out' \in BOOLEAN
    OBVIOUS
  <2>2. held' \in [Tabs -> Tokens \cup {None}] /\ dropped' \subseteq Tokens
    OBVIOUS
  <2>. QED  BY <2>1, <2>2
<1>2. Aging
  BY DEF Aging
<1>3. Issued' /\ Stages'
  BY <1>2 DEF Issued, Stages, Aging
<1>4. Spent' /\ EndedAreOut' /\ OutIsOut'
  BY <1>2 DEF Spent, Exchanged, EndedAreOut, OutIsOut, Rotating, Issued, Aging
<1>5. NoneLeftBehind'
  BY DEF NoneLeftBehind
<1>. QED  BY <1>1, <1>3, <1>4, <1>5

LEMMA ForgetStep ==
  ASSUME Inv, NEW b \in Tabs, Forget(b)
  PROVE  Inv'
<1> USE NoneAssumption DEF Inv, TypeOK, Forget, request, logout
<1>1. TypeOK'
  OBVIOUS
<1>2. Issued' /\ Stages' /\ Spent' /\ EndedAreOut' /\ OutIsOut'
  BY DEF Issued, Stages, Spent, Exchanged, EndedAreOut, OutIsOut, Rotating
<1>3. NoneLeftBehind'
  BY DEF NoneLeftBehind
<1>. QED  BY <1>1, <1>2, <1>3

LEMMA DuplicateStep ==
  ASSUME Inv, NEW b \in Tabs, NEW c \in Tabs, Duplicate(b, c)
  PROVE  Inv'
<1> USE NoneAssumption DEF Inv, TypeOK, Duplicate, request, logout, history
<1>1. TypeOK'
  OBVIOUS
<1>2. Issued' /\ Stages' /\ Spent' /\ EndedAreOut' /\ OutIsOut'
  BY DEF Issued, Stages, Spent, Exchanged, EndedAreOut, OutIsOut, Rotating
<1>3. NoneLeftBehind'
  BY DEF NoneLeftBehind
<1>. QED  BY <1>1, <1>2, <1>3

LEMMA RefreshStep ==
  ASSUME Inv, NEW b \in Tabs, NEW r \in Requests, Refresh(b, r)
  PROVE  Inv'
<1> USE NoneAssumption DEF Inv, TypeOK, Refresh, logout, history
<1>1. TypeOK'
  OBVIOUS
<1>2. Issued' /\ Stages'
  BY DEF Issued, Stages
<1>3. \A q \in Requests : Exchanged(q)' => q # r /\ Exchanged(q)
  BY DEF Stages, Exchanged
<1>4. Spent' /\ OutIsOut'
  BY <1>3 DEF Spent, OutIsOut
<1>5. EndedAreOut'
  BY DEF EndedAreOut, Rotating
<1>6. NoneLeftBehind'
  BY DEF NoneLeftBehind
<1>. QED  BY <1>1, <1>2, <1>4, <1>5, <1>6

\* The token a tab gives up for the new one has been revoked, or is recorded.
LEMMA ReceiveStep ==
  ASSUME Inv, NEW b \in Tabs, Receive(b)
  PROVE  Inv'
<1> USE NoneAssumption DEF Inv, TypeOK, Receive, logout, history
<1> DEFINE r == asking[b]
<1>1. r \in Requests /\ at[r] = "granted" /\ new[r] \in Tokens
  BY DEF Stages
<1>2. TypeOK'
  OBVIOUS
<1>3. Issued' /\ Stages'
  BY <1>1 DEF Issued, Stages
<1>4. Spent' /\ EndedAreOut' /\ OutIsOut'
  BY <1>1 DEF Spent, Exchanged, EndedAreOut, OutIsOut, Rotating
<1>5. NoneLeftBehind'
  <2>1. row[old[r]] = "revoked"
    BY <1>1 DEF Spent, Exchanged
  <2>2. SUFFICES ASSUME NEW t \in Tokens, row'[t] = "active"
                 PROVE  \/ t \in dropped'
                        \/ \E c \in Tabs : held'[c] = t \/ (asking'[c] # None /\ new'[asking'[c]] = t)
    BY DEF NoneLeftBehind
  <2>3. CASE t \in dropped
    BY <2>3
  <2>4. ASSUME NEW c \in Tabs, held[c] = t \/ (asking[c] # None /\ new[asking[c]] = t)
        PROVE  \/ t \in dropped'
               \/ \E d \in Tabs : held'[d] = t \/ (asking'[d] # None /\ new'[asking'[d]] = t)
    BY <1>1, <2>1, <2>2, <2>4
  <2>. QED  BY <2>2, <2>3, <2>4 DEF NoneLeftBehind
<1>. QED  BY <1>2, <1>3, <1>4, <1>5

LEMMA RefusedStep ==
  ASSUME Inv, NEW b \in Tabs, Refused(b)
  PROVE  Inv'
<1> USE NoneAssumption DEF Inv, TypeOK, Refused, logout
<1>1. asking[b] \in Requests /\ new[asking[b]] = None
  BY DEF Stages
<1>2. TypeOK'
  OBVIOUS
<1>3. Issued' /\ Stages'
  BY <1>1 DEF Issued, Stages
<1>4. Spent' /\ EndedAreOut' /\ OutIsOut'
  BY <1>1 DEF Spent, Exchanged, EndedAreOut, OutIsOut, Rotating
<1>5. NoneLeftBehind'
  BY <1>1 DEF NoneLeftBehind
<1>. QED  BY <1>2, <1>3, <1>4, <1>5

LEMMA GiveUpStep ==
  ASSUME Inv, NEW b \in Tabs, GiveUp(b)
  PROVE  Inv'
<1> USE NoneAssumption DEF Inv, TypeOK, GiveUp, logout
<1>1. TypeOK'
  OBVIOUS
<1>2. Issued' /\ Stages' /\ Spent' /\ EndedAreOut' /\ OutIsOut'
  BY DEF Issued, Stages, Spent, Exchanged, EndedAreOut, OutIsOut, Rotating
<1>3. NoneLeftBehind'
  BY DEF NoneLeftBehind
<1>. QED  BY <1>1, <1>2, <1>3

LEMMA LogoutStep ==
  ASSUME Inv, NEW b \in Tabs, Logout(b)
  PROVE  Inv'
<1> USE NoneAssumption DEF Inv, TypeOK, Logout, request, history
<1>1. TypeOK'
  OBVIOUS
<1>2. Issued' /\ Stages' /\ Spent' /\ EndedAreOut' /\ OutIsOut'
  BY DEF Issued, Stages, Spent, Exchanged, EndedAreOut, OutIsOut, Rotating
<1>3. NoneLeftBehind'
  BY DEF NoneLeftBehind
<1>. QED  BY <1>1, <1>2, <1>3

\* The token that a tab forgets after a log-out has been revoked, or is recorded.
LEMMA ClearTokensStep ==
  ASSUME Inv, NEW b \in Tabs, ClearTokens(b)
  PROVE  Inv'
<1> USE NoneAssumption DEF Inv, TypeOK, ClearTokens, request
<1>1. TypeOK'
  OBVIOUS
<1>2. Issued' /\ Stages' /\ Spent' /\ EndedAreOut' /\ OutIsOut'
  BY DEF Issued, Stages, Spent, Exchanged, EndedAreOut, OutIsOut, Rotating
<1>3. NoneLeftBehind'
  <2>1. held[b] # None => held[b] \in dropped' \/ row[held[b]] = "revoked"
    BY DEF Spent
  <2>. QED  BY <2>1 DEF NoneLeftBehind
<1>. QED  BY <1>1, <1>2, <1>3

----------------------------------------------------------------------------
(* The steps of a request, and of the log-out at the server.               *)

\* A request past its check has found its token active, so not ended.
LEMMA CheckStep ==
  ASSUME Inv, NEW r \in Requests, Check(r)
  PROVE  Inv'
<1> USE NoneAssumption DEF Inv, TypeOK, Check, Steps, logout, history
<1>1. TypeOK'
  OBVIOUS
<1>2. Issued' /\ Stages'
  BY DEF Issued, Stages
<1>3. Spent'
  BY DEF Spent, Exchanged
<1>4. EndedAreOut'
  BY DEF EndedAreOut, Rotating, Spent
<1>5. OutIsOut'
  <2>1. old[r] \in Tokens
    BY DEF Issued
  <2>. QED  BY <2>1 DEF OutIsOut
<1>6. NoneLeftBehind'
  BY DEF NoneLeftBehind
<1>. QED  BY <1>1, <1>2, <1>3, <1>4, <1>5, <1>6

\* Whether or not another request has exchanged the token, it is revoked now.
LEMMA RevokeStep ==
  ASSUME Inv, NEW r \in Requests, Revoke(r)
  PROVE  Inv'
<1> USE NoneAssumption DEF Inv, TypeOK, Steps, logout
<1>1. /\ at[r] = "revoke" /\ at' = [at EXCEPT ![r] = "store"]
      /\ row' = Revoked({old[r]})
      /\ UNCHANGED <<held, asking, old, new, leaving, sent, dropped, ended, out>>
  BY DEF Revoke, history
<1>2. old[r] \in Tokens /\ row[old[r]] # "new" /\ new[r] = None
  <2>1. at[r] # "free" => old[r] \in Tokens /\ row[old[r]] # "new"
    BY DEF Issued
  <2>2. at[r] = "revoke" => new[r] = None
    BY DEF Stages
  <2>. QED  BY <1>1, <2>1, <2>2
<1>3. Aging /\ row'[old[r]] = "revoked"
      /\ \A t \in Tokens : row'[t] = "active" => row[t] = "active"
  BY <1>1, <1>2, RevokedRows
<1>4. TypeOK'
  BY <1>1, <1>2, RevokedRows
<1>5. Issued' /\ Stages'
  <2>1. Stages'
    BY <1>1, <1>2 DEF Stages
  <2>2. \A q \in Requests : at'[q] # "free" => at[q] # "free"
    BY <1>1
  <2>3. \A t \in Tokens : row[t] # "new" => row'[t] # "new"
    BY <1>3 DEF Aging
  <2>4. Issued'
    BY <1>1, <2>2, <2>3 DEF Issued
  <2>. QED  BY <2>1, <2>4
<1>6. \A q \in Requests : Exchanged(q)' <=> q = r \/ Exchanged(q)
  BY <1>1 DEF Exchanged
<1>7. Spent'
  <2>1. \A q \in Requests : Exchanged(q) => old[q] \in Tokens
    BY DEF Exchanged, Issued, Stages
  <2>. QED  BY <1>1, <1>3, <1>6, <2>1 DEF Spent, Aging
<1>8. OutIsOut'
  BY <1>1 DEF OutIsOut
<1>9. EndedAreOut'
  BY <1>1 DEF EndedAreOut, Rotating
<1>10. NoneLeftBehind'
  BY <1>1, <1>3 DEF NoneLeftBehind
<1>. QED  BY <1>4, <1>5, <1>7, <1>8, <1>9, <1>10

LEMMA StoreStep ==
  ASSUME Inv, NEW r \in Requests, NEW t \in Tokens, Store(r, t)
  PROVE  Inv'
<1> USE NoneAssumption DEF Inv, TypeOK, Store, Steps, logout
<1>1. TypeOK'
  OBVIOUS
<1>2. Aging /\ new[r] = None /\ t # None
  BY DEF Aging, Stages
<1>3. Issued' /\ Stages'
  BY <1>2 DEF Issued, Stages, Aging
<1>4. \A q \in Requests : Exchanged(q)' <=> Exchanged(q)
  BY <1>2 DEF Exchanged
<1>5. Spent'
  <2>1. \A q \in Requests : Exchanged(q) => old[q] \in Tokens
    BY DEF Exchanged, Issued, Stages
  <2>. QED  BY <1>2, <1>4, <2>1 DEF Spent, Aging
<1>6. EndedAreOut' /\ OutIsOut'
  BY <1>4 DEF EndedAreOut, OutIsOut, Rotating
<1>7. NoneLeftBehind'
  <2>1. ASSUME NEW u \in Tokens, row'[u] = "active", u # t
        PROVE  \/ u \in dropped'
               \/ \E b \in Tabs : held'[b] = u \/ (asking'[b] # None /\ new'[asking'[b]] = u)
    BY <1>2, <2>1 DEF NoneLeftBehind
  <2>2. t \in dropped' \/ \E b \in Tabs : asking'[b] # None /\ new'[asking'[b]] = t
    OBVIOUS
  <2>. QED  BY <2>1, <2>2 DEF NoneLeftBehind
<1>. QED  BY <1>1, <1>3, <1>5, <1>6, <1>7

LEMMA FailStep ==
  ASSUME Inv, NEW r \in Requests, Fail(r)
  PROVE  Inv'
<1> USE NoneAssumption DEF Inv, TypeOK, Fail, Steps, logout, history
<1>1. TypeOK'
  OBVIOUS
<1>2. Issued' /\ Stages'
  BY DEF Issued, Stages
<1>3. Spent' /\ OutIsOut'
  BY DEF Spent, Exchanged, OutIsOut
<1>4. EndedAreOut'
  BY DEF EndedAreOut, Rotating
<1>5. NoneLeftBehind'
  BY DEF NoneLeftBehind
<1>. QED  BY <1>1, <1>2, <1>3, <1>4, <1>5

\* A log-out that revokes some tokens and ends those among them that were issued and
\* that no request is exchanging.
LEMMA EndStep ==
  ASSUME Inv, NEW ts, row' = Revoked(ts), out' \in BOOLEAN,
         ended' \subseteq Tokens,
         \A t \in ended' \ ended : t \in ts /\ row[t] # "new" /\ Rotating(t) = {},
         UNCHANGED <<held, request, sent, dropped>>,
         out' => out \/ (ts = Tokens /\ \A t \in Tokens : Rotating(t) = {}),
         leaving' \in [Tabs -> {"no", "sent", "done", "failed"}],
         \A b \in Tabs : leaving'[b] = "done" => leaving[b] = "done" \/ sent[b] \in ts
  PROVE  Inv'
<1> USE NoneAssumption DEF Inv, TypeOK, request
<1>1. /\ row' \in [Tokens -> {"new", "active", "revoked", "expired"}]
      /\ Aging
      /\ \A t \in Tokens : row'[t] = "active" => row[t] = "active"
      /\ \A t \in Tokens : t \in ts /\ row[t] # "new" => row'[t] = "revoked"
  BY RevokedRows
<1>2. TypeOK'
  BY <1>1
<1>3. Issued' /\ Stages'
  BY <1>1 DEF Issued, Stages, Aging
<1>4. Spent'
  <2>1. \A q \in Requests : Exchanged(q) => old[q] \in Tokens
    BY DEF Exchanged, Issued, Stages
  <2>2. \A q \in Requests : Exchanged(q)' <=> Exchanged(q)
    BY DEF Exchanged
  <2>3. \A b \in Tabs : leaving'[b] = "done" /\ sent[b] # None => row'[sent[b]] = "revoked"
    BY <1>1 DEF Spent, Issued, Aging
  <2>4. \A t \in ended' : row'[t] = "revoked"
    BY <1>1 DEF Spent, Aging
  <2>. QED  BY <1>1, <2>1, <2>2, <2>3, <2>4 DEF Spent, Aging
<1>5. EndedAreOut'
  BY DEF EndedAreOut, Rotating
<1>6. OutIsOut'
  <2>1. CASE out
    BY <1>1, <2>1 DEF OutIsOut
  <2>2. CASE ts = Tokens /\ \A t \in Tokens : Rotating(t) = {}
    <3>1. \A t \in Tokens : row'[t] # "active"
      BY <1>1, <2>2
    <3>2. \A q \in Requests : at[q] \notin {"revoke", "store"}
      BY <2>2 DEF Rotating, Issued
    <3>. QED  BY <3>1, <3>2 DEF OutIsOut
  <2>3. CASE ~out'
    BY <2>3 DEF OutIsOut
  <2>. QED  BY <2>1, <2>2, <2>3
<1>7. NoneLeftBehind'
  BY <1>1 DEF NoneLeftBehind
<1>. QED  BY <1>2, <1>3, <1>4, <1>5, <1>6, <1>7

----------------------------------------------------------------------------
(* All steps.                                                              *)

LEMMA TabSteps ==
  ASSUME Inv, NEW b \in Tabs,
         \/ \E t \in Tokens : Login(b, t)
         \/ Forget(b)
         \/ \E c \in Tabs : Duplicate(b, c)
         \/ \E r \in Requests : Refresh(b, r)
         \/ Receive(b) \/ Refused(b) \/ GiveUp(b)
         \/ Logout(b) \/ LogoutRevokes(b) \/ LogoutFails(b) \/ ClearTokens(b)
  PROVE  Inv'
<1>1. CASE LogoutRevokes(b)
  <2>1. row' = Revoked({sent[b]}) /\ UNCHANGED <<held, request, sent, dropped, out>>
    BY <1>1 DEF LogoutRevokes
  <2>2. ended' = ended \cup {t \in {sent[b]} \ {None} : Rotating(t) = {}}
    BY <1>1 DEF LogoutRevokes
  <2>3. \A t \in ended' \ ended : t \in {sent[b]} /\ row[t] # "new" /\ Rotating(t) = {}
    BY <2>2 DEF Inv, Issued
  <2>4. ended' \subseteq Tokens
    BY <2>2 DEF Inv, TypeOK
  <2>5. leaving' = [leaving EXCEPT ![b] = "done"]
    BY <1>1 DEF LogoutRevokes
  <2>6. /\ leaving' \in [Tabs -> {"no", "sent", "done", "failed"}]
        /\ \A c \in Tabs : leaving'[c] = "done" => leaving[c] = "done" \/ sent[c] \in {sent[b]}
    BY <2>5 DEF Inv, TypeOK
  <2>7. out' \in BOOLEAN /\ (out' => out)
    BY <2>1 DEF Inv, TypeOK
  <2>. QED  BY <2>1, <2>3, <2>4, <2>6, <2>7, EndStep
<1>2. CASE LogoutFails(b)
  <2> USE DEF Inv, TypeOK, LogoutFails, request, history
  <2>1. TypeOK'
    BY <1>2
  <2>2. Issued' /\ Stages' /\ Spent' /\ EndedAreOut' /\ OutIsOut' /\ NoneLeftBehind'
    BY <1>2 DEF Issued, Stages, Spent, Exchanged, EndedAreOut, OutIsOut, Rotating, NoneLeftBehind
  <2>. QED  BY <2>1, <2>2
<1>. QED
  BY <1>1, <1>2, LoginStep, ForgetStep, DuplicateStep, RefreshStep, ReceiveStep, RefusedStep, GiveUpStep,
     LogoutStep, ClearTokensStep

LEMMA InvStep ==
  ASSUME Inv, [Next]_vars
  PROVE  Inv'
<1>1. ASSUME NEW r \in Requests, Check(r) \/ Revoke(r) \/ Fail(r) \/ \E t \in Tokens : Store(r, t)
      PROVE  Inv'
  BY <1>1, CheckStep, RevokeStep, FailStep, StoreStep
<1>2. CASE RevokeAll
  <2>1. row' = Revoked(Tokens) /\ UNCHANGED <<held, request, leaving, sent, dropped>>
    BY <1>2 DEF RevokeAll, logout
  <2>2. ended' = ended \cup {t \in Tokens : row[t] # "new" /\ Rotating(t) = {}}
    BY <1>2 DEF RevokeAll
  <2>3. ended' \subseteq Tokens /\ \A t \in ended' \ ended : t \in Tokens /\ row[t] # "new" /\ Rotating(t) = {}
    BY <2>2 DEF Inv, TypeOK
  <2>4. leaving' \in [Tabs -> {"no", "sent", "done", "failed"}]
    BY <2>1 DEF Inv, TypeOK
  <2>5. out' = \A t \in Tokens : Rotating(t) = {}
    BY <1>2 DEF RevokeAll
  <2>. QED  BY <2>1, <2>3, <2>4, <2>5, EndStep
<1>3. ASSUME NEW t \in Tokens, Expire(t)
      PROVE  Inv'
  <2> USE DEF Inv, TypeOK, Expire, request, logout, history
  <2>1. Aging /\ TypeOK' /\ \A u \in Tokens : row'[u] = "active" => row[u] = "active"
    BY <1>3 DEF Aging
  <2>2. Issued' /\ Stages'
    BY <1>3, <2>1 DEF Issued, Stages, Aging
  <2>3. Spent'
    <3>1. \A q \in Requests : Exchanged(q) => old[q] \in Tokens
      BY DEF Exchanged, Issued, Stages
    <3>. QED  BY <1>3, <2>1, <3>1 DEF Spent, Exchanged, Aging
  <2>4. EndedAreOut' /\ OutIsOut' /\ NoneLeftBehind'
    BY <1>3, <2>1 DEF EndedAreOut, OutIsOut, Exchanged, Rotating, NoneLeftBehind
  <2>. QED  BY <2>1, <2>2, <2>3, <2>4
<1>4. CASE UNCHANGED vars
  BY <1>4 DEF vars, request, logout, history, Inv, TypeOK, Issued, Stages, Spent, Exchanged,
     EndedAreOut, OutIsOut, Rotating, NoneLeftBehind
<1>. QED  BY <1>1, <1>2, <1>3, <1>4, TabSteps DEF Next

\* Every reachable state satisfies the inductive invariant.
LEMMA Invariance == Spec => []Inv
<1>1. Init => Inv
  <2>1. Init => TypeOK
    <3>1. Init => out \in BOOLEAN
      BY Zenon DEF Init
    <3>2. Init => /\ row \in [Tokens -> {"new", "active", "revoked", "expired"}]
                  /\ held \in [Tabs -> Tokens \cup {None}]
                  /\ asking \in [Tabs -> Requests \cup {None}]
                  /\ at \in [Requests -> {"free", "check", "revoke", "store", "granted", "denied", "over"}]
                  /\ old \in [Requests -> Tokens \cup {None}]
                  /\ new \in [Requests -> Tokens \cup {None}]
                  /\ leaving \in [Tabs -> {"no", "sent", "done", "failed"}]
                  /\ sent \in [Tabs -> Tokens \cup {None}]
                  /\ dropped \subseteq Tokens /\ ended \subseteq Tokens
      BY DEF Init
    <3>. QED  BY <3>1, <3>2 DEF TypeOK
  <2>2. Init => OutIsOut
    BY DEF Init, OutIsOut
  <2>3. Init => Issued /\ Stages /\ Spent /\ EndedAreOut /\ NoneLeftBehind
    BY NoneAssumption DEF Init, Issued, Stages, Spent, Exchanged, EndedAreOut, NoneLeftBehind
  <2>. QED  BY <2>1, <2>2, <2>3 DEF Inv
<1>2. Inv /\ [Next]_vars => Inv'
  BY InvStep
<1>. QED  BY <1>1, <1>2, PTL DEF Spec

\* The types of the rows, of what the tabs store and of the requests' stages.
THEOREM TypeCorrect == Spec => []TypeOK
<1>1. Inv => TypeOK
  BY DEF Inv
<1>. QED  BY <1>1, Invariance, PTL

\* With any number of tabs, sign-ins and overlapping refreshes, every active refresh token
\* is stored in a tab or on its way to one, or has been let go of in one of the ways that
\* NoneLeftBehind names: neither rotation nor a log-out that arrives loses one.
THEOREM NoTokenLeft == Spec => []NoneLeftBehind
<1>1. Inv => NoneLeftBehind
  BY DEF Inv
<1>. QED  BY <1>1, Invariance, PTL

\* However many refreshes overlap, a token that has been exchanged stays revoked, a
\* logged-out token is exchanged by nobody who had not checked it before, and a
\* revocation of all tokens that meets no exchange lasts until the next sign-in.
THEOREM RevokedForGood == Spec => []RevocationHolds
<1>1. Inv => RevocationHolds
  BY DEF Inv, RevocationHolds, Spent, Exchanged, EndedAreOut, OutIsOut
<1>. QED  BY <1>1, Invariance, PTL
=============================================================================
