---------------------------- MODULE RealtimeProofs ----------------------------
(***************************************************************************)
(* Proofs about both ends of the realtime connections, Sockets on the      *)
(* server and ThreadSync in the browser, for every value of their          *)
(* constants.                                                              *)
(*                                                                         *)
(* ThreadSync: the types; a clean thread; nothing shown that is not        *)
(* stored; and, in the lossless scenarios, nothing lost.  First come the   *)
(* facts about its sequence operators.  Clean adds to a clean thread that  *)
(* the replies and the snapshot that will become or join the thread are    *)
(* clean; Genuine says that they hold only stored messages.  Delivering,   *)
(* for the lossless scenarios, says why a gap in the thread is always      *)
(* being filled: the log has no gaps, the page and each reply have none    *)
(* after their cursor, which is shown, and a thread that is cut off has    *)
(* none at all.                                                            *)
(*                                                                         *)
(* Sockets: the types, and that presence follows the connections.  The     *)
(* inductive invariant adds the life cycle of one socket: it is opened     *)
(* once, whatever may still write its presence is open or raced, and once  *)
(* registered it has a timer, which renews its presence or closes it.      *)
(***************************************************************************)
EXTENDS ThreadSync, Sockets, FiniteSetTheorems, TLAPS

----------------------------------------------------------------------------
(* The members of a set in order.                                          *)

\* The n-th member of a finite set of naturals has n members up to it.
LEMMA AscendingExists ==
  ASSUME NEW S \in SUBSET Nat, IsFiniteSet(S)
  PROVE  \E s \in [1 .. Cardinality(S) -> S] :
           \A i, j \in 1 .. Cardinality(S) : i < j => s[i] < s[j]
<1> DEFINE N == Cardinality(S)
           Upto(m) == {k \in S : k <= m}
           rank == [m \in S |-> Cardinality(Upto(m))]
<1>1. N \in Nat
  BY FS_CardinalityType
<1>2. ASSUME NEW m \in S
      PROVE  IsFiniteSet(Upto(m)) /\ rank[m] \in 1 .. N
  <2>1. Upto(m) \in SUBSET S /\ m \in Upto(m)
    OBVIOUS
  <2>2. IsFiniteSet(Upto(m)) /\ Cardinality(Upto(m)) <= N
    BY <2>1, FS_Subset
  <2>3. Cardinality(Upto(m)) \in Nat
    BY <2>2, FS_CardinalityType
  <2>4. Cardinality(Upto(m)) # 0
    BY <2>1, <2>2, FS_EmptySet
  <2>. QED  BY <2>2, <2>3, <2>4, <1>1
<1>3. ASSUME NEW m \in S, NEW k \in S, m < k
      PROVE  rank[m] < rank[k]
  <2>0. m \in Nat /\ k \in Nat /\ \A x \in S : x \in Nat
    OBVIOUS
  <2>1. Upto(m) \in SUBSET Upto(k) /\ k \in Upto(k) /\ k \notin Upto(m)
    <3>1. \A x \in S : x <= m => x <= k
      BY <1>3, <2>0
    <3>2. k <= k /\ ~(k <= m)
      BY <1>3, <2>0
    <3>. QED  BY <3>1, <3>2
  <2>2. Cardinality(Upto(m)) <= Cardinality(Upto(k)) /\ Cardinality(Upto(m)) # Cardinality(Upto(k))
    BY <1>2, <2>1, FS_Subset
  <2>3. rank[m] \in 1 .. N /\ rank[k] \in 1 .. N
    BY <1>2
  <2>. QED  BY <2>2, <2>3, <1>1
<1>4. rank \in Injection(S, 1 .. N)
  <2>1. rank \in [S -> 1 .. N]
    BY <1>2
  <2>2. ASSUME NEW m \in S, NEW k \in S, rank[m] = rank[k]
        PROVE  m = k
    <3>1. m \in Nat /\ k \in Nat /\ rank[m] \in 1 .. N /\ rank[k] \in 1 .. N
      BY <1>2
    <3>2. m < k \/ k < m \/ m = k
      BY <3>1
    <3>. HIDE DEF rank
    <3>. QED  BY <1>1, <1>3, <2>2, <3>1, <3>2
  <2>. QED  BY <2>1, <2>2 DEF Injection, IsInjective
<1>5. rank \in Surjection(S, 1 .. N)
  <2>1. IsFiniteSet(1 .. N) /\ Cardinality(1 .. N) = N
    BY <1>1, FS_Interval
  <2>. HIDE DEF rank
  <2>. QED  BY <1>4, <2>1, FS_Injection
<1>6. \A n \in 1 .. N : \E m \in S : rank[m] = n
  BY <1>5 DEF Surjection
<1> DEFINE s == [n \in 1 .. N |-> CHOOSE m \in S : rank[m] = n]
<1>7. \A n \in 1 .. N : s[n] \in S /\ rank[s[n]] = n
  <2>. HIDE DEF rank
  <2>. QED  BY <1>6
<1>8. ASSUME NEW i \in 1 .. N, NEW j \in 1 .. N, i < j
      PROVE  s[i] < s[j]
  <2>1. s[i] \in S /\ s[j] \in S /\ rank[s[i]] = i /\ rank[s[j]] = j
    BY <1>7
  <2>. HIDE DEF s, rank, N
  <2>0. i \in Nat /\ j \in Nat
    BY <1>1
  <2>2. s[i] \in Nat /\ s[j] \in Nat
    BY <2>1
  <2>3. ~(s[j] < s[i])
    BY <1>3, <1>8, <2>1, <2>2
  <2>4. i # j
    BY <1>8, <2>0
  <2>5. s[i] # s[j]
    BY <2>1, <2>4
  <2>. QED  BY <2>2, <2>3, <2>5
<1>9. s \in [1 .. N -> S]
  BY <1>7
<1>. HIDE DEF s, N
<1>10. \A i, j \in 1 .. N : i < j => s[i] < s[j]
  BY <1>8
<1>. QED  BY <1>9, <1>10 DEF N

\* Ascending lists every member once, in order.
LEMMA AscendingLists ==
  ASSUME NEW S \in SUBSET Nat, IsFiniteSet(S)
  PROVE  /\ Cardinality(S) \in Nat
         /\ Ascending(S) \in [1 .. Cardinality(S) -> S]
         /\ \A i, j \in 1 .. Cardinality(S) : i < j => Ascending(S)[i] < Ascending(S)[j]
         /\ \A m \in S : \E i \in 1 .. Cardinality(S) : Ascending(S)[i] = m
<1> DEFINE N == Cardinality(S)  a == Ascending(S)
<1>1. N \in Nat
  BY FS_CardinalityType
<1>2. a \in [1 .. N -> S] /\ \A i, j \in 1 .. N : i < j => a[i] < a[j]
  <2>1. \A s \in [1 .. N -> S] : DOMAIN s = 1 .. N
    OBVIOUS
  <2>. QED  BY <2>1, AscendingExists DEF Ascending
<1>. HIDE DEF a
<1>3. a \in Injection(1 .. N, S)
  <2>1. \A i, j \in 1 .. N : i < j \/ j < i \/ i = j
    BY <1>1
  <2>2. \A i \in 1 .. N : a[i] \in Nat
    BY <1>2
  <2>. QED  BY <1>2, <2>1, <2>2 DEF Injection, IsInjective
<1>4. a \in Surjection(1 .. N, S)
  <2>1. Cardinality(1 .. N) = N
    BY <1>1, FS_Interval
  <2>. QED  BY <1>3, <2>1, FS_Injection
<1>5. \A m \in S : \E i \in 1 .. N : a[i] = m
  BY <1>4 DEF Surjection
<1>. QED  BY <1>1, <1>2, <1>5 DEF a

----------------------------------------------------------------------------
(* The rows of a thread.                                                   *)

Distinct(s) == \A i, j \in DOMAIN s : s[i] = s[j] => i = j

\* Ascending of a set of messages is a thread of those messages, each once.
LEMMA AscendingThread ==
  ASSUME MaxMessages \in Nat, NEW S \in SUBSET Messages
  PROVE  Ascending(S) \in Seq(Messages) /\ Distinct(Ascending(S)) /\ ToSet(Ascending(S)) = S
<1> DEFINE N == Cardinality(S)  a == Ascending(S)
<1>1. IsFiniteSet(S) /\ S \in SUBSET Nat
  <2>1. IsFiniteSet(Messages) /\ Messages \in SUBSET Nat
    BY FS_Interval DEF Messages
  <2>. QED  BY <2>1, FS_Subset
<1>2. /\ N \in Nat
      /\ a \in [1 .. N -> S]
      /\ \A i, j \in 1 .. N : i < j => a[i] < a[j]
      /\ \A m \in S : \E i \in 1 .. N : a[i] = m
  BY <1>1, AscendingLists
<1>. HIDE DEF a, N
<1>3. a \in Seq(Messages)
  BY <1>2
<1>4. Distinct(a)
  <2>1. \A i \in 1 .. N : a[i] \in Nat
    BY <1>1, <1>2
  <2>2. \A i, j \in 1 .. N : i < j \/ j < i \/ i = j
    BY <1>2
  <2>. QED  BY <1>2, <2>1, <2>2 DEF Distinct
<1>5. ToSet(a) = S
  BY <1>2 DEF ToSet
<1>. QED  BY <1>3, <1>4, <1>5 DEF a

\* Rows keeps the chosen rows, in their order and no more often than they were there.
LEMMA RowsKept ==
  ASSUME NEW T, NEW t \in Seq(T), NEW S \in SUBSET DOMAIN t
  PROVE  /\ Rows(t, S) \in Seq(T)
         /\ ToSet(Rows(t, S)) = {t[i] : i \in S}
         /\ Distinct(t) => Distinct(Rows(t, S))
<1> DEFINE N == Cardinality(S)  a == Ascending(S)
<1>1. IsFiniteSet(S) /\ S \in SUBSET Nat
  <2>1. Len(t) \in Nat /\ DOMAIN t = 1 .. Len(t)
    OBVIOUS
  <2>2. IsFiniteSet(1 .. Len(t))
    BY <2>1, FS_Interval
  <2>. QED  BY <2>1, <2>2, FS_Subset
<1>2. /\ N \in Nat
      /\ a \in [1 .. N -> S]
      /\ \A i, j \in 1 .. N : i < j => a[i] < a[j]
      /\ \A m \in S : \E i \in 1 .. N : a[i] = m
  BY <1>1, AscendingLists
<1>3. Rows(t, S) = [n \in 1 .. N |-> t[a[n]]]
  BY DEF Rows
<1>. HIDE DEF a, N
<1>4. \A n \in 1 .. N : a[n] \in DOMAIN t /\ t[a[n]] \in T
  BY <1>2
<1>5. Rows(t, S) \in Seq(T)
  BY <1>2, <1>3, <1>4
<1>6. ToSet(Rows(t, S)) = {t[i] : i \in S}
  <2>1. ToSet(Rows(t, S)) = {t[a[n]] : n \in 1 .. N}
    BY <1>3 DEF ToSet
  <2>. QED  BY <1>2, <2>1
<1>7. ASSUME Distinct(t)
      PROVE  Distinct(Rows(t, S))
  <2>1. \A i \in 1 .. N : a[i] \in Nat
    BY <1>1, <1>2
  <2>2. \A i, j \in 1 .. N : i < j \/ j < i \/ i = j
    BY <1>2
  <2>. QED  BY <1>2, <1>3, <1>4, <1>7, <2>1, <2>2 DEF Distinct
<1>. QED  BY <1>5, <1>6, <1>7

\* Appending unique messages shows those of both, and none twice.
LEMMA AppendsUnique ==
  ASSUME NEW T, NEW prev \in Seq(T), NEW incoming \in Seq(T)
  PROVE  /\ AppendUnique(prev, incoming) \in Seq(T)
         /\ ToSet(AppendUnique(prev, incoming)) = ToSet(prev) \cup ToSet(incoming)
         /\ Distinct(prev) /\ Distinct(incoming) => Distinct(AppendUnique(prev, incoming))
<1> DEFINE unseen == {i \in DOMAIN incoming : incoming[i] \notin ToSet(prev)}
           fresh == Rows(incoming, unseen)
<1>1. /\ fresh \in Seq(T)
      /\ ToSet(fresh) = {incoming[i] : i \in unseen}
      /\ Distinct(incoming) => Distinct(fresh)
  BY RowsKept
<1>2. AppendUnique(prev, incoming) = prev \o fresh
  BY DEF AppendUnique
<1>3. ToSet(fresh) = ToSet(incoming) \ ToSet(prev)
  BY <1>1 DEF ToSet
<1>. HIDE DEF fresh, unseen
<1>4. prev \o fresh \in Seq(T)
  BY <1>1
<1>5. ToSet(prev \o fresh) = ToSet(prev) \cup ToSet(fresh)
  <2>1. Len(prev) \in Nat /\ Len(fresh) \in Nat
    BY <1>1
  <2>2. \A i \in 1 .. Len(prev) : (prev \o fresh)[i] = prev[i]
    BY <1>1
  <2>3. \A i \in 1 .. Len(fresh) : (prev \o fresh)[Len(prev) + i] = fresh[i]
    BY <1>1, <2>1
  <2>4. Len(prev \o fresh) = Len(prev) + Len(fresh)
    BY <1>1
  <2>5. ASSUME NEW x \in ToSet(prev \o fresh)
        PROVE  x \in ToSet(prev) \cup ToSet(fresh)
    <3>1. PICK i \in 1 .. Len(prev) + Len(fresh) : x = (prev \o fresh)[i]
      BY <1>1, <1>4, <2>4 DEF ToSet
    <3>2. CASE i <= Len(prev)
      BY <2>1, <2>2, <3>1, <3>2 DEF ToSet
    <3>3. CASE i > Len(prev)
      <4>1. i - Len(prev) \in 1 .. Len(fresh) /\ i = Len(prev) + (i - Len(prev))
        BY <2>1, <3>1, <3>3
      <4>2. x = fresh[i - Len(prev)]
        BY <2>3, <3>1, <4>1
      <4>3. i - Len(prev) \in DOMAIN fresh /\ DOMAIN fresh = 1 .. Len(fresh)
        BY <1>1, <4>1
      <4>. QED  BY <4>2, <4>3 DEF ToSet
    <3>. QED  BY <2>1, <3>1, <3>2, <3>3
  <2>6. ASSUME NEW x \in ToSet(prev)
        PROVE  x \in ToSet(prev \o fresh)
    <3>1. PICK i \in 1 .. Len(prev) : x = prev[i]
      BY DEF ToSet
    <3>. QED  BY <1>4, <2>1, <2>2, <2>4, <3>1 DEF ToSet
  <2>7. ASSUME NEW x \in ToSet(fresh)
        PROVE  x \in ToSet(prev \o fresh)
    <3>1. PICK i \in 1 .. Len(fresh) : x = fresh[i]
      BY <1>1 DEF ToSet
    <3>2. Len(prev) + i \in 1 .. Len(prev \o fresh)
      BY <2>1, <2>4, <3>1
    <3>3. x = (prev \o fresh)[Len(prev) + i] /\ DOMAIN (prev \o fresh) = 1 .. Len(prev \o fresh)
      BY <1>4, <2>3, <3>1
    <3>. QED  BY <3>2, <3>3 DEF ToSet
  <2>. QED  BY <2>5, <2>6, <2>7
<1>6. ASSUME Distinct(prev), Distinct(incoming)
      PROVE  Distinct(prev \o fresh)
  <2>1. Distinct(fresh)
    BY <1>1, <1>6
  <2>2. \A i \in DOMAIN prev, j \in DOMAIN fresh : prev[i] # fresh[j]
    BY <1>3 DEF ToSet
  <2>. QED  BY <1>1, <1>6, <2>1, <2>2 DEF Distinct
<1>. QED  BY <1>1, <1>2, <1>3, <1>4, <1>5, <1>6

\* The persisted rows of a thread, and the last of them.
LEMMA PersistedRows ==
  ASSUME NEW t \in Seq(Messages \cup {Pending})
  PROVE  /\ Persisted(t) \in Seq(Messages)
         /\ ToSet(Persisted(t)) = ToSet(t) \ {Pending}
         /\ Distinct(t) => Distinct(Persisted(t))
         /\ LastPersisted(t) # 0 => LastPersisted(t) \in ToSet(t) \cap Messages
         /\ ToSet(t) \subseteq {Pending} \/ LastPersisted(t) # 0
<1> DEFINE at == {i \in DOMAIN t : t[i] # Pending}
           kept == Persisted(t)
<1>1. /\ kept \in Seq(Messages \cup {Pending})
      /\ ToSet(kept) = {t[i] : i \in at}
      /\ Distinct(t) => Distinct(kept)
  BY RowsKept DEF Persisted
<1>2. LastPersisted(t) = IF kept = <<>> THEN 0 ELSE kept[Len(kept)]
  BY DEF LastPersisted, Last
<1>. HIDE DEF kept
<1>3. ToSet(kept) = ToSet(t) \ {Pending}
  BY <1>1 DEF ToSet
<1>4. \A i \in 1 .. Len(kept) : kept[i] \in ToSet(kept)
  BY <1>1 DEF ToSet
<1>5. kept \in Seq(Messages)
  <2>1. \A i \in 1 .. Len(kept) : kept[i] \in Messages
    BY <1>1, <1>3, <1>4
  <2>. QED  BY <1>1, <2>1
<1>6. ASSUME LastPersisted(t) # 0
      PROVE  LastPersisted(t) \in ToSet(t) \cap Messages
  <2>1. kept # <<>> /\ Len(kept) \in 1 .. Len(kept)
    BY <1>2, <1>5, <1>6
  <2>2. kept[Len(kept)] \in Messages
    BY <1>5, <2>1
  <2>. QED  BY <1>2, <1>3, <1>4, <2>1, <2>2
<1>7. ASSUME LastPersisted(t) = 0
      PROVE  ToSet(t) \subseteq {Pending}
  <2>1. kept = <<>> \/ kept[Len(kept)] \in Messages
    BY <1>5
  <2>2. kept = <<>>
    BY <1>2, <1>7, <2>1 DEF Messages
  <2>. QED  BY <1>3, <2>2 DEF ToSet
<1>. QED  BY <1>1, <1>3, <1>5, <1>6, <1>7 DEF kept

----------------------------------------------------------------------------
(* The inductive invariants.                                               *)

\* Replies, and the snapshot of a send, hold a message once.
RepliesClean ==
  /\ Distinct(page.reply) /\ Distinct(send.before)
  /\ \A q \in after : Distinct(q.reply)

Clean == TypeOK /\ CleanThread /\ RepliesClean

\* Every message the browser holds, in whatever form, is stored.
Genuine ==
  /\ published \subseteq stored /\ ToSet(wire) \subseteq stored /\ ToSet(thread) \subseteq stored \cup {Pending}
  /\ ToSet(page.reply) \subseteq stored /\ ToSet(send.before) \subseteq stored
  /\ \A q \in after : ToSet(q.reply) \subseteq stored
  /\ send.stage = "stored" => send.id \in stored

\* Has every message before one that it has.
DownClosed(S) == \A n \in S, m \in Messages : m < n => m \in S

\* The log has no gaps, and the server has joined every socket that is up.
Log ==
  /\ late = {} /\ stored = 1 .. next - 1 /\ next > scenario.preloaded
  /\ joined = connected

\* The page is asked for once, and has the messages that were there.
Opening ==
  /\ loaded => page.stage = "none" /\ 1 \in Shown
  /\ ~loaded => after = {}
  /\ page.stage = "answered" => 1 \in ToSet(page.reply) /\ DownClosed(ToSet(page.reply))

\* A request starts at a message that is shown, and its answer has no gaps.
Cursors ==
  \A q \in after :
    /\ q.cursor \in Shown
    /\ \A n \in ToSet(q.reply), m \in Messages : q.cursor < m /\ m < n => m \in ToSet(q.reply)

\* While the browser is connected, what it does not show is on its way.
OnItsWay ==
  loaded /\ connected =>
    \A m \in stored \ Shown : m \notin published \/ m \in ToSet(wire) \/ Fetched(m)

\* While it is not, the thread has no gaps, and there is nothing in flight but polls.
Offline ==
  /\ loaded /\ ~connected => DownClosed(Shown)
  /\ ~connected => wire = <<>> /\ send.stage = "none" /\ (scenario.mode = "ws" => after = {})
  /\ scenario.mode = "poll" => ~connected

\* Where the socket may drop, events come in order, and a gap is being fetched.
InOrder ==
  /\ send.stage = "none"
  /\ \A n \in published, m \in stored \ published : n < m
  /\ ToSet(wire) \subseteq published
  /\ \A i, j \in DOMAIN wire : i < j => wire[i] < wire[j]
  /\ loaded => \A n \in Shown, m \in stored \ Shown : m < n => Fetched(m)

Delivering ==
  /\ Log /\ Opening /\ Cursors /\ OnItsWay /\ Offline
  /\ May("disconnect") => InOrder

ThreadInv == Clean /\ Genuine /\ (Lossless => Delivering)

----------------------------------------------------------------------------
(* Types, duplicates and ghosts.                                           *)

\* A catch-up leaves the requests alone or asks for what follows a shown message.
LEMMA CatchUpAsks ==
  ASSUME NEW t \in Seq(Messages \cup {Pending}), CatchUp(t)
  PROVE  \/ after' = after
         \/ LastPersisted(t) # 0 /\ after' = AskAfter(t)
BY DEF CatchUp

\* A new request is one of the well-formed ones, with an empty reply.
LEMMA AskTypes ==
  ASSUME TypeOK, RepliesClean, NEW t \in Seq(Messages \cup {Pending}), LastPersisted(t) # 0
  PROVE  \A q \in AskAfter(t) : q \in Requests /\ Distinct(q.reply)
<1>1. LastPersisted(t) \in Messages
  BY PersistedRows
<1>2. <<>> \in Seq(Messages) /\ Distinct(<<>>)
  BY DEF Distinct
<1> DEFINE new == [answered |-> FALSE, cursor |-> LastPersisted(t), reply |-> <<>>]
<1>3. new \in Requests /\ Distinct(new.reply)
  BY <1>1, <1>2 DEF Requests
<1>. HIDE DEF new
<1>4. AskAfter(t) = after \cup {new}
  BY DEF AskAfter, new
<1>. QED  BY <1>3, <1>4 DEF TypeOK, RepliesClean

\* Appending adds one element.
LEMMA AppendShows ==
  ASSUME NEW T, NEW s \in Seq(T), NEW x \in T
  PROVE  ToSet(Append(s, x)) = ToSet(s) \cup {x}
<1>1. /\ Len(s) \in Nat /\ DOMAIN s = 1 .. Len(s) /\ DOMAIN Append(s, x) = 1 .. Len(s) + 1
      /\ \A i \in 1 .. Len(s) : Append(s, x)[i] = s[i]
      /\ Append(s, x)[Len(s) + 1] = x
  OBVIOUS
<1>2. \A i \in 1 .. Len(s) + 1 : i \in 1 .. Len(s) \/ i = Len(s) + 1
  BY <1>1
<1>3. Len(s) + 1 \in 1 .. Len(s) + 1 /\ \A i \in 1 .. Len(s) : i \in 1 .. Len(s) + 1
  BY <1>1
<1>. QED  BY <1>1, <1>2, <1>3 DEF ToSet

\* A thread without an optimistic row is one of messages.
LEMMA NoPending ==
  ASSUME NEW t \in Seq(Messages \cup {Pending}), Pending \notin ToSet(t)
  PROVE  t \in Seq(Messages)
<1>1. \A i \in 1 .. Len(t) : t[i] \in Messages
  BY DEF ToSet
<1>. QED  BY <1>1

\* A thread of messages has no optimistic row.
LEMMA NoneIsPending ==
  ASSUME NEW t \in Seq(Messages)
  PROVE  Pending \notin ToSet(t) /\ t \in Seq(Messages \cup {Pending})
<1>1. Pending \notin Messages
  BY DEF Messages, Pending
<1>. QED  BY <1>1 DEF ToSet

\* One row.
LEMMA OneRow ==
  ASSUME NEW m
  PROVE  <<m>> \in Seq({m}) /\ Distinct(<<m>>) /\ ToSet(<<m>>) = {m}
BY DEF Distinct, ToSet

\* What the browser merges into its thread keeps it clean.
LEMMA Merged ==
  ASSUME TypeOK, CleanThread, NEW incoming \in Seq(Messages), Distinct(incoming),
         thread' = AppendUnique(thread, incoming)
  PROVE  /\ thread' \in Seq(Messages \cup {Pending}) /\ NoDuplicates'
         /\ ToSet(thread') = ToSet(thread) \cup ToSet(incoming)
         /\ Pending \in ToSet(thread') <=> Pending \in ToSet(thread)
<1>1. thread \in Seq(Messages \cup {Pending}) /\ Distinct(thread)
  BY DEF TypeOK, CleanThread, NoDuplicates, Distinct
<1>2. incoming \in Seq(Messages \cup {Pending}) /\ Pending \notin ToSet(incoming)
  BY NoneIsPending
<1>3. /\ thread' \in Seq(Messages \cup {Pending}) /\ Distinct(thread')
      /\ ToSet(thread') = ToSet(thread) \cup ToSet(incoming)
  BY <1>1, <1>2, AppendsUnique
<1>. QED  BY <1>2, <1>3 DEF NoDuplicates, Distinct

\* What the thread shows after an event, a merge, a send and the answer to a send.
LEMMA DeliverShows ==
  ASSUME Clean, Deliver, loaded
  PROVE  ToSet(thread') = ToSet(thread) \cup {Head(wire)} /\ Head(wire) \in Messages
<1> DEFINE row == <<Head(wire)>>
<1>1. wire \in Seq(Messages) /\ wire # <<>> /\ thread' = AppendUnique(thread, row)
  BY DEF Clean, TypeOK, Deliver
<1>2. Head(wire) \in Messages /\ row \in Seq(Messages) /\ Distinct(row) /\ ToSet(row) = {Head(wire)}
  BY <1>1, OneRow
<1>. HIDE DEF row
<1>. QED  BY <1>1, <1>2, Merged DEF Clean

LEMMA MergeShows ==
  ASSUME Clean, NEW q \in after, thread' = AppendUnique(thread, q.reply)
  PROVE  ToSet(thread') = ToSet(thread) \cup ToSet(q.reply)
<1>1. q.reply \in Seq(Messages) /\ Distinct(q.reply)
  BY DEF Clean, TypeOK, Requests, RepliesClean
<1>. QED  BY <1>1, Merged DEF Clean

LEMMA SendShows ==
  ASSUME Clean, Send
  PROVE  ToSet(thread') = ToSet(thread) \cup {Pending}
<1> DEFINE row == <<Pending>>
<1>1. thread \in Seq(Messages \cup {Pending}) /\ thread' = AppendUnique(thread, row)
  BY DEF Clean, TypeOK, Send
<1>2. row \in Seq(Messages \cup {Pending}) /\ ToSet(row) = {Pending}
  BY OneRow
<1>. HIDE DEF row
<1>. QED  BY <1>1, <1>2, AppendsUnique

LEMMA SendSucceedsShows ==
  ASSUME Clean, SendSucceeds
  PROVE  ToSet(thread') = (ToSet(thread) \ {Pending}) \cup {send.id} /\ send.id \in Messages
<1> DEFINE row == <<send.id>>
<1>1. send.id \in Messages
  BY DEF SendSucceeds, Clean, TypeOK
<1>2. row \in Seq(Messages) /\ ToSet(row) = {send.id}
  BY <1>1, OneRow
<1>3. Persisted(thread) \in Seq(Messages) /\ ToSet(Persisted(thread)) = ToSet(thread) \ {Pending}
  BY PersistedRows DEF Clean, TypeOK
<1>4. thread' = AppendUnique(Persisted(thread), row)
  BY DEF SendSucceeds, ReplacePending
<1>. HIDE DEF row
<1>. QED  BY <1>1, <1>2, <1>3, <1>4, AppendsUnique

\* Every step keeps the thread, and what will be merged into it, clean.
LEMMA CleanStep ==
  ASSUME Clean, [Next]_vars
  PROVE  Clean'
<1>0. /\ TypeOK /\ CleanThread /\ RepliesClean
      /\ thread \in Seq(Messages \cup {Pending})
      /\ MaxMessages \in Nat /\ MaxMishaps \in Nat
  BY BoundsAssumption DEF Clean, TypeOK
<1>1. ASSUME Smooth \/ Mishap
      PROVE  mishaps' \in 0 .. MaxMishaps
  BY <1>0, <1>1 DEF TypeOK, Smooth, Mishap
<1>2. ASSUME UNCHANGED <<thread, page, send>>, after' \subseteq after,
             scenario' = scenario, next' \in 1 .. MaxMessages + 1,
             stored' \subseteq Messages, late' \subseteq Messages, published' \subseteq Messages,
             UNCHANGED loaded, connected' \in BOOLEAN, joined' \in BOOLEAN,
             wire' \in Seq(Messages), mishaps' \in 0 .. MaxMishaps
      PROVE  Clean'
  BY <1>0, <1>2 DEF Clean, TypeOK, CleanThread, NoDuplicates, NoGhost, RepliesClean, Distinct
<1>n. next <= MaxMessages => next \in Messages /\ next + 1 \in 1 .. MaxMessages + 1
  BY <1>0 DEF TypeOK, Messages
<1>3. CASE StoreOther
  BY <1>0, <1>n, <1>1, <1>2, <1>3 DEF StoreOther, TypeOK, socket
<1>4. CASE StampLate
  <2>1. next' \in 1 .. MaxMessages + 1 /\ late' \subseteq Messages /\ mishaps' \in 0 .. MaxMishaps
    BY <1>0, <1>n, <1>1, <1>4 DEF StampLate, TypeOK
  <2>. QED  BY <1>0, <1>2, <1>4, <2>1 DEF StampLate, TypeOK, socket
<1>5. CASE CommitLate
  BY <1>0, <1>1, <1>2, <1>5 DEF CommitLate, TypeOK, socket
<1>6. CASE StoreOwn
  BY <1>0, <1>n, <1>1, <1>6 DEF StoreOwn, Clean, TypeOK, socket, CleanThread, NoDuplicates,
     NoGhost, RepliesClean
<1>7. CASE Publish
  <2>1. PICK m \in stored \ published :
          /\ published' = published \cup {m}
          /\ wire' = wire \/ wire' = Append(wire, m)
          /\ Smooth \/ Mishap
          /\ UNCHANGED <<scenario, next, stored, late, thread, loaded, socket, page, after, send>>
    BY <1>7 DEF Publish
  <2>2. m \in Messages /\ published \subseteq Messages /\ wire \in Seq(Messages)
    BY <1>0 DEF TypeOK
  <2>3. published' \subseteq Messages /\ wire' \in Seq(Messages)
    BY <2>1, <2>2
  <2>. QED  BY <1>0, <1>1, <1>2, <2>1, <2>3 DEF TypeOK, socket
<1>8. CASE JoinRoom
  BY <1>0, <1>1, <1>2, <1>8 DEF JoinRoom, TypeOK, server
<1>9. CASE AnswerPage
  <2>1. Ascending(stored) \in Seq(Messages) /\ Distinct(Ascending(stored))
    BY <1>0, AscendingThread DEF TypeOK
  <2>. QED  BY <1>0, <1>1, <1>9, <2>1 DEF AnswerPage, server, socket, Clean, TypeOK, CleanThread,
            NoDuplicates, NoGhost, RepliesClean
<1>10. CASE AnswerAfter
  <2>1. PICK q \in after :
          after' = (after \ {q}) \cup
                   {[q EXCEPT !.answered = TRUE, !.reply = Ascending({m \in stored : m > q.cursor})]}
    BY <1>10 DEF AnswerAfter
  <2> DEFINE reply == Ascending({m \in stored : m > q.cursor})
             a == [q EXCEPT !.answered = TRUE, !.reply = reply]
  <2>2. reply \in Seq(Messages) /\ Distinct(reply)
    BY <1>0, AscendingThread DEF TypeOK
  <2>. HIDE DEF reply
  <2>3. a \in Requests /\ a.reply = reply
    BY <1>0, <2>2 DEF TypeOK, Requests
  <2>. HIDE DEF a
  <2>4. after' = (after \ {q}) \cup {a}
    BY <2>1 DEF a, reply
  <2>5. after' \subseteq Requests /\ \A r \in after' : Distinct(r.reply)
    BY <1>0, <2>2, <2>3, <2>4 DEF TypeOK, RepliesClean
  <2>. QED  BY <1>0, <1>1, <1>10, <2>5 DEF AnswerAfter, server, socket, Clean, TypeOK, CleanThread,
            NoDuplicates, NoGhost, RepliesClean
<1>11. CASE AskPage
  <2>1. Distinct(<<>>) /\ <<>> \in Seq(Messages)
    BY DEF Distinct
  <2>. QED  BY <1>0, <1>1, <1>11, <2>1 DEF AskPage, Viewer, server, socket, Clean, TypeOK,
            CleanThread, NoDuplicates, NoGhost, RepliesClean
<1>12. ASSUME NEW t \in Seq(Messages \cup {Pending}), CatchUp(t) \/ UNCHANGED after
       PROVE  after' \subseteq Requests /\ \A r \in after' : Distinct(r.reply)
  <2>1. CASE after' = after
    BY <1>0, <2>1 DEF TypeOK, RepliesClean
  <2>2. CASE LastPersisted(t) # 0 /\ after' = AskAfter(t)
    BY <1>0, <2>2, AskTypes
  <2>. QED  BY <1>12, <2>1, <2>2, CatchUpAsks
<1>13. CASE ShowPage
  <2>1. page.reply \in Seq(Messages) /\ Distinct(page.reply)
    BY <1>0 DEF TypeOK, RepliesClean
  <2>2. thread' \in Seq(Messages \cup {Pending}) /\ Pending \notin ToSet(thread')
    BY <1>13, <2>1, NoneIsPending DEF ShowPage
  <2>3. after' \subseteq Requests /\ \A r \in after' : Distinct(r.reply)
    BY <1>12, <1>13, <2>1, NoneIsPending DEF ShowPage
  <2>4. CleanThread'
    BY <1>13, <2>1, <2>2 DEF ShowPage, CleanThread, NoDuplicates, NoGhost, Distinct
  <2>5. NoQuery \in [stage : {"none", "asked", "answered"}, reply : Seq(Messages)] /\ Distinct(NoQuery.reply)
    BY DEF NoQuery, Distinct
  <2>6. UNCHANGED <<scenario, next, stored, late, published, connected, joined, wire, send>>
        /\ loaded' = TRUE /\ page' = NoQuery /\ mishaps' \in 0 .. MaxMishaps
    BY <1>1, <1>13 DEF ShowPage, Viewer, server, socket
  <2>. QED  BY <1>0, <2>2, <2>3, <2>4, <2>5, <2>6 DEF Clean, TypeOK, RepliesClean
<1>14. CASE Connect
  <2>1. after' \subseteq Requests /\ \A r \in after' : Distinct(r.reply)
    BY <1>0, <1>12, <1>14 DEF Connect
  <2>. QED  BY <1>0, <1>1, <1>14, <2>1 DEF Connect, Viewer, server, Clean, TypeOK, CleanThread,
            NoDuplicates, NoGhost, RepliesClean
<1>15. CASE SocketDrops
  <2>1. <<>> \in Seq(Messages)
    OBVIOUS
  <2>. QED  BY <1>0, <1>1, <1>2, <1>15, <2>1 DEF SocketDrops, TypeOK, Viewer, server
<1>16. CASE Deliver
  <2>1. Head(wire) \in Messages /\ wire' \in Seq(Messages)
    BY <1>0, <1>16 DEF Deliver, TypeOK
  <2>2. <<Head(wire)>> \in Seq(Messages) /\ Distinct(<<Head(wire)>>)
    BY <2>1, OneRow
  <2>3. thread' \in Seq(Messages \cup {Pending}) /\ NoDuplicates' /\ (Pending \in ToSet(thread') <=> Pending \in ToSet(thread))
    BY <1>0, <1>16, <2>2, Merged DEF Deliver, CleanThread, NoDuplicates
  <2>. QED  BY <1>0, <1>1, <1>16, <2>1, <2>3 DEF Deliver, Viewer, server, socket, Clean, TypeOK,
            CleanThread, NoGhost, RepliesClean
<1>17. CASE Poll
  <2>1. after' \subseteq Requests /\ \A r \in after' : Distinct(r.reply)
    BY <1>0, <1>17, AskTypes DEF Poll
  <2>. QED  BY <1>0, <1>1, <1>17, <2>1 DEF Poll, Viewer, server, socket, Clean, TypeOK, CleanThread,
            NoDuplicates, NoGhost, RepliesClean
<1>18. CASE MergeAfter
  <2>1. PICK q \in after : thread' = AppendUnique(thread, q.reply) /\ after' = after \ {q}
    BY <1>18 DEF MergeAfter
  <2>2. q.reply \in Seq(Messages) /\ Distinct(q.reply)
    BY <1>0 DEF TypeOK, Requests, RepliesClean
  <2>3. thread' \in Seq(Messages \cup {Pending}) /\ NoDuplicates' /\ (Pending \in ToSet(thread') <=> Pending \in ToSet(thread))
    BY <1>0, <2>1, <2>2, Merged
  <2>. QED  BY <1>0, <1>1, <1>18, <2>1, <2>3 DEF MergeAfter, Viewer, server, socket, Clean, TypeOK,
            CleanThread, NoGhost, RepliesClean
<1>19. CASE AfterFails
  BY <1>0, <1>1, <1>2, <1>19 DEF AfterFails, TypeOK, Viewer, server, socket
<1>20. CASE Send
  <2>1. thread \in Seq(Messages) /\ Distinct(thread)
    BY <1>0, <1>20, NoPending DEF Send, CleanThread, NoGhost, NoDuplicates, Distinct
  <2>2. <<Pending>> \in Seq(Messages \cup {Pending}) /\ Distinct(<<Pending>>)
    BY OneRow
  <2>3. thread' \in Seq(Messages \cup {Pending}) /\ Distinct(thread')
    BY <1>0, <1>20, <2>1, <2>2, AppendsUnique DEF Send
  <2>4. send' = [stage |-> "posted", id |-> 0, before |-> thread]
    BY <1>20 DEF Send, Snapshot
  <2>5. /\ send' \in [stage : {"none", "posted", "stored"}, id : Messages \cup {0}, before : Seq(Messages)]
        /\ send'.stage # "none" /\ send'.before = thread
    BY <2>1, <2>4
  <2>6. TypeOK'
    BY <1>0, <1>1, <1>20, <2>3, <2>5 DEF Send, Viewer, server, socket, TypeOK
  <2>7. CleanThread' /\ RepliesClean'
    BY <1>0, <1>20, <2>1, <2>3, <2>5 DEF Send, CleanThread, NoDuplicates, NoGhost, RepliesClean, Distinct
  <2>. QED  BY <2>6, <2>7 DEF Clean
<1>21. CASE SendSucceeds
  <2>1. send.id \in Messages /\ NoSend \in [stage : {"none", "posted", "stored"}, id : Messages \cup {0}, before : Seq(Messages)] /\ Distinct(NoSend.before)
    BY <1>0, <1>21 DEF SendSucceeds, TypeOK, NoSend, Distinct
  <2>2. /\ Persisted(thread) \in Seq(Messages) /\ Distinct(Persisted(thread))
    BY <1>0, PersistedRows DEF CleanThread, NoDuplicates, Distinct
  <2>3. <<send.id>> \in Seq(Messages) /\ Distinct(<<send.id>>)
    BY <2>1, OneRow
  <2>4. thread' \in Seq(Messages) /\ Distinct(thread')
    BY <1>21, <2>2, <2>3, AppendsUnique DEF SendSucceeds, ReplacePending
  <2>5. thread' \in Seq(Messages \cup {Pending}) /\ Pending \notin ToSet(thread')
    BY <2>4, NoneIsPending
  <2>. QED  BY <1>0, <1>1, <1>21, <2>1, <2>4, <2>5 DEF SendSucceeds, Viewer, server, socket, Clean,
            TypeOK, CleanThread, NoDuplicates, NoGhost, RepliesClean, Distinct
<1>22. CASE SendFails
  <2>1. send.before \in Seq(Messages) /\ Distinct(send.before)
    BY <1>0 DEF TypeOK, RepliesClean
  <2>2. thread' \in Seq(Messages \cup {Pending}) /\ Pending \notin ToSet(thread') /\ Distinct(thread')
    BY <1>22, <2>1, NoneIsPending DEF SendFails
  <2>3. NoSend \in [stage : {"none", "posted", "stored"}, id : Messages \cup {0}, before : Seq(Messages)] /\ Distinct(NoSend.before)
    BY DEF NoSend, Distinct
  <2>. QED  BY <1>0, <1>1, <1>22, <2>2, <2>3 DEF SendFails, Viewer, server, socket, Clean, TypeOK,
            CleanThread, NoDuplicates, NoGhost, RepliesClean, Distinct
<1>23. CASE UNCHANGED vars
  BY <1>0, <1>2, <1>23 DEF vars, server, socket, TypeOK
<1>. QED
  BY <1>3, <1>4, <1>5, <1>6, <1>7, <1>8, <1>9, <1>10, <1>11, <1>13, <1>14, <1>15, <1>16, <1>17,
     <1>18, <1>19, <1>20, <1>21, <1>22, <1>23 DEF Next

\* Every step keeps what the browser holds among the stored messages.
LEMMA GenuineStep ==
  ASSUME Clean, Clean', Genuine, [Next]_vars
  PROVE  Genuine'
<1>0. /\ TypeOK /\ CleanThread /\ RepliesClean
      /\ thread \in Seq(Messages \cup {Pending})
      /\ wire \in Seq(Messages)
      /\ MaxMessages \in Nat
  BY BoundsAssumption DEF Clean, TypeOK
<1>1. ASSUME UNCHANGED <<thread, page, send, wire, published>>, after' \subseteq after,
             stored \subseteq stored'
      PROVE  Genuine'
  BY <1>1 DEF Genuine
<1>2. CASE StoreOther \/ StampLate \/ CommitLate \/ JoinRoom \/ AfterFails \/ UNCHANGED vars
  BY <1>1, <1>2 DEF StoreOther, StampLate, CommitLate, JoinRoom, AfterFails, vars, Viewer, server
<1>3. CASE StoreOwn
  <2>1. stored' = stored \cup {next} /\ send' = [send EXCEPT !.stage = "stored", !.id = next]
        /\ UNCHANGED <<thread, page, wire, published, after>>
    BY <1>3 DEF StoreOwn
  <2>2. send'.before = send.before /\ send'.id = next
    BY <1>0, <2>1 DEF TypeOK
  <2>. QED  BY <2>1, <2>2 DEF Genuine
<1>4. CASE Publish
  <2>1. PICK m \in stored \ published :
          /\ published' = published \cup {m}
          /\ wire' = wire \/ wire' = Append(wire, m)
          /\ UNCHANGED <<stored, thread, page, after, send>>
    BY <1>4 DEF Publish
  <2>2. ToSet(wire') \subseteq ToSet(wire) \cup {m}
    BY <1>0, <2>1 DEF ToSet
  <2>. QED  BY <2>1, <2>2 DEF Genuine
<1>5. CASE AnswerPage
  <2>1. ToSet(Ascending(stored)) = stored
    BY <1>0, AscendingThread DEF TypeOK
  <2>. QED  BY <1>5, <2>1 DEF AnswerPage, server, Genuine
<1>6. CASE AnswerAfter
  <2>1. PICK q \in after :
          after' = (after \ {q}) \cup
                   {[q EXCEPT !.answered = TRUE, !.reply = Ascending({m \in stored : m > q.cursor})]}
    BY <1>6 DEF AnswerAfter
  <2> DEFINE reply == Ascending({m \in stored : m > q.cursor})
             a == [q EXCEPT !.answered = TRUE, !.reply = reply]
  <2>2. ToSet(reply) \subseteq stored
    BY <1>0, AscendingThread DEF TypeOK
  <2>. HIDE DEF reply
  <2>3. a.reply = reply
    BY <1>0 DEF TypeOK, Requests
  <2>. HIDE DEF a
  <2>4. after' = (after \ {q}) \cup {a}
    BY <2>1 DEF a, reply
  <2>. QED  BY <1>6, <2>2, <2>3, <2>4 DEF AnswerAfter, server, Genuine
<1>7. CASE AskPage
  BY <1>7 DEF AskPage, Viewer, server, Genuine, ToSet
<1>8. ASSUME NEW t \in Seq(Messages \cup {Pending}), CatchUp(t) \/ UNCHANGED after
      PROVE  \A q \in after' : ToSet(q.reply) \subseteq stored
  <2>1. \A q \in AskAfter(t) : q \in after \/ q.reply = <<>>
    BY DEF AskAfter
  <2>2. ToSet(<<>>) = {}
    BY DEF ToSet
  <2>3. after' = after \/ after' = AskAfter(t)
    BY <1>8, CatchUpAsks
  <2>. QED  BY <2>1, <2>2, <2>3 DEF Genuine
<1>9. CASE ShowPage
  <2>1. page.reply \in Seq(Messages \cup {Pending})
    BY <1>0, NoneIsPending DEF TypeOK
  <2>2. \A q \in after' : ToSet(q.reply) \subseteq stored
    BY <1>8, <1>9, <2>1 DEF ShowPage
  <2>3. page' = NoQuery /\ ToSet(NoQuery.reply) = {}
    BY <1>9 DEF ShowPage, NoQuery, ToSet
  <2>. QED  BY <1>9, <2>2, <2>3 DEF ShowPage, Viewer, server, Genuine
<1>10. CASE Connect
  <2>1. \A q \in after' : ToSet(q.reply) \subseteq stored
    BY <1>0, <1>8, <1>10 DEF Connect
  <2>. QED  BY <1>10, <2>1 DEF Connect, Viewer, server, Genuine
<1>11. CASE SocketDrops
  <2>1. ToSet(<<>>) = {}
    BY DEF ToSet
  <2>. QED  BY <1>11, <2>1 DEF SocketDrops, Viewer, server, Genuine
<1>12. CASE Deliver
  <2>1. /\ Head(wire) \in ToSet(wire) \cap Messages
        /\ ToSet(Tail(wire)) \subseteq ToSet(wire)
    BY <1>0, <1>12 DEF Deliver, ToSet
  <2>. QED  BY <1>12, <2>1, DeliverShows DEF Deliver, Viewer, server, Genuine
<1>13. CASE Poll
  <2>1. \A q \in AskAfter(thread) : q \in after \/ q.reply = <<>>
    BY DEF AskAfter
  <2>2. ToSet(<<>>) = {}
    BY DEF ToSet
  <2>. QED  BY <1>13, <2>1, <2>2 DEF Poll, Viewer, server, Genuine
<1>14. CASE MergeAfter
  <2>1. PICK q \in after : thread' = AppendUnique(thread, q.reply) /\ after' = after \ {q}
    BY <1>14 DEF MergeAfter
  <2>. QED  BY <1>14, <2>1, MergeShows DEF MergeAfter, Viewer, server, Genuine
<1>15. CASE Send
  <2>1. Pending \notin ToSet(thread)
    BY <1>0, <1>15 DEF Send, CleanThread, NoGhost
  <2>2. send'.stage = "posted" /\ send'.before = thread
    BY <1>15 DEF Send, Snapshot
  <2>. QED  BY <1>15, <2>1, <2>2, SendShows DEF Send, Viewer, server, Genuine
<1>16. CASE SendSucceeds
  <2>1. send.id \in stored
    BY <1>16 DEF SendSucceeds, Genuine
  <2>2. send' = NoSend /\ NoSend.stage = "none" /\ ToSet(NoSend.before) = {}
    BY <1>16 DEF SendSucceeds, NoSend, ToSet
  <2>. QED  BY <1>16, <2>1, <2>2, SendSucceedsShows DEF SendSucceeds, Viewer, server, Genuine
<1>17. CASE SendFails
  <2>1. send' = NoSend /\ NoSend.stage = "none" /\ ToSet(NoSend.before) = {}
    BY <1>17 DEF SendFails, NoSend, ToSet
  <2>. QED  BY <1>17, <2>1 DEF SendFails, Viewer, server, Genuine
<1>. QED
  BY <1>2, <1>3, <1>4, <1>5, <1>6, <1>7, <1>9, <1>10, <1>11, <1>12, <1>13, <1>14, <1>15, <1>16,
     <1>17 DEF Next

----------------------------------------------------------------------------
(* Nothing is lost.                                                        *)

\* What cannot happen in a lossless scenario.
LEMMA LosslessMeans ==
  ASSUME TypeOK, Lossless
  PROVE  /\ scenario.mode \in {"ws", "poll"} /\ scenario.preloaded \in Nat \ {0}
         /\ \A kind \in {"overlap", "slowJoin", "sendFails", "sendOffline", "refetch", "lateCommit",
                         "lostEvent"} : ~May(kind)
         /\ May("fetchFails") => scenario.mode = "poll"
         /\ scenario.mode = "poll" => ~scenario.sends /\ ~May("disconnect")
         /\ May("disconnect") => ~scenario.sends /\ ~May("reorder")
<1>1. scenario \in [mode : {"ws", "poll"}, sends : BOOLEAN, mishaps : SUBSET Kinds,
                    preloaded : 0 .. MaxMessages] /\ MaxMessages \in Nat
  BY ScenariosAssumption, BoundsAssumption DEF TypeOK
<1>. QED  BY <1>1 DEF Lossless, May

\* Where the thread has no gaps, what it does not show comes after its last message.
LEMMA AfterTheLast ==
  ASSUME NEW t \in Seq(Messages \cup {Pending}), 1 \in ToSet(t), MaxMessages \in Nat,
         DownClosed(ToSet(t) \ {Pending}), NEW m \in Messages, m \notin ToSet(t)
  PROVE  LastPersisted(t) \in ToSet(t) \cap Messages /\ m > LastPersisted(t)
<1>1. LastPersisted(t) # 0 /\ LastPersisted(t) \in ToSet(t) \cap Messages
  BY PersistedRows DEF Pending
<1>2. LastPersisted(t) \in Nat \ {0} /\ m \in Nat \ {0}
  BY <1>1 DEF Messages
<1>3. ~(m < LastPersisted(t)) /\ m # LastPersisted(t)
  BY <1>1, <1>2 DEF DownClosed, Pending
<1>. QED  BY <1>1, <1>2, <1>3

\* A catch-up from such a thread fetches all of that.
LEMMA CatchUpFetches ==
  ASSUME NEW t \in Seq(Messages \cup {Pending}), 1 \in ToSet(t), MaxMessages \in Nat,
         DownClosed(ToSet(t) \ {Pending}), after = {}, CatchUp(t)
  PROVE  /\ \A q \in after' : q.cursor \in ToSet(t) \cap Messages /\ q.reply = <<>>
         /\ \A m \in Messages \ ToSet(t) : Fetched(m)'
<1> DEFINE new == [answered |-> FALSE, cursor |-> LastPersisted(t), reply |-> <<>>]
<1>1. LastPersisted(t) # 0 /\ LastPersisted(t) \in ToSet(t) \cap Messages
  BY PersistedRows DEF Pending
<1>2. after' = {new}
  BY <1>1 DEF CatchUp, AskAfter
<1>3. ASSUME NEW m \in Messages \ ToSet(t)
      PROVE  Fetched(m)'
  <2>1. m > LastPersisted(t)
    BY <1>3, AfterTheLast
  <2>. QED  BY <1>2, <2>1 DEF Fetched
<1>. QED  BY <1>1, <1>2, <1>3

\* In a lossless scenario every step keeps each message on its way.
LEMMA DeliveryStep ==
  ASSUME Clean, Clean', Genuine, Genuine', Lossless, Delivering, [Next]_vars
  PROVE  Delivering'
<1>0. /\ TypeOK /\ TypeOK' /\ MaxMessages \in Nat
      /\ thread \in Seq(Messages \cup {Pending}) /\ wire \in Seq(Messages)
      /\ stored \subseteq Messages /\ next \in 1 .. MaxMessages + 1
      /\ after \subseteq Requests
      /\ Messages = 1 .. MaxMessages /\ Pending \notin Messages
  BY BoundsAssumption DEF Clean, TypeOK, Messages, Pending
<1>1. /\ Log /\ Opening /\ Cursors /\ OnItsWay /\ Offline
      /\ May("disconnect") => InOrder
  BY DEF Delivering
<1>2. /\ scenario.mode \in {"ws", "poll"} /\ scenario.preloaded \in Nat \ {0}
      /\ \A kind \in {"overlap", "slowJoin", "sendFails", "sendOffline", "refetch", "lateCommit",
                      "lostEvent"} : ~May(kind)
      /\ May("fetchFails") => scenario.mode = "poll"
      /\ scenario.mode = "poll" => ~scenario.sends /\ ~May("disconnect")
      /\ May("disconnect") => ~scenario.sends /\ ~May("reorder")
  BY <1>0, LosslessMeans
<1>3. Shown \subseteq stored /\ Shown \subseteq Messages
  BY <1>0 DEF Genuine, Shown
<1>4. CASE StoreOther \/ StoreOwn
  <2>1. /\ next' = next + 1 /\ stored' = stored \cup {next} /\ next \in Messages
        /\ UNCHANGED <<scenario, late, published, thread, loaded, connected, joined, wire, page, after>>
        /\ send.stage = "none" => send' = send
        /\ send.stage # "none" => send'.stage # "none"
    BY <1>0, <1>4 DEF StoreOther, StoreOwn, socket, TypeOK
  <2>2. Log'
    BY <1>0, <1>1, <1>2, <2>1 DEF Log
  <2>3. Opening' /\ Cursors'
    BY <1>1, <2>1 DEF Opening, Cursors, Shown
  <2>4. next \notin stored /\ \A n \in stored : n < next
    BY <1>0, <1>1 DEF Log
  <2>5. OnItsWay'
    BY <1>1, <2>1, <2>4 DEF OnItsWay, Shown, Fetched, Genuine
  <2>6. Offline'
    BY <1>1, <1>4, <2>1 DEF Offline, Shown, StoreOwn, StoreOther
  <2>7. ASSUME May("disconnect")
        PROVE  InOrder'
    <3>1. \A n \in Shown : ~(next < n)
      BY <1>0, <1>3, <2>1, <2>4
    <3>2. InOrder /\ send'.stage = "none"
      BY <1>1, <2>1, <2>7 DEF InOrder
    <3>3. \A n \in published' , m \in stored' \ published' : n < m
      BY <2>1, <2>4, <3>2 DEF InOrder, Genuine
    <3>4. loaded' => \A n \in Shown', m \in stored' \ Shown' : m < n => Fetched(m)'
      BY <2>1, <3>1, <3>2 DEF InOrder, Shown, Fetched
    <3>. QED  BY <2>1, <3>2, <3>3, <3>4 DEF InOrder
  <2>. QED  BY <2>1, <2>2, <2>3, <2>5, <2>6, <2>7 DEF Delivering, May
<1>5. CASE Publish
  <2>1. PICK m \in stored \ published :
          /\ May("reorder") \/ \A n \in stored \ published : m <= n
          /\ published' = published \cup {m}
          /\ wire' = IF joined THEN Append(wire, m) ELSE wire
          /\ UNCHANGED <<scenario, next, stored, late, thread, loaded, connected, joined, page, after, send>>
    BY <1>2, <1>5 DEF Publish, socket
  <2>2. Log' /\ Opening' /\ Cursors'
    BY <1>1, <2>1 DEF Log, Opening, Cursors, Shown
  <2>3. ToSet(wire') = IF connected THEN ToSet(wire) \cup {m} ELSE ToSet(wire)
    <3>1. ToSet(Append(wire, m)) = ToSet(wire) \cup {m}
      BY <1>0, AppendShows
    <3>. QED  BY <1>1, <2>1, <3>1 DEF Log
  <2>4. OnItsWay'
    BY <1>1, <2>1, <2>3 DEF OnItsWay, Shown, Fetched
  <2>5. Offline'
    BY <1>1, <2>1 DEF Offline, Log, Shown
  <2>6. ASSUME May("disconnect")
        PROVE  InOrder'
    <3>1. InOrder /\ m \in Nat /\ \A n \in stored \ published : m <= n /\ n \in Nat
      BY <1>0, <1>1, <1>2, <2>1, <2>6 DEF InOrder
    <3>2. \A n \in published', k \in stored' \ published' : n < k
      BY <2>1, <3>1 DEF InOrder
    <3>3. ToSet(wire') \subseteq published'
      BY <2>1, <2>3, <3>1 DEF InOrder
    <3>4. \A i, j \in DOMAIN wire' : i < j => wire'[i] < wire'[j]
      <4>1. CASE joined
        <5>1. \A i \in DOMAIN wire : wire[i] < m
          BY <2>1, <3>1 DEF InOrder, ToSet
        <5>. QED  BY <1>0, <2>1, <3>1, <4>1, <5>1 DEF InOrder
      <4>2. CASE ~joined
        BY <2>1, <3>1, <4>2 DEF InOrder
      <4>. QED  BY <4>1, <4>2
    <3>. QED  BY <2>1, <3>1, <3>2, <3>3, <3>4 DEF InOrder, Shown, Fetched
  <2>. QED  BY <2>1, <2>2, <2>4, <2>5, <2>6 DEF Delivering, May
<1>6. CASE AnswerPage
  <2>1. /\ page' = [stage |-> "answered", reply |-> Ascending(stored)]
        /\ ~loaded
        /\ UNCHANGED <<scenario, next, stored, late, published, thread, loaded, connected, joined, wire, after, send>>
    BY <1>1, <1>6 DEF AnswerPage, Opening, server, socket
  <2>2. ToSet(page'.reply) = 1 .. next - 1
    BY <1>0, <1>1, <2>1, AscendingThread DEF Log
  <2>3. Opening'
    <3>1. 1 \in 1 .. next - 1
      BY <1>0, <1>1, <1>2 DEF Log
    <3>2. DownClosed(1 .. next - 1)
      BY <1>0 DEF DownClosed
    <3>. QED  BY <1>1, <2>1, <2>2, <3>1, <3>2 DEF Opening, DownClosed
  <2>. QED  BY <1>1, <2>1, <2>3 DEF Delivering, Log, Cursors, OnItsWay, Offline, InOrder, Shown, Fetched, May
<1>7. CASE AnswerAfter
  <2>1. PICK q \in after :
          /\ ~q.answered
          /\ after' = (after \ {q}) \cup
                   {[q EXCEPT !.answered = TRUE, !.reply = Ascending({m \in stored : m > q.cursor})]}
          /\ UNCHANGED <<scenario, next, stored, late, published, thread, loaded, connected, joined, wire, page, send>>
    BY <1>7 DEF AnswerAfter, server, socket
  <2> DEFINE reply == Ascending({m \in stored : m > q.cursor})
             a == [q EXCEPT !.answered = TRUE, !.reply = reply]
  <2>2. ToSet(reply) = {m \in stored : m > q.cursor}
    BY <1>0, AscendingThread
  <2>. HIDE DEF reply
  <2>3. a.reply = reply /\ a.cursor = q.cursor /\ a.answered = TRUE
    BY <1>0 DEF Requests
  <2>. HIDE DEF a
  <2>4. after' = (after \ {q}) \cup {a}
    BY <2>1 DEF a, reply
  <2>5. \A m \in stored : Fetched(m) => Fetched(m)'
    BY <2>1, <2>2, <2>3, <2>4 DEF Fetched
  <2>6. Cursors'
    <3>1. \A n \in ToSet(reply), m \in Messages : q.cursor < m /\ m < n => m \in ToSet(reply)
      BY <1>0, <1>1, <2>2 DEF Log, Requests
    <3>. QED  BY <1>1, <2>1, <2>3, <2>4, <3>1 DEF Cursors, Shown
  <2>7. Opening' /\ Log' /\ OnItsWay' /\ Offline' /\ (May("disconnect") => InOrder')
    BY <1>1, <2>1, <2>5 DEF Opening, Log, OnItsWay, Offline, InOrder, Shown
  <2>. QED  BY <2>1, <2>6, <2>7 DEF Delivering, May
<1>9. CASE AskPage
  <2>1. /\ ~loaded /\ page'.stage = "asked"
        /\ UNCHANGED <<scenario, next, stored, late, published, thread, loaded, connected, joined, wire, after, send>>
    BY <1>2, <1>9 DEF AskPage, Viewer, server, socket
  <2>. QED  BY <1>1, <2>1 DEF Delivering, Log, Opening, Cursors, OnItsWay, Offline, InOrder, Shown,
            Fetched, May
<1>10. CASE ShowPage
  <2>1. /\ ~loaded /\ loaded' /\ after = {} /\ thread' = page.reply /\ page' = NoQuery
        /\ 1 \in ToSet(page.reply) /\ DownClosed(ToSet(page.reply))
        /\ IF connected THEN CatchUp(page.reply) ELSE after' = after
        /\ UNCHANGED <<scenario, next, stored, late, published, connected, joined, wire, send>>
    BY <1>1, <1>10 DEF ShowPage, Opening, Viewer, server, socket
  <2>2. /\ page.reply \in Seq(Messages \cup {Pending}) /\ Pending \notin ToSet(page.reply)
        /\ NoQuery.stage = "none"
    BY <1>0, NoneIsPending DEF TypeOK, NoQuery
  <2>3. Shown' = ToSet(page.reply) /\ ToSet(page.reply) = ToSet(page.reply) \ {Pending}
    BY <2>1, <2>2 DEF Shown
  <2>4. connected => /\ \A q \in after' : q.cursor \in Shown' /\ q.reply = <<>>
                     /\ \A m \in Messages \ Shown' : Fetched(m)'
    BY <1>0, <2>1, <2>2, <2>3, CatchUpFetches
  <2>5. ~connected => after' = {}
    BY <2>1
  <2>6. Log' /\ Opening'
    BY <1>1, <2>1, <2>2, <2>3 DEF Log, Opening
  <2>7. Cursors'
    BY <2>4, <2>5 DEF Cursors, ToSet
  <2>8. OnItsWay' /\ Offline'
    BY <1>0, <1>1, <2>1, <2>3, <2>4, <2>5 DEF OnItsWay, Offline
  <2>9. May("disconnect") => InOrder'
    <3>1. \A n \in Shown', m \in stored \ Shown' : ~(m < n)
      BY <1>0, <2>1, <2>3 DEF DownClosed
    <3>. QED  BY <1>1, <2>1, <3>1 DEF InOrder
  <2>. QED  BY <2>1, <2>6, <2>7, <2>8, <2>9 DEF Delivering, May
<1>11. CASE Connect
  <2>1. /\ scenario.mode = "ws" /\ ~connected /\ connected' /\ joined' /\ after = {}
        /\ IF loaded THEN CatchUp(thread) ELSE after' = after
        /\ UNCHANGED <<scenario, next, stored, late, published, thread, loaded, wire, page, send>>
    BY <1>1, <1>2, <1>11 DEF Connect, Offline, Viewer, server
  <2>2. loaded => /\ 1 \in ToSet(thread) /\ DownClosed(ToSet(thread) \ {Pending})
    BY <1>1, <2>1 DEF Opening, Offline, Shown
  <2>3. loaded => /\ \A q \in after' : q.cursor \in Shown' /\ q.reply = <<>>
                  /\ \A m \in Messages \ Shown' : Fetched(m)'
    BY <1>0, <2>1, <2>2, CatchUpFetches DEF Shown
  <2>4. ~loaded => after' = {}
    BY <2>1
  <2>5. Log' /\ Opening'
    BY <1>0, <1>1, <2>1, <2>4 DEF Log, Opening, Shown, TypeOK
  <2>6. Cursors'
    BY <2>3, <2>4 DEF Cursors, ToSet
  <2>7. OnItsWay' /\ Offline'
    BY <1>0, <1>1, <2>1, <2>3 DEF OnItsWay, Offline, Shown
  <2>8. May("disconnect") => InOrder'
    <3>1. loaded => \A n \in Shown, m \in stored \ Shown : ~(m < n)
      BY <1>0, <2>2 DEF DownClosed, Shown
    <3>. QED  BY <1>1, <2>1, <3>1 DEF InOrder, Shown
  <2>. QED  BY <2>1, <2>5, <2>6, <2>7, <2>8 DEF Delivering, May
<1>12. CASE SocketDrops
  <2>1. /\ May("disconnect") /\ after = {} /\ ~connected' /\ ~joined' /\ wire' = <<>>
        /\ UNCHANGED <<scenario, next, stored, late, published, thread, loaded, page, after, send>>
    BY <1>2, <1>12 DEF SocketDrops, Viewer, server
  <2>2. InOrder /\ \A m : ~Fetched(m)
    BY <1>1, <2>1 DEF Fetched
  <2>3. loaded => DownClosed(Shown)
    <3>1. ASSUME loaded, NEW n \in Shown, NEW m \in Messages, m < n
          PROVE  m \in Shown
      <4>1. m \in stored
        BY <1>0, <1>1, <1>3, <3>1 DEF Log
      <4>. QED  BY <2>2, <3>1, <4>1 DEF InOrder
    <3>. QED  BY <3>1 DEF DownClosed
  <2>4. Log' /\ Opening' /\ Cursors'
    BY <1>0, <1>1, <2>1 DEF Log, Opening, Cursors, Shown, TypeOK
  <2>5. OnItsWay' /\ Offline'
    BY <1>1, <1>2, <2>1, <2>2, <2>3 DEF OnItsWay, Offline, Shown, InOrder
  <2>6. InOrder'
    BY <2>1, <2>2 DEF InOrder, Shown, Fetched, ToSet
  <2>. QED  BY <2>1, <2>4, <2>5, <2>6 DEF Delivering, May
<1>13. CASE Deliver
  <2>1. /\ wire # <<>> /\ wire' = Tail(wire)
        /\ UNCHANGED <<scenario, next, stored, late, published, loaded, connected, joined, page, after, send>>
    BY <1>13 DEF Deliver, Viewer, server, socket
  <2>2. /\ loaded => ToSet(thread') = ToSet(thread) \cup {Head(wire)} /\ Head(wire) \in Messages
        /\ ~loaded => thread' = thread
    BY <1>13, DeliverShows DEF Deliver
  <2>3. connected
    BY <1>1, <2>1 DEF Offline
  <2>4. Shown \subseteq Shown' /\ (loaded => Shown' = Shown \cup {Head(wire)})
    BY <1>0, <2>2 DEF Shown
  <2>5. /\ ToSet(wire) = {Head(wire)} \cup ToSet(Tail(wire))
        /\ Len(wire) \in Nat \ {0} /\ DOMAIN wire = 1 .. Len(wire) /\ DOMAIN Tail(wire) = 1 .. Len(wire) - 1
        /\ \A i \in 1 .. Len(wire) - 1 : Tail(wire)[i] = wire[i + 1]
        /\ Head(wire) = wire[1]
    <3>1. /\ Len(wire) \in Nat \ {0} /\ DOMAIN wire = 1 .. Len(wire) /\ DOMAIN Tail(wire) = 1 .. Len(wire) - 1
          /\ \A i \in 1 .. Len(wire) - 1 : Tail(wire)[i] = wire[i + 1]
          /\ Head(wire) = wire[1]
      BY <1>0, <2>1
    <3>2. \A i \in 1 .. Len(wire) : i = 1 \/ (i - 1 \in 1 .. Len(wire) - 1 /\ wire[i] = Tail(wire)[i - 1])
      BY <3>1
    <3>3. \A i \in 1 .. Len(wire) - 1 : i + 1 \in 1 .. Len(wire)
      BY <3>1
    <3>4. 1 \in 1 .. Len(wire)
      BY <3>1
    <3>5. ASSUME NEW x \in ToSet(wire)
          PROVE  x = Head(wire) \/ x \in ToSet(Tail(wire))
      <4>1. PICK i \in 1 .. Len(wire) : x = wire[i]
        BY <3>1 DEF ToSet
      <4>2. i = 1 \/ (i - 1 \in DOMAIN Tail(wire) /\ x = Tail(wire)[i - 1])
        BY <3>1, <3>2, <4>1
      <4>. QED  BY <3>1, <4>1, <4>2 DEF ToSet
    <3>6. Head(wire) \in ToSet(wire) /\ \A x \in ToSet(Tail(wire)) : x \in ToSet(wire)
      BY <3>1, <3>3, <3>4 DEF ToSet
    <3>. QED  BY <3>1, <3>5, <3>6
  <2>6. Log' /\ Opening' /\ Cursors'
    BY <1>1, <2>1, <2>4 DEF Log, Opening, Cursors
  <2>7. OnItsWay' /\ Offline'
    BY <1>1, <2>1, <2>3, <2>4, <2>5 DEF OnItsWay, Offline, Fetched
  <2>8. ASSUME May("disconnect")
        PROVE  InOrder'
    <3>1. InOrder
      BY <1>1, <2>8
    <3>2. ToSet(wire') \subseteq published' /\ \A i, j \in DOMAIN wire' : i < j => wire'[i] < wire'[j]
      BY <2>1, <2>5, <3>1 DEF InOrder
    <3>3. ASSUME loaded, NEW n \in Shown', NEW m \in stored \ Shown', m < n
          PROVE  Fetched(m)
      <4>1. CASE n \in Shown
        BY <2>4, <3>1, <3>3, <4>1 DEF InOrder
      <4>2. CASE n = Head(wire)
        <5>1. n \in Messages /\ m \in Messages /\ n \in published
          BY <1>0, <2>2, <2>5, <3>1, <3>3, <4>2 DEF InOrder
        <5>2. m \in published
          BY <1>0, <3>1, <3>3, <5>1 DEF InOrder
        <5>3. m \notin ToSet(wire)
          <6>1. \A i \in 1 .. Len(wire) : i = 1 \/ wire[1] < wire[i]
            BY <2>5, <3>1 DEF InOrder
          <6>2. \A i \in 1 .. Len(wire) : wire[i] # m
            BY <1>0, <2>5, <3>3, <4>2, <5>1, <6>1
          <6>. QED  BY <2>5, <6>2 DEF ToSet
        <5>4. m \in stored \ Shown
          BY <2>4, <3>3
        <5>. QED  BY <1>1, <2>3, <3>3, <5>2, <5>3, <5>4 DEF OnItsWay
      <4>. QED  BY <2>4, <3>3, <4>1, <4>2
    <3>. QED  BY <2>1, <3>1, <3>2, <3>3 DEF InOrder, Fetched
  <2>. QED  BY <2>1, <2>6, <2>7, <2>8 DEF Delivering, May
<1>14. CASE Poll
  <2>1. /\ scenario.mode = "poll" /\ loaded /\ LastPersisted(thread) # 0 /\ after' = AskAfter(thread)
        /\ UNCHANGED <<scenario, next, stored, late, published, thread, loaded, connected, joined, wire, page, send>>
    BY <1>14 DEF Poll, Viewer, server, socket
  <2>2. LastPersisted(thread) \in Shown
    BY <1>0, <2>1, PersistedRows DEF Shown
  <2>3. \A q \in after' : q \in after \/ (q.cursor \in Shown /\ q.reply = <<>>)
    BY <2>1, <2>2 DEF AskAfter
  <2>4. Cursors'
    BY <1>1, <2>1, <2>3 DEF Cursors, ToSet, Shown
  <2>. QED  BY <1>1, <1>2, <2>1, <2>4 DEF Delivering, Log, Opening, OnItsWay, Offline, Shown, May
<1>15. CASE MergeAfter
  <2>1. PICK q \in after :
          /\ q.answered /\ thread' = AppendUnique(thread, q.reply) /\ after' = after \ {q}
          /\ UNCHANGED <<scenario, next, stored, late, published, loaded, connected, joined, wire, page, send>>
    BY <1>15 DEF MergeAfter, Viewer, server, socket
  <2>2. ToSet(thread') = ToSet(thread) \cup ToSet(q.reply) /\ ToSet(q.reply) \subseteq Messages
    BY <1>0, <2>1, MergeShows DEF Genuine
  <2>3. Shown' = Shown \cup ToSet(q.reply) /\ loaded
    BY <1>0, <1>1, <2>1, <2>2 DEF Shown, Opening
  <2>4. q.cursor \in Shown /\ q.cursor \in Messages
        /\ \A n \in ToSet(q.reply), m \in Messages : q.cursor < m /\ m < n => m \in ToSet(q.reply)
    BY <1>1, <1>3 DEF Cursors
  <2>5. \A m : Fetched(m) => Fetched(m)' \/ m \in Shown'
    BY <2>1, <2>3 DEF Fetched
  <2>6. Log' /\ Opening' /\ Cursors'
    BY <1>1, <2>1, <2>3 DEF Log, Opening, Cursors
  <2>7. OnItsWay'
    BY <1>1, <2>1, <2>3, <2>5 DEF OnItsWay
  <2>8. Offline'
    <3>1. ASSUME ~connected, NEW n \in Shown', NEW m \in Messages, m < n
          PROVE  m \in Shown'
      <4>1. DownClosed(Shown)
        BY <1>1, <2>3, <3>1 DEF Offline
      <4>2. CASE n \in ToSet(q.reply)
        <5>1. m < q.cursor \/ m = q.cursor \/ q.cursor < m
          BY <1>0, <2>4
        <5>. QED  BY <2>3, <2>4, <3>1, <4>1, <4>2, <5>1 DEF DownClosed
      <4>. QED  BY <2>3, <3>1, <4>1, <4>2 DEF DownClosed
    <3>. QED  BY <1>1, <2>1, <3>1 DEF Offline, DownClosed
  <2>9. ASSUME May("disconnect")
        PROVE  InOrder'
    <3>1. InOrder
      BY <1>1, <2>9
    <3>2. ASSUME NEW n \in Shown', NEW m \in stored \ Shown', m < n
          PROVE  Fetched(m)'
      <4>1. Fetched(m)
        <5>1. CASE n \in Shown
          BY <2>3, <3>1, <3>2, <5>1 DEF InOrder
        <5>2. CASE n \in ToSet(q.reply)
          <6>1. m < q.cursor
            BY <1>0, <2>3, <2>4, <3>2, <5>2
          <6>. QED  BY <2>3, <2>4, <3>1, <3>2, <6>1 DEF InOrder
        <5>. QED  BY <2>3, <5>1, <5>2
      <4>. QED  BY <2>5, <3>2, <4>1
    <3>. QED  BY <2>1, <3>1, <3>2 DEF InOrder
  <2>. QED  BY <2>1, <2>6, <2>7, <2>8, <2>9 DEF Delivering, May
<1>16. CASE AfterFails
  <2>1. /\ scenario.mode = "poll" /\ after' \subseteq after
        /\ UNCHANGED <<scenario, next, stored, late, published, thread, loaded, connected, joined, wire, page, send>>
    BY <1>2, <1>16 DEF AfterFails, Viewer, server, socket
  <2>. QED  BY <1>1, <1>2, <2>1 DEF Delivering, Log, Opening, Cursors, OnItsWay, Offline, Shown, May
<1>17. CASE Send
  <2>1. /\ scenario.sends /\ connected
        /\ UNCHANGED <<scenario, next, stored, late, published, loaded, connected, joined, wire, page, after>>
    BY <1>2, <1>17 DEF Send, Viewer, server, socket
  <2>2. Shown' = Shown
    BY <1>17, SendShows DEF Shown
  <2>. QED  BY <1>1, <1>2, <2>1, <2>2 DEF Delivering, Log, Opening, Cursors, OnItsWay, Offline,
            Fetched, May
<1>18. CASE SendSucceeds
  <2>1. /\ send.stage = "stored"
        /\ UNCHANGED <<scenario, next, stored, late, published, loaded, connected, joined, wire, page, after>>
    BY <1>18 DEF SendSucceeds, Viewer, server, socket
  <2>2. Shown \subseteq Shown'
    BY <1>18, SendSucceedsShows DEF Shown
  <2>3. connected /\ ~May("disconnect")
    BY <1>1, <2>1 DEF Offline, InOrder
  <2>. QED  BY <1>1, <2>1, <2>2, <2>3 DEF Delivering, Log, Opening, Cursors, OnItsWay, Offline,
            Fetched, May
<1>19. CASE StampLate \/ CommitLate \/ JoinRoom \/ SendFails
  BY <1>1, <1>2, <1>19 DEF StampLate, CommitLate, JoinRoom, SendFails, Log
<1>20. CASE UNCHANGED vars
  BY <1>1, <1>20 DEF vars, server, socket, Delivering, Log, Opening, Cursors, OnItsWay, Offline,
     InOrder, Shown, Fetched, May
<1>. QED
  BY <1>4, <1>5, <1>6, <1>7, <1>9, <1>10, <1>11, <1>12, <1>13, <1>14, <1>15, <1>16, <1>17, <1>18,
     <1>19, <1>20 DEF Next

----------------------------------------------------------------------------

\* Every reachable state of the thread satisfies the inductive invariants.
LEMMA ThreadInvariance == Spec => []ThreadInv
<1>1. Init => ThreadInv
  <2>. SUFFICES ASSUME Init
                PROVE  ThreadInv
    OBVIOUS
  <2>1. scenario \in [mode : {"ws", "poll"}, sends : BOOLEAN, mishaps : SUBSET Kinds,
                      preloaded : 0 .. MaxMessages] /\ MaxMessages \in Nat /\ MaxMishaps \in Nat
    BY ScenariosAssumption, BoundsAssumption DEF Init
  <2>2. scenario.preloaded \in 0 .. MaxMessages
    BY <2>1
  <2>3. <<>> \in Seq(Messages) /\ Distinct(<<>>) /\ ToSet(<<>>) = {} /\ <<>> \in Seq(Messages \cup {Pending})
    BY DEF Distinct, ToSet
  <2>4. TypeOK
    <3>1. /\ scenario.preloaded + 1 \in 1 .. MaxMessages + 1
          /\ 1 .. scenario.preloaded \subseteq Messages
      BY <2>1, <2>2 DEF Messages
    <3>2. /\ next = scenario.preloaded + 1 /\ stored = 1 .. scenario.preloaded
          /\ late = {} /\ published = stored
      BY DEF Init
    <3>3. next \in 1 .. MaxMessages + 1 /\ stored \subseteq Messages /\ published \subseteq Messages
      BY <3>1, <3>2
    <3>4. /\ page \in [stage : {"none", "asked", "answered"}, reply : Seq(Messages)]
          /\ send \in [stage : {"none", "posted", "stored"}, id : Messages \cup {0},
                       before : Seq(Messages)]
      BY <2>3 DEF Init, NoQuery, NoSend
    <3>5. mishaps \in 0 .. MaxMishaps /\ late \subseteq Messages /\ after \subseteq Requests
      BY <2>1 DEF Init
    <3>. QED  BY <2>3, <3>3, <3>4, <3>5 DEF Init, TypeOK
  <2>5. CleanThread /\ RepliesClean /\ Genuine
    BY <2>3 DEF Init, CleanThread, NoDuplicates, NoGhost, RepliesClean, Genuine, NoQuery, NoSend, Distinct
  <2>6. Delivering
    <3>1. Log
      <4>1. next = scenario.preloaded + 1 /\ stored = 1 .. scenario.preloaded
        BY DEF Init
      <4>2. next - 1 = scenario.preloaded /\ next > scenario.preloaded
        BY <2>1, <2>2, <4>1
      <4>. QED  BY <4>1, <4>2 DEF Init, Log
    <3>2. Opening /\ Cursors /\ OnItsWay /\ Offline
      BY DEF Init, Opening, Cursors, OnItsWay, Offline, NoQuery, NoSend
    <3>3. InOrder
      BY <2>3 DEF Init, InOrder, NoSend
    <3>. QED  BY <3>1, <3>2, <3>3 DEF Delivering
  <2>. QED  BY <2>4, <2>5, <2>6 DEF ThreadInv, Clean
<1>2. ThreadInv /\ [Next]_vars => ThreadInv'
  <2>. SUFFICES ASSUME ThreadInv, [Next]_vars
                PROVE  ThreadInv'
    OBVIOUS
  <2>1. Clean'
    BY CleanStep DEF ThreadInv
  <2>2. Genuine'
    BY <2>1, GenuineStep DEF ThreadInv
  <2>3. scenario' = scenario
    BY DEF Next, vars, StoreOther, StampLate, CommitLate, StoreOwn, Publish, JoinRoom, AnswerPage,
       AnswerAfter, AskPage, ShowPage, Connect, SocketDrops, Deliver, Poll, MergeAfter, AfterFails,
       Send, SendSucceeds, SendFails, Viewer
  <2>4. Lossless' => Delivering'
    BY <2>1, <2>2, <2>3, DeliveryStep DEF ThreadInv, Lossless
  <2>. QED  BY <2>1, <2>2, <2>4 DEF ThreadInv
<1>. QED  BY <1>1, <1>2, PTL DEF Spec

\* The types of the server's log, the thread, and what is in flight between them.
THEOREM ThreadTypeCorrect == Spec => []TypeOK
<1>1. ThreadInv => TypeOK
  BY DEF ThreadInv, Clean
<1>. QED  BY <1>1, ThreadInvariance, PTL

\* In the cache of the open conversation a message is there once and an optimistic row
\* only while its send runs, whatever arrives in whatever order, for any number of
\* messages, mishaps and polls.
THEOREM ThreadStaysClean == Spec => []CleanThread
<1>1. ThreadInv => CleanThread
  BY DEF ThreadInv, Clean
<1>. QED  BY <1>1, ThreadInvariance, PTL

\* The thread shows nothing that the server has not stored, but for the optimistic row:
\* a late event, a stale page or a restored snapshot brings nothing else in.
THEOREM OnlyStored == Spec => [](Shown \subseteq stored)
<1>1. ThreadInv => Shown \subseteq stored
  BY DEF ThreadInv, Genuine, Shown
<1>. QED  BY <1>1, ThreadInvariance, PTL

\* In a lossless scenario every stored message is shown or on its way to be, for any
\* number of messages, drops and polls.
THEOREM NothingIsLost == Spec => []NothingLost
<1>1. ThreadInv => NothingLost
  <2>. SUFFICES ASSUME ThreadInv, Lossless, loaded, NEW m \in stored \ Shown,
                       ~(connected /\ (m \notin published \/ m \in ToSet(wire))), ~Fetched(m)
                PROVE  WillBeAsked(m)
    BY DEF NothingLost
  <2>1. /\ TypeOK /\ Opening /\ OnItsWay /\ Offline /\ MaxMessages \in Nat
        /\ thread \in Seq(Messages \cup {Pending}) /\ stored \subseteq Messages
    BY BoundsAssumption DEF ThreadInv, Clean, Delivering, TypeOK
  <2>2. ~connected
    BY <2>1 DEF OnItsWay
  <2>3. m \in Messages /\ m \notin ToSet(thread) /\ 1 \in ToSet(thread)
        /\ DownClosed(ToSet(thread) \ {Pending})
    BY <2>1, <2>2 DEF Opening, Offline, Shown, Messages, Pending
  <2>4. LastPersisted(thread) \in Messages /\ m > LastPersisted(thread)
    BY <2>1, <2>3, AfterTheLast
  <2>5. LastPersisted(thread) \in 1 .. m - 1
    BY <2>1, <2>3, <2>4 DEF Messages
  <2>6. scenario.mode = "poll" \/ after = {}
    BY <2>1, <2>2, LosslessMeans DEF Offline
  <2>. QED  BY <2>2, <2>5, <2>6 DEF WillBeAsked
<1>. QED  BY <1>1, ThreadInvariance, PTL

----------------------------------------------------------------------------
(* Sockets.                                                                *)

\* A socket is new, then open, then closed, each once.
OpensOnce ==
  \A k \in Sockets : /\ k \in open => on[k] # "new" /\ off[k] = "no"
                     /\ on[k] = "new" => off[k] = "no"

\* Nothing writes, or will write, the presence of a socket that is gone and not raced.
WritersAreOpen ==
  \A k \in Sockets :
    on[k] \in {"join", "write", "timer"} \/ tick[k] = "refresh" \/ k \in timer
    => k \in open \cup raced

\* A registered socket is revalidated as long as it is open.
RegisteredHasTimer == \A k \in open : on[k] = "done" => k \in timer

LifeCycle == OpensOnce /\ WritersAreOpen /\ RegisteredHasTimer

SocketsInv == SocketsTypeOK /\ LifeCycle /\ PresenceFollows

----------------------------------------------------------------------------
(* Types.                                                                  *)

\* Closing connections keeps the types of what it changes.
LEMMA CloseTypes ==
  ASSUME SocketsTypeOK, NEW gone \in SUBSET open, Close(gone)
  PROVE  /\ open' \subseteq Sockets /\ timer' \subseteq Sockets
         /\ off' \in [Sockets -> {"no", "clear", "drop", "done"}]
         /\ raced' \subseteq Sockets /\ missed' \subseteq Sockets
BY DEF SocketsTypeOK, Close

\* Every step keeps the type invariant.
LEMMA SocketsTypeStep ==
  ASSUME SocketsTypeOK, [SocketsNext]_socketsVars
  PROVE  SocketsTypeOK'
<1> USE DEF SocketsTypeOK, rows, handlers
<1>1. ASSUME NEW k \in Sockets, NEW c \in Credentials, Handshake(k, c)
      PROVE  SocketsTypeOK'
  BY <1>1 DEF Handshake
<1>2. ASSUME NEW k \in Sockets, Connecting(k)
      PROVE  SocketsTypeOK'
  BY <1>2 DEF Connecting, Join, WritePresence, Write, StartTimer
<1>3. ASSUME NEW k \in Sockets, Revalidate(k)
      PROVE  SocketsTypeOK'
  <2>1. CASE Allowed(k)
    BY <1>3, <2>1 DEF Revalidate
  <2>2. CASE ~Allowed(k) /\ k \in open
    <3>1. Close({k}) /\ {k} \in SUBSET open
      BY <1>3, <2>2 DEF Revalidate
    <3>. QED  BY <1>3, <2>2, <3>1, CloseTypes DEF Revalidate
  <2>3. CASE ~Allowed(k) /\ k \notin open
    BY <1>3, <2>3 DEF Revalidate
  <2>. QED  BY <2>1, <2>2, <2>3
<1>4. ASSUME NEW k \in Sockets, Refresh(k)
      PROVE  SocketsTypeOK'
  BY <1>4 DEF Refresh, Write
<1>5. ASSUME NEW k \in Sockets, Disconnect(k)
      PROVE  SocketsTypeOK'
  <2>1. Close({k}) /\ {k} \in SUBSET open
    BY <1>5 DEF Disconnect
  <2>. QED  BY <1>5, <2>1, CloseTypes DEF Disconnect
<1>6. ASSUME NEW k \in Sockets, Disconnecting(k)
      PROVE  SocketsTypeOK'
  BY <1>6 DEF Disconnecting, ClearPresence, DropKey
<1>7. ASSUME NEW k \in Sockets, Vanish(k)
      PROVE  SocketsTypeOK'
  BY <1>7 DEF Vanish
<1>8. CASE PresenceExpires
  BY <1>8 DEF PresenceExpires
<1>9. ASSUME NEW s \in Sessions, Logout(s)
      PROVE  SocketsTypeOK'
  BY <1>9 DEF Logout, Continue
<1>10. ASSUME NEW c \in Credentials, Expire(c)
       PROVE  SocketsTypeOK'
  BY <1>10 DEF Expire
<1>11. CASE DeleteAccount
  BY <1>11 DEF DeleteAccount, Continue
<1>12. ASSUME NEW c \in Sessions \cup {Everything}, Kick(c)
       PROVE  SocketsTypeOK'
  <2>1. Close(Room(c)) /\ Room(c) \in SUBSET open
    BY <1>12 DEF Kick, Room
  <2>. QED  BY <1>12, <2>1, CloseTypes DEF Kick, Continue
<1>13. ASSUME NEW c \in Sessions \cup {Everything}, ClearRoom(c)
       PROVE  SocketsTypeOK'
  BY <1>13 DEF ClearRoom, Continue
<1>14. ASSUME NEW c \in Sessions \cup {Everything}, Revoke(c)
       PROVE  SocketsTypeOK'
  BY <1>14 DEF Revoke, Continue
<1>15. ASSUME NEW k \in Sockets, CheckThrows(k)
       PROVE  SocketsTypeOK'
  BY <1>15 DEF CheckThrows
<1>16. CASE UNCHANGED socketsVars
  BY <1>16 DEF socketsVars
<1>. QED
  BY <1>1, <1>2, <1>3, <1>4, <1>5, <1>6, <1>7, <1>8, <1>9, <1>10, <1>11, <1>12, <1>13, <1>14,
     <1>15, <1>16 DEF SocketsNext

----------------------------------------------------------------------------
(* Life cycle and presence.                                                *)

\* Closing connections, with the presence and the other handlers as they are: a closed
\* socket still has to clear its presence, or was raced.
LEMMA CloseStep ==
  ASSUME SocketsInv, NEW gone \in SUBSET open, Close(gone), UNCHANGED <<presence, on, tick>>
  PROVE  LifeCycle' /\ PresenceFollows'
<1> USE DEF SocketsInv, SocketsTypeOK, Close
<1>1. \A k \in Sockets : off'[k] =
        IF k \notin gone THEN off[k] ELSE IF on[k] = "join" THEN "done" ELSE "clear"
  OBVIOUS
<1>2. OpensOnce'
  BY <1>1 DEF LifeCycle, OpensOnce
<1>3. WritersAreOpen'
  BY DEF LifeCycle, WritersAreOpen, Busy
<1>4. RegisteredHasTimer'
  BY DEF LifeCycle, RegisteredHasTimer
<1>5. PresenceFollows'
  <2>1. ASSUME NEW k \in presence \ raced'
        PROVE  k \in open' \/ off'[k] = "clear"
    <3>1. CASE k \in gone
      BY <1>1, <2>1, <3>1 DEF Busy
    <3>2. CASE k \notin gone
      BY <1>1, <2>1, <3>2 DEF PresenceFollows
    <3>. QED  BY <3>1, <3>2
  <2>2. \A k \in open' : on[k] \in {"timer", "done"} => k \in presence \cup missed'
    BY DEF PresenceFollows
  <2>. QED  BY <2>1, <2>2 DEF PresenceFollows
<1>. QED  BY <1>2, <1>3, <1>4, <1>5 DEF LifeCycle

\* Every step keeps the life cycle and the presence.
LEMMA PresenceStep ==
  ASSUME SocketsInv, [SocketsNext]_socketsVars
  PROVE  LifeCycle' /\ PresenceFollows'
<1> USE DEF rows, handlers
<1> DEFINE Life == OpensOnce /\ WritersAreOpen /\ RegisteredHasTimer
<1>0. SocketsTypeOK /\ Life /\ PresenceFollows
  BY DEF SocketsInv, LifeCycle
<1>1. ASSUME NEW k \in Sockets, NEW c \in Credentials, Handshake(k, c)
      PROVE  LifeCycle' /\ PresenceFollows'
  BY <1>0, <1>1 DEF SocketsTypeOK, Handshake, LifeCycle, OpensOnce, WritersAreOpen, RegisteredHasTimer,
     PresenceFollows
<1>2. ASSUME NEW k \in Sockets, Connecting(k)
      PROVE  LifeCycle' /\ PresenceFollows'
  <2>1. CASE Join(k)
    BY <1>0, <2>1 DEF SocketsTypeOK, Join, LifeCycle, OpensOnce, WritersAreOpen, RegisteredHasTimer,
       PresenceFollows
  <2>2. CASE WritePresence(k)
    <3>1. LifeCycle'
      BY <1>0, <2>2 DEF SocketsTypeOK, WritePresence, Write, LifeCycle, OpensOnce, WritersAreOpen,
         RegisteredHasTimer
    <3>2. PresenceFollows'
      BY <1>0, <2>2 DEF SocketsTypeOK, WritePresence, Write, WritersAreOpen, PresenceFollows
    <3>. QED  BY <3>1, <3>2
  <2>3. CASE StartTimer(k)
    BY <1>0, <2>3 DEF SocketsTypeOK, StartTimer, LifeCycle, OpensOnce, WritersAreOpen,
       RegisteredHasTimer, PresenceFollows
  <2>. QED  BY <1>2, <2>1, <2>2, <2>3 DEF Connecting
<1>3. ASSUME NEW k \in Sockets, Revalidate(k)
      PROVE  LifeCycle' /\ PresenceFollows'
  <2>1. CASE Allowed(k)
    BY <1>0, <1>3, <2>1 DEF SocketsTypeOK, Revalidate, LifeCycle, OpensOnce, WritersAreOpen,
       RegisteredHasTimer, PresenceFollows
  <2>2. CASE ~Allowed(k) /\ k \in open
    <3>1. Close({k}) /\ {k} \in SUBSET open /\ UNCHANGED <<presence, on, tick>>
      BY <1>3, <2>2 DEF Revalidate
    <3>. QED  BY <3>1, CloseStep
  <2>3. CASE ~Allowed(k) /\ k \notin open
    BY <1>0, <1>3, <2>3 DEF SocketsTypeOK, Revalidate, LifeCycle, OpensOnce, WritersAreOpen,
       RegisteredHasTimer, PresenceFollows
  <2>. QED  BY <2>1, <2>2, <2>3
<1>4. ASSUME NEW k \in Sockets, Refresh(k)
      PROVE  LifeCycle' /\ PresenceFollows'
  <2>1. LifeCycle'
    BY <1>0, <1>4 DEF SocketsTypeOK, Refresh, Write, LifeCycle, OpensOnce, WritersAreOpen,
       RegisteredHasTimer
  <2>2. PresenceFollows'
    BY <1>0, <1>4 DEF SocketsTypeOK, Refresh, Write, WritersAreOpen, PresenceFollows
  <2>. QED  BY <2>1, <2>2
<1>5. ASSUME NEW k \in Sockets, Disconnect(k)
      PROVE  LifeCycle' /\ PresenceFollows'
  <2>1. Close({k}) /\ {k} \in SUBSET open /\ UNCHANGED <<presence, on, tick>>
    BY <1>5 DEF Disconnect
  <2>. QED  BY <2>1, CloseStep
<1>6. ASSUME NEW k \in Sockets, Disconnecting(k)
      PROVE  LifeCycle' /\ PresenceFollows'
  <2>1. CASE ClearPresence(k)
    <3>1. k \notin open
      BY <1>0, <2>1 DEF ClearPresence, OpensOnce
    <3>2. LifeCycle'
      BY <1>0, <2>1, <3>1 DEF SocketsTypeOK, ClearPresence, LifeCycle, OpensOnce, WritersAreOpen,
         RegisteredHasTimer
    <3>3. PresenceFollows'
      BY <1>0, <2>1, <3>1 DEF SocketsTypeOK, ClearPresence, PresenceFollows
    <3>. QED  BY <3>2, <3>3
  <2>2. CASE DropKey(k)
    BY <1>0, <2>2 DEF SocketsTypeOK, DropKey, LifeCycle, OpensOnce, WritersAreOpen,
       RegisteredHasTimer, PresenceFollows
  <2>. QED  BY <1>6, <2>1, <2>2 DEF Disconnecting
<1>7. ASSUME NEW k \in Sockets, Vanish(k)
      PROVE  LifeCycle' /\ PresenceFollows'
  <2>1. LifeCycle'
    BY <1>0, <1>7 DEF SocketsTypeOK, Vanish, LifeCycle, OpensOnce, WritersAreOpen, RegisteredHasTimer
  <2>2. PresenceFollows'
    BY <1>0, <1>7 DEF SocketsTypeOK, Vanish, PresenceFollows
  <2>. QED  BY <2>1, <2>2
<1>8. CASE PresenceExpires
  BY <1>0, <1>8 DEF SocketsTypeOK, PresenceExpires, LifeCycle, OpensOnce, WritersAreOpen,
     RegisteredHasTimer, PresenceFollows
<1>9. ASSUME NEW c \in Sessions \cup {Everything}, Kick(c)
      PROVE  LifeCycle' /\ PresenceFollows'
  <2>1. Close(Room(c)) /\ Room(c) \in SUBSET open /\ UNCHANGED <<presence, on, tick>>
    BY <1>9 DEF Kick, Room
  <2>. QED  BY <2>1, CloseStep
<1>10. ASSUME NEW c \in Sessions \cup {Everything}, ClearRoom(c)
       PROVE  LifeCycle' /\ PresenceFollows'
  <2>1. UNCHANGED <<open, timer, on, off, tick, raced>>
    BY <1>10 DEF ClearRoom
  <2>2. LifeCycle'
    BY <1>0, <2>1 DEF LifeCycle, OpensOnce, WritersAreOpen, RegisteredHasTimer
  <2>3. PICK listed \in (SUBSET {k \in presence : c \in {of[k], Everything}}) \cup {presence} :
          presence' = presence \ listed /\ missed' = missed \cup (listed \cap open)
    BY <1>10 DEF ClearRoom
  <2>4. PresenceFollows'
    BY <1>0, <2>1, <2>3 DEF PresenceFollows
  <2>. QED  BY <2>2, <2>4
<1>11. ASSUME UNCHANGED <<open, timer, on, off, tick, raced, presence, missed>>
       PROVE  LifeCycle' /\ PresenceFollows'
  BY <1>0, <1>11 DEF LifeCycle, OpensOnce, WritersAreOpen, RegisteredHasTimer, PresenceFollows
<1>12. ASSUME NEW s \in Sessions, Logout(s)
       PROVE  LifeCycle' /\ PresenceFollows'
  BY <1>11, <1>12 DEF Logout
<1>13. ASSUME NEW c \in Credentials, Expire(c)
       PROVE  LifeCycle' /\ PresenceFollows'
  BY <1>11, <1>13 DEF Expire
<1>14. CASE DeleteAccount
  BY <1>11, <1>14 DEF DeleteAccount
<1>15. ASSUME NEW c \in Sessions \cup {Everything}, Revoke(c)
       PROVE  LifeCycle' /\ PresenceFollows'
  BY <1>11, <1>15 DEF Revoke
<1>16. ASSUME NEW k \in Sockets, CheckThrows(k)
       PROVE  LifeCycle' /\ PresenceFollows'
  BY <1>0, <1>16 DEF SocketsTypeOK, CheckThrows, LifeCycle, OpensOnce, WritersAreOpen,
     RegisteredHasTimer, PresenceFollows
<1>17. CASE UNCHANGED socketsVars
  BY <1>11, <1>17 DEF socketsVars
<1>. QED
  BY <1>1, <1>2, <1>3, <1>4, <1>5, <1>6, <1>7, <1>8, <1>9, <1>10, <1>12, <1>13, <1>14, <1>15,
     <1>16, <1>17 DEF SocketsNext

----------------------------------------------------------------------------

\* Every reachable state satisfies the inductive invariant.
LEMMA SocketsInvariance == SocketsSpec => []SocketsInv
<1>1. SocketsInit => SocketsInv
  BY DEF SocketsInit, SocketsInv, SocketsTypeOK, Credentials, LifeCycle, OpensOnce, WritersAreOpen,
     RegisteredHasTimer, PresenceFollows
<1>2. SocketsInv /\ [SocketsNext]_socketsVars => SocketsInv'
  BY SocketsTypeStep, PresenceStep DEF SocketsInv
<1>. QED  BY <1>1, <1>2, PTL DEF SocketsSpec

\* The types of the connections, timers, presence and handlers of the gateway.
THEOREM SocketsTypeCorrect == SocketsSpec => []SocketsTypeOK
<1>1. SocketsInv => SocketsTypeOK
  BY DEF SocketsInv
<1>. QED  BY <1>1, SocketsInvariance, PTL

\* However the handlers of any number of sockets interleave with ticks that throw, writes
\* that fail and expiries of the key, the presence of a user in Redis names no socket that
\* is gone but the raced ones, and every registered one but those that the failures, the
\* clean-ups, the log-outs and the expiries since its last refresh have left out.
THEOREM PresenceIsRight == SocketsSpec => []PresenceFollows
<1>1. SocketsInv => PresenceFollows
  BY DEF SocketsInv
<1>. QED  BY <1>1, SocketsInvariance, PTL

\* An open connection is on its way to its revalidation timer or has it.
Supervised == \A k \in open : on[k] \in {"join", "write", "timer"} \/ k \in timer

\* No interleaving of registration, ticks, disconnections and log-outs leaves a connection
\* open that nothing will revalidate: the safety half of KickedOut.
THEOREM StaysSupervised == SocketsSpec => []Supervised
<1>1. SocketsInv => Supervised
  BY DEF SocketsInv, SocketsTypeOK, LifeCycle, OpensOnce, RegisteredHasTimer, Supervised
<1>. QED  BY <1>1, SocketsInvariance, PTL
=============================================================================
