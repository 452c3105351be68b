# TLA+ models of the dating service

Specifications, model-checking configurations and proofs for the parts of the
service whose correctness depends on what runs at the same time: the NestJS API
in `src/dating-api` (PostgreSQL through Prisma under READ COMMITTED, Redis, Bull
queues, socket.io) and the hooks of the Next.js client in `src/dating-ui` that
keep a copy of the server's state.

`PROJECT.json` maps every definition to the lines it models, and lists the runs,
the findings, the hazards and the theorems. Paths below are relative to `src/`;
`API` stands for `dating-api/src` and `UI` for `dating-ui/src`.

    tlc -workers 2 -config match_serial.cfg MCMatchActions.tla   # one run
    tlapm MessageSendProofs.tla                                  # one proof module

## 1. Inventory

### Components

| Component | State | Operations | What must hold | Module |
|---|---|---|---|---|
| **Match actions** (`API/me-profile/matches/actions`, `repositories/prisma-match.repository.ts`) | `MatchAction` rows (actor, target), `MutualMatch` rows (pair, status, who unmatched) | LIKE, PASS, BLOCK, undo, the conversation's own unmatch | a conversation is open only between two users who like each other; no mutual like is missed; BLOCK is final; a new match is announced, and once | `MatchActions`, `MatchPair` |
| **Message sending** (`API/me-profile/conversations/*send*`, `*fanout*`) | `Message` rows with a unique client key, mutes, rate-limit windows | send, retry | one message and one fan-out per client key; a retry costs nothing | `MessageSend` |
| **Conversation thread in the browser** (`UI/hooks/use-conversation-*`, `use-messaging-socket.ts`) | cached thread, catch-up cursor, optimistic row, socket | load, refetch, socket event, catch-up, poll, send | no duplicates, no ghosts, no missing messages | `ThreadSync` |
| **Profile analysis** (`API/me-profile/profile`, `API/workers/profile-analysis*`) | profile status DRAFT / SUBMITTED / ANALYZING / ANALYZED / FAILED, Bull job by stable id | submit, edit, worker run, retry, give-up | every submission is decided; the evaluation is of the text submitted last; a deleted text stays deleted | `ProfileAnalysis`, `StableJob` |
| **Ranked match list** (`API/me-profile/matches/list`, `API/workers/match-list-rank*`) | materialised rows, Redis list cache, rebuild job | change, rebuild, read, invalidate | rows and cached list follow the facts | `RankedList`, `StableJob` |
| **Photos and moderation** (`API/me-profile/profile/profile-photo.service.ts`, `API/photo-storage`, `API/workers/photo-*`) | photo rows, status, primary flag, storage object | upload, delete, set primary, automatic decision, admin decision, SLA sweep | one primary photo and it is approved; a decision stands; every photo is decided; file and row go together | `Photos` |
| **Content violations** (`API/content-moderation`) | violations, one status field (muted until / profile blocked) | record, enforce, expire, lift | who has struck out is restricted, until the end and no shorter | `ContentViolations` |
| **Authentication, sessions** (`API/auth`, `API/session`, `UI/lib/auth`) | refresh tokens, sessions | sign in, rotate, log out, log out everywhere | nothing usable is left behind; a revoked token is not exchanged | `RefreshTokens`, `Sockets` |
| **Realtime sockets, presence** (`API/messaging-realtime`) | rooms, local registry, Redis presence | connect, disconnect, revalidate, kick | a revoked session has no socket; presence names the sockets there are | `Sockets` |
| **Account deletion** (`API/me-account`) | one scrub transaction over all of the above, then the sockets | delete | nothing of the user comes back after it | an action of `ProfileAnalysis`, `MessageSend`, `Sockets` |
| **Conversation list, read state** (`API/me-profile/conversations`) | read watermark per participant | mark read, unread counts, list | unread counts agree with the watermark | none |
| **E-mail and push** (`API/notifications`, `API/workers/push-*`) | debounce claims, Bull jobs | notify, claim, release | at most one e-mail per window | none |
| **Cron leader lock** (`API/cache`, `API/workers/cron-leader.lock.ts`) | a Redis key with a TTL | acquire, release | one leader at a time | none |
| **Reports** (`API/reports`) | report rows | report | one open report per pair | none |

Scoring and matching engines, text extraction and evaluation by language models,
the components of the web application, infrastructure and scripts keep no state
of their own that two actors share; `PROJECT.json` lists them too.

### Interactions

A like that completes a pair (match actions) creates the conversation the send
handler checks, and asks the rank queue to rebuild both lists. A send stores the
message, emits `message.new` into both users' rooms, and starts the e-mail and
push notifications where the recipient has no presence; the browser
merges the event with what it has fetched. A flagged text records a violation,
which may mute its sender or block the profile's edits. An analysed profile has
its ranked list rebuilt. A log-out revokes the session or the refresh token and
closes sockets. Account deletion closes conversations, erases messages and texts
and kills sessions under all the others.

Each of these meeting points is an action of the module on the side that can be
hurt: `MatchActions` records the rebuilds and announcements it owes, `RankedList`
has the requests that owe them as its `Writers`, `MessageSend` has `Unmatch`,
mutes and the account deletion happen at any time, and so on. `StableJob` is the
one piece of state with the same rules in two components: a Bull job under a
fixed id, as both queues use it.

### What is hard

Handlers are `async` functions: between two awaits anything else may run, in this
process or in another one. Only a few sections are transactions, all READ
COMMITTED, so a check made before a write says little at the write. Retries
happen at every level (HTTP client, Bull, reconnecting socket). Nothing is
announced durably: a process that dies between a commit and what follows it
loses that. `PROJECT.json` lists each such hazard at its line with the properties
that cover it.

## 2. Modules

| Module | What it is |
|---|---|
| `MatchPair` | abstract: each operation on a pair in one step |
| `MatchActions` | the same operations statement by statement, with row locks, unique key and roll-back |
| `MessageSend` | the send handler await by await, under concurrent retries |
| `ThreadSync` | the open conversation in the browser against the server's log |
| `StableJob` | a Bull job under a fixed id: add, take, return, throw, back off, stall, forget |
| `ProfileAnalysis` | a profile from a saved text to its evaluation |
| `RankedList` | the rank rows and the cached list of one viewer |
| `Photos` | the photos of one profile and the decisions on them |
| `ContentViolations` | the violations of one user and the restriction they lead to |
| `RefreshTokens` | the refresh tokens of one user, on the server and in the tabs |
| `Sockets` | the realtime connections of one user, their presence and their end |
| `...Proofs` | the theorems about a module; `RealtimeProofs` has those about `Sockets` and `ThreadSync` |
| `MC...` | what TLC needs beyond a module: symmetry, sets of values, a constraint |

A definition called `Mutant...` is a plausible bug in the definition that follows
it. No specification uses it; substituting it for that definition must violate
the property `PROJECT.json` names with it, which shows that the property can fail.

In all modules a process (request, job run, cron, socket handler) has a step it
takes next, and an action is one await and the code up to the next one. A process
may end after any step, an outside call may fail wherever the code has a branch
for it, and what the code ignores (a swallowed error) the model ignores.

**Mishaps.** Several properties hold only as long as nothing happens that the code
makes no provision for. Such a module has a history variable (`mishap`, `stale`,
`misled`, `astray`, `dropped`, `missed`, `raced`, `overlap`) set in exactly the
actions where that happens, and its comment lists them. The property then says
what is promised otherwise: within the model these are the ways to lose it, and
what the code does in them is section 3's list, not a promise. No history variable
decides what may happen next.

### MatchActions and MatchPair

A request is a process whose `pc` names the statement it issues next. `action`
and `mutual` / `unmatchedBy` are the committed rows of `MatchAction` and
`MutualMatch`. A transaction's own writes (`op`, `write`) reach them at `Commit`;
until then it holds the locks of the rows it wrote, which `ActionFree` and
`MutualFree` make others wait for. Reads are committed reads. `CheckVisible` and
`ReadOwn` are outside the transaction, as in the code, and `Finish` is both the
normal end and the roll-back. `Created` decides the announcement, as the
`created` flag does; `stale` is the set of users whose ranked list predates a
commit and `unannounced` the activated pairs nobody has been told about.

`Admission` says which requests may overlap. `"any"` is what the server allows.
`"per_actor"` is what one open match page allows: `recordAction` in
`UI/hooks/use-match-actions.ts` (65-67, 121) starts no second action while one is
pending; the conversation's unmatch is on another page and stays free. `"serial"`
lets a pair have one request at a time, the discipline under which the code does
keep `MatchPair`'s promise: `AtomicRequests` is the specification of `MatchPair`
under the mapping that forgets requests, and a run and a theorem show that
`MatchActions` implements it. What visibility asks of the two profiles is left
open: any request may be refused.

### MessageSend

A request is a process. `rows` is the table, a row named by the request that
inserted it; `Clash` is the unique key (conversation, sender, client key), under
which rows without a client key never clash; `Found` is the look-up, which sees
only SENT rows. Lookup, mute check, moderation, strike, enforcement, rate limit,
second look-up, insert, third look-up and fan-out follow the code's order.
Unmatch, rematch, the end of a mute and account deletion happen at any time.
Which strike mutes and which send exceeds the rate limit are left open, so every
outcome of those two counters is covered. `replay` and `fanouts` are history.

### ThreadSync

A message is its position in the server's `(createdAt, id)` order. `stored` is the
committed log; a message may be stamped before others and committed after them
(`StampLate`, `CommitLate`). `thread` is the React Query cache, `wire` the events
in flight, `page` the page query, `after` the requests with an `after` cursor,
`send` the mutation with the snapshot its `onMutate` took. `connected` is the
socket as the browser sees it, `joined` whether the server has put it into its
user's room: socket.io tells the browser first, and `handleConnection` joins only
once it has looked up the credentials. A scenario fixes the realtime mode,
whether the viewer writes, and which mishaps may happen. Logs stay shorter than a
page (30) and a catch-up (100), so loading earlier pages is not modelled; nor is
leaving the page. The ref that mirrors the cached thread is taken to be up to date.

Which messages are there when the page opens is part of the scenario (`preloaded`),
because an empty conversation behaves differently: a thread without a stored message
has no cursor, so it is neither caught up nor polled, and what comes then comes by
event alone (the stories of sprint 3 say so of the poll). `NothingLost` and
`LosslessThread` are therefore about scenarios with something to go by. The helpers of
the cache are written with `Rows`, the chosen positions of a sequence in their
order, and `Ascending`, the members of a set in order: neither is recursive, so that
they can be proved about.

### ProfileAnalysis

`status`, `text` and `evaluated` are the fields of the `UserProfile` row, a text
being its version. `request` is where each HTTP request stands: an edit checks and
saves, a submission checks, marks SUBMITTED and enqueues. `job` is the Bull job
`analysis:{userId}`; `bull` is FALSE where there is no Redis and the run starts
inline in the request's process. `run` is the worker, with the text it has read:
read, mark ANALYZING, evaluate, persist or fail, ask for the rank rebuild
(`unranked` says it has not been asked for). A retried job reads the profile as
any other; that it skips ANALYZED to the rank rebuild and leaves ANALYZING alone is
in the code and in the model. `DeleteAccount` scrubs texts and evaluation in one
step.

### RankedList

`eligible` is the set of candidates the facts put on the list, `ranks` the rows,
`cache` the list in Redis or none, `guard` the key that limits how often an empty
list asks for a rebuild. A writer changes the facts and then issues the calls of its
endpoint in their order (`FollowUps`):

- invalidate, then enqueue: a match action, an undo, a finished analysis;
- enqueue alone: an unmatch, a first profile, new preferences;
- enqueue, then invalidate: new preferences with another dating chapter;
- invalidate alone: a submission, which makes the viewer not ready, and the dating
  chapter by itself;
- nothing: a patch of any other field (`profile-crud.service.ts` 232-257), the review of
  the viewer's own photos, and whatever a candidate does (the design: "Viewer-only
  rebuilds; no candidate→all-viewers fan-out", sprint-31 `STORY_03` line 31).

Rows and cache are therefore not promised to equal the facts. `recent` has the lists
the facts have made since the last change that asks for a rebuild, `fresh` those since
the last that asks for anything; the properties say that the rows are in the first and
the cached list in the second, or that someone is about to see to it. A rebuild that is
lost (`mishap`) is made up for by the next one that begins with no other beside it; a
list that an invalidation has passed by (`stale`), by the next invalidation that
reaches Redis. A run reads the facts, upserts
in chunks, deletes the other rows, invalidates and may ask for another. A reader
builds a list from the facts and stores it, or asks for a rebuild when there are no
rows. Without Redis there is neither a
queue nor a cache: rebuilds run inline. A Redis that serves the cache while Bull
failed to start is not modelled separately. The facts of a change become visible in
one step.

### Photos

`photo` holds the rows, `file` the photos with an object in the storage, `jobs`
those whose moderation job may run. `act` is what each process does next, with what
it has read (`saw`: the photo is primary; `key`: it has an object). The moderation
driver is `rekognition`; the drivers that approve at
upload (`mock`, `stub`, auto-approval) are not modelled. Uploads stay below the
photo limit, and positions are left out. The cron here reads each photo by itself,
where the code reads a batch and then goes through it: every behaviour of the
code's is one of the model's. `age` counts the three thresholds of the SLA rules,
not hours.

### ContentViolations

`status` and `until` are the two fields on `User`, `strikes` the times of the message
violations, `edits` the number of profile violations. A request is a message or
profile edit whose text is refused; one with a clean text changes nothing but an
expired mute. The three counts of a message violation are taken at one moment
(`Count`), where the code issues three queries one after another. One field holds
both kinds of restriction: a block after a mute replaces it even with nothing
overlapping, and the other way round; both are mishaps by name. The removal of
violations by account deletion is left out.

### RefreshTokens

`row` is the server's row of each token; revoked and expired are told apart, because
revocation touches rows that have expired. `held` is what each tab stores, `asking` the
request it waits for (`coordinateRefreshAccessToken` shares one between callers),
`at`, `old` and `new` the request on the server: check, revoke, store. A tab may give
a request up (`GiveUp`) while the server goes on; a request may fail between any
two steps. `leaving` is the log-out, `RevokeAll` the log-out everywhere. A sign-in
stores its pair over whatever the tab holds, or its answer is lost (`Login`); a tab is
closed with its session storage, or clears its tokens without a log-out when `/auth/me`
answers 401 or fails after a sign-in (`Forget`, `UI/contexts/auth-context.tsx` 170-172,
220). What a tab lets go of in any of these ways stays usable at the server until it
expires or a log-out everywhere revokes it, and is `dropped`. A refresh that is answered after a log-out installs a token
in the logged-out tab, as the code does. Two exchanges of one token that overlap both
succeed, because the count of the revoked rows is not looked at. `out` says that a
log-out everywhere has come while no exchange was past its check. Account deletion
does not revoke refresh tokens in the code, and has no action here.

### Sockets

Each socket has three handlers that interleave: `on` (`handleConnection`: join the
room, write presence, start the timer), `off` (`handleDisconnect`: clear and, if none
is left, drop the key) and `tick` (revalidation, refresh of the presence). `presence`
is the user's key in Redis. Each write gives the whole key 90 seconds and the timers
write every 60: a socket whose write fails (`Write`) or whose check throws
(`CheckThrows`: logged as an unhandled rejection, the timer goes on) is `late` until some
socket writes, and the key may expire once every timer is late or at its write
(`PresenceExpires`). A write that adds its member and then fails to set the time to
live counts as failed, with nothing written. A log-out kicks the sockets, clears their
presence and revokes the session, in this order; account deletion does so for all
(`closing`). The names that `ThreadSync` has too are prefixed, because one module
proves about both. A node may vanish with its sockets (`Vanish`). A registration that finds an older entry of
the same socket in the local map disconnects it, which is a `Disconnect`. Log-outs
and deletions may stop after any step: no fairness is assumed of them.

## 3. Runs

| Run | Question | Bounds | Result |
|---|---|---|---|
| `match_serial` | Do requests that do not overlap on a pair implement `MatchPair`, even if they die at any statement? | 2 users, 3 requests | yes: `ActiveMeansBothLike`, `NoMissedMatch`, `AtomicRequests` |
| `match_live` | Do the transactions ever wait for each other in a cycle, is all follow-up work done, and is BLOCK final with one page per actor? | 2 users, 2 requests, no deaths | yes: `RequestsEnd`, `ListsRefreshed`, `MatchesAnnounced`, `BlockIsFinal` |
| `match_missed` | Do two likes always make a match? | 2 users, 2 requests | **no** |
| `send` | Is a send idempotent under concurrent retries? | 2 senders, 1 key or none, 2 texts, 3 requests, deaths | yes: `RepliesAgree`, `FanOutFollowsInsert`, `ReplayIsFree` |
| `thread_sync` | Is the thread free of duplicates and ghosts whatever happens, and complete when the design can make it so? | 3 messages, 1 or none of them preloaded, 3 mishaps, 2 polls in flight | yes: `CleanThread`, `NothingLost`, `LosslessThread` |
| `profile_analysis` | Is every submission decided, on the right text, and a deleted one left alone? | 2 requests, 2 runs, 2 texts, with and without Bull | yes: `NothingStuck`, `EvaluationIsCurrent`, `RankFollows`, `ErasedStaysErased`, `Decided` |
| `ranked_list` | Do rows and cached list follow the changes that ask for it? | 2 candidates, 1 writer, 1 reader, 2 runs, 2 changes, with and without Redis | yes: `RanksFollow`, `CacheFollows`, `EventuallyRanked` |
| `photos` | Is one photo primary, does a decision stand, do file and row go together? | 2 photos, 2 processes | yes: `OnePrimary`, `DecisionStands`, `FileFollowsRow` |
| `photos_decided` | Is every photo decided, also when its job is lost? | 1 photo, 2 processes | yes: `EventuallyDecided` |
| `violations` | Is who has struck out restricted, and until the end? | 2 requests; limits 2, 3, 4, 2; hour 1, day 3; clock to 4; 5 violations of each kind | yes: `StruckOut`, `RestrictionStands` |
| `sockets` | Is presence right, also after checks that throw and a key that expires, and does no connection outlive its session? | 2 sockets, 1 session and a bearer token | yes: `PresenceFollows`, `KickedOut` |
| `tokens` | Which tokens are left behind, and is none exchanged after its revocation? | 3 tokens, 2 tabs, 2 refreshes, until a second token is let go of, one log-out at a time | yes: `NoneLeftBehind`, `RevocationHolds` |

Every module's `TypeOK` (`SocketsTypeOK`) is checked too, by each run but `match_live`, `match_missed` and
`photos_decided`, whose modules have it checked by `match_serial` and `photos`.

Why the bounds are enough. The properties of match actions are about one pair and
its two directions, and requests on different pairs share no row; three requests
give each direction one and let a third overtake both. In `MessageSend` every
rule compares a request with one row, so two attempts under a key and a third to
find what they left are the cases; two texts give the conflict and the rejected
text. In `ThreadSync` one message to miss and one later message to move the
cursor past it are what a loss takes; three mishaps allow a gap, its repair and a
failure of that repair. In the two queues a run and its
overlapping successor give every pair of runs that can meet; requests, runs and readers
are used again and again, so behaviours are as long as texts and changes allow. In
`ranked_list` a change comes when the calls of the one before are over, and meets
rebuilds, readers and invalidations half-way; changes whose calls overlap each other are
covered by the theorems. In `Photos`
and `ContentViolations` processes are reused too, and every race is between two;
the limits are the code's 3, 10, 20 and 3 made small with their order kept. Three
tokens are one sign-in and two rotations, or two sign-ins and one; what follows the
second token let go of, and log-outs of two tabs at once (`Explored`), are left to the
theorems. What the theorems of section 4 cover does not depend on any of these numbers.

`MaxMessages`, `MaxMishaps`, `MaxPolls`, `MaxText`, `MaxChanges`, `MaxTime` and
`MaxStrikes` are the bounds written into specifications, besides the sizes of the
sets of processes; two runs have a state constraint.
`Explored` in `MCRefreshTokens` is a bound. `Unfinished` in `MCSockets` is none: beyond it no
connection is open or to come, and neither property can be violated any more. Symmetry is used in
`send`, `tokens`, `photos` and `violations`, which check no liveness.

### Finding

`match_missed`: two simultaneous likes each miss the other's uncommitted row, so
both are stored and no match exists, against the sentence of the mutual-match story
that both having LIKE creates one MutualMatch. Liking again repairs it.

### What the mishaps stand for

Behaviours of the code that the properties' conditions single out; a reader of the
code should know them. Three go against a document of the repository:

- *One-time use.* `dating-api/docs/sprints/fe-sprint-01-mobile-auth/README.md:93` and its
  `STORY_01_backend_token_endpoint.md:505` call refresh-token rotation one-time use. Two
  exchanges of one token that both pass the check before either revokes it both get a new
  token (`Check`, `Revoke`, `Store` of `RefreshTokens`). `RevocationHolds` says what does
  hold: from the revocation on the token is exchanged by nobody who had not passed.
- *Presence keys.* `messaging-presence.keys.ts:4` says that they outlive one missed refresh.
  The write after a missed one comes 120 seconds after the last and the key lives for 90,
  so a single socket's presence may expire while it is open.
- *Presence after a disconnection.* Sprint 49's `STORY_01_redis_presence.md:19` has
  "Disconnect / logout clears presence". A socket that goes while it is registered or
  refreshed is written after it has been cleared.

- *Match actions* that overlap on a pair: the other side's BLOCK, PASS or undo can
  commit between the LIKE's look at it and the activation, and the conversation ends
  up open; from a second tab, an undo or a LIKE that passed its checks replaces a BLOCK.
- *Sending*: a send past its checks stores its text after its sender's account has
  been deleted.
- *Thread*: a catch-up answered before the server joins the room loses what is emitted
  between the two. Messages are also lost by writing while the socket is down (the
  own message moves the cursor past the gap), a drop during a catch-up, a failed
  catch-up, a failed send (the snapshot restored takes later arrivals with it), a
  refetch overtaken by an event, late commits, lost emits, and writing under polling.
  A conversation opened empty asks for nothing until its first message has come.
- *Profile analysis*: a submission while a finished job is still retained adds no
  job and stays SUBMITTED, which cannot be submitted again; so does one whose process
  dies before it enqueues; a worker that dies after marking ANALYZING leaves it there.
- *Ranked list*: a rebuild asked for while one that has read older facts is active, from
  inside its own job at the time budget, or while a finished job is retained, is swallowed
  by the fixed job id; an inline one that fails or dies, or overlaps another, may leave old
  rows. Each lasts until a rebuild begins alone. A list built before an invalidation may be
  stored after it, until the next invalidation or its time to live is over. Changes that
  ask for nothing are not mishaps: nothing is promised of them.
- *Photos*: two approvals that both find no primary photo; deletion, choice and
  approval that overlap; an upload or deletion cut off between row and file.
- *Violations*: counts that overlap may mute in the wrong order; a reset may wipe a
  mute written after it read an expired one; block and mute replace each other.
- *Sockets*: a socket that goes while it is registered or refreshed, or with its node, may
  be named as present as long as any socket renews the key, its own left-over timer
  included; the last clean-up or a log-out may delete a newcomer's presence, and missed
  writes let the key expire, until the next tick that gets through.
- *Tokens*: an answer lost after a rotation costs the sign-in and leaves the new token
  usable with nobody; so do a closed tab, a failed `/auth/me`, a sign-in over a pair that
  is still held, a log-out that does not arrive and one during a refresh. Two overlapping
  exchanges of one token both succeed.

### Fairness

`match_live` assumes strong fairness of each request's steps: PostgreSQL queues
the waiters of a row lock and grants it in turn, so a request whose lock is free
again and again gets it, and Node runs every continuation whose query has
returned. It assumes no deaths: the code has nothing that resumes a dead request.

`thread_sync` assumes weak fairness of the server's answers, of events in flight, of
reconnection (the socket is built with `reconnectionAttempts: Infinity`), of the
room join and of the poll timer; none of refetches, sends or mishaps. Liveness
there is stated for the scenarios `Lossless` lists.

`profile_analysis` and `ranked_list` assume weak fairness of the steps of runs and of
the requests' remaining calls (Node runs its continuations) and of Bull's handing out
of jobs, its backoffs and its stall check (timers of the queue); none of edits,
submissions, changes, reads, deaths or failures.

`photos_decided` assumes weak fairness of time and of every process, and strong
fairness of the cron: it comes every hour to every photo that is due, and some time
it neither dies nor fails while it decides one. Without the cron nothing decides a photo
whose job is lost.

`sockets` assumes weak fairness of each socket's handlers and of its timer, which
`setInterval` fires as long as it is set, and that some check of each connection gets its
answer: checks may throw again and again (`CheckThrows` has no fairness), but not for ever.
None is assumed of log-outs, deletions or their steps.

## 4. Proofs

TLAPS proves the following for every value of the constants: any number of users,
requests, runs, photos, tokens, sockets and so on, and any bound. The only assumptions are the named
`ASSUME`s of the modules, which TLC evaluates in every run, and the admission
discipline or absence of deaths where a theorem states one. Each module proves its
`TypeOK` as `TypeCorrect` (`RealtimeProofs`: `ThreadTypeCorrect` and
`SocketsTypeCorrect`). The others, with the inductive invariant each needs:

**`MatchActionsProofs`.** `Typing` proves `TypeOK` with `Addressed` (a request in
flight has an edge, and an unmatch never takes a step of the transaction).

- `BlockCannotBeUndone` (admission other than `"any"`). `BlockIsFinal` is not
  inductive: an upsert may follow a BLOCK if its check came first. `BlockInv` says
  that no two actions of one user on one candidate overlap and that no request
  past its check is on an edge that holds a BLOCK; each half keeps the other.
- `OneFirstMatch`, `BlameAgrees`, `ActivationByLike`: from `MutualInv`: one
  transaction at a time has written a pair's MutualMatch row, an insert still
  faces an absent row, and only a LIKE gets to write ACTIVE. No run checks these
  three, which hold under every admission; the properties are in `MatchActions`.
- `SerialRequestsAreAtomic`, `SerialActiveMeansBothLike`, `SerialNoMissedMatch` (admission
  `"serial"`): from `SerialInv`, which says what a request alone on its pair has
  read so far and that it is still true. Every commit is then one step of
  `MatchPair` and every other step stutters. That both liking each other makes a
  pair (`BothLikeMeansPaired`) is inductive on top of it.
- `NoWaitCycle`, under every admission: a transaction has its MatchAction row when it
  waits for the MutualMatch row, and only `commit` left once it has that one
  (`MutualInv`), so who is waited for by one who is waited for waits for nobody. This
  is the safety half of `RequestsEnd`; chains of two do occur.
- `NothingForgotten` (no deaths): each outdated list and unannounced match has a request
  past its commit that will see to it, the safety half of `ListsRefreshed` and
  `MatchesAnnounced`. It is inductive on types: a request's last call for a user is
  also what takes the user off `stale`.

**`MessageSendProofs`.** `Inv` adds four facts: a row belongs to the request that
inserted it and is fanned out exactly when that request has answered
(`RowsBelong`); ids and client keys are unique (`RowsUnique`); nothing is fanned
out unstored (`FanoutsStored`); an answer names a row under the request's key
(`AnswersName`). Two answers under a key agree only because the rows they name
are one row, which is why `RepliesAgree` needs `RowsUnique`. `RetriesAreFree` uses
`ReplayInv`: the row a free retry will find is there until it has looked.

**`ProfileAnalysisProofs`.** `NeverStuck`, `CurrentEvaluation`, `RanksFollow`, `StaysErased`. `OneRun`: with the
queue one run at most is under way and its job is active, so a mark is never
another run's. `StallsLeft`: a job whose worker is gone may stall once more unless a
mishap has happened, so it is handed out again. `Erased`: once deleted, text and
evaluation are empty and whoever could still write them was there at the deletion.
`CurrentEvaluation` (an ANALYZED profile's evaluation is of the text submitted last, or
a later one) needs `TextInHand`, that the run under way holds such a text and the
status says which step it is at, and that needs `OneSubmission`: without the queue,
where each submission starts a run of its own, a submission is in one pair of hands.

**`RankedListProofs`.** `RowsFollow`, `CacheIsDropped`, through changes of every kind, those
nobody asks a rebuild for included. Besides `OneRun` and `StallsLeft`:
`RequeueOnce`, a rebuild that asks for another has not lost it; `FactsKnown`, the facts of
now are among those the properties accept; `FactsRead`, the heart of the argument: runs
that write at once have read the same list, and one older than the last change that asks
for a rebuild implies a writer or a run that will have it read again, because such a run
must not be the last; `JustWritten`, the rows are the list of the job's run when it drops
the cache. A loss ends with a run that reads the facts beside no other (`HealEffects`),
which establishes all of these afresh. For the cache `NoRedis` and `ReadersFollow`: a
reader about to store an outdated list either is marked or will have its list dropped.

**`PhotosProofs`.** `OnePrimaryPhoto` is inductive on types as it stands.
`FilesFollowRows` needs `FileInv`: one upload per photo, and what an upload or
deletion half-way knows of row and file (`HalfWay`). `DecisionsStand` follows from
each write: conditional for job and cron, unconditional for the admin.

**`ContentViolationsProofs`.** `RestrictionsStand` needs `ResetsExpired`: what a request about
to reset has read is a mute that had ended, and so has still. `StruckOutRestricted`
has to look ahead, because violations leave the windows as time passes: `Covers(end)`
says that a mute with this end is in force at every later time at which the
violations so far still call for one, `Clean` that none is called for from now on.
`MutesCover` says that what a request is about to write covers, unless a violation has
come since it counted; `Covered` and `Blocked`, that the user's row does once nobody is
between record and mute. It rests on `Hour < Day`, as in the code, where they are one hour
and one day; the windows are counted as sets of positions, not as filtered sequences.

**`RealtimeProofs`, the thread.** `ThreadStaysClean`: with every reply in flight and
the send's snapshot clean too (`Clean`), merging keeps rows apart because it adds only
what is not there, and the optimistic row is last and replaced whole. `OnlyStored`:
the thread, replies, snapshot and events hold only what the server has stored
(`Genuine`). `NothingIsLost`, in the lossless scenarios, says of each stored message
that it is shown, or a page, an event, a request already sent or the next request
will bring it. Its invariant says why a gap is always being filled. The log has no
gaps and the server has joined every socket that is up (`Log`); the page is on its way
until it is shown, and has none either (`Opening`); a request asks from a message that
is shown, and its reply has no gap after it (`Cursors`). While the browser is connected,
what it does not show is still to be emitted, on the wire or being fetched
(`OnItsWay`); while it is not, which in polling is always, the thread has no gaps, so
that its last row is the right place to ask from (`Offline`). Where the socket may drop,
events come in order and a gap left by a drop is being fetched (`InOrder`). The lemmas
before it say what the cache's operators return. That the order `Ascending` chooses
exists is proved by rank: the number of members up to one is an injection into
`1 .. n`, and between finite sets of one size an injection is onto.

**`RealtimeProofs`, the sockets.** `PresenceIsRight` needs `LifeCycle`: a socket opens once,
whatever may still write its presence is open or raced, and once registered it has a
timer, which renews its presence or closes it. `StaysSupervised` follows too: an open
connection has its timer or is on its way to it, the safety half of `KickedOut`.

**`RefreshTokensProofs`.** `NoTokenLeft`, `RevokedForGood`. A row only ages. `Issued` and
`Stages` say which tokens exist, `Spent` and `EndedAreOut` which are revoked because
a request has exchanged them or a log-out ended them, and `OutIsOut` that after a log-out
everywhere no exchange is past its check before the next sign-in. `Login` and `Forget`
keep them because what they take from a tab is recorded in `dropped`.

**Only model-checked.** All liveness, which is out of TLAPS's reach with fairness and
ENABLED: `RequestsEnd`, `ListsRefreshed`, `MatchesAnnounced`, `LosslessThread`, `Decided`,
`EventuallyRanked`, `EventuallyDecided`, `KickedOut`. Every safety property that a passing
run checks is a theorem. The safety halves named above say that
what is to happen eventually has somebody under way to do it.

## 5. Not modelled

- *Notifications*: the debounce claim is one atomic `SET NX`; the rest is templates and
  providers. `MessageSend` counts how often they are started.
- *Cron leader lock*: the crons of `Photos` and `ContentViolations` are modelled as if any
  number of them ran at once, so nothing rests on it.
- *Read state, reports*: single statements, or a check and an insert.
- *Scoring and matching engines*: pure arithmetic with large keyword tables, left to its
  table-driven unit tests. *Extraction and evaluation by language models*: prompts and
  parsing around an outside service.
- *Account deletion* beyond what the three modules meet: the other tables of its one
  transaction.
- *Web components, translations, deployment, scripts*: no protocol state.
- Parts of modelled components: the photo limit and positions, drivers that approve at
  upload, the verification of Google's id_token, the subscription to a conversation
  and typing events, earlier pages of a thread.

`PROJECT.json` gives each of these with its status.
