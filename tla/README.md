# A TLA+ verification of golang-rest-api-template

The program is a Go/Gin REST API: books with owners, accounts with access JWTs
and rotating refresh tokens, a Redis list cache, a Redis denylist, a rate limiter,
best-effort Kafka events and MongoDB access logs. Several instances may run behind
a load balancer over one PostgreSQL and one Redis. Every request is a goroutine;
the only things requests share are the two stores, the topic and a few in-process
structures (a singleflight group, a mutex-protected map, a channel). The hard
behaviours are therefore races between requests at the granularity of SQL
statements and Redis commands, statements whose answer is lost, key expiry, and
time passing between two steps of one request.

## 1. Inventory

| Component | State it keeps | Operations | Interacts with | What is hard | What makes it correct |
|---|---|---|---|---|---|
| Refresh tokens (`service/user_service.go`, `repository/refresh_sqlc.go`) | table `refresh_tokens` | Login, Refresh (find, check, mint, rotate in a transaction), Logout (revoke a family or all) | users table, access JWTs | racing refreshes, a revocation during a rotation, lost commits, stale reads | one live token per family; rotation is atomic; a revoked family stays dead; no false alarm |
| Access JWTs and denylist (`auth/auth.go`, `auth/denylist.go`, `middleware/jwt_auth.go`) | Redis keys per jti and per user | GenerateToken, JWTAuth, Deny, DenyUserBefore | Logout, every protected route | whole-second claims against exact key expiry, overlapping logouts, Redis errors that fail open | what a logout revoked is refused as long as it lives |
| Books list cache (`service/book_service.go`) | Redis generation and pages, one singleflight group per instance | ListBooks, bump after a mutation | book mutations | a load racing a bump, lost bumps, commands sent again, a counter that is lost, leaders that fail | no stale page after a bump; bounded staleness otherwise; no page set back by its own instance; every follower is answered |
| Book mutations (`service/book_service.go`, `repository/book_sqlc.go`) | table `books` | create, replace, patch, delete | list cache, events | check on one read, write by id in a later statement | only the owner writes; no lost field; one delete succeeds |
| Events (`events/`, `events/kafka`) | the topic | Publish after commit | book mutations | lost, duplicated, late and reordered events | an event tells of a commit; what was published without error is ahead of later requests' events |
| Rate limiter (`middleware/rate_limit.go`) | Redis counters or an in-memory map | Allow, prune | every route but the probes | the clock is read before the mutex is taken; counters without expiry | bounded admissions; every window ends |
| Users and roles (`Register`, bcrypt, `auth/roles.go`, `middleware/rbac.go`) | table `users` | Register, password check, role into the claim, `/admin/me` | login, refresh | two registrations of one name; a role read before it is changed and believed afterwards | one confirmed registration per name, which owns the account; a former admin is served for a bounded time |
| List query (`api/books.go`, `repository/book_sqlc.go`, the cache key) | none | parse, filter, order, page | list cache | equal sort values between pages, rows that appear under a walk, pages from Redis, wildcards in filters, delimiters in keys | a walk yields each row once and misses none that was there; a filter means its characters; a key belongs to one answer |
| Example consumer (`examples/kafka-consumer`) | ids seen by the process, the group's offset | fetch, handle, commit | events | crashes and rebalances between work and commit, copies, malformed messages | nothing lost behind the offset; repeats bounded; the loop goes on |
| Access-log queue (`middleware/logger.go`) | a channel of 256 entries, a drop counter | enqueue, worker | MongoDB | full queue, shutdown | handlers never block; drops are counted |
| Metrics, body limit (`middleware/metrics.go`, `max_body.go`) | a gauge and a counter | around each request | the access log | panics, requests refused outside the logger, requests the metrics skip, scrapes in between | the gauge is exact at every scrape, every measured request and every log entry accounted for |
| Server lifecycle (`cmd/server/main.go`, `database/db.go`, `api/router.go`, `api/probes.go`) | the pool, the other clients, the deferred calls, the listener | setup steps, retry, serve, shutdown | everything | a fatal error runs no deferred call; the grace period ends while handlers run; a pool with no free connection | what is opened is closed, last what others use; starting and stopping end |
| Request id, CORS, security headers, XSS, tracing spans, configuration | none that the program reads back | | | | |

`PROJECT.json` lists the components with their status, and under `hazards` each
hard spot with its source line and the properties that watch it.

## 2. Modules

| Module | Models |
|---|---|
| `RefreshTokens` | refresh tokens under Login, Refresh and Logout |
| `AccessDenylist` | access JWTs, JWTAuth and the Redis denylist |
| `BookListCache` | list pages, generation counter, singleflight |
| `BookMutations` | book writes and their events |
| `Sessions` | the abstract promise of the refresh tokens, which RefreshTokens implements |
| `Accounts` | registration, the password check, and the role from its row into a claim |
| `BookPaging` | the list query: parsing, filters, ordering, pages and the cache key |
| `EventConsumer` | a consumer group of example consumers on one partition |
| `RateLimit` | the limiter with both counter stores |
| `ServerLifecycle` | a process from its first setup step to its end, with its requests, probes, metrics and access-log queue |
| `...Proofs` | the inductive invariant and the theorems of the module it is named after (all but `Sessions`); those of `BookPaging` are the second half of `BookListCacheProofs`, which extends both: `BookPaging` says what the page under a key of that cache holds (section 4) |
| `MC*` | the same modules, with symmetry sets or data sets for TLC |

The modules meet in few places, and each says which: RefreshTokens has the
PostgreSQL part of Logout and AccessDenylist its Redis part; Accounts takes from
RefreshTokens only whether a session can be refreshed; BookMutations writes what
EventConsumer reads and BookListCache versions; BookPaging shows that queries do not
share a page, which lets BookListCache have one query.

In every module a request is a process with a program counter; an action is the
code between two points where another request can be observed, that is one SQL
statement or one Redis command with the local code around it. A `..., ack)` or
`..., ok)` parameter is the fate of the answer. Operators with an underscore
(`Consumable_ById`) are mutated forms of the definition that follows them, used to
check that each property can fail; no specification uses them. Variables grouped
under "history" are written and never read by guards.

### RefreshTokens

The table is kept by column: `stored`, `consumed`, `revoked` are the rows present,
with `consumed_at`, with `revoked_at`; `meta` holds user, family and expiry. A
token stands for its hash and its row, a family for the token its login issued.

| Action | Code |
|---|---|
| `Login`, `Create` | `Login`, `issueTokenPairWithFamily`: mint, then one INSERT |
| `RefreshFind` | `FindByHash`, whose result (`seen`) is used by later steps |
| `RefreshRefuse`, `RefreshReuse`, `RefreshMint` | the checks in their order: revoked, expired, consumed; then mint |
| `RotateConsume`, `RotateLost`, `RotateCommit` | `RotateAtomically`: conditional UPDATE (one row or none), then INSERT and COMMIT |
| `LogoutFamily`, `LogoutAll` | the two forms of `Logout` |
| `RevokeSnapshot`, `RevokeApply` | `RevokeFamily`/`RevokeAllForUser`: READ COMMITTED fixes the rows an UPDATE visits when it starts, and it then waits for their locks |
| `Fail` | any error, cancellation or crash: the open transaction is rolled back |

A row lock is held from `RotateConsume` to the end of the transaction, so it is the
program counter `"commit"` of a request (`Locked`). The revoking UPDATE is applied
in one step once all its rows are free; its own locks are not held across steps.

### Sessions

A session has one usable token; `Open`, `Renew` and `End` are all that can happen to
it, and a session that has ended cannot be renewed. There is no table, no transaction
and no failure. RefreshTokens implements it under the mapping in `RefreshTokens.tla`:
`used` is the set of rows, `owner` the user of a family's first row, `usable` the live
rows of the family (unconsumed and unrevoked). A login is an `Open`, a committed rotation a
`Renew`, a revoking UPDATE an `End` of one user's sessions, and every read, lock,
check, rollback and lost answer a stuttering step. A revocation that misses the successor
of an uncommitted rotation (section 3) is an `End` of fewer sessions than were meant,
which the promise allows; what it excludes is a session with two usable tokens, one
that comes back, and one event ending sessions of two users.

### AccessDenylist

The clock counts ticks, several to a second. `iat`, `exp` and `revoke_before` are
whole seconds, Redis expiries are ticks. `Present`, `IsDenied`, `IsUserRevoked` are
JWTAuth; `LogoutAll`, `DenyUserBefore`, `Deny` are the Redis part of Logout, with
the PostgreSQL statement between the first two as a point where time passes. A
failed Redis read lets the request on, a failed write is ignored, as in the code.
`owed` records, when a request arrives, why it ought to be refused.

### BookListCache

The table is a version number (the count of committed mutations) and a page is the
version it was read from: that is all freshness needs. `List` reads the
generation, `Hit`/`Miss` the page, `Do` joins or leads a flight, `Load`, `SetPage`,
`CallFails` are the leader's function; the followers get the leader's result in the
same step, as singleflight hands it to them. `Mutate` and `Bump` are the end of each
mutation. `cache.go` leaves the retries of the Redis client at their default, so a
command whose reply is lost is sent again (`Resend`): an INCR may be applied several
times, which only skips generations (`Bump` with `again`), and a SET may write its page
a second time (`SetAgain`, or `CallFails` with `applied` when the client gives up). A
repeated GET is one GET. What the model takes from Redis and the sockets' timeouts is
that a command has no effect once the request's time (`RequestTimeout`) is over.
`RedisRestart` loses all keys. A request that missed and reaches `Do` after the flight
for its key has ended loads the page again, although `api/books.go:158` speaks of one
database read per key; what holds (`PagesAdvance`) is that the page an instance has
filed is never set back by another load or SET of the same instance. Of another instance it
may be: singleflight is per process.

### BookMutations

`FirstByID` reads and checks the owner; `UpdateFields`, `PatchFields`, `DeleteByID`
write by id; `Publish` writes the event 0 to `MaxCopies` times and the request
returns. `MaxCopies = 0` is the configuration without a publisher. A Publish that ends
by its timeout leaves the outcome open (`producer.go:41-42`): the event, or another copy
of it, may stay behind (`afloat`) and be written at any later time (`Lands`). `Late`
names the commits whose events may do so, to keep the run small; the theorems hold for
any. Requests run on any instance, each with its own writer, so nothing is assumed of
the order of two events but what an answer without error shows: the writer is
synchronous and waits for all replicas (`Acked`), so that event is on the topic. `told`
records the commits Publish reported so, which the service only counts in a metric. The
generation bump between write and event changes nothing here and is in BookListCache.

### Accounts

`Register` and `Insert` are the two halves of a registration, with the hashing between
them; `Conflict` is the unique constraint's answer. `Login`, `Refresh` and `FindByID`
read the row, and the role read becomes a claim when the token is minted, which
may be a request's whole deadline later. `EffectiveRole` is the normalisation before minting
(an empty role is a user, an unknown one gets no token); `AdminMe` is JWTAuth's role check
and RequireRole. Roles are changed by whoever operates the database (external). An access
token issued is believed until it expires, so what can be promised of a former admin is a
bound: the life of a token plus the deadline of a request.

### EventConsumer

`topic` is one partition; `Publish` writes an envelope up to `MaxCopies` times and
`Garbage` is a message that is no envelope. `Fetch`, `HandleSkip`, `HandleWork` and
`Commit` are the loop of `main.go` with its error branches, `Crash` and `Start` a process
that loses its set of ids, `Rebalance` and `Assign` the group coordinator (external:
one owner per partition, who starts at the committed offset).

### BookPaging

`Valid` and `Parse` are the handler's parsing, `Where`, `OrderBy` and `Orders` the SELECT,
`BooksListDataCacheKey` the key. A text is a short sequence of characters, because
escaping and hex encoding are what two of the properties are about. PostgreSQL may
return rows ORDER BY does not tell apart in any order, so `Orders` is a set, and each page
(`Turn`) takes its own member of it. An INSERT draws its id (`Draw`) before its row can be
seen (`Create`), or never is (`CreateFails`), so rows appear in any order of their ids.
`tables` keeps every state of the table, because a page may show an earlier one: ListBooks
answers from Redis, or from a load another request began. How old such a page may be is
BookListCache's matter; here it may be any state, and `WalkIsExact` says what a walk
is worth whose pages never go back from one to an earlier one (`~back`). Without that
condition TLC finds a walk that misses a row. Rows that appear may move rows into a later page, so that
a walk over several states can meet a row twice; it promises only not to miss one.
`ToLower` and `LOWER` are Go's and PostgreSQL's lowering of a character, two functions
that agree on ASCII and, depending on the database's locale, may not elsewhere: a filter
finds a letter outside ASCII only where they make the two sides one (`SameLetter`).
Rows changed or deleted under a walk are left out. The reference is `Listing`: of all enumerations of the
rows that contain the filter as a substring, the one that is in order. The assumptions on
books and queries say what PostgreSQL's and strconv's types admit, and that the ids of
users, a sequence of int64, do not get to its last value: `ToInt64` turns every larger
owner of a query into that one, which then selects nothing.

### RateLimit

Time is relative (ticks left to the reset, ticks since `time.Now()`, admissions in the
last `d` ticks for each `d`), so the state space is finite without a bound on the clock. `RedisAllow`
is the Lua script, one step. `MemoryNow` and `MemoryAllow` are the two halves of the
in-memory `Allow`, before and under the mutex. Counts above the limit are one value:
the code only compares them with it. `RATE_LIMIT_WINDOW` is taken to be a whole number
of milliseconds: the Redis store passes `window.Milliseconds()`, at least 1, to PEXPIRE
(`rate_limit.go:206-209`), so with a window of 1900 µs a counter lives about 1 ms and a
window of time can meet three of them. Redis is taken to keep its counters.

### ServerLifecycle

`phase` is where main is. The setup is one action per step in main's order (`Steps`);
`SetupFails` is `log.Fatal` in any of them, which ends the process without the deferred
calls, `NewRouter(FALSE)` the router's panic, which does run them. `Connect`,
`ConnectFails` and `ApplySchema` are NewDatabase. `ListenFails` and `Signal` are the two
ways out of the select, `Drained` and `GraceEnds` the two ways Shutdown returns. `defers` is
main's stack of deferred calls: `BeginCloseDB` and `EndCloseDB` (pgxpool's Close refuses
connections from its first moment and waits for those in use) and `CloseClient` take the
call registered last (`Pop`), and `Return` ends all goroutines. `Killed` is SIGKILL, anywhere.

A request passes the middleware in the router's order. `Accept` raises the gauge;
`AcceptSkipped` is a request that `shouldSkip` lets pass without gauge and counter (the
Swagger UI, or the scrape path by a method other than GET), which the logger logs all
the same. Metrics are taken to be enabled, the default.
`RejectBody` is the 413 outside the logger, `Refuse` any refusal inside it, `Admit` the
handler, which runs `Acquire` (or waits, or fails), `Query` and `Publish`; `Enqueue` and
`Count` are what follows `c.Next` in the logger and in the metrics, `Dec` is the deferred
decrement after them, and `Panic` skips both but not that. A scrape may come between any
two of these steps. `AcceptProbe`, `Ping` and `PingOthers` are `/readyz`, which
competes for the pool's connections. `Take` and `Insert` are the queue's worker.

## 3. Runs

Passing runs (TLC finishes with no error):

| Run | Bounds | Shows |
|---|---|---|
| `refresh_races` | 2 users, 3 tokens, 2 requests, tokens live 1 tick of 2 | `TypeOK`, `OneLivePerFamily`, `RotationAtomic`, `NoFalseAlarm`, `RevokedStaysDead`, `LogoutOwnRowsOnly`, and `ImplementsSessions`: RefreshTokens implements Sessions |
| `refresh_liveness` | 1 user, 3 tokens, 2 requests | `RequestsFinish`: every request is answered |
| `list_cache` | 2 readers, 2 writers, 2 instances, 2 mutations, 3 ticks, page expiry and request timeout 1 tick, one command sent again or one Redis restart; of ticks, second mutation and fault two at a time | `TypeOK`, `ListSeesBumpedMutations`, `PagesAdvance`, `FollowersHaveALeader`, `AnswerAgeBounded` (at most page expiry + request timeout) |
| `denylist` | 1 user, 2 tokens, 2 requests, 2 ticks a second, 5 ticks | `TypeOK`, `DeniedTokenRefused`, `LoggedOutUserRefused` |
| `book_mutations` | 2 users, 1 book id, 2 titles, 1 author, 2 requests, 4 commits, events lost or written once, that of the second also later | `TypeOK`, `OnlyTheOwnerWrites`, `NoFieldUndone`, `DeletedOnce`, `EventsReportCommits`, `EventsFollowAnswers` |
| `accounts` | 1 name, 2 passwords, 2 requests, tokens and requests live 1 tick of 4, 2 role changes | `TypeOK`, `ConfirmedOnce`, `AdminEnds` |
| `consumer` | 2 consumers, 2 events of up to 2 copies, a malformed message, one crash, one rebalance, one failure | `TypeOK`, `NothingLostBehindTheOffset`, `RepeatsBounded`, `EveryEventHandled` |
| `list_query` | every table of up to 3 rows over 3 kinds of book, INSERTs that commit in any order, pages of any state, 187 valid query strings and 71 refused ones | `WalkIsExact`, `KeyDeterminesPage` |
| `lifecycle` | 2 handlers on a pool of 1, a queue of 1, 2 connection attempts, 2 requests | `TypeOK` (at most one pool is open), `GraceProtects`, `ClientsOutliveStatements`, `EntriesAccounted`, `EndsLeaveNothingOpen`, `StartsAndStops` |
| `rate_limit` | both stores, 2 clients, 2 calls, limit 2, window 3, lag 1 | `TypeOK`, `AdmissionsBounded`, `WindowsEnd` |

Why the bounds are enough for the interesting cases. A fork of a family needs two
refreshes of one token, a stale read a refresh and a logout, and three tokens give a
parent, its successor and the successor's successor or a second family; the proofs
cover any number of requests. A stale page needs a reader that holds an old
generation, a writer and a reader that hits; two writers let bumps cross, the
second instance adds a flight that singleflight does not join, and the second mutation
lets a generation come back after Redis has lost it; a page set back needs two loads of one
key, or a load and a repeated SET, which two readers on one instance give. Time, the second
mutation and the fault are explored two at a time (`MCInit` spends the bound of the
third), all three together by the proofs. Truncation to seconds shows as
soon as a second has two ticks, and five ticks cover more than a lifetime of a token
(3). Reusing an id for another owner takes four commits (create, delete, create,
write), and a sequence that does reuse ids is in fact caught by `OnlyTheOwnerWrites`;
with one id every write races on one book, and with two titles one field can be undone
by a write of the other. `MaxCopies` is 1 there; a second copy of an event comes by
being late, and more of them are left to the proofs and, for what they do to a
consumer, to `consumer`, where there are two. The bound of `AdminEnds` is tight: a login that reads the
role just before the change and mints at the end of its deadline reaches it. In
`consumer` two copies put a message behind one in hand, one crash or rebalance
separates work from commit, and one failure is enough to be passed by a later commit.
In `list_query` two of three books share each sort value, so that an order without
tie-break has several outcomes, one author is a capital letter that only Go lowers, and
the filters contain wildcards and a delimiter of the key. In `lifecycle` one of two
handlers always waits for the connection, the second of two entries is dropped unless
the worker has taken the first, and main can meet a handler at each of its steps. In
`rate_limit` the limit is 2 because with 1 the only admission of a window is its first,
and the bound would not be tight; with these values one tick more than
`Window - MaxLag` does break it.

CHECK_DEADLOCK is off where a bound (tokens, commits, clock, events, the end of a walk)
ends the behaviour, and in `lifecycle`, where the process ends; the rate limiter has
no such bound and is checked for deadlock.

Symmetry is used in runs without liveness properties only.

### Fairness

`RefreshTokens`: strong fairness of each request's steps. A handler goroutine keeps
running and each of its calls returns; PostgreSQL grants row locks in a queue, so a
request that waits for a lock that is freed again and again gets it.
`RateLimit`: time does not stop and a goroutine that waits for a Go mutex gets it
(starvation mode of `sync.Mutex`). `EventConsumer`: weak fairness of each consumer's loop,
of the restart of a process that is down and of the assignment of a free partition; crashes,
rebalances and failures happen a bounded number of times and none is owed, and neither is a
publication. `ServerLifecycle`: weak fairness of the connection attempts (5 s each), of the
shutdown and of each handler, whose statements end with the request's deadline. That
deadline is the default of 60 s; with `REQUEST_CONTEXT_TIMEOUT=off` a statement without an
answer would keep `EndCloseDB` waiting. The schema is applied with
`context.Background()` (`db.go:144`), so a lock held by another session can keep a start
waiting; it has no fairness, and neither have MongoDB, signals, panics and clients.
`BookListCache`, `AccessDenylist`, `BookMutations`, `Accounts` and `BookPaging` need none:
their properties are about safety. That every list request is answered is there the
invariant `FollowersHaveALeader`: nobody waits but for a leader, and a leader for nobody.

### Where the code and its documentation disagree

| Run | Property | What happens |
|---|---|---|
| `refresh_survivor` | `RevokesEntireFamily` | A revoking UPDATE that starts while a rotation of the family is uncommitted does not see the row the rotation inserts: the successor survives a completed logout or reuse alarm, against "revokes the entire family" (`user_service.go:72`). |
| `denylist_crossed` | `CutoffNeverForgotten` | Two logout-alls of one user overlap; the one that began first writes its older `revoke_before` last, and tokens the other had revoked are accepted again, against README.md:301. |

Three more, without a run of their own. Expiry is tested before consumption
(`user_service.go:95`), so a replayed token past its own expiry is refused without revoking
its live family, which "Reuse of a consumed token ... revokes the entire family"
(`user_service.go:72`) does not say; the replay gains nothing (`ImplementsSessions`).
`examples/kafka-consumer/main.go:84-85` says of a failed message that it "is redelivered
and retried", but the loop goes on with the next message, whose commit passes the failed one;
it comes back only if the process restarts or loses the partition before that commit.
As shipped the example's work cannot fail, and the properties of `consumer` except such
messages (`failed`). `api/books.go:158` speaks of one database read per key, see
BookListCache above.

An access token minted by a refresh that commits between the moment a logout-all takes its
cutoff and its UPDATE has an `iat` after the cutoff and lives until it expires. Neither
code nor docs promise otherwise.

The properties the code does keep are stated with exactly these cases excluded:
`RevokedStaysDead` for revocations no rotation overlaps (`cleanly`),
`LoggedOutUserRefused` for users whose logout-alls do not overlap (`crossed`).

## 4. Proofs

Each safety property the passing runs check is also a theorem, for every value of the
constants the module's assumptions admit. TLC checks it on the small instance of section 3,
where its mutant shows that it can fail; TLAPS proves it for any number of users, requests, instances or events and any limit, timeout
or lifetime. The bounds that keep TLC's state space finite (a clock, a number of
commits or crashes) are constants of the theorems too: natural numbers, as large as one likes.

The assumptions are the `ASSUME`s of the modules: the bounds are natural numbers, limits
that the code requires to be positive are positive, the lag of the rate limiter's
clock is shorter than its window, users and tokens are different things, and `None`
is none of the values it stands in for the absence of (a row, a token, a key; `Nil` in `BookPaging`).

Every proof has the same layout. Hardly a property is inductive alone, so a module
`XProofs` defines `IInv`, the conjunction of `TypeOK`, the properties and named
strengthenings; lemmas show that each action preserves it, with one step per action and
one lemma per conjunct or per kind of step; `Invariance` is `Spec => []IInv`, and the theorems
follow (`PagingInv` and `PagingInvariant` for `BookPaging`, whose specification is
`WalkSpec`). Each of these invariants was checked by TLC on a small instance before it was
proved. An action property is proved of a step from a state in `IInv`.

| Module | Theorems | Property |
|---|---|---|
| `RefreshTokensProofs` | `OneLiveToken`, `RotationIsAtomic`, `CleanRevocationIsFinal`, `AlarmsAreJustified`, `LogoutTouchesOwnRows`, `Refinement` | `OneLivePerFamily`, `RotationAtomic`, `RevokedStaysDead`, `NoFalseAlarm`, `LogoutOwnRowsOnly`, `ImplementsSessions` |
| `AccessDenylistProofs` | `DenialHolds`, `LogoutHolds` | `DeniedTokenRefused`, `LoggedOutUserRefused` |
| `BookListCacheProofs` | `BumpedMutationsSeen`, `RepeatedLoadsAdvance`, `NobodyLeftWaiting`, `AgeBounded` | `ListSeesBumpedMutations`, `PagesAdvance`, `FollowersHaveALeader`, `AnswerAgeBounded` |
| `BookListCacheProofs`, of `BookPaging` | `WalksAreExact`, `KeysDeterminePages` | `WalkIsExact`, `KeyDeterminesPage` |
| `BookMutationsProofs` | `FieldsKept`, `OneDeletion`, `EventsTrue`, `EventsInOrder`, `OwnerWrites` | `NoFieldUndone`, `DeletedOnce`, `EventsReportCommits`, `EventsFollowAnswers`, `OnlyTheOwnerWrites` |
| `AccountsProofs` | `RegistrationsUnique`, `StaleRoleEnds` | `ConfirmedOnce`, `AdminEnds` |
| `EventConsumerProofs` | `NothingLost`, `RepeatsLimited` | `NothingLostBehindTheOffset`, `RepeatsBounded` |
| `RateLimitProofs` | `AdmissionsLimited` | `AdmissionsBounded` |
| `ServerLifecycleProofs` | `GraceHolds`, `StatementsHaveClients`, `AccountsHold`, `EndsClean` | `GraceProtects`, `ClientsOutliveStatements`, `EntriesAccounted`, `EndsLeaveNothingOpen` |
| each `...Proofs`, of its own module | `TypeCorrect` | `TypeOK` |

What the strengthenings say, and why each is needed:

**RefreshTokens.**
- `HandlerInv`: what a handler's locals mean at each label; in particular the token
  being minted is not in the table and has the family and user of the token presented.
- `CallerInv`: a caller is recorded exactly while a logout revokes, and its scope is
  the caller or a family of the caller.
- `ExclusionInv`: two requests never mint the same token nor hold the same row lock.
  This is what makes the conditional UPDATE a mutual exclusion.
- `FamilyInv`: the first token of a family is a row, and all rows of a family have
  one user.
- `ParentInv`: a token with a parent is stored and its parent is consumed.
- `SnapshotInv`: the rows of a revoking UPDATE are in its scope, and a live row of
  the scope that the snapshot misses belongs to a family recorded as overlapped. This
  is the step from "no rotation overlapped" to "nothing was missed".
- `CleanlyInv`: cleanly revoked families have rows.

The core of `OneLivePerFamily`: `RotateCommit` adds a live row exactly when it consumes
the locked one, which was live when locked and which no other step can consume or
revoke while it is locked; `RotationAtomic` gives the parent its only child.

`Refinement` shows that RefreshTokens implements Sessions under the mapping of section 2.
The empty table maps to no sessions. `QuietStep`: a step that leaves the rows alone
is a stutter. `CreateOpens`: the INSERT of a login is an `Open`, since a minted
token is not a row. `CommitRenews`: a committed rotation is a `Renew`, since the locked
row was the only live one of its family and its successor is the only one now.
`RevokeEnds`: a revoking UPDATE is an `End`, since the rows it visits belong to one user
(`SnapshotOneUser`), or a stutter if none of them was live.

**AccessDenylist.** `DenyInv` and `CutoffInv` are the heart: the key that refuses a
token is in Redis until the token has expired, although the token's expiry is
truncated to a second and the key's is exact. `ClaimsInv` ties the claims to the
instant they were made; `Held` (in `RequestInv`) carries the reason to refuse a request
from its arrival over its two Redis reads: a token whose key was gone when the first one
looked has expired by then, so acceptance at the end would contradict its expiry. `Alone` and `Latest`
are what "no other logout-all overlaps" buys: the one that writes last began last.

**BookListCache.** `GenInv` says that, as long as Redis keeps its data, a generation
determines which mutations had been bumped when it began, and what is filed or about
to be filed under it shows them. It needs that a bump makes a generation nobody has
read yet, which is arithmetic on the counter; `BumpInv` bounds the generation by
the committed mutations less the bumps still owed, plus the INCRs sent again (a cardinality
argument), which is what `TypeOK` needs. `NewestInv`, with `OneLoadAtATime` for the loads under way,
says that a list about to be filed is no older than the page of its own instance that it
replaces; `PagesAdvance` is the step it allows. `AgeInv` relates the expiry of a page to the birth of the first
version it lacks, `LoadedInv` says that a leader that files has loaded.

**BookPaging.** `PagingInv`: rows stay as they are from one state of the table to the
next and a drawn id has no row (`InsertsInv`). While all pages show one state, what the
client has is one piece of its list, from the offset up to the page it is at, and it is done
exactly when that is beyond the end (`OneState`). While no page goes back, a row of the
first page's state has been received or its place in the state of the last page is still
to come (`NoneMissed`). The argument has four parts.
- One order. In a list that an order allows, the place of a row is the number of rows
  the order puts ahead of it (`Place`), so an order that tells rows apart has one
  list (`ListedOneWay`), and the tie-break by id tells them apart (`AheadOneWay`).
  Hence a statement returns one list of a state, the one that `Listing` chooses.
- The same rows. A pattern without wildcards is found where the filter is a part of the
  text (`LikeIsPart`): its cuts are one character apart each, so they count up; and
  the two lowerings make two letters one exactly when `SameLetter` says so (`SameIsLowered`).
- Pages. A page that is not short ends where the next one begins (`NextPiece`). A row that
  appears, wherever it sorts, has no other row come earlier (`PlaceGrows`), so
  a row that was still to come is on the next page or still to come (`PageHas`).
- Keys. The lengths of the filters are where the key says they end, because hex digits
  are no word, and the parts determine the query (`KeyIsInjective`).

Where this needs induction it takes a least counterexample: that a set of numbers has a
least element (`LeastElement`) follows from the well-foundedness of the strict
subset order on finite sets, with no operator to instantiate.

**BookMutations.** `HandlerInv`: between its check and its write a request acts for the
owner of the book, if the book is still there. This holds although the write tests only the
id, because a deleted id never returns (`IdInv`: ids come from a sequence; `TableInv`: a
deleted book stays deleted) and no write changes an owner. `Reports` says what an event
tells; `HandlerInv` has it for the event about to be published and `TopicInv` for those in the topic.
`OrderInv`: what Publish reported as written is on the topic, and the commits a request
knew of when it began are among those; `TopicInv` covers the events left behind as well.

**Accounts.** `AdminInv` follows the role from the row into a request's local, the
claims and the token: whoever holds it was an admin when the request that read it began,
or later. `RowInv`: sessions, tokens and the requests that make them belong to
accounts that exist, and no step removes a row.

**EventConsumer.** `Loop`: everything before the message in hand is settled
(handled, malformed, or failed with an error), even after the partition was given to another
member, so that a late commit cannot pass an unhandled message. `SeenInv`: an id a
process knows was handled, which makes skipping safe. `RepeatsInv` counts the work of an event
by the processes that know it and those that ended. That settled messages stay settled is the
lemma `SettledStays`.

**RateLimit.** `WindowInv`: what was admitted since the window opened is counted in it, and
before that, within `Window - Lag` ticks, there was only one other window. A window
opened with an old time began up to `Lag` ticks later than its reset says (`Since`), which is
where the lag in the bound comes from; `RecentInv` (longer spans have seen more) lets a
bound on one span serve for a shorter one.

**ServerLifecycle.** `DefersInv`: the deferred calls are a prefix of one fixed order whose
length follows from where main is; `PoolInv` and `OpenInv` tie what is open to it.
`HandlersInv`: handlers run while main serves, or after the grace period has ended; and
`ConnInv`: a connection is in use only while the whole stack is still to run. `FinInv` makes the requests
under way countable, and `Ledger` is `EntriesAccounted` without its condition that the process
runs: a killed process does not change its numbers any more, it only loses what is waiting.

Only model-checked: liveness (`RequestsFinish`, `EveryEventHandled`, `WindowsEnd`,
`StartsAndStops`), which is out of the prover's reach.
The two runs that expect a violation show states that exist; there is nothing to prove.

## 5. Not modelled

Signatures, bcrypt and hashing are outcomes in guards. HTTP status codes beyond success
and refusal, headers, wording, tracing spans and the text of the configuration are left
out: nothing the program decides later depends on them. `GET /books/:id` is the
SELECT that BookMutations has as FirstByID. Request ids, CORS, security headers and the
XSS filter change one request and keep nothing. The pool's idle and lifetime settings
and the clamping of its limits to int32 are used by the pool's library only. The isolation
level is PostgreSQL's default, which the code does not change. Mocks, generated
documentation and test support are not part of the service.

## 6. Plan

Done: the survey; all modules of section 2 and their runs; the proofs of
every safety property the runs check.

Left: that the bounds of `AdminEnds` and `AdmissionsBounded` are tight is seen on the
runs' instances only, and liveness stays with TLC.
