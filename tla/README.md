# A verification project for GONGAJI-FRAMEWORK

GONGAJI-FRAMEWORK is a Go library that the GoNgaji services share: an HTTP
client with retries, a WhatsApp gateway, object storage, a scheduler, caches,
authentication middleware, response compression, mail, push messages, and a set
of small helpers. The parts meet in a service, and most of what can go wrong in
them is a matter of order: two goroutines, a call and its late answer, a clock
and a lock. This directory holds TLA+ modules of those parts, TLC runs that
check them on small instances, and proofs that the TLA+ proof system checks for
every value of the constants.

All line numbers are lines of the files under `src/`.

## Running

    tlc -config <run>.cfg <MC module>      # a run; the table below names them
    tlapm <proof module>.tla               # SchedulerProofs, MemoryCacheProofs,
                                           # RedisCacheProofs, StorageProofs,
                                           # AuthenticationProofs, GzipProofs,
                                           # RepositoryProofs, OutboundProofs

## The system

| component | state | operations | what is hard | what makes it correct |
|---|---|---|---|---|
| `scheduler` | registry of jobs, started/stopped flags, base context, the cron | Register, Start, Stop, the wrapped handler | Start releases its mutex before `cron.Start()`; runs are goroutines that are dispatched, skipped, panic and return around a Stop | no run overlaps with another of its job; nothing is dispatched after Stop; the drain ends, and means that nothing runs |
| `cache` (memory) | a map with deadlines under a read-write lock | Get, Set, Delete, Exists, Flush, Sweep | deadlines are compared outside the lock, with a clock read before or after it | an expiring map: nothing is visible beyond its deadline, nothing live is swept |
| `cache/redis` | none of its own (a Redis database, shared by several caches) | Get, Set, Delete, Exists, Flush, Close, each one Redis command | commands sent again after a lost reply, or executed after they were given up; joined key prefixes; ttls that mean something else to Redis | the same expiring map |
| `storage/gcs`, `storage` | none (a bucket) | Upload, Delete, DeleteBatch, DeleteFolder, SignedURL, Copy, Move, Exists; checks of an uploaded file | parallel deletes under an errgroup, over a listing that goes on meanwhile; Move is Copy then Delete | success means all that was there is gone; the first error is the one returned; at most `deleteConcurrency` deletes at a time; no content is lost or torn |
| `httputil` | none per call (a shared random source) | Get, Post, ..., Do: execute with retries | lost and late answers, cancellation while sleeping, arithmetic of the delays | success means the service acted; no attempt after acceptance or cancellation; delays follow the exponential |
| `messaging/whatsapp` | none (the configured sessions) | SendMessage, SendOTP, CreateGroup, AddGroupMember | fallback over sessions around retries over attempts | fails only after every session failed; groups only on V1; the loop stops when the context is done |
| `compression` | per response: buffer, decision, compressor; shared: the pool | Write, WriteHeader, Flush, finish | a body is held back and decided upon late; compressors move between requests | the client gets the handler's bytes, in one encoding and with headers that fit |
| `authentication` | none (the token, the table `user_mstr`) | Generate, Parse, the account validator, Auth, AuthorizeRoles, RequirePermission | token, row and permissions are read at three moments while logins and changes go on | served only if entitled; nobody logged out without a cause; one answer |
| `identity`, `contextx` | none | Lookup; values in the request's context | an outage in the middle of a request | see `authentication` |
| `errors`, `response` | the lazily made logger | NormalizeDBError, Error, Success | an error may be normalised at none, one or two layers | the same class of status on every path |
| `notification/fcm` | none | Send, SendToTopic, SendMulticast | a call fails after earlier batches were sent; positions shift from batch to batch | every answered token is accounted for once, each error at its own token |
| `mailer` | none | Send: build of the message, the SMTP conversation | headers that meet, deadlines, an error at any step of the dialogue | the mail reads as the message; success means the server has it for every recipient; a Send ends in time |
| `cloudtask` | none | Create, Delete | a creation whose answer was lost is tried again, under another spelling of its name | one task per name |
| `database`, `database/repository`, `pagination` | the connection pool | the Base operations, BaseTransaction, count and page of a list | transactions beside statements of their own, swallowed errors, lost commits, a pool that is used up; count and page are two reads | all or nothing; own writes are seen; no page is lost; everything returns |
| `binding`, `validator` | registries written by `init` | request binding and rules | - (pure) | unit tests |
| `converter`, `formatter`, `normalizer`, `gormtypes`, `query`, `timeutil`, `location`, `random`, `env`, `crypto`, `logger`, `tracer`, `mailer/surat` | none | helpers | - (pure) | unit tests |

How they interact: `whatsapp` calls `httputil` once per session;
`authentication/jwt` calls `identity.Lookup` and the permission loader, and
`middleware.Auth` puts the result in the request's context through `contextx`,
where AuthorizeRoles and RequirePermission find it; every refusal and every
handler error goes through `response.Error`, which uses `errors`;
`compression` wraps the response writer that all of these write to. The
scheduler's handlers get a context derived from the one given to Start. Storage,
the gateway, mail, push messages and tasks are called by services side by side
and share no state with each other.

## The modules

| module | models | state and actions |
|---|---|---|
| `JobService` | what a scheduler promises | phase, runs, informed clients |
| `Scheduler` | `scheduler/scheduler.go` | one variable per field of `Scheduler`; `Register`, `StartOk`/`StartFails`, `LaunchCron`, `StopIdle`/`StopStarted`/`StopAgain`, `HandlerReturns`/`HandlerPanics`; robfig/cron is external (`Dispatch`, `Begin`, `Skip`, `Unwind`, `DrainDone`) |
| `SchedulerProofs` | - | theorems, and that the scheduler implements `JobService` |
| `TTLCache` | what a cache promises | a map that forgets what is past its deadline, non-atomic reads |
| `MemoryCache` | `cache/cache.go` | entries, clock, and where each thread is between clock and lock |
| `MemoryCacheProofs` | - | theorems |
| `GroupDelete` | DeleteBatch and DeleteFolder of `storage/gcs/gcs.go` | the errgroup (first error, context, slots), the listing page by page, the delete goroutines, an external bucket that loses and delays |
| `ObjectMove` | Upload, Exists, Copy, Move and Delete of `storage/gcs/gcs.go`, uploads of `storage/uploader.go` | two paths, the writer of an upload, the step of a move, deletes still on their way; other clients upload and delete |
| `StorageProofs` | - | theorems |
| `Delivery` | what a call of a remote service promises | what the service has done, the answer of the caller |
| `HttpClient` | `httputil/client.go`, one call of execute | attempt, outcome, what was sent, applied and may still arrive |
| `WhatsApp` | `messaging/whatsapp/whatsapp.go` | extends `HttpClient`: the session loop around the call |
| `Backoff` | `httputil/retry.go`, `config.go` | configuration as given and in force, the delay before each attempt, in integers of the width of `time.Duration` |
| `MailMessage` | `mailer/message.go` | one action, `build`: header fields with their spellings, parts, alternatives, attachments line by line, the envelope |
| `SmtpSend` | `mailer/mailer.go` | the stage of the conversation, a clock, the deadline in force; an external server that refuses, waits, loses answers |
| `Multicast` | SendMulticast of `notification/fcm/fcm.go` | the token list, where the next batch begins, the result so far |
| `CloudTask` | `cloudtask/cloudtask.go` | a caller's tries, the names the service knows, tasks queued, calls applied late |
| `OutboundProofs` | - | theorems about `SmtpSend`, `CloudTask`, `WhatsApp`, that they implement `Delivery`, and about `MailMessage`, `Multicast` and `Backoff` |
| `RedisCache` | `cache/redis/redis.go` | caches with their prefixes over one store; per thread the command, how often it was sent, its reply; writes executed late |
| `RedisCacheProofs` | - | theorems, on top of those of `MemoryCacheProofs` |
| `Repository` | `database/repository/base.go`, `pagination`, the pool of `database` | the table; per client its transaction, statement, page; GORM and Postgres (row locks, deadlocks, doomed transactions, lost commits) are external |
| `RepositoryProofs` | - | theorems |
| `GzipResponse` | `compression/gzip.go` | the fields of `gzipWriter`, header and wire of each response, the pool |
| `GzipProofs` | - | theorems |
| `Tokens` | `authentication/jwt/jwt.go` | Generate and Parse on payloads; a payload holds whole seconds, the clock ticks Rate times a second |
| `ErrorMapping` | `errors/normalize.go`, `errors/db.go`, `response/error.go` | errors by kind and code, the status they become |
| `Authentication` | the path of a request through Auth, the validator, identity.Lookup, the guards, the handler and response.Error | one action per step and outcome; other services log in, change the row and the permissions in between |
| `AuthenticationProofs` | - | theorems |
| `MCScheduler`, `MCGzipResponse`, `MCAuthentication`, `MCRepository` | - | values of the constants |
| `MCStorage`, `MCCache`, `MCOutbound` | - | several modules in one run: a behaviour chooses its part at the start |

Conventions. Actions bear the name of the function or of the part of it they
model. A call that is refused and changes nothing is a stuttering step. Names
of bounds are in capitals in CONSTANTS and marked "bound". Variables marked
"history" are written by actions and read only by properties. Definitions
introduced by "Variant:" are what the code would be with a plausible mistake;
no specification uses them. Each property is known to fail for at least one.

## The runs

| run | instance | properties | states |
|---|---|---|---|
| `scheduler_sequential` | one caller, three jobs, three goroutines, optional seconds | `Implements`, `StopDrains` | 1 464 |
| `scheduler_concurrent` | two callers, three kinds of expression, three goroutines | `NoSelfOverlap`, `RegisteredOnce`, `StopReachesHandlers`, `StaysAtRest` | 807 |
| `scheduler_start_race` | two callers, one job | `NoDispatchAfterStop` - violated | |
| `scheduler_optional_seconds` | WithSeconds, five- and six-field expressions | `AcceptedScheduleStarts` - violated | |
| `storage` | a DeleteFolder and a DeleteBatch sharing an object that others upload and remove, two slots, pages of two; or two paths with up to four uploads | `StorageTypeOK`, `SuccessDeletesAll`, `NoStraggler`, `OriginalError`, `ContentKept`, `CallsReturn` | 394 445 |
| `outbound` | two V1 sessions, one V2, two attempts; or some 3 800 messages; or a mail to three recipients with a time-out of two and deadlines of one, three and none; or lists of up to five tokens in batches of two; or three tries of a task; or 192 retry configurations, five draws, twelve headers, six attempts | `OutboundTypeOK`, `FailsOnlyAfterAll`, `Delays`, `Accounted`, `ReadsAsWritten`, `WithinDeadline`, `OncePerName`, `Delivers`, `QuietAtTheEnd`, `Returns` | 99 457 |
| `cache` | in memory: one key, a reader, two writers, ttl none or one, five moments; in Redis: two caches, one with a prefix, that share a key, two tries, one late write | `CacheTypeOK`, `Implements`, `RedisImplements` | 316 168 |
| `repository` | two clients, one of which also pages, two rows, a pool of two, two operations each | `TypeOK`, `OwnWritesSeen`, `AllOrNothing`, `WalkComplete`, `Finishes` | 193 966 |
| `gzip` | two responses, two compressors, bodies up to three units around a minimum of two | `TypeOK`, `Identical`, `OneOwner`, `Labelled` | 685 035 |
| `gzip_outer` | one response, one compressor | `AlwaysIdentical` - violated | |
| `auth` | one request again and again, two devices, two issuing services, tokens of two seconds or without an expiry, a clock of half seconds, two changes | `TypeOK`, `ServedWhileEntitled`, `NoFalseLogout`, `RightsOfRoleRead`, `FaultsKeepTheirClass`, `Answered` | 752 004 |
| `auth_one_device` | as `auth` | `LatestDeviceOnly` - violated | |

The parts of `storage`, `outbound` and `cache` share nothing, so that running
them side by side would add no order of steps that means anything; the variables
of the parts not chosen keep one value.

Why the bounds are enough. Every bound is large enough for the case a property
is about, and each run was seen to find a planted mistake for each of its
properties. In particular:

- Scheduler: two goroutines suffice for an overlap, a third lets a tick be
  skipped while a run is in progress and another is about to begin. Two
  attempts to Start suffice for a failed one followed by another. That more
  jobs, callers or goroutines change nothing is what the theorems say.
- Group delete: pages of two with three objects make the listing span two pages,
  so deletes run while the second is read; with two slots the third delete has
  to wait. A batch and a folder call are enough for one to delete what the other
  has seen. One object is touched from outside: uploading or removing a second
  adds no order between steps that one does not have.
- Single objects: four uploads let a move meet an older content, a newer one
  and one that is uploaded again after the move has failed; a delete that was
  given up needs one more upload to hit.
- HTTP and WhatsApp: two attempts give one retry and one exhaustion, two V1
  sessions and a V2 both kinds of fallback.
- Messages: every field of a Message with and without a value, a second
  recipient also under BCC, no file, one, or two of unlike content, of which the
  second has nothing, a full line, or a full line and a byte; a custom header
  that is new, that build sets too, before or after it, or in two spellings.
- SMTP: three recipients make a first, a middle and a last RCPT; deadlines fall
  before, within and beyond the two time-outs a Send can take.
- Multicast: five tokens are two full batches and a rest, four end exactly with
  a batch, none makes no call. Tokens repeat.
- Cloud tasks: three tries are a lost creation, one refused as a duplicate, and
  one more under the other spelling.
- Backoff: six attempts reach the cap from every initial delay. Time is scaled
  (hundredths of seconds, tenths, percent) to stay within TLC's integers.
- Cache: two writers let one Set wait while another stores, sweeps or flushes.
  One key is enough since no operation but Sweep and Flush touches two. Ttls of
  none and one let a deadline be live, reached and passed while each thread is
  between its two steps. A thread that reads and writes is a reader and a writer.
- Redis: one reader through the cache without a prefix, one writer through the
  one with, over the same key: what one cache sets, deletes and flushes (FLUSHDB
  is not confined to a prefix) the other has to see. Two tries make one
  repetition; one late write can overtake any other.
- Repository: two rows let clients lock in opposite orders and a page end
  between them; two connections are as many as two clients in transactions hold,
  so that an operation that took another would wait for ever. A condition selects
  one row, or none is given, which updates and deletes refuse; alone a client
  creates, upserts and updates, in a transaction it creates a batch, deletes and
  counts: each kind once, since alone and in a transaction they differ only in
  where they run. Two operations let the second follow the failed first.
- Gzip: a minimum of two and three units put the decision before, at and after
  the last write. Two requests and compressors let one go from one to the other.
- Authentication: requests share nothing, so one that is used again and again
  stands for all. Two changes are enough for a login and a second login, a
  deactivation, a change of role or of permissions; the clock passes one
  lifetime and more, so that tokens of either service end while requests are
  under way, and tokens of the older one that carry no expiry are used past it.

Deadlock checking is off in `gzip` and `gzip_outer` only: there all responses
come to an end.

### Fairness

- `Scheduler!Fairness`: a thread inside Start or woken by a done context runs
  on, a spawned goroutine reaches the skip wrapper, and a handler returns once
  its context is cancelled, which is what the doc of Stop asks of handlers.
  `DrainDone` has strong fairness: before the cron stops, runs come and go, and
  the wait group is empty again and again without being empty for ever.
- `GroupDelete`, `MCOutbound`: weak fairness of the steps of each call. The Go
  scheduler runs goroutines that can run, and requests end, if only by their
  timeout. Nothing is assumed of other clients, of lost requests, or of the
  caller's context.
- `Repository`: strong fairness of each client's statements and of the end of
  its function. A client waits again and again for a connection or a row that
  others take and give back; database/sql serves waiting requests in the order
  they came, and so does Postgres those for a row.
- `Authentication`: weak fairness of a request's steps. The lookup answers or
  fails, and handlers return.

## What is proved

With tlapm, for every value of the constants that meets the named assumptions:

- `SchedulerProofs` - `TypeCorrect`, `NeverOverlaps`, `TokensComeBack`,
  `CronHoldsRegistry`, `HandlersAreCancelled`, `RestIsFinal`. The invariants are
  not inductive one by one: that no job overlaps with itself needs that a token
  is taken by exactly one running goroutine (`TokensMatchRuns`), that a job is in
  cron exactly once needs that a failed Start leaves a job behind that every
  later Start fails on as well (`BeforeStart`), and that handlers see a cancelled
  context needs that a started scheduler has one to cancel (`StartedHasBase`).
  `IInv` is their conjunction; `TypeStep` and one lemma per part show that every
  action preserves it. Only `SchedulerAssumption` is assumed. The type invariant
  is proved and not checked by a run of its own.
  `Refinement`, `DrainIsComplete`, `StopEndsDispatch`: with one caller the
  scheduler implements `JobService`. The argument is that one caller is never
  between Start's unlock and `cron.Start()` while it stops (`Orderly`). With two
  callers this is false, as `scheduler_start_race` shows.
- `MemoryCacheProofs` - `TypeCorrect`, `Refinement`, `SweepHarmless`: the cache
  implements `TTLCache`, and Sweep removes nothing a reader could still be given.
  The invariant relates the entry a reader has copied, the clock it will compare
  it with and what its key has held meanwhile (`ReadersSaw`), and says that
  Sweep's clock is never ahead (`Roles`); that an expired entry stays expired
  (`ExpiryIsFinal`) does the rest.
- `RedisCacheProofs` - `RedisRefinement`, `CachesTypeCorrect`: the caches over
  Redis implement the same `TTLCache`, for any number of caches, prefixes,
  threads, tries and late writes. The invariant is about the commands: whatever
  is under way or late is one that a reader or a writer sends (`Sent`), a ttl is
  never the value Redis takes for "keep the old one", and what a reader will be
  told was live under its key meanwhile (`RedisReadersSaw`).
- `AuthenticationProofs` - `AnsweredOnce`, `RightsWereHeld`: a request in flight
  has not been answered yet (`AnsweredAtEnd`), and what it has read the history
  holds (`ReadsWitnessed`), because the history always holds what the table holds
  now (`Witnessed`). `EntitledOnly`, `LogoutsHaveCauses`: the argument goes back
  from a token to its login (`Given`): a token that parses was given by a login
  within its lifetime, although it holds whole seconds only (`ParsedIsAlive`), and
  one that equals the row's was given by a login as good as the latest
  (`TokenTellsLogin`, `AsGoodAs`): of the same kind, and of the same second if the
  token holds one. Tokens of the older service with neither `exp` nor `expired`
  are among those given: they have no lifetime, are served as long as their user
  is present, active, linked and not superseded, and their age is never the cause
  of a 401, which is what jwt_test.go:254-259 and CHANGELOG.md:107 ask for. The
  stray tokens, of which no login is known, are those no Parse accepts
  (`Unusable`).
  The other way round, a token given less than its lifetime less a second ago, or
  without an expiry, parses (`FreshAuthenticates`), and the validator turns nobody away who is
  standing with the latest login (`StandingIsAccepted`), so a 401 has a cause.
  `TypeCorrect` is the type invariant. `RequestsComeToAnswer`: each step of a
  request brings it closer to its end, and the step that ends it, and no other,
  answers it. `ErrorsKeepTheirClass`: what a request is
  answered for is the fault its handler ended with (`FaultIsAnswered`), and the
  table of statuses gives an error one class on both paths (`ClassOfStatus`).
  Assumed are `TokensAssumption`, `AuthenticationAssumption`; for
  `LogoutsHaveCauses` also `HandlersAssumption`, that handlers leave the 401 to
  Auth; for `ErrorsKeepTheirClass` that handlers end with `KnownErrors`: codes of
  the package, any SQLSTATE, and a registered message only for the four
  constraints the package knows. The hypothesis is needed: with a message for an
  exclusion constraint the two paths differ (see below).
- `StorageProofs` - `TypeCorrect`, `SuccessIsComplete`, `NothingLags`,
  `ErrorsAreOriginal`, `MovesLoseNothing`, `StorageTypeCorrect`. The argument about
  group deletes follows an object that a call owes: while it is in the bucket and
  the group has no error, it is still to be listed, waits to be handed over, or
  has a goroutine whose request is not sent or on its way (`OwedAreOnTheirWay`); a
  goroutine that gives a request up leaves an error behind (`GivenUpWithError`),
  and an error keeps its cause (`CausesKept`). `SlotsRespected`: at most `Limit`
  deletes of a call run at a time, for which the set of running goroutines is shown
  finite. `CallsGoOn`: until a call returns, every goroutine it waits for has a step
  to take, and with none running the caller has one, because a request is left
  unsent only when the call's context is over (`UnsentIsDead`). `CallsAdvance`:
  every such step brings the call forward: an object is never listed, handed
  over or deleted a second time (`HandedOnce`), and a page of the listing is empty
  only at its end (`PageOrEnd`). For moves, `MoveInv` says that the content of a move is at the
  destination, or still at the source with no delete on its way, as long as
  others leave the two paths alone.
- `RepositoryProofs` - `ReadsSeeOwnWrites`, `TransactionsAreWhole`: a statement
  runs on its transaction if, and only if, it was given one (`OpsPlaced`), so the
  database holds exactly the writes the transaction has made (`HeldAsAsked`), and
  a commit that is reported applies them all. `TypeCorrect`: among the types is
  that no more than `MaxOpen` connections are in use, for which the clients with a
  connection are counted (`Rest`). `WalksAreComplete`: rows that only appear
  behind the others never change how many come before a row that was there at the
  start, so the pages read so far show exactly the first rows of the start, as
  many as pages times the length of a page (`WalkFits`); a last page, decided by a
  count that is at least the number of these rows, therefore leaves none out.
  `NeverStuck`: while any call is in progress some client can go on, without a
  fault. If none could, who waits for a row would wait for a transaction that waits
  for a row itself (`BlockedByBlocked`, with `Settled`: only transactions lock), which
  is a circle, and the database breaks circles (`NoneBlocked`); then no client
  holds a connection, and the pool has one for who waits for it.
- `GzipProofs` - `TypeCorrect`, `PoolIsShared`, `BodiesAreWhole`, `HeadersFit`.
  The invariant says of each response where the units are that its handler has
  written: in the buffer, on the wire as they are, or on the wire and behind them
  in its compressor (`NothingLost`), and what its header says before and after it
  is sent (`HeaderFits`). A step touches one response and its compressor
  (`Frame`), which is nobody else's (`OneOwner`), so the other responses still fit
  (`OthersFit`); the lemmas about `Coded` and `PackKeepsOrder` carry the order
  through a compressor that lets out all it has or nothing. `PoolRefills`: a
  compressor is out of the pool only while a handler runs that compresses with it.
- `OutboundProofs` - `MailsEndInTime` (the deadline of every wait is within the
  bound, and that of the dial leaves the conversation its time: `MailTimed`),
  `NamedTasksAreMadeOnce` (both spellings resolve to one name: `TaskNamed`),
  `EverySessionTried`, `NothingSentAtTheEnd` (a request is of the attempt and the
  session the loops are at, and the sessions left behind are those tried:
  `GatewayInv`), and `EverythingDelivers`: SendMessage, mailer.Send and
  cloudtask.Create each implement `Delivery`, by the witnesses that a session
  accepted, that every recipient was taken with the data (`MailWhole`), and that
  the one task is there (`TaskCounted`). `EveryAnswerAccounted`: the answers are
  those for the positions before the next batch, and the errors name the failed
  tokens in the order of their rank among them (`MulticastInv`); a batch comes
  behind all the ranks before it (`RankBehind`), and the errors of one batch are
  in its order (`FailedInOrder`).
  `MailsReadAsWritten`: a mail is what build makes of its message
  (`MessageBuilt`), and the lemmas behind it take that apart as a client does; the
  lines of an attachment cover each character once (`LinesCut`). It rests on
  `MailMessageAssumption`, which says that a Message has passed validate and that
  its slices are sequences. `RetryAfterIsRespected`: no retry comes before the
  time a service asks for, provided a duration can hold that time.
  `BackoffsFollowTheCurve`: every backoff is the exponential of its attempt up to
  the cap, give or take the jitter, and no retry comes at once unless the jitter
  may take all of the delay, whatever mixture of fields a user gives
  (`BackoffIsNear`). `StepsRunOut`: a message, a mail, a multicast and a task have a
  number of steps of their own left, known when they start, that every step of
  theirs lowers, that nothing raises, and that is zero only with the answer;
  among them all the attempts at all the sessions of a message.
  `OutboundTypeCorrect` is the type invariant of all five parts.
  The theorems about delays, and with them the type invariant, have the hypothesis
  `PowersAreNatural`, that a power of natural numbers is a natural number and of a
  positive one positive: true, and out of the provers' reach, for which `^` is an
  unknown function. `BackoffsFollowTheCurve` also has `PowersGrow`, that a power
  grows with its base, and `DurationsHold`, that the exponential of every attempt
  and the cap with its jitter fit in a time.Duration: so they do in the run, and not
  after some 28 attempts with the default delays (see below).

All 40 properties of the passing runs are theorems but for six.

Only model-checked:

- all liveness (`StopDrains`, `CallsReturn`, `Returns`, `Finishes`, `Answered`),
  which the prover cannot treat under fairness. The parts of it that need none are
  proved: that steps run out or lead to the end (`CallsAdvance`, `StepsRunOut`,
  `RequestsComeToAnswer`) and that there is one to take (`CallsGoOn`,
  `NeverStuck`);
- `Delays`, as a whole. One of its four parts compares the delays with a recursive
  reference that is rounded at every step, so that it holds within two units only
  for the few steps and small multipliers of the run. The other three are
  `BackoffsFollowTheCurve` and `RetryAfterIsRespected`, with their hypotheses.

## Where code and documents disagree

- `scheduler_start_race`: a Stop between Start's unlock and `cron.Start()`
  (scheduler.go:162-164) stops a cron that is not running; the loop starts after
  it and never ends.
- `scheduler_optional_seconds`: with WithSeconds, Register accepts five-field
  expressions (scheduler.go:106-111) that cron, made to demand seconds
  (scheduler.go:86-89), refuses when Start adds them.
- `gzip_outer`: after finish a gzipWriter still says it compresses
  (gzip.go:222-235), so a middleware outside that writes meets a nil compressor.
- `auth_one_device`: tokens hold whole seconds and nothing else that differs
  (jwt.go:118-136), so two devices that log in within a second hold the same
  token, and the single-device check lets both in. Tokens of the older service
  without any time in them (legacyToken of jwt_test.go) are the same string
  whenever they are made.

Smaller ones, without a run of their own (the first seven are under "hazards"
in PROJECT.json: the first four with the reason why no property covers them, the
next three with what the properties say in place of the document):

- a second Stop answers with a finished context while the first drains;
- delays overflow after some 28 attempts with the default configuration;
- an exclusion constraint is a 400 or a 500 depending on the path;
- BaseGetArrayGrouped counts on `r.DB` even when its query belongs to a
  transaction (base.go:199): the total misses the transaction's own writes, and
  the count needs a second connection while the first is held;
- mailer.go:74 says "Honors ctx for the dial step; subsequent SMTP I/O respects
  cfg.Timeout". The dial of a TLS connection does not look at the context (line
  87), and a deadline in the context takes the place of `Timeout` for the whole
  conversation, also when it is later (lines 94-98). `WithinDeadline` states what
  the code keeps instead: it allows a TLS dial its `Timeout`, and the conversation
  the context's deadline, which in the run is three with a `Timeout` of two; that
  SMTP I/O respects `Timeout` fails there;
- retry.go:22 says that the delay is "capped by MaxDelay". The cap comes before
  the jitter (lines 26-31), so a delay is up to (100 + jitter) % of MaxDelay, 6.5
  seconds with the defaults; `Delays` bounds it by that, and not by MaxDelay;
- config.go:25 says of RetryConfig that "The zero value triggers defaults", and
  docs/packages.md:1184 gives JitterFactor the default 0.3. withDefaults only
  turns a negative jitter into none (config.go:66-68): a RetryConfig that leaves
  the field out retries without any jitter. Only a nil RetryConfig gets the 0.3.
  `Delays` takes the zero as it is;
- a lost answer to the end of the data or to QUIT makes Send fail for a mail that
  goes out, and a caller who tries again sends it twice;
- a Content-Transfer-Encoding among the caller's Headers stays on a mail of
  several parts (message.go:84-86), and two spellings of one field race for the
  value (a range over a map); `ReadsAsWritten` says what holds nevertheless;
- `identity.Lookup` leaves Links empty, so a role of BoundRoles never gets in with
  it; single-device and bound roles are compared exactly, AuthorizeRoles folds
  case;
- DeleteBatch, unlike DeleteFolder, reports an object that is gone already.

## Not modelled

Of modelled components:

- of an account's tokens, those with claims a login does not give: an expiry, an
  nbf or an Extra of the caller's, and tokens in the form of this framework
  without `exp`, which Generate never makes; Parse would take them as it takes
  the older service's without `expired`, which are modelled;
- walks over a list from which rows are removed, or in which rows appear in front
  of others: the table does change so in the run, but offset paging then skips or
  repeats rows, and `WalkComplete` owes nothing for such a walk;
- a handler that changes response headers after the middleware has decided (they
  are on the wire by then), or several times before (only the last counts);
- texts, log lines, JSON and form encoding, URL building; the content of keys,
  tokens and messages; profile fields in the context; base64, quoted-printable
  and the boundaries of a mail, which are library code;
- SignedURL and GetURL of `storage`, Send and SendToTopic of `fcm` and the payload
  of a notification, the URL, method and schedule of a task: one call each that
  keeps no state;
- several strategies in one Auth (the first that can handle a request decides,
  without fallback), API keys, custom validators;
- lists and groups inside a transaction (see the divergence above);
- the time between two checks of one Parse is not a step of its own;
- the random source shared by clones of an HTTP client without a lock: a data
  race inside math/rand, whose outcome `Backoff` covers by taking every draw.

Whole components, with the reason:

- `response` logger: one pointer behind a mutex on which no state depends;
- `mailer/surat`: 625 lines of letter layout, text without state;
- `binding`, `validator`, `converter`, `formatter`, `normalizer`, `gormtypes`,
  `query`, `result`, `timeutil`, `location`, `random`, `env`: pure helpers, left to
  unit tests;
- `crypto/rsa`: number theory, out of TLC's reach;
- `logger`, `tracer`: construction of library objects.

## Plan

What would add most, in this order:

1. `Repository`: lists inside a transaction, with the count on the other
   connection.
2. `Authentication`: several strategies in one Auth, and API keys.
3. `Backoff` composed with `HttpClient`, so that one run checks the retry loop
   with its delays.

Runs stay few, one per question: where two parts of a component ask the same
question, they share one.
