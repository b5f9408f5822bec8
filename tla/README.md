# Eventify: models, checks and proofs

Eventify is an Express API over PostgreSQL (Prisma) and Redis: people book
seats of events, full events keep a waitlist, a BullMQ worker promotes from the
waitlist when a seat comes free. This directory holds TLA+ modules translated
from the code under `src/src`, the TLC configurations that check them, and
proofs that TLAPS checks. `PROJECT.json` links every definition to its source
lines and lists runs, mutants, findings, hazards and theorems.

Paths below are relative to the repository's inner `src/` (so
`bookings/service.ts` is `src/src/bookings/service.ts`); documents
(`README.md`, `PR_BODY.md`) are those of the repository root.

## 1. The system

| Part | State | Operations | Talks to |
|---|---|---|---|
| Booking rows (`bookings/repository.ts`, `prisma/schema.prisma`) | one `Event` row, at most one `Booking` row per user and event, `createdAt` | count, find, create, reactivate, waitlist, cancel | PostgreSQL |
| Booking service (`bookings/service.ts`, controller, routes) | per request: the event read, the attempt number, the open transaction | `createBooking`, `cancelBooking`, `getBookingById` | booking rows, waitlist queue |
| Waitlist queue (`jobs/waitlist.queue.ts`) | BullMQ jobs with attempts | `addWaitlistPromotion` | Redis |
| Waitlist worker (`worker.ts`, `jobs/promote.ts`) | the job in hand, the open transaction, the unawaited `addConfirmation` | `promoteWaitlisted` | booking rows, both queues |
| Confirmation mail (`jobs/email.queue.ts`, `worker.ts`, `infra/mailer.ts`) | `booking-email` jobs | `addConfirmation`, the processor | Redis, mailer |
| Auth (`auth/`) | `RefreshToken` rows, rotation chain | login, rotate, revoke family, access tokens | PostgreSQL |
| Events and their cache (`events/`, `infra/redis.ts`) | event rows, `event:{id}`, list pages under a version counter, in-flight fetches | create, list, get, update, delete | PostgreSQL, Redis |
| Rate limiter (`infra/rate-limit.ts`) | one counter per identity, route and window | middleware | Redis |
| Venues (`venues/`) | venue rows, unique name | create, update, delete, list | PostgreSQL |
| Start-up (`server.ts`, `config.ts`) | Redis connection | `connectCache`, `listen` | Redis |

Components meet in three ways. Requests of one API process interleave at every
`await` and meet in PostgreSQL, where only `createBooking` and
`promoteWaitlisted` run Serializable transactions and every other statement is
a transaction of its own. The API hands work to the worker through Redis,
without a commit that covers both. And requests share module-level state of
the process (`inflight`, `listVersion`, the Redis client).

What is hard:

* *Bookings*: write skew between two transactions that count the same rows;
  the capacity read before the retry loop; a cancel that decides on a read made
  before its update, outside any transaction; bounded retries.
* *Waitlist*: lost wakeups (the enqueue that fails or is never made, the job
  that ran too early, the job that died), redelivery after a crash, two
  workers, FIFO order.
* *Auth*: two rotations of one token; a family revocation that walks a chain
  another request is extending.
* *Cache*: an invalidation that precedes the database write, a fetch that
  started before a write and fills the cache after it, a failing Redis.
* *Mail*: a call that is not awaited, made after a commit it is not part of;
  redelivery of a job whose mail has gone out.
* *Rate limiter*: a crash between `INCR` and `EXPIRE`, commands that arrive when
  their window is over, two readings of the clock, commands that wait for a
  connection.
* *Venues*: a check and a write in two statements, one in lower case.

What makes each part correct: no oversell and no lost update (booking rows);
every request answered, refusals as documented (booking service); every freed
seat offered to the longest-waiting user, exactly once (queue and worker); one
mail on its way for each promotion (mail); one live token per family and a
replay that ends the family and no other (auth); pages that show what has been
created, and staleness that ends (cache); never more than `max` requests per
window while Redis is up, and nobody refused without having sent as many
(limiter); one venue per name, deleted for good (venues).

## 2. Modules

| Module | Stands for |
|---|---|
| `BookingStore` | the rows of one event and the transactions on them |
| `BookingService` | `createBooking`, `cancelBooking`, the waitlist queue |
| `WaitlistWorker` | `promoteWaitlisted` and the workers; composes the whole system (`Next`, `Spec`, `FairSpec`); its properties and inductive invariants |
| `SeatAllocation` | abstract specification: seats taken, waited for, promoted, given back |
| `BookingRefinement` | the refinement mapping to `SeatAllocation` |
| `WaitlistClaims` | what comments and documents say, where the code does otherwise |
| `MCWaitlist` | symmetry for TLC |
| `WaitlistProofs` | types, and what a step can do to rows and transactions |
| `SeatProofs` | what the transactions guarantee, up to the refinement of `SeatAllocation` |
| `ProgressProofs` | that wakeups are not lost, nobody is stuck, and requests and jobs come to an end |
| `RefreshTokens` | `login`, `rotateRefresh`, `revokeFamily` |
| `TokenSessions` | abstract specification: sessions that start, are handed on from token to token, and end as a whole |
| `RefreshProofs` | theorems and proofs about `RefreshTokens` |
| `EventCache` | the event service: cache-aside reads, coalescing, invalidation |
| `CacheProofs` | theorems and proofs about `EventCache` |
| `ConfirmationMail` | `addConfirmation`, the `booking-email` queue and its workers, composed with `WaitlistWorker` (`MailNext`, `MailSpec`, `MailFairSpec`) |
| `MailProofs` | that the composition implements the waitlist, and theorems about the mails |
| `RateLimiter` | the middleware, the counters in Redis, the connection, the start of the server |
| `LimiterProofs` | theorems and proofs about `RateLimiter` |
| `Venues` | `createVenue`, `updateVenue`, `deleteVenue` statement by statement |
| `MCVenues` | the names of the model-checked instance |
| `VenueProofs` | theorems and proofs about `Venues` |

`RefreshTokens`, `EventCache`, `RateLimiter` and `Venues` stand alone: the code
they model shares no state with the bookings. (`createBooking` reads the event
from PostgreSQL, past the cache.) `BookingService` extends `BookingStore`,
`WaitlistWorker` extends `BookingService`, `ConfirmationMail` extends
`WaitlistWorker`: four layers of one state machine, the upper ones adding
variables and the frame conditions for them. `ConfirmationMail` replaces two
steps of the layer below, the commit of a promotion and the settling of
`addConfirmation`, by ones that say what becomes of the mail, and lets a crash
take both workers of a process; the others it takes over unchanged
(`WithoutMail`).

### How state corresponds to the code

* `exists`, `capacity`: the `Event` row. `booking[u]`, `createdAt[u]`: the
  `Booking` row of user `u`; `"NONE"` is no row. `@@unique([userId, eventId])`
  is why a function of the user is enough. Rows are never deleted.
* `tx[s]`: the one write the open transaction of session `s` (a request or a
  worker) is going to commit. In PostgreSQL a Serializable transaction reads
  one snapshot, so what `createBooking` and `promoteWaitlisted` decide is fixed
  when the snapshot is taken: `Begin` records the row, its status in the
  snapshot (`from`), the new status (`to`) and the `createdAt` an INSERT would
  get; `Commit` applies it later or a rollback drops it. A transaction that
  decides to write nothing has no effect whenever it ends, and is one step.
* `req[r]`: a request in the API process, between two of its awaits:
  `"begin"` is the top of the retry loop with the event already read, `"tx"`
  the written, uncommitted transaction, `"cancel"` between the read and the
  UPDATE of `cancelBooking`, `"enqueue"` while `addWaitlistPromotion` is in
  flight (the request may have been answered already).
* `job[j]`: a BullMQ job, with the attempts it has failed and the times it has
  stalled. A job that is completed or failed for good frees its id.
* `work[w]`, `outbox[w]`: the job in hand of a worker process, and the users
  whose `addConfirmation` it has called and not seen settle.

In `RefreshTokens`:

* `row[t]`: a `RefreshToken` row, `revoked` for `revokedAt`, `next` for
  `replacedById`. Ids are handed out in the order of creation; `issued` counts
  them. The raw token and its hash stand for the row.
* `req[r]`: a refresh after its read (line 43), which fixes what it is going to
  do: `"refuse"`, `"rotate"` (the transaction that issues, revokes and links, one
  step because it is one commit and its read was made before it), `"walk"` (one
  query of `revokeFamily`'s loop per step, `at` and `found` being `currentId`
  and `idsToRevoke`), `"revoke"` (the `updateMany`).
* `lineage[t]` is a history variable: the tokens whose exchange has led to `t`.
  It does not depend on the links in the rows, so that properties can compare
  the two. `overlapped`, history too, becomes and stays true when a refresh is
  started while another of its family is in progress; a client that awaits the
  answer to a refresh before its next never makes it true.

In `EventCache`:

* Contents are numbers; every write gives the list, and an update the event, a
  new one. `db` is what a query would return; `cache` what Redis holds under
  `event:{id}` and under the list key of each version, 0 for nothing;
  `counter` is `events:list:v`, `listVersion` the module variable.
* `inflight[k]`: the promise of `coalesce` for a key, while its query is under
  way (`"read"`) and while its answer is written to Redis (`"store"`). All
  requests in `Waiting(k)` hold that promise and are settled in one step with it.
* `req[r]`: what a request awaits: the version, the cached value, the promise,
  the DEL, the INCR, the write. `updateEvent` and `deleteEvent` run
  `getEventById` first, as the code does, from the cache.
* `listed`, `since`, `raced` and `lost` are history: the list after the last
  create that has returned, its value when a list request started, of which (the
  event, the list) something has ever been under way to be fetched between an
  update's or delete's invalidation and its write (`Racing`), and whether Redis
  has ever not served a command on which currency depends (the read of the
  version, the DEL, the INCR; a GET or SET that fails costs only a query).

In `ConfirmationMail`:

* `mail[u]`: the job of user `u`'s booking in the `booking-email` queue, with the
  attempts it has failed, the times it has stalled and (history) the times its
  mail has been sent. `mailing[w]`: what the email worker of process `w` is
  doing, before and after `sendConfirmation`. The mailer prints a line and does
  not fail; what fails is the loading of user and event.
* `owed[u]` is history: promotions of `u` that have been committed and whose mail
  has been neither sent nor given up. A mail is given up when the call rejects
  (logged at `promote.ts:51`), when its job is out of attempts or redeliveries,
  and when the process dies with the call in flight. A shutdown waits for the
  jobs but not for the calls, so it too is a crash as far as the calls go.

In `RateLimiter`:

* `counter[k]`: the Redis key of an identity and a window, its count and the
  time at which it expires, 0 for none. `now` is one clock for the process and
  for Redis, in milliseconds of which there are `Second` to a second.
* `req[r]`: a request whose INCR or EXPIRE is on its way, or which has the count
  and is about to be admitted or refused; its key was fixed when it came
  (`win`). Commands the client has queued while there is no connection stay on
  their way; a command that was sent may fail whether executed or not.
* `up`, `ready`, `listening`: Redis can be reached, `cache.isReady`, the server
  accepts requests. `Connect` is the resolution of `connectCache`, upon which
  `server.ts` listens, or a reconnection.
* `asked`, `admitted`, `abandoned` are history: requests that began in a window,
  those let through on a count taken while it lasted, and keys whose first
  request failed or died before its EXPIRE.

In `Venues`, `venue[id]` is the name of a row, or that it is not in use any more
or not yet; `req[r]` is a request between its statements, or its answer;
`overtaken` is history: the requests during which another one has written.

### Concurrency control

`Conflict(w, t)` says when a concurrent transaction `t` cannot commit after
`w`: they write the same row (first updater wins; for two INSERTs, the unique
index), or each has read what the other wrote, counting predicate reads (the
CONFIRMED count, the waitlist scan). Serializable Snapshot Isolation aborts at
least one of every such pair. It aborts more (longer cycles, false positives,
coarse predicate locks); those aborts are the `"abort"` member of `Env`, and
leaving them out adds behaviours without removing any. A cancel and a PATCH are
single statements at READ COMMITTED: SSI does not track them, so they doom only
a transaction that writes the same row.

`Env` names what the environment of an instance does, so that each run pays
only for what it asks about: `"raise"`/`"lower"` (PATCH of the capacity),
`"delete"` (DELETE of the event, refused by the foreign key while rows exist),
`"withdraw"` (cancelling waitlisted bookings too), `"abort"` (a transaction
failing on its own, retried or not), `"redisDown"` (an enqueue rejects),
`"crash"` (either kind of process dies; PostgreSQL rolls back, BullMQ hands the
stalled job out again).

### Abstractions

One event: bookings of different events share no row and no predicate.
Payloads, ids, authentication and validation before the service are left out;
ownership in `cancelBooking` is `MayCancel`. The queue does not keep order (a
worker may take any waiting job) and the backoff delay is any delay: both only
add behaviours. `createdAt` is the clock when the INSERT's snapshot is taken
and may tie.

In `RefreshTokens`, tokens not in the table are refused without effect and left
out. In `EventCache` there is one event, one list query and one API process
(both `inflight` and `listVersion` belong to a process), and the two queries of
a list page (rows and total) are one. Whether a write is refused (403, foreign
keys) is a choice. One Redis connection answers in order, so a reply and the
reading of it are one step.

Bounds: `MaxCapacity`, `MaxClock` (ticks of the clock), `Jobs` (promotion ids
outstanding at one time; `JobIdLeft` lets a cancel start only when an id is
left for it), and in the runs `MaxRetries = 2` for `MAX_RETRIES = 8` and
`JobAttempts = 2` for `attempts: 3`: one retry is enough for a retry to meet
every state another request can leave behind.
`MaxTokens` bounds the rows (`RowLeft` lets an exchange start only when a row is
left for it), `MaxWrites` the writes and the list versions. `MaxMails` bounds the
jobs of the mail queue (a call waits when it is full), and each booking has at
most one job and one call per process. `MaxTime` and `MaxAsked` bound the clock
and the requests of one identity in one window; `Ids` bounds the venues, one id
per creation.

In `RateLimiter` an identity stands for `keyOf(req)` and the label together, and
a request of an unlimited identity or without a connection goes through without
a step. The processes of an API share nothing but the counters, so that several
of them are more slots as far as the counting goes. Clocks of processes that
disagree are not modelled: `Date.now()` is the clock. `WholeSeconds` (both
limiters have windows of 60 000 ms) is an assumption of the module:
`RetryAfterLeadsOut` is not true of windows of, say, 1.5 seconds.

In `Venues` names are stored trimmed (`schema.ts` trims them first), and what
`toLowerCase` does is the constant `Lower`. The other columns are left out.

## 3. Runs

Passing:

| Run | Instance | Shows |
|---|---|---|
| `booking_races` | 3 users, 2 requests, 1 worker, capacity 1..2, one tick of the clock, raise, delete, withdraw, crash | `NoOversell`, `NoLostUpdate`, `SeatInv` (the invariant the proofs use), `PromotesOldest`, `NobodyIsStuck` and `AllocatesSeats` (refinement) against every interleaving of two requests and a promotion, in which either process may die |
| `faults` | 2 users, 1 request, 1 worker process, capacity 1, deletion, aborts, queue failures, crashes; with the mails; fair | `MailTypeOK`, `EventOutlivesBookings`, `OwedIsOnTheWay`, `MailsAreNotRepeated`, `MailsFindTheirRows`, `RequestsAreBounded`, `JobsAreBounded`, `RequestsFinish`, `JobsFinish`, `PromotedAreMailed` |
| `serial_api` | 3 users, 1 request, 1 worker, 2 jobs, capacity 1..2, lower; fair | `FreeSeatsAreOffered`, `FitsLargestCapacity`, `WaitersAreServed` |
| `refresh_families` | 2 requests, 4 rows; fair | `RefreshInv` (the invariant the proofs use), `SessionsAreKept` (refinement), `WalksMoveForward`, `OnlyDescendantsAreRevoked`, `RefreshesFinish` |
| `cache_overlaps` | 2 requests, 2 writes, Redis and queries fail; fair | `TypeOK`, `OnlyRacesLeaveStale`, `CreatedEventsAreListed`, `EntriesConverge` |
| `limiter_windows` | 1 identity, 2 requests at a time, `max` 1, windows of 4 ticks and 2 seconds, 5 ticks, 3 requests per window, outages and restarts; fair | `TypeOK`, `NeverMoreThanMax`, `RefusalIsDeserved`, `RetryAfterLeadsOut`, `CountersExpire`, `LimitedRequestsFinish`, `ServerListens` |
| `venues` | 3 ids, 3 names of which 2 differ in a capital, 2 requests | `TypeOK`, `NamesAreUnique`, `DeletedStaysDeleted`, `LoneRequestsGetTheirAnswer` |

Three users and capacity 2 are the least with a seat taken, a seat contested
and somebody waiting; three users and capacity 1 give two waiters, so that
"oldest" means something; two requests give every pairwise race. Several worker
processes are left to the proofs, which hold for any number. Symmetry is
used only in runs without liveness. `booking_races` makes one attempt per booking,
so that an abort is the end of it; retries on other snapshots are in `serial_api`
and `faults`. Deadlock is checked except where the event
may be deleted: without rows a deleted event really ends everything.

Four rows give a chain long enough for a walk of several steps, or two families
side by side; two requests give a walk and an exchange, or two exchanges, at one
time. For the cache, two requests are a reader and a writer, or two that
coalesce; a create that returns makes room for a list request that joins the
fetch of another. Two writes are needed for one invalidation to be lost and
another to come through.

For the mails one worker process is both the one that promotes and the one that
mails, so that its death hits a call, a job in hand and a mail already sent, in
any combination; two users give one call in flight while the mail of another is
under way, with one job in the queue at a time. For the limiter, `max` 1 and two
requests at a time are the least with one request counted and another refused;
five ticks reach into the second window and see a counter expire, or an expiry
set late. Several identities would share nothing, and are in the proofs. Three
venues give one that is in the way, one that is renamed and one that is deleted.

`SessionsAreKept`, `OneLivePerFamily` and `LoneReplayFindsFamily` are about
behaviours in which no refreshes of one family have overlapped, and
`refresh_forks` shows why (the latter two follow from `RefreshInv`, which the run
checks, and are proved). They do not catch that race; they say what is lost by it.
What holds in spite of all overlap is checked on its own: a replay revokes nothing
outside its family.

`cache_overtaken` shows one way to a stale entry: a fetch that is under way
between an invalidation and the write it is for. `OnlyRacesLeaveStale` says that
there is no other as long as Redis serves: hits, other writers between the two,
a create before or after its INCR and fetches that end in time leave the entry of
the event, and the pages of the current version, as the database is; only a
create that is about to count the version up has pages that miss its event. It
does not limit what a race leaves behind. That is for the others: a page asked for
after a create shows the event as long as Redis serves (because `createEvent`
bumps the version *after* its write, and the version is in the key), stale
entries disappear also when it does not.

`MailsAreNotRepeated` allows a mail more for each redelivery: a process that dies
between `sendConfirmation` and the completion of the job sends it twice, and
nothing in the code could prevent it. `LoneRequestsGetTheirAnswer` is about
lower-case names and requests nobody has overtaken: a taken name with capitals,
or one that is taken between lookup and write, is answered 500 by the unique
index and not 409. `NeverMoreThanMax` counts what was let through on a count;
requests that a failing Redis lets through come on top, by design
(`rate-limit.ts:9-12`).

`MailsFindTheirRows` says that the "not found" of the mail worker is never
thrown, because rows are never deleted and the foreign key keeps the event: it
would fail with `ON DELETE CASCADE`. `NobodyIsStuck`, `RequestsAreBounded` and
`JobsAreBounded` are the part of `RequestsFinish` and `JobsFinish` that does not
need fairness: who has started has a step to take, and there is an end to the
steps. What the liveness properties add is that the steps are taken.

`FreeSeatsAreOffered` and `WaitersAreServed` are true only of an API that
serves one request at a time, with no capacity raise, no cancel of waitlisted
bookings and one worker. That is a strong restriction and on purpose: the runs
`cancel_overtaken` and `stranded_waiter` show that two concurrent requests
break them, and a raise or a failing enqueue breaks them too. `WaitersAreServed`
needs two attempts per job at least (the code gives three): with a single one a
book and cancel in time can doom every promotion for ever, although
`FreeSeatsAreOffered` still holds.

Violations, each a disagreement between code and document (details and quotes
in `PROJECT.json`):

| Run | What happens |
|---|---|
| `stale_capacity` | request reads capacity 2; one booking commits; the organizer lowers the capacity to 1; the request's transaction counts 1 < 2 and confirms |
| `cancel_overtaken` | cancel reads WAITLISTED; the worker promotes that booking; the UPDATE cancels a CONFIRMED booking and enqueues nothing |
| `stranded_waiter` | a booking decides WAITLISTED on a full snapshot; a cancel frees the seat and its job finds nobody; the WAITLISTED row commits; nothing is left that would promote it |
| `refresh_forks` | two refreshes read one token unrevoked; one exchanges it; the token is replayed and the walk follows the link; the other exchange commits, and its row is not among those the replay revokes |
| `cache_overtaken` | an update invalidates; a get misses and reads the old row; the update writes; the get stores the old row |

Three more were seen while translating and have no run: two concurrent cancels
of one booking both answer 200 (`openapi.ts:351` has a 409); a booking that
`createBooking` confirms directly is not handed to `addConfirmation`
(`PR_BODY.md:48-49` says every newly CONFIRMED one is); and a user who cancels
and rejoins the waitlist keeps the old `createdAt`, hence the old place in the
queue (`jobs/promote.ts:11` says FIFO).

`FitsLargestCapacity` bounds the confirmed bookings by `MaxCapacity`, which no
capacity of the event exceeds. It says nothing of the capacity in force, which
`CapacityCheckedInTransaction` (run `stale_capacity`) is about.

### Fairness

`RequestStep(r)` and `WorkerStep(w)` are weakly fair: the event loop runs every
ready callback, Prisma and Redis calls settle (result, error or timeout), a
running worker takes the next job. Nothing is assumed of users, the organizer,
the clock or crashes. `JobsFinish` is checked with one job id, and
`PromotedAreMailed` with one job in the mail queue, because with several the
unordered queue could pass one over for ever, which BullMQ's does not. In
`ConfirmationMail` the promotions of a process are weakly fair, and so are its
mails together with its calls: they are two workers and the event loop. A crash
can happen at any time but not for ever: it is the redeliveries that are bounded.
`PromotedAreMailed` says that mails do not stay owed once nobody waits for a
seat.

In `RefreshTokens`, `RequestStep(r)` is weakly fair for the same reason. In
`EventCache` so are `RequestStep(r)`, `FetchStep(k)` (a query answers or fails)
and `Expire(k)` (every entry is stored with `EX`, lines 194 and 232, and Redis
keeps time). Writers, readers and failures are not assumed to come or to stay
away; `EntriesConverge` is about the time after the last of `MaxWrites` writes.

In `RateLimiter`, `Serve(r)` is weakly fair (Redis answers what is sent while
there is a connection), and so is `Connect` (the client retries). Nothing makes a
command fail or Redis come back; both liveness properties assume that in the end
it can be reached for good.

## 4. Proofs

For any finite set of users, any requests, workers and jobs, any capacity,
retry and attempt limits (`StoreAssumption`, `NoTxAssumption`,
`ServiceAssumption`):

| Theorem | Says |
|---|---|
| `WaitlistProofs!TypeCorrect` | `Spec => []TypeOK` |
| `SeatProofs!LosesNoUpdate` | `Spec => []NoLostUpdate` |
| `SeatProofs!EventsOutliveBookings` | `Spec => []EventOutlivesBookings` |
| `SeatProofs!OldestIsPromoted` | `Spec => PromotesOldest` |
| `SeatProofs!SeatInvariant` | `"lower" \notin Env => (Spec => []SeatInv)` |
| `SeatProofs!NeverOversold` | `"lower" \notin Env => (Spec => []NoOversell)` |
| `SeatProofs!NeverAboveTheLargest` | `Spec => []FitsLargestCapacity` |
| `SeatProofs!ImplementsAllocation` | `"lower" \notin Env => (Spec => AllocatesSeats)` |

The argument. `StepEffect` reduces the actions of `Next` to six effects on the
store: nothing, a snapshot, a commit, a set of rollbacks, a cancel, a step of
the organizer or the clock. Each invariant is then proved against six cases
instead of twenty-five.

`RowInv` is inductive without assumptions about the capacity: every live
transaction still sees the status it is going to overwrite (`NoLostUpdate`),
because whoever changes that row first dooms it; a live promotion still holds
the oldest waiting row (`PromotionsHoldOldest`), because a booking that joins
the waitlist and a promotion conflict; rows, jobs and workers at work imply
rows in the table (`WorkNeedsRows`), which an event with a foreign key outlives.

`NoOversell` alone is not inductive. A transaction about to confirm must still
find a free seat when it commits (`SeatsAreReserved`): any commit that takes a
seat in between conflicts with it, and a cancel only frees one. What it
compared with must still bound the capacity (`CapacityIsNotStale`): here
`"lower" \notin Env` is needed, and `stale_capacity` shows that the assumption
cannot be dropped for `createBooking` as it is. `SeatInv` is the conjunction.
Without the assumption the same argument works for the largest capacity in place
of the present one: no capacity a booking has read is above it (`CommitsFit`),
which is `NeverAboveTheLargest`.

The refinement maps `seats` to the capacity (0 once the event is gone),
`holders` and `waiters` to the confirmed and waitlisted users: commits, cancels
and the organizer's steps are steps of `SeatAllocation`, all others stutter.

`ProgressProofs` is about what comes of all this:

| Theorem | Says |
|---|---|
| `FlowInvariant` | `Spec => []FlowInv` |
| `NobodyStuck` | `Spec => []NobodyIsStuck` |
| `RequestsEnd` | `Spec => RequestsAreBounded` |
| `JobsEnd` | `Spec => JobsAreBounded` |
| `WakeupInvariant` | `Spec => []WakeupInv`, if `Env \subseteq {"lower", "delete"}`, one request and one worker at a time |
| `SeatsStayOffered` | `Spec => []FreeSeatsAreOffered`, under the same conditions |
| `CapacityCheckHolds` | `"lower" \notin Env => (Spec => CapacityCheckedInTransaction)` |

`FlowInv` adds to `RowInv` that a transaction is open exactly while a request or
worker is inside it (`TransactionsMatch`), that the job in hand of a worker is
active and nobody else's (`JobsHaveOneHolder`), and that the ids for the jobs of
cancels under way suffice (`JobIdsSuffice`). `NobodyIsStuck` follows: an open
transaction is committable, or doomed and then a serialization failure or an
abort, or it inserts a row of an event that is gone and is rejected. The bounds are
variants, `RequestSteps` and `JobSteps`, that every change lowers; that of a job
counts the attempts and redeliveries left before the stage its worker is at.

`FreeSeatsAreOffered` is not inductive: a job whose worker is done, or whose
transaction is doomed with its attempts used up, is about to leave without giving
a seat away. `SeatsAreSought` leaves those out of the count (`Lapsed`): while
anybody waits, the enqueues on their way and the jobs that are not lapsed are at
least as many as the free seats. It is preserved because the sides move
together. A cancel of a confirmed booking frees a seat and is an enqueue from then
on (`CancelsFreeSeats`); a commit takes a seat, and lapses at most its own job
and, with one worker, no other; a booking dooms a promotion only by taking the
seat it was for; a job that finds no free seat or nobody waiting leaves nothing
to be sought; and who joins the waitlist finds the event full
(`WaitersFindItFull`). Each conjunct fails in the larger instances:
`cancel_overtaken` breaks `CancelsFreeSeats`, `stranded_waiter` breaks
`WaitersFindItFull`, so the restrictions of the theorem are those under which the
code is right.

The last theorem is about the claim that the run `stale_capacity` refutes, and says
what it lacks: it is true of every instance in which nobody lowers the capacity.

For any finite set of refresh requests and any number of rows
(`RefreshAssumption`):

| Theorem | Says |
|---|---|
| `RefreshProofs!RevokesDescendants` | `Spec => OnlyDescendantsAreRevoked` |
| `RefreshProofs!RefreshInvariant` | `Spec => []RefreshInv` |
| `RefreshProofs!OneTokenInForce` | `Spec => []OneLivePerFamily` |
| `RefreshProofs!ReplayIsThorough` | `Spec => []LoneReplayFindsFamily` |
| `RefreshProofs!ImplementsSessions` | `Spec => SessionsAreKept` |
| `RefreshProofs!WalksGoForward` | `Spec => WalksMoveForward` |

`RevokesDescendants` rests on `ChainInv`, which needs no assumption about
overlap: whatever exchange has written a link last, it leads from a token to one
that has come of it (`LinksFollowLineage`), so a walk that started at the
replayed token collects descendants only (`WalksFollowLineage`).

`RefreshInv` adds that `FamilyInv` holds as long as `~overlapped`. Until then a
request that has read a token is alone in its family (`RequestsAreApart`), so
the token is still unrevoked when it is exchanged (`ReadsAreFresh`); hence
exchanges extend a family at its end (`FamiliesAreLines`), everything before the end is revoked and linked
forwards (`AncestorsAreSpent`), and what a walk has not collected lies ahead of
it (`WalksMissNothing`). `FamilyInv` is the conjunction; `OneLivePerFamily` and
`LoneReplayFindsFamily` follow from it.

The refinement of `TokenSessions` maps `live` to the tokens that are issued and
not revoked; logins, exchanges and revocations are its steps, everything else
stutters. Two things have to be shown beyond `FamilyInv`. The token an exchange
spends is in force (`ReadsAreFresh`). And what a replay has found, the tokens that
have come of the one presented, is all of its session that is in force: an
ancestor in force would contradict `AncestorsAreSpent`, and the presented token is
revoked and stays so (`ReplaysAreOfSpent`). That holds also of the early return of
`revokeFamily`, which has found nothing because nothing is left. `SessionsAreKept`
thus says more than that each step is one the abstraction allows: the last step of
a replay *is* `EndSession`. The walk itself cannot go in circles, with or without
overlap: links lead to newer rows (`LinksLeadForward`).

For any users, workers and limits as above, and any bound on the mail queue
(`MailAssumption`):

| Theorem | Says |
|---|---|
| `MailProofs!MailRefinesWaitlist` | `MailSpec => Spec` |
| `MailProofs!MailImplementsAllocation` | `"lower" \notin Env => (MailSpec => AllocatesSeats)` |
| `MailProofs!MailsHaveRows` | `MailSpec => []MailsFindTheirRows` |
| `MailProofs!MailTypeCorrect` | `MailSpec => []MailTypeOK` |
| `MailProofs!OwedMailsAreOnTheWay` | `MailSpec => []OwedIsOnTheWay` |
| `MailProofs!OnlyRedeliveryRepeats` | `MailSpec => []MailsAreNotRepeated` |

`MailRefinesWaitlist` carries over all that is proved of `Spec`, the refinement of
`SeatAllocation` and `RowInv` among it; `MailsHaveRows` follows from the latter and
from where a mail comes from, the commit of a promotion (`MailOrigin`). The invariant of
the mails, `MailInv`, adds that the job a worker has in hand is active and nobody
else's (`JobsAreHeld`): hence a job is sent, failed or completed by one process
only, a call and a job each count once in `owed`, and a mail that has been sent
is sent again only after the process that held it has died. `OwedIsOnTheWay`
counts the processes with a call of a booking in flight, which makes it the one
proof with cardinalities.

For any number of venues and requests, any names and any idempotent lower-casing
(`VenueAssumption`):

| Theorem | Says |
|---|---|
| `VenueProofs!TypeCorrect` | `Spec => []TypeOK` |
| `VenueProofs!UniqueNames` | `Spec => []NamesAreUnique` |
| `VenueProofs!DeletionIsFinal` | `Spec => DeletedStaysDeleted` |
| `VenueProofs!LoneRequestsAreRight` | `Spec => LoneRequestsGetTheirAnswer` |

`DeletionIsFinal` needs that the id of a creation under way is still unused
(`IdsAreNew`), `LoneRequestsAreRight` that what a request has read still holds
until another one writes (`ReadsHold`).

For any identities, requests, `max`, window of whole seconds and bounds
(`LimiterAssumption`, `WholeSeconds`):

| Theorem | Says |
|---|---|
| `LimiterProofs!TypeCorrect` | `Spec => []TypeOK` |
| `LimiterProofs!LimitHolds` | `Spec => []NeverMoreThanMax` |
| `LimiterProofs!RefusalsAreDeserved` | `Spec => []RefusalIsDeserved` |
| `LimiterProofs!RetriesLeadOut` | `Spec => []RetryAfterLeadsOut` |
| `LimiterProofs!CountersAreAttended` | `Spec => []CountersExpire` |

`NeverMoreThanMax` holds because until its window ends a counter has counted all
that were let through and all that still may be (`CountersAreComplete`), which
needs that no expiry falls into its window (`ExpiriesOutlastWindows`);
`RefusalIsDeserved` because a counter and the commands on their way to it add up
to no more than what was asked (`CountersAreDeserved`); `RetryAfterLeadsOut` is
arithmetic on quotients and remainders from `RequestsAreOfThePast`.

For any number of requests and writes (`CacheAssumption`):

| Theorem | Says |
|---|---|
| `CacheProofs!TypeCorrect` | `Spec => []TypeOK` |
| `CacheProofs!CreatesAreListed` | `Spec => CreatedEventsAreListed` |
| `CacheProofs!StaleEntriesWereRaced` | `Spec => []OnlyRacesLeaveStale` |

That contents and versions stay within their bounds needs what is still to be
written to be counted with what has been (`WritesFit`, `IncrsFit`).
`CreatesAreListed` rests on `PagesInv`: nothing is stored or fetched under a
version to come (`FutureIsEmpty`); as long as Redis serves, what is stored or
fetched under the current version is no older than the last create that has
returned, and what is under the key of a list request no older than the last one
before it started (`PagesSuffice`). A bump of the version moves on to a key that
is empty, so that the create that has made it may count as listed; a fetch reads
what is newer than either.

`CurrencyInv` adds, as long as Redis serves: from the invalidation of an update or
delete until its write, what it is going to change is not in the cache
(`EventIsDropped`, `PageIsDropped`), for whoever fetches it then is noted in
`raced` (`RacesAreNoted`). A write therefore finds nothing of the old content
stored or fetched; a create, which invalidates after it has written, is what
`Creating` exempts until its INCR moves on to an empty page.

Only model-checked: all liveness (`WaitersAreServed`, `RequestsFinish`,
`JobsFinish`, `PromotedAreMailed`, `RefreshesFinish`, `EntriesConverge`,
`LimitedRequestsFinish`, `ServerListens`), which the available provers do not
handle. Of `RequestsFinish` and `JobsFinish` the safe half is proved (see above).

## 5. Not modelled

The parts listed as `not_modelled` in `PROJECT.json`: HTTP plumbing, validation,
OpenAPI text, domain types, migrations, seed data, demo scripts and the unused
skeleton of an older `createBooking`. They keep no state of their own, or run
once. Access tokens are stateless: signing and verifying are functions of the
token, the secret and the clock. PostgreSQL, Prisma, BullMQ, Redis and the clock
are external: their definitions are marked so in the map and state what the code
relies on.

Partly modelled: of the events the capacity, the existence and, for the cache,
contents that are told apart, but not the columns and the filters and sorting of
the list; of the start-up that the server listens when the first connection to
Redis has been made (`Connect`). `server.ts:8` calls that connection fail-open:
`ServerListens` holds only if Redis comes to be reachable, for without it the
server never listens.

Not a property, though modelled, because nothing in the repository says otherwise:

* a mail goes out for a booking that has been cancelled since its promotion,
  because the processor does not look at the status;
* a failing enqueue after a cancel is logged and the seat offered to nobody;
  the runs of `FreeSeatsAreOffered` and `WaitersAreServed` have no such failure;
* a raised capacity frees seats and enqueues nothing (`src/README.md:56` has a
  promotion for cancels only); no run checks `WaitersAreServed` with a raise.

Nor is a counter whose EXPIRE was lost with its process ever removed:
`CountersExpire` says only that there is no other way for one to stay.

## 6. Plan

Done, in this order: `BookingStore`, `BookingService`, `WaitlistWorker` (the
race for seats), `SeatAllocation` and the refinement, the claims, their proofs,
those of progress among them; `RefreshTokens`, `TokenSessions` and their proofs; `EventCache`; `RateLimiter`, `ConfirmationMail`,
`Venues`, and proofs about these and the cache.

Left:

1. The claim that every newly confirmed booking is mailed (`PR_BODY.md:48-49`) as
   a run of its own over `ConfirmationMail`.
2. `EventCache` with two processes sharing one Redis, and with the organizer of
   the event, on whom a write decides from the cached copy.
3. The limiter as an implementation of one atomic counter per key and window,
   and processes whose clocks disagree.
4. `SeatsStayOffered` for one request and several workers. It needs an
   assumption on `JobAttempts`: with one attempt and two workers TLC refutes
   it (two free seats, two promotions that read the same oldest waiter; one
   commits, the other is refused, has no attempt left, and its seat stays
   unoffered), with two attempts and two workers it holds on three users and two
   seats. And the bounds of `JobsEnd` for the mail jobs.
