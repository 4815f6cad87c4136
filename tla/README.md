# CivicPulse in TLA+

Specifications, model checks and proofs about CivicPulse, a platform of six
Node.js services and a React client with which citizens file complaints and
learn what becomes of them. Paths below are relative to the repository root
(`apps/...`, `packages/...`).

To check a run: `tlc -workers 2 -config MCComplaintService.cfg
MCComplaintService` (each configuration names its module by its prefix). To
check proofs: `tlapm OutboxWorkerProofs.tla`, and so on for each module of
section 5.

## 1. The system

| Component | State | Operations | Talks to |
|---|---|---|---|
| gateway (`apps/gateway`) | request counters in Redis | verify token, check revocation, count requests, proxy | all services by HTTP, Redis |
| user-service (`apps/user-service`) | `User`, `RefreshToken`, `UserPreference` rows; revoked `jti` and profile cache in Redis | register, login, refresh, logout, profile | stream `user:events` directly |
| complaint-service, write path (`services/complaint.service.ts`) | `Complaint`, `StatusHistory`, `Outbox` rows | createComplaint, changeStatus | the outbox table |
| complaint-service, outbox worker (`outbox/worker.ts`) | `published` flags; ticks under way | processOutbox every 500 ms | outbox table, stream `complaints:events` |
| complaint-service, read path (`controllers/`, `cache/`) | detail and list cache in Redis | list, detail, invalidation | Postgres, Redis |
| complaint-service, media consumer (`events/consumers.ts`) | `MediaRef` rows | handleMediaEvent | stream `media:events` |
| shared-redis (`packages/shared-redis`) | consumer group, pending entries list, `processed:` keys | publishEvent, createConsumerGroup, startConsumer, startReclaimer | Redis streams |
| notification-service (`apps/notification-service`) | `NotificationLog`, `NotificationPreference` rows | handlers of two streams, preferences, read marks | mail server, both streams |
| admin-service (`apps/admin-service`) | `Department`, `Assignment`, `SlaRule` rows | assign, departments, SLA report, dashboard | complaint-service by HTTP, `complaints:events` directly |
| media-service | none | answers 501 | - |
| web (`apps/web`) | token store, refresh queue, query cache, state of pages | API client, pages, notification bell | gateway |
| seeds (`apps/*/prisma/seed.ts`) | a file of ids; rows of two databases | fill in the SLA demonstration | Postgres of two services |

The path that carries the system: a transaction of the write path leaves a row
in the outbox; a tick of the worker appends it to `complaints:events`; the
consumer loop of notification-service reads it and calls the handler, which
writes an in-app notification and sends mail; the bell of the web client polls
for the notification. admin-service and user-service publish without an outbox.

### What is hard

* *Concurrency.* Requests are concurrent transactions at READ COMMITTED with
  unlocked reads, or (admin-service, user-service) sequences of statements
  without a transaction; worker ticks overlap because `setInterval` does not
  wait; pods share a consumer group; cache readers and invalidations interleave
  at every `await`; tabs of a browser refresh one session; dialogs share state
  that late answers change.
* *Failure.* A process may die between any two awaits; an effect in one store
  (Redis, the mail server) is recorded in another (Postgres) in a later step
  that may fail by itself; Redis commands are sent again after a reconnect; a
  seed script is stopped and run again.
* *Ordering.* The outbox is read by `createdAt`, not by commit; a refused
  append lets later events overtake; a group created at `$` starts late; a
  fetch sent before a change may be answered after it.
* *Timeouts.* Transactions are rolled back after 5 s; pending entries are
  claimed after 30 s; idempotency keys live 48 h, cache entries 30 s, 60 s and
  5 min, a rate limit window 60 s unless its EXPIRE was never sent.

`PROJECT.json` lists the hazards line by line with the properties that watch
them.

## 2. What makes each part correct

* Write path: status, history and outbox change together or not at all; events
  are in the order of the changes; the audit trail ends at the current status;
  transactions end.
* Worker: only committed events are streamed; a row is marked only when its
  event is in the stream; every event gets there; first copies keep the order.
* Consumer: an entry is acknowledged only when its event has been handled and
  is handled once; faults strand a bounded number of entries and never stop a
  loop.
* Whole pipeline: every committed change is announced, once, in order.
* Caches: an entry is up to date, or about to be deleted, or was filled late; a
  list may lack what was committed after it was read.
* Notification: each outcome is recorded; a handler that throws has had no
  effect; only users change their preferences.
* Sessions: one live refresh token per session, and no more than one in addition
  for each refresh that ran beside another of the same token; reuse detection
  never strikes an undisturbed session; the tokens a logout came with are dead
  after it; nobody waits for a refresh in vain.
* Registration, assignment, departments: the answer agrees with the rows and the
  event, whatever failed in between.
* Rate limiter: the limit holds; a counter that never expires needs a crash at
  one point.
* Pages: what is submitted was chosen for the complaint on the screen; what a
  page announces is in what it shows or is being fetched; the latest news reach
  the citizen.
* Seeds: a rerun converges, and the demonstration shows what it is for.

## 3. The modules

| Module | What it is |
|---|---|
| `ComplaintStatus` | the enum and `VALID_TRANSITIONS` |
| `ComplaintLifecycle` | abstract: filing or changing is one step on status, history and owed events |
| `OutboxTable` | abstract: the outbox as contract between writers and worker |
| `ComplaintService` | the write path; implements `OutboxTable` and `ComplaintLifecycle` |
| `OutboxWorker` | the worker, on top of `OutboxTable` |
| `StreamConsumer` | a consumer group driven by shared-redis |
| `EventDelivery` | abstract: every change announced once and in order |
| `EventPipeline` | `ComplaintService`, `OutboxWorker` and `StreamConsumer` composed; implements `EventDelivery` |
| `ComplaintCache` | read path and cache |
| `NotificationService` | handlers, preferences and notification log |
| `AuthService` | gateway authentication and the token operations of user-service |
| `WebSession` | the tabs of a browser on top of `AuthService`: interceptor, queue, store, cookie |
| `Accounts` | registration and profiles of user-service |
| `RateLimiter` | the counter of the gateway |
| `CitizenDesk` | a citizen's pages and bell on top of `Accounts` and `RateLimiter` |
| `AdminService` | assignments and departments of admin-service |
| `SlaReport` | the SLA report on top of `AdminService` |
| `AdminDesk` | the administrator's pages on top of `AdminService` |
| `DemoSeed` | the seed scripts on top of `SlaReport` |
| `*Proofs` | section 5 |
| `MC*` | instances for TLC |

Operators marked "Mutant" are plausible bugs: with such an operator in the
place of the definition that follows it, the property named for the pair in
`PROJECT.json` fails. No specification uses them.

### ComplaintService

`tx[r]` is the transaction of request `r`; its `pc` names the last statement
executed. `InsertComplaint` is `tx.complaint.create`; `LoadComplaint` is
`findUnique` and `assertValidTransition`; `UpdateStatus`, `RecordHistory` and
`WriteOutbox` are the three writes; `Commit` makes them visible; `Rollback`
stands for an error, the 5 s limit and the death of the process; `RefuseChange`
for 404 and 400. What PostgreSQL adds: uncommitted writes are invisible, an
UPDATE waits for the row lock and then goes ahead (READ COMMITTED), a plain
SELECT never waits. A creation holds its row until it commits, so nobody can
change it before. `createdAt` is taken to order rows as they were inserted: the
value is produced when the row is, and ties of the millisecond clock between
rows of one complaint would need two transactions of it in one millisecond,
which the row lock and three round trips separate.

`outbox` holds the row of a transaction from its insertion on, with its state;
`n`, the ordinal of an event within its complaint, is a history field by which
properties identify events.

### OutboxTable and OutboxWorker

`StartTick` reads a snapshot; for each record in order, `Publish` is the XADD
and `MarkPublished` the UPDATE. `PublishUnanswered` is a command executed whose
answer is lost (`ioredis` sends it again: `maxRetriesPerRequest` is null),
`PublishRefused` an error answer, `MarkFails` a failed UPDATE, and `Crash` the
death of the process. The transactions are those of `OutboxTable`, which
`ComplaintService` implements (`OutboxContract`), so the worker is checked
against every writer that keeps the contract.

### StreamConsumer

Entries are positions in the stream, what they hold is an event, and an event
may be appended repeatedly. `Read` is XREADGROUP; `Check`, `Handle`, `Record`
and `Ack` are the steps for an entry; `EntryFails` is the inner catch and
`BatchFails` the outer one; `Crash` and `Start` a restart; `Reclaim` is
XAUTOCLAIM, which changes owners only because its result is dropped; `Expire`
the end of a key.

### EventPipeline

The module extends `ComplaintService` and instantiates the other two; each step
is a step of one of the three with the variables of the others unchanged. An event is named by its outbox row throughout. The group
exists in Redis from the start: what a first start of the system would miss is
in section 4.

### ComplaintCache

Each handler is a little machine: look up, query, fill, answer; or insert, then
commit or roll back; or change, then the two invalidations of `Promise.all` side
by side, the list keys one by one as SCAN meets them. Complaints are numbered by
`createdAt`, which the INSERT of a POST fixes (`InsertComplaint`), and are in the
table from the COMMIT on (`CommitComplaint`), so that of two POSTs the older may
appear later. `findMany` and `count` are taken as one snapshot; only the rows
matter to the properties. An entry remembers whether it was current when it was
cached, and a page which complaints were committed when it was read (history
fields): what `ListLacksOnlyLaterCommits` lets a list lack is what was committed
since, newer or older than what it shows.

### NotificationService

One handler per consumer loop at a time. `HandlerThrows` is the only step after
which an event is left to the group. `Send`/`LogSent` and their failures are the
same for mail and SMS, except that `sendSms` cannot fail. `sent` is the outside
world, `deliveries` and `owed` are history. A failed `sendMail` may have
delivered. Event `complaint.assigned` has only an in-app row.

### AuthService and WebSession

A token pair is a number in the order of issue; `tokens[n]` is the row of its
refresh token and the age of both. A call carries the token and the cookie of
the moment it is sent, and its `pc` names the last `await` passed. `FindToken`
is the scan of `rotateRefreshToken`: what it read decides between
`RevokeFamily` and `RevokeOld`, after which `IssueNext` stores the new row;
`ScanForLogout`, `RevokeOwn` and `FinishLogout` are `logout`, behind the
gateway's `RevokeAccessToken`. `RefuseUnchecked` is the 401 the gateway gives
when Redis does not answer; `Fail` is any other failure, with what was done
left done. Expiry follows the order of issue. A `jti` key outlives its token
(its time to live is at least what the token has left), so it is never removed.

`WebSession` is the page: `Enqueue` and `StartRefresh` are the two branches of
the interceptor for a 401, `FinishRefresh` its success branch, which up to the
`finally` runs without an `await`, and `AbandonRefresh` its catch. `Cut` is a
lost connection, after which the server goes on alone (`Discard`); `Reload` a
full load of the page, which starts from localStorage and leaves the calls of
the old page behind. The store keeps its token only: `isAuthenticated` is
having one. `disturbed` is history: the sessions in which a refresh token can
have been left behind or revoked for a reason, that is, with a logout, a failed
or unanswered refresh, or refreshes of two tabs at once. `NoFalseReuse` is about
all others. `LiveTokensAccounted` is about every session: `tokens[n].parent` is
the token that token `n` was given for and `since` how many tokens there were
when that refresh was sent (both history), so that a second token for one parent
is a *fork*, made by a refresh sent before the first had its token; the live
tokens of a session are one and at most one more for each fork.

### Accounts, RateLimiter and CitizenDesk

In `Accounts` every `await` of `register`, `getProfile` and `updateProfile` is a
step of a request, `at` names the next one, and `Fail` or the parameter
`"failed"` of a step is a failure before or after it. Rows and cached entries
say which request wrote each field. `unsafe` and `overtaken` are history: the
entries and the readers of which the code promises nothing, because an update
has failed midway or has ended after the reader's query.

`RateLimiter` has `Incr`, `SetExpiry` and the verdict as the steps of a request;
values above the limit are one value; `WindowEnds` is Redis dropping a key that
has a time to live; `GatewayDies` also stands for a rejected command, which
nothing catches.

`CitizenDesk` composes the two with RegisterPage, LoginPage, ComplaintFormPage
and the notification bell. Every request but a registration first passes the
limiter (`Arrive`, `Came`), then its service. `Submit`, `Submitted` and
`SubmitFailed` are the mutation of the form, which goes on when the page is
left; `Poll` and `PollEnds` are the query of the bell, of which only the latest
fetch counts (a fetch takes the first name that is free, `StartFetch`: names stand
for nothing); `Marked` is the success of a read mark and its
`invalidateQueries`. complaint-service, its events and notification-service take
one step each: the other modules say what those consist of.

`inbox` and `about` are the rows of the citizen's `NotificationLog` by their place
in the order of `sentAt`, IN_APP and other channels alike: `Notify` saves the row
of a new complaint (in any place that is free, since rows may be saved out of
order), `NotifyFails` stands for an event that is lost or whose row cannot be
saved, `NotifyMore` for the rows of mails, status changes and the welcome mail.
`ReadInbox` answers with the `Take` newest rows (50 in the code), the bell lists
the `Slice` newest of the answer (5), and only those can be clicked. A row about
no complaint has no `href`: a click on it marks it and stays on the page.

### AdminService, SlaReport, AdminDesk and DemoSeed

`AdminService` has the statements of `assignComplaint` and `createDepartment`;
the parameter `next` of a write is the step after it or the failure to learn of
its outcome. `SlaReport` adds `getSlaViolations` with its parallel reads, its map
of complaints already fetched and the cache of complaint-service behind
`fetchComplaintDetails`. `AdminDesk` adds the list page with its two dialogs, the
assignment form and the query `['admin', 'assignments']`: `Assigned`,
`RefetchAfter` and `Settle` are the awaits of `onSuccess`. As in
`@tanstack/query-core` 5.101.4 a fetch for one of them joins the one under way as
long as the query has no data, and gives it up for a new one later (`Fetching`).
Those who waited for a fetch that is given up are free to go on at once, where the
library lets some of them wait for the new one: the model has more interleavings
than the code, never fewer. `DemoSeed` adds the two seed
scripts, one action per statement, run in any order, stopped anywhere (`Stop`) and
run again while the services work (`Patch`, `ServeAssign`, `Report`); only the
seven upserts of departments, which nothing deletes while they run, are one step
(`UpsertDepartments`). `touched` and
`calm` are history: a status change since the seed was started, and a report
that nothing has disturbed.

## 4. The runs

| Run | Instance | Shows |
|---|---|---|
| `write_path` | 3 requests, 2 complaints, 5 outbox rows, fair | `OutboxMirrorsHistory`, `OutboxInCommitOrder`, `StatusIsLastRecorded`, `FromWasOnceTheStatus`, `WritersDoNotInterfere`; `TransactionsEnd`; implements `OutboxTable` and `ComplaintLifecycle` |
| `write_path_strict` | 2 requests on 1 complaint | **violated**: `StrictLifecycle` |
| `outbox_worker` | 3 rows of 1 complaint, 2 ticks, batches of 2, each fault once, fair | `OutboxGuarantee`, `FirstCopiesInOrder`, `CopiesBounded`; `EveryEventIsPublished` |
| `consumer` | 2 pods, batches of 2, 3 entries of 2 events, each fault once, fair | `AcknowledgedIsHandled`, `StrandedBounded`, `EventHandledOnce` (by each pod), `EntryHandledOnce`; `EveryEntrySettles` |
| `consumer_recovery` | handler throws once, fair | **violated**: `FailedEntryRecovered` |
| `pipeline` | 1 request, 2 rows, 2 ticks, 1 crash of complaint-service, fair | implements `EventDelivery`; `EveryChangeAnnounced` |
| `cache` | 2 complaints, 2 changes, 2 handlers, 2 lists, 2 page sizes, 1 failure | `DetailIsCurrentOrPurged`, `ListLacksOnlyLaterCommits` |
| `notification` | a registration delivered twice, an event on all channels, 2 log failures, others once | `LogTellsOutcome`, `ThrowingHasNoEffect`, `OnlyTheUserChangesPreferences` |
| `sessions` | 2 tabs, 2 requests and 2 refreshes at a time, 3 requests, 3 token pairs, 2 expiries, 1 fault, fair | `NoFalseReuse`, `LiveTokensAccounted`, `LogoutRevokes`; `QueuedIsSettled` |
| `admin_desk` | 2 requests, 2 complaints, 2 departments, 1 target status | `AnswersTell`, `OneCreatorOfAName`, `SubmitsWhatIsShown`, `ToastMeansListed` |
| `demo_seed` | 2 complaints, 4 runs of the scripts, 1 status change, 1 assignment | `RerunConverges`, `DemoShowsViolations` |
| `citizen` | 2 requests, 2 fetches, 2 rows, answers and lists of 1, limit 2, 1 fault, fair | `LimitKept`, `LockedOutOnlyByCrash`, `RegistrationTells`, `StaleOnlyByLateFill`, `DeskTellsTheTruth`; `ToldEventually` |

*Bounds.* `MaxRows` and `MaxEntries` cap what is inserted or appended,
`MaxChanges`, `MaxFailures`, `MaxDeliveries`, `MaxRuns` what is tried, and
`FaultBudget` or `MaxFaults` how often faults happen; `Ticks` caps overlap and
`BATCH`, `BatchSize`, `Limits` stand for 50, 10 and up to 100, `Limit` for the
requests of a window. They are enough because the interactions are between
pairs: two writers of a complaint (a third one, for lock queues), two ticks with
overlapping snapshots, a batch with an entry after the one that fails, an event
and its copy, a list with a row in and a row out, a request and the refresh it
waits for, two refreshes of one token, two registrations with one address, an
updater and a reader, a fetch and the one that replaces it. In `demo_seed` four
runs are a failed and a finished one of each script. In `citizen` two fetches at
a time spend the limit of two, so that a refusal, an orphaned counter and a dead
gateway all happen. `Take` and `Slice` stand for 50 and 5 and are smaller than the
log, so that a new row drives another out of the answer and the list; a row that
is in the answer and not in the list takes a third row, and is left to the proofs,
which hold for any `Slice` up to `Take`. A row can be about a complaint or about
the citizen.

`MaxSends`, `MaxTokens`, `MaxAge` and `MaxFaults` bound a browser's history:
three requests are a login and any two others side by side, three pairs a login
and two rotations, and a fault may fall anywhere, a reload being one. A rotation
that reaches `MaxTokens` fails as on a database error; `Rest` is the end of a
history within the bounds, the one action that stands for nothing in the code.
The fault budgets are parts of the properties themselves (`CopiesBounded`,
`StrandedBounded`, `LogTellsOutcome` count against what was spent), so the
statements are about any budget and not about "at most one". Symmetry is used in
`cache`, `admin_desk` and `demo_seed`, which check invariants only, never with a
liveness property. No configuration turns deadlock checking off.

*Fairness.* Statements after the row lock never wait: weak fairness. The row
lock is granted in the order of its waiters: strong fairness of `UpdateStatus`.
The interval of the worker fires for ever and a tick continues: weak fairness
of `StartTick`, `Publish` and `MarkPublished`; a crash loses the tick and not
the interval. Pods are restarted (`restart` policy of the orchestrator) and a
loop takes its next step: weak fairness of `Start` and `LoopStep`; the
reclaimer's interval: weak fairness of `Reclaim`. The gateway answers every
call (a handler ends or throws, an unreachable service is a 503), the browser
runs the callback of every answer and carries out a navigation: weak fairness
of `Serve` or `Fault`, of `Deliver`, and of `Reload` once it is due. In
`CitizenDesk` the `refetchInterval` fires for ever, Redis drops an expiring key,
limiter, notification-service and browser take their next step for a fetch, and
an event arrives. Nothing obliges requests to arrive or faults to happen, and
faults are finite in number.

### Where code and documentation differ

1. `StrictLifecycle` (`complaint.service.ts:149`): two requests may both pass
   the check on the same status, and the second moves a complaint from a status
   where its transition is not legal. `FromWasOnceTheStatus` is what remains
   true.
2. `FailedEntryRecovered` (`shared-redis/src/index.ts:156`): the reclaimer
   drops what it reclaims. `StrandedBounded` says how much is lost.

### Observations

Recorded here, and allowed by the models where their state shows them; there is
no run for them.

* A group starts at the end of the stream (`shared-redis/src/index.ts:49`): what
  was published before its creation is never announced.
* Idempotency keys are looked up and set in separate commands (`:105`), so two
  pods may both handle an event.
* A late reader fills the list cache after the invalidation
  (`complaint.controller.ts:85`), and the list is stale for up to 60 s. The page
  size is not part of the list key (`complaint.cache.ts:72`), so a hit may be a
  page of another size.
* No POST invalidates a list, and of two POSTs the one with the older `createdAt`
  may be committed later (`complaint.service.ts:41`): a list cached in between
  lacks a complaint in its middle, not only at its top, until it expires.
* A SENT row that cannot be written is followed by a FAILED one although the
  message has gone (`email.dispatcher.ts:63`).
* Two tabs that refresh at once may be taken for reuse, which logs both out
  (`auth.service.ts:125`). If both pass the check before either revokes the token
  (`:110-142`), both store a new one: the session then has two live refresh
  tokens, of which the browser keeps the one whose answer comes last, and the
  other lives until it expires or its family is revoked. A refresh that rotates while a logout scans is missed
  by it and leaves a live token (`auth.service.ts:153`). The store's user is
  asserted, not checked, after a refresh (`client.ts:58`).
* The root `README.md:69` promises an outbox; registration and assignment
  publish directly. A registration whose publish fails has made the account: a
  second attempt gets 409. An assignment whose publish fails leaves its row, and
  a second attempt makes another.
* `updateProfile` answers with values that may never have been in the table
  together (`user.service.ts:62-90`). The preferences it stores and those of
  notification-service are two unrelated tables.
* The rate limiter's comment says "sliding window"; the window is fixed, and
  around its end twice the limit may pass. A gateway that dies between INCR and
  EXPIRE locks its user out for good (`ratelimit.middleware.ts:21`).
* `AssignmentPage` invalidates the complaints and not the assignments: the list
  it leads to is stale for up to a minute. The success of an assignment closes
  whichever dialog is open and clears the selection. Leaving and entering the
  list during a mutation can show an older fetch after the toast. The list has
  the first 20 complaints only.
* A submission that succeeds takes the citizen away from whatever page is shown;
  one that fails after the form was left is silent, and a retry after a lost
  answer files a second complaint. Logout does not clear the query cache.
* The bell lists the five newest of the fifty rows it asks for
  (`NotificationBell.tsx:53`, `notification.controller.ts:33`), and the rows of mails
  are among them: every mail takes a place beside the in-app row of the same event,
  so the bell shows two or three complaints at a time. An unread row that five newer
  ones have pushed out can be neither seen nor marked, and stays in the badge.
* An in-app row that cannot be saved is logged and not tried again
  (`notification.service.ts:38-45`).
* The SLA report answers 404 as a whole while an assignment refers to a
  complaint that is gone. The seeds do not purge the detail cache, so a report
  within 30 s may be wrong. A status change between the statements of the seed
  makes it fail on a foreign key.
* The gateway's `/health` is always degraded, user-service having none.

## 5. The proofs

Every theorem is about the specification of a module, for all values of the
constants under the module's assumptions, which TLC evaluates in its runs. Those
say what a constant stands for (`MaxRows`, `BATCH`, `Limit` and the budgets are
numbers, `None` and its like are none of the values beside which they stand,
`Targets` and `Filters` are of the enum, `Home` is not a legacy department) and,
where something is counted, that it can be: `Ticks` and `Pods` are finite
(`TicksAssumption`, `PodsAssumption`, and with the other assumptions of the parts
`WorkerAssumption` and `ConsumerAssumption` of the pipeline), and complaints of
the read path are numbered up to `MaxComplaints` (`ComplaintsAssumption`).

Every invariant that a passing run checks is proved, and so are its refinements.
One module holds the proofs of a part of the system and of what is built on it.

| Module | About | Shows |
|---|---|---|
| `EventPipelineProofs` | `ComplaintService`, `EventPipeline` | the write path's invariants; implements `ComplaintLifecycle`, `OutboxTable`; the pipeline implements its parts and `EventDelivery` |
| `OutboxWorkerProofs` | `OutboxWorker` | guarantee, order, number of copies |
| `StreamConsumerProofs` | `StreamConsumer` | nothing lost unseen, nothing handled twice, both within bounds |
| `ComplaintCacheProofs` | `ComplaintCache` | what a stale entry can be |
| `NotificationServiceProofs` | `NotificationService` | log and messages agree |
| `WebSessionProofs` | `AuthService`, `WebSession` | reuse, rotation, logout |
| `CitizenDeskProofs` | `RateLimiter`, `Accounts`, `CitizenDesk` | each part, and both behind the pages |
| `AdminDeskProofs` | `AdminService`, `AdminDesk`, `DemoSeed` | the service, alone and behind the pages; the pages; the seeds |

`EventPipelineProofs`, write path: the tables' properties are not inductive by
themselves; that a commit leaves them true depends on what the transaction knew
when it wrote its row. `IInv` adds that knowledge as `WritersDoNotInterfere`: at
most one transaction holds the row of a complaint (`LockExclusive`); its own
outbox row carries the ordinal that is still next, and comes after every
committed row of the complaint (`TransactionOK`); and the status it started from
is one the complaint has had. There is one lemma per action; actions that touch
only `tx` go through `TablesUnchanged` and `OthersUnchanged`, the two that end a
transaction through `OwnRow`, `RowsDiffer` and `RowUpdated`. From `IInv` follow
both refinements. For `ComplaintLifecycle` a commit is `File` or `Change`, the
event it adds to `Owed` being the one `TransactionOK` describes, and every other
statement a stutter. For `OutboxTable` the insertion of the row is `Insert`, a
commit `CommitRow` and a rollback `AbortRow`; that takes `TableInv`: every
uncommitted row has its transaction (`PendingOwned`, so that the row lock leaves a
complaint one such row at most), and the committed rows of a complaint are as
many as its changes and its creation (`EventsCounted`, so that the ordinal of the
new row is their number).

*The pipeline.* Its behaviours are behaviours of `ComplaintService`
(`PipelineRunsService`) and of `OutboxWorker` with the outbox reduced to what the
worker reads (`PipelineRunsWorker`), so everything proved of these two holds in
it. Where `OutboxTable` may insert a row only below `MaxRows`, the write path
stops requests at their start: `RowsReserved` says that every transaction under
way has room left. `PipelineDelivers` is the refinement of `EventDelivery`: the
outbox has the events of a complaint in the order of its changes, first copies
keep the order of the outbox, the subscriber goes through the stream in turn and
passes over a copy because of its key, hence each handling is an `Announce`. It
is proved under `CarefulSubscriber`, which is what the property claims and no
more: notification-service is one pod, which fails at most to acknowledge, its
keys do not expire and Redis refuses no XADD. Beyond that the code does not keep
it: a second pod may overtake the first, what a handler that throws or a crash
leaves behind is passed over, a copy is handled again after its key has expired,
and a refused command is overtaken by later events. Transactions, rollbacks,
overlapping ticks, crashes of complaint-service, resent commands and failing
UPDATEs are unrestricted. The hypothesis holds of the run `pipeline`.
Without the hypothesis there is `PipelineHoldsUp`: for any number of pods and any
faults of every part, nothing is announced that was rolled back, an event has a
bounded number of copies and of handlings, nothing is acknowledged unhandled, and
what is left behind is an entry or a batch for each fault.

`OutboxWorkerProofs`: `OutboxGuarantee` needs to know that a tick between XADD
and UPDATE has sent its record (`Sound`). `FirstCopiesInOrder` holds as long as
Redis refuses nothing, because a row is inserted when its complaint has none in
progress (`SettledBefore`) and a snapshot that holds a row holds every older
unpublished one (`NothingOvertaken`). `CopiesBounded` counts copies at any time
and says nothing of the ticks that are still to send one. `Accounted` charges
each copy to a tick or to a fault: before the row is marked, copies are at most
the ticks that have sent it and not marked it (`HaveSent`), plus `Excess`;
afterwards copies and ticks that still have it in a batch (`Waiting`) are together
at most all ticks, plus `Excess`. A tick that has the row still to send can only
have read it before it was marked, so nothing enters the second balance.

`StreamConsumerProofs`: batches are disjoint and pending (`Owned`), an entry of a
batch has been handled only while its loop is between handler and
acknowledgement (`Placed`), and a key stands for an earlier handling
(`Remembered`). From these `EntryHandledOnce` and `AcknowledgedIsHandled`. The
bounds are balances again (`CountInv`). An entry pending in nobody's batch is
charged to the fault that left it there, and one fault leaves a batch at most. A
handling of an event is charged to the pod that has not set its key yet
(`HaveHandled`) or to a fault; once the key is there, handlings and the pods that
looked before it was (`AboutTo`) are together at most the pods there are, plus
the faults. From these `StrandedBounded` and `EventHandledOnce`. `InTurn` is for
the pipeline: what the single pod has been delivered it has handled or has in
hand, and what it is about to handle it has not handled before.

`ComplaintCacheProofs`: `DetailIsCurrentOrPurged` and `ListLacksOnlyLaterCommits`
are inductive with the types once it is known that a complaint is committed once
(`Numbered`) and that a page knows only of what is committed (`KnownIsCommitted`).
The work is in what a page is: the newest rows that match, at most so many.
`FullPage` shows that such a set is all there is or full, which is why a page that
was right lacks only what was committed since or is older than a full page; it
needs a minimum of a finite set, not induction.

`NotificationServiceProofs`: both properties compare counts at the end of a
handler, and hold in between only if what the handler has in hand is counted too.
`Stage` says how far it has come with a channel, and `InAppLedger` and
`MessageLedger` balance rows, messages, handlers that returned and faults by it;
a message that has failed once has already spent the first of the two faults
that a missing row takes. From these `LogTellsOutcome` and `ThrowingHasNoEffect`,
and from the types `OnlyTheUserChangesPreferences`, for any events, deliveries
and numbers of faults.

`WebSessionProofs`: the invariant has three parts. `ServerInv` says what a call
holds at each `await` of user-service (a refresh that is rotating has revoked its
token, a logout past the scan has revoked the session's); `PageInv` ties what a
page waits for to the call that will answer it. `Ledger` is about the sessions
with nothing against them (`disturbed`): a logout disturbs its session from the
start (`LogoutsDisturb`); there is one refresh of such a session at a time
(`RefreshesAlone`), which has the live token or is replacing it (`RefreshHolds`);
the cookie of the browser, if it is of that session, is alive or being replaced
(`JarHolds`); nobody else has the token of a login not yet answered (`JarFresh`,
`LoginsFresh`); and one token of the session at most is live (`OneLive`). The
first two parts are inductive without the third. From them `NoFalseReuse` and
`LogoutRevokes`, for any number of tabs and calls. For `LiveTokensAccounted`,
`Forking` adds what a refresh that has passed the check knows: a token its own was
given for meanwhile was stored after it was sent, and only in a disturbed session
(`PassedBeside`). That the live tokens of a session are at most its forks and one is then a
count: each of its tokens but the first and the forks was given for a token of its
own, and that one is revoked.

`CitizenDeskProofs`: of `RateLimiter`, one request at most is between INCR and
EXPIRE (`OneSetter`), and room is left for it (`Counted`); from these `LimitKept`
and `LockedOutOnlyByCrash`. Of `Accounts`, `MadeByPublisher` says which requests
have made an account, `ReadersFollow` that what a reader is about to cache is the
present row unless an update is at work or has ended since; from these
`RegistrationTells` and `StaleOnlyByLateFill`. The composition implements
`RateLimiter` (`TheDeskIsLimited`) and keeps the invariant of `Accounts`
(`AccountsAtTheDesk`), so the four properties hold behind the pages as well.
`DeskTellsTheTruth` needs `DeskInv`, which says of the log and of the answers on
their way what the property says of the screen (`NewsIsTrue`, `AcksTell`), and of
a read mark that it is in the log before the page hears of it (`MarksTell`).

`AdminDeskProofs`: `Progress` says which requests have a row, `NamesKept` that
names stay; from these `AnswersTell` and `OneCreatorOfAName`. The pages implement
`AdminService` (`DeskCallsTheService`): what stands in a form is always something
the service may be asked. For the pages themselves, `OneDialog` and `OnItsPage`
say which choices are alive, whence `SubmitsWhatIsShown`; `ToldWhenAssigned` and
`FetchedAfter` follow a mutation from its answer to its toast (it waits for a fetch
that has its row or, before its second fetch, for a first one it has joined) and a
fetch from what it has read to what it shows, whence `ToastMeansListed`. For the seeds,
`ComplaintsSeeded` and `AdminSeeded` say at every statement what the later ones
and the foreign keys rely on, `Named` that a request writes rows of complaints
that exist, and `Reported` that in an undisturbed report every demo complaint is
a violation already or still has its back-dated row in the list; whence
`RerunConverges` and `DemoShowsViolations`.

*Model-checked only.* The temporal properties that need fairness, because the
prover knows neither ENABLED nor fairness: `TransactionsEnd`,
`EveryEventIsPublished`, `EveryEntrySettles`, `EveryChangeAnnounced`,
`QueuedIsSettled`, `ToldEventually`. That no run deadlocks. And the two
counterexamples of section 4, which are behaviours, not theorems.

*Next.* An abstract delivery that allows what a less careful subscriber does, a
change announced again or passed over and charged to a fault, as the
specification that the pipeline implements without `CarefulSubscriber`;
`PipelineHoldsUp` has the invariants for it.

## 6. Not modelled

* media-service is a stub. The handler of `media:events` is never called, no
  service producing such events; its loop is an instance of `StreamConsumer`.
* The dashboard summary of admin-service counts what other operations return and
  caches the numbers for a minute; the four numbers are read one by one and need
  not belong together, and nothing says they do.
* Pages that only render what a query returns (lists, details, dashboards, SLA
  page), layout, form validation, formatting, logging, schemas, the wording of
  messages, `pushEnabled`: no behaviour the properties could speak about. The
  admin routes check roles from the token alone.
* Entries without a `data` field or with JSON that cannot be parsed: every
  producer goes through `publishEvent`.
* Time is abstract: what expires may expire at any moment, and the head-of-line
  delay of one Redis connection shared by blocking reads and everything else has
  no state. The sliding of an SLA deadline is abstracted to rows that are overdue
  from the start.
* A consumer group that cannot be created at start-up (`server.ts:24`): nothing
  retries it, and the models start after it.
* The two seed scripts at the same time; containers and CI.
