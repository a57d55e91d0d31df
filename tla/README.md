# blueMQ in TLA+

blueMQ is a multi-tenant notification service: an Express API, BullMQ queues in
Redis, one worker per channel (push, email, sms, whatsapp, call, in-app), a
poller for scheduled notifications, a poller for outgoing webhooks and a sweep
of stale quota reservations, all over one Postgres database.  Any number of
processes run the same code (`PROCESS_MODE` all, api or worker).  This directory
holds the TLA+ modules that model it, the TLC configurations that check them on
small instances, and the proofs of their main safety properties for every value
of the constants.  Paths below are relative to the backend, which is `src/src/`
in `PROJECT.json`.

    tlc -workers 2 -config MCDelivery.cfg MCDelivery      # a run
    tlapm Delivery_proofs.tla                             # the proofs of a module

## 1. The system

| Part | State | Operations | Talks to |
|---|---|---|---|
| quota accounting (`utils/quota.js`) | `quota_usage` (two counters per owner, channel, period), `quota_reservations` (a row per notification and channel) | reserve, settle, release stale, look up a limit | called inside the transactions of everyone below |
| submission (`api/routes/notify.js`, `queues/enqueue.js`) | `notifications`, the BullMQ queues | guard the parent, look for a key or a recent twin, choose a template, reserve, insert, enqueue one job per channel | quota, queues |
| channel workers (`workers/base.worker.js`, `whatsapp.worker.js`) | `notification_logs`, `notifications.status`, the reservation | attempt, commit success or rejection, log a transient failure, give up, look for `notification.final` | providers, quota, webhook table |
| providers (`providers/`, `api/routes/settings.js`) | credentials row, per-process caches, one Firebase app per process | choose, build recipients, post, classify the answers | external services |
| stale sweep (`workers/quota-stale.worker.js`) | reservations, counters, status of orphans | every 5 minutes | quota |
| webhook delivery (`workers/webhook-delivery.worker.js`, `api/routes/webhook-config.js`) | `app_webhooks`, `webhook_deliveries` | enqueue an event, claim, post, record, back off; configure; retry | the app's endpoint |
| schedules (`workers/scheduled-notification.worker.js`, `api/routes/schedules.js`, `utils/compute-next-run.util.js`) | `scheduled_notifications`, `schedule_execution_logs` | tick: lock due schedules, ask the data source, write, commit, enqueue; create, patch, delete, trigger | data sources, quota, queues |
| quota administration (`api/routes/quota.js`) | profiles, limits, owners | CRUD, default profile, bulk assignment | per-process cache of `appHasQuotas` |
| WhatsApp sessions, templates, aliases | `whatsapp_sessions`, `whatsapp_meta_templates`, `template_alias`, Redis keys with a time to live | configure, choose the fallback, resolve, synchronise, map variables, invalidate | Meta, Redis |
| templates, audiences, inbox (`api/routes/`) | `templates`, `audiences`, `audience_members`, `notifications` | edit, choose; import, broadcast; read, page | the notify handler |
| live push (`ws/index.js`) | rooms of sockets per process | connect, heartbeat, broadcast over Redis | browsers |
| security middleware (`utils/redis-security.js`, `api/middlewares/`) | counters, cooldowns, bans in Redis | count, score, block | every request |
| registration and login (`api/routes/auth.js`, `apps.js`) | `otps`, `apps` | ask for a code, verify it, get a key | e-mail |
| database access (`db/index.js`) | the pool, its replacement timer, the closed flag | query with retries, replace, close | everyone |
| the rest | | logging, metrics, health, helpers, wiring, the dashboard | |

What is hard in it:

* **several writers of one row.**  The status of a notification is written by
  the workers of all its channels, by the submitter whose enqueue failed and by
  the sweep, each with its own condition.  Routes read a row, compute from it and
  write it back without a lock (schedules, templates, default profile).
* **denormalised counters.**  `quota_usage` is never recomputed; a settlement
  against the wrong period, a second one or a sweep racing a late success would
  be wrong for ever, and `GREATEST(0, ..)` would hide it.
* **at-least-once jobs.**  A job is attempted again after a failure, after a
  lost answer to COMMIT and after a stall, over rows that may be written already.
* **events decided by reading back.**  `notification.final` goes out when a
  worker, after its own commit, finds a log for every channel.
* **one transaction around many schedules** with calls of foreign services in
  the middle, and work (the enqueue) that must follow the commit.
* **leases.**  A claimed webhook row comes back after an hour, whoever holds it.
* **caches** in Redis and per process, filled from what was read before an
  invalidation, and told of changes by one process only.
* **handlers of many statements**: requests interleave between any two, and a
  failure leaves the first ones done.

What makes each part correct is stated in section 3, by run.  The hazards, each
at its line with the properties about it, are listed in `PROJECT.json`.

## 2. The modules

| Module | Models |
|---|---|
| `Ledger` | abstract: what quota accounting promises, with the rows only |
| `Quota` (extends `Ledger`) | `utils/quota.js` with the two counters; implements `Ledger` |
| `Delivery` (extends `Quota`) | submission, channel workers, sweep, BullMQ's retries and stalls |
| `QuotaAdmin` | the quota routes statement by statement, `resolveLimit`, the cache of `appHasQuotas`, reservations under changing limits |
| `Intake` | abstract: what `POST /notify` promises about keys |
| `Submission` | the handler of `POST /notify`; implements `Intake` through `TheIntake == INSTANCE Intake WITH ..` |
| `Dispatch` | the providers: recipients, requests, answers, result |
| `Credentials` | the credentials row, its cache in each process, the Firebase app |
| `WebhookDelivery` | the webhook poller, its table, configuration and retry routes |
| `Schedules` | the schedule poller and POST, PATCH, DELETE as single steps |
| `SchedulePatches` | PATCH of the timing, statement by statement, beside the poller |
| `ManualTrigger` | `POST /schedules/:id/trigger` |
| `NextRun` | `compute-next-run.util.js` over zones whose clocks change |
| `WhatsAppSessions` | sessions, fallback, its cached entity, the search over parents |
| `WhatsAppTemplates` (extends it) | sync with Meta, creation, marking after a refused send, lookups |
| `TemplateResolution` | type to alias to mapping to row, one by one or in a batch |
| `TemplateVariables` | variables to parameters: mapping, refusing, sending |
| `Templates` | the app's templates: POST with merge, PUT, DELETE, the choice |
| `Audiences` | members, imports, broadcasts |
| `Inbox` | read, remove, pages with a cursor |
| `LivePush` | sockets, rooms, heartbeat, broadcast |
| `Gateway` | the chain of middlewares, command by command |
| `Accounts` | codes and registration |
| `DbPool` | pool, retries, replacement, shutdown |
| `MC*` | instances for TLC |
| `Quota_proofs`, `Delivery_proofs`, `WebhookDelivery_proofs`, `QuotaAdmin_proofs` | the theorems about the module of that name |
| `Schedules_proofs` | those about `Schedules`, `SchedulePatches`, `ManualTrigger`, `NextRun` |
| `Api_proofs` | those about `Submission` (and `Intake`), `Accounts`, `Templates` |
| `Messages_proofs` | those about `Audiences`, `Inbox`, `WhatsAppSessions`, `WhatsAppTemplates`, `Dispatch`, `TemplateVariables` |
| `Runtime_proofs` | those about `Gateway`, `DbPool`, `LivePush`, `Credentials`, `TemplateResolution` |

**Quota.**  `used` and `reserved` are the two columns of `quota_usage` by channel
and period, `resv` the row of `quota_reservations` by notification and channel.
`ReserveForChannels`, `SettleOnClient`, `ReleaseStaleReservations` are the
functions of those names; each runs in one transaction that locks the counter
rows it changes, so each is one step.  `NewPeriod` is the day or month turning.
The limits are constants, and there is one owner: rows of different owners never
meet in a statement (`QuotaAdmin` has owners and limits that change).
`QuotaSpec` on its own has no run: TLC checks the same operators inside
`Delivery`, and the proofs use `QuotaSpec`.

**Delivery.**  `status`, `expected` and `logs` are columns of `notifications` and
the rows of `notification_logs` (kept as a set: nobody counts them), `hook` is
the status in the live `notification.final` row.  A job is a program counter per
notification and channel (`job`), with BullMQ's `attempts` and `stalls`; between
the commit of a worker and its check for `notification.final` the row that
`UPDATE .. RETURNING` gave it is kept in `row`, which is how stale payloads
arise.  `SubmitScheduled` is the scheduler's order (insert, reserve, commit,
enqueue), `SubmitNotify` that of `POST /notify` (reserve, insert, enqueue), with
what the foreign key makes of it; each is one step because nobody else knows the
id yet.  `FireFinal` reads the logs and inserts in one step, which loses nothing
as the logs only grow.  `TxFails`, `AckLost`, `CheckFails`, `EnqueueFails`,
`SubmitterCrashes` and `WorkerCrashes` are the faults.  A stall of a live worker
is modelled as the loss of that worker's job.  A reservation's age is a free
choice: `Sweep` may take any set of held rows at any time, which covers every
timeout setting and every `LIMIT 200`.

**QuotaAdmin.**  A request is a program counter over its statements.  `orphaned`,
`undefaulted`, `outdated`, `moved` and a request's `late` and `raced` are history:
they record why a promise may be off, so that the properties can say that nothing
else makes it so.  Within a bulk assignment the order of the owners decides only
which are reported, so it is the choice of a set.

**Submission.**  Time passes in two steps, the ten seconds of the burst check and
the 24 hours of a key.  A key and an event id are sequences cut at their colons,
and `QualifyIdempotencyKey` joins them as the code does (301-302): two pairs may
give the same text, and where the two exceed 255 characters (`TooLong`) or the key
mentions the event (`Mentions`, 276-279) the key stays as it is.  `Wording` says
which channels of a template have the same text: the burst check compares the text
of the first channel asked for (616-623), while the INSERT stores that of the first
channel the quota left (670-672, 692-707).  What the tests of the code do not show:
the burst check compares `data::text` with `JSON.stringify`, which never agree for
a non-empty object; after 24 hours the index still holds a key, so it answers 500
(the branch for 23505 at 713 is dead since `DbError` hides the code); and after a
failed enqueue a repeated request is answered 202 `deduplicated`.

**Dispatch.**  Recipients are numbers, spelled in more than one way.  Accepted
without an id counts as a failure with several recipients and as a success with
one; partial successes are never retried; an error that carries no `retryable` is
retried to the end.  `RepeatsAreExplained` is what remains true of repeats.

**Credentials.**  The cache of a process is filled by a lookup that may be under
way when it is cleared; other processes learn of a change after five minutes, and
keep their Firebase app for as long as they live.

**WebhookDelivery.**  A row is its event, status, attempts and what delays it
(`wait`: due, a backoff, the hour's lease).  A worker has a batch with the number
of attempts it read (`holding`), posts one row at a time and writes the result
with an UPDATE of its own.  A live worker finishes a batch (20 requests of 15 s)
within the hour, so `LeaseExpires` needs that nobody holds the row;
`LeaseOutlived` is the fault of a process stopped for longer.

**Schedules.**  A tick is a transaction (`tick`: open or aborted) over the
schedules it locked (`work`), the jobs it collected (`jobs`) and, after COMMIT,
the loop that enqueues them.  The notifications of one schedule in one tick are
one batch.  A run is the occasion a `next_run_at` stands for; `sent` counts the
batches enqueued per run (up to 2), `ghosts` holds the runs enqueued although
their transaction was rolled back, `logged` the runs in the execution log.
`Poisoned` schedules are those whose data the database refuses: for example
`template_key` is TEXT of any length (migration 012, line 42) and becomes
`notifications.type`, VARCHAR(128) (`schema.sql`, line 143).  `Throwing` schedules
are those whose data source may answer with an item `null`: the worker throws on it
(353-355) and again in the catch block of the item (644-646), so that only the
catch block of the tick counts a retry (`RunThrows`), as often as it likes and
without any fault.  PATCH and DELETE wait for the row lock of the tick.
`PatchSchedule` is one step, the UPDATE: the `status` it writes is the body's, and of
the row read before only the timing is used.  What becomes of that between read and
write is the subject of `SchedulePatches`; there `next_run_at` is the timing it was
computed from, and `NextRun` says what is computed.  Left out is a PATCH that
computes a time of day just before it comes and writes it after the tick that
served it: the run it asks for is a new run to `Schedules`.

**WhatsAppSessions, WhatsAppTemplates.**  A request's transaction is one step and
the invalidation after it another; a lookup's read and its write to the cache are
two.  A page of Meta's list is one template.  An error other than 429 after the
first page leaves a partial list counted as whole
(`whatsapp-template.js:822-830`), so its prune drops living templates: that is the
exception in `LivingTemplatesAreKept`.

**LivePush.**  A socket that closes during the awaited lookup stays registered
until a heartbeat finds it dead.  The channel loses and reorders messages.

**Gateway.**  `hits` and `window` are per limiter: the global one, that of `/auth`
(per address, 15 minutes) and that of `/notify` (per key prefix, 1 minute) each
have a counter and a window of their own; the limiter of the manual trigger, the
same code once more, is left out.  A threat record that the code does not await
goes on `beside` its request (the request filter's), one it awaits runs `within`
it, so a request may have one of each.  A key that cannot be looked up because the
database fails is answered 500 and counted nowhere (`auth.js:50-52`); any Redis
command may fail, with the answer the code falls back to.  Points may be 0
(`security.config.js:212-218`): INCR then adds a point that INCRBY takes back, and
`lent` counts the points added and not taken back yet.

**Templates, Accounts, Inbox, Audiences, NextRun, TemplateVariables,
TemplateResolution, DbPool, ManualTrigger** are statement by statement (or
command by command) translations; the head of each module says what is left out.

## 3. The runs

| Run | Shows | Bounds |
|---|---|---|
| `delivery` | `CountersMatchRows`, `WithinLimit`, `ChargeMatchesLog`, `StatusBackedByLogs`, `FinalIsEarlyForRetriesAlone`, `DeliveredStays`, `ImplementsLedger` | 2 notifications, 2 channels (one with a limit of 1, one that needs a session), 2 jobs, 2 attempts, 1 redelivery, 2 faults, 2 periods |
| `live` | `EveryReservationSettles`, `FinalWhenAllSent`, `EveryDeliverySettles` | 1 notification on both channels, 2 attempts, 1 redelivery, 1 fault; or 1 webhook row, 2 processes, 2 attempts, 1 retry request, 2 faults |
| `schedule` | `RunsAreSentOnce`, `InactiveStaysInactive`, `EveryDueScheduleIsSettled` | 2 pollers, a one-time and a recurring schedule, the second with a data source that may answer `null`, 2 runs, 1 PATCH, 1 fault |
| `whatsapp` | `CachedFallbackIsCurrent`, `ResolutionIsNearest`, `LivingTemplatesAreKept`, `TemplateOwnerSends` | 3 entities with any parents, 2 templates, 2 admins, 2 lookups, 2 syncs, 1 creation, 1 send; 3 requests, 1 change at Meta, 2 syncs |
| `quota_admin` | `DefaultLossIsExplained`, `DeletionSparesOwners`, `QuotaFlagIsCurrent`; `OneLiveRowPerEvent`, `SendersAreReissues` | 2 profiles, 2 owners (one refused), 2 requests of any kind, 2 processes, 1 fault; or 2 webhook rows of 2 events, 2 processes, 2 attempts, 1 retry request, 1 fault |
| `submission` | `AnswersNameTheirOwn`, `FreshTwinsRaced`, `OneParentPerEntity`, `ImplementsIntake` | 2 requests and an edit of the template, or 3 requests with keys alone; 2 keys that become the same by their colons or by their length, 3 payloads, 2 channels of which the quota takes some, an entity or none, 2 parents |
| `gateway` | `BansAreEarned`, `ConditionsDecideAlone`, `CodesAdmitOnce` | 2 interleaved requests of 3, of 8 kinds, two keys that are wrong, a threat of 0 points; with 2 requests, 1 failed Redis or database command, expiry or end of a window; 2 editors; 2 visitors, 3 codes |
| `runtime` | one property of each of the eleven components below | |
| `quota_bypass` | violated: `QuotaEnforced` | 2 notifications, limit 1, no fault |
| `schedule_twice` | violated: `OneTimeFiresOnce` | 1 poller, 2 schedules, no fault |
| `final_early` | violated: `FinalOnlyWhenAllTerminal` | 1 notification on 2 channels, 2 attempts, no fault |
| `schedule_forever` | violated: `FailedRunsGiveUp` | 2 pollers, 2 schedules, one with a data source that may answer `null`, no fault |

The components of `runtime`, the parts of `gateway` behind the chain, the two parts
of `live` (`MCLive`) and the webhook rows beside `quota_admin` share no state, so each behaviour exercises one of them (the constant variable `part`, or
the form of the initial state) and the run explores the sum of their state spaces:

| Part | Property | Bounds |
|---|---|---|
| pool | `ShutdownIsFinal` | 2 callers, 2 tries (3 in the code: first, middle or last is what matters, and the proof has any number), 2 pools |
| push | `PushedOnceToItsOwner` | 2 serving processes and a worker, 2 sockets, 2 users, 1 event |
| audiences | `BroadcastReachesEachOnce` | 5 member ids, pages of 2, 1 crash |
| inbox | `PagesMissOnlyTies` | 4 rows over 2 milliseconds, pages of 1 |
| next run | `NextRunIsTheFirst` | 5 zones, two with summer time, daily, weekly and monthly, every hour of 10 days around its changes and the end of February |
| variables | `SentAsMapped` | 3 texts with up to 2 indexes, buttons, every mixture of list, numeric and named values with blanks and gaps |
| credentials | `OwnProcessIsCurrent` | 2 API processes and a worker, 2 providers, 2 versions |
| dispatch | `RepeatsAreExplained` | 12 routes of channel and provider, up to 2 numbers and 2 spellings, 3 sends |
| patches | `NextRunFollowsTiming` | 2 requests, 2 fields, 5 writes |
| trigger | `LogTellsWhatWasSent` | 5 items, each of another fate, 1 fault |
| resolution | `PreparedAsOneLook` | 3 scopes, 3 names, 2 aliases, 1 change during the lookups |

The bounds are small because every property relates at most two channels of one
notification, two units of one counter, two holders of one row, two ticks over
two schedules or two requests on one row; each hazard of `PROJECT.json` needs at
most two actors (three requests in `submission`: two racers and a late one), and
two faults allow a fault in the recovery from a fault.  Rows, processes, requests
and notifications are interchangeable, so safety runs use symmetry; liveness runs
do not.  `MCFocus` of `quota_admin` explores the flags and the units, which share no state,
one at a time, `OneTrouble` of `gateway` allows one of a failed command, an expiry
and the end of a window, and a third request only without any, and `MCConstraint` of
`submission` gives three requests only bodies that meet in their keys.
Deadlock is not checked: the system may stop for good when every bounded request or
run is done.

Fairness.  `FairDeliverySpec`: a worker takes every job it can take (weak, per
notification and channel: BullMQ workers wait for jobs and finish them) and the
sweep runs (weak: `setInterval` of five minutes and at every start).
`LiveSpec` of `MCLive` takes over the fairness of these two, each in its part.
`FairWebhookSpec`: a process ticks every ten seconds and goes on with its batch;
waits end.  `FairScheduleSpec`: the repeatable job comes back and a tick goes on
to its end.  A process that crashed is restarted by its supervisor.  No request,
submission, configuration, fault, endpoint answer or due time is ever assumed.

Some properties whose exact words matter:

* `ChargeMatchesLog` says a charged unit has a `sent` log; the converse fails by
  design: a unit the sweep gave back is not charged when its job is sent later.
* `DeliveredStays` has one exception, the submitter whose enqueue failed: it
  writes `failed` unconditionally (`notify.js:803-806`).
* `RunsAreSentOnce` leaves out the runs in `ghosts`; `schedule_twice` shows them.
* `SendersAreReissues` counts how often a row was given out while somebody held
  it (a retry request in flight, an outlived lease) and allows no other overlap.
* `FinalIsEarlyForRetriesAlone` says which channels an event may run ahead of:
  those on another attempt, and none still in the queue, with the provider or
  between its answer and the log.  `final_early` shows that it does run ahead.
* `FreshTwinsRaced` leaves out requests with a payload and rows stored with the
  text of another channel than the one compared (`InOtherWords`);
  `AnswersNameTheirOwn` the two ways in which keys hide events
  (`KeysHideEvents`): both keys without the event, or one going on after a colon
  where the other ends.
* `BansAreEarned` looks at the step that bans: the points of the records begun,
  and the points lent to records of 0 points, are compared with the threshold then.
* `ConditionsDecideAlone` is about one channel without synonyms and one variable.
  Conditions on two variables tie, and `updated_at` decides between them
  (`notify.js:76,125`).
* `EveryDueScheduleIsSettled` is about schedules without refused data where no
  refused schedule exists; a schedule whose own data source made the tick throw is
  the exception (`Threw`), shown by `schedule_forever`.
* `QuotaFlagIsCurrent` has two reads apart in `appHasQuotas`; a change between
  them is the reason it names.
* `NextRunIsTheFirst` has two halves.  Whatever the clocks do, the next run is
  later than "now", or the poller would send it again at once; the exceptions are
  clocks put back within a day of "now" and, for monthly schedules, clocks put
  forward within a day of it (around the turn of a month).  And it is the first
  hit of the local clock, for instants two days away from clock changes and, for
  weekly schedules, zones west of UTC+12: from there eastwards a weekly run comes
  a day late.  Near a change a daily run computed late in the evening skips the
  day of the spring change, and the runs of the repeated day in autumn may be an
  hour apart.

### Disagreements found

With a run:

1. `POST /notify` never enforces a limit: the reservation precedes the row it
   references and is always rolled back by the foreign key.  The manual trigger
   has the same order, so an exhausted channel is sent too.
2. An SQL error inside the shared transaction of a tick: COMMIT rolls back
   without an error, the collected jobs are enqueued with notifications that do
   not exist, at every tick again; and no other due schedule is ever settled.
3. `notification.final` too early: a transient failure writes a log with status
   `failed`, and the check counts it as terminal (`base.worker.js:315-325`)
   although the channel is tried again, against `docs/webhooks.md:13`.  The real
   final event is then dropped as a duplicate.
4. A data source that answers with an item `null` makes every tick throw at its
   schedule; `retry_count` grows and is never compared with `max_retries`
   (`scheduled-notification.worker.js:749-776`), against `DOCUMENTATION.md:675`.

Met while modelling; where a formula is named it is in the module:

5. `notification.final` never: when a channel fails after another was delivered,
   the UPDATE returns no row and nobody checks (`FinalEventuallyFires`).  Its
   status is what a worker read at its own commit, and `partial` is overwritten
   by `failed`.
6. A webhook row is attempted beyond `MAX_ATTEMPTS` after a crash or a failed
   UPDATE in the last attempt.
7. `POST /quota/owners/bulk` (`quota.js:714`) reports owners as done that its
   COMMIT rolled back (`BulkTellsWhatItWrote`).
8. PATCH of the WhatsApp fallback does not invalidate the cached entity
   (`FallbackChangeInvalidates`), against `COMPLETE_IMPLEMENTATION_SUMMARY.md:163`.
9. The burst check collapses no twins with non-empty data
   (`FreshTwinsAreCollapsed`, `notify.js:346`).
10. `DELETE /template-aliases/:id` names a table that does not exist (line 115)
    and always answers 500; the branches for 23505 in the routes are dead because
    `DbError` hides the code.
11. The batch and the single resolution of a template differ: the batch prefers an
    approved row of a farther entity, the other stops at a nearer unapproved one
    (`SequentialFindsTheSame`, `config/index.js:115`).
12. The request filter runs before `express.json`, so its check of the body never
    sees one; `/notify` has no cooldown guard; a slower, smaller failure count can
    shorten a cooldown.
13. Broadcasts have no idempotency key: a retry after a crash repeats a batch.
14. The cursor of an owner's list skips rows of the same millisecond.
15. The scheduler sends a WhatsApp message with blank parameters where the routes
    refuse it.
16. `computeNextRun` may return "now" or the hour before it, next to a clock
    change: its comment promises the next run after that time
    (`compute-next-run.util.js:16`).  The proof asked for the exceptions of
    `NextRunIsTheFirst`; none of the tests of the code comes near a change.
17. Keys of different events collide when a key goes on after a colon where
    another ends, or when key and event exceed 255 characters together
    (`EventsNeverCollide`, `notify.js:278`, 301-302).
18. With a first channel the quota blocks, two requests one after the other store
    the same message: what is compared is not what was stored (`notify.js:616-623`,
    692-707).
19. A threat of 0 points, which `security.config.js:212-218` allows, counts 1 until
    its INCRBY of -1, and for good when that fails: the point may ban.

## 4. The proofs

Every safety invariant and every action property that a passing run checks is
also a theorem, and so are the two refinements (`ImplementsLedger`,
`ImplementsIntake`).  All theorems hold for arbitrary constants under the modules'
assumptions (`LedgerAssumption`, `DeliveryAssumption`, `WebhookAssumption`,
`ScheduleAssumption`, `AdminAssumption`, ..), which give the bounds their types,
keep the marker values apart from the ids, and, where a proof counts or takes a
greatest element, say that a table or a message is finite (entities, members, the
items of a trigger, the addresses of a user, the texts of a template).

* **Quota.**  `CountersMatchRows` and `WithinLimit` are inductive with
  `QuotaTypeOK` and the finiteness of the sets of rows (initially empty, one row
  more at each reservation, so `Notifs` itself may be infinite); the work is in
  how cardinalities of sets of rows change (one row added, moved or a swept set
  removed).  With equal counters, the guard of the upsert is the guard of the
  ledger, which is `QuotaImplementsLedger`.
* **Delivery.**  `DeliveryUsesQuota` maps every step to a step of `QuotaNext` or a
  stutter, so the quota theorems carry over.  The rest is one induction over the
  conjunction of the safety invariants with what each program counter implies
  (for example: a job in `checking` has a terminal log and its unit settled).
* **WebhookDelivery.**  `OneLiveRowPerEvent` follows from `Duplicate` and `MayLive`
  guarding every write of `status`.  `SendersAreReissues` needs that a due row that
  was never reissued has no holder, and that a held row is leased unless it was
  reissued; cardinalities again.
* **Schedules.**  First the types and that at most one poller has a schedule
  locked.  Then `SendInv`: a run is spent once it is sent, collected or
  committed; spent is monotone, a fresh run is nowhere, a collected one is the
  current run of a locked schedule, a committed one is logged and passed.
* **SchedulePatches.**  `PatchesInHand`: what a PATCH has computed is right for the
  row with its fields over it, as long as no other wrote since it read.
* **QuotaAdmin.**  Four inductions over one split of the next-state relation.
  `LookInv`: what a lookup has seen is still so, unless rows changed under it (this
  is why two reads without a transaction are enough).  `DeletesKnowOwners`: an
  owner of a profile under deletion is moved or known as late.
  `ReservesKnowLimits`: the limit in hand is the owner's limit, or the owner is in
  `moved`.  `DefaultInv`: a request's profile is new before its insert, belongs to
  nobody else, and a profile in deletion is no default unless it was promoted
  meanwhile; then a default exists, is on its way, or was lost for a reason.
* **LivePush.**  `NotAgain`: an event is not on its way to the process of a socket
  that has it; `RoomsAreAskedFor`: a socket sits only in the room it asked for, at
  the process that serves it.
* **DbPool.**  `PoolInv`: after `closePool` there is neither a pool nor an action
  that creates one, whatever the timer and the sleepers do; an attempt under way
  keeps its pool open; executions are counted against lost answers.

* **Submission.**  Everything rests on the types and on which row is whose.
  `ParentsAreMapped`: the parent a notification names, stored or past the guard, is
  the one in the map, which is never changed once set.  `TwinsRuledOut`: what a
  request saw stored when it began is no twin of it once it has looked.
  `DuplicatesAreRight`: a duplicate names a stored row of its event, unless the key
  hides the event.  The refinement maps every statement of the handler to a step of
  `Intake` or a stutter: only the INSERT stores, and the unique index is its guard.
* **Accounts, Templates.**  `AdmitsOnce`: a code is in one visitor's hands at most,
  and marked from then on, unless it is one of `overlapped`.  `TemplatesInv`: the
  variant of every row is the key of its condition and no two rows clash, so two
  matches of one value have the same key.
* **ManualTrigger.**  `TriggerInv` sums the fates of a finite set of items, each
  counted where its fate was decided.
* **Audiences, Inbox.**  `BetweenPages` and `WithinPage`: the ids told lie before
  the cursor or the rest of the page, and whoever is neither told nor on the page
  comes after it.  `WalkOK`: a row of the beginning that is newer than the cursor
  is shown or of the millisecond of a page's last row.  Both rest on what the n
  least of a finite set are (`SmallestIsAPrefix`, `SmallestAreAll`).
* **WhatsAppSessions, WhatsAppTemplates.**  A cached fallback is the row's, or is
  marked `tainted`, or an invalidation is `owing`.  `ResolutionIsNearest` is about
  a search written as a recursive function on queues and visited sets; `Left`, the
  length of the queue and the number of entities not visited, becomes less at every
  look (`OnwardLeavesLess`), and each fact about the search is the absence of a
  least `Left` at which it fails.  `SyncOK`: each template that lived all the time
  is fetched or still to come, or the list is known to be cut.
* **Dispatch.**  An attempt sends to a number as often as it is spelled at most
  (`AttemptReaches`), and an attempt that another may follow was silent or lost, so
  `copies` stays below the spellings times one more than those (`DispatchInv`).
* **TemplateVariables.**  The order of the numeric keys is their rank, and the
  ranks of `1..n` are the keys themselves (`FirstInOrder`), which is why unmixed
  keys meet their own values again; every rank is taken (`RankedMember`) by a
  least-element argument.  A mapping returns a list as long as the highest index,
  so mapping it again finds no slot left to fill (`MapsOnce`).
* **NextRun.**  The offset of a zone is one of two values that differ by two hours
  at most.  That the next run is later than "now" is a case split over where the
  two changes lie (`TomorrowIsLater`, `NextMonthIsLater`).  Away from changes the
  offset is constant on all instants the code looks up (`SteadyClock`), so that
  the wall times reduce to days; `FirstHit` then asks only that none of the days
  in between is one to run on, which is arithmetic modulo 7 for weeks
  (`WeekDays`) and the uniqueness of the month of a day for months (`MonthIsOne`;
  months have 28 days at least).
* **Gateway.**  `ScoreOK`: the score and what the threat records under way still
  owe it, as a set of pairs that can be counted, never exceed the points of the
  records and the points lent.  A score that expires may have been negative, so
  what is owed alone is bounded too, and no more records lend than points are lent.
  The requests carry what they read of the failures, and `worst` and `recorded`
  only grow.  `lent` falls again, which is why `BansAreEarned` is an action
  property.  `AdmittedWithinMax`, about the requests a limiter counted, is proved
  and has no run.
* **Credentials.**  `CurrentAt`: what a process has cached, built or on its way is
  no older than the version it was told of (`floor`).
* **TemplateResolution.**  `PreparedSoFar`: what a lookup holds at each query is
  what one look at the tables would have found up to there, if nothing changed
  since it began.

Only model-checked: the liveness properties (`EveryReservationSettles`,
`FinalWhenAllSent`, `EveryDeliverySettles`, `EveryDueScheduleIsSettled`), since
fairness and ENABLED are out of the prover's reach, and the four runs that expect a
violation.  `PROJECT.json` lists the theorems.

## 5. What is not modelled

The components with status `not_modelled` in `PROJECT.json` keep no state another
part relies on: construction of Redis clients, the weekly deletion of old logs,
health and logging, cryptographic helpers, the dashboard (a browser client, about
half of the repository's lines).  Within the modelled parts:

* the lock order of the transactions: the worker, the sweep and the poller may
  deadlock in Postgres, which shows as a failed transaction, a fault of
  `Delivery` and `Schedules`;
* the validation of bodies, texts, names, signatures, pages of the dashboard and
  statistics, which no other part reads;
* functions nobody calls (`reserveForBatch`, `checkThresholds`,
  `recordThresholdEvents`, `apiKeyRateLimiter`, `recordRateLimitThreat`);
* `custom_cron`, computed by a library, and a PATCH of `max_retries`;
* the caches of aliases and templates, which are invalidated and never filled;
* migrations.

## 6. What could come next

1. The composition of `Schedules` and `Delivery`: jobs of rolled-back
   notifications meeting the workers.
2. An abstract schedule that runs once, and the refinement of `Schedules` to it;
   the webhook table as a set of events delivered at least once.
3. Minutes in `NextRun`, and zones with several changes.
