# A TLA+ model of the price tracker

This directory verifies the parts of the tracker (a Django application with
Huey workers, SQLite or Postgres, and Redis) whose correctness depends on the
order in which several processes take their steps. Line numbers refer to
`src/`; `PROJECT.json` maps every definition to the lines it models.

## 1. The system

| component | code | state | operations | hard behaviour |
|---|---|---|---|---|
| fan-out of a run | `tasks.py`, `scrape.py` (`terminalize`), `locks.py` | `WebUpdate` (status, total, counters), `FetchJob`, `SearchResult`, Redis unit locks, Huey queue | `dispatch_fan_out`, `fetch_one`, `terminalize` | two worker threads, no transaction, duplicate deliveries, crashes, exceptions between two statements |
| one unit's fetch | `scrape.py` (`fetch_one_unit`, `_run_parser_search`) | the pages of one attempt | gate, send, parse, next page | defer in the middle of pagination |
| rate-limit pacing | `ratelimit/` | meters, `next_allowed_at`, `exhausted_until` per scope; spend per run | `try_acquire`, `update_meters`, `set_exhausted_until` | several workers share a budget; responses arrive late and out of order |
| recurring schedules | `models.py` (`UpdateSchedule`), `tasks.py` | `last_run_at` | `is_due`, `dispatch_due_schedules` every minute | read-then-stamp, failing dispatch, alignment to an anchor time |
| metadata queue | `metadata.py`, `tasks.py`, three views | `ItemMetadata`, `MetadataFetchRequest` | request, drain, fetch, pin, select | results of stale requests, duplicate dispatch |
| demo sandbox | `demo/` | `DemoState`, visitor rows | reset when idle, activity stamp, update slot, caps | concurrent requests against a conditional reset |
| deduplicating ingest, charts | `scrape.py`, `views.py` | `SearchResult` rows | dedupe against a snapshot; replay of the stored changes | overlapping runs; the replay must undo what the dedup left out |
| bulk add and bulk edit | `forms.py` | items, item sources, tags | per-item transactions | rows read before the loop |
| parsers, fetcher, providers, CRUD pages, settings | the rest of `src/` | none, or single rows | | no protocol of their own |

How they interact. A button or the schedule tick calls `dispatch_fan_out`,
which inserts a `WebUpdate`, takes one Redis lock per `ItemSource` ("unit") and
enqueues a Huey task for it. A worker thread runs `fetch_one`: it asks the pacer
before each request, and either records the unit with `terminalize`, or requeues
it for the time the pacer named. `terminalize` inserts the unit's `FetchJob`,
stores its new `SearchResult` rows, bumps the counters, moves the run to
`running` and, when the number of `FetchJob`s has reached the number of planned
units, to `done`. The progress page polls the `WebUpdate` row until it is `done`
or `failed`. Nothing else ever repairs a run ("no sweeper").

What makes each component correct, in short: a run counts and stores every unit
once and is closed exactly when its last unit is recorded (fan-out); no worker
sends in a cooldown, over the cap or without a reservation, and every paced
caller gets to send (pacing); each window is run once (schedules); the stored
metadata is the answer to the last question asked (metadata queue); an active
visitor is never reset and the caps hold (demo); the stored changes replay to
what was seen (ingest and charts).

## 2. Modules

| module | role |
|---|---|
| `RunBarrier` | what a `WebUpdate` promises: units are recorded once, counted at most once, the run is done only when all are recorded |
| `FanOut` | dispatcher, workers, locks, queue and rows, one action per statement |
| `MCFanOut` | the instance for TLC (symmetric units and workers) |
| `FanOut_proofs` | proofs about `FanOut` for all values of the constants |
| `Pacer` | shared budget of one scope: `decide`, the atomic `try_acquire`, late and reordered responses, cooldowns, per-run caps, pagination, requeues |
| `Pacer_proofs` | proofs about `Pacer` for all values of the constants |
| `Schedule` | `is_due` over a discrete clock, the minute loop, failures, overlap, edits and deletions |
| `MCSchedule` | plans (frequency, anchor) for TLC |
| `Schedule_proofs` | proofs about `Schedule` for all values of the constants |
| `MetadataQueue` | one item's metadata: request rows, drain, `fetch_metadata` against operator edits |
| `MetadataQueue_proofs` | proofs about `MetadataQueue` for all values of the constants |
| `PriceHistory` | relevance filter, dedup and the statements that store rows, for overlapping runs; the replay behind Latest price, chart, sparkline and list status |
| `MCPriceHistory` | answers and criteria for TLC, and the dedup loop compared with `Survivors` |
| `PriceHistory_proofs` | proofs about `PriceHistory` for all values of the constants: what is stored, and that `Survivors` is what the dedup loop keeps |
| `PriceHistoryShown_proofs` | proofs about what is shown of the stored rows: sparkline, list status, chart |
| `BulkEdit` | the bulk-edit workspace, its form and `apply_bulk_edit` against other operators |
| `MCBulkEdit` | starting rows and rounds for TLC |
| `BulkEdit_proofs` | proofs about `BulkEdit` for all values of the constants |
| `DemoReset` | the demo's reset, activity stamps, update slot, caps and seed protection |
| `DemoReset_proofs` | proofs about `DemoReset` for all values of the constants |

`FanOut` and `Pacer` meet in `fetch_one`: what `Pacer` calls terminalized or
requeued are the `Terminal` and `Requeue` stages of `FanOut`, which leaves open
when they happen. They are not composed: the two share no variable (the budget
hash on one side, locks and rows on the other), and each one lets its
environment do more than the other module allows. `PriceHistory` meets `FanOut`
in `terminalize`: `FanOut` counts batches of rows, `PriceHistory` says which rows
they are, and takes the single recording of a unit (`StoredOnce`) as given.
`MetadataQueue` shares only the consumer's threads with them, and each module may
always run its own tasks. `BulkEdit` ends where it calls
`sync_metadata_after_item_edit`, which `MetadataQueue` takes up. `DemoReset` runs
in another process (the demo has no consumer) and shares nothing with the rest.

What is proved. Every invariant and action property of a passing run is stated by a
theorem, so the runs show on a small instance what the proofs show for all values of
the constants. Four properties stay with TLC alone because they are liveness
properties, out of the prover's reach: `RunCloses`, `EveryUnitEnds`, `AlwaysServedAgain`
and `RequestsServed`.

Where code and documents disagree. Four runs must fail, each on one property that a
document states (`fanout_faulty_close`, `schedule_anchor`, `metadata_pinned`,
`history_variants`). In other places a property of a passing run says exactly how far the
code stays behind its document, with the exception named in the formula and the document
quoted at it: `HeadroomOfTheRest` and `PacedApart` (section 4), `MissedWindowRuns` and
`DoublesExplained` (section 5), `RowsReadAsAsked` (section 8), `NeverUnderActive` and
`CapsBounded` (section 9). Without its exception each of the first three, and
`RowsReadAsAsked`, fails in the instance given.

Worth doing next: a bound for the double runs of overlapping executions in `Schedule`;
abstract specifications for the metadata queue and the demo's reset, as `RunBarrier` is
for the fan-out.

## 3. The fan-out (`FanOut`)

State and code. `plan`, `status`, `completed`, `resultCount`, `errorCount` are
the `WebUpdate` row; `job[u]` is the unit's `FetchJob` (its outcome, or none),
`rows[u]` the number of batches of `SearchResult` rows stored for it. `lock` is
the set of Redis keys held, `queue[u][a]` the number of copies of the task for
unit `u` with `attempt = a`, queued or scheduled. `dpc`, `todo`, `dunit` place
the dispatcher inside `dispatch_fan_out`; `worker[w]` places each consumer
thread inside `fetch_one` and, through it, `terminalize`. `removed` and `purged`
are rows an operator deleted: an `ItemSource`, or also its item or source, whose
cascade takes the `FetchJob` and `SearchResult` rows. `recorded` is a history
variable: the units whose `FetchJob` was ever inserted.

Actions. Every database statement and every Redis call is one action, because
the code opens no transaction around them (`ATOMIC_REQUESTS` is off and the
tasks run outside requests). The label a worker stands at names the next
statement: `load` and `check` before the `try`, `fetch`, `unlock`/`relock`/
`schedule` for the requeue, `exists`, `insert`, `store`, `bump`, `start`,
`count`, `flip` for `terminalize`, `release` for the `finally`. `caller` says on
whose behalf `terminalize` runs: an exception raised under `fetch_one_unit` is
caught once and terminalized again as an error; one raised in that second call,
or in the give-up, leaves through `finally`.

Environment. Huey or an operator may deliver a running task a second time
(`Redeliver`; the code calls duplicate deliveries by name and its tests replay
them), the consumer or the dispatcher may die, a statement may raise, an enqueue
may raise although Redis applied it, a lock may expire or be left over, an
operator may delete rows, the run may reach its wall clock. Each is bounded by
its own constant and all together by `MaxHazards`.

Abstracted. What is fetched: `FetchEnds` chooses any outcome (`stored`,
`unchanged` for success without new rows and for empty, `error` for the six
error statuses). Delays: a scheduled task may be delivered at any time. The
pacer's decision: `FetchDefers` and `GiveUp` are both possible whenever the code
allows them. `skipped_duplicate_count` is omitted (it is bumped by the statement
that bumps the others).

### Runs

| run | instance | result |
|---|---|---|
| `fanout_safety` | 2 units, 2 workers, 1 retry, any 2 of: crash, redelivery, fault, lost reply, deletion, expiry; leftover locks | `StoredOnce`, `DoneMeansRecorded`, the inductive `IInv`, `FailedIsFinal` and `Implements` (refinement of `RunBarrier`) hold |
| `fanout_progress` | the same with one redelivery or expiry, weak fairness | `NoUnitLost`, `CountersExact`, `DoneIsFinal`, `RunCloses` hold |
| `fanout_faulty_close` | one failing statement, fair | `LastJobCloses` is violated: after a failure behind the insert, the second `terminalize` is a no-op and nobody closes the run |

Bounds. Two units are needed for "the other unit's worker closes the run" and
for a fan-out that fails half way; two workers are the configured number
(`settings.py`, `HUEY["consumer"]`), and with one redelivery they run the same
unit at once. One retry (`MaxAttempts = 1`) exercises both the requeue and the
exhausted attempts. Two hazards per behaviour cover each pair (for instance a
redelivery and a crash between insert and count). The theorems below lift the
safety properties to any bounds. Deadlock checking is off: a finished run has
no further step.

Fairness. `WF` of the dispatcher (a request or task thread is not suspended for
ever), of delivery (Huey's threads poll the queue in a loop), and of each
worker's step (a thread executes the task it holds; requests have timeouts). No
fairness is assumed of the environment, and none orders the queue. Under it
`RunCloses` rests on the attempts being bounded, as in the code.

### Proofs

`FanOut_proofs` proves, for any finite `Units` and `Workers` and any bounds:

* `TypeCorrect`: `Spec => []TypeOK`.
* `InvariantHolds`: `Spec => []IInv`, the inductive invariant, which is `TypeOK`
  and `Consistent` (`AlwaysAccounted`). The properties of interest are not inductive:
  that progress never passes the number of recorded units needs to know how many
  workers are between their insert and their count (`Accounted`); that only the last unit closes the run needs that
  a worker about to flip the status has seen the full count and that every
  counted row belongs to the plan (`Closing`, `Planned`); the dispatcher's
  unconditional writes are harmless because they happen at known stages
  (`Staged`).
* `CountedOnce` (`NoDoubleCount`), `DoneIsComplete` (`DoneMeansRecorded`),
  `FailedStaysFailed` (`FailedIsFinal`) follow from it.
* `RowsStoredOnce` (`StoredOnce`): of all deliveries of a unit only the one whose
  insert went in ever stands before the storing of its rows (`StoreIsEarned`), it
  leaves that place with its step, and nothing else enters it (`NobodyEntersStore`,
  `WorkerStoresOnce`).
* `DoneStaysDone` (`MaxLostAcks = 0` implies `DoneIsFinal`): a fan-out that fails leaves
  a unit nobody has begun (`NotBegun`), so the run that it marks as failed was not done.
  Crashes, faults, deletions and redeliveries do not matter; only an enqueue that raises
  although Redis applied it is excluded.
* `NoUnitIsLost` and `CountersAddUp` (`Undamaged` implies `NoUnitLost` and
  `CountersExact`), where `Undamaged` says that nothing crashes, fails or is deleted and
  no key is left over; tasks are delivered twice and keys expire as often as they like.
* `ImplementsBarrier`: `Spec => Barrier!Spec`. The insert is `Record`, the
  counter update `Count`, the two compare-and-sets `Start` and `Close`, the
  except clause `Fail`; every other step, crashes included, is a stutter.

The argument splits on the actions. `StepAside` covers all worker steps that
leave the recorded part of `terminalize` and touch no row; the cardinality
lemmas `LeavesWindow` and `StaysInWindow` do the counting; `CountJobs` uses that
a subset of a finite set with as many elements is the set.

`NoUnitLost` is not inductive: a worker that defers a unit gives its key back, takes it
again and gives up when another took it in between, so "in a worker" must be
strengthened to "in a worker that will record the unit or schedule it again". `Carries`
says which those are: at `relock` only the one that still finds the key free. Who takes
that key, a duplicate of the unit, then carries it instead (`Kept`). `CountersExact`
speaks of runs at rest; on the way, each counter plus the workers between their insert
and their count (`Window`) is the number of `FetchJob`s with that outcome (`Tallies`), a
`FetchJob` that says "stored" has its rows or a worker about to insert them
(`RowsFollow`), and a run with all units recorded is done or has a worker on its way to
closing it (`ToBeClosed`). With `Kept`, at rest every unit has its `FetchJob`, and with
`ToBeClosed` the run is then done: what `RunCloses` adds is that it comes to rest.

Assumptions: `ConstantsOK` (finite sets, `NoUnit` is no unit, bounds are naturals), and
for `DoneStaysDone`, `NoUnitIsLost` and `CountersAddUp` the restriction named, which
holds in `fanout_progress`. Only model-checked: `RunCloses`.

The refinement mapping is the `WITH` clause of `Barrier`: `plan`, `status` and
`completed` are the columns of the `WebUpdate` row, `recorded` the history of
inserts; everything else of `FanOut` is hidden.

Seen while modelling, without a run:

* the comment in `fetch_one`'s `finally` (`tasks.py:243-245`) calls the release
  after a requeue a safe no-op, but `release` deletes the key unconditionally, so
  the follow-up waits unlocked (`Release` does the same; `NoUnitLost` shows that no
  unit is lost by it);
* a run can be shown as done while rows are still to come: the `FetchJob` is
  inserted (`scrape.py:245`) before the rows (`scrape.py:268`), and it is
  `FetchJob`s that are counted, where `openspec/specs/api-rate-limiting/spec.md`
  (201-202) says that the rows of a finished run are persisted; `DoneMeansRecorded`
  states what the code does guarantee;
* a unit whose `ItemSource` is deleted before its task runs neither terminalizes nor
  defers (`tasks.py:143-146`), and its run stays open; `fanout_progress`, which checks
  `RunCloses`, therefore allows no deletions. The spec's line 90 knows two ends only.

### Not modelled of the fan-out

Deleting the `WebUpdate` row during a run (admin only); Huey's immediate mode,
where a task runs inside the enqueue and follow-ups never run; the synchronous
driver `run_web_update`; two runs at once (no state of `FanOut` is shared
between runs except the `SearchResult` snapshot, see section 7).

## 4. The pacer (`Pacer`)

State and code. `remaining`, `reset`, `nextIn` (`next_allowed_at`) and
`cooldown` (`exhausted_until`) are the hash `ratelimit:{scope}`, `spent` the
run's entry of `ratelimit:run:{run_id}`. `unit[u]` is the `fetch_one` of one
unit: where it stands, its attempt, its page and its cost estimate.
`told`, `reserved`, `sinceGrant` and `stragglers` are history variables that
only properties read.

Time. Every deadline is the number of ticks left until it, and `Tick` brings
them nearer. The code only takes differences of a deadline and a clock reading,
cut at zero, so relative times lose nothing; a deadline further back than the
oldest reading in use is the same as one just there, hence the floor `-MaxLag`.
`try_acquire` reads the clock (`ReadClock`) before it calls the store: in
between, other workers act and up to `MaxLag` ticks pass. Durations are rounded
up to whole ticks where the code divides (`FairTicks`), the comparison with the
threshold is made before rounding (`IsShort`).

Actions. `DeferInCooldown`, `DeferAtCap`, `Nap`, `DeferForWait` and `Grant` are
the outcomes of `try_acquire`, one atomic step each (the Lua script). `Send` is
the request, after the cold-start delay if no meter was known. `Answer`
reconciles the meters with whatever the vendor reports and goes on to the next
page or terminalizes; `RecordThrottled` stores a 429's cooldown and defers.
`DeferUntil` is the end of `fetch_one`: give up, or requeue with the next
attempt from page 1. The vendor and urllib3 are external: any report from the
given sets, 503s and transport errors retried below the fetcher, and, as urllib3
does, a 429 with `Retry-After` too while retries are left.

Abstracted. One meter: each profile estimates and reports one unit. What the
pages contain. `default_cost` is 1 (true of all profiles). The lock, queue and
rows are in `FanOut`; here a deferred unit is always requeued. One run: another
run with the same scope would change the meters as the other units do, but has
a cap of its own.

### Runs

| run | instance | result |
|---|---|---|
| `pacer_shared` | 2 units, 2 threads, 2 pages, 1 requeue, 1 retry, reports of 2 or 4 with a reset in 2 ticks or none, learned cost 2, cap 4, readings up to 1 tick old, fair | `IInv`, `SpendWithinCap`, `StragglersBounded`, `HeadroomOfTheRest`, `PacedApart`, `EveryUnitEnds` hold |

Bounds. Two units on two threads give the interleavings of a reading, a grant,
an answer and a 429; a report of 4 leaves 2 usable and a report of 2 leaves 1, so
both a sufficient and an exhausted meter occur, with the learned cost 2 at the
edge; the cap of 4 is reached. A reset of 2 ticks is seen ahead, at zero and
past. The theorems lift the safety properties to all values.

Fairness. `WF` of `Tick`, and of each unit's steps: Huey runs due tasks on its
threads, sleeps end and a request has a timeout. `Tick` waits only for a worker
between its clock reading and the store call (`MaxLag`), which does not block.
`EveryUnitEnds` also rests on `min_interval` and the resets being finite and on
the attempts being bounded; `NoResetWait` (30 s) is at least the threshold, as
with the default settings: with a threshold above it, an exhausted meter without
a reset would nap for ever and never be deferred.

Seen while modelling, without a run: urllib3 retries a 429 that carries
`Retry-After` although 429 is not in `status_forcelist` (`fetcher.py:58-63`,
`RetryThrottled`), so the store does not learn of it and the other workers go on
sending, against `openspec/specs/api-rate-limiting/spec.md:154`.

Where the code does less than the documents say, the properties state what it does and
name the difference:

* Headroom. `docs/rate_limiting.md:61-63` says that "only half of what the vendor says
  is left is ever actually usable", and `openspec/specs/api-rate-limiting/spec.md` that
  usable is half of the vendor's remaining (66) and that at most one caller is Ready
  when that allows one call (44-46). `decide` (`pacer.py:120`) halves what earlier grants
  left. Of a reported 3, of which 1 is usable, a call at cost 1 is granted, leaves 2,
  and the next one is granted too. `HeadroomOfTheRest` says how much the code grants:
  each time the usable part of the rest. As an invariant, `reserved <= Usable(told)`
  (until the reset) fails in `pacer_shared` with a report of 3.
* Interval floor. `docs/rate_limiting.md:64-66` calls `min_interval` a "floor on the gap
  between requests to the same source, regardless of how much quota remains".
  `pacer.py:121-130` does not look at `next_allowed_at` when the meter is too short for
  the call: once its reset has passed, two workers are granted at the same moment. Nor
  does a cold start (139-142), which waits the fetcher's delay instead. `PacedApart`
  excludes these two kinds of grants and no other; for all metered grants it fails in
  `pacer_shared`.
* Fair interval. `docs/rate_limiting.md:67-69` says that it "spreads remaining usable
  quota evenly across the time left until the vendor's reset". It is computed anew at
  each re-check, so a caller that slept it is given a new one and, alone in its scope, is
  let through only at the reset (or gives up). No property speaks of the spread;
  `EveryUnitEnds` shows that the re-checks end.

Left without a property, because no document decides them: a shorter `Retry-After`
overwrites a longer cooldown; a late answer overwrites reservations made after it was
sent; a 429 without `Retry-After` gives up at once; a cost learned from an answer is
never charged to the run, only later estimates are.

### Proofs

`Pacer_proofs` proves, for any finite `Units`, any policy and any sets of
answers:

* `TypeCorrect`: `Spec => []TypeOK`.
* `AlwaysSound`: `Spec => []IInv`. `HeadroomOfTheRest` speaks of `told` and
  `reserved`, while a grant looks at `remaining`; `Meter` ties them (`remaining =
  told - reserved` until the reset; `GrantFits` shows that the subtraction is never
  cut at zero). `PacedApart` needs that the next slot was computed from the last
  grant's reading (`Slot`) and that a grant from a short meter is one at its reset
  (`ShortGrants`), and
  `StragglersBounded` that the requests still to be sent under a cooldown belong
  to other threads than the one that recorded it (`Crew`, with the cardinality
  lemmas `CrewShrinks` and `GrantedBelowBusy`).
* `CapRespected`, `HeadroomIsOfTheRest`, `CooldownStopsSends` and `SlotsKept`
  (`SpendWithinCap`, `HeadroomOfTheRest`, `StragglersBounded`, `PacedApart`)
  follow from it.

Assumption: `ConstantsOK` only. Only model-checked: `EveryUnitEnds`.

## 5. The schedules (`Schedule`)

State and code. `row[s]` is an `UpdateSchedule` row, `task[w]` the execution of
`dispatch_scheduled_updates` in a consumer thread: woken with its clock reading,
in the loop over the schedules it found due (`todo`), or between a dispatch (or
a skip) and its stamp (`at`). `edit` is a request to `UpdateScheduleUpdateView`
that has loaded a row and will save it. `clock` is the local time of day.
`sinceRun`, `doubles`, `overlapped` and `hazards` are history: the age of the last
dispatched run by the reading that dispatched it, the runs dispatched within an
interval of the one before, whether two executions have overlapped, and the steps
that can cause double runs.

Time. `is_due` compares `now - last_run_at` with the interval and `last_run_at`
with the latest occurrence, which lies less than a day back. So `last_run_at` is
kept as an age (saturating a little above a day) and `now` as the `lag` of the
reading taken when the task started, up to `MaxLag` ticks ago. `Tick` makes
everything older; it waits for a task at `MaxLag` (an execution ends) and for a
wake at `MaxOutage` (an outage ends).

Actions. `Wake`, `Load` (the query and `is_due` of every row), then for each
schedule `Dispatch` or, for a tag without active items, `SkipEmpty`, and
`Stamp`. The loop works on the rows it loaded: a row disabled or edited meanwhile
is dispatched nevertheless, and on a deleted row the stamp raises and ends the
loop. A `Wake` while another thread still runs the task sets `overlapped` and counts as
a hazard, so that it is bounded. `EditSave` writes all columns, the loaded `last_run_at`
among them, and inserts the row again if it is gone. Failing dispatches, a dying consumer, edits
and deletions count against `MaxHazards`.

Abstracted. The dispatched run; which items a tag has; the local day has always
the same length.

### Runs

| run | instance | result |
|---|---|---|
| `schedule_service` | 2 schedules, hourly, daily, or twice daily from an anchor after noon, 2 threads, a day of 4 ticks and an hour of 2, outages of 2 ticks, executions of 1 tick, 1 hazard, fair | `IInv`, `DoublesExplained`, `MissedWindowRuns`, `AlwaysServedAgain` hold |
| `schedule_anchor` | 1 daily schedule, no outage, no hazard | `RunsAtAnchor` is violated: a schedule created in the afternoon with an anchor in the morning runs at once and from then on in the afternoon |

Bounds. A day of four ticks is the shortest in which an hour, half a day and a
day differ in the position of their slots (an hour and half a day coincide in
length; `schedule_anchor` uses eight ticks). The interval is compared at, before
and after its end because a reading may be a tick old. Two schedules are needed
for a failing first one to starve the second. The two threads are those of the settings.
Threads are alike, so `FirstIdleWakes` lets always the same one of the idle ones take the
task, which leaves out no behaviour but for the names of the threads. `DoublesExplained`
speaks of the behaviours in which no execution is delivered while another runs
(`overlapped` is FALSE). Without that condition it fails: when a minute's task waits in
the queue until the next one is delivered, both threads select a schedule before either
stamps it, although `docs/scheduling.md:69-70`
says it "never double-fires within a period".

What `MissedWindowRuns` says. The docstring (`models.py:823-824`) promises that a window
missed while the worker was down "simply runs once on the next wake", of any frequency.
It does once the interval since the last run is over, except for a twice-daily schedule
anchored after noon: `models.py:902-906` takes the slot 12 hours before the anchor to be
the day before's second one, but it is the same day's first, so before `anchor - 12 h` no
slot is found, and a window missed in the evening waits until the morning. The property
says that a wake selects exactly the enabled schedules whose interval is over, those
excepted (`BeforeFirstSlot`). The instance has such a schedule; without the exception
the property fails in it.

Fairness. `WF` of `Tick` (time passes), of `EditSave` (a request ends), of the wakes
together (Huey enqueues the task every minute and some thread takes it) and of each
thread's execution (its loop has no wait). Hazards
are bounded, so failing dispatches stop; `AlwaysServedAgain` shows that the
schedules behind a failing one are then served.

### Proofs

`Schedule_proofs` proves, for any finite set of schedules and threads, any
plans, any length of day and hour and any bounds:

* `AlwaysSound`: `Spec => []IInv`, with `IInv == TypeOK /\ InStep /\ Credit`.
* `DoublesBounded`: `Spec => []DoublesExplained`.
* `MissedWindowIsMadeUp`: `Spec => MissedWindowRuns`.

`doubles <= hazards` is not inductive: after a consumer died between dispatch and
stamp, the hazard is spent and the double run is still to come. `Credit` counts
what is still owed: a *suspect* is a schedule that may fire too soon once more
(its stamp is older than its last run, or it is selected although too soon, or
its row is gone), a *revenant* a deleted one still selected, which an edit can
insert again and which can therefore fire too soon twice; an open edit counts
one. `Credit` says `doubles` plus these is at most `hazards`. `LoadKeeps` is the
heart: a schedule that `is_due` selects too soon must have a stamp older than
its last run, so it was a suspect before. `TurnPays`: a run too soon takes one
suspect or revenant away. `InStep` supplies that a stamp is never older than the
run it stands for, and that without an overlap one thread at most holds an
execution: for that one (`Alone`) the steps are those of a single loop.

`MissedWindowRuns` is arithmetic: `OccurrenceNear` says that, but for
`BeforeFirstSlot`, the latest occurrence of a plan exists and is less than its interval
back, at any time of day, so a run an interval ago lies before it (`ElapsedIsReached`).
In the exceptional case there is none (`NoOccurrence`). That half a day is whole needs
`Day % (2 * Hour) = 0`.

Assumption: `ConstantsOK`, which asks for at least one thread. Only model-checked:
`AlwaysServedAgain`.

## 6. The metadata queue (`MetadataQueue`)

State and code. One item: `provider` is its `metadata_provider_key`, `meta` its
`ItemMetadata` row (`ext`, `pin` the two identifiers; `by`, `match`,
`candidates` what the payload holds and whose it is). `1 .. made` are its
`MetadataFetchRequest` rows in the order of `requested_at`, `done` those marked
so; `copies[r]` counts the `fetch_metadata` tasks of `r` in Huey's queue.
`worker[w]` is a run of `fetch_metadata`, `editor[o]` a request of an operator.
`answered` and `overlapped` are history: how many requests had been made when the
fetch behind the stored answer read the item, and whether two fetches of the item
ever ran at once.

Actions. The edit form loads and compares (`EditLoad`), saves all columns
(`EditSave`), and after that resets the metadata (`EditReset`) or looks whether
the match is pinned (`EditCheckPin`); `Request` inserts the request. `Retry`,
`SetExternalId`, `SelectLoad`/`SelectSave` are the three views. `Drain` is the
minute task, run by a thread that is free: it enqueues the oldest pending
requests, dispatched before or not. `fetch_metadata` reads request and item
(`FetchStart`), reads the row (`FetchRead`), asks the provider and stores
(`FetchSave`), and marks the request done (`Finish`, the `finally` clause).
`Answers` are the outcomes: an exception stores the status alone, the others all
four columns. A dying consumer loses the running tasks only.

Abstracted. The payload's content, the item's text (`EditLoad` may have changed
it), `fetched_at`, the row's existence (an absent row reads as `Unfetched`, and
every reader creates it), which tasks Huey delivers first. Providers return
distinct, non-empty ids.

### Runs

| run | instance | result |
|---|---|---|
| `metadata_queue` | 2 providers, 2 ids, 1 operator, 2 threads, 2 requests, 1 crash, fair | `IInv`, `RowIsWhole`, `AnswersEveryRequest`, `ShowsPresentProvider`, `FetchKeepsPin`, `RequestsServed` hold |
| `metadata_pinned` | the same without a crash | `PinPrevails` is violated: a second delivery reads the row, the operator selects a candidate, the delivery stores what its own search found over it |

Bounds. Two providers make an answer of the old one visible after a change; two
ids are the fewest that need a review; two requests give an older and a newer
question, two threads the configured concurrency; while one of them fetches, the
other can run the drain, which is enough for duplicate deliveries with one copy
in the queue. Operators stop when the requests are used up (`Begins`). The
theorems hold for any number of all of these.

Fairness. `WF` of `Drain` (Huey runs it every minute), of each operator's request
once begun, and of each thread. None is assumed for beginning an edit.
`RequestsServed` rests on the oldest pending requests being drained first and on
the `finally` clause.

What the conditions mean. `AnswersEveryRequest` and `ShowsPresentProvider` hold
`~overlapped`: with two threads, a slow fetch of an earlier request can store its
answer after a later one, and the item then shows the earlier answer with nothing
pending. Of `ShowsPresentProvider` also one operator at a time is assumed, since
the form saves every column of the row it loaded.

Seen while modelling, without a run: when the provider is cleared while a request
is pending, the fetch finds no provider and sets the status to `error`, where the
spec's "Clearing the provider" scenario leaves `unfetched`; `fetch_metadata`'s
docstring says that a request marked done "is not redelivered", but tasks queued
before that are still run; a candidate stored by a late fetch of the old provider
can be selected and becomes a pin under the new one.

### Proofs

`MetadataQueue_proofs` proves, for any providers and ids, any finite sets of
operators and threads and any bounds:

* `AlwaysSound`: `Spec => []IInv`.
* `RowsWhole`, `LastQuestionAnswered`, `PresentProviderShown`, `PinKept`
  (`RowIsWhole`, `AnswersEveryRequest`, `ShowsPresentProvider`, `FetchKeepsPin`).

`AnswersEveryRequest` speaks of finished requests; to keep it, `Finish` needs that
the fetch's own answer is the stored one and that it began after its request
(`InOrder`), which in turn needs that tasks are only of requests that exist
(`TasksOfRequests`). `ShowsPresentProvider` speaks of quiet states only. `Renewed`
says what leads there: as long as an answer of another provider is stored or on
its way, a newer request exists or the operator who changed the provider is about
to make it (`ToBeAsked`); `OperatorRenews` shows that no operator step loses this,
with `EditsFit` supplying that a lone operator's form agrees with the item. When
all is quiet, that newer request is done, so by `AnswersEveryRequest` the answer
shown is newer than itself, a contradiction.

Assumption: `ConstantsOK`. Only model-checked: `RequestsServed`.

## 7. Prices: ingest, dedup and replay (`PriceHistory`)

State and code. One item. `unit[r][s]` is the unit of run `r` and source `s`: where
it stands in `fetch_one_unit` and `terminalize`, what its parser accepted (`page`),
and which of that it will store (`keep`). `job[r][s]` is the `FetchJob` with its
counts, `rows` are the `SearchResult` rows, ordered by the timestamp of their run and
their key. `criteria` are the item's expected values and the patterns,
`linked` the sources that have an `ItemSource`. `seen`, `seenAt`, `tracked`, `clean`
are history: the price last accepted of each title, the same when a unit stored, and
the titles and units that were *undisturbed*: alone in flight for their item and
source, the newest run answered so far, with no title listed twice.

Actions. `StartRun`; then per unit `Fetch` (the vendor answers, `add_result` filters)
or `FetchNothing`, `Dedupe` (the snapshot is read here), `InsertJob`, `Store` and
`CountStored`, each a statement of its own as in the code, and `Lose` between any
two. `EditCriteria` and `Relink` are operators. Runs may be fetched in any order and
`Workers` of them at once. What is shown are operators over the rows: `Replay`
(`_replay_source_series`), `Points` (its entries: solid, hollow, gap),
`Contribution`, `LatestPrice`, `Winner`, `Chart`, `Sparkline` and `ListStatus`.

Abstracted. A title's search term and patterns are one check of the title, product
line and category one check of the category; a price out of stock is `Out`. A page is
a function from the places in the vendor's answer, and a filtered one leaves a hole,
so that places serve as the order of the row keys. Duplicate deliveries and the unit
lock are in `FanOut`.

### Runs

| run | instance | result |
|---|---|---|
| `price_history` | 1 source, 2 titles, 3 runs, 3 answers, 2 in flight, three pages (a price changes, one title is out of stock), one edit, one fault | `IInv`, `TracksVendor`, `ChartTellsWhatWasSeen`, `SparklineEndsAtLatest`, `StatusFollowsRows` hold |
| `history_variants` | a vendor that lists two variants under one title in every answer | `SkippedStillCount` (price-history-chart/spec.md:11) is violated in the third run |

Bounds. Three answers are what a price needs to change and come back, and what one
undisturbed unit after two overlapping ones needs; two in flight is the number of
consumer threads. `Dedupe` uses `Survivors`, a definition by sets; `LoopSurvivors` is the
loop of `_dedupe_unit_candidates` with its dictionary. `MCPriceHistory` compares the two,
as an assumption, for all pages of up to four candidates and all snapshots, before
`LoopKeepsSurvivors` proves it for any. With two sources and two
runs (3.1 million states) the same properties pass, as they do with two sources,
three runs and either an edit or a fault; these instances take two to four minutes
and are the ones in which `Winner` has a choice. `CHECK_DEADLOCK` is off, as in the
following two modules: the runs, edits or rounds are used up.

What the conditions mean. `TracksVendor` is about undisturbed units only: two runs in
flight for the same source can each store, or skip, against a snapshot that lacks the
other, and leave a newest row that is not the vendor's last price until the next
undisturbed run. `ChartTellsWhatWasSeen` assumes `Steady`, that a title keeps its
category: the dedup compares price and stock only (`scrape.py:175`), so a title
whose category changed is skipped against its old row and judged by it.
`StatusFollowsRows` excludes lost units: one that dies between its rows and its count
shows "unchanged" beside a changed chart. Also seen: an `EMPTY` job (nothing parsed)
counts as failed in the roll-up of `_rollup_item_list_status`.

### Proofs

For any titles, finite or not, any sources, pages, criteria and bounds,
`PriceHistory_proofs` proves

* `TypeCorrect`, `InvariantHolds` (`Spec => []IInv`), `VendorIsTracked`
  (`Spec => []TracksVendor`);
* `LoopKeepsSurvivors`: for every page and snapshot the dedup loop keeps exactly what
  `Survivors` keeps; `DedupeRunsTheLoop`: so it is for what `Dedupe` keeps in any
  reachable state, where the snapshot of a title is at most one row (`SnapshotIsOne`,
  from `RowsIdentified`: rows of a source and title differ in run or key);

and `PriceHistoryShown_proofs`

* `SparklineEnds` (`SparklineEndsAtLatest`), `StatusIsRight` (`StatusFollowsRows`) and
  `ChartIsRight` (`ChartTellsWhatWasSeen`).

`TracksVendor` is not inductive. When a clean unit stores, its kept titles are said by
the new rows, and the skipped ones must be said by an old row: that is
`SkippedIsSaid`, which `Dedupe` establishes from the snapshot and which stays true
because a clean unit is alone (`CleanIsAlone`) and nobody else stores. A later unit
cannot unsay a tracked title unnoticed, because a title in flight is not tracked
(`InFlightUntracked`). `RowsAreStored` supplies that no row of the unit's own run
exists before it stores.

The loop and the replay are recursive functions over `0 .. N`, and what they compute is
proved by induction. The library's induction theorems cannot be instantiated by the
installed provers, so the proofs use the least element of a set of numbers (`LeastNat`,
from the well-foundedness of `<`): `UpTo` says that a set with 0 and every successor up
to `N` is `0 .. N`, and `Recursion` that a function with the wanted first value and
steps exists. For the loop, the dictionary after `i` candidates holds the last differing
one of each title. For the replay (`ReplayIsNewest`), the state of a title after run `q`
is its newest stored row up to `q`, which is the only one once each run stores at most
one row per title (`OneRowPerRun`, for plain pages).

`StatusFollowsRows` follows from `Written`: the rows of a unit that has stored are those
it kept (`RowsAreKept`), and its job's counts follow how far it has come (`JobsFollow`).
`SparklineEndsAtLatest` needs no history: both are the lowest price of the same entries.
`ChartTellsWhatWasSeen` rests on `Remembered`, whose heart is `SeenAtIsSaid`: for a
source whose answers were stored in order, the newest row of a title up to run `r` still
says the price seen when `r` stored. A later run adds newer rows only, and a skipped
price is said by an old row (`SkippedIsSaid`). `Steady` enters through `SameCounts`: a
row counts today if and only if every other row of its title does. Assumption:
`ConstantsOK`.

## 8. Bulk edit (`BulkEdit`)

State and code. `there`, `row`, `link` are the `SearchableItem` and `ItemSource` rows,
`synced` the provider for which an item's metadata were last reset. `chosen` is the
selection in the session, `stage` where the round stands in `apply_bulk_edit`, `ask`
the cleaned form, `adds`/`removes` what each item is to get of it, `links` and `copy`
the rows the round loaded before its loop, `todo` and `result` its progress. `form`
is another operator's open item form. `before` and `after` are history: the items
others changed before and after their turn.

Actions. `Enter`, `DropItem`, `Done` and `Submit` are requests of the workspace; the
form's rows (`EntryRows`, `PatternRows`) and counts are operators of what the
selection stores. `Resolve`, `LoadSources` and `LoadItems` are the queries before the
loop, and `SkipItem`, `ApplyItem`, `FailItem` the turns, each a transaction. Between
any two of them other operators save forms, edit, add or remove an `ItemSource`,
and delete items.

Abstracted. The active flag is applied like the priority; product line and category
are two columns of one kind, as are include and exclude lists. The queries of
`_resolve_suggestion_subsets` are one step. Left out: deleting a tag in use, and the
window between the POST's read of an item and its save.

### Runs

| run | instance | result |
|---|---|---|
| `bulk_edit` | 3 items, one protected, 1 vendor, two starting states, four rounds' asks, 1 edit of another operator, 1 failing transaction | `IInv`, `AskedIsThere`, `UndisturbedIsExact`, `RowsReadAsAsked`, `LeavesUnasked` hold |

Bounds. Two editable items are needed for one to be applied while the other is
changed; the third shows that protected items are left alone. The asks combine what
interferes: an add with a column, a removal with tag and provider, a pattern added
while typed, and one typed and removed at once. One edit by others is enough for
each pair of a step and a change; a two-item instance with two edits (11 million
states) passes as well.

What the conditions mean. `AskedIsThere` does not speak of the provider: it is
compared with the stale copy (`forms.py:1321-1324`), so a round that asks for the
provider an item had when loaded leaves whatever it has now; `LeavesUnasked` and
`MetadataFollowProvider` show that row and metadata do not part. An entry list is
merged into the copy, so an entry another operator saves in between is lost when the
round changes the list; `LeavesUnasked` shows that this is limited to the lists the
round changes. `RowsReadAsAsked` excepts the *strays*, items that hold a vendor's value
without being linked to the vendor, as after an `ItemSource` is removed. The comment of
`forms.py:945-946` says that "only items with this vendor configured could ever have this
value", and `openspec/specs/bulk-item-editing/spec.md:98-108` counts X of the Y items that
could possibly hold it. The code counts the strays in X and not in Y, so the row reads for
instance "2 / 1 items", and a removal leaves the value on them (both in `bulk_edit`, whose
second starting state has one). The property says how far row and effect are off: by the
strays and nothing else. A pattern listed twice by an operator is
counted twice, where `models.py:733` speaks of a number of items.

### Proofs

`BulkEdit_proofs` proves, for any items, sources, starting states and asks:
`InvariantHolds`, `UpdatedMeansAsked` (`AskedIsThere`), `UpdatesAreExact`
(`UndisturbedIsExact`), `TurnsLeaveTheRest` (`LeavesUnasked`) and `FormReadsAsAsked`
(`RowsReadAsAsked`).

The invariant `Inv` adds the two properties to `IInv`, since they speak of items
whose turn is over and must be kept by every later step. At the turn, `AskedIsThere`
needs that nothing is both added and removed (`NoContradiction`) and that the loaded
link is still there, which `Raises` provides; `UndisturbedIsExact` needs
`CopiesAreFresh`: what is loaded is the row until somebody else changes it, which
marks it in `before`.

`RowsReadAsAsked` compares the form with `ask`, while the two others speak of the plan
(`adds`, `removes`) resolved from it: `PlanFollowsLinks` says that for undisturbed items
the plan is the ask restricted to their links. The counts then are those of equal sets,
or of a set and its strays, which the theorem excepts as the property does. Assumption: `ConstantsOK`, which includes that there are
finitely many items.

## 9. The demo sandbox (`DemoReset`)

State and code. `lastReset`, `activity`, `lastUpdate` are the `DemoState` row, `items`
the number of visitor items, `seed` whether the seed rows are as seeded. `lock` is
SQLite's write lock (transactions are `BEGIN IMMEDIATE` in the demo), `depth[w]` the
thread-local of `allow_seed_writes`. `req[w]` is the request a thread serves: its stage
in `DemoResetMiddleware` or its view, and the time `at` that it read on arrival and
goes on using. `handled` is history: the latest reading of a request let through to
its view.

Actions. `Arrive` reads the clock, `Look` the state; `BeginReset` takes the lock and
looks again (`perform_reset`), `CommitReset` or `FailReset` end the transaction,
`WaitTimesOut` is the lock's timeout. `LookAgain` and `Mark` record activity if the
recorded one is old enough. Views count, then write (`Add`, `Write`), claim the update
slot (`AskSlot`, `ClaimSlot`, one conditional UPDATE) or try to change a seed row
(`TouchSeed`, stopped by the signal handlers). `Stop` and `Boot` are the process and
the `demo_reset` command before it. `Tick` keeps every reading at most `MaxLag` old.

### Runs

| run | instance | result |
|---|---|---|
| `demo_reset` | 2 threads, idle time 2, write interval 1, reset and update intervals 2, readings up to 2 old, time up to 7, 1 failing reset, 1 restart, cap 2, up to 2 items at once | `IInv`, `NeverUnderActive`, `FreshWhenDue`, `CapsBounded`, `GatesHold` hold |

Bounds. Seven ticks let the data be reset, used, left idle and reset again, with a
restart. `MaxLag` above the write interval is the interesting case: a slow request
moves the recorded activity back. No fairness is assumed: nothing here has to happen.

What the properties mean. openspec/specs/demo-sandbox-reset/spec.md:86 promises that no
reset occurs while a request was handled within the idle time. The recorded activity
trails by the write interval, which `is_reset_due` adds, and by what a request takes
from its reading to its write; `NeverUnderActive` says exactly how much is left:
the whole idle time when no request takes longer than the write interval (60 s by
default), otherwise less by the excess. openspec/specs/demo-mode/spec.md:94-105 promises the
plain maximum of visitor-created items; the count comes before the insert, so
simultaneous submissions exceed it, and `CapsBounded` says by how much. Seen besides: a failed reset still marks activity, so the
next attempt waits another idle period; an activity UPDATE that times out on the lock
is outside the `try` and answers with an error page (`MarkTimesOut`); a view that
takes long is not activity.

### Proofs

`DemoReset_proofs` proves, for any finite set of threads and any intervals:
`InvariantHolds`, `ResetsSpareVisitors` (`NeverUnderActive`), `DueMeansFresh`
(`FreshWhenDue`), `DistancesAreKept` (`GatesHold`) and `CapsAlmostHold` (`CapsBounded`).

The heart is `ActivityTrails`: the recorded activity is never more than `Trail` behind
the latest request let through, though it can move back. It holds because a request
that skips the write has seen an activity less than `WriteInterval` old, and one that
writes does so within `MaxLag`. A reset in progress stays due (`ResetIsDue`), because
it holds the lock that `Mark` needs. A request that skips the write needs no lock, but
its reading is less than `WriteInterval` after the recorded activity, and so still
more than the idle time before the reset's. `DueUntilReset` gives the distance of two resets:
only a commit of another request comes between a look and its own reset, and the look
under the lock sees it.

For the caps (`CapsKept`), it is the submission that counted last which has room for
itself, and each of the others under way adds at most `MaxAdd`; when one is stored, what
it adds moves from the submissions to the items. `KeptIsBounded` takes the bound from
there. Assumption: `ConstantsOK`, which asks for at least one thread.

## 10. Not modelled

Parsing of vendors' JSON and HTML, `search_scrape`, the providers' look-ups, CRUD
pages and settings: no protocol of their own, and what they compute is formatting or
third-party data. Creating a schedule while the task runs is left out: a new row is as
the initial ones. Of the metadata queue: other items (they only take turns in the
batch), bulk add and bulk edit (the same functions in a loop), deleting the item,
database statements that fail, the demo's inline drain and Huey's immediate mode. Of
prices: the observed category values, the JSON of the chart, paging and sorting of the
list. Of the demo: the allowlist and the demo user (no state), the cap on search
results (looked at once, when a run starts), the race of two bulk adds of the same
text, the seed's content and its generated history.
