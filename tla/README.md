# A TLA+ verification of the TrackIt integration

The repository is a FastAPI service that runs *actions* for integrations of the
Gundi platform. Its one periodic action pulls vehicle positions from the TrackIt
web service, drops what it has already sent, and posts the rest to Gundi. It is
invoked by Pub/Sub messages and HTTP requests, keeps its state in Redis, and reports every
run as events that the portal shows to an operator.

The project models the parts of the service that have state or a protocol, checks
them with TLC on small instances, and proves the safety of the central ones with
TLAPS for every value of their parameters. Each module says at its top what it
models; `PROJECT.json` maps every definition to the lines it stands for.

## 1. Inventory

Paths are below `src/app/`.

| Component | State | Operations | Hard because |
| --- | --- | --- | --- |
| Observation pull: `actions/handlers.py` | per device, a *watermark* in Redis: the time of the last fix sent, in the device's own clock; per gather, a semaphore | `action_pull_observations`, with `_gather_limited`, `parse_watermark`, `transform`; `action_auth` | overlapping invocations, retried and cancelled posts, half-failed gathers, slots of a semaphore, wrong device clocks, leftovers in Redis |
| TrackIt client: `actions/client.py` | the HTTP session and attempt of a call | `get_token`, `get_live_data`, parsing of rows | failed logins with status 200, transport retries, exceptions that are two things at once, bad rows |
| State store: `services/state.py` | Redis keys | `get_state`, `set_state`, `set_if_absent`, `delete_state` | a reply that is lost after the command was applied |
| Action runner: `services/action_runner.py`, `main.py`, `routers/actions.py` | one run's locals; the message that started it | `execute_action`, `_handle_error`, the skips; `POST /`, `/push-data`, `/v1/actions/execute` | many exits, faults while reporting faults, timeouts, redelivery |
| Skip throttle: `_skip_invalid_config` | one Redis key with a time to live | take the key, then warn | overlapping runs, a store that is down, lost replies |
| Activity logger: `services/activity_logger.py` | none | `publish_event`, `activity_logger`, `webhook_activity_logger` | its publishing runs inside the action's timeout and may itself raise |
| Error taxonomy: `services/errors.py` | none | `classify_error`, `format_classified_error` | the same signal means different parties |
| Configuration cache: `services/config_manager.py` | Redis keys: the summary, one per action, one for the webhook (or a sentinel) | lookups that reload from the portal, stores, deletes | reloads race with events and with each other |
| Configuration events: `services/config_events_consumer.py`, `routers/config_events.py` | none | six handlers; two read, change and write back | order, overlap, crash in the middle, errors that are acknowledged |
| Webhook processing: `services/webhooks.py`, `webhooks/core.py`, `routers/webhooks.py` | a request's locals; a lazily made HTTP client | `get_integration`, `process_webhook`, diagnostic forwarding | error clauses that use what may be unbound, publishes that raise, tasks nobody waits for |
| Application: `main.py`, `services/self_registration.py` | the phase of the process | `lifespan`: registration, shutdown | registrations that took effect and raised, closing while something is still used |
| Action configurations: `actions/configurations.py`, `actions/core.py` | none | `utc_offset_to_tzinfo`, validation, handler discovery | offset changes between runs |
| Gundi sender: `services/gundi.py` | none | `send_observations_to_gundi` with retries | a post that timed out may have been accepted |
| Scheduling, utilities, settings | none | `trigger_action`, `CrontabSchedule`, UI schemas, `generate_batches` | little |

**Interaction.** A Pub/Sub message or a request reaches a route, which calls
`execute_action`. It asks the configuration cache, which reads Redis or reloads
from the portal; it may skip, through the throttle; otherwise it runs the handler
under `asyncio.wait_for`, inside `activity_logger`. The pull calls TrackIt, reads
watermarks, posts to Gundi and writes watermarks. Failures come back to
`_handle_error`, which publishes an event and answers. The portal's configuration
events change the cache from another route. Everything runs on one event loop per
process, with any number of processes: two pieces of code interleave at every `await`, and
share only Redis.

**What makes each correct.** *Pull*: no fix is dropped as "already sent" unless
it, or a newer one, was sent; nothing is recorded that was not sent; nothing
recorded is sent again when runs do not overlap; no device is blocked for ever.
*Collapse*: the newest valid row of a device wins; the offset never hides data.
*Runner*: a failure that is answered is reported; push data with a destination is not acknowledged
away; only scheduled pulls skip; a run has one verdict; the right party is blamed.
*Client*: an operator is told of refused credentials exactly when TrackIt refused
them; an answered call is not repeated; nothing is left open. *Gather*: the cap holds, every
operation is tried, none outlives its caller. *Webhooks*: an answer hides no
failure; what stays unreported does so for a known reason. *Application*: it serves what
it has registered, and closes what it opened. *Throttle*: not too many warnings and not none. *Cache*: it converges to
the portal; a run is not told that a configured action is unconfigured; nothing
cached for a time stays for ever.

## 2. Modules

| Module | Models | Composes or implements |
| --- | --- | --- |
| `PullObservations` | the pull, by any number of invocations | implements `DeliveryLog` |
| `DeliveryLog` | what the pull promises: a log of deliveries and a checkpoint per device | |
| `TrackitClient` | the calls to TrackIt of one action, and what the operator is told | |
| `CollapseRows` | what the pull makes of one snapshot | |
| `GatherLimited` | concurrent Redis operations under a semaphore | |
| `PullPipeline` | one invocation up to its last decision | `TrackitClient`, `CollapseRows`, `GatherLimited`; implements one invocation of `PullObservations` |
| `ActionRunner` | one message or request, its run, its events and its acknowledgement | implements `RequestLedger` |
| `RequestLedger` | what is promised of a request: the ways in which it is settled, and what the feed then says | |
| `Lifespan` | one process: registration, shutdown, the diagnostic client | |
| `Webhooks` | webhook requests and the forwarding of their payloads | extends `Lifespan` |
| `Service` | the process with its requests, and the process that takes over | `ActionRunner`, `Webhooks` |
| `SkipThrottle` | the throttle on configuration warnings | |
| `ConfigCache` | the configuration cache, its readers, and the events that write it | |
| `*Proofs` | the strengthened invariants of the module of that name, theorems and proofs; `PullPartsProofs` is about `TrackitClient` and `GatherLimited` | |
| `MC_*` | symmetry sets and small constants for TLC | |

They fit together through their data. `PullPipeline` is `ExtractVehicles`,
`ReadState` and `CallRaises` of `PullObservations` in detail, for one invocation:
`ImplementsPull` says so, is checked and is proved. What `CollapseRows` keeps of the rows (one per
device, the newest) is there the function `seen`, taken from the feed in one step; what
`GatherLimited` carries out is one `ReadState` per device, and a failure or cancellation of anything
is one `CallRaises`. The writes of a batch are a gather too: what `GatherLimited` proves (all operations end
before the caller goes on, a failure is heard) is the guard of `GatherRaises`. The pull is `RunHandler`
of `ActionRunner`, where it is an outcome, and `ActionRunner`'s `TimesOut` and `Crash` are the
pull's `Cancel`. `Service` leaves `ActionRunner` as it is: every step of the service is a step of the
runner or does not concern it (`ServiceRunsTheRunner`), so the runner's promises, its ledger among
them, are the service's.
`SkipThrottle` is `Throttle` and `Warn` of `ActionRunner` in detail, for many runs.
`ConfigCache` gives the answers that `GetDetails`, `ConfigAbsent`, `ConfigUsable` and
`GetIntegration` choose freely.

### PullObservations

`feed` is what TrackIt reports, `watermark` the Redis keys, `delivered` what Gundi
has accepted, `clock` UTC. `pc[r]` and `run[r]` are an invocation's place and its
locals. The steps are the handler's awaits:

- `StartPull`: the configuration and `now` are read, and with them the horizon
  `now + MAX_FUTURE_SKEW`, expressed in device time under the configured offset.
- `ExtractVehicles`: the two TrackIt calls, and one row per device.
- `ReadState`: one read of the prefetch, with the decision on that device. The code
  decides after the whole gather; a decision reads only the locals and the value
  read, so it commutes with the other reads (`ImplementsPull` shows that). The horizon was fixed before.
- `SendBatch`, `Accepted`, `PostRaises`: one batch is posted; a failed post may
  have been accepted, and stamina tries again up to `MaxAttempts` times. Which
  devices form a batch is a free choice, because the order of the feed is.
- `SaveState`, `SaveRaises`, `GatherRaises`: the writes of a batch in any order,
  each failing or not; the failure is raised when all have settled.
- `Cancel`: the timeout, or the death of the process, at any await.

A key may hold a time, nothing, a JSON object whose time does not parse
(`Garbled`), or what `json.loads` or the comparison rejects (`Unusable`).

### TrackitClient

`action` is which action calls, `call` the endpoint or where the action went after it. A
request is sent (`Post`), and is answered, fails below HTTP, or is cancelled. An answer is
one of the kinds that the code tells apart; `ExceptionOf` is the exception it becomes,
`Classify` what `classify_error` sees in that, `Report` what `action_auth`'s clauses, or
for the pull the runner, say in the end. A login that TrackIt rejects with status 200 is an answer
(`rejected`), and so is a token without the success flag. `open` holds the HTTP sessions:
the pull's spans both calls, `action_auth`'s is one per attempt.

### GatherLimited

`ops` is the state of each operation, `slots` the semaphore's value. Operations take a slot,
end well or badly, and give it back; a cancelled gather cancels what has not ended; `Settle`
is the caller going on, which `return_exceptions=True` allows only when all have ended.

### PullPipeline

The three in the order of the handler, one invocation: TrackIt's answer is any snapshot
and Redis holds anything; the devices with a fix are the operations of the
prefetch; the decisions come after it. Between awaits nothing interrupts the handler, so
`Interrupt` is possible during the calls and the prefetch but not in the loops. An unusable
value may fail its read (it is no JSON) or end well and fail the decision (`.get`, the comparison):
`Fetch` and `Judge` allow both.

`ImplementsPull` maps it to the single invocation `Me` of `PullObservations`. `Newest(d)` is what
TrackIt reports of a device; the locals of the invocation are `seen`, which is empty until the rows
have been read (`Seen`), `waiting`, the operations that have not ended well, and `todo`, the devices that
`new_items` will have once the last read is in, and then has (`Wanted`, `new`). So a device is decided
on, in the abstract, when its own read ends, and in the code after all of them: the two
agree because nothing that a decision reads changes in between. A device whose stored value is
unusable is never decided on: it stays in `waiting`, and its failure is a `CallRaises`. The rows of the feed are
given from the start in `PullPipeline` and read one by one; the mapping hides that, and
the order of the rows with it.

### CollapseRows

The row loop of the client and the two loops of the handler, a row or a device per
step. Times are `1..MaxTime`, the whole range that `datetime` represents, so the
conversion to UTC can leave it (`Overflows`). `stored` is what Redis holds: a time, nothing or a
time that does not parse (`Absent`), or what fails the loop (`Unusable`: a JSON value without
`.get`, a time with an offset, or no JSON at all). The decisions on devices are taken in
any order, as they are independent; one that raises (`DecisionRaises`: an unusable value,
or a new fix whose conversion overflows) ends them all.

### ActionRunner

One message: its delivery goes through the places `details`, `lookup`, `config`, ...,
in the order of `execute_action`. An exception is a party (`who` failed) and a form:
what `classify_error` can see in it. An event is `blamed` when its text says that the
provider failed. `Answer` ends a delivery: `POST /` answers 200 whatever
`execute_action` returned, the other routes return its status, an exception is
a 500; a Pub/Sub message without a 2xx answer is queued again. A run in the background
(`run_in_background` of the API, or `POST /` under `PROCESS_PUBSUB_MESSAGES_IN_BACKGROUND`) is answered
before it starts, so however it ends it is `done`. A handler with the
`activity_logger` decorator (`logged`) publishes Started, then Complete or Failed,
inside the timeout; `action_auth` has no decorator. `/push-data` is modelled for
the runner's contract: this repository registers no push action yet.

`body` is what may be wrong with a request before or in its run. One that does not parse
(`unreadable`) is refused by the API with 422 and is a 500 of the other routes; a pushed message without
`destination_id` (`unaddressed`) is acknowledged and dropped, with no run and no event; both are
`TurnAway`. One with a field of an unexpected type (`odd`) starts a run, which raises where the field is
used, outside any `try` (`Stumble`), unless another failure is reported first.

`RequestLedger` sees of all this where a request is: waiting, at work, at work with its sender already
answered (`detached`), or settled; how the last delivery was answered; and which types of events it left.

### Lifespan, Webhooks and Service

`phase` takes a process from start-up (with up to `MaxTries` registrations, if the setting
asks for it) through serving to shutdown, which closes the portal client and then the
diagnostic client. `aclose()` is an await: the global is reset after it
(`diagnostic = "closing"`), and a forwarding task may take the closing client, or make another
afterwards. `quiet` records that no payload was still to be forwarded.

A webhook request goes through `stage` in the order of `process_webhook`. `bound`
is the set of its local variables that have been assigned, which the last clause's report
needs; `exception` tells which clause catches what was raised; `events` is what Pub/Sub
took, `trouble` that a publish raised (after which the event may or may not be there).
The integration's handler is missing, as in this repository, or present with
or without `webhook_activity_logger`; `typeWebhook` is whether the type has a webhook in
the portal, which registration sets when there is a handler. A forwarding task is
detached: nobody waits for it.

`Service` adds `ActionRunner`: requests need a process that serves, a process that died or shut down
is replaced. An action request and webhooks share nothing else, so a behaviour has
either one action request or a few webhooks.

### SkipThrottle

`key` is the Redis key, with a ghost: whether some run was told it was
first. A call that raises may have set it; stamina repeats it; when it keeps
failing the run warns. `owed` counts the windows opened minus the warnings that
the portal got.

### ConfigCache

One integration with its summary, its actions and its webhook. A configuration is,
per field, the number of the edit it comes from, which is all that staleness needs.
A process is in a lookup (`Get`), at the portal (`Fetch`), storing what it got key
by key (`Store`), or writing an event (`Write`). A run looks up all keys
(`get_integration_details`) and then the action's again; a webhook request does so
with a time to live; an updated event looks up its key, which may reload, and writes it back
changed. An event is answered with 200 whatever became of it, unless the process dies.

## 3. Runs

A run passes unless it is called a violation: then TLC finds the counterexample.

| Run | Instance | Shows |
| --- | --- | --- |
| `pull_overlap` | 2 invocations, 1 device, 3 times, 2 faults, 2 offsets, parseable leftovers | `WatermarkBacked`, `NoSilentGap`, `NotPoisoned`, and `DeliveryLog` without order is implemented, under any overlap; `FixDelivered` once faults stop |
| `pull_serial` | one invocation at a time, 3 devices in batches of 2, 2 faults, all leftovers | `NoNeedlessResend`, `EarlierBatchesRecorded`, and `DeliveryLog` with order is implemented |
| `pull_crash_loop` (violation of `FixDelivered`) | 2 devices, leftovers with `Unusable` | one such value stops the whole fleet |
| `pipeline_safety` | both actions, all answers of TrackIt, 3 attempts; all snapshots of up to 3 rows, 2 devices, 2 times, 3 offsets, all stored values, `Unusable` included; 1 slot | `NewestRowKept`, `NoOffsetGap`, `DecidedOnWatermarks`, `NothingLeftRunning`, `RefusalIsToldAsSuch`, `CallVerdictHasEvidence`, `AnswerEndsRetries`, `SlotsAccounted`, `EveryOpTried`, `EveryActionEnds`; the invocation is one of `PullObservations` (`ImplementsPull`) |
| `service_safety` | 2 registrations; one action request (3 routes, all kinds, well formed or not, in the foreground or background, 3 faults of 6 kinds) or 2 webhook requests with their forwarding tasks | `AnsweredErrorIsReported`, `SkipsOnlyOnSchedule`, `OneVerdict`, `DetailsNotBlamed`, `NoFailureHidden`, `UnreportedOnlyIf`, `OneHookVerdict`, `ServesAsRegistered`, `ClosedAtExit`, `PubSubSettles`; `RequestLedger` is implemented |
| `runner_portal_blamed` (violation of `PortalNeverBlamed`) | no faults but the handler's | the portal's failure inside the handler reads as the provider's |
| `runner_unreported` (violation of `FailedRunPublishes`) | the second lookup fails | a run fails without an event |
| `throttle_safety` | 3 runs, 2 attempts, 3 faults | `OneWarningPerWindow`, `StaysNoticeable` |
| `throttle_first` (violation of `FirstGetsTrue`) | 1 run, 1 fault | a lost reply costs a window its warning |
| `cache_serial` | 1 process, action runs and webhook requests, 2 fields, 2 edits, a crash | `Fresh`, `RunSeesPortal` |
| `cache_overlap` | 2 processes, 2 edits, unordered events, a fault | `NoFalseAbsence` |
| `cache_mixed` (violation of `WebhookRefreshed`) | 1 process, action runs and webhook requests | the webhook key becomes immortal |

Each run that passes first checks the type invariants of its modules, except `pull_serial` and
`cache_overlap`, whose modules another run has checked.

**Bounds.** Every counter has a named bound: `MaxTime`, `MaxClock`, `MaxAttempts`,
`MaxFaults`, `MaxRows`, `MaxTries`, `MaxEdits`. They were chosen so that the cases that
matter happen: two faults let a write fail after a post failed; two attempts make a
retry and a last attempt; three devices in batches of two make a full batch and a
rest; two overlapping invocations are all that a race on one key takes; three
rows make a repeated device with another, or a bad row, in between; one slot for two
reads makes one wait, and a slot that is lost is missed at once; two webhook requests are all
that share the diagnostic client, and one may forward while the other makes it; two edits
change two fields, or change and delete, or delete and create again. The real sizes (200
observations, 5 attempts) change no branch. Devices are independent except for
batches, which is why overlap is checked on one device and batches without overlap;
the proofs below remove the bounds where they exist.
`CHECK_DEADLOCK FALSE` is said where a behaviour ends: a snapshot that has been
decided, a request that has been answered.

**Fairness.** `PullObservations`: the portal keeps scheduling the action (its crontab
is `*/10 * * * *`) and the event loop keeps running an invocation; faults are bounded, so they stop.
No fairness is asked of devices, of the clock or of a particular invocation's start.
`PullPipeline`: the event loop keeps running the action, its requests end (they have
timeouts) and its Redis operations end (their retries are bounded); that `wait_for` ends it
is not counted on. `Service`: a run that has started goes on, a process that ended is replaced and one
that shuts down ends; a registration that is tried again and again succeeds at some time, and Pub/Sub,
redelivering again and again, at some time finds the service serving. `PubSubSettles` speaks of well-formed
messages: one that does not parse, or that raises in the run by its own fault, comes back for ever, fair or not. Of webhook
requests nothing is demanded.
`SkipThrottle`: runs keep coming, a call in progress is answered, Redis expires keys.
`ConfigCache`: Redis expires keys that have a time to live, calls are answered.

## 4. What is proved

`ASSUME`s of the modules are the only hypotheses: bounds are naturals, batch size
and attempts are positive, the set of devices (or of runs) is finite, there is an offset,
and the markers for absent or unreadable values are no times and no configurations.

**PullObservationsProofs.** For any number of invocations, devices, offsets, faults
and attempts:

- `TypeCorrect`, `Backed`, `NoGapEver`, `NeverPoisoned`: the invariants of `pull_overlap`.
- `NoResend`, `RecordedBeforeNextBatch`: those of `pull_serial`.
- `Monotone`: assuming `Serial`, watermarks only move forward. (No run checks this by itself; the ordered
  `DeliveryLog` implies it.)
- `Refinement`: `Spec => ImplementsDeliveryLog`, with and without overlap.

None of the properties is inductive. `WatermarkBacked` needs to know that
what an invocation is about to record has been accepted, `NoSilentGap` that what it has
sent has, `NotPoisoned` that what it has queued is within its horizon, and that the
horizon is within the clock of now: this is `Bookkeeping`, one `Kept(r)` per
invocation, which an invocation's own steps change and the others' steps only widen
(`delivered` and `clock` grow). Without overlap, `SerialBookkeeping` adds that at
most one invocation is busy, that what it has still to send or to record is newer than
the watermark, and that what it has recorded is the watermark. `IInv` is the
conjunction; each action is a lemma. That nothing is posted twice where nothing fails
(`NoNeedlessResend`) needs one more fact, `Settled`: as long as there is no fault, what Gundi
has accepted of a device is at or below its watermark, except for the batch whose writes are
in progress. `Once` states it of all devices and invocations. The refinement maps a watermark to the time
that `ParseWatermark` reads in it: an accepted or half-failed post is `Deliver`, a
write `Record`, everything else a stutter.

**CollapseRowsProofs.** `TypeCorrect`, `NewestWins` and `NoGapByOffset` for any
snapshot, offset and stored values. `IInv` adds to `NewestRowKept`, which speaks of the rows
read so far, that nothing is decided before the rows are read (`Undecided`), and that
afterwards every device with a row is pending, sent, skewed or known, unless the decision on
one raised, which only its unusable value or a new fix beyond the calendar does (`Decisions`).

**SkipThrottleProofs.** `TypeCorrect` and `Throttled` for any number of runs.
`OneWarningPerWindow` is inductive: what is owed and the number of runs about to warn differ by no more than
the faults. A run that is told it is the first opens a window as it turns to its warning, and
pays as it leaves it; a failed call, or a death, is wrong by one at most (`Paid`). The
lemma `WarningMoves` counts the runs.

**PullPartsProofs.** The parts of the pull that other modules extend. Of the client, for any
number of attempts: `ClientTypeCorrect`, `RefusalsAreTold`, `VerdictsHaveEvidence`,
`LoginFirst`, `AnswersEndRetries` and `SessionsClose`. `ClientInv` adds where an action is to what has
been answered: no verdict before the end, no answer of the current call while it is
called; what remains is that each answer's exception gives the right verdict. Of the gather,
for any finite set of operations and any limit: `SlotsAreAccounted`, `NoOrphanedTasks` and
`EveryOpIsTried`. The slots need cardinalities: an operation that starts adds one element to
those running, one that ends removes it.

**PullPipelineProofs.** The composition keeps what its parts promise (`PromisesCompose`): each
step of `PullPipeline` is a step of one part and leaves the variables of the others
alone, or is `Interrupt`, which ends the client and cancels the gather at once. Of the whole
it proves `ActionsLeaveNothing`, `DecisionsFollowReads` and `CallVerdictsHaveEvidence`.
`PipelineInv` says in which order the parts run: no gather before the calls have
ended well, its operations exactly the devices with a fix, and nothing decided
until it has settled without a failure.

`PullRefinement` is the step of refinement from there to `PullObservations`, whatever the rows,
stored values, offsets, limit and attempts are: `PipelineSpec => ImplementsPull`. Each kind of step
maps to a step of the invocation or leaves its place and locals alone: the last row to
`ExtractVehicles` (`ExtractMaps`), a read that ends well to `ReadState` (`ReadMaps`), every way to
fail to `CallRaises`, all others to nothing. Three facts carry it: the fix that `CollapseRows` keeps is the newest of the
feed, by `NewestRowKept` when the last row is in (`KeptIsNewest`); whether a device is wanted, said by
`Known` and `TooFarAhead` with the conversions to UTC, is what `IsNew` and the horizon say in
device time (`NewIsWanted`); and what the decision loop has put in `new` so far, with what it has still to
look at, is what was wanted (`Judged`).

**ActionRunnerProofs.** All six invariants of `ActionRunner`, for any routes, faults and
number of faults. `PlaceTells` is the strengthening: where a run is tells what it can have
published (Complete and Failed only after a disturbance) and what can have gone wrong.

`PushDataIsKept` is about messages that name a destination, as the code is: the others are dropped.

`LedgerRefinement`: a run implements `RequestLedger`, over any number of deliveries. The exits of
`execute_action` (skips, errors, exceptions, timeouts, deaths) become one step, `AnswerWith`,
that has to earn its answer: *ok* means exactly Started and Complete in the feed, or nothing
if the handler does not report itself; *skipped* means a schedule and at most a warning; *error* means a
failure in the feed; and only trouble outside the handler, or an odd field, leaves a delivery without
an answer. What is turned away leaves nothing in the feed: *dropped* is said of a pushed message without a
destination only, *refused* of an API request that does not parse. A request in the background
is settled however its run ends, so of it the ledger promises no more than that the feed tells the truth.
Where the ledger needs to know that only a good body gets beyond the configuration, `PlaceTells` says so (`Beyond`). `FeedTells` is the invariant it takes: the feed at each place, exactly; what a step can add is one
event, given by the place (`Says`).

**ServiceProofs.** All invariants of `Webhooks` and `Lifespan`, for any number of webhook
requests and attempts to register, as invariants of `Service`. `Traced(w)` says of one request
what its stage tells of its locals, its events and its exception: a step of one request
changes only its own record (`RequestStep`), and each action has a lemma. `LifeTells` says
that requests are worked on only while the process serves, and that after a quiet shutdown
nobody is left to ask for a client. `NoFailureHidden`, `UnreportedOnlyIf`, `OneHookVerdict`
and `ClosedAtExit` follow from the two (`HookInvImplies`).
Of the composition: `ServiceRunsTheRunner` (what becomes of an action request is a behaviour of
`ActionRunner`), `ServiceKeepsItsWord` (its invariants hold in the service, which is what
`service_safety` checks) and `ServiceLedger` (so does its refinement).

**ConfigCacheProofs.** `AbsenceIsReal` for any actions, fields, readers, edits and faults: what
the portal lacks now every run knows it has lacked (`JobTells`), and a reload
stores nothing for an action that it finds lacking. `SerialFresh` and `SerialRunSeesPortal`
assume `Serial`: one request or event at a time, events in order, no call that raises
(processes may die, reloads run ahead of events, keys expire, edits come at any
moment). `Fresh` speaks only of an empty queue; `SerialInv` says what holds with events
outstanding. The last event that touches a field of a configuration says what
the portal has in it (`Tells`); a field that no outstanding event touches is in the cache, in a reload's
answer and in an update's locals as it is in the portal (`Agrees`). So an edit, which
appends its event, and an answer, which takes the first event off after its handler
has written what it says, both keep the invariant, and an empty queue makes agreement
equality. The lemmas `AppendTells`, `TailTells`, `CreatedAgrees` and `UpdatedAgrees` state
this of any queue; each action has a lemma.

**Only model-checked.** Liveness under fairness (`FixDelivered`, `PubSubSettles`,
`StaysNoticeable`, `EveryActionEnds`) is beyond the prover. All other properties of the passing
runs are proved.
The violations are counterexamples and need none.

## 5. Where the code and its documents disagree

Each is a run with `expect: violation`, listed with its lines in `PROJECT.json`.

1. `pull_crash_loop`: `parse_watermark` promises that one corrupt key cannot become a
   crash loop, but `get_state` parses JSON outside any handler.
2. `runner_portal_blamed`: Gundi's failures inside the handler are published as the
   provider's.
3. `runner_unreported`: the second lookup of the configuration is outside any
   `try`, so its failure publishes nothing.
4. `throttle_first`: a lost reply of `SET NX` makes `set_if_absent` deny its own setter.
5. `cache_mixed`: the webhook configuration is cached for 60 seconds only if a
   webhook request was the first to load it.

One more is bounded by a property instead of shown by a run. A time too far in the future is meant to be
skipped (`handlers.py:35-37`), but one at the very end of the calendar, west of
Greenwich, overflows in `astimezone` first (as does one at the very beginning, east of
it), and the pull fails. `DecisionRaises` has this and the unusable values of the first
disagreement, and `NoOffsetGap` says that only these fail the decisions, and only for
devices that have a fix.

Others were met while modelling and are part of the models, but a run would show no more than
the lines do:

- The design document expects `classify_error` to read the statuses 404, 429 and 5xx of a provider. TrackIt's
  exceptions carry no `.response`, so these stay unclassified (`ExceptionOf` and
  `Classify` of `TrackitClient`).
- The last clause of `process_webhook` uses `webhook_config_data` and `integration`, which may be
  unbound; the report then raises as well (`bound` of `Webhooks`).
- Its first clause reads `integration.type.webhook.value`, which does not exist when no
  handler was registered: "Webhooks handler not found" is never published for this
  repository's own registration. A handler's own `AttributeError` reads there as a missing handler.
- A failure of a handler that has `webhook_activity_logger` yields two Failed events.

Limits that no document contradicts, and that the properties therefore leave open: with
overlapping invocations a watermark may move backwards, and a fix be sent twice;
collapsing comes before the skew check, so a device whose newest row
is in the far future loses its genuine older row in that pull; a `/push-data` message
whose data type has no handler is redelivered for ever, and so is a Pub/Sub message that does not parse
(`main.py:77-80`, `111-115`) or has a field of an unexpected type, a `config_overrides` that is no object for instance
(`action_runner.py:253`): only a missing `destination_id` is acknowledged; a run in the background is lost when its
process dies, and its failures are seen in the feed at most; a timeout that cuts in while the session of a call is
being closed (`client.py:35`, `handlers.py:138`), after TrackIt has answered, would still
read as unreachable, as the close is not a step of `TrackitClient`; configuration events that
overlap, are reordered or raise leave the cache stale until its keys are deleted, so `Fresh`
and `RunSeesPortal` are claimed for one request or event at a time, in order; activity
events are lost when a process dies, and so are webhooks that are processed in the background;
a timeout of Redis or Gundi inside an action reads as "Could not reach the provider"; a
portal client that raises when it is closed (`main.py:31`), or a forwarding task that is
late, leaves the diagnostic client open.

## 6. What is not modelled

- *Late effects.* A Redis write that was cancelled or timed out is applied at once or never,
  not later. A bulk post to Gundi is accepted whole or not at all.
- *Blocking retries.* The synchronous `stamina.retry_context` loops of `state.py` and
  `config_manager.py` sleep on the event loop's thread; this delays other runs of the
  process and is only seen as time.
- *Several integrations.* Keys carry the integration's id, so one is modelled.
- *Text.* Wording, logging, URLs, schemas and UI hints; of an event's text only whether it
  blames the provider.
- *Payloads of webhooks.* Their transformation by a schema is an outcome; the repository has no
  handler of its own.
- *Stateless parts.* The declarations that a registration sends, handler discovery, settings,
  `utils.py`, the senders and `trigger_action`, which have no caller, and `CrontabSchedule`,
  which is used once, at import, with a constant. (Its patterns for hours, days and
  months do not group their alternatives, so a range like `8-17` is rejected; no schedule here has one.)

## 7. Plan

Done, in this order: `DeliveryLog`, `PullObservations` and its proofs, `ActionRunner`,
`CollapseRows` and its proofs, `SkipThrottle` and its proofs, `ConfigCache`;
`GatherLimited`, `TrackitClient` and their composition `PullPipeline`; `Lifespan`, `Webhooks` and
their composition `Service`; the proofs of all of these, of `ActionRunner` and of `ConfigCache`; the
refinement from `PullPipeline` to `PullObservations`; `RequestLedger` and the refinements from
`ActionRunner` and `Service` to it.

Next:

1. The pull's writes (`SaveState`, `SaveRaises`, `GatherRaises` of `PullObservations`) as a refinement of
   `GatherLimited`, as its reads are in `PullPipeline`.
2. `ActionRunner` over `SkipThrottle` for many runs, and over `ConfigCache` instead of free outcomes.
3. What holds of the configuration cache when events overlap, beyond `NoFalseAbsence`.
