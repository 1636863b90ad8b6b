# A TLA+ specification of the End Close relay

The relay takes webhooks from payment processors, keeps them in a local store,
and forwards them, mapped and masked, to End Close in bulk requests. It promises
its senders that a `200` means *buffered*: from then on an event is delivered at
least once or parked for an operator, whatever crashes, fails or is paused.
This directory states that promise and what the parts around it promise, checks
them on small instances with TLC and proves their safety with TLAPS for every
instance.

## The system

| part | state | operations |
|---|---|---|
| event store (`core/engine/store.ts`, `memory-store.ts`, `store-sqlite/repo/events.ts`) | the events table: status, attempts, received_at, next_attempt_at, claimed_by, lease_until, payload, idempotency key | insert, claimDue, mark\*, releaseDelivering, recoverDelivering, parkExpired, pruneBatch, replay |
| dispatcher (`core/forward/dispatcher.ts`) | running, wakeRequested, two promise chains, reclaimOwner, lastSweepAt; the locals of the cycle in flight | wake, start, stop, runOnce; cycle (sweep, killswitch, one batch per due route), deliverBatch, postWithRetries, settleResults, releaseLeftover, prune |
| mapper and enrichment (`core/forward/mapper.ts`, `enrich.ts`, `mask/`) | the host's calls that still run | mapEvent, resolveEnrichments |
| End Close client (`core/forward/endclose-client.ts`) | none | bulk POST, result poll, configuration, manifest |
| webhook ingest (`core/engine/ingest.ts`) | the requests in flight | route lookup, killswitch, verification, insert, answer |
| assembly (`core/engine/relay.ts`) | none | start, stop, flush, dispatchOnce, prune |
| routes of embedded hosts (`core/engine/remote-config.ts`) | the document held, the request under way, holds | get, all, refresh, announce |
| application (`apps/relay/src/index.ts`, `config/`, `forward/manifest.ts`) | configuration, ETag and hash, who owns it; mode of the process | boot, poll, apply, repair, restart, report |
| admin plane, CLI, UI (`apps/relay/src/admin`, `cli`, `ui`) | what their users see and type | killswitch, route pause, replay, configuration apply |
| SQLite plumbing (`store-sqlite/migrations.ts`, `busy.ts`, `apps/relay/src/db`) | schema, applied migrations, kv | migrate, withBusyRetry |
| adapters, schema, hooks, metrics | none | pure computation, observation |

Everything meets in the database. Ingest only inserts; the dispatcher moves rows
through `pending -> delivering -> delivered | retry | parked`; operators move
`parked` back to `retry`; retention wipes and deletes terminal rows. Several
instances may share one store, and then only `claimed_by` and `lease_until` keep
them apart. The configuration decides which routes ingest and dispatcher serve;
operators and End Close both write it. Inside one Node process interleaving
happens at `await`s; between processes, at every store call.

What is hard: a crash between any two store calls; an answer of End Close that is
lost after the batch was taken; a store call that fails inside the handling of
another failure; leases that run out under a batch still at work; operators who
act in the middle of a cycle; retention beside the cycles; the same webhook
twice at once; a wake or a flush that meets a cycle about to end; answers about
the configuration that come late or are written down in part; enrichments that
answer after their deadline; two processes that migrate one file. `PROJECT.json`
lists these hazards, each at its line.

## Modules

- **`EventStore`**: one operator per store call, from a table to a table. A call
  is one SQL statement or transaction, hence one atomic step of whoever makes it.
  Timestamps are naturals; columns that are only displayed are left out.
- **`Dispatcher`** extends it: any number of instances run `cycle()`. `pc[i]`
  names the await instance `i` stands before, so a step is one store call,
  control read or HTTP request with the synchronous code around it. `todo`,
  `mapped`, `bad` and `claimed` are the locals of `deliverBatch` and
  `settleResults`; a claim holds the copy of the row that `claimDue` returned, so
  what the code later decides on is as stale in the model as it is in the code.
  Around the cycles: the clock, ingest, operators, retention, crash, stop and start.
- **`Delivery`**: the abstract specification. An event is unknown, waiting, held,
  delivered, parked or filtered, and has been taken by End Close or not; the
  allowed moves are the promise. `Dispatcher` maps its table to it
  (`EventStage`) and `KeepsPromise` says that it implements it.
- **`RelayHost`**: one relay object in its host. `inFlight` and `pruneWork` are
  sequences of entries of which the head runs; `wake`, `start`, `stop`,
  `dispatchOnce`, `flush`, `prune`, timers and failures append to and take from
  them. A cycle is its awaits; what it does to an event is one step.
- **`Ingest`** extends `EventStore`: the handler as concurrent requests, with
  the sender that may lose an answer and send again. The dispatcher appears only
  as what it makes of a row: delivered, parked, aged out.
- **`Mapping`**: `mapEvent` as an algorithm over documents, the rule of the schema
  on sensitive names, and `resolveEnrichments` as a process with calls that time out
  and answer late. A document is a function from paths to nodes, not a nested
  structure, so that what a path finds, what a transform rewrites and what the
  denylist redacts are said of all leaves at once, without recursion.
- **`RemoteRoutes`**: the route provider of an embedded host, with concurrent
  lookups, one request that they join, and an End Close that changes its document
  and its mind meanwhile.
- **`RelayApp`**: the process of the application from boot to exit, the database
  that survives it, `RemoteConfigManager`, the admin calls that change the
  configuration, and the manifests that report it.
- **`ConfigEditors`**: the Config tab of the page and `relayctl config edit`, as
  clients with requests under way, on a relay that others change and that restarts.
- **`Database`**: the migrations of store and application by processes that
  start, race, crash and find the file locked; the retries of a write.
- **`MC*`**: values for the constants. **`DispatcherProofs`**: types, lemmas on
  the store's operators, the theorems that hold with any number of replicas whose
  leases run out, then those about one relay and about replicas whose batches end
  in time (the refinement of `Delivery` and what a delivery is worth). **`IngestProofs`**,
  **`DatabaseProofs`**, **`RemoteRoutesProofs`**, **`RelayAppProofs`**,
  **`RelayHostProofs`**, **`ConfigEditorsProofs`** and **`MappingProofs`**: the
  theorems about the module each is named after.

How they fit: `Dispatcher` is the centre. `RelayHost` says when its cycles begin,
`Mapping` what `MapEvent`, `ParkUnmappable` and `RetryOne` decide, `Ingest` what
`IngestInsert` stands for, `Database` when a store call fails after its retries,
`RelayApp` and `RemoteRoutes` when `known` and `paused` change, `ConfigEditors`
who calls `POST /config`.

| model | code |
|---|---|
| `BeginCycle`, `Recover`, `Park`, `CheckKillswitch`, `ListDue`, `NextRoute`, `FinishCycle`, `ClaimBatch` | `cycle` in order |
| `MapEvent`, `ParkUnmappable`, `RetryOne`, `Undecoded` | the map loop of `deliverBatch` and its three catches |
| `PostAccepted`, `PostTransient`, `PostUnreadable`, `PostRefused` | `postWithRetries` and the client's errors |
| `PollAgain`, `PollGivesUp`, `PollResults`, `SettlePark`, `SettleOk` | `settleResults` |
| `ParkBatch`, `RetryBatch` | the catch of `deliverBatch` |
| `ReleaseLeftover`, `ReleaseThrows` | `releaseLeftover` and its catch |
| `SweepThrows`, `CycleThrows`, `SettleThrows`, `BatchThrows` | where an exception of a store call goes |
| `LookupRoute`, `CheckRequest`, `InsertEvent`, `StoreFails` (Ingest) | `ingestInner`, `ingestWebhook` |
| `wake`, `WakeCycle`, `WakeEnds`, `runOnce`, `stop`, `StopGoesOn` (RelayHost) | the two chains of `Dispatcher` |
| `FlushCalled`, `FlushLooks`, `FlushChecksBacklog`, `FlushSleeps` (RelayHost) | `flush`, await by await |
| `ready`, `fetchNow`, `Settle` (RemoteRoutes) | the closures of `remoteRoutes` |
| `Boot`, `Booted`, `Poll`, `ask`, `Served`, `record`, `postConfig`, `Exit` (RelayApp) | `main`, `checkEndClose`, `RemoteConfigManager`, `POST /config` |
| `Map`, `Proceed`, `Answer`, `Timeout`, `Retry` (Mapping) | `deliverBatch`, `resolveEnrichments`, `withTimeout` |

Definitions under a comment that begins with "Mutation" are variants of the one
that follows them, with a plausible mistake in it. The specifications do not use
them; putting one in place of the original must break the property it is paired
with in `PROJECT.json`.

Abstractions that matter. In `Dispatcher` a mapping yields a record, a park or a
retry, nondeterministically; only that a payload decodes is fixed per event
(`Undecodable`, or wiped). An event's name in End Close is a number
(`RecordName`), and so is the name `extResultKey` looks for (`EventName`), so an
external id that is a numeral can collide with an index. A bulk request is posted
under the key of its records (`IdempotencyKey`); posted again under the same key it
is the request it was, with the results it had (`ResultsOf`), and with other records
another one. A finished bulk request without per-row results counts as all accepted,
as in the code. The verdict of
size, signature and syntax checks is nondeterministic. A failing store call of
the dispatcher changes nothing; in `Ingest` a failing insert may have been
committed. A configuration document stands for its text, its hash and its ETag.
A repair and a check of End Close's answer are several commits, and may be cut short
after each of them (`RepairCutShort`, `SettleInterrupted`).
In `ConfigEditors` a click on apply starts an `onSave` of its own: two may be under
way, and one goes on when its tab is gone.
In `Mapping` a value is its type, what its text reads as (an amount, a date, neither)
and its leaves: their marks (white space, upper case, something the denylist
recognises), where they came from and in which attempt. A segment of a path that names an
element of a list does so by its number, however it is spelled (`Spelling`: `01` is
1). The order of a list is left out. Transforms are a set: no order of `trim`, `lowercase` and `hash` changes a mark
or a source. Amounts are integers of any size; the code's are doubles, exact as long
as the cents stay below 2^53.

## Properties

Where it says "not kept", the property states what a doc or a comment of the
repository says and the code does not do; see "Where the code and its documentation
disagree".

| property | says |
|---|---|
| `KeepsPromise` | one relay implements `Delivery`: no move of an event but the allowed ones, delivered only after End Close took it, and for good |
| `NothingLost` | an event acknowledged as accepted is with End Close, or in the store, undelivered, with its payload |
| `DeliveredWasAccepted` | a row recorded as delivered was taken by End Close |
| `NoOrphanedClaim` | a `delivering` row is in the batch its owner works on, or its owner will reclaim it by name |
| `RefusalIsHeeded` | an event the last poll of its batch reported as failed is not recorded as delivered, whatever fails before that is written down |
| `RefusedNotDelivered` | an event End Close refused is not recorded as delivered, also when its batch is posted again (not kept) |
| `ParksWhatRetried` | a sweep parks what has been retrying for the length of the window, not what was just put back (not kept) |
| `DeliveredIsFinal` | delivered rows stay so until retention deletes them |
| `LeaseIsExclusive` | while a lease runs nobody else works on the events it covers |
| `EventuallySettled` | once its route is served for good, every accepted event is delivered or parked |
| `EveryClaimEnds` | no event stays claimed for good, even if its owner never returns |
| `PauseDrains` | a pause that lasts ends forwarding: the killswitch is read once per cycle, so the cycle in flight still sends the routes it has left, but no other does |
| `AckedIsKept` | a sender told "accepted" never needs to send again |
| `PanicTakesHold` | a request sent under a panic that lasts is not stored |
| `WakeIsScheduled`, `SignalIsSeen` | a wake no cycle has taken has an entry that will look at it; a signalled event gets a cycle that begins after it was stored, without the poll timer |
| `StoppedIsQuiet`, `StopReturns` | after stop nothing of the loop is left, and stop returns |
| `FlushAloneReturns`, `FlushReturns` | flush returns, in a host that does not run the loop; in any (not kept) |
| `DrainedMeansSettled` | flush says drained only when everything stored before it was called is settled (not kept) |
| `DocumentNeverGoesBack`, `FailsOnlyUnloaded`, `ComesToRunIt` | an embedded host never goes back to an older document, fails lookups only while it has none, and comes to run the current one |
| `NoGhostPause` | only routes of the configuration are paused, whoever replaced it |
| `TagDescribesStored` | an ETag that would be sent describes the stored document |
| `RecordedOwnershipSurvives`, `OwnershipSurvives` | a relay whose document and hash are recorded as End Close's stays managed through outages and restarts; so does one that has stored the next document and not yet its hash (not kept) |
| `ComesToRunEndCloses` | the relay comes to run what End Close serves |
| `RecoveryHeld`, `RepairComesUpPaused` | a repaired configuration does not forward until reviewed, once the repair was answered; at all (not kept) |
| `SourceIsReported` | End Close comes to know who owns the configuration |
| `OnlyMappedLeaves`, `DeniedNeverForwarded` | what leaves the network is what the map names, and redacted |
| `SensitiveFieldsNeverInClear` | a field with a sensitive name leaves hashed or not at all, wherever it is mapped to and whatever is mapped around it (not kept) |
| `AmountIsExact` | cents are the amount, for none to two decimals and either sign |
| `AnswersMatchTheirQuestion` | a field left to the host leaves as the answer to this attempt's own call, or not at all |
| `UpIsMigrated`, `PausesSurvive`, `AllComeUp` | processes serve only on the whole schema with the pauses operators meant; all come up |
| `PostsWhatWasClicked`, `EveryApplyEnds` | each apply of the tab posts the text that stood in it at its click, and none waits forever |
| `UnchangedEditAppliesNothing` | a `relayctl` edit left unchanged applies nothing (not kept) |

## Runs that pass

| run | instance |
|---|---|
| `crash` | one relay on SQLite row ids, two events in one batch, one failing store call, one crash or stop |
| `settles` | two routes, one event that never decodes, a store call that may fail while that is handled, an outage, rows deleted at the next tick and their ids used again |
| `pause` | one event, three operator actions |
| `leases` | two replicas, of which one stays down after an outage; a backoff shorter than the lease, no batch outlasts either |
| `ingest` | one event, two routes of one processor, three sends, two at once, one fault, two operator actions |
| `host` | one relay object, one event that fails and comes due again, a peer on the store, three calls or operator actions, one failure, one batch to prune |
| `remote` | two lookups, two requests, two documents, three changes of what End Close answers |
| `app` | an empty, an old or a local configuration, two documents of End Close's, four environments, two operator actions, one crash or stop, one change at End Close, answers cut short between writes |
| `mapping` | every payload shape with every map block the schema accepts, two attempts, five kinds of answers |
| `database` | two processes on a new or an old file, two routes, two faults, three writes |
| `editors` | a tab with two loads, two applies and a poll under way, `relayctl`, End Close, three actions |

`LeaseIsExclusive` and `DeliveredIsFinal` between replicas hold under the condition
of `leases`: no batch is still at work when one of its leases runs out or when an
event it has put back comes due (`Outlasts` is empty), and (there are no operators in
that run, and rows are kept) nobody replays or deletes what a batch at work has
settled. The proofs name the same conditions.

## Where the code and its documentation disagree

Each configuration below ends with a violation. The first is a run of
`PROJECT.json`, with a finding that quotes the line it contradicts; the others are kept
beside the runs for whoever wants to see the behaviour, as in
`tlc -config overlap.cfg MCDispatcher`.

| configuration | violates | what happens |
|---|---|---|
| `result_names` (`MCDispatcher`) | `RefusedNotDelivered` | failed results are looked up by event id; with a mapping that takes `external_id` from elsewhere none matches and all are recorded as delivered (`dispatcher.ts:498`), although `dispatcher.ts:386` says that rejected rows park |
| `refused_again` (`MCDispatcher`) | `RefusedNotDelivered` | `markParked` fails after the answer, the batch is posted again under the same idempotency key, its poll fails, and the refused event is recorded as delivered (`dispatcher.ts:422`) |
| `overlap` (`MCDispatcher`) | `LeaseIsExclusive` | the final release of a batch takes an event from the replica that has claimed it since its backoff ended (`dispatcher.ts:483`): the status is asked for, the owner is not. The default backoff begins at 1 s, the default lease is 600 s; `packages/core/README.md:145` calls overlapping runs safe |
| `replay_parked` (`MCDispatcher`) | `ParksWhatRetried` | the retry window counts from `received_at`: an old event that is replayed is parked again untried (`memory-store.ts:124`); `store.ts:117` speaks of events "retrying longer than" the window |
| `drained` (`MCRelayHost`) | `DrainedMeansSettled` | `flush` says drained while another instance or the loop works on an event that may fail (`relay.ts:240`); `relay.ts:93` says "nothing deliverable remained" |
| `flush_deadline` (`MCRelayHost`) | `FlushReturns` | a wake in each of its cycles keeps the loop's entry of the chain running, and the `flush` behind it does not look at its deadline (`dispatcher.ts:147`), against `relay.ts:112` |
| `repair_crash` (`MCRelayApp`) | `RepairComesUpPaused` | the process dies, or a write fails, between the repaired document and the killswitch: the relay comes up forwarding (`admin/server.ts:324`), against `docs/CONFIG.md:163` |
| `ownership` (`MCRelayApp`) | `OwnershipSurvives` | a check is cut short between the next document and its hash; after a restart into an outage the relay is not managed (`remote.ts:146`), against the comment at `remote.ts:171` |
| `sensitive` (`MCMapping`) | `SensitiveFieldsNeverInClear` | a map of an object, or of description or external_id, forwards a sensitive field in clear (`schema.ts:121`), against `docs/CONFIG.md:130` |
| `unchanged_edit` (`MCConfigEditors`) | `UnchangedEditAppliesNothing` | a document without a newline at its end gets one for the editor, and is applied as changed (`io.ts:48`), against `docs/RELAYCTL.md:55` |

Observations made while modelling that no configuration here shows:

- A batch that outlives its lease takes a delivered event back to retry or parked
  by its late write (`memory-store.ts:63`, rows are looked up by id alone): set
  `Outlasts = {"lease"}` and `LeaseMs = 1` in `leases.cfg`, and `DeliveredIsFinal`
  is violated. `settings.ts` asks the host to keep batches well under their leases.
  With the defaults, 100 events with one enrichment of up to 5 s each can use 500 s
  of a 600 s lease before the POST. Nothing is lost by it
  (theorem `AcknowledgedIsKept`).
- An operator's replay of a row that a batch still at work has parked lets the same
  final release take it from its next holder: set `ParkAfterMs = 3`, `Horizon = 5`
  and `MaxOps = 1` in `leases.cfg`.
- An event dropped by a filter is answered as a duplicate after the filter was
  widened, or on another route of its processor (`ingest.ts:62`), although
  `docs/ONBOARDING.md:174` says that the relay dedupes what "was actually
  delivered".
- A crash between the writes of ETag and hash (`remote.ts:146`): add `"tagged"` to
  `Interrupts` in `app.cfg`. The hash recorded is an earlier document's; when that
  one is applied again, its request carries another's ETag.
- A `200` without an ETag deletes the recorded hash (`remote.ts:149`): after a
  restart into an outage the relay is not managed, although `remote.ts:171` says
  that ownership survives a restart. `RecordedOwnershipSurvives` is about answers
  with one.
- The report lists leaves under an object or list that is forwarded as a whole as
  not forwarded (`mapper.ts:185`); `external_id` does not pass the denylist
  (`mapper.ts:110` says "Every mapped value"), and it reads strings, not numbers
  (`defaults.ts:46`): `DeniedNeverForwarded` speaks of strings.
- A reload under way replaces what was typed into the tab since
  (`ConfigTab.tsx:97`).

## Bounds

Two events, two row ids and two routes or two instances are the smallest
instances with a batch that settles in part, an id that is reused, a route behind
a failing one, a claim that changes hands. Attempts saturate at `MaxAttempts`:
beyond it only the backoff would grow, and the cap stands for that (where it is 0, at
once: those runs do not look at the backoff). Store faults
(`MaxFaults`), crashes and stops (`MaxOutages`, `MaxStops`), changes at End Close
(`MaxShifts`, `MaxVersion`) and operator actions (`MaxOps`) are counted; in
`settles` the exception of an undecodable payload and one failing call make a failure
inside the handling of a failure; three operator actions are enough for a change, its reversal and something in between. In `host` one event
is enough: the chains do not look at events, and flush only at whether there are
any. In `editors` a second click, or a second tab while the first still
waits, takes two applies and three actions. In `remote` two request slots let a request overtake another if the code
sent two; it never does.

The clock of `Dispatcher` runs from `StartTime` to `Horizon`. Its last instant
stands for "long after": deadlines that would fall beyond it are clipped so that
they have passed there, and arrivals stop early enough for their retry window to
close. `Outlasts` names what a batch
at work may outlast: where it is empty, the clock does not move while a batch holds
an event whose lease would run out or whose backoff would end; elsewhere batches take
any time. Backoff takes every value that
jitter and rounding allow. Deadlock checking is off where the system may come to
rest: once the clock has stopped and an instance that does not return is down,
once no operator does anything more. Symmetry (request slots in `ingest`) is not
used with temporal properties.

## Fairness

`Dispatcher`: weak fairness of `Tick`, of each instance's `CycleStep`, and of
`Start` for the instances in `Restarts`: the poll timer keeps starting cycles,
every await of a cycle returns (HTTP calls carry timeouts, store calls a busy
timeout), and a container's restart policy brings a process back. Nothing is
assumed of ingest, operators, retention, store health or End Close's answers; the
retry window is what ends an event that keeps failing. `RelayHost`: awaits
return, sleeps end, deadlines pass; nothing is assumed of the poll timer, so that
`SignalIsSeen` is about the signal alone. `RemoteRoutes`: lookups keep coming,
requests settle, holds run out. `RelayApp`: the restart policy, polls and
heartbeats as timers, requests settle, a process that decided to exit does.
`Database`: a process
that is down is started again and one that runs goes on; the lock may stay.
`ConfigEditors`: requests are answered or fail, timers fire; nobody owes a click,
and the relay need not come back.

`EventuallySettled` is checked for one instance only. With two, at the last
instant, where the clock stands still and so does the backoff, they could pass an
event back and forth such that no sweep finds it in `retry`; in the code the
backoff soon exceeds the sweep interval. `leases` therefore checks
`EveryClaimEnds`.

## Proofs

For every set of events, routes and instances, every setting and every bound:

- `TypeCorrect`: `Spec => []TypeOK`.
- `OrphanFreedom`: `Spec => []NoOrphanedClaim`. The property is not inductive:
  when a batch ends, its claims are forgotten, and one has to know that none of
  its rows is still delivering in its name. `ClaimInv` adds what an instance
  holds at each `pc` (`BatchShape`: outside a batch nothing is held, the mapped
  and the failing events are among the claimed ones).
- `DeliveryRecordsAreTrue` and `AcknowledgedIsKept`: if ids are never reused,
  `DeliveredWasAccepted` and `NothingLost` are invariants. `DeliveryInv` adds that
  ids in the table are those given out (`RowsNumbered`), that a claim still
  carries the key of its row (`ClaimsMatchRows`: a stale holder marks by id, and
  that id must not belong to another event by then) and that what is about to be
  recorded was accepted (`BatchWasAccepted`).

The argument of the last two shows why a stale holder's late write is harmless to
these records although it breaks `DeliveredIsFinal`: it can only move a row
between states that keep the event, or to delivered after End Close took it. They
hold with any number of replicas whose batches outlive their leases.

`ReusesIds = FALSE` is the memory store and any store with a sequence. SQLite's
`INTEGER PRIMARY KEY` returns the id of a deleted last row; for it the next
theorems need one relay.

With one relay on a store (`OneRelay`), as the relay application runs it, for
every setting and failure and whether or not ids are reused:

- `OneRelayKeepsPromise`: `Dispatcher` implements `Delivery`. Every step is a move
  of one event that `Delivery` allows, or of a whole batch, or none (`StoreSteps`
  says what each action is to the table, to what was acknowledged and to what End
  Close took; `PromiseKept` maps each).
- `DeliveryIsFinal`, `SoleRecordsAreTrue`, `SoleAcknowledgedIsKept`: a delivery is
  not taken back, its record is true and nothing acknowledged is lost, on SQLite too.
- `RefusalIsKept`: `RefusalIsHeeded`, if a record is named as its result is looked
  up (`OwnNames`). It is about what the last poll of a batch said; what an earlier
  one said of the same batch the code forgets (`refused_again`).

None of them is inductive: `markDelivered`, `markFailed` and `markParked` look up
rows by id alone, so all depends on what a row has become between the claim and the
call. `HeldInv` says it for each place a batch can stand at (`HeldBy`): a claim that
is still to be mapped, sent or settled names a row that is delivering, and of the
same event (`HeldRow`); one whose batch failed half way at least a row of the same
event that is not yet terminal (`LiveRow`), so that retention has not freed its id
for another event. Around it: an event has one row (`UniqueKeys`), a batch no row
twice (`DistinctClaims`). `ToldIsBad` adds that an event reported as
failed is not among those about to be recorded as delivered.

With any number of replicas, whatever the lease and the backoffs, and whether or not
ids are reused, under two conditions. `BatchesEndInTime`: a batch is over before one of
its leases runs out and before an event it has put back comes due, and no backoff is
zero. The shipped settings allow it, a lease of 600 s and a backoff from 1 s, for as
long as a batch ends within the backoff of the first event it has put back; they do not
ensure it. `NoIntrusion`: no operator replays an event that a batch still at work has
parked, and retention deletes none that it has just delivered.

- `LeaseExcludes`: `LeaseIsExclusive`. `LeaseInv` says that a row a batch has claimed
  is still leased to it, or settled, or not yet due again (`InHand`), and so no row is
  in two batches (`Apart`).
- `ReplicasKeepPromise`, `ReplicasDeliverForGood`, `ReplicasHeedRefusals`: what one
  relay promises, replicas do, for `HeldInv` holds of them as well. These are stated
  up to the last instant of the clock (`[](now < Horizon)`), at which a claim's lease
  has run out at once; `Horizon` is any number, so every finite run is covered.

Each condition is needed. `overlap.cfg` shows a batch that outlasts a backoff, the
observations one that outlives its lease and an early replay. For an early deletion
TLC finds one too: a batch delivers an event, retention deletes the row before the
batch's last release, its id goes to a new event that another replica claims, and that
release, which looks at the id and the status alone, puts the new event back for a second
claim (`LeaseIsExclusive` with `leases.cfg` under `Spec`, with two keys,
`WipeAfterMs = 0`, `DeleteAfterMs = 1`, `Horizon = 6` and `MaxOutages = 0`).
Retention counts from the receipt of an event, so outside so small an instance it
takes one that is delivered after that time, such as a parked event replayed late, and
that has the largest id.

`NoOrphanedClaim` says that the owner reclaims its rows if it runs again under the
same id, as the relay application does (`RELAY_INSTANCE_ID`, default `relay`). An
embedded host without `instanceId` gets a random one at each start
(`relay.ts:151`), and then leases alone end its claims: `EveryClaimEnds`.

The other modules, each for every value of its constants (any number of
requests, processes, lookups, documents, restarts and host calls):

- `Ingest` (`AcceptedIsKept`, `PanicHasEffect`). `IngestInv` adds that an answer
  under way is already kept: an "accepted" that is lost and sent again, or that
  overtakes retention, speaks of a row that is there. The id of a new row is free
  although SQLite reuses ids (`NextRowidIsFree`): it is one more than the largest,
  which exists because < is well founded and the table finite.
- `Database` (`SchemaIsWhole`, `PausesAreMeant`). A process decides which
  migrations to run, then runs them, while others do the same. `DatabaseInv` says
  what a decision is still worth when it is acted on: whoever has looked still has
  every missing migration before it (`Looked`), what a recorded migration creates is
  there (`Created`), and until the pauses are moved nobody writes where they are
  moved to (`Moved`).
- `RemoteRoutes` (`NeverBack`, `FailureIsForTheUnloaded`). Both are action
  properties. `RemoteInv` adds that at most one request is under way (`OneRequest`),
  that what it carries is not older than what is held (`Forward`), and that whoever
  waits, waits for that request (`Waiters`).
- `RelayApp` (`PausesFollowRoutes`, `RepairIsHeld`, `SentTagIsStoreds`,
  `RecordSurvives`). The writes of a check are taken one by one: wherever it is
  cut short, what it leaves is a sound database (`Leaves`). ETag and hash belong to
  one document even when neither is about the stored one (`Paired`), except between
  their two writes: `SentTagIsStoreds` assumes that no check dies there, and without
  that assumption the property is false (see above). `OwnershipRests`
  carries ownership through a restart: while the stored document is the recorded one,
  the manager of every process that is up knows. `RepairIsHeld` begins with the answer
  to a repair, when both of its commits are made.
- `RelayHost` (`NoWakeIsLost`, `StopDrains`). Every action is one of ten things
  that can happen to the chains (`ChainSteps`). `Draining`: once `running` is off,
  no wake and no scheduled prune joins, so all of them are among the entries that
  `stop` awaits, and none is left when that number is zero.
- `ConfigEditors` (`ClickedIsPosted`), for any number of applies at once. An apply
  that goes on keeps its text, and only the click reads the editor (`AppliesKeepText`).
- `Mapping` (`MapIsAllowlist`, `DenylistIsComplete`, `AmountKeepsCents`,
  `AnswersAreOwn`), for every payload, map block,
  enrichment and answer, and any number of attempts. The properties speak of the
  record that is sent, hence of the end of a loop of awaits; `MappingInv` says of the
  record under way that each of its fields is what `mapEvent` took from the payload
  (`Entered`) or the answer to this attempt's call for a pending one (`AnswerTo`),
  and that what is awaited is pending. A field is not both, for the names of a map
  block are apart (`NamesAreApart`). Below it are lemmas on the operators: what a
  path finds lies under it, transforms and denylist keep sources, two decimals at most are padded to two. `DocumentsAreTrees` and
  `FieldsAreNamed` say what JSON says: only objects and lists have something below
  them, and an object has a key once.

Every safety invariant and action property of the passing runs is proved, under the
conditions named. Only model-checked:
liveness, for which fairness is out of the prover's reach.

## Not modelled

- The regular expressions of the denylist, HMAC, hashing and encryption: string
  and cryptographic computation without state. Their outcomes appear.
- Dates: parsing is a predicate.
- Sessions and audit log of the admin plane, validation and preview of drafts,
  which change nothing the properties speak of; the tabs of the page that display.
- Hooks, metrics, logs: observers, nothing they do comes back.
- The other commands of `relayctl`: each is one call of the admin plane.
- Throttling by time of error manifests and holds: a timer runs out at some time.

## Plan

1. `EventStore`, `Dispatcher`, their proofs, `Ingest` (done).
2. `Delivery` and the refinement; `RelayHost`; `RemoteRoutes` and `RelayApp`;
   `Mapping`; `Database`; `ConfigEditors` (done).
3. Theorems: the safety invariants of `Ingest`, `Database`, `RemoteRoutes`,
   `RelayApp`, `RelayHost` and `ConfigEditors` (done).
4. The refinement of `Delivery`, leases and refusals as theorems, for one relay and
   for replicas (done).
5. `Mapping` over flat documents, and its theorems (done).
6. What the documentation says and the code does not keep, as properties with a
   configuration each that shows it (done).
