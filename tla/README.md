# Formal models of ORVOLT

TLA+ models of the parts of ORVOLT in which the order of steps, a crash or a
repeated message decides whether a reading, a charging session or a capacity
proposal is right. TLC checks them on small instances; TLAPS proves the central
safety properties of six components, listed under "What is proved", for every
value of the constants.

## The system

A site's EVSEs publish readings to an MQTT broker. The **edge agent** (Rust)
normalises each reading, appends it to a **spool** on disk and drains the spool
to a JetStream event bus. Charge points that speak OCPP 1.6 connect to the
**OCPP gateway** (Go), which publishes telemetry and session events to the same
bus. The **control plane** (Go, two replicas) consumes the streams at least once
into PostgreSQL, answers the HTTP API from there, and publishes **advice**: a
non-binding proposal of how a site's capacity is shared by its connectors.

| Part | State it keeps | Operations | Talks to | What is hard |
|---|---|---|---|---|
| edge spool (`spool.rs`) | segment files, cursor file; cursor and active segment in memory | append, read_batch, commit, open | forwarder | a crash between two file operations; eviction under the reader |
| forwarder, sink (`pipeline.rs`, `main.rs`) | the batch in flight | drain, publish | spool, bus | partial and unconfirmed publishes |
| edge agent (`main.rs`) | MQTT window, channel, main loop | poll, send, the select! branches, stop | broker, spool | back pressure; what is acknowledged and not yet stored |
| ingest runner, dead letter (`ingest/`) | batch per replica; consumer state in the broker | fetch, decode, park, persist, Ack, Nak, Term | bus, store | redelivery while the first receiver still works |
| telemetry store (`store/postgres.go`, `demand.go`) | history and two projections | PersistTelemetryBatch and the queries | ingest, API, advice | stamps and commits out of order |
| session store (`store/sessions.go`) | event log and projection | PersistSessionEvents, the queries | ingest, API | events twice and out of order |
| migrations (`store/migrations.go`) | schema_migrations | Migrate | PostgreSQL | replicas that start together |
| advice (`advice/`) | the last proposal per site | Compute, allocate, publishSite | store, bus | boundaries of the shares; stale data |
| HTTP API (`httpapi/`) | none; the cursor of a walk is the client's | paged listings | store | rows that appear and close between pages |
| OCPP gateway (`csms/`) | transaction counter, connected charge points | the OCPP handlers | charge points, bus | lost answers, retries, restarts |

## Modules

| Module | Models | Correspondence |
|---|---|---|
| `StoreAndForward` | what the spool promises | abstract: records are accepted, sent, discarded from the old end, replayed |
| `Spool` | `spool.rs`, `pipeline.rs`, the sink | `files`, `torn`, `cursorFile` are the disk; `cursor`, `active`, `batch`, `next`, `dropped` the process; one action per file operation, `pc` orders them |
| `SpoolPowerCut` | `Spool` on a disk with write-back | a power cut keeps any prefix of what was not written back |
| `EdgeAgent` | `main.rs` | broker session, client events, channel and main loop; the spool is one set |
| `Ingest` | `consumer.go`, `deadletter.go` | one action per message decision and per answer; JetStream's consumer state is external |
| `TelemetryStore` | `postgres.go`, `demand.go` | a batch is folded statement by statement into table and projections; the queries are operators |
| `SessionStore` | `sessions.go` | `upsertSession` merges an event into a row as the SQL does |
| `OcppGateway` | `handler.go` with `SessionStore` | charge point, handlers, stream and projection together |
| `AvailablePower` | first half of `Compute` | shared by the next two |
| `Advice` | `allocate` | one action per turn of its two loops |
| `SiteAdvice` | `advice/publisher.go` | the reads, the computation and the publish of each replica are steps of their own beside a changing site |
| `Listing` | `httpapi` listings over the store's queries | a client walks the pages while rows appear and close |
| `Migration` | `migrations.go` | the loop of each replica, one action per statement |
| `SpoolProofs`, `EdgeAgentProofs`, `IngestProofs`, `OcppGatewayProofs`, `MigrationProofs`, `SiteAdviceProofs` | theorems about the module they are named after | |
| `SpoolPromiseProofs`, `SpoolReplayProofs` | more theorems about `Spool`: the refinement of `StoreAndForward`, and the bound of a replay | |

The `MC*` modules only give constants their values. A definition whose comment begins with "Mutant:" is the definition below it with a
plausible mistake; no specification uses it. It is there to show that the
property it is written for can fail.

Conventions: `pc` holds where a sequential piece of code is; a step ends where
another process can see or a crash can interrupt (a file operation, a message, a
statement or transaction, an answer). Payloads are numbers in the order of their
creation. Brokers, PostgreSQL, charge points and energy providers are not part of
the repository; they do what the code configures or relies on.

## What is checked

Twelve runs, each named after its configuration file. Nine pass. Three expect a
violation: they state what a comment of the repository says, and the
counterexample is a behaviour of the code that disagrees (`findings` in
`PROJECT.json` quotes the sentence).

**Spool.** `MCSpool`: `NoSilentLoss` (an accepted record is on the bus, discarded
for space, or still ahead of the drain), `ReplayIsOneBatch`, `OldestGoesFirst`,
`LossIsCounted`, the inductive strengthening `Sound`, the refinement `Keeps`
(every step is one `StoreAndForward` allows) and `EventuallySettled`. Eight
records of two per segment, a ceiling of three segments and a batch that spans
three give rotation, eviction while the cursor is inside the evicted segment,
commits that remove several segments, and a crash between any two of those steps.
`MCSpoolPowerCut` (violation): a power cut that keeps the renamed cursor and not
the data it refers to leaves the stored offset beyond the recovered segment, and
records appended afterwards are skipped.

**Edge agent.** `MCEdgeAgent`: `NothingDropped`, `LossIsBounded` and
`EveryReadingSettles` with four readings, one of them invalid, a channel of one and
one packet read at once, so that the reader blocks and the broker holds a backlog;
stops, crashes, reconnections and disk errors up to two. Receiving a reading and
spooling it are two steps, and the process may end between them: the bound of
`LossIsBounded` is the channel, what was read ahead and the reading in the loop's
hands, here three per stop, so four readings are what it takes to exceed it.

**Ingest.** `MCIngest`: `NothingForgotten`, `AnswersAreEarned` and `NoStall` with
two replicas, a valid and an invalid message, and batches that hold both.
`MCIngestRefused` (violation): a message the database refuses for good is retried
with its batch without end, and the others wait.

**Telemetry store.** `MCTelemetryStore`: `ViewsAgree`, `SilenceIsReal`,
`ShownIsBudgeted` for two replicas that collect, stamp and commit batches in any
order, each by a clock that may be a tick behind the database's. It starts from
every sequence of three readings of two connectors with two states and two device
times, so readings may share the key of the table, and one may come again. Both
confuse history and projection: the table keeps the first row under a key, while
the projection takes the second. `ViewsAgree` and `ShownIsBudgeted` therefore speak
of connectors whose readings came once and under times of their own (`Regular`);
`SilenceIsReal` holds of all. `MCTelemetryStoreReplay` (violation) shows what a
repeated reading does: it overwrites a newer state. Connectors and replicas are
interchangeable, and the invariants name none of them, so symmetry is sound; the
violation run does without it.

**OCPP sessions.** `MCOcppGateway`: `AcceptedIsRecorded`, `BillIsRight`,
`EnergyNeverDrops` and `StopIsBilled` for two transactions on one connector, with
either authorisation mode, restarts of the gateway at any moment, failed and
unconfirmed publishes, and events that reach the store in any order and number.
A restart seeds the counter from the clock, so one that comes in the same second,
or after more starts than seconds, issues identifiers again (`behind`). Two
identifiers and two starts are the least with which two transactions can have
different identifiers, or the same one. `BillIsRight` and `EnergyNeverDrops` speak
of every session while no restart has found the clock behind, and afterwards of
those whose identifier was issued to one transaction only (`Distinct`).

**Advice.** `MCAdvice` starts from every combination of up to three requests, a
load and an age taken from values at, just below and just above the boundaries
(`MinimumUseful`, the connector maximum, the grain, zero, a negative request), and
checks `WithinLimits`, `FairShare`, `NothingWasted` and that the loops end
(`EveryoneIsAnswered`).

**Site advice.** `MCSiteAdvice`: `SteadyIsSafe`, `SteadyIsNotReduced`,
`OutageFallsBack` with readings that are taken at one time and stored at a later
one, in any order, and observations that arrive late or lack the load. One replica
is enough: the replicas share only the stream, which they write and never read, so
a proposal that several can leave there, one can leave there while the others wait,
and each property is about the proposal in the stream at one moment. The instance
has two draws and one other load; the theorems are about any number of replicas,
draws and loads.

**Listing.** `MCListing`: `NothingSkipped`, `SeenInOrder`, `WalkEnds` over four keys
with limits that are absent, below and above the maximum.

**Migration.** `MCMigration`: `AppliedOnce`, `NoGap`, `EveryReplicaStarts` for two
replicas and the four migrations of the repository.

### Fairness

* `Spool`: the supervisor restarts the agent and its loop goes on (weak
  fairness). The timer branch, the link and the steps of a commit are attempted
  again and again while refusals and crashes may interrupt each time, so strong
  fairness says only that not every attempt fails.
* `EdgeAgent`: the tasks of the runtime make progress; `select!` picks among ready
  branches at random, so receiving is strongly fair. Nothing is assumed of the
  broker's acknowledgements or of the bus.
* `Ingest`: the broker redelivers what is unanswered and offers what is ready to
  some pull, a runner with a batch goes on, and faults (crashes, failed calls,
  lost answers) end at some point; a message the database refuses is no fault.
* `OcppGateway`: the charge point repeats a StopTransaction until it is accepted,
  and ingest delivers what the stream holds (that is `NoStall`).
* `Advice`, `Listing`: the computation goes on; the client asks for the next page.
* `Migration`: the container is restarted and faults end; losing the race for a
  migration is not a fault.

Deadlock is not checked where the bounds, or the end of the computation, stop the
system (`CHECK_DEADLOCK FALSE`).

## What is proved

TLAPS checks every proof to the last leaf. The theorems hold for every value of
the constants that satisfies the module's named ASSUME (sizes and bounds are
natural numbers, positive where a size of zero would stop the code); TLC evaluates
the same assumptions in every run. All are safety properties of `Spec`, without
fairness. Each proof has one inductive invariant, one lemma per action, and
lemmas about the operators the actions use. With them every safety property that
the runs check of the spool, the edge agent, ingest, the OCPP gateway, the
migrations and site advice is a theorem.

| Theorem | States | Inductive invariant, and why it is needed |
|---|---|---|
| `SpoolProofs!NothingLost`, `TypeCorrect`, `SpoolInvariant` | `NoSilentLoss`, `TypeOK`, `Sound` | `Sound`: a crash decides which of the two cursors counts, so the one in memory and the one on disk must both lie within the log and have everything before them settled, at every step of an append or a commit |
| `SpoolPromiseProofs!SpoolKeepsPromise`, `OldestFirst`, `LossCounted`, `SpoolOrdered` | the refinement `Keeps`, `OldestGoesFirst`, the action property `LossIsCounted` | `Inv` adds `Ordered` to `Sound`: records lie in the segments in the order of their acceptance, so a cursor parts them into older and newer ones; what lies behind the drain and is still on disk is on the bus; while capacity is enforced the active segment holds the newest record. Each step is then shown to be one of `Accept`, `Send`, `Discard`, `Replay` or a stutter; a segment has at most as many records as its length, which is what eviction adds to `dropped` |
| `SpoolReplayProofs!OneBatchReplayed` | `ReplayIsOneBatch` | `Replay`: what is on the bus and would be read again lies among the `BatchSize` oldest of what the stored cursor reads; outside commit both cursors read the same, so every further attempt sends from the same place; a batch being published is full or all there is, so nothing behind a confirmed one has been sent |
| `EdgeAgentProofs!NoReadingDropped`, `LossHasABound`, `AgentTypes` | `NothingDropped`, `LossIsBounded`, `TypeOK` | what the broker delivered on this connection reached the agent (or its acknowledgement would drop a reading); the client's packets and the one in the reader's hand are together within `ReadAhead`; the loop has one reading in hand while it accepts and none otherwise; a stop in progress has been counted as a fault. The bound then follows from the sizes of the queues |
| `IngestProofs!NoMessageForgotten`, `IngestInvariant` | `NothingForgotten`, `AnswersAreEarned` | `AnswersAreEarned`: an Ack on its way was preceded by the storing of its message, a Term by its parking; `NothingForgotten` alone is not preserved when such an answer arrives |
| `OcppGatewayProofs!ConfirmedIsRecorded`, `BillsAreRight`, `NoEnergyTakenBack`, `GatewayTypes`, `GatewayInvariant` | `AcceptedIsRecorded`, `BillIsRight`, the action property `EnergyNeverDrops`, `TypeOK` | until a restart finds the clock behind, identifiers issued are at most the counter and no two transactions share one (`Ascending`); every event tells the truth about a transaction its identifier was issued to, with a register not above the closing one; every column of a row is what some event of its session says |
| `MigrationProofs!EachAppliedOnce`, `SchemaHasNoGap`, `MigrationTypes`, `MigrationInvariant` | `AppliedOnce`, `NoGap`, `TypeOK` | `Holds` (a replica has passed only applied migrations, and one about to commit a migration is alone with it) and `InOrder` (what is applied has no gap) |
| `SiteAdviceProofs!SteadySiteIsSafe`, `SteadySiteIsNotReduced`, `OutageIsFallback`, `SiteTypes`, `SiteInvariant` | `SteadyIsSafe`, `SteadyIsNotReduced`, `OutageFallsBack`, `TypeOK` | `Consistent`: every sample, pending reading, stored row and value read says what the site did at the time it was taken, unless it leaves the load out, and a proposal is what `AvailableForEV` makes of such values |

Identifiers may be issued twice in the model, as in the code: "unlikely, not
impossible" (the comment on `MonotonicIDs`). `BillsAreRight` and
`NoEnergyTakenBack` say exactly when that matters. As long as every restart found
the clock ahead of the identifiers issued before, they hold of every session.
Afterwards they hold of each session whose identifier was issued to one
transaction only; one whose events are of two merges the readings of both.

### Only model-checked

* Liveness (`EventuallySettled`, `EveryReadingSettles`, `NoStall`, `StopIsBilled`,
  `EveryoneIsAnswered`, `WalkEnds`, `EveryReplicaStarts`): fairness and `ENABLED`
  are out of the prover's reach.
* `ViewsAgree`, `SilenceIsReal`, `ShownIsBudgeted`: a batch is a fold over its
  readings, and what a fold computes for every input is an induction over data.
* `WithinLimits`, `FairShare`, `NothingWasted`: sums over sets, for the same reason.
* `NothingSkipped`, `SeenInOrder`: a page is a sorted sequence made from a set.

## Not modelled

`components` in `PROJECT.json` lists every part with its reason. In short:
validation and formatting of single payloads (the models keep the verdict), the
gateway's telemetry handlers and those that answer from configuration (they keep
no state), metrics, configuration, token hashing, connection set-up, the
simulator and the manifests. The watchdog's deadline and the retention of the
dead-letter stream would need real time or volume.

## Other disagreements met while modelling

Places where a comment says something else than the code beside it, found while
translating the code. No run is spent on them; each follows from reading the two
lines, and the models do what the code does.

| Code | Comment | What differs |
|---|---|---|
| edge `main.rs`:255 | 301-302 | an orderly stop drains the spool and returns with acknowledged readings still in the channel; the comment says nothing comes between delivery and recording |
| `store/demand.go`:29 | 16-17 | a connector whose newest reading is idle is listed with its last charging one; "currently drawing" |
| `store/postgres.go`:57 | `store/demand.go`:11-13 | a charging reading that has the device time of a stored idle one is shown by the projection and missing from the history, and so from the demand; "must reserve capacity" |
| `ingest/consumer.go`:187 | `domain/domain.go`:37-38 | each replica stamps batches with its own clock; "the only monotonic, trustworthy time" |
| `csms/handler.go`:304 | 346-347 | the stop event sends the connector "0", which overwrites the one the start event stored; "already knows it from the start event" |
| `store/sessions.go`:21 | `migrations/004_charging_sessions.sql`:48-49 | two updates of one second leave one row in the log while the projection has merged both; "rebuilt from these" |
| `csms/handler.go`:210 | `csms/mapping.go`:52 | a sample taken during suspension is published as CHARGING; "Suspended is reported separately" |
| `csms/mapping.go`:264 | 100 | an absent measurand becomes zero; "stay absent rather than defaulting to zero" |
| `advice/allocate.go`:225 | 154-156 | the largest of the requests is paused first; "the smallest requests are paused" |
| `advice/allocate.go`:212 | `advice.proto`:56 | a share equal to the request is marked LIMITED; "below what it asked for" |
| `advice/allocate.go`:190 | 12 | a request below the useful minimum is granted in full; "not offered" |
| `advice/allocate.go`:136 | 10-11, `domain/domain.go`:43 | an unknown site load is computed with as zero, which offers the whole capacity; "Missing or stale data reduces the proposal, never increases it", "not measured as zero" |
| `advice/allocate.go`:122 | `advice.proto`:37-38 | the fallback can exceed what the last fresh observation left; "never silently authorise more power" |
| `advice/publisher.go`:130 | 55-57 | of two replicas the slower one replaces a newer proposal; "only the newest proposal per site matters" |
| `advice/allocate.go`:137 | 133-134 | the demand of now is subtracted from a load observed earlier; "to isolate everything else" |
