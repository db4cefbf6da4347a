# Verification of headrace

headrace runs a declarative telemetry pipeline: sources produce metric records,
transforms filter, window, map, join or hand them to a wasm module, sinks write
them out. This directory holds TLA+ models of its stateful core, of the
runtime that validates, wires and drives it, and of its edges to the outside (NATS, OTLP, wasm),
TLC configurations that check them on small instances, and TLAPS proofs of what
must hold for every instance. `PROJECT.json` maps each
definition to the source lines it models and lists the hazards the properties
are aimed at.

Source paths below are relative to `crates/headrace-core/src`.

## 1. Inventory

| Component | State | Operations | Talks to |
|---|---|---|---|
| Window core (`transform/window.rs`, `Window`) | open windows by start, each a map from group to accumulator; newest event; drop counters | `on_record`, `drain_ready`, `drain_all`, `snapshot` | called by its driver only |
| Window driver (`window::run`) | its place in the `select!` loop, the idle timer, the inspection queue | receive, idle timeout, answer a query, final flush, emit | consumer, producer, inspection |
| Join (`transform/join.rs`) | buckets by (labels, window), newest window end per input, merged channel | forwarders, fill or refuse, send, evict, end | one consumer per input, producer |
| Stateless transforms (`filter.rs`, `map.rs`) | none | receive, forward or drop or fail | consumer, producer |
| Wasm (`wasm.rs`) | an engine with its ticker thread, shared; per node an instance and its deadline; the module cache on disk | load, instantiate, call within a budget, replace the instance | OCI registry, wasmtime, file system, consumer, producer |
| Expressions (`transform/expr.rs`) | none | lex, parse, evaluate | validation, map, join |
| OTLP receiver (`otlp/receiver.rs`, `otlp/normalize.rs`) | last value of each series, under a lock | `export`: decode, then send record by record | clients, producer |
| OTLP exporter (`otlp/exporter.rs`) | the buffer, the ticker | connect, collect, flush, retry | consumer, collector |
| Sources (`source.rs`) | none | produce until the end of input | producer |
| Sinks (`sink.rs`) | none | write until the input closes | consumer |
| In-process backend (`backend.rs`) | a bounded channel per output | `producer`, `consumer`, `send`, `recv` | every node |
| NATS backend (`backend/nats.rs`) | a work-queue stream per output, a durable consumer per partition, the message not yet acknowledged, the draining flag | `send` with retry, `recv` with ack, rebind and idle drain | JetStream |
| Worker lease (`backend/nats.rs`) | a key per worker index in a bucket with a TTL | claim, renew, release | JetStream KV |
| Runtime (`runtime.rs`) | two task sets, the phase of the shutdown | `validate`, `run`, supervise, drain, abort | all of the above |
| Inspection (`inspect.rs`, `inspect/server.rs`) | a query queue and an event broadcast per stateful node | `Get`, `Watch`, throttled publish | window and join loops |
| Validation and wiring (`runtime.rs`) | the walk over the graph; the handles of each channel | checks of ids, durations, edges, reachability, joins; one producer per output, one consumer per input | the IR |

Everything runs as tokio tasks that share nothing but channels: a step of a
model is what a task does between two awaits. What is hard in this code:

* **Order.** Event time against arrival order; groups of one window sent one
  after the other and read by a join that takes the first for all; two inputs
  merged in any order.
* **Racing branches.** Each `select!` picks among ready branches: record or idle
  timer or query, supervise or signal, drain or second signal.
* **Ends.** Nothing tells a node to stop: a node ends when its inputs close, and
  they close when every sender has been dropped. One sender kept too long stops
  the shutdown of everything downstream.
* **Partial failure.** A node that fails, a downstream that goes away in the
  middle of a flush, a second signal in the middle of a drain.
* **Limits.** `max_groups` per window and per join, bounded channels end to end.
* **At-least-once** (NATS, OTLP): acknowledgements that run ahead of the work, lost
  acks, a `recv` dropped in the middle by the caller's `select!`, requests whose
  handler is dropped between two sends, retries of what was stored already.
* **Time and crashes.** A lease that outlives its owner or expires under it, a
  guest that does not return, a file half-written when the process died.

What makes each component correct:

* window: a record is folded into exactly the windows that hold it and have not
  fired; each (window, group) is sent once, in window order, when the watermark
  or the close allows; event time never stalls;
* join: each (labels, window) is sent at most once and only complete, even when its
  inputs repeat themselves; no record is used twice; what is not sent is accounted
  for;
* runtime: a run that ends well lost nothing, an error is returned, and a signal
  or a failure ends the run;
* NATS: what was accepted is handled at least once, the records of a key in the
  order they were sent; a drain ends;
* lease: one live worker per index, and the index of a dead one is free again;
* OTLP: an increment is counted once; what the exporter was given reaches the
  collector; a stop ends both;
* validation: what passes is a graph that can run, whose state is co-partitioned;
* expressions: the parser reads the documented grammar, faults come in text order;
* wasm: a guest is stopped within its own budget, and the run's end stops the ticker.

## 2. Modules

| Module | What it is |
|---|---|
| `EventTime` | window placement and the watermark, as operators |
| `WindowOutput` | in which order aggregates reach a join: what `Join` assumes of its orderly inputs, and `WindowProofs` shows of `Window` |
| `WindowSpec` | what an event-time window promises: a function of the input history, no accumulators |
| `Window`, `WindowProofs` | the window core and its driver, implementing `WindowSpec`; theorems about them |
| `Join`, `JoinProofs` | the join with its forwarders; its invariants and its accounts, proved |
| `Pipeline`, `PipelineProofs` | task graph, channels, supervisor, signals, inspection server; that nothing is lost, proved |
| `AtLeastOnce` | what a durable edge promises; `NatsEdge` and the exporter of `OtlpRelay` implement it |
| `Partition` | which partition a record goes to, which worker a partition goes to |
| `NatsEdge`, `NatsEdgeProofs` | one edge of the NATS backend with its faults; its refinement and its order, proved |
| `Lease`, `LeaseProofs` | the lease on a worker index; exclusion and its timing, proved |
| `OtlpRelay`, `OtlpRelayProofs` | receiver, channel and exporter between clients and a collector; its sums and its refinement, proved |
| `Validate` | `validate` in its order and the wiring of `run` |
| `Expr`, `ExprProofs` | the parser of expressions and the order of faults, beside the grammar of the documentation; that they agree, proved |
| `Wasm` | engine, ticker, module cache and the loop of a wasm node |
| `Startup`, `StartupProofs` | composes `Validate`, `Expr` and `Wasm`: from the file of a pipeline to the first record of its stateless nodes; what passes validation, what becomes of a record and whose time a guest is cut off for, proved of the parts and of the whole |
| `MCWindow`, `MCJoin`, `MCPipeline`, `MCNatsEdge`, `MCLease`, `MCOtlpRelay`, `MCStartup` | instances for TLC |

**Window.** The open windows are the set of *folds* `[start, rec]`: record `rec`
was added to the accumulator of its group in the window at `start`. A window or
a group exists in the code exactly when it has a fold, because an accumulator is
created by the record it then adds (and `max_groups` is at least 1, so no window
is left empty). The arithmetic of `Agg` is a function of the records, so an
aggregate is modelled by the set of its records. Each action is a whole turn of
the loop up to its next await: receiving a record is one of `SkipRecord`,
`RefuseRecord`, `FoldRecord`, `ShedRecord`, `LateRecord`, each with the
`meter_drops` and `drain_ready` that follow; the fired records are then sent one
by one by `Emit`, in any order within a window (a `HashMap`) and by ascending
start across windows (a `BTreeMap`). `seen` and `collapsed` (the idle timeout has
fired open windows) are history.
An `idle_timeout` of zero, which nothing rejects, is not modelled: 0 stands for
"unset". A timer that is due is served before the clock advances further.

**WindowSpec** has only what an observer sees: the records received, the
aggregates sent, whether the input has closed. A record is in time for a window
if no earlier arrival had moved the watermark past its end; a group is admitted
if fewer than `MaxGroups` groups came first; what is due is sent in window
order. `Window` implements it until its idle timeout first collapses open windows,
and for good without one (`[][~collapsed' => ...]`), with the identity mapping on the
three variables: accumulators, watermark, cap and drain order together compute
exactly this function of the input.

**Join.** A bucket is the set of its filled slots. An input may feed any record, in
any order, any number of times: that is what validation lets through, since a
window with an idle timeout fires again (`window.rs:452`) and an edge over NATS
redelivers. A record whose slot is filled takes its place (`join.rs:118`), which the
code meters nowhere and the model counts in `replaced`. The inputs in `Orderly` are
those that feed each (window, group) once, windows in order and groups of one
window in any order (`MayFollow`), as a window does that has not collapsed, over an
edge that delivers once (`WindowsFeedAJoin`). Only the run `join_eviction` has
orderly inputs: its violation needs no disorder. A record a forwarder has received and not yet
put on the merged channel is not yet sent, for the model. Inspection only reads
and is left out. A turn of the loop that completes a bucket is cut at its await
(`TakeComplete`, then `SendDone` or `SendFails`), the eviction being part of the
second half as in the code.

**Pipeline.** What a transform computes is abstracted to: it forwards a record,
drops it, or holds it until its inputs close (a window at its worst). Channels
are bounded sequences; `recv` answers the end once the producer has ended and
the channel is empty, `send` fails once the consumer has ended. The two task sets,
`supervise`, `drain`, the two signals, the aborts and the final wait for the
inspection server are as in `run`. The forwarders of a join are taken as part of
its node: a forwarder that outlives a join which ended early could still take one
record, which matters only once the run has failed. `Feeds` is partial: validation
accepts an output nobody reads. In the phase `wire` the backend still holds an end
of every channel, so no input is closed and a send to an unread output succeeds while
there is room; `Wired` is the `drop(backend)` that ends it, after which such a send
fails and its node ends, perhaps with records in hand. That is the in-process
backend; over NATS a send to an unread stream succeeds.

**NatsEdge.** The producer's `send` (`Send`) routes and encodes once; publishing
repeats until a confirmation comes (`PublishConfirmed`, `PublishUncertain`). The
worker's `pc` is its place in `NatsConsumer::recv`: `Recv` starts a turn of its
loop by reading the flag, then it binds (`BindOk`, `BindFails`), acknowledges what
it handed out before (`Acknowledge`, which takes the message out of `last` before
its await) and waits (`Take`, `SkipUndecodable`, `StreamFails`, `Drained`).
`Cancel` is the caller's `select!` dropping the `recv` wherever it is. The timeout
is around the wait only if this turn has seen the flag (`sees`), as in the code.
JetStream (storage, one reader per partition, redelivery) is external, and so is
the message the client has pulled ahead, which a rebind or a crash drops
(`DropPulled`). The edges of an edge's partitions do not touch each other, so one
worker of the several is followed; what the others own stays in the stream.

**Lease.** One index and the processes that were given it. `Claiming` is
`Nats::connect`, `workers_kv` and the loop of `claim_worker` up to a create that
succeeds or a key that can be read; `Renew`, `Finish`, `Release` are the renewal
task and the drop of its guard. The KV bucket, with the expiry of its entries in
`Tick`, is external. A put renews whatever the key holds and a delete removes it,
whoever's it is, as in the code.

**OtlpRelay.** A request has data points of three kinds: a cumulative sum, a point
that passes as it is (gauge, delta sum), one that is left out (no number,
histogram). `Decode` is the whole request under the lock, `Send` one record, and
`Unanswered` the drop of the handler at its await. The exporter is its `select!`:
`Collect`, `FlushTick`, `InputEnds`, each with the flush that follows; the retry
loop is `ExportOk` or `ExportUncertain`. `total`, `origin` and `seen` are history:
what a client counted, and how far the readings decoded cover it.

**Validate.** `phase` and `at` are the place in `validate`; each action is one check,
for one node where the code loops over nodes, and `Conclude`/`Advance` its early
return. `Follow` is one turn of the walk in `check_reachable`, whose stack starts
as the iteration of a hash set, hence in any order. A generator's interval, a
window's durations and the expressions are looked at as the code does; durations
are texts, and `check_joins` compares texts. `Wire` is the start of `run`:
`Channels` says of each output by what it is keyed (`key_spec`) and which reader
takes its receiver. That join is a node with several inputs and that a `map` has
a value is the shape of the IR (`ValidateAssumption`), and so is that a window has
a size (`window.rs:378`).

**Expr.** `Lex` starts from lexemes. `Prefix` and `Turn` are one call of the
binding-power parser and one turn of its loop; what `Parser::expr` returns, called
recursively with a depth that counts up to `MAX_DEPTH`, is a function of the levels
it has left (`Levels`). `Parse` adds the token limit and the trailing-input check.
Evaluation is a walk over the nodes still pending, operands from left to right, that
stays at the first that faults (`Visit`); `Eval` is that fault. `Phrases` is the
reference: the grammar as the documentation gives it, rank by rank, as the set of
all phrases a text has, with the depth at which each is nested; `Meanings` are the
trees of those that are the whole text. Nothing in it looks at binding powers or
reads from left to right.

**Wasm.** `handles` are the clones of the engine: the ticker thread stops when it
sees none. `left` is the epoch deadline of a store, `ran` (history) the ticks since
the node began what it is doing. A call runs on the node's task with no await, so
an aborted task is dropped only at the places in `Awaiting`. `Load`, `Fetch`,
`EmptyFile`, `WriteFile` are `pull_oci` with the cache, whose write is two steps.
Registry, file system, wasmtime and guest are external.

**Startup.** `Validating` is a step of `Validate` whose parser is `Expr`'s (its
constant `Parses` answers for each expression what `Parse` does, `ParsesAssumption`,
which TLC evaluates in the run `startup`); once wired, `MapRecord` and `FilterRecord`
are the turn of a node's loop for any record, and `WasmStep` the wasm nodes of a
pipeline that has some.

## 3. Runs

State counts are distinct states.

| Run | Instance | Question and answer |
|---|---|---|
| `window` | size 3, slide 2, lateness 1, cap 1, idle timeout 2 ticks, queries, 2 groups, 3 records, times 0..4, missing fields skipped, invalid ones fatal; 677,980 states | Are the window invariants and the refinement of `WindowSpec` true, does a record count once even when a window fires again, does everything received reach an aggregate or a counter after a close, and does silence flush? Yes. |
| `join` | 2 inputs, 2 groups, 2 windows, merged channel of 2, cap 2, up to 5 records in any order and as often as the inputs like; 208,723 states | Are buckets sent once and records used once, is nothing evicted that an input has not reached, is everything accounted for, does the join end after its inputs? Yes. |
| `join_eviction` | 2 orderly inputs, 2 groups, 1 window, no cap | Is a bucket evicted only if an input had no data for it? **No**: finding 1. |
| `pipeline` | `s1 -> w -> j -> out`, `s2 -> j`, `s3` unread, channels of 1, 1 record of each source, a Watch client; 458,734 states | Does a run that ends well deliver everything that had a way to a sink, does it return the error of a transform or sink, does a signal or a failure end it? Yes, unless a client keeps a stream open. |
| `pipeline_watch` | the same | Does a Watch stream end with the nodes it watches? **No**: finding 2. |
| `nats_edge` | 2 partitions, worker 1 of 2, 3 keys (one of the other worker, one undecodable), 2 records, 1 unconfirmed publish, 1 crash, `DrainIdle` 1, caller's timer 2; 164,010 states | Is the edge at least once and in order of the key, is everything handled in the end, does an aware drain close? Yes. |
| `lease` | 2 processes, TTL 3 ticks, 4 starts; 134,240 states | Do two processes run with one index only after a lapse, does one missed renewal never cause one, does a dead holder's key go? Yes. |
| `otlp` | 2 clients of different shapes, 3 requests, channel 1, batches of 2, 1 counter reset; 86,658 states | Is each increment counted once, is the exporter at least once, does a stop end it? Yes. |
| `otlp_stall` | the same clients, 3 requests each, no reset | Is nothing of a client lost once its reading was answered Ok? **No**: finding 3. |
| `startup` | some 20,000 pipelines: all wirings of two transforms and perhaps a join, all attributes of a window, unread outputs, colliding ids, every short expression, two wasm nodes; 235,748 states | Are graphs, windows and expressions that pass as documented, and are guests stopped? Yes. |
| `validate_cycle` | the same graphs | Is a pipeline that passes free of cycles? **No**: finding 5. |
| `wasm_cache` | two wasm nodes, two starts | Does the cache serve only whole modules? **No**: finding 4. |

What the passing properties are about:

* `AheadOfWatermark`, `FiresOnce`: what `on_record` takes for fired has been
  drained, and nothing drained is opened or sent again. `NewestEventSeen`: no kind
  of drop stalls event time. `CountedOnce`: a window that the idle timeout fires
  may fire again, but no record counts twice in it. `ImplementsWindowSpec`:
  contents, order and time of what is sent, with the cap, also when a sliding
  record finds some of its windows full and others not. `CloseDelivers`, `IdleFlushes`: the final flush and the
  idle timeout.
* `SentOnce`: a join of two inputs or more sends no bucket twice and none that it has
  evicted in part, whatever comes again. `UsedOnce`: a record that came n times is in
  n buckets at most, sent, open and evicted ones together. `EvictedIsReached`: what
  remains true of the eviction rule beside finding 1. `Accounted`: meters and output
  account for every record but the replaced ones. `JoinDrains`: the end.
* `DrainDelivers`, `WorkErrorSurfaces`, `SignalEndsRun`, `FailureEndsRun` for the
  runtime.
* `ImplementsAtLeastOnce`: through outages, lost acks, overdue acks, repeated
  publishes, dropped recvs and crashes. `HandledInOrder`: the order of a key, which
  event time relies on, as long as no pulled message was dropped.
  `EventuallyHandled`, `AwareDrainCloses`: liveness of delivery and of the drain.
* `ExclusiveUnlessLapsed`, `OneMissIsHarmless`, `DeadKeyFrees` for the lease.
* `DeltasConserved`, `DoneMeansDelivered`, `ExportsAtLeastOnce` (the refinement of
  `AtLeastOnce`, up to an abort), `StopEndsExporter` for OTLP.
* `EveryInstantHasAWindow`, `ReceiverTakenOnce`,
  `CoPartitioned` for validation and wiring; `ParsesTheGrammar`,
  `FirstOperandDecides` for expressions; `CutOffForItsOwn`, `GuestsAreStopped`,
  `TickerStops` for wasm.

**Bounds.** With size 3 and slide 2 a record lies in one or two windows, and times
0..4 with lateness 1 reach every relation of a record to the watermark (ahead, within
the grace, late for one of its windows, late for all). Three records are enough to
open two windows, to fill one to its cap and shed, to move the watermark past a window
and come back late, and to reopen a window that the idle timeout has fired. Two
inputs with two groups in two windows are the least that shows a window end reached
with a group still missing, and an eviction followed by the missing half; five
records let a bucket that was sent, or evicted, be filled again. In `pipeline` the
channel to the sink takes one record and is filled from two sources, so a producer
blocks; the graph has a chain of two transforms, a transform with two inputs and an
output nobody reads.

On the NATS edge two records are what order and a redelivery between them need;
the worker owns one of the two partitions, so a record can be somebody else's. The
caller's timer is longer than `DrainIdle`: with a shorter one no drain ends
(section 6). In the lease the TTL is three renewal periods, as in the code (30 s
and 10 s); four starts let each process start again after a death, a refusal and a
lapse. In `otlp` a client with a gauge before its counter can give up between the
two, the batch fills by count and by ticker, and the channel blocks a handler while
the other's records are exported. The expressions are every text of up to four
tokens over one operand per precedence level, and selected alphabets up to seven,
one over `MaxTokens`; nesting reaches one over `MaxDepth`. In `Wasm` a budget of two
ticks separates an interrupt after the guest's own time from one after leftovers.

**Fairness.** Nothing is assumed of inputs, clients, queries, faults, signals or
outages in any module. What is assumed is tokio's scheduling of tasks that are
ready, the advance of the clock, and of the outside only what is named here.

* Window: the task runs, its downstream takes what it is sent or goes away.
* Join: the loop runs; when an input ends is the upstream's business.
* Pipeline: every transform, sink and the supervisor run, and a sink does not block
  for ever. `SignalEndsRun` and `FailureEndsRun` assume `<>[]~watching`, which
  finding 2 shows to be needed.
* NatsEdge: weakly fair worker and clock; strongly fair successful bind, ack and, per
  partition, delivery. The strong ones say that a caller's timer does not beat the
  answer of a reachable server every time and that the merged streams, polled from a
  random one, each get their turn. A bind that fails may be cut short every time. An overdue ack is redelivered in the end (JetStream's
  `ack_wait`). `EventuallyHandled` assumes NATS reachable in the end; the drain
  assumes it reachable for good, or unreachable for good and the node's timer not
  cutting `recv` short for ever.
* Lease: weakly fair clock, claim loop and renewal; a create that is tried for ever
  has its answer lost only finitely often in a row (`SF(Claim)`).
* OtlpRelay: weakly fair exporter and handlers, strongly fair `Send` (tokio's
  channel queues its senders). `StopEndsExporter` assumes the collector answers in
  the end, since the exporter retries for ever by design (ADR-0017).
* Wasm: weakly fair ticker, interrupts, host code between the guest's calls, file
  operations, and the drop of aborted tasks. The guest owes nothing.

`CHECK_DEADLOCK FALSE` is set because every one of these systems ends: a task that
is done, or a bound that is used up, leaves no step.

## 4. Proofs

All theorems hold for every value of the constants that the named assumptions of
the modules admit: what `validate`, `PartitionConfig::validate`, the types and
the constants of the code say.

| Module | Theorem | Statement |
|---|---|---|
| `WindowProofs` | `StartsAreTheWindowsHoldingIt` | `window_starts` answers exactly the multiples of the slide whose window holds the timestamp |
| | `TypeCorrect` | `Spec => []TypeOK` |
| | `NothingOpenBehindWatermark` | `Spec => []AheadOfWatermark` |
| | `EventTimeNeverStalls` | `Spec => []NewestEventSeen` |
| | `CapHolds` | `Spec => []WithinCap` |
| | `WindowsFireOnce` | `Spec => []FiresOnce`: until the idle timeout collapses open windows |
| | `RecordsCountOnce` | `Spec => []CountedOnce`, idle timeout or not |
| | `WindowsAreAsPromised` | `Spec => ImplementsWindowSpec`: until the same |
| | `WindowsLeaveInOrder` | `Spec => [](~collapsed => SentAscending)`: window starts never descend |
| | `WindowsFeedAJoin` | `Spec => FeedsAJoin`: until the same, what is sent next is what a join assumes of an orderly input |
| `JoinProofs` | `TypeCorrect` | `Spec => []TypeOK` |
| | `SendsOnce` | `Spec => []SentOnce`, for two inputs or more, orderly or not |
| | `RecordsAreUsedOnce` | `Spec => []UsedOnce` |
| | `EvictsOnlyTheReached` | `Spec => []EvictedIsReached` |
| | `NothingUnaccounted` | `Spec => []Accounted` |
| `PipelineProofs` | `TypeCorrect` | `Spec => []TypeOK` |
| | `NothingLost` | `Spec => []DrainDelivers`, for graphs with unread outputs, too: of the records with a way to a sink |
| | `FailureSurfaces` | `Spec => []WorkErrorSurfaces` |
| `NatsEdgeProofs` | `PartitionsAreShared` | workers' shares are disjoint, cover all partitions, none is empty |
| | `TypeCorrect` | `Spec => []TypeOK` |
| | `EdgeIsAtLeastOnce` | `Spec => ImplementsAtLeastOnce` |
| | `NothingAcceptedIsLost` | `Spec => []Edge!Lossless` |
| | `OrderOfAKey` | `Spec => []HandledInOrder` |
| `LeaseProofs` | `TypeCorrect` | `Spec => []TypeOK` |
| | `HoldersHaveTheKey` | `Spec => []HolderHasKey` |
| | `IndexIsExclusive` | `Spec => []ExclusiveUnlessLapsed` |
| | `OneMissNeverLapses` | `Spec => OneMissIsHarmless` |
| `OtlpRelayProofs` | `TypeCorrect` | `Spec => []TypeOK` |
| | `IncrementsConserved` | `Spec => []DeltasConserved` |
| | `EndsDelivered` | `Spec => []DoneMeansDelivered` |
| | `ExportsImplementAtLeastOnce` | `Spec => ExportsAtLeastOnce` |
| `ExprProofs` | `ParserReadsTheGrammar` | for every text: the parser returns the one tree in `Meanings`, and an error where there is none |
| | `FirstFaultDecides` | for every text that parses and every record: evaluation faults on the operand that comes first in the text of those that are no number |
| `StartupProofs` | `CyclesNeedAJoin` | `Spec => []OnlyJoinsCloseCycles`: finding 5 needs a join |
| | `EveryReceiverIsTakenOnce` | `Spec => []ReceiverTakenOnce` |
| | `KeysMeet` | `Spec => []CoPartitioned` |
| | `InstantsAreCovered` | `Spec => []EveryInstantHasAWindow`, and the same for every timestamp there is |
| | `CutOffForOwnTime` | `WasmSpec => CutOffForItsOwn` |
| | `TickerOutlivesGuests` | while a guest runs, so does the ticker that can stop it |
| | `PartsKeepTheirPromises` | `StartupSpec` implies the five properties of the parts above |
| | `ExpressionsFollowTheGrammar` | `StartupSpec => []ParsesTheGrammar` |
| | `FirstFaultyOperandDecides` | `StartupSpec => []FirstOperandDecides` |

**Window.** `TypeOK`, `AheadOfWatermark` and `NewestEventSeen` are
inductive given the type invariant; the last needs that a late record is not
newer than the newest event (`LateIsOlder`), which holds because the newest
window of a record is still open if the record is newer. `WithinCap` needs that
folding adds at most one group to a window, and only to one with room. `FiresOnce`
is not inductive: after a window has fired, what keeps it from opening again is
that the watermark has passed its end and never goes back. `FiresInv` adds that
(`FiredBehind`: while the loop runs, what is fired or sent lies behind the
watermark), that nothing open does (`AheadOfWatermark`), and that what fired
together holds one aggregate per group (`OneEach`). Once the idle timeout has
collapsed open windows `FiredBehind` is false (section 5, first of the further
disagreements), so the invariant holds under `~collapsed`, which never comes back. What
remains true then is `CountedOnce`, by another argument: what is open, fired or
sent is made of records that have arrived (`Arrived`), and the next record is none
of them (`Numbered`), so it can only be in what fires later.

**Window implements WindowSpec.** `WindowSpec` computes the contents of a window
from the whole history: which records were in time given all that came before
them, which groups came first. `Window` decides both when the record arrives and
keeps nothing but folds and a watermark. `PromiseInv` says that the two agree.
For every window the watermark has not passed, its folds are exactly what the
history admits (`OpenHolds`), and a group that came and is not held came when the
window was full (`OpenCapped`); what has fired holds its contents (`FiredHolds`);
and of what is complete nothing is missing (`NoneOwed`). An arrival changes the
contents of no window that is passed, adds itself where it is in time, and cannot
change the admission of a group that came before it (`ArrivalKeepsOrder`,
`ArrivalKeepsAdmission`), so the decision made on arrival stays right. The
watermark of the code is that of the promise by `NewestEventSeen`. A step of
`Emit` sends one of what fired last, and everything due that is not sent fired
with it (`FiredIsDue`): no earlier window is skipped. That is the refinement,
with the identity on `seen`, `sent` and `closed`. `WindowsLeaveInOrder` is the
order of windows, from `FiredBehind` and the watermark alone; with `WindowsFireOnce`
it gives `WindowsFeedAJoin`. The invariants behind these four theorems all have the
hypothesis `~collapsed`, and a step that collapses is where the promise ends.

**Join.** That a bucket leaves once does not rest on the inputs. A bucket leaves,
sent or evicted, when every input has reached its window: `LeftBehind` and
`EvictedBehind` say that the newest ends of all inputs are at it or past it, and
they never move back. From then on what reopens it is evicted before the next record
is taken (`OpenAhead`: between two turns nothing open lies behind all ends), so at
each turn it has the one slot of that turn and, with two inputs or more, is not
complete. This needs that a filled slot has moved its input's end (`OpenReached`):
the record that completes a bucket is the one that brings the last of the ends to its
window. With one input it is false (section 5). `EvictsOnlyTheReached`: the newest
end of an input is that of a record it has fed (`EndsFed`). `UsedInv` counts places
per record: in the channel, sent, being sent, open and evicted, together no more
often than it was fed; a replaced record drops out of the count. `Accounted` is counting: `Balanced` is kept as each turn moves one
record, n of them (a complete bucket) or between k and (n - 1)k (k buckets
evicted, each with a record and without one of its n).

**Pipeline.** `Conserved` says that each record sent by a source is delivered,
dropped on purpose, in a channel, in hand or held. For `DrainDelivers` nothing
from a source in `ReadOn` (no way from it leads to an unread output) must be in flight
at a good end, for any graph. `OnTheWay` says that such records are only where the
way leads to a sink, in the channels of outputs in `ReadOn` and with the nodes
`Served`. `EndsEmpty` says of each node served: unless a transform or sink failed or was
aborted, one that has ended had its inputs end before it and left nothing. The point is
the early end: a transform whose `send` fails ends with a record in hand, but its
reader, there being one and served in turn, must then have ended while an input of its
own, this one, was still running, which `EndsEmpty` denies. Behind an unread output
this is false, and records there may be lost in a run that ends well. While the graph
is wired no input is closed, so no node served ends well before (`StaysWired`).
`EndsWell` brings that together with the supervisor: the answer is ok and unforced
only after every transform and sink is done, and `AbortedLate` keeps aborts out.

**NatsEdge.** `IInv` is `Shape` (the message handed out carries a record, a
publisher has one) and `HandedOver`: when the worker acknowledges, what it
acknowledges was handled. That is the order in `recv`, ack at the next call,
and the only thing the refinement needs beyond the shape: every step maps to
`Store`, to `Consume` or to a stutter. `NothingAcceptedIsLost` follows from the
refinement by the invariant of `AtLeastOnce`. For `HandledInOrder` three facts
meet: the stream numbers records in the order of sending, repetitions included,
since `send` confirms one before the next (`SentInOrder`); the records of a key
share a partition (`ByKey`); and while nothing pulled was dropped, everything
delivered and not yet acknowledged was handled or is the message in hand
(`TakenInOrder`). So the least message of a partition that can be taken has all
its key's predecessors handled (`OldestIsNext`). The type invariant needs a count
of its own (`Counted`): a sequence number stays within what the records and the
repeated publishes use up.

**Lease.** Exclusion alone is not inductive: a second process may claim as soon as
the key is absent. `HolderHasKey` is the strengthening: until a lease lapses,
whoever runs or is about to release has its key in the bucket, so a create fails.
For the timing, `KeyAge` bounds the age of the running owner's key by its renewal
timer and the renewals it has missed; a key that expires under its owner is then
more than one renewal period and a whole timer old, so two renewals were missed.
`RenewalsInATtl` is the arithmetic of `LEASE_TTL / 3`.

**OtlpRelay.** `DeltasConserved` is one balance per client, over a sum on a set
and a decode folded over the points of a request, for any number of points. What
the two folds compute is shown first, by well-founded induction on the subsets of
a finite set: a set without the claimed property has a least one
(`LeastSubset`, from the library's theorem that strict inclusion is well-founded
there), and its smaller subsets have it. `Total` and its lemmas then treat the sum
as one that an element joins or leaves, and `DecodedIs` says that a request's
records carry its whole increment once, on its first sum. `Baseline` relates
the stored last value to what the client has counted, and what a restart of the
counter may hide; `FromRequests` keeps the records of an earlier request apart
from those of the next. The refinement of `AtLeastOnce` needs `Kept` (what was
accepted is delivered, or in channel, buffer or batch), and `LastExport` that the
last flush begins with nobody left to send.

**Validate.** `GraphInv` says what each finished phase has established: ids are
distinct, every transform was reached before a pipeline passed, and the nodes
reached lie in every set of outputs that holds the sources and is closed under the
edges (`WithinClosed`). A circle of transforms that are no joins would
leave its complement closed, so the walk would have missed it. `WiringInv` adds
that the inputs of the nodes checked so far are pairwise different outputs, and
that the joins checked agree; together they give that each channel is read at most
once and is keyed by its reader. `ValuesInv` adds that a pipeline past the check of
values has had every window's durations checked; a slide that is neither zero nor
longer than the size leaves no gap (`SlidesCover`).

These are theorems about `Validate!Spec`, and those about wasm are of `WasmSpec`,
which is `WasmInit` and the steps of `WasmNext`. The run `startup` checks the
formulas in the composition, and `PartsKeepTheirPromises` carries the proofs over to
it: every step of `StartupSpec` is a step of validation or of a wasm node, or leaves
the variables of both alone (`StartupParts`).

**Expr.** That the parser reads the grammar has two halves. `Completeness`, by the
length of phrases: a call that has a phrase before it, with levels for the depth of
the phrase, a binding power its rank allows (`Level`) and behind it no operator that
would take its end as a left operand (`Tight`), comes by that phrase in its loop, and
returns it if the loop breaks there. So all phrases that are the whole text within
the depth have the one tree that the parser returns. `Soundness`, by the levels:
what a call returns is a phrase from its position, no deeper than its levels and of
a rank it may read, and what stands behind it stops the call (`CallsRead`). Hence a
parse is a meaning. The library's induction theorems take an operator as parameter,
so `Induction` is derived from well-foundedness and used on sets.

The order of faults has a lemma per kind of phrase (`EvaluatesLeaf` to
`EvaluatesBinary`): the walk is done with a phrase after as many visits as it has
tokens at most, or comes to its first faulty operand and stays there (`WalkStays`),
whatever is pending behind it. A parse is a phrase of the whole text, for which
`MaxTokens` visits are enough.

**Startup.** `Blamed` says why a pipeline was refused: with `BadExpression` as the
verdict, one of its expressions does not parse. With `ParserReadsTheGrammar` it
gives `ParsesTheGrammar`. `FirstOperandDecides` is about the texts of a pipeline that
passed, so every map has a value, and it parses; blanks shift positions but not the
order of the operands.

**Wasm.** `BudgetSpent`: during a call, what the guest ran on this record and what
is left of its deadline make at least the budget, because the deadline is armed
again before each call, whatever earlier ones left of it. `EngineHeld`: a node
holds the engine until it has ended, and the ticker's thread lives while anybody
does, hence as long as any guest runs, in aborted tasks, too.

The strengthened invariants of this section were first checked by TLC on the
instances of section 3, and then proved.

**Only model-checked.** All liveness (`CloseDelivers`, `IdleFlushes`, `JoinDrains`,
`SignalEndsRun`, `FailureEndsRun`, `EventuallyHandled`, `AwareDrainCloses`,
`DeadKeyFrees`, `StopEndsExporter`, `GuestsAreStopped`, `TickerStops`): the prover
does not reach fairness or `ENABLED`. The five violations are counterexamples
found by TLC. Every other property that a passing run checks is proved: no
invariant and no action property is left that only a run shows.

## 5. Findings

1. **Join evicts groups both inputs have** (`join.rs:135-145`). An input counts as
   having reached a window with its first record of it, so with several groups per
   window the eviction runs while the other groups are still to come. The
   documentation says an evicted bucket lacks an input's data.
2. **A Watch stream holds the shutdown** (`inspect/server.rs:72`,
   `inspect.rs:129`, `runtime.rs:388`). The comment expects the stream to close
   when the node exits; the registry's own sender keeps it open.
3. **Increments are lost while a sink retries** (`otlp/receiver.rs:34-37`). A request
   moves the baselines of all its series before its records are sent; a client that
   gives up on it while the pipeline is full loses the deltas not yet sent, and its
   retry is answered Ok without them. ADR-0017 says a stall loses nothing silently.
4. **The wasm cache serves half-written modules** (`wasm.rs:266`). `fs::write`
   empties the file and then fills it; a node that starts meanwhile, or any start
   after a crash in between, takes the part for the module, fails on it, and goes on
   failing at every start. The comment says a failure just means a refetch.
5. **Validation accepts a cycle through a join** (`runtime.rs:262`). Reachability needs
   one reached input only, so a join that reads a window of a source and one of its own
   output passes. The comments (`runtime.rs:11-12`, `:111`, `:260-261`) and
   `troubleshooting.md:68` say cycles are rejected; the channels of this one never
   close, so its drain ends only by a second signal.

Further disagreements met while modelling, which no run here is about:

* A window whose groups fired on the idle timeout opens and fires again when an
  older record still ahead of the watermark comes (`window.rs:452`, against the
  comment at `window.rs:108`): `drain_all` moves no watermark.
* An inspection query restarts the idle timer (`window.rs:451`), while the timeout
  is a spell with no *records* (`headrace-ir/src/lib.rs:83`).
* A failure of a source that has not been looked at when the signal is taken is
  never reported (`runtime.rs:402` against `runtime.rs:304-305`).
* A `recv` that is already waiting when the signal comes waits without a timeout
  (`nats.rs:494`, `nats.rs:525`); and the OTLP exporter's 200 ms tick
  (`exporter.rs:48-59`) restarts the two seconds of `DRAIN_IDLE` each time
  (`nats.rs:169-175`), so its drain ends only by a second signal. `AwareDrainCloses`
  states what is true: a drain that `recv` knows of and that nothing cuts short.
* ADR-0016 (line 25) says only a real conflict is fatal to a claim: a failure of
  `workers_kv` is fatal, too, and so is a worker's own key after a lost answer.
* A join with one input, which validation accepts, completes a bucket with each
  record: over NATS, or behind a window with an idle timeout, it sends a (key, window)
  twice, against "One record per `(key, window)`" (ADR-0012, line 30). `SentOnce` is
  about two inputs or more. There a resend of a bucket that was sent counts as
  `incomplete`, though nothing was missing, and a record that takes the place of
  another in its slot (`join.rs:118`) is metered nowhere.
* A drain while NATS is unreachable ends when a bind fails (`nats.rs:503`); a bind can
  take longer than the timer of the node's `select!`, which drops it each time.
* A `size` or an interval of `"0s"` passes: the window has no start to place a
  record in, and the generator has no period. `EveryInstantHasAWindow` excludes it.
* A trap in the guest's `dealloc` is ignored (`wasm.rs:581`, `:594`), and the
  instance used again, though a trapped instance is to be replaced (`wasm.rs:109`).

## 6. Not modelled

* What aggregates and expressions compute (f64 arithmetic), characters of the
  expression language, parsing of durations, encoding, formatting, logging, metrics
  export.
* u64 overflow of `start + size`: times are natural numbers. Timestamps within a
  window of the end of the u64 range are outside the model.
* A drain whose caller cancels faster than `DRAIN_IDLE`: the model has it
  (`CallerTimer`), the run does not set it, since nothing ends then.
* OTLP: protobuf fields, attributes, series keys, sums that are not monotonic.
* Inspection: the registry, the throttle of 100 ms and the lag of the broadcast
  channel. A query is a branch of the window's `select!`, an open stream a flag of
  `Pipeline`; a query to a join only reads.
* Wasm: reference syntax, credentials, size limits, SHA-256 itself.
* Generator, stdin and stdout beyond sending, writing and ending.
* The command line but for its order connect, claim, run; generated protobuf code;
  the guest SDK and its macro: generated, or glue without state.

## 7. Plan

Next, in this order:

1. `Inspection`: query queue, broadcast with lag, throttled publish; the last
   change within 100 ms of another is never sent.
2. A lossless edge, stronger than `AtLeastOnce`, for the in-process channel,
   implemented by each channel of `Pipeline`; an aligned join in the style of
   `WindowSpec`, implemented by `Join`.
