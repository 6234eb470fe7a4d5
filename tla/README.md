# Arckive in TLA+

Arckive is an EVM indexer: a Kubernetes operator starts one worker per
`Indexer` resource, each worker follows a chain and commits decoded logs into a
Postgres schema of its own, a second loop inside the worker asks a language
model which lane a row belongs to, and an explorer (Next.js) shows the rows as
they are committed. `src/radar` is a separate Python program that shows live
transfers.

This directory holds TLA+ modules of the parts whose correctness depends on
order, failure and concurrency, TLC configurations that check them on small
instances, and TLAPS proofs of what matters most for every instance.

Contents: 1 inventory, 2 plan, 3 the modules and the code, 4 runs,
5 fairness, 6 proofs, 7 findings, 8 limits, 9 running it.

File names below are relative to `src/packages/<package>/src`
(`worker`, `operator`, `core`) or `src/packages/explorer`.

## 1. Inventory

| Component | State it keeps | Operations | Interacts with | Module |
|---|---|---|---|---|
| **Ingest pipeline** (worker: pipeline, blocks, signal, rangesizer, status, main) | `_cursor`, rows, dead letters in Postgres; phase, span, announced head, latch in memory | boot, plan a range, fetch logs, guard, commit, shrink or grow the span, wait, back off | RPC nodes, head announcers, Postgres; wakes the insight loop | `Ingest` |
| **Storage** (worker: db; core: partitions, ddl, ranges) | partitions, address ids, indexes, `_meta`; in memory the partitions made, the newest seen, the rebuilds to do | bootstrap, partition DDL, id resolution and inserts inside the commit, rebuild of finished partitions | ingest's transaction, other sessions' locks | `Storage`, `Worker` |
| **Insight loop** (worker: insights, insightsdb, laya) | `_insights_cursor`, `_insights`, `_sentences`; pending round, identity, answer cache | prepare, ask, commit, settle, back off | reads rows up to `_cursor`, the model gate | `Insights` |
| **Insight endpoint pool and reads** (worker: rpcpool, pacer, txcontext) | per endpoint a rest and an interval; one request at a time; caches of factories and codes | chunk, send, fall through, rest, halve; blocks, factories and codes of a round | the insight loop | `RpcPool`, `InsightReads` |
| **Decoding and sentences** (core: decode, insights/\*) | none | pure functions of a log or a transaction | ingest, insights | `Describe` |
| **Worker RPC clients** (worker: rpc, ws) | sockets, retries | query, announce | nodes | `Worker`, `Ingest` |
| **Status and health** (worker: crstatus, status, health, metrics) | patches on their way | report on a timer, one word before a fatal exit, answer probes | API server | `Worker`, `ReconcileGate` |
| **Operator** (operator: gate, reconcile, main, kube) | per uid: recorded generation, running, pending, latest, retry timer | watch event, resync, retry, reconcile, close, restart | API server, users, workers' status writes | `ReconcileGate` |
| **Kubernetes requests, rendered resources** (operator: kubehttp, resources) | none | apply, patch, read | API server, kubelet | `Worker`, `ReconcileGate` |
| **Explorer tape** (lib: tailer, release, hub, stream-client, streamroute, sse, window, pacing; HomeLive) | last released block, buffer, subscribers' queues; the viewer's rows and last id | cycle, publish, reseed, subscribe, reconnect | the worker's tables; browsers | `Tape` |
| **Explorer rollup** (lib: rollup) | `rollup_cursor`, `address_daily`; the span | one transaction per range under an advisory lock | the worker's tables; other replicas | `Rollup` over `Archive` |
| **Explorer pages** (lib: runtime, tokens, address, tx, txstory, addrstory, search, ...) | what the runtime last refreshed, the token reader's outage, `explorer.tokens` | boot, refresh, address and transaction pages, polling panel | Postgres, RPC | `Pages` over `Archive` |
| **Configuration and CRD** (core: config, crd, abi, naming) | none | validate, render | all | - |
| **Radar server** (`radar/radar`) | bounded queue, breaker, question slots, feed position | receive, process, broadcast | RPC, model, browsers | - |
| **Radar fine-tuning** (`radar/finetune`) | files | offline scripts | - | - |
| **Benchmarks, tests, charts** | - | - | - | - |

What is hard in them, and what correct means:

* *Ingest.* A node answers `eth_getLogs` silently incompletely past its own
  head, so a head announced by another node needs a guard; the process may die
  between any two requests; a COMMIT may succeed and its acknowledgement be
  lost; dead letters have no conflict target. Correct: rows up to `_cursor` are
  complete, none is ahead of it, no dead letter is doubled, the cursor only
  moves forward, the worker catches up and says Live only when it is near.
* *Insights.* A round is prepared in one transaction, asked of an external
  model in several calls, and committed in another transaction, with crashes,
  outages and a changing model in between. Correct: it follows ingest without
  skipping or doubling, a round is bounded, an answer once obtained is kept
  under the model that gave it.
* *Operator.* Watch events, a listing and retry timers call the same gate in no
  common order while a reconcile is in flight. Correct: one reconcile per
  Indexer, no event lost, no older generation over a newer one, no timer for
  what is gone, convergence, and no patch loop through its own status events.
* *Tape.* A release waits for the lane or a hold, the buffer is trimmed, a
  viewer reconnects with an id that may be too old or too new, the server
  restarts, and the schema may be recreated underneath. Correct: after a hello
  the movements a viewer sees are consecutive, none before its time, and a
  viewer that keeps reading ends on the newest block.
* *Rollup.* Replicas compete, folds time out and shrink, an acknowledgement is
  lost, the schema is recreated. Correct: each block is in the totals once.
* *Storage.* A transaction creates partitions, gives ids and inserts while other
  writers and readers hold locks, and may fail anywhere or commit unheard. Correct:
  what a process takes to exist exists, an id means one address, lock orders do not
  cross, a failed rebuild leaves nothing behind.
* *Endpoint pool and reads.* Endpoints refuse, rest, fail in the middle of a batch
  that is halved. Correct: each call is answered, or rejected by every endpoint,
  each asked once; a description says what the chain holds whatever was cached.
* *Worker's life.* ConfigMap and Deployment are two applies, a boot may be cut off
  after any statement, patches overtake each other, sockets drop in every state.
  Correct: a schema keeps one meaning, the newest spec is what runs or is refused,
  the Indexer says so, and the worker listens.
* *Pages.* An answer is several queries and what a refresh remembered, while blocks,
  lanes and the rollup move on. Correct: a history is whole from page to page, a
  token is read in the end, and what a page says settles at what is stored.

`PROJECT.json` lists the hazards of the code line by line, those no property covers
with the reason.

## 2. Plan

Order: what every other part relies on first.

1. `PrefixFollower`, the abstract specification of a cursor; `Ingest` refines
   it. *Done, with proofs.*
2. `ReconcileGate`. *Done, with proofs.*
3. `Insights`, which refines `PrefixFollower` behind an ingest that is itself
   only what `PrefixFollower` promises. *Done, with proofs.*
4. `Tape`. *Done, with proofs.*
5. `Rollup`. *Done, with proofs.*
6. `Storage`: the batch's transaction statement by statement between two writers
   and a reader; the Compactor. *Done, with proofs.*
7. `Worker`: what the operator renders, the boot with bootstrap, the sockets and
   the status, around rounds that end well or badly. *Done, with proofs.*
8. `RpcPool` and `Describe`, composed by `InsightReads`. *Done, with proofs.*
9. `Pages`. *Done, with proofs.*
10. Not started: `Radar`, queue accounting, breaker, slot rotation and the feed's
   position (server.py, arc.py, rpc.py); a second query endpoint in Ingest; two
   Indexers of one name in ReconcileGate on an instance small enough.

The project keeps to twelve runs that finish in a few minutes, and each property
of a passing run is one that a mutant of the code breaks. Type invariants
(`TypeOK` of each module) are proved and in no run; the same goes for three
properties stated for a proof, `GaugeTold` in `Worker`, `FinalVerdicts` in `Pages` and
`ReadsFolded` in `ExplorerProofs`. Every invariant and action property of a passing run
is proved for all constants, as far as section 6 says.

## 3. The modules and the code

The `map` of `PROJECT.json` names the lines of every definition. In short:

### PrefixFollower

Abstract: items have blocks, a cursor is placed once and moves forward, and a
step that moves it handles exactly the items in between. `PrefixDone` is what
follows. There is no code of its own; it is what `insights.ts` and the explorer
assume of `_cursor` ("rows up to _cursor are complete"), and what
`_insights_cursor` promises in turn.

### Ingest

| Model | Code |
|---|---|
| `ResolveStarts`, `InitCursor` | main.ts boot: relative starts against the head of this boot; bootstrap writes the cursor only if there is none |
| `TargetFromSignal`, `TargetFromRpc`, `Plan` | `runOnce`: the announced head if the finality tag is latest and it is ahead, else a query; `planRange`; phases |
| `AnswerLogs`, `AnswerHead` | the two requests of one `Promise.all`, each answered by some node at its own instant |
| `Guard` | the completeness guard, only for an announced target |
| `ShrinkSpan`, `GrowSpan` | `RangeSizer` |
| `Commit`, `WriteBatch` | `commitBatch`: rows, dead letters and cursor in one transaction |
| `Announce`, `Wait`, `PollTimer` | `HeadSignal.notify`/`wait`; only the primary socket moves the target |
| `Fail`, `CommitUnacknowledged`, `Crash`, `Retry` | `runLoop`'s catch and backoff; a lost acknowledgement; a dead process |
| `ProduceBlock`, `ImportBlock` | the chain and the nodes (external) |

A log is a block, a contract and what decoding does with it: an event, an
undecodable log (dead letter) or one of an event nobody indexes. `HeadFirst` is a
*configuration of the environment*: FALSE is the code as it is, the two requests
answered in either order; TRUE excludes the order in which the logs are read
before the head, so that the rest of the module can be judged apart from that
finding. Partitions and address ids are `Storage`'s. A failover endpoint is a second member of `Nodes`; runs have one node.

### ReconcileGate

A key is a uid. `Deliver` is `ReconcileGate.watch` with one event,
`List`/`Resync` the interval's listing gone through one object at a time,
`RetryFires` the waiting retry; `Schedule` is `#schedule` with its stale check,
`Join` and `Start`; a drain is `#drain` with the reconcile's steps: `Check`
(spec, Secret, ConfigMaps), `Apply` part by part, `SkipPatch`/`Patch` of the
condition, `Throw` at any point; `Finish` is the tail of `#drain` in one
microtask. `Close` and `Restart` are SIGTERM and a new pod. A copy of an object carries the
status of its moment, since the condition is compared with that copy.

Abstracted: condition messages to ok, waiting and invalid; generations that are
undefined; the watch's queue, which merges into its last event when full (the API
server may relist); two operator pods at once; the resources' content.

### Insights

`Bootstrap`, `Identify`, `Top`, `ReadCursors`, `InitCursor`, `Prepare` (with
`CapRange`), `Ask` (one model call per step), `Commit`, `Settle`, `Resume` are
the stations of the loop; `Fail`, `CommitUnacknowledged`, `Crash` what may go
wrong at them. `sentences` is `_sentences` with its two statements, the insert
and the fill of a missing answer; `Offered` is the Map of `sentenceIds`, where the
last row of a sentence and label wins. Ingest is an environment that only moves
its cursor forward over complete rows. The backoff's length, the cache limit and
the context reads are left out; whether a row is ruled is a constant of the row.

### Tape

| Model | Code |
|---|---|
| `Start`, `StartOver`, `SkipAhead`, `Follow` | `cycle`: init, the cursor went back, far behind, the ordinary case: the target query |
| `Reseed`, `Publish` | the movements query and what the hub does with them, atomic as in the code |
| `ReleaseTo`, `HeldThrough` | release.ts and the query of `#target` |
| `Trim`, `HelloFrame`, `Greeting`, `Resumes`, `Broadcast` | hub.ts |
| `Connect`, `Receive`, `EndOfStream`, `Break` | streamroute and stream-client: a chunk is read whole or broken off within |
| `Shown` | HomeLive's reaction to hello and block events |

`Commit`, `Classify`, `Age` move by one block; a batch is several steps that the
tailer need not look in between. Stats, retry and heartbeat frames only take room
in a queue. MAX_ROWS, MAX_STREAMS, the pacing of rows, a paused tape, the rolling
minute and the memo of the hello are left out. A re-index is of the same chain. An
empty hello (no movements in the last CATCHUP blocks, or a chain's start) makes the
page forget its newest block but keep its rows; later blocks may then repeat or skip
relative to *those* rows, so `viewer.kept` counts them and `NoGap` speaks of the
rows since. `Recreate` does not fall between the two queries of one cycle, an
assumption listed as a hazard.

### Archive

What `Rollup` and `Pages` have in common: the worker's cursor (`head`), the rollup's
(`rolled`), and the faults. `ArchiveSpec` is all the pages need to know of the two
writers: `head` goes up block by block and `rolled` anywhere between where it was and
`head`. `Rollup` takes the variables and refines the specification while no schema is
dropped; `Pages` takes its two actions as the environment (`Archived`).

### Rollup

One replica's step is a transaction of several statements, each an action:
`Begin` (BEGIN and the lock), `ReadHead`, `ReadRolled`, `Fold` or `Cancel` (the
statement timeout), `Commit`; `CommitUnacknowledged`, `Fail`, `Restart` may
happen. Each statement reads what is committed then (READ COMMITTED); DROP and
TRUNCATE wait for transactions that have read the table, and therefore so do
`Recreate` and `Reset`. A fold is cancelled when its range has more than
`Affordable` rows. `Watched` says whether the operator resets the explorer's tables
before a schema that was recreated is indexed past `rollup_cursor` again.

### Storage

| Model | Code (db.ts) |
|---|---|
| `Begin`, `Plan`, `First`, `AskPartition`, `CreatePartition` | `Partitions.plan`: what the batch needs and this process has not made, sorted by table and number, one CREATE IF NOT EXISTS after the other: the partition is looked for as the statement starts, then made once the parent's lock is free |
| `StartIds`, `Resolve`, `Given`, `Known` | `resolveAddresses`: the INSERT takes the unknown addresses as it starts, waits for a key another transaction inserts, gives no id where it lost |
| `InsertRows`, `InsertOrder`, `Placed` | the inserts, `_blocks` first, then tables in the order of their first row; without its partition an insert fails |
| `Commit`, `CommitUnacknowledged`, `Committed`, `Rollback`, `Doomed`, `Forget` | COMMIT and what is remembered only after it; an answer that was lost; ROLLBACK, after a fault, a deadlock, or a statement that cannot succeed: an insert without its partition, a CREATE that waited until another session had made the same one |
| `Connect`, `Reindex`, `Drop`, `Release`, `ResetTimeout` | `Compactor`: its session, REINDEX, `dropInvalid`, the `finally` |
| `Restart` | a process that ends, in whatever state |
| `Query`, `Lock`, `EndQuery` | a reader of the explorer that joins the event table to `_blocks` (rollup.ts:34) |
| `WaitsFor`, `Holds`, `Contested`, `Deadlocked` | PostgreSQL's locks as far as they make one session wait for another (external) |

Two writers are not a supported deployment, but a node that is lost may leave one
running beside its successor. Rows are logs with the addresses they name; what a
column holds is left out.

### RpcPool, Describe and InsightReads

`RpcPool` is one `all()` at a time: `All`, its chunks (`NextChunk`), an endpoint that
is ready or the one that rests least (`Bring`), the request behind the pacer's
interval (`Request`), the replies (`Answered` with what it leaves out, `Throttled`,
`Broken`, `TooLarge` with the batch halved where it is), the way to the next endpoint
or to a rejection (`Leave`, `EndChunk`), and `BackOffShared`. `Describe` holds
the pure functions of sentence.ts and signatures.ts; which selectors and topics mean
what are constants, and a sentence is the record of what its wording depends on.
A transaction's entry points and the pool manager are two tables, and its venue is the
first log's, in log order, whose pool has a factory with a name.
`InsightReads` extends both with the three batches of a round (blocks and receipts,
factories, codes), the bounded `Lru`s, the pools that are not asked again for a while,
and the descriptions that come of it. What the chain holds is a constant. The boot's
check of the endpoints (`checkPoolChain`) and a token's symbol (`readTokenInfo`) are
left out, and so are the texts of the lanes.

### Worker

| Model | Code |
|---|---|
| `ApplyConfigMap`, `ApplyDeployment`, `Hash` | the end of `reconcile`; `configHash` as annotation of the pod template |
| `StartPod`, `EndPod`, `Sync`, `Terminate` | Deployment, kubelet, SIGTERM (external, as resources.ts uses them) |
| `Boot`, `FilterRpcs`, `ResolveAbis`, `Bootstrap`, `Refuse`, `InitCursor`, `Start` | main.ts in its order; `bootstrap` with `checkLayout` and `_meta` |
| `Fatal`, `ReportFatal` | `reportFatalToCr` before the exit |
| `Push`, `Land`, `Lose` | the status loop's patches and what becomes of them |
| `Announcing` | announceRpc's urls, and the ws urls among the endpoints that were healthy at boot (main.ts:118) |
| `Subscribed`, `Drop`, `Reconnect`, `SetConn` | ws.ts |
| `RoundDone`, `RoundFails`, `Shutdown` | a round of ingest as Ingest has it, reduced to how it ends; the exit after SIGTERM |

A config is the record of what is fixed in a schema's life and the endpoints. The
phase Live stands for Backfilling too. `reportFatalToCr` sends no block numbers; that
a server-side apply of the same manager thereby removes them is left out, as are
the numbers themselves. A boot without a usable endpoint says Degraded only to
itself: the status loop starts at the end of the boot, so the Indexer hears
nothing, and `StatusTold` promises it nothing.

### Pages

| Model | Code |
|---|---|
| `Boot`, `RefreshLanes`, `RefreshHead`, `RefreshRolled`, `RefreshFails` | runtime.ts: boot and the refresh, query by query, with what stays when one fails |
| `RestartExplorer` | a new process: the runtime forgets, `explorer.tokens` stays |
| `OpenAddress`, `ReadId`, `ReadTotals`, `ShowEmpty`, `ReadHistory`, `ReadRecent`, `FollowOlder` | address.ts and addrstory.ts |
| `Newest`, `Scan`, `LatestRows`, `PageRows`, `MoreRows`, `Older` | latestSql's two scans and their UNION, each with its LIMIT; the row more than the page shows; the next page's keyset position |
| `OpenTx`, `LoadTable`, `Loaded`, `ReadLane`, `ReadLaneCursor`, `Poll`, `NotFound` | tx.ts, the lane route and LanePanel.tsx |
| `SkipToken`, `AskToken`, `TokenAnswered`, `TokenUnanswered` | tokens.ts |

A page of a history is the set of its rows, since their order is the log's, and
`page.walk` the sequence of pages that were followed from the first. `LIMIT k` takes the
rows that fewer than k others are above of. One visitor opens one page at a time, and its polls do not overlap. An address is
known by its transfers only; the query for the days' chart is not modelled apart;
`explorer.tokens` survives a restart and the outage does not.

## 4. Runs

| Run | What it asks | Bounds, and why they suffice |
|---|---|---|
| MCIngest | every safety property, refinement and liveness of the pipeline | 4 blocks, batch 3, provider cap 2 (a range is capped, shrunk and grown again), 3 faults (a lost acknowledgement, a crash and a failure in one behaviour), logs of all three kinds in blocks 1 to 3, the last block empty |
| MCIngestTail | *violated*: Complete with starts relative to the head | one crash |
| MCIngestRace | *violated*: Complete when logs are answered before the head | no fault at all |
| MCReconcileGate | one run, nothing lost, no stray timer, order, convergence, quiet | one Indexer, 2 generations, room for 2 runs so that a second would show, one listing, one failure, one restart, one Secret removed |
| MCReconcileGateRetry | deleted means left alone | an invalid generation, a Secret that may be missing, delays 5, 10, 12 so that the cap is met, one restart, no resync |
| MCInsights | round bound, answers kept, refinement, catching up | a block with 3 rows against MaxRows 2, a sentence that is ruled in one row and asked in another, relative start, 2 faults, one change of model |
| MCTape | no gap, no early release, viewer catches up | 3 blocks with 1, 2, 1 movements and a hello of 2, so that a hello cuts a block and trimming happens; CATCHUP 1 and MAX_GAP 2 so that skipping ahead and going back both happen; queue of 4; one fault and one recreated schema |
| MCRollup | each block once, and the rollup arrives | 2 replicas, 4 blocks of which one is quiet, one affordable row so that spans 4 and 2 are cancelled, 2 faults, one recreated schema |
| MCInsightReads | calls answered or rejected by all, descriptions settled, recovery | an http endpoint with 2 calls to a request and a ws endpoint with 1, the first shared with ingest, a block that fits only without its receipts, 3 rows in rounds of 1, one of them with a transaction its block does not hold, one a swap through the pools of two exchanges, caches of 2 for the 3 parties, so that one of them is evicted between two rounds; endpoints fail and recover at any time |
| MCStorage | locks, ids, cursor and memory of two writers, tidiness, progress | 3 blocks in 2 partitions of 2 tables, batches of 1 or 2 so that ranges of two writers overlap and cross a partition, 2 addresses wanted in different orders, one Compactor, a reader, one fault anywhere |
| MCWorker | one meaning of a schema, adoption, status, listening | three configs (two only poll and differ in what `_meta` fixes; the third listens on one endpoint by announceRpc and on the other because it is a ws url it queries), three schemas found (none, one of before `address_indexes`, one of layout 1), two endpoints, 2 patches on their way, one change of the spec, one of an endpoint, one fault |
| MCPages | history, tokens, settling | a block that fills more than a page of 1, a self-transfer, a transaction with pools, an outage of 2 ticks, one poll, 2 blocks, one fault |

What the properties say:

* `Complete`, `FollowsChain`: rows and dead letters are exactly what the chain owes
  up to the cursor, at every moment.
* `DeadOnce`, `SettledHistory`: a retry neither doubles nor rewrites history; who has
  read up to the cursor has read all.
* `NoSleepThrough`: each step latches an announcement or starts a round, sleeps over
  nothing latched, and gives the latch up only where a round follows that reads the
  head anew. `LiveMeansNear`: the phase means what others take it for.
* `CatchesUp`, `SettlesLive`: through caps, skipped rounds and faults.
* `OneRun`, `NoEventLost`, `RetryIdle`, `Forgotten`: the gate's maps agree with
  what is in flight.
* `ForwardUnlessFailed`, `Converges`, `Quiet`: what reaches the cluster.
* `FollowsRows`, `RoundBounded`, `AnsweredKept`, `CatchesUp`: the insight tables.
* `NoGap`, `HeldForLane`, `TapeCatchesUp`: what a viewer sees.
* `FoldedOnce`, `RollsUp`: what an address page sums up.
* `MadeExist`, `LockOrder`, `Addressed`, `CursorCovered`, `Tidy`, `Advances`: a schema
  under several sessions. `LockOrder` is about partition DDL alone; the reader and
  the inserts may deadlock with it, the server then fails one, and `Advances` says
  that the batches get through unless there is no end of that.
* `RejectedByAll`, `DescribedFromChain`, `Recovers`: what a round reads.
* `OneMeaning`, `Adopted`, `StatusTold`, `Listening`: a worker's life.
* `HistoryWhole`, `TokensLearned`, `PagesSettle`: what a visitor reads.

`AnsweredKept` deserves a caveat. It holds in MCInsights because no row there that is
asked about has a later ruled row of its sentence (`RuledFirst` in `InsightsProofs`).
With `Rows <- MCRowsRuledLast` (defined in `MCInsights`) TLC finds it
violated: insightsdb.ts:146 keeps the last of the rows that share a sentence and a
label, and a ruled row has no answer, although insightsdb.ts:163 goes to some length
to fill such an entry later.

In MCInsightReads `PaceMax` is 1: the interval is kept, but its doubling and halving
are not exercised, and a rest is always of one length.

Deadlock is checked except in MCReconcileGateRetry (an Indexer that is deleted and
left alone is the end), MCTape, MCRollup and MCPages (a chain at rest with nobody
owing a step is the end).

Each property of a passing run has a mutant in `PROJECT.json`: a plausible bug in
a mapped definition (a dropped guard, an uncapped double, a cursor moved too far)
under which TLC finds that property violated. The mutants' definitions stand
before the definition they change, marked "Mutant".

## 5. Fairness

* *Ingest*: weak fairness of the worker's step (a process whose promises and
  timers resolve) and of a node importing what the chain has. No block, no
  announcement and no fault is owed; faults are bounded, so they end.
* *ReconcileGate*: delivery of watch events, retry timers, the resync interval,
  the steps of a run, and the replacement of a pod that was closed. No user owes
  anything, a missing Secret included: `Converges` says *told why not*.
* *Insights*: weak fairness of the loop. `CatchesUp` has ingest being Live for good
  as its premise, because the code does nothing otherwise.
* *Tape*: the tailer's interval, the passing of time towards the hold (without which
  a lane that never comes holds a block for ever) and the viewer reading and
  reconnecting. Nothing is owed by the worker.
* *Rollup*: each replica's own step, and the operator doing the reset the log
  asks for.
* *InsightReads*: the reads, the pool's own steps and the passing of time. That an
  endpoint is well again for good is the premise of `Recovers`.
* *Storage*: the reader and the Compactor weakly; a writer strongly, because its
  statement may be able to go on only now and then, between others' transactions,
  and the server's lock queues serve who waits before who comes later. Deadlocks
  without end are excluded in the premise of `Advances`, since nothing in the code
  backs off by different amounts.
* *Worker*: the controllers and the kubelet retry, boots and rounds end, timers
  fire, a request ends. The end of an old pod is strong: a crash loop keeps
  interrupting it. No endpoint owes an answer; `Adopted` and `Listening` have that
  as their premise.
* *Pages*: queries end, the refresh's and the panel's timers fire, time passes.
  Neither the worker nor the visitor owes anything.

## 6. Proofs

TLAPS checks everything in the `*Proofs` modules; each extends its component.

* `IngestProofs`. `TypeInv` adds to the types where a cursor has been placed
  (`Placed`) and how the planned range lies to cursor, target and span
  (`Planned`); without it `from` and `to` cannot be bounded. `CursorInv` adds that fetched
  logs lie in the range and that nothing but what the cursor passed was written: the
  reason why a dead letter is written once. Theorems: `TypeCorrect`, `DeadOnceHolds`,
  `SettledHistoryHolds`, `CursorForwardHolds`, all without conditions on the nodes.
  `PhaseInv` adds that a boot has told no phase yet, so that `Live` always follows a
  target, and that nobody sleeps with the latch set (`Awake`): `NoSleepThroughHolds`, an
  action property, case by action, and `LiveMeansNearHolds`, which needs of `TypeInv`
  that the span never exceeds the batch. `PrefixDoneHolds`: the abstract follower's
  rows are those up to its cursor. Under `Absolute` (every startBlock is a block number) and
  `SteadyView` (one node answers, and never the logs before the head), `FollowerInv`
  holds: starts do not change between boots, the replies that are there are exactly
  the chain's logs of the range as far as the guard will let pass, and nothing is
  written before the cursor is placed. From it, `FollowsChainHolds` (a refinement, step by step)
  and, with `PrefixDoneHolds`, `CompleteHolds`. The two conditions are the two findings:
  the runs MCIngestTail and MCIngestRace show that neither can be dropped.
* `ReconcileGateProofs`. `IInv` is the server's and queues' types and, per key,
  that entry and drain agree in both directions, that a pending object has a run and
  a timer has none. `TypeCorrect`, `OneRunHolds`, `NoEventLostHolds`,
  `RetryIdleHolds`, for any number of Indexers, runs, listings and disruptions.
  `ForwardHolds` (`ForwardUnlessFailed`) takes all the copies of an Indexer there are:
  `InOrder` says that what is on its way, pending, recorded or under reconcile is not
  ahead of the API server, and, until a reconcile fails, that an entry is behind nothing
  that has been applied. A step is split into what it does to an entry and what it does
  to everything else (`Streams`). Finding 3 is why the premise cannot be dropped.
* `InsightsProofs`. `Staged` says what the round is at each station, so that a commit
  finds every row answered. `TypeCorrect`, `RoundBoundedHolds` (with a lemma that a
  set of blocks to cut at has a least element, by well-foundedness) and `FollowsRowsHolds`
  from `RoundInv`: a prepared round starts behind the cursor and holds all of its
  range's rows, for every start, absolute or relative. `AnsweredKeptHolds` has
  `RuledFirst` as its condition (no row that is asked about is followed by a ruled row
  of its sentence); of the rows that share an entry the last one decides (`Latest`, by
  counting those after each), and under the condition it has an answer.
* `TapeProofs`, for any chain, buffer, queue, catch-up and number of faults. `TapeInv`
  follows the frames: the buffer is a run of the chain's busy blocks that reaches what was
  released (`BufferInv`); each chunk in a stream's queue takes up where the one before it
  ends, the first where the viewer's tape ends, and the next release where the last
  ends (`StreamInv`); between its two queries a cycle holds a target nothing was
  released past and whose movements have their lane or were held (`CycleInv`). From it
  `TapeTyped`, `NoGapHolds` and the action property `HeldForLaneHolds`.
* `ExplorerProofs`, the rollup. `TypeInv`: at most one replica is in a transaction, and what
  a transaction has read is still so, or only the worker moved on; this is what the
  lock is for, and why the fold continues at `rollup_cursor`. `RollupTyped` without
  conditions. With `ResetFirst` (totals of a schema that is gone are ahead of the
  worker until they are reset), which needs `Watched`, `FoldedOnceHolds`. Finding it
  violated takes one line: set `Watched = FALSE` in `MCRollup.cfg`. `ArchiveHolds`, step by
  step: with `MaxRecreated = 0` the rollup implements `ArchiveSpec`, because a commit's
  range starts at `rollup_cursor` and ends at the latest where the worker was when it
  began. `ReadsFoldedHolds`: the movements the pages' `ReadTotals` counts are those the
  rollup has folded, when both speak of one chain (`Busy` are the blocks with `Moves`).
* `ExplorerProofs`, the pages. `PagesTyped`. `HistoryWholeHolds` for any chain, page size and
  ingest meanwhile. First the lemmas about rows in log order: a finite set of them has an
  oldest and a newest (`OldestOne`, `NewestOne`, by counting what is below), the `LIMIT k`
  of a set is closed upwards and a row left out has k of it above (`NewestWithin`,
  `Outranked`), and the limit of a union is that of the union of the limits
  (`NewestOfUnion`), which is what latestSql relies on. So a page is the newest rows before
  its position (`PageTakesNewest`). Then `HistoryInv`: the pages shown so far are not empty and
  descend; every movement of the address that is not among them is newer than all of
  them (it came meanwhile) or older than all of them, and then there is a next page,
  whose position is the oldest row shown. It is kept by each action that touches the walk
  (`WalkExtended`), and by the worker's, whose new rows are above everything
  (`WalkOutdated`). `FinalVerdictsHold` from `LaneInv`: the first lane the runtime
  or an answer remembers is the first lane there is; once there is one it stays the
  first, because rounds only add lanes behind those that are there (`LanesStand`). The
  verdict that there is no lane has no such theorem: finding 7.
* `StorageProofs`, for any number of writers, chain, partition size and faults.
  `TypeInv`, then one inductive invariant per property: `MadeInv` (what a running
  transaction needs is still to do, in it, or committed) for `MadeExistHolds`;
  `LockInv` (a parent is locked by one session, and nothing behind what is left to
  create is locked) for `LockOrderHolds`; `CursorInv` (the blocks before a batch were
  stored when it began, and rows only join) for `CursorCoveredHolds`, by splitting a
  prefix at the start of the batch; `IdInv` (an address has one holder, the table or one
  transaction, an id one address, and a batch that has resolved has an id for each
  address it wants) for `AddressedHolds`: there are always enough unused ids, by counting
  what the finitely many writers and addresses can have taken; `TidyInv` for `TidyHolds`, where a job handed over
  while another runs does not change which one runs. `StorageTyped` needs that the order
  in which a batch inserts exists: tables have distinct first rows (`FirstRows`), and a table's
  rank among them is a bijection (`InsertOrderTyped`).
* `WorkerProofs`. `MetaInv`: in a schema of layout 2 the rows and the index are what
  `_meta` says, a key that is missing standing for its `Legacy` value, and a process
  past its bootstrap runs under what `_meta` says. `OneMeaningHolds` follows for all
  configs, under the assumption `SchemasAssumption` that earlier versions left
  their schemas that way. `LifeInv` is the types with what the operator's order of
  applying and the process's end add to them (a pod has its ConfigMap, only a running
  process has sockets): `WorkerTyped`, and `GaugeToldHolds`, the gauge of ws.ts, which is told
  of the first and the last connection only.
* `InsightReadsProofs`. `PoolInv`: a call that is pending was asked of every endpoint the
  chunk has passed, and what is under way was asked of the one at hand, so that
  `RejectedByAllHolds`, for the pool under any caller as well as under the rounds;
  `PoolTyped`. `UsesPool`: the rounds are such a caller, every step of theirs one of the
  pool's or none of its variables. `ReadsInv`: the caches hold a key once and at most `CacheMax` of them
  (`ReadsTyped`), and while codes are read those a round already had stand at the new
  end of the cache (`Newest`), so that putting the missing ones evicts none of the
  round's parties. Hence `DescribedFromChainHolds`. It assumes what the code does of its
  constants: a round's parties fit the cache (`FitAssumption`; CACHE_MAX is many times
  MAX_ROWS_PER_ROUND) and no contract sends a transaction (`ChainAssumption`;
  insights.ts:155).

The assumptions are those the modules name on their constants, which TLC evaluates in
the runs, and the conditions written into the theorems.

Only model-checked: every liveness property (`CatchesUp`, `SettlesLive`, `Converges`,
`Quiet`, `Forgotten`, `TapeCatchesUp`, `RollsUp`, `Advances`, `Recovers`, `Adopted`,
`StatusTold`, `Listening`, `TokensLearned`, `PagesSettle`). Liveness under fairness, ENABLED
and RECURSIVE operators are out of the prover's reach; the modules use none of the
last. Induction over data is too, in general, which is why the models say what a sort
and a limit yield (`Newest`, `InsertOrder`) and never how. The
caches' folds over a batch of keys are short recursive functions on `0..n`, and there a
first-order argument does: a set of indices that holds 0 and with each index the
next holds them all (`HandedOn`, from the well-foundedness of `<`), and the function is
what its equation says (`Unfolding`).

## 7. Findings

Two runs end in a counterexample; `PROJECT.json` quotes the comment or test each
disagrees with.

1. *Relative starts are resolved again at every boot* (main.ts:51): blocks produced
   while the worker was down fall below the new start, are filtered out and passed
   by the cursor. Run MCIngestTail.
2. *The guard's two requests race* (pipeline.ts:101): logs read before, head read
   after the node imports the block, and an incomplete answer is committed. Run
   MCIngestRace.

Others are stated in the modules without a run of their own; adding the property to
the configuration named shows the counterexample:

3. *A failed reconcile forgets its generation* (gate.ts:163): an older listed object
   then passes the stale check and is applied over a newer generation.
   `AppliedForward` as PROPERTY in `MCReconcileGate.cfg`.
4. *A listing revives a deleted Indexer* (gate.ts:60): it is remembered again after
   DELETED and, waiting for a Secret, retried until the process ends. `Forgotten` as
   PROPERTY in `MCReconcileGate.cfg` (with `Disruptions <- MCNone`, `SecretAtStart = {FALSE}`).
5. *Identity and answers part* (insights.ts:247): the gate changes model and its
   answers are stored under the other's name. `AnswerOfModel` as INVARIANT in
   `MCInsights.cfg`.
6. *A rewound schema passes the rollup* (rollup.ts:104): the rollup stops only while
   it is ahead and then folds the new rows onto the old totals. `FoldedOnce` with
   `Watched = FALSE`.
7. *A lane verdict straddles a round* (tx.ts:116): the lane's rows are read before the
   insight cursor, and a round committed in between makes the verdict a final
   "none", for which the panel stops asking. `NoneMeansNone` as INVARIANT in
   `MCPages.cfg`. The next visit tells the lane (`PagesSettle`); the other two final
   verdicts are proved to be right (`FinalVerdictsHold`).
8. *An address that has just moved is said never to have* (addrstory.ts:46): within
   ROLLUP_SLACK of the head, or when the refresh overtakes the totals query.
   `KnownNeverEmpty` as PROPERTY in `MCPages.cfg`.

## 8. What is not modelled

* *Radar server*: a program of its own in Python; planned next. *Radar fine-tuning*:
  offline scripts.
* *Configuration and CRD*: validation and rendering of a document without state; what
  it refuses is ReconcileGate's constant `Invalid`, what it renders Worker's
  `Configs`.
* *Ingest*: several query endpoints (the proofs' `SteadyView`), block times. Reorgs: the
  code takes finality from the configured tag and has no handling.
* *Insights*: the dictionary of labels (`labelIds`), the bound of the answer cache.
  *InsightReads*: the boot's `checkPoolChain`, `readTokenInfo`.
* *Storage*: what two batches that insert the same keys in different orders do
  to each other beyond waiting, the content of columns.
* *Operator*: overlapping operator pods. Incarnations of one name: `NameOf` allows
  several keys with one name, but a run with two keys takes too long. Transport and
  role of the service account.
* *Tape*: MAX_ROWS, MAX_STREAMS, the pacing of rows, a paused tape, the rolling minute.
* *Pages*: search, formatting, charts, the home page's headline; the five parallel
  queries of one page are taken in any order but for one visitor only.
* *Benchmarks, end-to-end tests, charts and manifests* have no state worth a state
  machine.

## 9. Running it

    tlc -workers 2 -config MCIngest.cfg MCIngest
    tlapm IngestProofs.tla

MCReconcileGate, MCTape, MCPages, MCStorage, MCWorker and MCInsightReads take from
half a minute to three minutes, the others seconds.
