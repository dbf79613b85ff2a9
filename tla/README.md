# Genesis Trading: TLA+ specifications

TLA+ models of genesis-trading: the risk engine that decides which orders may leave, the path an order takes to the exchange and back, the pipelines that collect and store market data, the pure functions that turn data into decisions, the paper runs, the event log with its replay, what an operator sees and commands, and what governs deployments, proposals and research. Each model is translated from the TypeScript source; `PROJECT.json` maps every definition to the lines it models and lists the runs, the mutants that show each property can fail, the findings and the hazards.

Run a configuration with `tlc -config <file>.cfg <module>`, check the proofs with `tlapm <module>.tla`.

## 1. The system

Everything runs in one Node process: code between two `await`s is atomic, and concurrency means callbacks, timers and resumed promises in any order.

| Component | State | Operations | Interacts with | Module |
|---|---|---|---|---|
| Risk engine (`packages/risk-engine`) | state machine, budget with reservations, approval tokens, decisions by request_id, recovery attempts | init, start, safe mode, preTradeCheck, authorizeExecution, confirmFill, release, emergencyHalt, reconcile, startRecovery | gateway, reconciler, orchestrator | RiskEngine |
| Execution gateway (`production-engine`) | `done` order ids, kill switch | execute, executeAsync | spends tokens, calls the exchange adapter | Execution |
| Exchange adapters (`adapters-upbit`, simulated) | none (HTTP) | placeOrder, submitOrder | the exchange | Execution, PaperTrading |
| Fill buffer (`my-order.ts`) | fills by order and trade_uuid | ingest, fills | fed by the private stream | Execution, PaperTrading |
| Execution reconciler | settled outcomes | reconcile | confirmFill / release on the risk engine | Execution |
| Collector (`src/collector.ts`) | transport, reconnect timer, heartbeat, backoff | start, stop, message and close handlers | feeds the raw store | Collector |
| Write-behind store (`adapters-db`) | hot view, pending queue, flushing flag | append, flush | ClickHouse | WriteBehindStore |
| Bootstrap (`src/main.ts`) | flush interval, signal handlers | shutdown | stops collector, flushes store | Ingestion |
| WsCollector, raw store, as-of reads (`data-layer`) | sockets, backoff, last message, records | connect loop, handlers, queryAsOf | feature store, paper run | MarketData |
| Candles, gaps, backfill, rate limiter (`data-layer`) | rate-limit tokens | reconstruct, cross-check, page, acquire | REST, feature store | MarketSeries, Backfill |
| Feature store | dependency graph, cache, indicators | resolve, compute | raw records | MarketData, MarketSeries, FeatureDag, Indicators |
| Signal, strategy, decision engines | none | pure per cycle | paper pipeline, live runtime | TradingCore |
| Portfolio engine | none | optimize, plan, rebalance | orchestrator | Portfolio |
| Paper trading | budget, position, metrics | cycle, session, live run | risk, gateway, reconciler | PaperTrading |
| Event store (`event-engine`) | hash-chained log, upcasters | append, verify, upcast, project | every engine logs here | EventStore |
| Replay engine, incident automation | sessions, their own log, operator session | create, pause, resume, seek, run, play | reads the event store | EventLog |
| Live runtime, publisher, browser adapter | frame ring, last index, transport, timers | tick, publish, reconnect, command | browser, risk | LiveSession |
| Production runtime, orchestrator, views | the log | transition, runCycle, dashboard, diary, drill-down | risk, gateway | Governance, EventStore |
| Control plane, snapshot runtime | active and previous snapshot | deploy, championSwap, rollback | orchestrator | Governance |
| AI layer, research platform | proposals, artifacts, experiments, champion | life cycle, freeze, run, evaluate | control plane | Governance, Evaluation |
| Health monitor, market health | beats, scores | heartbeat, report, compute | operator, orchestrator | Evaluation |
| Ops logging, metrics, alerts; invariant runner; contracts; dashboard; soak harness | logs, reports, types | observe | - | - |

The hard behaviours, with the lines where they bite, are the `hazards` of `PROJECT.json`. In short: `executeAsync` checks before its await and records after it; a HALT can fall between an approval and its use; the exchange can take an order and lose the response; fills come repeated, reordered and early; budget counters are kept incrementally; a flush awaits while records keep arriving; a signal can come at any moment; reconnect timers outlive the decision to stop; records arrive long after their event time; caps and thresholds are applied one after the other; a ring forgets what an index still counts; states and views exist only as folds over a log that many write to.

## 2. Modules

### RiskEngine, RiskAuthority, RiskRefinement

`RiskEngine` is one sequential object: its seven variables are the fields of `RiskStateMachine`, `RiskBudget`, `TokenRegistry` and `RiskEngine`; every public method that changes state is an action, with `preTradeCheck` split into its outcomes (`RejectNotRunning`, `RejectDrawdown`, `RejectLimit`, `Approve`). The identifiers `res-n` and `tok-n` are positions in sequences. A call that changes nothing (cached decision, unusable token, a `transition` that throws) is a stuttering step; `emergencyHalt`, which voids the tokens before its transition may throw, is not. The positions passed to `preTradeCheck` are a function from symbols to exposure, the notionals are integers, and the percentage of the drawdown limit is compared by cross-multiplication. `setTotal` has no caller, so the total is a constant.

`RiskAuthority` says what the engine promises without its machinery: requests are answered once, grants are given while trading is open and within the budget, spent once, voided for good when trading closes. `RiskRefinement` gives the mapping.

### Execution

Extends `RiskEngine` with the gateway, the venue, the fill buffer and the reconciler. `ExecuteAsync` is the method up to its await; `SubmissionAccepted`, `SubmissionRejected` and `SubmissionThrows` are its continuation; `ExecuteSync` is the synchronous method, whose adapter call is answered by the exchange later. The exchange is external: it accepts or refuses, refuses a repeated identifier, trades in parts, closes the order, and repeats and reorders fill messages. `VenueFaults` selects refusals, exceptions and lost responses.

On the synchronous path the adapter drops the promise of its request (`exchange-adapter.ts:49`), and a request the venue refuses rejects it (`rest.ts:74`): nothing handles the rejection and Node ends the process. That is `crashed`, after which only the venue goes on trading. An accepted order of that path is reported by no promise and settled by nobody. What a restarted process would do is not modelled: nothing is persisted that it could read.

Assumptions on code outside these components: a caller uses one gateway method per request (`SyncRequests`), has one approval per order and calls `executeAsync` once for it, reconciles a refused call at once and an accepted order after the exchange has closed it and all its fills have arrived (the paper pipeline awaits both); the notional of a fill message is that of its trade, as the comment in `my-order.ts` states. A fill's messages all carry the identifier, so the fallback key of `parseMyOrder` is not used. The `1e-9` tolerance of `deriveStatus` vanishes with integers. Events written to the log are left out: nothing reads them back. The gateway has its async adapter: one configured without it refuses every `executeAsync` and sends nothing.

A caller outside these assumptions, of which the repository has none, meets what no property here speaks about (four entries of `hazards` say so): a reconciliation before the last fill settles the wrong outcome for ever (`execution-reconciler.ts:91`); a retry of a refused submission is answered `ok: true` (`execution-gateway.ts:67`); two approvals of one order whose calls overlap are both sent (`:85`); an order refused by the kill switch, reconciled and then retried is sent without budget (`risk-engine/src/engine.ts:133`).

### Collector, WriteBehindStore, DurableLog, Ingestion

`Collector` is `WebSocketCollector` over `UpbitWsTransport`. A slot is a transport from `connect()` to the end of its socket: `connecting`, `open`, and `aborting` or `closing` once `stop()` has closed it. A handshake that succeeds resets the backoff, subscribes and starts the heartbeat in one step (only microtasks separate them); one that fails schedules a reconnect; the close callback is installed only after the handshake. Pings change no state. Delays are kept as backoff values; timers fire in any order.

`WriteBehindStore` is `BufferedRawStore`. `Flush(queue)` is `flush()` up to its await, used by `append`, by the interval and by `shutdown()`; `FlushSucceeds` and `FlushFails` are its two ends, and a failed `appendBatch` may have been applied (`AmbiguousFailures`). `DurableLog` is its abstract specification: an append-only log delivered at least once, each batch of rows continuing from the last acknowledged record.

`Ingestion` composes both as `src/main.ts` does. A record is its sequence number. `shutdown()` is not exclusive: each signal runs it. Once its `flush()` has returned, `stop()` and `process.exit` are one step.

### Indicators, TradingCore, MarketSeries, Backfill, FeatureDag, Portfolio, Evaluation, Algorithms

Pure functions as operators. `Indicators` keeps every quotient exactly, as a reduced fraction; the default periods are parameters so that short series reach every case. `TradingCore` has one operator per signal of `SignalEngine.generate`, the strategy scores, the decision and the sizing; strengths are percent. `MarketSeries` has candles (the data layer's and the runtime's), gaps and quality, `Backfill` paging and rate limiting over a history that is an increasing sequence, `FeatureDag` the dependency order, the recursion of `visit` written as the agenda of what it has still to call and to end; `Portfolio` works in basis points and rounds down at each scaling; `Evaluation` has the research champion, component health and market health. `Algorithms` takes an input in its initial state, makes the call in its only step, and states what each result must be; the inputs are CONSTANTS, of which only the type is assumed, and `MCAlgorithms` enumerates those that TLC tries. A graph may name a feature that is not registered, and trades may be delivered twice and in any order: the candles of the data layer do not depend on the order but count a repeated trade's volume each time (`reconstruct.ts:29`), and those of the live runtime take open and close in order of arrival. A request that waits for the rate limiter is sent without taking its token, so the limiter allows up to twice its rate (`rest-client.ts:58`); the property gives both bounds. Loops are functions over the number of turns, bounded by what the loop can take (`Len(server) + 1` pages, `MaxVisits` visits): no module has a RECURSIVE operator, and all of them can be reasoned about.

### PaperTrading

`runPaperCycle`, the session that runs cycles with chosen options, and the live run that connects, runs a cycle per interval and stops at its deadline. A cycle goes through `TradingCore`, the budget, the venue (accepts, refuses, throws), the fills with their duplicates, and the portfolio, in two steps around the `await` of the order (`awaited`): `Cycle` up to the reservation and the send, `SessionAnswer` or `LiveAnswer` from the answer to the metrics. Nothing between reservation and reconciliation throws, because the gateway turns a venue that throws into a refusal. The socket of the live run opens, fails or stays silent. Positions are not passed to risk and sells take budget, as in the code.

### MarketData

`WsCollector` over its transport, the raw store, and features computed for past times through the cache. `connect()` stays pending until the socket opens; a reconnect whose socket cannot be made rejects, and the process ends (`crashed`). Records carry event and ingest time. The cache key has no ingest time (`cache.ts:18`): a value first computed before a late record arrives stays as it was, so the cache goes on answering what the store no longer gives, and a ratio computed before stays beside sources read later. `PastIsFixed` says what is fixed and what is not: an as-of read for a past arrival time never changes; a cached value equals a recompute unless a record came late for it or for what it was made of; a derived value is made of the values cached beside it.

### EventStore, Filters, EventLog

`EventStore` is the log as a sequence: append with its hash chain (a hash is the tuple of what was hashed, so it is injective), upcasting, machine states, decision records and the operator's views. `Filters` is `Array.prototype.filter` as a recursive function and the stable `Array.prototype.sort`, both in a form the proofs can unfold. `EventLog` lets it grow, alters an entry, and runs replay sessions, their audit, incident reports and the operator's playback session. A recording shares no state with the log, so a behaviour has one or the other.

### LiveSession

`LiveRuntime` records frames in the ring, the publisher turns them into a snapshot or patches, `BrowserAdapter` sends them over transports that come and go, the browser folds them, and the control panel's commands change the risk state the next frames show. `start()` may come at any moment. When it comes before the close event of the old transport, that event drops the new transport and schedules another connect (`browser-adapter.ts:110-117`): two connections, of which the adapter knows one (`orphans` counts the timers it has lost). What a browser gets is what `dashboardView` and `presentSession` contain: index, action and rejection of a frame, and no risk state. A tick meets a net signal of `Nets`, none of which is a SELL. Commands, runtime, publisher and adapter share only the ring and the log. The heartbeats sent to the browser and a transport factory that throws inside the reconnect timer are left out.

### Governance

Four parts that share no state, one per behaviour: production (`ProductionRuntime`, `CycleOrchestrator` and the risk machine on one store), control (`ControlPlane`, `SnapshotRuntime`, manifests), AI (`AILayer`), research (`ResearchPlatform`, `ExperimentRunner`, champion). Every method is synchronous, so a call is one step. The ports of the orchestrator answer anything, and the exchange adapter may throw before or after the venue has the order: the gateway has recorded `Order.sent` by then (`execution-gateway.ts:53`), the exception leaves `runCycle` (`orchestrator.ts:120`), and the remaining allocations stay undecided. Other ports do not throw. A snapshot has a content besides its id, its pins and its hash; a manifest names the id only (`manifest.ts:14`). The logs are kept without their hashes, which `EventLog` checks.

Things the code does that the model keeps: `runCycle` asks neither the runtime nor the control plane; it records no `Decision.outcome`, so its decision record always says hold; the gateway logs under its own correlation, so orders are missing from a cycle's drill-down; walk-forward folds ignore their start, each replays the recorded log from its beginning; the AI memory keeps the status draft.

## 3. Runs

All passing runs terminate with the full state space; `CHECK_DEADLOCK FALSE` is used throughout because the bounded number of requests, records, frames or calls lets every system come to rest.

| Run | Checks | Bounds and why they are enough |
|---|---|---|
| `risk_engine` | type, budget, counters, tokens, decisions, recovery; refinement of `RiskAuthority` | 3 requests, notionals 0-2 against a total of 3 (exact fit, overflow, zero), two books around the exposure limits, drawdown at and past the limit, recovery limit 2. Requests are symmetric. |
| `execution` | `LiveRiskCovered`; `OutcomesAreTruthful` (venue, budget and answers agree); `SendsAreAuthorized` (token, budget, state, kill switch, once); `SentOrdersSettle` | 2 orders, one on each gateway method, the synchronous one retried once; 2 trades each, refusals and exceptions, the crash of a refused synchronous order, halts, recoveries, kill switch |
| `ingestion` | `OnlyTheTailIsLost`; `CollectorInOrder` (one lifeline, heartbeat, backoff); refinement of `DurableLog`; `StreamKeepsFlowing` (durability, reconnection) | 5 records, batches of 2 (so a batch, a full queue and more coexist), 2 signals; repeated rows stop at 4 |
| `algorithms` | `IndicatorsAreFair`, `DecisionFollowsEvidence`, `SeriesSurviveDelivery` (candles, gaps, quality), `BackfillIsSound` (paging, rate), `DependenciesComeFirst`, `PortfolioIsSound` (caps, rebalancing), `VerdictsAreEarned` (champion, health) | about 52 000 inputs: series up to 4, up to three trades over three windows with repeats and late arrivals, four records, every hole in a history of 5 candles, six throttled requests, every graph of 3 features, every correlation pattern of 3 symbols, three experiments, five health operations |
| `paper` | `BooksBalance` (only the awaited order reserved, holdings paid for, metrics); `LiveRunShutsDown` (and where it does not) | 5 cycles or intervals, each in two steps, with every reading, venue mode, fill plan and duplicate; sockets that open, fail or stay silent |
| `market_data` | `FeedIsHonest` (one feed, staleness); `PastIsFixed` (stable as-of reads, when the cache is a recompute); `StopEndsFeed` | few ticks and messages, with trades late by up to the whole run |
| `live_session` | `BrowserFollowsRing` (ring, order, no gap until the ring drops a frame); `ConnectionsPerStart`; `CommandsTakeEffect` (decisions after an exit, audit); `AdapterReconnects` | 3 frames in a ring of 2, so that one is dropped; 2 transports; adapter started twice, also before the close event of its old connection |
| `event_log` | `HistoryIsIntact` (chain, upcasting); `ReplayIsTruthful` (ends, audit, comparison, incidents, console); `PlaybackEnds` | 3 events, 2 sessions, 4 replay events; recordings of 0, 1 and 3 frames |
| `governance` | `HaltNeedsRecovery`; `OperatorSeesWhatHappened` (views, drill-down); `DeploymentsAreBackedAndReversible`; `PromotionIsGated` (AI log, artifacts, the champion's folds) | production: 6 transitions (a halt and the whole way back), 2 cycles of 2 symbols, 2 days, an adapter that may throw on any order; 5 control calls on 2 ids with 2 contents each and every defect; 2 proposals; 2 experiments on every log of up to 3 events |

Most properties are conjunctions of named parts, each stated and commented in its module next to the property.

Runs expected to be violated, each the subject of a finding:

| Run | What it shows |
|---|---|
| `execution_lost_response` | a lost response is a rejection: budget is released while the order trades |
| `ingestion_shutdown` | an orderly shutdown drops a batch in flight and what arrived during the final flush |
| `publisher_ring` | once the ring is full, `publishNew` finds nothing new and the browser stops |

Fairness. Execution: the exchange answers a request, the event loop resumes a settled promise, orders do not stay open for ever, fills are delivered, and the caller reconciles (weak fairness each); nothing is assumed of halts, recoveries or new requests. Collector: a timer fires and a handshake ends (weak); a handshake tried infinitely often succeeds infinitely often (strong). Ingestion: the interval fires and `appendBatch` settles (weak); a backing store retried for ever accepts at some point (strong). Without the two strong assumptions the network or the database may be down for ever, which no client can mend. Paper: the event loop runs the next step of a session or a live run, an order is answered, and a socket that opens or fails does so. MarketData: the backoff timer fires, and a socket that `stop()` closed reports its close. LiveSession: the reconnect timer fires and a closed transport reports it. EventLog: the interface keeps calling `advance()` while it plays. All of these are timers and callbacks of the event loop. A connection that is dead without being reported closed is outside the model: the collector of `src/collector.ts` has no detector for it.

`SentOrdersSettle` ends either in the settlement or in the crash of the process. `LiveRunShutsDown` has both cases: on a socket that opens or fails the run stops; on a silent one it stays at `await collector.start()` (`live-run.ts:145`), because the transport listens only to the open event until then and the deadline is looked at afterwards.

Every property has a mutant in `PROJECT.json`: a plausible mistake in the modelled code, kept in the module next to the definition it replaces, under which TLC finds the property violated.

## 4. Proofs

Eight modules hold the proofs, checked by `tlapm`; the listed results are the `theorems` of `PROJECT.json`. They hold for every value of the constants under the assumptions named next to each declaration (`BudgetAssumption`, `RecoveryAssumption`, `OrderAssumption`, `SlotAssumption` and so on: numbers are natural, a batch and a delay are positive, the placeholder for nothing is not a value). Where a theorem needs more than that, it says so below and in its statement.

Every safety argument has the same shape: an inductive invariant, one step for each action of `Next`, under it one for each part the action can disturb, and a last lemma that the invariant implies the property.

**ExecutionProofs, the risk engine.**

* `TypeCorrect` - the type invariant. `reserved` and `consumed` are only integers here: that they are not negative follows from their being sums of reservations.
* `BudgetNeverExceeded` - INV-R4. Inductive given the types: approving is the only step that adds to the committed budget and it checks the sum; consuming moves an amount; releasing subtracts the amount of a reservation, which is positive by type.
* `HaltVoidsApprovals` - INV-R2/R3. Every transition out of RUN and SAFE_MODE voids all tokens in the same step, and tokens are issued only in RUN.
* `ApprovalsAreBacked` - INV-R1/R7. The inductive argument needs the one-to-one shape of the invariant itself: token n belongs to reservation n, so a decision that is still open owns no token, and approving appends both at the same position.
* `RecoveryIsBounded` - FROZEN exactly when the failed attempts reach the limit.
* `TotalsAreSums` - the two counters of `RiskBudget` are the sums over the reservations: a call changes one reservation, so each sum changes by that reservation's part.
* `SpentTokensStaySpent`, `DecisionsAreFinal` - action properties, from the type invariant and `ApprovalBacked`.
* `EngineImplementsAuthority` - the refinement of `RiskAuthority`. The mapping reads a grant's state off its token and its reservation; each action is one action of the authority (a halt closes trading and voids all grants at once) or a stutter. It uses `ApprovalBacked`, `TotalsAreSums` and the voiding of tokens.

**ExecutionProofs, the order path.** The invariant ties, for each request, where its call stands (`post`, answers, `done`) to its token, its reservation and the venue; and, for each order, trades and fill messages to the outcome that was settled.

* `OrderPathUsesEngine` - `ExecSpec => Spec`: gateway and reconciler touch the engine only through its methods, on tokens and reservations it has issued, so the theorems above hold of the whole order path.
* `OutcomesHold`, `SendsHold`, `LiveRiskStaysCovered` (this one while the process lives: a crashed one keeps no budget).

These assume `CallersKeepToOneOrder`: an approval is for one order, and a caller of `executeAsync` calls it once per approval. That is how every caller in the repository uses the gateway, and without it the statements are false, for the reasons given in section 2. `LiveRiskStaysCovered` also assumes that no response is lost; the run `execution_lost_response` shows that it fails otherwise. `OutcomesHold` and `SendsHold` include lost responses.

**IngestionProofs.** `CollectorIsInOrder` needs what ties a socket to its transport: the only live socket is the current transport's, a reconnect is scheduled exactly when that one is free, and only `stop()` leaves a socket on its way out. `IngestionLosesOnlyTheTail` rests on the order of the queue: acknowledged records, then the batch in flight, then `pending`, are consecutive numbers up to the last received, so that putting a failed batch back in front restores the order. `IngestionImplementsDurableLog` maps a message to an append and a written batch to a persist, acknowledged or not.

**LiveSessionProofs.** `AdapterConnections`: every connection, known or forgotten, and every timer is charged to a `start()`; without an overlap a reconnect is scheduled only when the last socket has gone. `BrowserFollows`: the ring is the window of the newest frames, nothing in the browser is newer than the frame at the publisher's index (a position that moves with the ring when it drops a frame), and a browser that lost nothing shows the ring up to that position as long as the ring has dropped no frame since the snapshot; folding patches is followed one patch at a time. `CommandsHold`: the risk state follows the last recorded command, a frame was decided under the risk state its commands had given, and what a browser holds are views of such frames.

**MarketDataProofs.** `FeedStaysHonest`: nothing exists before `start()`, `stop()` leaves no handshake, and the time the code keeps is the later of the last message and the last subscription. `PastStaysFixed`: a record is stamped on arrival, so one that arrives is past every arrival time already read; a cache entry is what its transform made of the records known then, so it is also what a recompute gives as long as none of the records since belongs to its past.

**EventLogProofs.** `ChainShowsTampering` (INV-E1, the chain half of `HistoryIsIntact`): the log and what was sealed agree on all but the payload, hashes included, and the sealed entries are a chain, so `verifyChain` fails exactly at a payload that differs. `ReplaysHold`: the rolling hash is injective in the hashes it rolls up and a hash tells its position, so equal hashes mean equal histories; neither an append nor an alteration changes the hashes and correlations of entries that are there, so what a finished replay or an incident recorded stays true; the console's cursor stays on a frame. `HistoryHolds` adds the upcasting half of `HistoryIsIntact`: schema versions in the log lie in 1 to 3, the registry is sorted whichever way round its upcasters came, and the single ascending pass over it, written out step by step, makes each step that is due once.

**GovernanceProofs.** `DeploymentsHold`: what is active, and what can be returned to, has its pins, an intact hash and a backed manifest for its id, whatever the content the manifest was approved for, and the last effective entry of the log names the active snapshot. `HaltsHold`: the states of the production machine, filtered out of a log that the risk engine, the orchestrator and the gateway write to, form a path of `VALID`; a RUN that follows a HALT on such a path has RECOVERY and READY between. A whole cycle is shown to be silent about the machine.

`PromotionHolds`: the log of the AI layer tells of every proposal where it stands, and an artifact was frozen from one that had gone the whole way; the champion is a result of the research log, and the experiment recorded with it met its criteria on every fold it ran, or on the whole period when it has none. `OperatorHolds`: the views filter the log, group it by correlation and by day, and sort it. A filtered log is described by the positions it keeps, a flattened one by the blocks it is made of; the invariant says which entries a cycle has written and under which correlation, so that the drill-down of a cycle is its own entries, which stand in chain order already; and a cycle decides a prefix of its plan, a proper one only when the adapter threw on the last order of it, which the overview counts all the same.

**AlgorithmsProofs** is about the pure functions, for every input, and about the paper session that runs them. An invariant of `CallSpec` says that a result is the call of its input, and a theorem about the function gives the property of the run.

* `DecisionHolds`, from three results. `TradesAreExplained`: the signals a decision uses are those of its direction, and the list is not empty, because a sum of worths none of which is positive is not positive. `StrategyIsBest`: the choice is among the highest scores, which is where `CHOOSE` needs a non-empty set. `ConvictionFollowsEvidence`: the conviction of a concatenation is the sum of the convictions, and each of the twelve pieces is monotone in its indicator, all others unchanged or better.
* `PortfolioHolds`, from `PlanStaysInsideCaps`: rescaling never raises a weight, so a later cap cannot undo an earlier one; scaled weights that are rounded down still fit their cap in sum; the greedy clusters partition the symbols, so no symbol is scaled by a cluster that is not its own.
* `BackfillHolds`, from two results. `BackfillBringsEverything`: what has been paged so far are exactly the candles at and after the cursor, each page is the next stretch before it, and one turn more than there are candles is enough; sorting distinct numbers that are already complete gives the increasing sequence. `RequestsThrottled` uses a potential that follows the tokens: every request costs it a period, and it earns the elapsed time while requests are prompt, at most twice of it otherwise, since a request that waited leaves the token it waited for to the next one.
* `VerdictsHold`: the champion of a prefix is the first of its best; the monitor holds, for each component, what was last heard of it, and the silence since is the number of waits.
* `OrderHolds`, from `OrderIsFound`. The invariant of the walk: what has been ordered has its dependencies before it; every feature being visited has its end on the agenda, and all that is due before that end is needed by it; nothing that was wanted is lost. So a feature met again while it is being visited needs itself, and a walk that ends without failing has ordered a set that holds the roots and what its members need. The walk ends because each feature is entered once: entries on the agenda and the weights of the features still to enter go down with every turn, from `MaxVisits` on.
* `BooksHold`: the invariant relates the reservations, the holdings and the metrics to the history of the cycles. Only the awaited order has a reservation that is not settled. Duplicated fills are dropped by their number, so a cycle buys what the venue filled; the share an order pays for is nonlinear in what was filled, and its bounds are proved apart. It assumes `VenueAssumption`: the venue fills no order by more than it asked for.

**FoldTheorems** holds what the others need about the operators the models are built from: sums over finite sets (adding, changing, removing and comparing), `Filter` (its type, what it keeps, the positions it keeps, how it grows), the blocks of `FlattenSeq`, and the existence of a function defined from 0 upwards by steps. The library's induction theorems take an operator as a parameter, which the provers cannot instantiate; here a predicate is the set of numbers it holds for, and induction (`SetInduction`) follows from the well-foundedness of the natural numbers.

**Only model-checked.** `IndicatorsAreFair`: the averages are reduced fractions, and what the Euclidean algorithm returns for every pair is an induction over data. `SeriesSurviveDelivery`: candles and gaps are written with `StableSort`, `Filter` and `AscendingSeq`, as the proofs need them, but no proof has been written; that a sort by time and sequence gives the same series for every reordering is the larger part of it. Every liveness property, which is outside what the prover handles, as is ENABLED.

## 5. Plan

1. Done: all modules of section 2; every safety and action property of every passing run proved for all values of the constants, but the two named under "only model-checked"; the two refinements.
2. Left: the proof of `SeriesSurviveDelivery`, whose definitions are in provable form; the indicators over unreduced fractions, whose bounds are arithmetic alone.

## 6. Where the code disagrees with what it says

Three disagreements have a run of their own that exhibits them (`findings`): a lost response (`exchange-adapter.ts:78`), the records an orderly shutdown drops (`main.ts:73`), the frames a full ring hides (`realtime-publisher.ts:40`). The others were met while modelling. The models do what the code does, and the properties claim only that; the comment of each names the line it goes against.

| What is said | What the code does | Property |
|---|---|---|
| `execution-gateway.ts:79` guards an adapter that throws, on the asynchronous path | on the synchronous one a refusal is an unhandled rejection and ends the process (`exchange-adapter.ts:49`, `rest.ts:74`) | `SentOrdersSettle` |
| `live-run.ts:30`: the run always shuts down | not on a socket that neither opens nor fails (`:145`) | `LiveRunShutsDown` |
| `rest-client.ts:14`, `:44`: the rate limit is respected | up to twice the rate once a request has to wait (`:58`) | `BackfillIsSound` |
| `snapshot.ts:6`: live and replay snapshots are identical | open and close follow the order of arrival | `SeriesSurviveDelivery` |
| `cache.ts:8`, INV-T4: correctness never depends on the cache | after a late record the cache answers the old value (`:18`) | `PastIsFixed` |
| `browser-adapter.ts` holds one transport | `start()` before the old close event makes two (`:110-117`) | `ConnectionsPerStart` |
| `explainability.ts:31`, `presentation.test.ts:56-66`: the drill-down goes up to the orders | the gateway logs under another correlation, the drill-down ends at the risk decision | `OperatorSeesWhatHappened` |
| `orchestrator.ts` decides every allocation | an adapter that throws ends the cycle with `Order.sent` on record (`execution-gateway.ts:53`, `orchestrator.ts:120`) | `OperatorSeesWhatHappened` |
| INV-V3: only an approved snapshot is deployed | the approvals of one content cover every other under its id (`manifest.ts:14`) | `DeploymentsAreBackedAndReversible` |
| `experiment.ts:63`, `champion-challenger.ts:23`: rolling folds, consistency out of sample | each fold replays the log from its beginning (`experiment.ts:48`) | `PromotionIsGated` |

That the risk engine is halted is never sent to the browser: `dashboardView` and `presentSession` carry no risk state, and `riskView` has no publisher.

## 7. Not modelled

Logging, metrics, alerts, formatting and view models (they observe and decide nothing); HTTP, signing, SQL and the exchange itself (I/O, external); how correlations are computed from returns (floating-point numerics; the matrix is an input); `PostgresStore`, `CandleStore`, the private WebSocket transport, `setTotal` and the calibration statistics of the AI memory (no caller in the program); type declarations, test fixtures, the invariant runner and the `invariants.ts` files it collects (tests written as code), the soak harness and the dashboard. A crash of the process without a signal loses what is in memory; no code claims otherwise and there is no recovery to model.

Three more things are known and are no hazard to anything in the program: after a HALT the reservations of voided approvals stay reserved unless their callers release them (`risk-engine/src/token.ts:40`); `setTotal` accepts a total below what is committed (`budget.ts:21`); `pendingCount()` reads zero while a batch is in flight (`buffered-raw-store.ts:44`).

Four entries of `hazards` have no property, because only callers the repository does not have would meet them: a call that overlaps another for the same order (`execution-gateway.ts:85`), a retry after a refusal (`:67`), a retry after a reconciliation (`risk-engine/src/engine.ts:133`), a reconciliation before the last fill (`execution-reconciler.ts:91`). The theorems about the order path name the assumption that excludes them.
