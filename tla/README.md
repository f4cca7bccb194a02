# Stock_Bot: verification project

TLA+ models of the parts of Stock_Bot that keep state, act concurrently, handle
failure or decide from the past, TLC runs that check them on small instances, and
TLAPS proofs of what matters most for every instance. Paths are relative to
`src/` unless they say otherwise.

## 1. The system

Stock_Bot turns research and live NSE trades into reviewed intraday decisions:

    exchange archives -> universe, identities -> stored history -> dataset, labels
         -> training, backtest, validation experiment -> candidate -> champion
    research providers -> LiveResearchCache --\
    Upstox websocket -> feed -> pipeline -> candles -> analysis/prediction
         -> strategy -> portfolio -> RiskEngine -> authorization -> paper account / broker
         -> exits, outcomes, ledger -> journal, monitoring, learning

Live orders are locked (`execution/safety.py`, `execution/production.py`). The
first version shows a signal to a person (`v1_signal/`, `dashboard/server.py`,
`journal/manual_review.py`) and trades on paper. A sandbox broker is reached through
`execution/adapters/upstox_sandbox.py`.

### Inventory

| Component | State | Operations | Interacts with | Hard because | Correct when |
|---|---|---|---|---|---|
| `execution/engine.py`, `audit.py`, adapters | `_states`, `_orders`, `_fills`, audit file | submit, refresh, recover_unknown, rehydrate, cancel | broker; caller after a restart | calls that raise after the broker acted, crashes, stale answers, failing journal | one placement per approval, books never exceed executions, no fill is lost |
| `market/.../upstox/feed.py`, `market/data/realtime_pipeline.py` | `_ws`, `_stopping`, `_subscribed_symbols`, `_started` | connect, subscribe, events, reconnect, disconnect, stop | websocket; reader thread and watchdog | no lock: the close of the market falls anywhere into a reconnect | shutdown is no failure, subscriptions survive, the session ends |
| `market/candles/` | forming candle, seen ids | validate, update | pipeline loop, wall clock | bucket and session boundaries, stale and repeated trades | a candle is exactly its trades |
| `paper/runtime.py` | positions, realized P&L, journal | submit, account_snapshot | decision loop, live session | partial closes, reversals, fees | the account is what the fills paid |
| `trading/risk/` | none | evaluate with and without position context | portfolio, decision loops | gates that cut one quantity in turn | limits hold after the fill |
| `portfolio/` | none | evaluate | risk, account | projects the book another way than risk does | both projections are what the account holds |
| `trading/paper/decision_loop.py` | marks, day counters | run over rows | risk, account | counters from two sources, dates | slots and entries per day |
| `trading/paper/live_loop.py`, `exit_engine.py`, `paper/virtual_session.py`, `canonical_live_orchestrator.py` | open position, outcomes, ledger | observe, on_candle, finalize | candles, account | intrabar ambiguity, cutoff, an exception between two steps | outcomes conservative, ledger reconciles, ends flat |
| `research/live/runtime.py` | documents, poller thread, stop flag | refresh, snapshot, prune, start, stop | HTTP sources, decision loop | slow fetches, edited items, a join that times out | evidence is causal and never rewritten |
| `trading/live/upstox_risk_context.py` | day-risk file | `__call__` | broker account, manual session | the account moves between the requests of one call; restart within the day | start and peak of the day are never forgotten |
| `trading/live/manual_decision.py`, `v1_signal/` | snapshot file | run_manual_review, publish | context, dashboard | age and expiry against two clocks | nothing published on a stale context |
| `journal/manual_review.py`, `dashboard/server.py` | append-only file | record_review, record_outcome | threading HTTP server | concurrent posts, expiry between click and record, torn lines | one outcome per review, none accepted late |
| `automation/` | runs, idempotency keys, events | run | handlers, subscribers | both may raise, callers are concurrent | a decision point is executed once |
| `self_learning/`, `learning/lifecycle.py`, `ml/model_registry.py` | ledger, champion history and pointer, registry | advance, validate, promote, activate, register, approve, retire | research scripts | objects older than the ledger, two writes for one fact | no promotion without an eligible review |
| `backtesting/`, `trading/paper/lifecycle.py` | open trades, equity, day counters | run, walk-forward and out-of-sample evaluation | strategy, risk, simulated broker | order of stop, target and end of day in one row; shared costs | equity is the money moved, losses bounded |
| `ml/datasets/`, `ml/labeling/`, `market/indicators/structure.py` | tables | label, split, structure columns | experiment, backtest | look-ahead through labels, purge over gaps, rolling windows | nothing tested was seen, a row says what it said live |
| `market/data/historical/`, `ml/datasets/multi_symbol.py` | Bhavcopy cache, archive of the Security Master, stored datasets | universe of a past day, lineage, resolution, build, backfill | exchange, provider, file system | symbols that change hands, a cache file cut by a crash, one of many failing | the universe is that day's, an instrument is its security |
| everything else (section 6) | files and tables | batch computation | - | statistical or presentational | - |

`PROJECT.json` lists every component with its status, and every hazard at its
line with the properties that would notice it.

## 2. Modules

| Module | Models | How state and actions correspond |
|---|---|---|
| `OrderLifecycle` | `OrderStatus`, `OrderStateMachine` | the `_ALLOWED` table as a function; no state |
| `ExecutionEngine` | the engine, its audit file, crashes, the broker | `states`, `oStatus`/`oFilled` are `_states`, `_orders`/`_fills`. `submit` and `cancel` are split where the adapter is called (Begin, Returns, Raises, AnswerRejected); the others read once and are one action |
| `ApprovedOrder` | the abstract promise | dispatched once, traded up to the approval, booked within traded |
| `UpstoxFeed` | feed, pipeline and the two threads of a virtual session | one action per access to shared state, since nothing is locked. `aliased`: `_reconnect`'s local set and `_subscribed_symbols` are one object |
| `PaperAccount` | `PaperTradingRuntime` | per symbol signed quantity and cost (quantity times average price), so the arithmetic stays integral; `cash`, `moved` and `bought` record what the fills did, for the properties |
| `RiskGate` | `RiskEngine.evaluate` and its helpers | operators on an account record, no state |
| `Concentration` | `PortfolioManager.evaluate`; drawdown, symbol, sector and correlation limits of risk | operators on a book and its prices, no state |
| `PaperBook` | portfolio, risk and account for transitions of held positions | `Propose`: a target passes the portfolio, is evaluated, and filled or refused; `Mark` moves a price |
| `PaperDecisionLoop` | `PaperDecisionLoop.run` | one action per row: mark, date change, account, decision, fill |
| `CandlePipeline` | `RealtimeMarketDataPipeline.run`, validator, aggregator | one action per outcome of `CandleAggregator.update` |
| `PaperSession` | `LivePaperEngine`, `PaperExitEngine`, ledger of `VirtualIntradaySession` | one action per completed candle: exits, target, entry, mark |
| `LiveSession` | the two together | a trade that completes a candle runs the whole handler before the next trade is read |
| `LiveResearch` | `LiveResearchCache`, `LiveResearchRuntime`, `RssResearchProvider` | a refresh is clock reading, fetch and locked insertion; pollers and the caller are threads |
| `AccountWatch` | `UpstoxManualRiskContextProvider`, `LiveDayRiskStateStore` | one action per request of a call, beside an account that trades and moves; any request or the write may fail |
| `LiveReview` | `run_manual_review`, `build_live_money_decision`, signal and snapshot | candle by candle, with the age of the context and the expiry of the signal |
| `ReviewJournal` | `ManualReviewStore`, the two POST handlers | a request is read (snapshot and clock), then appended under the lock; a line is two writes |
| `ManualReview` | session and dashboard together | they share the snapshot file and the clock |
| `Automation` | `AutomationOrchestrator.run`, `RunStateStore`, `EventBus` | one action per stage, event or store call of a caller; handlers and subscribers may raise |
| `CandidateLedger` | candidate lifecycle, validation, promotion, `LearningStore` | the ledger and the objects callers hold; a transition reads the object and appends |
| `ChampionStore` | `ChampionStore` of `learning/lifecycle.py` | history and pointer are two writes of `activate` with a possible death between |
| `ModelGovernance`, `ControlPlane` | the above with `ml/model_registry.py`; and with `Automation` | composition |
| `HistoricalReplay` | `HistoricalBacktestEngine`, lifecycle and costs | one action per row: exits, marks, day, decision, entry |
| `MarketStructure` | `market/indicators/structure.py` for one symbol | each column as an operator on the history before the row |
| `OutcomeLabels` | `build_phase9_dataset`, labels of both directions | a bar is added, the dataset is a function of the bars |
| `TemporalSplits` | `temporal_split`, `generate_windows` | operators on decision times |
| `ValidationExperiment` | `execute_validation_experiment_with_lineage` | backtest, out-of-sample, folds and record on a dataset that grew before |
| `SecurityLineage` | lineage, transitions and `identity_resolution.py` | operators on the dated records of an archive |
| `PointInTimeUniverse` | liquidity and eligibility on a day | operators on Bhavcopy rows |
| `HistoryStore` | validation, pipeline, atomic storage | the stored dataset and its temporary file |
| `MarketHistory` | a builder over all three | exchange days, renamings and listings; cache reads and writes; resolve, download, build per instrument; backfill; death at any step |
| `CollectionLemmas` | - | lemmas on `Append`, on the sums of `Functions` and on counting up, used by the proof modules |
| `ExecutionEngineProofs`, `UpstoxFeedProofs`, `PaperProofs`, `LookaheadProofs`, `ManualReviewProofs`, `ControlPlaneProofs`, `MarketHistoryProofs` | - | section 4 |
| `MC...` | - | constants, symmetry and constraints of the runs |

Composition:

    ExecutionEngine  = OrderLifecycle, instantiates ApprovedOrder
    PaperBook        = Concentration ( PaperAccount + RiskGate )
    PaperDecisionLoop= PaperAccount + RiskGate
    LiveSession      = CandlePipeline + PaperSession ( PaperAccount )
    ManualReview     = LiveReview ( AccountWatch ) + ReviewJournal
    ControlPlane     = ModelGovernance ( CandidateLedger + ChampionStore ) + Automation
    ValidationExperiment = OutcomeLabels ( HistoricalReplay ( RiskGate ) + MarketStructure )
                           + TemporalSplits
    MarketHistory    = SecurityLineage + PointInTimeUniverse + HistoryStore

### Abstractions to know

- Prices, fees and slippage are integral (percentages); floats are not modelled.
  `PaperAccount` keeps cost where the code keeps the average price. In
  `paper_book` and `experiment` prices and quantities are chosen so that a part of a
  cost, and a share of an entry's costs, is exact.
- Orders of the engine all ask for `Qty` units. The engine runs in one thread, as
  in the repository.
- Strategy, models and analysis are a choice at every row or candle: the
  properties hold for any of them.
- `CandlePipeline` and `OutcomeLabels` follow one symbol; symbols do not interact
  in the aggregator and the labels. A trade the validator refuses changes nothing
  and is no action.
- `Concentration` proposals name their sector (without one the code skips the
  sector checks), and correlations are known or not, above the threshold or below.
- A review is its content (`review_id` is its hash), a candidate's record its state
  (the fingerprint leaves out time and reason), a candle its slot.
- `MarketHistory`: days have `SlotsPerDay` candles; an ISIN or instrument id belongs to
  one security, which neither code nor provider can see from it.

## 3. Runs

| Run | Question | Bounds |
|---|---|---|
| `engine` | placement, journal, books, refinement, learning of fills, on a broker and network that account for every request | 1 order of 3 units, 2 crashes, failing audit file, no deduplication |
| `engine_faults` | what holds with late delivery and missing lookups | 2 orders of 2 units, 1 crash, deduplicating adapter |
| `engine_restart` (violation) | is an id never submitted blindly after a restart | 1 order, 1 crash, late delivery |
| `feed` | subscriptions, names, failure counts, end of the session | 3 sockets, 2 attempts |
| `paper_book` | portfolio, risk and account over openings, increases, reductions, closes and reversals | 3 symbols in 2 sectors with a correlated pair, 2 slots, 3 orders, 2 prices, 1 peak |
| `loop_limits` | slots, entries per day, exposure after an entry | 3 symbols, 3 dates, 2 prices, 4 orders |
| `live_session` | candles, outcomes and ledger | 4 trades, candles of 2 ticks, cutoff inside the session, both drivers |
| `live_research` | causality, single availability, retention, end of polling | 2 documents with 1 edit each, 2 pollers, clock to 3 |
| `manual_review` | day state, age of what is published, journal, late acceptance | 2 equities, days of 2 ticks, clock to 3, 2 sessions, 2 handlers, 2 records, 1 crash |
| `control_plane` | idempotent execution, told runs, candidates' lives, champion | 2 callers, 2 points, 3 runs; 2 candidates, 2 champions, 1 death, 1 failed write |
| `experiment` | replay accounts and loss limits, labels, splits, structure columns | histories of 4 bars of any shape or 14 equal bars with 3 gaps; 4 replay rows, 2 folds, horizon = purge = 2 |
| `market_history` | universe, resolution, accounting of a build, stored datasets | 2 securities, 3 symbols, 6 days, 2 events, lookback 3 of which 2 completed |

Why the bounds suffice for the cases: two crashes allow a crash during
recovery from a crash; three units a partial fill before and after a cancel;
three sockets and two attempts a reconnect that fails once, one that succeeds
and one more after it; three orders an opening, an addition or a reversal and
a close, or openings beside a symbol of the sector that is held, and four in
the loop more entries than a day or the slots have room for; four trades an entry
candle, a candle that exits and the trade that completes it; two pollers a
thread that a timed-out join left behind beside its successor; two sessions and
two days a restart within a day and one after it; two handlers a pair of posts
for one review; three runs a repeated key after a failure; fourteen bars with three gaps
a purge that covers fewer bars than its minutes in every one of two folds; two
events a symbol that is given up and taken by another security.
A retention of 2 against a lookback of 1 and fetches of at most 1 is
the smallest instance of `Retention >= Lookback + MaxFetch` (the code: 7 days, 24
hours, a request timeout of 20 seconds). Without that inequality a slow
refresh can bring a dropped document back with a later availability: the model
shows it when the assumption is dropped.

Parts of a composition that share no state are explored one at a time: the
constraint `Focus` of `MCControlPlane`, `MCManualReview`, `MCValidationExperiment`
and `MCMarketHistory` stops a behaviour from exercising, say, the automation
and the candidates both. The comment at its definition says which behaviours remain.

Every passing property has mutants in `PROJECT.json`: operators with a
plausible bug (`mutant: ...` in the modules) under which the run finds it violated.

### What the properties say

Several are conjunctions of named parts, each with its comment in the module.

- Engine: `OncePerProcess`, `PlacedAtMostOnce` (across crashes), `LedgersSound`
  (`ExecutedWithinApproval`, the write-ahead `JournalNamesPlaced`,
  `BooksOnlyExecuted`, `UntrackedIsBlocked`), `ApartOnlyByCancel` (when the two tables
  disagree), `FillsNeverForgotten`, `ImplementsPromise` (refinement of
  `ApprovedOrder`), `FillIsLearned` (liveness).
- Feed: `FeedSound` (no provider object serves two runs, reads are of a subscribed
  provider, the connection has a name until the stop, a failure is counted once,
  and the session finalizes unless two disconnects race), `ShutdownIsNoFailure`,
  `SessionEnds` (liveness).
- Account and risk: `AccountAddsUp` (the account's realized profit plus cost is the cash that
  moved; a position's own is what its fills moved since the symbol was last flat; positions are the fills), `LimitsHeld` (never more than asked, gross exposure
  after the fill, risk of the trade, slots, concentration), `ProjectionMet` (risk's
  signed quantity and gross exposure and the portfolio's own projection are all
  what the account holds); `EntriesSound` per row of the loop.
- Session: `CandlesExact`, `NoLuckyTarget` (a trade closed at its target never
  met its stop first), `AccountSound` (ledger and profit reconcile, the counts
  hold after an exception), `ClosedInTime`.
- Research: `NoLookahead`, `CapturesSound`, `PollingEnds` (liveness).
- Manual review: `DayStateSound` (start and peak of the day survive restarts and a
  session that starts late), `PublishedFresh`, `AcceptedInTime`, `JournalSound` (each
  decision and each outcome once and in order; only a death ruins the file).
- Control plane: `ExecutedOnce` (a decision point, in paper mode), `RunsTold` (the
  events of a run are a run's), `LivesInOrder` (each life told once and in order,
  promotion only on an eligible review of its own), `ChampionKnown` (a readable store stays
  readable, unless a process dies between the two writes or the first record names a parent).
- Experiment: `ReplayAccounted`, `LossLimitsHold`, `LabelsAgreeWithReplay` (a label is
  what the replay of that entry earns), `LabelsFinal` (a label never changes as history
  grows), `SeenAsLive` (a row's structure columns never change either),
  `NothingTestedWasSeen`.
- History: `UniverseIsPointInTime`, `ResolvedIsTheSecurity` (never another security's
  instrument, except for a retained record of a symbol when one of the two symbols was
  given up a second time: section 5), `EachAccountedOnce`, `StoredWasValidated`.

### Fairness

- `engine` (`FairSpec`): a started call ends, a broken audit file is repaired,
  a dead process is restarted, the restarted caller rehydrates what the journal
  names, and it goes on calling refresh and recover_unknown (strong fairness: a
  call that keeps becoming possible is made). The engine has no poller of its
  own, so this is an assumption on its use. Nothing is assumed of the broker: it may
  leave an order open for ever.
- `feed`: both threads run, the market closes (the watchdog waits on a clock),
  and a quiet socket reaches its receive timeout (strong fairness: frames that
  never pause for the length of the timeout for ever are excluded, for the stock
  market closes).
- `live_research`: requests end by their timeout, threads run, a waiting poller
  sees the flag, and the join ends by its timeout. Polling itself, `Start` and
  `Stop` are not fair.

The other components are driven from outside (candles, operator, exchange) and
promise nothing that must eventually happen by themselves; no liveness is stated for them.
Runs with `CHECK_DEADLOCK FALSE` model something that ends: a session, a number
of orders, rows or dates, a clock with a bound.

## 4. Proofs

For every set of symbols, orders, threads, every clock and every number of
crashes the constants allow:

| Module | Theorem | States | Assumes |
|---|---|---|---|
| `ExecutionEngineProofs` | `TypeCorrect`, `SubmitOnce` | `TypeOK`, `OncePerProcess` | - |
| | `PlacedOnceAcrossCrashes`, `NeverOverExecuted`, `JournalAndBooksSound` | `PlacedAtMostOnce`, `ExecutedWithinApproval`, `LedgersSound` | `Reliable` |
| | `FillsKept`, `EngineImplementsPromise` | `FillsNeverForgotten`, `Spec => Promise!Spec` | `Reliable` |
| | `ApartAlwaysByCancel` | `ApartOnlyByCancel` | `~AuditMayFail` |
| `UpstoxFeedProofs` | `FeedAlwaysSound`, `ShutdownNeverFails` | `FeedSound`, `ShutdownIsNoFailure` | - |
| `PaperProofs`, of `BookSpec` | `AccountAlwaysAddsUp`, `OrdersWithinLimits` | `AccountAddsUp`; `NeverMoreThanAsked`, `ExposureHeld`, `RiskBudgetHeld`, `SlotsHeld` | - |
| | `LimitsAlwaysHeld`, `ProjectionAlwaysMet` | `LimitsHeld`, `ProjectionMet` | `~AllowResize` |
| `PaperProofs`, of `LoopSpec` | `EntriesAlwaysSound` | `EntriesSound` | - |
| `PaperProofs`, of the session's `Spec` | `CandlesAlwaysExact`, `NeverLucky`, `SessionAccountSound`, `AlwaysClosedInTime` | `CandlesExact`, `NoLuckyTarget`, `AccountSound`, `ClosedInTime` | - |
| `LookaheadProofs`, of `LiveResearch!Spec` | `NeverLooksAhead`, `CapturesAlwaysSound` | `NoLookahead`, `CapturesSound` | `Retention >= Lookback + MaxFetch` (second) |
| `LookaheadProofs`, of `ExperimentSpec` | `ReplayAlwaysAccounted`, `LossLimitsAlwaysHold` | `ReplayAccounted`, `LossLimitsHold` | - |
| | `LabelsAlwaysFinal`, `LabelsAlwaysAgree` | `LabelsFinal`, `LabelsAgreeWithReplay` | - |
| | `NothingTestedEverSeen` | `NothingTestedWasSeen` | `Purge >= Horizon` |
| | `RowsAlwaysSeenAsLive` | `SeenAsLive` | - |
| `ManualReviewProofs` | `JournalAlwaysSound`, `AlwaysAcceptedInTime`, `DayStateAlwaysSound`, `AlwaysPublishedFresh` | `JournalSound`, `AcceptedInTime`, `DayStateSound`, `PublishedFresh` | - |
| `ControlPlaneProofs` | `ChampionAlwaysKnown`, `AlwaysExecutedOnce`, `AlwaysLivesInOrder` | `ChampionKnown`, `ExecutedOnce`, `LivesInOrder` | - |
| | `RunsAlwaysTold` | `RunsTold` | - |
| `MarketHistoryProofs` | `AlwaysStoredValidated` | `StoredWasValidated` | - |
| | `UniverseAlwaysPointInTime` | `UniverseIsPointInTime` | - |
| | `AlwaysItsSecurity`, `EachAlwaysAccounted` | `ResolvedIsTheSecurity`, `EachAccountedOnce` | - |

`Reliable` is `~LateDelivery /\ ~MissingLookup`: no request arrives after the
call that sent it ended, and a placed order is never missing from a lookup.
`engine_restart` shows that the first half is needed. `~AuditMayFail` is a working audit
file: an append that raises between the two writes of a call leaves the tables apart at other
states too. Deduplication by the broker is
not assumed. Besides, every module's ASSUMEs on its constants hold; TLC evaluates
them in the runs.

The arguments. None of the properties is inductive.

- Engine. `SubmitOnce` rests on `SentIsMarked`: a process that has sent a request
  holds a state for the order from which the table never leads back to VALIDATED. The others rest on
  `ReliableInv`: `TypeOK`, `SentIsMarked`; `CallShape` (a submit in flight holds its
  order SUBMITTING and unrecorded, and excludes a cancel); `WireShape` (a request travels
  only while its call waits; requests and placed orders of an id together are at
  most one); `PlacedIsMarked` (a placed or travelling order is journalled, and a running
  process that is not about to rehydrate it holds a state that blocks
  submission: this carries the argument over a crash); `BookShape` (the broker's
  latest record is its only one, and what is booked is within it). `StepEffect` sums
  up what any step does to the three quantities of `ApprovedOrder`, from which the
  refinement and `FillsNeverForgotten` follow. `ApartAlwaysByCancel` needs neither: a step
  writes the state and the record of one order together, or leaves them apart at
  CANCEL_PENDING (`Written`), and nothing moves only one of them later.
- Feed. `FeedInv` says for each line the reader and the watchdog stand on what
  they hold: where each provider object is (`Placed`), when the flag is up
  (`Flagged`), which subscriptions the local set or the shared one carries
  (`Subscribed`), and who may have taken `_ws` away between two reads (`Raced`, `Ended`).
- Book. `BookInv`: the types, the sums, the slots, and that no cost is left without a
  position. `FillEffect` gives what one fill makes of a position's cost and profit,
  `SumChanged` what that makes of the sums (the profit of a position opened anew starts
  from nothing, that of the account does not: `Earlier`); `DecisionEffect` what an approved order of
  `RiskEngine` may be after its cuts (each `\div` rounds down), with resizing or without, and
  `ExactDecision` that without it the order is the one asked for, from which the
  projections of portfolio and risk meet (`SpreadMet`). The concentration limits and the
  projection need `~AllowResize`, the frozen configuration: section 5 says why.
- Decision loop. `LoopInv`: every order of the journal opened one of the positions (`Entered`),
  which are counted against the slots and against the entries of the days before plus those of today; the
  counter of the day alone would not bound them, because it begins again with each date.
  `FlatDecision` says what risk answers on a flat symbol: the resize rounds down, so the
  order is within the exposure left of the equity it is decided on, and `ExposureMoved` carries that to
  the exposure after the fill. `RowEffect` sums a row up in two cases.
- Session. `SessionInv` has four parts. `Bucketed`: the forming candle and every completed one are
  the open, high, low, close and volume of the accepted trades of their bucket, and each trade is in
  one of them. `Fed`: the pipeline's types. `SessionBooks`: the money the fills moved is the net of the outcomes less
  what an open position owes, the entries are the outcomes and the open position, the ledger is
  the `Snapshot` of both at the last bar, and a position carried into a candle is younger
  than its limit and the cutoff. `Lived`: between the bar of its entry and the last bar (or its exit) no trade was at the stop of
  a position, which the handler cannot see from the trades and concludes from the candle's low and high:
  so `NoLuckyTarget` needs `Bucketed`.
- Research. `CacheInv`: what was captured keeps its first availability, also by a
  refresh still in its fetch (`Timely`, `CapturedOnce`, `EvidenceKept`). Its core is the
  lemma `FreshIsNew`: a document young enough for a refresh to bring cannot be one the
  retention has dropped, which is where the inequality enters.
- Replay. `ReplayInv`: the types (`Trading`: an open trade carries the slippage of what is left of it, and its stop
  and target lie on their sides until the rest runs with its stop at the fill),
  `DayKept` (nothing is open in a symbol whose day is over, and the day's results begin with the
  day) and the account itself. `SoldBalances` is the core: a sale takes from the trade what it brings
  in money and in results, whatever share of the entry's fee goes with it, so that
  partial exits cannot count anything twice. `RowOpens` reads the daily limit off the
  gate's answer: the equity the gate was shown is that of the book without the trade it let in.
- Labels. `LabelsInv`: bars have later and later times and whole prices (`BarsInv`), and the dataset is part of
  what would be labelled now. `LabelStays` is the locality of a label: it is the
  same function of the bars of its horizon (`LabelIn`), so bars that are added change none.
  `ReplayedIsSuccess` unrolls the replay of one share over the horizon: it is open at a bar exactly when no
  bar before met its stop or its target, which is the labeller's condition.
- Structure. A column of row `i` is an operator on the whole history. For each one there is a
  lemma that the part of it that ends with `i` (`Piece`) gives the same value: levels and periods read rows
  up to their own; a session before is over, and the opening rows of this one too once they
  are shown; a pivot is shown only when its right side is complete; what is broken last is the level of the latest
  break so far (`BrokenIs`, `LastLevel`), and `RetestsLast` needs besides that no bar
  breaks out both ways, which follows from `low <= high`.
- Splits. `NthFound` and `NthOrder` count decision times; `PurgedBoundary` is the reason for the purge: a label of `Horizon` bars
  that starts a purge before a boundary, one gap in trading crossed or none, ends before a
  purge behind it; `PurgedBlock` is the one-sided case. `BlocksFollow` gives the integer
  divisions of `generate_windows`: blocks are not empty and follow each other.
  `Reported` carries the split and the folds through the experiment, and `ApartAdded` counts the record.
- Manual review. `JournalInv` (what the file lists, what each handler has read,
  one writer at a time, how the file ends), `WatchInv` (the stored day against the
  account as the call saw it) and `AcceptInv` (a record was valid when its request came).
- Control plane. `ChampionInv` (history and pointer); `AutomationInv`: keys are taken by one run
  (`Keys`), a run is driven by one caller (`Driven`), and what executed has a key
  (`Executions`); for `RunsTold` the events of a driven run are those of the
  stages before the one it stands at, and of a closed one the `FullTrace` or a beginning and the
  failure; `GovernanceInv`: the ledger's lives against the objects
  callers hold, the reviews and the registry.
- History. `StoreInv` and `ValidIsWhole`: what the validator lets through has whole
  sessions only, except suspended ones and the open one, and only such a dataset is
  renamed over the stored one. `HistoryInv`, for the universe: what a build has read is what was
  published on the sessions it has got to (`BuildInv`), and no day to come changes that
  (`ExchangeInv`, `DayKeeps`). For the resolution, `NamesInv` tells who had which symbol when:
  one holder of a symbol at a time and ids that grow (`ListedInv`), what was published of them
  (`MasterInv`), whoever is back at a symbol came by a later change (`BackByChange`, `BackByThen`),
  a symbol is taken only when it was given up (`TakenWhenFree`), one never given up
  is its first holder's (`FirstHolder`), and a change between symbols given up at no other time leads from a
  security to itself (`OneSecurity`). It is inductive over every day the exchange can have
  (`NamesStep`), and `ResolvedRight` reads it along the branches of `PointInTimeInstrumentResolver.resolve`: `NotAhead` and
  `NotBack` are why a record that traded is never led along a change of another security: the
  evidence the lineage demands refutes it.
  `Accounted` then counts: pending, built and failed are the universe's records in three parts
  (`Parted`), each record built once, and the join fails only on two instruments of one
  symbol (`Twins`), of which one must be another security's.

Sums over data (`SumFunctionOnSet`) are reasoned about in `CollectionLemmas`, by
well-founded induction on the subsets of a finite set, stated over sets because the
library's induction theorems take operator parameters.

Only model-checked: the three liveness properties `FillIsLearned`, `SessionEnds` and `PollingEnds`, because
liveness and `ENABLED` are outside the installed provers. Every invariant and action property of
a passing run is stated by a theorem above. `engine_restart` is a counterexample and has none.

## 5. Where code and documentation disagree

With a run: `engine_restart`. `rehydrate` skips a journalled id the broker does not
show, against its docstring (`execution/engine.py:719-720`); submit repeats the order.

Seen while modelling, without a run (most are a note of a hazard; a property that
states the weaker fact that does hold is named):

Execution and feed
- `execution/engine.py:296`: the table has no edge from SUBMITTED to CANCELLED or
  EXPIRED, nor from UNKNOWN to EXPIRED: an order closed before it was seen OPEN makes every
  refresh raise.
- `feed.py:356` and `:358`: both threads in `disconnect()` read `_ws` twice; the
  `AttributeError` replaces a clean end (`FeedSound` says it is the only way to lose it).
- `feed.py:143`: a stop during a reconnect is followed by a new connection, which stays
  open until the reader leaves.

Risk, account, sessions
- `trading/risk/daily_limits.py:33`: the daily loss limit is forgotten when prices
  recover, against `TRADING_SPECIFICATION.md`; `trading/paper/decision_loop.py:204`: a loss
  carried over night counts again as today's.
- `trading/risk/engine.py:615` and `:728`: with `allow_resize` the cash cut and
  the volatility factor of a transition are overwritten, and the projection is
  that of the uncut order; `:697` and the limits of section 8: releases are refused while the book
  is over a limit, in drawdown or at the loss limit, against the comment at `:669-671`;
  `PortfolioManager` rejects them likewise.
- `trading/risk/correlation.py:28` speaks of aggregate exposure, but of its own symbol an
  increase counts the addition only (`SpreadHeld` leaves increases out).
- No production code hands `PortfolioManager`'s answer to risk (only
  `tests/integration/test_transition_lifecycle.py` does), and the live context supplies no sectors or
  correlations (`trading/live/upstox_risk_context.py:325`). `PaperBook` models the hand-over
  of that test.
- `trading/paper/live_loop.py:236`: entries are taken at and after the cutoff
  (`exit_engine.py:10-11`).
- `trading/paper/canonical_live_orchestrator.py:321`: an exception in the
  prediction path, and `market/candles/aggregator.py:225`: a late trade, end the
  session without finalize, against `docs/VIRTUAL_INTRADAY_PAPER_RUNBOOK.md`.
- `paper/runtime.py:253-260`: an order on a symbol that was flattened begins a new position with
  `realized_pnl=-fees`, so `mark_to_market` forgets what the symbol earned before, while a reversal (`:300`)
  goes on with it. The positions' profits do not add up to the account's, which alone feeds equity.
- `market/data/realtime_pipeline.py:111`: no session calls `flush`, so the last candle of
  the day reaches no exit. `paper/runtime.py:129`: exits are not written to the runtime's
  positions, which the desktop reads.

Research and review
- `research/live/runtime.py:43-45`: `available_at` is read before the request, so a
  document can become available to an earlier decision in retrospect; `:250`: after a
  timed-out join two pollers run.
- `dashboard/server.py:114`: a request names no signal, so the record may be of
  one the operator has not seen (`ReviewedAsShown`, stated in `ManualReview`, does not hold).

Observation
- `screen_observer/runtime.py:124-134`: `pause()` waits for the observation lock to give its caller a
  stable boundary, but the loop tests the flag before it takes the lock (`:189-191`): a loop between
  the two observes after `pause()` has returned. An event whose callback raises is lost, since
  the state it announces is stored before (`:160-166`); a `start()` after a `stop()` that timed
  out returns at once and leaves the loop to end.

Models
- `docs/SELF_LEARNING_ENGINE.md` calls a rejection terminal; an object from before it
  can still be advanced (`RejectionIsTerminal`, stated in `ModelGovernance`, does not hold).

Backtests and datasets
- `docs/STRATEGY_ENGINE.md:178`: the purge of a walk-forward fold is taken off the beginning of
  the tested block only; a training label that crosses a gap in trading rests on
  tested bars. `ml/datasets/splitting.py:113-114` claims more than holds over
  night, though the two-sided purge of `temporal_split` keeps labels off tested rows.
- The replay fills a row that opens beyond the stop at the stop price.
- `market/indicators/structure.py`: `breakout_distance_pct` is positive
  for a downward breakout and NaN without one, against its docstring (`:670-672`); support and resistance, flags and breakouts do not group by symbol.

History
- `identity_resolution.py:61-64`: a security renamed since cannot be resolved for a day before
  the renaming; renamed twice it has no lineage; by symbol change together with a changed ISIN neither.
- A record the exchange retained of a symbol that was given up can resolve to the security that
  took the symbol over: when one of the two symbols is given up a second time and no
  archived day shows it, nothing in the lineage tells the two holders apart (`GivenUpTwice`). For a record that
  traded on the day it cannot happen (`AlwaysItsSecurity`).
- `nse_bhavcopy.py:75-81` and `:115`: a truncated cache file that is not empty, or an answer that is
  no archive and was written before it is parsed, is never downloaded again. The deletion flag is not consulted in `build_point_in_time_universe`.
- `validation.py:402-404`: an open session may miss any candle. The default scripts build with
  `require_complete_sessions=False` and without `as_of`, and none stores a dataset.

## 6. Not modelled, and why

- Strategy engine and policies, prediction models, features and training, research extraction,
  analysis, multi-stock ranking: stateless or statistical; the models take any
  answer where the code asks them.
- Safety, kill switch and authorization: gates over flags; the live route always refuses.
- Upstox wire formats, parsers of the exchange's files, chunked download, corporate
  actions, membership files: conversions without a step another actor could disturb.
- Monitoring, trade journal and learning loops, certification and readiness scripts:
  they observe, or run offline in one process.
- Screen observer: one loop with a lock and three flags that feeds no decision; its races are in section 5.
- Desktop, dashboard pages, older agent scaffolding, scripts, deployment.

Within the modelled components: fees other than a percentage, report
files, monitoring counters that nothing reads, the checks that prices and stops are finite and on
their side, percentage distances and VWAP of the structure, frames of several symbols, fingerprints,
metrics and lineage records, `review_run` (no run of `collect` can pass it), the rollback of
`self_learning/champion.py`, two manual sessions at once (the day-risk file has no lock),
time zones and daylight saving (NSE has none).

The modelled share of the source is limited by this choice: the larger part of the repository is tables,
presentation and evidence scripts that keep no state.

## 7. Plan

Done: the execution core, feed, account, risk, portfolio, decision loop, live session, live research,
manual review, control plane, experiment and market history, each with the proofs of section 4. Left, in
order of importance:

1. The loop, pause and stop of the screen observer.
2. A run of `paper_book` with resizing, once the intended order of the cuts is settled.
3. Safety and authorization as operators of the engine's `submit`.
