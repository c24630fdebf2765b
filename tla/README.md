# QuantumAlpha in TLA+

A model of the trading bot in `src/bot/`, written from its source: TLA+ modules,
TLC configurations that check them on small instances, and proofs TLAPS checks for
every instance. Paths below are relative to the repository; line numbers are given
where a definition or a remark depends on one. `PROJECT.json` maps every modelling
definition to the lines it stands for.

* [The system](#the-system): components, state, operations, what is hard
* [Modules](#modules): what models what, and how
* [Runs](#runs): what each one asks, its bounds, its fairness
* [Proofs](#proofs): what is proved, from what, and how
* [What the code does that its text does not say](#disagreements)
* [Not modelled](#not-modelled)
* [Plan](#plan)

## The system

One process, one asyncio event loop. `main.py` builds the objects once and
`scheduler.py` drives them with APScheduler jobs (`max_instances=1`); Telegram
handlers run on the same loop. Concurrency is therefore between coroutines at their
`await`s, between the process and the exchange, and between the process and its own
death. The trade-trigger bot is a process of its own. Three SQLite databases (ledger,
funding rates, trade trigger) outlive the processes; nearly everything else is in memory.

```
 Telegram commands ──► RiskKernel ◄── approve / book ── FundingArb ──► PnL ledger (SQLite)
        │                                                  ▲ 15 min job, rates, tickers
        └──────────► StrategyOrchestra ◄── 5 min job ── klines
                      │  gates, regime matrix, conflicts, caps
                      ├─ mean reversion   ├─ DCA on dips ◄── macro event detector
                      └─ CVD divergence     paper executor ──► positions, exposure
 portfolio sync (10 min) ──► kill switch
 LiquidityVortex ── MarketStateProvider ── websocket and REST pollers
 funding monitor ──► SQLite ◄── arb job, /funding;  /earn_add ──► PnL ledger
 trade trigger bot: sources ──► pipeline ──► SQLite ──► Telegram alerts
 backtest: ReplayEngineV2 ── adapters ── BacktestRiskKernel; walk-forward harness
```

### Modelled components

**Risk kernel** (`core/risk_kernel.py`).
State: starting, current and peak equity; daily, weekly and total PnL; the loss streak;
the halt (flag, reason, deadline); the two reset times; a state file, if one is given.
Operations: `approve_trade`, `record_trade_outcome`, `update_equity_from_external`,
`manual_halt`, `manual_resume`, `get_status`, `is_trading_allowed`, load and save.
Hard: limits that are tested in an order, each returning; one halt slot that any later
halt overwrites; resets that happen only inside `approve_trade`, while losses are booked
at any time; a division by an equity that may be 0; a state file rewritten in place.
Correct when: the books are one account, a halt is served in full, a granted size obeys
the risk and position limits, no trade is granted on a day that has lost 5%, three losses
in a row always stop trading.

**Funding arbitrage** (`strategies/funding_arb.py`, `scheduler.py:53-67`).
State: `_open_arbs` in memory, two fills per leg pair in the ledger, the position of the
one coroutine between its awaits. Operations: `evaluate_cycle` (fetch rates, then
`should_open`/`open_arb` or `should_close`/`close_arb` for each). Hard: approval before
two awaited ticker calls, fills after them; two fills that are not one transaction; a
restart that keeps the ledger and loses the memory; a result booked after the last fill.
Correct when: what memory calls open is hedged on disk; a naked leg is always owed to a
fault; each close is booked once; a halt stops openings; every arb is closed in the end.

**Strategy orchestra** (`strategies/orchestra.py`, `base_strategy.py`, the five-minute
job and paper executor of `scheduler.py:374-545`, `handlers/strategy_commands.py`).
State: status and enabled flag of each strategy, exposure per symbol, portfolio peak and
value, the kill switch; mean reversion's positions; DCA's events. Operations: `run_tick`
(kill switch, capital, regime matrix, evaluation, gates, conflicts, caps), execution,
portfolio sync, `trigger_event`, enable, disable, halt, resume. Hard: a pipeline in which
all decisions are cleared before the first is executed; statuses written by the operator
and by the regime; state that only grows because its release is never called. Correct
when: the cap on a symbol holds, exposure covers positions, the kill switch is final,
a tick never wakes what was halted, a strategy that holds a position stays managed.

**Macro event detector** (`core/macro_events.py`, with `trigger_event` of
`strategies/dca_dips.py`). State: the poll interval, since when the VIX has been high, the
last VIX event; the strategy's status, capital and active events. Operations: the polling
loop with `_check_vix`, `_emit`, the callback. Hard: persistence with hysteresis under two
poll intervals, polls that fail, a callback whose refusal is not heard. Correct when: an event
needs a sustained spike and a day's distance from the last, and a spike that lasts is acted on.

**Liquidity Vortex** (`strategies/liquidity_vortex.py`, `lv1_*.py`, the 30 s job of
`main.py:249-256`) on the **market state provider** (`utils/market_state_provider.py`).
State: open positions with stop and take-profit flags, cooldowns; per symbol a cache with a
time per field, rings of bars, one task per feed with its back-off. Operations:
`run_one_cycle` with `manage_position`, `evaluate`, `execute_signal`, the partial and full
closes; the stream and poll bodies. Hard: an order may fail, or be executed and its answer
lost, between two others; one market state is used across awaits; a state is handed out only
while seven fields fed at different periods are fresh. Correct when: memory and exchange agree
unless a named cause parts them, a position is not passed over again and again, a stop never
moves back, a loser is let go in the end.

**Trade trigger** (`trade_trigger/`). State: the tables of events, classifications,
refusals, odds and signals; the two jobs with their batches; the messages that still carry
buttons. Operations: both poll cycles, `process_event`, the alert, confirm and skip. Hard:
two jobs over one database at each other's awaits; an event is stored as seen before it is
judged; a failing call drops the rest of a batch; a process that dies between two inserts; a
feed request without a timeout; a cap on what a poll looks at.
Correct when: an event gets one verdict, a signal is corroborated, what is published is stored
unless the cap crowds it out, a cycle ends unless a feed hangs.

**Replay engine** (`backtest/replay_engine_v2.py`, `production_adapter_base.py`,
`adapters/`, `models.py`), the **backtest risk kernel** (`backtest_risk_kernel.py`), the
**walk-forward harness** and the two **providers** (`walk_forward.py`,
`regime_detector.py`, `indicators.py`). State: equity, positions with their ladders, trades,
pending actions; the kernel and the clock it shares with the adapter; the window. Operations:
the five steps of `run`, the callbacks, the window loop. Hard: callbacks that change the
kernel in the middle of a walk over positions; a clock that moves only at the end of a bar;
providers built from bars of the future. Correct when: no dollar is lost or counted twice, no
stop is passed over, both kernels decide alike, no regime or indicator rests on the decision's own
bar or a later one.

**Funding monitor** (`core/funding_monitor.py`). State: two tables; where each fetcher is in
its sweep. Operations: the loop, `fetch_once` (called by the arb job and `/funding`),
`_store_rate`, `_maybe_emit_opportunity`. Hard: several fetchers without a lock; a time compared
as text; one symbol's failure in the middle of a sweep. Correct when: alerts are paced, and
a settlement is missed only by its own failure.

**Earn book** (`core/earn_manager.py`, `/earn_add` and its readers in
`handlers/trading_commands.py`, the earn table of `core/pnl_ledger.py`). State: the rows;
Telegram's queue. Operations: `add_position`, the summary, the gap analysis. Hard: updates
delivered again after a crash; an insertion that fails; a boundary at maturity; two plan
targets under one key. Correct when: a report is booked once, and a fixed term is announced before
it ends and reported as expired afterwards.

Parts of the base class, the three strategies, the Telegram handlers, the PnL ledger, the
Bybit client and `main.py` enter these modules as far as they change that state.

### Components left out

| Component | Why |
|---|---|
| Trade trigger reports and tools (`calibration.py`, `alerts.py`, `backtest.py`, `core_adapters/`) | aggregates over stored rows, texts, an offline tool, an HTTP adapter |
| Market data streams (`utils/cvd_stream.py`, `orderbook_metrics.py`, `calendar_events.py`) | the CVD stream has no caller; numerics; a table |
| Older backtester (`backtester/`) | superseded by `backtest/` |
| Daily digest, scripts, `_funding_arb_patch.py` | read-only text, offline analysis, a patch already applied |

## Modules

| Module | What it is |
|---|---|
| `RiskKernel` | the kernel, its clock, its file and its callers |
| `CircuitBreaker` | abstract: what the kernel promises the bot about halts |
| `RiskKernelProofs`, `FundingArbProofs`, `OrchestraProofs`, `TradeTriggerProofs`, `ReplayProofs`, `LiquidityVortexProofs`, `FundingMonitorProofs` | theorems about the module each is named after, with proofs |
| `EarnMacroProofs` | theorems about `EarnLedger` and `MacroDca` |
| `FundingArb` | the arb strategy and its job; `INSTANCE`s `RiskKernel` as the kernel it calls |
| `Orchestra` | the orchestra with its strategies, executor and commands |
| `TradeTrigger` | both jobs of the trade-trigger bot over its database |
| `BacktestKernel` | the backtest risk kernel, as operators on a record |
| `Providers` | which bars a regime or an indicator rests on |
| `Replay` | harness, engine, adapters and kernel; extends the two above and `INSTANCE`s `RiskKernel` for the lockstep |
| `MarketState` | the market state provider |
| `VortexSignals` | Liquidity Vortex's pure decisions: gates, score, critique, size |
| `LiquidityVortex` | the strategy on top of `MarketState` and `VortexSignals`, with the exchange |
| `MacroDca` | the VIX detector and the strategy it triggers |
| `FundingMonitor` | the monitor's fetchers over its database |
| `EarnLedger` | the earn book between Telegram and SQLite |
| `MC*` | finite values for the constants |

Operators introduced by "A plausible bug" are mutants of the definition they precede;
no specification uses them. They stand for mistakes a change could make, and show that
the property they are named with in `PROJECT.json` would notice.

### RiskKernel

`kernel` is one record with the fields of the object, because `_save_state` and
`_load_state` write and read just that. `file` holds such a record or `Unreadable`
(missing, empty, torn: `_load_state` treats them alike, lines 574-594). `persistent` says
whether a `state_file_path` was given at all; production gives none (`main.py:106`), the
tests do, and the model covers both. `reply` is what the last call returned. Three
variables exist only to state properties or to bound the run: `promise`, the tick the last
announced halt was to last until; `touched`, whether an operator or a reconciliation has
reached the kernel; `outcomes`, a counter.

| Action | Code |
|---|---|
| `ApproveTrade(r)` | `approve_trade` (205-310): resets, expiry of a halt, verdict |
| `RecordTradeOutcome(pnl)` | `record_trade_outcome` (312-337): books, then `_evaluate_killswitches`, then the save |
| `UpdateEquityFromExternal(b)` | 339-353; called by nothing in production, kept because it is public |
| `ManualHalt`, `ManualResume` | 355-360, 368-378, reached from `/halt` and `/resume` |
| `GetStatus`, `IsTradingAllowed` | they lift an expired halt, so they are actions |
| `Restart`, `DieWhileSaving` | a new process; a death inside `write_text`, which truncates first (570) |
| `Tick` | the clock |

Abstractions. Money is in whole dollars and time in ticks, `Day` of them in a day.
Percentages are compared by cross multiplication, so no rounding enters a decision;
the granted size is rounded down to a dollar, below what the code grants. The total-halt
of 999999 hours is the constant `Forever`. At an equity of exactly 0 the drawdown
quotient raises `ZeroDivisionError` after the books were updated and before the save:
`RecordTradeOutcome` stops there as the code does. The stop-loss, confidence and
stress multipliers of a request are the few values that change the verdict.

### CircuitBreaker

Open, or shut until a tick; with the last event. A halt may strike at any time and replace
an earlier one; a shut breaker opens early only by an operator's hand on a halt an operator
made, or by a restart that lost it. `ImplementsBreaker` in `RiskKernel` is the refinement:
`cause` and `until` are read off the halt in memory, the events off the replies.

### FundingArb

The job is one coroutine, so `at` is its program counter: `idle`, the awaits (`rates`,
`openFetch`, `closeFetch`), and the points between two fills. Handlers and the clock move
only while it is idle or awaiting; a death or a failed write may come at any point.

| Action | Code |
|---|---|
| `JobStart`, `RatesArrive` | the job and `fetch_once` (`scheduler.py:53-67`, `funding_monitor.py:216-231`); a list may miss any symbol |
| `Skip`, `AskKernel`, `BeginClose`, `EndCycle` | the loop of `evaluate_cycle`: `should_open` with `approve_trade` (no await between them), `should_close` |
| `FetchFails` | a ticker call that raises; the opening or closing is abandoned |
| `TickersForOpen`, `RecordSpotOpen`, `RecordPerpOpen` | `open_arb` 456-530: two fills, then `_open_arbs` |
| `TickersForClose`, `RecordSpotClose`, `RecordPerpClose`, `Settle` | `close_arb` 535-600: CLOSING, two fills, CLOSED, `record_trade_outcome`, removal |
| `WriteFails` | `record_fill` raises; the job logs and ends |
| `ProcessRestart` | memory is rebuilt empty, the ledger stays |
| `Halt`, `Command`, `Tick` | `/halt`, `/resume`, `/risk_status`; the clock |

Rates are millionths per eight hours and drive the real thresholds, costs and the
nine-settlement economic test; quantities and prices collapse into the PnL that is booked.
An arb's uuid is its place in the ledger. A tick is many hours, so the clock stands still
inside a cycle.

### Orchestra

From the last fetched kline to the last executed decision the job meets no await that
suspends, and `max_instances=1` keeps ticks apart: a whole `run_tick` with its
execution is one action, `OrchestraTick`, built from one operator per stage
(`RegimeMatrix`, `Evaluate`, `Gated`, `Resolve`, `Fills`, `PositionAfter`,
`ExposureAfter`). The set of symbols whose klines arrived, their readings and the
regime are chosen freely. `PortfolioSync`, `TriggerEvent`, the four commands and
`Restart` are the other actions.

Facts about production the model keeps, because they decide what is reachable:

* nothing in `bot/` calls `on_position_closed`, `on_tranche_filled`, `on_event_closed` or
  `release_kill_switch`: positions, events and the switch stay once they are there, and
  the loss and cooldown gates never bite;
* exits and scale-ins carry no price in their metadata, and the paper executor drops a
  decision without one (`scheduler.py:501-504`);
* live execution is a placeholder (`scheduler.py:536`), so outside paper mode nothing fills;
* `_detect_regime` asks the funding monitor for `get_latest_snapshot`, which it does not
  have (its caller `_detect_regime`, `scheduler.py:456-490`, then answers NEUTRAL), so production always sees NEUTRAL; the model checks BEARISH too;
* no CVD data is supplied by the job; the model supplies it, because the strategy and the
  conflict resolution exist for it;
* `set_status` is a no-op for the funding arb and Liquidity Vortex adapters, which are
  therefore outside the statuses modelled here;
* the hourly equity snapshot calls `risk_kernel.record_equity_snapshot`
  (`scheduler.py:82`), which does not exist: what follows it in that job never runs.

### TradeTrigger

A job is a record whose `phase` names the await it is parked at: `idle`, `polling` (the next
market or feed), `hung` (a feed request nobody answers), `checking` (the prices of a ticker),
`sending` (the alert); `judging` is the stretch of `process_event` before its first await. Every database call is a transaction, so a
step changes the tables exactly where the code does.

| Action | Code |
|---|---|
| `StartPolymarket`, `StartRss` | the two interval jobs (`bot_runner.py:465-474`, `max_instances=1`) |
| `PollMarketOk`, `PollMarketFails` | `poll_once` of `sources/polymarket.py`: store the price, compare it with the oldest of the window, one event per watched direction; the last market prunes the history |
| `PollFeedOk`, `PollFeedFails`, `PollFeedBreaks` | `poll_once` of `sources/rss_base.py:66-106`, which looks at the newest `MaxItems` entries (`max_items_per_poll`, 50; lines 37, 73) and inserts what it emits; the fetch fails; an insertion raises after some others |
| `FeedHangs` | `feedparser.parse` runs in an executor without a timeout (112-124): the job stays where it is until the process ends |
| `Judge` (in `PmStep`, `RssStep`) | `process_event` up to the anti-bias gate: insert, velocity, classifier, score, mapping, corroboration |
| `CheckTrigger`, `Send` | the anti-bias gate's fetches and verdicts; signal and alert |
| `PmAborts`, `RssAborts`, `Crash` | a database call that raises; a death, perhaps between two inserts |
| `Press` | confirm or skip under an alert |

A refusal stands for a decision that did not fire: the code writes audit rows for most of them, none
for an empty mapping, and one per trigger at the anti-bias gate (`pipeline.py:214-218`); the model keeps one
each. A headline is its topic; scores, confidences, moves and RSI come from small sets chosen to
take each branch. Source health, heartbeats and calibration rows are left out: only reports
read them. Worth knowing from the code: the identity of an odds event holds its minute
(`polymarket.py:440-448`), so a shift that lasts is a new event at every poll; an alert whose
send fails is logged and never sent again (`bot_runner.py:277`), and the signal stays stored.

### Replay, BacktestKernel, Providers

`sim` is one record for what a window's engine and adapter hold, because the engine's
callbacks reach into adapter and kernel in the middle of its own work; the operators
(`Open`, `ScaleIn`, `Reduce`, `Sell`, `CheckExits`, `OnFill`, `OnPositionClosed`, …)
transform it in the order of the calls. A loop over a list is a recursive function of how
much of the list is done (`AfterActions`, `AfterTargets`, `AfterExits`, `AfterCloses`,
`Passed`), which is what the proofs do induction on. A level of a ladder that triggered is
marked in `done`, by its place, as the code marks its copy. `sim.twin` is production's kernel,
instanced from `RiskKernel` and fed the same outcomes at the same clock; `cash`, `fees`,
`today`, `low` (the least equity the kernel has had) and `seen` are history for the properties.

| Action | Code |
|---|---|
| `StartWindow`, `FailWindow`, `FinishWindow`, `Report` | the window loop of `walk_forward.py`, the forced close at the last bar |
| `NextBar(shape)` | steps 1 and 2 of `run`: fill what is pending at this bar's open, then stops and ladders |
| `EvaluatePlain` | an adapter without kernel, with the engine's veto hook |
| `EvaluateNothing`, `EvaluateSignal` | `ProductionAdapterBase.evaluate` (173-293): clock, period reset, signal, approval, conversion |
| `MeanReversion`, `DcaDips`, `AnyStrategy` | the two packaged mock strategies, and one that answers anything |

Abstractions: whole dollars; an average entry price is kept as the cost of what is open;
slippage and commission are per unit; an indicator is the set of bars it rests on. Strategy
exceptions, missing market data and HIGH_VOL gating end in `EvaluateNothing`. Worth knowing:
what is pending at the last bar is dropped; a window needs a bar at or after its end to be
planned; `ProductionAdapter` never sets a stop or a target, so intra-bar exits happen only with
plain adapters; after a SHORT entry the mean reversion mock's SCALE_IN adds to the SHORT;
the packaged strategies price and judge a decision with the open and close of its own bar, as a
decision at the bar's end may (`dca_dips_adapter.py:290-294`; the engine's spot is `bar.close`), so the
look-ahead question is about the two providers only;
`realized_pnl` of a trade leaves out entry commissions, so the kernel's equity runs ahead of
the engine's by just those (`EquityExplained` states the difference).

### LiquidityVortex, VortexSignals, MarketState

`MarketState` keeps, per symbol, the age of each field (capped where no reader can tell), the
wait and tries of each task, the filled part of each ring and the values read from them. `cyc`
is the program counter of the one running cycle; feeds, clock and exchange move only while it
is idle or parked at an order. `ex` is the exchange (external): resting entries, what is held,
the stop order. An order is answered `ok`, `rejected`, or `lost` (executed, then a timeout). A poll
asks, touches its field when the answer is there, and sleeps its interval then
(`market_state_provider.py:709-717`), so from one value to the next pass the interval and a request,
which takes 0 to `MaxLatency` steps.

| Action | Code |
|---|---|
| `StartCycle`, `Tick` | `run_one_cycle` every 30 s (`main.py:249-256`); a start that is due while a cycle runs is dropped |
| `ManageNothing`, `ManagePosition` | `manage_position` 701-766 up to its first order |
| `AnswerPartial`, `AnswerClose` | `_close_partial`, `_close_full` and what follows |
| `EvaluateNothing`, `EvaluateBlocked`, `EvaluateEntry` | `evaluate`: kernel, cooldown, state, sweep, gates, score, critique, size |
| `AnswerEntry`, `AnswerStop` | `execute_signal` 610-699 |
| `Fill`, `StopFires`, `Restart` | the exchange; a new process |
| `BookUpdate`, `RingUpdate`, `PollUpdate`, `TaskError`, `StreamQuiet` | the task bodies under `_backoff_loop` |

The kernel and ledger are those of the protocols in `lv1_models.py:216-248`. Production wires
objects that do not follow them: the risk kernel's `is_trading_allowed` is inverted and it has
no `daily_drawdown_pct`, `PnLLedger` has no `rolling_stats`, `log_event` or
`log_paper_trade`, `BybitClient` no `create_order`; so the strategy cannot trade there, and
what is checked is the strategy as written for its protocols. Also worth knowing: the ring of
five-minute bars holds 12, fewer than the 15 the ATR asks for, so `atr_5m` is 0 in production
(the instance keeps that relation); the hourly ratio is 1 until 28 bars are there; the "30% of
remaining" of the second take-profit is 60% of it (`0.3 / 0.5`); the entry's time limit
`ORDER_TTL_SECONDS` is used by nothing; the RED and BLACK tiers forbid entries and liquidate
nothing; BTC's one-minute return is used whatever its age. Partial fills are not modelled.

### MacroDca

Moments are kept as ages that stop growing where no test can tell, so the model is finite and
behaviours are of any length. A tick is the short poll of five minutes. `PollAnswered` is
`_check_vix` with `_build_event`, `_emit` and `trigger_event`; `PollFails` a source that
raises or is silent; `Tick`, `Fund`, `SetStatus`, `Restart` the rest. The VIX is a level:
below 22, to 25, to 30, above. `main.py` wires no Fed fetcher and nothing calls
`trigger_geopolitical`, so VIX spikes are the only events. The last print stays while its market is
closed, so the code reads it as sustained. No event is ever closed: a strategy takes two in
the life of a process; a restart forgets them and the detector's memory. `reset` is history: the index
was calm since the last event.

### FundingMonitor

A fetcher is at a symbol, waiting for its rate or (the loop only) for its ticker; what it does
with a sample is one action, because nothing suspends there. `Begin` is the loop's iteration,
the arb job or `/funding`; `FetchFails`, `FetchedOnce`, `FetchedInLoop`, `TickerOrNot` are
the answers, with a store or an alert that fails. `Once` is a set: the arb job and `/funding` may
run `fetch_once` at the same time, beside the loop. A tick is an hour. The alert look-up compares
`detected_utc` (with a `T`) and SQLite's `datetime` (with a blank) as text
(`funding_monitor.py:376-385`): the dates alone decide, so one alert silences its symbol for the
rest of the UTC day and a HIGH one hides a later EXTREME. The first sample of a settlement stays
(INSERT OR IGNORE).

### EarnLedger

`kept` is what Telegram has no acknowledgement for, `fetched` and `tasks` what this process
has been given and not yet handled. `Send`, `Poll`, `EarnAdd`, `EarnAddFails`, `Crash`, `NextDay` are the
actions; `ExpiringSoon`, `ExpiredUnredeemed`, `Current` and `Filled` are what
`/earn` and `/earn_plan` compute. `EarnAddFails` is an insertion that raises: a locked or full database,
or an amount of `nan`, which `float()` accepts, SQLite stores as NULL and the NOT NULL column refuses
(`Storable`); the handler dies, its update counts as handled and `failed` remembers it. Amounts below zero
are accepted and booked. Nothing deactivates a row or records interest. A
term of 0 or less is accepted and never expires; two targets of the plan share the key
USDT/flexible_savings and both claim its rows (`earn_manager.py:103-134`, 318); the reply of
`/earn_add` with a term leaves out its last line (`trading_commands.py:259-268`, a conditional that
takes in all the text before it).

## Runs

| Run | Configuration | Distinct states | Question |
|---|---|---|---|
| `kernel` | `MCRiskKernel.cfg` | 1.1 million | Do the books balance, are halts served, do grants respect the limits, and is the kernel a circuit breaker? |
| `arb` | `MCFundingArb.cfg` | 750,000 | Do failed writes, restarts, failed fetches and `/halt` at any await leave memory, ledger and kernel consistent, and is every paper arb closed in the end? |
| `orchestra` | `MCOrchestra.cfg` | 890,000 | Do the cap, the kill switch, the halts and the books of exposure survive every order of ticks, commands, events and restarts? |
| `trigger` | `MCTradeTrigger.cfg` | 340,000 | Does every event get one verdict, and does every cycle end, whatever fails? |
| `trigger_feeds` | `MCTriggerFeeds.cfg` | 330,000 | Is what a feed publishes stored, unless newer items crowd it out? |
| `replay` | `MCReplay.cfg` | 1.2 million | Is equity conserved, do both kernels agree, is the future kept out? |
| `lv1` | `MCLiquidityVortex.cfg` | 1.2 million | Do memory and exchange agree, is no position passed over for long, and is a loser let go? |
| `macro` | `MCMacroDca.cfg` | 1.4 million | Is an event sustained, paced, and acted on while its cause lasts? |
| `funding` | `MCFundingMonitor.cfg` | 10.1 million | Are alerts paced across fetchers, and settlements sampled? |
| `earn` | `MCEarnLedger.cfg` | 380,000 | Is a report booked once, and is a fixed term announced? |
| `kernel_total_drawdown`, `trigger_direct` | one each | | Does the code do what the quoted text says? It does not; see [below](#disagreements). |

Every module also defines its `TypeOK`; it has been checked under the same configurations and can be
listed among their invariants, as can `NoEarlyClose` of `FundingArb` (an action property) and
`AlertHasItsSample` of `FundingMonitor`. The runs list what could go wrong.

### kernel

`Accounting` ties the three equity figures together
through trades, reconciliations, torn saves and restarts. `HaltHonoured`: a kernel that is
not halted has served the last halt it announced. `GrantWithinLimits`: no grant before
that deadline, none at an equity of 0 or less, at most 1% of equity at the stop and a
quarter of equity in all. `DailyLimitStops`: no grant on a day that has lost 5%, unless
a hand intervened. This is the subtle one: resets and halts are on different clocks, and
it holds because a 24-hour halt always ends after the next midnight, and because a loss
booked late is judged against yesterday's sum as well. `StreakHalts`: three losses in a
row halt trading for a day at least although three earlier tests may return first.
`ImplementsBreaker` is the refinement.

Bounds. A day is two ticks and a week two days, so that nine values of the clock
(4 to 8) contain both resets at and away from midnight; three outcomes are a whole
streak, and enough to cross daily, weekly and total limits from a starting equity of 1000
with losses of 10, 46 and 1000 dollars (46 is just under 5%, 1000 leaves exactly 0). A
manual halt of three ticks ends off the midnight. The five requests take the branches of
the verdict: granted, cut by risk, cut by the position cap, too leveraged, malformed.

### arb

Both symbols, paper and live mode, two arbs, one failed write and one restart
at any point. `TrackedIsHedged`, `UnhedgedNeedsFault` and `ExposureBounded` relate memory to the ledger;
`OutcomesMatchCloses` relates the ledger to the kernel; `OneThroughPerHalt` bounds what
the gap between approval and fill lets through. Rate lists hold the excluded BTC, rates above, between and
below the thresholds, a missing symbol and nothing; the outcomes are a usual loss, one past the daily
limit, and one to an equity of exactly 0. A tick is half a day: an arb may be closed after two, is too old
after three, and may be opened in the first three, so that a symbol is opened again after its close or its loss
by a restart, a loss halts the kernel while the other symbol's opening is under way, and the run is long enough
for the last arb to grow old. One fault and one restart are enough for each
property to be about them; the properties count them, so that a second would show nothing
of a new kind.

`EveryArbCloses` is checked under `FairSpec`. What is fair, and why the code justifies it:

* weak fairness of the job's start: an interval job every 15 minutes (`scheduler.py:65-71`);
* weak fairness of every step between awaits: the event loop runs what is ready;
* weak fairness of *some* answer to a ticker call: it has a timeout;
* strong fairness of a complete list of rates and of tickers that arrive for a closing:
  an exchange that answers now and then, which is the environment's part of the bargain;
* strong fairness of the clock between cycles.

Without the strong conditions nothing could be said: a ticker call that fails for ever
keeps an arb open for ever. The property excuses a failed write, because one failed closing write
already keeps an arb CLOSING for good; and it speaks of paper mode, because a live arb stays
OPENING until somebody intervenes, as the code warns (`funding_arb.py:518-522`). A result that
leaves an equity of exactly 0 raises after the arb was marked CLOSED, which is then in memory for good, with
both its legs closed.

### orchestra

The symbol cap is 7% of 1000 dollars, below
what two fills take, so that partial allocation and a full cap occur within four ticks
(production has 20% and meets them later). Two symbols, four readings (calm, panic, a
fall that scales in, overbought with diverging CVD), two regimes, a balance 12% down, one
back at the peak and a reply without `totalEquity`, which reads as 0; one admissible and one uncorroborated event, one restart.

`SymbolCapHolds` and `ExposureCoversPositions` depend on `_resolve_conflicts` leaving at
most one decision that fills per symbol; `KillSwitchFinal` is an action property over
every command and recovery; `TickKeepsHalts` and `HoldersStayManaged` are about the
regime matrix against the operator.

### trigger

One feed that needs a second source, one market with two watched directions, two prices a
threshold apart, one item and one market on the same topic, so that corroboration may come from the
other job at any of its awaits; one fault (a database call or a crash) anywhere; three ticks,
enough for an observation to leave the window of one and for a second poll of each job.
`OneVerdictPerEvent` covers two directions that report the same shift, repeated polls and an
event whose first judgement was cut short. `UnjudgedNeedsFault` is the other half: what has no
verdict is in hand or was lost to a fault. `FiredIsCorroborated` is about signals written after
the awaits, from a store the other job has changed. `ShiftWasObserved` relates an event to the
pruned history: history is kept for one tick here, so that it is pruned within the run, and the
property asks for both observations for as long as the code keeps them. `CyclesEnd` is checked under
`FairSpec`: ready steps run, jobs start when due, the clock goes on, requests for odds and prices and to Telegram
time out. A feed's request has no timeout: it is answered, fails or hangs, and a feed that is asked again and
again answers sometimes. So the odds' cycles always end, and a feed cycle ends or hangs; nothing else
keeps a job from its next run. The run ends at its last tick, which is no deadlock of the program; the jobs go on
polling there.

### trigger_feeds

`PublishedIsStored`, with two items on one feed of which a poll looks at one, four ticks and two faults (an
insertion that raises, an aborted batch, a crash). Either the feed job hangs for good, or each item published
is stored or has been crowded out: as many items as a poll looks at were published since. A failed poll or
a crash between two insertions costs nothing. The classes and prices of the `trigger` run are not needed for
the question and are cut down to one each.

### replay

Sixteen bars with a gap: two windows that are replayed and a third that has too few bars. Four
bar shapes (flat, a fall, a low open, one that touches stop and target), the signals of a
strategy that may answer anything, the two packaged strategies, and lists of plain actions
with ladders, shorts, scale-ins, over-large reductions and closes. A day, a week and an hour are
two, four and two ticks. With 2000 dollars, sizes of 200 to 500 and falls of a fifth, the daily
limit and the losing streak are met; a window of four bars is too short for the weekly and the total
limit, so `KernelsAgree` also asks both kernels to judge the books as they would be with a worse
week or a higher peak behind them. It holds as long as the account never ran out of equity:
at 0 production's kernel raises where the other halts, and from there they differ. The replay stops after its
report, which is why deadlock is not checked.

The clock shared by adapter and kernel is built at tick 8. The first window replayed tests from 7 to 11, the
second from 11 to 15: one begins before the clock's first midnight and passes it, as windows of 2026 would with
the packaged default, the other lies after it. `DailyLossSinceMidnight` says what the daily limit is held against
in both: until that midnight everything the window has lost, afterwards the loss of the bars' own day.

### lv1

One symbol; a clock step is 15 seconds, so that the cycle of 30 s, the poll of 60 s and the
freshness limit of 30 s keep their ratio, and a request takes none or one (its timeout is 10 s); the age limit and
the cooldown are shortened to two and three steps. Four feeds (book, two candle streams, funding) stand for the
seven the reader requires; the funding rate has one value. One entry per run, and one fault in all: an outage of a
feed, a rejected or lost order, or a restart. `TrackedIsHeld` lists the causes that may part memory and exchange,
so it says that nothing else does: not a rejected take-profit, nor a rejected entry, nor anything that
happens while an order is awaited. `NeverSkippedThrice` is about the half minute and more in which
funding is too old: a healthy feed lets two cycles running pass a position over, never three; the run has the code's
intervals, and `PassedOverTwice` says for which others it holds. `LosersLeave` needs `FairSpec`: cycles start,
ready steps run, orders are answered, a feed that is asked answers unless it is one of the bounded outages.

### macro

The constants are those of the code (polls of 6 ticks and 1, a sustain of 6, a day of 288), with one
restart. Nothing bounds the length of a behaviour. Fairness: the loop sleeps and polls, the
orchestra's job runs, and a source that is asked for ever does not fail for ever.
`PersistentSpikeIsActedOn` shows that the deafness to refusals costs delay, not the event,
while the spike lasts: a spike that stays, before a strategy that stays in PAPER, ends with the strategy holding an
event. That it does so by a second event without a reset in between is one of the [disagreements](#disagreements); `FiredOnceAndSustained` states what "sustained" means in the code: two
readings above the trigger level, half an hour and no calm reading between them.

### funding

Two symbols, a tick of an hour, a day of two and settlements three apart, so that midnight and
settlements fall at different ticks (2 and 3), both within the run; the loop and two callers of
`fetch_once`, which are interchangeable and the run's one symmetry; one failing request or write and one restart. The
loop runs every hour at least and a sweep lies in one hour or two (`Tick` says so): a sweep of a few requests of
15 s. `AlertsPaced` holds for several fetchers at once because nothing suspends between look-up and insert, and
across midnight because the hour is subtracted before the dates are compared.

### earn

Two reports of six kinds (a term that ends within the run, one of 0 days, none, a negative amount, `nan`, a product the
command does not know), four days, two crashes, failing insertions.
`ReportedIsBookedOnce` says what a crash may cost a report it met (lost, or booked once more per crash), that a
failed insertion leaves nothing behind, and that nothing else loses or repeats a report. `TermsAnnounced`: on each of
its last days, that of its maturity included, a fixed term is in the list of maturities, and from then on in that of
expired positions, never in both or neither. The run ends when the days and
reports are used up, so deadlock is not checked.

### Common to the runs

Each `.cfg` gives constants their values and nothing else. None uses
constraints, and only `funding`, which checks no liveness, uses symmetry; the bounds are in the guards and named in
the modules (`MaxTime`, `MaxOutcomes`, `MaxArbs`, `LastOffer`, `MaxFaults`, `MaxOutages`, `MaxEntries`,
`MaxRestarts`, `MaxOrders`, `MaxDay`, `MaxCrashes`). `MaxItems` and `MaxLatency` are none: the first is a limit of
the code, made small, the second the timeout of a request.

## Proofs

Every invariant and every action property the passing runs check has a theorem, for every value of the
constants; so has the refinement of `CircuitBreaker`. What the theorems add to the runs is each time
the same: any number of symbols, positions, events or reports instead of one or two, behaviours of any
length, any number of faults and restarts, and all the amounts, prices and intervals rather than
the chosen ones. The properties that count faults (`UnhedgedNeedsFault`, `ExposureBounded`,
`ReportedIsBookedOnce`) are proved to count them right, which the runs show for one or two.

The constants have assumptions, named, in the modules that declare them, and each run evaluates
them. They state what the configuration of the program guarantees (intervals are positive, prices are
not 0, a feed is not a market); no theorem depends on a bound of the runs. Three theorems
need more, and say so in their statement: `GapsNeedFaults`, `NeverLooksAhead` and `PassedOverTwice`, below.

### RiskKernel

`RiskKernelProofs` proves, for every starting equity, set of outcomes, balances,
requests, halt lengths and calendar:

| Theorem | Statement |
|---|---|
| `TypeCorrect` | `Spec => []TypeOK` |
| `BooksBalance` | `Spec => []Accounting` |
| `HaltsAreServed` | `Spec => []HaltHonoured` |
| `GrantsAreLimited` | `Spec => []GrantWithinLimits` |
| `DailyLimitHolds` | `Spec => []DailyLimitStops` |
| `StreaksHalt` | `Spec => StreakHalts` |
| `KernelIsBreaker` | `Spec => ImplementsBreaker` (`CircuitBreaker`) |

Assumptions, all on constants: `MoneyAssumption` (a positive starting equity, integer
outcomes), `TimeAssumption` (a day and a week of at least one tick, an indefinite halt no
shorter than a day, a first tick after 0) and `RequestAssumption` (requests have the
fields of the dataclass, with a leverage that is not negative). Nothing is assumed of
`MaxTime` and `MaxOutcomes` beyond being natural numbers, so the theorems do not
depend on the bounds of the run.

The argument. None of the invariants is inductive. A restart replaces the kernel in memory
by the one in the file, which may be older: `approve_trade` resets periods and lifts expired
halts without saving. So what is proved of memory must hold of the file too, at the present
time and for the present promise. `Good(k, t, p, hand)` says it of any kernel object `k`:

* `Sound(k)`: the books balance, and the halt's flag, reason and deadline agree;
* `Serves(k, t, p)`: a halt in force is the one last announced; without one, its deadline
  has passed;
* `DayCovered(k, t, hand)`: a daily breach is answered by a halt that outlasts the day it
  was made in, or its day is already over.

The inductive invariant is `IInv == TypeOK /\ KernelInv /\ FileInv /\ GrantWithinLimits
/\ DailyLimitStops`, where `KernelInv` is `Good` of memory and `FileInv` is `Good` of a
readable file, with the agreement of the two on the reason of a halt when both are shut
(the refinement needs it: a restart must not turn a manual halt into an automatic one).
The lemmas on operators (`ResetPeriods`, `Checking`, `Evaluating`, `Booking`, `Sizing`,
`Refreshing`, …) carry the arithmetic; one lemma per action shows that it keeps `IInv`, and
one per action that it maps to a step or a stutter of `CircuitBreaker`. The day's argument is
in `Refreshing`: at the moment of an approval either the day has rolled over and its loss is
erased, or the halt called for that loss has not ended.

### Orchestra

`OrchestraProofs` proves, for every universe, capital, cap, reading, regime and event:

| Theorem | Statement |
|---|---|
| `OrchestraTypes` | `Spec => []TypeOK` |
| `SwitchIsFinal` | `Spec => KillSwitchFinal` |
| `HaltsOutlastTicks` | `Spec => TickKeepsHalts` |
| `HoldersManaged` | `Spec => []HoldersStayManaged` |
| `CapsHold` | `Spec => []SymbolCapHolds` |
| `ExposureCovers` | `Spec => []ExposureCoversPositions` |

Two inductive invariants. `Managed` is `HoldersStayManaged` with the types of the statuses, the
flags and the restart counter. That a tick keeps it needs three lemmas: the matrix disables only
what holds nothing (`MatrixSpares`), a signal carries the name of the strategy that gave it
(`SignalsAreSigned`), and therefore a strategy that does not run books no fill in the same
tick (`IdleBuysNothing`).

`Booked` is the cap and the cover together, with the types of exposures and positions. Neither is
inductive alone: what a position may grow to follows from the exposure it is covered by. Every
decision of a tick is cleared against the exposure *before* the tick (`_apply_orchestra_caps`),
so two that fill on one symbol would pass the cap together. `OneFill` is the heart: what
`_resolve_conflicts` leaves for a symbol contains one decision at most that the executor fills, for
any readings and strategies; `FillFits` and `BookedFill` carry the sizes.

### FundingArb

`FundingArbProofs` proves, for every calendar, every list of rates and outcomes, any number
of arbs, failed writes and restarts, at every await:

| Theorem | Statement |
|---|---|
| `ArbInvariant` | `Spec => []ArbInv` |
| `HedgedAlways` | `Spec => []TrackedIsHedged` |
| `NakedLegsNeedFaults` | `Spec => []UnhedgedNeedsFault` |
| `HaltLetsOneThrough` | `Spec => []OneThroughPerHalt` |
| `ClosesAreBooked` | `Spec => []OutcomesMatchCloses` |
| `ExposureAlwaysBounded` | `Spec => []ExposureBounded` |
| `NeverClosedEarly` | `Spec => NoEarlyClose` |
| `ArbTypes` | `Spec => []TypeOK` |
| `DrivesKernel` | `Spec => Kernel!Spec` |
| `KernelIsProved` | `Spec => Proved!Spec`, where `Proved` is `RiskKernelProofs` of this module's kernel |
| `KernelKeepsItsWord` | `Spec => [](Kernel!Accounting /\ Kernel!HaltHonoured /\ ...)` |
| `StreaksHaltArbs` | `Spec => Kernel!StreakHalts` |
| `ArbSeesBreaker` | `Spec => Proved!ImplementsBreaker` |

The properties speak of the moments at which the job waits; `ArbInv` says what is true at every
step in between. `Rows`: an arb in memory has a row of its own symbol with the legs its state
promises. `Opening` and `Closing`: for each program point of `open_arb` and `close_arb`, which legs
the row of the current deal has. `HalvesOwed`, `Booking` and `Exposure` are the counting
properties with the one exception the current step is allowed. The counts are of rows of a
table that grows, so each action is shown to add or change one row (`RowSets` and the lemmas
after it). `DrivesKernel` shows that the job, the handlers and the clock reach the kernel only by its
own operations. What `RiskKernelProofs` shows of the kernel's specification therefore holds here, and
the four theorems after it make that a proof instead of a remark: `RiskKernelProofs` is
instantiated as `Proved`, its actions are shown to be those of `Kernel` (`SameQueries`, `SameReports`,
`SameCommands`, `SameLife`), and its theorems are cited for this module's variables.
Assumed: what `RiskKernel` assumes, that the rates are numbers in lists, and that `open_arb`'s request is
one the kernel takes.

### FundingMonitor

| Theorem | Statement |
|---|---|
| `AlertsAlwaysPaced` | `Spec => []AlertsPaced` |
| `AlertsStandOnSamples` | `Spec => []AlertHasItsSample` |
| `GapsNeedFaults` | `MaxRestarts + 2 <= Settlement` implies `Spec => []NoGapWithoutFault` |
| `MonitorTypes` | `Spec => []TypeOK` |

`AlertsAlwaysPaced` rests on one fact of the calendar: an alert the look-up does not see has a date
before the date an hour ago, so it is more than an hour old (`UnseenIsOld`).

The restarts in `GapsNeedFaults` are not a weakness of the proof: a restart costs the sweep under
way, and a process that restarts in each tick of a settlement samples nothing. The hypothesis is
tight: with a settlement of two ticks one restart is too many. With eight hours to a
settlement it allows six restarts. `Sweeping` strengthens
the property by `Progress`: while a symbol has no sample of the present settlement, each tick of it
that is over was lost to a restart, and the sweep under way has covered the symbols it has passed.

### TradeTrigger

`TradeTriggerProofs` proves, for every set of feeds, items, markets and scores, every window and
interval, and any number of crashes, failed database calls and feeds that hang:

| Theorem | Statement |
|---|---|
| `JudgingInvariant` | `Spec => []Judging` |
| `OneVerdict` | `Spec => []OneVerdictPerEvent` |
| `Corroboration` | `Spec => []FiredIsCorroborated` |
| `UnjudgedByFaultOnly` | `Spec => []UnjudgedNeedsFault` |
| `ShiftsAreReal` | `Spec => []ShiftWasObserved` |
| `FeedsAreNeverJudged` | no feed item is ever classified, and no signal is about one |
| `AlertedOnce` | a signal about to be sent is stored and unsent; every button has its row |

`Judging` says what a job holds while it is parked: the event whose prices it waits for is stored and
classified, has no verdict, and was corroborated when the gate looked (`CheckedIsOpen`); without a
fault, every other stored odds event has its verdict (`JudgedOrChecked`). It has to be about both
jobs, because either may store an event while the other waits, and about the tables: a signal and
a refusal exclude each other (`VerdictsUnique`). `FeedsAreNeverJudged` is the
consequence of the [disagreement](#disagreements) about direct sources: the invariant needs the
watcher's insertion before the pipeline's, and says that the second always fails. `AlertedOnce`
adds to it what is sent: with `OneVerdict`, an event is alerted about once at most. Assumed:
history is kept at least as long as the window of a shift (`ClockAssumption`), feeds and markets
are listed once, and no feed is the odds' domain (`SourceAssumption`).

### Replay

`ReplayProofs` proves, for every history with gaps, bars, strategies, lists of actions, ladders
and configurations of the harness:

| Theorem | Statement |
|---|---|
| `TradingHolds` | `Spec => []Trading` |
| `TypeCorrect` | `Spec => []TypeOK` |
| `EquityAlwaysExplained` | `Spec => []EquityExplained` |
| `StopsAlwaysHonoured` | `Spec => []StopsHonoured` |
| `KernelsAlwaysAgree` | `Spec => []KernelsAgree` |
| `EntriesNeedActiveKernel` | `Spec => []EntryNeedsActiveKernel` |
| `TierAlwaysPosition` | `Spec => []TierIsPosition` |
| `DailyLossAlwaysExplained` | `Spec => []DailyLossSinceMidnight` |
| `NeverLooksAhead` | `Step >= TestSpan` implies `Spec => []NoLookAhead` |

A step of this module is a whole bar: any number of pending actions, then of positions with their
stops and ladders, each calling back into adapter and kernel. So the proof is in three layers. First,
what a loop does: the recursive functions satisfy their equations (`ActionsInTurn`,
`TargetsInTurn`, `ExitsInTurn`, `ClosesInTurn`, `PassedInTurn`), and so do sums over lists when an
element is changed, removed or added. Induction is by the least number principle (`UpTo`), which
is first-order; the library's induction rules are not used. Second, what each call does to
`Sound(s, o, m, d)`, a predicate on the simulation's record: typed, ids distinct and not
reused, the kernels equal while there was equity, the ledger balanced; `o`, `m` and `d` stand for
what the engine must leave alone (by how much the kernel's daily PnL differs from the day's and from the
window's, the next midnight, the day). Third, the actions: `Trading == Typed /\ Reading /\ Balanced /\ OneAtATime`, where `Balanced`
is `Sound` of the simulation, and `OneAtATime` is what `TierIsPosition` needs of the queue: a packaged
strategy has one action waiting at most, and an opening only without a position.

`StopsHonoured` is proved of a walk over a copy of the list: exiting a position leaves the others as they
were (`OthersKept`), so the stop of each is still looked at, and one that survives its own turn is
never touched again. `KernelsAgree` needs `low`: with the present equity alone the statement is not
inductive, because a kernel that had run out of equity may have some again while its twin went
another way.

`DailyLossAlwaysExplained` supposes nothing of the clock. `DayBooks` ties the first of those offsets to
the day: up to the day the clock was built on, the kernel's next midnight is the end of that day and its daily PnL is
its total; from the next day on the midnight is that of the bars' day and the daily PnL is that day's (`Timely`). With
a clock no later than the bars the limit is therefore always a daily one; with the default clock of
2026 (`scripts/walk_forward_verdict.py:136-138`) and bars of 2024 and 2025 it bears on each window's whole loss, which
`MCReplayClock` shows. The hypothesis of `NeverLooksAhead` is met by
the script (`scripts/walk_forward_verdict.py:265`, seven days each); with a step shorter than the
test span windows share bars by construction.
Assumed besides: prices are positive, stamps are after 0, and signals and actions have the
fields of their dataclasses (`WalkAssumption`, `MarketAssumption`).

### LiquidityVortex

`LiquidityVortexProofs` proves, for every list of symbols, book, feed, interval and limit, and any
number of outages and faults:

| Theorem | Statement |
|---|---|
| `TradingInvariant` | `Spec => []Trading` |
| `MemoryMatchesExchange` | `Spec => []TrackedIsHeld` |
| `StopsNeverBackUp` | `Spec => StopNeverBacksUp` |
| `PaperSendsNoOrder` | in paper mode the exchange stays empty |
| `VortexTypes` | `Spec => []TypeOK` |
| `PassedOverTwice` | `Spec => []NeverSkippedThrice`, under the hypotheses below |

`Trading` says for each phase of the cycle what the order it waits for is about (`CycleOK`) and, for
each symbol without a cause that excuses it, that the exchange has the tracked quantity either
resting or held, never divided (`InStep`); a position that memory does not track and no entry plans has
nothing there. `StopsNeverBackUp` needs that a stop before the first take-profit is behind the
entry price (`StopsBehind`): break-even can then only move it forward. Assumed: a new position is of a
multiple of ten units, so that halves and tenths of it are whole; a symbol without a position is no position
(`FlatAssumption`).

`PassedOverTwice` supposes of the staleness limit `S` (`StaleAfter`), the cycle `C` (`CycleEvery`) and the period of a
poll, which is its interval and its longest request: `C <= S`; at most one poll is slow, that is has a period
above `S`, and its period is `S + 2C` at most; symbols are listed once; and either trading is on
paper or there is a single symbol. In production `S` and `C` are 30 s. Funding has a period of 60 s and a
timeout of 10 s, within the 90 s, and is the only slow poll; the spot price has 10 s and 10 s. The argument: a
pass that skips a symbol found the slow value older than `S`, so its successor is due within the period less `S`,
which is two cycles at most. `OnTime` says this for every state with no outage so far: feeds keep to their
polls (`FeedsKept`), a symbol with a position has had an answer from each (`KnownAreComplete`), a
cycle that waits for no order ends in the instant it began (`AtOnce`), and a symbol that was passed over once or
twice has its slow value placed so that the third pass finds it fresh (`SkippedTwice`: by `Apart` it was answered
since, or will be in what is left of the period).

A request that takes no time would give the stronger bound of one pass; with the request's time the checker finds a position
passed over twice. The hypothesis on symbols is there because live the orders that one symbol waits for put the
passes over the other further apart than `C`. Production trades ETH and SOL, on paper by default; switched
to live it leaves the theorem.

### EarnLedger

`EarnMacroProofs` proves, for any messages, orders, days, crashes and failed insertions:

| Theorem | Statement |
|---|---|
| `EarnTypes` | `Spec => []TypeOK` |
| `BookedOnce` | `Spec => []ReportedIsBookedOnce` |
| `TermsAlwaysAnnounced` | `Spec => []TermsAnnounced` |

and the inductive invariants `BookkeepingInvariant` and `BookHoldsAccepted`. `Bookkeeping` counts, for
each message, its rows together with the deliveries that are still to come (Telegram keeps it and
this process was not given it) or under way: a crash that met a message may add one, a failed insertion takes one
away, a poll and a handler only move one from one account to the next. `Kept` says of every row that it is of an
accepted message, as sent, and of no later day.

`TermsAlwaysAnnounced` is arithmetic on each row, for any length of the warning: a row was subscribed no later than
today, so the days it has left put it in one of the two lists or before both.

### MacroDca

| Theorem | Statement |
|---|---|
| `DetectorRemembers` | `Macro!Spec => []Watching` |
| `FiresOnce` | `Macro!Spec => FiredOnceAndSustained` |

For every poll interval, sustain and day. `FiredOnceAndSustained` is about a step and the history before it;
`Watching` ties what the detector keeps to that history (`Remembered`): while `since` is set there was a
reading above the trigger level with no calm one after it, and the last calm reading is at least as old as
`since`; and the last event this process handed out is the one the detector remembers. A restart forgets both, in the
code as in the history: what is proved is proved of one process. From `Watching` each firing follows by arithmetic on
ages, and no firing of the same process can follow another within a day.

### What stays with the model checker

* `EveryArbCloses`, `PublishedIsStored`, `CyclesEnd`, `LosersLeave`, `PersistentSpikeIsActedOn`: liveness
  under fairness is outside the proof system's reach.
* That a clock built before the bars keeps the daily limit daily (`DailyLossIsTodays`) follows from
  `DailyLossAlwaysExplained` and is not stated as a theorem of its own.
* The type invariant of `TradeTrigger`: the length of a list filtered with `SelectSeq` is a fact by
  induction. `Judging` has the types the other theorems rest on.
* The disagreements: they are counterexamples.

## Disagreements

Places where the code does not do what its own text says. The first two are runs; the others are
further configurations beside them, each of which ends in the counterexample described when
the checker is started on it with the module named.

| Configuration (module) | Property | The text | The code |
|---|---|---|---|
| `MCKernelTotalDrawdown` (`MCRiskKernel`) | `TotalDrawdownStops` | `risk_kernel.py:48` "total drawdown halts pending review", 499 "Indef. — manual review" | the daily limit is tested first and returns: a fall past 15% gets 24 hours, after which trading goes on unreviewed |
| `MCTriggerDirect` (`MCTradeTrigger`) | `DirectSourceReachesGate` | `trade_trigger/sources/government.py:12-13` "a single event from these passes the gate without needing a second source" (also `trade_trigger/README.md:58`) | the watcher's `poll_once` inserts the event (`rss_base.py:77`), `process_event` inserts it again, calls it a duplicate and stops: no event of a feed is ever classified. `state.gov` is, besides, not in the list of direct sources |
| `MCMacroRefire` (`MCMacroDca`) | `RefireNeedsReset` | `macro_events.py:42` of the reset level "must drop below this before new VIX trigger" | below it only the start of the spike is forgotten (167-169); before a new event 24 hours since the last are tested (152-155), so a spike that never ends is handed out again after a day |
| `MCEarnPlan` (`MCEarnLedger`) | `FilledPlanIsFunded` | `trading_commands.py:9` "gap analysis vs target $25K allocation", `earn_manager.py:305` "Compare current Earn allocation vs target. Returns prioritized gaps" | two targets have the key USDT/flexible_savings (104-113) and `gap_analysis` gives each all that is booked under it (312-320): a book of $24,500 ticks every target of the $25,000 |
| `MCKernelAllowed` (`MCRiskKernel`) | `AllowedMeansActive` | `risk_kernel.py:364` "Returns True if RiskKernel allows new trades" | it returns True exactly while a halt is in force; Liquidity Vortex relies on it |
| `MCArbOrphans` (`MCFundingArb`) | `MemoryMatchesLedger` | `funding_arb.py:274` "In-memory tracking of open arbs (also persisted via ledger positions)" | nothing reads them back; a restart orphans an open hedge |
| `MCArbThreshold` (`MCFundingArb`) | `ThresholdOpens` | `docs/DECISION_LOG.md:107` open at 0.040% (ETH), 0.050% (SOL) | the economic test refuses everything below 0.0834% and 0.11% |
| `MCOrchestraPanic` (`MCOrchestra`) | `AtMostTwoPositions` | `mean_reversion.py:105` "2 of 3 majors max simultaneously" | the gate is asked for all symbols before any fill is booked: three |
| `MCOrchestraExit` (`MCOrchestra`) | `ForcedExit` | `mean_reversion.py:57` "force exit after 48h regardless" | exit signals carry no price (`scheduler.py:501-504`) and the executor drops them |
| `MCReplayClock` (`MCReplay`) | `DailyLossIsTodays` | `backtest_risk_kernel.py:150-159` "Behavioral equivalence", `maybe_reset_periods` "replay engine calls each bar after clock.set()" | `scripts/walk_forward_verdict.py:136-138` builds the adapter without a clock, whose default starts at 2026-01-01: the anchors lie after every bar of 2024 and 2025, no period is ever reset, and the daily limit is held against the whole window's loss |
| `MCVortexStop` (`MCLiquidityVortex`) | `StopIsKept` | `liquidity_vortex.py:703` "every-tick management: TP partials, trailing stop, emergency exits", 786 "ATR-based trailing stop" | `current_stop` is assigned (738) and never compared with a price or sent: a position past its stop is kept until the age limit or an emergency |

Two more that need no run. `timeout_seconds: float = 10.0` of a feed (`rss_base.py:39`) is read by nothing; what
follows from it is `FeedHangs`. `dca_dips.py:22` has a "7-day cooldown between events" and 348 "Same event type fired
within last 7 days", but the seven days are counted from the last *close* of an event, and nothing closes one: two events a day
apart are taken.

Hazards of the code that no property covers, for the same reason each: one guard or one missing
call decides them, and there is nothing a run would add.

* A live arb is registered OPENING and nothing makes it OPEN (`funding_arb.py:475`), so it is never
  closed by the strategy; the code warns of it.
* The leg of $200 must fit in 20% of equity (`funding_arb.py:344`): with $1000, any net loss
  stops openings for good.
* A stop order that fails is logged and its position kept without one (`liquidity_vortex.py:686`).
* A production start passes no state file (`main.py:106`): a restart forgets a halt.

## Not modelled

* Formatting, logging, reports and the digest: they read state and write text.
* Exchange requests and their parsing: what the callers meet (an answer, a partial answer,
  a failure) is in their models.
* Indicators, order-book and CVD arithmetic, keyword scores and the prompt of the language
  model: numerics and text; the models choose their results from small sets. The CVD
  strategy's persistence is the age of its oldest sample (`cvd_divergence.py:225-245`), and no
  job supplies a sample.
* `compute_kelly_size` and the quality metrics of the risk kernel: no decision uses them.
* The `COOLDOWN` status is kept, but no code in production sets it.
* The Fed and geopolitical paths of the macro detector, the live methods of the earn manager,
  `record_funding`, `record_interest` and `snapshot_equity` of the ledger: no caller in `bot/`.
  The paper PnL report counts fills nothing writes in paper mode
  (`trading_commands.py:399-413`, `pnl_ledger.py:444-457`).
* The equity curve of the replay engine and its metrics: telemetry. Its last point lacks the
  costs of the forced close.
* `bot/backtester`: an older version of `bot/backtest`.
* `_funding_arb_patch.py` and `scripts/`: a patch already applied, offline analysis.

## Plan

The modules above are done, and so are the theorems about every safety property of their runs. What is
left is to compose the other callers of the kernel with its proofs the way `FundingArbProofs` does. The replay
is the hard one: a bar calls the kernel any number of times, so one of its steps is several of
`RiskKernel`'s, and the two kernels' agreement (`KernelsAgree`) is an invariant of the replay instead of a
refinement.
