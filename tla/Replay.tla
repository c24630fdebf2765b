------------------------------- MODULE Replay -------------------------------
(***************************************************************************)
(* bot/backtest: the walk-forward harness, the replay engine it runs on    *)
(* every window, the adapter that puts a strategy between engine and risk   *)
(* kernel, and that kernel.  A bar is a shape and the tick it closes at;    *)
(* prices are whole dollars, a quantity is a number of units, a position's  *)
(* average entry price is kept as the cost of what is still open.  Slippage *)
(* and commission are per unit.                                             *)
(*                                                                         *)
(* One object, `sim`, stands for what a window's engine and adapter hold,   *)
(* because the engine's callbacks reach into the adapter in the middle of   *)
(* its own work.                                                            *)
(***************************************************************************)
EXTENDS BacktestKernel, Providers, Sequences, SequencesExt

CONSTANTS
  Stamps,      \* the closing times of the bars of the history
  TrainSpan, TestSpan, Step, MinBars,   \* WalkForwardConfig, in ticks
  ClockStart,  \* BacktestClock's initial time: 2026-01-01 when none is given
  Shapes,      \* what a bar may look like: open, high, low, close
  Slip, Fee,   \* slippage and commission, in dollars a unit
  Kinds,       \* the adapters: "plain", "signals", "mean_reversion", "dca_dips"
  Signals,     \* what a production strategy may answer
  PlainLists   \* lists of actions an adapter without kernel may return

ASSUME WalkAssumption ==
  /\ Stamps \subseteq Nat \ {0} /\ Stamps # {} /\ IsFiniteSet(Stamps)
  /\ TrainSpan \in Nat \ {0} /\ TestSpan \in Nat \ {0} /\ Step \in Nat \ {0}
  /\ MinBars \in Nat \ {0} /\ ClockStart \in Nat
  /\ Slip \in Nat /\ Fee \in Nat

Sides == {"LONG", "SHORT"}
Prices == Nat \ {0}
Bars == [stamp : Nat, open : Prices, high : Prices, low : Prices, close : Prices]
Levels == [price : Nat, half : BOOLEAN]
Actions == [what : {"open", "scale", "reduce", "close"}, id : Nat, side : Sides,
            qty : Int, stop : Nat, targets : Seq(Levels)]
Types == {"enter_long", "enter_short", "scale_in", "reduce", "exit", "hold"}

ASSUME MarketAssumption ==
  /\ Shapes \subseteq Bars
  /\ Kinds \subseteq {"plain", "signals", "mean_reversion", "dca_dips"}
  /\ Signals \subseteq [type : Types, usd : Nat]
  /\ PlainLists \subseteq Seq(Actions)

VARIABLES
  kind,      \* the adapter the harness was given
  window,    \* the window being worked on
  phase,     \* "idle", "replay", "evaluate", "report"
  bar,       \* the bar last read
  clock,     \* the clock adapter and kernel share
  sim,       \* engine, adapter and kernel of the window
  pending,   \* _pending_actions
  opens,     \* SessionTracker: the open of the day of the last bar, and that day
  seen,      \* history: the bars behind the last snapshot's regime and indicators
  results    \* how every window worked on so far ended

vars == <<kind, window, phase, bar, clock, sim, pending, opens, seen, results>>

Production == kind # "plain"

-----------------------------------------------------------------------------
(* Windows (walk_forward.py).                                              *)

FirstBar == CHOOSE s \in Stamps : \A r \in Stamps : s <= r
LastBar  == CHOOSE s \in Stamps : \A r \in Stamps : s >= r

TestStart(n) == FirstBar + n * Step + TrainSpan
TestEnd(n)   == TestStart(n) + TestSpan

\* _build_window_specs stops at the first window that ends after the last bar.
Planned(n) == TestEnd(n) <= LastBar

Slice(a, b) == {s \in Stamps : a <= s /\ s < b}

TestBars  == Slice(TestStart(window), TestEnd(window))
TrainBars == Slice(TestStart(window) - TrainSpan, TestStart(window))

\* Both providers are built from the training and the test bars.
History == TrainBars \cup TestBars

Remaining == {s \in TestBars : s > bar.stamp}

-----------------------------------------------------------------------------
(* Positions (models.py).                                                  *)

PositionState ==
  [id : Nat \ {0}, side : Sides, size : Nat \ {0}, cost : Int, entered : Nat,
   fills : Nat \ {0}, realized : Int, stop : Nat, targets : Seq(Levels),
   done : SUBSET Nat]

NewPosition(id, side, qty, price, stop, targets) ==
  [id |-> id, side |-> side, size |-> qty, cost |-> qty * price, entered |-> qty,
   fills |-> 1, realized |-> 0, stop |-> stop, targets |-> targets, done |-> {}]

AddFill(p, qty, price) ==
  [p EXCEPT !.size = @ + qty, !.cost = @ + qty * price, !.entered = @ + qty,
            !.fills = @ + 1]

CostOf(p, qty) == (p.cost * qty) \div p.size

\* apply_reduction's return value: the profit on qty units after commission.
Profit(p, qty, price) ==
  (IF p.side = "LONG" THEN qty * price - CostOf(p, qty)
                      ELSE CostOf(p, qty) - qty * price) - qty * Fee

ApplyReduction(p, qty, price) ==
  [p EXCEPT !.size = @ - qty, !.cost = @ - CostOf(p, qty),
            !.realized = @ + Profit(p, qty, price)]

EntryPrice(price, side) == IF side = "LONG" THEN price + Slip ELSE price - Slip
ExitPrice(price, side)  == IF side = "LONG" THEN price - Slip ELSE price + Slip

-----------------------------------------------------------------------------
(* The adapter's callbacks, on a simulation s.                             *)

Prod == INSTANCE RiskKernel WITH
  StartEquity <- Capital, Pnls <- {}, Balances <- {}, HaltTicks <- {},
  Requests <- {}, Persistence <- {}, Epoch <- 1, MaxTime <- 0, MaxOutcomes <- 0,
  now <- clock, kernel <- sim.twin, persistent <- FALSE, file <- sim.twin,
  reply <- Fee, promise <- Fee, touched <- FALSE, outcomes <- Fee

\* What production's kernel makes of the same outcome: it divides by the equity,
\* and the exception it raises at an equity of 0 is swallowed by the adapter.
TwinRecord(k, pnl, t) ==
  LET booked == Prod!Booked(k, pnl)
  IN  IF booked.current = 0 THEN booked ELSE Prod!EvaluateKillswitches(booked, t)

\* on_fill: the strategy's tier is the number of fills the position has had.
OnFill(s, p) == IF Production THEN [s EXCEPT !.tier = p.fills] ELSE s

\* on_position_closed: the strategy forgets its tier, the kernel books the trade,
\* at whatever time the shared clock still shows.
OnPositionClosed(s, p) ==
  IF Production
  THEN LET k == Record(s.kernel, p.realized, clock)
       IN  [s EXCEPT !.tier = 0, !.kernel = k, !.low = Smaller(@, k.current),
                     !.twin = TwinRecord(@, p.realized, clock),
                     !.today = @ + p.realized]
  ELSE s

-----------------------------------------------------------------------------
(* The engine (replay_engine_v2.py), on a simulation s.                    *)

NewSim(t) ==
  [equity |-> Capital, positions |-> <<>>, trades |-> <<>>, tier |-> 0,
   kernel |-> NewKernel(t), twin |-> Prod!Fresh(t), low |-> Capital,
   cash |-> 0, fees |-> 0, today |-> 0, day |-> t \div Day]

NextId(s) == Len(s.positions) + Len(s.trades) + 1

Has(s, id) == \E i \in DOMAIN s.positions : s.positions[i].id = id
Place(s, id) == CHOOSE i \in DOMAIN s.positions : s.positions[i].id = id
Find(s, id) == s.positions[Place(s, id)]

Replaced(s, p) ==
  [i \in DOMAIN s.positions |-> IF s.positions[i].id = p.id THEN p ELSE s.positions[i]]

Open(s, a, b) ==
  LET price == EntryPrice(b.open, a.side)
      p == NewPosition(NextId(s), a.side, a.qty, price, a.stop, a.targets)
  IN  IF a.qty <= 0 THEN s
      ELSE OnFill([s EXCEPT !.equity = @ - Fee * a.qty, !.positions = Append(@, p),
                            !.fees = @ + Fee * a.qty,
                            !.cash = @ + (IF a.side = "LONG" THEN 0 - p.cost
                                                             ELSE p.cost)], p)

\* A plausible bug: a scale-in pays no commission.
ScaleInFree(s, a, b) ==
  LET p == Find(s, a.id)
      price == EntryPrice(b.open, p.side)
      q == AddFill(p, a.qty, price)
  IN  IF ~Has(s, a.id) \/ a.qty <= 0 THEN s
      ELSE OnFill([s EXCEPT !.positions = Replaced(s, q),
                            !.cash = @ + (IF p.side = "LONG" THEN 0 - a.qty * price
                                                             ELSE a.qty * price)], q)

ScaleIn(s, a, b) ==
  LET p == Find(s, a.id)
      price == EntryPrice(b.open, p.side)
      q == AddFill(p, a.qty, price)
  IN  IF ~Has(s, a.id) \/ a.qty <= 0 THEN s
      ELSE OnFill([s EXCEPT !.equity = @ - Fee * a.qty, !.positions = Replaced(s, q),
                            !.fees = @ + Fee * a.qty,
                            !.cash = @ + (IF p.side = "LONG" THEN 0 - a.qty * price
                                                             ELSE a.qty * price)], q)

FinalizeClose(s, p, why) ==
  OnPositionClosed(
    [s EXCEPT !.positions = RemoveAt(@, Place(s, p.id)),
              !.trades = Append(@, [realized |-> p.realized, qty |-> p.entered,
                                    why |-> why])], p)

\* A reduction of qty units at a price; a position left empty is finalized.
Sell(s, id, qty, price, why) ==
  LET p == Find(s, id)
      q == ApplyReduction(p, qty, price)
      reduced == [s EXCEPT !.equity = @ + Profit(p, qty, price),
                           !.positions = Replaced(s, q),
                           !.fees = @ + Fee * qty,
                           !.cash = @ + (IF p.side = "LONG" THEN qty * price
                                                            ELSE 0 - qty * price)]
  IN  IF q.size = 0 THEN FinalizeClose(reduced, q, why) ELSE reduced

Reduce(s, a, b) ==
  LET p == Find(s, a.id)
      qty == Smaller(a.qty, p.size)
  IN  IF ~Has(s, a.id) \/ qty <= 0 THEN s
      ELSE Sell(s, a.id, qty, ExitPrice(b.open, p.side), "adapter")

Close(s, id, price, why) ==
  IF ~Has(s, id) THEN s
  ELSE Sell(s, id, Find(s, id).size, ExitPrice(price, Find(s, id).side), why)

Dispatch(s, a, b) ==
  CASE a.what = "open"   -> Open(s, a, b)
    [] a.what = "scale"  -> ScaleIn(s, a, b)
    [] a.what = "reduce" -> Reduce(s, a, b)
    [] a.what = "close"  -> Close(s, a.id, b.open, "adapter")

\* Actions of the previous bar fill at this bar's open, in their order.
AfterActions(s, b) ==
  LET after[i \in 0..Len(pending)] ==
        IF i = 0 THEN s ELSE Dispatch(after[i - 1], pending[i], b)
  IN  after

ExecutePending(s, b) == AfterActions(s, b)[Len(pending)]

StopHit(p, b) ==
  p.stop # 0 /\ IF p.side = "LONG" THEN b.low <= p.stop ELSE b.high >= p.stop

TargetHit(p, target, b) ==
  IF p.side = "LONG" THEN b.high >= target.price ELSE b.low <= target.price

\* A level that triggers is marked and closes its part of what is still open; the
\* ladder is left when nothing is.
TakeProfit(s, id, n, b) ==
  LET p == Find(s, id)
      target == p.targets[n]
      marked == [s EXCEPT !.positions = Replaced(s, [p EXCEPT !.done = @ \cup {n}])]
      qty == IF target.half THEN p.size \div 2 ELSE p.size
  IN  IF ~Has(s, id) \/ n \in p.done \/ ~TargetHit(p, target, b) THEN s
      ELSE IF qty > 0 THEN Sell(marked, id, qty, target.price, "take_profit") ELSE marked

AfterTargets(s, p, b) ==
  LET after[n \in 0..Len(p.targets)] ==
        IF n = 0 THEN s ELSE TakeProfit(after[n - 1], p.id, n, b)
  IN  after

\* The stop is looked at first; stop and target fill at their own price.
ExitOf(s, p, b) ==
  IF StopHit(p, b) THEN Sell(s, p.id, p.size, p.stop, "stop_loss")
  ELSE AfterTargets(s, p, b)[Len(p.targets)]

\* A plausible bug: the list that positions are removed from is also the one being
\* walked, so the position after a closed one is skipped.
CheckExitsInPlace(s, b) ==
  LET after[i \in 0..Len(s.positions)] ==
        IF i = 0 THEN s
        ELSE LET r == after[i - 1]
             IN  IF i <= Len(r.positions) THEN ExitOf(r, r.positions[i], b) ELSE r
  IN  after[Len(s.positions)]

\* A copy of the list is walked: one position's exit leaves the others as they are.
AfterExits(s, b) ==
  LET after[i \in 0..Len(s.positions)] ==
        IF i = 0 THEN s ELSE ExitOf(after[i - 1], s.positions[i], b)
  IN  after

CheckExits(s, b) == AfterExits(s, b)[Len(s.positions)]

AfterCloses(s, b) ==
  LET after[i \in 0..Len(s.positions)] ==
        IF i = 0 THEN s ELSE Close(after[i - 1], s.positions[i].id, b.close, "end_of_data")
  IN  after

CloseRest(s, b) == AfterCloses(s, b)[Len(s.positions)]

-----------------------------------------------------------------------------
(* The adapters (production_adapter_base.py, adapters/).                   *)

Signal(type, usd) == [type |-> type, usd |-> usd]
Hold == Signal("hold", 0)

\* set_strategy_capital is called with the kernel's equity before every signal.
Percent(pct) == (sim.kernel.current * pct) \div 100

\* MockMeanReversionStrategy: the hourly RSI decides, `rsi` being the tier it is
\* low enough for, 0 in between and -1 when overbought.
MeanReversionSignal(rsi) ==
  IF rsi > sim.tier
  THEN CASE sim.tier = 0 -> Signal("enter_long", Percent(10))
         [] sim.tier = 1 -> Signal("scale_in", Percent(15))
         [] OTHER        -> Signal("scale_in", Percent(20))
  ELSE IF rsi = -1 /\ sim.tier = 0 THEN Signal("enter_short", Percent(10))
  ELSE Hold

\* SessionTracker.observe: the first bar seen of a day is the day's open.
Observed ==
  IF opens.day = bar.stamp \div Day THEN opens
  ELSE [day |-> bar.stamp \div Day, price |-> bar.open]

\* MockDcaDipsStrategy: the fall from the day's open decides, in percent; a macro
\* event of the last two hours halves the first step.
DcaSignal(boost) ==
  LET fell(pct) == 100 * (bar.close - Observed.price) <= 0 - pct * Observed.price
  IN  CASE sim.tier = 2 /\ fell(10) -> Signal("scale_in", Percent(40))
        [] sim.tier = 1 /\ fell(5)  -> Signal("scale_in", Percent(25))
        [] sim.tier = 0 /\ fell(IF boost THEN 1 ELSE 2) -> Signal("enter_long", Percent(15))
        [] OTHER -> Hold

StopPct == IF kind = "dca_dips" THEN 5 ELSE 2

Entries == {"enter_long", "enter_short", "scale_in"}

NoAction == [what |-> "none", id |-> 0, side |-> "LONG", qty |-> 0,
             stop |-> 0, targets |-> <<>>]
OpenAction(side, qty, stop, targets) ==
  [NoAction EXCEPT !.what = "open", !.side = side, !.qty = qty, !.stop = stop,
                   !.targets = targets]
OnPosition(what, id, qty) ==
  [NoAction EXCEPT !.what = what, !.id = id, !.qty = qty]

\* _convert_signal_to_actions for a granted (or, for exits, wished) size.
Converted(type, usd) ==
  LET qty == usd \div bar.close
      flat == sim.positions = <<>>
      held == Head(sim.positions)
  IN  CASE type = "enter_long"  -> <<OpenAction("LONG", qty, 0, <<>>)>>
        [] type = "enter_short" -> <<OpenAction("SHORT", qty, 0, <<>>)>>
        [] type = "scale_in"    -> IF flat THEN <<OpenAction("LONG", qty, 0, <<>>)>>
                                   ELSE <<OnPosition("scale", held.id, qty)>>
        [] type = "reduce" /\ ~flat -> <<OnPosition("reduce", held.id, Smaller(qty, held.size))>>
        [] type = "exit" /\ ~flat   -> <<OnPosition("close", held.id, 0)>>
        [] OTHER                -> <<>>

\* Entries need the kernel's approval; everything else passes as it is.
Notional == FoldLeft(LAMBDA n, p : n + p.cost, 0, sim.positions)

\* A plausible bug: only a first entry is an entry, scale-ins need no approval.
ScaleInsNeedNone(k, signal) ==
  IF signal.type \in Entries \ {"scale_in"}
  THEN Granted(k, signal.usd, StopPct, Notional, sim.equity) ELSE signal.usd

Approved(k, signal) ==
  IF signal.type \in Entries
  THEN Granted(k, signal.usd, StopPct, Notional, sim.equity) ELSE signal.usd

-----------------------------------------------------------------------------
(* Steps.                                                                  *)

NoBar == [stamp |-> 0, open |-> 0, high |-> 0, low |-> 0, close |-> 0]

Init ==
  /\ kind \in Kinds
  /\ window = 0
  /\ phase = "idle"
  /\ bar = NoBar
  /\ clock = ClockStart
  /\ sim = NewSim(ClockStart)
  /\ pending = <<>>
  /\ opens = [day |-> -1, price |-> 0]
  /\ seen = {}
  /\ results = <<>>

\* A fresh adapter, with a fresh clock and kernel, and a fresh engine.
StartWindow ==
  /\ phase = "idle" /\ Planned(window)
  /\ Cardinality(TestBars) >= MinBars
  /\ phase' = "replay"
  /\ bar' = NoBar
  /\ clock' = ClockStart
  /\ sim' = NewSim(ClockStart)
  /\ pending' = <<>>
  /\ opens' = [day |-> -1, price |-> 0]
  /\ seen' = {}
  /\ UNCHANGED <<kind, window, results>>

\* Too few test bars, or a factory raised: the window is reported as failed and the
\* next one is worked on.
FailWindow ==
  /\ phase = "idle" /\ Planned(window)
  /\ results' = Append(results, "failed")
  /\ window' = window + 1
  /\ UNCHANGED <<kind, phase, bar, clock, sim, pending, opens, seen>>

\* A plausible bug: the queue is only replaced when the adapter answers something,
\* and is not emptied when its actions are filled.
NextBarKeepsPending(shape) ==
  /\ phase = "replay"
  /\ Remaining # {}
  /\ bar' = [shape EXCEPT !.stamp = CHOOSE s \in Remaining : \A r \in Remaining : s <= r]
  /\ sim' = CheckExits(ExecutePending(sim, bar'), bar')
  /\ phase' = "evaluate"
  /\ UNCHANGED <<kind, window, clock, pending, opens, seen, results>>

\* Steps 1 and 2 of run: what was decided on the last bar is filled, then exits.
NextBar(shape) ==
  /\ phase = "replay"
  /\ Remaining # {}
  /\ bar' = [shape EXCEPT !.stamp = CHOOSE s \in Remaining : \A r \in Remaining : s <= r]
  /\ sim' = CheckExits(ExecutePending(sim, bar'), bar')
  /\ pending' = <<>>
  /\ phase' = "evaluate"
  /\ UNCHANGED <<kind, window, clock, opens, seen, results>>

\* The actions of a list, in order, that the engine's hook let pass.
Passed(list, vetoed) ==
  LET passed[i \in 0..Len(list)] ==
        IF i = 0 THEN <<>>
        ELSE IF i \in vetoed THEN passed[i - 1] ELSE Append(passed[i - 1], list[i])
  IN  passed

Vetted(list, vetoed) == Passed(list, vetoed)[Len(list)]

\* The market as a snapshot shows it: which bars its regime and indicators rest on.
Snapshot == Informing(History, bar.stamp)

\* Steps 3 to 5 without a kernel: the adapter returns a list, and the engine's own
\* hook, where there is one, may veto any part of it.
EvaluatePlain(list, vetoed) ==
  /\ phase = "evaluate" /\ ~Production
  /\ pending' = Vetted(list, vetoed)
  /\ seen' = Snapshot
  /\ phase' = "replay"
  /\ UNCHANGED <<kind, window, bar, clock, sim, opens, results>>

\* A plausible bug: the shared clock moves on, but the periods are left to
\* approve_trade, so a day without an entry request is not a new day.
ResetWhenAsked ==
  /\ clock' = bar.stamp
  /\ sim' = [sim EXCEPT !.today = IF sim.day = bar.stamp \div Day THEN @ ELSE 0,
                        !.day = bar.stamp \div Day]

\* Every evaluation begins by moving the shared clock and resetting the periods.
SyncClock ==
  /\ clock' = bar.stamp
  /\ sim' = [sim EXCEPT !.kernel = ResetPeriods(@, bar.stamp),
                        !.twin = Prod!MaybeResetPeriods(@, bar.stamp),
                        !.today = IF sim.day = bar.stamp \div Day THEN @ ELSE 0,
                        !.day = bar.stamp \div Day]

\* No market data (warming up, or preparing them raised), a strategy that raised, or
\* a signal that its own risk gates turned into a hold.
EvaluateNothing ==
  /\ phase = "evaluate" /\ Production
  /\ SyncClock
  /\ opens' = Observed
  /\ seen' = Snapshot
  /\ phase' = "replay"
  /\ UNCHANGED <<kind, window, bar, pending, results>>

SyncAndCheck(signal) ==
  LET entry == signal.type \in Entries
      kernel == ResetPeriods(sim.kernel, bar.stamp)
      twin == Prod!MaybeResetPeriods(sim.twin, bar.stamp)
  IN  /\ clock' = bar.stamp
      /\ sim' = [sim EXCEPT !.kernel = IF entry THEN CheckActive(kernel, bar.stamp)
                                                ELSE kernel,
                            !.twin = IF entry THEN Prod!CheckKillswitch(twin, bar.stamp)
                                              ELSE twin,
                            !.today = IF sim.day = bar.stamp \div Day THEN @ ELSE 0,
                            !.day = bar.stamp \div Day]

\* A signal the strategy's gates let through.
EvaluateSignal(signal) ==
  LET usd == Approved(sim'.kernel, signal)
  IN  /\ phase = "evaluate" /\ Production
      /\ signal # Hold
      /\ SyncAndCheck(signal)
      /\ pending' = IF signal.type \in Entries /\ usd = 0 THEN <<>>
                    ELSE Converted(signal.type, usd)
      /\ opens' = Observed
      /\ seen' = Snapshot
      /\ phase' = "replay"
      /\ UNCHANGED <<kind, window, bar, results>>

\* What is still open is closed at the last bar's close; its trades are the result.
FinishWindow ==
  /\ phase = "replay" /\ Remaining = {} /\ bar # NoBar
  /\ sim' = CloseRest(sim, bar)
  /\ results' = Append(results, IF sim'.equity > Capital THEN "profit"
                                ELSE IF sim'.equity < Capital THEN "loss" ELSE "even")
  /\ window' = window + 1
  /\ phase' = "idle"
  /\ UNCHANGED <<kind, bar, clock, pending, opens, seen>>

Report ==
  /\ phase = "idle" /\ ~Planned(window)
  /\ phase' = "report"
  /\ UNCHANGED <<kind, window, bar, clock, sim, pending, opens, seen, results>>

\* HIGH_VOL holds back the two mock strategies.
Ungated == VolatilityRegimes(History, bar.stamp) \ {"HIGH_VOL"}

MeanReversion ==
  /\ kind = "mean_reversion"
  /\ RsiKnown(History, bar.stamp) /\ Ungated # {}
  /\ \E rsi \in -1..3 : EvaluateSignal(MeanReversionSignal(rsi))

DcaDips ==
  /\ kind = "dca_dips" /\ Ungated # {}
  /\ \E boost \in BOOLEAN : EvaluateSignal(DcaSignal(boost))

AnyStrategy == kind = "signals" /\ \E signal \in Signals : EvaluateSignal(signal)

Next ==
  \/ StartWindow \/ FailWindow \/ FinishWindow \/ Report
  \/ \E shape \in Shapes : NextBar(shape)
  \/ \E list \in PlainLists : \E vetoed \in SUBSET DOMAIN list : EvaluatePlain(list, vetoed)
  \/ EvaluateNothing
  \/ MeanReversion
  \/ DcaDips
  \/ AnyStrategy

Spec == Init /\ [][Next]_vars
-----------------------------------------------------------------------------
(* Properties.                                                             *)

TypeOK ==
  /\ kind \in Kinds /\ window \in Nat /\ clock \in Nat
  /\ phase \in {"idle", "replay", "evaluate", "report"}
  /\ bar = NoBar \/ bar.stamp \in Stamps
  /\ sim.positions \in Seq(PositionState)
  /\ {sim.kernel, sim.twin} \subseteq Prod!KernelState
  /\ pending \in Seq(Actions)
  /\ results \in Seq({"failed", "profit", "loss", "even"}) /\ Len(results) = window

Sums(list) ==
  LET upto[i \in 0..Len(list)] == IF i = 0 THEN 0 ELSE upto[i - 1] + list[i]
  IN  upto

Sum(list) == Sums(list)[Len(list)]

AtCost(p)  == IF p.side = "LONG" THEN p.cost ELSE 0 - p.cost
EntryFee(p) == Fee * p.entered

\* The engine's equity is the capital, plus every dollar its fills moved, minus every
\* commission, plus what is open at cost; and it differs from the equity the kernel
\* judges by exactly the entry commissions, which no trade's realized_pnl contains,
\* and by what partial exits of positions still open have earned.
EquityExplained ==
  LET p == sim.positions
      atCost == [i \in DOMAIN p |-> AtCost(p[i])]
      earned == [i \in DOMAIN p |-> p[i].realized - EntryFee(p[i])]
      charged == [i \in DOMAIN sim.trades |-> Fee * sim.trades[i].qty]
  IN  /\ sim.equity = Capital + sim.cash - sim.fees + Sum(atCost)
      /\ Production => sim.equity = sim.kernel.current + Sum(earned) - Sum(charged)

\* Once a bar's exits have been checked, no position is open whose stop the bar
\* touched: however many there are, and if it was opened at that bar's own open
\* (_check_exits_intrabar walks the list it removes from).
StopsHonoured ==
  phase = "evaluate" => \A i \in DOMAIN sim.positions : ~StopHit(sim.positions[i], bar)

Request(usd) == [size |-> usd, stopLoss |-> StopPct, confident |-> TRUE,
                 stress |-> "calm", leverage |-> 0]

\* The kernel as it would be had the week begun with a loss, or the peak been higher:
\* a window is too short to reach the weekly and the total limit by itself.
Worse(k, loss, fall) == [k EXCEPT !.weekly = @ - loss, !.peak = @ + fall]

\* "Behavioral equivalence with bot.core.risk_kernel.RiskKernel": given the same
\* outcomes and the same clock, both kernels hold the same books and halts, judge the
\* four limits alike from there, with a worse past as well, and grant the same sizes,
\* as long as the account never ran out of equity.
KernelsAgree ==
  Production /\ sim.low > 0 =>
    /\ sim.kernel = sim.twin
    /\ \A loss \in {0, Capital \div 8}, fall \in {0, Capital \div 4} :
         LET k == Worse(sim.kernel, loss, fall)
         IN  Evaluate(k, clock) = Prod!EvaluateKillswitches(k, clock)
    /\ \A usd \in {signal.usd : signal \in Signals} :
         Granted(sim.kernel, usd, StopPct, 0, sim.equity)
           = Prod!Verdict(sim.twin, Request(usd)).size

\* An entry waiting for the next bar was granted by a kernel that is not halted now,
\* a scale-in like a first entry, and no fill or exit in between changes that.
EntryNeedsActiveKernel ==
  Production /\ phase = "replay" /\ (\E i \in DOMAIN pending : pending[i].what \in {"open", "scale"}) =>
    /\ ~sim.kernel.halted
    /\ \A i \in DOMAIN pending : 4 * pending[i].qty * bar.close <= sim.kernel.current

\* The loss the daily limit is held against is the one made since the first
\* evaluation of the day of the bars ("replay engine calls each bar after
\* clock.set()").
DailyLossIsTodays == Production => sim.kernel.daily = sim.today

\* And what it is held against whatever time the clock was built with: until the bars pass
\* the midnight after that time, everything the window has made or lost; from then on
\* what was made since the first evaluation of the bars' day (_maybe_reset_periods).
DailyLossSinceMidnight ==
  Production =>
    sim.kernel.daily = IF sim.day > ClockStart \div Day THEN sim.today ELSE sim.kernel.total

\* The two packaged strategies hold one position at most, and count its fills as
\* their tier: no signal is lost, repeated or filled twice between the bar that
\* gave it and the next.
TierIsPosition ==
  kind \in {"mean_reversion", "dca_dips"} =>
    \/ sim.positions = <<>> /\ sim.tier = 0
    \/ Len(sim.positions) = 1 /\ sim.tier = sim.positions[1].fills

\* No regime and no indicator a decision rests on comes from its own bar's time or later,
\* although both providers are built from the test bars too (a strategy does read its own
\* bar's open and close), and a window tests no bar it was trained on and none an earlier
\* window tested (with a step of a test span).
NoLookAhead ==
  /\ phase = "replay" => \A s \in seen : s < bar.stamp
  /\ phase = "evaluate" =>
       /\ \A s \in TrainBars : s < bar.stamp
       /\ \A n \in 0..(window - 1) : bar.stamp \notin Slice(TestStart(n), TestEnd(n))
=============================================================================
