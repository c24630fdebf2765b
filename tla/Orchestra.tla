------------------------------ MODULE Orchestra ------------------------------
(***************************************************************************)
(* bot/strategies/orchestra.py with the strategies it runs (mean reversion *)
(* "mr", DCA on dips "dca", CVD divergence "cvd"), the five-minute job and *)
(* the paper executor of bot/scheduler.py, and the Telegram commands of    *)
(* handlers/strategy_commands.py.                                          *)
(*                                                                         *)
(* From the last market data fetched to the last decision executed the job *)
(* meets no await that suspends, so a whole tick is one action, and        *)
(* max_instances=1 keeps ticks apart.  Nothing in bot/ calls               *)
(* on_position_closed, on_tranche_filled, on_event_closed or               *)
(* release_kill_switch: positions and events, once there, stay, and        *)
(* cooldowns, daily losses and the gap between events stay at their        *)
(* initial values.  Money is in whole dollars.                             *)
(***************************************************************************)
EXTENDS Integers, FiniteSets, FiniteSetsExt

CONSTANTS
  Universe,       \* the symbols of every strategy
  TotalCapital,   \* QA_TOTAL_CAPITAL_USD
  SymbolCapPct,   \* max_per_symbol_position_pct, in percent
  PaperModes,     \* the values of paper_mode to consider
  EnabledLists,   \* values of config.enabled_strategies to consider
  Readings,       \* market data of one symbol: [price, rsi, ret, cvd]
  Regimes,        \* what _detect_regime may answer
  Balances,       \* totalEquity as the exchange reports it
  MacroEvents,    \* events: [id, kind, corroborated]
  MaxHold,        \* MAX_HOLD_HOURS of mean reversion, in ticks
  TrancheGap,     \* TRANCHE_INTERVAL_HOURS, in ticks
  FireWindow,     \* the 30 minutes in which a tranche may fire, in ticks
  MaxTime,        \* bound: the last tick
  MaxRestarts     \* bound: restarts of the process

VARIABLES
  now,
  paper,      \* config.paper_mode
  listed,     \* config.enabled_strategies
  enabled,    \* config.enabled of each strategy
  status,     \* status of each strategy
  funded,     \* has set_strategy_capital been called?
  positions,  \* mean reversion's _positions
  events,     \* dca's _active_events: the tick each was scheduled at
  exposure,   \* _symbol_total_exposure_usd
  peak, value, engaged,  \* portfolio and kill switch
  ticked,     \* has the job run at this tick of the clock?
  restarts    \* bound

portfolio == <<peak, value, engaged>>
holdings  == <<positions, exposure>>
config    == <<paper, listed>>
vars == <<now, config, enabled, status, funded, events, holdings, portfolio, ticked, restarts>>

Strategies == {"mr", "dca", "cvd"}
Statuses == {"DISABLED", "PAPER", "LIVE", "HALTED", "COOLDOWN"}
NoPosition == [tier |-> 0, avg |-> 0, size |-> 0, opened |-> 0]
Never == 0
EventIds == {e.id : e \in MacroEvents}

ASSUME OrchestraAssumption ==
  /\ TotalCapital \in Nat \ {0} /\ TotalCapital % 1000 = 0
  /\ SymbolCapPct \in 1 .. 100
  /\ Universe \subseteq {"BTCUSDT", "ETHUSDT", "SOLUSDT"}
  /\ PaperModes \subseteq BOOLEAN /\ Balances \subseteq Nat
  /\ \A r \in Readings : r.price \in Nat \ {0}
  /\ MaxHold \in Nat /\ TrancheGap \in Nat /\ FireWindow \in Nat

TypeOK ==
  /\ now \in Nat \ {0}
  /\ paper \in PaperModes /\ listed \in EnabledLists
  /\ enabled \in [Strategies -> BOOLEAN]
  /\ status \in [Strategies -> Statuses]
  /\ funded \in BOOLEAN /\ engaged \in BOOLEAN /\ ticked \in BOOLEAN
  /\ \A s \in Universe :
       \/ positions[s] = NoPosition
       \/ positions[s] \in [tier : 1 .. 3, avg : Nat \ {0}, size : Nat \ {0}, opened : 1 .. now]
  /\ events \in [EventIds -> Nat]
  /\ exposure \in [Universe -> Nat]
  /\ peak \in Nat \ {0} /\ value \in Nat
  /\ restarts \in Nat

-----------------------------------------------------------------------------
(* Capital.                                                                *)

CapitalOf(strategy) ==
  (TotalCapital * (IF strategy = "mr" THEN 20 ELSE 10)) \div 100

TierSize(tier) == (CapitalOf("mr") * (IF tier = 3 THEN 40 ELSE 30)) \div 100

EventCapital == CapitalOf("dca") \div 2
Weight == [BTCUSDT |-> 50, ETHUSDT |-> 30, SOLUSDT |-> 20]
TrancheCount == 5
TrancheSize(symbol) == (EventCapital * Weight[symbol]) \div (100 * TrancheCount)

SymbolCap == (TotalCapital * SymbolCapPct) \div 100
MinAllocation == 5

-----------------------------------------------------------------------------
(* What the strategies signal for one symbol.  A signal whose metadata     *)
(* carries no price has price 0.                                           *)

Signal(strategy, symbol, type, confidence, size, price) ==
  [strategy |-> strategy, symbol |-> symbol, type |-> type,
   confidence |-> confidence, size |-> size, price |-> price]

Held == {s \in Universe : positions[s] # NoPosition}

Dropped(r) == r.ret < -5
Oversold(r) == r.rsi < 25

EntryConfidence(r) ==
  LET c == 50 + (IF Dropped(r) THEN 20 ELSE 0) + (IF Oversold(r) THEN 20 ELSE 0)
              + (IF r.rsi < 20 THEN 10 ELSE 0)
  IN  IF c > 95 THEN 95 ELSE c

\* Has the price moved by at least pct percent of the entry, up or down?
Below(p, r, pct) == 100 * (r.price - p.avg) <= -pct * p.avg
Above(p, r, pct) == 100 * (r.price - p.avg) >= pct * p.avg

ExitDue(p, r) ==
  \/ Below(p, r, 15) \/ Above(p, r, 3)
  \/ r.rsi >= 60 /\ r.price > p.avg
  \/ now - p.opened >= MaxHold

MrEvaluate(symbol, r) ==
  LET p == positions[symbol]
      mr(type, confidence, size, price) == {Signal("mr", symbol, type, confidence, size, price)}
  IN  IF symbol \notin Held
      THEN IF (Dropped(r) \/ Oversold(r)) /\ r.rsi <= 70 /\ TierSize(1) >= 10
           THEN mr("ENTER_LONG", EntryConfidence(r), TierSize(1), r.price) ELSE {}
      ELSE CASE ExitDue(p, r) -> mr("EXIT", 100, p.size, 0)
             [] ~ExitDue(p, r) /\ p.tier = 1 /\ Below(p, r, 8) -> mr("SCALE_IN", 70, TierSize(2), 0)
             [] ~ExitDue(p, r) /\ p.tier = 2 /\ Below(p, r, 12) -> mr("SCALE_IN", 65, TierSize(3), 0)
             [] OTHER -> {}

\* A tranche is due in its window; nothing marks it as fired.
Due(start) ==
  start # Never /\ \E i \in 0 .. TrancheCount - 1 :
    LET target == start + i * TrancheGap IN target <= now /\ now <= target + FireWindow

DcaEvaluate(symbol, r) ==
  IF \E id \in EventIds : Due(events[id]) /\ TrancheSize(symbol) > 0
  THEN {Signal("dca", symbol, "ENTER_LONG", 60, TrancheSize(symbol), r.price)} ELSE {}

\* The job's market data carries no CVD ("absent"); with it, a divergence shorts.
CvdEvaluate(symbol, r, regime) ==
  IF r.cvd = "diverging" /\ r.rsi >= 70 /\ regime # "PARABOLIC_BULLISH"
  THEN {Signal("cvd", symbol, "ENTER_SHORT", 40, CapitalOf("cvd") \div 2, 0)} ELSE {}

Evaluate(strategy, symbol, r, regime) ==
  CASE strategy = "mr"  -> MrEvaluate(symbol, r)
    [] strategy = "dca" -> DcaEvaluate(symbol, r)
    [] strategy = "cvd" -> CvdEvaluate(symbol, r, regime)

\* apply_risk_gates: gates 2 and 6.  Only mean reversion's positions are counted,
\* and as they stand before the tick.
MaxPositions == [mr |-> 2, dca |-> 3, cvd |-> 1]

Gated(sig, regime) ==
  \/ sig.strategy # "cvd" /\ regime = "BEARISH" /\ sig.type = "ENTER_LONG"
  \/ /\ sig.strategy = "mr" /\ sig.type \in {"ENTER_LONG", "ENTER_SHORT"}
     /\ Cardinality(Held) >= MaxPositions["mr"] /\ sig.symbol \notin Held

-----------------------------------------------------------------------------
(* The stages of a tick.                                                   *)

Running(s) == s \in {"PAPER", "LIVE"}
RunStatus == IF paper THEN "PAPER" ELSE "LIVE"

InMatrix(regime) ==
  CASE regime \in {"BULLISH", "NEUTRAL"}     -> {"mr"}
    [] regime = "VOLATILE"                   -> {"mr", "dca"}
    [] regime \in {"BEARISH", "STAGFLATION"} -> {"dca"}
    [] OTHER                                 -> {}

\* Only mean reversion fills _active_positions.
HasPositions(strategy) == strategy = "mr" /\ Held # {}

\* A plausible bug: a strategy the regime rules out is disabled whatever it holds.
RegimeIgnoresPositions(regime) ==
  [s \in Strategies |->
    IF ~enabled[s] \/ status[s] \in {"HALTED", "COOLDOWN"} THEN status[s]
    ELSE IF s \in InMatrix(regime) \cup listed
    THEN IF status[s] = "DISABLED" THEN RunStatus ELSE status[s]
    ELSE "DISABLED"]

\* A plausible bug: the matrix does not spare a halted strategy.
RegimeWakesHalted(regime) ==
  [s \in Strategies |->
    IF ~enabled[s] THEN status[s]
    ELSE IF s \in InMatrix(regime) \cup listed
    THEN IF Running(status[s]) THEN status[s] ELSE RunStatus
    ELSE IF HasPositions(s) THEN status[s] ELSE "DISABLED"]

RegimeMatrix(regime) ==
  [s \in Strategies |->
    IF ~enabled[s] \/ status[s] \in {"HALTED", "COOLDOWN"} THEN status[s]
    ELSE IF s \in InMatrix(regime) \cup listed
    THEN IF status[s] = "DISABLED" THEN RunStatus ELSE status[s]
    ELSE IF HasPositions(s) THEN status[s] ELSE "DISABLED"]

\* The actionable signals of a tick, given what was fetched.
Signals(data, regime) ==
  LET st == RegimeMatrix(regime)
      raw == UNION {Evaluate(s, sym, data[sym], regime) :
                      s \in {x \in Strategies : Running(st[x])}, sym \in DOMAIN data}
  IN  {sig \in raw : ~Gated(sig, regime)}

Longs(sigs, symbol) ==
  {s \in sigs : s.symbol = symbol /\ s.type \in {"ENTER_LONG", "SCALE_IN"}}
Shorts(sigs, symbol) == {s \in sigs : s.symbol = symbol /\ s.type = "ENTER_SHORT"}
Exits(sigs, symbol) == {s \in sigs : s.symbol = symbol /\ s.type \in {"EXIT", "REDUCE"}}

Best(sigs) == {s \in sigs : \A t \in sigs : s.confidence >= t.confidence}

\* A plausible bug: every long is kept, not the most confident one.
ResolveKeepsAll(sigs, symbol) ==
  Exits(sigs, symbol) \cup
    (IF Longs(sigs, symbol) # {} /\ Shorts(sigs, symbol) # {} THEN {}
     ELSE Longs(sigs, symbol) \cup Shorts(sigs, symbol))

\* _resolve_conflicts: exits pass, opposite directions cancel, one direction yields
\* its most confident signal.
Resolve(sigs, symbol) ==
  Exits(sigs, symbol) \cup
    (IF Longs(sigs, symbol) # {} /\ Shorts(sigs, symbol) # {} THEN {}
     ELSE Best(Longs(sigs, symbol) \cup Shorts(sigs, symbol)))

Available(symbol) == IF exposure[symbol] < SymbolCap THEN SymbolCap - exposure[symbol] ELSE 0
Allocated(sig) == IF sig.size <= Available(sig.symbol) THEN sig.size ELSE Available(sig.symbol)

\* What _apply_orchestra_caps allows and the paper executor fills: a decision without
\* a price is logged and dropped, and live execution is not implemented.
Fills(sigs, symbol) ==
  {s \in Resolve(sigs, symbol) : paper /\ Allocated(s) >= MinAllocation /\ s.price > 0}

\* on_tier_filled, with the tier of an entry.
TierFilled(p, sig) ==
  IF p = NoPosition
  THEN [tier |-> 1, avg |-> sig.price, size |-> Allocated(sig), opened |-> now]
  ELSE [p EXCEPT !.tier = 1, !.size = @ + Allocated(sig),
                 !.avg = (@ * p.size + sig.price * Allocated(sig)) \div (p.size + Allocated(sig))]

\* Only mean reversion has on_tier_filled.
PositionAfter(symbol, fills) ==
  LET mr == {s \in fills : s.strategy = "mr" /\ s.type = "ENTER_LONG"}
  IN  IF mr = {} THEN positions[symbol]
      ELSE TierFilled(positions[symbol], CHOOSE s \in mr : TRUE)

\* A plausible bug: the new fill replaces the exposure there was.
ExposureReplaced(symbol, fills) ==
  IF fills = {} THEN exposure[symbol] ELSE MapThenSumSet(Allocated, fills)

ExposureAfter(symbol, fills) == exposure[symbol] + MapThenSumSet(Allocated, fills)

Drawdown == 100 * (peak - value) >= 10 * peak

-----------------------------------------------------------------------------
(* Operations.                                                             *)

Fresh ==
  /\ enabled' = [s \in Strategies |-> s # "cvd"]
  /\ status' = [s \in Strategies |-> IF s # "cvd" THEN "PAPER" ELSE "DISABLED"]
  /\ funded' = FALSE
  /\ positions' = [s \in Universe |-> NoPosition]
  /\ events' = [id \in EventIds |-> Never]
  /\ exposure' = [s \in Universe |-> 0]
  /\ peak' = TotalCapital /\ value' = TotalCapital /\ engaged' = FALSE

Init ==
  /\ now = 1
  /\ paper \in PaperModes /\ listed \in EnabledLists
  /\ enabled = [s \in Strategies |-> s # "cvd"]
  /\ status = [s \in Strategies |-> IF s # "cvd" THEN "PAPER" ELSE "DISABLED"]
  /\ funded = FALSE
  /\ positions = [s \in Universe |-> NoPosition]
  /\ events = [id \in EventIds |-> Never]
  /\ exposure = [s \in Universe |-> 0]
  /\ peak = TotalCapital /\ value = TotalCapital /\ engaged = FALSE
  /\ ticked = FALSE /\ restarts = 0

\* The portfolio is down 10%: every strategy is halted and nothing is executed.
EngageKillSwitch ==
  /\ engaged' = TRUE
  /\ status' = [s \in Strategies |-> "HALTED"]
  /\ UNCHANGED <<holdings, peak, value>>

Execute(data, regime) ==
  LET sigs == Signals(data, regime)
  IN  /\ status' = RegimeMatrix(regime)
      /\ positions' = [s \in Universe |-> PositionAfter(s, Fills(sigs, s))]
      /\ exposure' = [s \in Universe |-> ExposureAfter(s, Fills(sigs, s))]
      /\ UNCHANGED portfolio

\* A plausible bug: the kill switch is asked for only where it is engaged.
TickPastSwitch(data, regime) ==
  /\ ~ticked /\ ticked' = TRUE
  /\ funded' = TRUE
  /\ IF Drawdown /\ ~engaged THEN EngageKillSwitch ELSE Execute(data, regime)
  /\ UNCHANGED <<now, config, enabled, events, restarts>>

OrchestraTick(data, regime) ==
  /\ ~ticked /\ ticked' = TRUE
  /\ \/ engaged /\ UNCHANGED <<status, funded, holdings, portfolio>>
     \/ ~engaged /\ Drawdown /\ funded' = TRUE /\ EngageKillSwitch
     \/ ~engaged /\ ~Drawdown /\ funded' = TRUE /\ Execute(data, regime)
  /\ UNCHANGED <<now, config, enabled, events, restarts>>

\* get_unified_balance; an empty account list, or no totalEquity in it, reads as 0.
TotalEquity == Balances \cup {0}

\* _portfolio_sync; _equity_snapshot raises before it gets that far.
PortfolioSync(balance) ==
  /\ value' = balance
  /\ peak' = IF balance > peak THEN balance ELSE peak
  /\ UNCHANGED <<now, config, enabled, status, funded, events, holdings, engaged, ticked, restarts>>

Active == {id \in EventIds : events[id] # Never}

\* trigger_event, as the macro detector calls it.  The event's capital is known only
\* after the first tick; an id met again is scheduled anew.
TriggerEvent(e) ==
  /\ status["dca"] \notin {"DISABLED", "HALTED"}
  /\ e.kind = "GEOPOLITICAL_CRITICAL" => e.corroborated
  /\ Cardinality(Active) < 2
  /\ funded /\ EventCapital >= 50
  /\ events' = [events EXCEPT ![e.id] = now]
  /\ UNCHANGED <<now, config, enabled, status, funded, holdings, portfolio, ticked, restarts>>

SetStrategy(s, on, st) ==
  /\ enabled' = [enabled EXCEPT ![s] = on]
  /\ status' = [status EXCEPT ![s] = st]
  /\ UNCHANGED <<now, config, funded, events, holdings, portfolio, ticked, restarts>>

EnableStrat(s, mode) == (mode = "LIVE" => ~paper) /\ SetStrategy(s, TRUE, mode)
DisableStrat(s) == SetStrategy(s, FALSE, "DISABLED")
HaltStrat(s) == SetStrategy(s, enabled[s], "HALTED")
ResumeStrat(s) == status[s] \in {"HALTED", "COOLDOWN"} /\ SetStrategy(s, TRUE, RunStatus)

Restart ==
  /\ restarts < MaxRestarts /\ restarts' = restarts + 1
  /\ Fresh
  /\ UNCHANGED <<now, config, ticked>>

Tick ==
  /\ now < MaxTime /\ now' = now + 1
  /\ ticked' = FALSE
  /\ UNCHANGED <<config, enabled, status, funded, events, holdings, portfolio, restarts>>

\* The market data of the symbols whose klines arrived.
Fetched == UNION {[symbols -> Readings] : symbols \in SUBSET Universe}

Next ==
  \/ \E data \in Fetched, regime \in Regimes : OrchestraTick(data, regime)
  \/ \E b \in TotalEquity : PortfolioSync(b)
  \/ \E e \in MacroEvents : TriggerEvent(e)
  \/ \E s \in Strategies :
       \/ \E mode \in {"PAPER", "LIVE"} : EnableStrat(s, mode)
       \/ DisableStrat(s) \/ HaltStrat(s) \/ ResumeStrat(s)
  \/ Restart
  \/ Tick

Spec == Init /\ [][Next]_vars

-----------------------------------------------------------------------------
(* Properties.                                                             *)

\* The exposure booked on a symbol never passes its cap, although every decision of a
\* tick is cleared against the exposure there was before it: _resolve_conflicts
\* leaves at most one decision that fills for each symbol.
SymbolCapHolds == \A s \in Universe : exposure[s] <= SymbolCap

\* Once the kill switch is engaged nothing is bought any more, whatever strategies
\* the operator resumes or enables and however far the portfolio recovers, until
\* the process restarts (run_tick's first test; nothing releases the switch).
KillSwitchFinal == [][engaged /\ restarts' = restarts => engaged' /\ UNCHANGED holdings]_vars

\* A tick never wakes a strategy that was halted: neither a change of regime nor the
\* list of enabled strategies counts as the operator's /resume_strat.
TickKeepsHalts ==
  [][ticked' /\ ~ticked => \A s \in Strategies : status[s] = "HALTED" => status'[s] = "HALTED"]_vars

\* While mean reversion holds a position it is disabled only by the operator's
\* /disable_strat, never by a regime that rules it out: exits stay evaluated.
HoldersStayManaged == status["mr"] = "DISABLED" /\ enabled["mr"] => Held = {}

\* The exposure the caps are computed from covers every position a strategy holds,
\* through partial fills at the cap and later tranches of another strategy.
ExposureCoversPositions == \A s \in Universe : positions[s].size <= exposure[s]

\* "max_concurrent_positions=2,  # 2 of 3 majors max simultaneously".
AtMostTwoPositions == Cardinality(Held) <= MaxPositions["mr"]

\* "force exit after 48h regardless": a position is gone after any tick that priced
\* its symbol when it had been held that long and was not halted or switched off.
ForcedExit ==
  [][\A data \in Fetched, regime \in Regimes : \A s \in DOMAIN data :
       /\ OrchestraTick(data, regime)
       /\ ~engaged' /\ Running(status'["mr"]) /\ s \in Held
       /\ now - positions[s].opened >= MaxHold
       => positions'[s] = NoPosition]_vars
=============================================================================
