----------------------------- MODULE FundingArb -----------------------------
(***************************************************************************)
(* bot/strategies/funding_arb.py and its scheduler job, together with the  *)
(* risk kernel that approves its openings and books its results, and with  *)
(* the SQLite ledger its fills go to.                                      *)
(*                                                                         *)
(* The job is one coroutine.  Between two awaits it runs alone, so the     *)
(* Telegram handlers and the clock move only while it is idle or waiting   *)
(* (AtAwait); the process may die, and a ledger write may fail, at any     *)
(* step.  An arb's uuid is its position in the ledger.                     *)
(***************************************************************************)
EXTENDS Integers, Sequences, FiniteSets, Functions

CONSTANTS
  StartEquity, Pnls, Balances, HaltTicks, Requests, Persistence,
  Day, WeekDays, Forever, Epoch, MaxTime, MaxOutcomes,  \* as in RiskKernel
  RateLists,     \* what fetch_once may return: sequences of [symbol, rate]
  LiveModes,     \* the values of live_trading to consider
  MaxHold,       \* MAX_HOLD_HOURS, in ticks
  MaxArbs,       \* bound: arbs ever opened
  LastOffer,     \* bound: the last tick at which a rate worth opening is seen
  MaxFaults,     \* bound: ledger writes that fail
  MaxRestarts    \* bound: restarts of the process

VARIABLES
  now, kernel, persistent, file, reply, promise, touched, outcomes,  \* the kernel's
  live,      \* live_trading
  arbs,      \* _open_arbs: the arb in memory for each symbol
  ledger,    \* the fills on disk, by arb
  at,        \* where the job stands
  todo,      \* funding rates of this cycle not yet considered
  deal,      \* the symbol being opened or closed
  late,      \* history: arbs opened since trading was last halted
  faults, restarts  \* bounds

Kernel == INSTANCE RiskKernel

kernelVars == <<now, kernel, persistent, file, reply, promise, touched, outcomes>>
boundVars  == <<late, faults, restarts>>
vars == <<kernelVars, live, arbs, ledger, at, todo, deal, boundVars>>

Allowed == {"ETHUSDT", "SOLUSDT"}
Legs == {"spot_open", "perp_open", "spot_close", "perp_close"}
NoArb == [state |-> "none", id |-> 0, opened |-> 0]
ArbStates == {"none", "opening", "open", "closing", "closed"}
Awaits == {"idle", "rates", "openFetch", "closeFetch"}
Busy == {"next", "openSpot", "openPerp", "closeSpot", "closePerp", "settle"}
AtAwait == at \in Awaits

Quotes == UNION {Range(list) : list \in RateLists}

ASSUME ArbAssumption ==
  /\ RateLists \subseteq Seq(Quotes)
  /\ \A fr \in Quotes : fr.rate \in Int
  /\ LiveModes \subseteq BOOLEAN
  /\ MaxHold \in Nat /\ MaxHold >= Day
  /\ MaxArbs \in Nat /\ MaxArbs <= MaxOutcomes

TypeOK ==
  /\ Kernel!TypeOK
  /\ live \in LiveModes
  /\ arbs \in [Allowed -> [state : ArbStates, id : 0 .. Len(ledger), opened : Nat]]
  /\ ledger \in Seq([symbol : Allowed, fills : SUBSET Legs])
  /\ at \in Awaits \cup Busy
  /\ todo \in Seq(Quotes)
  /\ deal \in Allowed \cup {"none"}
  /\ late \in Nat /\ faults \in Nat /\ restarts \in Nat

-----------------------------------------------------------------------------
(* Rates and decisions.  A rate is counted in millionths per eight hours.  *)

OpenAt  == [ETHUSDT |-> 400, SOLUSDT |-> 500]
CloseAt == [ETHUSDT |-> 120, SOLUSDT |-> 150]
Slippage == [ETHUSDT |-> 400, SOLUSDT |-> 800]

\* Two spot fees, two perp fees, four slippages and the tax provision.
RoundTripCost(symbol) == 2 * 1000 + 2 * 550 + 4 * Slippage[symbol] + 300

Settlements == 9
Economic(symbol, rate) == 2 * rate * Settlements >= 3 * RoundTripCost(symbol)

MaxConcurrentArbs == 2
LegSize == 200

Active == {s \in Allowed : arbs[s].state \in {"open", "opening"}}

\* evaluate_cycle asks for an opening only where no arb of the symbol is kept.
ShouldOpen(fr) ==
  /\ fr.symbol \in Allowed
  /\ Cardinality(Active) < MaxConcurrentArbs
  /\ fr.symbol \notin Active
  /\ fr.rate >= OpenAt[fr.symbol]
  /\ Economic(fr.symbol, fr.rate)
  /\ 5 * LegSize <= kernel.current

HoldOf(arb) == now - arb.opened

\* A plausible bug: an arb is never too old.
CloseOnRateOnly(arb, fr) ==
  /\ arb.state = "open"
  /\ HoldOf(arb) >= Day
  /\ fr.rate <= CloseAt[fr.symbol] \/ fr.rate < 0

ShouldClose(arb, fr) ==
  /\ arb.state = "open"
  /\ HoldOf(arb) >= Day
  /\ HoldOf(arb) > MaxHold \/ fr.rate <= CloseAt[fr.symbol] \/ fr.rate < 0

\* The request open_arb makes of the kernel.
ArbRequest ==
  [size |-> LegSize, stopLoss |-> 10, confident |-> TRUE, stress |-> "calm", leverage |-> 0]

\* A plausible bug: HALTED is left out of the decisions that stop an opening.
RejectedOnly(decision) == decision = "rejected"

Refused(decision) == decision \in {"rejected", "halted"}

\* The kernel's own assumptions, and that it takes the requests of open_arb.
ASSUME KernelAssumption ==
  /\ Kernel!MoneyAssumption /\ Kernel!TimeAssumption /\ Kernel!RequestAssumption
  /\ ArbRequest \in Requests

-----------------------------------------------------------------------------
(* The job: fetch the rates, then consider them one by one.                *)

Init ==
  /\ Kernel!Init
  /\ live \in LiveModes
  /\ arbs = [s \in Allowed |-> NoArb]
  /\ ledger = <<>>
  /\ at = "idle" /\ todo = <<>> /\ deal = "none"
  /\ late = 0 /\ faults = 0 /\ restarts = 0

JobStart ==
  /\ at = "idle"
  /\ at' = "rates"
  /\ UNCHANGED <<kernelVars, live, arbs, ledger, todo, deal, boundVars>>

Offers(list) == {fr \in Range(list) : fr.symbol \in Allowed /\ fr.rate >= OpenAt[fr.symbol]}

RatesArrive(list) ==
  /\ at = "rates"
  /\ Offers(list) # {} => now <= LastOffer /\ Len(ledger) + Cardinality(Offers(list)) <= MaxArbs
  /\ todo' = list
  /\ at' = IF list = <<>> THEN "idle" ELSE "next"
  /\ UNCHANGED <<kernelVars, live, arbs, ledger, deal, boundVars>>

Tracked(symbol) == symbol \in Allowed /\ arbs[symbol] # NoArb

\* The next rate, or the end of the cycle; nothing to do for this one.
EndCycle ==
  /\ at = "next" /\ todo = <<>>
  /\ at' = "idle"
  /\ UNCHANGED <<kernelVars, live, arbs, ledger, todo, deal, boundVars>>

Skip ==
  /\ at = "next" /\ todo # <<>>
  /\ LET fr == Head(todo)
     IN  IF Tracked(fr.symbol) THEN ~ShouldClose(arbs[fr.symbol], fr) ELSE ~ShouldOpen(fr)
  /\ todo' = Tail(todo)
  /\ UNCHANGED <<kernelVars, live, arbs, ledger, at, deal, boundVars>>

\* should_open and approve_trade run without an await between them.
AskKernel ==
  /\ at = "next" /\ todo # <<>>
  /\ ~Tracked(Head(todo).symbol) /\ ShouldOpen(Head(todo))
  /\ Kernel!ApproveTrade(ArbRequest)
  /\ todo' = Tail(todo)
  /\ IF Refused(reply'.decision)
     THEN UNCHANGED <<at, deal>>
     ELSE at' = "openFetch" /\ deal' = Head(todo).symbol
  /\ UNCHANGED <<live, arbs, ledger, boundVars>>

BeginClose ==
  /\ at = "next" /\ todo # <<>>
  /\ Tracked(Head(todo).symbol) /\ ShouldClose(arbs[Head(todo).symbol], Head(todo))
  /\ todo' = Tail(todo)
  /\ at' = "closeFetch" /\ deal' = Head(todo).symbol
  /\ UNCHANGED <<kernelVars, live, arbs, ledger, boundVars>>

\* A ticker fetch that fails abandons this opening or closing, not the cycle.
FetchFails ==
  /\ at \in {"openFetch", "closeFetch"}
  /\ at' = "next" /\ deal' = "none"
  /\ UNCHANGED <<kernelVars, live, arbs, ledger, todo, boundVars>>

-----------------------------------------------------------------------------
(* open_arb after its awaits: two fills, then the arb enters memory.       *)

\* record_fill: a fill id names its arb and its leg, and a second fill of the same id
\* leaves the first.
Recorded(id, leg) == [ledger EXCEPT ![id].fills = @ \cup {leg}]

TickersForOpen ==
  /\ at = "openFetch"
  /\ at' = "openSpot"
  /\ UNCHANGED <<kernelVars, live, arbs, ledger, todo, deal, boundVars>>

RecordSpotOpen ==
  /\ at = "openSpot"
  /\ ledger' = Append(ledger, [symbol |-> deal, fills |-> {"spot_open"}])
  /\ at' = "openPerp"
  /\ UNCHANGED <<kernelVars, live, arbs, todo, deal, boundVars>>

NewArb == [state |-> IF live THEN "opening" ELSE "open", id |-> Len(ledger), opened |-> now]

\* A plausible bug: a live arb is left for the operator and never enters memory.
RecordPerpOpenPaperOnly ==
  /\ at = "openPerp"
  /\ ledger' = Recorded(Len(ledger), "perp_open")
  /\ arbs' = IF live THEN arbs ELSE [arbs EXCEPT ![deal] = NewArb]
  /\ late' = IF kernel.halted THEN late + 1 ELSE 0
  /\ at' = "next" /\ deal' = "none"
  /\ UNCHANGED <<kernelVars, live, todo, faults, restarts>>

RecordPerpOpen ==
  /\ at = "openPerp"
  /\ ledger' = Recorded(Len(ledger), "perp_open")
  /\ arbs' = [arbs EXCEPT ![deal] = NewArb]
  /\ late' = IF kernel.halted THEN late + 1 ELSE 0
  /\ at' = "next" /\ deal' = "none"
  /\ UNCHANGED <<kernelVars, live, todo, faults, restarts>>

-----------------------------------------------------------------------------
(* close_arb after its awaits: two fills, then the result is booked.       *)

TickersForClose ==
  /\ at = "closeFetch"
  /\ arbs' = [arbs EXCEPT ![deal].state = "closing"]
  /\ at' = "closeSpot"
  /\ UNCHANGED <<kernelVars, live, ledger, todo, deal, boundVars>>

RecordSpotClose ==
  /\ at = "closeSpot"
  /\ ledger' = Recorded(arbs[deal].id, "spot_close")
  /\ at' = "closePerp"
  /\ UNCHANGED <<kernelVars, live, arbs, todo, deal, boundVars>>

\* A plausible bug: the perp leg's fill is forgotten when the arb closes.
ForgetPerpClose ==
  /\ at = "closePerp"
  /\ arbs' = [arbs EXCEPT ![deal].state = "closed"]
  /\ at' = "settle"
  /\ UNCHANGED <<kernelVars, live, ledger, todo, deal, boundVars>>

\* A plausible bug: the arb leaves memory before its result is booked.
CloseUnbooked ==
  /\ at = "closePerp"
  /\ ledger' = Recorded(arbs[deal].id, "perp_close")
  /\ arbs' = [arbs EXCEPT ![deal] = NoArb]
  /\ at' = "next" /\ deal' = "none"
  /\ UNCHANGED <<kernelVars, live, todo, boundVars>>

RecordPerpClose ==
  /\ at = "closePerp"
  /\ ledger' = Recorded(arbs[deal].id, "perp_close")
  /\ arbs' = [arbs EXCEPT ![deal].state = "closed"]
  /\ at' = "settle"
  /\ UNCHANGED <<kernelVars, live, todo, deal, boundVars>>

\* A plausible bug: the arb is put back to OPEN once its result is booked.
SettleReopens(pnl) ==
  /\ at = "settle"
  /\ Kernel!RecordTradeOutcome(pnl)
  /\ arbs' = [arbs EXCEPT ![deal].state = "open"]
  /\ at' = "next" /\ deal' = "none"
  /\ late' = IF kernel'.halted /\ ~kernel.halted THEN 0 ELSE late
  /\ UNCHANGED <<live, ledger, todo, faults, restarts>>

\* At an equity of exactly 0 record_trade_outcome raises: the cycle is abandoned
\* and the closed arb stays in _open_arbs.
Settle(pnl) ==
  /\ at = "settle"
  /\ Kernel!RecordTradeOutcome(pnl)
  /\ IF kernel'.current = 0
     THEN at' = "idle" /\ todo' = <<>> /\ UNCHANGED arbs
     ELSE at' = "next" /\ arbs' = [arbs EXCEPT ![deal] = NoArb] /\ UNCHANGED todo
  /\ deal' = "none"
  /\ late' = IF kernel'.halted /\ ~kernel.halted THEN 0 ELSE late
  /\ UNCHANGED <<live, ledger, faults, restarts>>

-----------------------------------------------------------------------------
(* What goes wrong, and who else reaches the kernel.                       *)

\* record_fill raises (database locked, disk full): the scheduler job logs it and
\* the cycle is over.
WriteFails ==
  /\ at \in {"openSpot", "openPerp", "closeSpot", "closePerp"}
  /\ faults < MaxFaults
  /\ faults' = faults + 1
  /\ at' = "idle" /\ todo' = <<>> /\ deal' = "none"
  /\ UNCHANGED <<kernelVars, live, arbs, ledger, late, restarts>>

\* main.py builds the strategy and the kernel anew; only the ledger is kept.
ProcessRestart ==
  /\ restarts < MaxRestarts
  /\ restarts' = restarts + 1
  /\ Kernel!Restart
  /\ arbs' = [s \in Allowed |-> NoArb]
  /\ at' = "idle" /\ todo' = <<>> /\ deal' = "none"
  /\ late' = 0
  /\ UNCHANGED <<live, ledger, faults>>

\* /halt, /resume and /risk_status.
Halt(ticks) ==
  /\ AtAwait
  /\ Kernel!ManualHalt(ticks)
  /\ late' = 0
  /\ UNCHANGED <<live, arbs, ledger, at, todo, deal, faults, restarts>>

Command ==
  /\ AtAwait
  /\ Kernel!ManualResume \/ Kernel!GetStatus
  /\ UNCHANGED <<live, arbs, ledger, at, todo, deal, boundVars>>

\* A tick is many minutes and a fetch has a timeout of seconds: time passes
\* between cycles.
Tick ==
  /\ at = "idle"
  /\ Kernel!Tick
  /\ UNCHANGED <<live, arbs, ledger, at, todo, deal, boundVars>>

Next ==
  \/ JobStart
  \/ \E list \in RateLists : RatesArrive(list)
  \/ EndCycle \/ Skip \/ AskKernel \/ BeginClose \/ FetchFails
  \/ TickersForOpen \/ RecordSpotOpen \/ RecordPerpOpen
  \/ TickersForClose \/ RecordSpotClose \/ RecordPerpClose
  \/ \E pnl \in Pnls : Settle(pnl)
  \/ WriteFails \/ ProcessRestart
  \/ \E ticks \in HaltTicks : Halt(ticks)
  \/ Command \/ Tick

Spec == Init /\ [][Next]_vars

Complete(list) == Allowed \subseteq {list[i].symbol : i \in DOMAIN list}

\* The scheduler fires the job every 15 minutes and the event loop runs what is
\* ready; the exchange answers, now and then, with every rate and with tickers.
Fairness ==
  /\ WF_vars(JobStart) /\ WF_vars(EndCycle) /\ WF_vars(Skip)
  /\ WF_vars(AskKernel) /\ WF_vars(BeginClose)
  /\ SF_vars(\E list \in RateLists : Complete(list) /\ RatesArrive(list))
  /\ SF_vars(TickersForClose) /\ WF_vars(FetchFails \/ TickersForOpen)
  /\ WF_vars(RecordSpotOpen) /\ WF_vars(RecordPerpOpen)
  /\ WF_vars(RecordSpotClose) /\ WF_vars(RecordPerpClose)
  /\ WF_vars(\E pnl \in Pnls : Settle(pnl))
  /\ SF_vars(Tick)

FairSpec == Spec /\ Fairness

-----------------------------------------------------------------------------
(* Properties.                                                             *)

Half(fills) == fills \in {{"spot_open"}, {"spot_open", "perp_open", "spot_close"}}
Closed == {i \in DOMAIN ledger : "perp_close" \in ledger[i].fills}
OpenOn(symbol) == {i \in DOMAIN ledger : ledger[i].symbol = symbol /\ i \notin Closed}

\* An arb the strategy holds as open stands in the ledger with both opening legs and
\* no closing one, under its own symbol, through failed writes and abandoned fetches
\* (open_arb registers it last, close_arb leaves OPEN first).
TrackedIsHedged ==
  \A s \in Allowed : arbs[s].state \in {"opening", "open"} =>
    ledger[arbs[s].id] = [symbol |-> s, fills |-> {"spot_open", "perp_open"}]

\* Whenever the job waits, each arb that stands on one leg is owed to a write that
\* failed or a process that died between its two fills: no path of open_arb or
\* close_arb leaves a naked leg by itself.
UnhedgedNeedsFault ==
  AtAwait => Cardinality({i \in DOMAIN ledger : Half(ledger[i].fills)}) <= faults + restarts

\* A halt lets at most one opening through, the one whose approval was already
\* given when it struck (approve_trade is asked before the tickers are awaited and
\* not again after).
OneThroughPerHalt == late <= 1

\* Each arb closed on both legs is booked to the kernel once, and nothing else is:
\* only a death between the last fill and the booking loses a result.
OutcomesMatchCloses ==
  /\ outcomes <= Cardinality(Closed)
  /\ Cardinality(Closed) <= outcomes + restarts + (IF at = "settle" THEN 1 ELSE 0)

\* The ledger never holds more than one open arb of a symbol but for those a restart
\* or a failed write orphaned.
ExposureBounded ==
  \A s \in Allowed : Cardinality(OpenOn(s)) <= 1 + restarts + faults

\* No closing leg is sold before the arb has been held for the 24 hours that
\* should_close asks for, whatever the rate did while the tickers were awaited.
NoEarlyClose ==
  [][\A s \in Allowed :
       arbs[s].state = "closing" /\ ledger' # ledger /\ deal = s
         => now >= arbs[s].opened + Day]_vars

\* Every paper arb is closed in the end, by its rate or by its age, unless a ledger write
\* fails: neither a halt nor a failed fetch keeps it open for ever.
EveryArbCloses ==
  \A s \in Allowed :
    ~live /\ arbs[s] # NoArb ~> arbs[s].state \in {"none", "closed"} \/ faults > 0

\* "In-memory tracking of open arbs (also persisted via ledger positions)": while the
\* job is idle, an arb hedged in the ledger is one the strategy knows.
MemoryMatchesLedger ==
  at = "idle" =>
    \A i \in DOMAIN ledger :
      ledger[i].fills = {"spot_open", "perp_open"} => \E s \in Allowed : arbs[s].id = i

\* "Open threshold raised to 0.040%/8h for ETH (1.5x break-even), and 0.050%/8h for
\* SOL": a rate at its symbol's threshold opens, when nothing is open and equity
\* covers the cap.
ThresholdOpens ==
  \A fr \in Range(todo) :
    /\ fr.symbol \in Allowed /\ fr.rate >= OpenAt[fr.symbol]
    /\ Active = {} /\ 5 * LegSize <= kernel.current
    => ShouldOpen(fr)
=============================================================================
