--------------------------- MODULE LiquidityVortex ---------------------------
(***************************************************************************)
(* The Liquidity Vortex strategy (src/bot/strategies/liquidity_vortex.py)  *)
(* on top of the market state provider.  The scheduler starts a cycle      *)
(* every CycleEvery unless one is running; a cycle manages the position of *)
(* each symbol in turn and then looks for an entry.  In live trading every *)
(* order is an await: cyc names the order the cycle is parked at, and the  *)
(* feeds, the clock and the exchange go on meanwhile.  In paper trading    *)
(* nothing is awaited.  The exchange, external, answers an order with "ok", *)
(* rejects it, or executes it and lets the answer get lost.  Positions and *)
(* cooldowns live in memory only.  The kernel and the ledger are those of  *)
(* the protocols in lv1_models.py; the strategy is enabled.                *)
(***************************************************************************)
EXTENDS MarketState, VortexSignals

CONSTANTS
    Swing,        \* direction -> the swing level its sweep pierces
    Contexts,     \* what an evaluation may read besides the market state
    Kernels,      \* [allowed, drawdown] the kernel may answer
    BtcReturns,   \* last one-minute returns of the reference symbol
    Modes,        \* values of live_trading
    Size,         \* quantity of a new position
    Flat,         \* no position
    CycleEvery, Cooldown, MaxAge,     \* in clock steps
    MaxEntries, MaxFaults             \* bounds of the model; outages are
                                      \* counted against MaxFaults as well

Directions == {1, -1}

ASSUME VortexAssumption ==
    /\ Swing \in [Directions -> Int]
    /\ Modes \subseteq BOOLEAN
    /\ {Cooldown, MaxAge, MaxEntries, MaxFaults} \subseteq Nat
    /\ CycleEvery \in Nat \ {0} /\ Size \in Nat \ {0} /\ Size % 10 = 0

VARIABLES
    live,       \* live_trading
    open,       \* open_positions: symbol -> position or Flat
    cooldown,   \* symbol -> time its cooldown still lasts
    cyc,        \* the running cycle
    due,        \* time until the scheduler's next start
    ex,         \* the exchange: symbol -> [resting, held, stop]
    skipped,    \* symbol -> management passes in a row without a market state
    causes,     \* symbol -> why memory and exchange may differ
    entries, faults

strategy == <<live, open, cooldown, cyc, due, ex, skipped, causes, entries, faults>>
vars == <<provider, strategy>>

Tracked == {s \in Syms : open[s] # Flat}
Idle == [pc |-> "idle", i |-> 1, view |-> Absent, plan |-> Flat]
Sym == Symbols[cyc.i]
(* The event loop runs other tasks only while the cycle awaits an order.   *)
Parked == cyc.pc \notin {"manage", "evaluate"}
NothingThere == [resting |-> [d \in Directions |-> 0], held |-> 0, stop |-> 0]

-----------------------------------------------------------------------------
(* Levels and triggers of a position p in the market state v               *)

Entry(d) == Swing[d] + 5 * d
Gain(p, price) == p.dir * (price - Entry(p.dir))
HitTp(p, v, halves) == 2 * Gain(p, v.price) >= halves * p.atr
WantsTp1(p, v) == HitTp(p, v, 3) /\ ~p.tp1
WantsTp2(p, v) == HitTp(p, v, 5) /\ p.tp1 /\ ~p.tp2

Part(p, tp) == IF tp = "tp1" THEN p.qty \div 2 ELSE (3 * p.qty) \div 5

(* The level counts as done, and the stop is moved, whether the order      *)
(* succeeded or not; the quantity changes only if it did.                  *)
Took(p, tp, ok) ==
    LET q == [p EXCEPT !.qty = IF ok THEN @ - Part(p, tp) ELSE @]
    IN  IF tp = "tp1" THEN [q EXCEPT !.tp1 = TRUE, !.stop = Entry(p.dir) + 10 * p.dir]
        ELSE [q EXCEPT !.tp2 = TRUE]

Trail(p, v) == v.price - p.dir * ((6 * v.atr) \div 5)
Better(d, a, b) == IF d * a > d * b THEN a ELSE b

(* A plausible bug: the stop follows the price in both directions.         *)
TrailedEitherWay(p, v) == IF p.tp1 THEN [p EXCEPT !.stop = Trail(p, v)] ELSE p

Trailed(p, v) ==
    IF p.tp1 THEN [p EXCEPT !.stop = Better(p.dir, @, Trail(p, v))] ELSE p

(* FUNDING_FLIP, SPREAD_BLOWOUT and BTC_IMPULSE                            *)
Emergency(v, d, btc) == d * v.rate > 10 \/ v.spread > 12 \/ d * btc < -120

(* What a pass of management keeps of the market state it read.            *)
View(s, btc) == [price |-> State(s).price, atr |-> State(s).atr,
                 emergency |-> Emergency(State(s), open[s].dir, btc)]

(* A plausible bug: the age limit is judged by the stop that has trailed.  *)
MustCloseByStop(p, v) ==
    \/ v.emergency
    \/ p.age > MaxAge /\ p.dir * (v.price - p.stop) < 0

(* An emergency or TIME_EXIT                                               *)
MustClose(p, v) ==
    \/ v.emergency
    \/ p.age > MaxAge /\ 2 * Gain(p, v.price) < p.risk

(* Where management goes on after the orders before: the next await, if    *)
(* any, and the position as it is by then.                                 *)
AfterTp2(p, v) == LET q == Trailed(p, v)
                  IN  [pos |-> q, pc |-> IF MustClose(q, v) THEN "close" ELSE "evaluate"]
AfterTp1(p, v) == IF WantsTp2(p, v) THEN [pos |-> p, pc |-> "tp2"] ELSE AfterTp2(p, v)
FromStart(p, v) == IF WantsTp1(p, v) THEN [pos |-> p, pc |-> "tp1"] ELSE AfterTp1(p, v)

OnPaper(p, v) ==
    LET a == IF WantsTp1(p, v) THEN Took(p, "tp1", TRUE) ELSE p
        b == IF WantsTp2(a, v) THEN Took(a, "tp2", TRUE) ELSE a
    IN  AfterTp2(b, v)

NewPosition(d, v) ==
    [dir |-> d, qty |-> Size, stop |-> Entry(d) - d * StopGap(v), risk |-> StopGap(v),
     atr |-> v.atr, tp1 |-> FALSE, tp2 |-> FALSE, age |-> 0]

Positions ==
    [dir : Directions, qty : 1..Size, stop : Int, risk : Nat, atr : Nat,
     tp1 : BOOLEAN, tp2 : BOOLEAN, age : 0..(MaxAge + 1)]

Views == [price : Int, atr : Int, emergency : BOOLEAN]

ASSUME FlatAssumption == Flat \notin Positions

-----------------------------------------------------------------------------
(* The exchange (external).  Held is signed; an order that only reduces is *)
(* rejected when there is nothing to reduce.                               *)

Least(a, b) == IF a < b THEN a ELSE b
Reducible(s, d, q) == Least(q, Max({d * ex[s].held, 0}))
Reduced(s, d, q) == [ex EXCEPT ![s].held = @ - d * Reducible(s, d, q)]

Fault == faults + outages < MaxFaults /\ faults' = faults + 1
Answers == {"ok", "rejected", "lost"}
Troubled(s, why) == causes' = [causes EXCEPT ![s] = @ \cup {why}]

(* What an answer costs: refusing what cannot be done is no fault.         *)
Answered(answer, possible) ==
    CASE answer = "ok" -> possible /\ UNCHANGED faults
      [] answer = "rejected" /\ ~possible -> UNCHANGED faults
      [] OTHER -> possible /\ Fault

-----------------------------------------------------------------------------
Init ==
    /\ ProviderInit
    /\ live \in Modes
    /\ open = [s \in Syms |-> Flat]
    /\ cooldown = [s \in Syms |-> 0]
    /\ cyc = Idle /\ due = CycleEvery
    /\ ex = [s \in Syms |-> NothingThere]
    /\ skipped = [s \in Syms |-> 0]
    /\ causes = [s \in Syms |-> {}]
    /\ entries = 0 /\ faults = 0

StartCycle ==
    /\ due = 0 /\ cyc.pc = "idle"
    /\ due' = CycleEvery
    /\ cyc' = [Idle EXCEPT !.pc = "manage"]
    /\ UNCHANGED <<provider, live, open, cooldown, ex, skipped, causes, entries, faults>>

NextSymbol == cyc' = IF cyc.i < Len(Symbols) THEN [Idle EXCEPT !.pc = "manage", !.i = cyc.i + 1]
                     ELSE Idle
Go(pc, v) == cyc' = [cyc EXCEPT !.pc = pc, !.view = v]

ManageNothing ==
    /\ cyc.pc = "manage"
    /\ Sym \notin Tracked \/ ~HasState(Sym)
    /\ Go("evaluate", Absent)
    /\ skipped' = [skipped EXCEPT ![Sym] = IF Sym \in Tracked THEN @ + 1 ELSE 0]
    /\ UNCHANGED <<provider, live, open, cooldown, due, ex, causes, entries, faults>>

ManagePosition ==
    /\ cyc.pc = "manage" /\ Sym \in Tracked /\ HasState(Sym)
    /\ \E btc \in BtcReturns :
          LET v == View(Sym, btc)
              r == IF live THEN FromStart(open[Sym], v) ELSE OnPaper(open[Sym], v)
              out == ~live /\ r.pc = "close"
          IN  /\ open' = [open EXCEPT ![Sym] = IF out THEN Flat ELSE r.pos]
              /\ IF out \/ r.pc = "evaluate" THEN Go("evaluate", Absent) ELSE Go(r.pc, v)
    /\ skipped' = [skipped EXCEPT ![Sym] = 0]
    /\ UNCHANGED <<provider, live, cooldown, due, ex, causes, entries, faults>>

(* A partial close is answered; the rest of management uses the market     *)
(* state read before the order was sent.                                   *)
AnswerPartial ==
    /\ cyc.pc \in {"tp1", "tp2"}
    /\ \E answer \in Answers :
          LET p == open[Sym]
              q == Took(p, cyc.pc, answer = "ok")
              r == IF cyc.pc = "tp1" THEN AfterTp1(q, cyc.view) ELSE AfterTp2(q, cyc.view)
          IN  /\ Answered(answer, Reducible(Sym, p.dir, 1) > 0)
              /\ IF answer = "lost" THEN Troubled(Sym, "lost") ELSE UNCHANGED causes
              /\ ex' = IF answer = "rejected" THEN ex ELSE Reduced(Sym, p.dir, Part(p, cyc.pc))
              /\ open' = [open EXCEPT ![Sym] = r.pos]
              /\ Go(r.pc, IF r.pc = "evaluate" THEN Absent ELSE cyc.view)
    /\ UNCHANGED <<provider, live, cooldown, due, skipped, entries>>

(* A plausible bug: the quantity is worked out as for a take-profit.       *)
ClosedInPart(answer, p) == IF answer = "rejected" THEN ex ELSE Reduced(Sym, p.dir, Part(p, "tp1"))

Closed(answer, p) == IF answer = "rejected" THEN ex ELSE Reduced(Sym, p.dir, p.qty)

(* A full close is answered; the position is forgotten in any case.        *)
AnswerClose ==
    /\ cyc.pc = "close"
    /\ \E answer \in Answers :
          /\ Answered(answer, Reducible(Sym, open[Sym].dir, 1) > 0)
          /\ ex' = Closed(answer, open[Sym])
          /\ IF answer = "rejected" THEN Troubled(Sym, "not closed") ELSE UNCHANGED causes
    /\ open' = [open EXCEPT ![Sym] = Flat]
    /\ Go("evaluate", Absent)
    /\ UNCHANGED <<provider, live, cooldown, due, skipped, entries>>

-----------------------------------------------------------------------------
(* The entry                                                               *)

Cooling(s) == cooldown[s] > 0

(* What the kernel, the cooldown and the provider must allow first.        *)
MayLook(k) ==
    /\ k.allowed /\ Sym \notin Tracked /\ ~Cooling(Sym)
    /\ AegisMultiplier(k.drawdown) > 0 /\ HasState(Sym)

(* The volatility of the hour has no baseline at first: the ratio is 1.    *)
Reading(c, btc) == [c EXCEPT !.btc = btc, !.ratio = IF NoBaseline(Sym) /\ @ > 0 THEN 100 ELSE @]

Candidates(c) == {d \in Setups(c) : HardGates(State(Sym), c, d)}
Worthy(c, d, k) == /\ PassesThreshold(State(Sym), c, d)
                   /\ Sizeable(State(Sym), c, d, k.drawdown)

EvaluateNothing ==
    /\ cyc.pc = "evaluate"
    /\ \E k \in Kernels, c \in Contexts, btc \in BtcReturns :
          \/ ~MayLook(k)
          \/ /\ MayLook(k)
             /\ LET r == Reading(c, btc)
                IN  \A d \in Candidates(r) : ~Blocked(State(Sym), r, d) /\ ~Worthy(r, d, k)
    /\ NextSymbol
    /\ UNCHANGED <<provider, live, open, cooldown, due, ex, skipped, causes, entries, faults>>

EvaluateBlocked ==
    /\ cyc.pc = "evaluate"
    /\ \E k \in Kernels, c \in Contexts, btc \in BtcReturns :
          /\ MayLook(k)
          /\ \E d \in Candidates(Reading(c, btc)) : Blocked(State(Sym), Reading(c, btc), d)
    /\ cooldown' = [cooldown EXCEPT ![Sym] = Cooldown]
    /\ NextSymbol
    /\ UNCHANGED <<provider, live, open, due, ex, skipped, causes, entries, faults>>

(* An entry is stored at once on paper and sent as an order otherwise.     *)
EvaluateEntry ==
    /\ cyc.pc = "evaluate" /\ entries < MaxEntries
    /\ \E k \in Kernels, c \in Contexts, btc \in BtcReturns :
          LET r == Reading(c, btc)
          IN  /\ MayLook(k)
              /\ \E d \in Candidates(r) :
                    /\ ~Blocked(State(Sym), r, d) /\ Worthy(r, d, k)
                    /\ LET p == NewPosition(d, State(Sym))
                       IN  IF live
                           THEN /\ cyc' = [cyc EXCEPT !.pc = "entry", !.plan = p]
                                /\ UNCHANGED open
                           ELSE /\ open' = [open EXCEPT ![Sym] = p]
                                /\ NextSymbol
    /\ entries' = entries + 1
    /\ UNCHANGED <<provider, live, cooldown, due, ex, skipped, causes, faults>>

AnswerEntry ==
    /\ cyc.pc = "entry"
    /\ \E answer \in Answers :
          /\ Answered(answer, TRUE)
          /\ IF answer = "lost" THEN Troubled(Sym, "lost") ELSE UNCHANGED causes
          /\ ex' = IF answer = "rejected" THEN ex
                   ELSE [ex EXCEPT ![Sym].resting[cyc.plan.dir] = @ + Size]
          /\ IF answer = "ok" THEN cyc' = [cyc EXCEPT !.pc = "stop"] ELSE NextSymbol
    /\ UNCHANGED <<provider, live, open, cooldown, due, skipped, entries>>

(* The stop order may fail: the position is kept without one.              *)
AnswerStop ==
    /\ cyc.pc = "stop"
    /\ \/ ex' = [ex EXCEPT ![Sym].stop = cyc.plan.dir] /\ UNCHANGED faults
       \/ Fault /\ UNCHANGED ex
    /\ open' = [open EXCEPT ![Sym] = cyc.plan]
    /\ NextSymbol
    /\ UNCHANGED <<provider, live, cooldown, due, skipped, causes, entries>>

-----------------------------------------------------------------------------
(* The rest of the world                                                   *)

(* A resting entry is filled; nothing ever cancels one.                    *)
Fill(s, d) ==
    /\ ex[s].resting[d] > 0
    /\ ex' = [ex EXCEPT ![s].held = @ + d * ex[s].resting[d], ![s].resting[d] = 0]
    /\ UNCHANGED <<provider, live, open, cooldown, cyc, due, skipped, causes, entries, faults>>

(* The price reaches the stop order, which closes whatever is held.        *)
StopFires(s) ==
    /\ ex[s].stop # 0 /\ ex[s].stop * ex[s].held > 0
    /\ ex' = [ex EXCEPT ![s].held = 0, ![s].stop = 0]
    /\ Troubled(s, "stopped")
    /\ UNCHANGED <<provider, live, open, cooldown, cyc, due, skipped, entries, faults>>

Restart ==
    /\ Fault
    /\ ProviderStart
    /\ causes' = [s \in Syms |-> IF ex[s] = NothingThere THEN causes[s]
                                 ELSE causes[s] \cup {"restart"}]
    /\ open' = [s \in Syms |-> Flat] /\ cooldown' = [s \in Syms |-> 0]
    /\ skipped' = [s \in Syms |-> 0]
    /\ cyc' = Idle /\ due' = CycleEvery
    /\ UNCHANGED <<live, ex, entries>>

(* A start that is due while a cycle runs is dropped.                      *)
Tick ==
    /\ Parked /\ ProviderElapse
    /\ ~(due = 0 /\ cyc.pc = "idle")
    /\ due' = (IF due = 0 THEN CycleEvery ELSE due) - 1
    /\ cooldown' = [s \in Syms |-> Max({cooldown[s] - 1, 0})]
    /\ open' = [s \in Syms |-> IF s \notin Tracked THEN Flat
                               ELSE [open[s] EXCEPT !.age = Least(@ + 1, MaxAge + 1)]]
    /\ UNCHANGED <<live, cyc, ex, skipped, causes, entries, faults>>

Feed(s) == /\ Parked /\ FeedStep(s) /\ faults + outages' <= MaxFaults
           /\ UNCHANGED strategy
Trouble(s) == /\ Parked /\ FeedTrouble(s) /\ faults + outages' <= MaxFaults
              /\ UNCHANGED strategy

Cycle ==
    \/ StartCycle \/ ManageNothing \/ ManagePosition \/ AnswerPartial \/ AnswerClose
    \/ EvaluateNothing \/ EvaluateBlocked \/ EvaluateEntry \/ AnswerEntry \/ AnswerStop

Next ==
    \/ Cycle \/ Tick \/ Restart
    \/ \E s \in Syms : \/ Feed(s)
                       \/ Trouble(s)
                       \/ StopFires(s)
                       \/ \E d \in Directions : Fill(s, d)

Spec == Init /\ [][Next]_vars

(* The scheduler starts its cycles, the event loop runs what is ready, an  *)
(* order is answered and a feed that is asked answers, outages excepted.   *)
FairSpec ==
    /\ Spec /\ WF_vars(Cycle) /\ WF_vars(Tick)
    /\ \A s \in Syms : WF_vars(Feed(s))

-----------------------------------------------------------------------------
(* Properties                                                              *)

TypeOK ==
    /\ ProviderTypeOK
    /\ live \in Modes
    /\ open \in [Syms -> Positions \cup {Flat}]
    /\ cooldown \in [Syms -> 0..Cooldown]
    /\ cyc.pc \in {"idle", "manage", "tp1", "tp2", "close", "evaluate", "entry", "stop"}
    /\ cyc.i \in 1..Len(Symbols) /\ cyc.plan \in Positions \cup {Flat}
    /\ (cyc.pc \in {"tp1", "tp2", "close"}) => live /\ cyc.view \in Views /\ Sym \in Tracked
    /\ due \in 0..CycleEvery
    /\ \A s \in Syms : /\ ex[s].held \in Int /\ ex[s].stop \in Directions \cup {0}
                        /\ ex[s].resting \in [Directions -> Nat]
    /\ skipped \in [Syms -> Nat]
    /\ entries \in 0..MaxEntries /\ faults \in 0..MaxFaults

(* In live trading memory and exchange agree on what each symbol is in for *)
(* (the entry may still rest, and may be waiting for its stop order),      *)
(* unless an answer got lost, a full close failed, a stop order fired at   *)
(* the exchange or the process was restarted: rejected take-profits and    *)
(* rejected entries do not break it (_close_partial, _close_full,          *)
(* execute_signal).                                                        *)
InFor(s) == IF s \in Tracked THEN open[s].dir * open[s].qty
            ELSE IF cyc.pc = "stop" /\ Sym = s THEN cyc.plan.dir * Size ELSE 0
TrackedIsHeld ==
    live => \A s \in Syms :
        causes[s] = {} => ex[s].held + ex[s].resting[1] - ex[s].resting[-1] = InFor(s)

(* While the feeds are healthy a position is never passed over in three    *)
(* cycles running, although the funding rate is fresh for less than half of *)
(* the time from one value to the next, which is the sleep and the request *)
(* (MarketStateProvider.__call__, _funding_poll_task, manage_position).    *)
(* It is so with one symbol, or on paper: live, the orders another symbol  *)
(* waits for put its cycles further apart.                                 *)
NeverSkippedThrice == outages = 0 => \A s \in Syms : skipped[s] <= 2

(* The stop of a position never moves against it, neither at break-even    *)
(* nor while it trails the price (_move_stop_to_breakeven,                 *)
(* _compute_trailing_stop).                                                *)
StopNeverBacksUp ==
    [][\A s \in Tracked : open'[s] # Flat =>
          open[s].dir * open'[s].stop >= open[s].dir * open[s].stop]_vars

(* No position that is losing is tracked for ever: the age limit gets it   *)
(* out, whatever the feeds have been through (manage_position).            *)
Losing(s) == /\ s \in Tracked /\ book[s] # Absent
             /\ Gain(open[s], book[s].price) < 0
LosersLeave == \A s \in Syms : ~<>[]Losing(s)

(* What manage_position is said to do, a trailing stop at every tick: a    *)
(* position it has looked at and kept is on the right side of its stop.    *)
StopIsKept ==
    [][\A s \in Tracked :
          /\ cyc.pc = "manage" /\ cyc'.pc = "evaluate" /\ Sym = s
          /\ HasState(s) /\ open'[s] # Flat
          => open[s].dir * (book[s].price - open[s].stop) >= 0]_vars
=============================================================================
