-------------------------- MODULE OrchestraProofs --------------------------
(***************************************************************************)
(* Theorems about Orchestra for every universe, capital, cap, reading,     *)
(* regime and event: what the kill switch, the operator's halts and the    *)
(* regime matrix never undo, and what the caps of a symbol hold to.        *)
(***************************************************************************)
EXTENDS Orchestra, TLAPS

-----------------------------------------------------------------------------
(* What the three theorems need of the types.                              *)

Flags ==
  /\ enabled \in [Strategies -> BOOLEAN]
  /\ status \in [Strategies -> Statuses]
  /\ restarts \in Nat

\* The regime matrix gives every strategy a status.
LEMMA MatrixType ==
  ASSUME NEW regime, Flags
  PROVE  RegimeMatrix(regime) \in [Strategies -> Statuses]
  BY DEF RegimeMatrix, Flags, Statuses, RunStatus

\* The matrix leaves a halted strategy halted and disables only what holds nothing.
LEMMA MatrixSpares ==
  ASSUME NEW regime, Flags, NEW s \in Strategies
  PROVE  /\ status[s] = "HALTED" => RegimeMatrix(regime)[s] = "HALTED"
         /\ RegimeMatrix(regime)[s] = "DISABLED" /\ enabled[s] =>
              status[s] = "DISABLED" \/ ~HasPositions(s)
  BY DEF RegimeMatrix, Flags, Statuses, RunStatus

\* Every signal carries the name of the strategy that was evaluated.
LEMMA SignalsAreSigned ==
  ASSUME NEW s \in Strategies, NEW sym, NEW r, NEW regime,
         NEW sig \in Evaluate(s, sym, r, regime)
  PROVE  sig.strategy = s
<1>1. CASE s = "mr"
  <2>1. sig \in MrEvaluate(sym, r)
    BY <1>1 DEF Evaluate
  <2>2. CASE sym \notin Held
    BY <1>1, <2>1, <2>2 DEF MrEvaluate, Signal
  <2>3. CASE sym \in Held
    BY <1>1, <2>1, <2>3 DEF MrEvaluate, Signal
  <2>. QED
    BY <2>2, <2>3
<1>2. CASE s = "dca"
  BY <1>2 DEF Evaluate, DcaEvaluate, Signal
<1>3. CASE s = "cvd"
  BY <1>3 DEF Evaluate, CvdEvaluate, Signal
<1>. QED
  BY <1>1, <1>2, <1>3 DEF Strategies

\* A strategy that does not run books no fill.
LEMMA IdleBuysNothing ==
  ASSUME NEW data, NEW regime, NEW sym,
         ~Running(RegimeMatrix(regime)["mr"])
  PROVE  PositionAfter(sym, Fills(Signals(data, regime), sym)) = positions[sym]
<1>1. \A sig \in Signals(data, regime) : sig.strategy # "mr"
  <2>. SUFFICES ASSUME NEW sig \in Signals(data, regime) PROVE sig.strategy # "mr"
    OBVIOUS
  <2>1. PICK s \in {x \in Strategies : Running(RegimeMatrix(regime)[x])}, d \in DOMAIN data :
          sig \in Evaluate(s, d, data[d], regime)
    BY DEF Signals
  <2>. QED
    BY <2>1, SignalsAreSigned
<1>2. Fills(Signals(data, regime), sym) \subseteq Signals(data, regime)
  BY DEF Fills, Resolve, Best, Exits, Longs, Shorts
<1>. QED
  BY <1>1, <1>2 DEF PositionAfter

-----------------------------------------------------------------------------
(* The invariant.                                                          *)

Managed == Flags /\ HoldersStayManaged

\* The invariant holds when the orchestra starts.
LEMMA InitManaged == Init => Managed
  BY DEF Init, Managed, Flags, HoldersStayManaged, Strategies, Statuses, Held

\* A round of the orchestra keeps the invariant.
LEMMA TickManaged ==
  ASSUME Managed, NEW data \in Fetched, NEW regime \in Regimes, OrchestraTick(data, regime)
  PROVE  Managed'
<1>. USE DEF Managed
<1>1. CASE engaged /\ UNCHANGED <<status, funded, holdings, portfolio>>
  BY <1>1 DEF OrchestraTick, Flags, HoldersStayManaged, Held, holdings
<1>2. CASE EngageKillSwitch
  BY <1>2 DEF OrchestraTick, EngageKillSwitch, Flags, HoldersStayManaged, Strategies, Statuses
<1>3. CASE Execute(data, regime)
  <2>1. Flags'
    BY <1>3, MatrixType DEF OrchestraTick, Execute, Flags
  <2>2. ASSUME status'["mr"] = "DISABLED", enabled'["mr"]
        PROVE  Held' = {}
    <3>1. RegimeMatrix(regime)["mr"] = "DISABLED" /\ enabled["mr"]
      BY <1>3, <2>2 DEF OrchestraTick, Execute
    <3>2. Held = {}
      BY <3>1, MatrixSpares DEF Strategies, HasPositions, HoldersStayManaged
    <3>3. \A sym \in Universe : positions'[sym] = positions[sym]
      BY <1>3, <3>1, IdleBuysNothing DEF Execute, Running
    <3>. QED
      BY <3>2, <3>3 DEF Held
  <2>. QED
    BY <2>1, <2>2 DEF HoldersStayManaged
<1>. QED
  BY <1>1, <1>2, <1>3 DEF OrchestraTick

\* A status set by the matrix keeps the invariant.
LEMMA SetManaged ==
  ASSUME Managed, NEW s \in Strategies, NEW on \in BOOLEAN, NEW st \in Statuses,
         SetStrategy(s, on, st), s = "mr" /\ st = "DISABLED" => ~on
  PROVE  Managed'
<1>. USE DEF Managed
<1>1. Flags'
  BY DEF SetStrategy, Flags
<1>2. Held' = Held
  BY DEF SetStrategy, Held, holdings
<1>3. CASE s = "mr"
  BY <1>1, <1>3 DEF SetStrategy, Flags, HoldersStayManaged, Strategies
<1>4. CASE s # "mr"
  BY <1>1, <1>2, <1>4 DEF SetStrategy, Flags, HoldersStayManaged, Strategies
<1>. QED
  BY <1>3, <1>4

\* An operator's command keeps the invariant.
LEMMA CommandManaged ==
  ASSUME Managed, NEW s \in Strategies,
         \/ \E mode \in {"PAPER", "LIVE"} : EnableStrat(s, mode)
         \/ DisableStrat(s) \/ HaltStrat(s) \/ ResumeStrat(s)
  PROVE  Managed'
<1>1. ASSUME NEW mode \in {"PAPER", "LIVE"}, EnableStrat(s, mode)
      PROVE  Managed'
  BY <1>1, SetManaged DEF EnableStrat, Statuses
<1>2. CASE DisableStrat(s)
  BY <1>2, SetManaged DEF DisableStrat, Statuses
<1>3. CASE HaltStrat(s)
  BY <1>3, SetManaged DEF HaltStrat, Statuses, Managed, Flags
<1>4. CASE ResumeStrat(s)
  BY <1>4, SetManaged DEF ResumeStrat, RunStatus, Statuses
<1>. QED
  BY <1>1, <1>2, <1>3, <1>4

\* Every step keeps the invariant.
LEMMA NextManaged == Managed /\ [Next]_vars => Managed'
<1>. SUFFICES ASSUME Managed, [Next]_vars PROVE Managed'
  OBVIOUS
<1>1. ASSUME NEW b \in TotalEquity, PortfolioSync(b) PROVE Managed'
  BY <1>1 DEF PortfolioSync, Managed, Flags, HoldersStayManaged, Held, holdings
<1>2. ASSUME NEW e \in MacroEvents, TriggerEvent(e) PROVE Managed'
  BY <1>2 DEF TriggerEvent, Managed, Flags, HoldersStayManaged, Held, holdings
<1>3. CASE Restart
  BY <1>3 DEF Restart, Fresh, Managed, Flags, HoldersStayManaged, Strategies, Statuses, Held
<1>4. CASE Tick
  BY <1>4 DEF Tick, Managed, Flags, HoldersStayManaged, Held, holdings
<1>5. CASE UNCHANGED vars
  BY <1>5 DEF vars, Managed, Flags, HoldersStayManaged, Held, holdings
<1>. QED
  BY <1>1, <1>2, <1>3, <1>4, <1>5, TickManaged, CommandManaged DEF Next

\* Every reachable state satisfies the invariant of the statuses.
LEMMA AlwaysManaged == Spec => []Managed
  BY InitManaged, NextManaged, PTL DEF Spec

-----------------------------------------------------------------------------
(* What a tick buys: at most one fill for each symbol, and one that fits.  *)

Filled(fills) == MapThenSumSet(Allocated, fills)

\* The sum that _apply_orchestra_caps books, over no fill and over one.
LEMMA SumOfNone == Filled({}) = 0
<1> DEFINE F(iter) == [s \in SUBSET {} |-> IF s = {} THEN 0 ELSE Allocated(CHOOSE x \in s : TRUE) + iter[s \ {CHOOSE x \in s : TRUE}]]
<1>1. \E iter : iter = F(iter)
  OBVIOUS
<1>. QED
  BY <1>1 DEF Filled, MapThenSumSet, MapThenFoldSet

\* The exposure of one strategy is its own.
LEMMA SumOfOne ==
  ASSUME NEW a, Allocated(a) \in Int
  PROVE  Filled({a}) = Allocated(a)
<1> DEFINE F(iter) ==
      [s \in SUBSET {a} |->
        IF s = {} THEN 0 ELSE Allocated(CHOOSE x \in s : TRUE) + iter[s \ {CHOOSE x \in s : TRUE}]]
           g == [s \in SUBSET {a} |-> IF s = {} THEN 0 ELSE Allocated(a)]
<1>1. (CHOOSE x \in {a} : TRUE) = a /\ {a} \ {CHOOSE x \in {a} : TRUE} = {}
  OBVIOUS
<1>2. \A iter : F(iter)[{}] = 0 /\ F(iter)[{a}] = Allocated(a) + iter[{}]
  BY <1>1
<1>3. g = F(g)
  <2>1. ASSUME NEW s \in SUBSET {a} PROVE g[s] = F(g)[s]
    <3>1. s = {} \/ s = {a}
      OBVIOUS
    <3>. QED
      BY <1>2, <3>1
  <2>. QED
    BY <2>1
<1>4. PICK it : it = F(it) /\ Filled({a}) = it[{a}]
  BY <1>3 DEF Filled, MapThenSumSet, MapThenFoldSet
<1>. HIDE DEF F
<1>5. it[{}] = 0 /\ it[{a}] = Allocated(a) + it[{}]
  BY <1>2, <1>4
<1>. QED
  BY <1>4, <1>5

\* Capital and order sizes are whole amounts.
LEMMA Sizes ==
  /\ SymbolCap \in Nat /\ EventCapital \in Nat
  /\ \A t \in 1 .. 3 : TierSize(t) \in Nat
  /\ \A s \in Universe : TrancheSize(s) \in Nat
<1>1. /\ CapitalOf("mr") \in Nat /\ CapitalOf("dca") \in Nat /\ SymbolCap \in Nat
  BY OrchestraAssumption DEF CapitalOf, SymbolCap
<1>2. \A t \in 1 .. 3 : TierSize(t) \in Nat
  BY <1>1 DEF TierSize
<1>3. EventCapital \in Nat
  BY <1>1 DEF EventCapital
<1>4. \A s \in Universe : TrancheSize(s) \in Nat
  <2>1. \A s \in Universe : Weight[s] \in Nat
    BY OrchestraAssumption DEF Weight
  <2>. QED
    BY <1>3, <2>1 DEF TrancheSize, TrancheCount
<1>. QED
  BY <1>1, <1>2, <1>3, <1>4

\* A dip that mean reversion buys is more certain to it than 60%.
LEMMA EntryIsConfident ==
  ASSUME NEW r, Dropped(r) \/ Oversold(r)
  PROVE  EntryConfidence(r) \in Int /\ EntryConfidence(r) > 60
  BY DEF EntryConfidence

\* Of mean reversion's signals only an entry carries the price a fill needs.
LEMMA PricedMrSignal ==
  ASSUME NEW sym, NEW r, NEW sig \in MrEvaluate(sym, r), sig.price > 0
  PROVE  /\ sig = Signal("mr", sym, "ENTER_LONG", EntryConfidence(r), TierSize(1), r.price)
         /\ EntryConfidence(r) \in Int /\ EntryConfidence(r) > 60
<1>1. CASE sym \notin Held
  BY <1>1, EntryIsConfident DEF MrEvaluate
<1>2. CASE sym \in Held
  BY <1>2 DEF MrEvaluate, Signal
<1>. QED
  BY <1>1, <1>2

MrBuy(s, r) == Signal("mr", s, "ENTER_LONG", EntryConfidence(r), TierSize(1), r.price)
DcaBuy(s, r) == Signal("dca", s, "ENTER_LONG", 60, TrancheSize(s), r.price)

\* Of all the signals, these two carry one.
LEMMA PricedSignal ==
  ASSUME NEW st \in Strategies, NEW sym, NEW r, NEW regime,
         NEW sig \in Evaluate(st, sym, r, regime)
  PROVE  /\ sig.symbol = sym
         /\ sig.price > 0 =>
              \/ sig = MrBuy(sym, r) /\ sig.confidence \in Int /\ sig.confidence > 60
              \/ sig = DcaBuy(sym, r) /\ sig.confidence = 60
<1>1. CASE st = "mr"
  <2>1. sig \in MrEvaluate(sym, r)
    BY <1>1 DEF Evaluate
  <2>2. sig.symbol = sym
    <3>1. CASE sym \notin Held
      BY <2>1, <3>1 DEF MrEvaluate, Signal
    <3>2. CASE sym \in Held
      BY <2>1, <3>2 DEF MrEvaluate, Signal
    <3>. QED
      BY <3>1, <3>2
  <2>. QED
    BY <2>1, <2>2, PricedMrSignal DEF MrBuy, Signal
<1>2. CASE st = "dca"
  BY <1>2 DEF Evaluate, DcaEvaluate, DcaBuy, Signal
<1>3. CASE st = "cvd"
  BY <1>3 DEF Evaluate, CvdEvaluate, Signal
<1>. QED
  BY <1>1, <1>2, <1>3 DEF Strategies

\* A fill is one of the two, on its own symbol, and among the most confident there.
LEMMA FillShape ==
  ASSUME NEW data \in Fetched, NEW regime, NEW s \in Universe,
         NEW sig \in Fills(Signals(data, regime), s)
  PROVE  /\ s \in DOMAIN data /\ data[s] \in Readings
         /\ \/ sig = MrBuy(s, data[s]) /\ sig.confidence \in Int /\ sig.confidence > 60
            \/ sig = DcaBuy(s, data[s]) /\ sig.confidence = 60
         /\ sig \in Best(Longs(Signals(data, regime), s))
         /\ Allocated(sig) >= MinAllocation
<1> DEFINE sigs == Signals(data, regime)
<1>1. sig \in Resolve(sigs, s) /\ sig.price > 0 /\ Allocated(sig) >= MinAllocation
  BY DEF Fills
<1>2. sig \in sigs /\ sig.symbol = s
  BY <1>1 DEF Resolve, Best, Exits, Longs, Shorts
<1>3. PICK st \in Strategies, sym \in DOMAIN data : sig \in Evaluate(st, sym, data[sym], regime)
  BY <1>2 DEF Signals
<1>4. /\ sym = s
      /\ \/ sig = MrBuy(s, data[s]) /\ sig.confidence \in Int /\ sig.confidence > 60
         \/ sig = DcaBuy(s, data[s]) /\ sig.confidence = 60
  BY <1>1, <1>2, <1>3, PricedSignal
<1>5. sig.type = "ENTER_LONG"
  BY <1>4 DEF MrBuy, DcaBuy, Signal
<1>6. sig \in Best(Longs(sigs, s))
  <2>1. sig \in Longs(sigs, s) /\ sig \notin Exits(sigs, s)
    BY <1>2, <1>5 DEF Longs, Exits
  <2>2. Shorts(sigs, s) = {} /\ sig \in Best(Longs(sigs, s) \cup Shorts(sigs, s))
    BY <1>1, <2>1 DEF Resolve
  <2>. QED
    BY <2>2
<1>7. data[s] \in Readings
  BY <1>3, <1>4 DEF Fetched
<1>. QED
  BY <1>1, <1>3, <1>4, <1>6, <1>7

\* The two are never equally confident, so that _resolve_conflicts keeps one.
LEMMA OneFill ==
  ASSUME NEW data \in Fetched, NEW regime, NEW s \in Universe
  PROVE  \/ Fills(Signals(data, regime), s) = {}
         \/ \E sig : Fills(Signals(data, regime), s) = {sig}
<1>1. ASSUME NEW a \in Fills(Signals(data, regime), s), NEW b \in Fills(Signals(data, regime), s)
      PROVE  a = b
  <2>1. a.confidence >= b.confidence /\ b.confidence >= a.confidence
    BY FillShape DEF Best
  <2>2. \/ a = MrBuy(s, data[s]) /\ a.confidence \in Int /\ a.confidence > 60
        \/ a = DcaBuy(s, data[s]) /\ a.confidence = 60
    BY FillShape
  <2>3. \/ b = MrBuy(s, data[s]) /\ b.confidence \in Int /\ b.confidence > 60
        \/ b = DcaBuy(s, data[s]) /\ b.confidence = 60
    BY FillShape
  <2>. QED
    BY <2>1, <2>2, <2>3
<1>. QED
  BY <1>1

Position == [tier : 1 .. 3, avg : Nat \ {0}, size : Nat \ {0}, opened : 1 .. now]

Booked ==
  /\ now \in Nat \ {0}
  /\ exposure \in [Universe -> Nat]
  /\ positions \in [Universe -> {NoPosition} \cup Position]
  /\ SymbolCapHolds /\ ExposureCoversPositions

\* A fill is an amount the cap leaves room for.
LEMMA FillFits ==
  ASSUME Booked, NEW data \in Fetched, NEW regime, NEW s \in Universe,
         NEW sig \in Fills(Signals(data, regime), s)
  PROVE  /\ Allocated(sig) \in Nat /\ Allocated(sig) > 0
         /\ exposure[s] + Allocated(sig) <= SymbolCap
         /\ sig.price \in Nat \ {0}
<1>1. /\ sig.symbol = s /\ sig.size \in Nat /\ sig.price = data[s].price
      /\ data[s] \in Readings /\ Allocated(sig) >= 5
  BY FillShape, Sizes DEF MrBuy, DcaBuy, Signal, MinAllocation
<1>2. exposure[s] \in Nat /\ SymbolCap \in Nat
  BY Sizes DEF Booked
<1>. QED
  BY <1>1, <1>2, OrchestraAssumption DEF Allocated, Available

\* What a tick books on one symbol.
LEMMA BookedFill ==
  ASSUME Booked, NEW data \in Fetched, NEW regime, NEW s \in Universe
  PROVE  LET fills == Fills(Signals(data, regime), s)
         IN  /\ ExposureAfter(s, fills) \in Nat
             /\ ExposureAfter(s, fills) <= SymbolCap
             /\ PositionAfter(s, fills) \in {NoPosition} \cup Position
             /\ PositionAfter(s, fills).size <= ExposureAfter(s, fills)
<1> DEFINE fills == Fills(Signals(data, regime), s)
<1>1. /\ exposure[s] \in Nat /\ exposure[s] <= SymbolCap
      /\ positions[s] \in {NoPosition} \cup Position /\ positions[s].size <= exposure[s]
      /\ now \in Nat \ {0}
  BY DEF Booked, SymbolCapHolds, ExposureCoversPositions
<1>2. CASE fills = {}
  <2>1. ExposureAfter(s, fills) = exposure[s] /\ PositionAfter(s, fills) = positions[s]
    BY <1>1, <1>2, SumOfNone DEF ExposureAfter, Filled, PositionAfter
  <2>. QED
    BY <1>1, <2>1
<1>3. ASSUME NEW sig, fills = {sig}
      PROVE  /\ ExposureAfter(s, fills) \in Nat
             /\ ExposureAfter(s, fills) <= SymbolCap
             /\ PositionAfter(s, fills) \in {NoPosition} \cup Position
             /\ PositionAfter(s, fills).size <= ExposureAfter(s, fills)
  <2> DEFINE n == Allocated(sig)
  <2>1. n \in Nat /\ n > 0 /\ exposure[s] + n <= SymbolCap /\ sig.price \in Nat \ {0}
    BY <1>3, FillFits
  <2>2. ExposureAfter(s, fills) = exposure[s] + n
    <3>1. Filled({sig}) = Allocated(sig)
      BY <2>1, SumOfOne
    <3>2. ExposureAfter(s, fills) = exposure[s] + Filled(fills)
      BY DEF ExposureAfter, Filled
    <3>. QED
      BY <1>3, <3>1, <3>2
  <2>3. PositionAfter(s, fills) \in {positions[s], TierFilled(positions[s], sig)}
    BY <1>3 DEF PositionAfter
  <2>. HIDE DEF n
  <2>4. /\ TierFilled(positions[s], sig) \in Position
        /\ TierFilled(positions[s], sig).size <= exposure[s] + n
    <3>1. CASE positions[s] = NoPosition
      BY <1>1, <2>1, <3>1 DEF TierFilled, NoPosition, Position, n
    <3>2. CASE positions[s] # NoPosition
      <4> DEFINE p == positions[s]
                 worth == p.avg * p.size + sig.price * n
      <4>1. p \in Position
        BY <1>1, <3>2
      <4>2. TierFilled(p, sig) =
              [tier |-> 1, avg |-> worth \div (p.size + n), size |-> p.size + n, opened |-> p.opened]
        BY <3>2, <4>1 DEF TierFilled, Position, n
      <4>3. worth >= p.size + n /\ worth \in Nat
        <5>1. \A a \in Nat \ {0}, b \in Nat : a * b \in Nat /\ a * b >= b
          OBVIOUS
        <5>2. p.avg * p.size \in Nat /\ p.avg * p.size >= p.size
          BY <4>1, <5>1 DEF Position
        <5>3. sig.price * n \in Nat /\ sig.price * n >= n
          BY <2>1, <5>1
        <5>. QED
          BY <2>1, <4>1, <5>2, <5>3 DEF Position
      <4>4. worth \div (p.size + n) \in Nat \ {0}
        <5>1. \A a \in Nat, b \in Nat \ {0} : a >= b => a \div b \in Nat \ {0}
          OBVIOUS
        <5>2. p.size + n \in Nat \ {0}
          BY <2>1, <4>1 DEF Position
        <5>. HIDE DEF worth
        <5>. QED
          BY <4>3, <5>1, <5>2
      <4>. HIDE DEF worth
      <4>. QED
        BY <1>1, <2>1, <4>1, <4>2, <4>4 DEF Position
    <3>. QED
      BY <3>1, <3>2
  <2>5. positions[s].size \in Nat
    BY <1>1 DEF NoPosition, Position
  <2>6. PositionAfter(s, fills) \in {NoPosition} \cup Position
    BY <1>1, <2>3, <2>4
  <2>7. PositionAfter(s, fills).size <= exposure[s] + n
    BY <1>1, <2>1, <2>3, <2>4, <2>5
  <2>. QED
    BY <1>1, <2>1, <2>2, <2>6, <2>7
<1>. QED
  BY <1>2, <1>3, OneFill

-----------------------------------------------------------------------------
(* The books are kept by every step.                                       *)

Settings ==
  /\ paper \in PaperModes /\ listed \in EnabledLists
  /\ funded \in BOOLEAN /\ engaged \in BOOLEAN /\ ticked \in BOOLEAN
  /\ events \in [EventIds -> Nat]
  /\ peak \in Nat \ {0} /\ value \in Nat

\* The books are in order when the orchestra starts.
LEMMA InitBooked == Init => Booked /\ Settings
<1>. SUFFICES ASSUME Init PROVE Booked /\ Settings
  OBVIOUS
<1>1. /\ exposure = [s \in Universe |-> 0] /\ positions = [s \in Universe |-> NoPosition]
      /\ now = 1
  BY DEF Init
<1>2. Booked
  BY <1>1, Sizes DEF Booked, SymbolCapHolds, ExposureCoversPositions, NoPosition
<1>3. Settings
  BY OrchestraAssumption DEF Init, Settings, Never
<1>. QED
  BY <1>2, <1>3

\* A step that buys nothing keeps them, as time passes too.
LEMMA HeldOver ==
  ASSUME Booked, UNCHANGED <<exposure, positions>>, now' \in {now, now + 1}
  PROVE  Booked'
<1>1. positions' \in [Universe -> {NoPosition} \cup Position']
  <2>1. Position \subseteq Position'
    BY DEF Position, Booked
  <2>. QED
    BY <2>1 DEF Booked
<1>. QED
  BY <1>1 DEF Booked, SymbolCapHolds, ExposureCoversPositions

\* A round of the orchestra keeps the books in order.
LEMMA TickBooked ==
  ASSUME Booked, NEW data \in Fetched, NEW regime \in Regimes, OrchestraTick(data, regime)
  PROVE  Booked'
<1>1. now' = now /\ Position' = Position
  BY DEF OrchestraTick, Position
<1>2. CASE Execute(data, regime)
  <2> DEFINE fills(s) == Fills(Signals(data, regime), s)
  <2>1. /\ positions' = [s \in Universe |-> PositionAfter(s, fills(s))]
        /\ exposure' = [s \in Universe |-> ExposureAfter(s, fills(s))]
    BY <1>2 DEF Execute
  <2>2. \A s \in Universe :
          /\ ExposureAfter(s, fills(s)) \in Nat
          /\ ExposureAfter(s, fills(s)) <= SymbolCap
          /\ PositionAfter(s, fills(s)) \in {NoPosition} \cup Position
          /\ PositionAfter(s, fills(s)).size <= ExposureAfter(s, fills(s))
    BY BookedFill
  <2>. HIDE DEF fills
  <2>3. exposure' \in [Universe -> Nat] /\ positions' \in [Universe -> {NoPosition} \cup Position]
    BY <2>1, <2>2
  <2>4. \A s \in Universe : exposure'[s] <= SymbolCap /\ positions'[s].size <= exposure'[s]
    BY <2>1, <2>2
  <2>. QED
    BY <1>1, <2>3, <2>4 DEF Booked, SymbolCapHolds, ExposureCoversPositions
<1>3. CASE UNCHANGED holdings
  BY <1>1, <1>3, HeldOver DEF holdings
<1>. QED
  BY <1>2, <1>3 DEF OrchestraTick, EngageKillSwitch

\* Every step keeps the books in order.
LEMMA NextBooked == Booked /\ [Next]_vars => Booked'
<1>. SUFFICES ASSUME Booked, [Next]_vars PROVE Booked'
  OBVIOUS
<1>1. CASE Restart
  <2>1. /\ now' = now /\ positions' = [s \in Universe |-> NoPosition]
        /\ exposure' = [s \in Universe |-> 0]
    BY <1>1 DEF Restart, Fresh
  <2>. QED
    BY <2>1, Sizes DEF Booked, SymbolCapHolds, ExposureCoversPositions, NoPosition
<1>2. CASE Tick
  BY <1>2, HeldOver DEF Tick, holdings
<1>3. ASSUME NEW s, NEW on, NEW st, SetStrategy(s, on, st) PROVE Booked'
  BY <1>3, HeldOver DEF SetStrategy, holdings
<1>4. ASSUME NEW b \in TotalEquity, PortfolioSync(b) PROVE Booked'
  BY <1>4, HeldOver DEF PortfolioSync, holdings
<1>5. ASSUME NEW e \in MacroEvents, TriggerEvent(e) PROVE Booked'
  BY <1>5, HeldOver DEF TriggerEvent, holdings
<1>6. CASE UNCHANGED vars
  BY <1>6, HeldOver DEF vars, holdings
<1>. QED
  BY <1>1, <1>2, <1>3, <1>4, <1>5, <1>6, TickBooked
  DEF Next, EnableStrat, DisableStrat, HaltStrat, ResumeStrat

\* Every step keeps the settings well formed.
LEMMA NextSettings == Settings /\ now \in Nat \ {0} /\ [Next]_vars => Settings'
<1>. SUFFICES ASSUME Settings, now \in Nat \ {0}, [Next]_vars PROVE Settings'
  OBVIOUS
<1>1. ASSUME NEW data \in Fetched, NEW regime \in Regimes, OrchestraTick(data, regime)
      PROVE  Settings'
  BY <1>1 DEF OrchestraTick, EngageKillSwitch, Execute, Settings, config, portfolio
<1>2. CASE Restart
  BY <1>2, OrchestraAssumption DEF Restart, Fresh, Settings, config, Never
<1>3. CASE Tick
  BY <1>3 DEF Tick, Settings, config, portfolio
<1>4. ASSUME NEW s, NEW on, NEW st, SetStrategy(s, on, st) PROVE Settings'
  BY <1>4 DEF SetStrategy, Settings, config, portfolio
<1>5. ASSUME NEW b \in TotalEquity, PortfolioSync(b) PROVE Settings'
  <2>1. b \in Nat
    BY <1>5, OrchestraAssumption DEF TotalEquity
  <2>. QED
    BY <1>5, <2>1 DEF PortfolioSync, Settings, config
<1>6. ASSUME NEW e \in MacroEvents, TriggerEvent(e) PROVE Settings'
  BY <1>6 DEF TriggerEvent, Settings, config, portfolio
<1>7. CASE UNCHANGED vars
  BY <1>7 DEF vars, Settings, config, portfolio
<1>. QED
  BY <1>1, <1>2, <1>3, <1>4, <1>5, <1>6, <1>7
  DEF Next, EnableStrat, DisableStrat, HaltStrat, ResumeStrat

\* Every reachable state satisfies the invariant of the books.
LEMMA AlwaysBooked == Spec => [](Booked /\ Settings)
<1>1. Booked /\ Settings /\ [Next]_vars => Booked' /\ Settings'
  BY NextBooked, NextSettings DEF Booked
<1>. QED
  BY <1>1, InitBooked, PTL DEF Spec


-----------------------------------------------------------------------------
(* Theorems.                                                               *)

\* While mean reversion holds a position no regime ever switches it off, so that its
\* exits stay evaluated (_apply_regime_matrix).
THEOREM HoldersManaged == Spec => []HoldersStayManaged
  BY AlwaysManaged, PTL DEF Managed

\* A tick never wakes a halted strategy, whatever the regime and the list of enabled
\* strategies (_apply_regime_matrix, _engage_kill_switch).
THEOREM HaltsOutlastTicks == Spec => TickKeepsHalts
<1>1. ASSUME Managed, [Next]_vars, ticked', ~ticked, NEW s \in Strategies, status[s] = "HALTED"
      PROVE  status'[s] = "HALTED"
  <2>1. ASSUME NEW data \in Fetched, NEW regime \in Regimes, OrchestraTick(data, regime)
        PROVE  status'[s] = "HALTED"
    BY <1>1, <2>1, MatrixSpares DEF OrchestraTick, EngageKillSwitch, Execute, Managed
  <2>2. \E data \in Fetched, regime \in Regimes : OrchestraTick(data, regime)
    BY <1>1 DEF Next, PortfolioSync, TriggerEvent, EnableStrat, DisableStrat, HaltStrat,
       ResumeStrat, SetStrategy, Restart, Tick, vars
  <2>. QED
    BY <2>1, <2>2
<1>2. Managed /\ [Next]_vars =>
        [ticked' /\ ~ticked => \A s \in Strategies :
            status[s] = "HALTED" => status'[s] = "HALTED"]_vars
  BY <1>1
<1>. QED
  BY <1>2, AlwaysManaged, PTL DEF Spec, TickKeepsHalts

\* Once the kill switch is engaged only a restart releases it, and nothing is bought
\* until then, whatever is resumed, enabled or recovered (run_tick's first test).
THEOREM SwitchIsFinal == Spec => KillSwitchFinal
<1>1. ASSUME Managed, [Next]_vars, engaged, restarts' = restarts
      PROVE  engaged' /\ UNCHANGED holdings
  <2>. DEFINE Kept == engaged' /\ UNCHANGED holdings
  <2>1. ASSUME NEW data \in Fetched, NEW regime \in Regimes, OrchestraTick(data, regime)
        PROVE  Kept
    BY <1>1, <2>1 DEF OrchestraTick, portfolio
  <2>2. ASSUME NEW b \in TotalEquity, PortfolioSync(b) PROVE Kept
    BY <1>1, <2>2 DEF PortfolioSync
  <2>3. ASSUME NEW e \in MacroEvents, TriggerEvent(e) PROVE Kept
    BY <1>1, <2>3 DEF TriggerEvent, portfolio
  <2>4. ASSUME NEW s \in Strategies, NEW on, NEW st, SetStrategy(s, on, st) PROVE Kept
    BY <1>1, <2>4 DEF SetStrategy, portfolio
  <2>5. CASE Tick
    BY <1>1, <2>5 DEF Tick, portfolio
  <2>6. ~Restart
    BY <1>1 DEF Restart, Managed, Flags
  <2>7. CASE UNCHANGED vars
    BY <1>1, <2>7 DEF vars, portfolio
  <2>. QED
    BY <1>1, <2>1, <2>2, <2>3, <2>4, <2>5, <2>6, <2>7
    DEF Next, EnableStrat, DisableStrat, HaltStrat, ResumeStrat
<1>. QED
  BY <1>1, AlwaysManaged, PTL DEF Spec, KillSwitchFinal

\* The state keeps its types: positions hold a tier, a positive average and a positive
\* size, opened no later than now; statuses, switches and balances stay in range.
THEOREM OrchestraTypes == Spec => []TypeOK
<1>1. Managed /\ Booked /\ Settings => TypeOK
  BY DEF Managed, Flags, Booked, Settings, Position, TypeOK
<1>. QED
  BY <1>1, AlwaysManaged, AlwaysBooked, PTL

\* For any cap, capital and market: the exposure booked on a symbol never passes the
\* cap, although each decision of a tick is cleared against the exposure before it
\* (_apply_orchestra_caps, _resolve_conflicts).
THEOREM CapsHold == Spec => []SymbolCapHolds
  BY AlwaysBooked, PTL DEF Booked

\* The exposure the caps are computed from always covers the position mean reversion
\* holds, through partial fills and the tranches of DCA.
THEOREM ExposureCovers == Spec => []ExposureCoversPositions
  BY AlwaysBooked, PTL DEF Booked
=============================================================================
