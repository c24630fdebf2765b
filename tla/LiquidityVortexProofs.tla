------------------------ MODULE LiquidityVortexProofs ------------------------
(***************************************************************************)
(* Theorems about LiquidityVortex for every list of symbols, every book,   *)
(* feed, interval and limit, and any number of outages and faults: the     *)
(* stop of a position only ever moves its way, memory and exchange agree   *)
(* unless one of four causes parted them, paper trading sends no order,    *)
(* and with healthy feeds no position is passed over three times in a row. *)
(***************************************************************************)
EXTENDS LiquidityVortex, TLAPS

-----------------------------------------------------------------------------
(* The inductive invariant, conjunct by conjunct.                          *)

Phases == {"idle", "manage", "tp1", "tp2", "close", "evaluate", "entry", "stop"}
Cycles == [pc : Phases, i : 1..Len(Symbols), view : Views \cup {Absent},
           plan : Positions \cup {Flat}]
Accounts == [resting : [Directions -> Nat], held : Int, stop : Directions \cup {0}]
Causes == {"lost", "not closed", "stopped", "restart"}

Types ==
    /\ live \in BOOLEAN
    /\ book \in [Syms -> Books \cup {Absent}]
    /\ open \in [Syms -> Positions \cup {Flat}]
    /\ cyc \in Cycles
    /\ ex \in [Syms -> Accounts]
    /\ causes \in [Syms -> SUBSET Causes]

(* Before its first take-profit a stop is where the entry put it, behind   *)
(* the price of the entry.                                                 *)
BehindEntry(p) == ~p.tp1 => p.dir * p.stop <= p.dir * Entry(p.dir)
StopsBehind == \A s \in Tracked : BehindEntry(open[s])

(* A parked cycle is at an order for the position it manages, or for the   *)
(* one it plans.                                                           *)
CycleOK ==
    /\ (cyc.pc \in {"tp1", "tp2", "close"}) =>
          live /\ Sym \in Tracked /\ cyc.view \in Views
    /\ (cyc.pc = "tp1") => ~open[Sym].tp1
    /\ (cyc.pc \in {"entry", "stop"}) =>
          /\ live /\ Sym \notin Tracked /\ cyc.plan \in Positions
          /\ cyc.plan.qty = Size /\ BehindEntry(cyc.plan)

(* A position of quantity q rests in full or is held in full.              *)
RestsOrHolds(s, d, q) ==
    /\ \A e \in Directions \ {d} : ex[s].resting[e] = 0
    /\ \/ ex[s].held = 0 /\ ex[s].resting[d] = q
       \/ ex[s].held = d * q /\ ex[s].resting[d] = 0
NothingFor(s) == ex[s].held = 0 /\ ex[s].resting[1] = 0 /\ ex[s].resting[-1] = 0
Planned(s) == cyc.pc = "stop" /\ Sym = s

InStep ==
    live =>
      \A s \in Syms : causes[s] = {} =>
        /\ \A d \in Directions, q \in 1..Size :
             /\ s \in Tracked /\ open[s].dir = d /\ open[s].qty = q => RestsOrHolds(s, d, q)
             /\ Planned(s) /\ cyc.plan.dir = d => RestsOrHolds(s, d, Size)
        /\ s \notin Tracked /\ ~Planned(s) => NothingFor(s)

NoPaperOrder == ~live => \A s \in Syms : ex[s] = NothingThere

Trading == Types /\ StopsBehind /\ CycleOK /\ InStep /\ NoPaperOrder

-----------------------------------------------------------------------------
(* Numbers and positions.                                                  *)

\* The larger of two numbers.
LEMMA MaxOfTwo ==
  ASSUME NEW a \in Int, NEW b \in Int
  PROVE  Max({a, b}) = IF a >= b THEN a ELSE b
<1>1. (IF a >= b THEN a ELSE b) \in {a, b}
      /\ \A y \in {a, b} : (IF a >= b THEN a ELSE b) >= y
  OBVIOUS
<1>2. \A x \in {a, b} : (\A y \in {a, b} : x >= y) => x = IF a >= b THEN a ELSE b
  OBVIOUS
<1>. QED
  BY <1>1, <1>2 DEF Max

\* An order has a size.
LEMMA Sizes == Size \in Nat \ {0}
  BY VortexAssumption

\* Entry prices are numbers.
LEMMA EntryIsInt ==
  ASSUME NEW d \in Directions
  PROVE  Entry(d) \in Int /\ d \in Int
  BY VortexAssumption DEF Entry, Directions

(* A part is less than the whole.                                          *)
LEMMA PartIsLess ==
  ASSUME NEW p \in Positions, NEW tp \in {"tp1", "tp2"}
  PROVE  /\ Part(p, tp) \in 0..(p.qty - 1) /\ p.qty \in 1..Size /\ p.qty \in Int
         /\ p.qty - Part(p, tp) \in 1..Size
  BY Sizes DEF Positions, Part

(* A position that is kept: no field but stop, flags and quantity changes, *)
(* and the stop only its way.                                              *)
Kept(p, q) ==
    /\ q \in Positions /\ q.dir = p.dir
    /\ p.dir * q.stop >= p.dir * p.stop
    /\ BehindEntry(q)

\* What is kept twice is kept.
LEMMA KeptIsTransitive ==
  ASSUME NEW p \in Positions, NEW q, NEW r, Kept(p, q), Kept(q, r)
  PROVE  Kept(p, r)
<1>1. /\ p.dir * p.stop \in Int /\ p.dir * q.stop \in Int /\ p.dir * r.stop \in Int
      /\ q.dir = p.dir /\ r.dir = p.dir
  BY DEF Kept, Positions, Directions
<1>. QED
  BY <1>1 DEF Kept

(* A take-profit answered, whatever the answer.                            *)
LEMMA TookKeeps ==
  ASSUME NEW p \in Positions, BehindEntry(p), NEW tp \in {"tp1", "tp2"},
         tp = "tp1" => ~p.tp1, NEW ok \in BOOLEAN
  PROVE  /\ Kept(p, Took(p, tp, ok))
         /\ Took(p, tp, ok).qty = IF ok THEN p.qty - Part(p, tp) ELSE p.qty
<1> DEFINE n == IF ok THEN p.qty - Part(p, tp) ELSE p.qty
           q == [p EXCEPT !.qty = IF ok THEN @ - Part(p, tp) ELSE @]
<1>1. n \in 1..Size
  <2>1. p.qty - Part(p, tp) \in 1..Size /\ p.qty \in 1..Size
    BY PartIsLess
  <2>. QED
    BY <2>1
<1>2. q \in Positions /\ q.dir = p.dir /\ q.stop = p.stop /\ q.tp1 = p.tp1 /\ q.qty = n
  <2>1. q = [p EXCEPT !.qty = n]
    BY DEF Positions
  <2>. HIDE DEF n, q
  <2>. QED
    BY <1>1, <2>1 DEF Positions
<1>3. p.dir \in Directions /\ p.stop \in Int /\ Entry(p.dir) \in Int /\ p.dir \in Int
  BY EntryIsInt DEF Positions
<1>4. CASE tp = "tp1"
  <2> DEFINE t == Entry(p.dir) + 10 * p.dir
             r == [q EXCEPT !.tp1 = TRUE, !.stop = t]
  <2>1. Took(p, tp, ok) = r
    BY <1>2, <1>4 DEF Took
  <2>2. t \in Int /\ p.dir * p.stop <= p.dir * t
    <3>1. p.dir * p.stop <= p.dir * Entry(p.dir)
      BY <1>4 DEF BehindEntry
    <3>. QED
      BY <1>3, <3>1 DEF Directions
  <2>. HIDE DEF t, q, n
  <2>3. r \in Positions /\ r.dir = p.dir /\ r.stop = t /\ r.tp1 = TRUE /\ r.qty = n
    BY <1>2, <2>2 DEF Positions
  <2>4. Kept(p, r)
    BY <2>2, <2>3 DEF Kept, BehindEntry
  <2>. QED
    BY <2>1, <2>3, <2>4 DEF n
<1>5. CASE tp = "tp2"
  <2> DEFINE r == [q EXCEPT !.tp2 = TRUE]
  <2>1. Took(p, tp, ok) = r
    BY <1>5 DEF Took
  <2>. HIDE DEF q, n
  <2>2. r \in Positions /\ r.dir = p.dir /\ r.stop = p.stop /\ r.tp1 = p.tp1 /\ r.qty = n
    BY <1>2 DEF Positions
  <2>3. Kept(p, r)
    <3>1. p.dir * p.stop \in Int
      BY <1>3
    <3>. QED
      BY <2>2, <3>1 DEF Kept, BehindEntry
  <2>. QED
    BY <2>1, <2>2, <2>3 DEF n
<1>. QED
  BY <1>4, <1>5

\* Trailing moves a stop in the direction of the trade only (_compute_trailing_stop).
LEMMA TrailedKeeps ==
  ASSUME NEW p \in Positions, BehindEntry(p), NEW v, v.price \in Int, v.atr \in Int
  PROVE  Kept(p, Trailed(p, v)) /\ Trailed(p, v).qty = p.qty
<1>1. p.dir \in Directions /\ p.stop \in Int /\ p.dir \in Int
  BY DEF Positions, Directions
<1>2. CASE ~p.tp1
  BY <1>1, <1>2 DEF Trailed, Kept
<1>3. CASE p.tp1
  <2> DEFINE t == Better(p.dir, p.stop, Trail(p, v))
             r == [p EXCEPT !.stop = t]
  <2>1. Trailed(p, v) = r
    BY <1>3 DEF Trailed, Positions
  <2>2. Trail(p, v) \in Int
    BY <1>1 DEF Trail
  <2>3. t \in Int /\ p.dir * t >= p.dir * p.stop
    BY <1>1, <2>2 DEF Better
  <2>. HIDE DEF t
  <2>4. r \in Positions /\ r.dir = p.dir /\ r.stop = t /\ r.tp1 = p.tp1 /\ r.qty = p.qty
    BY <2>3 DEF Positions
  <2>. QED
    BY <1>3, <2>1, <2>3, <2>4 DEF Kept, BehindEntry
<1>. QED
  BY <1>2, <1>3

(* Management keeps the position up to its next await.                     *)
LEMMA AfterTp2Keeps ==
  ASSUME NEW p \in Positions, BehindEntry(p), NEW v, v.price \in Int, v.atr \in Int
  PROVE  LET r == AfterTp2(p, v)
         IN  Kept(p, r.pos) /\ r.pos.qty = p.qty /\ r.pc \in {"close", "evaluate"}
  BY TrailedKeeps DEF AfterTp2

\* A position keeps what it is.
LEMMA KeptIsReflexive ==
  ASSUME NEW p \in Positions, BehindEntry(p)
  PROVE  Kept(p, p)
  BY DEF Kept, Positions, Directions

\* What follows TP1 keeps direction, size and stop.
LEMMA AfterTp1Keeps ==
  ASSUME NEW p \in Positions, BehindEntry(p), NEW v, v.price \in Int, v.atr \in Int
  PROVE  LET r == AfterTp1(p, v)
         IN  Kept(p, r.pos) /\ r.pos.qty = p.qty /\ r.pc \in {"tp2", "close", "evaluate"}
  BY AfterTp2Keeps, KeptIsReflexive DEF AfterTp1

\* A position's management keeps direction, size and stop.
LEMMA FromStartKeeps ==
  ASSUME NEW p \in Positions, BehindEntry(p), NEW v, v.price \in Int, v.atr \in Int
  PROVE  LET r == FromStart(p, v)
         IN  /\ Kept(p, r.pos) /\ r.pos.qty = p.qty
             /\ r.pc \in {"tp1", "tp2", "close", "evaluate"}
             /\ r.pc = "tp1" => ~r.pos.tp1
  BY AfterTp1Keeps, KeptIsReflexive DEF FromStart, WantsTp1

\* Paper trading keeps direction and stop.
LEMMA OnPaperKeeps ==
  ASSUME NEW p \in Positions, BehindEntry(p), NEW v, v.price \in Int, v.atr \in Int
  PROVE  Kept(p, OnPaper(p, v).pos) /\ OnPaper(p, v).pc \in {"close", "evaluate"}
<1> DEFINE a == IF WantsTp1(p, v) THEN Took(p, "tp1", TRUE) ELSE p
           b == IF WantsTp2(a, v) THEN Took(a, "tp2", TRUE) ELSE a
<1>1. Kept(p, a)
  BY TookKeeps, KeptIsReflexive DEF WantsTp1
<1>. HIDE DEF a
<1>2. Kept(a, b)
  BY <1>1, TookKeeps, KeptIsReflexive DEF Kept
<1>3. Kept(p, b)
  BY <1>1, <1>2, KeptIsTransitive
<1>. HIDE DEF b
<1>4. Kept(b, AfterTp2(b, v).pos) /\ AfterTp2(b, v).pc \in {"close", "evaluate"}
  BY <1>3, AfterTp2Keeps DEF Kept
<1>5. Kept(p, AfterTp2(b, v).pos)
  BY <1>3, <1>4, KeptIsTransitive
<1>. QED
  BY <1>4, <1>5 DEF OnPaper, a, b

(* The market state that is read of a symbol has a price and a range.      *)
LEMMA StateRead ==
  ASSUME Types, NEW s \in Syms, HasState(s)
  PROVE  State(s).price \in Int /\ State(s).spread \in Int /\ State(s).atr \in Nat
<1>1. book[s] \in [price : Int, spread : Int]
  BY FeedAssumption DEF Types, HasState
<1>2. Atr(bars[s]["5m"]) \in Nat
  BY FeedAssumption DEF Atr
<1>. QED
  BY <1>1, <1>2 DEF State

\* A new position's stop is behind its entry.
LEMMA NewPositionIsBehind ==
  ASSUME NEW d \in Directions, NEW v, v.atr \in Nat, v.spread \in Int
  PROVE  /\ NewPosition(d, v) \in Positions /\ BehindEntry(NewPosition(d, v))
         /\ NewPosition(d, v).qty = Size /\ NewPosition(d, v).dir = d
<1> DEFINE g == StopGap(v)
<1>1. g \in Nat
  <2>1. (3 * v.atr) \div 2 \in Nat /\ 2 * v.spread + 5 \in Int
    OBVIOUS
  <2>. QED
    BY <2>1, MaxOfTwo DEF StopGap
<1>2. Entry(d) \in Int /\ d \in Int
  BY EntryIsInt
<1>. HIDE DEF g
<1>3. Entry(d) - d * g \in Int /\ d * (Entry(d) - d * g) <= d * Entry(d)
  BY <1>1, <1>2 DEF Directions
<1>. QED
  BY <1>1, <1>2, <1>3, Sizes, VortexAssumption DEF NewPosition, Positions, BehindEntry, g

-----------------------------------------------------------------------------
(* The exchange.                                                           *)

\* The cycle is always at one of the symbols.
LEMMA SymIsTraded ==
  ASSUME Types
  PROVE  Sym \in Syms
<1>1. cyc.i \in 1..Len(Symbols)
  BY DEF Types, Cycles
<1>. QED
  BY <1>1, FeedAssumption DEF Sym

(* What can be reduced, and that all of a held position can.               *)
LEMMA ReducibleAmount ==
  ASSUME Types, NEW s \in Syms, NEW d \in Directions, NEW q \in Nat
  PROVE  /\ Reducible(s, d, q) \in Int
         /\ Reducible(s, d, 1) > 0 => d * ex[s].held > 0
         /\ \A n \in Nat : ex[s].held = d * n /\ q <= n => Reducible(s, d, q) = q
<1>1. ex[s].held \in Int /\ d * ex[s].held \in Int
  BY DEF Types, Accounts, Directions
<1>2. Max({d * ex[s].held, 0}) = IF d * ex[s].held >= 0 THEN d * ex[s].held ELSE 0
  BY <1>1, MaxOfTwo
<1>3. ASSUME NEW n \in Nat, ex[s].held = d * n
      PROVE  d * ex[s].held = n
  BY <1>3 DEF Directions
<1> DEFINE h == d * ex[s].held
           m == IF h >= 0 THEN h ELSE 0
<1>4. Reducible(s, d, q) = (IF q < m THEN q ELSE m) /\ Reducible(s, d, 1) = IF 1 < m THEN 1 ELSE m
  BY <1>2 DEF Reducible, Least
<1>5. h \in Int
  BY <1>1
<1>6. \A n \in Nat : ex[s].held = d * n => h = n
  BY <1>3
<1>. HIDE DEF h
<1>7. Reducible(s, d, q) \in Int /\ (Reducible(s, d, 1) > 0 => h > 0)
  BY <1>4, <1>5
<1>8. \A n \in Nat : ex[s].held = d * n /\ q <= n => Reducible(s, d, q) = q
  BY <1>4, <1>5, <1>6
<1>. QED
  BY <1>7, <1>8 DEF h

\* A reduce-only order changes one account, by no more than it holds.
LEMMA ReducedAccount ==
  ASSUME Types, NEW s \in Syms, NEW d \in Directions, NEW q \in Nat
  PROVE  /\ Reduced(s, d, q) \in [Syms -> Accounts]
         /\ \A t \in Syms \ {s} : Reduced(s, d, q)[t] = ex[t]
         /\ Reduced(s, d, q)[s].resting = ex[s].resting
         /\ Reduced(s, d, q)[s].held = ex[s].held - d * Reducible(s, d, q)
<1> DEFINE h == ex[s].held - d * Reducible(s, d, q)
<1>1. h \in Int
  BY ReducibleAmount DEF Types, Accounts, Directions
<1>2. Reduced(s, d, q) = [ex EXCEPT ![s] = [@ EXCEPT !.held = h]]
  BY DEF Reduced
<1>. HIDE DEF h
<1>3. [ex[s] EXCEPT !.held = h] \in Accounts /\ [ex[s] EXCEPT !.held = h].held = h
      /\ [ex[s] EXCEPT !.held = h].resting = ex[s].resting
  BY <1>1 DEF Types, Accounts
<1>. QED
  BY <1>2, <1>3 DEF Types, h

(* An order that is executed was possible.                                 *)
LEMMA ExecutedIsPossible ==
  ASSUME NEW answer \in Answers, NEW possible \in BOOLEAN, Answered(answer, possible)
  PROVE  answer # "rejected" => possible
  BY DEF Answered, Answers

-----------------------------------------------------------------------------
(* Where the cycle goes.                                                   *)

\* Going on with a symbol keeps the cycle well formed.
LEMMA GoCycle ==
  ASSUME Types, NEW pc \in Phases, NEW v \in Views \cup {Absent}, Go(pc, v)
  PROVE  /\ cyc' \in Cycles /\ cyc'.pc = pc /\ cyc'.view = v
         /\ cyc'.i = cyc.i /\ cyc'.plan = cyc.plan
  BY DEF Types, Go, Cycles

\* A cycle that rests or begins with a symbol is well formed.
LEMMA IdleCycle ==
  ASSUME NEW i \in 1..Len(Symbols), NEW pc \in {"idle", "manage"}
  PROVE  /\ Idle \in Cycles /\ Idle.pc = "idle"
         /\ [Idle EXCEPT !.pc = pc, !.i = i] \in Cycles
         /\ [Idle EXCEPT !.pc = pc, !.i = i].pc = pc
<1>1. 1 \in 1..Len(Symbols)
  OBVIOUS
<1>. QED
  BY <1>1 DEF Idle, Cycles, Phases

\* Going on to the next symbol keeps the cycle well formed.
LEMMA NextCycle ==
  ASSUME Types, NextSymbol
  PROVE  cyc' \in Cycles /\ cyc'.pc \in {"idle", "manage"}
<1>1. cyc.i \in 1..Len(Symbols) /\ Len(Symbols) \in Nat
  BY FeedAssumption DEF Types, Cycles
<1>2. CASE cyc.i < Len(Symbols)
  <2>1. cyc.i + 1 \in 1..Len(Symbols)
    BY <1>1, <1>2
  <2>2. cyc' = [Idle EXCEPT !.pc = "manage", !.i = cyc.i + 1]
    BY <1>2 DEF NextSymbol
  <2>. QED
    BY <2>1, <2>2, IdleCycle
<1>3. CASE ~(cyc.i < Len(Symbols))
  BY <1>1, <1>3, IdleCycle DEF NextSymbol
<1>. QED
  BY <1>2, <1>3

-----------------------------------------------------------------------------
(* What a step does to the positions that are kept.                        *)

Moves == \A s \in Tracked : open'[s] # Flat => Kept(open[s], open'[s])

\* A tracked symbol has a position.
LEMMA TrackedPosition ==
  ASSUME Types, NEW s \in Tracked
  PROVE  s \in Syms /\ open[s] \in Positions /\ open[s] # Flat
  BY DEF Types, Tracked

\* Stops that are all behind their entries in the next state.
LEMMA StopsStayBehind ==
  ASSUME \A s \in Syms : open'[s] # Flat => BehindEntry(open'[s])
  PROVE  StopsBehind'
<1>. SUFFICES ASSUME NEW s \in Syms, open'[s] # Flat
              PROVE  BehindEntry(open[s])'
  BY DEF StopsBehind, Tracked
<1>. QED
  BY DEF BehindEntry, Entry

\* Stops that only move in the direction of the trade stay behind the entry.
LEMMA MovesKeepStopsBehind ==
  ASSUME Trading, Moves, \A s \in Syms : open[s] = Flat => open'[s] = Flat
  PROVE  StopsBehind'
<1>1. ASSUME NEW s \in Syms, open'[s] # Flat
      PROVE  BehindEntry(open'[s])
  BY <1>1 DEF Moves, Tracked, Kept
<1>. QED
  BY <1>1, StopsStayBehind

\* A cycle that awaits no order has nothing to be checked.
LEMMA BetweenOrders ==
  ASSUME cyc'.pc \in {"idle", "manage", "evaluate"}
  PROVE  CycleOK'
  BY DEF CycleOK

(* Neither side notices a step that moves stops, flags and ages only.      *)
LEMMA CalmStep ==
  ASSUME Trading, live' = live, ex' = ex, causes' = causes, Moves,
         \A s \in Syms : (open'[s] = Flat) <=> (open[s] = Flat),
         \A s \in Tracked : open'[s].qty = open[s].qty,
         \/ cyc' = cyc
         \/ cyc.pc # "stop" /\ cyc'.pc # "stop"
  PROVE  StopsBehind' /\ InStep' /\ NoPaperOrder'
<1>1. StopsBehind'
  BY MovesKeepStopsBehind
<1>2. NoPaperOrder'
  BY DEF Trading, NoPaperOrder
<1>3. \A s \in Syms : /\ s \in Tracked' <=> s \in Tracked
                      /\ s \in Tracked => /\ open'[s].dir = open[s].dir
                                          /\ open'[s].qty = open[s].qty
                      /\ Planned(s)' <=> Planned(s)
                      /\ Planned(s) => cyc' = cyc
  BY DEF Tracked, Moves, Kept, Planned, Sym
<1>4. InStep'
  <2>. SUFFICES ASSUME live', NEW s \in Syms, causes'[s] = {}
       PROVE  /\ \A d \in Directions, q \in 1..Size :
                   /\ s \in Tracked' /\ open'[s].dir = d /\ open'[s].qty = q
                        => RestsOrHolds(s, d, q)'
                   /\ Planned(s)' /\ cyc'.plan.dir = d => RestsOrHolds(s, d, Size)'
              /\ s \notin Tracked' /\ ~Planned(s)' => NothingFor(s)'
    BY DEF InStep
  <2>1. /\ \A d \in Directions, q \in 1..Size : RestsOrHolds(s, d, q)' <=> RestsOrHolds(s, d, q)
        /\ \A d \in Directions : RestsOrHolds(s, d, Size)' <=> RestsOrHolds(s, d, Size)
        /\ NothingFor(s)' <=> NothingFor(s)
    BY DEF RestsOrHolds, NothingFor
  <2>2. causes[s] = {} /\ live
    OBVIOUS
  <2>3. /\ \A d \in Directions, q \in 1..Size :
             /\ s \in Tracked /\ open[s].dir = d /\ open[s].qty = q => RestsOrHolds(s, d, q)
             /\ Planned(s) /\ cyc.plan.dir = d => RestsOrHolds(s, d, Size)
        /\ s \notin Tracked /\ ~Planned(s) => NothingFor(s)
    BY <2>2 DEF Trading, InStep
  <2>. QED
    BY <1>3, <2>1, <2>3
<1>. QED
  BY <1>1, <1>2, <1>4

(* Positions left as they are have moved nowhere.                          *)
LEMMA NothingMoves ==
  ASSUME Trading, UNCHANGED open
  PROVE  Moves
<1>. SUFFICES ASSUME NEW s \in Tracked PROVE Kept(open[s], open[s])
  BY DEF Moves
<1>. QED
  BY TrackedPosition, KeptIsReflexive DEF Trading, StopsBehind

-----------------------------------------------------------------------------
(* The steps, one by one.                                                  *)

\* The invariant holds when the strategy starts.
LEMMA InitKeeps == Init => Trading
<1>. SUFFICES ASSUME Init PROVE Trading
  OBVIOUS
<1>1. NothingThere \in Accounts /\ Idle \in Cycles /\ Idle.pc = "idle"
  <2>1. NothingThere \in Accounts
    BY DEF NothingThere, Accounts
  <2>2. 1 \in 1..Len(Symbols) /\ "idle" \in {"idle", "manage"}
    BY FeedAssumption
  <2>. QED
    BY <2>1, <2>2, IdleCycle
<1>2. Types
  BY <1>1, VortexAssumption DEF Init, Types, ProviderInit, ColdBook
<1>3. Tracked = {} /\ cyc.pc = "idle" /\ \A s \in Syms : NothingFor(s)
  BY <1>1 DEF Init, Tracked, NothingFor, NothingThere, Directions
<1>4. StopsBehind /\ CycleOK /\ InStep /\ NoPaperOrder
  BY <1>3 DEF StopsBehind, CycleOK, InStep, NoPaperOrder, Init, Planned
<1>. QED
  BY <1>2, <1>4 DEF Trading

\* A cycle's steps that place no order keep the invariant.
LEMMA CalmCycleKeeps ==
  ASSUME Trading, StartCycle \/ ManageNothing \/ EvaluateNothing \/ EvaluateBlocked
  PROVE  Trading' /\ Moves
<1>1. UNCHANGED <<provider, live, open, ex, causes>> /\ Moves
  BY NothingMoves DEF StartCycle, ManageNothing, EvaluateNothing, EvaluateBlocked, Trading
<1>2. /\ cyc' \in Cycles /\ cyc'.pc \in {"idle", "manage", "evaluate"}
      /\ cyc.pc # "stop"
  <2>1. CASE StartCycle
    <3>1. 1 \in 1..Len(Symbols) /\ Idle.i = 1
      BY FeedAssumption DEF Idle
    <3>2. cyc' = [Idle EXCEPT !.pc = "manage", !.i = 1]
      BY <2>1, <3>1 DEF StartCycle, Idle
    <3>. QED
      BY <2>1, <3>1, <3>2, IdleCycle DEF StartCycle
  <2>2. CASE ManageNothing
    <3>1. "evaluate" \in Phases /\ Absent \in Views \cup {Absent}
      BY DEF Phases
    <3>. QED
      BY <2>2, <3>1, GoCycle DEF ManageNothing, Trading
  <2>3. CASE EvaluateNothing \/ EvaluateBlocked
    BY <2>3, NextCycle DEF EvaluateNothing, EvaluateBlocked, Trading
  <2>. QED
    BY <2>1, <2>2, <2>3
<1>3. Types'
  BY <1>1, <1>2 DEF Trading, Types, provider
<1>4. StopsBehind' /\ InStep' /\ NoPaperOrder'
  BY <1>1, <1>2, CalmStep
<1>. QED
  BY <1>1, <1>2, <1>3, <1>4, BetweenOrders DEF Trading

\* A market that moves on keeps the invariant.
LEMMA FeedKeeps ==
  ASSUME Trading, NEW s \in Syms, FeedStep(s) \/ FeedTrouble(s), UNCHANGED strategy
  PROVE  Trading' /\ Moves
<1>1. Moves /\ UNCHANGED <<live, open, cyc, ex, causes>>
  BY NothingMoves DEF strategy
<1>2. book' \in [Syms -> Books \cup {Absent}]
  BY DEF Trading, Types, FeedStep, FeedTrouble, BookUpdate, RingUpdate, PollUpdate,
         TaskError, StreamQuiet
<1>3. Types'
  BY <1>1, <1>2 DEF Trading, Types
<1>4. StopsBehind' /\ InStep' /\ NoPaperOrder'
  BY <1>1, CalmStep
<1>5. CycleOK'
  BY <1>1 DEF Trading, CycleOK, Sym, Tracked, BehindEntry, Entry
<1>. QED
  BY <1>1, <1>3, <1>4, <1>5 DEF Trading

\* A step of nothing keeps the invariant.
LEMMA StutterKeeps ==
  ASSUME Trading, UNCHANGED vars
  PROVE  Trading' /\ Moves
<1>1. Moves
  BY NothingMoves DEF vars, strategy
<1>2. Trading'
  BY DEF vars, strategy, provider, Trading, Types, StopsBehind, CycleOK, InStep, NoPaperOrder,
         Tracked, Sym, BehindEntry, Entry, RestsOrHolds, NothingFor, Planned
<1>. QED
  BY <1>1, <1>2

(* The age of a position is no concern of its stop.                        *)
LEMMA TickKeeps ==
  ASSUME Trading, Tick
  PROVE  Trading' /\ Moves
<1>1. UNCHANGED <<live, cyc, ex, causes, book>>
  BY DEF Tick, ProviderElapse
<1>2. \A s \in Syms : open[s] = Flat => open'[s] = Flat
  BY DEF Tick, Tracked
<1>3. ASSUME NEW s \in Tracked
      PROVE  /\ open'[s] \in Positions /\ Kept(open[s], open'[s])
             /\ open'[s].qty = open[s].qty /\ open'[s].tp1 = open[s].tp1
  <2> DEFINE p == open[s]
             n == Least(p.age + 1, MaxAge + 1)
             q == [p EXCEPT !.age = n]
  <2>1. p \in Positions /\ Kept(p, p) /\ s \in Syms
    BY TrackedPosition, KeptIsReflexive DEF Trading, StopsBehind
  <2>2. open'[s] = q
    BY <2>1 DEF Tick, Positions
  <2>3. n \in 0..(MaxAge + 1)
    BY <2>1, VortexAssumption DEF Positions, Least
  <2>. HIDE DEF p, n
  <2>4. /\ q \in Positions /\ q.dir = p.dir /\ q.stop = p.stop /\ q.tp1 = p.tp1
        /\ q.qty = p.qty
    BY <2>1, <2>3 DEF Positions
  <2>5. Kept(p, q)
    BY <2>1, <2>4 DEF Kept, BehindEntry
  <2>. QED
    BY <2>2, <2>4, <2>5 DEF p
<1>4. open' \in [Syms -> Positions \cup {Flat}]
  <2>1. open' = [s \in Syms |-> open'[s]]
    BY DEF Tick
  <2>2. \A s \in Syms : open'[s] \in Positions \cup {Flat}
    BY <1>2, <1>3 DEF Tracked
  <2>. QED
    BY <2>1, <2>2
<1>5. /\ Moves
      /\ \A s \in Syms : (open'[s] = Flat) <=> (open[s] = Flat)
      /\ \A s \in Tracked : open'[s].qty = open[s].qty
  BY <1>2, <1>3, FlatAssumption DEF Moves, Tracked
<1>6. Types'
  BY <1>1, <1>4 DEF Trading, Types
<1>7. StopsBehind' /\ InStep' /\ NoPaperOrder'
  BY <1>1, <1>5, CalmStep
<1>8. CycleOK'
  <2>1. cyc.i \in 1..Len(Symbols) /\ Sym \in Syms
    BY SymIsTraded DEF Trading, Types, Cycles
  <2>2. PICK k \in Syms : k = Sym
    BY <2>1
  <2>3. Sym' = k /\ (k \in Tracked' <=> k \in Tracked)
    BY <1>1, <1>5, <2>2 DEF Sym, Tracked
  <2>. QED
    BY <1>1, <1>3, <2>2, <2>3 DEF Trading, CycleOK, BehindEntry, Entry
<1>. QED
  BY <1>5, <1>6, <1>7, <1>8 DEF Trading

(* Management up to the first order, or all of it on paper.                *)
LEMMA ManagePositionKeeps ==
  ASSUME Trading, ManagePosition
  PROVE  Trading' /\ Moves
<1>1. UNCHANGED <<live, book, ex, causes>> /\ cyc.pc = "manage" /\ Types
  BY DEF ManagePosition, provider, Trading
<1>2. PICK k \in Syms : k = Sym
  BY <1>1, SymIsTraded
<1>3. HasState(k) /\ k \in Tracked
  BY <1>2 DEF ManagePosition
<1> DEFINE p == open[k]
<1>4. p \in Positions /\ p # Flat /\ BehindEntry(p)
  BY <1>1, <1>3, TrackedPosition DEF Trading, StopsBehind
<1>5. PICK btc \in BtcReturns :
        LET v == View(k, btc)
            r == IF live THEN FromStart(open[k], v) ELSE OnPaper(open[k], v)
            out == ~live /\ r.pc = "close"
        IN  /\ open' = [open EXCEPT ![k] = IF out THEN Flat ELSE r.pos]
            /\ IF out \/ r.pc = "evaluate" THEN Go("evaluate", Absent) ELSE Go(r.pc, v)
  BY <1>2 DEF ManagePosition
<1> DEFINE v == View(k, btc)
           r == IF live THEN FromStart(p, v) ELSE OnPaper(p, v)
           out == ~live /\ r.pc = "close"
<1>6. v \in Views
  <2>1. Emergency(State(k), p.dir, btc) \in BOOLEAN
    BY DEF Emergency
  <2>. QED
    BY <1>1, <1>3, <2>1, StateRead DEF View, Views
<1>7. /\ Kept(p, r.pos) /\ r.pc \in Phases
      /\ live => /\ r.pos.qty = p.qty
                 /\ r.pc \in {"tp1", "tp2", "close", "evaluate"}
                 /\ r.pc = "tp1" => ~r.pos.tp1
      /\ ~live => r.pc \in {"close", "evaluate"}
  <2>1. v.price \in Int /\ v.atr \in Int
    BY <1>6 DEF Views
  <2>. HIDE DEF v, p
  <2>2. CASE live
    BY <1>4, <2>1, <2>2, FromStartKeeps DEF Phases
  <2>3. CASE ~live
    BY <1>4, <2>1, <2>3, OnPaperKeeps DEF Phases
  <2>. QED
    BY <2>2, <2>3
<1>8. /\ open' = [open EXCEPT ![k] = IF out THEN Flat ELSE r.pos]
      /\ IF out \/ r.pc = "evaluate" THEN Go("evaluate", Absent) ELSE Go(r.pc, v)
  BY <1>5
<1>. HIDE DEF v, r, p
<1>9. /\ cyc' \in Cycles /\ cyc'.i = cyc.i
      /\ \/ cyc'.pc = "evaluate"
         \/ live /\ r.pc = cyc'.pc /\ cyc'.pc \in {"tp1", "tp2", "close"} /\ cyc'.view \in Views
  <2>1. "evaluate" \in Phases
    BY DEF Phases
  <2>2. CASE out \/ r.pc = "evaluate"
    BY <1>1, <1>8, <2>1, <2>2, GoCycle
  <2>3. CASE ~(out \/ r.pc = "evaluate")
    <3>1. Go(r.pc, v) /\ r.pc \in Phases /\ v \in Views \cup {Absent}
      BY <1>6, <1>7, <1>8, <2>3
    <3>2. /\ cyc' \in Cycles /\ cyc'.pc = r.pc /\ cyc'.view = v /\ cyc'.i = cyc.i
      BY <1>1, <3>1, GoCycle
    <3>. QED
      BY <1>1, <1>6, <1>7, <2>3, <3>2 DEF Types
  <2>. QED
    BY <2>2, <2>3
<1>10. /\ open' \in [Syms -> Positions \cup {Flat}]
       /\ open'[k] = IF out THEN Flat ELSE r.pos
       /\ \A s \in Syms \ {k} : open'[s] = open[s]
  BY <1>1, <1>7, <1>8 DEF Types, Kept
<1>11. Moves
  <2>. SUFFICES ASSUME NEW s \in Tracked, open'[s] # Flat PROVE Kept(open[s], open'[s])
    BY DEF Moves
  <2>1. CASE s = k
    BY <1>7, <1>10, <2>1 DEF p
  <2>2. CASE s # k
    BY <1>1, <1>10, <2>2, TrackedPosition, KeptIsReflexive DEF Trading, StopsBehind
  <2>. QED
    BY <2>1, <2>2
<1>12. Types'
  BY <1>1, <1>9, <1>10 DEF Types
<1>13. CycleOK'
  <2>1. CASE cyc'.pc = "evaluate"
    BY <2>1, BetweenOrders
  <2>2. CASE cyc'.pc # "evaluate"
    <3>1. live' /\ Sym' = k /\ open'[k] = r.pos /\ r.pos # Flat
      BY <1>1, <1>2, <1>7, <1>9, <1>10, <2>2, FlatAssumption DEF Sym, Kept
    <3>2. k \in Tracked'
      BY <3>1 DEF Tracked
    <3>3. (cyc'.pc = "tp1") => ~open'[k].tp1
      BY <1>7, <1>9, <2>2, <3>1
    <3>. QED
      BY <1>9, <2>2, <3>1, <3>2, <3>3 DEF CycleOK
  <2>. QED
    BY <2>1, <2>2
<1>14. StopsBehind' /\ InStep' /\ NoPaperOrder'
  <2>1. CASE live
    <3>1. \A s \in Syms : (open'[s] = Flat) <=> (open[s] = Flat)
      BY <1>4, <1>7, <1>10, <2>1, FlatAssumption DEF Kept, p
    <3>2. \A s \in Tracked : open'[s].qty = open[s].qty
      BY <1>7, <1>10, <2>1 DEF p, Tracked
    <3>. QED
      BY <1>1, <1>9, <1>11, <3>1, <3>2, CalmStep
  <2>2. CASE ~live
    <3>1. InStep' /\ NoPaperOrder'
      BY <1>1, <2>2 DEF InStep, NoPaperOrder, Trading
    <3>2. \A s \in Syms : open[s] = Flat => open'[s] = Flat
      BY <1>4, <1>10 DEF p
    <3>. QED
      BY <1>11, <3>1, <3>2, MovesKeepStopsBehind
  <2>. QED
    BY <2>1, <2>2
<1>. QED
  BY <1>11, <1>12, <1>13, <1>14 DEF Trading

-----------------------------------------------------------------------------
(* The answers of the exchange.                                            *)

(* The account a of a position of quantity q, and that of none.            *)
InFull(a, d, q) ==
    /\ \A e \in Directions \ {d} : a.resting[e] = 0
    /\ \/ a.held = 0 /\ a.resting[d] = q
       \/ a.held = d * q /\ a.resting[d] = 0
Empty(a) == a.held = 0 /\ a.resting[1] = 0 /\ a.resting[-1] = 0

\* A symbol without trouble is held as it is tracked.
LEMMA InStepRead ==
  ASSUME Trading, live, NEW k \in Syms, causes[k] = {}
  PROVE  /\ k \in Tracked => InFull(ex[k], open[k].dir, open[k].qty)
         /\ Planned(k) => InFull(ex[k], cyc.plan.dir, Size)
         /\ k \notin Tracked /\ ~Planned(k) => Empty(ex[k])
<1>1. k \in Tracked => open[k].dir \in Directions /\ open[k].qty \in 1..Size
  BY TrackedPosition DEF Trading, Positions
<1>2. Planned(k) => cyc.plan.dir \in Directions
  BY DEF Trading, CycleOK, Planned, Positions
<1>3. Size \in 1..Size
  BY Sizes
<1>. QED
  BY <1>1, <1>2, <1>3 DEF Trading, InStep, RestsOrHolds, NothingFor, InFull, Empty

(* A step that concerns one symbol keeps memory and exchange in step if it *)
(* does so for that symbol.                                                *)
LEMMA OneSymbol ==
  ASSUME Trading, live' = live, NEW k \in Syms,
         \A s \in Syms \ {k} : /\ ex'[s] = ex[s] /\ open'[s] = open[s]
                               /\ causes'[s] = causes[s]
                               /\ Planned(s)' <=> Planned(s)
                               /\ Planned(s) => cyc'.plan = cyc.plan,
         live /\ causes'[k] = {} =>
            /\ open'[k] # Flat => InFull(ex'[k], open'[k].dir, open'[k].qty)
            /\ Planned(k)' => InFull(ex'[k], cyc'.plan.dir, Size)
            /\ open'[k] = Flat /\ ~Planned(k)' => Empty(ex'[k])
  PROVE  InStep'
<1>. SUFFICES ASSUME live, NEW s \in Syms, causes'[s] = {}
     PROVE  /\ \A d \in Directions, q \in 1..Size :
                 /\ open'[s] # Flat /\ open'[s].dir = d /\ open'[s].qty = q
                      => RestsOrHolds(s, d, q)'
                 /\ Planned(s)' /\ cyc'.plan.dir = d => RestsOrHolds(s, d, Size)'
            /\ open'[s] = Flat /\ ~Planned(s)' => NothingFor(s)'
  BY DEF InStep, Tracked
<1>1. /\ \A d \in Directions, q \in 1..Size : RestsOrHolds(s, d, q)' <=> InFull(ex'[s], d, q)
      /\ \A d \in Directions : RestsOrHolds(s, d, Size)' <=> InFull(ex'[s], d, Size)
      /\ NothingFor(s)' <=> Empty(ex'[s])
  BY DEF RestsOrHolds, InFull, NothingFor, Empty
<1>2. CASE s = k
  BY <1>1, <1>2
<1>3. CASE s # k
  <2>1. /\ s \in Tracked => InFull(ex[s], open[s].dir, open[s].qty)
        /\ Planned(s) => InFull(ex[s], cyc.plan.dir, Size)
        /\ s \notin Tracked /\ ~Planned(s) => Empty(ex[s])
    BY <1>3, InStepRead
  <2>. QED
    BY <1>1, <1>3, <2>1 DEF Tracked
<1>. QED
  BY <1>2, <1>3

(* A part of a held position is taken off it on both sides.                *)
LEMMA PartOfHeld ==
  ASSUME Types, NEW k \in Syms, NEW d \in Directions, NEW q \in 1..Size, NEW n \in 0..q,
         InFull(ex[k], d, q), Reducible(k, d, 1) > 0
  PROVE  /\ InFull(Reduced(k, d, n)[k], d, q - n)
         /\ n = q => Empty(Reduced(k, d, n)[k])
<1>1. d * ex[k].held > 0 /\ 0 \in Int /\ d \in Int /\ d * 0 = 0
  BY ReducibleAmount DEF Directions
<1>2. ex[k].held = d * q /\ \A e \in Directions : ex[k].resting[e] = 0
  BY <1>1 DEF InFull
<1>3. Reducible(k, d, n) = n
  BY <1>2, ReducibleAmount
<1>4. /\ Reduced(k, d, n)[k].resting = ex[k].resting
      /\ Reduced(k, d, n)[k].held = d * q - d * n
  BY <1>2, <1>3, ReducedAccount
<1>5. d * q - d * n = d * (q - n) /\ (n = q => d * q - d * n = 0)
  BY DEF Directions
<1>. QED
  BY <1>2, <1>4, <1>5 DEF InFull, Empty, Directions

(* A cycle parked at an order of management plans no entry.                *)
LEMMA ManagedSymbol ==
  ASSUME Trading, cyc.pc \in {"tp1", "tp2", "close"}
  PROVE  /\ live /\ Sym \in Tracked /\ cyc.view \in Views
         /\ open[Sym] \in Positions /\ open[Sym] # Flat /\ BehindEntry(open[Sym])
         /\ \A s \in Syms : ~Planned(s)
<1>1. live /\ Sym \in Tracked /\ cyc.view \in Views
  BY DEF Trading, CycleOK
<1>. QED
  BY <1>1, TrackedPosition DEF Trading, StopsBehind, Planned

\* A cause of trouble is added to its symbol only.
LEMMA TroubledCauses ==
  ASSUME Types, NEW k \in Syms, NEW why \in Causes, Troubled(k, why)
  PROVE  /\ causes' \in [Syms -> SUBSET Causes] /\ why \in causes'[k]
         /\ \A s \in Syms \ {k} : causes'[s] = causes[s]
  BY DEF Types, Troubled

(* A partial close: "ok" takes the part off both sides, a rejected one off *)
(* neither, and a lost answer is a cause.                                  *)
LEMMA AnswerPartialKeeps ==
  ASSUME Trading, AnswerPartial
  PROVE  Trading' /\ Moves
<1>1. Types /\ cyc.pc \in {"tp1", "tp2"} /\ UNCHANGED <<live, book>>
  BY DEF AnswerPartial, Trading, provider
<1>2. PICK k \in Syms : k = Sym
  BY <1>1, SymIsTraded
<1>3. PICK tp \in {"tp1", "tp2"} : tp = cyc.pc
  BY <1>1
<1>4. PICK p \in Positions : p = open[k]
  BY <1>1, <1>2, ManagedSymbol
<1>5. PICK w \in Views : w = cyc.view
  BY <1>1, ManagedSymbol
<1>6. /\ live /\ k \in Tracked /\ BehindEntry(p) /\ \A s \in Syms : ~Planned(s)
      /\ tp = "tp1" => ~p.tp1
      /\ p.dir \in Directions
  BY <1>1, <1>2, <1>3, <1>4, ManagedSymbol DEF Trading, CycleOK, Positions
<1>7. PICK answer \in Answers :
        LET q == Took(p, tp, answer = "ok")
            r == IF tp = "tp1" THEN AfterTp1(q, w) ELSE AfterTp2(q, w)
        IN  /\ Answered(answer, Reducible(k, p.dir, 1) > 0)
            /\ IF answer = "lost" THEN Troubled(k, "lost") ELSE UNCHANGED causes
            /\ ex' = IF answer = "rejected" THEN ex ELSE Reduced(k, p.dir, Part(p, tp))
            /\ open' = [open EXCEPT ![k] = r.pos]
            /\ Go(r.pc, IF r.pc = "evaluate" THEN Absent ELSE w)
  BY <1>2, <1>3, <1>4, <1>5 DEF AnswerPartial
<1> DEFINE q == Took(p, tp, answer = "ok")
           r == IF tp = "tp1" THEN AfterTp1(q, w) ELSE AfterTp2(q, w)
           n == Part(p, tp)
<1>8. /\ Kept(p, r.pos) /\ r.pc \in {"tp2", "close", "evaluate"}
      /\ r.pos.qty = IF answer = "ok" THEN p.qty - n ELSE p.qty
  <2>1. Kept(p, q) /\ q.qty = IF answer = "ok" THEN p.qty - n ELSE p.qty
    BY <1>6, TookKeeps
  <2>2. w.price \in Int /\ w.atr \in Int
    BY DEF Views
  <2>. HIDE DEF q, n
  <2>3. q \in Positions /\ BehindEntry(q)
    BY <2>1 DEF Kept
  <2>4. Kept(q, r.pos) /\ r.pos.qty = q.qty /\ r.pc \in {"tp2", "close", "evaluate"}
    BY <2>2, <2>3, AfterTp1Keeps, AfterTp2Keeps
  <2>. HIDE DEF r
  <2>5. Kept(p, r.pos)
    BY <2>1, <2>4, KeptIsTransitive
  <2>. QED
    BY <2>1, <2>4, <2>5
<1>9. n \in 0..p.qty /\ n \in Nat /\ p.qty \in 1..Size
  BY PartIsLess
<1>10. /\ Answered(answer, Reducible(k, p.dir, 1) > 0)
       /\ IF answer = "lost" THEN Troubled(k, "lost") ELSE UNCHANGED causes
       /\ ex' = IF answer = "rejected" THEN ex ELSE Reduced(k, p.dir, n)
       /\ open' = [open EXCEPT ![k] = r.pos]
       /\ Go(r.pc, IF r.pc = "evaluate" THEN Absent ELSE w)
  BY <1>7
<1>. HIDE DEF r, n
<1>11. cyc' \in Cycles /\ cyc'.pc = r.pc /\ cyc'.i = cyc.i
       /\ (r.pc # "evaluate" => cyc'.view = w)
  <2> DEFINE x == IF r.pc = "evaluate" THEN Absent ELSE w
  <2>1. r.pc \in Phases /\ x \in Views \cup {Absent} /\ Go(r.pc, x)
    BY <1>8, <1>10 DEF Phases
  <2>2. cyc' \in Cycles /\ cyc'.pc = r.pc /\ cyc'.view = x /\ cyc'.i = cyc.i
    BY <1>1, <2>1, GoCycle
  <2>. QED
    BY <2>2
<1>12. /\ causes' \in [Syms -> SUBSET Causes]
       /\ \A s \in Syms \ {k} : causes'[s] = causes[s]
       /\ causes'[k] = {} => answer # "lost" /\ causes[k] = {}
  BY <1>1, <1>10, TroubledCauses DEF Types, Causes
<1>13. /\ ex' \in [Syms -> Accounts]
       /\ \A s \in Syms \ {k} : ex'[s] = ex[s]
  BY <1>1, <1>6, <1>9, <1>10, ReducedAccount DEF Types
<1>14. /\ open' \in [Syms -> Positions \cup {Flat}] /\ open'[k] = r.pos /\ r.pos # Flat
       /\ \A s \in Syms \ {k} : open'[s] = open[s]
  BY <1>1, <1>8, <1>10, FlatAssumption DEF Types, Kept
<1>15. Types' /\ NoPaperOrder'
  BY <1>1, <1>6, <1>11, <1>12, <1>13, <1>14 DEF Types, NoPaperOrder
<1>16. Moves
  <2>. SUFFICES ASSUME NEW s \in Tracked, open'[s] # Flat PROVE Kept(open[s], open'[s])
    BY DEF Moves
  <2>1. CASE s = k
    BY <1>4, <1>8, <1>14, <2>1
  <2>2. CASE s # k
    BY <1>1, <1>14, <2>2, TrackedPosition, KeptIsReflexive DEF Trading, StopsBehind
  <2>. QED
    BY <2>1, <2>2
<1>17. StopsBehind'
  <2>1. \A s \in Syms : open[s] = Flat => open'[s] = Flat
    BY <1>6, <1>14 DEF Tracked
  <2>. QED
    BY <1>16, <2>1, MovesKeepStopsBehind
<1>18. CycleOK'
  <2>1. Sym' = k /\ k \in Tracked' /\ live' /\ cyc'.pc # "tp1"
    BY <1>1, <1>2, <1>6, <1>8, <1>11, <1>14 DEF Sym, Tracked
  <2>2. cyc'.pc # "evaluate" => cyc'.view \in Views
    BY <1>11
  <2>. QED
    BY <1>8, <1>11, <2>1, <2>2 DEF CycleOK
<1>19. InStep'
  <2>1. \A s \in Syms : ~Planned(s)'
    BY <1>8, <1>11 DEF Planned
  <2>2. ASSUME causes'[k] = {}
        PROVE  InFull(ex'[k], p.dir, r.pos.qty)
    <3>1. answer # "lost" /\ InFull(ex[k], p.dir, p.qty)
      BY <1>4, <1>6, <1>12, <2>2, InStepRead
    <3>2. CASE answer = "ok"
      <4>1. Reducible(k, p.dir, 1) > 0
        BY <1>10, <3>2 DEF Answered
      <4>2. InFull(Reduced(k, p.dir, n)[k], p.dir, p.qty - n)
        BY <1>1, <1>6, <1>9, <3>1, <4>1, PartOfHeld
      <4>. QED
        BY <1>8, <1>10, <3>2, <4>2
    <3>3. CASE answer = "rejected"
      BY <1>8, <1>10, <3>1, <3>3
    <3>. QED
      BY <3>1, <3>2, <3>3 DEF Answers
  <2>3. r.pos.dir = p.dir
    BY <1>8 DEF Kept
  <2>. QED
    BY <1>1, <1>6, <1>12, <1>13, <1>14, <2>1, <2>2, <2>3, OneSymbol
<1>. QED
  BY <1>15, <1>16, <1>17, <1>18, <1>19 DEF Trading

(* A full close: "ok" and "lost" leave nothing on either side, a rejected  *)
(* one is a cause.                                                         *)
LEMMA AnswerCloseKeeps ==
  ASSUME Trading, AnswerClose
  PROVE  Trading' /\ Moves
<1>1. Types /\ cyc.pc = "close" /\ UNCHANGED <<live, book>>
  BY DEF AnswerClose, Trading, provider
<1>2. PICK k \in Syms : k = Sym
  BY <1>1, SymIsTraded
<1>3. PICK p \in Positions : p = open[k]
  BY <1>1, <1>2, ManagedSymbol
<1>4. /\ live /\ k \in Tracked /\ \A s \in Syms : ~Planned(s)
      /\ p.dir \in Directions /\ p.qty \in 1..Size /\ p.qty \in Nat
  BY <1>1, <1>2, ManagedSymbol, Sizes DEF Positions
<1>5. PICK answer \in Answers :
        /\ Answered(answer, Reducible(k, p.dir, 1) > 0)
        /\ ex' = IF answer = "rejected" THEN ex ELSE Reduced(k, p.dir, p.qty)
        /\ IF answer = "rejected" THEN Troubled(k, "not closed") ELSE UNCHANGED causes
  BY <1>2, <1>3 DEF AnswerClose, Closed
<1>6. cyc' \in Cycles /\ cyc'.pc = "evaluate"
  <2>1. "evaluate" \in Phases /\ Go("evaluate", Absent)
    BY DEF Phases, AnswerClose
  <2>. QED
    BY <1>1, <2>1, GoCycle
<1>7. /\ causes' \in [Syms -> SUBSET Causes]
      /\ \A s \in Syms \ {k} : causes'[s] = causes[s]
      /\ causes'[k] = {} => answer # "rejected" /\ causes[k] = {}
  BY <1>1, <1>5, TroubledCauses DEF Types, Causes
<1>8. /\ ex' \in [Syms -> Accounts]
      /\ \A s \in Syms \ {k} : ex'[s] = ex[s]
  <2>1. /\ Reduced(k, p.dir, p.qty) \in [Syms -> Accounts]
        /\ \A s \in Syms \ {k} : Reduced(k, p.dir, p.qty)[s] = ex[s]
    BY <1>1, <1>4, ReducedAccount
  <2>2. ex \in [Syms -> Accounts]
    BY <1>1 DEF Types
  <2>. QED
    BY <1>5, <2>1, <2>2
<1>9. /\ open' \in [Syms -> Positions \cup {Flat}] /\ open'[k] = Flat
      /\ \A s \in Syms \ {k} : open'[s] = open[s]
  BY <1>1, <1>2 DEF Types, AnswerClose
<1>10. Types' /\ NoPaperOrder'
  BY <1>1, <1>4, <1>6, <1>7, <1>8, <1>9 DEF Types, NoPaperOrder
<1>11. Moves
  BY <1>1, <1>9, TrackedPosition, KeptIsReflexive DEF Trading, StopsBehind, Moves
<1>12. StopsBehind'
  BY <1>9, <1>11, MovesKeepStopsBehind
<1>13. InStep'
  <2>1. \A s \in Syms : ~Planned(s)'
    BY <1>6 DEF Planned
  <2>2. ASSUME causes'[k] = {}
        PROVE  Empty(ex'[k])
    <3>1. answer # "rejected" /\ InFull(ex[k], p.dir, p.qty)
      BY <1>3, <1>4, <1>7, <2>2, InStepRead
    <3>2. Reducible(k, p.dir, 1) > 0
      BY <1>5, <3>1 DEF Answered, Answers
    <3>3. p.qty \in 0..p.qty
      BY <1>4
    <3>4. Empty(Reduced(k, p.dir, p.qty)[k])
      BY <1>1, <1>4, <3>1, <3>2, <3>3, PartOfHeld
    <3>. QED
      BY <1>5, <3>1, <3>4
  <2>. QED
    BY <1>1, <1>4, <1>7, <1>8, <1>9, <2>1, <2>2, OneSymbol
<1>. QED
  BY <1>6, <1>10, <1>11, <1>12, <1>13, BetweenOrders DEF Trading

(* An entry: stored at once on paper, planned in live trading.             *)
LEMMA EvaluateEntryKeeps ==
  ASSUME Trading, EvaluateEntry
  PROVE  Trading' /\ Moves
<1>1. Types /\ cyc.pc = "evaluate" /\ UNCHANGED <<live, book, ex, causes>>
  BY DEF EvaluateEntry, Trading, provider
<1>2. PICK k \in Syms : k = Sym
  BY <1>1, SymIsTraded
<1>3. PICK d \in Directions :
        /\ k \notin Tracked /\ HasState(k)
        /\ LET p == NewPosition(d, State(k))
           IN  IF live
               THEN /\ cyc' = [cyc EXCEPT !.pc = "entry", !.plan = p]
                    /\ UNCHANGED open
               ELSE /\ open' = [open EXCEPT ![k] = p]
                    /\ NextSymbol
  <2>1. PICK kn \in Kernels, c \in Contexts, btc \in BtcReturns :
          LET r == Reading(c, btc)
          IN  /\ MayLook(kn)
              /\ \E d \in Candidates(r) :
                    /\ ~Blocked(State(Sym), r, d) /\ Worthy(r, d, kn)
                    /\ LET p == NewPosition(d, State(Sym))
                       IN  IF live
                           THEN /\ cyc' = [cyc EXCEPT !.pc = "entry", !.plan = p]
                                /\ UNCHANGED open
                           ELSE /\ open' = [open EXCEPT ![Sym] = p]
                                /\ NextSymbol
    BY DEF EvaluateEntry
  <2>2. Candidates(Reading(c, btc)) \subseteq Directions
    BY DEF Candidates, Setups, Directions
  <2>. QED
    BY <1>2, <2>1, <2>2 DEF MayLook
<1>4. PICK p : p = NewPosition(d, State(k))
  OBVIOUS
<1>5. p \in Positions /\ BehindEntry(p) /\ p.qty = Size /\ p # Flat
  BY <1>1, <1>3, <1>4, StateRead, NewPositionIsBehind, FlatAssumption
<1>6. open[k] = Flat
  BY <1>3 DEF Tracked
<1>7. CASE live
  <2>1. cyc' = [cyc EXCEPT !.pc = "entry", !.plan = p] /\ UNCHANGED open
    BY <1>3, <1>4, <1>7
  <2>2. cyc' \in Cycles /\ cyc'.pc = "entry" /\ cyc'.plan = p /\ cyc'.i = cyc.i
    BY <1>1, <1>5, <2>1 DEF Types, Cycles, Phases
  <2>3. Moves
    BY <2>1, NothingMoves
  <2>4. Types'
    BY <1>1, <2>1, <2>2 DEF Types
  <2>5. StopsBehind' /\ InStep' /\ NoPaperOrder'
    BY <1>1, <2>1, <2>2, <2>3, CalmStep
  <2>6. CycleOK'
    <3>1. live' /\ Sym' = k /\ k \notin Tracked' /\ BehindEntry(p)
      BY <1>1, <1>2, <1>3, <1>5, <1>7, <2>1, <2>2 DEF Sym, Tracked
    <3>2. BehindEntry(cyc'.plan)
      BY <2>2, <3>1
    <3>3. BehindEntry(cyc.plan)'
      BY <3>2 DEF BehindEntry, Entry
    <3>. QED
      BY <1>5, <2>2, <3>1, <3>3 DEF CycleOK
  <2>. QED
    BY <2>3, <2>4, <2>5, <2>6 DEF Trading
<1>8. CASE ~live
  <2>1. open' = [open EXCEPT ![k] = p] /\ NextSymbol
    BY <1>3, <1>4, <1>8
  <2>2. cyc' \in Cycles /\ cyc'.pc \in {"idle", "manage", "evaluate"}
    BY <1>1, <2>1, NextCycle
  <2>3. /\ open' \in [Syms -> Positions \cup {Flat}] /\ open'[k] = p
        /\ \A s \in Syms \ {k} : open'[s] = open[s]
    BY <1>1, <1>5, <2>1 DEF Types
  <2>4. Moves
    BY <1>1, <1>6, <2>3, TrackedPosition, KeptIsReflexive DEF Trading, StopsBehind, Moves
  <2>5. StopsBehind'
    BY <1>5, <2>3, StopsStayBehind DEF Trading, StopsBehind, Tracked
  <2>6. Types' /\ InStep' /\ NoPaperOrder'
    BY <1>1, <1>8, <2>2, <2>3 DEF Types, InStep, NoPaperOrder, Trading
  <2>. QED
    BY <2>2, <2>4, <2>5, <2>6, BetweenOrders DEF Trading
<1>. QED
  BY <1>7, <1>8

(* The entry is answered: nothing was there before, so what rests is it.   *)
LEMMA AnswerEntryKeeps ==
  ASSUME Trading, AnswerEntry
  PROVE  Trading' /\ Moves
<1>1. /\ Types /\ cyc.pc = "entry" /\ UNCHANGED <<live, book, open>>
      /\ Moves
  BY NothingMoves DEF AnswerEntry, Trading, provider
<1>2. PICK k \in Syms : k = Sym
  BY <1>1, SymIsTraded
<1>3. PICK p \in Positions : p = cyc.plan
  BY <1>1 DEF Trading, CycleOK
<1>4. /\ live /\ k \notin Tracked /\ open[k] = Flat /\ BehindEntry(p) /\ p.qty = Size
      /\ p.dir \in Directions /\ \A s \in Syms : ~Planned(s)
  BY <1>1, <1>2, <1>3 DEF Trading, CycleOK, Tracked, Positions, Planned
<1> DEFINE d == p.dir
           a == [ex[k] EXCEPT !.resting[d] = @ + Size]
<1>5. PICK answer \in Answers :
        /\ IF answer = "lost" THEN Troubled(k, "lost") ELSE UNCHANGED causes
        /\ ex' = IF answer = "rejected" THEN ex ELSE [ex EXCEPT ![k] = a]
        /\ IF answer = "ok" THEN cyc' = [cyc EXCEPT !.pc = "stop"] ELSE NextSymbol
  BY <1>2, <1>3 DEF AnswerEntry
<1>6. /\ a \in Accounts /\ a.held = ex[k].held
      /\ a.resting[d] = ex[k].resting[d] + Size
      /\ \A e \in Directions \ {d} : a.resting[e] = ex[k].resting[e]
  <2> DEFINE b == [ex[k].resting EXCEPT ![d] = @ + Size]
  <2>1. ex[k] \in Accounts /\ ex[k].resting \in [Directions -> Nat]
    BY <1>1 DEF Types, Accounts
  <2>2. /\ b \in [Directions -> Nat] /\ b[d] = ex[k].resting[d] + Size
        /\ \A e \in Directions \ {d} : b[e] = ex[k].resting[e]
    BY <1>4, <2>1, Sizes
  <2>3. a = [ex[k] EXCEPT !.resting = b]
    BY <2>1 DEF Accounts
  <2>. HIDE DEF a, b
  <2>4. a \in Accounts /\ a.held = ex[k].held /\ a.resting = b
    BY <2>1, <2>2, <2>3 DEF Accounts
  <2>. QED
    BY <2>2, <2>4
<1>. HIDE DEF a
<1>7. /\ cyc' \in Cycles
      /\ answer = "ok" => cyc'.pc = "stop" /\ cyc'.i = cyc.i /\ cyc'.plan = p
      /\ answer # "ok" => cyc'.pc \in {"idle", "manage"}
  <2>1. CASE answer = "ok"
    BY <1>1, <1>3, <1>5, <2>1 DEF Types, Cycles, Phases
  <2>2. CASE answer # "ok"
    BY <1>1, <1>5, <2>2, NextCycle
  <2>. QED
    BY <2>1, <2>2
<1>8. /\ causes' \in [Syms -> SUBSET Causes]
      /\ \A s \in Syms \ {k} : causes'[s] = causes[s]
      /\ causes'[k] = {} => answer # "lost" /\ causes[k] = {}
  BY <1>1, <1>5, TroubledCauses DEF Types, Causes
<1>9. /\ ex' \in [Syms -> Accounts]
      /\ \A s \in Syms \ {k} : ex'[s] = ex[s]
      /\ ex'[k] = IF answer = "rejected" THEN ex[k] ELSE a
  BY <1>1, <1>5, <1>6 DEF Types
<1>10. Types' /\ NoPaperOrder'
  BY <1>1, <1>4, <1>7, <1>8, <1>9 DEF Types, NoPaperOrder
<1>11. StopsBehind'
  BY <1>1, MovesKeepStopsBehind
<1>12. CycleOK'
  <2>1. CASE answer = "ok"
    <3>1. live' /\ Sym' = k /\ k \notin Tracked'
      BY <1>1, <1>2, <1>4, <1>7, <2>1 DEF Sym, Tracked
    <3>2. BehindEntry(cyc'.plan)
      BY <1>4, <1>7, <2>1
    <3>3. BehindEntry(cyc.plan)'
      BY <3>2 DEF BehindEntry, Entry
    <3>. QED
      BY <1>4, <1>7, <2>1, <3>1, <3>3 DEF CycleOK
  <2>2. CASE answer # "ok"
    BY <1>7, <2>2, BetweenOrders
  <2>. QED
    BY <2>1, <2>2
<1>13. InStep'
  <2>1. /\ \A s \in Syms \ {k} : ~Planned(s)'
        /\ Planned(k)' <=> answer = "ok"
    BY <1>2, <1>7 DEF Planned, Sym
  <2>2. ASSUME causes'[k] = {}
        PROVE  IF answer = "ok" THEN InFull(ex'[k], cyc'.plan.dir, Size) ELSE Empty(ex'[k])
    <3>1. answer # "lost" /\ Empty(ex[k])
      BY <1>4, <1>8, <2>2, InStepRead
    <3>2. CASE answer = "ok"
      <4>1. /\ ex'[k] = a /\ cyc'.plan.dir = d /\ ex[k].held = 0
            /\ \A e \in Directions : ex[k].resting[e] = 0
        BY <1>7, <1>9, <3>1, <3>2 DEF Empty, Directions
      <4>2. a.held = 0 /\ a.resting[d] = Size /\ \A e \in Directions \ {d} : a.resting[e] = 0
        BY <1>4, <1>6, <4>1, Sizes
      <4>. QED
        BY <3>2, <4>1, <4>2 DEF InFull
    <3>3. CASE answer = "rejected"
      BY <1>9, <3>1, <3>3
    <3>. QED
      BY <3>1, <3>2, <3>3 DEF Answers
  <2>. QED
    BY <1>1, <1>4, <1>8, <1>9, <2>1, <2>2, OneSymbol
<1>. QED
  BY <1>1, <1>10, <1>11, <1>12, <1>13 DEF Trading

(* The position is stored, with its stop order or without.                 *)
LEMMA AnswerStopKeeps ==
  ASSUME Trading, AnswerStop
  PROVE  Trading' /\ Moves
<1>1. Types /\ cyc.pc = "stop" /\ UNCHANGED <<live, book, causes>> /\ NextSymbol
  BY DEF AnswerStop, Trading, provider
<1>2. PICK k \in Syms : k = Sym
  BY <1>1, SymIsTraded
<1>3. PICK p \in Positions : p = cyc.plan
  BY <1>1 DEF Trading, CycleOK
<1>4. /\ live /\ k \notin Tracked /\ open[k] = Flat /\ BehindEntry(p) /\ p.qty = Size
      /\ p.dir \in Directions /\ p # Flat
      /\ \A s \in Syms : Planned(s) <=> s = k
  BY <1>1, <1>2, <1>3, FlatAssumption DEF Trading, CycleOK, Tracked, Positions, Planned
<1>5. cyc' \in Cycles /\ cyc'.pc \in {"idle", "manage"}
  BY <1>1, NextCycle
<1>6. /\ open' \in [Syms -> Positions \cup {Flat}] /\ open'[k] = p
      /\ \A s \in Syms \ {k} : open'[s] = open[s]
  BY <1>1, <1>2, <1>3 DEF Types, AnswerStop
<1>7. /\ ex' \in [Syms -> Accounts]
      /\ \A s \in Syms \ {k} : ex'[s] = ex[s]
      /\ ex'[k].held = ex[k].held /\ ex'[k].resting = ex[k].resting
  <2> DEFINE a == [ex[k] EXCEPT !.stop = p.dir]
  <2>1. ex' = [ex EXCEPT ![k] = a] \/ ex' = ex
    BY <1>2, <1>3 DEF AnswerStop
  <2>2. a \in Accounts /\ a.held = ex[k].held /\ a.resting = ex[k].resting
    BY <1>1, <1>4 DEF Types, Accounts
  <2>3. ex \in [Syms -> Accounts]
    BY <1>1 DEF Types
  <2>. HIDE DEF a
  <2>. QED
    BY <2>1, <2>2, <2>3
<1>8. Types' /\ NoPaperOrder'
  BY <1>1, <1>4, <1>5, <1>6, <1>7 DEF Types, NoPaperOrder
<1>9. Moves
  BY <1>1, <1>4, <1>6, TrackedPosition, KeptIsReflexive DEF Trading, StopsBehind, Moves
<1>10. StopsBehind'
  BY <1>4, <1>6, StopsStayBehind DEF Trading, StopsBehind, Tracked
<1>11. InStep'
  <2>1. \A s \in Syms : ~Planned(s)'
    BY <1>5 DEF Planned
  <2>2. ASSUME causes'[k] = {}
        PROVE  InFull(ex'[k], p.dir, p.qty)
    <3>1. InFull(ex[k], p.dir, Size)
      BY <1>1, <1>3, <1>4, <2>2, InStepRead
    <3>. QED
      BY <1>4, <1>7, <3>1 DEF InFull
  <2>. QED
    BY <1>1, <1>4, <1>6, <1>7, <2>1, <2>2, OneSymbol
<1>. QED
  BY <1>5, <1>8, <1>9, <1>10, <1>11, BetweenOrders DEF Trading

(* A step of the exchange alone: memory, the cycle and the books stay.     *)
LEMMA ExchangeAlone ==
  ASSUME Trading, UNCHANGED <<live, book, open, cyc>>,
         ex' \in [Syms -> Accounts], causes' \in [Syms -> SUBSET Causes]
  PROVE  Moves /\ Types' /\ StopsBehind' /\ CycleOK'
<1>1. Moves
  BY NothingMoves
<1>2. StopsBehind'
  BY <1>1, MovesKeepStopsBehind
<1>. QED
  BY <1>1, <1>2 DEF Trading, Types, CycleOK, Sym, Tracked, BehindEntry, Entry

(* What rests is filled: it is then held in full.                          *)
LEMMA FillKeeps ==
  ASSUME Trading, NEW k \in Syms, NEW d \in Directions, Fill(k, d)
  PROVE  Trading' /\ Moves
<1> DEFINE n == ex[k].resting[d]
           h == ex[k].held + d * n
           b == [ex[k].resting EXCEPT ![d] = 0]
           a == [ex[k] EXCEPT !.held = h, !.resting = b]
<1>1. UNCHANGED <<live, book, open, cyc, causes>> /\ Types /\ n > 0
  BY DEF Fill, provider, Trading
<1>2. /\ ex[k] \in Accounts /\ n \in Nat /\ h \in Int /\ b \in [Directions -> Nat]
      /\ b[d] = 0 /\ \A e \in Directions \ {d} : b[e] = ex[k].resting[e]
  BY <1>1 DEF Types, Accounts, Directions
<1>3. ex' = [ex EXCEPT ![k] = a]
  BY DEF Fill
<1>4. a \in Accounts /\ a.held = h /\ a.resting = b
  <2>. HIDE DEF h, b
  <2>. QED
    BY <1>2 DEF Accounts
<1>. HIDE DEF a
<1>5. ex' \in [Syms -> Accounts] /\ ex'[k] = a /\ \A s \in Syms \ {k} : ex'[s] = ex[s]
  BY <1>1, <1>3, <1>4 DEF Types
<1>6. Moves /\ Types' /\ StopsBehind' /\ CycleOK'
  BY <1>1, <1>5, ExchangeAlone DEF Types
<1>7. ASSUME NEW c \in Directions, NEW q \in Nat, InFull(ex[k], c, q)
      PROVE  InFull(a, c, q)
  <2>1. c = d /\ ex[k].held = 0 /\ n = q
    BY <1>1, <1>2, <1>7 DEF InFull
  <2>2. h = d * q
    BY <2>1 DEF Directions
  <2>3. \A e \in Directions \ {d} : ex[k].resting[e] = 0
    BY <1>7, <2>1 DEF InFull
  <2>. HIDE DEF h, n, b
  <2>. QED
    BY <1>2, <1>4, <2>1, <2>2, <2>3 DEF InFull
<1>8. ~Empty(ex[k])
  BY <1>1 DEF Empty, Directions
<1>9. InStep'
  <2>1. \A s \in Syms : Planned(s)' <=> Planned(s)
    BY <1>1 DEF Planned, Sym
  <2>2. ASSUME live, causes'[k] = {}
        PROVE  /\ open[k] # Flat => InFull(a, open[k].dir, open[k].qty)
               /\ Planned(k) => InFull(a, cyc.plan.dir, Size)
               /\ ~(open[k] = Flat /\ ~Planned(k))
    <3>1. /\ open[k] # Flat => InFull(ex[k], open[k].dir, open[k].qty)
          /\ Planned(k) => InFull(ex[k], cyc.plan.dir, Size)
          /\ ~(open[k] = Flat /\ ~Planned(k))
      BY <1>1, <1>8, <2>2, InStepRead DEF Tracked
    <3>2. /\ open[k] # Flat => open[k].dir \in Directions /\ open[k].qty \in Nat
          /\ Planned(k) => cyc.plan.dir \in Directions /\ Size \in Nat
      BY <1>1, TrackedPosition, Sizes DEF Tracked, Positions, Trading, CycleOK, Planned
    <3>. QED
      BY <1>7, <3>1, <3>2
  <2>. QED
    BY <1>1, <1>5, <2>1, <2>2, OneSymbol
<1>10. NoPaperOrder'
  <2>1. live
    <3>1. NothingThere.resting[d] = 0
      BY DEF NothingThere
    <3>. QED
      BY <1>1, <3>1 DEF Trading, NoPaperOrder
  <2>. QED
    BY <1>1, <2>1 DEF NoPaperOrder
<1>. QED
  BY <1>6, <1>9, <1>10 DEF Trading

(* A stop order that fires is a cause, and there is none on paper.         *)
LEMMA StopFiresKeeps ==
  ASSUME Trading, NEW k \in Syms, StopFires(k)
  PROVE  Trading' /\ Moves
<1> DEFINE a == [ex[k] EXCEPT !.held = 0, !.stop = 0]
<1>1. UNCHANGED <<live, book, open, cyc>> /\ Types /\ ex[k].stop # 0
  BY DEF StopFires, provider, Trading
<1>2. a \in Accounts
  <2>1. ASSUME NEW h \in Int, NEW t \in Directions \cup {0}
        PROVE  [ex[k] EXCEPT !.held = h, !.stop = t] \in Accounts
    BY <1>1 DEF Types, Accounts
  <2>2. 0 \in Int /\ 0 \in Directions \cup {0}
    OBVIOUS
  <2>. QED
    BY <2>1, <2>2, Zenon
<1>3. ex' = [ex EXCEPT ![k] = a]
  BY DEF StopFires
<1>. HIDE DEF a
<1>4. ex' \in [Syms -> Accounts] /\ \A s \in Syms \ {k} : ex'[s] = ex[s]
  BY <1>1, <1>2, <1>3 DEF Types
<1>5. /\ causes' \in [Syms -> SUBSET Causes] /\ causes'[k] # {}
      /\ \A s \in Syms \ {k} : causes'[s] = causes[s]
  BY <1>1, TroubledCauses DEF StopFires, Causes
<1>6. Moves /\ Types' /\ StopsBehind' /\ CycleOK'
  BY <1>1, <1>4, <1>5, ExchangeAlone
<1>7. InStep'
  <2>1. \A s \in Syms : Planned(s)' <=> Planned(s)
    BY <1>1 DEF Planned, Sym
  <2>. QED
    BY <1>1, <1>4, <1>5, <2>1, OneSymbol
<1>8. NoPaperOrder'
  BY <1>1 DEF Trading, NoPaperOrder, NothingThere
<1>. QED
  BY <1>6, <1>7, <1>8 DEF Trading

(* A restart forgets everything; where the exchange holds or rests         *)
(* something, that is a cause.                                             *)
LEMMA RestartKeeps ==
  ASSUME Trading, Restart
  PROVE  Trading' /\ Moves
<1>1. /\ UNCHANGED <<live, ex>> /\ Types
      /\ open' = [s \in Syms |-> Flat] /\ cyc' = Idle /\ book' = [s \in Syms |-> Absent]
      /\ causes' = [s \in Syms |-> IF ex[s] = NothingThere THEN causes[s]
                                   ELSE causes[s] \cup {"restart"}]
  BY DEF Restart, ProviderStart, ColdBook, Trading
<1>2. Idle \in Cycles /\ cyc'.pc = "idle"
  <2>1. 1 \in 1..Len(Symbols) /\ "idle" \in {"idle", "manage"}
    BY FeedAssumption
  <2>. QED
    BY <1>1, <2>1, IdleCycle
<1>3. Moves
  BY <1>1 DEF Moves, Tracked
<1>4. Types' /\ StopsBehind' /\ NoPaperOrder'
  BY <1>1, <1>2 DEF Types, Causes, StopsBehind, Tracked, NoPaperOrder, Trading
<1>5. \A s \in Syms : causes'[s] = {} => ex'[s] = NothingThere
  BY <1>1 DEF Types
<1>6. InStep'
  <2>1. \A s \in Syms : causes'[s] = {} => NothingFor(s)'
    BY <1>5 DEF NothingFor, NothingThere, Directions
  <2>2. \A s \in Syms : ~Planned(s)' /\ s \notin Tracked'
    BY <1>1, <1>2 DEF Planned, Tracked
  <2>. QED
    BY <2>1, <2>2 DEF InStep
<1>. QED
  BY <1>2, <1>3, <1>4, <1>6, BetweenOrders DEF Trading

\* Every step keeps the invariant and moves stops in the direction of the trade only.
LEMMA StepKeeps ==
  ASSUME Trading, [Next]_vars
  PROVE  Trading' /\ Moves
<1>1. CASE StartCycle \/ ManageNothing \/ EvaluateNothing \/ EvaluateBlocked
  BY <1>1, CalmCycleKeeps
<1>2. CASE ManagePosition
  BY <1>2, ManagePositionKeeps
<1>3. CASE AnswerPartial
  BY <1>3, AnswerPartialKeeps
<1>4. CASE AnswerClose
  BY <1>4, AnswerCloseKeeps
<1>5. CASE EvaluateEntry
  BY <1>5, EvaluateEntryKeeps
<1>6. CASE AnswerEntry
  BY <1>6, AnswerEntryKeeps
<1>7. CASE AnswerStop
  BY <1>7, AnswerStopKeeps
<1>8. CASE Tick
  BY <1>8, TickKeeps
<1>9. CASE Restart
  BY <1>9, RestartKeeps
<1>10. ASSUME NEW s \in Syms, Feed(s) \/ Trouble(s)
       PROVE  Trading' /\ Moves
  BY <1>10, FeedKeeps DEF Feed, Trouble
<1>11. ASSUME NEW s \in Syms, StopFires(s)
       PROVE  Trading' /\ Moves
  BY <1>11, StopFiresKeeps
<1>12. ASSUME NEW s \in Syms, NEW d \in Directions, Fill(s, d)
       PROVE  Trading' /\ Moves
  BY <1>12, FillKeeps
<1>13. CASE UNCHANGED vars
  BY <1>13, StutterKeeps
<1>. QED
  BY <1>1, <1>2, <1>3, <1>4, <1>5, <1>6, <1>7, <1>8, <1>9, <1>10, <1>11, <1>12, <1>13
     DEF Next, Cycle

-----------------------------------------------------------------------------
(* The theorems.                                                           *)

(* The invariant holds in every reachable state: a parked cycle is at an   *)
(* order of a position it still tracks (_close_partial, _close_full), or   *)
(* of an entry for a symbol it does not track yet (execute_signal).        *)
THEOREM TradingInvariant == Spec => []Trading
<1>1. Trading /\ [Next]_vars => Trading'
  BY StepKeeps
<1>. QED
  BY InitKeeps, <1>1, PTL DEF Spec

(* Memory and exchange agree on what each symbol is in for, unless an      *)
(* answer got lost, a full close failed, a stop order fired or the process *)
(* was restarted: rejected and executed orders alone never part them       *)
(* (execute_signal, _close_partial, _close_full).                          *)
THEOREM MemoryMatchesExchange == Spec => []TrackedIsHeld
<1>1. ASSUME Trading PROVE TrackedIsHeld
  <2>. SUFFICES ASSUME live, NEW s \in Syms, causes[s] = {}
                PROVE  ex[s].held + ex[s].resting[1] - ex[s].resting[-1] = InFor(s)
    BY DEF TrackedIsHeld
  <2>1. /\ s \in Tracked => InFull(ex[s], open[s].dir, open[s].qty)
        /\ Planned(s) => InFull(ex[s], cyc.plan.dir, Size)
        /\ s \notin Tracked /\ ~Planned(s) => Empty(ex[s])
    BY <1>1, InStepRead
  <2>2. ASSUME NEW d \in Directions, NEW q \in Nat, InFull(ex[s], d, q)
        PROVE  ex[s].held + ex[s].resting[1] - ex[s].resting[-1] = d * q
    BY <2>2 DEF InFull, Directions
  <2>3. CASE s \in Tracked
    <3>1. open[s].dir \in Directions /\ open[s].qty \in Nat
      BY <1>1, <2>3, TrackedPosition, Sizes DEF Trading, Positions
    <3>. QED
      BY <2>1, <2>2, <2>3, <3>1 DEF InFor
  <2>4. CASE s \notin Tracked /\ Planned(s)
    <3>1. cyc.plan.dir \in Directions /\ Size \in Nat
      BY <1>1, <2>4, Sizes DEF Trading, CycleOK, Planned, Positions
    <3>. QED
      BY <2>1, <2>2, <2>4, <3>1 DEF InFor, Planned
  <2>5. CASE s \notin Tracked /\ ~Planned(s)
    BY <2>1, <2>5 DEF InFor, Planned, Empty
  <2>. QED
    BY <2>3, <2>4, <2>5
<1>. QED
  BY <1>1, TradingInvariant, PTL

(* No step moves the stop of a position it keeps against the position,     *)
(* whatever the prices, ranges and gaps between two looks at the market    *)
(* (_move_stop_to_breakeven, _compute_trailing_stop).                      *)
THEOREM StopsNeverBackUp == Spec => StopNeverBacksUp
<1>1. ASSUME Trading, [Next]_vars
      PROVE  [\A s \in Tracked : open'[s] # Flat =>
                 open[s].dir * open'[s].stop >= open[s].dir * open[s].stop]_vars
  BY <1>1, StepKeeps DEF Moves, Kept
<1>. QED
  BY <1>1, TradingInvariant, PTL DEF Spec, StopNeverBacksUp

(* With live_trading off nothing ever reaches the exchange, whatever the   *)
(* strategy decides, opens and closes on paper.                            *)
THEOREM PaperSendsNoOrder == Spec => []NoPaperOrder
  BY TradingInvariant, PTL DEF Trading

-----------------------------------------------------------------------------
(* Types of what Trading leaves out.                                       *)

Typed ==
    /\ ProviderTypeOK
    /\ live \in Modes
    /\ cooldown \in [Syms -> 0..Cooldown]
    /\ due \in 0..CycleEvery
    /\ skipped \in [Syms -> Nat]
    /\ entries \in 0..MaxEntries /\ faults \in 0..MaxFaults

\* The smaller of two numbers.
LEMMA MinOfTwo ==
  ASSUME NEW a \in Int, NEW b \in Int
  PROVE  Min({a, b}) = IF a <= b THEN a ELSE b
<1>1. (IF a <= b THEN a ELSE b) \in {a, b}
      /\ \A y \in {a, b} : (IF a <= b THEN a ELSE b) <= y
  OBVIOUS
<1>2. \A x \in {a, b} : (\A y \in {a, b} : x <= y) => x = IF a <= b THEN a ELSE b
  OBVIOUS
<1>. QED
  BY <1>1, <1>2 DEF Min

\* Numbers of the provider and of the strategy.
LEMMA Limits ==
  /\ Never \in Nat \ {0} /\ StaleAfter \in Nat /\ Never = StaleAfter + 1
  /\ MaxLatency \in Nat
  /\ Len(Backoff) \in Nat \ {0} /\ \A n \in 1..Len(Backoff) : Backoff[n] \in Nat
  /\ \A p \in DOMAIN Polls : Polls[p] \in Nat \ {0}
  /\ \A t \in Rings : Keep[t] \in Nat \ {0}
  /\ MaxOutages \in Nat /\ Cooldown \in Nat /\ CycleEvery \in Nat \ {0}
  /\ MaxEntries \in Nat /\ MaxFaults \in Nat
<1>1. /\ StaleAfter \in Nat /\ MaxOutages \in Nat /\ Cooldown \in Nat /\ MaxLatency \in Nat
      /\ MaxEntries \in Nat /\ MaxFaults \in Nat /\ CycleEvery \in Nat \ {0}
  BY FeedAssumption, VortexAssumption
<1>2. Len(Backoff) \in Nat \ {0} /\ \A n \in 1..Len(Backoff) : Backoff[n] \in Nat
  BY FeedAssumption
<1>3. /\ \A p \in DOMAIN Polls : Polls[p] \in Nat \ {0}
      /\ \A t \in Rings : Keep[t] \in Nat \ {0}
  BY FeedAssumption
<1>. QED
  BY <1>1, <1>2, <1>3 DEF Never

\* Every feed is a stream or a poll.
LEMMA FeedKinds ==
  /\ Feeds = Streams \cup DOMAIN Polls /\ Streams \cap DOMAIN Polls = {}
  /\ Rings \subseteq Streams /\ "book" \in Streams \ Rings
  /\ Streams = Rings \cup {"book"}
  BY FeedAssumption DEF Feeds, Rings

\* How long a request takes.
LEMMA LatencyTypes ==
  /\ \A f \in Streams : Latencies(f) = {0}
  /\ \A p \in DOMAIN Polls : Latencies(p) = 0..MaxLatency
  /\ \A f \in Feeds : Latencies(f) \subseteq Nat
  BY FeedKinds, Limits DEF Latencies

\* The caches and tasks of a new process.
LEMMA ColdTypes ==
  /\ ColdAge \in [Syms -> [Feeds -> 0..Never]]
  /\ \A t \in ColdTasks : t \in [Syms -> [Feeds -> [wait : Nat, tries : 0..Len(Backoff)]]]
  /\ ColdBars \in [Syms -> [Rings -> Nat]]
  /\ \A s \in Syms : \A t \in Rings : ColdBars[s][t] <= Keep[t]
  /\ ColdBook \in [Syms -> Books \cup {Absent}]
  /\ ColdValue \in [Syms -> [DOMAIN Polls -> (UNION Range(PollValues)) \cup {Absent}]]
  /\ \A s \in Syms : \A p \in DOMAIN Polls : ColdValue[s][p] \in PollValues[p] \cup {Absent}
<1>1. Never \in 0..Never
  BY Limits
<1>2. [wait : 0..MaxLatency, tries : {0}] \subseteq [wait : Nat, tries : 0..Len(Backoff)]
  <2>1. {0} \subseteq 0..Len(Backoff) /\ 0..MaxLatency \subseteq Nat
    BY Limits
  <2>. QED
    BY <2>1
<1>3. ColdAge \in [Syms -> [Feeds -> 0..Never]]
  BY <1>1 DEF ColdAge
<1>4. \A t \in ColdTasks : t \in [Syms -> [Feeds -> [wait : Nat, tries : 0..Len(Backoff)]]]
  BY <1>2 DEF ColdTasks
<1>5. ColdBars \in [Syms -> [Rings -> Nat]] /\ \A s \in Syms : \A t \in Rings : ColdBars[s][t] <= Keep[t]
  BY Limits DEF ColdBars
<1>6. ColdBook \in [Syms -> Books \cup {Absent}]
  BY DEF ColdBook
<1>7. /\ ColdValue \in [Syms -> [DOMAIN Polls -> (UNION Range(PollValues)) \cup {Absent}]]
      /\ \A s \in Syms : \A p \in DOMAIN Polls : ColdValue[s][p] = Absent
  BY DEF ColdValue
<1>. QED
  BY <1>3, <1>4, <1>5, <1>6, <1>7

\* A touch and the sleep after it.
LEMMA TouchTypes ==
  ASSUME ProviderTypeOK, NEW s \in Syms, NEW f \in Feeds, NEW n \in Nat, Touch(s, f), Sleep(s, f, n)
  PROVE  /\ age' \in [Syms -> [Feeds -> 0..Never]]
         /\ task' \in [Syms -> [Feeds -> [wait : Nat, tries : 0..Len(Backoff)]]]
<1>1. PICK d \in Latencies(f) : task' = [task EXCEPT ![s][f] = [wait |-> n + d, tries |-> 0]]
  BY DEF Sleep, Resumes
<1>2. 0 \in 0..Never /\ [wait |-> n + d, tries |-> 0] \in [wait : Nat, tries : 0..Len(Backoff)]
  BY Limits, LatencyTypes
<1>. QED
  BY <1>1, <1>2 DEF ProviderTypeOK, Touch

\* The task of a feed that is in trouble.
LEMMA TaskTypes ==
  ASSUME ProviderTypeOK, NEW s \in Syms, NEW f \in Feeds,
         NEW t \in [wait : Nat, tries : 0..Len(Backoff)], task' = [task EXCEPT ![s][f] = t]
  PROVE  task' \in [Syms -> [Feeds -> [wait : Nat, tries : 0..Len(Backoff)]]]
  BY DEF ProviderTypeOK

\* What a feed writes keeps the types of the caches.
LEMMA FeedStepTypes ==
  ASSUME ProviderTypeOK, NEW s \in Syms, FeedStep(s)
  PROVE  ProviderTypeOK'
<1>1. Outage \/ UNCHANGED outages => outages' \in 0..MaxOutages
  BY Limits DEF Outage, ProviderTypeOK
<1>2. CASE BookUpdate(s)
  <2>1. "book" \in Feeds /\ 0 \in Nat
    BY FeedKinds
  <2>2. /\ age' \in [Syms -> [Feeds -> 0..Never]]
        /\ task' \in [Syms -> [Feeds -> [wait : Nat, tries : 0..Len(Backoff)]]]
    BY <1>2, <2>1, TouchTypes DEF BookUpdate
  <2>3. \E b \in Books \cup {Absent} : book' = [book EXCEPT ![s] = b]
    BY <1>2 DEF BookUpdate
  <2>4. book' \in [Syms -> Books \cup {Absent}]
    BY <2>3 DEF ProviderTypeOK
  <2>5. UNCHANGED <<bars, value>> /\ (Outage \/ UNCHANGED outages)
    BY <1>2 DEF BookUpdate
  <2>. QED
    BY <1>1, <2>2, <2>4, <2>5 DEF ProviderTypeOK
<1>3. ASSUME NEW t \in Rings, RingUpdate(s, t)
      PROVE  ProviderTypeOK'
  <2>1. t \in Feeds /\ 0 \in Nat
    BY FeedKinds
  <2>2. /\ age' \in [Syms -> [Feeds -> 0..Never]]
        /\ task' \in [Syms -> [Feeds -> [wait : Nat, tries : 0..Len(Backoff)]]]
    BY <1>3, <2>1, TouchTypes DEF RingUpdate
  <2>3. PICK n \in {bars[s][t], Min({bars[s][t] + 1, Keep[t]})} : bars' = [bars EXCEPT ![s][t] = n]
    BY <1>3 DEF RingUpdate
  <2>4. n \in Nat /\ n <= Keep[t]
    <3>1. bars[s][t] \in Nat /\ bars[s][t] <= Keep[t] /\ Keep[t] \in Nat
      BY Limits DEF ProviderTypeOK
    <3>2. Min({bars[s][t] + 1, Keep[t]}) \in Nat /\ Min({bars[s][t] + 1, Keep[t]}) <= Keep[t]
      <4>1. Min({bars[s][t] + 1, Keep[t]}) = IF bars[s][t] + 1 <= Keep[t] THEN bars[s][t] + 1 ELSE Keep[t]
        BY <3>1, MinOfTwo
      <4>. QED
        BY <3>1, <4>1
    <3>. QED
      BY <2>3, <3>1, <3>2
  <2>5. /\ bars' \in [Syms -> [Rings -> Nat]]
        /\ \A r \in Syms : \A u \in Rings : bars'[r][u] <= Keep[u]
    BY <2>3, <2>4 DEF ProviderTypeOK
  <2>6. UNCHANGED <<book, value, outages>>
    BY <1>3 DEF RingUpdate
  <2>. QED
    BY <2>2, <2>5, <2>6 DEF ProviderTypeOK
<1>4. ASSUME NEW p \in DOMAIN Polls, PollUpdate(s, p)
      PROVE  ProviderTypeOK'
  <2>1. p \in Feeds /\ Interval(p) \in Nat
    BY FeedKinds, Limits DEF Interval
  <2>2. /\ age' \in [Syms -> [Feeds -> 0..Never]]
        /\ task' \in [Syms -> [Feeds -> [wait : Nat, tries : 0..Len(Backoff)]]]
    BY <1>4, <2>1, TouchTypes DEF PollUpdate
  <2>3. value' = value \/ \E v \in PollValues[p] : value' = [value EXCEPT ![s][p] = v]
    BY <1>4 DEF PollUpdate
  <2>4. /\ value' \in [Syms -> [DOMAIN Polls -> (UNION Range(PollValues)) \cup {Absent}]]
        /\ \A r \in Syms : \A q \in DOMAIN Polls :
             value'[r][q] = value[r][q] \/ (q = p /\ value'[r][q] \in PollValues[p])
    <3> DEFINE All == (UNION Range(PollValues)) \cup {Absent}
    <3>1. value \in [Syms -> [DOMAIN Polls -> All]]
      BY DEF ProviderTypeOK
    <3>2. PollValues[p] \subseteq All
      BY FeedAssumption DEF Range
    <3>. HIDE DEF All
    <3>3. CASE value' = value
      BY <3>1, <3>3 DEF All
    <3>4. ASSUME NEW v \in PollValues[p], value' = [value EXCEPT ![s][p] = v]
          PROVE  /\ value' \in [Syms -> [DOMAIN Polls -> All]]
                 /\ \A r \in Syms : \A q \in DOMAIN Polls :
                      value'[r][q] = value[r][q] \/ (q = p /\ value'[r][q] \in PollValues[p])
      <4>1. v \in All
        BY <3>2
      <4>2. value' \in [Syms -> [DOMAIN Polls -> All]]
        BY <3>1, <3>4, <4>1
      <4>3. \A r \in Syms : \A q \in DOMAIN Polls :
              value'[r][q] = IF r = s /\ q = p THEN v ELSE value[r][q]
        BY <3>1, <3>4
      <4>. QED
        BY <4>2, <4>3
    <3>. QED
      BY <2>3, <3>3, <3>4 DEF All
  <2>5. \A r \in Syms : \A q \in DOMAIN Polls : value'[r][q] \in PollValues[q] \cup {Absent}
    <3>1. \A r \in Syms : \A q \in DOMAIN Polls : value[r][q] \in PollValues[q] \cup {Absent}
      BY DEF ProviderTypeOK
    <3>. QED
      BY <2>4, <3>1
  <2>6. UNCHANGED <<bars, book>> /\ (Outage \/ UNCHANGED outages)
    BY <1>4 DEF PollUpdate
  <2>. QED
    BY <1>1, <2>2, <2>4, <2>5, <2>6 DEF ProviderTypeOK
<1>. QED
  BY <1>2, <1>3, <1>4 DEF FeedStep

\* A feed in trouble sleeps, and writes nothing.
LEMMA TroubleTypes ==
  ASSUME ProviderTypeOK, NEW s \in Syms, FeedTrouble(s)
  PROVE  ProviderTypeOK' /\ outages' # 0
<1>1. PICK f \in Feeds : TaskError(s, f) \/ StreamQuiet(s, f)
  BY DEF FeedTrouble
<1>2. outages' \in 0..MaxOutages /\ outages' # 0 /\ UNCHANGED <<age, bars, book, value>>
  BY <1>1, Limits DEF TaskError, StreamQuiet, Outage, ProviderTypeOK
<1>3. PICK t0 \in [wait : Nat, tries : 0..Len(Backoff)] : task[s][f] = t0
  BY DEF ProviderTypeOK
<1>4. \E t \in [wait : Nat, tries : 0..Len(Backoff)] : task' = [task EXCEPT ![s][f] = t]
  <2>1. CASE TaskError(s, f)
    <3> DEFINE n == Min({t0.tries + 1, Len(Backoff)})
    <3>1. n \in 1..Len(Backoff)
      <4>1. t0.tries \in Nat /\ Len(Backoff) \in Nat \ {0}
        BY Limits
      <4>2. n = IF t0.tries + 1 <= Len(Backoff) THEN t0.tries + 1 ELSE Len(Backoff)
        BY <4>1, MinOfTwo
      <4>. HIDE DEF n
      <4>. QED
        BY <4>1, <4>2
    <3>2. PICK d \in Latencies(f) :
            task' = [task EXCEPT ![s][f] = [wait |-> Backoff[n] + d, tries |-> n]]
      BY <1>3, <2>1 DEF TaskError, Resumes
    <3>. HIDE DEF n
    <3>3. [wait |-> Backoff[n] + d, tries |-> n] \in [wait : Nat, tries : 0..Len(Backoff)]
      BY <3>1, Limits, LatencyTypes
    <3>. QED
      BY <3>2, <3>3
  <2>2. CASE StreamQuiet(s, f)
    <3>1. task' = [task EXCEPT ![s][f] = [t0 EXCEPT !.wait = 1]]
      BY <1>3, <2>2 DEF StreamQuiet, ProviderTypeOK
    <3>2. [t0 EXCEPT !.wait = 1] \in [wait : Nat, tries : 0..Len(Backoff)]
      OBVIOUS
    <3>. QED
      BY <3>1, <3>2
  <2>. QED
    BY <1>1, <2>1, <2>2
<1>5. task' \in [Syms -> [Feeds -> [wait : Nat, tries : 0..Len(Backoff)]]]
  BY <1>4, TaskTypes
<1>. QED
  BY <1>2, <1>5 DEF ProviderTypeOK

\* Time goes on for the caches and the tasks.
LEMMA ElapseTypes ==
  ASSUME ProviderTypeOK, ProviderElapse
  PROVE  ProviderTypeOK'
<1>1. \A n \in 0..Never : Capped(n + 1) \in 0..Never
  <2>. SUFFICES ASSUME NEW n \in 0..Never PROVE Capped(n + 1) \in 0..Never
    OBVIOUS
  <2>1. Never \in Nat /\ n \in Nat
    BY Limits
  <2>2. Capped(n + 1) = IF n + 1 <= Never THEN n + 1 ELSE Never
    BY <2>1, MinOfTwo DEF Capped
  <2>. QED
    BY <2>1, <2>2
<1>2. \A n \in Nat : Max({n - 1, 0}) \in Nat
  <2>. SUFFICES ASSUME NEW n \in Nat PROVE Max({n - 1, 0}) \in Nat
    OBVIOUS
  <2>1. Max({n - 1, 0}) = IF n - 1 >= 0 THEN n - 1 ELSE 0
    BY MaxOfTwo
  <2>. QED
    BY <2>1
<1>3. age' \in [Syms -> [Feeds -> 0..Never]]
  BY <1>1 DEF ProviderTypeOK, ProviderElapse
<1>4. task' \in [Syms -> [Feeds -> [wait : Nat, tries : 0..Len(Backoff)]]]
  <2>1. \A t \in [wait : Nat, tries : 0..Len(Backoff)] :
          [t EXCEPT !.wait = Max({@ - 1, 0})] \in [wait : Nat, tries : 0..Len(Backoff)]
    BY <1>2
  <2>. QED
    BY <2>1 DEF ProviderTypeOK, ProviderElapse
<1>. QED
  BY <1>3, <1>4 DEF ProviderTypeOK, ProviderElapse

\* What the counters of the strategy and the bounds allow.
LEMMA CounterTypes ==
  ASSUME Typed, Fault \/ UNCHANGED faults
  PROVE  faults' \in 0..MaxFaults
<1>1. outages \in Nat /\ MaxFaults \in Nat /\ faults \in 0..MaxFaults
  BY Limits DEF Typed, ProviderTypeOK
<1>. QED
  BY <1>1 DEF Fault

\* Every step keeps the types.
LEMMA TypedStep ==
  ASSUME Typed, Trading, [Next]_vars
  PROVE  Typed'
<1>0. /\ cooldown \in [Syms -> 0..Cooldown] /\ due \in 0..CycleEvery /\ skipped \in [Syms -> Nat]
      /\ entries \in 0..MaxEntries /\ faults \in 0..MaxFaults /\ ProviderTypeOK /\ live \in Modes
  BY DEF Typed
<1>1. UNCHANGED provider => ProviderTypeOK'
  BY <1>0 DEF provider, ProviderTypeOK
<1>2. CASE StartCycle
  <2>1. due' \in 0..CycleEvery
    BY <1>2, Limits DEF StartCycle
  <2>. QED
    BY <1>0, <1>1, <1>2, <2>1 DEF StartCycle, Typed
<1>3. CASE ManageNothing \/ ManagePosition
  <2>1. skipped' \in [Syms -> Nat]
    BY <1>0, <1>3 DEF ManageNothing, ManagePosition
  <2>. QED
    BY <1>0, <1>1, <1>3, <2>1 DEF ManageNothing, ManagePosition, Typed
<1>4. CASE AnswerPartial \/ AnswerClose \/ AnswerEntry \/ AnswerStop
  <2>1. Fault \/ UNCHANGED faults
    BY <1>4 DEF AnswerPartial, AnswerClose, AnswerEntry, AnswerStop, Answered
  <2>2. faults' \in 0..MaxFaults
    BY <2>1, CounterTypes
  <2>3. UNCHANGED <<provider, live, cooldown, due, skipped, entries>>
    BY <1>4 DEF AnswerPartial, AnswerClose, AnswerEntry, AnswerStop
  <2>. QED
    BY <1>0, <1>1, <2>2, <2>3 DEF Typed
<1>5. CASE EvaluateNothing \/ EvaluateBlocked
  <2>1. cooldown' \in [Syms -> 0..Cooldown]
    BY <1>0, <1>5, Limits DEF EvaluateNothing, EvaluateBlocked
  <2>2. UNCHANGED <<provider, live, due, skipped, entries, faults>>
    BY <1>5 DEF EvaluateNothing, EvaluateBlocked
  <2>. QED
    BY <1>0, <1>1, <2>1, <2>2 DEF Typed
<1>6. CASE EvaluateEntry
  <2>1. entries' \in 0..MaxEntries
    BY <1>0, <1>6, Limits DEF EvaluateEntry
  <2>2. UNCHANGED <<provider, live, cooldown, due, skipped, faults>>
    BY <1>6 DEF EvaluateEntry
  <2>. QED
    BY <1>0, <1>1, <2>1, <2>2 DEF Typed
<1>7. CASE Tick
  <2>1. ProviderTypeOK'
    BY <1>0, <1>7, ElapseTypes DEF Tick
  <2>2. due' \in 0..CycleEvery
    BY <1>0, <1>7, Limits DEF Tick
  <2>3. cooldown' \in [Syms -> 0..Cooldown]
    <3>1. \A n \in 0..Cooldown : Max({n - 1, 0}) \in 0..Cooldown
      <4>. SUFFICES ASSUME NEW n \in 0..Cooldown PROVE Max({n - 1, 0}) \in 0..Cooldown
        OBVIOUS
      <4>1. Max({n - 1, 0}) = IF n - 1 >= 0 THEN n - 1 ELSE 0
        BY Limits, MaxOfTwo
      <4>. QED
        BY <4>1, Limits
    <3>. QED
      BY <1>0, <1>7, <3>1 DEF Tick
  <2>. QED
    BY <1>0, <1>7, <2>1, <2>2, <2>3 DEF Tick, Typed
<1>8. CASE Restart
  <2>1. ProviderTypeOK'
    BY <1>0, <1>8, ColdTypes DEF Restart, ProviderStart, ProviderTypeOK
  <2>2. faults' \in 0..MaxFaults
    BY <1>8, CounterTypes DEF Restart
  <2>3. cooldown' \in [Syms -> 0..Cooldown] /\ skipped' \in [Syms -> Nat] /\ due' \in 0..CycleEvery
    BY <1>8, Limits DEF Restart
  <2>. QED
    BY <1>0, <1>8, <2>1, <2>2, <2>3 DEF Restart, Typed
<1>9. ASSUME NEW s \in Syms, Feed(s) \/ Trouble(s)
      PROVE  Typed'
  <2>1. ProviderTypeOK'
    BY <1>0, <1>9, FeedStepTypes, TroubleTypes DEF Feed, Trouble
  <2>. QED
    BY <1>0, <1>9, <2>1 DEF Feed, Trouble, strategy, Typed
<1>10. ASSUME NEW s \in Syms, StopFires(s) \/ \E d \in Directions : Fill(s, d)
       PROVE  Typed'
  BY <1>0, <1>1, <1>10 DEF StopFires, Fill, Typed
<1>11. CASE UNCHANGED vars
  BY <1>0, <1>1, <1>11 DEF vars, strategy, Typed
<1>. QED
  BY <1>2, <1>3, <1>4, <1>5, <1>6, <1>7, <1>8, <1>9, <1>10, <1>11 DEF Next, Cycle

\* The strategy and its provider start with values of their types.
LEMMA InitTyped == Init => Typed
<1>. SUFFICES ASSUME Init PROVE Typed
  OBVIOUS
<1>1. ProviderTypeOK
  BY ColdTypes, Limits DEF Init, ProviderInit, ProviderTypeOK
<1>. QED
  BY <1>1, Limits DEF Init, Typed

\* Feeds, tasks and caches, positions, cooldowns, the running cycle and the exchange hold
\* values of their types in every reachable state, and a cycle is parked at an order only in
\* live trading and for a symbol it trades (SymbolCache, OpenPosition).
THEOREM VortexTypes == Spec => []TypeOK
<1>1. Init => Typed
  BY InitTyped
<1>2. Typed /\ Trading /\ [Next]_vars => Typed'
  BY TypedStep
<1>3. Typed /\ Trading => TypeOK
  <2>. SUFFICES ASSUME Typed, Trading PROVE TypeOK
    OBVIOUS
  <2>1. /\ cyc.pc \in Phases /\ cyc.i \in 1..Len(Symbols) /\ cyc.plan \in Positions \cup {Flat}
        /\ \A s \in Syms : ex[s] \in Accounts
        /\ open \in [Syms -> Positions \cup {Flat}]
        /\ (cyc.pc \in {"tp1", "tp2", "close"}) => live /\ cyc.view \in Views /\ Sym \in Tracked
    BY DEF Trading, Types, Cycles, CycleOK
  <2>. QED
    BY <2>1 DEF Typed, TypeOK, Phases, Accounts
<1>. QED
  BY <1>1, <1>2, <1>3, TradingInvariant, PTL DEF Spec

-----------------------------------------------------------------------------
(* Feeds without an outage.  A poll is slow if its value may go stale      *)
(* before the next one is there; what a pass of management finds is then a *)
(* matter of when it was last answered.                                    *)

(* The longest time from one value to the next: the sleep and the request. *)
Period(p) == Polls[p] + MaxLatency
Slow == {p \in DOMAIN Polls : Period(p) > StaleAfter}

(* What PassedOverTwice supposes of the configuration.                     *)
Timely ==
    /\ IsInjective(Symbols)
    /\ Modes = {FALSE} \/ Len(Symbols) = 1
    /\ CycleEvery <= StaleAfter
    /\ \A p \in Slow : Period(p) <= StaleAfter + 2 * CycleEvery
    /\ \A p, q \in Slow : p = q

StreamOnTime(s, f) == task[s][f].wait = 0 /\ age[s][f] \in {0, 1, Never}

(* Either never answered, or to be answered within its period.             *)
PollOnTime(s, p) ==
    /\ task[s][p].wait \in 0..Period(p)
    /\ \/ age[s][p] + task[s][p].wait <= Period(p)
       \/ age[s][p] = Never /\ value[s][p] = Absent

FeedsOnTime(s) ==
    /\ \A f \in Streams : StreamOnTime(s, f)
    /\ \A p \in DOMAIN Polls : PollOnTime(s, p)

(* Only the age of a polled value can keep the reader from a state.        *)
Complete(s) ==
    /\ book[s] # Absent
    /\ \A f \in Streams : age[s][f] <= 1
    /\ \A p \in DOMAIN Polls : value[s][p] # Absent
    /\ \A t \in Rings : bars[s][t] >= Needed(t)

KnownAreComplete ==
    /\ \A s \in Tracked : Complete(s)
    /\ cyc.pc \in {"entry", "stop"} => Complete(Sym)

(* A cycle that awaits nothing is over by the time it started.             *)
AtOnce == cyc.pc = "manage" \/ (cyc.pc = "evaluate" /\ ~live) => due = CycleEvery

(* The running cycle has yet to manage the symbol.                         *)
Pending(s) ==
    \E j \in 1..Len(Symbols) :
        /\ Symbols[j] = s
        /\ \/ cyc.pc = "manage" /\ j >= cyc.i
           \/ cyc.pc = "evaluate" /\ j > cyc.i

(* The time since a symbol was last passed over, and what the answer of    *)
(* its slow poll could take, from there on, to be there.                   *)
Elapsed(s) == IF Pending(s) THEN CycleEvery ELSE CycleEvery - due
Left(s, p) == Period(p) - StaleAfter - 1 - (IF skipped[s] = 1 THEN 0 ELSE CycleEvery)

(* A symbol that was passed over has its slow poll answered since, or will *)
(* have it answered in what is left of its period.                         *)
Apart(s) ==
    \A p \in Slow : \/ age[s][p] <= Elapsed(s)
                    \/ task[s][p].wait <= Left(s, p) - Elapsed(s)
PassedOver(s) ==
    /\ skipped[s] \in {1, 2} /\ s \in Tracked
    /\ cyc.pc \in {"idle", "manage", "evaluate"}
    /\ Apart(s)

SkippedTwice == \A s \in Syms : skipped[s] # 0 => PassedOver(s)

FeedsKept == \A s \in Syms : FeedsOnTime(s)
OnTime == outages = 0 => FeedsKept /\ KnownAreComplete /\ AtOnce /\ SkippedTwice

-----------------------------------------------------------------------------
(* What a symbol's feeds say of the state the reader gets.                 *)

\* An age is told apart up to Never.
LEMMA CappedAt ==
  ASSUME NEW n \in Int
  PROVE  Capped(n) = IF n <= Never THEN n ELSE Never
  BY Limits, MinOfTwo DEF Capped

\* A poll's period is a number.
LEMMA PeriodTypes ==
  ASSUME NEW p \in DOMAIN Polls
  PROVE  /\ Period(p) \in Nat \ {0} /\ Period(p) >= Polls[p] /\ Polls[p] \in Nat \ {0}
         /\ Period(p) = Polls[p] + MaxLatency /\ MaxLatency \in Nat
  BY Limits DEF Period

\* Without a state, a complete symbol has a slow poll, and it has gone stale.
LEMMA SlowIsStale ==
  ASSUME Timely, ProviderTypeOK, NEW s \in Syms, FeedsOnTime(s), Complete(s), ~HasState(s)
  PROVE  Slow # {} /\
         \A p \in Slow : /\ age[s][p] > StaleAfter /\ age[s][p] \in Nat
                         /\ age[s][p] + task[s][p].wait <= Period(p)
                         /\ task[s][p].wait \in Nat
<1>1. StaleAfter \in Nat /\ CycleEvery \in Nat \ {0} /\ CycleEvery <= StaleAfter /\ Never \in Nat
  BY Limits DEF Timely
<1>2. PICK f \in Feeds : ~(age[s][f] <= StaleAfter)
  BY DEF HasState, Complete, Fresh
<1>3. f \in DOMAIN Polls
  <2>1. \A g \in Streams : age[s][g] <= StaleAfter
    <3>. SUFFICES ASSUME NEW g \in Streams PROVE age[s][g] <= StaleAfter
      OBVIOUS
    <3>1. age[s][g] \in {0, 1, Never} /\ age[s][g] <= 1
      BY DEF FeedsOnTime, StreamOnTime, Complete
    <3>. QED
      BY <1>1, <3>1
  <2>. QED
    BY <1>2, <2>1, FeedKinds
<1>4. \A p \in DOMAIN Polls : /\ age[s][p] \in Nat /\ task[s][p].wait \in Nat
                              /\ age[s][p] + task[s][p].wait <= Period(p)
  <2>. SUFFICES ASSUME NEW p \in DOMAIN Polls
                PROVE  /\ age[s][p] \in Nat /\ task[s][p].wait \in Nat
                       /\ age[s][p] + task[s][p].wait <= Period(p)
    OBVIOUS
  <2>1. p \in Feeds
    BY FeedKinds
  <2>2. age[s][p] \in Nat /\ task[s][p].wait \in Nat
    BY <1>1, <2>1 DEF ProviderTypeOK
  <2>. QED
    BY <2>2 DEF FeedsOnTime, PollOnTime, Complete
<1>5. f \in Slow
  BY <1>1, <1>2, <1>3, <1>4, PeriodTypes DEF Slow
<1>. SUFFICES ASSUME NEW p \in Slow
              PROVE  /\ age[s][p] > StaleAfter /\ age[s][p] \in Nat
                     /\ age[s][p] + task[s][p].wait <= Period(p)
                     /\ task[s][p].wait \in Nat
  BY <1>5
<1>6. p = f
  BY <1>5 DEF Timely
<1>. QED
  BY <1>1, <1>2, <1>3, <1>4, <1>6

\* A symbol with a state is complete.
LEMMA StateIsComplete ==
  ASSUME NEW s \in Syms, FeedsOnTime(s), HasState(s)
  PROVE  Complete(s)
<1>1. ASSUME NEW f \in Streams
      PROVE  age[s][f] <= 1
  <2>1. age[s][f] \in {0, 1, Never} /\ age[s][f] <= StaleAfter
    BY FeedKinds DEF FeedsOnTime, StreamOnTime, HasState, Fresh
  <2>. QED
    BY <2>1, Limits
<1>. QED
  BY <1>1 DEF HasState, Complete

-----------------------------------------------------------------------------
(* What a step does to the feeds of a symbol.                              *)

(* What a step leaves as it is of a poll.                                  *)
SamePoll(s, p) == (age[s][p])' = age[s][p] /\ (task[s][p].wait)' = task[s][p].wait

\* A symbol whose caches and tasks stay as they are is as it was.
LEMMA SameFeeds ==
  ASSUME NEW s \in Syms, age'[s] = age[s], task'[s] = task[s], bars'[s] = bars[s],
         book'[s] = book[s], value'[s] = value[s]
  PROVE  /\ FeedsOnTime(s) => FeedsOnTime(s)'
         /\ Complete(s) => Complete(s)'
         /\ \A p \in DOMAIN Polls : SamePoll(s, p)
<1>1. \A p \in DOMAIN Polls : SamePoll(s, p)
  BY DEF SamePoll
<1>2. Complete(s) => Complete(s)'
  BY DEF Complete, Needed
<1>3. FeedsOnTime(s) => FeedsOnTime(s)'
  BY DEF FeedsOnTime, StreamOnTime, PollOnTime, Period, Never
<1>. QED
  BY <1>1, <1>2, <1>3

\* A feed that answers is on time and loses nothing; its own value is new, the others are as
\* they were.
LEMMA FeedOnTime ==
  ASSUME ProviderTypeOK, NEW r \in Syms, FeedStep(r), outages' = outages,
         NEW s \in Syms, FeedsOnTime(s)
  PROVE  /\ FeedsOnTime(s)' /\ (Complete(s) => Complete(s)')
         /\ \A p \in Slow : SamePoll(s, p) \/ (age[s][p])' = 0
<1>0. /\ age \in [Syms -> [Feeds -> 0..Never]]
      /\ task \in [Syms -> [Feeds -> [wait : Nat, tries : 0..Len(Backoff)]]]
      /\ bars \in [Syms -> [Rings -> Nat]]
      /\ book \in [Syms -> Books \cup {Absent}]
      /\ value \in [Syms -> [DOMAIN Polls -> (UNION Range(PollValues)) \cup {Absent}]]
      /\ outages \in Nat
  BY Limits DEF ProviderTypeOK
<1>1. CASE s # r
  <2>1. /\ age'[s] = age[s] /\ task'[s] = task[s] /\ bars'[s] = bars[s]
        /\ book'[s] = book[s] /\ value'[s] = value[s]
    BY <1>0, <1>1 DEF FeedStep, BookUpdate, RingUpdate, PollUpdate, Touch, Sleep, Resumes
  <2>. QED
    BY <2>1, SameFeeds DEF Slow
<1>2. ASSUME s = r, NEW f \in Streams, Touch(s, f), Sleep(s, f, 0), value' = value,
             book'[s] # Absent \/ book'[s] = book[s],
             \A t \in Rings : bars[s][t] >= Needed(t) => bars'[s][t] >= Needed(t)
      PROVE  /\ FeedsOnTime(s)' /\ (Complete(s) => Complete(s)')
             /\ \A p \in Slow : SamePoll(s, p) \/ (age[s][p])' = 0
  <2>1. /\ f \in Feeds /\ f \notin DOMAIN Polls
        /\ \A g \in Streams : g \in Feeds /\ \A p \in DOMAIN Polls : p \in Feeds /\ g # p
    BY FeedKinds
  <2>2. /\ age'[s][f] = 0 /\ task'[s][f].wait = 0
        /\ \A g \in Feeds \ {f} : age'[s][g] = age[s][g] /\ task'[s][g] = task[s][g]
    <3>1. PICK d \in Latencies(f) : task' = [task EXCEPT ![s][f] = [wait |-> 0 + d, tries |-> 0]]
      BY <1>2 DEF Sleep, Resumes
    <3>2. 0 + d = 0
      BY LatencyTypes
    <3>. QED
      BY <1>0, <1>2, <2>1, <3>1, <3>2 DEF Touch
  <2>3. ASSUME NEW g \in Streams
        PROVE  StreamOnTime(s, g)'
    <3>1. CASE g = f
      <4>1. (task[s][g].wait)' = 0 /\ (age[s][g])' = 0
        BY <2>2, <3>1
      <4>. QED
        BY <4>1 DEF StreamOnTime
    <3>2. CASE g # f
      <4>1. (task[s][g].wait)' = task[s][g].wait /\ (age[s][g])' = age[s][g]
        BY <2>1, <2>2, <3>2
      <4>2. StreamOnTime(s, g)
        BY DEF FeedsOnTime
      <4>. QED
        BY <4>1, <4>2 DEF StreamOnTime, Never
    <3>. QED
      BY <3>1, <3>2
  <2>4. \A p \in DOMAIN Polls : SamePoll(s, p)
    BY <2>1, <2>2 DEF SamePoll
  <2>5. ASSUME NEW p \in DOMAIN Polls
        PROVE  PollOnTime(s, p)'
    <3>1. PollOnTime(s, p)
      BY DEF FeedsOnTime
    <3>. QED
      BY <1>2, <2>4, <3>1 DEF PollOnTime, SamePoll, Period, Never
  <2>6. Complete(s) => Complete(s)'
    <3>. SUFFICES ASSUME Complete(s) PROVE Complete(s)'
      OBVIOUS
    <3>1. \A g \in Streams : age'[s][g] <= 1
      BY <2>1, <2>2 DEF Complete
    <3>. QED
      BY <1>2, <3>1 DEF Complete, Needed
  <2>. QED
    BY <2>3, <2>4, <2>5, <2>6 DEF FeedsOnTime, Slow
<1>3. CASE s = r /\ BookUpdate(r)
  <2>1. Touch(s, "book") /\ Sleep(s, "book", 0) /\ UNCHANGED <<bars, value>> /\ "book" \in Streams
    BY <1>3, FeedKinds DEF BookUpdate
  <2>2. \E b \in Books : book' = [book EXCEPT ![s] = b]
    BY <1>0, <1>3 DEF BookUpdate, Outage
  <2>3. book'[s] # Absent
    BY <1>0, <2>2, FeedAssumption
  <2>. QED
    BY <1>2, <1>3, <2>1, <2>3
<1>4. ASSUME NEW t \in Rings, s = r, RingUpdate(r, t)
      PROVE  /\ FeedsOnTime(s)' /\ (Complete(s) => Complete(s)')
             /\ \A p \in Slow : SamePoll(s, p) \/ (age[s][p])' = 0
  <2>1. Touch(s, t) /\ Sleep(s, t, 0) /\ UNCHANGED <<book, value>> /\ t \in Streams
    BY <1>4, FeedKinds DEF RingUpdate
  <2>2. PICK n \in {bars[s][t], Min({bars[s][t] + 1, Keep[t]})} : bars' = [bars EXCEPT ![s][t] = n]
    BY <1>4 DEF RingUpdate
  <2>3. n \in Nat /\ n >= bars[s][t]
    <3>1. bars[s][t] \in Nat /\ bars[s][t] <= Keep[t] /\ Keep[t] \in Nat
      BY Limits DEF ProviderTypeOK
    <3>2. Min({bars[s][t] + 1, Keep[t]}) = IF bars[s][t] + 1 <= Keep[t] THEN bars[s][t] + 1 ELSE Keep[t]
      BY <3>1, MinOfTwo
    <3>. QED
      BY <2>2, <3>1, <3>2
  <2>4. \A u \in Rings : bars'[s][u] >= bars[s][u] /\ bars'[s][u] \in Nat /\ bars[s][u] \in Nat
    BY <1>0, <2>2, <2>3
  <2>5. \A u \in Rings : Needed(u) \in Nat
    BY FeedAssumption DEF Needed
  <2>6. \A u \in Rings : bars[s][u] >= Needed(u) => bars'[s][u] >= Needed(u)
    BY <2>4, <2>5
  <2>. QED
    BY <1>2, <1>4, <2>1, <2>6
<1>5. ASSUME NEW p \in DOMAIN Polls, s = r, PollUpdate(r, p)
      PROVE  /\ FeedsOnTime(s)' /\ (Complete(s) => Complete(s)')
             /\ \A q \in Slow : SamePoll(s, q) \/ (age[s][q])' = 0
  <2>1. /\ p \in Feeds /\ p \notin Streams /\ Streams \subseteq Feeds
        /\ \A q \in DOMAIN Polls : q \in Feeds
    BY FeedKinds
  <2>2. PICK v \in PollValues[p] : value' = [value EXCEPT ![s][p] = v]
    <3>1. ~Outage
      BY <1>0 DEF Outage
    <3>. QED
      BY <1>5, <3>1 DEF PollUpdate
  <2>3. /\ v # Absent /\ value'[s][p] = v
        /\ \A q \in DOMAIN Polls \ {p} : value'[s][q] = value[s][q]
    BY <1>0, <2>2, FeedAssumption
  <2>4. /\ Touch(s, p) /\ Sleep(s, p, Polls[p]) /\ UNCHANGED <<bars, book>>
    BY <1>5 DEF PollUpdate, Interval
  <2>5. PICK d \in 0..MaxLatency :
          task' = [task EXCEPT ![s][p] = [wait |-> Polls[p] + d, tries |-> 0]]
    BY <2>4, LatencyTypes DEF Sleep, Resumes
  <2>6. /\ (age[s][p])' = 0 /\ (task[s][p].wait)' = Polls[p] + d
        /\ \A g \in Feeds \ {p} : age'[s][g] = age[s][g] /\ task'[s][g] = task[s][g]
    BY <1>0, <2>1, <2>4, <2>5 DEF Touch
  <2>7. ASSUME NEW g \in Streams
        PROVE  StreamOnTime(s, g)'
    <3>1. (task[s][g].wait)' = task[s][g].wait /\ (age[s][g])' = age[s][g]
      BY <2>1, <2>6
    <3>2. StreamOnTime(s, g)
      BY DEF FeedsOnTime
    <3>. QED
      BY <3>1, <3>2 DEF StreamOnTime, Never
  <2>8. ASSUME NEW q \in DOMAIN Polls
        PROVE  PollOnTime(s, q)' /\ (SamePoll(s, q) \/ (age[s][q])' = 0)
    <3>1. CASE q = p
      <4>1. Polls[q] + d \in 0..Period(q) /\ 0 + (Polls[q] + d) <= Period(q)
        BY <3>1, PeriodTypes
      <4>2. (task[s][q].wait)' = Polls[q] + d /\ (age[s][q])' = 0
        BY <2>6, <3>1
      <4>3. (age[s][q])' + (task[s][q].wait)' <= Period(q)
        BY <4>1, <4>2
      <4>. QED
        BY <4>1, <4>2, <4>3 DEF PollOnTime, Period
    <3>2. CASE q # p
      <4>1. SamePoll(s, q) /\ (value[s][q])' = value[s][q]
        BY <2>1, <2>3, <2>6, <3>2 DEF SamePoll
      <4>2. PollOnTime(s, q)
        BY DEF FeedsOnTime
      <4>. QED
        BY <4>1, <4>2 DEF PollOnTime, SamePoll, Period, Never
    <3>. QED
      BY <3>1, <3>2
  <2>9. Complete(s) => Complete(s)'
    <3>. SUFFICES ASSUME Complete(s) PROVE Complete(s)'
      OBVIOUS
    <3>1. \A g \in Streams : age'[s][g] <= 1
      BY <2>1, <2>6 DEF Complete
    <3>2. \A q \in DOMAIN Polls : value'[s][q] # Absent
      BY <2>3 DEF Complete
    <3>3. bars' = bars /\ book' = book
      BY <2>4
    <3>. QED
      BY <3>1, <3>2, <3>3 DEF Complete, Needed
  <2>. QED
    BY <2>7, <2>8, <2>9 DEF FeedsOnTime, Slow
<1>. QED
  BY <1>1, <1>3, <1>4, <1>5 DEF FeedStep

\* Time goes on for a symbol whose feeds are all served.
LEMMA ElapseOnTime ==
  ASSUME ProviderTypeOK, ProviderElapse, NEW s \in Syms, FeedsOnTime(s)
  PROVE  /\ FeedsOnTime(s)' /\ (Complete(s) => Complete(s)')
         /\ \A p \in Slow : /\ (age[s][p])' <= age[s][p] + 1
                            /\ \/ (task[s][p].wait)' = task[s][p].wait - 1
                               \/ (age[s][p])' = 1
<1>0. /\ \A f \in Feeds : age[s][f] \in 0..Never /\ task[s][f].wait \in Nat
                          /\ task[s][f] \in [wait : Nat, tries : 0..Len(Backoff)]
      /\ Never \in Nat \ {0} /\ UNCHANGED <<bars, book, value>>
  BY Limits DEF ProviderTypeOK, ProviderElapse
<1>1. \A f \in Feeds : age'[s][f] = Capped(age[s][f] + 1)
  BY DEF ProviderElapse
<1>2. \A f \in Feeds : task'[s][f].wait = Max({task[s][f].wait - 1, 0})
  BY <1>0 DEF ProviderElapse
<1>3. \A f \in Feeds : task[s][f].wait # 0 \/ age[s][f] = 0
  BY <1>0 DEF ProviderElapse, Served, Waiting
<1>4. ASSUME NEW f \in Feeds
      PROVE  /\ (age[s][f])' = IF age[s][f] + 1 <= Never THEN age[s][f] + 1 ELSE Never
             /\ (task[s][f].wait)' = IF task[s][f].wait = 0 THEN 0 ELSE task[s][f].wait - 1
             /\ age[s][f] \in 0..Never /\ task[s][f].wait \in Nat
  <2>1. age[s][f] + 1 \in Int /\ task[s][f].wait - 1 \in Int /\ task[s][f].wait \in Nat
    BY <1>0
  <2>2. Max({task[s][f].wait - 1, 0}) =
          IF task[s][f].wait - 1 >= 0 THEN task[s][f].wait - 1 ELSE 0
    BY <2>1, MaxOfTwo
  <2>3. (task[s][f].wait)' = IF task[s][f].wait = 0 THEN 0 ELSE task[s][f].wait - 1
    BY <1>2, <2>1, <2>2
  <2>. QED
    BY <1>0, <1>1, <2>1, <2>3, CappedAt
<1>5. ASSUME NEW f \in Streams
      PROVE  (age[s][f])' = 1 /\ (task[s][f].wait)' = 0
  <2>1. f \in Feeds /\ task[s][f].wait = 0
    BY FeedKinds DEF FeedsOnTime, StreamOnTime
  <2>2. age[s][f] = 0
    BY <1>3, <2>1
  <2>. QED
    BY <1>0, <1>4, <2>1, <2>2
<1>6. ASSUME NEW p \in DOMAIN Polls
      PROVE  /\ PollOnTime(s, p)' /\ (age[s][p])' <= age[s][p] + 1
             /\ (task[s][p].wait)' = task[s][p].wait - 1 \/ (age[s][p])' = 1
  <2>1. p \in Feeds /\ PollOnTime(s, p) /\ Period(p) \in Nat \ {0}
    BY FeedKinds, PeriodTypes DEF FeedsOnTime
  <2> DEFINE a == age[s][p]
             w == task[s][p].wait
             c == (age[s][p])'
             x == (task[s][p].wait)'
  <2>2. /\ a \in 0..Never /\ w \in 0..Period(p)
        /\ c = (IF a + 1 <= Never THEN a + 1 ELSE Never)
        /\ x = (IF w = 0 THEN 0 ELSE w - 1)
        /\ w # 0 \/ a = 0
    BY <1>3, <1>4, <2>1 DEF PollOnTime
  <2>3. /\ a + w <= Period(p) \/ (a = Never /\ value[s][p] = Absent)
        /\ (value[s][p])' = value[s][p]
    BY <1>0, <2>1 DEF PollOnTime
  <2>. HIDE DEF a, w, c, x
  <2>4. c <= a + 1 /\ (x = w - 1 \/ c = 1) /\ x \in 0..Period(p)
    <3>1. Never \in Nat /\ Never >= 1 /\ a \in Nat /\ w \in Nat /\ Period(p) \in Nat
      BY <1>0, <2>1, <2>2
    <3>2. CASE w = 0
      BY <2>2, <3>1, <3>2
    <3>3. CASE w # 0
      BY <2>2, <3>1, <3>3
    <3>. QED
      BY <3>2, <3>3
  <2>5. c + x <= Period(p) \/ (c = Never /\ value[s][p] = Absent)
    <3>1. CASE w = 0
      BY <1>0, <2>1, <2>2, <3>1
    <3>2. CASE w # 0 /\ a + w <= Period(p)
      BY <1>0, <2>1, <2>2, <3>2
    <3>3. CASE a = Never /\ value[s][p] = Absent
      BY <1>0, <2>2, <3>3
    <3>. QED
      BY <2>3, <3>1, <3>2, <3>3
  <2>6. PollOnTime(s, p)'
    BY <2>3, <2>4, <2>5 DEF PollOnTime, Period, Never, c, x
  <2>. QED
    BY <2>4, <2>6 DEF a, w, c, x
<1>7. \A f \in Streams : StreamOnTime(s, f)'
  <2>. SUFFICES ASSUME NEW f \in Streams PROVE StreamOnTime(s, f)'
    OBVIOUS
  <2>. QED
    BY <1>5 DEF StreamOnTime
<1>8. Complete(s) => Complete(s)'
  <2>1. \A f \in Streams : (age[s][f])' <= 1
    BY <1>5
  <2>. QED
    BY <1>0, <2>1 DEF Complete, Needed
<1>. QED
  BY <1>6, <1>7, <1>8 DEF FeedsOnTime, Slow

-----------------------------------------------------------------------------
(* What a step does to the symbols that were passed over.                  *)

Punctual == FeedsKept /\ KnownAreComplete /\ AtOnce /\ SkippedTwice
Calm == {"idle", "manage", "evaluate"}

\* Every symbol has a place in the list.
LEMMA SymbolsAt ==
  /\ DOMAIN Symbols = 1..Len(Symbols) /\ Len(Symbols) \in Nat
  /\ \A s \in Syms : \E j \in 1..Len(Symbols) : Symbols[j] = s
<1>1. DOMAIN Symbols = 1..Len(Symbols) /\ Len(Symbols) \in Nat
  BY FeedAssumption
<1>. QED
  BY <1>1 DEF Syms, Range

\* Live trading is for one symbol, so that no other waits for its orders.
LEMMA LiveIsAlone ==
  ASSUME Timely, Typed, Types, live
  PROVE  /\ Len(Symbols) = 1 /\ cyc.i = 1 /\ \A s \in Syms : s = Sym
         /\ NextSymbol => cyc'.pc = "idle"
<1>1. Len(Symbols) = 1
  <2>1. live \in Modes /\ live = TRUE
    BY DEF Typed, Types
  <2>. QED
    BY <2>1 DEF Timely
<1>2. cyc.i = 1
  BY <1>1 DEF Types, Cycles
<1>3. \A s \in Syms : s = Symbols[1]
  BY <1>1, SymbolsAt
<1>4. NextSymbol => cyc'.pc = "idle"
  BY <1>1, <1>2 DEF NextSymbol, Idle
<1>. QED
  BY <1>1, <1>2, <1>3, <1>4 DEF Sym

\* Feeds are as they were while the provider does nothing.
LEMMA SameProvider ==
  ASSUME UNCHANGED provider
  PROVE  /\ FeedsKept => FeedsKept'
         /\ \A s \in Syms : Complete(s) => Complete(s)'
         /\ \A s \in Syms : \A p \in DOMAIN Polls : SamePoll(s, p)
<1>1. ASSUME NEW s \in Syms
      PROVE  /\ FeedsOnTime(s) => FeedsOnTime(s)'
             /\ Complete(s) => Complete(s)'
             /\ \A p \in DOMAIN Polls : SamePoll(s, p)
  BY SameFeeds DEF provider, SamePoll
<1>. QED
  BY <1>1 DEF FeedsKept

\* What is known and complete stays so, if only complete symbols become known.
LEMMA KnownStay ==
  ASSUME KnownAreComplete, \A s \in Syms : Complete(s) => Complete(s)',
         \A s \in Syms : open'[s] # Flat => s \in Tracked \/ Complete(s),
         (cyc'.pc \in {"entry", "stop"}) => cyc'.i = cyc.i /\ Sym \in Syms /\ Complete(Sym)
  PROVE  KnownAreComplete'
<1>1. \A s \in Tracked' : Complete(s)'
  BY DEF KnownAreComplete, Tracked
<1>2. ASSUME cyc'.pc \in {"entry", "stop"}
      PROVE  Complete(Sym)'
  <2>1. PICK k \in Syms : k = Sym
    BY <1>2
  <2>2. Complete(k)' /\ Sym' = k
    BY <1>2, <2>1 DEF Sym
  <2>. QED
    BY <2>2 DEF Complete, Needed
<1>. QED
  BY <1>1, <1>2 DEF KnownAreComplete

\* A symbol that was passed over stays so while nothing of it changes.
LEMMA PassedStays ==
  ASSUME NEW s \in Syms, PassedOver(s), skipped'[s] = skipped[s], open'[s] # Flat,
         cyc'.pc \in Calm, Pending(s)' <=> Pending(s), due' = due,
         \A p \in Slow : SamePoll(s, p)
  PROVE  PassedOver(s)'
<1>1. s \in Tracked'
  BY DEF Tracked
<1>2. Elapsed(s)' = Elapsed(s) /\ \A p \in Slow : Left(s, p)' = Left(s, p)
  BY DEF Elapsed, Left, Period
<1>3. Apart(s)'
  <2>1. Apart(s)
    BY DEF PassedOver
  <2>. QED
    BY <1>2, <2>1 DEF Apart, Slow, SamePoll, Period
<1>. QED
  BY <1>1, <1>3 DEF PassedOver, Calm

\* A cycle that has managed a symbol has yet to manage the others it had.
LEMMA ManagedOne ==
  ASSUME Timely, Types, cyc.pc = "manage", cyc'.pc = "evaluate", cyc'.i = cyc.i
  PROVE  /\ Pending(Sym) /\ \A s \in Syms : s = Sym => ~Pending(s)'
         /\ \A s \in Syms : s # Sym => (Pending(s)' <=> Pending(s))
<1>1. cyc.i \in 1..Len(Symbols) /\ Len(Symbols) \in Nat /\ DOMAIN Symbols = 1..Len(Symbols)
  BY FeedAssumption DEF Types, Cycles
<1>2. \A j \in 1..Len(Symbols) : Symbols[j] = Sym => j = cyc.i
  BY <1>1 DEF Timely, IsInjective, Sym
<1>3. Pending(Sym)
  BY <1>1 DEF Pending, Sym
<1>4. \A s \in Syms : s = Sym => ~Pending(s)'
  BY <1>1, <1>2 DEF Pending
<1>5. \A s \in Syms : s # Sym => (Pending(s)' <=> Pending(s))
  BY <1>1 DEF Pending, Sym
<1>. QED
  BY <1>3, <1>4, <1>5

\* Going on to the next symbol, a cycle has yet to manage what it had.
LEMMA NextIsPending ==
  ASSUME Types, cyc.pc = "evaluate", NextSymbol
  PROVE  /\ \A s \in Syms : Pending(s)' <=> Pending(s)
         /\ cyc'.pc = IF cyc.i < Len(Symbols) THEN "manage" ELSE "idle"
<1>1. cyc.i \in 1..Len(Symbols) /\ Len(Symbols) \in Nat
  BY FeedAssumption DEF Types, Cycles
<1>2. CASE cyc.i < Len(Symbols)
  <2>1. cyc'.pc = "manage" /\ cyc'.i = cyc.i + 1
    BY <1>2 DEF NextSymbol, Idle
  <2>. QED
    BY <1>1, <1>2, <2>1 DEF Pending
<1>3. CASE ~(cyc.i < Len(Symbols))
  <2>1. cyc'.pc = "idle"
    BY <1>3 DEF NextSymbol, Idle
  <2>. QED
    BY <1>1, <1>3, <2>1 DEF Pending
<1>. QED
  BY <1>2, <1>3

\* While an order is awaited no position has been passed over.
LEMMA NoneAtOrders ==
  ASSUME SkippedTwice, cyc.pc \notin Calm
  PROVE  \A s \in Syms : skipped[s] = 0
  BY DEF SkippedTwice, PassedOver, Calm

-----------------------------------------------------------------------------
(* The steps, one by one.                                                  *)

\* The time since a symbol was passed over is a number.
LEMMA ElapsedTypes ==
  ASSUME Typed, NEW s \in Syms
  PROVE  /\ Elapsed(s) \in Nat /\ CycleEvery \in Nat \ {0} /\ due \in 0..CycleEvery
         /\ \A p \in Slow : Left(s, p) \in Int
  BY Limits, PeriodTypes DEF Typed, Elapsed, Left, Slow

\* A feed that answers delays no pass of management.
LEMMA FeedIsPunctual ==
  ASSUME Timely, Typed, Trading, Punctual, NEW r \in Syms, Feed(r), outages' = outages
  PROVE  Punctual'
<1>1. ProviderTypeOK /\ FeedStep(r) /\ UNCHANGED strategy /\ cyc.pc \notin {"manage", "evaluate"}
  BY DEF Typed, Feed, Parked
<1>2. ASSUME NEW s \in Syms
      PROVE  /\ FeedsOnTime(s)' /\ (Complete(s) => Complete(s)')
             /\ \A p \in Slow : SamePoll(s, p) \/ (age[s][p])' = 0
  BY <1>1, FeedOnTime DEF Punctual, FeedsKept
<1>3. UNCHANGED <<live, open, cyc, due, skipped>>
  BY <1>1 DEF strategy
<1>4. KnownAreComplete'
  BY <1>2, <1>3, KnownStay, SymIsTraded DEF Punctual, Tracked, KnownAreComplete, Trading
<1>5. ASSUME NEW s \in Syms, skipped'[s] # 0
      PROVE  PassedOver(s)'
  <2>1. PassedOver(s)
    BY <1>3, <1>5 DEF Punctual, SkippedTwice
  <2>2. /\ Elapsed(s)' = Elapsed(s) /\ \A p \in Slow : Left(s, p)' = Left(s, p)
        /\ Elapsed(s) \in Nat
    BY <1>3, ElapsedTypes DEF Elapsed, Left, Period, Pending
  <2>3. Apart(s)'
    <3>. SUFFICES ASSUME NEW p \in Slow
                  PROVE  \/ (age[s][p])' <= Elapsed(s)
                         \/ (task[s][p].wait)' <= Left(s, p) - Elapsed(s)
      BY <2>2 DEF Apart, Slow, Period
    <3>. QED
      BY <1>2, <2>1, <2>2 DEF PassedOver, Apart, SamePoll
  <2>4. s \in Tracked' /\ cyc'.pc \in Calm /\ skipped'[s] \in {1, 2}
    BY <1>3, <2>1 DEF PassedOver, Tracked, Calm
  <2>. QED
    BY <2>3, <2>4 DEF PassedOver, Calm
<1>. QED
  BY <1>2, <1>3, <1>4, <1>5 DEF Punctual, FeedsKept, AtOnce, SkippedTwice

\* Time brings the answer of the slow poll nearer, by as much as it takes off what is left.
LEMMA TickIsPunctual ==
  ASSUME Timely, Typed, Trading, Punctual, Tick
  PROVE  Punctual'
<1>1. /\ ProviderTypeOK /\ ProviderElapse /\ UNCHANGED <<live, cyc, skipped>>
      /\ cyc.pc \notin {"manage", "evaluate"}
  BY DEF Typed, Tick, Parked
<1>2. ASSUME NEW s \in Syms
      PROVE  /\ FeedsOnTime(s)' /\ (Complete(s) => Complete(s)')
             /\ \A p \in Slow : /\ (age[s][p])' <= age[s][p] + 1
                                /\ \/ (task[s][p].wait)' = task[s][p].wait - 1
                                   \/ (age[s][p])' = 1
  BY <1>1, ElapseOnTime DEF Punctual, FeedsKept
<1>3. \A s \in Syms : (open'[s] # Flat) <=> s \in Tracked
  <2>1. \A s \in Syms : s \notin Tracked => open'[s] = Flat
    BY DEF Tick
  <2>2. ASSUME NEW s \in Tracked
        PROVE  open'[s] # Flat
    <3>1. open[s] \in Positions /\ s \in Syms
      BY TrackedPosition DEF Trading
    <3>2. Least(open[s].age + 1, MaxAge + 1) \in 0..(MaxAge + 1)
      BY <3>1, VortexAssumption DEF Positions, Least
    <3>3. open'[s] \in Positions
      BY <3>1, <3>2 DEF Tick, Positions
    <3>. QED
      BY <3>3, FlatAssumption
  <2>. QED
    BY <2>1, <2>2
<1>4. KnownAreComplete'
  BY <1>1, <1>2, <1>3, KnownStay, SymIsTraded DEF Punctual, KnownAreComplete, Trading
<1>5. ASSUME NEW s \in Syms, skipped'[s] # 0
      PROVE  PassedOver(s)'
  <2>1. PassedOver(s) /\ ~Pending(s) /\ ~Pending(s)' /\ cyc.pc = "idle"
    BY <1>1, <1>5 DEF Punctual, SkippedTwice, Pending, PassedOver
  <2>2. due \in 1..CycleEvery /\ due' = due - 1 /\ CycleEvery \in Nat /\ StaleAfter \in Nat
    BY <2>1, Limits DEF Typed, Tick
  <2>3. Elapsed(s)' = Elapsed(s) + 1 /\ Elapsed(s) \in Nat
    BY <2>1, <2>2 DEF Elapsed
  <2>4. \A p \in Slow : Left(s, p)' = Left(s, p) /\ Left(s, p) \in Int
    BY <1>1, ElapsedTypes DEF Left, Period
  <2>5. Apart(s)'
    <3>. SUFFICES ASSUME NEW p \in Slow
                  PROVE  \/ (age[s][p])' <= Elapsed(s) + 1
                         \/ (task[s][p].wait)' <= Left(s, p) - (Elapsed(s) + 1)
      BY <2>3, <2>4 DEF Apart, Slow, Period
    <3>1. p \in Feeds /\ age[s][p] \in Nat /\ task[s][p].wait \in Nat
      BY <1>1, Limits, FeedKinds DEF ProviderTypeOK, Slow
    <3>2. (age[s][p])' \in Int
      <4>1. ProviderTypeOK'
        BY <1>1, ElapseTypes
      <4>. QED
        BY <3>1, <4>1, Limits DEF ProviderTypeOK, Never
    <3>3. age[s][p] <= Elapsed(s) \/ task[s][p].wait <= Left(s, p) - Elapsed(s)
      BY <2>1 DEF PassedOver, Apart
    <3>4. /\ (age[s][p])' <= age[s][p] + 1
          /\ (task[s][p].wait)' = task[s][p].wait - 1 \/ (age[s][p])' = 1
      BY <1>2
    <3>. QED
      BY <2>3, <2>4, <3>1, <3>2, <3>3, <3>4
  <2>6. s \in Tracked' /\ cyc'.pc \in Calm /\ skipped'[s] \in {1, 2}
    BY <1>1, <1>3, <2>1 DEF PassedOver, Tracked, Calm
  <2>. QED
    BY <2>5, <2>6 DEF PassedOver, Calm
<1>6. AtOnce'
  BY <1>1 DEF AtOnce
<1>. QED
  BY <1>1, <1>2, <1>4, <1>5, <1>6 DEF Punctual, FeedsKept, SkippedTwice

\* A cycle starts a whole period of cycles after the one before.
LEMMA StartIsPunctual ==
  ASSUME Timely, Typed, Trading, Punctual, StartCycle
  PROVE  Punctual'
<1>1. /\ UNCHANGED provider /\ UNCHANGED <<live, open, skipped>>
      /\ cyc.pc = "idle" /\ due = 0 /\ due' = CycleEvery /\ cyc'.pc = "manage" /\ cyc'.i = 1
  BY DEF StartCycle, Idle
<1>2. /\ FeedsKept' /\ \A s \in Syms : Complete(s) => Complete(s)'
      /\ \A s \in Syms : \A p \in DOMAIN Polls : SamePoll(s, p)
  BY <1>1, SameProvider DEF Punctual
<1>3. KnownAreComplete'
  BY <1>1, <1>2, KnownStay DEF Punctual, Tracked
<1>4. AtOnce'
  BY <1>1 DEF AtOnce
<1>5. ASSUME NEW s \in Syms, skipped'[s] # 0
      PROVE  PassedOver(s)'
  <2>1. PassedOver(s) /\ ~Pending(s)
    BY <1>1, <1>5 DEF Punctual, SkippedTwice, Pending
  <2>2. Pending(s)'
    <3>1. PICK j \in 1..Len(Symbols) : Symbols[j] = s
      BY SymbolsAt
    <3>. QED
      BY <1>1, <3>1 DEF Pending
  <2>3. Elapsed(s)' = Elapsed(s) /\ \A p \in Slow : Left(s, p)' = Left(s, p)
    BY <1>1, <2>1, <2>2, Limits DEF Elapsed, Left, Period
  <2>4. Apart(s)'
    <3>. SUFFICES ASSUME NEW p \in Slow
                  PROVE  \/ (age[s][p])' <= Elapsed(s)
                         \/ (task[s][p].wait)' <= Left(s, p) - Elapsed(s)
      BY <2>3 DEF Apart, Slow, Period
    <3>. QED
      BY <1>2, <2>1 DEF PassedOver, Apart, SamePoll, Slow
  <2>5. s \in Tracked' /\ cyc'.pc \in Calm /\ skipped'[s] \in {1, 2}
    BY <1>1, <2>1 DEF PassedOver, Tracked, Calm
  <2>. QED
    BY <2>4, <2>5 DEF PassedOver, Calm
<1>. QED
  BY <1>2, <1>3, <1>4, <1>5 DEF Punctual, SkippedTwice

\* A symbol passed over was passed over at most once before.
LEMMA ManageNothingIsPunctual ==
  ASSUME Timely, Typed, Trading, Punctual, ManageNothing
  PROVE  Punctual'
<1>1. /\ UNCHANGED provider /\ UNCHANGED <<live, open, due>> /\ Types
      /\ cyc.pc = "manage" /\ cyc'.pc = "evaluate" /\ cyc'.i = cyc.i
      /\ due = CycleEvery
  <2>1. /\ UNCHANGED provider /\ UNCHANGED <<live, open, due>> /\ Types
        /\ cyc.pc = "manage" /\ Go("evaluate", Absent)
    BY DEF ManageNothing, Trading
  <2>2. "evaluate" \in Phases /\ Absent \in Views \cup {Absent}
    BY DEF Phases
  <2>. QED
    BY <2>1, <2>2, GoCycle DEF Punctual, AtOnce
<1>2. /\ FeedsKept' /\ \A s \in Syms : Complete(s) => Complete(s)'
      /\ \A s \in Syms : \A p \in DOMAIN Polls : SamePoll(s, p)
  BY <1>1, SameProvider DEF Punctual
<1>3. KnownAreComplete'
  BY <1>1, <1>2, KnownStay DEF Punctual, Tracked
<1>4. AtOnce'
  BY <1>1 DEF AtOnce
<1>5. PICK k \in Syms : k = Sym
  BY <1>1, SymIsTraded
<1>6. /\ k \notin Tracked \/ ~HasState(k)
      /\ skipped'[k] = IF k \in Tracked THEN skipped[k] + 1 ELSE 0
      /\ \A s \in Syms \ {k} : skipped'[s] = skipped[s]
  BY <1>5 DEF ManageNothing, Typed
<1>7. /\ Pending(k) /\ ~Pending(k)'
      /\ \A s \in Syms \ {k} : Pending(s)' <=> Pending(s)
  BY <1>1, <1>5, ManagedOne
<1>8. ASSUME NEW s \in Syms \ {k}, skipped'[s] # 0
      PROVE  PassedOver(s)'
  <2>1. PassedOver(s)
    BY <1>6, <1>8 DEF Punctual, SkippedTwice
  <2>2. skipped'[s] = skipped[s] /\ open'[s] # Flat
    BY <1>1, <1>6, <2>1 DEF PassedOver, Tracked
  <2>. QED
    BY <1>1, <1>2, <1>7, <2>1, <2>2, PassedStays DEF Calm, Slow
<1>9. ASSUME skipped'[k] # 0
      PROVE  PassedOver(k)'
  <2>1. k \in Tracked /\ ~HasState(k) /\ Complete(k) /\ FeedsOnTime(k) /\ ProviderTypeOK
    BY <1>6, <1>9 DEF Punctual, FeedsKept, KnownAreComplete, Typed
  <2>2. /\ StaleAfter \in Nat /\ CycleEvery \in Nat \ {0} /\ CycleEvery <= StaleAfter
        /\ \A p \in Slow : Period(p) \in Nat /\ Period(p) <= StaleAfter + 2 * CycleEvery
    BY Limits, PeriodTypes DEF Timely, Slow
  <2>3. \A p \in Slow : /\ age[k][p] > StaleAfter /\ age[k][p] \in Nat
                        /\ age[k][p] + task[k][p].wait <= Period(p)
                        /\ task[k][p].wait \in Nat
    BY <2>1, SlowIsStale
  <2>4. ASSUME skipped[k] # 0, NEW p \in Slow
        PROVE  /\ skipped[k] \in {1, 2}
               /\ task[k][p].wait <= Left(k, p) - CycleEvery
    <3>1. PassedOver(k) /\ Elapsed(k) = CycleEvery
      BY <1>7, <2>4 DEF Punctual, SkippedTwice, Elapsed
    <3>2. age[k][p] <= CycleEvery \/ task[k][p].wait <= Left(k, p) - CycleEvery
      BY <3>1 DEF PassedOver, Apart
    <3>. QED
      BY <2>2, <2>3, <3>1, <3>2 DEF PassedOver
  <2>5. \E p \in Slow : TRUE
    BY <2>1, SlowIsStale
  <2>6. skipped[k] \in {0, 1}
    <3>. SUFFICES ASSUME skipped[k] # 0 PROVE skipped[k] # 2 /\ skipped[k] \in {1, 2}
      OBVIOUS
    <3>1. PICK p \in Slow : TRUE
      BY <2>5
    <3>2. skipped[k] \in {1, 2} /\ task[k][p].wait <= Left(k, p) - CycleEvery
      BY <2>4
    <3>3. CASE skipped[k] = 2
      <4>1. Left(k, p) = Period(p) - StaleAfter - 1 - CycleEvery
        BY <3>3 DEF Left
      <4>. QED
        BY <2>2, <2>3, <3>2, <4>1
    <3>. QED
      BY <3>2, <3>3
  <2>7. skipped'[k] \in {1, 2} /\ (skipped'[k] = 1 <=> skipped[k] = 0)
    BY <1>6, <2>1, <2>6
  <2>8. Apart(k)'
    <3>. SUFFICES ASSUME NEW p \in Slow
                  PROVE  (task[k][p].wait)' <= Left(k, p)' - Elapsed(k)'
      BY DEF Apart, Slow, Period
    <3>1. Elapsed(k)' = 0
      BY <1>1, <1>7, <2>2 DEF Elapsed
    <3>2. (task[k][p].wait)' = task[k][p].wait
      BY <1>2 DEF Slow, SamePoll
    <3>3. Left(k, p)' = Period(p) - StaleAfter - 1 - (IF skipped'[k] = 1 THEN 0 ELSE CycleEvery)
      BY DEF Left, Period
    <3>4. CASE skipped[k] = 0
      <4>1. Left(k, p)' = Period(p) - StaleAfter - 1
        BY <2>2, <2>7, <3>3, <3>4
      <4>. QED
        BY <2>2, <2>3, <3>1, <3>2, <4>1
    <3>5. CASE skipped[k] = 1
      <4>1. Left(k, p)' = Period(p) - StaleAfter - 1 - CycleEvery
        BY <2>7, <3>3, <3>5
      <4>2. Left(k, p) = Period(p) - StaleAfter - 1
        BY <2>2, <3>5 DEF Left
      <4>3. task[k][p].wait <= Left(k, p) - CycleEvery
        BY <2>4, <3>5
      <4>. QED
        BY <2>2, <2>3, <3>1, <3>2, <4>1, <4>2, <4>3
    <3>. QED
      BY <2>6, <3>4, <3>5
  <2>9. k \in Tracked'
    BY <1>1, <2>1 DEF Tracked
  <2>. QED
    BY <1>1, <2>7, <2>8, <2>9 DEF PassedOver
<1>. QED
  BY <1>2, <1>3, <1>4, <1>8, <1>9 DEF Punctual, SkippedTwice

\* A symbol that is managed has not been passed over.
LEMMA ManagePositionIsPunctual ==
  ASSUME Timely, Typed, Trading, Punctual, ManagePosition
  PROVE  Punctual'
<1>1. /\ UNCHANGED provider /\ UNCHANGED <<live, due>> /\ Types
      /\ cyc.pc = "manage" /\ due = CycleEvery
      /\ cyc'.i = cyc.i /\ cyc'.pc \in {"tp1", "tp2", "close", "evaluate"}
      /\ ~live => cyc'.pc = "evaluate"
  <2>1. /\ UNCHANGED provider /\ UNCHANGED <<live, due>> /\ Types /\ cyc.pc = "manage"
    BY DEF ManagePosition, Trading
  <2>2. cyc'.i = cyc.i /\ cyc'.pc \in {"tp1", "tp2", "close", "evaluate"}
    BY <2>1 DEF ManagePosition, Go, Types, Cycles, FromStart, AfterTp1, AfterTp2, OnPaper
  <2>3. ~live => cyc'.pc = "evaluate"
    BY <2>1 DEF ManagePosition, Go, Types, Cycles, OnPaper, AfterTp2
  <2>. QED
    BY <2>1, <2>2, <2>3 DEF Punctual, AtOnce
<1>2. /\ FeedsKept' /\ \A s \in Syms : Complete(s) => Complete(s)'
      /\ \A s \in Syms : \A p \in DOMAIN Polls : SamePoll(s, p)
  BY <1>1, SameProvider DEF Punctual
<1>3. PICK k \in Syms : k = Sym
  BY <1>1, SymIsTraded
<1>4. k \in Tracked /\ \A s \in Syms \ {k} : open'[s] = open[s]
  BY <1>1, <1>3 DEF ManagePosition, Types
<1>5. skipped'[k] = 0 /\ \A s \in Syms \ {k} : skipped'[s] = skipped[s]
  BY <1>3 DEF ManagePosition, Typed
<1>6. KnownAreComplete'
  BY <1>1, <1>2, <1>4, KnownStay DEF Punctual, Tracked
<1>7. AtOnce'
  BY <1>1 DEF AtOnce
<1>8. ASSUME NEW s \in Syms, skipped'[s] # 0
      PROVE  PassedOver(s)'
  <2>1. s # k /\ PassedOver(s)
    BY <1>5, <1>8 DEF Punctual, SkippedTwice
  <2>2. ~live
    BY <1>1, <1>3, <2>1, LiveIsAlone
  <2>3. Pending(s)' <=> Pending(s)
    BY <1>1, <1>3, <2>1, <2>2, ManagedOne
  <2>4. skipped'[s] = skipped[s] /\ open'[s] # Flat
    BY <1>4, <1>5, <2>1 DEF PassedOver, Tracked
  <2>. QED
    BY <1>1, <1>2, <2>1, <2>2, <2>3, <2>4, PassedStays DEF Calm, Slow
<1>. QED
  BY <1>2, <1>6, <1>7, <1>8 DEF Punctual, SkippedTwice

\* An evaluation that ends goes on to the next symbol in the same instant.
LEMMA NextIsPunctual ==
  ASSUME Timely, Typed, Trading, Punctual, UNCHANGED provider, UNCHANGED <<live, due, skipped>>,
         cyc.pc = "evaluate", NextSymbol,
         \A s \in Syms : open[s] # Flat => open'[s] # Flat,
         \A s \in Syms : open'[s] # Flat => s \in Tracked \/ Complete(s)
  PROVE  Punctual'
<1>1. /\ FeedsKept' /\ \A s \in Syms : Complete(s) => Complete(s)'
      /\ \A s \in Syms : \A p \in DOMAIN Polls : SamePoll(s, p)
  BY SameProvider DEF Punctual
<1>2. /\ \A s \in Syms : Pending(s)' <=> Pending(s)
      /\ cyc'.pc = IF cyc.i < Len(Symbols) THEN "manage" ELSE "idle"
  BY NextIsPending DEF Trading
<1>3. KnownAreComplete'
  BY <1>1, <1>2, KnownStay DEF Punctual
<1>4. AtOnce'
  <2>1. CASE live
    <3>1. cyc'.pc = "idle"
      BY <2>1, LiveIsAlone DEF Trading
    <3>. QED
      BY <3>1 DEF AtOnce
  <2>2. CASE ~live
    BY <2>2 DEF Punctual, AtOnce
  <2>. QED
    BY <2>1, <2>2
<1>5. ASSUME NEW s \in Syms, skipped'[s] # 0
      PROVE  PassedOver(s)'
  <2>1. PassedOver(s)
    BY <1>5 DEF Punctual, SkippedTwice
  <2>2. skipped'[s] = skipped[s] /\ open'[s] # Flat
    BY <2>1 DEF PassedOver, Tracked
  <2>. QED
    BY <1>1, <1>2, <2>1, <2>2, PassedStays DEF Calm, Slow
<1>. QED
  BY <1>1, <1>3, <1>4, <1>5 DEF Punctual, SkippedTwice

\* An evaluation that finds nothing or is blocked.
LEMMA EvaluateIsPunctual ==
  ASSUME Timely, Typed, Trading, Punctual, EvaluateNothing \/ EvaluateBlocked
  PROVE  Punctual'
<1>1. /\ UNCHANGED provider /\ UNCHANGED <<live, due, skipped, open>>
      /\ cyc.pc = "evaluate" /\ NextSymbol
  BY DEF EvaluateNothing, EvaluateBlocked
<1>. QED
  BY <1>1, NextIsPunctual DEF Tracked

\* An entry is for a symbol that has a state.
LEMMA EvaluateEntryIsPunctual ==
  ASSUME Timely, Typed, Trading, Punctual, EvaluateEntry
  PROVE  Punctual'
<1>1. /\ UNCHANGED provider /\ UNCHANGED <<live, due, skipped>> /\ Types
      /\ cyc.pc = "evaluate" /\ Sym \notin Tracked /\ HasState(Sym)
  BY DEF EvaluateEntry, MayLook, Trading
<1>2. PICK k \in Syms : k = Sym
  BY <1>1, SymIsTraded
<1>3. Complete(k) /\ k \notin Tracked
  BY <1>1, <1>2, StateIsComplete DEF Punctual, FeedsKept
<1>4. /\ FeedsKept' /\ \A s \in Syms : Complete(s) => Complete(s)'
  BY <1>1, SameProvider DEF Punctual
<1>5. CASE live
  <2>1. UNCHANGED open /\ cyc'.pc = "entry" /\ cyc'.i = cyc.i
    BY <1>1, <1>5 DEF EvaluateEntry, Types, Cycles
  <2>2. KnownAreComplete'
    BY <1>2, <1>3, <1>4, <2>1, KnownStay DEF Punctual, Tracked
  <2>3. AtOnce'
    BY <2>1 DEF AtOnce
  <2>4. SkippedTwice'
    <3>1. \A s \in Syms : s \notin Tracked
      BY <1>1, <1>2, <1>3, <1>5, LiveIsAlone
    <3>2. \A s \in Syms : skipped'[s] = 0
      BY <1>1, <3>1 DEF Punctual, SkippedTwice, PassedOver
    <3>. QED
      BY <3>2 DEF SkippedTwice
  <2>. QED
    BY <1>4, <2>2, <2>3, <2>4 DEF Punctual
<1>6. CASE ~live
  <2>1. NextSymbol /\ \A s \in Syms \ {k} : open'[s] = open[s]
    BY <1>1, <1>2, <1>6 DEF EvaluateEntry, Types
  <2>2. \A s \in Syms : open[s] # Flat => open'[s] # Flat
    BY <1>3, <2>1 DEF Tracked
  <2>3. \A s \in Syms : open'[s] # Flat => s \in Tracked \/ Complete(s)
    BY <1>3, <2>1 DEF Tracked
  <2>. QED
    BY <1>1, <2>1, <2>2, <2>3, NextIsPunctual
<1>. QED
  BY <1>5, <1>6

\* While orders are awaited nothing is passed over.
LEMMA AnswerIsPunctual ==
  ASSUME Timely, Typed, Trading, Punctual,
         AnswerPartial \/ AnswerClose \/ AnswerEntry \/ AnswerStop
  PROVE  Punctual'
<1>1. /\ UNCHANGED provider /\ UNCHANGED <<live, due, skipped>> /\ Types
      /\ cyc.pc \in {"tp1", "tp2", "close", "entry", "stop"} /\ live
  BY DEF AnswerPartial, AnswerClose, AnswerEntry, AnswerStop, Trading, CycleOK
<1>2. PICK k \in Syms : k = Sym /\ \A s \in Syms : s = k
  BY <1>1, SymIsTraded, LiveIsAlone
<1>3. /\ FeedsKept' /\ \A s \in Syms : Complete(s) => Complete(s)'
  BY <1>1, SameProvider DEF Punctual
<1>4. SkippedTwice'
  <2>1. \A s \in Syms : skipped[s] = 0
    BY <1>1, NoneAtOrders DEF Punctual, Calm
  <2>. QED
    BY <1>1, <2>1 DEF SkippedTwice
<1>5. NextSymbol => cyc'.pc = "idle"
  BY <1>1, LiveIsAlone
<1>6. CASE AnswerPartial \/ AnswerClose
  <2>1. cyc'.pc \in {"tp1", "tp2", "close", "evaluate"}
    <3>1. CASE AnswerPartial
      BY <1>1, <3>1 DEF AnswerPartial, Go, Types, Cycles, AfterTp1, AfterTp2
    <3>2. CASE AnswerClose
      BY <1>1, <3>2 DEF AnswerClose, Go, Types, Cycles
    <3>. QED
      BY <1>6, <3>1, <3>2
  <2>2. k \in Tracked
    BY <1>2, <1>6 DEF Trading, CycleOK, AnswerPartial, AnswerClose
  <2>3. KnownAreComplete'
    BY <1>2, <1>3, <2>1, <2>2, KnownStay DEF Punctual
  <2>4. AtOnce'
    BY <1>1, <2>1 DEF AtOnce
  <2>. QED
    BY <1>3, <1>4, <2>3, <2>4 DEF Punctual
<1>7. CASE AnswerEntry \/ AnswerStop
  <2>1. /\ UNCHANGED open \/ AnswerStop
        /\ cyc'.pc = "idle" \/ (cyc'.pc = "stop" /\ cyc'.i = cyc.i)
    BY <1>1, <1>5, <1>7 DEF AnswerEntry, AnswerStop, Types, Cycles
  <2>2. Complete(k)
    BY <1>2, <1>7 DEF Punctual, KnownAreComplete, AnswerEntry, AnswerStop
  <2>3. KnownAreComplete'
    BY <1>2, <1>3, <2>1, <2>2, KnownStay DEF Punctual
  <2>4. AtOnce'
    BY <1>1, <2>1 DEF AtOnce
  <2>. QED
    BY <1>3, <1>4, <2>3, <2>4 DEF Punctual
<1>. QED
  BY <1>6, <1>7

(* A new process has cold caches, every task at its first call, and no     *)
(* position.                                                               *)
NewProcess ==
    /\ age = ColdAge /\ task \in ColdTasks /\ value = ColdValue /\ cyc.pc = "idle"
    /\ \A s \in Syms : open[s] = Flat /\ skipped[s] = 0

\* A new process has passed over nothing.
LEMMA NewIsPunctual == NewProcess => Punctual
<1>. SUFFICES ASSUME NewProcess PROVE Punctual
  OBVIOUS
<1>1. ASSUME NEW s \in Syms
      PROVE  FeedsOnTime(s)
  <2>1. /\ \A f \in Feeds : age[s][f] = Never /\ task[s][f].wait \in Latencies(f)
        /\ \A p \in DOMAIN Polls : value[s][p] = Absent
    BY DEF NewProcess, ColdAge, ColdTasks, ColdValue
  <2>2. \A f \in Streams : StreamOnTime(s, f)
    BY <2>1, FeedKinds, LatencyTypes DEF StreamOnTime
  <2>3. \A p \in DOMAIN Polls : PollOnTime(s, p)
    <3>. SUFFICES ASSUME NEW p \in DOMAIN Polls PROVE PollOnTime(s, p)
      OBVIOUS
    <3>1. p \in Feeds /\ Latencies(p) = 0..MaxLatency
      BY FeedKinds, LatencyTypes
    <3>2. task[s][p].wait \in 0..Period(p)
      BY <2>1, <3>1, PeriodTypes
    <3>. QED
      BY <2>1, <3>1, <3>2 DEF PollOnTime
  <2>. QED
    BY <2>2, <2>3 DEF FeedsOnTime
<1>2. KnownAreComplete
  BY DEF NewProcess, KnownAreComplete, Tracked
<1>. QED
  BY <1>1, <1>2 DEF NewProcess, Punctual, FeedsKept, AtOnce, SkippedTwice

\* Every step keeps the passes of management in time while there is no outage.
LEMMA OnTimeStep ==
  ASSUME Timely, Typed, Trading, OnTime, [Next]_vars
  PROVE  OnTime'
<1>. SUFFICES ASSUME outages' = 0 PROVE Punctual'
  BY DEF OnTime, Punctual
<1>0. outages \in Nat
  BY Limits DEF Typed, ProviderTypeOK
<1>1. ASSUME outages = 0 PROVE Punctual
  BY <1>1 DEF OnTime, Punctual
<1>2. CASE Restart
  <2>1. ProviderStart /\ cyc' = Idle
    BY <1>2 DEF Restart
  <2>2. cyc'.pc = "idle" /\ \A s \in Syms : open'[s] = Flat /\ skipped'[s] = 0
    BY <1>2, <2>1 DEF Restart, Idle
  <2>3. NewProcess'
    BY <2>1, <2>2 DEF ProviderStart, NewProcess, ColdAge, ColdTasks, ColdValue, Never, Latencies
  <2>. QED
    BY <2>3, NewIsPunctual, PTL
<1>3. CASE StartCycle
  BY <1>1, <1>3, StartIsPunctual DEF StartCycle, provider
<1>4. CASE ManageNothing
  BY <1>1, <1>4, ManageNothingIsPunctual DEF ManageNothing, provider
<1>5. CASE ManagePosition
  BY <1>1, <1>5, ManagePositionIsPunctual DEF ManagePosition, provider
<1>6. CASE EvaluateNothing \/ EvaluateBlocked
  BY <1>1, <1>6, EvaluateIsPunctual DEF EvaluateNothing, EvaluateBlocked, provider
<1>7. CASE EvaluateEntry
  BY <1>1, <1>7, EvaluateEntryIsPunctual DEF EvaluateEntry, provider
<1>8. CASE AnswerPartial \/ AnswerClose \/ AnswerEntry \/ AnswerStop
  BY <1>1, <1>8, AnswerIsPunctual DEF AnswerPartial, AnswerClose, AnswerEntry, AnswerStop, provider
<1>9. CASE Tick
  BY <1>1, <1>9, TickIsPunctual DEF Tick, ProviderElapse
<1>10. ASSUME NEW s \in Syms, Feed(s)
       PROVE  Punctual'
  <2>1. outages' = outages + 1 \/ outages' = outages
    BY <1>10 DEF Feed, FeedStep, BookUpdate, RingUpdate, PollUpdate, Outage
  <2>2. outages' = outages /\ outages = 0
    BY <1>0, <2>1
  <2>. QED
    BY <1>1, <1>10, <2>2, FeedIsPunctual
<1>11. ASSUME NEW s \in Syms, Trouble(s)
       PROVE  Punctual'
  BY <1>11, TroubleTypes DEF Trouble, Typed
<1>12. ASSUME UNCHANGED provider, UNCHANGED <<live, open, cyc, due, skipped>>
       PROVE  Punctual'
  <2>1. /\ FeedsKept' /\ \A s \in Syms : Complete(s) => Complete(s)'
        /\ \A s \in Syms : \A p \in DOMAIN Polls : SamePoll(s, p)
    BY <1>1, <1>12, SameProvider DEF Punctual, provider
  <2>2. KnownAreComplete'
    BY <1>1, <1>12, <2>1, KnownStay, SymIsTraded
       DEF Punctual, Tracked, KnownAreComplete, Trading, provider
  <2>3. ASSUME NEW s \in Syms, skipped'[s] # 0
        PROVE  PassedOver(s)'
    <3>1. PassedOver(s)
      BY <1>1, <1>12, <2>3 DEF Punctual, SkippedTwice, provider
    <3>2. skipped'[s] = skipped[s] /\ open'[s] # Flat /\ (Pending(s)' <=> Pending(s)) /\ cyc'.pc \in Calm
      BY <1>12, <3>1 DEF PassedOver, Tracked, Pending, Calm
    <3>. QED
      BY <1>12, <2>1, <3>1, <3>2, PassedStays DEF Slow
  <2>. QED
    BY <1>1, <1>12, <2>1, <2>2, <2>3 DEF Punctual, AtOnce, SkippedTwice, provider
<1>13. ASSUME NEW s \in Syms, StopFires(s) \/ \E d \in Directions : Fill(s, d)
       PROVE  Punctual'
  BY <1>12, <1>13 DEF StopFires, Fill
<1>14. CASE UNCHANGED vars
  BY <1>12, <1>14 DEF vars, strategy
<1>. QED
  BY <1>2, <1>3, <1>4, <1>5, <1>6, <1>7, <1>8, <1>9, <1>10, <1>11, <1>13, <1>14 DEF Next, Cycle

(* While the feeds are healthy no position is passed over in three cycles  *)
(* running (MarketStateProvider.__call__, manage_position): for any number *)
(* of symbols on paper, or one in live trading, when at most one poll can  *)
(* go stale before its next value, and its sleep and its longest request   *)
(* together are no longer than the staleness limit and two cycles.         *)
THEOREM PassedOverTwice ==
  ASSUME IsInjective(Symbols), Modes = {FALSE} \/ Len(Symbols) = 1,
         CycleEvery <= StaleAfter,
         \A p \in Slow : Period(p) <= StaleAfter + 2 * CycleEvery,
         \A p, q \in Slow : p = q
  PROVE  Spec => []NeverSkippedThrice
<1>. Timely
  BY DEF Timely
<1>1. Init => Typed /\ OnTime
  <2>. SUFFICES ASSUME Init PROVE Typed /\ OnTime
    OBVIOUS
  <2>1. Typed
    BY InitTyped
  <2>2. Punctual
    <3>1. NewProcess
      BY DEF Init, ProviderInit, NewProcess, Idle
    <3>. QED
      BY <3>1, NewIsPunctual
  <2>. QED
    BY <2>1, <2>2 DEF OnTime, Punctual
<1>2. Typed /\ Trading /\ OnTime /\ [Next]_vars => Typed' /\ OnTime'
  BY TypedStep, OnTimeStep
<1>3. OnTime => NeverSkippedThrice
  <2>. SUFFICES ASSUME OnTime, outages = 0, NEW s \in Syms PROVE skipped[s] <= 2
    BY DEF NeverSkippedThrice
  <2>. QED
    BY DEF OnTime, SkippedTwice, PassedOver
<1>. QED
  BY <1>1, <1>2, <1>3, TradingInvariant, PTL DEF Spec
=============================================================================
