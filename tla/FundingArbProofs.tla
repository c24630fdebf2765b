-------------------------- MODULE FundingArbProofs --------------------------
(***************************************************************************)
(* Theorems about FundingArb for every calendar, every list of rates and   *)
(* outcomes, and any number of arbs, failed writes and restarts: the       *)
(* invariants of the run MCFundingArb, that no arb is closed early, and    *)
(* that the job and the commands reach the kernel by its operations only,  *)
(* so that what RiskKernelProofs proves of the kernel holds of it here.    *)
(***************************************************************************)
EXTENDS FundingArb, FiniteSetTheorems, TLAPS

-----------------------------------------------------------------------------
(* The inductive invariant, conjunct by conjunct.                          *)

\* What the arb job needs to know of the kernel object and of its file.
KernelShape ==
  /\ "halted" \in DOMAIN kernel
  /\ file # Kernel!Unreadable => "halted" \in DOMAIN file

ArbType == [state : ArbStates, id : Nat, opened : Nat]
RowType == [symbol : Allowed, fills : SUBSET Legs]

Types ==
  /\ now \in Nat /\ outcomes \in Nat
  /\ arbs \in [Allowed -> ArbType]
  /\ ledger \in Seq(RowType)
  /\ at \in Awaits \cup Busy
  /\ late \in Nat /\ faults \in Nat /\ restarts \in Nat

\* Every arb in memory has a row of its own symbol; while it is open, the row holds
\* the two opening legs; once it is being closed, it is old enough.
Rows ==
  \A s \in Allowed :
    /\ arbs[s].state = "none" => arbs[s] = NoArb
    /\ arbs[s] # NoArb => arbs[s].id \in DOMAIN ledger /\ ledger[arbs[s].id].symbol = s
    /\ arbs[s].state \in {"opening", "open"} =>
         ledger[arbs[s].id].fills = {"spot_open", "perp_open"}
    /\ arbs[s].state \in {"closing", "closed"} => now >= arbs[s].opened + Day
    /\ arbs[s].state = "closing" => "perp_close" \notin ledger[arbs[s].id].fills

\* Where the job stands in open_arb, its symbol is free, and a halt that struck since
\* the approval has not yet let anything through.
Opening ==
  /\ at \in {"openFetch", "openSpot", "openPerp"} =>
       /\ deal \in Allowed /\ arbs[deal] = NoArb
       /\ kernel.halted => late = 0
  /\ at = "openPerp" =>
       /\ Len(ledger) > 0
       /\ ledger[Len(ledger)] = [symbol |-> deal, fills |-> {"spot_open"}]

\* Where it stands in close_arb, the row shows the legs written so far.
Closing ==
  /\ at \in {"closeFetch", "closeSpot", "closePerp", "settle"} => deal \in Allowed
  /\ at = "closeFetch" => arbs[deal].state = "open" /\ now >= arbs[deal].opened + Day
  /\ at \in {"closeSpot", "closePerp"} => arbs[deal].state = "closing"
  /\ at = "closeSpot" => ledger[arbs[deal].id].fills = {"spot_open", "perp_open"}
  /\ at = "closePerp" => ledger[arbs[deal].id].fills = {"spot_open", "perp_open", "spot_close"}
  /\ at = "settle" => arbs[deal].state = "closed"

Halves == {i \in DOMAIN ledger : Half(ledger[i].fills)}

\* A leg stands alone while its partner is being written, and where a fault left it.
HalvesOwed ==
  Cardinality(Halves) <= faults + restarts + (IF at \in {"openPerp", "closePerp"} THEN 1 ELSE 0)

\* The results not yet booked are the one being settled and those a restart lost.
Booking ==
  /\ outcomes + (IF at = "settle" THEN 1 ELSE 0) <= Cardinality(Closed)
  /\ Cardinality(Closed) <= outcomes + restarts + (IF at = "settle" THEN 1 ELSE 0)

\* The one open row of a symbol that the strategy still answers for.
Answered(s) ==
  IF arbs[s].state \in {"opening", "open", "closing"} \/ (at = "openPerp" /\ deal = s)
  THEN 1 ELSE 0

Exposure == \A s \in Allowed : Cardinality(OpenOn(s)) <= restarts + faults + Answered(s)

ArbInv ==
  /\ KernelShape /\ Types /\ Rows /\ Opening /\ Closing
  /\ HalvesOwed /\ Booking /\ Exposure /\ OneThroughPerHalt

-----------------------------------------------------------------------------
(* The calls of the kernel.                                                *)

\* A call that leaves clock and outcome count alone and halts nothing new.
LEMMA ApprovalCall ==
  ASSUME KernelShape, Kernel!ApproveTrade(ArbRequest)
  PROVE  /\ KernelShape' /\ UNCHANGED <<now, outcomes>>
         /\ ~Refused(reply'.decision) => ~kernel'.halted
<1> DEFINE m == Kernel!MaybeResetPeriods(kernel, now)
           c == Kernel!CheckKillswitch(m, now)
<1>1. DOMAIN m = DOMAIN kernel
  BY DEF Kernel!MaybeResetPeriods, Kernel!DailyReset, Kernel!WeeklyReset
<1>2. DOMAIN c = DOMAIN m
  <2>. HIDE DEF m
  <2>. QED
    BY DEF Kernel!CheckKillswitch, Kernel!Resumed
<1>3. /\ kernel' = c /\ reply' = Kernel!Verdict(c, ArbRequest)
      /\ UNCHANGED <<now, file, outcomes>>
  BY DEF Kernel!ApproveTrade
<1>. HIDE DEF c
<1>4. c.halted => reply'.decision = "halted"
  BY <1>3 DEF Kernel!Verdict, Kernel!Answer
<1>. QED
  BY <1>1, <1>2, <1>3, <1>4 DEF KernelShape, Refused

\* A status query or a /resume never halts the kernel.
LEMMA CommandCall ==
  ASSUME KernelShape, Kernel!ManualResume \/ Kernel!GetStatus
  PROVE  /\ KernelShape' /\ UNCHANGED <<now, outcomes>>
         /\ kernel'.halted => kernel.halted
<1>1. /\ DOMAIN Kernel!Resumed(kernel) = DOMAIN kernel
      /\ Kernel!Resumed(kernel).halted = FALSE
  BY DEF Kernel!Resumed, KernelShape
<1>2. CASE Kernel!ManualResume
  BY <1>1, <1>2 DEF Kernel!ManualResume, Kernel!SaveState, KernelShape
<1>3. CASE Kernel!GetStatus
  BY <1>1, <1>3 DEF Kernel!GetStatus, Kernel!CheckKillswitch, KernelShape
<1>. QED
  BY <1>2, <1>3

\* A /halt changes the kernel only.
LEMMA HaltCall ==
  ASSUME KernelShape, NEW ticks, Kernel!ManualHalt(ticks)
  PROVE  KernelShape' /\ UNCHANGED <<now, outcomes>>
  BY DEF KernelShape, Kernel!ManualHalt, Kernel!TriggerHalt, Kernel!SaveState

\* Recording an outcome counts it and changes the kernel only.
LEMMA OutcomeCall ==
  ASSUME KernelShape, NEW pnl, Kernel!RecordTradeOutcome(pnl)
  PROVE  KernelShape' /\ outcomes' = outcomes + 1 /\ UNCHANGED now
<1> DEFINE b == Kernel!Booked(kernel, pnl)
           e == Kernel!EvaluateKillswitches(b, now)
<1>1. DOMAIN b = DOMAIN kernel
  BY DEF Kernel!Booked
<1>2. DOMAIN e = DOMAIN b
  <2>. HIDE DEF b
  <2>. QED
    BY DEF Kernel!EvaluateKillswitches, Kernel!TriggerHalt
<1>3. /\ kernel' = IF b.current = 0 THEN b ELSE e
      /\ \/ file' = file
         \/ file' = IF persistent THEN kernel' ELSE file
      /\ outcomes' = outcomes + 1 /\ UNCHANGED now
  BY DEF Kernel!RecordTradeOutcome, Kernel!SaveState
<1>. HIDE DEF b, e
<1>. QED
  BY <1>1, <1>2, <1>3 DEF KernelShape

\* A restart makes a new kernel and changes nothing else of it.
LEMMA RestartCall ==
  ASSUME KernelShape, Kernel!Restart
  PROVE  KernelShape' /\ UNCHANGED <<now, outcomes>>
  BY DEF KernelShape, Kernel!Restart, Kernel!LoadState, Kernel!Fresh

-----------------------------------------------------------------------------
(* Rows of the ledger and the sets counted over them.                      *)

\* The rows counted by the properties are finitely many.
LEMMA RowSets ==
  ASSUME Types
  PROVE  /\ DOMAIN ledger = 1 .. Len(ledger) /\ Len(ledger) \in Nat
         /\ IsFiniteSet(Halves) /\ Cardinality(Halves) \in Nat
         /\ IsFiniteSet(Closed) /\ Cardinality(Closed) \in Nat
         /\ \A s \in Allowed : IsFiniteSet(OpenOn(s)) /\ Cardinality(OpenOn(s)) \in Nat
<1>1. DOMAIN ledger = 1 .. Len(ledger) /\ Len(ledger) \in Nat
  BY DEF Types
<1>2. IsFiniteSet(DOMAIN ledger)
  BY <1>1, FS_Interval
<1>3. /\ Halves \subseteq DOMAIN ledger /\ Closed \subseteq DOMAIN ledger
      /\ \A s \in Allowed : OpenOn(s) \subseteq DOMAIN ledger
  BY DEF Halves, Closed, OpenOn
<1>. QED
  BY <1>1, <1>2, <1>3, FS_Subset, FS_CardinalityType

\* A fill recorded for an arb changes its row only, and only by that leg.
LEMMA RowChange ==
  ASSUME Types, NEW i \in DOMAIN ledger, NEW leg \in Legs, ledger' = Recorded(i, leg)
  PROVE  /\ ledger' \in Seq(RowType) /\ DOMAIN ledger' = DOMAIN ledger
         /\ Len(ledger') = Len(ledger)
         /\ \A j \in DOMAIN ledger : j # i => ledger'[j] = ledger[j]
         /\ ledger'[i].symbol = ledger[i].symbol
         /\ ledger'[i].fills = ledger[i].fills \cup {leg}
         /\ ledger'[i] = [symbol |-> ledger[i].symbol, fills |-> ledger[i].fills \cup {leg}]
<1>1. ledger[i] \in RowType
  BY DEF Types
<1>2. [ledger[i] EXCEPT !.fills = @ \cup {leg}]
        = [symbol |-> ledger[i].symbol, fills |-> ledger[i].fills \cup {leg}]
  BY <1>1 DEF RowType
<1>3. [symbol |-> ledger[i].symbol, fills |-> ledger[i].fills \cup {leg}] \in RowType
  BY <1>1 DEF RowType
<1>4. ledger' = [ledger EXCEPT ![i] = [ledger[i] EXCEPT !.fills = @ \cup {leg}]]
  BY DEF Recorded
<1>. QED
  BY <1>1, <1>2, <1>3, <1>4 DEF Types

\* A new row stands behind the others.
LEMMA RowAdded ==
  ASSUME Types, NEW row \in RowType, ledger' = Append(ledger, row)
  PROVE  /\ ledger' \in Seq(RowType) /\ Len(ledger') = Len(ledger) + 1
         /\ DOMAIN ledger' = DOMAIN ledger \cup {Len(ledger) + 1}
         /\ Len(ledger) + 1 \notin DOMAIN ledger
         /\ \A j \in DOMAIN ledger : ledger'[j] = ledger[j]
         /\ ledger'[Len(ledger) + 1] = row
  BY DEF Types

\* Rows that are not written are counted as before.
LEMMA RowsKept ==
  ASSUME ledger' = ledger
  PROVE  /\ Halves' = Halves /\ Closed' = Closed
         /\ \A s \in Allowed : OpenOn(s)' = OpenOn(s)
  BY DEF Halves, Closed, OpenOn

-----------------------------------------------------------------------------
(* The invariant is inductive: the initial states, and one lemma an action. *)

\* The invariant holds when the process starts.
LEMMA InitArb == Init => ArbInv
<1>. SUFFICES ASSUME Init PROVE ArbInv
  OBVIOUS
<1>1. ledger = <<>> /\ DOMAIN ledger = {}
  BY DEF Init
<1>2. Halves = {} /\ Closed = {} /\ \A s \in Allowed : OpenOn(s) = {}
  BY <1>1 DEF Halves, Closed, OpenOn
<1>3. KernelShape
  BY DEF Init, Kernel!Init, Kernel!Fresh, KernelShape
<1>4. Types
  BY KernelAssumption DEF Init, Kernel!Init, Kernel!TimeAssumption, Types, NoArb, ArbType,
     ArbStates, Awaits
<1>. QED
  BY <1>2, <1>3, <1>4, FS_EmptySet DEF Init, Kernel!Init, ArbInv, Rows, Opening, Closing,
     HalvesOwed, Booking, Exposure, Answered, OneThroughPerHalt, NoArb

\* A step that touches neither an arb nor the ledger, and neither fills nor books.
LEMMA QuietStep ==
  ASSUME ArbInv, KernelShape', UNCHANGED <<arbs, ledger, outcomes>>,
         now' \in Nat, now' >= now, at' \in Awaits \cup Busy,
         late' \in Nat, late' <= 1,
         faults' \in Nat, faults' >= faults, UNCHANGED restarts,
         at \in {"openPerp", "closePerp"} => faults' >= faults + 1,
         at # "settle", at' \notin {"openPerp", "closePerp", "settle"}
  PROVE  /\ KernelShape' /\ Types' /\ Rows' /\ HalvesOwed' /\ Booking' /\ Exposure'
         /\ OneThroughPerHalt'
<1>1. Types'
  BY DEF ArbInv, Types
<1>2. Rows'
  BY KernelAssumption DEF ArbInv, Types, Rows, ArbType, Kernel!TimeAssumption
<1> DEFINE owed == IF at \in {"openPerp", "closePerp"} THEN 1 ELSE 0
<1>3. HalvesOwed'
  <2>1. Cardinality(Halves) <= faults + restarts + owed
    BY DEF ArbInv, HalvesOwed
  <2>2. Cardinality(Halves) \in Nat /\ owed \in Nat /\ Halves' = Halves
    BY RowSets, RowsKept DEF ArbInv
  <2>3. faults \in Nat /\ restarts \in Nat
    BY DEF ArbInv, Types
  <2>4. Cardinality(Halves) <= faults' + restarts'
    <3>1. owed = 0 \/ (owed = 1 /\ faults' >= faults + 1)
      OBVIOUS
    <3>. HIDE DEF owed
    <3>. QED
      BY <2>1, <2>2, <2>3, <3>1
  <2>5. ~(at' \in {"openPerp", "closePerp"})
    OBVIOUS
  <2>. QED
    BY <2>2, <2>3, <2>4, <2>5 DEF HalvesOwed
<1>4. Booking'
  BY RowSets, RowsKept DEF ArbInv, Types, Booking
<1>5. Exposure'
  <2>. SUFFICES ASSUME NEW s \in Allowed
                PROVE  Cardinality(OpenOn(s))' <= (restarts + faults + Answered(s))'
    BY DEF Exposure
  <2>1. Cardinality(OpenOn(s)) <= restarts + faults + Answered(s)
    BY DEF ArbInv, Exposure
  <2>2. Cardinality(OpenOn(s)) \in Nat /\ OpenOn(s)' = OpenOn(s)
    BY RowSets, RowsKept DEF ArbInv
  <2>3. /\ Answered(s) \in {0, 1} /\ Answered(s)' \in {0, 1}
        /\ at # "openPerp" => Answered(s)' = Answered(s)
    BY DEF Answered
  <2>4. faults \in Nat /\ restarts \in Nat
    BY DEF ArbInv, Types
  <2>5. Answered(s)' >= Answered(s) \/ faults' >= faults + 1
    BY <2>3
  <2>. QED
    BY <2>1, <2>2, <2>3, <2>4, <2>5
<1>. QED
  BY <1>1, <1>2, <1>3, <1>4, <1>5 DEF OneThroughPerHalt

\* The steps of a cycle that only move the job.
LEMMA CycleSteps ==
  ASSUME ArbInv,
         \/ JobStart \/ EndCycle \/ Skip \/ BeginClose \/ FetchFails \/ TickersForOpen
         \/ \E list \in RateLists : RatesArrive(list)
  PROVE  ArbInv'
<1>1. /\ UNCHANGED <<kernelVars, live, arbs, ledger, boundVars>>
      /\ at \in {"idle", "rates", "next", "openFetch", "closeFetch"}
      /\ at' \in {"idle", "rates", "next", "openSpot", "closeFetch"}
  BY DEF JobStart, EndCycle, Skip, BeginClose, FetchFails, TickersForOpen, RatesArrive
<1>2. KernelShape'
  BY <1>1 DEF ArbInv, KernelShape, kernelVars
<1>3. at' \in Awaits \cup Busy
  BY <1>1 DEF Awaits, Busy
<1>4. /\ Types' /\ Rows' /\ HalvesOwed' /\ Booking' /\ Exposure' /\ OneThroughPerHalt'
  BY <1>1, <1>2, <1>3, QuietStep DEF ArbInv, Types, OneThroughPerHalt, kernelVars, boundVars
<1>5. Opening'
  <2>1. at' = "openSpot" => at = "openFetch" /\ UNCHANGED deal
    BY <1>1 DEF JobStart, EndCycle, Skip, BeginClose, FetchFails, TickersForOpen, RatesArrive
  <2>. QED
    BY <1>1, <2>1 DEF ArbInv, Opening, kernelVars, boundVars
<1>6. Closing'
  <2>1. at' = "closeFetch" =>
          /\ deal' = Head(todo).symbol /\ Tracked(Head(todo).symbol)
          /\ ShouldClose(arbs[Head(todo).symbol], Head(todo))
    BY <1>1 DEF JobStart, EndCycle, Skip, BeginClose, FetchFails, TickersForOpen, RatesArrive
  <2>2. at' = "closeFetch" =>
          deal' \in Allowed /\ arbs[deal'].state = "open" /\ now >= arbs[deal'].opened + Day
    BY <2>1, KernelAssumption
    DEF Tracked, ShouldClose, HoldOf, ArbInv, Types, ArbType, Kernel!TimeAssumption
  <2>. QED
    BY <1>1, <2>2 DEF Closing, kernelVars
<1>. QED
  BY <1>2, <1>4, <1>5, <1>6 DEF ArbInv

\* Asking the kernel (approve_trade) keeps the invariant.
LEMMA AskKernelStep == ASSUME ArbInv, AskKernel PROVE ArbInv'
<1>1. /\ at = "next" /\ UNCHANGED <<live, arbs, ledger, boundVars>>
      /\ ~Tracked(Head(todo).symbol) /\ ShouldOpen(Head(todo))
      /\ Kernel!ApproveTrade(ArbRequest)
      /\ \/ at' = "next"
         \/ ~Refused(reply'.decision) /\ at' = "openFetch" /\ deal' = Head(todo).symbol
  BY DEF AskKernel
<1>2. /\ KernelShape' /\ UNCHANGED <<now, outcomes>>
      /\ ~Refused(reply'.decision) => ~kernel'.halted
  BY <1>1, ApprovalCall DEF ArbInv
<1>3. at' \in Awaits \cup Busy
  BY <1>1 DEF Awaits, Busy
<1>4. /\ Types' /\ Rows' /\ HalvesOwed' /\ Booking' /\ Exposure' /\ OneThroughPerHalt'
  BY <1>1, <1>2, <1>3, QuietStep DEF ArbInv, Types, OneThroughPerHalt, boundVars
<1>5. Opening'
  BY <1>1, <1>2 DEF Opening, ShouldOpen, Tracked
<1>6. Closing'
  BY <1>1 DEF Closing
<1>. QED
  BY <1>2, <1>4, <1>5, <1>6 DEF ArbInv

\* A write that fails leaves at most one leg alone, and is counted.
LEMMA WriteFailsStep == ASSUME ArbInv, WriteFails PROVE ArbInv'
<1>1. /\ at \in {"openSpot", "openPerp", "closeSpot", "closePerp"} /\ at' = "idle"
      /\ faults' = faults + 1
      /\ UNCHANGED <<kernelVars, live, arbs, ledger, late, restarts>>
  BY DEF WriteFails
<1>2. KernelShape'
  BY <1>1 DEF ArbInv, KernelShape, kernelVars
<1>3. at' \in Awaits \cup Busy
  BY <1>1 DEF Awaits
<1>4. /\ Types' /\ Rows' /\ HalvesOwed' /\ Booking' /\ Exposure' /\ OneThroughPerHalt'
  BY <1>1, <1>2, <1>3, QuietStep DEF ArbInv, Types, OneThroughPerHalt, kernelVars
<1>5. Opening' /\ Closing'
  BY <1>1 DEF Opening, Closing
<1>. QED
  BY <1>2, <1>4, <1>5 DEF ArbInv

\* Commands reach the kernel while the job waits.
LEMMA HaltStep == ASSUME ArbInv, NEW ticks \in HaltTicks, Halt(ticks) PROVE ArbInv'
<1>1. /\ at \in Awaits /\ Kernel!ManualHalt(ticks) /\ late' = 0
      /\ UNCHANGED <<live, arbs, ledger, at, todo, deal, faults, restarts>>
  BY DEF Halt, AtAwait
<1>2. KernelShape' /\ UNCHANGED <<now, outcomes>>
  BY <1>1, HaltCall DEF ArbInv
<1>3. at \notin {"openPerp", "closePerp", "settle"}
  BY <1>1 DEF Awaits
<1>4. /\ Types' /\ Rows' /\ HalvesOwed' /\ Booking' /\ Exposure' /\ OneThroughPerHalt'
  BY <1>1, <1>2, <1>3, QuietStep DEF ArbInv, Types
<1>5. Opening' /\ Closing'
  BY <1>1, <1>2, <1>3 DEF ArbInv, Opening, Closing
<1>. QED
  BY <1>2, <1>4, <1>5 DEF ArbInv

\* An operator's command keeps the invariant.
LEMMA CommandStep == ASSUME ArbInv, Command PROVE ArbInv'
<1>1. /\ at \in Awaits /\ (Kernel!ManualResume \/ Kernel!GetStatus)
      /\ UNCHANGED <<live, arbs, ledger, at, todo, deal, boundVars>>
  BY DEF Command, AtAwait
<1>2. KernelShape' /\ UNCHANGED <<now, outcomes>> /\ (kernel'.halted => kernel.halted)
  BY <1>1, CommandCall DEF ArbInv
<1>3. at \notin {"openPerp", "closePerp", "settle"}
  BY <1>1 DEF Awaits
<1>4. /\ Types' /\ Rows' /\ HalvesOwed' /\ Booking' /\ Exposure' /\ OneThroughPerHalt'
  BY <1>1, <1>2, <1>3, QuietStep DEF ArbInv, Types, OneThroughPerHalt, boundVars
<1>5. Opening' /\ Closing'
  BY <1>1, <1>2, <1>3 DEF ArbInv, Opening, Closing, boundVars
<1>. QED
  BY <1>2, <1>4, <1>5 DEF ArbInv

\* The passing of time keeps the invariant.
LEMMA TickStep == ASSUME ArbInv, Tick PROVE ArbInv'
<1>1. /\ at = "idle" /\ now' = now + 1
      /\ UNCHANGED <<kernel, file, outcomes, live, arbs, ledger, at, todo, deal, boundVars>>
  BY DEF Tick, Kernel!Tick
<1>2. KernelShape'
  BY <1>1 DEF ArbInv, KernelShape
<1>3. at' \in Awaits \cup Busy
  BY <1>1 DEF Awaits
<1>4. /\ Types' /\ Rows' /\ HalvesOwed' /\ Booking' /\ Exposure' /\ OneThroughPerHalt'
  BY <1>1, <1>2, <1>3, QuietStep DEF ArbInv, Types, OneThroughPerHalt, boundVars
<1>5. Opening' /\ Closing'
  BY <1>1 DEF Opening, Closing
<1>. QED
  BY <1>2, <1>4, <1>5 DEF ArbInv

\* The process may die at any step: what it had in hand is charged to the restart.
LEMMA RestartStep == ASSUME ArbInv, ProcessRestart PROVE ArbInv'
<1>1. /\ restarts' = restarts + 1 /\ Kernel!Restart
      /\ arbs' = [s \in Allowed |-> NoArb] /\ at' = "idle" /\ late' = 0
      /\ UNCHANGED <<ledger, faults>>
  BY DEF ProcessRestart
<1>2. KernelShape' /\ UNCHANGED <<now, outcomes>>
  BY <1>1, RestartCall DEF ArbInv
<1>3. Types'
  BY <1>1, <1>2 DEF ArbInv, Types, ArbType, ArbStates, NoArb, Awaits
<1>4. Rows' /\ Opening' /\ Closing' /\ OneThroughPerHalt'
  BY <1>1 DEF Rows, Opening, Closing, OneThroughPerHalt, NoArb
<1>5. HalvesOwed' /\ Booking'
  BY <1>1, <1>2, RowSets, RowsKept DEF ArbInv, Types, HalvesOwed, Booking
<1>6. Exposure'
  <2>. SUFFICES ASSUME NEW s \in Allowed
                PROVE  Cardinality(OpenOn(s))' <= (restarts + faults + Answered(s))'
    BY DEF Exposure
  <2>1. Cardinality(OpenOn(s)) <= restarts + faults + Answered(s)
    BY DEF ArbInv, Exposure
  <2>2. Cardinality(OpenOn(s)) \in Nat /\ OpenOn(s)' = OpenOn(s)
    BY <1>1, RowSets, RowsKept DEF ArbInv
  <2>3. Answered(s) \in {0, 1} /\ Answered(s)' \in {0, 1}
    BY DEF Answered
  <2>. QED
    BY <1>1, <2>1, <2>2, <2>3 DEF ArbInv, Types
<1>. QED
  BY <1>2, <1>3, <1>4, <1>5, <1>6 DEF ArbInv

-----------------------------------------------------------------------------
(* open_arb: the row is added, then its second leg, then the arb.          *)

\* The answer to the spot entry keeps the invariant.
LEMMA SpotOpenStep == ASSUME ArbInv, RecordSpotOpen PROVE ArbInv'
<1> DEFINE row == [symbol |-> deal, fills |-> {"spot_open"}]
           new == Len(ledger) + 1
<1>1. /\ at = "openSpot" /\ at' = "openPerp" /\ ledger' = Append(ledger, row)
      /\ UNCHANGED <<kernelVars, live, arbs, todo, deal, boundVars>>
  BY DEF RecordSpotOpen
<1>2. /\ deal \in Allowed /\ arbs[deal] = NoArb /\ (kernel.halted => late = 0)
  BY <1>1 DEF ArbInv, Opening
<1>3. row \in RowType
  BY <1>2 DEF RowType, Legs
<1>4. /\ ledger' \in Seq(RowType) /\ Len(ledger') = new
      /\ DOMAIN ledger' = DOMAIN ledger \cup {new} /\ new \notin DOMAIN ledger
      /\ \A j \in DOMAIN ledger : ledger'[j] = ledger[j]
      /\ ledger'[new] = row
  BY <1>1, <1>3, RowAdded DEF ArbInv
<1>5. KernelShape' /\ Types'
  BY <1>1, <1>4 DEF ArbInv, KernelShape, Types, Busy, kernelVars, boundVars
<1>6. Rows'
  BY <1>1, <1>4 DEF ArbInv, Rows, kernelVars, NoArb
<1>7. Opening' /\ Closing' /\ OneThroughPerHalt'
  BY <1>1, <1>2, <1>4, RowSets DEF ArbInv, Opening, Closing, OneThroughPerHalt, kernelVars, boundVars
<1>8. /\ Halves' = Halves \cup {new} /\ new \notin Halves
      /\ Closed' = Closed
      /\ \A s \in Allowed :
           /\ s = deal => OpenOn(s)' = OpenOn(s) \cup {new} /\ new \notin OpenOn(s)
           /\ s # deal => OpenOn(s)' = OpenOn(s)
  <2>1. new \notin Closed' /\ Closed' = Closed
    BY <1>4 DEF Closed
  <2>2. Halves' = Halves \cup {new} /\ new \notin Halves
    BY <1>4 DEF Halves, Half
  <2>. QED
    BY <1>1, <1>4, <2>1, <2>2 DEF OpenOn
<1>9. HalvesOwed'
  <2>1. Cardinality(Halves') = Cardinality(Halves) + 1
    BY <1>8, RowSets, FS_AddElement DEF ArbInv
  <2>. QED
    BY <1>1, <2>1, RowSets DEF ArbInv, Types, HalvesOwed, boundVars
<1>10. Booking'
  BY <1>1, <1>8 DEF ArbInv, Booking, kernelVars, boundVars
<1>11. Exposure'
  <2>. SUFFICES ASSUME NEW s \in Allowed
                PROVE  Cardinality(OpenOn(s))' <= (restarts + faults + Answered(s))'
    BY DEF Exposure
  <2>1. Cardinality(OpenOn(s)) <= restarts + faults + Answered(s)
    BY DEF ArbInv, Exposure
  <2>2. Cardinality(OpenOn(s)) \in Nat /\ IsFiniteSet(OpenOn(s))
    BY RowSets DEF ArbInv
  <2>3. CASE s = deal
    <3>1. Answered(s) = 0 /\ Answered(s)' = 1
      BY <1>1, <1>2, <2>3 DEF Answered, NoArb
    <3>2. OpenOn(s)' = OpenOn(s) \cup {new} /\ new \notin OpenOn(s)
      BY <1>8, <2>3
    <3>3. Cardinality(OpenOn(s)') = Cardinality(OpenOn(s)) + 1
      BY <2>2, <3>2, FS_AddElement
    <3>. QED
      BY <1>1, <2>1, <2>2, <3>1, <3>3 DEF ArbInv, Types, boundVars
  <2>4. CASE s # deal
    <3>1. Answered(s)' = Answered(s)
      BY <1>1, <2>4 DEF Answered
    <3>. QED
      BY <1>1, <1>8, <2>1, <2>4, <3>1 DEF boundVars
  <2>. QED
    BY <2>3, <2>4
<1>. QED
  BY <1>5, <1>6, <1>7, <1>9, <1>10, <1>11 DEF ArbInv

\* The answer to the perp entry keeps the invariant.
LEMMA PerpOpenStep == ASSUME ArbInv, RecordPerpOpen PROVE ArbInv'
<1> DEFINE i == Len(ledger)
<1>1. /\ at = "openPerp" /\ at' = "next" /\ ledger' = Recorded(i, "perp_open")
      /\ arbs' = [arbs EXCEPT ![deal] = NewArb]
      /\ late' = IF kernel.halted THEN late + 1 ELSE 0
      /\ UNCHANGED <<kernelVars, live, todo, faults, restarts>>
  BY DEF RecordPerpOpen
<1>2. /\ deal \in Allowed /\ arbs[deal] = NoArb /\ (kernel.halted => late = 0)
      /\ i \in DOMAIN ledger
      /\ ledger[i] = [symbol |-> deal, fills |-> {"spot_open"}]
  BY <1>1, RowSets DEF ArbInv, Opening
<1>3. /\ ledger' \in Seq(RowType) /\ DOMAIN ledger' = DOMAIN ledger
      /\ \A j \in DOMAIN ledger : j # i => ledger'[j] = ledger[j]
      /\ ledger'[i].symbol = deal /\ ledger'[i].fills = {"spot_open", "perp_open"}
  <2>1. "perp_open" \in Legs
    BY DEF Legs
  <2>2. ledger[i].symbol = deal /\ ledger[i].fills \cup {"perp_open"} = {"spot_open", "perp_open"}
    BY <1>2
  <2>. HIDE DEF i
  <2>. QED
    BY <1>1, <1>2, <2>1, <2>2, RowChange DEF ArbInv
<1>4. /\ NewArb \in ArbType /\ NewArb.state \in {"opening", "open"} /\ NewArb.id = i
  BY RowSets DEF ArbInv, Types, NewArb, ArbType, ArbStates
<1>5. KernelShape' /\ Types'
  <2>1. arbs' \in [Allowed -> ArbType]
    BY <1>1, <1>4 DEF ArbInv, Types
  <2>2. late' \in Nat
    BY <1>1 DEF ArbInv, Types
  <2>. QED
    BY <1>1, <1>3, <2>1, <2>2 DEF ArbInv, KernelShape, Types, Busy, kernelVars
<1>6. Rows'
  <2>. SUFFICES ASSUME NEW s \in Allowed
       PROVE /\ arbs'[s].state = "none" => arbs'[s] = NoArb
             /\ arbs'[s] # NoArb => arbs'[s].id \in DOMAIN ledger' /\ ledger'[arbs'[s].id].symbol = s
             /\ arbs'[s].state \in {"opening", "open"} =>
                  ledger'[arbs'[s].id].fills = {"spot_open", "perp_open"}
             /\ arbs'[s].state \in {"closing", "closed"} => now' >= arbs'[s].opened + Day
             /\ arbs'[s].state = "closing" => "perp_close" \notin ledger'[arbs'[s].id].fills
    BY DEF Rows
  <2>1. CASE s = deal
    BY <1>1, <1>2, <1>3, <1>4, <2>1 DEF ArbInv, Types
  <2>2. CASE s # deal
    <3>1. arbs'[s] = arbs[s] /\ now' = now
      BY <1>1, <2>2 DEF ArbInv, Types, kernelVars
    <3>2. arbs[s] # NoArb => arbs[s].id # i
      BY <1>2, <2>2 DEF ArbInv, Rows
    <3>. QED
      BY <1>3, <3>1, <3>2 DEF ArbInv, Rows, NoArb
  <2>. QED
    BY <2>1, <2>2
<1>7. Opening' /\ Closing' /\ OneThroughPerHalt'
  BY <1>1, <1>2 DEF ArbInv, Opening, Closing, OneThroughPerHalt
<1>8. /\ Halves' = Halves \ {i} /\ i \in Halves
      /\ Closed' = Closed
      /\ \A s \in Allowed : OpenOn(s)' = OpenOn(s)
  <2>1. Closed' = Closed
    BY <1>2, <1>3 DEF Closed
  <2>2. Halves' = Halves \ {i} /\ i \in Halves
    <3>1. ~Half({"spot_open", "perp_open"}) /\ Half({"spot_open"})
      BY DEF Half
    <3>2. ledger[i].fills = {"spot_open"}
      BY <1>2
    <3>. HIDE DEF i
    <3>3. i \in Halves
      BY <1>2, <3>1, <3>2 DEF Halves
    <3>4. i \notin Halves'
      BY <1>3, <3>1 DEF Halves
    <3>5. ASSUME NEW j \in DOMAIN ledger, j # i PROVE j \in Halves' <=> j \in Halves
      BY <1>3, <3>5 DEF Halves
    <3>6. Halves \subseteq DOMAIN ledger /\ Halves' \subseteq DOMAIN ledger
      BY <1>3 DEF Halves
    <3>. QED
      BY <3>3, <3>4, <3>5, <3>6
  <2>. QED
    BY <1>2, <1>3, <2>1, <2>2 DEF OpenOn
<1>9. HalvesOwed'
  <2>1. Cardinality(Halves') = Cardinality(Halves) - 1
    BY <1>8, RowSets, FS_RemoveElement DEF ArbInv
  <2>. QED
    BY <1>1, <2>1, RowSets DEF ArbInv, Types, HalvesOwed
<1>10. Booking'
  BY <1>1, <1>8 DEF ArbInv, Booking, kernelVars
<1>11. Exposure'
  <2>1. \A s \in Allowed : Answered(s)' = Answered(s)
    BY <1>1, <1>2, <1>4 DEF ArbInv, Types, Answered, NoArb
  <2>. QED
    BY <1>1, <1>8, <2>1 DEF ArbInv, Exposure
<1>. QED
  BY <1>5, <1>6, <1>7, <1>9, <1>10, <1>11 DEF ArbInv

-----------------------------------------------------------------------------
(* close_arb: the arb leaves OPEN, two legs are written, the result is booked. *)

\* The tickers read before a close keep the invariant.
LEMMA TickersCloseStep == ASSUME ArbInv, TickersForClose PROVE ArbInv'
<1>1. /\ at = "closeFetch" /\ at' = "closeSpot"
      /\ arbs' = [arbs EXCEPT ![deal].state = "closing"]
      /\ UNCHANGED <<kernelVars, live, ledger, todo, deal, boundVars>>
  BY DEF TickersForClose
<1>2. /\ deal \in Allowed /\ arbs[deal].state = "open" /\ now >= arbs[deal].opened + Day
      /\ arbs[deal] \in ArbType /\ arbs[deal] # NoArb
  BY <1>1 DEF ArbInv, Closing, Types, NoArb
<1>3. /\ arbs'[deal].state = "closing" /\ arbs'[deal].id = arbs[deal].id
      /\ arbs'[deal].opened = arbs[deal].opened /\ arbs'[deal] \in ArbType
      /\ \A s \in Allowed : s # deal => arbs'[s] = arbs[s]
      /\ arbs' \in [Allowed -> ArbType]
  BY <1>1, <1>2 DEF ArbInv, Types, ArbType, ArbStates
<1>4. KernelShape' /\ Types'
  BY <1>1, <1>3 DEF ArbInv, KernelShape, Types, Busy, kernelVars, boundVars
<1>5. /\ arbs[deal].id \in DOMAIN ledger /\ ledger[arbs[deal].id].symbol = deal
      /\ ledger[arbs[deal].id].fills = {"spot_open", "perp_open"}
  BY <1>2 DEF ArbInv, Rows
<1>6. Rows'
  <2>. SUFFICES ASSUME NEW s \in Allowed
       PROVE /\ arbs'[s].state = "none" => arbs'[s] = NoArb
             /\ arbs'[s] # NoArb => arbs'[s].id \in DOMAIN ledger' /\ ledger'[arbs'[s].id].symbol = s
             /\ arbs'[s].state \in {"opening", "open"} =>
                  ledger'[arbs'[s].id].fills = {"spot_open", "perp_open"}
             /\ arbs'[s].state \in {"closing", "closed"} => now' >= arbs'[s].opened + Day
             /\ arbs'[s].state = "closing" => "perp_close" \notin ledger'[arbs'[s].id].fills
    BY DEF Rows
  <2>1. CASE s = deal
    BY <1>1, <1>2, <1>3, <1>5, <2>1 DEF kernelVars
  <2>2. CASE s # deal
    BY <1>1, <1>3, <2>2 DEF ArbInv, Rows, kernelVars
  <2>. QED
    BY <2>1, <2>2
<1>7. Opening' /\ Closing' /\ OneThroughPerHalt'
  BY <1>1, <1>2, <1>3, <1>5 DEF ArbInv, Opening, Closing, OneThroughPerHalt, boundVars
<1>8. HalvesOwed' /\ Booking'
  BY <1>1, RowsKept DEF ArbInv, HalvesOwed, Booking, kernelVars, boundVars
<1>9. Exposure'
  <2>1. \A s \in Allowed : Answered(s)' = Answered(s)
    BY <1>1, <1>2, <1>3 DEF Answered
  <2>. QED
    BY <1>1, <2>1, RowsKept DEF ArbInv, Exposure, boundVars
<1>. QED
  BY <1>4, <1>6, <1>7, <1>8, <1>9 DEF ArbInv

\* The row of an arb being closed belongs to no other arb.
LEMMA OwnRow ==
  ASSUME ArbInv, at \in {"closeSpot", "closePerp"}
  PROVE  /\ deal \in Allowed /\ arbs[deal].state = "closing" /\ arbs[deal] # NoArb
         /\ arbs[deal].id \in DOMAIN ledger /\ ledger[arbs[deal].id].symbol = deal
         /\ \A s \in Allowed : s # deal /\ arbs[s] # NoArb => arbs[s].id # arbs[deal].id
         /\ now >= arbs[deal].opened + Day
<1>1. deal \in Allowed /\ arbs[deal].state = "closing" /\ arbs[deal] # NoArb
  BY DEF ArbInv, Closing, NoArb
<1>. QED
  BY <1>1 DEF ArbInv, Rows

\* The answer to the spot exit keeps the invariant.
LEMMA SpotCloseStep == ASSUME ArbInv, RecordSpotClose PROVE ArbInv'
<1> DEFINE i == arbs[deal].id
<1>1. /\ at = "closeSpot" /\ at' = "closePerp" /\ ledger' = Recorded(i, "spot_close")
      /\ UNCHANGED <<kernelVars, live, arbs, todo, deal, boundVars>>
  BY DEF RecordSpotClose
<1>2. /\ deal \in Allowed /\ arbs[deal].state = "closing" /\ arbs[deal] # NoArb
      /\ i \in DOMAIN ledger /\ ledger[i].symbol = deal
      /\ \A s \in Allowed : s # deal /\ arbs[s] # NoArb => arbs[s].id # i
      /\ now >= arbs[deal].opened + Day
  BY <1>1, OwnRow
<1>3. ledger[i].fills = {"spot_open", "perp_open"}
  BY <1>1 DEF ArbInv, Closing
<1>4. /\ ledger' \in Seq(RowType) /\ DOMAIN ledger' = DOMAIN ledger
      /\ \A j \in DOMAIN ledger : j # i => ledger'[j] = ledger[j]
      /\ ledger'[i].symbol = deal
      /\ ledger'[i].fills = {"spot_open", "perp_open", "spot_close"}
  <2>1. "spot_close" \in Legs
    BY DEF Legs
  <2>2. ledger[i].fills \cup {"spot_close"} = {"spot_open", "perp_open", "spot_close"}
    BY <1>3
  <2>. HIDE DEF i
  <2>. QED
    BY <1>1, <1>2, <2>1, <2>2, RowChange DEF ArbInv
<1>5. KernelShape' /\ Types'
  BY <1>1, <1>4 DEF ArbInv, KernelShape, Types, Busy, kernelVars, boundVars
<1>6. Rows'
  <2>. SUFFICES ASSUME NEW s \in Allowed
       PROVE /\ arbs'[s].state = "none" => arbs'[s] = NoArb
             /\ arbs'[s] # NoArb => arbs'[s].id \in DOMAIN ledger' /\ ledger'[arbs'[s].id].symbol = s
             /\ arbs'[s].state \in {"opening", "open"} =>
                  ledger'[arbs'[s].id].fills = {"spot_open", "perp_open"}
             /\ arbs'[s].state \in {"closing", "closed"} => now' >= arbs'[s].opened + Day
             /\ arbs'[s].state = "closing" => "perp_close" \notin ledger'[arbs'[s].id].fills
    BY DEF Rows
  <2>1. CASE s = deal
    BY <1>1, <1>2, <1>4, <2>1 DEF kernelVars
  <2>2. CASE s # deal
    BY <1>1, <1>2, <1>4, <2>2 DEF ArbInv, Rows, NoArb, kernelVars
  <2>. QED
    BY <2>1, <2>2
<1>7. Opening' /\ Closing' /\ OneThroughPerHalt'
  BY <1>1, <1>2, <1>4 DEF ArbInv, Opening, Closing, OneThroughPerHalt, boundVars
<1>8. /\ Halves' = Halves \cup {i} /\ i \notin Halves
      /\ Closed' = Closed
      /\ \A s \in Allowed : OpenOn(s)' = OpenOn(s)
  <2>1. Closed' = Closed
    BY <1>2, <1>3, <1>4 DEF Closed
  <2>2. ~Half({"spot_open", "perp_open"}) /\ Half({"spot_open", "perp_open", "spot_close"})
    BY DEF Half
  <2>. HIDE DEF i
  <2>3. i \notin Halves
    BY <1>3, <2>2 DEF Halves
  <2>4. i \in Halves'
    BY <1>2, <1>4, <2>2 DEF Halves
  <2>5. ASSUME NEW j \in DOMAIN ledger, j # i PROVE j \in Halves' <=> j \in Halves
    BY <1>4, <2>5 DEF Halves
  <2>6. Halves \subseteq DOMAIN ledger /\ Halves' \subseteq DOMAIN ledger
    BY <1>4 DEF Halves
  <2>7. Halves' = Halves \cup {i}
    BY <2>4, <2>5, <2>6
  <2>8. \A s \in Allowed : OpenOn(s)' = OpenOn(s)
    BY <1>2, <1>4, <2>1 DEF OpenOn
  <2>. QED
    BY <2>1, <2>3, <2>7, <2>8
<1>9. HalvesOwed'
  <2>1. Cardinality(Halves') = Cardinality(Halves) + 1
    BY <1>8, RowSets, FS_AddElement DEF ArbInv
  <2>. QED
    BY <1>1, <2>1, RowSets DEF ArbInv, Types, HalvesOwed, boundVars
<1>10. Booking'
  BY <1>1, <1>8 DEF ArbInv, Booking, kernelVars, boundVars
<1>11. Exposure'
  <2>1. \A s \in Allowed : Answered(s)' = Answered(s)
    BY <1>1, <1>2 DEF Answered
  <2>. QED
    BY <1>1, <1>8, <2>1 DEF ArbInv, Exposure, boundVars
<1>. QED
  BY <1>5, <1>6, <1>7, <1>9, <1>10, <1>11 DEF ArbInv

\* The answer to the perp exit keeps the invariant.
LEMMA PerpCloseStep == ASSUME ArbInv, RecordPerpClose PROVE ArbInv'
<1> DEFINE i == arbs[deal].id
           all == {"spot_open", "perp_open", "spot_close", "perp_close"}
<1>1. /\ at = "closePerp" /\ at' = "settle" /\ ledger' = Recorded(i, "perp_close")
      /\ arbs' = [arbs EXCEPT ![deal].state = "closed"]
      /\ UNCHANGED <<kernelVars, live, todo, deal, boundVars>>
  BY DEF RecordPerpClose
<1>2. /\ deal \in Allowed /\ arbs[deal].state = "closing" /\ arbs[deal] # NoArb
      /\ i \in DOMAIN ledger /\ ledger[i].symbol = deal
      /\ \A s \in Allowed : s # deal /\ arbs[s] # NoArb => arbs[s].id # i
      /\ now >= arbs[deal].opened + Day
  BY <1>1, OwnRow
<1>3. ledger[i].fills = {"spot_open", "perp_open", "spot_close"}
  BY <1>1 DEF ArbInv, Closing
<1>4. /\ ledger' \in Seq(RowType) /\ DOMAIN ledger' = DOMAIN ledger
      /\ \A j \in DOMAIN ledger : j # i => ledger'[j] = ledger[j]
      /\ ledger'[i].symbol = deal
      /\ ledger'[i].fills = all
  <2>1. "perp_close" \in Legs
    BY DEF Legs
  <2>2. ledger[i].fills \cup {"perp_close"} = all
    BY <1>3
  <2>. HIDE DEF i, all
  <2>. QED
    BY <1>1, <1>2, <2>1, <2>2, RowChange DEF ArbInv
<1>5. /\ arbs'[deal].state = "closed" /\ arbs'[deal].id = i
      /\ arbs'[deal].opened = arbs[deal].opened
      /\ \A s \in Allowed : s # deal => arbs'[s] = arbs[s]
      /\ arbs' \in [Allowed -> ArbType]
  BY <1>1, <1>2 DEF ArbInv, Types, ArbType, ArbStates
<1>6. KernelShape' /\ Types'
  BY <1>1, <1>4, <1>5 DEF ArbInv, KernelShape, Types, Busy, kernelVars, boundVars
<1>7. Rows'
  <2>. SUFFICES ASSUME NEW s \in Allowed
       PROVE /\ arbs'[s].state = "none" => arbs'[s] = NoArb
             /\ arbs'[s] # NoArb => arbs'[s].id \in DOMAIN ledger' /\ ledger'[arbs'[s].id].symbol = s
             /\ arbs'[s].state \in {"opening", "open"} =>
                  ledger'[arbs'[s].id].fills = {"spot_open", "perp_open"}
             /\ arbs'[s].state \in {"closing", "closed"} => now' >= arbs'[s].opened + Day
             /\ arbs'[s].state = "closing" => "perp_close" \notin ledger'[arbs'[s].id].fills
    BY DEF Rows
  <2>1. CASE s = deal
    BY <1>1, <1>2, <1>4, <1>5, <2>1 DEF kernelVars
  <2>2. CASE s # deal
    BY <1>1, <1>2, <1>4, <1>5, <2>2 DEF ArbInv, Rows, NoArb, kernelVars
  <2>. QED
    BY <2>1, <2>2
<1>8. Opening' /\ Closing' /\ OneThroughPerHalt'
  BY <1>1, <1>2, <1>5 DEF ArbInv, Opening, Closing, OneThroughPerHalt, boundVars
<1>9. /\ Halves' = Halves \ {i} /\ i \in Halves
      /\ Closed' = Closed \cup {i} /\ i \notin Closed
      /\ \A s \in Allowed :
           /\ s = deal => OpenOn(s)' = OpenOn(s) \ {i} /\ i \in OpenOn(s)
           /\ s # deal => OpenOn(s)' = OpenOn(s)
  <2>1. ~Half(all) /\ Half({"spot_open", "perp_open", "spot_close"})
    BY DEF Half
  <2>2. "perp_close" \notin ledger[i].fills /\ "perp_close" \in ledger'[i].fills
    BY <1>3, <1>4
  <2>. HIDE DEF i, all
  <2>3. i \in Halves /\ i \notin Halves'
    BY <1>2, <1>3, <1>4, <2>1 DEF Halves
  <2>4. ASSUME NEW j \in DOMAIN ledger, j # i PROVE j \in Halves' <=> j \in Halves
    BY <1>4, <2>4 DEF Halves
  <2>5. Halves \subseteq DOMAIN ledger /\ Halves' \subseteq DOMAIN ledger
    BY <1>4 DEF Halves
  <2>6. Closed' = Closed \cup {i} /\ i \notin Closed
    BY <1>2, <1>4, <2>2 DEF Closed
  <2>7. \A s \in Allowed :
           /\ s = deal => OpenOn(s)' = OpenOn(s) \ {i} /\ i \in OpenOn(s)
           /\ s # deal => OpenOn(s)' = OpenOn(s)
    BY <1>2, <1>4, <2>6 DEF OpenOn
  <2>. QED
    BY <2>3, <2>4, <2>5, <2>6, <2>7
<1>10. HalvesOwed'
  <2>1. Cardinality(Halves') = Cardinality(Halves) - 1
    BY <1>9, RowSets, FS_RemoveElement DEF ArbInv
  <2>. QED
    BY <1>1, <2>1, RowSets DEF ArbInv, Types, HalvesOwed, boundVars
<1>11. Booking'
  <2>1. Cardinality(Closed') = Cardinality(Closed) + 1
    BY <1>9, RowSets, FS_AddElement DEF ArbInv
  <2>. QED
    BY <1>1, <2>1, RowSets DEF ArbInv, Types, Booking, kernelVars, boundVars
<1>12. Exposure'
  <2>. SUFFICES ASSUME NEW s \in Allowed
                PROVE  Cardinality(OpenOn(s))' <= (restarts + faults + Answered(s))'
    BY DEF Exposure
  <2>1. Cardinality(OpenOn(s)) <= restarts + faults + Answered(s)
    BY DEF ArbInv, Exposure
  <2>2. Cardinality(OpenOn(s)) \in Nat /\ IsFiniteSet(OpenOn(s))
    BY RowSets DEF ArbInv
  <2>3. CASE s = deal
    <3>1. Answered(s) = 1 /\ Answered(s)' = 0
      BY <1>1, <1>2, <1>5, <2>3 DEF Answered
    <3>2. OpenOn(s)' = OpenOn(s) \ {i} /\ i \in OpenOn(s)
      BY <1>9, <2>3
    <3>3. Cardinality(OpenOn(s)') = Cardinality(OpenOn(s)) - 1
      BY <2>2, <3>2, FS_RemoveElement
    <3>. QED
      BY <1>1, <2>1, <2>2, <3>1, <3>3 DEF ArbInv, Types, boundVars
  <2>4. CASE s # deal
    <3>1. Answered(s)' = Answered(s)
      BY <1>1, <1>5, <2>4 DEF Answered
    <3>. QED
      BY <1>1, <1>9, <2>1, <2>4, <3>1 DEF boundVars
  <2>. QED
    BY <2>3, <2>4
<1>. QED
  BY <1>6, <1>7, <1>8, <1>10, <1>11, <1>12 DEF ArbInv

\* Booking a closed arbitrage keeps the invariant.
LEMMA SettleStep == ASSUME ArbInv, NEW pnl \in Pnls, Settle(pnl) PROVE ArbInv'
<1>1. /\ at = "settle" /\ at' \in {"idle", "next"} /\ Kernel!RecordTradeOutcome(pnl)
      /\ arbs' = arbs \/ arbs' = [arbs EXCEPT ![deal] = NoArb]
      /\ late' = 0 \/ late' = late
      /\ UNCHANGED <<live, ledger, faults, restarts>>
  BY DEF Settle
<1>2. KernelShape' /\ outcomes' = outcomes + 1 /\ UNCHANGED now
  BY <1>1, OutcomeCall DEF ArbInv
<1>3. deal \in Allowed /\ arbs[deal].state = "closed"
  BY <1>1 DEF ArbInv, Closing
<1>4. \A s \in Allowed : arbs'[s] = arbs[s] \/ (s = deal /\ arbs'[s] = NoArb)
  BY <1>1 DEF ArbInv, Types
<1>5. Types'
  <2>1. NoArb \in ArbType
    BY DEF NoArb, ArbType, ArbStates
  <2>2. arbs' \in [Allowed -> ArbType]
    BY <1>1, <2>1 DEF ArbInv, Types
  <2>. QED
    BY <1>1, <1>2, <2>2 DEF ArbInv, Types, Awaits, Busy
<1>6. Rows'
  BY <1>1, <1>2, <1>4 DEF ArbInv, Rows, NoArb
<1>7. Opening' /\ Closing' /\ OneThroughPerHalt'
  BY <1>1 DEF ArbInv, Opening, Closing, OneThroughPerHalt
<1>8. HalvesOwed' /\ Booking'
  BY <1>1, <1>2, RowsKept, RowSets DEF ArbInv, Types, HalvesOwed, Booking
<1>9. Exposure'
  <2>1. \A s \in Allowed : Answered(s)' = Answered(s)
    BY <1>1, <1>3, <1>4 DEF Answered, NoArb
  <2>. QED
    BY <1>1, <2>1, RowsKept DEF ArbInv, Exposure
<1>. QED
  BY <1>2, <1>5, <1>6, <1>7, <1>8, <1>9 DEF ArbInv

\* A step of nothing keeps the invariant.
LEMMA StutterArb == ASSUME ArbInv, UNCHANGED vars PROVE ArbInv'
<1>1. /\ UNCHANGED <<now, kernel, file, outcomes, arbs, ledger, at, deal, late, faults, restarts>>
  BY DEF vars, kernelVars, boundVars
<1>2. KernelShape' /\ Types' /\ Rows'
  BY <1>1 DEF ArbInv, KernelShape, Types, Rows
<1>3. Opening' /\ Closing' /\ OneThroughPerHalt'
  BY <1>1 DEF ArbInv, Opening, Closing, OneThroughPerHalt
<1>4. HalvesOwed' /\ Booking'
  BY <1>1, RowsKept DEF ArbInv, HalvesOwed, Booking
<1>5. Exposure'
  BY <1>1, RowsKept DEF ArbInv, Exposure, Answered
<1>. QED
  BY <1>2, <1>3, <1>4, <1>5 DEF ArbInv

\* Every step keeps the invariant.
LEMMA StepArb == ArbInv /\ [Next]_vars => ArbInv'
<1>. SUFFICES ASSUME ArbInv, [Next]_vars PROVE ArbInv'
  OBVIOUS
<1>1. CASE \/ JobStart \/ EndCycle \/ Skip \/ BeginClose \/ FetchFails \/ TickersForOpen
           \/ \E list \in RateLists : RatesArrive(list)
  BY <1>1, CycleSteps
<1>2. CASE AskKernel \/ Command \/ Tick
  BY <1>2, AskKernelStep, CommandStep, TickStep
<1>3. CASE WriteFails \/ ProcessRestart
  BY <1>3, WriteFailsStep, RestartStep
<1>4. CASE \E ticks \in HaltTicks : Halt(ticks)
  BY <1>4, HaltStep
<1>5. CASE RecordSpotOpen \/ RecordPerpOpen
  BY <1>5, SpotOpenStep, PerpOpenStep
<1>6. CASE TickersForClose \/ RecordSpotClose \/ RecordPerpClose
  BY <1>6, TickersCloseStep, SpotCloseStep, PerpCloseStep
<1>7. CASE \E pnl \in Pnls : Settle(pnl)
  BY <1>7, SettleStep
<1>8. CASE UNCHANGED vars
  BY <1>8, StutterArb
<1>. QED
  BY <1>1, <1>2, <1>3, <1>4, <1>5, <1>6, <1>7, <1>8 DEF Next

-----------------------------------------------------------------------------
(* Theorems.                                                               *)

\* The inductive invariant holds of every behaviour of the job, the commands, the
\* clock and the restarts.
THEOREM ArbInvariant == Spec => []ArbInv
  BY InitArb, StepArb, PTL DEF Spec

\* For any rates, any failed writes and any restarts: an arb held as open stands in
\* the ledger with both opening legs and no closing one (open_arb registers it last,
\* close_arb leaves OPEN first).
THEOREM HedgedAlways == Spec => []TrackedIsHedged
<1>1. ArbInv => TrackedIsHedged
  <2>. SUFFICES ASSUME ArbInv, NEW s \in Allowed, arbs[s].state \in {"opening", "open"}
                PROVE  ledger[arbs[s].id] = [symbol |-> s, fills |-> {"spot_open", "perp_open"}]
    BY DEF TrackedIsHedged
  <2>1. /\ arbs[s].id \in DOMAIN ledger /\ ledger[arbs[s].id].symbol = s
        /\ ledger[arbs[s].id].fills = {"spot_open", "perp_open"}
    BY DEF ArbInv, Rows, NoArb
  <2>2. ledger[arbs[s].id] \in RowType
    BY <2>1 DEF ArbInv, Types
  <2>. QED
    BY <2>1, <2>2 DEF RowType
<1>. QED
  BY <1>1, ArbInvariant, PTL

\* However many arbs are opened, no path of open_arb or close_arb leaves a naked leg:
\* whenever the job waits, the one-legged arbs are at most the writes that failed and
\* the restarts.
THEOREM NakedLegsNeedFaults == Spec => []UnhedgedNeedsFault
<1>1. ArbInv => UnhedgedNeedsFault
  <2>. SUFFICES ASSUME ArbInv, at \in Awaits
                PROVE  Cardinality(Halves) <= faults + restarts
    BY DEF UnhedgedNeedsFault, AtAwait, Halves
  <2>1. at \notin {"openPerp", "closePerp"}
    BY DEF Awaits
  <2>. QED
    BY <2>1 DEF ArbInv, HalvesOwed, Types
<1>. QED
  BY <1>1, ArbInvariant, PTL

\* A halt lets through at most the one opening that approve_trade had granted when it
\* struck, whoever called the halt.
THEOREM HaltLetsOneThrough == Spec => []OneThroughPerHalt
<1>1. ArbInv => OneThroughPerHalt
  BY DEF ArbInv
<1>. QED
  BY <1>1, ArbInvariant, PTL

\* The kernel's count of outcomes is the ledger's count of closed arbs, but for the
\* result of the arb being settled and those a restart lost: close_arb books each
\* closed arb once.
THEOREM ClosesAreBooked == Spec => []OutcomesMatchCloses
<1>1. ArbInv => OutcomesMatchCloses
  BY RowSets DEF ArbInv, Types, Booking, OutcomesMatchCloses
<1>. QED
  BY <1>1, ArbInvariant, PTL

\* A symbol never has more than one open arb in the ledger but for those that a
\* restart or a failed write orphaned.
THEOREM ExposureAlwaysBounded == Spec => []ExposureBounded
<1>1. ArbInv => ExposureBounded
  <2>. SUFFICES ASSUME ArbInv, NEW s \in Allowed
                PROVE  Cardinality(OpenOn(s)) <= 1 + restarts + faults
    BY DEF ExposureBounded
  <2>1. Cardinality(OpenOn(s)) <= restarts + faults + Answered(s) /\ Answered(s) \in {0, 1}
    BY DEF ArbInv, Exposure, Answered
  <2>2. Cardinality(OpenOn(s)) \in Nat /\ restarts \in Nat /\ faults \in Nat
    BY RowSets DEF ArbInv, Types
  <2>. QED
    BY <2>1, <2>2
<1>. QED
  BY <1>1, ArbInvariant, PTL

\* No closing leg is sold before the arb has been held for 24 hours: the age that
\* should_close checked still holds when the tickers have been awaited.
THEOREM NeverClosedEarly == Spec => NoEarlyClose
<1>1. ArbInv => [\A s \in Allowed :
                   arbs[s].state = "closing" /\ ledger' # ledger /\ deal = s
                     => now >= arbs[s].opened + Day]_vars
  BY DEF ArbInv, Rows
<1>. QED
  BY <1>1, ArbInvariant, PTL DEF NoEarlyClose

\* The job, the commands and the clock reach the kernel by its own operations only, so
\* every behaviour of the whole is one of the kernel, and what RiskKernelProofs shows
\* of the kernel holds of it here.
THEOREM DrivesKernel == Spec => Kernel!Spec
<1>1. Init => Kernel!Init
  BY DEF Init
<1>2. [Next]_vars => [Kernel!Next]_(Kernel!vars)
  <2>. SUFFICES ASSUME [Next]_vars PROVE Kernel!Next \/ UNCHANGED kernelVars
    BY DEF kernelVars, Kernel!vars
  <2>1. CASE AskKernel
    BY <2>1, KernelAssumption DEF AskKernel, Kernel!Next
  <2>2. CASE \E pnl \in Pnls : Settle(pnl)
    BY <2>2 DEF Settle, Kernel!Next
  <2>3. CASE \E ticks \in HaltTicks : Halt(ticks)
    BY <2>3 DEF Halt, Kernel!Next
  <2>4. CASE Command \/ ProcessRestart \/ Tick
    BY <2>4 DEF Command, ProcessRestart, Tick, Kernel!Next
  <2>5. CASE \/ JobStart \/ EndCycle \/ Skip \/ BeginClose \/ FetchFails \/ TickersForOpen
             \/ \E list \in RateLists : RatesArrive(list)
    BY <2>5 DEF JobStart, EndCycle, Skip, BeginClose, FetchFails, TickersForOpen, RatesArrive
  <2>6. CASE RecordSpotOpen \/ RecordPerpOpen \/ WriteFails
    BY <2>6 DEF RecordSpotOpen, RecordPerpOpen, WriteFails
  <2>7. CASE TickersForClose \/ RecordSpotClose \/ RecordPerpClose
    BY <2>7 DEF TickersForClose, RecordSpotClose, RecordPerpClose
  <2>8. CASE UNCHANGED vars
    BY <2>8 DEF vars
  <2>. QED
    BY <2>1, <2>2, <2>3, <2>4, <2>5, <2>6, <2>7, <2>8 DEF Next
<1>. QED
  BY <1>1, <1>2, PTL DEF Spec, Kernel!Spec

-----------------------------------------------------------------------------
(* The kernel's theorems hold of the kernel the arb drives.  RiskKernelProofs      *)
(* extends RiskKernel; instantiated with the variables of this module it speaks of *)
(* the same kernel as Kernel does, definition by definition.                       *)

Proved == INSTANCE RiskKernelProofs

\* What is assumed of the kernel here is what its proofs assume of it.
LEMMA SameAssumptions ==
  Proved!MoneyAssumption /\ Proved!TimeAssumption /\ Proved!RequestAssumption
  BY KernelAssumption
  DEF Kernel!MoneyAssumption, Kernel!TimeAssumption, Kernel!RequestAssumption,
      Kernel!RequestType, Kernel!Stresses, Proved!MoneyAssumption,
      Proved!TimeAssumption, Proved!RequestAssumption, Proved!RequestType,
      Proved!Stresses

\* The queries and the approval are the same steps under both names.
LEMMA SameQueries ==
  /\ \A r \in Requests : Kernel!ApproveTrade(r) <=> Proved!ApproveTrade(r)
  /\ Kernel!GetStatus <=> Proved!GetStatus
  /\ Kernel!IsTradingAllowed <=> Proved!IsTradingAllowed
  BY DEF Kernel!ApproveTrade, Proved!ApproveTrade, Kernel!GetStatus, Proved!GetStatus,
         Kernel!IsTradingAllowed, Proved!IsTradingAllowed, Kernel!MaybeResetPeriods,
         Proved!MaybeResetPeriods, Kernel!DailyReset, Proved!DailyReset,
         Kernel!WeeklyReset, Proved!WeeklyReset, Kernel!NextMidnight,
         Proved!NextMidnight, Kernel!NextMonday, Proved!NextMonday,
         Kernel!CheckKillswitch, Proved!CheckKillswitch, Kernel!HaltExpired,
         Proved!HaltExpired, Kernel!Resumed, Proved!Resumed, Kernel!Verdict,
         Proved!Verdict, Kernel!WellFormed, Proved!WellFormed, Kernel!SizeFor,
         Proved!SizeFor, Kernel!Least, Proved!Least, Kernel!RiskBps, Proved!RiskBps,
         Kernel!OverLeveraged, Proved!OverLeveraged, Kernel!MinOrder, Proved!MinOrder,
         Kernel!Answer, Proved!Answer

\* So are the reports of outcomes and of balances.
LEMMA SameReports ==
  /\ \A pnl \in Pnls : Kernel!RecordTradeOutcome(pnl) <=> Proved!RecordTradeOutcome(pnl)
  /\ \A b \in Balances :
       Kernel!UpdateEquityFromExternal(b) <=> Proved!UpdateEquityFromExternal(b)
  BY DEF Kernel!RecordTradeOutcome, Proved!RecordTradeOutcome,
         Kernel!UpdateEquityFromExternal, Proved!UpdateEquityFromExternal,
         Kernel!Booked, Proved!Booked, Kernel!Reconciled, Proved!Reconciled,
         Kernel!EvaluateKillswitches, Proved!EvaluateKillswitches, Kernel!Breached,
         Proved!Breached, Kernel!Loss, Proved!Loss, Kernel!Reaches, Proved!Reaches,
         Kernel!DailyBreach, Proved!DailyBreach, Kernel!WeeklyBreach,
         Proved!WeeklyBreach, Kernel!TotalBreach, Proved!TotalBreach,
         Kernel!LosingStreak, Proved!LosingStreak, Kernel!TriggerHalt,
         Proved!TriggerHalt, Kernel!NextMidnight, Proved!NextMidnight, Kernel!SaveState,
         Proved!SaveState, Kernel!Answer, Proved!Answer

\* So are the operator's two commands.
LEMMA SameCommands ==
  /\ \A h \in HaltTicks : Kernel!ManualHalt(h) <=> Proved!ManualHalt(h)
  /\ Kernel!ManualResume <=> Proved!ManualResume
  BY DEF Kernel!ManualHalt, Proved!ManualHalt, Kernel!ManualResume, Proved!ManualResume,
         Kernel!TriggerHalt, Proved!TriggerHalt, Kernel!Resumed, Proved!Resumed,
         Kernel!SaveState, Proved!SaveState, Kernel!Answer, Proved!Answer

\* So are its start, its deaths and the clock.
LEMMA SameLife ==
  /\ Kernel!Init <=> Proved!Init
  /\ Kernel!Restart <=> Proved!Restart
  /\ Kernel!DieWhileSaving <=> Proved!DieWhileSaving
  /\ Kernel!Tick <=> Proved!Tick
  BY DEF Kernel!Init, Proved!Init, Kernel!Restart, Proved!Restart,
         Kernel!DieWhileSaving, Proved!DieWhileSaving, Kernel!Tick, Proved!Tick,
         Kernel!Fresh, Proved!Fresh, Kernel!LoadState, Proved!LoadState,
         Kernel!Unreadable, Proved!Unreadable, Kernel!NextMidnight, Proved!NextMidnight,
         Kernel!NextMonday, Proved!NextMonday, Kernel!Answer, Proved!Answer

\* Every behaviour of the composition is one of the specification RiskKernelProofs
\* proves things about.
THEOREM KernelIsProved == Spec => Proved!Spec
<1>1. Kernel!Init => Proved!Init
  BY SameLife
<1>2. [Kernel!Next]_(Kernel!vars) => [Proved!Next]_(Proved!vars)
  <2>1. Kernel!Next => Proved!Next
    BY SameQueries, SameReports, SameCommands, SameLife DEF Kernel!Next, Proved!Next
  <2>2. Kernel!vars = Proved!vars /\ (UNCHANGED Kernel!vars => UNCHANGED Proved!vars)
    BY DEF Kernel!vars, Proved!vars
  <2>. QED
    BY <2>1, <2>2
<1>. QED
  BY <1>1, <1>2, DrivesKernel, PTL DEF Kernel!Spec, Proved!Spec

\* While the arb opens, settles and is restarted, and commands arrive between its
\* awaits: the kernel's books balance, every halt is served in full, nothing is granted
\* inside one or beyond the limits, and a day's loss of 5% is not traded on.
THEOREM KernelKeepsItsWord ==
  Spec => [](/\ Kernel!Accounting /\ Kernel!HaltHonoured
             /\ Kernel!GrantWithinLimits /\ Kernel!DailyLimitStops)
<1>1. Spec => [](/\ Proved!Accounting /\ Proved!HaltHonoured
                 /\ Proved!GrantWithinLimits /\ Proved!DailyLimitStops)
  BY KernelIsProved, SameAssumptions, Proved!BooksBalance, Proved!HaltsAreServed,
     Proved!GrantsAreLimited, Proved!DailyLimitHolds, PTL
<1>2. /\ Proved!Accounting <=> Kernel!Accounting
      /\ Proved!HaltHonoured <=> Kernel!HaltHonoured
  BY DEF Kernel!Accounting, Kernel!HaltHonoured, Proved!Accounting, Proved!HaltHonoured
<1>3. /\ Proved!GrantWithinLimits <=> Kernel!GrantWithinLimits
      /\ Proved!DailyLimitStops <=> Kernel!DailyLimitStops
  BY DEF Kernel!GrantWithinLimits, Proved!GrantWithinLimits, Kernel!Granted,
         Proved!Granted, Kernel!MinOrder, Proved!MinOrder, Kernel!DailyLimitStops,
         Proved!DailyLimitStops, Kernel!DailyBreach, Proved!DailyBreach, Kernel!Reaches,
         Proved!Reaches, Kernel!Loss, Proved!Loss
<1>. QED
  BY <1>1, <1>2, <1>3, PTL

\* Every third loss in a row that the arb's settlements report leaves the kernel halted
\* for at least a day, whatever the operator and the clock did between them.
THEOREM StreaksHaltArbs == Spec => Kernel!StreakHalts
<1>1. Spec => Proved!StreakHalts
  BY KernelIsProved, SameAssumptions, Proved!StreaksHalt, PTL
<1>2. [\A pnl \in Pnls :
         Proved!RecordTradeOutcome(pnl) /\ pnl < 0 /\ kernel.losses >= 2
         /\ kernel'.current # 0 => kernel'.halted /\ kernel'.until >= now + Day]_(Proved!vars)
      => [\A pnl \in Pnls :
            Kernel!RecordTradeOutcome(pnl) /\ pnl < 0 /\ kernel.losses >= 2
            /\ kernel'.current # 0
              => kernel'.halted /\ kernel'.until >= now + Day]_(Kernel!vars)
  BY SameReports DEF Kernel!vars, Proved!vars
<1>. QED
  BY <1>1, <1>2, PTL DEF Kernel!StreakHalts, Proved!StreakHalts

\* The composition implements the abstract circuit breaker through its kernel.
THEOREM ArbSeesBreaker == Spec => Proved!ImplementsBreaker
  BY KernelIsProved, SameAssumptions, Proved!KernelIsBreaker, PTL

\* What the cycle holds between its awaits: the rates it has not considered yet, and
\* the symbol it is dealing with.
Cycling ==
  /\ live \in LiveModes
  /\ todo \in Seq(Quotes)
  /\ deal \in Allowed \cup {"none"}

\* Each step takes rates off the list it was given, or drops the list.
LEMMA CyclingStep == Cycling /\ [Next]_vars => Cycling'
<1>. SUFFICES ASSUME Cycling, [Next]_vars PROVE Cycling'
  OBVIOUS
<1>1. todo # <<>> => Tail(todo) \in Seq(Quotes) /\ Head(todo) \in Quotes
  BY DEF Cycling
<1>2. CASE Skip \/ AskKernel \/ BeginClose
  <2>1. todo # <<>> /\ todo' = Tail(todo) /\ live' = live
    BY <1>2 DEF Skip, AskKernel, BeginClose
  <2>2. \/ deal' = deal
        \/ deal' = Head(todo).symbol /\ Head(todo).symbol \in Allowed
    <3>1. CASE Skip
      BY <3>1 DEF Skip
    <3>2. CASE AskKernel
      BY <3>2 DEF AskKernel, ShouldOpen
    <3>3. CASE BeginClose
      BY <3>3 DEF BeginClose, Tracked
    <3>. QED
      BY <1>2, <3>1, <3>2, <3>3
  <2>. QED
    BY <1>1, <2>1, <2>2 DEF Cycling
<1>3. CASE \E list \in RateLists : RatesArrive(list)
  <2>1. PICK list \in RateLists : RatesArrive(list)
    BY <1>3
  <2>2. todo' = list /\ live' = live /\ deal' = deal
    BY <2>1 DEF RatesArrive
  <2>3. list \in Seq(Quotes)
    BY ArbAssumption
  <2>. QED
    BY <2>2, <2>3 DEF Cycling
<1>4. CASE \/ JobStart \/ EndCycle \/ FetchFails \/ TickersForOpen \/ RecordSpotOpen
           \/ RecordPerpOpen \/ TickersForClose \/ RecordSpotClose \/ RecordPerpClose
  BY <1>4 DEF Cycling, JobStart, EndCycle, FetchFails, TickersForOpen, RecordSpotOpen,
              RecordPerpOpen, TickersForClose, RecordSpotClose, RecordPerpClose
<1>5. CASE WriteFails \/ ProcessRestart \/ \E pnl \in Pnls : Settle(pnl)
  <2>1. live' = live /\ deal' = "none" /\ (todo' = todo \/ todo' = <<>>)
    BY <1>5 DEF WriteFails, ProcessRestart, Settle
  <2>2. <<>> \in Seq(Quotes)
    OBVIOUS
  <2>3. todo' \in Seq(Quotes)
    BY <2>1, <2>2 DEF Cycling
  <2>. QED
    BY <2>1, <2>3 DEF Cycling
<1>6. CASE Command \/ Tick \/ \E ticks \in HaltTicks : Halt(ticks)
  <2>1. UNCHANGED <<live, deal, todo>>
    BY <1>6 DEF Command, Tick, Halt
  <2>. QED
    BY <2>1 DEF Cycling
<1>7. CASE UNCHANGED vars
  BY <1>7 DEF Cycling, vars
<1>. QED
  BY <1>2, <1>3, <1>4, <1>5, <1>6, <1>7 DEF Next

\* Kernel, file and replies keep their types, and so do the arbs, the ledger and the
\* job's program counter, at every await.
THEOREM ArbTypes == Spec => []TypeOK
<1>1. Spec => []Proved!TypeOK
  BY KernelIsProved, SameAssumptions, Proved!TypeCorrect, PTL
<1>2. Proved!TypeOK <=> Kernel!TypeOK
  BY DEF Kernel!TypeOK, Proved!TypeOK, Kernel!KernelState, Proved!KernelState,
         Kernel!Unreadable, Proved!Unreadable, Kernel!ReplyType, Proved!ReplyType,
         Kernel!Decisions, Proved!Decisions, Kernel!Reasons, Proved!Reasons
<1>3. Init => Cycling
  BY DEF Init, Cycling
<1>4. ArbInv /\ Kernel!TypeOK /\ Cycling => TypeOK
  <2>. SUFFICES ASSUME ArbInv, Kernel!TypeOK, Cycling PROVE TypeOK
    OBVIOUS
  <2>1. ASSUME NEW s \in Allowed PROVE arbs[s].id \in 0 .. Len(ledger)
    <3>1. arbs[s] = NoArb \/ arbs[s].id \in DOMAIN ledger
      BY DEF ArbInv, Rows
    <3>2. ledger \in Seq(RowType)
      BY DEF ArbInv, Types
    <3>. QED
      BY <3>1, <3>2 DEF NoArb
  <2>2. arbs \in [Allowed -> [state : ArbStates, id : 0 .. Len(ledger), opened : Nat]]
    BY <2>1 DEF ArbInv, Types, ArbType
  <2>. QED
    BY <2>2 DEF ArbInv, Types, RowType, Cycling, TypeOK
<1>. QED
  BY <1>1, <1>2, <1>3, <1>4, ArbInvariant, CyclingStep, PTL DEF Spec
=============================================================================
