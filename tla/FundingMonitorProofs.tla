------------------------ MODULE FundingMonitorProofs ------------------------
(***************************************************************************)
(* Theorems about FundingMonitor for every list of symbols, every length   *)
(* of the hour, the day and the settlement, and any number of failures:    *)
(* alerts are paced and never stand alone, and the history has no gap      *)
(* while the process restarts less often than a settlement has ticks.      *)
(***************************************************************************)
EXTENDS FundingMonitor, TLAPS

-----------------------------------------------------------------------------
(* The inductive invariant, conjunct by conjunct.                          *)

Asking == [at : DOMAIN Symbols, awaits : {"rate"}]
Pricing == [at : DOMAIN Symbols, awaits : {"ticker"}, sample : SampleType]

Types ==
  /\ now \in Nat
  /\ fetcher \in [Fetchers -> {Idle} \cup Asking \cup Pricing]
  /\ began \in [Fetchers -> Nat \cup {-1}]
  /\ rates \in [SymbolSet -> Seq(SampleType)]
  /\ alerts \in [SymbolSet -> Seq(AlertType)]
  /\ faults \subseteq SymbolSet \X Nat
  /\ restarts \in 0 .. MaxRestarts

\* The loop began its sweep in this tick or in the one before.
LoopPaced == began["loop"] \in {now - 1, now}

\* A rate waiting for its ticker was read in the settlement the sweep began in, or in
\* this one; fetch_once asks for no ticker.
SampleFresh ==
  /\ fetcher["loop"] \in Pricing =>
       fetcher["loop"].sample.settlement \in {SettlementAt(began["loop"]), SettlementAt(now)}
  /\ \A f \in Once : fetcher[f] \notin Pricing

Covered(s, k) == HasRow(s, k) \/ <<s, k>> \in faults
AllCovered(k) == \A s \in SymbolSet : Covered(s, k)

\* What the loop's sweep has passed is covered.
SweptTo(k) == \A i \in 1 .. fetcher["loop"].at - 1 : Covered(Symbols[i], k)

\* Ticks of the present settlement that are over.
Elapsed == now - Settlement * SettlementAt(now)

\* While a symbol has no sample of the present settlement, every tick of it but the one
\* whose sweep is under way was lost to a restart.
Progress ==
  LET k == SettlementAt(now)
  IN  \/ AllCovered(k)
      \/ fetcher["loop"] = Idle /\ began["loop"] < now /\ Elapsed <= restarts
      \/ fetcher["loop"] # Idle /\ began["loop"] = now /\ Elapsed <= restarts /\ SweptTo(k)
      \/ fetcher["loop"] # Idle /\ began["loop"] < now /\ Elapsed = 0
      \/ fetcher["loop"] # Idle /\ began["loop"] < now /\ Elapsed <= restarts + 1 /\ SweptTo(k)

Sweeping == Types /\ LoopPaced /\ SampleFresh /\ Progress /\ NoGapWithoutFault

-----------------------------------------------------------------------------
(* The calendar.                                                           *)

\* A quotient brackets its dividend, is the only one that does, and grows with it.
LEMMA Quotient ==
  ASSUME NEW d \in Nat \ {0}, NEW a \in Int
  PROVE  a \div d \in Int /\ d * (a \div d) <= a /\ a < d * (a \div d) + d
  OBVIOUS

\* Division by a positive number is monotone.
LEMMA QuotientGrows ==
  ASSUME NEW d \in Nat \ {0}, NEW a \in Int, NEW b \in Int, a <= b
  PROVE  a \div d <= b \div d
<1> DEFINE p == a \div d
           q == b \div d
<1>1. p \in Int /\ q \in Int /\ d * p <= a /\ b < d * q + d
  BY Quotient
<1>. HIDE DEF p, q
<1>2. d * p < d * (q + 1)
  BY <1>1
<1>3. p < q + 1
  <2>1. \A x \in Int, y \in Int : x >= y => d * x >= d * y
    OBVIOUS
  <2>. QED
    BY <1>1, <1>2, <2>1
<1>. QED
  BY <1>1, <1>3 DEF p, q

\* A tick stays in its settlement interval or begins the next one.
LEMMA SettlementSteps ==
  ASSUME now \in Nat
  PROVE  /\ SettlementAt(now) \in Nat
         /\ Elapsed \in Nat /\ Elapsed < Settlement
         /\ \/ /\ SettlementAt(now + 1) = SettlementAt(now)
               /\ now + 1 - Settlement * SettlementAt(now + 1) = Elapsed + 1
            \/ /\ SettlementAt(now + 1) = SettlementAt(now) + 1
               /\ now + 1 - Settlement * SettlementAt(now + 1) = 0
               /\ Elapsed = Settlement - 1
         /\ Elapsed >= 1 => SettlementAt(now - 1) = SettlementAt(now)
<1> DEFINE k == now \div Settlement
           n == (now + 1) \div Settlement
           m == (now - 1) \div Settlement
<1>0. Settlement \in Nat \ {0}
  BY MonitorAssumption
<1>1. /\ k \in Int /\ Settlement * k <= now /\ now < Settlement * k + Settlement
      /\ n \in Int /\ Settlement * n <= now + 1 /\ now + 1 < Settlement * n + Settlement
      /\ m \in Int /\ Settlement * m <= now - 1 /\ now - 1 < Settlement * m + Settlement
  BY <1>0, Quotient
<1>2. k \in Nat
  BY <1>0
<1>3. \A x \in Int, y \in Int : x > y => Settlement * x >= Settlement * y + Settlement
  BY <1>0
<1>4. k <= n /\ m <= k
  BY <1>0, QuotientGrows
<1>. HIDE DEF k, n, m
<1>5. n = k \/ (n = k + 1 /\ now + 1 = Settlement * n)
  <2>1. CASE n > k
    <3>1. Settlement * n >= Settlement * k + Settlement
      BY <1>1, <1>3, <2>1
    <3>2. Settlement * n = now + 1
      BY <1>0, <1>1, <3>1
    <3>3. ~(n > k + 1)
      <4>1. Settlement * (k + 1) = Settlement * k + Settlement
        BY <1>0, <1>1
      <4>. QED
        BY <1>0, <1>1, <1>3, <3>2, <4>1
    <3>. QED
      BY <1>1, <2>1, <3>2, <3>3
  <2>. QED
    BY <1>1, <1>4, <2>1
<1>6. now - Settlement * k >= 1 => m = k
  BY <1>0, <1>1, <1>3, <1>4
<1>7. n = k + 1 => Settlement * n = Settlement * k + Settlement
  BY <1>0, <1>1
<1>. QED
  BY <1>0, <1>1, <1>2, <1>5, <1>6, <1>7 DEF SettlementAt, Elapsed, k, n, m

-----------------------------------------------------------------------------
(* What is done with a sample.                                             *)

\* A fetcher at work is at one of the symbols.
LEMMA SymbolOf ==
  ASSUME NEW f \in Fetchers, Types, fetcher[f] \in Asking \cup Pricing
  PROVE  /\ Len(Symbols) \in Nat \ {0} /\ DOMAIN Symbols = 1 .. Len(Symbols)
         /\ fetcher[f].at \in 1 .. Len(Symbols) /\ AtSymbol(f) \in SymbolSet
<1>1. Len(Symbols) \in Nat /\ DOMAIN Symbols = 1 .. Len(Symbols)
  BY MonitorAssumption
<1>2. fetcher[f].at \in DOMAIN Symbols
  BY DEF Asking, Pricing
<1>. QED
  BY <1>1, <1>2 DEF AtSymbol, SymbolSet, Range

\* What a fetcher awaits says which answer it can be given.
LEMMA AwaitsKind ==
  ASSUME NEW f \in Fetchers, Types
  PROVE  /\ fetcher[f].awaits = "rate" => fetcher[f] \in Asking
         /\ fetcher[f].awaits = "ticker" => fetcher[f] \in Pricing
         /\ fetcher[f] # Idle => fetcher[f] \in Asking \cup Pricing
         /\ Idle \notin Asking /\ Idle \notin Pricing
<1>1. fetcher[f] \in {Idle} \cup Asking \cup Pricing
  BY DEF Types
<1>. QED
  BY <1>1 DEF Idle, Asking, Pricing

\* The sweep goes to the next symbol, or is over behind the last.
LEMMA SweepPlace ==
  ASSUME NEW f \in Fetchers, Types, fetcher[f] \in Asking \cup Pricing, NEW failed
  PROVE  /\ Sweep(f, failed) \in {Idle} \cup Asking
         /\ fetcher[f].at = Len(Symbols) => Sweep(f, failed) = Idle
         /\ fetcher[f].at # Len(Symbols) =>
              Sweep(f, failed) # Idle /\ Sweep(f, failed).at = fetcher[f].at + 1
<1>1. /\ Len(Symbols) \in Nat \ {0} /\ DOMAIN Symbols = 1 .. Len(Symbols)
      /\ fetcher[f].at \in 1 .. Len(Symbols)
  BY SymbolOf
<1>. QED
  BY <1>1 DEF Sweep, Asking, Idle

\* A stored sample is in the history, and nothing leaves it.
LEMMA StoredKeeps ==
  ASSUME Types, NEW s \in SymbolSet, NEW sample \in SampleType
  PROVE  /\ Stored(s, sample) \in Seq(SampleType)
         /\ \A k : HasRow(s, k) => \E i \in DOMAIN Stored(s, sample) :
                Stored(s, sample)[i].settlement = k
         /\ \E i \in DOMAIN Stored(s, sample) : Stored(s, sample)[i].settlement = sample.settlement
<1>1. rates[s] \in Seq(SampleType)
  BY DEF Types
<1>2. CASE HasRow(s, sample.settlement)
  BY <1>1, <1>2 DEF Stored, HasRow
<1>3. CASE ~HasRow(s, sample.settlement)
  <2>1. Stored(s, sample) = Append(rates[s], sample)
    BY <1>3 DEF Stored
  <2>2. /\ DOMAIN Append(rates[s], sample) = 1 .. Len(rates[s]) + 1
        /\ DOMAIN rates[s] = 1 .. Len(rates[s]) /\ Len(rates[s]) \in Nat
        /\ \A i \in 1 .. Len(rates[s]) : Append(rates[s], sample)[i] = rates[s][i]
        /\ Append(rates[s], sample)[Len(rates[s]) + 1] = sample
        /\ Append(rates[s], sample) \in Seq(SampleType)
    BY <1>1
  <2>3. \A k : HasRow(s, k) => \E i \in DOMAIN Append(rates[s], sample) :
            Append(rates[s], sample)[i].settlement = k
    BY <2>2 DEF HasRow
  <2>4. Len(rates[s]) + 1 \in DOMAIN Append(rates[s], sample)
    BY <2>2
  <2>. QED
    BY <2>1, <2>2, <2>3, <2>4
<1>. QED
  BY <1>2, <1>3

\* Alerts whose dates are past the look-up's are more than an hour old.
LEMMA UnseenIsOld ==
  ASSUME Types, NEW s \in SymbolSet, ~AlertedRecently(s), NEW i \in DOMAIN alerts[s]
  PROVE  now - alerts[s][i].at > Hour
<1>1. alerts[s][i].at \in Nat
  <2>1. alerts[s] \in Seq(AlertType)
    BY DEF Types
  <2>2. alerts[s][i] \in AlertType
    BY <2>1
  <2>. QED
    BY <2>2 DEF AlertType
<1>2. Day \in Nat \ {0} /\ Hour \in Nat /\ now - Hour \in Int
  BY MonitorAssumption DEF Types
<1>3. ~(DateOf(alerts[s][i].at) >= DateOf(now - Hour))
  BY DEF AlertedRecently
<1>4. now - Hour <= alerts[s][i].at => DateOf(now - Hour) <= DateOf(alerts[s][i].at)
  BY <1>1, <1>2, QuotientGrows DEF DateOf
<1>5. DateOf(alerts[s][i].at) \in Int /\ DateOf(now - Hour) \in Int
  BY <1>1, <1>2, Quotient DEF DateOf
<1>. QED
  BY <1>1, <1>2, <1>3, <1>4, <1>5 DEF Types

Paced(list) == \A i \in 1 .. Len(list) - 1 : list[i + 1].at - list[i].at > Hour

\* A new alert keeps the alerts of its symbol an hour apart (_maybe_emit_opportunity).
LEMMA AlertedPaced ==
  ASSUME Types, NEW s \in SymbolSet, NEW sample \in SampleType, Paced(alerts[s])
  PROVE  Alerted(s, sample) \in Seq(AlertType) /\ Paced(Alerted(s, sample))
<1>1. alerts[s] \in Seq(AlertType) /\ now \in Nat
  BY DEF Types
<1>2. CASE sample.severity = "none" \/ AlertedRecently(s)
  BY <1>1, <1>2 DEF Alerted
<1>3. CASE sample.severity # "none" /\ ~AlertedRecently(s)
  <2> DEFINE new == [at |-> now, settlement |-> sample.settlement, severity |-> sample.severity]
             list == Append(alerts[s], new)
  <2>1. new \in AlertType /\ new.at = now
    BY <1>1, <1>3 DEF SampleType, AlertType
  <2>. HIDE DEF new
  <2>2. /\ list \in Seq(AlertType) /\ Len(list) = Len(alerts[s]) + 1 /\ Len(alerts[s]) \in Nat
        /\ list[Len(alerts[s]) + 1] = new
        /\ \A i \in 1 .. Len(alerts[s]) : list[i] = alerts[s][i]
        /\ DOMAIN alerts[s] = 1 .. Len(alerts[s])
    BY <1>1, <2>1
  <2>3. Alerted(s, sample) = list
    BY <1>3 DEF Alerted, new
  <2>. HIDE DEF list
  <2>4. ASSUME NEW i \in 1 .. Len(list) - 1 PROVE list[i + 1].at - list[i].at > Hour
    <3>1. CASE i = Len(alerts[s])
      BY <1>3, <2>1, <2>2, <3>1, UnseenIsOld
    <3>2. CASE i # Len(alerts[s])
      BY <2>2, <3>2 DEF Paced
    <3>. QED
      BY <3>1, <3>2
  <2>. QED
    BY <2>2, <2>3, <2>4 DEF Paced
<1>. QED
  BY <1>2, <1>3

\* Handling a sample changes rows and alerts only, and loses no row.
LEMMA HandleEffect ==
  ASSUME Types, NEW s \in SymbolSet, NEW sample \in SampleType, NEW outcome,
         Handle(s, sample, outcome)
  PROVE  /\ rates' \in [SymbolSet -> Seq(SampleType)] /\ alerts' \in [SymbolSet -> Seq(AlertType)]
         /\ \A t \in SymbolSet : \A k : HasRow(t, k) => HasRow(t, k)'
<1>1. rates' = rates \/ rates' = [rates EXCEPT ![s] = Stored(s, sample)]
  BY DEF Handle
<1>2. rates' \in [SymbolSet -> Seq(SampleType)]
  <2>1. Stored(s, sample) \in Seq(SampleType)
    BY StoredKeeps
  <2>. QED
    BY <1>1, <2>1 DEF Types
<1>3. alerts' \in [SymbolSet -> Seq(AlertType)]
  <2>1. Alerted(s, sample) \in Seq(AlertType)
    <3>1. alerts[s] \in Seq(AlertType) /\ now \in Nat
      BY DEF Types
    <3>2. sample.severity # "none" =>
            [at |-> now, settlement |-> sample.settlement, severity |-> sample.severity] \in AlertType
      BY <3>1 DEF SampleType, AlertType
    <3>. QED
      BY <3>1, <3>2 DEF Alerted
  <2>. QED
    BY <2>1 DEF Handle, Types
<1>4. ASSUME NEW t \in SymbolSet, NEW k, HasRow(t, k) PROVE HasRow(t, k)'
  <2>1. CASE rates'[t] = rates[t]
    BY <1>4, <2>1 DEF HasRow
  <2>2. CASE t = s /\ rates'[s] = Stored(s, sample)
    <3>1. \E i \in DOMAIN Stored(s, sample) : Stored(s, sample)[i].settlement = k
      BY <1>4, <2>2, StoredKeeps
    <3>. QED
      BY <2>2, <3>1 DEF HasRow
  <2>. QED
    BY <1>1, <2>1, <2>2 DEF Types
<1>. QED
  BY <1>2, <1>3, <1>4

\* A handled sample has a row, unless storing it failed.
LEMMA HandleStores ==
  ASSUME Types, NEW s \in SymbolSet, NEW sample \in SampleType, NEW outcome,
         Handle(s, sample, outcome), outcome # "store fails", NEW k, k = sample.settlement
  PROVE  HasRow(s, k)'
<1>1. rates'[s] = Stored(s, sample)
  BY DEF Handle, Types
<1>2. \E i \in DOMAIN Stored(s, sample) : Stored(s, sample)[i].settlement = k
  BY StoredKeeps
<1>. QED
  BY <1>1, <1>2 DEF HasRow

\* What is done with a sample covers its settlement, by a row or by a fault.
LEMMA FinishEffect ==
  ASSUME Types, NEW f \in Fetchers, fetcher[f] \in Asking \cup Pricing,
         NEW s \in SymbolSet, s = AtSymbol(f),
         NEW sample \in SampleType, NEW outcome, Finish(f, sample, outcome)
  PROVE  /\ Types' /\ UNCHANGED <<now, began, restarts>>
         /\ \A t \in SymbolSet : \A k : Covered(t, k) => Covered(t, k)'
         /\ \A k : k = sample.settlement => Covered(s, k)'
         /\ \E failed : fetcher' = [fetcher EXCEPT ![f] = Sweep(f, failed)]
<1>1. /\ Handle(s, sample, outcome) /\ UNCHANGED <<now, began, restarts>>
      /\ fetcher' = [fetcher EXCEPT ![f] = Sweep(f, outcome # "ok")]
      /\ outcome = "store fails" => faults' = faults \cup {<<s, sample.settlement>>}
      /\ outcome # "store fails" => faults' = faults
  BY DEF Finish, Goto, Fault
<1>2. /\ rates' \in [SymbolSet -> Seq(SampleType)] /\ alerts' \in [SymbolSet -> Seq(AlertType)]
      /\ \A t \in SymbolSet : \A k : HasRow(t, k) => HasRow(t, k)'
  BY <1>1, HandleEffect
<1>3. faults \subseteq faults' /\ faults' \subseteq SymbolSet \X Nat
  <2>1. <<s, sample.settlement>> \in SymbolSet \X Nat
    BY DEF SampleType
  <2>2. faults' \in {faults, faults \cup {<<s, sample.settlement>>}}
    BY <1>1
  <2>. QED
    BY <2>1, <2>2 DEF Types
<1>4. Types'
  <2>1. Sweep(f, outcome # "ok") \in {Idle} \cup Asking
    BY SweepPlace
  <2>. QED
    BY <1>1, <1>2, <1>3, <2>1 DEF Types
<1>5. \A t \in SymbolSet : \A k : Covered(t, k) => Covered(t, k)'
  BY <1>2, <1>3 DEF Covered
<1>6. ASSUME NEW k, k = sample.settlement PROVE Covered(s, k)'
  <2>1. CASE outcome = "store fails"
    BY <1>1, <1>6, <2>1 DEF Covered
  <2>2. CASE outcome # "store fails"
    BY <1>1, <1>6, <2>2, HandleStores DEF Covered
  <2>. QED
    BY <2>1, <2>2
<1>. QED
  BY <1>1, <1>4, <1>5, <1>6

-----------------------------------------------------------------------------
(* The steps.                                                              *)

\* A sample taken now is one of the present settlement.
LEMMA SampleNow ==
  ASSUME now \in Nat, NEW severity \in Severities
  PROVE  Sample(severity) \in SampleType /\ Sample(severity).settlement = SettlementAt(now)
  BY SettlementSteps DEF Sample, SampleType

\* The two steps that do something with a sample do it with one that has its type.
LEMMA FinishCalls ==
  ASSUME Types,
         NEW f \in Fetchers, NEW outcome \in Outcomes,
         \/ f \in Once /\ \E severity \in Severities : FetchedOnce(f, severity, outcome)
         \/ f = "loop" /\ TickerOrNot(outcome)
  PROVE  /\ fetcher[f] \in Asking \cup Pricing
         /\ \E s \in SymbolSet, sample \in SampleType :
              /\ s = AtSymbol(f) /\ Finish(f, sample, outcome)
              /\ f = "loop" => fetcher["loop"] \in Pricing /\ sample = fetcher["loop"].sample
<1>1. CASE f \in Once /\ \E severity \in Severities : FetchedOnce(f, severity, outcome)
  <2>0. f # "loop"
    BY <1>1, MonitorAssumption
  <2>1. PICK severity \in Severities : FetchedOnce(f, severity, outcome)
    BY <1>1
  <2>2. fetcher[f].awaits = "rate" /\ Finish(f, Sample(severity), outcome)
    BY <1>1, <2>1 DEF FetchedOnce
  <2>3. fetcher[f] \in Asking /\ AtSymbol(f) \in SymbolSet /\ Sample(severity) \in SampleType
    BY <2>2, AwaitsKind, SymbolOf, SampleNow DEF Types
  <2>. QED
    BY <2>0, <2>2, <2>3
<1>2. CASE f = "loop" /\ TickerOrNot(outcome)
  <2>1. fetcher[f].awaits = "ticker" /\ Finish(f, fetcher[f].sample, outcome)
    BY <1>2 DEF TickerOrNot
  <2>2. fetcher[f] \in Pricing /\ AtSymbol(f) \in SymbolSet
    BY <2>1, AwaitsKind, SymbolOf
  <2>3. fetcher[f].sample \in SampleType
    BY <2>2 DEF Pricing
  <2>. QED
    BY <1>2, <2>1, <2>2, <2>3
<1>. QED
  BY <1>1, <1>2

\* Every step keeps the types.
LEMMA TypesNext == Types /\ [Next]_vars => Types'
<1>. SUFFICES ASSUME Types, [Next]_vars PROVE Types'
  OBVIOUS
<1> DEFINE Places == {Idle} \cup Asking \cup Pricing
<1>1. ASSUME NEW f \in Fetchers, Begin(f) PROVE Types'
  <2>1. [at |-> 1, awaits |-> "rate"] \in Asking
    BY MonitorAssumption DEF Asking
  <2>2. fetcher' \in [Fetchers -> Places] /\ began' \in [Fetchers -> Nat \cup {-1}]
    BY <1>1, <2>1 DEF Begin, Goto, Types
  <2>. QED
    BY <1>1, <2>2 DEF Begin, Types
<1>2. ASSUME NEW f \in Fetchers, FetchFails(f) PROVE Types'
  <2>1. /\ fetcher[f].awaits = "rate"
        /\ \E failed : fetcher' = [fetcher EXCEPT ![f] = Sweep(f, failed)]
        /\ faults' = faults \cup {<<AtSymbol(f), SettlementAt(now)>>}
        /\ UNCHANGED <<now, began, rates, alerts, restarts>>
    BY <1>2 DEF FetchFails, Goto, Fault
  <2>2. /\ fetcher[f] \in Asking /\ AtSymbol(f) \in SymbolSet
        /\ SettlementAt(now) \in Nat
    BY <2>1, AwaitsKind, SymbolOf, SettlementSteps DEF Types
  <2>3. fetcher' \in [Fetchers -> Places]
    BY <2>1, <2>2, SweepPlace DEF Types
  <2>. QED
    BY <2>1, <2>2, <2>3 DEF Types
<1>3. ASSUME NEW severity \in Severities, FetchedInLoop(severity) PROVE Types'
  <2>1. fetcher["loop"] \in Asking /\ "loop" \in Fetchers
    BY <1>3, AwaitsKind DEF FetchedInLoop, Fetchers
  <2>2. [at |-> fetcher["loop"].at, awaits |-> "ticker", sample |-> Sample(severity)] \in Pricing
    BY <2>1, SampleNow DEF Asking, Pricing, Types
  <2>. QED
    BY <1>3, <2>2 DEF FetchedInLoop, Goto, Types
<1>4. ASSUME NEW f \in Once, NEW severity \in Severities, NEW outcome \in Outcomes,
             FetchedOnce(f, severity, outcome)
      PROVE  Types'
  BY <1>4, FinishCalls, FinishEffect DEF Fetchers
<1>5. ASSUME NEW outcome \in Outcomes, TickerOrNot(outcome) PROVE Types'
  BY <1>5, FinishCalls, FinishEffect DEF Fetchers
<1>6. CASE Restart
  BY <1>6, MonitorAssumption DEF Restart, Types
<1>7. CASE Tick
  BY <1>7 DEF Tick, Types
<1>8. CASE UNCHANGED vars
  BY <1>8 DEF vars, Types
<1>. QED
  BY <1>1, <1>2, <1>3, <1>4, <1>5, <1>6, <1>7, <1>8 DEF Next

\* The types hold when the monitor starts.
LEMMA InitTypes == Init => Types
  BY MonitorAssumption DEF Init, Types, Idle

\* The invariant holds when the monitor starts.
LEMMA InitSweeping == Init => Sweeping
<1>. SUFFICES ASSUME Init PROVE Sweeping
  OBVIOUS
<1>1. Types
  BY InitTypes
<1>2. SettlementAt(0) = 0
  <2>1. \A d \in Nat \ {0} : 0 \div d = 0
    OBVIOUS
  <2>. QED
    BY <2>1, MonitorAssumption DEF SettlementAt
<1>3. Elapsed = 0 /\ SettlementAt(now) = 0 /\ began["loop"] < now
      /\ fetcher["loop"] = Idle /\ restarts = 0
  BY <1>2, MonitorAssumption DEF Init, Elapsed, Fetchers
<1>4. LoopPaced /\ SampleFresh
  BY DEF Init, LoopPaced, SampleFresh, Pricing, Idle, Fetchers
<1>5. Progress /\ NoGapWithoutFault
  BY <1>3 DEF Progress, NoGapWithoutFault
<1>. QED
  BY <1>1, <1>4, <1>5 DEF Sweeping

\* A step that leaves the loop where it is.
LEMMA LoopRests ==
  ASSUME Sweeping, Types', UNCHANGED <<now, restarts>>,
         fetcher'["loop"] = fetcher["loop"], began'["loop"] = began["loop"],
         \A f \in Once : fetcher'[f] \notin Pricing,
         \A t \in SymbolSet : \A k : Covered(t, k) => Covered(t, k)'
  PROVE  Sweeping'
<1>1. LoopPaced' /\ SampleFresh'
  BY DEF Sweeping, LoopPaced, SampleFresh, SettlementAt
<1>2. NoGapWithoutFault'
  BY DEF Sweeping, NoGapWithoutFault, Covered
<1>3. ASSUME NEW k, AllCovered(k) PROVE AllCovered(k)'
  BY <1>3 DEF AllCovered
<1>4. ASSUME NEW k, fetcher["loop"] # Idle, SweptTo(k) PROVE SweptTo(k)'
  <2>1. \A i \in 1 .. fetcher["loop"].at - 1 : Symbols[i] \in SymbolSet
    BY <1>4, SymbolOf, AwaitsKind DEF Sweeping, Fetchers, SymbolSet, Range
  <2>. QED
    BY <1>4, <2>1 DEF SweptTo
<1>5. Progress'
  BY <1>3, <1>4 DEF Sweeping, Progress, Elapsed, SettlementAt
<1>. QED
  BY <1>1, <1>2, <1>5 DEF Sweeping

\* The loop is done with a symbol, and has covered it.
LEMMA LoopMoves ==
  ASSUME Sweeping, Types', UNCHANGED <<now, restarts, began>>,
         fetcher["loop"] \in Asking \cup Pricing,
         NEW failed, fetcher' = [fetcher EXCEPT !["loop"] = Sweep("loop", failed)],
         \A t \in SymbolSet : \A k : Covered(t, k) => Covered(t, k)',
         began["loop"] = now \/ Elapsed >= 1 =>
           \A s \in SymbolSet : s = AtSymbol("loop") => Covered(s, SettlementAt(now))'
  PROVE  Sweeping'
<1> DEFINE k == SettlementAt(now)
           j == fetcher["loop"].at
<1>1. /\ fetcher'["loop"] = Sweep("loop", failed) /\ \A f \in Once : fetcher'[f] = fetcher[f]
      /\ Types /\ now \in Nat /\ restarts \in Nat /\ "loop" \in Fetchers
  BY MonitorAssumption DEF Sweeping, Types, Fetchers
<1>2. LoopPaced' /\ SampleFresh'
  <2>1. fetcher'["loop"] \notin Pricing
    BY <1>1, SweepPlace DEF Asking, Pricing, Idle
  <2>. QED
    BY <1>1, <2>1 DEF Sweeping, LoopPaced, SampleFresh
<1>3. NoGapWithoutFault'
  BY DEF Sweeping, NoGapWithoutFault, Covered
<1>4. AllCovered(k) => AllCovered(k)'
  BY DEF AllCovered
<1>5. /\ Len(Symbols) \in Nat \ {0} /\ DOMAIN Symbols = 1 .. Len(Symbols)
      /\ j \in 1 .. Len(Symbols) /\ AtSymbol("loop") = Symbols[j]
      /\ \A i \in 1 .. Len(Symbols) : Symbols[i] \in SymbolSet
      /\ \A s \in SymbolSet : \E i \in 1 .. Len(Symbols) : s = Symbols[i]
      /\ fetcher["loop"] # Idle
  BY <1>1, SymbolOf, AwaitsKind DEF AtSymbol, SymbolSet, Range
<1>6. /\ j = Len(Symbols) => fetcher'["loop"] = Idle
      /\ j # Len(Symbols) => fetcher'["loop"] # Idle /\ fetcher'["loop"].at = j + 1
  BY <1>1, SweepPlace
<1>7. Elapsed \in Nat /\ Elapsed' = Elapsed /\ k' = k
  BY <1>1, SettlementSteps DEF Elapsed, SettlementAt
<1>8. CASE SweptTo(k) /\ (began["loop"] = now \/ Elapsed >= 1)
  <2>1. \A i \in 1 .. j : Covered(Symbols[i], k)'
    <3>1. \A i \in 1 .. j : i = j => Covered(Symbols[i], k)'
      BY <1>5, <1>8
    <3>2. \A i \in 1 .. j - 1 : Covered(Symbols[i], k)'
      BY <1>5, <1>8 DEF SweptTo
    <3>. QED
      BY <1>5, <3>1, <3>2
  <2>2. j = Len(Symbols) => AllCovered(k)'
    BY <1>5, <2>1 DEF AllCovered
  <2>3. j # Len(Symbols) => SweptTo(k)'
    BY <1>5, <1>6, <2>1 DEF SweptTo
  <2>. HIDE DEF k, j
  <2>4. Progress \/ AllCovered(k)
    BY DEF Sweeping
  <2>. QED
    BY <1>1, <1>2, <1>3, <1>4, <1>5, <1>6, <1>7, <1>8, <2>2, <2>3 DEF Sweeping, Progress, k
<1>9. CASE Elapsed = 0 /\ began["loop"] < now
  BY <1>1, <1>2, <1>3, <1>6, <1>7, <1>9 DEF Sweeping, Progress
<1>10. CASE AllCovered(k)
  BY <1>2, <1>3, <1>4, <1>7, <1>10 DEF Sweeping, Progress
<1>11. \/ AllCovered(k) \/ (Elapsed = 0 /\ began["loop"] < now)
       \/ SweptTo(k) /\ (began["loop"] = now \/ Elapsed >= 1)
  BY <1>5, <1>7 DEF Sweeping, Progress
<1>. QED
  BY <1>8, <1>9, <1>10, <1>11

\* The begin of a sweep keeps the invariant.
LEMMA BeginStep == ASSUME Sweeping, NEW f \in Fetchers, Begin(f) PROVE Sweeping'
<1> DEFINE place == [at |-> 1, awaits |-> "rate"]
<1>1. /\ fetcher[f] = Idle /\ (f = "loop" => began[f] < now)
      /\ fetcher' = [fetcher EXCEPT ![f] = place]
      /\ began' = [began EXCEPT ![f] = now]
      /\ UNCHANGED <<now, rates, alerts, faults, restarts>>
  BY DEF Begin, Goto
<1>2. Types /\ place \in Asking /\ place \notin Pricing /\ place # Idle
  BY MonitorAssumption DEF Sweeping, Asking, Pricing, Idle
<1>. HIDE DEF place
<1>3. Types'
  BY <1>2, TypesNext DEF Next
<1>4. \A t \in SymbolSet : \A k : Covered(t, k) => Covered(t, k)'
  BY <1>1 DEF Covered, HasRow
<1>5. CASE f \in Once
  <2>1. fetcher'["loop"] = fetcher["loop"] /\ began'["loop"] = began["loop"]
    BY <1>1, <1>2, <1>5, MonitorAssumption DEF Types, Fetchers
  <2>2. \A g \in Once : fetcher'[g] \in {place, fetcher[g]} /\ fetcher[g] \notin Pricing
    BY <1>1, <1>2 DEF Types, Fetchers, Sweeping, SampleFresh
  <2>3. \A g \in Once : fetcher'[g] \notin Pricing
    BY <1>2, <2>2
  <2>. QED
    BY <1>1, <1>3, <1>4, <2>1, <2>3, LoopRests
<1>6. CASE f = "loop"
  <2>1. /\ fetcher'["loop"] = place /\ \A g \in Once : fetcher'[g] = fetcher[g]
        /\ began'["loop"] = now /\ fetcher["loop"] = Idle /\ began["loop"] < now
    BY <1>1, <1>2, <1>6, MonitorAssumption DEF Types, Fetchers
  <2>2. LoopPaced' /\ SampleFresh'
    BY <1>1, <1>2, <2>1 DEF Sweeping, LoopPaced, SampleFresh
  <2>3. NoGapWithoutFault'
    BY <1>1, <1>4 DEF Sweeping, NoGapWithoutFault, SettlementAt, HasRow
  <2>4. AllCovered(SettlementAt(now)) \/ Elapsed <= restarts
    BY <1>2, <2>1, MonitorAssumption DEF Sweeping, Progress
  <2>5. SweptTo(SettlementAt(now))'
    BY <2>1 DEF SweptTo, place
  <2>6. AllCovered(SettlementAt(now)) => AllCovered(SettlementAt(now))'
    BY <1>1 DEF AllCovered, Covered, HasRow, SettlementAt
  <2>7. Progress'
    BY <1>1, <1>2, <2>1, <2>4, <2>5, <2>6 DEF Progress, Elapsed, SettlementAt
  <2>. QED
    BY <1>3, <2>2, <2>3, <2>7 DEF Sweeping
<1>. QED
  BY <1>5, <1>6 DEF Fetchers

\* A failed request keeps the invariant.
LEMMA FetchFailsStep == ASSUME Sweeping, NEW f \in Fetchers, FetchFails(f) PROVE Sweeping'
<1>1. /\ fetcher[f].awaits = "rate"
      /\ \E failed : fetcher' = [fetcher EXCEPT ![f] = Sweep(f, failed)]
      /\ faults' = faults \cup {<<AtSymbol(f), SettlementAt(now)>>}
      /\ UNCHANGED <<now, began, rates, alerts, restarts>>
  BY DEF FetchFails, Goto, Fault
<1>2. Types /\ fetcher[f] \in Asking /\ AtSymbol(f) \in SymbolSet /\ SettlementAt(now) \in Nat
  BY <1>1, AwaitsKind, SymbolOf, SettlementSteps DEF Sweeping, Types
<1>3. PICK place \in {Idle} \cup Asking : fetcher' = [fetcher EXCEPT ![f] = place]
  BY <1>1, <1>2, SweepPlace
<1>4. Types'
  BY <1>2, TypesNext DEF Next
<1>5. \A t \in SymbolSet : \A k : Covered(t, k) => Covered(t, k)'
  BY <1>1 DEF Covered, HasRow
<1>6. CASE f \in Once
  <2>1. /\ fetcher'["loop"] = fetcher["loop"]
        /\ \A g \in Once : fetcher'[g] \in {place, fetcher[g]} /\ fetcher[g] \notin Pricing
    BY <1>2, <1>3, <1>6, MonitorAssumption DEF Types, Fetchers, Sweeping, SampleFresh
  <2>2. \A g \in Once : fetcher'[g] \notin Pricing
    BY <2>1 DEF Asking, Pricing, Idle
  <2>. QED
    BY <1>1, <1>4, <1>5, <2>1, <2>2, LoopRests
<1>7. CASE f = "loop"
  <2>1. \A s \in SymbolSet : s = AtSymbol("loop") => Covered(s, SettlementAt(now))'
    BY <1>1, <1>7 DEF Covered, SettlementAt
  <2>. QED
    BY <1>1, <1>2, <1>4, <1>5, <1>7, <2>1, LoopMoves
<1>. QED
  BY <1>6, <1>7 DEF Fetchers

\* The answer to a fetch on demand keeps the invariant.
LEMMA FetchedOnceStep ==
  ASSUME Sweeping, NEW f \in Once, NEW severity \in Severities, NEW outcome \in Outcomes,
         FetchedOnce(f, severity, outcome)
  PROVE  Sweeping'
<1>1. Types /\ f \in Fetchers /\ f # "loop"
  BY MonitorAssumption DEF Sweeping, Fetchers
<1>2. /\ fetcher[f] \in Asking \cup Pricing
      /\ \E s \in SymbolSet, sample \in SampleType :
           s = AtSymbol(f) /\ Finish(f, sample, outcome)
  BY <1>1, FinishCalls
<1>3. PICK s \in SymbolSet, sample \in SampleType :
        s = AtSymbol(f) /\ Finish(f, sample, outcome)
  BY <1>2
<1>4. /\ Types' /\ UNCHANGED <<now, began, restarts>>
      /\ \A t \in SymbolSet : \A k : Covered(t, k) => Covered(t, k)'
      /\ \E failed : fetcher' = [fetcher EXCEPT ![f] = Sweep(f, failed)]
  BY <1>1, <1>2, <1>3, FinishEffect
<1>5. fetcher'["loop"] = fetcher["loop"] /\ \A g \in Once : fetcher'[g] \notin Pricing
  <2>1. PICK failed : fetcher' = [fetcher EXCEPT ![f] = Sweep(f, failed)]
    BY <1>4
  <2>2. Sweep(f, failed) \in {Idle} \cup Asking
    BY <1>1, <1>2, SweepPlace
  <2>3. /\ fetcher'["loop"] = fetcher["loop"]
        /\ \A g \in Once : fetcher'[g] \in {Sweep(f, failed), fetcher[g]}
        /\ \A g \in Once : fetcher[g] \notin Pricing
    BY <1>1, <2>1 DEF Types, Fetchers, Sweeping, SampleFresh
  <2>. QED
    BY <2>2, <2>3 DEF Asking, Pricing, Idle
<1>. QED
  BY <1>4, <1>5, LoopRests

\* The ticker that ends a symbol's turn keeps the invariant.
LEMMA TickerStep ==
  ASSUME Sweeping, NEW outcome \in Outcomes, TickerOrNot(outcome)
  PROVE  Sweeping'
<1>1. Types /\ now \in Nat /\ "loop" \in Fetchers
  BY DEF Sweeping, Types, Fetchers
<1>2. /\ fetcher["loop"] \in Pricing
      /\ \E s \in SymbolSet, sample \in SampleType :
           s = AtSymbol("loop") /\ Finish("loop", sample, outcome) /\ sample = fetcher["loop"].sample
  BY <1>1, FinishCalls
<1>3. PICK s \in SymbolSet, sample \in SampleType :
        /\ s = AtSymbol("loop") /\ sample = fetcher["loop"].sample
        /\ Finish("loop", sample, outcome)
  BY <1>2
<1>4. Finish("loop", sample, outcome)
  BY <1>3
<1>5. /\ Types' /\ UNCHANGED <<now, began, restarts>>
      /\ \A t \in SymbolSet : \A k : Covered(t, k) => Covered(t, k)'
      /\ \A k : k = sample.settlement => Covered(s, k)'
      /\ \E failed : fetcher' = [fetcher EXCEPT !["loop"] = Sweep("loop", failed)]
  BY <1>1, <1>2, <1>3, <1>4, FinishEffect
<1>6. began["loop"] = now \/ Elapsed >= 1 => sample.settlement = SettlementAt(now)
  BY <1>1, <1>2, <1>3, SettlementSteps DEF Sweeping, SampleFresh, LoopPaced
<1>7. began["loop"] = now \/ Elapsed >= 1 =>
        \A t \in SymbolSet : t = AtSymbol("loop") => Covered(t, SettlementAt(now))'
  <2>. SUFFICES ASSUME began["loop"] = now \/ Elapsed >= 1
                PROVE  Covered(s, SettlementAt(now))'
    BY <1>3
  <2>1. PICK k : k = SettlementAt(now) /\ k = SettlementAt(now)'
    BY <1>5 DEF SettlementAt
  <2>2. Covered(s, k)'
    BY <1>5, <1>6, <2>1
  <2>. QED
    BY <2>1, <2>2 DEF Covered, HasRow
<1>. QED
  BY <1>2, <1>5, <1>7, LoopMoves

\* The rate fetched by the loop keeps the invariant.
LEMMA FetchedInLoopStep ==
  ASSUME Sweeping, NEW severity \in Severities, FetchedInLoop(severity)
  PROVE  Sweeping'
<1> DEFINE place == [at |-> fetcher["loop"].at, awaits |-> "ticker", sample |-> Sample(severity)]
<1>1. /\ Types /\ now \in Nat /\ "loop" \in Fetchers
      /\ fetcher["loop"].awaits = "rate" /\ fetcher' = [fetcher EXCEPT !["loop"] = place]
      /\ UNCHANGED <<now, began, rates, alerts, faults, restarts>>
  BY DEF Sweeping, Types, Fetchers, FetchedInLoop, Goto
<1>2. fetcher["loop"] \in Asking /\ fetcher["loop"] # Idle
  BY <1>1, AwaitsKind
<1>3. /\ place \in Pricing /\ place # Idle /\ place.at = fetcher["loop"].at
      /\ place.sample.settlement = SettlementAt(now)
  BY <1>1, <1>2, SampleNow DEF Asking, Pricing, Idle
<1>. HIDE DEF place
<1>4. fetcher'["loop"] = place /\ \A f \in Once : fetcher'[f] = fetcher[f]
  BY <1>1, MonitorAssumption DEF Types, Fetchers
<1>5. Types'
  BY <1>1, TypesNext DEF Next
<1>6. LoopPaced' /\ SampleFresh' /\ NoGapWithoutFault'
  BY <1>1, <1>3, <1>4 DEF Sweeping, LoopPaced, SampleFresh, NoGapWithoutFault, HasRow, SettlementAt
<1>7. ASSUME NEW k PROVE AllCovered(k)' = AllCovered(k) /\ SweptTo(k)' = SweptTo(k)
  BY <1>1, <1>3, <1>4 DEF AllCovered, SweptTo, Covered, HasRow
<1>8. Progress'
  BY <1>1, <1>2, <1>3, <1>4, <1>7 DEF Sweeping, Progress, Elapsed, SettlementAt
<1>. QED
  BY <1>5, <1>6, <1>8 DEF Sweeping

\* A restart gives the sweep up and costs at most the tick it was in.
LEMMA RestartStep == ASSUME Sweeping, Restart PROVE Sweeping'
<1>1. /\ Types /\ now \in Nat /\ restarts \in Nat /\ restarts' = restarts + 1
      /\ fetcher' = [f \in Fetchers |-> Idle] /\ began' = [f \in Fetchers |-> now - 1]
      /\ restarts < MaxRestarts /\ UNCHANGED <<now, rates, alerts, faults>>
  BY MonitorAssumption DEF Sweeping, Types, Restart
<1>2. Types'
  BY <1>1, TypesNext DEF Next
<1>3. LoopPaced' /\ SampleFresh' /\ NoGapWithoutFault'
  BY <1>1 DEF Sweeping, LoopPaced, SampleFresh, NoGapWithoutFault, HasRow, Fetchers, Pricing, Idle
<1>4. AllCovered(SettlementAt(now)) \/ Elapsed <= restarts + 1
  BY <1>1, SettlementSteps DEF Sweeping, Progress
<1>5. AllCovered(SettlementAt(now)) => AllCovered(SettlementAt(now))'
  BY <1>1 DEF AllCovered, Covered, HasRow, SettlementAt
<1>6. Progress'
  BY <1>1, <1>4, <1>5 DEF Progress, Elapsed, SettlementAt, Fetchers
<1>. QED
  BY <1>2, <1>3, <1>6 DEF Sweeping

\* When a settlement is over, each symbol has been covered in it: all its ticks but the
\* last can have been lost to restarts, and there are fewer of those.
LEMMA TickStep ==
  ASSUME Sweeping, Tick, MaxRestarts + 2 <= Settlement
  PROVE  Sweeping'
<1>1. /\ Types /\ now \in Nat /\ restarts \in Nat /\ restarts <= MaxRestarts
      /\ Settlement \in Nat /\ MaxRestarts \in Nat
      /\ now' = now + 1 /\ began["loop"] = now
      /\ UNCHANGED <<fetcher, began, rates, alerts, faults, restarts>>
  BY MonitorAssumption DEF Sweeping, Types, Tick
<1>2. Types'
  BY <1>1, TypesNext DEF Next
<1>3. /\ SettlementAt(now) \in Nat /\ Elapsed \in Nat
      /\ \/ SettlementAt(now)' = SettlementAt(now) /\ Elapsed' = Elapsed + 1
         \/ SettlementAt(now)' = SettlementAt(now) + 1 /\ Elapsed' = 0 /\ Elapsed = Settlement - 1
  BY <1>1, SettlementSteps DEF SettlementAt, Elapsed
<1>4. LoopPaced' /\ SampleFresh'
  BY <1>1 DEF Sweeping, LoopPaced, SampleFresh, SettlementAt
<1>5. \/ AllCovered(SettlementAt(now))
      \/ fetcher["loop"] # Idle /\ Elapsed <= restarts /\ SweptTo(SettlementAt(now))
  BY <1>1 DEF Sweeping, Progress
<1>6. NoGapWithoutFault'
  <2>1. \A s \in SymbolSet : \A k \in 0 .. SettlementAt(now) - 1 : Covered(s, k)
    BY DEF Sweeping, NoGapWithoutFault, Covered
  <2>2. CASE SettlementAt(now)' = SettlementAt(now)
    BY <1>1, <2>1, <2>2 DEF NoGapWithoutFault, Covered, HasRow
  <2>3. CASE SettlementAt(now)' = SettlementAt(now) + 1 /\ Elapsed = Settlement - 1
    <3>1. AllCovered(SettlementAt(now))
      BY <1>1, <1>3, <1>5, <2>3
    <3>2. \A s \in SymbolSet : \A k \in 0 .. SettlementAt(now) : Covered(s, k)
      BY <1>3, <2>1, <3>1 DEF AllCovered
    <3>3. ASSUME NEW s \in SymbolSet, NEW k \in 0 .. SettlementAt(now)' - 1
          PROVE  HasRow(s, k)' \/ <<s, k>> \in faults'
      <4>1. k \in 0 .. SettlementAt(now)
        BY <1>3, <2>3
      <4>. QED
        BY <1>1, <3>2, <4>1 DEF Covered, HasRow
    <3>. QED
      BY <3>3 DEF NoGapWithoutFault
  <2>. QED
    BY <1>3, <2>2, <2>3
<1>7. Progress'
  <2>1. ASSUME NEW k PROVE AllCovered(k)' = AllCovered(k) /\ SweptTo(k)' = SweptTo(k)
    BY <1>1 DEF AllCovered, SweptTo, Covered, HasRow
  <2>2. began'["loop"] < now'
    BY <1>1
  <2>3. CASE SettlementAt(now)' = SettlementAt(now) /\ Elapsed' = Elapsed + 1
    <3>1. \/ AllCovered(SettlementAt(now))'
          \/ fetcher'["loop"] # Idle /\ Elapsed' <= restarts' + 1 /\ SweptTo(SettlementAt(now))'
      BY <1>1, <1>3, <1>5, <2>1, <2>3 DEF AllCovered, SweptTo, Covered, HasRow
    <3>. QED
      BY <2>2, <3>1 DEF Progress
  <2>4. CASE Elapsed' = 0
    BY <1>1, <2>2, <2>4 DEF Progress
  <2>. QED
    BY <1>3, <2>3, <2>4
<1>. QED
  BY <1>2, <1>4, <1>6, <1>7 DEF Sweeping

-----------------------------------------------------------------------------
(* Theorems.                                                               *)

\* As long as the process restarts less often than a settlement has ticks but one, every
\* settlement that has passed was sampled for every symbol whose own requests and writes
\* did not fail in it, whatever happened to other symbols and to fetch_once.
THEOREM GapsNeedFaults ==
  ASSUME MaxRestarts + 2 <= Settlement
  PROVE  Spec => []NoGapWithoutFault
<1>1. Sweeping /\ [Next]_vars => Sweeping'
  <2>. SUFFICES ASSUME Sweeping, [Next]_vars PROVE Sweeping'
    OBVIOUS
  <2>1. CASE UNCHANGED vars
    <3>1. UNCHANGED <<now, fetcher, began, rates, alerts, faults, restarts>>
      BY <2>1 DEF vars
    <3>2. Types' /\ \A f \in Once : fetcher'[f] \notin Pricing
      BY <3>1 DEF Sweeping, Types, SampleFresh
    <3>3. \A t \in SymbolSet : \A k : Covered(t, k) => Covered(t, k)'
      BY <3>1 DEF Covered, HasRow
    <3>. QED
      BY <3>1, <3>2, <3>3, LoopRests
  <2>. QED
    BY <2>1, BeginStep, FetchFailsStep, FetchedInLoopStep, FetchedOnceStep, TickerStep,
       RestartStep, TickStep DEF Next
<1>2. Sweeping => NoGapWithoutFault
  BY DEF Sweeping
<1>. QED
  BY <1>1, <1>2, InitSweeping, PTL DEF Spec

\* Samples, alerts, the faults counted and what each fetcher waits for keep their types,
\* whichever request or write fails and whenever the process restarts.
THEOREM MonitorTypes == Spec => []TypeOK
<1>1. Types => TypeOK
  BY DEF Types, TypeOK, Asking, Pricing
<1>. QED
  BY <1>1, InitTypes, TypesNext, PTL DEF Spec

\* Whichever fetchers raise them, and whatever fails or restarts, two alerts of a symbol
\* are more than an hour apart: the look-up, which compares dates only, never misses an
\* alert of the last hour (_maybe_emit_opportunity).
THEOREM AlertsAlwaysPaced == Spec => []AlertsPaced
<1>1. Init => AlertsPaced
  BY DEF Init, AlertsPaced
<1>2. Types /\ AlertsPaced /\ [Next]_vars => AlertsPaced'
  <2>. SUFFICES ASSUME Types, AlertsPaced, [Next]_vars PROVE AlertsPaced'
    OBVIOUS
  <2>1. CASE UNCHANGED alerts
    BY <2>1 DEF AlertsPaced
  <2>2. ASSUME NEW f \in Fetchers, NEW outcome \in Outcomes,
               \/ f \in Once /\ \E severity \in Severities : FetchedOnce(f, severity, outcome)
               \/ f = "loop" /\ TickerOrNot(outcome)
        PROVE  AlertsPaced'
    <3>1. PICK s \in SymbolSet, sample \in SampleType :
              Finish(f, sample, outcome) /\ s = AtSymbol(f)
      BY <2>2, FinishCalls
    <3>2. alerts' = alerts \/ alerts' = [alerts EXCEPT ![s] = Alerted(s, sample)]
      BY <3>1 DEF Finish, Handle
    <3>3. Paced(Alerted(s, sample))
      BY AlertedPaced DEF AlertsPaced, Paced
    <3>4. \A t \in SymbolSet : Paced(alerts'[t])
      BY <3>2, <3>3 DEF AlertsPaced, Paced, Types
    <3>. QED
      BY <3>4 DEF AlertsPaced, Paced
  <2>3. \/ UNCHANGED alerts
        \/ \E outcome \in Outcomes :
             \/ TickerOrNot(outcome)
             \/ \E f \in Once, severity \in Severities : FetchedOnce(f, severity, outcome)
    BY DEF Next, Begin, FetchFails, FetchedInLoop, Restart, Tick, vars
  <2>. QED
    BY <2>1, <2>2, <2>3 DEF Fetchers
<1>. QED
  BY <1>1, <1>2, InitTypes, TypesNext, PTL DEF Spec

\* Whatever fails after it, an alert was raised for a sample that had been stored: the
\* history shows the rate an alert speaks of (_maybe_emit_opportunity after _store_rate).
THEOREM AlertsStandOnSamples == Spec => []AlertHasItsSample
<1>1. Init => AlertHasItsSample
  BY DEF Init, AlertHasItsSample
<1>2. Types /\ AlertHasItsSample /\ [Next]_vars => AlertHasItsSample'
  <2>. SUFFICES ASSUME Types, AlertHasItsSample, [Next]_vars PROVE AlertHasItsSample'
    OBVIOUS
  <2>1. CASE UNCHANGED <<rates, alerts>>
    BY <2>1 DEF AlertHasItsSample, HasRow
  <2>2. ASSUME NEW f \in Fetchers, NEW outcome \in Outcomes,
               \/ f \in Once /\ \E severity \in Severities : FetchedOnce(f, severity, outcome)
               \/ f = "loop" /\ TickerOrNot(outcome)
        PROVE  AlertHasItsSample'
    <3>1. PICK s \in SymbolSet, sample \in SampleType : Handle(s, sample, outcome)
      BY <2>2, FinishCalls DEF Finish
    <3>2. \A t \in SymbolSet : \A k : HasRow(t, k) => HasRow(t, k)'
      BY <3>1, HandleEffect
    <3>3. CASE alerts' = alerts
      BY <3>2, <3>3 DEF AlertHasItsSample
    <3>4. CASE alerts' # alerts
      <4>1. outcome = "ok" /\ alerts' = [alerts EXCEPT ![s] = Alerted(s, sample)]
        BY <3>1, <3>4 DEF Handle
      <4>2. alerts[s] \in Seq(AlertType) /\ alerts \in [SymbolSet -> Seq(AlertType)]
        BY DEF Types
      <4> DEFINE new == [at |-> now, settlement |-> sample.settlement, severity |-> sample.severity]
      <4>3. Alerted(s, sample) = alerts[s] \/ Alerted(s, sample) = Append(alerts[s], new)
        BY DEF Alerted
      <4>4. new.settlement = sample.settlement
        OBVIOUS
      <4>. HIDE DEF new
      <4>5. ASSUME NEW t \in SymbolSet, NEW i \in DOMAIN alerts'[t],
                   NEW k, k = alerts'[t][i].settlement
            PROVE  HasRow(t, k)'
        <5>1. CASE i \in DOMAIN alerts[t] /\ alerts'[t][i] = alerts[t][i]
          <6>1. HasRow(t, k)
            BY <4>5, <5>1 DEF AlertHasItsSample
          <6>. QED
            BY <3>2, <6>1
        <5>2. CASE t = s /\ alerts'[t][i] = new
          <6>1. k = sample.settlement
            BY <4>4, <4>5, <5>2
          <6>. QED
            BY <3>1, <4>1, <5>2, <6>1, HandleStores
        <5>3. \/ i \in DOMAIN alerts[t] /\ alerts'[t][i] = alerts[t][i]
              \/ t = s /\ alerts'[t][i] = new
          BY <4>1, <4>2, <4>3, <4>5
        <5>. QED
          BY <5>1, <5>2, <5>3
      <4>. QED
        BY <4>5 DEF AlertHasItsSample, HasRow
    <3>. QED
      BY <3>3, <3>4
  <2>3. \/ UNCHANGED <<rates, alerts>>
        \/ \E outcome \in Outcomes :
             \/ TickerOrNot(outcome)
             \/ \E f \in Once, severity \in Severities : FetchedOnce(f, severity, outcome)
    BY DEF Next, Begin, FetchFails, FetchedInLoop, Restart, Tick, vars
  <2>. QED
    BY <2>1, <2>2, <2>3 DEF Fetchers
<1>3. Init => Types
  BY InitTypes
<1>4. Types /\ [Next]_vars => Types'
  BY TypesNext
<1>. QED
  BY <1>1, <1>2, <1>3, <1>4, PTL DEF Spec
=============================================================================
