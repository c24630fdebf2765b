--------------------------- MODULE FundingMonitor ---------------------------
(***************************************************************************)
(* bot/core/funding_monitor.py: funding rates sampled into a database, and *)
(* an alert logged when one is high.  Several fetchers share the database: *)
(* the monitor's own loop, and callers of fetch_once, which the arb job    *)
(* runs every fifteen minutes and /funding whenever the operator asks.     *)
(*                                                                         *)
(* A fetcher is suspended while a request is under way and nowhere else,   *)
(* so what it does with a sample is one action.  The loop makes a second   *)
(* request, for the ticker, between reading a rate and storing it.         *)
(*                                                                         *)
(* One tick is an hour.  main.py starts the loop once and never stops it,  *)
(* registers no callback, and nothing reads the alerts back.               *)
(***************************************************************************)
EXTENDS Integers, Sequences, FiniteSets, SequencesExt

CONSTANTS
  Symbols,      \* the sequence of monitored symbols
  Once,         \* those who may call fetch_once: the arb job, one /funding, another
  Hour, Day,    \* their lengths in ticks
  Settlement,   \* ticks between two settlements of a perpetual
  Severities,   \* of rates: "none" is below 0.05% either way, and "HIGH", "EXTREME"
  MaxTime,      \* bound: the last tick
  MaxFaults,    \* bound: failing requests and writes
  MaxRestarts   \* bound: restarts of the process

VARIABLES
  now,
  fetcher,   \* of each fetcher: the symbol it is at, what it waits for, its sample
  began,     \* the tick at which each fetcher began its sweep
  rates,     \* funding_rate_history of each symbol, in order of its row ids
  alerts,    \* funding_opportunities of each symbol
  faults,    \* history: what was asked for and not stored, by symbol and settlement
  restarts   \* bound

vars == <<now, fetcher, began, rates, alerts, faults, restarts>>

Fetchers == {"loop"} \cup Once
SymbolSet == Range(Symbols)

SettlementAt(t) == t \div Settlement
DateOf(t) == t \div Day

Idle == [at |-> 0, awaits |-> "nothing"]

ASSUME MonitorAssumption ==
  /\ {Hour, Day, Settlement} \subseteq Nat \ {0} /\ MaxTime \in Nat /\ MaxRestarts \in Nat
  /\ Hour <= Day /\ MaxFaults \in Nat
  /\ Severities \subseteq {"none", "HIGH", "EXTREME"}
  /\ Symbols \in Seq(SymbolSet) /\ Symbols # <<>>
  /\ "loop" \notin Once

SampleType == [settlement : Nat, severity : Severities]
AlertType == [at : Nat, settlement : Nat, severity : Severities \ {"none"}]

TypeOK ==
  /\ now \in Nat
  /\ \A f \in Fetchers :
       \/ fetcher[f] = Idle
       \/ fetcher[f] \in [at : DOMAIN Symbols, awaits : {"rate"}]
       \/ fetcher[f] \in [at : DOMAIN Symbols, awaits : {"ticker"}, sample : SampleType]
  /\ began \in [Fetchers -> Nat \cup {-1}]
  /\ rates \in [SymbolSet -> Seq(SampleType)]
  /\ alerts \in [SymbolSet -> Seq(AlertType)]
  /\ faults \subseteq SymbolSet \X Nat
  /\ restarts \in 0 .. MaxRestarts

Init ==
  /\ now = 0
  /\ fetcher = [f \in Fetchers |-> Idle]
  /\ began = [f \in Fetchers |-> -1]
  /\ rates = [s \in SymbolSet |-> <<>>]
  /\ alerts = [s \in SymbolSet |-> <<>>]
  /\ faults = {} /\ restarts = 0

-----------------------------------------------------------------------------
(* What is done with a sample.                                             *)

HasRow(s, k) == \E i \in DOMAIN rates[s] : rates[s][i].settlement = k

\* _store_rate: INSERT OR IGNORE under UNIQUE(symbol, next_funding_time_ms).
Stored(s, sample) ==
  IF HasRow(s, sample.settlement) THEN rates[s] ELSE Append(rates[s], sample)

\* A plausible bug: the hour is not subtracted.
AlertedToday(s) ==
  \E i \in DOMAIN alerts[s] : DateOf(alerts[s][i].at) >= DateOf(now)

\* detected_utc >= datetime('now', '-1 hour') compares text, and the 'T' of the first is
\* greater than the blank of the second: only the dates decide.
AlertedRecently(s) ==
  \E i \in DOMAIN alerts[s] : DateOf(alerts[s][i].at) >= DateOf(now - Hour)

\* _maybe_emit_opportunity
Alerted(s, sample) ==
  IF sample.severity = "none" \/ AlertedRecently(s) THEN alerts[s]
  ELSE Append(alerts[s], [at |-> now, settlement |-> sample.settlement, severity |-> sample.severity])

AtSymbol(f) == Symbols[fetcher[f].at]
Fault(f, k) ==
  /\ faults' = faults \cup {<<AtSymbol(f), k>>}
  /\ Cardinality(faults') <= MaxFaults

\* An error of the database ends the work on this sample.
Handle(s, sample, outcome) ==
  /\ rates' = IF outcome = "store fails" THEN rates ELSE [rates EXCEPT ![s] = Stored(s, sample)]
  /\ alerts' = IF outcome # "ok" THEN alerts ELSE [alerts EXCEPT ![s] = Alerted(s, sample)]

-----------------------------------------------------------------------------
(* The sweeps.                                                             *)

\* A plausible bug: the try surrounds the sweep instead of each of its symbols.
SweepOrGiveUp(f, failed) ==
  IF failed \/ fetcher[f].at = Len(Symbols) THEN Idle
  ELSE [at |-> fetcher[f].at + 1, awaits |-> "rate"]

\* The next symbol is asked for, whatever came of this one.
Sweep(f, failed) ==
  IF fetcher[f].at = Len(Symbols) THEN Idle
  ELSE [at |-> fetcher[f].at + 1, awaits |-> "rate"]

Goto(f, place) == fetcher' = [fetcher EXCEPT ![f] = place]

\* The loop's next iteration, the arb job, /funding.
Begin(f) ==
  /\ fetcher[f] = Idle
  /\ f = "loop" => began[f] < now
  /\ Goto(f, [at |-> 1, awaits |-> "rate"])
  /\ began' = [began EXCEPT ![f] = now]
  /\ UNCHANGED <<now, rates, alerts, faults, restarts>>

\* fetch_funding_rate raises: HTTP status, retCode, an empty list, no connection.
FetchFails(f) ==
  /\ fetcher[f].awaits = "rate"
  /\ Goto(f, Sweep(f, TRUE)) /\ Fault(f, SettlementAt(now))
  /\ UNCHANGED <<now, began, rates, alerts, restarts>>

Finish(f, sample, outcome) ==
  /\ Handle(AtSymbol(f), sample, outcome)
  /\ Goto(f, Sweep(f, outcome # "ok"))
  /\ IF outcome = "store fails" THEN Fault(f, sample.settlement) ELSE UNCHANGED faults
  /\ UNCHANGED <<now, began, restarts>>

Sample(severity) == [settlement |-> SettlementAt(now), severity |-> severity]

FetchedOnce(f, severity, outcome) ==
  /\ fetcher[f].awaits = "rate"
  /\ Finish(f, Sample(severity), outcome)

\* The loop wants the ticker's price as well before it stores the rate.
FetchedInLoop(severity) ==
  /\ fetcher["loop"].awaits = "rate"
  /\ Goto("loop", [at |-> fetcher["loop"].at, awaits |-> "ticker", sample |-> Sample(severity)])
  /\ UNCHANGED <<now, began, rates, alerts, faults, restarts>>

\* The price or nothing: the rate read before is stored either way.
TickerOrNot(outcome) ==
  /\ fetcher["loop"].awaits = "ticker"
  /\ Finish("loop", fetcher["loop"].sample, outcome)

\* The database stays; the sweeps under way are gone.
Restart ==
  /\ restarts < MaxRestarts /\ restarts' = restarts + 1
  /\ fetcher' = [f \in Fetchers |-> Idle]
  /\ began' = [f \in Fetchers |-> now - 1]
  /\ UNCHANGED <<now, rates, alerts, faults>>

\* The loop polls every five minutes and a sweep takes at most a few requests of 15 s:
\* it may meet the end of an hour, but not of two.
Tick ==
  /\ now < MaxTime /\ now' = now + 1
  /\ began["loop"] = now
  /\ \A f \in Fetchers : fetcher[f] # Idle => began[f] = now
  /\ UNCHANGED <<fetcher, began, rates, alerts, faults, restarts>>

Outcomes == {"ok", "store fails", "alert fails"}

Next ==
  \/ \E f \in Fetchers : Begin(f) \/ FetchFails(f)
  \/ \E severity \in Severities : FetchedInLoop(severity)
  \/ \E f \in Once, severity \in Severities, outcome \in Outcomes :
       FetchedOnce(f, severity, outcome)
  \/ \E outcome \in Outcomes : TickerOrNot(outcome)
  \/ Restart
  \/ Tick

Spec == Init /\ [][Next]_vars

-----------------------------------------------------------------------------
(* Properties.                                                             *)

\* Two alerts of a symbol are more than an hour apart, whichever fetchers raised them.
AlertsPaced ==
  \A s \in SymbolSet : \A i \in 1 .. Len(alerts[s]) - 1 :
    alerts[s][i + 1].at - alerts[s][i].at > Hour

\* An alert never stands alone: the history has a sample of the settlement it is about.
AlertHasItsSample ==
  \A s \in SymbolSet : \A i \in DOMAIN alerts[s] : HasRow(s, alerts[s][i].settlement)

\* Every settlement that has passed has been sampled for every symbol whose own requests
\* and writes did not fail in it: no other symbol and no other fetcher can prevent it,
\* nor a few restarts (FundingMonitorProofs says how many).
NoGapWithoutFault ==
  \A s \in SymbolSet : \A k \in 0 .. SettlementAt(now) - 1 :
    HasRow(s, k) \/ <<s, k>> \in faults
=============================================================================
