------------------------------ MODULE Providers ------------------------------
(***************************************************************************)
(* bot/backtest/regime_detector.py and indicators.py: what a replayed      *)
(* strategy may know of the market at a bar.  Both are built from the whole *)
(* history of a window, its test bars included, so what keeps the future    *)
(* out is only the way a query selects bars.  Values are abstracted to the  *)
(* set of bars they are computed from; a bar is the time it closes at.      *)
(***************************************************************************)
EXTENDS Integers, FiniteSets

CONSTANTS
  Hour,         \* ticks of a resampled bar
  AtrPeriod,    \* RegimeConfig.atr_period
  RsiPeriod     \* IndicatorsConfig.rsi_period

ASSUME ProviderAssumption ==
  /\ Hour \in Nat \ {0}
  /\ AtrPeriod \in Nat /\ AtrPeriod >= 2
  /\ RsiPeriod \in Nat /\ RsiPeriod >= 2

\* A plausible bug: an hour is stamped with its beginning, as most charts do.
HourBegin(t) == ((t - 1) \div Hour) * Hour

\* The hour a bar belongs to is named by its end; a bar closing on the hour
\* belongs to the hour it closes.
HourEnd(t) == ((t + Hour - 1) \div Hour) * Hour

\* _resample_to_1h: one bar for every hour that holds a bar, the last one even if
\* the history ends in the middle of it.
Resampled(bars) == {HourEnd(b) : b \in bars}

Members(bars, hour) == {b \in bars : HourEnd(b) = hour}

\* bisect_left: strictly before the query.
Before(bars, t) == {b \in bars : b < t}

HoursBefore(bars, t) == Before(Resampled(bars), t)

\* detect_at, with the bucket left open: None (here "none") while warming up.
VolatilityRegimes(bars, t) ==
  IF Cardinality(Before(bars, t)) >= AtrPeriod + 1
  THEN {"LOW_VOL", "NORMAL", "HIGH_VOL"} ELSE {"none"}

\* _compute_rsi is None until RsiPeriod changes of an hourly close are known.
RsiKnown(bars, t) == Cardinality(HoursBefore(bars, t)) >= RsiPeriod + 1

\* Every bar that can move the regime or an indicator at t.
Informing(bars, t) ==
  Before(bars, t) \cup UNION {Members(bars, h) : h \in HoursBefore(bars, t)}
=============================================================================
