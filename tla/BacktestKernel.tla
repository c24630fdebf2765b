--------------------------- MODULE BacktestKernel ---------------------------
(***************************************************************************)
(* bot/backtest/backtest_risk_kernel.py: the risk kernel the backtester    *)
(* runs in place of bot/core/risk_kernel.py.  It is written again here from *)
(* its own source, so that Replay can run both side by side.  A kernel is a *)
(* record with the fields of RiskKernel's; every operator returns the       *)
(* kernel after one call, t being what the injected clock says.             *)
(***************************************************************************)
EXTENDS Integers

CONSTANTS
  Capital,    \* starting_equity_usd
  Day,        \* ticks in a day
  WeekDays,   \* days in a week
  Forever     \* 999999 hours, in ticks

ASSUME KernelAssumption ==
  /\ Capital \in Nat \ {0} /\ Day \in Nat \ {0} /\ WeekDays \in Nat \ {0}
  /\ Forever \in Nat

NextUtcMidnight(t) == (t - (t % Day)) + Day

\* Whole days are added to now: the time of day is kept.
NextUtcMonday(t) ==
  LET weekday == (t \div Day) % WeekDays
  IN  t + Day * (IF weekday = 0 THEN WeekDays ELSE WeekDays - weekday)

\* __init__ and reset, the clock standing at t.
NewKernel(t) ==
  [starting |-> Capital, current |-> Capital, peak |-> Capital,
   daily |-> 0, weekly |-> 0, total |-> 0, losses |-> 0,
   halted |-> FALSE, reason |-> "none", until |-> 0,
   dailyReset |-> NextUtcMidnight(t), weeklyReset |-> NextUtcMonday(t)]

ResetPeriods(k, t) ==
  LET daily  == t >= k.dailyReset
      weekly == t >= k.weeklyReset
  IN  [k EXCEPT !.daily = IF daily THEN 0 ELSE @,
                !.dailyReset = IF daily THEN NextUtcMidnight(t) ELSE @,
                !.weekly = IF weekly THEN 0 ELSE @,
                !.weeklyReset = IF weekly THEN NextUtcMonday(t) ELSE @]

CheckActive(k, t) ==
  IF k.halted /\ k.until # 0 /\ t >= k.until
  THEN [k EXCEPT !.halted = FALSE, !.reason = "none", !.until = 0]
  ELSE k

Halt(k, t, why, ticks) ==
  [k EXCEPT !.halted = TRUE, !.reason = why, !.until = t + ticks]

Lost(pnl) == IF pnl < 0 THEN 0 - pnl ELSE 0

\* A plausible divergence from production: losses are measured against the
\* capital the window began with, not against the equity of the moment.
EvaluateAgainstStart(k, t) ==
  IF k.current <= 0 THEN k
  ELSE IF 100 * Lost(k.daily) >= 5 * k.starting
       THEN Halt(k, t, "daily_drawdown", Day)
  ELSE IF 100 * Lost(k.weekly) >= 10 * k.starting
       THEN Halt(k, t, "weekly_drawdown", WeekDays * Day)
  ELSE IF 100 * (k.peak - k.current) >= 15 * k.peak
       THEN Halt(k, t, "total_drawdown", Forever)
  ELSE IF k.losses >= 3
       THEN [Halt(k, t, "consecutive_loss_cooldown", Day) EXCEPT !.losses = 0]
  ELSE k

\* _evaluate_killswitches: nothing is judged once the account is gone.
Evaluate(k, t) ==
  IF k.current <= 0 THEN k
  ELSE IF 100 * Lost(k.daily) >= 5 * k.current
       THEN Halt(k, t, "daily_drawdown", Day)
  ELSE IF 100 * Lost(k.weekly) >= 10 * k.current
       THEN Halt(k, t, "weekly_drawdown", WeekDays * Day)
  ELSE IF k.peak > 0 /\ 100 * (k.peak - k.current) >= 15 * k.peak
       THEN Halt(k, t, "total_drawdown", Forever)
  ELSE IF k.losses >= 3
       THEN [Halt(k, t, "consecutive_loss_cooldown", Day) EXCEPT !.losses = 0]
  ELSE k

Record(k, pnl, t) ==
  LET equity == k.starting + k.total + pnl
  IN  Evaluate([k EXCEPT !.daily = @ + pnl, !.weekly = @ + pnl, !.total = @ + pnl,
                         !.current = equity,
                         !.peak = IF equity > @ THEN equity ELSE @,
                         !.losses = IF pnl < 0 THEN @ + 1 ELSE 0], t)

\* Layers 2 to 4 for a request of `usd` dollars with a stop at stop%; leverage is
\* that of the positions already open, in notional dollars over equity.
Smaller(a, b) == IF a < b THEN a ELSE b

Sized(k, usd, stop) ==
  Smaller(usd, Smaller(k.current \div stop, k.current \div 4))

\* The size granted by approve_trade, 0 for a refusal (the kernel must have been
\* reset and checked at the same t first).
Granted(k, usd, stop, notional, equity) ==
  LET size == Sized(k, usd, stop)
      levered == IF equity > 0 THEN notional * k.current + size * equity
                 ELSE size
      cap == 3 * k.current * (IF equity > 0 THEN equity ELSE 1)
  IN  IF k.halted \/ usd <= 0 \/ size < 10 \/ levered > cap THEN 0 ELSE size
=============================================================================
