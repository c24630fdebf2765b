----------------------------- MODULE RiskKernel -----------------------------
(***************************************************************************)
(* bot/core/risk_kernel.py: the gate every trade request passes.           *)
(*                                                                         *)
(* The kernel object is one record, `kernel`, because the code saves and   *)
(* loads exactly that record.  Money is counted in whole dollars, time in  *)
(* ticks; Day ticks make a day and WeekDays days a week.  Percentages are  *)
(* compared by cross multiplication, so no rounding enters a decision.     *)
(***************************************************************************)
EXTENDS Integers

CONSTANTS
  StartEquity,   \* starting_equity_usd
  Pnls,          \* outcomes a closed trade may report
  Balances,      \* exchange balances update_equity_from_external may be given
  HaltTicks,     \* lengths of a manual halt (/halt <hours>)
  Requests,      \* trade requests the strategies submit
  Persistence,   \* whether a state_file_path is given: production gives none
  Day,           \* ticks in a day
  WeekDays,      \* days in a week
  Forever,       \* 999999 hours, in ticks
  Epoch,         \* the tick the process first starts at (a Monday midnight)
  MaxTime,       \* bound: the last tick
  MaxOutcomes    \* bound: outcomes reported in one behaviour

Stresses == {"calm", "elevated", "high", "s13"}

ASSUME MoneyAssumption ==
  /\ StartEquity \in Nat \ {0}
  /\ Pnls \subseteq Int /\ Balances \subseteq Int
  /\ MaxOutcomes \in Nat

ASSUME TimeAssumption ==
  /\ Day \in Nat \ {0} /\ WeekDays \in Nat \ {0}
  /\ HaltTicks \subseteq Nat /\ Forever \in Nat /\ Forever >= Day
  /\ Epoch \in Nat \ {0} /\ MaxTime \in Nat

RequestType ==
  [size : Int, stopLoss : Int, confident : BOOLEAN, stress : Stresses, leverage : Nat]

ASSUME RequestAssumption ==
  /\ Requests \subseteq RequestType
  /\ Persistence \subseteq BOOLEAN

VARIABLES
  now,       \* the wall clock
  kernel,    \* the RiskKernel object in memory
  persistent, \* whether this kernel has a state file
  file,      \* what the state file holds
  reply,     \* what the last call returned
  promise,   \* history: the tick the last halt was announced to last until
  touched,   \* history: has a hand (halt, resume, reconciliation) reached the kernel?
  outcomes   \* bound: how many outcomes have been reported

vars == <<now, kernel, persistent, file, reply, promise, touched, outcomes>>

Reasons == {"none", "daily_drawdown", "weekly_drawdown", "total_drawdown",
            "consecutive_loss_cooldown", "manual_halt"}

KernelState ==
  [starting : Int, current : Int, peak : Int, daily : Int, weekly : Int,
   total : Int, losses : Nat, halted : BOOLEAN, reason : Reasons, until : Nat,
   dailyReset : Nat, weeklyReset : Nat]

\* An empty, truncated or missing state file: _load_state falls back to defaults.
Unreadable == [starting |-> 0, readable |-> FALSE]

Decisions == {"approved", "reduced_size", "rejected", "halted",
              "yes", "no", "resumed", "refused", "started", "done"}

ReplyType == [decision : Decisions, size : Int, stopLoss : Int]

Answer(what) == [decision |-> what, size |-> 0, stopLoss |-> 0]

TypeOK ==
  /\ now \in Nat
  /\ kernel \in KernelState
  /\ persistent \in Persistence
  /\ file \in KernelState \cup {Unreadable}
  /\ reply \in ReplyType
  /\ promise \in Nat
  /\ touched \in BOOLEAN
  /\ outcomes \in Nat

-----------------------------------------------------------------------------
(* Clock helpers and the period resets.                                    *)

NextMidnight(t) == ((t \div Day) + 1) * Day

\* The Monday after t, at the time of day of t: the code adds whole days to now.
NextMonday(t) == t + (WeekDays - ((t \div Day) % WeekDays)) * Day

Fresh(t) ==
  [starting |-> StartEquity, current |-> StartEquity, peak |-> StartEquity,
   daily |-> 0, weekly |-> 0, total |-> 0, losses |-> 0,
   halted |-> FALSE, reason |-> "none", until |-> 0,
   dailyReset |-> NextMidnight(t), weeklyReset |-> NextMonday(t)]

\* A plausible bug: a new day also lifts whatever halt is in force.
DailyResetLiftsHalt(k, t) ==
  IF t >= k.dailyReset
  THEN [k EXCEPT !.daily = 0, !.dailyReset = NextMidnight(t),
                 !.halted = FALSE, !.reason = "none", !.until = 0]
  ELSE k

DailyReset(k, t) ==
  IF t >= k.dailyReset
  THEN [k EXCEPT !.daily = 0, !.dailyReset = NextMidnight(t)]
  ELSE k

WeeklyReset(k, t) ==
  IF t >= k.weeklyReset
  THEN [k EXCEPT !.weekly = 0, !.weeklyReset = NextMonday(t)]
  ELSE k

MaybeResetPeriods(k, t) == WeeklyReset(DailyReset(k, t), t)

-----------------------------------------------------------------------------
(* Kill switches.                                                          *)

Resumed(k) == [k EXCEPT !.halted = FALSE, !.reason = "none", !.until = 0]

HaltExpired(k, t) == k.halted /\ k.until > 0 /\ t >= k.until

\* _check_killswitch_active: an expired halt is lifted by whoever asks first.
CheckKillswitch(k, t) == IF HaltExpired(k, t) THEN Resumed(k) ELSE k

TriggerHalt(k, t, why, ticks) ==
  [k EXCEPT !.halted = TRUE, !.reason = why, !.until = t + ticks]

Loss(pnl) == IF pnl < 0 THEN -pnl ELSE 0

\* loss / equity >= pct%, as the code computes it for an equity other than 0:
\* against a negative equity the quotient is never positive.
Reaches(loss, equity, pct) == equity > 0 /\ 100 * loss >= pct * equity

DailyBreach(k)  == Reaches(Loss(k.daily), k.current, 5)
WeeklyBreach(k) == Reaches(Loss(k.weekly), k.current, 10)
TotalBreach(k)  == Reaches(k.peak - k.current, k.peak, 15)
\* A plausible bug: the streak limit is off by one.
StreakOfFour(k) == k.losses > 3

LosingStreak(k) == k.losses >= 3

Breached(k) ==
  DailyBreach(k) \/ WeeklyBreach(k) \/ TotalBreach(k) \/ LosingStreak(k)

\* A plausible bug: the daily halt lasts half a day, and may end in the day it
\* was called in.
EvaluateHalfDay(k, t) ==
  IF DailyBreach(k) THEN TriggerHalt(k, t, "daily_drawdown", Day \div 2)
  ELSE IF WeeklyBreach(k) THEN TriggerHalt(k, t, "weekly_drawdown", WeekDays * Day)
  ELSE IF TotalBreach(k) THEN TriggerHalt(k, t, "total_drawdown", Forever)
  ELSE IF LosingStreak(k)
       THEN [TriggerHalt(k, t, "consecutive_loss_cooldown", Day) EXCEPT !.losses = 0]
  ELSE k

\* The first limit that is breached decides the halt; only a pure streak halt
\* starts the count of losses again.
EvaluateKillswitches(k, t) ==
  IF DailyBreach(k) THEN TriggerHalt(k, t, "daily_drawdown", Day)
  ELSE IF WeeklyBreach(k) THEN TriggerHalt(k, t, "weekly_drawdown", WeekDays * Day)
  ELSE IF TotalBreach(k) THEN TriggerHalt(k, t, "total_drawdown", Forever)
  ELSE IF LosingStreak(k)
       THEN [TriggerHalt(k, t, "consecutive_loss_cooldown", Day) EXCEPT !.losses = 0]
  ELSE k

-----------------------------------------------------------------------------
(* Sizing and the verdict on one request.                                  *)

\* Basis points of equity a trade may risk: 1%, scaled down in stress.
RiskBps(stress) ==
  CASE stress = "s13"      -> 50
    [] stress = "high"     -> 70
    [] stress = "elevated" -> 85
    [] OTHER               -> 100

Least(a, b) == IF a <= b THEN a ELSE b

WellFormed(r) == r.size > 0 /\ 0 < r.stopLoss /\ r.stopLoss <= 25 /\ r.confident

\* A plausible bug: the position cap of layer 3 is forgotten.
SizeByRiskOnly(k, r) ==
  Least(r.size, (k.current * RiskBps(r.stress)) \div (100 * r.stopLoss))

SizeFor(k, r) ==
  Least(r.size, Least((k.current * RiskBps(r.stress)) \div (100 * r.stopLoss),
                      k.current \div 4))

MinOrder == 10

OverLeveraged(k, r) == r.leverage * k.current + SizeFor(k, r) > 3 * k.current

Verdict(k, r) ==
  IF k.halted
  THEN Answer("halted")
  ELSE IF ~WellFormed(r) \/ SizeFor(k, r) < MinOrder \/ OverLeveraged(k, r)
  THEN Answer("rejected")
  ELSE [decision |-> IF SizeFor(k, r) = r.size THEN "approved" ELSE "reduced_size",
        size |-> SizeFor(k, r), stopLoss |-> r.stopLoss]

-----------------------------------------------------------------------------
(* Persistence.                                                            *)

SaveState(k) == file' = IF persistent THEN k ELSE file

LoadState(f, t) == IF f = Unreadable THEN Fresh(t) ELSE f

-----------------------------------------------------------------------------
(* Operations.                                                             *)

Init ==
  /\ now = Epoch
  /\ kernel = Fresh(Epoch)
  /\ persistent \in Persistence
  /\ file = Unreadable
  /\ reply = Answer("done")
  /\ promise = 0
  /\ touched = FALSE
  /\ outcomes = 0

ApproveTrade(r) ==
  LET checked == CheckKillswitch(MaybeResetPeriods(kernel, now), now)
  IN  /\ kernel' = checked
      /\ reply' = Verdict(checked, r)
      /\ UNCHANGED <<now, persistent, file, promise, touched, outcomes>>

\* A plausible bug: a profit does not raise the peak.
BookedWithoutPeak(k, pnl) ==
  [k EXCEPT !.daily = @ + pnl, !.weekly = @ + pnl, !.total = @ + pnl,
            !.current = k.starting + k.total + pnl,
            !.losses = IF pnl < 0 THEN @ + 1 ELSE 0]

Booked(k, pnl) ==
  LET equity == k.starting + k.total + pnl
  IN  [k EXCEPT !.daily = @ + pnl, !.weekly = @ + pnl, !.total = @ + pnl,
                !.current = equity,
                !.peak = IF equity > @ THEN equity ELSE @,
                !.losses = IF pnl < 0 THEN @ + 1 ELSE 0]

\* At an equity of exactly 0 the drawdown quotient raises ZeroDivisionError:
\* the books are updated, but nothing is evaluated and nothing is saved.
RecordTradeOutcome(pnl) ==
  LET booked == Booked(kernel, pnl)
      judged == IF booked.current = 0 THEN booked ELSE EvaluateKillswitches(booked, now)
  IN  /\ outcomes < MaxOutcomes
      /\ outcomes' = outcomes + 1
      /\ kernel' = judged
      /\ promise' = IF booked.current # 0 /\ Breached(booked) THEN judged.until ELSE promise
      /\ IF booked.current = 0 THEN file' = file ELSE SaveState(judged)
      /\ reply' = Answer("done")
      /\ UNCHANGED <<now, persistent, touched>>

Reconciled(k, balance) ==
  IF balance = k.current THEN k
  ELSE [k EXCEPT !.current = balance, !.total = balance - k.starting,
                 !.peak = IF balance > @ THEN balance ELSE @]

UpdateEquityFromExternal(balance) ==
  /\ kernel' = Reconciled(kernel, balance)
  /\ SaveState(kernel')
  /\ reply' = Answer("done")
  /\ touched' = TRUE
  /\ UNCHANGED <<now, persistent, promise, outcomes>>

ManualHalt(ticks) ==
  /\ kernel' = TriggerHalt(kernel, now, "manual_halt", ticks)
  /\ promise' = now + ticks
  /\ SaveState(kernel')
  /\ reply' = Answer("done")
  /\ touched' = TRUE
  /\ UNCHANGED <<now, persistent, outcomes>>

\* A plausible bug: /resume lifts whatever halt is in force.
ResumeAnyHalt ==
  /\ kernel' = Resumed(kernel)
  /\ reply' = Answer("resumed")
  /\ promise' = 0
  /\ touched' = TRUE
  /\ SaveState(kernel')
  /\ UNCHANGED <<now, persistent, outcomes>>

ManualResume ==
  /\ \/ /\ kernel.reason = "manual_halt"
        /\ kernel' = Resumed(kernel)
        /\ reply' = Answer("resumed")
        /\ promise' = 0
        /\ touched' = TRUE
        /\ SaveState(kernel')
     \/ /\ kernel.reason # "manual_halt"
        /\ reply' = Answer("refused")
        /\ UNCHANGED <<kernel, promise, touched, file>>
  /\ UNCHANGED <<now, persistent, outcomes>>

GetStatus ==
  /\ kernel' = CheckKillswitch(kernel, now)
  /\ reply' = Answer("done")
  /\ UNCHANGED <<now, persistent, file, promise, touched, outcomes>>

\* The code binds "trading is active" to a name is_halted and negates it.
IsTradingAllowed ==
  /\ kernel' = CheckKillswitch(kernel, now)
  /\ reply' = Answer(IF kernel'.halted THEN "yes" ELSE "no")
  /\ UNCHANGED <<now, persistent, file, promise, touched, outcomes>>

\* The process dies and starts again: memory is rebuilt from the file, if there
\* is one.  Only the file carries an announced halt over.
Restart ==
  /\ kernel' = IF persistent THEN LoadState(file, now) ELSE Fresh(now)
  /\ promise' = IF persistent THEN promise ELSE 0
  /\ reply' = Answer("started")
  /\ UNCHANGED <<now, persistent, file, touched, outcomes>>

\* The process dies inside write_text, which has already truncated the file.
DieWhileSaving ==
  /\ persistent
  /\ file' = Unreadable
  /\ kernel' = Fresh(now)
  /\ promise' = 0
  /\ reply' = Answer("started")
  /\ UNCHANGED <<now, persistent, touched, outcomes>>

Tick ==
  /\ now < MaxTime
  /\ now' = now + 1
  /\ reply' = Answer("done")
  /\ UNCHANGED <<kernel, persistent, file, promise, touched, outcomes>>

Next ==
  \/ \E r \in Requests : ApproveTrade(r)
  \/ \E pnl \in Pnls : RecordTradeOutcome(pnl)
  \/ \E b \in Balances : UpdateEquityFromExternal(b)
  \/ \E h \in HaltTicks : ManualHalt(h)
  \/ ManualResume
  \/ GetStatus
  \/ IsTradingAllowed
  \/ Restart
  \/ DieWhileSaving
  \/ Tick

Spec == Init /\ [][Next]_vars
-----------------------------------------------------------------------------
(* Properties.                                                             *)

\* The three equity figures stay one account: current equity is the starting
\* equity plus the total PnL, and the peak is never below either of them, through
\* trades, reconciliations, torn saves and restarts (record_trade_outcome,
\* update_equity_from_external, _load_state).
Accounting ==
  /\ kernel.current = kernel.starting + kernel.total
  /\ kernel.peak >= kernel.current
  /\ kernel.peak >= kernel.starting

\* A kernel that is not halted has served the last halt it announced, in full,
\* unless an operator lifted a manual one or a restart lost it: no period reset,
\* later outcome, status query or restart from the state file ends a halt early
\* (_check_killswitch_active, _trigger_halt, _load_state).
HaltHonoured == ~kernel.halted => now >= promise

Granted == reply.decision \in {"approved", "reduced_size"}

\* No request is granted before the announced end of the last halt, none at a
\* non-positive equity, and a granted size risks at most 1% of equity at its stop
\* and at most a quarter of equity in all (approve_trade, layers 1 to 4).
GrantWithinLimits ==
  Granted =>
    /\ now >= promise
    /\ kernel.current > 0
    /\ reply.size >= MinOrder
    /\ reply.size * reply.stopLoss <= kernel.current
    /\ 4 * reply.size <= kernel.current

\* Three losses in a row always end in a halt of a day or more, whichever limit
\* answers first and whatever the equity, other than exactly 0, has become
\* (the early returns of _evaluate_killswitches skip the streak test).
StreakHalts ==
  [][\A pnl \in Pnls :
       RecordTradeOutcome(pnl) /\ pnl < 0 /\ kernel.losses >= 2 /\ kernel'.current # 0
         => kernel'.halted /\ kernel'.until >= now + Day]_vars

\* Unless a hand has reached the kernel, no request is granted while today's loss
\* stands at 5% of equity or more: a daily halt always outlasts the period in which
\* the loss was made, through later outcomes, status queries and restarts
\* (_evaluate_killswitches against _maybe_reset_periods).
DailyLimitStops == Granted /\ ~touched => ~DailyBreach(kernel)

\* The kernel implements the circuit breaker: the breaker's cause and deadline are
\* those of the halt in memory, and its events are the replies.
Cause ==
  IF ~kernel.halted THEN "none"
  ELSE IF kernel.reason = "manual_halt" THEN "manual" ELSE "automatic"

LastEvent ==
  CASE Granted -> "granted"
    [] reply.decision = "resumed" -> "lifted"
    [] reply.decision = "started" -> "booted"
    [] OTHER -> "other"

Breaker == INSTANCE CircuitBreaker WITH
  clock <- now, cause <- Cause, until <- kernel.until, last <- LastEvent

ImplementsBreaker == Breaker!Spec

\* "15% -- total drawdown halts pending review" (line 48), "Indef. -- manual
\* review" (line 499): once the account is 15% below its peak no trade is granted
\* until a hand has reached the kernel.
TotalDrawdownStops == Granted /\ ~touched => ~TotalBreach(kernel)

\* "Returns True if RiskKernel allows new trades (no active killswitch)".
AllowedMeansActive == reply.decision = "yes" => ~kernel.halted
=============================================================================
