-------------------------- MODULE RiskKernelProofs --------------------------
(***************************************************************************)
(* Theorems about RiskKernel for every equity, outcome set, halt length    *)
(* and calendar: the invariants of the run MCRiskKernel, and that the      *)
(* kernel implements CircuitBreaker.                                       *)
(***************************************************************************)
EXTENDS RiskKernel, TLAPS

USE DEF RequestType, ReplyType

-----------------------------------------------------------------------------
(* The inductive invariant, conjunct by conjunct.                          *)

\* What holds of a kernel object wherever it is kept, in memory or on disk.
Sound(k) ==
  /\ k.current = k.starting + k.total
  /\ k.peak >= k.current /\ k.peak >= k.starting
  /\ k.halted <=> k.reason # "none"
  /\ ~k.halted => k.until = 0
  /\ k.starting > 0

\* A halt in force at tick t is the one last announced, to last until p; without
\* one that promise is served.
Serves(k, t, p) ==
  /\ k.halted => k.until = p
  /\ ~k.halted => t >= p

\* At tick t, a daily breach no hand made is answered by a halt that outlasts the
\* day it was made in.
DayCovered(k, t, hand) ==
  /\ k.dailyReset <= t + Day
  /\ ~hand /\ DailyBreach(k) =>
       t >= k.dailyReset \/ (k.halted /\ k.until >= k.dailyReset)

Good(k, t, p, hand) == Sound(k) /\ Serves(k, t, p) /\ DayCovered(k, t, hand)

KernelInv == Good(kernel, now, promise, touched)

\* A file that can be read holds as good a kernel, shut for the same reason when
\* both are shut; a kernel whose file cannot be read has promised nothing.
FileInv ==
  /\ file # Unreadable =>
       /\ persistent /\ Good(file, now, promise, touched)
       /\ file.halted /\ kernel.halted => file.reason = kernel.reason
  /\ persistent /\ file = Unreadable => promise = 0

IInv == TypeOK /\ KernelInv /\ FileInv /\ GrantWithinLimits /\ DailyLimitStops

-----------------------------------------------------------------------------
(* Lemmas about the operators.                                             *)

\* The calendar: the next midnight is ahead, at most a day; the next Monday is a tick.
LEMMA Calendar ==
  ASSUME NEW t \in Nat
  PROVE  /\ NextMidnight(t) \in Nat
         /\ t < NextMidnight(t) /\ NextMidnight(t) <= t + Day
         /\ NextMonday(t) \in Nat
  BY TimeAssumption DEF NextMidnight, NextMonday

\* A fresh kernel is sound and not halted.
LEMMA FreshSound ==
  ASSUME NEW t \in Nat
  PROVE  /\ Fresh(t) \in KernelState /\ Fresh(t) # Unreadable
         /\ Sound(Fresh(t))
         /\ ~Fresh(t).halted
         /\ Fresh(t).daily = 0 /\ Fresh(t).dailyReset = NextMidnight(t)
  BY MoneyAssumption, Calendar DEF Fresh, KernelState, Unreadable, Sound, Reasons

\* A kernel object is never mistaken for an unreadable file.
LEMMA ReadableState ==
  ASSUME NEW k \in KernelState
  PROVE  k # Unreadable
  BY DEF KernelState, Unreadable

\* Typing of the updates the operators make.
LEMMA SetDaily ==
  ASSUME NEW k \in KernelState, NEW x \in Int, NEW n \in Nat
  PROVE  [k EXCEPT !.daily = x, !.dailyReset = n] \in KernelState
  BY DEF KernelState

\* The weekly period replaced by another one.
LEMMA SetWeekly ==
  ASSUME NEW k \in KernelState, NEW x \in Int, NEW n \in Nat
  PROVE  [k EXCEPT !.weekly = x, !.weeklyReset = n] \in KernelState
  BY DEF KernelState

\* The halt replaced by another one.
LEMMA SetHalt ==
  ASSUME NEW k \in KernelState, NEW b \in BOOLEAN, NEW r \in Reasons, NEW n \in Nat
  PROVE  [k EXCEPT !.halted = b, !.reason = r, !.until = n] \in KernelState
  BY DEF KernelState

\* The count of losses replaced.
LEMMA SetLosses ==
  ASSUME NEW k \in KernelState, NEW n \in Nat
  PROVE  [k EXCEPT !.losses = n] \in KernelState
  BY DEF KernelState

\* The books replaced by other figures.
LEMMA SetBooks ==
  ASSUME NEW k \in KernelState, NEW d \in Int, NEW w \in Int, NEW u \in Int,
         NEW c \in Int, NEW p \in Int, NEW n \in Nat
  PROVE  [k EXCEPT !.daily = d, !.weekly = w, !.total = u, !.current = c,
                   !.peak = p, !.losses = n] \in KernelState
  BY DEF KernelState

\* The equity replaced by a balance.
LEMMA SetEquity ==
  ASSUME NEW k \in KernelState, NEW c \in Int, NEW u \in Int, NEW p \in Int
  PROVE  [k EXCEPT !.current = c, !.total = u, !.peak = p] \in KernelState
  BY DEF KernelState

\* No loss today, no daily breach.
LEMMA NoLossNoBreach ==
  ASSUME NEW k \in KernelState, k.daily = 0
  PROVE  ~DailyBreach(k)
  BY DEF DailyBreach, Reaches, Loss, KernelState

\* The period resets touch the daily and weekly books and their deadlines only.
LEMMA ResetPeriods ==
  ASSUME NEW k \in KernelState, NEW t \in Nat
  PROVE  LET m == MaybeResetPeriods(k, t)
         IN  /\ m \in KernelState
             /\ m.starting = k.starting /\ m.current = k.current /\ m.total = k.total
             /\ m.peak = k.peak /\ m.losses = k.losses
             /\ m.halted = k.halted /\ m.reason = k.reason /\ m.until = k.until
             /\ t < k.dailyReset => m.daily = k.daily /\ m.dailyReset = k.dailyReset
             /\ t >= k.dailyReset => m.daily = 0 /\ m.dailyReset = NextMidnight(t)
  <1> DEFINE d == DailyReset(k, t)
  <1>1. d \in KernelState
    <2>1. [k EXCEPT !.daily = 0, !.dailyReset = NextMidnight(t)] \in KernelState
      <3>1. 0 \in Int /\ NextMidnight(t) \in Nat
        BY Calendar
      <3>2. QED
        BY <3>1, SetDaily, Zenon
    <2>2. QED
      BY <2>1 DEF DailyReset
  <1>2. /\ d.starting = k.starting /\ d.current = k.current /\ d.total = k.total
        /\ d.peak = k.peak /\ d.losses = k.losses
        /\ d.halted = k.halted /\ d.reason = k.reason /\ d.until = k.until
        /\ t < k.dailyReset => d.daily = k.daily /\ d.dailyReset = k.dailyReset
        /\ t >= k.dailyReset => d.daily = 0 /\ d.dailyReset = NextMidnight(t)
    BY DEF DailyReset, KernelState
  <1> HIDE DEF d
  <1> DEFINE m == WeeklyReset(d, t)
  <1>3. m \in KernelState
    <2>1. [d EXCEPT !.weekly = 0, !.weeklyReset = NextMonday(t)] \in KernelState
      <3>1. 0 \in Int /\ NextMonday(t) \in Nat
        BY Calendar
      <3>2. QED
        BY <1>1, <3>1, SetWeekly, Zenon
    <2>2. QED
      BY <1>1, <2>1 DEF WeeklyReset
  <1>4. /\ m.starting = d.starting /\ m.current = d.current /\ m.total = d.total
        /\ m.peak = d.peak /\ m.losses = d.losses
        /\ m.halted = d.halted /\ m.reason = d.reason /\ m.until = d.until
        /\ m.daily = d.daily /\ m.dailyReset = d.dailyReset
    BY <1>1 DEF WeeklyReset, KernelState
  <1>5. MaybeResetPeriods(k, t) = m
    BY DEF MaybeResetPeriods, m, d
  <1> HIDE DEF m
  <1>6. QED
    BY <1>2, <1>3, <1>4, <1>5

\* Asking for the kill switch changes nothing but an expired halt.
LEMMA Checking ==
  ASSUME NEW k \in KernelState, NEW t \in Nat
  PROVE  LET c == CheckKillswitch(k, t)
         IN  /\ c \in KernelState
             /\ c.starting = k.starting /\ c.current = k.current /\ c.total = k.total
             /\ c.peak = k.peak /\ c.losses = k.losses
             /\ c.daily = k.daily /\ c.weekly = k.weekly
             /\ c.dailyReset = k.dailyReset
             /\ \/ c = k /\ ~HaltExpired(k, t)
                \/ /\ HaltExpired(k, t)
                   /\ ~c.halted /\ c.reason = "none" /\ c.until = 0
  BY DEF CheckKillswitch, Resumed, HaltExpired, KernelState, Reasons

\* Evaluating the kill switches changes the halt and the streak only, halts on
\* every breach, and for a day or more.
LEMMA Evaluating ==
  ASSUME NEW k \in KernelState, NEW t \in Nat
  PROVE  LET e == EvaluateKillswitches(k, t)
         IN  /\ e \in KernelState
             /\ e.starting = k.starting /\ e.current = k.current /\ e.total = k.total
             /\ e.peak = k.peak
             /\ e.daily = k.daily /\ e.dailyReset = k.dailyReset
             /\ ~Breached(k) => e = k
             /\ Breached(k) => /\ e.halted /\ e.until >= t
                               /\ e.reason \notin {"none", "manual_halt"}
             /\ DailyBreach(k) => e.until = t + Day
  <1> DEFINE h(why, ticks) == TriggerHalt(k, t, why, ticks)
  <1>1. \A why \in Reasons \ {"none", "manual_halt"}, ticks \in Nat :
          /\ h(why, ticks) \in KernelState
          /\ h(why, ticks).starting = k.starting /\ h(why, ticks).current = k.current
          /\ h(why, ticks).total = k.total /\ h(why, ticks).peak = k.peak
          /\ h(why, ticks).daily = k.daily /\ h(why, ticks).dailyReset = k.dailyReset
          /\ h(why, ticks).halted /\ h(why, ticks).reason = why
          /\ h(why, ticks).until = t + ticks
    <2> SUFFICES ASSUME NEW why \in Reasons \ {"none", "manual_halt"}, NEW ticks \in Nat
                 PROVE  /\ h(why, ticks) \in KernelState
                        /\ h(why, ticks).starting = k.starting
                        /\ h(why, ticks).current = k.current
                        /\ h(why, ticks).total = k.total /\ h(why, ticks).peak = k.peak
                        /\ h(why, ticks).daily = k.daily
                        /\ h(why, ticks).dailyReset = k.dailyReset
                        /\ h(why, ticks).halted /\ h(why, ticks).reason = why
                        /\ h(why, ticks).until = t + ticks
      OBVIOUS
    <2>1. TRUE \in BOOLEAN /\ why \in Reasons /\ t + ticks \in Nat
      OBVIOUS
    <2>2. [k EXCEPT !.halted = TRUE, !.reason = why, !.until = t + ticks] \in KernelState
      BY <2>1, SetHalt, Zenon
    <2>3. QED
      BY <2>2 DEF TriggerHalt, KernelState
  <1> HIDE DEF h
  <1>2. {"daily_drawdown", "weekly_drawdown", "total_drawdown",
         "consecutive_loss_cooldown"} \subseteq Reasons \ {"none", "manual_halt"}
    BY DEF Reasons
  <1>3. Day \in Nat /\ WeekDays * Day \in Nat /\ Forever \in Nat
    BY TimeAssumption
  <1> DEFINE c == [h("consecutive_loss_cooldown", Day) EXCEPT !.losses = 0]
  <1>4. /\ c \in KernelState
        /\ c.starting = k.starting /\ c.current = k.current /\ c.total = k.total
        /\ c.peak = k.peak /\ c.daily = k.daily /\ c.dailyReset = k.dailyReset
        /\ c.halted /\ c.reason = "consecutive_loss_cooldown" /\ c.until = t + Day
    <2>1. h("consecutive_loss_cooldown", Day) \in KernelState
      BY <1>1, <1>2, <1>3
    <2>2. QED
      BY <1>1, <1>2, <1>3, <2>1, SetLosses DEF KernelState
  <1> HIDE DEF c
  <1>5. EvaluateKillswitches(k, t) =
          IF DailyBreach(k) THEN h("daily_drawdown", Day)
          ELSE IF WeeklyBreach(k) THEN h("weekly_drawdown", WeekDays * Day)
          ELSE IF TotalBreach(k) THEN h("total_drawdown", Forever)
          ELSE IF LosingStreak(k) THEN c
          ELSE k
    BY DEF EvaluateKillswitches, c, h
  <1>6. QED
    BY <1>1, <1>2, <1>3, <1>4, <1>5 DEF Breached

\* Booking an outcome keeps the account in balance and the halt as it was.
LEMMA Booking ==
  ASSUME NEW k \in KernelState, Sound(k), NEW pnl \in Int
  PROVE  /\ Booked(k, pnl) \in KernelState
         /\ Sound(Booked(k, pnl))
         /\ Booked(k, pnl).dailyReset = k.dailyReset
         /\ Booked(k, pnl).halted = k.halted
         /\ Booked(k, pnl).until = k.until
         /\ Booked(k, pnl).reason = k.reason
  <1> DEFINE equity == k.starting + k.total + pnl
             peak == IF equity > k.peak THEN equity ELSE k.peak
             losses == IF pnl < 0 THEN k.losses + 1 ELSE 0
  <1>1. /\ k.daily + pnl \in Int /\ k.weekly + pnl \in Int /\ k.total + pnl \in Int
        /\ equity \in Int /\ peak \in Int /\ losses \in Nat
        /\ peak >= equity /\ peak >= k.peak
    BY DEF KernelState
  <1>2. Booked(k, pnl) =
          [k EXCEPT !.daily = k.daily + pnl, !.weekly = k.weekly + pnl,
                    !.total = k.total + pnl, !.current = equity, !.peak = peak,
                    !.losses = losses]
    BY DEF Booked
  <1> HIDE DEF equity, peak, losses
  <1>3. Booked(k, pnl) \in KernelState
    <2>1. [k EXCEPT !.daily = k.daily + pnl, !.weekly = k.weekly + pnl,
                    !.total = k.total + pnl, !.current = equity, !.peak = peak,
                    !.losses = losses] \in KernelState
      BY <1>1, SetBooks, Zenon
    <2>2. QED
      BY <1>2, <2>1, Zenon
  <1>4. /\ Booked(k, pnl).total = k.total + pnl
        /\ Booked(k, pnl).current = equity /\ Booked(k, pnl).peak = peak
        /\ Booked(k, pnl).starting = k.starting
        /\ Booked(k, pnl).dailyReset = k.dailyReset
        /\ Booked(k, pnl).halted = k.halted
        /\ Booked(k, pnl).until = k.until
        /\ Booked(k, pnl).reason = k.reason
    BY <1>2 DEF KernelState
  <1>5. equity = k.starting + (k.total + pnl)
    BY DEF equity, KernelState
  <1>6. QED
    BY <1>1, <1>3, <1>4, <1>5 DEF Sound, KernelState

\* Reconciling keeps the account in balance and the halt as it was.
LEMMA Reconciling ==
  ASSUME NEW k \in KernelState, Sound(k), NEW b \in Int
  PROVE  /\ Reconciled(k, b) \in KernelState
         /\ Sound(Reconciled(k, b))
         /\ Reconciled(k, b).dailyReset = k.dailyReset
         /\ Reconciled(k, b).halted = k.halted
         /\ Reconciled(k, b).until = k.until
         /\ Reconciled(k, b).reason = k.reason
  <1>1. CASE b = k.current
    BY <1>1 DEF Reconciled
  <1>2. CASE b # k.current
    <2> DEFINE peak == IF b > k.peak THEN b ELSE k.peak
    <2>1. b - k.starting \in Int /\ peak \in Int /\ peak >= b /\ peak >= k.peak
      BY DEF KernelState
    <2>2. Reconciled(k, b) = [k EXCEPT !.current = b, !.total = b - k.starting, !.peak = peak]
      BY <1>2 DEF Reconciled
    <2> HIDE DEF peak
    <2>3. [k EXCEPT !.current = b, !.total = b - k.starting, !.peak = peak] \in KernelState
      BY <2>1, SetEquity, Zenon
    <2>4. QED
      BY <2>1, <2>2, <2>3 DEF Sound, KernelState
  <1>3. QED
    BY <1>1, <1>2

\* Lifting a halt leaves a sound kernel that is not halted.
LEMMA Resuming ==
  ASSUME NEW k \in KernelState, Sound(k)
  PROVE  /\ Resumed(k) \in KernelState /\ Sound(Resumed(k))
         /\ ~Resumed(k).halted /\ Resumed(k).until = 0
         /\ Resumed(k).dailyReset = k.dailyReset
  <1>1. FALSE \in BOOLEAN /\ "none" \in Reasons /\ 0 \in Nat
    BY DEF Reasons
  <1>2. Resumed(k) \in KernelState
    BY <1>1, SetHalt, Zenon DEF Resumed
  <1>3. QED
    BY <1>2 DEF Resumed, Sound, KernelState

\* A manual halt shuts a sound kernel and leaves its books alone.
LEMMA Halting ==
  ASSUME NEW k \in KernelState, Sound(k), NEW t \in Nat, NEW ticks \in Nat
  PROVE  LET h == TriggerHalt(k, t, "manual_halt", ticks)
         IN  /\ h \in KernelState /\ Sound(h)
             /\ h.halted /\ h.reason = "manual_halt" /\ h.until = t + ticks
             /\ h.dailyReset = k.dailyReset
  <1>1. TRUE \in BOOLEAN /\ "manual_halt" \in Reasons /\ t + ticks \in Nat
    BY DEF Reasons
  <1>2. TriggerHalt(k, t, "manual_halt", ticks) \in KernelState
    BY <1>1, SetHalt, Zenon DEF TriggerHalt
  <1>3. QED
    BY <1>2 DEF TriggerHalt, Sound, KernelState

\* A size is a whole number under the risk cap and the position cap.
LEMMA SizeCaps ==
  ASSUME NEW k \in KernelState, NEW r \in Requests, WellFormed(r)
  PROVE  /\ SizeFor(k, r) \in Int
         /\ SizeFor(k, r) <= (k.current * RiskBps(r.stress)) \div (100 * r.stopLoss)
         /\ SizeFor(k, r) <= k.current \div 4
  <1> DEFINE q == (k.current * RiskBps(r.stress)) \div (100 * r.stopLoss)
             c == k.current \div 4
  <1>1. /\ r.size \in Int /\ k.current \in Int /\ r.stopLoss \in 1 .. 25
        /\ RiskBps(r.stress) \in {50, 70, 85, 100}
    BY RequestAssumption DEF KernelState, WellFormed, RiskBps
  <1>2. q \in Int /\ c \in Int
    BY <1>1
  <1>3. SizeFor(k, r) = Least(r.size, Least(q, c))
    BY DEF SizeFor
  <1> HIDE DEF q, c
  <1>4. SizeFor(k, r) \in Int /\ SizeFor(k, r) <= q /\ SizeFor(k, r) <= c
    BY <1>1, <1>2, <1>3 DEF Least
  <1>5. QED
    BY <1>4 DEF q, c

\* A size of at least the smallest order is granted by a solvent account only, and
\* its caps are a quarter of equity, and 1% of equity at the stop.
LEMMA Sizing ==
  ASSUME NEW k \in KernelState, NEW r \in Requests, WellFormed(r),
         SizeFor(k, r) >= MinOrder
  PROVE  /\ k.current > 0
         /\ SizeFor(k, r) * r.stopLoss <= k.current
         /\ 4 * SizeFor(k, r) <= k.current
  <1> DEFINE equity == k.current
             stop == r.stopLoss
             bps == RiskBps(r.stress)
             size == SizeFor(k, r)
  <1>1. equity \in Int /\ stop \in 1 .. 25 /\ bps \in {50, 70, 85, 100}
    BY RequestAssumption DEF KernelState, WellFormed, RiskBps
  <1>2. size \in Int /\ size <= (equity * bps) \div (100 * stop) /\ size <= equity \div 4
    BY SizeCaps
  <1>3. size >= 10
    BY DEF MinOrder
  <1> HIDE DEF equity, stop, bps, size
  <1>4. 4 * size <= equity
    BY <1>1, <1>2
  <1>5. equity > 0
    BY <1>1, <1>2, <1>3, <1>4
  <1>6. 100 * stop * size <= equity * bps
    BY <1>1, <1>2
  <1>7. equity * bps <= 100 * equity
    BY <1>1, <1>5
  <1>8. size * stop <= equity
    BY <1>1, <1>2, <1>6, <1>7
  <1>9. QED
    BY <1>4, <1>5, <1>8 DEF size, equity, stop

\* Resetting the periods and asking for the kill switch keep a kernel good; and
\* what they leave open stands on no daily breach.
LEMMA Refreshing ==
  ASSUME NEW k \in KernelState, NEW t \in Nat, NEW p \in Nat, NEW hand \in BOOLEAN,
         Good(k, t, p, hand)
  PROVE  LET c == CheckKillswitch(k, t)
             m == CheckKillswitch(MaybeResetPeriods(k, t), t)
         IN  /\ c \in KernelState /\ Good(c, t, p, hand)
             /\ m \in KernelState /\ Good(m, t, p, hand)
             /\ ~m.halted /\ ~hand => ~DailyBreach(m)
             /\ c.halted => k.halted /\ c.reason = k.reason /\ c.until = k.until
             /\ ~c.halted => ~k.halted \/ HaltExpired(k, t)
             /\ m.halted => k.halted /\ m.reason = k.reason /\ m.until = k.until
             /\ ~m.halted => ~k.halted \/ HaltExpired(k, t)
  <1>1. ASSUME NEW x \in KernelState, Good(x, t, p, hand)
        PROVE  LET c == CheckKillswitch(x, t)
               IN  /\ c \in KernelState /\ Good(c, t, p, hand)
                   /\ c.dailyReset = x.dailyReset
                   /\ ~c.halted /\ ~hand /\ t < x.dailyReset => ~DailyBreach(c)
                   /\ c.halted => x.halted /\ c.reason = x.reason /\ c.until = x.until
                   /\ ~c.halted => ~x.halted \/ HaltExpired(x, t)
    <2> DEFINE c == CheckKillswitch(x, t)
    <2>1. /\ c \in KernelState
          /\ c.starting = x.starting /\ c.current = x.current /\ c.total = x.total
          /\ c.peak = x.peak /\ c.daily = x.daily /\ c.dailyReset = x.dailyReset
          /\ \/ c = x
             \/ /\ HaltExpired(x, t)
                /\ ~c.halted /\ c.reason = "none" /\ c.until = 0
      BY Checking
    <2> HIDE DEF c
    <2>2. DailyBreach(c) = DailyBreach(x)
      BY <2>1 DEF DailyBreach
    <2>3. CASE c = x
      BY <1>1, <2>1, <2>2, <2>3 DEF Good, DayCovered, c, KernelState
    <2>4. CASE HaltExpired(x, t) /\ ~c.halted /\ c.reason = "none" /\ c.until = 0
      <3>1. Sound(c)
        BY <1>1, <2>1, <2>4 DEF Good, Sound, KernelState
      <3>2. t >= x.until /\ x.until = p /\ x.dailyReset \in Nat /\ x.until \in Nat
        BY <1>1, <2>4 DEF Good, Serves, HaltExpired, KernelState
      <3>3. ~hand /\ DailyBreach(c) => t >= c.dailyReset
        BY <1>1, <2>1, <2>2, <3>2 DEF Good, DayCovered
      <3>4. QED
        BY <1>1, <2>1, <2>4, <3>1, <3>2, <3>3 DEF Good, Serves, DayCovered, c
    <2>5. QED
      BY <2>1, <2>3, <2>4
  <1> DEFINE d == MaybeResetPeriods(k, t)
  <1>2. /\ d \in KernelState
        /\ d.starting = k.starting /\ d.current = k.current /\ d.total = k.total
        /\ d.peak = k.peak
        /\ d.halted = k.halted /\ d.reason = k.reason /\ d.until = k.until
        /\ t < k.dailyReset => d.daily = k.daily /\ d.dailyReset = k.dailyReset
        /\ t >= k.dailyReset => d.daily = 0 /\ d.dailyReset = NextMidnight(t)
    BY ResetPeriods
  <1>3. NextMidnight(t) \in Nat /\ t < NextMidnight(t) /\ NextMidnight(t) <= t + Day
    BY Calendar
  <1> HIDE DEF d
  <1>4. t < d.dailyReset
    BY <1>2, <1>3 DEF KernelState
  <1>5. Good(d, t, p, hand)
    <2>1. Sound(d) /\ Serves(d, t, p)
      BY <1>2 DEF Good, Sound, Serves
    <2>2. CASE t < k.dailyReset
      <3>1. DailyBreach(d) = DailyBreach(k)
        BY <1>2, <2>2 DEF DailyBreach
      <3>2. QED
        BY <1>2, <2>1, <2>2, <3>1 DEF Good, DayCovered
    <2>3. CASE t >= k.dailyReset
      <3>1. ~DailyBreach(d)
        BY <1>2, <2>3, NoLossNoBreach
      <3>2. QED
        BY <1>2, <1>3, <2>1, <2>3, <3>1 DEF Good, DayCovered
    <2>4. QED
      BY <2>2, <2>3 DEF KernelState
  <1>6. HaltExpired(d, t) = HaltExpired(k, t)
    BY <1>2 DEF HaltExpired
  <1>7. LET m == CheckKillswitch(d, t)
        IN  /\ m \in KernelState /\ Good(m, t, p, hand)
            /\ ~m.halted /\ ~hand => ~DailyBreach(m)
            /\ m.halted => k.halted /\ m.reason = k.reason /\ m.until = k.until
            /\ ~m.halted => ~k.halted \/ HaltExpired(k, t)
    BY <1>1, <1>2, <1>4, <1>5, <1>6
  <1>8. QED
    BY <1>1, <1>7 DEF d

\* A fresh kernel is good for any promise that is served.
LEMMA FreshGood ==
  ASSUME NEW t \in Nat, NEW p \in Nat, p <= t, NEW hand \in BOOLEAN
  PROVE  Fresh(t) \in KernelState /\ Good(Fresh(t), t, p, hand)
  <1>1. ~DailyBreach(Fresh(t))
    BY FreshSound, NoLossNoBreach
  <1>2. QED
    BY <1>1, FreshSound, Calendar DEF Good, Serves, DayCovered

\* Saving a good kernel keeps the state file good.
LEMMA Saving ==
  ASSUME TypeOK, FileInv, NEW k \in KernelState, SaveState(k),
         kernel' = k, UNCHANGED persistent, Good(k, now', promise', touched')
  PROVE  file' \in KernelState \cup {Unreadable} /\ FileInv'
  <1>1. CASE persistent
    BY <1>1, ReadableState DEF SaveState, FileInv, TypeOK
  <1>2. CASE ~persistent
    BY <1>2 DEF SaveState, FileInv, TypeOK
  <1>3. QED
    BY <1>1, <1>2

\* An answer other than a grant is a typed reply and grants nothing.
LEMMA Denying ==
  ASSUME NEW what \in Decisions \ {"approved", "reduced_size"}, reply' = Answer(what)
  PROVE  /\ reply' \in ReplyType
         /\ ~Granted' /\ GrantWithinLimits' /\ DailyLimitStops'
  BY DEF Answer, Granted, GrantWithinLimits, DailyLimitStops

\* A trade is granted by an open kernel only, within its limits.
LEMMA Granting ==
  ASSUME TypeOK, NEW k \in KernelState, NEW r \in Requests,
         Good(k, now, promise, touched),
         ~k.halted /\ ~touched => ~DailyBreach(k),
         kernel' = k, reply' = Verdict(k, r), UNCHANGED <<now, promise, touched>>
  PROVE  /\ reply' \in ReplyType
         /\ GrantWithinLimits' /\ DailyLimitStops'
  <1>1. CASE k.halted \/ ~WellFormed(r) \/ SizeFor(k, r) < MinOrder \/ OverLeveraged(k, r)
    <2>1. reply' \in {Answer("halted"), Answer("rejected")}
      BY <1>1 DEF Verdict
    <2>2. {"halted", "rejected"} \subseteq Decisions \ {"approved", "reduced_size"}
      BY DEF Decisions
    <2>3. QED
      BY <2>1, <2>2, Denying
  <1>2. CASE ~k.halted /\ WellFormed(r) /\ ~(SizeFor(k, r) < MinOrder) /\ ~OverLeveraged(k, r)
    <2> DEFINE size == SizeFor(k, r)
               verdict == IF size = r.size THEN "approved" ELSE "reduced_size"
    <2>1. reply' = [decision |-> verdict, size |-> size, stopLoss |-> r.stopLoss]
      BY <1>2 DEF Verdict
    <2>2. /\ size \in Int /\ k.current > 0
          /\ size * r.stopLoss <= k.current /\ 4 * size <= k.current
          /\ size >= MinOrder
      <3>1. SizeFor(k, r) \in Int
        BY <1>2, SizeCaps
      <3>2. SizeFor(k, r) >= MinOrder
        BY <1>2, <3>1 DEF MinOrder
      <3>3. QED
        BY <1>2, <3>1, <3>2, Sizing
    <2>3. verdict \in Decisions /\ r.stopLoss \in Int
      BY RequestAssumption DEF Decisions
    <2> HIDE DEF size, verdict
    <2>4. now >= promise
      BY <1>2 DEF Good, Serves
    <2>5. QED
      BY <1>2, <2>1, <2>2, <2>3, <2>4 DEF GrantWithinLimits, DailyLimitStops, Granted
  <1>3. QED
    BY <1>1, <1>2

-----------------------------------------------------------------------------
(* The invariant is inductive.                                             *)

\* The invariant holds when the process first starts.
LEMMA InitInv == Init => IInv
  <1> SUFFICES ASSUME Init PROVE IInv
    OBVIOUS
  <1>1. Epoch \in Nat /\ 0 \in Nat /\ 0 <= Epoch /\ FALSE \in BOOLEAN
    BY TimeAssumption
  <1>2. Fresh(Epoch) \in KernelState /\ Good(Fresh(Epoch), Epoch, 0, FALSE)
    BY <1>1, FreshGood
  <1>3. ~Granted /\ reply \in ReplyType
    BY DEF Init, Answer, Granted, Decisions
  <1>4. QED
    BY <1>1, <1>2, <1>3
    DEF Init, IInv, TypeOK, KernelInv, FileInv, GrantWithinLimits, DailyLimitStops

\* A trade request keeps the invariant.
LEMMA ApproveTradeInv ==
  ASSUME IInv, NEW r \in Requests, ApproveTrade(r)
  PROVE  IInv'
  <1> DEFINE k == CheckKillswitch(MaybeResetPeriods(kernel, now), now)
  <1>1. /\ kernel \in KernelState /\ now \in Nat /\ promise \in Nat /\ touched \in BOOLEAN
        /\ Good(kernel, now, promise, touched)
    BY DEF IInv, TypeOK, KernelInv
  <1>2. /\ k \in KernelState /\ Good(k, now, promise, touched)
        /\ ~k.halted /\ ~touched => ~DailyBreach(k)
        /\ k.halted => kernel.halted /\ k.reason = kernel.reason
    BY <1>1, Refreshing
  <1>3. /\ kernel' = k /\ reply' = Verdict(k, r)
        /\ UNCHANGED <<now, persistent, file, promise, touched, outcomes>>
    BY DEF ApproveTrade
  <1> HIDE DEF k
  <1>4. /\ reply' \in ReplyType
        /\ GrantWithinLimits' /\ DailyLimitStops'
    BY <1>2, <1>3, Granting DEF IInv
  <1>5. QED
    BY <1>2, <1>3, <1>4 DEF IInv, TypeOK, KernelInv, FileInv

\* A recorded outcome keeps the invariant.
LEMMA RecordTradeOutcomeInv ==
  ASSUME IInv, NEW pnl \in Pnls, RecordTradeOutcome(pnl)
  PROVE  IInv'
  <1> DEFINE b == Booked(kernel, pnl)
             e == EvaluateKillswitches(b, now)
  <1>1. /\ kernel \in KernelState /\ now \in Nat /\ promise \in Nat /\ touched \in BOOLEAN
        /\ pnl \in Int /\ Good(kernel, now, promise, touched)
    BY MoneyAssumption DEF IInv, TypeOK, KernelInv
  <1>2. Sound(kernel) /\ Serves(kernel, now, promise) /\ kernel.dailyReset <= now + Day
    BY <1>1 DEF Good, DayCovered
  <1>3. /\ b \in KernelState /\ Sound(b) /\ b.dailyReset = kernel.dailyReset
        /\ b.halted = kernel.halted /\ b.until = kernel.until /\ b.reason = kernel.reason
    BY <1>1, <1>2, Booking
  <1> HIDE DEF b
  <1>4. /\ e \in KernelState
        /\ e.starting = b.starting /\ e.current = b.current /\ e.total = b.total
        /\ e.peak = b.peak /\ e.daily = b.daily /\ e.dailyReset = b.dailyReset
        /\ ~Breached(b) => e = b
        /\ Breached(b) => /\ e.halted /\ e.until >= now
                          /\ e.reason \notin {"none", "manual_halt"}
        /\ DailyBreach(b) => e.until = now + Day
    BY <1>1, <1>3, Evaluating
  <1> HIDE DEF e
  <1>5. DailyBreach(e) = DailyBreach(b)
    BY <1>4 DEF DailyBreach
  <1>6. /\ outcomes' = outcomes + 1 /\ reply' = Answer("done")
        /\ kernel' = IF b.current = 0 THEN b ELSE e
        /\ promise' = IF b.current # 0 /\ Breached(b)
                      THEN (IF b.current = 0 THEN b ELSE e).until ELSE promise
        /\ IF b.current = 0 THEN file' = file ELSE SaveState(IF b.current = 0 THEN b ELSE e)
        /\ UNCHANGED <<now, persistent, touched>>
    BY DEF RecordTradeOutcome, b, e
  <1>7. "done" \in Decisions \ {"approved", "reduced_size"}
    BY DEF Decisions
  <1>8. /\ reply' \in ReplyType
        /\ GrantWithinLimits' /\ DailyLimitStops'
    BY <1>6, <1>7, Denying
  <1>9. CASE b.current = 0
    <2>1. ~DailyBreach(b)
      BY <1>9 DEF DailyBreach, Reaches
    <2>2. Good(b, now, promise, touched)
      BY <1>2, <1>3, <2>1 DEF Good, Serves, DayCovered
    <2>3. QED
      BY <1>3, <1>6, <1>8, <1>9, <2>2 DEF IInv, TypeOK, KernelInv, FileInv
  <1>10. CASE b.current # 0
    <2>1. promise' \in Nat
      BY <1>1, <1>4, <1>6, <1>10 DEF KernelState
    <2>2. Good(e, now, promise', touched)
      <3>1. CASE Breached(b)
        <4>1. Sound(e)
          BY <1>3, <1>4, <3>1 DEF Sound
        <4>2. Serves(e, now, promise')
          BY <1>4, <1>6, <1>10, <3>1 DEF Serves
        <4>3. QED
          BY <1>2, <1>3, <1>4, <1>5, <3>1, <4>1, <4>2 DEF Good, DayCovered
      <3>2. CASE ~Breached(b)
        <4>1. e = b /\ promise' = promise /\ ~DailyBreach(b)
          BY <1>4, <1>6, <3>2 DEF Breached
        <4>2. QED
          BY <1>2, <1>3, <4>1 DEF Good, Serves, DayCovered
      <3>3. QED
        BY <3>1, <3>2
    <2>3. kernel' = e /\ SaveState(e) /\ UNCHANGED <<now, persistent, touched>>
      BY <1>6, <1>10
    <2>4. file' \in KernelState \cup {Unreadable} /\ FileInv'
      BY <1>4, <2>2, <2>3, Saving DEF IInv
    <2>5. QED
      BY <1>4, <1>6, <1>8, <2>1, <2>2, <2>3, <2>4 DEF IInv, TypeOK, KernelInv
  <1>11. QED
    BY <1>9, <1>10

\* A reconciliation keeps the invariant.
LEMMA UpdateEquityInv ==
  ASSUME IInv, NEW balance \in Balances, UpdateEquityFromExternal(balance)
  PROVE  IInv'
  <1> DEFINE k == Reconciled(kernel, balance)
  <1>1. /\ kernel \in KernelState /\ now \in Nat /\ promise \in Nat /\ balance \in Int
        /\ Sound(kernel) /\ Serves(kernel, now, promise)
        /\ kernel.dailyReset <= now + Day
    BY MoneyAssumption DEF IInv, TypeOK, KernelInv, Good, DayCovered
  <1>2. /\ k \in KernelState /\ Sound(k) /\ k.dailyReset = kernel.dailyReset
        /\ k.halted = kernel.halted /\ k.until = kernel.until
    BY <1>1, Reconciling
  <1>3. /\ kernel' = k /\ SaveState(k) /\ reply' = Answer("done") /\ touched' = TRUE
        /\ UNCHANGED <<now, persistent, promise, outcomes>>
    BY DEF UpdateEquityFromExternal, SaveState
  <1> HIDE DEF k
  <1>4. Good(k, now, promise, TRUE)
    BY <1>1, <1>2 DEF Good, Serves, DayCovered
  <1>5. file' \in KernelState \cup {Unreadable} /\ FileInv'
    BY <1>2, <1>3, <1>4, Saving DEF IInv
  <1>6. "done" \in Decisions \ {"approved", "reduced_size"}
    BY DEF Decisions
  <1>7. /\ reply' \in ReplyType
        /\ GrantWithinLimits' /\ DailyLimitStops'
    BY <1>3, <1>6, Denying
  <1>8. QED
    BY <1>2, <1>3, <1>4, <1>5, <1>7 DEF IInv, TypeOK, KernelInv

\* A manual halt keeps the invariant.
LEMMA ManualHaltInv ==
  ASSUME IInv, NEW ticks \in HaltTicks, ManualHalt(ticks)
  PROVE  IInv'
  <1> DEFINE k == TriggerHalt(kernel, now, "manual_halt", ticks)
  <1>1. /\ kernel \in KernelState /\ now \in Nat /\ ticks \in Nat
        /\ Sound(kernel) /\ kernel.dailyReset <= now + Day
    BY TimeAssumption DEF IInv, TypeOK, KernelInv, Good, DayCovered
  <1>2. /\ k \in KernelState /\ Sound(k) /\ k.dailyReset = kernel.dailyReset
        /\ k.halted /\ k.until = now + ticks
    BY <1>1, Halting
  <1>3. /\ kernel' = k /\ SaveState(k) /\ reply' = Answer("done") /\ touched' = TRUE
        /\ promise' = now + ticks
        /\ UNCHANGED <<now, persistent, outcomes>>
    BY DEF ManualHalt, SaveState
  <1> HIDE DEF k
  <1>4. Good(k, now, now + ticks, TRUE) /\ now + ticks \in Nat
    BY <1>1, <1>2 DEF Good, Serves, DayCovered
  <1>5. file' \in KernelState \cup {Unreadable} /\ FileInv'
    BY <1>2, <1>3, <1>4, Saving DEF IInv
  <1>6. "done" \in Decisions \ {"approved", "reduced_size"}
    BY DEF Decisions
  <1>7. /\ reply' \in ReplyType
        /\ GrantWithinLimits' /\ DailyLimitStops'
    BY <1>3, <1>6, Denying
  <1>8. QED
    BY <1>2, <1>3, <1>4, <1>5, <1>7 DEF IInv, TypeOK, KernelInv

\* A /resume keeps the invariant.
LEMMA ManualResumeInv ==
  ASSUME IInv, ManualResume
  PROVE  IInv'
  <1>1. {"resumed", "refused"} \subseteq Decisions \ {"approved", "reduced_size"}
    BY DEF Decisions
  <1>2. reply' \in {Answer("resumed"), Answer("refused")}
    BY DEF ManualResume
  <1>3. /\ reply' \in ReplyType
        /\ GrantWithinLimits' /\ DailyLimitStops'
    BY <1>1, <1>2, Denying
  <1>4. CASE UNCHANGED <<kernel, promise, touched, file>>
    BY <1>3, <1>4 DEF ManualResume, IInv, TypeOK, KernelInv, FileInv
  <1>5. CASE kernel' = Resumed(kernel) /\ promise' = 0 /\ touched' = TRUE /\ SaveState(kernel')
    <2> DEFINE k == Resumed(kernel)
    <2>1. /\ kernel \in KernelState /\ now \in Nat
          /\ Sound(kernel) /\ kernel.dailyReset <= now + Day
      BY DEF IInv, TypeOK, KernelInv, Good, DayCovered
    <2>2. /\ k \in KernelState /\ Sound(k) /\ k.dailyReset = kernel.dailyReset /\ ~k.halted
      BY <2>1, Resuming
    <2>3. /\ kernel' = k /\ SaveState(k) /\ UNCHANGED <<now, persistent, outcomes>>
      BY <1>5 DEF ManualResume, SaveState
    <2> HIDE DEF k
    <2>4. Good(k, now, 0, TRUE)
      BY <2>1, <2>2 DEF Good, Serves, DayCovered
    <2>5. file' \in KernelState \cup {Unreadable} /\ FileInv'
      BY <1>5, <2>2, <2>3, <2>4, Saving DEF IInv
    <2>6. QED
      BY <1>3, <1>5, <2>2, <2>3, <2>4, <2>5 DEF IInv, TypeOK, KernelInv
  <1>6. QED
    BY <1>4, <1>5 DEF ManualResume

\* get_status and is_trading_allowed: both lift an expired halt, and grant nothing.
LEMMA QueryInv ==
  ASSUME IInv, NEW what \in {"done", "yes", "no"},
         kernel' = CheckKillswitch(kernel, now), reply' = Answer(what),
         UNCHANGED <<now, persistent, file, promise, touched, outcomes>>
  PROVE  IInv'
  <1> DEFINE k == CheckKillswitch(kernel, now)
  <1>1. /\ kernel \in KernelState /\ now \in Nat /\ promise \in Nat /\ touched \in BOOLEAN
        /\ Good(kernel, now, promise, touched)
    BY DEF IInv, TypeOK, KernelInv
  <1>2. /\ k \in KernelState /\ Good(k, now, promise, touched)
        /\ k.halted => kernel.halted /\ k.reason = kernel.reason
    BY <1>1, Refreshing
  <1> HIDE DEF k
  <1>3. what \in Decisions \ {"approved", "reduced_size"}
    BY DEF Decisions
  <1>4. /\ reply' \in ReplyType
        /\ GrantWithinLimits' /\ DailyLimitStops'
    BY <1>3, Denying
  <1>5. kernel' = k
    BY DEF k
  <1>6. QED
    BY <1>2, <1>4, <1>5 DEF IInv, TypeOK, KernelInv, FileInv

\* A restart keeps the invariant.
LEMMA RestartInv ==
  ASSUME IInv, Restart
  PROVE  IInv'
  <1>1. "started" \in Decisions \ {"approved", "reduced_size"}
    BY DEF Decisions
  <1>2. /\ reply' = Answer("started")
        /\ kernel' = IF persistent THEN LoadState(file, now) ELSE Fresh(now)
        /\ promise' = IF persistent THEN promise ELSE 0
        /\ UNCHANGED <<now, persistent, file, touched, outcomes>>
    BY DEF Restart
  <1>3. /\ reply' \in ReplyType
        /\ GrantWithinLimits' /\ DailyLimitStops'
    BY <1>1, <1>2, Denying
  <1>4. now \in Nat /\ touched \in BOOLEAN /\ 0 \in Nat /\ 0 <= now
    BY DEF IInv, TypeOK
  <1>5. Fresh(now) \in KernelState /\ Good(Fresh(now), now, 0, touched)
    BY <1>4, FreshGood
  <1>6. CASE persistent /\ file # Unreadable
    <2>1. /\ kernel' = file /\ promise' = promise /\ file \in KernelState
          /\ Good(file, now, promise, touched)
      BY <1>2, <1>6 DEF IInv, TypeOK, FileInv, LoadState
    <2>2. QED
      BY <1>2, <1>3, <2>1 DEF IInv, TypeOK, KernelInv, FileInv
  <1>7. CASE persistent /\ file = Unreadable
    <2>1. kernel' = Fresh(now) /\ promise' = 0 /\ promise = 0
      BY <1>2, <1>7 DEF IInv, FileInv, LoadState
    <2>2. QED
      BY <1>2, <1>3, <1>5, <1>7, <2>1 DEF IInv, TypeOK, KernelInv, FileInv
  <1>8. CASE ~persistent
    <2>1. kernel' = Fresh(now) /\ promise' = 0 /\ file = Unreadable
      BY <1>2, <1>8 DEF IInv, FileInv
    <2>2. QED
      BY <1>2, <1>3, <1>5, <1>8, <2>1 DEF IInv, TypeOK, KernelInv, FileInv
  <1>9. QED
    BY <1>6, <1>7, <1>8

\* A crash in the middle of a save keeps the invariant.
LEMMA DieWhileSavingInv ==
  ASSUME IInv, DieWhileSaving
  PROVE  IInv'
  <1>1. "started" \in Decisions \ {"approved", "reduced_size"}
    BY DEF Decisions
  <1>2. /\ reply' \in ReplyType
        /\ GrantWithinLimits' /\ DailyLimitStops'
    BY <1>1, Denying DEF DieWhileSaving
  <1>3. now \in Nat /\ touched \in BOOLEAN /\ 0 \in Nat /\ 0 <= now
    BY DEF IInv, TypeOK
  <1>4. Fresh(now) \in KernelState /\ Good(Fresh(now), now, 0, touched)
    BY <1>3, FreshGood
  <1>5. QED
    BY <1>2, <1>4 DEF DieWhileSaving, IInv, TypeOK, KernelInv, FileInv

\* The passing of time serves halts and never breaks a promise.
LEMMA TickInv ==
  ASSUME IInv, Tick
  PROVE  IInv'
  <1>1. "done" \in Decisions \ {"approved", "reduced_size"}
    BY DEF Decisions
  <1>2. /\ reply' \in ReplyType
        /\ GrantWithinLimits' /\ DailyLimitStops'
    BY <1>1, Denying DEF Tick
  <1>3. /\ now \in Nat /\ now' = now + 1 /\ promise \in Nat /\ Day \in Nat
        /\ UNCHANGED <<kernel, persistent, file, promise, touched, outcomes>>
    BY TimeAssumption DEF IInv, TypeOK, Tick
  <1>4. ASSUME NEW k \in KernelState, Good(k, now, promise, touched)
        PROVE  Good(k, now', promise, touched)
    BY <1>3, <1>4 DEF Good, Serves, DayCovered, KernelState
  <1>5. KernelInv' /\ FileInv'
    BY <1>3, <1>4 DEF IInv, TypeOK, KernelInv, FileInv
  <1>6. QED
    BY <1>2, <1>3, <1>5 DEF IInv, TypeOK

\* Every step keeps the invariant.
LEMMA NextInv == IInv /\ [Next]_vars => IInv'
  <1> SUFFICES ASSUME IInv, [Next]_vars PROVE IInv'
    OBVIOUS
  <1>1. ASSUME NEW r \in Requests, ApproveTrade(r) PROVE IInv'
    BY <1>1, ApproveTradeInv
  <1>2. ASSUME NEW pnl \in Pnls, RecordTradeOutcome(pnl) PROVE IInv'
    BY <1>2, RecordTradeOutcomeInv
  <1>3. ASSUME NEW b \in Balances, UpdateEquityFromExternal(b) PROVE IInv'
    BY <1>3, UpdateEquityInv
  <1>4. ASSUME NEW h \in HaltTicks, ManualHalt(h) PROVE IInv'
    BY <1>4, ManualHaltInv
  <1>5. CASE ManualResume
    BY <1>5, ManualResumeInv
  <1>6. CASE GetStatus
    BY <1>6, QueryInv DEF GetStatus
  <1>7. CASE IsTradingAllowed
    BY <1>7, QueryInv DEF IsTradingAllowed
  <1>8. CASE Restart
    BY <1>8, RestartInv
  <1>9. CASE DieWhileSaving
    BY <1>9, DieWhileSavingInv
  <1>10. CASE Tick
    BY <1>10, TickInv
  <1>11. CASE UNCHANGED vars
    BY <1>11 DEF vars, IInv, TypeOK, KernelInv, FileInv, GrantWithinLimits,
                 DailyLimitStops, Granted
  <1>12. QED
    BY <1>1, <1>2, <1>3, <1>4, <1>5, <1>6, <1>7, <1>8, <1>9, <1>10, <1>11 DEF Next

\* Every reachable state satisfies the invariant.
LEMMA Invariant == Spec => []IInv
  BY InitInv, NextInv, PTL DEF Spec

-----------------------------------------------------------------------------
(* What follows for every behaviour of the kernel.                         *)

\* Every variable keeps its type, whatever the outcomes, balances and calendar.
THEOREM TypeCorrect == Spec => []TypeOK
  <1>1. IInv => TypeOK
    BY DEF IInv
  <1>2. QED
    BY <1>1, Invariant, PTL

\* The books balance in every state: current equity is starting equity plus total
\* PnL, under a peak that covers both (record_trade_outcome,
\* update_equity_from_external, _load_state).
THEOREM BooksBalance == Spec => []Accounting
  <1>1. IInv => Accounting
    BY DEF IInv, KernelInv, Good, Sound, Accounting
  <1>2. QED
    BY <1>1, Invariant, PTL

\* An announced halt is served in full (_trigger_halt, _check_killswitch_active,
\* _load_state), for every halt length and calendar.
THEOREM HaltsAreServed == Spec => []HaltHonoured
  <1>1. IInv => HaltHonoured
    BY DEF IInv, KernelInv, Good, Serves, HaltHonoured
  <1>2. QED
    BY <1>1, Invariant, PTL

\* Every grant of approve_trade keeps to the size limits and to announced halts.
THEOREM GrantsAreLimited == Spec => []GrantWithinLimits
  <1>1. IInv => GrantWithinLimits
    BY DEF IInv
  <1>2. QED
    BY <1>1, Invariant, PTL

\* No grant on a day whose loss stands at the daily limit, unless a hand has moved
\* the kernel.
THEOREM DailyLimitHolds == Spec => []DailyLimitStops
  <1>1. IInv => DailyLimitStops
    BY DEF IInv
  <1>2. QED
    BY <1>1, Invariant, PTL

\* A third loss in a row halts trading for a day or more: whichever limit of
\* _evaluate_killswitches answers first, its halt is no shorter than a day.
THEOREM StreaksHalt == Spec => StreakHalts
  <1>1. ASSUME IInv, NEW pnl \in Pnls, RecordTradeOutcome(pnl),
               pnl < 0, kernel.losses >= 2, kernel'.current # 0
        PROVE  kernel'.halted /\ kernel'.until >= now + Day
    <2> DEFINE b == Booked(kernel, pnl)
               e == EvaluateKillswitches(b, now)
    <2>1. b \in KernelState /\ b.losses >= 3
      <3>1. kernel \in KernelState /\ pnl \in Int
        BY <1>1, MoneyAssumption DEF IInv, TypeOK
      <3>2. Booked(kernel, pnl).losses = kernel.losses + 1
        BY <1>1, <3>1 DEF Booked, KernelState
      <3>3. kernel \in KernelState /\ Sound(kernel)
        BY <1>1 DEF IInv, TypeOK, KernelInv, Good
      <3>4. b \in KernelState
        BY <3>1, <3>3, Booking
      <3>5. QED
        BY <1>1, <3>1, <3>2, <3>4 DEF KernelState
    <2>2. kernel' = IF b.current = 0 THEN b ELSE e
      BY <1>1 DEF RecordTradeOutcome
    <2> HIDE DEF b
    <2>3. kernel' = e
      BY <1>1, <2>2
    <2>4. \A why, ticks : /\ TriggerHalt(b, now, why, ticks).halted
                          /\ TriggerHalt(b, now, why, ticks).until = now + ticks
      BY <2>1 DEF TriggerHalt, KernelState
    <2>5. LET c == [TriggerHalt(b, now, "consecutive_loss_cooldown", Day) EXCEPT !.losses = 0]
          IN  c.halted /\ c.until = now + Day
      BY <2>1 DEF TriggerHalt, KernelState
    <2>6. now \in Nat /\ Day \in Nat /\ WeekDays * Day \in Nat /\ WeekDays * Day >= Day
          /\ Forever \in Nat /\ Forever >= Day
      BY <1>1, TimeAssumption DEF IInv, TypeOK
    <2>7. \E ticks \in {Day, WeekDays * Day, Forever} : e.halted /\ e.until = now + ticks
      BY <2>1, <2>4, <2>5 DEF EvaluateKillswitches, LosingStreak, e
    <2>8. QED
      BY <1>1, <2>3, <2>6, <2>7
  <1>2. IInv /\ [Next]_vars =>
          [\A pnl \in Pnls :
             RecordTradeOutcome(pnl) /\ pnl < 0 /\ kernel.losses >= 2 /\ kernel'.current # 0
               => kernel'.halted /\ kernel'.until >= now + Day]_vars
    BY <1>1
  <1>3. QED
    BY <1>2, Invariant, PTL DEF Spec, StreakHalts

-----------------------------------------------------------------------------
(* The kernel implements the circuit breaker, step by step.                *)

\* An answer that neither grants, lifts nor boots is no event of the breaker's.
LEMMA OtherEvent ==
  ASSUME NEW what \in {"rejected", "halted", "yes", "no", "refused", "done"},
         reply' = Answer(what)
  PROVE  LastEvent' = "other"
  BY DEF LastEvent, Granted, Answer

\* Asking, as every query and request does first, is the breaker's Ask or nothing.
LEMMA AskingMaps ==
  ASSUME IInv, UNCHANGED now,
         kernel' = CheckKillswitch(MaybeResetPeriods(kernel, now), now)
         \/ kernel' = CheckKillswitch(kernel, now)
  PROVE  \/ Breaker!Expire
         \/ UNCHANGED <<Cause, kernel.until>>
  <1>1. /\ kernel \in KernelState /\ now \in Nat /\ promise \in Nat /\ touched \in BOOLEAN
        /\ Good(kernel, now, promise, touched)
    BY DEF IInv, TypeOK, KernelInv
  <1>2. /\ Good(kernel', now, promise, touched)
        /\ kernel'.halted => kernel.halted /\ kernel'.reason = kernel.reason
                             /\ kernel'.until = kernel.until
        /\ ~kernel'.halted => ~kernel.halted \/ HaltExpired(kernel, now)
    BY <1>1, Refreshing
  <1>3. CASE kernel'.halted
    BY <1>2, <1>3 DEF Cause
  <1>4. CASE ~kernel'.halted /\ ~kernel.halted
    BY <1>1, <1>2, <1>4 DEF Cause, Good, Sound
  <1>5. CASE ~kernel'.halted /\ HaltExpired(kernel, now)
    <2>1. Cause # "none" /\ now >= kernel.until
      BY <1>5 DEF Cause, HaltExpired
    <2>2. Cause' = "none" /\ kernel'.until = 0
      BY <1>2, <1>5 DEF Cause, Good, Sound
    <2>3. QED
      BY <2>1, <2>2 DEF Breaker!Expire, Breaker!Opens
  <1>6. QED
    BY <1>2, <1>3, <1>4, <1>5

\* A trade request is a step of the circuit breaker.
LEMMA ApproveTradeMaps ==
  ASSUME IInv, NEW r \in Requests, ApproveTrade(r)
  PROVE  Breaker!Next
  <1>1. UNCHANGED now /\ kernel' = CheckKillswitch(MaybeResetPeriods(kernel, now), now)
        /\ reply' = Verdict(kernel', r)
    BY DEF ApproveTrade
  <1>2. Breaker!Expire \/ UNCHANGED <<Cause, kernel.until>>
    BY <1>1, AskingMaps
  <1>3. CASE reply' \in {Answer("halted"), Answer("rejected")}
    <2>1. LastEvent' = "other"
      BY <1>3, OtherEvent
    <2>2. QED
      BY <1>1, <1>2, <2>1 DEF Breaker!Next, Breaker!Ask, Breaker!Idle
  <1>4. CASE ~kernel'.halted /\ reply'.decision \in {"approved", "reduced_size"}
    <2>1. LastEvent' = "granted" /\ Cause' = "none"
      BY <1>4 DEF LastEvent, Granted, Cause
    <2>2. QED
      BY <1>1, <1>2, <2>1 DEF Breaker!Next, Breaker!Grant
  <1>5. QED
    BY <1>1, <1>3, <1>4 DEF Verdict

\* A recorded outcome is a step of the circuit breaker.
LEMMA RecordTradeOutcomeMaps ==
  ASSUME IInv, NEW pnl \in Pnls, RecordTradeOutcome(pnl)
  PROVE  Breaker!Next
  <1> DEFINE b == Booked(kernel, pnl)
             e == EvaluateKillswitches(b, now)
  <1>1. /\ kernel \in KernelState /\ now \in Nat /\ pnl \in Int /\ Sound(kernel)
    BY MoneyAssumption DEF IInv, TypeOK, KernelInv, Good
  <1>2. /\ b \in KernelState
        /\ b.halted = kernel.halted /\ b.until = kernel.until /\ b.reason = kernel.reason
    BY <1>1, Booking
  <1>3. kernel' = (IF b.current = 0 THEN b ELSE e) /\ reply' = Answer("done") /\ UNCHANGED now
    BY DEF RecordTradeOutcome
  <1> HIDE DEF b
  <1>4. /\ e \in KernelState
        /\ ~Breached(b) => e = b
        /\ Breached(b) => e.halted /\ e.until >= now /\ e.reason \notin {"none", "manual_halt"}
    BY <1>1, <1>2, Evaluating
  <1> HIDE DEF e
  <1>5. LastEvent' = "other"
    BY <1>3, OtherEvent
  <1>6. CASE kernel' = b
    <2>1. UNCHANGED <<Cause, kernel.until>>
      BY <1>2, <1>6 DEF Cause
    <2>2. QED
      BY <1>3, <1>5, <2>1 DEF Breaker!Next, Breaker!Idle
  <1>7. CASE kernel' = e /\ Breached(b)
    <2>1. Cause' = "automatic" /\ kernel'.until \in Nat /\ kernel'.until >= now
      BY <1>4, <1>7 DEF Cause, KernelState
    <2>2. QED
      BY <1>3, <1>5, <2>1 DEF Breaker!Next, Breaker!Trip
  <1>8. QED
    BY <1>3, <1>4, <1>6, <1>7

\* A reconciliation is a step of the circuit breaker.
LEMMA UpdateEquityMaps ==
  ASSUME IInv, NEW balance \in Balances, UpdateEquityFromExternal(balance)
  PROVE  Breaker!Next
  <1>1. kernel \in KernelState /\ Sound(kernel) /\ balance \in Int
    BY MoneyAssumption DEF IInv, TypeOK, KernelInv, Good
  <1>2. kernel' = Reconciled(kernel, balance) /\ reply' = Answer("done") /\ UNCHANGED now
    BY DEF UpdateEquityFromExternal
  <1>3. UNCHANGED <<Cause, kernel.until>>
    BY <1>1, <1>2, Reconciling DEF Cause
  <1>4. LastEvent' = "other"
    BY <1>2, OtherEvent
  <1>5. QED
    BY <1>2, <1>3, <1>4 DEF Breaker!Next, Breaker!Idle

\* A manual halt is a step of the circuit breaker.
LEMMA ManualHaltMaps ==
  ASSUME IInv, NEW ticks \in HaltTicks, ManualHalt(ticks)
  PROVE  Breaker!Next
  <1>1. kernel \in KernelState /\ Sound(kernel) /\ now \in Nat /\ ticks \in Nat
    BY TimeAssumption DEF IInv, TypeOK, KernelInv, Good
  <1>2. /\ kernel' = TriggerHalt(kernel, now, "manual_halt", ticks)
        /\ reply' = Answer("done") /\ UNCHANGED now
    BY DEF ManualHalt
  <1>3. Cause' = "manual" /\ kernel'.until \in Nat /\ kernel'.until >= now
    <2> DEFINE h == TriggerHalt(kernel, now, "manual_halt", ticks)
    <2>1. h.halted /\ h.reason = "manual_halt" /\ h.until = now + ticks
      BY <1>1, Halting
    <2>2. kernel' = h
      BY <1>2
    <2> HIDE DEF h
    <2>3. QED
      BY <1>1, <2>1, <2>2 DEF Cause
  <1>4. LastEvent' = "other"
    BY <1>2, OtherEvent
  <1>5. QED
    BY <1>2, <1>3, <1>4 DEF Breaker!Next, Breaker!Trip

\* A /resume is a step of the circuit breaker.
LEMMA ManualResumeMaps ==
  ASSUME IInv, ManualResume
  PROVE  Breaker!Next
  <1>1. kernel \in KernelState /\ Sound(kernel)
    BY DEF IInv, TypeOK, KernelInv, Good
  <1>2. CASE /\ kernel.reason = "manual_halt" /\ kernel' = Resumed(kernel)
             /\ reply' = Answer("resumed")
    <2>1. Cause = "manual"
      BY <1>1, <1>2 DEF Cause, Sound
    <2>2. Cause' = "none" /\ kernel'.until = 0
      BY <1>1, <1>2, Resuming DEF Cause
    <2>3. LastEvent' = "lifted"
      BY <1>2 DEF LastEvent, Granted, Answer
    <2>4. QED
      BY <2>1, <2>2, <2>3 DEF ManualResume, Breaker!Next, Breaker!Lift, Breaker!Opens
  <1>3. CASE reply' = Answer("refused") /\ UNCHANGED kernel
    <2>1. LastEvent' = "other"
      BY <1>3, OtherEvent
    <2>2. UNCHANGED <<Cause, kernel.until>>
      BY <1>3 DEF Cause
    <2>3. QED
      BY <2>1, <2>2 DEF ManualResume, Breaker!Next, Breaker!Idle
  <1>4. QED
    BY <1>2, <1>3 DEF ManualResume

\* A status query is a step of the circuit breaker.
LEMMA QueryMaps ==
  ASSUME IInv, NEW what \in {"done", "yes", "no"}, UNCHANGED now,
         kernel' = CheckKillswitch(kernel, now), reply' = Answer(what)
  PROVE  Breaker!Next
  <1>1. Breaker!Expire \/ UNCHANGED <<Cause, kernel.until>>
    BY AskingMaps
  <1>2. LastEvent' = "other"
    BY OtherEvent
  <1>3. QED
    BY <1>1, <1>2 DEF Breaker!Next, Breaker!Ask, Breaker!Idle

\* What a restart reads from the file is the halt in force, none, or one served.
LEMMA RestartMaps ==
  ASSUME IInv, Restart \/ DieWhileSaving
  PROVE  Breaker!Next
  <1>1. UNCHANGED now /\ reply' = Answer("started")
    BY DEF Restart, DieWhileSaving
  <1>2. LastEvent' = "booted"
    BY <1>1 DEF LastEvent, Granted, Answer
  <1>3. now \in Nat /\ kernel \in KernelState /\ Good(kernel, now, promise, touched)
    BY DEF IInv, TypeOK, KernelInv
  <1>4. CASE kernel' = Fresh(now)
    <2>1. ~kernel'.halted /\ kernel'.until = 0
      BY <1>3, <1>4, FreshSound DEF Sound
    <2>2. Cause' = "none"
      BY <2>1 DEF Cause
    <2>3. QED
      BY <1>1, <1>2, <2>1, <2>2 DEF Breaker!Next, Breaker!Boot, Breaker!Opens
  <1>5. CASE file # Unreadable /\ kernel' = file
    <2>1. /\ file \in KernelState /\ Good(file, now, promise, touched)
          /\ file.halted /\ kernel.halted => file.reason = kernel.reason
      BY <1>5 DEF IInv, TypeOK, FileInv
    <2>2. CASE ~file.halted
      <3>1. Cause' = "none" /\ kernel'.until = 0
        BY <1>5, <2>1, <2>2 DEF Cause, Good, Sound
      <3>2. QED
        BY <1>1, <1>2, <3>1 DEF Breaker!Next, Breaker!Boot, Breaker!Opens
    <2>3. CASE file.halted /\ kernel.halted
      <3>1. UNCHANGED <<Cause, kernel.until>>
        BY <1>3, <1>5, <2>1, <2>3 DEF Cause, Good, Serves
      <3>2. QED
        BY <1>1, <1>2, <3>1 DEF Breaker!Next, Breaker!Boot
    <2>4. CASE file.halted /\ ~kernel.halted
      <3>1. Cause' \in {"manual", "automatic"} /\ kernel'.until \in Nat /\ kernel'.until <= now
        BY <1>3, <1>5, <2>1, <2>4 DEF Cause, Good, Serves, KernelState
      <3>2. QED
        BY <1>1, <1>2, <3>1 DEF Breaker!Next, Breaker!Boot
    <2>5. QED
      BY <2>2, <2>3, <2>4
  <1>6. QED
    BY <1>4, <1>5 DEF Restart, DieWhileSaving, LoadState

\* The passing of time is a step of the circuit breaker.
LEMMA TickMaps ==
  ASSUME IInv, Tick
  PROVE  Breaker!Next
  <1>1. now \in Nat /\ now' = now + 1 /\ reply' = Answer("done") /\ UNCHANGED kernel
    BY DEF Tick, IInv, TypeOK
  <1>2. LastEvent' = "other"
    BY <1>1, OtherEvent
  <1>3. UNCHANGED <<Cause, kernel.until>>
    BY <1>1 DEF Cause
  <1>4. QED
    BY <1>1, <1>2, <1>3 DEF Breaker!Next, Breaker!Advance

\* Every behaviour of the kernel, seen through its halt in memory and its replies,
\* is a behaviour of the circuit breaker: it opens early for nobody but the operator
\* who shut it, or by a restart that lost the halt.
THEOREM KernelIsBreaker == Spec => ImplementsBreaker
  <1>1. Init => Breaker!Init
    <2>1. Epoch \in Nat
      BY TimeAssumption
    <2>2. Init => ~kernel.halted /\ kernel.until = 0
      BY <2>1, FreshSound DEF Init, Sound
    <2>3. Init => LastEvent = "other"
      BY DEF Init, LastEvent, Granted, Answer
    <2>4. QED
      BY <2>1, <2>2, <2>3 DEF Init, Breaker!Init, Cause
  <1>2. IInv /\ [Next]_vars => [Breaker!Next]_(Breaker!vars)
    <2> SUFFICES ASSUME IInv, Next PROVE Breaker!Next
      BY DEF vars, Breaker!vars, Cause, LastEvent, Granted
    <2>1. ASSUME NEW r \in Requests, ApproveTrade(r) PROVE Breaker!Next
      BY <2>1, ApproveTradeMaps
    <2>2. ASSUME NEW pnl \in Pnls, RecordTradeOutcome(pnl) PROVE Breaker!Next
      BY <2>2, RecordTradeOutcomeMaps
    <2>3. ASSUME NEW b \in Balances, UpdateEquityFromExternal(b) PROVE Breaker!Next
      BY <2>3, UpdateEquityMaps
    <2>4. ASSUME NEW h \in HaltTicks, ManualHalt(h) PROVE Breaker!Next
      BY <2>4, ManualHaltMaps
    <2>5. CASE ManualResume
      BY <2>5, ManualResumeMaps
    <2>6. CASE GetStatus
      BY <2>6, QueryMaps DEF GetStatus
    <2>7. CASE IsTradingAllowed
      BY <2>7, QueryMaps DEF IsTradingAllowed
    <2>8. CASE Restart \/ DieWhileSaving
      BY <2>8, RestartMaps
    <2>9. CASE Tick
      BY <2>9, TickMaps
    <2>10. QED
      BY <2>1, <2>2, <2>3, <2>4, <2>5, <2>6, <2>7, <2>8, <2>9 DEF Next
  <1>3. QED
    BY <1>1, <1>2, Invariant, PTL DEF Spec, ImplementsBreaker, Breaker!Spec
=============================================================================
