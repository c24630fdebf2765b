---------------------------- MODULE ReplayProofs ----------------------------
(***************************************************************************)
(* Theorems about Replay for every history, bar, strategy, list of actions *)
(* and configuration of the walk-forward harness.  The engine works lists  *)
(* off one element after the other, so what it makes of a list is shown by *)
(* induction over the list, from the least number principle.               *)
(***************************************************************************)
EXTENDS Replay, WellFoundedInduction, TLAPS

-----------------------------------------------------------------------------
(* Induction and numbers.                                                  *)

\* A set of numbers that is not empty has a least element.
LEMMA LeastNumber ==
  ASSUME NEW T, T \subseteq Nat, T # {}
  PROVE  \E x \in T : \A y \in T : ~(y < x)
<1>1. IsWellFoundedOn(OpToRel(<, Nat), Nat)
  BY NatLessThanWellFounded
<1>2. \E x \in T : \A y \in T : ~(<<y, x>> \in OpToRel(<, Nat))
  BY <1>1, WFMin
<1>3. \A y, x \in Nat : y < x => <<y, x>> \in OpToRel(<, Nat)
  BY DEF OpToRel
<1>. QED
  BY <1>2, <1>3

\* A set that holds 0 and with each number up to n the next one holds them all.
LEMMA UpTo ==
  ASSUME NEW n \in Nat, NEW T, 0 \in T, \A i \in 1..n : i - 1 \in T => i \in T
  PROVE  0..n \subseteq T
<1>. SUFFICES ASSUME (0..n) \ T # {} PROVE FALSE
  OBVIOUS
<1>1. (0..n) \ T \subseteq Nat
  OBVIOUS
<1>2. PICK x \in (0..n) \ T : \A y \in (0..n) \ T : ~(y < x)
  BY <1>1, LeastNumber
<1>3. x \in 1..n /\ x - 1 \in 0..n /\ x - 1 < x
  BY <1>2
<1>. QED
  BY <1>2, <1>3

\* A tick lies in one day, at one time of that day.
LEMMA Days ==
  ASSUME NEW t \in Nat
  PROVE  /\ t \div Day \in Nat /\ t % Day \in 0..(Day - 1)
         /\ t - (t % Day) = Day * (t \div Day) /\ Day * (t \div Day) \in Nat
  BY KernelAssumption

\* A later day is one whose first tick has not come before the midnight.
LEMMA Midnights ==
  ASSUME NEW t \in Nat, NEW u \in Nat
  PROVE  /\ NextUtcMidnight(t) \in Nat
         /\ u >= NextUtcMidnight(t) <=> u \div Day > t \div Day
<1> DEFINE x == t \div Day
           y == u \div Day
<1>1. /\ x \in Nat /\ y \in Nat /\ Day * x \in Nat /\ Day * y \in Nat /\ Day \in Nat \ {0}
      /\ NextUtcMidnight(t) = Day * x + Day
      /\ \E r \in 0..(Day - 1) : u = Day * y + r
  <2>1. u = Day * y + (u % Day)
    BY Days
  <2>. QED
    BY <2>1, Days, KernelAssumption DEF NextUtcMidnight
<1>2. \A a, b \in Nat : a < b => Day * a + Day <= Day * b
  <2>. SUFFICES ASSUME NEW a \in Nat, NEW b \in Nat, a < b
                PROVE  Day * a + Day <= Day * b
    OBVIOUS
  <2>1. Day * (b - a) >= Day
    BY <1>1
  <2>. QED
    BY <1>1, <2>1
<1>. HIDE DEF x, y
<1>3. CASE x < y
  <2>1. Day * x + Day <= Day * y
    BY <1>1, <1>2, <1>3
  <2>. QED
    BY <1>1, <1>3, <2>1 DEF x, y
<1>4. CASE y <= x
  <2>1. Day * y <= Day * x
    <3>1. y = x \/ Day * y + Day <= Day * x
      BY <1>1, <1>2, <1>4
    <3>. QED
      BY <1>1, <3>1
  <2>. QED
    BY <1>1, <1>4, <2>1 DEF x, y
<1>. QED
  BY <1>1, <1>3, <1>4

-----------------------------------------------------------------------------
(* The functions that work a list off are what their equations say.        *)

\* Pending actions are dispatched one after the other (_execute_pending_actions).
LEMMA ActionsInTurn ==
  ASSUME NEW s, NEW b, NEW c \in Seq(Actions), c = pending
  PROVE  /\ AfterActions(s, b)[0] = s
         /\ \A i \in 1..Len(pending) :
                AfterActions(s, b)[i] = Dispatch(AfterActions(s, b)[i - 1], pending[i], b)
<1> DEFINE n == Len(pending)
           Solves(f, m) ==
               f = [i \in 0..m |-> IF i = 0 THEN s ELSE Dispatch(f[i - 1], pending[i], b)]
           T == {m \in 0..n : \E f : Solves(f, m)}
<1>1. n \in Nat
  OBVIOUS
<1>. HIDE DEF n
<1>2. 0 \in T
  <2>1. Solves([i \in 0..0 |-> s], 0)
    OBVIOUS
  <2>. HIDE DEF Solves
  <2>. QED
    BY <1>1, <2>1
<1>3. ASSUME NEW m \in 1..n, m - 1 \in T
      PROVE  m \in T
  <2>1. PICK f : Solves(f, m - 1)
    BY <1>3
  <2> DEFINE g == [i \in 0..m |-> IF i = m THEN Dispatch(f[m - 1], pending[m], b) ELSE f[i]]
  <2>2. Solves(g, m)
    <3>1. \A i \in 0..(m - 1) : f[i] = IF i = 0 THEN s ELSE Dispatch(f[i - 1], pending[i], b)
      BY <2>1
    <3>2. ASSUME NEW i \in 0..m
          PROVE  g[i] = IF i = 0 THEN s ELSE Dispatch(g[i - 1], pending[i], b)
      BY <3>1
    <3>. QED
      BY <3>2
  <2>. HIDE DEF Solves
  <2>. QED
    BY <1>1, <2>2
<1>. HIDE DEF Solves
<1>4. \E f : Solves(f, n)
  <2>. HIDE DEF T
  <2>1. 0..n \subseteq T
    BY <1>1, <1>2, <1>3, UpTo
  <2>. QED
    BY <1>1, <2>1 DEF T
<1>5. Solves(AfterActions(s, b), n)
  BY <1>4 DEF AfterActions, Solves, n
<1>6. \A i \in 0..n :
          AfterActions(s, b)[i] =
              IF i = 0 THEN s ELSE Dispatch(AfterActions(s, b)[i - 1], pending[i], b)
  <2>. HIDE DEF n
  <2>1. AfterActions(s, b) =
            [i \in 0..n |-> IF i = 0 THEN s ELSE Dispatch(AfterActions(s, b)[i - 1], pending[i], b)]
    BY <1>5 DEF Solves
  <2>. QED
    BY <2>1
<1>. QED
  BY <1>1, <1>6 DEF n

\* A ladder's levels are looked at one after the other (_check_exits_intrabar).
LEMMA TargetsInTurn ==
  ASSUME NEW s, NEW p, NEW b, p.targets \in Seq(Levels)
  PROVE  /\ AfterTargets(s, p, b)[0] = s
         /\ \A i \in 1..Len(p.targets) :
                AfterTargets(s, p, b)[i] = TakeProfit(AfterTargets(s, p, b)[i - 1], p.id, i, b)
<1> DEFINE n == Len(p.targets)
           Solves(f, m) ==
               f = [i \in 0..m |-> IF i = 0 THEN s ELSE TakeProfit(f[i - 1], p.id, i, b)]
           T == {m \in 0..n : \E f : Solves(f, m)}
<1>1. n \in Nat
  OBVIOUS
<1>. HIDE DEF n
<1>2. 0 \in T
  <2>1. Solves([i \in 0..0 |-> s], 0)
    OBVIOUS
  <2>. HIDE DEF Solves
  <2>. QED
    BY <1>1, <2>1
<1>3. ASSUME NEW m \in 1..n, m - 1 \in T
      PROVE  m \in T
  <2>1. PICK f : Solves(f, m - 1)
    BY <1>3
  <2> DEFINE g == [i \in 0..m |-> IF i = m THEN TakeProfit(f[m - 1], p.id, m, b) ELSE f[i]]
  <2>2. Solves(g, m)
    <3>1. \A i \in 0..(m - 1) : f[i] = IF i = 0 THEN s ELSE TakeProfit(f[i - 1], p.id, i, b)
      BY <2>1
    <3>2. ASSUME NEW i \in 0..m
          PROVE  g[i] = IF i = 0 THEN s ELSE TakeProfit(g[i - 1], p.id, i, b)
      BY <3>1
    <3>. QED
      BY <3>2
  <2>. HIDE DEF Solves
  <2>. QED
    BY <1>1, <2>2
<1>. HIDE DEF Solves
<1>4. \E f : Solves(f, n)
  <2>. HIDE DEF T
  <2>1. 0..n \subseteq T
    BY <1>1, <1>2, <1>3, UpTo
  <2>. QED
    BY <1>1, <2>1 DEF T
<1>5. Solves(AfterTargets(s, p, b), n)
  BY <1>4 DEF AfterTargets, Solves, n
<1>6. \A i \in 0..n :
          AfterTargets(s, p, b)[i] =
              IF i = 0 THEN s ELSE TakeProfit(AfterTargets(s, p, b)[i - 1], p.id, i, b)
  <2>. HIDE DEF n
  <2>1. AfterTargets(s, p, b) =
            [i \in 0..n |-> IF i = 0 THEN s ELSE TakeProfit(AfterTargets(s, p, b)[i - 1], p.id, i, b)]
    BY <1>5 DEF Solves
  <2>. QED
    BY <2>1
<1>. QED
  BY <1>1, <1>6 DEF n

\* Positions have their exits checked one after the other.
LEMMA ExitsInTurn ==
  ASSUME NEW s, NEW b, s.positions \in Seq(PositionState)
  PROVE  /\ AfterExits(s, b)[0] = s
         /\ \A i \in 1..Len(s.positions) :
                AfterExits(s, b)[i] = ExitOf(AfterExits(s, b)[i - 1], s.positions[i], b)
<1> DEFINE n == Len(s.positions)
           Solves(f, m) ==
               f = [i \in 0..m |-> IF i = 0 THEN s ELSE ExitOf(f[i - 1], s.positions[i], b)]
           T == {m \in 0..n : \E f : Solves(f, m)}
<1>1. n \in Nat
  OBVIOUS
<1>. HIDE DEF n
<1>2. 0 \in T
  <2>1. Solves([i \in 0..0 |-> s], 0)
    OBVIOUS
  <2>. HIDE DEF Solves
  <2>. QED
    BY <1>1, <2>1
<1>3. ASSUME NEW m \in 1..n, m - 1 \in T
      PROVE  m \in T
  <2>1. PICK f : Solves(f, m - 1)
    BY <1>3
  <2> DEFINE g == [i \in 0..m |-> IF i = m THEN ExitOf(f[m - 1], s.positions[m], b) ELSE f[i]]
  <2>2. Solves(g, m)
    <3>1. \A i \in 0..(m - 1) : f[i] = IF i = 0 THEN s ELSE ExitOf(f[i - 1], s.positions[i], b)
      BY <2>1
    <3>2. ASSUME NEW i \in 0..m
          PROVE  g[i] = IF i = 0 THEN s ELSE ExitOf(g[i - 1], s.positions[i], b)
      BY <3>1
    <3>. QED
      BY <3>2
  <2>. HIDE DEF Solves
  <2>. QED
    BY <1>1, <2>2
<1>. HIDE DEF Solves
<1>4. \E f : Solves(f, n)
  <2>. HIDE DEF T
  <2>1. 0..n \subseteq T
    BY <1>1, <1>2, <1>3, UpTo
  <2>. QED
    BY <1>1, <2>1 DEF T
<1>5. Solves(AfterExits(s, b), n)
  BY <1>4 DEF AfterExits, Solves, n
<1>6. \A i \in 0..n :
          AfterExits(s, b)[i] =
              IF i = 0 THEN s ELSE ExitOf(AfterExits(s, b)[i - 1], s.positions[i], b)
  <2>. HIDE DEF n
  <2>1. AfterExits(s, b) =
            [i \in 0..n |-> IF i = 0 THEN s ELSE ExitOf(AfterExits(s, b)[i - 1], s.positions[i], b)]
    BY <1>5 DEF Solves
  <2>. QED
    BY <2>1
<1>. QED
  BY <1>1, <1>6 DEF n

\* Positions left at the end of a window are closed one after the other.
LEMMA ClosesInTurn ==
  ASSUME NEW s, NEW b, s.positions \in Seq(PositionState)
  PROVE  /\ AfterCloses(s, b)[0] = s
         /\ \A i \in 1..Len(s.positions) :
                AfterCloses(s, b)[i] =
                    Close(AfterCloses(s, b)[i - 1], s.positions[i].id, b.close, "end_of_data")
<1> DEFINE n == Len(s.positions)
           Solves(f, m) ==
               f = [i \in 0..m |-> IF i = 0 THEN s ELSE Close(f[i - 1], s.positions[i].id, b.close, "end_of_data")]
           T == {m \in 0..n : \E f : Solves(f, m)}
<1>1. n \in Nat
  OBVIOUS
<1>. HIDE DEF n
<1>2. 0 \in T
  <2>1. Solves([i \in 0..0 |-> s], 0)
    OBVIOUS
  <2>. HIDE DEF Solves
  <2>. QED
    BY <1>1, <2>1
<1>3. ASSUME NEW m \in 1..n, m - 1 \in T
      PROVE  m \in T
  <2>1. PICK f : Solves(f, m - 1)
    BY <1>3
  <2> DEFINE g == [i \in 0..m |-> IF i =
                 m THEN Close(f[m - 1], s.positions[m].id, b.close, "end_of_data") ELSE f[i]]
  <2>2. Solves(g, m)
    <3>1. \A i \in 0..(m - 1) :
              f[i] = IF i = 0 THEN s ELSE Close(f[i - 1], s.positions[i].id, b.close, "end_of_data")
      BY <2>1
    <3>2. ASSUME NEW i \in 0..m
          PROVE  g[i] =
                     IF i = 0 THEN s ELSE Close(g[i - 1], s.positions[i].id, b.close, "end_of_data")
      BY <3>1
    <3>. QED
      BY <3>2
  <2>. HIDE DEF Solves
  <2>. QED
    BY <1>1, <2>2
<1>. HIDE DEF Solves
<1>4. \E f : Solves(f, n)
  <2>. HIDE DEF T
  <2>1. 0..n \subseteq T
    BY <1>1, <1>2, <1>3, UpTo
  <2>. QED
    BY <1>1, <2>1 DEF T
<1>5. Solves(AfterCloses(s, b), n)
  BY <1>4 DEF AfterCloses, Solves, n
<1>6. \A i \in 0..n :
          AfterCloses(s, b)[i] =
              IF i = 0 THEN s ELSE Close(AfterCloses(s, b)[i - 1], s.positions[i].id, b.close, "end_of_data")
  <2>. HIDE DEF n
  <2>1. AfterCloses(s, b) =
            [i \in 0..n |-> IF i = 0 THEN s ELSE Close(AfterCloses(s, b)[i - 1], s.positions[i].id, b.close, "end_of_data")]
    BY <1>5 DEF Solves
  <2>. QED
    BY <2>1
<1>. QED
  BY <1>1, <1>6 DEF n

\* The hook looks at a list's actions one after the other.
LEMMA PassedInTurn ==
  ASSUME NEW list \in Seq(Actions), NEW vetoed
  PROVE  /\ Passed(list, vetoed)[0] = <<>>
         /\ \A i \in 1..Len(list) :
                Passed(list, vetoed)[i] =
                    (IF i \in vetoed THEN Passed(list, vetoed)[i - 1] ELSE Append(Passed(list, vetoed)[i - 1], list[i]))
<1> DEFINE n == Len(list)
           Solves(f, m) ==
               f = [i \in 0..m |-> IF i = 0 THEN <<>> ELSE (IF i \in vetoed THEN f[i - 1] ELSE Append(f[i - 1], list[i]))]
           T == {m \in 0..n : \E f : Solves(f, m)}
<1>1. n \in Nat
  OBVIOUS
<1>. HIDE DEF n
<1>2. 0 \in T
  <2>1. Solves([i \in 0..0 |-> <<>>], 0)
    OBVIOUS
  <2>. HIDE DEF Solves
  <2>. QED
    BY <1>1, <2>1
<1>3. ASSUME NEW m \in 1..n, m - 1 \in T
      PROVE  m \in T
  <2>1. PICK f : Solves(f, m - 1)
    BY <1>3
  <2> DEFINE g == [i \in 0..m |-> IF i =
                 m THEN (IF m \in vetoed THEN f[m - 1] ELSE Append(f[m - 1], list[m])) ELSE f[i]]
  <2>2. Solves(g, m)
    <3>1. \A i \in 0..(m - 1) :
              f[i] = IF i =
                  0 THEN <<>> ELSE (IF i \in vetoed THEN f[i - 1] ELSE Append(f[i - 1], list[i]))
      BY <2>1
    <3>2. ASSUME NEW i \in 0..m
          PROVE  g[i] =
                     IF i = 0 THEN <<>> ELSE (IF i \in vetoed THEN g[i - 1] ELSE Append(g[i - 1], list[i]))
      BY <3>1
    <3>. QED
      BY <3>2
  <2>. HIDE DEF Solves
  <2>. QED
    BY <1>1, <2>2
<1>. HIDE DEF Solves
<1>4. \E f : Solves(f, n)
  <2>. HIDE DEF T
  <2>1. 0..n \subseteq T
    BY <1>1, <1>2, <1>3, UpTo
  <2>. QED
    BY <1>1, <2>1 DEF T
<1>5. Solves(Passed(list, vetoed), n)
  BY <1>4 DEF Passed, Solves, n
<1>6. \A i \in 0..n :
          Passed(list, vetoed)[i] =
              IF i = 0 THEN <<>> ELSE (IF i \in vetoed THEN Passed(list, vetoed)[i - 1] ELSE Append(Passed(list, vetoed)[i - 1], list[i]))
  <2>. HIDE DEF n
  <2>1. Passed(list, vetoed) =
            [i \in 0..n |-> IF i = 0 THEN <<>> ELSE (IF i \in vetoed THEN Passed(list, vetoed)[i - 1] ELSE Append(Passed(list, vetoed)[i - 1], list[i]))]
    BY <1>5 DEF Solves
  <2>. QED
    BY <2>1
<1>. QED
  BY <1>1, <1>6 DEF n

\* A list is summed one number after the other.
LEMMA SumsInTurn ==
  ASSUME NEW list \in Seq(Int)
  PROVE  /\ Sums(list)[0] = 0
         /\ \A i \in 1..Len(list) : Sums(list)[i] = Sums(list)[i - 1] + list[i]
<1> DEFINE n == Len(list)
           Solves(f, m) == f = [i \in 0..m |-> IF i = 0 THEN 0 ELSE f[i - 1] + list[i]]
           T == {m \in 0..n : \E f : Solves(f, m)}
<1>1. n \in Nat
  OBVIOUS
<1>. HIDE DEF n
<1>2. 0 \in T
  <2>1. Solves([i \in 0..0 |-> 0], 0)
    OBVIOUS
  <2>. HIDE DEF Solves
  <2>. QED
    BY <1>1, <2>1
<1>3. ASSUME NEW m \in 1..n, m - 1 \in T
      PROVE  m \in T
  <2>1. PICK f : Solves(f, m - 1)
    BY <1>3
  <2> DEFINE g == [i \in 0..m |-> IF i = m THEN f[m - 1] + list[m] ELSE f[i]]
  <2>2. Solves(g, m)
    <3>1. \A i \in 0..(m - 1) : f[i] = IF i = 0 THEN 0 ELSE f[i - 1] + list[i]
      BY <2>1
    <3>2. ASSUME NEW i \in 0..m
          PROVE  g[i] = IF i = 0 THEN 0 ELSE g[i - 1] + list[i]
      BY <3>1
    <3>. QED
      BY <3>2
  <2>. HIDE DEF Solves
  <2>. QED
    BY <1>1, <2>2
<1>. HIDE DEF Solves
<1>4. \E f : Solves(f, n)
  <2>. HIDE DEF T
  <2>1. 0..n \subseteq T
    BY <1>1, <1>2, <1>3, UpTo
  <2>. QED
    BY <1>1, <2>1 DEF T
<1>5. Solves(Sums(list), n)
  BY <1>4 DEF Sums, Solves, n
<1>6. \A i \in 0..n : Sums(list)[i] = IF i = 0 THEN 0 ELSE Sums(list)[i - 1] + list[i]
  <2>. HIDE DEF n
  <2>1. Sums(list) = [i \in 0..n |-> IF i = 0 THEN 0 ELSE Sums(list)[i - 1] + list[i]]
    BY <1>5 DEF Solves
  <2>. QED
    BY <2>1
<1>. QED
  BY <1>1, <1>6 DEF n

-----------------------------------------------------------------------------
(* The two kernels, call by call.                                          *)

\* Both kernels end a day and a week at the same tick.
LEMMA SameCalendar ==
  ASSUME NEW t \in Nat
  PROVE  /\ NextUtcMidnight(t) = Prod!NextMidnight(t) /\ Prod!NextMidnight(t) \in Nat
         /\ NextUtcMonday(t) = Prod!NextMonday(t) /\ Prod!NextMonday(t) \in Nat
<1>1. NextUtcMidnight(t) = Prod!NextMidnight(t) /\ Prod!NextMidnight(t) \in Nat
  <2>1. NextUtcMidnight(t) = Day * (t \div Day) + Day
    BY Days DEF NextUtcMidnight
  <2>2. Prod!NextMidnight(t) = Day * (t \div Day) + Day
    BY Days, KernelAssumption DEF Prod!NextMidnight
  <2>. QED
    BY <2>1, <2>2, Days, KernelAssumption
<1>2. NextUtcMonday(t) = Prod!NextMonday(t) /\ Prod!NextMonday(t) \in Nat
  <2> DEFINE w == (t \div Day) % WeekDays
  <2>1. w \in 0..(WeekDays - 1)
    BY Days, KernelAssumption
  <2>2. /\ NextUtcMonday(t) = t + Day * (IF w = 0 THEN WeekDays ELSE WeekDays - w)
        /\ Prod!NextMonday(t) = t + (WeekDays - w) * Day
    BY DEF NextUtcMonday, Prod!NextMonday
  <2>. HIDE DEF w
  <2>. QED
    BY <2>1, <2>2, KernelAssumption
<1>. QED
  BY <1>1, <1>2

\* Both kernels begin with the same record.
LEMMA SameNewKernel ==
  ASSUME NEW t \in Nat
  PROVE  NewKernel(t) = Prod!Fresh(t) /\ NewKernel(t) \in Prod!KernelState
<1>1. NewKernel(t) = Prod!Fresh(t)
  BY SameCalendar DEF NewKernel, Prod!Fresh
<1>2. ASSUME NEW a \in Nat, NEW b \in Nat
      PROVE  [starting |-> Capital, current |-> Capital, peak |-> Capital,
              daily |-> 0, weekly |-> 0, total |-> 0, losses |-> 0,
              halted |-> FALSE, reason |-> "none", until |-> 0,
              dailyReset |-> a, weeklyReset |-> b] \in Prod!KernelState
  BY KernelAssumption DEF Prod!KernelState, Prod!Reasons
<1>3. NewKernel(t) \in Prod!KernelState
  BY <1>2, SameCalendar DEF NewKernel
<1>. QED
  BY <1>1, <1>3

\* Typing of the updates the kernels' operators make.
LEMMA SetPeriods ==
  ASSUME NEW k \in Prod!KernelState, NEW d \in Int, NEW m \in Nat, NEW w \in Int, NEW n \in Nat
  PROVE  [k EXCEPT !.daily = d, !.dailyReset = m, !.weekly = w, !.weeklyReset = n]
           \in Prod!KernelState
  BY DEF Prod!KernelState

\* A kernel's halt replaced by another one.
LEMMA SetHalt ==
  ASSUME NEW k \in Prod!KernelState, NEW b \in BOOLEAN, NEW r \in Prod!Reasons, NEW n \in Nat
  PROVE  [k EXCEPT !.halted = b, !.reason = r, !.until = n] \in Prod!KernelState
  BY DEF Prod!KernelState

\* A kernel's count of losses replaced.
LEMMA SetLosses ==
  ASSUME NEW k \in Prod!KernelState, NEW n \in Nat
  PROVE  [k EXCEPT !.losses = n] \in Prod!KernelState
  BY DEF Prod!KernelState

\* A kernel's books replaced by other figures.
LEMMA SetBooks ==
  ASSUME NEW k \in Prod!KernelState, NEW d \in Int, NEW w \in Int, NEW u \in Int,
         NEW c \in Int, NEW p \in Int, NEW n \in Nat
  PROVE  [k EXCEPT !.daily = d, !.weekly = w, !.total = u, !.current = c,
                   !.peak = p, !.losses = n] \in Prod!KernelState
  BY DEF Prod!KernelState

\* Both kernels begin the same periods at the same times (_maybe_reset_periods).
LEMMA SameReset ==
  ASSUME NEW k \in Prod!KernelState, NEW t \in Nat
  PROVE  /\ ResetPeriods(k, t) = Prod!MaybeResetPeriods(k, t)
         /\ ResetPeriods(k, t) \in Prod!KernelState
         /\ ResetPeriods(k, t).daily = (IF t >= k.dailyReset THEN 0 ELSE k.daily)
         /\ ResetPeriods(k, t).dailyReset
              = (IF t >= k.dailyReset THEN NextUtcMidnight(t) ELSE k.dailyReset)
         /\ ResetPeriods(k, t).current = k.current
         /\ ResetPeriods(k, t).starting = k.starting
         /\ ResetPeriods(k, t).total = k.total
<1> DEFINE d == IF t >= k.dailyReset THEN 0 ELSE k.daily
           m == IF t >= k.dailyReset THEN NextUtcMidnight(t) ELSE k.dailyReset
           w == IF t >= k.weeklyReset THEN 0 ELSE k.weekly
           n == IF t >= k.weeklyReset THEN NextUtcMonday(t) ELSE k.weeklyReset
           r == [k EXCEPT !.daily = d, !.dailyReset = m, !.weekly = w, !.weeklyReset = n]
<1>1. d \in Int /\ m \in Nat /\ w \in Int /\ n \in Nat
  BY SameCalendar DEF Prod!KernelState
<1>2. ResetPeriods(k, t) = r
  BY DEF ResetPeriods
<1>3. Prod!MaybeResetPeriods(k, t) = r
  <2> DEFINE early == Prod!DailyReset(k, t)
  <2>1. early = [k EXCEPT !.daily = d, !.dailyReset = m]
    BY SameCalendar DEF Prod!DailyReset, Prod!KernelState
  <2>. HIDE DEF d, m
  <2>2. early.weeklyReset = k.weeklyReset /\ early.weekly = k.weekly
    BY <2>1 DEF Prod!KernelState
  <2>3. Prod!WeeklyReset(early, t) = [early EXCEPT !.weekly = w, !.weeklyReset = n]
    <3>1. CASE t >= k.weeklyReset
      BY <2>2, <3>1, SameCalendar DEF Prod!WeeklyReset
    <3>2. CASE ~(t >= k.weeklyReset)
      <4>. HIDE DEF early
      <4>1. w = early.weekly /\ n = early.weeklyReset
        BY <2>2, <3>2
      <4>2. early = [early EXCEPT !.weekly = early.weekly, !.weeklyReset = early.weeklyReset]
        BY <2>1 DEF Prod!KernelState
      <4>. QED
        BY <4>1, <4>2, <2>2, <3>2 DEF Prod!WeeklyReset
    <3>. QED
      BY <3>1, <3>2
  <2>. HIDE DEF early, w, n
  <2>. QED
    BY <2>1, <2>3 DEF Prod!MaybeResetPeriods, Prod!KernelState, early
<1>. HIDE DEF d, m, w, n
<1>4. r \in Prod!KernelState
  BY <1>1, SetPeriods, Zenon
<1>5. /\ r.daily = d /\ r.dailyReset = m
      /\ r.current = k.current /\ r.starting = k.starting /\ r.total = k.total
  BY DEF Prod!KernelState
<1>. HIDE DEF r
<1>. QED
  BY <1>2, <1>3, <1>4, <1>5 DEF d, m

\* Both kernels lift an expired halt alike (_check_killswitch_active).
LEMMA SameCheck ==
  ASSUME NEW k \in Prod!KernelState, NEW t \in Nat
  PROVE  /\ CheckActive(k, t) = Prod!CheckKillswitch(k, t)
         /\ CheckActive(k, t) \in Prod!KernelState
         /\ CheckActive(k, t).daily = k.daily
         /\ CheckActive(k, t).dailyReset = k.dailyReset
         /\ CheckActive(k, t).current = k.current
         /\ CheckActive(k, t).starting = k.starting
         /\ CheckActive(k, t).total = k.total
<1> DEFINE r == [k EXCEPT !.halted = FALSE, !.reason = "none", !.until = 0]
<1>1. CheckActive(k, t) \in {k, r} /\ CheckActive(k, t) = Prod!CheckKillswitch(k, t)
  <2>1. k.until # 0 <=> k.until > 0
    BY DEF Prod!KernelState
  <2>. QED
    BY <2>1 DEF CheckActive, Prod!CheckKillswitch, Prod!HaltExpired, Prod!Resumed
<1>2. r \in Prod!KernelState
  <2>1. "none" \in Prod!Reasons /\ 0 \in Nat /\ FALSE \in BOOLEAN
    BY DEF Prod!Reasons
  <2>. QED
    BY <2>1, SetHalt, Zenon
<1>3. /\ r.daily = k.daily /\ r.dailyReset = k.dailyReset
      /\ r.current = k.current /\ r.starting = k.starting /\ r.total = k.total
  BY DEF Prod!KernelState
<1>. HIDE DEF r
<1>. QED
  BY <1>1, <1>2, <1>3

\* The records a judgement may end in, and what it leaves alone in each.
LEMMA Halted ==
  ASSUME NEW k \in Prod!KernelState, NEW t \in Nat, NEW why \in Prod!Reasons, NEW n \in Nat
  PROVE  LET h == Halt(k, t, why, n)
             c == [h EXCEPT !.losses = 0]
         IN  /\ h = Prod!TriggerHalt(k, t, why, n)
             /\ h \in Prod!KernelState /\ c \in Prod!KernelState
             /\ h.daily = k.daily /\ h.dailyReset = k.dailyReset
             /\ h.current = k.current /\ h.starting = k.starting /\ h.total = k.total
             /\ c.daily = k.daily /\ c.dailyReset = k.dailyReset
             /\ c.current = k.current /\ c.starting = k.starting /\ c.total = k.total
<1> DEFINE h == Halt(k, t, why, n)
<1>1. h = Prod!TriggerHalt(k, t, why, n)
  BY DEF Halt, Prod!TriggerHalt
<1>2. h \in Prod!KernelState
  <2>1. TRUE \in BOOLEAN /\ t + n \in Nat
    OBVIOUS
  <2>. QED
    BY <2>1, SetHalt, Zenon DEF Halt
<1>3. /\ h.daily = k.daily /\ h.dailyReset = k.dailyReset
      /\ h.current = k.current /\ h.starting = k.starting /\ h.total = k.total
  BY DEF Halt, Prod!KernelState
<1>. HIDE DEF h
<1>4. [h EXCEPT !.losses = 0] \in Prod!KernelState
  BY <1>2, SetLosses
<1>5. LET c == [h EXCEPT !.losses = 0]
      IN  /\ c.daily = h.daily /\ c.dailyReset = h.dailyReset
          /\ c.current = h.current /\ c.starting = h.starting /\ c.total = h.total
  BY <1>2 DEF Prod!KernelState
<1>. QED
  BY <1>1, <1>2, <1>3, <1>4, <1>5 DEF h

\* Judging a kernel leaves its books alone, in either kernel.
LEMMA Judged ==
  ASSUME NEW k \in Prod!KernelState, NEW t \in Nat
  PROVE  /\ Evaluate(k, t) \in Prod!KernelState
         /\ Prod!EvaluateKillswitches(k, t) \in Prod!KernelState
         /\ Evaluate(k, t).daily = k.daily
         /\ Evaluate(k, t).dailyReset = k.dailyReset
         /\ Evaluate(k, t).current = k.current
         /\ Evaluate(k, t).starting = k.starting
         /\ Evaluate(k, t).total = k.total
<1>1. Day \in Nat /\ WeekDays * Day \in Nat /\ Forever \in Nat
  BY KernelAssumption
<1>2. /\ "daily_drawdown" \in Prod!Reasons /\ "weekly_drawdown" \in Prod!Reasons
      /\ "total_drawdown" \in Prod!Reasons /\ "consecutive_loss_cooldown" \in Prod!Reasons
  BY DEF Prod!Reasons
<1>3. \/ Evaluate(k, t) = k
      \/ Evaluate(k, t) = Halt(k, t, "daily_drawdown", Day)
      \/ Evaluate(k, t) = Halt(k, t, "weekly_drawdown", WeekDays * Day)
      \/ Evaluate(k, t) = Halt(k, t, "total_drawdown", Forever)
      \/ Evaluate(k, t) = [Halt(k, t, "consecutive_loss_cooldown", Day) EXCEPT !.losses = 0]
  BY DEF Evaluate
<1>4. \/ Prod!EvaluateKillswitches(k, t) = k
      \/ Prod!EvaluateKillswitches(k, t) = Prod!TriggerHalt(k, t, "daily_drawdown", Day)
      \/ Prod!EvaluateKillswitches(k, t) = Prod!TriggerHalt(k, t, "weekly_drawdown", WeekDays * Day)
      \/ Prod!EvaluateKillswitches(k, t) = Prod!TriggerHalt(k, t, "total_drawdown", Forever)
      \/ Prod!EvaluateKillswitches(k, t)
           = [Prod!TriggerHalt(k, t, "consecutive_loss_cooldown", Day) EXCEPT !.losses = 0]
  BY DEF Prod!EvaluateKillswitches
<1> DEFINE Kept(r) == /\ r \in Prod!KernelState
                      /\ r.daily = k.daily /\ r.dailyReset = k.dailyReset
                      /\ r.current = k.current /\ r.starting = k.starting
                      /\ r.total = k.total
<1>5. ASSUME NEW why \in Prod!Reasons, NEW n \in Nat
      PROVE  /\ Kept(Halt(k, t, why, n)) /\ Kept([Halt(k, t, why, n) EXCEPT !.losses = 0])
             /\ Halt(k, t, why, n) = Prod!TriggerHalt(k, t, why, n)
  BY Halted
<1>6. Kept(k)
  OBVIOUS
<1>. HIDE DEF Kept
<1>7. /\ Kept(Halt(k, t, "daily_drawdown", Day))
      /\ Kept(Halt(k, t, "weekly_drawdown", WeekDays * Day))
      /\ Kept(Halt(k, t, "total_drawdown", Forever))
      /\ Kept([Halt(k, t, "consecutive_loss_cooldown", Day) EXCEPT !.losses = 0])
  BY <1>1, <1>2, <1>5, Zenon
<1>8. /\ Kept(Prod!TriggerHalt(k, t, "daily_drawdown", Day))
      /\ Kept(Prod!TriggerHalt(k, t, "weekly_drawdown", WeekDays * Day))
      /\ Kept(Prod!TriggerHalt(k, t, "total_drawdown", Forever))
      /\ Kept([Prod!TriggerHalt(k, t, "consecutive_loss_cooldown", Day) EXCEPT !.losses = 0])
  BY <1>1, <1>2, <1>5, <1>7, Zenon
<1>9. Kept(Evaluate(k, t)) /\ Kept(Prod!EvaluateKillswitches(k, t))
  BY <1>3, <1>4, <1>6, <1>7, <1>8, Zenon
<1>. QED
  BY <1>9 DEF Kept

\* With equity left, both kernels judge the four limits alike.
LEMMA SameJudgement ==
  ASSUME NEW k \in Prod!KernelState, NEW t \in Nat, k.current > 0
  PROVE  Evaluate(k, t) = Prod!EvaluateKillswitches(k, t)
<1>1. /\ 100 * Lost(k.daily) >= 5 * k.current <=> Prod!DailyBreach(k)
      /\ 100 * Lost(k.weekly) >= 10 * k.current <=> Prod!WeeklyBreach(k)
      /\ k.peak > 0 /\ 100 * (k.peak - k.current) >= 15 * k.peak <=> Prod!TotalBreach(k)
      /\ k.losses >= 3 <=> Prod!LosingStreak(k)
  BY DEF Lost, Prod!Loss, Prod!Reaches, Prod!DailyBreach, Prod!WeeklyBreach,
         Prod!TotalBreach, Prod!LosingStreak, Prod!KernelState
<1>2. \A why, n : Halt(k, t, why, n) = Prod!TriggerHalt(k, t, why, n)
  BY DEF Halt, Prod!TriggerHalt
<1>3. ~(k.current <= 0)
  BY DEF Prod!KernelState
<1>. QED
  BY <1>1, <1>2, <1>3 DEF Evaluate, Prod!EvaluateKillswitches

\* Both kernels book a closed trade alike while there is equity (record_trade_outcome).
LEMMA SameRecord ==
  ASSUME NEW k \in Prod!KernelState, NEW pnl \in Int, NEW t \in Nat
  PROVE  /\ Record(k, pnl, t) \in Prod!KernelState
         /\ TwinRecord(k, pnl, t) \in Prod!KernelState
         /\ Record(k, pnl, t).daily = k.daily + pnl
         /\ Record(k, pnl, t).dailyReset = k.dailyReset
         /\ Record(k, pnl, t).current = k.starting + k.total + pnl
         /\ Record(k, pnl, t).starting = k.starting
         /\ Record(k, pnl, t).total = k.total + pnl
         /\ k.starting + k.total + pnl > 0 => Record(k, pnl, t) = TwinRecord(k, pnl, t)
<1> DEFINE d == k.daily + pnl
           w == k.weekly + pnl
           u == k.total + pnl
           c == k.starting + k.total + pnl
           p == IF c > k.peak THEN c ELSE k.peak
           n == IF pnl < 0 THEN k.losses + 1 ELSE 0
           r == [k EXCEPT !.daily = d, !.weekly = w, !.total = u, !.current = c,
                          !.peak = p, !.losses = n]
<1>1. d \in Int /\ w \in Int /\ u \in Int /\ c \in Int /\ p \in Int /\ n \in Nat
  BY DEF Prod!KernelState
<1>2. Prod!Booked(k, pnl) = r /\ Record(k, pnl, t) = Evaluate(r, t)
  BY DEF Record, Prod!Booked
<1>3. TwinRecord(k, pnl, t) = (IF r.current = 0 THEN r ELSE Prod!EvaluateKillswitches(r, t))
  BY <1>2 DEF TwinRecord
<1>. HIDE DEF d, w, u, c, p, n
<1>4. r \in Prod!KernelState
  BY <1>1, SetBooks, Zenon
<1>5. /\ r.daily = d /\ r.total = u /\ r.current = c
      /\ r.dailyReset = k.dailyReset /\ r.starting = k.starting
  BY DEF Prod!KernelState
<1>. HIDE DEF r
<1>6. c > 0 => r.current > 0 /\ r.current # 0
  BY <1>1, <1>5
<1>7. /\ Evaluate(r, t).daily = d /\ Evaluate(r, t).dailyReset = k.dailyReset
      /\ Evaluate(r, t).current = c /\ Evaluate(r, t).starting = k.starting
      /\ Evaluate(r, t).total = u /\ Evaluate(r, t) \in Prod!KernelState
      /\ Prod!EvaluateKillswitches(r, t) \in Prod!KernelState
  BY <1>4, <1>5, Judged
<1>8. c > 0 => Evaluate(r, t) = Prod!EvaluateKillswitches(r, t)
  BY <1>4, <1>6, SameJudgement
<1>. QED
  BY <1>2, <1>3, <1>4, <1>6, <1>7, <1>8 DEF d, u, c

-----------------------------------------------------------------------------
(* Sums over lists that grow, change in one place, or lose an element.     *)

\* The sums of a list of integers are integers.
LEMMA SumsTyped ==
  ASSUME NEW f \in Seq(Int)
  PROVE  Sum(f) \in Int /\ \A i \in 0..Len(f) : Sums(f)[i] \in Int
<1> DEFINE n == Len(f)
           T == {i \in 0..n : Sums(f)[i] \in Int}
<1>1. n \in Nat
  OBVIOUS
<1>2. 0 \in T
  BY SumsInTurn
<1>3. \A i \in 1..n : i - 1 \in T => i \in T
  BY SumsInTurn
<1>. HIDE DEF T
<1>4. 0..n \subseteq T
  BY <1>1, <1>2, <1>3, UpTo
<1>. QED
  BY <1>1, <1>4 DEF T, Sum

\* Nothing sums to 0.
LEMMA SumEmpty == Sum(<<>>) = 0
<1>1. <<>> \in Seq(Int) /\ Len(<<>>) = 0
  OBVIOUS
<1>. QED
  BY <1>1, SumsInTurn DEF Sum

\* An appended number is added to the sum.
LEMMA SumAppended ==
  ASSUME NEW f \in Seq(Int), NEW x \in Int
  PROVE  Sum(Append(f, x)) = Sum(f) + x
<1> DEFINE n == Len(f)
           g == Append(f, x)
           T == {i \in 0..n : Sums(g)[i] = Sums(f)[i]}
<1>1. /\ n \in Nat /\ g \in Seq(Int) /\ Len(g) = n + 1 /\ g[n + 1] = x
      /\ \A i \in 1..n : g[i] = f[i]
  OBVIOUS
<1>. HIDE DEF g
<1>2. 0 \in T
  BY <1>1, SumsInTurn
<1>3. \A i \in 1..n : i - 1 \in T => i \in T
  BY <1>1, SumsInTurn
<1>. HIDE DEF T
<1>4. 0..n \subseteq T
  BY <1>1, <1>2, <1>3, UpTo
<1>5. Sums(g)[n] = Sums(f)[n]
  BY <1>1, <1>4 DEF T
<1>6. n + 1 \in 1..Len(g) /\ (n + 1) - 1 = n
  BY <1>1
<1>7. Sums(g)[n + 1] = Sums(g)[n] + x
  BY <1>1, <1>6, SumsInTurn
<1>. QED
  BY <1>1, <1>5, <1>7 DEF Sum, g

\* Replacing one number changes the sum by the difference.
LEMMA SumReplaced ==
  ASSUME NEW f \in Seq(Int), NEW g \in Seq(Int), NEW k \in 1..Len(f), Len(g) = Len(f),
         \A i \in 1..Len(f) : i # k => g[i] = f[i]
  PROVE  Sum(g) = (Sum(f) - f[k]) + g[k]
<1> DEFINE n == Len(f)
           Due(i) == IF i < k THEN Sums(f)[i] ELSE (Sums(f)[i] - f[k]) + g[k]
           T == {i \in 0..n : Sums(g)[i] = Due(i)}
<1>1. n \in Nat /\ f[k] \in Int /\ g[k] \in Int
  OBVIOUS
<1>2. 0 \in T
  BY SumsInTurn
<1>3. ASSUME NEW i \in 1..n, i - 1 \in T
      PROVE  i \in T
  <2>1. /\ Sums(g)[i] = Sums(g)[i - 1] + g[i] /\ Sums(f)[i] = Sums(f)[i - 1] + f[i]
        /\ Sums(g)[i - 1] = Due(i - 1)
    BY <1>3, SumsInTurn
  <2>2. f[i] \in Int /\ g[i] \in Int /\ Sums(f)[i - 1] \in Int /\ (i # k => g[i] = f[i])
    BY SumsTyped
  <2>3. CASE i < k
    BY <2>1, <2>2, <2>3
  <2>4. CASE i = k
    BY <2>1, <2>2, <2>4, <1>1
  <2>5. CASE i > k
    BY <2>1, <2>2, <2>5, <1>1
  <2>. QED
    BY <2>3, <2>4, <2>5
<1>. HIDE DEF T
<1>4. 0..n \subseteq T
  BY <1>1, <1>2, <1>3, UpTo
<1>. QED
  BY <1>1, <1>4 DEF T, Sum

\* Removing one number takes it off the sum.
LEMMA SumRemoved ==
  ASSUME NEW f \in Seq(Int), NEW g \in Seq(Int), NEW k \in 1..Len(f),
         Len(g) = Len(f) - 1,
         \A i \in 1..Len(g) : g[i] = IF i < k THEN f[i] ELSE f[i + 1]
  PROVE  Sum(g) = Sum(f) - f[k]
<1> DEFINE n == Len(g)
           Due(i) == IF i < k THEN Sums(f)[i] ELSE Sums(f)[i + 1] - f[k]
           T == {i \in 0..n : Sums(g)[i] = Due(i)}
<1>1. n \in Nat /\ f[k] \in Int /\ Len(f) = n + 1
  OBVIOUS
<1>2. 0 \in T
  BY SumsInTurn
<1>3. ASSUME NEW i \in 1..n, i - 1 \in T
      PROVE  i \in T
  <2>1. i \in 1..Len(f) /\ i + 1 \in 1..Len(f) /\ (i + 1) - 1 = i
    BY <1>1
  <2>2. /\ Sums(g)[i] = Sums(g)[i - 1] + g[i]
        /\ Sums(f)[i] = Sums(f)[i - 1] + f[i]
        /\ Sums(f)[i + 1] = Sums(f)[i] + f[i + 1]
        /\ Sums(g)[i - 1] = Due(i - 1)
    BY <1>3, <2>1, SumsInTurn
  <2>3. /\ f[i] \in Int /\ f[i + 1] \in Int /\ Sums(f)[i - 1] \in Int /\ Sums(f)[i] \in Int
        /\ g[i] = IF i < k THEN f[i] ELSE f[i + 1]
    BY <2>1, SumsTyped
  <2>4. CASE i < k
    BY <2>2, <2>3, <2>4
  <2>5. CASE i = k
    BY <2>2, <2>3, <2>5, <1>1
  <2>6. CASE i > k
    <3>1. (i - 1) + 1 = i /\ ~(i - 1 < k) /\ ~(i < k)
      BY <2>6
    <3>2. Due(i - 1) = Sums(f)[i] - f[k] /\ Due(i) = Sums(f)[i + 1] - f[k]
      BY <3>1
    <3>. QED
      BY <2>2, <2>3, <3>1, <3>2, <1>1
  <2>. QED
    BY <2>4, <2>5, <2>6
<1>. HIDE DEF T
<1>4. 0..n \subseteq T
  BY <1>1, <1>2, <1>3, UpTo
<1>5. Sums(g)[n] = Due(n)
  BY <1>1, <1>4 DEF T
<1>6. CASE k <= n
  BY <1>1, <1>5, <1>6 DEF Sum
<1>7. CASE k = n + 1
  <2>1. /\ n + 1 \in 1..Len(f) /\ (n + 1) - 1 = n /\ n \in 0..Len(f)
    BY <1>1
  <2>2. Sums(f)[n + 1] = Sums(f)[n] + f[n + 1] /\ Sums(f)[n] \in Int
    BY <2>1, SumsInTurn, SumsTyped
  <2>. QED
    BY <1>1, <1>5, <1>7, <2>2 DEF Sum
<1>. QED
  BY <1>1, <1>6, <1>7

-----------------------------------------------------------------------------
(* The list of open positions: one of them is changed, or closed, or a new one *)
(* comes last.                                                             *)

Distinct(list) == \A i, j \in DOMAIN list : list[i].id = list[j].id => i = j

\* The ids of a list of positions are positive numbers.
LEMMA IdsTyped ==
  ASSUME NEW list \in Seq(PositionState)
  PROVE  \A i \in DOMAIN list : list[i] \in PositionState /\ list[i].id \in Nat \ {0}
<1>1. \A p \in PositionState : p.id \in Nat \ {0}
  BY DEF PositionState
<1>2. \A i \in DOMAIN list : list[i] \in PositionState
  OBVIOUS
<1>. QED
  BY <1>1, <1>2

\* A position that is there is found by its id (_find_position).
LEMMA FoundById ==
  ASSUME NEW s, NEW id, Has(s, id)
  PROVE  /\ Place(s, id) \in DOMAIN s.positions
         /\ s.positions[Place(s, id)].id = id
         /\ Find(s, id) = s.positions[Place(s, id)]
  BY DEF Has, Place, Find

\* With distinct ids, the position found by an id is the one with it.
LEMMA FoundAt ==
  ASSUME NEW s, Distinct(s.positions), NEW k \in DOMAIN s.positions
  PROVE  /\ Has(s, s.positions[k].id)
         /\ Place(s, s.positions[k].id) = k
         /\ Find(s, s.positions[k].id) = s.positions[k]
<1>1. Has(s, s.positions[k].id)
  BY DEF Has
<1>. QED
  BY <1>1, FoundById DEF Distinct

\* A list without one of its elements.
LEMMA RemovedAt ==
  ASSUME NEW S, NEW list \in Seq(S), NEW k \in 1..Len(list)
  PROVE  /\ RemoveAt(list, k) \in Seq(S)
         /\ Len(RemoveAt(list, k)) = Len(list) - 1
         /\ \A i \in 1..(Len(list) - 1) :
              RemoveAt(list, k)[i] = IF i < k THEN list[i] ELSE list[i + 1]
<1> DEFINE n == Len(list)
           a == SubSeq(list, 1, k - 1)
           b == SubSeq(list, k + 1, n)
<1>1. n \in Nat /\ k \in 1..n
  OBVIOUS
<1>2. /\ a \in Seq(S) /\ Len(a) = k - 1
      /\ \A i \in 1..(k - 1) : a[i] = list[i]
  OBVIOUS
<1>3. /\ b \in Seq(S) /\ Len(b) = n - k
      /\ \A i \in 1..(n - k) : b[i] = list[k + i]
  OBVIOUS
<1>. HIDE DEF a, b, n
<1>4. /\ a \o b \in Seq(S) /\ Len(a \o b) = n - 1
      /\ \A i \in 1..(n - 1) : (a \o b)[i] = IF i <= k - 1 THEN a[i] ELSE b[i - (k - 1)]
  <2>1. a \in Seq(S) /\ b \in Seq(S) /\ Len(a) = k - 1 /\ Len(b) = n - k
    BY <1>2, <1>3
  <2>2. a \o b \in Seq(S) /\ Len(a \o b) = Len(a) + Len(b)
    BY <2>1
  <2>3. \A i \in 1..(Len(a) + Len(b)) :
          (a \o b)[i] = IF i <= Len(a) THEN a[i] ELSE b[i - Len(a)]
    BY <2>1
  <2>4. Len(a) + Len(b) = n - 1
    BY <1>1, <2>1
  <2>. QED
    BY <2>1, <2>2, <2>3, <2>4
<1>5. ASSUME NEW i \in 1..(n - 1)
      PROVE  (a \o b)[i] = IF i < k THEN list[i] ELSE list[i + 1]
  <2>1. CASE i < k
    BY <1>1, <1>2, <1>4, <2>1
  <2>2. CASE ~(i < k)
    <3>1. i - (k - 1) \in 1..(n - k) /\ k + (i - (k - 1)) = i + 1 /\ ~(i <= k - 1)
      BY <1>1, <2>2
    <3>. QED
      BY <1>3, <1>4, <2>2, <3>1
  <2>. QED
    BY <2>1, <2>2
<1>6. RemoveAt(list, k) = a \o b
  BY DEF RemoveAt, a, b, n
<1>. HIDE DEF n
<1>. QED
  BY <1>4, <1>5, <1>6 DEF n

\* With distinct ids, replacing a position changes one place of the list.
LEMMA OneReplaced ==
  ASSUME NEW s, s.positions \in Seq(PositionState), Distinct(s.positions),
         NEW p, Has(s, p.id)
  PROVE  Replaced(s, p) = [s.positions EXCEPT ![Place(s, p.id)] = p]
<1> DEFINE k == Place(s, p.id)
<1>1. k \in DOMAIN s.positions /\ s.positions[k].id = p.id
  BY FoundById
<1>2. \A i \in DOMAIN s.positions : s.positions[i].id = p.id <=> i = k
  BY <1>1 DEF Distinct
<1>. HIDE DEF k
<1>. QED
  BY <1>2 DEF Replaced, k

\* What a step from s to r does to the list.
Changed(s, r, k, p) ==
  /\ k \in DOMAIN s.positions /\ p.id = s.positions[k].id
  /\ r.positions = [s.positions EXCEPT ![k] = p]
Removed(s, r, k) ==
  k \in DOMAIN s.positions /\ r.positions = RemoveAt(s.positions, k)
Added(s, r, p) ==
  ~Has(s, p.id) /\ r.positions = Append(s.positions, p)

\* Positions other than one are as they were.
OthersKept(s, r, id) == \A j : j # id /\ Has(s, j) => Find(r, j) = Find(s, j)

\* The view by id after a position was changed to p, the one called id was removed,
\* or p was added.
AfterChange(s, r, p) ==
  /\ Distinct(r.positions) /\ Len(r.positions) = Len(s.positions)
  /\ \A j : Has(r, j) <=> Has(s, j)
  /\ Find(r, p.id) = p
  /\ OthersKept(s, r, p.id)
AfterRemoval(s, r, id) ==
  /\ Distinct(r.positions)
  /\ \A j : Has(r, j) <=> Has(s, j) /\ j # id
  /\ OthersKept(s, r, id)
AfterAddition(s, r, p) ==
  /\ Distinct(r.positions)
  /\ \A j : Has(r, j) <=> Has(s, j) \/ j = p.id
  /\ Find(r, p.id) = p
  /\ OthersKept(s, r, p.id)

\* Changing a position in its place leaves every other one as it is.
LEMMA ViewChanged ==
  ASSUME NEW s, NEW r, s.positions \in Seq(PositionState), Distinct(s.positions),
         NEW k, NEW p, Changed(s, r, k, p)
  PROVE  AfterChange(s, r, p)
<1>1. /\ DOMAIN r.positions = DOMAIN s.positions /\ Len(r.positions) = Len(s.positions)
      /\ r.positions[k] = p /\ k \in DOMAIN s.positions
      /\ \A i \in DOMAIN s.positions : i # k => r.positions[i] = s.positions[i]
  BY DEF Changed
<1>2. \A i \in DOMAIN s.positions : r.positions[i].id = s.positions[i].id
  BY <1>1 DEF Changed
<1>3. Distinct(r.positions)
  BY <1>1, <1>2 DEF Distinct
<1>4. \A j : Has(r, j) <=> Has(s, j)
  BY <1>1, <1>2 DEF Has
<1>5. Find(r, p.id) = p
  BY <1>1, <1>3, FoundAt
<1>6. ASSUME NEW j, j # p.id, Has(s, j)
      PROVE  Find(r, j) = Find(s, j)
  <2>1. PICK i \in DOMAIN s.positions : s.positions[i].id = j
    BY <1>6 DEF Has
  <2>2. i # k /\ r.positions[i] = s.positions[i] /\ i \in DOMAIN r.positions
    BY <1>1, <1>6, <2>1 DEF Changed
  <2>. QED
    BY <1>3, <2>1, <2>2, FoundAt
<1>. QED
  BY <1>1, <1>3, <1>4, <1>5, <1>6 DEF OthersKept, AfterChange

\* Removing a position leaves every other one as it is.
LEMMA ViewRemoved ==
  ASSUME NEW s, NEW r, s.positions \in Seq(PositionState), Distinct(s.positions),
         NEW k, Removed(s, r, k)
  PROVE  AfterRemoval(s, r, s.positions[k].id)
<1> DEFINE n == Len(s.positions) - 1
<1>1. /\ k \in 1..Len(s.positions) /\ n \in Nat /\ Len(s.positions) = n + 1
      /\ DOMAIN s.positions = 1..(n + 1)
  BY DEF Removed
<1>2. /\ DOMAIN r.positions = 1..n
      /\ \A i \in 1..n : r.positions[i] = IF i < k THEN s.positions[i] ELSE s.positions[i + 1]
  <2>1. PICK list : list = s.positions /\ list \in Seq(PositionState) /\ k \in 1..Len(list)
    BY <1>1
  <2>2. /\ RemoveAt(list, k) \in Seq(PositionState)
        /\ Len(RemoveAt(list, k)) = Len(list) - 1
        /\ \A i \in 1..(Len(list) - 1) :
             RemoveAt(list, k)[i] = IF i < k THEN list[i] ELSE list[i + 1]
    BY <2>1, RemovedAt
  <2>3. r.positions = RemoveAt(list, k)
    BY <2>1 DEF Removed
  <2>. QED
    BY <1>1, <2>1, <2>2, <2>3
<1>. HIDE DEF n
<1>3. \A i \in 1..n : \E m \in 1..(n + 1) : m # k /\ r.positions[i] = s.positions[m]
  <2>. SUFFICES ASSUME NEW i \in 1..n
                PROVE  \E m \in 1..(n + 1) : m # k /\ r.positions[i] = s.positions[m]
    OBVIOUS
  <2>1. i \in 1..(n + 1) /\ i + 1 \in 1..(n + 1) /\ (i < k => i # k) /\ (~(i < k) => i + 1 # k)
    BY <1>1
  <2>2. i < k => r.positions[i] = s.positions[i]
    BY <1>2
  <2>3. ~(i < k) => r.positions[i] = s.positions[i + 1]
    BY <1>2
  <2>. QED
    BY <2>1, <2>2, <2>3
<1>4. \A m \in 1..(n + 1) : m # k => \E i \in 1..n : r.positions[i] = s.positions[m]
  <2>. SUFFICES ASSUME NEW m \in 1..(n + 1), m # k
                PROVE  \E i \in 1..n : r.positions[i] = s.positions[m]
    OBVIOUS
  <2>1. CASE m < k
    BY <1>1, <1>2, <2>1
  <2>2. CASE m > k
    <3>1. m - 1 \in 1..n /\ ~(m - 1 < k) /\ (m - 1) + 1 = m
      BY <1>1, <2>2
    <3>. QED
      BY <1>2, <3>1
  <2>. QED
    BY <1>1, <2>1, <2>2
<1>5. Distinct(r.positions)
  <2>. SUFFICES ASSUME NEW i \in 1..n, NEW j \in 1..n,
                       r.positions[i].id = r.positions[j].id
                PROVE  i = j
    BY <1>2 DEF Distinct
  <2> DEFINE At(x) == IF x < k THEN x ELSE x + 1
  <2>1. At(i) \in 1..(n + 1) /\ At(j) \in 1..(n + 1)
    BY <1>1
  <2>2. s.positions[At(i)].id = s.positions[At(j)].id
    BY <1>2
  <2>3. At(i) = At(j)
    BY <1>1, <2>1, <2>2 DEF Distinct
  <2>. QED
    BY <1>1, <2>3
<1>6. \A j : Has(r, j) <=> Has(s, j) /\ j # s.positions[k].id
  <2>. SUFFICES ASSUME NEW j
                PROVE  Has(r, j) <=> Has(s, j) /\ j # s.positions[k].id
    OBVIOUS
  <2>1. \A m \in 1..(n + 1) : m # k => s.positions[m].id # s.positions[k].id
    BY <1>1 DEF Distinct
  <2>2. ASSUME Has(r, j)
        PROVE  Has(s, j) /\ j # s.positions[k].id
    <3>1. PICK i \in 1..n : r.positions[i].id = j
      BY <1>2, <2>2 DEF Has
    <3>2. PICK m \in 1..(n + 1) : m # k /\ r.positions[i] = s.positions[m]
      BY <1>3
    <3>. QED
      BY <1>1, <2>1, <3>1, <3>2 DEF Has
  <2>3. ASSUME Has(s, j), j # s.positions[k].id
        PROVE  Has(r, j)
    <3>1. PICK m \in 1..(n + 1) : s.positions[m].id = j
      BY <1>1, <2>3 DEF Has
    <3>2. PICK i \in 1..n : r.positions[i] = s.positions[m]
      BY <1>4, <2>3, <3>1
    <3>. QED
      BY <1>2, <3>1, <3>2 DEF Has
  <2>. QED
    BY <2>2, <2>3
<1>7. ASSUME NEW j, j # s.positions[k].id, Has(s, j)
      PROVE  Find(r, j) = Find(s, j)
  <2>1. PICK i \in 1..n : r.positions[i].id = j
    BY <1>2, <1>6, <1>7 DEF Has
  <2>2. PICK m \in 1..(n + 1) : r.positions[i] = s.positions[m]
    BY <1>3
  <2>. QED
    BY <1>1, <1>2, <1>5, <2>1, <2>2, FoundAt
<1>. QED
  BY <1>5, <1>6, <1>7 DEF OthersKept, AfterRemoval

\* Adding a position leaves every other one as it is.
LEMMA ViewAdded ==
  ASSUME NEW s, NEW r, s.positions \in Seq(PositionState), Distinct(s.positions),
         NEW p \in PositionState, Added(s, r, p)
  PROVE  AfterAddition(s, r, p)
<1> DEFINE n == Len(s.positions)
<1>1. /\ n \in Nat /\ DOMAIN s.positions = 1..n /\ DOMAIN r.positions = 1..(n + 1)
      /\ r.positions[n + 1] = p
      /\ \A i \in 1..n : r.positions[i] = s.positions[i]
  BY DEF Added
<1>. HIDE DEF n
<1>2. \A i \in 1..(n + 1) : i = n + 1 \/ i \in 1..n
  BY <1>1
<1>3. Distinct(r.positions)
  BY <1>1, <1>2 DEF Distinct, Has, Added
<1>4. \A j : Has(r, j) <=> Has(s, j) \/ j = p.id
  BY <1>1, <1>2 DEF Has
<1>5. Find(r, p.id) = p
  <2>1. n + 1 \in DOMAIN r.positions
    BY <1>1
  <2>. QED
    BY <1>1, <1>3, <2>1, FoundAt
<1>6. ASSUME NEW j, Has(s, j)
      PROVE  Find(r, j) = Find(s, j)
  <2>1. PICK i \in 1..n : s.positions[i].id = j
    BY <1>1, <1>6 DEF Has
  <2>2. /\ i \in DOMAIN s.positions /\ i \in DOMAIN r.positions
        /\ r.positions[i] = s.positions[i]
    BY <1>1
  <2>3. Find(s, j) = s.positions[i]
    BY <2>1, <2>2, FoundAt
  <2>4. Find(r, j) = r.positions[i]
    BY <1>3, <2>1, <2>2, FoundAt
  <2>. QED
    BY <2>2, <2>3, <2>4
<1>. QED
  BY <1>3, <1>4, <1>5, <1>6 DEF OthersKept, AfterAddition

-----------------------------------------------------------------------------
(* Simulations.                                                            *)

Whys == {"adapter", "stop_loss", "take_profit", "end_of_data"}

TradeState == [realized : Int, qty : Nat, why : Whys]

Sims ==
  [equity : Int, positions : Seq(PositionState), trades : Seq(TradeState), tier : Nat,
   kernel : Prod!KernelState, twin : Prod!KernelState, low : Int,
   cash : Int, fees : Int, today : Int, day : Nat]

\* Ids are given out once.
Listed(s) ==
  /\ Distinct(s.positions)
  /\ \A i \in DOMAIN s.positions : s.positions[i].id <= Len(s.positions) + Len(s.trades)

\* The kernel's equity is its books'; while there was some, the twin is the same.
Kernels(s) ==
  /\ s.kernel.current = s.kernel.starting + s.kernel.total
  /\ s.low <= s.kernel.current
  /\ s.low > 0 => s.kernel = s.twin

\* By how much the kernel's daily loss is off: the day's, and the window's.
Offsets(s) == <<s.kernel.daily - s.today, s.kernel.daily - s.kernel.total>>

\* What the engine never changes: the day, when it ends, and the two offsets.
Kept(s, o, m, d) ==
  Offsets(s) = o /\ s.kernel.dailyReset = m /\ s.day = d

AtCosts(list) == [i \in DOMAIN list |-> AtCost(list[i])]
Earned(list)  == [i \in DOMAIN list |-> list[i].realized - EntryFee(list[i])]
Charged(list) == [i \in DOMAIN list |-> Fee * list[i].qty]

Ledger(s) ==
  /\ s.equity = Capital + s.cash - s.fees + Sum(AtCosts(s.positions))
  /\ Production =>
       s.equity = s.kernel.current + Sum(Earned(s.positions)) - Sum(Charged(s.trades))

Sound(s, o, m, d) ==
  s \in Sims /\ Listed(s) /\ Kernels(s) /\ Kept(s, o, m, d) /\ Ledger(s)

Single(s) ==
  \/ s.positions = <<>> /\ s.tier = 0
  \/ Len(s.positions) = 1 /\ s.tier = s.positions[1].fills

\* Typing of the updates the engine makes.
LEMMA SetFill ==
  ASSUME NEW s \in Sims, NEW e \in Int, NEW list \in Seq(PositionState), NEW f \in Int, NEW c \in Int
  PROVE  [s EXCEPT !.equity = e, !.positions = list, !.fees = f, !.cash = c] \in Sims
  BY DEF Sims

\* A simulation's positions replaced.
LEMMA SetPositions ==
  ASSUME NEW s \in Sims, NEW list \in Seq(PositionState)
  PROVE  [s EXCEPT !.positions = list] \in Sims
  BY DEF Sims

\* A simulation's positions and trades replaced.
LEMMA SetTrade ==
  ASSUME NEW s \in Sims, NEW list \in Seq(PositionState), NEW t \in Seq(TradeState)
  PROVE  [s EXCEPT !.positions = list, !.trades = t] \in Sims
  BY DEF Sims

\* A strategy's tier replaced.
LEMMA SetTier ==
  ASSUME NEW s \in Sims, NEW n \in Nat
  PROVE  [s EXCEPT !.tier = n] \in Sims
  BY DEF Sims

\* What a closed position changes in adapter and kernels.
LEMMA SetOutcome ==
  ASSUME NEW s \in Sims, NEW k \in Prod!KernelState, NEW l \in Int,
         NEW w \in Prod!KernelState, NEW t \in Int
  PROVE  [s EXCEPT !.tier = 0, !.kernel = k, !.low = l, !.twin = w, !.today = t] \in Sims
  BY DEF Sims

\* What the strategy hears of a fill is the position's number of fills.
LEMMA Heard ==
  ASSUME NEW s \in Sims, NEW p \in PositionState
  PROVE  LET r == OnFill(s, p)
         IN  /\ r \in Sims
             /\ r.equity = s.equity /\ r.positions = s.positions /\ r.trades = s.trades
             /\ r.kernel = s.kernel /\ r.twin = s.twin /\ r.low = s.low
             /\ r.cash = s.cash /\ r.fees = s.fees /\ r.today = s.today /\ r.day = s.day
             /\ Production => r.tier = p.fills
<1> DEFINE n == p.fills
<1>1. n \in Nat
  BY DEF PositionState
<1>. HIDE DEF n
<1>2. [s EXCEPT !.tier = n] \in Sims
  BY <1>1, SetTier, Zenon
<1>3. OnFill(s, p) = IF Production THEN [s EXCEPT !.tier = n] ELSE s
  BY DEF OnFill, n
<1>4. LET r == [s EXCEPT !.tier = n]
      IN  /\ r.equity = s.equity /\ r.positions = s.positions /\ r.trades = s.trades
          /\ r.kernel = s.kernel /\ r.twin = s.twin /\ r.low = s.low
          /\ r.cash = s.cash /\ r.fees = s.fees /\ r.today = s.today /\ r.day = s.day
          /\ r.tier = n
  BY DEF Sims
<1>. QED
  BY <1>2, <1>3, <1>4 DEF n

\* What kernel, twin and strategy make of a closed position.
LEMMA Closed ==
  ASSUME NEW s \in Sims, Kernels(s), NEW p, p.realized \in Int, clock \in Nat
  PROVE  LET r == OnPositionClosed(s, p)
         IN  /\ r \in Sims
             /\ r.equity = s.equity /\ r.positions = s.positions /\ r.trades = s.trades
             /\ r.cash = s.cash /\ r.fees = s.fees /\ r.day = s.day
             /\ Kernels(r)
             /\ Offsets(r) = Offsets(s)
             /\ r.kernel.dailyReset = s.kernel.dailyReset
             /\ Production => r.kernel.current = s.kernel.current + p.realized /\ r.tier = 0
<1>1. CASE ~Production
  <2>1. OnPositionClosed(s, p) = s
    BY <1>1 DEF OnPositionClosed
  <2>. QED
    BY <2>1, <1>1
<1>2. CASE Production
  <2> DEFINE x == p.realized
             k == Record(s.kernel, x, clock)
             w == TwinRecord(s.twin, x, clock)
             l == Smaller(s.low, k.current)
             t == s.today + x
             r == [s EXCEPT !.tier = 0, !.kernel = k, !.low = l, !.twin = w, !.today = t]
  <2>1. OnPositionClosed(s, p) = r
    BY <1>2 DEF OnPositionClosed
  <2>2. PICK c : c = clock /\ c \in Nat
    OBVIOUS
  <2>3. /\ s.kernel \in Prod!KernelState /\ s.twin \in Prod!KernelState
        /\ s.low \in Int /\ s.today \in Int /\ x \in Int
    BY DEF Sims
  <2>4. /\ k \in Prod!KernelState /\ w \in Prod!KernelState
        /\ k.daily = s.kernel.daily + x /\ k.dailyReset = s.kernel.dailyReset
        /\ k.current = s.kernel.starting + s.kernel.total + x
        /\ k.starting = s.kernel.starting /\ k.total = s.kernel.total + x
        /\ k.current > 0 => k = TwinRecord(s.kernel, x, clock)
    BY <2>2, <2>3, SameRecord
  <2>5. k.current \in Int /\ s.kernel.daily \in Int /\ s.kernel.starting \in Int /\ s.kernel.total \in Int
    BY <2>3, <2>4 DEF Prod!KernelState
  <2>6. l \in Int /\ l <= k.current /\ l <= s.low /\ t \in Int
    BY <2>3, <2>5 DEF Smaller
  <2>7. l > 0 => k = w
    <3>1. l > 0 => s.kernel = s.twin /\ k.current > 0
      BY <2>3, <2>5, <2>6 DEF Kernels
    <3>. QED
      BY <3>1, <2>4
  <2>8. /\ k.current = k.starting + k.total
        /\ k.current = s.kernel.current + x
        /\ k.daily - t = s.kernel.daily - s.today
        /\ k.daily - k.total = s.kernel.daily - s.kernel.total
    BY <2>3, <2>4, <2>5 DEF Kernels
  <2>. HIDE DEF k, w, l, t, x
  <2>9. r \in Sims
    BY <2>4, <2>6, SetOutcome, Zenon
  <2>10. /\ r.equity = s.equity /\ r.positions = s.positions /\ r.trades = s.trades
         /\ r.cash = s.cash /\ r.fees = s.fees /\ r.day = s.day
         /\ r.kernel = k /\ r.twin = w /\ r.low = l /\ r.today = t /\ r.tier = 0
    BY DEF Sims
  <2>. HIDE DEF r
  <2>11. Kernels(r)
    BY <2>6, <2>7, <2>8, <2>10 DEF Kernels
  <2>12. Offsets(r) = Offsets(s)
    BY <2>8, <2>10 DEF Offsets
  <2>. QED
    BY <2>1, <2>4, <2>8, <2>9, <2>10, <2>11, <2>12 DEF x
<1>. QED
  BY <1>1, <1>2

\* The whole of a position costs what is left of its cost.
LEMMA WholeCost ==
  ASSUME NEW c \in Int, NEW n \in Nat \ {0}
  PROVE  (c * n) \div n = c
  OBVIOUS

\* Commissions are whole dollars, and add up.
LEMMA Commission ==
  ASSUME NEW a \in Int, NEW b \in Int
  PROVE  /\ Fee * a \in Int /\ Fee * b \in Int /\ a * Fee = Fee * a
         /\ Fee * (a + b) = Fee * a + Fee * b
  BY WalkAssumption

\* What a reduction makes of a position: what is left of its cost, and its profit.
LEMMA Reduced ==
  ASSUME NEW p \in PositionState, NEW qty \in Nat \ {0}, qty <= p.size, NEW price \in Int
  PROVE  LET q == ApplyReduction(p, qty, price)
             c == CostOf(p, qty)
             g == Profit(p, qty, price)
         IN  /\ c \in Int /\ g \in Int
             /\ qty = p.size => c = p.cost
             /\ p.side = "LONG" => g = qty * price - c - Fee * qty
             /\ p.side # "LONG" => g = c - qty * price - Fee * qty
             /\ q.id = p.id /\ q.side = p.side /\ q.entered = p.entered /\ q.fills = p.fills
             /\ q.stop = p.stop /\ q.targets = p.targets /\ q.done = p.done
             /\ q.size = p.size - qty /\ q.cost = p.cost - c /\ q.realized = p.realized + g
             /\ q.size # 0 => q \in PositionState
<1> DEFINE c == CostOf(p, qty)
           g == Profit(p, qty, price)
           q == ApplyReduction(p, qty, price)
<1>1. p.size \in Nat \ {0} /\ p.cost \in Int /\ p.realized \in Int
  BY DEF PositionState
<1>2. c \in Int /\ (qty = p.size => c = p.cost)
  BY <1>1, WholeCost DEF CostOf
<1>3. Fee * qty \in Int /\ qty * Fee = Fee * qty /\ qty * price \in Int
  BY Commission
<1>4. /\ p.side = "LONG" => g = qty * price - c - Fee * qty
      /\ p.side # "LONG" => g = c - qty * price - Fee * qty
      /\ g \in Int
  <2>. HIDE DEF c
  <2>1. g = (IF p.side = "LONG" THEN qty * price - c ELSE c - qty * price) - qty * Fee
    BY DEF Profit, c
  <2>. HIDE DEF g
  <2>. QED
    BY <1>2, <1>3, <2>1
<1>. HIDE DEF c, g
<1>5. q = [p EXCEPT !.size = p.size - qty, !.cost = p.cost - c, !.realized = p.realized + g]
  BY DEF ApplyReduction, c, g
<1>6. ASSUME NEW a \in Nat \ {0}, NEW x \in Int, NEW y \in Int
      PROVE  [p EXCEPT !.size = a, !.cost = x, !.realized = y] \in PositionState
  BY DEF PositionState
<1>7. q.size # 0 => q \in PositionState
  <2>1. q.size = p.size - qty
    BY <1>5 DEF PositionState
  <2>2. p.size - qty # 0 => p.size - qty \in Nat \ {0}
    BY <1>1
  <2>3. p.cost - c \in Int /\ p.realized + g \in Int
    BY <1>1, <1>2, <1>4
  <2>. QED
    BY <1>5, <1>6, <2>1, <2>2, <2>3
<1>8. /\ q.id = p.id /\ q.side = p.side /\ q.entered = p.entered /\ q.fills = p.fills
      /\ q.stop = p.stop /\ q.targets = p.targets /\ q.done = p.done
      /\ q.size = p.size - qty /\ q.cost = p.cost - c /\ q.realized = p.realized + g
  BY <1>5 DEF PositionState
<1>. QED
  BY <1>2, <1>4, <1>7, <1>8 DEF c, g

\* The commissions charged for closed trades are integers.
LEMMA ChargesTyped ==
  ASSUME NEW t \in Seq(TradeState)
  PROVE  Charged(t) \in Seq(Int) /\ Len(Charged(t)) = Len(t) /\ Sum(Charged(t)) \in Int
<1>1. \A i \in 1..Len(t) : t[i] \in TradeState
  OBVIOUS
<1>2. \A i \in 1..Len(t) : Fee * t[i].qty \in Int
  BY <1>1, WalkAssumption DEF TradeState
<1>3. Charged(t) \in Seq(Int) /\ Len(Charged(t)) = Len(t)
  BY <1>2 DEF Charged
<1>. QED
  BY <1>3, SumsTyped

\* What positions cost and have earned are integers.
LEMMA AccountsTyped ==
  ASSUME NEW list \in Seq(PositionState)
  PROVE  /\ AtCosts(list) \in Seq(Int) /\ Len(AtCosts(list)) = Len(list)
         /\ Earned(list) \in Seq(Int) /\ Len(Earned(list)) = Len(list)
         /\ \A i \in 1..Len(list) :
              AtCosts(list)[i] = AtCost(list[i])
                /\ Earned(list)[i] = list[i].realized - EntryFee(list[i])
         /\ Sum(AtCosts(list)) \in Int /\ Sum(Earned(list)) \in Int
<1>1. \A p \in PositionState : AtCost(p) \in Int /\ p.realized - EntryFee(p) \in Int
  <2>. SUFFICES ASSUME NEW p \in PositionState
                PROVE  AtCost(p) \in Int /\ p.realized - EntryFee(p) \in Int
    OBVIOUS
  <2>1. p.cost \in Int /\ p.realized \in Int /\ p.entered \in Int
    BY DEF PositionState
  <2>. QED
    BY <2>1, WalkAssumption DEF AtCost, EntryFee
<1>2. \A i \in 1..Len(list) : list[i] \in PositionState
  OBVIOUS
<1>3. AtCosts(list) \in Seq(Int) /\ Len(AtCosts(list)) = Len(list)
  BY <1>1, <1>2 DEF AtCosts
<1>4. Earned(list) \in Seq(Int) /\ Len(Earned(list)) = Len(list)
  BY <1>1, <1>2 DEF Earned
<1>. QED
  BY <1>3, <1>4, SumsTyped DEF AtCosts, Earned

\* Changing one position changes both sums by its share.
LEMMA AccountsChanged ==
  ASSUME NEW list \in Seq(PositionState), NEW k \in 1..Len(list), NEW p \in PositionState
  PROVE  LET new == [list EXCEPT ![k] = p]
         IN  /\ Sum(AtCosts(new)) = (Sum(AtCosts(list)) - AtCost(list[k])) + AtCost(p)
             /\ Sum(Earned(new)) = (Sum(Earned(list)) - (list[k].realized - EntryFee(list[k])))
                                     + (p.realized - EntryFee(p))
<1> DEFINE new == [list EXCEPT ![k] = p]
<1>1. /\ new \in Seq(PositionState) /\ Len(new) = Len(list) /\ new[k] = p
      /\ \A i \in 1..Len(list) : i # k => new[i] = list[i]
  OBVIOUS
<1>. HIDE DEF new
<1> DEFINE a == AtCosts(list)
           b == AtCosts(new)
           c == Earned(list)
           e == Earned(new)
<1>2. /\ a \in Seq(Int) /\ b \in Seq(Int) /\ k \in 1..Len(a) /\ Len(b) = Len(a)
      /\ \A i \in 1..Len(a) : i # k => b[i] = a[i]
      /\ a[k] = AtCost(list[k]) /\ b[k] = AtCost(p)
  BY <1>1, AccountsTyped
<1>3. /\ c \in Seq(Int) /\ e \in Seq(Int) /\ k \in 1..Len(c) /\ Len(e) = Len(c)
      /\ \A i \in 1..Len(c) : i # k => e[i] = c[i]
      /\ c[k] = list[k].realized - EntryFee(list[k]) /\ e[k] = p.realized - EntryFee(p)
  BY <1>1, AccountsTyped
<1>. HIDE DEF a, b, c, e
<1>4. Sum(b) = (Sum(a) - a[k]) + b[k] /\ Sum(e) = (Sum(c) - c[k]) + e[k]
  BY <1>2, <1>3, SumReplaced
<1>. QED
  BY <1>2, <1>3, <1>4 DEF new, a, b, c, e

\* Removing one position takes its share off both sums.
LEMMA AccountsRemoved ==
  ASSUME NEW list \in Seq(PositionState), NEW k \in 1..Len(list)
  PROVE  /\ Sum(AtCosts(RemoveAt(list, k))) = Sum(AtCosts(list)) - AtCost(list[k])
         /\ Sum(Earned(RemoveAt(list, k)))
              = Sum(Earned(list)) - (list[k].realized - EntryFee(list[k]))
<1> DEFINE new == RemoveAt(list, k)
<1>1. /\ new \in Seq(PositionState) /\ Len(new) = Len(list) - 1
      /\ \A i \in 1..Len(new) : new[i] = IF i < k THEN list[i] ELSE list[i + 1]
  BY RemovedAt
<1>. HIDE DEF new
<1>3. \A i \in 1..Len(new) : i \in 1..Len(list) /\ i + 1 \in 1..Len(list)
  BY <1>1
<1>4. /\ \A i \in 1..Len(new) :
           AtCosts(new)[i] = IF i < k THEN AtCosts(list)[i] ELSE AtCosts(list)[i + 1]
      /\ \A i \in 1..Len(new) :
           Earned(new)[i] = IF i < k THEN Earned(list)[i] ELSE Earned(list)[i + 1]
  BY <1>1, <1>3, AccountsTyped
<1> DEFINE a == AtCosts(list)
           b == AtCosts(new)
           c == Earned(list)
           e == Earned(new)
<1>5. /\ a \in Seq(Int) /\ b \in Seq(Int) /\ k \in 1..Len(a) /\ Len(b) = Len(a) - 1
      /\ \A i \in 1..Len(b) : b[i] = IF i < k THEN a[i] ELSE a[i + 1]
      /\ a[k] = AtCost(list[k])
  BY <1>1, <1>4, AccountsTyped
<1>6. /\ c \in Seq(Int) /\ e \in Seq(Int) /\ k \in 1..Len(c) /\ Len(e) = Len(c) - 1
      /\ \A i \in 1..Len(e) : e[i] = IF i < k THEN c[i] ELSE c[i + 1]
      /\ c[k] = list[k].realized - EntryFee(list[k])
  BY <1>1, <1>4, AccountsTyped
<1>. HIDE DEF a, b, c, e
<1>7. Sum(b) = Sum(a) - a[k]
  BY <1>5, SumRemoved
<1>8. Sum(e) = Sum(c) - c[k]
  BY <1>6, SumRemoved
<1>. QED
  BY <1>5, <1>6, <1>7, <1>8 DEF new, a, b, c, e

\* Adding a position adds its share to both sums.
LEMMA AccountsAdded ==
  ASSUME NEW list \in Seq(PositionState), NEW p \in PositionState
  PROVE  /\ Sum(AtCosts(Append(list, p))) = Sum(AtCosts(list)) + AtCost(p)
         /\ Sum(Earned(Append(list, p))) = Sum(Earned(list)) + (p.realized - EntryFee(p))
<1> DEFINE new == Append(list, p)
           n == Len(list)
<1>1. /\ new \in Seq(PositionState) /\ n \in Nat /\ Len(new) = n + 1 /\ new[n + 1] = p
      /\ \A i \in 1..n : new[i] = list[i]
  OBVIOUS
<1>. HIDE DEF new
<1>3. AtCost(p) \in Int /\ p.realized - EntryFee(p) \in Int
  <2>1. n + 1 \in 1..Len(new)
    BY <1>1
  <2>2. /\ AtCosts(new) \in Seq(Int) /\ Len(AtCosts(new)) = Len(new)
        /\ Earned(new) \in Seq(Int) /\ Len(Earned(new)) = Len(new)
        /\ AtCosts(new)[n + 1] = AtCost(p)
        /\ Earned(new)[n + 1] = p.realized - EntryFee(p)
    BY <1>1, <2>1, AccountsTyped
  <2>. QED
    BY <2>1, <2>2
<1>4. AtCosts(new) = Append(AtCosts(list), AtCost(p))
  BY <1>1 DEF AtCosts
<1>5. Earned(new) = Append(Earned(list), p.realized - EntryFee(p))
  BY <1>1 DEF Earned
<1>6. AtCosts(list) \in Seq(Int) /\ Earned(list) \in Seq(Int)
  BY AccountsTyped
<1>. QED
  BY <1>3, <1>4, <1>5, <1>6, SumAppended DEF new

\* A closed trade adds its entry commission to what was charged.
LEMMA TradeAdded ==
  ASSUME NEW t \in Seq(TradeState), NEW x \in TradeState
  PROVE  Sum(Charged(Append(t, x))) = Sum(Charged(t)) + Fee * x.qty
<1> DEFINE n == Len(t)
           new == Append(t, x)
<1>1. /\ n \in Nat /\ Len(new) = n + 1 /\ new[n + 1] = x /\ DOMAIN new = 1..(n + 1)
      /\ \A i \in 1..n : new[i] = t[i]
  OBVIOUS
<1>. HIDE DEF new
<1>2. Charged(new) = Append(Charged(t), Fee * x.qty)
  BY <1>1 DEF Charged
<1>3. Charged(t) \in Seq(Int) /\ Fee * x.qty \in Int
  <2>1. x.qty \in Int
    BY DEF TradeState
  <2>. QED
    BY <2>1, ChargesTyped, WalkAssumption
<1>. QED
  BY <1>2, <1>3, SumAppended DEF new

-----------------------------------------------------------------------------
(* A sale.                                                                 *)

\* What a position was replaced by does not matter once it is removed.
LEMMA RemoveReplaced ==
  ASSUME NEW S, NEW list \in Seq(S), NEW k \in 1..Len(list), NEW x
  PROVE  RemoveAt([list EXCEPT ![k] = x], k) = RemoveAt(list, k)
<1> DEFINE new == [list EXCEPT ![k] = x]
           a == RemoveAt(new, k)
           b == RemoveAt(list, k)
           n == Len(list) - 1
<1>1. new \in Seq(S \cup {x}) /\ Len(new) = Len(list) /\ list \in Seq(S \cup {x})
  OBVIOUS
<1>2. \A i \in 1..Len(list) : i # k => new[i] = list[i]
  OBVIOUS
<1>. HIDE DEF new
<1>3. /\ a \in Seq(S \cup {x}) /\ Len(a) = n
      /\ \A i \in 1..n : a[i] = IF i < k THEN new[i] ELSE new[i + 1]
  BY <1>1, RemovedAt
<1>4. /\ b \in Seq(S \cup {x}) /\ Len(b) = n
      /\ \A i \in 1..n : b[i] = IF i < k THEN list[i] ELSE list[i + 1]
  BY <1>1, RemovedAt
<1>5. \A i \in 1..n : a[i] = b[i]
  BY <1>1, <1>2, <1>3, <1>4
<1>. HIDE DEF a, b
<1>6. a = b
  BY <1>3, <1>4, <1>5
<1>. QED
  BY <1>6 DEF a, b, new

\* A part of a position is sold.
LEMMA SoldPart ==
  ASSUME NEW s, NEW o, NEW m, NEW d, Sound(s, o, m, d), NEW id, Has(s, id),
         NEW qty \in Nat \ {0}, qty < Find(s, id).size, NEW price \in Int, NEW why \in Whys,
         NEW r, r = Sell(s, id, qty, price, why)
  PROVE  /\ Sound(r, o, m, d)
         /\ Single(s) => Single(r)
         /\ \A j : Has(r, j) <=> Has(s, j)
         /\ OthersKept(s, r, id)
         /\ Find(r, id) = ApplyReduction(Find(s, id), qty, price)
<1>1. PICK p, k, q, c, g :
        /\ p = Find(s, id) /\ k = Place(s, id) /\ q = ApplyReduction(p, qty, price)
        /\ c = CostOf(p, qty) /\ g = Profit(p, qty, price)
  OBVIOUS
<1>2. /\ s \in Sims /\ s.positions \in Seq(PositionState) /\ Distinct(s.positions)
      /\ s.trades \in Seq(TradeState)
      /\ s.equity \in Int /\ s.cash \in Int /\ s.fees \in Int /\ s.kernel.current \in Int
  BY DEF Sound, Listed, Sims, Prod!KernelState
<1>3. /\ k \in DOMAIN s.positions /\ k \in 1..Len(s.positions)
      /\ s.positions[k] = p /\ p.id = id /\ p \in PositionState
  BY <1>1, <1>2, FoundById
<1>4. /\ c \in Int /\ g \in Int
      /\ p.side = "LONG" => g = qty * price - c - Fee * qty
      /\ p.side # "LONG" => g = c - qty * price - Fee * qty
      /\ q.id = id /\ q.side = p.side /\ q.entered = p.entered /\ q.fills = p.fills
      /\ q.size = p.size - qty /\ q.cost = p.cost - c /\ q.realized = p.realized + g
      /\ q.size # 0 /\ q \in PositionState
  <2>1. qty <= p.size /\ p.size - qty # 0
    BY <1>1, <1>3 DEF PositionState
  <2>. QED
    BY <1>1, <1>3, <2>1, Reduced
<1>5. PICK x, y : x = qty * price /\ y = Fee * qty /\ x \in Int /\ y \in Int
  BY Commission
<1> DEFINE list == [s.positions EXCEPT ![k] = q]
           e == s.equity + g
           f == s.fees + y
           h == s.cash + (IF p.side = "LONG" THEN x ELSE 0 - x)
           u == [s EXCEPT !.equity = e, !.positions = list, !.fees = f, !.cash = h]
<1>6. Replaced(s, q) = list
  <2>1. Has(s, q.id) /\ Place(s, q.id) = k
    BY <1>1, <1>4
  <2>2. Replaced(s, q) = [s.positions EXCEPT ![Place(s, q.id)] = q]
    BY <1>2, <2>1, OneReplaced
  <2>. QED
    BY <2>1, <2>2
<1>7. r = u
  BY <1>1, <1>4, <1>5, <1>6 DEF Sell
<1>8. list \in Seq(PositionState) /\ Len(list) = Len(s.positions) /\ list[k] = q
  BY <1>2, <1>3, <1>4
<1>9. /\ x \in Int /\ y \in Int /\ c \in Int /\ g \in Int
      /\ p.side = "LONG" => g = x - c - y
      /\ p.side # "LONG" => g = c - x - y
  BY <1>4, <1>5
<1>24. e \in Int /\ f \in Int /\ h \in Int
  <2>1. e \in Int /\ f \in Int
    BY <1>2, <1>9
  <2>2. h \in Int
    BY <1>2, <1>9
  <2>. QED
    BY <2>1, <2>2
<1>. HIDE DEF list, e, f, h
<1>10. u \in Sims
  BY <1>2, <1>8, <1>24, SetFill, Zenon
<1>11. /\ r \in Sims /\ r.equity = e /\ r.positions = list /\ r.fees = f /\ r.cash = h
       /\ r.trades = s.trades /\ r.tier = s.tier /\ r.kernel = s.kernel /\ r.twin = s.twin
       /\ r.low = s.low /\ r.today = s.today /\ r.day = s.day
  BY <1>2, <1>7, <1>10 DEF Sims
<1>. HIDE DEF u
<1>12. Changed(s, r, k, q)
  BY <1>3, <1>4, <1>11 DEF list, Changed
<1>13. /\ Distinct(r.positions) /\ Len(r.positions) = Len(s.positions)
       /\ \A j : Has(r, j) <=> Has(s, j)
       /\ Find(r, id) = q
       /\ OthersKept(s, r, id)
  <2>1. s.positions \in Seq(PositionState) /\ Distinct(s.positions) /\ Changed(s, r, k, q)
    BY <1>2, <1>12
  <2>2. AfterChange(s, r, q)
    BY <2>1, ViewChanged
  <2>. QED
    BY <2>2, <1>4 DEF AfterChange
<1>14. Listed(r)
  <2>1. \A i \in DOMAIN s.positions : r.positions[i].id = s.positions[i].id
    BY <1>3, <1>4, <1>12 DEF Changed
  <2>2. DOMAIN r.positions = DOMAIN s.positions
    BY <1>12 DEF Changed
  <2>. QED
    BY <1>11, <1>13, <2>1, <2>2 DEF Listed, Sound
<1>15. Kernels(r) /\ Kept(r, o, m, d)
  BY <1>11 DEF Sound, Kernels, Kept, Offsets
<1>16. /\ Sum(AtCosts(list)) = (Sum(AtCosts(s.positions)) - AtCost(p)) + AtCost(q)
       /\ Sum(Earned(list)) = (Sum(Earned(s.positions)) - (p.realized - EntryFee(p)))
                                 + (q.realized - EntryFee(q))
  BY <1>2, <1>3, <1>4, AccountsChanged DEF list
<1>17. /\ Sum(AtCosts(s.positions)) \in Int /\ Sum(Earned(s.positions)) \in Int
       /\ Sum(Charged(s.trades)) \in Int
  BY <1>2, AccountsTyped, ChargesTyped
<1>18. /\ p.cost \in Int /\ p.realized \in Int /\ EntryFee(p) = EntryFee(q) /\ EntryFee(p) \in Int
  <2>1. p.cost \in Int /\ p.realized \in Int /\ p.entered \in Nat
    BY <1>3 DEF PositionState
  <2>. QED
    BY <1>4, <2>1, WalkAssumption DEF EntryFee
<1>19. /\ p.side = "LONG" => AtCost(p) = p.cost /\ AtCost(q) = p.cost - c
       /\ p.side # "LONG" => AtCost(p) = 0 - p.cost /\ AtCost(q) = 0 - (p.cost - c)
  BY <1>4 DEF AtCost
<1>20. PICK v, w, z :
         /\ v = Sum(AtCosts(s.positions)) /\ w = Sum(Earned(s.positions))
         /\ z = Sum(Charged(s.trades))
  OBVIOUS
<1>21. v \in Int /\ w \in Int /\ z \in Int
  BY <1>17, <1>20
<1>25. /\ Sum(AtCosts(list)) = v + (IF p.side = "LONG" THEN 0 - c ELSE c)
       /\ Sum(Earned(list)) = w + g
  <2>1. p.side = "LONG" => Sum(AtCosts(list)) = v + (0 - c)
    BY <1>9, <1>16, <1>18, <1>19, <1>20, <1>21
  <2>2. p.side # "LONG" => Sum(AtCosts(list)) = v + c
    BY <1>9, <1>16, <1>18, <1>19, <1>20, <1>21
  <2>3. Sum(Earned(list)) = w + g
    BY <1>4, <1>9, <1>16, <1>18, <1>20, <1>21
  <2>. QED
    BY <2>1, <2>2, <2>3, <1>20
<1>26. Ledger(r)
  <2>1. s.equity = Capital + s.cash - s.fees + v
    BY <1>20 DEF Sound, Ledger
  <2>2. Capital \in Int /\ (p.side = "LONG" => g = x - c - y) /\ (p.side # "LONG" => g = c - x - y)
    BY <1>9, <1>20, KernelAssumption
  <2>3. s.equity + g = Capital + (s.cash + (IF p.side = "LONG" THEN x ELSE 0 - x)) - (s.fees + y)
                         + (v + (IF p.side = "LONG" THEN 0 - c ELSE c))
    <3>1. PICK i, n, t, way : i = s.equity /\ n = s.cash /\ t = s.fees /\ way = p.side
      OBVIOUS
    <3>2. i \in Int /\ n \in Int /\ t \in Int
      BY <1>2, <3>1
    <3>3. i = Capital + n - t + v
      BY <2>1, <3>1
    <3>4. i + g = Capital + (n + (IF way = "LONG" THEN x ELSE 0 - x)) - (t + y)
                    + (v + (IF way = "LONG" THEN 0 - c ELSE c))
      <4>1. CASE way = "LONG"
        BY <2>2, <1>9, <1>21, <3>1, <3>2, <3>3, <4>1
      <4>2. CASE way # "LONG"
        BY <2>2, <1>9, <1>21, <3>1, <3>2, <3>3, <4>2
      <4>. QED
        BY <4>1, <4>2
    <3>. QED
      BY <3>1, <3>4
  <2>4. Production => s.equity = s.kernel.current + w - z
    BY <1>20 DEF Sound, Ledger
  <2>5. \A i, n \in Int : i = n + w - z => i + g = n + (w + g) - z
    BY <1>9, <1>21
  <2>6. Production => s.equity + g = s.kernel.current + (w + g) - z
    BY <2>4, <2>5, <1>2
  <2>7. /\ r.equity = s.equity + g /\ r.fees = s.fees + y
        /\ r.cash = s.cash + (IF p.side = "LONG" THEN x ELSE 0 - x)
        /\ Sum(AtCosts(r.positions)) = v + (IF p.side = "LONG" THEN 0 - c ELSE c)
        /\ Sum(Earned(r.positions)) = w + g
        /\ Sum(Charged(r.trades)) = z /\ r.kernel = s.kernel
    BY <1>11, <1>20, <1>25 DEF e, f, h
  <2>. QED
    BY <2>3, <2>6, <2>7, Zenon DEF Ledger
<1>22. Sound(r, o, m, d)
  BY <1>11, <1>14, <1>15, <1>26 DEF Sound
<1>23. Single(s) => Single(r)
  <2>. SUFFICES ASSUME Single(s) PROVE Single(r)
    OBVIOUS
  <2>1. Len(s.positions) = 1 /\ k = 1 /\ s.tier = s.positions[1].fills
    BY <1>2, <1>3 DEF Single
  <2>. QED
    BY <1>3, <1>4, <1>8, <1>11, <2>1 DEF Single
<1>. QED
  BY <1>1, <1>13, <1>22, <1>23

\* All of a position is sold, and its trade is booked.
LEMMA SoldWhole ==
  ASSUME NEW s, NEW o, NEW m, NEW d, Sound(s, o, m, d), NEW id, Has(s, id),
         NEW qty, qty = Find(s, id).size, NEW price \in Int, NEW why \in Whys,
         clock \in Nat, NEW r, r = Sell(s, id, qty, price, why)
  PROVE  /\ Sound(r, o, m, d)
         /\ Production /\ Single(s) => Single(r)
         /\ AfterRemoval(s, r, id)
<1>1. PICK p, k, q, c, g :
        /\ p = Find(s, id) /\ k = Place(s, id) /\ q = ApplyReduction(p, qty, price)
        /\ c = CostOf(p, qty) /\ g = Profit(p, qty, price)
  OBVIOUS
<1>2. /\ s \in Sims /\ s.positions \in Seq(PositionState) /\ Distinct(s.positions)
      /\ s.trades \in Seq(TradeState) /\ s.kernel \in Prod!KernelState
      /\ s.equity \in Int /\ s.cash \in Int /\ s.fees \in Int /\ s.kernel.current \in Int
  BY DEF Sound, Listed, Sims, Prod!KernelState
<1>3. /\ k \in DOMAIN s.positions /\ k \in 1..Len(s.positions)
      /\ s.positions[k] = p /\ p.id = id /\ p \in PositionState
  BY <1>1, <1>2, FoundById
<1>4. /\ p.size \in Nat \ {0} /\ qty = p.size
      /\ p.cost \in Int /\ p.realized \in Int /\ p.entered \in Nat
  BY <1>1, <1>3 DEF PositionState
<1>5. /\ c = p.cost /\ c \in Int /\ g \in Int
      /\ p.side = "LONG" => g = qty * price - c - Fee * qty
      /\ p.side # "LONG" => g = c - qty * price - Fee * qty
      /\ q.id = id /\ q.side = p.side /\ q.entered = p.entered
      /\ q.size = 0 /\ q.realized = p.realized + g
  <2>1. qty \in Nat \ {0} /\ qty <= p.size /\ p.size - qty = 0
    BY <1>4
  <2>. QED
    BY <1>1, <1>3, <1>4, <2>1, Reduced
<1>6. PICK x, y : x = qty * price /\ y = Fee * qty /\ x \in Int /\ y \in Int
  <2>1. qty \in Int
    BY <1>4
  <2>2. \A a, b \in Int : a * b \in Int
    OBVIOUS
  <2>3. Fee * qty \in Int
    BY <2>1, Commission
  <2>. QED
    BY <2>1, <2>2, <2>3
<1>7. /\ x \in Int /\ y \in Int /\ c \in Int /\ g \in Int
      /\ p.side = "LONG" => g = x - c - y
      /\ p.side # "LONG" => g = c - x - y
  BY <1>5, <1>6
<1> DEFINE new == [s.positions EXCEPT ![k] = q]
           list == RemoveAt(s.positions, k)
           t == [realized |-> q.realized, qty |-> q.entered, why |-> why]
           trades == Append(s.trades, t)
           e == s.equity + g
           f == s.fees + y
           h == s.cash + (IF p.side = "LONG" THEN x ELSE 0 - x)
           reduced == [s EXCEPT !.equity = e, !.positions = new, !.fees = f, !.cash = h]
           u == [s EXCEPT !.equity = e, !.positions = list, !.fees = f, !.cash = h]
           w == [u EXCEPT !.positions = list, !.trades = trades]
<1>8. Replaced(s, q) = new
  <2>1. Has(s, q.id) /\ Place(s, q.id) = k
    BY <1>1, <1>5
  <2>2. Replaced(s, q) = [s.positions EXCEPT ![Place(s, q.id)] = q]
    BY <1>2, <2>1, OneReplaced
  <2>. QED
    BY <2>1, <2>2
<1>9. list \in Seq(PositionState) /\ Len(list) = Len(s.positions) - 1
  BY <1>2, <1>3, RemovedAt
<1>10. t \in TradeState /\ trades \in Seq(TradeState)
  <2>1. t \in TradeState
    BY <1>4, <1>5 DEF TradeState
  <2>. HIDE DEF t
  <2>. QED
    BY <2>1, <1>2
<1>11. r = FinalizeClose(reduced, q, why)
  BY <1>1, <1>5, <1>6, <1>8 DEF Sell
<1>12. e \in Int /\ f \in Int /\ h \in Int
  BY <1>2, <1>7
<1>13. reduced.positions = new /\ reduced.trades = s.trades
  BY <1>2 DEF Sims
<1>14. Place(reduced, q.id) = k
  <2>. HIDE DEF reduced
  <2>1. Changed(s, reduced, k, q)
    BY <1>3, <1>5, <1>13 DEF Changed
  <2>2. AfterChange(s, reduced, q)
    BY <1>2, <2>1, ViewChanged
  <2>3. k \in DOMAIN reduced.positions /\ reduced.positions[k].id = q.id
    BY <1>3, <1>13
  <2>. QED
    BY <2>2, <2>3, FoundAt DEF AfterChange
<1>15. RemoveAt(new, k) = list
  BY <1>2, <1>3, RemoveReplaced
<1>16. r = OnPositionClosed(w, q)
  <2>1. r = OnPositionClosed([reduced EXCEPT !.positions = list, !.trades = trades], q)
    <3>. HIDE DEF new, list, reduced
    <3>1. [reduced EXCEPT !.positions = RemoveAt(@, Place(reduced, q.id)), !.trades = Append(@, t)]
            = [reduced EXCEPT !.positions = list, !.trades = trades]
      BY <1>13, <1>14, <1>15
    <3>. QED
      BY <1>11, <3>1 DEF FinalizeClose
  <2>. HIDE DEF new, list, trades, e, f, h
  <2>2. [reduced EXCEPT !.positions = list, !.trades = trades] = w
    BY <1>2 DEF Sims
  <2>. QED
    BY <2>1, <2>2
<1>. HIDE DEF new, list, trades, e, f, h, reduced
<1>17. u \in Sims
  BY <1>2, <1>9, <1>12, SetFill, Zenon
<1>18. /\ u.equity = e /\ u.fees = f /\ u.cash = h
       /\ u.kernel = s.kernel /\ u.twin = s.twin /\ u.low = s.low /\ u.today = s.today
       /\ u.day = s.day /\ u.tier = s.tier
  BY <1>2 DEF Sims
<1>. HIDE DEF u
<1>19. w \in Sims
  BY <1>9, <1>10, <1>17, SetTrade, Zenon
<1>20. /\ w.equity = e /\ w.positions = list /\ w.fees = f /\ w.cash = h /\ w.trades = trades
       /\ w.kernel = s.kernel /\ w.twin = s.twin /\ w.low = s.low /\ w.today = s.today
       /\ w.day = s.day /\ w.tier = s.tier
  BY <1>17, <1>18 DEF Sims
<1>. HIDE DEF w
<1>21. Kernels(w) /\ q.realized \in Int /\ Offsets(w) = Offsets(s)
  BY <1>4, <1>5, <1>20 DEF Sound, Kernels, Offsets
<1>22. /\ r \in Sims
       /\ r.equity = e /\ r.positions = list /\ r.trades = trades
       /\ r.cash = h /\ r.fees = f /\ r.day = s.day
       /\ Kernels(r)
       /\ Offsets(r) = Offsets(s)
       /\ r.kernel.dailyReset = s.kernel.dailyReset
       /\ Production => r.kernel.current = s.kernel.current + q.realized /\ r.tier = 0
  BY <1>16, <1>19, <1>20, <1>21, Closed
<1>23. AfterRemoval(s, r, id)
  <2>1. Removed(s, r, k)
    BY <1>3, <1>22 DEF Removed, list
  <2>. QED
    BY <1>2, <1>3, <2>1, ViewRemoved
<1>24. Kept(r, o, m, d)
  BY <1>22 DEF Sound, Kept
<1>25. Listed(r)
  <2>1. Len(r.positions) + Len(r.trades) = Len(s.positions) + Len(s.trades)
    <3>1. Len(trades) = Len(s.trades) + 1
      BY <1>2 DEF trades
    <3>2. Len(list) = Len(s.positions) - 1 /\ Len(s.positions) \in Nat /\ Len(s.trades) \in Nat
      BY <1>2, <1>9
    <3>3. PICK i, j : i = Len(s.positions) /\ j = Len(s.trades) /\ i \in Nat /\ j \in Nat
      BY <3>2
    <3>4. Len(r.positions) = i - 1 /\ Len(r.trades) = j + 1
      BY <1>22, <3>1, <3>2, <3>3
    <3>5. \A a, b \in Nat : (a - 1) + (b + 1) = a + b
      OBVIOUS
    <3>. QED
      BY <3>3, <3>4, <3>5
  <2>2. ASSUME NEW i \in DOMAIN r.positions
        PROVE  r.positions[i].id <= Len(s.positions) + Len(s.trades)
    <3>1. Has(s, r.positions[i].id)
      BY <1>23 DEF AfterRemoval, Has
    <3>. QED
      BY <3>1 DEF Has, Sound, Listed
  <2>. QED
    BY <1>23, <2>1, <2>2 DEF Listed, AfterRemoval
<1>26. PICK v, n, z :
         /\ v = Sum(AtCosts(s.positions)) /\ n = Sum(Earned(s.positions))
         /\ z = Sum(Charged(s.trades))
  OBVIOUS
<1>27. /\ v \in Int /\ n \in Int /\ z \in Int
       /\ p.cost \in Int /\ p.realized \in Int
       /\ EntryFee(p) \in Int /\ Fee * t.qty = EntryFee(p)
  <2>1. EntryFee(p) \in Int
    BY <1>4, WalkAssumption DEF EntryFee
  <2>2. Fee * t.qty = EntryFee(p)
    BY <1>5 DEF EntryFee
  <2>. QED
    BY <1>2, <1>4, <1>26, <2>1, <2>2, AccountsTyped, ChargesTyped
<1>28. /\ Sum(AtCosts(list)) = v + (IF p.side = "LONG" THEN 0 - c ELSE c)
       /\ Sum(Earned(list)) = n - (p.realized - EntryFee(p))
       /\ Sum(Charged(trades)) = z + EntryFee(p)
  <2>1. /\ Sum(AtCosts(list)) = v - AtCost(p)
        /\ Sum(Earned(list)) = n - (p.realized - EntryFee(p))
    BY <1>2, <1>3, <1>26, AccountsRemoved DEF list
  <2>2. Sum(Charged(trades)) = z + EntryFee(p)
    BY <1>2, <1>10, <1>26, <1>27, TradeAdded DEF trades
  <2>3. AtCost(p) = IF p.side = "LONG" THEN c ELSE 0 - c
    BY <1>5 DEF AtCost
  <2>4. v - AtCost(p) = v + (IF p.side = "LONG" THEN 0 - c ELSE c)
    BY <2>3, <1>7, <1>27
  <2>. QED
    BY <2>1, <2>2, <2>4
<1>29. Ledger(r)
  <2>1. s.equity = Capital + s.cash - s.fees + v
    BY <1>26 DEF Sound, Ledger
  <2>2. Capital \in Int /\ (p.side = "LONG" => g = x - c - y) /\ (p.side # "LONG" => g = c - x - y)
    BY <1>7, KernelAssumption
  <2>3. e = Capital + h - f + (v + (IF p.side = "LONG" THEN 0 - c ELSE c))
    <3>1. PICK i, j, a, b : i = s.equity /\ j = s.cash /\ a = s.fees /\ b = p.side
      OBVIOUS
    <3>2. i \in Int /\ j \in Int /\ a \in Int
      BY <1>2, <3>1
    <3>3. i = Capital + j - a + v
      BY <2>1, <3>1
    <3>4. i + g = Capital + (j + (IF b = "LONG" THEN x ELSE 0 - x)) - (a + y)
                    + (v + (IF b = "LONG" THEN 0 - c ELSE c))
      <4>1. CASE b = "LONG"
        BY <2>2, <1>7, <1>27, <3>1, <3>2, <3>3, <4>1
      <4>2. CASE b # "LONG"
        <5>1. (IF b = "LONG" THEN x ELSE 0 - x) = 0 - x /\ (IF b = "LONG" THEN 0 - c ELSE c) = c
          BY <4>2
        <5>2. g = c - x - y
          BY <2>2, <3>1, <4>2
        <5>3. i + g = Capital + (j + (0 - x)) - (a + y) + (v + c)
          BY <2>2, <1>7, <1>27, <3>2, <3>3, <5>2
        <5>. QED
          BY <5>1, <5>3
      <4>. QED
        BY <4>1, <4>2, Zenon
    <3>. QED
      BY <3>1, <3>4 DEF e, f, h
  <2>4. ASSUME Production
        PROVE  e = r.kernel.current + (n - (p.realized - EntryFee(p))) - (z + EntryFee(p))
    <3>1. s.equity = s.kernel.current + n - z
      BY <2>4, <1>26 DEF Sound, Ledger
    <3>2. r.kernel.current = s.kernel.current + (p.realized + g)
      BY <2>4, <1>5, <1>22
    <3>3. \A i, j, a, b \in Int :
            i = j + n - z => i + g = (j + (a + g)) + (n - (a - b)) - (z + b)
      BY <1>7, <1>27
    <3>4. s.equity + g = (s.kernel.current + (p.realized + g))
                           + (n - (p.realized - EntryFee(p))) - (z + EntryFee(p))
      <4>1. PICK i, j, a, b :
                i = s.equity /\ j = s.kernel.current /\ a = p.realized /\ b = EntryFee(p)
        OBVIOUS
      <4>2. i \in Int /\ j \in Int /\ a \in Int /\ b \in Int /\ i = j + n - z
        BY <3>1, <4>1, <1>2, <1>27
      <4>. QED
        BY <3>3, <4>1, <4>2
    <3>. QED
      BY <3>2, <3>4 DEF e
  <2>5. /\ r.equity = e /\ r.fees = f /\ r.cash = h
        /\ Sum(AtCosts(r.positions)) = v + (IF p.side = "LONG" THEN 0 - c ELSE c)
        /\ Sum(Earned(r.positions)) = n - (p.realized - EntryFee(p))
        /\ Sum(Charged(r.trades)) = z + EntryFee(p)
    BY <1>22, <1>28
  <2>. QED
    BY <2>3, <2>4, <2>5, Zenon DEF Ledger
<1>30. Sound(r, o, m, d)
  BY <1>22, <1>24, <1>25, <1>29 DEF Sound
<1>31. ASSUME Production, Single(s)
       PROVE  Single(r)
  <2>1. Len(s.positions) = 1 /\ r.tier = 0
    BY <1>2, <1>3, <1>22, <1>31 DEF Single
  <2>2. r.positions \in Seq(PositionState) /\ Len(r.positions) = 0
    BY <1>9, <1>22, <2>1
  <2>3. r.positions = <<>>
    BY <2>2
  <2>. QED
    BY <2>1, <2>3 DEF Single
<1>. QED
  BY <1>23, <1>30, <1>31

-----------------------------------------------------------------------------
(* Fills that open a position or add to one.                               *)

\* Prices after slippage are integers (_apply_slippage).
LEMMA FillPrice ==
  ASSUME NEW price \in Int, NEW side
  PROVE  EntryPrice(price, side) \in Int /\ ExitPrice(price, side) \in Int
  BY WalkAssumption DEF EntryPrice, ExitPrice

\* Opening a position keeps the books (_open_position).
LEMMA Opened ==
  ASSUME NEW s, NEW o, NEW m, NEW d, Sound(s, o, m, d), NEW a \in Actions, NEW b \in Bars,
         NEW r, r = Open(s, a, b)
  PROVE  /\ Sound(r, o, m, d)
         /\ Production /\ Single(s) /\ s.positions = <<>> => Single(r)
<1>1. CASE a.qty <= 0
  BY <1>1 DEF Open
<1>2. CASE ~(a.qty <= 0)
  <2>1. PICK price, qty, side, id :
          price = EntryPrice(b.open, a.side) /\ qty = a.qty /\ side = a.side /\ id = NextId(s)
    OBVIOUS
  <2>2. /\ s \in Sims /\ s.positions \in Seq(PositionState) /\ Distinct(s.positions)
        /\ s.trades \in Seq(TradeState)
        /\ s.equity \in Int /\ s.cash \in Int /\ s.fees \in Int /\ s.kernel.current \in Int
    BY DEF Sound, Listed, Sims, Prod!KernelState
  <2>3. /\ qty \in Nat \ {0} /\ side \in Sides /\ price \in Int /\ a.stop \in Nat
        /\ a.targets \in Seq(Levels)
    BY <1>2, <2>1, FillPrice DEF Actions, Bars, Prices
  <2>4. id \in Nat \ {0} /\ ~Has(s, id)
    <3>1. PICK n : n = Len(s.positions) + Len(s.trades)
      OBVIOUS
    <3>2. n \in Nat /\ id = n + 1
      <4>1. Len(s.positions) \in Nat /\ Len(s.trades) \in Nat
        BY <2>2
      <4>2. id = n + 1
        BY <2>1, <3>1 DEF NextId
      <4>3. \A u, v \in Nat : u + v \in Nat
        OBVIOUS
      <4>4. n \in Nat
        BY <3>1, <4>1, <4>3
      <4>. QED
        BY <4>2, <4>4
    <3>3. \A i \in DOMAIN s.positions : s.positions[i].id <= n /\ s.positions[i].id \in Nat
      BY <2>2, <3>1, IdsTyped DEF Sound, Listed
    <3>. QED
      BY <3>2, <3>3 DEF Has
  <2>5. PICK x, y : x = qty * price /\ y = Fee * qty /\ x \in Int /\ y \in Int
    <3>1. qty \in Int /\ price \in Int
      BY <2>3
    <3>2. \A i, j \in Int : i * j \in Int
      OBVIOUS
    <3>3. Fee * qty \in Int
      BY <3>1, Commission
    <3>. QED
      BY <3>1, <3>2, <3>3
  <2>6. x \in Int /\ y \in Int
    BY <2>5
  <2> DEFINE p == NewPosition(id, side, qty, price, a.stop, a.targets)
             list == Append(s.positions, p)
             e == s.equity - y
             f == s.fees + y
             h == s.cash + (IF side = "LONG" THEN 0 - x ELSE x)
             u == [s EXCEPT !.equity = e, !.positions = list, !.fees = f, !.cash = h]
  <2>7. /\ p.id = id /\ p.side = side /\ p.cost = x /\ p.realized = 0 /\ p.entered = qty
        /\ p.fills = 1 /\ EntryFee(p) = y
    BY <2>5 DEF NewPosition, EntryFee
  <2>8. p \in PositionState
    BY <2>3, <2>4, <2>5 DEF NewPosition, PositionState
  <2>9. r = OnFill(u, p)
    BY <1>2, <2>1, <2>5, <2>7 DEF Open
  <2>. HIDE DEF p
  <2>10. /\ list \in Seq(PositionState) /\ Len(list) = Len(s.positions) + 1
         /\ DOMAIN list = 1..(Len(s.positions) + 1)
         /\ \A i \in 1..Len(s.positions) : list[i] = s.positions[i]
         /\ list[Len(s.positions) + 1] = p
    BY <2>2, <2>8
  <2>11. e \in Int /\ f \in Int /\ h \in Int
    BY <2>2, <2>6
  <2>. HIDE DEF list, e, f, h
  <2>12. u \in Sims
    BY <2>2, <2>10, <2>11, SetFill, Zenon
  <2>13. /\ u.equity = e /\ u.positions = list /\ u.fees = f /\ u.cash = h
         /\ u.trades = s.trades /\ u.kernel = s.kernel /\ u.twin = s.twin /\ u.low = s.low
         /\ u.today = s.today /\ u.day = s.day
    BY <2>2 DEF Sims
  <2>. HIDE DEF u
  <2>14. /\ r \in Sims /\ r.equity = e /\ r.positions = list /\ r.fees = f /\ r.cash = h
         /\ r.trades = s.trades /\ r.kernel = s.kernel /\ r.twin = s.twin /\ r.low = s.low
         /\ r.today = s.today /\ r.day = s.day
         /\ Production => r.tier = p.fills
    BY <2>8, <2>9, <2>12, <2>13, Heard
  <2>15. AfterAddition(s, r, p)
    <3>1. Added(s, r, p)
      BY <2>4, <2>7, <2>14 DEF Added, list
    <3>. QED
      BY <2>2, <2>8, <3>1, ViewAdded
  <2>16. Kernels(r) /\ Kept(r, o, m, d)
    BY <2>14 DEF Sound, Kernels, Kept, Offsets
  <2>17. Listed(r)
    <3>1. PICK n, z : n = Len(s.positions) /\ z = Len(s.trades)
      OBVIOUS
    <3>2. n \in Nat /\ z \in Nat /\ id = n + z + 1 /\ DOMAIN s.positions = 1..n
      BY <2>1, <2>2, <3>1 DEF NextId
    <3>3. \A i \in 1..n : s.positions[i].id <= n + z /\ s.positions[i].id \in Nat
      BY <2>2, <3>1, <3>2, IdsTyped DEF Sound, Listed
    <3>4. /\ \A i \in 1..n : r.positions[i] = s.positions[i]
          /\ r.positions[n + 1].id = id /\ DOMAIN r.positions = 1..(n + 1)
          /\ Len(r.positions) = n + 1 /\ Len(r.trades) = z
      BY <2>7, <2>10, <2>14, <3>1
    <3>5. ASSUME NEW i \in 1..(n + 1)
          PROVE  r.positions[i].id <= (n + 1) + z
      <4>1. CASE i \in 1..n
        BY <3>2, <3>3, <3>4, <4>1
      <4>2. CASE i = n + 1
        BY <3>2, <3>4, <4>2
      <4>. QED
        BY <3>2, <4>1, <4>2
    <3>. QED
      BY <2>15, <3>4, <3>5 DEF Listed, AfterAddition
  <2>18. PICK v, w, z :
           /\ v = Sum(AtCosts(s.positions)) /\ w = Sum(Earned(s.positions))
           /\ z = Sum(Charged(s.trades))
    OBVIOUS
  <2>19. v \in Int /\ w \in Int /\ z \in Int
    BY <2>2, <2>18, AccountsTyped, ChargesTyped
  <2>20. /\ Sum(AtCosts(list)) = v + (IF side = "LONG" THEN x ELSE 0 - x)
         /\ Sum(Earned(list)) = w - y
    <3>1. Sum(AtCosts(list)) = v + AtCost(p) /\ Sum(Earned(list)) = w + (p.realized - EntryFee(p))
      BY <2>2, <2>8, <2>18, AccountsAdded DEF list
    <3>2. AtCost(p) = IF side = "LONG" THEN x ELSE 0 - x
      BY <2>7 DEF AtCost
    <3>3. w + (0 - y) = w - y
      BY <2>6, <2>19
    <3>. QED
      BY <2>7, <3>1, <3>2, <3>3
  <2>21. Ledger(r)
    <3>1. s.equity = Capital + s.cash - s.fees + v
      BY <2>18 DEF Sound, Ledger
    <3>2. e = Capital + h - f + (v + (IF side = "LONG" THEN x ELSE 0 - x))
      <4>1. PICK i, j, t : i = s.equity /\ j = s.cash /\ t = s.fees
        OBVIOUS
      <4>2. i \in Int /\ j \in Int /\ t \in Int /\ i = Capital + j - t + v
        BY <2>2, <3>1, <4>1
      <4>3. i - y = Capital + (j + (IF side = "LONG" THEN 0 - x ELSE x)) - (t + y)
                      + (v + (IF side = "LONG" THEN x ELSE 0 - x))
        <5>1. Capital \in Int
          BY KernelAssumption
        <5>2. CASE side = "LONG"
          BY <5>1, <5>2, <4>2, <2>6, <2>19
        <5>3. CASE side # "LONG"
          BY <5>1, <5>3, <4>2, <2>6, <2>19
        <5>. QED
          BY <5>2, <5>3
      <4>. QED
        BY <4>1, <4>3 DEF e, f, h
    <3>3. Production => s.equity = s.kernel.current + w - z
      BY <2>18 DEF Sound, Ledger
    <3>4. \A i, j \in Int : i = j + w - z => i - y = j + (w - y) - z
      BY <2>6, <2>19
    <3>5. Production => e = s.kernel.current + (w - y) - z
      BY <3>3, <3>4, <2>2 DEF e
    <3>6. /\ r.equity = e /\ r.fees = f /\ r.cash = h /\ r.kernel = s.kernel
          /\ Sum(AtCosts(r.positions)) = v + (IF side = "LONG" THEN x ELSE 0 - x)
          /\ Sum(Earned(r.positions)) = w - y /\ Sum(Charged(r.trades)) = z
      BY <2>14, <2>18, <2>20
    <3>. QED
      BY <3>2, <3>5, <3>6, Zenon DEF Ledger
  <2>22. Sound(r, o, m, d)
    BY <2>14, <2>16, <2>17, <2>21 DEF Sound
  <2>23. Production /\ s.positions = <<>> => Single(r)
    <3>. SUFFICES ASSUME Production, s.positions = <<>>
                  PROVE  Single(r)
      OBVIOUS
    <3>1. Len(r.positions) = 1 /\ r.positions[1] = p
      BY <2>10, <2>14
    <3>. QED
      BY <3>1, <2>14 DEF Single
  <2>. QED
    BY <2>22, <2>23
<1>. QED
  BY <1>1, <1>2

\* Adding to a position keeps the books (_scale_in).
LEMMA ScaledIn ==
  ASSUME NEW s, NEW o, NEW m, NEW d, Sound(s, o, m, d), NEW a \in Actions, NEW b \in Bars,
         NEW r, r = ScaleIn(s, a, b)
  PROVE  /\ Sound(r, o, m, d)
         /\ Production /\ Single(s) => Single(r)
<1>1. CASE ~Has(s, a.id) \/ a.qty <= 0
  BY <1>1 DEF ScaleIn
<1>2. CASE Has(s, a.id) /\ ~(a.qty <= 0)
  <2>1. PICK p, k, id, qty, price, q :
          /\ p = Find(s, a.id) /\ k = Place(s, a.id) /\ id = a.id /\ qty = a.qty
          /\ price = EntryPrice(b.open, p.side) /\ q = AddFill(p, qty, price)
    OBVIOUS
  <2>2. /\ s \in Sims /\ s.positions \in Seq(PositionState) /\ Distinct(s.positions)
        /\ s.trades \in Seq(TradeState)
        /\ s.equity \in Int /\ s.cash \in Int /\ s.fees \in Int /\ s.kernel.current \in Int
    BY DEF Sound, Listed, Sims, Prod!KernelState
  <2>3. /\ k \in DOMAIN s.positions /\ k \in 1..Len(s.positions)
        /\ s.positions[k] = p /\ p.id = id /\ p \in PositionState /\ Has(s, id)
    BY <1>2, <2>1, <2>2, FoundById
  <2>4. qty \in Nat \ {0} /\ price \in Int
    BY <1>2, <2>1, FillPrice DEF Actions, Bars, Prices
  <2>5. PICK x, y : x = qty * price /\ y = Fee * qty /\ x \in Int /\ y \in Int
    <3>1. qty \in Int /\ price \in Int
      BY <2>4
    <3>2. \A i, j \in Int : i * j \in Int
      OBVIOUS
    <3>3. Fee * qty \in Int
      BY <3>1, Commission
    <3>. QED
      BY <3>1, <3>2, <3>3
  <2>6. x \in Int /\ y \in Int
    BY <2>5
  <2>7. /\ p.size \in Nat \ {0} /\ p.cost \in Int /\ p.entered \in Nat /\ p.fills \in Nat \ {0}
        /\ p.realized \in Int /\ EntryFee(p) \in Int
    <3>1. /\ p.size \in Nat \ {0} /\ p.cost \in Int /\ p.entered \in Nat /\ p.fills \in Nat \ {0}
          /\ p.realized \in Int
      BY <2>3 DEF PositionState
    <3>. QED
      BY <3>1, WalkAssumption DEF EntryFee
  <2>8. /\ q.id = id /\ q.side = p.side /\ q.cost = p.cost + x /\ q.realized = p.realized
        /\ q.entered = p.entered + qty /\ q \in PositionState
    <3>1. q = [p EXCEPT !.size = p.size + qty, !.cost = p.cost + x,
                        !.entered = p.entered + qty, !.fills = p.fills + 1]
      BY <2>1, <2>5 DEF AddFill
    <3>2. ASSUME NEW i \in Nat \ {0}, NEW c \in Int, NEW j \in Nat, NEW n \in Nat \ {0}
          PROVE  [p EXCEPT !.size = i, !.cost = c, !.entered = j, !.fills = n] \in PositionState
      BY <2>3 DEF PositionState
    <3>3. /\ p.size + qty \in Nat \ {0} /\ p.cost + x \in Int /\ p.entered + qty \in Nat
          /\ p.fills + 1 \in Nat \ {0}
      BY <2>4, <2>6, <2>7
    <3>4. q \in PositionState
      BY <3>1, <3>2, <3>3, Zenon
    <3>. QED
      BY <2>3, <3>1, <3>4 DEF PositionState
  <2>9. EntryFee(q) = EntryFee(p) + y
    <3>1. Fee * (p.entered + qty) = Fee * p.entered + Fee * qty
      <4>1. p.entered \in Int /\ qty \in Int
        BY <2>4, <2>7
      <4>. QED
        BY <4>1, Commission, Zenon
    <3>. QED
      BY <2>5, <2>8, <3>1 DEF EntryFee
  <2> DEFINE list == [s.positions EXCEPT ![k] = q]
             e == s.equity - y
             f == s.fees + y
             h == s.cash + (IF p.side = "LONG" THEN 0 - x ELSE x)
             u == [s EXCEPT !.equity = e, !.positions = list, !.fees = f, !.cash = h]
  <2>10. Replaced(s, q) = list
    <3>1. Has(s, q.id) /\ Place(s, q.id) = k
      BY <2>1, <2>3, <2>8
    <3>2. Replaced(s, q) = [s.positions EXCEPT ![Place(s, q.id)] = q]
      BY <2>2, <3>1, OneReplaced
    <3>. QED
      BY <3>1, <3>2
  <2>11. r = OnFill(u, q)
    BY <1>2, <2>1, <2>5, <2>10 DEF ScaleIn
  <2>12. /\ list \in Seq(PositionState) /\ Len(list) = Len(s.positions) /\ list[k] = q
         /\ DOMAIN list = DOMAIN s.positions
         /\ \A i \in DOMAIN s.positions : list[i].id = s.positions[i].id
    BY <2>2, <2>3, <2>8
  <2>13. e \in Int /\ f \in Int /\ h \in Int
    BY <2>2, <2>6
  <2>. HIDE DEF list, e, f, h
  <2>14. u \in Sims
    BY <2>2, <2>12, <2>13, SetFill, Zenon
  <2>15. /\ u.equity = e /\ u.positions = list /\ u.fees = f /\ u.cash = h
         /\ u.trades = s.trades /\ u.kernel = s.kernel /\ u.twin = s.twin /\ u.low = s.low
         /\ u.today = s.today /\ u.day = s.day
    BY <2>2 DEF Sims
  <2>. HIDE DEF u
  <2>16. /\ r \in Sims /\ r.equity = e /\ r.positions = list /\ r.fees = f /\ r.cash = h
         /\ r.trades = s.trades /\ r.kernel = s.kernel /\ r.twin = s.twin /\ r.low = s.low
         /\ r.today = s.today /\ r.day = s.day
         /\ Production => r.tier = q.fills
    BY <2>8, <2>11, <2>14, <2>15, Heard
  <2>17. AfterChange(s, r, q)
    <3>1. Changed(s, r, k, q)
      BY <2>3, <2>8, <2>16 DEF Changed, list
    <3>. QED
      BY <2>2, <3>1, ViewChanged
  <2>18. Kernels(r) /\ Kept(r, o, m, d)
    BY <2>16 DEF Sound, Kernels, Kept, Offsets
  <2>19. Listed(r)
    BY <2>12, <2>16, <2>17 DEF Listed, AfterChange, Sound
  <2>20. PICK v, w, z :
           /\ v = Sum(AtCosts(s.positions)) /\ w = Sum(Earned(s.positions))
           /\ z = Sum(Charged(s.trades))
    OBVIOUS
  <2>21. v \in Int /\ w \in Int /\ z \in Int
    BY <2>2, <2>20, AccountsTyped, ChargesTyped
  <2>22. /\ Sum(AtCosts(list)) = v + (IF p.side = "LONG" THEN x ELSE 0 - x)
         /\ Sum(Earned(list)) = w - y
    <3>1. /\ Sum(AtCosts(list)) = (v - AtCost(p)) + AtCost(q)
          /\ Sum(Earned(list)) = (w - (p.realized - EntryFee(p))) + (q.realized - EntryFee(q))
      BY <2>2, <2>3, <2>8, <2>20, AccountsChanged DEF list
    <3>2. /\ p.side = "LONG" => AtCost(p) = p.cost /\ AtCost(q) = p.cost + x
          /\ p.side # "LONG" => AtCost(p) = 0 - p.cost /\ AtCost(q) = 0 - (p.cost + x)
      BY <2>8 DEF AtCost
    <3>3. \A c, i, j \in Int :
              (i - c) + (c + j) = i + j /\ (i - (0 - c)) + (0 - (c + j)) = i + (0 - j)
      OBVIOUS
    <3>4. \A i, j, n, t \in Int : (i - (j - n)) + (j - (n + t)) = i - t
      OBVIOUS
    <3>5. Sum(Earned(list)) = w - y
      BY <3>1, <3>4, <2>6, <2>7, <2>8, <2>9, <2>21
    <3>6. Sum(AtCosts(list)) = v + (IF p.side = "LONG" THEN x ELSE 0 - x)
      BY <3>1, <3>2, <3>3, <2>6, <2>7, <2>21
    <3>. QED
      BY <3>5, <3>6
  <2>23. Ledger(r)
    <3>1. s.equity = Capital + s.cash - s.fees + v
      BY <2>20 DEF Sound, Ledger
    <3>2. e = Capital + h - f + (v + (IF p.side = "LONG" THEN x ELSE 0 - x))
      <4>1. PICK i, j, t, side : i = s.equity /\ j = s.cash /\ t = s.fees /\ side = p.side
        OBVIOUS
      <4>2. i \in Int /\ j \in Int /\ t \in Int /\ i = Capital + j - t + v
        BY <2>2, <3>1, <4>1
      <4>3. i - y = Capital + (j + (IF side = "LONG" THEN 0 - x ELSE x)) - (t + y)
                      + (v + (IF side = "LONG" THEN x ELSE 0 - x))
        <5>1. Capital \in Int
          BY KernelAssumption
        <5>2. CASE side = "LONG"
          BY <5>1, <5>2, <4>2, <2>6, <2>21
        <5>3. CASE side # "LONG"
          BY <5>1, <5>3, <4>2, <2>6, <2>21
        <5>. QED
          BY <5>2, <5>3
      <4>. QED
        BY <4>1, <4>3 DEF e, f, h
    <3>3. Production => s.equity = s.kernel.current + w - z
      BY <2>20 DEF Sound, Ledger
    <3>4. \A i, j \in Int : i = j + w - z => i - y = j + (w - y) - z
      BY <2>6, <2>21
    <3>5. Production => e = s.kernel.current + (w - y) - z
      BY <3>3, <3>4, <2>2 DEF e
    <3>6. /\ r.equity = e /\ r.fees = f /\ r.cash = h /\ r.kernel = s.kernel
          /\ Sum(AtCosts(r.positions)) = v + (IF p.side = "LONG" THEN x ELSE 0 - x)
          /\ Sum(Earned(r.positions)) = w - y /\ Sum(Charged(r.trades)) = z
      BY <2>16, <2>20, <2>22
    <3>. QED
      BY <3>2, <3>5, <3>6, Zenon DEF Ledger
  <2>24. Sound(r, o, m, d)
    BY <2>16, <2>18, <2>19, <2>23 DEF Sound
  <2>25. Production /\ Single(s) => Single(r)
    <3>. SUFFICES ASSUME Production, Single(s)
                  PROVE  Single(r)
      OBVIOUS
    <3>1. Len(s.positions) = 1 /\ k = 1
      BY <2>2, <2>3 DEF Single
    <3>. QED
      BY <3>1, <2>12, <2>16 DEF Single
  <2>. QED
    BY <2>24, <2>25
<1>. QED
  BY <1>1, <1>2

\* An action that reduces a position keeps the books (_reduce_position).
LEMMA ReducedSound ==
  ASSUME NEW s, NEW o, NEW m, NEW d, Sound(s, o, m, d), NEW a \in Actions, NEW b \in Bars,
         clock \in Nat, NEW r, r = Reduce(s, a, b)
  PROVE  /\ Sound(r, o, m, d)
         /\ Production /\ Single(s) => Single(r)
<1>1. PICK p, qty, price :
        /\ p = Find(s, a.id) /\ qty = Smaller(a.qty, p.size)
        /\ price = ExitPrice(b.open, p.side)
  OBVIOUS
<1>2. CASE ~Has(s, a.id) \/ qty <= 0
  BY <1>1, <1>2 DEF Reduce
<1>3. CASE Has(s, a.id) /\ ~(qty <= 0)
  <2>1. r = Sell(s, a.id, qty, price, "adapter")
    BY <1>1, <1>3 DEF Reduce
  <2>2. s.positions \in Seq(PositionState)
    BY DEF Sound, Sims
  <2>3. p \in PositionState
    BY <1>1, <1>3, <2>2, FoundById
  <2>4. p.size \in Nat \ {0} /\ a.qty \in Int
    BY <2>3 DEF PositionState, Actions
  <2>5. qty \in Nat \ {0} /\ qty <= p.size /\ price \in Int
    <3>1. b.open \in Int
      BY DEF Bars, Prices
    <3>2. price \in Int
      BY <1>1, <3>1, FillPrice
    <3>3. qty \in Int /\ qty <= p.size
      BY <1>1, <2>4 DEF Smaller
    <3>4. qty \in Nat \ {0}
      BY <1>3, <3>3
    <3>. QED
      BY <3>2, <3>3, <3>4
  <2>8. "adapter" \in Whys
    BY DEF Whys
  <2>6. CASE qty = p.size
    BY <1>1, <1>3, <2>1, <2>5, <2>6, <2>8, SoldWhole
  <2>7. CASE qty < p.size
    BY <1>1, <1>3, <2>1, <2>5, <2>7, <2>8, SoldPart
  <2>. QED
    BY <2>4, <2>5, <2>6, <2>7
<1>. QED
  BY <1>2, <1>3

\* Closing a position keeps the books (_close_position).
LEMMA ClosedSound ==
  ASSUME NEW s, NEW o, NEW m, NEW d, Sound(s, o, m, d), NEW id, NEW price \in Int,
         NEW why \in Whys, clock \in Nat, NEW r, r = Close(s, id, price, why)
  PROVE  /\ Sound(r, o, m, d)
         /\ Production /\ Single(s) => Single(r)
<1>1. CASE ~Has(s, id)
  BY <1>1 DEF Close
<1>2. CASE Has(s, id)
  <2>1. PICK qty, at : qty = Find(s, id).size /\ at = ExitPrice(price, Find(s, id).side)
    OBVIOUS
  <2>2. at \in Int
    BY <2>1, FillPrice
  <2>3. r = Sell(s, id, qty, at, why)
    BY <1>2, <2>1 DEF Close
  <2>. QED
    BY <1>2, <2>1, <2>2, <2>3, SoldWhole
<1>. QED
  BY <1>1, <1>2

\* Every pending action keeps the books (_dispatch_action).
LEMMA Dispatched ==
  ASSUME NEW s, NEW o, NEW m, NEW d, Sound(s, o, m, d), NEW a \in Actions, NEW b \in Bars,
         clock \in Nat, NEW r, r = Dispatch(s, a, b)
  PROVE  /\ Sound(r, o, m, d)
         /\ Production /\ Single(s) /\ (a.what = "open" => s.positions = <<>>) => Single(r)
<1>1. a.what \in {"open", "scale", "reduce", "close"}
  BY DEF Actions
<1>6. b.open \in Int
  BY DEF Bars, Prices
<1>7. "adapter" \in Whys
  BY DEF Whys
<1>2. CASE a.what = "open"
  <2>1. r = Open(s, a, b)
    BY <1>2 DEF Dispatch
  <2>. QED
    BY <1>2, <2>1, Opened
<1>3. CASE a.what = "scale"
  <2>1. r = ScaleIn(s, a, b)
    BY <1>3 DEF Dispatch
  <2>. QED
    BY <2>1, ScaledIn
<1>4. CASE a.what = "reduce"
  <2>1. r = Reduce(s, a, b)
    BY <1>4 DEF Dispatch
  <2>. QED
    BY <2>1, ReducedSound
<1>5. CASE a.what = "close"
  <2>1. r = Close(s, a.id, b.open, "adapter")
    BY <1>5 DEF Dispatch
  <2>. QED
    BY <1>6, <1>7, <2>1, ClosedSound
<1>. QED
  BY <1>1, <1>2, <1>3, <1>4, <1>5

\* Whatever the adapter decided on the last bar, filling it at this bar's open keeps
\* the books; a single decision keeps a strategy's tier.
LEMMA PendingFilled ==
  ASSUME NEW s, NEW o, NEW m, NEW d, Sound(s, o, m, d), NEW b \in Bars, clock \in Nat,
         NEW c \in Seq(Actions), c = pending, NEW r, r = ExecutePending(s, b)
  PROVE  /\ Sound(r, o, m, d)
         /\ Production /\ Single(s) /\ Len(c) <= 1
              /\ (\A i \in DOMAIN c : c[i].what = "open" => s.positions = <<>>) => Single(r)
<1> DEFINE after == AfterActions(s, b)
           T == {i \in 0..Len(c) : Sound(after[i], o, m, d)}
<1>1. Len(c) \in Nat /\ DOMAIN c = 1..Len(c) /\ \A i \in 1..Len(c) : c[i] \in Actions
  OBVIOUS
<1>2. /\ after[0] = s
      /\ \A i \in 1..Len(c) : after[i] = Dispatch(after[i - 1], c[i], b)
  BY ActionsInTurn
<1>3. r = after[Len(c)]
  BY DEF ExecutePending
<1>. HIDE DEF after
<1>4. 0 \in T
  BY <1>1, <1>2
<1>5. \A i \in 1..Len(c) : i - 1 \in T => i \in T
  <2>1. TAKE i \in 1..Len(c)
  <2>2. HAVE i - 1 \in T
  <2>3. c[i] \in Actions /\ after[i] = Dispatch(after[i - 1], c[i], b)
    BY <1>1, <1>2
  <2>4. Sound(after[i - 1], o, m, d)
    BY <2>2
  <2>5. Sound(after[i], o, m, d)
    BY <2>3, <2>4, Dispatched
  <2>. QED
    BY <1>1, <2>5
<1>6. 0..Len(c) \subseteq T
  <2>. HIDE DEF T
  <2>. QED
    BY <1>1, <1>4, <1>5, UpTo
<1>7. Sound(r, o, m, d)
  BY <1>1, <1>3, <1>6
<1>8. ASSUME Production, Single(s), Len(c) <= 1,
             \A i \in DOMAIN c : c[i].what = "open" => s.positions = <<>>
      PROVE  Single(r)
  <2>1. CASE Len(c) = 0
    BY <1>2, <1>3, <1>8, <2>1
  <2>2. CASE Len(c) = 1
    <3>1. c[1] \in Actions /\ r = Dispatch(s, c[1], b) /\ (c[1].what = "open" => s.positions = <<>>)
      BY <1>1, <1>2, <1>3, <1>8, <2>2
    <3>. QED
      BY <1>8, <3>1, Dispatched
  <2>. QED
    BY <1>1, <1>8, <2>1, <2>2
<1>. QED
  BY <1>7, <1>8

\* What a position keeps of itself while a bar's exits are checked.
SameOrder(p, q) == q.side = p.side /\ q.stop = p.stop /\ q.targets = p.targets

\* What one exit may do to a simulation: it touches the position of that id only.
Exited(s, r, id) ==
  /\ \A j : Has(r, j) => Has(s, j)
  /\ \A j : j # id /\ Has(s, j) => Has(r, j)
  /\ OthersKept(s, r, id)
  /\ Has(r, id) => SameOrder(Find(s, id), Find(r, id))

Ticked(p, n) == [p EXCEPT !.done = p.done \cup {n}]
Swapped(s, q) == [s EXCEPT !.positions = Replaced(s, q)]

\* Marking a level of a position that has it changes nothing else.
LEMMA MarkedSound ==
  ASSUME NEW s, NEW o, NEW m, NEW d, Sound(s, o, m, d), NEW id, Has(s, id), NEW n \in Nat,
         NEW q, q = Ticked(Find(s, id), n), NEW r, r = Swapped(s, q)
  PROVE  /\ Sound(r, o, m, d)
         /\ Single(s) => Single(r)
         /\ AfterChange(s, r, q)
         /\ q.id = id /\ q.size = Find(s, id).size /\ SameOrder(Find(s, id), q)
<1>1. PICK p, k : p = Find(s, id) /\ k = Place(s, id)
  OBVIOUS
<1>2. /\ s \in Sims /\ s.positions \in Seq(PositionState) /\ Distinct(s.positions)
      /\ s.trades \in Seq(TradeState)
  BY DEF Sound, Listed, Sims
<1>3. /\ k \in DOMAIN s.positions /\ k \in 1..Len(s.positions)
      /\ s.positions[k] = p /\ p.id = id /\ p \in PositionState
  BY <1>1, <1>2, FoundById
<1>4. /\ q \in PositionState /\ q.id = id /\ q.side = p.side /\ q.stop = p.stop
      /\ q.targets = p.targets /\ q.size = p.size /\ q.cost = p.cost
      /\ q.entered = p.entered /\ q.fills = p.fills /\ q.realized = p.realized
  BY <1>1, <1>3 DEF PositionState, Ticked
<1> DEFINE list == [s.positions EXCEPT ![k] = q]
<1>5. Replaced(s, q) = list
  <2>1. Has(s, q.id) /\ Place(s, q.id) = k
    BY <1>1, <1>4
  <2>2. Replaced(s, q) = [s.positions EXCEPT ![Place(s, q.id)] = q]
    BY <1>2, <2>1, OneReplaced
  <2>. QED
    BY <2>1, <2>2
<1>6. /\ list \in Seq(PositionState) /\ Len(list) = Len(s.positions) /\ list[k] = q
      /\ DOMAIN list = DOMAIN s.positions
      /\ \A i \in DOMAIN s.positions : list[i].id = s.positions[i].id
  BY <1>2, <1>3, <1>4
<1>7. r = [s EXCEPT !.positions = list]
  BY <1>5 DEF Swapped
<1>8. /\ Sum(AtCosts(list)) = Sum(AtCosts(s.positions))
      /\ Sum(Earned(list)) = Sum(Earned(s.positions))
  <2>1. PICK v, w : v = Sum(AtCosts(s.positions)) /\ w = Sum(Earned(s.positions))
    OBVIOUS
  <2>2. v \in Int /\ w \in Int
    BY <1>2, <2>1, AccountsTyped
  <2>3. PICK a, e : a = AtCost(p) /\ e = p.realized - EntryFee(p)
    OBVIOUS
  <2>4. a \in Int /\ e \in Int
    <3>1. p.cost \in Int /\ p.realized \in Int /\ Fee * p.entered \in Int
      BY <1>3, WalkAssumption DEF PositionState
    <3>. QED
      BY <2>3, <3>1 DEF AtCost, EntryFee
  <2>5. AtCost(q) = a /\ q.realized - EntryFee(q) = e
    BY <1>4, <2>3 DEF AtCost, EntryFee
  <2>6. Sum(AtCosts(list)) = (v - a) + a /\ Sum(Earned(list)) = (w - e) + e
    <3>1. /\ Sum(AtCosts(list)) = (Sum(AtCosts(s.positions)) - AtCost(p)) + AtCost(q)
          /\ Sum(Earned(list)) = (Sum(Earned(s.positions)) - (p.realized - EntryFee(p)))
                                   + (q.realized - EntryFee(q))
      BY <1>2, <1>3, <1>4, AccountsChanged DEF list
    <3>. QED
      BY <2>1, <2>3, <2>5, <3>1
  <2>. QED
    BY <2>1, <2>2, <2>4, <2>6
<1>. HIDE DEF list
<1>9. /\ r \in Sims /\ r.equity = s.equity /\ r.positions = list /\ r.fees = s.fees
      /\ r.cash = s.cash /\ r.trades = s.trades /\ r.kernel = s.kernel /\ r.twin = s.twin
      /\ r.low = s.low /\ r.today = s.today /\ r.day = s.day /\ r.tier = s.tier
  <2>1. r \in Sims
    BY <1>2, <1>6, <1>7, SetPositions, Zenon
  <2>. QED
    BY <1>2, <1>7, <2>1 DEF Sims
<1>10. AfterChange(s, r, q)
  <2>1. Changed(s, r, k, q)
    BY <1>3, <1>4, <1>9 DEF Changed, list
  <2>. QED
    BY <1>2, <2>1, ViewChanged
<1>11. Kernels(r) /\ Kept(r, o, m, d)
  BY <1>9 DEF Sound, Kernels, Kept, Offsets
<1>12. Listed(r)
  BY <1>6, <1>9, <1>10 DEF Listed, AfterChange, Sound
<1>13. Ledger(r)
  BY <1>8, <1>9 DEF Sound, Ledger
<1>14. Sound(r, o, m, d)
  BY <1>9, <1>11, <1>12, <1>13 DEF Sound
<1>15. Single(s) => Single(r)
  <2>. SUFFICES ASSUME Single(s)
                PROVE  Single(r)
    OBVIOUS
  <2>1. Len(s.positions) = 1 /\ k = 1
    BY <1>2, <1>3 DEF Single
  <2>. QED
    <3>1. s.tier = p.fills
      BY <1>3, <2>1 DEF Single
    <3>2. r.positions[1] = q /\ Len(r.positions) = 1
      BY <1>6, <1>9, <2>1
    <3>. QED
      BY <1>4, <1>9, <3>1, <3>2 DEF Single
<1>. QED
  BY <1>1, <1>4, <1>10, <1>14, <1>15 DEF SameOrder

\* Exits of one position compose, and changing or removing it is such an exit.
LEMMA ExitsCompose ==
  ASSUME NEW s, NEW r, NEW id
  PROVE  /\ Exited(s, s, id)
         /\ \A u : Exited(s, r, id) /\ Exited(r, u, id) => Exited(s, u, id)
         /\ \A q : AfterChange(s, r, q) /\ q.id = id /\ SameOrder(Find(s, id), q)
                      => Exited(s, r, id)
         /\ AfterRemoval(s, r, id) => Exited(s, r, id) /\ ~Has(r, id)
<1>1. Exited(s, s, id)
  BY DEF Exited, OthersKept, SameOrder
<1>2. ASSUME NEW u, Exited(s, r, id), Exited(r, u, id)
      PROVE  Exited(s, u, id)
  <2>1. OthersKept(s, u, id)
    BY <1>2 DEF Exited, OthersKept
  <2>2. ASSUME Has(u, id)
        PROVE  SameOrder(Find(s, id), Find(u, id))
    <3>1. Has(r, id) /\ SameOrder(Find(r, id), Find(u, id))
      BY <1>2, <2>2 DEF Exited
    <3>2. SameOrder(Find(s, id), Find(r, id))
      BY <1>2, <3>1 DEF Exited
    <3>. QED
      BY <3>1, <3>2 DEF SameOrder
  <2>. QED
    BY <1>2, <2>1, <2>2 DEF Exited
<1>3. ASSUME NEW q, AfterChange(s, r, q), q.id = id, SameOrder(Find(s, id), q)
      PROVE  Exited(s, r, id)
  BY <1>3 DEF AfterChange, Exited
<1>4. ASSUME AfterRemoval(s, r, id)
      PROVE  Exited(s, r, id) /\ ~Has(r, id)
  BY <1>4 DEF AfterRemoval, Exited
<1>. QED
  BY <1>1, <1>2, <1>3, <1>4

\* One level of a take-profit ladder keeps the books and touches no other position.
LEMMA TookProfit ==
  ASSUME NEW s, NEW o, NEW m, NEW d, Sound(s, o, m, d), NEW id, NEW n \in Nat, NEW b \in Bars,
         Has(s, id) => n \in DOMAIN Find(s, id).targets, clock \in Nat,
         NEW r, r = TakeProfit(s, id, n, b)
  PROVE  /\ Sound(r, o, m, d)
         /\ Production /\ Single(s) => Single(r)
         /\ Exited(s, r, id)
<1>1. PICK p, target, q, marked, qty :
        /\ p = Find(s, id) /\ target = p.targets[n]
        /\ q = Ticked(p, n) /\ marked = Swapped(s, q)
        /\ qty = IF target.half THEN p.size \div 2 ELSE p.size
  OBVIOUS
<1>2. CASE ~Has(s, id) \/ n \in p.done \/ ~TargetHit(p, target, b)
  <2>1. r = s
    BY <1>1, <1>2 DEF TakeProfit, Ticked, Swapped
  <2>. QED
    BY <2>1, ExitsCompose
<1>3. CASE ~(~Has(s, id) \/ n \in p.done \/ ~TargetHit(p, target, b))
  <2>1. Has(s, id)
    BY <1>3
  <2>2. r = IF qty > 0 THEN Sell(marked, id, qty, target.price, "take_profit") ELSE marked
    BY <1>1, <1>3 DEF TakeProfit, Ticked, Swapped
  <2>3. s.positions \in Seq(PositionState)
    BY DEF Sound, Sims
  <2>4. p \in PositionState
    BY <1>1, <2>1, <2>3, FoundById
  <2>5. target \in Levels /\ target.price \in Int /\ p.size \in Nat \ {0}
    <3>1. p.targets \in Seq(Levels) /\ n \in DOMAIN p.targets /\ p.size \in Nat \ {0}
      BY <1>1, <2>1, <2>4 DEF PositionState
    <3>2. target \in Levels
      BY <1>1, <3>1
    <3>. QED
      BY <3>1, <3>2 DEF Levels
  <2>6. qty \in Nat /\ qty <= p.size
    <3>1. p.size \div 2 \in Nat /\ p.size \div 2 <= p.size
      BY <2>5
    <3>. QED
      BY <1>1, <2>5, <3>1
  <2>7. /\ Sound(marked, o, m, d) /\ (Single(s) => Single(marked)) /\ AfterChange(s, marked, q)
        /\ q.id = id /\ q.size = p.size /\ SameOrder(p, q)
    <3>1. q = Ticked(Find(s, id), n) /\ marked = Swapped(s, q)
      BY <1>1
    <3>2. /\ Sound(marked, o, m, d) /\ (Single(s) => Single(marked)) /\ AfterChange(s, marked, q)
          /\ q.id = id /\ q.size = Find(s, id).size /\ SameOrder(Find(s, id), q)
      BY <2>1, <3>1, MarkedSound
    <3>. QED
      BY <1>1, <3>2
  <2>8. Exited(s, marked, id)
    BY <1>1, <2>7, ExitsCompose
  <2>9. Has(marked, id) /\ Find(marked, id) = q
    BY <2>1, <2>7 DEF AfterChange
  <2>10. "take_profit" \in Whys
    BY DEF Whys
  <2>11. CASE ~(qty > 0)
    BY <2>2, <2>7, <2>8, <2>11
  <2>12. CASE qty > 0 /\ qty = p.size
    <3>1. r = Sell(marked, id, qty, target.price, "take_profit")
      BY <2>2, <2>12
    <3>2. qty = Find(marked, id).size
      BY <2>7, <2>9, <2>12
    <3>3. Sound(r, o, m, d) /\ (Production /\ Single(marked) => Single(r)) /\ AfterRemoval(marked, r, id)
      BY <2>5, <2>7, <2>9, <2>10, <3>1, <3>2, SoldWhole
    <3>4. Exited(marked, r, id)
      BY <3>3, ExitsCompose
    <3>. QED
      BY <2>7, <2>8, <3>3, <3>4, ExitsCompose
  <2>13. CASE qty > 0 /\ qty < p.size
    <3>1. r = Sell(marked, id, qty, target.price, "take_profit")
      BY <2>2, <2>13
    <3>2. qty \in Nat \ {0} /\ qty < Find(marked, id).size
      BY <2>6, <2>7, <2>9, <2>13
    <3>3. /\ Sound(r, o, m, d) /\ (Single(marked) => Single(r))
          /\ (\A j : Has(r, j) <=> Has(marked, j)) /\ OthersKept(marked, r, id)
          /\ Find(r, id) = ApplyReduction(q, qty, target.price)
      BY <2>5, <2>7, <2>9, <2>10, <3>1, <3>2, SoldPart
    <3>4. SameOrder(q, Find(r, id))
      <4>1. q \in PositionState
        BY <1>1, <2>4 DEF PositionState, Ticked
      <4>2. qty <= q.size
        BY <2>7, <2>13, <2>5, <2>6
      <4>. QED
        BY <3>2, <3>3, <4>1, <4>2, <2>5, Reduced DEF SameOrder
    <3>5. Exited(marked, r, id)
      BY <2>9, <3>3, <3>4 DEF Exited
    <3>. QED
      BY <2>7, <2>8, <3>3, <3>5, ExitsCompose
  <2>. QED
    BY <2>5, <2>6, <2>11, <2>12, <2>13
<1>. QED
  BY <1>2, <1>3

\* A position's exit: after it, the position is gone or its stop was not touched, and
\* the other positions are as they were.
LEMMA ExitSound ==
  ASSUME NEW s, NEW o, NEW m, NEW d, Sound(s, o, m, d), NEW p, Has(s, p.id),
         p = Find(s, p.id), NEW b \in Bars, clock \in Nat, NEW r, r = ExitOf(s, p, b)
  PROVE  /\ Sound(r, o, m, d)
         /\ Production /\ Single(s) => Single(r)
         /\ Exited(s, r, p.id)
         /\ Has(r, p.id) => ~StopHit(Find(r, p.id), b)
<1>1. p \in PositionState
  <2>1. s.positions \in Seq(PositionState)
    BY DEF Sound, Sims
  <2>. QED
    BY <2>1, FoundById
<1>2. CASE StopHit(p, b)
  <2>1. PICK qty, price : qty = p.size /\ price = p.stop
    OBVIOUS
  <2>2. r = Sell(s, p.id, qty, price, "stop_loss") /\ price \in Int /\ qty = Find(s, p.id).size
    BY <1>1, <1>2, <2>1 DEF ExitOf, PositionState
  <2>3. "stop_loss" \in Whys
    BY DEF Whys
  <2>4. Sound(r, o, m, d) /\ (Production /\ Single(s) => Single(r)) /\ AfterRemoval(s, r, p.id)
    BY <2>2, <2>3, SoldWhole
  <2>. QED
    BY <2>4, ExitsCompose
<1>3. CASE ~StopHit(p, b)
  <2> DEFINE after == AfterTargets(s, p, b)
             Good(u) == /\ Sound(u, o, m, d)
                        /\ Production /\ Single(s) => Single(u)
                        /\ Exited(s, u, p.id)
             T == {n \in 0..Len(p.targets) : Good(after[n])}
  <2>1. p.targets \in Seq(Levels) /\ Len(p.targets) \in Nat /\ DOMAIN p.targets = 1..Len(p.targets)
    BY <1>1 DEF PositionState
  <2>2. /\ after[0] = s
        /\ \A i \in 1..Len(p.targets) : after[i] = TakeProfit(after[i - 1], p.id, i, b)
    BY <2>1, TargetsInTurn
  <2>3. r = after[Len(p.targets)]
    BY <1>3 DEF ExitOf
  <2>. HIDE DEF after
  <2>4. 0 \in T
    BY <2>1, <2>2, ExitsCompose
  <2>5. \A i \in 1..Len(p.targets) : i - 1 \in T => i \in T
    <3>1. TAKE i \in 1..Len(p.targets)
    <3>2. HAVE i - 1 \in T
    <3>3. PICK u, v : u = after[i - 1] /\ v = after[i]
      OBVIOUS
    <3>4. v = TakeProfit(u, p.id, i, b) /\ i \in Nat
      BY <2>1, <2>2, <3>3
    <3>5. Sound(u, o, m, d) /\ (Production /\ Single(s) => Single(u)) /\ Exited(s, u, p.id)
      BY <3>2, <3>3
    <3>6. Has(u, p.id) => i \in DOMAIN Find(u, p.id).targets
      BY <2>1, <3>5 DEF Exited, SameOrder
    <3>7. Sound(v, o, m, d) /\ (Production /\ Single(u) => Single(v)) /\ Exited(u, v, p.id)
      <4>1. PICK id : id = p.id
        OBVIOUS
      <4>2. /\ i \in Nat /\ Sound(u, o, m, d) /\ v = TakeProfit(u, id, i, b)
            /\ (Has(u, id) => i \in DOMAIN Find(u, id).targets)
        BY <3>4, <3>5, <3>6, <4>1
      <4>3. /\ Sound(v, o, m, d) /\ (Production /\ Single(u) => Single(v)) /\ Exited(u, v, id)
        BY <4>2, TookProfit
      <4>. QED
        BY <4>1, <4>3
    <3>8. Exited(s, v, p.id)
      BY <3>5, <3>7, ExitsCompose
    <3>. QED
      BY <3>3, <3>5, <3>7, <3>8, <2>1
  <2>6. 0..Len(p.targets) \subseteq T
    <3>. HIDE DEF T
    <3>. QED
      BY <2>1, <2>4, <2>5, UpTo
  <2>7. Good(r)
    BY <2>1, <2>3, <2>6
  <2>8. Has(r, p.id) => ~StopHit(Find(r, p.id), b)
    BY <1>3, <2>7 DEF Exited, SameOrder, StopHit
  <2>. QED
    BY <2>7, <2>8
<1>. QED
  BY <1>2, <1>3

\* The first i positions of a simulation have had their exits checked.
Checked(s, r, i, b) ==
  /\ \A j : Has(r, j) => Has(s, j)
  /\ \A j \in DOMAIN s.positions :
       LET p == s.positions[j]
       IN  IF j > i THEN Has(r, p.id) /\ Find(r, p.id) = p
           ELSE Has(r, p.id) => ~StopHit(Find(r, p.id), b)

\* A bar's exits, which the engine checks on a copy of the list it removes from: they
\* keep the books, and no position is left whose stop the bar touched.
LEMMA ExitsChecked ==
  ASSUME NEW s, NEW o, NEW m, NEW d, Sound(s, o, m, d), NEW b \in Bars, clock \in Nat,
         NEW r, r = CheckExits(s, b)
  PROVE  /\ Sound(r, o, m, d)
         /\ Production /\ Single(s) => Single(r)
         /\ \A i \in DOMAIN r.positions : ~StopHit(r.positions[i], b)
<1> DEFINE after == AfterExits(s, b)
           n == Len(s.positions)
           Good(u) == Sound(u, o, m, d) /\ (Production /\ Single(s) => Single(u))
           T == {i \in 0..n : Good(after[i]) /\ Checked(s, after[i], i, b)}
<1>1. /\ s.positions \in Seq(PositionState) /\ Distinct(s.positions)
      /\ n \in Nat /\ DOMAIN s.positions = 1..n
  BY DEF Sound, Listed, Sims
<1>2. /\ after[0] = s
      /\ \A i \in 1..n : after[i] = ExitOf(after[i - 1], s.positions[i], b)
  BY <1>1, ExitsInTurn
<1>3. r = after[n]
  BY DEF CheckExits
<1>. HIDE DEF after, n
<1>4. 0 \in T
  <2>1. \A j \in DOMAIN s.positions :
          j > 0 /\ Has(s, s.positions[j].id) /\ Find(s, s.positions[j].id) = s.positions[j]
    BY <1>1, FoundAt
  <2>2. Checked(s, s, 0, b)
    BY <2>1 DEF Checked
  <2>. QED
    BY <1>1, <1>2, <2>2
<1>5. \A i \in 1..n : i - 1 \in T => i \in T
  <2>1. TAKE i \in 1..n
  <2>2. HAVE i - 1 \in T
  <2>3. PICK u, v, p : u = after[i - 1] /\ v = after[i] /\ p = s.positions[i]
    OBVIOUS
  <2>4. v = ExitOf(u, p, b)
    BY <1>2, <2>3
  <2>5. Good(u) /\ Checked(s, u, i - 1, b)
    BY <2>2, <2>3
  <2>6. Has(u, p.id) /\ p = Find(u, p.id)
    BY <1>1, <2>3, <2>5 DEF Checked
  <2>7. /\ Sound(v, o, m, d) /\ (Production /\ Single(u) => Single(v))
        /\ Exited(u, v, p.id) /\ (Has(v, p.id) => ~StopHit(Find(v, p.id), b))
    BY <2>4, <2>5, <2>6, ExitSound
  <2>8. Checked(s, v, i, b)
    <3>1. \A j : Has(v, j) => Has(s, j)
      BY <2>5, <2>7 DEF Checked, Exited
    <3>2. ASSUME NEW j \in DOMAIN s.positions
          PROVE  LET q == s.positions[j]
                 IN  IF j > i THEN Has(v, q.id) /\ Find(v, q.id) = q
                     ELSE Has(v, q.id) => ~StopHit(Find(v, q.id), b)
      <4>1. PICK q : q = s.positions[j]
        OBVIOUS
      <4>2. j # i => q.id # p.id
        BY <1>1, <2>3, <4>1 DEF Distinct
      <4>3. CASE j > i
        <5>1. j > i - 1 /\ j # i
          BY <1>1, <4>3
        <5>2. Has(u, q.id) /\ Find(u, q.id) = q
          BY <2>5, <4>1, <5>1 DEF Checked
        <5>. QED
          BY <2>7, <4>1, <4>2, <4>3, <5>1, <5>2 DEF Exited, OthersKept
      <4>4. CASE j = i
        BY <1>1, <2>3, <2>7, <4>1, <4>4
      <4>5. CASE j < i
        <5>1. ~(j > i - 1) /\ ~(j > i) /\ j # i
          BY <1>1, <4>5
        <5>2. Has(u, q.id) => ~StopHit(Find(u, q.id), b)
          BY <2>5, <4>1, <5>1 DEF Checked
        <5>3. Has(v, q.id) => Has(u, q.id) /\ Find(v, q.id) = Find(u, q.id)
          BY <2>7, <4>2, <5>1 DEF Exited, OthersKept
        <5>. QED
          BY <4>1, <5>1, <5>2, <5>3
      <4>. QED
        BY <1>1, <4>3, <4>4, <4>5
    <3>. QED
      BY <3>1, <3>2 DEF Checked
  <2>. QED
    BY <1>1, <2>3, <2>5, <2>7, <2>8
<1>6. 0..n \subseteq T
  <2>. HIDE DEF T
  <2>. QED
    BY <1>1, <1>4, <1>5, UpTo
<1>7. Good(r) /\ Checked(s, r, n, b)
  BY <1>1, <1>3, <1>6
<1>8. ASSUME NEW i \in DOMAIN r.positions
      PROVE  ~StopHit(r.positions[i], b)
  <2>1. PICK q : q = r.positions[i]
    OBVIOUS
  <2>2. Distinct(r.positions)
    BY <1>7 DEF Sound, Listed
  <2>3. Has(r, q.id) /\ Find(r, q.id) = q
    BY <2>1, <2>2, FoundAt
  <2>4. Has(s, q.id)
    BY <1>7, <2>3 DEF Checked
  <2>5. PICK j \in DOMAIN s.positions : s.positions[j].id = q.id
    BY <2>4 DEF Has
  <2>6. ~(j > n)
    BY <1>1
  <2>7. Has(r, q.id) => ~StopHit(Find(r, q.id), b)
    BY <1>7, <2>5, <2>6 DEF Checked
  <2>. QED
    BY <2>1, <2>3, <2>7
<1>. QED
  BY <1>7, <1>8

\* Closing what is left at the end of a window keeps the books.
LEMMA RestClosed ==
  ASSUME NEW s, NEW o, NEW m, NEW d, Sound(s, o, m, d), NEW b \in Bars, clock \in Nat,
         NEW r, r = CloseRest(s, b)
  PROVE  /\ Sound(r, o, m, d)
         /\ Production /\ Single(s) => Single(r)
<1> DEFINE after == AfterCloses(s, b)
           n == Len(s.positions)
           Good(u) == Sound(u, o, m, d) /\ (Production /\ Single(s) => Single(u))
           T == {i \in 0..n : Good(after[i])}
<1>1. s.positions \in Seq(PositionState) /\ n \in Nat
  BY DEF Sound, Sims
<1>2. /\ after[0] = s
      /\ \A i \in 1..n : after[i] = Close(after[i - 1], s.positions[i].id, b.close, "end_of_data")
  BY <1>1, ClosesInTurn
<1>3. r = after[n]
  BY DEF CloseRest
<1>. HIDE DEF after, n
<1>4. 0 \in T
  BY <1>1, <1>2
<1>5. \A i \in 1..n : i - 1 \in T => i \in T
  <2>1. TAKE i \in 1..n
  <2>2. HAVE i - 1 \in T
  <2>3. PICK u, v, id, price :
          u = after[i - 1] /\ v = after[i] /\ id = s.positions[i].id /\ price = b.close
    OBVIOUS
  <2>4. v = Close(u, id, price, "end_of_data")
    BY <1>2, <2>3
  <2>5. price \in Int
    BY <2>3 DEF Bars, Prices
  <2>6. "end_of_data" \in Whys
    BY DEF Whys
  <2>7. Good(u)
    BY <2>2, <2>3
  <2>8. Good(v)
    BY <2>4, <2>5, <2>6, <2>7, ClosedSound
  <2>. QED
    BY <1>1, <2>3, <2>8
<1>6. 0..n \subseteq T
  <2>. HIDE DEF T
  <2>. QED
    BY <1>1, <1>4, <1>5, UpTo
<1>. QED
  BY <1>1, <1>3, <1>6

-----------------------------------------------------------------------------
(* The shared clock moves on.                                              *)

Synced(s, k, w, t) ==
  [s EXCEPT !.kernel = k, !.twin = w,
            !.today = IF s.day = t \div Day THEN s.today ELSE 0, !.day = t \div Day]

\* What moving the clock changes in adapter and kernels.
LEMMA SetClock ==
  ASSUME NEW s \in Sims, NEW k \in Prod!KernelState, NEW w \in Prod!KernelState,
         NEW i \in Int, NEW n \in Nat
  PROVE  [s EXCEPT !.kernel = k, !.twin = w, !.today = i, !.day = n] \in Sims
  BY DEF Sims

\* Kernels whose periods begin again keep the account they belong to.
LEMMA SyncedSound ==
  ASSUME NEW s, NEW o, NEW m, NEW d, Sound(s, o, m, d), NEW t \in Nat,
         NEW k \in Prod!KernelState, NEW w \in Prod!KernelState,
         k.current = s.kernel.current, k.starting = s.kernel.starting,
         k.total = s.kernel.total, s.kernel = s.twin => k = w,
         NEW r, r = Synced(s, k, w, t)
  PROVE  /\ Sound(r, Offsets(r), k.dailyReset, t \div Day)
         /\ r.today = IF s.day = t \div Day THEN s.today ELSE 0
         /\ r.kernel = k /\ r.positions = s.positions
         /\ Single(s) => Single(r)
<1>1. t \div Day \in Nat
  BY Days
<1>2. s \in Sims /\ s.today \in Int
  BY DEF Sound, Sims
<1>3. PICK i, n : i = (IF s.day = t \div Day THEN s.today ELSE 0) /\ n = t \div Day
  OBVIOUS
<1>4. i \in Int /\ n \in Nat
  BY <1>1, <1>2, <1>3
<1>5. r = [s EXCEPT !.kernel = k, !.twin = w, !.today = i, !.day = n]
  BY <1>3 DEF Synced
<1>6. r \in Sims
  <2>1. k \in Prod!KernelState /\ w \in Prod!KernelState
    OBVIOUS
  <2>2. [s EXCEPT !.kernel = k, !.twin = w, !.today = i, !.day = n] \in Sims
    BY <1>2, <1>4, <2>1, SetClock, Zenon
  <2>. QED
    BY <1>5, <2>2
<1>7. /\ r.equity = s.equity /\ r.positions = s.positions /\ r.trades = s.trades
      /\ r.tier = s.tier /\ r.kernel = k /\ r.twin = w /\ r.low = s.low
      /\ r.cash = s.cash /\ r.fees = s.fees /\ r.today = i /\ r.day = n
  BY <1>2, <1>5 DEF Sims
<1>8. Listed(r)
  BY <1>7 DEF Sound, Listed
<1>9. Kernels(r)
  BY <1>7 DEF Sound, Kernels
<1>10. Kept(r, Offsets(r), k.dailyReset, t \div Day)
  BY <1>3, <1>7 DEF Kept
<1>11. Ledger(r)
  BY <1>7 DEF Sound, Ledger
<1>12. Single(s) => Single(r)
  BY <1>7 DEF Single
<1>. QED
  BY <1>3, <1>6, <1>7, <1>8, <1>9, <1>10, <1>11, <1>12 DEF Sound

\* A window begins with books that balance and nothing open.
LEMMA NewSimSound ==
  ASSUME NEW t \in Nat
  PROVE  /\ Sound(NewSim(t), <<0, 0>>, Day * (t \div Day) + Day, t \div Day)
         /\ Single(NewSim(t))
<1>1. PICK s, k : s = NewSim(t) /\ k = NewKernel(t)
  OBVIOUS
<1>2. /\ s = [equity |-> Capital, positions |-> <<>>, trades |-> <<>>, tier |-> 0,
              kernel |-> k, twin |-> k, low |-> Capital,
              cash |-> 0, fees |-> 0, today |-> 0, day |-> t \div Day]
      /\ k \in Prod!KernelState
  BY <1>1, SameNewKernel DEF NewSim
<1>3. /\ k.current = Capital /\ k.starting = Capital /\ k.total = 0 /\ k.daily = 0
      /\ k.dailyReset = NextUtcMidnight(t)
  BY <1>1 DEF NewKernel
<1>4. Capital \in Nat \ {0} /\ Day \in Nat \ {0}
  BY KernelAssumption
<1>5. NextUtcMidnight(t) = Day * (t \div Day) + Day /\ t \div Day \in Nat
  BY Days DEF NextUtcMidnight
<1>6. <<>> \in Seq(PositionState) /\ <<>> \in Seq(TradeState)
  OBVIOUS
<1>7. s \in Sims
  BY <1>2, <1>4, <1>5, <1>6 DEF Sims
<1>8. Listed(s) /\ Single(s)
  BY <1>2 DEF Listed, Distinct, Single
<1>9. Kernels(s)
  BY <1>2, <1>3, <1>4 DEF Kernels
<1>10. Kept(s, <<0, 0>>, Day * (t \div Day) + Day, t \div Day)
  BY <1>2, <1>3, <1>5 DEF Kept, Offsets
<1>11. Ledger(s)
  <2>1. AtCosts(<<>>) = <<>> /\ Earned(<<>>) = <<>> /\ Charged(<<>>) = <<>>
    BY DEF AtCosts, Earned, Charged
  <2>2. /\ Sum(AtCosts(s.positions)) = 0 /\ Sum(Earned(s.positions)) = 0
        /\ Sum(Charged(s.trades)) = 0
    BY <1>2, <2>1, SumEmpty
  <2>3. s.equity = Capital /\ s.cash = 0 /\ s.fees = 0 /\ s.kernel.current = Capital
    BY <1>2, <1>3
  <2>. QED
    BY <1>4, <2>2, <2>3 DEF Ledger
<1>. QED
  BY <1>1, <1>7, <1>8, <1>9, <1>10, <1>11 DEF Sound

-----------------------------------------------------------------------------
(* Bars and windows.                                                       *)

\* There is a first bar, and a first one among those of a window not yet read.
LEMMA BarsOrdered ==
  /\ FirstBar \in Nat
  /\ Remaining # {} =>
       (CHOOSE s \in Remaining : \A r \in Remaining : s <= r) \in Remaining
<1>1. ASSUME NEW T, T \subseteq Nat, T # {}
      PROVE  (CHOOSE s \in T : \A r \in T : s <= r) \in T
  <2>1. PICK x \in T : \A y \in T : ~(y < x)
    BY <1>1, LeastNumber
  <2>2. \A y \in T : x <= y
    BY <1>1, <2>1
  <2>. QED
    BY <2>1, <2>2
<1>2. Stamps \subseteq Nat /\ Stamps # {}
  BY WalkAssumption
<1>3. FirstBar \in Stamps
  BY <1>1, <1>2 DEF FirstBar
<1>4. Remaining \subseteq Nat
  BY <1>2 DEF Remaining, TestBars, Slice
<1>. QED
  BY <1>1, <1>2, <1>3, <1>4

\* The bar read next is the first of the window's bars not yet read.
LEMMA BarRead ==
  ASSUME NEW shape \in Shapes, Remaining # {}, NEW b,
         b = [shape EXCEPT !.stamp = CHOOSE s \in Remaining : \A r \in Remaining : s <= r]
  PROVE  b \in Bars /\ b.stamp \in TestBars /\ b.stamp \in Stamps /\ b.stamp > bar.stamp
<1>1. PICK t : t = CHOOSE s \in Remaining : \A r \in Remaining : s <= r
  OBVIOUS
<1>2. t \in Remaining
  BY <1>1, BarsOrdered
<1>3. t \in TestBars /\ t \in Stamps /\ t \in Nat /\ t > bar.stamp
  BY <1>2, WalkAssumption DEF Remaining, TestBars, Slice
<1>4. shape \in Bars
  BY MarketAssumption
<1>5. b = [shape EXCEPT !.stamp = t]
  BY <1>1
<1>. QED
  BY <1>3, <1>4, <1>5 DEF Bars

\* An hour is named by its end: none of its bars closes after it.
LEMMA HourEnds ==
  ASSUME NEW t \in Nat
  PROVE  HourEnd(t) \in Int /\ HourEnd(t) >= t
<1>1. Hour \in Nat \ {0} /\ t + Hour - 1 \in Nat
  BY ProviderAssumption
<1>2. PICK u, q, m : u = t + Hour - 1 /\ q = u \div Hour /\ m = u % Hour
  OBVIOUS
<1>3. u \in Nat /\ q \in Int /\ m \in Int /\ m <= Hour - 1 /\ u = Hour * q + m
  BY <1>1, <1>2
<1>4. HourEnd(t) = q * Hour
  BY <1>2 DEF HourEnd
<1>5. q * Hour = Hour * q /\ Hour * q \in Int
  BY <1>1, <1>3
<1>. QED
  BY <1>1, <1>2, <1>3, <1>4, <1>5

\* Everything a snapshot rests on closed before the bar it is taken at.
LEMMA SnapshotIsPast ==
  ASSUME NEW t \in Nat, NEW bars \in SUBSET Nat
  PROVE  \A b \in Informing(bars, t) : b < t
<1>1. TAKE b \in Informing(bars, t)
<1>2. CASE b \in Before(bars, t)
  BY <1>2 DEF Before
<1>3. CASE \E h \in HoursBefore(bars, t) : b \in Members(bars, h)
  <2>1. PICK h \in HoursBefore(bars, t) : b \in Members(bars, h)
    BY <1>3
  <2>2. h < t /\ b \in Nat /\ HourEnd(b) = h
    BY <2>1 DEF HoursBefore, Before, Members
  <2>3. h \in Int /\ h >= b
    BY <2>2, HourEnds
  <2>. QED
    BY <2>2, <2>3
<1>. QED
  BY <1>1, <1>2, <1>3 DEF Informing

\* With a step of at least a test span, a window's test bars come after those of
\* every earlier window, and after its own training bars.
LEMMA WindowsApart ==
  ASSUME window \in Nat, NEW t \in TestBars
  PROVE  /\ \A s \in TrainBars : s < t
         /\ Step >= TestSpan =>
              \A n \in 0..(window - 1) : t \notin Slice(TestStart(n), TestEnd(n))
<1>1. /\ Step \in Nat /\ TestSpan \in Nat /\ TrainSpan \in Nat /\ FirstBar \in Nat
      /\ Stamps \subseteq Nat
  BY WalkAssumption, BarsOrdered
<1>2. t \in Nat /\ TestStart(window) <= t
  BY <1>1 DEF TestBars, Slice
<1>3. \A n \in Nat : n * Step \in Nat
  BY <1>1
<1>4. \A n \in Nat : TestStart(n) \in Nat
  BY <1>1, <1>3 DEF TestStart
<1>5. \A s \in TrainBars : s < t
  BY <1>1, <1>2, <1>4 DEF TrainBars, Slice
<1>6. ASSUME Step >= TestSpan, NEW n \in 0..(window - 1)
      PROVE  t \notin Slice(TestStart(n), TestEnd(n))
  <2>1. PICK c : c = window - n - 1
    OBVIOUS
  <2>2. c \in Nat /\ n \in Nat /\ window = n + 1 + c
    BY <1>6, <2>1
  <2>3. \A a, e, f \in Nat : (a + 1 + e) * f = a * f + f + e * f
    OBVIOUS
  <2>4. window * Step = n * Step + Step + c * Step
    BY <1>1, <2>2, <2>3
  <2>5. PICK x, y, z : x = window * Step /\ y = n * Step /\ z = c * Step
    OBVIOUS
  <2>6. x \in Nat /\ y \in Nat /\ z \in Nat /\ x = y + Step + z
    BY <1>3, <2>2, <2>4, <2>5
  <2>7. TestStart(window) = FirstBar + x + TrainSpan /\ TestEnd(n) = FirstBar + y + TrainSpan + TestSpan
    BY <2>5 DEF TestStart, TestEnd
  <2>8. TestEnd(n) <= TestStart(window)
    BY <1>1, <1>6, <2>6, <2>7
  <2>9. TestEnd(n) \in Nat /\ TestStart(window) \in Nat
    BY <1>1, <2>6, <2>7
  <2>. QED
    BY <1>2, <2>8, <2>9 DEF Slice
<1>. QED
  BY <1>5, <1>6

-----------------------------------------------------------------------------
(* Signals, grants and the actions made of them.                           *)

\* Both kernels grant a request the same size while there is equity.
LEMMA SameGrant ==
  ASSUME NEW k \in Prod!KernelState, k.current > 0, NEW usd \in Nat, NEW equity \in Int
  PROVE  Granted(k, usd, StopPct, 0, equity) = Prod!Verdict(k, Request(usd)).size
<1>1. PICK c, stop, r : c = k.current /\ stop = StopPct /\ r = Request(usd)
  OBVIOUS
<1>2. c \in Int /\ c > 0 /\ stop \in {2, 5}
  BY <1>1 DEF Prod!KernelState, StopPct
<1>3. /\ r.size = usd /\ r.stopLoss = stop /\ r.confident = TRUE /\ r.leverage = 0
      /\ Prod!RiskBps(r.stress) = 100
  BY <1>1 DEF Request, Prod!RiskBps
<1>4. (c * 100) \div (100 * stop) = c \div stop /\ c \div stop \in Int /\ c \div 4 \in Int
  <2>1. CASE stop = 2
    BY <1>2, <2>1
  <2>2. CASE stop = 5
    BY <1>2, <2>2
  <2>. QED
    BY <1>2, <2>1, <2>2
<1>5. PICK size : size = Sized(k, usd, stop)
  OBVIOUS
<1>6. Prod!SizeFor(k, r) = size
  BY <1>1, <1>2, <1>3, <1>4, <1>5 DEF Prod!SizeFor, Prod!Least, Sized, Smaller
<1>7. size \in Int /\ size <= c \div 4
  BY <1>1, <1>2, <1>4, <1>5 DEF Sized, Smaller
<1>8. size <= 3 * c
  BY <1>2, <1>7
<1>9. Prod!OverLeveraged(k, r) = FALSE
  BY <1>1, <1>2, <1>3, <1>6, <1>7, <1>8 DEF Prod!OverLeveraged
<1>10. Prod!WellFormed(r) <=> usd > 0
  BY <1>2, <1>3 DEF Prod!WellFormed
<1>11. CASE equity > 0
  <2>1. \A x, y \in Int : x <= y => x * equity <= y * equity
    BY <1>11
  <2>2. size * equity <= 3 * c * equity
    BY <1>2, <1>7, <1>8, <2>1
  <2>3. 0 * c = 0 /\ size * equity \in Int /\ 3 * c * equity \in Int
    BY <1>2, <1>7
  <2>4. ~(0 * c + size * equity > 3 * c * equity)
    BY <2>2, <2>3
  <2>5. Granted(k, usd, stop, 0, equity) = IF k.halted \/ usd <= 0 \/ size < 10 THEN 0 ELSE size
    BY <1>1, <1>5, <1>11, <2>4 DEF Granted
  <2>. QED
    BY <1>1, <1>3, <1>6, <1>7, <1>9, <1>10, <2>5 DEF Prod!Verdict, Prod!Answer, Prod!MinOrder
<1>12. CASE ~(equity > 0)
  <2>1. 3 * c * 1 = 3 * c /\ ~(size > 3 * c)
    BY <1>2, <1>7, <1>8
  <2>2. Granted(k, usd, stop, 0, equity) = IF k.halted \/ usd <= 0 \/ size < 10 THEN 0 ELSE size
    BY <1>1, <1>5, <1>12, <2>1 DEF Granted
  <2>. QED
    BY <1>1, <1>3, <1>6, <1>7, <1>9, <1>10, <2>2 DEF Prod!Verdict, Prod!Answer, Prod!MinOrder
<1>. QED
  BY <1>11, <1>12

\* A grant comes from a kernel that is not halted and is a quarter of its equity at
\* most, whatever the leverage.
LEMMA GrantBounded ==
  ASSUME NEW k \in Prod!KernelState, NEW usd \in Int, NEW n, NEW e, NEW g,
         g = Granted(k, usd, StopPct, n, e)
  PROVE  g \in Int /\ (g # 0 => ~k.halted /\ 4 * g <= k.current)
<1>1. PICK c, stop, size : c = k.current /\ stop = StopPct /\ size = Sized(k, usd, stop)
  OBVIOUS
<1>2. c \in Int /\ stop \in {2, 5}
  BY <1>1 DEF Prod!KernelState, StopPct
<1>3. c \div stop \in Int /\ c \div 4 \in Int
  <2>1. CASE stop = 2
    BY <1>2, <2>1
  <2>2. CASE stop = 5
    BY <1>2, <2>2
  <2>. QED
    BY <1>2, <2>1, <2>2
<1>4. size \in Int /\ size <= c \div 4
  BY <1>1, <1>3 DEF Sized, Smaller
<1>5. 4 * size <= c
  BY <1>2, <1>4
<1>6. g = 0 \/ (g = size /\ ~k.halted)
  BY <1>1 DEF Granted
<1>. QED
  BY <1>1, <1>4, <1>5, <1>6

\* A signal becomes one action at most; it fills new quantity only if it is an entry,
\* and opens a position only if it is a first entry or there is none.
LEMMA ConvertedTyped ==
  ASSUME sim.positions \in Seq(PositionState), bar \in Bars, NEW type, NEW usd \in Int,
         NEW c, c = Converted(type, usd)
  PROVE  /\ c \in Seq(Actions) /\ Len(c) <= 1
         /\ \A i \in DOMAIN c : c[i].what \in {"open", "scale"} =>
              type \in Entries /\ c[i].qty = usd \div bar.close
         /\ \A i \in DOMAIN c : c[i].what = "open" =>
              type \in {"enter_long", "enter_short"} \/ sim.positions = <<>>
<1>1. PICK qty, held : qty = usd \div bar.close /\ held = Head(sim.positions)
  OBVIOUS
<1>2. qty \in Int
  <2>1. bar.close \in Nat \ {0}
    BY DEF Bars, Prices
  <2>. QED
    BY <1>1, <2>1
<1>3. sim.positions # <<>> => held \in PositionState /\ held.id \in Nat /\ held.size \in Int
  <2>1. ASSUME sim.positions # <<>>
        PROVE  held \in PositionState
    <3>1. PICK list : list = sim.positions
      OBVIOUS
    <3>2. list \in Seq(PositionState) /\ list # <<>> /\ held = Head(list)
      BY <1>1, <2>1, <3>1
    <3>. QED
      BY <3>2
  <2>2. \A p \in PositionState : p.id \in Nat /\ p.size \in Int
    BY DEF PositionState
  <2>. QED
    BY <2>1, <2>2
<1>4. ASSUME NEW side \in Sides, NEW a, a = OpenAction(side, qty, 0, <<>>)
      PROVE  a \in Actions /\ a.what = "open" /\ a.qty = qty
  <2>1. a = [what |-> "open", id |-> 0, side |-> side, qty |-> qty, stop |-> 0,
             targets |-> <<>>]
    BY <1>4 DEF OpenAction, NoAction
  <2>2. <<>> \in Seq(Levels) /\ 0 \in Nat /\ side \in Sides
    OBVIOUS
  <2>. QED
    BY <1>2, <2>1, <2>2 DEF Actions
<1>5. ASSUME NEW what \in {"scale", "reduce", "close"}, NEW n \in Int, NEW a,
             sim.positions # <<>>, a = OnPosition(what, held.id, n)
      PROVE  a \in Actions /\ a.what = what /\ a.qty = n
  <2>1. a = [what |-> what, id |-> held.id, side |-> "LONG", qty |-> n, stop |-> 0,
             targets |-> <<>>]
    BY <1>5 DEF OnPosition, NoAction
  <2>2. <<>> \in Seq(Levels) /\ 0 \in Nat /\ held.id \in Nat
    BY <1>3, <1>5
  <2>3. "LONG" \in Sides
    BY DEF Sides
  <2>. QED
    BY <2>1, <2>2, <2>3 DEF Actions
<1>6. PICK long, short, scale, reduce, close :
        /\ long = OpenAction("LONG", qty, 0, <<>>) /\ short = OpenAction("SHORT", qty, 0, <<>>)
        /\ scale = OnPosition("scale", held.id, qty)
        /\ reduce = OnPosition("reduce", held.id, Smaller(qty, held.size))
        /\ close = OnPosition("close", held.id, 0)
  OBVIOUS
<1>7. /\ long \in Actions /\ long.what = "open" /\ long.qty = qty
      /\ short \in Actions /\ short.what = "open" /\ short.qty = qty
  BY <1>4, <1>6 DEF Sides
<1>8. sim.positions # <<>> =>
        /\ scale \in Actions /\ scale.what = "scale" /\ scale.qty = qty
        /\ reduce \in Actions /\ reduce.what = "reduce"
        /\ close \in Actions /\ close.what = "close"
  <2>. SUFFICES ASSUME sim.positions # <<>>
                PROVE  /\ scale \in Actions /\ scale.what = "scale" /\ scale.qty = qty
                       /\ reduce \in Actions /\ reduce.what = "reduce"
                       /\ close \in Actions /\ close.what = "close"
    OBVIOUS
  <2>1. Smaller(qty, held.size) \in Int /\ 0 \in Int
    BY <1>2, <1>3 DEF Smaller
  <2>. QED
    BY <1>2, <1>5, <1>6, <2>1
<1>9. \/ c = <<>>
      \/ c = <<long>> /\ (type = "enter_long" \/ (type = "scale_in" /\ sim.positions = <<>>))
      \/ c = <<short>> /\ type = "enter_short"
      \/ c = <<scale>> /\ type = "scale_in" /\ sim.positions # <<>>
      \/ c = <<reduce>> /\ sim.positions # <<>>
      \/ c = <<close>> /\ sim.positions # <<>>
  BY <1>1, <1>6 DEF Converted
<1>10. CASE c = <<>>
  BY <1>10
<1>11. ASSUME NEW a \in Actions, c = <<a>>,
              a.what \in {"open", "scale"} => type \in Entries /\ a.qty = qty,
              a.what = "open" => type \in {"enter_long", "enter_short"} \/ sim.positions = <<>>
       PROVE  /\ c \in Seq(Actions) /\ Len(c) <= 1
              /\ \A i \in DOMAIN c : c[i].what \in {"open", "scale"} =>
                   type \in Entries /\ c[i].qty = usd \div bar.close
              /\ \A i \in DOMAIN c : c[i].what = "open" =>
                   type \in {"enter_long", "enter_short"} \/ sim.positions = <<>>
  <2>1. c \in Seq(Actions) /\ Len(c) = 1 /\ DOMAIN c = {1} /\ c[1] = a
    BY <1>11
  <2>. QED
    BY <1>1, <1>11, <2>1
<1>12. CASE c = <<long>> /\ (type = "enter_long" \/ (type = "scale_in" /\ sim.positions = <<>>))
  BY <1>7, <1>11, <1>12 DEF Entries
<1>13. CASE c = <<short>> /\ type = "enter_short"
  BY <1>7, <1>11, <1>13 DEF Entries
<1>14. CASE c = <<scale>> /\ type = "scale_in" /\ sim.positions # <<>>
  BY <1>8, <1>11, <1>14 DEF Entries
<1>15. CASE c = <<reduce>> /\ sim.positions # <<>>
  BY <1>8, <1>11, <1>15
<1>16. CASE c = <<close>> /\ sim.positions # <<>>
  BY <1>8, <1>11, <1>16
<1>. QED
  BY <1>9, <1>10, <1>12, <1>13, <1>14, <1>15, <1>16

\* What the two packaged strategies may answer: a first entry only at tier 0.
StrategySignal(signal) ==
  /\ signal.type \in Types /\ signal.usd \in Int
  /\ signal.type \in {"enter_long", "enter_short"} => sim.tier = 0

\* Both packaged strategies answer such signals.
LEMMA StrategySignals ==
  ASSUME sim \in Sims, bar \in Bars
  PROVE  /\ \A rsi \in -1..3 : StrategySignal(MeanReversionSignal(rsi))
         /\ \A boost \in BOOLEAN : StrategySignal(DcaSignal(boost))
<1>1. \A pct \in Int : Percent(pct) \in Int
  <2>1. sim.kernel.current \in Int
    BY DEF Sims, Prod!KernelState
  <2>. QED
    BY <2>1 DEF Percent
<1>2. ASSUME NEW type \in Types, NEW usd \in Int, NEW signal, signal = Signal(type, usd),
             type \in {"enter_long", "enter_short"} => sim.tier = 0
      PROVE  StrategySignal(signal)
  BY <1>2 DEF StrategySignal, Signal
<1>3. StrategySignal(Hold)
  BY <1>2 DEF Hold, Types
<1>4. ASSUME NEW rsi \in -1..3
      PROVE  StrategySignal(MeanReversionSignal(rsi))
  <2>1. \/ MeanReversionSignal(rsi) = Signal("enter_long", Percent(10)) /\ sim.tier = 0
        \/ MeanReversionSignal(rsi) = Signal("scale_in", Percent(15))
        \/ MeanReversionSignal(rsi) = Signal("scale_in", Percent(20))
        \/ MeanReversionSignal(rsi) = Signal("enter_short", Percent(10)) /\ sim.tier = 0
        \/ MeanReversionSignal(rsi) = Hold
    BY DEF MeanReversionSignal
  <2>2. {"enter_long", "enter_short", "scale_in"} \subseteq Types
    BY DEF Types
  <2>3. Percent(10) \in Int /\ Percent(15) \in Int /\ Percent(20) \in Int
    BY <1>1
  <2>. QED
    BY <1>2, <1>3, <2>1, <2>2, <2>3
<1>5. ASSUME NEW boost \in BOOLEAN
      PROVE  StrategySignal(DcaSignal(boost))
  <2>1. \/ DcaSignal(boost) = Signal("scale_in", Percent(40))
        \/ DcaSignal(boost) = Signal("scale_in", Percent(25))
        \/ DcaSignal(boost) = Signal("enter_long", Percent(15)) /\ sim.tier = 0
        \/ DcaSignal(boost) = Hold
    BY DEF DcaSignal
  <2>2. {"enter_long", "enter_short", "scale_in"} \subseteq Types
    BY DEF Types
  <2>3. Percent(40) \in Int /\ Percent(15) \in Int /\ Percent(25) \in Int
    BY <1>1
  <2>. QED
    BY <1>2, <1>3, <2>1, <2>2, <2>3
<1>. QED
  BY <1>4, <1>5

\* The actions a hook lets pass are actions of the list.
LEMMA VettedTyped ==
  ASSUME NEW list \in Seq(Actions), NEW vetoed
  PROVE  Vetted(list, vetoed) \in Seq(Actions)
<1> DEFINE passed == Passed(list, vetoed)
           T == {i \in 0..Len(list) : passed[i] \in Seq(Actions)}
<1>1. /\ passed[0] = <<>>
      /\ \A i \in 1..Len(list) :
           passed[i] = (IF i \in vetoed THEN passed[i - 1] ELSE Append(passed[i - 1], list[i]))
  BY PassedInTurn
<1>2. Len(list) \in Nat /\ \A i \in 1..Len(list) : list[i] \in Actions
  OBVIOUS
<1>. HIDE DEF passed
<1>3. 0 \in T
  <2>1. passed[0] \in Seq(Actions)
    BY <1>1
  <2>. QED
    BY <1>2, <2>1
<1>4. \A i \in 1..Len(list) : i - 1 \in T => i \in T
  <2>1. TAKE i \in 1..Len(list)
  <2>2. HAVE i - 1 \in T
  <2>3. PICK u, v : u = passed[i - 1] /\ v = passed[i]
    OBVIOUS
  <2>4. u \in Seq(Actions) /\ list[i] \in Actions
    BY <1>2, <2>2, <2>3
  <2>5. v = u \/ v = Append(u, list[i])
    <3>1. v = IF i \in vetoed THEN u ELSE Append(u, list[i])
      BY <1>1, <2>3
    <3>. QED
      BY <3>1
  <2>6. v \in Seq(Actions)
    BY <2>4, <2>5
  <2>. QED
    BY <1>2, <2>3, <2>6
<1>5. 0..Len(list) \subseteq T
  <2>. HIDE DEF T
  <2>. QED
    BY <1>2, <1>3, <1>4, UpTo
<1>. QED
  BY <1>2, <1>5 DEF Vetted, passed

-----------------------------------------------------------------------------
(* The inductive invariant.                                                *)

Packaged == kind \in {"mean_reversion", "dca_dips"}

Typed ==
  /\ kind \in Kinds /\ window \in Nat /\ clock \in Nat
  /\ phase \in {"idle", "replay", "evaluate", "report"}
  /\ bar = NoBar \/ (bar \in Bars /\ bar.stamp \in Stamps)
  /\ pending \in Seq(Actions)
  /\ results \in Seq({"failed", "profit", "loss", "even"}) /\ Len(results) = window

\* A bar being evaluated is one of the window's, and what was pending is filled.
Reading ==
  phase = "evaluate" => bar \in Bars /\ bar.stamp \in TestBars /\ pending = <<>>

\* The simulation's books balance, the kernels' among them.
Balanced == \E s, o, m, d : s = sim /\ Sound(s, o, m, d)

\* A packaged strategy waits for one action at most, and for an opening only while
\* there is no position.
OneAtATime ==
  Packaged =>
    /\ \E s : s = sim /\ Single(s)
    /\ phase = "replay" =>
         /\ Len(pending) <= 1
         /\ \A i \in DOMAIN pending : pending[i].what = "open" => sim.positions = <<>>

Trading == Typed /\ Reading /\ Balanced /\ OneAtATime

\* The adapter of a run does not change, so what holds of a simulation still does.
LEMMA SoundNext ==
  ASSUME kind' = kind, NEW s, NEW o, NEW m, NEW d, Sound(s, o, m, d)
  PROVE  Sound(s, o, m, d)'
  BY DEF Sound, Ledger, Production

\* The same for a packaged strategy's single position.
LEMMA SingleNext ==
  ASSUME NEW s, Single(s)
  PROVE  Single(s)'
  BY DEF Single

-----------------------------------------------------------------------------
(* The steps.                                                              *)

\* Steps 1 and 2 of the engine's loop keep the books and honour the stops.
LEMMA BarFilled ==
  ASSUME Typed, NEW o, NEW m, NEW d, Sound(sim, o, m, d), NEW shape \in Shapes, NextBar(shape)
  PROVE  /\ bar' \in Bars /\ bar'.stamp \in TestBars /\ bar'.stamp \in Stamps
         /\ bar'.stamp > bar.stamp
         /\ Sound(sim', o, m, d)
         /\ \A i \in DOMAIN sim'.positions : ~StopHit(sim'.positions[i], bar')
         /\ Production /\ Single(sim) /\ Len(pending) <= 1
              /\ (\A i \in DOMAIN pending : pending[i].what = "open" => sim.positions = <<>>)
              => Single(sim')
<1>1. PICK b, c, s, r, u :
          b = bar' /\ c = pending /\ s = sim /\ u = sim' /\ r = ExecutePending(s, b)
  OBVIOUS
<1>2. b \in Bars /\ b.stamp \in TestBars /\ b.stamp \in Stamps /\ b.stamp > bar.stamp
  BY <1>1, BarRead DEF NextBar
<1>3. c \in Seq(Actions) /\ clock \in Nat
  BY <1>1 DEF Typed
<1>4. /\ Sound(r, o, m, d)
      /\ Production /\ Single(s) /\ Len(c) <= 1
           /\ (\A i \in DOMAIN c : c[i].what = "open" => s.positions = <<>>) => Single(r)
  BY <1>1, <1>2, <1>3, PendingFilled
<1>5. u = CheckExits(r, b)
  BY <1>1 DEF NextBar
<1>6. /\ Sound(u, o, m, d)
      /\ Production /\ Single(r) => Single(u)
      /\ \A i \in DOMAIN u.positions : ~StopHit(u.positions[i], b)
  BY <1>2, <1>3, <1>4, <1>5, ExitsChecked
<1>. QED
  BY <1>1, <1>2, <1>4, <1>6

\* Every evaluation moves the shared clock and begins the periods that are due.
LEMMA Evaluated ==
  ASSUME NEW o, NEW m, NEW d, Sound(sim, o, m, d), bar.stamp \in Nat,
         SyncClock \/ \E signal : SyncAndCheck(signal)
  PROVE  /\ clock' = bar.stamp
         /\ sim'.kernel \in Prod!KernelState
         /\ Sound(sim', Offsets(sim'), sim'.kernel.dailyReset, bar.stamp \div Day)
         /\ sim'.positions = sim.positions /\ (Single(sim) => Single(sim'))
         /\ sim'.today = IF d = bar.stamp \div Day THEN sim.today ELSE 0
         /\ sim'.kernel.total = sim.kernel.total
         /\ sim'.kernel.daily = IF bar.stamp >= m THEN 0 ELSE sim.kernel.daily
         /\ sim'.kernel.dailyReset = IF bar.stamp >= m THEN NextUtcMidnight(bar.stamp) ELSE m
<1>1. PICK s, t, k, w :
        s = sim /\ t = bar.stamp /\ k = ResetPeriods(s.kernel, t)
          /\ w = Prod!MaybeResetPeriods(s.twin, t)
  OBVIOUS
<1>2. /\ s.kernel \in Prod!KernelState /\ s.twin \in Prod!KernelState /\ t \in Nat
      /\ s \in Sims /\ s.kernel.dailyReset = m /\ s.day = d
  BY <1>1 DEF Sound, Sims, Kept
<1>3. /\ k \in Prod!KernelState /\ w \in Prod!KernelState
      /\ k.current = s.kernel.current /\ k.starting = s.kernel.starting
      /\ k.total = s.kernel.total /\ (s.kernel = s.twin => k = w)
      /\ k.daily = (IF t >= m THEN 0 ELSE s.kernel.daily)
      /\ k.dailyReset = (IF t >= m THEN NextUtcMidnight(t) ELSE m)
  BY <1>1, <1>2, SameReset
<1>4. PICK l, v : l = CheckActive(k, t) /\ v = Prod!CheckKillswitch(w, t)
  OBVIOUS
<1>5. /\ l \in Prod!KernelState /\ v \in Prod!KernelState
      /\ l.current = k.current /\ l.starting = k.starting /\ l.total = k.total
      /\ l.daily = k.daily /\ l.dailyReset = k.dailyReset /\ (k = w => l = v)
  BY <1>2, <1>3, <1>4, SameCheck
<1>6. clock' = bar.stamp
  BY DEF SyncClock, SyncAndCheck
<1>7. PICK r : r = sim'
  OBVIOUS
<1>8. r = Synced(s, k, w, t) \/ r = Synced(s, l, v, t)
  <2>1. CASE SyncClock
    BY <1>1, <1>7, <2>1 DEF SyncClock, Synced
  <2>2. ASSUME NEW signal, SyncAndCheck(signal)
        PROVE  r = Synced(s, k, w, t) \/ r = Synced(s, l, v, t)
    <3>1. CASE signal.type \in Entries
      BY <1>1, <1>4, <1>7, <2>2, <3>1 DEF SyncAndCheck, Synced
    <3>2. CASE signal.type \notin Entries
      BY <1>1, <1>7, <2>2, <3>2 DEF SyncAndCheck, Synced
    <3>. QED
      BY <3>1, <3>2
  <2>. QED
    BY <2>1, <2>2
<1>9. ASSUME NEW n \in Prod!KernelState, NEW e \in Prod!KernelState, r = Synced(s, n, e, t),
             n.current = s.kernel.current, n.starting = s.kernel.starting,
             n.total = s.kernel.total, s.kernel = s.twin => n = e,
             n.daily = k.daily, n.dailyReset = k.dailyReset
      PROVE  /\ r.kernel \in Prod!KernelState
             /\ Sound(r, Offsets(r), r.kernel.dailyReset, t \div Day)
             /\ r.positions = s.positions /\ (Single(s) => Single(r))
             /\ r.today = IF d = t \div Day THEN s.today ELSE 0
             /\ r.kernel.total = s.kernel.total
             /\ r.kernel.daily = k.daily /\ r.kernel.dailyReset = k.dailyReset
  <2>1. Sound(s, o, m, d)
    BY <1>1
  <2>2. /\ Sound(r, Offsets(r), n.dailyReset, t \div Day)
        /\ r.today = IF s.day = t \div Day THEN s.today ELSE 0
        /\ r.kernel = n /\ r.positions = s.positions
        /\ Single(s) => Single(r)
    BY <1>2, <1>9, <2>1, SyncedSound
  <2>. QED
    BY <1>2, <1>9, <2>2
<1>10. /\ r.kernel \in Prod!KernelState
       /\ Sound(r, Offsets(r), r.kernel.dailyReset, t \div Day)
       /\ r.positions = s.positions /\ (Single(s) => Single(r))
       /\ r.today = IF d = t \div Day THEN s.today ELSE 0
       /\ r.kernel.total = s.kernel.total
       /\ r.kernel.daily = k.daily /\ r.kernel.dailyReset = k.dailyReset
  <2>1. CASE r = Synced(s, k, w, t)
    BY <1>3, <1>9, <2>1
  <2>2. CASE r = Synced(s, l, v, t)
    BY <1>3, <1>5, <1>9, <2>2
  <2>. QED
    BY <1>8, <2>1, <2>2
<1>. QED
  BY <1>1, <1>3, <1>6, <1>7, <1>10

\* A signal the gates let through leaves at most one action, from an active kernel.
LEMMA SignalHeard ==
  ASSUME Typed, Reading, NEW o, NEW m, NEW d, Sound(sim, o, m, d), NEW signal,
         signal.type \in Types, signal.usd \in Int, EvaluateSignal(signal)
  PROVE  /\ pending' \in Seq(Actions) /\ Len(pending') <= 1
         /\ \A i \in DOMAIN pending' : pending'[i].what = "open" =>
              signal.type \in {"enter_long", "enter_short"} \/ sim.positions = <<>>
         /\ (\E i \in DOMAIN pending' : pending'[i].what \in {"open", "scale"}) =>
              /\ ~sim'.kernel.halted
              /\ \A i \in DOMAIN pending' : 4 * pending'[i].qty * bar.close <= sim'.kernel.current
<1>1. bar \in Bars /\ bar.stamp \in Nat /\ bar.close \in Nat \ {0}
  BY DEF Reading, EvaluateSignal, Bars, Prices
<1>2. SyncAndCheck(signal)
  BY DEF EvaluateSignal
<1>3. sim'.kernel \in Prod!KernelState
  BY <1>1, <1>2, Evaluated
<1>4. PICK k, usd, c, q :
        k = sim'.kernel /\ usd = Approved(k, signal) /\ q = pending'
          /\ c = Converted(signal.type, usd)
  OBVIOUS
<1>5. /\ usd \in Int
      /\ signal.type \in Entries /\ usd # 0 => ~k.halted /\ 4 * usd <= k.current
  <2>1. CASE signal.type \in Entries
    <3>1. PICK n, e, g, want :
              n = Notional /\ e = sim.equity /\ want = signal.usd /\ g = Granted(k, want, StopPct, n, e)
      OBVIOUS
    <3>2. usd = g
      BY <1>4, <2>1, <3>1 DEF Approved
    <3>3. g \in Int /\ (g # 0 => ~k.halted /\ 4 * g <= k.current)
      BY <1>3, <1>4, <3>1, GrantBounded
    <3>. QED
      BY <3>2, <3>3
  <2>2. CASE signal.type \notin Entries
    BY <1>4, <2>2 DEF Approved
  <2>. QED
    BY <2>1, <2>2
<1>6. q = IF signal.type \in Entries /\ usd = 0 THEN <<>> ELSE c
  BY <1>4 DEF EvaluateSignal
<1>7. sim.positions \in Seq(PositionState)
  BY DEF Sound, Sims
<1>8. /\ c \in Seq(Actions) /\ Len(c) <= 1
      /\ \A i \in DOMAIN c : c[i].what \in {"open", "scale"} =>
           signal.type \in Entries /\ c[i].qty = usd \div bar.close
      /\ \A i \in DOMAIN c : c[i].what = "open" =>
           signal.type \in {"enter_long", "enter_short"} \/ sim.positions = <<>>
  <2>1. PICK type : type = signal.type
    OBVIOUS
  <2>. QED
    BY <1>1, <1>4, <1>5, <1>7, <2>1, ConvertedTyped
<1>9. CASE q = <<>>
  BY <1>4, <1>9
<1>10. CASE q = c /\ ~(signal.type \in Entries /\ usd = 0)
  <2>1. ASSUME NEW i \in DOMAIN c, c[i].what \in {"open", "scale"}
        PROVE  ~k.halted /\ \A j \in DOMAIN c : 4 * c[j].qty * bar.close <= k.current
    <3>1. signal.type \in Entries /\ c[i].qty = usd \div bar.close
      BY <1>8, <2>1
    <3>2. ~k.halted /\ 4 * usd <= k.current
      BY <1>5, <1>10, <3>1
    <3>3. \A j \in DOMAIN c : j = i
      BY <1>8, <2>1
    <3>4. PICK a, b, n, e : a = usd \div bar.close /\ b = bar.close /\ n = usd % b /\ e = k.current
      OBVIOUS
    <3>5. a \in Int /\ b \in Nat \ {0} /\ n \in Nat /\ e \in Int /\ usd = b * a + n
      BY <1>1, <1>3, <1>4, <1>5, <3>4 DEF Prod!KernelState
    <3>6. 4 * a * b = 4 * (b * a) /\ b * a \in Int
      BY <3>5
    <3>7. 4 * a * b <= 4 * usd
      BY <1>5, <3>5, <3>6
    <3>8. 4 * a * b <= e
      BY <1>5, <3>2, <3>4, <3>5, <3>6, <3>7
    <3>. QED
      BY <3>1, <3>2, <3>3, <3>4, <3>8
  <2>. QED
    BY <1>4, <1>8, <1>10, <2>1
<1>. QED
  BY <1>6, <1>9, <1>10

\* Books that balance in the next state.
LEMMA BalancedNext ==
  ASSUME kind' = kind, NEW o, NEW m, NEW d, Sound(sim', o, m, d)
  PROVE  Balanced'
<1>1. PICK s : s = sim'
  OBVIOUS
<1>2. Sound(s, o, m, d)'
  BY <1>1, SoundNext
<1>. QED
  BY <1>1, <1>2 DEF Balanced

\* A packaged strategy's simulation after a step, with nothing it could open twice.
LEMMA OneNext ==
  ASSUME kind' = kind, Packaged => Single(sim'),
         Packaged /\ phase' = "replay" =>
           /\ Len(pending') <= 1
           /\ \A i \in DOMAIN pending' : pending'[i].what = "open" => sim'.positions = <<>>
  PROVE  OneAtATime'
<1>1. PICK s : s = sim'
  OBVIOUS
<1>2. Packaged => Single(s)'
  BY <1>1, SingleNext
<1>. QED
  BY <1>1, <1>2 DEF OneAtATime, Packaged


\* The invariant holds when the harness starts.
LEMMA TradingInit == Init => Trading
<1>. SUFFICES ASSUME Init
              PROVE  Trading
  OBVIOUS
<1>1. ClockStart \in Nat
  BY WalkAssumption
<1>2. Typed
  <2>1. <<>> \in Seq(Actions) /\ <<>> \in Seq({"failed", "profit", "loss", "even"}) /\ Len(<<>>) = 0
    OBVIOUS
  <2>. QED
    BY <1>1, <2>1 DEF Init, Typed
<1>3. Reading
  BY DEF Init, Reading
<1>4. PICK s : s = sim
  OBVIOUS
<1>5. Sound(s, <<0, 0>>, Day * (ClockStart \div Day) + Day, ClockStart \div Day) /\ Single(s)
  BY <1>1, <1>4, NewSimSound DEF Init
<1>6. Balanced /\ OneAtATime
  BY <1>4, <1>5 DEF Balanced, OneAtATime, Init
<1>. QED
  BY <1>2, <1>3, <1>6 DEF Trading

\* A window's fresh simulation keeps the invariant.
LEMMA StartWindowTrading ==
  ASSUME Trading, StartWindow
  PROVE  Trading'
<1>1. ClockStart \in Nat
  BY WalkAssumption
<1>2. Typed'
  <2>1. <<>> \in Seq(Actions)
    OBVIOUS
  <2>. QED
    BY <1>1, <2>1 DEF Trading, Typed, StartWindow
<1>3. Reading'
  BY DEF Reading, StartWindow
<1>4. /\ Sound(sim', <<0, 0>>, Day * (ClockStart \div Day) + Day, ClockStart \div Day)
      /\ Single(sim')
  BY <1>1, NewSimSound DEF StartWindow
<1>5. Balanced'
  BY <1>4, BalancedNext DEF StartWindow
<1>6. OneAtATime'
  <2>1. kind' = kind /\ Len(pending') = 0 /\ DOMAIN pending' = {}
    BY DEF StartWindow
  <2>. QED
    BY <1>4, <2>1, OneNext
<1>. QED
  BY <1>2, <1>3, <1>5, <1>6 DEF Trading

\* Steps that touch neither simulation nor queue.
LEMMA StillTrading ==
  ASSUME Trading, Typed', UNCHANGED <<kind, sim, pending>>, phase' # "evaluate",
         phase' = "replay" => phase = "replay"
  PROVE  Trading'
<1>1. Reading'
  BY DEF Reading
<1>2. PICK s, o, m, d : s = sim /\ Sound(s, o, m, d)
  BY DEF Trading, Balanced
<1>3. Balanced'
  BY <1>2, BalancedNext
<1>4. OneAtATime'
  BY OneNext DEF Trading, OneAtATime
<1>. QED
  BY <1>1, <1>3, <1>4 DEF Trading

\* Filling the pending actions and the exits of a bar keeps the invariant.
LEMMA NextBarTrading ==
  ASSUME Trading, NEW shape \in Shapes, NextBar(shape)
  PROVE  Trading'
<1>1. PICK s, o, m, d : s = sim /\ Sound(s, o, m, d)
  BY DEF Trading, Balanced
<1>2. Typed /\ Sound(sim, o, m, d)
  BY <1>1 DEF Trading
<1>3. /\ bar' \in Bars /\ bar'.stamp \in TestBars /\ bar'.stamp \in Stamps
      /\ Sound(sim', o, m, d)
      /\ Production /\ Single(sim) /\ Len(pending) <= 1
           /\ (\A i \in DOMAIN pending : pending[i].what = "open" => sim.positions = <<>>)
           => Single(sim')
  BY <1>2, BarFilled
<1>4. Typed'
  <2>1. <<>> \in Seq(Actions)
    OBVIOUS
  <2>. QED
    BY <1>2, <1>3, <2>1 DEF Typed, NextBar
<1>5. Reading'
  <2>1. window' = window /\ bar'.stamp \in TestBars
    BY <1>3 DEF NextBar
  <2>. QED
    BY <1>3, <2>1 DEF Reading, NextBar, TestBars, Slice, TestStart, TestEnd
<1>6. Balanced'
  BY <1>3, BalancedNext DEF NextBar
<1>7. OneAtATime'
  <2>1. Packaged => Production /\ Single(sim)
    BY DEF Trading, OneAtATime, Packaged, Production
  <2>2. Packaged => Single(sim')
    BY <1>3, <2>1 DEF Trading, OneAtATime, NextBar
  <2>3. kind' = kind /\ phase' # "replay"
    BY DEF NextBar
  <2>. QED
    BY <2>2, <2>3, OneNext
<1>. QED
  BY <1>4, <1>5, <1>6, <1>7 DEF Trading

\* An adapter without kernel keeps the invariant.
LEMMA EvaluatePlainTrading ==
  ASSUME Trading, NEW list \in PlainLists, NEW vetoed, EvaluatePlain(list, vetoed)
  PROVE  Trading'
<1>1. pending' \in Seq(Actions)
  BY VettedTyped, MarketAssumption DEF EvaluatePlain
<1>2. Typed'
  BY <1>1 DEF Trading, Typed, EvaluatePlain
<1>3. Reading'
  BY DEF Reading, EvaluatePlain
<1>4. PICK s, o, m, d : s = sim /\ Sound(s, o, m, d)
  BY DEF Trading, Balanced
<1>5. Balanced'
  BY <1>4, BalancedNext DEF EvaluatePlain
<1>6. OneAtATime'
  BY OneNext DEF EvaluatePlain, Packaged, Production
<1>. QED
  BY <1>2, <1>3, <1>5, <1>6 DEF Trading

\* An evaluation without a signal keeps the invariant.
LEMMA EvaluateNothingTrading ==
  ASSUME Trading, EvaluateNothing
  PROVE  Trading'
<1>1. PICK s, o, m, d : s = sim /\ Sound(s, o, m, d)
  BY DEF Trading, Balanced
<1>2. bar \in Bars /\ bar.stamp \in Nat /\ pending = <<>>
  BY DEF Trading, Reading, EvaluateNothing, Bars
<1>3. /\ clock' = bar.stamp
      /\ Sound(sim', Offsets(sim'), sim'.kernel.dailyReset, bar.stamp \div Day)
      /\ Single(sim) => Single(sim')
  BY <1>1, <1>2, Evaluated DEF EvaluateNothing
<1>4. Typed'
  BY <1>2, <1>3 DEF Trading, Typed, EvaluateNothing
<1>5. Reading'
  BY DEF Reading, EvaluateNothing
<1>6. Balanced'
  BY <1>3, BalancedNext DEF EvaluateNothing
<1>7. OneAtATime'
  <2>1. kind' = kind /\ Len(pending') = 0 /\ DOMAIN pending' = {}
    BY <1>2 DEF EvaluateNothing
  <2>2. Packaged => Single(sim')
    BY <1>3 DEF Trading, OneAtATime
  <2>. QED
    BY <2>1, <2>2, OneNext
<1>. QED
  BY <1>4, <1>5, <1>6, <1>7 DEF Trading

\* An evaluation with a signal keeps the invariant.
LEMMA EvaluateSignalTrading ==
  ASSUME Trading, NEW signal, signal.type \in Types, signal.usd \in Int,
         Packaged => StrategySignal(signal), EvaluateSignal(signal)
  PROVE  Trading'
<1>1. PICK s, o, m, d : s = sim /\ Sound(s, o, m, d)
  BY DEF Trading, Balanced
<1>2. bar \in Bars /\ bar.stamp \in Nat /\ Typed /\ Reading
  BY DEF Trading, Reading, EvaluateSignal, Bars
<1>3. /\ clock' = bar.stamp
      /\ Sound(sim', Offsets(sim'), sim'.kernel.dailyReset, bar.stamp \div Day)
      /\ sim'.positions = sim.positions
      /\ Single(sim) => Single(sim')
  BY <1>1, <1>2, Evaluated DEF EvaluateSignal
<1>4. /\ pending' \in Seq(Actions) /\ Len(pending') <= 1
      /\ \A i \in DOMAIN pending' : pending'[i].what = "open" =>
           signal.type \in {"enter_long", "enter_short"} \/ sim.positions = <<>>
  BY <1>1, <1>2, SignalHeard
<1>5. Typed'
  BY <1>2, <1>3, <1>4 DEF Typed, EvaluateSignal
<1>6. Reading'
  BY DEF Reading, EvaluateSignal
<1>7. Balanced'
  BY <1>3, BalancedNext DEF EvaluateSignal
<1>8. OneAtATime'
  <2>1. kind' = kind
    BY DEF EvaluateSignal
  <2>2. ASSUME Packaged
        PROVE  /\ Single(sim')
               /\ \A i \in DOMAIN pending' : pending'[i].what = "open" => sim'.positions = <<>>
    <3>1. Single(sim)
      BY <2>2 DEF Trading, OneAtATime
    <3>2. sim.tier = 0 => sim.positions = <<>>
      <4>1. sim.positions \in Seq(PositionState)
        BY <1>1 DEF Sound, Sims
      <4>2. Len(sim.positions) = 1 => sim.positions[1] \in PositionState
        BY <4>1
      <4>3. Len(sim.positions) = 1 => sim.positions[1].fills # 0
        BY <4>2 DEF PositionState
      <4>. QED
        BY <3>1, <4>3 DEF Single
    <3>3. signal.type \in {"enter_long", "enter_short"} => sim.tier = 0
      BY <2>2 DEF StrategySignal
    <3>. QED
      BY <1>3, <1>4, <3>1, <3>2, <3>3
  <2>. QED
    BY <1>4, <2>1, <2>2, OneNext
<1>. QED
  BY <1>5, <1>6, <1>7, <1>8 DEF Trading

\* Closing what a window leaves open keeps the invariant.
LEMMA FinishWindowTrading ==
  ASSUME Trading, FinishWindow
  PROVE  Trading'
<1>1. PICK s, o, m, d : s = sim /\ Sound(s, o, m, d)
  BY DEF Trading, Balanced
<1>2. bar \in Bars /\ clock \in Nat
  BY DEF Trading, Typed, FinishWindow
<1>3. Sound(sim', o, m, d) /\ (Production /\ Single(sim) => Single(sim'))
  BY <1>1, <1>2, RestClosed DEF FinishWindow
<1>4. Typed'
  <2>1. PICK x \in {"failed", "profit", "loss", "even"} : results' = Append(results, x)
    BY DEF FinishWindow
  <2>2. results' \in Seq({"failed", "profit", "loss", "even"}) /\ Len(results') = Len(results) + 1
    BY <2>1 DEF Trading, Typed
  <2>. QED
    BY <2>2 DEF Trading, Typed, FinishWindow
<1>5. Reading'
  BY DEF Reading, FinishWindow
<1>6. Balanced'
  BY <1>3, BalancedNext DEF FinishWindow
<1>7. OneAtATime'
  <2>1. Packaged => Production /\ Single(sim)
    BY DEF Trading, OneAtATime, Packaged, Production
  <2>2. kind' = kind /\ phase' # "replay"
    BY DEF FinishWindow
  <2>. QED
    BY <1>3, <2>1, <2>2, OneNext
<1>. QED
  BY <1>4, <1>5, <1>6, <1>7 DEF Trading

\* What a production strategy answers is a signal, and a packaged one enters for the
\* first time at tier 0 only.
LEMMA SignalsTyped ==
  ASSUME Trading, MeanReversion \/ DcaDips \/ AnyStrategy
  PROVE  \E signal : /\ signal.type \in Types /\ signal.usd \in Int
                     /\ Packaged => StrategySignal(signal)
                     /\ EvaluateSignal(signal)
<1>1. sim \in Sims /\ (phase = "evaluate" => bar \in Bars)
  BY DEF Trading, Balanced, Sound, Reading
<1>2. CASE MeanReversion
  <2>1. PICK rsi \in -1..3 : EvaluateSignal(MeanReversionSignal(rsi))
    BY <1>2 DEF MeanReversion
  <2>2. PICK signal : signal = MeanReversionSignal(rsi)
    OBVIOUS
  <2>3. EvaluateSignal(signal) /\ bar \in Bars
    BY <1>1, <2>1, <2>2 DEF EvaluateSignal
  <2>4. StrategySignal(signal)
    BY <1>1, <2>2, <2>3, StrategySignals
  <2>. QED
    BY <2>3, <2>4 DEF StrategySignal
<1>3. CASE DcaDips
  <2>1. PICK boost \in BOOLEAN : EvaluateSignal(DcaSignal(boost))
    BY <1>3 DEF DcaDips
  <2>2. PICK signal : signal = DcaSignal(boost)
    OBVIOUS
  <2>3. EvaluateSignal(signal) /\ bar \in Bars
    BY <1>1, <2>1, <2>2 DEF EvaluateSignal
  <2>4. StrategySignal(signal)
    BY <1>1, <2>2, <2>3, StrategySignals
  <2>. QED
    BY <2>3, <2>4 DEF StrategySignal
<1>4. CASE AnyStrategy
  <2>1. PICK signal \in Signals : EvaluateSignal(signal)
    BY <1>4 DEF AnyStrategy
  <2>2. signal.type \in Types /\ signal.usd \in Int
    BY MarketAssumption
  <2>3. ~Packaged
    BY <1>4 DEF AnyStrategy, Packaged
  <2>. QED
    BY <2>1, <2>2, <2>3
<1>. QED
  BY <1>2, <1>3, <1>4

\* Every step keeps the invariant.
LEMMA TradingNext == Trading /\ [Next]_vars => Trading'
<1>. SUFFICES ASSUME Trading, [Next]_vars
              PROVE  Trading'
  OBVIOUS
<1>1. CASE StartWindow
  BY <1>1, StartWindowTrading
<1>2. CASE FailWindow
  <2>1. results' \in Seq({"failed", "profit", "loss", "even"}) /\ Len(results') = Len(results) + 1
    BY <1>2 DEF FailWindow, Trading, Typed
  <2>2. Typed'
    BY <1>2, <2>1 DEF FailWindow, Trading, Typed
  <2>. QED
    BY <1>2, <2>2, StillTrading DEF FailWindow
<1>3. CASE FinishWindow
  BY <1>3, FinishWindowTrading
<1>4. CASE Report
  <2>1. Typed'
    BY <1>4 DEF Report, Trading, Typed
  <2>. QED
    BY <1>4, <2>1, StillTrading DEF Report
<1>5. ASSUME NEW shape \in Shapes, NextBar(shape)
      PROVE  Trading'
  BY <1>5, NextBarTrading
<1>6. ASSUME NEW list \in PlainLists, NEW vetoed \in SUBSET DOMAIN list, EvaluatePlain(list, vetoed)
      PROVE  Trading'
  BY <1>6, EvaluatePlainTrading
<1>7. CASE EvaluateNothing
  BY <1>7, EvaluateNothingTrading
<1>8. CASE MeanReversion \/ DcaDips \/ AnyStrategy
  BY <1>8, SignalsTyped, EvaluateSignalTrading
<1>9. CASE UNCHANGED vars
  <2>1. Typed'
    BY <1>9 DEF vars, Trading, Typed
  <2>2. PICK s, o, m, d : s = sim /\ Sound(s, o, m, d)
    BY DEF Trading, Balanced
  <2>3. Balanced'
    BY <1>9, <2>2, BalancedNext DEF vars
  <2>4. OneAtATime'
    BY <1>9, OneNext DEF vars, Trading, OneAtATime
  <2>5. Reading'
    BY <1>9 DEF vars, Trading, Reading, TestBars, Slice, TestStart, TestEnd
  <2>. QED
    BY <2>1, <2>3, <2>4, <2>5 DEF Trading
<1>. QED
  BY <1>1, <1>2, <1>3, <1>4, <1>5, <1>6, <1>7, <1>8, <1>9 DEF Next

\* Every reachable state satisfies the inductive invariant.
THEOREM TradingHolds == Spec => []Trading
<1>1. Init => Trading
  BY TradingInit
<1>2. Trading /\ [Next]_vars => Trading'
  BY TradingNext
<1>. QED
  BY <1>1, <1>2, PTL DEF Spec

-----------------------------------------------------------------------------
(* The theorems.                                                           *)

\* Every variable keeps its type, through every window, bar and fill.
THEOREM TypeCorrect == Spec => []TypeOK
<1>1. Trading => TypeOK
  <2>. SUFFICES ASSUME Trading
                PROVE  TypeOK
    OBVIOUS
  <2>1. sim \in Sims
    BY DEF Trading, Balanced, Sound
  <2>2. sim.positions \in Seq(PositionState) /\ sim.kernel \in Prod!KernelState /\ sim.twin \in Prod!KernelState
    BY <2>1 DEF Sims
  <2>. QED
    BY <2>2 DEF Trading, Typed, TypeOK
<1>. QED
  BY <1>1, TradingHolds, PTL

\* The engine's equity is explained to the dollar by what its fills moved, what is
\* open at cost and what was charged, and so is its difference from the kernel's
\* (the equity updates of ReplayEngine, on_position_closed).
THEOREM EquityAlwaysExplained == Spec => []EquityExplained
<1>1. Trading => EquityExplained
  BY DEF Trading, Balanced, Sound, Ledger, EquityExplained, AtCosts, Earned, Charged
<1>. QED
  BY <1>1, TradingHolds, PTL

\* After a bar's exits no position is open whose stop the bar touched, however many
\* positions there are (_check_exits_intrabar).
THEOREM StopsAlwaysHonoured == Spec => []StopsHonoured
<1>1. Init => StopsHonoured
  BY DEF Init, StopsHonoured
<1>2. Trading /\ StopsHonoured /\ [Next]_vars => StopsHonoured'
  <2>. SUFFICES ASSUME Trading, StopsHonoured, [Next]_vars, phase' = "evaluate"
                PROVE  \A i \in DOMAIN sim'.positions : ~StopHit(sim'.positions[i], bar')
    BY DEF StopsHonoured
  <2>1. (\E shape \in Shapes : NextBar(shape)) \/ UNCHANGED vars
    BY DEF Next, StartWindow, FailWindow, FinishWindow, Report, EvaluatePlain,
           EvaluateNothing, MeanReversion, DcaDips, AnyStrategy, EvaluateSignal
  <2>2. ASSUME NEW shape \in Shapes, NextBar(shape)
        PROVE  \A i \in DOMAIN sim'.positions : ~StopHit(sim'.positions[i], bar')
    <3>1. PICK s, o, m, d : s = sim /\ Sound(s, o, m, d)
      BY DEF Trading, Balanced
    <3>. QED
      BY <2>2, <3>1, BarFilled DEF Trading
  <2>3. CASE UNCHANGED vars
    BY <2>3 DEF vars, StopsHonoured
  <2>. QED
    BY <2>1, <2>2, <2>3
<1>. QED
  BY <1>1, <1>2, TradingHolds, PTL DEF Spec

\* As long as the account never ran out of equity, the backtest's kernel and
\* production's hold the same books and halts, judge alike from there on and grant
\* the same sizes (backtest_risk_kernel.py against core/risk_kernel.py).
THEOREM KernelsAlwaysAgree == Spec => []KernelsAgree
<1>1. Trading => KernelsAgree
  <2>. SUFFICES ASSUME Trading, Production, sim.low > 0
                PROVE  /\ sim.kernel = sim.twin
                       /\ \A loss \in {0, Capital \div 8}, fall \in {0, Capital \div 4} :
                            LET k == Worse(sim.kernel, loss, fall)
                            IN  Evaluate(k, clock) = Prod!EvaluateKillswitches(k, clock)
                       /\ \A usd \in {signal.usd : signal \in Signals} :
                            Granted(sim.kernel, usd, StopPct, 0, sim.equity)
                              = Prod!Verdict(sim.twin, Request(usd)).size
    BY DEF KernelsAgree
  <2>1. PICK s, o, m, d : s = sim /\ Sound(s, o, m, d)
    BY DEF Trading, Balanced
  <2>2. PICK k, c, e : k = s.kernel /\ c = k.current /\ e = s.equity
    OBVIOUS
  <2>3. k \in Prod!KernelState /\ c \in Int /\ e \in Int /\ clock \in Nat
    BY <2>1, <2>2 DEF Sound, Sims, Prod!KernelState, Trading, Typed
  <2>4. k = s.twin /\ c > 0
    <3>1. s.low \in Int /\ s.low <= c /\ s.low > 0 /\ (s.low > 0 => k = s.twin)
      BY <2>1, <2>2 DEF Sound, Sims, Kernels
    <3>. QED
      BY <2>3, <3>1
  <2>5. ASSUME NEW loss \in {0, Capital \div 8}, NEW fall \in {0, Capital \div 4}
        PROVE  LET n == Worse(k, loss, fall)
               IN  Evaluate(n, clock) = Prod!EvaluateKillswitches(n, clock)
    <3>1. loss \in Int /\ fall \in Int
      BY KernelAssumption
    <3>2. PICK n : n = Worse(k, loss, fall)
      OBVIOUS
    <3>3. n \in Prod!KernelState /\ n.current > 0
      <4>1. k.weekly - loss \in Int /\ k.peak + fall \in Int
        BY <2>3, <3>1 DEF Prod!KernelState
      <4>2. n = [k EXCEPT !.weekly = k.weekly - loss, !.peak = k.peak + fall]
        BY <3>2 DEF Worse
      <4>3. n \in Prod!KernelState /\ n.current = k.current
        BY <2>3, <4>1, <4>2 DEF Prod!KernelState
      <4>. QED
        BY <2>2, <2>4, <4>3
    <3>4. Evaluate(n, clock) = Prod!EvaluateKillswitches(n, clock)
      BY <2>3, <3>3, SameJudgement
    <3>. QED
      BY <3>2, <3>4
  <2>6. ASSUME NEW usd \in {signal.usd : signal \in Signals}
        PROVE  Granted(k, usd, StopPct, 0, e) = Prod!Verdict(k, Request(usd)).size
    <3>1. usd \in Nat
      BY <2>6, MarketAssumption
    <3>. QED
      BY <2>2, <2>3, <2>4, <3>1, SameGrant
  <2>. QED
    BY <2>1, <2>2, <2>4, <2>5, <2>6
<1>. QED
  BY <1>1, TradingHolds, PTL

\* An entry that waits for the next bar was granted by a kernel that is still not
\* halted, and is a quarter of its equity at most (approve_trade, _execute_pending_actions).
THEOREM EntriesNeedActiveKernel == Spec => []EntryNeedsActiveKernel
<1>1. Init => EntryNeedsActiveKernel
  BY DEF Init, EntryNeedsActiveKernel
<1>2. Trading /\ EntryNeedsActiveKernel /\ [Next]_vars => EntryNeedsActiveKernel'
  <2>. SUFFICES ASSUME Trading, EntryNeedsActiveKernel, [Next]_vars
                PROVE  EntryNeedsActiveKernel'
    OBVIOUS
  <2>1. PICK s, o, m, d : s = sim /\ Sound(s, o, m, d)
    BY DEF Trading, Balanced
  <2>2. CASE StartWindow
    <3>1. DOMAIN pending' = {}
      BY <2>2 DEF StartWindow
    <3>. QED
      BY <3>1 DEF EntryNeedsActiveKernel
  <2>3. CASE FailWindow \/ FinishWindow \/ Report
    BY <2>3 DEF FailWindow, FinishWindow, Report, EntryNeedsActiveKernel
  <2>4. ASSUME NEW shape \in Shapes, NextBar(shape)
        PROVE  EntryNeedsActiveKernel'
    BY <2>4 DEF NextBar, EntryNeedsActiveKernel
  <2>5. ASSUME NEW list, NEW vetoed, EvaluatePlain(list, vetoed)
        PROVE  EntryNeedsActiveKernel'
    BY <2>5 DEF EvaluatePlain, EntryNeedsActiveKernel, Production
  <2>6. CASE EvaluateNothing
    <3>1. DOMAIN pending' = {}
      BY <2>6 DEF EvaluateNothing, Trading, Reading
    <3>. QED
      BY <3>1 DEF EntryNeedsActiveKernel
  <2>7. ASSUME NEW signal, signal.type \in Types, signal.usd \in Int, EvaluateSignal(signal)
        PROVE  EntryNeedsActiveKernel'
    <3>1. (\E i \in DOMAIN pending' : pending'[i].what \in {"open", "scale"}) =>
            /\ ~sim'.kernel.halted
            /\ \A i \in DOMAIN pending' : 4 * pending'[i].qty * bar.close <= sim'.kernel.current
      BY <2>1, <2>7, SignalHeard DEF Trading
    <3>2. bar' = bar
      BY <2>7 DEF EvaluateSignal
    <3>. QED
      BY <3>1, <3>2 DEF EntryNeedsActiveKernel
  <2>8. CASE MeanReversion \/ DcaDips \/ AnyStrategy
    BY <2>7, <2>8, SignalsTyped
  <2>9. CASE UNCHANGED vars
    BY <2>9 DEF vars, EntryNeedsActiveKernel, Production
  <2>. QED
    BY <2>2, <2>3, <2>4, <2>5, <2>6, <2>8, <2>9 DEF Next
<1>. QED
  BY <1>1, <1>2, TradingHolds, PTL DEF Spec

\* The two packaged strategies hold one position at most and count its fills as their
\* tier: no signal is lost, repeated or filled twice (on_fill, on_position_closed).
THEOREM TierAlwaysPosition == Spec => []TierIsPosition
<1>1. Trading => TierIsPosition
  BY DEF Trading, OneAtATime, Packaged, Single, TierIsPosition
<1>. QED
  BY <1>1, TradingHolds, PTL

\* A simulation whose last evaluation was on day d: up to the day the clock was built on
\* (f) the kernel's day ends with f and its daily loss is the window's; from the next
\* day on it is that day's own.
DayBooks(s, f, d) ==
  /\ d <= f => \E x : Sound(s, <<x, 0>>, Day * f + Day, d)
  /\ d > f  => \E x : Sound(s, <<0, x>>, Day * d + Day, d)

\* The clock does not run ahead of the bars once it has moved, and the daily loss is
\* explained by its day.
Timely ==
  /\ clock = ClockStart \/ clock <= bar.stamp
  /\ \E s : s = sim /\ DayBooks(s, ClockStart \div Day, clock \div Day)

\* Books of a day that belong to a simulation belong to it in the next state.
LEMMA DayBooksNext ==
  ASSUME kind' = kind, NEW s, NEW f, NEW d, DayBooks(s, f, d)
  PROVE  DayBooks(s, f, d)'
<1>1. ASSUME NEW o, NEW m, Sound(s, o, m, d)
      PROVE  Sound(s, o, m, d)'
  BY <1>1, SoundNext
<1>. QED
  BY <1>1 DEF DayBooks

\* The invariant of the periods in the next state.
LEMMA TimelyNext ==
  ASSUME kind' = kind, clock' = ClockStart \/ clock' <= bar'.stamp,
         NEW t, t = clock', DayBooks(sim', ClockStart \div Day, t \div Day)
  PROVE  Timely'
<1>1. PICK s, f, d : s = sim' /\ d = t \div Day /\ f = ClockStart \div Day
  OBVIOUS
<1>2. DayBooks(s, f, d)'
  BY <1>1, DayBooksNext
<1>3. f = ClockStart \div Day /\ d = clock' \div Day
  BY <1>1
<1>. QED
  BY <1>1, <1>2, <1>3 DEF Timely

\* A fresh window's books are those of the day its clock was built on.
LEMMA NewDayBooks ==
  ASSUME NEW c \in Nat
  PROVE  DayBooks(NewSim(c), c \div Day, c \div Day)
<1>1. c \div Day \in Nat
  BY Days
<1>2. Sound(NewSim(c), <<0, 0>>, Day * (c \div Day) + Day, c \div Day)
  BY NewSimSound
<1>. QED
  BY <1>1, <1>2 DEF DayBooks

\* A simulation with a day's books belongs to an account.
LEMMA Explained ==
  ASSUME NEW s, NEW f, NEW d, f \in Nat, d \in Nat, DayBooks(s, f, d)
  PROVE  /\ \E o, m : Sound(s, o, m, d)
         /\ d <= f => \E x, m : Sound(s, <<x, 0>>, m, d)
         /\ d > f  => \E x, m : Sound(s, <<0, x>>, m, d)
<1>1. d <= f \/ d > f
  OBVIOUS
<1>2. CASE d <= f
  <2>1. PICK x : Sound(s, <<x, 0>>, Day * f + Day, d)
    BY <1>2 DEF DayBooks
  <2>2. ~(d > f)
    BY <1>2
  <2>. QED
    BY <2>1, <2>2, Zenon
<1>3. CASE d > f
  <2>1. PICK x : Sound(s, <<0, x>>, Day * d + Day, d)
    BY <1>3 DEF DayBooks
  <2>2. ~(d <= f)
    BY <1>3
  <2>. QED
    BY <2>1, <2>2, Zenon
<1>. QED
  BY <1>1, <1>2, <1>3

\* A step that keeps the account a simulation belongs to keeps its day's books.
LEMMA SameDayBooks ==
  ASSUME NEW s, NEW r, NEW f, NEW d, DayBooks(s, f, d), f \in Nat, d \in Nat,
         \A o, m : Sound(s, o, m, d) => Sound(r, o, m, d)
  PROVE  DayBooks(r, f, d)
  BY DEF DayBooks

\* Moving the clock on to a bar's time keeps daily loss and day together.
LEMMA DayKept ==
  ASSUME NEW c \in Nat, NEW t \in Nat, c <= t, NEW m, m = Day * (c \div Day) + Day
  PROVE  /\ t >= m => NextUtcMidnight(t) = Day * (t \div Day) + Day /\ c \div Day # t \div Day
         /\ ~(t >= m) => m = Day * (t \div Day) + Day /\ c \div Day = t \div Day
<1>1. m = NextUtcMidnight(c) /\ NextUtcMidnight(t) = Day * (t \div Day) + Day
  BY Days DEF NextUtcMidnight
<1>2. c \div Day \in Nat /\ t \div Day \in Nat
  BY Days
<1>3. t >= m <=> t \div Day > c \div Day
  BY <1>1, Midnights
<1>4. ~(c \div Day > t \div Day)
  <2>1. Day \in Nat \ {0} /\ t % Day \in 0..(Day - 1)
    BY Days, KernelAssumption
  <2>2. ~(c >= NextUtcMidnight(t))
    BY <2>1 DEF NextUtcMidnight
  <2>. QED
    BY <2>2, Midnights
<1>. QED
  BY <1>1, <1>2, <1>3, <1>4

\* Moving the clock on to a bar's time renews the daily loss when a midnight has passed
\* since the kernel's last, and explains it by the day of the bar.
LEMMA DayBooksMoved ==
  ASSUME NEW s, NEW r, NEW a \in Nat, NEW c \in Nat, NEW t \in Nat, NEW o, NEW m,
         Sound(s, o, m, c \div Day),
         DayBooks(s, a \div Day, c \div Day), c = a \/ c <= t,
         Sound(r, Offsets(r), r.kernel.dailyReset, t \div Day),
         r.today = IF c \div Day = t \div Day THEN s.today ELSE 0,
         r.kernel.total = s.kernel.total,
         r.kernel.daily = IF t >= s.kernel.dailyReset THEN 0 ELSE s.kernel.daily,
         r.kernel.dailyReset = IF t >= s.kernel.dailyReset
                               THEN NextUtcMidnight(t) ELSE s.kernel.dailyReset
  PROVE  DayBooks(r, a \div Day, t \div Day)
<1>1. PICK f, d, e : f = a \div Day /\ d = c \div Day /\ e = t \div Day
  OBVIOUS
<1>2. f \in Nat /\ d \in Nat /\ e \in Nat
  BY <1>1, Days
<1>3. NextUtcMidnight(t) = Day * e + Day
  BY <1>1, Days DEF NextUtcMidnight
<1>4. /\ s.kernel.daily \in Int /\ s.kernel.total \in Int /\ s.today \in Int
      /\ r.kernel.daily \in Int /\ r.kernel.total \in Int /\ r.today \in Int
  BY DEF Sound, Sims, Prod!KernelState
<1>5. CASE d <= f
  <2>1. /\ s.kernel.dailyReset = Day * f + Day
        /\ s.kernel.daily - s.kernel.total = 0
    BY <1>1, <1>5 DEF DayBooks, Sound, Kept, Offsets
  <2>2. t >= s.kernel.dailyReset <=> e > f
    <3>1. NextUtcMidnight(a) = Day * f + Day
      BY <1>1, Days DEF NextUtcMidnight
    <3>. QED
      BY <1>1, <2>1, <3>1, Midnights
  <2>3. CASE e > f
    <3>1. r.kernel.daily = 0 /\ r.kernel.dailyReset = Day * e + Day
      BY <1>3, <2>2, <2>3
    <3>2. r.today = 0
      BY <1>1, <1>2, <1>5, <2>3
    <3>3. PICK x : x = r.kernel.daily - r.kernel.total
      OBVIOUS
    <3>4. Offsets(r) = <<0, x>>
      BY <3>1, <3>2, <3>3 DEF Offsets
    <3>5. Sound(r, <<0, x>>, Day * e + Day, e)
      BY <1>1, <3>1, <3>4
    <3>6. ~(e <= f)
      BY <1>2, <2>3
    <3>7. DayBooks(r, f, e)
      BY <2>3, <3>5, <3>6, Zenon DEF DayBooks
    <3>. QED
      BY <1>1, <3>7
  <2>4. CASE e <= f
    <3>1. /\ r.kernel.daily = s.kernel.daily /\ r.kernel.dailyReset = Day * f + Day
      BY <1>2, <2>1, <2>2, <2>4
    <3>2. r.kernel.daily - r.kernel.total = 0
      BY <2>1, <3>1
    <3>3. PICK x : x = r.kernel.daily - r.today
      OBVIOUS
    <3>4. Offsets(r) = <<x, 0>>
      BY <3>2, <3>3 DEF Offsets
    <3>5. Sound(r, <<x, 0>>, Day * f + Day, e)
      BY <1>1, <3>1, <3>4
    <3>6. ~(e > f)
      BY <1>2, <2>4
    <3>7. DayBooks(r, f, e)
      BY <2>4, <3>5, <3>6, Zenon DEF DayBooks
    <3>. QED
      BY <1>1, <3>7
  <2>. QED
    BY <1>2, <2>3, <2>4
<1>6. CASE d > f
  <2>1. /\ s.kernel.dailyReset = Day * d + Day
        /\ s.kernel.daily - s.today = 0
    BY <1>1, <1>6 DEF DayBooks, Sound, Kept, Offsets
  <2>2. c <= t
    BY <1>1, <1>2, <1>6
  <2>3. /\ t >= s.kernel.dailyReset => d # e
        /\ ~(t >= s.kernel.dailyReset) => s.kernel.dailyReset = Day * e + Day /\ d = e
    BY <1>1, <2>1, <2>2, DayKept
  <2>4. e > f
    <3>1. PICK n : n = s.kernel.dailyReset
      OBVIOUS
    <3>2. t >= n <=> e > d
      <4>1. NextUtcMidnight(c) = n
        BY <1>1, <2>1, <3>1, Days DEF NextUtcMidnight
      <4>. QED
        BY <1>1, <4>1, Midnights
    <3>. QED
      BY <1>2, <1>6, <2>3, <3>1, <3>2
  <2>5. r.kernel.dailyReset = Day * e + Day
    BY <1>3, <2>3
  <2>6. r.kernel.daily - r.today = 0
    BY <1>1, <1>4, <2>1, <2>3
  <2>7. PICK x : x = r.kernel.daily - r.kernel.total
    OBVIOUS
  <2>8. Offsets(r) = <<0, x>>
    BY <2>6, <2>7 DEF Offsets
  <2>9. Sound(r, <<0, x>>, Day * e + Day, e)
    BY <1>1, <2>5, <2>8
  <2>10. ~(e <= f)
    BY <1>2, <2>4
  <2>11. DayBooks(r, f, e)
    BY <2>4, <2>9, <2>10, Zenon DEF DayBooks
  <2>. QED
    BY <1>1, <2>11
<1>. QED
  BY <1>2, <1>5, <1>6

\* Whatever time the clock is built with, the loss the daily limit is held against is all
\* the window has made until the bars pass the midnight after that time, and from then
\* on what was made since the first evaluation of the bars' day (_maybe_reset_periods
\* against BacktestClock). With a clock built after the history, as the packaged driver's,
\* that midnight never comes: the limit of a day then bears on the whole window.
THEOREM DailyLossAlwaysExplained == Spec => []DailyLossSinceMidnight
<1>1. Init => Timely
  <2>. SUFFICES ASSUME Init
                PROVE  Timely
    OBVIOUS
  <2>1. PICK s : s = sim
    OBVIOUS
  <2>2. DayBooks(s, ClockStart \div Day, ClockStart \div Day)
    BY <2>1, NewDayBooks, WalkAssumption DEF Init
  <2>. QED
    BY <2>1, <2>2 DEF Init, Timely
<1>2. Trading /\ Timely /\ [Next]_vars => Timely'
  <2>. SUFFICES ASSUME Trading, Timely, [Next]_vars
                PROVE  Timely'
    OBVIOUS
  <2>1. PICK s, c, f, d : /\ s = sim /\ c = clock /\ d = c \div Day /\ f = ClockStart \div Day
                         /\ DayBooks(s, f, d)
    BY DEF Timely
  <2>2. c \in Nat /\ bar.stamp \in Nat /\ ClockStart \in Nat
    BY <2>1, WalkAssumption DEF Trading, Typed, NoBar, Bars
  <2>3. f \in Nat /\ d \in Nat
    BY <2>1, <2>2, Days
  <2>4. CASE StartWindow
    BY <2>2, <2>4, NewDayBooks, TimelyNext DEF StartWindow
  <2>5. CASE FailWindow \/ Report \/ UNCHANGED vars
    BY <2>1, <2>2, <2>5, TimelyNext DEF FailWindow, Report, vars, Timely
  <2>6. CASE FinishWindow
    <3>1. bar \in Bars /\ clock \in Nat
      BY <2>6 DEF Trading, Typed, FinishWindow
    <3>2. \A o, m : Sound(s, o, m, d) => Sound(sim', o, m, d)
      BY <2>1, <2>6, <3>1, RestClosed DEF FinishWindow
    <3>3. DayBooks(sim', f, d)
      BY <2>1, <2>3, <3>2, SameDayBooks
    <3>. QED
      BY <2>1, <2>2, <2>6, <3>3, TimelyNext DEF FinishWindow, Timely
  <2>7. ASSUME NEW shape \in Shapes, NextBar(shape)
        PROVE  Timely'
    <3>1. PICK o, m, e : Sound(sim, o, m, e)
      BY DEF Trading, Balanced
    <3>2. bar' \in Bars /\ bar'.stamp > bar.stamp
      BY <2>7, <3>1, BarFilled DEF Trading
    <3>3. bar'.stamp \in Nat
      BY <3>2 DEF Bars
    <3>4. \A x, n : Sound(s, x, n, d) => Sound(sim', x, n, d)
      BY <2>1, <2>7, BarFilled DEF Trading
    <3>5. DayBooks(sim', f, d)
      BY <2>1, <2>3, <3>4, SameDayBooks
    <3>. QED
      BY <2>1, <2>2, <2>7, <3>2, <3>3, <3>5, TimelyNext DEF NextBar, Timely
  <2>8. ASSUME NEW list, NEW vetoed, EvaluatePlain(list, vetoed)
        PROVE  Timely'
    BY <2>1, <2>2, <2>8, TimelyNext DEF EvaluatePlain, Timely
  <2>9. ASSUME phase = "evaluate", kind' = kind, bar' = bar,
               SyncClock \/ \E signal : SyncAndCheck(signal)
        PROVE  Timely'
    <3>1. PICK t, r : t = bar.stamp /\ r = sim'
      OBVIOUS
    <3>2. t \in Nat /\ (c = ClockStart \/ c <= t)
      BY <2>1, <2>2, <3>1 DEF Timely
    <3>3. PICK o, m : Sound(s, o, m, d)
      BY <2>1, <2>3, Explained
    <3>4. m = s.kernel.dailyReset
      BY <3>3 DEF Sound, Kept
    <3>5. /\ clock' = t
          /\ Sound(r, Offsets(r), r.kernel.dailyReset, t \div Day)
          /\ r.today = IF d = t \div Day THEN s.today ELSE 0
          /\ r.kernel.total = s.kernel.total
          /\ r.kernel.daily = IF t >= m THEN 0 ELSE s.kernel.daily
          /\ r.kernel.dailyReset = IF t >= m THEN NextUtcMidnight(t) ELSE m
      BY <2>1, <2>2, <2>9, <3>1, <3>3, Evaluated
    <3>6. DayBooks(r, ClockStart \div Day, t \div Day)
      BY <2>1, <2>2, <3>2, <3>3, <3>4, <3>5, DayBooksMoved
    <3>. QED
      BY <2>2, <2>9, <3>1, <3>2, <3>5, <3>6, TimelyNext
  <2>10. CASE EvaluateNothing
    BY <2>9, <2>10 DEF EvaluateNothing
  <2>11. CASE MeanReversion \/ DcaDips \/ AnyStrategy
    <3>1. PICK signal : EvaluateSignal(signal)
      BY <2>11, SignalsTyped
    <3>. QED
      BY <2>9, <3>1 DEF EvaluateSignal
  <2>. QED
    BY <2>4, <2>5, <2>6, <2>7, <2>8, <2>10, <2>11 DEF Next
<1>3. Timely /\ Trading => DailyLossSinceMidnight
  <2>. SUFFICES ASSUME Timely, Trading
                PROVE  sim.kernel.daily = IF sim.day > ClockStart \div Day
                                          THEN sim.today ELSE sim.kernel.total
    BY DEF DailyLossSinceMidnight
  <2>1. PICK s, f, d : s = sim /\ f = ClockStart \div Day /\ d = clock \div Day /\ DayBooks(s, f, d)
    BY DEF Timely
  <2>2. f \in Nat /\ d \in Nat
    BY <2>1, Days, WalkAssumption DEF Trading, Typed
  <2>3. /\ \E o, m : Sound(s, o, m, d)
        /\ d <= f => \E x, m : Sound(s, <<x, 0>>, m, d)
        /\ d > f  => \E x, m : Sound(s, <<0, x>>, m, d)
    BY <2>1, <2>2, Explained
  <2>4. s.day = d /\ (d <= f => s.kernel.daily - s.kernel.total = 0)
        /\ (d > f => s.kernel.daily - s.today = 0)
    BY <2>2, <2>3 DEF Sound, Kept, Offsets
  <2>5. s.kernel.daily \in Int /\ s.kernel.total \in Int /\ s.today \in Int
    BY <2>3 DEF Sound, Sims, Prod!KernelState
  <2>. QED
    BY <2>1, <2>2, <2>4, <2>5
<1>. QED
  BY <1>1, <1>2, <1>3, TradingHolds, PTL DEF Spec

\* No regime and no indicator a decision rests on comes from its own bar's time or later,
\* and with a step of a test span at least no bar is tested twice or tested after being
\* trained on (detect_at and the indicator lookups, _build_window_specs).
THEOREM NeverLooksAhead ==
  ASSUME Step >= TestSpan
  PROVE  Spec => []NoLookAhead
<1> DEFINE Past == phase = "replay" => \A s \in seen : s < bar.stamp
<1>1. Init => Past
  BY DEF Init
<1>2. Trading /\ Past /\ [Next]_vars => Past'
  <2>. SUFFICES ASSUME Trading, Past, [Next]_vars
                PROVE  Past'
    OBVIOUS
  <2>1. CASE StartWindow \/ FailWindow \/ FinishWindow \/ Report \/ UNCHANGED vars
    BY <2>1 DEF StartWindow, FailWindow, FinishWindow, Report, vars
  <2>2. ASSUME NEW shape, NextBar(shape)
        PROVE  Past'
    BY <2>2 DEF NextBar
  <2>3. ASSUME phase = "evaluate", seen' = Snapshot, bar' = bar
        PROVE  Past'
    <3>1. bar.stamp \in Nat
      BY <2>3 DEF Trading, Reading, Bars
    <3>2. History \in SUBSET Nat
      BY WalkAssumption DEF History, TrainBars, TestBars, Slice
    <3>3. \A s \in Snapshot : s < bar.stamp
      BY <3>1, <3>2, SnapshotIsPast DEF Snapshot
    <3>. QED
      BY <2>3, <3>3
  <2>4. (\E list, vetoed : EvaluatePlain(list, vetoed)) \/ EvaluateNothing
          \/ (\E signal : EvaluateSignal(signal))
          => phase = "evaluate" /\ seen' = Snapshot /\ bar' = bar
    BY DEF EvaluatePlain, EvaluateNothing, EvaluateSignal
  <2>5. CASE MeanReversion \/ DcaDips \/ AnyStrategy
    BY <2>3, <2>4, <2>5, SignalsTyped
  <2>. QED
    BY <2>1, <2>2, <2>3, <2>4, <2>5 DEF Next
<1>3. Trading /\ Past => NoLookAhead
  BY WindowsApart DEF Trading, Typed, Reading, NoLookAhead
<1>. QED
  BY <1>1, <1>2, <1>3, TradingHolds, PTL DEF Spec
=============================================================================
