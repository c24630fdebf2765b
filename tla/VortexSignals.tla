---------------------------- MODULE VortexSignals ----------------------------
(***************************************************************************)
(* The pure decisions of the Liquidity Vortex strategy: the sweep that     *)
(* gives a direction, the hard gates, the weighted score, the twelve       *)
(* factors of the self-critique and the size of the order                  *)
(* (src/bot/strategies/liquidity_vortex.py, lv1_signals.py,                *)
(* lv1_self_critique.py).  A direction is 1 for LONG and -1 for SHORT, so  *)
(* that the mirrored branches of the code are one formula.  Distances are  *)
(* in basis points, rates in hundredths of a percent, scores, penalties    *)
(* and multipliers in percent, money in dollars; quotients are rounded     *)
(* down.  v is the market state, c the rest of what an evaluation reads.   *)
(***************************************************************************)
EXTENDS Integers, Sequences, FiniteSetsExt, SequencesExt

CONSTANTS
    Equity,       \* the strategy's share of the kernel's equity
    Stats         \* [n, wins, rr]: trades, wins and payoff ratio in percent

ASSUME SizingAssumption ==
    /\ Equity \in Int
    /\ Stats \in [n : Nat, wins : Nat, rr : Nat] /\ Stats.wins <= Stats.n

Clamp(x, lo, hi) == Max({lo, Min({x, hi})})
Scaled(x, percents) == FoldLeft(LAMBDA y, p : (y * p) \div 100, x, percents)

-----------------------------------------------------------------------------
(* The sweep: c.low and c.close lie that far above the swing low, c.high   *)
(* and c.closeHigh above the swing high.                                   *)

Pierced(c, d) == IF d = 1 THEN -c.low ELSE c.high
Reclaimed(c, d) == IF d = 1 THEN c.close ELSE -c.closeHigh
Swept(c, d) == Pierced(c, d) > 15 /\ Reclaimed(c, d) > 0

(* None if neither side or both were swept.                                *)
Setups(c) == {d \in {1, -1} : Swept(c, d) /\ ~Swept(c, -d)}

HardGates(v, c, d) ==
    /\ v.spread <= 5
    /\ c.toFunding = 0 \/ c.toFunding >= 120
    /\ c.ratio > 70 /\ c.ratio < 200        \* 0 stands for no baseline
    /\ d * v.rate <= 15
    /\ c.qa \in (IF d = 1 THEN {"LONG", "FLAT"} ELSE {"SHORT", "FLAT"})

-----------------------------------------------------------------------------
(* The score                                                               *)

SweepScore(c, d) == 40 + (Clamp(Pierced(c, d) - 15, 0, 35) * 30) \div 35
                       + Clamp(Reclaimed(c, d), 0, 10) * 3
CvdScore(c, d) == IF c.divergence THEN 100 ELSE Clamp(-d * c.z - 200, 0, 200) \div 2
ObiScore(c) == Clamp((100 * c.depthLog) \div 7, 0, 100)
RegimeScore(c) == IF c.ratio <= 120 THEN Max({c.ratio - 70, 0}) * 2
                  ELSE (Max({200 - c.ratio, 0}) * 5) \div 4
FundingScore(v, d) == CASE d * v.rate < -5 -> 100 [] d * v.rate < 0 -> 80
                        [] d * v.rate < 10 -> 60 [] d * v.rate < 15 -> 30 [] OTHER -> 0
BasisScore(c, d) == CASE d * c.basis < -20 -> 100 [] d * c.basis < 15 -> 70
                      [] d * c.basis < 50 -> 30 [] OTHER -> 0

Composite(v, c, d) ==
    (30 * SweepScore(c, d) + 25 * CvdScore(c, d) + 15 * ObiScore(c)
      + 15 * RegimeScore(c) + 10 * FundingScore(v, d) + 5 * BasisScore(c, d)) \div 100

-----------------------------------------------------------------------------
(* The self-critique.  The tenth factor is never asked for.                *)

Factors(v, c, d) ==
    { <<1, 20, IF d = 1 THEN v.rate > 15 ELSE v.rate < -10>>,
      <<2, 30, c.s13 /\ c.vix > 30 /\ d = 1>>,
      <<3, 15, d * c.basis > 50>>,
      <<4, 20, d * c.btc < -100>>,
      <<5, 10, c.corr < 50>>,
      <<6, 15, c.oi > 15 /\ (c.rising <=> d = 1)>>,
      <<7, 10, c.bvol > 80>>,
      <<8, 20, v.spread > 10>>,
      <<9, 10, 0 < c.toFunding /\ c.toFunding < 1800>>,
      <<11, 10, d = 1 /\ c.dxy > 50>>,
      <<12, 15, c.event>> }

Penalty(v, c, d) ==
    MapThenSumSet(LAMBDA f : f[2], {f \in Factors(v, c, d) : f[3]})

Blocked(v, c, d) == Penalty(v, c, d) >= 30
Halved(v, c, d) == Penalty(v, c, d) >= 15 /\ ~Blocked(v, c, d)
PassesThreshold(v, c, d) == Composite(v, c, d) - Penalty(v, c, d) >= 78

-----------------------------------------------------------------------------
(* The size                                                                *)

AegisTier(drawdown) == CASE drawdown >= 15 -> "BLACK" [] drawdown >= 10 -> "RED"
                         [] drawdown >= 5 -> "ORANGE" [] drawdown >= 3 -> "YELLOW"
                         [] OTHER -> "GREEN"
AegisMultiplier(drawdown) == CASE AegisTier(drawdown) = "GREEN" -> 100
                               [] AegisTier(drawdown) = "YELLOW" -> 50
                               [] OTHER -> 0

(* Fractions of equity in millionths.                                      *)
WinRate == IF Stats.n = 0 THEN 4200 ELSE (10000 * (Stats.wins + 5)) \div (Stats.n + 10)
Payoff == IF Stats.n >= 30 /\ Stats.rr > 0 THEN Stats.rr ELSE 250
Kelly == Max({0, (100 * (WinRate * Payoff - (10000 - WinRate) * 100)) \div Payoff})
QuarterKelly == Min({Kelly \div 4, 25000})
Confidence == IF Stats.n = 0 THEN 30
              ELSE Max({k \in 0..100 : k * k <= 50 * Min({Stats.n, 200})})

RegimeMultiplier(c) == Scaled(IF c.s13 \/ c.stagflation THEN 70 ELSE 100,
                              IF c.topWrong >= 2 THEN <<60>> ELSE <<>>)
FundingMultiplier(v, d) == 70 + (2 * FundingScore(v, d)) \div 5

(* The distance of the stop: the range, or twice the spread and the fee.   *)
StopGap(v) == Max({(3 * v.atr) \div 2, 2 * v.spread + 5})

Notional(v, c, d, drawdown) ==
    LET f == Scaled(QuarterKelly,
                    << Clamp(Composite(v, c, d), 0, 100), RegimeMultiplier(c),
                       FundingMultiplier(v, d), Confidence, AegisMultiplier(drawdown),
                       IF Halved(v, c, d) THEN 50 ELSE 100 >>)
    IN  IF Equity <= 0 THEN 0
        ELSE Min({ (Equity * f) \div 1000000, (Equity * 100) \div StopGap(v),
                   (10^c.depthLog) \div 20 })

Sizeable(v, c, d, drawdown) == Notional(v, c, d, drawdown) >= 5
=============================================================================
