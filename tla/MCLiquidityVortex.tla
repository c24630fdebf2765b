------------------------- MODULE MCLiquidityVortex -------------------------
(* One symbol.  A step of the clock is fifteen seconds: the cycle runs      *)
(* every second, funding is polled every fourth, or every fifth if the      *)
(* request is slow (its timeout is ten seconds), and is stale after two.    *)
(* Age limit and cooldown are shortened.  The ring of five-minute bars is   *)
(* shorter than the averaging period, as in production.                     *)
EXTENDS LiquidityVortex

MCSymbols == <<"ETH">>
MCPolls == [p \in {"funding"} |-> 4]
MCPollValues == [p \in {"funding"} |-> {0}]
MCBooks == [price : {-14, 10}, spread : {1}] \cup {[price |-> 10, spread |-> 13]}
MCOrder == <<"book", "5m", "1h", "funding">>
MCKeep == [t \in {"5m", "1h"} |-> IF t = "5m" THEN 1 ELSE 2]
MCBackoff == <<1, 2>>
MCStats == [n |-> 200, wins |-> 120, rr |-> 200]
MCSwing == [d \in {1, -1} |-> -15 * d]
MCKernels == {[allowed |-> TRUE, drawdown |-> 0], [allowed |-> TRUE, drawdown |-> 4],
              [allowed |-> FALSE, drawdown |-> 4]}
MCBtcReturns == {0, -150}

(* A clean sweep of the low, one of the high, and variants that are turned  *)
(* down by a gate, by the score, by the critique and by the size.           *)
Long == [low |-> -60, close |-> 12, high |-> 0, closeHigh |-> -1, toFunding |-> 7200,
         ratio |-> 120, qa |-> "LONG", divergence |-> TRUE, z |-> 0, depthLog |-> 6,
         basis |-> 0, s13 |-> FALSE, vix |-> 20, stagflation |-> FALSE, topWrong |-> 0,
         btc |-> 0, corr |-> 85, oi |-> 0, rising |-> FALSE, bvol |-> 50, dxy |-> 0,
         event |-> FALSE]
Short == [Long EXCEPT !.low = 0, !.close = 9, !.high = 60, !.closeHigh = -12, !.qa = "FLAT"]
MCContexts == {Long, Short, [Long EXCEPT !.qa = "SHORT"],
               [Long EXCEPT !.divergence = FALSE], [Long EXCEPT !.depthLog = 1],
               [Long EXCEPT !.s13 = TRUE, !.vix = 35]}
=============================================================================
