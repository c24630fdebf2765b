---------------------------- MODULE MCFundingArb ----------------------------
(* Finite values for the constants of FundingArb.                          *)
EXTENDS FundingArb

Rate(symbol, rate) == [symbol |-> symbol, rate |-> rate]

\* Both rates worth opening, behind the excluded BTC; one rising as the other falls;
\* both below the closing threshold; one missing; none.
MCRateLists ==
  { <<Rate("BTCUSDT", 1200), Rate("ETHUSDT", 1200), Rate("SOLUSDT", 1200)>>,
    <<Rate("ETHUSDT", 100), Rate("SOLUSDT", 1200)>>,
    <<Rate("ETHUSDT", 300), Rate("SOLUSDT", 300)>>,
    <<Rate("ETHUSDT", 600), Rate("SOLUSDT", -100)>>,
    <<Rate("ETHUSDT", 1200)>>,
    <<>> }

\* A typical result (fees above the basis), a basis that runs away far enough for
\* the daily limit, and one that takes the account to exactly 0.
MCPnls == { -1, -60, -1100 }

\* A typical result and a gain.
LifePnls == { -1, 5 }

ArbRequests == {ArbRequest}
=============================================================================
