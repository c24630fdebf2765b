-------------------------- MODULE MCFundingMonitor --------------------------
EXTENDS FundingMonitor, TLC

TwoSymbols == <<"BTCUSDT", "ETHUSDT">>

\* The arb job and /funding run the same fetch_once.
SameCalls == Permutations(Once)
=============================================================================
