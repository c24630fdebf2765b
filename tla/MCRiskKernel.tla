---------------------------- MODULE MCRiskKernel ----------------------------
(* Finite values for the constants of RiskKernel.                          *)
EXTENDS RiskKernel

Request(size, stopLoss, stress, leverage) ==
  [size |-> size, stopLoss |-> stopLoss, confident |-> TRUE,
   stress |-> stress, leverage |-> leverage]

\* Granted whole, cut by the risk rule, cut by the position cap, refused for
\* leverage, and malformed.
MCRequests ==
  { Request(60, 10, "calm", 0), Request(200, 10, "s13", 0),
    Request(400, 2, "elevated", 1), Request(60, 10, "high", 3),
    [Request(60, 10, "calm", 0) EXCEPT !.confident = FALSE] }

\* What the one caller, funding_arb, asks for.
ArbRequests == { Request(200, 10, "calm", 0) }

\* A gain; a loss of streak size; one just under the daily limit, so that two days
\* of it reach the weekly one; one that ruins the account.
MCPnls == { 30, -10, -46, -1000 }

\* Outcomes of ordinary trades.
SmallPnls == { -46, -10 }
=============================================================================
