---------------------------- MODULE MCEarnLedger ----------------------------
EXTENDS EarnLedger

Order(coin, principal, product, term) ==
  [coin |-> coin, principal |-> principal, product |-> product, term |-> term]

\* A term that ends within the run, one without term, one the command refuses, one whose
\* term of 0 days and amount below zero it accepts, and two the plan or the table has no
\* place for.
SomeOrders ==
  {Order("USDT", 1, "flexible_savings", NoTerm), Order("USDC", 4, "fixed_term", 2),
   Order("USDC", 4, "fixed_term", NoTerm), Order("ETH", -1, "fixed_term", 0),
   Order("BTC", 1, "dual_asset", NoTerm), Order("USDT", NotANumber, "reserve", NoTerm)}

\* One order for each coin and product of the plan, of the largest amount it names.
PlanOrders ==
  {Order("USDT", 9, "flexible_savings", NoTerm), Order("USDC", 16, "fixed_term", 15),
   Order("USDT", 16, "fixed_term", 90), Order("ETH", 4, "onchain_staking", NoTerm),
   Order("USDT", 4, "reserve", NoTerm)}
=============================================================================
