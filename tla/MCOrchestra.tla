---------------------------- MODULE MCOrchestra ----------------------------
(* Finite values for the constants of Orchestra.                           *)
EXTENDS Orchestra

Reading(price, rsi, ret, cvd) == [price |-> price, rsi |-> rsi, ret |-> ret, cvd |-> cvd]

\* A calm market, a panic, a fall that asks to scale in, an overbought one in which
\* CVD diverges.
MCReadings ==
  { Reading(100, 50, 0, "absent"), Reading(100, 20, -6, "absent"),
    Reading(91, 50, 0, "absent"), Reading(100, 75, -6, "diverging") }

PanicReadings == { Reading(100, 20, -6, "absent"), Reading(100, 50, 0, "absent") }

Vix == [id |-> "vix", kind |-> "VIX_SPIKE", corroborated |-> TRUE]
Rumour == [id |-> "geo", kind |-> "GEOPOLITICAL_CRITICAL", corroborated |-> FALSE]
MCEvents == { Vix, Rumour }

\* main.py's list, and the default of OrchestraConfig.
MCEnabledLists == { {"mr", "dca"}, {} }
MainList == { {"mr", "dca"} }
=============================================================================
