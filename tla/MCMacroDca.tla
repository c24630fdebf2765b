----------------------------- MODULE MCMacroDca -----------------------------
(* The constants of the code: polls of thirty and five minutes, a sustain  *)
(* of thirty minutes, a day of 288 ticks.                                  *)
EXTENDS MacroDca
=============================================================================
