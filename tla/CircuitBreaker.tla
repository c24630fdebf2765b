--------------------------- MODULE CircuitBreaker ---------------------------
(***************************************************************************)
(* What the risk kernel promises the rest of the bot, with the books left  *)
(* out: trading is either open or shut until a known tick.  A halt may     *)
(* strike at any moment, and a later halt replaces an earlier one, but a   *)
(* shut breaker opens early only by an operator's hand, and only if it was *)
(* an operator who shut it, or by a restart that lost it.                  *)
(***************************************************************************)
EXTENDS Integers

VARIABLES
  clock,
  cause,     \* "none" (open), "manual" or "automatic"
  until,     \* the tick the breaker opens again, 0 when it is open
  last       \* the last event: "granted", "lifted", "booted" or "other"

vars == <<clock, cause, until, last>>

Init ==
  /\ clock \in Nat
  /\ cause = "none"
  /\ until = 0
  /\ last = "other"

Opens == cause' = "none" /\ until' = 0

\* Shut, or shut anew: the new deadline replaces the old one.
Trip ==
  /\ cause' \in {"manual", "automatic"}
  /\ until' \in Nat /\ until' >= clock
  /\ last' = "other"
  /\ UNCHANGED clock

\* A served halt is over as soon as anybody asks.
Expire == cause # "none" /\ clock >= until /\ Opens

Ask ==
  /\ Expire
  /\ last' = "other"
  /\ UNCHANGED clock

\* A trade passes an open breaker, or one whose time is served.
Grant ==
  /\ last' = "granted"
  /\ Expire \/ (cause = "none" /\ UNCHANGED <<cause, until>>)
  /\ UNCHANGED clock

Lift ==
  /\ cause = "manual"
  /\ Opens
  /\ last' = "lifted"
  /\ UNCHANGED clock

\* A restart finds the breaker as it was left, loses it, or finds a halt again
\* that was already served.
Boot ==
  /\ last' = "booted"
  /\ \/ UNCHANGED <<cause, until>>
     \/ Opens
     \/ cause' \in {"manual", "automatic"} /\ until' \in Nat /\ until' <= clock
  /\ UNCHANGED clock

Advance == clock' \in Nat /\ clock' > clock /\ last' = "other" /\ UNCHANGED <<cause, until>>

Idle == last' = "other" /\ UNCHANGED <<clock, cause, until>>

Next == Trip \/ Ask \/ Grant \/ Lift \/ Boot \/ Advance \/ Idle

Spec == Init /\ [][Next]_vars
=============================================================================
