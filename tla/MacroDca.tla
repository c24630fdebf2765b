------------------------------ MODULE MacroDca ------------------------------
(***************************************************************************)
(* bot/core/macro_events.py and the trigger of the strategy it serves,     *)
(* trigger_event of bot/strategies/dca_dips.py, as main.py wires them: a   *)
(* VIX fetcher, no Fed fetcher, one callback, and no caller of             *)
(* trigger_geopolitical, so that VIX spikes are the only events.           *)
(*                                                                         *)
(* Time is relative: every moment the code remembers is kept as an age     *)
(* that stops growing where no test can tell it from an older one, which   *)
(* leaves behaviours of any length in a finite model.  One tick is the     *)
(* short poll interval of five minutes.                                    *)
(***************************************************************************)
EXTENDS Integers

CONSTANTS
  SlowPoll,     \* DEFAULT_POLL_INTERVAL_SEC, in ticks
  FastPoll,     \* HIGH_VOL_POLL_INTERVAL_SEC, in ticks
  Sustain,      \* the 1800 seconds a spike must last, in ticks
  Day,          \* the 24 hours between two VIX events, in ticks
  MaxRestarts   \* bound: restarts of the process

VARIABLES
  vix,        \* the last VIX print the source has
  interval,   \* _poll_interval
  sleep,      \* ticks until the next poll
  since,      \* age of _vix_above_threshold_since, or Unset
  lastEvent,  \* age of _last_vix_event_at, or Unset
  status,     \* the DCA strategy's status
  funded,     \* has a tick of the orchestra given it its capital?
  active,     \* the number of its _active_events
  emitted,    \* history: age of the last event handed to the callbacks
  calm,       \* history: age of the last calm reading, or of the process
  seen,       \* history: was there a spike reading after that calm one?
  reset,      \* history: was the index calm after the last event of this process?
  restarts    \* bound

detector == <<interval, sleep, since, lastEvent>>
strategy == <<status, funded, active>>
history  == <<emitted, calm, seen, reset>>
vars == <<vix, detector, strategy, history, restarts>>

\* The levels the thresholds 22, 25 and 30 tell apart.
Levels == {"calm", "uneasy", "tense", "spike"}
Unset == -1
MaxConcurrentEvents == 2

ASSUME MacroAssumption ==
  /\ {SlowPoll, FastPoll, Sustain, Day} \subseteq Nat \ {0}
  /\ FastPoll <= SlowPoll /\ Sustain < Day
  /\ MaxRestarts \in Nat

TypeOK ==
  /\ vix \in Levels
  /\ interval \in {FastPoll, SlowPoll} /\ sleep \in 0 .. SlowPoll
  /\ since \in Unset .. Sustain
  /\ lastEvent \in Unset .. Day
  /\ status \in {"PAPER", "DISABLED", "HALTED"}
  /\ funded \in BOOLEAN /\ active \in 0 .. MaxConcurrentEvents
  /\ emitted \in 0 .. Day /\ calm \in 0 .. Sustain /\ {seen, reset} \subseteq BOOLEAN
  /\ restarts \in 0 .. MaxRestarts

-----------------------------------------------------------------------------
Init ==
  /\ vix \in Levels
  /\ interval = SlowPoll /\ sleep = 0 /\ since = Unset /\ lastEvent = Unset
  /\ status = "PAPER" /\ funded = FALSE /\ active = 0
  /\ emitted = Day /\ calm = 0 /\ seen = FALSE /\ reset = FALSE
  /\ restarts = 0

\* trigger_event.  The identifier of an event holds its date and VIX events are a day
\* apart, so each is new; the capital of an event is at least $50 once it is set.
\* No event is ever closed: the seven days after a close never begin.
Accepts ==
  /\ status \notin {"DISABLED", "HALTED"}
  /\ active < MaxConcurrentEvents
  /\ funded

\* A plausible bug: only an accepted event counts as fired.
EmitUntilAccepted ==
  /\ emitted' = 0 /\ reset' = FALSE
  /\ active' = IF Accepts THEN active + 1 ELSE active
  /\ lastEvent' = IF Accepts THEN 0 ELSE lastEvent

\* _build_event and _emit: the callback's answer is only logged.
Emit ==
  /\ emitted' = 0 /\ reset' = FALSE
  /\ active' = IF Accepts THEN active + 1 ELSE active
  /\ lastEvent' = 0

\* A plausible bug: a VIX event is fired once in the life of the process.
RefireNever == lastEvent = Unset

\* "Don't refire within 24h".
MayRefire == lastEvent \in {Unset, Day}

Since == IF since = Unset THEN 0 ELSE since

\* Above the threshold the start of a spike is kept, below the reset level it is
\* forgotten, and in between it is neither.
NextSince ==
  CASE vix = "spike" -> Since
    [] vix = "calm"  -> Unset
    [] OTHER         -> since

NextInterval == IF vix \in {"tense", "spike"} THEN FastPoll ELSE SlowPoll

\* _check_vix with an answer of the source, then the sleep of the loop.
PollAnswered ==
  /\ sleep = 0 /\ sleep' = NextInterval /\ interval' = NextInterval
  /\ since' = NextSince
  /\ calm' = IF vix = "calm" THEN 0 ELSE calm
  /\ seen' = (vix = "spike" \/ (seen /\ vix # "calm"))
  /\ IF vix = "spike" /\ Since >= Sustain /\ MayRefire
     THEN Emit
     ELSE UNCHANGED <<active, lastEvent, emitted, reset>>
  /\ UNCHANGED <<vix, status, funded, restarts>>

\* The source fails or has nothing to say: the interval stays what it was.
PollFails ==
  /\ sleep = 0 /\ sleep' = interval
  /\ UNCHANGED <<vix, interval, since, lastEvent, strategy, history, restarts>>

Older(age, limit) == IF age = Unset \/ age = limit THEN age ELSE age + 1

\* Five minutes pass.  While its market is closed the index keeps its last print.
Tick ==
  /\ sleep > 0 /\ sleep' = sleep - 1
  /\ vix' \in Levels
  /\ since' = Older(since, Sustain) /\ lastEvent' = Older(lastEvent, Day)
  /\ emitted' = Older(emitted, Day) /\ calm' = Older(calm, Sustain)
  /\ reset' = (reset \/ vix' = "calm")
  /\ UNCHANGED <<interval, strategy, seen, restarts>>

\* The first tick of the orchestra after a start gives each strategy its capital.
Fund ==
  /\ ~funded /\ funded' = TRUE
  /\ UNCHANGED <<vix, detector, status, active, history, restarts>>

\* /halt_strat, /disable_strat, /resume_strat, /enable_strat and the kill switch.
SetStatus(s) ==
  /\ status # s /\ status' = s
  /\ UNCHANGED <<vix, detector, funded, active, history, restarts>>

\* A new detector and a new strategy: what both knew was in memory.
Restart ==
  /\ restarts < MaxRestarts /\ restarts' = restarts + 1
  /\ interval' = SlowPoll /\ sleep' = 0 /\ since' = Unset /\ lastEvent' = Unset
  /\ status' = "PAPER" /\ funded' = FALSE /\ active' = 0
  /\ emitted' = Day /\ calm' = 0 /\ seen' = FALSE /\ reset' = FALSE
  /\ UNCHANGED vix

Next ==
  \/ PollAnswered
  \/ PollFails
  \/ Tick
  \/ Fund
  \/ \E s \in {"PAPER", "DISABLED", "HALTED"} : SetStatus(s)
  \/ Restart

Spec == Init /\ [][Next]_vars

\* The loop never ends while the process lives, the orchestra's job runs, and the source
\* does not fail for ever.
FairSpec ==
  Spec /\ WF_vars(Tick) /\ WF_vars(PollAnswered \/ PollFails) /\ WF_vars(Fund)
       /\ SF_vars(PollAnswered)

-----------------------------------------------------------------------------
(* Properties.                                                             *)

\* An event is handed out only by a reading above the threshold that an earlier one
\* confirms, with no calm reading between them nor within Sustain, and by one process never
\* twice in a day, whatever the callback answered.
FiredOnceAndSustained ==
  [][emitted' = 0 /\ emitted # 0 =>
       vix = "spike" /\ seen /\ calm = Sustain /\ emitted = Day]_vars

\* An event the strategy refused is not lost while its cause lasts: a spike that stays,
\* before a strategy that stays enabled, ends with the strategy holding an event.
PersistentSpikeIsActedOn ==
  <>[](vix = "spike" /\ status = "PAPER") => <>[](active > 0)

\* The comment at VIX_RESET_THRESHOLD: "must drop below this before new VIX trigger", so a
\* process that handed out an event hands out the next one only after the index was calm.
RefireNeedsReset ==
  [][emitted' = 0 /\ emitted # 0 /\ lastEvent # Unset => reset]_vars
=============================================================================
