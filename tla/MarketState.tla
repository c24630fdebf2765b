----------------------------- MODULE MarketState -----------------------------
(***************************************************************************)
(* The market state provider (src/bot/utils/market_state_provider.py).     *)
(* For every symbol one task per websocket stream and one per REST poll    *)
(* writes into a cache and notes when; the reader gets a state only if     *)
(* every required field was touched within the staleness threshold.  A     *)
(* task that raises sleeps for the next entry of the backoff sequence.     *)
(* The clock is kept as ages and waits, so that the state is finite.       *)
(* The health monitor and its flags are read by reports only and left out; *)
(* of a reference symbol only the last one-minute return is used, whatever *)
(* its age (the reader of this module chooses it).                         *)
(***************************************************************************)
EXTENDS Integers, Sequences, SequencesExt, FiniteSetsExt

CONSTANTS
    Symbols,      \* the traded symbols in their order
    Streams,      \* websocket feeds: "book", "trades" and the candles
    Polls,        \* REST feed -> what its task sleeps between two requests
    MaxLatency,   \* longest time a REST request takes
    PollValues,   \* REST feed -> the values it may return
    Books,        \* what the book stream shows: [price, spread]
    Order,        \* the feeds in the order their tasks are served
    Keep,         \* candles or trades -> what their ring holds
    AtrPeriod, AtrLevel,  \* bars of the average range, its value when known
    StaleAfter,   \* oldest age of a usable field
    Backoff,      \* waits after successive errors
    Absent,       \* a value that has not been seen
    MaxOutages    \* bound of the model

Syms == Range(Symbols)
Rings == Streams \ {"book"}
Feeds == Streams \cup DOMAIN Polls

ASSUME FeedAssumption ==
    /\ Symbols \in Seq(Syms) /\ Symbols # <<>>
    /\ Books \subseteq [price : Int, spread : Int] /\ Absent \notin Books
    /\ \A p \in DOMAIN Polls : Absent \notin PollValues[p]
    /\ {"book", "5m", "1h"} \subseteq Streams /\ "funding" \in DOMAIN Polls
    /\ Streams \cap DOMAIN Polls = {}
    /\ IsInjective(Order) /\ Range(Order) = Feeds
    /\ Polls \in [DOMAIN Polls -> Nat \ {0}] /\ DOMAIN PollValues = DOMAIN Polls
    /\ Keep \in [Rings -> Nat \ {0}] /\ Keep["1h"] > AtrPeriod
    /\ Backoff \in Seq(Nat \ {0}) /\ Backoff # <<>>
    /\ {AtrPeriod, AtrLevel, StaleAfter, MaxLatency, MaxOutages} \subseteq Nat

VARIABLES
    age,      \* symbol -> feed -> time since its last touch, capped
    task,     \* symbol -> feed -> [wait, tries] of the task that reads it:
              \* time to its next answer, errors since the last one
    bars,     \* symbol -> candles or trades -> entries in the ring
    book,     \* symbol -> the book, or Absent
    value,    \* symbol -> REST feed -> the last value, or Absent
    outages   \* errors, silences and empty answers so far

provider == <<age, task, bars, book, value, outages>>

Never == StaleAfter + 1        \* no reader tells greater ages apart
Capped(n) == Min({n, Never})

ProviderTypeOK ==
    /\ age \in [Syms -> [Feeds -> 0..Never]]
    /\ task \in [Syms -> [Feeds -> [wait : Nat, tries : 0..Len(Backoff)]]]
    /\ bars \in [Syms -> [Rings -> Nat]]
    /\ \A s \in Syms : \A t \in Rings : bars[s][t] <= Keep[t]
    /\ book \in [Syms -> Books \cup {Absent}]
    /\ value \in [Syms -> [DOMAIN Polls -> (UNION Range(PollValues)) \cup {Absent}]]
    /\ \A s \in Syms : \A p \in DOMAIN Polls : value[s][p] \in PollValues[p] \cup {Absent}
    /\ outages \in 0..MaxOutages

ColdAge == [s \in Syms |-> [f \in Feeds |-> Never]]

(* A REST request takes its time; a stream is read as it comes.            *)
Latencies(f) == IF f \in Streams THEN {0} ELSE 0..MaxLatency
ColdTasks == {t \in [Syms -> [Feeds -> [wait : 0..MaxLatency, tries : {0}]]] :
                 \A s \in Syms : \A f \in Feeds : t[s][f].wait \in Latencies(f)}
ColdBars == [s \in Syms |-> [t \in Rings |-> 0]]
ColdBook == [s \in Syms |-> Absent]
ColdValue == [s \in Syms |-> [p \in DOMAIN Polls |-> Absent]]

ProviderInit ==
    /\ age = ColdAge /\ task \in ColdTasks /\ bars = ColdBars
    /\ book = ColdBook /\ value = ColdValue
    /\ outages = 0

(* start() in a new process: empty caches, every task at its first call.   *)
ProviderStart ==
    /\ age' = ColdAge /\ task' \in ColdTasks /\ bars' = ColdBars
    /\ book' = ColdBook /\ value' = ColdValue
    /\ UNCHANGED outages

-----------------------------------------------------------------------------
(* The reader: __call__ and _build_market_state                            *)

Fresh(s) == \A f \in Feeds : age[s][f] <= StaleAfter

(* The average range is 0 until a period and one more bar are there.       *)
Atr(n) == IF n < AtrPeriod + 1 THEN 0 ELSE AtrLevel

Needed(t) == CASE t = "1m" -> 2 [] t = "5m" -> 1 [] t = "1h" -> AtrPeriod + 1
               [] OTHER -> 0

HasState(s) ==
    /\ Fresh(s)
    /\ book[s] # Absent
    /\ \A p \in DOMAIN Polls : value[s][p] # Absent
    /\ \A t \in Rings : bars[s][t] >= Needed(t)

(* The median of the hourly range is the range itself for as long as there *)
(* is one window to take it from.                                          *)
NoBaseline(s) == bars[s]["1h"] < 2 * AtrPeriod

State(s) == [price |-> book[s].price, spread |-> book[s].spread,
             rate |-> value[s]["funding"], atr |-> Atr(bars[s]["5m"])]

-----------------------------------------------------------------------------
(* The tasks.  A task that is ready is served before time goes on; what    *)
(* keeps it waiting is an outage.  They write different fields, so those   *)
(* ready at the same time are served in a fixed order.                     *)

Waiting(s, f) == task[s][f].wait = 0 /\ age[s][f] > 0
Ready(s, f) == /\ Waiting(s, f)
               /\ \A i, k \in DOMAIN Order :
                     Order[i] = f /\ k < i => ~Waiting(s, Order[k])
Served == \A s \in Syms : \A f \in Feeds : ~Waiting(s, f)

Touch(s, f) == age' = [age EXCEPT ![s][f] = 0]

(* The task sleeps for n and asks again.                                   *)
Resumes(s, f, n, tries) ==
    \E d \in Latencies(f) :
        task' = [task EXCEPT ![s][f] = [wait |-> n + d, tries |-> tries]]
Sleep(s, f, n) == Resumes(s, f, n, 0)

Outage == outages < MaxOutages /\ outages' = outages + 1

(* A book with an empty side is stored as no book, and touched all the same. *)
BookUpdate(s) ==
    /\ Ready(s, "book")
    /\ \/ \E b \in Books : book' = [book EXCEPT ![s] = b] /\ UNCHANGED outages
       \/ book' = [book EXCEPT ![s] = Absent] /\ Outage
    /\ Touch(s, "book") /\ Sleep(s, "book", 0)
    /\ UNCHANGED <<bars, value>>

(* The last bar of the ring is replaced or new ones appended, and a trade  *)
(* is appended: the reader tells numbers apart up to what it needs.        *)
RingUpdate(s, t) ==
    /\ Ready(s, t)
    /\ \E n \in {bars[s][t], Min({bars[s][t] + 1, Keep[t]})} \ {0} :
          bars' = [bars EXCEPT ![s][t] = n]
    /\ Touch(s, t) /\ Sleep(s, t, 0)
    /\ UNCHANGED <<book, value, outages>>

(* A plausible bug: the interval is slept in the body and in the loop.     *)
IntervalTwice(p) == 2 * Polls[p]

Interval(p) == Polls[p]

(* The value is touched when the reply is there, and the sleep begins then. *)
(* A reply without the field leaves the value and touches it all the same. *)
PollUpdate(s, p) ==
    /\ Ready(s, p)
    /\ \/ \E v \in PollValues[p] :
             value' = [value EXCEPT ![s][p] = v] /\ UNCHANGED outages
       \/ UNCHANGED value /\ Outage
    /\ Touch(s, p) /\ Sleep(s, p, Interval(p))
    /\ UNCHANGED <<bars, book>>

(* The body raised: the next entry of the backoff sequence, then again.    *)
TaskError(s, f) ==
    /\ Ready(s, f) /\ Outage
    /\ LET n == Min({task[s][f].tries + 1, Len(Backoff)})
       IN  Resumes(s, f, Backoff[n], n)
    /\ UNCHANGED <<age, bars, book, value>>

(* Nothing arrives, or nothing of use: the wait for the next message.      *)
StreamQuiet(s, f) ==
    /\ f \in Streams /\ Ready(s, f) /\ Outage
    /\ task' = [task EXCEPT ![s][f].wait = 1]
    /\ UNCHANGED <<age, bars, book, value>>

FeedStep(s) ==
    \/ BookUpdate(s)
    \/ \E t \in Rings : RingUpdate(s, t)
    \/ \E p \in DOMAIN Polls : PollUpdate(s, p)

FeedTrouble(s) == \E f \in Feeds : TaskError(s, f) \/ StreamQuiet(s, f)

(* The clock, as the provider sees it.                                     *)
ProviderElapse ==
    /\ Served
    /\ age' = [s \in Syms |-> [f \in Feeds |-> Capped(age[s][f] + 1)]]
    /\ task' = [s \in Syms |-> [f \in Feeds |->
                   [task[s][f] EXCEPT !.wait = Max({@ - 1, 0})]]]
    /\ UNCHANGED <<bars, book, value, outages>>
=============================================================================
