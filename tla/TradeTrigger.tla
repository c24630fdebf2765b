---------------------------- MODULE TradeTrigger ----------------------------
(***************************************************************************)
(* The trade-trigger process (src/bot/trade_trigger).  Two scheduled jobs  *)
(* share one event loop and one database: polymarket_cycle polls odds and  *)
(* turns a shift into an event, rss_cycle polls the government feeds in    *)
(* turn.  Each job judges what its poll emitted, one event at a time:      *)
(* PipelineOrchestrator.process_event runs without a pause up to the first *)
(* await, the price fetch of the anti-bias gate, and again from the last   *)
(* fetch to the Telegram send, so a job is a record whose phase names the  *)
(* await it is parked at, and a step is what runs between two awaits.      *)
(* Every call of the database is a transaction of its own.  The database   *)
(* (events, classified, odds, signals) survives a crash; the jobs' queues  *)
(* do not.  refusals is no table but the history of what process_event     *)
(* returned as rejection_stage.  The audit log, source health and          *)
(* heartbeats, which nothing reads but reports, are left out.              *)
(***************************************************************************)
EXTENDS Integers, FiniteSets, Sequences, SequencesExt, Functions

CONSTANTS
    Feeds,        \* the RSS feeds' domains in polling order
    Items,        \* items that may appear in a feed
    FeedOf,       \* the feed an item appears in
    MaxItems,     \* newest items of a feed a poll looks at: max_items_per_poll,
                  \* or fewer if the feed lists fewer
    Markets,      \* the watched markets in polling order
    Specs,        \* market -> sequence of the directions watched on it
    Threshold,    \* smallest shift that counts, in price steps
    Prices,       \* prices an outcome can show
    TopicOf,      \* item or market -> keyword of its headline
    NoTopic,      \* a headline without distinctive keywords
    Direct,       \* domains that need no corroboration
    TierOf,       \* domain -> tier of the source
    L1Scores, L2Scores, Confidences,  \* scores of the rules and of the model
    L2Active,     \* is the language model asked
    L1Threshold, L2Threshold, MinScore,
    Mapping,      \* sequence of [ticker, direction] a supported type maps to
    Excluded,     \* tickers never traded
    Moves, Rsis,  \* the day's move in percent and the RSI a ticker can show
    OddsWindow, CorrWindow, StaleAfter, KeepFor,
    PollEvery, RssEvery,              \* job intervals, all in clock steps
    MaxTime, MaxFaults                \* bounds of the model

PM == "polymarket.com"
Domains == {PM} \cup Range(Feeds)
None == "none"

ASSUME ClockAssumption ==
    /\ {OddsWindow, CorrWindow, StaleAfter, MaxTime, MaxFaults} \subseteq Nat
    /\ {PollEvery, RssEvery, MaxItems} \subseteq Nat \ {0}
    /\ KeepFor \in Nat /\ KeepFor >= OddsWindow
ASSUME SourceAssumption ==
    /\ FeedOf \in [Items -> Range(Feeds)]
    /\ Feeds \in Seq(Range(Feeds)) /\ Markets \in Seq(Range(Markets))
    /\ Feeds # <<>> /\ Markets # <<>>
    /\ PM \notin Range(Feeds) /\ IsInjective(Feeds) /\ IsInjective(Markets)
    /\ TierOf \in [Domains -> {"T1", "T2", "T3", "banned"}]
    /\ Threshold \in Nat \ {0} /\ Prices \subseteq Nat
    /\ Specs \in [Range(Markets) -> Seq({"up", "down", "either"})]

VARIABLES
    now,         \* the clock
    feed,        \* items published so far -> their publication time
    events,      \* table news_events
    classified,  \* table classifications: the raw ids with a row
    refusals,    \* decisions that did not fire, as <<raw id, rejection_stage>>
    odds,        \* table polymarket_odds_history
    signals,     \* table triggered_signals, an id is an index
    alerted,     \* signals whose Telegram message went out
    buttons,     \* of these, the messages that still show their keyboard
    pm, rss,     \* the two jobs
    antiBias,    \* a price provider could be built at start-up
    faults       \* crashes and database failures so far

tables == <<events, classified, refusals, odds, signals>>
vars == <<now, feed, tables, alerted, buttons, pm, rss, antiBias, faults>>

-----------------------------------------------------------------------------
(* Identities and rows                                                     *)

RssId(i) == [domain |-> FeedOf[i], key |-> i, price |-> 0, minute |-> 0]
ShiftId(m, p, t) == [domain |-> PM, key |-> m, price |-> p, minute |-> t]
RawIds == {RssId(i) : i \in Items}
          \cup {ShiftId(m, p, t) : m \in Range(Markets), p \in Prices, t \in 0..MaxTime}
Event(raw, t) == [raw |-> raw, published |-> t]
Events == [raw : RawIds, published : 0..MaxTime]
Answers == {"confirmed", "skipped"}
Signals == [raw : RawIds, at : 0..MaxTime, action : Answers \cup {None}]
Observations == [market : Range(Markets), price : Prices, at : 0..MaxTime]
Topic(e) == TopicOf[e.raw.key]
Stored(raw) == \E e \in events : e.raw = raw

(* The rows of the tables: each classification and each decision is about  *)
(* a stored event, each signal about one that was classified.              *)
TablesOK ==
    /\ events \subseteq Events
    /\ classified \subseteq {e.raw : e \in events}
    /\ \A r \in refusals : r[1] \in {e.raw : e \in events}
    /\ odds \subseteq Observations
    /\ signals \in Seq(Signals)
    /\ \A s \in DOMAIN signals : signals[s].raw \in classified

(* The anti-bias gate is built at start-up if its provider can be.         *)
GateBuilt == BOOLEAN

Idle(due) == [phase |-> "idle", due |-> due, at |-> 0, left |-> <<>>,
              queue |-> <<>>, pending |-> 0, kept |-> FALSE, sig |-> 0]
Later(t, bound) == IF t <= bound THEN t ELSE bound

-----------------------------------------------------------------------------
(* The gates                                                               *)

Fresh(e) == now - e.published <= StaleAfter

(* The rules score first; the model is asked only about what they find     *)
(* promising and no low-tier source, and counts only if it is confident.   *)
Classify(d, l1, l2, conf) ==
    LET merged == (l2 * conf + l1 * (100 - conf)) \div 100
    IN  CASE TierOf[d] = "banned" -> [actionable |-> FALSE, score |-> 0]
          [] /\ L2Active /\ l1 >= L1Threshold /\ TierOf[d] # "T3"
             /\ conf >= 50 /\ l2 > 0
             -> [actionable |-> merged >= L2Threshold, score |-> merged]
          [] OTHER -> [actionable |-> l1 >= L1Threshold, score |-> l1]

Classes(d) == {Classify(d, l1, l2, conf) :
                  l1 \in L1Scores, l2 \in L2Scores, conf \in Confidences}

(* Events on the topic inside the window, the judged one included.         *)
Matches(e) ==
    {f \in events : /\ Topic(f) = Topic(e)
                    /\ f.published >= now - CorrWindow} \cup {e}

(* A plausible bug: articles are counted instead of the sites they are on. *)
CorroboratedByCount(e) ==
    \/ e.raw.domain \in Direct /\ TierOf[e.raw.domain] = "T1"
    \/ /\ Topic(e) # NoTopic
       /\ Cardinality(Matches(e)) >= 2

Corroborated(e) ==
    \/ e.raw.domain \in Direct /\ TierOf[e.raw.domain] = "T1"
    \/ /\ Topic(e) # NoTopic
       /\ Cardinality({f.raw.domain : f \in Matches(e)}) >= 2
       /\ \E f \in Matches(e) : TierOf[f.raw.domain] = "T1"

Triggers == SelectSeq(Mapping, LAMBDA t : t.ticker \notin Excluded)

(* What the anti-bias gate says of a trigger: it goes if the day's move in *)
(* its direction is spent, it is halved if the RSI says the same, and it   *)
(* stays if there is no data.                                              *)
AntiBias(trigger, known, move, rsi) ==
    LET long == trigger.direction = "long"
    IN  CASE ~known -> "pass"
          [] trigger.direction = "skip" -> "drop"
          [] IF long THEN move >= 5 ELSE move <= -5 -> "drop"
          [] IF long THEN rsi >= 70 ELSE rsi <= 30 -> "half"
          [] OTHER -> "pass"

(* The first gate that refuses event e, classified as c.                   *)
RefusingGate(e, c) ==
    CASE ~Fresh(e) -> "velocity"
      [] ~c.actionable -> "classifier"
      [] c.score < MinScore -> "score_threshold"
      [] ~c.mapped \/ Triggers = <<>> -> "mapping"
      [] ~Corroborated(e) -> "corroboration"
      [] OTHER -> None

-----------------------------------------------------------------------------
(* Polling                                                                 *)

Init ==
    /\ now = 0 /\ feed = <<>> /\ events = {} /\ classified = {}
    /\ refusals = {} /\ odds = {} /\ signals = <<>>
    /\ alerted = {} /\ buttons = {} /\ faults = 0
    /\ pm = Idle(0) /\ rss = Idle(0) /\ antiBias \in GateBuilt

Tick ==
    /\ now < MaxTime /\ now' = now + 1
    /\ UNCHANGED <<feed, tables, alerted, buttons, pm, rss, antiBias, faults>>

(* A feed shows an item, dated with the time it is published.              *)
Publish(i) ==
    /\ i \notin DOMAIN feed
    /\ feed' = [j \in DOMAIN feed \cup {i} |-> IF j = i THEN now ELSE feed[j]]
    /\ UNCHANGED <<now, tables, alerted, buttons, pm, rss, antiBias, faults>>

(* max_instances=1: a job that is still running is not started again.      *)
StartPolymarket ==
    /\ pm.phase = "idle" /\ now >= pm.due
    /\ pm' = [Idle(now + PollEvery) EXCEPT !.phase = "polling", !.at = now,
                                           !.left = Markets]
    /\ UNCHANGED <<now, feed, tables, alerted, buttons, rss, antiBias, faults>>

StartRss ==
    /\ rss.phase = "idle" /\ now >= rss.due
    /\ rss' = [Idle(Later(now + RssEvery, MaxTime)) EXCEPT
                  !.phase = "polling", !.left = Feeds]
    /\ UNCHANGED <<now, feed, tables, alerted, buttons, pm, antiBias, faults>>

(* A plausible bug: the whole history is compared, not the window.         *)
WindowOfAll(m, seen) == {o \in seen : o.market = m}

(* Prices seen on the market since the start of the window.                *)
Window(m, seen) ==
    {o \in seen : o.market = m /\ o.at >= pm.at - OddsWindow}

Sees(d, p, base) == \/ p - base >= Threshold /\ d \in {"up", "either"}
                    \/ base - p >= Threshold /\ d \in {"down", "either"}

(* The shift of price p against an oldest price of the window, if a watched*)
(* direction sees one: one event for every spec of the market that does.   *)
Shifted(m, p, base) ==
    LET hits == {i \in DOMAIN Specs[m] : Sees(Specs[m][i], p, base)}
    IN  [k \in 1..Cardinality(hits) |-> Event(ShiftId(m, p, pm.at), pm.at)]

(* The rest of the batch is done: rss_cycle goes on to its next feed.      *)
BatchDone(job) ==
    IF job.left = <<>> THEN Idle(job.due)
    ELSE [job EXCEPT !.phase = "polling", !.queue = <<>>, !.pending = 0,
                     !.kept = FALSE, !.sig = 0]

(* _process_events over what a poll returned.                              *)
Process(job, emitted) ==
    IF emitted = <<>> THEN BatchDone(job)
    ELSE [job EXCEPT !.phase = "judging", !.queue = emitted]

Pruned(seen) == {o \in seen : o.at >= now - KeepFor}

(* What the poll does after market Head(pm.left), with the events so far.  *)
Polled(emitted, seen) ==
    LET job == [pm EXCEPT !.left = Tail(@), !.queue = emitted]
    IN  IF job.left # <<>> THEN pm' = job /\ odds' = seen
        ELSE /\ pm' = Process(job, emitted)
             /\ odds' = Pruned(seen)

(* The next market is fetched, once for all its specs: unavailable, or a   *)
(* price that is stored and compared.  The last one prunes the history.    *)
PollMarketFails ==
    /\ pm.phase = "polling" /\ Polled(pm.queue, odds)
    /\ UNCHANGED <<now, feed, events, classified, refusals, signals,
                   alerted, buttons, rss, antiBias, faults>>

Observed(m, p) == odds \cup {[market |-> m, price |-> p, at |-> now]}

PollMarketOk ==
    /\ pm.phase = "polling"
    /\ LET m == Head(pm.left) IN
       \E p \in Prices :
         LET seen == Observed(m, p)
         IN  \E oldest \in Window(m, seen) :
               /\ \A o \in Window(m, seen) : oldest.at <= o.at
               /\ Polled(pm.queue \o Shifted(m, p, oldest.price), seen)
    /\ UNCHANGED <<now, feed, events, classified, refusals, signals,
                   alerted, buttons, rss, antiBias, faults>>

Published(f) == {i \in DOMAIN feed : FeedOf[i] = f}

(* The items a poll of feed f may look at.  A feed lists its newest item   *)
(* first, items of the same time in any order, and the poll keeps the head *)
(* of the list.                                                            *)
Shown(f) ==
    {S \in SUBSET Published(f) :
        /\ \/ S = Published(f) /\ Cardinality(S) <= MaxItems
           \/ Cardinality(S) = MaxItems
        /\ \A i \in S, j \in Published(f) \ S : feed[j] <= feed[i]}

(* A plausible bug: only what is dated since the last poll is looked at.   *)
NewItemsSince(shown) ==
    {Event(RssId(i), feed[i]) :
        i \in {j \in shown : ~Stored(RssId(j)) /\ feed[j] >= now - RssEvery}}

(* Of the items shown, those poll_once inserts and emits.                  *)
NewItems(shown) ==
    {Event(RssId(i), feed[i]) : i \in {j \in shown : ~Stored(RssId(j))}}

(* A feed is polled: the watcher stores items, then hands them on.         *)
Polls(items) ==
    /\ events' = events \cup items
    /\ rss' = Process([rss EXCEPT !.left = Tail(@)], SetToSeq(items))
    /\ UNCHANGED <<now, feed, classified, refusals, odds, signals,
                   alerted, buttons, pm, antiBias>>

PollFeedOk ==
    /\ rss.phase = "polling"
    /\ \E shown \in Shown(Head(rss.left)) : Polls(NewItems(shown))
    /\ UNCHANGED faults

PollFeedFails ==
    /\ rss.phase = "polling" /\ Polls({})
    /\ UNCHANGED faults

(* An insertion raises: what was stored before it is handed on all the     *)
(* same.                                                                   *)
PollFeedBreaks ==
    /\ rss.phase = "polling"
    /\ faults < MaxFaults /\ faults' = faults + 1
    /\ \E shown \in Shown(Head(rss.left)) :
         \E stored \in SUBSET NewItems(shown) : Polls(stored)

(* The request is never answered: feedparser.parse runs in an executor     *)
(* without a timeout, and the job waits for it until the process ends.     *)
FeedHangs ==
    /\ rss.phase = "polling"
    /\ rss' = [rss EXCEPT !.phase = "hung"]
    /\ UNCHANGED <<now, feed, tables, alerted, buttons, pm, antiBias, faults>>

-----------------------------------------------------------------------------
(* Judging.  job is the acting job before the step, next after it.         *)

(* A plausible bug: what was not new is tried again.                       *)
NextEventRetries(job) ==
    [job EXCEPT !.phase = "judging", !.pending = 0, !.kept = FALSE, !.sig = 0]

NextEvent(job) ==
    Process([job EXCEPT !.pending = 0, !.kept = FALSE, !.sig = 0], Tail(job.queue))

(* The id the database gives a new row, returned by the insert itself.     *)
NewSignalId == Len(signals) + 1

(* A plausible bug: one gate lets an event go without a decision.          *)
RefusedQuietly(raw, gate) ==
    IF gate \in {None, "corroboration"} THEN refusals ELSE refusals \cup {<<raw, gate>>}

Refused(raw, gate) ==
    IF gate = None THEN refusals ELSE refusals \cup {<<raw, gate>>}

(* A second verdict of the classifier replaces the first.                  *)
Upserted(raw) == classified \cup {raw}

InsertSignal(e, at) ==
    signals' = Append(signals, [raw |-> e.raw, at |-> at, action |-> None])

(* A plausible bug: the insert's verdict on duplicates is ignored.         *)
InsertIsNewAlways(raw) == TRUE

InsertIsNew(raw) == ~Stored(raw)

(* process_event up to its first await: the insert decides about           *)
(* duplicates, then the gates run in order and the first refusal ends it.  *)
Judge(job, next) ==
    /\ job.phase = "judging"
    /\ LET e == Head(job.queue) IN
       \/ /\ ~InsertIsNew(e.raw)
          /\ refusals' = Refused(e.raw, "insert")
          /\ next = NextEvent(job)
          /\ UNCHANGED <<events, classified, signals>>
       \/ /\ InsertIsNew(e.raw)
          /\ events' = events \cup {e}
          /\ \E k \in Classes(e.raw.domain), mapped \in BOOLEAN :
               LET c == [actionable |-> k.actionable, score |-> k.score,
                         mapped |-> mapped]
                   gate == RefusingGate(e, c)
               IN  /\ classified' = IF gate = "velocity" THEN classified ELSE Upserted(e.raw)
                   /\ refusals' = Refused(e.raw, gate)
                   /\ \/ /\ gate # None
                         /\ next = NextEvent(job) /\ UNCHANGED signals
                      \/ /\ gate = None /\ antiBias
                         /\ next = [job EXCEPT !.phase = "checking",
                                      !.pending = Len(Triggers), !.at = now]
                         /\ UNCHANGED signals
                      \/ /\ gate = None /\ ~antiBias
                         /\ InsertSignal(e, now)
                         /\ next = [job EXCEPT !.phase = "sending",
                                      !.sig = NewSignalId]

(* The prices of the next ticker arrive and its trigger stays or goes.     *)
(* After the last one the survivors become a signal, or the event is       *)
(* refused.                                                                *)
CheckTrigger(job, next) ==
    /\ job.phase = "checking"
    /\ LET e == Head(job.queue) IN
       \E known \in BOOLEAN, move \in Moves, rsi \in Rsis :
         LET t == Triggers[Len(Triggers) + 1 - job.pending]
             kept == job.kept \/ AntiBias(t, known, move, rsi) # "drop"
         IN
         \/ /\ job.pending > 1
            /\ next = [job EXCEPT !.pending = @ - 1, !.kept = kept]
            /\ UNCHANGED <<refusals, signals>>
         \/ /\ job.pending = 1 /\ ~kept
            /\ refusals' = Refused(e.raw, "anti_bias")
            /\ next = NextEvent(job) /\ UNCHANGED signals
         \/ /\ job.pending = 1 /\ kept
            /\ InsertSignal(e, job.at)
            /\ next = [job EXCEPT !.phase = "sending", !.sig = NewSignalId]
            /\ UNCHANGED refusals

(* The alert goes out, or the send raises and the alert is lost.           *)
Send(job, next) ==
    /\ job.phase = "sending"
    /\ next = NextEvent(job)
    /\ \/ alerted' = alerted \cup {job.sig} /\ buttons' = buttons \cup {job.sig}
       \/ UNCHANGED <<alerted, buttons>>

(* A database call raises inside process_event: what was committed stays,  *)
(* and the cycle's handler drops the rest of the batch.                    *)
Abort(job, next) ==
    /\ faults < MaxFaults /\ faults' = faults + 1
    /\ job.phase \in {"judging", "checking"}
    /\ next = BatchDone(job)
    /\ \/ UNCHANGED events
       \/ events' = IF Stored(Head(job.queue).raw) THEN events
                    ELSE events \cup {Head(job.queue)}

-----------------------------------------------------------------------------
(* The two jobs, the user, and crashes                                     *)

JobStep(job, next) ==
    \/ /\ Judge(job, next)
       /\ UNCHANGED <<now, feed, odds, alerted, buttons, antiBias, faults>>
    \/ /\ CheckTrigger(job, next)
       /\ UNCHANGED <<now, feed, events, classified, odds, alerted, buttons, antiBias, faults>>
    \/ /\ Send(job, next) /\ UNCHANGED <<now, feed, tables, antiBias, faults>>

JobAborts(job, next) ==
    /\ Abort(job, next)
    /\ UNCHANGED <<now, feed, classified, refusals, odds, signals, alerted, buttons,
                   antiBias>>

PmStep == JobStep(pm, pm') /\ UNCHANGED rss
RssStep == JobStep(rss, rss') /\ UNCHANGED pm
PmAborts == JobAborts(pm, pm') /\ UNCHANGED rss
RssAborts == JobAborts(rss, rss') /\ UNCHANGED pm

UpdateUserAction(s, answer) == signals' = [signals EXCEPT ![s].action = answer]

(* A button of an alert: the answer overwrites the last one; the keyboard  *)
(* goes, unless editing the message fails.                                 *)
Press(s, answer) ==
    /\ s \in buttons
    /\ UpdateUserAction(s, answer)
    /\ \/ buttons' = buttons \ {s}
       \/ UNCHANGED buttons
    /\ UNCHANGED <<now, feed, events, classified, refusals, odds, alerted,
                   pm, rss, antiBias, faults>>

(* The process dies, perhaps between two inserts of a feed's items, and is *)
(* started again: jobs begin after one interval with nothing in hand.      *)
Crash ==
    /\ faults < MaxFaults /\ faults' = faults + 1
    /\ pm' = Idle(now + PollEvery)
    /\ rss' = Idle(Later(now + RssEvery, MaxTime))
    /\ antiBias' \in GateBuilt
    /\ \/ UNCHANGED events
       \/ /\ rss.phase = "polling"
          /\ \E shown \in Shown(Head(rss.left)) :
               \E stored \in SUBSET NewItems(shown) : events' = events \cup stored
    /\ UNCHANGED <<now, feed, classified, refusals, odds, signals, alerted, buttons>>

Next ==
    \/ Tick
    \/ \E i \in Items : Publish(i)
    \/ StartPolymarket \/ PollMarketOk \/ PollMarketFails \/ PmStep \/ PmAborts
    \/ StartRss \/ PollFeedOk \/ PollFeedFails \/ PollFeedBreaks \/ FeedHangs
    \/ RssStep \/ RssAborts
    \/ \E s \in buttons, a \in Answers : Press(s, a)
    \/ Crash

Spec == Init /\ [][Next]_vars

(* The event loop runs whatever is ready, the scheduler starts a job when  *)
(* it is due, the clock advances.  The odds', prices' and Telegram's       *)
(* requests have timeouts.  A feed's has none: it is answered, fails or    *)
(* hangs, and a feed that is polled again and again answers sometimes.     *)
Fairness ==
    /\ WF_vars(Tick)
    /\ WF_vars(StartPolymarket) /\ WF_vars(PollMarketOk \/ PollMarketFails)
    /\ WF_vars(PmStep)
    /\ WF_vars(StartRss) /\ WF_vars(PollFeedOk \/ PollFeedFails \/ FeedHangs)
    /\ WF_vars(RssStep)
    /\ \A k \in DOMAIN Feeds :
         SF_vars(PollFeedOk /\ Head(rss.left) = Feeds[k])

FairSpec == Spec /\ Fairness

-----------------------------------------------------------------------------
(* Properties                                                              *)

Jobs == [phase : {"idle", "polling", "hung", "judging", "checking", "sending"},
         due : Nat, at : 0..MaxTime, left : Seq(Range(Feeds) \cup Range(Markets)),
         queue : Seq(Events), pending : 0..Len(Triggers),
         kept : BOOLEAN, sig : Nat]

(* The tables and the jobs hold rows and phases of their declared shapes,  *)
(* and a job sends only about a signal that exists.                        *)
TypeOK ==
    /\ now \in 0..MaxTime /\ faults \in 0..MaxFaults
    /\ TablesOK
    /\ alerted \subseteq DOMAIN signals /\ buttons \subseteq alerted
    /\ \A job \in {pm, rss} :
         job \in Jobs /\ (job.phase = "sending" => job.sig \in DOMAIN signals)

(* pipeline.py:133 and the unique key of news_events: over polls, specs    *)
(* that watch the same market, aborted batches and restarts, one event     *)
(* gets at most one verdict: one signal, or one refusing gate.             *)
OneVerdictPerEvent ==
    \A raw \in {e.raw : e \in events} :
      Cardinality({s \in DOMAIN signals : signals[s].raw = raw})
      + Cardinality({r \in refusals : r[1] = raw /\ r[2] # "insert"}) <= 1

(* corroboration_gate.py:121-125: whatever happens while prices are        *)
(* awaited, the store holds for every signal an event of another site on   *)
(* the same topic, inside the window when the gate looked, unless the      *)
(* source needs none.                                                      *)
FiredIsCorroborated ==
    \A s \in DOMAIN signals :
      \/ signals[s].raw.domain \in Direct
      \/ \E e \in events : /\ e.raw.domain # signals[s].raw.domain
                           /\ Topic(e) = TopicOf[signals[s].raw.key]
                           /\ e.published >= signals[s].at - CorrWindow

(* An odds event is stored before it is judged and a stored event is never *)
(* judged again (pipeline.py:133): outside the batch in hand, only a crash *)
(* or a failed database call leaves one without a verdict.                 *)
UnjudgedNeedsFault ==
    \A e \in events :
      \/ e.raw.domain # PM \/ faults > 0
      \/ \E s \in DOMAIN signals : signals[s].raw = e.raw
      \/ \E r \in refusals : r[1] = e.raw /\ r[2] # "insert"
      \/ pm.queue # <<>> /\ Head(pm.queue) = e

(* polymarket.py:405-411: an odds event stands for two observations of the *)
(* market, the older one inside the window, a threshold apart; the history *)
(* shows them until the older one is due for pruning (db.py:570-576).      *)
ObservedFor(raw) ==
    \E o, q \in odds :
      /\ o.market = raw.key /\ q.market = raw.key
      /\ q.price = raw.price /\ q.at >= raw.minute
      /\ o.at >= raw.minute - OddsWindow
      /\ \/ q.price - o.price >= Threshold
         \/ o.price - q.price >= Threshold
ShiftWasObserved ==
    \A e \in events :
      e.raw.domain = PM /\ e.raw.minute - OddsWindow >= now - KeepFor
        => ObservedFor(e.raw)

(* As many newer items of its feed as a poll looks at hide item i.         *)
CrowdedOut(i) ==
    /\ i \in DOMAIN feed
    /\ Cardinality({j \in Published(FeedOf[i]) \ {i} : feed[j] >= feed[i]}) >= MaxItems

(* rss_base.py:66-106: whatever polls fail and wherever a crash or a failed*)
(* insertion falls, what a feed publishes is stored in the end, unless its *)
(* feed published max_items_per_poll newer items (rss_base.py:73) or a feed*)
(* hangs and nobody restarts the process.                                  *)
PublishedIsStored ==
    \/ <>[](rss.phase = "hung")
    \/ \A i \in Items :
         (i \in DOMAIN feed) ~> (Stored(RssId(i)) \/ CrowdedOut(i))

(* With max_instances=1 a cycle that does not end stops its source for good*)
(* (bot_runner.py:464-472).  Nothing but a feed that hangs does that, and  *)
(* the odds' cycles end all the same.                                      *)
CyclesEnd ==
    /\ (pm.phase # "idle") ~> (pm.phase = "idle")
    /\ (rss.phase # "idle") ~> (rss.phase \in {"idle", "hung"})

(* sources/government.py:12-13, "a single event from these passes the gate *)
(* without needing a second source": an event of a direct source that the  *)
(* pipeline was handed has been classified, not turned away.               *)
DirectSourceReachesGate ==
    \A r \in refusals :
      r[2] = "insert" /\ r[1].domain \in Direct => r[1] \in classified

=============================================================================
