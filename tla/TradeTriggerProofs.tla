------------------------- MODULE TradeTriggerProofs -------------------------
(***************************************************************************)
(* Theorems about TradeTrigger for every set of feeds, items, markets and  *)
(* scores, every window and interval, and any number of crashes and failed *)
(* database calls: an event has one verdict, only a fault leaves an odds   *)
(* event without one, a signal is corroborated, an odds event stands for   *)
(* two observations, nothing a feed publishes is ever judged, and a signal *)
(* is alerted about once at most.                                          *)
(***************************************************************************)
EXTENDS TradeTrigger, FiniteSetTheorems, FunctionTheorems, SequenceTheorems, TLAPS

-----------------------------------------------------------------------------
(* The inductive invariant, conjunct by conjunct.                          *)

OddsEvents == {e \in Events : e.raw.domain = PM}
FeedEvents == {e \in Events : e.raw.domain # PM}

(* A job holds what its phase needs.                                       *)
IsJob(j) ==
    j \in [phase : {j.phase}, due : {j.due}, at : {j.at}, left : {j.left},
           queue : {j.queue}, pending : {j.pending}, kept : {j.kept}, sig : {j.sig}]
Ordered(j, sources, batch) ==
    /\ IsJob(j)
    /\ j.left \in Seq(sources) /\ j.queue \in Seq(batch)
    /\ (j.phase = "polling") => j.left # <<>>
    /\ (j.phase \in {"judging", "checking", "sending"}) => j.queue # <<>>
    /\ j.phase \in {"idle", "polling", "hung", "judging", "checking", "sending"}

PmOK == /\ Ordered(pm, Range(Markets), OddsEvents)
        /\ pm.at \in 0..now
(* The feed job is handed stored items only, so it never gets past their   *)
(* insertion.                                                              *)
RssOK == /\ Ordered(rss, Range(Feeds), FeedEvents \cap events)
         /\ rss.phase \in {"idle", "polling", "hung", "judging"}

FeedOK == /\ feed \in [DOMAIN feed -> 0..MaxTime]
          /\ DOMAIN feed \subseteq Items /\ IsFiniteSet(DOMAIN feed)

TypesOK ==
    /\ now \in 0..MaxTime /\ faults \in Nat
    /\ events \subseteq Events
    /\ classified \subseteq {e.raw : e \in events}
    /\ \A r \in refusals : r[1] \in {e.raw : e \in events}
    /\ odds \subseteq Observations
    /\ signals \in Seq(Signals)
    /\ \A s \in DOMAIN signals : signals[s].raw \in classified

(* No feed item is ever classified.                                        *)
OddsOnly == \A raw \in classified : raw.domain = PM

HasSignal(raw) == \E s \in DOMAIN signals : signals[s].raw = raw
HasRefusal(raw) == \E r \in refusals : r[1] = raw /\ r[2] # "insert"
HasVerdict(raw) == HasSignal(raw) \/ HasRefusal(raw)

VerdictsUnique ==
    /\ \A s, t \in DOMAIN signals : signals[s].raw = signals[t].raw => s = t
    /\ \A q, r \in refusals : q[1] = r[1] /\ q[2] # "insert" /\ r[2] # "insert" => q = r
    /\ \A raw \in RawIds : ~(HasSignal(raw) /\ HasRefusal(raw))

(* The event whose triggers are being checked is stored and classified and *)
(* has no verdict; it is corroborated, as the gate saw it.                 *)
CorroboratedAt(raw, t) ==
    \/ raw.domain \in Direct
    \/ \E e \in events : /\ e.raw.domain # raw.domain
                         /\ Topic(e) = TopicOf[raw.key]
                         /\ e.published >= t - CorrWindow
CheckedIsOpen ==
    \A e \in OddsEvents, t \in 0..MaxTime :
      pm.phase = "checking" /\ Head(pm.queue) = e /\ pm.at = t
        => /\ e \in events /\ e.raw \in classified /\ ~HasVerdict(e.raw)
           /\ CorroboratedAt(e.raw, t)

SignalsCorroborated ==
    \A raw \in RawIds, t \in 0..MaxTime :
      (\E s \in DOMAIN signals : signals[s].raw = raw /\ signals[s].at = t)
        => CorroboratedAt(raw, t)

JudgedOrChecked ==
    faults = 0 =>
      \A e \in OddsEvents :
        e \in events =>
          \/ HasVerdict(e.raw)
          \/ pm.phase = "checking" /\ Head(pm.queue) = e

InHand(raw) == \E k \in DOMAIN pm.queue : pm.queue[k].raw = raw
ShiftsObserved ==
    \A raw \in RawIds :
      /\ raw.domain = PM /\ (Stored(raw) \/ InHand(raw))
      /\ raw.minute - OddsWindow >= now - KeepFor
      => ObservedFor(raw)

Judging ==
    /\ TypesOK /\ FeedOK /\ PmOK /\ RssOK
    /\ OddsOnly /\ VerdictsUnique /\ CheckedIsOpen
    /\ SignalsCorroborated /\ JudgedOrChecked /\ ShiftsObserved

-----------------------------------------------------------------------------
(* Jobs.                                                                   *)

\* A job that rests has nothing out of order.
LEMMA IdleIsOrdered ==
  ASSUME NEW due, NEW sources, NEW batch
  PROVE  /\ Ordered(Idle(due), sources, batch)
         /\ Idle(due).phase = "idle" /\ Idle(due).queue = <<>> /\ Idle(due).at = 0
  BY DEF Idle, Ordered, IsJob

(* When its batch is done a job is idle or goes on to its next source.     *)
LEMMA BatchDoneIsOrdered ==
  ASSUME NEW j, NEW sources, NEW batch, IsJob(j), j.left \in Seq(sources)
  PROVE  /\ Ordered(BatchDone(j), sources, batch)
         /\ BatchDone(j).phase \in {"idle", "polling"} /\ BatchDone(j).queue = <<>>
         /\ BatchDone(j).at \in {0, j.at}
  BY IdleIsOrdered DEF BatchDone, Ordered, IsJob

(* A job that is handed a batch judges it, or is done with it if it is     *)
(* empty.                                                                  *)
LEMMA ProcessIsOrdered ==
  ASSUME NEW j, NEW sources, NEW batch, NEW emitted \in Seq(batch),
         IsJob(j), j.left \in Seq(sources)
  PROVE  /\ Ordered(Process(j, emitted), sources, batch)
         /\ Process(j, emitted).phase \in {"idle", "polling", "judging"}
         /\ Process(j, emitted).queue = emitted /\ Process(j, emitted).at \in {0, j.at}
<1>1. CASE emitted = <<>>
  BY <1>1, BatchDoneIsOrdered DEF Process
<1>2. CASE emitted # <<>>
  BY <1>2 DEF Process, Ordered, IsJob
<1>. QED
  BY <1>1, <1>2

\* Going on to the next event keeps a job in order.
LEMMA NextEventIsOrdered ==
  ASSUME NEW j, NEW sources, NEW batch, Ordered(j, sources, batch), j.queue # <<>>
  PROVE  /\ Ordered(NextEvent(j), sources, batch)
         /\ NextEvent(j).phase \in {"idle", "polling", "judging"}
         /\ NextEvent(j).queue = Tail(j.queue) /\ NextEvent(j).at \in {0, j.at}
<1> DEFINE i == [j EXCEPT !.pending = 0, !.kept = FALSE, !.sig = 0]
<1>1. IsJob(i) /\ i.left = j.left /\ i.at = j.at
  BY DEF Ordered, IsJob
<1>2. Tail(j.queue) \in Seq(batch) /\ j.left \in Seq(sources)
  BY DEF Ordered
<1>3. NextEvent(j) = Process(i, Tail(j.queue))
  BY DEF NextEvent
<1>. HIDE DEF i
<1>4. i.left \in Seq(sources)
  BY <1>1, <1>2
<1>5. /\ Ordered(Process(i, Tail(j.queue)), sources, batch)
      /\ Process(i, Tail(j.queue)).phase \in {"idle", "polling", "judging"}
      /\ Process(i, Tail(j.queue)).queue = Tail(j.queue)
      /\ Process(i, Tail(j.queue)).at \in {0, i.at}
  BY <1>1, <1>2, <1>4, ProcessIsOrdered
<1>. QED
  BY <1>1, <1>3, <1>5

(* The events behind the head of a batch were in it.                       *)
LEMMA TailInBatch ==
  ASSUME NEW S, NEW q \in Seq(S), q # <<>>
  PROVE  /\ Head(q) = q[1] /\ 1 \in DOMAIN q /\ Head(q) \in S
         /\ \A k \in DOMAIN Tail(q) : \E m \in DOMAIN q : Tail(q)[k] = q[m]
<1>1. Len(q) \in Nat /\ Len(q) > 0 /\ Head(q) = q[1] /\ 1 \in DOMAIN q /\ Head(q) \in S
  OBVIOUS
<1>2. /\ Tail(q) \in Seq(S) /\ Len(Tail(q)) = Len(q) - 1
      /\ \A k \in 1..Len(Tail(q)) : Tail(q)[k] = q[k + 1]
  BY HeadTailProperties
<1>3. ASSUME NEW k \in DOMAIN Tail(q)
      PROVE  \E m \in DOMAIN q : Tail(q)[k] = q[m]
  <2>1. k \in 1..Len(Tail(q))
    BY <1>2
  <2>2. k + 1 \in DOMAIN q
    BY <1>1, <1>2, <2>1
  <2>. QED
    BY <1>2, <2>1, <2>2
<1>. QED
  BY <1>1, <1>3

(* What SetToSeq makes of a finite set is a sequence over it.              *)
LEMMA SequenceOfSet ==
  ASSUME NEW S, IsFiniteSet(S)
  PROVE  SetToSeq(S) \in Seq(S)
<1>1. /\ Cardinality(S) \in Nat
      /\ ExistsBijection(1..Cardinality(S), S)
  BY FS_CardinalityType
<1>2. PICK f : f \in Bijection(1..Cardinality(S), S)
  BY <1>1, Fun_ExistsBij
<1>3. f \in [1..Cardinality(S) -> S] /\ IsInjective(f)
  <2>1. /\ f \in [1..Cardinality(S) -> S]
        /\ \A a, b \in 1..Cardinality(S) : f[a] = f[b] => a = b
    BY <1>2, Fun_BijectionProperties
  <2>. QED
    BY <2>1 DEF IsInjective
<1>4. SetToSeq(S) \in [1..Cardinality(S) -> S]
  BY <1>3 DEF SetToSeq
<1>. QED
  BY <1>1, <1>4

-----------------------------------------------------------------------------
(* Steps that give no verdict and see no price.                            *)

(* Such a step keeps what is said of the tables: rows are only added,      *)
(* odds events only out of the batch in hand and by a fault, refusals only *)
(* by the insert, and an event that is being checked stays so, or a fault  *)
(* ends the batch.                                                         *)
LEMMA TablesFrame ==
  ASSUME Judging,
         now' \in 0..MaxTime, now' >= now, faults' \in Nat, faults' >= faults,
         events \subseteq events', events' \subseteq Events,
         \A e \in events' : \/ e \in events \/ e.raw.domain # PM
                            \/ faults' > 0 /\ InHand(e.raw),
         UNCHANGED <<classified, odds>>,
         refusals \subseteq refusals',
         \A r \in refusals' : \/ r \in refusals
                              \/ r[2] = "insert" /\ r[1] \in {e.raw : e \in events'},
         signals' \in Seq(Signals), DOMAIN signals' = DOMAIN signals,
         \A s \in DOMAIN signals : /\ signals'[s].raw = signals[s].raw
                                   /\ signals'[s].at = signals[s].at,
         (pm'.phase = "checking") => pm' = pm,
         (pm.phase = "checking") => pm' = pm \/ faults' > 0,
         \A raw \in RawIds : InHand(raw)' => InHand(raw)
  PROVE  /\ TypesOK' /\ OddsOnly' /\ VerdictsUnique' /\ CheckedIsOpen'
         /\ SignalsCorroborated' /\ JudgedOrChecked' /\ ShiftsObserved'
<1>1. TypesOK' /\ OddsOnly'
  BY DEF Judging, TypesOK, OddsOnly
<1>2. ASSUME NEW raw
      PROVE  /\ HasSignal(raw)' <=> HasSignal(raw)
             /\ HasRefusal(raw)' <=> HasRefusal(raw)
  BY DEF HasSignal, HasRefusal
<1>3. VerdictsUnique'
  BY <1>2 DEF Judging, VerdictsUnique
<1>4. \A raw, t : CorroboratedAt(raw, t) => CorroboratedAt(raw, t)'
  BY DEF CorroboratedAt
<1>5. CheckedIsOpen'
  BY <1>2, <1>4 DEF Judging, CheckedIsOpen, HasVerdict
<1>6. SignalsCorroborated'
  BY <1>4 DEF Judging, SignalsCorroborated
<1>7. JudgedOrChecked'
  <2>. SUFFICES ASSUME faults' = 0, NEW e \in OddsEvents, e \in events'
                PROVE  \/ HasVerdict(e.raw)'
                       \/ pm'.phase = "checking" /\ Head(pm'.queue) = e
    BY DEF JudgedOrChecked
  <2>1. faults = 0 /\ e \in events
    BY DEF Judging, TypesOK, OddsEvents
  <2>. QED
    BY <2>1, <1>2 DEF Judging, JudgedOrChecked, HasVerdict
<1>8. ShiftsObserved'
  <2>. SUFFICES ASSUME NEW raw \in RawIds, raw.domain = PM, (Stored(raw) \/ InHand(raw))',
                       raw.minute - OddsWindow >= now' - KeepFor
                PROVE  ObservedFor(raw)'
    BY DEF ShiftsObserved
  <2>1. Stored(raw) \/ InHand(raw)
    BY DEF Stored
  <2>2. raw.minute \in Int /\ now \in Int /\ OddsWindow \in Int /\ KeepFor \in Int
    BY ClockAssumption DEF Judging, TypesOK, RawIds, RssId, ShiftId
  <2>3. raw.minute - OddsWindow >= now - KeepFor
    BY <2>2
  <2>. QED
    BY <2>1, <2>3 DEF Judging, ShiftsObserved, ObservedFor
<1>. QED
  BY <1>1, <1>3, <1>5, <1>6, <1>7, <1>8

\* The items a poll finds are finitely many events of feeds.
LEMMA NewItemsAreFeedEvents ==
  ASSUME Judging, NEW f, NEW shown \in Shown(f)
  PROVE  NewItems(shown) \subseteq FeedEvents /\ IsFiniteSet(NewItems(shown))
<1> DEFINE I == {j \in shown : ~Stored(RssId(j))}
           g == [i \in I |-> Event(RssId(i), feed[i])]
<1>0. shown \subseteq DOMAIN feed
  BY DEF Shown, Published
<1>1. ASSUME NEW i \in I
      PROVE  Event(RssId(i), feed[i]) \in FeedEvents
  <2>1. i \in Items /\ feed[i] \in 0..MaxTime
    BY <1>0 DEF Judging, FeedOK
  <2>2. RssId(i) \in RawIds /\ RssId(i).domain # PM
    BY <2>1, SourceAssumption DEF RawIds, RssId
  <2>. QED
    BY <2>1, <2>2 DEF Event, Events, FeedEvents
<1>2. NewItems(shown) = {g[i] : i \in I}
  BY DEF NewItems
<1>3. g \in Surjection(I, NewItems(shown))
  BY <1>2 DEF Surjection
<1>4. IsFiniteSet(I)
  BY <1>0, FS_Subset DEF Judging, FeedOK
<1>5. IsFiniteSet(NewItems(shown))
  BY <1>3, <1>4, FS_Surjection
<1>6. NewItems(shown) \subseteq FeedEvents
  BY <1>1 DEF NewItems
<1>. QED
  BY <1>5, <1>6

(* The feed job's batch is of stored items, whatever is stored besides.    *)
LEMMA RssKept ==
  ASSUME RssOK, rss' = rss, events \subseteq events'
  PROVE  RssOK'
<1>1. FeedEvents \cap events \subseteq FeedEvents \cap events'
  OBVIOUS
<1>2. rss.queue \in Seq(FeedEvents \cap events')
  BY <1>1, SeqMonotonic DEF RssOK, Ordered
<1>. QED
  BY <1>2 DEF RssOK, Ordered, IsJob

\* A job that does nothing stays in order while time passes.
LEMMA PmKept ==
  ASSUME PmOK, pm' = pm, now \in Nat, now' \in Nat, now' >= now
  PROVE  PmOK'
  BY DEF PmOK, Ordered, IsJob

\* The invariant holds when the bot starts.
LEMMA InitIsJudging ==
  ASSUME Init
  PROVE  Judging
<1>1. PmOK /\ RssOK
  <2>1. /\ Ordered(Idle(0), Range(Markets), OddsEvents)
        /\ Ordered(Idle(0), Range(Feeds), FeedEvents \cap events)
        /\ Idle(0).phase = "idle" /\ Idle(0).at = 0
    BY IdleIsOrdered
  <2>. QED
    BY <2>1 DEF Init, PmOK, RssOK
<1>2. FeedOK
  BY FS_EmptySet DEF Init, FeedOK
<1>3. TypesOK
  BY ClockAssumption DEF Init, TypesOK
<1>4. pm.phase = "idle" /\ pm.queue = <<>>
  BY IdleIsOrdered DEF Init
<1>5. OddsOnly /\ VerdictsUnique /\ CheckedIsOpen /\ SignalsCorroborated
  BY <1>4 DEF Init, OddsOnly, VerdictsUnique, CheckedIsOpen, SignalsCorroborated,
              HasSignal, HasRefusal
<1>6. JudgedOrChecked /\ ShiftsObserved
  BY <1>4 DEF Init, JudgedOrChecked, ShiftsObserved, Stored, InHand
<1>. QED
  BY <1>1, <1>2, <1>3, <1>5, <1>6 DEF Judging

\* The passing of time keeps the invariant.
LEMMA TickKeeps ==
  ASSUME Judging, Tick
  PROVE  Judging'
<1>1. now \in Nat /\ now' \in 0..MaxTime /\ now' >= now /\ faults \in Nat
  BY ClockAssumption DEF Judging, TypesOK, Tick
<1>2. UNCHANGED <<feed, tables, pm, rss, faults>>
  BY DEF Tick
<1>3. PmOK' /\ RssOK' /\ FeedOK'
  BY <1>1, <1>2, PmKept, RssKept DEF Judging, tables, FeedOK
<1>4. signals' \in Seq(Signals) /\ events' \subseteq Events
  BY <1>2 DEF tables, Judging, TypesOK
<1>5. \A raw \in RawIds : InHand(raw)' => InHand(raw)
  BY <1>2 DEF InHand
<1>. QED
  BY <1>1, <1>2, <1>3, <1>4, <1>5, TablesFrame DEF Judging, tables

\* An item published by a feed keeps the invariant.
LEMMA PublishKeeps ==
  ASSUME Judging, NEW i \in Items, Publish(i)
  PROVE  Judging'
<1>1. now \in 0..MaxTime /\ now \in Nat /\ faults \in Nat
  BY ClockAssumption DEF Judging, TypesOK
<1>2. UNCHANGED <<now, tables, pm, rss, faults>>
  BY DEF Publish
<1>3. FeedOK'
  <2>1. DOMAIN feed' = DOMAIN feed \cup {i}
    BY DEF Publish
  <2>2. IsFiniteSet(DOMAIN feed')
    BY <2>1, FS_AddElement DEF Judging, FeedOK
  <2>3. \A j \in DOMAIN feed' : feed'[j] \in 0..MaxTime
    BY <1>1 DEF Publish, Judging, FeedOK
  <2>4. feed' = [j \in DOMAIN feed' |-> feed'[j]]
    BY DEF Publish
  <2>5. DOMAIN feed' \subseteq Items
    BY <2>1 DEF Judging, FeedOK
  <2>. QED
    BY <2>2, <2>3, <2>4, <2>5 DEF FeedOK
<1>4. PmOK' /\ RssOK'
  BY <1>1, <1>2, PmKept, RssKept DEF Judging, tables
<1>5. signals' \in Seq(Signals) /\ events' \subseteq Events
  BY <1>2 DEF tables, Judging, TypesOK
<1>6. \A raw \in RawIds : InHand(raw)' => InHand(raw)
  BY <1>2 DEF InHand
<1>. QED
  BY <1>1, <1>2, <1>3, <1>4, <1>5, <1>6, TablesFrame DEF Judging, tables

\* The start of a market poll keeps the invariant.
LEMMA StartPolymarketKeeps ==
  ASSUME Judging, StartPolymarket
  PROVE  Judging'
<1>1. now \in 0..MaxTime /\ now \in Nat /\ faults \in Nat
  BY ClockAssumption DEF Judging, TypesOK
<1>2. UNCHANGED <<now, feed, tables, rss, faults>>
  BY DEF StartPolymarket
<1>3. /\ Ordered(pm', Range(Markets), OddsEvents)
      /\ pm'.phase = "polling" /\ pm'.queue = <<>> /\ pm'.at = now
  <2> DEFINE j == Idle(now + PollEvery)
  <2>1. IsJob(j) /\ j.queue = <<>>
    BY IdleIsOrdered DEF Ordered
  <2>2. pm' = [j EXCEPT !.phase = "polling", !.at = now, !.left = Markets]
    BY DEF StartPolymarket
  <2>. HIDE DEF j
  <2>3. /\ IsJob(pm') /\ pm'.phase = "polling" /\ pm'.at = now
        /\ pm'.left = Markets /\ pm'.queue = <<>>
    BY <2>1, <2>2 DEF IsJob
  <2>. QED
    BY <2>3, SourceAssumption DEF Ordered
<1>4. PmOK' /\ RssOK' /\ FeedOK'
  BY <1>1, <1>2, <1>3, RssKept DEF Judging, tables, FeedOK, PmOK
<1>5. signals' \in Seq(Signals) /\ events' \subseteq Events
  BY <1>2 DEF tables, Judging, TypesOK
<1>6. \A raw \in RawIds : InHand(raw)' => InHand(raw)
  BY <1>3 DEF InHand
<1>7. pm.phase # "checking"
  BY DEF StartPolymarket
<1>. QED
  BY <1>1, <1>2, <1>3, <1>4, <1>5, <1>6, <1>7, TablesFrame DEF Judging, tables

(* A step of the feed job that leaves the odds job and its rows alone: new *)
(* rows of the event table are feed items, new refusals are the insert's.  *)
LEMMA FeedJobFrame ==
  ASSUME Judging, RssOK', faults' \in Nat, faults' >= faults,
         UNCHANGED <<now, feed, classified, odds, signals, pm>>,
         events \subseteq events', events' \subseteq events \cup FeedEvents,
         refusals \subseteq refusals',
         \A r \in refusals' : \/ r \in refusals
                              \/ r[2] = "insert" /\ r[1] \in {e.raw : e \in events'}
  PROVE  Judging'
<1>1. now \in 0..MaxTime /\ now \in Nat
  BY ClockAssumption DEF Judging, TypesOK
<1>2. PmOK' /\ FeedOK'
  BY <1>1, PmKept DEF Judging, FeedOK
<1>3. /\ signals' \in Seq(Signals) /\ events' \subseteq Events
      /\ \A e \in events' : e \in events \/ e.raw.domain # PM
  BY DEF Judging, TypesOK, FeedEvents
<1>4. \A raw \in RawIds : InHand(raw)' => InHand(raw)
  BY DEF InHand
<1>. QED
  BY <1>1, <1>2, <1>3, <1>4, TablesFrame DEF Judging

\* The start of a feed poll keeps the invariant.
LEMMA StartRssKeeps ==
  ASSUME Judging, StartRss
  PROVE  Judging'
<1>1. RssOK'
  <2> DEFINE j == Idle(Later(now + RssEvery, MaxTime))
  <2>1. IsJob(j) /\ j.queue = <<>>
    BY IdleIsOrdered DEF Ordered
  <2>2. rss' = [j EXCEPT !.phase = "polling", !.left = Feeds]
    BY DEF StartRss
  <2>. HIDE DEF j
  <2>3. /\ IsJob(rss') /\ rss'.phase = "polling"
        /\ rss'.left = Feeds /\ rss'.queue = <<>>
    BY <2>1, <2>2 DEF IsJob
  <2>. QED
    BY <2>3, SourceAssumption DEF Ordered, RssOK
<1>2. faults' \in Nat /\ faults' >= faults
  BY DEF StartRss, Judging, TypesOK
<1>. QED
  BY <1>1, <1>2, FeedJobFrame DEF StartRss, tables

\* A feed's request that is answered, fails, or finds its insertions broken
\* off keeps the invariant.
LEMMA PollFeedKeeps ==
  ASSUME Judging, PollFeedOk \/ PollFeedFails \/ PollFeedBreaks
  PROVE  Judging'
<1> DEFINE j == [rss EXCEPT !.left = Tail(@)]
<1>1. rss.phase = "polling" /\ faults' \in Nat /\ faults' >= faults
  BY DEF PollFeedOk, PollFeedFails, PollFeedBreaks, Judging, TypesOK
<1>2. IsJob(j) /\ j.left \in Seq(Range(Feeds))
  <2>1. IsJob(rss) /\ rss.left \in Seq(Range(Feeds)) /\ rss.left # <<>>
    BY <1>1 DEF Judging, RssOK, Ordered
  <2>2. Tail(rss.left) \in Seq(Range(Feeds))
    BY <2>1, HeadTailProperties
  <2>3. IsJob(j) /\ j.left = Tail(rss.left)
    BY <2>1 DEF IsJob
  <2>. QED
    BY <2>2, <2>3
<1>3. PICK items : items \subseteq FeedEvents /\ IsFiniteSet(items) /\ Polls(items)
  <2>1. CASE PollFeedOk
    BY <2>1, NewItemsAreFeedEvents DEF PollFeedOk
  <2>2. CASE PollFeedFails
    BY <2>2, FS_EmptySet DEF PollFeedFails
  <2>3. CASE PollFeedBreaks
    BY <2>3, NewItemsAreFeedEvents, FS_Subset DEF PollFeedBreaks
  <2>. QED
    BY <2>1, <2>2, <2>3
<1>4. SetToSeq(items) \in Seq(items)
  BY <1>3, SequenceOfSet
<1>5. events' = events \cup items /\ rss' = Process(j, SetToSeq(items))
  BY <1>3 DEF Polls
<1>. HIDE DEF j
<1>6. SetToSeq(items) \in Seq(FeedEvents \cap events')
  <2>1. items \subseteq FeedEvents \cap events'
    BY <1>3, <1>5
  <2>. QED
    BY <1>4, <2>1, SeqMonotonic
<1>7. /\ Ordered(rss', Range(Feeds), FeedEvents \cap events')
      /\ rss'.phase \in {"idle", "polling", "judging"}
  BY <1>2, <1>5, <1>6, ProcessIsOrdered
<1>8. RssOK'
  BY <1>7 DEF RssOK
<1>9. UNCHANGED <<now, feed, classified, refusals, odds, signals, pm>>
  BY <1>3 DEF Polls
<1>. QED
  BY <1>1, <1>3, <1>5, <1>8, <1>9, FeedJobFrame

\* A request that is never answered keeps the invariant.
LEMMA FeedHangsKeeps ==
  ASSUME Judging, FeedHangs
  PROVE  Judging'
<1>1. /\ UNCHANGED <<now, feed, events, classified, refusals, odds, signals, pm, faults>>
      /\ rss.phase = "polling" /\ rss' = [rss EXCEPT !.phase = "hung"]
  BY DEF FeedHangs, tables
<1>2. Ordered(rss, Range(Feeds), FeedEvents \cap events)
  BY DEF Judging, RssOK
<1>3. IsJob(rss') /\ rss'.phase = "hung" /\ rss'.left = rss.left /\ rss'.queue = rss.queue
  BY <1>1, <1>2 DEF Ordered, IsJob
<1>4. RssOK'
  BY <1>1, <1>2, <1>3 DEF Ordered, RssOK
<1>5. faults' \in Nat /\ faults' >= faults
  BY <1>1 DEF Judging, TypesOK
<1>. QED
  BY <1>1, <1>4, <1>5, FeedJobFrame

(* Whatever the feed job judges is a duplicate of itself: it was stored    *)
(* when it was polled.                                                     *)
LEMMA RssStepKeeps ==
  ASSUME Judging, RssStep
  PROVE  Judging'
<1>1. rss.phase \in {"idle", "polling", "hung", "judging"} /\ UNCHANGED pm
  BY DEF Judging, RssOK, RssStep
<1>2. /\ Judge(rss, rss')
      /\ UNCHANGED <<now, feed, odds, faults>>
  BY <1>1 DEF RssStep, JobStep, CheckTrigger, Send
<1>3. rss.queue # <<>> /\ rss.queue \in Seq(FeedEvents \cap events)
  BY <1>2 DEF Judge, Judging, RssOK, Ordered
<1>4. Head(rss.queue) \in events /\ ~InsertIsNew(Head(rss.queue).raw)
  BY <1>3, TailInBatch DEF InsertIsNew, Stored
<1>5. /\ refusals' = Refused(Head(rss.queue).raw, "insert")
      /\ rss' = NextEvent(rss)
      /\ UNCHANGED <<events, classified, signals>>
  BY <1>2, <1>4 DEF Judge
<1>6. RssOK'
  BY <1>3, <1>5, NextEventIsOrdered DEF Judging, RssOK
<1>7. refusals' = refusals \cup {<<Head(rss.queue).raw, "insert">>}
  BY <1>5 DEF Refused, None
<1>8. faults' \in Nat /\ faults' >= faults
  BY <1>2 DEF Judging, TypesOK
<1>. QED
  BY <1>1, <1>2, <1>4, <1>5, <1>6, <1>7, <1>8, FeedJobFrame

\* A feed poll that is given up keeps the invariant.
LEMMA RssAbortsKeeps ==
  ASSUME Judging, RssAborts
  PROVE  Judging'
<1>1. /\ UNCHANGED <<now, feed, classified, refusals, odds, signals, pm>>
      /\ rss.phase \in {"judging", "checking"} /\ rss' = BatchDone(rss)
      /\ faults' = faults + 1
  BY DEF RssAborts, JobAborts, Abort
<1>2. rss.queue # <<>> /\ rss.queue \in Seq(FeedEvents \cap events)
  BY <1>1 DEF Judging, RssOK, Ordered
<1>3. Head(rss.queue) \in events
  BY <1>2, TailInBatch
<1>4. events' = events
  BY <1>3 DEF RssAborts, JobAborts, Abort, Stored
<1>5. RssOK'
  BY <1>1, BatchDoneIsOrdered DEF Judging, RssOK, Ordered
<1>6. faults' \in Nat /\ faults' >= faults
  BY <1>1 DEF Judging, TypesOK
<1>. QED
  BY <1>1, <1>4, <1>5, <1>6, FeedJobFrame

\* A pressed button keeps the invariant.
LEMMA PressKeeps ==
  ASSUME Judging, NEW s, NEW answer \in Answers, Press(s, answer)
  PROVE  Judging'
<1>1. UNCHANGED <<now, feed, events, classified, refusals, odds, pm, rss, faults>>
  BY DEF Press
<1>2. now \in 0..MaxTime /\ now \in Nat /\ faults \in Nat
  BY ClockAssumption DEF Judging, TypesOK
<1>3. PmOK' /\ RssOK' /\ FeedOK'
  BY <1>1, <1>2, PmKept, RssKept DEF Judging, FeedOK
<1>4. /\ signals' \in Seq(Signals) /\ DOMAIN signals' = DOMAIN signals
      /\ \A t \in DOMAIN signals : /\ signals'[t].raw = signals[t].raw
                                   /\ signals'[t].at = signals[t].at
  <2>1. signals \in Seq(Signals) /\ signals' = [signals EXCEPT ![s].action = answer]
    BY DEF Judging, TypesOK, Press, UpdateUserAction
  <2>2. DOMAIN signals = 1..Len(signals) /\ Len(signals) \in Nat
        /\ \A t \in DOMAIN signals : signals[t] \in Signals
    BY <2>1
  <2>3. DOMAIN signals' = DOMAIN signals
    BY <2>1
  <2>4. ASSUME NEW t \in DOMAIN signals
        PROVE  /\ signals'[t] \in Signals /\ signals'[t].raw = signals[t].raw
               /\ signals'[t].at = signals[t].at
    <3>1. CASE t = s
      <4>1. signals'[t] = [signals[t] EXCEPT !.action = answer]
        BY <2>1, <3>1
      <4>. QED
        BY <2>2, <4>1 DEF Signals, Answers
    <3>2. CASE t # s
      BY <2>1, <2>2, <3>2
    <3>. QED
      BY <3>1, <3>2
  <2>5. signals' = [t \in 1..Len(signals) |-> signals'[t]]
    BY <2>1, <2>2
  <2>. QED
    BY <2>2, <2>3, <2>4, <2>5
<1>5. events' \subseteq Events /\ \A raw \in RawIds : InHand(raw)' => InHand(raw)
  BY <1>1 DEF Judging, TypesOK, InHand
<1>. QED
  BY <1>1, <1>2, <1>3, <1>4, <1>5, TablesFrame DEF Judging

\* A crash keeps the invariant.
LEMMA CrashKeeps ==
  ASSUME Judging, Crash
  PROVE  Judging'
<1>1. /\ UNCHANGED <<now, feed, classified, refusals, odds, signals>>
      /\ pm' = Idle(now + PollEvery) /\ rss' = Idle(Later(now + RssEvery, MaxTime))
      /\ faults' = faults + 1
  BY DEF Crash
<1>2. now \in 0..MaxTime /\ now \in Nat /\ faults' \in Nat /\ faults' > 0 /\ faults' >= faults
  BY <1>1, ClockAssumption DEF Judging, TypesOK
<1>3. events \subseteq events' /\ events' \subseteq events \cup FeedEvents
  <2>1. \A shown \in Shown(Head(rss.left)) : NewItems(shown) \subseteq FeedEvents
    BY NewItemsAreFeedEvents
  <2>. QED
    BY <2>1 DEF Crash
<1>4. /\ Ordered(pm', Range(Markets), OddsEvents)
      /\ Ordered(rss', Range(Feeds), FeedEvents \cap events')
      /\ pm'.phase = "idle" /\ rss'.phase = "idle" /\ pm'.queue = <<>> /\ pm'.at = 0
  BY <1>1, IdleIsOrdered
<1>5. PmOK' /\ RssOK' /\ FeedOK'
  BY <1>1, <1>2, <1>4 DEF PmOK, RssOK, Judging, FeedOK
<1>6. /\ events' \subseteq Events /\ signals' \in Seq(Signals)
      /\ \A e \in events' : e \in events \/ e.raw.domain # PM
  BY <1>1, <1>3 DEF Judging, TypesOK, FeedEvents
<1>7. \A raw \in RawIds : InHand(raw)' => InHand(raw)
  BY <1>4 DEF InHand
<1>. QED
  BY <1>1, <1>2, <1>3, <1>4, <1>5, <1>6, <1>7, TablesFrame DEF Judging

(* The events of a batch that is cut short were in hand.                   *)
LEMMA PmAbortsKeeps ==
  ASSUME Judging, PmAborts
  PROVE  Judging'
<1>1. /\ UNCHANGED <<now, feed, classified, refusals, odds, signals, rss>>
      /\ pm.phase \in {"judging", "checking"} /\ pm' = BatchDone(pm)
      /\ faults' = faults + 1
  BY DEF PmAborts, JobAborts, Abort
<1>2. now \in 0..MaxTime /\ now \in Nat /\ faults' \in Nat /\ faults' > 0 /\ faults' >= faults
  BY <1>1, ClockAssumption DEF Judging, TypesOK
<1>3. pm.queue # <<>> /\ pm.queue \in Seq(OddsEvents) /\ IsJob(pm)
      /\ pm.left \in Seq(Range(Markets))
  BY <1>1 DEF Judging, PmOK, Ordered
<1>4. Head(pm.queue) \in OddsEvents /\ InHand(Head(pm.queue).raw)
  BY <1>3, TailInBatch DEF InHand
<1>5. events \subseteq events' /\ events' \subseteq events \cup {Head(pm.queue)}
  BY DEF PmAborts, JobAborts, Abort
<1>6. /\ Ordered(pm', Range(Markets), OddsEvents)
      /\ pm'.phase \in {"idle", "polling"} /\ pm'.queue = <<>> /\ pm'.at \in {0, pm.at}
  BY <1>1, <1>3, BatchDoneIsOrdered
<1>7. PmOK' /\ RssOK' /\ FeedOK'
  BY <1>1, <1>2, <1>5, <1>6, RssKept DEF PmOK, Judging, FeedOK
<1>8. /\ events' \subseteq Events /\ signals' \in Seq(Signals)
      /\ \A e \in events' : e \in events \/ InHand(e.raw)
  BY <1>1, <1>4, <1>5 DEF Judging, TypesOK, OddsEvents
<1>9. \A raw \in RawIds : InHand(raw)' => InHand(raw)
  BY <1>6 DEF InHand
<1>. QED
  BY <1>1, <1>2, <1>5, <1>6, <1>7, <1>8, <1>9, TablesFrame DEF Judging

-----------------------------------------------------------------------------
(* Polling the markets.                                                    *)

(* An event is emitted only for a shift of the threshold, and all of them  *)
(* are the same.                                                           *)
LEMMA ShiftedEvents ==
  ASSUME NEW m \in Range(Markets), NEW p, NEW base
  PROVE  LET e == Event(ShiftId(m, p, pm.at), pm.at)
         IN  /\ Shifted(m, p, base) \in Seq({e})
             /\ Shifted(m, p, base) # <<>> =>
                  p - base >= Threshold \/ base - p >= Threshold
<1> DEFINE e == Event(ShiftId(m, p, pm.at), pm.at)
           hits == {i \in DOMAIN Specs[m] : Sees(Specs[m][i], p, base)}
<1>1. Specs[m] \in Seq({"up", "down", "either"})
  BY SourceAssumption
<1>2. IsFiniteSet(DOMAIN Specs[m])
  <2>1. DOMAIN Specs[m] = 1..Len(Specs[m]) /\ Len(Specs[m]) \in Nat
    BY <1>1
  <2>. QED
    BY <2>1, FS_Interval
<1>3. IsFiniteSet(hits)
  BY <1>2, FS_Subset
<1>4. Cardinality(hits) \in Nat
  BY <1>3, FS_CardinalityType
<1>5. Shifted(m, p, base) = [k \in 1..Cardinality(hits) |-> e]
  BY DEF Shifted
<1>6. hits # {} => p - base >= Threshold \/ base - p >= Threshold
  BY DEF Sees
<1>7. hits = {} => Cardinality(hits) = 0
  BY FS_EmptySet
<1>. HIDE DEF hits, e
<1>8. Shifted(m, p, base) \in Seq({e})
  BY <1>4, <1>5
<1>9. Shifted(m, p, base) # <<>> => Cardinality(hits) # 0
  BY <1>4, <1>5
<1>. QED
  BY <1>6, <1>7, <1>8, <1>9 DEF e

(* A poll that adds the events of a batch, each of them observed, and new  *)
(* observations to the history keeps the invariant, also when the last     *)
(* market prunes the history.                                              *)
LEMMA PolledKeeps ==
  ASSUME Judging, pm.phase = "polling", NEW emitted \in Seq(OddsEvents),
         NEW seen, odds \subseteq seen, seen \subseteq Observations,
         Polled(emitted, seen),
         UNCHANGED <<now, feed, events, classified, refusals, signals, rss, faults>>,
         \A k \in DOMAIN emitted :
            \/ InHand(emitted[k].raw)
            \/ \E o, q \in seen :
                 /\ o.market = emitted[k].raw.key /\ q.market = emitted[k].raw.key
                 /\ q.price = emitted[k].raw.price /\ q.at >= emitted[k].raw.minute
                 /\ o.at >= emitted[k].raw.minute - OddsWindow
                 /\ \/ q.price - o.price >= Threshold
                    \/ o.price - q.price >= Threshold
  PROVE  Judging'
<1> DEFINE j == [pm EXCEPT !.left = Tail(@), !.queue = emitted]
<1>1. now \in 0..MaxTime /\ now \in Nat /\ faults \in Nat
  BY ClockAssumption DEF Judging, TypesOK
<1>2. IsJob(pm) /\ pm.left \in Seq(Range(Markets)) /\ pm.left # <<>> /\ pm.at \in 0..now
  BY DEF Judging, PmOK, Ordered
<1>3. /\ IsJob(j) /\ j.left \in Seq(Range(Markets)) /\ j.queue = emitted
      /\ j.phase = "polling" /\ j.at = pm.at
  <2>1. Tail(pm.left) \in Seq(Range(Markets))
    BY <1>2, HeadTailProperties
  <2>. QED
    BY <1>2, <2>1 DEF IsJob
<1>4. \/ j.left # <<>> /\ pm' = j /\ odds' = seen
      \/ j.left = <<>> /\ pm' = Process(j, emitted) /\ odds' = Pruned(seen)
  BY DEF Polled
<1>. HIDE DEF j
<1>5. /\ Ordered(pm', Range(Markets), OddsEvents)
      /\ pm'.phase \in {"idle", "polling", "judging"}
      /\ pm'.queue = emitted /\ pm'.at \in {0, pm.at}
  <2>1. CASE pm' = j /\ j.left # <<>>
    BY <1>3, <2>1 DEF Ordered
  <2>0. IsJob(j) /\ j.left \in Seq(Range(Markets)) /\ emitted \in Seq(OddsEvents)
    BY <1>3
  <2>2. /\ Ordered(Process(j, emitted), Range(Markets), OddsEvents)
        /\ Process(j, emitted).phase \in {"idle", "polling", "judging"}
        /\ Process(j, emitted).queue = emitted /\ Process(j, emitted).at \in {0, j.at}
    BY <2>0, ProcessIsOrdered
  <2>3. CASE pm' = Process(j, emitted)
    BY <1>3, <2>2, <2>3
  <2>. QED
    BY <1>4, <2>1, <2>3
<1>6. PmOK' /\ RssOK' /\ FeedOK'
  BY <1>1, <1>2, <1>5, RssKept DEF PmOK, Judging, FeedOK
<1>7. odds' \subseteq seen /\ \A o \in seen : o.at >= now - KeepFor => o \in odds'
  BY <1>4 DEF Pruned
<1>8. TypesOK' /\ OddsOnly' /\ VerdictsUnique' /\ SignalsCorroborated'
  BY <1>7 DEF Judging, TypesOK, OddsOnly, VerdictsUnique, SignalsCorroborated,
              HasSignal, HasRefusal, CorroboratedAt
<1>9. CheckedIsOpen' /\ JudgedOrChecked'
  BY <1>5 DEF Judging, CheckedIsOpen, JudgedOrChecked, HasVerdict, HasSignal, HasRefusal
<1>10. ShiftsObserved'
  <2>. SUFFICES ASSUME NEW raw \in RawIds, raw.domain = PM, (Stored(raw) \/ InHand(raw))',
                       raw.minute - OddsWindow >= now - KeepFor
                PROVE  ObservedFor(raw)'
    BY DEF ShiftsObserved
  <2>1. /\ raw.minute \in Int /\ OddsWindow \in Nat /\ KeepFor \in Nat
        /\ \A o \in seen : o.at \in Int
    BY ClockAssumption DEF RawIds, RssId, ShiftId, Observations
  <2>2. \E o, q \in seen :
          /\ o.market = raw.key /\ q.market = raw.key
          /\ q.price = raw.price /\ q.at >= raw.minute
          /\ o.at >= raw.minute - OddsWindow
          /\ \/ q.price - o.price >= Threshold
             \/ o.price - q.price >= Threshold
    <3>1. CASE Stored(raw) \/ InHand(raw)
      <4>1. ObservedFor(raw)
        BY <3>1 DEF Judging, ShiftsObserved
      <4>. QED
        BY <4>1 DEF ObservedFor
    <3>2. CASE ~Stored(raw) /\ ~InHand(raw)
      <4>1. PICK k \in DOMAIN emitted : emitted[k].raw = raw
        BY <1>5, <3>2 DEF Stored, InHand
      <4>. QED
        BY <3>2, <4>1
    <3>. QED
      BY <3>1, <3>2
  <2>3. PICK o \in seen, q \in seen :
          /\ o.market = raw.key /\ q.market = raw.key
          /\ q.price = raw.price /\ q.at >= raw.minute
          /\ o.at >= raw.minute - OddsWindow
          /\ \/ q.price - o.price >= Threshold
             \/ o.price - q.price >= Threshold
    BY <2>2
  <2>4. o \in odds' /\ q \in odds'
    BY <1>1, <1>7, <2>1, <2>3
  <2>. QED
    BY <2>3, <2>4 DEF ObservedFor
<1>. QED
  BY <1>6, <1>8, <1>9, <1>10 DEF Judging

\* A polled market keeps the invariant.
LEMMA PollMarketKeeps ==
  ASSUME Judging, PollMarketOk \/ PollMarketFails
  PROVE  Judging'
<1>1. /\ pm.phase = "polling"
      /\ UNCHANGED <<now, feed, events, classified, refusals, signals, rss>>
  BY DEF PollMarketOk, PollMarketFails
<1>2. now \in 0..MaxTime /\ now \in Nat /\ odds \subseteq Observations
  BY ClockAssumption DEF Judging, TypesOK
<1>3. /\ pm.queue \in Seq(OddsEvents) /\ pm.at \in 0..now /\ Head(pm.left) \in Range(Markets)
  <2>1. pm.left \in Seq(Range(Markets)) /\ pm.left # <<>>
    BY <1>1 DEF Judging, PmOK, Ordered
  <2>. QED
    BY <2>1, HeadTailProperties DEF Judging, PmOK, Ordered
<1>4. ASSUME PollMarketFails, UNCHANGED faults
      PROVE  Judging'
  <2>1. Polled(pm.queue, odds) /\ \A k \in DOMAIN pm.queue : InHand(pm.queue[k].raw)
    BY <1>4 DEF PollMarketFails, InHand
  <2>. QED
    BY <1>1, <1>2, <1>3, <1>4, <2>1, PolledKeeps
<1>5. ASSUME PollMarketOk, UNCHANGED faults
      PROVE  Judging'
  <2> DEFINE m == Head(pm.left)
  <2>0. PICK p \in Prices : \E oldest \in Window(m, Observed(m, p)) :
          Polled(pm.queue \o Shifted(m, p, oldest.price), Observed(m, p))
    BY <1>5 DEF PollMarketOk
  <2>1. PICK oldest \in Window(m, Observed(m, p)) :
          Polled(pm.queue \o Shifted(m, p, oldest.price), Observed(m, p))
    BY <2>0
  <2> DEFINE seen == Observed(m, p)
             new == [market |-> m, price |-> p, at |-> now]
             e == Event(ShiftId(m, p, pm.at), pm.at)
             shifts == Shifted(m, p, oldest.price)
             emitted == pm.queue \o shifts
  <2>2. odds \subseteq seen /\ new \in seen /\ seen \subseteq Observations
    BY <1>2, <1>3 DEF Observed, Observations
  <2>3. /\ e \in OddsEvents /\ e.raw.key = m /\ e.raw.price = p /\ e.raw.minute = pm.at
    <3>1. pm.at \in 0..MaxTime
      BY <1>2, <1>3, ClockAssumption
    <3>2. ShiftId(m, p, pm.at) \in RawIds /\ ShiftId(m, p, pm.at).domain = PM
      BY <3>1, <1>3 DEF RawIds, ShiftId
    <3>. QED
      BY <3>1, <3>2 DEF Event, OddsEvents, Events, ShiftId
  <2>4. /\ oldest \in seen /\ oldest.market = m /\ oldest.at >= pm.at - OddsWindow
    BY DEF Window
  <2>5. /\ shifts \in Seq({e})
        /\ shifts # <<>> => p - oldest.price >= Threshold \/ oldest.price - p >= Threshold
    BY <1>3, ShiftedEvents
  <2>6. now >= pm.at
    BY <1>2, <1>3
  <2>7. new.market = m /\ new.price = p /\ new.at = now
    OBVIOUS
  <2>. HIDE DEF m, seen, new, e, shifts
  <2>8. shifts \in Seq(OddsEvents)
    BY <2>3, <2>5, SeqMonotonic
  <2>9. /\ emitted \in Seq(OddsEvents)
        /\ \A k \in DOMAIN emitted : \/ \E l \in DOMAIN pm.queue : emitted[k] = pm.queue[l]
                                     \/ emitted[k] = e /\ shifts # <<>>
    <3>1. /\ emitted \in Seq(OddsEvents) /\ Len(emitted) = Len(pm.queue) + Len(shifts)
          /\ \A k \in 1..Len(pm.queue) + Len(shifts) :
                emitted[k] = IF k <= Len(pm.queue) THEN pm.queue[k]
                             ELSE shifts[k - Len(pm.queue)]
      BY <1>3, <2>8, ConcatProperties
    <3>2. /\ DOMAIN pm.queue = 1..Len(pm.queue) /\ Len(pm.queue) \in Nat
          /\ DOMAIN shifts = 1..Len(shifts) /\ Len(shifts) \in Nat
          /\ DOMAIN emitted = 1..Len(emitted)
          /\ \A k \in DOMAIN shifts : shifts[k] = e
      BY <1>3, <2>5, <3>1
    <3>3. ASSUME NEW k \in DOMAIN emitted
          PROVE  \/ \E l \in DOMAIN pm.queue : emitted[k] = pm.queue[l]
                 \/ emitted[k] = e /\ shifts # <<>>
      <4>1. CASE k <= Len(pm.queue)
        BY <3>1, <3>2, <4>1
      <4>2. CASE ~(k <= Len(pm.queue))
        <5>1. k - Len(pm.queue) \in DOMAIN shifts
          BY <3>1, <3>2, <4>2
        <5>2. shifts # <<>>
          BY <5>1
        <5>. QED
          BY <3>1, <3>2, <4>2, <5>1, <5>2
      <4>. QED
        BY <4>1, <4>2
    <3>. QED
      BY <3>1, <3>3
  <2>10. ASSUME NEW k \in DOMAIN emitted
         PROVE  \/ InHand(emitted[k].raw)
                \/ \E o, q \in seen :
                     /\ o.market = emitted[k].raw.key /\ q.market = emitted[k].raw.key
                     /\ q.price = emitted[k].raw.price /\ q.at >= emitted[k].raw.minute
                     /\ o.at >= emitted[k].raw.minute - OddsWindow
                     /\ \/ q.price - o.price >= Threshold
                        \/ o.price - q.price >= Threshold
    <3>1. CASE \E l \in DOMAIN pm.queue : emitted[k] = pm.queue[l]
      BY <3>1 DEF InHand
    <3>2. CASE emitted[k] = e /\ shifts # <<>>
      BY <2>2, <2>3, <2>4, <2>5, <2>6, <2>7, <3>2
    <3>. QED
      BY <2>9, <3>1, <3>2
  <2>11. Polled(emitted, seen)
    BY <2>1 DEF seen, shifts
  <2>. HIDE DEF emitted
  <2>. QED
    BY <1>1, <1>5, <2>2, <2>9, <2>10, <2>11, PolledKeeps
<1>6. UNCHANGED faults
  BY DEF PollMarketOk, PollMarketFails
<1>. QED
  BY <1>4, <1>5, <1>6

-----------------------------------------------------------------------------
(* Judging an odds event.                                                  *)

(* What the corroboration gate lets through has a second site in the store *)
(* unless its source needs none.                                           *)
LEMMA SecondSite ==
  ASSUME NEW e, Corroborated(e)
  PROVE  CorroboratedAt(e.raw, now)
<1>. SUFFICES ASSUME e.raw.domain \notin Direct
              PROVE  \E f \in events : /\ f.raw.domain # e.raw.domain
                                       /\ Topic(f) = TopicOf[e.raw.key]
                                       /\ f.published >= now - CorrWindow
  BY DEF CorroboratedAt
<1> DEFINE D == {f.raw.domain : f \in Matches(e)}
<1>1. Cardinality(D) >= 2
  BY DEF Corroborated
<1>2. e.raw.domain \in D
  BY DEF Matches
<1>3. D # {e.raw.domain}
  <2>1. Cardinality({e.raw.domain}) = 1
    BY FS_Singleton
  <2>. HIDE DEF D
  <2>. QED
    BY <1>1, <2>1
<1>4. PICK f \in Matches(e) : f.raw.domain # e.raw.domain
  BY <1>2, <1>3
<1>. QED
  BY <1>4 DEF Matches, Topic

(* The gates that refuse are told from the insert, and none refuses only   *)
(* what is corroborated.                                                   *)
LEMMA GateRefuses ==
  ASSUME NEW e, NEW c
  PROVE  /\ RefusingGate(e, c) # "insert"
         /\ RefusingGate(e, c) = None => Corroborated(e)
  BY DEF RefusingGate, None

(* The event at the head of the odds job's batch.                          *)
LEMMA HeadInHand ==
  ASSUME Judging, pm.phase \in {"judging", "checking", "sending"}
  PROVE  /\ Head(pm.queue) \in OddsEvents /\ Head(pm.queue) \in Events
         /\ Head(pm.queue).raw \in RawIds /\ Head(pm.queue).raw.domain = PM
         /\ InHand(Head(pm.queue).raw)
         /\ Ordered(pm, Range(Markets), OddsEvents) /\ pm.queue # <<>>
         /\ pm.queue \in Seq(OddsEvents) /\ IsJob(pm) /\ pm.at \in 0..now
<1>1. /\ Ordered(pm, Range(Markets), OddsEvents) /\ pm.queue # <<>>
      /\ pm.queue \in Seq(OddsEvents) /\ IsJob(pm) /\ pm.at \in 0..now
  BY DEF Judging, PmOK, Ordered
<1>2. Head(pm.queue) \in OddsEvents /\ InHand(Head(pm.queue).raw)
  BY <1>1, TailInBatch DEF InHand
<1>. QED
  BY <1>1, <1>2 DEF OddsEvents, Events

(* Going on to the next event leaves no event in hand that was not.        *)
LEMMA NextInHand ==
  ASSUME Judging, pm.phase \in {"judging", "checking", "sending"}, pm' = NextEvent(pm),
         now' = now, now \in Nat
  PROVE  /\ PmOK' /\ pm'.phase \in {"idle", "polling", "judging"}
         /\ \A raw \in RawIds : InHand(raw)' => InHand(raw)
<1>1. /\ Ordered(pm', Range(Markets), OddsEvents)
      /\ pm'.phase \in {"idle", "polling", "judging"}
      /\ pm'.queue = Tail(pm.queue) /\ pm'.at \in {0, pm.at}
  BY HeadInHand, NextEventIsOrdered
<1>2. \A k \in DOMAIN Tail(pm.queue) : \E l \in DOMAIN pm.queue :
         Tail(pm.queue)[k] = pm.queue[l]
  BY HeadInHand, TailInBatch
<1>. QED
  BY <1>1, <1>2, HeadInHand DEF PmOK, InHand

(* A new signal is the first verdict on its event, which is stored,        *)
(* classified and corroborated.                                            *)
LEMMA SignalAdded ==
  ASSUME Judging, NEW e \in OddsEvents, e = Head(pm.queue), NEW t \in 0..MaxTime,
         ~HasVerdict(e.raw), CorroboratedAt(e.raw, t), InHand(e.raw),
         InsertSignal(e, t), e \in events', e.raw \in classified',
         events' \in {events, events \cup {e}},
         classified' \in {classified, classified \cup {e.raw}},
         UNCHANGED <<now, feed, refusals, odds, rss, faults>>,
         PmOK', pm'.phase # "checking", \A raw \in RawIds : InHand(raw)' => InHand(raw)
  PROVE  Judging'
<1> DEFINE s == [raw |-> e.raw, at |-> t, action |-> None]
<1>1. /\ events \subseteq events' /\ e.raw \in RawIds /\ e \in Events /\ e.raw.domain = PM
      /\ \A f \in events' : f \in events \/ f = e
  BY DEF OddsEvents, Events
<1>2. /\ signals' = Append(signals, s) /\ signals \in Seq(Signals) /\ s \in Signals
      /\ s.raw = e.raw /\ s.at = t
  BY <1>1 DEF InsertSignal, Judging, TypesOK, Signals
<1>. HIDE DEF s
<1>3. /\ signals' \in Seq(Signals) /\ DOMAIN signals' = DOMAIN signals \cup {Len(signals) + 1}
      /\ Len(signals) + 1 \notin DOMAIN signals
      /\ signals'[Len(signals) + 1] = s
      /\ \A k \in DOMAIN signals : signals'[k] = signals[k]
  BY <1>2
<1>4. TypesOK' /\ OddsOnly'
  <2>1. \A k \in DOMAIN signals' : signals'[k].raw \in classified'
    BY <1>2, <1>3 DEF Judging, TypesOK
  <2>. QED
    BY <1>1, <1>3, <2>1 DEF Judging, TypesOK, OddsOnly
<1>5. FeedOK' /\ RssOK'
  BY <1>1, RssKept DEF Judging, FeedOK
<1>6. ASSUME NEW raw
      PROVE  /\ HasSignal(raw)' <=> HasSignal(raw) \/ raw = e.raw
             /\ HasRefusal(raw)' <=> HasRefusal(raw)
  BY <1>2, <1>3 DEF HasSignal, HasRefusal
<1>7. VerdictsUnique'
  <2>1. \A k, l \in DOMAIN signals' : signals'[k].raw = signals'[l].raw => k = l
    BY <1>2, <1>3 DEF Judging, VerdictsUnique, HasVerdict, HasSignal
  <2>2. \A raw \in RawIds : ~(HasSignal(raw)' /\ HasRefusal(raw)')
    BY <1>6 DEF Judging, VerdictsUnique, HasVerdict
  <2>. QED
    BY <2>1, <2>2 DEF Judging, VerdictsUnique
<1>8. \A raw, u : CorroboratedAt(raw, u) => CorroboratedAt(raw, u)'
  BY <1>1 DEF CorroboratedAt
<1>9. SignalsCorroborated'
  <2>. SUFFICES ASSUME NEW raw \in RawIds, NEW u \in 0..MaxTime, NEW k \in DOMAIN signals',
                       signals'[k].raw = raw, signals'[k].at = u
                PROVE  CorroboratedAt(raw, u)'
    BY DEF SignalsCorroborated
  <2>1. CASE k \in DOMAIN signals
    BY <1>3, <1>8, <2>1 DEF Judging, SignalsCorroborated
  <2>2. CASE k \notin DOMAIN signals
    BY <1>2, <1>3, <1>8, <2>2
  <2>. QED
    BY <2>1, <2>2
<1>10. JudgedOrChecked'
  BY <1>1, <1>6 DEF Judging, JudgedOrChecked, HasVerdict
<1>11. CheckedIsOpen'
  BY DEF CheckedIsOpen
<1>12. ShiftsObserved'
  BY <1>1 DEF Judging, ShiftsObserved, Stored, ObservedFor
<1>. QED
  BY <1>4, <1>5, <1>7, <1>9, <1>10, <1>11, <1>12 DEF Judging

(* A refusal by a gate is the first verdict on its event, which is stored. *)
LEMMA RefusalAdded ==
  ASSUME Judging, NEW e \in OddsEvents, e = Head(pm.queue), NEW gate, gate # "insert",
         ~HasVerdict(e.raw), InHand(e.raw), refusals' = refusals \cup {<<e.raw, gate>>},
         e \in events', events' \in {events, events \cup {e}},
         classified' \in {classified, classified \cup {e.raw}},
         UNCHANGED <<now, feed, signals, odds, rss, faults>>,
         PmOK', pm'.phase # "checking", \A raw \in RawIds : InHand(raw)' => InHand(raw)
  PROVE  Judging'
<1>1. /\ events \subseteq events' /\ e.raw \in RawIds /\ e \in Events /\ e.raw.domain = PM
      /\ \A f \in events' : f \in events \/ f = e
  BY DEF OddsEvents, Events
<1>2. <<e.raw, gate>>[1] = e.raw /\ <<e.raw, gate>>[2] = gate
  OBVIOUS
<1>3. TypesOK' /\ OddsOnly'
  BY <1>1, <1>2 DEF Judging, TypesOK, OddsOnly
<1>4. FeedOK' /\ RssOK'
  BY <1>1, RssKept DEF Judging, FeedOK
<1>5. ASSUME NEW raw
      PROVE  /\ HasSignal(raw)' <=> HasSignal(raw)
             /\ HasRefusal(raw)' <=> HasRefusal(raw) \/ raw = e.raw
  BY <1>2 DEF HasSignal, HasRefusal
<1>6. VerdictsUnique'
  <2>1. \A q, r \in refusals' :
          q[1] = r[1] /\ q[2] # "insert" /\ r[2] # "insert" => q = r
    BY <1>2 DEF Judging, VerdictsUnique, HasVerdict, HasRefusal
  <2>2. \A raw \in RawIds : ~(HasSignal(raw)' /\ HasRefusal(raw)')
    BY <1>5 DEF Judging, VerdictsUnique, HasVerdict
  <2>. QED
    BY <2>1, <2>2 DEF Judging, VerdictsUnique
<1>7. SignalsCorroborated'
  BY <1>1 DEF Judging, SignalsCorroborated, CorroboratedAt
<1>8. JudgedOrChecked'
  BY <1>1, <1>5 DEF Judging, JudgedOrChecked, HasVerdict
<1>9. CheckedIsOpen'
  BY DEF CheckedIsOpen
<1>10. ShiftsObserved'
  BY <1>1 DEF Judging, ShiftsObserved, Stored, ObservedFor
<1>. QED
  BY <1>3, <1>4, <1>6, <1>7, <1>8, <1>9, <1>10 DEF Judging

(* A new odds event is stored and then refused, sent or parked at its      *)
(* first price; one that is stored already goes without a verdict.         *)
LEMMA JudgeKeeps ==
  ASSUME Judging, Judge(pm, pm'), UNCHANGED <<now, feed, odds, rss, faults>>
  PROVE  Judging'
<1> DEFINE e == Head(pm.queue)
<1>1. pm.phase = "judging" /\ pm.phase # "checking"
  BY DEF Judge
<1>2. now \in 0..MaxTime /\ now \in Nat /\ faults \in Nat
  BY ClockAssumption DEF Judging, TypesOK
<1>3. /\ e \in OddsEvents /\ e.raw \in RawIds /\ e.raw.domain = PM /\ InHand(e.raw)
      /\ IsJob(pm) /\ Ordered(pm, Range(Markets), OddsEvents)
  BY <1>1, HeadInHand
<1>4. CASE ~InsertIsNew(e.raw)
  <2>1. /\ refusals' = refusals \cup {<<e.raw, "insert">>} /\ pm' = NextEvent(pm)
        /\ UNCHANGED <<events, classified, signals>>
    BY <1>4 DEF Judge, Refused, None
  <2>2. /\ PmOK' /\ pm'.phase # "checking"
        /\ \A raw \in RawIds : InHand(raw)' => InHand(raw)
    BY <1>1, <1>2, <2>1, NextInHand
  <2>3. RssOK' /\ FeedOK'
    BY <2>1, RssKept DEF Judging, FeedOK
  <2>4. /\ e.raw \in {f.raw : f \in events'} /\ events' \subseteq Events
        /\ signals' \in Seq(Signals)
    BY <1>4, <2>1 DEF InsertIsNew, Stored, Judging, TypesOK
  <2>. HIDE DEF e
  <2>5. \A r \in refusals' : \/ r \in refusals
                             \/ r[2] = "insert" /\ r[1] \in {f.raw : f \in events'}
    BY <2>1, <2>4
  <2>6. /\ TypesOK' /\ OddsOnly' /\ VerdictsUnique' /\ CheckedIsOpen'
        /\ SignalsCorroborated' /\ JudgedOrChecked' /\ ShiftsObserved'
    BY <1>1, <1>2, <2>1, <2>2, <2>4, <2>5, TablesFrame
  <2>. QED
    BY <2>2, <2>3, <2>6 DEF Judging
<1>5. CASE InsertIsNew(e.raw)
  <2>1. PICK k \in Classes(e.raw.domain), mapped \in BOOLEAN :
          LET c == [actionable |-> k.actionable, score |-> k.score, mapped |-> mapped]
              gate == RefusingGate(e, c)
          IN  /\ classified' = IF gate = "velocity" THEN classified ELSE Upserted(e.raw)
              /\ refusals' = Refused(e.raw, gate)
              /\ \/ /\ gate # None
                    /\ pm' = NextEvent(pm) /\ UNCHANGED signals
                 \/ /\ gate = None /\ antiBias
                    /\ pm' = [pm EXCEPT !.phase = "checking",
                                !.pending = Len(Triggers), !.at = now]
                    /\ UNCHANGED signals
                 \/ /\ gate = None /\ ~antiBias
                    /\ InsertSignal(e, now)
                    /\ pm' = [pm EXCEPT !.phase = "sending", !.sig = NewSignalId]
    BY <1>5 DEF Judge
  <2> DEFINE c == [actionable |-> k.actionable, score |-> k.score, mapped |-> mapped]
             gate == RefusingGate(e, c)
  <2>2. events' = events \cup {e}
    BY <1>5 DEF Judge
  <2>3. /\ gate # "insert" /\ None # "velocity"
        /\ gate = None => CorroboratedAt(e.raw, now)
    BY GateRefuses, SecondSite DEF None
  <2>4. ~HasVerdict(e.raw)
    BY <1>5 DEF HasVerdict, HasSignal, HasRefusal, Judging, TypesOK, InsertIsNew, Stored
  <2>5. /\ classified' \in {classified, classified \cup {e.raw}}
        /\ gate = None => e.raw \in classified'
    BY <2>1, <2>3 DEF Upserted
  <2>6. /\ gate # None => refusals' = refusals \cup {<<e.raw, gate>>}
        /\ gate = None => refusals' = refusals
    BY <2>1 DEF Refused
  <2>7. \/ gate # None /\ pm' = NextEvent(pm) /\ UNCHANGED signals
        \/ gate = None /\ UNCHANGED signals
           /\ pm' = [pm EXCEPT !.phase = "checking", !.pending = Len(Triggers), !.at = now]
        \/ gate = None /\ InsertSignal(e, now)
           /\ pm' = [pm EXCEPT !.phase = "sending", !.sig = NewSignalId]
    BY <2>1
  <2>. HIDE DEF e, gate
  <2>8. CASE gate # None /\ pm' = NextEvent(pm) /\ UNCHANGED signals
    <3>1. /\ PmOK' /\ pm'.phase # "checking"
          /\ \A raw \in RawIds : InHand(raw)' => InHand(raw)
      BY <1>1, <1>2, <2>8, NextInHand
    <3>2. e = Head(pm.queue) /\ e \in events' /\ events' \in {events, events \cup {e}}
      BY <2>2 DEF e
    <3>. QED
      BY <1>3, <2>3, <2>4, <2>5, <2>6, <2>8, <3>1, <3>2, RefusalAdded
  <2>9. CASE /\ gate = None /\ InsertSignal(e, now)
             /\ pm' = [pm EXCEPT !.phase = "sending", !.sig = NewSignalId]
    <3>1. /\ Ordered(pm', Range(Markets), OddsEvents) /\ pm'.phase = "sending"
          /\ pm'.queue = pm.queue /\ pm'.at = pm.at
      BY <1>1, <1>3, <2>9 DEF Ordered, IsJob
    <3>2. PmOK' /\ \A raw \in RawIds : InHand(raw)' => InHand(raw)
      BY <3>1 DEF PmOK, Judging, InHand
    <3>3. e = Head(pm.queue) /\ e \in events' /\ events' \in {events, events \cup {e}}
      BY <2>2 DEF e
    <3>. QED
      BY <1>2, <1>3, <2>3, <2>4, <2>5, <2>6, <2>9, <3>1, <3>2, <3>3, SignalAdded
  <2>10. CASE /\ gate = None /\ UNCHANGED signals
              /\ pm' = [pm EXCEPT !.phase = "checking", !.pending = Len(Triggers), !.at = now]
    <3>1. /\ Ordered(pm', Range(Markets), OddsEvents) /\ pm'.phase = "checking"
          /\ pm'.queue = pm.queue /\ pm'.at = now
      BY <1>1, <1>3, <2>10 DEF Ordered, IsJob
    <3>2. PmOK' /\ \A raw : InHand(raw)' <=> InHand(raw)
      BY <1>2, <3>1 DEF PmOK, InHand
    <3>3. /\ events \subseteq events' /\ e \in Events
          /\ \A f \in events' : f \in events \/ f = e
      BY <1>3, <2>2 DEF OddsEvents
    <3>4. FeedOK' /\ RssOK'
      BY <3>3, RssKept DEF Judging, FeedOK
    <3>5. TypesOK' /\ OddsOnly'
      BY <1>3, <2>2, <2>5, <2>6, <2>10, <3>3 DEF Judging, TypesOK, OddsOnly
    <3>6. VerdictsUnique' /\ \A raw : HasVerdict(raw)' <=> HasVerdict(raw)
      BY <2>6, <2>10 DEF Judging, VerdictsUnique, HasSignal, HasRefusal, HasVerdict
    <3>7. CheckedIsOpen'
      <4>1. Head(pm'.queue) = e /\ e \in events' /\ e.raw \in classified'
        BY <2>2, <2>5, <2>10, <3>1 DEF e
      <4>. SUFFICES ASSUME NEW f \in OddsEvents, NEW t \in 0..MaxTime,
                           Head(pm'.queue) = f, pm'.at = t
                    PROVE  /\ f \in events' /\ f.raw \in classified' /\ ~HasVerdict(f.raw)'
                           /\ CorroboratedAt(f.raw, t)'
        BY DEF CheckedIsOpen
      <4>2. f = e /\ t = now
        BY <3>1, <4>1
      <4>3. ~HasVerdict(f.raw) /\ CorroboratedAt(f.raw, t)
        BY <2>3, <2>4, <2>10, <4>2
      <4>4. CorroboratedAt(f.raw, t)'
        BY <3>3, <4>3 DEF CorroboratedAt
      <4>. QED
        BY <3>6, <4>1, <4>2, <4>3, <4>4
    <3>8. SignalsCorroborated'
      BY <2>10, <3>3 DEF Judging, SignalsCorroborated, CorroboratedAt
    <3>9. JudgedOrChecked'
      <4>1. Head(pm'.queue) = e
        BY <3>1 DEF e
      <4>. QED
        BY <1>1, <3>1, <3>3, <3>6, <4>1 DEF Judging, JudgedOrChecked
    <3>10. ShiftsObserved'
      BY <1>3, <3>2, <3>3 DEF Judging, ShiftsObserved, Stored, ObservedFor
    <3>. QED
      BY <3>2, <3>4, <3>5, <3>6, <3>7, <3>8, <3>9, <3>10 DEF Judging
  <2>. QED
    BY <2>7, <2>8, <2>9, <2>10
<1>. QED
  BY <1>4, <1>5

(* A trigger that is checked leaves the event under check; the last one    *)
(* ends it with a refusal or a signal, dated when the gate was entered.    *)
LEMMA CheckKeeps ==
  ASSUME Judging, CheckTrigger(pm, pm'),
         UNCHANGED <<now, feed, events, classified, odds, rss, faults>>
  PROVE  Judging'
<1> DEFINE e == Head(pm.queue)
<1>1. pm.phase = "checking"
  BY DEF CheckTrigger
<1>2. now \in 0..MaxTime /\ now \in Nat /\ faults \in Nat /\ pm.at \in 0..MaxTime
  BY <1>1, HeadInHand, ClockAssumption DEF Judging, TypesOK
<1>3. /\ e \in OddsEvents /\ e.raw \in RawIds /\ e.raw.domain = PM /\ InHand(e.raw)
      /\ IsJob(pm) /\ Ordered(pm, Range(Markets), OddsEvents)
  BY <1>1, HeadInHand
<1>4. /\ e \in events /\ e.raw \in classified /\ ~HasVerdict(e.raw)
      /\ CorroboratedAt(e.raw, pm.at)
  BY <1>1, <1>2, <1>3 DEF Judging, CheckedIsOpen
<1>5. \/ /\ \E n, kept : pm' = [pm EXCEPT !.pending = n, !.kept = kept]
         /\ UNCHANGED <<refusals, signals>>
      \/ /\ refusals' = Refused(e.raw, "anti_bias")
         /\ pm' = NextEvent(pm) /\ UNCHANGED signals
      \/ /\ InsertSignal(e, pm.at)
         /\ pm' = [pm EXCEPT !.phase = "sending", !.sig = NewSignalId]
         /\ UNCHANGED refusals
  BY DEF CheckTrigger
<1>6. e = Head(pm.queue)
  OBVIOUS
<1>. HIDE DEF e
<1>7. ASSUME NEW n, NEW kept, pm' = [pm EXCEPT !.pending = n, !.kept = kept],
             UNCHANGED <<refusals, signals>>
      PROVE  Judging'
  <2>1. /\ Ordered(pm', Range(Markets), OddsEvents) /\ pm'.phase = pm.phase
        /\ pm'.queue = pm.queue /\ pm'.at = pm.at
    BY <1>3, <1>7 DEF Ordered, IsJob
  <2>2. PmOK' /\ FeedOK' /\ RssOK'
    BY <2>1, RssKept DEF PmOK, Judging, FeedOK
  <2>3. TypesOK' /\ OddsOnly' /\ VerdictsUnique' /\ SignalsCorroborated'
    BY <1>7 DEF Judging, TypesOK, OddsOnly, VerdictsUnique, SignalsCorroborated,
                HasSignal, HasRefusal, CorroboratedAt
  <2>4. CheckedIsOpen' /\ JudgedOrChecked'
    BY <1>7, <2>1 DEF Judging, CheckedIsOpen, JudgedOrChecked, HasVerdict, HasSignal,
                      HasRefusal, CorroboratedAt
  <2>5. ShiftsObserved'
    BY <2>1 DEF Judging, ShiftsObserved, Stored, InHand, ObservedFor
  <2>. QED
    BY <2>2, <2>3, <2>4, <2>5 DEF Judging
<1>8. CASE /\ refusals' = Refused(e.raw, "anti_bias")
           /\ pm' = NextEvent(pm) /\ UNCHANGED signals
  <2>1. refusals' = refusals \cup {<<e.raw, "anti_bias">>}
    BY <1>8 DEF Refused, None
  <2>2. /\ PmOK' /\ pm'.phase # "checking"
        /\ \A raw \in RawIds : InHand(raw)' => InHand(raw)
    BY <1>1, <1>2, <1>8, NextInHand
  <2>3. e \in events' /\ events' \in {events, events \cup {e}}
        /\ classified' \in {classified, classified \cup {e.raw}}
    BY <1>4
  <2>. QED
    BY <1>3, <1>4, <1>6, <1>8, <2>1, <2>2, <2>3, RefusalAdded
<1>9. CASE /\ InsertSignal(e, pm.at)
           /\ pm' = [pm EXCEPT !.phase = "sending", !.sig = NewSignalId]
           /\ UNCHANGED refusals
  <2>1. /\ Ordered(pm', Range(Markets), OddsEvents) /\ pm'.phase = "sending"
        /\ pm'.queue = pm.queue /\ pm'.at = pm.at
    BY <1>1, <1>3, <1>9 DEF Ordered, IsJob
  <2>2. PmOK' /\ \A raw \in RawIds : InHand(raw)' => InHand(raw)
    BY <2>1 DEF PmOK, Judging, InHand
  <2>3. e \in events' /\ events' \in {events, events \cup {e}} /\ e.raw \in classified'
        /\ classified' \in {classified, classified \cup {e.raw}}
    BY <1>4
  <2>. QED
    BY <1>2, <1>3, <1>4, <1>6, <1>9, <2>1, <2>2, <2>3, SignalAdded
<1>. QED
  BY <1>5, <1>7, <1>8, <1>9

\* A sent alert keeps the invariant.
LEMMA SendKeeps ==
  ASSUME Judging, Send(pm, pm'), UNCHANGED <<now, feed, tables, rss, faults>>
  PROVE  Judging'
<1>1. pm.phase = "sending" /\ pm' = NextEvent(pm)
  BY DEF Send
<1>2. now \in 0..MaxTime /\ now \in Nat /\ faults \in Nat
  BY ClockAssumption DEF Judging, TypesOK
<1>3. /\ PmOK' /\ pm'.phase # "checking"
      /\ \A raw \in RawIds : InHand(raw)' => InHand(raw)
  BY <1>1, <1>2, NextInHand
<1>4. RssOK' /\ FeedOK' /\ signals' \in Seq(Signals) /\ events' \subseteq Events
  BY RssKept DEF Judging, FeedOK, tables, TypesOK
<1>. QED
  BY <1>1, <1>2, <1>3, <1>4, TablesFrame DEF Judging, tables

-----------------------------------------------------------------------------
(* The theorems.                                                           *)

\* Every step of a market poll keeps the invariant.
LEMMA PmStepKeeps ==
  ASSUME Judging, PmStep
  PROVE  Judging'
<1>1. \/ Judge(pm, pm') /\ UNCHANGED <<now, feed, odds, rss, faults>>
      \/ CheckTrigger(pm, pm') /\ UNCHANGED <<now, feed, events, classified, odds, rss, faults>>
      \/ Send(pm, pm') /\ UNCHANGED <<now, feed, tables, rss, faults>>
  BY DEF PmStep, JobStep
<1>. QED
  BY <1>1, JudgeKeeps, CheckKeeps, SendKeeps

\* A step of nothing keeps the invariant.
LEMMA StutterKeeps ==
  ASSUME Judging, UNCHANGED vars
  PROVE  Judging'
<1>1. now \in Nat /\ UNCHANGED <<now, feed, tables, pm, rss, faults>>
  BY ClockAssumption DEF Judging, TypesOK, vars
<1>2. PmOK' /\ RssOK' /\ FeedOK' /\ \A raw \in RawIds : InHand(raw)' => InHand(raw)
  BY <1>1, PmKept, RssKept DEF Judging, tables, FeedOK, InHand
<1>3. signals' \in Seq(Signals) /\ events' \subseteq Events /\ now' \in 0..MaxTime
  BY <1>1 DEF tables, Judging, TypesOK
<1>. QED
  BY <1>1, <1>2, <1>3, TablesFrame DEF Judging, tables, TypesOK

(* Every reachable state of the two jobs and the database satisfies the    *)
(* inductive invariant.                                                    *)
THEOREM JudgingInvariant == Spec => []Judging
<1>1. Init => Judging
  BY InitIsJudging
<1>2. Judging /\ [Next]_vars => Judging'
  <2>. SUFFICES ASSUME Judging, [Next]_vars PROVE Judging'
    OBVIOUS
  <2>1. CASE Tick \/ StartPolymarket \/ PollMarketOk \/ PollMarketFails
    BY <2>1, TickKeeps, StartPolymarketKeeps, PollMarketKeeps
  <2>2. CASE \E i \in Items : Publish(i)
    BY <2>2, PublishKeeps
  <2>3. CASE PmStep \/ PmAborts
    BY <2>3, PmStepKeeps, PmAbortsKeeps
  <2>4. CASE \/ StartRss \/ PollFeedOk \/ PollFeedFails \/ PollFeedBreaks \/ FeedHangs
             \/ RssStep \/ RssAborts
    BY <2>4, StartRssKeeps, PollFeedKeeps, FeedHangsKeeps, RssStepKeeps, RssAbortsKeeps
  <2>5. CASE \E s \in buttons, a \in Answers : Press(s, a)
    BY <2>5, PressKeeps
  <2>6. CASE Crash
    BY <2>6, CrashKeeps
  <2>7. CASE UNCHANGED vars
    BY <2>7, StutterKeeps
  <2>. QED
    BY <2>1, <2>2, <2>3, <2>4, <2>5, <2>6, <2>7 DEF Next
<1>. QED
  BY <1>1, <1>2, PTL DEF Spec

(* The deduplicating insert of process_event (pipeline.py:133) gives an    *)
(* event at most one verdict, one signal or one refusing gate, for any     *)
(* number of polls, watched directions, aborted batches and restarts.      *)
THEOREM OneVerdict == Spec => []OneVerdictPerEvent
<1>1. Judging => OneVerdictPerEvent
  <2>. SUFFICES ASSUME Judging, NEW raw \in {e.raw : e \in events}
                PROVE  Cardinality({s \in DOMAIN signals : signals[s].raw = raw})
                       + Cardinality({r \in refusals : r[1] = raw /\ r[2] # "insert"}) <= 1
    BY DEF OneVerdictPerEvent
  <2> DEFINE S == {s \in DOMAIN signals : signals[s].raw = raw}
             R == {r \in refusals : r[1] = raw /\ r[2] # "insert"}
  <2>1. raw \in RawIds
    BY DEF Judging, TypesOK, Events
  <2>2. S = {} \/ R = {}
    BY <2>1 DEF Judging, VerdictsUnique, HasSignal, HasRefusal
  <2>3. Cardinality({}) = 0 /\ \A x : Cardinality({x}) = 1
    BY FS_EmptySet, FS_Singleton
  <2>4. Cardinality(S) \in {0, 1}
    <3>1. ASSUME NEW s \in S
          PROVE  S = {s}
      BY DEF Judging, VerdictsUnique
    <3>. HIDE DEF S
    <3>. QED
      BY <2>3, <3>1
  <2>5. Cardinality(R) \in {0, 1}
    <3>1. ASSUME NEW r \in R
          PROVE  R = {r}
      BY DEF Judging, VerdictsUnique
    <3>. HIDE DEF R
    <3>. QED
      BY <2>3, <3>1
  <2>. HIDE DEF S, R
  <2>6. Cardinality(S) + Cardinality(R) <= 1
    BY <2>2, <2>3, <2>4, <2>5
  <2>. QED
    BY <2>6 DEF S, R
<1>. QED
  BY <1>1, JudgingInvariant, PTL

(* A signal of a source that needs corroboration has an event of another   *)
(* site on its topic in the store, inside the window when the gate looked, *)
(* whatever happened while its prices were awaited                         *)
(* (corroboration_gate.py:121-125, pipeline.py).                           *)
THEOREM Corroboration == Spec => []FiredIsCorroborated
<1>1. Judging => FiredIsCorroborated
  <2>. SUFFICES ASSUME Judging, NEW s \in DOMAIN signals
                PROVE  \/ signals[s].raw.domain \in Direct
                       \/ \E e \in events : /\ e.raw.domain # signals[s].raw.domain
                                            /\ Topic(e) = TopicOf[signals[s].raw.key]
                                            /\ e.published >= signals[s].at - CorrWindow
    BY DEF FiredIsCorroborated
  <2>1. signals[s] \in Signals
    BY DEF Judging, TypesOK
  <2>2. signals[s].raw \in RawIds /\ signals[s].at \in 0..MaxTime
    BY <2>1 DEF Signals
  <2>3. CorroboratedAt(signals[s].raw, signals[s].at)
    BY <2>2 DEF Judging, SignalsCorroborated
  <2>. QED
    BY <2>3 DEF CorroboratedAt
<1>. QED
  BY <1>1, JudgingInvariant, PTL

(* Without a crash or a failed database call no stored odds event is left  *)
(* without a verdict, except the one in hand (process_event, the cycle's   *)
(* handler in bot_runner.py).                                              *)
THEOREM UnjudgedByFaultOnly == Spec => []UnjudgedNeedsFault
<1>1. Judging => UnjudgedNeedsFault
  <2>. SUFFICES ASSUME Judging, NEW e \in events, e.raw.domain = PM, ~(faults > 0)
                PROVE  \/ \E s \in DOMAIN signals : signals[s].raw = e.raw
                       \/ \E r \in refusals : r[1] = e.raw /\ r[2] # "insert"
                       \/ pm.queue # <<>> /\ Head(pm.queue) = e
    BY DEF UnjudgedNeedsFault
  <2>1. faults = 0 /\ e \in OddsEvents
    BY DEF Judging, TypesOK, OddsEvents
  <2>2. HasVerdict(e.raw) \/ (pm.phase = "checking" /\ Head(pm.queue) = e)
    BY <2>1 DEF Judging, JudgedOrChecked
  <2>3. pm.phase = "checking" => pm.queue # <<>>
    BY HeadInHand
  <2>. QED
    BY <2>2, <2>3 DEF HasVerdict, HasSignal, HasRefusal
<1>. QED
  BY <1>1, JudgingInvariant, PTL

(* An odds event stands for two observations of its market a threshold     *)
(* apart, the older one inside the window of the poll that saw the shift,  *)
(* and the pruning of the history keeps both for as long as it promises    *)
(* (polymarket.py:389-427, db.py:542-576).                                 *)
THEOREM ShiftsAreReal == Spec => []ShiftWasObserved
<1>1. Judging => ShiftWasObserved
  <2>. SUFFICES ASSUME Judging, NEW e \in events, e.raw.domain = PM,
                       e.raw.minute - OddsWindow >= now - KeepFor
                PROVE  ObservedFor(e.raw)
    BY DEF ShiftWasObserved
  <2>1. e.raw \in RawIds /\ Stored(e.raw)
    BY DEF Judging, TypesOK, Events, Stored
  <2>. QED
    BY <2>1 DEF Judging, ShiftsObserved
<1>. QED
  BY <1>1, JudgingInvariant, PTL

(* The watcher stores an item before the pipeline judges it, so the        *)
(* pipeline turns every feed item away as a duplicate: nothing a feed      *)
(* publishes is ever classified or alerted about (rss_base.py:66-106,      *)
(* pipeline.py:133).                                                       *)
THEOREM FeedsAreNeverJudged ==
  Spec => [](/\ \A raw \in classified : raw.domain = PM
             /\ \A s \in DOMAIN signals : signals[s].raw.domain = PM)
<1>1. Judging => /\ \A raw \in classified : raw.domain = PM
                 /\ \A s \in DOMAIN signals : signals[s].raw.domain = PM
  BY DEF Judging, TypesOK, OddsOnly
<1>. QED
  BY <1>1, JudgingInvariant, PTL

-----------------------------------------------------------------------------
(* Alerts and their buttons.                                               *)

(* A signal about to be sent is in the table and has not been sent before; *)
(* what has been sent, and what can still be answered, is in the table.    *)
Alerting ==
    /\ buttons \subseteq alerted /\ alerted \subseteq DOMAIN signals
    /\ pm.phase = "sending" => pm.sig \in DOMAIN signals \ alerted

\* A job that is done with an event, or with its batch, sends nothing.
LEMMA DoneSendsNothing ==
  ASSUME NEW job, IsJob(job)
  PROVE  BatchDone(job).phase # "sending" /\ NextEvent(job).phase # "sending"
<1>1. ASSUME NEW j, IsJob(j) PROVE BatchDone(j).phase # "sending"
  BY <1>1 DEF BatchDone, Idle, IsJob
<1>2. ASSUME NEW j, IsJob(j), NEW q PROVE Process(j, q).phase # "sending"
  BY <1>1, <1>2 DEF Process, IsJob
<1>3. IsJob([job EXCEPT !.pending = 0, !.kept = FALSE, !.sig = 0])
  BY DEF IsJob
<1>. QED
  BY <1>1, <1>2, <1>3 DEF NextEvent

\* A new row leaves the rows before it, and gets the next id.
LEMMA NewRow ==
  ASSUME Judging, Alerting, NEW e, NEW t, InsertSignal(e, t)
  PROVE  /\ DOMAIN signals \subseteq (DOMAIN signals)'
         /\ NewSignalId \in (DOMAIN signals)' /\ NewSignalId \notin DOMAIN signals
<1>1. signals \in Seq(Signals)
  BY DEF Judging, TypesOK
<1>2. DOMAIN signals = 1..Len(signals) /\ Len(signals) \in Nat
  BY <1>1
<1>3. Len(signals') = Len(signals) + 1 /\ DOMAIN signals' = 1..Len(signals')
  BY <1>1 DEF InsertSignal
<1>. QED
  BY <1>2, <1>3 DEF NewSignalId

\* A step of the market job keeps the two in agreement.
LEMMA PmStepAlerts ==
  ASSUME Judging, Alerting, PmStep
  PROVE  Alerting'
<1>1. IsJob(pm)
  BY DEF Judging, PmOK, Ordered
<1>2. \/ /\ pm'.phase # "sending"
         /\ UNCHANGED <<signals, alerted, buttons>>
      \/ /\ \E e, t : InsertSignal(e, t)
         /\ pm'.sig = NewSignalId
         /\ UNCHANGED <<alerted, buttons>>
      \/ /\ pm.phase = "sending" /\ pm'.phase # "sending"
         /\ signals' = signals
         /\ \/ alerted' = alerted \cup {pm.sig} /\ buttons' = buttons \cup {pm.sig}
            \/ UNCHANGED <<alerted, buttons>>
  <2>1. CASE Judge(pm, pm') /\ UNCHANGED <<alerted, buttons>>
    <3>1. \/ pm' = NextEvent(pm) /\ signals' = signals
          \/ /\ pm' = [pm EXCEPT !.phase = "checking", !.pending = Len(Triggers), !.at = now]
             /\ signals' = signals
          \/ /\ \E e : InsertSignal(e, now)
             /\ pm' = [pm EXCEPT !.phase = "sending", !.sig = NewSignalId]
      BY <2>1 DEF Judge
    <3>. QED
      BY <1>1, <2>1, <3>1, DoneSendsNothing DEF IsJob
  <2>2. CASE CheckTrigger(pm, pm') /\ UNCHANGED <<alerted, buttons>>
    <3>1. \/ /\ \E kept \in BOOLEAN : pm' = [pm EXCEPT !.pending = @ - 1, !.kept = kept]
             /\ pm.phase = "checking" /\ signals' = signals
          \/ pm' = NextEvent(pm) /\ signals' = signals
          \/ /\ \E e : InsertSignal(e, pm.at)
             /\ pm' = [pm EXCEPT !.phase = "sending", !.sig = NewSignalId]
      BY <2>2 DEF CheckTrigger
    <3>. QED
      BY <1>1, <2>2, <3>1, DoneSendsNothing DEF IsJob
  <2>3. CASE Send(pm, pm') /\ signals' = signals
    BY <1>1, <2>3, DoneSendsNothing DEF Send
  <2>. QED
    BY <2>1, <2>2, <2>3 DEF PmStep, JobStep, tables
<1>. QED
  BY <1>2, NewRow DEF Alerting

\* So does every other step: only the market job inserts or sends.
LEMMA OthersAlert ==
  ASSUME Judging, Alerting, [Next]_vars, ~PmStep
  PROVE  Alerting'
<1>1. IsJob(pm)
  BY DEF Judging, PmOK, Ordered
<1>2. CASE Tick \/ (\E i \in Items : Publish(i)) \/ UNCHANGED vars
  BY <1>2 DEF Tick, Publish, tables, vars, Alerting
<1>3. CASE StartPolymarket \/ PollMarketOk \/ PollMarketFails
  <2>1. UNCHANGED <<signals, alerted, buttons>>
    BY <1>3 DEF StartPolymarket, PollMarketOk, PollMarketFails, tables
  <2>2. pm'.phase # "sending"
    <3>1. CASE StartPolymarket
      BY <3>1 DEF StartPolymarket, Idle
    <3>2. ASSUME NEW q, NEW seen, pm.phase = "polling", Polled(q, seen)
          PROVE  pm'.phase # "sending"
      <4>. DEFINE job == [pm EXCEPT !.left = Tail(@), !.queue = q]
      <4>1. IsJob(job) /\ job.phase = "polling"
        BY <1>1, <3>2 DEF IsJob
      <4>2. pm' = job \/ pm' = Process(job, q)
        BY <3>2 DEF Polled
      <4>. HIDE DEF job
      <4>3. Process(job, q).phase # "sending"
        BY <4>1, DoneSendsNothing DEF Process, IsJob
      <4>. QED
        BY <4>1, <4>2, <4>3
    <3>3. CASE PollMarketOk
      BY <3>2, <3>3 DEF PollMarketOk
    <3>4. CASE PollMarketFails
      BY <3>2, <3>4 DEF PollMarketFails
    <3>. QED
      BY <1>3, <3>1, <3>3, <3>4
  <2>. QED
    BY <2>1, <2>2 DEF Alerting
<1>4. CASE PmAborts \/ RssAborts
  <2>1. UNCHANGED <<signals, alerted, buttons>>
    BY <1>4 DEF PmAborts, RssAborts, JobAborts
  <2>2. pm' = BatchDone(pm) \/ pm' = pm
    BY <1>4 DEF PmAborts, RssAborts, JobAborts, Abort
  <2>. QED
    BY <1>1, <2>1, <2>2, DoneSendsNothing DEF Alerting
<1>5. CASE \/ StartRss \/ PollFeedOk \/ PollFeedFails \/ PollFeedBreaks \/ FeedHangs
  <2>1. UNCHANGED <<signals, alerted, buttons, pm>>
    BY <1>5 DEF StartRss, PollFeedOk, PollFeedFails, PollFeedBreaks, FeedHangs, Polls, tables
  <2>. QED
    BY <2>1 DEF Alerting
<1>6. CASE RssStep
  <2>1. rss.phase \notin {"checking", "sending"} /\ pm' = pm
    BY <1>6 DEF RssStep, Judging, RssOK
  <2>2. Judge(rss, rss') /\ UNCHANGED <<alerted, buttons>>
    BY <1>6, <2>1 DEF RssStep, JobStep, CheckTrigger, Send
  <2>3. DOMAIN signals \subseteq (DOMAIN signals)'
    BY <2>2, NewRow DEF Judge
  <2>. QED
    BY <2>1, <2>2, <2>3 DEF Alerting
<1>7. CASE \E s \in buttons, a \in Answers : Press(s, a)
  <2>1. DOMAIN signals' = DOMAIN signals /\ UNCHANGED <<pm, alerted>> /\ buttons' \subseteq buttons
    BY <1>7 DEF Press, UpdateUserAction
  <2>. QED
    BY <2>1 DEF Alerting
<1>8. CASE Crash
  <2>1. pm'.phase = "idle" /\ UNCHANGED <<signals, alerted, buttons>>
    BY <1>8 DEF Crash, Idle
  <2>. QED
    BY <2>1 DEF Alerting
<1>. QED
  BY <1>2, <1>3, <1>4, <1>5, <1>6, <1>7, <1>8 DEF Next

(* A signal is sent at most once, after it was stored, and an answer always *)
(* finds its row: however the jobs interleave, whichever sends fail and     *)
(* whenever the process dies, nothing is alerted about twice and no button  *)
(* points at nothing (pipeline.py, bot_runner.py).                          *)
THEOREM AlertedOnce ==
  Spec => [](/\ pm.phase = "sending" => pm.sig \in DOMAIN signals \ alerted
             /\ buttons \subseteq alerted /\ alerted \subseteq DOMAIN signals)
<1>1. Init => Alerting
  BY IdleIsOrdered DEF Init, Alerting
<1>2. Judging /\ Alerting /\ [Next]_vars => Alerting'
  BY PmStepAlerts, OthersAlert
<1>3. Alerting => /\ pm.phase = "sending" => pm.sig \in DOMAIN signals \ alerted
                  /\ buttons \subseteq alerted /\ alerted \subseteq DOMAIN signals
  BY DEF Alerting
<1>. QED
  BY <1>1, <1>2, <1>3, JudgingInvariant, PTL DEF Spec
=============================================================================
