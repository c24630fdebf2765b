----------------------------- MODULE EarnLedger -----------------------------
(***************************************************************************)
(* The manual Earn book: the operator reports a subscription with          *)
(* /earn_add (bot/handlers/trading_commands.py), bot/core/earn_manager.py  *)
(* writes it to the SQLite ledger of bot/core/pnl_ledger.py, and /earn,    *)
(* /earn_plan and /balance read it back.                                   *)
(*                                                                         *)
(* Telegram keeps an update until the bot acknowledges it with its next    *)
(* poll, and delivers again what a crash left unacknowledged; an update    *)
(* acknowledged but not yet handled dies with the process.  The row of a   *)
(* subscription has no key that could tell a second delivery, and an       *)
(* insertion that fails ends the handler: nothing runs it again.           *)
(*                                                                         *)
(* Nothing in bot/ sets is_active to 0, writes redeemed_utc or records     *)
(* interest, so rows are only ever added; no command reaches the live      *)
(* methods of the manager.                                                 *)
(***************************************************************************)
EXTENDS Integers, Sequences, FiniteSets, FiniteSetsExt

CONSTANTS
  Orders,      \* what /earn_add may say: [coin, principal, product, term]
  Soon,        \* days before maturity at which /earn warns
  NoTerm,      \* the value of an absent TERM_DAYS
  NotANumber,  \* the principal of an order one amount of which is "nan", as float() reads it
  MaxOrders,   \* bound: subscriptions reported
  MaxDay,      \* bound: the last day
  MaxCrashes   \* bound: crashes of the process

VARIABLES
  today,
  sent,       \* /earn_add messages, in the order sent
  kept,       \* messages Telegram has no acknowledgement for
  tasks,      \* messages delivered to this process and not yet handled
  fetched,    \* messages this process has been given and not acknowledged
  rows,       \* earn_positions, with the message each came from (history)
  hit,        \* history: messages that were in the process when it crashed
  failed,     \* history: messages whose insertion failed
  crashes     \* bound

vars == <<today, sent, kept, tasks, fetched, rows, hit, failed, crashes>>

ValidTypes == {"flexible_savings", "fixed_term", "onchain_staking", "reserve"}
Messages == DOMAIN sent

Target(coin, product, amount) == [coin |-> coin, product |-> product, amount |-> amount]

\* DEFAULT_ALLOCATION_25K, in its order and in units of $500.
Targets ==
  <<Target("USDT", "flexible_savings", 1), Target("USDT", "flexible_savings", 9),
    Target("USDC", "fixed_term", 16), Target("USDT", "fixed_term", 16),
    Target("ETH", "onchain_staking", 4), Target("USDT", "reserve", 4)>>

ASSUME EarnAssumption ==
  /\ NotANumber \notin Int
  /\ \A o \in Orders : /\ o.principal \in Int \cup {NotANumber}
                       /\ o.term = NoTerm \/ o.term \in Int
  /\ {Soon, MaxOrders, MaxDay, MaxCrashes} \subseteq Nat

\* A row as add_position fills it in, and the message behind it.
Row(m) == [order |-> sent[m], subscribed |-> today, message |-> m]

RowsOK ==
  \A i \in DOMAIN rows :
    /\ rows[i].message \in Messages /\ rows[i].order = sent[rows[i].message]
    /\ rows[i].subscribed \in 0 .. today

TypeOK ==
  /\ today \in 0 .. MaxDay
  /\ sent \in Seq(Orders)
  /\ kept \subseteq Messages /\ fetched \subseteq kept
  /\ tasks \subseteq Messages /\ hit \subseteq Messages /\ failed \subseteq Messages
  /\ RowsOK
  /\ crashes \in 0 .. MaxCrashes

Init ==
  /\ today = 0 /\ crashes = 0
  /\ sent = <<>> /\ rows = <<>>
  /\ kept = {} /\ tasks = {} /\ fetched = {} /\ hit = {} /\ failed = {}

-----------------------------------------------------------------------------
(* What /earn and /earn_plan compute from the rows.                        *)

\* is_active is 1 in every row there is.
Active == DOMAIN rows

\* `if p.get("term_days") and p["term_days"] > 0`
HasTerm(i) == rows[i].order.term # NoTerm /\ rows[i].order.term > 0
DaysRemaining(i) == rows[i].subscribed + rows[i].order.term - today

ExpiredUnredeemed == {i \in Active : HasTerm(i) /\ DaysRemaining(i) < 0}

\* A plausible bug: on the day of its maturity a position is in neither list.
ExpiringFromTomorrow ==
  {i \in Active : HasTerm(i) /\ DaysRemaining(i) > 0 /\ DaysRemaining(i) < Soon}

ExpiringSoon ==
  {i \in Active : HasTerm(i) /\ DaysRemaining(i) >= 0 /\ DaysRemaining(i) < Soon}

Principal(S) == MapThenSumSet(LAMBDA i : rows[i].order.principal, S)

\* gap_analysis: the current amount of a target is that of its coin and product.
Current(t) ==
  Principal({i \in Active : /\ rows[i].order.coin = Targets[t].coin
                           /\ rows[i].order.product = Targets[t].product})

\* `filled_pct >= 100`, the tick of /earn_plan.
Filled(t) == Current(t) >= Targets[t].amount

-----------------------------------------------------------------------------
(* Telegram and the process.                                               *)

Send(order) ==
  /\ Len(sent) < MaxOrders
  /\ sent' = Append(sent, order)
  /\ kept' = kept \cup {Len(sent) + 1}
  /\ UNCHANGED <<today, tasks, fetched, rows, hit, failed, crashes>>

\* getUpdates: what was fetched before is acknowledged, and all that is kept is fetched.
Poll ==
  /\ kept # {}
  /\ kept' = kept \ fetched
  /\ fetched' = kept'
  /\ tasks' = tasks \cup kept'
  /\ UNCHANGED <<today, sent, rows, hit, failed, crashes>>

\* The checks of cmd_earn_add, in the order of its returns.
Accepted(order) ==
  /\ order.product \in ValidTypes
  /\ ~ (order.product = "fixed_term" /\ order.term = NoTerm)

\* The columns are NOT NULL, and SQLite stores a float that is no number as NULL.
Storable(order) == order.principal # NotANumber

\* record_earn_subscription: a row without a key that tells deliveries apart.
Recorded(m) == Append(rows, Row(m))

\* A plausible bug: the handler is run again when its answer cannot be sent.
EarnAddRetried(m) ==
  /\ m \in tasks
  /\ tasks' \in {tasks, tasks \ {m}}
  /\ rows' = IF Accepted(sent[m]) THEN Recorded(m) ELSE rows
  /\ Len(rows) < 2 * MaxOrders
  /\ UNCHANGED <<today, sent, kept, fetched, hit, failed, crashes>>

\* cmd_earn_add: from the checks to the insertion nothing is awaited.
EarnAdd(m) ==
  /\ m \in tasks
  /\ Accepted(sent[m]) => Storable(sent[m])
  /\ tasks' = tasks \ {m}
  /\ rows' = IF Accepted(sent[m]) THEN Recorded(m) ELSE rows
  /\ UNCHANGED <<today, sent, kept, fetched, hit, failed, crashes>>

\* The insertion raises, for a row no table takes or because the file is locked or full:
\* the exception ends the handler, its update stays handled, and nothing is answered.
EarnAddFails(m) ==
  /\ m \in tasks /\ Accepted(sent[m])
  /\ tasks' = tasks \ {m}
  /\ failed' = failed \cup {m}
  /\ UNCHANGED <<today, sent, kept, fetched, rows, hit, crashes>>

Crash ==
  /\ crashes < MaxCrashes /\ crashes' = crashes + 1
  /\ hit' = hit \cup tasks \cup fetched
  /\ tasks' = {} /\ fetched' = {}
  /\ UNCHANGED <<today, sent, kept, rows, failed>>

NextDay ==
  /\ today < MaxDay /\ today' = today + 1
  /\ UNCHANGED <<sent, kept, tasks, fetched, rows, hit, failed, crashes>>

Next ==
  \/ \E order \in Orders : Send(order)
  \/ Poll
  \/ \E m \in Messages : EarnAdd(m) \/ EarnAddFails(m)
  \/ Crash
  \/ NextDay

Spec == Init /\ [][Next]_vars

-----------------------------------------------------------------------------
(* Properties.                                                             *)

Copies(m) == Cardinality({i \in DOMAIN rows : rows[i].message = m})

\* A reported subscription is in the book exactly once when it is valid and never when it
\* is not.  Two things excuse it: an insertion that failed, which leaves nothing behind,
\* and a crash that met it between its delivery and its acknowledgement, after which it
\* may be missing, or there once more for each such crash.
ReportedIsBookedOnce ==
  \A m \in Messages :
    /\ Copies(m) <= IF m \in hit THEN 1 + crashes ELSE 1
    /\ ~(Accepted(sent[m]) /\ Storable(sent[m])) \/ m \in failed \ hit => Copies(m) = 0
    /\ Accepted(sent[m]) /\ m \notin kept \cup tasks \cup hit \cup failed => Copies(m) = 1

\* A fixed term is announced by /earn on each of its last days, the day of its maturity
\* among them, then reported as expired for ever: never both and never neither.
TermsAnnounced ==
  /\ ExpiringSoon \cap ExpiredUnredeemed = {}
  /\ \A i \in Active :
       HasTerm(i) /\ today > rows[i].subscribed + rows[i].order.term - Soon
         => i \in ExpiringSoon \cup ExpiredUnredeemed

\* "gap analysis vs target $25K allocation", "to show what user needs to subscribe": a plan
\* that ticks every target is a book that holds the whole allocation.
FilledPlanIsFunded ==
  (\A t \in DOMAIN Targets : Filled(t))
    => Principal(Active) >= MapThenSumSet(LAMBDA t : Targets[t].amount, DOMAIN Targets)
=============================================================================
