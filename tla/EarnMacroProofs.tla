---------------------------- MODULE EarnMacroProofs ----------------------------
(***************************************************************************)
(* Theorems about two small components that never meet.                    *)
(*                                                                         *)
(* EarnLedger, for every set of orders and any number of messages, days,   *)
(* crashes and failed insertions: how often a reported subscription is in  *)
(* the book, whatever Telegram delivers again, and that the end of a term  *)
(* is announced.                                                           *)
(*                                                                         *)
(* MacroDca, for every poll interval, sustain, day and number of restarts: *)
(* what the detector remembers of its readings and when it hands out an    *)
(* event.  The constants and variables declared here are those of          *)
(* MacroDca, under the same names.                                         *)
(***************************************************************************)
EXTENDS EarnLedger, FiniteSetTheorems, TLAPS

CONSTANTS SlowPoll, FastPoll, Sustain, Day, MaxRestarts
VARIABLES vix, interval, sleep, since, lastEvent, status, funded, active,
          emitted, calm, seen, reset, restarts

Macro == INSTANCE MacroDca

-----------------------------------------------------------------------------
(* The book.  A delivery of a message is due while Telegram *)
(* keeps it and this process was not given it, and under way while its     *)
(* handler has not run.                                                    *)

Rows == [order : Orders, subscribed : Nat, message : Nat]

Due(m) == IF m \in kept \ fetched THEN 1 ELSE 0
UnderWay(m) == IF m \in tasks THEN 1 ELSE 0
Deliveries(m) == Due(m) + UnderWay(m)

Types ==
  /\ today \in Nat /\ crashes \in Nat
  /\ sent \in Seq(Orders) /\ rows \in Seq(Rows)
  /\ kept \subseteq Messages /\ fetched \subseteq kept
  /\ tasks \subseteq Messages /\ hit \subseteq Messages /\ failed \subseteq Messages
  /\ \A i \in DOMAIN rows : rows[i].message \in Messages

\* A message the command takes and the table has a place for.
Valid(m) == Accepted(sent[m]) /\ Storable(sent[m])

\* A crash that met a message may have it delivered once more, and nothing else does; a
\* message whose insertion failed has no row and, unless a crash met it, no delivery to
\* come; and a message the command takes and neither met is booked or has a delivery to
\* come.
Booked ==
  \A m \in Messages :
    /\ Copies(m) + Deliveries(m) <= IF m \in hit THEN 1 + crashes ELSE 1
    /\ ~Valid(m) => Copies(m) = 0
    /\ m \in failed \ hit => Copies(m) + Deliveries(m) = 0
    /\ Accepted(sent[m]) /\ m \notin hit \cup failed => Copies(m) + Deliveries(m) >= 1

Bookkeeping == Types /\ Booked

-----------------------------------------------------------------------------
(* Counting rows.                                                          *)

\* The rows of a message can be counted.
LEMMA CopiesAreCounted ==
  ASSUME Types, NEW m
  PROVE  IsFiniteSet({i \in DOMAIN rows : rows[i].message = m}) /\ Copies(m) \in Nat
<1>1. DOMAIN rows = 1 .. Len(rows) /\ Len(rows) \in Nat
  BY DEF Types
<1>2. IsFiniteSet(DOMAIN rows)
  BY <1>1, FS_Interval
<1>3. IsFiniteSet({i \in DOMAIN rows : rows[i].message = m})
  BY <1>2, FS_Subset
<1>. QED
  BY <1>3, FS_CardinalityType DEF Copies

\* record_earn_subscription adds one row, for its own message.
LEMMA RecordedAddsOne ==
  ASSUME Types, NEW m \in Messages, rows' = Recorded(m), NEW n
  PROVE  /\ rows' \in Seq(Rows)
         /\ \A i \in DOMAIN rows' : rows'[i].message \in Messages
         /\ Copies(n)' = IF n = m THEN Copies(n) + 1 ELSE Copies(n)
<1> DEFINE C == {i \in DOMAIN rows : rows[i].message = n}
           D == {i \in DOMAIN rows' : rows'[i].message = n}
           r == Row(m)
<1>1. r \in Rows /\ r.message = m
  BY DEF Row, Rows, Types, Messages
<1>2. rows' = Append(rows, r) /\ rows \in Seq(Rows)
  BY DEF Recorded, Types
<1>. HIDE DEF r
<1>3. /\ rows' \in Seq(Rows) /\ DOMAIN rows' = DOMAIN rows \cup {Len(rows) + 1}
      /\ Len(rows) + 1 \notin DOMAIN rows /\ rows'[Len(rows) + 1] = r
      /\ \A i \in DOMAIN rows : rows'[i] = rows[i]
  BY <1>1, <1>2
<1>4. CASE n = m
  <2>1. D = C \cup {Len(rows) + 1} /\ Len(rows) + 1 \notin C
    BY <1>1, <1>3, <1>4
  <2>2. IsFiniteSet(C)
    BY CopiesAreCounted
  <2>. HIDE DEF C, D
  <2>3. Cardinality(D) = Cardinality(C) + 1
    BY <2>1, <2>2, FS_AddElement
  <2>. QED
    BY <1>1, <1>3, <1>4, <2>3 DEF Copies, C, D, Types
<1>5. CASE n # m
  <2>1. D = C
    BY <1>1, <1>3, <1>5
  <2>. QED
    BY <1>1, <1>3, <1>5, <2>1 DEF Copies, Types
<1>. QED
  BY <1>4, <1>5

-----------------------------------------------------------------------------
(* The invariant is inductive.                                             *)

\* The books are in order when the bot starts.
LEMMA InitBooks ==
  ASSUME Init
  PROVE  Bookkeeping
  BY DEF Init, Bookkeeping, Types, Booked, Messages

\* A new message keeps the books in order.
LEMMA SendKeeps ==
  ASSUME Bookkeeping, NEW order \in Orders, Send(order)
  PROVE  Bookkeeping'
<1>0. PICK new : new = Len(sent) + 1
  OBVIOUS
<1>1. /\ sent' \in Seq(Orders) /\ Messages' = Messages \cup {new} /\ new \notin Messages
      /\ \A m \in Messages : sent'[m] = sent[m]
  BY <1>0 DEF Send, Bookkeeping, Types, Messages
<1>2. UNCHANGED <<today, tasks, fetched, rows, hit, failed, crashes>> /\ kept' = kept \cup {new}
  BY <1>0 DEF Send
<1>3. Types'
  BY <1>1, <1>2 DEF Bookkeeping, Types
<1>4. \A m : Copies(m)' = Copies(m)
  BY <1>2 DEF Copies
<1>5. ASSUME NEW m \in Messages
      PROVE  /\ Deliveries(m)' = Deliveries(m)
             /\ (Valid(m)' <=> Valid(m)) /\ (Accepted(sent[m])' <=> Accepted(sent[m]))
  BY <1>1, <1>2, <1>5 DEF Deliveries, Due, UnderWay, Valid, Accepted, Storable
<1>6. Copies(new) = 0 /\ Deliveries(new)' = 1 /\ new \notin hit /\ new \notin failed
  <2>1. {i \in DOMAIN rows : rows[i].message = new} = {}
    BY <1>1 DEF Bookkeeping, Types
  <2>2. Copies(new) = 0
    BY <2>1, FS_EmptySet DEF Copies
  <2>3. new \notin tasks /\ new \notin fetched /\ new \notin hit /\ new \notin failed
    BY <1>1 DEF Bookkeeping, Types
  <2>. QED
    BY <1>2, <2>2, <2>3 DEF Deliveries, Due, UnderWay
<1>7. Booked'
  BY <1>1, <1>2, <1>4, <1>5, <1>6 DEF Bookkeeping, Booked
<1>. QED
  BY <1>3, <1>7 DEF Bookkeeping

\* What is given to the process for the first time is under way and no longer due; what was
\* given before is acknowledged.
LEMMA PollKeeps ==
  ASSUME Bookkeeping, Poll
  PROVE  Bookkeeping'
<1>1. /\ UNCHANGED <<today, sent, rows, hit, failed, crashes>>
      /\ kept' = kept \ fetched /\ fetched' = kept' /\ tasks' = tasks \cup kept'
  BY DEF Poll
<1>2. Types'
  BY <1>1 DEF Bookkeeping, Types, Messages
<1>3. ASSUME NEW m
      PROVE  /\ Deliveries(m)' \in Nat /\ Deliveries(m)' <= Deliveries(m)
             /\ Deliveries(m) \in Nat
             /\ Deliveries(m) >= 1 => Deliveries(m)' >= 1
             /\ Copies(m)' = Copies(m) /\ Copies(m) \in Nat
  <2>1. Copies(m)' = Copies(m) /\ Copies(m) \in Nat
    BY <1>1, CopiesAreCounted DEF Copies, Bookkeeping
  <2>2. Due(m)' = 0 /\ UnderWay(m)' = IF m \in tasks \/ m \in kept \ fetched THEN 1 ELSE 0
    BY <1>1 DEF Due, UnderWay
  <2>. QED
    BY <2>1, <2>2 DEF Deliveries, Due, UnderWay
<1>4. Booked'
  BY <1>1, <1>3 DEF Bookkeeping, Booked, Messages, Types, Valid, Accepted, Storable
<1>. QED
  BY <1>2, <1>4 DEF Bookkeeping

\* The end of a handler uses up the delivery it was of.
LEMMA DeliveryIsUsed ==
  ASSUME Bookkeeping, NEW m \in tasks, tasks' = tasks \ {m}, UNCHANGED <<kept, fetched>>, NEW n
  PROVE  /\ Copies(n) \in Nat /\ Deliveries(n) \in Nat
         /\ Deliveries(n)' = IF n = m THEN Deliveries(n) - 1 ELSE Deliveries(n)
         /\ n = m => Deliveries(n) >= 1
<1>1. Copies(n) \in Nat
  BY CopiesAreCounted DEF Bookkeeping
<1>2. Due(n)' = Due(n) /\ Due(n) \in {0, 1}
  BY DEF Due
<1>3. /\ UnderWay(n)' = IF n = m THEN 0 ELSE UnderWay(n)
      /\ UnderWay(n) \in {0, 1} /\ (n = m => UnderWay(n) = 1)
  BY DEF UnderWay
<1>4. /\ Deliveries(n) = Due(n) + UnderWay(n)
      /\ Deliveries(n)' = Due(n)' + UnderWay(n)'
  BY DEF Deliveries
<1>5. CASE n = m
  BY <1>1, <1>2, <1>3, <1>4, <1>5
<1>6. CASE n # m
  BY <1>1, <1>2, <1>3, <1>4, <1>6
<1>. QED
  BY <1>5, <1>6

\* A step of a handler keeps the books in order (/earn_add).
LEMMA EarnAddKeeps ==
  ASSUME Bookkeeping, NEW m \in Messages, EarnAdd(m)
  PROVE  Bookkeeping'
<1>1. /\ UNCHANGED <<today, sent, kept, fetched, hit, failed, crashes>>
      /\ m \in tasks /\ tasks' = tasks \ {m}
      /\ Accepted(sent[m]) => Storable(sent[m])
  BY DEF EarnAdd
<1>2. \A n : /\ Copies(n) \in Nat /\ Deliveries(n) \in Nat
             /\ Deliveries(n)' = IF n = m THEN Deliveries(n) - 1 ELSE Deliveries(n)
             /\ n = m => Deliveries(n) >= 1
  BY <1>1, DeliveryIsUsed
<1>3. Messages' = Messages /\ \A n : Valid(n)' <=> Valid(n)
  BY <1>1 DEF Messages, Valid, Accepted, Storable
<1>4. crashes \in Nat
  BY DEF Bookkeeping, Types
<1>5. CASE Accepted(sent[m])
  <2>1. rows' = Recorded(m) /\ Valid(m)
    BY <1>1, <1>5 DEF EarnAdd, Valid
  <2>2. /\ rows' \in Seq(Rows)
        /\ \A i \in DOMAIN rows' : rows'[i].message \in Messages
        /\ \A n : Copies(n)' = IF n = m THEN Copies(n) + 1 ELSE Copies(n)
    BY <2>1, RecordedAddsOne DEF Bookkeeping
  <2>3. Types'
    BY <1>1, <2>2 DEF Bookkeeping, Types, Messages
  <2>4. Booked'
    BY <1>1, <1>2, <1>3, <1>4, <2>1, <2>2 DEF Bookkeeping, Booked, Accepted
  <2>. QED
    BY <2>3, <2>4 DEF Bookkeeping
<1>6. CASE ~Accepted(sent[m])
  <2>1. rows' = rows /\ ~Valid(m)
    BY <1>6 DEF EarnAdd, Valid
  <2>2. \A n : Copies(n)' = Copies(n)
    BY <2>1 DEF Copies
  <2>3. Types'
    BY <1>1, <2>1 DEF Bookkeeping, Types, Messages
  <2>4. ASSUME NEW n \in Messages
        PROVE  /\ Copies(n)' + Deliveries(n)' <= IF n \in hit THEN 1 + crashes ELSE 1
               /\ ~Valid(n) => Copies(n)' = 0
               /\ n \in failed \ hit => Copies(n)' + Deliveries(n)' = 0
               /\ Accepted(sent[n]) /\ n \notin hit \cup failed
                    => Copies(n)' + Deliveries(n)' >= 1
    <3>1. /\ Copies(n) + Deliveries(n) <= IF n \in hit THEN 1 + crashes ELSE 1
          /\ ~Valid(n) => Copies(n) = 0
          /\ n \in failed \ hit => Copies(n) + Deliveries(n) = 0
          /\ Accepted(sent[n]) /\ n \notin hit \cup failed => Copies(n) + Deliveries(n) >= 1
      BY DEF Bookkeeping, Booked
    <3>2. CASE n = m
      BY <1>2, <1>4, <1>6, <2>2, <3>1, <3>2
    <3>3. CASE n # m
      BY <1>2, <2>2, <3>1, <3>3
    <3>. QED
      BY <3>2, <3>3
  <2>5. Booked'
    BY <1>1, <1>3, <2>4 DEF Booked, Accepted
  <2>. QED
    BY <2>3, <2>5 DEF Bookkeeping
<1>. QED
  BY <1>5, <1>6

\* A handler whose insertion fails leaves no row and no delivery behind.
LEMMA EarnAddFailsKeeps ==
  ASSUME Bookkeeping, NEW m \in Messages, EarnAddFails(m)
  PROVE  Bookkeeping'
<1>1. /\ UNCHANGED <<today, sent, kept, fetched, rows, hit, crashes>>
      /\ m \in tasks /\ tasks' = tasks \ {m} /\ failed' = failed \cup {m}
  BY DEF EarnAddFails
<1>2. \A n : /\ Copies(n) \in Nat /\ Deliveries(n) \in Nat
             /\ Deliveries(n)' = IF n = m THEN Deliveries(n) - 1 ELSE Deliveries(n)
             /\ n = m => Deliveries(n) >= 1
  BY <1>1, DeliveryIsUsed
<1>3. Messages' = Messages /\ \A n : (Valid(n)' <=> Valid(n)) /\ Copies(n)' = Copies(n)
  BY <1>1 DEF Messages, Valid, Accepted, Storable, Copies
<1>4. crashes \in Nat
  BY DEF Bookkeeping, Types
<1>5. Types'
  BY <1>1, <1>3 DEF Bookkeeping, Types
<1>6. ASSUME NEW n \in Messages
      PROVE  /\ Copies(n)' + Deliveries(n)' <= IF n \in hit THEN 1 + crashes ELSE 1
             /\ ~Valid(n) => Copies(n)' = 0
             /\ n \in failed' \ hit => Copies(n)' + Deliveries(n)' = 0
             /\ Accepted(sent[n]) /\ n \notin hit \cup failed' => Copies(n)' + Deliveries(n)' >= 1
  <2>1. /\ Copies(n) + Deliveries(n) <= IF n \in hit THEN 1 + crashes ELSE 1
        /\ ~Valid(n) => Copies(n) = 0
        /\ n \in failed \ hit => Copies(n) + Deliveries(n) = 0
        /\ Accepted(sent[n]) /\ n \notin hit \cup failed => Copies(n) + Deliveries(n) >= 1
    BY DEF Bookkeeping, Booked
  <2>2. CASE n = m
    BY <1>1, <1>2, <1>3, <1>4, <2>1, <2>2
  <2>3. CASE n # m
    BY <1>1, <1>2, <1>3, <2>1, <2>3
  <2>. QED
    BY <2>2, <2>3
<1>7. Booked'
  BY <1>1, <1>3, <1>6 DEF Booked, Accepted
<1>. QED
  BY <1>5, <1>7 DEF Bookkeeping

\* A crash makes a message due again only if it was given to the process and is kept.
LEMMA CrashKeeps ==
  ASSUME Bookkeeping, Crash
  PROVE  Bookkeeping'
<1>1. /\ UNCHANGED <<today, sent, kept, rows, failed>> /\ crashes' = crashes + 1
      /\ hit' = hit \cup tasks \cup fetched /\ tasks' = {} /\ fetched' = {}
  BY DEF Crash
<1>2. Types'
  BY <1>1 DEF Bookkeeping, Types, Messages
<1>3. ASSUME NEW m
      PROVE  /\ Deliveries(m) \in Nat /\ Deliveries(m)' \in Nat
             /\ Deliveries(m)' <= Deliveries(m) + 1
             /\ m \notin hit' => Deliveries(m)' = Deliveries(m)
             /\ Copies(m)' = Copies(m) /\ Copies(m) \in Nat
  <2>1. Copies(m)' = Copies(m) /\ Copies(m) \in Nat
    BY <1>1, CopiesAreCounted DEF Copies, Bookkeeping
  <2>2. /\ Due(m) \in {0, 1} /\ Due(m)' \in {0, 1}
        /\ m \notin hit' => Due(m)' = Due(m)
    BY <1>1 DEF Due
  <2>3. /\ UnderWay(m) \in {0, 1} /\ UnderWay(m)' = 0
        /\ m \notin hit' => UnderWay(m) = 0
    BY <1>1 DEF UnderWay
  <2>. QED
    BY <2>1, <2>2, <2>3 DEF Deliveries
<1>4. crashes \in Nat /\ Messages' = Messages /\ hit \subseteq hit'
  BY <1>1 DEF Bookkeeping, Types, Messages
<1>5. ASSUME NEW m \in Messages
      PROVE  /\ Copies(m)' + Deliveries(m)' <= IF m \in hit' THEN 1 + crashes' ELSE 1
             /\ ~Valid(m) => Copies(m)' = 0
             /\ m \in failed \ hit' => Copies(m)' + Deliveries(m)' = 0
             /\ Accepted(sent[m]) /\ m \notin hit' \cup failed
                  => Copies(m)' + Deliveries(m)' >= 1
  BY <1>1, <1>3, <1>4 DEF Bookkeeping, Booked
<1>6. Booked'
  BY <1>1, <1>4, <1>5 DEF Booked, Valid, Accepted, Storable
<1>. QED
  BY <1>2, <1>6 DEF Bookkeeping

\* A step that touches no message, task or row keeps the books in order.
LEMMA QuietKeeps ==
  ASSUME Bookkeeping, today' \in Nat,
         UNCHANGED <<sent, kept, tasks, fetched, rows, hit, failed, crashes>>
  PROVE  Bookkeeping'
<1>1. Types'
  BY DEF Bookkeeping, Types, Messages
<1>2. \A m : Copies(m)' = Copies(m) /\ Deliveries(m)' = Deliveries(m)
  BY DEF Copies, Deliveries, Due, UnderWay
<1>3. Booked'
  BY <1>2 DEF Bookkeeping, Booked, Messages, Valid, Accepted, Storable
<1>. QED
  BY <1>1, <1>3 DEF Bookkeeping

\* Every reachable state of Telegram, the process and the book satisfies the inductive
\* invariant.
THEOREM BookkeepingInvariant == Spec => []Bookkeeping
<1>1. Init => Bookkeeping
  BY InitBooks
<1>2. Bookkeeping /\ [Next]_vars => Bookkeeping'
  <2>. SUFFICES ASSUME Bookkeeping, [Next]_vars PROVE Bookkeeping'
    OBVIOUS
  <2>1. CASE \E order \in Orders : Send(order)
    BY <2>1, SendKeeps
  <2>2. CASE Poll
    BY <2>2, PollKeeps
  <2>3. CASE \E m \in Messages : EarnAdd(m) \/ EarnAddFails(m)
    BY <2>3, EarnAddKeeps, EarnAddFailsKeeps
  <2>4. CASE Crash
    BY <2>4, CrashKeeps
  <2>5. CASE NextDay \/ UNCHANGED vars
    <3>1. /\ today' \in Nat
          /\ UNCHANGED <<sent, kept, tasks, fetched, rows, hit, failed, crashes>>
      BY <2>5 DEF NextDay, vars, Bookkeeping, Types
    <3>. QED
      BY <3>1, QuietKeeps
  <2>. QED
    BY <2>1, <2>2, <2>3, <2>4, <2>5 DEF Next
<1>. QED
  BY <1>1, <1>2, PTL DEF Spec

\* However Telegram redelivers, the process crashes and insertions fail, a subscription
\* reported with /earn_add is booked once if it is valid and never if it is not.  One whose
\* insertion failed has no row, and one a crash met in the process may be missing, or there
\* once more for each crash (cmd_earn_add, record_earn_subscription).
THEOREM BookedOnce == Spec => []ReportedIsBookedOnce
<1>1. Bookkeeping => ReportedIsBookedOnce
  <2>. SUFFICES ASSUME Bookkeeping, NEW m \in Messages
                PROVE  /\ Copies(m) <= IF m \in hit THEN 1 + crashes ELSE 1
                       /\ ~Valid(m) \/ m \in failed \ hit => Copies(m) = 0
                       /\ Accepted(sent[m]) /\ m \notin kept \cup tasks \cup hit \cup failed
                            => Copies(m) = 1
    BY DEF ReportedIsBookedOnce, Valid
  <2>1. /\ Copies(m) \in Nat /\ Deliveries(m) \in Nat /\ crashes \in Nat
        /\ m \notin kept \cup tasks => Deliveries(m) = 0
    <3>1. Copies(m) \in Nat /\ crashes \in Nat
      BY CopiesAreCounted DEF Bookkeeping, Types
    <3>. QED
      BY <3>1 DEF Deliveries, Due, UnderWay
  <2>. QED
    BY <2>1 DEF Bookkeeping, Booked
<1>. QED
  BY <1>1, BookkeepingInvariant, PTL

\* The book holds reported subscriptions that were accepted, none from a later day.
Kept ==
  /\ RowsOK /\ \A i \in DOMAIN rows : Accepted(rows[i].order)
  /\ today \in 0 .. MaxDay /\ crashes \in 0 .. MaxCrashes

\* Every step keeps what the book holds.
LEMMA KeptStep ==
  ASSUME Bookkeeping, Kept, [Next]_vars
  PROVE  Kept'
<1>1. \A i \in DOMAIN rows : /\ rows[i].message \in Messages
                             /\ rows[i].order = sent[rows[i].message]
                             /\ rows[i].subscribed \in 0 .. today
                             /\ Accepted(rows[i].order)
  BY DEF Kept, RowsOK
<1>2. today \in Nat /\ MaxDay \in Nat /\ crashes \in Nat /\ MaxCrashes \in Nat
  BY EarnAssumption DEF Bookkeeping, Types
<1>3. CASE \E order \in Orders : Send(order)
  <2>1. PICK order \in Orders : Send(order)
    BY <1>3
  <2>2. /\ Messages \subseteq Messages' /\ \A m \in Messages : sent'[m] = sent[m]
        /\ UNCHANGED <<today, rows, crashes>>
    BY <2>1 DEF Send, Messages, Bookkeeping, Types
  <2>. QED
    BY <1>1, <2>2 DEF Kept, RowsOK, Accepted
<1>4. CASE \E m \in Messages : EarnAdd(m) \/ EarnAddFails(m)
  <2>1. PICK m \in Messages : EarnAdd(m) \/ EarnAddFails(m)
    BY <1>4
  <2>2. UNCHANGED <<today, sent, crashes>> /\ rows' \in {rows, Recorded(m)}
    BY <2>1 DEF EarnAdd, EarnAddFails
  <2>3. CASE rows' = Recorded(m) /\ Accepted(sent[m])
    <3> DEFINE r == Row(m)
    <3>1. /\ r.message = m /\ r.order = sent[m] /\ r.subscribed = today /\ r \in Rows
      BY DEF Row, Rows, Bookkeeping, Types, Messages
    <3>2. rows' = Append(rows, r) /\ rows \in Seq(Rows)
      BY <2>3 DEF Recorded, Bookkeeping, Types
    <3>. HIDE DEF r
    <3>3. \A i \in DOMAIN rows' : rows'[i] = r \/ (i \in DOMAIN rows /\ rows'[i] = rows[i])
      BY <3>1, <3>2
    <3>4. \A i \in DOMAIN rows' : /\ rows'[i].message \in Messages
                                  /\ rows'[i].order = sent[rows'[i].message]
                                  /\ rows'[i].subscribed \in 0 .. today
                                  /\ Accepted(rows'[i].order)
      BY <1>1, <1>2, <2>3, <3>1, <3>3
    <3>. QED
      BY <2>2, <3>4 DEF Kept, RowsOK, Messages, Accepted
  <2>4. CASE rows' = rows
    BY <2>2, <2>4 DEF Kept, RowsOK, Messages, Accepted
  <2>5. rows' = rows \/ Accepted(sent[m])
    BY <2>1 DEF EarnAdd, EarnAddFails
  <2>. QED
    BY <2>2, <2>3, <2>4, <2>5
<1>5. CASE Crash
  <2>1. UNCHANGED <<today, sent, rows>> /\ crashes' \in 0 .. MaxCrashes
    BY <1>2, <1>5 DEF Crash
  <2>. QED
    BY <2>1 DEF Kept, RowsOK, Messages, Accepted
<1>6. CASE NextDay
  <2>1. UNCHANGED <<sent, rows, crashes>> /\ today' \in 0 .. MaxDay /\ today' = today + 1
    BY <1>2, <1>6 DEF NextDay
  <2>2. \A i \in DOMAIN rows : rows[i].subscribed \in 0 .. today'
    BY <1>1, <1>2, <2>1
  <2>. QED
    BY <1>1, <2>1, <2>2 DEF Kept, RowsOK, Messages, Accepted
<1>7. CASE Poll \/ UNCHANGED vars
  BY <1>7 DEF Poll, vars, Kept, RowsOK, Messages, Accepted
<1>. QED
  BY <1>3, <1>4, <1>5, <1>6, <1>7 DEF Next

\* In every reachable state the book holds accepted subscriptions only.
THEOREM BookHoldsAccepted == Spec => [](Bookkeeping /\ Kept)
<1>1. Init => Kept
  BY EarnAssumption DEF Init, Kept, RowsOK
<1>2. Bookkeeping /\ Kept /\ [Next]_vars => Kept'
  BY KeptStep
<1>. QED
  BY <1>1, <1>2, BookkeepingInvariant, PTL DEF Spec

\* Telegram, the process and the book hold values of their types in every reachable state,
\* and every row is of a message as it was sent (earn_positions).
THEOREM EarnTypes == Spec => []TypeOK
<1>1. Bookkeeping /\ Kept => TypeOK
  BY DEF Bookkeeping, Types, Kept, TypeOK
<1>. QED
  BY <1>1, BookHoldsAccepted, PTL

-----------------------------------------------------------------------------
(* Maturity.                                                               *)

\* get_summary on a fixed term: announced on each of its last days, then expired.
LEMMA AnnouncedThenExpired ==
  ASSUME Bookkeeping, Kept
  PROVE  TermsAnnounced
<1>1. Soon \in Int /\ today \in Int
  BY EarnAssumption DEF Bookkeeping, Types
<1>2. ASSUME NEW i \in Active, HasTerm(i)
      PROVE  rows[i].subscribed \in Int /\ rows[i].order.term \in Int
  <2>1. rows[i] \in Rows
    BY DEF Bookkeeping, Types, Active
  <2>. QED
    BY <1>2, <2>1, EarnAssumption DEF Rows, HasTerm
<1>3. ASSUME NEW i \in Active, HasTerm(i)
      PROVE  /\ DaysRemaining(i) \in Int
             /\ today > rows[i].subscribed + rows[i].order.term - Soon => DaysRemaining(i) < Soon
  BY <1>1, <1>2, <1>3 DEF DaysRemaining
<1>4. \A i \in ExpiringSoon : i \in Active /\ HasTerm(i) /\ DaysRemaining(i) >= 0
  BY DEF ExpiringSoon
<1>5. \A i \in ExpiredUnredeemed : DaysRemaining(i) < 0
  BY DEF ExpiredUnredeemed
<1>6. ExpiringSoon \cap ExpiredUnredeemed = {}
  <2>. SUFFICES ASSUME NEW i \in ExpiringSoon, i \in ExpiredUnredeemed PROVE FALSE
    OBVIOUS
  <2>. QED
    BY <1>3, <1>4, <1>5
<1>7. ASSUME NEW i \in Active, HasTerm(i), DaysRemaining(i) < Soon
      PROVE  i \in ExpiringSoon \cup ExpiredUnredeemed
  <2>1. DaysRemaining(i) < 0 \/ DaysRemaining(i) >= 0
    BY <1>3, <1>7
  <2>. QED
    BY <1>7, <2>1 DEF ExpiringSoon, ExpiredUnredeemed
<1>. QED
  BY <1>3, <1>6, <1>7 DEF TermsAnnounced

\* For any orders, redeliveries, crashes, failed insertions and days: a fixed term is announced
\* on each of its last days, then reported as expired for ever (get_summary).
THEOREM TermsAlwaysAnnounced == Spec => []TermsAnnounced
<1>1. Bookkeeping /\ Kept => TermsAnnounced
  BY AnnouncedThenExpired
<1>. QED
  BY <1>1, BookHoldsAccepted, PTL

-----------------------------------------------------------------------------
(* The macro event detector.                                               *)

\* A spike the detector times was read after the last calm reading, and what it remembers of
\* the last event is what was last handed out.
Remembered ==
  /\ since # Macro!Unset => seen /\ since <= calm
  /\ emitted = IF lastEvent = Macro!Unset THEN Day ELSE lastEvent

Watching == Macro!TypeOK /\ Remembered

\* A detector that has just started remembers nothing.
LEMMA InitWatches ==
  ASSUME Macro!MacroAssumption, Macro!Init
  PROVE  Watching
<1>1. SlowPoll \in Nat /\ Sustain \in Nat /\ Day \in Nat /\ MaxRestarts \in Nat
  BY DEF Macro!MacroAssumption
<1>2. /\ sleep \in 0 .. SlowPoll /\ since \in Macro!Unset .. Sustain
      /\ lastEvent \in Macro!Unset .. Day /\ active \in 0 .. Macro!MaxConcurrentEvents
      /\ emitted \in 0 .. Day /\ calm \in 0 .. Sustain /\ restarts \in 0 .. MaxRestarts
  BY <1>1 DEF Macro!Init, Macro!Unset, Macro!MaxConcurrentEvents
<1>3. Macro!TypeOK
  BY <1>2 DEF Macro!Init, Macro!TypeOK
<1>4. Remembered
  BY DEF Macro!Init, Remembered
<1>. QED
  BY <1>3, <1>4 DEF Watching

\* A reading keeps what the detector remembers true of the readings it had.
LEMMA PollAnsweredKeeps ==
  ASSUME Macro!MacroAssumption, Watching, Macro!PollAnswered
  PROVE  Watching'
<1>1. /\ sleep' \in 0 .. SlowPoll /\ interval' \in {FastPoll, SlowPoll}
      /\ UNCHANGED <<vix, status, funded, restarts>>
  BY DEF Macro!MacroAssumption, Macro!PollAnswered, Macro!NextInterval
<1>2. /\ since' \in Macro!Unset .. Sustain /\ calm' \in 0 .. Sustain /\ seen' \in BOOLEAN
      /\ since' # Macro!Unset => seen' /\ since' <= calm'
  <2>1. /\ since \in Macro!Unset .. Sustain /\ calm \in 0 .. Sustain /\ seen \in BOOLEAN
        /\ since # Macro!Unset => seen /\ since <= calm
        /\ Sustain \in Nat
    BY DEF Watching, Macro!TypeOK, Remembered, Macro!MacroAssumption
  <2>2. /\ since' = Macro!NextSince
        /\ calm' = IF vix = "calm" THEN 0 ELSE calm
        /\ seen' = (vix = "spike" \/ (seen /\ vix # "calm"))
    BY DEF Macro!PollAnswered
  <2>3. CASE vix = "spike"
    <3>1. since' = Macro!Since /\ calm' = calm /\ seen' = TRUE
      BY <2>2, <2>3 DEF Macro!NextSince
    <3>. QED
      BY <2>1, <3>1 DEF Macro!Since, Macro!Unset
  <2>4. CASE vix = "calm"
    BY <2>1, <2>2, <2>4 DEF Macro!NextSince, Macro!Unset
  <2>5. CASE vix # "spike" /\ vix # "calm"
    BY <2>1, <2>2, <2>5 DEF Macro!NextSince
  <2>. QED
    BY <2>3, <2>4, <2>5
<1>3. /\ lastEvent' \in Macro!Unset .. Day /\ emitted' \in 0 .. Day
      /\ active' \in 0 .. Macro!MaxConcurrentEvents
      /\ emitted' = IF lastEvent' = Macro!Unset THEN Day ELSE lastEvent'
  <2>1. Macro!Emit \/ UNCHANGED <<active, lastEvent, emitted, reset>>
    BY DEF Macro!PollAnswered
  <2>2. CASE Macro!Emit
    BY <2>2 DEF Macro!Emit, Macro!Accepts, Macro!MacroAssumption, Macro!Unset, Watching,
       Macro!TypeOK, Macro!MaxConcurrentEvents
  <2>3. CASE UNCHANGED <<active, lastEvent, emitted, reset>>
    BY <2>3 DEF Watching, Macro!TypeOK, Remembered
  <2>. QED
    BY <2>1, <2>2, <2>3
<1>4. reset' \in BOOLEAN
  <2>1. reset' = FALSE \/ reset' = reset
    BY DEF Macro!PollAnswered, Macro!Emit
  <2>. QED
    BY <2>1 DEF Watching, Macro!TypeOK
<1>. QED
  BY <1>1, <1>2, <1>3, <1>4 DEF Watching, Macro!TypeOK, Remembered

\* What is remembered grows old together, up to the ages no test tells apart.
LEMMA MacroTickKeeps ==
  ASSUME Macro!MacroAssumption, Watching, Macro!Tick
  PROVE  Watching'
<1>1. /\ Sustain \in Nat /\ Day \in Nat
      /\ since \in Macro!Unset .. Sustain /\ calm \in 0 .. Sustain
      /\ lastEvent \in Macro!Unset .. Day /\ emitted \in 0 .. Day
  BY DEF Macro!MacroAssumption, Watching, Macro!TypeOK
<1>2. /\ since' = Macro!Older(since, Sustain) /\ lastEvent' = Macro!Older(lastEvent, Day)
      /\ emitted' = Macro!Older(emitted, Day) /\ calm' = Macro!Older(calm, Sustain)
      /\ UNCHANGED <<interval, status, funded, active, seen, restarts>>
      /\ sleep' = sleep - 1 /\ sleep > 0 /\ vix' \in Macro!Levels
  BY DEF Macro!Tick, Macro!strategy
<1>3. /\ since' \in Macro!Unset .. Sustain /\ calm' \in 0 .. Sustain
      /\ lastEvent' \in Macro!Unset .. Day /\ emitted' \in 0 .. Day
  BY <1>1, <1>2 DEF Macro!Older, Macro!Unset
<1>4. since' # Macro!Unset => since # Macro!Unset /\ (since <= calm => since' <= calm')
  BY <1>1, <1>2 DEF Macro!Older, Macro!Unset
<1>5. (emitted = IF lastEvent = Macro!Unset THEN Day ELSE lastEvent)
        => emitted' = IF lastEvent' = Macro!Unset THEN Day ELSE lastEvent'
  BY <1>1, <1>2 DEF Macro!Older, Macro!Unset
<1>6. sleep' \in 0 .. SlowPoll
  BY <1>2 DEF Watching, Macro!TypeOK, Macro!MacroAssumption
<1>7. reset' \in BOOLEAN
  BY DEF Macro!Tick
<1>. QED
  BY <1>2, <1>3, <1>4, <1>5, <1>6, <1>7 DEF Watching, Macro!TypeOK, Remembered

\* Every step of the detector, the strategy and the process keeps what is remembered true.
LEMMA MacroStep ==
  ASSUME Macro!MacroAssumption, Watching, [Macro!Next]_Macro!vars
  PROVE  Watching'
<1>1. CASE Macro!PollAnswered
  BY <1>1, PollAnsweredKeeps
<1>2. CASE Macro!PollFails
  <2>1. sleep' \in 0 .. SlowPoll
    BY <1>2 DEF Macro!PollFails, Macro!MacroAssumption, Watching, Macro!TypeOK
  <2>. QED
    BY <1>2, <2>1 DEF Macro!PollFails, Macro!strategy, Macro!history, Watching, Macro!TypeOK,
       Remembered
<1>3. CASE Macro!Tick
  BY <1>3, MacroTickKeeps
<1>4. CASE Macro!Fund
  BY <1>4 DEF Macro!Fund, Macro!detector, Macro!history, Watching, Macro!TypeOK, Remembered
<1>5. CASE \E s \in {"PAPER", "DISABLED", "HALTED"} : Macro!SetStatus(s)
  BY <1>5 DEF Macro!SetStatus, Macro!detector, Macro!history, Watching, Macro!TypeOK, Remembered
<1>6. CASE Macro!Restart
  <2>1. SlowPoll \in Nat /\ Sustain \in Nat /\ Day \in Nat /\ MaxRestarts \in Nat
    BY DEF Macro!MacroAssumption
  <2>2. restarts' \in 0 .. MaxRestarts /\ vix' \in Macro!Levels
    BY <1>6, <2>1 DEF Macro!Restart, Watching, Macro!TypeOK
  <2>3. /\ sleep' \in 0 .. SlowPoll /\ since' \in Macro!Unset .. Sustain
        /\ lastEvent' \in Macro!Unset .. Day /\ active' \in 0 .. Macro!MaxConcurrentEvents
        /\ emitted' \in 0 .. Day /\ calm' \in 0 .. Sustain
    BY <1>6, <2>1 DEF Macro!Restart, Macro!Unset, Macro!MaxConcurrentEvents
  <2>4. Macro!TypeOK'
    BY <1>6, <2>2, <2>3 DEF Macro!Restart, Macro!TypeOK
  <2>5. Remembered'
    BY <1>6 DEF Macro!Restart, Remembered
  <2>. QED
    BY <2>4, <2>5 DEF Watching
<1>7. CASE UNCHANGED Macro!vars
  BY <1>7 DEF Macro!vars, Macro!detector, Macro!strategy, Macro!history, Watching, Macro!TypeOK,
     Remembered
<1>. QED
  BY <1>1, <1>2, <1>3, <1>4, <1>5, <1>6, <1>7 DEF Macro!Next

\* Whatever the index prints, the source fails, the operator switches and the process
\* restarts, the detector and the strategy hold values of their types, and what the detector
\* remembers is true of the readings it had and the events it handed out.
THEOREM DetectorRemembers ==
  ASSUME Macro!MacroAssumption
  PROVE  Macro!Spec => []Watching
<1>1. Macro!Init => Watching
  BY InitWatches
<1>2. Watching /\ [Macro!Next]_Macro!vars => Watching'
  BY MacroStep
<1>. QED
  BY <1>1, <1>2, PTL DEF Macro!Spec

\* For every poll interval, sustain and day: an event is handed to the strategies only by a
\* reading above the threshold an earlier one confirms, with no calm reading for as long as a
\* spike must last, and by one process never twice in a day, whatever the callback answered
\* (_check_vix, _emit).
THEOREM FiresOnce ==
  ASSUME Macro!MacroAssumption
  PROVE  Macro!Spec => Macro!FiredOnceAndSustained
<1>1. Watching /\ [Macro!Next]_Macro!vars
        => [emitted' = 0 /\ emitted # 0 =>
              vix = "spike" /\ seen /\ calm = Sustain /\ emitted = Day]_Macro!vars
  <2>. SUFFICES ASSUME Watching, Macro!Next, emitted' = 0, emitted # 0
                PROVE  vix = "spike" /\ seen /\ calm = Sustain /\ emitted = Day
    OBVIOUS
  <2>1. CASE Macro!PollAnswered
    <3>1. vix = "spike" /\ Macro!Since >= Sustain /\ Macro!MayRefire
      BY <2>1 DEF Macro!PollAnswered
    <3>2. since = Sustain /\ since # Macro!Unset
      BY <3>1 DEF Macro!Since, Macro!Unset, Macro!MacroAssumption, Watching, Macro!TypeOK
    <3>3. seen /\ calm = Sustain
      BY <3>2 DEF Watching, Remembered, Macro!TypeOK, Macro!MacroAssumption
    <3>4. emitted = Day
      BY <3>1 DEF Macro!MayRefire, Watching, Remembered
    <3>. QED
      BY <3>1, <3>3, <3>4
  <2>2. CASE Macro!Tick
    BY <2>2 DEF Macro!Tick, Macro!Older, Watching, Macro!TypeOK, Macro!MacroAssumption,
       Macro!Unset
  <2>3. CASE \/ Macro!PollFails \/ Macro!Fund
             \/ \E s \in {"PAPER", "DISABLED", "HALTED"} : Macro!SetStatus(s)
    BY <2>3 DEF Macro!PollFails, Macro!Fund, Macro!SetStatus, Macro!history
  <2>4. CASE Macro!Restart
    BY <2>4 DEF Macro!Restart, Macro!MacroAssumption
  <2>. QED
    BY <2>1, <2>2, <2>3, <2>4 DEF Macro!Next
<1>. QED
  BY <1>1, DetectorRemembers, PTL DEF Macro!Spec, Macro!FiredOnceAndSustained
================================================================================
