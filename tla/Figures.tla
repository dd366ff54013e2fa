-------------------------------- MODULE Figures --------------------------------
(***************************************************************************)
(* The figures that the pages compute from a trader's register: the        *)
(* overview's, which are kept until the register or a balance is fetched   *)
(* again, and those of the payments, analytics, notifications and history  *)
(* pages, which are computed when they are shown.  Payments are            *)
(* numbered in the order in which they are booked, and a fetch is one step *)
(* (Register has its parts).                                               *)
(***************************************************************************)
EXTENDS Integers, Sequences, FiniteSets

Lists == INSTANCE SequencesExt

CONSTANTS
  MaxSettled,   \* the payments of a behaviour
  Worth,        \* the amount of each
  Marked,       \* those that carry an fx_rate
  Crossed,      \* those whose fx_rate is positive: the column may store a rate as 0
  Instant,      \* the millisecond at which each is created
  LastDay,
  BarDays,      \* 7: the days of the overview's bars
  FeedRows,     \* 8: the rows of the overview's feed
  EventRows     \* 20: the rows of the notifications

Bookings == 1..MaxSettled
States == {"SUCCESS", "REVERSED", "FAILED", "PENDING", "PROCESSING"}

ASSUME FiguresAssumption ==
  /\ MaxSettled \in Nat /\ LastDay \in Nat /\ BarDays \in Nat \ {0}
  /\ Worth \in [Bookings -> Nat] /\ Crossed \subseteq Marked /\ Marked \subseteq Bookings
  /\ Instant \in [Bookings -> Nat] /\ \A m, n \in Bookings : m < n => Instant[m] <= Instant[n]
  /\ FeedRows \in Nat /\ EventRows \in Nat /\ FeedRows <= EventRows

VARIABLES
  ledger,   \* the engine's payments, oldest first: status and the day of created_at
  today,
  rows,     \* transfers: the part of the ledger that has been fetched
  stats,    \* the overview's figures
  statsDay  \* history: the day on which they were computed

figuresVars == <<ledger, today, rows, stats, statsDay>>

With(r, status) == {n \in DOMAIN r : r[n].status = status}
Sum(S) == Lists!MapThenSumSet(LAMBDA n : Worth[n], S)
OnDay(S, r, d) == {n \in S : r[n].day = d}
\* Math.round((part / whole) * 1000), the tenths of a per cent.
Tenths(part, whole) == IF whole = 0 THEN 0 ELSE (2000 * part + whole) \div (2 * whole)

-----------------------------------------------------------------------------
(* What each page computes                                                 *)

\* One of the bars of the days that end with d.
Bar(r, d, i) == Sum(OnDay(With(r, "SUCCESS"), r, d - (BarDays - i)))

Overview(r, d) ==
  LET paid == With(r, "SUCCESS") IN
  [paid |-> Cardinality(paid), settledToday |-> Sum(OnDay(paid, r, d)), volume |-> Sum(paid),
   failed |-> Cardinality(With(r, "FAILED")), processing |-> Cardinality(With(r, "PROCESSING")),
   pending |-> Cardinality(With(r, "PENDING")), cross |-> Cardinality(paid \cap Crossed),
   rate |-> Tenths(Cardinality(paid), Len(r)), daily |-> [i \in 1..BarDays |-> Bar(r, d, i)]]

\* Transfers, which counts the cross-border payments of every status.
PaymentsPage ==
  [paid |-> Cardinality(With(rows, "SUCCESS")),
   settledToday |-> Sum(OnDay(With(rows, "SUCCESS"), rows, today)),
   processing |-> Cardinality(With(rows, "PROCESSING")), pending |-> Cardinality(With(rows, "PENDING")),
   rate |-> Tenths(Cardinality(With(rows, "SUCCESS")), Len(rows)),
   cross |-> Cardinality(DOMAIN rows \cap Crossed)]

\* Analytics asks only whether there is an fx_rate.
Analytics ==
  [success |-> Cardinality(With(rows, "SUCCESS")), failed |-> Cardinality(With(rows, "FAILED")),
   pending |-> Cardinality(With(rows, "PENDING") \cup With(rows, "PROCESSING")),
   reversed |-> Cardinality(With(rows, "REVERSED")), volume |-> Sum(With(rows, "SUCCESS")),
   cross |-> Cardinality(With(rows, "SUCCESS") \cap Marked), total |-> Len(rows)]

\* The shares of its status table, where the pending payments include those in
\* processing.
Shares ==
  LET share(part) == Tenths(part, Analytics.total)
  IN  <<share(Analytics.success), share(Analytics.failed), share(Analytics.pending), share(Analytics.reversed)>>

\* Failed and reversed, on the history page and on the notifications page.
Exceptions == Cardinality(With(rows, "FAILED") \cup With(rows, "REVERSED"))

\* The overview's feed: the engine lists the newest first.
Feed == SubSeq(Lists!Reverse([i \in DOMAIN rows |-> i]), 1, IF Len(rows) < FeedRows THEN Len(rows) ELSE FeedRows)

\* The sort is stable, and puts a payment behind those that are newer.
Newer(m, n) == IF Instant[m] = Instant[n] THEN m > n ELSE Instant[m] > Instant[n]
EventPlace(n) == Cardinality({m \in DOMAIN rows : Newer(m, n)}) + 1

Events ==
  SubSeq([i \in DOMAIN rows |-> CHOOSE n \in DOMAIN rows : EventPlace(n) = i],
         1, IF Len(rows) < EventRows THEN Len(rows) ELSE EventRows)

-----------------------------------------------------------------------------
(* The engine, the clock and the effects                                   *)

Settle ==
  /\ Len(ledger) < MaxSettled
  /\ ledger' = Append(ledger, [status |-> "SUCCESS", day |-> today])
  /\ UNCHANGED <<today, rows, stats, statsDay>>

Undone(n) ==
  /\ n \in DOMAIN ledger /\ ledger[n].status = "SUCCESS"
  /\ ledger' = [ledger EXCEPT ![n].status = "REVERSED"]
  /\ UNCHANGED <<today, rows, stats, statsDay>>

Midnight ==
  /\ today < LastDay /\ today' = today + 1
  /\ UNCHANGED <<ledger, rows, stats, statsDay>>

\* Mutant: the overview is not computed again.
FetchedOnly ==
  /\ rows' = ledger /\ statsDay' = today
  /\ UNCHANGED <<ledger, today, stats>>

\* useTransfers, when a page opens, and the overview at a live event.
Fetched ==
  /\ rows' = ledger /\ stats' = Overview(ledger, today) /\ statsDay' = today
  /\ UNCHANGED <<ledger, today>>

\* The overview's wallets have been fetched again.
BalancesFetched ==
  /\ stats' = Overview(rows, today) /\ statsDay' = today
  /\ UNCHANGED <<ledger, today, rows>>

FiguresInit ==
  /\ ledger = <<>> /\ today = 0 /\ rows = <<>>
  /\ stats = Overview(<<>>, 0) /\ statsDay = 0

FiguresNext ==
  Settle \/ Midnight \/ Fetched \/ BalancesFetched \/ \E n \in Bookings : Undone(n)

FiguresSpec == FiguresInit /\ [][FiguresNext]_figuresVars

-----------------------------------------------------------------------------
(* Properties                                                              *)

\* The figures that the overview keeps are those that the other pages compute of
\* the register when they are shown: the settled payments and their sum, the
\* share of successes, and today's sum as long as the day is the one on which the
\* overview computed it.  With the exceptions of the history page and the pending
\* payments of analytics they account for every payment once, the shares of the
\* status table for the whole but for what rounding takes; and the three counts
\* of cross-border payments differ by the reversed ones and by those whose rate
\* is 0 (Dashboard.tsx stats, Transfers.tsx, History.tsx audit, OperationsModule.tsx stats).
CountsAgree ==
  /\ stats.paid = Analytics.success /\ stats.volume = Analytics.volume /\ stats.rate = Shares[1]
  /\ statsDay = today => stats.settledToday = PaymentsPage.settledToday
  /\ Analytics.total = stats.paid + Analytics.pending + Exceptions
  /\ rows # <<>> => Shares[1] + Shares[2] + Shares[3] + Shares[4] \in 998..1002
  /\ PaymentsPage.cross = stats.cross + Cardinality(With(rows, "REVERSED") \cap Crossed)
  /\ Analytics.cross = stats.cross + Cardinality(With(rows, "SUCCESS") \cap (Marked \ Crossed))

\* The overview's bars hold every settled payment but those of days before the
\* first bar, and the last bar is the day's figure beside it (Dashboard.tsx daily).
BarsHoldVolume ==
  /\ stats.settledToday = stats.daily[BarDays]
  /\ stats.volume = Lists!MapThenSumSet(LAMBDA i : stats.daily[i], 1..BarDays)
       + Sum({n \in With(rows, "SUCCESS") : rows[n].day <= statsDay - BarDays})

\* The feed and the notifications list the same newest payments in the same
\* order, though one keeps the engine's order and the other sorts by a time
\* that two payments may share (Dashboard.tsx feed, OperationsModule.tsx events).
FeedIsNewest ==
  /\ Lists!IsPrefix(Feed, Events)
  /\ \A i \in DOMAIN Events : Events[i] = Len(rows) + 1 - i

\* What the pages count, draw and list of one fetched register agrees.
PagesAgree == CountsAgree /\ BarsHoldVolume /\ FeedIsNewest
=============================================================================
