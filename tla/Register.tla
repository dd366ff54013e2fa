------------------------------- MODULE Register -------------------------------
(***************************************************************************)
(* The register of a trader's payments on the payments page and on the     *)
(* history page, which also filters, sorts and pages it.  Payments are     *)
(* numbered in the order in which they are booked.  An effect fetches the  *)
(* register when the page is opened, after a payment of its own, when the  *)
(* user retries and when another trader comes; it cancels the fetch before.*)
(***************************************************************************)
EXTENDS Integers, Sequences, FiniteSets

CONSTANTS
  MaxPayments,   \* that are booked in a behaviour
  Stamp,         \* the millisecond in which each payment was booked
  PageSize

Numbers == 1..MaxPayments
Statuses == {"SUCCESS", "REVERSED"}

ASSUME RegisterAssumption ==
  MaxPayments \in Nat /\ PageSize \in Nat \ {0} /\ Stamp \in [Numbers -> Int]

VARIABLES
  booked,     \* the engine's payments, oldest first, by status
  onHistory,  \* the page: History, or Transfers
  known,      \* transfers: payment |-> its status when the register was fetched
  due,        \* tick or trader has changed, and the effect has not run yet
  fetch,      \* "idle", "asked", "sent" or "failed", and the register on its way
  filter, pageNo, sortDir,
  unanswered, \* the payments made on this page whose answer is on its way
  ownPaid,    \* history: the payments made on this page and answered
  replaced    \* history: another trader has come while the page was open

viewVars == <<filter, pageNo, sortDir>>
engineSide == <<booked, onHistory, unanswered, ownPaid, replaced>>
registerVars == <<engineSide, known, due, fetch, viewVars>>

NoList == [n \in {} |-> "SUCCESS"]
Fetch(at, list) == fetch' = [at |-> at, list |-> list]

-----------------------------------------------------------------------------
(* The engine, and payments and reversals made elsewhere                   *)

Book ==
  /\ Len(booked) < MaxPayments /\ booked' = Append(booked, "SUCCESS")
  /\ UNCHANGED <<onHistory, unanswered, ownPaid, replaced, known, due, fetch, viewVars>>

Undo(n) ==
  /\ n \in DOMAIN booked /\ booked[n] = "SUCCESS" /\ booked' = [booked EXCEPT ![n] = "REVERSED"]
  /\ UNCHANGED <<onHistory, unanswered, ownPaid, replaced, known, due, fetch, viewVars>>

\* The register of another trader is any part of the payments.
ListServed ==
  /\ fetch.at = "asked"
  /\ \/ \E S \in SUBSET DOMAIN booked :
          (~replaced => S = DOMAIN booked) /\ Fetch("sent", [n \in S |-> booked[n]])
     \/ Fetch("failed", NoList)
  /\ UNCHANGED <<engineSide, known, due, viewVars>>

-----------------------------------------------------------------------------
(* useTransfers                                                            *)

ListArrives ==
  /\ fetch.at = "sent" /\ known' = fetch.list /\ Fetch("idle", NoList)
  /\ UNCHANGED <<engineSide, due, viewVars>>

FetchEffect ==
  /\ due /\ due' = FALSE /\ Fetch("asked", NoList)
  /\ UNCHANGED <<engineSide, known, viewVars>>

RetryList ==
  /\ fetch.at = "failed" /\ ~due /\ due' = TRUE
  /\ UNCHANGED <<engineSide, known, fetch, viewVars>>

\* createTransfer, createCrossBorderTransfer: the engine books the payment.  A
\* refused one changes nothing here.
PayHere ==
  /\ ~onHistory /\ Len(booked) < MaxPayments
  /\ booked' = Append(booked, "SUCCESS") /\ unanswered' = unanswered \cup {Len(booked) + 1}
  /\ UNCHANGED <<onHistory, ownPaid, replaced, known, due, fetch, viewVars>>

\* Mutant: tick was read before the call, and the fetch it starts is over.
AnsweredWithoutTick(n) ==
  /\ n \in unanswered /\ unanswered' = unanswered \ {n} /\ ownPaid' = ownPaid \cup {n}
  /\ UNCHANGED <<booked, onHistory, replaced, known, due, fetch, viewVars>>

\* The answer changes tick.
PaymentAnswered(n) ==
  /\ n \in unanswered /\ unanswered' = unanswered \ {n} /\ ownPaid' = ownPaid \cup {n}
  /\ due' = TRUE
  /\ UNCHANGED <<booked, onHistory, replaced, known, fetch, viewVars>>

\* The call throws although the payment is booked: tick stays, and the page does
\* not fetch.
AnswerLost(n) ==
  /\ n \in unanswered /\ unanswered' = unanswered \ {n}
  /\ UNCHANGED <<booked, onHistory, ownPaid, replaced, known, due, fetch, viewVars>>

\* A late sign-in puts another trader under the page, which keeps its view.
Replace ==
  /\ ~replaced /\ replaced' = TRUE /\ due' = TRUE
  /\ UNCHANGED <<booked, onHistory, unanswered, ownPaid, known, fetch, viewVars>>

-----------------------------------------------------------------------------
(* The view of the history page                                            *)

Filtered == {n \in DOMAIN known : filter = "ALL" \/ known[n] = filter}

\* By date, the only column with a header to sort by.  The sort is stable, and
\* the engine lists the newest payment first.
Precedes(m, n) ==
  IF Stamp[m] = Stamp[n] THEN m > n
  ELSE IF sortDir = "asc" THEN Stamp[m] < Stamp[n] ELSE Stamp[m] > Stamp[n]

\* The place of a record in the sorted register.
Place(n) == Cardinality({m \in Filtered : Precedes(m, n)}) + 1
Arranged == [i \in 1..Cardinality(Filtered) |-> CHOOSE n \in Filtered : Place(n) = i]

Pages == IF Filtered = {} THEN 1 ELSE (Cardinality(Filtered) + PageSize - 1) \div PageSize

\* The slice stops at the end of the register.
PageRows(p) ==
  LET end == (p + 1) * PageSize
  IN  SubSeq(Arranged, p * PageSize + 1, IF end < Len(Arranged) THEN end ELSE Len(Arranged))

TableShown == onHistory /\ fetch.at = "idle" /\ Filtered # {}

\* Mutant: the page number stays.
FilterOnly(f) ==
  /\ onHistory /\ filter' = f
  /\ UNCHANGED <<engineSide, known, due, fetch, pageNo, sortDir>>

ChooseFilter(f) ==
  /\ onHistory /\ filter' = f /\ pageNo' = 0
  /\ UNCHANGED <<engineSide, known, due, fetch, sortDir>>

ToggleSort ==
  /\ TableShown /\ sortDir' = IF sortDir = "desc" THEN "asc" ELSE "desc"
  /\ UNCHANGED <<engineSide, known, due, fetch, filter, pageNo>>

TurnPage ==
  /\ TableShown
  /\ \/ pageNo # 0 /\ pageNo' = pageNo - 1
     \/ pageNo < Pages - 1 /\ pageNo' = pageNo + 1
  /\ UNCHANGED <<engineSide, known, due, fetch, filter, sortDir>>

-----------------------------------------------------------------------------
\* The page has been opened, and its first fetch has ended.
RegisterInit ==
  /\ booked \in UNION {[1..n -> Statuses] : n \in 0..MaxPayments} /\ onHistory \in BOOLEAN
  /\ \/ known = booked /\ fetch = [at |-> "idle", list |-> NoList]
     \/ known = NoList /\ fetch = [at |-> "failed", list |-> NoList]
  /\ due = FALSE
  /\ filter = "ALL" /\ pageNo = 0 /\ sortDir = "desc"
  /\ unanswered = {} /\ ownPaid = {} /\ replaced = FALSE

RegisterNext ==
  \/ Book \/ ListServed \/ ListArrives \/ FetchEffect \/ RetryList \/ PayHere \/ Replace
  \/ ToggleSort \/ TurnPage
  \/ \E n \in Numbers : Undo(n) \/ PaymentAnswered(n) \/ AnswerLost(n)
  \/ \E f \in Statuses \cup {"ALL"} : ChooseFilter(f)

RegisterSpec == RegisterInit /\ [][RegisterNext]_registerVars

RegisterFairness ==
  WF_registerVars(FetchEffect) /\ WF_registerVars(ListServed) /\ WF_registerVars(ListArrives)

-----------------------------------------------------------------------------
(* Properties                                                              *)

\* Types; a page that is not History never changes the view.
RegisterTypeOK ==
  /\ booked \in Seq(Statuses) /\ Len(booked) <= MaxPayments
  /\ DOMAIN known \subseteq Numbers /\ \A n \in DOMAIN known : known[n] \in Statuses
  /\ fetch.at \in {"idle", "asked", "sent", "failed"} /\ due \in BOOLEAN
  /\ onHistory \in BOOLEAN /\ replaced \in BOOLEAN
  /\ unanswered \cup ownPaid \subseteq DOMAIN booked
  /\ filter \in Statuses \cup {"ALL"} /\ sortDir \in {"asc", "desc"}
  /\ pageNo \in Nat /\ (~onHistory => filter = "ALL" /\ pageNo = 0)

\* Every record that passes the filter is on exactly one of the pages that can
\* be turned to, and the page that is open is one of them, whatever has been
\* filtered, sorted and turned; unless another trader's register has come under
\* the page, which keeps its number (History.tsx filtered, pageRows, pages).
EveryRecordOnOnePage ==
  /\ \A n \in Filtered :
       Cardinality({p \in 0..Pages - 1 : \E i \in DOMAIN PageRows(p) : PageRows(p)[i] = n}) = 1
  /\ pageNo < Pages \/ replaced

\* A payment made on the page comes into its register, unless its answer is lost,
\* the fetch fails or the trader is replaced (useTransfers.ts createTransfer).
OwnListed == ownPaid \subseteq DOMAIN known \/ fetch.at = "failed" \/ replaced
OwnPaymentListed == []<>OwnListed
=============================================================================
