------------------------------ MODULE CardProofs ------------------------------
(***************************************************************************)
(* The invoices page and its card, for any invoices, clicks and other      *)
(* callers of the engine.  CardInv is the inductive invariant.             *)
(***************************************************************************)
EXTENDS PayCard, CallerProofs

-----------------------------------------------------------------------------
(* The invariant                                                           *)

\* The clicks whose payments have been answered.
Told == {p \in Clicks : pays[p] # None /\ paying # p}

\* The card knows issuers' accounts only; a payment that the page no longer
\* waits for has been answered; and a timer is that of an answer.
PageInv ==
  /\ dest \in {Issuer[i] : i \in Invoices} \cup {None}
  /\ \A p \in Told : stage[p] = "done"
  /\ timers <= Cardinality(Told)

CardInv == CardTypeOK /\ EngineInv /\ PageInv /\ SettledIsListed

-----------------------------------------------------------------------------
(* Lemmas                                                                  *)

LEMMA ClickRequest ==
  ASSUME NEW p \in Clicks
  PROVE  p \in Requests /\ p # None
BY PayCardAssumption, BooksAssumption

LEMMA ToldFinite ==
  /\ IsFiniteSet(Told) /\ Cardinality(Told) \in Nat
  /\ Cardinality(Told) <= Cardinality(Clicks) /\ Cardinality(Clicks) \in Nat
<1>1. Told \subseteq Clicks BY DEF Told
<1> QED BY <1>1, PayCardAssumption, FS_Subset, FS_CardinalityType

\* What the list says of an invoice whose payment stands.
LEMMA StandingIsPaid ==
  ASSUME NEW p \in Clicks, pays \in [Clicks -> Invoices \cup {None}], pays[p] # None,
         headers[p] # None, headers[p].status = "SUCCESS"
  PROVE  InvoiceStatus[pays[p]] = "PAID"
BY DEF InvoiceStatus, Paid

\* The list is that of the invoices.
LEMMA StatusType == InvoiceStatus \in [Invoices -> {"ISSUED", "PAID"}]
BY DEF InvoiceStatus

\* The engine works, and the page does not move.
LEMMA EngineMoves ==
  ASSUME CardInv, EngineInv', CallsKept, UNCHANGED cardVars,
         \A p \in Clicks : called'[p] = called[p]
  PROVE  CardInv'
<1> USE DEF cardVars, listVars
<1>1. CardTypeOK' BY DEF CardInv, CardTypeOK, EngineInv
<1>2. Told' = Told BY DEF Told
<1>3. PageInv' BY <1>2, ClickRequest DEF CardInv, PageInv, CallsKept, Told
<1>4. SettledIsListed'
  <2> SUFFICES ASSUME NEW p \in Clicks, pays[p] # None, paying # p, answer'[p] = "ok",
                      headers'[p] # None, headers'[p].status = "SUCCESS"
               PROVE  listed[pays[p]] = "PAID" \/ listing # "shown"
    BY DEF SettledIsListed
  <2>1. stage[p] = "done" /\ p \in Requests BY ClickRequest DEF CardInv, PageInv, Told
  <2>2. answer[p] = "ok" /\ headers[p] # None /\ headers[p].status = "SUCCESS"
    BY <2>1 DEF CallsKept
  <2> QED BY <2>2 DEF CardInv, SettledIsListed
<1> QED BY <1>1, <1>3, <1>4 DEF CardInv

\* A step of the page that leaves the engine, the payments and the list alone.
LEMMA PageMoves ==
  ASSUME CardInv, UNCHANGED <<engineVars, paying, pays>>,
         listing' \in {"loading", "shown", "error"}, refreshing' \in BOOLEAN,
         listed' \in [Invoices -> {"ISSUED", "PAID"}],
         funds' \in Int \cup {None}, card' \in Invoices \cup {None},
         dest' \in {Issuer[i] : i \in Invoices} \cup {None},
         lookups' \in [Invoices -> 0..MaxLookups], timers' \in Nat, timers' <= timers,
         success' \in BOOLEAN, paying # None => ~success',
         listing' = "shown" => listed' = InvoiceStatus \/ (listing = "shown" /\ listed' = listed)
  PROVE  CardInv'
<1> USE DEF engineVars
<1>1. EngineInv' BY EngineUnchanged DEF CardInv
<1>2. Told' = Told BY DEF Told
<1>3. PageInv'
  <2>1. timers \in Nat BY DEF CardInv, CardTypeOK
  <2>2. timers' <= Cardinality(Told) BY <2>1, ToldFinite DEF CardInv, PageInv
  <2> QED BY <1>2, <2>2 DEF CardInv, PageInv, Told
<1>4. CardTypeOK'
  <2>1. timers' \in 0..Cardinality(Clicks)
    <3>1. timers' <= Cardinality(Told) BY <1>2, <1>3 DEF PageInv
    <3> QED BY <3>1, ToldFinite
  <2>2. dest' \in Accounts \cup {None} BY PayCardAssumption
  <2> QED BY <1>1, <2>1, <2>2 DEF CardInv, CardTypeOK, EngineInv
<1>5. SettledIsListed'
  <2> SUFFICES ASSUME NEW p \in Clicks, pays[p] # None, paying # p, answer[p] = "ok",
                      headers[p] # None, headers[p].status = "SUCCESS", listing' = "shown"
               PROVE  listed'[pays[p]] = "PAID"
    BY DEF SettledIsListed
  <2>1. CASE listed' = InvoiceStatus BY <2>1, StandingIsPaid DEF CardInv, CardTypeOK
  <2>2. CASE listing = "shown" /\ listed' = listed BY <2>2 DEF CardInv, SettledIsListed
  <2> QED BY <2>1, <2>2
<1> QED BY <1>1, <1>3, <1>4, <1>5 DEF CardInv

-----------------------------------------------------------------------------
(* The steps                                                               *)

\* A payment: the click is new, and its payment is the one on the way.
LEMMA ConfirmStep ==
  ASSUME CardInv, NEW p \in Clicks, Confirm(p)
  PROVE  CardInv'
<1>1. /\ card \in Invoices /\ dest # None /\ paying = None /\ pays[p] = None /\ success' = FALSE
      /\ UNCHANGED <<listing, listed, refreshing, funds, card, dest, lookups, timers>>
  BY DEF Confirm, CardInv, CardTypeOK, listVars
<1>2. CASE funds < AmountOf[card]
  <2>1. UNCHANGED <<engineVars, paying, pays>> BY <1>2 DEF Confirm
  <2>2. /\ timers \in Nat /\ timers <= timers /\ refreshing \in BOOLEAN
        /\ dest \in {Issuer[i] : i \in Invoices} \cup {None}
    BY DEF CardInv, CardTypeOK, PageInv
  <2>3. success' \in BOOLEAN /\ ~success' BY <1>1
  <2> QED BY <1>1, <2>1, <2>2, <2>3, PageMoves DEF CardInv, CardTypeOK
<1>3. CASE ~(funds < AmountOf[card])
  <2> DEFINE c == PaymentOf(p, card, dest)
  <2>1. Call(p, c) /\ paying' = p /\ pays' = [pays EXCEPT ![p] = card] BY <1>3 DEF Confirm
  <2>2. c \in Calls /\ p \in Requests /\ p # None
    BY <1>1, CardCallsAssumption, ClickRequest DEF CardInv, PageInv
  <2>3. /\ EngineInv' /\ CallsKept /\ called'[p] = c /\ c # None
        /\ \A q \in Requests \ {p} : called'[q] = called[q] /\ stage'[q] = stage[q] /\ answer'[q] = answer[q]
        /\ UNCHANGED headers
    BY <2>1, <2>2, CallMade DEF CardInv
  <2> HIDE DEF c
  <2>4. Told' = Told
    BY <1>1, <2>1, ClickRequest DEF Told, CardInv, CardTypeOK
  <2>5. PageInv'
    BY <1>1, <2>3, <2>4, ClickRequest DEF CardInv, PageInv, Told
  <2>6. CardTypeOK'
    <3>1. pays' \in [Clicks -> Invoices \cup {None}] /\ pays'[p] # None
      BY <1>1, <2>1, PayCardAssumption DEF CardInv, CardTypeOK
    <3>2. \A q \in Clicks : called'[q] # None <=> pays'[q] # None
      BY <2>1, <2>3, <3>1, ClickRequest DEF CardInv, CardTypeOK
    <3> QED BY <1>1, <2>1, <2>3, <3>1, <3>2 DEF CardInv, CardTypeOK, EngineInv
  <2>7. SettledIsListed'
    <3> SUFFICES ASSUME NEW q \in Clicks, pays'[q] # None, paying' # q, answer'[q] = "ok",
                        headers'[q] # None, headers'[q].status = "SUCCESS"
                 PROVE  listed'[pays'[q]] = "PAID" \/ listing' # "shown"
      BY DEF SettledIsListed
    <3>1. q # p /\ pays'[q] = pays[q] /\ answer[q] = "ok" /\ paying # q
      BY <1>1, <2>1, <2>3, ClickRequest DEF CardInv, CardTypeOK
    <3> QED BY <1>1, <2>3, <3>1 DEF CardInv, SettledIsListed
  <2> QED BY <2>3, <2>5, <2>6, <2>7 DEF CardInv
<1> QED BY <1>2, <1>3

\* An answer: a payment that has succeeded hides the list until it is fetched.
LEMMA ConfirmedStep ==
  ASSUME CardInv, NEW p \in Clicks, Confirmed(p)
  PROVE  CardInv'
<1>1. /\ paying = p /\ stage[p] = "done" /\ paying' = None /\ pays[p] # None /\ p # None
      /\ UNCHANGED <<engineVars, listed, funds, card, dest, lookups, pays>>
  BY ClickRequest DEF Confirmed, CardInv, CardTypeOK
<1>2. \/ answer[p] = "ok" /\ success' = TRUE /\ timers' = timers + 1 /\ listing' = "loading" /\ refreshing' = TRUE
      \/ answer[p] # "ok" /\ UNCHANGED <<success, timers, listing, refreshing>>
  BY DEF Confirmed
<1>3. EngineInv' BY <1>1, EngineUnchanged DEF CardInv
<1>4. Told' = Told \cup {p} /\ p \notin Told
  BY <1>1, ClickRequest DEF Told
<1>5. Cardinality(Told') = Cardinality(Told) + 1 BY <1>4, ToldFinite, FS_AddElement
<1>6. timers' \in Nat /\ timers' <= Cardinality(Told')
  BY <1>2, <1>5, ToldFinite DEF CardInv, CardTypeOK, PageInv
<1>7. PageInv' BY <1>1, <1>4, <1>6 DEF CardInv, PageInv, engineVars
<1>8. CardTypeOK'
  <2>1. Cardinality(Told') <= Cardinality(Clicks) /\ Cardinality(Told') \in Nat
    <3>1. Told' \subseteq Clicks BY DEF Told
    <3> QED BY <3>1, PayCardAssumption, FS_Subset, FS_CardinalityType
  <2>2. timers' \in 0..Cardinality(Clicks) BY <1>6, <2>1, ToldFinite
  <2>3. listing' \in {"loading", "shown", "error"} /\ refreshing' \in BOOLEAN /\ success' \in BOOLEAN
    BY <1>2 DEF CardInv, CardTypeOK
  <2> QED BY <1>1, <1>3, <2>2, <2>3 DEF CardInv, CardTypeOK, EngineInv, engineVars
<1>9. SettledIsListed'
  <2> SUFFICES ASSUME NEW q \in Clicks, pays'[q] # None, answer'[q] = "ok",
                      headers'[q] # None, headers'[q].status = "SUCCESS"
               PROVE  listed'[pays'[q]] = "PAID" \/ listing' # "shown"
    BY DEF SettledIsListed
  <2>1. CASE listing' = "loading" BY <2>1
  <2>2. CASE answer[p] # "ok" /\ UNCHANGED listing
    BY <1>1, <2>2 DEF CardInv, SettledIsListed, engineVars
  <2> QED BY <1>2, <2>1, <2>2
<1> QED BY <1>3, <1>7, <1>8, <1>9 DEF CardInv

LEMMA CardStep_Inv ==
  ASSUME CardInv, CardStep
  PROVE  CardInv'
<1> DEFINE Dests == {Issuer[i] : i \in Invoices} \cup {None}
<1>0. /\ listing \in {"loading", "shown", "error"} /\ refreshing \in BOOLEAN
      /\ listed \in [Invoices -> {"ISSUED", "PAID"}]
      /\ funds \in Int \cup {None} /\ card \in Invoices \cup {None} /\ dest \in Dests
      /\ lookups \in [Invoices -> 0..MaxLookups] /\ timers \in Nat /\ timers <= timers
      /\ success \in BOOLEAN /\ (paying # None => ~success)
  BY DEF CardInv, CardTypeOK, PageInv
<1>1. CASE ListArrives
  BY <1>0, <1>1, PageMoves, StatusType DEF ListArrives
<1>2. CASE Retry BY <1>0, <1>2, PageMoves DEF Retry
<1>3. ASSUME NEW i \in Invoices, LookUpIssuer(i) PROVE lookups' \in [Invoices -> 0..MaxLookups]
  BY <1>0, <1>3, PayCardAssumption DEF LookUpIssuer
<1>4. CASE WalletsArrive
  <2>1. funds' \in Int BY <1>4, BalanceInt DEF WalletsArrive, CardInv
  <2>2. lookups' \in [Invoices -> 0..MaxLookups] BY <1>0, <1>3, <1>4 DEF WalletsArrive
  <2>3. dest' \in Dests /\ success' \in BOOLEAN /\ (paying # None => ~success') BY <1>0, <1>4 DEF WalletsArrive, Cleared
  <2> QED BY <1>0, <1>4, <2>1, <2>2, <2>3, PageMoves DEF WalletsArrive, listVars
<1>5. CASE WalletsFail BY <1>0, <1>5, PageMoves DEF WalletsFail, listVars
<1>6. CASE CloseCard BY <1>0, <1>6, PageMoves DEF CloseCard, Cleared, listVars
<1>7. CASE TimerFires
  <2>1. timers' \in Nat /\ timers' <= timers BY <1>0, <1>7 DEF TimerFires
  <2>2. dest' \in Dests /\ success' \in BOOLEAN /\ (paying # None => ~success') BY <1>0, <1>7 DEF TimerFires, Cleared
  <2> QED BY <1>0, <1>7, <2>1, <2>2, PageMoves DEF TimerFires, listVars
<1>8. ASSUME NEW i \in Invoices, OpenCard(i) PROVE CardInv'
  BY <1>0, <1>3, <1>8, PageMoves DEF OpenCard, listVars
<1>9. ASSUME NEW i \in Invoices, IssuerArrives(i) PROVE CardInv'
  <2>1. lookups' \in [Invoices -> 0..MaxLookups] BY <1>0, <1>9, PayCardAssumption DEF IssuerArrives
  <2>2. dest' \in Dests BY <1>0, <1>9 DEF IssuerArrives
  <2> QED BY <1>0, <1>9, <2>1, <2>2, PageMoves DEF IssuerArrives, listVars
<1> QED BY <1>1, <1>2, <1>4, <1>5, <1>6, <1>7, <1>8, <1>9, ConfirmStep, ConfirmedStep DEF CardStep

LEMMA CardInit_Inv == CardInit => CardInv
<1> SUFFICES ASSUME CardInit PROVE CardInv OBVIOUS
<1>1. EngineInv BY ServiceInit_Inv DEF CardInit
<1>2. Told = {} BY DEF CardInit, Told
<1>3. PageInv BY <1>2, FS_EmptySet DEF CardInit, PageInv
<1>4. CardTypeOK
  <2>1. 0 \in 0..MaxLookups /\ 0 \in 0..Cardinality(Clicks) BY PayCardAssumption, ToldFinite
  <2>2. \A p \in Clicks : called[p] = None BY ClickRequest DEF CardInit, ServiceInit
  <2> QED BY <1>1, <2>1, <2>2 DEF CardInit, CardTypeOK, EngineInv
<1>5. SettledIsListed BY DEF CardInit, SettledIsListed
<1> QED BY <1>1, <1>3, <1>4, <1>5 DEF CardInv

LEMMA CardNext_Inv ==
  ASSUME CardInv, [CardStep \/ Elsewhere]_<<engineVars, cardVars>>
  PROVE  CardInv'
<1>1. CASE CardStep BY <1>1, CardStep_Inv
<1>2. CASE Elsewhere
  <2>1. ASSUME NEW r \in Requests, Serve(r), UNCHANGED cardVars PROVE CardInv'
    <3>1. EngineInv' /\ CallsKept /\ UNCHANGED called BY <2>1, ServeStep DEF CardInv, Kept
    <3> QED BY <2>1, <3>1, EngineMoves
  <2>2. ASSUME NEW r \in Requests \ Clicks, NEW c \in Calls, Call(r, c), UNCHANGED cardVars PROVE CardInv'
    <3>1. EngineInv' /\ CallsKept /\ \A p \in Clicks : called'[p] = called[p]
      BY <2>2, CallMade, ClickRequest DEF CardInv
    <3> QED BY <2>2, <3>1, EngineMoves
  <2> QED BY <1>2, <2>1, <2>2 DEF Elsewhere
<1>3. CASE UNCHANGED <<engineVars, cardVars>>
  <2>1. EngineInv' /\ CallsKept BY <1>3, EngineUnchanged DEF CardInv
  <2> QED BY <1>3, <2>1, EngineMoves DEF engineVars
<1> QED BY <1>1, <1>2, <1>3

\* The inductive invariant of the page.
THEOREM CardInvariance == CardSpec => []CardInv
<1>1. CardInv /\ [CardStep \/ Elsewhere]_<<engineVars, cardVars>> => CardInv' BY CardNext_Inv
<1> QED BY <1>1, CardInit_Inv, PTL DEF CardSpec

\* A payment on the way has an invoice and no success yet, the calls of the page
\* are its payments, and a timer is that of a payment.
THEOREM CardTyped == CardSpec => []CardTypeOK
<1>1. CardInv => CardTypeOK BY DEF CardInv
<1> QED BY <1>1, CardInvariance, PTL

\* However look-ups, fetches, timers and payments overlap, an invoice whose
\* payment the page has been told of is not offered for payment again while the
\* transfer stands.
THEOREM NotOfferedTwice == CardSpec => []SettledIsListed
<1>1. CardInv => SettledIsListed BY DEF CardInv
<1> QED BY <1>1, CardInvariance, PTL

\* The page is one of the service's callers: whatever is clicked, no call is made
\* that the engine's interface does not have, and none twice.
THEOREM CardUsesService == CardSpec => ServiceSpec
<1>1. CardInit => ServiceInit BY DEF CardInit
<1>2. ASSUME CardInv, NEW p \in Clicks, Confirm(p) PROVE [ServiceNext]_serviceVars
  <2>1. CASE Call(p, PaymentOf(p, card, dest))
    <3>1. PaymentOf(p, card, dest) \in Calls /\ p \in Requests
      BY <1>2, CardCallsAssumption, ClickRequest DEF Confirm, CardInv, CardTypeOK, PageInv
    <3> QED BY <2>1, <3>1 DEF ServiceNext
  <2>2. CASE UNCHANGED engineVars BY <2>2 DEF engineVars, serviceVars
  <2> QED BY <1>2, <2>1, <2>2 DEF Confirm
<1>3. CardInv /\ [CardStep \/ Elsewhere]_<<engineVars, cardVars>> => [ServiceNext]_serviceVars
  <2> SUFFICES ASSUME CardInv, [CardStep \/ Elsewhere]_<<engineVars, cardVars>>
               PROVE  [ServiceNext]_serviceVars
    OBVIOUS
  <2>1. (\E p \in Clicks : Confirm(p)) \/ Elsewhere \/ UNCHANGED engineVars
    BY DEF CardStep, ListArrives, Retry, WalletsArrive, WalletsFail, CloseCard, TimerFires,
       OpenCard, IssuerArrives, Confirmed
  <2>2. CASE Elsewhere BY <2>2 DEF Elsewhere, ServiceNext
  <2> QED BY <1>2, <2>1, <2>2 DEF engineVars, serviceVars
<1> QED BY <1>1, <1>3, CardInvariance, PTL DEF CardSpec, ServiceSpec
=============================================================================
