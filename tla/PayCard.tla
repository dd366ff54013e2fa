------------------------------- MODULE PayCard -------------------------------
(***************************************************************************)
(* The invoices page of a trader: the list of received invoices, and the   *)
(* card that pays one of them by a transfer that carries its number.  The  *)
(* card looks the issuer's account up when it is opened; a look-up is not  *)
(* cancelled when the card changes.  A payment has a fresh key and is      *)
(* named by the click that made it.                                        *)
(***************************************************************************)
EXTENDS EngineClient

CONSTANTS
  Clicks,      \* on Confirm Payment
  Invoices,
  Issuer,      \* invoice |-> the issuer's business account
  AmountOf,    \* invoice |-> its total
  Payer,       \* the trader's business account
  MaxLookups   \* bound: look-ups of one invoice on the way

ASSUME PayCardAssumption ==
  /\ Clicks \subseteq Requests /\ IsFiniteSet(Clicks)
  /\ None \notin Invoices
  /\ Issuer \in [Invoices -> Accounts] /\ AmountOf \in [Invoices -> Nat]
  /\ MaxLookups \in Nat

VARIABLES
  listing,   \* the list of invoices: "loading", "shown" or "error"
  listed,    \* invoice |-> the status in the list, "ISSUED" or "PAID"
  refreshing,\* the wallets are being fetched
  funds,     \* the balance of the wallet the page shows, or None
  card,      \* payingInvoice, or None
  dest,      \* destWalletId, or None
  lookups,   \* invoice |-> the number of look-ups of its issuer on the way
  paying,    \* the click whose payment is on the way, or None
  success,   \* "Payment successful! Invoice is settled."
  timers,    \* the number of timers that will close the card
  pays       \* click |-> the invoice whose number its transfer carries, or None

listVars == <<listing, listed>>
cardVars == <<listVars, refreshing, funds, card, dest, lookups, paying, success, timers, pays>>

\* The status is derived: EXISTS a SUCCESS transfer with the invoice's number.
Paid(i) ==
  \E p \in Clicks : pays[p] = i /\ headers[p] # None /\ headers[p].status = "SUCCESS"

InvoiceStatus == [i \in Invoices |-> IF Paid(i) THEN "PAID" ELSE "ISSUED"]

PaymentOf(p, i, to) ==
  [op |-> "transfer", key |-> p, src |-> Payer, dst |-> to,
   from |-> AccountCurrency[Payer], to |-> AccountCurrency[Payer], amt |-> AmountOf[i], rate |-> 0]

\* Payments of the card are calls of the engine, also those that pay the account
\* of one issuer for the invoice of another (PaidMeansSettled).
ASSUME CardCallsAssumption ==
  \A p \in Clicks, i, j \in Invoices : PaymentOf(p, i, Issuer[j]) \in Calls

-----------------------------------------------------------------------------
(* The list and the wallet                                                 *)

\* The list is hidden while it is fetched and when that has failed.
ListArrives ==
  /\ listing = "loading"
  /\ \/ listing' = "shown" /\ listed' = InvoiceStatus
     \/ listing' = "error" /\ UNCHANGED listed
  /\ UNCHANGED <<engineVars, refreshing, funds, card, dest, lookups, paying, success, timers, pays>>

Retry ==
  /\ listing = "error" /\ listing' = "loading"
  /\ UNCHANGED <<engineVars, listed, refreshing, funds, card, dest, lookups, paying, success, timers, pays>>

LookUpIssuer(i) ==
  /\ lookups[i] < MaxLookups
  /\ lookups' = [lookups EXCEPT ![i] = @ + 1]

Cleared == dest' = None /\ success' = FALSE

\* New wallets run the effect of the card again.
WalletsArrive ==
  /\ refreshing /\ refreshing' = FALSE
  /\ funds' = Balance(entries, Payer)
  /\ IF card = None THEN Cleared /\ UNCHANGED lookups
                    ELSE LookUpIssuer(card) /\ UNCHANGED <<dest, success>>
  /\ UNCHANGED <<engineVars, listVars, card, paying, timers, pays>>

WalletsFail ==
  /\ refreshing /\ refreshing' = FALSE
  /\ UNCHANGED <<engineVars, listVars, funds, card, dest, lookups, paying, success, timers, pays>>

-----------------------------------------------------------------------------
(* The card                                                                *)

\* Another invoice may be chosen while the card is open, even while it pays; so
\* may the same one, which is a new object after the list has been fetched.
OpenCard(i) ==
  /\ listing = "shown" /\ listed[i] = "ISSUED"
  /\ card' = i /\ LookUpIssuer(i)
  /\ UNCHANGED <<engineVars, listVars, refreshing, funds, dest, paying, success, timers, pays>>

CloseCard ==
  /\ card # None /\ card' = None /\ Cleared
  /\ UNCHANGED <<engineVars, listVars, refreshing, funds, lookups, paying, timers, pays>>

\* A second and a half after a payment, whatever the card shows by then.
TimerFires ==
  /\ timers > 0 /\ timers' = timers - 1
  /\ card' = None
  /\ IF card = None THEN UNCHANGED <<dest, success>> ELSE Cleared
  /\ UNCHANGED <<engineVars, listVars, refreshing, funds, lookups, paying, pays>>

\* The account of an issuer arrives, whether or not the card still shows the
\* invoice; or the look-up fails.
IssuerArrives(i) ==
  /\ lookups[i] > 0 /\ lookups' = [lookups EXCEPT ![i] = @ - 1]
  /\ dest' \in {Issuer[i], dest}
  /\ UNCHANGED <<engineVars, listVars, refreshing, funds, card, paying, success, timers, pays>>

\* Mutant: the success of an earlier payment stays on the card.
ConfirmKeepingSuccess(p) ==
  /\ card # None /\ dest # None /\ funds # None /\ paying = None /\ pays[p] = None
  /\ IF funds < AmountOf[card]
     THEN UNCHANGED <<engineVars, paying, pays>>
     ELSE /\ Call(p, PaymentOf(p, card, dest))
          /\ paying' = p /\ pays' = [pays EXCEPT ![p] = card]
  /\ UNCHANGED <<listVars, refreshing, funds, card, dest, lookups, timers, success>>

\* executePayment up to the request: the shown balance is compared first.
Confirm(p) ==
  /\ card # None /\ dest # None /\ funds # None /\ paying = None /\ pays[p] = None
  /\ success' = FALSE
  /\ IF funds < AmountOf[card]
     THEN UNCHANGED <<engineVars, paying, pays>>
     ELSE /\ Call(p, PaymentOf(p, card, dest))
          /\ paying' = p /\ pays' = [pays EXCEPT ![p] = card]
  /\ UNCHANGED <<listVars, refreshing, funds, card, dest, lookups, timers>>

\* Mutants: an error leaves the button disabled; the list is not refreshed.
ConfirmedIfPaid(p) ==
  /\ paying = p /\ stage[p] = "done" /\ answer[p] = "ok"
  /\ paying' = None /\ success' = TRUE /\ timers' = timers + 1
  /\ listing' = "loading" /\ refreshing' = TRUE
  /\ UNCHANGED <<engineVars, listed, funds, card, dest, lookups, pays>>
ConfirmedQuietly(p) ==
  /\ paying = p /\ stage[p] = "done"
  /\ paying' = None /\ success' = (answer[p] = "ok")
  /\ UNCHANGED <<engineVars, listVars, refreshing, funds, card, dest, lookups, timers, pays>>

\* The rest of executePayment, when the answer arrives.
Confirmed(p) ==
  /\ paying = p /\ stage[p] = "done" /\ paying' = None
  /\ IF answer[p] = "ok"
     THEN success' = TRUE /\ timers' = timers + 1 /\ listing' = "loading" /\ refreshing' = TRUE
     ELSE UNCHANGED <<success, timers, listing, refreshing>>
  /\ UNCHANGED <<engineVars, listed, funds, card, dest, lookups, pays>>

-----------------------------------------------------------------------------
CardInit ==
  /\ ServiceInit
  /\ listing = "loading" /\ listed = [i \in Invoices |-> "ISSUED"]
  /\ refreshing = TRUE /\ funds = None
  /\ card = None /\ dest = None
  /\ lookups = [i \in Invoices |-> 0]
  /\ paying = None /\ success = FALSE /\ timers = 0
  /\ pays = [p \in Clicks |-> None]

CardStep ==
  \/ ListArrives \/ Retry \/ WalletsArrive \/ WalletsFail \/ CloseCard \/ TimerFires
  \/ \E i \in Invoices : OpenCard(i) \/ IssuerArrives(i)
  \/ \E p \in Clicks : Confirm(p) \/ Confirmed(p)

\* The engine works, and others call it: a click's key is fresh.
Elsewhere ==
  /\ \/ \E r \in Requests : Serve(r)
     \/ \E r \in Requests \ Clicks, c \in Calls :
          (c.op # "reverse" => c.key \notin Clicks) /\ Call(r, c)
  /\ UNCHANGED cardVars

CardSpec ==
  /\ CardInit
  /\ [][CardStep \/ Elsewhere]_<<engineVars, cardVars>>

\* The engine answers (Ledger!EveryCallReturns), and the browser's event loop
\* handles the answer of a payment.
CardFairness ==
  \A p \in Clicks : /\ WF_<<engineVars, cardVars>>(Serve(p) /\ UNCHANGED cardVars)
                    /\ WF_<<engineVars, cardVars>>(Confirmed(p))

CardFairSpec == CardSpec /\ CardFairness

-----------------------------------------------------------------------------
(* Properties                                                              *)

\* Types; a payment on the way has an invoice, and the card does not say
\* "Payment successful!" before its answer.
CardTypeOK ==
  /\ ServiceTypeOK
  /\ listing \in {"loading", "shown", "error"} /\ refreshing \in BOOLEAN
  /\ listed \in [Invoices -> {"ISSUED", "PAID"}]
  /\ funds \in Int \cup {None} /\ card \in Invoices \cup {None} /\ dest \in Accounts \cup {None}
  /\ lookups \in [Invoices -> 0..MaxLookups] /\ timers \in 0..Cardinality(Clicks)
  /\ paying \in Clicks \cup {None} /\ success \in BOOLEAN
  /\ pays \in [Clicks -> Invoices \cup {None}]
  /\ paying # None => pays[paying] # None /\ ~success
  /\ \A p \in Clicks : called[p] # None <=> pays[p] # None

\* Once the page has been told that a payment succeeded, it never shows its
\* invoice as unpaid with a button to pay it again, while the transfer stands.
SettledIsListed ==
  \A p \in Clicks :
    /\ pays[p] # None /\ paying # p /\ answer[p] = "ok"
    /\ headers[p] # None /\ headers[p].status = "SUCCESS"
    => listed[pays[p]] = "PAID" \/ listing # "shown"

\* A payment on the way is always answered one way or the other, after which
\* the button works again (executePayment's finally).
ButtonReturns == []<>(paying = None)

\* "The invoice always reflects actual settlement" (invoices.go): an invoice
\* that is PAID has been paid to its issuer.  A card that is switched to
\* another invoice keeps the account of the first issuer for a while.
PaidMeansSettled ==
  \A i \in Invoices : Paid(i) =>
    \E p \in Clicks : pays[p] = i /\ headers[p] # None /\ called[p].dst = Issuer[i]
=============================================================================
