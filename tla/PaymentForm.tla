----------------------------- MODULE PaymentForm -----------------------------
(***************************************************************************)
(* The payments page: a form that pays from the trader's business wallet,  *)
(* within the country or to the demo supplier in Kenya.  The wallets and   *)
(* the rate are fetched once, when the page is opened.  Each submission is *)
(* a request with a fresh key, named by the click that made it; its answer *)
(* finds the form as the user has left it by then.                         *)
(***************************************************************************)
EXTENDS EngineClient

CONSTANTS
  Clicks,      \* on the submit button
  Opening,     \* the request that funds the wallet, from elsewhere
  Deposit,     \* its amount
  Payer,       \* the trader's BUSINESS account, the only one a trader has
  Supplier,    \* the KES BUSINESS account of COUNTERPARTIES[0]
  Amounts,     \* that the user types
  CorridorRate,\* the engine's rate, which it also uses when it is sent none
  CentUnits    \* units of money in a cent: the page shows cents

ASSUME PaymentFormAssumption ==
  /\ Clicks \subseteq Requests /\ Opening \in Requests \ Clicks
  /\ Amounts \subseteq Nat \ {0}
  /\ CorridorRate \in Nat \ {0} /\ CentUnits \in Nat \ {0}

VARIABLES
  wallets,   \* useBalances: "loading", "shown", "error"; "left" after the page is
  funds,     \* the balance of the business wallet when it was fetched, or None
  fx,        \* the rate of GET /fx, or None
  mode,      \* "local" or "cross"
  source, dest,    \* the selected wallets, or None
  supplier,  \* counterpartyWallet, or None
  resolving, \* the look-up of the supplier: "no", "loading" or "failed"
  raw,       \* the amount in the field, or None
  busy,      \* the click whose submission is on the way, or None
  result,    \* what the form says of the last submission, or None
  sent,      \* click |-> what the form had read when it was submitted, or None
  retries,   \* history: the clicks that sent the amount since it was typed
  switched   \* history: the mode was chosen while the last submission was on its way

fetchVars == <<wallets, funds, fx>>
choiceVars == <<mode, source, dest, supplier, resolving>>
historyVars == <<retries, switched>>
formVars == <<fetchVars, choiceVars, raw, busy, result, sent, historyVars>>

-----------------------------------------------------------------------------
(* What the page fetches                                                   *)

RateArrives ==
  /\ wallets # "left" /\ fx = None /\ fx' = CorridorRate
  /\ UNCHANGED <<engineVars, wallets, funds, choiceVars, raw, busy, result, sent, historyVars>>

FundsArrive ==
  /\ wallets = "loading" /\ wallets' = "shown"
  /\ funds' = Balance(entries, Payer)
  /\ UNCHANGED <<engineVars, fx, choiceVars, raw, busy, result, sent, historyVars>>

FundsFail ==
  /\ wallets = "loading" /\ wallets' = "error"
  /\ UNCHANGED <<engineVars, funds, fx, choiceVars, raw, busy, result, sent, historyVars>>

\* Only the error banner fetches the wallets again: a payment does not.
RetryFunds ==
  /\ wallets = "error" /\ wallets' = "loading"
  /\ UNCHANGED <<engineVars, funds, fx, choiceVars, raw, busy, result, sent, historyVars>>

-----------------------------------------------------------------------------
(* The fields of the form, which is there when the wallets are             *)

FormShown == wallets = "shown"

CanCross == AccountCurrency[Payer] = "RWF"

\* A change of mode runs the effect that looks the supplier up, if it is still
\* needed; another change cancels it.  The message of a payment disappears.
SwitchMode(m) ==
  /\ FormShown /\ mode' = m /\ result' = None
  /\ switched' = (busy # None)
  /\ resolving' = IF m # mode /\ m = "cross" /\ CanCross /\ supplier = None
                  THEN "loading" ELSE resolving
  /\ UNCHANGED <<engineVars, fetchVars, source, dest, supplier, raw, busy, sent, retries>>

\* The answer to a look-up that has not been cancelled.
SupplierArrives ==
  /\ FormShown /\ mode = "cross" /\ resolving = "loading"
  /\ \/ supplier' = Supplier /\ resolving' = "no"
     \/ supplier' = supplier /\ resolving' = "failed"
  /\ UNCHANGED <<engineVars, fetchVars, mode, source, dest, raw, busy, result, sent, historyVars>>

ChooseSource ==
  /\ FormShown /\ source' = Payer
  /\ UNCHANGED <<engineVars, fetchVars, mode, dest, supplier, resolving, raw, busy, result, sent, historyVars>>

\* The list of destinations leaves out the source that is selected by then.
ChooseDest ==
  /\ FormShown /\ mode = "local" /\ source # Payer
  /\ dest' = Payer
  /\ UNCHANGED <<engineVars, fetchVars, mode, source, supplier, resolving, raw, busy, result, sent, historyVars>>

TypeAmount(a) ==
  /\ FormShown /\ raw' = a /\ retries' = {}
  /\ UNCHANGED <<engineVars, fetchVars, choiceVars, busy, result, sent, switched>>

-----------------------------------------------------------------------------
(* A submission                                                            *)

\* Mutants: the button works while a payment is on its way; the shown balance
\* is not compared.
EnabledWhileBusy ==
  /\ raw # None /\ source # None
  /\ IF mode = "local" THEN dest # None ELSE supplier # None /\ CanCross

SubmitEnabled ==
  /\ busy = None /\ raw # None /\ source # None
  /\ IF mode = "local" THEN dest # None ELSE supplier # None /\ CanCross

AnyAmount == TRUE

\* validate: what the disabled button has not excluded already.
WithinFunds == raw <= funds

\* Mutant: every submission uses one key.
SubmissionOfOneKey(p) ==
  [op |-> IF mode = "local" THEN "transfer" ELSE "cross", key |-> CHOOSE k \in Clicks : TRUE,
   src |-> source, dst |-> IF mode = "local" THEN dest ELSE supplier,
   from |-> AccountCurrency[Payer], to |-> IF mode = "local" THEN AccountCurrency[Payer] ELSE "KES",
   amt |-> raw, rate |-> IF mode = "local" THEN 0 ELSE CorridorRate]

\* The request, under a fresh key; the engine puts its own rate for a missing one.
Submission(p) ==
  [op |-> IF mode = "local" THEN "transfer" ELSE "cross", key |-> p,
   src |-> source, dst |-> IF mode = "local" THEN dest ELSE supplier,
   from |-> AccountCurrency[Payer], to |-> IF mode = "local" THEN AccountCurrency[Payer] ELSE "KES",
   amt |-> raw, rate |-> IF mode = "local" THEN 0 ELSE CorridorRate]

\* Mutant: the amount is multiplied by the rate.
PreviewMultiplied ==
  IF mode = "cross" /\ fx # None THEN RoundedQuotient(raw * fx, RateUnit * RateGrain * CentUnits) ELSE 0

\* kesPreview, in cents: "Supplier receives KES 0.00" as long as the rate is not
\* there.  The button does not wait for it.
Preview ==
  IF mode = "cross" /\ fx # None THEN RoundedQuotient(raw * RateUnit * RateGrain, fx * CentUnits) ELSE 0

\* What is kept of a submission is not None.
SentTerms ==
  [mode : {"local", "cross"}, amt : Amounts, funds : Int, rated : BOOLEAN, preview : Int]

Submit(p) ==
  /\ FormShown /\ SubmitEnabled /\ WithinFunds /\ sent[p] = None
  /\ Call(p, Submission(p))
  /\ busy' = p /\ result' = None
  /\ sent' = [sent EXCEPT ![p] = [mode |-> mode, amt |-> raw, funds |-> funds,
                                  rated |-> fx # None, preview |-> Preview]]
  /\ retries' = retries \cup {p} /\ switched' = FALSE
  /\ UNCHANGED <<fetchVars, choiceVars, raw>>

\* The answer: a success empties the amount, whatever has been typed meanwhile.
\* The result names its transfer and not the kind of it.
Answered(p) ==
  /\ busy = p /\ stage[p] = "done" /\ busy' = None
  /\ result' = [ok |-> answer[p] = "ok", of |-> p]
  /\ IF answer[p] = "ok" THEN raw' = None /\ retries' = {} ELSE UNCHANGED <<raw, retries>>
  /\ UNCHANGED <<engineVars, fetchVars, choiceVars, sent, switched>>

\* "Cross-border payment submitted" or "Transfer submitted": the message is worded
\* for the mode that is chosen when it is shown.
KindSaid == mode

\* The user leaves the page: its state is gone, and nobody waits for the answer.
\* Opened again, it is a new form.
LeaveForm ==
  /\ wallets # "left" /\ wallets' = "left" /\ funds' = None /\ fx' = None
  /\ mode' = "local" /\ source' = None /\ dest' = None /\ supplier' = None /\ resolving' = "no"
  /\ raw' = None /\ busy' = None /\ result' = None /\ retries' = {} /\ switched' = FALSE
  /\ UNCHANGED <<engineVars, sent>>

-----------------------------------------------------------------------------
\* The opening deposit, which is made by another client at any time.
Opened ==
  [op |-> "fund", key |-> Opening, src |-> Payer, dst |-> Payer,
   from |-> AccountCurrency[Payer], to |-> AccountCurrency[Payer], amt |-> Deposit, rate |-> 0]

FundElsewhere == Call(Opening, Opened) /\ UNCHANGED formVars

\* The calls that the form can make are calls of the engine, and so is the
\* deposit.
Submissions ==
  [op : {"transfer"}, key : Clicks, src : {Payer}, dst : {Payer}, from : {AccountCurrency[Payer]},
   to : {AccountCurrency[Payer]}, amt : Amounts, rate : {0}]
  \cup [op : {c \in {"cross"} : CanCross}, key : Clicks, src : {Payer}, dst : {Supplier},
        from : {AccountCurrency[Payer]}, to : {"KES"}, amt : Amounts, rate : {CorridorRate}]

ASSUME FormCallsAssumption ==
  /\ Submissions \cup {Opened} \subseteq Calls
  /\ None \notin SentTerms

FormInit ==
  /\ ServiceInit
  /\ wallets = "loading" /\ funds = None /\ fx = None
  /\ mode = "local" /\ source = None /\ dest = None /\ supplier = None /\ resolving = "no"
  /\ raw = None /\ busy = None /\ result = None
  /\ sent = [p \in Clicks |-> None] /\ retries = {} /\ switched = FALSE

FormStep ==
  \/ RateArrives \/ FundsArrive \/ FundsFail \/ RetryFunds
  \/ SupplierArrives \/ ChooseSource \/ ChooseDest \/ LeaveForm
  \/ \E m \in {"local", "cross"} : SwitchMode(m)
  \/ \E a \in Amounts : TypeAmount(a)
  \/ \E p \in Clicks : Submit(p) \/ Answered(p)

EngineElsewhere == (\E r \in Requests : Serve(r)) /\ UNCHANGED formVars

FormNext == FormStep \/ FundElsewhere \/ EngineElsewhere

PaymentVars == <<engineVars, formVars>>

FormSpec == FormInit /\ [][FormNext]_PaymentVars

\* The engine answers, and the event loop handles the answer.
FormFairness ==
  \A p \in Clicks : WF_PaymentVars(Serve(p) /\ UNCHANGED formVars) /\ WF_PaymentVars(Answered(p))

-----------------------------------------------------------------------------
(* Properties                                                              *)

\* Types; a submission on its way was made by the form and has no message yet.
FormTypeOK ==
  /\ ServiceTypeOK
  /\ wallets \in {"loading", "shown", "error", "left"} /\ funds \in Int \cup {None}
  /\ fx \in {CorridorRate, None}
  /\ mode \in {"local", "cross"} /\ {source, dest} \subseteq {Payer, None}
  /\ supplier \in {Supplier, None} /\ resolving \in {"no", "loading", "failed"}
  /\ raw \in Amounts \cup {None} /\ busy \in Clicks \cup {None}
  /\ retries \subseteq Clicks /\ switched \in BOOLEAN
  /\ busy # None => sent[busy] # None /\ result = None
  /\ result # None => sent[result.of] # None /\ stage[result.of] = "done"

\* An amount that the user has typed once is paid once, however often the
\* button is pressed, unless the answer to one of the payments was lost
\* (handleSubmit and the button's disabled).
TypedOncePaidOnce ==
  \A p, q \in retries :
    p # q /\ headers[p] # None /\ headers[q] # None => "failed" \in {answer[p], answer[q]}

\* The transfer that the form reports is the one the user submitted, although
\* the fields have changed since, and it is said to be of its kind, unless the
\* mode was switched while it was on its way (TransferForm.tsx handleSubmit and
\* the mode buttons, client.ts).
ReportedIsSent ==
  result # None /\ result.ok =>
    LET p == result.of
        h == headers[found[p]]
    IN  /\ h # None /\ h.src = Payer /\ h.amt = sent[p].amt
        /\ h.dst = IF sent[p].mode = "local" THEN Payer ELSE Supplier
        /\ KindSaid = sent[p].mode \/ switched

\* What the supplier is credited is what the form announced, to half a cent, if
\* the rate had arrived; if not, the form announced nothing but KES 0.00.
PreviewIsPaid ==
  \A p \in Clicks :
    headers[p] # None /\ sent[p] # None /\ sent[p].mode = "cross" =>
      \A e \in entries :
        e.by = p /\ e.leg = "credit" =>
          LET gap == e.amt - CentUnits * sent[p].preview
          IN  IF sent[p].rated THEN 2 * gap <= CentUnits + 1 /\ 2 * gap >= -(CentUnits + 1)
                               ELSE sent[p].preview = 0

\* Both: what the form announces and what it reports.
FormTellsTruth == ReportedIsSent /\ PreviewIsPaid

\* The engine refuses a submission for lack of money only when the balance the
\* form had compared has gone down since.
RefusedOnlyIfStale ==
  [][\A p \in Clicks :
       answer'[p] = "insufficient" /\ answer[p] # "insufficient" =>
         Balance(entries, Payer) < sent[p].funds]_PaymentVars

\* A submission is always answered, and the button works again.
NoneSubmitting == busy = None
SubmitReturns == []<>NoneSubmitting

\* "idempotent submit" (PROJECT_DOCUMENTATION.md, Payments): however often an
\* amount that was typed once is submitted, it is paid once.  A payment whose
\* answer was lost is made again under a new key.
IdempotentSubmit ==
  \A p, q \in retries : headers[p] # None /\ headers[q] # None => p = q
=============================================================================
