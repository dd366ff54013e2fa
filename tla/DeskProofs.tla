------------------------------ MODULE DeskProofs ------------------------------
(***************************************************************************)
(* Pages of the dashboard, each for itself: the payments form in front of  *)
(* the engine, signing in, the ledger rows of a payment, the toasts, the   *)
(* register and its pages, the invoices, the figures and the totals in     *)
(* words; for any amounts, rates, clicks, phone numbers, attempts, records,*)
(* payments and totals.                                                    *)
(***************************************************************************)
EXTENDS MCDesk, CallerProofs, SequenceTheorems, WellFoundedInduction

-----------------------------------------------------------------------------
(* The payments form: the invariant                                        *)

\* The call of a submission, from what the form keeps of it.
CallSent(p, t) ==
  [op |-> IF t.mode = "local" THEN "transfer" ELSE "cross", key |-> p,
   src |-> Payer, dst |-> IF t.mode = "local" THEN Payer ELSE Supplier,
   from |-> AccountCurrency[Payer], to |-> IF t.mode = "local" THEN AccountCurrency[Payer] ELSE "KES",
   amt |-> t.amt, rate |-> IF t.mode = "local" THEN 0 ELSE CorridorRate]

\* The amount that the form announces, when it knows the rate.
Announced(a) == RoundedQuotient(a * RateUnit * RateGrain, CorridorRate * CentUnits)

\* What is on the way is what the form has kept, and was within the balance it
\* had read; nobody else calls.
SentAs(p) ==
  /\ called[p] = CallSent(p, sent[p])
  /\ sent[p].amt <= sent[p].funds
  /\ sent[p].mode = "cross" =>
       sent[p].preview = IF sent[p].rated THEN Announced(sent[p].amt) ELSE 0
SentInv ==
  /\ sent \in [Clicks -> SentTerms \cup {None}]
  /\ \A p \in Clicks : called[p] # None <=> sent[p] # None
  /\ \A p \in Clicks : sent[p] # None => SentAs(p)
  /\ \A r \in Requests \ Clicks : called[r] # None => r = Opening /\ called[r] = Opened

\* Of the submissions of an amount, those that the form no longer waits for have
\* been answered, and none with success; and the message is that of an answer.
WaitInv ==
  /\ wallets = "shown" => funds \in Int
  /\ \A p \in retries : sent[p] # None /\ (p # busy => stage[p] = "done" /\ answer[p] # "ok")
  /\ result # None => result.of \in Clicks /\ (result.ok => answer[result.of] = "ok")

\* The mode is the one of the submission that is on the way or reported, unless
\* it was chosen while the submission was on the way.
KindInv ==
  /\ busy # None => mode = sent[busy].mode \/ switched
  /\ result # None => mode = sent[result.of].mode \/ switched

FormInv == FormTypeOK /\ EngineInv /\ SentInv /\ WaitInv /\ KindInv

-----------------------------------------------------------------------------
(* The form: the steps                                                     *)

LEMMA FormClick ==
  ASSUME NEW p \in Clicks
  PROVE  p \in Requests /\ p # None /\ p # Opening
BY PaymentFormAssumption, BooksAssumption

\* The engine works, and the form does not move.
LEMMA FormWaits ==
  ASSUME FormInv, EngineInv', CallsKept, UNCHANGED <<called, formVars>>
  PROVE  FormInv'
<1> USE DEF formVars, fetchVars, choiceVars, historyVars
<1>1. SentInv' BY DEF FormInv, SentInv, SentAs
<1>2. WaitInv'
  <2>1. ASSUME NEW p \in retries, p # busy PROVE stage'[p] = "done" /\ answer'[p] # "ok"
    BY <2>1, FormClick DEF FormInv, FormTypeOK, WaitInv, CallsKept
  <2>2. ASSUME result # None, result.ok PROVE answer'[result.of] = "ok"
    BY <2>2, FormClick DEF FormInv, WaitInv, CallsKept
  <2> QED BY <2>1, <2>2 DEF FormInv, WaitInv
<1>3. FormTypeOK'
  <2>1. ASSUME result # None PROVE stage'[result.of] = "done"
    BY <2>1, FormClick DEF FormInv, FormTypeOK, WaitInv, CallsKept
  <2> QED BY <2>1 DEF FormInv, FormTypeOK, EngineInv
<1>4. KindInv' BY DEF FormInv, KindInv
<1> QED BY <1>1, <1>2, <1>3, <1>4 DEF FormInv

\* A step of the form that submits nothing and hears of no answer.
LEMMA FieldsMove ==
  ASSUME FormInv, UNCHANGED <<engineVars, sent>>,
         wallets' \in {"loading", "shown", "error", "left"}, funds' \in Int \cup {None},
         wallets' = "shown" => funds' \in Int,
         fx' \in {CorridorRate, None}, mode' \in {"local", "cross"},
         source' \in {Payer, None}, dest' \in {Payer, None}, supplier' \in {Supplier, None},
         resolving' \in {"no", "loading", "failed"}, raw' \in Amounts \cup {None},
         result' \in {result, None},
         \/ UNCHANGED <<busy, retries>>
         \/ busy' \in {busy, None} /\ retries' = {},
         \/ UNCHANGED <<mode, switched>>
         \/ result' = None /\ busy' = None /\ switched' = FALSE
         \/ result' = None /\ switched' = (busy # None)
  PROVE  FormInv'
<1> USE DEF engineVars
<1>1. EngineInv' BY EngineUnchanged DEF FormInv
<1>2. SentInv' BY DEF FormInv, SentInv, SentAs
<1>3. WaitInv' BY DEF FormInv, WaitInv
<1>4. switched' \in BOOLEAN BY DEF FormInv, FormTypeOK
<1>5. FormTypeOK' BY <1>1, <1>4 DEF FormInv, FormTypeOK, EngineInv
<1>6. KindInv' BY DEF FormInv, KindInv
<1> QED BY <1>1, <1>2, <1>3, <1>5, <1>6 DEF FormInv

\* What the form sends when it submits is a call of the engine's interface.
LEMMA SubmissionIsCall ==
  ASSUME FormInv, NEW p \in Clicks, Submit(p)
  PROVE  Submission(p) \in Calls
<1>1. /\ raw \in Amounts /\ source = Payer /\ mode \in {"local", "cross"}
      /\ mode = "local" => dest = Payer
      /\ mode = "cross" => supplier = Supplier /\ CanCross
  BY DEF Submit, SubmitEnabled, FormInv, FormTypeOK
<1>2. Submission(p) \in Submissions BY <1>1 DEF Submission, Submissions
<1> QED BY <1>2, FormCallsAssumption

LEMMA SubmitStep ==
  ASSUME FormInv, NEW p \in Clicks, Submit(p)
  PROVE  FormInv'
<1> DEFINE t == [mode |-> mode, amt |-> raw, funds |-> funds, rated |-> fx # None, preview |-> Preview]
           c == Submission(p)
<1>1. /\ raw \in Amounts /\ source = Payer /\ mode \in {"local", "cross"} /\ funds \in Int /\ raw <= funds
      /\ mode = "local" => dest = Payer
      /\ mode = "cross" => supplier = Supplier /\ CanCross
      /\ busy = None /\ sent[p] = None /\ fx \in {CorridorRate, None}
  BY DEF Submit, SubmitEnabled, WithinFunds, FormShown, FormInv, FormTypeOK, WaitInv
<1>2. /\ Call(p, c) /\ busy' = p /\ result' = None /\ sent' = [sent EXCEPT ![p] = t]
      /\ retries' = retries \cup {p} /\ switched' = FALSE /\ UNCHANGED <<fetchVars, choiceVars, raw>>
  BY DEF Submit
<1>3. /\ t \in SentTerms /\ t # None /\ t.amt <= t.funds /\ t.mode = mode
      /\ t.mode = "cross" => t.preview = IF t.rated THEN Announced(t.amt) ELSE 0
  <2>1. Announced(raw) \in Int
    <3>1. raw \in Nat BY <1>1, PaymentFormAssumption
    <3>2. raw * RateUnit \in Nat BY <3>1, BooksAssumption
    <3>3. raw * RateUnit * RateGrain \in Nat /\ CorridorRate * CentUnits \in Nat \ {0}
      BY <3>2, BooksAssumption, PaymentFormAssumption
    <3> QED BY <3>3, QuotientInt DEF Announced
  <2>2. /\ Preview \in Int
        /\ mode = "cross" => Preview = IF fx # None THEN Announced(raw) ELSE 0
    BY <1>1, <2>1 DEF Preview, Announced
  <2>3. t \in SentTerms BY <1>1, <2>2 DEF SentTerms
  <2> QED BY <1>1, <2>2, <2>3, FormCallsAssumption
<1>4. c = CallSent(p, t) BY <1>1 DEF Submission, CallSent
<1>5. c \in Calls BY SubmissionIsCall
<1>6. p \in Requests /\ p # None BY FormClick
<1>7. /\ EngineInv' /\ called'[p] = c /\ c # None
      /\ \A q \in Requests \ {p} : called'[q] = called[q] /\ stage'[q] = stage[q] /\ answer'[q] = answer[q]
  BY <1>2, <1>5, <1>6, CallMade DEF FormInv
<1> HIDE DEF c, t
<1>8. SentInv'
  <2>1. sent' \in [Clicks -> SentTerms \cup {None}] /\ sent'[p] = t
        /\ \A q \in Clicks \ {p} : sent'[q] = sent[q]
    BY <1>2, <1>3 DEF FormInv, SentInv
  <2>2. \A q \in Clicks : called'[q] # None <=> sent'[q] # None
    BY <1>3, <1>7, <2>1, FormClick DEF FormInv, SentInv
  <2>3. ASSUME NEW q \in Clicks, sent'[q] # None PROVE SentAs(q)'
    <3>1. CASE q = p BY <1>3, <1>4, <1>7, <2>1, <3>1 DEF SentAs
    <3>2. CASE q # p BY <1>7, <2>1, <2>3, <3>2, FormClick DEF FormInv, SentInv, SentAs
    <3> QED BY <3>1, <3>2
  <2>4. \A r \in Requests \ Clicks : called'[r] # None => r = Opening /\ called'[r] = Opened
    BY <1>7 DEF FormInv, SentInv
  <2> QED BY <2>1, <2>2, <2>3, <2>4 DEF SentInv
<1>9. WaitInv'
  <2>1. retries' \subseteq Clicks /\ UNCHANGED <<wallets, funds>>
    BY <1>2 DEF FormInv, FormTypeOK, fetchVars
  <2>2. ASSUME NEW q \in retries' PROVE sent'[q] # None /\ (q # busy' => stage'[q] = "done" /\ answer'[q] # "ok")
    <3>1. CASE q = p BY <1>2, <1>3, <3>1 DEF FormInv, SentInv
    <3>2. CASE q # p
      <4>1. q \in retries /\ q \in Requests /\ q # busy BY <1>1, <1>2, <2>1, <3>2, FormClick
      <4>2. sent'[q] = sent[q] BY <1>2, <2>1, <3>2 DEF FormInv, SentInv
      <4> QED BY <1>7, <3>2, <4>1, <4>2 DEF FormInv, WaitInv
    <3> QED BY <3>1, <3>2
  <2> QED BY <1>2, <2>1, <2>2 DEF FormInv, WaitInv
<1>10. FormTypeOK'
  <2>1. sent'[p] # None BY <1>2, <1>3 DEF FormInv, SentInv
  <2>2. retries' \subseteq Clicks BY <1>2 DEF FormInv, FormTypeOK
  <2> QED BY <1>2, <1>7, <2>1, <2>2 DEF FormInv, FormTypeOK, EngineInv, fetchVars, choiceVars
<1>11. KindInv'
  <2>1. sent'[p].mode = mode BY <1>2, <1>3 DEF FormInv, SentInv
  <2> QED BY <1>2, <2>1 DEF KindInv, choiceVars
<1> QED BY <1>7, <1>8, <1>9, <1>10, <1>11 DEF FormInv

LEMMA AnsweredStep ==
  ASSUME FormInv, NEW p \in Clicks, Answered(p)
  PROVE  FormInv'
<1>1. /\ busy = p /\ stage[p] = "done" /\ busy' = None /\ sent[p] # None /\ p # None
      /\ result' = [ok |-> answer[p] = "ok", of |-> p]
      /\ UNCHANGED <<engineVars, fetchVars, choiceVars, sent, switched>>
  BY FormClick DEF Answered, FormInv, FormTypeOK
<1>2. \/ answer[p] = "ok" /\ raw' = None /\ retries' = {}
      \/ answer[p] # "ok" /\ UNCHANGED <<raw, retries>>
  BY DEF Answered
<1>3. EngineInv' BY <1>1, EngineUnchanged DEF FormInv
<1>4. SentInv' BY <1>1 DEF FormInv, SentInv, SentAs, engineVars
<1>5. result'.of = p /\ (result'.ok => answer[p] = "ok") BY <1>1
<1>6. WaitInv'
  <2>1. ASSUME NEW q \in retries' PROVE sent'[q] # None /\ stage'[q] = "done" /\ answer'[q] # "ok"
    BY <1>1, <1>2, <2>1 DEF FormInv, WaitInv, engineVars
  <2> QED BY <1>1, <1>5, <2>1 DEF FormInv, WaitInv, engineVars, fetchVars
<1>7. FormTypeOK'
  <2>1. raw' \in Amounts \cup {None} /\ retries' \subseteq Clicks BY <1>2 DEF FormInv, FormTypeOK
  <2> QED BY <1>1, <1>3, <1>5, <2>1 DEF FormInv, FormTypeOK, EngineInv, engineVars, fetchVars, choiceVars
<1>8. KindInv' BY <1>1, <1>5 DEF FormInv, KindInv, choiceVars
<1> QED BY <1>3, <1>4, <1>6, <1>7, <1>8 DEF FormInv

\* The deposit is a call of another client.
LEMMA FundStep ==
  ASSUME FormInv, FundElsewhere
  PROVE  FormInv'
<1> USE DEF formVars, fetchVars, choiceVars, historyVars
<1> DEFINE o == Opening
<1>1. o \in Requests /\ o \notin Clicks /\ Opened \in Calls
  BY PaymentFormAssumption, FormCallsAssumption
<1>2. Call(o, Opened) /\ UNCHANGED formVars BY DEF FundElsewhere
<1>3. /\ EngineInv' /\ called'[o] = Opened
      /\ \A q \in Requests \ {o} : called'[q] = called[q] /\ stage'[q] = stage[q] /\ answer'[q] = answer[q]
  BY <1>1, <1>2, CallMade DEF FormInv
<1> HIDE DEF o
<1>4. \A p \in Clicks : called'[p] = called[p] /\ stage'[p] = stage[p] /\ answer'[p] = answer[p]
  BY <1>1, <1>3, FormClick
<1>5. SentInv'
  <2>1. ASSUME NEW p \in Clicks PROVE (called'[p] # None <=> sent'[p] # None) /\ (sent'[p] # None => SentAs(p)')
    BY <1>2, <1>4 DEF FormInv, SentInv, SentAs
  <2>2. ASSUME NEW r \in Requests \ Clicks, called'[r] # None PROVE r = Opening /\ called'[r] = Opened
    BY <1>3, <2>2 DEF FormInv, SentInv, o
  <2> QED BY <1>2, <2>1, <2>2 DEF FormInv, SentInv
<1>6. WaitInv' BY <1>2, <1>4 DEF FormInv, FormTypeOK, WaitInv
<1>7. FormTypeOK' BY <1>2, <1>3, <1>4 DEF FormInv, FormTypeOK, WaitInv, EngineInv
<1>8. KindInv' BY <1>2 DEF FormInv, KindInv
<1> QED BY <1>3, <1>5, <1>6, <1>7, <1>8 DEF FormInv

LEMMA FormStep_Inv ==
  ASSUME FormInv, FormNext \/ UNCHANGED PaymentVars
  PROVE  FormInv'
<1> USE DEF fetchVars, choiceVars, historyVars
<1>0. /\ wallets \in {"loading", "shown", "error", "left"} /\ funds \in Int \cup {None}
      /\ wallets = "shown" => funds \in Int
      /\ fx \in {CorridorRate, None} /\ mode \in {"local", "cross"}
      /\ source \in {Payer, None} /\ dest \in {Payer, None} /\ supplier \in {Supplier, None}
      /\ resolving \in {"no", "loading", "failed"} /\ raw \in Amounts \cup {None}
      /\ result \in {result, None}
  BY DEF FormInv, FormTypeOK, WaitInv
<1>1. CASE RateArrives BY <1>0, <1>1, FieldsMove DEF RateArrives
<1>2. CASE FundsArrive
  <2>1. funds' \in Int BY <1>2, BalanceInt DEF FundsArrive, FormInv
  <2> QED BY <1>0, <1>2, <2>1, FieldsMove DEF FundsArrive
<1>3. CASE FundsFail BY <1>0, <1>3, FieldsMove DEF FundsFail
<1>4. CASE RetryFunds BY <1>0, <1>4, FieldsMove DEF RetryFunds
<1>5. CASE SupplierArrives BY <1>0, <1>5, FieldsMove DEF SupplierArrives
<1>6. CASE ChooseSource BY <1>0, <1>6, FieldsMove DEF ChooseSource
<1>7. CASE ChooseDest BY <1>0, <1>7, FieldsMove DEF ChooseDest
<1>8. CASE LeaveForm BY <1>0, <1>8, FieldsMove DEF LeaveForm
<1>9. ASSUME NEW m \in {"local", "cross"}, SwitchMode(m) PROVE FormInv'
  <2>1. resolving' \in {"no", "loading", "failed"} BY <1>0, <1>9 DEF SwitchMode
  <2> QED BY <1>0, <1>9, <2>1, FieldsMove DEF SwitchMode
<1>10. ASSUME NEW a \in Amounts, TypeAmount(a) PROVE FormInv'
  BY <1>0, <1>10, FieldsMove DEF TypeAmount
<1>11. CASE EngineElsewhere
  <2>1. PICK r \in Requests : Serve(r) /\ UNCHANGED formVars BY <1>11 DEF EngineElsewhere
  <2>2. EngineInv' /\ CallsKept /\ UNCHANGED called BY <2>1, ServeStep DEF FormInv, Kept
  <2> QED BY <2>1, <2>2, FormWaits
<1>12. CASE FundElsewhere BY <1>12, FundStep
<1>13. CASE UNCHANGED PaymentVars
  <2>1. EngineInv' /\ CallsKept BY <1>13, EngineUnchanged DEF FormInv, PaymentVars
  <2> QED BY <1>13, <2>1, FormWaits DEF PaymentVars, engineVars
<1> QED
  BY <1>1, <1>2, <1>3, <1>4, <1>5, <1>6, <1>7, <1>8, <1>9, <1>10, <1>11, <1>12, <1>13, SubmitStep, AnsweredStep
  DEF FormNext, FormStep

LEMMA FormInit_Inv == FormInit => FormInv
<1> SUFFICES ASSUME FormInit PROVE FormInv OBVIOUS
<1>1. EngineInv BY ServiceInit_Inv DEF FormInit
<1>2. SentInv BY FormClick DEF SentInv, FormInit, ServiceInit
<1>3. WaitInv BY DEF WaitInv, FormInit
<1>4. FormTypeOK BY <1>1 DEF FormInit, FormTypeOK, EngineInv
<1>5. KindInv BY DEF KindInv, FormInit
<1> QED BY <1>1, <1>2, <1>3, <1>4, <1>5 DEF FormInv

\* The inductive invariant of the form.
THEOREM FormInvariance == FormSpec => []FormInv
<1>1. FormInv /\ [FormNext]_PaymentVars => FormInv' BY FormStep_Inv
<1> QED BY <1>1, FormInit_Inv, PTL DEF FormSpec

-----------------------------------------------------------------------------
(* What the form promises                                                  *)

\* A rounded quotient is the nearest integer.
LEMMA QuotientBounds ==
  ASSUME NEW n \in Nat, NEW d \in Nat \ {0}
  PROVE  LET q == RoundedQuotient(n, d)
         IN  q \in Nat /\ d * (2 * q - 1) <= 2 * n /\ 2 * n < d * (2 * q + 1)
<1> DEFINE q == RoundedQuotient(n, d)
           e == 2 * d
           m == 2 * n + d
<1>1. e \in Nat \ {0} /\ m \in Nat /\ q = m \div e BY DEF RoundedQuotient
<1> HIDE DEF q, m, e
<1>2. q \in Nat /\ e * q <= m /\ m < e * q + e BY <1>1
<1>3. e * q = 2 * (d * q) /\ d * q \in Nat BY <1>2 DEF e
<1>4. d * (2 * q - 1) = 2 * (d * q) - d /\ d * (2 * q + 1) = 2 * (d * q) + d BY <1>2
<1>5. d * (2 * q - 1) <= 2 * n /\ 2 * n < d * (2 * q + 1)
  <2> DEFINE dq == d * q
             x == e * q
             y == d * (2 * q - 1)
             z == d * (2 * q + 1)
  <2>1. /\ dq \in Nat /\ x = 2 * dq /\ x <= m /\ m < x + e /\ y = 2 * dq - d /\ z = 2 * dq + d
    BY <1>2, <1>3, <1>4
  <2> HIDE DEF dq, x, y, z
  <2>2. y <= 2 * n /\ 2 * n < z BY <2>1 DEF m, e
  <2> QED BY <2>2 DEF y, z
<1> QED BY <1>2, <1>5 DEF q

\* A quotient rounded to coarse units and the same quotient rounded to fine ones,
\* k to a coarse one, differ by half a coarse unit and half a fine one at most.
LEMMA TwoRoundings ==
  ASSUME NEW n \in Nat, NEW d \in Nat \ {0}, NEW k \in Nat \ {0}
  PROVE  LET gap == RoundedQuotient(n, d) - k * RoundedQuotient(n, d * k)
         IN  gap \in Int /\ 2 * gap <= k + 1 /\ 2 * gap >= -(k + 1)
<1> DEFINE x == RoundedQuotient(n, d)
           y == RoundedQuotient(n, d * k)
<1>1. d * k \in Nat \ {0} OBVIOUS
<1>2. /\ x \in Nat /\ y \in Nat
      /\ d * (2 * x - 1) <= 2 * n /\ 2 * n < d * (2 * x + 1)
      /\ (d * k) * (2 * y - 1) <= 2 * n /\ 2 * n < (d * k) * (2 * y + 1)
  BY <1>1, QuotientBounds
<1> HIDE DEF x, y
<1>3. k * y \in Nat BY <1>2
<1> DEFINE z == k * y
<1>4. (d * k) * (2 * y - 1) = d * (2 * z - k) /\ (d * k) * (2 * y + 1) = d * (2 * z + k)
  BY <1>2
<1>5. z \in Nat BY <1>3
<1> HIDE DEF z
<1>6. \A a \in Int, b \in Int : d * a < d * b => a < b OBVIOUS
<1>7. d * (2 * x - 1) < d * (2 * z + k) /\ d * (2 * z - k) < d * (2 * x + 1)
  <2> DEFINE a == d * (2 * x - 1)
             b == d * (2 * z + k)
             c == d * (2 * z - k)
             e == d * (2 * x + 1)
  <2>1. a \in Int /\ b \in Int /\ c \in Int /\ e \in Int BY <1>2, <1>5
  <2>2. a <= 2 * n /\ 2 * n < b /\ c <= 2 * n /\ 2 * n < e BY <1>2, <1>4
  <2> HIDE DEF a, b, c, e
  <2>3. a < b /\ c < e BY <2>1, <2>2
  <2> QED BY <2>3 DEF a, b, c, e
<1>8. 2 * x - 1 < 2 * z + k /\ 2 * z - k < 2 * x + 1 BY <1>2, <1>5, <1>6, <1>7
<1>9. x - z \in Int /\ 2 * (x - z) <= k + 1 /\ 2 * (x - z) >= -(k + 1) BY <1>2, <1>5, <1>8
<1> QED BY <1>9 DEF x, y, z

\* A payment that has been recorded is answered with it, or the answer is lost.
LEMMA InvPaidOnce == FormInv => TypedOncePaidOnce
<1> SUFFICES ASSUME FormInv, NEW p \in retries, NEW q \in retries, p # q, headers[p] # None, headers[q] # None
             PROVE  "failed" \in {answer[p], answer[q]}
  BY DEF TypedOncePaidOnce
<1>1. ASSUME NEW r \in {p, q}, r # busy PROVE answer[r] = "failed"
  <2>1. r \in retries /\ r \in Requests /\ headers[r] # None BY <1>1, FormClick DEF FormInv, FormTypeOK
  <2> QED BY <1>1, <2>1 DEF FormInv, WaitInv, EngineInv, TakenUp
<1> QED BY <1>1

\* Keys of submissions are fresh, so the header that is shown is the submission's.
LEMMA InvReported == FormInv => ReportedIsSent
<1> SUFFICES ASSUME FormInv, result # None, result.ok
             PROVE  LET p == result.of
                        h == headers[found[p]]
                    IN  /\ h # None /\ h.src = Payer /\ h.amt = sent[p].amt
                        /\ h.dst = IF sent[p].mode = "local" THEN Payer ELSE Supplier
                        /\ KindSaid = sent[p].mode \/ switched
  BY DEF ReportedIsSent
<1> DEFINE p == result.of
           h == found[p]
<1>1. p \in Clicks /\ p \in Requests /\ answer[p] = "ok" /\ sent[p] # None
  BY FormClick DEF FormInv, WaitInv, FormTypeOK
<1>2. called[p] = CallSent(p, sent[p]) BY <1>1 DEF FormInv, SentInv, SentAs
<1>3. called[p].op # "reverse" /\ called[p].key = p BY <1>2 DEF CallSent
<1>4. h \in Requests /\ headers[h] # None /\ headers[h].key = p
  BY <1>1, <1>3 DEF FormInv, EngineInv, ServiceTypeOK, KeysShown, ShowsKey
<1>5. /\ called[h] # None /\ called[h].key = p
      /\ headers[h].src = called[h].src /\ headers[h].dst = called[h].dst /\ headers[h].amt = called[h].amt
  BY <1>4, HeaderTerms, CallFields DEF FormInv
<1>6. h = p
  <2>1. CASE h \in Clicks
    <3>1. called[h] = CallSent(h, sent[h]) BY <1>5, <2>1 DEF FormInv, SentInv, SentAs
    <3> QED BY <1>5, <3>1 DEF CallSent
  <2>2. CASE h \notin Clicks
    <3>1. called[h].key = Opening BY <1>4, <1>5, <2>2 DEF FormInv, SentInv, Opened
    <3> QED BY <1>1, <1>5, <3>1, FormClick
  <2> QED BY <2>1, <2>2
<1>7. KindSaid = sent[p].mode \/ switched BY DEF FormInv, KindInv, KindSaid
<1> QED BY <1>2, <1>4, <1>5, <1>6, <1>7 DEF CallSent

\* What is credited and what is announced are one quotient, rounded once to the
\* units of money and once to cents.
LEMMA InvPreview == FormInv => PreviewIsPaid
<1> SUFFICES ASSUME FormInv, NEW p \in Clicks, sent[p] # None, sent[p].mode = "cross", sent[p].rated,
                    NEW e \in entries, e.by = p, e.leg = "credit"
             PROVE  LET gap == e.amt - CentUnits * sent[p].preview
                    IN  2 * gap <= CentUnits + 1 /\ 2 * gap >= -(CentUnits + 1)
  <2>1. ASSUME FormInv, NEW p \in Clicks, sent[p] # None, sent[p].mode = "cross", ~sent[p].rated
        PROVE  sent[p].preview = 0
    BY <2>1 DEF FormInv, SentInv, SentAs
  <2> QED BY <2>1 DEF PreviewIsPaid
<1> DEFINE c == called[p]
           a == sent[p].amt
           n == a * RateUnit * RateGrain
<1>1. SentAs(p) /\ sent[p] \in SentTerms BY DEF FormInv, SentInv
<1>2. c = CallSent(p, sent[p]) /\ sent[p].preview = Announced(a) /\ a \in Nat
  BY <1>1, PaymentFormAssumption DEF SentAs, SentTerms
<1>3. c.op = "cross" /\ c.amt = a /\ c.rate = CorridorRate BY <1>2 DEF CallSent
<1>4. e \in PaymentRows(p, c) BY <1>3 DEF FormInv, EngineInv, Written, RowBelongs
<1>5. e.amt = Exchanged(a, CorridorRate, RateUnit * RateGrain)
  BY <1>3, <1>4 DEF PaymentRows, CrossBorderEntries, NewRow
<1>6. RateUnit \in Nat /\ RateGrain \in Nat /\ CorridorRate \in Nat \ {0} /\ CentUnits \in Nat \ {0}
  BY BooksAssumption, PaymentFormAssumption
<1> HIDE DEF c, a
<1>7. a * RateUnit \in Nat /\ a * (RateUnit * RateGrain) = n BY <1>2, <1>6
<1>8. n \in Nat BY <1>6, <1>7
<1>9. e.amt = RoundedQuotient(n, CorridorRate) /\ sent[p].preview = RoundedQuotient(n, CorridorRate * CentUnits)
  BY <1>2, <1>5, <1>7 DEF Exchanged, Announced
<1> HIDE DEF n
<1> QED BY <1>6, <1>8, <1>9, TwoRoundings

\* What the engine tells of a submission that it has no money for.
FundsHadGoneDown ==
  \A p \in Clicks :
    answer'[p] = "insufficient" /\ answer[p] # "insufficient" =>
      Balance(entries, Payer) < sent[p].funds

LEMMA FundsStep ==
  ASSUME FormInv, [FormNext]_PaymentVars
  PROVE  FundsHadGoneDown
<1> SUFFICES ASSUME NEW p \in Clicks, answer'[p] = "insufficient", answer[p] # "insufficient"
             PROVE  Balance(entries, Payer) < sent[p].funds
  BY DEF FundsHadGoneDown
<1>1. p \in Requests BY FormClick
<1>2. CASE EngineElsewhere
  <2>1. PICK r \in Requests : Serve(r) BY <1>2 DEF EngineElsewhere
  <2>2. Refuse(r)
    BY <1>1, <2>1 DEF Serve, LookUp, TakeEffect, LoseRace, Answer, Fail, Finish, FormInv, EngineInv, ServiceTypeOK
  <2>3. /\ r = p /\ Refusal(p, "insufficient") /\ stage[p] = "missed"
    BY <1>1, <2>2 DEF Refuse, Finish, FormInv, EngineInv, ServiceTypeOK
  <2>4. called[p].op # "reverse" /\ ~Covered(entries, called[p]) BY <2>3 DEF Refusal
  <2>5. SentAs(p) /\ sent[p] \in SentTerms
    BY <1>1, <2>3 DEF FormInv, SentInv, EngineInv, Begun
  <2>6. called[p].src = Payer /\ called[p].amt = sent[p].amt /\ called[p].op # "fund"
    BY <2>5 DEF SentAs, CallSent
  <2>7. sent[p].amt <= sent[p].funds /\ sent[p].amt \in Int /\ sent[p].funds \in Int
    <3>1. sent[p].amt <= sent[p].funds BY <2>5 DEF SentAs
    <3>2. sent[p].amt \in Amounts /\ sent[p].funds \in Int BY <2>5 DEF SentTerms
    <3>3. \A a \in Amounts : a \in Int BY PaymentFormAssumption
    <3> QED BY <3>1, <3>2, <3>3, Zenon
  <2>8. ~(Balance(entries, Payer) >= sent[p].amt) BY <2>4, <2>6 DEF Covered
  <2>9. Balance(entries, Payer) \in Int BY BalanceInt DEF FormInv
  <2> QED BY <2>7, <2>8, <2>9
<1>3. ASSUME NEW q \in Clicks, Submit(q) PROVE FALSE
  <2>1. PICK c : Call(q, c) BY <1>3 DEF Submit
  <2> QED BY <1>1, <2>1 DEF Call, Finish, FormInv, EngineInv, ServiceTypeOK
<1>4. ASSUME UNCHANGED engineVars PROVE FALSE BY <1>4 DEF engineVars
<1>5. ~UNCHANGED PaymentVars BY <1>4 DEF PaymentVars
<1>6. CASE FormStep
  BY <1>3, <1>4, <1>6
  DEF FormStep, RateArrives, FundsArrive, FundsFail, RetryFunds, SupplierArrives, ChooseSource, ChooseDest,
      LeaveForm, SwitchMode, TypeAmount, Answered
<1>7. CASE FundElsewhere
  <2>1. PICK c : Call(Opening, c) BY <1>7 DEF FundElsewhere
  <2> QED BY <1>1, <2>1, FormClick DEF Call, Finish, FormInv, EngineInv, ServiceTypeOK
<1> QED BY <1>2, <1>5, <1>6, <1>7 DEF FormNext

\* However answers are lost and fields change meanwhile: an amount typed once is
\* paid once, unless the answer to one of the payments was lost.
THEOREM PaidOnce == FormSpec => []TypedOncePaidOnce
BY InvPaidOnce, FormInvariance, PTL

\* What the form reports is the transfer that the user submitted, and of the kind
\* it says, unless the mode was switched meanwhile.
THEOREM ReportTrue == FormSpec => []ReportedIsSent
BY InvReported, FormInvariance, PTL

\* For any rate, amount and grain of money: what the supplier is credited is what
\* the form announced, to half a cent and half a unit, or the form had no rate and
\* announced 0.00.
THEOREM PreviewTrue == FormSpec => []PreviewIsPaid
BY InvPreview, FormInvariance, PTL

\* What the form announces and what it reports is what is paid.
THEOREM FormIsTruthful == FormSpec => []FormTellsTruth
BY ReportTrue, PreviewTrue, PTL DEF FormTellsTruth

\* A submission is refused for lack of money only if the balance that the form
\* had compared has gone down since.
THEOREM RefusedIfStale == FormSpec => RefusedOnlyIfStale
<1>1. FormInv /\ [FormNext]_PaymentVars => [FundsHadGoneDown]_PaymentVars BY FundsStep
<1>2. RefusedOnlyIfStale <=> [][FundsHadGoneDown]_PaymentVars
  BY DEF RefusedOnlyIfStale, FundsHadGoneDown
<1> QED BY <1>1, <1>2, FormInvariance, PTL DEF FormSpec

\* The form is one of the service's callers: whatever is chosen and typed, no call
\* is made that the engine's interface does not have, and none twice.
THEOREM FormUsesService == FormSpec => ServiceSpec
<1>1. FormInit => ServiceInit BY DEF FormInit
<1>2. ASSUME FormInv, NEW p \in Clicks, Submit(p) PROVE ServiceNext
  <2>1. p \in Requests /\ Call(p, Submission(p)) BY <1>2, FormClick DEF Submit
  <2>2. Submission(p) \in Calls BY <1>2, SubmissionIsCall
  <2> QED BY <2>1, <2>2 DEF ServiceNext
<1>3. FormInv /\ [FormNext]_PaymentVars => [ServiceNext]_serviceVars
  <2> SUFFICES ASSUME FormInv, [FormNext]_PaymentVars PROVE [ServiceNext]_serviceVars
    OBVIOUS
  <2>1. (\E p \in Clicks : Submit(p)) \/ FundElsewhere \/ EngineElsewhere \/ UNCHANGED engineVars
    BY DEF FormNext, FormStep, RateArrives, FundsArrive, FundsFail, RetryFunds, SupplierArrives, ChooseSource,
       ChooseDest, LeaveForm, SwitchMode, TypeAmount, Answered, PaymentVars
  <2>2. CASE EngineElsewhere BY <2>2 DEF EngineElsewhere, ServiceNext
  <2>3. CASE FundElsewhere
    BY <2>3, PaymentFormAssumption, FormCallsAssumption DEF FundElsewhere, ServiceNext
  <2> QED BY <1>2, <2>1, <2>2, <2>3 DEF engineVars, serviceVars
<1> QED BY <1>1, <1>3, FormInvariance, PTL DEF FormSpec, ServiceSpec

-----------------------------------------------------------------------------
(* Signing in, for any phone numbers and any number of attempts.           *)

USE SessionAssumption

\* What the look-up found and what the registration made is registered; an
\* attempt that was made has one of the phone numbers.
AnswersTrue ==
  \A c \in Attempts :
    /\ attempt[c].at \in {"known", "created"} => attempt[c].phone \in registered
    /\ attempt[c].at # "idle" => attempt[c].phone \in Phones

SessionInv == SessionTypeOK /\ SignedInIsRegistered /\ AnswersTrue

-----------------------------------------------------------------------------
(* The initial states and the steps                                        *)

Kinds == {"idle", "looking", "known", "unknown", "creating", "created", "failed", "orphan", "over"}
AttemptType == [at : Kinds, phone : Phones \cup {Nobody}, form : BOOLEAN]

LEMMA SessionInit_Inv == SessionInit => SessionInv
<1> SUFFICES ASSUME SessionInit PROVE SessionInv OBVIOUS
<1>1. [at |-> "idle", phone |-> Nobody, form |-> FALSE] \in AttemptType BY DEF AttemptType, Kinds
<1>2. attempt \in [Attempts -> AttemptType] /\ \A c \in Attempts : attempt[c].at = "idle"
  BY <1>1 DEF SessionInit
<1>3. SessionTypeOK BY <1>2 DEF SessionInit, SessionTypeOK, AttemptType, Kinds
<1> QED BY <1>2, <1>3 DEF SessionInit, SessionInv, SignedInIsRegistered, AnswersTrue

LEMMA GoesOn ==
  ASSUME NEW r \in AttemptType, NEW at \in Kinds
  PROVE  /\ [r EXCEPT !.at = at] \in AttemptType
         /\ [r EXCEPT !.at = at].at = at /\ [r EXCEPT !.at = at].phone = r.phone
BY DEF AttemptType

\* Goes changes how far one attempt is, and nothing else.
LEMMA GoesType ==
  ASSUME NEW c \in Attempts, NEW at \in Kinds, Goes(c, at), attempt \in [Attempts -> AttemptType]
  PROVE  /\ attempt' \in [Attempts -> AttemptType]
         /\ attempt'[c].at = at /\ attempt'[c].phone = attempt[c].phone
         /\ \A b \in Attempts \ {c} : attempt'[b] = attempt[b]
BY GoesOn DEF Goes

LEMMA ForgottenKind ==
  ASSUME NEW at
  PROVE  /\ Forgotten(at) \in {"idle", "orphan", "over"}
         /\ Forgotten(at) # "idle" => at # "idle"
BY DEF Forgotten

LEMMA SessionStep_Inv ==
  ASSUME SessionInv, [SessionNext]_sessionVars
  PROVE  SessionInv'
<1> USE DEF SessionInv, SessionTypeOK, SignedInIsRegistered, AnswersTrue
<1>1. ASSUME NEW c \in Attempts, NEW p \in Phones, EnterRow(c, p) PROVE SessionInv'
  BY <1>1 DEF EnterRow, OnSelectPage
<1>2. ASSUME NEW c \in Attempts, NEW p \in Phones, SubmitProfile(c, p) PROVE SessionInv'
  BY <1>2 DEF SubmitProfile, OnSelectPage
<1>3. ASSUME NEW c \in Attempts, LookUpServed(c) PROVE SessionInv'
  BY <1>3 DEF LookUpServed, Goes
<1>4. ASSUME NEW c \in Attempts, CreateServed(c) PROVE SessionInv'
  BY <1>4 DEF CreateServed, Goes
<1>t. attempt \in [Attempts -> AttemptType] BY DEF AttemptType, Kinds
<1>s. ASSUME NEW c \in Attempts, attempt[c].at \in {"known", "created"},
             Goes(c, "over"), SignIn(attempt[c].phone), UNCHANGED <<registered, stored>>
      PROVE  SessionInv'
  <2>1. attempt[c].phone \in registered BY <1>s
  <2>2. /\ attempt' \in [Attempts -> AttemptType]
        /\ attempt'[c].at = "over" /\ attempt'[c].phone = attempt[c].phone
        /\ \A b \in Attempts \ {c} : attempt'[b] = attempt[b]
    BY <1>s, <1>t, GoesType DEF Kinds
  <2>3. SessionTypeOK' BY <1>s, <2>1, <2>2 DEF SignIn, Unmount, AttemptType, Kinds
  <2>4. AnswersTrue' BY <1>s, <2>2
  <2>5. SignedInIsRegistered' BY <1>s, <2>1 DEF SignIn, SessionAssumption
  <2> QED BY <2>3, <2>4, <2>5
<1>5. ASSUME NEW c \in Attempts, LookUpAnswered(c) PROVE SessionInv'
  <2>1. CASE attempt[c].at = "known" BY <1>5, <1>s, <2>1 DEF LookUpAnswered
  <2>2. CASE attempt[c].at = "unknown"
    <3>1. /\ Goes(c, "creating")
          /\ UNCHANGED <<registered, trader, stored, path, here, rowBusy, adding, creating>>
      BY <1>5, <2>2 DEF LookUpAnswered
    <3> QED BY <1>t, <2>2, <3>1, GoesType DEF AttemptType, Kinds
  <2> QED BY <1>5, <2>1, <2>2 DEF LookUpAnswered
<1>6. ASSUME NEW c \in Attempts, CreateAnswered(c) PROVE SessionInv'
  <2>1. CASE attempt[c].at = "created" BY <1>6, <1>s, <2>1 DEF CreateAnswered
  <2>2. CASE attempt[c].at = "failed"
    <3>1. /\ Goes(c, "over") /\ here' = here \ {c}
          /\ rowBusy' \in {Nobody, rowBusy} /\ creating' \in BOOLEAN /\ (creating' => creating)
          /\ UNCHANGED <<registered, trader, stored, path, adding>>
      BY <1>6, <2>2 DEF CreateAnswered
    <3>2. /\ attempt' \in [Attempts -> AttemptType]
          /\ attempt'[c].at = "over" /\ attempt'[c].phone = attempt[c].phone
          /\ \A b \in Attempts \ {c} : attempt'[b] = attempt[b]
      BY <1>t, <3>1, GoesType DEF Kinds
    <3>3. SessionTypeOK' BY <3>1, <3>2 DEF AttemptType, Kinds
    <3>4. AnswersTrue' BY <2>2, <3>1, <3>2
    <3> QED BY <3>1, <3>3, <3>4
  <2> QED BY <1>6, <2>1, <2>2 DEF CreateAnswered
<1>7. ASSUME NEW to \in {"landing", "select"}, Browse(to) PROVE SessionInv'
  BY <1>7 DEF Browse, Unmount
<1>8. CASE ToggleAdd BY <1>8 DEF ToggleAdd, OnSelectPage
<1>9. CASE Clear BY <1>9 DEF Clear, Unmount
<1>10. CASE Persist BY <1>10 DEF Persist
<1>11. CASE Reload
  <2>1. \A c \in Attempts : attempt'[c] = [attempt[c] EXCEPT !.at = Forgotten(attempt[c].at)]
    BY <1>11 DEF Reload
  <2>2. \A c \in Attempts :
          /\ attempt'[c].at = Forgotten(attempt[c].at)
          /\ attempt'[c].phone = attempt[c].phone
          /\ attempt'[c] \in AttemptType
    <3> SUFFICES ASSUME NEW c \in Attempts
                 PROVE  /\ attempt'[c].at = Forgotten(attempt[c].at)
                        /\ attempt'[c].phone = attempt[c].phone
                        /\ attempt'[c] \in AttemptType
      OBVIOUS
    <3>1. attempt[c] \in AttemptType /\ Forgotten(attempt[c].at) \in Kinds
      BY <1>t, ForgottenKind DEF Kinds
    <3> DEFINE new == [attempt[c] EXCEPT !.at = Forgotten(attempt[c].at)]
    <3>2. new \in AttemptType /\ new.at = Forgotten(attempt[c].at) /\ new.phone = attempt[c].phone
      BY <3>1, GoesOn
    <3>3. attempt'[c] = new BY <2>1
    <3> HIDE DEF new
    <3> QED BY <3>2, <3>3
  <2>f. attempt' = [c \in Attempts |-> [attempt[c] EXCEPT !.at = Forgotten(attempt[c].at)]]
    BY <1>11 DEF Reload
  <2>g. attempt' \in [Attempts -> AttemptType] BY <2>1, <2>2, <2>f
  <2>3. SessionTypeOK'
    <3>1. path' \in {"landing", "select", "work"} /\ trader' \in Phones \cup {Nobody}
      BY <1>11 DEF Reload
    <3> QED BY <1>11, <2>g, <3>1 DEF Reload, Unmount, AttemptType, Kinds
  <2>4. AnswersTrue' BY <1>11, <2>2, ForgottenKind DEF Reload
  <2>5. SignedInIsRegistered' BY <1>11 DEF Reload
  <2> QED BY <2>3, <2>4, <2>5
<1>12. CASE UNCHANGED sessionVars BY <1>12 DEF sessionVars
<1> QED
  BY <1>1, <1>2, <1>3, <1>4, <1>5, <1>6, <1>7, <1>8, <1>9, <1>10, <1>11, <1>12 DEF SessionNext

\* The inductive invariant of the session.
THEOREM SessionInvariant == SessionSpec => []SessionInv
BY SessionInit_Inv, SessionStep_Inv, PTL DEF SessionSpec

\* Only registered traders are ever signed in or come back with a reload,
\* whichever attempts overlap, fail or are left behind.
THEOREM OnlyRegisteredSignIn == SessionSpec => [](SessionTypeOK /\ SignedInIsRegistered)
<1>1. SessionInv => SessionTypeOK /\ SignedInIsRegistered BY DEF SessionInv
<1> QED BY <1>1, SessionInvariant, PTL

-----------------------------------------------------------------------------
(* The ledger rows of a payment, for any number of payments and of clicks. *)

USE AuditAssumption

LookType == [at : {"idle", "asked", "sent", "over"}, of : Records \cup {0}, rows : AnyRows]

UnderWay(k) == look[k].at \in {"asked", "sent"}

AuditTypeOK ==
  /\ history \in BOOLEAN /\ undone \subseteq Records /\ openRow \in Records \cup {0}
  /\ look \in [Looks -> LookType]
  /\ panel \in AnyRows /\ expanded \in [Records -> AnyRows] /\ overlap \in BOOLEAN

\* A fetch asks for a payment, and brings that payment's rows or none.
AnswersBelong ==
  \A k \in Looks :
    /\ UnderWay(k) => look[k].of \in Records
    /\ look[k].at = "sent" => look[k].rows.of \in {0, look[k].of}

\* Without overlap there is one fetch at most, and no rows are shown before its
\* answer when it was made for the payment that is open.
OneFetch ==
  ~overlap =>
    /\ \A j, k \in Looks : UnderWay(j) /\ UnderWay(k) => j = k
    /\ \A k \in Looks : ~history /\ UnderWay(k) => openRow \in {0, look[k].of}

\* The payments page's rows, when no two fetches have overlapped.
PanelBelongs == openRow # 0 /\ ~overlap => panel.of \in {0, openRow}

\* Whatever is opened and closed while fetches overlap, the rows that History
\* keeps for a payment are that payment's (History.tsx toggleEntries).
KeptRowsBelong == \A n \in Records : expanded[n].of \in {0, n}

AuditInv == AuditTypeOK /\ KeptRowsBelong /\ AnswersBelong /\ OneFetch /\ PanelBelongs
-----------------------------------------------------------------------------
(* The initial states and the steps                                        *)

LEMMA RowKinds ==
  /\ NotYet \in AnyRows /\ NoRows \in AnyRows /\ NotYet.of = 0 /\ NoRows.of = 0
  /\ \A n \in Records : RowsOf(n) \in AnyRows /\ RowsOf(n).of = n
BY DEF NotYet, NoRows, RowsOf, AnyRows

LEMMA AuditInit_Inv == AuditInit => AuditInv
<1> SUFFICES ASSUME AuditInit PROVE AuditInv OBVIOUS
<1>1. [at |-> "idle", of |-> 0, rows |-> NotYet] \in LookType BY RowKinds DEF LookType
<1>2. look \in [Looks -> LookType] /\ \A k \in Looks : look[k].at = "idle"
  BY <1>1 DEF AuditInit
<1>3. AuditTypeOK BY <1>2, RowKinds DEF AuditInit, AuditTypeOK
<1>4. KeptRowsBelong /\ PanelBelongs
  BY RowKinds DEF AuditInit, KeptRowsBelong, PanelBelongs
<1>5. AnswersBelong /\ OneFetch BY <1>2 DEF AnswersBelong, OneFetch, UnderWay
<1> QED BY <1>3, <1>4, <1>5 DEF AuditInv

\* A step of one fetch leaves the others alone.
LEMMA LookChange ==
  ASSUME NEW k \in Looks, NEW r \in LookType, look \in [Looks -> LookType],
         look' = [look EXCEPT ![k] = r]
  PROVE  /\ look' \in [Looks -> LookType] /\ look'[k] = r
         /\ \A j \in Looks \ {k} : look'[j] = look[j]
OBVIOUS

LEMMA OpenRow_Inv ==
  ASSUME AuditInv, NEW k \in Looks, NEW n \in Records, OpenRow(k, n)
  PROVE  AuditInv'
<1> USE DEF AuditInv, AuditTypeOK, KeptRowsBelong, AnswersBelong, OneFetch, UnderWay, PanelBelongs
<1>1. /\ openRow' = n /\ panel' = NotYet /\ UNCHANGED <<history, undone, expanded>>
      /\ FetchRows(k, n)
  BY DEF OpenRow
<1>2. CASE history /\ expanded[n] # NotYet
  <2>1. UNCHANGED <<look, overlap>> BY <1>1, <1>2 DEF FetchRows
  <2> QED BY <1>1, <1>2, <2>1, RowKinds
<1>3. CASE ~(history /\ expanded[n] # NotYet)
  <2> DEFINE r == [at |-> "asked", of |-> n, rows |-> NotYet]
  <2>1. /\ look' = [look EXCEPT ![k] = r]
        /\ overlap' = (overlap \/ \E j \in Looks : look[j].at \in {"asked", "sent"})
    BY <1>1, <1>3 DEF FetchRows
  <2>2. r \in LookType /\ r.at = "asked" /\ r.of = n BY RowKinds DEF LookType
  <2> HIDE DEF r
  <2>3. /\ look' \in [Looks -> LookType] /\ look'[k] = r
        /\ \A j \in Looks \ {k} : look'[j] = look[j]
    BY <2>1, <2>2, LookChange
  <2>4. AuditTypeOK' BY <1>1, <2>1, <2>3, RowKinds
  <2>5. AnswersBelong' BY <2>2, <2>3
  <2>6. OneFetch' BY <1>1, <2>1, <2>2, <2>3
  <2>7. KeptRowsBelong' /\ PanelBelongs' BY <1>1, RowKinds
  <2> QED BY <2>4, <2>5, <2>6, <2>7
<1> QED BY <1>2, <1>3

LEMMA AuditStep_Inv ==
  ASSUME AuditInv, [AuditNext]_auditVars
  PROVE  AuditInv'
<1> USE DEF AuditInv, AuditTypeOK, KeptRowsBelong, AnswersBelong, OneFetch, UnderWay, PanelBelongs
<1>1. ASSUME NEW n \in Records, UndoRecord(n) PROVE AuditInv' BY <1>1 DEF UndoRecord
<1>2. ASSUME NEW n \in Records, CloseRow(n) PROVE AuditInv' BY <1>2, RowKinds DEF CloseRow
<1>3. ASSUME NEW k \in Looks, NEW n \in Records, OpenRow(k, n) PROVE AuditInv'
  BY <1>3, OpenRow_Inv
<1>4. ASSUME NEW k \in Looks, EntriesServed(k) PROVE AuditInv'
  <2>1. PICK got \in {RowsOf(look[k].of), NoRows} :
          look' = [look EXCEPT ![k] = [@ EXCEPT !.at = "sent", !.rows = got]]
    BY <1>4 DEF EntriesServed
  <2> DEFINE r == [look[k] EXCEPT !.at = "sent", !.rows = got]
  <2>2. look[k] \in LookType /\ look[k].at = "asked" /\ look[k].of \in Records
    BY <1>4 DEF EntriesServed
  <2>3. got \in AnyRows /\ got.of \in {0, look[k].of} BY <2>2, RowKinds
  <2>4. r \in LookType /\ r.at = "sent" /\ r.of = look[k].of /\ r.rows = got
    BY <2>2, <2>3 DEF LookType
  <2>5. look' = [look EXCEPT ![k] = r] BY <2>1
  <2> HIDE DEF r
  <2>6. /\ look' \in [Looks -> LookType] /\ look'[k] = r
        /\ \A j \in Looks \ {k} : look'[j] = look[j]
    BY <2>4, <2>5, LookChange
  <2>7. UNCHANGED <<history, undone, openRow, panel, expanded, overlap>> BY <1>4 DEF EntriesServed
  <2>8. AuditTypeOK' /\ KeptRowsBelong' /\ PanelBelongs' BY <2>6, <2>7
  <2>9. AnswersBelong' BY <2>2, <2>3, <2>4, <2>6
  <2>10. OneFetch' BY <2>2, <2>4, <2>6, <2>7
  <2> QED BY <2>8, <2>9, <2>10
<1>5. ASSUME NEW k \in Looks, EntriesArrive(k) PROVE AuditInv'
  <2> DEFINE r == [look[k] EXCEPT !.at = "over"]
  <2>1. look[k] \in LookType /\ look[k].at = "sent" /\ look[k].of \in Records
    BY <1>5 DEF EntriesArrive, Arrived
  <2>2. look[k].rows \in AnyRows /\ look[k].rows.of \in {0, look[k].of}
    BY <2>1 DEF LookType
  <2>3. r \in LookType /\ r.at = "over" BY <2>1 DEF LookType
  <2>4. look' = [look EXCEPT ![k] = r] BY <1>5 DEF EntriesArrive, Arrived
  <2> HIDE DEF r
  <2>5. /\ look' \in [Looks -> LookType] /\ look'[k] = r
        /\ \A j \in Looks \ {k} : look'[j] = look[j]
    BY <2>3, <2>4, LookChange
  <2>6. /\ UNCHANGED <<history, undone, openRow, overlap>>
        /\ IF history
           THEN expanded' = [expanded EXCEPT ![look[k].of] = look[k].rows] /\ UNCHANGED panel
           ELSE panel' = look[k].rows /\ UNCHANGED expanded
    BY <1>5 DEF EntriesArrive
  <2>7. AuditTypeOK' BY <2>2, <2>5, <2>6
  <2>8. KeptRowsBelong' BY <2>1, <2>2, <2>6
  <2>9. AnswersBelong' /\ OneFetch' BY <2>3, <2>5, <2>6
  <2>10. PanelBelongs' BY <2>1, <2>2, <2>6
  <2> QED BY <2>7, <2>8, <2>9, <2>10
<1>6. CASE UNCHANGED auditVars BY <1>6 DEF auditVars
<1> QED BY <1>1, <1>2, <1>3, <1>4, <1>5, <1>6 DEF AuditNext

\* The rows that the history page keeps for a payment are that payment's.
THEOREM HistoryKeepsItsRows == AuditSpec => []KeptRowsBelong
<1>1. AuditInv => KeptRowsBelong BY DEF AuditInv
<1> QED BY <1>1, AuditInit_Inv, AuditStep_Inv, PTL DEF AuditSpec

\* The rows that are shown are those of the payment that is open, but on the
\* payments page after overlapping fetches.
THEOREM PanelIsOfItsPayment == AuditSpec => []AuditIsOfItsPayment
<1>1. AuditInv => AuditIsOfItsPayment
  BY DEF AuditInv, AuditTypeOK, KeptRowsBelong, PanelBelongs, AuditIsOfItsPayment, RowsShown
<1> QED BY <1>1, AuditInit_Inv, AuditStep_Inv, PTL DEF AuditSpec

-----------------------------------------------------------------------------
(* The toasts                                                              *)

Ticking(id) == \E i \in DOMAIN timers : timers[i] = id

\* Ids are those given out, and the timers end in the order of their ids: none
\* is running twice.
ToastInv ==
  /\ nextId \in Nat \ {0}
  /\ \A t \in toasts : t.id \in 1..nextId - 1
  /\ timers \in Seq(Nat) /\ closed \subseteq Nat
  /\ \A i \in DOMAIN timers : timers[i] < nextId
  /\ \A i, j \in DOMAIN timers : i < j => timers[i] < timers[j]
  /\ \A id \in closed : id < nextId
  /\ \A id \in Nat : Shows(id) <=> id \notin closed /\ Ticking(id)

LEMMA TailShifts ==
  ASSUME NEW s \in Seq(Nat), s # <<>>
  PROVE  /\ Tail(s) \in Seq(Nat) /\ Len(Tail(s)) = Len(s) - 1 /\ Head(s) = s[1] /\ 1 \in DOMAIN s
         /\ \A i \in DOMAIN Tail(s) : Tail(s)[i] = s[i + 1] /\ i + 1 \in DOMAIN s /\ 1 < i + 1
         /\ \A i \in DOMAIN s : i # 1 => i - 1 \in DOMAIN Tail(s) /\ Tail(s)[i - 1] = s[i]
<1>1. Tail(s) \in Seq(Nat) /\ Len(Tail(s)) = Len(s) - 1 /\ Head(s) = s[1] /\ Len(s) \in Nat \ {0} OBVIOUS
<1>2. DOMAIN s = 1..Len(s) /\ DOMAIN Tail(s) = 1..(Len(s) - 1) BY <1>1
<1>3. \A i \in 1..(Len(s) - 1) : Tail(s)[i] = s[i + 1] OBVIOUS
<1>4. \A i \in 1..(Len(s) - 1) : i + 1 \in 1..Len(s) /\ 1 < i + 1 BY <1>1
<1>5. \A i \in 1..Len(s) : i # 1 => i - 1 \in 1..(Len(s) - 1) /\ (i - 1) + 1 = i BY <1>1
<1> QED BY <1>1, <1>2, <1>3, <1>4, <1>5

LEMMA ToastStep_Inv ==
  ASSUME ToastInv, [ToastNext]_toastVars
  PROVE  ToastInv'
<1>0. /\ nextId \in Nat \ {0} /\ timers \in Seq(Nat) /\ closed \subseteq Nat
      /\ \A t \in toasts : t.id \in 1..nextId - 1
      /\ \A i \in DOMAIN timers : timers[i] < nextId
      /\ \A i, j \in DOMAIN timers : i < j => timers[i] < timers[j]
      /\ \A id \in closed : id < nextId
      /\ \A id \in Nat : Shows(id) <=> id \notin closed /\ Ticking(id)
  BY DEF ToastInv
<1>1. ASSUME NEW tone \in Tones, Push(tone) PROVE ToastInv'
  <2> DEFINE n == nextId
  <2>1. /\ nextId' = n + 1 /\ toasts' = toasts \cup {[id |-> n, tone |-> tone]}
        /\ timers' = Append(timers, n) /\ closed' = closed
    BY <1>1 DEF Push
  <2>2. timers' \in Seq(Nat) /\ Len(timers') = Len(timers) + 1 BY <1>0, <2>1
  <2>3. /\ DOMAIN timers' = DOMAIN timers \cup {Len(timers) + 1} /\ timers'[Len(timers) + 1] = n
        /\ \A i \in DOMAIN timers : timers'[i] = timers[i] /\ i < Len(timers) + 1
    BY <1>0, <2>1, <2>2
  <2>4. \A t \in toasts' : t.id \in 1..nextId' - 1 BY <1>0, <2>1
  <2>5. \A i \in DOMAIN timers' : timers'[i] < nextId' BY <1>0, <2>1, <2>3
  <2>6. \A i, j \in DOMAIN timers' : i < j => timers'[i] < timers'[j] BY <1>0, <2>3
  <2>7. \A id \in Nat : Shows(id)' <=> Shows(id) \/ id = n
    <3>1. [id |-> n, tone |-> tone].id = n OBVIOUS
    <3> HIDE DEF n
    <3> QED BY <2>1, <3>1, Zenon DEF Shows
  <2>8. \A id \in Nat : Ticking(id)' <=> Ticking(id) \/ id = n BY <2>3 DEF Ticking
  <2>9. \A id \in closed' : id < nextId' BY <1>0, <2>1
  <2> QED BY <1>0, <2>1, <2>2, <2>4, <2>5, <2>6, <2>7, <2>8, <2>9 DEF ToastInv
<1>2. ASSUME TimerFires PROVE ToastInv'
  <2> DEFINE n == Head(timers)
  <2>1. /\ timers # <<>> /\ timers' = Tail(timers) /\ toasts' = Without(n)
        /\ nextId' = nextId /\ closed' = closed
    BY <1>2 DEF TimerFires
  <2>2. /\ timers' \in Seq(Nat) /\ Len(timers') = Len(timers) - 1 /\ n = timers[1] /\ 1 \in DOMAIN timers
        /\ \A i \in DOMAIN timers' : timers'[i] = timers[i + 1] /\ i + 1 \in DOMAIN timers /\ 1 < i + 1
        /\ \A i \in DOMAIN timers : i # 1 => i - 1 \in DOMAIN timers' /\ timers'[i - 1] = timers[i]
    BY <1>0, <2>1, TailShifts
  <2>3. \A i \in DOMAIN timers' : timers'[i] < nextId' BY <1>0, <2>1, <2>2
  <2>4. \A i, j \in DOMAIN timers' : i < j => timers'[i] < timers'[j]
    <3> TAKE i, j \in DOMAIN timers'
    <3>1. i \in Nat /\ j \in Nat BY <2>2
    <3> QED BY <1>0, <2>2, <3>1
  <2>5. n \in Nat /\ \A i \in DOMAIN timers' : timers'[i] # n
    <3>1. n \in Nat BY <1>0, <2>2
    <3>2. ASSUME NEW i \in DOMAIN timers' PROVE n < timers'[i] BY <1>0, <2>2
    <3>3. \A i \in DOMAIN timers' : timers'[i] \in Nat BY <2>2
    <3> QED BY <3>1, <3>2, <3>3
  <2>6. ASSUME NEW id \in Nat PROVE Ticking(id)' <=> Ticking(id) /\ id # n
    <3> HIDE DEF n
    <3>1. ASSUME NEW i \in DOMAIN timers, timers[i] = id, id # n PROVE Ticking(id)'
      BY <2>2, <3>1 DEF Ticking
    <3>2. ASSUME NEW i \in DOMAIN timers', timers'[i] = id PROVE Ticking(id) /\ id # n
      BY <2>2, <2>5, <3>2 DEF Ticking
    <3> QED BY <3>1, <3>2 DEF Ticking
  <2>7. \A id \in Nat : Shows(id)' <=> Shows(id) /\ id # n BY <2>1 DEF Shows, Without
  <2>8. \A t \in toasts' : t.id \in 1..nextId' - 1 BY <1>0, <2>1 DEF Without
  <2> QED BY <1>0, <2>1, <2>2, <2>3, <2>4, <2>6, <2>7, <2>8 DEF ToastInv
<1>3. ASSUME NEW n \in 1..MaxToasts, Dismiss(n) PROVE ToastInv'
  <2>1. /\ Shows(n) /\ toasts' = Without(n) /\ closed' = closed \cup {n}
        /\ nextId' = nextId /\ timers' = timers
    BY <1>3 DEF Dismiss
  <2>2. n \in Nat /\ n < nextId BY <1>0, <2>1 DEF Shows
  <2>3. \A id \in Nat : Shows(id)' <=> Shows(id) /\ id # n BY <2>1 DEF Shows, Without
  <2>4. \A id \in Nat : Ticking(id)' <=> Ticking(id) BY <2>1 DEF Ticking
  <2>5. \A t \in toasts' : t.id \in 1..nextId' - 1 BY <1>0, <2>1 DEF Without
  <2> QED BY <1>0, <2>1, <2>2, <2>3, <2>4, <2>5 DEF ToastInv
<1>4. ASSUME Escape PROVE ToastInv'
  <2>1. /\ toasts' = {} /\ closed' = closed \cup {t.id : t \in toasts}
        /\ nextId' = nextId /\ timers' = timers
    BY <1>4 DEF Escape
  <2>2. \A id \in Nat : ~Shows(id)' /\ (id \in closed' <=> id \in closed \/ Shows(id))
    BY <2>1 DEF Shows
  <2>3. \A id \in Nat : Ticking(id)' <=> Ticking(id) BY <2>1 DEF Ticking
  <2>4. \A t \in toasts : t.id \in Nat /\ t.id < nextId BY <1>0
  <2>5. closed' \subseteq Nat /\ \A id \in closed' : id < nextId BY <1>0, <2>1, <2>4
  <2> QED BY <1>0, <2>1, <2>2, <2>3, <2>5 DEF ToastInv
<1>5. CASE UNCHANGED toastVars
  BY <1>0, <1>5 DEF toastVars, ToastInv, Shows, Ticking
<1> QED BY <1>1, <1>2, <1>3, <1>4, <1>5 DEF ToastNext

\* However many toasts are pushed, closed and expire: a timer that outlives its
\* toast takes no other one, and no success or note outlives its timer
\* (ToastProvider.tsx push and dismiss).
THEOREM TimersTakeTheirOwn == ToastSpec => []TimerTakesItsOwn
<1>1. ToastInit => ToastInv BY DEF ToastInit, ToastInv, Shows, Ticking
<1>2. ToastInv /\ [ToastNext]_toastVars => ToastInv' BY ToastStep_Inv
<1>3. ASSUME ToastInv PROVE TimerTakesItsOwn
  <2>1. ASSUME NEW i \in DOMAIN timers PROVE Shows(timers[i]) \/ timers[i] \in closed
    <3>1. timers[i] \in Nat /\ Ticking(timers[i]) BY <1>3 DEF ToastInv, Ticking
    <3> QED BY <1>3, <3>1 DEF ToastInv
  <2>2. ASSUME NEW t \in toasts PROVE \E i \in DOMAIN timers : timers[i] = t.id
    <3>1. t.id \in Nat /\ Shows(t.id) BY <1>3 DEF ToastInv, Shows
    <3> QED BY <1>3, <3>1 DEF ToastInv, Ticking
  <2> QED BY <2>1, <2>2 DEF TimerTakesItsOwn
<1> QED BY <1>1, <1>2, <1>3, PTL DEF ToastSpec

-----------------------------------------------------------------------------
(* The register                                                            *)

\* What is shown and what is on its way are lists of payments.
IsList(l) == DOMAIN l \subseteq Numbers /\ \A n \in DOMAIN l : l[n] \in Statuses

RegisterInv == RegisterTypeOK /\ IsList(fetch.list)

LEMMA RegisterInit_Inv == RegisterInit => RegisterInv
<1> SUFFICES ASSUME RegisterInit PROVE RegisterInv OBVIOUS
<1>1. PICK n \in 0..MaxPayments : booked \in [1..n -> Statuses] BY DEF RegisterInit
<1>2. n \in Nat /\ n <= MaxPayments /\ DOMAIN booked = 1..n BY <1>1, RegisterAssumption
<1>3. booked \in Seq(Statuses) /\ Len(booked) = n BY <1>1, <1>2
<1>4. IsList(booked) BY <1>1, <1>2, RegisterAssumption DEF IsList, Numbers
<1>5. IsList(NoList) BY DEF IsList, NoList
<1>6. /\ fetch.at \in {"idle", "failed"} /\ fetch.list = NoList /\ known \in {booked, NoList}
      /\ due = FALSE /\ onHistory \in BOOLEAN /\ replaced = FALSE /\ unanswered = {} /\ ownPaid = {}
      /\ filter = "ALL" /\ pageNo = 0 /\ sortDir = "desc"
  BY DEF RegisterInit
<1>7. IsList(known) /\ IsList(fetch.list) BY <1>4, <1>5, <1>6
<1> QED BY <1>2, <1>3, <1>6, <1>7 DEF RegisterInv, RegisterTypeOK, IsList

LEMMA RegisterStep_Inv ==
  ASSUME RegisterInv, [RegisterNext]_registerVars
  PROVE  RegisterInv'
<1> USE DEF RegisterInv, RegisterTypeOK, viewVars, engineSide
\* Another payment.
<1>0. ASSUME Len(booked) < MaxPayments, booked' = Append(booked, "SUCCESS")
      PROVE  /\ booked' \in Seq(Statuses) /\ Len(booked') <= MaxPayments
             /\ DOMAIN booked \subseteq DOMAIN booked' /\ Len(booked) + 1 \in DOMAIN booked'
  <2>1. booked \in Seq(Statuses) /\ "SUCCESS" \in Statuses /\ MaxPayments \in Nat
    BY RegisterAssumption DEF Statuses
  <2> HIDE DEF RegisterInv, RegisterTypeOK
  <2>2. booked' \in Seq(Statuses) /\ Len(booked') = Len(booked) + 1 BY <1>0, <2>1
  <2>3. Len(booked) \in Nat /\ DOMAIN booked = 1..Len(booked) /\ DOMAIN booked' = 1..Len(booked) + 1
    BY <2>1, <2>2
  <2> QED BY <1>0, <2>1, <2>2, <2>3
<1>1. CASE Book BY <1>0, <1>1 DEF Book
<1>2. ASSUME NEW n \in Numbers, Undo(n) PROVE RegisterInv'
  <2>1. booked \in Seq(Statuses) /\ "REVERSED" \in Statuses /\ n \in DOMAIN booked
        /\ booked' = [booked EXCEPT ![n] = "REVERSED"]
    BY <1>2 DEF Undo, Statuses
  <2>2. booked' \in Seq(Statuses) /\ Len(booked') = Len(booked) /\ DOMAIN booked' = DOMAIN booked
    BY <2>1
  <2> QED BY <1>2, <2>2 DEF Undo
<1>3. CASE ListServed
  <2>1. \/ \E S \in SUBSET DOMAIN booked : fetch' = [at |-> "sent", list |-> [n \in S |-> booked[n]]]
        \/ fetch' = [at |-> "failed", list |-> NoList]
    BY <1>3 DEF ListServed, Fetch
  <2>2. IsList(NoList) BY DEF IsList, NoList
  <2>3. ASSUME NEW S \in SUBSET DOMAIN booked PROVE IsList([n \in S |-> booked[n]])
    <3>1. Len(booked) \in Nat /\ DOMAIN booked = 1..Len(booked) /\ Len(booked) <= MaxPayments
          /\ \A n \in DOMAIN booked : booked[n] \in Statuses
      OBVIOUS
    <3>2. DOMAIN booked \subseteq Numbers BY <3>1, RegisterAssumption DEF Numbers
    <3> QED BY <3>1, <3>2 DEF IsList
  <2>4. fetch'.at \in {"sent", "failed"} /\ IsList(fetch'.list) BY <2>1, <2>2, <2>3
  <2> QED BY <1>3, <2>4 DEF ListServed, IsList
<1>4. IsList(NoList) BY DEF IsList, NoList
<1>5. CASE ListArrives
  <2>1. known' = fetch.list /\ fetch' = [at |-> "idle", list |-> NoList] /\ UNCHANGED <<engineSide, due, viewVars>>
    BY <1>5 DEF ListArrives, Fetch
  <2>2. fetch'.at = "idle" /\ fetch'.list = NoList BY <2>1
  <2> QED BY <1>4, <2>1, <2>2 DEF IsList
<1>6. CASE FetchEffect
  <2>1. fetch' = [at |-> "asked", list |-> NoList] /\ due' = FALSE /\ UNCHANGED <<engineSide, known, viewVars>>
    BY <1>6 DEF FetchEffect, Fetch
  <2>2. fetch'.at = "asked" /\ fetch'.list = NoList BY <2>1
  <2> QED BY <1>4, <2>1, <2>2 DEF IsList
<1>7. CASE RetryList BY <1>7 DEF RetryList, IsList
<1>8. CASE PayHere
  <2>1. unanswered' \cup ownPaid' \subseteq DOMAIN booked' BY <1>0, <1>8 DEF PayHere
  <2> QED BY <1>0, <1>8, <2>1 DEF PayHere, IsList
<1>9. CASE Replace BY <1>9 DEF Replace, IsList
<1>10. CASE TurnPage
  <2>1. onHistory /\ pageNo' \in Nat
    <3>1. pageNo \in Nat OBVIOUS
    <3> HIDE DEF RegisterInv, RegisterTypeOK
    <3> QED BY <1>10, <3>1 DEF TurnPage, TableShown
  <2> QED BY <1>10, <2>1 DEF TurnPage, IsList
<1>11. ASSUME NEW f \in Statuses \cup {"ALL"}, ChooseFilter(f) PROVE RegisterInv'
  BY <1>11 DEF ChooseFilter, IsList
<1>12. CASE ToggleSort
  <2>1. sortDir' \in {"asc", "desc"} BY <1>12 DEF ToggleSort
  <2> QED BY <1>12, <2>1 DEF ToggleSort, IsList
<1>13. ASSUME NEW n \in Numbers, PaymentAnswered(n) \/ AnswerLost(n) PROVE RegisterInv'
  <2>1. unanswered' \cup ownPaid' \subseteq DOMAIN booked /\ due' \in BOOLEAN
    BY <1>13 DEF PaymentAnswered, AnswerLost
  <2> QED BY <1>13, <2>1 DEF PaymentAnswered, AnswerLost, IsList
<1>14. CASE UNCHANGED registerVars BY <1>14 DEF registerVars, IsList
<1> QED
  BY <1>1, <1>2, <1>3, <1>5, <1>6, <1>7, <1>8, <1>9, <1>10, <1>11, <1>12, <1>13, <1>14 DEF RegisterNext

\* The register and its view keep their types, and a page that is not History
\* keeps its view.
THEOREM RegisterTyped == RegisterSpec => []RegisterTypeOK
<1>1. RegisterInv /\ [RegisterNext]_registerVars => RegisterInv' BY RegisterStep_Inv
<1>2. RegisterInv => RegisterTypeOK BY DEF RegisterInv
<1> QED BY RegisterInit_Inv, <1>1, <1>2, PTL DEF RegisterSpec

-----------------------------------------------------------------------------
(* The pages of the register                                               *)

LEMMA MultipleBelow ==
  ASSUME NEW a \in Nat, NEW k \in Nat \ {0}
  PROVE  /\ a \div k \in Nat
         /\ (a \div k) * k <= a /\ a < (a \div k) * k + k
<1> DEFINE q == a \div k
<1> DEFINE m == a % k
<1>1. q \in Nat /\ m \in 0..(k - 1) /\ a = k * q + m OBVIOUS
<1> HIDE DEF q, m
<1>2. q \in Nat /\ q * k <= a /\ a < q * k + k BY <1>1
<1> QED BY <1>2 DEF q

\* Multiples of k keep their order.
LEMMA MultiplesOrdered ==
  ASSUME NEW p \in Nat, NEW q \in Nat, NEW k \in Nat, p < q
  PROVE  p * k + k <= q * k
<1>1. (p + 1) * k <= q * k OBVIOUS
<1>2. (p + 1) * k = p * k + k OBVIOUS
<1> QED BY <1>1, <1>2

LEMMA FilteredType ==
  ASSUME RegisterTypeOK
  PROVE  /\ IsFiniteSet(Filtered) /\ Cardinality(Filtered) \in Nat
         /\ Filtered \subseteq Numbers
         /\ Cardinality(Filtered) = 0 <=> Filtered = {}
<1>1. Filtered \subseteq Numbers BY DEF Filtered, RegisterTypeOK
<1>2. IsFiniteSet(Numbers) BY FS_Interval, RegisterAssumption DEF Numbers
<1>3. IsFiniteSet(Filtered) BY <1>1, <1>2, FS_Subset
<1> QED BY <1>1, <1>3, FS_CardinalityType, FS_EmptySet

\* The pages are as many as hold all the records that pass the filter.
LEMMA PagesHold ==
  ASSUME RegisterTypeOK
  PROVE  Pages \in Nat \ {0} /\ Cardinality(Filtered) <= Pages * PageSize
<1> DEFINE c == Cardinality(Filtered)
<1>1. c \in Nat /\ (c = 0 <=> Filtered = {}) /\ PageSize \in Nat \ {0}
  BY FilteredType, RegisterAssumption
<1>2. CASE Filtered = {} BY <1>1, <1>2 DEF Pages
<1>3. CASE Filtered # {}
  <2>1. Pages = (c + PageSize - 1) \div PageSize BY <1>3 DEF Pages
  <2> HIDE DEF c
  <2>2. c + PageSize - 1 \in Nat /\ c >= 1 BY <1>1, <1>3
  <2>3. Pages \in Nat /\ c + PageSize - 1 < Pages * PageSize + PageSize
    BY <1>1, <2>1, <2>2, MultipleBelow
  <2>4. Pages * PageSize \in Nat BY <1>1, <2>3
  <2>5. c <= Pages * PageSize BY <1>1, <2>3, <2>4
  <2>6. Pages # 0 BY <1>1, <2>2, <2>5
  <2> QED BY <2>3, <2>5, <2>6 DEF c
<1> QED BY <1>2, <1>3

-----------------------------------------------------------------------------
(* The order of the register                                               *)

Before(n) == {m \in Filtered : Precedes(m, n)}

\* The sort orders any two records, one way.
LEMMA SortIsTotal ==
  ASSUME RegisterTypeOK, NEW l \in Filtered, NEW m \in Filtered, NEW n \in Filtered
  PROVE  /\ ~Precedes(n, n)
         /\ m # n => Precedes(m, n) \/ Precedes(n, m)
         /\ Precedes(l, m) /\ Precedes(m, n) => Precedes(l, n)
<1> DEFINE key(i) == Stamp[i]
<1>1. l \in Int /\ m \in Int /\ n \in Int BY FilteredType, RegisterAssumption DEF Numbers
<1>2. key(l) \in Int /\ key(m) \in Int /\ key(n) \in Int
  BY <1>1, FilteredType, RegisterAssumption
<1>3. \A i, j : Precedes(i, j) <=>
        IF key(i) = key(j) THEN i > j ELSE IF sortDir = "asc" THEN key(i) < key(j) ELSE key(i) > key(j)
  BY DEF Precedes
<1> HIDE DEF key
<1> QED BY <1>1, <1>2, <1>3

\* Every place is that of one record.
LEMMA PlacesAreTaken ==
  ASSUME RegisterTypeOK
  PROVE  /\ \A n \in Filtered : Place(n) \in 1..Cardinality(Filtered)
         /\ \A m, n \in Filtered : Place(m) = Place(n) => m = n
         /\ \A i \in 1..Cardinality(Filtered) : \E n \in Filtered : Place(n) = i
<1> DEFINE c == Cardinality(Filtered)
<1>1. IsFiniteSet(Filtered) /\ c \in Nat BY FilteredType
<1>2. ASSUME NEW n \in Filtered
      PROVE  /\ IsFiniteSet(Before(n)) /\ Cardinality(Before(n)) \in Nat
             /\ Cardinality(Before(n)) < c
  <2>1. Before(n) \subseteq Filtered /\ n \notin Before(n) BY SortIsTotal DEF Before
  <2>2. IsFiniteSet(Before(n)) /\ Cardinality(Before(n)) <= c /\ Cardinality(Before(n)) # c
    BY <1>1, <2>1, FS_Subset
  <2>3. Cardinality(Before(n)) \in Nat BY <2>2, FS_CardinalityType
  <2> HIDE DEF c
  <2> QED BY <1>1, <2>2, <2>3
<1>3. \A n \in Filtered : Place(n) = Cardinality(Before(n)) + 1 BY DEF Place, Before
<1>4. \A n \in Filtered : Place(n) \in 1..c
  <2> HIDE DEF c
  <2> QED BY <1>1, <1>2, <1>3
<1>5. ASSUME NEW m \in Filtered, NEW n \in Filtered, Precedes(m, n) PROVE Place(m) < Place(n)
  <2>1. Before(m) \subseteq Before(n) BY <1>5, SortIsTotal DEF Before
  <2>2. m \in Before(n) /\ m \notin Before(m) BY <1>5, SortIsTotal DEF Before
  <2>3. /\ Cardinality(Before(m)) <= Cardinality(Before(n))
        /\ Cardinality(Before(m)) # Cardinality(Before(n))
    BY <1>2, <2>1, <2>2, FS_Subset
  <2> QED BY <1>2, <1>3, <2>3
<1>6. \A m, n \in Filtered : Place(m) = Place(n) => m = n
  <2> TAKE m, n \in Filtered
  <2>1. Place(m) \in Int /\ Place(n) \in Int BY <1>4
  <2> QED BY <1>5, <2>1, SortIsTotal
<1>7. \A i \in 1..c : \E n \in Filtered : Place(n) = i
  <2> DEFINE f == [n \in Filtered |-> Place(n)]
  <2>1. f \in Injection(Filtered, 1..c) BY <1>4, <1>6 DEF Injection, IsInjective
  <2>2. IsFiniteSet(1..c) /\ Cardinality(1..c) = c
    <3> HIDE DEF c
    <3> QED BY <1>1, FS_Interval
  <2>3. f \in Surjection(Filtered, 1..c) BY <2>1, <2>2, FS_Injection
  <2> QED BY <2>3 DEF Surjection
<1> QED BY <1>4, <1>6, <1>7

LEMMA ArrangedAt ==
  ASSUME RegisterTypeOK
  PROVE  /\ Arranged \in Seq(Filtered) /\ Len(Arranged) = Cardinality(Filtered)
         /\ \A n \in Filtered : \A i \in 1..Cardinality(Filtered) : Arranged[i] = n <=> i = Place(n)
<1> DEFINE c == Cardinality(Filtered)
<1>1. c \in Nat BY FilteredType
<1>2. \A i \in 1..c : Arranged[i] \in Filtered /\ Place(Arranged[i]) = i
  BY PlacesAreTaken DEF Arranged
<1>3. Arranged \in [1..c -> Filtered] BY <1>2 DEF Arranged
<1>4. Arranged \in Seq(Filtered) /\ Len(Arranged) = c
  <2> HIDE DEF c
  <2> QED BY <1>1, <1>3
<1> QED BY <1>2, <1>4, PlacesAreTaken

-----------------------------------------------------------------------------
(* A record and its page                                                   *)

LEMMA PartOf ==
  ASSUME NEW S, NEW s \in Seq(S), NEW a \in Nat \ {0}, NEW b \in Nat, b <= Len(s)
  PROVE  SubSeq(s, a, b) = [i \in 1..(1 + b - a) |-> s[i + a - 1]]
OBVIOUS

\* A page shows the records of its places.
LEMMA OnItsPage ==
  ASSUME RegisterTypeOK, NEW n \in Filtered, NEW p \in Nat
  PROVE  (\E i \in DOMAIN PageRows(p) : PageRows(p)[i] = n)
           <=> p * PageSize < Place(n) /\ Place(n) <= p * PageSize + PageSize
<1> DEFINE a == p * PageSize + 1
<1> DEFINE end == (p + 1) * PageSize
<1> DEFINE c == Cardinality(Filtered)
<1> DEFINE b == IF end < c THEN end ELSE c
<1>1. PageSize \in Nat \ {0} /\ c \in Nat BY FilteredType, RegisterAssumption
<1>2. p * PageSize \in Nat /\ end = p * PageSize + PageSize BY <1>1
<1>3. PageRows(p) = SubSeq(Arranged, a, b) BY ArrangedAt DEF PageRows
<1> HIDE DEF end, c
<1>4. a \in Nat \ {0} /\ b \in Nat /\ b <= c BY <1>1, <1>2
<1>5. Arranged \in Seq(Filtered) /\ Len(Arranged) = c BY ArrangedAt DEF c
<1>6. (\E i \in DOMAIN PageRows(p) : PageRows(p)[i] = n) <=> \E j \in a..b : Arranged[j] = n
  <2> DEFINE part == PageRows(p)
  <2>1. b <= Len(Arranged) BY <1>4, <1>5
  <2>2. part = [i \in 1..(1 + b - a) |-> Arranged[i + a - 1]]
    <3> HIDE DEF a, b
    <3> QED BY <1>3, <1>4, <1>5, <2>1, PartOf
  <2> HIDE DEF part, a, b
  <2>3. DOMAIN part = 1..(1 + b - a) /\ \A i \in 1..(1 + b - a) : part[i] = Arranged[i + a - 1] BY <2>2
  <2>4. ASSUME NEW i \in DOMAIN part, part[i] = n PROVE \E j \in a..b : Arranged[j] = n
    <3>1. i + a - 1 \in a..b BY <1>4, <2>3
    <3> QED BY <2>3, <2>4, <3>1
  <2>5. ASSUME NEW j \in a..b, Arranged[j] = n PROVE \E i \in DOMAIN part : part[i] = n
    <3>1. j - a + 1 \in 1..(1 + b - a) /\ (j - a + 1) + a - 1 = j BY <1>4
    <3> QED BY <2>3, <2>5, <3>1
  <2> QED BY <2>4, <2>5 DEF part
<1>7. \A j \in a..b : j \in 1..c BY <1>1, <1>4
<1>8. (\E j \in a..b : Arranged[j] = n) <=> Place(n) \in a..b
  <2>1. \A j \in 1..c : Arranged[j] = n <=> j = Place(n) BY ArrangedAt DEF c
  <2> HIDE DEF a, b
  <2> QED BY <1>7, <2>1
<1>9. Place(n) \in 1..c BY PlacesAreTaken DEF c
<1>10. Place(n) \in a..b <=> p * PageSize < Place(n) /\ Place(n) <= end BY <1>1, <1>2, <1>9
<1> QED BY <1>2, <1>6, <1>8, <1>10

LEMMA OneItsPage ==
  ASSUME RegisterTypeOK, NEW n \in Filtered
  PROVE  Cardinality({p \in 0..Pages - 1 : \E i \in DOMAIN PageRows(p) : PageRows(p)[i] = n}) = 1
<1> DEFINE k == PageSize
<1> DEFINE c == Cardinality(Filtered)
<1> DEFINE q == (Place(n) - 1) \div k
<1>1. k \in Nat \ {0} /\ c \in Nat /\ Pages \in Nat \ {0} /\ c <= Pages * k
  BY FilteredType, PagesHold, RegisterAssumption
<1>2. Place(n) \in 1..c BY PlacesAreTaken
<1> HIDE DEF k, c
<1>3. Place(n) - 1 \in Nat BY <1>1, <1>2
<1>4. q \in Nat /\ q * k <= Place(n) - 1 /\ Place(n) - 1 < q * k + k BY <1>1, <1>3, MultipleBelow
<1> HIDE DEF q
<1>5. q * k \in Nat /\ Pages * k \in Nat BY <1>1, <1>4
<1>6. q * k < Place(n) /\ Place(n) <= q * k + k /\ q * k < Pages * k BY <1>1, <1>2, <1>3, <1>4, <1>5
<1>7. q \in 0..Pages - 1
  <2>1. ASSUME Pages <= q PROVE FALSE
    <3>1. Pages * k <= q * k
      <4>1. CASE Pages = q BY <1>5, <4>1
      <4>2. CASE Pages < q
        <5>1. Pages * k + k <= q * k BY <1>1, <1>4, <4>2, MultiplesOrdered
        <5> QED BY <1>1, <1>5, <5>1
      <4> QED BY <1>1, <1>4, <2>1, <4>1, <4>2
    <3> QED BY <1>5, <1>6, <3>1
  <2> QED BY <1>1, <1>4, <2>1
<1>8. ASSUME NEW p \in 0..Pages - 1, p * k < Place(n), Place(n) <= p * k + k PROVE p = q
  <2>1. p \in Nat BY <1>1
  <2>2. p * k \in Nat BY <1>1, <2>1
  <2>3. ~(p < q)
    <3>1. ASSUME p < q PROVE FALSE
      <4>1. p * k + k <= q * k BY <1>1, <1>4, <2>1, <3>1, MultiplesOrdered
      <4> QED BY <1>1, <1>2, <1>5, <1>6, <1>8, <2>2, <4>1
    <3> QED BY <3>1
  <2>4. ~(q < p)
    <3>1. ASSUME q < p PROVE FALSE
      <4>1. q * k + k <= p * k BY <1>1, <1>4, <2>1, <3>1, MultiplesOrdered
      <4> QED BY <1>1, <1>2, <1>5, <1>6, <1>8, <2>2, <4>1
    <3> QED BY <3>1
  <2> QED BY <1>4, <2>1, <2>3, <2>4
<1>9. \A p \in 0..Pages - 1 : (\E i \in DOMAIN PageRows(p) : PageRows(p)[i] = n) <=> p = q
  <2> TAKE p \in 0..Pages - 1
  <2>1. p \in Nat BY <1>1
  <2>2. (\E i \in DOMAIN PageRows(p) : PageRows(p)[i] = n) <=> p * k < Place(n) /\ Place(n) <= p * k + k
    BY <2>1, OnItsPage DEF k
  <2> QED BY <1>6, <1>8, <2>2
<1>10. {p \in 0..Pages - 1 : \E i \in DOMAIN PageRows(p) : PageRows(p)[i] = n} = {q} BY <1>7, <1>9, Zenon
<1> QED BY <1>10, FS_Singleton

-----------------------------------------------------------------------------
(* The page that is open                                                   *)

\* On the history page the register is fetched while the first page is open, as
\* long as the trader stays.
FirstPageWhileFetched ==
  /\ onHistory => unanswered = {}
  /\ onHistory /\ ~replaced => (due => fetch.at = "failed") /\ (fetch.at # "idle" => pageNo = 0)

PagesOK == RegisterTypeOK /\ Pages \in Nat \ {0}

ViewInv == FirstPageWhileFetched /\ (pageNo < Pages \/ replaced)

LEMMA ViewInit_Inv == RegisterInit /\ PagesOK => ViewInv
<1> SUFFICES ASSUME RegisterInit, PagesOK PROVE ViewInv OBVIOUS
<1>1. pageNo = 0 /\ due = FALSE /\ unanswered = {} BY DEF RegisterInit
<1>2. pageNo < Pages BY <1>1 DEF PagesOK
<1> QED BY <1>1, <1>2 DEF ViewInv, FirstPageWhileFetched

LEMMA ViewStep_Inv ==
  ASSUME ViewInv, PagesOK, PagesOK', [RegisterNext]_registerVars
  PROVE  ViewInv'
<1> USE DEF ViewInv, FirstPageWhileFetched, viewVars, engineSide
<1>1. Pages \in Nat \ {0} /\ Pages' \in Nat \ {0} /\ pageNo \in Nat /\ (~onHistory => pageNo = 0)
  BY DEF PagesOK, RegisterTypeOK
<1>2. known' = known /\ filter' = filter => Pages' = Pages BY DEF Pages, Filtered
<1>3. pageNo' = 0 => pageNo' < Pages' BY <1>1
<1>4. CASE Book BY <1>2, <1>4 DEF Book
<1>5. ASSUME NEW n \in Numbers, Undo(n) PROVE ViewInv' BY <1>2, <1>5 DEF Undo
<1>6. CASE ListServed
  <2>1. fetch'.at \in {"sent", "failed"} BY <1>6 DEF ListServed, Fetch
  <2> QED BY <1>2, <1>6, <2>1 DEF ListServed
<1>7. CASE ListArrives
  <2>1. fetch.at = "sent" /\ fetch'.at = "idle" /\ UNCHANGED <<engineSide, due, viewVars>>
    BY <1>7 DEF ListArrives, Fetch
  <2>2. replaced \/ pageNo = 0 BY <1>1, <2>1
  <2> QED BY <1>3, <2>1, <2>2
<1>8. CASE FetchEffect
  <2>1. due' = FALSE /\ fetch'.at = "asked" /\ UNCHANGED <<engineSide, known, viewVars>>
    BY <1>8 DEF FetchEffect, Fetch
  <2> QED BY <1>2, <1>8, <2>1 DEF FetchEffect
<1>9. CASE RetryList BY <1>2, <1>9 DEF RetryList
<1>10. CASE PayHere BY <1>2, <1>10 DEF PayHere
<1>11. CASE Replace BY <1>2, <1>11 DEF Replace
<1>12. CASE TurnPage
  <2>1. pageNo' < Pages \/ replaced BY <1>1, <1>12 DEF TurnPage
  <2> QED BY <1>2, <1>12, <2>1 DEF TurnPage, TableShown
<1>13. ASSUME NEW f \in Statuses \cup {"ALL"}, ChooseFilter(f) PROVE ViewInv'
  BY <1>3, <1>13 DEF ChooseFilter
<1>14. CASE ToggleSort BY <1>2, <1>14 DEF ToggleSort
<1>15. ASSUME NEW n \in Numbers, PaymentAnswered(n) \/ AnswerLost(n) PROVE ViewInv'
  <2>1. ~onHistory BY <1>15 DEF PaymentAnswered, AnswerLost
  <2> QED BY <1>2, <1>15, <2>1 DEF PaymentAnswered, AnswerLost
<1>16. CASE UNCHANGED registerVars BY <1>2, <1>16 DEF registerVars
<1> QED
  BY <1>4, <1>5, <1>6, <1>7, <1>8, <1>9, <1>10, <1>11, <1>12, <1>13, <1>14, <1>15, <1>16 DEF RegisterNext

\* Whatever is filtered, sorted and turned, every record of the filter is on one
\* page of those offered, and the page that is open is offered, for any register
\* and any page size.
THEOREM EachOnOnePage == RegisterSpec => []EveryRecordOnOnePage
<1>1. RegisterInv => PagesOK BY PagesHold DEF RegisterInv, PagesOK
<1>2. RegisterInv /\ [RegisterNext]_registerVars => RegisterInv' BY RegisterStep_Inv
<1>3. ViewInv /\ PagesOK /\ PagesOK' /\ [RegisterNext]_registerVars => ViewInv' BY ViewStep_Inv
<1>4. PagesOK /\ ViewInv => EveryRecordOnOnePage
  BY OneItsPage DEF PagesOK, ViewInv, EveryRecordOnOnePage
<1> QED
  BY RegisterInit_Inv, ViewInit_Inv, <1>1, <1>2, <1>3, <1>4, PTL DEF RegisterSpec

-----------------------------------------------------------------------------
(* Issuing an invoice                                                      *)

USE InvoiceDeskAssumption

SumsShown == {SumOf(ls) : ls \in Seq(Line \cup {EmptyLine})} \cup {0}

PressType ==
  [at : {"idle", "sent", "ok", "failed", "reported", "over"},
   number : InvoiceNumbers \cup {Blank}, to : Partners \cup {Blank}, items : Items \cup {<<>>},
   total : SumsShown, blank : BOOLEAN]

\* A submission has the number and the partner that the form asks for, and asks
\* for what its issuer saw, unless a line was left out.
Submitted(p) ==
  /\ press[p].number # Blank /\ press[p].to \in Partners /\ press[p].items \in Items
  /\ SumOf(press[p].items) = press[p].total \/ press[p].blank
PressInv ==
  /\ press \in [Presses -> PressType]
  /\ \A p \in Presses : press[p].at # "idle" => Submitted(p)
  /\ \A p \in Presses : press[p].at \in {"ok", "reported"} => Recorded(p) \in invoices

\* An invoice is made of its submission, which does not change any more.
InvoicesInv ==
  \A i \in invoices : i.by \in Presses /\ press[i.by].at # "idle" /\ i = Recorded(i.by)
ToldInv ==
  /\ noteBusy # "none" => told = noteBusy
  /\ issued => told \in Presses /\ press[told].at = "reported"

InvoiceInv == DeskTypeOK /\ PressInv /\ InvoicesInv /\ ToldInv

LEMMA PartOfSeq ==
  ASSUME NEW S, NEW s \in Seq(S), NEW m \in Nat \ {0}, NEW n \in Nat, n <= Len(s), m <= n + 1
  PROVE  SubSeq(s, m, n) \in Seq(S) /\ Len(SubSeq(s, m, n)) = n - m + 1
<1>1. SubSeq(s, m, n) \in Seq(S) OBVIOUS
<1>2. Len(SubSeq(s, m, n)) = n - m + 1 OBVIOUS
<1> QED BY <1>1, <1>2

LEMMA OneShorter ==
  ASSUME NEW S, NEW s \in Seq(S), NEW i \in DOMAIN s
  PROVE  Seqs!RemoveAt(s, i) \in Seq(S) /\ Len(Seqs!RemoveAt(s, i)) = Len(s) - 1
<1> DEFINE front == SubSeq(s, 1, i - 1)
           rest  == SubSeq(s, i + 1, Len(s))
<1>1. /\ Len(s) \in Nat /\ i \in Nat /\ i - 1 \in Nat /\ i + 1 \in Nat \ {0}
      /\ i - 1 <= Len(s) /\ i + 1 <= Len(s) + 1
  OBVIOUS
<1>2. front \in Seq(S) /\ Len(front) = i - 1 - 1 + 1 BY <1>1, PartOfSeq
<1>3. rest \in Seq(S) /\ Len(rest) = Len(s) - (i + 1) + 1 BY <1>1, PartOfSeq
<1>4. Seqs!RemoveAt(s, i) = front \o rest BY DEF Seqs!RemoveAt
<1> HIDE DEF front, rest
<1>5. front \o rest \in Seq(S) /\ Len(front \o rest) = Len(front) + Len(rest)
  BY <1>2, <1>3
<1>6. Len(front) = i - 1 - 1 + 1 /\ Len(rest) = Len(s) - (i + 1) + 1 /\ Len(s) \in Nat /\ i \in Nat
  BY <1>1, <1>2, <1>3
<1>7. Len(front) + Len(rest) = Len(s) - 1 BY <1>6
<1> QED BY <1>4, <1>5, <1>7, Zenon

\* The first line of an empty form.
LEMMA NewLines == <<EmptyLine>> \in Seq(Line \cup {EmptyLine}) /\ Len(<<EmptyLine>>) \in 1..MaxLines
<1>1. EmptyLine \in Line \cup {EmptyLine} OBVIOUS
<1>2. 1 \in 1..MaxLines OBVIOUS
<1> HIDE DEF EmptyLine
<1>3. Len(<<EmptyLine>>) = 1 /\ <<EmptyLine>> \in Seq(Line \cup {EmptyLine}) BY <1>1
<1> QED BY <1>2, <1>3

\* The invoice has the described lines, and all of them when none is left out.
LEMMA DescribedLines ==
  ASSUME NEW ls \in Seq(Line \cup {EmptyLine}), Len(ls) \in 1..MaxLines
  PROVE  /\ Described(ls) \in Items
         /\ (\A i \in DOMAIN ls : ls[i].described) => Described(ls) = ls
<1> DEFINE places == {i \in DOMAIN ls : ls[i].described}
<1>1. places \subseteq 1..MaxLines
  <2>1. DOMAIN ls = 1..Len(ls) /\ Len(ls) \in Nat /\ Len(ls) <= MaxLines OBVIOUS
  <2>2. MaxLines \in Nat OBVIOUS
  <2> QED BY <2>1, <2>2
<1>2. \A i \in places : ls[i] \in Line BY DEF EmptyLine
<1>3. Described(ls) = [i \in places |-> ls[i]] BY DEF Described, Seqs!Restrict
<1>4. Described(ls) \in [places -> Line] BY <1>2, <1>3
<1>5. Described(ls) \in Items BY <1>1, <1>4 DEF Items
<1>6. ASSUME \A i \in DOMAIN ls : ls[i].described PROVE Described(ls) = ls
  <2>1. places = DOMAIN ls BY <1>6
  <2>2. ls = [i \in DOMAIN ls |-> ls[i]] OBVIOUS
  <2> QED BY <1>3, <2>1, <2>2
<1> QED BY <1>5, <1>6

\* A press goes on, or an invoice is created: what has been submitted stays.
LEMMA ReplyStep ==
  ASSUME InvoiceInv, NEW p \in Presses, press[p].at # "idle",
         NEW s \in {"ok", "failed", "reported", "over"}, Reply(p, s),
         s \in {"ok", "reported"} => Recorded(p) \in invoices',
         invoices' \in {invoices, invoices \cup {Recorded(p)}}
  PROVE  /\ PressInv' /\ InvoicesInv'
         /\ \A q \in Presses : q # p => press'[q] = press[q]
         /\ press'[p].at = s
<1>1. press' = [press EXCEPT ![p] = [press[p] EXCEPT !.at = s]] BY DEF Reply
<1>2. press[p] \in PressType BY DEF InvoiceInv, PressInv
<1>3. [press[p] EXCEPT !.at = s] \in PressType BY <1>2 DEF PressType
<1>4. press' \in [Presses -> PressType] BY <1>1, <1>3 DEF InvoiceInv, PressInv
<1>5. /\ press'[p] = [press[p] EXCEPT !.at = s]
      /\ \A q \in Presses : q # p => press'[q] = press[q]
  BY <1>1 DEF InvoiceInv, PressInv
<1>6. /\ press'[p].at = s /\ press'[p].number = press[p].number /\ press'[p].to = press[p].to
      /\ press'[p].items = press[p].items /\ press'[p].total = press[p].total
      /\ press'[p].blank = press[p].blank
  BY <1>2, <1>5 DEF PressType
<1>7. \A q \in Presses : Recorded(q)' = Recorded(q) BY <1>5, <1>6 DEF Recorded
<1>8. \A q \in Presses : press'[q].at # "idle" => Submitted(q)'
  <2>1. Submitted(p)' BY <1>6 DEF InvoiceInv, PressInv, Submitted
  <2>2. ASSUME NEW q \in Presses, q # p, press'[q].at # "idle" PROVE Submitted(q)'
    BY <1>5, <2>2 DEF InvoiceInv, PressInv, Submitted
  <2> QED BY <2>1, <2>2
<1>9. \A q \in Presses : press'[q].at \in {"ok", "reported"} => Recorded(q)' \in invoices'
  BY <1>5, <1>6, <1>7 DEF InvoiceInv, PressInv
<1>10. PressInv' BY <1>4, <1>8, <1>9 DEF PressInv
<1>11. InvoicesInv'
  <2> SUFFICES ASSUME NEW i \in invoices'
               PROVE  i.by \in Presses /\ press'[i.by].at # "idle" /\ i = Recorded(i.by)'
    BY DEF InvoicesInv
  <2>1. CASE i \in invoices BY <1>5, <1>6, <1>7, <2>1 DEF InvoiceInv, InvoicesInv
  <2>2. CASE i = Recorded(p)
    <3>1. i.by = p BY <2>2 DEF Recorded
    <3> QED BY <1>6, <1>7, <2>2, <3>1
  <2> QED BY <2>1, <2>2
<1> QED BY <1>5, <1>6, <1>10, <1>11

LEMMA DeskStep_Inv ==
  ASSUME InvoiceInv, [DeskNext]_deskVars
  PROVE  InvoiceInv'
<1> USE DEF fieldVars, pageVars
\* Steps of the fields and of the list.
<1>0. ASSUME UNCHANGED <<invoices, press, noteBusy, told>>, issued' = issued, DeskTypeOK'
      PROVE  InvoiceInv'
  BY <1>0 DEF InvoiceInv, PressInv, InvoicesInv, ToldInv, Submitted, Recorded
<1>1. CASE PartnersArrive
  <2>1. PICK S \in SUBSET Partners : partners' = S /\ billTo' = IF S = {} THEN billTo ELSE CHOOSE u \in S : TRUE
    BY <1>1 DEF PartnersArrive
  <2>2. S # {} => billTo' \in S BY <2>1
  <2> QED BY <1>0, <1>1, <2>1, <2>2 DEF PartnersArrive, InvoiceInv, DeskTypeOK
<1>2. CASE Edit
  <2>1. ASSUME NEW i \in DOMAIN lines, NEW l \in Line, lines' = [lines EXCEPT ![i] = l]
        PROVE  lines' \in Seq(Line \cup {EmptyLine}) /\ Len(lines') \in 1..MaxLines
    BY <2>1 DEF InvoiceInv, DeskTypeOK
  <2> QED BY <1>0, <1>2, <2>1 DEF Edit, InvoiceInv, DeskTypeOK
<1>3. CASE AddLine
  <2>1. lines' \in Seq(Line \cup {EmptyLine}) /\ Len(lines') \in 1..MaxLines
    BY <1>3 DEF AddLine, InvoiceInv, DeskTypeOK
  <2> QED BY <1>0, <1>3, <2>1 DEF AddLine, InvoiceInv, DeskTypeOK
<1>4. CASE InvoicesListed BY <1>0, <1>4 DEF InvoicesListed, InvoiceInv, DeskTypeOK
<1>5. CASE RefreshInvoices BY <1>0, <1>5 DEF RefreshInvoices, InvoiceInv, DeskTypeOK
<1>6. ASSUME NEW i \in 1..MaxLines, RemoveLine(i) PROVE InvoiceInv'
  <2>1. lines' = Seqs!RemoveAt(lines, i) /\ i \in DOMAIN lines /\ Len(lines) > 1
    BY <1>6 DEF RemoveLine
  <2>2. lines \in Seq(Line \cup {EmptyLine}) /\ Len(lines) \in 1..MaxLines
    BY DEF InvoiceInv, DeskTypeOK
  <2>3. lines' \in Seq(Line \cup {EmptyLine}) /\ Len(lines') = Len(lines) - 1
    BY <2>1, <2>2, OneShorter
  <2>4. Len(lines') \in 1..MaxLines BY <2>1, <2>2, <2>3
  <2> QED BY <1>0, <1>6, <2>3, <2>4 DEF RemoveLine, InvoiceInv, DeskTypeOK
<1>7. ASSUME NEW p \in Presses, SubmitInvoice(p) PROVE InvoiceInv'
  <2>0. /\ noteBusy = "none" /\ partners # {} /\ number # Blank /\ press[p].at = "idle" /\ p # "none"
        /\ UNCHANGED <<invoices, listed, listing, number, lines, billTo, partners, resolved>>
    BY <1>7 DEF SubmitInvoice, CanSubmit
  <2>1. CASE Described(lines) = <<>>
    <3>1. rejected' = TRUE /\ UNCHANGED <<noteBusy, issued, told, press>> BY <1>7, <2>1 DEF SubmitInvoice
    <3> QED BY <2>0, <3>1
         DEF InvoiceInv, DeskTypeOK, PressInv, InvoicesInv, ToldInv, Submitted, Recorded
  <2>2. CASE Described(lines) # <<>>
    <3> DEFINE new == [at |-> "sent", number |-> number, to |-> billTo, items |-> Described(lines),
                       total |-> SumOf(lines), blank |-> \E i \in DOMAIN lines : ~lines[i].described]
    <3>1. noteBusy' = p /\ rejected' = FALSE /\ issued' = FALSE /\ told' = p /\ press' = [press EXCEPT ![p] = new]
      BY <1>7, <2>2 DEF SubmitInvoice
    <3>2. /\ Described(lines) \in Items
          /\ (\A i \in DOMAIN lines : lines[i].described) => Described(lines) = lines
      BY DescribedLines DEF InvoiceInv, DeskTypeOK
    <3>3. SumOf(lines) \in SumsShown /\ billTo \in Partners /\ number \in InvoiceNumbers
      BY <2>0 DEF SumsShown, InvoiceInv, DeskTypeOK
    <3>4. new \in PressType BY <3>2, <3>3 DEF PressType
    <3>5. SumOf(new.items) = new.total \/ new.blank BY <3>2
    <3>6. /\ new.at = "sent" /\ new.number # Blank /\ new.to \in Partners /\ new.items \in Items
      BY <2>0, <3>2, <3>3
    <3> HIDE DEF new
    <3>7. /\ press' \in [Presses -> PressType] /\ press'[p] = new
          /\ \A q \in Presses : q # p => press'[q] = press[q]
      BY <3>1, <3>4 DEF InvoiceInv, PressInv
    <3>8. \A q \in Presses : q # p => Recorded(q)' = Recorded(q) BY <3>7 DEF Recorded
    <3>9. PressInv'
      <4>1. Submitted(p)' BY <3>5, <3>6, <3>7 DEF Submitted
      <4>2. ASSUME NEW q \in Presses, q # p, press'[q].at # "idle" PROVE Submitted(q)'
        BY <3>7, <4>2 DEF InvoiceInv, PressInv, Submitted
      <4>3. \A q \in Presses : press'[q].at \in {"ok", "reported"} => Recorded(q)' \in invoices'
        BY <2>0, <3>6, <3>7, <3>8 DEF InvoiceInv, PressInv
      <4> QED BY <3>7, <4>1, <4>2, <4>3 DEF PressInv
    <3>10. InvoicesInv'
      <4> SUFFICES ASSUME NEW i \in invoices'
                   PROVE  i.by \in Presses /\ press'[i.by].at # "idle" /\ i = Recorded(i.by)'
        BY DEF InvoicesInv
      <4>1. i.by \in Presses /\ press[i.by].at # "idle" /\ i = Recorded(i.by)
        BY <2>0 DEF InvoiceInv, InvoicesInv
      <4>2. i.by # p BY <2>0, <4>1
      <4> QED BY <3>7, <3>8, <4>1, <4>2
    <3>11. ToldInv' BY <3>1 DEF ToldInv
    <3>12. DeskTypeOK' BY <2>0, <3>1 DEF InvoiceInv, DeskTypeOK
    <3> QED BY <3>9, <3>10, <3>11, <3>12 DEF InvoiceInv
  <2> QED BY <2>1, <2>2
<1>8. ASSUME NEW p \in Presses, CreateInvoice(p) PROVE InvoiceInv'
  <2>0. press[p].at = "sent" /\ UNCHANGED <<listed, listing, number, lines, billTo, partners, resolved, noteBusy, rejected, issued, told>>
    BY <1>8 DEF CreateInvoice
  <2>1. PICK s \in {"ok", "failed"} :
          /\ Reply(p, s) /\ (s = "ok" => Recorded(p) \in invoices')
          /\ invoices' \in {invoices, invoices \cup {Recorded(p)}}
    BY <1>8 DEF CreateInvoice
  <2>2. /\ PressInv' /\ InvoicesInv'
        /\ \A q \in Presses : q # p => press'[q] = press[q]
        /\ press'[p].at = s
    BY <2>0, <2>1, ReplyStep
  <2>3. ToldInv' BY <2>0, <2>2 DEF InvoiceInv, ToldInv
  <2>4. Submitted(p) /\ press[p] \in PressType BY <2>0 DEF InvoiceInv, PressInv
  <2>5. /\ Recorded(p).number \in InvoiceNumbers /\ Recorded(p).to \in Partners
        /\ Recorded(p).items \in Items
    BY <2>4 DEF Submitted, Recorded, PressType
  <2>6. DeskTypeOK' BY <2>0, <2>1, <2>5 DEF InvoiceInv, DeskTypeOK
  <2> QED BY <2>2, <2>3, <2>6 DEF InvoiceInv
<1>9. ASSUME NEW p \in Presses, InvoiceAnswered(p) PROVE InvoiceInv'
  <2>0. /\ press[p].at \in {"ok", "failed"} /\ p # "none"
        /\ UNCHANGED <<invoices, listed, billTo, partners, resolved, told>>
    BY <1>9 DEF InvoiceAnswered
  <2>2. PICK s \in {"reported", "over"} : Reply(p, s) /\ (s = "reported" <=> press[p].at = "ok")
    BY <1>9, <2>0 DEF InvoiceAnswered, Reported
  <2>3. s = "reported" => Recorded(p) \in invoices' BY <2>0, <2>2 DEF InvoiceInv, PressInv
  <2>4. /\ PressInv' /\ InvoicesInv' /\ press'[p].at = s
    BY <2>0, <2>2, <2>3, ReplyStep
  <2>5. \/ /\ noteBusy = p /\ noteBusy' = "none"
           /\ \/ /\ s = "reported" /\ issued' = TRUE /\ number' = Blank /\ lines' = <<EmptyLine>>
                 /\ rejected' = rejected
              \/ rejected' = TRUE /\ UNCHANGED <<number, lines, issued>>
        \/ UNCHANGED <<number, lines, noteBusy, rejected, issued>>
    BY <1>9, <2>2 DEF InvoiceAnswered
  <2>6. ToldInv'
    <3>1. \A q \in Presses : q # p => press'[q] = press[q] BY <2>0, <2>2, <2>3, ReplyStep
    <3>2. issued => told \in Presses /\ press[told].at = "reported" /\ told # p
      BY <2>0 DEF InvoiceInv, ToldInv
    <3>3. noteBusy = p => told = p BY <2>0 DEF InvoiceInv, ToldInv
    <3>4. noteBusy' # "none" => told' = noteBusy' BY <2>0, <2>5 DEF InvoiceInv, ToldInv
    <3> QED BY <2>0, <2>4, <2>5, <3>1, <3>2, <3>3, <3>4 DEF ToldInv
  <2>8. DeskTypeOK' BY <2>0, <2>5, NewLines DEF InvoiceInv, DeskTypeOK
  <2> QED BY <2>4, <2>6, <2>8 DEF InvoiceInv
<1>10. CASE ReopenForm
  <2>1. DeskTypeOK' BY <1>10, NewLines DEF ReopenForm, InvoiceInv, DeskTypeOK
  <2> QED BY <1>10, <2>1 DEF ReopenForm, InvoiceInv, PressInv, InvoicesInv, ToldInv, Submitted, Recorded
<1>11. CASE UNCHANGED deskVars BY <1>0, <1>11 DEF deskVars, InvoiceInv, DeskTypeOK
<1> QED BY <1>1, <1>2, <1>3, <1>4, <1>5, <1>6, <1>7, <1>8, <1>9, <1>10, <1>11 DEF DeskNext

LEMMA DeskInit_Inv == DeskInit => InvoiceInv
<1> SUFFICES ASSUME DeskInit PROVE InvoiceInv OBVIOUS
<1>1. [at |-> "idle", number |-> Blank, to |-> Blank, items |-> <<>>, total |-> 0, blank |-> FALSE] \in PressType
  BY DEF PressType, SumsShown
<1>2. PressInv BY <1>1 DEF DeskInit, PressInv
<1>3. DeskTypeOK BY NewLines DEF DeskInit, DeskTypeOK
<1> QED BY <1>2, <1>3 DEF DeskInit, InvoiceInv, InvoicesInv, ToldInv

\* Whatever is edited, retried and answered late, "Invoice created" speaks of the
\* invoice that was submitted, and an invoice asks for the total its issuer saw,
\* but for lines left without a description (InvoiceForm.tsx submit).
THEOREM CreatedAsSubmitted == DeskSpec => [](DeskTypeOK /\ CreatedIsSubmitted)
<1>1. InvoiceInv /\ [DeskNext]_deskVars => InvoiceInv' BY DeskStep_Inv
<1>2. InvoiceInv => CreatedIsSubmitted
  <2> SUFFICES ASSUME InvoiceInv PROVE CreatedIsSubmitted OBVIOUS
  <2>1. ASSUME issued
        PROVE  \E i \in invoices : i.by = told /\ i.number = press[told].number /\ i.items = press[told].items
    <3>1. told \in Presses /\ Recorded(told) \in invoices
      BY <2>1 DEF InvoiceInv, ToldInv, PressInv
    <3> QED BY <3>1 DEF Recorded
  <2>2. ASSUME NEW i \in invoices PROVE SumOf(i.items) = press[i.by].total \/ press[i.by].blank
    <3>1. i.by \in Presses /\ press[i.by].at # "idle" /\ i = Recorded(i.by)
      BY DEF InvoiceInv, InvoicesInv
    <3>2. PICK p \in Presses : p = i.by /\ i = Recorded(p) BY <3>1
    <3>3. i.items = press[p].items BY <3>2 DEF Recorded
    <3>4. SumOf(press[i.by].items) = press[i.by].total \/ press[i.by].blank
      BY <3>1 DEF InvoiceInv, PressInv, Submitted
    <3> QED BY <3>2, <3>3, <3>4
  <2> QED BY <2>1, <2>2 DEF CreatedIsSubmitted
<1> QED BY DeskInit_Inv, <1>1, <1>2, PTL DEF DeskSpec, InvoiceInv

-----------------------------------------------------------------------------
(* The figures                                                             *)

\* What the engine lists of a payment here.
Settled == [status : {"SUCCESS", "REVERSED"}, day : Nat]

\* A register of d or of an earlier day.
RegisterOf(r, d) ==
  /\ r \in Seq(Settled) /\ Len(r) <= MaxSettled
  /\ \A n \in DOMAIN r : r[n].day <= d

\* The overview's figures are those of the register that it fetched last, on
\* the day on which it computed them.
FiguresInv ==
  /\ today \in Nat /\ statsDay \in Nat /\ statsDay <= today
  /\ RegisterOf(ledger, today) /\ RegisterOf(rows, statsDay)
  /\ stats = Overview(rows, statsDay)

\* A register of one day is one of any later day.
LEMMA LaterDay ==
  ASSUME NEW r, NEW d \in Nat, NEW e \in Nat, d <= e, RegisterOf(r, d)
  PROVE  RegisterOf(r, e)
<1>1. \A n \in DOMAIN r : r[n] \in Settled
  BY DEF RegisterOf
<1>2. \A n \in DOMAIN r : r[n].day \in Nat
  BY <1>1 DEF Settled
<1> QED
  BY <1>2 DEF RegisterOf

LEMMA FiguresStart == FiguresInit => FiguresInv
BY FiguresAssumption DEF FiguresInit, FiguresInv, RegisterOf

LEMMA FiguresStep == FiguresInv /\ [FiguresNext]_figuresVars => FiguresInv'
<1> SUFFICES ASSUME FiguresInv, [FiguresNext]_figuresVars PROVE FiguresInv'
  OBVIOUS
<1>1. CASE Settle
  <2> DEFINE e == [status |-> "SUCCESS", day |-> today]
  <2>1. e \in Settled /\ e.day = today
    BY DEF FiguresInv, Settled
  <2>2. ledger \in Seq(Settled) /\ ledger' = Append(ledger, e) /\ Len(ledger) < MaxSettled
    BY <1>1 DEF FiguresInv, RegisterOf, Settle
  <2> HIDE DEF e
  <2>3. /\ ledger' \in Seq(Settled) /\ Len(ledger') = Len(ledger) + 1
        /\ \A n \in DOMAIN ledger' : ledger'[n] = IF n = Len(ledger) + 1 THEN e ELSE ledger[n]
    BY <2>1, <2>2
  <2>4. \A n \in DOMAIN ledger' : n # Len(ledger) + 1 => n \in DOMAIN ledger
    BY <2>2, <2>3
  <2>5. RegisterOf(ledger', today)
    BY <2>1, <2>2, <2>3, <2>4, FiguresAssumption DEF FiguresInv, RegisterOf
  <2> QED
    BY <1>1, <2>5 DEF Settle, FiguresInv
<1>2. CASE Midnight
  <2>1. today' \in Nat /\ today <= today' /\ statsDay <= today'
    BY <1>2 DEF Midnight, FiguresInv
  <2>2. RegisterOf(ledger, today')
    BY <2>1, LaterDay DEF FiguresInv
  <2> QED
    BY <1>2, <2>1, <2>2 DEF Midnight, FiguresInv
<1>3. CASE Fetched
  BY <1>3 DEF Fetched, FiguresInv
<1>4. CASE BalancesFetched
  <2>1. RegisterOf(rows, today)
    BY LaterDay DEF FiguresInv
  <2> QED
    BY <1>4, <2>1 DEF BalancesFetched, FiguresInv
<1>5. ASSUME NEW n \in Bookings, Undone(n) PROVE FiguresInv'
  <2>1. /\ ledger \in Seq(Settled) /\ n \in DOMAIN ledger
        /\ ledger' = [ledger EXCEPT ![n] = [ledger[n] EXCEPT !.status = "REVERSED"]]
    BY <1>5 DEF Undone, FiguresInv, RegisterOf
  <2>2. ledger[n] \in Settled
    BY <2>1
  <2>3. [ledger[n] EXCEPT !.status = "REVERSED"] \in Settled
        /\ [ledger[n] EXCEPT !.status = "REVERSED"].day = ledger[n].day
    BY <2>2 DEF Settled
  <2>4. ledger' \in Seq(Settled) /\ Len(ledger') = Len(ledger) /\ DOMAIN ledger' = DOMAIN ledger
        /\ \A m \in DOMAIN ledger : ledger'[m].day = ledger[m].day
    BY <2>1, <2>3
  <2>5. RegisterOf(ledger', today)
    BY <2>4 DEF FiguresInv, RegisterOf
  <2> QED
    BY <1>5, <2>5 DEF Undone, FiguresInv
<1>6. CASE UNCHANGED figuresVars
  BY <1>6 DEF figuresVars, FiguresInv
<1> QED
  BY <1>1, <1>2, <1>3, <1>4, <1>5, <1>6 DEF FiguresNext

\* The sum of a page is the sum of its payments' amounts.
LEMMA FiguresSum ==
  ASSUME NEW S \in SUBSET Bookings
  PROVE  /\ IsFiniteSet(S) /\ Worth \in [Bookings -> Int]
         /\ Sum(S) = SumBy(S, Worth)
         /\ Sum(S) \in Int
<1>0. IsFiniteSet(Bookings)
  BY FS_Interval, FiguresAssumption DEF Bookings
<1>1. IsFiniteSet(S) /\ Worth \in [Bookings -> Int]
  BY <1>0, FS_Subset, FiguresAssumption
<1> DEFINE Fold(g) == [s \in SUBSET S |-> IF s = {} THEN 0 ELSE Worth[Picked(s)] + g[s \ {Picked(s)}]]
<1> DEFINE f == CHOOSE g : g = Fold(g)
<1>2. Sum(S) = f[S]
  BY DEF Sum, Lists!MapThenSumSet, Lists!MapThenFoldSet, Picked
<1>3. \A g : Fold(g) = SumStep(g, S, Worth)
  BY DEF SumStep
<1> HIDE DEF Fold
<1>4. f = SumFcn(S, Worth)
  BY <1>3 DEF SumFcn, IsSum
<1>5. Sum(S) = SumBy(S, Worth)
  BY <1>2, <1>4 DEF SumBy
<1>6. SumBy(S, Worth) \in Int
  BY <1>1, SumInt
<1> QED
  BY <1>1, <1>5, <1>6

\* So is that of the bars.
LEMMA BarsSum ==
  ASSUME NEW w
  PROVE  Lists!MapThenSumSet(LAMBDA i : w[i], 1..BarDays) = SumBy(1..BarDays, w)
<1> DEFINE S == 1..BarDays
<1> DEFINE Fold(g) == [s \in SUBSET S |-> IF s = {} THEN 0 ELSE w[Picked(s)] + g[s \ {Picked(s)}]]
<1> DEFINE f == CHOOSE g : g = Fold(g)
<1>2. Lists!MapThenSumSet(LAMBDA i : w[i], S) = f[S]
  BY DEF Lists!MapThenSumSet, Lists!MapThenFoldSet, Picked
<1>3. \A g : Fold(g) = SumStep(g, S, w)
  BY DEF SumStep
<1> HIDE DEF Fold
<1>4. f = SumFcn(S, w)
  BY <1>3 DEF SumFcn, IsSum
<1> QED
  BY <1>2, <1>4 DEF SumBy

\* A payment here is settled or reversed.
LEMMA StatusCounts ==
  ASSUME FiguresInv
  PROVE  /\ With(rows, "FAILED") = {} /\ With(rows, "PROCESSING") = {} /\ With(rows, "PENDING") = {}
         /\ IsFiniteSet(With(rows, "SUCCESS")) /\ IsFiniteSet(With(rows, "REVERSED"))
         /\ With(rows, "SUCCESS") \cap With(rows, "REVERSED") = {}
         /\ With(rows, "SUCCESS") \cup With(rows, "REVERSED") = DOMAIN rows
         /\ DOMAIN rows = 1..Len(rows) /\ Len(rows) \in Nat /\ Len(rows) <= MaxSettled
         /\ With(rows, "SUCCESS") \subseteq Bookings
         /\ Cardinality(With(rows, "SUCCESS")) + Cardinality(With(rows, "REVERSED")) = Len(rows)
         /\ Cardinality(With(rows, "SUCCESS")) \in Nat /\ Cardinality(With(rows, "REVERSED")) \in Nat
<1> DEFINE S == With(rows, "SUCCESS")
<1> DEFINE R == With(rows, "REVERSED")
<1>1. rows \in Seq(Settled) /\ Len(rows) <= MaxSettled
  BY DEF FiguresInv, RegisterOf
<1>2. DOMAIN rows = 1..Len(rows) /\ Len(rows) \in Nat /\ \A n \in DOMAIN rows : rows[n] \in Settled
  BY <1>1
<1>3. \A n \in DOMAIN rows : rows[n].status \in {"SUCCESS", "REVERSED"}
  BY <1>2 DEF Settled
<1>4. /\ With(rows, "FAILED") = {} /\ With(rows, "PROCESSING") = {} /\ With(rows, "PENDING") = {}
      /\ S \cap R = {} /\ S \cup R = DOMAIN rows
  BY <1>3 DEF With
<1>5. IsFiniteSet(DOMAIN rows) /\ Cardinality(DOMAIN rows) = Len(rows)
  <2>1. \A k \in Nat : IsFiniteSet(1..k) /\ Cardinality(1..k) = k
    BY FS_Interval
  <2> QED
    BY <1>2, <2>1
<1>6. S \subseteq DOMAIN rows /\ R \subseteq DOMAIN rows
  BY DEF With
<1> HIDE DEF S, R
<1>7. IsFiniteSet(S) /\ IsFiniteSet(R)
  BY <1>5, <1>6, FS_Subset
<1>8. Cardinality(S \cup R) = Cardinality(S) + Cardinality(R) - Cardinality(S \cap R)
  BY <1>7, FS_Union
<1>9. Cardinality(S) \in Nat /\ Cardinality(R) \in Nat /\ Cardinality(S \cap R) = 0
  BY <1>4, <1>7, FS_CardinalityType, FS_EmptySet
<1>10. Cardinality(S) + Cardinality(R) = Len(rows)
  BY <1>4, <1>5, <1>8, <1>9
<1>11. S \subseteq Bookings
  BY <1>1, <1>2, <1>6, FiguresAssumption DEF Bookings
<1> QED
  BY <1>1, <1>2, <1>4, <1>7, <1>9, <1>10, <1>11 DEF S, R

\* The rounded shares of two parts add up, but for two tenths of a per cent.
SharesAddUp(a, b, w) ==
  Tenths(a, w) + Tenths(0, w) + Tenths(0, w) + Tenths(b, w) \in 998..1002

LEMMA TwoShares ==
  ASSUME NEW a \in Nat, NEW b \in Nat, NEW w \in Nat \ {0}, a + b = w
  PROVE  SharesAddUp(a, b, w)
<1> DEFINE m == 2000 * a + w
<1> DEFINE n == 2000 * b + w
<1> DEFINE d == 2 * w
<1> DEFINE p == m \div d
<1> DEFINE q == n \div d
<1>1. m \in Nat /\ n \in Nat /\ d \in Nat \ {0} /\ m + n = 1001 * d
  OBVIOUS
<1>2. Tenths(a, w) = p /\ Tenths(b, w) = q
  BY DEF Tenths
<1>3. Tenths(0, w) = 0
  BY DEF Tenths
<1> HIDE DEF m, n, d
<1>4. p \in Nat /\ q \in Nat /\ m = d * p + (m % d) /\ n = d * q + (n % d)
      /\ m % d \in 0..(d - 1) /\ n % d \in 0..(d - 1)
  BY <1>1
<1> DEFINE r == m % d
<1> DEFINE s == n % d
<1> HIDE DEF p, q, r, s
<1>5. /\ p \in Nat /\ q \in Nat /\ r \in Nat /\ s \in Nat /\ r < d /\ s < d
      /\ m = d * p + r /\ n = d * q + s
  BY <1>1, <1>4 DEF r, s
<1>6. d * (p + q) + (r + s) = 1001 * d
  BY <1>1, <1>5
<1>7. p + q <= 1001
  <2> SUFFICES ASSUME p + q >= 1002 PROVE FALSE
    BY <1>5
  <2>1. d * (p + q) >= d * 1002
    BY <1>1, <1>5
  <2> QED
    BY <1>1, <1>5, <1>6, <2>1
<1>8. p + q >= 1000
  <2> SUFFICES ASSUME p + q <= 999 PROVE FALSE
    BY <1>5
  <2>1. d * (p + q) <= d * 999
    BY <1>1, <1>5
  <2> QED
    BY <1>1, <1>5, <1>6, <2>1
<1>9. p + 0 + 0 + q \in 998..1002
  BY <1>5, <1>7, <1>8
<1> QED
  BY <1>2, <1>3, <1>9 DEF SharesAddUp

LEMMA CountsHold == FiguresInv => CountsAgree
<1> SUFFICES ASSUME FiguresInv PROVE CountsAgree
  OBVIOUS
<1> DEFINE S == With(rows, "SUCCESS")
<1> DEFINE R == With(rows, "REVERSED")
<1> DEFINE s == Cardinality(S)
<1> DEFINE r == Cardinality(R)
<1>1. /\ With(rows, "FAILED") = {} /\ With(rows, "PROCESSING") = {} /\ With(rows, "PENDING") = {}
      /\ IsFiniteSet(S) /\ IsFiniteSet(R) /\ S \cap R = {} /\ S \cup R = DOMAIN rows
      /\ s \in Nat /\ r \in Nat /\ s + r = Len(rows) /\ Len(rows) \in Nat
  BY StatusCounts
<1>2. Cardinality({}) = 0
  BY FS_EmptySet
<1>3. /\ stats.paid = s /\ stats.failed = Cardinality(With(rows, "FAILED"))
      /\ stats.processing = Cardinality(With(rows, "PROCESSING"))
      /\ stats.pending = Cardinality(With(rows, "PENDING"))
      /\ stats.settledToday = Sum(OnDay(S, rows, statsDay)) /\ stats.volume = Sum(S)
      /\ stats.cross = Cardinality(S \cap Crossed) /\ stats.rate = Tenths(s, Len(rows))
  BY DEF FiguresInv, Overview
<1>4. /\ PaymentsPage.settledToday = Sum(OnDay(S, rows, today))
      /\ PaymentsPage.cross = Cardinality(DOMAIN rows \cap Crossed)
  BY DEF PaymentsPage
<1>5. /\ Analytics.success = s /\ Analytics.failed = Cardinality(With(rows, "FAILED"))
      /\ Analytics.pending = Cardinality(With(rows, "PENDING") \cup With(rows, "PROCESSING"))
      /\ Analytics.reversed = r /\ Analytics.volume = Sum(S)
      /\ Analytics.cross = Cardinality(S \cap Marked) /\ Analytics.total = Len(rows)
  BY DEF Analytics
<1> HIDE DEF S, R
<1>6. /\ stats.failed = 0 /\ stats.processing = 0 /\ stats.pending = 0
      /\ Analytics.failed = 0 /\ Analytics.pending = 0
  BY <1>1, <1>2, <1>3, <1>5
<1>7. Exceptions = r
  BY <1>1 DEF Exceptions, R
<1>8. ASSUME NEW F, NEW G, IsFiniteSet(F), IsFiniteSet(G), F \cap G = {}
      PROVE  Cardinality(F \cup G) = Cardinality(F) + Cardinality(G)
  <2>1. Cardinality(F) \in Nat /\ Cardinality(G) \in Nat
    BY <1>8, FS_CardinalityType
  <2>2. Cardinality(F \cup G) = Cardinality(F) + Cardinality(G) - Cardinality(F \cap G)
    BY <1>8, FS_Union
  <2>3. Cardinality(F \cap G) = 0
    BY <1>2, <1>8
  <2> QED
    BY <2>1, <2>2, <2>3
<1>9. Cardinality(DOMAIN rows \cap Crossed) = Cardinality(S \cap Crossed) + Cardinality(R \cap Crossed)
  <2>1. IsFiniteSet(S \cap Crossed) /\ IsFiniteSet(R \cap Crossed)
    BY <1>1, FS_Intersection
  <2>2. DOMAIN rows \cap Crossed = (S \cap Crossed) \cup (R \cap Crossed) /\ (S \cap Crossed) \cap (R \cap Crossed) = {}
    BY <1>1
  <2> QED
    BY <1>8, <2>1, <2>2
<1>10. /\ Shares[1] = Tenths(s, Len(rows)) /\ Shares[2] = Tenths(0, Len(rows))
       /\ Shares[3] = Tenths(0, Len(rows)) /\ Shares[4] = Tenths(r, Len(rows))
  BY <1>5, <1>6 DEF Shares
<1>11. rows # <<>> => Shares[1] + Shares[2] + Shares[3] + Shares[4] \in 998..1002
  <2> SUFFICES ASSUME rows # <<>> PROVE Shares[1] + Shares[2] + Shares[3] + Shares[4] \in 998..1002
    OBVIOUS
  <2>1. Len(rows) # 0
    BY DEF FiguresInv, RegisterOf
  <2>2. s \in Nat /\ r \in Nat /\ Len(rows) \in Nat /\ s + r = Len(rows)
    BY <1>1
  <2> HIDE DEF s, r
  <2>3. Len(rows) \in Nat \ {0}
    BY <2>1, <2>2
  <2>4. SharesAddUp(s, r, Len(rows))
    BY <2>2, <2>3, TwoShares
  <2> QED
    BY <1>10, <2>4 DEF SharesAddUp
<1>12. statsDay = today => stats.settledToday = PaymentsPage.settledToday
  BY <1>3, <1>4
<1>13. Cardinality(S \cap Marked) = Cardinality(S \cap Crossed) + Cardinality(S \cap (Marked \ Crossed))
  <2>1. IsFiniteSet(S \cap Crossed) /\ IsFiniteSet(S \cap (Marked \ Crossed))
    BY <1>1, FS_Intersection
  <2>2. S \cap Marked = (S \cap Crossed) \cup (S \cap (Marked \ Crossed))
        /\ (S \cap Crossed) \cap (S \cap (Marked \ Crossed)) = {}
    BY FiguresAssumption
  <2> QED
    BY <1>8, <2>1, <2>2
<1> HIDE DEF s, r
<1>14. Analytics.cross = stats.cross + Cardinality(With(rows, "SUCCESS") \cap (Marked \ Crossed))
  BY <1>3, <1>5, <1>13 DEF S
<1>15. Analytics.total = stats.paid + Analytics.pending + Exceptions
  BY <1>1, <1>3, <1>5, <1>6, <1>7
<1>16. PaymentsPage.cross = stats.cross + Cardinality(With(rows, "REVERSED") \cap Crossed)
  BY <1>3, <1>4, <1>9 DEF R
<1> QED
  BY <1>3, <1>5, <1>10, <1>11, <1>12, <1>14, <1>15, <1>16 DEF CountsAgree


\* Every payment is in the bar of its day, or older than the bars.
LEMMA BarsHold == FiguresInv => BarsHoldVolume
<1> SUFFICES ASSUME FiguresInv PROVE BarsHoldVolume
  OBVIOUS
<1> DEFINE paid == With(rows, "SUCCESS")
<1> DEFINE Date(i) == statsDay - (BarDays - i)
<1> DEFINE On(T) == {n \in paid : \E i \in T : rows[n].day = Date(i)}
<1> DEFINE bars == [i \in 1..BarDays |-> Bar(rows, statsDay, i)]
<1> DEFINE old == {n \in paid : rows[n].day <= statsDay - BarDays}
<1>1. /\ statsDay \in Nat /\ BarDays \in Nat \ {0} /\ paid \subseteq Bookings
      /\ \A n \in paid : rows[n].day \in Nat /\ rows[n].day <= statsDay
  <2>1. \A n \in DOMAIN rows : rows[n] \in Settled /\ rows[n].day <= statsDay
    BY DEF FiguresInv, RegisterOf
  <2>2. \A n \in DOMAIN rows : rows[n].day \in Nat
    BY <2>1 DEF Settled
  <2>3. paid \subseteq DOMAIN rows
    BY DEF With
  <2>4. paid \subseteq Bookings
    BY StatusCounts
  <2> QED
    BY <2>1, <2>2, <2>3, <2>4, FiguresAssumption DEF FiguresInv
<1>2. /\ stats.settledToday = Sum(OnDay(paid, rows, statsDay)) /\ stats.volume = Sum(paid)
      /\ stats.daily = bars
  BY DEF FiguresInv, Overview
<1>3. \A i \in 1..BarDays : bars[i] = Sum(OnDay(paid, rows, Date(i)))
  BY DEF Bar
<1>4. stats.settledToday = stats.daily[BarDays]
  <2>1. Date(BarDays) = statsDay /\ BarDays \in 1..BarDays
    BY <1>1
  <2> HIDE DEF paid, bars, Date
  <2> QED
    BY <1>2, <1>3, <2>1
<1>5. \A i, j \in 1..BarDays : i # j => Date(i) # Date(j)
  BY <1>1
<1> HIDE DEF Date, paid
<1>6. \A S : S \subseteq paid => /\ IsFiniteSet(S) /\ Worth \in [Bookings -> Int]
                               /\ Sum(S) = SumBy(S, Worth) /\ Sum(S) \in Int
  BY <1>1, FiguresSum
<1>7. bars \in [1..BarDays -> Int]
  <2>1. \A i \in 1..BarDays : Sum(OnDay(paid, rows, Date(i))) \in Int
    BY <1>6 DEF OnDay
  <2> QED
    BY <1>3, <2>1
<1> HIDE DEF bars
<1>8. SumBy(1..BarDays, bars) = Sum(On(1..BarDays))
  <2> DEFINE B == {T \in SUBSET (1..BarDays) : SumBy(T, bars) # Sum(On(T))}
  <2> SUFFICES ASSUME B # {} PROVE FALSE
    OBVIOUS
  <2>1. PICK T \in B : \A t \in SUBSET T : t # T => t \notin B
    <3>1. B \in SUBSET SUBSET (1..BarDays) /\ IsFiniteSet(1..BarDays)
      BY <1>1, FS_Interval
    <3> HIDE DEF B
    <3> QED
      BY <3>1, SmallestSet
  <2>2. T \subseteq 1..BarDays /\ IsFiniteSet(T) /\ SumBy(T, bars) # Sum(On(T))
    <3>1. IsFiniteSet(1..BarDays)
      BY <1>1, FS_Interval
    <3> QED
      BY <3>1, FS_Subset
  <2>3. T # {}
    <3>1. On({}) = {} /\ SumBy({}, bars) = 0 /\ SumBy({}, Worth) = 0
      BY SumEmpty
    <3>2. Sum({}) = SumBy({}, Worth)
      BY <1>6
    <3> QED
      BY <2>2, <3>1, <3>2
  <2>4. PICK e \in T : TRUE
    BY <2>3
  <2> DEFINE rest == T \ {e}
  <2> DEFINE today_e == OnDay(paid, rows, Date(e))
  <2>5. SumBy(rest, bars) = Sum(On(rest))
    BY <2>1, <2>2, <2>4
  <2>6. SumBy(T, bars) = bars[e] + SumBy(rest, bars)
    BY <1>7, <2>2, <2>4, SumRemove
  <2>7. On(T) = today_e \cup On(rest) /\ today_e \cap On(rest) = {}
    BY <1>5, <2>2, <2>4 DEF OnDay
  <2>8. today_e \subseteq paid /\ On(rest) \subseteq paid /\ On(T) \subseteq paid
    BY DEF OnDay
  <2>9. bars[e] = Sum(today_e)
    BY <1>3, <2>2, <2>4
  <2> HIDE DEF today_e, rest, On, B
  <2>10. Sum(On(T)) = Sum(today_e) + Sum(On(rest))
    BY <1>1, <1>6, <2>7, <2>8, SumUnion
  <2> QED
    BY <2>2, <2>5, <2>6, <2>9, <2>10
<1>9. On(1..BarDays) \cup old = paid /\ On(1..BarDays) \cap old = {}
  <2>1. \A n \in paid : rows[n].day > statsDay - BarDays => n \in On(1..BarDays)
    <3> SUFFICES ASSUME NEW n \in paid, rows[n].day > statsDay - BarDays
                 PROVE  \E i \in 1..BarDays : rows[n].day = Date(i)
      OBVIOUS
    <3> DEFINE i == rows[n].day - statsDay + BarDays
    <3>1. i \in 1..BarDays /\ rows[n].day = Date(i)
      BY <1>1 DEF Date
    <3> QED
      BY <3>1
  <2>2. \A i \in 1..BarDays : Date(i) \in Int /\ Date(i) > statsDay - BarDays
    BY <1>1 DEF Date
  <2>3. \A n \in paid : rows[n].day \in Int /\ statsDay - BarDays \in Int
    BY <1>1
  <2>4. On(1..BarDays) \cap old = {}
    BY <2>2, <2>3
  <2>5. \A n \in paid : n \in old \/ rows[n].day > statsDay - BarDays
    BY <2>3
  <2> QED
    BY <2>1, <2>4, <2>5
<1>10. On(1..BarDays) \subseteq paid /\ old \subseteq paid
  OBVIOUS
<1> HIDE DEF On
<1>11. Sum(paid) = Sum(On(1..BarDays)) + Sum(old)
  <2> HIDE DEF old
  <2> QED
    BY <1>1, <1>6, <1>9, <1>10, SumUnion
<1>12. Lists!MapThenSumSet(LAMBDA i : stats.daily[i], 1..BarDays) = SumBy(1..BarDays, stats.daily)
  BY BarsSum
<1>13. stats.volume = Lists!MapThenSumSet(LAMBDA i : stats.daily[i], 1..BarDays) + Sum(old)
  <2> HIDE DEF old
  <2> QED
    BY <1>2, <1>8, <1>11, <1>12
<1> QED
  BY <1>4, <1>13 DEF BarsHoldVolume, paid

\* Payments are created in their order, so the place of a payment among the
\* notifications is its place from the end of the register.
LEMMA PlaceFromTheEnd ==
  ASSUME FiguresInv, NEW n \in DOMAIN rows
  PROVE  EventPlace(n) = Len(rows) + 1 - n
<1>1. DOMAIN rows = 1..Len(rows) /\ Len(rows) \in Nat /\ Len(rows) <= MaxSettled
  BY StatusCounts
<1>2. \A m \in DOMAIN rows : Newer(m, n) <=> m > n
  <2> SUFFICES ASSUME NEW m \in DOMAIN rows PROVE Newer(m, n) <=> m > n
    OBVIOUS
  <2>1. m \in Bookings /\ n \in Bookings /\ m \in Nat /\ n \in Nat
    BY <1>1, FiguresAssumption DEF Bookings
  <2>2. Instant[m] \in Nat /\ Instant[n] \in Nat
    BY <2>1, FiguresAssumption
  <2>3. (m < n => Instant[m] <= Instant[n]) /\ (n < m => Instant[n] <= Instant[m])
    BY <2>1, FiguresAssumption
  <2> QED
    BY <2>1, <2>2, <2>3 DEF Newer
<1>3. {m \in DOMAIN rows : Newer(m, n)} = (n + 1)..Len(rows)
  BY <1>1, <1>2
<1>4. Cardinality((n + 1)..Len(rows)) = Len(rows) - n
  BY <1>1, FS_Interval
<1> DEFINE c == Cardinality({m \in DOMAIN rows : Newer(m, n)})
<1>5. c = Len(rows) - n
  BY <1>3, <1>4
<1>6. EventPlace(n) = c + 1
  BY DEF EventPlace
<1> HIDE DEF c
<1> QED
  BY <1>1, <1>5, <1>6

\* The first k of a list that counts down.
LEMMA CountingDown ==
  ASSUME NEW L \in Nat, NEW k \in Nat, k <= L,
         NEW s, s = [i \in 1..L |-> L + 1 - i]
  PROVE  SubSeq(s, 1, k) = [i \in 1..k |-> L + 1 - i]
OBVIOUS

LEMMA FeedHolds == FiguresInv => FeedIsNewest
<1> SUFFICES ASSUME FiguresInv PROVE FeedIsNewest
  OBVIOUS
<1> DEFINE L == Len(rows)
<1> DEFINE down == [i \in 1..L |-> L + 1 - i]
<1> DEFINE k == IF L < EventRows THEN L ELSE EventRows
<1> DEFINE f == IF L < FeedRows THEN L ELSE FeedRows
<1>1. DOMAIN rows = 1..L /\ L \in Nat
  BY StatusCounts
<1>2. [i \in DOMAIN rows |-> CHOOSE n \in DOMAIN rows : EventPlace(n) = i] = down
  <2>1. \A n \in DOMAIN rows : EventPlace(n) = L + 1 - n
    BY PlaceFromTheEnd
  <2>2. ASSUME NEW i \in DOMAIN rows
        PROVE  (CHOOSE n \in DOMAIN rows : EventPlace(n) = i) = L + 1 - i
    <3>1. L + 1 - i \in DOMAIN rows /\ L + 1 - (L + 1 - i) = i
      BY <1>1
    <3>2. \A n \in DOMAIN rows : EventPlace(n) = i => n = L + 1 - i
      BY <1>1, <2>1
    <3>3. EventPlace(L + 1 - i) = i
      BY <2>1, <3>1
    <3> HIDE DEF L
    <3> QED
      BY <3>1, <3>2, <3>3
  <2> DEFINE at == [i \in DOMAIN rows |-> CHOOSE n \in DOMAIN rows : EventPlace(n) = i]
  <2>3. at = [i \in DOMAIN rows |-> at[i]]
    OBVIOUS
  <2>4. \A i \in DOMAIN rows : at[i] = L + 1 - i
    BY <2>2
  <2> HIDE DEF at, L
  <2>5. at = down
    BY <1>1, <2>3, <2>4
  <2> QED
    BY <2>5 DEF at
<1>3. Lists!Reverse([i \in DOMAIN rows |-> i]) = down
  <2> DEFINE up == [i \in DOMAIN rows |-> i]
  <2>1. up \in Seq(Nat) /\ Len(up) = L /\ \A i \in 1..L : up[i] = i
    BY <1>1
  <2> HIDE DEF up, L
  <2>2. \A i \in 1..L : (L - i) + 1 \in 1..L /\ (L - i) + 1 = L + 1 - i
    BY <1>1
  <2>3. \A i \in 1..L : up[(L - i) + 1] = L + 1 - i
    BY <2>1, <2>2
  <2>4. Lists!Reverse(up) = [i \in 1..L |-> up[(L - i) + 1]]
    BY <2>1 DEF Lists!Reverse
  <2>5. Lists!Reverse(up) = down
    BY <2>3, <2>4
  <2> QED
    BY <2>5 DEF up
<1> HIDE DEF down
<1>4. Events = SubSeq(down, 1, k) /\ Feed = SubSeq(down, 1, f)
  BY <1>2, <1>3 DEF Events, Feed
<1>5. k \in Nat /\ f \in Nat /\ k <= L /\ f <= k
  BY <1>1, FiguresAssumption
<1> HIDE DEF L, k, f
<1>6. Events = [i \in 1..k |-> L + 1 - i] /\ Feed = [i \in 1..f |-> L + 1 - i]
  BY <1>1, <1>4, <1>5, CountingDown DEF down
<1>7. /\ Events \in Seq(Int) /\ Feed \in Seq(Int) /\ Len(Events) = k /\ Len(Feed) = f
      /\ \A i \in 1..k : Events[i] = L + 1 - i
      /\ \A i \in 1..f : Feed[i] = L + 1 - i
  BY <1>1, <1>5, <1>6
<1>8. \A i \in DOMAIN Events : Events[i] = L + 1 - i
  BY <1>6, <1>7
<1>9. SubSeq(Feed, 1, Len(Feed)) = [i \in 1..f |-> Feed[i]] /\ SubSeq(Events, 1, Len(Feed)) = [i \in 1..f |-> Events[i]]
  BY <1>5, <1>7
<1>10. \A i \in 1..f : Feed[i] = Events[i]
  BY <1>5, <1>7
<1>11. Lists!IsPrefix(Feed, Events)
  BY <1>5, <1>7, <1>9, <1>10 DEF Lists!IsPrefix
<1> QED
  BY <1>8, <1>11 DEF FeedIsNewest, L

\* What the pages count, draw and list of one fetched register agrees
\* (Dashboard.tsx stats, Transfers.tsx, OperationsModule.tsx events).
THEOREM FiguresAgree == FiguresSpec => []PagesAgree
<1>1. FiguresInv => PagesAgree
  BY CountsHold, BarsHold, FeedHolds DEF PagesAgree
<1> QED
  BY <1>1, FiguresStart, FiguresStep, PTL DEF FiguresSpec

-----------------------------------------------------------------------------
(* Words: a reader of texts                                                *)

\* The words that are written.
Word == {Ones[i] : i \in 1..19} \cup {Tens[i] : i \in 2..9} \cup {Scales[i] : i \in 1..4}
        \cup {"Zero", "Hundred"}
Texts == Seq(Word)

\* Every set of natural numbers has a least one.
LEMMA LeastNatural ==
  ASSUME NEW B \in SUBSET Nat, B # {}
  PROVE  \E m \in B : \A k \in B : m <= k
<1>1. PICK m \in B : \A k \in B : ~(<<k, m>> \in OpToRel(<, Nat))
  BY NatLessThanWellFounded, WFMin
<1>2. ASSUME NEW k \in B PROVE m <= k
  <2>1. k \in Nat /\ m \in Nat OBVIOUS
  <2>2. k < m => <<k, m>> \in OpToRel(<, Nat) BY <2>1 DEF OpToRel
  <2>3. <<k, m>> \notin OpToRel(<, Nat) BY <1>1
  <2>4. ~(k < m) BY <2>2, <2>3
  <2> QED BY <2>1, <2>4
<1> QED BY <1>2

\* One step of the reader, by what acc says of the words before.
ReadingStep(acc, text) ==
  [i \in 0..Len(text) |-> IF i = 0 THEN Nothing ELSE ReadWord(acc[i - 1], text[i])]

\* Two readers of texts that begin alike understand the beginnings alike.
LEMMA ReadersAgree ==
  ASSUME NEW t, NEW u, Len(t) \in Nat, Len(u) \in Nat, NEW n \in Nat, n <= Len(t), n <= Len(u),
         \A i \in 1..n : t[i] = u[i], NEW f, NEW g, f = ReadingStep(f, t), g = ReadingStep(g, u)
  PROVE  f[n] = g[n]
<1> DEFINE B == {i \in 0..n : f[i] # g[i]}
<1> SUFFICES ASSUME B # {} PROVE FALSE
  OBVIOUS
<1>1. PICK m \in B : \A k \in B : m <= k
  <2>1. B \in SUBSET Nat OBVIOUS
  <2> HIDE DEF B
  <2> QED BY <2>1, LeastNatural
<1>2. /\ f[m] = IF m = 0 THEN Nothing ELSE ReadWord(f[m - 1], t[m])
      /\ g[m] = IF m = 0 THEN Nothing ELSE ReadWord(g[m - 1], u[m])
  <2>1. m \in 0..Len(t) /\ m \in 0..Len(u) OBVIOUS
  <2> HIDE DEF B
  <2>2. ReadingStep(f, t)[m] = IF m = 0 THEN Nothing ELSE ReadWord(f[m - 1], t[m]) BY <2>1 DEF ReadingStep
  <2>3. ReadingStep(g, u)[m] = IF m = 0 THEN Nothing ELSE ReadWord(g[m - 1], u[m]) BY <2>1 DEF ReadingStep
  <2> QED BY <2>2, <2>3
<1>3. m # 0 => f[m - 1] = g[m - 1]
  <2>1. m # 0 => m - 1 \in 0..n /\ ~(m <= m - 1) OBVIOUS
  <2> QED BY <1>1, <2>1
<1>4. m # 0 => m \in 1..n OBVIOUS
<1> QED BY <1>2, <1>3, <1>4

\* There is a reader for every text: the recursion defines a function.
LEMMA ReaderExists ==
  ASSUME NEW t, Len(t) \in Nat
  PROVE  Understood(t) = ReadingStep(Understood(t), t)
<1> DEFINE Step(g, n) == [i \in 0..n |-> IF i = 0 THEN Nothing ELSE ReadWord(g[i - 1], t[i])]
           B == {n \in 0..Len(t) : ~ \E g : g = Step(g, n)}
<1>1. B = {}
  <2> SUFFICES ASSUME B # {} PROVE FALSE
    OBVIOUS
  <2>1. PICK m \in B : \A k \in B : m <= k
    <3>1. B \in SUBSET Nat OBVIOUS
    <3> HIDE DEF B
    <3> QED BY <3>1, LeastNatural
  <2>2. CASE m = 0
    <3> DEFINE g == [i \in 0..0 |-> Nothing]
    <3>1. g = Step(g, 0) OBVIOUS
    <3> QED BY <2>1, <2>2, <3>1
  <2>3. CASE m # 0
    <3>1. m - 1 \in 0..Len(t) /\ ~(m <= m - 1) BY <2>3
    <3>2. PICK f : f = Step(f, m - 1) BY <2>1, <3>1
    <3> DEFINE g == [i \in 0..m |-> IF i = m THEN ReadWord(f[m - 1], t[m]) ELSE f[i]]
    <3>3. \A i \in 0..m : g[i] = IF i = 0 THEN Nothing ELSE ReadWord(g[i - 1], t[i])
      <4>1. \A i \in 0..(m - 1) : f[i] = IF i = 0 THEN Nothing ELSE ReadWord(f[i - 1], t[i]) BY <3>2
      <4> QED BY <2>3, <4>1
    <3>4. g = Step(g, m) BY <3>3
    <3> QED BY <2>1, <3>4
  <2> QED BY <2>2, <2>3
<1>2. \E g : g = Step(g, Len(t))
  <2>1. Len(t) \in 0..Len(t) OBVIOUS
  <2> QED BY <1>1, <2>1
<1> HIDE DEF B
<1> QED BY <1>2 DEF Understood, ReadingStep

\* What a reader has understood of a text at its end.
Heard(t) == Understood(t)[Len(t)]

LEMMA HeardNothing == Heard(<<>>) = Nothing
<1>1. Len(<<>>) = 0 OBVIOUS
<1>2. Understood(<<>>) = ReadingStep(Understood(<<>>), <<>>) BY <1>1, ReaderExists
<1>3. Understood(<<>>)[0] = Nothing BY <1>1, <1>2 DEF ReadingStep
<1> QED BY <1>1, <1>3 DEF Heard

\* A reader takes a further word from where the text ended.
LEMMA HeardFurther ==
  ASSUME NEW t \in Texts, NEW w \in Word
  PROVE  Heard(t \o <<w>>) = ReadWord(Heard(t), w)
<1> DEFINE u == t \o <<w>>
<1>1. /\ Len(t) \in Nat /\ Len(u) = Len(t) + 1 /\ u[Len(t) + 1] = w
      /\ \A i \in 1..Len(t) : u[i] = t[i]
  <2>1. <<w>> \in Texts /\ Len(<<w>>) = 1 /\ <<w>>[1] = w BY DEF Texts
  <2> QED BY <2>1, LenProperties, ConcatProperties DEF Texts
<1> HIDE DEF u
<1>2. Understood(t) = ReadingStep(Understood(t), t) /\ Understood(u) = ReadingStep(Understood(u), u)
  BY <1>1, ReaderExists
<1>3. Understood(u)[Len(t)] = Understood(t)[Len(t)]
  <2>1. Len(u) \in Nat /\ Len(t) <= Len(t) /\ Len(t) <= Len(u) BY <1>1
  <2>2. \A i \in 1..Len(t) : t[i] = u[i] BY <1>1
  <2> DEFINE f == Understood(t)
             g == Understood(u)
             n == Len(t)
  <2>3. f = ReadingStep(f, t) /\ g = ReadingStep(g, u) /\ n \in Nat BY <1>1, <1>2
  <2> HIDE DEF f, g
  <2>4. f[n] = g[n] BY <1>1, <2>1, <2>2, <2>3, ReadersAgree
  <2> QED BY <2>4 DEF f, g
<1>4. Understood(u)[Len(t) + 1] = ReadWord(Understood(u)[Len(t)], w)
  <2>1. ReadingStep(Understood(u), u)[Len(t) + 1] = ReadWord(Understood(u)[Len(t)], u[Len(t) + 1])
    BY <1>1 DEF ReadingStep
  <2> QED BY <1>1, <1>2, <2>1
<1> QED BY <1>1, <1>3, <1>4 DEF Heard, u

-----------------------------------------------------------------------------
(* Words: reading one word                                                 *)

\* No word is written twice in a table.
LEMMA OnesDistinct == \A i, j \in 1..19 : Ones[i] = Ones[j] => i = j
BY DEF Ones
LEMMA TensDistinct == \A i, j \in 1..9 : Tens[i] = Tens[j] => i = j
BY DEF Tens
LEMMA ScalesDistinct == \A i, j \in 1..4 : Scales[i] = Scales[j] => i = j
BY DEF Scales

LEMMA Lengths == DOMAIN Ones = 1..19 /\ DOMAIN Tens = 1..9 /\ DOMAIN Scales = 1..4
BY DEF Ones, Tens, Scales

\* No word is of two kinds.
LEMMA OnesApart ==
  ASSUME NEW i \in 1..19
  PROVE  Ones[i] \notin {"Zero", "-", "Hundred"} /\ ~IsOneOf(Tens, Ones[i]) /\ ~IsOneOf(Scales, Ones[i])
<1>1. Ones[i] \notin {"Zero", "-", "Hundred"} BY DEF Ones
<1>2. \A j \in 1..9 : Tens[j] # Ones[i] BY DEF Ones, Tens
<1>3. \A j \in 1..4 : Scales[j] # Ones[i] BY DEF Ones, Scales
<1> QED BY <1>1, <1>2, <1>3, Lengths DEF IsOneOf

LEMMA TensApart ==
  ASSUME NEW i \in 2..9
  PROVE  Tens[i] \notin {"Zero", "-", "Hundred"} /\ ~IsOneOf(Ones, Tens[i]) /\ ~IsOneOf(Scales, Tens[i])
<1>1. Tens[i] \notin {"Zero", "-", "Hundred"} BY DEF Tens
<1>2. \A j \in 1..19 : Ones[j] # Tens[i] BY DEF Ones, Tens
<1>3. \A j \in 1..4 : Scales[j] # Tens[i] BY DEF Scales, Tens
<1> QED BY <1>1, <1>2, <1>3, Lengths DEF IsOneOf

LEMMA ScalesApart ==
  ASSUME NEW i \in 1..4
  PROVE  Scales[i] \notin {"Zero", "-", "Hundred"} /\ ~IsOneOf(Ones, Scales[i]) /\ ~IsOneOf(Tens, Scales[i])
<1>1. Scales[i] \notin {"Zero", "-", "Hundred"} BY DEF Scales
<1>2. \A j \in 1..19 : Ones[j] # Scales[i] BY DEF Ones, Scales
<1>3. \A j \in 1..9 : Tens[j] # Scales[i] BY DEF Tens, Scales
<1> QED BY <1>1, <1>2, <1>3, Lengths DEF IsOneOf

LEMMA HundredApart ==
  ASSUME NEW w \in {"Zero", "Hundred"}
  PROVE  ~IsOneOf(Ones, w) /\ ~IsOneOf(Tens, w) /\ ~IsOneOf(Scales, w)
<1>1. \A j \in 1..19 : Ones[j] # w BY DEF Ones
<1>2. \A j \in 1..9 : Tens[j] # w BY DEF Tens
<1>3. \A j \in 1..4 : Scales[j] # w BY DEF Scales
<1> QED BY <1>1, <1>2, <1>3, Lengths DEF IsOneOf

LEMMA ReadOnes ==
  ASSUME NEW g \in Nat, NEW s \in Nat, NEW i \in 1..19
  PROVE  ReadWord([of |-> g, sum |-> s], Ones[i]) = [of |-> g + i, sum |-> s]
<1> DEFINE acc == [of |-> g, sum |-> s]
<1>3. acc \in [of : Nat, sum : Nat] /\ acc.of = g /\ acc.sum = s OBVIOUS
<1> HIDE DEF acc
<1>1. IsOneOf(Ones, Ones[i]) /\ PlaceOf(Ones, Ones[i]) = i
  BY Lengths, OnesDistinct DEF IsOneOf, PlaceOf
<1>2. ReadWord(acc, Ones[i]) = [acc EXCEPT !.of = @ + i] BY <1>1, OnesApart DEF ReadWord
<1> QED BY <1>3, <1>2 DEF acc

LEMMA ReadTens ==
  ASSUME NEW g \in Nat, NEW s \in Nat, NEW i \in 2..9
  PROVE  ReadWord([of |-> g, sum |-> s], Tens[i]) = [of |-> g + 10 * i, sum |-> s]
<1> DEFINE acc == [of |-> g, sum |-> s]
<1>3. acc \in [of : Nat, sum : Nat] /\ acc.of = g /\ acc.sum = s OBVIOUS
<1> HIDE DEF acc
<1>1. IsOneOf(Tens, Tens[i]) /\ PlaceOf(Tens, Tens[i]) = i
  BY Lengths, TensDistinct DEF IsOneOf, PlaceOf
<1>2. ReadWord(acc, Tens[i]) = [acc EXCEPT !.of = @ + 10 * i] BY <1>1, TensApart DEF ReadWord
<1> QED BY <1>3, <1>2 DEF acc

LEMMA ReadHundred ==
  ASSUME NEW g \in Nat, NEW s \in Nat
  PROVE  ReadWord([of |-> g, sum |-> s], "Hundred") = [of |-> g * 100, sum |-> s]
<1> DEFINE acc == [of |-> g, sum |-> s]
<1>3. acc \in [of : Nat, sum : Nat] /\ acc.of = g /\ acc.sum = s OBVIOUS
<1> HIDE DEF acc
<1>1. ReadWord(acc, "Hundred") = [acc EXCEPT !.of = @ * 100] BY HundredApart DEF ReadWord
<1> QED BY <1>3, <1>1 DEF acc

LEMMA ReadScale ==
  ASSUME NEW g \in Nat, NEW s \in Nat, NEW i \in 1..4
  PROVE  ReadWord([of |-> g, sum |-> s], Scales[i]) = [of |-> 0, sum |-> s + Scaled(g, i)]
<1> DEFINE acc == [of |-> g, sum |-> s]
<1>3. acc \in [of : Nat, sum : Nat] /\ acc.of = g /\ acc.sum = s OBVIOUS
<1> HIDE DEF acc
<1>1. IsOneOf(Scales, Scales[i]) /\ PlaceOf(Scales, Scales[i]) = i
  BY Lengths, ScalesDistinct DEF IsOneOf, PlaceOf
<1>2. ReadWord(acc, Scales[i]) = [of |-> 0, sum |-> acc.sum + Scaled(acc.of, i)]
  BY <1>1, ScalesApart DEF ReadWord
<1> QED BY <1>3, <1>2 DEF acc

-----------------------------------------------------------------------------
(* Words: reading a number                                                 *)

\* What a reader has of a text: the group so far, and the sum of those before.
Told(t, g, s) == t \in Texts /\ English(t) /\ Heard(t) = [of |-> g, sum |-> s]

\* The text does not end with one of the words up to nineteen.
TakesOnes(t) == Len(t) = 0 \/ ~IsOneOf(Ones, t[Len(t)])

LEMMA WordKinds ==
  /\ \A i \in 1..19 : Ones[i] \in Word
  /\ \A i \in 2..9 : Tens[i] \in Word
  /\ \A i \in 1..4 : Scales[i] \in Word
  /\ "Hundred" \in Word
BY DEF Word

LEMMA NothingTold == Told(<<>>, 0, 0) /\ TakesOnes(<<>>)
<1>1. <<>> \in Texts /\ Len(<<>>) = 0 BY EmptySeq DEF Texts
<1>2. English(<<>>) BY <1>1 DEF English
<1> QED BY <1>1, <1>2, HeardNothing DEF Told, TakesOnes, Nothing

\* One further word, when it may follow the last one.
LEMMA ToldWord ==
  ASSUME NEW t, NEW g \in Nat, NEW s \in Nat, Told(t, g, s), NEW w \in Word, NEW h, NEW z,
         ReadWord([of |-> g, sum |-> s], w) = [of |-> h, sum |-> z],
         TakesOnes(t) \/ ~IsOneOf(Ones, w)
  PROVE  Told(t \o <<w>>, h, z) /\ (~IsOneOf(Ones, w) => TakesOnes(t \o <<w>>))
<1> DEFINE u == t \o <<w>>
<1>1. t \in Texts /\ English(t) /\ Heard(t) = [of |-> g, sum |-> s] BY DEF Told
<1>2. /\ Len(t) \in Nat /\ u \in Texts /\ Len(u) = Len(t) + 1 /\ u[Len(t) + 1] = w
      /\ \A i \in 1..Len(t) : u[i] = t[i]
  <2>1. <<w>> \in Texts /\ Len(<<w>>) = 1 /\ <<w>>[1] = w BY DEF Texts
  <2> QED BY <1>1, <2>1, LenProperties, ConcatProperties DEF Texts
<1>3. Heard(u) = [of |-> h, sum |-> z] BY <1>1, HeardFurther
<1> HIDE DEF u
<1>4. English(u)
  <2> SUFFICES ASSUME NEW i \in 1..Len(u) - 1, IsOneOf(Ones, u[i]), IsOneOf(Ones, u[i + 1])
               PROVE  FALSE
    BY DEF English
  <2>1. CASE i = Len(t) BY <1>2, <2>1 DEF TakesOnes
  <2>2. CASE i # Len(t)
    <3>1. i \in 1..Len(t) - 1 /\ i + 1 \in 1..Len(t) /\ i \in 1..Len(t) BY <1>2, <2>2
    <3> QED BY <1>1, <1>2, <3>1 DEF English
  <2> QED BY <2>1, <2>2
<1>5. ~IsOneOf(Ones, w) => TakesOnes(u) BY <1>2 DEF TakesOnes
<1> QED BY <1>2, <1>3, <1>4, <1>5 DEF Told, u

LEMMA ToldOnes ==
  ASSUME NEW t, NEW g \in Nat, NEW s \in Nat, Told(t, g, s), TakesOnes(t), NEW i \in 1..19
  PROVE  Told(t \o <<Ones[i]>>, g + i, s)
<1>1. ReadWord([of |-> g, sum |-> s], Ones[i]) = [of |-> g + i, sum |-> s] BY ReadOnes
<1>2. Ones[i] \in Word BY WordKinds
<1> QED BY <1>1, <1>2, ToldWord

LEMMA ToldTens ==
  ASSUME NEW t, NEW g \in Nat, NEW s \in Nat, Told(t, g, s), NEW i \in 2..9
  PROVE  Told(t \o <<Tens[i]>>, g + 10 * i, s) /\ TakesOnes(t \o <<Tens[i]>>)
<1>1. ReadWord([of |-> g, sum |-> s], Tens[i]) = [of |-> g + 10 * i, sum |-> s] BY ReadTens
<1>2. Tens[i] \in Word /\ ~IsOneOf(Ones, Tens[i]) BY WordKinds, TensApart
<1> QED BY <1>1, <1>2, ToldWord

LEMMA ToldHundred ==
  ASSUME NEW t, NEW g \in Nat, NEW s \in Nat, Told(t, g, s)
  PROVE  Told(t \o <<"Hundred">>, g * 100, s) /\ TakesOnes(t \o <<"Hundred">>)
<1>1. ReadWord([of |-> g, sum |-> s], "Hundred") = [of |-> g * 100, sum |-> s] BY ReadHundred
<1>2. "Hundred" \in Word /\ ~IsOneOf(Ones, "Hundred") BY WordKinds, HundredApart
<1> QED BY <1>1, <1>2, ToldWord

LEMMA ToldScale ==
  ASSUME NEW t, NEW g \in Nat, NEW s \in Nat, Told(t, g, s), NEW i \in 1..4
  PROVE  Told(t \o <<Scales[i]>>, 0, s + Scaled(g, i)) /\ TakesOnes(t \o <<Scales[i]>>)
<1>1. ReadWord([of |-> g, sum |-> s], Scales[i]) = [of |-> 0, sum |-> s + Scaled(g, i)] BY ReadScale
<1>2. Scales[i] \in Word /\ ~IsOneOf(Ones, Scales[i]) BY WordKinds, ScalesApart
<1> QED BY <1>1, <1>2, ToldWord

\* A text of words, and further words.
LEMMA NoFurther ==
  ASSUME NEW t \in Texts
  PROVE  <<>> \in Texts /\ t \o <<>> = t /\ <<>> \o t = t
BY ConcatEmptySeq, EmptySeq DEF Texts

LEMMA JoinedTexts ==
  ASSUME NEW t \in Texts, NEW u \in Texts, NEW v \in Texts
  PROVE  u \o v \in Texts /\ t \o (u \o v) = (t \o u) \o v
<1>1. (t \o u) \o v = t \o (u \o v) BY ConcatAssociative DEF Texts
<1>2. u \o v \in Texts BY ConcatProperties DEF Texts
<1> QED BY <1>1, <1>2

LEMMA OneText == \A w \in Word : <<w>> \in Texts
BY DEF Texts

\* A group of three digits.
Groups == 0..999

\* The words of a group of three digits say the group, after any open text.
LEMMA GroupTold ==
  ASSUME NEW t, NEW s \in Nat, Told(t, 0, s), TakesOnes(t), NEW g \in Groups, g # 0
  PROVE  ThreeDigitsWords(g) \in Texts /\ Told(t \o ThreeDigitsWords(g), g, s)
<1> DEFINE rest == g % 100
           hundreds == g \div 100
           H == IF g >= 100 THEN <<Ones[hundreds], "Hundred">> ELSE <<>>
           R == IF rest < 20 THEN OneWord(Ones, rest)
                ELSE <<Tens[rest \div 10]>> \o OneWord(Ones, rest % 10)
<1>1. /\ rest \in 0..99 /\ hundreds \in 0..9 /\ g = 100 * hundreds + rest
      /\ (g >= 100 <=> hundreds # 0)
      /\ rest \div 10 \in 0..9 /\ rest % 10 \in 0..9 /\ rest = 10 * (rest \div 10) + (rest % 10)
      /\ (rest >= 20 => rest \div 10 >= 2)
  <2>1. rest \in 0..99 /\ hundreds \in 0..9 /\ g = 100 * hundreds + rest BY DEF Groups
  <2> HIDE DEF rest, hundreds
  <2>2. rest \div 10 \in 0..9 /\ rest % 10 \in 0..9 /\ rest = 10 * (rest \div 10) + (rest % 10)
    BY <2>1
  <2>3. rest >= 20 => rest \div 10 >= 2 BY <2>1
  <2> QED BY <2>1, <2>2, <2>3
<1>2. t \in Texts BY DEF Told
<1>3. ThreeDigitsWords(g) = H \o R BY DEF ThreeDigitsWords
<1> HIDE DEF rest, hundreds
<1>4. H \in Texts /\ Told(t \o H, 100 * hundreds, s) /\ TakesOnes(t \o H)
  <2>1. CASE hundreds = 0
    <3>1. H = <<>> BY <1>1, <2>1
    <3>2. <<>> \in Texts /\ t \o <<>> = t /\ 100 * hundreds = 0 BY <1>2, <2>1, NoFurther
    <3> HIDE DEF H
    <3> QED BY <3>1, <3>2
  <2>2. CASE hundreds # 0
    <3>1. hundreds \in 1..19 BY <1>1, <2>2
    <3>2. <<Ones[hundreds]>> \in Texts /\ <<"Hundred">> \in Texts
      BY <3>1, WordKinds, OneText
    <3>3. H = <<Ones[hundreds]>> \o <<"Hundred">>
      BY <1>1, <2>2
    <3>4. Told(t \o <<Ones[hundreds]>>, hundreds, s)
      <4>1. Told(t \o <<Ones[hundreds]>>, 0 + hundreds, s) BY <3>1, ToldOnes
      <4> QED BY <3>1, <4>1
    <3>5. /\ Told((t \o <<Ones[hundreds]>>) \o <<"Hundred">>, 100 * hundreds, s)
          /\ TakesOnes((t \o <<Ones[hundreds]>>) \o <<"Hundred">>)
      <4>1. hundreds * 100 = 100 * hundreds /\ hundreds \in Nat BY <3>1
      <4> QED BY <3>4, <4>1, ToldHundred
    <3> HIDE DEF H
    <3>6. H \in Texts /\ t \o H = (t \o <<Ones[hundreds]>>) \o <<"Hundred">>
      BY <1>2, <3>2, <3>3, JoinedTexts
    <3> QED BY <3>5, <3>6
  <2> QED BY <2>1, <2>2
<1> HIDE DEF H
<1>5. ASSUME NEW u, NEW b \in Nat, Told(u, b, s), TakesOnes(u), NEW k \in 0..19
      PROVE  OneWord(Ones, k) \in Texts /\ Told(u \o OneWord(Ones, k), b + k, s)
  <2>1. u \in Texts BY <1>5 DEF Told
  <2>2. CASE k = 0
    <3>1. OneWord(Ones, k) = <<>> BY <2>2 DEF OneWord
    <3>2. <<>> \in Texts /\ u \o <<>> = u /\ b + k = b BY <2>1, <2>2, NoFurther
    <3> QED BY <1>5, <3>1, <3>2
  <2>3. CASE k # 0
    <3>1. OneWord(Ones, k) = <<Ones[k]>> /\ k \in 1..19 BY <2>3 DEF OneWord
    <3> QED BY <1>5, <3>1, WordKinds, OneText, ToldOnes
  <2> QED BY <2>2, <2>3
<1>6. R \in Texts /\ Told((t \o H) \o R, 100 * hundreds + rest, s)
  <2>1. 100 * hundreds \in Nat BY <1>1
  <2>2. CASE rest < 20
    <3>1. rest \in 0..19 /\ R = OneWord(Ones, rest) BY <1>1, <2>2
    <3> HIDE DEF R
    <3> QED BY <1>4, <1>5, <2>1, <3>1
  <2>3. CASE ~(rest < 20)
    <3> DEFINE tens == rest \div 10
               ones == rest % 10
    <3>1. /\ tens \in 2..9 /\ ones \in 0..19 /\ R = <<Tens[tens]>> \o OneWord(Ones, ones)
          /\ rest = 10 * tens + ones
      BY <1>1, <2>3
    <3> HIDE DEF tens, ones, R
    <3>2. /\ Told((t \o H) \o <<Tens[tens]>>, 100 * hundreds + 10 * tens, s)
          /\ TakesOnes((t \o H) \o <<Tens[tens]>>)
      BY <1>4, <2>1, <3>1, ToldTens
    <3>3. 100 * hundreds + 10 * tens \in Nat BY <1>1, <3>1
    <3>4. /\ OneWord(Ones, ones) \in Texts
          /\ Told(((t \o H) \o <<Tens[tens]>>) \o OneWord(Ones, ones), 100 * hundreds + 10 * tens + ones, s)
      BY <1>5, <3>1, <3>2, <3>3
    <3>5. <<Tens[tens]>> \in Texts BY <3>1, WordKinds, OneText
    <3>6. t \o H \in Texts BY <1>4 DEF Told
    <3>7. 100 * hundreds + 10 * tens + ones = 100 * hundreds + rest BY <1>1, <3>1
    <3> QED BY <3>1, <3>4, <3>5, <3>6, <3>7, JoinedTexts
  <2> QED BY <2>2, <2>3
<1> HIDE DEF R
<1>7. H \o R \in Texts /\ t \o (H \o R) = (t \o H) \o R
  <2>1. H \in Texts /\ R \in Texts BY <1>4, <1>6
  <2> QED BY <1>2, <2>1, JoinedTexts
<1> QED BY <1>1, <1>3, <1>6, <1>7
\* A group and its scale say so many thousands, millions, billions or trillions.
LEMMA PartTold ==
  ASSUME NEW t, NEW s \in Nat, Told(t, 0, s), TakesOnes(t), NEW g \in Groups, NEW i \in 1..4,
         NEW z, z = s + Scaled(g, i)
  PROVE  z \in Nat /\ Told(t \o GroupWords(g, i), 0, z) /\ TakesOnes(t \o GroupWords(g, i))
<1>1. z \in Nat /\ (g = 0 => z = s)
  <2>1. i = 1 \/ i = 2 \/ i = 3 \/ i = 4 OBVIOUS
  <2>2. g \in Nat BY DEF Groups
  <2>3. Scaled(g, i) \in Nat /\ (g = 0 => Scaled(g, i) = 0) BY <2>1, <2>2 DEF Scaled
  <2> QED BY <2>3
<1>2. t \in Texts BY DEF Told
<1>3. CASE g = 0
  <2>1. GroupWords(g, i) = <<>> /\ t \o <<>> = t /\ z = s
    BY <1>1, <1>2, <1>3, NoFurther DEF GroupWords
  <2> QED BY <1>1, <2>1
<1>4. CASE g # 0
  <2>1. ThreeDigitsWords(g) \in Texts /\ Told(t \o ThreeDigitsWords(g), g, s) BY <1>4, GroupTold
  <2>2. g \in Nat BY DEF Groups
  <2>3. /\ Told((t \o ThreeDigitsWords(g)) \o <<Scales[i]>>, 0, z)
        /\ TakesOnes((t \o ThreeDigitsWords(g)) \o <<Scales[i]>>)
    BY <2>1, <2>2, ToldScale
  <2>4. <<Scales[i]>> \in Texts BY WordKinds, OneText
  <2>5. GroupWords(g, i) = ThreeDigitsWords(g) \o <<Scales[i]>> BY <1>4 DEF GroupWords, OneWord
  <2>6. t \o GroupWords(g, i) = (t \o ThreeDigitsWords(g)) \o <<Scales[i]>>
    <3>1. t \o (ThreeDigitsWords(g) \o <<Scales[i]>>) = (t \o ThreeDigitsWords(g)) \o <<Scales[i]>>
      BY <1>2, <2>1, <2>4, JoinedTexts, Zenon
    <3> QED BY <2>5, <3>1, Zenon
  <2> QED BY <1>1, <2>3, <2>6
<1> QED BY <1>3, <1>4

\* The last group has no scale, and remains to be added.
LEMMA LastTold ==
  ASSUME NEW t, NEW s \in Nat, Told(t, 0, s), TakesOnes(t), NEW g \in Groups
  PROVE  Told(t \o GroupWords(g, 0), g, s)
<1>1. t \in Texts BY DEF Told
<1>2. CASE g = 0
  <2>1. GroupWords(g, 0) = <<>> /\ t \o <<>> = t BY <1>1, <1>2, NoFurther DEF GroupWords
  <2> QED BY <1>2, <2>1
<1>3. CASE g # 0
  <2>1. ThreeDigitsWords(g) \in Texts /\ Told(t \o ThreeDigitsWords(g), g, s) BY <1>3, GroupTold
  <2>2. GroupWords(g, 0) = ThreeDigitsWords(g)
    <3>1. GroupWords(g, 0) = ThreeDigitsWords(g) \o <<>> BY <1>3 DEF GroupWords, OneWord
    <3>2. ThreeDigitsWords(g) \o <<>> = ThreeDigitsWords(g) BY <2>1, NoFurther
    <3> QED BY <3>1, <3>2
  <2> QED BY <2>1, <2>2
<1> QED BY <1>2, <1>3

\* The last group of a number.
LastGroup(n) == n % 1000

\* A number is its thousands and its last group.
LEMMA ThousandsOf ==
  ASSUME NEW n \in Nat
  PROVE  /\ Thousands(n) \in Nat /\ LastGroup(n) \in Groups
         /\ n = 1000 * Thousands(n) + LastGroup(n)
BY DEF Thousands, LastGroup, Groups

LEMMA OneGroup ==
  ASSUME NEW n \in Nat, n < 1000
  PROVE  n \in Groups /\ LastGroup(n) = n
BY DEF LastGroup, Groups

\* The words of a number, read, are the number, and they are English.
LEMMA NumberReads ==
  ASSUME NEW n \in Nat, Thousands(Thousands(Thousands(Thousands(n)))) < 1000
  PROVE  English(NumberToWords(n)) /\ Read(NumberToWords(n)) = n
<1>1. CASE n = 0
  <2> DEFINE z == <<"Zero">>
  <2>1. NumberToWords(n) = z BY <1>1 DEF NumberToWords
  <2>2. z = <<>> \o z /\ <<>> \in Texts /\ "Zero" \in Word
    BY EmptySeq DEF Texts, Word
  <2>3. Heard(z) = ReadWord(Nothing, "Zero") BY <2>2, HeardFurther, HeardNothing
  <2>4. ReadWord(Nothing, "Zero") = Nothing BY HundredApart DEF ReadWord
  <2>5. Len(z) = 1 OBVIOUS
  <2>6. English(z) BY <2>5 DEF English
  <2>7. Read(z) = 0 BY <2>3, <2>4 DEF Read, Heard, Nothing
  <2> QED BY <1>1, <2>1, <2>6, <2>7
<1>2. CASE n # 0
  <2> DEFINE parts(b4, b3, b2, b1, b0) ==
               GroupWords(b4, 4) \o GroupWords(b3, 3) \o GroupWords(b2, 2)
               \o GroupWords(b1, 1) \o GroupWords(b0, 0)
             r1 == Thousands(n)
             g0 == LastGroup(n)
  <2>1. NumberToWords(n) = parts(LastGroup(Thousands(Thousands(Thousands(r1)))),
                                 LastGroup(Thousands(Thousands(r1))),
                                 LastGroup(Thousands(r1)), LastGroup(r1), g0)
    BY <1>2 DEF NumberToWords, LastGroup
  <2> HIDE DEF parts
  <2>2. r1 \in Nat /\ g0 \in Groups /\ n = 1000 * r1 + g0 BY ThousandsOf
  <2> DEFINE r2 == Thousands(r1)
             g1 == LastGroup(r1)
  <2> HIDE DEF r1, g0
  <2>3. r2 \in Nat /\ g1 \in Groups /\ r1 = 1000 * r2 + g1 BY <2>2, ThousandsOf
  <2> DEFINE r3 == Thousands(r2)
             g2 == LastGroup(r2)
  <2> HIDE DEF r2, g1
  <2>4. r3 \in Nat /\ g2 \in Groups /\ r2 = 1000 * r3 + g2 BY <2>3, ThousandsOf
  <2> DEFINE r4 == Thousands(r3)
             g3 == LastGroup(r3)
  <2> HIDE DEF r3, g2
  <2>5. r4 \in Nat /\ g3 \in Groups /\ r3 = 1000 * r4 + g3 BY <2>4, ThousandsOf
  <2> DEFINE g4 == LastGroup(r4)
  <2>15. NumberToWords(n) = parts(g4, g3, g2, g1, g0) BY <2>1 DEF r2, r3, g1, g2, g3
  <2>6. g4 = r4 /\ g4 \in Groups
    <3>1. r4 \in Nat /\ r4 < 1000 BY <2>5 DEF r1, r2, r3
    <3> HIDE DEF r4
    <3> QED BY <3>1, OneGroup
  <2> HIDE DEF r4, g3, g4
  <2> DEFINE t4 == GroupWords(g4, 4)
             s4 == 0 + Scaled(g4, 4)
  <2>7. Told(t4, 0, s4) /\ TakesOnes(t4) /\ s4 \in Nat
    <3>1. <<>> \o t4 = t4
      <4>1. CASE g4 = 0
        <5>1. t4 = <<>> BY <4>1 DEF GroupWords
        <5> QED BY <5>1, NoFurther, NothingTold DEF Told
      <4>2. CASE g4 # 0
        <5>1. ThreeDigitsWords(g4) \in Texts
          <6>1. 0 \in Nat OBVIOUS
          <6> QED BY <2>6, <4>2, <6>1, GroupTold, NothingTold
        <5>2. <<Scales[4]>> \in Texts BY WordKinds, OneText
        <5>3. ThreeDigitsWords(g4) \o <<Scales[4]>> \in Texts BY <5>1, <5>2, JoinedTexts
        <5>4. t4 = ThreeDigitsWords(g4) \o <<Scales[4]>> BY <4>2 DEF GroupWords, OneWord
        <5> QED BY <5>3, <5>4, NoFurther
      <4> QED BY <4>1, <4>2
    <3>2. 0 \in Nat /\ 4 \in 1..4 OBVIOUS
    <3>3. s4 \in Nat /\ Told(<<>> \o t4, 0, s4) /\ TakesOnes(<<>> \o t4)
      BY <2>6, <3>2, NothingTold, PartTold, Zenon
    <3> QED BY <3>1, <3>3
  <2> HIDE DEF t4, s4
  <2> DEFINE t3 == t4 \o GroupWords(g3, 3)
             s3 == s4 + Scaled(g3, 3)
  <2>8. Told(t3, 0, s3) /\ TakesOnes(t3) /\ s3 \in Nat
    <3>1. g3 \in Groups /\ 3 \in 1..4 BY <2>5
    <3>2. s3 \in Nat /\ Told(t3, 0, s3) /\ TakesOnes(t3)
      BY <2>7, <3>1, PartTold, Zenon
    <3> QED BY <2>7, <3>2
  <2> HIDE DEF t3, s3
  <2> DEFINE t2 == t3 \o GroupWords(g2, 2)
             s2 == s3 + Scaled(g2, 2)
  <2>9. Told(t2, 0, s2) /\ TakesOnes(t2) /\ s2 \in Nat
    <3>1. g2 \in Groups /\ 2 \in 1..4 BY <2>4
    <3>2. s2 \in Nat /\ Told(t2, 0, s2) /\ TakesOnes(t2)
      BY <2>8, <3>1, PartTold, Zenon
    <3> QED BY <2>8, <3>2
  <2> HIDE DEF t2, s2
  <2> DEFINE t1 == t2 \o GroupWords(g1, 1)
             s1 == s2 + Scaled(g1, 1)
  <2>10. Told(t1, 0, s1) /\ TakesOnes(t1) /\ s1 \in Nat
    <3>1. g1 \in Groups /\ 1 \in 1..4 BY <2>3
    <3>2. s1 \in Nat /\ Told(t1, 0, s1) /\ TakesOnes(t1)
      BY <2>9, <3>1, PartTold, Zenon
    <3> QED BY <2>9, <3>2
  <2> HIDE DEF t1, s1
  <2> DEFINE t0 == t1 \o GroupWords(g0, 0)
  <2>11. Told(t0, g0, s1) BY <2>2, <2>10, LastTold, Zenon
  <2>14. t0 = parts(g4, g3, g2, g1, g0) BY DEF parts, t1, t2, t3, t4
  <2> HIDE DEF t0
  <2>12. Read(t0) = s1 + g0 BY <2>11 DEF Read, Heard, Told
  <2>13. s1 + g0 = n
    <3>1. /\ Scaled(g4, 4) = g4 * 1000 * 1000 * 1000 * 1000 /\ Scaled(g3, 3) = g3 * 1000 * 1000 * 1000
          /\ Scaled(g2, 2) = g2 * 1000 * 1000 /\ Scaled(g1, 1) = g1 * 1000
      BY DEF Scaled
    <3> QED BY <2>2, <2>3, <2>4, <2>5, <2>6, <3>1 DEF Groups, s1, s2, s3, s4
  <2> QED BY <2>11, <2>12, <2>13, <2>14, <2>15 DEF Told
<1> QED BY <1>1, <1>2

\* What the document shows is no more than half a cent away from its total.
LEMMA AmountReads ==
  ASSUME NEW v \in Totals \cup {[whole |-> 0, mils |-> 0]}, shownTotal = v
  PROVE  WordsReadBack
<1> DEFINE rounded == (v.mils + 5) \div 10
           n == v.whole + (rounded \div 100)
           over == 1000 * (n - v.whole) + 10 * (rounded % 100) - v.mils
           said == AmountInWords(v)
<1>1. v.whole \in Nat /\ v.mils \in 0..999 BY WordsAssumption
<1>2. rounded \in 0..100 /\ 10 * rounded - v.mils \in -5..5 BY <1>1
<1>3. said.words = NumberToWords(n) /\ said.cents = rounded % 100 BY DEF AmountInWords
<1> HIDE DEF rounded, said
<1>4. n \in Nat /\ n <= v.whole + 1 /\ rounded % 100 \in 0..99 /\ over \in -5..5
  <2>1. CASE rounded = 100
    <3>1. rounded \div 100 = 1 /\ rounded % 100 = 0 BY <2>1
    <3>2. n = v.whole + 1 BY <3>1
    <3>3. over = 1000 - v.mils
      <4>1. n - v.whole = 1 BY <1>1, <3>2
      <4> QED BY <1>1, <3>1, <4>1
    <3>4. 1000 - v.mils \in -5..5 BY <1>1, <1>2, <2>1
    <3> HIDE DEF n, over
    <3> QED BY <1>1, <3>1, <3>2, <3>3, <3>4
  <2>2. CASE rounded # 100
    <3>1. rounded \div 100 = 0 /\ rounded % 100 = rounded BY <1>2, <2>2
    <3>2. n = v.whole BY <1>1, <3>1
    <3>3. over = 10 * rounded - v.mils
      <4>1. n - v.whole = 0 BY <1>1, <3>2
      <4> QED BY <1>1, <1>2, <3>1, <4>1
    <3> HIDE DEF n, over
    <3> QED BY <1>1, <1>2, <2>2, <3>1, <3>2, <3>3
  <2> QED BY <2>1, <2>2
<1> HIDE DEF n, over
<1>5. Thousands(Thousands(Thousands(Thousands(n)))) < 1000
  <2>1. \A a, b \in Nat : a <= b => /\ Thousands(a) \in Nat /\ Thousands(b) \in Nat
                                    /\ Thousands(a) <= Thousands(b)
    BY DEF Thousands
  <2> DEFINE T4(a) == Thousands(Thousands(Thousands(Thousands(a))))
  <2>2. T4(v.whole + 1) < 1000
    <3>1. CASE v \in Totals BY <3>1, WordsAssumption
    <3>2. CASE v = [whole |-> 0, mils |-> 0] BY <3>2 DEF Thousands
    <3> QED BY <3>1, <3>2
  <2> DEFINE m == v.whole + 1
  <2>3. n <= m /\ m \in Nat
    <3> HIDE DEF T4
    <3> QED BY <1>1, <1>4
  <2> HIDE DEF m
  <2>4. T4(n) \in Nat /\ T4(m) \in Nat /\ T4(n) <= T4(m)
    <3>1. n \in Nat /\ m \in Nat /\ n <= m BY <1>4, <2>3
    <3>2. Thousands(n) \in Nat /\ Thousands(m) \in Nat /\ Thousands(n) <= Thousands(m)
      BY <2>1, <3>1
    <3>3. /\ Thousands(Thousands(n)) \in Nat /\ Thousands(Thousands(m)) \in Nat
          /\ Thousands(Thousands(n)) <= Thousands(Thousands(m))
      BY <2>1, <3>2
    <3>4. /\ Thousands(Thousands(Thousands(n))) \in Nat /\ Thousands(Thousands(Thousands(m))) \in Nat
          /\ Thousands(Thousands(Thousands(n))) <= Thousands(Thousands(Thousands(m)))
      BY <2>1, <3>3
    <3> QED BY <2>1, <3>4
  <2> QED BY <2>2, <2>4 DEF m
<1>6. English(said.words) /\ Read(said.words) = n BY <1>3, <1>4, <1>5, NumberReads
<1>7. said.cents \in 0..99 BY <1>3, <1>4
<1>8. 1000 * (Read(said.words) - v.whole) + 10 * said.cents - v.mils \in -5..5
  <2>1. Read(said.words) = n /\ said.cents = rounded % 100 BY <1>3, <1>6
  <2> QED BY <1>4, <2>1 DEF over
<1> QED BY <1>6, <1>7, <1>8 DEF WordsReadBack, said

\* Whatever invoices are opened one after the other, what the document says of
\* a total is English, and is the total to half a cent (lib/format.ts
\* numberToWords, amountInWords).
THEOREM WordsSaidTrue == WordsSpec => []WordsReadBack
<1> DEFINE WInv == shownTotal \in Totals \cup {[whole |-> 0, mils |-> 0]}
<1>1. WordsInit => WInv BY DEF WordsInit
<1>2. WInv /\ [WordsNext]_shownTotal => WInv' BY DEF WordsNext, ShowTotal
<1>3. WInv => WordsReadBack BY AmountReads
<1> QED BY <1>1, <1>2, <1>3, PTL DEF WordsSpec

-----------------------------------------------------------------------------
(* The parts together                                                      *)

\* A behaviour of the dashboard is one of each of its parts, which stutters
\* while another part is open.
LEMMA PartsOfScreen ==
  MCSpec => FormSpec /\ SessionSpec /\ ToastSpec /\ RegisterSpec /\ AuditSpec /\ DeskSpec
            /\ WordsSpec /\ FiguresSpec
<1>1. MCInit => FormInit /\ SessionInit /\ ToastInit /\ RegisterInit /\ AuditInit /\ DeskInit
                /\ WordsInit /\ FiguresInit
  BY DEF MCInit
<1>2. [MCNext]_MCVars => /\ [FormNext]_PaymentVars /\ [SessionNext]_sessionVars /\ [ToastNext]_toastVars
                        /\ [RegisterNext]_registerVars /\ [AuditNext]_auditVars /\ [DeskNext]_deskVars
                        /\ [WordsNext]_shownTotal /\ [FiguresNext]_figuresVars
  BY DEF MCNext, MCVars, wordsVars
<1> QED
  BY <1>1, <1>2, PTL
  DEF MCSpec, FormSpec, SessionSpec, ToastSpec, RegisterSpec, AuditSpec, DeskSpec, WordsSpec, FiguresSpec

\* Every part of the dashboard keeps its types, and the flags of a page are those
\* of what it shows.
THEOREM ScreensTyped == MCSpec => []ScreensTypeOK
<1>1. FormInv => FormTypeOK BY DEF FormInv
<1> QED
  BY <1>1, PartsOfScreen, FormInvariance, OnlyRegisteredSignIn, RegisterTyped, CreatedAsSubmitted, PTL
  DEF ScreensTypeOK
=============================================================================
