-------------------------------- MODULE MCDesk --------------------------------
(* The parts of the dashboard, each on its own: a behaviour opens one of   *)
(* them, and the others keep their initial states.                         *)
EXTENDS PaymentForm, Session, Toasts, Register, AuditRows, InvoiceDesk, Words, Figures, TLC

MCAccountType ==
  [ann |-> "BUSINESS", kip |-> "BUSINESS", poolR |-> "SETTLEMENT", poolK |-> "SETTLEMENT"]
MCAccountCurrency == [ann |-> "RWF", kip |-> "KES", poolR |-> "RWF", poolK |-> "KES"]
MCAccounts == DOMAIN MCAccountType

MCCalls ==
  {[op |-> "cross", key |-> p, src |-> "ann", dst |-> "kip", from |-> "RWF", to |-> "KES",
    amt |-> n, rate |-> CorridorRate] : p \in Clicks, n \in Amounts}
  \cup {[op |-> "transfer", key |-> p, src |-> "ann", dst |-> "ann", from |-> "RWF", to |-> "RWF",
         amt |-> n, rate |-> 0] : p \in Clicks, n \in Amounts}
  \cup {Opened}

\* Two payments of one millisecond, after another one.
MCStamp == <<1, 2, 2>>

\* Two payments of one millisecond, and amounts with different sums.
MCWorth == <<1, 2, 4>>
MCInstant == <<0, 3, 3>>

\* Every ones and tens word, the edges of the groups of three digits and the
\* largest number TLC has, with cents that round down, up and into the whole.
MCTotals ==
  [whole : (0..120) \cup {199, 200, 999, 1000, 1001, 19000, 101500, 999999, 1000000, 2000013, 2147483646},
   mils : {0, 4, 5, 994, 995}]

VARIABLE screen

Screens == {"form", "session", "toasts", "register", "audit", "invoices", "words", "figures"}

wordsVars == <<shownTotal>>
MCVars == <<screen, PaymentVars, sessionVars, toastVars, registerVars, auditVars, deskVars, wordsVars, figuresVars>>

MCInit ==
  /\ screen \in Screens
  /\ FormInit /\ SessionInit /\ ToastInit /\ RegisterInit /\ AuditInit /\ DeskInit /\ WordsInit /\ FiguresInit
  /\ screen # "register" => booked = <<>> /\ ~onHistory /\ fetch.at = "idle"
  /\ screen # "audit" => ~history

MCNext ==
  \/ /\ screen = "form" /\ FormNext
     /\ UNCHANGED <<screen, sessionVars, toastVars, registerVars, auditVars, deskVars, wordsVars, figuresVars>>
  \/ /\ screen = "session" /\ SessionNext
     /\ UNCHANGED <<screen, PaymentVars, toastVars, registerVars, auditVars, deskVars, wordsVars, figuresVars>>
  \/ /\ screen = "toasts" /\ ToastNext
     /\ UNCHANGED <<screen, PaymentVars, sessionVars, registerVars, auditVars, deskVars, wordsVars, figuresVars>>
  \/ /\ screen = "register" /\ RegisterNext
     /\ UNCHANGED <<screen, PaymentVars, sessionVars, toastVars, auditVars, deskVars, wordsVars, figuresVars>>
  \/ /\ screen = "audit" /\ AuditNext
     /\ UNCHANGED <<screen, PaymentVars, sessionVars, toastVars, registerVars, deskVars, wordsVars, figuresVars>>
  \/ /\ screen = "invoices" /\ DeskNext
     /\ UNCHANGED <<screen, PaymentVars, sessionVars, toastVars, registerVars, auditVars, wordsVars, figuresVars>>
  \/ /\ screen = "words" /\ WordsNext
     /\ UNCHANGED <<screen, PaymentVars, sessionVars, toastVars, registerVars, auditVars, deskVars, figuresVars>>
  \/ /\ screen = "figures" /\ FiguresNext
     /\ UNCHANGED <<screen, PaymentVars, sessionVars, toastVars, registerVars, auditVars, deskVars, wordsVars>>

\* In an initial state none of the fair actions is enabled.
MCSpec ==
  /\ MCInit /\ [][MCNext]_MCVars
  /\ FormFairness /\ SessionFairness /\ ToastFairness
  /\ RegisterFairness /\ AuditFairness /\ DeskFairness

\* Every part keeps its types, and the flags of a page are those of what it shows.
ScreensTypeOK == FormTypeOK /\ SessionTypeOK /\ RegisterTypeOK /\ DeskTypeOK

\* No part of the dashboard stays busy: a payment, an attempt to sign in and an
\* invoice on its way end, whatever is clicked, left or lost, and a success or a
\* note passes.  The parts that do not move are at rest, so this implies
\* SubmitReturns, EntryEnds, DeskReturns and ToastsPass.
ScreensReturn == []<>(NoneSubmitting /\ NoneEntering /\ NoneIssuing /\ OnlyErrorsLeft)

\* What the user waits for comes, or the page says why not: the trader's own
\* payment and new invoice in their lists, the rows of an open payment; and the
\* storage comes to hold the trader who is signed in.  It implies OwnPaymentListed,
\* CreatedGetsListed, OpenedGetsRows and StoredFollows.
AwaitedArrives == []<>(OwnListed /\ ReportedListed /\ RowsThere /\ InStep)
=============================================================================
