----------------------------- MODULE InvoiceDesk -----------------------------
(***************************************************************************)
(* Issuing an invoice on the invoices page: the form, the engine that      *)
(* creates the invoice, and the list that is fetched again.  The fields    *)
(* can be edited while a submission is on its way; its answer empties      *)
(* them.  A press of the button names its submission.                      *)
(***************************************************************************)
EXTENDS Integers, Sequences

Seqs == INSTANCE SequencesExt

CONSTANTS
  Presses,
  InvoiceNumbers,  \* well-formed ones
  Partners,        \* the other traders of DEMO_PHONES
  Prices,          \* that users type, with quantity 1
  MaxLines

\* The empty field.
Blank == ""

ASSUME InvoiceDeskAssumption ==
  /\ Blank \notin InvoiceNumbers /\ Blank \notin Partners /\ "none" \notin Presses
  /\ Prices \subseteq Nat \ {0} /\ MaxLines \in Nat \ {0}

VARIABLES
  invoices,     \* the engine's invoices
  listed,       \* the numbers that the page's list shows
  listing,      \* the list is being fetched
  number, lines, billTo,
  partners,     \* availableCounterparties
  resolved,     \* loadCounterparties has ended
  noteBusy,     \* the press whose submission is on its way, or "none"
  rejected,     \* the form shows an error
  issued,       \* the form says "Invoice created successfully!"
  press,        \* press |-> its payload, the total shown then, how far it is
  told          \* history: the press that "created" is about

fieldVars == <<number, lines, billTo>>
pageVars == <<partners, resolved, noteBusy, rejected, issued, told>>
deskVars == <<invoices, listed, listing, fieldVars, pageVars, press>>

\* A line's description is what the submission looks at: spaces alone pass the
\* browser's "required" and are dropped by the form.
Line == [described : BOOLEAN, cost : Prices]
EmptyLine == [described |-> FALSE, cost |-> 0]

SumOf(ls) == Seqs!FoldFunction(LAMBDA l, sum : l.cost + sum, 0, ls)

\* The lines of the invoice, each at its place in the form.
Described(ls) == Seqs!Restrict(ls, {i \in DOMAIN ls : ls[i].described})

Items == UNION {[places -> Line] : places \in SUBSET (1..MaxLines)}

\* The number is in use, by an invoice of whatever content.
Taken(n) == \E i \in invoices : i.number = n

-----------------------------------------------------------------------------
(* The form                                                                *)

\* Each look-up may fail, or find nobody; the first one found is selected.
PartnersArrive ==
  /\ ~resolved /\ resolved' = TRUE
  /\ \E S \in SUBSET Partners :
       /\ partners' = S
       /\ billTo' = IF S = {} THEN billTo ELSE CHOOSE u \in S : TRUE
  /\ UNCHANGED <<invoices, listed, listing, number, lines, noteBusy, rejected, issued, told, press>>

Edit ==
  /\ \/ \E n \in InvoiceNumbers : number' = n /\ UNCHANGED <<lines, billTo>>
     \/ \E u \in partners : billTo' = u /\ UNCHANGED <<number, lines>>
     \/ \E i \in DOMAIN lines, l \in Line : lines' = [lines EXCEPT ![i] = l] /\ UNCHANGED <<number, billTo>>
  /\ UNCHANGED <<invoices, listed, listing, pageVars, press>>

AddLine ==
  /\ Len(lines) < MaxLines /\ lines' = Append(lines, EmptyLine)
  /\ UNCHANGED <<invoices, listed, listing, number, billTo, pageVars, press>>

RemoveLine(i) ==
  /\ i \in DOMAIN lines /\ Len(lines) > 1 /\ lines' = Seqs!RemoveAt(lines, i)
  /\ UNCHANGED <<invoices, listed, listing, number, billTo, pageVars, press>>

\* A document or a payment takes the form's place and is closed again; the list
\* has invoices of others to open.  A new form does not know of a submission
\* that is on its way.
ReopenForm ==
  /\ number' = Blank /\ lines' = <<EmptyLine>> /\ billTo' = Blank
  /\ partners' = {} /\ resolved' = FALSE
  /\ noteBusy' = "none" /\ rejected' = FALSE /\ issued' = FALSE /\ told' = "none"
  /\ UNCHANGED <<invoices, listed, listing, press>>

\* What the browser requires of the fields, and the button.
CanSubmit ==
  /\ noteBusy = "none" /\ partners # {} /\ number # Blank
  /\ \A i \in DOMAIN lines : lines[i].cost > 0

\* The lines without a description are left out of the invoice, not of the total.
\* Without any line there is an error, beside what the form said before.
SubmitInvoice(p) ==
  /\ CanSubmit /\ press[p].at = "idle"
  /\ IF Described(lines) = <<>>
     THEN rejected' = TRUE /\ UNCHANGED <<noteBusy, issued, told, press>>
     ELSE /\ noteBusy' = p /\ rejected' = FALSE /\ issued' = FALSE /\ told' = p
          /\ press' = [press EXCEPT ![p] =
               [at |-> "sent", number |-> number, to |-> billTo, items |-> Described(lines),
                total |-> SumOf(lines), blank |-> \E i \in DOMAIN lines : ~lines[i].described]]
  /\ UNCHANGED <<invoices, listed, listing, fieldVars, partners, resolved>>

-----------------------------------------------------------------------------
(* The engine                                                              *)

Reply(p, s) == press' = [press EXCEPT ![p].at = s]

Recorded(p) == [number |-> press[p].number, to |-> press[p].to, items |-> press[p].items, by |-> p]

\* Mutant: a used number is answered like a repeated payment, with what is there.
CreateOrReplay(p) ==
  /\ press[p].at = "sent"
  /\ IF Taken(press[p].number) THEN Reply(p, "ok") /\ UNCHANGED invoices
     ELSE /\ invoices' = invoices \cup {Recorded(p)}
          /\ \E s \in {"ok", "failed"} : Reply(p, s)
  /\ UNCHANGED <<listed, listing, fieldVars, pageVars>>

\* One transaction; the number is UNIQUE.  The invoice is read again for the
\* answer: it may be created although the answer is an error.
CreateInvoice(p) ==
  /\ press[p].at = "sent"
  /\ \/ /\ ~Taken(press[p].number) /\ invoices' = invoices \cup {Recorded(p)}
        /\ \E s \in {"ok", "failed"} : Reply(p, s)
     \/ Reply(p, "failed") /\ UNCHANGED invoices
  /\ UNCHANGED <<listed, listing, fieldVars, pageVars>>

-----------------------------------------------------------------------------
(* The answer                                                              *)

Reported(p) == Reply(p, IF press[p].at = "ok" THEN "reported" ELSE "over")

\* A success empties the fields, whatever has been typed into them meanwhile.  A
\* form that has been reopened takes no answer, but the page fetches its list.
InvoiceAnswered(p) ==
  /\ press[p].at \in {"ok", "failed"} /\ Reported(p)
  /\ listing' = (listing \/ press[p].at = "ok")
  /\ \/ /\ noteBusy = p /\ noteBusy' = "none"
        /\ \/ /\ press[p].at = "ok" /\ issued' = TRUE
              /\ number' = Blank /\ lines' = <<EmptyLine>> /\ UNCHANGED rejected
           \/ press[p].at = "failed" /\ rejected' = TRUE /\ UNCHANGED <<number, lines, issued>>
     \/ noteBusy # p /\ UNCHANGED <<number, lines, noteBusy, rejected, issued>>
  /\ UNCHANGED <<invoices, listed, billTo, partners, resolved, told>>

\* The list arrives, or the page says that it has not.
InvoicesListed ==
  /\ listing /\ listing' = FALSE
  /\ listed' \in {{i.number : i \in invoices}, {"error"}}
  /\ UNCHANGED <<invoices, fieldVars, pageVars, press>>

RefreshInvoices ==
  /\ "error" \in listed /\ ~listing /\ listing' = TRUE
  /\ UNCHANGED <<invoices, listed, fieldVars, pageVars, press>>

-----------------------------------------------------------------------------
\* The page has been opened, and its list has arrived: it is empty.
DeskInit ==
  /\ invoices = {} /\ listed = {} /\ listing = FALSE
  /\ number = Blank /\ lines = <<EmptyLine>> /\ billTo = Blank
  /\ partners = {} /\ resolved = FALSE
  /\ noteBusy = "none" /\ rejected = FALSE /\ issued = FALSE /\ told = "none"
  /\ press = [p \in Presses |-> [at |-> "idle", number |-> Blank, to |-> Blank, items |-> <<>>,
                                 total |-> 0, blank |-> FALSE]]

DeskNext ==
  \/ PartnersArrive \/ Edit \/ AddLine \/ ReopenForm \/ InvoicesListed \/ RefreshInvoices
  \/ \E i \in 1..MaxLines : RemoveLine(i)
  \/ \E p \in Presses : SubmitInvoice(p) \/ CreateInvoice(p) \/ InvoiceAnswered(p)

DeskSpec == DeskInit /\ [][DeskNext]_deskVars

DeskFairness ==
  /\ \A p \in Presses : WF_deskVars(CreateInvoice(p)) /\ WF_deskVars(InvoiceAnswered(p))
  /\ WF_deskVars(InvoicesListed)

-----------------------------------------------------------------------------
(* Properties                                                              *)

\* Types; somebody is billed as soon as there is somebody to bill.
DeskTypeOK ==
  /\ \A i \in invoices : i.number \in InvoiceNumbers /\ i.to \in Partners /\ i.items \in Items
  /\ number \in InvoiceNumbers \cup {Blank} /\ lines \in Seq(Line \cup {EmptyLine}) /\ Len(lines) \in 1..MaxLines
  /\ partners \subseteq Partners /\ (partners # {} => billTo \in partners)
  /\ {noteBusy, told} \subseteq Presses \cup {"none"} /\ {rejected, issued} \subseteq BOOLEAN

\* "Invoice created successfully" speaks of the invoice that was submitted: a
\* retry after a lost answer, with other lines, is not answered with the first
\* one, and a form that has been left and opened again does not take the answer
\* of another one.  An invoice asks for the total that its issuer saw, although the form
\* drops lines: only those the issuer has left without a description
\* (InvoiceForm.tsx submit, CreateInvoice).
CreatedIsSubmitted ==
  /\ issued =>
       \E i \in invoices : i.by = told /\ i.number = press[told].number /\ i.items = press[told].items
  /\ \A i \in invoices : SumOf(i.items) = press[i.by].total \/ press[i.by].blank

\* An invoice that was reported created comes into the list, unless the page
\* says that the list could not be fetched.
ReportedListed ==
  \A p \in Presses : press[p].at = "reported" => press[p].number \in listed \/ "error" \in listed
CreatedGetsListed == []<>ReportedListed

\* A submission ends, and the form can be used again.
NoneIssuing == noteBusy = "none"
DeskReturns == []<>NoneIssuing
=============================================================================
