------------------------------ MODULE AuditRows ------------------------------
(***************************************************************************)
(* The ledger rows of a payment, on the payments page, which keeps one set *)
(* of rows, and on the history page, which keeps those of every payment    *)
(* that was opened.  A click names the fetch it makes; nothing cancels it. *)
(***************************************************************************)
EXTENDS Integers

CONSTANTS
  Looks,      \* clicks that fetch rows
  MaxRecords  \* payments of the register, numbered

ASSUME AuditAssumption == MaxRecords \in Nat

VARIABLES
  history,    \* the page: History, or Transfers
  undone,     \* the payments that have been reversed
  openRow,    \* detail, openId: the payment that is open, or 0
  look,       \* click |-> the payment it asks for, how far it is, what it brings
  panel,      \* Transfers: entries
  expanded,   \* History: payment |-> the rows kept for it
  overlap     \* history: a payment was opened while another fetch was on its way

auditVars == <<history, undone, openRow, look, panel, expanded, overlap>>

Records == 1..MaxRecords

\* A payment's rows are told apart from another one's, and by their contra rows.
NotYet == [of |-> 0, reversed |-> FALSE]
NoRows == [of |-> 0, reversed |-> TRUE]     \* [], after a failure
RowsOf(n) == [of |-> n, reversed |-> n \in undone]
AnyRows == {NotYet, NoRows} \cup [of : Records, reversed : BOOLEAN]

-----------------------------------------------------------------------------
UndoRecord(n) ==
  /\ n \notin undone /\ undone' = undone \cup {n}
  /\ UNCHANGED <<history, openRow, look, panel, expanded, overlap>>

CloseRow(n) ==
  /\ openRow = n /\ openRow' = 0 /\ panel' = NotYet
  /\ UNCHANGED <<history, undone, look, expanded, overlap>>

\* toggleEntries fetches only what it has not kept.
FetchRows(k, n) ==
  IF history /\ expanded[n] # NotYet THEN UNCHANGED <<look, overlap>>
  ELSE /\ look[k].at = "idle"
       /\ look' = [look EXCEPT ![k] = [at |-> "asked", of |-> n, rows |-> NotYet]]
       /\ overlap' = (overlap \/ \E j \in Looks : look[j].at \in {"asked", "sent"})

OpenRow(k, n) ==
  /\ openRow # n /\ openRow' = n /\ panel' = NotYet /\ FetchRows(k, n)
  /\ UNCHANGED <<history, undone, expanded>>

EntriesServed(k) ==
  /\ look[k].at = "asked"
  /\ \E rows \in {RowsOf(look[k].of), NoRows} :
       look' = [look EXCEPT ![k] = [@ EXCEPT !.at = "sent", !.rows = rows]]
  /\ UNCHANGED <<history, undone, openRow, panel, expanded, overlap>>

Arrived(k) == look[k].at = "sent" /\ look' = [look EXCEPT ![k].at = "over"]

\* Mutant: rows are kept for the payment that is open by then.
KeepForOpenRow(k) ==
  /\ Arrived(k)
  /\ IF history
     THEN /\ expanded' = IF openRow = 0 THEN expanded ELSE [expanded EXCEPT ![openRow] = look[k].rows]
          /\ UNCHANGED panel
     ELSE panel' = look[k].rows /\ UNCHANGED expanded
  /\ UNCHANGED <<history, undone, openRow, overlap>>

\* History keeps rows by payment; Transfers shows what has come last.
EntriesArrive(k) ==
  /\ Arrived(k)
  /\ IF history
     THEN expanded' = [expanded EXCEPT ![look[k].of] = look[k].rows] /\ UNCHANGED panel
     ELSE panel' = look[k].rows /\ UNCHANGED expanded
  /\ UNCHANGED <<history, undone, openRow, overlap>>

\* What stands under the title of the open payment: a blank until rows come.
RowsShown ==
  IF openRow = 0 THEN NotYet ELSE IF history THEN expanded[openRow] ELSE panel

-----------------------------------------------------------------------------
AuditInit ==
  /\ history \in BOOLEAN /\ undone = {} /\ openRow = 0
  /\ look = [k \in Looks |-> [at |-> "idle", of |-> 0, rows |-> NotYet]]
  /\ panel = NotYet /\ expanded = [n \in Records |-> NotYet] /\ overlap = FALSE

AuditNext ==
  \/ \E n \in Records : UndoRecord(n) \/ CloseRow(n) \/ \E k \in Looks : OpenRow(k, n)
  \/ \E k \in Looks : EntriesServed(k) \/ EntriesArrive(k)

AuditSpec == AuditInit /\ [][AuditNext]_auditVars

AuditFairness == \A k \in Looks : WF_auditVars(EntriesServed(k)) /\ WF_auditVars(EntriesArrive(k))

-----------------------------------------------------------------------------
(* Properties                                                              *)

\* A payment that stays open gets rows, or the empty list of a failure.
RowsThere == openRow \in Records => RowsShown # NotYet
OpenedGetsRows == []<>RowsThere

\* The rows under the title of a payment are that payment's: always on the
\* history page, and on the payments page as long as no two fetches overlap.
\* When they do, an answer to an earlier click that comes last puts another
\* payment's rows there (History.tsx toggleEntries, Transfers.tsx showEntries).
AuditIsOfItsPayment ==
  openRow # 0 /\ (history \/ ~overlap) => RowsShown.of \in {0, openRow}
=============================================================================
