----------------------------- MODULE AtomicLedger -----------------------------
(***************************************************************************)
(* What the ledger engine promises to its clients: every payment, funding  *)
(* and reversal happens at one instant.  A key pays once, a payment never  *)
(* takes more than the balance at that instant, and a transfer is reversed *)
(* once.  There are no locks, no database transactions and no failures     *)
(* here: a request that fails does not happen at all.                      *)
(***************************************************************************)
CONSTANTS
  Requests, None,
  Calls,                 \* the payments and reversals clients ask for
  WellFormed(_),         \* is the call one the engine accepts?
  Authorised(_),         \* account type and currencies are right
  Covered(_, _),         \* do the rows hold the money the call takes?
  HeaderOf(_),           \* the header a call records
  PaymentRows(_, _),     \* the rows a payment writes
  ContraRows(_, _, _)    \* the rows a reversal writes

VARIABLES
  headers,   \* request |-> the header it recorded, or None
  entries    \* the rows written so far

vars == <<headers, entries>>

Init ==
  /\ headers = [r \in Requests |-> None]
  /\ entries = {}

KeyUnused(k) == \A h \in Requests : headers[h] # None => headers[h].key # k

\* A transfer, a cross-border transfer or a funding takes place.
Pay(r, c) ==
  /\ c.op # "reverse"
  /\ WellFormed(c) /\ Authorised(c)
  /\ headers[r] = None
  /\ KeyUnused(c.key)
  /\ Covered(entries, c)
  /\ headers' = [headers EXCEPT ![r] = HeaderOf(c)]
  /\ entries' = entries \cup PaymentRows(r, c)

\* A transfer is reversed, once.
Reverse(r, h) ==
  /\ headers[h] # None
  /\ headers[h].status = "SUCCESS"
  /\ headers' = [headers EXCEPT ![h].status = "REVERSED"]
  /\ entries' = entries \cup ContraRows(r, h, headers[h])

Next ==
  \E r \in Requests : \/ \E c \in Calls : Pay(r, c)
                      \/ \E h \in Requests : Reverse(r, h)

Spec == Init /\ [][Next]_vars
=============================================================================
