----------------------------- MODULE LedgerProofs -----------------------------
(***************************************************************************)
(* Proofs about Ledger, for all values of its constants: its invariants,   *)
(* what the rows of the books sum to, and that the engine implements       *)
(* AtomicLedger and LedgerService, on which its callers rely.  LedgerInv   *)
(* is the inductive invariant of the engine, TraceInv and RowsInv add what *)
(* a request leaves behind and what a header's rows are.                   *)
(***************************************************************************)
EXTENDS Ledger, BooksProofs

-----------------------------------------------------------------------------
(* Calls                                                                   *)

\* The call of a request that has received one is a payment or a reversal.
LEMMA CallKind ==
  ASSUME TypeOK, CallInv, NEW r \in Requests, pc[r] # "idle"
  PROVE  /\ call[r] # None /\ call[r] \in Calls
         /\ call[r].op = "reverse" => call[r] \in Reversal
         /\ call[r].op # "reverse" => call[r] \in Payment
BY BooksAssumption DEF TypeOK, CallInv, Payment, Reversal

-----------------------------------------------------------------------------
(* Steps                                                                   *)

\* Only a statement that locks or inserts can be part of a deadlock.
LEMMA WaitPC ==
  ASSUME NEW r \in Requests, OnCycle(r)
  PROVE  pc[r] \in UpdatePC \cup SharePC \cup {"insert"}
BY DEF OnCycle, Knot, Blockers

\* No step makes a request execute a statement of another operation.
LEMMA CallStep ==
  ASSUME LedgerInv, NEW r \in Requests, Act(r)
  PROVE  CallInv'
<1> USE DEF TypeOK, CallInv, PayPC, ContraPC, PC, InTx, UpdatePC, SharePC, Goto,
     LockAndGoto, Release, Return, ReturnSame, tables, txs, session, LedgerInv
<1>1. CASE Receive(r)
  BY <1>1, CallFields, BooksAssumption DEF Receive, FirstStep
<1>2. CASE Lookup(r)
  BY <1>2 DEF Lookup
<1>3. CASE LockSource(r)
  BY <1>3, CallKind, CallFields DEF LockSource
<1>4. CASE LockDestination(r)
  BY <1>4 DEF LockDestination
<1>5. CASE CheckBalance(r)
  BY <1>5 DEF CheckBalance
<1>6. CASE LockSettlement(r)
  BY <1>6 DEF LockSettlement
<1>7. CASE InsertHeader(r)
  BY <1>7, CallKind, CallFields DEF InsertHeader
<1>8. CASE Claim(r)
  BY <1>8 DEF Claim
<1>9. CASE RailPays(r)
  BY <1>9 DEF RailPays
<1>10. CASE RailRefuses(r)
  BY <1>10 DEF RailRefuses
<1>11. CASE PostEntries(r)
  BY <1>11 DEF PostEntries
<1>12. CASE CommitPayment(r)
  BY <1>12 DEF CommitPayment
<1>13. CASE Replay(r)
  BY <1>13 DEF Replay
<1>14. CASE Fetch(r)
  BY <1>14 DEF Fetch
<1>15. CASE LockHeader(r)
  BY <1>15 DEF LockHeader
<1>16. CASE LockContra(r)
  BY <1>16 DEF LockContra
<1>17. CASE PostContra(r)
  BY <1>17 DEF PostContra
<1>18. CASE CommitReversal(r)
  BY <1>18 DEF CommitReversal
<1>19. CASE DeadlockAbort(r)
  BY <1>19, WaitPC DEF DeadlockAbort
<1>20. CASE Fail(r)
  BY <1>20 DEF Fail
<1> QED
  BY <1>1, <1>2, <1>3, <1>4, <1>5, <1>6, <1>7, <1>8, <1>9, <1>10, <1>11, <1>12, <1>13,
       <1>14, <1>15, <1>16, <1>17, <1>18, <1>19, <1>20 DEF Act, Step

-----------------------------------------------------------------------------
(* Committed headers                                                       *)

\* A committed header shows the checked call that it came from; a rate in it
\* means that both currencies have a settlement account.
LEMMA RecordedHeader ==
  ASSUME LedgerInv, NEW h \in Requests, headers[h] # None
  PROVE  /\ headers[h] \in Header
         /\ call[h] \in Calls /\ call[h].op # "reverse" /\ Authorised(call[h])
         /\ headers[h].key = call[h].key
         /\ headers[h].src = call[h].src /\ headers[h].dst = call[h].dst
         /\ headers[h].src \in Accounts /\ headers[h].dst \in Accounts /\ headers[h].key \in Keys
         /\ headers[h].fx \in Nat
         /\ headers[h].status \in {"SUCCESS", "REVERSED"}
         /\ headers[h].fx > 0 => /\ SettlementAccounts(AccountCurrency[headers[h].src]) # {}
                                 /\ SettlementAccounts(AccountCurrency[headers[h].dst]) # {}
<1>1. headers[h] \in Header
  BY DEF LedgerInv, TypeOK
<1>2. call[h] \in Calls /\ call[h].op # "reverse" /\ Authorised(call[h])
  BY DEF LedgerInv, TypeOK, Checked
<1>3. headers[h] = [HeaderOf(call[h]) EXCEPT !.status = headers[h].status]
  BY DEF LedgerInv, Checked
<1>4. /\ headers[h].key = call[h].key /\ headers[h].fx = HeaderOf(call[h]).fx
      /\ headers[h].src = call[h].src /\ headers[h].dst = call[h].dst
  BY <1>3 DEF HeaderOf
<1>5. headers[h].fx > 0 => call[h].op = "cross"
  BY <1>2, <1>4, HeaderType
<1>6. /\ headers[h].src \in Accounts /\ headers[h].dst \in Accounts /\ headers[h].key \in Keys
      /\ headers[h].fx \in Nat /\ headers[h].status \in {"SUCCESS", "REVERSED"}
  BY <1>1 DEF Header
<1> QED
  BY <1>1, <1>2, <1>4, <1>5, <1>6 DEF Authorised

\* What a statement locks is a row of the right table.
LEMMA WantsType ==
  ASSUME LedgerInv, NEW r \in Requests
  PROVE  /\ pc[r] \in {"lockSrc", "lockDst"} => Wants(r) \in Accounts
         /\ pc[r] \in {"lockFrom", "lockTo"} /\ Wants(r) # None => Wants(r) \in Accounts
         /\ pc[r] = "lockHeader" => Wants(r) \in Requests
         /\ pc[r] \in ContraPC => Wants(r) \in Accounts
<1>1. pc[r] \in {"lockSrc", "lockDst"} => Wants(r) \in Accounts
  BY CallKind, CallFields DEF LedgerInv, CallInv, PayPC, Wants
<1>2. pc[r] \in {"lockFrom", "lockTo"} /\ Wants(r) # None => Wants(r) \in Accounts
  BY SettlementAccount DEF Wants, Settlement
<1>3. pc[r] = "lockHeader" => Wants(r) \in Requests
  BY CallKind, CallFields DEF LedgerInv, CallInv, Wants
<1>4. ASSUME pc[r] \in ContraPC PROVE Wants(r) \in Accounts
  <2>1. call[r].target \in Requests
    BY <1>4, CallKind, CallFields DEF LedgerInv, CallInv, ContraPC
  <2>2. Original(r) # None
    BY <1>4 DEF LedgerInv, ReversalLocks, Reversible
  <2>3. /\ Original(r).src \in Accounts /\ Original(r).dst \in Accounts
        /\ Original(r).fx > 0 => /\ SettlementAccounts(AccountCurrency[Original(r).src]) # {}
                                 /\ SettlementAccounts(AccountCurrency[Original(r).dst]) # {}
    BY <2>1, <2>2, RecordedHeader DEF Original
  <2>4. pc[r] \in {"contraFrom", "contraDst", "contraTo"} => Original(r).fx > 0
    BY DEF LedgerInv, ReversalLocks
  <2> QED
    BY <1>4, <2>3, <2>4, SettlementAccount DEF Wants, ContraPC
<1> QED
  BY <1>1, <1>2, <1>3, <1>4

\* A reversal past its first lock has a SUCCESS header to reverse.
LEMMA OriginalType ==
  ASSUME LedgerInv, NEW r \in Requests, pc[r] \in ContraPC \/ (pc[r] = "commit" /\ call[r].op = "reverse")
  PROVE  /\ call[r].target \in Requests
         /\ Original(r) # None /\ Original(r) \in Header
         /\ Original(r).status = "SUCCESS"
         /\ Original(r).fx > 0 => /\ SettlementAccounts(AccountCurrency[Original(r).src]) # {}
                                  /\ SettlementAccounts(AccountCurrency[Original(r).dst]) # {}
<1>1. call[r].target \in Requests
  BY CallKind, CallFields DEF LedgerInv, CallInv, ContraPC
<1>2. Original(r) # None /\ Original(r).status = "SUCCESS"
  BY DEF LedgerInv, ReversalLocks, Reversible, Original
<1> QED
  BY <1>1, <1>2, RecordedHeader DEF Original

\* Every step keeps the state well-typed.
LEMMA TypeStep ==
  ASSUME LedgerInv, NEW r \in Requests, Act(r)
  PROVE  TypeOK'
<1> USE DEF TypeOK, PC, InTx, UpdatePC, SharePC, Goto, LockAndGoto, Release, Return,
     ReturnSame, tables, txs, session, LedgerInv
<1>1. CASE Receive(r)
  BY <1>1, CallFields DEF Receive, FirstStep
<1>2. CASE Lookup(r)
  BY <1>2, CallKind, CallFields DEF Lookup, CallInv, PayPC
<1>3. CASE LockSource(r)
  BY <1>3, WantsType DEF LockSource
<1>4. CASE LockDestination(r)
  BY <1>4, WantsType DEF LockDestination
<1>5. CASE CheckBalance(r)
  BY <1>5 DEF CheckBalance
<1>6. CASE LockSettlement(r)
  BY <1>6, WantsType DEF LockSettlement
<1>7. CASE InsertHeader(r)
  BY <1>7 DEF InsertHeader
<1>8. CASE Claim(r)
  BY <1>8 DEF Claim
<1>9. CASE RailPays(r)
  BY <1>9 DEF RailPays
<1>10. CASE RailRefuses(r)
  BY <1>10 DEF RailRefuses
<1>11. CASE PostEntries(r)
  BY <1>11, CallKind, CallFields, PaymentRowsType DEF PostEntries, CallInv, Checked, Inserted
<1>12. CASE CommitPayment(r)
  BY <1>12, CallKind, CallFields, HeaderType DEF CommitPayment
<1>13. CASE Replay(r)
  BY <1>13 DEF Replay
<1>14. CASE Fetch(r)
  BY <1>14 DEF Fetch
<1>15. CASE LockHeader(r)
  BY <1>15, WantsType DEF LockHeader
<1>16. CASE LockContra(r)
  BY <1>16, WantsType DEF LockContra, ContraPC
<1>17. CASE PostContra(r)
  <2>1. pc[r] \in ContraPC
    BY <1>17 DEF PostContra, ContraPC
  <2>2. Wants(r) \in Accounts
    BY <2>1, WantsType
  <2>3. ContraRows(r, call[r].target, Original(r)) \subseteq Row
    BY <2>1, OriginalType, ContraRowsType
  <2> QED
    BY <1>17, <2>2, <2>3 DEF PostContra
<1>18. CASE CommitReversal(r)
  BY <1>18, OriginalType DEF CommitReversal, MarkReversed, Original, Header
<1>19. CASE DeadlockAbort(r)
  BY <1>19 DEF DeadlockAbort
<1>20. CASE Fail(r)
  BY <1>20 DEF Fail
<1> QED
  BY <1>1, <1>2, <1>3, <1>4, <1>5, <1>6, <1>7, <1>8, <1>9, <1>10, <1>11, <1>12, <1>13,
       <1>14, <1>15, <1>16, <1>17, <1>18, <1>19, <1>20 DEF Act, Step

-----------------------------------------------------------------------------
(* What a step leaves alone                                                *)

\* A step of one request leaves the other requests' transactions alone.
LEMMA Frame ==
  ASSUME TypeOK, NEW r \in Requests, Act(r), NEW q \in Requests, q # r
  PROVE  /\ pc'[q] = pc[q] /\ call'[q] = call[q]
         /\ locked'[q] = locked[q] /\ shared'[q] = shared[q] /\ staged'[q] = staged[q]
<1> USE DEF TypeOK, Goto, LockAndGoto, Release, Return, ReturnSame, tables, txs, session
<1>1. CASE Receive(r)
  BY <1>1 DEF Receive
<1>2. CASE Lookup(r)
  BY <1>2 DEF Lookup
<1>3. CASE LockSource(r)
  BY <1>3 DEF LockSource
<1>4. CASE LockDestination(r)
  BY <1>4 DEF LockDestination
<1>5. CASE CheckBalance(r)
  BY <1>5 DEF CheckBalance
<1>6. CASE LockSettlement(r)
  BY <1>6 DEF LockSettlement
<1>7. CASE InsertHeader(r)
  BY <1>7 DEF InsertHeader
<1>8. CASE Claim(r)
  BY <1>8 DEF Claim
<1>9. CASE RailPays(r)
  BY <1>9 DEF RailPays
<1>10. CASE RailRefuses(r)
  BY <1>10 DEF RailRefuses
<1>11. CASE PostEntries(r)
  BY <1>11 DEF PostEntries
<1>12. CASE CommitPayment(r)
  BY <1>12 DEF CommitPayment
<1>13. CASE Replay(r)
  BY <1>13 DEF Replay
<1>14. CASE Fetch(r)
  BY <1>14 DEF Fetch
<1>15. CASE LockHeader(r)
  BY <1>15 DEF LockHeader
<1>16. CASE LockContra(r)
  BY <1>16 DEF LockContra
<1>17. CASE PostContra(r)
  BY <1>17 DEF PostContra
<1>18. CASE CommitReversal(r)
  BY <1>18 DEF CommitReversal
<1>19. CASE DeadlockAbort(r)
  BY <1>19 DEF DeadlockAbort
<1>20. CASE Fail(r)
  BY <1>20 DEF Fail
<1> QED
  BY <1>1, <1>2, <1>3, <1>4, <1>5, <1>6, <1>7, <1>8, <1>9, <1>10, <1>11, <1>12, <1>13,
       <1>14, <1>15, <1>16, <1>17, <1>18, <1>19, <1>20 DEF Act, Step

\* Only the two commits change the tables.
LEMMA TablesFrame ==
  ASSUME NEW r \in Requests, Act(r), ~CommitPayment(r), ~CommitReversal(r)
  PROVE  UNCHANGED tables
<1> USE DEF Goto, LockAndGoto, Release, Return, ReturnSame, tables, txs, session
<1>1. CASE Receive(r)
  BY <1>1 DEF Receive
<1>2. CASE Lookup(r)
  BY <1>2 DEF Lookup
<1>3. CASE LockSource(r)
  BY <1>3 DEF LockSource
<1>4. CASE LockDestination(r)
  BY <1>4 DEF LockDestination
<1>5. CASE CheckBalance(r)
  BY <1>5 DEF CheckBalance
<1>6. CASE LockSettlement(r)
  BY <1>6 DEF LockSettlement
<1>7. CASE InsertHeader(r)
  BY <1>7 DEF InsertHeader
<1>8. CASE Claim(r)
  BY <1>8 DEF Claim
<1>9. CASE RailPays(r)
  BY <1>9 DEF RailPays
<1>10. CASE RailRefuses(r)
  BY <1>10 DEF RailRefuses
<1>11. CASE PostEntries(r)
  BY <1>11 DEF PostEntries
<1>12. CASE CommitPayment(r)
  BY <1>12 DEF CommitPayment
<1>13. CASE Replay(r)
  BY <1>13 DEF Replay
<1>14. CASE Fetch(r)
  BY <1>14 DEF Fetch
<1>15. CASE LockHeader(r)
  BY <1>15 DEF LockHeader
<1>16. CASE LockContra(r)
  BY <1>16 DEF LockContra
<1>17. CASE PostContra(r)
  BY <1>17 DEF PostContra
<1>18. CASE CommitReversal(r)
  BY <1>18 DEF CommitReversal
<1>19. CASE DeadlockAbort(r)
  BY <1>19 DEF DeadlockAbort
<1>20. CASE Fail(r)
  BY <1>20 DEF Fail
<1> QED
  BY <1>1, <1>2, <1>3, <1>4, <1>5, <1>6, <1>7, <1>8, <1>9, <1>10, <1>11, <1>12, <1>13,
       <1>14, <1>15, <1>16, <1>17, <1>18, <1>19, <1>20 DEF Act, Step

\* A header appears when its own request commits, and changes only when a
\* request that has it locked commits its reversal.
LEMMA HeadersFrame ==
  ASSUME LedgerInv, NEW r \in Requests, Act(r), NEW h \in Requests
  PROVE  \/ headers'[h] = headers[h]
         \/ /\ CommitPayment(r) /\ h = r /\ pc[r] = "commit" /\ headers[h] = None
            /\ headers'[h] = HeaderOf(call[r])
         \/ /\ CommitReversal(r) /\ h = call[r].target /\ h \in locked[r]
            /\ headers[h] # None /\ headers[h].status = "SUCCESS"
            /\ headers'[h] = [headers[h] EXCEPT !.status = "REVERSED"]
<1>1. CASE CommitPayment(r)
  BY <1>1 DEF CommitPayment, LedgerInv, KeyInv, TypeOK
<1>2. CASE CommitReversal(r)
  <2>1. call[r].target \in Requests
    BY <1>2, OriginalType DEF CommitReversal
  <2>2. /\ call[r].target \in locked[r] /\ headers[call[r].target] # None
        /\ headers[call[r].target].status = "SUCCESS"
    BY <1>2 DEF CommitReversal, LedgerInv, ReversalLocks, Reversible, Original
  <2> QED
    BY <1>2, <2>1, <2>2 DEF CommitReversal, MarkReversed, LedgerInv, TypeOK
<1> QED
  BY <1>1, <1>2, TablesFrame DEF tables

\* A header locked by one request is changed by no other.
LEMMA HeldHeader ==
  ASSUME LedgerInv, NEW r \in Requests, Act(r), NEW q \in Requests, q # r,
         NEW h \in Requests, h \in locked[q], headers[h] # None
  PROVE  headers'[h] = headers[h]
BY HeadersFrame DEF LedgerInv, LocksExclude

\* What the acting request can become: it inserts its header only when its key
\* is free, and may spend only what the balance check has found.
LEMMA Moves ==
  ASSUME LedgerInv, NEW r \in Requests, Act(r)
  PROVE  /\ pc[r] # "done"
         /\ pc[r] = "idle" => ~Inserted(r)' /\ ~Spending(r)'
         /\ pc[r] # "idle" => call'[r] = call[r]
         /\ pc[r] = "fetch" => pc'[r] = "done"
         /\ Inserted(r)' /\ ~Inserted(r) =>
              pc[r] = "insert" /\ Blockers(r) = {} /\ ~KeyTaken(call[r].key)
         /\ pc'[r] = "claim" => pc[r] = "insert" /\ ~KeyTaken(call[r].key)
         /\ Spending(r)' /\ ~Spending(r) => Balance(entries, call[r].src) >= call[r].amt
<1> USE DEF Inserted, Spending, LedgerInv, TypeOK, Goto, LockAndGoto, Release, Return,
     ReturnSame, tables, txs, session
<1>1. CASE Receive(r)
  BY <1>1, CallFields DEF Receive, FirstStep
<1>2. CASE Lookup(r)
  BY <1>2 DEF Lookup
<1>3. CASE LockSource(r)
  BY <1>3, CallKind, CallFields DEF LockSource, CallInv
<1>4. CASE LockDestination(r)
  BY <1>4 DEF LockDestination
<1>5. CASE CheckBalance(r)
  BY <1>5 DEF CheckBalance, Covered, CallInv, PayPC
<1>6. CASE LockSettlement(r)
  BY <1>6 DEF LockSettlement
<1>7. CASE InsertHeader(r)
  BY <1>7 DEF InsertHeader
<1>8. CASE Claim(r)
  BY <1>8 DEF Claim
<1>9. CASE RailPays(r)
  BY <1>9 DEF RailPays
<1>10. CASE RailRefuses(r)
  BY <1>10 DEF RailRefuses
<1>11. CASE PostEntries(r)
  BY <1>11 DEF PostEntries, CallInv
<1>12. CASE CommitPayment(r)
  BY <1>12 DEF CommitPayment
<1>13. CASE Replay(r)
  BY <1>13 DEF Replay
<1>14. CASE Fetch(r)
  BY <1>14 DEF Fetch
<1>15. CASE LockHeader(r)
  BY <1>15 DEF LockHeader
<1>16. CASE LockContra(r)
  BY <1>16 DEF LockContra, CallInv, ContraPC
<1>17. CASE PostContra(r)
  BY <1>17 DEF PostContra, CallInv, SharePC, ContraPC
<1>18. CASE CommitReversal(r)
  BY <1>18 DEF CommitReversal
<1>19. CASE DeadlockAbort(r)
  BY <1>19, WaitPC DEF DeadlockAbort, UpdatePC, SharePC
<1>20. CASE Fail(r)
  BY <1>20 DEF Fail, PC, InTx
<1> QED
  BY <1>1, <1>2, <1>3, <1>4, <1>5, <1>6, <1>7, <1>8, <1>9, <1>10, <1>11, <1>12, <1>13,
       <1>14, <1>15, <1>16, <1>17, <1>18, <1>19, <1>20 DEF Act, Step

-----------------------------------------------------------------------------
(* Every part of the invariant is preserved                                *)

\* Every request has passed the checks that its statement comes after.
LEMMA CheckedStep ==
  ASSUME LedgerInv, TypeOK', CallInv', NEW r \in Requests, Act(r), NEW q \in Requests
  PROVE  Checked(q)'
<1>1. CASE q # r
  <2>1. pc'[q] = pc[q] /\ call'[q] = call[q]
    BY <1>1, Frame DEF LedgerInv
  <2>2. \/ headers'[q] = headers[q]
        \/ headers[q] # None /\ headers'[q] = [headers[q] EXCEPT !.status = "REVERSED"]
    BY <1>1, HeadersFrame
  <2>3. Checked(q)
    BY DEF LedgerInv
  <2>4. headers'[q] # None =>
           /\ headers[q] # None
           /\ headers'[q] = [HeaderOf(call[q]) EXCEPT !.status = headers'[q].status]
    BY <2>2, <2>3 DEF Checked, HeaderOf
  <2> QED
    BY <2>1, <2>3, <2>4 DEF Checked, Inserted
<1>2. CASE q = r
  <2> USE <1>2 DEF Checked, Inserted, LedgerInv, TypeOK, Goto, LockAndGoto, Release, Return, ReturnSame, tables, txs, session
  <2>1. CASE Receive(r)
    BY <2>1, CallFields DEF Receive, FirstStep, KeyInv
  <2>2. CASE Lookup(r)
    BY <2>2 DEF Lookup
  <2>3. CASE LockSource(r)
    <3>1. call[r] \in Calls /\ call[r].op \in {"transfer", "cross", "fund"}
      BY <2>3, CallKind, CallFields DEF LockSource, CallInv
    <3>2. SourceAccepted(call[r]) /\ call[r].op = "fund" => Authorised(call[r])
      BY <3>1, FundKind DEF SourceAccepted, Authorised
    <3>3. headers[r] = None /\ WellFormed(call[r])
      BY <2>3 DEF LockSource, KeyInv
    <3> QED
      BY <2>3, <3>1, <3>2, <3>3 DEF LockSource, SourceAccepted, Authorised
  <2>4. CASE LockDestination(r)
    BY <2>4 DEF LockDestination
  <2>5. CASE CheckBalance(r)
    <3>1. call[r].op \in {"transfer", "cross"}
      BY <2>5 DEF CheckBalance, CallInv, PayPC
    <3>2. call[r].op = "transfer" => Authorised(call[r])
      BY <2>5, <3>1 DEF CheckBalance, Authorised
    <3>3. headers[r] = None /\ WellFormed(call[r])
      BY <2>5 DEF CheckBalance, KeyInv
    <3> QED
      BY <2>5, <3>1, <3>2, <3>3 DEF CheckBalance
  <2>6. CASE LockSettlement(r)
    <3>1. Wants(r) # None => SettlementAccounts(IF pc[r] = "lockFrom" THEN call[r].from ELSE call[r].to) # {}
      BY <2>6 DEF LockSettlement, Wants, Settlement
    <3>2. call[r].op = "cross"
      BY <2>6 DEF LockSettlement, CallInv
    <3>3. Wants(r) # None /\ pc[r] = "lockTo" => Authorised(call[r])
      BY <2>6, <3>1, <3>2 DEF Authorised
    <3>4. headers[r] = None /\ WellFormed(call[r])
      BY <2>6 DEF LockSettlement, KeyInv
    <3> QED
      BY <2>6, <3>1, <3>2, <3>3, <3>4 DEF LockSettlement
  <2>7. CASE InsertHeader(r)
    <3>1. Authorised(call[r]) /\ WellFormed(call[r]) /\ headers[r] = None
      BY <2>7 DEF InsertHeader, KeyInv
    <3> QED
      BY <2>7, <3>1 DEF InsertHeader
  <2>8. CASE Claim(r)
    BY <2>8 DEF Claim
  <2>9. CASE RailPays(r)
    BY <2>9 DEF RailPays
  <2>10. CASE RailRefuses(r)
    BY <2>10 DEF RailRefuses
  <2>11. CASE PostEntries(r)
    BY <2>11 DEF PostEntries
  <2>12. CASE CommitPayment(r)
    <3>1. Authorised(call[r]) /\ WellFormed(call[r]) /\ call[r] # None
      BY <2>12, CallKind DEF CommitPayment
    <3>2. HeaderOf(call[r]) = [HeaderOf(call[r]) EXCEPT !.status = HeaderOf(call[r]).status]
      BY DEF HeaderOf
    <3>3. headers'[r] = HeaderOf(call[r]) /\ call' = call /\ pc'[r] = "fetch"
      BY <2>12 DEF CommitPayment
    <3> QED
      BY <2>12, <3>1, <3>2, <3>3 DEF CommitPayment
  <2>13. CASE Replay(r)
    BY <2>13 DEF Replay
  <2>14. CASE Fetch(r)
    BY <2>14 DEF Fetch
  <2>15. CASE LockHeader(r)
    BY <2>15 DEF LockHeader
  <2>16. CASE LockContra(r)
    BY <2>16 DEF LockContra
  <2>17. CASE PostContra(r)
    BY <2>17 DEF PostContra, CallInv, SharePC, ContraPC
  <2>18. CASE CommitReversal(r)
    <3>3. headers[r] = None /\ ~CommitPayment(r)
      BY <2>18 DEF CommitReversal, KeyInv, CommitPayment
    <3>4. headers'[r] = headers[r]
      BY <3>3, HeadersFrame
    <3>1. headers'[r] = headers[r] /\ call' = call /\ pc'[r] = "fetch"
      BY <2>18, <3>4 DEF CommitReversal
    <3>2. WellFormed(call[r])
      BY <2>18 DEF CommitReversal
    <3> QED
      BY <3>1, <3>2
  <2>19. CASE DeadlockAbort(r)
    BY <2>19 DEF DeadlockAbort
  <2>20. CASE Fail(r)
    BY <2>20 DEF Fail
  <2> QED
    BY <2>1, <2>2, <2>3, <2>4, <2>5, <2>6, <2>7, <2>8, <2>9, <2>10, <2>11, <2>12, <2>13,
         <2>14, <2>15, <2>16, <2>17, <2>18, <2>19, <2>20 DEF Act, Step
<1> QED
  BY <1>1, <1>2

\* Granting a free row FOR UPDATE keeps the locks exclusive ...
LEMMA GrantUpdate ==
  ASSUME TypeOK, LocksExclude, NEW r \in Requests, pc[r] \in UpdatePC, Blockers(r) = {},
         locked' = [locked EXCEPT ![r] = @ \cup {Wants(r)}], shared' = shared
  PROVE  LocksExclude'
<1>1. \A s \in Requests \ {r} : Wants(r) \notin locked[s] \cup shared[s]
  BY DEF Blockers, SharePC, UpdatePC
<1>2. locked'[r] = locked[r] \cup {Wants(r)} /\ \A s \in Requests \ {r} : locked'[s] = locked[s]
  BY DEF TypeOK
<1> QED
  BY <1>1, <1>2 DEF LocksExclude

\* ... so does granting a row FOR KEY SHARE that nobody has FOR UPDATE ...
LEMMA GrantShare ==
  ASSUME TypeOK, LocksExclude, NEW r \in Requests, pc[r] \in SharePC, Blockers(r) = {},
         shared' = [shared EXCEPT ![r] = @ \cup {Wants(r)}], locked' = locked
  PROVE  LocksExclude'
<1>1. \A s \in Requests \ {r} : Wants(r) \notin locked[s]
  BY DEF Blockers, SharePC, UpdatePC
<1>2. shared'[r] = shared[r] \cup {Wants(r)} /\ \A s \in Requests \ {r} : shared'[s] = shared[s]
  BY DEF TypeOK
<1> QED
  BY <1>1, <1>2 DEF LocksExclude

\* ... and so does ending a transaction.
LEMMA ReleaseAll ==
  ASSUME TypeOK, LocksExclude, NEW r \in Requests, Release(r)
  PROVE  LocksExclude'
BY DEF Release, LocksExclude, TypeOK

\* Every step keeps the row locks exclusive.
LEMMA ExcludeStep ==
  ASSUME LedgerInv, NEW r \in Requests, Act(r)
  PROVE  LocksExclude'
<1> USE DEF LedgerInv, Goto, LockAndGoto, Return, ReturnSame, tables, txs, session
<1>a. (UNCHANGED <<locked, shared>>) => LocksExclude'
  BY DEF LocksExclude
<1>1. CASE Receive(r)
  BY <1>1, <1>a, ReleaseAll DEF Receive
<1>2. CASE Lookup(r)
  BY <1>2, <1>a, ReleaseAll DEF Lookup
<1>3. CASE LockSource(r)
  BY <1>3, <1>a, GrantUpdate, ReleaseAll DEF LockSource, UpdatePC
<1>4. CASE LockDestination(r)
  BY <1>4, <1>a, GrantUpdate, ReleaseAll DEF LockDestination, UpdatePC
<1>5. CASE CheckBalance(r)
  BY <1>5, <1>a, ReleaseAll DEF CheckBalance
<1>6. CASE LockSettlement(r)
  BY <1>6, <1>a, GrantUpdate, ReleaseAll DEF LockSettlement, UpdatePC
<1>7. CASE InsertHeader(r)
  BY <1>7, <1>a, ReleaseAll DEF InsertHeader
<1>8. CASE Claim(r)
  BY <1>8, <1>a, ReleaseAll DEF Claim
<1>9. CASE RailPays(r)
  BY <1>9, <1>a, ReleaseAll DEF RailPays
<1>10. CASE RailRefuses(r)
  BY <1>10, <1>a, ReleaseAll DEF RailRefuses
<1>11. CASE PostEntries(r)
  BY <1>11, <1>a, ReleaseAll DEF PostEntries
<1>12. CASE CommitPayment(r)
  BY <1>12, <1>a, ReleaseAll DEF CommitPayment
<1>13. CASE Replay(r)
  BY <1>13, <1>a, ReleaseAll DEF Replay
<1>14. CASE Fetch(r)
  BY <1>14, <1>a, ReleaseAll DEF Fetch
<1>15. CASE LockHeader(r)
  BY <1>15, <1>a, GrantUpdate, ReleaseAll DEF LockHeader, UpdatePC
<1>16. CASE LockContra(r)
  BY <1>16, <1>a, GrantUpdate, ReleaseAll DEF LockContra, UpdatePC
<1>17. CASE PostContra(r)
  BY <1>17, GrantShare DEF PostContra
<1>18. CASE CommitReversal(r)
  BY <1>18, <1>a, ReleaseAll DEF CommitReversal
<1>19. CASE DeadlockAbort(r)
  BY <1>19, <1>a, ReleaseAll DEF DeadlockAbort
<1>20. CASE Fail(r)
  BY <1>20, <1>a, ReleaseAll DEF Fail
<1> QED
  BY <1>1, <1>2, <1>3, <1>4, <1>5, <1>6, <1>7, <1>8, <1>9, <1>10, <1>11, <1>12, <1>13,
       <1>14, <1>15, <1>16, <1>17, <1>18, <1>19, <1>20 DEF Act, Step

\* A payment holds the locks it has taken until it ends.
LEMMA PaymentLocksStep ==
  ASSUME LedgerInv, TypeOK', CallInv', NEW r \in Requests, Act(r), NEW q \in Requests
  PROVE  PaymentLocks(q)'
<1>1. CASE q # r
  BY <1>1, Frame DEF LedgerInv, PaymentLocks, Inserted
<1>2. CASE q = r
  <2> USE <1>2 DEF PaymentLocks, Inserted, LedgerInv, TypeOK, Goto, LockAndGoto, Release, Return, ReturnSame, tables, txs, session
  <2>1. CASE Receive(r)
    BY <2>1, CallFields DEF Receive, FirstStep
  <2>2. CASE Lookup(r)
    BY <2>2 DEF Lookup
  <2>3. CASE LockSource(r)
    BY <2>3, CallKind, CallFields, FundKind DEF LockSource, Wants, CallInv
  <2>4. CASE LockDestination(r)
    BY <2>4 DEF LockDestination, Wants, CallInv, PayPC
  <2>5. CASE CheckBalance(r)
    BY <2>5 DEF CheckBalance
  <2>6. CASE LockSettlement(r)
    BY <2>6 DEF LockSettlement, Wants, CallInv
  <2>7. CASE InsertHeader(r)
    BY <2>7 DEF InsertHeader
  <2>8. CASE Claim(r)
    BY <2>8 DEF Claim
  <2>9. CASE RailPays(r)
    BY <2>9 DEF RailPays
  <2>10. CASE RailRefuses(r)
    BY <2>10 DEF RailRefuses
  <2>11. CASE PostEntries(r)
    BY <2>11 DEF PostEntries
  <2>12. CASE CommitPayment(r)
    BY <2>12 DEF CommitPayment
  <2>13. CASE Replay(r)
    BY <2>13 DEF Replay
  <2>14. CASE Fetch(r)
    BY <2>14 DEF Fetch
  <2>15. CASE LockHeader(r)
    BY <2>15 DEF LockHeader
  <2>16. CASE LockContra(r)
    BY <2>16 DEF LockContra, CallInv, ContraPC
  <2>17. CASE PostContra(r)
    BY <2>17 DEF PostContra, CallInv, SharePC, ContraPC
  <2>18. CASE CommitReversal(r)
    BY <2>18 DEF CommitReversal
  <2>19. CASE DeadlockAbort(r)
    BY <2>19 DEF DeadlockAbort
  <2>20. CASE Fail(r)
    BY <2>20 DEF Fail
  <2> QED
    BY <2>1, <2>2, <2>3, <2>4, <2>5, <2>6, <2>7, <2>8, <2>9, <2>10, <2>11, <2>12, <2>13,
         <2>14, <2>15, <2>16, <2>17, <2>18, <2>19, <2>20 DEF Act, Step
<1> QED
  BY <1>1, <1>2

\* The header that a reversal has locked does not change under it.
LEMMA HeldOriginal ==
  ASSUME LedgerInv, NEW r \in Requests, Act(r), NEW q \in Requests, q # r,
         pc[q] \in ContraPC \/ (pc[q] = "commit" /\ call[q].op = "reverse")
  PROVE  Original(q)' = Original(q)
<1>1. /\ call[q].target \in Requests /\ call[q].target \in locked[q]
      /\ headers[call[q].target] # None
  BY OriginalType DEF LedgerInv, ReversalLocks, Original
<1>2. headers'[call[q].target] = headers[call[q].target]
  BY <1>1, HeldHeader
<1>3. call'[q] = call[q]
  BY Frame DEF LedgerInv
<1> QED
  BY <1>2, <1>3 DEF Original

\* A reversal holds its header, still SUCCESS, and the locks it has taken.
LEMMA ReversalLocksStep ==
  ASSUME LedgerInv, NEW r \in Requests, Act(r), NEW q \in Requests
  PROVE  ReversalLocks(q)'
<1>1. CASE q # r
  <2>1. /\ pc'[q] = pc[q] /\ call'[q] = call[q]
        /\ locked'[q] = locked[q] /\ shared'[q] = shared[q]
    BY <1>1, Frame DEF LedgerInv
  <2>2. ReversalLocks(q)
    BY DEF LedgerInv
  <2>3. CASE pc[q] \in ContraPC \/ (pc[q] = "commit" /\ call[q].op = "reverse")
    BY <1>1, <2>1, <2>2, <2>3, HeldOriginal DEF ReversalLocks
  <2>4. CASE ~(pc[q] \in ContraPC \/ (pc[q] = "commit" /\ call[q].op = "reverse"))
    BY <2>1, <2>4 DEF ReversalLocks, ContraPC
  <2> QED
    BY <2>3, <2>4
<1>2. CASE q = r
  <2> USE <1>2 DEF ReversalLocks, ContraPC, LedgerInv, TypeOK, Goto, LockAndGoto, Release, Return, ReturnSame, tables, txs, session
  <2>1. CASE Receive(r)
    BY <2>1, CallFields DEF Receive, FirstStep
  <2>2. CASE Lookup(r)
    BY <2>2 DEF Lookup
  <2>3. CASE LockSource(r)
    BY <2>3 DEF LockSource
  <2>4. CASE LockDestination(r)
    BY <2>4 DEF LockDestination
  <2>5. CASE CheckBalance(r)
    BY <2>5 DEF CheckBalance
  <2>6. CASE LockSettlement(r)
    BY <2>6 DEF LockSettlement
  <2>7. CASE InsertHeader(r)
    BY <2>7 DEF InsertHeader
  <2>8. CASE Claim(r)
    BY <2>8 DEF Claim
  <2>9. CASE RailPays(r)
    BY <2>9 DEF RailPays
  <2>10. CASE RailRefuses(r)
    BY <2>10 DEF RailRefuses
  <2>11. CASE PostEntries(r)
    BY <2>11 DEF PostEntries, CallInv
  <2>12. CASE CommitPayment(r)
    BY <2>12 DEF CommitPayment
  <2>13. CASE Replay(r)
    BY <2>13 DEF Replay
  <2>14. CASE Fetch(r)
    BY <2>14 DEF Fetch
  <2>15. CASE LockHeader(r)
    BY <2>15 DEF LockHeader, Wants, Original, CallInv
  <2>16. CASE LockContra(r)
    BY <2>16 DEF LockContra, Wants, Original, CallInv
  <2>17. CASE PostContra(r)
    BY <2>17 DEF PostContra, Wants, Original, CallInv, SharePC
  <2>18. CASE CommitReversal(r)
    BY <2>18 DEF CommitReversal
  <2>19. CASE DeadlockAbort(r)
    BY <2>19 DEF DeadlockAbort
  <2>20. CASE Fail(r)
    BY <2>20 DEF Fail
  <2> QED
    BY <2>1, <2>2, <2>3, <2>4, <2>5, <2>6, <2>7, <2>8, <2>9, <2>10, <2>11, <2>12, <2>13,
         <2>14, <2>15, <2>16, <2>17, <2>18, <2>19, <2>20 DEF Act, Step
<1> QED
  BY <1>1, <1>2

\* What a transaction is about to commit is what the atomic operation writes,
\* on accounts that it has locked.
LEMMA StagedStep ==
  ASSUME LedgerInv, NEW r \in Requests, Act(r), NEW q \in Requests
  PROVE  Staged(q)'
<1>1. CASE q # r
  <2>1. /\ pc'[q] = pc[q] /\ call'[q] = call[q] /\ staged'[q] = staged[q]
        /\ locked'[q] = locked[q] /\ shared'[q] = shared[q]
    BY <1>1, Frame DEF LedgerInv
  <2>2. Staged(q)
    BY DEF LedgerInv
  <2>3. pc[q] = "commit" /\ call[q].op = "reverse" => Original(q)' = Original(q)
    BY <1>1, HeldOriginal
  <2> QED
    BY <2>1, <2>2, <2>3 DEF Staged
<1>2. CASE q = r
  <2> USE <1>2 DEF LedgerInv, TypeOK, Goto, LockAndGoto, Release, Return, ReturnSame, tables, txs, session
  <2>1. CASE Receive(r)
    BY <2>1, CallFields DEF Receive, Staged, FirstStep
  <2>2. CASE Lookup(r)
    BY <2>2 DEF Lookup, Staged
  <2>3. CASE LockSource(r)
    BY <2>3 DEF LockSource, Staged
  <2>4. CASE LockDestination(r)
    BY <2>4 DEF LockDestination, Staged
  <2>5. CASE CheckBalance(r)
    BY <2>5 DEF CheckBalance, Staged
  <2>6. CASE LockSettlement(r)
    BY <2>6 DEF LockSettlement, Staged
  <2>7. CASE InsertHeader(r)
    BY <2>7 DEF InsertHeader, Staged
  <2>8. CASE Claim(r)
    BY <2>8 DEF Claim, Staged
  <2>9. CASE RailPays(r)
    BY <2>9 DEF RailPays, Staged
  <2>10. CASE RailRefuses(r)
    BY <2>10 DEF RailRefuses, Staged
  <2>11. CASE PostEntries(r)
    <3>1. call[r].op # "reverse" /\ call[r] \in Calls /\ WellFormed(call[r]) /\ Authorised(call[r])
      BY <2>11, CallKind DEF PostEntries, CallInv, Checked, Inserted
    <3>2. call[r].src \in locked[r] /\ call[r].dst \in locked[r]
      BY <2>11 DEF PostEntries, PaymentLocks, Inserted
    <3>3. call[r].op = "cross" =>
            Settlement(call[r].from) \in locked[r] /\ Settlement(call[r].to) \in locked[r]
      BY <2>11 DEF PostEntries, PaymentLocks, Inserted
    <3>4. \A e \in PaymentRows(r, call[r]) : e.acct \in locked[r]
      BY <3>1, <3>2, <3>3, PaymentRowsType
    <3> QED
      BY <2>11, <3>1, <3>4 DEF PostEntries, Staged
  <2>12. CASE CommitPayment(r)
    BY <2>12 DEF CommitPayment, Staged
  <2>13. CASE Replay(r)
    BY <2>13 DEF Replay, Staged
  <2>14. CASE Fetch(r)
    BY <2>14 DEF Fetch, Staged
  <2>15. CASE LockHeader(r)
    BY <2>15 DEF LockHeader, Staged
  <2>16. CASE LockContra(r)
    BY <2>16 DEF LockContra, Staged
  <2>17. CASE PostContra(r)
    <3>1. pc[r] \in ContraPC /\ call[r].op = "reverse"
      BY <2>17 DEF PostContra, SharePC, ContraPC, CallInv
    <3>2. Original(r)' = Original(r) /\ call' = call /\ headers' = headers
      BY <2>17 DEF PostContra, Original
    <3>3. \A e \in ContraRows(r, call[r].target, Original(r)) :
            \/ e.acct \in {Original(r).src, Original(r).dst}
            \/ Original(r).fx > 0 /\ e.acct \in {Settlement(AccountCurrency[Original(r).src]),
                                                 Settlement(AccountCurrency[Original(r).dst])}
      BY <3>1, OriginalType, ContraRowsType
    <3>4. Original(r).fx > 0 \/ Original(r).fx = 0
      BY <3>1, OriginalType DEF Header
    <3>5. CASE pc[r] = "contraDebit" /\ Original(r).fx > 0
      <4>1. /\ Settlement(AccountCurrency[Original(r).src]) \in locked[r]
            /\ Settlement(AccountCurrency[Original(r).dst]) \in locked[r]
            /\ Original(r).dst \in locked[r]
        BY <3>5 DEF ReversalLocks
      <4>2. shared'[r] = shared[r] \cup {Original(r).src} /\ locked' = locked
        BY <2>17, <3>5 DEF PostContra, Wants
      <4>3. pc'[r] = "commit" /\ staged'[r] = ContraRows(r, call[r].target, Original(r))
        BY <2>17, <3>5 DEF PostContra
      <4> QED
        BY <3>1, <3>2, <3>3, <4>1, <4>2, <4>3 DEF Staged
    <3>6. CASE pc[r] = "contraDebit" /\ Original(r).fx = 0
      BY <2>17, <3>6 DEF PostContra, Staged
    <3>7. CASE pc[r] = "contraCredit"
      <4>1. Original(r).src \in shared[r] /\ Original(r).fx = 0
        BY <3>7 DEF ReversalLocks
      <4>2. shared'[r] = shared[r] \cup {Original(r).dst} /\ locked' = locked
        BY <2>17, <3>7 DEF PostContra, Wants
      <4>3. pc'[r] = "commit" /\ staged'[r] = ContraRows(r, call[r].target, Original(r))
        BY <2>17, <3>7 DEF PostContra
      <4> QED
        BY <3>1, <3>2, <3>3, <4>1, <4>2, <4>3 DEF Staged
    <3> QED
      BY <2>17, <3>4, <3>5, <3>6, <3>7 DEF PostContra, SharePC
  <2>18. CASE CommitReversal(r)
    BY <2>18 DEF CommitReversal, Staged
  <2>19. CASE DeadlockAbort(r)
    BY <2>19 DEF DeadlockAbort, Staged
  <2>20. CASE Fail(r)
    BY <2>20 DEF Fail, Staged
  <2> QED
    BY <2>1, <2>2, <2>3, <2>4, <2>5, <2>6, <2>7, <2>8, <2>9, <2>10, <2>11, <2>12, <2>13,
         <2>14, <2>15, <2>16, <2>17, <2>18, <2>19, <2>20 DEF Act, Step
<1> QED
  BY <1>1, <1>2

\* A key that is carried after a step was carried before, or the step paid for it.
LEMMA TakenKeys ==
  ASSUME LedgerInv, NEW r \in Requests, Act(r), NEW k,
         NEW h \in Requests, headers'[h] # None, headers'[h].key = k
  PROVE  \/ headers[h] # None /\ headers[h].key = k
         \/ CommitPayment(r) /\ h = r /\ k = call[r].key
<1>1. CASE headers'[h] = headers[h]
  BY <1>1
<1>2. CASE CommitPayment(r) /\ h = r /\ headers'[h] = HeaderOf(call[r])
  BY <1>2 DEF HeaderOf
<1>3. CASE headers[h] # None /\ headers'[h] = [headers[h] EXCEPT !.status = "REVERSED"]
  <2>1. headers[h] \in Header
    BY <1>3, RecordedHeader
  <2> QED
    BY <1>3, <2>1 DEF Header
<1> QED
  BY <1>1, <1>2, <1>3, HeadersFrame

\* No step removes a header or changes its key.
LEMMA KeptHeaders ==
  ASSUME LedgerInv, NEW r \in Requests, Act(r), NEW h \in Requests, headers[h] # None
  PROVE  headers'[h] # None /\ headers'[h].key = headers[h].key
<1>1. headers[h] \in Header
  BY RecordedHeader
<1>2. headers'[h] = headers[h] \/ headers'[h] = [headers[h] EXCEPT !.status = "REVERSED"]
  BY HeadersFrame
<1>3. [headers[h] EXCEPT !.status = "REVERSED"] \in Header
  BY <1>1 DEF Header
<1> QED
  BY <1>1, <1>2, <1>3, BooksAssumption DEF Header

\* The request of a committed header only has its answer left to give.
LEMMA RecordedCall ==
  ASSUME LedgerInv, NEW r \in Requests, Act(r), NEW h \in Requests, headers[h] # None
  PROVE  pc[h] \in {"fetch", "done"} /\ pc'[h] \in {"fetch", "done"} /\ call'[h] = call[h]
<1>1. pc[h] \in {"fetch", "done"}
  BY DEF LedgerInv, KeyInv
<1>2. CASE h = r
  BY <1>1, <1>2, Moves
<1>3. CASE h # r
  BY <1>1, <1>3, Frame DEF LedgerInv
<1> QED
  BY <1>1, <1>2, <1>3

\* Every step keeps a key on one header at most, counting headers that are
\* inserted but not committed: the UNIQUE constraint waits for those.
LEMMA KeyStep ==
  ASSUME LedgerInv, NEW r \in Requests, Act(r)
  PROVE  KeyInv'
<1>1. ASSUME NEW q \in Requests, pc'[q] \notin {"fetch", "done"} PROVE headers'[q] = None
  <2>1. headers[q] = None
    BY <1>1, RecordedCall
  <2>2. ~(CommitPayment(r) /\ q = r)
    BY <1>1 DEF CommitPayment, Goto, LedgerInv, TypeOK
  <2> QED
    BY <2>1, <2>2, HeadersFrame
<1>2. ASSUME NEW q \in Requests, Inserted(q)' PROVE ~KeyTaken(call[q].key) /\ call'[q] = call[q]
  <2>1. CASE q # r
    <3>1. Inserted(q) /\ call'[q] = call[q]
      BY <1>2, <2>1, Frame DEF LedgerInv, Inserted
    <3> QED
      BY <3>1 DEF LedgerInv, KeyInv
  <2>2. CASE q = r
    BY <1>2, <2>2, Moves DEF LedgerInv, KeyInv
  <2> QED
    BY <2>1, <2>2
<1>3. ASSUME NEW q \in Requests, NEW s \in Requests, q # s, Inserted(q)', Inserted(s)'
      PROVE  call[q].key # call[s].key
  <2>1. CASE Inserted(q) /\ Inserted(s)
    BY <1>3, <2>1 DEF LedgerInv, KeyInv
  <2>2. \A t \in Requests : t # r /\ Inserted(t)' => Inserted(t)
    BY Frame DEF LedgerInv, Inserted
  <2>3. ASSUME NEW t \in Requests, t # r, Inserted(t), ~Inserted(r), Inserted(r)'
        PROVE  call[t].key # call[r].key
    BY <2>3, Moves DEF Blockers, UpdatePC, SharePC
  <2> QED
    BY <1>3, <2>1, <2>2, <2>3
<1>4. ASSUME NEW q \in Requests, Inserted(q)' PROVE ~KeyTaken(call[q].key)'
  <2> SUFFICES ASSUME NEW h \in Requests, headers'[h] # None, headers'[h].key = call'[q].key
               PROVE  FALSE
    BY DEF KeyTaken
  <2>1. CommitPayment(r) /\ h = r /\ call[q].key = call[r].key
    BY <1>2, <1>4, TakenKeys DEF KeyTaken
  <2>2. q # r
    BY <1>4, <2>1 DEF CommitPayment, Goto, Inserted, LedgerInv, TypeOK
  <2>3. Inserted(q) /\ Inserted(r)
    BY <1>4, <2>1, <2>2, Frame DEF LedgerInv, Inserted, CommitPayment
  <2> QED
    BY <2>1, <2>2, <2>3 DEF LedgerInv, KeyInv
<1> QED
  BY <1>1, <1>2, <1>3, <1>4 DEF KeyInv

\* Every step keeps a key on one committed header at most.
LEMMA OneTransferStep ==
  ASSUME LedgerInv, NEW r \in Requests, Act(r)
  PROVE  OneTransferPerKey'
<1> SUFFICES ASSUME NEW g \in Requests, NEW h \in Requests,
                    headers'[g] # None, headers'[h] # None, headers'[g].key = headers'[h].key,
                    g # h
             PROVE  FALSE
  BY DEF OneTransferPerKey
<1>1. CommitPayment(r) => ~KeyTaken(call[r].key)
  BY DEF CommitPayment, LedgerInv, KeyInv, Inserted
<1> DEFINE k == headers'[g].key
<1>2. \/ headers[g] # None /\ headers[g].key = k
      \/ CommitPayment(r) /\ g = r /\ k = call[r].key
  BY TakenKeys
<1>3. \/ headers[h] # None /\ headers[h].key = k
      \/ CommitPayment(r) /\ h = r /\ k = call[r].key
  BY TakenKeys
<1> QED
  BY <1>1, <1>2, <1>3 DEF LedgerInv, OneTransferPerKey, KeyTaken

\* Every step keeps idempotency_keys in agreement with transactions.
LEMMA ClaimsStep ==
  ASSUME LedgerInv, NEW r \in Requests, Act(r)
  PROVE  ClaimsMatchHeaders'
<1>1. CommitPayment(r) => /\ ~KeyTaken(call[r].key) /\ Inserted(r) /\ pc[r] # "idle"
                          /\ call[r].op # "reverse" /\ call' = call
                          /\ headers'[r] = HeaderOf(call[r])
  BY DEF CommitPayment, LedgerInv, KeyInv, Inserted, TypeOK
<1>2. \/ claims' = claims
      \/ CommitPayment(r) /\ call[r].op # "fund" /\ claims' = [claims EXCEPT ![call[r].key] = r]
  BY TablesFrame DEF tables, CommitPayment, CommitReversal
<1>3. CommitPayment(r) => /\ headers'[r] # None /\ headers'[r].key = call[r].key
                          /\ call[r].key \in Keys
  BY <1>1, CallKind, CallFields, HeaderType DEF LedgerInv
<1>4. ASSUME NEW k \in Keys, claims'[k] # None
      PROVE  /\ headers'[claims'[k]] # None /\ headers'[claims'[k]].key = k
             /\ call'[claims'[k]].op # "fund"
  <2>1. CASE claims'[k] = claims[k]
    <3>1. /\ claims[k] \in Requests /\ headers[claims[k]] # None /\ headers[claims[k]].key = k
          /\ call[claims[k]].op # "fund"
      BY <1>4, <2>1 DEF LedgerInv, ClaimsMatchHeaders, TypeOK
    <3>2. call'[claims[k]] = call[claims[k]]
      BY <3>1, RecordedCall
    <3> QED
      BY <2>1, <3>1, <3>2, KeptHeaders
  <2>2. CASE CommitPayment(r) /\ call[r].op # "fund" /\ k = call[r].key /\ claims'[k] = r
    BY <1>1, <1>3, <2>2
  <2> QED
    BY <1>2, <2>1, <2>2 DEF LedgerInv, TypeOK
<1>5. ASSUME NEW h \in Requests, headers'[h] # None, call'[h].op # "fund"
      PROVE  claims'[headers'[h].key] = h
  <2>1. CASE headers[h] # None
    <3>1. claims[headers[h].key] = h /\ headers[h].key \in Keys
      BY <1>5, <2>1, RecordedCall, RecordedHeader DEF LedgerInv, ClaimsMatchHeaders
    <3>2. CommitPayment(r) => headers[h].key # call[r].key
      BY <1>1, <2>1 DEF KeyTaken
    <3> QED
      BY <1>2, <2>1, <3>1, <3>2, KeptHeaders DEF LedgerInv, TypeOK
  <2>2. CASE headers[h] = None
    <3>1. CommitPayment(r) /\ h = r
      BY <1>5, <2>2, HeadersFrame
    <3> QED
      BY <1>1, <1>3, <1>5, <3>1 DEF CommitPayment, LedgerInv, TypeOK
  <2> QED
    BY <2>1, <2>2
<1>6. ASSUME NEW q \in Requests, pc'[q] = "claim" PROVE claims'[call'[q].key] = None
  <2>1. CASE q = r
    <3>1. pc[r] = "insert" /\ ~KeyTaken(call[r].key) /\ call'[r] = call[r]
      BY <1>6, <2>1, Moves
    <3>2. call[r].key \in Keys
      BY <3>1, CallKind, CallFields DEF LedgerInv, CallInv
    <3>3. claims[call[r].key] = None
      BY <3>1, <3>2 DEF LedgerInv, ClaimsMatchHeaders, KeyTaken, TypeOK
    <3>4. claims' = claims
      BY <1>2, <3>1 DEF CommitPayment
    <3> QED
      BY <2>1, <3>1, <3>3, <3>4
  <2>2. CASE q # r
    <3>1. pc[q] = "claim" /\ call'[q] = call[q]
      BY <1>6, <2>2, Frame DEF LedgerInv
    <3>2. claims[call[q].key] = None /\ call[q].key \in Keys
      BY <3>1, CallKind, CallFields DEF LedgerInv, ClaimsMatchHeaders, CallInv, PayPC
    <3>3. CommitPayment(r) => call[q].key # call[r].key
      BY <1>1, <2>2, <3>1 DEF LedgerInv, KeyInv, Inserted
    <3> QED
      BY <1>2, <3>1, <3>2, <3>3 DEF LedgerInv, TypeOK
  <2> QED
    BY <2>1, <2>2
<1> QED
  BY <1>4, <1>5, <1>6 DEF ClaimsMatchHeaders

\* A balance depends on the account's own rows only.
LEMMA SameRowsSameBalance ==
  ASSUME NEW rows1, NEW rows2, NEW a,
         {e \in rows1 : e.acct = a} = {e \in rows2 : e.acct = a}
  PROVE  Balance(rows1, a) = Balance(rows2, a)
BY DEF Balance

\* Every step keeps checked funds: whoever commits rows has their accounts
\* locked, and the account of a checked payment is locked by that payment.
LEMMA FundsStep ==
  ASSUME LedgerInv, NEW r \in Requests, Act(r)
  PROVE  CheckedFundsStay'
<1> SUFFICES ASSUME NEW q \in Requests, Spending(q)'
             PROVE  Balance(entries', call'[q].src) >= call'[q].amt
  BY DEF CheckedFundsStay
<1>1. pc[r] = "commit" => Staged(r)
  BY DEF LedgerInv
<1>2. CommitPayment(r) \/ CommitReversal(r) =>
        /\ entries' = entries \cup staged[r] /\ pc[r] = "commit" /\ pc'[r] = "fetch"
  BY DEF CommitPayment, CommitReversal, Goto, LedgerInv, TypeOK
<1>3. ~CommitPayment(r) /\ ~CommitReversal(r) => entries' = entries
  BY TablesFrame DEF tables
<1>4. CASE q = r
  <2>1. entries' = entries
    BY <1>2, <1>3, <1>4 DEF Spending
  <2>2. call'[r] = call[r]
    BY <1>4, Moves
  <2>3. Balance(entries, call[r].src) >= call[r].amt
    BY <1>4, Moves DEF LedgerInv, CheckedFundsStay
  <2> QED
    BY <1>4, <2>1, <2>2, <2>3
<1>5. CASE q # r
  <2>1. Spending(q) /\ call'[q] = call[q]
    BY <1>5, Frame DEF Spending, LedgerInv
  <2>2. Balance(entries, call[q].src) >= call[q].amt
    BY <2>1 DEF LedgerInv, CheckedFundsStay
  <2>3. call[q].src \in locked[q]
    BY <2>1 DEF Spending, LedgerInv, PaymentLocks, Inserted
  <2>4. CASE entries' = entries
    BY <2>1, <2>2, <2>4
  <2>5. CASE pc[r] = "commit" /\ entries' = entries \cup staged[r]
    <3>1. \A e \in staged[r] : e.acct \in locked[r] \cup shared[r]
      BY <1>1, <2>5 DEF Staged
    <3>2. call[q].src \notin locked[r] \cup shared[r]
      BY <1>5, <2>3 DEF LedgerInv, LocksExclude
    <3>3. {e \in entries' : e.acct = call[q].src} = {e \in entries : e.acct = call[q].src}
      BY <2>5, <3>1, <3>2
    <3>4. Balance(entries', call[q].src) = Balance(entries, call[q].src)
      BY <3>3, SameRowsSameBalance
    <3> QED
      BY <2>1, <2>2, <3>4
  <2> QED
    BY <1>2, <1>3, <2>4, <2>5
<1> QED
  BY <1>4, <1>5

-----------------------------------------------------------------------------
(* The theorems                                                            *)

\* The engine starts in the invariant.
LEMMA InitInv == Init => LedgerInv
<1> SUFFICES ASSUME Init PROVE LedgerInv
  OBVIOUS
<1>1. TypeOK
  BY DEF Init, TypeOK, PC
<1>2. CallInv /\ LocksExclude
  BY DEF Init, CallInv, LocksExclude, PayPC, ContraPC
<1>3. ASSUME NEW r \in Requests
      PROVE  Checked(r) /\ PaymentLocks(r) /\ ReversalLocks(r) /\ Staged(r)
  BY DEF Init, Checked, PaymentLocks, ReversalLocks, Staged, Inserted, ContraPC
<1>4. KeyInv /\ OneTransferPerKey /\ ClaimsMatchHeaders
  BY DEF Init, KeyInv, Inserted, OneTransferPerKey, ClaimsMatchHeaders
<1>5. CheckedFundsStay
  BY DEF Init, CheckedFundsStay, Spending
<1> QED
  BY <1>1, <1>2, <1>3, <1>4, <1>5 DEF LedgerInv

\* Every step of the engine preserves the invariant.
LEMMA NextInv == LedgerInv /\ [Next]_vars => LedgerInv'
<1> SUFFICES ASSUME LedgerInv, [Next]_vars PROVE LedgerInv'
  OBVIOUS
<1>1. ASSUME NEW r \in Requests, Act(r) PROVE LedgerInv'
  <2>1. TypeOK' /\ CallInv'
    BY <1>1, TypeStep, CallStep
  <2>2. LocksExclude' /\ KeyInv' /\ OneTransferPerKey'
    BY <1>1, ExcludeStep, KeyStep, OneTransferStep
  <2>3. ClaimsMatchHeaders' /\ CheckedFundsStay'
    BY <1>1, ClaimsStep, FundsStep
  <2>4. \A q \in Requests : Checked(q)' /\ PaymentLocks(q)'
    BY <1>1, <2>1, CheckedStep, PaymentLocksStep
  <2>5. \A q \in Requests : ReversalLocks(q)' /\ Staged(q)'
    BY <1>1, ReversalLocksStep, StagedStep
  <2> QED
    BY <2>1, <2>2, <2>3, <2>4, <2>5 DEF LedgerInv
<1>2. CASE UNCHANGED vars
  <2> USE <1>2 DEF vars, tables, txs, session
  <2>1. TypeOK' /\ CallInv' /\ LocksExclude'
    BY DEF LedgerInv, TypeOK, CallInv, LocksExclude
  <2>2. KeyInv' /\ OneTransferPerKey' /\ ClaimsMatchHeaders'
    BY DEF LedgerInv, KeyInv, Inserted, KeyTaken, OneTransferPerKey, ClaimsMatchHeaders
  <2>3. CheckedFundsStay'
    BY DEF LedgerInv, CheckedFundsStay, Spending
  <2>4. ASSUME NEW q \in Requests PROVE Checked(q)' /\ PaymentLocks(q)'
    BY DEF LedgerInv, Checked, PaymentLocks, Inserted
  <2>5. ASSUME NEW q \in Requests PROVE ReversalLocks(q)' /\ Staged(q)'
    BY DEF LedgerInv, ReversalLocks, Reversible, Original, Staged
  <2> QED
    BY <2>1, <2>2, <2>3, <2>4, <2>5 DEF LedgerInv
<1> QED
  BY <1>1, <1>2 DEF Next, AllServed

\* The inductive invariant holds in every reachable state, for any number of
\* requests, keys, accounts and currencies, and any calls.
THEOREM Invariance == Spec => []LedgerInv
BY InitInv, NextInv, PTL DEF Spec

\* The tables and the sessions are always well-typed.
THEOREM TypeCorrect == Spec => []TypeOK
<1>1. LedgerInv => TypeOK
  BY DEF LedgerInv
<1> QED
  BY <1>1, Invariance, PTL

\* A key never pays twice, however the requests that carry it interleave, fail
\* and are retried (store.go, the UNIQUE idempotency_key of schema.sql).
THEOREM OneTransfer == Spec => []OneTransferPerKey
<1>1. LedgerInv => OneTransferPerKey
  BY DEF LedgerInv
<1> QED
  BY <1>1, Invariance, PTL

\* The idempotency_keys table always agrees with the transactions table, and
\* the claim of a key whose header was inserted never fails (transfer.go 129).
THEOREM Claims == Spec => []ClaimsMatchHeaders
<1>1. LedgerInv => ClaimsMatchHeaders
  BY DEF LedgerInv
<1> QED
  BY <1>1, Invariance, PTL

\* The balance checked in transfer.go 100-106 still covers the amount when the
\* payment commits, whatever other payments and reversals do meanwhile.
THEOREM FundsStay == Spec => []CheckedFundsStay
<1>1. LedgerInv => CheckedFundsStay
  BY DEF LedgerInv
<1> QED
  BY <1>1, Invariance, PTL

\* Committing a payment is the atomic payment: its checks still hold.
LEMMA PaymentIsAtomic ==
  ASSUME LedgerInv, NEW r \in Requests, CommitPayment(r)
  PROVE  Atomic!Pay(r, call[r])
<1>1. /\ call[r].op # "reverse" /\ WellFormed(call[r]) /\ Authorised(call[r])
  BY DEF CommitPayment, LedgerInv, Checked, Inserted
<1>2. headers[r] = None /\ ~KeyTaken(call[r].key)
  BY DEF CommitPayment, LedgerInv, KeyInv, Inserted
<1>3. Covered(entries, call[r])
  <2>1. call[r].op \in {"transfer", "cross", "fund"}
    BY <1>1, CallKind, CallFields DEF LedgerInv, CommitPayment
  <2> QED
    BY <2>1 DEF CommitPayment, LedgerInv, CheckedFundsStay, Spending, Covered
<1>4. staged[r] = PaymentRows(r, call[r])
  BY DEF CommitPayment, LedgerInv, Staged
<1> QED
  BY <1>1, <1>2, <1>3, <1>4 DEF Atomic!Pay, CommitPayment, KeyTaken, Atomic!KeyUnused

\* Committing a reversal is the atomic reversal of a SUCCESS header.
LEMMA ReversalIsAtomic ==
  ASSUME LedgerInv, NEW r \in Requests, CommitReversal(r)
  PROVE  Atomic!Reverse(r, call[r].target)
<1>1. Reversible(Original(r))
  BY DEF CommitReversal, LedgerInv, ReversalLocks
<1>2. staged[r] = ContraRows(r, call[r].target, Original(r))
  BY DEF CommitReversal, LedgerInv, Staged
<1> QED
  BY <1>1, <1>2 DEF Atomic!Reverse, CommitReversal, MarkReversed, Reversible, Original

\* The engine, with its interleaved statements, locks, rollbacks and deadlock
\* aborts, implements the ledger in which every call happens at one instant.
THEOREM Refines == Spec => ImplementsAtomic
<1>1. Init => Atomic!Init
  BY DEF Init, Atomic!Init
<1>2. ASSUME LedgerInv, [Next]_vars PROVE [Atomic!Next]_(Atomic!vars)
  <2>1. ASSUME NEW r \in Requests, Act(r) PROVE [Atomic!Next]_(Atomic!vars)
    <3>1. CASE CommitPayment(r)
      <4>1. call[r] \in Calls
        BY <1>2, <3>1, CallKind DEF LedgerInv, CommitPayment
      <4> QED
        BY <1>2, <3>1, <4>1, PaymentIsAtomic DEF Atomic!Next
    <3>2. CASE CommitReversal(r)
      <4>1. call[r].target \in Requests
        BY <1>2, <3>2, OriginalType DEF CommitReversal
      <4> QED
        BY <1>2, <3>2, <4>1, ReversalIsAtomic DEF Atomic!Next
    <3>3. CASE ~CommitPayment(r) /\ ~CommitReversal(r)
      BY <2>1, <3>3, TablesFrame DEF tables, Atomic!vars
    <3> QED
      BY <3>1, <3>2, <3>3
  <2>2. CASE UNCHANGED vars
    BY <2>2 DEF vars, tables, Atomic!vars
  <2> QED
    BY <1>2, <2>1, <2>2 DEF Next, AllServed
<1> QED
  BY <1>1, <1>2, Invariance, PTL DEF Spec, Atomic!Spec, ImplementsAtomic

-----------------------------------------------------------------------------
(* Answers, payouts and rows: what the rest of the properties need         *)

\* r has left no trace in the tables.
Unrecorded(r) == headers[r] = None /\ \A e \in entries : e.by # r

\* r has found what it is about to show its client, or has shown.
Found(r) ==
  /\ got[r] \in Requests /\ headers[got[r]] # None
  /\ IF call[r].op = "reverse"
     THEN got[r] = call[r].target /\ headers[got[r]].status = "REVERSED"
     ELSE headers[got[r]].key = call[r].key

Refusal == {"refused", "insufficient", "railError"}

\* Until its commit a request is unrecorded, and it stays so when it is refused.
AnswerInv(r) ==
  /\ reply[r] # "none" => pc[r] = "done"
  /\ pc[r] \notin {"fetch", "done"} \/ reply[r] \in Refusal => Unrecorded(r)
  /\ pc[r] = "fetch" \/ reply[r] = "ok" => Found(r)

\* The rail moves money for payments only, before they are posted.
PayoutInv(r) ==
  /\ r \in paid => call[r] # None /\ call[r].op \in {"transfer", "cross"}
  /\ /\ headers[r] # None \/ pc[r] \in {"post", "commit"}
     /\ call[r].op \in {"transfer", "cross"}
     => r \in paid

TraceInv == LedgerInv /\ \A r \in Requests : AnswerInv(r) /\ PayoutInv(r)

\* Every row a commit writes shows who wrote it, and for which header.
LEMMA StagedRows ==
  ASSUME LedgerInv, NEW r \in Requests, pc[r] = "commit"
  PROVE  /\ staged[r] # {}
         /\ \A e \in staged[r] :
              e.by = r /\ e.tx = IF call[r].op = "reverse" THEN call[r].target ELSE r
<1>1. CASE call[r].op = "reverse"
  <2>1. staged[r] = ContraRows(r, call[r].target, Original(r))
    BY <1>1 DEF LedgerInv, Staged
  <2> DEFINE h == call[r].target
  <2> DEFINE rows == ContraRows(r, h, Original(r))
  <2>2. \E e \in rows : e.leg = "debit"
    BY DEF ContraRows, CrossBorderEntries, DoubleEntry, NewRow
  <2>3. \A e \in rows : e.by = r /\ e.tx = h
    BY DEF ContraRows, CrossBorderEntries, DoubleEntry, NewRow
  <2> QED
    BY <1>1, <2>1, <2>2, <2>3
<1>2. CASE call[r].op # "reverse"
  <2>1. staged[r] = PaymentRows(r, call[r])
    BY <1>2 DEF LedgerInv, Staged
  <2>2. call[r].op \in {"transfer", "cross", "fund"}
    BY <1>2, CallKind, CallFields DEF LedgerInv
  <2> DEFINE rows == PaymentRows(r, call[r])
  <2>3. \E e \in rows : e.leg = "credit"
    BY <2>2 DEF PaymentRows, CrossBorderEntries, DoubleEntry, NewRow
  <2>4. \A e \in rows : e.by = r /\ e.tx = r
    BY <2>2 DEF PaymentRows, CrossBorderEntries, DoubleEntry, NewRow
  <2> QED
    BY <1>2, <2>1, <2>3, <2>4
<1> QED
  BY <1>1, <1>2

\* The rows of a step are those of the commit in it.
LEMMA RowsStep ==
  ASSUME LedgerInv, NEW r \in Requests, Act(r)
  PROVE  \/ entries' = entries
         \/ /\ CommitPayment(r) \/ CommitReversal(r)
            /\ pc[r] = "commit" /\ pc'[r] = "fetch" /\ reply' = reply /\ call' = call
            /\ entries' = entries \cup staged[r]
BY TablesFrame DEF tables, CommitPayment, CommitReversal, Goto, LedgerInv, TypeOK

\* A step writes rows of a header only when it creates or reverses the header.
LEMMA RowsFrame ==
  ASSUME LedgerInv, NEW r \in Requests, Act(r), NEW h \in Requests, headers'[h] = headers[h]
  PROVE  {e \in entries' : e.tx = h} = RowsOf(h)
<1>1. CASE entries' = entries
  BY <1>1 DEF RowsOf
<1>2. CASE /\ CommitPayment(r) \/ CommitReversal(r)
           /\ pc[r] = "commit" /\ entries' = entries \cup staged[r]
  <2>1. CommitPayment(r) => h # r
    <3> SUFFICES ASSUME CommitPayment(r), h = r PROVE FALSE
      OBVIOUS
    <3>1. headers[r] = None /\ call[r] \in Calls /\ call[r].op # "reverse"
      BY <1>2, CallKind DEF LedgerInv, KeyInv, CommitPayment
    <3>2. headers'[r] = HeaderOf(call[r])
      BY DEF CommitPayment, LedgerInv, TypeOK
    <3> QED
      BY <3>1, <3>2, HeaderType
  <2>2. CommitReversal(r) => h # call[r].target
    <3> SUFFICES ASSUME CommitReversal(r), h = call[r].target PROVE FALSE
      OBVIOUS
    <3>1. headers[h].status = "SUCCESS" /\ headers[h] \in Header
      BY OriginalType DEF CommitReversal, Original
    <3>2. headers'[h] = [headers[h] EXCEPT !.status = "REVERSED"]
      BY DEF LedgerInv, TypeOK, CommitReversal, MarkReversed
    <3> QED
      BY <3>1, <3>2 DEF Header
  <2>3. \A e \in staged[r] : e.tx # h
    BY <1>2, <2>1, <2>2, StagedRows DEF CommitPayment, CommitReversal
  <2> QED
    BY <1>2, <2>3 DEF RowsOf
<1> QED
  BY <1>1, <1>2, RowsStep

\* A step answers its own request only, and only the rail's step pays.
LEMMA SessionFrame ==
  ASSUME LedgerInv, NEW r \in Requests, Act(r)
  PROVE  /\ \A q \in Requests : q # r => reply'[q] = reply[q] /\ got'[q] = got[q]
         /\ paid' = paid \/ (RailPays(r) /\ paid' = paid \cup {r})
         /\ pc'[r] = "post" => r \in paid' \/ call[r].op = "fund"
         /\ pc'[r] = "commit" => pc[r] = "post" \/ call[r].op = "reverse"
<1> USE DEF LedgerInv, TypeOK, CallInv, Goto, LockAndGoto, Release, Return, ReturnSame, tables, txs, session
<1>1. CASE Receive(r)
  BY <1>1, CallFields DEF Receive, FirstStep
<1>2. CASE Lookup(r)
  BY <1>2 DEF Lookup
<1>3. CASE LockSource(r)
  BY <1>3 DEF LockSource
<1>4. CASE LockDestination(r)
  BY <1>4 DEF LockDestination
<1>5. CASE CheckBalance(r)
  BY <1>5 DEF CheckBalance
<1>6. CASE LockSettlement(r)
  BY <1>6 DEF LockSettlement
<1>7. CASE InsertHeader(r)
  BY <1>7 DEF InsertHeader
<1>8. CASE Claim(r)
  BY <1>8 DEF Claim
<1>9. CASE RailPays(r)
  BY <1>9 DEF RailPays
<1>10. CASE RailRefuses(r)
  BY <1>10 DEF RailRefuses
<1>11. CASE PostEntries(r)
  BY <1>11 DEF PostEntries
<1>12. CASE CommitPayment(r)
  BY <1>12 DEF CommitPayment
<1>13. CASE Replay(r)
  BY <1>13 DEF Replay
<1>14. CASE Fetch(r)
  BY <1>14 DEF Fetch
<1>15. CASE LockHeader(r)
  BY <1>15 DEF LockHeader
<1>16. CASE LockContra(r)
  BY <1>16 DEF LockContra
<1>17. CASE PostContra(r)
  BY <1>17 DEF PostContra, SharePC, ContraPC
<1>18. CASE CommitReversal(r)
  BY <1>18 DEF CommitReversal
<1>19. CASE DeadlockAbort(r)
  BY <1>19 DEF DeadlockAbort
<1>20. CASE Fail(r)
  BY <1>20 DEF Fail
<1> QED
  BY <1>1, <1>2, <1>3, <1>4, <1>5, <1>6, <1>7, <1>8, <1>9, <1>10, <1>11, <1>12, <1>13,
       <1>14, <1>15, <1>16, <1>17, <1>18, <1>19, <1>20 DEF Act, Step

\* What a request has found stays found: no header goes, and none comes back
\* from REVERSED.
LEMMA FoundStays ==
  ASSUME LedgerInv, NEW r \in Requests, Act(r), NEW q \in Requests, Found(q),
         got'[q] = got[q], call'[q] = call[q]
  PROVE  Found(q)'
<1>1. headers'[got[q]] # None /\ headers'[got[q]].key = headers[got[q]].key
  BY KeptHeaders DEF Found
<1>2. headers[got[q]].status = "REVERSED" => headers'[got[q]] = headers[got[q]]
  BY HeadersFrame DEF Found
<1> QED
  BY <1>1, <1>2 DEF Found

\* Every step keeps the answers of all requests true.
LEMMA AnswerStep ==
  ASSUME LedgerInv, \A p \in Requests : AnswerInv(p), NEW r \in Requests, Act(r), NEW q \in Requests
  PROVE  AnswerInv(q)'
<1>1. CASE q # r
  <2>1. /\ pc'[q] = pc[q] /\ call'[q] = call[q]
        /\ reply'[q] = reply[q] /\ got'[q] = got[q]
    BY <1>1, Frame, SessionFrame DEF LedgerInv
  <2>2. Unrecorded(q) => Unrecorded(q)'
    <3>1. headers'[q] = headers[q] \/ headers[q] # None
      BY <1>1, HeadersFrame
    <3>2. \A e \in entries' : e \in entries \/ e.by = r
      BY RowsStep, StagedRows
    <3> QED
      BY <1>1, <3>1, <3>2 DEF Unrecorded
  <2>3. Found(q) => Found(q)'
    BY <2>1, FoundStays
  <2> QED
    BY <2>1, <2>2, <2>3 DEF AnswerInv
<1>2. CASE q = r
  <2>1. /\ reply[r] # "none" => pc[r] = "done"
        /\ pc[r] \notin {"fetch", "done"} => Unrecorded(r)
        /\ pc[r] = "fetch" => Found(r)
    BY DEF AnswerInv
  <2>2. reply[r] = "none"
    BY <2>1, Moves
  <2>3. (UNCHANGED tables) /\ Unrecorded(r) => Unrecorded(r)'
    BY DEF tables, Unrecorded
  <2> USE <1>2, <2>1, <2>2, <2>3 DEF AnswerInv, Refusal, LedgerInv, TypeOK, Goto, LockAndGoto, Release, Return, ReturnSame, txs, session
  <2>4. CASE Receive(r)
    BY <2>4, CallFields DEF Receive, FirstStep
  <2>5. CASE Lookup(r)
    <3>1. call[r].op # "reverse" /\ call[r].key \in Keys
      BY <2>5, CallKind, CallFields DEF Lookup, CallInv, PayPC
    <3>2. claims[call[r].key] # None =>
            /\ claims[call[r].key] \in Requests /\ headers[claims[call[r].key]] # None
            /\ headers[claims[call[r].key]].key = call[r].key
      BY <3>1 DEF ClaimsMatchHeaders
    <3>3. /\ got'[r] = claims[call[r].key] /\ call' = call /\ headers' = headers
          /\ reply' = reply /\ (UNCHANGED tables)
          /\ pc'[r] = IF claims[call[r].key] # None THEN "fetch" ELSE "lockSrc"
      BY <2>5 DEF Lookup, tables
    <3>4. pc'[r] = "fetch" => Found(r)'
      BY <3>1, <3>2, <3>3 DEF Found
    <3> QED
      BY <2>5, <3>3, <3>4 DEF Lookup
  <2>6. CASE LockSource(r)
    BY <2>6 DEF LockSource
  <2>7. CASE LockDestination(r)
    BY <2>7 DEF LockDestination
  <2>8. CASE CheckBalance(r)
    BY <2>8 DEF CheckBalance
  <2>9. CASE LockSettlement(r)
    BY <2>9 DEF LockSettlement
  <2>10. CASE InsertHeader(r)
    BY <2>10 DEF InsertHeader
  <2>11. CASE Claim(r)
    BY <2>11 DEF Claim
  <2>12. CASE RailPays(r)
    BY <2>12 DEF RailPays
  <2>13. CASE RailRefuses(r)
    BY <2>13 DEF RailRefuses
  <2>14. CASE PostEntries(r)
    BY <2>14 DEF PostEntries
  <2>15. CASE CommitPayment(r)
    <3>1. call[r] \in Calls
      BY <2>15, CallKind DEF CommitPayment
    <3>2. headers'[r] = HeaderOf(call[r]) /\ got'[r] = r /\ call' = call
      BY <2>15 DEF CommitPayment
    <3>3. Found(r)'
      BY <2>15, <3>1, <3>2, HeaderType DEF Found, CommitPayment
    <3> QED
      BY <2>15, <3>3 DEF CommitPayment
  <2>16. CASE Replay(r)
    <3>1. CASE KeyTaken(call[r].key)
      <4>1. call[r].op # "reverse"
        BY <2>16 DEF Replay, CallInv
      <4>2. /\ got'[r] \in Requests /\ headers[got'[r]] # None
            /\ headers[got'[r]].key = call[r].key
            /\ headers' = headers /\ call' = call /\ reply'[r] = "ok" /\ pc'[r] = "done"
        BY <2>16, <3>1 DEF Replay, tables
      <4> QED
        BY <4>1, <4>2 DEF Found
    <3>2. CASE ~KeyTaken(call[r].key)
      BY <2>16, <3>2 DEF Replay
    <3> QED
      BY <3>1, <3>2
  <2>17. CASE Fetch(r)
    <3>1. Found(r)
      BY <2>17 DEF Fetch
    <3>2. got' = got /\ call' = call /\ reply'[r] = "ok" /\ pc'[r] = "done"
      BY <2>17, <3>1 DEF Fetch, Found
    <3> QED
      BY <3>1, <3>2, FoundStays
  <2>18. CASE LockHeader(r)
    BY <2>18 DEF LockHeader
  <2>19. CASE LockContra(r)
    BY <2>19 DEF LockContra
  <2>20. CASE PostContra(r)
    BY <2>20 DEF PostContra, SharePC
  <2>21. CASE CommitReversal(r)
    <3>1. /\ call[r].target \in Requests
          /\ headers[call[r].target] # None /\ headers[call[r].target] \in Header
      BY <2>21, OriginalType DEF CommitReversal, Original
    <3>2. headers'[call[r].target] = [headers[call[r].target] EXCEPT !.status = "REVERSED"]
      BY <2>21, <3>1 DEF CommitReversal, MarkReversed
    <3>3. headers'[call[r].target] # None
      BY <3>1, KeptHeaders
    <3>4. got'[r] = call[r].target /\ call' = call /\ call[r].op = "reverse"
      BY <2>21 DEF CommitReversal
    <3>5. headers'[call[r].target].status = "REVERSED"
      BY <3>1, <3>2 DEF Header
    <3>6. Found(r)'
      BY <3>1, <3>3, <3>4, <3>5 DEF Found
    <3> QED
      BY <2>21, <3>6 DEF CommitReversal
  <2>22. CASE DeadlockAbort(r)
    BY <2>22, WaitPC DEF DeadlockAbort
  <2>23. CASE Fail(r)
    BY <2>23 DEF Fail
  <2> QED
    BY <2>4, <2>5, <2>6, <2>7, <2>8, <2>9, <2>10, <2>11, <2>12, <2>13, <2>14, <2>15,
         <2>16, <2>17, <2>18, <2>19, <2>20, <2>21, <2>22, <2>23 DEF Act, Step
<1> QED
  BY <1>1, <1>2

\* Every step keeps the payouts in agreement with what is or will be recorded.
LEMMA PayoutStep ==
  ASSUME LedgerInv, CallInv', \A p \in Requests : PayoutInv(p), NEW r \in Requests, Act(r), NEW q \in Requests
  PROVE  PayoutInv(q)'
<1>1. CASE q # r
  <2>1. pc'[q] = pc[q] /\ call'[q] = call[q]
    BY <1>1, Frame DEF LedgerInv
  <2>2. q \in paid' <=> q \in paid
    BY <1>1, SessionFrame
  <2>3. headers'[q] # None => headers[q] # None
    BY <1>1, HeadersFrame
  <2> QED
    BY <2>1, <2>2, <2>3 DEF PayoutInv
<1>2. CASE q = r
  <2>1. ASSUME r \in paid' PROVE call'[r] # None /\ call'[r].op \in {"transfer", "cross"}
    <3>1. CASE r \in paid
      <4>1. call[r] # None /\ call[r].op \in {"transfer", "cross"}
        BY <3>1 DEF PayoutInv
      <4> QED
        BY <4>1, Moves DEF LedgerInv, CallInv
    <3>2. CASE RailPays(r)
      BY <3>2, CallKind DEF RailPays, LedgerInv, CallInv, PayPC, session
    <3> QED
      BY <2>1, <3>1, <3>2, SessionFrame
  <2>2. ASSUME headers'[r] # None \/ pc'[r] \in {"post", "commit"},
               call'[r].op \in {"transfer", "cross"}
        PROVE  r \in paid'
    <3>1. pc[r] # "idle" /\ call'[r] = call[r]
      <4>1. pc[r] = "idle" => headers[r] = None /\ ~Inserted(r)'
        BY Moves DEF LedgerInv, KeyInv
      <4>2. pc[r] = "idle" => headers'[r] = None
        BY <4>1, HeadersFrame
      <4> QED
        BY <2>2, <4>1, <4>2, Moves DEF Inserted
    <3>2. paid \subseteq paid'
      BY SessionFrame
    <3>3. CASE headers'[r] # None
      <4>1. headers[r] # None \/ pc[r] = "commit"
        BY <3>3, HeadersFrame
      <4> QED
        BY <2>2, <3>1, <3>2, <4>1 DEF PayoutInv
    <3>4. CASE pc'[r] = "post"
      BY <2>2, <3>1, <3>4, SessionFrame
    <3>5. CASE pc'[r] = "commit"
      BY <2>2, <3>1, <3>2, <3>5, SessionFrame DEF PayoutInv
    <3> QED
      BY <2>2, <3>3, <3>4, <3>5
  <2> QED
    BY <1>2, <2>1, <2>2 DEF PayoutInv
<1> QED
  BY <1>1, <1>2

\* The engine starts in the larger invariant, and every step preserves it.
LEMMA TraceInductive ==
  /\ Init => TraceInv
  /\ TraceInv /\ [Next]_vars => TraceInv'
<1>1. Init => \A r \in Requests : AnswerInv(r) /\ PayoutInv(r)
  BY DEF Init, AnswerInv, Unrecorded, PayoutInv, Refusal
<1>2. ASSUME TraceInv, NEW r \in Requests, Act(r), NEW q \in Requests
      PROVE  AnswerInv(q)' /\ PayoutInv(q)'
  BY <1>2, CallStep, AnswerStep, PayoutStep DEF TraceInv
<1>3. ASSUME TraceInv, UNCHANGED vars, NEW q \in Requests PROVE AnswerInv(q)' /\ PayoutInv(q)'
  BY <1>3 DEF TraceInv, vars, tables, txs, session, AnswerInv, Unrecorded, Found, PayoutInv
<1> QED
  BY <1>1, <1>2, <1>3, InitInv, NextInv DEF TraceInv, Next, AllServed

LEMMA TraceInvariance == Spec => []TraceInv
BY TraceInductive, PTL DEF Spec

\* A client told "ok" is shown its transfer, or its reversal, and a client told
\* that its call was refused has not been charged by it (transfer.go 63-75,
\* 113-139 and 151-153: the replay of a key and the deferred rollback).
THEOREM AnswersTrue == Spec => []RepliesAreTrue
<1>1. TraceInv => RepliesAreTrue
  BY DEF TraceInv, AnswerInv, Refusal, Unrecorded, Found, RepliesAreTrue
<1> QED
  BY <1>1, TraceInvariance, PTL

\* No payment is in the books that the rail has not made, and of the payouts
\* made under one key one at most is booked (transfer.go 141-153).
THEOREM RailAgrees == Spec => []RailAgreesWithBooks
<1>1. ASSUME TraceInv PROVE RailAgreesWithBooks
  <2>1. ASSUME NEW h \in Requests, headers[h] # None, ~IsFunding(h) PROVE h \in paid
    <3>1. call[h].op \in {"transfer", "cross"}
      BY <1>1, <2>1, RecordedHeader, CallFields DEF TraceInv, IsFunding
    <3> QED
      BY <1>1, <2>1, <3>1 DEF TraceInv, PayoutInv
  <2>2. ASSUME NEW r \in paid, NEW s \in paid, r # s, call[r].key = call[s].key,
               headers[r] # None \/ pc[r] \in {"post", "commit"},
               headers[s] # None \/ pc[s] \in {"post", "commit"}
        PROVE  FALSE
    <3>1. r \in Requests /\ s \in Requests
      BY <1>1 DEF TraceInv, LedgerInv, TypeOK
    <3>2. \A q \in paid : headers[q] # None => KeyTaken(call[q].key) /\ headers[q].key = call[q].key
      BY <1>1, RecordedHeader DEF TraceInv, LedgerInv, TypeOK, KeyTaken
    <3>3. \A q \in paid : pc[q] \in {"post", "commit"} => Inserted(q)
      BY <1>1 DEF TraceInv, PayoutInv, LedgerInv, TypeOK, Inserted
    <3> QED
      BY <1>1, <2>2, <3>1, <3>2, <3>3 DEF TraceInv, LedgerInv, KeyInv, OneTransferPerKey
  <2> QED
    BY <2>1, <2>2 DEF RailAgreesWithBooks
<1> QED
  BY <1>1, TraceInvariance, PTL

\* No step rewrites history: rows and claims stay, and a header changes only
\* from SUCCESS to REVERSED, together with its contra rows (transfer.go
\* 223-229; writeDoubleEntry and writeCrossBorderEntries only insert).
THEOREM NothingRewritten == Spec => HistoryKept
<1> DEFINE Kept ==
      /\ entries \subseteq entries'
      /\ \A k \in Keys : claims[k] # None => claims'[k] = claims[k]
      /\ \A h \in Requests : headers[h] # None =>
           \/ headers'[h] = headers[h] /\ {e \in entries' : e.tx = h} = RowsOf(h)
           \/ /\ headers[h].status = "SUCCESS"
              /\ headers'[h] = [headers[h] EXCEPT !.status = "REVERSED"]
              /\ {e \in entries' : e.tx = h} # RowsOf(h)
<1>1. ASSUME TraceInv, NEW r \in Requests, Act(r) PROVE Kept
  <2>1. entries \subseteq entries'
    BY <1>1, RowsStep DEF TraceInv
  <2>2. ASSUME NEW k \in Keys, claims[k] # None PROVE claims'[k] = claims[k]
    <3>1. CommitPayment(r) => ~KeyTaken(call[r].key)
      BY <1>1 DEF TraceInv, CommitPayment, LedgerInv, KeyInv, Inserted
    <3>2. KeyTaken(k)
      BY <1>1, <2>2 DEF TraceInv, LedgerInv, ClaimsMatchHeaders, TypeOK, KeyTaken
    <3>3. claims' = claims \/ (CommitPayment(r) /\ claims' = [claims EXCEPT ![call[r].key] = r])
      BY <1>1, TablesFrame DEF tables, CommitPayment, CommitReversal
    <3> QED
      BY <1>1, <3>1, <3>2, <3>3 DEF TraceInv, LedgerInv, TypeOK
  <2>3. ASSUME NEW h \in Requests, headers[h] # None, headers'[h] = headers[h]
        PROVE  {e \in entries' : e.tx = h} = RowsOf(h)
    BY <1>1, <2>3, RowsFrame DEF TraceInv
  <2>4. ASSUME NEW h \in Requests, headers[h] # None, CommitReversal(r), h = call[r].target
        PROVE  {e \in entries' : e.tx = h} # RowsOf(h)
    <3>1. pc[r] = "commit" /\ call[r].op = "reverse" /\ entries' = entries \cup staged[r]
      BY <2>4 DEF CommitReversal
    <3>2. PICK e \in staged[r] : e.by = r /\ e.tx = h
      BY <1>1, <2>4, <3>1, StagedRows DEF TraceInv
    <3>3. e \notin entries
      BY <1>1, <3>1, <3>2 DEF TraceInv, AnswerInv, Unrecorded
    <3> QED
      BY <3>1, <3>2, <3>3 DEF RowsOf
  <2>5. ASSUME NEW h \in Requests, headers[h] # None
        PROVE  \/ headers'[h] = headers[h]
               \/ /\ headers[h].status = "SUCCESS" /\ CommitReversal(r) /\ h = call[r].target
                  /\ headers'[h] = [headers[h] EXCEPT !.status = "REVERSED"]
    BY <1>1, <2>5, HeadersFrame DEF TraceInv
  <2> QED
    BY <2>1, <2>2, <2>3, <2>4, <2>5
<1>2. TraceInv /\ [Next]_vars => [Kept]_vars
  BY <1>1 DEF Next, AllServed
<1> QED
  BY <1>2, TraceInvariance, PTL DEF Spec, HistoryKept

-----------------------------------------------------------------------------
(* The money: what the rows of a header sum to, and what the rows of an    *)
(* account do.  RowsInv says which rows are there; the lemmas of           *)
(* BooksProofs about sums of rows do the rest.                             *)

\* A header in the books has the rows of its payment and, once it is reversed,
\* those of one reversal; without a header there are none.
HeaderRows(h) ==
  /\ headers[h] = None => RowsOf(h) = {}
  /\ headers[h] # None =>
       /\ WellFormed(call[h])
       /\ headers[h].status = "SUCCESS" => RowsOf(h) = PaymentRows(h, call[h])
       /\ headers[h].status = "REVERSED" =>
            \E r \in Requests \ {h} :
              RowsOf(h) = PaymentRows(h, call[h]) \cup ContraRows(r, h, HeaderOf(call[h]))

RowsInv == TraceInv /\ IsFiniteSet(entries) /\ \A h \in Requests : HeaderRows(h)

-----------------------------------------------------------------------------
(* The rows that a commit adds                                             *)

\* A header that can be reversed shows what its call asked for.
LEMMA OriginalHeader ==
  ASSUME LedgerInv, NEW r \in Requests, CommitReversal(r)
  PROVE  /\ call[r].target \in Requests /\ call[r].target # r
         /\ headers[call[r].target] # None /\ headers[call[r].target].status = "SUCCESS"
         /\ headers[call[r].target] = HeaderOf(call[call[r].target])
         /\ Original(r) = headers[call[r].target]
<1> DEFINE h == call[r].target
<1>1. h \in Requests /\ headers[h] # None /\ headers[h].status = "SUCCESS"
  BY OriginalType DEF CommitReversal, Original
<1>2. call[h].op # "reverse"
  BY <1>1, RecordedHeader
<1>3. headers[h] = [HeaderOf(call[h]) EXCEPT !.status = headers[h].status]
  BY <1>1 DEF LedgerInv, Checked
<1>4. [HeaderOf(call[h]) EXCEPT !.status = "SUCCESS"] = HeaderOf(call[h])
  BY DEF HeaderOf
<1>5. h # r
  BY <1>2 DEF CommitReversal
<1>6. headers[h] = HeaderOf(call[h])
  BY <1>1, <1>3, <1>4
<1> QED
  BY <1>1, <1>5, <1>6 DEF Original

\* A commit adds finitely many rows, none of which is in the books.
LEMMA FreshRows ==
  ASSUME RowsInv, NEW r \in Requests, CommitPayment(r) \/ CommitReversal(r)
  PROVE  /\ IsFiniteSet(staged[r]) /\ staged[r] \subseteq Row /\ entries \subseteq Row
         /\ entries \cap staged[r] = {}
         /\ entries' = entries \cup staged[r]
<1>1. pc[r] = "commit" /\ entries' = entries \cup staged[r]
  BY DEF CommitPayment, CommitReversal
<1>2. entries \subseteq Row
  BY DEF RowsInv, TraceInv, LedgerInv, TypeOK
<1>3. entries \cap staged[r] = {}
  <2>1. \A e \in staged[r] : e.by = r
    BY <1>1, StagedRows DEF RowsInv, TraceInv
  <2>2. \A e \in entries : e.by # r
    BY <1>1 DEF RowsInv, TraceInv, AnswerInv, Unrecorded
  <2> QED
    BY <2>1, <2>2
<1>4. CASE CommitPayment(r)
  <2>1. staged[r] = PaymentRows(r, call[r])
    BY <1>4 DEF CommitPayment, RowsInv, TraceInv, LedgerInv, Staged
  <2>2. call[r] \in Calls /\ call[r].op # "reverse" /\ WellFormed(call[r]) /\ Authorised(call[r])
    BY <1>4, CallKind DEF CommitPayment, RowsInv, TraceInv, LedgerInv, Checked, Inserted
  <2> QED
    BY <1>1, <1>2, <1>3, <2>1, <2>2, PaymentSum
<1>5. CASE CommitReversal(r)
  <2> DEFINE h == call[r].target
  <2>1. staged[r] = ContraRows(r, h, Original(r))
    BY <1>5 DEF CommitReversal, RowsInv, TraceInv, LedgerInv, Staged
  <2>2. h \in Requests /\ headers[h] # None /\ Original(r) = HeaderOf(call[h])
    BY <1>5, OriginalHeader DEF RowsInv, TraceInv
  <2>3. call[h] \in Calls /\ call[h].op # "reverse" /\ Authorised(call[h]) /\ WellFormed(call[h])
    BY <2>2, RecordedHeader DEF RowsInv, TraceInv, HeaderRows
  <2> DEFINE hd == HeaderOf(call[h])
  <2>4. hd \in Header /\ hd.amt \in Nat /\ hd.fx \in Nat
        /\ (hd.fx > 0 => /\ SettlementAccounts(AccountCurrency[hd.src]) # {}
                         /\ SettlementAccounts(AccountCurrency[hd.dst]) # {})
    BY <2>3, HeaderFields
  <2>5. IsFiniteSet(ContraRows(r, h, hd)) /\ ContraRows(r, h, hd) \subseteq Row
    <3> HIDE DEF h, hd
    <3> QED
      BY <2>2, <2>4, ContraSum
  <2> QED
    BY <1>1, <1>2, <1>3, <2>1, <2>2, <2>5
<1> QED
  BY <1>4, <1>5

\* Every step keeps the rows of every header as RowsInv says.
LEMMA HeaderRowsStep ==
  ASSUME RowsInv, NEW r \in Requests, Act(r), NEW h \in Requests
  PROVE  HeaderRows(h)'
<1> USE DEF RowsInv, TraceInv
<1>1. CASE headers'[h] = headers[h]
  <2>1. RowsOf(h)' = RowsOf(h)
    BY <1>1, RowsFrame DEF RowsOf
  <2>2. headers[h] # None => call'[h] = call[h]
    BY RecordedCall
  <2>3. HeaderRows(h)
    OBVIOUS
  <2> QED
    BY <1>1, <2>1, <2>2, <2>3 DEF HeaderRows
<1>2. CASE /\ CommitPayment(r) /\ h = r /\ pc[r] = "commit" /\ headers[h] = None
           /\ headers'[h] = HeaderOf(call[r])
  <2>1. call' = call /\ entries' = entries \cup staged[r]
    BY <1>2 DEF CommitPayment
  <2>2. RowsOf(h) = {} /\ \A e \in staged[r] : e.tx = r
    BY <1>2, StagedRows DEF HeaderRows, CommitPayment
  <2>3. RowsOf(h)' = staged[r]
    BY <1>2, <2>1, <2>2 DEF RowsOf
  <2>4. staged[r] = PaymentRows(r, call[r]) /\ WellFormed(call[r])
    BY <1>2 DEF CommitPayment, LedgerInv, Staged, Checked
  <2>5. HeaderOf(call[r]).status = "SUCCESS" /\ HeaderOf(call[r]) # None
    BY <1>2, CallKind, HeaderType DEF CommitPayment, LedgerInv
  <2> QED
    BY <1>2, <2>1, <2>3, <2>4, <2>5 DEF HeaderRows
<1>3. CASE /\ CommitReversal(r) /\ h = call[r].target
           /\ headers[h] # None /\ headers[h].status = "SUCCESS"
           /\ headers'[h] = [headers[h] EXCEPT !.status = "REVERSED"]
  <2>1. call' = call /\ entries' = entries \cup staged[r] /\ pc[r] = "commit" /\ call[r].op = "reverse"
    BY <1>3 DEF CommitReversal
  <2>2. RowsOf(h) = PaymentRows(h, call[h]) /\ WellFormed(call[h])
    BY <1>3 DEF HeaderRows
  <2>3. \A e \in staged[r] : e.tx = h
    BY <1>3, <2>1, StagedRows
  <2>4. RowsOf(h)' = RowsOf(h) \cup staged[r]
    BY <2>1, <2>3 DEF RowsOf
  <2>5. staged[r] = ContraRows(r, h, HeaderOf(call[h])) /\ h # r
    BY <1>3, <2>1, OriginalHeader DEF LedgerInv, Staged
  <2>6. headers'[h] # None /\ headers'[h].status = "REVERSED"
    <3>1. headers[h] \in Header
      BY <1>3, RecordedHeader
    <3>2. headers'[h] \in Header /\ headers'[h].status = "REVERSED"
      BY <1>3, <3>1 DEF Header
    <3> QED
      BY <3>2, BooksAssumption
  <2> QED
    BY <2>1, <2>2, <2>4, <2>5, <2>6 DEF HeaderRows
<1> QED
  BY <1>1, <1>2, <1>3, HeadersFrame

\* The engine starts with no rows, and every step keeps the rows in order.
LEMMA RowsInductive ==
  /\ Init => RowsInv
  /\ RowsInv /\ [Next]_vars => RowsInv'
<1>1. Init => IsFiniteSet(entries) /\ \A h \in Requests : HeaderRows(h)
  BY FS_EmptySet DEF Init, HeaderRows, RowsOf
<1>2. ASSUME RowsInv, NEW r \in Requests, Act(r) PROVE IsFiniteSet(entries')
  <2>1. CASE entries' = entries
    BY <1>2, <2>1 DEF RowsInv
  <2>2. CASE CommitPayment(r) \/ CommitReversal(r)
    <3>1. /\ IsFiniteSet(entries) /\ IsFiniteSet(staged[r])
          /\ entries' = entries \cup staged[r]
      BY <1>2, <2>2, FreshRows DEF RowsInv
    <3>2. IsFiniteSet(entries \cup staged[r])
      BY <3>1, FS_Union
    <3> QED
      BY <3>1, <3>2
  <2> QED
    BY <1>2, <2>1, <2>2, RowsStep DEF RowsInv, TraceInv
<1>3. ASSUME RowsInv, UNCHANGED vars
      PROVE  IsFiniteSet(entries') /\ \A h \in Requests : HeaderRows(h)'
  BY <1>3 DEF RowsInv, vars, tables, session, HeaderRows, RowsOf
<1>4. ASSUME RowsInv, NEW r \in Requests, Act(r) PROVE \A h \in Requests : HeaderRows(h)'
  BY <1>4, HeaderRowsStep
<1> QED
  BY <1>1, <1>2, <1>3, <1>4, TraceInductive DEF RowsInv, Next, AllServed

LEMMA RowsInvariance == Spec => []RowsInv
BY RowsInductive, PTL DEF Spec

-----------------------------------------------------------------------------
(* The rows of a header                                                    *)

\* On any set of accounts, the rows of a header amount to what its payment
\* wrote there and, once it is reversed, to what the reversal wrote.
LEMMA HeaderSum ==
  ASSUME RowsInv, NEW h \in Requests, headers[h] # None, NEW M
  PROVE  /\ headers[h].status = "SUCCESS" =>
              Total(RowsAt(RowsOf(h), M)) = Total(RowsAt(PaymentRows(h, call[h]), M))
         /\ headers[h].status = "REVERSED" =>
              \E r \in Requests :
                Total(RowsAt(RowsOf(h), M)) =
                  Total(RowsAt(PaymentRows(h, call[h]), M))
                    + Total(RowsAt(ContraRows(r, h, HeaderOf(call[h])), M))
<1> DEFINE c == call[h]
<1> DEFINE hd == HeaderOf(c)
<1>1. c \in Calls /\ c.op # "reverse" /\ Authorised(c) /\ WellFormed(c) /\ HeaderRows(h)
  BY RecordedHeader DEF RowsInv, TraceInv, HeaderRows
<1>2. CASE headers[h].status = "SUCCESS"
  BY <1>1, <1>2 DEF HeaderRows
<1>3. CASE headers[h].status = "REVERSED"
  <2>1. PICK r \in Requests \ {h} : RowsOf(h) = PaymentRows(h, c) \cup ContraRows(r, h, hd)
    BY <1>1, <1>3 DEF HeaderRows
  <2> DEFINE P == PaymentRows(h, c)
  <2> DEFINE C == ContraRows(r, h, hd)
  <2>2. IsFiniteSet(P) /\ P \subseteq Row
    <3> HIDE DEF c
    <3> QED
      BY <1>1, PaymentSum
  <2>3. IsFiniteSet(C) /\ C \subseteq Row
    <3>1. hd \in Header /\ hd.amt \in Nat
          /\ (hd.fx > 0 => /\ SettlementAccounts(AccountCurrency[hd.src]) # {}
                           /\ SettlementAccounts(AccountCurrency[hd.dst]) # {})
      BY <1>1, HeaderFields
    <3> HIDE DEF hd
    <3> QED
      BY <3>1, ContraSum
  <2>4. P \cap C = {}
    <3>1. \A e \in P : e.by = h
      BY <1>1, CallFields DEF PaymentRows, CrossBorderEntries, DoubleEntry, NewRow
    <3>2. \A e \in C : e.by = r
      BY DEF ContraRows, CrossBorderEntries, DoubleEntry, NewRow
    <3> HIDE DEF P, C
    <3> QED
      BY <3>1, <3>2
  <2>5. Total(RowsAt(P \cup C, M)) = Total(RowsAt(P, M)) + Total(RowsAt(C, M))
    <3> HIDE DEF P, C
    <3> QED
      BY <2>2, <2>3, <2>4, RowsAtUnion
  <2> QED
    BY <1>3, <2>1, <2>5
<1>4. headers[h].status \in {"SUCCESS", "REVERSED"}
  BY RecordedHeader DEF RowsInv, TraceInv
<1> QED
  BY <1>2, <1>3, <1>4

\* Every rate that a call can ask for is one that the column fx_rate does not
\* round to zero.
RatesKept == \A c \in Calls : c.op = "cross" /\ c.rate > 0 => StoredRate(c.rate) > 0

\* Double entry: in every currency the rows of a transfer and of its reversal
\* sum to zero, and those of a funding to the money that it brought in
\* (writeDoubleEntry and writeCrossBorderEntries in transfer.go), provided that
\* no rate is stored as zero.
THEOREM BooksAreBalanced ==
  ASSUME RatesKept
  PROVE  Spec => []BooksBalance
<1>1. ASSUME RowsInv PROVE BooksBalance
  <2> SUFFICES ASSUME NEW h \in Requests, NEW cur \in Currencies
               PROVE  Total({e \in RowsOf(h) : AccountCurrency[e.acct] = cur})
                        = IF IsFunding(h) /\ AccountCurrency[headers[h].src] = cur
                          THEN headers[h].amt ELSE 0
    BY DEF BooksBalance
  <2> DEFINE M == InCurrency(cur)
  <2>1. {e \in RowsOf(h) : AccountCurrency[e.acct] = cur} = RowsAt(RowsOf(h), M)
    BY <1>1 DEF RowsAt, InCurrency, RowsOf, Row, RowsInv, TraceInv, LedgerInv, TypeOK
  <2>2. CASE headers[h] = None
    <3>1. RowsOf(h) = {}
      BY <1>1, <2>2 DEF RowsInv, HeaderRows
    <3>2. RowsAt(RowsOf(h), M) = {}
      BY <3>1 DEF RowsAt
    <3> QED
      BY <2>1, <2>2, <3>2, TotalEmpty DEF IsFunding
  <2>3. CASE headers[h] # None
    <3> DEFINE c == call[h]
    <3>1. c \in Calls /\ c.op # "reverse" /\ Authorised(c) /\ WellFormed(c)
      BY <1>1, <2>3, RecordedHeader DEF RowsInv, TraceInv, HeaderRows
    <3>2. headers[h].src = c.src /\ headers[h].status \in {"SUCCESS", "REVERSED"}
      BY <1>1, <2>3, RecordedHeader DEF RowsInv, TraceInv
    <3>3. headers[h].amt = c.amt
      BY <1>1, <2>3 DEF RowsInv, TraceInv, LedgerInv, Checked, HeaderOf
    <3> DEFINE due == IF c.op = "fund" /\ AccountCurrency[c.src] = cur THEN c.amt ELSE 0
    <3>4. Total(RowsAt(PaymentRows(h, c), M)) = due
      <4> HIDE DEF c
      <4> QED
        BY <3>1, PaymentBalances
    <3>5. \A r \in Requests : Total(RowsAt(ContraRows(r, h, HeaderOf(c)), M)) = 0
      <4>1. c.op = "cross" => StoredRate(c.rate) > 0
        BY <3>1 DEF RatesKept, WellFormed
      <4> HIDE DEF c
      <4> QED
        BY <3>1, <4>1, ContraBalances
    <3>6. due \in Int
      BY <3>1, CallFields
    <3>7. Total(RowsAt(RowsOf(h), M)) = due
      <4> HIDE DEF M, due
      <4>1. CASE headers[h].status = "SUCCESS"
        BY <1>1, <2>3, <3>4, <4>1, HeaderSum
      <4>2. CASE headers[h].status = "REVERSED"
        <5>1. PICK r \in Requests :
                Total(RowsAt(RowsOf(h), M)) =
                  Total(RowsAt(PaymentRows(h, c), M)) + Total(RowsAt(ContraRows(r, h, HeaderOf(c)), M))
          BY <1>1, <2>3, <4>2, HeaderSum
        <5>2. Total(RowsAt(ContraRows(r, h, HeaderOf(c)), M)) = 0
          BY <3>5
        <5> QED
          BY <3>4, <3>6, <5>1, <5>2
      <4> QED
        BY <3>2, <4>1, <4>2
    <3> QED
      BY <2>1, <2>3, <3>2, <3>3, <3>7 DEF IsFunding
  <2> QED
    BY <2>2, <2>3
<1> QED
  BY <1>1, RowsInvariance, PTL

\* At any rates, a reversed transfer was undone exactly once: its source has all
\* its money back, every account is as it was if the column has kept the rate,
\* and otherwise the destination and its settlement account differ by what the
\* rounding of the rate makes of the amount (transfer.go 188-229).
THEOREM ReversalsRestore == Spec => []ReversalRestores
<1>1. ASSUME RowsInv PROVE ReversalRestores
  <2> SUFFICES ASSUME NEW h \in Requests, headers[h] # None, headers[h].status = "REVERSED",
                      ~IsFunding(h), NEW a \in Accounts
               PROVE  LET left == Balance(RowsOf(h), a)
                          at(b) == IF a = b THEN RateGap(h) ELSE 0
                      IN  /\ a = headers[h].src \/ call[h].op = "transfer" \/ RateKept(h) => left = 0
                          /\ call[h].op = "cross" /\ headers[h].fx > 0 =>
                               left = at(headers[h].dst) - at(Settlement(AccountCurrency[headers[h].dst]))
    BY DEF ReversalRestores
  <2> DEFINE c == call[h]
             left == Balance(RowsOf(h), a)
             gap == Exchanged(c.amt, c.rate, RateUnit * RateGrain) - Exchanged(c.amt, HeaderOf(c).fx, RateUnit)
  <2>1. c \in Calls /\ c.op # "reverse" /\ Authorised(c) /\ WellFormed(c)
    BY <1>1, RecordedHeader DEF RowsInv, TraceInv, HeaderRows
  <2>2. c.op \in {"transfer", "cross"}
    BY <2>1, CallFields DEF IsFunding
  <2>3. /\ headers[h].src = c.src /\ headers[h].dst = c.dst /\ headers[h].amt = c.amt
        /\ headers[h].fx = HeaderOf(c).fx
    BY <1>1 DEF RowsInv, TraceInv, LedgerInv, Checked, HeaderOf
  <2>4. PICK r \in Requests :
          Total(RowsAt(RowsOf(h), {a})) =
            Total(RowsAt(PaymentRows(h, c), {a})) + Total(RowsAt(ContraRows(r, h, HeaderOf(c)), {a}))
    BY <1>1, HeaderSum
  <2>5. left = Total(RowsAt(PaymentRows(h, c), {a})) + Total(RowsAt(ContraRows(r, h, HeaderOf(c)), {a}))
    BY <2>4, BalanceAt
  <2>6. /\ a = c.src \/ c.op = "transfer" => left = 0
        /\ c.op = "cross" /\ HeaderOf(c).fx > 0 =>
             left = At(c.dst, {a}, gap) - At(Settlement(c.to), {a}, gap)
    <3> HIDE DEF c, left
    <3> QED BY <2>1, <2>2, <2>5, ContraLeaves
  <2>7. RateGap(h) = gap /\ AccountCurrency[headers[h].dst] = c.to
    BY <2>1, <2>3 DEF RateGap, Authorised
  <2>8. c.op = "cross" /\ RateKept(h) => HeaderOf(c).fx > 0 /\ gap = 0
    <3> SUFFICES ASSUME c.op = "cross", c.rate = HeaderOf(c).fx * RateGrain
                 PROVE  HeaderOf(c).fx > 0 /\ gap = 0
      BY <2>3 DEF RateKept
    <3>a. c.op = "cross" OBVIOUS
    <3> HIDE DEF c
    <3>1. c.rate \in Nat \ {0} /\ c.amt \in Nat /\ HeaderOf(c).fx \in Nat
      <4>1. c.amt \in Nat /\ HeaderOf(c).fx \in Nat BY <2>1, HeaderFields
      <4>2. c.rate \in Nat BY <2>1, <2>2, CallFields
      <4>3. c.rate > 0 BY <2>1, <3>a DEF WellFormed
      <4> QED BY <4>1, <4>2, <4>3
    <3>2. HeaderOf(c).fx \in Nat \ {0} BY <3>1, BooksAssumption
    <3>3. /\ Exchanged(c.amt, c.rate, RateUnit * RateGrain) = Exchanged(c.amt, HeaderOf(c).fx, RateUnit)
          /\ Exchanged(c.amt, HeaderOf(c).fx, RateUnit) \in Nat
      <4>1. Exchanged(c.amt, HeaderOf(c).fx * RateGrain, RateUnit * RateGrain) = Exchanged(c.amt, HeaderOf(c).fx, RateUnit)
        BY <3>1, <3>2, ExactRate
      <4>2. c.amt * RateUnit \in Nat BY <3>1, BooksAssumption
      <4>3. Exchanged(c.amt, HeaderOf(c).fx, RateUnit) \in Nat
        BY <3>2, <4>2, QuotientNat DEF Exchanged
      <4> QED BY <4>1, <4>3
    <3> QED BY <3>2, <3>3
  <2> HIDE DEF c, left, gap
  <2>9. a = headers[h].src \/ c.op = "transfer" \/ RateKept(h) => left = 0
    BY <2>2, <2>3, <2>6, <2>8 DEF At
  <2>10. c.op = "cross" /\ headers[h].fx > 0 =>
           left = (IF a = headers[h].dst THEN RateGap(h) ELSE 0)
                    - (IF a = Settlement(AccountCurrency[headers[h].dst]) THEN RateGap(h) ELSE 0)
    BY <2>3, <2>6, <2>7, Zenon DEF At
  <2> QED
    BY <2>9, <2>10 DEF c, left
<1> QED
  BY <1>1, RowsInvariance, PTL

-----------------------------------------------------------------------------
(* The rows of an account                                                  *)

\* The rows that reversals have taken out of an account.
TakenBack(rows, a) == {e \in rows : e.acct = a /\ e.by # e.tx /\ e.amt < 0}

\* What a commit does to a balance and to what reversals took from it.
LEMMA CommitBalance ==
  ASSUME RowsInv, NEW r \in Requests, CommitPayment(r) \/ CommitReversal(r), NEW a
  PROVE  /\ Balance(entries, a) \in Int /\ Balance(staged[r], a) \in Int
         /\ Balance(entries', a) = Balance(entries, a) + Balance(staged[r], a)
         /\ Total(TakenBack(entries, a)) \in Int /\ Total(TakenBack(staged[r], a)) \in Int
         /\ Total(TakenBack(entries, a)) <= 0
         /\ Total(TakenBack(entries', a))
              = Total(TakenBack(entries, a)) + Total(TakenBack(staged[r], a))
<1>1. /\ IsFiniteSet(staged[r]) /\ staged[r] \in SUBSET Row /\ entries \in SUBSET Row
      /\ entries \cap staged[r] = {} /\ entries' = entries \cup staged[r]
      /\ IsFiniteSet(entries)
  BY FreshRows DEF RowsInv
<1> DEFINE S == staged[r]
<1> DEFINE D == TakenBack(entries, a)
<1> DEFINE T == TakenBack(S, a)
<1>2. /\ D \subseteq entries /\ T \subseteq S /\ TakenBack(entries \cup S, a) = D \cup T
      /\ \A e \in D : e.amt < 0
  BY DEF TakenBack
<1> HIDE DEF S
<1>3. /\ Total(RowsAt(entries \cup S, {a})) = Total(RowsAt(entries, {a})) + Total(RowsAt(S, {a}))
      /\ Total(RowsAt(entries, {a})) \in Int /\ Total(RowsAt(S, {a})) \in Int
  BY <1>1, RowsAtUnion DEF S
<1> HIDE DEF D, T
<1>4. IsFiniteSet(D) /\ IsFiniteSet(T) /\ D \in SUBSET Row /\ T \in SUBSET Row /\ D \cap T = {}
  BY <1>1, <1>2, FS_Subset DEF S
<1>5. Total(D) \in Int /\ Total(T) \in Int /\ Total(D \cup T) = Total(D) + Total(T)
  BY <1>4, TotalInt, TotalUnion
<1>6. Total(D) <= 0
  <2>1. \A e \in D : e.amt <= 0
    BY <1>2, <1>4 DEF Row
  <2> QED
    BY <1>4, <2>1, TotalDebits
<1>7. /\ Balance(entries, a) \in Int /\ Balance(S, a) \in Int
      /\ Balance(entries \cup S, a) = Balance(entries, a) + Balance(S, a)
  BY <1>3, BalanceAt
<1>8. Total(TakenBack(entries \cup S, a)) = Total(D) + Total(T)
  BY <1>2, <1>5
<1> QED
  BY <1>1, <1>5, <1>6, <1>7, <1>8 DEF D, T, S

\* A payment takes money from its source only, and never more than its amount;
\* settlement accounts apart, every other account can only gain.
LEMMA PaymentTakes ==
  ASSUME NEW r \in Requests, NEW c \in Calls, c.op # "reverse", WellFormed(c), Authorised(c),
         NEW a \in Accounts, AccountType[a] # "SETTLEMENT"
  PROVE  /\ Balance(PaymentRows(r, c), a) \in Int
         /\ Balance(PaymentRows(r, c), a) >= IF c.op # "fund" /\ a = c.src THEN -c.amt ELSE 0
<1> DEFINE n == Exchanged(c.amt, c.rate, RateUnit * RateGrain)
<1> DEFINE b == Total(RowsAt(PaymentRows(r, c), {a}))
<1>1. c.op \in {"transfer", "cross", "fund"} /\ c.amt \in Nat
  BY CallFields, HeaderFields
<1>2. CASE c.op = "transfer"
  <2>1. b = At(c.src, {a}, -c.amt) + At(c.dst, {a}, c.amt)
    BY <1>2, PaymentSum
  <2> HIDE DEF b
  <2>2. b \in Int /\ b >= IF a = c.src THEN -c.amt ELSE 0
    BY <1>1, <2>1 DEF At
  <2> QED
    BY <1>2, <2>2, BalanceAt DEF b
<1>3. CASE c.op = "fund"
  <2>1. b = At(c.src, {a}, c.amt)
    BY <1>3, PaymentSum
  <2> HIDE DEF b
  <2>2. b \in Int /\ b >= 0
    BY <1>1, <2>1 DEF At
  <2> QED
    BY <1>3, <2>2, BalanceAt DEF b
<1>4. CASE c.op = "cross"
  <2>1. /\ n \in Nat
        /\ b = At(c.src, {a}, -c.amt) + At(Settlement(c.from), {a}, c.amt)
                 + At(Settlement(c.to), {a}, -n) + At(c.dst, {a}, n)
    BY <1>4, PaymentSum
  <2>2. Settlement(c.from) # a /\ Settlement(c.to) # a
    BY <1>4, SettlementCurrency DEF Authorised
  <2> HIDE DEF b, n
  <2>3. b \in Int /\ b >= IF a = c.src THEN -c.amt ELSE 0
    BY <1>1, <2>1, <2>2 DEF At
  <2> QED
    BY <1>4, <2>3, BalanceAt DEF b
<1> QED
  BY <1>1, <1>2, <1>3, <1>4

\* No step overdraws an account further than reversals have.
LEMMA OverdraftStep ==
  ASSUME RowsInv, OverdraftOnlyByReversal, NEW r \in Requests, Act(r)
  PROVE  OverdraftOnlyByReversal'
<1> SUFFICES ASSUME NEW a \in Accounts, AccountType[a] # "SETTLEMENT"
             PROVE  Balance(entries', a) >= Total(TakenBack(entries', a))
  BY DEF OverdraftOnlyByReversal, ReversalDebits, TakenBack
<1>1. Balance(entries, a) >= Total(TakenBack(entries, a))
  BY DEF OverdraftOnlyByReversal, ReversalDebits, TakenBack
<1>2. CASE entries' = entries
  BY <1>1, <1>2
<1>3. CASE CommitPayment(r)
  <2> DEFINE c == call[r]
  <2>1. staged[r] = PaymentRows(r, c)
    BY <1>3 DEF CommitPayment, RowsInv, TraceInv, LedgerInv, Staged
  <2>2. c \in Calls /\ c.op # "reverse" /\ WellFormed(c) /\ Authorised(c)
    BY <1>3, CallKind DEF CommitPayment, RowsInv, TraceInv, LedgerInv, Checked, Inserted
  <2>3. TakenBack(staged[r], a) = {}
    <3>1. \A e \in staged[r] : e.by = e.tx
      BY <1>3, StagedRows DEF CommitPayment, RowsInv, TraceInv
    <3> QED
      BY <3>1 DEF TakenBack
  <2>4. Total(TakenBack(staged[r], a)) = 0
    BY <2>3, TotalEmpty
  <2>5. c.op # "fund" /\ a = c.src => Balance(entries, a) >= c.amt
    BY <1>3, <2>2, CallFields DEF CommitPayment, RowsInv, TraceInv, LedgerInv, CheckedFundsStay, Spending
  <2>6. c.amt \in Int
    BY <2>2, CallFields
  <2>7. /\ Balance(staged[r], a) \in Int
        /\ Balance(staged[r], a) >= IF c.op # "fund" /\ a = c.src THEN -c.amt ELSE 0
    <3> HIDE DEF c
    <3> QED
      BY <2>1, <2>2, PaymentTakes
  <2> HIDE DEF c
  <2> QED
    BY <1>1, <1>3, <2>4, <2>5, <2>6, <2>7, CommitBalance
<1>4. CASE CommitReversal(r)
  <2> DEFINE S == RowsAt(staged[r], {a})
  <2>1. IsFiniteSet(staged[r]) /\ staged[r] \subseteq Row
    BY <1>4, FreshRows
  <2>2. S \in SUBSET Row /\ S \subseteq staged[r]
    BY <2>1 DEF RowsAt
  <2>3. TakenBack(staged[r], a) = {e \in S : e.amt < 0}
    <3>1. \A e \in staged[r] : e.by # e.tx
      <4>1. pc[r] = "commit" /\ call[r].op = "reverse" /\ call[r].target # r
        BY <1>4, OriginalHeader DEF CommitReversal, RowsInv, TraceInv
      <4>2. \A e \in staged[r] : e.by = r /\ e.tx = call[r].target
        BY <4>1, StagedRows DEF RowsInv, TraceInv
      <4> QED
        BY <4>1, <4>2
    <3> QED
      BY <3>1 DEF TakenBack, RowsAt
  <2> HIDE DEF S
  <2>4. IsFiniteSet(S)
    BY <2>1, <2>2, FS_Subset
  <2>5. Total({e \in S : e.amt < 0}) <= Total(S)
    BY <2>2, <2>4, DebitsBelowTotal
  <2>6. Total(TakenBack(staged[r], a)) <= Balance(staged[r], a)
    BY <2>3, <2>5, BalanceAt DEF S
  <2> QED
    BY <1>1, <1>4, <2>6, CommitBalance
<1> QED
  BY <1>2, <1>3, <1>4, RowsStep DEF RowsInv, TraceInv

\* A trader's account is overdrawn by reversals only, and never by more than
\* they took from it: payments never overdraw, however their look-ups, checks
\* and commits interleave (transfer.go 80-106, the locks before the check).
THEOREM NeverOverdrawnByPayments == Spec => []OverdraftOnlyByReversal
<1>1. Init => OverdraftOnlyByReversal
  <2> SUFFICES ASSUME entries = {}, NEW a \in Accounts
               PROVE  Balance(entries, a) >= ReversalDebits(a)
    BY DEF Init, OverdraftOnlyByReversal
  <2>1. {e \in entries : e.acct = a} = {} /\ {e \in entries : e.acct = a /\ e.by # e.tx /\ e.amt < 0} = {}
    OBVIOUS
  <2> QED
    BY <2>1, TotalEmpty DEF Balance, ReversalDebits
<1>2. ASSUME RowsInv, OverdraftOnlyByReversal, UNCHANGED vars
      PROVE  OverdraftOnlyByReversal'
  BY <1>2 DEF vars, tables, OverdraftOnlyByReversal, ReversalDebits
<1>3. RowsInv /\ OverdraftOnlyByReversal /\ [Next]_vars => OverdraftOnlyByReversal'
  BY <1>2, OverdraftStep DEF Next, AllServed
<1> QED
  BY <1>1, <1>3, RowsInvariance, PTL DEF Spec

-----------------------------------------------------------------------------
(* The stage of a call                                                     *)

\* A step moves the acting request from stage to stage and nobody else.
LEMMA EnterStage ==
  ASSUME TypeOK, NEW r \in Requests, Act(r)
  PROVE  Service!Enter(r, Stage(r)')
<1>1. \A q \in Requests : q # r => Stage(q)' = Stage(q)
  BY Frame DEF Stage
<1> QED
  BY <1>1 DEF Service!Enter

\* What a caller sees of a step that returns.
LEMMA ReturnStage ==
  ASSUME TypeOK, NEW r \in Requests, NEW code, ReturnSame(r, code)
  PROVE  /\ Stage(r)' = "done"
         /\ reply' = [reply EXCEPT ![r] = code]
         /\ UNCHANGED <<headers, entries, call, got>>
BY DEF TypeOK, ReturnSame, Return, Goto, Stage, tables

\* A statement between the look-up and the effect is invisible.
LEMMA Invisible ==
  ASSUME TypeOK, NEW r \in Requests, Act(r), Stage(r)' = Stage(r),
         UNCHANGED <<headers, entries, session>>
  PROVE  UNCHANGED Service!serviceVars
<1>1. [q \in Requests |-> Stage(q)]' = [q \in Requests |-> Stage(q)]
  BY Frame DEF Stage
<1> QED
  BY <1>1 DEF Service!serviceVars, session

-----------------------------------------------------------------------------
(* Calls that are turned down, and calls that fail                         *)

LEMMA TurnedDown ==
  ASSUME LedgerInv, NEW r \in Requests, Act(r), Stage(r) = "missed",
         NEW code \in {"refused", "insufficient", "railError"},
         ReturnSame(r, code), Service!Refusal(r, code)
  PROVE  Service!Refuse(r)
<1>1. Service!Finish(r, code)
  BY EnterStage, ReturnStage DEF LedgerInv, Service!Finish
<1>2. UNCHANGED <<headers, entries, call, got>>
  BY ReturnStage DEF LedgerInv
<1> QED
  BY <1>1, <1>2 DEF Service!Refuse

LEMMA Failed ==
  ASSUME LedgerInv, NEW r \in Requests, Act(r), pc[r] \notin {"idle", "done"}, ReturnSame(r, "failed")
  PROVE  Service!Fail(r)
<1>1. Service!Finish(r, "failed")
  BY EnterStage, ReturnStage DEF LedgerInv, Service!Finish
<1>2. UNCHANGED <<headers, entries, call, got>>
  BY ReturnStage DEF LedgerInv
<1>3. Stage(r) \notin {"idle", "done"}
  BY DEF Stage
<1> QED
  BY <1>1, <1>2, <1>3 DEF Service!Fail

-----------------------------------------------------------------------------
(* Statements                                                              *)

\* A call arrives.
LEMMA ReceiveServes ==
  ASSUME LedgerInv, NEW r \in Requests, Act(r), Receive(r)
  PROVE  \E c \in Calls : Service!Call(r, c)
<1>1. PICK c \in Calls : /\ call' = [call EXCEPT ![r] = c]
                         /\ IF WellFormed(c)
                            THEN Goto(r, FirstStep(c)) /\ UNCHANGED <<tables, txs, got, reply, paid>>
                            ELSE Return(r, "refused")
  BY DEF Receive
<1>2. Stage(r) = "idle"
  BY DEF Receive, Stage
<1>3. CASE WellFormed(c)
  <2>1. pc'[r] = FirstStep(c)
    BY <1>1, <1>3 DEF Goto, LedgerInv, TypeOK
  <2>2. Stage(r)' = IF c.op \in {"transfer", "cross"} THEN "called" ELSE "missed"
    <3>1. c.op \in {"transfer", "cross", "fund", "reverse"}
      BY CallFields
    <3> QED
      BY <2>1, <3>1 DEF FirstStep, Stage
  <2> QED
    BY <1>1, <1>2, <1>3, <2>2, EnterStage DEF Service!Call, LedgerInv, tables
<1>4. CASE ~WellFormed(c)
  <2>1. Stage(r)' = "done"
    BY <1>1, <1>4 DEF Return, Goto, Stage, LedgerInv, TypeOK
  <2> QED
    BY <1>1, <1>2, <1>4, <2>1, EnterStage DEF Service!Call, Service!Finish, Return, LedgerInv, tables
<1> QED
  BY <1>3, <1>4

\* The look-up of a key shows a header that claims it, or finds it unused.
LEMMA LookupServes ==
  ASSUME LedgerInv, NEW r \in Requests, Act(r), Lookup(r)
  PROVE  Service!LookUp(r)
<1> DEFINE k == call[r].key
<1>1. Stage(r) = "called" /\ k \in Keys
  BY CallKind, CallFields DEF Lookup, Stage, LedgerInv, CallInv, PayPC
<1>2. Stage(r)' = IF claims[k] # None THEN "found" ELSE "missed"
  BY DEF Lookup, Goto, Stage, LedgerInv, TypeOK
<1>3. got' = [got EXCEPT ![r] = claims[k]] /\ UNCHANGED <<headers, entries, call, reply>>
  BY DEF Lookup, tables
<1>4. CASE claims[k] # None
  <2>1. claims[k] \in Service!Claimants(k)
    BY <1>1, <1>4 DEF LedgerInv, ClaimsMatchHeaders, TypeOK, Service!Claimants, Service!Holds
  <2> QED
    BY <1>1, <1>2, <1>3, <1>4, <2>1, EnterStage DEF Service!LookUp, LedgerInv
<1>5. CASE claims[k] = None
  <2>1. Service!Claimants(k) = {}
    BY <1>5, BooksAssumption DEF LedgerInv, ClaimsMatchHeaders, Service!Claimants, Service!Holds
  <2> QED
    BY <1>1, <1>2, <1>3, <1>5, <2>1, EnterStage DEF Service!LookUp, LedgerInv
<1> QED
  BY <1>4, <1>5

\* A row lock that is granted is invisible.
LEMMA Granted ==
  ASSUME LedgerInv, NEW r \in Requests, Act(r), NEW p, LockAndGoto(r, p),
         Stage(r) = "missed", p \notin {"idle", "done", "lookup", "fetch"}
  PROVE  UNCHANGED Service!serviceVars
<1>1. Stage(r)' = "missed" /\ UNCHANGED <<headers, entries, session>>
  BY DEF LockAndGoto, Goto, Stage, tables, session, LedgerInv, TypeOK
<1> QED
  BY <1>1, Invisible DEF LedgerInv

\* A payment that is not authorised is refused where its accounts are locked.
LEMMA LockServes ==
  ASSUME LedgerInv, NEW r \in Requests, Act(r),
         LockSource(r) \/ LockDestination(r) \/ LockSettlement(r)
  PROVE  Service!Refuse(r) \/ UNCHANGED Service!serviceVars
<1>1. Stage(r) = "missed" /\ call[r].op # "reverse"
  BY CallKind, CallFields
  DEF LockSource, LockDestination, LockSettlement, LedgerInv, CallInv, PayPC, Stage
<1>2. call[r] \in Calls
  BY CallKind DEF LockSource, LockDestination, LockSettlement, LedgerInv
<1>3. ASSUME ~Authorised(call[r]), ReturnSame(r, "refused") PROVE Service!Refuse(r)
  <2>1. Service!Refusal(r, "refused")
    BY <1>1, <1>3 DEF Service!Refusal
  <2> QED
    BY <1>1, <1>3, <2>1, TurnedDown
<1>4. CASE LockSource(r)
  <2>1. ~SourceAccepted(call[r]) => ~Authorised(call[r])
    BY DEF SourceAccepted, Authorised
  <2> QED
    BY <1>1, <1>3, <1>4, <2>1, Granted DEF LockSource
<1>5. CASE LockDestination(r)
  BY <1>1, <1>3, <1>5, Granted DEF LockDestination, Authorised
<1>6. CASE LockSettlement(r)
  <2>1. call[r].op = "cross" /\ Wants(r) \in {Settlement(call[r].from), Settlement(call[r].to)}
    BY <1>6 DEF LockSettlement, Wants, LedgerInv, CallInv
  <2>2. Wants(r) = None => ~Authorised(call[r])
    <3>1. \A cur : Settlement(cur) = None => SettlementAccounts(cur) = {}
      BY SettlementAccount, BooksAssumption
    <3> QED
      BY <2>1, <3>1 DEF Authorised
  <2> QED
    BY <1>1, <1>3, <1>6, <2>2, Granted DEF LockSettlement
<1> QED
  BY <1>4, <1>5, <1>6

\* A payment is turned down where its balance is checked, and at the rail.
LEMMA CheckServes ==
  ASSUME LedgerInv, NEW r \in Requests, Act(r), CheckBalance(r)
  PROVE  Service!Refuse(r) \/ UNCHANGED Service!serviceVars
<1>1. Stage(r) = "missed" /\ call[r].op # "reverse"
  BY CallKind, CallFields DEF CheckBalance, LedgerInv, CallInv, PayPC, Stage
<1>2. CASE Covered(entries, call[r])
  <2>1. Stage(r)' = "missed" /\ UNCHANGED <<headers, entries, session>>
    BY <1>2 DEF CheckBalance, Goto, Stage, tables, session, LedgerInv, TypeOK
  <2> QED
    BY <1>1, <2>1, Invisible DEF LedgerInv
<1>3. CASE ~Covered(entries, call[r])
  <2>1. Service!Refusal(r, "insufficient")
    BY <1>1, <1>3 DEF Service!Refusal
  <2>2. ReturnSame(r, "insufficient")
    BY <1>3 DEF CheckBalance
  <2> QED
    BY <1>1, <2>1, <2>2, TurnedDown
<1> QED
  BY <1>2, <1>3

LEMMA RailServes ==
  ASSUME LedgerInv, NEW r \in Requests, Act(r), RailRefuses(r)
  PROVE  Service!Refuse(r)
<1>1. Stage(r) = "missed" /\ call[r].op \in {"transfer", "cross"} /\ ReturnSame(r, "railError")
  BY DEF RailRefuses, LedgerInv, CallInv, PayPC, Stage
<1>2. Authorised(call[r])
  BY DEF RailRefuses, LedgerInv, Checked, Inserted
<1>3. Covered(entries, call[r])
  BY <1>1 DEF RailRefuses, LedgerInv, CheckedFundsStay, Spending, Covered
<1>4. Service!Refusal(r, "railError")
  BY <1>1, <1>2, <1>3 DEF Service!Refusal
<1> QED
  BY <1>1, <1>4, TurnedDown

\* A reversal is refused where its header is locked.
LEMMA LockHeaderServes ==
  ASSUME LedgerInv, NEW r \in Requests, Act(r), LockHeader(r)
  PROVE  Service!Refuse(r) \/ UNCHANGED Service!serviceVars
<1>1. Stage(r) = "missed" /\ call[r].op = "reverse"
  BY DEF LockHeader, LedgerInv, CallInv, Stage
<1>2. CASE Reversible(Original(r))
  BY <1>1, <1>2, Granted DEF LockHeader
<1>3. CASE ~Reversible(Original(r))
  <2>1. Service!Refusal(r, "refused")
    BY <1>1, <1>3 DEF Service!Refusal, Reversible, Original
  <2>2. ReturnSame(r, "refused")
    BY <1>3 DEF LockHeader
  <2> QED
    BY <1>1, <2>1, <2>2, TurnedDown
<1> QED
  BY <1>2, <1>3

\* Inserting uncommitted rows, and calling the rail, are invisible.
LEMMA InsertServes ==
  ASSUME LedgerInv, NEW r \in Requests, Act(r),
         InsertHeader(r) \/ Claim(r) \/ RailPays(r) \/ PostEntries(r) \/ LockContra(r) \/ PostContra(r)
  PROVE  UNCHANGED Service!serviceVars
<1> USE DEF LedgerInv, TypeOK, Goto, Stage, tables, session, txs, LockAndGoto
<1>1. UNCHANGED <<headers, entries, session>>
  BY DEF InsertHeader, Claim, RailPays, PostEntries, LockContra, PostContra
<1>2. Stage(r) = "missed"
  BY DEF InsertHeader, Claim, RailPays, PostEntries, LockContra, PostContra, SharePC
<1>3. Stage(r)' = "missed"
  BY DEF InsertHeader, Claim, RailPays, PostEntries, LockContra, PostContra
<1> QED
  BY <1>1, <1>2, <1>3, Invisible

\* A commit is the instant at which a call takes effect.
LEMMA CommitServes ==
  ASSUME LedgerInv, NEW r \in Requests, Act(r), CommitPayment(r) \/ CommitReversal(r)
  PROVE  Service!TakeEffect(r)
<1>1. Stage(r) = "missed" /\ Stage(r)' = "found" /\ UNCHANGED <<call, reply>>
  BY DEF CommitPayment, CommitReversal, Goto, Stage, LedgerInv, TypeOK
<1>2. Service!Enter(r, "found")
  BY <1>1, EnterStage DEF LedgerInv
<1>3. CASE CommitPayment(r)
  <2>1. Service!Pay(r, call[r])
    BY <1>3, PaymentIsAtomic
    DEF Atomic!Pay, Service!Pay, Atomic!KeyUnused, Service!KeyUnused
  <2> QED
    BY <1>1, <1>2, <1>3, <2>1 DEF Service!TakeEffect, CommitPayment
<1>4. CASE CommitReversal(r)
  <2>1. Service!Reverse(r, call[r].target)
    BY <1>4, ReversalIsAtomic DEF Atomic!Reverse, Service!Reverse
  <2> QED
    BY <1>1, <1>2, <1>4, <2>1 DEF Service!TakeEffect, CommitReversal
<1> QED
  BY <1>3, <1>4

\* The loser of the race for a key shows the winner's header.
LEMMA ReplayServes ==
  ASSUME LedgerInv, NEW r \in Requests, Act(r), Replay(r)
  PROVE  Service!LoseRace(r) \/ Service!Fail(r)
<1>1. CASE KeyTaken(call[r].key)
  <2>1. PICK h \in Requests : /\ headers[h] # None /\ headers[h].key = call[r].key
                              /\ got' = [got EXCEPT ![r] = h]
    BY <1>1 DEF Replay
  <2>2. Stage(r) = "missed" /\ call[r].op # "reverse"
    BY DEF Replay, LedgerInv, CallInv, Stage
  <2>3. /\ Stage(r)' = "done" /\ reply' = [reply EXCEPT ![r] = "ok"]
        /\ UNCHANGED <<headers, entries, call>>
    BY <1>1 DEF Replay, Goto, Stage, tables, LedgerInv, TypeOK
  <2>4. Service!Finish(r, "ok")
    BY <2>3, EnterStage DEF LedgerInv, Service!Finish
  <2> QED
    BY <2>1, <2>2, <2>3, <2>4 DEF Service!LoseRace, Service!Holds
<1>2. CASE ~KeyTaken(call[r].key)
  BY <1>2, Failed DEF Replay
<1> QED
  BY <1>1, <1>2

\* The header that a reply shows is fetched.
LEMMA FetchServes ==
  ASSUME LedgerInv, NEW r \in Requests, Act(r), Fetch(r)
  PROVE  Service!Answer(r) \/ Service!Fail(r)
<1>1. CASE ReturnSame(r, "ok")
  <2>1. Service!Finish(r, "ok")
    BY <1>1, EnterStage, ReturnStage DEF LedgerInv, Service!Finish
  <2>2. UNCHANGED <<headers, entries, call, got>>
    BY <1>1, ReturnStage DEF LedgerInv
  <2> QED
    BY <2>1, <2>2 DEF Service!Answer, Fetch, Stage
<1>2. CASE ReturnSame(r, "failed")
  BY <1>2, Failed DEF Fetch
<1> QED
  BY <1>1, <1>2 DEF Fetch

-----------------------------------------------------------------------------
(* The theorem                                                             *)

\* Every statement is a step of the service, or invisible.
LEMMA ServiceStep ==
  ASSUME LedgerInv, NEW r \in Requests, Act(r)
  PROVE  [Service!ServiceNext]_(Service!serviceVars)
<1>1. CASE Receive(r)
  BY <1>1, ReceiveServes DEF Service!ServiceNext
<1>2. CASE Lookup(r) \/ CommitPayment(r) \/ CommitReversal(r)
  BY <1>2, LookupServes, CommitServes DEF Service!ServiceNext, Service!Serve
<1>3. CASE LockSource(r) \/ LockDestination(r) \/ LockSettlement(r) \/ LockHeader(r)
  BY <1>3, LockServes, LockHeaderServes DEF Service!ServiceNext, Service!Serve
<1>4. CASE CheckBalance(r) \/ RailRefuses(r)
  BY <1>4, CheckServes, RailServes DEF Service!ServiceNext, Service!Serve
<1>5. CASE \/ InsertHeader(r) \/ Claim(r) \/ RailPays(r) \/ PostEntries(r)
           \/ LockContra(r) \/ PostContra(r)
  BY <1>5, InsertServes
<1>6. CASE Replay(r) \/ Fetch(r)
  BY <1>6, ReplayServes, FetchServes DEF Service!ServiceNext, Service!Serve
<1>7. CASE DeadlockAbort(r)
  <2>1. pc[r] \notin {"idle", "done"}
    BY <1>7, WaitPC DEF DeadlockAbort, UpdatePC, SharePC
  <2> QED
    BY <1>7, <2>1, Failed DEF DeadlockAbort, Service!ServiceNext, Service!Serve
<1>8. CASE Fail(r)
  BY <1>8, Failed DEF Fail, Service!ServiceNext, Service!Serve
<1> QED
  BY <1>1, <1>2, <1>3, <1>4, <1>5, <1>6, <1>7, <1>8 DEF Act, Step

\* The engine implements the service its callers rely on: what the gateway and
\* the payment screen assume of it holds, however its statements interleave.
THEOREM ServiceRefined == Spec => ImplementsService
<1>1. Init => Service!ServiceInit
  BY DEF Init, Service!ServiceInit, Service!Init, Stage
<1>2. ASSUME LedgerInv, [Next]_vars PROVE [Service!ServiceNext]_(Service!serviceVars)
  <2>1. CASE UNCHANGED vars
    BY <2>1 DEF vars, tables, session, Service!serviceVars, Stage
  <2> QED
    BY <1>2, <2>1, ServiceStep DEF Next, AllServed
<1> QED
  BY <1>1, <1>2, Invariance, PTL DEF Spec, Service!ServiceSpec, ImplementsService
==============================================================================
