-------------------------------- MODULE Ledger --------------------------------
(***************************************************************************)
(* The ledger engine on PostgreSQL.  Every request runs one database       *)
(* transaction; one action here is one SQL statement (or the call of the   *)
(* payment rail), so that the statements of concurrent requests interleave *)
(* as they do in the database.                                             *)
(*                                                                         *)
(* PostgreSQL is modelled by what this code uses of it: SELECT FOR UPDATE  *)
(* excludes every other lock of the row, the foreign keys of an INSERT     *)
(* take a shared (KEY SHARE) lock of the rows they reference, an INSERT    *)
(* waits for an uncommitted row with the same unique key, a transaction's  *)
(* writes appear when it commits, locks last until it ends, and a cycle of *)
(* waiting transactions is broken by aborting one of them.                 *)
(***************************************************************************)
EXTENDS Books

VARIABLES
  \* the tables, as committed
  headers,   \* transactions: request |-> the header it inserted, or None
  claims,    \* idempotency_keys: key |-> header, or None
  entries,   \* ledger_entries
  \* the database transactions in progress
  locked,    \* request |-> rows (accounts, headers) it has locked FOR UPDATE
  shared,    \* request |-> accounts it has locked FOR KEY SHARE
  staged,    \* request |-> the ledger rows it has inserted but not committed
  \* the engine
  pc,        \* request |-> the statement it executes next
  call,      \* request |-> what its client asked for
  got,       \* request |-> the header its reply will show, or None
  reply,     \* request |-> what its client was told
  \* the world
  paid       \* the requests whose payout the rail has carried out

tables  == <<headers, claims, entries>>
txs     == <<locked, shared, staged>>
session == <<call, got, reply>>
vars    == <<tables, txs, pc, session, paid>>

-----------------------------------------------------------------------------
(* Locks                                                                   *)

UpdatePC == {"lockSrc", "lockDst", "lockFrom", "lockTo",
             "lockHeader", "contraFrom", "contraDst", "contraTo"}
SharePC  == {"contraDebit", "contraCredit"}

\* The statements of the database transaction, in which r may hold locks.
InTx == UpdatePC \cup SharePC \cup {"check", "insert", "claim", "rail", "post", "commit"}

PC == InTx \cup {"idle", "lookup", "replay", "fetch", "done"}

\* The header that a reversal reverses.
Original(r) == headers[call[r].target]

\* The row that the next statement of r locks.
Wants(r) ==
  CASE pc[r] = "lockSrc"      -> call[r].src
    [] pc[r] = "lockDst"      -> call[r].dst
    [] pc[r] = "lockFrom"     -> Settlement(call[r].from)
    [] pc[r] = "lockTo"       -> Settlement(call[r].to)
    [] pc[r] = "lockHeader"   -> call[r].target
    [] pc[r] = "contraFrom"   -> Settlement(AccountCurrency[Original(r).src])
    [] pc[r] = "contraTo"     -> Settlement(AccountCurrency[Original(r).dst])
    [] pc[r] = "contraDebit"  -> Original(r).src
    [] pc[r] \in {"contraDst", "contraCredit"} -> Original(r).dst

\* s has inserted a header that it has not committed.
Inserted(s) == pc[s] \in {"claim", "rail", "post"} \/ (pc[s] = "commit" /\ call[s].op # "reverse")

\* The requests whose transactions must end before r's next statement can run.
Blockers(r) ==
  CASE pc[r] \in UpdatePC -> {s \in Requests \ {r} : Wants(r) \in locked[s] \cup shared[s]}
    [] pc[r] \in SharePC  -> {s \in Requests \ {r} : Wants(r) \in locked[s]}
    [] pc[r] = "insert"   -> {s \in Requests \ {r} : Inserted(s) /\ call[s].key = call[r].key}
    [] OTHER              -> {}

Goto(r, p) == pc' = [pc EXCEPT ![r] = p]

\* Mutant: SELECT without FOR UPDATE.
ReadAndGoto(r, p) == Goto(r, p) /\ UNCHANGED <<tables, txs, session, paid>>

\* r executes SELECT ... FOR UPDATE and continues at p.
LockAndGoto(r, p) ==
  /\ locked' = [locked EXCEPT ![r] = @ \cup {Wants(r)}]
  /\ Goto(r, p)
  /\ UNCHANGED <<tables, shared, staged, session, paid>>

\* Mutant: a transaction that is never rolled back keeps its locks.
ReleaseNothing(r) == UNCHANGED <<locked, shared>> /\ staged' = [staged EXCEPT ![r] = {}]

\* The transaction of r ends: its locks go, and what it staged is gone or committed.
Release(r) ==
  /\ locked' = [locked EXCEPT ![r] = {}]
  /\ shared' = [shared EXCEPT ![r] = {}]
  /\ staged' = [staged EXCEPT ![r] = {}]

\* r returns to its caller; the deferred Rollback undoes whatever is not committed.
Return(r, code) ==
  /\ Goto(r, "done")
  /\ reply' = [reply EXCEPT ![r] = code]
  /\ Release(r)
  /\ UNCHANGED <<tables, got, paid>>

ReturnSame(r, code) == Return(r, code) /\ UNCHANGED call

-----------------------------------------------------------------------------
(* Transfer, CrossBorderTransfer and FundAccount                           *)

FirstStep(c) ==
  CASE c.op \in {"transfer", "cross"} -> "lookup"
    [] c.op = "fund"                  -> "lockSrc"
    [] c.op = "reverse"               -> "lockHeader"

\* A client's call arrives and is validated.
Receive(r) ==
  /\ pc[r] = "idle"
  /\ \E c \in Calls :
       /\ call' = [call EXCEPT ![r] = c]
       /\ IF WellFormed(c)
          THEN Goto(r, FirstStep(c)) /\ UNCHANGED <<tables, txs, got, reply, paid>>
          ELSE Return(r, "refused")

\* The pre-check outside the transaction: a known key is replayed at once.
Lookup(r) ==
  /\ pc[r] = "lookup"
  /\ got' = [got EXCEPT ![r] = claims[call[r].key]]
  /\ Goto(r, IF claims[call[r].key] # None THEN "fetch" ELSE "lockSrc")
  /\ UNCHANGED <<tables, txs, call, reply, paid>>

\* Mutant: any account may pay, not just BUSINESS ones.
AnySourceAccepted(c) == c.op = "fund" => AccountCurrency[c.src] = c.from

SourceAccepted(c) ==
  IF c.op = "fund" THEN AccountCurrency[c.src] = c.from ELSE AccountType[c.src] = "BUSINESS"

LockSource(r) ==
  /\ pc[r] = "lockSrc" /\ Blockers(r) = {}
  /\ IF SourceAccepted(call[r])
     THEN LockAndGoto(r, IF call[r].op = "fund" THEN "insert" ELSE "lockDst")
     ELSE ReturnSame(r, "refused")

LockDestination(r) ==
  /\ pc[r] = "lockDst" /\ Blockers(r) = {}
  /\ IF /\ AccountCurrency[call[r].src] = call[r].from
        /\ AccountCurrency[call[r].dst] = call[r].to
     THEN LockAndGoto(r, "check")
     ELSE ReturnSame(r, "refused")

\* SUM of the source's committed rows, compared with the amount.
CheckBalance(r) ==
  /\ pc[r] = "check"
  /\ IF Covered(entries, call[r])
     THEN /\ Goto(r, IF call[r].op = "cross" THEN "lockFrom" ELSE "insert")
          /\ UNCHANGED <<tables, txs, session, paid>>
     ELSE ReturnSame(r, "insufficient")

LockSettlement(r) ==
  /\ pc[r] \in {"lockFrom", "lockTo"} /\ Blockers(r) = {}
  /\ IF Wants(r) # None
     THEN LockAndGoto(r, IF pc[r] = "lockFrom" THEN "lockTo" ELSE "insert")
     ELSE ReturnSame(r, "refused")

\* Mutant: only idempotency_keys guards a key.
KeyClaimed(k) == claims[k] # None

KeyTaken(k) == \E h \in Requests : headers[h] # None /\ headers[h].key = k

\* A unique violation of transactions.idempotency_key: roll back, then replay.
InsertHeader(r) ==
  /\ pc[r] = "insert" /\ Blockers(r) = {}
  /\ IF KeyTaken(call[r].key)
     THEN Goto(r, "replay") /\ Release(r)
     ELSE Goto(r, IF call[r].op = "fund" THEN "post" ELSE "claim") /\ UNCHANGED txs
  /\ UNCHANGED <<tables, session, paid>>

Claim(r) ==
  /\ pc[r] = "claim"
  /\ IF claims[call[r].key] # None
     THEN Goto(r, "replay") /\ Release(r)
     ELSE Goto(r, "rail") /\ UNCHANGED txs
  /\ UNCHANGED <<tables, session, paid>>

RailPays(r) ==
  /\ pc[r] = "rail"
  /\ paid' = paid \cup {r}
  /\ Goto(r, "post")
  /\ UNCHANGED <<tables, txs, session>>

\* Mutant: the rail's error is not looked at.
RailIgnored(r) == pc[r] = "rail" /\ Goto(r, "post") /\ UNCHANGED <<tables, txs, session, paid>>

\* The rail rejects the payout or does not answer in time.
RailRefuses(r) == pc[r] = "rail" /\ ReturnSame(r, "railError")

\* Mutant: the debit is not written.
PostCredits(r) ==
  /\ pc[r] = "post"
  /\ staged' = [staged EXCEPT ![r] = {e \in PaymentRows(r, call[r]) : e.leg # "debit"}]
  /\ Goto(r, "commit")
  /\ UNCHANGED <<tables, locked, shared, session, paid>>

\* The ledger rows are inserted and the header is marked SUCCESS.
PostEntries(r) ==
  /\ pc[r] = "post"
  /\ staged' = [staged EXCEPT ![r] = PaymentRows(r, call[r])]
  /\ Goto(r, "commit")
  /\ UNCHANGED <<tables, locked, shared, session, paid>>

CommitPayment(r) ==
  /\ pc[r] = "commit" /\ call[r].op # "reverse"
  /\ headers' = [headers EXCEPT ![r] = HeaderOf(call[r])]
  /\ claims' = IF call[r].op = "fund" THEN claims ELSE [claims EXCEPT ![call[r].key] = r]
  /\ entries' = entries \cup staged[r]
  /\ got' = [got EXCEPT ![r] = r]
  /\ Release(r)
  /\ Goto(r, "fetch")
  /\ UNCHANGED <<call, reply, paid>>

\* Mutant: the loser shows the header it has rolled back.
ReplayOwn(r) ==
  /\ pc[r] = "replay"
  /\ got' = [got EXCEPT ![r] = r] /\ reply' = [reply EXCEPT ![r] = "ok"]
  /\ Goto(r, "done")
  /\ UNCHANGED <<tables, txs, call, paid>>

\* GetTransferByIdempotencyKey, after losing the race for the key.
Replay(r) ==
  /\ pc[r] = "replay"
  /\ IF KeyTaken(call[r].key)
     THEN /\ \E h \in Requests :
               /\ headers[h] # None /\ headers[h].key = call[r].key
               /\ got' = [got EXCEPT ![r] = h]
          /\ Goto(r, "done")
          /\ reply' = [reply EXCEPT ![r] = "ok"]
          /\ UNCHANGED <<tables, txs, call, paid>>
     ELSE ReturnSame(r, "failed")

\* GetTransfer, after the commit or after a successful look-up of the key.
Fetch(r) ==
  /\ pc[r] = "fetch"
  /\ ReturnSame(r, IF headers[got[r]] # None THEN "ok" ELSE "failed")

-----------------------------------------------------------------------------
(* ReverseTransfer                                                         *)

\* Mutant: a transfer can be reversed whatever its status.
Recorded(hd) == hd # None

Reversible(hd) == hd # None /\ hd.status = "SUCCESS"

LockHeader(r) ==
  /\ pc[r] = "lockHeader" /\ Blockers(r) = {}
  /\ IF Reversible(Original(r))
     THEN LockAndGoto(r, IF Original(r).fx > 0 THEN "contraFrom" ELSE "contraDebit")
     ELSE ReturnSame(r, "refused")

\* Across borders, the settlement accounts and the destination are locked first.
LockContra(r) ==
  /\ pc[r] \in {"contraFrom", "contraDst", "contraTo"} /\ Blockers(r) = {}
  /\ LockAndGoto(r, CASE pc[r] = "contraFrom" -> "contraDst"
                      [] pc[r] = "contraDst"  -> "contraTo"
                      [] pc[r] = "contraTo"   -> "contraDebit")

\* Inserting a contra row locks its account FOR KEY SHARE.  The rows of an
\* account that is already locked FOR UPDATE go with the first one.
PostContra(r) ==
  /\ pc[r] \in SharePC /\ Blockers(r) = {}
  /\ shared' = [shared EXCEPT ![r] = @ \cup {Wants(r)}]
  /\ IF pc[r] = "contraDebit" /\ Original(r).fx = 0
     THEN Goto(r, "contraCredit") /\ UNCHANGED staged
     ELSE /\ staged' = [staged EXCEPT ![r] = ContraRows(r, call[r].target, Original(r))]
          /\ Goto(r, "commit")
  /\ UNCHANGED <<tables, locked, session, paid>>

\* Mutant: the status stays SUCCESS.
MarkNothing(h) == headers

\* markStatus(REVERSED)
MarkReversed(h) == [headers EXCEPT ![h].status = "REVERSED"]

CommitReversal(r) ==
  /\ pc[r] = "commit" /\ call[r].op = "reverse"
  /\ headers' = MarkReversed(call[r].target)
  /\ entries' = entries \cup staged[r]
  /\ got' = [got EXCEPT ![r] = call[r].target]
  /\ Release(r)
  /\ Goto(r, "fetch")
  /\ UNCHANGED <<claims, call, reply, paid>>

-----------------------------------------------------------------------------
(* Failures                                                                *)

\* The connection breaks, the caller gives up, the process dies: an open
\* transaction is rolled back, and the client learns nothing.  After the
\* commit this is the lost answer to a call that took effect.
Fail(r) == pc[r] \in PC \ {"idle", "done"} /\ ReturnSame(r, "failed")

\* A set of requests each of which waits for another one of the set.
Knot(D) == D # {} /\ \A q \in D : Blockers(q) \cap D # {}

\* A cycle of waiting transactions is a smallest knot.
OnCycle(r) ==
  \E D \in SUBSET Requests : r \in D /\ Knot(D) /\ \A E \in SUBSET D : Knot(E) => E = D

\* PostgreSQL's deadlock detector aborts a transaction of a cycle.
DeadlockAbort(r) == OnCycle(r) /\ ReturnSame(r, "failed")

-----------------------------------------------------------------------------

Init ==
  /\ headers = [r \in Requests |-> None]
  /\ claims = [k \in Keys |-> None]
  /\ entries = {}
  /\ locked = [r \in Requests |-> {}]
  /\ shared = [r \in Requests |-> {}]
  /\ staged = [r \in Requests |-> {}]
  /\ pc = [r \in Requests |-> "idle"]
  /\ call = [r \in Requests |-> None]
  /\ got = [r \in Requests |-> None]
  /\ reply = [r \in Requests |-> "none"]
  /\ paid = {}

\* What the engine, the database and the rail do for a request they have accepted.
Step(r) ==
  \/ Lookup(r) \/ LockSource(r) \/ LockDestination(r) \/ CheckBalance(r)
  \/ LockSettlement(r) \/ InsertHeader(r) \/ Claim(r) \/ RailPays(r) \/ RailRefuses(r)
  \/ PostEntries(r) \/ CommitPayment(r) \/ Replay(r) \/ Fetch(r)
  \/ LockHeader(r) \/ LockContra(r) \/ PostContra(r) \/ CommitReversal(r)
  \/ DeadlockAbort(r)

Act(r) == Receive(r) \/ Step(r) \/ Fail(r)

\* Every request has been answered; the engine waits for more.
AllServed == (\A r \in Requests : pc[r] = "done") /\ UNCHANGED vars

Next == (\E r \in Requests : Act(r)) \/ AllServed

Spec == Init /\ [][Next]_vars

\* Statements, the rail and the deadlock detector all answer in bounded time;
\* nothing makes a client call or a connection fail.
Fairness == \A r \in Requests : WF_vars(Step(r))

FairSpec == Spec /\ Fairness

-----------------------------------------------------------------------------
(* Properties                                                              *)

TypeOK ==
  /\ headers \in [Requests -> Header \cup {None}]
  /\ claims \in [Keys -> Requests \cup {None}]
  /\ entries \subseteq Row
  /\ locked \in [Requests -> SUBSET (Accounts \cup Requests)]
  /\ shared \in [Requests -> SUBSET Accounts]
  /\ staged \in [Requests -> SUBSET Row]
  /\ pc \in [Requests -> PC]
  /\ call \in [Requests -> Calls \cup {None}]
  /\ got \in [Requests -> Requests \cup {None}]
  /\ reply \in [Requests -> {"none", "ok", "refused", "insufficient", "railError", "failed"}]
  /\ paid \subseteq Requests

\* A key never pays twice: however requests with one key interleave, fail and
\* are retried, at most one header carries it (store.go: "a duplicate charge
\* is impossible even under concurrent retries").
OneTransferPerKey ==
  \A g, h \in Requests :
    headers[g] # None /\ headers[h] # None /\ headers[g].key = headers[h].key => g = h

\* The two guards of a key agree: a claim points at the header with its key,
\* every header but a funding is claimed, and so the second guard never fires.
ClaimsMatchHeaders ==
  /\ \A k \in Keys : claims[k] # None =>
       /\ headers[claims[k]] # None /\ headers[claims[k]].key = k
       /\ call[claims[k]].op # "fund"
  /\ \A h \in Requests :
       headers[h] # None /\ call[h].op # "fund" => claims[headers[h].key] = h
  /\ \A r \in Requests : pc[r] = "claim" => claims[call[r].key] = None

\* r has passed the balance check and may still take the money.
Spending(r) ==
  \/ pc[r] \in {"lockFrom", "lockTo", "insert", "claim", "rail", "post"} /\ call[r].op # "fund"
  \/ pc[r] = "commit" /\ call[r].op \in {"transfer", "cross"}

\* The balance that was checked still covers the amount whenever the payment
\* commits: no payment, funding or reversal comes between (transfer.go: "the
\* balance computed below is therefore stable for the lifetime of this tx").
CheckedFundsStay ==
  \A r \in Requests : Spending(r) => Balance(entries, call[r].src) >= call[r].amt

\* What reversals have taken out of an account.
ReversalDebits(a) == Total({e \in entries : e.acct = a /\ e.by # e.tx /\ e.amt < 0})

\* A trader's account is overdrawn by reversals only, and never by more than
\* they took: payments alone never overdraw, whatever their interleaving.
OverdraftOnlyByReversal ==
  \A a \in Accounts :
    AccountType[a] # "SETTLEMENT" => Balance(entries, a) >= ReversalDebits(a)

RowsOf(h) == {e \in entries : e.tx = h}

IsFunding(h) == headers[h] # None /\ call[h].op = "fund"

\* Double entry: what a transfer and its reversal have written sums to zero in
\* every currency; a funding sums to the money it brought in.
BooksBalance ==
  \A h \in Requests, cur \in Currencies :
    Total({e \in RowsOf(h) : AccountCurrency[e.acct] = cur})
      = IF IsFunding(h) /\ AccountCurrency[headers[h].src] = cur THEN headers[h].amt ELSE 0

\* What the payment exchanged at the requested rate, less what its reversal
\* exchanges at the stored one.
RateGap(h) ==
  Exchanged(headers[h].amt, call[h].rate, RateUnit * RateGrain)
    - Exchanged(headers[h].amt, headers[h].fx, RateUnit)

\* The column has kept the rate of the payment.
RateKept(h) == call[h].rate = headers[h].fx * RateGrain

\* A reversed transfer was undone exactly once, although reversals race with
\* each other and with their retries (ReverseTransfer): its source has all its
\* money back; if the column has kept the rate every account is as it was; if it
\* has rounded the rate, the destination has gained and its settlement account
\* lost exactly the difference that the rounding makes, and no other account has.
ReversalRestores ==
  \A h \in Requests :
    headers[h] # None /\ headers[h].status = "REVERSED" /\ ~IsFunding(h) =>
      \A a \in Accounts :
        LET left == Balance(RowsOf(h), a)
            at(b) == IF a = b THEN RateGap(h) ELSE 0
        IN  /\ a = headers[h].src \/ call[h].op = "transfer" \/ RateKept(h) => left = 0
            /\ call[h].op = "cross" /\ headers[h].fx > 0 =>
                 left = at(headers[h].dst) - at(Settlement(AccountCurrency[headers[h].dst]))

\* A header exists only for money the rail has moved, and of all the payouts
\* made under one key at most one is recorded or about to be.
RailAgreesWithBooks ==
  /\ \A h \in Requests : headers[h] # None /\ ~IsFunding(h) => h \in paid
  /\ \A r, s \in paid :
       /\ r # s /\ call[r].key = call[s].key
       /\ headers[r] # None \/ pc[r] \in {"post", "commit"}
       => headers[s] = None /\ pc[s] \notin {"post", "commit"}

\* A client told "ok" sees a header with the key it sent, or the header it
\* asked to reverse, reversed; a client told that its call was refused, was
\* not covered or was turned down by the rail has not been charged by it.
RepliesAreTrue ==
  \A r \in Requests :
    /\ reply[r] = "ok" =>
         IF call[r].op = "reverse"
         THEN got[r] = call[r].target /\ headers[got[r]].status = "REVERSED"
         ELSE headers[got[r]] # None /\ headers[got[r]].key = call[r].key
    /\ reply[r] \in {"refused", "insufficient", "railError"} =>
         headers[r] = None /\ \A e \in entries : e.by # r

\* History is never rewritten: rows stay, claims stay, and a header only ever
\* goes from SUCCESS to REVERSED, in the same step as its contra rows.
HistoryKept ==
  [][/\ entries \subseteq entries'
     /\ \A k \in Keys : claims[k] # None => claims'[k] = claims[k]
     /\ \A h \in Requests : headers[h] # None =>
          \/ headers'[h] = headers[h] /\ {e \in entries' : e.tx = h} = RowsOf(h)
          \/ /\ headers[h].status = "SUCCESS"
             /\ headers'[h] = [headers[h] EXCEPT !.status = "REVERSED"]
             /\ {e \in entries' : e.tx = h} # RowsOf(h)]_vars

-----------------------------------------------------------------------------
(* Why the engine is atomic: an invariant that every step preserves.       *)

PayPC    == {"lookup", "lockDst", "check", "lockFrom", "lockTo", "claim", "rail"}
ContraPC == {"contraFrom", "contraDst", "contraTo", "contraDebit", "contraCredit"}

\* A request executes only the statements of its own operation.
CallInv ==
  \A r \in Requests :
    /\ pc[r] = "idle" <=> call[r] = None
    /\ pc[r] \in PayPC => call[r].op \in {"transfer", "cross"}
    /\ pc[r] \in {"lockFrom", "lockTo"} => call[r].op = "cross"
    /\ pc[r] \in {"lockSrc", "insert", "post", "replay"} => call[r].op # "reverse"
    /\ pc[r] \in ContraPC \cup {"lockHeader"} => call[r].op = "reverse"

\* The checks that a request has passed, and what its header shows of them.
Checked(r) ==
  /\ pc[r] \notin {"idle", "done"} => WellFormed(call[r])
  /\ pc[r] = "lockDst" => AccountType[call[r].src] = "BUSINESS"
  /\ pc[r] \in {"check", "lockFrom", "lockTo", "insert"} =>
       /\ call[r].op # "fund" => AccountType[call[r].src] = "BUSINESS"
       /\ AccountCurrency[call[r].src] = call[r].from
       /\ AccountCurrency[call[r].dst] = call[r].to
  /\ pc[r] = "lockTo" => SettlementAccounts(call[r].from) # {}
  /\ pc[r] = "insert" \/ Inserted(r) => Authorised(call[r])
  /\ headers[r] # None => /\ call[r] # None /\ call[r].op # "reverse"
                          /\ Authorised(call[r])
                          /\ headers[r] = [HeaderOf(call[r]) EXCEPT !.status = headers[r].status]

\* A row locked FOR UPDATE is locked by nobody else.
LocksExclude ==
  \A r, s \in Requests : r # s => locked[r] \cap (locked[s] \cup shared[s]) = {}

\* What a payment holds, statement by statement.
PaymentLocks(r) ==
  /\ pc[r] \in {"lockDst", "check", "lockFrom", "lockTo", "insert"} \/ Inserted(r) =>
       call[r].src \in locked[r]
  /\ pc[r] \in {"check", "lockFrom", "lockTo", "insert"} \/ Inserted(r) =>
       call[r].dst \in locked[r]
  /\ pc[r] = "lockTo" => Settlement(call[r].from) \in locked[r]
  /\ (pc[r] = "insert" \/ Inserted(r)) /\ call[r].op = "cross" =>
       Settlement(call[r].from) \in locked[r] /\ Settlement(call[r].to) \in locked[r]

\* What a reversal holds: its header, still to be reversed, and the accounts.
ReversalLocks(r) ==
  LET hd == Original(r)
  IN  /\ pc[r] \in ContraPC \/ (pc[r] = "commit" /\ call[r].op = "reverse") =>
           call[r].target \in locked[r] /\ Reversible(hd)
      /\ pc[r] \in {"contraFrom", "contraDst", "contraTo"} => hd.fx > 0
      /\ pc[r] = "contraCredit" => hd.fx = 0
      /\ pc[r] \in {"contraDst", "contraTo"} \/ (pc[r] = "contraDebit" /\ hd.fx > 0) =>
           Settlement(AccountCurrency[hd.src]) \in locked[r]
      /\ pc[r] = "contraTo" \/ (pc[r] = "contraDebit" /\ hd.fx > 0) => hd.dst \in locked[r]
      /\ pc[r] = "contraDebit" /\ hd.fx > 0 => Settlement(AccountCurrency[hd.dst]) \in locked[r]
      /\ pc[r] = "contraCredit" => hd.src \in shared[r]

\* What is staged is what the abstract operation writes, on locked accounts.
Staged(r) ==
  pc[r] = "commit" =>
    /\ staged[r] = IF call[r].op = "reverse"
                   THEN ContraRows(r, call[r].target, Original(r))
                   ELSE PaymentRows(r, call[r])
    /\ \A e \in staged[r] : e.acct \in locked[r] \cup shared[r]

\* A key is carried by one header at most, committed or not, and claimed once.
KeyInv ==
  /\ \A r \in Requests : pc[r] \notin {"fetch", "done"} => headers[r] = None
  /\ \A r \in Requests : Inserted(r) => ~KeyTaken(call[r].key)
  /\ \A r, s \in Requests : r # s /\ Inserted(r) /\ Inserted(s) => call[r].key # call[s].key

LedgerInv ==
  /\ TypeOK /\ CallInv /\ LocksExclude
  /\ \A r \in Requests : Checked(r) /\ PaymentLocks(r) /\ ReversalLocks(r) /\ Staged(r)
  /\ KeyInv /\ OneTransferPerKey /\ ClaimsMatchHeaders /\ CheckedFundsStay

-----------------------------------------------------------------------------
\* The interleaved engine behaves like one that does everything at one instant.
Atomic == INSTANCE AtomicLedger
ImplementsAtomic == Atomic!Spec

\* The same with the calls and their answers: what the callers may rely on.
Stage(r) ==
  CASE pc[r] \in {"idle", "done"} -> pc[r]
    [] pc[r] = "lookup"           -> "called"
    [] pc[r] = "fetch"            -> "found"
    [] OTHER                      -> "missed"

Service ==
  INSTANCE LedgerService
    WITH called <- call, stage <- [r \in Requests |-> Stage(r)], found <- got, answer <- reply
ImplementsService == Service!ServiceSpec

\* Every call that reaches the engine returns: neither locks nor keys are
\* waited for forever, lock-order inversions included.
EveryCallReturns == \A r \in Requests : pc[r] # "idle" ~> pc[r] = "done"

-----------------------------------------------------------------------------
(* What comments and tests say that the code does not keep.                *)

\* "Exactly one request wins and the losers replay the winner's transfer"
\* (store.go): nobody is told "insufficient funds" for a key that has paid.
\* The balance is checked before the header is inserted, so a loser is.
LosersReplay ==
  [][\A r \in Requests :
       pc[r] = "check" /\ reply'[r] = "insufficient" => ~KeyTaken(call[r].key)]_vars

\* "Reverse the original pair exactly" (transfer.go), so that the rows of a
\* reversed header "still net to zero" (ledger_test.go).  A funding has no
\* pair: both contra rows hit its one account, which keeps the money.
ReversedNetsToZero ==
  \A h \in Requests :
    headers[h] # None /\ headers[h].status = "REVERSED" /\ headers[h].fx = 0 =>
      Total(RowsOf(h)) = 0
=============================================================================
