------------------------------- MODULE ConnPool -------------------------------
(***************************************************************************)
(* How the ledger's calls use the connections of pgxpool.  A payment looks *)
(* its key up, runs its transaction and reads its result on connections of *)
(* which it keeps one at a time; a listing of invoices keeps the one of    *)
(* its open rows while it asks for another one for the items of each.      *)
(* Payments compete for one account.  The pool makes a caller wait without *)
(* a deadline of its own.                                                  *)
(***************************************************************************)
EXTENDS Integers, FiniteSets

CONSTANTS
  PoolSize,
  Listings, Payings, Readings,   \* the calls
  Listed,                        \* the invoices that a listing finds
  NoCall

Callers == Listings \cup Payings \cup Readings

ASSUME PoolAssumption ==
  /\ PoolSize \in Nat \ {0} /\ Listed \in Nat /\ NoCall \notin Callers
  /\ Listings \cap (Payings \cup Readings) = {} /\ Payings \cap Readings = {}

VARIABLES
  at,        \* where a call is; from "start", "begin", "fetch" and "next" it asks the pool
  conns,     \* the connections that a call keeps
  unread,    \* the invoices of which a listing has not read the items
  lockedBy   \* the payment that has locked the account, or NoCall

poolVars == <<at, conns, unread, lockedBy>>

\* The connections that are taken: a call that keeps two has its first and second.
Slots == {k \in Callers \X (1..2) : k[2] <= conns[k[1]]}
Taken == Cardinality(Slots)

Goes(c, to) == at' = [at EXCEPT ![c] = to]

\* Query, QueryRow and Begin take a connection, or wait for one.
Acquire(c, to) ==
  /\ Taken < PoolSize
  /\ conns' = [conns EXCEPT ![c] = @ + 1] /\ Goes(c, to)
  /\ UNCHANGED <<unread, lockedBy>>

\* Scan, Close, Commit and Rollback give it back, the last two with the locks.
GiveBack(c, to) ==
  /\ conns' = [conns EXCEPT ![c] = @ - 1] /\ Goes(c, to)
  /\ lockedBy' = IF lockedBy = c THEN NoCall ELSE lockedBy

Begins(c) == at[c] = "idle" /\ Goes(c, "start") /\ UNCHANGED <<conns, unread, lockedBy>>

-----------------------------------------------------------------------------
\* GetBalance, ListAccounts, ListTransfers, ListLedgerEntries and their like.
ReadingStep(c) ==
  \/ at[c] = "start" /\ Acquire(c, "reading")
  \/ at[c] = "reading" /\ GiveBack(c, "done") /\ UNCHANGED unread

\* The key is looked up before the transaction.
LookKeyUp(c) ==
  \/ at[c] = "start" /\ Acquire(c, "lookup")
  \/ at[c] = "lookup" /\ UNCHANGED unread /\ \E to \in {"begin", "fetch"} : GiveBack(c, to)

LockAccount(c) ==
  \/ at[c] = "begin" /\ Acquire(c, "locking")
  \/ /\ at[c] = "locking" /\ lockedBy = NoCall
     /\ lockedBy' = c /\ Goes(c, "locked") /\ UNCHANGED <<conns, unread>>

\* Mutant: the loser of a key reads the winner's transfer without a rollback.
LoseInTransaction(c) ==
  at[c] = "locked" /\ Goes(c, "fetch") /\ UNCHANGED <<conns, unread, lockedBy>>

\* The loser of a key rolls its transaction back before it reads.
LoseKey(c) == at[c] = "locked" /\ GiveBack(c, "fetch") /\ UNCHANGED unread

\* The transaction is committed, or refused, and its result read.
EndTransaction(c) ==
  /\ at[c] = "locked" /\ UNCHANGED unread
  /\ \E to \in {"fetch", "done"} : GiveBack(c, to)

FetchPaid(c) ==
  \/ at[c] = "fetch" /\ Acquire(c, "fetching")
  \/ at[c] = "fetching" /\ GiveBack(c, "done") /\ UNCHANGED unread

PayingStep(c) == LookKeyUp(c) \/ LockAccount(c) \/ LoseKey(c) \/ EndTransaction(c) \/ FetchPaid(c)

NextRow(c) == IF unread[c] = 0 THEN "last" ELSE "next"

\* ListInvoices, and attachItems for every row.
ListingStep(c) ==
  \/ at[c] = "start" /\ Acquire(c, NextRow(c))
  \/ at[c] = "next" /\ Acquire(c, "items")
  \/ /\ at[c] = "items" /\ unread' = [unread EXCEPT ![c] = @ - 1]
     /\ GiveBack(c, IF unread'[c] = 0 THEN "last" ELSE "next")
  \/ at[c] = "last" /\ GiveBack(c, "done") /\ UNCHANGED unread

\* A client leaves: its context is cancelled, and the call gives up what it keeps.
ClientGone(c) ==
  /\ at[c] \notin {"idle", "done"}
  /\ Goes(c, "done") /\ conns' = [conns EXCEPT ![c] = 0]
  /\ lockedBy' = IF lockedBy = c THEN NoCall ELSE lockedBy
  /\ UNCHANGED unread

CallStep(c) ==
  \/ c \in Listings /\ ListingStep(c)
  \/ c \in Payings /\ PayingStep(c)
  \/ c \in Readings /\ ReadingStep(c)

PoolInit ==
  /\ at = [c \in Callers |-> "idle"] /\ conns = [c \in Callers |-> 0]
  /\ unread = [c \in Callers |-> Listed] /\ lockedBy = NoCall

PoolNext == \E c \in Callers : Begins(c) \/ CallStep(c) \/ ClientGone(c)

\* A call goes on when it can: the pool serves those who wait, in their order.
PoolFairness == \A c \in Callers : WF_poolVars(CallStep(c))

PoolSpec == PoolInit /\ [][PoolNext]_poolVars /\ PoolFairness

-----------------------------------------------------------------------------
(* Properties                                                              *)

Asking(c) == at[c] \in {"start", "begin", "fetch", "next"}

\* The pool's connections are never overdrawn, a finished call keeps none, and
\* the account is locked by a call that is in its transaction and asks the pool
\* for nothing (transfer.go's rollbacks before its reads).
PoolTypeOK ==
  /\ conns \in [Callers -> 0..2] /\ unread \in [Callers -> 0..Listed] /\ Taken <= PoolSize
  /\ \A c \in Callers : at[c] \in {"idle", "done"} => conns[c] = 0
  /\ lockedBy # NoCall => conns[lockedBy] = 1 /\ ~Asking(lockedBy)

\* Every connection is kept by a listing that asks for another one.
Jammed ==
  \E J \in SUBSET Listings :
    /\ \A c \in J : conns[c] = 1 /\ Asking(c)
    /\ Cardinality(J) = PoolSize

\* A call that waits neither for a connection nor for the account.
GoesOn(c) ==
  /\ at[c] \notin {"idle", "done"}
  /\ Asking(c) => Taken < PoolSize
  /\ at[c] = "locking" => lockedBy = NoCall

PoolAtRest == Jammed \/ \A c \in Callers : at[c] \in {"idle", "done"}

\* The pool never stops with calls in it that all wait, for connections or for
\* the lock that others wait with, unless every connection is kept by a listing
\* (ListInvoices and attachItems in invoices.go; the transactions and reads of
\* transfer.go and crossborder.go).
OnlyListingsStop == PoolAtRest \/ \E c \in Callers : GoesOn(c)

\* All calls return, unless listings of invoices have taken every connection and
\* each asks for one more: no payment can bring the pool to a stop, although it
\* holds a lock that others wait for with connections of theirs (ListInvoices'
\* attachItems in invoices.go, the rollbacks in transfer.go and crossborder.go).
OnlyListingsJam == []<>PoolAtRest
=============================================================================
