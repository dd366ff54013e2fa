-------------------------------- MODULE Books --------------------------------
(***************************************************************************)
(* The data of the VUKA ledger engine: the accounts, the calls a client    *)
(* can make, the transaction headers, and the ledger rows each operation   *)
(* writes.  A balance is never stored: it is the sum of an account's rows. *)
(*                                                                         *)
(* Money is an integer number of 1/10000ths, the precision of the columns  *)
(* NUMERIC(18,4).  An exchange rate is an integer too: a rate in a request *)
(* counts units of 1/(RateUnit * RateGrain), a rate in a header (the       *)
(* column NUMERIC(18,6)) units of 1/RateUnit.  RateGrain = 1 means that    *)
(* every requested rate can be stored exactly.                             *)
(***************************************************************************)
EXTENDS Integers, FiniteSetsExt

CONSTANTS
  Requests,         \* requests in flight; a request also names the row it inserts
  Keys,             \* idempotency keys
  Accounts,
  Currencies,
  AccountType,      \* accounts.type
  AccountCurrency,  \* accounts.currency
  RateUnit,
  RateGrain,
  Calls,            \* the calls clients make
  None              \* no row, no request, no call

-----------------------------------------------------------------------------
(* The calls of the engine: the payment calls (Transfer, with from = to;   *)
(* CrossBorderTransfer; FundAccount, with src = dst) and ReverseTransfer.  *)

Payment ==
  [op : {"transfer", "cross", "fund"}, key : Keys,
   src : Accounts, dst : Accounts, from : Currencies, to : Currencies,
   amt : Int, rate : Nat]

Reversal == [op : {"reverse"}, target : Requests]

\* fx = 0 stands for NULL and for a stored rate of 0: the engine treats them alike.
Header ==
  [key : Keys, src : Accounts, dst : Accounts, amt : Int, fx : Nat,
   status : {"SUCCESS", "REVERSED"}]

ASSUME BooksAssumption ==
  /\ Calls \subseteq Payment \cup Reversal
  /\ \A c \in Calls : /\ c.op \in {"transfer", "fund"} => c.from = c.to
                      /\ c.op = "fund" => c.src = c.dst
  /\ AccountType \in [Accounts -> {"PERSONAL", "BUSINESS", "SETTLEMENT"}]
  /\ AccountCurrency \in [Accounts -> Currencies]
  /\ RateUnit \in Nat \ {0}
  /\ RateGrain \in Nat \ {0}
  /\ None \notin Requests \cup Accounts \cup Payment \cup Reversal \cup Header
  /\ Requests \cap Accounts = {}

\* The checks made before any statement reaches the database.
WellFormed(c) ==
  CASE c.op = "transfer" -> c.amt > 0 /\ c.src # c.dst
    [] c.op = "cross"    -> c.amt > 0 /\ c.src # c.dst /\ c.from # c.to /\ c.rate > 0
    [] c.op = "fund"     -> c.amt > 0
    [] c.op = "reverse"  -> TRUE

SettlementAccounts(cur) ==
  {a \in Accounts : AccountType[a] = "SETTLEMENT" /\ AccountCurrency[a] = cur}

\* ORDER BY created_at LIMIT 1; one system user owns them, one per currency.
Settlement(cur) ==
  IF SettlementAccounts(cur) = {} THEN None ELSE CHOOSE a \in SettlementAccounts(cur) : TRUE

\* The checks made on the locked account rows.
Authorised(c) ==
  /\ c.op # "fund" => AccountType[c.src] = "BUSINESS"
  /\ AccountCurrency[c.src] = c.from
  /\ AccountCurrency[c.dst] = c.to
  /\ c.op = "cross" => SettlementAccounts(c.from) # {} /\ SettlementAccounts(c.to) # {}

-----------------------------------------------------------------------------
(* Exchange.  Both math.Round and NUMERIC round halves away from zero; the *)
(* quantities here are never negative.                                     *)

RoundedQuotient(n, d) == (2 * n + d) \div (2 * d)

\* round4(amount / rate), the rate being rate / unit.
Exchanged(amt, rate, unit) == RoundedQuotient(amt * unit, rate)

\* What the column fx_rate keeps of a requested rate.
StoredRate(rate) == RoundedQuotient(rate, RateGrain)

-----------------------------------------------------------------------------
(* Headers and rows.                                                       *)

HeaderOf(c) ==
  [key |-> c.key, src |-> c.src, dst |-> c.dst, amt |-> c.amt,
   fx |-> IF c.op = "cross" THEN StoredRate(c.rate) ELSE 0,
   status |-> "SUCCESS"]

Leg == {"debit", "settleCredit", "settleDebit", "credit"}

\* tx is the header the row belongs to, by the request that inserted it.
Row == [by : Requests, tx : Requests, leg : Leg, acct : Accounts, amt : Int]

NewRow(r, h, leg, a, amt) ==
  [by |-> r, tx |-> h, leg |-> leg, acct |-> a, amt |-> amt]

DoubleEntry(r, h, src, dst, amt) ==
  {NewRow(r, h, "debit", src, -amt), NewRow(r, h, "credit", dst, amt)}

\* Mutant: the settlement account pays out the amount before the exchange.
UnexchangedEntries(r, h, src, from, to, dst, amt, amtTo) ==
  {NewRow(r, h, "debit", src, -amt), NewRow(r, h, "settleCredit", from, amt),
   NewRow(r, h, "settleDebit", to, -amt), NewRow(r, h, "credit", dst, amtTo)}

CrossBorderEntries(r, h, src, from, to, dst, amt, amtTo) ==
  {NewRow(r, h, "debit", src, -amt), NewRow(r, h, "settleCredit", from, amt),
   NewRow(r, h, "settleDebit", to, -amtTo), NewRow(r, h, "credit", dst, amtTo)}

PaymentRows(r, c) ==
  CASE c.op = "transfer" -> DoubleEntry(r, r, c.src, c.dst, c.amt)
    [] c.op = "cross"    ->
         CrossBorderEntries(r, r, c.src, Settlement(c.from), Settlement(c.to), c.dst,
                            c.amt, Exchanged(c.amt, c.rate, RateUnit * RateGrain))
    [] c.op = "fund"     -> {NewRow(r, r, "credit", c.src, c.amt)}

\* What reversing header h, whose record is hd, writes: the same legs negated.
ContraRows(r, h, hd) ==
  IF hd.fx > 0
  THEN CrossBorderEntries(r, h, hd.src,
                          Settlement(AccountCurrency[hd.src]),
                          Settlement(AccountCurrency[hd.dst]), hd.dst,
                          -hd.amt, -Exchanged(hd.amt, hd.fx, RateUnit))
  ELSE DoubleEntry(r, h, hd.src, hd.dst, -hd.amt)

Total(rows) == MapThenSumSet(LAMBDA e : e.amt, rows)

Balance(rows, a) == Total({e \in rows : e.acct = a})

\* Mutant: any money at all in the source is enough.
CoveredInPart(rows, c) == c.op = "fund" \/ Balance(rows, c.src) > 0

\* A funding brings its own money; any other payment is covered by the source.
Covered(rows, c) == c.op = "fund" \/ Balance(rows, c.src) >= c.amt
=============================================================================
