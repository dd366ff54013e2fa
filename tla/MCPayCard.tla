------------------------------ MODULE MCPayCard ------------------------------
(* Small instances of PayCard for TLC.                                     *)
EXTENDS PayCard, TLC

MCAccountType == [ann |-> "BUSINESS", ben |-> "BUSINESS", dan |-> "BUSINESS"]
MCAccountCurrency == [ann |-> "RWF", ben |-> "RWF", dan |-> "RWF"]
MCAccounts == DOMAIN MCAccountType

\* Two suppliers have sent ann an invoice each.
MCIssuer == [i1 |-> "ben", i2 |-> "dan"]
MCAmountOf == [i1 |-> 1, i2 |-> 2]
MCInvoices == DOMAIN MCIssuer

MCCalls ==
  {PaymentOf(p, i, a) : p \in Clicks, i \in MCInvoices, a \in {"ben", "dan"}}
    \cup {[op |-> "fund", key |-> "f", src |-> "ann", dst |-> "ann",
           from |-> "RWF", to |-> "RWF", amt |-> 2, rate |-> 0]}
    \cup [op : {"reverse"}, target : Requests]
=============================================================================
