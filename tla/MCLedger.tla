------------------------------- MODULE MCLedger -------------------------------
(* Small instances of Ledger for TLC.                                      *)
EXTENDS Ledger, TLC

\* Traders in Rwanda, Kenya and Uganda (for which no settlement account was
\* set up), a personal wallet, and the engine's settlement accounts.
MCAccountType ==
  [ann |-> "BUSINESS", ben |-> "BUSINESS", kip |-> "BUSINESS", uma |-> "BUSINESS",
   home |-> "PERSONAL", poolR |-> "SETTLEMENT", poolK |-> "SETTLEMENT"]
MCAccountCurrency ==
  [ann |-> "RWF", ben |-> "RWF", kip |-> "KES", uma |-> "UGX",
   home |-> "RWF", poolR |-> "RWF", poolK |-> "KES"]
MCAccounts == DOMAIN MCAccountType

Fund(k, a, n) ==
  [op |-> "fund", key |-> k, src |-> a, dst |-> a,
   from |-> MCAccountCurrency[a], to |-> MCAccountCurrency[a], amt |-> n, rate |-> 0]
Transfer(k, a, b, n) ==
  [op |-> "transfer", key |-> k, src |-> a, dst |-> b,
   from |-> "RWF", to |-> "RWF", amt |-> n, rate |-> 0]
Cross(k, a, b, n, x) ==
  [op |-> "cross", key |-> k, src |-> a, dst |-> b,
   from |-> MCAccountCurrency[a], to |-> MCAccountCurrency[b], amt |-> n, rate |-> x]
AnyReversal == [op : {"reverse"}, target : Requests]

\* A payment repeated with its key, a funding that reuses the key, payments
\* that compete for ann's money and lock ann and ben in both orders, reversals.
DomesticCalls ==
  {Fund("f", "ann", 3), Fund("p", "ben", 1),
   Transfer("p", "ann", "ben", 2), Transfer("q", "ann", "ben", 2), Transfer("b", "ben", "ann", 1)} \cup AnyReversal

\* Payments across the border in both directions, at a rate that rounds.
BorderCalls ==
  {Fund("f", "ann", 3), Cross("p", "ann", "kip", 2, 3), Cross("b", "kip", "ann", 1, 2)} \cup AnyReversal

\* Calls that are turned down, each for a reason of its own, among payments
\* across the border that lock ann and kip in both orders, and reversals.
RefusedCalls ==
  {Fund("f", "ann", 3), Cross("p", "ann", "kip", 2, 3), Cross("b", "kip", "ann", 1, 2),
   Fund("g", "home", 0), [Fund("g", "home", 1) EXCEPT !.from = "KES", !.to = "KES"],
   Fund("g", "home", 1), Transfer("p", "home", "ann", 1), Transfer("p", "ann", "ann", 1),
   Transfer("p", "ann", "kip", 1), Cross("p", "ann", "uma", 1, 2), Cross("p", "ann", "kip", 1, 0)}
  \cup AnyReversal

Symmetry == Permutations(Requests)
=============================================================================
