------------------------------ MODULE MCGateway ------------------------------
(* Small instances of Gateway for TLC.                                     *)
EXTENDS Gateway, TLC

MCAccountType ==
  [ann |-> "BUSINESS", kip |-> "BUSINESS", poolR |-> "SETTLEMENT", poolK |-> "SETTLEMENT"]
MCAccountCurrency == [ann |-> "RWF", kip |-> "KES", poolR |-> "RWF", poolK |-> "KES"]
MCAccounts == DOMAIN MCAccountType

Message(debtor, creditor, cur, amt) ==
  [id |-> "m", debtor |-> debtor, creditor |-> creditor, cur |-> cur, amt |-> amt, parses |-> TRUE]

\* Two payments that share an id, one within Kenya, an unknown creditor, a
\* currency and an amount that are not accepted, and no message at all.
MCMessages ==
  {Message("Ann", "Kip", "RWF", 2), Message("Ann", "Kip", "RWF", 1),
   Message("Kip", "Kip", "KES", 1), Message("Ann", "Zoe", "RWF", 1),
   Message("Ann", "Kip", "UGX", 1), Message("Ann", "Kip", "RWF", 0),
   [Message("Ann", "Kip", "RWF", 2) EXCEPT !.parses = FALSE]}

MCRegistry == <<"Ann", "RWF">> :> "ann" @@ <<"Kip", "KES">> :> "kip"

\* The others fund ann, make the gateway's payments themselves, and reverse.
MCCalls ==
  {CallOf(Message("Ann", "Kip", "RWF", n)) : n \in 1..2} \cup {CallOf(Message("Kip", "Kip", "KES", 1))}
    \cup {[op |-> "fund", key |-> "f", src |-> "ann", dst |-> "ann",
           from |-> "RWF", to |-> "RWF", amt |-> 3, rate |-> 0]}
    \cup [op : {"reverse"}, target : Requests]
=============================================================================
