SPECIFICATION Spec
CONSTANTS
  Requests = {r1, r2, r3}
  Keys = {"f", "g", "p", "q", "b"}
  Currencies = {"RWF", "KES", "UGX"}
  Accounts <- MCAccounts
  AccountType <- MCAccountType
  AccountCurrency <- MCAccountCurrency
  Calls <- DomesticCalls
  RateUnit = 2
  RateGrain = 1
  None = None
SYMMETRY Symmetry
INVARIANTS
  ReversedNetsToZero
