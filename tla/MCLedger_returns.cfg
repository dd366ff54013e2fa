SPECIFICATION FairSpec
CONSTANTS
  Requests = {r1, r2, r3}
  Keys = {"f", "g", "p", "q", "b"}
  Currencies = {"RWF", "KES", "UGX"}
  Accounts <- MCAccounts
  AccountType <- MCAccountType
  AccountCurrency <- MCAccountCurrency
  Calls <- RefusedCalls
  RateUnit = 2
  RateGrain = 1
  None = None
PROPERTIES
  ImplementsAtomic
  EveryCallReturns
