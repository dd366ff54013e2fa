SPECIFICATION GatewaySpec
CONSTANTS
  Requests = {x1, x2, d1}
  Exchanges = {x1, x2}
  Messages <- MCMessages
  Registry <- MCRegistry
  DefaultRate = 3
  Keys = {"m", "f"}
  Currencies = {"RWF", "KES"}
  Accounts <- MCAccounts
  AccountType <- MCAccountType
  AccountCurrency <- MCAccountCurrency
  Calls <- MCCalls
  RateUnit = 2
  RateGrain = 1
  None = None
INVARIANTS
  RejectedIsUnpaid
CHECK_DEADLOCK FALSE
