SPECIFICATION CardSpec
CONSTANTS
  Requests = {p1, p2, d1}
  Clicks = {p1, p2}
  Invoices <- MCInvoices
  Issuer <- MCIssuer
  AmountOf <- MCAmountOf
  Payer = "ann"
  MaxLookups = 1
  Keys = {p1, p2, "f"}
  Currencies = {"RWF"}
  Accounts <- MCAccounts
  AccountType <- MCAccountType
  AccountCurrency <- MCAccountCurrency
  Calls <- MCCalls
  RateUnit = 2
  RateGrain = 1
  None = None
INVARIANTS
  PaidMeansSettled
CHECK_DEADLOCK FALSE
