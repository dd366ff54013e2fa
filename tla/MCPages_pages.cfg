SPECIFICATION PagesSpec
CONSTANTS
  Requests = {p1, p2, d1}
  Clicks = {p1, p2}
  Invoices <- MCInvoices
  Issuer <- MCIssuer
  AmountOf <- MCAmountOf
  Payer = "ann"
  MaxLookups = 1
  Keys = {p1, p2, "f"}
  Currencies = {"RWF"}
  Accounts <- MCAccounts
  AccountType <- MCAccountType
  AccountCurrency <- MCAccountCurrency
  Calls <- MCCalls
  RateUnit = 2
  RateGrain = 1
  None = None
  Posts = {q1, q2}
  Streams = {s1}
  Reads = {a1, a2}
  NoStream = NoStream
  Capacity = 1
  WireSize = 1
INVARIANTS
  AnnouncedIsShown
  CardTypeOK
  SettledIsListed
PROPERTIES
  ShownNeverGoesBack
  AnnouncedGetsShown
  ButtonReturns
CHECK_DEADLOCK FALSE
