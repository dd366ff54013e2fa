SPECIFICATION MCSpec
CONSTANTS
  Requests = {"p1", "p2", "d"}
  Clicks = {"p1", "p2"}
  Opening = "d"
  Deposit = 5
  Payer = "ann"
  Supplier = "kip"
  Amounts = {2, 3}
  CorridorRate = 3
  CentUnits = 2
  Keys = {"p1", "p2", "d"}
  Currencies = {"RWF", "KES"}
  Accounts <- MCAccounts
  AccountType <- MCAccountType
  AccountCurrency <- MCAccountCurrency
  Calls <- MCCalls
  RateUnit = 2
  RateGrain = 1
  None = None
  Attempts = {"c1", "c2"}
  Listed = {"amina", "kethan"}
  Typed = {"amina", "newco"}
  Seeded = {"kethan"}
  MaxToasts = 4
  MaxPayments = 3
  Stamp <- MCStamp
  PageSize = 1
  Looks = {"k1", "k2"}
  MaxRecords = 2
  Presses = {"s1", "s2"}
  InvoiceNumbers = {"i1"}
  Partners = {"amina"}
  Prices = {1}
  MaxLines = 2
  Totals <- MCTotals
  MaxSettled = 3
  Worth <- MCWorth
  Instant <- MCInstant
  Marked = {2, 3}
  Crossed = {2}
  LastDay = 3
  BarDays = 2
  FeedRows = 2
  EventRows = 3
INVARIANTS
  ScreensTypeOK
  TypedOncePaidOnce
  FormTellsTruth
  SignedInIsRegistered
  TimerTakesItsOwn
  EveryRecordOnOnePage
  AuditIsOfItsPayment
  CreatedIsSubmitted
  WordsReadBack
  PagesAgree
PROPERTIES
  RefusedOnlyIfStale
  ScreensReturn
  AwaitedArrives
CHECK_DEADLOCK FALSE
