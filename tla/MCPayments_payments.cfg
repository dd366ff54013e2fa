SPECIFICATION MenuSpec
CONSTANTS
  Requests = {r1, r2, r3, r4}
  Keys = {"f", "g", "p", "q", "b"}
  Currencies = {"RWF", "KES", "UGX"}
  Accounts <- MCAccounts
  AccountType <- MCAccountType
  AccountCurrency <- MCAccountCurrency
  Calls <- MenuCalls
  RateUnit = 2
  RateGrain = 2
  None = None
SYMMETRY Symmetry
INVARIANTS
  OneTransferPerKey
  RailAgreesWithBooks
  RepliesAreTrue
  LedgerInv
  CheckedFundsStay
  OverdraftOnlyByReversal
  BooksBalance
  ReversalRestores
PROPERTIES
  ImplementsService
  HistoryKept
