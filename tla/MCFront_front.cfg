SPECIFICATION FrontSpec
CONSTANTS
  Requests = {x1, x2, d1}
  Exchanges = {x1, x2}
  Messages <- MCMessages
  Registry <- MCRegistry
  DefaultRate = 3
  Keys = {"m", "f"}
  Currencies = {"RWF", "KES"}
  Accounts <- MCAccounts
  AccountType <- MCAccountType
  AccountCurrency <- MCAccountCurrency
  Calls <- MCCalls
  RateUnit = 2
  RateGrain = 1
  None = None
  Posts = {q1, q2, q3}
  Streams = {s1, s2}
  Capacity = 1
  WireSize = 1
  PoolSize = 2
  Listings = {l1, l2}
  Payings = {p1, p2}
  Readings = {g1}
  Listed = 2
  NoCall = NoCall
  Engines = {"e1", "e2"}
  Registrations = {"g1", "g2"}
  Phones = {"amina", "settlement"}
  Reserved = "settlement"
  Nobody = Nobody
INVARIANTS
  FrontTypeOK
  AcceptedIsBooked
  ChannelsLive
  ClientsAgreeOnOrder
  OnlyListingsStop
  RegistrySound
PROPERTIES
  AcceptedStaysAccepted
  SettlementKept
  FrontReturns
CHECK_DEADLOCK FALSE
