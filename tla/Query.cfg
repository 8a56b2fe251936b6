SPECIFICATION FairSpec
CONSTANTS
  BundleCount = 2
  Bin = {0, 1}
  ItemCount = 3
  QueryInput <- SessionQueries
  Params = Params
  WorkerCount = 2
  PoolSize = 2
  SenderPoolSize = 2
  MaxRequests = 2
  MaxFaults = 1
  Pending = Pending
  Threw = Threw
CHECK_DEADLOCK FALSE
INVARIANTS ClaimsExact CleanSession StreamOrdered
PROPERTIES RequestsEnd DispatcherReturns AnswersAreWhole ImplementsPsiService
