SPECIFICATION Spec
CONSTANTS
  BundleCount = 2
  Bin = {0, 1}
  ItemCount = 3
  QueryInput <- SomeQueries
  Params = Params
  WorkerCount = 1
  PoolSize = 1
  SenderPoolSize = 1
  MaxRequests = 3
  MaxFaults = 0
  Pending = Pending
  Threw = Threw
CHECK_DEADLOCK FALSE
INVARIANT AnswersAreOwn
