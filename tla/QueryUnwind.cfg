SPECIFICATION Spec
CONSTANTS
  BundleCount = 2
  Bin = {0, 1}
  ItemCount = 3
  QueryInput <- CleanQueries
  Params = Params
  WorkerCount = 1
  PoolSize = 1
  SenderPoolSize = 2
  MaxRequests = 1
  MaxFaults = 1
  Pending = Pending
  Threw = Threw
CHECK_DEADLOCK FALSE
INVARIANT WaitsForAllBundles
