SPECIFICATION MCSpec
CONSTANTS
  x1 = x1
  x2 = x2
  x3 = x3
  Item = {x1, x2, x3}
  Hash <- ItemHashes
  TagHash <- TagHashes
  WordBits = 4
  IndexBits = {0}
  BitsPerTag = 2
  TagIdx = {0, 1}
  MaxKicks = 3
  MaxItems = 6
  NoCall = NoCall
  invalid_argument = invalid_argument
  logic_error = logic_error
  Null = Null
  Idle = Idle
  Depth = 4
  Modulus = 7
  MaxAdded = 3
  TableItems = 3
  TableBits = 3
  TagsPerBucket = 2
  TableTag <- TableTags
  User = {u1, u2, u3}
  Job = {1}
  HardwareConcurrency = 2
  Counts = {0, 1}
  MaxPools = 2
  MaxSets = 1
  NoUser = NoUser
  Thread = {main, worker}
  PoolThread = {worker}
  Name = {"Sender", "Worker"}
  NameLength <- Lengths
  Duration = {1, 4}
  MaxScopes = 2
  NoOne = NoOne
CHECK_DEADLOCK FALSE
INVARIANTS CallsExact TreeHoldsItems PoolShared LastWaitsForAll SizeAsSet SummaryExact
PROPERTIES ImplementsItemBag ImplementsArray UsersReturn InterruptEnds
