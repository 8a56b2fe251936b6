SPECIFICATION FairSpec
CONSTANTS
  DB = {1, 2}
  Caller = {a, b}
  Item = {1, 2, 3}
  BundleCount = 2
  Home <- Homes
  Calls <- AllCalls
  MaxCalls = 3
  Garbage = {9}
  None = None
CHECK_DEADLOCK FALSE
INVARIANTS HoldsWhatWasPut
PROPERTIES ReadersKeepItems CallsReturn
