SPECIFICATION Spec
CONSTANTS
  DB = {1, 2}
  Caller = {a, b}
  Item = {1, 2, 3}
  BundleCount = 2
  Home <- Homes
  Calls <- InsertAndQuery
  MaxCalls = 2
  Garbage = {0}
  None = None
CHECK_DEADLOCK FALSE
PROPERTY LockPreventsChange
