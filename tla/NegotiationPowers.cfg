SPECIFICATION Spec
CONSTANTS
  Receiver = {r1}
  ReceiverVersion <- SameVersion
  Version <- Versions
  ParamsFile <- Files
  MaxStarts = 2
  MaxRequests = 2
  MaxKeys = 1
  None = None
CHECK_DEADLOCK FALSE
INVARIANT PowersMatch
