SPECIFICATION FairSpec
CONSTANTS
  Receiver = {r1, r2}
  ReceiverVersion <- SameVersion
  Version <- Versions
  ParamsFile <- Files
  MaxStarts = 2
  MaxRequests = 4
  MaxKeys = 2
  None = None
CHECK_DEADLOCK FALSE
INVARIANTS ServedAsMade NothingDropped
PROPERTIES ResultsAreOwn RequestsReturn
