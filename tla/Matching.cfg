SPECIFICATION MCSpec
CONSTANTS
  Item = {1, 2, 3, 4}
  TableSize = 4
  BinsPerBundle = 2
  HashLocations <- Locations
  Queries <- ShortQueries
  Errors <- OneError
  Empty = Empty
  Sender = {s1, s2}
  Receiver = {r}
  DataFile <- DataFiles
  ParamsFile = {good, bad}
  Valid = {good}
  TornLine <- TornLines
  MaxChanges = 1
  File <- TextFiles
  StrayByte = {0, 203}
  NoItem = NoItem
  Absent = Absent
  Directory = Directory
  None = None
  Main = Main
  Worker = {w1, w2}
  MaxLines = 2
  NoOne = NoOne
  KeyReceiver = {r1, r2}
  MaxGenerations = 2
  Default = Default
  Params = Params
  Pending = Pending
  Threw = Threw
CHECK_DEADLOCK FALSE
INVARIANTS FindsIntersection ThrowsOnlyForFirst ServesWholeFile ItemsStandForLines LinesOnce SocketOneUser KeysMatch
PROPERTY ServiceKept
