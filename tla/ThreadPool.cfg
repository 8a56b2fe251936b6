SPECIFICATION FairSpec
CONSTANTS
  Thread = {w1, w2}
  Waiter = {c1}
  Task = {k1, k2, k3}
  PoolSizes <- TwoSizes
  QueueLimits <- LowestLimit
  FirstLimit = 1
  MaxChanges = 2
  None = None
INVARIANTS NumbersAreIndices InFlightExact DrainedWhenDestroyed
PROPERTIES ImplementsTaskPool QueuedTasksRun DestructorReturns CallersReturn PoolShrinks
