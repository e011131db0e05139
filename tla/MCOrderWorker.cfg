CONSTANTS
  o1 = o1
  j1 = j1
  Orders = {o1}
  JobIds = {j1}
  JobIdOf <- OneJobId
  Runs = {r1, r2, r3}
  Operators = {a1}
  MaxAttempts = 3
  MaxStalled = 1
  NoOrder = NoOrder
  NoRun = NoRun
  NoJob = NoJob
SPECIFICATION OrderWorkerFairSpec
INVARIANTS
  OrderWorkerTypeOK
  NoDoubleDisplay
  ShownIsRecorded
  CompletedIsStored
  StoredIsAnnouncedUnlessInterrupted
  DisplayInv
PROPERTIES
  JobSettles
