CONSTANTS
  o1 = o1
  j1 = j1
  Orders = {o1}
  JobIds = {j1}
  JobIdOf <- OneJobId
  Runs = {r1, r2}
  Operators = {}
  MaxAttempts = 2
  MaxStalled = 0
  NoOrder = NoOrder
  NoRun = NoRun
  NoJob = NoJob
  Deliveries = {d1, d2}
  FailOpen = TRUE
  MaxDepth = 1
  MaxResends = 0
SPECIFICATION Spec
INVARIANTS
  TypeOK
  EnqueuedIsNotLost
  AcceptedIsNotLost
PROPERTIES
  ImplementsIntake
SYMMETRY SlotSymmetry
