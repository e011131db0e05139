CONSTANTS
  o1 = o1
  j1 = j1
  Orders = {o1}
  JobIds = {j1}
  JobIdOf <- OneJobId
  Runs = {r1}
  Operators = {}
  MaxAttempts = 1
  MaxStalled = 0
  NoOrder = NoOrder
  NoRun = NoRun
  NoJob = NoJob
  Deliveries = {d1, d2, d3}
  FailOpen = TRUE
  MaxDepth = 1
  MaxResends = 1
SPECIFICATION FrontDoorSpec
INVARIANTS
  FrontTypeOK
  MarkerIsBacked
  AcceptedWasEnqueued
SYMMETRY DeliverySymmetry
