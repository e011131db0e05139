SPECIFICATION LifecycleSpec
CONSTANTS
  q1 = q1
  q2 = q2
  Requests <- MCRequests
  Statuses <- MCStatuses
  Platform = "GRABFOOD"
  StoreMapped = TRUE
  MaxPatches = 3
SYMMETRY RequestSymmetry
INVARIANTS LifecycleTypeOK SequentialAgreement AuditIsComplete ScreenWasLogged
