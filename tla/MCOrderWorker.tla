--------------------------- MODULE MCOrderWorker ---------------------------
(* A small instance of OrderWorker: one order and one job, and enough      *)
(* slots for two superseded runs beside the one that holds the lock.       *)
EXTENDS OrderWorker, TLC

CONSTANTS o1, j1

OneJobId == o1 :> j1

=============================================================================
