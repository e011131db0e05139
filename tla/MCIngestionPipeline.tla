------------------------ MODULE MCIngestionPipeline ------------------------
(* A small instance of IngestionPipeline: one order, delivered repeatedly. *)
EXTENDS IngestionPipeline, TLC

CONSTANTS o1, j1

OneJobId == o1 :> j1
SlotSymmetry == Permutations(Deliveries) \cup Permutations(Runs)

=============================================================================
