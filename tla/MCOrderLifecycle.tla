-------------------------- MODULE MCOrderLifecycle --------------------------
(* Two status requests at a time on an order of GrabFood. *)
EXTENDS OrderLifecycle, TLC
CONSTANTS q1, q2
MCRequests == {q1, q2}
MCStatuses == {"PENDING_ACCEPTANCE", "ACCEPTED", "COMPLETED"}
RequestSymmetry == Permutations(MCRequests)
=============================================================================
