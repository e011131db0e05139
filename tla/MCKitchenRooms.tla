----------------------------- MODULE MCKitchenRooms ----------------------------
(* Two instances, one display of a store with two orders, received in one *)
(* order and stored in any, and one order of another store.               *)
EXTENDS KitchenRooms, TLC

CONSTANTS a, b

MCSymmetry == Permutations(Instances)

MCStoreOf == [o \in Orders |-> IF o = "o3" THEN "s2" ELSE "s1"]
MCReceivedAt == [o \in Orders |-> CASE o = "o1" -> 1 [] o = "o2" -> 2 [] o = "o3" -> 3]
MCWants == [d \in Displays |-> "s1"]
=============================================================================
