--------------------------- MODULE MCCatalogMappings ---------------------------
(* A product linked in two stores; one more row of each table can be       *)
(* created.                                                                *)
EXTENDS CatalogMappings, TLC

Link(s, t, id, x, e) ==
  [storeId |-> s, entityType |-> t, internalEntityId |-> id, platformName |-> x,
   platformMetadata |-> [external_id |-> e, is_available |-> "unset"], isSynced |-> TRUE]

MCInitialDb ==
  [i \in Ids |->
     CASE i \in {"s1", "s2"} -> [isActive |-> TRUE]
       [] i = "c1" -> [storeId |-> "s1", isVisible |-> TRUE]
       [] i = "p1" -> [categoryId |-> "c1", isAvailable |-> TRUE]
       [] i = "m1" -> Link("s1", "PRODUCT", "p1", "GRABFOOD", "e1")
       [] i = "m2" -> Link("s2", "PRODUCT", "p1", "GRABFOOD", "e1")
       [] OTHER -> NoRow]

(* Handlers differ in nothing but the request they are in.                 *)
MCSymmetry == Permutations(Handlers)
=============================================================================
