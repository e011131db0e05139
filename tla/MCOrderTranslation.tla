--------------------------- MODULE MCOrderTranslation --------------------------
(* One store and two products; GrabFood knows the first by e1, Foodpanda  *)
(* the first by e1 and the second by e2. One payload of each kind of      *)
(* trouble: two lines, texts that are no numbers, half cents, a quantity  *)
(* below one, an unlinked id, an amount that no INT holds, no lines.      *)
EXTENDS OrderTranslation, TLC

Link(t, id, x, e) ==
  [storeId |-> "s1", entityType |-> t, internalEntityId |-> id, platformName |-> x,
   platformMetadata |-> [external_id |-> e, is_available |-> "unset"], isSynced |-> TRUE]

MCInitialDb ==
  [i \in Ids |->
     CASE i = "s1" -> [isActive |-> TRUE]
       [] i = "c1" -> [storeId |-> "s1", isVisible |-> TRUE]
       [] i \in {"p1", "p2"} -> [categoryId |-> "c1", isAvailable |-> TRUE]
       [] i = "gs" -> Link("STORE", "s1", "GRABFOOD", "e1")
       [] i = "gp" -> Link("PRODUCT", "p1", "GRABFOOD", "e1")
       [] i = "fs" -> Link("STORE", "s1", "FOODPANDA", "e1")
       [] i = "fp" -> Link("PRODUCT", "p1", "FOODPANDA", "e1")
       [] i = "fq" -> Link("PRODUCT", "p2", "FOODPANDA", "e2")
       [] OTHER -> NoRow]

Food(code, id, kind, q, p) ==
  [remoteCode |-> code, id |-> id, kind |-> kind, quantity |-> q, price |-> p]

Panda(total, lines) ==
  [platform |-> "FOODPANDA", store |-> "e1", payment |-> "PAID", total |-> total,
   lines |-> lines]

Grab(total, lines) ==
  [platform |-> "GRABFOOD", store |-> "e1", payment |-> "CASH", subtotal |-> total,
   total |-> total, lines |-> lines]

MCPayloads ==
  {Panda(70, <<Food("e1", "e2", "string", 20, 20), Food(Absent, "e2", "string", NotANumber, 30)>>),
   Panda(NotANumber, <<Food("e2", Absent, "number", 5, 25)>>),
   Panda(10, <<Food("e1", Absent, "string", 0, 999)>>),
   Panda(10, <<>>),
   Grab(5, <<[id |-> "e1", quantity |-> 2, price |-> 2], [id |-> "e2", quantity |-> 1, price |-> 1]>>),
   Grab(4, <<[id |-> "e1", quantity |-> 2, price |-> 2]>>)}

MCPrice == [p \in Products |-> IF p = "p1" THEN 2 ELSE 3]

Said(p, q) == [productId |-> p, quantity |-> q]
MCAnswers ==
  {[items |-> <<Said("p1", 15), Said("p2", Absent)>>, unresolved |-> 1],
   [items |-> <<Said("p1", NotANumber)>>, unresolved |-> 0],
   [items |-> <<Said(NoId, 10), Said("p2", -10)>>, unresolved |-> 0]}
=============================================================================
