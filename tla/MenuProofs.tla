------------------------------- MODULE MenuProofs ------------------------------
(***************************************************************************)
(* OrderTranslation: a stored order has its payload's lines and amounts,   *)
(* and its products and store were linked to the ids in the payload, for   *)
(* any payload, catalog, number of requests and number of attempts. The    *)
(* argument is MenuInv, which says of each stage of an attempt what the    *)
(* stages before it have established, and that nothing the catalog does    *)
(* between two lookups takes it back. That an order adds up is carried     *)
(* from the draft to the row by SumsInv.                                   *)
(***************************************************************************)
EXTENDS OrderTranslation, SequenceTheorems, TLAPS

(* A sequence of anything.                                                 *)
IsSequence(s) == \E T : s \in Seq(T)

ItemFields == {"productId", "quantity", "unitPriceCents"}

PlatformOrder == GrabFoodOrder \cup FoodpandaOrder

(* The item has the line's amounts, as StoredMatchesPayload wants them.    *)
AmountsKept(platform, line, item) ==
  /\ platform # "FOODPANDA" =>
       item.quantity = line.quantity /\ item.unitPriceCents = line.price
  /\ platform = "FOODPANDA" /\ line.kind = "string" => item.quantity >= 1
  /\ platform = "FOODPANDA" /\ NotANumber \notin {line.quantity, line.price} /\ Regular(line) =>
       10 * item.quantity = line.quantity /\ 10 * item.unitPriceCents = line.price

(* How far an attempt is through the lines of its payload.                 *)
Progress ==
  /\ DOMAIN order = {"pc", "raw", "attempt", "store", "entity", "items"}
  /\ IsSequence(order.items)
  /\ order.pc \in {"unsent", "waiting", "store"} => order.items = <<>>
  /\ order.pc \in {"store", "line", "product"} => order.raw \in PlatformOrder
  /\ order.pc \in {"persist", "stored"} => order.raw \in PlatformOrder \cup FbChatbotOrder
  /\ order.pc \in {"line", "product"} => Len(order.items) < Len(order.raw.lines)
  /\ order.pc \in {"persist", "stored"} => Len(order.items) = Len(order.raw.lines)

Translating == order.pc \in {"line", "product", "persist", "stored"}

(* The items so far have the amounts of their lines.                       *)
ItemsKeepAmounts ==
  Translating =>
    \A n \in 1 .. Len(order.items) :
      /\ DOMAIN order.items[n] = ItemFields
      /\ AmountsKept(order.raw.platform, order.raw.lines[n], order.items[n])

(* The store and the products so far were linked when they were looked up. *)
LookupsWereLinked ==
  /\ LinkedNow(db) \subseteq linked
  /\ Translating /\ order.raw.platform # "FB_CHATBOT" =>
       /\ <<"STORE", order.raw.platform, order.raw.store, order.store>> \in linked
       /\ \A n \in 1 .. Len(order.items) :
            <<"PRODUCT", order.raw.platform, mappingKey(order.raw.lines[n]),
              order.items[n].productId>> \in linked
  /\ order.pc = "product" =>
       <<"PRODUCT", order.raw.platform, mappingKey(Line), order.entity>> \in linked

(* The stored order is that of the attempt, but for products removed since.*)
RowIsOfAttempt ==
  row # NoRow =>
    /\ order.pc = "stored"
    /\ "items" \in DOMAIN row /\ row.storeId = order.store
    /\ DOMAIN row.items = 1 .. Len(order.items) /\ IsSequence(row.items)
    /\ \A n \in 1 .. Len(order.items) :
         /\ DOMAIN row.items[n] = ItemFields
         /\ row.items[n].productId \in {NoId, order.items[n].productId}
         /\ row.items[n].quantity = order.items[n].quantity
         /\ row.items[n].unitPriceCents = order.items[n].unitPriceCents

MenuInv == Progress /\ ItemsKeepAmounts /\ LookupsWereLinked /\ RowIsOfAttempt

-----------------------------------------------------------------------------

(* Sequences, without their elements' set.                                 *)
LEMMA SequenceLen ==
  ASSUME NEW s, IsSequence(s)
  PROVE  Len(s) \in Nat /\ DOMAIN s = 1 .. Len(s)
BY LenProperties DEF IsSequence

LEMMA SequenceAppend ==
  ASSUME NEW s, IsSequence(s), NEW e
  PROVE  /\ IsSequence(Append(s, e)) /\ Len(Append(s, e)) = Len(s) + 1
         /\ \A n \in 1 .. Len(s) : Append(s, e)[n] = s[n]
         /\ Append(s, e)[Len(s) + 1] = e
<1>1. PICK T : s \in Seq(T)
  BY DEF IsSequence
<1>2. s \in Seq(T \cup {e}) /\ e \in T \cup {e}
  BY <1>1, SeqMonotonic
<1> QED
  BY <1>2, AppendProperties DEF IsSequence

LEMMA FunctionIsSequence ==
  ASSUME NEW k \in Nat, NEW s, s = [n \in 1 .. k |-> s[n]]
  PROVE  IsSequence(s) /\ Len(s) = k
<1> DEFINE T == {s[n] : n \in 1 .. k}
<1>1. s \in [1 .. k -> T]
  OBVIOUS
<1>2. s \in Seq(T)
  BY <1>1, SeqDef
<1>3. DOMAIN s = 1 .. k /\ Len(s) \in Nat /\ DOMAIN s = 1 .. Len(s)
  BY <1>1, <1>2, LenProperties
<1> HIDE DEF T
<1>4. \A m \in Nat : 1 .. k = 1 .. m => m <= k
  <2> SUFFICES ASSUME NEW m \in Nat, 1 .. k = 1 .. m, m # 0 PROVE m <= k
    OBVIOUS
  <2>1. m \in 1 .. m
    OBVIOUS
  <2> QED
    BY <2>1
<1>5. Len(s) <= k
  BY <1>3, <1>4
<1>6. k <= Len(s)
  <2>1. CASE k = 0
    BY <1>3, <2>1
  <2>2. CASE k # 0
    <3>1. k \in 1 .. k
      BY <2>2
    <3>2. k \in 1 .. Len(s)
      BY <1>3, <3>1
    <3> QED
      BY <3>2
  <2> QED
    BY <2>1, <2>2
<1>7. IsSequence(s)
  BY <1>2 DEF IsSequence
<1> QED
  BY <1>3, <1>5, <1>6, <1>7

(* The lines of a payload.                                                 *)
LEMMA PayloadLines ==
  ASSUME NEW raw \in PlatformOrder \cup FbChatbotOrder
  PROVE  /\ IsSequence(raw.lines) /\ Len(raw.lines) \in Nat \ {0}
         /\ DOMAIN raw.lines = 1 .. Len(raw.lines)
         /\ raw \in GrabFoodOrder => raw.platform = "GRABFOOD"
         /\ raw \in FoodpandaOrder => raw.platform = "FOODPANDA"
         /\ raw \in FbChatbotOrder => raw.platform = "FB_CHATBOT"
<1>1. IsSequence(raw.lines) /\ raw.lines # <<>>
  BY DEF PlatformOrder, GrabFoodOrder, FoodpandaOrder, FbChatbotOrder, IsSequence
<1>2. Len(raw.lines) \in Nat /\ DOMAIN raw.lines = 1 .. Len(raw.lines)
  BY <1>1, SequenceLen
<1>3. Len(raw.lines) # 0
  BY <1>1, EmptySeq DEF IsSequence
<1> QED
  BY <1>1, <1>2, <1>3 DEF PlatformOrder, GrabFoodOrder, FoodpandaOrder, FbChatbotOrder

(* What Foodpanda's texts become.                                          *)
LEMMA ConversionKeepsAmounts ==
  ASSUME NEW line, line.kind \in {"string", "number"},
         line.quantity \in Int \cup {NotANumber}, line.price \in Int \cup {NotANumber},
         NEW cents \in toCents(line.price), NEW item,
         item.quantity = toQuantity(line.kind, line.quantity), item.unitPriceCents = cents
  PROVE  AmountsKept("FOODPANDA", line, item)
<1>1. line.kind = "string" => item.quantity >= 1
  BY DEF toQuantity
<1>2. ASSUME NotANumber \notin {line.quantity, line.price}, Regular(line)
      PROVE  10 * item.quantity = line.quantity
  <2>1. PICK k \in 1 .. IntMax : line.quantity = 10 * k
    BY <1>2 DEF Regular
  <2>2. k \in Int /\ k >= 1
    BY <2>1, MenuAssumption
  <2>3. toQuantity(line.kind, line.quantity) = line.quantity \div 10
    BY <1>2, <2>1, <2>2 DEF toQuantity
  <2> QED
    BY <2>1, <2>2, <2>3
<1>3. ASSUME NotANumber \notin {line.quantity, line.price}, Regular(line)
      PROVE  10 * item.unitPriceCents = line.price
  <2>1. line.price \in Int /\ line.price % 10 = 0
    BY <1>3 DEF Regular
  <2>2. cents \in {(line.price + 5) \div 10, (line.price + 4) \div 10}
    BY <1>3 DEF toCents
  <2> QED
    BY <2>1, <2>2
<1> QED
  BY <1>1, <1>2, <1>3 DEF AmountsKept

(* A canonical item has its line's amounts and the product it was given.   *)
LEMMA CanonicalItemsKeepAmounts ==
  ASSUME order.raw \in PlatformOrder, NEW n \in 1 .. Len(order.raw.lines), NEW product,
         NEW item \in CanonicalItems(order.raw.lines[n], product)
  PROVE  /\ DOMAIN item = ItemFields /\ item.productId = product
         /\ AmountsKept(order.raw.platform, order.raw.lines[n], item)
<1> DEFINE line == order.raw.lines[n]
<1>1. CASE order.raw \in GrabFoodOrder
  <2>1. order.raw.platform = "GRABFOOD"
    BY <1>1 DEF GrabFoodOrder
  <2> QED
    BY <2>1 DEF CanonicalItems, AmountsKept, ItemFields
<1>2. CASE order.raw \in FoodpandaOrder
  <2>1. order.raw.platform = "FOODPANDA"
    BY <1>2 DEF FoodpandaOrder
  <2> DEFINE FoodpandaLine ==
               [remoteCode: ExternalIds \cup {Absent}, id: ExternalIds \cup {Absent},
                kind: {"string", "number"}, quantity: Int \cup {NotANumber},
                price: Int \cup {NotANumber}]
  <2>a. order.raw.lines \in Seq(FoodpandaLine)
    BY <1>2 DEF FoodpandaOrder
  <2> HIDE DEF FoodpandaLine
  <2>b. line \in FoodpandaLine
    BY <2>a, ElementOfSeq
  <2>2. /\ line.kind \in {"string", "number"}
        /\ line.quantity \in Int \cup {NotANumber} /\ line.price \in Int \cup {NotANumber}
    BY <2>b DEF FoodpandaLine
  <2>3. PICK cents \in toCents(line.price) :
          item = [productId |-> product, quantity |-> toQuantity(line.kind, line.quantity),
                  unitPriceCents |-> cents]
    BY <2>1 DEF CanonicalItems
  <2>4. /\ item.quantity = toQuantity(line.kind, line.quantity) /\ item.unitPriceCents = cents
        /\ item.productId = product /\ DOMAIN item = ItemFields
    BY <2>3 DEF ItemFields
  <2> HIDE DEF line
  <2>5. AmountsKept("FOODPANDA", line, item)
    BY <2>2, <2>4, ConversionKeepsAmounts
  <2> QED
    BY <2>1, <2>4, <2>5 DEF line
<1> QED
  BY <1>1, <1>2 DEF PlatformOrder

(* A link that is there now is in the history.                             *)
LEMMA ResolvedIsLinked ==
  ASSUME LookupsWereLinked, NEW type, NEW platform, NEW id,
         NEW e \in Resolvable(type, platform, id)
  PROVE  <<type, platform, id, e>> \in linked
BY DEF LookupsWereLinked, LinkedNow, Resolvable, Mapped

-----------------------------------------------------------------------------
(* The stages of an attempt.                                               *)

LEMMA MenuInitInv == MenuInit => MenuInv
<1> SUFFICES ASSUME MenuInit PROVE MenuInv
  OBVIOUS
<1>1. IsSequence(<<>>)
  BY EmptySeq DEF IsSequence
<1> QED
  BY <1>1 DEF MenuInit, CatalogInit, MenuInv, Progress, ItemsKeepAmounts, LookupsWereLinked,
              RowIsOfAttempt, Translating

LEMMA ReceiveOrderKeepsInv ==
  ASSUME MenuInv, ReceiveOrder, UNCHANGED <<db, linked>>
  PROVE  MenuInv'
<1>1. /\ order.pc = "unsent" /\ order'.pc = "waiting" /\ order'.items = order.items /\ row' = row
      /\ DOMAIN order' = DOMAIN order
  BY DEF ReceiveOrder, MenuInv, Progress
<1> QED
  BY <1>1 DEF MenuInv, Progress, ItemsKeepAmounts, LookupsWereLinked, RowIsOfAttempt, Translating

LEMMA AttemptFailsKeepsInv ==
  ASSUME MenuInv, AttemptFails, order.pc # "stored", UNCHANGED <<db, linked>>
  PROVE  MenuInv'
<1>1. /\ row' = row /\ DOMAIN order' = DOMAIN order
      /\ \/ order'.pc = "waiting" /\ order'.items = <<>>
         \/ order'.pc = "failed" /\ order'.items = order.items
  BY DEF AttemptFails, MenuInv, Progress
<1>2. IsSequence(<<>>)
  BY EmptySeq DEF IsSequence
<1> QED
  BY <1>1, <1>2 DEF MenuInv, Progress, ItemsKeepAmounts, LookupsWereLinked, RowIsOfAttempt,
                    Translating

LEMMA ParsePayloadKeepsInv ==
  ASSUME MenuInv, ParsePayload, UNCHANGED <<db, linked>>
  PROVE  MenuInv'
<1>1. order.pc = "waiting"
  BY DEF ParsePayload
<1>2. CASE AttemptFails
  BY <1>1, <1>2, AttemptFailsKeepsInv
<1>3. CASE order.raw \in PlatformOrder /\ order' = [order EXCEPT !.pc = "store"] /\ row' = row
  <2>1. order'.pc = "store" /\ order'.items = order.items /\ order'.raw = order.raw
        /\ DOMAIN order' = DOMAIN order
    BY <1>3 DEF MenuInv, Progress
  <2> QED
    BY <1>1, <1>3, <2>1
       DEF MenuInv, Progress, ItemsKeepAmounts, LookupsWereLinked, RowIsOfAttempt, Translating
<1>4. ASSUME order.raw \in FbChatbotOrder, row' = row,
             order' = [order EXCEPT !.pc = "persist", !.store = order.raw.store,
                                    !.items = ChatItems(order.raw)]
      PROVE  MenuInv'
  <2>1. /\ order'.pc = "persist" /\ order'.items = ChatItems(order.raw) /\ order'.raw = order.raw
        /\ DOMAIN order' = DOMAIN order
    BY <1>4 DEF MenuInv, Progress
  <2>2. /\ Len(order.raw.lines) \in Nat /\ DOMAIN order.raw.lines = 1 .. Len(order.raw.lines)
        /\ order.raw.platform = "FB_CHATBOT"
    BY <1>4, PayloadLines
  <2>3. ChatItems(order.raw) =
          [n \in 1 .. Len(order.raw.lines) |-> ChatItems(order.raw)[n]]
    BY <2>2 DEF ChatItems
  <2>4. IsSequence(ChatItems(order.raw)) /\ Len(ChatItems(order.raw)) = Len(order.raw.lines)
    BY <2>2, <2>3, FunctionIsSequence
  <2>5. \A n \in 1 .. Len(order.raw.lines) :
          /\ DOMAIN ChatItems(order.raw)[n] = ItemFields
          /\ AmountsKept("FB_CHATBOT", order.raw.lines[n], ChatItems(order.raw)[n])
    BY <2>2 DEF ChatItems, ItemFields, AmountsKept
  <2>6. Progress' /\ ItemsKeepAmounts'
    BY <1>4, <2>1, <2>2, <2>4, <2>5 DEF MenuInv, Progress, ItemsKeepAmounts, Translating
  <2>7. LookupsWereLinked' /\ RowIsOfAttempt'
    BY <1>1, <1>4, <2>1, <2>2 DEF MenuInv, LookupsWereLinked, RowIsOfAttempt
  <2> QED
    BY <2>6, <2>7 DEF MenuInv
<1> QED
  BY <1>2, <1>3, <1>4 DEF ParsePayload, PlatformOrder

LEMMA ResolveStoreKeepsInv ==
  ASSUME MenuInv, resolveStoreId, UNCHANGED <<db, linked>>
  PROVE  MenuInv'
<1>1. order.pc = "store" /\ order.items = <<>> /\ order.raw \in PlatformOrder
  BY DEF resolveStoreId, MenuInv, Progress
<1>2. CASE AttemptFails
  BY <1>1, <1>2, AttemptFailsKeepsInv
<1>3. ASSUME NEW s \in Resolvable("STORE", order.raw.platform, order.raw.store), row' = row,
             order' = [order EXCEPT !.pc = "line", !.store = s]
      PROVE  MenuInv'
  <2>1. /\ order'.pc = "line" /\ order'.store = s /\ order'.raw = order.raw
        /\ order'.items = <<>> /\ DOMAIN order' = DOMAIN order
    BY <1>1, <1>3 DEF MenuInv, Progress
  <2>2. <<"STORE", order.raw.platform, order.raw.store, s>> \in linked
    BY <1>3, ResolvedIsLinked DEF MenuInv
  <2>3. Len(order.raw.lines) \in Nat \ {0} /\ Len(<<>>) = 0
    BY <1>1, PayloadLines, EmptySeq
  <2>4. Progress' /\ ItemsKeepAmounts'
    BY <1>1, <2>1, <2>3 DEF MenuInv, Progress, ItemsKeepAmounts
  <2>5. LookupsWereLinked' /\ RowIsOfAttempt'
    BY <1>1, <1>3, <2>1, <2>2, <2>3 DEF MenuInv, LookupsWereLinked, RowIsOfAttempt
  <2> QED
    BY <2>4, <2>5 DEF MenuInv
<1> QED
  BY <1>2, <1>3 DEF resolveStoreId

LEMMA ResolveInternalKeepsInv ==
  ASSUME MenuInv, resolveInternalId, UNCHANGED <<db, linked>>
  PROVE  MenuInv'
<1>1. order.pc = "line"
  BY DEF resolveInternalId
<1>2. CASE AttemptFails
  BY <1>1, <1>2, AttemptFailsKeepsInv
<1>3. ASSUME NEW e \in Resolvable("PRODUCT", order.raw.platform, mappingKey(Line)), row' = row,
             order' = [order EXCEPT !.pc = "product", !.entity = e]
      PROVE  MenuInv'
  <2>1. /\ order'.pc = "product" /\ order'.entity = e /\ order'.raw = order.raw
        /\ order'.items = order.items /\ order'.store = order.store /\ DOMAIN order' = DOMAIN order
    BY <1>3 DEF MenuInv, Progress
  <2>2. <<"PRODUCT", order.raw.platform, mappingKey(Line), e>> \in linked
    BY <1>3, ResolvedIsLinked DEF MenuInv
  <2>3. Line' = Line
    BY <2>1 DEF Line
  <2>4. Progress' /\ ItemsKeepAmounts'
    BY <1>1, <2>1 DEF MenuInv, Progress, ItemsKeepAmounts, Translating
  <2>5. LookupsWereLinked' /\ RowIsOfAttempt'
    BY <1>1, <1>3, <2>1, <2>2, <2>3
       DEF MenuInv, LookupsWereLinked, RowIsOfAttempt, Translating
  <2> QED
    BY <2>4, <2>5 DEF MenuInv
<1> QED
  BY <1>2, <1>3 DEF resolveInternalId

LEMMA ResolveProductKeepsInv ==
  ASSUME MenuInv, resolveProduct, UNCHANGED <<db, linked>>
  PROVE  MenuInv'
<1>1. order.pc = "product" /\ order.raw \in PlatformOrder
  BY DEF resolveProduct, MenuInv, Progress
<1>2. CASE AttemptFails
  BY <1>1, <1>2, AttemptFailsKeepsInv
<1> DEFINE k == Len(order.items) + 1
<1>3. ASSUME NEW item \in CanonicalItems(Line, order.entity), row' = row,
             order' = [order EXCEPT
               !.items = Append(@, item),
               !.pc = IF Len(order.items) + 1 = Len(order.raw.lines) THEN "persist" ELSE "line"]
      PROVE  MenuInv'
  <2>1. /\ order'.pc = IF k = Len(order.raw.lines) THEN "persist" ELSE "line"
        /\ order'.items = Append(order.items, item)
        /\ order'.raw = order.raw /\ order'.store = order.store /\ DOMAIN order' = DOMAIN order
    BY <1>3 DEF MenuInv, Progress
  <2>2. /\ Len(order.items) \in Nat /\ Len(order.raw.lines) \in Nat
        /\ Len(order.items) < Len(order.raw.lines)
    BY <1>1, PayloadLines, SequenceLen DEF MenuInv, Progress
  <2>3. /\ IsSequence(Append(order.items, item)) /\ Len(Append(order.items, item)) = k
        /\ \A n \in 1 .. Len(order.items) : Append(order.items, item)[n] = order.items[n]
        /\ Append(order.items, item)[k] = item
    BY SequenceAppend DEF MenuInv, Progress
  <2>4. k \in 1 .. Len(order.raw.lines) /\ Line = order.raw.lines[k]
    BY <2>2 DEF Line
  <2>5. /\ DOMAIN item = ItemFields /\ item.productId = order.entity
        /\ AmountsKept(order.raw.platform, order.raw.lines[k], item)
    BY <1>1, <1>3, <2>4, CanonicalItemsKeepAmounts
  <2>6. \A n \in 1 .. k : n = k \/ n \in 1 .. Len(order.items)
    BY <2>2
  <2>7. Progress'
    BY <1>1, <2>1, <2>2, <2>3 DEF MenuInv, Progress
  <2> HIDE DEF k
  <2>8. ItemsKeepAmounts'
    BY <1>1, <2>1, <2>3, <2>5, <2>6 DEF MenuInv, ItemsKeepAmounts, Translating
  <2>9. LookupsWereLinked'
    BY <1>1, <2>1, <2>3, <2>4, <2>5, <2>6 DEF MenuInv, LookupsWereLinked, Translating
  <2>10. RowIsOfAttempt'
    BY <1>1, <1>3 DEF MenuInv, RowIsOfAttempt
  <2> QED
    BY <2>7, <2>8, <2>9, <2>10 DEF MenuInv
<1> QED
  BY <1>2, <1>3 DEF resolveProduct

LEMMA PersistKeepsInv ==
  ASSUME MenuInv, persist, UNCHANGED <<db, linked>>
  PROVE  MenuInv'
<1>1. order.pc = "persist"
  BY DEF persist
<1>2. CASE AttemptFails
  BY <1>1, <1>2, AttemptFailsKeepsInv
<1>3. ASSUME NEW total,
             row' = [storeId |-> order.store, paymentMethod |-> PaymentMethod(order.raw),
                     subtotalCents |-> Subtotal, grandTotalCents |-> total, items |-> order.items],
             order' = [order EXCEPT !.pc = "stored"]
      PROVE  MenuInv'
  <2>1. /\ order'.pc = "stored" /\ order'.raw = order.raw /\ order'.items = order.items
        /\ order'.store = order.store /\ DOMAIN order' = DOMAIN order
    BY <1>3 DEF MenuInv, Progress
  <2>2. row'.storeId = order.store /\ row'.items = order.items /\ "items" \in DOMAIN row'
    BY <1>3
  <2>3. IsSequence(order.items) /\ DOMAIN order.items = 1 .. Len(order.items)
    BY SequenceLen DEF MenuInv, Progress
  <2>4. Progress' /\ ItemsKeepAmounts' /\ LookupsWereLinked'
    BY <1>1, <2>1 DEF MenuInv, Progress, ItemsKeepAmounts, LookupsWereLinked, Translating
  <2>5. \A n \in 1 .. Len(order.items) : DOMAIN order.items[n] = ItemFields
    BY <1>1 DEF MenuInv, ItemsKeepAmounts, Translating
  <2>6. RowIsOfAttempt'
    BY <2>1, <2>2, <2>3, <2>5 DEF RowIsOfAttempt
  <2> QED
    BY <2>4, <2>6 DEF MenuInv
<1> QED
  BY <1>2, <1>3 DEF persist

(* The catalog changes: links are remembered, and a stored item may lose   *)
(* its product.                                                            *)
LEMMA CatalogKeepsInv ==
  ASSUME MenuInv, UNCHANGED order, row' = ItemsAfter(db'), linked' = linked \cup LinkedNow(db')
  PROVE  MenuInv'
<1>1. Progress' /\ ItemsKeepAmounts'
  BY DEF MenuInv, Progress, ItemsKeepAmounts, Translating
<1>2. LinkedNow(db)' \subseteq linked'
  BY DEF LinkedNow
<1>3. LookupsWereLinked'
  BY <1>2 DEF MenuInv, LookupsWereLinked, Translating, Line
<1>4. ASSUME row' # NoRow PROVE RowIsOfAttempt'
  <2>1. /\ row # NoRow
        /\ row' = [row EXCEPT !.items =
             [n \in DOMAIN @ |->
                IF @[n].productId # NoId /\ db'[@[n].productId] = NoRow
                THEN [@[n] EXCEPT !.productId = NoId] ELSE @[n]]]
    BY <1>4 DEF ItemsAfter
  <2>2. /\ order.pc = "stored" /\ "items" \in DOMAIN row /\ row.storeId = order.store
        /\ DOMAIN row.items = 1 .. Len(order.items)
    BY <2>1 DEF MenuInv, RowIsOfAttempt
  <2>3. /\ "items" \in DOMAIN row' /\ row'.storeId = order.store
        /\ row'.items = [n \in 1 .. Len(order.items) |->
              IF row.items[n].productId # NoId /\ db'[row.items[n].productId] = NoRow
              THEN [row.items[n] EXCEPT !.productId = NoId] ELSE row.items[n]]
    BY <2>1, <2>2
  <2>4. Len(order.items) \in Nat
    BY SequenceLen DEF MenuInv, Progress
  <2>5. IsSequence(row'.items)
    BY <2>3, <2>4, FunctionIsSequence
  <2>6. ASSUME NEW n \in 1 .. Len(order.items)
        PROVE  /\ DOMAIN row'.items[n] = ItemFields
               /\ row'.items[n].productId \in {NoId, order.items[n].productId}
               /\ row'.items[n].quantity = order.items[n].quantity
               /\ row'.items[n].unitPriceCents = order.items[n].unitPriceCents
    <3>1. /\ DOMAIN row.items[n] = ItemFields
          /\ row.items[n].productId \in {NoId, order.items[n].productId}
          /\ row.items[n].quantity = order.items[n].quantity
          /\ row.items[n].unitPriceCents = order.items[n].unitPriceCents
      BY <2>1 DEF MenuInv, RowIsOfAttempt
    <3>2. \/ row'.items[n] = row.items[n]
          \/ row'.items[n] = [row.items[n] EXCEPT !.productId = NoId]
      BY <2>3
    <3> QED
      BY <3>1, <3>2 DEF ItemFields
  <2> QED
    BY <2>2, <2>3, <2>5, <2>6 DEF RowIsOfAttempt
<1>5. RowIsOfAttempt'
  BY <1>4 DEF RowIsOfAttempt
<1> QED
  BY <1>1, <1>3, <1>5 DEF MenuInv

LEMMA MenuInvStep == MenuInv /\ [MenuNext]_menuVars => MenuInv'
<1> SUFFICES ASSUME MenuInv, [MenuNext]_menuVars PROVE MenuInv'
  OBVIOUS
<1>1. CASE OrderStep /\ UNCHANGED <<catalogVars, linked>>
  BY <1>1, ReceiveOrderKeepsInv, ParsePayloadKeepsInv, ResolveStoreKeepsInv,
     ResolveInternalKeepsInv, ResolveProductKeepsInv, PersistKeepsInv DEF OrderStep, catalogVars
<1>2. CASE UNCHANGED <<db, order, row, linked>>
  BY <1>2 DEF MenuInv, Progress, ItemsKeepAmounts, LookupsWereLinked, RowIsOfAttempt,
              Translating, Line
<1>3. CASE /\ CatalogNext /\ row' = ItemsAfter(db') /\ linked' = linked \cup LinkedNow(db')
           /\ UNCHANGED <<chat, order>>
  BY <1>3, CatalogKeepsInv
<1> QED
  BY <1>1, <1>2, <1>3 DEF MenuNext, menuVars, catalogVars

LEMMA MenuInvAlways == MenuSpec => []MenuInv
  BY MenuInitInv, MenuInvStep, PTL DEF MenuSpec

-----------------------------------------------------------------------------

(* The lengths of the stored items.                                        *)
LEMMA RowLength ==
  ASSUME MenuInv, row # NoRow
  PROVE  /\ Len(row.items) = Len(order.raw.lines)
         /\ DOMAIN row.items = 1 .. Len(order.items)
<1>1. /\ DOMAIN row.items = 1 .. Len(order.items) /\ IsSequence(row.items)
      /\ Len(order.items) = Len(order.raw.lines) /\ IsSequence(order.items)
  BY DEF MenuInv, RowIsOfAttempt, Progress
<1>2. /\ Len(row.items) \in Nat /\ Len(order.items) \in Nat
      /\ DOMAIN row.items = 1 .. Len(row.items)
  BY <1>1, SequenceLen
<1> QED
  BY <1>1, <1>2

(* However often an attempt failed half way, and whatever changed in the   *)
(* catalog then or later, a stored order has one item for every line of its*)
(* payload, in order: with the line's amounts for GrabFood and the chat,   *)
(* and for Foodpanda where quantity and price are regular, and at least one*)
(* of what a text ordered (the translators, and                            *)
(* OrderPersistenceService.persist).                                       *)
THEOREM OrdersAreStoredAsSent == MenuSpec => []StoredMatchesPayload
<1>1. MenuInv => StoredMatchesPayload
  <2> SUFFICES ASSUME MenuInv, row # NoRow
               PROVE  /\ Len(row.items) = Len(order.raw.lines)
                      /\ \A n \in DOMAIN row.items :
                           AmountsKept(order.raw.platform, order.raw.lines[n], row.items[n])
    BY DEF StoredMatchesPayload, AmountsKept
  <2>1. \A n \in 1 .. Len(order.items) :
          /\ AmountsKept(order.raw.platform, order.raw.lines[n], order.items[n])
          /\ row.items[n].quantity = order.items[n].quantity
          /\ row.items[n].unitPriceCents = order.items[n].unitPriceCents
    BY DEF MenuInv, RowIsOfAttempt, ItemsKeepAmounts, Translating
  <2> QED
    BY <2>1, RowLength DEF AmountsKept
<1> QED
  BY <1>1, MenuInvAlways, PTL

(* No lookup mixes types, platforms or lines: what a stored platform order *)
(* refers to was linked, on its platform, to the ids in its payload        *)
(* (PlatformMappingService.resolveInternalId).                             *)
THEOREM StoredItemsWereLinked == MenuSpec => []EachItemWasLinked
<1>1. MenuInv => EachItemWasLinked
  <2> SUFFICES ASSUME MenuInv, row # NoRow, order.raw.platform # "FB_CHATBOT"
               PROVE  /\ <<"STORE", order.raw.platform, order.raw.store, row.storeId>> \in linked
                      /\ \A n \in DOMAIN row.items :
                           row.items[n].productId # NoId =>
                             <<"PRODUCT", order.raw.platform, mappingKey(order.raw.lines[n]),
                               row.items[n].productId>> \in linked
    BY DEF EachItemWasLinked
  <2>1. order.pc = "stored" /\ row.storeId = order.store
    BY DEF MenuInv, RowIsOfAttempt
  <2>2. \A n \in 1 .. Len(order.items) : row.items[n].productId \in {NoId, order.items[n].productId}
    BY DEF MenuInv, RowIsOfAttempt
  <2> QED
    BY <2>1, <2>2, RowLength DEF MenuInv, LookupsWereLinked, Translating
<1> QED
  BY <1>1, MenuInvAlways, PTL

-----------------------------------------------------------------------------
(* The type invariant. What it says of a stored order's items is part of   *)
(* RowIsOfAttempt.                                                         *)

(* Nothing is both absent and a row with items.                            *)
LEMMA RowsHaveItems ==
  ASSUME NEW r, "items" \in DOMAIN r
  PROVE  r # NoRow
BY DEF NoRow

LEMMA MenuTypeInit == MenuInit => MenuTypeOK
BY MenuAssumption DEF MenuInit, MenuTypeOK

(* A step of the order that leaves the row alone.                          *)
LEMMA StageKeepsType ==
  ASSUME MenuTypeOK, MenuInv', UNCHANGED <<db, row>>,
         order.pc # "stored", order'.pc # "stored", order'.attempt \in 1 .. MaxAttempts,
         order'.pc \in {"unsent", "waiting", "store", "line", "product", "persist", "failed"}
  PROVE  MenuTypeOK'
<1>1. row = NoRow
  BY DEF MenuTypeOK
<1>2. order'.pc \in {"line", "product"} => Len(order'.items) < Len(order'.raw.lines)
  BY DEF MenuInv, Progress
<1> QED
  BY <1>1, <1>2 DEF MenuTypeOK

LEMMA AttemptFailsKeepsType ==
  ASSUME MenuTypeOK, MenuInv, MenuInv', AttemptFails, order.pc # "stored", UNCHANGED db
  PROVE  MenuTypeOK'
<1>1. /\ row' = row
      /\ \/ /\ order.attempt < MaxAttempts
            /\ order'.pc = "waiting" /\ order'.attempt = order.attempt + 1
         \/ order'.pc = "failed" /\ order'.attempt = order.attempt
  BY DEF AttemptFails, MenuInv, Progress
<1>2. order'.attempt \in 1 .. MaxAttempts
  BY <1>1, MenuAssumption DEF MenuTypeOK
<1> QED
  BY <1>1, <1>2, StageKeepsType

LEMMA OrderStepKeepsType ==
  ASSUME MenuTypeOK, MenuInv, MenuInv', OrderStep, UNCHANGED db
  PROVE  MenuTypeOK'
<1>1. DOMAIN order = {"pc", "raw", "attempt", "store", "entity", "items"}
      /\ order.attempt \in 1 .. MaxAttempts
  BY DEF MenuInv, Progress, MenuTypeOK
<1>2. CASE AttemptFails /\ order.pc # "stored"
  BY <1>2, AttemptFailsKeepsType
<1>3. CASE ReceiveOrder
  <2>1. /\ order.pc = "unsent" /\ order'.pc = "waiting" /\ order'.attempt = order.attempt
        /\ row' = row
    BY <1>1, <1>3 DEF ReceiveOrder
  <2> QED
    BY <1>1, <2>1, StageKeepsType
<1>4. CASE ParsePayload
  <2>1. CASE AttemptFails
    BY <1>2, <1>4, <2>1 DEF ParsePayload
  <2>2. CASE ~AttemptFails
    <3>1. /\ order.pc = "waiting" /\ order'.pc \in {"store", "persist"} /\ row' = row
          /\ order'.attempt = order.attempt
      BY <1>1, <1>4, <2>2 DEF ParsePayload
    <3> QED
      BY <1>1, <3>1, StageKeepsType
  <2> QED
    BY <2>1, <2>2
<1>5. CASE resolveStoreId
  <2>1. CASE AttemptFails
    BY <1>2, <1>5, <2>1 DEF resolveStoreId
  <2>2. CASE ~AttemptFails
    <3>1. /\ order.pc = "store" /\ order'.pc = "line" /\ row' = row
          /\ order'.attempt = order.attempt
      BY <1>1, <1>5, <2>2 DEF resolveStoreId
    <3> QED
      BY <1>1, <3>1, StageKeepsType
  <2> QED
    BY <2>1, <2>2
<1>6. CASE resolveInternalId
  <2>1. CASE AttemptFails
    BY <1>2, <1>6, <2>1 DEF resolveInternalId
  <2>2. CASE ~AttemptFails
    <3>1. /\ order.pc = "line" /\ order'.pc = "product" /\ row' = row
          /\ order'.attempt = order.attempt
      BY <1>1, <1>6, <2>2 DEF resolveInternalId
    <3> QED
      BY <1>1, <3>1, StageKeepsType
  <2> QED
    BY <2>1, <2>2
<1>7. CASE resolveProduct
  <2>1. CASE AttemptFails
    BY <1>2, <1>7, <2>1 DEF resolveProduct
  <2>2. CASE ~AttemptFails
    <3>1. /\ order.pc = "product" /\ order'.pc \in {"persist", "line"} /\ row' = row
          /\ order'.attempt = order.attempt
      BY <1>1, <1>7, <2>2 DEF resolveProduct
    <3> QED
      BY <1>1, <3>1, StageKeepsType
  <2> QED
    BY <2>1, <2>2
<1>8. CASE persist
  <2>1. CASE AttemptFails
    BY <1>2, <1>8, <2>1 DEF persist
  <2>2. CASE ~AttemptFails
    <3>1. PICK total :
            /\ row' = [storeId |-> order.store, paymentMethod |-> PaymentMethod(order.raw),
                       subtotalCents |-> Subtotal, grandTotalCents |-> total,
                       items |-> order.items]
            /\ Insertable(row') /\ order' = [order EXCEPT !.pc = "stored"]
      BY <1>8, <2>2 DEF persist
    <3>2. row'.items = order.items /\ "items" \in DOMAIN row'
      BY <3>1
    <3>3. row' # NoRow
      BY <3>2, RowsHaveItems
    <3>4. \A n \in DOMAIN row'.items :
            row'.items[n].productId \in {NoId, order'.items[n].productId}
      BY <3>3 DEF MenuInv, RowIsOfAttempt
    <3>5. order'.pc = "stored" /\ order'.attempt = order.attempt
      BY <1>1, <3>1
    <3> QED
      BY <1>1, <3>3, <3>4, <3>5 DEF MenuTypeOK
  <2> QED
    BY <2>1, <2>2
<1> QED
  BY <1>3, <1>4, <1>5, <1>6, <1>7, <1>8 DEF OrderStep

(* ON DELETE SET NULL.                                                     *)
LEMMA CatalogKeepsType ==
  ASSUME MenuTypeOK, MenuInv, MenuInv', UNCHANGED order, row' = ItemsAfter(db')
  PROVE  MenuTypeOK'
<1>1. CASE row = NoRow
  <2>1. row' = NoRow
    BY <1>1 DEF ItemsAfter
  <2> QED
    BY <1>1, <2>1 DEF MenuTypeOK
<1>2. CASE row # NoRow
  <2>1. "items" \in DOMAIN row
    BY <1>2 DEF MenuInv, RowIsOfAttempt
  <2>2. "items" \in DOMAIN row'
    BY <1>2, <2>1 DEF ItemsAfter
  <2>3. row' # NoRow
    BY <2>2, RowsHaveItems
  <2>4. \A n \in DOMAIN row'.items :
          row'.items[n].productId \in {NoId, order'.items[n].productId}
    BY <2>3 DEF MenuInv, RowIsOfAttempt
  <2> QED
    BY <1>2, <2>3, <2>4 DEF MenuTypeOK
<1> QED
  BY <1>1, <1>2

LEMMA MenuTypeStep ==
  MenuTypeOK /\ MenuInv /\ MenuInv' /\ [MenuNext]_menuVars => MenuTypeOK'
<1> SUFFICES ASSUME MenuTypeOK, MenuInv, MenuInv', [MenuNext]_menuVars PROVE MenuTypeOK'
  OBVIOUS
<1>1. CASE OrderStep /\ UNCHANGED <<catalogVars, linked>>
  BY <1>1, OrderStepKeepsType DEF catalogVars
<1>2. CASE UNCHANGED <<db, order, row>>
  BY <1>2 DEF MenuTypeOK
<1>3. CASE CatalogNext /\ row' = ItemsAfter(db') /\ UNCHANGED <<chat, order>>
  BY <1>3, CatalogKeepsType
<1> QED
  BY <1>1, <1>2, <1>3 DEF MenuNext, menuVars, catalogVars

(* The state is well formed: an order is stored exactly when its attempt   *)
(* says so, and a stored item never turns into another product's, whatever *)
(* is removed (OrderPersistenceService.persist, OrderItem.productId).      *)
THEOREM MenuTypeCorrect == MenuSpec => []MenuTypeOK
  BY MenuTypeInit, MenuTypeStep, MenuInvAlways, PTL DEF MenuSpec

-----------------------------------------------------------------------------
(* Sums. The fold is a choice of a function by its recursive equation, so  *)
(* two sums whose terms are equal are the choice by one equation: that     *)
(* needs no induction.                                                     *)

(* The sum of a function's values, as the folds compute it.                *)
Total(w) ==
  (CHOOSE iter : iter =
     [s \in SUBSET DOMAIN w |->
        IF s = {} THEN 0
        ELSE iter[s \ {CHOOSE x \in s : TRUE}] + w[CHOOSE x \in s : TRUE]])[DOMAIN w]

(* An item's part in the sum.                                              *)
Amounts(items) == [n \in DOMAIN items |-> items[n].quantity * items[n].unitPriceCents]

LineTotals(items) == [n \in DOMAIN items |-> items[n].lineTotalCents]

LEMMA ItemsSumIsTotal == \A items : ItemsSum(items) = Total(Amounts(items))
<1> SUFFICES ASSUME NEW items PROVE ItemsSum(items) = Total(Amounts(items))
  OBVIOUS
<1> DEFINE D == DOMAIN items
           Term(x) == items[x].quantity * items[x].unitPriceCents
           Sums(f) == [s \in SUBSET D |->
                         IF s = {} THEN 0
                         ELSE f[s \ {CHOOSE x \in s : TRUE}] + Term(CHOOSE x \in s : TRUE)]
           Totals(f) == [s \in SUBSET D |->
                         IF s = {} THEN 0
                         ELSE f[s \ {CHOOSE x \in s : TRUE}]
                                + Amounts(items)[CHOOSE x \in s : TRUE]]
<1>1. ItemsSum(items) = (CHOOSE f : f = Sums(f))[D]
  BY DEF ItemsSum, FoldSeq, FoldFunction, FoldFunctionOnSet, MapThenFoldSet
<1>2. DOMAIN Amounts(items) = D /\ \A x \in D : Amounts(items)[x] = Term(x)
  BY DEF Amounts
<1>3. Total(Amounts(items)) = (CHOOSE f : f = Totals(f))[D]
  BY <1>2 DEF Total
<1>4. \A f : Sums(f) = Totals(f)
  BY <1>2
<1>5. \A f : f = Sums(f) <=> f = Totals(f)
  BY <1>4
<1> HIDE DEF Sums, Totals
<1>6. (CHOOSE f : f = Sums(f)) = (CHOOSE f : f = Totals(f))
  BY <1>5, Zenon
<1> QED
  BY <1>1, <1>3, <1>6

LEMMA LineTotalsSumIsTotal ==
  \A items : LineTotalsSum(items) # NotANumber => LineTotalsSum(items) = Total(LineTotals(items))
<1> SUFFICES ASSUME NEW items, LineTotalsSum(items) # NotANumber
             PROVE  LineTotalsSum(items) = Total(LineTotals(items))
  OBVIOUS
<1> DEFINE D == DOMAIN items
           Term(x) == items[x].lineTotalCents
           Sums(f) == [s \in SUBSET D |->
                         IF s = {} THEN 0
                         ELSE f[s \ {CHOOSE x \in s : TRUE}] + Term(CHOOSE x \in s : TRUE)]
           Totals(f) == [s \in SUBSET D |->
                         IF s = {} THEN 0
                         ELSE f[s \ {CHOOSE x \in s : TRUE}]
                                + LineTotals(items)[CHOOSE x \in s : TRUE]]
<1>1. LineTotalsSum(items) = (CHOOSE f : f = Sums(f))[D]
  BY DEF LineTotalsSum, FoldSeq, FoldFunction, FoldFunctionOnSet, MapThenFoldSet
<1>2. DOMAIN LineTotals(items) = D /\ \A x \in D : LineTotals(items)[x] = Term(x)
  BY DEF LineTotals
<1>3. Total(LineTotals(items)) = (CHOOSE f : f = Totals(f))[D]
  BY <1>2 DEF Total
<1>4. \A f : Sums(f) = Totals(f)
  BY <1>2
<1>5. \A f : f = Sums(f) <=> f = Totals(f)
  BY <1>4
<1> HIDE DEF Sums, Totals
<1>6. (CHOOSE f : f = Sums(f)) = (CHOOSE f : f = Totals(f))
  BY <1>5, Zenon
<1> QED
  BY <1>1, <1>3, <1>6

(* Items that are equal in their amounts have equal sums.                  *)
LEMMA EqualAmounts ==
  ASSUME NEW a, NEW b, DOMAIN a = DOMAIN b,
         \A n \in DOMAIN a : /\ a[n].quantity = b[n].quantity
                             /\ a[n].unitPriceCents = b[n].unitPriceCents
  PROVE  ItemsSum(a) = ItemsSum(b)
<1>1. Amounts(a) = Amounts(b)
  BY DEF Amounts
<1> QED
  BY <1>1, ItemsSumIsTotal

(* A chat order whose subtotal is the sum of its lines.                    *)
AddsUp(raw) == raw \in FbChatbotOrder => raw.subtotal = ItemsSum(ChatItems(raw))

(* What the parser knows of a draft's items.                               *)
IsDraft(draft) ==
  /\ draft.subtotalCents = LineTotalsSum(draft.items)
  /\ \A n \in DOMAIN draft.items :
       draft.items[n].lineTotalCents =
         Times(draft.items[n].unitPriceCents, draft.items[n].quantity)

(* The parser sums line totals, the order has quantities and prices.       *)
LEMMA DraftsAddUp ==
  ASSUME IsDraft(chat.draft), NEW s
  PROVE  AddsUp(PostedDraft(s))
<1> DEFINE raw == PostedDraft(s)  draft == chat.draft
<1> SUFFICES ASSUME raw \in FbChatbotOrder PROVE raw.subtotal = ItemsSum(ChatItems(raw))
  BY DEF AddsUp
<1>1. /\ DOMAIN raw.lines = DOMAIN draft.items /\ raw.subtotal = draft.subtotalCents
      /\ \A n \in DOMAIN draft.items : /\ raw.lines[n].quantity = draft.items[n].quantity
                                       /\ raw.lines[n].price = draft.items[n].unitPriceCents
  BY DEF PostedDraft
<1> HIDE DEF raw
<1>2. PICK ids : raw.lines \in Seq([productId: ids, quantity: Nat \ {0}, price: Nat])
  BY DEF FbChatbotOrder
<1>3. ASSUME NEW n \in DOMAIN raw.lines
      PROVE  raw.lines[n].quantity \in Nat /\ raw.lines[n].price \in Nat
  <2> DEFINE ChatLine == [productId: ids, quantity: Nat \ {0}, price: Nat]
  <2>1. DOMAIN raw.lines = 1 .. Len(raw.lines) /\ raw.lines \in Seq(ChatLine)
    BY <1>2, LenProperties
  <2> HIDE DEF ChatLine
  <2>2. raw.lines[n] \in ChatLine
    BY <2>1, ElementOfSeq
  <2> QED
    BY <2>2 DEF ChatLine
<1>4. NotANumber \notin Nat
  BY ParserAssumption
<1>5. ASSUME NEW n \in DOMAIN draft.items
      PROVE  draft.items[n].lineTotalCents =
               draft.items[n].quantity * draft.items[n].unitPriceCents
  <2>1. draft.items[n].quantity \in Nat /\ draft.items[n].unitPriceCents \in Nat
    BY <1>1, <1>3
  <2>2. draft.items[n].lineTotalCents =
          Times(draft.items[n].unitPriceCents, draft.items[n].quantity)
    BY DEF IsDraft
  <2>3. draft.items[n].lineTotalCents =
          draft.items[n].unitPriceCents * draft.items[n].quantity
    BY <1>4, <2>1, <2>2 DEF Times
  <2> QED
    BY <2>1, <2>3
<1>6. LineTotalsSum(draft.items) # NotANumber /\ raw.subtotal = LineTotalsSum(draft.items)
  <2>1. raw.subtotal \in Nat
    BY DEF FbChatbotOrder
  <2> QED
    BY <1>1, <1>4, <2>1 DEF IsDraft
<1>7. LineTotals(draft.items) = Amounts(ChatItems(raw))
  <2>1. /\ DOMAIN ChatItems(raw) = DOMAIN draft.items
        /\ \A n \in DOMAIN draft.items :
             /\ ChatItems(raw)[n].quantity = draft.items[n].quantity
             /\ ChatItems(raw)[n].unitPriceCents = draft.items[n].unitPriceCents
    BY <1>1 DEF ChatItems
  <2> QED
    BY <1>5, <2>1 DEF LineTotals, Amounts
<1>8. LineTotalsSum(draft.items) = Total(LineTotals(draft.items))
  BY <1>6, LineTotalsSumIsTotal
<1>9. ItemsSum(ChatItems(raw)) = Total(Amounts(ChatItems(raw)))
  BY ItemsSumIsTotal
<1> QED
  BY <1>6, <1>7, <1>8, <1>9

(* Chat orders among the payloads, apart from those of the parser, add up. *)
PayloadsAddUp == \A raw \in Payloads : AddsUp(raw)

(* From the draft to the row, each stage hands on a subtotal and items     *)
(* that belong together.                                                   *)
SumsInv ==
  /\ DOMAIN chat = {"pc", "menu", "draft"} /\ (chat.pc = "drafted" => IsDraft(chat.draft))
  /\ AddsUp(order.raw)
  /\ order.pc \in {"persist", "stored"} /\ order.raw \in FbChatbotOrder =>
       order.items = ChatItems(order.raw)
  /\ row # NoRow =>
       /\ "subtotalCents" \in DOMAIN row
       /\ order.raw.platform # "GRABFOOD" => row.subtotalCents = ItemsSum(order.items)

LEMMA SumsInit == MenuInit => SumsInv
BY DEF MenuInit, ChatInit, SumsInv, AddsUp, NoRaw, FbChatbotOrder

LEMMA ChatKeepsSums ==
  ASSUME SumsInv, ChatNext, UNCHANGED <<order, row>>
  PROVE  SumsInv'
<1>1. DOMAIN chat' = {"pc", "menu", "draft"} /\ (chat'.pc = "drafted" => IsDraft(chat'.draft))
  <2>1. CASE chat'.pc # "drafted"
    BY <2>1 DEF ChatNext, ReadMenu, ModelAnswers, SumsInv
  <2>2. CASE chat'.pc = "drafted"
    <3>1. PICK llm : chat' = [chat EXCEPT !.pc = "drafted", !.draft = ParsedDraft(chat.menu, llm)]
      BY <2>2 DEF ChatNext, ReadMenu, ModelAnswers, SumsInv
    <3>2. DOMAIN chat' = {"pc", "menu", "draft"} /\ chat'.draft = ParsedDraft(chat.menu, llm)
      BY <3>1 DEF SumsInv
    <3>3. IsDraft(ParsedDraft(chat.menu, llm))
      BY DEF ParsedDraft, ParsedItem, IsDraft
    <3>4. \A d : d = ParsedDraft(chat.menu, llm) => IsDraft(d)
      BY <3>3
    <3>5. IsDraft(chat'.draft)
      BY <3>2, <3>4
    <3> QED
      BY <3>2, <3>5
  <2> QED
    BY <2>1, <2>2
<1> QED
  BY <1>1 DEF SumsInv

LEMMA ReceiveOrderKeepsSums ==
  ASSUME PayloadsAddUp, SumsInv, MenuInv, ReceiveOrder
  PROVE  SumsInv'
<1>1. PICK raw \in Payloads \cup (IF chat.pc = "drafted"
                                  THEN {PostedDraft(s) : s \in Stores} ELSE {}) :
        order' = [order EXCEPT !.pc = "waiting", !.raw = raw]
  BY DEF ReceiveOrder
<1>2. AddsUp(raw)
  BY DraftsAddUp DEF PayloadsAddUp, SumsInv
<1>3. /\ order.pc = "unsent" /\ order'.pc = "waiting" /\ order'.raw = raw
      /\ UNCHANGED <<chat, row>>
  BY <1>1 DEF ReceiveOrder, MenuInv, Progress
<1>4. row' = NoRow
  BY <1>3 DEF MenuInv, RowIsOfAttempt
<1>5. \A r : r = raw => AddsUp(r)
  BY <1>2
<1> QED
  BY <1>3, <1>4, <1>5 DEF SumsInv

(* A step that leaves the payload and the row alone.                       *)
LEMMA StageKeepsSums ==
  ASSUME SumsInv, MenuInv, order.pc # "stored", order'.raw = order.raw, UNCHANGED <<chat, row>>,
         order'.pc \in {"persist", "stored"} /\ order.raw \in FbChatbotOrder =>
           order'.items = ChatItems(order.raw)
  PROVE  SumsInv'
<1>1. row = NoRow
  BY DEF MenuInv, RowIsOfAttempt
<1> QED
  BY <1>1 DEF SumsInv

LEMMA AttemptFailsKeepsSums ==
  ASSUME SumsInv, MenuInv, AttemptFails, order.pc # "stored"
  PROVE  SumsInv'
<1>1. order'.raw = order.raw /\ order'.pc \in {"waiting", "failed"} /\ UNCHANGED <<chat, row>>
  BY DEF AttemptFails, MenuInv, Progress
<1> QED
  BY <1>1, StageKeepsSums

LEMMA PersistKeepsSums ==
  ASSUME SumsInv, MenuInv, persist, ~AttemptFails
  PROVE  SumsInv'
<1>1. PICK total :
        /\ row' = [storeId |-> order.store, paymentMethod |-> PaymentMethod(order.raw),
                   subtotalCents |-> Subtotal, grandTotalCents |-> total, items |-> order.items]
        /\ order' = [order EXCEPT !.pc = "stored"] /\ UNCHANGED chat
  BY DEF persist
<1>2. /\ order.pc = "persist" /\ order'.raw = order.raw /\ order'.items = order.items
      /\ "subtotalCents" \in DOMAIN row' /\ row'.subtotalCents = Subtotal
  BY <1>1 DEF persist, MenuInv, Progress
<1>3. order.raw.platform # "GRABFOOD" => Subtotal = ItemsSum(order.items)
  <2>1. CASE order.raw.platform = "FOODPANDA"
    BY <2>1 DEF Subtotal
  <2>2. CASE order.raw.platform \notin {"GRABFOOD", "FOODPANDA"}
    <3>1. order.raw \in PlatformOrder \cup FbChatbotOrder
      BY <1>2 DEF MenuInv, Progress
    <3>2. order.raw \in FbChatbotOrder
      BY <2>2, <3>1, PayloadLines DEF PlatformOrder
    <3>3. order.items = ChatItems(order.raw) /\ order.raw.subtotal = ItemsSum(ChatItems(order.raw))
      BY <1>2, <3>2 DEF SumsInv, AddsUp
    <3> QED
      BY <2>2, <3>3 DEF Subtotal
  <2> QED
    BY <2>1, <2>2
<1>4. \A items : items = order.items => ItemsSum(items) = ItemsSum(order.items)
  OBVIOUS
<1>5. order'.raw.platform # "GRABFOOD" => row'.subtotalCents = ItemsSum(order'.items)
  BY <1>2, <1>3, <1>4
<1>6. AddsUp(order'.raw)
  BY <1>2 DEF SumsInv
<1> QED
  BY <1>1, <1>2, <1>5, <1>6 DEF SumsInv

LEMMA OrderStepKeepsSums ==
  ASSUME PayloadsAddUp, SumsInv, MenuInv, OrderStep
  PROVE  SumsInv'
<1>1. DOMAIN order = {"pc", "raw", "attempt", "store", "entity", "items"}
  BY DEF MenuInv, Progress
<1>2. CASE AttemptFails /\ order.pc # "stored"
  BY <1>2, AttemptFailsKeepsSums
<1>3. CASE ReceiveOrder
  BY <1>3, ReceiveOrderKeepsSums
<1>4. CASE ParsePayload
  <2>1. CASE AttemptFails
    BY <1>2, <1>4, <2>1 DEF ParsePayload
  <2>2. CASE ~AttemptFails
    <3>1. /\ order.pc = "waiting" /\ order'.raw = order.raw /\ UNCHANGED <<chat, row>>
          /\ \/ order'.pc = "store"
             \/ order'.items = ChatItems(order.raw)
      BY <1>1, <1>4, <2>2 DEF ParsePayload
    <3> QED
      BY <3>1, StageKeepsSums
  <2> QED
    BY <2>1, <2>2
<1>5. CASE resolveStoreId \/ resolveInternalId
  <2>1. CASE AttemptFails
    BY <1>2, <1>5, <2>1 DEF resolveStoreId, resolveInternalId
  <2>2. CASE ~AttemptFails
    <3>1. /\ order.pc \in {"store", "line"} /\ order'.pc \in {"line", "product"}
          /\ order'.raw = order.raw /\ UNCHANGED <<chat, row>>
      BY <1>1, <1>5, <2>2 DEF resolveStoreId, resolveInternalId
    <3> QED
      BY <3>1, StageKeepsSums
  <2> QED
    BY <2>1, <2>2
<1>6. CASE resolveProduct
  <2>1. CASE AttemptFails
    BY <1>2, <1>6, <2>1 DEF resolveProduct
  <2>2. CASE ~AttemptFails
    <3>1. order.pc = "product" /\ order'.raw = order.raw /\ UNCHANGED <<chat, row>>
      BY <1>1, <1>6, <2>2 DEF resolveProduct
    <3>2. order.raw \notin FbChatbotOrder
      <4>1. order.raw \in PlatformOrder
        BY <3>1 DEF MenuInv, Progress
      <4>2. order.raw.platform \in {"GRABFOOD", "FOODPANDA"}
        BY <4>1, PayloadLines DEF PlatformOrder
      <4> QED
        BY <4>2 DEF FbChatbotOrder
    <3> QED
      BY <3>1, <3>2, StageKeepsSums
  <2> QED
    BY <2>1, <2>2
<1>7. CASE persist
  <2>1. CASE AttemptFails
    BY <1>2, <1>7, <2>1 DEF persist
  <2>2. CASE ~AttemptFails
    BY <1>7, <2>2, PersistKeepsSums
  <2> QED
    BY <2>1, <2>2
<1> QED
  BY <1>3, <1>4, <1>5, <1>6, <1>7 DEF OrderStep

LEMMA CatalogKeepsSums ==
  ASSUME SumsInv, MenuInv, UNCHANGED <<chat, order>>, row' = ItemsAfter(db')
  PROVE  SumsInv'
<1>1. CASE row = NoRow
  <2>1. row' = NoRow
    BY <1>1 DEF ItemsAfter
  <2> QED
    BY <2>1 DEF SumsInv
<1>2. CASE row # NoRow
  <2>1. "items" \in DOMAIN row /\ "subtotalCents" \in DOMAIN row
    BY <1>2 DEF MenuInv, RowIsOfAttempt, SumsInv
  <2>2. "subtotalCents" \in DOMAIN row' /\ row'.subtotalCents = row.subtotalCents
    BY <1>2, <2>1 DEF ItemsAfter
  <2> QED
    BY <1>2, <2>2 DEF SumsInv
<1> QED
  BY <1>1, <1>2

LEMMA SumsInvStep ==
  PayloadsAddUp /\ SumsInv /\ MenuInv /\ [MenuNext]_menuVars => SumsInv'
<1> SUFFICES ASSUME PayloadsAddUp, SumsInv, MenuInv, [MenuNext]_menuVars PROVE SumsInv'
  OBVIOUS
<1>1. CASE OrderStep
  BY <1>1, OrderStepKeepsSums
<1>2. CASE ChatNext /\ UNCHANGED <<order, row>>
  BY <1>2, ChatKeepsSums
<1>3. CASE row' = ItemsAfter(db') /\ UNCHANGED <<chat, order>>
  BY <1>3, CatalogKeepsSums
<1>4. CASE UNCHANGED <<chat, order, row>>
  BY <1>4 DEF SumsInv
<1> QED
  BY <1>1, <1>2, <1>3, <1>4 DEF MenuNext, menuVars

(* A stored Foodpanda or chat order adds up: the subtotal, summed while    *)
(* translating or when the chat was parsed, is that of its items, whatever *)
(* was removed from the catalog since. What of the chat does not come from *)
(* the parser adds up when it is sent (FoodpandaTranslator.translate,      *)
(* ParserService.parse, OrderPersistenceService.persist).                  *)
THEOREM StoredOrdersAddUp ==
  ASSUME PayloadsAddUp
  PROVE  MenuSpec => []StoredAddsUp
<1>1. MenuInit => SumsInv
  BY SumsInit
<1>2. SumsInv /\ MenuInv /\ [MenuNext]_menuVars => SumsInv'
  BY SumsInvStep
<1>3. SumsInv /\ MenuInv => StoredAddsUp
  <2> SUFFICES ASSUME SumsInv, MenuInv, row # NoRow, order.raw.platform # "GRABFOOD"
               PROVE  row.subtotalCents = ItemsSum(row.items)
    BY DEF StoredAddsUp
  <2>1. row.subtotalCents = ItemsSum(order.items)
    BY DEF SumsInv
  <2>2. /\ DOMAIN row.items = 1 .. Len(order.items) /\ DOMAIN order.items = 1 .. Len(order.items)
        /\ \A n \in 1 .. Len(order.items) :
             /\ row.items[n].quantity = order.items[n].quantity
             /\ row.items[n].unitPriceCents = order.items[n].unitPriceCents
    BY SequenceLen DEF MenuInv, RowIsOfAttempt, Progress
  <2>3. ItemsSum(row.items) = ItemsSum(order.items)
    BY <2>2, EqualAmounts
  <2> QED
    BY <2>1, <2>3
<1> QED
  BY <1>1, <1>2, <1>3, MenuInvAlways, PTL DEF MenuSpec

=============================================================================
