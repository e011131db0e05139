---------------------------- MODULE OrderTranslation ---------------------------
(***************************************************************************)
(* One order's job in the worker, from its raw payload to the stored row:  *)
(* validation against the platform's schema, the lookup of the store and   *)
(* of every line's product in platform_mappings, the conversion of money   *)
(* and quantities, and the insert. Each lookup is a query of its own, so   *)
(* the catalog (CatalogMappings) may change between any two of them. A     *)
(* payload is from a platform, or is the draft that ChatParser made.       *)
(* Names, notes, short ids and the raw copy of the payload are left out;   *)
(* what happens to the job around this is in OrderWorker.                  *)
(***************************************************************************)
EXTENDS ChatParser

CONSTANTS
  Payloads,      \* raw payloads that a run considers
  MaxAttempts,   \* attempts: 5 in the queue's options
  IntMax         \* the largest value of an INT column

VARIABLES
  order,   \* the job's payload and how far its present attempt got
  row,     \* the stored order
  linked   \* history: <<type, platform, external id, entity>> of each
           \* mapping there has been

menuVars == <<catalogVars, chat, order, row, linked>>

-----------------------------------------------------------------------------
(* The payloads' schemas. Money of GrabFood and of the chat is in cents;   *)
(* Foodpanda's is a decimal text, here in tenths of a cent. A quantity of  *)
(* Foodpanda's is a text or a number, here in tenths.                      *)

GrabFoodOrder ==
  [platform: {"GRABFOOD"}, store: ExternalIds, payment: {"CASH", "CASHLESS", Absent},
   subtotal: Nat, total: Nat,
   lines: Seq([id: ExternalIds, quantity: Nat \ {0}, price: Nat]) \ {<<>>}]

FoodpandaOrder ==
  [platform: {"FOODPANDA"}, store: ExternalIds, payment: {"PAID", "PENDING", Absent},
   total: Int \cup {NotANumber},
   lines: Seq([remoteCode: ExternalIds \cup {Absent}, id: ExternalIds \cup {Absent},
               kind: {"string", "number"}, quantity: Int \cup {NotANumber},
               price: Int \cup {NotANumber}]) \ {<<>>}]

FbChatbotOrder ==
  [platform: {"FB_CHATBOT"}, store: Stores,
   payment: {"CASH_ON_DELIVERY", "ONLINE_PAYMENT"}, subtotal: Nat, total: Nat,
   lines: Seq([productId: Products, quantity: Nat \ {0}, price: Nat]) \ {<<>>}]

ASSUME MenuAssumption == MaxAttempts \in Nat \ {0} /\ IntMax \in Nat

(* The dashboard posts a draft as it got it, where NaN has become null.    *)
PostedDraft(s) ==
  [platform |-> "FB_CHATBOT", store |-> s, payment |-> "CASH_ON_DELIVERY",
   subtotal |-> chat.draft.subtotalCents, total |-> chat.draft.grandTotalCents,
   lines |-> [n \in DOMAIN chat.draft.items |->
                [productId |-> chat.draft.items[n].productId,
                 quantity |-> chat.draft.items[n].quantity,
                 price |-> chat.draft.items[n].unitPriceCents]]]

-----------------------------------------------------------------------------
(* Conversions.                                                            *)

(* Math.round(n * 100) of a binary fraction: half a cent may go either     *)
(* way. What is no number is 0.                                            *)
toCents(amount) ==
  IF amount = NotANumber THEN {0} ELSE {(amount + 5) \div 10, (amount + 4) \div 10}

(* Defect: parseInt also where the quantity is a number below one, or none.*)
toQuantityUnchecked(kind, q) == IF q = NotANumber THEN 0 ELSE q \div 10

(* A text is cut to an integer before the comparison with 0, a number only *)
(* after it.                                                               *)
toQuantity(kind, q) ==
  IF q = NotANumber \/ q <= 0 \/ (kind = "string" /\ q < 10) THEN 1 ELSE q \div 10

mappingKey(line) ==
  IF "remoteCode" \notin DOMAIN line THEN line.id
  ELSE IF line.remoteCode # Absent THEN line.remoteCode ELSE line.id

PaymentMethod(raw) ==
  IF raw.payment \in {"CASH", "PENDING", "CASH_ON_DELIVERY"}
  THEN "CASH_ON_DELIVERY" ELSE "ONLINE_PAYMENT"

ItemsSum(items) ==
  FoldSeq(LAMBDA i, sum : sum + i.quantity * i.unitPriceCents, 0, items)

-----------------------------------------------------------------------------

NoRaw == [platform |-> "NONE"]

Mapped(type, platform, externalId) ==
  {db[i].internalEntityId : i \in
     {j \in MappingIds : /\ db[j] # NoRow /\ db[j].entityType = type
                         /\ db[j].platformName = platform
                         /\ db[j].platformMetadata.external_id = externalId}}

(* Defect: the platform is left out of the query.                          *)
ResolvableAnyPlatform(type, platform, externalId) ==
  UNION {Mapped(type, x, externalId) : x \in Platforms}

(* The entities that getOne may take: of any mapping with that external    *)
(* id, of whichever store, and no other check.                             *)
Resolvable(type, platform, externalId) == Mapped(type, platform, externalId)

LinkedNow(d) ==
  {<<d[i].entityType, d[i].platformName, d[i].platformMetadata.external_id,
     d[i].internalEntityId>> : i \in {j \in MappingIds : d[j] # NoRow}}

MenuInit ==
  /\ CatalogInit /\ ChatInit
  /\ order = [pc |-> "unsent", raw |-> NoRaw, attempt |-> 1, store |-> NoId,
              entity |-> NoId, items |-> <<>>]
  /\ row = NoRow
  /\ linked = LinkedNow(InitialDb)

(* The order reaches the worker.                                           *)
ReceiveOrder ==
  /\ order.pc = "unsent"
  /\ \E raw \in Payloads \cup (IF chat.pc = "drafted"
                               THEN {PostedDraft(s) : s \in Stores} ELSE {}) :
       order' = [order EXCEPT !.pc = "waiting", !.raw = raw]
  /\ UNCHANGED <<chat, row>>

(* Defect: the next attempt goes on with the items of this one.            *)
AttemptFailsKeepingItems ==
  /\ order' = IF order.attempt < MaxAttempts
              THEN [order EXCEPT !.pc = "waiting", !.attempt = @ + 1]
              ELSE [order EXCEPT !.pc = "failed"]
  /\ UNCHANGED <<chat, row>>

(* The attempt throws; the queue makes another one while it may.           *)
AttemptFails ==
  /\ order' = IF order.attempt < MaxAttempts
              THEN [order EXCEPT !.pc = "waiting", !.attempt = @ + 1, !.items = <<>>]
              ELSE [order EXCEPT !.pc = "failed"]
  /\ UNCHANGED <<chat, row>>

(* A chat order's items are products already; its amounts stay.            *)
ChatItems(raw) ==
  [n \in DOMAIN raw.lines |->
     [productId |-> raw.lines[n].productId, quantity |-> raw.lines[n].quantity,
      unitPriceCents |-> raw.lines[n].price]]

(* safeParse; the ids and amounts of a chat order are taken as they are.   *)
ParsePayload ==
  /\ order.pc = "waiting"
  /\ IF order.raw \in GrabFoodOrder \cup FoodpandaOrder
     THEN order' = [order EXCEPT !.pc = "store"] /\ UNCHANGED <<chat, row>>
     ELSE IF order.raw \in FbChatbotOrder
     THEN /\ order' = [order EXCEPT !.pc = "persist", !.store = order.raw.store,
                                    !.items = ChatItems(order.raw)]
          /\ UNCHANGED <<chat, row>>
     ELSE AttemptFails

resolveStoreId ==
  LET found == Resolvable("STORE", order.raw.platform, order.raw.store)
  IN  /\ order.pc = "store"
      /\ IF found = {} THEN AttemptFails
         ELSE /\ \E s \in found : order' = [order EXCEPT !.pc = "line", !.store = s]
              /\ UNCHANGED <<chat, row>>

Line == order.raw.lines[Len(order.items) + 1]

resolveInternalId ==
  /\ order.pc = "line"
  /\ LET found == Resolvable("PRODUCT", order.raw.platform, mappingKey(Line))
     IN  IF found = {} THEN AttemptFails
         ELSE /\ \E e \in found : order' = [order EXCEPT !.pc = "product", !.entity = e]
              /\ UNCHANGED <<chat, row>>

(* The line's canonical items: its amounts as they come, or converted.     *)
CanonicalItems(line, product) ==
  IF order.raw.platform = "GRABFOOD"
  THEN {[productId |-> product, quantity |-> line.quantity, unitPriceCents |-> line.price]}
  ELSE {[productId |-> product, quantity |-> toQuantity(line.kind, line.quantity),
         unitPriceCents |-> cents] : cents \in toCents(line.price)}

(* products.findOne, and the push of the line's item.                      *)
resolveProduct ==
  /\ order.pc = "product"
  /\ IF order.entity \notin Products \/ db[order.entity] = NoRow
     THEN AttemptFails
     ELSE /\ \E item \in CanonicalItems(Line, order.entity) :
               order' = [order EXCEPT
                 !.items = Append(@, item),
                 !.pc = IF Len(order.items) + 1 = Len(order.raw.lines) THEN "persist" ELSE "line"]
          /\ UNCHANGED <<chat, row>>

(* The subtotal: the platform's, or for Foodpanda the sum of the lines.    *)
Subtotal ==
  IF order.raw.platform = "FOODPANDA" THEN ItemsSum(order.items) ELSE order.raw.subtotal

GrandTotals ==
  IF order.raw.platform = "FOODPANDA" THEN toCents(order.raw.total) ELSE {order.raw.total}

(* The columns are INTs and the ids foreign keys.                          *)
Insertable(o) ==
  /\ o.storeId \in Stores /\ db[o.storeId] # NoRow
  /\ \A n \in DOMAIN o.items :
       /\ db[o.items[n].productId] # NoRow
       /\ {o.items[n].quantity, o.items[n].unitPriceCents} \subseteq -IntMax .. IntMax
  /\ {o.subtotalCents, o.grandTotalCents} \subseteq -IntMax .. IntMax

(* The order and its items are inserted in one transaction, or none is.    *)
persist ==
  /\ order.pc = "persist"
  /\ \E total \in GrandTotals :
       LET o == [storeId |-> order.store, paymentMethod |-> PaymentMethod(order.raw),
                 subtotalCents |-> Subtotal, grandTotalCents |-> total, items |-> order.items]
       IN  IF Insertable(o)
           THEN /\ row' = o /\ order' = [order EXCEPT !.pc = "stored"]
                /\ UNCHANGED chat
           ELSE AttemptFails

(* The table's ON DELETE SET NULL: a removed product leaves the items'     *)
(* product empty (the entity's comment has the id kept).                   *)
ItemsAfter(d) ==
  IF row = NoRow THEN row
  ELSE [row EXCEPT !.items =
         [n \in DOMAIN @ |-> IF @[n].productId # NoId /\ d[@[n].productId] = NoRow
                             THEN [@[n] EXCEPT !.productId = NoId] ELSE @[n]]]

-----------------------------------------------------------------------------

OrderStep ==
  \/ ReceiveOrder \/ ParsePayload \/ resolveStoreId
  \/ resolveInternalId \/ resolveProduct \/ persist

MenuNext ==
  \/ OrderStep /\ UNCHANGED <<catalogVars, linked>>
  \/ ChatNext /\ UNCHANGED <<catalogVars, order, row, linked>>
  \/ /\ CatalogNext
     /\ row' = ItemsAfter(db') /\ linked' = linked \cup LinkedNow(db')
     /\ UNCHANGED <<chat, order>>

MenuSpec == MenuInit /\ [][MenuNext]_menuVars

-----------------------------------------------------------------------------

(* The state is well formed, an order is stored exactly when its attempt   *)
(* says so, and a stored item never turns into another product's.          *)
MenuTypeOK ==
  /\ order.pc \in {"unsent", "waiting", "store", "line", "product", "persist", "stored", "failed"}
  /\ order.attempt \in 1 .. MaxAttempts
  /\ order.pc \in {"line", "product"} => Len(order.items) < Len(order.raw.lines)
  /\ (row # NoRow) = (order.pc = "stored")
  /\ row # NoRow => \A n \in DOMAIN row.items :
       row.items[n].productId \in {NoId, order.items[n].productId}

(* A line whose quantity and price are what the platform documents: whole  *)
(* and positive, in whole cents.                                           *)
Regular(line) == line.quantity \in {10 * k : k \in 1 .. IntMax} /\ line.price % 10 = 0

(* However often an attempt failed half way, and whatever changed in the   *)
(* catalog then or later, a stored order has one item for every line of its*)
(* payload, in order. GrabFood's and the chat's amounts are the lines'; so *)
(* are Foodpanda's where the line is Regular, and what it ordered by a text*)
(* is at least one. Elsewhere amounts are rounded, and a number below one  *)
(* is stored as a quantity of 0.                                           *)
StoredMatchesPayload ==
  row # NoRow =>
    /\ Len(row.items) = Len(order.raw.lines)
    /\ \A n \in DOMAIN row.items :
         LET line == order.raw.lines[n] item == row.items[n]
         IN  /\ order.raw.platform # "FOODPANDA" =>
                  item.quantity = line.quantity /\ item.unitPriceCents = line.price
             /\ order.raw.platform = "FOODPANDA" /\ line.kind = "string" =>
                  item.quantity >= 1
             /\ order.raw.platform = "FOODPANDA" /\ NotANumber \notin {line.quantity, line.price}
                  /\ Regular(line) =>
                  10 * item.quantity = line.quantity /\ 10 * item.unitPriceCents = line.price

(* A stored Foodpanda or chat order adds up: its subtotal, summed while    *)
(* translating or when the chat was parsed, is that of its items.          *)
StoredAddsUp ==
  row # NoRow /\ order.raw.platform # "GRABFOOD" => row.subtotalCents = ItemsSum(row.items)

(* An item of a stored platform order is a product that was linked, on     *)
(* that platform, to the id in its line, and the order's store was linked  *)
(* to its merchant's: no lookup mixes types, platforms or lines.           *)
EachItemWasLinked ==
  row # NoRow /\ order.raw.platform # "FB_CHATBOT" =>
    /\ <<"STORE", order.raw.platform, order.raw.store, row.storeId>> \in linked
    /\ \A n \in DOMAIN row.items :
         row.items[n].productId # NoId =>
           <<"PRODUCT", order.raw.platform, mappingKey(order.raw.lines[n]),
             row.items[n].productId>> \in linked
=============================================================================
