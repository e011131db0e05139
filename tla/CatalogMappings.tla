---------------------------- MODULE CatalogMappings ----------------------------
(***************************************************************************)
(* The merchant's data: stores, categories, products, and the table        *)
(* platform_mappings that ties them to a platform's external ids, under    *)
(* the requests of the catalog and stores APIs. A handler reads a row,     *)
(* changes the copy in memory and saves it; TypeORM's save reads the row   *)
(* again, writes the columns that differ, and inserts a row that is gone.  *)
(* No handler uses a transaction over more than one statement.             *)
(* Names, prices, codes and texts are left out.                            *)
(***************************************************************************)
EXTENDS Naturals, FiniteSets

CONSTANTS
  Stores, Categories, Products, MappingIds,  \* ids of the rows of each table
  Platforms,      \* PLATFORMS, or the part of it a run looks at
  ExternalIds,    \* ids by which a platform knows stores and products
  Handlers,       \* requests that may be under way at once
  MaxRequests,    \* bound: requests that find their row
  InitialDb,      \* the rows there are at the start
  NoId            \* SQL NULL

NoRow == [absent |-> TRUE]
NoCall == [op |-> "none"]
Ids == Stores \cup Categories \cup Products \cup MappingIds

StoreRow == [isActive: BOOLEAN]
CategoryRow == [storeId: Stores, isVisible: BOOLEAN]
ProductRow == [categoryId: Categories \cup {NoId}, isAvailable: BOOLEAN]

(* The part of a mapping's JSON that code reads or writes.                 *)
Metadata == [external_id: ExternalIds, is_available: {"unset", "yes", "no"}]

MappingRow ==
  [storeId: Stores, entityType: {"STORE", "PRODUCT"},
   internalEntityId: Stores \cup Products, platformName: Platforms,
   platformMetadata: Metadata, isSynced: BOOLEAN]

Rows == StoreRow \cup CategoryRow \cup ProductRow \cup MappingRow

(* Each row is in its table.                                               *)
RowsInTables(d) ==
  /\ d \in [Ids -> Rows \cup {NoRow}]
  /\ \A s \in Stores : d[s] \in StoreRow \cup {NoRow}
  /\ \A c \in Categories : d[c] \in CategoryRow \cup {NoRow}
  /\ \A p \in Products : d[p] \in ProductRow \cup {NoRow}
  /\ \A i \in MappingIds : d[i] \in MappingRow \cup {NoRow}

MappingKey(m) ==
  <<m.storeId, m.entityType, m.internalEntityId, m.platformName>>

(* The foreign keys and the unique key of the schema. internal_entity_id   *)
(* references nothing, and external ids need not be unique.                *)
SchemaHolds(d) ==
  /\ \A p \in Products :
       d[p] # NoRow /\ d[p].categoryId # NoId => d[d[p].categoryId] # NoRow
  /\ \A i \in Categories \cup MappingIds : d[i] # NoRow => d[d[i].storeId] # NoRow
  /\ \A i, j \in MappingIds :
       d[i] # NoRow /\ d[j] # NoRow /\ MappingKey(d[i]) = MappingKey(d[j]) => i = j

(* No two tables share an id.                                              *)
ASSUME CatalogAssumption ==
  /\ NoId \notin Ids
  /\ Stores \cap Categories = {} /\ (Stores \cup Categories) \cap Products = {}
  /\ MappingIds \cap (Stores \cup Categories \cup Products) = {}
  /\ MaxRequests \in Nat
  /\ RowsInTables(InitialDb) /\ SchemaHolds(InitialDb)

VARIABLES
  db,        \* the rows, by id, of all four tables
  fresh,     \* ids that were never given to a row
  req,       \* req[h]: the request that handler h is in
  requests,  \* how many requests found their row so far
  told,      \* history: what a link offered when it was last marked synced
  orderly    \* history: requests ran one by one to their end and by the
             \* endpoints that flag what they change

catalogVars == <<db, fresh, req, requests, told, orderly>>

Idle ==
  [pc |-> "idle", call |-> NoCall, row |-> NoId, entity |-> NoRow, base |-> NoRow]

-----------------------------------------------------------------------------
(* What the routes and their DTOs let through.                             *)

ProductPatch == [isAvailable: BOOLEAN] \cup [categoryId: Categories \cup {NoId}]

ProductUpdates == [op: {"updateProduct"}, id: Products, patch: ProductPatch]

(* The DTO's defaults fill in what the body of a PATCH leaves out, so each *)
(* update sets the visibility.                                             *)
CategoryUpdates ==
  [op: {"updateCategory"}, id: Categories, patch: CategoryRow]

(* Deactivation is the update to isActive = false.                         *)
StoreUpdates == [op: {"updateStore"}, id: Stores, patch: StoreRow]

(* platformMetadata is replaced as a whole, with or without isSynced.      *)
MappingPatch ==
  [isSynced: BOOLEAN] \cup [platformMetadata: Metadata]
    \cup [platformMetadata: Metadata, isSynced: BOOLEAN]

MappingUpdates == [op: {"updateMapping"}, id: MappingIds, patch: MappingPatch]

(* setAvailability without a platform.                                     *)
GlobalAvailability ==
  [op: {"setAvailability"}, id: Products, patch: [isAvailable: BOOLEAN]]

PlatformAvailability ==
  [op: {"setPlatformAvailability"}, id: Products, platform: Platforms,
   is_available: {"yes", "no"}]

Links ==
  [op: {"link"}, id: Products, platform: Platforms, store: Stores,
   platformMetadata: Metadata]

NewMappings ==
  [storeId: Stores, entityType: {"STORE", "PRODUCT"},
   internalEntityId: Stores \cup Products, platformName: Platforms,
   platformMetadata: Metadata, isSynced: {FALSE}]

Updates ==
  ProductUpdates \cup CategoryUpdates \cup StoreUpdates
    \cup MappingUpdates \cup GlobalAvailability

-----------------------------------------------------------------------------

ProductLinks(p, platform) ==
  {i \in MappingIds : db[i] # NoRow /\ db[i].entityType = "PRODUCT"
                        /\ db[i].internalEntityId = p /\ db[i].platformName = platform}

(* What the mapping m offers on its platform's menu, with the rows d.      *)
OfferedIn(d, m) ==
  <<m.platformMetadata,
    m.internalEntityId \in Products /\ d[m.internalEntityId] # NoRow
      /\ d[m.internalEntityId].isAvailable>>

Offered(m) == OfferedIn(db, m)

Patched(row, patch) ==
  [c \in DOMAIN row |-> IF c \in DOMAIN patch THEN patch[c] ELSE row[c]]

Alone == \A h \in Handlers : req[h].pc = "idle"

Admit == requests < MaxRequests /\ requests' = requests + 1

(* These change what a link offers and do not flag it.                     *)
Unflagged(c) ==
  \/ c.op = "updateProduct" /\ "isAvailable" \in DOMAIN c.patch
  \/ c.op = "updateMapping" /\ "isSynced" \notin DOMAIN c.patch

(* A mapping of d names the id, of a row that there is or was.             *)
NamedIn(d, i) == \E m \in MappingIds : d[m] # NoRow /\ d[m].internalEntityId = i

CatalogInit ==
  /\ db = InitialDb
  /\ fresh = {i \in Ids : InitialDb[i] = NoRow /\ ~NamedIn(InitialDb, i)}
  /\ req = [h \in Handlers |-> Idle]
  /\ requests = 0
  /\ told = [i \in MappingIds |->
       IF InitialDb[i] = NoRow THEN <<>> ELSE OfferedIn(InitialDb, InitialDb[i])]
  /\ orderly = TRUE

-----------------------------------------------------------------------------
(* The handlers that read, change and save.                                *)

(* findOne or findOneBy, then the changes on the entity in memory. Who     *)
(* marks a link as synced has just pushed what it offers.                  *)
FindRow(h) ==
  /\ req[h].pc = "idle" /\ Admit
  /\ \E c \in Updates :
       /\ db[c.id] # NoRow
       /\ LET entity == Patched(db[c.id], c.patch)
          IN  /\ req' = [req EXCEPT ![h] = [pc |-> "reload", call |-> c, row |-> c.id,
                                            entity |-> entity, base |-> NoRow]]
              /\ told' = IF /\ c.op = "updateMapping" /\ "isSynced" \in DOMAIN c.patch /\ c.patch.isSynced
                         THEN [told EXCEPT ![c.id] = Offered(entity)] ELSE told
       /\ orderly' = (orderly /\ Alone /\ ~Unflagged(c))
  /\ UNCHANGED <<db, fresh>>

(* linkToPlatform and setAvailability for a platform: findProduct.         *)
FindProduct(h) ==
  /\ req[h].pc = "idle" /\ Admit
  /\ \E c \in Links \cup PlatformAvailability :
       /\ db[c.id] # NoRow
       /\ req' = [req EXCEPT ![h] = [Idle EXCEPT !.pc = "find", !.call = c]]
  /\ orderly' = (orderly /\ Alone)
  /\ UNCHANGED <<db, fresh, told>>

(* Defect: the link keeps the flag of the mapping it found.                *)
RelinkedKeepingFlag(c, m) ==
  [m EXCEPT !.platformMetadata =
              IF c.op = "link" THEN c.platformMetadata
              ELSE [m.platformMetadata EXCEPT !.is_available = c.is_available]]

(* The mapping m as linkToPlatform or a platform's setAvailability sets it.*)
Relinked(c, m) ==
  [m EXCEPT !.isSynced = FALSE,
            !.platformMetadata =
              IF c.op = "link" THEN c.platformMetadata
              ELSE [m.platformMetadata EXCEPT !.is_available = c.is_available]]

NewLink(c) ==
  [storeId |-> c.store, entityType |-> "PRODUCT", internalEntityId |-> c.id,
   platformName |-> c.platform, isSynced |-> FALSE,
   platformMetadata |-> c.platformMetadata]

(* mappings.findOne: a link looks for the store's mapping, setAvailability *)
(* for any mapping of the product on the platform, and is done if there is *)
(* none. A new mapping is inserted without another read.                   *)
FindLink(h) ==
  LET c == req[h].call
      found == {i \in ProductLinks(c.id, c.platform) :
                  c.op = "link" => db[i].storeId = c.store}
  IN  /\ req[h].pc = "find"
      /\ \/ \E i \in found :
              /\ req' = [req EXCEPT ![h].pc = "reload", ![h].row = i,
                                    ![h].entity = Relinked(c, db[i])]
              /\ fresh' = fresh
         \/ /\ found = {} /\ c.op = "link"
            /\ \E i \in fresh \cap MappingIds :
                 /\ req' = [req EXCEPT ![h].pc = "write", ![h].row = i,
                                       ![h].entity = NewLink(c)]
                 /\ fresh' = fresh \ {i}
         \/ /\ found = {} /\ c.op = "setPlatformAvailability"
            /\ req' = [req EXCEPT ![h] = Idle]
            /\ fresh' = fresh
      /\ UNCHANGED <<db, requests, told, orderly>>

(* save, first half: read the row again to compare with.                   *)
Reload(h) ==
  /\ req[h].pc = "reload"
  /\ req' = [req EXCEPT ![h].pc = "write", ![h].base = db[req[h].row]]
  /\ UNCHANGED <<db, fresh, requests, told, orderly>>

(* save, second half: the columns that differ from the row read back are   *)
(* updated, a row that was not there is inserted, and an update of a row   *)
(* that is gone touches nothing.                                           *)
SavedRow(r) ==
  IF r.base = NoRow THEN r.entity
  ELSE IF db[r.row] = NoRow THEN NoRow
  ELSE [c \in DOMAIN r.base |-> IF r.entity[c] # r.base[c] THEN r.entity[c] ELSE db[r.row][c]]

AfterWrite(r) == [db EXCEPT ![r.row] = SavedRow(r)]

(* The database's constraints; the primary key refuses a row that another  *)
(* save has put back meanwhile.                                            *)
CanWrite(r) ==
  SchemaHolds(AfterWrite(r)) /\ (r.base = NoRow => db[r.row] = NoRow)

(* The write commits, or a constraint refuses it and the request fails.    *)
WriteRow(h) ==
  /\ req[h].pc = "write"
  /\ IF CanWrite(req[h])
     THEN /\ db' = AfterWrite(req[h])
          /\ req' = [req EXCEPT ![h] =
               IF @.call.op = "setAvailability" THEN [@ EXCEPT !.pc = "flag"] ELSE Idle]
     ELSE /\ db' = db
          /\ req' = [req EXCEPT ![h] = Idle]
  /\ UNCHANGED <<fresh, requests, told, orderly>>

(* Defect: only the first link found is flagged, as for one platform.      *)
AfterFlagFirst(r) ==
  [i \in Ids |->
     IF \E x \in Platforms : LET found == ProductLinks(r.call.id, x)
                             IN  found # {} /\ i = CHOOSE j \in found : TRUE
     THEN [db[i] EXCEPT !.isSynced = FALSE] ELSE db[i]]

(* The UPDATE that flags the product's links, on every platform.           *)
AfterFlag(r) ==
  [i \in Ids |-> IF \E x \in Platforms : i \in ProductLinks(r.call.id, x)
                 THEN [db[i] EXCEPT !.isSynced = FALSE] ELSE db[i]]

FlagLinks(h) ==
  /\ req[h].pc = "flag"
  /\ db' = AfterFlag(req[h])
  /\ req' = [req EXCEPT ![h] = Idle]
  /\ UNCHANGED <<fresh, requests, told, orderly>>

(* A handler fails or dies with its process; the statement it was waiting  *)
(* for may have been committed.                                            *)
RequestCut(h) ==
  /\ req[h].pc # "idle"
  /\ req' = [req EXCEPT ![h] = Idle]
  /\ db' \in {db}
       \cup (IF req[h].pc = "write" /\ CanWrite(req[h]) THEN {AfterWrite(req[h])} ELSE {})
       \cup (IF req[h].pc = "flag" THEN {AfterFlag(req[h])} ELSE {})
  /\ orderly' = FALSE
  /\ UNCHANGED <<fresh, requests, told>>

-----------------------------------------------------------------------------
(* The handlers of one statement.                                          *)

Insert(i, row) ==
  /\ Admit /\ i \in fresh
  /\ LET after == [db EXCEPT ![i] = row] IN SchemaHolds(after) /\ db' = after
  /\ fresh' = fresh \ {i}
  /\ orderly' = (orderly /\ Alone)
  /\ UNCHANGED <<req, told>>

CreateStore == \E s \in Stores : Insert(s, [isActive |-> TRUE])

CreateCategory == \E c \in Categories : \E row \in CategoryRow : Insert(c, row)

CreateProduct == \E p \in Products : \E row \in ProductRow : Insert(p, row)

(* createMapping checks that the store exists, and stores are never        *)
(* deleted. The entity may be any id that was given to a row: uuids are    *)
(* generated on insert, so no body names one before.                       *)
CreateMapping ==
  \E i \in MappingIds, row \in NewMappings :
    row.internalEntityId \notin fresh /\ Insert(i, row)

Delete(i, after) ==
  /\ Admit /\ db[i] # NoRow
  /\ db' = after
  /\ orderly' = FALSE
  /\ UNCHANGED <<fresh, req, told>>

(* Defect: the foreign key of a product's category is missing.             *)
DeleteCategoryOnly == \E c \in Categories : Delete(c, [db EXCEPT ![c] = NoRow])

(* The database clears the category of its products.                       *)
DeleteCategory ==
  \E c \in Categories :
    Delete(c, [i \in Ids |-> IF i = c THEN NoRow
                             ELSE IF i \in Products /\ db[i] # NoRow /\ db[i].categoryId = c
                             THEN [db[i] EXCEPT !.categoryId = NoId] ELSE db[i]])

(* The product's mappings stay.                                            *)
DeleteProduct == \E p \in Products : Delete(p, [db EXCEPT ![p] = NoRow])

(* findOne, then remove, which deletes by id whatever the row has become.  *)
DeleteMapping == \E i \in MappingIds : Delete(i, [db EXCEPT ![i] = NoRow])

-----------------------------------------------------------------------------

HandlerStep(h) ==
  \/ FindRow(h) \/ FindProduct(h) \/ FindLink(h) \/ Reload(h)
  \/ WriteRow(h) \/ FlagLinks(h) \/ RequestCut(h)

CatalogNext ==
  \/ \E h \in Handlers : HandlerStep(h)
  \/ CreateStore \/ CreateCategory \/ CreateProduct \/ CreateMapping
  \/ DeleteCategory \/ DeleteProduct \/ DeleteMapping

CatalogSpec == CatalogInit /\ [][CatalogNext]_catalogVars

-----------------------------------------------------------------------------

(* The state is well formed.                                               *)
CatalogTypeOK ==
  /\ RowsInTables(db) /\ SchemaHolds(db)
  /\ \A i \in fresh : db[i] = NoRow
  /\ requests \in 0 .. MaxRequests
  /\ orderly \in BOOLEAN
  /\ \A h \in Handlers :
       /\ req[h].pc \in {"idle", "find", "reload", "write", "flag"}
       /\ req[h].call \in Updates \cup Links \cup PlatformAvailability \cup {NoCall}
       /\ {req[h].entity, req[h].base} \subseteq Rows \cup {NoRow}

(* Requests that ran one after the other, and changed availabilities and   *)
(* links by the endpoints made for it, leave no link marked as synced that *)
(* offers something else than what its platform was told.                  *)
SyncedIsCurrent ==
  orderly /\ Alone =>
    \A i \in MappingIds :
      db[i] # NoRow /\ db[i].entityType = "PRODUCT" /\ db[i].isSynced
        => told[i] = Offered(db[i])

(* The request is updateMapping's, about to write mapping i as synced over *)
(* a row it read back as flagged.                                          *)
CarriesSynced(r, i) ==
  /\ r.pc = "write" /\ r.row = i /\ r.call.op = "updateMapping"
  /\ r.entity.isSynced /\ ~r.base.isSynced
  /\ "isSynced" \in DOMAIN r.call.patch => r.call.patch.isSynced

(* However the requests interleave and fail, the flag that a link needs a  *)
(* push is taken away only by a save of updateMapping that carries it as   *)
(* synced into a row that its second read found flagged. So a PATCH of the *)
(* stores API that names isSynced takes it away only to set it, and one    *)
(* that does not, only if the link was flagged between its two reads: such *)
(* a stale save does undo the flag, as the code has no version column. No  *)
(* save of the catalog API and no other statement takes a flag away, stale *)
(* as it may be.                                                           *)
FlagClearedByStoresOnly ==
  [][\A i \in MappingIds :
       db[i] # NoRow /\ db'[i] # NoRow /\ ~db[i].isSynced /\ db'[i].isSynced
         => \E h \in Handlers : CarriesSynced(req[h], i)]_catalogVars

=============================================================================
