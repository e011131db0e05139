------------------------------ MODULE CatalogProofs -----------------------------
(***************************************************************************)
(* CatalogMappings, for any number of handlers, requests, rows, links and  *)
(* platforms.                                                              *)
(*                                                                         *)
(* No save of the catalog API takes away the flag that a link needs a      *)
(* push, stale as it may be, and one of the stores API only by writing     *)
(* isSynced over a row it read back as flagged. The argument is SaveInv:   *)
(* whatever a handler of the catalog API is about to save in a mapping's   *)
(* row has isSynced down, whatever updateMapping saves has it as the PATCH *)
(* says, if it does, and a save writes a column only if it differs from    *)
(* the row read back. That a stale PATCH can restore isSynced is not       *)
(* excluded: it is the one case left over.                                 *)
(*                                                                         *)
(* TypeInv adds that handlers hold rows of the tables they save in, which  *)
(* gives the type of the rows and, with the database's own checks, the     *)
(* foreign keys. SyncInv follows a request that runs alone through its     *)
(* statements: it writes the entity as it is, and a link marked as synced  *)
(* offers what was told, or the request is about to settle it.             *)
(***************************************************************************)
EXTENDS CatalogMappings, TLAPS

HasFlag(m) == "isSynced" \in DOMAIN m /\ m.isSynced \in BOOLEAN

(* Functions where they are updated, and a flag in every mapping.          *)
Shapes ==
  /\ DOMAIN db = Ids /\ DOMAIN req = Handlers
  /\ \A h \in Handlers : DOMAIN req[h] = {"pc", "call", "row", "entity", "base"}
  /\ \A i \in MappingIds : db[i] # NoRow => HasFlag(db[i])

FreshIsUnused ==
  /\ \A i \in fresh : i \in Ids /\ db[i] = NoRow
  /\ \A h \in Handlers : req[h].pc \in {"reload", "write"} => req[h].row \notin fresh

(* What a handler that is about to save holds of a mapping.                *)
PendingSave(r) ==
  /\ r.pc = "find" => r.base = NoRow /\ r.call.op # "updateMapping"
  /\ r.pc \in {"reload", "write"} /\ r.row \in MappingIds =>
       /\ HasFlag(r.entity)
       /\ r.call.op # "updateMapping" => r.entity.isSynced = FALSE
       /\ r.call.op = "updateMapping" /\ "isSynced" \in DOMAIN r.call.patch =>
            r.entity.isSynced = r.call.patch.isSynced
       /\ r.pc = "write" => r.base = NoRow \/ HasFlag(r.base)

SaveInv ==
  Shapes /\ FreshIsUnused /\ \A h \in Handlers : PendingSave(req[h])

(* An absent row is not a mapping.                                         *)
LEMMA NoRowHasNoFlag == ~HasFlag(NoRow)
  BY DEF HasFlag, NoRow

(* At the start nothing is under way.                                      *)
LEMMA SaveInitInv == CatalogInit => SaveInv
<1> SUFFICES ASSUME CatalogInit PROVE SaveInv
  OBVIOUS
<1>1. \A i \in MappingIds : db[i] # NoRow => HasFlag(db[i])
  BY CatalogAssumption DEF CatalogInit, RowsInTables, HasFlag, MappingRow
<1>2. DOMAIN db = Ids
  BY CatalogAssumption DEF CatalogInit, RowsInTables
<1> QED
  BY <1>1, <1>2 DEF CatalogInit, SaveInv, Shapes, FreshIsUnused, PendingSave, Idle

(* A step that leaves the rows of mappings and the other handlers alone    *)
(* keeps SaveInv if its own handler keeps its part of it.                  *)
LEMMA HandlerMoves ==
  ASSUME SaveInv, NEW h \in Handlers,
         DOMAIN req' = Handlers,
         \A k \in Handlers \ {h} : req'[k] = req[k],
         DOMAIN req'[h] = {"pc", "call", "row", "entity", "base"},
         PendingSave(req'[h]),
         req'[h].pc \in {"reload", "write"} => req'[h].row \notin fresh',
         fresh' \subseteq fresh, db' = db
  PROVE  SaveInv'
<1>1. Shapes'
  BY DEF SaveInv, Shapes
<1>2. FreshIsUnused'
  BY DEF SaveInv, FreshIsUnused
<1>3. \A k \in Handlers : PendingSave(req'[k])
  BY DEF SaveInv
<1> QED
  BY <1>1, <1>2, <1>3 DEF SaveInv

(* The same for a step that is through with its request.                   *)
LEMMA HandlerEnds ==
  ASSUME SaveInv, NEW h \in Handlers, req' = [req EXCEPT ![h] = Idle],
         fresh' = fresh, DOMAIN db' = Ids, \A i \in fresh : db'[i] = NoRow,
         \A i \in MappingIds : db'[i] # NoRow => HasFlag(db'[i])
  PROVE  SaveInv'
<1>1. \A k \in Handlers : req'[k] = req[k] \/ req'[k] = Idle
  BY DEF SaveInv, Shapes
<1>2. FreshIsUnused'
  BY <1>1 DEF SaveInv, FreshIsUnused, Idle
<1>3. PendingSave(Idle)
  BY DEF PendingSave, Idle
<1>4. \A k \in Handlers : PendingSave(req'[k])
  BY <1>1, <1>3 DEF SaveInv
<1>5. Shapes'
  BY <1>1 DEF SaveInv, Shapes, Idle
<1> QED
  BY <1>2, <1>4, <1>5 DEF SaveInv

(* Only a request of the stores API finds a mapping in order to save it.   *)
LEMMA FindRowKeepsInv ==
  ASSUME SaveInv, NEW h \in Handlers, FindRow(h)
  PROVE  SaveInv'
<1>1. PICK c \in Updates :
        /\ db[c.id] # NoRow
        /\ req' = [req EXCEPT ![h] = [pc |-> "reload", call |-> c, row |-> c.id,
                                      entity |-> Patched(db[c.id], c.patch), base |-> NoRow]]
  BY DEF FindRow
<1>2. /\ req'[h] = [pc |-> "reload", call |-> c, row |-> c.id,
                    entity |-> Patched(db[c.id], c.patch), base |-> NoRow]
      /\ DOMAIN req' = Handlers /\ \A k \in Handlers \ {h} : req'[k] = req[k]
  BY <1>1 DEF SaveInv, Shapes
<1>3. ASSUME c.id \in MappingIds PROVE c \in MappingUpdates
  BY <1>3, CatalogAssumption
     DEF Updates, ProductUpdates, CategoryUpdates, StoreUpdates, GlobalAvailability
<1>4. ASSUME c.id \in MappingIds
      PROVE  /\ HasFlag(Patched(db[c.id], c.patch))
             /\ "isSynced" \in DOMAIN c.patch =>
                  Patched(db[c.id], c.patch).isSynced = c.patch.isSynced
  <2>1. HasFlag(db[c.id])
    BY <1>1, <1>4 DEF SaveInv, Shapes
  <2>2. "isSynced" \in DOMAIN c.patch => c.patch.isSynced \in BOOLEAN
    BY <1>3, <1>4 DEF MappingUpdates, MappingPatch
  <2> QED
    BY <2>1, <2>2 DEF HasFlag, Patched
<1>5. PendingSave(req'[h])
  <2> DEFINE entity == Patched(db[c.id], c.patch)
  <2>1. /\ req'[h].pc = "reload" /\ req'[h].call = c /\ req'[h].row = c.id
        /\ req'[h].entity = entity
    BY <1>2
  <2>2. c.id \in MappingIds =>
          /\ HasFlag(entity) /\ c.op = "updateMapping"
          /\ "isSynced" \in DOMAIN c.patch => entity.isSynced = c.patch.isSynced
    BY <1>3, <1>4 DEF MappingUpdates
  <2> HIDE DEF entity
  <2> QED
    BY <2>1, <2>2 DEF PendingSave
<1>6. c.id \notin fresh
  BY <1>1 DEF SaveInv, FreshIsUnused
<1> QED
  BY <1>2, <1>5, <1>6, HandlerMoves DEF FindRow

(* A link or a platform's availability starts with nothing to save.        *)
LEMMA FindProductKeepsInv ==
  ASSUME SaveInv, NEW h \in Handlers, FindProduct(h)
  PROVE  SaveInv'
<1>1. PICK c \in Links \cup PlatformAvailability :
        req' = [req EXCEPT ![h] = [Idle EXCEPT !.pc = "find", !.call = c]]
  BY DEF FindProduct
<1>2. /\ DOMAIN req' = Handlers /\ \A k \in Handlers \ {h} : req'[k] = req[k]
      /\ DOMAIN req'[h] = {"pc", "call", "row", "entity", "base"}
      /\ req'[h].pc = "find" /\ req'[h].base = NoRow /\ req'[h].call = c
  BY <1>1 DEF SaveInv, Shapes, Idle
<1>3. c.op # "updateMapping"
  BY DEF Links, PlatformAvailability
<1> QED
  BY <1>2, <1>3, HandlerMoves DEF FindProduct, PendingSave

(* Whatever mapping it found or made, it saves it with the flag down.      *)
LEMMA FindLinkKeepsInv ==
  ASSUME SaveInv, NEW h \in Handlers, FindLink(h)
  PROVE  SaveInv'
<1> DEFINE c == req[h].call
<1>1. ASSUME req' = [req EXCEPT ![h] = Idle], fresh' = fresh
      PROVE  SaveInv'
  <2>1. db' = db /\ DOMAIN db = Ids /\ \A i \in fresh : db[i] = NoRow
    BY DEF FindLink, SaveInv, Shapes, FreshIsUnused
  <2>2. \A i \in MappingIds : db'[i] # NoRow => HasFlag(db'[i])
    BY <2>1 DEF SaveInv, Shapes
  <2> QED
    BY <1>1, <2>1, <2>2, HandlerEnds
<1>2. ASSUME NEW i \in MappingIds, db[i] # NoRow, fresh' = fresh,
             req' = [req EXCEPT ![h].pc = "reload", ![h].row = i,
                                ![h].entity = Relinked(c, db[i])]
      PROVE  SaveInv'
  <2>1. /\ DOMAIN req' = Handlers /\ \A k \in Handlers \ {h} : req'[k] = req[k]
        /\ DOMAIN req'[h] = {"pc", "call", "row", "entity", "base"}
        /\ req'[h].pc = "reload" /\ req'[h].row = i /\ req'[h].entity = Relinked(c, db[i])
        /\ req'[h].call = c /\ c.op # "updateMapping"
    BY <1>2 DEF FindLink, SaveInv, Shapes, PendingSave
  <2>2. HasFlag(Relinked(c, db[i])) /\ Relinked(c, db[i]).isSynced = FALSE
    BY <1>2 DEF SaveInv, Shapes, HasFlag, Relinked
  <2>3. PendingSave(req'[h])
    BY <2>1, <2>2 DEF PendingSave
  <2>4. i \notin fresh
    BY <1>2 DEF SaveInv, FreshIsUnused
  <2>5. db' = db
    BY DEF FindLink
  <2> HIDE DEF c
  <2> QED
    BY <1>2, <2>1, <2>3, <2>4, <2>5, HandlerMoves
<1>3. ASSUME NEW i \in fresh \cap MappingIds, fresh' = fresh \ {i}, req[h].pc = "find",
             req' = [req EXCEPT ![h].pc = "write", ![h].row = i,
                                ![h].entity = NewLink(c)]
      PROVE  SaveInv'
  <2>1. /\ DOMAIN req' = Handlers /\ \A k \in Handlers \ {h} : req'[k] = req[k]
        /\ DOMAIN req'[h] = {"pc", "call", "row", "entity", "base"}
        /\ req'[h].pc = "write" /\ req'[h].row = i /\ req'[h].entity = NewLink(c)
        /\ req'[h].base = req[h].base /\ req'[h].call = c /\ c.op # "updateMapping"
    BY <1>3 DEF SaveInv, Shapes, PendingSave
  <2>2. HasFlag(NewLink(c)) /\ NewLink(c).isSynced = FALSE
    BY DEF HasFlag, NewLink
  <2>3. req[h].base = NoRow
    BY <1>3 DEF SaveInv, PendingSave
  <2>4. PendingSave(req'[h])
    BY <2>1, <2>2, <2>3 DEF PendingSave
  <2>5. db' = db
    BY DEF FindLink
  <2> HIDE DEF c
  <2> QED
    BY <1>3, <2>1, <2>4, <2>5, HandlerMoves
<1> QED
  BY <1>1, <1>2, <1>3 DEF FindLink, ProductLinks

(* save keeps the row it reads back to compare with.                       *)
LEMMA ReloadKeepsInv ==
  ASSUME SaveInv, NEW h \in Handlers, Reload(h)
  PROVE  SaveInv'
<1> DEFINE r == req[h].row
<1>1. /\ DOMAIN req' = Handlers /\ \A k \in Handlers \ {h} : req'[k] = req[k]
      /\ DOMAIN req'[h] = {"pc", "call", "row", "entity", "base"}
      /\ req'[h].pc = "write" /\ req'[h].row = r /\ req'[h].base = db[r]
      /\ req'[h].entity = req[h].entity /\ req'[h].call = req[h].call
  BY DEF SaveInv, Shapes, Reload
<1>2. req[h].pc = "reload" /\ db' = db /\ fresh' = fresh
  BY DEF Reload
<1>3. r \notin fresh
  BY <1>2 DEF SaveInv, FreshIsUnused
<1>4. r \in MappingIds => db[r] = NoRow \/ HasFlag(db[r])
  BY DEF SaveInv, Shapes
<1>5. PendingSave(req'[h])
  BY <1>1, <1>2, <1>4 DEF SaveInv, PendingSave
<1> HIDE DEF r
<1> QED
  BY <1>1, <1>2, <1>3, <1>5, HandlerMoves

(* A save leaves the flag of its mapping as it is, takes it down, or       *)
(* raises it for the stores API; the other rows stay.                      *)
LEMMA SavedFlag ==
  ASSUME SaveInv, NEW h \in Handlers, req[h].pc = "write", CanWrite(req[h])
  PROVE  /\ DOMAIN AfterWrite(req[h]) = Ids
         /\ \A i \in fresh : AfterWrite(req[h])[i] = NoRow
         /\ \A i \in MappingIds : AfterWrite(req[h])[i] # NoRow =>
              HasFlag(AfterWrite(req[h])[i])
         /\ \A i \in MappingIds :
              db[i] # NoRow /\ AfterWrite(req[h])[i] # NoRow
                /\ ~db[i].isSynced /\ AfterWrite(req[h])[i].isSynced
              => CarriesSynced(req[h], i)
<1> DEFINE r == req[h]
           saved == SavedRow(r)
<1>1. /\ DOMAIN db = Ids /\ \A i \in fresh : db[i] = NoRow
      /\ \A i \in MappingIds : db[i] # NoRow => HasFlag(db[i])
      /\ r.row \notin fresh
  BY DEF SaveInv, Shapes, FreshIsUnused
<1>2. /\ DOMAIN AfterWrite(r) = Ids
      /\ \A i \in Ids : AfterWrite(r)[i] = IF i = r.row THEN saved ELSE db[i]
  BY <1>1 DEF AfterWrite
<1>3. r.row \in MappingIds =>
        /\ HasFlag(r.entity) /\ (r.call.op # "updateMapping" => r.entity.isSynced = FALSE)
        /\ r.base = NoRow \/ HasFlag(r.base)
        /\ r.call.op = "updateMapping" /\ "isSynced" \in DOMAIN r.call.patch =>
             r.entity.isSynced = r.call.patch.isSynced
  BY DEF SaveInv, PendingSave
<1>4. ASSUME r.row \in MappingIds, saved # NoRow
      PROVE  /\ HasFlag(saved)
             /\ db[r.row] # NoRow /\ ~db[r.row].isSynced /\ saved.isSynced
                  => CarriesSynced(r, r.row)
  <2>1. CASE r.base = NoRow
    <3>1. saved = r.entity /\ db[r.row] = NoRow
      BY <2>1 DEF SavedRow, CanWrite
    <3> HIDE DEF saved
    <3> QED
      BY <1>3, <1>4, <3>1
  <2>2. CASE r.base # NoRow
    <3>1. db[r.row] # NoRow /\ HasFlag(db[r.row]) /\ HasFlag(r.base) /\ HasFlag(r.entity)
      BY <1>1, <1>3, <1>4, <2>2 DEF SavedRow
    <3>2. saved = [c \in DOMAIN r.base |->
                     IF r.entity[c] # r.base[c] THEN r.entity[c] ELSE db[r.row][c]]
      BY <3>1, <2>2 DEF SavedRow
    <3>3. /\ "isSynced" \in DOMAIN saved
          /\ saved.isSynced = IF r.entity.isSynced # r.base.isSynced THEN r.entity.isSynced
                              ELSE db[r.row].isSynced
      BY <3>1, <3>2 DEF HasFlag
    <3> HIDE DEF saved
    <3>4. HasFlag(saved)
      BY <3>1, <3>3 DEF HasFlag
    <3>5. ASSUME ~db[r.row].isSynced, saved.isSynced PROVE CarriesSynced(r, r.row)
      <4>1. r.entity.isSynced = TRUE /\ r.base.isSynced = FALSE
        BY <3>1, <3>3, <3>5 DEF HasFlag
      <4>2. r.pc = "write" /\ r.call.op = "updateMapping"
        BY <1>3, <1>4, <4>1
      <4> QED
        BY <1>3, <1>4, <4>1, <4>2 DEF CarriesSynced
    <3> QED
      BY <3>4, <3>5
  <2> QED
    BY <2>1, <2>2
<1>5. fresh \subseteq Ids => \A i \in fresh : AfterWrite(r)[i] = NoRow
  BY <1>1, <1>2
<1> HIDE DEF r, saved
<1>6. \A i \in MappingIds : i \in Ids
  BY DEF Ids
<1>7. \A i \in MappingIds : AfterWrite(r)[i] # NoRow => HasFlag(AfterWrite(r)[i])
  BY <1>1, <1>2, <1>4, <1>6
<1>8. \A i \in MappingIds :
        db[i] # NoRow /\ AfterWrite(r)[i] # NoRow /\ ~db[i].isSynced /\ AfterWrite(r)[i].isSynced
        => CarriesSynced(r, i)
  BY <1>1, <1>2, <1>4, <1>6
<1> QED
  BY <1>1, <1>2, <1>5, <1>7, <1>8 DEF r, SaveInv, FreshIsUnused

(* Flagging a product's links raises no flag and touches nothing else.     *)
LEMMA FlaggedLinks ==
  ASSUME SaveInv, NEW r
  PROVE  /\ DOMAIN AfterFlag(r) = Ids
         /\ \A i \in fresh : AfterFlag(r)[i] = NoRow
         /\ \A i \in MappingIds : AfterFlag(r)[i] # NoRow => HasFlag(AfterFlag(r)[i])
         /\ \A i \in MappingIds :
              db[i] # NoRow /\ AfterFlag(r)[i] # NoRow /\ ~db[i].isSynced
              => ~AfterFlag(r)[i].isSynced
<1>1. DOMAIN AfterFlag(r) = Ids
  BY DEF AfterFlag
<1>2. ASSUME NEW i \in Ids
      PROVE  \/ AfterFlag(r)[i] = db[i]
             \/ /\ i \in MappingIds /\ db[i] # NoRow
                /\ AfterFlag(r)[i] = [db[i] EXCEPT !.isSynced = FALSE]
  BY DEF AfterFlag, ProductLinks
<1>3. \A i \in fresh : i \in Ids /\ db[i] = NoRow
  BY DEF SaveInv, FreshIsUnused
<1>4. ASSUME NEW i \in MappingIds, AfterFlag(r)[i] # NoRow
      PROVE  /\ HasFlag(AfterFlag(r)[i])
             /\ db[i] # NoRow /\ ~db[i].isSynced => ~AfterFlag(r)[i].isSynced
  <2>1. i \in Ids
    BY DEF Ids
  <2>2. db[i] # NoRow => HasFlag(db[i])
    BY DEF SaveInv, Shapes
  <2>3. CASE AfterFlag(r)[i] = db[i]
    BY <1>4, <2>2, <2>3
  <2>4. CASE db[i] # NoRow /\ AfterFlag(r)[i] = [db[i] EXCEPT !.isSynced = FALSE]
    BY <2>2, <2>4 DEF HasFlag
  <2> QED
    BY <1>2, <2>1, <2>3, <2>4
<1> QED
  BY <1>1, <1>2, <1>3, <1>4

(* What takes no flag away but for a save that carries isSynced.           *)
ClearsNoFlag ==
  \A i \in MappingIds :
    db[i] # NoRow /\ db'[i] # NoRow /\ ~db[i].isSynced /\ db'[i].isSynced
      => \E h \in Handlers : CarriesSynced(req[h], i)

(* The end of a save, committed or refused.                                *)
LEMMA WriteRowKeepsInv ==
  ASSUME SaveInv, NEW h \in Handlers, WriteRow(h)
  PROVE  SaveInv' /\ ClearsNoFlag
<1>1. req[h].pc = "write" /\ fresh' = fresh
  BY DEF WriteRow
<1>2. CASE db' = db /\ req' = [req EXCEPT ![h] = Idle]
  <2>1. /\ DOMAIN db = Ids /\ \A i \in fresh : db[i] = NoRow
        /\ \A i \in MappingIds : db[i] # NoRow => HasFlag(db[i])
    BY DEF SaveInv, Shapes, FreshIsUnused
  <2> QED
    BY <1>1, <1>2, <2>1, HandlerEnds DEF ClearsNoFlag
<1>3. CASE /\ CanWrite(req[h]) /\ db' = AfterWrite(req[h])
           /\ req' = [req EXCEPT ![h] =
                IF @.call.op = "setAvailability" THEN [@ EXCEPT !.pc = "flag"] ELSE Idle]
  <2>1. \A k \in Handlers :
          \/ req'[k] = req[k] /\ k # h
          \/ DOMAIN req'[k] = {"pc", "call", "row", "entity", "base"} /\ req'[k].pc \in {"idle", "flag"}
    BY <1>3 DEF SaveInv, Shapes, Idle
  <2>2. DOMAIN req' = Handlers
    BY <1>3 DEF SaveInv, Shapes
  <2>3. Shapes'
    BY <1>1, <1>3, <2>1, <2>2, SavedFlag DEF SaveInv, Shapes
  <2>4. FreshIsUnused'
    BY <1>1, <1>3, <2>1, SavedFlag DEF SaveInv, FreshIsUnused
  <2>5. \A k \in Handlers : PendingSave(req'[k])
    BY <2>1 DEF SaveInv, PendingSave
  <2>6. ClearsNoFlag
    BY <1>1, <1>3, SavedFlag DEF ClearsNoFlag
  <2> QED
    BY <2>3, <2>4, <2>5, <2>6 DEF SaveInv
<1> QED
  BY <1>2, <1>3 DEF WriteRow

(* The UPDATE after a product's availability.                              *)
LEMMA FlagLinksKeepsInv ==
  ASSUME SaveInv, NEW h \in Handlers, FlagLinks(h)
  PROVE  SaveInv' /\ ClearsNoFlag
BY HandlerEnds, FlaggedLinks DEF FlagLinks, ClearsNoFlag

(* A request that is cut, before or after what it waited for committed.    *)
LEMMA RequestCutKeepsInv ==
  ASSUME SaveInv, NEW h \in Handlers, RequestCut(h)
  PROVE  SaveInv' /\ ClearsNoFlag
<1>1. req' = [req EXCEPT ![h] = Idle] /\ fresh' = fresh
  BY DEF RequestCut
<1>2. CASE db' = db
  <2>1. /\ DOMAIN db = Ids /\ \A i \in fresh : db[i] = NoRow
        /\ \A i \in MappingIds : db[i] # NoRow => HasFlag(db[i])
    BY DEF SaveInv, Shapes, FreshIsUnused
  <2> QED
    BY <1>1, <1>2, <2>1, HandlerEnds DEF ClearsNoFlag
<1>3. CASE req[h].pc = "write" /\ CanWrite(req[h]) /\ db' = AfterWrite(req[h])
  BY <1>1, <1>3, SavedFlag, HandlerEnds DEF ClearsNoFlag
<1>4. CASE req[h].pc = "flag" /\ db' = AfterFlag(req[h])
  BY <1>1, <1>4, FlaggedLinks, HandlerEnds DEF ClearsNoFlag
<1> QED
  BY <1>2, <1>3, <1>4 DEF RequestCut

(* A step of one statement: rows that come, go or keep their flag.         *)
LEMMA RowsChange ==
  ASSUME SaveInv, DOMAIN db' = Ids, req' = req, fresh' \subseteq fresh,
         \A i \in fresh' : db'[i] = NoRow,
         \A i \in MappingIds : db'[i] = NoRow \/ db'[i] = db[i] \/ (i \in fresh /\ HasFlag(db'[i]))
  PROVE  SaveInv' /\ ClearsNoFlag
<1>1. Shapes'
  BY DEF SaveInv, Shapes
<1>2. FreshIsUnused'
  BY DEF SaveInv, FreshIsUnused
<1>3. ClearsNoFlag
  BY DEF SaveInv, FreshIsUnused, ClearsNoFlag
<1> QED
  BY <1>1, <1>2, <1>3 DEF SaveInv

(* A new row has a new id, and a mapping's flag is down.                   *)
LEMMA InsertKeepsInv ==
  ASSUME SaveInv, NEW i \in Ids, NEW new, Insert(i, new), i \in MappingIds => HasFlag(new)
  PROVE  SaveInv' /\ ClearsNoFlag
<1>1. DOMAIN db = Ids /\ \A j \in fresh : j \in Ids /\ db[j] = NoRow
  BY DEF SaveInv, Shapes, FreshIsUnused
<1>2. /\ i \in fresh /\ db' = [db EXCEPT ![i] = new] /\ fresh' = fresh \ {i} /\ req' = req
  BY DEF Insert
<1>3. DOMAIN db' = Ids /\ \A j \in Ids : db'[j] = IF j = i THEN new ELSE db[j]
  BY <1>1, <1>2
<1>4. \A j \in MappingIds : db'[j] = NoRow \/ db'[j] = db[j] \/ (j \in fresh /\ HasFlag(db'[j]))
  BY <1>2, <1>3 DEF Ids
<1>5. \A j \in fresh' : db'[j] = NoRow
  BY <1>1, <1>2, <1>3
<1>6. DOMAIN db' = Ids /\ req' = req /\ fresh' \subseteq fresh
  BY <1>2, <1>3
<1> QED
  BY <1>4, <1>5, <1>6, RowsChange

(* The creations.                                                          *)
LEMMA CreateKeepsInv ==
  ASSUME SaveInv, CreateStore \/ CreateCategory \/ CreateProduct \/ CreateMapping
  PROVE  SaveInv' /\ ClearsNoFlag
<1>1. CASE CreateStore
  BY <1>1, InsertKeepsInv, CatalogAssumption DEF CreateStore, Ids
<1>2. CASE CreateCategory
  BY <1>2, InsertKeepsInv, CatalogAssumption DEF CreateCategory, Ids
<1>3. CASE CreateProduct
  BY <1>3, InsertKeepsInv, CatalogAssumption DEF CreateProduct, Ids
<1>4. CASE CreateMapping
  <2>1. \A new \in NewMappings : HasFlag(new)
    BY DEF NewMappings, HasFlag
  <2> QED
    BY <1>4, <2>1, InsertKeepsInv DEF CreateMapping, Ids
<1> QED
  BY <1>1, <1>2, <1>3, <1>4

(* The deletions.                                                          *)
LEMMA DeleteKeepsInv ==
  ASSUME SaveInv, DeleteCategory \/ DeleteProduct \/ DeleteMapping
  PROVE  SaveInv' /\ ClearsNoFlag
<1>1. DOMAIN db = Ids /\ \A j \in fresh : j \in Ids /\ db[j] = NoRow
  BY DEF SaveInv, Shapes, FreshIsUnused
<1>2. \A j \in MappingIds : j \in Ids /\ j \notin Products
  BY CatalogAssumption DEF Ids
<1>3. fresh' = fresh /\ req' = req
  BY DEF DeleteCategory, DeleteProduct, DeleteMapping, Delete
<1>4. /\ DOMAIN db' = Ids /\ \A j \in fresh : db'[j] = NoRow
      /\ \A j \in MappingIds : db'[j] = NoRow \/ db'[j] = db[j]
  <2>1. CASE DeleteCategory
    BY <1>1, <1>2, <2>1 DEF DeleteCategory, Delete
  <2>2. CASE DeleteProduct
    BY <1>1, <1>2, <2>2 DEF DeleteProduct, Delete
  <2>3. CASE DeleteMapping
    BY <1>1, <1>2, <2>3 DEF DeleteMapping, Delete
  <2> QED
    BY <2>1, <2>2, <2>3
<1>5. fresh' \subseteq fresh /\ \A j \in fresh' : db'[j] = NoRow
  BY <1>3, <1>4
<1> QED
  BY <1>3, <1>4, <1>5, RowsChange

(* SaveInv is inductive, and under it no step clears a flag.               *)
LEMMA SaveInvStep == SaveInv /\ [CatalogNext]_catalogVars => SaveInv' /\ ClearsNoFlag
<1> SUFFICES ASSUME SaveInv, [CatalogNext]_catalogVars PROVE SaveInv' /\ ClearsNoFlag
  OBVIOUS
<1>1. ASSUME UNCHANGED <<db, fresh, req>> PROVE SaveInv'
  BY <1>1 DEF SaveInv, Shapes, FreshIsUnused
<1>2. ASSUME db' = db PROVE ClearsNoFlag
  BY <1>2 DEF ClearsNoFlag
<1>3. CASE UNCHANGED catalogVars
  BY <1>1, <1>2, <1>3 DEF catalogVars
<1>4. ASSUME NEW h \in Handlers, FindRow(h) \/ FindProduct(h) \/ FindLink(h) \/ Reload(h)
      PROVE  SaveInv' /\ ClearsNoFlag
  <2>1. db' = db
    BY <1>4 DEF FindRow, FindProduct, FindLink, Reload
  <2> QED
    BY <1>2, <1>4, <2>1, FindRowKeepsInv, FindProductKeepsInv, FindLinkKeepsInv, ReloadKeepsInv
<1>5. ASSUME NEW h \in Handlers, WriteRow(h) \/ FlagLinks(h) \/ RequestCut(h)
      PROVE  SaveInv' /\ ClearsNoFlag
  BY <1>5, WriteRowKeepsInv, FlagLinksKeepsInv, RequestCutKeepsInv
<1> QED
  BY <1>3, <1>4, <1>5, CreateKeepsInv, DeleteKeepsInv DEF CatalogNext, HandlerStep

(* However requests interleave and fail, only a save of updateMapping that *)
(* carries isSynced takes away the flag that a link needs a push, and a    *)
(* PATCH that names isSynced only by setting it; no save of                *)
(* CatalogService.linkToPlatform or setAvailability does, nor the UPDATE   *)
(* that flags a product's links. A stale PATCH of something else may still *)
(* restore isSynced (StoresService.updateMapping and TypeORM's save).      *)
THEOREM FlagIsClearedByStoresOnly == CatalogSpec => FlagClearedByStoresOnly
<1>1. CatalogInit => SaveInv
  BY SaveInitInv
<1>2. SaveInv /\ [CatalogNext]_catalogVars => SaveInv'
  BY SaveInvStep
<1>3. SaveInv /\ [CatalogNext]_catalogVars =>
        [\A i \in MappingIds :
           db[i] # NoRow /\ db'[i] # NoRow /\ ~db[i].isSynced /\ db'[i].isSynced
             => \E h \in Handlers : CarriesSynced(req[h], i)]_catalogVars
  BY SaveInvStep DEF ClearsNoFlag
<1> QED
  BY <1>1, <1>2, <1>3, PTL DEF CatalogSpec, FlagClearedByStoresOnly

-----------------------------------------------------------------------------
(* Well-formed rows and requests.                                          *)

InTable(i, r) ==
  /\ i \in Stores => r \in StoreRow
  /\ i \in Categories => r \in CategoryRow
  /\ i \in Products => r \in ProductRow
  /\ i \in MappingIds => r \in MappingRow

(* What a handler holds at each point of a request.                        *)
RequestOK(r) ==
  /\ r.pc \in {"idle", "find", "reload", "write", "flag"}
  /\ r.call \in Updates \cup Links \cup PlatformAvailability \cup {NoCall}
  /\ {r.entity, r.base} \subseteq Rows \cup {NoRow}
  /\ r.pc = "find" => r.call \in Links \cup PlatformAvailability
  /\ r.pc \in {"reload", "write"} =>
       /\ r.row \in Ids /\ InTable(r.row, r.entity)
       /\ r.base = NoRow \/ InTable(r.row, r.base)

TypeInv == SaveInv /\ CatalogTypeOK /\ \A h \in Handlers : RequestOK(req[h])

-----------------------------------------------------------------------------
(* Links that are marked as synced.                                        *)

(* No mapping names an id that no row was given yet.                       *)
FreshIsUnnamed ==
  /\ \A i \in MappingIds : db[i] # NoRow => db[i].internalEntityId \notin fresh
  /\ \A h \in Handlers :
       /\ req[h].pc = "find" => req[h].call.id \notin fresh
       /\ req[h].pc \in {"reload", "write"} /\ req[h].row \in MappingIds =>
            req[h].entity.internalEntityId \notin fresh

OneAtATime ==
  \A g, h \in Handlers : req[g].pc # "idle" /\ req[h].pc # "idle" => g = h

Marked(m) == m # NoRow /\ m.entityType = "PRODUCT" /\ m.isSynced

(* The request is about to write what the mapping's platform was told, or  *)
(* to flag the mapping, m in row i.                                        *)
WillSettle(r, i, m) ==
  \/ r.pc \in {"reload", "write"} /\ r.row = i /\ r.call.op = "updateMapping"
  \/ r.pc = "flag" /\ r.call.op = "setAvailability" /\ m.internalEntityId = r.call.id

MarkedIsCurrent ==
  \A i \in MappingIds : Marked(db[i]) =>
    told[i] = Offered(db[i]) \/ \E h \in Handlers : WillSettle(req[h], i, db[i])

(* A save of handlers that run one by one writes the entity as it is, into *)
(* the row that it found.                                                  *)
SaveIsCurrent(r) ==
  r.pc \in {"reload", "write"} =>
    /\ r.pc = "reload" => db[r.row] # NoRow
    /\ r.pc = "write" => r.base = db[r.row]
    /\ r.row \in MappingIds /\ Marked(r.entity) => told[r.row] = Offered(r.entity)
    /\ r.call.op = "updateMapping" =>
         db[r.row] # NoRow /\ MappingKey(r.entity) = MappingKey(db[r.row])
    /\ r.row \in Products =>
         /\ db[r.row] # NoRow
         /\ IF r.call.op = "setAvailability" THEN r.call.id = r.row
            ELSE r.entity.isAvailable = db[r.row].isAvailable

SyncInv ==
  /\ DOMAIN told = MappingIds /\ FreshIsUnnamed
  /\ orderly => OneAtATime /\ MarkedIsCurrent /\ \A h \in Handlers : SaveIsCurrent(req[h])

-----------------------------------------------------------------------------
(* Rows.                                                                   *)

(* A row of a table is there, and has its table's columns.                 *)
LEMMA Columns ==
  /\ \A r \in StoreRow : r # NoRow /\ DOMAIN r = {"isActive"}
  /\ \A r \in CategoryRow : r # NoRow /\ DOMAIN r = {"storeId", "isVisible"}
  /\ \A r \in ProductRow : r # NoRow /\ DOMAIN r = {"categoryId", "isAvailable"}
  /\ \A r \in MappingRow :
       /\ r # NoRow
       /\ DOMAIN r = {"storeId", "entityType", "internalEntityId", "platformName",
                      "platformMetadata", "isSynced"}
  BY DEF StoreRow, CategoryRow, ProductRow, MappingRow, NoRow

(* An id belongs to one table.                                             *)
LEMMA OneTable ==
  /\ \A i \in Stores : i \in Ids /\ i \notin Categories \cup Products \cup MappingIds
  /\ \A i \in Categories : i \in Ids /\ i \notin Stores \cup Products \cup MappingIds
  /\ \A i \in Products : i \in Ids /\ i \notin Stores \cup Categories \cup MappingIds
  /\ \A i \in MappingIds : i \in Ids /\ i \notin Stores \cup Categories \cup Products
  /\ Ids = Stores \cup Categories \cup Products \cup MappingIds
  BY CatalogAssumption DEF Ids

LEMMA RowIsInTable ==
  ASSUME NEW d, RowsInTables(d), NEW i \in Ids, d[i] # NoRow
  PROVE  InTable(i, d[i])
  BY OneTable DEF RowsInTables, InTable

(* A row of a table is a row.                                              *)
LEMMA TableRowIsRow ==
  ASSUME NEW i \in Ids, NEW r, InTable(i, r)
  PROVE  r \in Rows /\ r # NoRow
  BY OneTable, Columns DEF InTable, Rows

(* Rows stay in their tables when one of them is replaced, or removed.     *)
LEMMA RowReplaced ==
  ASSUME NEW d, RowsInTables(d), NEW i \in Ids, NEW r, r = NoRow \/ InTable(i, r)
  PROVE  /\ RowsInTables([d EXCEPT ![i] = r])
         /\ \A j \in Ids : [d EXCEPT ![i] = r][j] = IF j = i THEN r ELSE d[j]
<1>1. d \in [Ids -> Rows \cup {NoRow}]
  BY DEF RowsInTables
<1>2. r \in Rows \cup {NoRow}
  BY TableRowIsRow
<1> DEFINE e == [d EXCEPT ![i] = r]
<1>3. e \in [Ids -> Rows \cup {NoRow}] /\ \A j \in Ids : e[j] = IF j = i THEN r ELSE d[j]
  BY <1>1, <1>2
<1> HIDE DEF e
<1>4. RowsInTables(e)
  BY <1>3, OneTable DEF RowsInTables, InTable
<1> QED
  BY <1>3, <1>4 DEF e

-----------------------------------------------------------------------------
(* What the handlers make of a row is a row of the same table.             *)

LEMMA ProductPatched ==
  ASSUME NEW row \in ProductRow, NEW patch \in ProductPatch
  PROVE  /\ Patched(row, patch) \in ProductRow
         /\ "isAvailable" \notin DOMAIN patch =>
              Patched(row, patch).isAvailable = row.isAvailable
<1>1. DOMAIN row = {"categoryId", "isAvailable"}
  BY Columns
<1>2. patch \in [isAvailable: BOOLEAN] \/ patch \in [categoryId: Categories \cup {NoId}]
  BY DEF ProductPatch
<1>3. Patched(row, patch) =
        [c \in {"categoryId", "isAvailable"} |->
           IF c \in DOMAIN patch THEN patch[c] ELSE row[c]]
  BY <1>1 DEF Patched
<1>4. CASE patch \in [isAvailable: BOOLEAN]
  <2>1. DOMAIN patch = {"isAvailable"} /\ patch.isAvailable \in BOOLEAN
    BY <1>4
  <2>2. Patched(row, patch) = [categoryId |-> row.categoryId, isAvailable |-> patch.isAvailable]
    BY <1>3, <2>1
  <2> QED
    BY <2>1, <2>2 DEF ProductRow
<1>5. CASE patch \in [categoryId: Categories \cup {NoId}]
  <2>1. DOMAIN patch = {"categoryId"} /\ patch.categoryId \in Categories \cup {NoId}
    BY <1>5
  <2>2. Patched(row, patch) = [categoryId |-> patch.categoryId, isAvailable |-> row.isAvailable]
    BY <1>3, <2>1
  <2> QED
    BY <2>1, <2>2 DEF ProductRow
<1> QED
  BY <1>2, <1>4, <1>5

LEMMA MappingPatched ==
  ASSUME NEW row \in MappingRow, NEW patch \in MappingPatch
  PROVE  /\ Patched(row, patch) \in MappingRow
         /\ MappingKey(Patched(row, patch)) = MappingKey(row)
         /\ Patched(row, patch).internalEntityId = row.internalEntityId
         /\ Patched(row, patch).isSynced =
              IF "isSynced" \in DOMAIN patch THEN patch.isSynced ELSE row.isSynced
<1> DEFINE metadata == IF "platformMetadata" \in DOMAIN patch THEN patch.platformMetadata
                       ELSE row.platformMetadata
           synced == IF "isSynced" \in DOMAIN patch THEN patch.isSynced ELSE row.isSynced
           new == [storeId |-> row.storeId, entityType |-> row.entityType,
                   internalEntityId |-> row.internalEntityId,
                   platformName |-> row.platformName,
                   platformMetadata |-> metadata, isSynced |-> synced]
<1>1. /\ DOMAIN patch \subseteq {"platformMetadata", "isSynced"}
      /\ "platformMetadata" \in DOMAIN patch => patch.platformMetadata \in Metadata
      /\ "isSynced" \in DOMAIN patch => patch.isSynced \in BOOLEAN
  BY DEF MappingPatch
<1>2. DOMAIN row = {"storeId", "entityType", "internalEntityId", "platformName",
                    "platformMetadata", "isSynced"}
  BY Columns
<1>3. Patched(row, patch) = new
  BY <1>1, <1>2 DEF Patched
<1>4. metadata \in Metadata /\ synced \in BOOLEAN
  BY <1>1 DEF MappingRow
<1> HIDE DEF metadata, synced
<1>5. new \in MappingRow
  BY <1>4 DEF MappingRow
<1>6. /\ MappingKey(new) = MappingKey(row) /\ new.internalEntityId = row.internalEntityId
      /\ new.isSynced = synced
  BY DEF MappingKey
<1> HIDE DEF new
<1> QED
  BY <1>3, <1>5, <1>6 DEF synced

(* Every update patches a row of its table into another one.               *)
LEMMA UpdatedRow ==
  ASSUME NEW d, RowsInTables(d), NEW c \in Updates, d[c.id] # NoRow
  PROVE  c.id \in Ids /\ InTable(c.id, Patched(d[c.id], c.patch))
<1>1. CASE c \in ProductUpdates \/ c \in GlobalAvailability
  <2>1. c.id \in Products /\ c.patch \in ProductPatch
    BY <1>1 DEF ProductUpdates, GlobalAvailability, ProductPatch
  <2>2. d[c.id] \in ProductRow
    BY <2>1 DEF RowsInTables
  <2> QED
    BY <2>1, <2>2, ProductPatched, OneTable DEF InTable
<1>2. CASE c \in CategoryUpdates
  <2>1. c.id \in Categories /\ c.patch \in CategoryRow
    BY <1>2 DEF CategoryUpdates
  <2>2. d[c.id] \in CategoryRow
    BY <2>1 DEF RowsInTables
  <2>3. Patched(d[c.id], c.patch) = c.patch
    BY <2>1, <2>2 DEF Patched, CategoryRow
  <2> QED
    BY <2>1, <2>3, OneTable DEF InTable
<1>3. CASE c \in StoreUpdates
  <2>1. c.id \in Stores /\ c.patch \in StoreRow
    BY <1>3 DEF StoreUpdates
  <2>2. d[c.id] \in StoreRow
    BY <2>1 DEF RowsInTables
  <2>3. Patched(d[c.id], c.patch) = c.patch
    BY <2>1, <2>2 DEF Patched, StoreRow
  <2> QED
    BY <2>1, <2>3, OneTable DEF InTable
<1>4. CASE c \in MappingUpdates
  <2>1. c.id \in MappingIds /\ c.patch \in MappingPatch
    BY <1>4 DEF MappingUpdates
  <2>2. d[c.id] \in MappingRow
    BY <2>1 DEF RowsInTables
  <2> QED
    BY <2>1, <2>2, MappingPatched, OneTable DEF InTable
<1> QED
  BY <1>1, <1>2, <1>3, <1>4 DEF Updates

(* What a link or a platform's availability saves is a mapping.            *)
LEMMA RelinkedRow ==
  ASSUME NEW c \in Links \cup PlatformAvailability, NEW m \in MappingRow
  PROVE  /\ Relinked(c, m) \in MappingRow /\ Relinked(c, m).isSynced = FALSE
         /\ Relinked(c, m).internalEntityId = m.internalEntityId
<1> DEFINE metadata == IF c.op = "link"
                       THEN c.platformMetadata
                       ELSE [m.platformMetadata EXCEPT !.is_available = c.is_available]
<1>1. metadata \in Metadata
  <2>1. CASE c \in Links
    <3>1. c.op = "link" /\ c.platformMetadata \in Metadata
      BY <2>1 DEF Links
    <3> QED
      BY <3>1 DEF Metadata
  <2>2. CASE c \in PlatformAvailability
    <3>1. c.op # "link" /\ c.is_available \in {"yes", "no"}
      BY <2>2 DEF PlatformAvailability
    <3>2. m.platformMetadata \in Metadata
      BY DEF MappingRow
    <3> QED
      BY <3>1, <3>2 DEF Metadata
  <2> QED
    BY <2>1, <2>2
<1>2. Relinked(c, m) = [m EXCEPT !.isSynced = FALSE, !.platformMetadata = metadata]
  BY DEF Relinked
<1> HIDE DEF metadata
<1> QED
  BY <1>1, <1>2 DEF MappingRow

LEMMA NewLinkRow ==
  ASSUME NEW c \in Links
  PROVE  /\ NewLink(c) \in MappingRow /\ NewLink(c).isSynced = FALSE
         /\ NewLink(c).internalEntityId = c.id
  BY DEF Links, NewLink, MappingRow, Metadata

(* Columns of three rows of a table make a row of the table.               *)
LEMMA MergedRow ==
  ASSUME NEW i \in Ids, NEW a, NEW b, NEW r, InTable(i, a), InTable(i, b), InTable(i, r),
         NEW new, new = [c \in DOMAIN b |-> IF a[c] # b[c] THEN a[c] ELSE r[c]]
  PROVE  InTable(i, new) /\ (b = r => new = a)
<1>1. CASE i \in Stores
  <2>1. a \in StoreRow /\ b \in StoreRow /\ r \in StoreRow
    BY <1>1 DEF InTable
  <2>2. DOMAIN b = {"isActive"}
    BY <2>1, Columns
  <2>3. new = [isActive |-> IF a.isActive # b.isActive THEN a.isActive ELSE r.isActive]
    BY <2>2
  <2>4. new \in StoreRow /\ (b = r => new = a)
    BY <2>1, <2>3 DEF StoreRow
  <2> QED
    BY <1>1, <2>4, OneTable DEF InTable
<1>2. CASE i \in Categories
  <2>1. a \in CategoryRow /\ b \in CategoryRow /\ r \in CategoryRow
    BY <1>2 DEF InTable
  <2>2. DOMAIN b = {"storeId", "isVisible"}
    BY <2>1, Columns
  <2>3. new = [storeId |-> IF a.storeId # b.storeId THEN a.storeId ELSE r.storeId,
               isVisible |-> IF a.isVisible # b.isVisible THEN a.isVisible ELSE r.isVisible]
    BY <2>2
  <2>4. new \in CategoryRow /\ (b = r => new = a)
    BY <2>1, <2>3 DEF CategoryRow
  <2> QED
    BY <1>2, <2>4, OneTable DEF InTable
<1>3. CASE i \in Products
  <2>1. a \in ProductRow /\ b \in ProductRow /\ r \in ProductRow
    BY <1>3 DEF InTable
  <2>2. DOMAIN b = {"categoryId", "isAvailable"}
    BY <2>1, Columns
  <2>3. new = [categoryId |-> IF a.categoryId # b.categoryId THEN a.categoryId
                              ELSE r.categoryId,
               isAvailable |-> IF a.isAvailable # b.isAvailable THEN a.isAvailable
                               ELSE r.isAvailable]
    BY <2>2
  <2>4. new \in ProductRow /\ (b = r => new = a)
    BY <2>1, <2>3 DEF ProductRow
  <2> QED
    BY <1>3, <2>4, OneTable DEF InTable
<1>4. CASE i \in MappingIds
  <2>1. a \in MappingRow /\ b \in MappingRow /\ r \in MappingRow
    BY <1>4 DEF InTable
  <2>2. DOMAIN b = {"storeId", "entityType", "internalEntityId", "platformName",
                    "platformMetadata", "isSynced"}
    BY <2>1, Columns
  <2>3. new =
          [storeId |-> IF a.storeId # b.storeId THEN a.storeId ELSE r.storeId,
           entityType |-> IF a.entityType # b.entityType THEN a.entityType ELSE r.entityType,
           internalEntityId |-> IF a.internalEntityId # b.internalEntityId
                                THEN a.internalEntityId ELSE r.internalEntityId,
           platformName |-> IF a.platformName # b.platformName THEN a.platformName
                            ELSE r.platformName,
           platformMetadata |-> IF a.platformMetadata # b.platformMetadata
                                THEN a.platformMetadata ELSE r.platformMetadata,
           isSynced |-> IF a.isSynced # b.isSynced THEN a.isSynced ELSE r.isSynced]
    BY <2>2
  <2>4. new \in MappingRow /\ (b = r => new = a)
    BY <2>1, <2>3 DEF MappingRow
  <2> QED
    BY <1>4, <2>4, OneTable DEF InTable
<1> QED
  BY <1>1, <1>2, <1>3, <1>4, OneTable

(* What save leaves in its row; and if nobody else touched the row since   *)
(* it was read, that is the entity.                                        *)
LEMMA SavedInTable ==
  ASSUME RowsInTables(db), NEW r, RequestOK(r), r.pc = "write"
  PROVE  /\ r.row \in Ids
         /\ SavedRow(r) = NoRow \/ InTable(r.row, SavedRow(r))
         /\ r.base = db[r.row] => SavedRow(r) = r.entity
         /\ RowsInTables(AfterWrite(r))
         /\ \A j \in Ids : AfterWrite(r)[j] = IF j = r.row THEN SavedRow(r) ELSE db[j]
<1>1. r.row \in Ids /\ InTable(r.row, r.entity) /\ (r.base = NoRow \/ InTable(r.row, r.base))
  BY DEF RequestOK
<1>2. /\ SavedRow(r) = NoRow \/ InTable(r.row, SavedRow(r))
      /\ r.base = db[r.row] => SavedRow(r) = r.entity
  <2>1. CASE r.base = NoRow
    BY <1>1, <2>1 DEF SavedRow
  <2>2. CASE r.base # NoRow /\ db[r.row] = NoRow
    BY <2>2 DEF SavedRow
  <2>3. CASE r.base # NoRow /\ db[r.row] # NoRow
    <3>1. InTable(r.row, db[r.row]) /\ InTable(r.row, r.base)
      BY <1>1, <2>3, RowIsInTable
    <3>2. SavedRow(r) = [c \in DOMAIN r.base |->
                          IF r.entity[c] # r.base[c] THEN r.entity[c] ELSE db[r.row][c]]
      BY <2>3 DEF SavedRow
    <3> QED
      BY <1>1, <3>1, <3>2, MergedRow
  <2> QED
    BY <2>1, <2>2, <2>3
<1> QED
  BY <1>1, <1>2, RowReplaced DEF AfterWrite

(* The flags of a product's links are the only columns that change.        *)
LEMMA FlaggedInTables ==
  ASSUME RowsInTables(db), SchemaHolds(db), NEW r
  PROVE  /\ RowsInTables(AfterFlag(r)) /\ SchemaHolds(AfterFlag(r))
         /\ \A i \in Ids : AfterFlag(r)[i] = NoRow <=> db[i] = NoRow
         /\ \A i \in Ids \ MappingIds : AfterFlag(r)[i] = db[i]
         /\ \A i \in MappingIds : db[i] # NoRow =>
              /\ AfterFlag(r)[i].platformMetadata = db[i].platformMetadata
              /\ MappingKey(AfterFlag(r)[i]) = MappingKey(db[i])
              /\ AfterFlag(r)[i].entityType = db[i].entityType
              /\ AfterFlag(r)[i].internalEntityId = db[i].internalEntityId
              /\ AfterFlag(r)[i].isSynced =>
                   /\ db[i].isSynced
                   /\ db[i].entityType = "PRODUCT" => db[i].internalEntityId # r.call.id
<1>1. \A i \in Ids \ MappingIds : AfterFlag(r)[i] = db[i]
  BY DEF AfterFlag, ProductLinks
<1>2. ASSUME NEW i \in MappingIds, db[i] = NoRow PROVE AfterFlag(r)[i] = NoRow
  BY <1>2, OneTable DEF AfterFlag, ProductLinks
<1>3. ASSUME NEW i \in MappingIds, db[i] # NoRow
      PROVE  /\ AfterFlag(r)[i] \in MappingRow
             /\ AfterFlag(r)[i].platformMetadata = db[i].platformMetadata
             /\ MappingKey(AfterFlag(r)[i]) = MappingKey(db[i])
             /\ AfterFlag(r)[i].entityType = db[i].entityType
             /\ AfterFlag(r)[i].internalEntityId = db[i].internalEntityId
             /\ AfterFlag(r)[i].storeId = db[i].storeId
             /\ AfterFlag(r)[i].isSynced =>
                  /\ db[i].isSynced
                  /\ db[i].entityType = "PRODUCT" => db[i].internalEntityId # r.call.id
  <2>1. db[i] \in MappingRow /\ i \in Ids
    BY <1>3, OneTable DEF RowsInTables
  <2>2. db[i].platformName \in Platforms
    BY <2>1 DEF MappingRow
  <2>3. CASE db[i].entityType = "PRODUCT" /\ db[i].internalEntityId = r.call.id
    <3>1. AfterFlag(r)[i] = [db[i] EXCEPT !.isSynced = FALSE]
      BY <1>3, <2>1, <2>2, <2>3 DEF AfterFlag, ProductLinks
    <3> QED
      BY <2>1, <3>1 DEF MappingRow, MappingKey
  <2>4. CASE ~(db[i].entityType = "PRODUCT" /\ db[i].internalEntityId = r.call.id)
    <3>1. AfterFlag(r)[i] = db[i]
      BY <2>1, <2>4 DEF AfterFlag, ProductLinks
    <3> QED
      BY <2>1, <2>4, <3>1
  <2> QED
    BY <2>3, <2>4
<1>4. \A i \in Ids : AfterFlag(r)[i] = NoRow <=> db[i] = NoRow
  BY <1>1, <1>2, <1>3, Columns, OneTable
<1>5. RowsInTables(AfterFlag(r))
  <2>1. \A i \in Ids : AfterFlag(r)[i] \in Rows \cup {NoRow}
    BY <1>1, <1>2, <1>3, OneTable DEF RowsInTables, Rows
  <2>2. AfterFlag(r) \in [Ids -> Rows \cup {NoRow}]
    BY <2>1 DEF AfterFlag
  <2> QED
    BY <1>1, <1>2, <1>3, <2>2, OneTable DEF RowsInTables
<1>6. SchemaHolds(AfterFlag(r))
  <2>1. \A p \in Products :
          AfterFlag(r)[p] # NoRow /\ AfterFlag(r)[p].categoryId # NoId
            => AfterFlag(r)[AfterFlag(r)[p].categoryId] # NoRow
    <3>1. \A p \in Products : db[p] # NoRow => db[p].categoryId \in Categories \cup {NoId}
      BY DEF RowsInTables, ProductRow
    <3> QED
      BY <1>1, <3>1, OneTable DEF SchemaHolds
  <2>2. \A i \in Categories \cup MappingIds : AfterFlag(r)[i] # NoRow =>
          AfterFlag(r)[AfterFlag(r)[i].storeId] # NoRow
    <3>1. \A i \in Categories \cup MappingIds : db[i] # NoRow => db[i].storeId \in Stores
      BY DEF RowsInTables, CategoryRow, MappingRow
    <3>2. \A i \in Categories \cup MappingIds : db[i] # NoRow =>
            AfterFlag(r)[i].storeId = db[i].storeId
      BY <1>1, <1>3, OneTable
    <3> QED
      BY <1>1, <1>4, <3>1, <3>2, OneTable DEF SchemaHolds
  <2>3. \A i, j \in MappingIds :
          AfterFlag(r)[i] # NoRow /\ AfterFlag(r)[j] # NoRow
            /\ MappingKey(AfterFlag(r)[i]) = MappingKey(AfterFlag(r)[j]) => i = j
    BY <1>3, <1>4, OneTable DEF SchemaHolds
  <2> QED
    BY <2>1, <2>2, <2>3 DEF SchemaHolds
<1> QED
  BY <1>1, <1>3, <1>4, <1>5, <1>6

-----------------------------------------------------------------------------
(* The type invariant.                                                     *)

(* An idle handler holds nothing.                                          *)
LEMMA IdleIsOK == RequestOK(Idle) /\ Idle.pc = "idle"
  BY DEF RequestOK, Idle

(* What each step of a handler leaves it with.                             *)
LEMMA HandlerKeepsRequest ==
  ASSUME TypeInv, NEW h \in Handlers, HandlerStep(h)
  PROVE  RequestOK(req'[h]) /\ \A k \in Handlers \ {h} : req'[k] = req[k]
<1>1. /\ DOMAIN req = Handlers
      /\ DOMAIN req[h] = {"pc", "call", "row", "entity", "base"}
      /\ RequestOK(req[h]) /\ RowsInTables(db)
      /\ req[h].pc = "find" => req[h].base = NoRow
  BY DEF TypeInv, SaveInv, Shapes, CatalogTypeOK, PendingSave
<1>2. \A k \in Handlers \ {h} : req'[k] = req[k]
  BY <1>1
  DEF HandlerStep, FindRow, FindProduct, FindLink, Reload, WriteRow, FlagLinks, RequestCut
<1>3. CASE FindRow(h)
  <2>1. PICK c \in Updates :
          /\ db[c.id] # NoRow
          /\ req' = [req EXCEPT ![h] = [pc |-> "reload", call |-> c, row |-> c.id,
                                        entity |-> Patched(db[c.id], c.patch),
                                        base |-> NoRow]]
    BY <1>3 DEF FindRow
  <2>2. /\ req'[h].pc = "reload" /\ req'[h].call = c /\ req'[h].row = c.id
        /\ req'[h].entity = Patched(db[c.id], c.patch) /\ req'[h].base = NoRow
    BY <1>1, <2>1
  <2>3. c.id \in Ids /\ InTable(c.id, Patched(db[c.id], c.patch))
    BY <1>1, <2>1, UpdatedRow
  <2>4. Patched(db[c.id], c.patch) \in Rows
    BY <2>3, TableRowIsRow
  <2> QED
    BY <1>2, <2>2, <2>3, <2>4 DEF RequestOK
<1>4. CASE FindProduct(h)
  <2>1. PICK c \in Links \cup PlatformAvailability :
          req' = [req EXCEPT ![h] = [Idle EXCEPT !.pc = "find", !.call = c]]
    BY <1>4 DEF FindProduct
  <2>2. /\ req'[h].pc = "find" /\ req'[h].call = c
        /\ req'[h].entity = NoRow /\ req'[h].base = NoRow
    BY <1>1, <2>1 DEF Idle
  <2> QED
    BY <1>2, <2>2 DEF RequestOK
<1>5. CASE FindLink(h)
  <2> DEFINE c == req[h].call
  <2>1. c \in Links \cup PlatformAvailability /\ req[h].pc = "find"
    BY <1>1, <1>5 DEF FindLink, RequestOK
  <2>2. ASSUME NEW i \in MappingIds, db[i] # NoRow,
               req' = [req EXCEPT ![h].pc = "reload", ![h].row = i,
                                  ![h].entity = Relinked(c, db[i])]
        PROVE  RequestOK(req'[h])
    <3>1. /\ req'[h].pc = "reload" /\ req'[h].call = c /\ req'[h].row = i
          /\ req'[h].entity = Relinked(c, db[i]) /\ req'[h].base = req[h].base
      BY <1>1, <2>2
    <3>2. Relinked(c, db[i]) \in MappingRow
      BY <1>1, <2>1, <2>2, RelinkedRow DEF RowsInTables
    <3>3. InTable(i, Relinked(c, db[i])) /\ i \in Ids
      BY <3>2, OneTable DEF InTable
    <3> QED
      BY <1>1, <2>1, <3>1, <3>3, TableRowIsRow DEF RequestOK
  <2>3. ASSUME NEW i \in MappingIds, c.op = "link",
               req' = [req EXCEPT ![h].pc = "write", ![h].row = i, ![h].entity = NewLink(c)]
        PROVE  RequestOK(req'[h])
    <3>1. /\ req'[h].pc = "write" /\ req'[h].call = c /\ req'[h].row = i
          /\ req'[h].entity = NewLink(c) /\ req'[h].base = req[h].base
      BY <1>1, <2>3
    <3>2. c \in Links
      BY <2>1, <2>3 DEF PlatformAvailability
    <3>3. InTable(i, NewLink(c)) /\ i \in Ids
      BY <3>2, NewLinkRow, OneTable DEF InTable
    <3> QED
      BY <1>1, <2>1, <3>1, <3>3, TableRowIsRow DEF RequestOK
  <2>4. CASE req' = [req EXCEPT ![h] = Idle]
    BY <1>1, <2>4, IdleIsOK
  <2> QED
    BY <1>2, <1>5, <2>2, <2>3, <2>4 DEF FindLink, ProductLinks
<1>6. CASE Reload(h)
  <2>1. /\ req[h].pc = "reload" /\ req'[h].pc = "write" /\ req'[h].call = req[h].call
        /\ req'[h].row = req[h].row /\ req'[h].entity = req[h].entity
        /\ req'[h].base = db[req[h].row]
    BY <1>1, <1>6 DEF Reload
  <2>2. req[h].row \in Ids /\ InTable(req[h].row, req[h].entity)
    BY <1>1, <2>1 DEF RequestOK
  <2>3. db[req[h].row] = NoRow \/ InTable(req[h].row, db[req[h].row])
    BY <1>1, <2>2, RowIsInTable
  <2>4. db[req[h].row] \in Rows \cup {NoRow}
    BY <2>2, <2>3, TableRowIsRow
  <2>5. req'[h].call \in Updates \cup Links \cup PlatformAvailability \cup {NoCall}
        /\ req'[h].entity \in Rows \cup {NoRow}
    BY <1>1, <2>1 DEF RequestOK
  <2> QED
    BY <1>2, <2>1, <2>2, <2>3, <2>4, <2>5 DEF RequestOK
<1>7. CASE WriteRow(h)
  <2>1. req'[h] = Idle \/ req'[h] = [req[h] EXCEPT !.pc = "flag"]
    BY <1>1, <1>7 DEF WriteRow
  <2>2. ASSUME req'[h] = [req[h] EXCEPT !.pc = "flag"] PROVE RequestOK(req'[h])
    <3>1. /\ req'[h].pc = "flag" /\ req'[h].call = req[h].call
          /\ req'[h].entity = req[h].entity /\ req'[h].base = req[h].base
      BY <1>1, <2>2
    <3> QED
      BY <1>1, <3>1 DEF RequestOK
  <2> QED
    BY <1>2, <2>1, <2>2, IdleIsOK
<1>8. CASE FlagLinks(h) \/ RequestCut(h)
  BY <1>1, <1>2, <1>8, IdleIsOK DEF FlagLinks, RequestCut
<1> QED
  BY <1>3, <1>4, <1>5, <1>6, <1>7, <1>8 DEF HandlerStep

(* What a step leaves in the tables.                                       *)
TablesOK(d) == RowsInTables(d) /\ SchemaHolds(d)

LEMMA HandlerKeepsTables ==
  ASSUME TypeInv, NEW h \in Handlers, HandlerStep(h)
  PROVE  TablesOK(db')
<1>1. TablesOK(db) /\ RequestOK(req[h])
  BY DEF TypeInv, CatalogTypeOK, TablesOK
<1>2. req[h].pc = "write" => RowsInTables(AfterWrite(req[h]))
  BY <1>1, SavedInTable DEF TablesOK
<1>3. TablesOK(AfterFlag(req[h]))
  BY <1>1, FlaggedInTables DEF TablesOK
<1>4. \/ db' = db
      \/ req[h].pc = "write" /\ SchemaHolds(AfterWrite(req[h])) /\ db' = AfterWrite(req[h])
      \/ db' = AfterFlag(req[h])
  BY DEF CanWrite, HandlerStep, FindRow, FindProduct, FindLink, Reload, WriteRow, FlagLinks, RequestCut
<1> QED
  BY <1>1, <1>2, <1>3, <1>4 DEF TablesOK

LEMMA InsertKeepsTables ==
  ASSUME TypeInv, NEW i \in Ids, NEW new, Insert(i, new), InTable(i, new)
  PROVE  TablesOK(db')
<1>1. RowsInTables(db)
  BY DEF TypeInv, CatalogTypeOK
<1>2. db' = [db EXCEPT ![i] = new] /\ SchemaHolds(db')
  BY DEF Insert
<1> QED
  BY <1>1, <1>2, RowReplaced DEF TablesOK

LEMMA CreateKeepsTables ==
  ASSUME TypeInv, CreateStore \/ CreateCategory \/ CreateProduct \/ CreateMapping
  PROVE  TablesOK(db')
<1>1. CASE CreateStore
  <2>1. PICK s \in Stores : Insert(s, [isActive |-> TRUE])
    BY <1>1 DEF CreateStore
  <2>2. InTable(s, [isActive |-> TRUE]) /\ s \in Ids
    BY OneTable DEF InTable, StoreRow
  <2> QED
    BY <2>1, <2>2, InsertKeepsTables
<1>2. CASE CreateCategory
  <2>1. PICK c \in Categories : \E row \in CategoryRow : Insert(c, row)
    BY <1>2 DEF CreateCategory
  <2> QED
    BY <2>1, OneTable, InsertKeepsTables DEF InTable
<1>3. CASE CreateProduct
  <2>1. PICK p \in Products : \E row \in ProductRow : Insert(p, row)
    BY <1>3 DEF CreateProduct
  <2> QED
    BY <2>1, OneTable, InsertKeepsTables DEF InTable
<1>4. CASE CreateMapping
  <2>1. PICK i \in MappingIds : \E row \in NewMappings : Insert(i, row)
    BY <1>4 DEF CreateMapping
  <2>2. NewMappings \subseteq MappingRow
    BY DEF NewMappings, MappingRow, Metadata
  <2> QED
    BY <2>1, <2>2, OneTable, InsertKeepsTables DEF InTable
<1> QED
  BY <1>1, <1>2, <1>3, <1>4

(* The foreign keys hold after each of the deletions.                      *)
LEMMA DeleteKeepsTables ==
  ASSUME TypeInv, DeleteCategory \/ DeleteProduct \/ DeleteMapping
  PROVE  TablesOK(db')
<1>1. /\ RowsInTables(db) /\ SchemaHolds(db)
      /\ \A p \in Products : db[p] # NoRow => db[p].categoryId \in Categories \cup {NoId}
      /\ \A i \in Categories \cup MappingIds : db[i] # NoRow => db[i].storeId \in Stores
  BY DEF TypeInv, CatalogTypeOK, RowsInTables, ProductRow, CategoryRow, MappingRow
<1>2. CASE DeleteProduct \/ DeleteMapping
  <2>1. PICK i \in Products \cup MappingIds : db' = [db EXCEPT ![i] = NoRow]
    BY <1>2 DEF DeleteProduct, DeleteMapping, Delete
  <2>2. i \in Ids
    BY OneTable
  <2>3. RowsInTables(db') /\ \A j \in Ids : db'[j] = IF j = i THEN NoRow ELSE db[j]
    <3>1. PICK r : r = NoRow
      OBVIOUS
    <3>2. /\ RowsInTables([db EXCEPT ![i] = r])
          /\ \A j \in Ids : [db EXCEPT ![i] = r][j] = IF j = i THEN r ELSE db[j]
      BY <1>1, <2>2, <3>1, RowReplaced
    <3> QED
      BY <2>1, <3>1, <3>2
  <2>4. SchemaHolds(db')
    BY <1>1, <2>3, OneTable DEF SchemaHolds
  <2> QED
    BY <2>3, <2>4 DEF TablesOK
<1>3. CASE DeleteCategory
  <2>1. PICK c \in Categories :
          db' = [i \in Ids |-> IF i = c THEN NoRow
                               ELSE IF i \in Products /\ db[i] # NoRow /\ db[i].categoryId = c
                               THEN [db[i] EXCEPT !.categoryId = NoId] ELSE db[i]]
    BY <1>3 DEF DeleteCategory, Delete
  <2>2. /\ db'[c] = NoRow
        /\ \A i \in Ids \ Products : i # c => db'[i] = db[i]
    BY <2>1, OneTable
  <2>3. ASSUME NEW p \in Products
        PROVE  /\ db'[p] \in ProductRow \cup {NoRow}
               /\ db'[p] = NoRow <=> db[p] = NoRow
               /\ db'[p] # NoRow =>
                    /\ db'[p].categoryId = NoId \/ db'[p].categoryId = db[p].categoryId
                    /\ db'[p].categoryId # c
    <3>1. p \in Ids /\ p # c /\ db[p] \in ProductRow \cup {NoRow} /\ c # NoId
      BY <1>1, OneTable, CatalogAssumption DEF RowsInTables
    <3>2. CASE db[p] # NoRow /\ db[p].categoryId = c
      <4>1. db'[p] = [db[p] EXCEPT !.categoryId = NoId] /\ db[p] \in ProductRow
        BY <2>1, <3>1, <3>2
      <4> QED
        BY <3>1, <3>2, <4>1, Columns DEF ProductRow
    <3>3. CASE ~(db[p] # NoRow /\ db[p].categoryId = c)
      BY <2>1, <3>1, <3>3
    <3> QED
      BY <3>2, <3>3
  <2>4. RowsInTables(db')
    <3>1. \A i \in Ids : db'[i] \in Rows \cup {NoRow}
      BY <1>1, <2>2, <2>3 DEF RowsInTables, Rows
    <3>2. db' \in [Ids -> Rows \cup {NoRow}]
      BY <2>1, <3>1
    <3> QED
      BY <1>1, <2>2, <2>3, <3>2, OneTable DEF RowsInTables
  <2>5. SchemaHolds(db')
    <3>1. \A p \in Products : db'[p] # NoRow /\ db'[p].categoryId # NoId
                                => db'[db'[p].categoryId] # NoRow
      BY <1>1, <2>2, <2>3, OneTable DEF SchemaHolds
    <3>2. \A i \in Categories \cup MappingIds : db'[i] # NoRow => db'[db'[i].storeId] # NoRow
      BY <1>1, <2>2, OneTable DEF SchemaHolds
    <3>3. \A i, j \in MappingIds :
            db'[i] # NoRow /\ db'[j] # NoRow /\ MappingKey(db'[i]) = MappingKey(db'[j]) => i = j
      BY <1>1, <2>2, OneTable DEF SchemaHolds
    <3> QED
      BY <3>1, <3>2, <3>3 DEF SchemaHolds
  <2> QED
    BY <2>4, <2>5 DEF TablesOK
<1> QED
  BY <1>2, <1>3

(* TypeInv is inductive.                                                   *)
LEMMA TypeInvStep == TypeInv /\ [CatalogNext]_catalogVars => TypeInv'
<1> SUFFICES ASSUME TypeInv, [CatalogNext]_catalogVars PROVE TypeInv'
  OBVIOUS
<1>1. SaveInv'
  BY SaveInvStep DEF TypeInv
<1>2. \A i \in fresh' : db'[i] = NoRow
  BY <1>1 DEF SaveInv, FreshIsUnused
<1>3. requests' \in 0 .. MaxRequests
  <2>1. requests \in 0 .. MaxRequests
    BY DEF TypeInv, CatalogTypeOK
  <2>2. requests' = requests \/ (requests < MaxRequests /\ requests' = requests + 1)
    BY DEF CatalogNext, HandlerStep, FindRow, FindProduct, FindLink, Reload, WriteRow,
           FlagLinks, RequestCut, CreateStore, CreateCategory, CreateProduct, CreateMapping,
           DeleteCategory, DeleteProduct, DeleteMapping, Insert, Delete, Admit, catalogVars
  <2> QED
    BY <2>1, <2>2, CatalogAssumption
<1>4. orderly' \in BOOLEAN
  <2>1. orderly \in BOOLEAN
    BY DEF TypeInv, CatalogTypeOK
  <2> QED
    BY <2>1
    DEF CatalogNext, HandlerStep, FindRow, FindProduct, FindLink, Reload, WriteRow,
        FlagLinks, RequestCut, CreateStore, CreateCategory, CreateProduct, CreateMapping,
        DeleteCategory, DeleteProduct, DeleteMapping, Insert, Delete, Alone, catalogVars
<1>5. ASSUME NEW h \in Handlers PROVE RequestOK(req'[h])
  <2>1. RequestOK(req[h])
    BY DEF TypeInv
  <2>2. CASE UNCHANGED req
    BY <2>1, <2>2
  <2>3. CASE \E k \in Handlers : HandlerStep(k)
    BY <2>1, <2>3, HandlerKeepsRequest
  <2> QED
    BY <2>2, <2>3
    DEF CatalogNext, CreateStore, CreateCategory, CreateProduct, CreateMapping,
        DeleteCategory, DeleteProduct, DeleteMapping, Insert, Delete, catalogVars
<1>6. TablesOK(db')
  <2>1. CASE UNCHANGED db
    BY <2>1 DEF TypeInv, CatalogTypeOK, TablesOK
  <2> QED
    BY <2>1, HandlerKeepsTables, CreateKeepsTables, DeleteKeepsTables
    DEF CatalogNext, catalogVars
<1> QED
  BY <1>1, <1>2, <1>3, <1>4, <1>5, <1>6 DEF TypeInv, CatalogTypeOK, RequestOK, TablesOK

(* At the start the schema holds, and nothing is under way.                *)
LEMMA TypeInvInit == CatalogInit => TypeInv
<1> SUFFICES ASSUME CatalogInit PROVE TypeInv
  OBVIOUS
<1>1. \A h \in Handlers : RequestOK(req[h])
  BY IdleIsOK DEF CatalogInit
<1>2. requests \in 0 .. MaxRequests
  BY CatalogAssumption DEF CatalogInit
<1>3. CatalogTypeOK
  BY <1>1, <1>2, CatalogAssumption DEF CatalogInit, CatalogTypeOK, RequestOK
<1> QED
  BY <1>1, <1>3, SaveInitInv DEF TypeInv

LEMMA TypeInvAlways == CatalogSpec => []TypeInv
  BY TypeInvInit, TypeInvStep, PTL DEF CatalogSpec

(* The foreign keys and the unique key hold, each row stays in its table   *)
(* and each handler holds copies of rows, however the requests interleave, *)
(* fail and are cut.                                                       *)
THEOREM CatalogTypeCorrect == CatalogSpec => []CatalogTypeOK
<1>1. TypeInv => CatalogTypeOK
  BY DEF TypeInv
<1> QED
  BY <1>1, TypeInvAlways, PTL

-----------------------------------------------------------------------------
(* No mapping names an id before a row has it.                             *)

(* A save leaves in a mapping's row an internal id that was there or that  *)
(* the handler held.                                                       *)
LEMMA SavedName ==
  ASSUME TypeInv, FreshIsUnnamed, NEW h \in Handlers, req[h].pc = "write",
         NEW i \in MappingIds, AfterWrite(req[h])[i] # NoRow
  PROVE  AfterWrite(req[h])[i].internalEntityId \notin fresh
<1> DEFINE r == req[h]
<1>1. RowsInTables(db) /\ RequestOK(r)
  BY DEF TypeInv, CatalogTypeOK
<1>2. AfterWrite(r)[i] = IF i = r.row THEN SavedRow(r) ELSE db[i]
  BY <1>1, SavedInTable, OneTable
<1>3. CASE i # r.row
  BY <1>2, <1>3 DEF FreshIsUnnamed
<1>4. CASE i = r.row /\ r.base = NoRow
  BY <1>2, <1>4 DEF FreshIsUnnamed, SavedRow
<1>5. CASE i = r.row /\ r.base # NoRow
  <2>1. /\ db[i] # NoRow /\ r.base \in MappingRow
        /\ SavedRow(r) = [c \in DOMAIN r.base |->
                           IF r.entity[c] # r.base[c] THEN r.entity[c] ELSE db[i][c]]
    BY <1>1, <1>2, <1>5 DEF SavedRow, RequestOK, InTable
  <2>2. "internalEntityId" \in DOMAIN r.base
    BY <2>1, Columns
  <2>3. \/ SavedRow(r).internalEntityId = r.entity.internalEntityId
        \/ SavedRow(r).internalEntityId = db[i].internalEntityId
    BY <2>1, <2>2
  <2> QED
    BY <1>2, <1>5, <2>1, <2>3 DEF FreshIsUnnamed
<1> QED
  BY <1>3, <1>4, <1>5

(* What a handler names after a step.                                      *)
Names(r) ==
  /\ r.pc = "find" => r.call.id \notin fresh
  /\ r.pc \in {"reload", "write"} /\ r.row \in MappingIds =>
       r.entity.internalEntityId \notin fresh

LEMMA HandlerNames ==
  ASSUME TypeInv, FreshIsUnnamed, NEW h \in Handlers, HandlerStep(h)
  PROVE  fresh' \subseteq fresh /\ \A n : n = req'[h] => Names(n)
<1>1. /\ DOMAIN req = Handlers
      /\ DOMAIN req[h] = {"pc", "call", "row", "entity", "base"}
      /\ RequestOK(req[h]) /\ RowsInTables(db) /\ Names(req[h])
      /\ \A i \in fresh : db[i] = NoRow
  BY DEF TypeInv, SaveInv, Shapes, CatalogTypeOK, FreshIsUnnamed, Names
<1>2. fresh' \subseteq fresh
  BY DEF HandlerStep, FindRow, FindProduct, FindLink, Reload, WriteRow, FlagLinks, RequestCut
<1> SUFFICES ASSUME NEW n, n = req'[h] PROVE Names(n)
  BY <1>2
<1>3. CASE FindRow(h)
  <2>1. PICK c \in Updates :
          /\ db[c.id] # NoRow
          /\ req' = [req EXCEPT ![h] = [pc |-> "reload", call |-> c, row |-> c.id,
                                        entity |-> Patched(db[c.id], c.patch),
                                        base |-> NoRow]]
    BY <1>3 DEF FindRow
  <2>2. n.pc = "reload" /\ n.row = c.id /\ n.entity = Patched(db[c.id], c.patch)
    BY <1>1, <2>1
  <2>3. ASSUME c.id \in MappingIds PROVE n.entity.internalEntityId \notin fresh
    <3>1. c \in MappingUpdates
      BY <2>3, OneTable
      DEF Updates, ProductUpdates, CategoryUpdates, StoreUpdates, GlobalAvailability
    <3>2. c.patch \in MappingPatch /\ db[c.id] \in MappingRow
      BY <1>1, <2>1, <2>3, <3>1 DEF MappingUpdates, RowsInTables
    <3> QED
      BY <2>1, <2>2, <2>3, <3>2, MappingPatched DEF FreshIsUnnamed
  <2> QED
    BY <2>2, <2>3 DEF Names
<1>4. CASE FindProduct(h)
  <2>1. PICK c \in Links \cup PlatformAvailability :
          db[c.id] # NoRow /\ req' = [req EXCEPT ![h] = [Idle EXCEPT !.pc = "find", !.call = c]]
    BY <1>4 DEF FindProduct
  <2>2. n.pc = "find" /\ n.call = c
    BY <1>1, <2>1 DEF Idle
  <2> QED
    BY <1>1, <2>1, <2>2 DEF Names
<1>5. CASE FindLink(h)
  <2> DEFINE c == req[h].call
  <2>1. c \in Links \cup PlatformAvailability /\ c.id \notin fresh
    BY <1>1, <1>5 DEF FindLink, RequestOK, Names
  <2>2. ASSUME NEW i \in MappingIds, db[i] # NoRow,
               req' = [req EXCEPT ![h].pc = "reload", ![h].row = i,
                                  ![h].entity = Relinked(c, db[i])]
        PROVE  Names(n)
    <3>1. n.pc = "reload" /\ n.entity = Relinked(c, db[i])
      BY <1>1, <2>2
    <3>2. db[i] \in MappingRow
      BY <1>1, <2>2 DEF RowsInTables
    <3>3. n.entity.internalEntityId = db[i].internalEntityId
      BY <2>1, <3>1, <3>2, RelinkedRow
    <3> QED
      BY <2>2, <3>1, <3>3 DEF Names, FreshIsUnnamed
  <2>3. ASSUME NEW i \in MappingIds, c.op = "link",
               req' = [req EXCEPT ![h].pc = "write", ![h].row = i, ![h].entity = NewLink(c)]
        PROVE  Names(n)
    <3>1. n.pc = "write" /\ n.entity = NewLink(c)
      BY <1>1, <2>3
    <3>2. c \in Links
      BY <2>1, <2>3 DEF PlatformAvailability
    <3> QED
      BY <2>1, <3>1, <3>2, NewLinkRow DEF Names
  <2>4. CASE req' = [req EXCEPT ![h] = Idle]
    BY <1>1, <2>4 DEF Names, Idle
  <2> QED
    BY <1>5, <2>2, <2>3, <2>4 DEF FindLink, ProductLinks
<1>6. CASE Reload(h)
  <2>1. /\ req[h].pc = "reload" /\ n.pc = "write"
        /\ n.row = req[h].row /\ n.entity = req[h].entity
    BY <1>1, <1>6 DEF Reload
  <2> QED
    BY <1>1, <2>1 DEF Names
<1>7. CASE WriteRow(h) \/ FlagLinks(h) \/ RequestCut(h)
  <2>1. n.pc \in {"idle", "flag"}
    BY <1>1, <1>7 DEF WriteRow, FlagLinks, RequestCut, Idle
  <2> QED
    BY <2>1 DEF Names
<1> QED
  BY <1>3, <1>4, <1>5, <1>6, <1>7 DEF HandlerStep

LEMMA FreshIsUnnamedStep ==
  ASSUME TypeInv, FreshIsUnnamed, [CatalogNext]_catalogVars
  PROVE  FreshIsUnnamed'
<1>1. \A k \in Handlers : Names(req[k])
  BY DEF FreshIsUnnamed, Names
<1>2. ASSUME NEW h \in Handlers, HandlerStep(h) PROVE FreshIsUnnamed'
  <2>1. fresh' \subseteq fresh
    BY <1>2, HandlerNames
  <2>2. \A k \in Handlers : \A n : n = req'[k] => Names(n)
    BY <1>1, <1>2, HandlerNames, HandlerKeepsRequest
  <2>3. \A i \in MappingIds : db'[i] # NoRow => db'[i].internalEntityId \notin fresh
    <3>1. CASE db' = db
      BY <3>1 DEF FreshIsUnnamed
    <3>2. CASE req[h].pc = "write" /\ db' = AfterWrite(req[h])
      BY <1>2, <3>2, SavedName
    <3>3. CASE db' = AfterFlag(req[h])
      <4>1. RowsInTables(db) /\ SchemaHolds(db)
        BY DEF TypeInv, CatalogTypeOK
      <4>2. \A i \in MappingIds : db'[i] # NoRow =>
              db[i] # NoRow /\ db'[i].internalEntityId = db[i].internalEntityId
        BY <3>3, <4>1, FlaggedInTables, OneTable
      <4> QED
        BY <4>2 DEF FreshIsUnnamed
    <3> QED
      BY <1>2, <3>1, <3>2, <3>3
      DEF HandlerStep, FindRow, FindProduct, FindLink, Reload, WriteRow, FlagLinks, RequestCut
  <2> QED
    BY <2>1, <2>2, <2>3 DEF FreshIsUnnamed, Names
<1>3. CASE CreateStore \/ CreateCategory \/ CreateProduct \/ CreateMapping
  <2>0. PICK i \in Ids :
          \E row : Insert(i, row) /\ (i \in MappingIds => row.internalEntityId \notin fresh)
    BY <1>3, OneTable DEF CreateStore, CreateCategory, CreateProduct, CreateMapping
  <2>1. PICK row : Insert(i, row) /\ (i \in MappingIds => row.internalEntityId \notin fresh)
    BY <2>0
  <2>2. req' = req /\ fresh' \subseteq fresh /\ db' = [db EXCEPT ![i] = row]
    BY <2>1 DEF Insert
  <2>3. DOMAIN db = Ids
    BY DEF TypeInv, SaveInv, Shapes
  <2>4. \A j \in MappingIds : db'[j] = IF j = i THEN row ELSE db[j]
    BY <2>2, <2>3, OneTable
  <2> QED
    BY <2>1, <2>2, <2>4 DEF FreshIsUnnamed
<1>4. CASE DeleteCategory \/ DeleteProduct \/ DeleteMapping
  <2>1. req' = req /\ fresh' = fresh
    BY <1>4 DEF DeleteCategory, DeleteProduct, DeleteMapping, Delete
  <2>2. \A j \in MappingIds : db'[j] = NoRow \/ db'[j] = db[j]
    <3>1. DOMAIN db = Ids
      BY DEF TypeInv, SaveInv, Shapes
    <3> QED
      BY <1>4, <3>1, OneTable DEF DeleteCategory, DeleteProduct, DeleteMapping, Delete
  <2> QED
    BY <2>1, <2>2 DEF FreshIsUnnamed
<1>5. CASE UNCHANGED catalogVars
  BY <1>5 DEF catalogVars, FreshIsUnnamed
<1> QED
  BY <1>2, <1>3, <1>4, <1>5 DEF CatalogNext

-----------------------------------------------------------------------------
(* Requests one by one.                                                    *)

(* A mapping offers the same of two states of its product that are         *)
(* available alike.                                                        *)
LEMMA OffersTheSame ==
  ASSUME NEW m, NEW d, NEW e,
         m.internalEntityId \in Products =>
           LET p == m.internalEntityId
           IN  /\ d[p] = NoRow <=> e[p] = NoRow
               /\ d[p] # NoRow => d[p].isAvailable = e[p].isAvailable
  PROVE  OfferedIn(d, m) = OfferedIn(e, m)
<1> DEFINE p == m.internalEntityId
           there == p \in Products /\ d[p] # NoRow /\ d[p].isAvailable
           then == p \in Products /\ e[p] # NoRow /\ e[p].isAvailable
<1>1. there <=> then
  OBVIOUS
<1>2. there \in BOOLEAN /\ then \in BOOLEAN
  OBVIOUS
<1>3. OfferedIn(d, m) = <<m.platformMetadata, there>>
      /\ OfferedIn(e, m) = <<m.platformMetadata, then>>
  BY DEF OfferedIn
<1> HIDE DEF there, then
<1> QED
  BY <1>1, <1>2, <1>3

(* When requests run one by one, a step's handler is the only one at work. *)
LEMMA OneHandler ==
  ASSUME TypeInv, SyncInv, NEW h \in Handlers, HandlerStep(h), orderly'
  PROVE  /\ orderly /\ \A k \in Handlers \ {h} : req[k].pc = "idle" /\ req'[k] = req[k]
         /\ FindRow(h) \/ FindProduct(h) => req[h].pc = "idle"
         /\ OneAtATime'
         /\ SaveIsCurrent(req[h])
         /\ \A i \in MappingIds : Marked(db[i]) =>
              told[i] = Offered(db[i]) \/ WillSettle(req[h], i, db[i])
<1>1. orderly /\ ~RequestCut(h)
  BY DEF HandlerStep, FindRow, FindProduct, FindLink, Reload, WriteRow, FlagLinks, RequestCut
<1>2. OneAtATime /\ MarkedIsCurrent /\ SaveIsCurrent(req[h])
  BY <1>1 DEF SyncInv
<1>3. \A k \in Handlers \ {h} : req'[k] = req[k]
  BY HandlerKeepsRequest
<1>4. \A k \in Handlers \ {h} : req[k].pc = "idle"
  <2>1. CASE FindRow(h) \/ FindProduct(h)
    BY <2>1 DEF FindRow, FindProduct, Alone
  <2>2. CASE FindLink(h) \/ Reload(h) \/ WriteRow(h) \/ FlagLinks(h)
    BY <1>2, <2>2 DEF FindLink, Reload, WriteRow, FlagLinks, OneAtATime
  <2> QED
    BY <1>1, <2>1, <2>2 DEF HandlerStep
<1>5. OneAtATime'
  BY <1>3, <1>4 DEF OneAtATime
<1>6. \A i \in MappingIds : Marked(db[i]) =>
        told[i] = Offered(db[i]) \/ WillSettle(req[h], i, db[i])
  BY <1>2, <1>4 DEF MarkedIsCurrent, WillSettle
<1> QED
  BY <1>1, <1>2, <1>3, <1>4, <1>5, <1>6 DEF FindRow, FindProduct

(* It is enough to look at that handler.                                   *)
LEMMA OneHandlerMoves ==
  ASSUME TypeInv, SyncInv, NEW h \in Handlers, HandlerStep(h), orderly',
         DOMAIN told' = MappingIds,
         SaveIsCurrent(req[h])',
         \A i \in MappingIds : Marked(db'[i]) =>
           told'[i] = OfferedIn(db', db'[i]) \/ WillSettle(req'[h], i, db'[i])
  PROVE  /\ DOMAIN told' = MappingIds
         /\ OneAtATime' /\ MarkedIsCurrent' /\ \A k \in Handlers : SaveIsCurrent(req[k])'
<1>1. OneAtATime' /\ \A k \in Handlers \ {h} : req'[k].pc = "idle"
  BY OneHandler
<1>2. MarkedIsCurrent'
  BY DEF MarkedIsCurrent, Offered
<1>3. \A k \in Handlers : SaveIsCurrent(req[k])'
  BY <1>1 DEF SaveIsCurrent
<1> QED
  BY <1>1, <1>2, <1>3

(* What a request finds is what it will write: a mapping that it marks was *)
(* told, and a product that it changes is by setAvailability.              *)
LEMMA FindRowKeepsSync ==
  ASSUME TypeInv, SyncInv, NEW h \in Handlers, FindRow(h), orderly'
  PROVE  /\ DOMAIN told' = MappingIds /\ SaveIsCurrent(req[h])'
         /\ \A i \in MappingIds : Marked(db'[i]) =>
              told'[i] = OfferedIn(db', db'[i]) \/ WillSettle(req'[h], i, db'[i])
<1>1. PICK c \in Updates :
        /\ db[c.id] # NoRow
        /\ req' = [req EXCEPT ![h] = [pc |-> "reload", call |-> c, row |-> c.id,
                                      entity |-> Patched(db[c.id], c.patch),
                                      base |-> NoRow]]
        /\ told' = IF /\ c.op = "updateMapping" /\ "isSynced" \in DOMAIN c.patch
                      /\ c.patch.isSynced
                   THEN [told EXCEPT ![c.id] = Offered(Patched(db[c.id], c.patch))] ELSE told
        /\ ~Unflagged(c)
  BY DEF FindRow
<1> DEFINE new == Patched(db[c.id], c.patch)
<1>2. /\ DOMAIN req = Handlers /\ RowsInTables(db) /\ DOMAIN told = MappingIds
      /\ db' = db /\ req[h].pc = "idle"
  BY DEF TypeInv, SaveInv, Shapes, CatalogTypeOK, SyncInv, FindRow
<1>3. /\ req'[h].pc = "reload" /\ req'[h].call = c /\ req'[h].row = c.id
      /\ req'[h].entity = new /\ req'[h].base = NoRow
  BY <1>1, <1>2
<1>4. c.op = "updateMapping" \/ c.id \in MappingIds =>
        c \in MappingUpdates /\ c.op = "updateMapping" /\ c.id \in MappingIds
  BY OneTable
  DEF Updates, ProductUpdates, CategoryUpdates, StoreUpdates, GlobalAvailability,
      MappingUpdates
<1>5. ASSUME c \in MappingUpdates
      PROVE  /\ MappingKey(new) = MappingKey(db[c.id])
             /\ new.isSynced => told'[c.id] = Offered(new)
  <2>1. c.patch \in MappingPatch /\ c.op = "updateMapping" /\ c.id \in MappingIds
    BY <1>5 DEF MappingUpdates
  <2>2. db[c.id] \in MappingRow
    BY <1>1, <1>2, <2>1 DEF RowsInTables
  <2>3. "isSynced" \in DOMAIN c.patch
    BY <1>1, <2>1 DEF Unflagged
  <2>4. MappingKey(new) = MappingKey(db[c.id]) /\ new.isSynced = c.patch.isSynced
    BY <2>1, <2>2, <2>3, MappingPatched
  <2>5. ASSUME new.isSynced PROVE told'[c.id] = Offered(new)
    <3>1. told' = [told EXCEPT ![c.id] = Offered(new)]
      BY <1>1, <2>1, <2>3, <2>4, <2>5
    <3> HIDE DEF new
    <3> QED
      BY <1>2, <2>1, <3>1
  <2> QED
    BY <2>4, <2>5
<1>6. ASSUME c.id \in Products
      PROVE  IF c.op = "setAvailability" THEN TRUE
             ELSE new.isAvailable = db[c.id].isAvailable
  <2>1. c \in ProductUpdates \/ c \in GlobalAvailability
    BY <1>6, OneTable
    DEF Updates, ProductUpdates, CategoryUpdates, StoreUpdates, GlobalAvailability,
        MappingUpdates
  <2>2. CASE c \in GlobalAvailability
    BY <2>2 DEF GlobalAvailability
  <2>3. CASE c \in ProductUpdates
    <3>1. c.op = "updateProduct" /\ c.patch \in ProductPatch
      BY <2>3 DEF ProductUpdates
    <3>2. "isAvailable" \notin DOMAIN c.patch
      BY <1>1, <3>1 DEF Unflagged
    <3>3. db[c.id] \in ProductRow
      BY <1>1, <1>2, <1>6 DEF RowsInTables
    <3> QED
      BY <3>1, <3>2, <3>3, ProductPatched
  <2> QED
    BY <2>1, <2>2, <2>3
<1> HIDE DEF new
<1>7. SaveIsCurrent(req[h])'
  <2>1. c.id \in MappingIds /\ Marked(new) => told'[c.id] = OfferedIn(db', new)
    BY <1>2, <1>4, <1>5 DEF Marked, Offered
  <2> QED
    BY <1>1, <1>2, <1>3, <1>4, <1>5, <1>6, <2>1 DEF SaveIsCurrent, Offered
<1>8. ASSUME NEW i \in MappingIds, Marked(db'[i])
      PROVE  told'[i] = OfferedIn(db', db'[i]) \/ WillSettle(req'[h], i, db'[i])
  <2>1. CASE c.op = "updateMapping" /\ i = c.id
    BY <1>3, <2>1 DEF WillSettle
  <2>2. CASE ~(c.op = "updateMapping" /\ i = c.id)
    <3>1. told'[i] = told[i]
      BY <1>1, <1>2, <2>2
    <3>2. told[i] = OfferedIn(db, db[i])
      <4>1. ~WillSettle(req[h], i, db[i])
        BY <1>2 DEF WillSettle
      <4> QED
        BY <1>2, <1>8, <4>1, OneHandler DEF HandlerStep, Offered
    <3> QED
      BY <1>2, <3>1, <3>2
  <2> QED
    BY <2>1, <2>2
<1>9. DOMAIN told' = MappingIds
  BY <1>1, <1>2
<1> QED
  BY <1>7, <1>8, <1>9

(* A link is found, or made, with the flag down.                           *)
LEMMA FindLinkKeepsSync ==
  ASSUME TypeInv, SyncInv, NEW h \in Handlers, FindProduct(h) \/ FindLink(h), orderly'
  PROVE  /\ DOMAIN told' = MappingIds /\ SaveIsCurrent(req[h])'
         /\ \A i \in MappingIds : Marked(db'[i]) =>
              told'[i] = OfferedIn(db', db'[i]) \/ WillSettle(req'[h], i, db'[i])
<1>1. /\ DOMAIN req = Handlers /\ RowsInTables(db) /\ DOMAIN told = MappingIds
      /\ DOMAIN req[h] = {"pc", "call", "row", "entity", "base"}
      /\ db' = db /\ told' = told /\ req[h].pc \in {"idle", "find"}
      /\ RequestOK(req[h])
      /\ req[h].pc = "find" => req[h].base = NoRow
      /\ \A i \in fresh : db[i] = NoRow
  BY DEF TypeInv, SaveInv, Shapes, CatalogTypeOK, SyncInv, FindProduct, FindLink, PendingSave
<1>2. \A i \in MappingIds : Marked(db[i]) => told[i] = OfferedIn(db, db[i])
  BY <1>1, OneHandler DEF HandlerStep, WillSettle, Offered
<1>3. CASE FindProduct(h)
  <2>1. req'[h].pc = "find"
    BY <1>1, <1>3 DEF FindProduct, Idle
  <2> QED
    BY <1>1, <1>2, <2>1 DEF SaveIsCurrent
<1>4. CASE FindLink(h)
  <2> DEFINE c == req[h].call
  <2>1. c \in Links \cup PlatformAvailability /\ c.op # "updateMapping" /\ req[h].pc = "find"
    BY <1>1, <1>4 DEF FindLink, RequestOK, Links, PlatformAvailability
  <2>2. ASSUME NEW i \in MappingIds, db[i] # NoRow,
               req' = [req EXCEPT ![h].pc = "reload", ![h].row = i,
                                  ![h].entity = Relinked(c, db[i])]
        PROVE  SaveIsCurrent(req[h])'
    <3>1. /\ req'[h].pc = "reload" /\ req'[h].call = c /\ req'[h].row = i
          /\ req'[h].entity = Relinked(c, db[i])
      BY <1>1, <2>2
    <3>2. db[i] \in MappingRow
      BY <1>1, <2>2 DEF RowsInTables
    <3> HIDE DEF c
    <3>3. Relinked(c, db[i]).isSynced = FALSE
      BY <2>1, <3>2, RelinkedRow
    <3>4. i \notin Products
      BY OneTable
    <3> QED
      BY <1>1, <2>1, <2>2, <3>1, <3>3, <3>4 DEF SaveIsCurrent, Marked
  <2>3. ASSUME NEW i \in fresh \cap MappingIds, c.op = "link",
               req' = [req EXCEPT ![h].pc = "write", ![h].row = i, ![h].entity = NewLink(c)]
        PROVE  SaveIsCurrent(req[h])'
    <3>1. /\ req'[h].pc = "write" /\ req'[h].call = c /\ req'[h].row = i
          /\ req'[h].entity = NewLink(c) /\ req'[h].base = req[h].base
      BY <1>1, <2>3
    <3>2. c \in Links
      BY <2>1, <2>3 DEF PlatformAvailability
    <3>3. req'[h].entity.isSynced = FALSE /\ i \notin Products /\ db[i] = NoRow
      BY <1>1, <3>1, <3>2, NewLinkRow, OneTable
    <3> QED
      BY <1>1, <2>1, <3>1, <3>3 DEF SaveIsCurrent, Marked
  <2>4. CASE req' = [req EXCEPT ![h] = Idle]
    <3>1. req'[h].pc = "idle"
      BY <1>1, <2>4 DEF Idle
    <3> QED
      BY <1>1, <1>2, <3>1 DEF SaveIsCurrent
  <2> QED
    BY <1>1, <1>2, <1>4, <2>2, <2>3, <2>4 DEF FindLink, ProductLinks
<1> QED
  BY <1>3, <1>4

(* Nobody changes the row between the two halves of a save.                *)
LEMMA ReloadKeepsSync ==
  ASSUME TypeInv, SyncInv, NEW h \in Handlers, Reload(h), orderly'
  PROVE  /\ DOMAIN told' = MappingIds /\ SaveIsCurrent(req[h])'
         /\ \A i \in MappingIds : Marked(db'[i]) =>
              told'[i] = OfferedIn(db', db'[i]) \/ WillSettle(req'[h], i, db'[i])
<1>1. /\ DOMAIN req = Handlers /\ DOMAIN told = MappingIds
      /\ DOMAIN req[h] = {"pc", "call", "row", "entity", "base"}
      /\ db' = db /\ told' = told /\ req[h].pc = "reload"
  BY DEF TypeInv, SaveInv, Shapes, SyncInv, Reload
<1>2. /\ req'[h].pc = "write" /\ req'[h].call = req[h].call /\ req'[h].row = req[h].row
      /\ req'[h].entity = req[h].entity /\ req'[h].base = db[req[h].row]
  BY <1>1 DEF Reload
<1>3. SaveIsCurrent(req[h])
  BY OneHandler DEF HandlerStep
<1>4. SaveIsCurrent(req[h])'
  BY <1>1, <1>2, <1>3 DEF SaveIsCurrent, Offered
<1>5. \A i \in MappingIds : Marked(db[i]) =>
        told[i] = OfferedIn(db, db[i]) \/ WillSettle(req[h], i, db[i])
  BY OneHandler DEF HandlerStep, Offered
<1> QED
  BY <1>1, <1>2, <1>4, <1>5 DEF WillSettle

(* A row whose key stays as it is meets no constraint.                     *)
LEMMA SameKeyIsAccepted ==
  ASSUME TypeInv, NEW h \in Handlers, req[h].pc = "write",
         NEW m \in MappingIds, req[h].row = m, req[h].base = db[m], db[m] # NoRow,
         MappingKey(req[h].entity) = MappingKey(db[m])
  PROVE  SchemaHolds(AfterWrite(req[h]))
<1>1. RowsInTables(db) /\ SchemaHolds(db) /\ RequestOK(req[h])
  BY DEF TypeInv, CatalogTypeOK
<1> DEFINE after == AfterWrite(req[h])
<1>2. /\ \A j \in Ids : after[j] = IF j = m THEN req[h].entity ELSE db[j]
  BY <1>1, SavedInTable
<1> HIDE DEF after
<1>3. /\ req[h].entity # NoRow
      /\ req[h].entity.storeId = db[m].storeId
  BY <1>1, TableRowIsRow DEF RequestOK, MappingKey
<1>4. /\ \A p \in Products : db[p] # NoRow => db[p].categoryId \in Categories \cup {NoId}
      /\ \A i \in Categories \cup MappingIds : db[i] # NoRow => db[i].storeId \in Stores
  BY <1>1 DEF RowsInTables, ProductRow, CategoryRow, MappingRow
<1>5. /\ \A i \in Ids : i # m => after[i] = db[i]
      /\ \A i \in Ids : after[i] # NoRow <=> db[i] # NoRow
      /\ \A i \in Categories \cup MappingIds : db[i] # NoRow => after[i].storeId = db[i].storeId
      /\ \A i \in MappingIds : db[i] # NoRow => MappingKey(after[i]) = MappingKey(db[i])
  BY <1>2, <1>3, OneTable
<1>6. \A p \in Products :
        after[p] # NoRow /\ after[p].categoryId # NoId => after[after[p].categoryId] # NoRow
  BY <1>1, <1>4, <1>5, OneTable DEF SchemaHolds
<1>7. \A i \in Categories \cup MappingIds : after[i] # NoRow => after[after[i].storeId] # NoRow
  BY <1>1, <1>4, <1>5, OneTable DEF SchemaHolds
<1>8. \A i, j \in MappingIds :
        after[i] # NoRow /\ after[j] # NoRow /\ MappingKey(after[i]) = MappingKey(after[j])
          => i = j
  BY <1>1, <1>5, OneTable DEF SchemaHolds
<1> QED
  BY <1>6, <1>7, <1>8 DEF after, SchemaHolds

(* The save writes the entity: the mapping that its platform was told of,  *)
(* or the product whose links are flagged next; and a mapping that was     *)
(* marked is never refused.                                                *)
LEMMA WriteRowKeepsSync ==
  ASSUME TypeInv, SyncInv, NEW h \in Handlers, WriteRow(h), orderly'
  PROVE  /\ DOMAIN told' = MappingIds /\ SaveIsCurrent(req[h])'
         /\ \A i \in MappingIds : Marked(db'[i]) =>
              told'[i] = OfferedIn(db', db'[i]) \/ WillSettle(req'[h], i, db'[i])
<1> DEFINE r == req[h]
<1>1. /\ DOMAIN req = Handlers /\ DOMAIN told = MappingIds
      /\ DOMAIN r = {"pc", "call", "row", "entity", "base"}
      /\ RowsInTables(db) /\ RequestOK(r) /\ told' = told /\ r.pc = "write"
  BY DEF TypeInv, SaveInv, Shapes, CatalogTypeOK, SyncInv, WriteRow
<1>2. SaveIsCurrent(r) /\ r.base = db[r.row]
  BY <1>1, OneHandler DEF HandlerStep, SaveIsCurrent
<1>3. \A i \in MappingIds : Marked(db[i]) =>
        told[i] = OfferedIn(db, db[i]) \/ (i = r.row /\ r.call.op = "updateMapping")
  BY <1>1, OneHandler DEF HandlerStep, Offered, WillSettle
<1>4. CASE db' = AfterWrite(r) /\ req' = [req EXCEPT ![h] =
             IF @.call.op = "setAvailability" THEN [@ EXCEPT !.pc = "flag"] ELSE Idle]
  <2>1. /\ r.row \in Ids /\ InTable(r.row, r.entity) /\ r.entity # NoRow
        /\ \A j \in Ids : db'[j] = IF j = r.row THEN r.entity ELSE db[j]
    BY <1>1, <1>2, <1>4, SavedInTable, TableRowIsRow DEF RequestOK
  <2>2. /\ r.call.op = "setAvailability" => req'[h].pc = "flag" /\ req'[h].call = r.call
        /\ req'[h].pc \in {"idle", "flag"}
    BY <1>1, <1>4 DEF Idle
  <2>3. SaveIsCurrent(req[h])'
    BY <2>2 DEF SaveIsCurrent
  <2>4. ASSUME NEW i \in MappingIds, Marked(db'[i])
        PROVE  told'[i] = OfferedIn(db', db'[i]) \/ WillSettle(req'[h], i, db'[i])
    <3>1. PICK m : m = db'[i]
      OBVIOUS
    <3>2. told[i] = OfferedIn(db, m)
      <4>1. CASE i = r.row
        BY <1>1, <1>2, <2>1, <2>4, <3>1, <4>1, OneTable DEF SaveIsCurrent, Offered
      <4>2. CASE i # r.row
        BY <1>3, <2>1, <2>4, <3>1, <4>2, OneTable
      <4> QED
        BY <4>1, <4>2
    <3>3. CASE r.row \in Products /\ m.internalEntityId = r.row
                 /\ r.call.op = "setAvailability"
      BY <1>1, <1>2, <2>2, <3>1, <3>3 DEF SaveIsCurrent, WillSettle
    <3>4. CASE ~(r.row \in Products /\ m.internalEntityId = r.row
                   /\ r.call.op = "setAvailability")
      <4>1. ASSUME m.internalEntityId \in Products
            PROVE  LET p == m.internalEntityId
                   IN  /\ db[p] = NoRow <=> db'[p] = NoRow
                       /\ db[p] # NoRow => db[p].isAvailable = db'[p].isAvailable
        <5>1. CASE m.internalEntityId # r.row
          BY <2>1, <4>1, <5>1, OneTable
        <5>2. CASE m.internalEntityId = r.row
          BY <1>1, <1>2, <2>1, <3>4, <4>1, <5>2, OneTable DEF SaveIsCurrent
        <5> QED
          BY <5>1, <5>2
      <4>2. OfferedIn(db, m) = OfferedIn(db', m)
        BY <4>1, OffersTheSame
      <4> QED
        BY <1>1, <3>1, <3>2, <4>2
    <3> QED
      BY <3>3, <3>4
  <2> QED
    BY <1>1, <2>3, <2>4
<1>5. CASE ~CanWrite(r) /\ db' = db /\ req' = [req EXCEPT ![h] = Idle]
  <2>1. req'[h].pc = "idle"
    BY <1>1, <1>5 DEF Idle
  <2>2. SaveIsCurrent(req[h])'
    BY <2>1 DEF SaveIsCurrent
  <2>3. ASSUME NEW i \in MappingIds, Marked(db[i]) PROVE told[i] = OfferedIn(db, db[i])
    <3>1. CASE i = r.row /\ r.call.op = "updateMapping"
      <4>1. db[i] # NoRow /\ MappingKey(r.entity) = MappingKey(db[i])
        BY <1>1, <1>2, <3>1 DEF SaveIsCurrent
      <4> QED
        BY <1>1, <1>2, <1>5, <3>1, <4>1, SameKeyIsAccepted DEF CanWrite
    <3> QED
      BY <1>3, <2>3, <3>1
  <2> QED
    BY <1>1, <1>5, <2>2, <2>3
<1> QED
  BY <1>4, <1>5 DEF WriteRow

(* The UPDATE takes the mark off every link whose offer the product        *)
(* changed.                                                                *)
LEMMA FlagLinksKeepsSync ==
  ASSUME TypeInv, SyncInv, NEW h \in Handlers, FlagLinks(h), orderly'
  PROVE  /\ DOMAIN told' = MappingIds /\ SaveIsCurrent(req[h])'
         /\ \A i \in MappingIds : Marked(db'[i]) =>
              told'[i] = OfferedIn(db', db'[i]) \/ WillSettle(req'[h], i, db'[i])
<1>1. /\ DOMAIN req = Handlers /\ DOMAIN told = MappingIds
      /\ RowsInTables(db) /\ SchemaHolds(db) /\ told' = told /\ req[h].pc = "flag"
      /\ db' = AfterFlag(req[h]) /\ req' = [req EXCEPT ![h] = Idle]
  BY DEF TypeInv, SaveInv, Shapes, CatalogTypeOK, SyncInv, FlagLinks
<1>2. req'[h].pc = "idle"
  BY <1>1 DEF Idle
<1>3. SaveIsCurrent(req[h])'
  BY <1>2 DEF SaveIsCurrent
<1>4. ASSUME NEW i \in MappingIds, Marked(db'[i])
      PROVE  told[i] = OfferedIn(db', db'[i])
  <2>1. /\ db[i] # NoRow /\ db'[i].entityType = db[i].entityType
        /\ db'[i].internalEntityId = db[i].internalEntityId
        /\ db'[i].platformMetadata = db[i].platformMetadata
        /\ db[i].isSynced
        /\ db[i].entityType = "PRODUCT" => db[i].internalEntityId # req[h].call.id
    BY <1>1, <1>4, FlaggedInTables, OneTable DEF Marked
  <2>2. Marked(db[i]) /\ ~WillSettle(req[h], i, db[i])
    BY <1>1, <1>4, <2>1 DEF Marked, WillSettle
  <2>3. told[i] = OfferedIn(db, db[i])
    BY <2>2, OneHandler DEF HandlerStep, Offered
  <2>4. \A p \in Products : db'[p] = db[p]
    BY <1>1, FlaggedInTables, OneTable
  <2>5. PICK m : m = db[i]
    OBVIOUS
  <2>6. OfferedIn(db, m) = OfferedIn(db', m)
    BY <2>4, OffersTheSame
  <2>7. OfferedIn(db', db'[i]) = OfferedIn(db', m)
    BY <2>1, <2>5 DEF OfferedIn
  <2> QED
    BY <2>3, <2>5, <2>6, <2>7
<1> QED
  BY <1>1, <1>3, <1>4

(* A new row has no mark, and no mapping names it.                         *)
LEMMA InsertKeepsSync ==
  ASSUME TypeInv, SyncInv, NEW i \in Ids, NEW new, Insert(i, new), orderly',
         i \in MappingIds => new.isSynced = FALSE
  PROVE  /\ DOMAIN told' = MappingIds
         /\ OneAtATime' /\ MarkedIsCurrent' /\ \A k \in Handlers : SaveIsCurrent(req[k])'
<1>1. /\ DOMAIN db = Ids /\ DOMAIN told = MappingIds
      /\ db' = [db EXCEPT ![i] = new] /\ i \in fresh /\ told' = told /\ req' = req
      /\ orderly /\ \A k \in Handlers : req[k].pc = "idle"
  BY DEF TypeInv, SaveInv, Shapes, SyncInv, Insert, Alone
<1>2. \A j \in Ids : db'[j] = IF j = i THEN new ELSE db[j]
  BY <1>1
<1>3. ASSUME NEW j \in MappingIds, Marked(db'[j])
      PROVE  told'[j] = OfferedIn(db', db'[j])
  <2>1. j # i
    BY <1>2, <1>3, OneTable DEF Marked
  <2>2. PICK m : m = db[j]
    OBVIOUS
  <2>3. m = db'[j] /\ Marked(m) /\ m.internalEntityId # i
    BY <1>1, <1>2, <1>3, <2>1, <2>2, OneTable DEF SyncInv, FreshIsUnnamed, Marked
  <2>4. told[j] = OfferedIn(db, m)
    BY <1>1, <2>2, <2>3 DEF SyncInv, MarkedIsCurrent, WillSettle, Offered
  <2>5. OfferedIn(db, m) = OfferedIn(db', m)
    BY <1>2, <2>3, OneTable, OffersTheSame
  <2> QED
    BY <1>1, <2>3, <2>4, <2>5
<1>4. OneAtATime' /\ \A k \in Handlers : SaveIsCurrent(req[k])'
  BY <1>1 DEF OneAtATime, SaveIsCurrent
<1> QED
  BY <1>1, <1>3, <1>4 DEF MarkedIsCurrent, Offered

(* SyncInv is preserved.                                                   *)
LEMMA SyncInvStep ==
  ASSUME TypeInv, SyncInv, [CatalogNext]_catalogVars
  PROVE  SyncInv'
<1>1. FreshIsUnnamed'
  BY FreshIsUnnamedStep DEF SyncInv
<1>2. DOMAIN told' = MappingIds
  BY DEF SyncInv, CatalogNext, HandlerStep, FindRow, FindProduct, FindLink, Reload, WriteRow,
         FlagLinks, RequestCut, CreateStore, CreateCategory, CreateProduct, CreateMapping,
         DeleteCategory, DeleteProduct, DeleteMapping, Insert, Delete, catalogVars
<1> SUFFICES ASSUME orderly'
             PROVE  /\ OneAtATime' /\ MarkedIsCurrent'
                    /\ \A k \in Handlers : SaveIsCurrent(req[k])'
  BY <1>1, <1>2 DEF SyncInv
<1>3. ASSUME NEW h \in Handlers, HandlerStep(h)
      PROVE  /\ OneAtATime' /\ MarkedIsCurrent'
             /\ \A k \in Handlers : SaveIsCurrent(req[k])'
  <2>1. ~RequestCut(h)
    BY DEF RequestCut
  <2>2. /\ SaveIsCurrent(req[h])'
        /\ \A i \in MappingIds : Marked(db'[i]) =>
             told'[i] = OfferedIn(db', db'[i]) \/ WillSettle(req'[h], i, db'[i])
    BY <1>3, <2>1, FindRowKeepsSync, FindLinkKeepsSync, ReloadKeepsSync, WriteRowKeepsSync,
       FlagLinksKeepsSync DEF HandlerStep
  <2> QED
    BY <1>2, <1>3, <2>2, OneHandlerMoves
<1>4. CASE CreateStore \/ CreateCategory \/ CreateProduct \/ CreateMapping
  <2>1. \A m \in NewMappings : m.isSynced = FALSE
    BY DEF NewMappings
  <2>2. PICK i \in Ids : \E new : Insert(i, new) /\ (i \in MappingIds => new.isSynced = FALSE)
    BY <1>4, <2>1, OneTable DEF CreateStore, CreateCategory, CreateProduct, CreateMapping
  <2> QED
    BY <2>2, InsertKeepsSync
<1>5. ~(DeleteCategory \/ DeleteProduct \/ DeleteMapping)
  BY DEF DeleteCategory, DeleteProduct, DeleteMapping, Delete
<1>6. CASE UNCHANGED catalogVars
  BY <1>6
  DEF catalogVars, SyncInv, OneAtATime, MarkedIsCurrent, SaveIsCurrent, Offered
<1> QED
  BY <1>3, <1>4, <1>5, <1>6 DEF CatalogNext

(* Requests that ran one after the other, by the endpoints made for it,    *)
(* leave no link marked as synced that offers something else than what its *)
(* platform was told.                                                      *)
THEOREM SyncedIsAlwaysCurrent == CatalogSpec => []SyncedIsCurrent
<1>1. CatalogInit => SyncInv
  <2> SUFFICES ASSUME CatalogInit PROVE SyncInv
    OBVIOUS
  <2>1. FreshIsUnnamed
    BY DEF CatalogInit, FreshIsUnnamed, Idle, NamedIn
  <2>2. OneAtATime /\ \A h \in Handlers : SaveIsCurrent(req[h])
    BY DEF CatalogInit, OneAtATime, SaveIsCurrent, Idle
  <2>3. MarkedIsCurrent
    BY DEF CatalogInit, MarkedIsCurrent, Marked, Offered
  <2> QED
    BY <2>1, <2>2, <2>3 DEF CatalogInit, SyncInv
<1>2. TypeInv /\ SyncInv /\ [CatalogNext]_catalogVars => SyncInv'
  BY SyncInvStep
<1>3. SyncInv => SyncedIsCurrent
  BY DEF SyncInv, SyncedIsCurrent, Alone, MarkedIsCurrent, Marked, WillSettle
<1> QED
  BY <1>1, <1>2, <1>3, TypeInvAlways, PTL DEF CatalogSpec

=============================================================================
