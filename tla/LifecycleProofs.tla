--------------------------- MODULE LifecycleProofs ---------------------------
(***************************************************************************)
(* What an order's audit trail and its kitchen's screens say of it, for    *)
(* any number of status requests at once, any statuses and any cuts.       *)
(*                                                                         *)
(* Each invariant is proved over the one before: first that the row stays  *)
(* in its table once it is there and is never archived, so that no event   *)
(* of the trail is ever purged; then what the trail explains.              *)
(***************************************************************************)
EXTENDS OrderLifecycle, SequenceTheorems, FiniteSetTheorems, TLAPS

-----------------------------------------------------------------------------
(* The row, and the copies of it that requests hold.                       *)

NothingArchived ==
  /\ row.archived = "no"
  /\ \A q \in Requests : req[q].order.archived = "no" /\ req[q].base.archived = "no"

RowIsThere ==
  /\ row.status = NoStatus <=> creator = "insert"
  /\ \A q \in Requests : req[q].pc # "idle" =>
       /\ creator # "insert"
       /\ req[q].order.status # NoStatus /\ req[q].previous # NoStatus
       /\ req[q].pc = "write" => req[q].base.status # NoStatus

RowInv == LifecycleTypeOK /\ NothingArchived /\ RowIsThere

(* A row is its two columns.                                               *)
LEMMA RowFields ==
  /\ NoRow \in OrderRow /\ NoRow.status = NoStatus /\ NoRow.archived = "no"
  /\ \A r \in OrderRow : r = [status |-> r.status, archived |-> r.archived]
  /\ \A r \in OrderRow : r.archived = "no" => (r = NoRow <=> r.status = NoStatus)
  BY DEF OrderRow, NoRow

(* What the parts of RowInv say of a row and of a request.                 *)
LEMMA RowInvFacts ==
  ASSUME RowInv
  PROVE  /\ row \in OrderRow /\ row.archived = "no"
         /\ row = NoRow <=> creator = "insert"
         /\ row # NoRow => row.status \in Statuses
         /\ \A q \in Requests :
              /\ req[q] \in Request
              /\ req[q].pc # "idle" =>
                   /\ row # NoRow
                   /\ req[q].order.status \in Statuses /\ req[q].previous \in Statuses
              /\ req[q].pc = "write" => req[q].base # NoRow
<1>1. row \in OrderRow /\ \A q \in Requests : req[q] \in Request
  BY DEF RowInv, LifecycleTypeOK
<1>2. row = NoRow <=> creator = "insert"
  BY <1>1, RowFields DEF RowInv, NothingArchived, RowIsThere
<1>3. \A q \in Requests : /\ req[q].order \in OrderRow /\ req[q].base \in OrderRow
                          /\ req[q].previous \in Statuses \cup {NoStatus}
  BY <1>1 DEF Request
<1>4. \A r \in OrderRow : r.status \in Statuses \cup {NoStatus}
  BY DEF OrderRow
<1>5. row # NoRow => row.status \in Statuses
  BY <1>1, <1>2, <1>4 DEF RowInv, RowIsThere
<1>6. ASSUME NEW q \in Requests, req[q].pc # "idle"
      PROVE  /\ row # NoRow
             /\ req[q].order.status \in Statuses /\ req[q].previous \in Statuses
  BY <1>2, <1>3, <1>4, <1>6 DEF RowInv, RowIsThere
<1>7. ASSUME NEW q \in Requests, req[q].pc = "write" PROVE req[q].base # NoRow
  BY <1>7, RowFields DEF RowInv, RowIsThere
<1> QED
  BY <1>1, <1>2, <1>5, <1>6, <1>7 DEF RowInv, NothingArchived

(* TypeORM's save writes the status if the request changed it, into a row  *)
(* that is still there.                                                    *)
LEMMA SavedRow ==
  ASSUME RowInv, NEW q \in Requests, req[q].pc = "write"
  PROVE  /\ Saved(req[q]).archived = "no"
         /\ Saved(req[q]) \in OrderRow
         /\ Saved(req[q]).status \in Statuses
         /\ Saved(req[q]).status =
              IF req[q].order.status # req[q].base.status THEN req[q].order.status
                                                          ELSE row.status
<1>1. /\ row \in OrderRow /\ row # NoRow /\ req[q].base # NoRow
      /\ row.archived = "no" /\ row.status \in Statuses /\ req[q].order.status \in Statuses
      /\ req[q].order.archived = "no" /\ req[q].base.archived = "no"
  BY RowInvFacts DEF RowInv, NothingArchived
<1>2. DOMAIN row = {"status", "archived"}
  BY <1>1 DEF OrderRow
<1>3. Saved(req[q]) = [c \in {"status", "archived"} |->
                         IF req[q].order[c] # req[q].base[c] THEN req[q].order[c] ELSE row[c]]
  BY <1>1, <1>2 DEF Saved
<1>4. /\ Saved(req[q]).archived = "no"
      /\ Saved(req[q]).status =
              IF req[q].order.status # req[q].base.status THEN req[q].order.status
                                                          ELSE row.status
  BY <1>1, <1>3
<1>5. Saved(req[q]).status \in Statuses
  BY <1>1, <1>4
<1>6. Saved(req[q]) = [status |-> Saved(req[q]).status, archived |-> Saved(req[q]).archived]
  BY <1>3
<1>7. [status |-> Saved(req[q]).status, archived |-> Saved(req[q]).archived] \in OrderRow
  BY <1>4, <1>5 DEF OrderRow
<1> QED
  BY <1>4, <1>5, <1>6, <1>7

(* Retention and time leave a row alone that no literal of the SQL fits.   *)
LEMMA RetentionIsIdle ==
  ASSUME RowInv, RetentionStep \/ TimePasses
  PROVE  /\ UNCHANGED <<row, audit, screen, pushed, creator, req, patches, overlapped, cut>>
         /\ old' \in BOOLEAN /\ cron' \in {"idle", "purge"}
<1>1. row.archived = "no" /\ old \in BOOLEAN /\ cron \in {"idle", "purge"}
  BY DEF RowInv, NothingArchived, LifecycleTypeOK
<1>2. row.status \notin ArchivableStatuses
  BY RowInvFacts, StatusesAssumption, LifecycleAssumption, RowFields
  DEF ArchivableStatuses, NoStatus
<1>3. CASE ArchiveOldOrders
  BY <1>1, <1>2, <1>3 DEF ArchiveOldOrders
<1>4. CASE PurgeArchivedOrders
  BY <1>1, <1>4 DEF PurgeArchivedOrders
<1>5. CASE TimePasses
  BY <1>1, <1>5 DEF TimePasses
<1> QED
  BY <1>3, <1>4, <1>5 DEF RetentionStep

(* An event is appended.                                                   *)
LEMMA EventAppended ==
  ASSUME audit \in Seq(Event), NEW e \in Event, audit' = Append(audit, e)
  PROVE  /\ audit' \in Seq(Event) /\ Len(audit) \in Nat /\ Len(audit') = Len(audit) + 1
         /\ audit' # <<>> /\ audit'[Len(audit) + 1] = e
         /\ \A i \in 1 .. Len(audit) : audit'[i] = audit[i]
         /\ DOMAIN audit = 1 .. Len(audit) /\ DOMAIN audit' = 1 .. (Len(audit) + 1)
  BY AppendProperties, LenProperties

(* The events that the code writes are events.                             *)
LEMMA EventsAreTyped ==
  /\ [previous |-> NoStatus, new |-> Initial] \in Event
  /\ \A p, n \in Statuses : [previous |-> p, new |-> n] \in Event
  BY LifecycleAssumption DEF Event

(* One request is replaced.                                                *)
LEMMA RequestReplaced ==
  ASSUME LifecycleTypeOK, NEW q \in Requests, NEW n \in Request,
         req' = [req EXCEPT ![q] = n]
  PROVE  /\ req' \in [Requests -> Request] /\ req'[q] = n
         /\ \A p \in Requests \ {q} : req'[p] = req[p]
  BY DEF LifecycleTypeOK

(* What each step of a request does to it.                                 *)
LEMMA PatchMoves ==
  ASSUME RowInv, NEW q \in Requests, PatchStep(q)
  PROVE  /\ req' \in [Requests -> Request]
         /\ \A p \in Requests \ {q} : req'[p] = req[p]
         /\ FindOrder(q) =>
              /\ req[q].pc = "idle" /\ req'[q].pc = "save"
              /\ req'[q].order.status \in Statuses /\ req'[q].order.archived = "no"
              /\ req'[q].previous = row.status /\ req'[q].base = NoRow
         /\ ReloadOrder(q) => req[q].pc = "save" /\ req'[q].pc = "write" /\ req'[q].base = row
         /\ WriteOrder(q) => req[q].pc = "write" /\ req'[q].pc = "log"
         /\ LogChange(q) => req[q].pc = "log" /\ req'[q].pc = "broadcast"
         /\ ReloadOrder(q) \/ WriteOrder(q) \/ LogChange(q) =>
              req'[q].order = req[q].order /\ req'[q].previous = req[q].previous
         /\ WriteOrder(q) \/ LogChange(q) => req'[q].base = req[q].base
         /\ AnswerPatch(q) => req[q].pc = "broadcast"
         /\ AnswerPatch(q) \/ PatchFails(q) => req[q].pc # "idle" /\ req'[q] = IdleRequest
<1>1. /\ LifecycleTypeOK /\ req \in [Requests -> Request] /\ req[q] \in Request
      /\ row \in OrderRow
  BY RowInvFacts DEF RowInv, LifecycleTypeOK
<1>2. IdleRequest \in Request /\ IdleRequest.pc = "idle"
  BY RowFields DEF IdleRequest, Request
<1>3. CASE FindOrder(q)
  <2>1. PICK s \in Statuses :
          req' = [req EXCEPT ![q] = [pc |-> "save", order |-> [row EXCEPT !.status = s],
                                     previous |-> row.status, base |-> NoRow]]
    BY <1>3 DEF FindOrder
  <2> DEFINE o == [row EXCEPT !.status = s]
             n == [pc |-> "save", order |-> o, previous |-> row.status, base |-> NoRow]
  <2>2. o \in OrderRow /\ o.status = s /\ o.archived = "no"
    BY <1>1, RowInvFacts DEF OrderRow
  <2>3. row.status \in Statuses \cup {NoStatus}
    BY <1>1 DEF OrderRow
  <2> HIDE DEF o
  <2>4. n \in Request
    BY <2>2, <2>3, RowFields DEF Request
  <2>5. /\ req' \in [Requests -> Request] /\ req'[q] = n
        /\ \A p \in Requests \ {q} : req'[p] = req[p]
    BY <1>1, <2>1, <2>4, RequestReplaced DEF o
  <2>6. req[q].pc = "idle"
    BY <1>3 DEF FindOrder
  <2> QED
    BY <2>2, <2>5, <2>6
    DEF FindOrder, ReloadOrder, WriteOrder, LogChange, AnswerPatch, PatchFails
<1>4. CASE ReloadOrder(q)
  <2> DEFINE n == [req[q] EXCEPT !.pc = "write", !.base = row]
  <2>1. n \in Request
    BY <1>1 DEF Request
  <2>2. /\ n.pc = "write" /\ n.base = row /\ n.order = req[q].order
        /\ n.previous = req[q].previous
    BY <1>1 DEF Request
  <2>3. req' = [req EXCEPT ![q] = n]
    BY <1>1, <1>4 DEF ReloadOrder
  <2> HIDE DEF n
  <2>4. /\ req' \in [Requests -> Request] /\ req'[q] = n
        /\ \A p \in Requests \ {q} : req'[p] = req[p]
    BY <1>1, <2>1, <2>3, RequestReplaced
  <2>5. req[q].pc = "save"
    BY <1>4 DEF ReloadOrder
  <2> QED
    BY <1>2, <2>2, <2>4, <2>5
    DEF FindOrder, ReloadOrder, WriteOrder, LogChange, AnswerPatch, PatchFails
<1>5. ASSUME NEW pc \in {"log", "broadcast"}, req' = [req EXCEPT ![q].pc = pc]
      PROVE  /\ req' \in [Requests -> Request]
             /\ req'[q].pc = pc /\ req'[q].order = req[q].order
             /\ req'[q].previous = req[q].previous /\ req'[q].base = req[q].base
             /\ \A p \in Requests \ {q} : req'[p] = req[p]
  <2> DEFINE n == [req[q] EXCEPT !.pc = pc]
  <2>1. n \in Request
    BY <1>1, <1>5 DEF Request
  <2>2. /\ n.pc = pc /\ n.base = req[q].base /\ n.order = req[q].order
        /\ n.previous = req[q].previous
    BY <1>1 DEF Request
  <2>3. req' = [req EXCEPT ![q] = n]
    BY <1>1, <1>5
  <2> HIDE DEF n
  <2> QED
    BY <1>1, <2>1, <2>2, <2>3, RequestReplaced
<1>6. CASE WriteOrder(q)
  <2>1. req[q].pc = "write" /\ req' = [req EXCEPT ![q].pc = "log"]
    BY <1>6 DEF WriteOrder
  <2> QED
    BY <1>2, <1>5, <2>1
    DEF FindOrder, ReloadOrder, WriteOrder, LogChange, AnswerPatch, PatchFails
<1>7. CASE LogChange(q)
  <2>1. req[q].pc = "log" /\ req' = [req EXCEPT ![q].pc = "broadcast"]
    BY <1>7 DEF LogChange
  <2> QED
    BY <1>2, <1>5, <2>1
    DEF FindOrder, ReloadOrder, WriteOrder, LogChange, AnswerPatch, PatchFails
<1>8. CASE AnswerPatch(q) \/ PatchFails(q)
  <2>1. /\ req' \in [Requests -> Request] /\ req'[q] = IdleRequest
        /\ \A p \in Requests \ {q} : req'[p] = req[p]
    BY <1>1, <1>2, <1>8, RequestReplaced DEF AnswerPatch, PatchFails
  <2>2. req[q].pc # "idle" /\ (AnswerPatch(q) => req[q].pc = "broadcast")
    BY <1>8 DEF AnswerPatch, PatchFails
  <2>3. ~(ReloadOrder(q) \/ WriteOrder(q) \/ LogChange(q))
    BY <1>1, <1>2, <2>1 DEF ReloadOrder, WriteOrder, LogChange, Request
  <2> QED
    BY <1>2, <2>1, <2>2, <2>3 DEF FindOrder
<1> QED
  BY <1>3, <1>4, <1>6, <1>7, <1>8 DEF PatchStep

(* A request holds unarchived copies after its step as well.               *)
LEMMA PatchKeepsCopies ==
  ASSUME RowInv, NEW q \in Requests, PatchStep(q)
  PROVE  /\ req'[q].order.archived = "no" /\ req'[q].base.archived = "no"
         /\ req'[q].pc # "idle" =>
              /\ creator # "insert"
              /\ req'[q].order.status # NoStatus /\ req'[q].previous # NoStatus
              /\ req'[q].pc = "write" => req'[q].base.status # NoStatus
<1>1. /\ req[q].order.archived = "no" /\ req[q].base.archived = "no"
      /\ row.archived = "no" /\ (row # NoRow => row.status # NoStatus)
      /\ req[q].pc # "idle" =>
           /\ creator # "insert" /\ row # NoRow
           /\ req[q].order.status # NoStatus /\ req[q].previous # NoStatus
  BY RowInvFacts DEF RowInv, NothingArchived, RowIsThere
<1>2. CASE FindOrder(q)
  <2>1. row # NoRow /\ creator # "insert"
    BY <1>2, RowInvFacts DEF FindOrder
  <2>2. \A s \in Statuses : s # NoStatus
    BY LifecycleAssumption
  <2> QED
    BY <1>1, <1>2, <2>1, <2>2, PatchMoves, RowFields
<1>3. CASE ReloadOrder(q)
  BY <1>1, <1>3, PatchMoves
<1>4. CASE WriteOrder(q) \/ LogChange(q)
  BY <1>1, <1>4, PatchMoves
<1>5. CASE AnswerPatch(q) \/ PatchFails(q)
  BY <1>5, PatchMoves, RowFields DEF IdleRequest
<1> QED
  BY <1>2, <1>3, <1>4, <1>5 DEF PatchStep

(* What a step of a request does to the rest of the state.                 *)
LEMMA PatchEffects ==
  ASSUME RowInv, NEW q \in Requests, PatchStep(q)
  PROVE  /\ UNCHANGED <<old, creator, cron>>
         /\ cut' \in BOOLEAN /\ overlapped' \in BOOLEAN /\ patches' \in 0 .. MaxPatches
         /\ cut => cut'
         /\ row' = row \/ (req[q].pc = "write" /\ row' = Saved(req[q]))
         /\ \/ UNCHANGED audit
            \/ /\ req[q].pc = "log"
               /\ audit' = Logged(req[q].previous, req[q].order.status)
         /\ pushed' \subseteq Statuses /\ screen' \in Statuses \cup {NoStatus}
<1>1. /\ cut \in BOOLEAN /\ overlapped \in BOOLEAN /\ patches \in 0 .. MaxPatches
      /\ pushed \subseteq Statuses /\ screen \in Statuses \cup {NoStatus}
      /\ req[q].pc # "idle" => req[q].order.status \in Statuses
  BY RowInvFacts DEF RowInv, LifecycleTypeOK
<1>2. CASE FindOrder(q)
  <2>1. patches' \in 0 .. MaxPatches
    BY <1>1, <1>2, LifecycleAssumption DEF FindOrder
  <2>2. overlapped' \in BOOLEAN
    BY <1>1, <1>2 DEF FindOrder, CreatorBusy
  <2> QED
    BY <1>1, <1>2, <2>1, <2>2 DEF FindOrder
<1>3. CASE ReloadOrder(q) \/ WriteOrder(q) \/ LogChange(q)
  BY <1>1, <1>3 DEF ReloadOrder, WriteOrder, LogChange
<1>4. CASE AnswerPatch(q)
  BY <1>1, <1>4 DEF AnswerPatch
<1>5. CASE PatchFails(q)
  BY <1>1, <1>5 DEF PatchFails
<1> QED
  BY <1>2, <1>3, <1>4, <1>5 DEF PatchStep

(* RowInv is inductive.                                                    *)
LEMMA RowInvStep == RowInv /\ [LifecycleNext]_lifecycleVars => RowInv'
<1> SUFFICES ASSUME RowInv, [LifecycleNext]_lifecycleVars PROVE RowInv'
  OBVIOUS
<1>1. /\ row \in OrderRow /\ old \in BOOLEAN /\ audit \in Seq(Event)
      /\ screen \in Statuses \cup {NoStatus} /\ pushed \subseteq Statuses
      /\ creator \in {"insert", "event", "broadcast", "done"}
      /\ req \in [Requests -> Request] /\ cron \in {"idle", "purge"}
      /\ patches \in 0 .. MaxPatches /\ overlapped \in BOOLEAN /\ cut \in BOOLEAN
  BY DEF RowInv, LifecycleTypeOK
<1>2. InsertedRow \in OrderRow /\ InsertedRow.archived = "no" /\ InsertedRow.status # NoStatus
  BY LifecycleAssumption DEF InsertedRow, OrderRow
<1>3. CASE CreatorStep
  <2>1. UNCHANGED <<old, pushed, req, cron, patches, overlapped>>
    BY <1>3 DEF CreatorStep, InsertRow, LogCreation, AnnounceOrder, CreatorEnds
  <2>2. /\ creator' \in {"event", "broadcast", "done"} /\ cut' \in BOOLEAN
        /\ screen' \in Statuses \cup {NoStatus}
    BY <1>1, <1>3, LifecycleAssumption
    DEF CreatorStep, InsertRow, LogCreation, AnnounceOrder, CreatorEnds
  <2>3. row' = IF creator = "insert" THEN InsertedRow ELSE row
    BY <1>3 DEF CreatorStep, InsertRow, LogCreation, AnnounceOrder, CreatorEnds
  <2>4. audit' \in Seq(Event)
    <3>1. audit' = audit \/ audit' = Append(audit, [previous |-> NoStatus, new |-> Initial])
      BY <1>3 DEF CreatorStep, InsertRow, LogCreation, AnnounceOrder, CreatorEnds, Logged
    <3> QED
      BY <1>1, <3>1, EventsAreTyped, EventAppended
  <2>5. LifecycleTypeOK'
    BY <1>1, <1>2, <2>1, <2>2, <2>3, <2>4 DEF LifecycleTypeOK
  <2>6. NothingArchived'
    BY <1>2, <2>1, <2>3 DEF RowInv, NothingArchived
  <2>7. RowIsThere'
    BY <1>2, <2>1, <2>2, <2>3 DEF RowInv, RowIsThere
  <2> QED
    BY <2>5, <2>6, <2>7 DEF RowInv
<1>4. ASSUME NEW q \in Requests, PatchStep(q) PROVE RowInv'
  <2>1. /\ req' \in [Requests -> Request]
        /\ \A p \in Requests \ {q} : req'[p] = req[p]
    BY <1>4, PatchMoves
  <2>2. row' = row \/ /\ req[q].pc = "write" /\ row' \in OrderRow
                      /\ row'.archived = "no" /\ row'.status \in Statuses
    BY <1>4, PatchEffects, SavedRow
  <2>3. audit' \in Seq(Event)
    <3>1. \/ audit' = audit
          \/ /\ req[q].pc = "log"
             /\ audit' = Append(audit, [previous |-> req[q].previous,
                                        new |-> req[q].order.status])
      BY <1>4, PatchEffects DEF Logged
    <3>2. req[q].pc = "log" =>
            [previous |-> req[q].previous, new |-> req[q].order.status] \in Event
      BY RowInvFacts, EventsAreTyped
    <3> QED
      BY <1>1, <3>1, <3>2, EventAppended
  <2>4. LifecycleTypeOK'
    BY <1>1, <1>4, <2>1, <2>2, <2>3, PatchEffects DEF LifecycleTypeOK
  <2>5. NothingArchived'
    BY <1>4, <2>1, <2>2, PatchKeepsCopies DEF RowInv, NothingArchived
  <2>6. RowIsThere'
    <3>1. creator' = creator /\ (row'.status = NoStatus <=> creator' = "insert")
      BY <1>4, <2>2, PatchEffects, LifecycleAssumption DEF RowInv, RowIsThere
    <3> QED
      BY <1>4, <2>1, <3>1, PatchKeepsCopies DEF RowInv, RowIsThere
  <2> QED
    BY <2>4, <2>5, <2>6 DEF RowInv
<1>5. CASE RetentionStep \/ TimePasses
  BY <1>1, <1>5, RetentionIsIdle DEF RowInv, LifecycleTypeOK, NothingArchived, RowIsThere
<1>6. CASE UNCHANGED lifecycleVars
  BY <1>6 DEF lifecycleVars, RowInv, LifecycleTypeOK, NothingArchived, RowIsThere
<1> QED
  BY <1>3, <1>4, <1>5, <1>6 DEF LifecycleNext

(* RowInv holds throughout.                                                *)
LEMMA RowInvAlways == LifecycleSpec => []RowInv
<1>1. LifecycleInit => RowInv
  <2> SUFFICES ASSUME LifecycleInit PROVE RowInv
    OBVIOUS
  <2>1. IdleRequest \in Request /\ IdleRequest.pc = "idle"
        /\ IdleRequest.order = NoRow /\ IdleRequest.base = NoRow
    BY RowFields DEF IdleRequest, Request
  <2>2. LifecycleTypeOK
    <3>1. row \in OrderRow /\ old \in BOOLEAN /\ screen \in Statuses \cup {NoStatus}
      BY RowFields DEF LifecycleInit
    <3>2. pushed \subseteq Statuses /\ cron \in {"idle", "purge"}
      BY DEF LifecycleInit
    <3>3. audit \in Seq(Event)
      BY EmptySeq DEF LifecycleInit
    <3>4. patches \in 0 .. MaxPatches
      BY LifecycleAssumption DEF LifecycleInit
    <3>5. req \in [Requests -> Request]
      BY <2>1 DEF LifecycleInit
    <3>6. creator \in {"insert", "event", "broadcast", "done"}
      BY DEF LifecycleInit
    <3>7. overlapped \in BOOLEAN /\ cut \in BOOLEAN
      BY DEF LifecycleInit
    <3> QED
      BY <3>1, <3>2, <3>3, <3>4, <3>5, <3>6, <3>7 DEF LifecycleTypeOK
  <2>3. NothingArchived /\ RowIsThere
    BY <2>1, RowFields DEF LifecycleInit, NothingArchived, RowIsThere
  <2> QED
    BY <2>2, <2>3 DEF RowInv
<1> QED
  BY <1>1, RowInvStep, PTL DEF LifecycleSpec

(* The state of the order and of the requests stays well formed.           *)
THEOREM LifecycleTypeCorrect == LifecycleSpec => []LifecycleTypeOK
<1>1. RowInv => LifecycleTypeOK
  BY DEF RowInv
<1> QED
  BY <1>1, RowInvAlways, PTL

-----------------------------------------------------------------------------
(* The screens: what they were told has an event in the trail.             *)

Recorded == {s \in Statuses : \E i \in DOMAIN audit : audit[i].new = s}

ScreenInv ==
  /\ screen # NoStatus => screen \in Recorded
  /\ creator = "broadcast" => Initial \in Recorded
  /\ \A q \in Requests : req[q].pc = "broadcast" => req[q].order.status \in Recorded

(* The trail: what it explains, or is about to explain.                    *)
Unlogged == {q \in Requests : req[q].pc \in {"save", "write", "log"}}

Explained ==
  Recorded \cup
  {s \in Statuses : \/ creator = "event" /\ s = Initial
                    \/ \E q \in Requests : req[q].pc = "log" /\ req[q].order.status = s}

CreationUnlogged == IF creator \in {"insert", "event"} THEN 1 ELSE 0

TrailIsCounted ==
  /\ IsFiniteSet(Unlogged)
  /\ Len(audit) + Cardinality(Unlogged) + CreationUnlogged = patches + 1

TrailExplains ==
  /\ row # NoRow => row.status \in Explained
  /\ \A q \in Requests : req[q].pc # "idle" => req[q].previous \in Explained
  /\ \A i \in DOMAIN audit : audit[i].previous \in Explained \cup {NoStatus}

CompleteInv == ~cut => TrailIsCounted /\ TrailExplains

(* One handler after the other: where each of them finds the trail's end.  *)
Latest == audit[Len(audit)].new

CreatorAlone ==
  /\ creator \in {"insert", "event"} => audit = <<>>
  /\ creator \in {"broadcast", "done"} => audit # <<>>
  /\ creator # "done" => \A q \in Requests : req[q].pc = "idle"
  /\ creator = "event" => row.status = Initial
  /\ creator = "broadcast" => row.status = Initial /\ Latest = Initial

RequestAlone ==
  /\ \A p, q \in Requests : req[p].pc # "idle" /\ req[q].pc # "idle" => p = q
  /\ \A q \in Requests :
       /\ req[q].pc \in {"save", "write"} => row.status = Latest
       /\ req[q].pc \in {"save", "write", "log"} => req[q].previous = Latest
       /\ req[q].pc = "write" => req[q].base = row
       /\ req[q].pc \in {"log", "broadcast"} => row.status = req[q].order.status
       /\ req[q].pc = "broadcast" => row.status = Latest

TrailIsAChain == \A i \in 2 .. Len(audit) : audit[i].previous = audit[i - 1].new

AllAgree == Quiescent => row.status = Latest /\ row.status = screen

SequenceInv ==
  ~cut /\ ~overlapped => CreatorAlone /\ RequestAlone /\ TrailIsAChain /\ AllAgree

-----------------------------------------------------------------------------
(* The trail only grows.                                                   *)

(* An event that is appended is recorded, and so is what was before.       *)
LEMMA AppendedIsRecorded ==
  ASSUME audit \in Seq(Event), NEW e \in Event, audit' = Append(audit, e)
  PROVE  Recorded' = Recorded \cup {e.new}
<1>1. /\ Len(audit) \in Nat /\ audit'[Len(audit) + 1] = e
      /\ \A i \in 1 .. Len(audit) : audit'[i] = audit[i]
      /\ DOMAIN audit = 1 .. Len(audit) /\ DOMAIN audit' = 1 .. (Len(audit) + 1)
  BY EventAppended
<1>2. e.new \in Statuses
  BY DEF Event
<1>3. \A i : i \in DOMAIN audit' <=> i \in DOMAIN audit \/ i = Len(audit) + 1
  BY <1>1
<1>4. \A i \in DOMAIN audit : audit'[i].new = audit[i].new
  BY <1>1
<1> QED
  BY <1>1, <1>2, <1>3, <1>4 DEF Recorded

(* What a step of the creating run does to the trail.                      *)
LEMMA CreatorLogs ==
  ASSUME RowInv, CreatorStep
  PROVE  \/ audit' = audit
         \/ creator = "event" /\ audit' = Append(audit, [previous |-> NoStatus, new |-> Initial])
  BY DEF CreatorStep, InsertRow, LogCreation, AnnounceOrder, CreatorEnds, Logged

(* What a step of a request does to it.                                    *)
LEMMA PatchLogs ==
  ASSUME RowInv, NEW q \in Requests, PatchStep(q)
  PROVE  \/ audit' = audit
         \/ /\ req[q].pc = "log"
            /\ [previous |-> req[q].previous, new |-> req[q].order.status] \in Event
            /\ audit' = Append(audit, [previous |-> req[q].previous,
                                       new |-> req[q].order.status])
<1>1. req[q].pc = "log" =>
        [previous |-> req[q].previous, new |-> req[q].order.status] \in Event
  BY RowInvFacts, EventsAreTyped
<1> QED
  BY <1>1, PatchEffects DEF Logged

(* No step takes an event away.                                            *)
LEMMA TrailGrows ==
  ASSUME RowInv, [LifecycleNext]_lifecycleVars
  PROVE  Recorded \subseteq Recorded'
<1>1. audit \in Seq(Event)
  BY DEF RowInv, LifecycleTypeOK
<1>2. CASE UNCHANGED audit
  BY <1>2 DEF Recorded
<1>3. ASSUME NEW e \in Event, audit' = Append(audit, e)
      PROVE  Recorded \subseteq Recorded'
  BY <1>1, <1>3, AppendedIsRecorded
<1>4. CASE CreatorStep
  BY <1>2, <1>3, <1>4, CreatorLogs, EventsAreTyped
<1>5. ASSUME NEW q \in Requests, PatchStep(q) PROVE Recorded \subseteq Recorded'
  BY <1>2, <1>3, <1>5, PatchLogs
<1>6. CASE RetentionStep \/ TimePasses
  BY <1>2, <1>6, RetentionIsIdle
<1>7. CASE UNCHANGED lifecycleVars
  BY <1>2, <1>7 DEF lifecycleVars
<1> QED
  BY <1>4, <1>5, <1>6, <1>7 DEF LifecycleNext

-----------------------------------------------------------------------------
(* The screens.                                                            *)

(* ScreenInv is preserved.                                                 *)
LEMMA ScreenInvStep ==
  ASSUME RowInv, ScreenInv, [LifecycleNext]_lifecycleVars
  PROVE  ScreenInv'
<1>1. Recorded \subseteq Recorded' /\ audit \in Seq(Event)
  BY TrailGrows DEF RowInv, LifecycleTypeOK
<1>2. CASE CreatorStep
  <2>1. UNCHANGED req
    BY <1>2 DEF CreatorStep, InsertRow, LogCreation, AnnounceOrder, CreatorEnds
  <2>2. screen' = screen \/ (creator = "broadcast" /\ screen' = Initial)
    BY <1>2 DEF CreatorStep, InsertRow, LogCreation, AnnounceOrder, CreatorEnds
  <2>3. creator' = "broadcast" =>
          audit' = Append(audit, [previous |-> NoStatus, new |-> Initial])
    BY <1>2 DEF CreatorStep, InsertRow, LogCreation, AnnounceOrder, CreatorEnds, Logged
  <2>4. creator' = "broadcast" => Initial \in Recorded'
    BY <1>1, <2>3, AppendedIsRecorded, EventsAreTyped
  <2> QED
    BY <1>1, <2>1, <2>2, <2>4 DEF ScreenInv
<1>3. ASSUME NEW q \in Requests, PatchStep(q) PROVE ScreenInv'
  <2>1. /\ creator' = creator
        /\ \A p \in Requests \ {q} : req'[p] = req[p]
    BY <1>3, PatchEffects, PatchMoves
  <2>2. screen' = screen \/ (req[q].pc = "broadcast" /\ screen' = req[q].order.status)
    BY <1>3
    DEF PatchStep, FindOrder, ReloadOrder, WriteOrder, LogChange, AnswerPatch, PatchFails
  <2>3. req'[q].pc = "broadcast" => req'[q].order.status \in Recorded'
    <3>1. CASE LogChange(q)
      <4>1. audit' = Append(audit, [previous |-> req[q].previous,
                                    new |-> req[q].order.status])
        BY <3>1 DEF LogChange, Logged
      <4>2. /\ [previous |-> req[q].previous, new |-> req[q].order.status] \in Event
            /\ req'[q].order = req[q].order
        BY <1>3, <3>1, PatchMoves, RowInvFacts, EventsAreTyped
      <4> QED
        BY <1>1, <4>1, <4>2, AppendedIsRecorded
    <3>2. CASE ~LogChange(q)
      BY <1>3, <3>2, PatchMoves DEF PatchStep, IdleRequest
    <3> QED
      BY <3>1, <3>2
  <2>4. \A p \in Requests : req'[p].pc = "broadcast" => req'[p].order.status \in Recorded'
    BY <1>1, <2>1, <2>3 DEF ScreenInv
  <2> QED
    BY <1>1, <2>1, <2>2, <2>4 DEF ScreenInv
<1>4. CASE RetentionStep \/ TimePasses
  BY <1>1, <1>4, RetentionIsIdle DEF ScreenInv
<1>5. CASE UNCHANGED lifecycleVars
  BY <1>1, <1>5 DEF lifecycleVars, ScreenInv
<1> QED
  BY <1>2, <1>3, <1>4, <1>5 DEF LifecycleNext

(* The kitchen is told no status of which the audit trail has no event,    *)
(* whatever fails and however the requests interleave.                     *)
THEOREM ScreenIsAlwaysLogged == LifecycleSpec => []ScreenWasLogged
<1>1. LifecycleInit => ScreenInv
  BY DEF LifecycleInit, ScreenInv, IdleRequest
<1>2. RowInv /\ ScreenInv /\ [LifecycleNext]_lifecycleVars => ScreenInv'
  BY ScreenInvStep
<1>3. ScreenInv => ScreenWasLogged
  BY DEF ScreenInv, Recorded, ScreenWasLogged
<1> QED
  BY <1>1, <1>2, <1>3, RowInvAlways, PTL DEF LifecycleSpec

-----------------------------------------------------------------------------
(* The trail is complete.                                                  *)

(* Requests enter and leave Unlogged one at a time.                        *)
LEMMA UnloggedMoves ==
  ASSUME RowInv, IsFiniteSet(Unlogged), NEW q \in Requests, PatchStep(q)
  PROVE  /\ IsFiniteSet(Unlogged')
         /\ FindOrder(q) => Cardinality(Unlogged') = Cardinality(Unlogged) + 1
         /\ ReloadOrder(q) \/ WriteOrder(q) \/ AnswerPatch(q) =>
              Cardinality(Unlogged') = Cardinality(Unlogged)
         /\ LogChange(q) => Cardinality(Unlogged') = Cardinality(Unlogged) - 1
<1>1. \A p \in Requests \ {q} : req'[p] = req[p]
  BY PatchMoves
<1>2. CASE FindOrder(q)
  <2>1. q \notin Unlogged /\ Unlogged' = Unlogged \cup {q}
    BY <1>1, <1>2, PatchMoves DEF Unlogged
  <2>2. ~(ReloadOrder(q) \/ WriteOrder(q) \/ AnswerPatch(q) \/ LogChange(q))
    BY <1>2, PatchMoves
  <2> QED
    BY <2>1, <2>2, FS_AddElement
<1>3. CASE ReloadOrder(q) \/ WriteOrder(q) \/ AnswerPatch(q)
  <2>1. Unlogged' = Unlogged
    BY <1>1, <1>3, PatchMoves DEF Unlogged, IdleRequest
  <2>2. ~FindOrder(q) /\ ~LogChange(q)
    BY <1>3, PatchMoves DEF IdleRequest
  <2> QED
    BY <2>1, <2>2
<1>4. CASE LogChange(q)
  <2>1. q \in Unlogged /\ Unlogged' = Unlogged \ {q}
    BY <1>1, <1>4, PatchMoves DEF Unlogged
  <2>2. ~(ReloadOrder(q) \/ WriteOrder(q) \/ AnswerPatch(q) \/ FindOrder(q))
    BY <1>4, PatchMoves
  <2> QED
    BY <2>1, <2>2, FS_RemoveElement
<1>5. CASE PatchFails(q)
  <2>1. Unlogged' = Unlogged \ {q}
    BY <1>1, <1>5, PatchMoves DEF Unlogged, IdleRequest
  <2>2. ~(FindOrder(q) \/ ReloadOrder(q) \/ WriteOrder(q) \/ LogChange(q))
    BY <1>5, PatchMoves DEF IdleRequest
  <2>3. ~AnswerPatch(q) \/ Unlogged' = Unlogged
    BY <1>1, PatchMoves DEF Unlogged, IdleRequest
  <2> QED
    BY <2>1, <2>2, <2>3, FS_RemoveElement
<1> QED
  BY <1>2, <1>3, <1>4, <1>5 DEF PatchStep

(* Unless a handler is cut off, each step keeps the count of events.       *)
LEMMA TrailIsCountedStep ==
  ASSUME RowInv, TrailIsCounted, [LifecycleNext]_lifecycleVars, ~cut'
  PROVE  TrailIsCounted'
<1>1. /\ audit \in Seq(Event) /\ patches \in Nat /\ Len(audit) \in Nat
      /\ IsFiniteSet(Unlogged) /\ Cardinality(Unlogged) \in Nat
      /\ Len(audit) + Cardinality(Unlogged) + CreationUnlogged = patches + 1
  BY FS_CardinalityType, LenProperties DEF RowInv, LifecycleTypeOK, TrailIsCounted
<1>2. CASE CreatorStep
  <2>1. UNCHANGED <<req, patches>>
    BY <1>2 DEF CreatorStep, InsertRow, LogCreation, AnnounceOrder, CreatorEnds
  <2>2. Unlogged' = Unlogged
    BY <2>1 DEF Unlogged
  <2>3. CASE LogCreation
    <3>1. Len(audit') = Len(audit) + 1
      BY <1>1, <2>3, EventsAreTyped, EventAppended DEF LogCreation, Logged
    <3>2. CreationUnlogged = 1 /\ CreationUnlogged' = 0
      BY <2>3 DEF LogCreation, CreationUnlogged
    <3> QED
      BY <1>1, <2>1, <2>2, <3>1, <3>2 DEF TrailIsCounted
  <2>4. CASE ~LogCreation
    <3>1. audit' = audit /\ CreationUnlogged' = CreationUnlogged
      BY <1>2, <2>4
      DEF CreatorStep, InsertRow, AnnounceOrder, CreatorEnds, CreationUnlogged
    <3> QED
      BY <1>1, <2>1, <2>2, <3>1 DEF TrailIsCounted
  <2> QED
    BY <2>3, <2>4
<1>3. ASSUME NEW q \in Requests, PatchStep(q) PROVE TrailIsCounted'
  <2>1. CreationUnlogged' = CreationUnlogged /\ CreationUnlogged \in Nat
    BY <1>3, PatchEffects DEF CreationUnlogged
  <2>2. ~PatchFails(q)
    BY DEF PatchFails
  <2>3. IsFiniteSet(Unlogged')
    BY <1>1, <1>3, UnloggedMoves
  <2>4. CASE FindOrder(q)
    <3>1. patches' = patches + 1 /\ audit' = audit
      BY <2>4 DEF FindOrder
    <3> QED
      BY <1>1, <1>3, <2>1, <2>3, <2>4, <3>1, UnloggedMoves DEF TrailIsCounted
  <2>5. CASE ReloadOrder(q) \/ WriteOrder(q) \/ AnswerPatch(q)
    <3>1. patches' = patches /\ audit' = audit
      BY <2>5 DEF ReloadOrder, WriteOrder, AnswerPatch
    <3> QED
      BY <1>1, <1>3, <2>1, <2>3, <2>5, <3>1, UnloggedMoves DEF TrailIsCounted
  <2>6. CASE LogChange(q)
    <3>1. /\ patches' = patches
          /\ audit' = Append(audit, [previous |-> req[q].previous,
                                     new |-> req[q].order.status])
          /\ req[q].pc = "log"
      BY <2>6 DEF LogChange, Logged
    <3>2. [previous |-> req[q].previous, new |-> req[q].order.status] \in Event
      BY <3>1, RowInvFacts, EventsAreTyped
    <3>3. Len(audit') = Len(audit) + 1
      BY <1>1, <3>1, <3>2, EventAppended
    <3> QED
      BY <1>1, <1>3, <2>1, <2>3, <2>6, <3>1, <3>3, UnloggedMoves DEF TrailIsCounted
  <2> QED
    BY <1>3, <2>2, <2>4, <2>5, <2>6 DEF PatchStep
<1>4. CASE UNCHANGED <<audit, creator, req, patches>>
  BY <1>1, <1>4 DEF TrailIsCounted, Unlogged, CreationUnlogged
<1> QED
  BY <1>2, <1>3, <1>4, RetentionIsIdle DEF LifecycleNext, lifecycleVars

(* The creating run's event is recorded as it is written.                  *)
LEMMA CreationIsRecorded ==
  ASSUME RowInv, LogCreation
  PROVE  /\ Initial \in Recorded' /\ creator' = "broadcast"
         /\ audit' = Append(audit, [previous |-> NoStatus, new |-> Initial])
<1>1. audit' = Append(audit, [previous |-> NoStatus, new |-> Initial])
  BY DEF LogCreation, Logged
<1>2. audit \in Seq(Event)
  BY DEF RowInv, LifecycleTypeOK
<1> QED
  BY <1>1, <1>2, AppendedIsRecorded, EventsAreTyped DEF LogCreation

(* So is a request's.                                                      *)
LEMMA ChangeIsRecorded ==
  ASSUME RowInv, NEW q \in Requests, LogChange(q)
  PROVE  req[q].order.status \in Recorded'
<1>1. /\ req[q].pc = "log"
      /\ audit' = Append(audit, [previous |-> req[q].previous,
                                 new |-> req[q].order.status])
  BY DEF LogChange, Logged
<1>2. /\ audit \in Seq(Event)
      /\ [previous |-> req[q].previous, new |-> req[q].order.status] \in Event
  BY <1>1, RowInvFacts, EventsAreTyped DEF RowInv, LifecycleTypeOK
<1> QED
  BY <1>1, <1>2, AppendedIsRecorded

(* What is explained stays explained unless a handler is cut off.          *)
LEMMA ExplainedGrows ==
  ASSUME RowInv, [LifecycleNext]_lifecycleVars, ~cut'
  PROVE  Explained \subseteq Explained'
<1>1. Recorded' \subseteq Explained'
  BY DEF Explained
<1> SUFFICES ASSUME NEW s \in Explained PROVE s \in Explained'
  OBVIOUS
<1>2. CASE s \in Recorded
  BY <1>1, <1>2, TrailGrows
<1>3. CASE s \notin Recorded
  <2>1. s \in Statuses
    BY <1>3 DEF Explained
  <2>2. CASE creator = "event" /\ s = Initial
    <3>1. CASE creator' = creator
      BY <2>1, <2>2, <3>1 DEF Explained
    <3>2. CASE CreatorStep
      <4>1. LogCreation
        BY <2>2, <3>2 DEF CreatorStep, InsertRow, AnnounceOrder, CreatorEnds
      <4> QED
        BY <1>1, <2>2, <4>1, CreationIsRecorded
    <3> QED
      BY <3>1, <3>2, PatchEffects, RetentionIsIdle DEF LifecycleNext, lifecycleVars
  <2>3. ASSUME NEW p \in Requests, req[p].pc = "log", req[p].order.status = s
        PROVE  s \in Explained'
    <3>1. CASE req'[p] = req[p]
      BY <2>1, <2>3, <3>1 DEF Explained
    <3>2. CASE PatchStep(p)
      <4>1. LogChange(p)
        BY <2>3, <3>2
        DEF PatchStep, FindOrder, ReloadOrder, WriteOrder, AnswerPatch, PatchFails
      <4> QED
        BY <1>1, <2>3, <4>1, ChangeIsRecorded
    <3>3. CASE CreatorStep
      BY <3>1, <3>3 DEF CreatorStep, InsertRow, LogCreation, AnnounceOrder, CreatorEnds
    <3>4. ASSUME NEW q \in Requests, PatchStep(q), q # p PROVE req'[p] = req[p]
      BY <3>4, PatchMoves
    <3> QED
      BY <3>1, <3>2, <3>3, <3>4, RetentionIsIdle DEF LifecycleNext, lifecycleVars
  <2> QED
    BY <1>3, <2>2, <2>3 DEF Explained
<1> QED
  BY <1>2, <1>3

(* The previous statuses the trail holds are explained after an event      *)
(* whose own previous status is.                                           *)
LEMMA PreviousExplained ==
  ASSUME RowInv, NEW e \in Event, audit' = audit \/ audit' = Append(audit, e),
         NEW S, \A i \in DOMAIN audit : audit[i].previous \in S,
         audit' # audit => e.previous \in S
  PROVE  \A i \in DOMAIN audit' : audit'[i].previous \in S
<1>1. CASE audit' = audit
  BY <1>1
<1>2. CASE audit' # audit
  <2>1. audit \in Seq(Event) /\ audit' = Append(audit, e)
    BY <1>2 DEF RowInv, LifecycleTypeOK
  <2>2. /\ Len(audit) \in Nat /\ audit'[Len(audit) + 1] = e
        /\ \A i \in 1 .. Len(audit) : audit'[i] = audit[i]
        /\ DOMAIN audit = 1 .. Len(audit) /\ DOMAIN audit' = 1 .. (Len(audit) + 1)
    BY <2>1, EventAppended
  <2>3. \A i \in DOMAIN audit' : i \in DOMAIN audit \/ i = Len(audit) + 1
    BY <2>2
  <2> QED
    BY <1>2, <2>2, <2>3
<1> QED
  BY <1>1, <1>2

(* TrailExplains is preserved unless a handler is cut off.                 *)
LEMMA TrailExplainsStep ==
  ASSUME RowInv, TrailExplains, [LifecycleNext]_lifecycleVars, ~cut'
  PROVE  TrailExplains'
<1>1. PICK S : S = Explained'
  OBVIOUS
<1>2. /\ row # NoRow => row.status \in S
      /\ \A q \in Requests : req[q].pc # "idle" => req[q].previous \in S
      /\ \A i \in DOMAIN audit : audit[i].previous \in S \cup {NoStatus}
  BY <1>1, ExplainedGrows DEF TrailExplains
<1> SUFFICES /\ row' # NoRow => row'.status \in S
             /\ \A q \in Requests : req'[q].pc # "idle" => req'[q].previous \in S
             /\ \A i \in DOMAIN audit' : audit'[i].previous \in S \cup {NoStatus}
  BY <1>1 DEF TrailExplains
<1>3. CASE CreatorStep
  <2>1. req' = req /\ (row' = row \/ creator = "insert")
    BY <1>3 DEF CreatorStep, InsertRow, LogCreation, AnnounceOrder, CreatorEnds
  <2>2. creator = "insert" => row'.status \in S
    <3>1. ASSUME creator = "insert" PROVE row' = InsertedRow /\ creator' = "event"
      BY <1>3, <3>1 DEF CreatorStep, InsertRow, LogCreation, AnnounceOrder, CreatorEnds
    <3> QED
      BY <1>1, <3>1, LifecycleAssumption DEF InsertedRow, Explained
  <2>3. \A i \in DOMAIN audit' : audit'[i].previous \in S \cup {NoStatus}
    BY <1>2, <1>3, CreatorLogs, PreviousExplained, EventsAreTyped
  <2> QED
    BY <1>2, <2>1, <2>2, <2>3
<1>4. ASSUME NEW q \in Requests, PatchStep(q)
      PROVE  /\ row' # NoRow => row'.status \in S
             /\ \A p \in Requests : req'[p].pc # "idle" => req'[p].previous \in S
             /\ \A i \in DOMAIN audit' : audit'[i].previous \in S \cup {NoStatus}
  <2>1. row' # NoRow => row'.status \in S
    <3>1. CASE row' = row
      BY <1>2, <3>1
    <3>2. CASE row' # row
      <4>1. WriteOrder(q) /\ row' = Saved(req[q]) /\ req[q].pc = "write"
        BY <1>4, <3>2
        DEF PatchStep, FindOrder, ReloadOrder, WriteOrder, LogChange, AnswerPatch, PatchFails
      <4>2. row'.status = req[q].order.status \/ (row'.status = row.status /\ row # NoRow)
        BY <4>1, SavedRow, RowInvFacts
      <4>3. /\ req'[q].pc = "log" /\ req'[q].order = req[q].order
            /\ req[q].order.status \in Statuses
        BY <1>4, <4>1, PatchMoves, RowInvFacts
      <4>4. req[q].order.status \in S
        BY <1>1, <4>3 DEF Explained
      <4> QED
        BY <1>2, <4>2, <4>4
    <3> QED
      BY <3>1, <3>2
  <2>2. \A p \in Requests : req'[p].pc # "idle" => req'[p].previous \in S
    <3>1. \A p \in Requests \ {q} : req'[p] = req[p]
      BY <1>4, PatchMoves
    <3>2. CASE FindOrder(q)
      <4>1. row # NoRow /\ req'[q].previous = row.status
        BY <1>4, <3>2, PatchMoves DEF FindOrder
      <4> QED
        BY <1>2, <3>1, <4>1
    <3>3. CASE ReloadOrder(q) \/ WriteOrder(q) \/ LogChange(q)
      <4>1. req'[q].previous = req[q].previous /\ req[q].pc # "idle"
        BY <1>4, <3>3, PatchMoves
      <4> QED
        BY <1>2, <3>1, <4>1
    <3>4. CASE AnswerPatch(q) \/ PatchFails(q)
      BY <1>2, <1>4, <3>1, <3>4, PatchMoves DEF IdleRequest
    <3> QED
      BY <1>4, <3>2, <3>3, <3>4 DEF PatchStep
  <2>3. \A i \in DOMAIN audit' : audit'[i].previous \in S \cup {NoStatus}
    <3>1. CASE audit' = audit
      BY <1>2, <3>1
    <3>2. CASE audit' # audit
      <4>1. /\ req[q].pc = "log"
            /\ [previous |-> req[q].previous, new |-> req[q].order.status] \in Event
            /\ audit' = Append(audit, [previous |-> req[q].previous,
                                       new |-> req[q].order.status])
        BY <1>4, <3>2, PatchLogs
      <4> QED
        BY <1>2, <4>1, PreviousExplained
    <3> QED
      BY <3>1, <3>2
  <2> QED
    BY <2>1, <2>2, <2>3
<1>5. CASE UNCHANGED <<row, req, audit>>
  BY <1>2, <1>5
<1> QED
  BY <1>3, <1>4, <1>5, RetentionIsIdle DEF LifecycleNext, lifecycleVars

(* A step cuts off no handler that it does not say it cuts off.            *)
LEMMA CutStays == RowInv /\ [LifecycleNext]_lifecycleVars => (cut => cut')
  BY PatchEffects, RetentionIsIdle
  DEF LifecycleNext, lifecycleVars, CreatorStep, InsertRow, LogCreation, AnnounceOrder,
      CreatorEnds

(* However the status requests interleave, with each other and with the    *)
(* end of the creating run, the audit trail has one event for each of them *)
(* and explains every status the order had, unless a handler was cut off.  *)
THEOREM AuditIsAlwaysComplete == LifecycleSpec => []AuditIsComplete
<1>1. LifecycleInit => CompleteInv
  <2> SUFFICES ASSUME LifecycleInit PROVE TrailIsCounted /\ TrailExplains
    BY DEF CompleteInv
  <2>1. Unlogged = {} /\ CreationUnlogged = 1
    BY DEF LifecycleInit, Unlogged, IdleRequest, CreationUnlogged
  <2>2. Len(audit) = 0 /\ DOMAIN audit = {} /\ patches = 0
    BY EmptySeq DEF LifecycleInit
  <2>3. IsFiniteSet(Unlogged) /\ Cardinality(Unlogged) = 0
    BY <2>1, FS_EmptySet
  <2>4. TrailIsCounted
    BY <2>1, <2>2, <2>3 DEF TrailIsCounted
  <2>5. TrailExplains
    BY <2>2 DEF LifecycleInit, TrailExplains, IdleRequest
  <2> QED
    BY <2>4, <2>5
<1>2. RowInv /\ CompleteInv /\ [LifecycleNext]_lifecycleVars => CompleteInv'
  BY CutStays, TrailIsCountedStep, TrailExplainsStep DEF CompleteInv
<1>3. RowInv /\ CompleteInv => AuditIsComplete
  <2> SUFFICES ASSUME RowInv, CompleteInv, Quiescent, ~cut
               PROVE  LET news == {audit[i].new : i \in DOMAIN audit}
                      IN  /\ Len(audit) = patches + 1
                          /\ row.status \in news
                          /\ \A i \in DOMAIN audit : audit[i].previous \in news \cup {NoStatus}
    BY DEF AuditIsComplete
  <2>1. TrailIsCounted /\ TrailExplains /\ creator = "done"
    BY DEF CompleteInv, Quiescent
  <2>2. Unlogged = {} /\ CreationUnlogged = 0
    BY DEF Quiescent, Unlogged, CreationUnlogged
  <2>3. Len(audit) = patches + 1
    <3>1. Cardinality(Unlogged) = 0
      BY <2>2, FS_EmptySet
    <3>2. Len(audit) \in Nat
      BY LenProperties DEF RowInv, LifecycleTypeOK
    <3> QED
      BY <2>1, <2>2, <3>1, <3>2 DEF TrailIsCounted
  <2>4. Explained = Recorded
    BY DEF Quiescent, Explained
  <2>5. Recorded \subseteq {audit[i].new : i \in DOMAIN audit}
    BY DEF Recorded
  <2>6. row # NoRow
    BY <2>1, RowInvFacts
  <2> QED
    BY <2>1, <2>3, <2>4, <2>5, <2>6 DEF TrailExplains
<1> QED
  BY <1>1, <1>2, <1>3, RowInvAlways, PTL DEF LifecycleSpec

-----------------------------------------------------------------------------
(* One handler after the other.                                            *)

(* An event at the end of the trail is its latest, and continues its chain *)
(* if its previous status is what the trail ended with.                    *)
LEMMA ChainIsExtended ==
  ASSUME audit \in Seq(Event), NEW e \in Event, audit' = Append(audit, e), TrailIsAChain,
         audit # <<>> => e.previous = Latest
  PROVE  audit' # <<>> /\ Latest' = e.new /\ TrailIsAChain'
<1>1. /\ Len(audit) \in Nat /\ audit'[Len(audit) + 1] = e /\ Len(audit') = Len(audit) + 1
      /\ audit' # <<>>
      /\ \A i \in 1 .. Len(audit) : audit'[i] = audit[i]
  BY EventAppended
<1>2. Latest' = e.new
  BY <1>1 DEF Latest
<1>3. ASSUME NEW i \in 2 .. Len(audit')
      PROVE  audit'[i].previous = audit'[i - 1].new
  <2>1. CASE i \in 2 .. Len(audit)
    BY <1>1, <2>1 DEF TrailIsAChain
  <2>2. CASE i = Len(audit) + 1
    <3>1. Len(audit) >= 1 /\ i - 1 = Len(audit)
      BY <1>1, <1>3, <2>2
    <3>2. audit # <<>>
      BY <3>1, EmptySeq
    <3> QED
      BY <1>1, <2>2, <3>1, <3>2 DEF Latest
  <2> QED
    BY <1>1, <1>3, <2>1, <2>2
<1> QED
  BY <1>1, <1>2, <1>3 DEF TrailIsAChain

(* A creating run that is alone leaves the trail as it should.             *)
LEMMA CreatorKeepsSequence ==
  ASSUME RowInv, CreatorAlone, RequestAlone, TrailIsAChain, CreatorStep, ~cut'
  PROVE  CreatorAlone' /\ RequestAlone' /\ TrailIsAChain' /\ AllAgree'
<1>1. /\ req' = req /\ audit \in Seq(Event)
      /\ creator # "done" /\ \A q \in Requests : req[q].pc = "idle"
  BY DEF CreatorStep, InsertRow, LogCreation, AnnounceOrder, CreatorEnds, CreatorAlone,
         RowInv, LifecycleTypeOK
<1>2. RequestAlone'
  BY <1>1 DEF RequestAlone
<1>3. CASE InsertRow
  <2>1. /\ audit' = audit /\ audit = <<>> /\ creator' = "event" /\ row'.status = Initial
        /\ TrailIsAChain'
    BY <1>3 DEF InsertRow, InsertedRow, CreatorAlone, TrailIsAChain
  <2> QED
    BY <1>1, <1>2, <2>1 DEF CreatorAlone, AllAgree, Quiescent
<1>4. CASE LogCreation
  <2>1. /\ creator = "event" /\ creator' = "broadcast" /\ row' = row /\ audit = <<>>
        /\ audit' = Append(audit, [previous |-> NoStatus, new |-> Initial])
        /\ row.status = Initial
    BY <1>4 DEF LogCreation, Logged, CreatorAlone
  <2>2. audit' # <<>> /\ Latest' = Initial /\ TrailIsAChain'
    BY <1>1, <2>1, ChainIsExtended, EventsAreTyped
  <2> QED
    BY <1>1, <1>2, <2>1, <2>2 DEF CreatorAlone, AllAgree, Quiescent
<1>5. CASE AnnounceOrder
  <2>1. /\ creator = "broadcast" /\ creator' = "done" /\ row' = row /\ audit' = audit
        /\ screen' = Initial
    BY <1>5 DEF AnnounceOrder
  <2>2. audit # <<>> /\ row.status = Initial /\ Latest = Initial /\ Latest' = Latest
    BY <2>1 DEF CreatorAlone, Latest
  <2>3. TrailIsAChain'
    BY <2>1 DEF TrailIsAChain
  <2> QED
    BY <1>1, <1>2, <2>1, <2>2, <2>3 DEF CreatorAlone, AllAgree
<1> QED
  BY <1>3, <1>4, <1>5 DEF CreatorStep, CreatorEnds

(* So does a request that is alone.                                        *)
LEMMA PatchKeepsSequence ==
  ASSUME RowInv, CreatorAlone, RequestAlone, TrailIsAChain, AllAgree,
         NEW q \in Requests, PatchStep(q), ~cut', ~overlapped'
  PROVE  CreatorAlone' /\ RequestAlone' /\ TrailIsAChain' /\ AllAgree'
<1>1. /\ creator' = creator /\ audit \in Seq(Event)
      /\ \A p \in Requests \ {q} : req'[p] = req[p]
  BY PatchEffects, PatchMoves DEF RowInv, LifecycleTypeOK
<1>2. /\ creator = "done" /\ audit # <<>>
      /\ \A p \in Requests \ {q} : req[p].pc = "idle" /\ req'[p].pc = "idle"
  <2>1. CASE FindOrder(q)
    <3>1. ~CreatorBusy /\ row # NoRow /\ \A p \in Requests : req[p].pc = "idle"
      BY <2>1 DEF FindOrder
    <3>2. creator = "done"
      BY <3>1, RowInvFacts DEF CreatorBusy, RowInv, LifecycleTypeOK
    <3> QED
      BY <1>1, <3>1, <3>2 DEF CreatorAlone
  <2>2. CASE ~FindOrder(q)
    <3>1. req[q].pc # "idle"
      BY <2>2, PatchMoves DEF PatchStep
    <3>2. creator = "done"
      BY <3>1 DEF CreatorAlone
    <3> QED
      BY <1>1, <3>1, <3>2 DEF CreatorAlone, RequestAlone
  <2> QED
    BY <2>1, <2>2
<1>3. row # NoRow /\ row \in OrderRow
  BY <1>2, RowInvFacts
<1>4. /\ req[q].pc \in {"save", "write"} => row.status = Latest
      /\ req[q].pc \in {"save", "write", "log"} => req[q].previous = Latest
      /\ req[q].pc = "write" => req[q].base = row
      /\ req[q].pc \in {"log", "broadcast"} => row.status = req[q].order.status
      /\ req[q].pc = "broadcast" => row.status = Latest
      /\ req[q].pc = "idle" => row.status = Latest
  BY <1>2 DEF RequestAlone, AllAgree, Quiescent
<1>5. audit' = audit => audit' # <<>> /\ Latest' = Latest /\ TrailIsAChain'
  BY <1>2 DEF Latest, TrailIsAChain
<1>6. audit' # <<>> => CreatorAlone'
  BY <1>1, <1>2 DEF CreatorAlone
<1>7. ASSUME /\ req'[q].pc \in {"save", "write"} => row'.status = Latest'
             /\ req'[q].pc \in {"save", "write", "log"} => req'[q].previous = Latest'
             /\ req'[q].pc = "write" => req'[q].base = row'
             /\ req'[q].pc \in {"log", "broadcast"} => row'.status = req'[q].order.status
             /\ req'[q].pc = "broadcast" => row'.status = Latest'
      PROVE  RequestAlone'
  BY <1>2, <1>7 DEF RequestAlone
<1>8. req'[q].pc # "idle" => AllAgree'
  BY DEF AllAgree, Quiescent
<1>9. CASE FindOrder(q)
  <2>1. /\ audit' = audit /\ row' = row /\ req[q].pc = "idle"
        /\ req'[q].pc = "save" /\ req'[q].previous = row.status
    BY <1>9, PatchMoves DEF FindOrder
  <2> QED
    BY <1>4, <1>5, <1>6, <1>7, <1>8, <2>1
<1>10. CASE ReloadOrder(q)
  <2>1. /\ audit' = audit /\ row' = row /\ req[q].pc = "save"
        /\ req'[q].pc = "write" /\ req'[q].previous = req[q].previous /\ req'[q].base = row
    BY <1>10, PatchMoves DEF ReloadOrder
  <2> QED
    BY <1>4, <1>5, <1>6, <1>7, <1>8, <2>1
<1>11. CASE WriteOrder(q)
  <2>1. /\ audit' = audit /\ row' = Saved(req[q]) /\ req[q].pc = "write"
        /\ req'[q].pc = "log" /\ req'[q].previous = req[q].previous
        /\ req'[q].order = req[q].order
    BY <1>11, PatchMoves DEF WriteOrder
  <2>2. row'.status = req[q].order.status
    BY <1>4, <2>1, SavedRow
  <2> QED
    BY <1>4, <1>5, <1>6, <1>7, <1>8, <2>1, <2>2
<1>12. CASE LogChange(q)
  <2>1. /\ row' = row /\ req[q].pc = "log" /\ req'[q].pc = "broadcast"
        /\ req'[q].order = req[q].order
        /\ audit' = Append(audit, [previous |-> req[q].previous,
                                   new |-> req[q].order.status])
    BY <1>12, PatchMoves DEF LogChange, Logged
  <2>2. [previous |-> req[q].previous, new |-> req[q].order.status] \in Event
    BY <2>1, RowInvFacts, EventsAreTyped
  <2>3. audit' # <<>> /\ Latest' = req[q].order.status /\ TrailIsAChain'
    BY <1>1, <1>4, <2>1, <2>2, ChainIsExtended
  <2> QED
    BY <1>4, <1>6, <1>7, <1>8, <2>1, <2>3
<1>13. CASE AnswerPatch(q)
  <2>1. /\ audit' = audit /\ row' = row /\ req[q].pc = "broadcast"
        /\ screen' = req[q].order.status /\ req'[q].pc = "idle"
    BY <1>13, PatchMoves DEF AnswerPatch, IdleRequest
  <2>2. AllAgree'
    BY <1>4, <1>5, <2>1 DEF AllAgree
  <2> QED
    BY <1>5, <1>6, <1>7, <2>1, <2>2
<1> QED
  BY <1>9, <1>10, <1>11, <1>12, <1>13 DEF PatchStep, PatchFails

(* Handlers that overlapped stay so.                                       *)
LEMMA OverlapStays == RowInv /\ [LifecycleNext]_lifecycleVars => (overlapped => overlapped')
  BY RetentionIsIdle
  DEF LifecycleNext, lifecycleVars, CreatorStep, InsertRow, LogCreation, AnnounceOrder,
      CreatorEnds, PatchStep, FindOrder, ReloadOrder, WriteOrder, LogChange, AnswerPatch,
      PatchFails

(* Handlers of the order that run one after the other, each to its end,    *)
(* leave a trail that is a chain from order.created to the row's status,   *)
(* and screens that show that status.                                      *)
THEOREM SequentialHandlersAgree == LifecycleSpec => []SequentialAgreement
<1>1. LifecycleInit => SequenceInv
  <2> SUFFICES ASSUME LifecycleInit
               PROVE  CreatorAlone /\ RequestAlone /\ TrailIsAChain /\ AllAgree
    BY DEF SequenceInv
  <2>1. /\ creator = "insert" /\ audit = <<>> /\ Len(audit) = 0
        /\ \A q \in Requests : req[q].pc = "idle"
    BY EmptySeq DEF LifecycleInit, IdleRequest
  <2> QED
    BY <2>1 DEF CreatorAlone, RequestAlone, TrailIsAChain, AllAgree, Quiescent
<1>2. RowInv /\ SequenceInv /\ [LifecycleNext]_lifecycleVars => SequenceInv'
  <2> SUFFICES ASSUME RowInv, SequenceInv, [LifecycleNext]_lifecycleVars, ~cut', ~overlapped'
               PROVE  CreatorAlone' /\ RequestAlone' /\ TrailIsAChain' /\ AllAgree'
    BY DEF SequenceInv
  <2>1. CreatorAlone /\ RequestAlone /\ TrailIsAChain /\ AllAgree
    BY CutStays, OverlapStays DEF SequenceInv
  <2>2. CASE CreatorStep
    BY <2>1, <2>2, CreatorKeepsSequence
  <2>3. ASSUME NEW q \in Requests, PatchStep(q)
        PROVE  CreatorAlone' /\ RequestAlone' /\ TrailIsAChain' /\ AllAgree'
    BY <2>1, <2>3, PatchKeepsSequence
  <2>4. CASE UNCHANGED <<row, audit, screen, creator, req>>
    BY <2>1, <2>4
    DEF CreatorAlone, RequestAlone, TrailIsAChain, AllAgree, Quiescent, Latest
  <2> QED
    BY <2>2, <2>3, <2>4, RetentionIsIdle DEF LifecycleNext, lifecycleVars
<1>3. RowInv /\ SequenceInv => SequentialAgreement
  BY DEF SequenceInv, SequentialAgreement, AllAgree, CreatorAlone, TrailIsAChain, Quiescent,
         Latest
<1> QED
  BY <1>1, <1>2, <1>3, RowInvAlways, PTL DEF LifecycleSpec

=============================================================================
