---------------------------- MODULE OrderLifecycle ----------------------------
(***************************************************************************)
(* One order after its worker run reached the database: the rest of that   *)
(* run (order.created, the new-order broadcast), the merchants' requests   *)
(* PATCH /orders/:id/status with the push to the platform, and the nightly *)
(* retention job. Nothing serialises them: a request reads the order,      *)
(* TypeORM's save reads it again and writes the columns that differ, the   *)
(* audit event is a write of its own, and the broadcast comes last.        *)
(***************************************************************************)
EXTENDS Naturals, Sequences

CONSTANTS
  Requests,     \* handlers of status requests that may be under way at once
  Statuses,     \* ORDER_STATUSES, or the part of it a run looks at
  Platform,     \* the platform name the translator wrote into the order
  StoreMapped,  \* is there a STORE mapping of the order's store on Platform?
  MaxPatches    \* bound: status requests that find the order

Initial == "PENDING_ACCEPTANCE"
NoStatus == "none"
NoRow == [status |-> NoStatus, archived |-> "no"]

ASSUME LifecycleAssumption ==
  /\ Initial \in Statuses /\ NoStatus \notin Statuses
  /\ StoreMapped \in BOOLEAN /\ MaxPatches \in Nat

VARIABLES
  row,         \* the order's row in table orders, or NoRow
  old,         \* has received_at fallen behind ORDER_RETENTION_DAYS?
  audit,       \* the order's rows of table order_events, in insertion order
  screen,      \* status in the last message sent to the kitchen room
  pushed,      \* statuses given to a platform adapter
  creator,     \* where the worker run that creates the order is
  req,         \* req[q]: a status request, with the entity it holds
  cron,        \* the retention job: "idle", or "purge" after archiving
  patches,     \* status requests that found the order
  overlapped,  \* history: two handlers of the order were under way at once
  cut          \* history: a handler ended between its first write and its end

lifecycleVars ==
  <<row, old, audit, screen, pushed, creator, req, cron, patches, overlapped, cut>>

OrderRow == [status: Statuses \cup {NoStatus}, archived: {"no", "recent", "old"}]

Event == [previous: Statuses \cup {NoStatus}, new: Statuses]

(* order is the entity the request found and edits, base what save read    *)
(* back to compute the columns to write.                                   *)
Request == [pc: {"idle", "save", "write", "log", "broadcast"},
            order: OrderRow, previous: Statuses \cup {NoStatus}, base: OrderRow]

IdleRequest ==
  [pc |-> "idle", order |-> NoRow, previous |-> NoStatus, base |-> NoRow]

LifecycleInit ==
  /\ row = NoRow /\ old = FALSE /\ audit = <<>>
  /\ screen = NoStatus /\ pushed = {}
  /\ creator = "insert" /\ cron = "idle"
  /\ req = [q \in Requests |-> IdleRequest]
  /\ patches = 0 /\ overlapped = FALSE /\ cut = FALSE

-----------------------------------------------------------------------------

CreatorBusy == creator \in {"event", "broadcast"}

Logged(previous, new) == Append(audit, [previous |-> previous, new |-> new])

InsertedRow == [status |-> Initial, archived |-> "no"]

(* persist: orders.save inserts the row.                                   *)
InsertRow ==
  /\ creator = "insert"
  /\ row' = InsertedRow
  /\ creator' = "event"
  /\ UNCHANGED <<old, audit, screen, pushed, req, cron, patches, overlapped, cut>>

(* persist: events.save('order.created'). order_events.order_id references *)
(* orders, so the event of a purged order is refused.                      *)
LogCreation ==
  /\ creator = "event" /\ row # NoRow
  /\ audit' = Logged(NoStatus, Initial)
  /\ creator' = "broadcast"
  /\ UNCHANGED <<row, old, screen, pushed, req, cron, patches, overlapped, cut>>

(* broadcastOrder(result.order): the order as it was inserted.             *)
AnnounceOrder ==
  /\ creator = "broadcast"
  /\ screen' = Initial
  /\ creator' = "done"
  /\ UNCHANGED <<row, old, audit, pushed, req, cron, patches, overlapped, cut>>

(* The creating run fails or dies with the row in the table and before it  *)
(* has broadcast the order: its insert was committed but reported as an    *)
(* error, or its event's write failed, committed or not, or it crashed.    *)
CreatorEnds ==
  /\ creator # "done"
  /\ creator' = "done"
  /\ cut' = TRUE
  /\ row' = IF creator = "insert" THEN InsertedRow ELSE row
  /\ audit' \in {audit} \cup
       (IF creator = "event" /\ row # NoRow THEN {Logged(NoStatus, Initial)} ELSE {})
  /\ UNCHANGED <<old, screen, pushed, req, cron, patches, overlapped>>

-----------------------------------------------------------------------------

(* Defect: the body's status is not checked against ORDER_STATUSES.        *)
FindOrderUnvalidated(q) ==
  /\ req[q].pc = "idle" /\ patches < MaxPatches /\ row # NoRow
  /\ \E s \in Statuses \cup {"shipped"} :
       req' = [req EXCEPT ![q] = [pc |-> "save", order |-> [row EXCEPT !.status = s],
                                  previous |-> row.status, base |-> NoRow]]
  /\ patches' = patches + 1
  /\ overlapped' = (overlapped \/ CreatorBusy \/ \E p \in Requests : req[p].pc # "idle")
  /\ UNCHANGED <<row, old, audit, screen, pushed, creator, cron, cut>>

(* Defect: previousStatus is taken after the new status is assigned.       *)
FindOrderPreviousLate(q) ==
  /\ req[q].pc = "idle" /\ patches < MaxPatches /\ row # NoRow
  /\ \E s \in Statuses :
       req' = [req EXCEPT ![q] = [pc |-> "save", order |-> [row EXCEPT !.status = s],
                                  previous |-> s, base |-> NoRow]]
  /\ patches' = patches + 1
  /\ overlapped' = (overlapped \/ CreatorBusy \/ \E p \in Requests : req[p].pc # "idle")
  /\ UNCHANGED <<row, old, audit, screen, pushed, creator, cron, cut>>

(* updateStatus: findOne, then the new status on the entity in memory. Any *)
(* status may follow any other. An unknown id is a 404 and a failed read a *)
(* 500, and neither changes anything.                                      *)
FindOrder(q) ==
  /\ req[q].pc = "idle" /\ patches < MaxPatches /\ row # NoRow
  /\ \E s \in Statuses :
       req' = [req EXCEPT ![q] = [pc |-> "save", order |-> [row EXCEPT !.status = s],
                                  previous |-> row.status, base |-> NoRow]]
  /\ patches' = patches + 1
  /\ overlapped' = (overlapped \/ CreatorBusy \/ \E p \in Requests : req[p].pc # "idle")
  /\ UNCHANGED <<row, old, audit, screen, pushed, creator, cron, cut>>

(* orders.save(order), first half: read the row again to compare with.     *)
ReloadOrder(q) ==
  /\ req[q].pc = "save"
  /\ req' = [req EXCEPT ![q].pc = "write", ![q].base = row]
  /\ UNCHANGED <<row, old, audit, screen, pushed, creator, cron, patches, overlapped, cut>>

(* What the second half leaves in the table: the columns that differ from  *)
(* the row read back are updated, a row that was not there is inserted, an *)
(* update of a row that is gone touches nothing.                           *)
Saved(r) ==
  IF r.base = NoRow THEN r.order
  ELSE IF row = NoRow THEN NoRow
  ELSE [c \in DOMAIN row |-> IF r.order[c] # r.base[c] THEN r.order[c] ELSE row[c]]

(* Defect: the audit event is left out.                                    *)
WriteOrderUnlogged(q) ==
  /\ req[q].pc = "write"
  /\ row' = Saved(req[q])
  /\ req' = [req EXCEPT ![q].pc = "broadcast"]
  /\ UNCHANGED <<old, audit, screen, pushed, creator, cron, patches, overlapped, cut>>

(* orders.save(order), second half: the write commits.                     *)
WriteOrder(q) ==
  /\ req[q].pc = "write"
  /\ row' = Saved(req[q])
  /\ req' = [req EXCEPT ![q].pc = "log"]
  /\ UNCHANGED <<old, audit, screen, pushed, creator, cron, patches, overlapped, cut>>

(* events.save('order.status_changed').                                    *)
LogChange(q) ==
  /\ req[q].pc = "log" /\ row # NoRow
  /\ audit' = Logged(req[q].previous, req[q].order.status)
  /\ req' = [req EXCEPT ![q].pc = "broadcast"]
  /\ UNCHANGED <<row, old, screen, pushed, creator, cron, patches, overlapped, cut>>

(* The adapters are registered under their own names, and the order's      *)
(* platform is looked up as it is.                                         *)
AdapterNames == {"grabfood", "foodpanda"}

AdapterCalled == Platform \in AdapterNames /\ StoreMapped

(* Defect: the displays are told as soon as the row is written.            *)
AnswerPatchEarly(q) ==
  /\ req[q].pc \in {"log", "broadcast"}
  /\ screen' = req[q].order.status
  /\ req' = [req EXCEPT ![q] = IdleRequest]
  /\ UNCHANGED <<row, old, audit, pushed, creator, cron, patches, overlapped, cut>>

(* The controller: broadcastStatusUpdate, then pushStatusUpdate, which is  *)
(* not awaited and gives up when it knows no adapter or no mapping.        *)
AnswerPatch(q) ==
  LET s == req[q].order.status
  IN  /\ req[q].pc = "broadcast"
      /\ screen' = s
      /\ pushed' = IF AdapterCalled THEN pushed \cup {s} ELSE pushed
      /\ req' = [req EXCEPT ![q] = IdleRequest]
      /\ UNCHANGED <<row, old, audit, creator, cron, patches, overlapped, cut>>

(* A request fails (500) or dies with its process. A write it was waiting  *)
(* for may have been committed all the same.                               *)
PatchFails(q) ==
  /\ req[q].pc # "idle"
  /\ req' = [req EXCEPT ![q] = IdleRequest]
  /\ cut' = TRUE
  /\ row' \in {row} \cup (IF req[q].pc = "write" THEN {Saved(req[q])} ELSE {})
  /\ audit' \in {audit} \cup
       (IF req[q].pc = "log" /\ row # NoRow
        THEN {Logged(req[q].previous, req[q].order.status)} ELSE {})
  /\ UNCHANGED <<old, screen, pushed, creator, cron, patches, overlapped>>

-----------------------------------------------------------------------------

(* The literals of the retention job's SQL.                                *)
ArchivableStatuses == {"completed", "cancelled"}

(* ORDER_STATUSES holds upper-case names only, so that no status is one of *)
(* these literals (the run never_archived shows what comes of it).         *)
ASSUME StatusesAssumption == Statuses \cap ArchivableStatuses = {}

(* archiveOldOrders: one UPDATE.                                           *)
ArchiveOldOrders ==
  /\ cron = "idle"
  /\ row' = IF row.archived = "no" /\ old /\ row.status \in ArchivableStatuses
            THEN [row EXCEPT !.archived = "recent"] ELSE row
  /\ cron' = "purge"
  /\ UNCHANGED <<old, audit, screen, pushed, creator, req, patches, overlapped, cut>>

(* purgeArchivedOrders: one DELETE, which cascades to order_events.        *)
PurgeArchivedOrders ==
  /\ cron = "purge"
  /\ cron' = "idle"
  /\ row' = IF row.archived = "old" THEN NoRow ELSE row
  /\ audit' = IF row.archived = "old" THEN <<>> ELSE audit
  /\ UNCHANGED <<old, screen, pushed, creator, req, patches, overlapped, cut>>

(* Months go by.                                                           *)
TimePasses ==
  /\ row # NoRow
  /\ old => row.archived = "recent"
  /\ old' = TRUE
  /\ row' = IF row.archived = "recent" THEN [row EXCEPT !.archived = "old"] ELSE row
  /\ UNCHANGED <<audit, screen, pushed, creator, req, cron, patches, overlapped, cut>>

-----------------------------------------------------------------------------

CreatorStep == InsertRow \/ LogCreation \/ AnnounceOrder \/ CreatorEnds

PatchStep(q) ==
  \/ FindOrder(q) \/ ReloadOrder(q) \/ WriteOrder(q)
  \/ LogChange(q) \/ AnswerPatch(q) \/ PatchFails(q)

RetentionStep == ArchiveOldOrders \/ PurgeArchivedOrders

LifecycleNext ==
  \/ CreatorStep
  \/ \E q \in Requests : PatchStep(q)
  \/ RetentionStep
  \/ TimePasses

LifecycleSpec == LifecycleInit /\ [][LifecycleNext]_lifecycleVars

(* The cron expression fires every night, and time does not stop.          *)
LifecycleFairSpec ==
  LifecycleSpec /\ WF_lifecycleVars(RetentionStep) /\ WF_lifecycleVars(TimePasses)

-----------------------------------------------------------------------------

(* The state is well formed.                                               *)
LifecycleTypeOK ==
  /\ row \in OrderRow /\ old \in BOOLEAN
  /\ audit \in Seq(Event)
  /\ screen \in Statuses \cup {NoStatus} /\ pushed \subseteq Statuses
  /\ creator \in {"insert", "event", "broadcast", "done"}
  /\ req \in [Requests -> Request]
  /\ cron \in {"idle", "purge"}
  /\ patches \in 0 .. MaxPatches
  /\ overlapped \in BOOLEAN /\ cut \in BOOLEAN

Quiescent == creator = "done" /\ \A q \in Requests : req[q].pc = "idle"

(* Handlers that ran one after the other, to their end, leave the order's  *)
(* row, its audit trail and the kitchen in agreement: the trail is a chain *)
(* from order.created to the row's status, which is what the screens show. *)
SequentialAgreement ==
  Quiescent /\ ~overlapped /\ ~cut =>
    /\ audit # <<>>
    /\ row.status = audit[Len(audit)].new
    /\ row.status = screen
    /\ \A i \in 2 .. Len(audit) : audit[i].previous = audit[i - 1].new

(* However status requests interleave, with each other and with the end of *)
(* the creating run, the audit trail holds one event for each of them and  *)
(* explains every status the order had: no change of the row goes          *)
(* unrecorded unless a handler was cut off.                                *)
AuditIsComplete ==
  Quiescent /\ ~cut =>
    LET news == {audit[i].new : i \in DOMAIN audit}
    IN  /\ Len(audit) = patches + 1
        /\ row.status \in news
        /\ \A i \in DOMAIN audit : audit[i].previous \in news \cup {NoStatus}

(* The displays are told a status only after its event was recorded, so a  *)
(* kitchen never acts on a status of which there is no trace, whatever     *)
(* failed on the way.                                                      *)
ScreenWasLogged ==
  screen # NoStatus => \E i \in DOMAIN audit : audit[i].new = screen

(* The comment of OrderRetentionService: completed and cancelled orders    *)
(* that are old enough are archived.                                       *)
OldOrdersAreArchived ==
  (row.status \in {"COMPLETED", "CANCELLED"} /\ old)
    ~> (row.archived # "no" \/ row.status \notin {"COMPLETED", "CANCELLED"})

=============================================================================
