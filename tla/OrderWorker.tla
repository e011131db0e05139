----------------------------- MODULE OrderWorker -----------------------------
(***************************************************************************)
(* The consumer: IngestionProcessor.process with                           *)
(* OrderPersistenceService.persist, run by the worker slots of one or more *)
(* instances of the application. A run takes a job, translates it, inserts *)
(* the order, appends the order.created event in a second, separate write, *)
(* broadcasts the order to the kitchen and settles the job. Every await is *)
(* a step boundary.                                                        *)
(*                                                                         *)
(* A run whose lock expired goes on as if nothing had happened (BullMQ     *)
(* does not interrupt the processor): two runs of one job may interleave,  *)
(* and only the unique constraint on orders.idempotency_key keeps them     *)
(* from creating the order twice.                                          *)
(***************************************************************************)
EXTENDS JobQueue

VARIABLES
  run,         \* run[r]: where the worker slot r is, and on which job's data
  rows,        \* rows[o]: rows of table orders with o's idempotency_key
  events,      \* events[o]: order.created rows of o in table order_events
  shown,       \* shown[o]: new-order broadcasts of o to its kitchen room
  interrupted  \* history: orders whose creating run ended before broadcasting

workerVars == <<run, rows, events, shown, interrupted>>

RunPCs == {"idle", "translate", "insert", "event", "broadcast", "done", "error"}

IdleRun == [pc |-> "idle", job |-> NoJob, order |-> NoOrder]

Run == {IdleRun} \cup [pc: RunPCs \ {"idle"}, job: JobIds, order: Orders]

WorkerInit ==
  /\ run = [r \in Runs |-> IdleRun]
  /\ rows = [o \in Orders |-> 0]
  /\ events = [o \in Orders |-> 0]
  /\ shown = [o \in Orders |-> 0]
  /\ interrupted = {}

-----------------------------------------------------------------------------

Goto(r, pc) == run' = [run EXCEPT ![r].pc = pc]

(* The worker library hands a waiting job to an idle slot.                 *)
StartRun(r) ==
  /\ run[r].pc = "idle"
  /\ \E j \in JobIds :
       /\ TakeJob(r, j)
       /\ run' = [run EXCEPT ![r] =
                    [pc |-> "translate", job |-> j, order |-> job[j].order]]
  /\ UNCHANGED <<rows, events, shown, interrupted>>

(* Defect: a payload that cannot be translated is skipped, not failed.     *)
TranslateSwallowed(r) ==
  /\ run[r].pc = "translate"
  /\ Goto(r, "insert") \/ Goto(r, "done")
  /\ UNCHANGED queueVars
  /\ UNCHANGED <<rows, events, shown, interrupted>>

(* translation.translate: reads the mappings, may throw, writes nothing.   *)
Translate(r) ==
  /\ run[r].pc = "translate"
  /\ Goto(r, "insert") \/ Goto(r, "error")
  /\ UNCHANGED queueVars
  /\ UNCHANGED <<rows, events, shown, interrupted>>

(* Defect: no unique constraint on idempotency_key.                        *)
InsertOrderUnconstrained(r) ==
  /\ run[r].pc = "insert"
  /\ rows' = [rows EXCEPT ![run[r].order] = @ + 1]
  /\ Goto(r, "event")
  /\ UNCHANGED queueVars
  /\ UNCHANGED <<events, shown, interrupted>>

(* Defect: the broadcast does not wait for the order.created event.        *)
InsertOrderThenBroadcast(r) ==
  /\ run[r].pc = "insert"
  /\ rows[run[r].order] = 0
  /\ rows' = [rows EXCEPT ![run[r].order] = @ + 1]
  /\ Goto(r, "broadcast")
  /\ UNCHANGED queueVars
  /\ UNCHANGED <<events, shown, interrupted>>

(* orders.save(order) as one transaction that the database accepts.        *)
InsertOrder(r) ==
  LET o == run[r].order
  IN  /\ run[r].pc = "insert"
      /\ rows[o] = 0
      /\ rows' = [rows EXCEPT ![o] = @ + 1]
      /\ Goto(r, "event")
      /\ UNCHANGED queueVars
      /\ UNCHANGED <<events, shown, interrupted>>

(* Defect: an order that was already persisted is broadcast again.         *)
InsertDuplicateRebroadcast(r) ==
  /\ run[r].pc = "insert"
  /\ rows[run[r].order] > 0
  /\ Goto(r, "broadcast")
  /\ UNCHANGED queueVars
  /\ UNCHANGED <<rows, events, shown, interrupted>>

(* orders.save(order) rejected by the unique constraint: created = false,  *)
(* the run skips the broadcast and the job succeeds.                       *)
InsertDuplicate(r) ==
  /\ run[r].pc = "insert"
  /\ rows[run[r].order] > 0
  /\ Goto(r, "done")
  /\ UNCHANGED queueVars
  /\ UNCHANGED <<rows, events, shown, interrupted>>

(* orders.save(order) throws anything else: the transaction did not        *)
(* commit, or it did and the connection broke before the answer.           *)
InsertError(r) ==
  LET o == run[r].order
  IN  /\ run[r].pc = "insert"
      /\ Goto(r, "error")
      /\ \/ UNCHANGED <<rows, interrupted>>
         \/ /\ rows[o] = 0
            /\ rows' = [rows EXCEPT ![o] = @ + 1]
            /\ interrupted' = interrupted \cup {o}
      /\ UNCHANGED queueVars
      /\ UNCHANGED <<events, shown>>

(* Defect: persist reports created = false for a new order.                *)
LogCreatedOnly(r) ==
  /\ run[r].pc = "event"
  /\ events' = [events EXCEPT ![run[r].order] = @ + 1]
  /\ Goto(r, "done")
  /\ UNCHANGED queueVars
  /\ UNCHANGED <<rows, shown, interrupted>>

(* events.save('order.created').                                           *)
LogCreated(r) ==
  LET o == run[r].order
  IN  /\ run[r].pc = "event"
      /\ events' = [events EXCEPT ![o] = @ + 1]
      /\ Goto(r, "broadcast")
      /\ UNCHANGED queueVars
      /\ UNCHANGED <<rows, shown, interrupted>>

(* events.save throws, with the event committed or not: persist rethrows   *)
(* and the order's row stays.                                              *)
LogCreatedError(r) ==
  LET o == run[r].order
  IN  /\ run[r].pc = "event"
      /\ events' \in {events, [events EXCEPT ![o] = @ + 1]}
      /\ interrupted' = interrupted \cup {o}
      /\ Goto(r, "error")
      /\ UNCHANGED queueVars
      /\ UNCHANGED <<rows, shown>>

(* kitchen.broadcastOrder: fire and forget, never throws.                  *)
BroadcastOrder(r) ==
  LET o == run[r].order
  IN  /\ run[r].pc = "broadcast"
      /\ shown' = [shown EXCEPT ![o] = @ + 1]
      /\ Goto(r, "done")
      /\ UNCHANGED queueVars
      /\ UNCHANGED <<rows, events, interrupted>>

(* The processor returned or threw. A slot that still holds the lock       *)
(* settles its job; one that lost it is refused, and leaves the job alone. *)
SettleJob(r) ==
  LET j == run[r].job
  IN  /\ \/ run[r].pc = "done" /\ CompleteJob(r, j)
         \/ run[r].pc = "error" /\ FailJob(r, j)
         \/ /\ run[r].pc \in {"done", "error"}
            /\ ~HoldsLock(r, j)
            /\ UNCHANGED queueVars
      /\ run' = [run EXCEPT ![r] = IdleRun]
      /\ UNCHANGED <<rows, events, shown, interrupted>>

(* The process of a slot dies in the middle of a run. Its job keeps the    *)
(* dead lock until the stalled-job check finds it.                         *)
CrashRun(r) ==
  /\ run[r].pc # "idle"
  /\ run' = [run EXCEPT ![r] = IdleRun]
  /\ interrupted' = IF run[r].pc \in {"event", "broadcast"}
                    THEN interrupted \cup {run[r].order} ELSE interrupted
  /\ UNCHANGED queueVars
  /\ UNCHANGED <<rows, events, shown>>

-----------------------------------------------------------------------------

(* What an undisturbed slot does next, its database errors included.       *)
RunStep(r) ==
  \/ StartRun(r) \/ Translate(r)
  \/ InsertOrder(r) \/ InsertDuplicate(r) \/ InsertError(r)
  \/ LogCreated(r) \/ LogCreatedError(r)
  \/ BroadcastOrder(r) \/ SettleJob(r)

WorkerNext == \E r \in Runs : RunStep(r) \/ CrashRun(r)

(* The worker on its own, with any producer: a webhook request that        *)
(* reaches Queue.add may come at any time, for any order, and repeatedly.  *)
AnyProducer == (\E o \in Orders : AddJob(o)) /\ UNCHANGED workerVars

OrderWorkerInit == QueueInit /\ WorkerInit

OrderWorkerNext ==
  AnyProducer \/ WorkerNext \/ (QueueMaintenance /\ UNCHANGED workerVars)

orderWorkerVars == <<queueVars, workerVars>>

OrderWorkerSpec == OrderWorkerInit /\ [][OrderWorkerNext]_orderWorkerVars

(* The scheduling the code gets from Node and BullMQ: a started run goes   *)
(* on, a waiting job is handed to an idle slot (the wait list is a queue,  *)
(* so no job is passed over for ever), a backoff ends, and the job of a    *)
(* dead or superseded run is found by the stalled-job check. Nothing is    *)
(* assumed of producers, crashes, operators or of locks of live runs.      *)
RunContinues(r) == run[r].pc # "idle" /\ RunStep(r)

JobIsTaken(j) ==
  job[j].state = "waiting" /\ (\E r \in Runs : StartRun(r)) /\ job'[j].state = "active"

BackoffEnds(j) == PromoteJob(j) /\ UNCHANGED workerVars

AbandonedJobStalls(j) ==
  /\ ~\E r \in Runs : run[r].job = j /\ job[j].lock = r
  /\ StallJob(j)
  /\ UNCHANGED workerVars

OrderWorkerFairSpec ==
  /\ OrderWorkerSpec
  /\ \A r \in Runs : WF_orderWorkerVars(RunContinues(r))
  /\ \A j \in JobIds : /\ SF_orderWorkerVars(JobIsTaken(j))
                       /\ WF_orderWorkerVars(BackoffEnds(j))
                       /\ WF_orderWorkerVars(AbandonedJobStalls(j))

-----------------------------------------------------------------------------

(* The state is well formed.                                               *)
WorkerTypeOK ==
  /\ run \in [Runs -> Run]
  /\ rows \in [Orders -> Nat]
  /\ events \in [Orders -> Nat]
  /\ shown \in [Orders -> Nat]
  /\ interrupted \subseteq Orders

OrderWorkerTypeOK == QueueTypeOK /\ WorkerTypeOK

(* However often an order is redelivered, retried, stalled or replayed     *)
(* from the DLQ, its kitchen gets the new-order message at most once       *)
(* (process skips the broadcast when persist says created = false).        *)
NoDoubleDisplay == \A o \in Orders : shown[o] <= 1

(* A kitchen is never shown an order whose row or order.created event does *)
(* not exist, and neither exists twice: broadcasts follow the event's      *)
(* write, which follows the insert.                                        *)
ShownIsRecorded ==
  \A o \in Orders : shown[o] <= events[o] /\ events[o] <= rows[o] /\ rows[o] <= 1

(* Whatever run completed the job, BullMQ calls a job completed only when  *)
(* its order is in the database.                                           *)
CompletedIsStored ==
  \A j \in JobIds : job[j].state = "completed" => rows[job[j].order] = 1

(* The run that created the row of an order and has yet to broadcast it.   *)
Creating(r, o) == run[r].pc \in {"event", "broadcast"} /\ run[r].order = o

(* An order in the database was broadcast, or a live run is about to, or   *)
(* the creating run was interrupted between insert and broadcast: no other *)
(* path of the code loses the announcement of a stored order.              *)
StoredIsAnnouncedUnlessInterrupted ==
  \A o \in Orders :
    rows[o] > 0 => \/ shown[o] = 1
                   \/ o \in interrupted
                   \/ \E r \in Runs : Creating(r, o)

(* A job that waits is settled: it completes, or ends up in the DLQ, or    *)
(* is removed, however its runs fail, crash or lose their locks.           *)
JobSettles ==
  \A j \in JobIds :
    job[j].state = "waiting" ~> job[j].state \in {"completed", "failed", "none"}

(* The README promises that each newly accepted order is pushed to its     *)
(* store's kitchen displays: an order whose job completed has been, or the *)
(* run that created it still is about to.                                  *)
CompletedIsShown ==
  \A j \in JobIds :
    job[j].state = "completed" => \/ shown[job[j].order] = 1
                                  \/ \E r \in Runs : Creating(r, job[j].order)

(* The inductive invariant behind NoDoubleDisplay: each run between insert *)
(* and broadcast is the only one of its order, and its traces are those    *)
(* its position says. The database's unique constraint admits one of them. *)
OneCreator ==
  \A r1, r2 \in Runs, o \in Orders : Creating(r1, o) /\ Creating(r2, o) => r1 = r2

TracesMatch ==
  \A o \in Orders :
    /\ rows[o] \in {0, 1}
    /\ events[o] \in {0, 1} /\ events[o] <= rows[o]
    /\ shown[o] \in {0, 1} /\ shown[o] <= events[o]
    /\ \A r \in Runs : run[r].order = o =>
         /\ run[r].pc = "event" => rows[o] = 1 /\ events[o] = 0
         /\ run[r].pc = "broadcast" => rows[o] = 1 /\ events[o] = 1 /\ shown[o] = 0

DisplayInv == JobsCarryOrders /\ OneCreator /\ TracesMatch

=============================================================================
