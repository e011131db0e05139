-------------------------- MODULE IngestionPipeline --------------------------
(***************************************************************************)
(* The ingestion of orders end to end: webhook deliveries                  *)
(* (WebhookFrontDoor) and worker runs (OrderWorker) of any number of       *)
(* instances, which meet in the queue (JobQueue) and in the database.      *)
(* Requests and runs crash one by one; the crash of a whole instance is a  *)
(* sequence of such crashes with nothing in between.                       *)
(***************************************************************************)
EXTENDS WebhookFrontDoor, OrderWorker

vars == <<queueVars, frontVars, workerVars>>

Init == QueueInit /\ FrontInit /\ WorkerInit

Next ==
  \/ FrontNext /\ UNCHANGED workerVars
  \/ WorkerNext /\ UNCHANGED frontVars
  \/ QueueMaintenance /\ UNCHANGED <<frontVars, workerVars>>

Spec == Init /\ [][Next]_vars

-----------------------------------------------------------------------------

(* The state is well formed.                                               *)
TypeOK == QueueTypeOK /\ FrontTypeOK /\ WorkerTypeOK

(* The job of order o is in the queue or in the dead-letter set.           *)
HasOpenJob(o) ==
  LET j == JobIdOf[o]
  IN  job[j].order = o /\ job[j].state \in {"waiting", "active", "delayed", "failed"}

(* Order o is in the database, or its job is still open, or an operator    *)
(* discarded that job, or it expired after a day in the DLQ.               *)
Accounted(o) == rows[o] = 1 \/ HasOpenJob(o) \/ o \in disposed

(* An order that got its job is never lost without a trace.                *)
EnqueuedIsNotLost == \A o \in enqueued : Accounted(o)

(* The 202 that ingest answers says that the order is taken care of: an    *)
(* order answered so is never lost without a trace, if its job id is its   *)
(* own, whatever is redelivered, retried, crashes or is replayed later.    *)
AcceptedIsNotLost == \A o \in accepted : Accounted(o)

-----------------------------------------------------------------------------
(* The refinement: the phase of an order read off its durable traces.      *)

PhaseAt(row, event, broadcast) ==
  CASE row = 0 /\ event = 0 /\ broadcast = 0 -> "new"
    [] row = 1 /\ event = 0 /\ broadcast = 0 -> "stored"
    [] row = 1 /\ event = 1 /\ broadcast = 0 -> "logged"
    [] row = 1 /\ event = 1 /\ broadcast = 1 -> "announced"
    [] OTHER -> "corrupt"

OrderPhases == [o \in Orders |-> PhaseAt(rows[o], events[o], shown[o])]

Intake == INSTANCE OrderIntake WITH phase <- OrderPhases

(* The pipeline implements OrderIntake: no redelivery, retry, stalled run, *)
(* crash or operator repeats a trace or takes one out of order.            *)
ImplementsIntake == Intake!Spec

=============================================================================
