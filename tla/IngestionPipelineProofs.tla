----------------------- MODULE IngestionPipelineProofs -----------------------
(***************************************************************************)
(* The pipeline as a whole implements OrderIntake: the front door only     *)
(* adds jobs, so the invariant of the worker carries over, and under it    *)
(* every step is a Store, a Log, an Announce or a stutter. And an order    *)
(* that got a job is not lost: an unfinished job leaves the queue only by  *)
(* the hand of an operator or by expiry. With what FrontDoorProofs says of *)
(* answers, neither is an order that was answered 202.                     *)
(***************************************************************************)
EXTENDS IngestionPipeline, FrontDoorProofs

PipelineInv == WorkerInv /\ FrontInv

(* A run works on a job that is there, and leaves its order to it.         *)
LEMMA WorkerAddsNoJob ==
  ASSUME WorkerInv, NEW r \in Runs, RunStep(r) \/ CrashRun(r)
  PROVE  NoNewJob
<1>1. QueueInv /\ (run[r].pc # "idle" => run[r].job \in JobIds)
  BY DEF WorkerInv, WorkerTypeOK, Run, IdleRun
<1>2. CASE UNCHANGED job
  BY <1>2 DEF NoNewJob, JobExists
<1>3. CASE StartRun(r)
  BY <1>1, <1>3, ConsumerAddsNoJob DEF StartRun, ConsumerCall
<1>4. CASE SettleJob(r)
  BY <1>1, <1>2, <1>4, ConsumerAddsNoJob DEF SettleJob, ConsumerCall, queueVars
<1> QED
  BY <1>2, <1>3, <1>4
  DEF RunStep, CrashRun, Translate, InsertOrder, InsertDuplicate, InsertError, LogCreated,
      LogCreatedError, BroadcastOrder, queueVars

(* PipelineInv is an invariant of the pipeline.                            *)
LEMMA PipelineInvariance == Spec => []PipelineInv
<1>1. Init => PipelineInv
  BY WorkerInitInv, FrontInitInv DEF Init, PipelineInv
<1>2. PipelineInv /\ [Next]_vars => PipelineInv'
  <2> SUFFICES ASSUME PipelineInv, [Next]_vars PROVE PipelineInv'
    OBVIOUS
  <2>1. WorkerInv /\ FrontInv /\ FrontTypeOK /\ QueueInv
    BY DEF PipelineInv, WorkerInv, FrontInv
  <2>2. CASE FrontNext /\ UNCHANGED workerVars
    BY <2>1, <2>2, FrontQueueInv, FrontStepKeepsInv, WorkerUnchangedInv DEF PipelineInv
  <2>3. CASE WorkerNext /\ UNCHANGED frontVars
    <3>1. PICK r \in Runs : RunStep(r) \/ CrashRun(r)
      BY <2>3 DEF WorkerNext
    <3> QED
      BY <2>1, <2>3, <3>1, WorkerStepInv, WorkerAddsNoJob, QueueStepKeepsFrontInv
      DEF PipelineInv
  <2>4. CASE QueueMaintenance /\ UNCHANGED <<frontVars, workerVars>>
    BY <2>1, <2>4, QueueMaintenanceInv, MaintenanceAddsNoJob, WorkerUnchangedInv,
       QueueStepKeepsFrontInv
    DEF PipelineInv
  <2>5. CASE UNCHANGED vars
    <3>1. /\ UNCHANGED queueVars /\ UNCHANGED frontVars /\ UNCHANGED workerVars
      BY <2>5 DEF vars
    <3>2. QueueInv' /\ NoNewJob
      BY <2>1, <3>1
      DEF queueVars, QueueInv, QueueTypeOK, JobsCarryOrders, JobExists, NoNewJob
    <3> QED
      BY <2>1, <3>1, <3>2, WorkerUnchangedInv, QueueStepKeepsFrontInv DEF PipelineInv
  <2> QED
    BY <2>2, <2>3, <2>4, <2>5 DEF Next
<1> QED
  BY <1>1, <1>2, PTL DEF Spec

(* The pipeline's state stays well formed.                                 *)
THEOREM PipelineTypeCorrect == Spec => []TypeOK
<1>1. PipelineInv => TypeOK
  BY DEF PipelineInv, WorkerInv, QueueInv, FrontInv, TypeOK
<1> QED
  BY <1>1, PipelineInvariance, PTL

(* End to end, no order is shown to its kitchen twice.                     *)
THEOREM PipelineNeverShowsTwice == Spec => []NoDoubleDisplay
<1>1. PipelineInv => NoDoubleDisplay
  BY DEF PipelineInv, WorkerInv, TracesMatch, NoDoubleDisplay
<1> QED
  BY <1>1, PipelineInvariance, PTL

-----------------------------------------------------------------------------
(* The refinement.                                                         *)

(* The phases that traces can stand for.                                   *)
LEMMA PhaseFacts ==
  /\ PhaseAt(0, 0, 0) = "new"
  /\ PhaseAt(1, 0, 0) = "stored"
  /\ PhaseAt(1, 1, 0) = "logged"
  /\ PhaseAt(1, 1, 1) = "announced"
  BY DEF PhaseAt

(* At most one run creates an order, and its traces say how far it came.   *)
LEMMA CreatorFacts ==
  ASSUME TracesMatch, NEW o \in Orders
  PROVE  /\ rows[o] = 0 => events[o] = 0 /\ shown[o] = 0
         /\ \A r \in Runs : run[r].order = o =>
              /\ run[r].pc = "event" => rows[o] = 1 /\ events[o] = 0 /\ shown[o] = 0
              /\ run[r].pc = "broadcast" => rows[o] = 1 /\ events[o] = 1 /\ shown[o] = 0
  BY DEF TracesMatch

(* A new row of an order is a Store of it.                                 *)
LEMMA RowIsStore ==
  ASSUME WorkerTypeOK, NEW o \in Orders, rows[o] = 0, events[o] = 0, shown[o] = 0,
         rows' = [rows EXCEPT ![o] = @ + 1], UNCHANGED <<events, shown>>
  PROVE  Intake!Next
<1>1. rows' = [rows EXCEPT ![o] = 1]
  OBVIOUS
<1>2. OrderPhases[o] = "new"
  BY PhaseFacts DEF OrderPhases
<1>3. /\ PhaseAt(rows'[o], events'[o], shown'[o]) = "stored"
      /\ \A p \in Orders \ {o} : PhaseAt(rows'[p], events'[p], shown'[p])
                                = PhaseAt(rows[p], events[p], shown[p])
  BY <1>1, PhaseFacts DEF WorkerTypeOK
<1>4. OrderPhases' = [OrderPhases EXCEPT ![o] = "stored"]
  BY <1>3 DEF OrderPhases
<1> QED
  BY <1>2, <1>4 DEF Intake!Next, Intake!Store, Intake!Advance

(* A new order.created event is a Log of its order.                        *)
LEMMA EventIsLog ==
  ASSUME WorkerTypeOK, NEW o \in Orders, rows[o] = 1, events[o] = 0, shown[o] = 0,
         events' = [events EXCEPT ![o] = @ + 1], UNCHANGED <<rows, shown>>
  PROVE  Intake!Next
<1>1. events' = [events EXCEPT ![o] = 1]
  OBVIOUS
<1>2. OrderPhases[o] = "stored"
  BY PhaseFacts DEF OrderPhases
<1>3. /\ PhaseAt(rows'[o], events'[o], shown'[o]) = "logged"
      /\ \A p \in Orders \ {o} : PhaseAt(rows'[p], events'[p], shown'[p])
                                = PhaseAt(rows[p], events[p], shown[p])
  BY <1>1, PhaseFacts DEF WorkerTypeOK
<1>4. OrderPhases' = [OrderPhases EXCEPT ![o] = "logged"]
  BY <1>3 DEF OrderPhases
<1> QED
  BY <1>2, <1>4 DEF Intake!Next, Intake!Log, Intake!Advance

(* A new-order broadcast is an Announce of its order.                      *)
LEMMA BroadcastIsAnnounce ==
  ASSUME WorkerTypeOK, NEW o \in Orders, rows[o] = 1, events[o] = 1, shown[o] = 0,
         shown' = [shown EXCEPT ![o] = @ + 1], UNCHANGED <<rows, events>>
  PROVE  Intake!Next
<1>1. shown' = [shown EXCEPT ![o] = 1]
  OBVIOUS
<1>2. OrderPhases[o] = "logged"
  BY PhaseFacts DEF OrderPhases
<1>3. /\ PhaseAt(rows'[o], events'[o], shown'[o]) = "announced"
      /\ \A p \in Orders \ {o} : PhaseAt(rows'[p], events'[p], shown'[p])
                                = PhaseAt(rows[p], events[p], shown[p])
  BY <1>1, PhaseFacts DEF WorkerTypeOK
<1>4. OrderPhases' = [OrderPhases EXCEPT ![o] = "announced"]
  BY <1>3 DEF OrderPhases
<1> QED
  BY <1>2, <1>4 DEF Intake!Next, Intake!Announce, Intake!Advance

(* Every step of the pipeline is a step of OrderIntake or leaves all phases*)
(* as they are.                                                            *)
LEMMA StepImplementsIntake ==
  ASSUME WorkerInv, [Next]_vars
  PROVE  [Intake!Next]_OrderPhases
<1>1. WorkerTypeOK /\ TracesMatch
  BY DEF WorkerInv
<1>2. CASE UNCHANGED <<rows, events, shown>>
  BY <1>2 DEF OrderPhases
<1>3. ASSUME NEW r \in Runs, RunStep(r) \/ CrashRun(r)
      PROVE  [Intake!Next]_OrderPhases
  <2> DEFINE o == run[r].order
  <2>1. run[r].pc # "idle" => o \in Orders
    BY <1>1 DEF WorkerTypeOK, Run, IdleRun
  <2>2. CASE InsertOrder(r) \/ InsertError(r)
    BY <1>1, <1>2, <2>1, <2>2, CreatorFacts, RowIsStore DEF InsertOrder, InsertError
  <2>3. CASE LogCreated(r) \/ LogCreatedError(r)
    BY <1>1, <1>2, <2>1, <2>3, CreatorFacts, EventIsLog DEF LogCreated, LogCreatedError
  <2>4. CASE BroadcastOrder(r)
    BY <1>1, <2>1, <2>4, CreatorFacts, BroadcastIsAnnounce DEF BroadcastOrder
  <2>5. CASE StartRun(r) \/ Translate(r) \/ InsertDuplicate(r) \/ SettleJob(r) \/ CrashRun(r)
    BY <1>2, <2>5 DEF StartRun, Translate, InsertDuplicate, SettleJob, CrashRun
  <2> QED
    BY <1>3, <2>2, <2>3, <2>4, <2>5 DEF RunStep
<1> QED
  BY <1>2, <1>3 DEF Next, vars, workerVars, WorkerNext

(* The pipeline implements its abstract specification: whatever is sent    *)
(* again, retried or crashes, the traces of an order appear in order and   *)
(* once each.                                                              *)
THEOREM PipelineImplementsIntake == Spec => ImplementsIntake
<1>1. Init => Intake!Init
  BY PhaseFacts DEF Init, WorkerInit, Intake!Init, OrderPhases
<1>2. PipelineInv /\ [Next]_vars => [Intake!Next]_OrderPhases
  BY StepImplementsIntake DEF PipelineInv
<1> QED
  BY <1>1, <1>2, PipelineInvariance, PTL DEF Spec, ImplementsIntake, Intake!Spec

-----------------------------------------------------------------------------
(* The pipeline: what becomes of the job of an order that got one.         *)

DurableInv == StoreInv /\ EnqueuedIsNotLost

(* What is not the worker's leaves accounted orders accounted for.         *)
LEMMA HandledKeepsAccounted ==
  ASSUME WorkerInv, StoreInv, UNCHANGED workerVars, disposed \subseteq disposed',
         \A j \in JobIds : Handled(j), NEW o \in Orders, Accounted(o)
  PROVE  Accounted(o)'
<1> DEFINE j == JobIdOf[o]
<1>1. j \in JobIds /\ Handled(j)
  BY QueueAssumption
<1>2. CASE rows[o] = 1 \/ o \in disposed
  BY <1>2 DEF Accounted, workerVars
<1>3. CASE HasOpenJob(o)
  <2>1. job[j].order = o /\ job[j].state \in {"waiting", "active", "delayed", "failed"}
    BY <1>3 DEF HasOpenJob
  <2>2. CASE Kept(j)
    BY <2>1, <2>2 DEF Kept, Accounted, HasOpenJob
  <2>3. CASE Requeued(j)
    BY <2>1, <2>3 DEF Requeued, Accounted, HasOpenJob
  <2>4. CASE Dropped(j)
    BY <2>1, <2>4 DEF Dropped, Accounted
  <2>5. ~Added(j)
    BY <2>1 DEF Added, JobExists
  <2> QED
    BY <1>1, <2>2, <2>3, <2>4, <2>5 DEF Handled, Maintained
<1> QED
  BY <1>2, <1>3 DEF Accounted

(* Nor does the worker lose one: a job it completes has its row.           *)
LEMMA WorkerKeepsAccounted ==
  ASSUME WorkerInv, StoreInv, NEW r \in Runs, RunStep(r) \/ CrashRun(r),
         NEW o \in Orders, Accounted(o)
  PROVE  Accounted(o)'
<1> DEFINE j == JobIdOf[o]
<1>1. /\ job \in [JobIds -> Job] /\ run \in [Runs -> Run] /\ rows \in [Orders -> Nat]
      /\ j \in JobIds /\ StoreInv' /\ WorkerInv'
  BY QueueAssumption, WorkerStepInv, WorkerStepKeepsStoreInv
  DEF WorkerInv, QueueInv, QueueTypeOK, WorkerTypeOK
<1>2. disposed' = disposed
  BY DEF RunStep, StartRun, TakeJob, SettleJob, CompleteJob, FailJob, Translate, InsertOrder,
         InsertDuplicate, InsertError, LogCreated, LogCreatedError, BroadcastOrder,
         CrashRun, queueVars
<1>3. rows[o] = 1 => rows'[o] = 1
  <2>1. \/ rows' = rows
        \/ rows[run[r].order] = 0 /\ rows' = [rows EXCEPT ![run[r].order] = @ + 1]
    BY DEF RunStep, StartRun, SettleJob, Translate, InsertOrder, InsertDuplicate,
           InsertError, LogCreated, LogCreatedError, BroadcastOrder, CrashRun
  <2> QED
    BY <1>1, <2>1
<1>4. \/ job'[j] = job[j]
      \/ job'[j].order = job[j].order /\ job'[j].state \in {"active", "delayed", "failed", "completed"}
  <2>1. CASE StartRun(r)
    <3>1. PICK i \in JobIds : TakeJob(r, i)
      BY <2>1 DEF StartRun
    <3> QED
      BY <1>1, <3>1 DEF TakeJob, SetJob, Job
  <2>2. CASE SettleJob(r)
    <3>1. run[r].job \in JobIds
      BY <1>1, <2>2 DEF SettleJob, Run, IdleRun
    <3>2. CASE CompleteJob(r, run[r].job)
      BY <1>1, <3>1, <3>2 DEF CompleteJob, SetJob, Job
    <3>3. CASE FailJob(r, run[r].job)
      <4> DEFINE i == run[r].job
                 made == job[i].attempts + 1
                 n1 == [job[i] EXCEPT !.state = "delayed", !.lock = NoRun, !.attempts = made]
                 n2 == [job[i] EXCEPT !.state = "failed", !.lock = NoRun,
                                      !.attempts = MaxAttempts]
      <4>1. job[i] \in Job
        BY <1>1, <3>1
      <4>2. /\ n1.order = job[i].order /\ n1.state = "delayed"
            /\ n2.order = job[i].order /\ n2.state = "failed"
        BY <4>1 DEF Job
      <4>3. SetJob(i, n1) \/ SetJob(i, n2)
        BY <3>3 DEF FailJob
      <4> HIDE DEF n1, n2
      <4> QED
        BY <1>1, <3>1, <4>2, <4>3 DEF SetJob
    <3> QED
      BY <2>2, <3>2, <3>3 DEF SettleJob, queueVars
  <2>3. CASE job' = job
    BY <2>3
  <2> QED
    BY <2>1, <2>2, <2>3
    DEF RunStep, Translate, InsertOrder, InsertDuplicate, InsertError, LogCreated,
        LogCreatedError, BroadcastOrder, CrashRun, queueVars
<1>5. CASE HasOpenJob(o)
  <2>1. job[j].order = o /\ job[j].state \in {"waiting", "active", "delayed", "failed"}
    BY <1>5 DEF HasOpenJob
  <2>2. CASE job'[j].state = "completed"
    <3>1. rows'[job'[j].order] = 1
      BY <1>1, <2>2 DEF StoreInv, CompletedIsStored
    <3>2. job'[j].order = o
      BY <1>4, <2>1
    <3> QED
      BY <3>1, <3>2 DEF Accounted
  <2>3. CASE job'[j].state # "completed"
    BY <1>4, <2>1, <2>3 DEF Accounted, HasOpenJob
  <2> QED
    BY <2>2, <2>3
<1> QED
  BY <1>2, <1>3, <1>5 DEF Accounted

(* An order enters enqueued together with its job.                         *)
LEMMA AddOrderAccounts ==
  ASSUME QueueInv, NEW o \in Orders, AddOrder(o), NEW p \in enqueued', p \notin enqueued
  PROVE  Accounted(p)'
<1>1. p = o /\ ~JobExists(JobIdOf[o]) /\ JobIdOf[o] \in JobIds
  BY QueueAssumption DEF AddOrder
<1>2. job'[JobIdOf[o]] = FreshJob(o)
  BY <1>1 DEF AddOrder, AddJob, QueueInv, QueueTypeOK
<1> QED
  BY <1>1, <1>2 DEF Accounted, HasOpenJob, FreshJob

(* A webhook step adds at most one job, for an order it notes.             *)
LEMMA FrontStepAccounts ==
  ASSUME QueueInv, FrontTypeOK, FrontNext
  PROVE  /\ disposed' = disposed /\ \A j \in JobIds : Handled(j)
         /\ \A o \in enqueued' : o \in enqueued \/ Accounted(o)'
<1> DEFINE Quiet == UNCHANGED <<queueVars, enqueued>>
<1>1. CASE Quiet
  BY <1>1 DEF queueVars, Handled, Maintained, Kept
<1>2. ASSUME NEW o \in Orders, AddOrder(o)
      PROVE  /\ disposed' = disposed /\ \A j \in JobIds : Handled(j)
             /\ \A p \in enqueued' : p \in enqueued \/ Accounted(p)'
  BY <1>2, AddJobHandles, AddOrderAccounts DEF AddOrder, AddJob
<1>3. ASSUME NEW d \in Deliveries, ~At(d, "idle") PROVE delivery[d].order \in Orders
  BY <1>3 DEF FrontTypeOK, Delivery, IdleDelivery, At
<1>4. Quiet \/ \E o \in Orders : AddOrder(o)
  <2>1. ASSUME NEW d \in Deliveries, Enqueue(d) \/ EnqueueError(d)
        PROVE  Quiet \/ \E o \in Orders : AddOrder(o)
    BY <1>3, <2>1 DEF Enqueue, EnqueueError, At
  <2>2. ASSUME NEW d \in Deliveries,
               \/ Receive(d) \/ CrashDelivery(d)
               \/ ClaimMarker(d) \/ ClaimReplyLost(d) \/ ClaimError(d)
               \/ AnswerDuplicate(d) \/ CheckDepth(d) \/ AnswerAccepted(d) \/ RollbackMarker(d)
        PROVE  Quiet
    BY <2>2
    DEF Receive, CrashDelivery, ClaimMarker, ClaimReplyLost, ClaimError, AnswerDuplicate,
        CheckDepth, AnswerAccepted, RollbackMarker
  <2>3. ASSUME NEW o \in Orders, MarkerExpires(o) PROVE Quiet
    BY <2>3 DEF MarkerExpires
  <2> QED
    BY <2>1, <2>2, <2>3 DEF FrontNext, DeliveryStep
<1> QED
  BY <1>1, <1>2, <1>4

(* DurableInv is an invariant of the pipeline.                             *)
LEMMA DurableInvariance == Spec => []DurableInv
<1>1. Init => DurableInv
  BY DEF Init, QueueInit, FrontInit, WorkerInit, DurableInv, StoreInv, EnqueuedIsNotLost,
         CompletedIsStored, DoneIsStored, LockedRunsMatch, AbsentJob, IdleRun
<1>2. PipelineInv /\ DurableInv /\ [Next]_vars => DurableInv'
  <2> SUFFICES ASSUME PipelineInv, DurableInv, [Next]_vars PROVE DurableInv'
    OBVIOUS
  <2>1. /\ WorkerInv /\ FrontTypeOK /\ QueueInv /\ StoreInv
        /\ enqueued \subseteq Orders /\ \A o \in enqueued : Accounted(o)
    BY DEF PipelineInv, WorkerInv, DurableInv, EnqueuedIsNotLost, FrontInv, FrontTypeOK
  <2>2. (\A o \in enqueued' : Accounted(o)') => EnqueuedIsNotLost'
    BY DEF EnqueuedIsNotLost
  <2>3. CASE FrontNext /\ UNCHANGED workerVars
    <3>1. /\ disposed' = disposed /\ \A j \in JobIds : Handled(j)
          /\ \A o \in enqueued' : o \in enqueued \/ Accounted(o)'
      BY <2>1, <2>3, FrontStepAccounts
    <3>2. \A o \in enqueued : Accounted(o)'
      BY <2>1, <2>3, <3>1, HandledKeepsAccounted
    <3>3. StoreInv'
      BY <2>1, <2>3, <3>1, HandledKeepsStoreInv
    <3> QED
      BY <2>2, <3>1, <3>2, <3>3 DEF DurableInv
  <2>4. CASE WorkerNext /\ UNCHANGED frontVars
    <3>1. PICK r \in Runs : RunStep(r) \/ CrashRun(r)
      BY <2>4 DEF WorkerNext
    <3>2. StoreInv' /\ \A o \in enqueued : Accounted(o)'
      BY <2>1, <3>1, WorkerStepKeepsStoreInv, WorkerKeepsAccounted
    <3>3. enqueued' = enqueued
      BY <2>4 DEF frontVars
    <3> QED
      BY <2>2, <3>2, <3>3 DEF DurableInv
  <2>5. CASE QueueMaintenance /\ UNCHANGED <<frontVars, workerVars>>
    <3>1. disposed \subseteq disposed' /\ \A j \in JobIds : Handled(j)
      BY <2>1, <2>5, MaintenanceHandles DEF Handled
    <3>2. StoreInv' /\ \A o \in enqueued : Accounted(o)'
      BY <2>1, <2>5, <3>1, HandledKeepsStoreInv, HandledKeepsAccounted
    <3>3. enqueued' = enqueued
      BY <2>5 DEF frontVars
    <3> QED
      BY <2>2, <3>2, <3>3 DEF DurableInv
  <2>6. CASE UNCHANGED vars
    <3>1. disposed' = disposed /\ UNCHANGED workerVars /\ enqueued' = enqueued
          /\ \A j \in JobIds : Handled(j)
      BY <2>6 DEF vars, queueVars, frontVars, Handled, Maintained, Kept
    <3>2. StoreInv' /\ \A o \in enqueued : Accounted(o)'
      BY <2>1, <3>1, HandledKeepsStoreInv, HandledKeepsAccounted
    <3> QED
      BY <2>2, <3>1, <3>2 DEF DurableInv
  <2> QED
    BY <2>3, <2>4, <2>5, <2>6 DEF Next
<1> QED
  BY <1>1, <1>2, PipelineInvariance, PTL DEF Spec

(* An order that got a job is in the database, or its job is still open,   *)
(* or an operator discarded it or it expired in the DLQ: no interleaving   *)
(* of deliveries, runs, crashes and DLQ requests makes it vanish.          *)
THEOREM EnqueuedIsNeverLost == Spec => []EnqueuedIsNotLost
<1>1. DurableInv => EnqueuedIsNotLost
  BY DEF DurableInv
<1> QED
  BY <1>1, DurableInvariance, PTL

(* End to end: an order whose delivery was answered 202 is in the database *)
(* or on its way there, unless an operator discarded it or it expired as a *)
(* dead letter, as long as no other order has its job id.                  *)
THEOREM AcceptedIsNeverLost ==
  ASSUME OwnJobIds
  PROVE  Spec => []AcceptedIsNotLost
<1>1. PipelineInv /\ EnqueuedIsNotLost => AcceptedIsNotLost
  BY ServedIsEnqueued
  DEF PipelineInv, FrontInv, FrontTypeOK, AcceptedIsServed, EnqueuedIsNotLost,
      AcceptedIsNotLost
<1> QED
  BY <1>1, PipelineInvariance, EnqueuedIsNeverLost, PTL

=============================================================================
