-------------------------- MODULE OrderWorkerProofs --------------------------
(***************************************************************************)
(* OrderWorker shows no order twice, for any number of orders, worker      *)
(* slots, attempts and stalls. The argument is DisplayInv: the unique      *)
(* constraint lets one run at most get past the insert of an order, and    *)
(* what is recorded of the order follows that run's position.              *)
(*                                                                         *)
(* The first part is about the queue and serves every composition with a   *)
(* producer and a consumer: each queue operation keeps the queue well      *)
(* typed and keeps the jobs under the ids of the orders they carry.        *)
(***************************************************************************)
EXTENDS OrderWorker, TLAPS

QueueInv == QueueTypeOK /\ JobsCarryOrders

(* What a worker slot's calls do to the queue.                             *)
ConsumerCall(r, j) == TakeJob(r, j) \/ CompleteJob(r, j) \/ FailJob(r, j)

(* The empty queue is well formed.                                         *)
LEMMA QueueInitInv == QueueInit => QueueInv
  BY QueueAssumption
  DEF QueueInit, QueueInv, QueueTypeOK, JobsCarryOrders, JobExists, Job, JobStates,
      DlqRequest, AbsentJob, NoRequest

(* A new job carries an order of its own job id.                           *)
LEMMA AddJobInv ==
  ASSUME NEW o \in Orders, QueueInv, AddJob(o)
  PROVE  QueueInv'
<1> DEFINE j == JobIdOf[o]
<1>1. j \in JobIds
  BY QueueAssumption
<1>2. FreshJob(o) \in Job
  BY QueueAssumption DEF FreshJob, AbsentJob, Job, JobStates
<1>3. QueueTypeOK'
  BY <1>1, <1>2 DEF QueueInv, QueueTypeOK, AddJob
<1>4. JobsCarryOrders'
  BY <1>1, <1>2 DEF QueueInv, QueueTypeOK, JobsCarryOrders, AddJob, JobExists,
                    FreshJob, AbsentJob
<1> QED
  BY <1>3, <1>4 DEF QueueInv

(* One job is overwritten by a well-formed job with the same order, or by  *)
(* none.                                                                   *)
LEMMA SetJobInv ==
  ASSUME QueueInv, NEW j \in JobIds, NEW n \in Job, SetJob(j, n),
         n.state = "none" \/ (n.order = job[j].order /\ job[j].state # "none"),
         dlq' \in [Operators -> DlqRequest], disposed' \subseteq Orders
  PROVE  QueueInv'
  BY DEF QueueInv, QueueTypeOK, JobsCarryOrders, JobExists, SetJob

(* The calls of a worker slot.                                             *)
LEMMA ConsumerCallInv ==
  ASSUME NEW r \in Runs, NEW j \in JobIds, QueueInv, ConsumerCall(r, j)
  PROVE  QueueInv'
<1>1. /\ job[j] \in Job
      /\ dlq \in [Operators -> DlqRequest]
      /\ disposed \subseteq Orders
  BY DEF QueueInv, QueueTypeOK
<1>2. CASE TakeJob(r, j)
  <2> DEFINE n == [job[j] EXCEPT !.state = "active", !.lock = r]
  <2>1. n \in Job /\ n.order = job[j].order
    BY <1>1 DEF Job, JobStates
  <2> QED
    BY <1>1, <1>2, <2>1, SetJobInv DEF TakeJob
<1>3. CASE CompleteJob(r, j)
  <2> DEFINE n == [job[j] EXCEPT !.state = "completed", !.lock = NoRun]
  <2>1. n \in Job /\ n.order = job[j].order
    BY <1>1 DEF Job, JobStates
  <2> QED
    BY <1>1, <1>3, <2>1, SetJobInv DEF CompleteJob, HoldsLock
<1>4. CASE FailJob(r, j)
  <2> DEFINE made == job[j].attempts + 1
             n1 == [job[j] EXCEPT !.state = "delayed", !.lock = NoRun, !.attempts = made]
             n2 == [job[j] EXCEPT !.state = "failed", !.lock = NoRun,
                                  !.attempts = MaxAttempts]
  <2>1. MaxAttempts \in 0..MaxAttempts /\ (made < MaxAttempts => made \in 0..MaxAttempts)
    BY <1>1, QueueAssumption DEF Job
  <2>2. n2 \in Job /\ n2.order = job[j].order
    BY <1>1, <2>1 DEF Job, JobStates
  <2>3. ASSUME made < MaxAttempts PROVE n1 \in Job /\ n1.order = job[j].order
    <3> HIDE DEF made
    <3> QED
      BY <1>1, <2>1, <2>3 DEF Job, JobStates
  <2> QED
    BY <1>1, <1>4, <2>2, <2>3, SetJobInv DEF FailJob, HoldsLock
<1> QED
  BY <1>2, <1>3, <1>4 DEF ConsumerCall

(* Backoffs, the stalled-job check, retention and the DLQ endpoints.       *)
LEMMA QueueMaintenanceInv ==
  ASSUME QueueInv, QueueMaintenance
  PROVE  QueueInv'
<1>1. /\ job \in [JobIds -> Job]
      /\ dlq \in [Operators -> DlqRequest]
      /\ disposed \subseteq Orders
      /\ JobsCarryOrders
  BY DEF QueueInv, QueueTypeOK
<1>2. AbsentJob \in Job /\ AbsentJob.state = "none"
  BY QueueAssumption DEF AbsentJob, Job, JobStates
<1>3. NoRequest \in DlqRequest
  BY DEF NoRequest, DlqRequest
<1>4. ASSUME NEW j \in JobIds
      PROVE  LET n == [job[j] EXCEPT !.state = "waiting"]
             IN  n \in Job /\ n.order = job[j].order
  BY <1>1 DEF Job, JobStates
<1>5. ASSUME NEW j \in JobIds, PromoteJob(j) PROVE QueueInv'
  BY <1>1, <1>4, <1>5, SetJobInv DEF PromoteJob
<1>6. ASSUME NEW j \in JobIds, StallJob(j) PROVE QueueInv'
  <2> DEFINE more == job[j].stalls + 1
             n1 == [job[j] EXCEPT !.state = "waiting", !.lock = NoRun, !.stalls = more]
             n2 == [job[j] EXCEPT !.state = "failed", !.lock = NoRun]
  <2>1. n2 \in Job /\ n2.order = job[j].order
    BY <1>1 DEF Job, JobStates
  <2>2. ASSUME job[j].stalls < MaxStalled PROVE n1 \in Job /\ n1.order = job[j].order
    <3>1. more \in 0..MaxStalled
      BY <1>1, <2>2, QueueAssumption DEF Job
    <3> HIDE DEF more
    <3> QED
      BY <1>1, <3>1 DEF Job, JobStates
  <2> QED
    BY <1>1, <1>6, <2>1, <2>2, SetJobInv DEF StallJob
<1>7. ASSUME NEW j \in JobIds, ExpireJob(j) PROVE QueueInv'
  <2>1. job[j].order \in Orders
    BY <1>1, <1>7 DEF ExpireJob, JobsCarryOrders, JobExists
  <2> QED
    BY <1>1, <1>2, <1>7, <2>1, SetJobInv DEF ExpireJob
<1>8. ASSUME NEW a \in Operators, NEW j \in JobIds, NEW op \in {"retry", "discard"},
             DlqCheck(a, j, op)
      PROVE  QueueInv'
  <2>1. [op |-> op, job |-> j] \in DlqRequest
    BY DEF DlqRequest
  <2> QED
    BY <1>1, <1>8, <2>1
    DEF DlqCheck, QueueInv, QueueTypeOK, JobsCarryOrders, JobExists
<1>9. ASSUME NEW a \in Operators, DlqRetry(a) PROVE QueueInv'
  <2> DEFINE j == dlq[a].job
  <2>0. j \in JobIds
    BY <1>1, <1>9 DEF DlqRetry, DlqRequest, NoRequest
  <2>1. dlq' \in [Operators -> DlqRequest]
    BY <1>1, <1>3, <1>9 DEF DlqRetry
  <2>2. CASE job[j].state = "failed"
    BY <1>1, <1>4, <1>9, <2>0, <2>1, <2>2, SetJobInv DEF DlqRetry
  <2>3. CASE job[j].state # "failed"
    BY <1>1, <1>9, <2>1, <2>3
    DEF DlqRetry, QueueInv, QueueTypeOK, JobsCarryOrders, JobExists
  <2> QED
    BY <2>2, <2>3
<1>10. ASSUME NEW a \in Operators, DlqDiscard(a) PROVE QueueInv'
  <2> DEFINE j == dlq[a].job
  <2>1. j \in JobIds
    BY <1>1, <1>10 DEF DlqDiscard, DlqRequest, NoRequest
  <2>2. dlq' \in [Operators -> DlqRequest]
    BY <1>1, <1>3, <1>10 DEF DlqDiscard
  <2>3. disposed' \subseteq Orders
    BY <1>1, <1>10, <2>1 DEF DlqDiscard, JobsCarryOrders, JobExists
  <2>4. CASE job' = job
    BY <1>1, <2>2, <2>3, <2>4 DEF QueueInv, QueueTypeOK, JobsCarryOrders, JobExists
  <2>5. CASE SetJob(j, AbsentJob)
    BY <1>2, <2>1, <2>2, <2>3, <2>5, SetJobInv
  <2> QED
    BY <1>10, <2>4, <2>5 DEF DlqDiscard
<1> QED
  BY <1>5, <1>6, <1>7, <1>8, <1>9, <1>10 DEF QueueMaintenance

-----------------------------------------------------------------------------
(* The worker.                                                             *)

WorkerInv == QueueInv /\ WorkerTypeOK /\ OneCreator /\ TracesMatch

(* WorkerInv is the conjunction of the invariants TLC checks.              *)
LEMMA WorkerInvParts == WorkerInv <=> OrderWorkerTypeOK /\ DisplayInv
  BY DEF WorkerInv, QueueInv, OrderWorkerTypeOK, DisplayInv

(* No run and no trace exists at first.                                    *)
LEMMA WorkerInitInv == QueueInit /\ WorkerInit => WorkerInv
<1> SUFFICES ASSUME QueueInit, WorkerInit PROVE WorkerInv
  OBVIOUS
<1>1. QueueInv
  BY QueueInitInv
<1>2. WorkerTypeOK
  BY DEF WorkerInit, WorkerTypeOK, Run, IdleRun
<1>3. OneCreator /\ TracesMatch
  BY DEF WorkerInit, OneCreator, TracesMatch, Creating, IdleRun
<1> QED
  BY <1>1, <1>2, <1>3 DEF WorkerInv

(* A step that leaves the worker alone and the queue well formed.          *)
LEMMA WorkerUnchangedInv ==
  ASSUME WorkerInv, QueueInv', UNCHANGED workerVars
  PROVE  WorkerInv'
  BY DEF WorkerInv, workerVars, WorkerTypeOK, OneCreator, TracesMatch, Creating

(* Goto moves one run and keeps its job and its order.                     *)
LEMMA GotoMoves ==
  ASSUME WorkerTypeOK, NEW r \in Runs, run[r].pc # "idle",
         NEW pc \in RunPCs \ {"idle"}, Goto(r, pc)
  PROVE  /\ run' \in [Runs -> Run]
         /\ run'[r].pc = pc /\ run'[r].order = run[r].order
         /\ \A q \in Runs \ {r} : run'[q] = run[q]
         /\ run[r].order \in Orders
<1>1. run[r] \in [pc: RunPCs \ {"idle"}, job: JobIds, order: Orders]
  BY DEF WorkerTypeOK, Run, IdleRun
<1> QED
  BY <1>1 DEF WorkerTypeOK, Run, Goto

(* A run that does not get near the insert keeps the invariant.            *)
LEMMA HarmlessMoveInv ==
  ASSUME WorkerInv, QueueInv', NEW r \in Runs, run' \in [Runs -> Run],
         \A q \in Runs \ {r} : run'[q] = run[q],
         run'[r].pc \notin {"event", "broadcast"},
         UNCHANGED <<rows, events, shown>>, interrupted' \subseteq Orders
  PROVE  WorkerInv'
<1>1. WorkerTypeOK'
  BY DEF WorkerInv, WorkerTypeOK
<1>2. OneCreator'
  BY DEF WorkerInv, OneCreator, Creating
<1>3. TracesMatch'
  BY DEF WorkerInv, TracesMatch
<1> QED
  BY <1>1, <1>2, <1>3 DEF WorkerInv

(* Every step of a worker slot, and the crash of its process.              *)
LEMMA WorkerStepInv ==
  ASSUME WorkerInv, NEW r \in Runs, RunStep(r) \/ CrashRun(r)
  PROVE  WorkerInv'
<1> DEFINE o == run[r].order
<1>1. /\ WorkerTypeOK /\ QueueInv /\ OneCreator /\ TracesMatch
      /\ run[r] \in Run /\ interrupted \subseteq Orders
  BY DEF WorkerInv, WorkerTypeOK
<1>2. UNCHANGED queueVars => QueueInv'
  BY <1>1 DEF queueVars, QueueInv, QueueTypeOK, JobsCarryOrders, JobExists
<1>3. run[r].pc # "idle" => o \in Orders /\ run[r].job \in JobIds
  BY <1>1 DEF Run, IdleRun
<1>4. IdleRun \in Run /\ IdleRun.pc = "idle"
  BY DEF Run, IdleRun
<1>5. CASE StartRun(r)
  <2> PICK j \in JobIds :
        /\ TakeJob(r, j)
        /\ run' = [run EXCEPT ![r] = [pc |-> "translate", job |-> j, order |-> job[j].order]]
    BY <1>5 DEF StartRun
  <2>1. QueueInv'
    BY <1>1, ConsumerCallInv DEF ConsumerCall
  <2>2. job[j].order \in Orders
    BY <1>1 DEF TakeJob, QueueInv, JobsCarryOrders, JobExists
  <2>3. [pc |-> "translate", job |-> j, order |-> job[j].order] \in Run
    BY <2>2 DEF Run, RunPCs
  <2>4. run' \in [Runs -> Run] /\ run'[r].pc = "translate"
        /\ \A q \in Runs \ {r} : run'[q] = run[q]
    BY <1>1, <2>3 DEF WorkerTypeOK
  <2> QED
    BY <1>1, <1>5, <2>1, <2>4, HarmlessMoveInv DEF StartRun
<1>6. CASE Translate(r)
  <2>1. PICK pc \in {"insert", "error"} : Goto(r, pc)
    BY <1>6 DEF Translate
  <2> QED
    BY <1>1, <1>2, <1>6, <2>1, GotoMoves, HarmlessMoveInv DEF Translate, RunPCs
<1>7. CASE InsertOrder(r)
  <2>1. /\ run' \in [Runs -> Run]
        /\ run'[r].pc = "event" /\ run'[r].order = o
        /\ \A q \in Runs \ {r} : run'[q] = run[q]
    BY <1>1, <1>7, GotoMoves DEF InsertOrder, RunPCs
  <2>2. /\ rows[o] = 0 /\ events[o] = 0 /\ shown[o] = 0
        /\ rows' = [rows EXCEPT ![o] = 1] /\ UNCHANGED <<events, shown, interrupted>>
    BY <1>1, <1>3, <1>7 DEF InsertOrder, TracesMatch, WorkerTypeOK
  <2>3. \A q \in Runs : ~Creating(q, o)
    BY <1>1, <1>3, <1>7, <2>2 DEF InsertOrder, TracesMatch, Creating
  <2>4. WorkerTypeOK'
    BY <1>1, <2>1, <2>2 DEF WorkerTypeOK
  <2>5. OneCreator'
    BY <1>1, <2>1, <2>3 DEF OneCreator, Creating
  <2>6. TracesMatch'
    BY <1>1, <1>3, <1>7, <2>1, <2>2 DEF TracesMatch, InsertOrder, WorkerTypeOK
  <2> QED
    BY <1>2, <1>7, <2>4, <2>5, <2>6 DEF InsertOrder, WorkerInv
<1>8. CASE InsertDuplicate(r)
  BY <1>1, <1>2, <1>8, GotoMoves, HarmlessMoveInv DEF InsertDuplicate, RunPCs
<1>9. CASE InsertError(r)
  <2>1. /\ run' \in [Runs -> Run]
        /\ run'[r].pc = "error"
        /\ \A q \in Runs \ {r} : run'[q] = run[q]
    BY <1>1, <1>9, GotoMoves DEF InsertError, RunPCs
  <2>2. CASE UNCHANGED <<rows, interrupted>>
    BY <1>1, <1>2, <1>9, <2>1, <2>2, HarmlessMoveInv DEF InsertError
  <2>3. CASE rows[o] = 0 /\ rows' = [rows EXCEPT ![o] = @ + 1]
             /\ interrupted' = interrupted \cup {o}
    <3>1. events[o] = 0 /\ shown[o] = 0 /\ UNCHANGED <<events, shown>>
      BY <1>1, <1>3, <1>9, <2>3 DEF InsertError, TracesMatch
    <3>2. \A q \in Runs : ~Creating(q, o)
      BY <1>1, <1>3, <1>9, <2>3 DEF InsertError, TracesMatch, Creating
    <3>3. rows' = [rows EXCEPT ![o] = 1]
      BY <2>3
    <3>4. WorkerTypeOK'
      BY <1>1, <1>3, <1>9, <2>1, <2>3, <3>1, <3>3 DEF WorkerTypeOK, InsertError
    <3>5. OneCreator'
      BY <1>1, <2>1 DEF OneCreator, Creating
    <3>6. TracesMatch'
      BY <1>1, <1>3, <1>9, <2>1, <3>1, <3>2, <3>3
      DEF TracesMatch, InsertError, WorkerTypeOK, Creating
    <3> QED
      BY <1>2, <1>9, <3>4, <3>5, <3>6 DEF InsertError, WorkerInv
  <2> QED
    BY <1>9, <2>2, <2>3 DEF InsertError
<1>10. CASE LogCreated(r)
  <2>1. /\ run' \in [Runs -> Run]
        /\ run'[r].pc = "broadcast" /\ run'[r].order = o
        /\ \A q \in Runs \ {r} : run'[q] = run[q]
    BY <1>1, <1>10, GotoMoves DEF LogCreated, RunPCs
  <2>0. rows[o] = 1 /\ events[o] = 0 /\ shown[o] = 0
    BY <1>1, <1>3, <1>10 DEF LogCreated, TracesMatch
  <2>2. /\ rows[o] = 1 /\ events[o] = 0 /\ shown[o] = 0
        /\ events' = [events EXCEPT ![o] = 1] /\ UNCHANGED <<rows, shown, interrupted>>
    BY <1>10, <2>0 DEF LogCreated
  <2>3. Creating(r, o) /\ \A q \in Runs \ {r} : ~Creating(q, o)
    BY <1>1, <1>3, <1>10 DEF LogCreated, OneCreator, Creating
  <2>4. WorkerTypeOK'
    BY <1>1, <2>1, <2>2 DEF WorkerTypeOK
  <2>5. OneCreator'
    BY <1>1, <2>1, <2>3 DEF OneCreator, Creating
  <2>6. TracesMatch'
    BY <1>1, <1>3, <2>1, <2>2, <2>3 DEF TracesMatch, WorkerTypeOK, Creating
  <2> QED
    BY <1>2, <1>10, <2>4, <2>5, <2>6 DEF LogCreated, WorkerInv
<1>11. CASE LogCreatedError(r)
  <2>1. /\ run' \in [Runs -> Run]
        /\ run'[r].pc = "error"
        /\ \A q \in Runs \ {r} : run'[q] = run[q]
    BY <1>1, <1>11, GotoMoves DEF LogCreatedError, RunPCs
  <2>2. /\ rows[o] = 1 /\ events[o] = 0 /\ shown[o] = 0 /\ UNCHANGED <<rows, shown>>
        /\ events' = events \/ events' = [events EXCEPT ![o] = 1]
    BY <1>1, <1>3, <1>11 DEF LogCreatedError, TracesMatch, WorkerTypeOK
  <2>3. \A q \in Runs \ {r} : ~Creating(q, o)
    BY <1>1, <1>3, <1>11 DEF LogCreatedError, OneCreator, Creating
  <2>4. WorkerTypeOK'
    BY <1>1, <1>3, <1>11, <2>1, <2>2 DEF WorkerTypeOK, LogCreatedError
  <2>5. OneCreator'
    BY <1>1, <2>1 DEF OneCreator, Creating
  <2>6. TracesMatch'
    BY <1>1, <1>3, <2>1, <2>2, <2>3 DEF TracesMatch, WorkerTypeOK, Creating
  <2> QED
    BY <1>2, <1>11, <2>4, <2>5, <2>6 DEF LogCreatedError, WorkerInv
<1>12. CASE BroadcastOrder(r)
  <2>1. /\ run' \in [Runs -> Run]
        /\ run'[r].pc = "done"
        /\ \A q \in Runs \ {r} : run'[q] = run[q]
    BY <1>1, <1>12, GotoMoves DEF BroadcastOrder, RunPCs
  <2>0. rows[o] = 1 /\ events[o] = 1 /\ shown[o] = 0
    BY <1>1, <1>3, <1>12 DEF BroadcastOrder, TracesMatch
  <2>2. /\ rows[o] = 1 /\ events[o] = 1 /\ shown[o] = 0
        /\ shown' = [shown EXCEPT ![o] = 1] /\ UNCHANGED <<rows, events, interrupted>>
    BY <1>12, <2>0 DEF BroadcastOrder
  <2>3. \A q \in Runs \ {r} : ~Creating(q, o)
    BY <1>1, <1>3, <1>12 DEF BroadcastOrder, OneCreator, Creating
  <2>4. WorkerTypeOK'
    BY <1>1, <2>1, <2>2 DEF WorkerTypeOK
  <2>5. OneCreator'
    BY <1>1, <2>1 DEF OneCreator, Creating
  <2>6. TracesMatch'
    BY <1>1, <1>3, <2>1, <2>2, <2>3 DEF TracesMatch, WorkerTypeOK, Creating
  <2> QED
    BY <1>2, <1>12, <2>4, <2>5, <2>6 DEF BroadcastOrder, WorkerInv
<1>13. CASE SettleJob(r)
  <2>1. QueueInv'
    BY <1>1, <1>2, <1>3, <1>13, ConsumerCallInv DEF SettleJob, ConsumerCall
  <2>2. /\ run' \in [Runs -> Run]
        /\ run'[r].pc = "idle"
        /\ \A q \in Runs \ {r} : run'[q] = run[q]
    BY <1>1, <1>4, <1>13 DEF SettleJob, WorkerTypeOK
  <2> QED
    BY <1>1, <1>13, <2>1, <2>2, HarmlessMoveInv DEF SettleJob
<1>14. CASE CrashRun(r)
  <2>1. /\ run' \in [Runs -> Run]
        /\ run'[r].pc = "idle"
        /\ \A q \in Runs \ {r} : run'[q] = run[q]
    BY <1>1, <1>4, <1>14 DEF CrashRun, WorkerTypeOK
  <2>2. interrupted' \subseteq Orders
    BY <1>1, <1>3, <1>14 DEF CrashRun
  <2> QED
    BY <1>1, <1>2, <1>14, <2>1, <2>2, HarmlessMoveInv DEF CrashRun
<1> QED
  BY <1>5, <1>6, <1>7, <1>8, <1>9, <1>10, <1>11, <1>12, <1>13, <1>14 DEF RunStep

-----------------------------------------------------------------------------

(* WorkerInv is an invariant of the worker with any producer.              *)
LEMMA WorkerInvariance == OrderWorkerSpec => []WorkerInv
<1>1. OrderWorkerInit => WorkerInv
  BY WorkerInitInv DEF OrderWorkerInit
<1>2. WorkerInv /\ [OrderWorkerNext]_orderWorkerVars => WorkerInv'
  <2> SUFFICES ASSUME WorkerInv, [OrderWorkerNext]_orderWorkerVars PROVE WorkerInv'
    OBVIOUS
  <2>1. QueueInv
    BY DEF WorkerInv
  <2>2. CASE AnyProducer
    BY <2>1, <2>2, AddJobInv, WorkerUnchangedInv DEF AnyProducer
  <2>3. CASE WorkerNext
    BY <2>3, WorkerStepInv DEF WorkerNext
  <2>4. CASE QueueMaintenance /\ UNCHANGED workerVars
    BY <2>1, <2>4, QueueMaintenanceInv, WorkerUnchangedInv
  <2>5. CASE UNCHANGED orderWorkerVars
    <3>1. QueueInv'
      BY <2>1, <2>5
      DEF orderWorkerVars, queueVars, QueueInv, QueueTypeOK, JobsCarryOrders, JobExists
    <3> QED
      BY <2>5, <3>1, WorkerUnchangedInv DEF orderWorkerVars
  <2> QED
    BY <2>2, <2>3, <2>4, <2>5 DEF OrderWorkerNext
<1> QED
  BY <1>1, <1>2, PTL DEF OrderWorkerSpec

(* The state of the worker and its queue stays well formed.                *)
THEOREM WorkerTypeCorrect == OrderWorkerSpec => []OrderWorkerTypeOK
<1>1. WorkerInv => OrderWorkerTypeOK
  BY WorkerInvParts
<1> QED
  BY <1>1, WorkerInvariance, PTL

(* No order is shown to its kitchen twice, whatever is redelivered,        *)
(* retried, stalled, superseded, crashed or replayed from the DLQ.         *)
THEOREM NeverShownTwice == OrderWorkerSpec => []NoDoubleDisplay
<1>1. WorkerInv => NoDoubleDisplay
  BY DEF WorkerInv, TracesMatch, NoDoubleDisplay
<1> QED
  BY <1>1, WorkerInvariance, PTL

(* What is shown was logged, and what was logged is stored, once.          *)
THEOREM ShownIsAlwaysRecorded == OrderWorkerSpec => []ShownIsRecorded
<1>1. WorkerInv => ShownIsRecorded
  BY DEF WorkerInv, WorkerTypeOK, TracesMatch, ShownIsRecorded
<1> QED
  BY <1>1, WorkerInvariance, PTL

(* The inductive invariant itself, as TLC checks it: one creator per order *)
(* at a time, with the traces that its position says.                      *)
THEOREM OneCreatorAtATime == OrderWorkerSpec => []DisplayInv
<1>1. WorkerInv => DisplayInv
  BY WorkerInvParts
<1> QED
  BY <1>1, WorkerInvariance, PTL

(* A step that ends no creating run, or notes what it interrupts, and that *)
(* inserts nothing.                                                        *)
LEMMA NothingNewToAnnounce ==
  ASSUME StoredIsAnnouncedUnlessInterrupted, NEW r \in Runs,
         \A q \in Runs \ {r} : run'[q] = run[q],
         UNCHANGED <<rows, shown>>, interrupted \subseteq interrupted',
         run[r].pc \in {"event", "broadcast"} => run[r].order \in interrupted'
  PROVE  StoredIsAnnouncedUnlessInterrupted'
<1> SUFFICES ASSUME NEW o \in Orders, rows[o] > 0
             PROVE  shown[o] = 1 \/ o \in interrupted' \/ \E q \in Runs : Creating(q, o)'
  BY DEF StoredIsAnnouncedUnlessInterrupted
<1>1. CASE shown[o] = 1 \/ o \in interrupted
  BY <1>1
<1>2. ASSUME NEW q \in Runs, Creating(q, o)
      PROVE  o \in interrupted' \/ Creating(q, o)'
  BY <1>2 DEF Creating
<1> QED
  BY <1>1, <1>2 DEF StoredIsAnnouncedUnlessInterrupted

(* An order without a row gets one, from a run that goes on to announce it *)
(* or is noted as interrupted; or a creating run goes on, or announces.    *)
LEMMA CreatorGoesOn ==
  ASSUME WorkerInv, StoredIsAnnouncedUnlessInterrupted, NEW r \in Runs,
         \A q \in Runs \ {r} : run'[q] = run[q],
         NEW o \in Orders, run[r].order = o,
         \A p \in Orders \ {o} : rows'[p] = rows[p] /\ shown'[p] = shown[p],
         interrupted \subseteq interrupted',
         Creating(r, o)' \/ o \in interrupted' \/ shown'[o] = 1
  PROVE  StoredIsAnnouncedUnlessInterrupted'
<1> SUFFICES ASSUME NEW p \in Orders, rows'[p] > 0
             PROVE  shown'[p] = 1 \/ p \in interrupted' \/ \E q \in Runs : Creating(q, p)'
  BY DEF StoredIsAnnouncedUnlessInterrupted
<1>1. CASE p = o
  BY <1>1
<1>2. CASE p # o
  <2>1. shown[p] = 1 \/ p \in interrupted \/ \E q \in Runs : Creating(q, p)
    BY <1>2 DEF StoredIsAnnouncedUnlessInterrupted
  <2>2. ASSUME NEW q \in Runs, Creating(q, p) PROVE Creating(q, p)'
    BY <1>2, <2>2 DEF Creating
  <2> QED
    BY <1>2, <2>1, <2>2
<1> QED
  BY <1>1, <1>2

(* Every step of a worker slot, and its crash, announces what is stored,   *)
(* or leaves it to a live run, or notes the interruption.                  *)
LEMMA WorkerStepAnnounces ==
  ASSUME WorkerInv, StoredIsAnnouncedUnlessInterrupted,
         NEW r \in Runs, RunStep(r) \/ CrashRun(r)
  PROVE  StoredIsAnnouncedUnlessInterrupted'
<1> DEFINE o == run[r].order
<1>1. /\ WorkerTypeOK /\ TracesMatch
      /\ run \in [Runs -> Run] /\ rows \in [Orders -> Nat] /\ shown \in [Orders -> Nat]
      /\ run[r].pc # "idle" => o \in Orders
  BY DEF WorkerInv, WorkerTypeOK, Run, IdleRun
<1>2. \A q \in Runs \ {r} : run'[q] = run[q]
  BY <1>1
  DEF RunStep, CrashRun, StartRun, Translate, InsertOrder, InsertDuplicate, InsertError,
      LogCreated, LogCreatedError, BroadcastOrder, SettleJob, Goto
<1>3. CASE StartRun(r) \/ Translate(r) \/ InsertDuplicate(r) \/ SettleJob(r)
  BY <1>2, <1>3, NothingNewToAnnounce
  DEF StartRun, Translate, InsertDuplicate, SettleJob
<1>4. CASE InsertOrder(r)
  <2>0. PICK w \in Orders : w = o
    BY <1>1, <1>4 DEF InsertOrder
  <2>1. Creating(r, w)'
    <3>1. run'[r].pc = "event" /\ run'[r].order = w
      BY <1>1, <1>4, <2>0, GotoMoves DEF InsertOrder, RunPCs
    <3> QED
      BY <3>1 DEF Creating
  <2>2. \A p \in Orders \ {w} : rows'[p] = rows[p] /\ shown'[p] = shown[p]
    BY <1>1, <1>4, <2>0 DEF InsertOrder
  <2>3. interrupted' = interrupted
    BY <1>4 DEF InsertOrder
  <2> QED
    BY <1>2, <2>0, <2>1, <2>2, <2>3, CreatorGoesOn
<1>5. CASE InsertError(r)
  <2>1. CASE UNCHANGED <<rows, interrupted>>
    BY <1>2, <1>5, <2>1, NothingNewToAnnounce DEF InsertError
  <2>2. CASE /\ rows' = [rows EXCEPT ![o] = @ + 1]
             /\ interrupted' = interrupted \cup {o}
    <3>1. o \in Orders /\ \A p \in Orders \ {o} : rows'[p] = rows[p] /\ shown'[p] = shown[p]
      BY <1>1, <1>5, <2>2 DEF InsertError
    <3> QED
      BY <1>2, <2>2, <3>1, CreatorGoesOn
  <2> QED
    BY <1>5, <2>1, <2>2 DEF InsertError
<1>6. CASE LogCreated(r)
  <2>0. PICK w \in Orders : w = o
    BY <1>1, <1>6 DEF LogCreated
  <2>1. Creating(r, w)'
    <3>1. run'[r].pc = "broadcast" /\ run'[r].order = w
      BY <1>1, <1>6, <2>0, GotoMoves DEF LogCreated, RunPCs
    <3> QED
      BY <3>1 DEF Creating
  <2>2. \A p \in Orders \ {w} : rows'[p] = rows[p] /\ shown'[p] = shown[p]
    BY <1>1, <1>6, <2>0 DEF LogCreated
  <2>3. interrupted' = interrupted
    BY <1>6 DEF LogCreated
  <2> QED
    BY <1>2, <2>0, <2>1, <2>2, <2>3, CreatorGoesOn
<1>7. CASE LogCreatedError(r)
  BY <1>2, <1>7, NothingNewToAnnounce DEF LogCreatedError
<1>8. CASE BroadcastOrder(r)
  <2>1. o \in Orders /\ shown[o] = 0
    BY <1>1, <1>8 DEF BroadcastOrder, TracesMatch
  <2>2. shown'[o] = 1 /\ \A p \in Orders \ {o} : rows'[p] = rows[p] /\ shown'[p] = shown[p]
    BY <1>1, <1>8, <2>1 DEF BroadcastOrder
  <2>3. interrupted' = interrupted
    BY <1>8 DEF BroadcastOrder
  <2> QED
    BY <1>2, <2>1, <2>2, <2>3, CreatorGoesOn
<1>9. CASE CrashRun(r)
  BY <1>2, <1>9, NothingNewToAnnounce DEF CrashRun
<1> QED
  BY <1>3, <1>4, <1>5, <1>6, <1>7, <1>8, <1>9 DEF RunStep

(* A stored order was announced, or the run that stored it still is about  *)
(* to announce it, or that run was interrupted in between: the duplicates, *)
(* retries, stalls and lost locks of the code lose no announcement.        *)
THEOREM StoredIsAlwaysAnnounced == OrderWorkerSpec => []StoredIsAnnouncedUnlessInterrupted
<1>1. OrderWorkerInit => StoredIsAnnouncedUnlessInterrupted
  BY DEF OrderWorkerInit, WorkerInit, StoredIsAnnouncedUnlessInterrupted
<1>2. WorkerInv /\ StoredIsAnnouncedUnlessInterrupted /\ [OrderWorkerNext]_orderWorkerVars
        => StoredIsAnnouncedUnlessInterrupted'
  <2>1. UNCHANGED workerVars /\ StoredIsAnnouncedUnlessInterrupted
          => StoredIsAnnouncedUnlessInterrupted'
    BY DEF workerVars, StoredIsAnnouncedUnlessInterrupted, Creating
  <2> QED
    BY <2>1, WorkerStepAnnounces DEF OrderWorkerNext, AnyProducer, WorkerNext, orderWorkerVars
<1> QED
  BY <1>1, <1>2, WorkerInvariance, PTL DEF OrderWorkerSpec

-----------------------------------------------------------------------------
(* Durability: a job completes only when its order is in the database.     *)

(* A run that is about to complete its job has its order's row.            *)
DoneIsStored == \A r \in Runs : run[r].pc = "done" => rows[run[r].order] = 1

(* A run that holds its job's lock works on the order the job carries.     *)
LockedRunsMatch ==
  \A r \in Runs :
    run[r].pc # "idle" /\ HoldsLock(r, run[r].job) => job[run[r].job].order = run[r].order

StoreInv == CompletedIsStored /\ DoneIsStored /\ LockedRunsMatch

(* What an operation that is not a worker slot's may do to job id j.       *)
Kept(j) == job'[j] = job[j]

Added(j) == ~JobExists(j) /\ \E o \in Orders : job'[j] = FreshJob(o)

Requeued(j) ==
  /\ JobExists(j)
  /\ job'[j].order = job[j].order
  /\ job'[j].state \in {"waiting", "delayed", "failed"}

Dropped(j) ==
  /\ job'[j] = AbsentJob
  /\ job[j].state \in {"none", "completed"} \/ job[j].order \in disposed'

Maintained(j) == Kept(j) \/ Requeued(j) \/ Dropped(j)

Handled(j) == Added(j) \/ Maintained(j)

-----------------------------------------------------------------------------

(* Queue.add leaves all jobs alone but an absent one.                      *)
LEMMA AddJobHandles ==
  ASSUME QueueInv, NEW o \in Orders, AddJob(o)
  PROVE  disposed \subseteq disposed' /\ \A j \in JobIds : Handled(j)
  BY QueueAssumption
  DEF QueueInv, QueueTypeOK, AddJob, Handled, Maintained, Kept, Added, JobExists

(* So do backoffs, the stalled-job check, expiry and the DLQ endpoints,    *)
(* but for requeueing a job or dropping it on record.                      *)
LEMMA MaintenanceHandles ==
  ASSUME QueueInv, QueueMaintenance
  PROVE  disposed \subseteq disposed' /\ \A j \in JobIds : Maintained(j)
<1>1. job \in [JobIds -> Job] /\ dlq \in [Operators -> DlqRequest]
  BY DEF QueueInv, QueueTypeOK
<1>2. ASSUME NEW j \in JobIds, NEW n, SetJob(j, n),
             \/ JobExists(j) /\ n.order = job[j].order
                             /\ n.state \in {"waiting", "delayed", "failed"}
             \/ n = AbsentJob /\ (job[j].state \in {"none", "completed"}
                                    \/ job[j].order \in disposed')
      PROVE  \A i \in JobIds : Maintained(i)
  <2> SUFFICES ASSUME NEW i \in JobIds PROVE Maintained(i)
    OBVIOUS
  <2>1. CASE i = j
    BY <1>1, <1>2, <2>1 DEF SetJob, Maintained, Requeued, Dropped
  <2>2. CASE i # j
    BY <1>1, <1>2, <2>2 DEF SetJob, Maintained, Kept
  <2> QED
    BY <2>1, <2>2
<1>3. ASSUME UNCHANGED job PROVE \A i \in JobIds : Maintained(i)
  BY <1>3 DEF Maintained, Kept
<1>4. ASSUME NEW j \in JobIds
      PROVE  /\ [job[j] EXCEPT !.state = "waiting"].order = job[j].order
             /\ [job[j] EXCEPT !.state = "waiting"].state = "waiting"
  BY <1>1 DEF Job
<1>5. ASSUME NEW j \in JobIds, PromoteJob(j) \/ StallJob(j) \/ ExpireJob(j)
      PROVE  disposed \subseteq disposed' /\ \A i \in JobIds : Maintained(i)
  <2>1. CASE PromoteJob(j)
    BY <1>2, <1>4, <2>1 DEF PromoteJob, JobExists
  <2>2. CASE StallJob(j)
    <3> DEFINE more == job[j].stalls + 1
               n1 == [job[j] EXCEPT !.state = "waiting", !.lock = NoRun, !.stalls = more]
               n2 == [job[j] EXCEPT !.state = "failed", !.lock = NoRun]
    <3>1. n1.order = job[j].order /\ n1.state = "waiting"
      BY <1>1 DEF Job
    <3>2. n2.order = job[j].order /\ n2.state = "failed"
      BY <1>1 DEF Job
    <3>3. JobExists(j) /\ disposed' = disposed /\ (SetJob(j, n1) \/ SetJob(j, n2))
      BY <2>2 DEF StallJob, JobExists
    <3> HIDE DEF n1, n2
    <3> QED
      BY <1>2, <3>1, <3>2, <3>3
  <2>3. CASE ExpireJob(j)
    BY <1>2, <2>3 DEF ExpireJob
  <2> QED
    BY <1>5, <2>1, <2>2, <2>3
<1>6. ASSUME NEW a \in Operators, NEW j \in JobIds, NEW op \in {"retry", "discard"},
             DlqCheck(a, j, op)
      PROVE  disposed \subseteq disposed' /\ \A i \in JobIds : Maintained(i)
  BY <1>3, <1>6 DEF DlqCheck
<1>7. ASSUME NEW a \in Operators, DlqRetry(a) \/ DlqDiscard(a)
      PROVE  disposed \subseteq disposed' /\ \A i \in JobIds : Maintained(i)
  <2>1. dlq[a].job \in JobIds
    BY <1>1, <1>7 DEF DlqRetry, DlqDiscard, DlqRequest, NoRequest
  <2>2. CASE DlqRetry(a)
    BY <1>2, <1>3, <1>4, <2>1, <2>2 DEF DlqRetry, JobExists
  <2>3. CASE DlqDiscard(a)
    BY <1>2, <1>3, <2>1, <2>3 DEF DlqDiscard
  <2> QED
    BY <1>7, <2>2, <2>3
<1> QED
  BY <1>5, <1>6, <1>7 DEF QueueMaintenance

-----------------------------------------------------------------------------

(* Nothing outside the worker makes a job active or completed.             *)
LEMMA HandledKeepsStoreInv ==
  ASSUME WorkerInv, StoreInv, UNCHANGED workerVars, \A j \in JobIds : Handled(j)
  PROVE  StoreInv'
<1>1. ASSUME NEW j \in JobIds, job'[j].state \in {"active", "completed"}
      PROVE  job'[j] = job[j]
  <2>1. CASE Added(j)
    <3> PICK o \in Orders : job'[j] = FreshJob(o)
      BY <2>1 DEF Added
    <3>1. job'[j].state = "waiting"
      BY DEF FreshJob
    <3> QED
      BY <1>1, <3>1
  <2>2. CASE Requeued(j)
    BY <1>1, <2>2 DEF Requeued
  <2>3. CASE Dropped(j)
    <3>1. job'[j].state = "none"
      BY <2>3 DEF Dropped, AbsentJob
    <3> QED
      BY <1>1, <3>1
  <2> QED
    BY <1>1, <2>1, <2>2, <2>3 DEF Handled, Maintained, Kept
<1>2. CompletedIsStored'
  BY <1>1 DEF StoreInv, CompletedIsStored, workerVars
<1>3. DoneIsStored'
  BY DEF StoreInv, DoneIsStored, workerVars
<1>4. LockedRunsMatch'
  <2> SUFFICES ASSUME NEW r \in Runs, run[r].pc # "idle", HoldsLock(r, run[r].job)'
               PROVE  job'[run[r].job].order = run[r].order
    BY DEF LockedRunsMatch, workerVars
  <2>1. run[r].job \in JobIds
    BY DEF WorkerInv, WorkerTypeOK, Run, IdleRun
  <2> QED
    BY <1>1, <2>1 DEF HoldsLock, StoreInv, LockedRunsMatch, workerVars
<1> QED
  BY <1>2, <1>3, <1>4 DEF StoreInv

(* A run moves on while the queue stays, or ends; rows only appear.        *)
LEMMA RunMoveKeepsStoreInv ==
  ASSUME WorkerInv, WorkerInv', StoreInv, UNCHANGED job, NEW r \in Runs,
         \A q \in Runs \ {r} : run'[q] = run[q],
         \/ run'[r].pc = "idle"
         \/ run'[r].job = run[r].job /\ run'[r].order = run[r].order /\ run[r].pc # "idle",
         run'[r].pc = "done" => rows'[run'[r].order] = 1,
         \A o \in Orders : rows[o] = 1 => rows'[o] = 1
  PROVE  StoreInv'
<1>1. CompletedIsStored'
  <2>1. \A j \in JobIds : job[j].state = "completed" => job[j].order \in Orders
    BY DEF WorkerInv, QueueInv, JobsCarryOrders, JobExists
  <2> QED
    BY <2>1 DEF StoreInv, CompletedIsStored
<1>2. DoneIsStored'
  <2> SUFFICES ASSUME NEW q \in Runs, run'[q].pc = "done" PROVE rows'[run'[q].order] = 1
    BY DEF DoneIsStored
  <2>1. q # r => run[q].order \in Orders /\ run'[q] = run[q]
    BY DEF WorkerInv, WorkerTypeOK, Run, IdleRun
  <2> QED
    BY <2>1 DEF StoreInv, DoneIsStored
<1>3. LockedRunsMatch'
  BY DEF StoreInv, LockedRunsMatch, HoldsLock
<1> QED
  BY <1>1, <1>2, <1>3 DEF StoreInv

(* A run that takes a step of its own keeps its job and its order.         *)
LEMMA GotoKeepsTask ==
  ASSUME WorkerTypeOK, NEW r \in Runs, run[r].pc # "idle",
         NEW pc \in RunPCs \ {"idle"}, Goto(r, pc)
  PROVE  /\ run'[r].pc = pc /\ run'[r].job = run[r].job /\ run'[r].order = run[r].order
         /\ \A q \in Runs \ {r} : run'[q] = run[q]
         /\ run[r].order \in Orders
<1>1. run[r] \in [pc: RunPCs \ {"idle"}, job: JobIds, order: Orders]
  BY DEF WorkerTypeOK, Run, IdleRun
<1> QED
  BY <1>1 DEF WorkerTypeOK, Run, Goto

(* A job is taken by one slot, which works on the order it carries.        *)
LEMMA StartRunKeepsStoreInv ==
  ASSUME WorkerInv, StoreInv, NEW r \in Runs, StartRun(r)
  PROVE  StoreInv'
<1>1. job \in [JobIds -> Job] /\ run \in [Runs -> Run]
  BY DEF WorkerInv, QueueInv, QueueTypeOK, WorkerTypeOK
<1>2. PICK j \in JobIds :
        /\ TakeJob(r, j)
        /\ run' = [run EXCEPT ![r] = [pc |-> "translate", job |-> j, order |-> job[j].order]]
  BY DEF StartRun
<1>3. /\ job'[j].state = "active" /\ job'[j].lock = r /\ job'[j].order = job[j].order
      /\ \A i \in JobIds \ {j} : job'[i] = job[i]
  BY <1>1, <1>2 DEF TakeJob, SetJob, Job
<1>4. /\ run'[r].pc = "translate" /\ run'[r].job = j /\ run'[r].order = job[j].order
      /\ \A q \in Runs \ {r} : run'[q] = run[q]
  BY <1>1, <1>2
<1>5. rows' = rows
  BY DEF StartRun
<1>6. CompletedIsStored'
  <2> SUFFICES ASSUME NEW i \in JobIds, job'[i].state = "completed"
               PROVE  rows'[job'[i].order] = 1
    BY DEF CompletedIsStored
  <2>1. i # j
    BY <1>3
  <2> QED
    BY <1>3, <1>5, <2>1 DEF StoreInv, CompletedIsStored
<1>7. DoneIsStored'
  <2> SUFFICES ASSUME NEW q \in Runs, run'[q].pc = "done" PROVE rows'[run'[q].order] = 1
    BY DEF DoneIsStored
  <2>1. q # r
    BY <1>4
  <2> QED
    BY <1>4, <1>5, <2>1 DEF StoreInv, DoneIsStored
<1>8. LockedRunsMatch'
  <2> SUFFICES ASSUME NEW q \in Runs, run'[q].pc # "idle", HoldsLock(q, run[q].job)'
               PROVE  job'[run'[q].job].order = run'[q].order
    BY DEF LockedRunsMatch
  <2>1. CASE q = r
    BY <1>3, <1>4, <2>1
  <2>2. CASE q # r
    <3>1. run'[q] = run[q] /\ run[q].job \in JobIds
      BY <1>1, <1>4, <2>2 DEF Run, IdleRun
    <3>2. run[q].job # j
      BY <1>3, <2>2, <3>1 DEF HoldsLock
    <3>3. job'[run[q].job] = job[run[q].job]
      BY <1>3, <3>1, <3>2
    <3> QED
      BY <3>1, <3>3 DEF StoreInv, LockedRunsMatch, HoldsLock
  <2> QED
    BY <2>1, <2>2
<1> QED
  BY <1>6, <1>7, <1>8 DEF StoreInv

(* A job is completed by a run of its own order, which is stored.          *)
LEMMA SettleJobKeepsStoreInv ==
  ASSUME WorkerInv, StoreInv, NEW r \in Runs, SettleJob(r)
  PROVE  StoreInv'
<1> DEFINE j == run[r].job
<1>1. job \in [JobIds -> Job] /\ run \in [Runs -> Run] /\ run[r].pc # "idle"
  BY DEF WorkerInv, QueueInv, QueueTypeOK, WorkerTypeOK, SettleJob
<1>2. j \in JobIds
  BY <1>1 DEF Run, IdleRun
<1>3. /\ run'[r].pc = "idle" /\ rows' = rows
      /\ \A q \in Runs \ {r} : run'[q] = run[q]
  BY <1>1 DEF SettleJob, IdleRun
<1>4. /\ \A i \in JobIds \ {j} : job'[i] = job[i]
      /\ \/ job'[j] = job[j]
         \/ job'[j].state = "completed" /\ HoldsLock(r, j) /\ run[r].pc = "done"
            /\ job'[j].order = job[j].order
         \/ job'[j].state \in {"delayed", "failed"}
  <2>1. CASE run[r].pc = "done" /\ CompleteJob(r, j)
    BY <1>1, <1>2, <2>1 DEF CompleteJob, SetJob, Job
  <2>2. CASE run[r].pc = "error" /\ FailJob(r, j)
    BY <1>1, <1>2, <2>2 DEF FailJob, SetJob, Job
  <2>3. CASE UNCHANGED queueVars
    BY <2>3 DEF queueVars
  <2> QED
    BY <2>1, <2>2, <2>3 DEF SettleJob
<1>5. CompletedIsStored'
  <2> SUFFICES ASSUME NEW i \in JobIds, job'[i].state = "completed"
               PROVE  rows[job'[i].order] = 1
    BY <1>3 DEF CompletedIsStored
  <2>1. CASE job'[i] = job[i]
    BY <2>1 DEF StoreInv, CompletedIsStored
  <2>2. CASE job'[i] # job[i]
    <3>1. i = j /\ HoldsLock(r, j) /\ run[r].pc = "done" /\ job'[j].order = job[j].order
      BY <1>4, <2>2
    <3>2. job[j].order = run[r].order
      BY <1>1, <3>1 DEF StoreInv, LockedRunsMatch
    <3> QED
      BY <3>1, <3>2 DEF StoreInv, DoneIsStored
  <2> QED
    BY <2>1, <2>2
<1>6. DoneIsStored'
  <2> SUFFICES ASSUME NEW q \in Runs, run'[q].pc = "done" PROVE rows'[run'[q].order] = 1
    BY DEF DoneIsStored
  <2> QED
    BY <1>3 DEF StoreInv, DoneIsStored
<1>7. LockedRunsMatch'
  <2> SUFFICES ASSUME NEW q \in Runs, run'[q].pc # "idle", HoldsLock(q, run[q].job)'
               PROVE  job'[run'[q].job].order = run'[q].order
    BY DEF LockedRunsMatch
  <2>1. run'[q] = run[q] /\ run[q].job \in JobIds
    BY <1>1, <1>3 DEF Run, IdleRun
  <2>2. job'[run[q].job] = job[run[q].job]
    BY <1>4, <2>1 DEF HoldsLock
  <2> QED
    BY <2>1, <2>2 DEF StoreInv, LockedRunsMatch, HoldsLock
<1> QED
  BY <1>5, <1>6, <1>7 DEF StoreInv

(* Every step of a worker slot, and the crash of its process.              *)
LEMMA WorkerStepKeepsStoreInv ==
  ASSUME WorkerInv, StoreInv, NEW r \in Runs, RunStep(r) \/ CrashRun(r)
  PROVE  StoreInv'
<1> DEFINE o == run[r].order
<1>1. WorkerTypeOK /\ WorkerInv' /\ TracesMatch
  BY WorkerStepInv DEF WorkerInv
<1>2. \A p \in Orders : rows[p] \in {0, 1}
  BY <1>1 DEF TracesMatch
<1>3. ASSUME UNCHANGED queueVars, run[r].pc # "idle",
             NEW pc \in RunPCs \ {"idle", "done"}, Goto(r, pc),
             rows' = rows \/ rows' = [rows EXCEPT ![o] = 1]
      PROVE  StoreInv'
  <2>1. /\ run'[r].pc = pc /\ run'[r].job = run[r].job /\ run'[r].order = o
        /\ \A q \in Runs \ {r} : run'[q] = run[q]
    BY <1>1, <1>3, GotoKeepsTask
  <2>2. \A p \in Orders : rows[p] = 1 => rows'[p] = 1
    BY <1>1, <1>3 DEF WorkerTypeOK
  <2>3. job' = job
    BY <1>3 DEF queueVars
  <2> QED
    BY <1>1, <1>3, <2>1, <2>2, <2>3, RunMoveKeepsStoreInv
<1>4. ASSUME UNCHANGED queueVars, run[r].pc # "idle", Goto(r, "done"),
             rows' = rows, rows[o] = 1
      PROVE  StoreInv'
  <2>1. /\ run'[r].pc = "done" /\ run'[r].job = run[r].job /\ run'[r].order = o
        /\ \A q \in Runs \ {r} : run'[q] = run[q]
    BY <1>1, <1>4, GotoKeepsTask DEF RunPCs
  <2>2. job' = job
    BY <1>4 DEF queueVars
  <2> QED
    BY <1>1, <1>4, <2>1, <2>2, RunMoveKeepsStoreInv
<1>5. CASE StartRun(r)
  BY <1>5, StartRunKeepsStoreInv
<1>6. CASE Translate(r)
  BY <1>3, <1>6 DEF Translate, RunPCs
<1>7. CASE InsertOrder(r) \/ InsertError(r)
  <2>1. rows[o] = 0 /\ rows' = [rows EXCEPT ![o] = @ + 1] => rows' = [rows EXCEPT ![o] = 1]
    OBVIOUS
  <2> QED
    BY <1>3, <1>7, <2>1 DEF InsertOrder, InsertError, RunPCs
<1>8. CASE InsertDuplicate(r)
  <2>1. o \in Orders /\ rows[o] > 0
    BY <1>1, <1>8 DEF InsertDuplicate, WorkerTypeOK, Run, IdleRun
  <2>2. rows[o] = 1
    BY <1>2, <2>1
  <2> QED
    BY <1>4, <1>8, <2>2 DEF InsertDuplicate
<1>9. CASE LogCreated(r) \/ LogCreatedError(r)
  BY <1>3, <1>9 DEF LogCreated, LogCreatedError, RunPCs
<1>10. CASE BroadcastOrder(r)
  <2>1. o \in Orders
    BY <1>1, <1>10 DEF BroadcastOrder, WorkerTypeOK, Run, IdleRun
  <2>2. rows[o] = 1
    BY <1>1, <1>10, <2>1 DEF BroadcastOrder, TracesMatch
  <2> QED
    BY <1>4, <1>10, <2>2 DEF BroadcastOrder
<1>11. CASE SettleJob(r)
  BY <1>11, SettleJobKeepsStoreInv
<1>12. CASE CrashRun(r)
  <2>1. /\ run'[r].pc = "idle" /\ rows' = rows /\ job' = job
        /\ \A q \in Runs \ {r} : run'[q] = run[q]
    BY <1>1, <1>12 DEF CrashRun, WorkerTypeOK, IdleRun, queueVars
  <2> QED
    BY <1>1, <2>1, RunMoveKeepsStoreInv
<1> QED
  BY <1>5, <1>6, <1>7, <1>8, <1>9, <1>10, <1>11, <1>12 DEF RunStep

-----------------------------------------------------------------------------

(* StoreInv is an invariant of the worker with any producer.               *)
LEMMA StoreInvariance == OrderWorkerSpec => []StoreInv
<1>1. OrderWorkerInit => StoreInv
  BY DEF OrderWorkerInit, QueueInit, WorkerInit, StoreInv, CompletedIsStored,
         DoneIsStored, LockedRunsMatch, AbsentJob, IdleRun
<1>2. WorkerInv /\ StoreInv /\ [OrderWorkerNext]_orderWorkerVars => StoreInv'
  <2> SUFFICES ASSUME WorkerInv, StoreInv, [OrderWorkerNext]_orderWorkerVars
               PROVE  StoreInv'
    OBVIOUS
  <2>1. QueueInv
    BY DEF WorkerInv
  <2>2. CASE AnyProducer
    BY <2>1, <2>2, AddJobHandles, HandledKeepsStoreInv DEF AnyProducer
  <2>3. CASE WorkerNext
    BY <2>3, WorkerStepKeepsStoreInv DEF WorkerNext
  <2>4. CASE QueueMaintenance /\ UNCHANGED workerVars
    BY <2>1, <2>4, MaintenanceHandles, HandledKeepsStoreInv DEF Handled
  <2>5. CASE UNCHANGED orderWorkerVars
    BY <2>5, HandledKeepsStoreInv DEF orderWorkerVars, queueVars, Handled, Maintained, Kept
  <2> QED
    BY <2>2, <2>3, <2>4, <2>5 DEF OrderWorkerNext
<1> QED
  BY <1>1, <1>2, WorkerInvariance, PTL DEF OrderWorkerSpec

(* A job BullMQ calls completed has its order in the database, even when   *)
(* it was completed by a run other than the one that inserted the row.     *)
THEOREM CompletedIsAlwaysStored == OrderWorkerSpec => []CompletedIsStored
<1>1. StoreInv => CompletedIsStored
  BY DEF StoreInv
<1> QED
  BY <1>1, StoreInvariance, PTL

=============================================================================
