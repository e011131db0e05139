------------------------------ MODULE JobQueue ------------------------------
(***************************************************************************)
(* The BullMQ queue "ingestion" as the backend uses it: what Queue.add     *)
(* does with the options of IngestionProducer.enqueue, what the worker     *)
(* library does around IngestionProcessor.process (locks, retries with     *)
(* backoff, stalled jobs), and the dead-letter endpoints of DlqController, *)
(* which read a job's state and act on it in two separate Redis calls.     *)
(*                                                                         *)
(* Every BullMQ call is one Lua script in Redis, so it is one action here. *)
(* The position of a job in the wait list and the length of a delay are    *)
(* abstracted: any waiting job may be taken, a delay ends at any time.     *)
(***************************************************************************)
EXTENDS Naturals, FiniteSets

CONSTANTS
  Orders,       \* dedupe keys "platform:orderId" of the orders in play
  JobIds,       \* custom job ids, the dedupe keys with ':' replaced by '_'
  JobIdOf,      \* the replacement, a function that need not be injective
  Runs,         \* worker slots; a slot's name is also its lock token
  Operators,    \* concurrent requests to the DLQ endpoints
  MaxAttempts,  \* the "attempts" option of the producer (5 in the code)
  MaxStalled,   \* BullMQ's maxStalledCount (its default, 1)
  NoOrder, NoRun, NoJob

ASSUME QueueAssumption ==
  /\ JobIdOf \in [Orders -> JobIds]
  /\ MaxAttempts \in Nat \ {0}
  /\ MaxStalled \in Nat
  /\ NoOrder \notin Orders
  /\ NoRun \notin Runs
  /\ NoJob \notin JobIds

VARIABLES
  job,       \* job[j]: the hash and the list membership of job id j
  dlq,       \* dlq[a]: what the DLQ request a has checked and is about to do
  disposed   \* history: orders whose unfinished job was discarded or expired

queueVars == <<job, dlq, disposed>>

JobStates == {"none", "waiting", "active", "delayed", "completed", "failed"}

Job == [state: JobStates, order: Orders \cup {NoOrder},
        attempts: 0..MaxAttempts, stalls: 0..MaxStalled,
        lock: Runs \cup {NoRun}]

AbsentJob == [state |-> "none", order |-> NoOrder, attempts |-> 0,
              stalls |-> 0, lock |-> NoRun]

FreshJob(o) == [state |-> "waiting", order |-> o, attempts |-> 0,
                stalls |-> 0, lock |-> NoRun]

NoRequest == [op |-> "none", job |-> NoJob]

DlqRequest == {NoRequest} \cup [op: {"retry", "discard"}, job: JobIds]

QueueInit ==
  /\ job = [j \in JobIds |-> AbsentJob]
  /\ dlq = [a \in Operators |-> NoRequest]
  /\ disposed = {}

-----------------------------------------------------------------------------

JobExists(j) == job[j].state # "none"

WaitingJobs == {j \in JobIds : job[j].state = "waiting"}

HoldsLock(r, j) == job[j].state = "active" /\ job[j].lock = r

SetJob(j, newJob) == job' = [job EXCEPT ![j] = newJob]

(* Queue.add with a custom job id: a job whose id already exists, in any   *)
(* state, is left alone and no error is reported.                          *)
AddJob(o) ==
  LET j == JobIdOf[o]
  IN  /\ job' = IF JobExists(j) THEN job ELSE [job EXCEPT ![j] = FreshJob(o)]
      /\ UNCHANGED <<dlq, disposed>>

(* A worker slot fetches a job and locks it with its own token.            *)
TakeJob(r, j) ==
  /\ job[j].state = "waiting"
  /\ SetJob(j, [job[j] EXCEPT !.state = "active", !.lock = r])
  /\ UNCHANGED <<dlq, disposed>>

(* moveToFinished refuses a job whose lock the caller does not hold.       *)
CompleteJob(r, j) ==
  /\ HoldsLock(r, j)
  /\ SetJob(j, [job[j] EXCEPT !.state = "completed", !.lock = NoRun])
  /\ UNCHANGED <<dlq, disposed>>

(* Defect: a failed attempt is always counted, whatever the limit.         *)
FailJobUncapped(r, j) ==
  /\ HoldsLock(r, j)
  /\ SetJob(j, [job[j] EXCEPT !.state = "failed", !.attempts = @ + 1, !.lock = NoRun])
  /\ UNCHANGED <<dlq, disposed>>

(* Defect: the number of attempts has no limit.                            *)
FailJobForever(r, j) ==
  /\ HoldsLock(r, j)
  /\ SetJob(j, [job[j] EXCEPT !.state = "delayed", !.lock = NoRun])
  /\ UNCHANGED <<dlq, disposed>>

(* An attempt failed: back off and retry while attempts remain, else the   *)
(* dead-letter set. A DLQ retry keeps attemptsMade, so it buys one attempt:*)
(* the count then goes on past MaxAttempts, and is kept at MaxAttempts     *)
(* here, since only whether it is below the limit decides anything.        *)
FailJob(r, j) ==
  LET made == job[j].attempts + 1
  IN  /\ HoldsLock(r, j)
      /\ IF made < MaxAttempts
         THEN SetJob(j, [job[j] EXCEPT !.state = "delayed", !.lock = NoRun,
                                       !.attempts = made])
         ELSE SetJob(j, [job[j] EXCEPT !.state = "failed", !.lock = NoRun,
                                       !.attempts = MaxAttempts])
      /\ UNCHANGED <<dlq, disposed>>

(* The backoff of a delayed job has elapsed.                               *)
PromoteJob(j) ==
  /\ job[j].state = "delayed"
  /\ SetJob(j, [job[j] EXCEPT !.state = "waiting"])
  /\ UNCHANGED <<dlq, disposed>>

(* The lock of an active job expired (its process died, or is too slow to  *)
(* renew it) and the stalled-job check hands it out again, or gives it up. *)
StallJob(j) ==
  /\ job[j].state = "active"
  /\ IF job[j].stalls < MaxStalled
     THEN SetJob(j, [job[j] EXCEPT !.state = "waiting", !.lock = NoRun,
                                   !.stalls = @ + 1])
     ELSE SetJob(j, [job[j] EXCEPT !.state = "failed", !.lock = NoRun])
  /\ UNCHANGED <<dlq, disposed>>

(* removeOnComplete and removeOnFail: a finished job is forgotten.         *)
ExpireJob(j) ==
  /\ job[j].state \in {"completed", "failed"}
  /\ SetJob(j, AbsentJob)
  /\ disposed' = IF job[j].state = "failed" THEN disposed \cup {job[j].order}
                                            ELSE disposed
  /\ UNCHANGED dlq

-----------------------------------------------------------------------------
(* DlqController. A request that finds no failed job answers 404 and       *)
(* changes nothing, so only the successful check is an action.             *)

DlqCheck(a, j, op) ==
  /\ dlq[a] = NoRequest
  /\ job[j].state = "failed"
  /\ dlq' = [dlq EXCEPT ![a] = [op |-> op, job |-> j]]
  /\ UNCHANGED <<job, disposed>>

(* job.retry('failed') raises an error unless the job is still failed.     *)
DlqRetry(a) ==
  LET j == dlq[a].job
  IN  /\ dlq[a].op = "retry"
      /\ IF job[j].state = "failed"
         THEN SetJob(j, [job[j] EXCEPT !.state = "waiting"])
         ELSE UNCHANGED job
      /\ dlq' = [dlq EXCEPT ![a] = NoRequest]
      /\ UNCHANGED disposed

(* job.remove() deletes the job in whatever state it is by now; only a     *)
(* lock, that is an active job, makes it raise an error instead.           *)
DlqDiscard(a) ==
  LET j == dlq[a].job
  IN  /\ dlq[a].op = "discard"
      /\ dlq' = [dlq EXCEPT ![a] = NoRequest]
      /\ \/ /\ job[j].state = "active"
            /\ UNCHANGED <<job, disposed>>
         \/ /\ job[j].state # "active"
            /\ SetJob(j, AbsentJob)
            /\ disposed' = IF job[j].state \in {"none", "completed"} THEN disposed
                           ELSE disposed \cup {job[j].order}

-----------------------------------------------------------------------------
(* What the queue, its maintenance and its operators do on their own: the  *)
(* part every composition shares.                                          *)

QueueMaintenance ==
  \/ \E j \in JobIds : PromoteJob(j) \/ StallJob(j) \/ ExpireJob(j)
  \/ \E a \in Operators :
       \/ \E j \in JobIds, op \in {"retry", "discard"} : DlqCheck(a, j, op)
       \/ DlqRetry(a) \/ DlqDiscard(a)

-----------------------------------------------------------------------------

(* The queue's state is well formed.                                       *)
QueueTypeOK ==
  /\ job \in [JobIds -> Job]
  /\ dlq \in [Operators -> DlqRequest]
  /\ disposed \subseteq Orders

(* A job that exists carries an order, and one that maps to its job id.    *)
JobsCarryOrders ==
  \A j \in JobIds :
    JobExists(j) => job[j].order \in Orders /\ JobIdOf[job[j].order] = j

=============================================================================
