-------------------------- MODULE WebhookFrontDoor --------------------------
(***************************************************************************)
(* The producer side: IdempotencyInterceptor around                        *)
(* IngestionController.ingest, which calls IngestionProducer.enqueue. A    *)
(* delivery of a webhook claims the order's Redis marker with SET NX PX,   *)
(* checks the depth of the queue, adds the job and answers 202; it answers *)
(* 200 when the marker was there, and an error after firing off the        *)
(* marker's deletion when the enqueue failed.                              *)
(*                                                                         *)
(* Deliveries of one order overlap (the platforms retry on a timeout, and  *)
(* the service runs in several instances), and each Redis call is a step   *)
(* of its own. A reply can be lost: the client then sends the command      *)
(* again, at most MaxResends times (ioredis, maxRetriesPerRequest).        *)
(* A webhook refused before the interceptor's SET (401, 400) changes       *)
(* nothing and is not an action.                                           *)
(***************************************************************************)
EXTENDS JobQueue

CONSTANTS
  Deliveries,  \* concurrent webhook requests the service can be handling
  FailOpen,    \* IDEMPOTENCY_FAIL_OPEN
  MaxDepth,    \* INGESTION_QUEUE_MAX_DEPTH; above |JobIds| it never bites
  MaxResends   \* times a command is sent again after a lost reply

ASSUME FrontDoorAssumption ==
  /\ FailOpen \in BOOLEAN
  /\ MaxDepth \in Nat
  /\ MaxResends \in Nat

VARIABLES
  delivery,  \* delivery[d]: where request slot d is, for which order
  marker,    \* orders whose key idem:<dedupeKey> exists in Redis
  accepted,  \* history: orders answered 202
  deduped,   \* history: orders answered 200 "duplicate"
  enqueued,  \* history: orders for which Queue.add created a job
  mishap     \* history: orders whose claim met a crash or a lost command

frontVars == <<delivery, marker, accepted, deduped, enqueued, mishap>>

DeliveryPCs == {"idle", "set", "depth", "add", "accept", "duplicate", "rollback"}

IdleDelivery == [pc |-> "idle", order |-> NoOrder, owned |-> FALSE,
                 claimed |-> FALSE, resends |-> 0]

Delivery ==
  {IdleDelivery} \cup [pc: DeliveryPCs \ {"idle"}, order: Orders, owned: BOOLEAN,
                      claimed: BOOLEAN, resends: 0..MaxResends]

FrontInit ==
  /\ delivery = [d \in Deliveries |-> IdleDelivery]
  /\ marker = {}
  /\ accepted = {} /\ deduped = {} /\ enqueued = {} /\ mishap = {}

-----------------------------------------------------------------------------

At(d, pc) == delivery[d].pc = pc

SetDelivery(d, newDelivery) == delivery' = [delivery EXCEPT ![d] = newDelivery]

(* The request goes on to its next step.                                   *)
Proceed(d, pc) == SetDelivery(d, [delivery[d] EXCEPT !.pc = pc])

(* The request has been answered: the slot is free for another delivery.   *)
Answered(d) == SetDelivery(d, IdleDelivery)

(* A webhook passes authentication and parsing.                            *)
Receive(d) ==
  /\ At(d, "idle")
  /\ \E o \in Orders :
       SetDelivery(d, [pc |-> "set", order |-> o, owned |-> FALSE,
                       claimed |-> FALSE, resends |-> 0])
  /\ UNCHANGED <<marker, accepted, deduped, enqueued, mishap>>
  /\ UNCHANGED queueVars

(* SET NX PX, answered: OK claims the marker, null means a duplicate. The  *)
(* field claimed is history: this delivery's command created the marker.   *)
ClaimMarker(d) ==
  LET o == delivery[d].order
      new == o \notin marker
  IN  /\ At(d, "set")
      /\ marker' = marker \cup {o}
      /\ SetDelivery(d, [delivery[d] EXCEPT
                           !.pc = IF new THEN "depth" ELSE "duplicate",
                           !.owned = new, !.claimed = @ \/ new])
      /\ UNCHANGED <<accepted, deduped, enqueued, mishap>>
      /\ UNCHANGED queueVars

(* Defect: the client sends a command again without limit.                 *)
ClaimReplyLostUncapped(d) ==
  /\ At(d, "set")
  /\ marker' = marker \cup {delivery[d].order}
  /\ SetDelivery(d, [delivery[d] EXCEPT !.resends = @ + 1])
  /\ UNCHANGED <<accepted, deduped, enqueued, mishap>>
  /\ UNCHANGED queueVars

(* The SET is executed, its reply is lost with the connection: the client  *)
(* sends it again once it has reconnected.                                 *)
ClaimReplyLost(d) ==
  LET o == delivery[d].order
      new == o \notin marker
  IN  /\ At(d, "set")
      /\ delivery[d].resends < MaxResends
      /\ marker' = marker \cup {o}
      /\ SetDelivery(d, [delivery[d] EXCEPT !.resends = @ + 1, !.claimed = @ \/ new])
      /\ mishap' = IF new THEN mishap \cup {o} ELSE mishap
      /\ UNCHANGED <<accepted, deduped, enqueued>>
      /\ UNCHANGED queueVars

(* The SET fails for good. Fail open: process the order without a marker   *)
(* of its own. Fail closed: 503, thrown before the rollback is installed.  *)
ClaimError(d) ==
  /\ At(d, "set")
  /\ IF FailOpen THEN Proceed(d, "depth") ELSE Answered(d)
  /\ UNCHANGED <<marker, accepted, deduped, enqueued, mishap>>
  /\ UNCHANGED queueVars

(* The controller answers a duplicate with 200, without touching the queue.*)
AnswerDuplicate(d) ==
  /\ At(d, "duplicate")
  /\ deduped' = deduped \cup {delivery[d].order}
  /\ Answered(d)
  /\ UNCHANGED <<marker, accepted, enqueued, mishap>>
  /\ UNCHANGED queueVars

(* Defect: a failed handler leaves the marker it owns behind.              *)
HandlerFailedNoRollback(d) == Answered(d)

(* The handler threw: the interceptor releases a marker it owns, in the    *)
(* background, and the error answer goes out (the platform may retry       *)
(* while the DEL is still under way).                                      *)
HandlerFailed(d) ==
  IF delivery[d].owned
  THEN SetDelivery(d, [delivery[d] EXCEPT !.pc = "rollback", !.resends = 0])
  ELSE Answered(d)

(* getWaitingCount, and the backpressure decision on its answer.           *)
CheckDepth(d) ==
  /\ At(d, "depth")
  /\ IF Cardinality(WaitingJobs) >= MaxDepth
     THEN HandlerFailed(d)
     ELSE Proceed(d, "add")
  /\ UNCHANGED <<marker, accepted, deduped, enqueued, mishap>>
  /\ UNCHANGED queueVars

(* Queue.add with jobId and the retention options: a job of its own, or    *)
(* the job that already has this id, and no sign of which.                 *)
AddOrder(o) ==
  /\ AddJob(o)
  /\ enqueued' = IF JobExists(JobIdOf[o]) THEN enqueued ELSE enqueued \cup {o}

Enqueue(d) ==
  /\ At(d, "add")
  /\ AddOrder(delivery[d].order)
  /\ Proceed(d, "accept")
  /\ UNCHANGED <<marker, accepted, deduped, mishap>>

(* Defect: an order that could not be enqueued is answered 202.            *)
EnqueueErrorIgnored(d) ==
  /\ At(d, "depth") \/ At(d, "add")
  /\ Proceed(d, "accept")
  /\ UNCHANGED <<marker, accepted, deduped, enqueued, mishap>>
  /\ UNCHANGED queueVars

(* A queue call throws: the count, or the add, executed or not.            *)
EnqueueError(d) ==
  /\ At(d, "depth") \/ At(d, "add")
  /\ HandlerFailed(d)
  /\ \/ UNCHANGED queueVars /\ UNCHANGED enqueued
     \/ At(d, "add") /\ AddOrder(delivery[d].order)
  /\ UNCHANGED <<marker, accepted, deduped, mishap>>

AnswerAccepted(d) ==
  /\ At(d, "accept")
  /\ accepted' = accepted \cup {delivery[d].order}
  /\ Answered(d)
  /\ UNCHANGED <<marker, deduped, enqueued, mishap>>
  /\ UNCHANGED queueVars

(* redis.del(key), unconditional: executed and answered; executed with the *)
(* reply lost, so sent again; or failed, which is only logged.             *)
RollbackMarker(d) ==
  LET o == delivery[d].order
  IN  /\ At(d, "rollback")
      /\ \/ marker' = marker \ {o} /\ Answered(d) /\ UNCHANGED mishap
         \/ /\ delivery[d].resends < MaxResends
            /\ marker' = marker \ {o}
            /\ SetDelivery(d, [delivery[d] EXCEPT !.resends = @ + 1])
            /\ UNCHANGED mishap
         \/ UNCHANGED marker /\ Answered(d) /\ mishap' = mishap \cup {o}
      /\ UNCHANGED <<accepted, deduped, enqueued>>
      /\ UNCHANGED queueVars

(* The process dies while it handles the request, or its rollback.         *)
CrashDelivery(d) ==
  /\ ~At(d, "idle")
  /\ Answered(d)
  /\ mishap' = IF delivery[d].claimed THEN mishap \cup {delivery[d].order} ELSE mishap
  /\ UNCHANGED <<marker, accepted, deduped, enqueued>>
  /\ UNCHANGED queueVars

(* The PX time to live of a marker runs out, after the last SET by any     *)
(* length of time the configuration allows.                                *)
MarkerExpires(o) ==
  /\ o \in marker
  /\ marker' = marker \ {o}
  /\ UNCHANGED <<delivery, accepted, deduped, enqueued, mishap>>
  /\ UNCHANGED queueVars

-----------------------------------------------------------------------------

DeliveryStep(d) ==
  \/ ClaimMarker(d) \/ ClaimReplyLost(d) \/ ClaimError(d)
  \/ AnswerDuplicate(d) \/ CheckDepth(d) \/ Enqueue(d) \/ EnqueueError(d)
  \/ AnswerAccepted(d) \/ RollbackMarker(d)

FrontNext ==
  \/ \E d \in Deliveries : Receive(d) \/ DeliveryStep(d) \/ CrashDelivery(d)
  \/ \E o \in Orders : MarkerExpires(o)

(* The front door on its own, before any consumer.                         *)
AnyConsumer ==
  \E r \in Runs, j \in JobIds : TakeJob(r, j) \/ CompleteJob(r, j) \/ FailJob(r, j)

FrontDoorInit == QueueInit /\ FrontInit

FrontDoorNext ==
  \/ FrontNext
  \/ (AnyConsumer \/ QueueMaintenance) /\ UNCHANGED frontVars

frontDoorVars == <<queueVars, frontVars>>

FrontDoorSpec == FrontDoorInit /\ [][FrontDoorNext]_frontDoorVars

-----------------------------------------------------------------------------

(* The state is well formed.                                               *)
FrontTypeOK ==
  /\ delivery \in [Deliveries -> Delivery]
  /\ marker \subseteq Orders
  /\ accepted \subseteq Orders
  /\ deduped \subseteq Orders
  /\ enqueued \subseteq Orders
  /\ mishap \subseteq Orders

(* Delivery d created the marker of o and is not finished with it.         *)
Claims(d, o) == delivery[d].claimed /\ delivery[d].order = o

(* A marker blocks further deliveries of its order for a day. It stands    *)
(* only for an order that got its job, or one a delivery in flight still   *)
(* answers for, or one whose claim met a crash or a lost command: outside  *)
(* those mishaps no failure path of the interceptor, the controller or the *)
(* producer leaves an order blocked that is not in the queue.              *)
MarkerIsBacked ==
  \A o \in marker :
    o \in enqueued \cup mishap \/ \E d \in Deliveries : Claims(d, o)

(* An order is answered 202 only after a job of its own was created.       *)
AcceptedWasEnqueued == accepted \subseteq enqueued

(* The interceptor rolls the marker back "so the platform's retry isn't    *)
(* silently deduped away and the order lost": an order answered as a       *)
(* duplicate, with no delivery of it in flight any more, got its job. The  *)
(* comment is about failures the handler sees, so crashes and lost         *)
(* commands are left out.                                                  *)
RetryNotDedupedAway ==
  \A o \in deduped \ mishap :
    o \in enqueued \/ \E d \in Deliveries : delivery[d].order = o

=============================================================================
