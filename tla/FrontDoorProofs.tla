--------------------------- MODULE FrontDoorProofs ---------------------------
(***************************************************************************)
(* The front door leaves no order blocked by a marker that nothing backs,  *)
(* and answers 202 only for an order that has a job. Its steps, other than *)
(* adding a job, leave the queue alone.                                    *)
(***************************************************************************)
EXTENDS WebhookFrontDoor, OrderWorkerProofs

(* A webhook step adds at most a job, so the queue stays well formed.      *)
LEMMA FrontQueueInv ==
  ASSUME QueueInv, FrontTypeOK, FrontNext
  PROVE  QueueInv'
<1>1. UNCHANGED queueVars => QueueInv'
  BY DEF queueVars, QueueInv, QueueTypeOK, JobsCarryOrders, JobExists
<1>2. ASSUME NEW d \in Deliveries, ~At(d, "idle") PROVE delivery[d].order \in Orders
  BY <1>2 DEF FrontTypeOK, Delivery, IdleDelivery, At
<1>3. ASSUME NEW d \in Deliveries, Receive(d) \/ CrashDelivery(d) PROVE QueueInv'
  BY <1>1, <1>3 DEF Receive, CrashDelivery
<1>4. ASSUME NEW d \in Deliveries, DeliveryStep(d) PROVE QueueInv'
  <2>1. CASE Enqueue(d)
    BY <1>2, <2>1, AddJobInv DEF Enqueue, AddOrder, At
  <2>2. CASE EnqueueError(d)
    BY <1>1, <1>2, <2>2, AddJobInv DEF EnqueueError, AddOrder, At
  <2>3. CASE \/ ClaimMarker(d) \/ ClaimReplyLost(d) \/ ClaimError(d)
             \/ AnswerDuplicate(d) \/ CheckDepth(d) \/ AnswerAccepted(d) \/ RollbackMarker(d)
    BY <1>1, <2>3
    DEF ClaimMarker, ClaimReplyLost, ClaimError, AnswerDuplicate, CheckDepth,
        AnswerAccepted, RollbackMarker
  <2> QED
    BY <1>4, <2>1, <2>2, <2>3 DEF DeliveryStep
<1>5. ASSUME NEW o \in Orders, MarkerExpires(o) PROVE QueueInv'
  BY <1>1, <1>5 DEF MarkerExpires
<1> QED
  BY <1>3, <1>4, <1>5 DEF FrontNext

(* A request slot is overwritten by a well-formed request.                 *)
LEMMA SetDeliveryType ==
  ASSUME FrontTypeOK, NEW d \in Deliveries, NEW n \in Delivery, SetDelivery(d, n)
  PROVE  delivery' \in [Deliveries -> Delivery]
  BY DEF FrontTypeOK, SetDelivery

(* The requests in flight and the marker stay well formed.                 *)
LEMMA FrontStepType ==
  ASSUME FrontTypeOK, FrontNext
  PROVE  FrontTypeOK'
<1>1. /\ delivery \in [Deliveries -> Delivery]
      /\ marker \subseteq Orders /\ accepted \subseteq Orders /\ deduped \subseteq Orders
      /\ enqueued \subseteq Orders /\ mishap \subseteq Orders
  BY DEF FrontTypeOK
<1> DEFINE Sets == /\ marker' \subseteq Orders /\ accepted' \subseteq Orders
                   /\ deduped' \subseteq Orders /\ enqueued' \subseteq Orders
                   /\ mishap' \subseteq Orders
           Live == [pc: DeliveryPCs \ {"idle"}, order: Orders, owned: BOOLEAN,
                    claimed: BOOLEAN, resends: 0..MaxResends]
<1>2. IdleDelivery \in Delivery /\ Live \subseteq Delivery
  BY DEF Delivery
<1>3. ASSUME NEW d \in Deliveries, ~At(d, "idle")
      PROVE  delivery[d] \in Live /\ delivery[d].order \in Orders
  BY <1>1, <1>3 DEF Delivery, IdleDelivery, At
<1>4. ASSUME NEW d \in Deliveries, Answered(d)
      PROVE  delivery' \in [Deliveries -> Delivery]
  BY <1>2, <1>4, SetDeliveryType DEF Answered
<1>5. ASSUME NEW d \in Deliveries, ~At(d, "idle"),
             NEW pc \in DeliveryPCs \ {"idle"}, Proceed(d, pc)
      PROVE  delivery' \in [Deliveries -> Delivery]
  <2>1. [delivery[d] EXCEPT !.pc = pc] \in Live
    BY <1>3, <1>5
  <2> QED
    BY <1>2, <1>5, <2>1, SetDeliveryType DEF Proceed
<1>6. ASSUME NEW d \in Deliveries, ~At(d, "idle"), HandlerFailed(d)
      PROVE  delivery' \in [Deliveries -> Delivery]
  <2>1. 0 \in 0..MaxResends
    BY FrontDoorAssumption
  <2>2. [delivery[d] EXCEPT !.pc = "rollback", !.resends = 0] \in Live
    BY <1>3, <1>6, <2>1 DEF DeliveryPCs
  <2> QED
    BY <1>2, <1>4, <1>6, <2>2, SetDeliveryType DEF HandlerFailed
<1>7. ASSUME NEW d \in Deliveries, ~At(d, "idle"), delivery[d].resends < MaxResends
      PROVE  delivery[d].resends + 1 \in 0..MaxResends
  BY <1>3, <1>7, FrontDoorAssumption
<1>8. ASSUME NEW d \in Deliveries, Receive(d) PROVE Sets /\ delivery' \in [Deliveries -> Delivery]
  <2> PICK o \in Orders :
        SetDelivery(d, [pc |-> "set", order |-> o, owned |-> FALSE,
                        claimed |-> FALSE, resends |-> 0])
    BY <1>8 DEF Receive
  <2>1. [pc |-> "set", order |-> o, owned |-> FALSE, claimed |-> FALSE, resends |-> 0] \in Live
    BY FrontDoorAssumption DEF DeliveryPCs
  <2> QED
    BY <1>1, <1>2, <1>8, <2>1, SetDeliveryType DEF Receive
<1>9. ASSUME NEW d \in Deliveries, CrashDelivery(d)
      PROVE  Sets /\ delivery' \in [Deliveries -> Delivery]
  BY <1>1, <1>3, <1>4, <1>9 DEF CrashDelivery
<1>10. ASSUME NEW d \in Deliveries, DeliveryStep(d)
       PROVE  Sets /\ delivery' \in [Deliveries -> Delivery]
  <2>1. CASE ClaimMarker(d)
    <3> DEFINE o == delivery[d].order
               new == o \notin marker
               n == [delivery[d] EXCEPT !.pc = IF new THEN "depth" ELSE "duplicate",
                                        !.owned = new, !.claimed = @ \/ new]
    <3>1. delivery[d] \in Live /\ o \in Orders
      BY <1>3, <2>1 DEF ClaimMarker, At
    <3>2. (IF new THEN "depth" ELSE "duplicate") \in DeliveryPCs \ {"idle"}
      BY DEF DeliveryPCs
    <3>3. new \in BOOLEAN /\ (delivery[d].claimed \/ new) \in BOOLEAN
      OBVIOUS
    <3>4. n \in Live
      <4> HIDE DEF new
      <4> QED
        BY <3>1, <3>2, <3>3
    <3> QED
      BY <1>1, <1>2, <2>1, <3>1, <3>4, SetDeliveryType DEF ClaimMarker
  <2>2. CASE ClaimReplyLost(d)
    <3> DEFINE o == delivery[d].order
               new == o \notin marker
               more == delivery[d].resends + 1
               n == [delivery[d] EXCEPT !.resends = more, !.claimed = @ \/ new]
    <3>1. delivery[d] \in Live /\ o \in Orders /\ more \in 0..MaxResends
      BY <1>3, <1>7, <2>2 DEF ClaimReplyLost, At
    <3>2. (delivery[d].claimed \/ new) \in BOOLEAN
      OBVIOUS
    <3>3. n \in Live
      <4> HIDE DEF new, more
      <4> QED
        BY <3>1, <3>2
    <3> QED
      BY <1>1, <1>2, <2>2, <3>1, <3>3, SetDeliveryType DEF ClaimReplyLost
  <2>3. CASE ClaimError(d)
    BY <1>1, <1>4, <1>5, <2>3 DEF ClaimError, At, DeliveryPCs
  <2>4. CASE AnswerDuplicate(d)
    BY <1>1, <1>3, <1>4, <2>4 DEF AnswerDuplicate, At
  <2>5. CASE CheckDepth(d)
    BY <1>1, <1>5, <1>6, <2>5 DEF CheckDepth, At, DeliveryPCs
  <2>6. CASE Enqueue(d)
    BY <1>1, <1>3, <1>5, <2>6 DEF Enqueue, AddOrder, At, DeliveryPCs
  <2>7. CASE EnqueueError(d)
    BY <1>1, <1>3, <1>6, <2>7 DEF EnqueueError, AddOrder, At
  <2>8. CASE AnswerAccepted(d)
    BY <1>1, <1>3, <1>4, <2>8 DEF AnswerAccepted, At
  <2>9. CASE RollbackMarker(d)
    <3> DEFINE more == delivery[d].resends + 1
               n == [delivery[d] EXCEPT !.resends = more]
    <3>1. Sets
      BY <1>1, <1>3, <2>9 DEF RollbackMarker, At
    <3>2. CASE Answered(d)
      BY <1>4, <3>1, <3>2
    <3>3. CASE delivery[d].resends < MaxResends /\ SetDelivery(d, n)
      <4>1. delivery[d] \in Live /\ more \in 0..MaxResends
        BY <1>3, <1>7, <2>9, <3>3 DEF RollbackMarker, At
      <4>2. n \in Live
        <5> HIDE DEF more
        <5> QED
          BY <4>1
      <4> QED
        BY <1>2, <3>1, <3>3, <4>2, SetDeliveryType
    <3> QED
      BY <2>9, <3>2, <3>3 DEF RollbackMarker
  <2> QED
    BY <1>10, <2>1, <2>2, <2>3, <2>4, <2>5, <2>6, <2>7, <2>8, <2>9 DEF DeliveryStep
<1>11. ASSUME NEW o \in Orders, MarkerExpires(o)
       PROVE  Sets /\ delivery' \in [Deliveries -> Delivery]
  BY <1>1, <1>11 DEF MarkerExpires
<1> QED
  BY <1>8, <1>9, <1>10, <1>11 DEF FrontNext, FrontTypeOK

-----------------------------------------------------------------------------
(* The invariant of the front door. It speaks of job ids and not of        *)
(* orders, since two orders may share one: Queue.add then keeps the job of *)
(* the first.                                                              *)

(* A job was created under the id of order o.                              *)
Served(o) == \E p \in enqueued : JobIdOf[p] = JobIdOf[o]

JobsWereEnqueued == \A j \in JobIds : JobExists(j) => job[j].order \in enqueued

AcceptedIsServed ==
  /\ \A o \in accepted : Served(o)
  /\ \A d \in Deliveries : delivery[d].pc = "accept" => Served(delivery[d].order)

(* A delivery that created a marker knows that it owns it, unless it lost  *)
(* the answer of the SET. One that does not know its answer owns nothing.  *)
ClaimsAreOwned ==
  \A d \in Deliveries :
    /\ delivery[d].claimed => delivery[d].owned \/ delivery[d].order \in mishap
    /\ delivery[d].pc \in {"set", "duplicate"} => ~delivery[d].owned

MarkerIsServed ==
  \A o \in marker : Served(o) \/ o \in mishap \/ \E d \in Deliveries : Claims(d, o)

FrontInv ==
  FrontTypeOK /\ JobsWereEnqueued /\ AcceptedIsServed /\ ClaimsAreOwned /\ MarkerIsServed

(* No order shares its job id with another one in play.                    *)
OwnJobIds == \A o1, o2 \in Orders : JobIdOf[o1] = JobIdOf[o2] => o1 = o2

(* There is nothing to account for at first.                               *)
LEMMA FrontInitInv == QueueInit /\ FrontInit => FrontInv
<1> SUFFICES ASSUME QueueInit, FrontInit PROVE FrontInv
  OBVIOUS
<1>1. FrontTypeOK
  BY DEF FrontInit, FrontTypeOK, Delivery
<1>2. JobsWereEnqueued
  BY DEF QueueInit, JobsWereEnqueued, JobExists, AbsentJob
<1>3. AcceptedIsServed /\ ClaimsAreOwned /\ MarkerIsServed
  BY DEF FrontInit, AcceptedIsServed, ClaimsAreOwned, MarkerIsServed, IdleDelivery
<1> QED
  BY <1>1, <1>2, <1>3 DEF FrontInv

(* No job is there that was not, and none carries another order.           *)
NoNewJob ==
  \A j \in JobIds : JobExists(j)' => JobExists(j) /\ job'[j].order = job[j].order

(* A consumer only moves the job it works on.                              *)
LEMMA ConsumerAddsNoJob ==
  ASSUME QueueInv, NEW r \in Runs, NEW j \in JobIds, ConsumerCall(r, j)
  PROVE  NoNewJob
<1>1. job \in [JobIds -> Job]
  BY DEF QueueInv, QueueTypeOK
<1>2. JobExists(j)
  BY DEF ConsumerCall, TakeJob, CompleteJob, FailJob, HoldsLock, JobExists
<1>3. job'[j].order = job[j].order /\ \A i \in JobIds \ {j} : job'[i] = job[i]
  <2>1. CASE TakeJob(r, j) \/ CompleteJob(r, j)
    BY <1>1, <2>1 DEF TakeJob, CompleteJob, SetJob, Job
  <2>2. CASE FailJob(r, j)
    <3> DEFINE made == job[j].attempts + 1
               n1 == [job[j] EXCEPT !.state = "delayed", !.lock = NoRun, !.attempts = made]
               n2 == [job[j] EXCEPT !.state = "failed", !.lock = NoRun,
                                    !.attempts = MaxAttempts]
    <3>1. n1.order = job[j].order /\ n2.order = job[j].order
      BY <1>1 DEF Job
    <3>2. SetJob(j, n1) \/ SetJob(j, n2)
      BY <2>2 DEF FailJob
    <3> HIDE DEF n1, n2
    <3> QED
      BY <1>1, <3>1, <3>2 DEF SetJob
  <2> QED
    BY <2>1, <2>2 DEF ConsumerCall
<1> QED
  BY <1>2, <1>3 DEF NoNewJob, JobExists

(* Nor do backoffs, stalls, expiry and the DLQ endpoints.                  *)
LEMMA MaintenanceAddsNoJob ==
  ASSUME QueueInv, QueueMaintenance
  PROVE  NoNewJob
<1> SUFFICES ASSUME NEW j \in JobIds, JobExists(j)'
             PROVE  JobExists(j) /\ job'[j].order = job[j].order
  BY DEF NoNewJob
<1>1. Kept(j) \/ Requeued(j) \/ Dropped(j)
  BY MaintenanceHandles DEF Maintained
<1> QED
  BY <1>1 DEF Kept, Requeued, Dropped, AbsentJob, JobExists

(* What goes on behind the front door keeps its invariant.                 *)
LEMMA QueueStepKeepsFrontInv ==
  ASSUME FrontInv, NoNewJob, UNCHANGED frontVars
  PROVE  FrontInv'
<1>1. FrontTypeOK'
  BY DEF FrontInv, FrontTypeOK, frontVars
<1>2. JobsWereEnqueued'
  BY DEF FrontInv, JobsWereEnqueued, NoNewJob, JobExists, frontVars
<1>3. AcceptedIsServed' /\ ClaimsAreOwned' /\ MarkerIsServed'
  BY DEF FrontInv, AcceptedIsServed, ClaimsAreOwned, MarkerIsServed, Served, Claims, frontVars
<1> QED
  BY <1>1, <1>2, <1>3 DEF FrontInv

(* A delivery of order o goes on, or ends. It adds no marker but one of    *)
(* its own, and may forget a marker it created only when that marker is    *)
(* gone, served, or on record as a mishap.                                 *)
LEMMA DeliveryKeepsFrontInv ==
  ASSUME FrontInv, FrontTypeOK', JobsWereEnqueued',
         enqueued \subseteq enqueued', mishap \subseteq mishap',
         NEW d \in Deliveries, NEW o \in Orders, NEW n \in Delivery,
         SetDelivery(d, n), delivery[d].order = o \/ ~delivery[d].claimed,
         n.order = o \/ n = IdleDelivery,
         n.pc = "accept" => Served(o)',
         n.claimed => n.owned \/ o \in mishap',
         n.pc \in {"set", "duplicate"} => ~n.owned,
         \A p \in accepted' : p \in accepted \/ Served(p)',
         \A p \in marker' : p \in marker \/ (p = o /\ n.order = o /\ n.claimed),
         delivery[d].claimed =>
           \/ n.claimed /\ n.order = o
           \/ o \notin marker' \/ Served(o)' \/ o \in mishap'
  PROVE  FrontInv'
<1>1. /\ delivery \in [Deliveries -> Delivery]
      /\ delivery' = [delivery EXCEPT ![d] = n]
      /\ delivery'[d] = n /\ \A e \in Deliveries \ {d} : delivery'[e] = delivery[e]
  BY DEF FrontInv, FrontTypeOK, SetDelivery
<1>2. IdleDelivery.pc = "idle" /\ ~IdleDelivery.claimed
  BY DEF IdleDelivery
<1>3. \A p : Served(p) => Served(p)'
  BY DEF Served
<1>4. AcceptedIsServed'
  <2>1. ASSUME NEW e \in Deliveries, delivery'[e].pc = "accept"
        PROVE  \E p \in enqueued' : JobIdOf[p] = JobIdOf[delivery'[e].order]
    <3>1. CASE e = d
      BY <1>1, <1>2, <2>1, <3>1 DEF Served
    <3>2. CASE e # d
      BY <1>1, <2>1, <3>2 DEF FrontInv, AcceptedIsServed, Served
    <3> QED
      BY <3>1, <3>2
  <2>2. \A p \in accepted' : Served(p)'
    BY <1>3 DEF FrontInv, AcceptedIsServed
  <2> QED
    BY <2>1, <2>2 DEF AcceptedIsServed, Served
<1>5. ClaimsAreOwned'
  <2> SUFFICES ASSUME NEW e \in Deliveries
               PROVE  /\ delivery'[e].claimed =>
                           delivery'[e].owned \/ delivery'[e].order \in mishap'
                      /\ delivery'[e].pc \in {"set", "duplicate"} => ~delivery'[e].owned
    BY DEF ClaimsAreOwned
  <2>1. CASE e = d
    BY <1>1, <1>2, <2>1
  <2>2. CASE e # d
    BY <1>1, <2>2 DEF FrontInv, ClaimsAreOwned
  <2> QED
    BY <2>1, <2>2
<1>6. MarkerIsServed'
  <2> SUFFICES ASSUME NEW p \in marker'
               PROVE  \/ Served(p)' \/ p \in mishap'
                      \/ \E e \in Deliveries : delivery'[e].claimed /\ delivery'[e].order = p
    BY DEF MarkerIsServed, Claims
  <2>1. CASE p = o /\ n.order = o /\ n.claimed
    BY <1>1, <2>1
  <2>2. CASE p \in marker
    <3>1. CASE Served(p) \/ p \in mishap
      BY <1>3, <3>1
    <3>2. CASE \E e \in Deliveries \ {d} : Claims(e, p)
      BY <1>1, <3>2 DEF Claims
    <3>3. CASE Claims(d, p)
      BY <1>1, <3>3 DEF Claims
    <3> QED
      BY <2>2, <3>1, <3>2, <3>3 DEF FrontInv, MarkerIsServed
  <2> QED
    BY <2>1, <2>2
<1> QED
  BY <1>4, <1>5, <1>6 DEF FrontInv

(* A job that is added carries its order's name into enqueued, or meets a  *)
(* job under its id; either way the order is served.                       *)
LEMMA AddOrderServes ==
  ASSUME QueueInv, JobsWereEnqueued, enqueued \subseteq Orders,
         NEW o \in Orders, AddOrder(o)
  PROVE  /\ JobsWereEnqueued' /\ Served(o)'
         /\ enqueued \subseteq enqueued'
<1> DEFINE j == JobIdOf[o]
<1>1. j \in JobIds /\ job \in [JobIds -> Job]
  BY QueueAssumption DEF QueueInv, QueueTypeOK
<1>2. CASE JobExists(j)
  <2>1. job' = job /\ enqueued' = enqueued
    BY <1>2 DEF AddOrder, AddJob
  <2>2. job[j].order \in enqueued /\ JobIdOf[job[j].order] = j
    BY <1>1, <1>2 DEF QueueInv, JobsCarryOrders, JobsWereEnqueued
  <2> QED
    BY <2>1, <2>2 DEF JobsWereEnqueued, JobExists, Served
<1>3. CASE ~JobExists(j)
  <2>1. job' = [job EXCEPT ![j] = FreshJob(o)] /\ enqueued' = enqueued \cup {o}
    BY <1>3 DEF AddOrder, AddJob
  <2>2. job'[j].order = o /\ \A i \in JobIds \ {j} : job'[i] = job[i]
    BY <1>1, <2>1 DEF FreshJob
  <2> QED
    BY <2>1, <2>2 DEF JobsWereEnqueued, JobExists, Served
<1> QED
  BY <1>2, <1>3

(* Every step of a delivery, its arrival and its crash.                    *)
LEMMA FrontStepKeepsInv ==
  ASSUME QueueInv, FrontInv, FrontNext
  PROVE  FrontInv'
<1>1. /\ FrontTypeOK /\ FrontTypeOK' /\ JobsWereEnqueued
      /\ AcceptedIsServed /\ ClaimsAreOwned /\ MarkerIsServed
      /\ delivery \in [Deliveries -> Delivery] /\ enqueued \subseteq Orders
  BY FrontStepType DEF FrontInv, FrontTypeOK
<1> DEFINE Live == [pc: DeliveryPCs \ {"idle"}, order: Orders, owned: BOOLEAN,
                    claimed: BOOLEAN, resends: 0..MaxResends]
<1>2. /\ IdleDelivery \in Delivery /\ Live \subseteq Delivery
      /\ IdleDelivery.pc = "idle" /\ ~IdleDelivery.claimed
  BY DEF Delivery, IdleDelivery
<1>3. ASSUME NEW d \in Deliveries, ~At(d, "idle")
      PROVE  delivery[d] \in Live /\ delivery[d].order \in Orders
  BY <1>1, <1>3 DEF Delivery, IdleDelivery, At
<1>4. UNCHANGED <<queueVars, enqueued>> => JobsWereEnqueued'
  BY <1>1 DEF JobsWereEnqueued, JobExists, queueVars
<1>5. ASSUME NEW d \in Deliveries, ~At(d, "idle"), Answered(d),
             JobsWereEnqueued', enqueued \subseteq enqueued', mishap \subseteq mishap',
             \A p \in accepted' : p \in accepted \/ Served(p)',
             marker' \subseteq marker,
             NEW o \in Orders, o = delivery[d].order,
             delivery[d].claimed => o \notin marker' \/ Served(o)' \/ o \in mishap'
      PROVE  FrontInv'
  <2>1. SetDelivery(d, IdleDelivery)
    BY <1>5 DEF Answered
  <2>2. IdleDelivery.pc \notin {"accept", "set", "duplicate"}
    BY DEF IdleDelivery
  <2> QED
    BY <1>1, <1>2, <1>5, <2>1, <2>2, DeliveryKeepsFrontInv
<1>6. ASSUME NEW d \in Deliveries, ~At(d, "idle"),
             NEW pc \in {"depth", "add", "accept"}, Proceed(d, pc),
             JobsWereEnqueued', enqueued \subseteq enqueued',
             UNCHANGED <<accepted, marker, mishap>>,
             NEW o \in Orders, o = delivery[d].order,
             pc = "accept" => Served(o)'
      PROVE  FrontInv'
  <2> DEFINE n == [delivery[d] EXCEPT !.pc = pc]
  <2>1. n \in Live
    BY <1>3, <1>6 DEF DeliveryPCs
  <2>2. n.pc = pc /\ n.order = o
    BY <1>3, <1>6
  <2>3. n.claimed = delivery[d].claimed /\ n.owned = delivery[d].owned
    BY <1>3, <1>6
  <2>4. SetDelivery(d, n) /\ n \in Delivery
    BY <1>2, <1>6, <2>1 DEF Proceed
  <2>5. delivery[d].claimed => delivery[d].owned \/ o \in mishap
    BY <1>1, <1>6 DEF ClaimsAreOwned
  <2> HIDE DEF n
  <2> QED
    BY <1>1, <1>6, <2>2, <2>3, <2>4, <2>5, DeliveryKeepsFrontInv
<1>7. ASSUME NEW d \in Deliveries, ~At(d, "idle"), HandlerFailed(d),
             JobsWereEnqueued', enqueued \subseteq enqueued',
             UNCHANGED <<accepted, marker, mishap>>
      PROVE  FrontInv'
  <2>1. PICK o \in Orders : o = delivery[d].order
    BY <1>3, <1>7
  <2>2. delivery[d].claimed => delivery[d].owned \/ o \in mishap
    BY <1>1, <2>1 DEF ClaimsAreOwned
  <2>3. CASE delivery[d].owned
    <3> DEFINE n == [delivery[d] EXCEPT !.pc = "rollback", !.resends = 0]
    <3>1. 0 \in 0..MaxResends
      BY FrontDoorAssumption
    <3>2. n \in Live
      BY <1>3, <1>7, <3>1 DEF DeliveryPCs
    <3>3. n.pc = "rollback" /\ n.order = o
      BY <1>3, <1>7, <2>1
    <3>4. n.claimed = delivery[d].claimed /\ n.owned = delivery[d].owned
      BY <1>3, <1>7
    <3>5. SetDelivery(d, n) /\ n \in Delivery
      BY <1>2, <1>7, <2>3, <3>2 DEF HandlerFailed
    <3> HIDE DEF n
    <3> QED
      BY <1>1, <1>7, <2>1, <2>2, <3>3, <3>4, <3>5, DeliveryKeepsFrontInv
  <2>4. CASE ~delivery[d].owned
    BY <1>5, <1>7, <2>1, <2>2, <2>4 DEF HandlerFailed
  <2> QED
    BY <2>3, <2>4
<1>8. ASSUME NEW d \in Deliveries, Receive(d) PROVE FrontInv'
  <2>1. PICK o \in Orders :
          SetDelivery(d, [pc |-> "set", order |-> o, owned |-> FALSE,
                          claimed |-> FALSE, resends |-> 0])
    BY <1>8 DEF Receive
  <2> DEFINE n == [pc |-> "set", order |-> o, owned |-> FALSE,
                   claimed |-> FALSE, resends |-> 0]
  <2>2. n \in Live
    BY FrontDoorAssumption DEF DeliveryPCs
  <2>3. n.pc = "set" /\ n.order = o /\ ~n.owned /\ ~n.claimed
    OBVIOUS
  <2>4. ~delivery[d].claimed
    BY <1>1, <1>8 DEF Receive, At, Delivery, IdleDelivery, DeliveryPCs
  <2>5. n \in Delivery /\ SetDelivery(d, n) /\ JobsWereEnqueued'
        /\ UNCHANGED <<marker, accepted, enqueued, mishap>>
    BY <1>2, <1>4, <1>8, <2>1, <2>2 DEF Receive
  <2> HIDE DEF n
  <2> QED
    BY <1>1, <2>3, <2>4, <2>5, DeliveryKeepsFrontInv
<1>9. ASSUME NEW d \in Deliveries, CrashDelivery(d) PROVE FrontInv'
  <2>1. ~At(d, "idle") /\ JobsWereEnqueued'
    BY <1>4, <1>9 DEF CrashDelivery
  <2>2. PICK o \in Orders : o = delivery[d].order
    BY <1>3, <2>1
  <2>3. /\ UNCHANGED <<marker, accepted, enqueued>> /\ Answered(d)
        /\ mishap \subseteq mishap' /\ (delivery[d].claimed => o \in mishap')
    BY <1>9, <2>2 DEF CrashDelivery
  <2> QED
    BY <1>5, <2>1, <2>2, <2>3
<1>10. ASSUME NEW d \in Deliveries, DeliveryStep(d) PROVE FrontInv'
  <2>0. ~At(d, "idle")
    BY <1>10
    DEF DeliveryStep, ClaimMarker, ClaimReplyLost, ClaimError, AnswerDuplicate, CheckDepth,
        Enqueue, EnqueueError, AnswerAccepted, RollbackMarker, At
  <2>1. PICK o \in Orders : o = delivery[d].order
    BY <1>3, <2>0
  <2>2. /\ delivery[d] \in Live
        /\ delivery[d].claimed => delivery[d].owned \/ o \in mishap
        /\ delivery[d].pc \in {"set", "duplicate"} => ~delivery[d].owned
    BY <1>1, <1>3, <2>0, <2>1 DEF ClaimsAreOwned
  <2>3. CASE ClaimMarker(d)
    <3> DEFINE new == o \notin marker
               n == [delivery[d] EXCEPT !.pc = IF new THEN "depth" ELSE "duplicate",
                                        !.owned = new, !.claimed = @ \/ new]
    <3>1. n.pc = (IF new THEN "depth" ELSE "duplicate") /\ n.order = o
      BY <2>1, <2>2
    <3>2. (n.owned <=> new) /\ (n.claimed <=> delivery[d].claimed \/ new)
      BY <2>2, Zenon
    <3>3. n \in Live
      <4>1. (IF new THEN "depth" ELSE "duplicate") \in DeliveryPCs \ {"idle"}
        BY DEF DeliveryPCs
      <4>2. new \in BOOLEAN /\ (delivery[d].claimed \/ new) \in BOOLEAN
        OBVIOUS
      <4> HIDE DEF new
      <4> QED
        BY <2>2, <4>1, <4>2
    <3>4. /\ SetDelivery(d, n) /\ n \in Delivery /\ marker' = marker \cup {o}
          /\ JobsWereEnqueued' /\ UNCHANGED <<accepted, enqueued, mishap>>
          /\ delivery[d].pc = "set"
      BY <1>2, <1>4, <2>1, <2>3, <3>3 DEF ClaimMarker, At
    <3>5. /\ n.pc # "accept" /\ (n.pc = "duplicate" => ~n.owned) /\ n.pc # "set"
          /\ n.claimed => n.owned \/ o \in mishap'
          /\ delivery[d].claimed => n.claimed
          /\ \A p \in marker' : p \in marker \/ (p = o /\ n.claimed)
      BY <2>2, <3>1, <3>2, <3>4
    <3> HIDE DEF n, new
    <3> QED
      BY <1>1, <2>1, <3>1, <3>4, <3>5, DeliveryKeepsFrontInv
  <2>4. CASE ClaimReplyLost(d)
    <3> DEFINE new == o \notin marker
               more == delivery[d].resends + 1
               n == [delivery[d] EXCEPT !.resends = more, !.claimed = @ \/ new]
    <3>1. n.pc = "set" /\ n.order = o
      BY <2>1, <2>2, <2>4 DEF ClaimReplyLost, At
    <3>2. (n.owned <=> delivery[d].owned) /\ (n.claimed <=> delivery[d].claimed \/ new)
      BY <2>2, Zenon
    <3>3. n \in Live
      <4>1. more \in 0..MaxResends
        BY <2>2, <2>4, FrontDoorAssumption DEF ClaimReplyLost
      <4>2. (delivery[d].claimed \/ new) \in BOOLEAN
        OBVIOUS
      <4> HIDE DEF new, more
      <4> QED
        BY <2>2, <4>1, <4>2
    <3>4. /\ SetDelivery(d, n) /\ n \in Delivery /\ marker' = marker \cup {o}
          /\ JobsWereEnqueued' /\ UNCHANGED <<accepted, enqueued>>
          /\ mishap \subseteq mishap' /\ (new => o \in mishap')
          /\ delivery[d].pc = "set"
      BY <1>2, <1>4, <2>1, <2>4, <3>3 DEF ClaimReplyLost, At
    <3>5. /\ ~n.owned
          /\ n.claimed => o \in mishap'
          /\ delivery[d].claimed => n.claimed
          /\ \A p \in marker' : p \in marker \/ (p = o /\ n.claimed)
      BY <2>2, <3>2, <3>4
    <3> HIDE DEF n, new
    <3> QED
      BY <1>1, <2>1, <3>1, <3>4, <3>5, DeliveryKeepsFrontInv
  <2>5. CASE ClaimError(d)
    <3>1. JobsWereEnqueued' /\ UNCHANGED <<marker, accepted, enqueued, mishap>>
          /\ delivery[d].pc = "set"
      BY <1>4, <2>5 DEF ClaimError, At
    <3>2. CASE Proceed(d, "depth")
      BY <1>6, <2>0, <2>1, <3>1, <3>2
    <3>3. CASE Answered(d)
      BY <1>5, <2>0, <2>1, <2>2, <3>1, <3>3
    <3> QED
      BY <2>5, <3>2, <3>3 DEF ClaimError
  <2>6. CASE AnswerDuplicate(d)
    <3>1. JobsWereEnqueued' /\ UNCHANGED <<marker, accepted, enqueued, mishap>>
          /\ delivery[d].pc = "duplicate" /\ Answered(d)
      BY <1>4, <2>6 DEF AnswerDuplicate, At
    <3> QED
      BY <1>5, <2>0, <2>1, <2>2, <3>1
  <2>7. CASE CheckDepth(d)
    <3>1. JobsWereEnqueued' /\ UNCHANGED <<marker, accepted, enqueued, mishap>>
      BY <1>4, <2>7 DEF CheckDepth
    <3>2. CASE HandlerFailed(d)
      BY <1>7, <2>0, <3>1, <3>2
    <3>3. CASE Proceed(d, "add")
      BY <1>6, <2>0, <2>1, <3>1, <3>3
    <3> QED
      BY <2>7, <3>2, <3>3 DEF CheckDepth
  <2>8. CASE Enqueue(d)
    <3>1. JobsWereEnqueued' /\ Served(o)' /\ enqueued \subseteq enqueued'
      BY <1>1, <2>1, <2>8, AddOrderServes DEF Enqueue
    <3> QED
      BY <1>6, <2>0, <2>1, <2>8, <3>1 DEF Enqueue
  <2>9. CASE EnqueueError(d)
    <3>1. JobsWereEnqueued' /\ enqueued \subseteq enqueued'
      BY <1>1, <1>4, <2>1, <2>9, AddOrderServes DEF EnqueueError
    <3> QED
      BY <1>7, <2>0, <2>9, <3>1 DEF EnqueueError
  <2>10. CASE AnswerAccepted(d)
    <3>1. /\ JobsWereEnqueued' /\ UNCHANGED <<marker, enqueued, mishap>>
          /\ accepted' = accepted \cup {o} /\ Answered(d)
      BY <1>4, <2>1, <2>10 DEF AnswerAccepted
    <3>2. Served(o)'
      BY <1>1, <2>1, <2>10, <3>1 DEF AnswerAccepted, AcceptedIsServed, Served, At
    <3> QED
      BY <1>5, <2>0, <2>1, <3>1, <3>2
  <2>11. CASE RollbackMarker(d)
    <3>1. JobsWereEnqueued' /\ UNCHANGED <<accepted, enqueued>>
      BY <1>4, <2>11 DEF RollbackMarker
    <3>2. CASE marker' = marker \ {o} /\ Answered(d) /\ UNCHANGED mishap
      BY <1>5, <2>0, <2>1, <3>1, <3>2
    <3>3. CASE UNCHANGED marker /\ Answered(d) /\ mishap' = mishap \cup {o}
      BY <1>5, <2>0, <2>1, <3>1, <3>3
    <3>4. CASE /\ delivery[d].resends < MaxResends
               /\ marker' = marker \ {o} /\ UNCHANGED mishap
               /\ SetDelivery(d, [delivery[d] EXCEPT !.resends = @ + 1])
      <4> DEFINE more == delivery[d].resends + 1
                 n == [delivery[d] EXCEPT !.resends = more]
      <4>1. more \in 0..MaxResends
        BY <2>2, <3>4, FrontDoorAssumption
      <4>2. n \in Live
        <5> HIDE DEF more
        <5> QED
          BY <2>2, <4>1
      <4>3. n.pc = "rollback" /\ n.order = o
        BY <2>1, <2>2, <2>11 DEF RollbackMarker, At
      <4>4. n.claimed = delivery[d].claimed /\ n.owned = delivery[d].owned
        BY <2>2
      <4>5. SetDelivery(d, n) /\ n \in Delivery
        BY <1>2, <3>4, <4>2
      <4> HIDE DEF n
      <4> QED
        BY <1>1, <2>1, <2>2, <3>1, <3>4, <4>3, <4>4, <4>5, DeliveryKeepsFrontInv
    <3> QED
      BY <2>1, <2>11, <3>2, <3>3, <3>4 DEF RollbackMarker
  <2> QED
    BY <1>10, <2>3, <2>4, <2>5, <2>6, <2>7, <2>8, <2>9, <2>10, <2>11 DEF DeliveryStep
<1>11. ASSUME NEW o \in Orders, MarkerExpires(o) PROVE FrontInv'
  BY <1>1, <1>4, <1>11
  DEF MarkerExpires, FrontInv, AcceptedIsServed, ClaimsAreOwned, MarkerIsServed,
      Served, Claims
<1> QED
  BY <1>8, <1>9, <1>10, <1>11 DEF FrontNext

-----------------------------------------------------------------------------

(* FrontInv is an invariant of the front door with any consumer.           *)
LEMMA FrontInvariance == FrontDoorSpec => [](QueueInv /\ FrontInv)
<1>1. FrontDoorInit => QueueInv /\ FrontInv
  BY QueueInitInv, FrontInitInv DEF FrontDoorInit
<1>2. QueueInv /\ FrontInv /\ [FrontDoorNext]_frontDoorVars => QueueInv' /\ FrontInv'
  <2> SUFFICES ASSUME QueueInv, FrontInv, [FrontDoorNext]_frontDoorVars
               PROVE  QueueInv' /\ FrontInv'
    OBVIOUS
  <2>1. FrontTypeOK
    BY DEF FrontInv
  <2>2. CASE FrontNext
    BY <2>1, <2>2, FrontQueueInv, FrontStepKeepsInv
  <2>3. CASE AnyConsumer /\ UNCHANGED frontVars
    <3>1. PICK r \in Runs : \E j \in JobIds : ConsumerCall(r, j)
      BY <2>3 DEF AnyConsumer, ConsumerCall
    <3>2. PICK j \in JobIds : ConsumerCall(r, j)
      BY <3>1
    <3> QED
      BY <2>3, <3>2, ConsumerCallInv, ConsumerAddsNoJob, QueueStepKeepsFrontInv
  <2>4. CASE QueueMaintenance /\ UNCHANGED frontVars
    BY <2>4, QueueMaintenanceInv, MaintenanceAddsNoJob, QueueStepKeepsFrontInv
  <2>5. CASE UNCHANGED frontDoorVars
    <3>1. UNCHANGED queueVars /\ UNCHANGED frontVars
      BY <2>5 DEF frontDoorVars
    <3>2. QueueInv' /\ NoNewJob
      BY <3>1
      DEF queueVars, QueueInv, QueueTypeOK, JobsCarryOrders, JobExists, NoNewJob
    <3> QED
      BY <3>1, <3>2, QueueStepKeepsFrontInv
  <2> QED
    BY <2>2, <2>3, <2>4, <2>5 DEF FrontDoorNext
<1> QED
  BY <1>1, <1>2, PTL DEF FrontDoorSpec

(* The state of the front door stays well formed.                          *)
THEOREM FrontTypeCorrect == FrontDoorSpec => []FrontTypeOK
<1>1. FrontInv => FrontTypeOK
  BY DEF FrontInv
<1> QED
  BY <1>1, FrontInvariance, PTL

(* Among orders with job ids of their own, what is served was enqueued.    *)
LEMMA ServedIsEnqueued ==
  ASSUME OwnJobIds, FrontTypeOK, NEW o \in Orders, Served(o)
  PROVE  o \in enqueued
  BY DEF OwnJobIds, FrontTypeOK, Served

(* Whatever overlaps, is lost or crashes, an order is answered 202 only    *)
(* after a job was created for it, as long as no other order has its id.   *)
THEOREM AcceptedIsEnqueued ==
  ASSUME OwnJobIds
  PROVE  FrontDoorSpec => []AcceptedWasEnqueued
<1>1. FrontInv => AcceptedWasEnqueued
  BY ServedIsEnqueued DEF FrontInv, FrontTypeOK, AcceptedIsServed, AcceptedWasEnqueued
<1> QED
  BY <1>1, FrontInvariance, PTL

(* A marker that blocks an order's deliveries stands for a job, for a      *)
(* delivery in flight, or for a crash or a lost command: no failure the    *)
(* interceptor, the controller or the producer sees leaves it behind.      *)
THEOREM MarkerIsAlwaysBacked ==
  ASSUME OwnJobIds
  PROVE  FrontDoorSpec => []MarkerIsBacked
<1>1. FrontInv => MarkerIsBacked
  BY ServedIsEnqueued DEF FrontInv, FrontTypeOK, MarkerIsServed, MarkerIsBacked
<1> QED
  BY <1>1, FrontInvariance, PTL

=============================================================================
