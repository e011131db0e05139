------------------------------ MODULE KitchenRooms -----------------------------
(***************************************************************************)
(* Kitchen displays on several instances of the service. An instance waits *)
(* for the adapter's two Redis clients, but not for the subscription that  *)
(* the adapter asks Redis for when the Socket.io server is created. A      *)
(* display connects to an instance that listens, joins the rooms of stores,*)
(* and gets what is broadcast to its rooms: at once from its own instance, *)
(* from another one by way of Redis pub/sub, which forgets what it cannot  *)
(* deliver. What was stored before it subscribed a display reads page by   *)
(* page from GET /orders. Orders are stored and then broadcast by the      *)
(* worker of some instance (OrderWorker); here one run, without retries.   *)
(* No order is archived while a display reads (see OldOrdersAreArchived),  *)
(* and status updates, which take the same way, are left out.              *)
(***************************************************************************)
EXTENDS Naturals, FiniteSets, SequencesExt

CONSTANTS
  Instances, Displays, Orders, Stores,
  StoreOf,      \* an order's store
  ReceivedAt,   \* when an order was received, which is not when it is stored
  Wants,        \* the store a display lists and shows
  Handshakes,   \* displays that name their store when they connect
  Limit,        \* orders per page: 1 to 100
  MaxFaults,    \* bound: crashes, cut connections and lost messages
  None

(* Two orders received in one millisecond have no fixed order in a list.   *)
ASSUME RoomsAssumption ==
  /\ StoreOf \in [Orders -> Stores] /\ Wants \in [Displays -> Stores]
  /\ ReceivedAt \in [Orders -> Nat] /\ IsInjective(ReceivedAt)
  /\ Handshakes \subseteq Displays
  /\ Limit \in Nat \ {0} /\ MaxFaults \in Nat
  /\ None \notin Instances \cup Orders

VARIABLES
  boot,       \* how far an instance's bootstrap got
  ready,      \* which of its Redis clients are connected
  subscribed, \* instances whose pattern subscription Redis has executed
  run,        \* the order that an instance's worker stored and has to announce
  stored,     \* orders in the database
  announced,  \* orders that were broadcast
  channel,    \* channel[i][j]: from instance i, not yet received by j
  link,       \* the instance a display is connected to
  rooms,      \* the stores whose rooms it is in
  seen,       \* the orders it got by order.incoming
  listing,    \* its walk through GET /orders
  asked,      \* history: the stores it ever asked for
  whole,      \* history: it has been in its store's room since before it
              \* began to list, and nothing on its way to it was lost
  heard,      \* history: its instance was subscribed when it began to list
  faults

roomsVars == <<boot, ready, subscribed, run, stored, announced, channel, link, rooms,
               seen, listing, asked, whole, heard, faults>>

On(i) == {d \in Displays : link[d] = i}
Members(i, s) == {d \in On(i) : s \in rooms[d]}

NotListing == [pc |-> "no", page |-> 0, got |-> {}]

RoomsInit ==
  /\ boot = [i \in Instances |-> "off"] /\ ready = [i \in Instances |-> {}]
  /\ subscribed = {}
  /\ run = [i \in Instances |-> None]
  /\ stored = {} /\ announced = {}
  /\ channel = [i \in Instances |-> [j \in Instances |-> <<>>]]
  /\ link = [d \in Displays |-> None] /\ rooms = [d \in Displays |-> {}]
  /\ seen = [d \in Displays |-> {}] /\ listing = [d \in Displays |-> NotListing]
  /\ asked = [d \in Displays |-> {}] /\ whole = [d \in Displays |-> FALSE]
  /\ heard = [d \in Displays |-> FALSE]
  /\ faults = 0

Fault == faults < MaxFaults /\ faults' = faults + 1

-----------------------------------------------------------------------------
(* Instances.                                                              *)

bootVars == <<boot, ready, subscribed>>
orderVars == <<run, stored, announced, channel>>
displayVars == <<link, rooms, seen, listing, asked, whole, heard>>

Bootstrap(i) ==
  /\ boot[i] = "off"
  /\ boot' = [boot EXCEPT ![i] = "connecting"]
  /\ UNCHANGED <<ready, subscribed, orderVars, displayVars, faults>>

ClientReady(i, c) ==
  /\ boot[i] \in {"connecting", "stuck"} /\ c \notin ready[i]
  /\ ready' = [ready EXCEPT ![i] = @ \cup {c}]
  /\ UNCHANGED <<boot, subscribed, orderVars, displayVars, faults>>

(* The first error of a client that was not ready yet rejects the          *)
(* bootstrap. The rejection is logged, the process stays and never listens,*)
(* although its clients connect later on.                                  *)
ClientError(i, c) ==
  /\ boot[i] = "connecting" /\ c \notin ready[i] /\ Fault
  /\ boot' = [boot EXCEPT ![i] = "stuck"]
  /\ UNCHANGED <<ready, subscribed, orderVars, displayVars>>

(* Both clients are ready: app.listen creates the Socket.io server with    *)
(* the adapter, which asks Redis for its subscription, and starts the      *)
(* worker.                                                                 *)
createIOServer(i) ==
  /\ boot[i] = "connecting" /\ ready[i] = {"pub", "sub"}
  /\ boot' = [boot EXCEPT ![i] = "created"]
  /\ UNCHANGED <<ready, subscribed, orderVars, displayVars, faults>>

(* Redis executes the subscription. Nothing waits for it.                  *)
Subscribed(i) ==
  /\ boot[i] \in {"created", "listening"} /\ i \notin subscribed
  /\ subscribed' = subscribed \cup {i}
  /\ UNCHANGED <<boot, ready, orderVars, displayVars, faults>>

Listen(i) ==
  /\ boot[i] = "created"
  /\ boot' = [boot EXCEPT ![i] = "listening"]
  /\ UNCHANGED <<ready, subscribed, orderVars, displayVars, faults>>

Cut(ds) ==
  /\ link' = [d \in Displays |-> IF d \in ds THEN None ELSE link[d]]
  /\ rooms' = [d \in Displays |-> IF d \in ds THEN {} ELSE rooms[d]]
  /\ whole' = [d \in Displays |-> whole[d] /\ d \notin ds]
  /\ heard' = [d \in Displays |-> heard[d] /\ d \notin ds]

(* The process ends: its displays are cut off, its run and what was on its *)
(* way to it are gone.                                                     *)
Crash(i) ==
  /\ boot[i] # "off" /\ Fault
  /\ boot' = [boot EXCEPT ![i] = "off"] /\ ready' = [ready EXCEPT ![i] = {}]
  /\ subscribed' = subscribed \ {i}
  /\ run' = [run EXCEPT ![i] = None]
  /\ channel' = [j \in Instances |-> [channel[j] EXCEPT ![i] = <<>>]]
  /\ Cut(On(i))
  /\ UNCHANGED <<stored, announced, seen, listing, asked>>

-----------------------------------------------------------------------------
(* Orders.                                                                 *)

(* Defect: the insert is not awaited, and may yet fail.                    *)
StoreOrderUnawaited(i) ==
  /\ boot[i] \in {"created", "listening"} /\ run[i] = None
  /\ \E o \in Orders \ stored :
       stored' \in {stored, stored \cup {o}} /\ run' = [run EXCEPT ![i] = o]
  /\ UNCHANGED <<bootVars, announced, channel, displayVars, faults>>

StoreOrder(i) ==
  /\ boot[i] \in {"created", "listening"} /\ run[i] = None
  /\ \E o \in Orders \ stored :
       stored' = stored \cup {o} /\ run' = [run EXCEPT ![i] = o]
  /\ UNCHANGED <<bootVars, announced, channel, displayVars, faults>>

(* Defect: every display of the instance is in the room.                   *)
ReceiversAll(i, o) == On(i)

(* The displays on instance i that get the order: server.to(room).         *)
Receivers(i, o) == Members(i, StoreOf[o])

Emitted(i, o) ==
  [d \in Displays |-> IF d \in Receivers(i, o) THEN seen[d] \cup {o} ELSE seen[d]]

(* Defect: without the adapter, only the own displays are reached.         *)
broadcastLocally(i) ==
  /\ run[i] # None
  /\ run' = [run EXCEPT ![i] = None]
  /\ announced' = announced \cup {run[i]}
  /\ seen' = Emitted(i, run[i])
  /\ UNCHANGED <<bootVars, stored, channel, link, rooms, listing, asked, whole, heard, faults>>

(* To the own displays, and to Redis for the instances that are subscribed *)
(* when it is published.                                                   *)
broadcastOrder(i) ==
  /\ run[i] # None
  /\ run' = [run EXCEPT ![i] = None]
  /\ announced' = announced \cup {run[i]}
  /\ seen' = Emitted(i, run[i])
  /\ channel' = [channel EXCEPT ![i] =
       [j \in Instances |-> IF j \in subscribed \ {i} THEN Append(@[j], run[i]) ELSE @[j]]]
  /\ UNCHANGED <<bootVars, stored, link, rooms, listing, asked, whole, heard, faults>>

Deliver(i, j) ==
  /\ channel[i][j] # <<>>
  /\ seen' = Emitted(j, Head(channel[i][j]))
  /\ channel' = [channel EXCEPT ![i][j] = Tail(@)]
  /\ UNCHANGED <<bootVars, run, stored, announced, link, rooms, listing, asked, whole, heard, faults>>

(* The subscriber's connection was down when the message was published.    *)
LoseMessage(i, j) ==
  /\ channel[i][j] # <<>> /\ Fault
  /\ channel' = [channel EXCEPT ![i][j] = Tail(@)]
  /\ whole' = [d \in Displays |-> whole[d] /\ link[d] # j]
  /\ UNCHANGED <<bootVars, run, stored, announced, link, rooms, seen, listing, asked, heard>>

-----------------------------------------------------------------------------
(* Displays.                                                               *)

(* handleConnection: who names a store is in its room at once.             *)
Connect(d, i) ==
  /\ link[d] = None /\ boot[i] = "listening"
  /\ link' = [link EXCEPT ![d] = i]
  /\ LET joined == IF d \in Handshakes THEN {Wants[d]} ELSE {}
     IN  /\ rooms' = [rooms EXCEPT ![d] = joined]
         /\ asked' = [asked EXCEPT ![d] = @ \cup joined]
  /\ UNCHANGED <<bootVars, orderVars, seen, listing, whole, heard, faults>>

Disconnect(d) ==
  /\ link[d] # None /\ Fault
  /\ Cut({d})
  /\ UNCHANGED <<bootVars, orderVars, seen, listing, asked>>

onSubscribe(d, s) ==
  /\ link[d] # None /\ s \notin rooms[d]
  /\ rooms' = [rooms EXCEPT ![d] = @ \cup {s}]
  /\ asked' = [asked EXCEPT ![d] = @ \cup {s}]
  /\ UNCHANGED <<bootVars, orderVars, link, seen, listing, whole, heard, faults>>

onUnsubscribe(d, s) ==
  /\ link[d] # None /\ s \in rooms[d]
  /\ rooms' = [rooms EXCEPT ![d] = @ \ {s}]
  /\ whole' = [whole EXCEPT ![d] = @ /\ s # Wants[d]]
  /\ UNCHANGED <<bootVars, orderVars, link, seen, listing, asked, heard, faults>>

(* A display begins to list, or lists again; it may do so before it has    *)
(* subscribed.                                                             *)
StartListing(d) ==
  /\ listing[d].pc \in {"no", "done"} /\ link[d] # None
  /\ listing' = [listing EXCEPT ![d] = [pc |-> "page", page |-> 1, got |-> {}]]
  /\ whole' = [whole EXCEPT ![d] = Wants[d] \in rooms[d]]
  /\ heard' = [heard EXCEPT ![d] = link[d] \in subscribed]
  /\ UNCHANGED <<bootVars, orderVars, link, rooms, seen, asked, faults>>

Rows(s) == {o \in stored : StoreOf[o] = s}

(* How many rows of its store come before o: the newest is first.          *)
Position(o) == Cardinality({p \in Rows(StoreOf[o]) : ReceivedAt[p] > ReceivedAt[o]})

(* The rows after the skipped ones, as many as a page takes.               *)
Page(s, n) == {o \in Rows(s) : Position(o) \in (n - 1) * Limit .. n * Limit - 1}

(* getManyAndCount, first query.                                           *)
ReadPage(d) ==
  /\ listing[d].pc = "page"
  /\ listing' = [listing EXCEPT ![d].pc = "count",
                                ![d].got = @ \cup Page(Wants[d], listing[d].page)]
  /\ UNCHANGED <<bootVars, orderVars, link, rooms, seen, asked, whole, heard, faults>>

HasNextPage(d, total) == listing[d].page * Limit < total

(* Second query: the total, and with it whether there is another page.     *)
CountRows(d) ==
  /\ listing[d].pc = "count"
  /\ IF HasNextPage(d, Cardinality(Rows(Wants[d])))
     THEN listing' = [listing EXCEPT ![d].pc = "page", ![d].page = @ + 1]
     ELSE listing' = [listing EXCEPT ![d].pc = "done"]
  /\ UNCHANGED <<bootVars, orderVars, link, rooms, seen, asked, whole, heard, faults>>

-----------------------------------------------------------------------------

InstanceStep(i) ==
  \/ Bootstrap(i) \/ createIOServer(i) \/ Subscribed(i) \/ Listen(i) \/ Crash(i)
  \/ StoreOrder(i) \/ broadcastOrder(i)
  \/ \E c \in {"pub", "sub"} : ClientReady(i, c) \/ ClientError(i, c)
  \/ \E j \in Instances : Deliver(i, j) \/ LoseMessage(i, j)

DisplayStep(d) ==
  \/ Disconnect(d) \/ StartListing(d) \/ ReadPage(d) \/ CountRows(d)
  \/ \E i \in Instances : Connect(d, i)
  \/ \E s \in Stores : onSubscribe(d, s) \/ onUnsubscribe(d, s)

RoomsNext ==
  \/ \E i \in Instances : InstanceStep(i)
  \/ \E d \in Displays : DisplayStep(d)

RoomsSpec == RoomsInit /\ [][RoomsNext]_roomsVars

-----------------------------------------------------------------------------

(* The state is well formed: a display is connected to an instance that    *)
(* listens, and is in rooms only while it is connected.                    *)
RoomsTypeOK ==
  /\ boot \in [Instances -> {"off", "connecting", "created", "listening", "stuck"}]
  /\ ready \in [Instances -> SUBSET {"pub", "sub"}]
  /\ \A i \in subscribed : boot[i] \in {"created", "listening"}
  /\ subscribed \subseteq Instances
  /\ run \in [Instances -> Orders \cup {None}]
  /\ announced \subseteq stored /\ stored \subseteq Orders
  /\ channel \in [Instances -> [Instances -> Seq(Orders)]]
  /\ \A i, j \in Instances : channel[i][j] \in Seq(announced)
  /\ link \in [Displays -> Instances \cup {None}]
  /\ rooms \in [Displays -> SUBSET Stores] /\ asked \in [Displays -> SUBSET Stores]
  /\ \A d \in Displays : /\ link[d] # None => boot[link[d]] = "listening"
                         /\ link[d] = None => rooms[d] = {}
  /\ seen \in [Displays -> SUBSET Orders] /\ whole \in [Displays -> BOOLEAN]
  /\ heard \in [Displays -> BOOLEAN]
  /\ listing \in [Displays -> [pc: {"no", "page", "count", "done"}, page: Nat,
                               got: SUBSET Orders]]
  /\ faults \in 0 .. MaxFaults

(* Whatever it left, rejoined or lost, a display has only been sent orders *)
(* of stores that it asked for, and only orders that are stored.           *)
OnlyAskedStores ==
  \A d \in Displays : \A o \in seen[d] : StoreOf[o] \in asked[d] /\ o \in stored

Pending(d) == \E i \in Instances : channel[i][link[d]] # <<>>

CaughtUp(d) == listing[d].pc = "done" /\ ~Pending(d)

HasAll(d) == \A o \in announced : StoreOf[o] = Wants[d] => o \in seen[d] \cup listing[d].got

(* A display that joined its room before it began to list, and was not cut *)
(* off nor unsubscribed since, nor lost a message on the way, has every    *)
(* announced order of its store, listed or sent, once it is through with   *)
(* the pages and nothing is on its way: however orders are stored and      *)
(* broadcast, here or on another instance, between its requests. It must   *)
(* have begun to list after its instance was subscribed to Redis.          *)
NoGap == \A d \in Displays : whole[d] /\ heard[d] /\ CaughtUp(d) => HasAll(d)

(* Room broadcasts "reach clients connected to any app instance": the same *)
(* for a display of an instance that listens, subscribed or not yet        *)
(* (the comment on RedisIoAdapter).                                        *)
AnyInstanceIsReached == \A d \in Displays : whole[d] /\ CaughtUp(d) => HasAll(d)
=============================================================================
