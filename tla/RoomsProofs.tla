------------------------------- MODULE RoomsProofs -----------------------------
(***************************************************************************)
(* KitchenRooms: a display has been sent what it asked for only, and lists *)
(* and receives, together, every announced order of its store, for any     *)
(* number of instances, displays and orders and any size of a page. The    *)
(* argument for the latter is GapInv: an announced order that a display    *)
(* has not got is on its way to the display's instance, or is still ahead  *)
(* in the list, where orders that come in between only move it further on. *)
(***************************************************************************)
EXTENDS KitchenRooms, SequenceTheorems, FiniteSetTheorems, TLAPS

LEMMA RoomsTypeInit == RoomsInit => RoomsTypeOK
<1> SUFFICES ASSUME RoomsInit PROVE RoomsTypeOK
  OBVIOUS
<1>1. channel \in [Instances -> [Instances -> Seq(Orders)]]
  BY EmptySeq DEF RoomsInit
<1>2. \A i, j \in Instances : channel[i][j] \in Seq(announced)
  BY EmptySeq DEF RoomsInit
<1>3. \A d \in Displays : /\ link[d] # None => boot[link[d]] = "listening"
                          /\ link[d] = None => rooms[d] = {}
  BY DEF RoomsInit
<1> QED
  BY <1>1, <1>2, <1>3, RoomsAssumption DEF RoomsInit, RoomsTypeOK, NotListing

(* The parts of the type invariant.                                        *)
BootOK ==
  /\ boot \in [Instances -> {"off", "connecting", "created", "listening", "stuck"}]
  /\ ready \in [Instances -> SUBSET {"pub", "sub"}]
  /\ \A i \in subscribed : boot[i] \in {"created", "listening"}
  /\ subscribed \subseteq Instances
  /\ faults \in 0 .. MaxFaults

OrdersOK ==
  /\ run \in [Instances -> Orders \cup {None}]
  /\ announced \subseteq stored /\ stored \subseteq Orders

ChannelOK ==
  /\ channel \in [Instances -> [Instances -> Seq(Orders)]]
  /\ \A i, j \in Instances : channel[i][j] \in Seq(announced)

DisplaysOK ==
  /\ link \in [Displays -> Instances \cup {None}]
  /\ rooms \in [Displays -> SUBSET Stores] /\ asked \in [Displays -> SUBSET Stores]
  /\ \A d \in Displays : /\ link[d] # None => boot[link[d]] = "listening"
                         /\ link[d] = None => rooms[d] = {}
  /\ seen \in [Displays -> SUBSET Orders] /\ whole \in [Displays -> BOOLEAN]
  /\ heard \in [Displays -> BOOLEAN]
  /\ listing \in [Displays -> [pc: {"no", "page", "count", "done"}, page: Nat,
                               got: SUBSET Orders]]

(* A run's order is stored before it is announced.                         *)
RunIsStored == \A i \in Instances : run[i] # None => run[i] \in stored

-----------------------------------------------------------------------------
(* Operations of the bootstrap and of orders.                              *)

BootStep(i, c) ==
  \/ Bootstrap(i) \/ ClientReady(i, c) \/ ClientError(i, c)
  \/ createIOServer(i) \/ Subscribed(i) \/ Listen(i)

LEMMA BootKeepsType ==
  ASSUME RoomsTypeOK, NEW i \in Instances, NEW c \in {"pub", "sub"},
         BootStep(i, c)
  PROVE  RoomsTypeOK'
<1>1. BootOK'
  <2>1. faults' \in 0 .. MaxFaults
    BY RoomsAssumption DEF RoomsTypeOK, BootStep, Bootstrap, createIOServer, Subscribed, Listen, ClientReady, ClientError, Fault
  <2>2. CASE Bootstrap(i)
    BY <2>1, <2>2 DEF RoomsTypeOK, BootOK, Bootstrap
  <2>3. CASE Listen(i)
    BY <2>1, <2>3 DEF RoomsTypeOK, BootOK, Listen
  <2>4. CASE ClientReady(i, c)
    BY <2>1, <2>4 DEF RoomsTypeOK, BootOK, ClientReady
  <2>5. CASE ClientError(i, c)
    BY <2>1, <2>5 DEF RoomsTypeOK, BootOK, ClientError
  <2>6. CASE createIOServer(i)
    BY <2>1, <2>6 DEF RoomsTypeOK, BootOK, createIOServer
  <2>7. CASE Subscribed(i)
    BY <2>1, <2>7 DEF RoomsTypeOK, BootOK, Subscribed
  <2> QED
    BY <2>2, <2>3, <2>4, <2>5, <2>6, <2>7 DEF BootStep
<1>2. UNCHANGED <<orderVars, displayVars>>
  BY DEF BootStep, Bootstrap, createIOServer, Subscribed, Listen, ClientReady, ClientError
<1>3. OrdersOK' /\ ChannelOK'
  BY <1>2 DEF RoomsTypeOK, OrdersOK, ChannelOK, orderVars
<1>4. \A j \in Instances : boot[j] = "listening" => boot'[j] = "listening"
  BY DEF RoomsTypeOK, BootStep, Bootstrap, createIOServer, Subscribed, Listen, ClientReady, ClientError
<1>5. DisplaysOK'
  BY <1>2, <1>4 DEF RoomsTypeOK, DisplaysOK, displayVars
<1> QED
  BY <1>1, <1>3, <1>5 DEF RoomsTypeOK, BootOK, OrdersOK, ChannelOK, DisplaysOK

LEMMA CrashKeepsType ==
  ASSUME RoomsTypeOK, NEW i \in Instances, Crash(i)
  PROVE  RoomsTypeOK'
<1>1. BootOK'
  BY RoomsAssumption DEF RoomsTypeOK, BootOK, Crash, Fault
<1>2. OrdersOK'
  BY DEF RoomsTypeOK, OrdersOK, Crash
<1>3. channel' = [j \in Instances |-> [channel[j] EXCEPT ![i] = <<>>]] /\ announced' = announced
  BY DEF Crash
<1>4. ChannelOK'
  <2>1. <<>> \in Seq(Orders) /\ <<>> \in Seq(announced)
    BY EmptySeq
  <2>2. \A j, k \in Instances : channel'[j][k] = IF k = i THEN <<>> ELSE channel[j][k]
    BY <1>3 DEF RoomsTypeOK
  <2>3. channel' \in [Instances -> [Instances -> Seq(Orders)]]
    BY <1>3, <2>1 DEF RoomsTypeOK
  <2> QED
    BY <1>3, <2>1, <2>2, <2>3 DEF RoomsTypeOK, ChannelOK
<1>5. DisplaysOK'
  <2>1. /\ link' = [d \in Displays |-> IF link[d] = i THEN None ELSE link[d]]
        /\ rooms' = [d \in Displays |-> IF link[d] = i THEN {} ELSE rooms[d]]
        /\ whole' = [d \in Displays |-> whole[d] /\ link[d] # i]
        /\ heard' = [d \in Displays |-> heard[d] /\ link[d] # i]
        /\ UNCHANGED <<asked, seen, listing>>
    BY DEF Crash, Cut, On
  <2>2. \A j \in Instances \ {i} : boot'[j] = boot[j]
    BY DEF Crash, RoomsTypeOK
  <2> QED
    BY <2>1, <2>2, RoomsAssumption DEF RoomsTypeOK, DisplaysOK
<1> QED
  BY <1>1, <1>2, <1>4, <1>5 DEF BootOK, OrdersOK, ChannelOK, DisplaysOK, RoomsTypeOK

LEMMA StoreOrderKeepsType ==
  ASSUME RoomsTypeOK, NEW i \in Instances, StoreOrder(i)
  PROVE  RoomsTypeOK'
<1>1. OrdersOK'
  BY DEF RoomsTypeOK, OrdersOK, StoreOrder
<1>2. UNCHANGED <<bootVars, announced, channel, displayVars, faults>>
  BY DEF StoreOrder
<1>3. BootOK' /\ ChannelOK' /\ DisplaysOK'
  BY <1>2 DEF RoomsTypeOK, BootOK, ChannelOK, DisplaysOK, bootVars, displayVars
<1> QED
  BY <1>1, <1>3 DEF BootOK, OrdersOK, ChannelOK, DisplaysOK, RoomsTypeOK

(* What a broadcast adds to a channel.                                     *)
LEMMA BroadcastChannel ==
  ASSUME RoomsTypeOK, NEW i \in Instances, broadcastOrder(i)
  PROVE  /\ channel' \in [Instances -> [Instances -> Seq(Orders)]]
         /\ \A j, k \in Instances :
              channel'[j][k] = IF j = i /\ k # i /\ k \in subscribed
                               THEN Append(channel[j][k], run[i]) ELSE channel[j][k]
<1>1. run[i] \in Orders
  BY DEF RoomsTypeOK, broadcastOrder
<1> DEFINE sent == [j \in Instances |->
                     IF j \in subscribed \ {i}
                     THEN Append(channel[i][j], run[i]) ELSE channel[i][j]]
<1>2. channel' = [channel EXCEPT ![i] = sent]
  BY DEF broadcastOrder
<1>3. \A j \in Instances : channel[i][j] \in Seq(Orders) /\ Append(channel[i][j], run[i]) \in Seq(Orders)
  BY <1>1, AppendProperties DEF RoomsTypeOK
<1>4. sent \in [Instances -> Seq(Orders)]
  BY <1>3
<1>5. channel' \in [Instances -> [Instances -> Seq(Orders)]]
  BY <1>2, <1>4 DEF RoomsTypeOK
<1>6. \A j \in Instances : channel'[j] = IF j = i THEN sent ELSE channel[j]
  BY <1>2 DEF RoomsTypeOK
<1>7. \A k \in Instances :
        sent[k] = IF k \in subscribed \ {i}
                  THEN Append(channel[i][k], run[i]) ELSE channel[i][k]
  OBVIOUS
<1> HIDE DEF sent
<1> QED
  BY <1>5, <1>6, <1>7

LEMMA BroadcastKeepsType ==
  ASSUME RoomsTypeOK, RunIsStored, NEW i \in Instances, broadcastOrder(i)
  PROVE  RoomsTypeOK'
<1>1. /\ run[i] \in Orders /\ run[i] \in stored /\ announced' = announced \cup {run[i]}
      /\ run' = [run EXCEPT ![i] = None] /\ stored' = stored
  BY DEF RoomsTypeOK, RunIsStored, broadcastOrder
<1>2. OrdersOK'
  BY <1>1 DEF RoomsTypeOK, OrdersOK
<1>3. ASSUME NEW j \in Instances, NEW k \in Instances PROVE channel'[j][k] \in Seq(announced')
  <2>1. channel[j][k] \in Seq(announced')
    BY <1>1, SeqMonotonic DEF RoomsTypeOK
  <2>2. Append(channel[j][k], run[i]) \in Seq(announced')
    BY <1>1, <2>1, AppendProperties
  <2> QED
    BY <2>1, <2>2, BroadcastChannel
<1>4. ChannelOK'
  BY <1>3, BroadcastChannel DEF ChannelOK
<1>5. UNCHANGED <<bootVars, link, rooms, listing, asked, whole, heard, faults>>
  BY DEF broadcastOrder
<1>6. seen' \in [Displays -> SUBSET Orders]
  BY <1>1 DEF RoomsTypeOK, broadcastOrder, Emitted
<1>7. BootOK' /\ DisplaysOK'
  BY <1>5, <1>6 DEF RoomsTypeOK, BootOK, DisplaysOK, bootVars
<1> QED
  BY <1>2, <1>4, <1>7 DEF BootOK, OrdersOK, ChannelOK, DisplaysOK, RoomsTypeOK

(* A message that is taken from a channel, delivered or lost.              *)
LEMMA TakenChannel ==
  ASSUME RoomsTypeOK, NEW i \in Instances, NEW j \in Instances, channel[i][j] # <<>>,
         channel' = [channel EXCEPT ![i][j] = Tail(@)], announced' = announced
  PROVE  /\ ChannelOK' /\ Head(channel[i][j]) \in announced
         /\ \A k, l \in Instances :
              channel'[k][l] = IF k = i /\ l = j THEN Tail(channel[i][j]) ELSE channel[k][l]
<1>1. channel' = [channel EXCEPT ![i] = [channel[i] EXCEPT ![j] = Tail(channel[i][j])]]
  BY DEF RoomsTypeOK
<1>2. \A k, l \in Instances :
        channel'[k][l] = IF k = i /\ l = j THEN Tail(channel[i][j]) ELSE channel[k][l]
  BY <1>1 DEF RoomsTypeOK
<1>3. channel[i][j] \in Seq(announced) /\ channel[i][j] \in Seq(Orders)
  BY DEF RoomsTypeOK
<1>4. /\ Head(channel[i][j]) \in announced
      /\ Tail(channel[i][j]) \in Seq(announced) /\ Tail(channel[i][j]) \in Seq(Orders)
  BY <1>3, HeadTailProperties
<1>5. channel' \in [Instances -> [Instances -> Seq(Orders)]]
  BY <1>1, <1>4 DEF RoomsTypeOK
<1>6. \A k, l \in Instances : channel'[k][l] \in Seq(announced')
  BY <1>2, <1>4 DEF RoomsTypeOK
<1> QED
  BY <1>2, <1>4, <1>5, <1>6 DEF ChannelOK

LEMMA DeliverKeepsType ==
  ASSUME RoomsTypeOK, NEW i \in Instances, NEW j \in Instances, Deliver(i, j)
  PROVE  RoomsTypeOK'
<1>1. ChannelOK' /\ Head(channel[i][j]) \in Orders
  BY TakenChannel DEF Deliver, RoomsTypeOK
<1>2. UNCHANGED <<bootVars, run, stored, announced, link, rooms, listing, asked, whole, heard, faults>>
  BY DEF Deliver
<1>3. seen' \in [Displays -> SUBSET Orders]
  BY <1>1 DEF RoomsTypeOK, Deliver, Emitted
<1>4. BootOK' /\ OrdersOK' /\ DisplaysOK'
  BY <1>2, <1>3 DEF RoomsTypeOK, BootOK, OrdersOK, DisplaysOK, bootVars
<1> QED
  BY <1>1, <1>4 DEF BootOK, OrdersOK, ChannelOK, DisplaysOK, RoomsTypeOK

LEMMA LoseMessageKeepsType ==
  ASSUME RoomsTypeOK, NEW i \in Instances, NEW j \in Instances, LoseMessage(i, j)
  PROVE  RoomsTypeOK'
<1>1. ChannelOK'
  BY TakenChannel DEF LoseMessage
<1>2. UNCHANGED <<bootVars, run, stored, announced, link, rooms, seen, listing, asked, heard>>
  BY DEF LoseMessage
<1>3. whole' \in [Displays -> BOOLEAN]
  BY DEF LoseMessage
<1>4. faults' \in 0 .. MaxFaults
  BY RoomsAssumption DEF LoseMessage, Fault, RoomsTypeOK
<1>5. BootOK' /\ OrdersOK' /\ DisplaysOK'
  BY <1>2, <1>3, <1>4 DEF RoomsTypeOK, BootOK, OrdersOK, DisplaysOK, bootVars
<1> QED
  BY <1>1, <1>5 DEF BootOK, OrdersOK, ChannelOK, DisplaysOK, RoomsTypeOK

-----------------------------------------------------------------------------
(* Operations of the displays.                                             *)

LEMMA DisplayKeepsType ==
  ASSUME RoomsTypeOK, NEW d \in Displays, DisplayStep(d)
  PROVE  RoomsTypeOK'
<1>1. UNCHANGED <<bootVars, orderVars>> /\ faults' \in 0 .. MaxFaults
  BY RoomsAssumption DEF DisplayStep, Disconnect, StartListing, ReadPage, CountRows, Connect,
     onSubscribe, onUnsubscribe, RoomsTypeOK, Fault
<1>2. BootOK' /\ OrdersOK' /\ ChannelOK'
  BY <1>1 DEF RoomsTypeOK, BootOK, OrdersOK, ChannelOK, bootVars, orderVars
<1>3. boot' = boot
  BY <1>1 DEF bootVars
<1>4. ASSUME Disconnect(d) PROVE DisplaysOK'
  BY <1>3, <1>4 DEF Disconnect, Cut, RoomsTypeOK, DisplaysOK
<1>5. ASSUME StartListing(d) PROVE DisplaysOK'
  BY <1>3, <1>5 DEF StartListing, RoomsTypeOK, DisplaysOK
<1> DEFINE Walk == [pc: {"no", "page", "count", "done"}, page: Nat, got: SUBSET Orders]
<1>a. listing \in [Displays -> Walk] /\ listing[d] \in Walk
  BY DEF RoomsTypeOK
<1>6. ASSUME ReadPage(d) PROVE DisplaysOK'
  <2>1. Page(Wants[d], listing[d].page) \subseteq Orders
    BY DEF Page, Rows, RoomsTypeOK
  <2> DEFINE read == [listing[d] EXCEPT !.pc = "count",
                                        !.got = @ \cup Page(Wants[d], listing[d].page)]
  <2>2. read \in Walk
    BY <1>a, <2>1
  <2>3. listing' = [listing EXCEPT ![d] = read]
    BY <1>6, <1>a DEF ReadPage
  <2> HIDE DEF read
  <2>4. listing' \in [Displays -> Walk]
    BY <1>a, <2>2, <2>3
  <2> QED
    BY <1>3, <1>6, <2>4 DEF ReadPage, RoomsTypeOK, DisplaysOK
<1>7. ASSUME CountRows(d) PROVE DisplaysOK'
  <2>1. PICK walk \in Walk : listing' = [listing EXCEPT ![d] = walk]
    <3> DEFINE next == [listing[d] EXCEPT !.pc = "page", !.page = @ + 1]
               done == [listing[d] EXCEPT !.pc = "done"]
    <3>1. listing[d].page + 1 \in Nat
      BY <1>a
    <3>2. next \in Walk
      BY <1>a, <3>1
    <3>3. done \in Walk
      BY <1>a
    <3>4. listing' = [listing EXCEPT ![d] = next] \/ listing' = [listing EXCEPT ![d] = done]
      BY <1>7, <1>a DEF CountRows
    <3> HIDE DEF next, done, Walk
    <3> QED
      BY <3>2, <3>3, <3>4
  <2>2. listing' \in [Displays -> Walk]
    BY <1>a, <2>1
  <2> QED
    BY <1>3, <1>7, <2>2 DEF CountRows, RoomsTypeOK, DisplaysOK
<1>8. ASSUME NEW i \in Instances, Connect(d, i) PROVE DisplaysOK'
  <2> DEFINE joined == IF d \in Handshakes THEN {Wants[d]} ELSE {}
  <2>0. joined \in SUBSET Stores
    BY RoomsAssumption
  <2>1. /\ rooms' = [rooms EXCEPT ![d] = joined]
        /\ asked' = [asked EXCEPT ![d] = @ \cup joined]
    BY <1>8 DEF Connect
  <2> HIDE DEF joined
  <2>2. /\ rooms' \in [Displays -> SUBSET Stores] /\ asked' \in [Displays -> SUBSET Stores]
        /\ \A e \in Displays \ {d} : rooms'[e] = rooms[e]
    BY <2>0, <2>1 DEF RoomsTypeOK
  <2>3. /\ link' = [link EXCEPT ![d] = i] /\ boot[i] = "listening" /\ i # None
        /\ UNCHANGED <<seen, listing, whole, heard>>
    BY <1>8, RoomsAssumption DEF Connect
  <2> QED
    BY <1>3, <2>2, <2>3 DEF RoomsTypeOK, DisplaysOK
<1>9. ASSUME NEW s \in Stores, onSubscribe(d, s) PROVE DisplaysOK'
  BY <1>3, <1>9 DEF onSubscribe, RoomsTypeOK, DisplaysOK
<1>10. ASSUME NEW s \in Stores, onUnsubscribe(d, s) PROVE DisplaysOK'
  BY <1>3, <1>10 DEF onUnsubscribe, RoomsTypeOK, DisplaysOK
<1>11. DisplaysOK'
  BY <1>4, <1>5, <1>6, <1>7, <1>8, <1>9, <1>10 DEF DisplayStep, DisplaysOK
<1> QED
  BY <1>2, <1>11 DEF BootOK, OrdersOK, ChannelOK, DisplaysOK, RoomsTypeOK

(* Every step is one of these.                                             *)
LEMMA StepIsOneOf ==
  ASSUME [RoomsNext]_roomsVars
  PROVE  \/ UNCHANGED roomsVars
         \/ \E d \in Displays : DisplayStep(d)
         \/ \E i \in Instances :
              \/ Crash(i) \/ StoreOrder(i) \/ broadcastOrder(i)
              \/ \E c \in {"pub", "sub"} :
                   BootStep(i, c)
              \/ \E j \in Instances : Deliver(i, j) \/ LoseMessage(i, j)
<1>1. "pub" \in {"pub", "sub"}
  OBVIOUS
<1> QED
  BY <1>1, Zenon DEF RoomsNext, InstanceStep, BootStep

LEMMA RunIsStoredStep ==
  ASSUME RoomsTypeOK, RunIsStored, [RoomsNext]_roomsVars
  PROVE  RunIsStored' /\ stored \subseteq stored'
<1>1. CASE UNCHANGED <<run, stored>>
  BY <1>1 DEF RunIsStored
<1>2. ASSUME NEW d \in Displays, DisplayStep(d) PROVE UNCHANGED <<run, stored>>
  BY <1>2 DEF DisplayStep, Disconnect, StartListing, ReadPage, CountRows, Connect, onSubscribe,
              onUnsubscribe, orderVars
<1>3. ASSUME NEW i \in Instances, Crash(i) \/ broadcastOrder(i)
      PROVE  RunIsStored' /\ stored \subseteq stored'
  <2>1. run' = [run EXCEPT ![i] = None] /\ stored' = stored
    BY <1>3 DEF Crash, broadcastOrder
  <2> QED
    BY <2>1 DEF RunIsStored, RoomsTypeOK
<1>4. ASSUME NEW i \in Instances, StoreOrder(i) PROVE RunIsStored' /\ stored \subseteq stored'
  BY <1>4 DEF StoreOrder, RunIsStored, RoomsTypeOK
<1>5. ASSUME NEW i \in Instances, NEW c \in {"pub", "sub"},
             BootStep(i, c)
      PROVE  UNCHANGED <<run, stored>>
  BY <1>5 DEF BootStep, Bootstrap, createIOServer, Subscribed, Listen, ClientReady, ClientError, orderVars
<1>6. ASSUME NEW i \in Instances, NEW j \in Instances, Deliver(i, j) \/ LoseMessage(i, j)
      PROVE  UNCHANGED <<run, stored>>
  BY <1>6 DEF Deliver, LoseMessage
<1> QED
  BY <1>1, <1>2, <1>3, <1>4, <1>5, <1>6, StepIsOneOf DEF roomsVars

LEMMA RoomsTypeStep ==
  ASSUME RoomsTypeOK, RunIsStored, [RoomsNext]_roomsVars
  PROVE  RoomsTypeOK'
<1>1. CASE UNCHANGED roomsVars
  BY <1>1 DEF RoomsTypeOK, roomsVars
<1> QED
  BY <1>1, StepIsOneOf, DisplayKeepsType, CrashKeepsType, StoreOrderKeepsType,
     BroadcastKeepsType, BootKeepsType, DeliverKeepsType, LoseMessageKeepsType

(* The state of instances, channels and displays is well formed            *)
(* (RedisIoAdapter, KitchenGateway).                                       *)
THEOREM RoomsTypeCorrect == RoomsSpec => [](RoomsTypeOK /\ RunIsStored)
<1>1. RoomsInit => RunIsStored
  BY DEF RoomsInit, RunIsStored
<1> QED
  BY <1>1, RoomsTypeInit, RoomsTypeStep, RunIsStoredStep, PTL DEF RoomsSpec

-----------------------------------------------------------------------------

(* What a display is in, it asked for, and so is what it was sent.         *)
AskedInv == OnlyAskedStores /\ \A d \in Displays : rooms[d] \subseteq asked[d]

(* A step that sends nothing and forgets no request.                       *)
LEMMA NothingSent ==
  ASSUME AskedInv, seen' = seen, stored \subseteq stored',
         \A d \in Displays : asked[d] \subseteq asked'[d] /\ rooms'[d] \subseteq asked'[d]
  PROVE  AskedInv'
BY DEF AskedInv, OnlyAskedStores

(* A stored order is sent to the displays in its store's room.             *)
LEMMA OrderSent ==
  ASSUME AskedInv, NEW i, NEW o \in stored, seen' = Emitted(i, o),
         UNCHANGED <<stored, rooms, asked>>
  PROVE  AskedInv'
<1>1. \A d \in Displays : seen'[d] = seen[d] \/ (seen'[d] = seen[d] \cup {o} /\ StoreOf[o] \in rooms[d])
  BY DEF Emitted, Receivers, Members
<1> QED
  BY <1>1 DEF AskedInv, OnlyAskedStores

LEMMA AskedInvStep ==
  ASSUME RoomsTypeOK, RunIsStored, AskedInv, [RoomsNext]_roomsVars
  PROVE  AskedInv'
<1>0. stored \subseteq stored'
  BY RunIsStoredStep
<1>1. ASSUME UNCHANGED <<seen, rooms, asked>> PROVE AskedInv'
  BY <1>0, <1>1, NothingSent DEF AskedInv
<1>2. ASSUME NEW d \in Displays, DisplayStep(d) PROVE AskedInv'
  <2>1. seen' = seen
    BY <1>2 DEF DisplayStep, Disconnect, StartListing, ReadPage, CountRows, Connect,
                onSubscribe, onUnsubscribe
  <2>2. ASSUME NEW e \in Displays
        PROVE  asked[e] \subseteq asked'[e] /\ rooms'[e] \subseteq asked'[e]
    <3>1. rooms[e] \subseteq asked[e]
      BY DEF AskedInv
    <3>2. CASE StartListing(d) \/ ReadPage(d) \/ CountRows(d)
      BY <3>1, <3>2 DEF StartListing, ReadPage, CountRows
    <3>3. CASE Disconnect(d)
      BY <3>1, <3>3 DEF Disconnect, Cut
    <3>4. ASSUME NEW i \in Instances, Connect(d, i)
          PROVE  asked[e] \subseteq asked'[e] /\ rooms'[e] \subseteq asked'[e]
      BY <3>1, <3>4 DEF Connect, RoomsTypeOK
    <3>5. ASSUME NEW s \in Stores, onSubscribe(d, s)
          PROVE  asked[e] \subseteq asked'[e] /\ rooms'[e] \subseteq asked'[e]
      BY <3>1, <3>5 DEF onSubscribe, RoomsTypeOK
    <3>6. ASSUME NEW s \in Stores, onUnsubscribe(d, s)
          PROVE  asked[e] \subseteq asked'[e] /\ rooms'[e] \subseteq asked'[e]
      BY <3>1, <3>6 DEF onUnsubscribe, RoomsTypeOK
    <3> QED
      BY <1>2, <3>2, <3>3, <3>4, <3>5, <3>6 DEF DisplayStep
  <2> QED
    BY <1>0, <2>1, <2>2, NothingSent
<1>3. ASSUME NEW i \in Instances, Crash(i) PROVE AskedInv'
  <2>1. seen' = seen /\ asked' = asked /\ \A d \in Displays : rooms'[d] \in {{}, rooms[d]}
    BY <1>3 DEF Crash, Cut
  <2>2. \A d \in Displays : asked[d] \subseteq asked'[d] /\ rooms'[d] \subseteq asked'[d]
    BY <2>1 DEF AskedInv
  <2> QED
    BY <1>0, <2>1, <2>2, NothingSent
<1>4. ASSUME NEW i \in Instances, broadcastOrder(i) PROVE AskedInv'
  BY <1>4, OrderSent DEF broadcastOrder, RunIsStored
<1>5. ASSUME NEW i \in Instances, NEW j \in Instances, Deliver(i, j) PROVE AskedInv'
  <2>1. Head(channel[i][j]) \in stored
    BY <1>5, TakenChannel DEF Deliver, RoomsTypeOK
  <2> QED
    BY <1>5, <2>1, OrderSent DEF Deliver
<1>6. ASSUME NEW i \in Instances, StoreOrder(i) PROVE AskedInv'
  BY <1>1, <1>6 DEF StoreOrder, displayVars
<1>7. ASSUME NEW i \in Instances, NEW c \in {"pub", "sub"},
             BootStep(i, c)
      PROVE  AskedInv'
  BY <1>1, <1>7 DEF BootStep, Bootstrap, createIOServer, Subscribed, Listen, ClientReady, ClientError, displayVars
<1>8. ASSUME NEW i \in Instances, NEW j \in Instances, LoseMessage(i, j) PROVE AskedInv'
  BY <1>1, <1>8 DEF LoseMessage
<1> QED
  BY <1>1, <1>2, <1>3, <1>4, <1>5, <1>6, <1>7, <1>8, StepIsOneOf DEF roomsVars

(* Whatever it left, rejoined or lost, a display has only been sent orders *)
(* of stores that it asked for, and only stored ones                       *)
(* (KitchenGateway.onSubscribe, onUnsubscribe and broadcastOrder).         *)
THEOREM DisplaysGetWhatTheyAskedFor == RoomsSpec => []OnlyAskedStores
<1>1. RoomsInit => AskedInv
  BY DEF RoomsInit, AskedInv, OnlyAskedStores
<1>2. AskedInv => OnlyAskedStores
  BY DEF AskedInv
<1> QED
  BY <1>1, <1>2, AskedInvStep, RoomsTypeCorrect, PTL DEF RoomsSpec

-----------------------------------------------------------------------------

(* An order is on its way to an instance.                                  *)
Travelling(o, j) == \E i \in Instances : \E n \in 1 .. Len(channel[i][j]) : channel[i][j][n] = o

(* An order is on the pages that a display has yet to read.                *)
Ahead(d, o) ==
  \/ listing[d].pc = "page" /\ Position(o) >= (listing[d].page - 1) * Limit
  \/ listing[d].pc = "count" /\ Position(o) >= listing[d].page * Limit

Accounted(d, o) ==
  o \in seen[d] \cup listing[d].got \/ Travelling(o, link[d]) \/ Ahead(d, o)

Unbroken(d) == whole[d] /\ heard[d]

NothingMissed(d) ==
  Unbroken(d) => /\ link[d] \in Instances /\ link[d] \in subscribed /\ Wants[d] \in rooms[d]
                 /\ listing[d].pc # "no" /\ listing[d].page >= 1
                 /\ \A o \in announced : StoreOf[o] = Wants[d] => Accounted(d, o)

GapInv == IsFiniteSet(stored) /\ \A d \in Displays : NothingMissed(d)

(* Orders that come in only move an order further on, and it comes after   *)
(* fewer rows than there are.                                              *)
LEMMA PositionGrows ==
  ASSUME NEW o \in stored, IsFiniteSet(stored), IsFiniteSet(stored'),
         stored \subseteq stored', stored' \subseteq Orders
  PROVE  /\ Position(o) \in Nat /\ Position(o)' \in Nat /\ Position(o) <= Position(o)'
         /\ Cardinality(Rows(StoreOf[o])) \in Nat
         /\ Position(o) < Cardinality(Rows(StoreOf[o]))
<1> DEFINE before == {p \in Rows(StoreOf[o]) : ReceivedAt[p] > ReceivedAt[o]}
           later == {p \in Rows(StoreOf[o])' : ReceivedAt[p] > ReceivedAt[o]}
           all == Rows(StoreOf[o])
<1>1. Position(o) = Cardinality(before) /\ Position(o)' = Cardinality(later)
  BY DEF Position
<1>2. later \subseteq stored' /\ before \subseteq later /\ all \subseteq stored
  BY DEF Rows
<1>3. ReceivedAt[o] \in Nat /\ o \in all
  BY RoomsAssumption DEF Rows
<1>4. before \subseteq all /\ o \notin before
  BY <1>3
<1> HIDE DEF before, later, all
<1>5. IsFiniteSet(later) /\ IsFiniteSet(all)
  BY <1>2, FS_Subset
<1>6. IsFiniteSet(before) /\ Cardinality(before) <= Cardinality(later)
  BY <1>2, <1>5, FS_Subset
<1>7. Cardinality(before) \in Nat /\ Cardinality(later) \in Nat /\ Cardinality(all) \in Nat
  BY <1>5, <1>6, FS_CardinalityType
<1>8. Cardinality(before) <= Cardinality(all) /\ Cardinality(before) # Cardinality(all)
  BY <1>3, <1>4, <1>5, FS_Subset
<1>9. Cardinality(all) = Cardinality(Rows(StoreOf[o]))
  BY DEF all
<1> QED
  BY <1>1, <1>6, <1>7, <1>8, <1>9

LEMMA PageBounds ==
  ASSUME RoomsTypeOK, NEW d \in Displays, listing[d].page >= 1
  PROVE  /\ listing[d].page \in Nat /\ listing[d].page - 1 \in Nat /\ Limit \in Nat
         /\ listing[d].page * Limit \in Nat /\ (listing[d].page - 1) * Limit \in Nat
<1>1. listing[d].page \in Nat /\ Limit \in Nat
  BY RoomsAssumption DEF RoomsTypeOK
<1>2. \A m, n \in Nat : m * n \in Nat
  OBVIOUS
<1>3. listing[d].page - 1 \in Nat
  BY <1>1
<1> QED
  BY <1>1, <1>2, <1>3

-----------------------------------------------------------------------------
(* Steps that leave a display's listing alone and lose nothing it waits    *)
(* for.                                                                    *)
LEMMA StillAccounted ==
  ASSUME RoomsTypeOK, NEW d \in Displays, Unbroken(d), NothingMissed(d),
         IsFiniteSet(stored), IsFiniteSet(stored'), stored \subseteq stored', stored' \subseteq Orders,
         NEW o \in announced, StoreOf[o] = Wants[d],
         link'[d] = link[d], listing'[d] = listing[d], seen[d] \subseteq seen'[d],
         Travelling(o, link[d]) => Travelling(o, link[d])' \/ o \in seen'[d]
  PROVE  Accounted(d, o)'
<1>1. o \in stored
  BY DEF RoomsTypeOK
<1>2. Position(o) \in Nat /\ Position(o)' \in Nat /\ Position(o) <= Position(o)'
  BY <1>1, PositionGrows
<1>3. listing[d].page * Limit \in Nat /\ (listing[d].page - 1) * Limit \in Nat
  BY PageBounds DEF NothingMissed
<1>4. Ahead(d, o) => Ahead(d, o)'
  BY <1>2, <1>3 DEF Ahead
<1>5. Accounted(d, o)
  BY DEF NothingMissed
<1> QED
  BY <1>4, <1>5 DEF Accounted, Travelling

LEMMA NothingNewMissed ==
  ASSUME RoomsTypeOK, RoomsTypeOK', NEW d \in Displays, NothingMissed(d),
         IsFiniteSet(stored), IsFiniteSet(stored'), stored \subseteq stored',
         Unbroken(d)' => /\ Unbroken(d) /\ link'[d] = link[d] /\ listing'[d] = listing[d]
                      /\ seen[d] \subseteq seen'[d] /\ Wants[d] \in rooms'[d]
                      /\ link[d] \in subscribed'
                      /\ announced' = announced
                      /\ \A o \in announced : StoreOf[o] = Wants[d] /\ Travelling(o, link[d])
                             => Travelling(o, link[d])' \/ o \in seen'[d]
  PROVE  NothingMissed(d)'
<1>1. CASE ~Unbroken(d)'
  BY <1>1 DEF NothingMissed
<1>2. CASE Unbroken(d)'
  <2>1. stored' \subseteq Orders
    BY DEF RoomsTypeOK
  <2>2. ASSUME NEW o \in announced', StoreOf[o] = Wants[d] PROVE Accounted(d, o)'
    BY <1>2, <2>1, <2>2, StillAccounted
  <2>3. /\ link'[d] \in Instances /\ link'[d] \in subscribed' /\ Wants[d] \in rooms'[d]
        /\ listing'[d].pc # "no" /\ listing'[d].page >= 1
    BY <1>2 DEF NothingMissed
  <2> QED
    BY <2>2, <2>3 DEF NothingMissed
<1> QED
  BY <1>1, <1>2

LEMMA DatabaseIsFinite ==
  ASSUME RoomsTypeOK, IsFiniteSet(stored), [RoomsNext]_roomsVars
  PROVE  IsFiniteSet(stored')
<1>1. CASE UNCHANGED stored
  BY <1>1
<1>2. ASSUME NEW d \in Displays, DisplayStep(d) PROVE UNCHANGED stored
  BY <1>2 DEF DisplayStep, Disconnect, StartListing, ReadPage, CountRows, Connect, onSubscribe,
              onUnsubscribe, orderVars
<1>3. ASSUME NEW i \in Instances, Crash(i) \/ broadcastOrder(i) PROVE UNCHANGED stored
  BY <1>3 DEF Crash, broadcastOrder
<1>4. ASSUME NEW i \in Instances, StoreOrder(i) PROVE IsFiniteSet(stored')
  <2>1. PICK o \in Orders : stored' = stored \cup {o}
    BY <1>4 DEF StoreOrder
  <2> QED
    BY <2>1, FS_AddElement
<1>5. ASSUME NEW i \in Instances, NEW c \in {"pub", "sub"}, BootStep(i, c)
      PROVE  UNCHANGED stored
  BY <1>5 DEF BootStep, Bootstrap, createIOServer, Subscribed, Listen, ClientReady, ClientError,
              orderVars
<1>6. ASSUME NEW i \in Instances, NEW j \in Instances, Deliver(i, j) \/ LoseMessage(i, j)
      PROVE  UNCHANGED stored
  BY <1>6 DEF Deliver, LoseMessage
<1> QED
  BY <1>1, <1>2, <1>3, <1>4, <1>5, <1>6, StepIsOneOf DEF roomsVars

-----------------------------------------------------------------------------
(* A display's own steps. Those of another display leave it alone.         *)
LEMMA DisplayMissesNothing ==
  ASSUME RoomsTypeOK, RoomsTypeOK', GapInv, NEW e \in Displays, DisplayStep(e),
         NEW d \in Displays
  PROVE  NothingMissed(d)'
<1>1. UNCHANGED <<stored, announced, channel, seen, subscribed>>
  BY DEF DisplayStep, Disconnect, StartListing, ReadPage, CountRows, Connect, onSubscribe,
         onUnsubscribe, orderVars, bootVars
<1>2. /\ NothingMissed(d) /\ IsFiniteSet(stored) /\ IsFiniteSet(stored')
      /\ announced \subseteq stored /\ stored \subseteq Orders
  BY <1>1 DEF GapInv, RoomsTypeOK
<1>3. \A o : Travelling(o, link[d]) /\ link'[d] = link[d] => Travelling(o, link[d])'
  BY <1>1 DEF Travelling
<1>4. ASSUME Unbroken(d)' => /\ Unbroken(d) /\ link'[d] = link[d] /\ listing'[d] = listing[d]
                             /\ Wants[d] \in rooms'[d]
      PROVE  NothingMissed(d)'
  <2>1. Unbroken(d)' => link[d] \in subscribed'
    BY <1>1, <1>2, <1>4 DEF NothingMissed
  <2> QED
    BY <1>1, <1>2, <1>3, <1>4, <2>1, NothingNewMissed
<1>5. \A o : Position(o)' = Position(o)
  BY <1>1 DEF Position, Rows
<1>6. CASE Disconnect(e)
  <2>1. /\ link' = [c \in Displays |-> IF c \in {e} THEN None ELSE link[c]]
        /\ rooms' = [c \in Displays |-> IF c \in {e} THEN {} ELSE rooms[c]]
        /\ whole' = [c \in Displays |-> whole[c] /\ c \notin {e}] /\ listing' = listing
        /\ heard' = [c \in Displays |-> heard[c] /\ c \notin {e}]
    BY <1>6 DEF Disconnect, Cut
  <2> QED
    BY <1>2, <1>4, <2>1 DEF NothingMissed, Unbroken
<1>7. CASE StartListing(e)
  <2>1. CASE d # e
    <3>1. /\ link' = link /\ rooms' = rooms /\ listing'[d] = listing[d]
          /\ whole'[d] = whole[d] /\ heard'[d] = heard[d]
      BY <1>7, <2>1 DEF StartListing, RoomsTypeOK
    <3> QED
      BY <1>2, <1>4, <3>1 DEF NothingMissed, Unbroken
  <2>2. CASE d = e
    <3>1. /\ listing'[d] = [pc |-> "page", page |-> 1, got |-> {}] /\ link[d] # None
          /\ listing'[d].pc # "no" /\ listing'[d].page >= 1
          /\ whole'[d] => Wants[d] \in rooms'[d]
          /\ heard'[d] => link'[d] \in subscribed'
          /\ link'[d] = link[d]
      <4>1. /\ listing' = [listing EXCEPT ![d] = [pc |-> "page", page |-> 1, got |-> {}]]
            /\ UNCHANGED <<link, rooms>> /\ link[d] # None
        BY <1>7, <2>2 DEF StartListing
      <4>2. listing'[d] = [pc |-> "page", page |-> 1, got |-> {}]
        BY <4>1 DEF RoomsTypeOK
      <4>3. whole' = [whole EXCEPT ![d] = Wants[d] \in rooms[d]]
        BY <1>7, <2>2 DEF StartListing
      <4>4. whole'[d] => Wants[d] \in rooms[d]
        BY <4>3, Zenon DEF RoomsTypeOK
      <4>5. heard' = [heard EXCEPT ![d] = link[d] \in subscribed]
        BY <1>7, <2>2 DEF StartListing
      <4>6. heard'[d] => link[d] \in subscribed
        BY <4>5, Zenon DEF RoomsTypeOK
      <4> QED
        BY <1>1, <4>1, <4>2, <4>4, <4>6
    <3>2. ASSUME NEW o \in announced PROVE Accounted(d, o)'
      <4>1. Position(o)' \in Nat /\ (1 - 1) * Limit = 0
        BY <1>1, <1>2, <1>5, PositionGrows, RoomsAssumption
      <4> QED
        BY <3>1, <4>1 DEF Ahead, Accounted
    <3>3. link[d] \in Instances
      BY <3>1 DEF RoomsTypeOK
    <3> QED
      BY <1>1, <3>1, <3>2, <3>3 DEF NothingMissed, Unbroken
  <2> QED
    BY <2>1, <2>2
<1>8. CASE ReadPage(e) \/ CountRows(e)
  <2>0. UNCHANGED <<link, rooms, whole, heard>>
    BY <1>8 DEF ReadPage, CountRows
  <2>1. CASE d # e \/ ~Unbroken(d)
    BY <1>2, <1>4, <1>8, <2>0, <2>1 DEF ReadPage, CountRows, NothingMissed, Unbroken, RoomsTypeOK
  <2>2. CASE d = e /\ Unbroken(d)
    <3>1. /\ listing[d].page \in Nat /\ listing[d].page - 1 \in Nat /\ Limit \in Nat
          /\ listing[d].page * Limit \in Nat /\ (listing[d].page - 1) * Limit \in Nat
      BY <1>2, <2>2, PageBounds DEF NothingMissed
    <3>2. ASSUME NEW o \in announced, StoreOf[o] = Wants[d]
          PROVE  /\ Accounted(d, o) /\ Position(o) \in Nat
                 /\ Cardinality(Rows(Wants[d])) \in Nat /\ Position(o) < Cardinality(Rows(Wants[d]))
      <4>1. o \in stored /\ stored \subseteq stored' /\ stored' \subseteq Orders
        BY <1>1, <1>2
      <4> QED
        BY <1>2, <2>2, <3>2, <4>1, PositionGrows DEF NothingMissed
    <3>3. CASE ReadPage(e)
      <4>1. /\ listing[d].pc = "page" /\ listing'[d].pc = "count"
            /\ listing'[d].page = listing[d].page
            /\ listing'[d].got = listing[d].got \cup Page(Wants[d], listing[d].page)
        BY <2>2, <3>3 DEF ReadPage, RoomsTypeOK
      <4>2. ASSUME NEW o \in announced, StoreOf[o] = Wants[d] PROVE Accounted(d, o)'
        <5>1. CASE Ahead(d, o)
          <6>1. Position(o) \in Nat /\ Position(o) >= (listing[d].page - 1) * Limit
            BY <3>2, <4>1, <4>2, <5>1 DEF Ahead
          <6>2. CASE Position(o) >= listing[d].page * Limit
            BY <1>5, <4>1, <6>2 DEF Ahead, Accounted
          <6>3. CASE ~(Position(o) >= listing[d].page * Limit)
            <7>1. Position(o) \in (listing[d].page - 1) * Limit .. listing[d].page * Limit - 1
              BY <3>1, <6>1, <6>3
            <7>2. o \in Page(Wants[d], listing[d].page)
              BY <1>2, <4>2, <7>1 DEF Page, Rows
            <7> QED
              BY <4>1, <7>2 DEF Accounted
          <6> QED
            BY <6>2, <6>3
        <5>2. CASE ~Ahead(d, o)
          BY <1>1, <1>3, <2>0, <3>2, <4>1, <4>2, <5>2 DEF Accounted
        <5> QED
          BY <5>1, <5>2
      <4> QED
        BY <1>1, <1>2, <2>0, <2>2, <4>1, <4>2 DEF NothingMissed, Unbroken
    <3>4. CASE CountRows(e)
      <4>1. /\ listing[d].pc = "count" /\ listing'[d].got = listing[d].got
            /\ \/ listing'[d].pc = "page" /\ listing'[d].page = listing[d].page + 1
               \/ /\ listing'[d].pc = "done" /\ listing'[d].page = listing[d].page
                  /\ ~(listing[d].page * Limit < Cardinality(Rows(Wants[d])))
        BY <2>2, <3>4 DEF CountRows, HasNextPage, RoomsTypeOK
      <4>2. ASSUME NEW o \in announced, StoreOf[o] = Wants[d] PROVE Accounted(d, o)'
        <5>1. CASE Ahead(d, o)
          <6>1. Position(o) >= listing[d].page * Limit
            BY <4>1, <5>1 DEF Ahead
          <6>2. listing'[d].pc = "page" /\ listing'[d].page = listing[d].page + 1
            BY <3>1, <3>2, <4>1, <4>2, <6>1
          <6>3. listing'[d].page - 1 = listing[d].page
            BY <3>1, <6>2
          <6>4. Position(o)' >= (listing'[d].page - 1) * Limit
            BY <1>5, <6>1, <6>3
          <6> QED
            BY <6>2, <6>4 DEF Ahead, Accounted
        <5>2. CASE ~Ahead(d, o)
          BY <1>1, <1>3, <2>0, <3>2, <4>1, <4>2, <5>2 DEF Accounted
        <5> QED
          BY <5>1, <5>2
      <4>3. listing'[d].pc # "no" /\ listing'[d].page >= 1
        BY <1>2, <2>2, <3>1, <4>1 DEF NothingMissed
      <4> QED
        BY <1>1, <1>2, <2>0, <2>2, <4>2, <4>3 DEF NothingMissed, Unbroken
    <3> QED
      BY <1>8, <3>3, <3>4
  <2> QED
    BY <2>1, <2>2
<1>9. ASSUME NEW i \in Instances, Connect(e, i) PROVE NothingMissed(d)'
  BY <1>2, <1>4, <1>9, RoomsAssumption DEF Connect, NothingMissed, Unbroken, RoomsTypeOK
<1>10. ASSUME NEW s \in Stores, onSubscribe(e, s) PROVE NothingMissed(d)'
  BY <1>2, <1>4, <1>10 DEF onSubscribe, NothingMissed, Unbroken, RoomsTypeOK
<1>11. ASSUME NEW s \in Stores, onUnsubscribe(e, s) PROVE NothingMissed(d)'
  <2>1. UNCHANGED <<link, listing>>
    BY <1>11 DEF onUnsubscribe
  <2>2. Unbroken(d)' => Unbroken(d) /\ (d = e => s # Wants[d])
    <3>1. heard' = heard /\ whole' = [whole EXCEPT ![e] = whole[e] /\ s # Wants[e]]
      BY <1>11 DEF onUnsubscribe
    <3>2. whole'[d] => whole[d] /\ (d = e => s # Wants[d])
      BY <3>1, Zenon DEF RoomsTypeOK
    <3> QED
      BY <3>1, <3>2 DEF Unbroken
  <2>3. rooms'[d] = IF d = e THEN rooms[d] \ {s} ELSE rooms[d]
    <3>1. rooms' = [rooms EXCEPT ![e] = rooms[e] \ {s}]
      BY <1>11 DEF onUnsubscribe
    <3>2. DOMAIN rooms = Displays
      BY DEF RoomsTypeOK
    <3> QED
      BY <3>1, <3>2
  <2> QED
    BY <1>2, <1>4, <2>1, <2>2, <2>3 DEF NothingMissed
<1> QED
  BY <1>6, <1>7, <1>8, <1>9, <1>10, <1>11 DEF DisplayStep

(* A broadcast order is sent to the displays in the room on the worker's   *)
(* instance and is on its way to every other instance that is subscribed.  *)
LEMMA BroadcastMissesNothing ==
  ASSUME RoomsTypeOK, RoomsTypeOK', GapInv, NEW i \in Instances, broadcastOrder(i),
         NEW d \in Displays
  PROVE  NothingMissed(d)'
<1>1. /\ UNCHANGED <<stored, subscribed, link, rooms, listing, whole, heard>> /\ run[i] \in Orders
      /\ announced' = announced \cup {run[i]} /\ seen' = Emitted(i, run[i])
  BY DEF broadcastOrder, bootVars, RoomsTypeOK
<1>2. CASE ~Unbroken(d)
  BY <1>1, <1>2 DEF NothingMissed, Unbroken
<1>3. CASE Unbroken(d)
  <2>1. /\ link[d] \in Instances /\ Wants[d] \in rooms[d] /\ IsFiniteSet(stored)
        /\ link[d] \in subscribed /\ NothingMissed(d)
    BY <1>3, RoomsAssumption DEF GapInv, NothingMissed, RoomsTypeOK
  <2>2. seen[d] \subseteq seen'[d]
    BY <1>1 DEF Emitted
  <2>3. ASSUME NEW o, Travelling(o, link[d]) PROVE Travelling(o, link[d])'
    <3>0. PICK k \in Instances : \E n \in 1 .. Len(channel[k][link[d]]) : channel[k][link[d]][n] = o
      BY <2>3 DEF Travelling
    <3>1. PICK n \in 1 .. Len(channel[k][link[d]]) : channel[k][link[d]][n] = o
      BY <3>0
    <3>2. channel[k][link[d]] \in Seq(Orders)
      BY <2>1 DEF RoomsTypeOK
    <3>3. \/ channel'[k][link[d]] = channel[k][link[d]]
          \/ channel'[k][link[d]] = Append(channel[k][link[d]], run[i])
      BY <2>1, BroadcastChannel
    <3>4. n \in 1 .. Len(channel'[k][link[d]]) /\ channel'[k][link[d]][n] = o
      <4> DEFINE old == channel[k][link[d]]
                 new == channel'[k][link[d]]
      <4>1. old \in Seq(Orders) /\ n \in 1 .. Len(old) /\ old[n] = o
        BY <3>1, <3>2
      <4>2. new = old \/ new = Append(old, run[i])
        BY <3>3
      <4> HIDE DEF old, new
      <4>3. Len(old) \in Nat
        BY <4>1, LenProperties
      <4>4. n \in 1 .. Len(new) /\ new[n] = o
        BY <1>1, <4>1, <4>2, <4>3, AppendProperties
      <4> QED
        BY <4>4 DEF new
    <3> QED
      BY <1>1, <3>4 DEF Travelling
  <2>4. ASSUME NEW o \in announced, StoreOf[o] = Wants[d] PROVE Accounted(d, o)'
    BY <1>1, <1>3, <2>1, <2>2, <2>3, <2>4, StillAccounted DEF RoomsTypeOK
  <2>5. ASSUME NEW o, o = run[i], StoreOf[o] = Wants[d] PROVE Accounted(d, o)'
    <3>1. CASE link[d] = i
      <4>1. d \in Receivers(i, o)
        BY <2>1, <2>5, <3>1 DEF Receivers, Members, On
      <4> QED
        BY <1>1, <2>5, <4>1 DEF Accounted, Emitted
    <3>2. CASE link[d] # i
      <4> DEFINE sent == channel'[i][link[d]]
      <4>1. sent = Append(channel[i][link[d]], o)
        BY <2>1, <2>5, <3>2, BroadcastChannel
      <4>2. channel[i][link[d]] \in Seq(Orders)
        BY <2>1 DEF RoomsTypeOK
      <4>3. Len(sent) \in 1 .. Len(sent) /\ sent[Len(sent)] = o
        BY <1>1, <2>5, <4>1, <4>2, AppendProperties, LenProperties
      <4> HIDE DEF sent
      <4>4. \E n \in 1 .. Len(sent) : sent[n] = o
        BY <4>3
      <4>5. Travelling(o, link[d])'
        BY <1>1, <4>4 DEF Travelling, sent
      <4> QED
        BY <4>5 DEF Accounted
    <3> QED
      BY <3>1, <3>2
  <2> QED
    BY <1>1, <1>3, <2>1, <2>4, <2>5 DEF NothingMissed
<1> QED
  BY <1>2, <1>3

(* A message taken from the channel to another instance, or another        *)
(* message, leaves an order on its way.                                    *)
LEMMA TakingLeavesTheRest ==
  ASSUME RoomsTypeOK, NEW i \in Instances, NEW j \in Instances, channel[i][j] # <<>>,
         channel' = [channel EXCEPT ![i][j] = Tail(@)], announced' = announced, link' = link,
         NEW d \in Displays, link[d] \in Instances,
         NEW o, Travelling(o, link[d]), link[d] # j \/ o # Head(channel[i][j])
  PROVE  Travelling(o, link[d])'
<1>0. PICK k \in Instances : \E n \in 1 .. Len(channel[k][link[d]]) : channel[k][link[d]][n] = o
  BY DEF Travelling
<1>1. PICK n \in 1 .. Len(channel[k][link[d]]) : channel[k][link[d]][n] = o
  BY <1>0
<1>2. channel'[k][link[d]] = IF k = i /\ link[d] = j THEN Tail(channel[i][j])
                                                     ELSE channel[k][link[d]]
  <2>1. \A l, t \in Instances :
          channel'[l][t] = IF l = i /\ t = j THEN Tail(channel[i][j]) ELSE channel[l][t]
    BY TakenChannel
  <2> QED
    BY <2>1
<1>3. CASE ~(k = i /\ link[d] = j)
  BY <1>1, <1>2, <1>3 DEF Travelling
<1>4. CASE k = i /\ link[d] = j
  <2> DEFINE s == channel[i][j]
  <2>1. s \in Seq(Orders) /\ s # <<>> /\ n \in 1 .. Len(s) /\ s[n] = o /\ o # Head(s)
    BY <1>1, <1>4 DEF RoomsTypeOK
  <2>2. channel'[i][link'[d]] = Tail(s)
    BY <1>2, <1>4
  <2> HIDE DEF s
  <2>3. n # 1 /\ Len(s) \in Nat
    BY <2>1, LenProperties
  <2>4. n - 1 \in 1 .. Len(Tail(s)) /\ Tail(s)[n - 1] = o
    BY <2>1, <2>3, HeadTailProperties
  <2>5. \E m \in 1 .. Len(Tail(s)) : Tail(s)[m] = o
    BY <2>4
  <2> QED
    BY <2>2, <2>5 DEF Travelling
<1> QED
  BY <1>3, <1>4

LEMMA DeliverMissesNothing ==
  ASSUME RoomsTypeOK, RoomsTypeOK', GapInv, NEW i \in Instances, NEW j \in Instances,
         Deliver(i, j), NEW d \in Displays
  PROVE  NothingMissed(d)'
<1>1. /\ channel[i][j] # <<>> /\ channel' = [channel EXCEPT ![i][j] = Tail(@)]
      /\ seen' = Emitted(j, Head(channel[i][j]))
      /\ UNCHANGED <<stored, announced, subscribed, link, rooms, listing, whole, heard>>
  BY DEF Deliver, bootVars
<1>2. /\ NothingMissed(d) /\ IsFiniteSet(stored) /\ IsFiniteSet(stored')
      /\ seen[d] \subseteq seen'[d]
  BY <1>1 DEF GapInv, Emitted
<1>3. ASSUME Unbroken(d), NEW o \in announced, StoreOf[o] = Wants[d], Travelling(o, link[d])
      PROVE  Travelling(o, link[d])' \/ o \in seen'[d]
  <2>1. link[d] \in Instances /\ Wants[d] \in rooms[d]
    BY <1>2, <1>3 DEF NothingMissed
  <2>2. CASE link[d] = j /\ o = Head(channel[i][j])
    <3>1. d \in Receivers(j, o)
      BY <1>3, <2>1, <2>2 DEF Receivers, Members, On
    <3> QED
      BY <1>1, <2>2, <3>1 DEF Emitted
  <2>3. CASE ~(link[d] = j /\ o = Head(channel[i][j]))
    BY <1>1, <1>3, <2>1, <2>3, TakingLeavesTheRest
  <2> QED
    BY <2>2, <2>3
<1>4. Unbroken(d)' => /\ Unbroken(d) /\ link'[d] = link[d] /\ listing'[d] = listing[d]
                      /\ link[d] \in subscribed' /\ Wants[d] \in rooms'[d]
                      /\ announced' = announced
  BY <1>1, <1>2 DEF NothingMissed, Unbroken
<1> QED
  BY <1>1, <1>2, <1>3, <1>4, NothingNewMissed

LEMMA LossMissesNothing ==
  ASSUME RoomsTypeOK, RoomsTypeOK', GapInv, NEW i \in Instances, NEW j \in Instances,
         LoseMessage(i, j), NEW d \in Displays
  PROVE  NothingMissed(d)'
<1>1. /\ channel[i][j] # <<>> /\ channel' = [channel EXCEPT ![i][j] = Tail(@)]
      /\ whole' = [c \in Displays |-> whole[c] /\ link[c] # j]
      /\ UNCHANGED <<stored, announced, subscribed, link, rooms, seen, listing, heard>>
  BY DEF LoseMessage, bootVars
<1>2. NothingMissed(d) /\ IsFiniteSet(stored) /\ IsFiniteSet(stored')
  BY <1>1 DEF GapInv
<1>3. Unbroken(d)' => Unbroken(d) /\ link[d] # j
  BY <1>1 DEF Unbroken
<1>4. ASSUME Unbroken(d)', NEW o, Travelling(o, link[d]) PROVE Travelling(o, link[d])'
  BY <1>1, <1>2, <1>3, <1>4, TakingLeavesTheRest DEF NothingMissed
<1>5. Unbroken(d)' => link[d] \in subscribed' /\ Wants[d] \in rooms'[d]
  BY <1>1, <1>2, <1>3 DEF NothingMissed
<1> QED
  BY <1>1, <1>2, <1>3, <1>4, <1>5, NothingNewMissed

LEMMA CrashMissesNothing ==
  ASSUME RoomsTypeOK, RoomsTypeOK', GapInv, NEW i \in Instances, Crash(i), NEW d \in Displays
  PROVE  NothingMissed(d)'
<1>1. /\ channel' = [j \in Instances |-> [channel[j] EXCEPT ![i] = <<>>]]
      /\ link' = [c \in Displays |-> IF link[c] = i THEN None ELSE link[c]]
      /\ rooms' = [c \in Displays |-> IF link[c] = i THEN {} ELSE rooms[c]]
      /\ whole' = [c \in Displays |-> whole[c] /\ link[c] # i]
      /\ heard' = [c \in Displays |-> heard[c] /\ link[c] # i]
      /\ subscribed' = subscribed \ {i}
      /\ UNCHANGED <<stored, announced, seen, listing>>
  BY DEF Crash, Cut, On
<1>2. NothingMissed(d) /\ IsFiniteSet(stored) /\ IsFiniteSet(stored')
  BY <1>1 DEF GapInv
<1>3. Unbroken(d)' => /\ Unbroken(d) /\ link[d] # i /\ link'[d] = link[d]
                      /\ link[d] \in Instances /\ link[d] \in subscribed'
                      /\ Wants[d] \in rooms'[d]
  BY <1>1, <1>2 DEF NothingMissed, Unbroken
<1>4. ASSUME Unbroken(d)', NEW o, Travelling(o, link[d]) PROVE Travelling(o, link[d])'
  <2>1. \A k \in Instances : channel'[k][link[d]] = channel[k][link[d]]
    BY <1>1, <1>3, <1>4 DEF RoomsTypeOK
  <2> QED
    BY <1>3, <1>4, <2>1 DEF Travelling
<1> QED
  BY <1>1, <1>2, <1>3, <1>4, NothingNewMissed

LEMMA GapInvStep ==
  ASSUME RoomsTypeOK, RunIsStored, GapInv, [RoomsNext]_roomsVars
  PROVE  GapInv'
<1>1. RoomsTypeOK' /\ IsFiniteSet(stored)' /\ stored \subseteq stored'
  BY RoomsTypeStep, RunIsStoredStep, DatabaseIsFinite DEF GapInv
<1>2. SUFFICES ASSUME NEW d \in Displays PROVE NothingMissed(d)'
  BY <1>1 DEF GapInv
<1>3. NothingMissed(d) /\ IsFiniteSet(stored) /\ IsFiniteSet(stored')
  BY <1>1 DEF GapInv
<1>4. ASSUME UNCHANGED <<announced, channel, displayVars>>, subscribed \subseteq subscribed'
      PROVE  NothingMissed(d)'
  <2>1. UNCHANGED <<announced, channel, link, rooms, seen, listing, whole, heard>>
    BY <1>4 DEF displayVars
  <2>2. \A o : Travelling(o, link[d]) => Travelling(o, link[d])'
    BY <2>1 DEF Travelling
  <2>3. Unbroken(d)' => Unbroken(d) /\ link[d] \in subscribed' /\ Wants[d] \in rooms'[d]
    BY <1>3, <1>4, <2>1 DEF NothingMissed, Unbroken
  <2> QED
    BY <1>1, <1>3, <2>1, <2>2, <2>3, NothingNewMissed
<1>5. CASE UNCHANGED roomsVars
  BY <1>4, <1>5 DEF roomsVars, displayVars
<1>6. ASSUME NEW i \in Instances, StoreOrder(i) PROVE NothingMissed(d)'
  BY <1>4, <1>6 DEF StoreOrder, bootVars
<1>7. ASSUME NEW i \in Instances, NEW c \in {"pub", "sub"},
             BootStep(i, c)
      PROVE  NothingMissed(d)'
  BY <1>4, <1>7 DEF BootStep, Bootstrap, createIOServer, Subscribed, Listen, ClientReady, ClientError, orderVars
<1> QED
  BY <1>1, <1>5, <1>6, <1>7, StepIsOneOf, DisplayMissesNothing, BroadcastMissesNothing,
     DeliverMissesNothing, LossMissesNothing, CrashMissesNothing

(* Once a display is through with the pages and nothing is on its way to   *)
(* it, no announced order is left to be ahead or travelling.               *)
LEMMA GapInvImpliesNoGap == ASSUME RoomsTypeOK, GapInv PROVE NoGap
<1> SUFFICES ASSUME NEW d \in Displays, whole[d], heard[d], listing[d].pc = "done", ~Pending(d),
                    NEW o \in announced, StoreOf[o] = Wants[d]
             PROVE  o \in seen[d] \cup listing[d].got
  BY DEF NoGap, CaughtUp, HasAll
<1>1. Accounted(d, o)
  BY DEF GapInv, NothingMissed, Unbroken
<1>2. ~Travelling(o, link[d])
  <2>1. \A i \in Instances : channel[i][link[d]] = <<>>
    BY DEF Pending
  <2>2. Len(<<>>) = 0
    BY EmptySeq
  <2> QED
    BY <2>1, <2>2 DEF Travelling
<1> QED
  BY <1>1, <1>2 DEF Accounted, Ahead

(* A display that joined its store's room before it began to list, on an   *)
(* instance that Redis had subscribed by then, and was not cut off nor lost*)
(* a message since, has every announced order of its store, listed or sent,*)
(* when it is through and nothing is on its way                            *)
(* (KitchenGateway.handleConnection and broadcastOrder,                    *)
(* OrdersQueryService.list, RedisIoAdapter).                               *)
THEOREM SubscribeThenListMissesNothing == RoomsSpec => []NoGap
<1>1. RoomsInit => GapInv
  BY FS_EmptySet DEF RoomsInit, GapInv, NothingMissed, Unbroken
<1> QED
  BY <1>1, GapInvStep, GapInvImpliesNoGap, RoomsTypeCorrect, PTL DEF RoomsSpec
=============================================================================
