------------------------------- MODULE Rotor -------------------------------
(***************************************************************************)
(* The emulated network: nodes that read the slot each from its own clock  *)
(* and relay packets to one another.  A packet's next hop is looked up     *)
(* anew at every node, in the slot which that node read last, so the nodes *)
(* of one path may follow different slots.                                 *)
(*                                                                         *)
(* A node is used as Forwarder promises, and shown to keep that promise;   *)
(* Datapath shows it of the threads.  The model starts when every node has *)
(* read its clock.                                                         *)
(***************************************************************************)
EXTENDS Naturals, Sequences

CONSTANTS NNodes,     \* lines of the worker file
          Routes,     \* the route files: node -> destination -> slot -> next hop
          SlotTime,   \* slot_time_ns
          CycleTime,  \* cycle_time_ns
          QueueSize,  \* MAX_BURST_TX_OBJS
          MaxNow,     \* bound: the last time at which the clock is looked at
          MaxPackets, \* bound: packets sent by the namespaces
          Undefined

Nodes == 1..NNodes
NSlots == CycleTime \div SlotTime
Slots == 1..NSlots
Ids == 1..MaxPackets

ASSUME ClockAssumption == /\ SlotTime \in Nat \ {0} /\ CycleTime \in Nat \ {0}
                          /\ CycleTime % SlotTime = 0
ASSUME BoundsAssumption == /\ NNodes \in Nat \ {0} /\ QueueSize \in Nat \ {0}
                           /\ MaxNow \in Nat /\ MaxPackets \in Nat
ASSUME RoutesAssumption == Routes \in [Nodes -> [Nodes -> [Slots -> Nat]]]

(* The schedule: in each slot some measure of distance shrinks at every    *)
(* hop.  The files of config/ and of the test set-ups are of this kind.    *)
ASSUME ScheduleAssumption ==
  \A s \in Slots, d \in Nodes :
    \E distance \in [Nodes -> 0..NNodes] :
      \A n \in Nodes \ {d} : /\ Routes[n][d][s] \in Nodes
                             /\ distance[Routes[n][d][s]] < distance[n]

Queues == ({"local", "transit"} \X Nodes) \cup {<<"veth", 0>>}

VARIABLES now,        \* PTP time
          topo,       \* node -> the slot it read last
          packets,    \* packets sent so far
          queue,      \* node -> queue -> packets
          refused,    \* node -> packets that found their queue full
          wire,       \* node -> frames it has sent that have not arrived
          delivered,  \* node -> packets given to its namespace, in order
          lost,       \* packets lost at a port without buffers
          way         \* packet -> its headers so far (history)

vars == <<now, topo, packets, queue, refused, wire, delivered, lost, way>>

(* slots: all its headers named; trail: the nodes that wrote the latest    *)
(* ones, back to the last change of slot.                                  *)
NoWay == [slots |-> {}, slot |-> 0, trail |-> <<>>]

Init == /\ now = 0
        /\ topo = [n \in Nodes |-> 1]
        /\ packets = 0
        /\ queue = [n \in Nodes |-> [q \in Queues |-> <<>>]]
        /\ refused = [n \in Nodes |-> {}]
        /\ wire = [n \in Nodes |-> <<>>]
        /\ delivered = [n \in Nodes |-> <<>>]
        /\ lost = {}
        /\ way = [id \in Ids |-> NoWay]
-----------------------------------------------------------------------------
(* Time *)

Tick == /\ now < MaxNow
        /\ now' = now + 1
        /\ UNCHANGED <<topo, packets, queue, refused, wire, delivered, lost, way>>

SlotAt(t) == (t % CycleTime) \div SlotTime + 1

(* A slip: the loop over the clock ends before the threads do. *)
ReadTimeEarly(n) ==
  /\ topo' = [topo EXCEPT ![n] = IF now <= SlotTime THEN SlotAt(now) ELSE @]
  /\ UNCHANGED <<now, packets, queue, refused, wire, delivered, lost, way>>

ReadTime(n) ==
  /\ topo' = [topo EXCEPT ![n] = SlotAt(now)]
  /\ UNCHANGED <<now, packets, queue, refused, wire, delivered, lost, way>>
-----------------------------------------------------------------------------
(* Receiving *)

(* mpmc_queue_push, or the buffer goes back to the pool. *)
Put(n, q, p) ==
  IF Len(queue[n][q]) < QueueSize
  THEN queue' = [queue EXCEPT ![n][q] = Append(@, p)] /\ UNCHANGED refused
  ELSE refused' = [refused EXCEPT ![n] = @ \cup {p.id}] /\ UNCHANGED queue

(* A namespace of n sends a packet to that of d. *)
VethReceive(n, d) ==
  /\ packets < MaxPackets /\ n # d
  /\ packets' = packets + 1
  /\ Put(n, <<"local", d>>, [id |-> packets + 1, from |-> n, dest |-> d, ns |-> 0])
  /\ UNCHANGED <<now, topo, wire, delivered, lost, way>>

(* Two slips: a relayed packet goes to the queue of the next destination,  *)
(* or to whichever side has room.                                          *)
QueueAtNext(n, p) == IF p.dest = n THEN <<"veth", 0>>
                     ELSE <<"transit", IF p.dest + 1 \in Nodes THEN p.dest + 1 ELSE 1>>

QueueAtEither(n, p) ==
  IF p.dest = n THEN <<"veth", 0>>
  ELSE IF Len(queue[n][<<"transit", p.dest>>]) < QueueSize
  THEN <<"transit", p.dest>> ELSE <<"local", p.dest>>

(* get_queue_index_for_nic_rx: the outer address is that of the packet's   *)
(* own destination all the way.                                            *)
QueueAt(n, p) == IF p.dest = n THEN <<"veth", 0>> ELSE <<"transit", p.dest>>

NicReceive(n) ==
  /\ wire[n] # <<>>
  /\ LET f == Head(wire[n])
     IN /\ f.hop \in Nodes
        /\ Put(f.hop, QueueAt(f.hop, f),
               [id |-> f.id, from |-> f.from, dest |-> f.dest, ns |-> f.ns])
  /\ wire' = [wire EXCEPT ![n] = Tail(@)]
  /\ UNCHANGED <<now, topo, packets, delivered, lost, way>>

(* The receiving port has no buffer in its fill ring. *)
Lose(n) ==
  /\ wire[n] # <<>>
  /\ lost' = lost \cup {Head(wire[n]).id}
  /\ wire' = [wire EXCEPT ![n] = Tail(@)]
  /\ UNCHANGED <<now, topo, packets, queue, refused, delivered, way>>
-----------------------------------------------------------------------------
(* Sending *)

Extended(w, n, s) == [slots |-> w.slots \cup {s}, slot |-> s,
                      trail |-> IF w.slot = s THEN Append(w.trail, n) ELSE <<n>>]

Sent(n, q, k) ==
  LET p == queue[n][q][k]
  IN /\ wire' = [wire EXCEPT ![n] =
                   Append(@, [id |-> p.id, from |-> p.from, dest |-> p.dest, ns |-> p.ns,
                              slot |-> topo[n], hop |-> Routes[n][q[2]][topo[n]]])]
     /\ way' = [way EXCEPT ![p.id] = Extended(@, n, topo[n])]

(* A slip: a relayed packet keeps the column of its first header. *)
ForwardSameSlot(n, q) ==
  /\ queue[n][q] # <<>>
  /\ LET p == Head(queue[n][q])
         s == IF way[p.id].slot = 0 THEN topo[n] ELSE way[p.id].slot
     IN /\ wire' = [wire EXCEPT ![n] =
                      Append(@, [id |-> p.id, from |-> p.from, dest |-> p.dest, ns |-> p.ns,
                                 slot |-> s, hop |-> Routes[n][q[2]][s]])]
        /\ way' = [way EXCEPT ![p.id] = Extended(@, n, s)]
  /\ queue' = [queue EXCEPT ![n][q] = Tail(@)]
  /\ UNCHANGED <<now, topo, packets, refused, delivered, lost>>

(* A NIC TX thread pulls a packet and writes its header: the row of the    *)
(* queue's number, the column of the slot.                                 *)
Forward(n, q) ==
  /\ queue[n][q] # <<>>
  /\ Sent(n, q, 1)
  /\ queue' = [queue EXCEPT ![n][q] = Tail(@)]
  /\ UNCHANGED <<now, topo, packets, refused, delivered, lost>>

Deliver(n) ==
  LET q == <<"veth", 0>>
  IN /\ queue[n][q] # <<>>
     /\ delivered' = [delivered EXCEPT ![n] = Append(@, Head(queue[n][q]))]
     /\ queue' = [queue EXCEPT ![n][q] = Tail(@)]
     /\ UNCHANGED <<now, topo, packets, refused, wire, lost, way>>
-----------------------------------------------------------------------------
DestQueues == {"local", "transit"} \X Nodes

Next == \/ Tick
        \/ \E n \in Nodes : \/ ReadTime(n) \/ NicReceive(n) \/ Lose(n) \/ Deliver(n)
                            \/ \E d \in Nodes : VethReceive(n, d)
                            \/ \E q \in DestQueues : Forward(n, q)

Spec == Init /\ [][Next]_vars

(* The main thread polls the clock; every queue is served (Forwarder); the *)
(* network delivers or loses what it holds.                                *)
Fairness == \A n \in Nodes : /\ WF_vars(ReadTime(n))
                             /\ WF_vars(NicReceive(n) \/ Lose(n))
                             /\ WF_vars(Deliver(n))
                             /\ \A q \in DestQueues : WF_vars(Forward(n, q))

FairSpec == Spec /\ Fairness
-----------------------------------------------------------------------------
(* Correctness *)

Packets == [id : Ids, from : Nodes, dest : Nodes, ns : {0}]

Frames == [id : Ids, from : Nodes, dest : Nodes, ns : {0}, slot : Slots, hop : Nat]

(***************************************************************************)
(* Type invariant.  A header always names a slot: read_time never yields   *)
(* the column 0 or one past the last.                                      *)
(***************************************************************************)
TypeOK ==
  /\ now \in 0..MaxNow /\ packets \in 0..MaxPackets
  /\ topo \in [Nodes -> Slots]
  /\ queue \in [Nodes -> [Queues -> Seq(Packets)]]
  /\ refused \in [Nodes -> SUBSET Ids] /\ lost \in SUBSET Ids
  /\ wire \in [Nodes -> Seq(Frames)]
  /\ delivered \in [Nodes -> Seq(Packets)]
  /\ way \in [Ids -> [slots : SUBSET Slots, slot : Slots \cup {0}, trail : Seq(Nodes)]]

(***************************************************************************)
(* A packet returns to a node only after some node on its way has followed *)
(* another slot: hops of one slot never form a loop, although every node   *)
(* looks the next hop up for itself and nothing limits the hop count.      *)
(***************************************************************************)
NoLoopInSlot ==
  \A id \in 1..packets :
    LET t == way[id].trail
    IN \A k, l \in DOMAIN t : k < l => t[k] # t[l]

(***************************************************************************)
(* Two packets of a flow that were sent along in one and the same slot by  *)
(* all nodes of their way are delivered in the order they were sent.       *)
(* Across slots they may overtake each other.                              *)
(***************************************************************************)
OneSlot(p, r) == \E s \in Slots : way[p.id].slots = {s} /\ way[r.id].slots = {s}

InOrderInSlot ==
  \A n \in Nodes : \A k, l \in DOMAIN delivered[n] :
    LET p == delivered[n][k]
        r == delivered[n][l]
    IN k < l /\ p.from = r.from /\ OneSlot(p, r) => p.id < r.id

(***************************************************************************)
(* Once the slot stays, every packet in the network comes to an end: it is *)
(* delivered, or counted at a full queue, or lost at a port.  It may have  *)
(* gone back and forth between nodes that disagreed on the slot.           *)
(***************************************************************************)
Somewhere(id) ==
  \E n \in Nodes :
    \/ \E k \in DOMAIN wire[n] : wire[n][k].id = id
    \/ \E q \in Queues : \E k \in DOMAIN queue[n][q] : queue[n][q][k].id = id

EveryPacketEnds == \A id \in Ids : Somewhere(id) ~> ~Somewhere(id)

(***************************************************************************)
(* Each node is a Forwarder: the composition needs no more of a node than  *)
(* Datapath gives.                                                         *)
(***************************************************************************)
Node(n) == INSTANCE Forwarder WITH
             Dests <- Nodes, Self <- n, Namespaces <- {0}, Route <- Routes[n],
             topo <- topo[n], queue <- queue[n], refused <- refused[n],
             out <- [o \in {<<"nic", 0>>, <<"veth", 0>>} |->
                       IF o[1] = "nic" THEN wire[n] ELSE delivered[n]]

NodesKeepPromise == /\ \A n \in Nodes : Node(n)!Init
                    /\ [][\A n \in Nodes : [Node(n)!Next]_(Node(n)!vars)]_vars
=============================================================================
