------------------------------ MODULE Datapath ------------------------------
(***************************************************************************)
(* One node of the emulator, opera-v2: the loops of thread_functions_1.h   *)
(* over the queues that emu_nic.c assigns to them.  Receiving threads pick *)
(* a queue by the packet's destination; each NIC TX thread goes round its  *)
(* share of the destination queues, pulls a burst from one, writes each    *)
(* packet's next hop for the current slot and sends the burst.             *)
(*                                                                         *)
(* A queue is the FIFO of BoundedQueue, which MpmcQueue implements.  The   *)
(* threads poll; a round that finds nothing only moves on.                 *)
(***************************************************************************)
EXTENDS Naturals, Sequences, FiniteSets

CONSTANTS NDest,       \* NUM_OF_PER_DEST_QUEUES: destinations 1..NDest
          Self,        \* this node's own number among them
          NNic,        \* n_nic_ports
          NVeth,       \* veth_port_count
          QueueSize,   \* MAX_BURST_TX_OBJS
          Burst,       \* MAX_BURST_TX
          NSlots,      \* slots of a cycle
          Route,       \* the route file: [1..NDest -> [1..NSlots -> next hop]]
          MaxPackets,  \* bound: packets that arrive
          Undefined    \* the value of an uninitialised variable

Dests == 1..NDest
Slots == 1..NSlots
Nics == 0 .. NNic - 1
Veths == 0 .. NVeth - 1
DestQueues == 0 .. NDest - 1

ASSUME SizesAssumption == /\ NDest \in Nat \ {0} /\ NNic \in Nat \ {0} /\ NVeth \in Nat
                          /\ NNic <= NDest
                          /\ QueueSize \in Nat \ {0} /\ Burst \in Nat \ {0}
                          /\ NSlots \in Nat \ {0} /\ MaxPackets \in Nat
ASSUME RouteAssumption == Route \in [Dests -> [Slots -> Nat]]
ASSUME SelfAssumption == Self \in Dests

(* "local" packets come from a namespace of this node, "transit" packets   *)
(* are relayed, "veth" queues lead to the namespaces.                      *)
Queues == ({"local", "transit"} \X DestQueues) \cup ({"veth"} \X Veths)

(* The receiving and the sending thread of each port.                      *)
Threads == ({"nic"} \X Nics) \cup ({"veth"} \X Veths)

VARIABLES topo,       \* the current slot, 0 until the clock is first read
          arrived,    \* packets received so far; their number names them
          queue,      \* queue -> its packets
          dropped,    \* numbers of the packets that found their queue full
          lost,       \* and of those that no memory or no queue was found for
          turn,       \* NIC TX thread -> where it is in its round
          collector,  \* sending thread -> btx_collector
          sent        \* port -> what it was given to send, in order

vars == <<topo, arrived, queue, dropped, lost, turn, collector, sent>>

Init == /\ topo = 0
        /\ arrived = 0
        /\ queue = [q \in Queues |-> <<>>]
        /\ dropped = {} /\ lost = {}
        /\ turn = [i \in Nics |-> 0]
        /\ collector = [th \in Threads |-> <<>>]
        /\ sent = [th \in Threads |-> <<>>]

(* The main thread's read_time.  It may have slept through any number of   *)
(* slots.                                                                  *)
ReadTime == /\ topo' \in Slots \ {topo}
            /\ UNCHANGED <<arrived, queue, dropped, lost, turn, collector, sent>>
-----------------------------------------------------------------------------
(* Receiving *)

Numbered(th, d, ns) == [id |-> arrived + 1, from |-> th, dest |-> d, ns |-> ns]

(* A slip: a queue one short of its cells counts as full. *)
ArriveShort(th, d, ns, q) ==
  /\ arrived < MaxPackets
  /\ arrived' = arrived + 1
  /\ \/ /\ Len(queue[q]) < QueueSize - 1
        /\ queue' = [queue EXCEPT ![q] = Append(@, Numbered(th, d, ns))]
        /\ UNCHANGED <<dropped, lost>>
     \/ /\ Len(queue[q]) >= QueueSize - 1
        /\ dropped' = dropped \cup {arrived + 1} /\ UNCHANGED <<queue, lost>>
     \/ lost' = lost \cup {arrived + 1} /\ UNCHANGED <<queue, dropped>>
  /\ UNCHANGED <<topo, turn, collector, sent>>

(* The next packet, of a flow from thread th to namespace ns of node d, is *)
(* pushed to queue q, or dropped when mpmc_queue_push returns 0.  When     *)
(* calloc finds no memory for its burst_tx, or the queue is NULL, a line   *)
(* is printed and the packet is neither queued nor counted.                *)
Arrive(th, d, ns, q) ==
  /\ arrived < MaxPackets
  /\ arrived' = arrived + 1
  /\ \/ /\ Len(queue[q]) < QueueSize
        /\ queue' = [queue EXCEPT ![q] = Append(@, Numbered(th, d, ns))]
        /\ UNCHANGED <<dropped, lost>>
     \/ /\ Len(queue[q]) >= QueueSize
        /\ dropped' = dropped \cup {arrived + 1} /\ UNCHANGED <<queue, lost>>
     \/ lost' = lost \cup {arrived + 1} /\ UNCHANGED <<queue, dropped>>
  /\ UNCHANGED <<topo, turn, collector, sent>>

(* A packet from a namespace to another node.  The index of its queue is   *)
(* the number of its destination in the worker file, less one.             *)
VethReceive(v) ==
  \E d \in Dests \ {Self} : Arrive(<<"veth", v>>, d, 0, <<"local", d - 1>>)

(* A slip: transit packets get the index counted from 1. *)
NicReceiveFromOne(i) ==
  \/ \E d \in Dests \ {Self, NDest} : Arrive(<<"nic", i>>, d, 0, <<"transit", d>>)
  \/ \E ns \in Veths : Arrive(<<"nic", i>>, Self, ns, <<"veth", ns>>)

(* A packet from the NIC: to be relayed unless its outer destination is    *)
(* this node; then to the namespace its inner address names.               *)
NicReceive(i) ==
  \/ \E d \in Dests \ {Self} : Arrive(<<"nic", i>>, d, 0, <<"transit", d - 1>>)
  \/ \E ns \in Veths : Arrive(<<"nic", i>>, Self, ns, <<"veth", ns>>)
-----------------------------------------------------------------------------
(* Sending to the NIC *)

(* assigned_perdest_count: NIC TX thread i has the queues from i * Share. *)
Share == NDest \div NNic

(* A round: the thread's transit queues, then its local ones; w is the     *)
(* index within its share.  CurrentUnshifted is a slip: every thread gets  *)
(* the first share.                                                        *)
W(i) == turn[i] % Share
Side(i) == IF turn[i] < Share THEN "transit" ELSE "local"
CurrentUnshifted(i) == <<Side(i), W(i)>>
Current(i) == <<Side(i), i * Share + W(i)>>

(* encap_veth, encap_indirection: the next hop for row destindex and       *)
(* column topo, or none when getRouteElement refuses the column.           *)
Encapsulated(p, destindex) ==
  [id |-> p.id, from |-> p.from, dest |-> p.dest, ns |-> p.ns, slot |-> topo,
   hop |-> IF topo \in Slots THEN Route[destindex][topo] ELSE Undefined]

(* A slip: the burst is not limited. *)
PullUnlimited(i) ==
  LET th == <<"nic", i>>
      q == Current(i)
  IN /\ queue[q] # <<>>
     /\ collector' = [collector EXCEPT ![th] =
                        Append(@, Encapsulated(Head(queue[q]), W(i) + 1))]
     /\ queue' = [queue EXCEPT ![q] = Tail(@)]
     /\ UNCHANGED <<topo, arrived, dropped, lost, turn, sent>>

(* A packet is pulled; its header is written with the thread's own index   *)
(* of the queue as destination.                                            *)
Pull(i) ==
  LET th == <<"nic", i>>
      q == Current(i)
  IN /\ queue[q] # <<>> /\ Len(collector[th]) < Burst
     /\ collector' = [collector EXCEPT ![th] =
                        Append(@, Encapsulated(Head(queue[q]), W(i) + 1))]
     /\ queue' = [queue EXCEPT ![q] = Tail(@)]
     /\ UNCHANGED <<topo, arrived, dropped, lost, turn, sent>>

(* Two slips: a full collector is thrown away; the round ends after the    *)
(* transit queues.                                                         *)
FlushUnlessFull(i) ==
  LET th == <<"nic", i>>
  IN /\ queue[Current(i)] = <<>> \/ Len(collector[th]) = Burst
     /\ sent' = [sent EXCEPT ![th] = IF Len(collector[th]) < Burst
                                     THEN @ \o collector[th] ELSE @]
     /\ collector' = [collector EXCEPT ![th] = <<>>]
     /\ turn' = [turn EXCEPT ![i] = (@ + 1) % (2 * Share)]
     /\ UNCHANGED <<topo, arrived, queue, dropped, lost>>

FlushTransitOnly(i) ==
  LET th == <<"nic", i>>
  IN /\ queue[Current(i)] = <<>> \/ Len(collector[th]) = Burst
     /\ sent' = [sent EXCEPT ![th] = @ \o collector[th]]
     /\ collector' = [collector EXCEPT ![th] = <<>>]
     /\ turn' = [turn EXCEPT ![i] = (@ + 1) % Share]
     /\ UNCHANGED <<topo, arrived, queue, dropped, lost>>

(* The queue is empty or the collector is full: port_tx_burst_collector,   *)
(* and on to the next queue.                                               *)
Flush(i) ==
  LET th == <<"nic", i>>
  IN /\ queue[Current(i)] = <<>> \/ Len(collector[th]) = Burst
     /\ sent' = [sent EXCEPT ![th] = @ \o collector[th]]
     /\ collector' = [collector EXCEPT ![th] = <<>>]
     /\ turn' = [turn EXCEPT ![i] = (@ + 1) % (2 * Share)]
     /\ UNCHANGED <<topo, arrived, queue, dropped, lost>>
-----------------------------------------------------------------------------
(* Sending to a namespace: one queue, no header to write. *)

VethPull(v) ==
  LET th == <<"veth", v>>
      q == <<"veth", v>>
  IN /\ queue[q] # <<>> /\ Len(collector[th]) < Burst
     /\ collector' = [collector EXCEPT ![th] = Append(@, Head(queue[q]))]
     /\ queue' = [queue EXCEPT ![q] = Tail(@)]
     /\ UNCHANGED <<topo, arrived, dropped, lost, turn, sent>>

VethFlush(v) ==
  LET th == <<"veth", v>>
  IN /\ collector[th] # <<>>
     /\ queue[<<"veth", v>>] = <<>> \/ Len(collector[th]) = Burst
     /\ sent' = [sent EXCEPT ![th] = @ \o collector[th]]
     /\ collector' = [collector EXCEPT ![th] = <<>>]
     /\ UNCHANGED <<topo, arrived, queue, dropped, lost, turn>>
-----------------------------------------------------------------------------
Next == \/ ReadTime
        \/ \E v \in Veths : VethReceive(v) \/ VethPull(v) \/ VethFlush(v)
        \/ \E i \in Nics : NicReceive(i) \/ Pull(i) \/ Flush(i)

Spec == Init /\ [][Next]_vars

(* The sending threads never stop; nothing makes packets arrive.           *)
Fairness == /\ \A i \in Nics : WF_vars(Pull(i) \/ Flush(i))
            /\ \A v \in Veths : WF_vars(VethPull(v) \/ VethFlush(v))

FairSpec == Spec /\ Fairness
-----------------------------------------------------------------------------
(* Correctness *)

Packets == [id : 1..MaxPackets, from : Threads, dest : Dests, ns : Nat]

Frames == [id : 1..MaxPackets, from : Threads, dest : Dests, ns : Nat,
           slot : Slots \cup {0}, hop : Nat \cup {Undefined}]

(***************************************************************************)
(* Type invariant.  A queue holds no more than its cells and btx_collector *)
(* no more than its MAX_BURST_TX entries.                                  *)
(***************************************************************************)
TypeOK ==
  /\ topo \in Slots \cup {0}
  /\ arrived \in 0..MaxPackets
  /\ queue \in [Queues -> Seq(Packets)]
  /\ \A q \in Queues : Len(queue[q]) <= QueueSize
  /\ dropped \in SUBSET (1..MaxPackets) /\ lost \in SUBSET (1..MaxPackets)
  /\ turn \in [Nics -> 0 .. 2 * Share - 1]
  /\ collector \in [Threads -> Seq(Packets \cup Frames)]
  /\ \A th \in Threads : Len(collector[th]) <= Burst
  /\ sent \in [Threads -> Seq(Packets \cup Frames)]

(***************************************************************************)
(* At any moment at most one NIC TX thread is at a queue: the share of a   *)
(* thread, its place in its round and the two sides never bring two        *)
(* threads together.  MpmcQueue's progress rests on this: a queue with one *)
(* consumer, which calls available and then pull.                          *)
(***************************************************************************)
SoleConsumer == \A i, j \in Nics : i # j => Current(i) # Current(j)

(***************************************************************************)
(* A header written while the slot is known names the next hop of the      *)
(* packet's own destination in that slot.  The destination is found when   *)
(* the packet is received and reaches encap_veth and encap_indirection     *)
(* only as the number of a queue.                                          *)
(***************************************************************************)
Routed(p) == p.slot \in Slots => p.hop = Route[p.dest][p.slot]

HeadersRouted ==
  \A i \in Nics :
    /\ \A k \in DOMAIN collector[<<"nic", i>>] : Routed(collector[<<"nic", i>>][k])
    /\ \A k \in DOMAIN sent[<<"nic", i>>] : Routed(sent[<<"nic", i>>][k])

(***************************************************************************)
(* The packets that one receiving thread gets for one destination leave by *)
(* one port and in the order in which they came, whatever slots pass, and  *)
(* whichever of them are dropped.                                          *)
(***************************************************************************)
SameFlow(p, r) == p.from = r.from /\ p.dest = r.dest /\ p.ns = r.ns

FlowOrder ==
  \A th, uh \in Threads : \A k \in DOMAIN sent[th], l \in DOMAIN sent[uh] :
    SameFlow(sent[th][k], sent[uh][l]) =>
      th = uh /\ (k < l => sent[th][k].id < sent[uh][l].id)

(***************************************************************************)
(* A packet that arrived is in exactly one place: in a queue, in a         *)
(* thread's collector or sent; or in none, because it was counted as       *)
(* dropped or because there was no memory or no queue for it.  Nothing     *)
(* that was queued once is lost after that, copied or sent twice.          *)
(***************************************************************************)
Holding(f, n) ==
  UNION {{<<x, k>> : k \in {l \in DOMAIN f[x] : f[x][l].id = n}} : x \in DOMAIN f}

NothingLost ==
  \A n \in 1..arrived :
    LET Held == Cardinality(Holding(queue, n)) + Cardinality(Holding(collector, n))
                  + Cardinality(Holding(sent, n))
    IN Held = IF n \in dropped \cup lost THEN 0 ELSE 1

(***************************************************************************)
(* The NIC TX threads go round as Rounds has them go, with its fairness:   *)
(* what Rounds says of a sustained load holds of them.                     *)
(***************************************************************************)
Round == INSTANCE Rounds WITH
           len <- [q \in {"local", "transit"} \X DestQueues |-> Len(queue[q])],
           got <- [i \in Nics |-> Len(collector[<<"nic", i>>])]

GoesRound == Round!FairSpec

(***************************************************************************)
(* The threads of one node together keep the promise of Forwarder, when    *)
(* there is one NIC queue: bursts and turns only delay.  What a thread has *)
(* collected counts as sent, since the header is written when the packet   *)
(* is pulled; queue d - 1 is that of destination d.                        *)
(***************************************************************************)
Given(th) == sent[th] \o collector[th]
Inner(q) == IF q[1] = "veth" THEN q ELSE <<q[1], q[2] - 1>>

queueBar == [q \in ({"local", "transit"} \X Dests) \cup ({"veth"} \X Veths) |-> queue[Inner(q)]]
outBar == [o \in {<<"nic", 0>>} \cup ({"veth"} \X Veths) |-> Given(o)]

Promise == INSTANCE Forwarder WITH
             Namespaces <- Veths,
             Packets <- [id : 1..MaxPackets, from : Threads, dest : Dests, ns : Veths \cup {0}],
             queue <- queueBar, refused <- dropped, out <- outBar

KeepsPromise == Promise!Spec
=============================================================================
