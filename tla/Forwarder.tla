----------------------------- MODULE Forwarder -----------------------------
(***************************************************************************)
(* What a node of the emulator promises its neighbours: it keeps one FIFO  *)
(* per side and destination and one per namespace, refuses a packet only   *)
(* when the FIFO is full, and sends from the head of any of them, with the *)
(* next hop of the packet's own destination in the slot of that moment.    *)
(* Threads, shares, turns and bursts are not seen from outside.  Datapath  *)
(* implements it; Rotor connects several.                                  *)
(***************************************************************************)
EXTENDS Naturals, Sequences

CONSTANTS Dests,       \* the nodes of the worker file
          Self,        \* this one
          Namespaces,  \* its namespaces
          Slots,
          Route,       \* [Dests -> [Slots -> next hop]]
          QueueSize,
          Packets,     \* records with at least dest, ns
          Undefined

VARIABLES topo,        \* the slot last read
          queue,       \* queue -> its packets
          refused,     \* numbers of the packets that found their queue full
          out          \* outlet -> frames sent and not yet taken from it

vars == <<topo, queue, refused, out>>

DestQueues == {"local", "transit"} \X Dests
VethQueues == {"veth"} \X Namespaces
Nic == <<"nic", 0>>

(* Where a packet may be put: from a namespace on the local side, from the *)
(* network on the transit side, or it is for a namespace of this node.     *)
Places(p) == IF p.dest = Self THEN {<<"veth", p.ns>>}
             ELSE {"local", "transit"} \X {p.dest}

Framed(p) == [id |-> p.id, from |-> p.from, dest |-> p.dest, ns |-> p.ns, slot |-> topo,
              hop |-> IF topo \in Slots THEN Route[p.dest][topo] ELSE Undefined]

Init == /\ topo \in Slots \cup {0}
        /\ queue = [q \in DestQueues \cup VethQueues |-> <<>>]
        /\ refused = {}
        /\ out = [o \in {Nic} \cup VethQueues |-> <<>>]

ReadTime == topo' \in Slots /\ UNCHANGED <<queue, refused, out>>

Accept(p) == \E q \in Places(p) :
               /\ Len(queue[q]) < QueueSize
               /\ queue' = [queue EXCEPT ![q] = Append(@, p)]
               /\ UNCHANGED refused

Refuse(p) == /\ \E q \in Places(p) : Len(queue[q]) = QueueSize
             /\ refused' = refused \cup {p.id}
             /\ UNCHANGED queue

Receive == \E p \in Packets : (Accept(p) \/ Refuse(p)) /\ UNCHANGED <<topo, out>>

Send(q) == /\ queue[q] # <<>>
           /\ queue' = [queue EXCEPT ![q] = Tail(@)]
           /\ out' = IF q \in VethQueues THEN [out EXCEPT ![q] = Append(@, Head(queue[q]))]
                     ELSE [out EXCEPT ![Nic] = Append(@, Framed(Head(queue[q])))]
           /\ UNCHANGED <<topo, refused>>

(* The network or a namespace takes what was sent. *)
Take(o) == /\ out[o] # <<>>
           /\ out' = [out EXCEPT ![o] = Tail(@)]
           /\ UNCHANGED <<topo, queue, refused>>

Next == \/ ReadTime
        \/ Receive
        \/ \E q \in DOMAIN queue : Send(q)
        \/ \E o \in DOMAIN out : Take(o)

(* Every queue is served whatever the others hold. *)
Spec == Init /\ [][Next]_vars /\ \A q \in DestQueues \cup VethQueues : WF_vars(Send(q))
=============================================================================
