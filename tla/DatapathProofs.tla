--------------------------- MODULE DatapathProofs ---------------------------
(***************************************************************************)
(* What Datapath.tla says of a node, for any number of destinations, NIC   *)
(* queues and namespaces, any sizes, any route file and any traffic.       *)
(***************************************************************************)
EXTENDS Datapath, Integers, FiniteSetTheorems, SequenceTheorems, TLAPS

(* Arithmetic: multiples grow with their factor. *)
LEMMA Multiples == \A a, b, n \in Nat : a <= b => a * n <= b * n
<1> SUFFICES ASSUME NEW a \in Nat, NEW b \in Nat, NEW n \in Nat, a <= b
             PROVE a * n <= b * n
  OBVIOUS
<1>1. PICK d \in Nat : b = a + d
  <2>1. b - a \in Nat /\ b = a + (b - a) OBVIOUS
  <2> QED BY <2>1
<1>2. b * n = a * n + d * n BY <1>1
<1>3. d * n \in Nat /\ a * n \in Nat OBVIOUS
<1> QED BY <1>2, <1>3

(* The shares of the NIC TX threads are not empty and fit side by side.    *)
LEMMA Shares == Share \in Nat \ {0} /\ NNic * Share <= NDest
<1>1. NDest \in Nat \ {0} /\ NNic \in Nat \ {0} /\ NNic <= NDest
  BY SizesAssumption
<1>2. Share \in Int /\ NNic * Share <= NDest /\ NDest < NNic * Share + NNic
  BY <1>1 DEF Share
<1>3. Share > 0
  <2>1. SUFFICES ASSUME Share <= 0 PROVE FALSE BY <1>2
  <2>2. PICK s \in Nat : Share = 0 - s
    <3>1. 0 - Share \in Nat /\ Share = 0 - (0 - Share) BY <1>2, <2>1
    <3> QED BY <3>1
  <2>3. NNic * Share = 0 - (NNic * s) /\ NNic * s \in Nat BY <1>1, <2>2
  <2> QED BY <1>1, <1>2, <2>3
<1> QED BY <1>2, <1>3

(* Thread i's queues start where those of thread i - 1 end.                *)
LEMMA SharesInside ==
  \A i \in Nics : \A w \in 0 .. Share - 1 : i * Share + w \in DestQueues
<1> SUFFICES ASSUME NEW i \in Nics, NEW w \in 0 .. Share - 1
             PROVE i * Share + w \in DestQueues
  OBVIOUS
<1>1. i \in Nat /\ i + 1 \in Nat /\ i + 1 <= NNic /\ NNic \in Nat
  BY SizesAssumption DEF Nics
<1>2. (i + 1) * Share <= NNic * Share BY <1>1, Shares, Multiples
<1>3. (i + 1) * Share = i * Share + Share /\ i * Share \in Nat BY <1>1, Shares
<1>4. NDest \in Nat /\ NNic * Share \in Nat BY <1>1, Shares, SizesAssumption
<1> QED BY <1>2, <1>3, <1>4, Shares DEF DestQueues

(* No two NIC queues have a destination queue in common. *)
LEMMA SharesApart ==
  \A i, j \in Nics : \A v, w \in 0 .. Share - 1 :
    i # j => i * Share + v # j * Share + w
<1>1. \A i, j \in Nics : \A v, w \in 0 .. Share - 1 :
        i < j => i * Share + v < j * Share + w
  <2> SUFFICES ASSUME NEW i \in Nics, NEW j \in Nics, i < j,
                      NEW v \in 0 .. Share - 1, NEW w \in 0 .. Share - 1
               PROVE i * Share + v < j * Share + w
    OBVIOUS
  <2>1. i \in Nat /\ j \in Nat /\ i + 1 \in Nat /\ i + 1 <= j
    BY SizesAssumption DEF Nics
  <2>2. (i + 1) * Share <= j * Share BY <2>1, Shares, Multiples
  <2>3. (i + 1) * Share = i * Share + Share BY <2>1, Shares
  <2>4. i * Share \in Nat /\ j * Share \in Nat BY <2>1, Shares
  <2> QED BY <2>2, <2>3, <2>4, Shares
<1> SUFFICES ASSUME NEW i \in Nics, NEW j \in Nics, i # j,
                    NEW v \in 0 .. Share - 1, NEW w \in 0 .. Share - 1
             PROVE i * Share + v # j * Share + w
  OBVIOUS
<1>2. i \in Nat /\ j \in Nat BY SizesAssumption DEF Nics
<1>3. i * Share \in Nat /\ j * Share \in Nat BY <1>2, Shares
<1>4. i < j \/ j < i BY <1>2
<1> QED BY <1>1, <1>3, <1>4
-----------------------------------------------------------------------------
(* Indices in a share, plus one, are destinations. *)
LEMMA ShareInDests == \A w \in 0 .. Share - 1 : w + 1 \in Dests
<1>1. NNic \in Nat /\ 1 <= NNic /\ NDest \in Nat BY SizesAssumption
<1>2. 1 * Share <= NNic * Share BY <1>1, Shares, Multiples
<1>3. Share <= NDest BY <1>1, <1>2, Shares
<1> QED BY <1>1, <1>3, Shares DEF Dests

(* Wherever a thread is in its round, it is at one of its own queues.      *)
LEMMA CurrentQueue ==
  ASSUME turn \in [Nics -> 0 .. 2 * Share - 1], NEW i \in Nics
  PROVE  /\ W(i) \in 0 .. Share - 1
         /\ Side(i) \in {"local", "transit"}
         /\ i * Share + W(i) \in DestQueues
         /\ Current(i) \in Queues
<1>1. turn[i] \in Nat /\ Share \in Nat \ {0} BY Shares
<1>2. W(i) \in 0 .. Share - 1 BY <1>1 DEF W
<1>3. Side(i) \in {"local", "transit"} BY DEF Side
<1>4. i * Share + W(i) \in DestQueues BY <1>2, SharesInside
<1> QED BY <1>2, <1>3, <1>4 DEF Current, Queues

(* What a sending thread makes is a frame. *)
LEMMA EncapsulatedFrame ==
  ASSUME topo \in Slots \cup {0}, NEW p \in Packets, NEW d \in Dests
  PROVE  Encapsulated(p, d) \in Frames
<1>1. topo \in Slots => Route[d][topo] \in Nat BY RouteAssumption
<1> QED BY <1>1 DEF Encapsulated, Packets, Frames

(* The types at the start. *)
LEMMA TypeInit == Init => TypeOK
<1> SUFFICES ASSUME Init PROVE TypeOK OBVIOUS
<1>1. 0 \in 0 .. 2 * Share - 1 BY Shares
<1>2. 0 \in 0..MaxPackets /\ QueueSize \in Nat /\ Burst \in Nat BY SizesAssumption
<1> QED BY <1>1, <1>2 DEF Init, TypeOK

(* What a packet that arrives may meet: a queue with room, or none.        *)
Joins(q, p) == /\ Len(queue[q]) < QueueSize
               /\ queue' = [queue EXCEPT ![q] = Append(@, p)]
               /\ UNCHANGED <<dropped, lost>>

Misses(q) == /\ UNCHANGED queue
             /\ \/ /\ Len(queue[q]) >= QueueSize
                   /\ dropped' = dropped \cup {arrived + 1} /\ UNCHANGED lost
                \/ lost' = lost \cup {arrived + 1} /\ UNCHANGED dropped

(* A packet that arrives joins its queue, or misses it.                    *)
LEMMA Outcomes ==
  ASSUME NEW th, NEW d, NEW ns, NEW q, Arrive(th, d, ns, q)
  PROVE  Joins(q, Numbered(th, d, ns)) \/ Misses(q)
BY DEF Arrive, Joins, Misses

(* A step that puts a packet into a queue, drops it or loses it. *)
LEMMA TypeArrive ==
  ASSUME TypeOK, NEW th \in Threads, NEW d \in Dests, NEW ns \in Nat, NEW q \in Queues,
         Arrive(th, d, ns, q)
  PROVE  TypeOK'
<1>1. arrived + 1 \in 1..MaxPackets /\ arrived' \in 0..MaxPackets
  BY SizesAssumption DEF TypeOK, Arrive
<1>2. PICK p \in Packets : p = Numbered(th, d, ns) BY <1>1 DEF Numbered, Packets
<1>3. CASE Joins(q, p)
  <2>1. Append(queue[q], p) \in Seq(Packets) /\ Len(Append(queue[q], p)) <= QueueSize
    <3>1. queue[q] \in Seq(Packets) /\ Len(queue[q]) < QueueSize BY <1>3 DEF TypeOK, Joins
    <3> QED BY <3>1, SizesAssumption
  <2>2. /\ queue' \in [Queues -> Seq(Packets)]
        /\ \A u \in Queues : Len(queue'[u]) <= QueueSize
    BY <1>3, <2>1 DEF TypeOK, Joins
  <2> QED BY <1>1, <1>3, <2>2 DEF TypeOK, Arrive, Joins
<1>4. CASE Misses(q) BY <1>1, <1>4 DEF TypeOK, Arrive, Misses
<1> QED BY <1>2, <1>3, <1>4, Outcomes

(* A step that moves the head of a queue, as x, to a collector with room. *)
LEMMA TypePulled ==
  ASSUME TypeOK, NEW th \in Threads, NEW q \in Queues, NEW x \in Packets \cup Frames,
         queue[q] # <<>>, Len(collector[th]) < Burst,
         collector' = [collector EXCEPT ![th] = Append(@, x)],
         queue' = [queue EXCEPT ![q] = Tail(@)],
         UNCHANGED <<topo, arrived, dropped, lost, turn, sent>>
  PROVE  TypeOK'
<1>1. Tail(queue[q]) \in Seq(Packets) /\ Len(Tail(queue[q])) <= QueueSize
  <2>1. queue[q] \in Seq(Packets) /\ Len(queue[q]) <= QueueSize BY DEF TypeOK
  <2> QED BY <2>1, SizesAssumption
<1>2. Append(collector[th], x) \in Seq(Packets \cup Frames) /\ Len(Append(collector[th], x)) <= Burst
  <2>1. collector[th] \in Seq(Packets \cup Frames) BY DEF TypeOK
  <2> QED BY <2>1, SizesAssumption
<1>3. /\ queue' \in [Queues -> Seq(Packets)]
      /\ \A u \in Queues : Len(queue'[u]) <= QueueSize
  BY <1>1 DEF TypeOK
<1>4. /\ collector' \in [Threads -> Seq(Packets \cup Frames)]
      /\ \A u \in Threads : Len(collector'[u]) <= Burst
  BY <1>2 DEF TypeOK
<1> QED BY <1>3, <1>4 DEF TypeOK

(* A step that sends what is in a collector. *)
LEMMA TypeFlushed ==
  ASSUME TypeOK, NEW th \in Threads,
         sent' = [sent EXCEPT ![th] = @ \o collector[th]],
         collector' = [collector EXCEPT ![th] = <<>>],
         turn' \in [Nics -> 0 .. 2 * Share - 1],
         UNCHANGED <<topo, arrived, queue, dropped, lost>>
  PROVE  TypeOK'
<1>1. sent[th] \o collector[th] \in Seq(Packets \cup Frames)
  <2>1. sent[th] \in Seq(Packets \cup Frames) /\ collector[th] \in Seq(Packets \cup Frames)
    BY DEF TypeOK
  <2> QED BY <2>1
<1>2. sent' \in [Threads -> Seq(Packets \cup Frames)] BY <1>1 DEF TypeOK
<1>3. /\ collector' \in [Threads -> Seq(Packets \cup Frames)]
      /\ \A u \in Threads : Len(collector'[u]) <= Burst
  BY SizesAssumption DEF TypeOK
<1> QED BY <1>2, <1>3 DEF TypeOK

(* Where a receiving thread may put a packet. *)
LEMMA VethArrives ==
  ASSUME NEW v \in Veths, VethReceive(v)
  PROVE  \E d \in Dests \ {Self} :
           /\ Arrive(<<"veth", v>>, d, 0, <<"local", d - 1>>)
           /\ <<"veth", v>> \in Threads /\ d - 1 \in DestQueues
           /\ <<"local", d - 1>> \in Queues
<1>1. PICK d \in Dests \ {Self} : Arrive(<<"veth", v>>, d, 0, <<"local", d - 1>>)
  BY DEF VethReceive
<1>2. d - 1 \in DestQueues BY SizesAssumption DEF Dests, DestQueues
<1> QED BY <1>1, <1>2 DEF Threads, Queues

(* A NIC receiving thread pushes on the queue of a destination or of a namespace. *)
LEMMA NicArrives ==
  ASSUME NEW i \in Nics, NicReceive(i)
  PROVE  /\ <<"nic", i>> \in Threads
         /\ \/ \E d \in Dests \ {Self} :
                 /\ Arrive(<<"nic", i>>, d, 0, <<"transit", d - 1>>)
                 /\ d - 1 \in DestQueues /\ <<"transit", d - 1>> \in Queues
            \/ \E ns \in Veths : /\ Arrive(<<"nic", i>>, Self, ns, <<"veth", ns>>)
                                 /\ <<"veth", ns>> \in Queues
<1>1. <<"nic", i>> \in Threads BY DEF Threads
<1>2. \A d \in Dests : d - 1 \in DestQueues /\ <<"transit", d - 1>> \in Queues
  BY SizesAssumption DEF Dests, DestQueues, Queues
<1>3. \A ns \in Veths : <<"veth", ns>> \in Queues BY DEF Queues
<1> QED BY <1>1, <1>2, <1>3 DEF NicReceive

(* The head of a queue is a packet. *)
LEMMA HeadOfQueue ==
  ASSUME TypeOK, NEW q \in Queues, queue[q] # <<>>
  PROVE  Head(queue[q]) \in Packets
<1>1. queue[q] \in Seq(Packets) BY DEF TypeOK
<1> QED BY <1>1

(* The round of a thread: its next turn. *)
LEMMA NextTurn ==
  ASSUME TypeOK, NEW i \in Nics, turn' = [turn EXCEPT ![i] = (@ + 1) % (2 * Share)]
  PROVE  turn' \in [Nics -> 0 .. 2 * Share - 1]
<1>1. turn \in [Nics -> 0 .. 2 * Share - 1] /\ turn[i] \in Nat BY Shares DEF TypeOK
<1>2. 2 * Share \in Nat \ {0} BY Shares
<1>3. (turn[i] + 1) % (2 * Share) \in 0 .. 2 * Share - 1 BY <1>1, <1>2
<1> QED BY <1>1, <1>3

(* Every step keeps the types. *)
LEMMA TypeStep == TypeOK /\ [Next]_vars => TypeOK'
<1> SUFFICES ASSUME TypeOK, [Next]_vars PROVE TypeOK'
  OBVIOUS
<1>1. CASE ReadTime BY <1>1 DEF ReadTime, TypeOK
<1>2. ASSUME NEW v \in Veths, VethReceive(v) PROVE TypeOK'
  BY <1>2, VethArrives, TypeArrive
<1>3. ASSUME NEW v \in Veths, VethPull(v) PROVE TypeOK'
  <2>1. <<"veth", v>> \in Threads /\ <<"veth", v>> \in Queues BY DEF Threads, Queues
  <2>2. Head(queue[<<"veth", v>>]) \in Packets \cup Frames
    BY <1>3, <2>1, HeadOfQueue DEF VethPull
  <2> QED BY <1>3, <2>1, <2>2, TypePulled DEF VethPull
<1>4. ASSUME NEW v \in Veths, VethFlush(v) PROVE TypeOK'
  <2>1. <<"veth", v>> \in Threads BY DEF Threads
  <2>2. turn' \in [Nics -> 0 .. 2 * Share - 1] BY <1>4 DEF VethFlush, TypeOK
  <2> QED BY <1>4, <2>1, <2>2, TypeFlushed DEF VethFlush
<1>5. ASSUME NEW i \in Nics, NicReceive(i) PROVE TypeOK'
  <2>1. Self \in Dests /\ 0 \in Nat /\ Veths \subseteq Nat
    BY SelfAssumption, SizesAssumption DEF Veths
  <2> QED BY <1>5, <2>1, NicArrives, TypeArrive
<1>6. ASSUME NEW i \in Nics, Pull(i) PROVE TypeOK'
  <2>1. <<"nic", i>> \in Threads BY DEF Threads
  <2>2. turn \in [Nics -> 0 .. 2 * Share - 1] /\ topo \in Slots \cup {0} BY DEF TypeOK
  <2>3. Current(i) \in Queues /\ W(i) + 1 \in Dests BY <2>2, CurrentQueue, ShareInDests
  <2>4. Head(queue[Current(i)]) \in Packets BY <1>6, <2>3, HeadOfQueue DEF Pull
  <2>5. Encapsulated(Head(queue[Current(i)]), W(i) + 1) \in Packets \cup Frames
    BY <2>2, <2>3, <2>4, EncapsulatedFrame
  <2> QED BY <1>6, <2>1, <2>3, <2>5, TypePulled DEF Pull
<1>7. ASSUME NEW i \in Nics, Flush(i) PROVE TypeOK'
  <2>1. <<"nic", i>> \in Threads BY DEF Threads
  <2>2. turn' \in [Nics -> 0 .. 2 * Share - 1] BY <1>7, NextTurn DEF Flush
  <2> QED BY <1>7, <2>1, <2>2, TypeFlushed DEF Flush
<1>8. CASE UNCHANGED vars BY <1>8 DEF vars, TypeOK
<1> QED BY <1>1, <1>2, <1>3, <1>4, <1>5, <1>6, <1>7, <1>8 DEF Next

(* No queue gets longer than its ring and no burst longer than             *)
(* btx_collector; every queue a thread names exists.                       *)
THEOREM DatapathTypeCorrect == Spec => []TypeOK
BY TypeInit, TypeStep, PTL DEF Spec

(***************************************************************************)
(* The division of the queues of main (emu_nic.c) gives every destination  *)
(* queue at most one NIC TX thread, for any number of NIC queues.          *)
(***************************************************************************)
THEOREM OneConsumerPerQueue == Spec => []SoleConsumer
<1>1. TypeOK => SoleConsumer
  <2> SUFFICES ASSUME TypeOK, NEW i \in Nics, NEW j \in Nics, i # j
               PROVE Current(i) # Current(j)
    BY DEF SoleConsumer
  <2>1. W(i) \in 0 .. Share - 1 /\ W(j) \in 0 .. Share - 1 BY CurrentQueue DEF TypeOK
  <2>2. i * Share + W(i) # j * Share + W(j) BY <2>1, SharesApart
  <2> QED BY <2>2 DEF Current
<1> QED BY <1>1, DatapathTypeCorrect, PTL
-----------------------------------------------------------------------------
(* The packets in a destination queue are for the destination whose number *)
(* the receiving thread turned into the queue's.                           *)
QueuedByDest ==
  \A side \in {"local", "transit"}, x \in DestQueues :
    \A k \in DOMAIN queue[<<side, x>>] : queue[<<side, x>>][k].dest = x + 1

HeadersInv == QueuedByDest /\ (NNic = 1 => HeadersRouted)

(* The headers' invariant at the start. *)
LEMMA HeadersInit == Init => HeadersInv
<1> SUFFICES ASSUME Init PROVE HeadersInv OBVIOUS
<1>1. \A side \in {"local", "transit"}, x \in DestQueues : <<side, x>> \in Queues
  BY DEF Queues
<1>2. QueuedByDest BY <1>1 DEF Init, QueuedByDest
<1>3. \A i \in Nics : <<"nic", i>> \in Threads BY DEF Threads
<1>4. \A i \in Nics : collector[<<"nic", i>>] = <<>> /\ sent[<<"nic", i>>] = <<>>
  BY <1>3 DEF Init
<1>5. HeadersRouted
  <2>1. DOMAIN <<>> = {} OBVIOUS
  <2> QED BY <1>4, <2>1 DEF HeadersRouted
<1> QED BY <1>2, <1>5 DEF HeadersInv

(* Only the queue that gets the packet changes. *)
LEMMA QueuedArrive ==
  ASSUME TypeOK, QueuedByDest, NEW th, NEW d \in Dests, NEW ns, NEW q \in Queues,
         Arrive(th, d, ns, q),
         \A side \in {"local", "transit"}, x \in DestQueues : q = <<side, x>> => d = x + 1
  PROVE  QueuedByDest'
<1>0. PICK p : p = Numbered(th, d, ns) OBVIOUS
<1> SUFFICES ASSUME NEW side \in {"local", "transit"}, NEW x \in DestQueues,
                    NEW k \in DOMAIN queue'[<<side, x>>]
             PROVE  queue'[<<side, x>>][k].dest = x + 1
  BY DEF QueuedByDest
<1>1. <<side, x>> \in Queues BY DEF Queues
<1>2. CASE queue'[<<side, x>>] = queue[<<side, x>>] BY <1>2 DEF QueuedByDest
<1>3. CASE queue'[<<side, x>>] # queue[<<side, x>>]
  <2>1. q = <<side, x>> /\ queue'[q] = Append(queue[q], p)
    BY <1>0, <1>1, <1>3, Outcomes DEF Joins, Misses, TypeOK
  <2>2. p.dest = x + 1 BY <1>0, <2>1 DEF Numbered
  <2>3. queue[q] \in Seq(Packets) BY DEF TypeOK
  <2>4. k \in 1 .. Len(queue[q]) + 1 BY <2>1, <2>3
  <2>5. CASE k = Len(queue[q]) + 1 BY <2>1, <2>2, <2>3, <2>5
  <2>6. CASE k \in 1 .. Len(queue[q])
    <3>1. queue'[q][k] = queue[q][k] /\ k \in DOMAIN queue[q] BY <2>1, <2>3, <2>6
    <3> QED BY <2>1, <3>1 DEF QueuedByDest
  <2> QED BY <2>3, <2>4, <2>5, <2>6
<1> QED BY <1>2, <1>3

(* The rest of a sequence. *)
LEMMA TailOf ==
  ASSUME NEW S, NEW s \in Seq(S), s # <<>>
  PROVE  /\ Tail(s) \in Seq(S) /\ Len(Tail(s)) = Len(s) - 1
         /\ \A k \in 1 .. Len(s) - 1 : Tail(s)[k] = s[k + 1]
OBVIOUS

(* Taking a packet leaves the queue with packets for its destination. *)
LEMMA QueuedPulled ==
  ASSUME TypeOK, QueuedByDest, NEW q \in Queues, queue[q] # <<>>,
         queue' = [queue EXCEPT ![q] = Tail(@)]
  PROVE  QueuedByDest'
<1> SUFFICES ASSUME NEW side \in {"local", "transit"}, NEW x \in DestQueues,
                    NEW k \in DOMAIN queue'[<<side, x>>]
             PROVE  queue'[<<side, x>>][k].dest = x + 1
  BY DEF QueuedByDest
<1>1. <<side, x>> \in Queues BY DEF Queues
<1>2. CASE q = <<side, x>>
  <2>1. queue[q] \in Seq(Packets) /\ queue'[q] = Tail(queue[q]) BY DEF TypeOK
  <2>2. queue'[q] \in Seq(Packets) /\ Len(queue'[q]) = Len(queue[q]) - 1
    BY <2>1, TailOf
  <2>3. k \in 1 .. Len(queue[q]) - 1 BY <1>2, <2>2
  <2>4. queue'[q][k] = queue[q][k + 1] BY <2>1, <2>3, TailOf
  <2>5. k + 1 \in DOMAIN queue[q] BY <2>1, <2>3
  <2> QED BY <1>2, <2>4, <2>5 DEF QueuedByDest
<1>3. CASE q # <<side, x>>
  <2>1. queue'[<<side, x>>] = queue[<<side, x>>] BY <1>1, <1>3 DEF TypeOK
  <2> QED BY <2>1 DEF QueuedByDest
<1> QED BY <1>2, <1>3

(***************************************************************************)
(* With one NIC queue the thread's index is the number of the queue, so    *)
(* the row it gives getRouteElement is the packet's destination.           *)
(***************************************************************************)
LEMMA HeaderOfHead ==
  ASSUME TypeOK, QueuedByDest, NNic = 1, NEW i \in Nics, queue[Current(i)] # <<>>
  PROVE  Routed(Encapsulated(Head(queue[Current(i)]), W(i) + 1))
<1> DEFINE q == Current(i)
<1>1. turn \in [Nics -> 0 .. 2 * Share - 1] BY DEF TypeOK
<1>2. /\ W(i) \in 0 .. Share - 1 /\ Side(i) \in {"local", "transit"}
      /\ i * Share + W(i) \in DestQueues /\ q \in Queues
  BY <1>1, CurrentQueue
<1>3. i = 0 BY DEF Nics
<1>4. i * Share + W(i) = W(i) BY <1>2, <1>3, Shares
<1>5. q = <<Side(i), W(i)>> /\ W(i) \in DestQueues BY <1>2, <1>4 DEF Current
<1>6. queue[q] \in Seq(Packets) /\ queue[q] # <<>> BY <1>2 DEF TypeOK
<1>7. 1 \in DOMAIN queue[q] /\ Head(queue[q]) = queue[q][1] BY <1>6
<1>8. Head(queue[q]).dest = W(i) + 1 BY <1>2, <1>5, <1>7 DEF QueuedByDest
<1> HIDE DEF q
<1>9. Routed(Encapsulated(Head(queue[q]), W(i) + 1)) BY <1>8 DEF Routed, Encapsulated
<1> QED BY <1>9 DEF q

(* Every frame of a sequence has the header for its destination. *)
AllRouted(s) == \A k \in DOMAIN s : Routed(s[k])

(* One more well-addressed frame. *)
LEMMA AllRoutedAppend ==
  ASSUME NEW S, NEW s \in Seq(S), NEW x \in S, AllRouted(s), Routed(x)
  PROVE  AllRouted(Append(s, x))
<1> SUFFICES ASSUME NEW k \in DOMAIN Append(s, x) PROVE Routed(Append(s, x)[k])
  BY DEF AllRouted
<1>1. k \in 1 .. Len(s) + 1 OBVIOUS
<1>2. CASE k = Len(s) + 1
  <2>1. Append(s, x)[k] = x BY <1>2
  <2> QED BY <2>1
<1>3. CASE k \in 1 .. Len(s)
  <2>1. Append(s, x)[k] = s[k] /\ k \in DOMAIN s BY <1>3
  <2> QED BY <2>1 DEF AllRouted
<1> QED BY <1>1, <1>2, <1>3

(* A burst of well-addressed frames. *)
LEMMA AllRoutedConcat ==
  ASSUME NEW S, NEW s \in Seq(S), NEW r \in Seq(S), AllRouted(s), AllRouted(r)
  PROVE  AllRouted(s \o r)
<1> SUFFICES ASSUME NEW k \in DOMAIN (s \o r) PROVE Routed((s \o r)[k])
  BY DEF AllRouted
<1>1. k \in 1 .. Len(s) + Len(r) OBVIOUS
<1>2. CASE k \in 1 .. Len(s)
  <2>1. (s \o r)[k] = s[k] /\ k \in DOMAIN s BY <1>2
  <2> QED BY <2>1 DEF AllRouted
<1>3. CASE k \in Len(s) + 1 .. Len(s) + Len(r)
  <2>1. (s \o r)[k] = r[k - Len(s)] /\ k - Len(s) \in DOMAIN r BY <1>3
  <2> QED BY <2>1 DEF AllRouted
<1> QED BY <1>1, <1>2, <1>3

(* Steps that send nothing. *)
LEMMA HeadersUnchanged ==
  ASSUME HeadersRouted, UNCHANGED <<collector, sent>>
  PROVE  HeadersRouted'
BY DEF HeadersRouted, Routed

(* A namespace's own collector and port do not matter to the headers. *)
LEMMA VethSideKeeps ==
  ASSUME TypeOK, HeadersRouted, NEW v \in Veths,
         \/ VethPull(v)
         \/ VethFlush(v)
  PROVE  HeadersRouted'
<1>1. \A i \in Nics : /\ <<"nic", i>> \in Threads /\ <<"nic", i>> # <<"veth", v>>
                      /\ collector'[<<"nic", i>>] = collector[<<"nic", i>>]
                      /\ sent'[<<"nic", i>>] = sent[<<"nic", i>>]
  BY DEF Threads, TypeOK, VethPull, VethFlush
<1>2. \A i \in Nics : AllRouted(collector'[<<"nic", i>>]) /\ AllRouted(sent'[<<"nic", i>>])
  <2> SUFFICES ASSUME NEW i \in Nics
               PROVE AllRouted(collector'[<<"nic", i>>]) /\ AllRouted(sent'[<<"nic", i>>])
    OBVIOUS
  <2>1. /\ collector'[<<"nic", i>>] = collector[<<"nic", i>>]
        /\ sent'[<<"nic", i>>] = sent[<<"nic", i>>]
    BY <1>1
  <2> QED BY <2>1 DEF HeadersRouted, AllRouted
<1> QED BY <1>2 DEF HeadersRouted, AllRouted, Routed

(* A pulled packet gets the header for its destination. *)
LEMMA PullKeepsHeaders ==
  ASSUME TypeOK, QueuedByDest, HeadersRouted, NNic = 1, NEW i \in Nics, Pull(i)
  PROVE  HeadersRouted'
<1> DEFINE th == <<"nic", i>>
           x == Encapsulated(Head(queue[Current(i)]), W(i) + 1)
<1>1. queue[Current(i)] # <<>> /\ sent' = sent
      /\ collector' = [collector EXCEPT ![th] = Append(collector[th], x)]
  BY DEF Pull
<1>2. Routed(x) BY <1>1, HeaderOfHead
<1>3. th \in Threads /\ collector[th] \in Seq(Packets \cup Frames) BY DEF Threads, TypeOK
<1>4. x \in Packets \cup Frames
  <2>1. turn \in [Nics -> 0 .. 2 * Share - 1] /\ topo \in Slots \cup {0} BY DEF TypeOK
  <2>2. Current(i) \in Queues /\ W(i) + 1 \in Dests BY <2>1, CurrentQueue, ShareInDests
  <2>3. Head(queue[Current(i)]) \in Packets BY <1>1, <2>2, HeadOfQueue
  <2> QED BY <2>1, <2>2, <2>3, EncapsulatedFrame
<1>5. AllRouted(collector[th]) BY DEF HeadersRouted, AllRouted
<1> HIDE DEF x
<1>6. AllRouted(Append(collector[th], x)) BY <1>2, <1>3, <1>4, <1>5, AllRoutedAppend
<1>7. \A j \in Nics : AllRouted(collector'[<<"nic", j>>])
  <2> SUFFICES ASSUME NEW j \in Nics PROVE AllRouted(collector'[<<"nic", j>>])
    OBVIOUS
  <2>1. CASE j = i
    <3>1. collector'[<<"nic", j>>] = Append(collector[th], x) BY <1>1, <1>3, <2>1 DEF TypeOK
    <3> QED BY <1>6, <3>1
  <2>2. CASE j # i
    <3>1. collector'[<<"nic", j>>] = collector[<<"nic", j>>]
      BY <1>1, <1>3, <2>2 DEF TypeOK, Threads
    <3> QED BY <3>1 DEF HeadersRouted, AllRouted
  <2> QED BY <2>1, <2>2
<1> QED BY <1>1, <1>7 DEF HeadersRouted, AllRouted, Routed

(* A sent burst keeps its headers. *)
LEMMA FlushKeepsHeaders ==
  ASSUME TypeOK, HeadersRouted, NEW i \in Nics, Flush(i)
  PROVE  HeadersRouted'
<1> DEFINE th == <<"nic", i>>
<1>1. /\ sent' = [sent EXCEPT ![th] = sent[th] \o collector[th]]
      /\ collector' = [collector EXCEPT ![th] = <<>>]
  BY DEF Flush
<1>2. /\ th \in Threads /\ collector[th] \in Seq(Packets \cup Frames)
      /\ sent[th] \in Seq(Packets \cup Frames)
  BY DEF Threads, TypeOK
<1>3. AllRouted(collector[th]) /\ AllRouted(sent[th]) BY DEF HeadersRouted, AllRouted
<1>4. AllRouted(sent[th] \o collector[th]) BY <1>2, <1>3, AllRoutedConcat
<1>5. AllRouted(<<>>) BY DEF AllRouted
<1>6. \A j \in Nics : AllRouted(collector'[<<"nic", j>>]) /\ AllRouted(sent'[<<"nic", j>>])
  <2> SUFFICES ASSUME NEW j \in Nics
               PROVE AllRouted(collector'[<<"nic", j>>]) /\ AllRouted(sent'[<<"nic", j>>])
    OBVIOUS
  <2>1. CASE j = i
    <3>1. /\ collector'[<<"nic", j>>] = <<>>
          /\ sent'[<<"nic", j>>] = sent[th] \o collector[th]
      BY <1>1, <1>2, <2>1 DEF TypeOK
    <3> QED BY <1>4, <1>5, <3>1
  <2>2. CASE j # i
    <3>1. /\ collector'[<<"nic", j>>] = collector[<<"nic", j>>]
          /\ sent'[<<"nic", j>>] = sent[<<"nic", j>>]
      BY <1>1, <1>2, <2>2 DEF TypeOK, Threads
    <3> QED BY <3>1 DEF HeadersRouted, AllRouted
  <2> QED BY <2>1, <2>2
<1> QED BY <1>6 DEF HeadersRouted, AllRouted, Routed

(* Every step keeps the headers' invariant. *)
LEMMA HeadersStep == TypeOK /\ HeadersInv /\ [Next]_vars => HeadersInv'
<1> SUFFICES ASSUME TypeOK, HeadersInv, [Next]_vars PROVE HeadersInv'
  OBVIOUS
<1> USE DEF HeadersInv
<1>1. ASSUME UNCHANGED <<queue, collector, sent>> PROVE HeadersInv'
  <2>1. QueuedByDest' BY <1>1 DEF QueuedByDest
  <2> QED BY <1>1, <2>1, HeadersUnchanged
<1>2. ASSUME NEW v \in Veths, VethReceive(v) PROVE HeadersInv'
  <2>1. PICK d \in Dests \ {Self} :
          /\ Arrive(<<"veth", v>>, d, 0, <<"local", d - 1>>)
          /\ <<"local", d - 1>> \in Queues
    BY <1>2, VethArrives
  <2>2. \A side \in {"local", "transit"}, x \in DestQueues :
          <<"local", d - 1>> = <<side, x>> => d = x + 1
    BY SizesAssumption DEF Dests, DestQueues
  <2>3. QueuedByDest' BY <2>1, <2>2, QueuedArrive
  <2>4. UNCHANGED <<collector, sent>> BY <2>1 DEF Arrive
  <2> QED BY <2>3, <2>4, HeadersUnchanged
<1>3. ASSUME NEW i \in Nics, NicReceive(i) PROVE HeadersInv'
  <2>1. CASE \E d \in Dests \ {Self} :
               /\ Arrive(<<"nic", i>>, d, 0, <<"transit", d - 1>>)
               /\ <<"transit", d - 1>> \in Queues
    <3>1. PICK d \in Dests \ {Self} :
            /\ Arrive(<<"nic", i>>, d, 0, <<"transit", d - 1>>)
            /\ <<"transit", d - 1>> \in Queues
      BY <2>1
    <3>2. \A side \in {"local", "transit"}, x \in DestQueues :
            <<"transit", d - 1>> = <<side, x>> => d = x + 1
      BY SizesAssumption DEF Dests, DestQueues
    <3>3. QueuedByDest' BY <3>1, <3>2, QueuedArrive
    <3>4. UNCHANGED <<collector, sent>> BY <3>1 DEF Arrive
    <3> QED BY <3>3, <3>4, HeadersUnchanged
  <2>2. CASE \E ns \in Veths : /\ Arrive(<<"nic", i>>, Self, ns, <<"veth", ns>>)
                             /\ <<"veth", ns>> \in Queues
    <3>1. PICK ns \in Veths : /\ Arrive(<<"nic", i>>, Self, ns, <<"veth", ns>>)
                              /\ <<"veth", ns>> \in Queues
      BY <2>2
    <3>2. \A side \in {"local", "transit"}, x \in DestQueues :
            <<"veth", ns>> = <<side, x>> => Self = x + 1
      OBVIOUS
    <3>3. QueuedByDest' BY <3>1, <3>2, QueuedArrive, SelfAssumption
    <3>4. UNCHANGED <<collector, sent>> BY <3>1 DEF Arrive
    <3> QED BY <3>3, <3>4, HeadersUnchanged
  <2> QED BY <1>3, <2>1, <2>2, NicArrives
<1>4. ASSUME NEW v \in Veths, VethPull(v) PROVE HeadersInv'
  <2>1. <<"veth", v>> \in Queues BY DEF Queues
  <2>2. QueuedByDest' BY <1>4, <2>1, QueuedPulled DEF VethPull
  <2> QED BY <1>4, <2>2, VethSideKeeps
<1>5. ASSUME NEW v \in Veths, VethFlush(v) PROVE HeadersInv'
  <2>1. QueuedByDest' BY <1>5 DEF VethFlush, QueuedByDest
  <2> QED BY <1>5, <2>1, VethSideKeeps
<1>6. ASSUME NEW i \in Nics, Pull(i) PROVE HeadersInv'
  <2>1. Current(i) \in Queues BY CurrentQueue DEF TypeOK
  <2>2. QueuedByDest' BY <1>6, <2>1, QueuedPulled DEF Pull
  <2> QED BY <1>6, <2>2, PullKeepsHeaders
<1>7. ASSUME NEW i \in Nics, Flush(i) PROVE HeadersInv'
  <2>1. QueuedByDest' BY <1>7 DEF Flush, QueuedByDest
  <2> QED BY <1>7, <2>1, FlushKeepsHeaders
<1>8. CASE ReadTime BY <1>1, <1>8 DEF ReadTime
<1>9. CASE UNCHANGED vars BY <1>1, <1>9 DEF vars
<1> QED BY <1>2, <1>3, <1>4, <1>5, <1>6, <1>7, <1>8, <1>9 DEF Next

(* It holds in every state. *)
LEMMA HeadersInvariant == Spec => []HeadersInv
<1>1. TypeOK /\ HeadersInv /\ [Next]_vars => HeadersInv' BY HeadersStep
<1> QED BY <1>1, HeadersInit, DatapathTypeCorrect, PTL DEF Spec

(***************************************************************************)
(* With one NIC queue, encap_veth and encap_indirection write the next hop *)
(* of the packet's own destination in the slot they read, however many     *)
(* slots pass meanwhile, for every route file and mix of traffic.          *)
(***************************************************************************)
THEOREM HeadersCorrect == Spec => [](NNic = 1 => HeadersRouted)
<1>1. HeadersInv => (NNic = 1 => HeadersRouted) BY DEF HeadersInv
<1> QED BY <1>1, HeadersInvariant, PTL

(* Whatever the number of NIC queues, a destination queue holds only       *)
(* packets for its destination.                                            *)
THEOREM QueuesCorrect == Spec => []QueuedByDest
<1>1. HeadersInv => QueuedByDest BY DEF HeadersInv
<1> QED BY <1>1, HeadersInvariant, PTL

-----------------------------------------------------------------------------
(* Where packets are: in a queue, or given to the port of a thread.        *)

Things == Packets \cup Frames

Spots == ({"q"} \X Queues) \cup ({"g"} \X Threads)

HeldOf(Q, S, C) == [c \in Spots |-> IF c[1] = "q" THEN Q[c[2]] ELSE S[c[2]] \o C[c[2]]]
Held == HeldOf(queue, sent, collector)

(* The queue that its receiving thread picks for a packet.                 *)
QueueOf(p) == IF p.dest = Self THEN <<"veth", p.ns>>
              ELSE IF p.from[1] = "veth" THEN <<"local", p.dest - 1>>
              ELSE <<"transit", p.dest - 1>>

(* The sending thread of a queue, if it has one.                           *)
Serves(th, q) ==
  \/ th = q /\ th[1] = "veth"
  \/ \E i \in Nics : \E w \in 0 .. Share - 1, side \in {"local", "transit"} :
       th = <<"nic", i>> /\ q = <<side, i * Share + w>>

InPlace(p, c) == IF c[1] = "q" THEN c[2] = QueueOf(p) ELSE Serves(c[2], QueueOf(p))

At(F, c, i, p) == c \in Spots /\ i \in DOMAIN F[c] /\ F[c][i] = p

(* No packet is twice in the node.                                         *)
OnePlace(F) == \A c, e, i, j, p, r :
  At(F, c, i, p) /\ At(F, e, j, r) /\ p.id = r.id => c = e /\ i = j

(* Of two packets for one queue, the one that came first is ahead.         *)
Ahead(c, i, e, j) == \/ c = e /\ i < j
                     \/ c[1] = "g" /\ e[1] = "q"

InOrder(F) == \A c, e, i, j, p, r :
  /\ At(F, c, i, p) /\ At(F, e, j, r)
  /\ p.id < r.id /\ QueueOf(p) = QueueOf(r)
  => Ahead(c, i, e, j)

(* The packets in the node are those numbered in N, each where it belongs. *)
Counted(F, N) == \A c, i, p : At(F, c, i, p) => p.id \in N /\ InPlace(p, c)
Covered(F, N) == \A n \in N : \E c, i, p : At(F, c, i, p) /\ p.id = n

Kept == (1..arrived) \ (dropped \cup lost)

FlowInv == /\ dropped \cup lost \subseteq 1..arrived
           /\ OnePlace(Held) /\ InOrder(Held) /\ Counted(Held, Kept) /\ Covered(Held, Kept)

(* The places of packets. *)
LEMMA SpotsAre ==
  /\ \A q \in Queues : <<"q", q>> \in Spots
  /\ \A th \in Threads : <<"g", th>> \in Spots
  /\ \A c \in Spots : /\ c = <<c[1], c[2]>> /\ c[1] \in {"q", "g"}
                      /\ c[1] = "q" => c[2] \in Queues
                      /\ c[1] = "g" => c[2] \in Threads
BY DEF Spots

(* What each place holds. *)
LEMMA HeldTyped == TypeOK => Held \in [Spots -> Seq(Things)]
<1> SUFFICES ASSUME TypeOK, NEW c \in Spots
             PROVE (IF c[1] = "q" THEN queue[c[2]] ELSE sent[c[2]] \o collector[c[2]]) \in Seq(Things)
  BY DEF Held, HeldOf
<1>1. CASE c[1] = "q"
  <2>1. queue[c[2]] \in Seq(Packets) BY <1>1, SpotsAre DEF TypeOK
  <2>2. \A S, T : S \subseteq T => Seq(S) \subseteq Seq(T) OBVIOUS
  <2>3. Packets \subseteq Things BY DEF Things
  <2> QED BY <1>1, <2>1, <2>2, <2>3
<1>2. CASE c[1] = "g"
  <2>1. sent[c[2]] \in Seq(Things) /\ collector[c[2]] \in Seq(Things)
    <3>1. c[2] \in Threads BY <1>2, SpotsAre
    <3>2. sent \in [Threads -> Seq(Things)] /\ collector \in [Threads -> Seq(Things)]
      BY DEF TypeOK, Things
    <3> QED BY <3>1, <3>2
  <2>2. sent[c[2]] \o collector[c[2]] \in Seq(Things) BY <2>1
  <2>3. c[1] # "q" BY <1>2
  <2> QED BY <2>2, <2>3
<1>3. c[1] = "q" \/ c[1] = "g" BY SpotsAre
<1> QED BY <1>1, <1>2, <1>3

(* Two threads never serve one queue.                                      *)
LEMMA ServesOne ==
  ASSUME NEW th, NEW uh, NEW q, Serves(th, q), Serves(uh, q)
  PROVE  th = uh
<1>1. CASE th = q /\ th[1] = "veth"
  <2>1. q[1] = "veth" BY <1>1
  <2> QED BY <1>1, <2>1 DEF Serves
<1>2. CASE uh = q /\ uh[1] = "veth"
  <2>1. q[1] = "veth" BY <1>2
  <2> QED BY <1>2, <2>1 DEF Serves
<1>3. CASE ~(th = q /\ th[1] = "veth") /\ ~(uh = q /\ uh[1] = "veth")
  <2>1. PICK i \in Nics, v \in 0 .. Share - 1, s \in {"local", "transit"} :
          th = <<"nic", i>> /\ q = <<s, i * Share + v>>
    BY <1>3 DEF Serves
  <2>2. PICK j \in Nics, w \in 0 .. Share - 1, t \in {"local", "transit"} :
          uh = <<"nic", j>> /\ q = <<t, j * Share + w>>
    BY <1>3 DEF Serves
  <2>3. i * Share + v = j * Share + w BY <2>1, <2>2
  <2>4. i = j BY <2>3, SharesApart
  <2> QED BY <2>1, <2>2, <2>4
<1> QED BY <1>1, <1>2, <1>3

(* The head of a spot is taken, or a packet put at the end of one.         *)
Without(F, a) == [F EXCEPT ![a] = Tail(@)]
With(F, b, x) == [F EXCEPT ![b] = Append(@, x)]

(* What stands where after the head of spot a is taken.                    *)
LEMMA TakenFrom ==
  ASSUME NEW F \in [Spots -> Seq(Things)], NEW a \in Spots, F[a] # <<>>, NEW H,
         H = Without(F, a)
  PROVE  /\ H \in [Spots -> Seq(Things)] /\ At(F, a, 1, F[a][1])
         /\ \A c, i, p : At(H, c, i, p) =>
              IF c = a THEN At(F, a, i + 1, p) /\ i + 1 # 1 ELSE At(F, c, i, p)
         /\ \A c, k, p : At(F, c, k, p) => (c = a /\ k = 1) \/ \E i : At(H, c, i, p)
<1>1. /\ F[a] \in Seq(Things) /\ Tail(F[a]) \in Seq(Things) /\ 1 \in DOMAIN F[a]
      /\ \A i \in DOMAIN Tail(F[a]) :
           i + 1 \in DOMAIN F[a] /\ Tail(F[a])[i] = F[a][i + 1] /\ i + 1 # 1
      /\ \A k \in DOMAIN F[a] :
           k # 1 => k - 1 \in DOMAIN Tail(F[a]) /\ Tail(F[a])[k - 1] = F[a][k]
  <2>1. F[a] \in Seq(Things) OBVIOUS
  <2> QED BY <2>1
<1>2. PICK t : t = Tail(F[a]) OBVIOUS
<1>3. H[a] = t /\ \A c \in Spots : c # a => H[c] = F[c] BY <1>2 DEF Without
<1>4. H \in [Spots -> Seq(Things)] BY <1>1 DEF Without
<1>5. ASSUME NEW c, NEW i, NEW p, At(H, c, i, p)
      PROVE  IF c = a THEN At(F, a, i + 1, p) /\ i + 1 # 1 ELSE At(F, c, i, p)
  <2>1. CASE c = a
    <3>1. i \in DOMAIN t /\ t[i] = p BY <1>3, <1>5, <2>1 DEF At
    <3>2. i + 1 \in DOMAIN F[a] /\ F[a][i + 1] = p /\ i + 1 # 1 BY <1>1, <1>2, <3>1
    <3> QED BY <2>1, <3>2 DEF At
  <2>2. CASE c # a BY <1>3, <1>5, <2>2 DEF At
  <2> QED BY <2>1, <2>2
<1>6. ASSUME NEW c, NEW k, NEW p, At(F, c, k, p), ~(c = a /\ k = 1)
      PROVE  \E i : At(H, c, i, p)
  <2>1. CASE c = a
    <3>1. k \in DOMAIN F[a] /\ F[a][k] = p /\ k # 1 BY <1>6, <2>1 DEF At
    <3>2. k - 1 \in DOMAIN t /\ t[k - 1] = p BY <1>1, <1>2, <3>1
    <3>3. At(H, c, k - 1, p) BY <1>3, <2>1, <3>2 DEF At
    <3> QED BY <3>3
  <2>2. CASE c # a
    <3>1. At(H, c, k, p) BY <1>3, <1>6, <2>2 DEF At
    <3> QED BY <3>1
  <2> QED BY <2>1, <2>2
<1>7. At(F, a, 1, F[a][1]) BY <1>1 DEF At
<1> QED BY <1>4, <1>5, <1>6, <1>7

(* G is F with packet x in place l of spot b, the last: what stood in F    *)
(* still does, before l; what stands in G stood in F or is x.              *)
Keeps(F, G) == \A c, i, p : At(F, c, i, p) => At(G, c, i, p)
Below(F, b, l) == \A i, p : At(F, b, i, p) => i < l
OldOr(F, G, b, l, x) ==
  \A c, i, p : At(G, c, i, p) => At(F, c, i, p) \/ (c = b /\ i = l /\ p = x)

(* A packet is added at the end of a place. *)
LEMMA GivenTo ==
  ASSUME NEW F \in [Spots -> Seq(Things)], NEW b \in Spots, NEW x \in Things, NEW G,
         G = With(F, b, x)
  PROVE  /\ G \in [Spots -> Seq(Things)]
         /\ At(G, b, Len(F[b]) + 1, x) /\ Keeps(F, G)
         /\ Below(F, b, Len(F[b]) + 1) /\ OldOr(F, G, b, Len(F[b]) + 1, x)
<1>1. /\ F[b] \in Seq(Things) /\ Append(F[b], x) \in Seq(Things)
      /\ \A i \in DOMAIN Append(F[b], x) :
           \/ i = Len(F[b]) + 1 /\ Append(F[b], x)[i] = x
           \/ i \in DOMAIN F[b] /\ Append(F[b], x)[i] = F[b][i]
      /\ \A i \in DOMAIN F[b] :
           /\ i \in DOMAIN Append(F[b], x) /\ Append(F[b], x)[i] = F[b][i]
           /\ i < Len(F[b]) + 1
      /\ Len(F[b]) + 1 \in DOMAIN Append(F[b], x) /\ Append(F[b], x)[Len(F[b]) + 1] = x
  <2>1. F[b] \in Seq(Things) OBVIOUS
  <2> QED BY <2>1
<1>2. PICK t : t = Append(F[b], x) OBVIOUS
<1>3. G[b] = t /\ \A c \in Spots : c # b => G[c] = F[c] BY <1>2 DEF With
<1>4. G \in [Spots -> Seq(Things)] BY <1>1 DEF With
<1>5. At(G, b, Len(F[b]) + 1, x) BY <1>1, <1>2, <1>3 DEF At
<1>6. ASSUME NEW c, NEW i, NEW p, At(F, c, i, p)
      PROVE  At(G, c, i, p)
  <2>1. CASE c = b
    <3>1. i \in DOMAIN F[b] /\ F[b][i] = p BY <1>6, <2>1 DEF At
    <3>2. i \in DOMAIN t /\ t[i] = p BY <1>1, <1>2, <3>1
    <3> QED BY <1>3, <2>1, <3>2 DEF At
  <2>2. CASE c # b BY <1>3, <1>6, <2>2 DEF At
  <2> QED BY <2>1, <2>2
<1>7. ASSUME NEW c, NEW i, NEW p, At(G, c, i, p)
      PROVE  At(F, c, i, p) \/ (c = b /\ i = Len(F[b]) + 1 /\ p = x)
  <2>1. CASE c = b
    <3>1. i \in DOMAIN t /\ t[i] = p BY <1>3, <1>7, <2>1 DEF At
    <3>2. \/ i = Len(F[b]) + 1 /\ p = x
          \/ i \in DOMAIN F[b] /\ F[b][i] = p
      BY <1>1, <1>2, <3>1
    <3> QED BY <2>1, <3>2 DEF At
  <2>2. CASE c # b BY <1>3, <1>7, <2>2 DEF At
  <2> QED BY <2>1, <2>2
<1>8. Below(F, b, Len(F[b]) + 1) BY <1>1 DEF Below, At
<1>9. Keeps(F, G) BY <1>6 DEF Keeps
<1>10. OldOr(F, G, b, Len(F[b]) + 1, x) BY <1>7 DEF OldOr
<1> QED BY <1>4, <1>5, <1>8, <1>9, <1>10

(* Positions are numbers and packets are packets.                          *)
LEMMA AtTyped ==
  \A F \in [Spots -> Seq(Things)] : \A c, i, p :
    At(F, c, i, p) => c \in Spots /\ i \in Nat \ {0} /\ p \in Things
<1> SUFFICES ASSUME NEW F \in [Spots -> Seq(Things)], NEW c, NEW i, NEW p, At(F, c, i, p)
             PROVE  c \in Spots /\ i \in Nat \ {0} /\ p \in Things
  OBVIOUS
<1>1. c \in Spots /\ i \in DOMAIN F[c] /\ F[c][i] = p BY DEF At
<1>2. F[c] \in Seq(Things) BY <1>1
<1> QED BY <1>1, <1>2

(* Packets have numbers.                                                   *)
LEMMA ThingIds == \A x \in Things : x.id \in Nat \ {0} /\ x.from \in Threads /\ x.dest \in Dests
<1>1. \A i \in 1..MaxPackets : i \in Nat \ {0} BY SizesAssumption
<1> QED BY <1>1 DEF Things, Packets, Frames

Newest(x, N) == \A n \in N : n < x.id

(* A new packet is put at the end of its queue.                            *)
LEMMA PutKeeps ==
  ASSUME NEW F \in [Spots -> Seq(Things)], NEW N \in SUBSET Nat, NEW b \in Spots,
         NEW x \in Things, b = <<"q", QueueOf(x)>>, Newest(x, N),
         OnePlace(F), InOrder(F), Counted(F, N), Covered(F, N), NEW G, G = With(F, b, x)
  PROVE  /\ OnePlace(G) /\ InOrder(G)
         /\ Counted(G, N \cup {x.id}) /\ Covered(G, N \cup {x.id})
<1>1. PICK l : l = Len(F[b]) + 1 OBVIOUS
<1>2. At(G, b, l, x) /\ Keeps(F, G) /\ Below(F, b, l) /\ OldOr(F, G, b, l, x)
  BY <1>1, GivenTo
<1>3. b[1] = "q" /\ b[2] = QueueOf(x) /\ x.id \in Nat /\ ~(x.id < x.id) BY ThingIds
<1>4. \A c, i, p : At(F, c, i, p) => p.id \in N /\ p.id # x.id /\ ~(x.id < p.id) /\ InPlace(p, c)
  <2>1. \A n \in N : n # x.id /\ ~(x.id < n) BY <1>3 DEF Newest
  <2> QED BY <2>1 DEF Counted
<1>5. ASSUME NEW c, NEW i, NEW p, At(G, c, i, p), ~(c = b /\ i = l /\ p = x)
      PROVE  At(F, c, i, p)
  BY <1>2, <1>5 DEF OldOr
<1>6. OnePlace(G)
  <2> SUFFICES ASSUME NEW c, NEW e, NEW i, NEW j, NEW p, NEW r,
                      At(G, c, i, p), At(G, e, j, r), p.id = r.id
               PROVE  c = e /\ i = j
    BY DEF OnePlace
  <2>1. CASE c = b /\ i = l /\ p = x
    <3>1. ~At(F, e, j, r) BY <1>4, <2>1
    <3>2. e = b /\ j = l BY <1>5, <3>1
    <3> QED BY <2>1, <3>2
  <2>2. CASE ~(c = b /\ i = l /\ p = x)
    <3>1. At(F, c, i, p) BY <1>5, <2>2
    <3>2. r # x BY <1>4, <3>1
    <3>3. At(F, e, j, r) BY <1>5, <3>2
    <3> QED BY <3>1, <3>3 DEF OnePlace
  <2> QED BY <2>1, <2>2
<1>7. InOrder(G)
  <2> SUFFICES ASSUME NEW c, NEW e, NEW i, NEW j, NEW p, NEW r,
                      At(G, c, i, p), At(G, e, j, r), p.id < r.id, QueueOf(p) = QueueOf(r)
               PROVE  Ahead(c, i, e, j)
    BY DEF InOrder
  <2>1. At(F, c, i, p)
    <3>1. p # x
      <4> SUFFICES ASSUME p = x PROVE FALSE OBVIOUS
      <4>1. r # x BY <1>3
      <4>2. At(F, e, j, r) BY <1>5, <4>1
      <4> QED BY <1>4, <4>2
    <3> QED BY <1>5, <3>1
  <2>2. CASE ~(e = b /\ j = l /\ r = x)
    <3>1. At(F, e, j, r) BY <1>5, <2>2
    <3> QED BY <2>1, <3>1 DEF InOrder
  <2>3. CASE e = b /\ j = l /\ r = x
    <3>1. InPlace(p, c) /\ c \in Spots BY <1>4, <2>1 DEF At
    <3>2. CASE c[1] = "q"
      <4>1. c[2] = b[2] BY <1>3, <2>3, <3>1, <3>2 DEF InPlace
      <4>2. c = <<c[1], c[2]>> /\ b = <<b[1], b[2]>> BY <3>1, SpotsAre
      <4>3. c = b BY <1>3, <3>2, <4>1, <4>2
      <4>4. i < l BY <1>2, <2>1, <4>3 DEF Below
      <4> QED BY <2>3, <4>3, <4>4 DEF Ahead
    <3>3. CASE c[1] = "g" BY <1>3, <2>3, <3>3 DEF Ahead
    <3>4. c[1] = "q" \/ c[1] = "g" BY <3>1, SpotsAre
    <3> QED BY <3>2, <3>3, <3>4
  <2> QED BY <2>2, <2>3
<1>8. Counted(G, N \cup {x.id})
  <2> SUFFICES ASSUME NEW c, NEW i, NEW p, At(G, c, i, p)
               PROVE  p.id \in N \cup {x.id} /\ InPlace(p, c)
    BY DEF Counted
  <2>1. CASE c = b /\ p = x BY <1>3, <2>1 DEF InPlace
  <2>2. CASE At(F, c, i, p) BY <1>4, <2>2
  <2> QED BY <1>2, <2>1, <2>2 DEF OldOr
<1>9. Covered(G, N \cup {x.id})
  <2> SUFFICES ASSUME NEW n \in N \cup {x.id}
               PROVE  \E c, i, p : At(G, c, i, p) /\ p.id = n
    BY DEF Covered
  <2>1. CASE n = x.id BY <1>2, <2>1
  <2>2. CASE n \in N
    <3>1. PICK c, i, p : At(F, c, i, p) /\ p.id = n BY <2>2 DEF Covered
    <3>2. At(G, c, i, p) BY <1>2, <3>1 DEF Keeps
    <3> QED BY <3>1, <3>2
  <2> QED BY <2>1, <2>2
<1> QED BY <1>6, <1>7, <1>8, <1>9

(* The head of a queue, with a header or without, is given to the port of  *)
(* the queue's thread.                                                     *)
LEMMA MoveKeeps ==
  ASSUME NEW F \in [Spots -> Seq(Things)], NEW N, NEW a \in Spots, NEW b \in Spots,
         NEW q, NEW th, a = <<"q", q>>, b = <<"g", th>>, Serves(th, q), F[a] # <<>>,
         NEW x \in Things, x.id = F[a][1].id, QueueOf(x) = QueueOf(F[a][1]),
         OnePlace(F), InOrder(F), Counted(F, N), Covered(F, N),
         NEW H, H = Without(F, a), NEW G, G = With(H, b, x)
  PROVE  OnePlace(G) /\ InOrder(G) /\ Counted(G, N) /\ Covered(G, N)
<1>1. PICK f : f = F[a][1] OBVIOUS
<1>2. PICK l : l = Len(H[b]) + 1 OBVIOUS
<1>3. /\ H \in [Spots -> Seq(Things)] /\ At(F, a, 1, f)
      /\ \A c, i, p : At(H, c, i, p) =>
           IF c = a THEN At(F, a, i + 1, p) /\ i + 1 # 1 ELSE At(F, c, i, p)
      /\ \A c, k, p : At(F, c, k, p) => (c = a /\ k = 1) \/ \E i : At(H, c, i, p)
  BY <1>1, TakenFrom
<1>4. At(G, b, l, x) /\ Keeps(H, G) /\ Below(H, b, l) /\ OldOr(H, G, b, l, x)
  BY <1>2, <1>3, GivenTo
<1>5. /\ a[1] = "q" /\ a[2] = q /\ b[1] = "g" /\ b[2] = th /\ a # b
      /\ x.id = f.id /\ QueueOf(x) = QueueOf(f) /\ x.id \in Nat /\ ~(x.id < x.id)
  BY <1>1, ThingIds
<1>6. QueueOf(f) = q /\ f.id \in N
  <2>1. f.id \in N /\ InPlace(f, a) BY <1>3 DEF Counted
  <2> QED BY <1>5, <2>1 DEF InPlace
(* An old packet of G is one of F, behind f in its queue.                  *)
<1>7. ASSUME NEW c, NEW i, NEW p, At(G, c, i, p), ~(c = b /\ i = l /\ p = x)
      PROVE  /\ At(F, c, IF c = a THEN i + 1 ELSE i, p) /\ c \in Spots /\ i \in Nat \ {0}
             /\ c = b => i < l
             /\ p.id # x.id
  <2>0. At(H, c, i, p) BY <1>4, <1>7 DEF OldOr
  <2>1. At(H, c, i, p) /\ (c = b => i < l) BY <1>4, <2>0 DEF Below
  <2>2. c \in Spots /\ i \in Nat \ {0} BY <1>3, <2>1, AtTyped
  <2>3. CASE c = a
    <3>1. At(F, a, i + 1, p) /\ i + 1 # 1 BY <1>3, <2>1, <2>3
    <3>2. p.id # f.id BY <1>3, <3>1 DEF OnePlace
    <3> QED BY <1>5, <2>1, <2>2, <2>3, <3>1, <3>2
  <2>4. CASE c # a
    <3>1. At(F, c, i, p) BY <1>3, <2>1, <2>4
    <3>2. p.id # f.id BY <1>3, <2>4, <3>1 DEF OnePlace
    <3> QED BY <1>5, <2>1, <2>2, <2>4, <3>1, <3>2
  <2> QED BY <2>3, <2>4
<1>8. OnePlace(G)
  <2> SUFFICES ASSUME NEW c, NEW e, NEW i, NEW j, NEW p, NEW r,
                      At(G, c, i, p), At(G, e, j, r), p.id = r.id
               PROVE  c = e /\ i = j
    BY DEF OnePlace
  <2>1. CASE c = b /\ i = l /\ p = x
    <3>1. e = b /\ j = l BY <1>7, <2>1
    <3> QED BY <2>1, <3>1
  <2>2. CASE ~(c = b /\ i = l /\ p = x)
    <3>1. /\ At(F, c, IF c = a THEN i + 1 ELSE i, p) /\ i \in Nat
          /\ p.id # x.id
      BY <1>7, <2>2
    <3>2. r # x BY <3>1
    <3>3. At(F, e, IF e = a THEN j + 1 ELSE j, r) /\ j \in Nat BY <1>7, <3>2
    <3>4. c = e /\ (IF c = a THEN i + 1 ELSE i) = (IF e = a THEN j + 1 ELSE j)
      BY <3>1, <3>3 DEF OnePlace
    <3>5. i \in Nat /\ j \in Nat BY <3>1, <3>3
    <3> QED BY <3>4, <3>5
  <2> QED BY <2>1, <2>2
<1>9. InOrder(G)
  <2> SUFFICES ASSUME NEW c, NEW e, NEW i, NEW j, NEW p, NEW r,
                      At(G, c, i, p), At(G, e, j, r), p.id < r.id, QueueOf(p) = QueueOf(r)
               PROVE  Ahead(c, i, e, j)
    BY DEF InOrder
  <2>1. CASE c = b /\ i = l /\ p = x
    <3>1. r # x BY <1>5, <2>1
    <3>2. At(F, e, IF e = a THEN j + 1 ELSE j, r) BY <1>7, <3>1
    <3>3. f.id < r.id /\ QueueOf(f) = QueueOf(r) BY <1>5, <2>1
    <3>4. Ahead(a, 1, e, IF e = a THEN j + 1 ELSE j) BY <1>3, <3>2, <3>3 DEF InOrder
    <3>5. e[1] = "q" BY <1>5, <3>4 DEF Ahead
    <3> QED BY <1>5, <2>1, <3>5 DEF Ahead
  <2>2. CASE ~(c = b /\ i = l /\ p = x)
    <3>1. /\ At(F, c, IF c = a THEN i + 1 ELSE i, p) /\ c \in Spots /\ i \in Nat \ {0}
          /\ c = b => i < l
      BY <1>7, <2>2
    <3>2. CASE e = b /\ j = l /\ r = x
      <4>1. p.id < f.id /\ QueueOf(p) = QueueOf(f) BY <1>5, <3>2
      <4>2. Ahead(c, IF c = a THEN i + 1 ELSE i, a, 1) BY <1>3, <3>1, <4>1 DEF InOrder
      <4>3. i \in Nat BY <3>1
      <4>4. ~(i + 1 < 1) BY <4>3
      <4>5. c[1] = "g" BY <4>2, <4>4 DEF Ahead
      <4>6. InPlace(p, c) BY <3>1 DEF Counted
      <4>7. Serves(c[2], q) BY <1>6, <4>1, <4>5, <4>6 DEF InPlace
      <4>8. c[2] = th BY <4>7, ServesOne
      <4>9. c = <<c[1], c[2]>> BY <3>1, SpotsAre
      <4>10. c = b BY <4>5, <4>8, <4>9
      <4> QED BY <3>1, <3>2, <4>10 DEF Ahead
    <3>3. CASE ~(e = b /\ j = l /\ r = x)
      <4>1. At(F, e, IF e = a THEN j + 1 ELSE j, r) /\ j \in Nat \ {0} BY <1>7, <3>3
      <4>2. Ahead(c, IF c = a THEN i + 1 ELSE i, e, IF e = a THEN j + 1 ELSE j)
        BY <3>1, <4>1 DEF InOrder
      <4>3. i + 1 < j + 1 => i < j
        <5>1. i \in Nat /\ j \in Nat BY <3>1, <4>1
        <5> QED BY <5>1
      <4> QED BY <4>2, <4>3 DEF Ahead
    <3> QED BY <3>2, <3>3
  <2> QED BY <2>1, <2>2
<1>10. Counted(G, N)
  <2> SUFFICES ASSUME NEW c, NEW i, NEW p, At(G, c, i, p)
               PROVE  p.id \in N /\ InPlace(p, c)
    BY DEF Counted
  <2>1. CASE c = b /\ i = l /\ p = x BY <1>5, <1>6, <2>1 DEF InPlace
  <2>2. CASE ~(c = b /\ i = l /\ p = x)
    <3>1. At(F, c, IF c = a THEN i + 1 ELSE i, p) BY <1>7, <2>2
    <3> QED BY <3>1 DEF Counted
  <2> QED BY <2>1, <2>2
<1>11. Covered(G, N)
  <2> SUFFICES ASSUME NEW n \in N
               PROVE  \E c, i, p : At(G, c, i, p) /\ p.id = n
    BY DEF Covered
  <2>1. PICK c, k, p : At(F, c, k, p) /\ p.id = n BY DEF Covered
  <2>2. CASE c = a /\ k = 1
    <3>1. p = f BY <1>3, <2>1, <2>2 DEF At
    <3> QED BY <1>4, <1>5, <2>1, <3>1
  <2>3. CASE ~(c = a /\ k = 1)
    <3>1. PICK i : At(H, c, i, p) BY <1>3, <2>1, <2>3
    <3>2. At(G, c, i, p) BY <1>4, <3>1 DEF Keeps
    <3> QED BY <2>1, <3>2
  <2> QED BY <2>2, <2>3
<1> QED BY <1>8, <1>9, <1>10, <1>11
-----------------------------------------------------------------------------
(* How the actions change what is held.                                    *)

(* A packet is pushed on a queue. *)
LEMMA HeldPut ==
  ASSUME NEW q \in Queues, NEW x, queue \in [Queues -> Seq(Packets)],
         queue' = [queue EXCEPT ![q] = Append(@, x)], sent' = sent, collector' = collector
  PROVE  Held' = With(Held, <<"q", q>>, x)
<1>1. \A c \in Spots : c # <<"q", q>> /\ c[1] = "q" => c[2] # q /\ c[2] \in Queues BY SpotsAre
<1>2. <<"q", q>> \in Spots BY SpotsAre
<1>3. \A u \in Queues : queue'[u] = IF u = q THEN Append(queue[q], x) ELSE queue[u] OBVIOUS
<1>4. \A c \in Spots : Held'[c] = With(Held, <<"q", q>>, x)[c]
  <2> SUFFICES ASSUME NEW c \in Spots PROVE Held'[c] = With(Held, <<"q", q>>, x)[c]
    OBVIOUS
  <2>1. CASE c = <<"q", q>>
    <3>1. Held'[c] = Append(queue[q], x) /\ Held[c] = queue[q]
      BY <1>2, <1>3, <2>1 DEF Held, HeldOf
    <3>2. With(Held, <<"q", q>>, x)[c] = Append(Held[c], x)
      BY <1>2, <2>1 DEF With, Held, HeldOf
    <3> QED BY <3>1, <3>2
  <2>2. CASE c # <<"q", q>>
    <3>1. Held'[c] = Held[c] BY <1>1, <1>3, <2>2 DEF Held, HeldOf
    <3>2. With(Held, <<"q", q>>, x)[c] = Held[c] BY <2>2 DEF With, Held, HeldOf
    <3> QED BY <3>1, <3>2
  <2> QED BY <2>1, <2>2
<1>5. Held' = [c \in Spots |-> Held'[c]] BY DEF Held, HeldOf
<1>6. With(Held, <<"q", q>>, x) = [c \in Spots |-> With(Held, <<"q", q>>, x)[c]]
  BY DEF With, Held, HeldOf
<1> QED BY <1>4, <1>5, <1>6

(* A packet moves from a queue to a sending thread. *)
LEMMA HeldMove ==
  ASSUME TypeOK, NEW q \in Queues, NEW th \in Threads, NEW x \in Things,
         queue' = [queue EXCEPT ![q] = Tail(@)],
         collector' = [collector EXCEPT ![th] = Append(@, x)], sent' = sent
  PROVE  Held' = With(Without(Held, <<"q", q>>), <<"g", th>>, x)
<1>1. /\ \A c \in Spots : c # <<"q", q>> /\ c[1] = "q" => c[2] # q /\ c[2] \in Queues
      /\ \A c \in Spots : c # <<"g", th>> /\ c[1] # "q" => c[2] # th /\ c[2] \in Threads
  BY SpotsAre
<1>2. <<"q", q>> \in Spots /\ <<"g", th>> \in Spots BY SpotsAre
<1>3. \A u \in Queues : queue'[u] = IF u = q THEN Tail(queue[q]) ELSE queue[u] BY DEF TypeOK
<1>4. \A u \in Threads : collector'[u] = IF u = th THEN Append(collector[th], x) ELSE collector[u]
  BY DEF TypeOK
<1>5. sent[th] \o Append(collector[th], x) = Append(sent[th] \o collector[th], x)
  <2>1. PICK s, t : s = sent[th] /\ t = collector[th] OBVIOUS
  <2>2. s \in Seq(Things) /\ t \in Seq(Things) BY <2>1 DEF TypeOK, Things
  <2>3. /\ Append(t, x) = t \o <<x>> /\ s \o t \in Seq(Things) /\ <<x>> \in Seq(Things)
        /\ Append(s \o t, x) = (s \o t) \o <<x>>
    BY <2>2, AppendIsConcat, ConcatProperties
  <2>4. s \o (t \o <<x>>) = (s \o t) \o <<x>> BY <2>2, <2>3, ConcatAssociative
  <2> QED BY <2>1, <2>3, <2>4
<1>6. PICK H : H = Without(Held, <<"q", q>>) OBVIOUS
<1>7. /\ H = [c \in Spots |-> H[c]] /\ H[<<"q", q>>] = Tail(Held[<<"q", q>>])
      /\ \A c \in Spots : c # <<"q", q>> => H[c] = Held[c]
  BY <1>2, <1>6 DEF Without, Held, HeldOf
<1>8. PICK G : G = With(H, <<"g", th>>, x) OBVIOUS
<1>9. /\ G = [c \in Spots |-> G[c]] /\ G[<<"g", th>>] = Append(H[<<"g", th>>], x)
      /\ \A c \in Spots : c # <<"g", th>> => G[c] = H[c]
  BY <1>2, <1>7, <1>8 DEF With
<1>10. \A c \in Spots : Held'[c] = G[c]
  <2> SUFFICES ASSUME NEW c \in Spots PROVE Held'[c] = G[c]
    OBVIOUS
  <2>1. CASE c = <<"q", q>>
    <3>1. Held'[c] = Tail(queue[q]) /\ Held[c] = queue[q]
      BY <1>2, <1>3, <2>1 DEF Held, HeldOf
    <3>2. c # <<"g", th>> BY <2>1
    <3>3. G[c] = Tail(Held[c]) BY <1>7, <1>9, <2>1, <3>2
    <3> QED BY <3>1, <3>3
  <2>2. CASE c = <<"g", th>>
    <3>1. Held'[c] = sent[th] \o Append(collector[th], x) /\ Held[c] = sent[th] \o collector[th]
      BY <1>2, <1>4, <2>2 DEF Held, HeldOf
    <3>2. c # <<"q", q>> BY <2>2
    <3>3. G[c] = Append(Held[c], x) BY <1>7, <1>9, <2>2, <3>2
    <3> QED BY <1>5, <3>1, <3>3
  <2>3. CASE c # <<"q", q>> /\ c # <<"g", th>>
    <3>1. Held'[c] = Held[c] BY <1>1, <1>3, <1>4, <2>3 DEF Held, HeldOf
    <3>2. G[c] = Held[c] BY <1>7, <1>9, <2>3
    <3> QED BY <3>1, <3>2
  <2> QED BY <2>1, <2>2, <2>3
<1>11. Held' = [c \in Spots |-> Held'[c]] BY DEF Held, HeldOf
<1> QED BY <1>6, <1>8, <1>9, <1>10, <1>11

(* A burst is sent: nothing overtakes. *)
LEMMA HeldFlush ==
  ASSUME TypeOK, NEW th \in Threads,
         sent' = [sent EXCEPT ![th] = @ \o collector[th]],
         collector' = [collector EXCEPT ![th] = <<>>], queue' = queue
  PROVE  Held' = Held
<1>1. \A c \in Spots : c[1] # "q" => c[2] \in Threads BY SpotsAre
<1>2. \A u \in Threads : sent'[u] \o collector'[u] = sent[u] \o collector[u]
  <2> SUFFICES ASSUME NEW u \in Threads
               PROVE  sent'[u] \o collector'[u] = sent[u] \o collector[u]
    OBVIOUS
  <2>1. sent[u] \in Seq(Things) /\ collector[u] \in Seq(Things) BY DEF TypeOK, Things
  <2>2. CASE u = th
    <3>1. sent'[u] = sent[u] \o collector[u] /\ collector'[u] = <<>> BY <2>2 DEF TypeOK
    <3>2. \A S : \A z \in Seq(S) : z \o <<>> = z OBVIOUS
    <3>3. sent[u] \o collector[u] \in Seq(Things) BY <2>1
    <3> QED BY <3>1, <3>2, <3>3
  <2>3. CASE u # th
    <3>1. sent'[u] = sent[u] /\ collector'[u] = collector[u] BY <2>3 DEF TypeOK
    <3> QED BY <3>1
  <2> QED BY <2>2, <2>3
<1>3. \A c \in Spots : Held'[c] = Held[c] BY <1>1, <1>2 DEF Held, HeldOf
<1>4. Held' = [c \in Spots |-> Held'[c]] /\ Held = [c \in Spots |-> Held[c]]
  BY DEF Held, HeldOf
<1> QED BY <1>3, <1>4

(* The invariant of the flows at the start. *)
LEMMA FlowInit == Init => FlowInv
<1> SUFFICES ASSUME Init PROVE FlowInv OBVIOUS
<1>1. \A c \in Spots : Held[c] = <<>>
  <2>1. \A c \in Spots : c[1] = "q" => c[2] \in Queues BY SpotsAre
  <2>2. \A c \in Spots : c[1] # "q" => c[2] \in Threads BY SpotsAre
  <2>3. <<>> \o <<>> = <<>> OBVIOUS
  <2> QED BY <2>1, <2>2, <2>3 DEF Init, Held, HeldOf
<1>2. \A c, i, p : ~At(Held, c, i, p)
  <2>1. DOMAIN <<>> = {} OBVIOUS
  <2> QED BY <1>1, <2>1 DEF At
<1>3. Kept = {} /\ dropped \cup lost \subseteq 1..arrived BY DEF Init, Kept
<1> QED BY <1>2, <1>3 DEF FlowInv, OnePlace, InOrder, Counted, Covered

(* What is held decides, with the numbers of the packets kept.             *)
LEMMA FlowSame ==
  ASSUME FlowInv, Held' = Held, Kept' = Kept, (dropped \cup lost)' \subseteq 1..arrived'
  PROVE  FlowInv'
BY DEF FlowInv

(* A packet that arrives goes to the end of its own queue, if anywhere.    *)
LEMMA FlowArrive ==
  ASSUME TypeOK, FlowInv, NEW th \in Threads, NEW d \in Dests, NEW ns \in Nat,
         NEW q \in Queues, Arrive(th, d, ns, q),
         q = IF d = Self THEN <<"veth", ns>>
             ELSE IF th[1] = "veth" THEN <<"local", d - 1>> ELSE <<"transit", d - 1>>
  PROVE  FlowInv'
<1>1. PICK x : x = Numbered(th, d, ns) OBVIOUS
<1>2. arrived \in Nat /\ arrived + 1 \in 1..MaxPackets /\ arrived' = arrived + 1
  BY SizesAssumption DEF TypeOK, Arrive
<1>3. x \in Things /\ x.id = arrived + 1 /\ QueueOf(x) = q
  BY <1>1, <1>2 DEF Numbered, Things, Packets, QueueOf
<1>4. dropped \cup lost \subseteq 1..arrived BY DEF FlowInv
<1>5. CASE Joins(q, x)
  <2>1. queue' = [queue EXCEPT ![q] = Append(@, x)] /\ UNCHANGED <<dropped, lost>>
    BY <1>5 DEF Joins
  <2>2. Held' = With(Held, <<"q", q>>, x)
    <3>1. sent' = sent /\ collector' = collector BY DEF Arrive
    <3> QED BY <2>1, <3>1, HeldPut DEF TypeOK
  <2>3. Kept' = Kept \cup {x.id} /\ (dropped \cup lost)' \subseteq 1..arrived'
    BY <1>2, <1>3, <1>4, <2>1 DEF Kept
  <2>4. Newest(x, Kept) /\ Kept \in SUBSET Nat BY <1>2, <1>3 DEF Newest, Kept
  <2>5. <<"q", q>> \in Spots /\ Held \in [Spots -> Seq(Things)] BY SpotsAre, HeldTyped
  <2>6. OnePlace(Held) /\ InOrder(Held) /\ Counted(Held, Kept) /\ Covered(Held, Kept)
    BY DEF FlowInv
  <2>7. PICK b : b = <<"q", q>> OBVIOUS
  <2>8. /\ OnePlace(Held') /\ InOrder(Held')
        /\ Counted(Held', Kept \cup {x.id}) /\ Covered(Held', Kept \cup {x.id})
    BY <1>3, <2>2, <2>4, <2>5, <2>6, <2>7, PutKeeps
  <2> QED BY <2>3, <2>8 DEF FlowInv
<1>6. CASE Misses(q)
  <2>1. queue' = queue /\ (dropped \cup lost)' = (dropped \cup lost) \cup {arrived + 1}
    BY <1>6 DEF Misses
  <2>2. Held' = Held
    <3>1. sent' = sent /\ collector' = collector BY DEF Arrive
    <3> QED BY <2>1, <3>1 DEF Held, HeldOf
  <2>3. Kept' = Kept /\ (dropped \cup lost)' \subseteq 1..arrived' BY <1>2, <1>4, <2>1 DEF Kept
  <2> QED BY <2>2, <2>3, FlowSame
<1> QED BY <1>1, <1>5, <1>6, Outcomes

(* A packet that is pulled goes to the port of the thread that serves its  *)
(* queue.                                                                  *)
LEMMA FlowPulled ==
  ASSUME TypeOK, FlowInv, NEW th \in Threads, NEW q \in Queues, NEW x \in Things,
         Serves(th, q), queue[q] # <<>>, x.id = Head(queue[q]).id,
         QueueOf(x) = QueueOf(Head(queue[q])),
         queue' = [queue EXCEPT ![q] = Tail(@)],
         collector' = [collector EXCEPT ![th] = Append(@, x)],
         UNCHANGED <<arrived, dropped, lost, sent>>
  PROVE  FlowInv'
<1>1. Held' = With(Without(Held, <<"q", q>>), <<"g", th>>, x) BY HeldMove
<1>2. PICK a, b : a = <<"q", q>> /\ b = <<"g", th>> OBVIOUS
<1>3. a \in Spots /\ b \in Spots /\ Held \in [Spots -> Seq(Things)]
  BY <1>2, SpotsAre, HeldTyped
<1>4. Held[a] = queue[q] BY <1>2, <1>3 DEF Held, HeldOf
<1>5. Head(queue[q]) = Held[a][1]
  <2>1. \A S : \A z \in Seq(S) : z # <<>> => Head(z) = z[1] OBVIOUS
  <2>2. queue[q] \in Seq(Packets) BY DEF TypeOK
  <2>3. Head(queue[q]) = queue[q][1] BY <2>1, <2>2
  <2> QED BY <1>4, <2>3
<1>6. Kept' = Kept /\ (dropped \cup lost)' \subseteq 1..arrived' BY DEF Kept, FlowInv
<1>7. OnePlace(Held) /\ InOrder(Held) /\ Counted(Held, Kept) /\ Covered(Held, Kept)
  BY DEF FlowInv
<1>8. PICK H : H = Without(Held, a) OBVIOUS
<1>9. Held' = With(H, b, x) BY <1>1, <1>2, <1>8
<1>10. /\ Held[a] # <<>> /\ x.id = Held[a][1].id /\ QueueOf(x) = QueueOf(Held[a][1])
  BY <1>4, <1>5
<1>11. OnePlace(Held') /\ InOrder(Held') /\ Counted(Held', Kept) /\ Covered(Held', Kept)
  BY <1>2, <1>3, <1>7, <1>8, <1>9, <1>10, MoveKeeps
<1> QED BY <1>6, <1>11 DEF FlowInv

(* Every step keeps it. *)
LEMMA FlowStep == TypeOK /\ FlowInv /\ [Next]_vars => FlowInv'
<1> SUFFICES ASSUME TypeOK, FlowInv, [Next]_vars PROVE FlowInv'
  OBVIOUS
<1>1. ASSUME UNCHANGED <<arrived, dropped, lost, queue, collector, sent>> PROVE FlowInv'
  <2>1. Held' = Held /\ Kept' = Kept BY <1>1 DEF Held, HeldOf, Kept
  <2>2. (dropped \cup lost)' \subseteq 1..arrived' BY <1>1 DEF FlowInv
  <2> QED BY <2>1, <2>2, FlowSame
<1>2. CASE ReadTime BY <1>1, <1>2 DEF ReadTime
<1>3. ASSUME NEW v \in Veths, VethReceive(v) PROVE FlowInv'
  <2>1. PICK d \in Dests \ {Self} :
          /\ Arrive(<<"veth", v>>, d, 0, <<"local", d - 1>>)
          /\ <<"veth", v>> \in Threads /\ <<"local", d - 1>> \in Queues
    BY <1>3, VethArrives
  <2> QED BY <2>1, FlowArrive
<1>4. ASSUME NEW i \in Nics, NicReceive(i) PROVE FlowInv'
  <2>1. <<"nic", i>> \in Threads BY <1>4, NicArrives
  <2>2. CASE \E d \in Dests \ {Self} : /\ Arrive(<<"nic", i>>, d, 0, <<"transit", d - 1>>)
                                       /\ <<"transit", d - 1>> \in Queues
    BY <2>1, <2>2, FlowArrive
  <2>3. CASE \E ns \in Veths : /\ Arrive(<<"nic", i>>, Self, ns, <<"veth", ns>>)
                               /\ <<"veth", ns>> \in Queues
    <3>1. \A ns \in Veths : ns \in Nat BY SizesAssumption DEF Veths
    <3> QED BY <2>1, <2>3, <3>1, SelfAssumption, FlowArrive
  <2> QED BY <1>4, <2>2, <2>3, NicArrives
<1>5. ASSUME NEW i \in Nics, Pull(i) PROVE FlowInv'
  <2>1. PICK th, q : th = <<"nic", i>> /\ q = Current(i) OBVIOUS
  <2>2. turn \in [Nics -> 0 .. 2 * Share - 1] /\ topo \in Slots \cup {0} BY DEF TypeOK
  <2>3. th \in Threads /\ q \in Queues /\ Serves(th, q) /\ W(i) + 1 \in Dests
    BY <2>1, <2>2, CurrentQueue, ShareInDests DEF Threads, Serves, Current
  <2>4. /\ queue[q] # <<>> /\ queue' = [queue EXCEPT ![q] = Tail(@)]
        /\ collector' = [collector EXCEPT ![th] = Append(@, Encapsulated(Head(queue[q]), W(i) + 1))]
        /\ UNCHANGED <<arrived, dropped, lost, sent>>
    BY <1>5, <2>1 DEF Pull
  <2>5. PICK f : f = Head(queue[q]) OBVIOUS
  <2>6. PICK x : x = Encapsulated(f, W(i) + 1) OBVIOUS
  <2>7. f \in Packets BY <2>3, <2>4, <2>5, HeadOfQueue
  <2>8. x \in Things BY <2>2, <2>3, <2>6, <2>7, EncapsulatedFrame DEF Things
  <2>9. x.id = f.id /\ x.from = f.from /\ x.dest = f.dest /\ x.ns = f.ns
    BY <2>6 DEF Encapsulated
  <2>10. QueueOf(x) = QueueOf(f) BY <2>9 DEF QueueOf
  <2> QED BY <2>3, <2>4, <2>5, <2>6, <2>8, <2>9, <2>10, FlowPulled
<1>6. ASSUME NEW v \in Veths, VethPull(v) PROVE FlowInv'
  <2>1. PICK q : q = <<"veth", v>> OBVIOUS
  <2>2. q \in Threads /\ q \in Queues /\ Serves(q, q) BY <2>1 DEF Threads, Queues, Serves
  <2>3. /\ queue[q] # <<>> /\ queue' = [queue EXCEPT ![q] = Tail(@)]
        /\ collector' = [collector EXCEPT ![q] = Append(@, Head(queue[q]))]
        /\ UNCHANGED <<arrived, dropped, lost, sent>>
    BY <1>6, <2>1 DEF VethPull
  <2>4. Head(queue[q]) \in Things BY <2>2, <2>3, HeadOfQueue DEF Things
  <2> QED BY <2>2, <2>3, <2>4, FlowPulled
<1>7. ASSUME NEW th \in Threads,
             sent' = [sent EXCEPT ![th] = @ \o collector[th]],
             collector' = [collector EXCEPT ![th] = <<>>],
             UNCHANGED <<arrived, queue, dropped, lost>>
      PROVE  FlowInv'
  <2>1. Held' = Held BY <1>7, HeldFlush
  <2>2. Kept' = Kept /\ (dropped \cup lost)' \subseteq 1..arrived' BY <1>7 DEF Kept, FlowInv
  <2> QED BY <2>1, <2>2, FlowSame
<1>8. ASSUME NEW i \in Nics, Flush(i) PROVE FlowInv'
  <2>1. <<"nic", i>> \in Threads BY DEF Threads
  <2> QED BY <1>7, <1>8, <2>1 DEF Flush
<1>9. ASSUME NEW v \in Veths, VethFlush(v) PROVE FlowInv'
  <2>1. <<"veth", v>> \in Threads BY DEF Threads
  <2> QED BY <1>7, <1>9, <2>1 DEF VethFlush
<1>10. CASE UNCHANGED vars BY <1>1, <1>10 DEF vars
<1> QED BY <1>2, <1>3, <1>4, <1>5, <1>6, <1>8, <1>9, <1>10 DEF Next

(* What is held is typed and in order, always.                             *)
LEMMA FlowInvariant == Spec => [](TypeOK /\ FlowInv)
BY TypeInit, TypeStep, FlowInit, FlowStep, PTL DEF Spec

Starts(s, z) == \A k \in DOMAIN s : k \in DOMAIN z /\ z[k] = s[k]
Follows(s, t, z) == \A k \in DOMAIN t : Len(s) + k \in DOMAIN z /\ z[Len(s) + k] = t[k]
Splits(s, t, z) == \A k \in DOMAIN z :
                     \/ k \in DOMAIN s /\ z[k] = s[k]
                     \/ \E l \in DOMAIN t : k = Len(s) + l /\ z[k] = t[l]

(* The places of a sequence made of two.                                   *)
LEMMA InConcat ==
  ASSUME NEW s \in Seq(Things), NEW t \in Seq(Things), NEW z, z = s \o t
  PROVE  Starts(s, z) /\ Follows(s, t, z) /\ Splits(s, t, z)
<1>1. z \in Seq(Things) /\ Len(s) \in Nat /\ Len(t) \in Nat /\ Len(z) = Len(s) + Len(t)
      /\ DOMAIN s = 1..Len(s) /\ DOMAIN t = 1..Len(t) /\ DOMAIN z = 1..Len(z)
  OBVIOUS
<1>2. \A k \in 1..Len(s) : z[k] = s[k] OBVIOUS
<1>3. \A k \in 1..Len(t) : z[Len(s) + k] = t[k] OBVIOUS
<1>4. ASSUME NEW k \in DOMAIN z
      PROVE  \/ k \in DOMAIN s /\ z[k] = s[k]
             \/ \E l \in DOMAIN t : k = Len(s) + l /\ z[k] = t[l]
  <2>1. CASE k \in 1..Len(s) BY <1>1, <1>2, <2>1
  <2>2. CASE k \notin 1..Len(s)
    <3>1. k - Len(s) \in 1..Len(t) /\ k = Len(s) + (k - Len(s)) BY <1>1, <2>2
    <3>2. PICK l \in 1..Len(t) : k = Len(s) + l BY <3>1
    <3> QED BY <1>1, <1>3, <3>2
  <2> QED BY <2>1, <2>2
<1>5. \A k \in DOMAIN s : k \in DOMAIN z BY <1>1
<1>6. \A k \in DOMAIN t : Len(s) + k \in DOMAIN z BY <1>1
<1>7. Starts(s, z) BY <1>1, <1>2, <1>5 DEF Starts
<1>8. Follows(s, t, z) BY <1>1, <1>3, <1>6 DEF Follows
<1>9. Splits(s, t, z) BY <1>4 DEF Splits
<1> QED BY <1>7, <1>8, <1>9

(* What is in the queues, sent and collected is where Held has it.         *)
LEMMA HeldAt ==
  ASSUME TypeOK
  PROVE  /\ \A q \in Queues : \A k \in DOMAIN queue[q] : At(Held, <<"q", q>>, k, queue[q][k])
         /\ \A th \in Threads : \A k \in DOMAIN sent[th] :
              At(Held, <<"g", th>>, k, sent[th][k])
         /\ \A th \in Threads : \A k \in DOMAIN collector[th] :
              At(Held, <<"g", th>>, Len(sent[th]) + k, collector[th][k])
<1>1. ASSUME NEW q \in Queues, NEW k \in DOMAIN queue[q]
      PROVE  At(Held, <<"q", q>>, k, queue[q][k])
  <2>1. <<"q", q>> \in Spots BY SpotsAre
  <2>2. Held[<<"q", q>>] = queue[q] BY <2>1 DEF Held, HeldOf
  <2> QED BY <1>1, <2>1, <2>2 DEF At
<1>2. ASSUME NEW th \in Threads
      PROVE  /\ \A k \in DOMAIN sent[th] : At(Held, <<"g", th>>, k, sent[th][k])
             /\ \A k \in DOMAIN collector[th] :
                  At(Held, <<"g", th>>, Len(sent[th]) + k, collector[th][k])
  <2>1. <<"g", th>> \in Spots BY SpotsAre
  <2>2. Held[<<"g", th>>] = sent[th] \o collector[th] BY <2>1 DEF Held, HeldOf
  <2>3. sent[th] \in Seq(Things) /\ collector[th] \in Seq(Things) BY DEF TypeOK, Things
  <2>4. PICK z : z = sent[th] \o collector[th] OBVIOUS
  <2>5. Starts(sent[th], z) /\ Follows(sent[th], collector[th], z) BY <2>3, <2>4, InConcat
  <2>6. Held[<<"g", th>>] = z BY <2>2, <2>4
  <2> QED BY <2>1, <2>5, <2>6 DEF At, Starts, Follows
<1> QED BY <1>1, <1>2

(* ... and nothing else is.                                                *)
LEMMA AtHeld ==
  ASSUME TypeOK, NEW c, NEW i, NEW p, At(Held, c, i, p)
  PROVE  \/ \E q \in Queues : c = <<"q", q>> /\ i \in DOMAIN queue[q] /\ queue[q][i] = p
         \/ \E th \in Threads : c = <<"g", th>> /\ i \in DOMAIN sent[th] /\ sent[th][i] = p
         \/ \E th \in Threads : \E k \in DOMAIN collector[th] :
              c = <<"g", th>> /\ i = Len(sent[th]) + k /\ collector[th][k] = p
<1>1. c \in Spots /\ i \in DOMAIN Held[c] /\ Held[c][i] = p BY DEF At
<1>2. c = <<c[1], c[2]>> /\ c[1] \in {"q", "g"} BY <1>1, SpotsAre
<1>3. CASE c[1] = "q"
  <2>1. c[2] \in Queues /\ Held[c] = queue[c[2]] BY <1>1, <1>3, SpotsAre DEF Held, HeldOf
  <2> QED BY <1>1, <1>2, <1>3, <2>1
<1>4. CASE c[1] = "g"
  <2>1. c[2] \in Threads BY <1>1, <1>4, SpotsAre
  <2>2. Held[c] = sent[c[2]] \o collector[c[2]]
    <3>1. c[1] # "q" BY <1>4
    <3> QED BY <1>1, <3>1 DEF Held, HeldOf
  <2>3. PICK s, t, z : s = sent[c[2]] /\ t = collector[c[2]] /\ z = s \o t OBVIOUS
  <2>4. s \in Seq(Things) /\ t \in Seq(Things) BY <2>1, <2>3 DEF TypeOK, Things
  <2>5. Splits(s, t, z) BY <2>3, <2>4, InConcat
  <2>6. i \in DOMAIN z /\ z[i] = p BY <1>1, <2>2, <2>3
  <2>7. \/ i \in DOMAIN s /\ s[i] = p
        \/ \E k \in DOMAIN t : i = Len(s) + k /\ t[k] = p
    BY <2>5, <2>6 DEF Splits
  <2> QED BY <1>2, <1>4, <2>1, <2>3, <2>7
<1> QED BY <1>2, <1>3, <1>4

(***************************************************************************)
(* The packets of one flow leave by one port, in the order in which they   *)
(* came, however the threads interleave and the slots pass.                *)
(***************************************************************************)
THEOREM FlowsStayInOrder == Spec => []FlowOrder
<1>1. TypeOK /\ FlowInv => FlowOrder
  <2> SUFFICES ASSUME TypeOK, FlowInv, NEW th \in Threads, NEW uh \in Threads,
                      NEW k \in DOMAIN sent[th], NEW l \in DOMAIN sent[uh],
                      SameFlow(sent[th][k], sent[uh][l])
               PROVE  th = uh /\ (k < l => sent[th][k].id < sent[uh][l].id)
    BY DEF FlowOrder
  <2>1. PICK p, r : p = sent[th][k] /\ r = sent[uh][l] OBVIOUS
  <2>2. PICK c, e : c = <<"g", th>> /\ e = <<"g", uh>> OBVIOUS
  <2>3. At(Held, c, k, p) /\ At(Held, e, l, r) BY <2>1, <2>2, HeldAt
  <2>4. QueueOf(p) = QueueOf(r) BY <2>1 DEF SameFlow, QueueOf
  <2>5. OnePlace(Held) /\ InOrder(Held) /\ Counted(Held, Kept) BY DEF FlowInv
  <2>6. Serves(th, QueueOf(p)) /\ Serves(uh, QueueOf(r))
    <3>1. InPlace(p, c) /\ InPlace(r, e) BY <2>3, <2>5 DEF Counted
    <3> QED BY <2>2, <3>1 DEF InPlace
  <2>7. th = uh BY <2>4, <2>6, ServesOne
  <2>8. ASSUME k < l PROVE p.id < r.id
    <3>1. k \in Nat /\ l \in Nat /\ p.id \in Nat /\ r.id \in Nat
      BY <2>3, HeldTyped, AtTyped, ThingIds
    <3>2. k # l /\ ~(l < k) BY <2>8, <3>1
    <3>3. p.id # r.id BY <2>3, <2>5, <3>2 DEF OnePlace
    <3>4. ~(r.id < p.id)
      <4> SUFFICES ASSUME r.id < p.id PROVE FALSE OBVIOUS
      <4>1. Ahead(e, l, c, k) BY <2>3, <2>4, <2>5 DEF InOrder
      <4> QED BY <2>2, <3>2, <4>1 DEF Ahead
    <3> QED BY <3>1, <3>3, <3>4
  <2> QED BY <2>1, <2>7, <2>8
<1> QED BY <1>1, FlowInvariant, PTL
-----------------------------------------------------------------------------
(* Holding is what it is meant to be: the places of a packet.              *)
LEMMA HoldingIs ==
  \A f, n : \A y : y \in Holding(f, n) <=>
    \E x \in DOMAIN f : \E k \in DOMAIN f[x] : f[x][k].id = n /\ y = <<x, k>>
BY DEF Holding

(***************************************************************************)
(* No packet that a thread has queued is lost or sent twice; a packet is   *)
(* in no queue only if it was counted as dropped, or there was no memory   *)
(* or no queue for it.                                                     *)
(***************************************************************************)
THEOREM NoneLost == Spec => []NothingLost
<1>1. TypeOK /\ FlowInv => NothingLost
  <2> SUFFICES ASSUME TypeOK, FlowInv, NEW n \in 1..arrived
               PROVE  Cardinality(Holding(queue, n)) + Cardinality(Holding(collector, n))
                        + Cardinality(Holding(sent, n)) = IF n \in dropped \cup lost THEN 0 ELSE 1
    BY DEF NothingLost
  <2>1. PICK Q, C, S : Q = Holding(queue, n) /\ C = Holding(collector, n) /\ S = Holding(sent, n)
    OBVIOUS
  <2>2. DOMAIN queue = Queues /\ DOMAIN collector = Threads /\ DOMAIN sent = Threads
    BY DEF TypeOK
  <2>3. \A y : y \in Q <=> \E q \in Queues : \E k \in DOMAIN queue[q] :
                             queue[q][k].id = n /\ y = <<q, k>>
    BY <2>1, <2>2, HoldingIs
  <2>4. \A y : y \in C <=> \E th \in Threads : \E k \in DOMAIN collector[th] :
                             collector[th][k].id = n /\ y = <<th, k>>
    BY <2>1, <2>2, HoldingIs
  <2>5. \A y : y \in S <=> \E th \in Threads : \E k \in DOMAIN sent[th] :
                             sent[th][k].id = n /\ y = <<th, k>>
    BY <2>1, <2>2, HoldingIs
  (* Every member of the three sets is a place of n in Held.               *)
  <2>6. \A y \in Q : \E q \in Queues : \E k, p : y = <<q, k>> /\ At(Held, <<"q", q>>, k, p) /\ p.id = n
    BY <2>3, HeldAt
  <2>7. \A y \in C : \E th \in Threads : \E k \in DOMAIN collector[th] : \E p :
          y = <<th, k>> /\ At(Held, <<"g", th>>, Len(sent[th]) + k, p) /\ p.id = n
    BY <2>4, HeldAt
  <2>8. \A y \in S : \E th \in Threads : \E k \in DOMAIN sent[th] : \E p :
          y = <<th, k>> /\ At(Held, <<"g", th>>, k, p) /\ p.id = n
    BY <2>5, HeldAt
  <2>9. OnePlace(Held) /\ Counted(Held, Kept) /\ Covered(Held, Kept) BY DEF FlowInv
  <2>10. CASE n \in dropped \cup lost
    <3>1. \A c, i, p : At(Held, c, i, p) => p.id # n BY <2>9, <2>10 DEF Counted, Kept
    <3>2. Q = {} /\ C = {} /\ S = {} BY <2>6, <2>7, <2>8, <3>1
    <3>3. Cardinality(Q) = 0 /\ Cardinality(C) = 0 /\ Cardinality(S) = 0 BY <3>2, FS_EmptySet
    <3> QED BY <2>1, <2>10, <3>3
  <2>11. CASE n \notin dropped \cup lost
    <3>1. n \in Kept BY <2>11 DEF Kept
    <3>2. PICK c, i, p : At(Held, c, i, p) /\ p.id = n BY <2>9, <3>1 DEF Covered
    <3>3. \A d, j, r : At(Held, d, j, r) /\ r.id = n => c = d /\ i = j
      BY <2>9, <3>2 DEF OnePlace
    <3>4. CASE \E q \in Queues : c = <<"q", q>> /\ i \in DOMAIN queue[q] /\ queue[q][i] = p
      <4>1. PICK q \in Queues : c = <<"q", q>> /\ i \in DOMAIN queue[q] /\ queue[q][i] = p
        BY <3>4
      <4>2. <<q, i>> \in Q BY <2>3, <3>2, <4>1
      <4>3. \A y \in Q : y = <<q, i>>
        <5> SUFFICES ASSUME NEW y \in Q PROVE y = <<q, i>> OBVIOUS
        <5>1. PICK u \in Queues : \E k, r : y = <<u, k>> /\ At(Held, <<"q", u>>, k, r) /\ r.id = n
          BY <2>6
        <5>2. PICK k, r : y = <<u, k>> /\ At(Held, <<"q", u>>, k, r) /\ r.id = n BY <5>1
        <5>3. c = <<"q", u>> /\ i = k BY <3>3, <5>2
        <5> QED BY <4>1, <5>2, <5>3
      <4>4. \A th : <<"g", th>> # c BY <4>1
      <4>5. C = {}
        <5> SUFFICES ASSUME NEW y \in C PROVE FALSE OBVIOUS
        <5>1. \E th, j, r : At(Held, <<"g", th>>, j, r) /\ r.id = n BY <2>7
        <5> QED BY <3>3, <4>4, <5>1
      <4>6. S = {}
        <5> SUFFICES ASSUME NEW y \in S PROVE FALSE OBVIOUS
        <5>1. \E th, j, r : At(Held, <<"g", th>>, j, r) /\ r.id = n BY <2>8
        <5> QED BY <3>3, <4>4, <5>1
      <4>7. C = {} /\ S = {} BY <4>5, <4>6
      <4>8. Q = {<<q, i>>} BY <4>2, <4>3
      <4>9. Cardinality(Q) = 1 BY <4>8, FS_Singleton
      <4>10. Cardinality(C) = 0 /\ Cardinality(S) = 0 BY <4>7, FS_EmptySet
      <4> QED BY <2>1, <2>11, <4>9, <4>10
    <3>5. ASSUME NEW th \in Threads, c = <<"g", th>>
          PROVE  Q = {} /\ \A y \in S : y = <<th, i>>
      <4>1. Q = {} BY <2>6, <3>3, <3>5
      <4>2. ASSUME NEW y \in S PROVE y = <<th, i>>
        <5>1. PICK u \in Threads : \E k \in DOMAIN sent[u] : \E r :
                y = <<u, k>> /\ At(Held, <<"g", u>>, k, r) /\ r.id = n
          BY <2>8
        <5>2. PICK k \in DOMAIN sent[u] : \E r :
                y = <<u, k>> /\ At(Held, <<"g", u>>, k, r) /\ r.id = n
          BY <5>1
        <5>3. c = <<"g", u>> /\ i = k BY <3>3, <5>2
        <5> QED BY <3>5, <5>2, <5>3
      <4> QED BY <4>1, <4>2
    <3>6. \A th \in Threads : \A k \in DOMAIN sent[th] : \A l \in DOMAIN collector[th] :
            k # Len(sent[th]) + l
      <4> SUFFICES ASSUME NEW th \in Threads, NEW k \in DOMAIN sent[th],
                          NEW l \in DOMAIN collector[th]
                   PROVE  k # Len(sent[th]) + l
        OBVIOUS
      <4>1. sent[th] \in Seq(Things) /\ collector[th] \in Seq(Things) BY DEF TypeOK, Things
      <4> QED BY <4>1
    <3>7. CASE \E th \in Threads : c = <<"g", th>> /\ i \in DOMAIN sent[th] /\ sent[th][i] = p
      <4>1. PICK th \in Threads : c = <<"g", th>> /\ i \in DOMAIN sent[th] /\ sent[th][i] = p
        BY <3>7
      <4>2. <<th, i>> \in S BY <2>5, <3>2, <4>1
      <4>3. S = {<<th, i>>} /\ Q = {} BY <3>5, <4>1, <4>2
      <4>4. C = {}
        <5> SUFFICES ASSUME NEW y \in C PROVE FALSE OBVIOUS
        <5>1. PICK u \in Threads : \E k \in DOMAIN collector[u] : \E r :
                /\ y = <<u, k>> /\ At(Held, <<"g", u>>, Len(sent[u]) + k, r) /\ r.id = n
          BY <2>7
        <5>2. PICK k \in DOMAIN collector[u] : \E r :
                /\ y = <<u, k>> /\ At(Held, <<"g", u>>, Len(sent[u]) + k, r) /\ r.id = n
          BY <5>1
        <5>3. c = <<"g", u>> /\ i = Len(sent[u]) + k BY <3>3, <5>2
        <5>4. u = th BY <4>1, <5>3
        <5> QED BY <3>6, <4>1, <5>3, <5>4
      <4>5. Cardinality(S) = 1 BY <4>3, FS_Singleton
      <4>6. Cardinality(C) = 0 /\ Cardinality(Q) = 0 BY <4>3, <4>4, FS_EmptySet
      <4> QED BY <2>1, <2>11, <4>5, <4>6
    <3>8. CASE \E th \in Threads : \E k \in DOMAIN collector[th] :
                 c = <<"g", th>> /\ i = Len(sent[th]) + k /\ collector[th][k] = p
      <4>1. PICK th \in Threads : \E k \in DOMAIN collector[th] :
              c = <<"g", th>> /\ i = Len(sent[th]) + k /\ collector[th][k] = p
        BY <3>8
      <4>2. PICK k \in DOMAIN collector[th] :
              c = <<"g", th>> /\ i = Len(sent[th]) + k /\ collector[th][k] = p
        BY <4>1
      <4>3. <<th, k>> \in C BY <2>4, <3>2, <4>2
      <4>4. S = {}
        <5> SUFFICES ASSUME NEW y \in S PROVE FALSE OBVIOUS
        <5>1. y = <<th, i>> BY <3>5, <4>2
        <5>2. PICK u, l : u \in Threads /\ l \in DOMAIN sent[u] /\ y = <<u, l>> BY <2>5
        <5>3. u = th /\ l = i BY <5>1, <5>2
        <5> QED BY <3>6, <4>2, <5>2, <5>3
      <4>5. \A y \in C : y = <<th, k>>
        <5> SUFFICES ASSUME NEW y \in C PROVE y = <<th, k>> OBVIOUS
        <5>1. PICK u \in Threads : \E l \in DOMAIN collector[u] : \E r :
                /\ y = <<u, l>> /\ At(Held, <<"g", u>>, Len(sent[u]) + l, r) /\ r.id = n
          BY <2>7
        <5>2. PICK l \in DOMAIN collector[u] : \E r :
                /\ y = <<u, l>> /\ At(Held, <<"g", u>>, Len(sent[u]) + l, r) /\ r.id = n
          BY <5>1
        <5>3. c = <<"g", u>> /\ i = Len(sent[u]) + l BY <3>3, <5>2
        <5>4. u = th BY <4>2, <5>3
        <5>5. Len(sent[th]) \in Nat /\ l \in Nat /\ k \in Nat
          <6>1. sent[th] \in Seq(Things) /\ collector[th] \in Seq(Things) BY DEF TypeOK, Things
          <6> QED BY <5>4, <6>1
        <5>6. l = k BY <4>2, <5>3, <5>4, <5>5
        <5> QED BY <5>2, <5>4, <5>6
      <4>6. C = {<<th, k>>} /\ Q = {} BY <3>5, <4>2, <4>3, <4>5
      <4>7. Cardinality(C) = 1 BY <4>6, FS_Singleton
      <4>8. Cardinality(S) = 0 /\ Cardinality(Q) = 0 BY <4>4, <4>6, FS_EmptySet
      <4> QED BY <2>1, <2>11, <4>7, <4>8
    <3> QED BY <3>2, <3>4, <3>7, <3>8, AtHeld
  <2> QED BY <2>10, <2>11
<1> QED BY <1>1, FlowInvariant, PTL

-----------------------------------------------------------------------------
(***************************************************************************)
(* The threads of a node with one NIC queue are a Forwarder.               *)
(***************************************************************************)
OuterQueues == ({"local", "transit"} \X Dests) \cup ({"veth"} \X Veths)
Outlets == {<<"nic", 0>>} \cup ({"veth"} \X Veths)

(* Each queue of the promise is one queue of the node. *)
LEMMA InnerQueues ==
  /\ \A u \in OuterQueues : Inner(u) \in Queues
  /\ \A u, v \in OuterQueues : Inner(u) = Inner(v) => u = v
  /\ \A side \in {"local", "transit"}, d \in Dests :
       <<side, d>> \in OuterQueues /\ Inner(<<side, d>>) = <<side, d - 1>>
  /\ \A ns \in Veths : <<"veth", ns>> \in OuterQueues /\ Inner(<<"veth", ns>>) = <<"veth", ns>>
<1>1. \A side \in {"local", "transit"}, d \in Dests :
        /\ <<side, d>> \in OuterQueues /\ Inner(<<side, d>>) = <<side, d - 1>>
        /\ d - 1 \in DestQueues
  BY SizesAssumption DEF OuterQueues, Inner, Dests, DestQueues
<1>2. \A ns \in Veths : <<"veth", ns>> \in OuterQueues /\ Inner(<<"veth", ns>>) = <<"veth", ns>>
  BY DEF OuterQueues, Inner
<1>3. \A u \in OuterQueues : \/ \E side \in {"local", "transit"}, d \in Dests : u = <<side, d>>
                             \/ \E ns \in Veths : u = <<"veth", ns>>
  BY DEF OuterQueues
<1>4. \A u \in OuterQueues : Inner(u) \in Queues
  <2> SUFFICES ASSUME NEW u \in OuterQueues PROVE Inner(u) \in Queues OBVIOUS
  <2>1. CASE \E side \in {"local", "transit"}, d \in Dests : u = <<side, d>>
    BY <1>1, <2>1 DEF Queues
  <2>2. CASE \E ns \in Veths : u = <<"veth", ns>> BY <1>2, <2>2 DEF Queues
  <2> QED BY <1>3, <2>1, <2>2
<1>5. \A d, e \in Dests : d - 1 = e - 1 => d = e BY SizesAssumption DEF Dests
<1>6. \A u, v \in OuterQueues : Inner(u) = Inner(v) => u = v
  <2> SUFFICES ASSUME NEW u \in OuterQueues, NEW v \in OuterQueues, Inner(u) = Inner(v)
               PROVE  u = v
    OBVIOUS
  <2>1. CASE \E ns \in Veths : u = <<"veth", ns>> BY <1>1, <1>2, <1>3, <2>1
  <2>2. CASE \E ns \in Veths : v = <<"veth", ns>> BY <1>1, <1>2, <1>3, <2>2
  <2>3. ASSUME NEW side \in {"local", "transit"}, NEW d \in Dests, u = <<side, d>>,
               NEW rim \in {"local", "transit"}, NEW e \in Dests, v = <<rim, e>>
        PROVE  u = v
    <3>1. <<side, d - 1>> = <<rim, e - 1>> BY <1>1, <2>3
    <3> QED BY <1>5, <2>3, <3>1
  <2> QED BY <1>3, <2>1, <2>2, <2>3
<1> QED BY <1>1, <1>2, <1>4, <1>6

(* A queue of the node that changes is a queue of the promise that changes. *)
LEMMA BarQueue ==
  ASSUME TypeOK, NEW u \in OuterQueues, NEW y, queue' = [queue EXCEPT ![Inner(u)] = y]
  PROVE  queueBar' = [queueBar EXCEPT ![u] = y]
<1>1. \A v \in OuterQueues : queue'[Inner(v)] = IF v = u THEN y ELSE queue[Inner(v)]
  BY InnerQueues DEF TypeOK
<1>2. /\ queueBar = [v \in OuterQueues |-> queue[Inner(v)]]
      /\ queueBar' = [v \in OuterQueues |-> queue'[Inner(v)]]
  BY DEF queueBar, OuterQueues, Inner
<1> HIDE DEF OuterQueues
<1> QED BY <1>1, <1>2

(* What the outlets were given is what the sending threads hold. *)
LEMMA BarOutlets ==
  ASSUME NNic = 1
  PROVE  /\ Outlets = Threads
         /\ outBar = [o \in Outlets |-> Held[<<"g", o>>]]
         /\ outBar' = [o \in Outlets |-> Held'[<<"g", o>>]]
<1>1. Outlets = Threads BY DEF Outlets, Threads, Nics
<1>2. \A o \in Outlets : <<"g", o>> \in Spots BY <1>1, SpotsAre
<1>3. /\ \A o \in Outlets : Held[<<"g", o>>] = Given(o)
      /\ \A o \in Outlets : Held'[<<"g", o>>] = Given(o)'
  BY <1>2 DEF Held, HeldOf, Given
<1>4. outBar = [o \in Outlets |-> Given(o)] /\ outBar' = [o \in Outlets |-> Given(o)']
  BY DEF outBar, Outlets
<1> QED BY <1>1, <1>3, <1>4

(* A step that leaves queues, bursts and ports alone gives the outlets nothing. *)
LEMMA BarRests ==
  ASSUME NNic = 1, Held' = Held
  PROVE  outBar' = outBar
BY BarOutlets

(* A packet is pushed on its queue, dropped because that is full, or never *)
(* seen by the promise: there was no memory or no queue for it.            *)
LEMMA BarArrive ==
  ASSUME TypeOK, NNic = 1, NEW th \in Threads, NEW d \in Dests, NEW ns \in Veths \cup {0},
         NEW u \in OuterQueues, Arrive(th, d, ns, Inner(u)),
         u \in (IF d = Self THEN {<<"veth", ns>>} ELSE {"local", "transit"} \X {d})
  PROVE  Promise!Receive \/ UNCHANGED Promise!vars
<1>1. PICK p : p = Numbered(th, d, ns) OBVIOUS
<1>2. p \in [id : 1..MaxPackets, from : Threads, dest : Dests, ns : Veths \cup {0}]
  <2>1. arrived + 1 \in 1..MaxPackets BY SizesAssumption DEF TypeOK, Arrive
  <2> QED BY <1>1, <2>1 DEF Numbered
<1>3. p.id = arrived + 1 /\ p.dest = d /\ p.ns = ns BY <1>1 DEF Numbered
<1>4. u \in Promise!Places(p) BY <1>3 DEF Promise!Places
<1>5. Inner(u) \in Queues BY InnerQueues
<1>6. queueBar[u] = queue[Inner(u)] BY DEF queueBar, OuterQueues
<1>7. UNCHANGED <<topo, sent, collector>> BY DEF Arrive
<1>8. UNCHANGED outBar BY <1>7 DEF outBar, Given
<1>9. CASE Joins(Inner(u), p)
  <2>1. PICK y : y = Append(queue[Inner(u)], p) OBVIOUS
  <2>2. /\ queue' = [queue EXCEPT ![Inner(u)] = y] /\ dropped' = dropped
        /\ Len(queue[Inner(u)]) < QueueSize
    BY <1>9, <2>1 DEF Joins
  <2>3. queueBar' = [queueBar EXCEPT ![u] = y] BY <2>2, BarQueue
  <2>4. queueBar' = [queueBar EXCEPT ![u] = Append(@, p)] BY <1>6, <2>1, <2>3
  <2>5. Promise!Accept(p) BY <1>4, <1>6, <2>2, <2>4 DEF Promise!Accept
  <2> QED BY <1>2, <1>7, <1>8, <2>5 DEF Promise!Receive
<1>10. CASE Len(queue[Inner(u)]) >= QueueSize /\ queue' = queue /\ dropped' = dropped \cup {p.id}
  <2>1. queue' = queue /\ dropped' = dropped \cup {p.id} BY <1>10
  <2>2. Len(queue[Inner(u)]) = QueueSize
    <3>1. queue[Inner(u)] \in Seq(Packets) /\ Len(queue[Inner(u)]) <= QueueSize
      BY <1>5 DEF TypeOK
    <3> QED BY <1>10, <3>1, SizesAssumption
  <2>3. queueBar' = queueBar BY <2>1 DEF queueBar
  <2>4. Promise!Refuse(p) BY <1>4, <1>6, <2>1, <2>2, <2>3 DEF Promise!Refuse
  <2> QED BY <1>2, <1>7, <1>8, <2>4 DEF Promise!Receive
<1>11. CASE queue' = queue /\ dropped' = dropped
  <2>1. queueBar' = queueBar BY <1>11 DEF queueBar
  <2> QED BY <1>7, <1>8, <1>11, <2>1 DEF Promise!vars
<1>12. Joins(Inner(u), p) \/ Misses(Inner(u)) BY <1>1, Outcomes
<1> QED BY <1>3, <1>9, <1>10, <1>11, <1>12 DEF Misses

(* Thread th moves the head of a queue, made x, to its burst. *)
Moves(u, th, x) == /\ queue' = [queue EXCEPT ![Inner(u)] = Tail(@)]
                   /\ collector' = [collector EXCEPT ![th] = Append(@, x)]
                   /\ sent' = sent

(* Seen from outside, the packet leaves its queue for the outlet of the thread. *)
LEMMA BarMove ==
  ASSUME TypeOK, NNic = 1, NEW u \in OuterQueues, NEW th \in Threads, NEW x \in Things,
         Moves(u, th, x)
  PROVE  /\ queueBar' = [queueBar EXCEPT ![u] = Tail(@)]
         /\ outBar' = [outBar EXCEPT ![th] = Append(@, x)]
<1>1. Inner(u) \in Queues BY InnerQueues
<1>2. queueBar' = [queueBar EXCEPT ![u] = Tail(@)]
  <2>1. PICK y : y = Tail(queue[Inner(u)]) OBVIOUS
  <2>2. queueBar' = [queueBar EXCEPT ![u] = y] BY <2>1, BarQueue DEF Moves
  <2>3. queueBar[u] = queue[Inner(u)] BY DEF queueBar, OuterQueues
  <2> QED BY <2>1, <2>2, <2>3
<1>3. PICK a, b : a = <<"q", Inner(u)>> /\ b = <<"g", th>> OBVIOUS
<1>4. a \in Spots /\ b \in Spots /\ b # a /\ \A o \in Threads : <<"g", o>> \in Spots /\ <<"g", o>> # a
  BY <1>1, <1>3, SpotsAre
<1>5. Held' = With(Without(Held, a), b, x) BY <1>1, <1>3, HeldMove DEF Moves
<1>6. \A o \in Threads : Held'[<<"g", o>>] = IF o = th THEN Append(Held[<<"g", o>>], x)
                                             ELSE Held[<<"g", o>>]
  <2>1. PICK H : H = Without(Held, a) OBVIOUS
  <2>2. H = [c \in Spots |-> H[c]] /\ \A c \in Spots : c # a => H[c] = Held[c]
    BY <2>1 DEF Without, Held, HeldOf
  <2>3. /\ Held'[b] = Append(H[b], x)
        /\ \A c \in Spots : c # b => Held'[c] = H[c]
    BY <1>4, <1>5, <2>1, <2>2 DEF With
  <2>4. \A o \in Threads : o # th => <<"g", o>> # b BY <1>3
  <2> QED BY <1>3, <1>4, <2>2, <2>3, <2>4
<1>7. outBar' = [outBar EXCEPT ![th] = Append(@, x)]
  <2>1. /\ outBar = [o \in Threads |-> Held[<<"g", o>>]]
        /\ outBar' = [o \in Threads |-> Held'[<<"g", o>>]]
    BY BarOutlets
  <2> QED BY <1>6, <2>1
<1> QED BY <1>2, <1>7

(* The NIC thread pulls a packet: it is sent with the next hop of its own  *)
(* destination, since the queue's index in the one share is its number.    *)
LEMMA BarPull ==
  ASSUME TypeOK, QueuedByDest, NNic = 1, NEW i \in Nics, Pull(i)
  PROVE  \E u \in OuterQueues : Promise!Send(u)
<1>1. /\ W(i) \in 0 .. Share - 1 /\ Side(i) \in {"local", "transit"}
      /\ i * Share + W(i) \in DestQueues /\ Current(i) \in Queues
  BY CurrentQueue DEF TypeOK
<1>2. i = 0 /\ <<"nic", i>> \in Threads BY DEF Nics, Threads
<1>3. Current(i) = <<Side(i), W(i)>> /\ W(i) \in DestQueues
  <2>1. i * Share + W(i) = W(i) BY <1>1, <1>2, Shares
  <2> QED BY <1>1, <2>1 DEF Current
<1>4. PICK d \in Dests : d = W(i) + 1 /\ d - 1 = W(i)
  BY <1>1, <1>3, Shares, SizesAssumption DEF Dests, DestQueues
<1>5. PICK u : u = <<Side(i), d>> /\ u \in OuterQueues /\ Inner(u) = Current(i)
  <2>1. <<Side(i), d>> \in OuterQueues /\ Inner(<<Side(i), d>>) = <<Side(i), d - 1>>
    BY <1>1, InnerQueues
  <2> QED BY <1>3, <1>4, <2>1
<1>6. /\ queue[Inner(u)] # <<>> /\ queue' = [queue EXCEPT ![Inner(u)] = Tail(@)]
      /\ collector' = [collector EXCEPT ![<<"nic", i>>] =
                         Append(@, Encapsulated(Head(queue[Inner(u)]), W(i) + 1))]
      /\ UNCHANGED <<topo, dropped, sent>>
  BY <1>5 DEF Pull
<1>7. PICK p \in Packets : p = Head(queue[Inner(u)]) BY <1>1, <1>5, <1>6, HeadOfQueue
<1>8. p.dest = d
  <2>1. queue[Inner(u)] \in Seq(Packets) BY <1>1, <1>5 DEF TypeOK
  <2>2. 1 \in DOMAIN queue[Inner(u)] /\ p = queue[Inner(u)][1] BY <1>6, <1>7, <2>1
  <2> QED BY <1>1, <1>3, <1>4, <1>5, <2>2 DEF QueuedByDest
<1>9. PICK x \in Things : x = Encapsulated(p, d)
  BY EncapsulatedFrame DEF TypeOK, Things
<1>10. x = Promise!Framed(p) BY <1>8, <1>9 DEF Encapsulated, Promise!Framed
<1>11. collector' = [collector EXCEPT ![<<"nic", i>>] = Append(@, x)] BY <1>4, <1>6, <1>7, <1>9
<1>12. /\ queueBar' = [queueBar EXCEPT ![u] = Tail(@)]
       /\ outBar' = [outBar EXCEPT ![<<"nic", i>>] = Append(@, x)]
  <2>1. PICK th \in Threads : th = <<"nic", i>> BY <1>2
  <2>2. Moves(u, th, x) BY <1>6, <1>11, <2>1 DEF Moves
  <2> QED BY <1>5, <2>1, <2>2, BarMove
<1>13. queueBar[u] = queue[Inner(u)] BY <1>5 DEF queueBar, OuterQueues
<1>14. u \notin Promise!VethQueues BY <1>1, <1>5 DEF Promise!VethQueues
<1>15. Promise!Send(u)
  <2>1. outBar' = [outBar EXCEPT ![<<"nic", 0>>] = Append(@, Promise!Framed(Head(queueBar[u])))]
    BY <1>2, <1>7, <1>10, <1>12, <1>13
  <2>2. queueBar[u] # <<>> BY <1>6, <1>13
  <2> QED BY <1>6, <1>12, <1>14, <2>1, <2>2 DEF Promise!Send, Promise!Nic
<1> QED BY <1>5, <1>15

(* A namespace's thread pulls a packet: it goes to the namespace as it is. *)
LEMMA BarVethPull ==
  ASSUME TypeOK, NNic = 1, NEW v \in Veths, VethPull(v)
  PROVE  \E u \in OuterQueues : Promise!Send(u)
<1>1. PICK u : u = <<"veth", v>> /\ u \in OuterQueues /\ Inner(u) = u BY InnerQueues
<1>2. u \in Queues /\ u \in Threads BY <1>1 DEF Queues, Threads
<1>3. /\ queue[u] # <<>> /\ queue' = [queue EXCEPT ![u] = Tail(@)]
      /\ collector' = [collector EXCEPT ![u] = Append(@, Head(queue[u]))]
      /\ UNCHANGED <<topo, dropped, sent>>
  BY <1>1 DEF VethPull
<1>4. PICK p \in Packets : p = Head(queue[u]) BY <1>2, <1>3, HeadOfQueue
<1>5. p \in Things BY DEF Things
<1>6. collector' = [collector EXCEPT ![u] = Append(@, p)] BY <1>3, <1>4
<1>7. /\ queueBar' = [queueBar EXCEPT ![u] = Tail(@)]
      /\ outBar' = [outBar EXCEPT ![u] = Append(@, p)]
  <2>1. Moves(u, u, p) BY <1>1, <1>3, <1>6 DEF Moves
  <2> QED BY <1>1, <1>2, <1>5, <2>1, BarMove
<1>8. queueBar[u] = queue[u] BY <1>1 DEF queueBar, OuterQueues
<1>9. u \in Promise!VethQueues BY <1>1 DEF Promise!VethQueues
<1>10. Promise!Send(u)
  <2>1. outBar' = [outBar EXCEPT ![u] = Append(@, Head(queueBar[u]))] BY <1>4, <1>7, <1>8
  <2>2. queueBar[u] # <<>> BY <1>3, <1>8
  <2> QED BY <1>3, <1>7, <1>9, <2>1, <2>2 DEF Promise!Send
<1> QED BY <1>1, <1>10

(* Every step of the threads is one of a Forwarder, or a stutter. *)
LEMMA BarStep ==
  ASSUME TypeOK, QueuedByDest, NNic = 1, [Next]_vars
  PROVE  [Promise!Next]_(Promise!vars)
<1>1. DOMAIN queueBar = OuterQueues BY DEF queueBar, OuterQueues
<1>2. CASE UNCHANGED vars
  BY <1>2 DEF vars, Promise!vars, queueBar, outBar, Given
<1>3. CASE ReadTime
  <2>1. UNCHANGED <<queueBar, outBar>> BY <1>3 DEF ReadTime, queueBar, outBar, Given
  <2>2. Promise!ReadTime BY <1>3, <2>1 DEF ReadTime, Promise!ReadTime
  <2> QED BY <2>2 DEF Promise!Next
<1>4. ASSUME NEW v \in Veths, VethReceive(v) PROVE Promise!Receive \/ UNCHANGED Promise!vars
  <2>1. PICK d \in Dests \ {Self} : Arrive(<<"veth", v>>, d, 0, <<"local", d - 1>>)
    BY <1>4 DEF VethReceive
  <2>2. PICK u : u = <<"local", d>> /\ u \in OuterQueues /\ Inner(u) = <<"local", d - 1>>
    BY InnerQueues
  <2>3. <<"veth", v>> \in Threads /\ u \in {"local", "transit"} \X {d} BY <2>2 DEF Threads
  <2> QED BY <2>1, <2>2, <2>3, BarArrive
<1>5. ASSUME NEW i \in Nics, NicReceive(i) PROVE Promise!Receive \/ UNCHANGED Promise!vars
  <2>1. <<"nic", i>> \in Threads BY DEF Threads
  <2>2. ASSUME NEW d \in Dests \ {Self}, Arrive(<<"nic", i>>, d, 0, <<"transit", d - 1>>)
        PROVE  Promise!Receive \/ UNCHANGED Promise!vars
    <3>1. PICK u : u = <<"transit", d>> /\ u \in OuterQueues /\ Inner(u) = <<"transit", d - 1>>
      BY InnerQueues
    <3>2. u \in {"local", "transit"} \X {d} BY <3>1
    <3> QED BY <2>1, <2>2, <3>1, <3>2, BarArrive
  <2>3. ASSUME NEW ns \in Veths, Arrive(<<"nic", i>>, Self, ns, <<"veth", ns>>)
        PROVE  Promise!Receive \/ UNCHANGED Promise!vars
    <3>1. PICK u : u = <<"veth", ns>> /\ u \in OuterQueues /\ Inner(u) = <<"veth", ns>>
      BY InnerQueues
    <3> QED BY <2>1, <2>3, <3>1, SelfAssumption, BarArrive
  <2> QED BY <1>5, <2>2, <2>3 DEF NicReceive
<1>6. ASSUME NEW v \in Veths, VethPull(v) PROVE Promise!Next
  BY <1>1, <1>6, BarVethPull DEF Promise!Next
<1>7. ASSUME NEW i \in Nics, Pull(i) PROVE Promise!Next
  BY <1>1, <1>7, BarPull DEF Promise!Next
<1>8. ASSUME NEW th \in Threads, queue' = queue, topo' = topo, dropped' = dropped,
             sent' = [sent EXCEPT ![th] = @ \o collector[th]],
             collector' = [collector EXCEPT ![th] = <<>>]
      PROVE  UNCHANGED Promise!vars
  <2>1. outBar' = outBar BY <1>8, HeldFlush, BarRests
  <2>2. queueBar' = queueBar BY <1>8 DEF queueBar
  <2> QED BY <1>8, <2>1, <2>2 DEF Promise!vars
<1>9. ASSUME NEW v \in Veths, VethFlush(v) PROVE UNCHANGED Promise!vars
  <2>1. <<"veth", v>> \in Threads BY DEF Threads
  <2> QED BY <1>8, <1>9, <2>1 DEF VethFlush
<1>10. ASSUME NEW i \in Nics, Flush(i) PROVE UNCHANGED Promise!vars
  <2>1. <<"nic", i>> \in Threads BY DEF Threads
  <2> QED BY <1>8, <1>10, <2>1 DEF Flush
<1> QED BY <1>2, <1>3, <1>4, <1>5, <1>6, <1>7, <1>9, <1>10 DEF Next, Promise!Next

(* A node starts as a Forwarder. *)
LEMMA BarInit ==
  ASSUME NNic = 1, Init
  PROVE  Promise!Init
<1>1. queueBar = [u \in OuterQueues |-> <<>>]
  <2>1. \A u \in OuterQueues : queue[Inner(u)] = <<>> BY InnerQueues DEF Init
  <2>2. queueBar = [u \in OuterQueues |-> queue[Inner(u)]] BY DEF queueBar, OuterQueues
  <2> HIDE DEF OuterQueues
  <2> QED BY <2>1, <2>2
<1>2. outBar = [o \in Outlets |-> <<>>]
  <2>1. outBar = [o \in Outlets |-> sent[o] \o collector[o]] BY DEF outBar, Outlets, Given
  <2>2. \A o \in Outlets : sent[o] = <<>> /\ collector[o] = <<>> BY BarOutlets DEF Init
  <2>3. <<>> \o <<>> = <<>> OBVIOUS
  <2> HIDE DEF Outlets
  <2> QED BY <2>1, <2>2, <2>3
<1>3. topo \in Slots \cup {0} /\ dropped = {} BY DEF Init
<1> QED BY <1>1, <1>2, <1>3
        DEF Promise!Init, Promise!DestQueues, Promise!VethQueues, Promise!Nic, OuterQueues, Outlets

(***************************************************************************)
(* With one NIC queue the threads together start and step as Forwarder     *)
(* promises: what a neighbour sees of them is one FIFO per side and        *)
(* destination, refused only when full, sent from the head with the next   *)
(* hop of its own destination.  (Not its fairness.)                        *)
(***************************************************************************)
THEOREM NodeIsForwarder ==
  ASSUME NNic = 1
  PROVE  Spec => Promise!Init /\ [][Promise!Next]_(Promise!vars)
<1>1. Init => Promise!Init BY BarInit
<1>2. TypeOK /\ QueuedByDest /\ [Next]_vars => [Promise!Next]_(Promise!vars) BY BarStep
<1> QED BY <1>1, <1>2, DatapathTypeCorrect, QueuesCorrect, PTL DEF Spec
=============================================================================
