---------------------------- MODULE RotorProofs ----------------------------
(***************************************************************************)
(* What Rotor.tla says of the network, for any number of nodes and         *)
(* packets, any route files and any drift of the clocks.                   *)
(***************************************************************************)
EXTENDS Rotor, Integers, TLAPS

-----------------------------------------------------------------------------
(* The clock. *)

(* Arithmetic: division with a remainder. *)
LEMMA Division ==
  \A a \in Nat, b \in Nat \ {0} :
    a = b * (a \div b) + (a % b) /\ a % b \in 0 .. b - 1 /\ a \div b \in Nat
<1>1. \A a \in Nat, b \in Nat \ {0} : a = b * (a \div b) + (a % b) OBVIOUS
<1>2. \A a \in Nat, b \in Nat \ {0} : a % b \in 0 .. b - 1 /\ a \div b \in Nat OBVIOUS
<1> QED BY <1>1, <1>2

(* What is less than m multiples of b holds less than m of them.           *)
LEMMA Quotient ==
  ASSUME NEW q \in Nat, NEW b \in Nat \ {0}, NEW m \in Nat, NEW r \in 0 .. b - 1,
         b * q + r < b * m
  PROVE  q < m
<1> SUFFICES ASSUME m <= q PROVE FALSE OBVIOUS
<1>1. PICK d \in Nat : q = m + d
  <2>1. q - m \in Nat /\ q = m + (q - m) OBVIOUS
  <2> QED BY <2>1
<1>2. b * q = b * m + b * d BY <1>1
<1>3. b * d \in Nat /\ b * m \in Nat OBVIOUS
<1> QED BY <1>2, <1>3

(* A cycle is a number of whole slots. *)
LEMMA WholeSlots == NSlots \in Nat \ {0} /\ CycleTime = SlotTime * NSlots
<1>1. /\ CycleTime \in Nat /\ SlotTime \in Nat \ {0} /\ CycleTime # 0
      /\ CycleTime % SlotTime = 0
  BY ClockAssumption
<1>2. CycleTime \div SlotTime \in Nat /\ CycleTime = SlotTime * (CycleTime \div SlotTime)
  <2>1. /\ CycleTime = SlotTime * (CycleTime \div SlotTime) + (CycleTime % SlotTime)
        /\ CycleTime \div SlotTime \in Nat
    BY <1>1, Division
  <2> QED BY <1>1, <2>1
<1>3. \A a \in Nat, b \in Nat : a = b * 0 => a = 0 OBVIOUS
<1>4. CycleTime \div SlotTime # 0 BY <1>1, <1>2, <1>3
<1> QED BY <1>2, <1>4 DEF NSlots

(* The column is never 0 nor past the last one, whatever the time.         *)
LEMMA SlotInCycle == \A t \in Nat : SlotAt(t) \in Slots
<1> SUFFICES ASSUME NEW t \in Nat PROVE SlotAt(t) \in Slots OBVIOUS
<1>1. PICK x \in Nat : x = t % CycleTime /\ x < CycleTime
  <2>1. t % CycleTime \in 0 .. CycleTime - 1 BY Division, ClockAssumption
  <2> QED BY <2>1, ClockAssumption
<1>2. /\ x \div SlotTime \in Nat /\ x % SlotTime \in 0 .. SlotTime - 1
      /\ SlotTime * (x \div SlotTime) + (x % SlotTime) < SlotTime * NSlots
  <2>1. /\ x = SlotTime * (x \div SlotTime) + (x % SlotTime)
        /\ x % SlotTime \in 0 .. SlotTime - 1 /\ x \div SlotTime \in Nat
    BY Division, ClockAssumption
  <2> QED BY <1>1, <2>1, WholeSlots
<1>3. x \div SlotTime < NSlots BY <1>2, Quotient, WholeSlots, ClockAssumption
<1>4. \A a \in Nat, b \in Nat : a < b => a + 1 \in 1..b OBVIOUS
<1> QED BY <1>1, <1>2, <1>3, <1>4, WholeSlots DEF SlotAt, Slots

-----------------------------------------------------------------------------
(* Types. *)

(* What the assumptions say of the numbers. *)
LEMMA Sizes == /\ NNodes \in Nat \ {0} /\ QueueSize \in Nat \ {0} /\ MaxNow \in Nat
               /\ MaxPackets \in Nat /\ 1 \in Slots
               /\ \A n \in Nodes, d \in Nodes, s \in Slots : Routes[n][d][s] \in Nat
<1>1. 1 \in Slots BY WholeSlots DEF Slots
<1> QED BY <1>1, BoundsAssumption, RoutesAssumption

(* The types at the start. *)
LEMMA TypeInit == Init => TypeOK
<1> SUFFICES ASSUME Init PROVE TypeOK OBVIOUS
<1>1. topo \in [Nodes -> Slots] BY Sizes DEF Init
<1>2. now \in 0..MaxNow /\ packets \in 0..MaxPackets BY Sizes DEF Init
<1> QED BY <1>1, <1>2 DEF Init, TypeOK, NoWay

(* A packet is pushed on a queue or refused. *)
LEMMA PutTyped ==
  ASSUME TypeOK, NEW n \in Nodes, NEW q \in Queues, NEW p \in Packets, Put(n, q, p)
  PROVE  /\ queue' \in [Nodes -> [Queues -> Seq(Packets)]]
         /\ refused' \in [Nodes -> SUBSET Ids]
<1>1. Append(queue[n][q], p) \in Seq(Packets)
  <2>1. queue[n][q] \in Seq(Packets) BY DEF TypeOK
  <2> QED BY <2>1
<1>2. p.id \in Ids BY DEF Packets
<1>3. [queue EXCEPT ![n][q] = Append(@, p)] \in [Nodes -> [Queues -> Seq(Packets)]]
  <2>1. queue \in [Nodes -> [Queues -> Seq(Packets)]] BY DEF TypeOK
  <2> QED BY <1>1, <2>1
<1>4. [refused EXCEPT ![n] = @ \cup {p.id}] \in [Nodes -> SUBSET Ids]
  <2>1. refused \in [Nodes -> SUBSET Ids] BY DEF TypeOK
  <2> QED BY <1>2, <2>1
<1>5. CASE Len(queue[n][q]) < QueueSize BY <1>3, <1>5 DEF TypeOK, Put
<1>6. CASE ~(Len(queue[n][q]) < QueueSize) BY <1>4, <1>6 DEF TypeOK, Put
<1> QED BY <1>5, <1>6

(* The head of a queue, and what stays behind it.                          *)
LEMMA HeadTyped ==
  ASSUME TypeOK, NEW n \in Nodes, NEW q \in Queues, queue[n][q] # <<>>
  PROVE  /\ Head(queue[n][q]) \in Packets /\ Head(queue[n][q]) = queue[n][q][1]
         /\ [queue EXCEPT ![n][q] = Tail(@)] \in [Nodes -> [Queues -> Seq(Packets)]]
<1>1. queue[n][q] \in Seq(Packets) BY DEF TypeOK
<1>2. /\ Head(queue[n][q]) \in Packets /\ Head(queue[n][q]) = queue[n][q][1]
      /\ Tail(queue[n][q]) \in Seq(Packets)
  BY <1>1
<1> QED BY <1>2 DEF TypeOK

(* A frame is taken off the wire. *)
LEMMA WireTyped ==
  ASSUME TypeOK, NEW n \in Nodes, wire[n] # <<>>
  PROVE  /\ Head(wire[n]) \in Frames /\ Head(wire[n]) = wire[n][1]
         /\ [wire EXCEPT ![n] = Tail(@)] \in [Nodes -> Seq(Frames)]
<1>1. wire[n] \in Seq(Frames) BY DEF TypeOK
<1>2. /\ Head(wire[n]) \in Frames /\ Head(wire[n]) = wire[n][1]
      /\ Tail(wire[n]) \in Seq(Frames)
  BY <1>1
<1> QED BY <1>2 DEF TypeOK

(* A frame is sent and its way noted. *)
LEMMA SentTyped ==
  ASSUME TypeOK, NEW n \in Nodes, NEW q \in DestQueues, queue[n][q] # <<>>, Sent(n, q, 1)
  PROVE  /\ wire' \in [Nodes -> Seq(Frames)]
         /\ way' \in [Ids -> [slots : SUBSET Slots, slot : Slots \cup {0}, trail : Seq(Nodes)]]
<1>1. q \in Queues /\ q[2] \in Nodes BY DEF DestQueues, Queues
<1>2. PICK p \in Packets : p = queue[n][q][1] BY <1>1, HeadTyped
<1>3. topo[n] \in Slots /\ Routes[n][q[2]][topo[n]] \in Nat BY <1>1, Sizes DEF TypeOK
<1> DEFINE f == [id |-> p.id, from |-> p.from, dest |-> p.dest, ns |-> p.ns,
                 slot |-> topo[n], hop |-> Routes[n][q[2]][topo[n]]]
<1>4. f \in Frames BY <1>2, <1>3 DEF Packets, Frames
<1>5. wire[n] \in Seq(Frames) BY DEF TypeOK
<1>6. Append(wire[n], f) \in Seq(Frames)
  <2> HIDE DEF f
  <2> QED BY <1>4, <1>5
<1>7. wire' = [wire EXCEPT ![n] = Append(wire[n], f)] BY <1>2 DEF Sent
<1>8. wire' \in [Nodes -> Seq(Frames)]
  <2> HIDE DEF f
  <2> QED BY <1>6, <1>7 DEF TypeOK
<1>9. p.id \in Ids BY DEF Packets
<1>10. Extended(way[p.id], n, topo[n])
         \in [slots : SUBSET Slots, slot : Slots \cup {0}, trail : Seq(Nodes)]
  <2>1. way[p.id] \in [slots : SUBSET Slots, slot : Slots \cup {0}, trail : Seq(Nodes)]
    BY <1>9 DEF TypeOK
  <2>2. way[p.id].trail \in Seq(Nodes) BY <2>1
  <2>3. Append(way[p.id].trail, n) \in Seq(Nodes) /\ <<n>> \in Seq(Nodes) BY <2>2
  <2> QED BY <1>3, <2>1, <2>3 DEF Extended
<1>11. way' = [way EXCEPT ![p.id] = Extended(way[p.id], n, topo[n])] BY <1>2 DEF Sent
<1> QED BY <1>8, <1>9, <1>10, <1>11 DEF TypeOK

(* Every step keeps the types. *)
LEMMA TypeStep == TypeOK /\ [Next]_vars => TypeOK'
<1> SUFFICES ASSUME TypeOK, [Next]_vars PROVE TypeOK' OBVIOUS
<1>1. CASE UNCHANGED vars BY <1>1 DEF vars, TypeOK
<1>2. CASE Tick BY <1>2, Sizes DEF Tick, TypeOK
<1>3. ASSUME NEW n \in Nodes, ReadTime(n) PROVE TypeOK'
  <2>1. now \in Nat BY Sizes DEF TypeOK
  <2>2. SlotAt(now) \in Slots BY <2>1, SlotInCycle
  <2> QED BY <1>3, <2>2 DEF ReadTime, TypeOK
<1>4. ASSUME NEW n \in Nodes, NicReceive(n) PROVE TypeOK'
  <2>1. PICK f \in Frames : f = Head(wire[n]) BY <1>4, WireTyped DEF NicReceive
  <2> DEFINE p == [id |-> f.id, from |-> f.from, dest |-> f.dest, ns |-> f.ns]
  <2>2. f.hop \in Nodes /\ Put(f.hop, QueueAt(f.hop, f), p) BY <1>4, <2>1 DEF NicReceive
  <2>3. p \in Packets /\ QueueAt(f.hop, f) \in Queues
    BY <2>2 DEF Frames, Packets, QueueAt, Queues
  <2>4. /\ queue' \in [Nodes -> [Queues -> Seq(Packets)]]
        /\ refused' \in [Nodes -> SUBSET Ids]
    <3> HIDE DEF p
    <3> QED BY <2>2, <2>3, PutTyped
  <2>5. wire' \in [Nodes -> Seq(Frames)] BY <1>4, WireTyped DEF NicReceive
  <2> QED BY <1>4, <2>4, <2>5 DEF NicReceive, TypeOK
<1>5. ASSUME NEW n \in Nodes, Lose(n) PROVE TypeOK'
  <2>1. Head(wire[n]).id \in Ids /\ wire' \in [Nodes -> Seq(Frames)]
    BY <1>5, WireTyped DEF Lose, Frames
  <2> QED BY <1>5, <2>1 DEF Lose, TypeOK
<1>6. ASSUME NEW n \in Nodes, Deliver(n) PROVE TypeOK'
  <2>1. <<"veth", 0>> \in Queues BY DEF Queues
  <2>2. PICK p \in Packets : p = Head(queue[n][<<"veth", 0>>])
    BY <1>6, <2>1, HeadTyped DEF Deliver
  <2>3. queue' \in [Nodes -> [Queues -> Seq(Packets)]] BY <1>6, <2>1, HeadTyped DEF Deliver
  <2>4. delivered' \in [Nodes -> Seq(Packets)]
    <3>1. delivered[n] \in Seq(Packets) BY DEF TypeOK
    <3>2. Append(delivered[n], p) \in Seq(Packets) BY <3>1
    <3> QED BY <1>6, <2>2, <3>2 DEF Deliver, TypeOK
  <2> QED BY <1>6, <2>3, <2>4 DEF Deliver, TypeOK
<1>7. ASSUME NEW n \in Nodes, NEW d \in Nodes, VethReceive(n, d) PROVE TypeOK'
  <2>1. packets + 1 \in Ids /\ packets' \in 0..MaxPackets
    BY <1>7, Sizes DEF VethReceive, TypeOK, Ids
  <2> DEFINE p == [id |-> packets + 1, from |-> n, dest |-> d, ns |-> 0]
  <2>2. p \in Packets /\ <<"local", d>> \in Queues BY <2>1 DEF Packets, Queues
  <2>3. Put(n, <<"local", d>>, p) BY <1>7 DEF VethReceive
  <2>4. /\ queue' \in [Nodes -> [Queues -> Seq(Packets)]]
        /\ refused' \in [Nodes -> SUBSET Ids]
    <3> HIDE DEF p
    <3> QED BY <2>2, <2>3, PutTyped
  <2> QED BY <1>7, <2>1, <2>4 DEF VethReceive, TypeOK
<1>8. ASSUME NEW n \in Nodes, NEW q \in DestQueues, Forward(n, q) PROVE TypeOK'
  <2>1. q \in Queues BY DEF DestQueues, Queues
  <2>2. queue' \in [Nodes -> [Queues -> Seq(Packets)]] BY <1>8, <2>1, HeadTyped DEF Forward
  <2>3. /\ wire' \in [Nodes -> Seq(Frames)]
        /\ way' \in [Ids -> [slots : SUBSET Slots, slot : Slots \cup {0}, trail : Seq(Nodes)]]
    BY <1>8, SentTyped DEF Forward
  <2> QED BY <1>8, <2>2, <2>3 DEF Forward, TypeOK
<1> QED BY <1>1, <1>2, <1>3, <1>4, <1>5, <1>6, <1>7, <1>8 DEF Next

(* Every header names a slot of the cycle. *)
THEOREM NetworkTyped == Spec => []TypeOK
BY TypeInit, TypeStep, PTL DEF Spec

-----------------------------------------------------------------------------
(* Where packets are. *)

Veth == <<"veth", 0>>
Wire == <<"wire", 0>>
Out == <<"out", 0>>
Spots == Nodes \X (Queues \cup {Wire, Out})

Things == Packets \cup Frames

HeldOf(Q, R, D) == [c \in Spots |-> IF c[2] = Wire THEN R[c[1]]
                                    ELSE IF c[2] = Out THEN D[c[1]] ELSE Q[c[1]][c[2]]]
Held == HeldOf(queue, wire, delivered)

(* No packet is held twice. *)
OnePlace(F) == \A c, e \in Spots : \A i \in DOMAIN F[c], j \in DOMAIN F[e] :
                 F[c][i].id = F[e][j].id => c = e /\ i = j

(* A way that has not begun, and one that has. *)
WayOK(w) == \/ w = NoWay
            \/ w.trail # <<>> /\ w.slot \in w.slots

(* The measure that shrinks at every hop towards d in slot s. *)
Distance(s, d) == CHOOSE distance \in [Nodes -> 0..NNodes] :
                    \A n \in Nodes \ {d} : distance[Routes[n][d][s]] < distance[n]

Last(t) == t[Len(t)]

(* Packet p with way w in spot c. *)
InQueue(p, w, c) ==
  /\ c[2] \in DestQueues => p.dest = c[2][2] /\ p.dest # c[1]
  /\ c[2] \in {Veth, Out} => p.dest = c[1]

OnTrail(p, w, c) ==
  /\ \A k \in DOMAIN w.trail : w.trail[k] # p.dest
  /\ w.trail = <<>> => c = <<p.from, <<"local", p.dest>>>>
  /\ w.trail # <<>> /\ c[2] = Wire =>
       p.slot = w.slot /\ c[1] = Last(w.trail) /\ p.hop = Routes[c[1]][p.dest][w.slot]
  /\ w.trail # <<>> /\ c[2] # Wire =>
       /\ c[1] = Routes[Last(w.trail)][p.dest][w.slot]
       /\ c[2] \in {<<"transit", p.dest>>, Veth, Out}

Nearer(p, w, c) ==
  w.trail # <<>> /\ c[2] # Out =>
    LET here == IF c[2] = Wire THEN p.hop ELSE c[1]
    IN \A k \in DOMAIN w.trail :
         Distance(w.slot, p.dest)[here] < Distance(w.slot, p.dest)[w.trail[k]]

Followed(p, w) ==
  w.slots \subseteq {w.slot} /\ w.trail # <<>> =>
    /\ w.trail[1] = p.from
    /\ \A k \in 1 .. Len(w.trail) - 1 : w.trail[k + 1] = Routes[w.trail[k]][p.dest][w.slot]

SpotOK(p, w, c) == InQueue(p, w, c) /\ OnTrail(p, w, c) /\ Nearer(p, w, c) /\ Followed(p, w)

(* How far a packet with way w has come when it is in spot c. *)
Stage(c) == IF c[2] = Wire THEN 0 ELSE IF c[2] = Out THEN 2 ELSE 1
Rank(w, c) == 3 * Len(w.trail) + Stage(c)

Prefix(t, u) == Len(t) <= Len(u) /\ \A k \in DOMAIN t : t[k] = u[k]

(* r, sent after p of the same flow, is behind it. *)
Together(p, w, r, v) == /\ p.from = r.from /\ p.dest = r.dest
                        /\ \E s \in Slots : w.slots \subseteq {s} /\ v.slots \subseteq {s}
Behind(w, c, i, v, e, j) ==
  /\ Rank(v, e) <= Rank(w, c) /\ Prefix(v.trail, w.trail)
  /\ Rank(v, e) = Rank(w, c) => c = e /\ i < j

SpotsOK(F, W) == \A c \in Spots : \A i \in DOMAIN F[c] : SpotOK(F[c][i], W[F[c][i].id], c)

InOrder(F, W) == \A c, e \in Spots : \A i \in DOMAIN F[c], j \in DOMAIN F[e] :
  F[c][i].id < F[e][j].id /\ Together(F[c][i], W[F[c][i].id], F[e][j], W[F[e][j].id])
    => Behind(W[F[c][i].id], c, i, W[F[e][j].id], e, j)

WaysOK == \A id \in Ids : /\ WayOK(way[id])
                          /\ packets < id => way[id] = NoWay

HeldOK == /\ \A c \in Spots : \A i \in DOMAIN Held[c] : Held[c][i].id <= packets
          /\ OnePlace(Held) /\ SpotsOK(Held, way) /\ InOrder(Held, way)

NoLoops == \A id \in Ids : LET t == way[id].trail
                           IN \A k, l \in DOMAIN t : k < l => t[k] # t[l]

Inv == TypeOK /\ WaysOK /\ HeldOK /\ NoLoops

(* The places of packets. *)
LEMMA SpotsAre ==
  /\ \A n \in Nodes, q \in Queues : <<n, q>> \in Spots /\ q # Wire /\ q # Out
  /\ \A n \in Nodes : <<n, Wire>> \in Spots /\ <<n, Out>> \in Spots
  /\ Wire # Out /\ Veth \in Queues /\ DestQueues \subseteq Queues
  /\ Veth \notin DestQueues /\ Wire \notin DestQueues /\ Out \notin DestQueues
  /\ \A c \in Spots : /\ c = <<c[1], c[2]>> /\ c[1] \in Nodes
                      /\ c[2] \in DestQueues \cup {Veth, Wire, Out}
BY DEF Spots, Queues, Wire, Out, Veth, DestQueues

(* What each place holds. *)
LEMMA HeldTyped == TypeOK => Held \in [Spots -> Seq(Things)]
<1> SUFFICES ASSUME TypeOK, NEW c \in Spots
             PROVE (IF c[2] = Wire THEN wire[c[1]]
                    ELSE IF c[2] = Out THEN delivered[c[1]] ELSE queue[c[1]][c[2]]) \in Seq(Things)
  BY DEF Held, HeldOf
<1>1. Seq(Packets) \subseteq Seq(Things) /\ Seq(Frames) \subseteq Seq(Things)
  BY DEF Things
<1>2. c[1] \in Nodes /\ c[2] \in Queues \cup {Wire, Out} BY DEF Spots
<1>3. wire[c[1]] \in Seq(Frames) /\ delivered[c[1]] \in Seq(Packets) BY <1>2 DEF TypeOK
<1>4. c[2] \in Queues => queue[c[1]][c[2]] \in Seq(Packets) BY <1>2 DEF TypeOK
<1> QED BY <1>1, <1>2, <1>3, <1>4

-----------------------------------------------------------------------------
(* A packet is taken from the head of a spot, or put at the end of one.    *)

Without(F, a) == [F EXCEPT ![a] = Tail(@)]
With(F, b, x) == [F EXCEPT ![b] = Append(@, x)]

(* What is left when the first of a place is taken. *)
LEMMA TakenFrom ==
  ASSUME NEW F \in [Spots -> Seq(Things)], NEW a \in Spots, F[a] # <<>>, NEW G,
         G = Without(F, a)
  PROVE  /\ G \in [Spots -> Seq(Things)] /\ 1 \in DOMAIN F[a]
         /\ \A c \in Spots : \A i \in DOMAIN G[c] : \E k \in DOMAIN F[c] :
              /\ k = (IF c = a THEN i + 1 ELSE i) /\ G[c][i] = F[c][k] /\ (c = a => k # 1)
<1>1. /\ F[a] \in Seq(Things) /\ Tail(F[a]) \in Seq(Things) /\ 1 \in DOMAIN F[a]
      /\ \A i \in DOMAIN Tail(F[a]) :
           i + 1 \in DOMAIN F[a] /\ Tail(F[a])[i] = F[a][i + 1] /\ i + 1 # 1
  <2>1. F[a] \in Seq(Things) OBVIOUS
  <2> QED BY <2>1
<1> QED BY <1>1 DEF Without

(* What there is when a packet is added to a place. *)
LEMMA GivenTo ==
  ASSUME NEW F \in [Spots -> Seq(Things)], NEW b \in Spots, NEW x \in Things, NEW G,
         G = With(F, b, x)
  PROVE  /\ G \in [Spots -> Seq(Things)]
         /\ \A c \in Spots : \A i \in DOMAIN G[c] :
              \/ c = b /\ i = Len(F[b]) + 1 /\ G[c][i] = x
              \/ i \in DOMAIN F[c] /\ G[c][i] = F[c][i] /\ (c = b => i < Len(F[b]) + 1)
<1>1. /\ F[b] \in Seq(Things) /\ Append(F[b], x) \in Seq(Things)
      /\ \A i \in DOMAIN Append(F[b], x) :
           \/ i = Len(F[b]) + 1 /\ Append(F[b], x)[i] = x
           \/ i \in DOMAIN F[b] /\ Append(F[b], x)[i] = F[b][i] /\ i < Len(F[b]) + 1
  <2>1. F[b] \in Seq(Things) OBVIOUS
  <2> QED BY <2>1
<1> QED BY <1>1 DEF With

(* The others stay as they are.                                            *)
LEMMA TakeKeeps ==
  ASSUME NEW F \in [Spots -> Seq(Things)], NEW a \in Spots, F[a] # <<>>, NEW G, NEW W,
         G = Without(F, a), OnePlace(F), SpotsOK(F, W), InOrder(F, W)
  PROVE  /\ OnePlace(G) /\ SpotsOK(G, W) /\ InOrder(G, W)
         /\ \A c \in Spots : \A i \in DOMAIN G[c] : G[c][i].id # F[a][1].id
<1>1. /\ 1 \in DOMAIN F[a]
      /\ \A c \in Spots : \A i \in DOMAIN G[c] : \E k \in DOMAIN F[c] :
           k = (IF c = a THEN i + 1 ELSE i) /\ G[c][i] = F[c][k] /\ (c = a => k # 1)
  BY TakenFrom
<1>2. \A c \in Spots : \A i \in DOMAIN G[c] : i \in Nat
  <2>1. G \in [Spots -> Seq(Things)] BY TakenFrom
  <2> QED BY <2>1
<1>3. OnePlace(G)
  <2> SUFFICES ASSUME NEW c \in Spots, NEW e \in Spots,
                      NEW i \in DOMAIN G[c], NEW j \in DOMAIN G[e], G[c][i].id = G[e][j].id
               PROVE c = e /\ i = j
    BY DEF OnePlace
  <2>1. PICK k \in DOMAIN F[c] : k = (IF c = a THEN i + 1 ELSE i) /\ G[c][i] = F[c][k]
    BY <1>1
  <2>2. PICK l \in DOMAIN F[e] : l = (IF e = a THEN j + 1 ELSE j) /\ G[e][j] = F[e][l]
    BY <1>1
  <2>3. c = e /\ k = l BY <2>1, <2>2 DEF OnePlace
  <2>4. i \in Nat /\ j \in Nat BY <1>2
  <2> QED BY <2>1, <2>2, <2>3, <2>4
<1>4. SpotsOK(G, W)
  <2> SUFFICES ASSUME NEW c \in Spots, NEW i \in DOMAIN G[c]
               PROVE SpotOK(G[c][i], W[G[c][i].id], c)
    BY DEF SpotsOK
  <2>1. PICK k \in DOMAIN F[c] : G[c][i] = F[c][k] BY <1>1
  <2> QED BY <2>1 DEF SpotsOK
<1>5. InOrder(G, W)
  <2> SUFFICES ASSUME NEW c \in Spots, NEW e \in Spots,
                      NEW i \in DOMAIN G[c], NEW j \in DOMAIN G[e], G[c][i].id < G[e][j].id,
                      Together(G[c][i], W[G[c][i].id], G[e][j], W[G[e][j].id])
               PROVE Behind(W[G[c][i].id], c, i, W[G[e][j].id], e, j)
    BY DEF InOrder
  <2>1. PICK k \in DOMAIN F[c] : k = (IF c = a THEN i + 1 ELSE i) /\ G[c][i] = F[c][k]
    BY <1>1
  <2>2. PICK l \in DOMAIN F[e] : l = (IF e = a THEN j + 1 ELSE j) /\ G[e][j] = F[e][l]
    BY <1>1
  <2>3. Behind(W[F[c][k].id], c, k, W[F[e][l].id], e, l) BY <2>1, <2>2 DEF InOrder
  <2>4. i \in Nat /\ j \in Nat BY <1>2
  <2>5. c = e /\ k < l => i < j BY <2>1, <2>2, <2>4
  <2> QED BY <2>1, <2>2, <2>3, <2>5 DEF Behind
<1>6. \A c \in Spots : \A i \in DOMAIN G[c] : G[c][i].id # F[a][1].id
  <2> SUFFICES ASSUME NEW c \in Spots, NEW i \in DOMAIN G[c], G[c][i].id = F[a][1].id
               PROVE FALSE
    OBVIOUS
  <2>1. PICK k \in DOMAIN F[c] : G[c][i] = F[c][k] /\ (c = a => k # 1) BY <1>1
  <2> QED BY <1>1, <2>1 DEF OnePlace
<1> QED BY <1>3, <1>4, <1>5, <1>6

(* Packets have numbers. *)
LEMMA ThingIds == \A x \in Things : x.id \in Ids /\ x.id \in Nat /\ ~(x.id < x.id)
BY DEF Things, Packets, Frames, Ids

(* x, with way w, can be put at the end of spot b: it is behind those of   *)
(* its flow that were sent before it, and the others are behind it.        *)
IsNew(F, x) == \A c \in Spots : \A i \in DOMAIN F[c] : F[c][i].id # x.id

FitsWith(p, v, c, x, w, b) ==
  /\ p.id < x.id /\ Together(p, v, x, w) =>
       /\ Rank(w, b) <= Rank(v, c) /\ Prefix(w.trail, v.trail)
       /\ Rank(w, b) = Rank(v, c) => c = b
  /\ x.id < p.id /\ Together(x, w, p, v) =>
       Rank(v, c) <= Rank(w, b) /\ Rank(v, c) # Rank(w, b) /\ Prefix(v.trail, w.trail)

Fits(F, V, b, x, w) ==
  \A c \in Spots : \A i \in DOMAIN F[c] : FitsWith(F[c][i], V[F[c][i].id], c, x, w, b)

(* A packet put where it fits keeps the three parts of the invariant. *)
LEMMA GiveKeeps ==
  ASSUME NEW F \in [Spots -> Seq(Things)], NEW b \in Spots, NEW x \in Things,
         NEW G, G = With(F, b, x),
         NEW V, NEW W, \A id : id # x.id => W[id] = V[id],
         OnePlace(F), SpotsOK(F, V), InOrder(F, V),
         IsNew(F, x), SpotOK(x, W[x.id], b), Fits(F, V, b, x, W[x.id])
  PROVE  OnePlace(G) /\ SpotsOK(G, W) /\ InOrder(G, W)
<1>1. \A c \in Spots : \A i \in DOMAIN G[c] :
        \/ c = b /\ i = Len(F[b]) + 1 /\ G[c][i] = x
        \/ i \in DOMAIN F[c] /\ G[c][i] = F[c][i] /\ (c = b => i < Len(F[b]) + 1)
  BY GivenTo
<1>2. OnePlace(G)
  <2> SUFFICES ASSUME NEW c \in Spots, NEW e \in Spots,
                      NEW i \in DOMAIN G[c], NEW j \in DOMAIN G[e], G[c][i].id = G[e][j].id
               PROVE c = e /\ i = j
    BY DEF OnePlace
  <2>1. CASE G[c][i] = x /\ c = b /\ i = Len(F[b]) + 1
    <3>1. ~(j \in DOMAIN F[e] /\ G[e][j] = F[e][j]) BY <2>1 DEF IsNew
    <3> QED BY <1>1, <2>1, <3>1
  <2>2. CASE i \in DOMAIN F[c] /\ G[c][i] = F[c][i]
    <3>1. F[c][i].id # x.id BY <2>2 DEF IsNew
    <3>2. j \in DOMAIN F[e] /\ G[e][j] = F[e][j] BY <1>1, <2>2, <3>1
    <3> QED BY <2>2, <3>2 DEF OnePlace
  <2> QED BY <1>1, <2>1, <2>2
<1>3. SpotsOK(G, W)
  <2> SUFFICES ASSUME NEW c \in Spots, NEW i \in DOMAIN G[c]
               PROVE SpotOK(G[c][i], W[G[c][i].id], c)
    BY DEF SpotsOK
  <2>1. CASE i \in DOMAIN F[c] /\ G[c][i] = F[c][i]
    <3>1. W[G[c][i].id] = V[F[c][i].id] BY <2>1 DEF IsNew
    <3>2. SpotOK(F[c][i], V[F[c][i].id], c) BY <2>1 DEF SpotsOK
    <3> QED BY <2>1, <3>1, <3>2, Zenon
  <2>2. CASE c = b /\ G[c][i] = x BY <2>2
  <2> QED BY <1>1, <2>1, <2>2
<1>4. InOrder(G, W)
  <2> SUFFICES ASSUME NEW c \in Spots, NEW e \in Spots,
                      NEW i \in DOMAIN G[c], NEW j \in DOMAIN G[e], G[c][i].id < G[e][j].id,
                      Together(G[c][i], W[G[c][i].id], G[e][j], W[G[e][j].id])
               PROVE Behind(W[G[c][i].id], c, i, W[G[e][j].id], e, j)
    BY DEF InOrder
  <2>1. CASE c = b /\ i = Len(F[b]) + 1 /\ G[c][i] = x
    <3>1. (j \in DOMAIN F[e] /\ G[e][j] = F[e][j]) \/ G[e][j] = x BY <1>1
    <3>2. G[e][j] # x
      <4>1. ~(x.id < x.id) BY ThingIds
      <4> QED BY <2>1, <4>1
    <3>3. W[G[e][j].id] = V[F[e][j].id] /\ G[e][j] = F[e][j] /\ j \in DOMAIN F[e]
      BY <3>1, <3>2 DEF IsNew
    <3>4. /\ x.id < F[e][j].id
          /\ Together(x, W[x.id], F[e][j], V[F[e][j].id])
      BY <2>1, <3>3, Zenon
    <3>5. /\ Rank(V[F[e][j].id], e) <= Rank(W[x.id], b)
          /\ Rank(V[F[e][j].id], e) # Rank(W[x.id], b)
          /\ Prefix(V[F[e][j].id].trail, W[x.id].trail)
      BY <3>3, <3>4 DEF Fits, FitsWith
    <3> QED BY <2>1, <3>3, <3>5, Zenon DEF Behind
  <2>2. CASE i \in DOMAIN F[c] /\ G[c][i] = F[c][i] /\ (c = b => i < Len(F[b]) + 1)
    <3>1. CASE e = b /\ j = Len(F[b]) + 1 /\ G[e][j] = x
      <4>1. W[G[c][i].id] = V[F[c][i].id] BY <2>2 DEF IsNew
      <4>2. /\ F[c][i].id < x.id
            /\ Together(F[c][i], V[F[c][i].id], x, W[x.id])
        BY <2>2, <3>1, <4>1, Zenon
      <4>3. /\ Rank(W[x.id], b) <= Rank(V[F[c][i].id], c)
            /\ Prefix(W[x.id].trail, V[F[c][i].id].trail)
            /\ Rank(W[x.id], b) = Rank(V[F[c][i].id], c) => c = b
        BY <2>2, <4>2 DEF Fits, FitsWith
      <4>4. c = e => i < j BY <2>2, <3>1
      <4> QED BY <2>2, <3>1, <4>1, <4>3, <4>4, Zenon DEF Behind
    <3>2. CASE j \in DOMAIN F[e] /\ G[e][j] = F[e][j]
      <4>1. W[G[c][i].id] = V[F[c][i].id] /\ W[G[e][j].id] = V[F[e][j].id]
        BY <2>2, <3>2 DEF IsNew
      <4>2. /\ F[c][i].id < F[e][j].id
            /\ Together(F[c][i], V[F[c][i].id], F[e][j], V[F[e][j].id])
        BY <2>2, <3>2, <4>1, Zenon
      <4>3. Behind(V[F[c][i].id], c, i, V[F[e][j].id], e, j)
        BY <2>2, <3>2, <4>2, Zenon DEF InOrder
      <4> QED BY <4>1, <4>3, Zenon
    <3> QED BY <1>1, <3>1, <3>2
  <2> QED BY <1>1, <2>1, <2>2
<1> QED BY <1>2, <1>3, <1>4

-----------------------------------------------------------------------------
(* Ranks, distances and trails. *)

Ways == [slots : SUBSET Slots, slot : Slots \cup {0}, trail : Seq(Nodes)]

(* Arithmetic: numbers with a remainder of three. *)
LEMMA Threefold ==
  \A l, m \in Nat, g, h \in 0..2 :
    /\ 3 * l + g \in Nat
    /\ 3 * l + g = 3 * m + h => l = m /\ g = h
    /\ 3 * l + g <= 3 * m + h => l <= m /\ (l = m => g <= h)
OBVIOUS

(* The rank of a packet tells its hops and its stage. *)
LEMMA Ranks ==
  ASSUME NEW w \in Ways, NEW v \in Ways, NEW c \in Spots, NEW e \in Spots
  PROVE  /\ Len(w.trail) \in Nat /\ Stage(c) \in 0..2 /\ Rank(w, c) \in Nat
         /\ Rank(v, e) = Rank(w, c) => Len(v.trail) = Len(w.trail) /\ Stage(e) = Stage(c)
         /\ Rank(v, e) <= Rank(w, c) => Len(v.trail) <= Len(w.trail)
<1>1. Len(w.trail) \in Nat /\ Len(v.trail) \in Nat BY DEF Ways
<1>2. Stage(c) \in 0..2 /\ Stage(e) \in 0..2 BY DEF Stage
<1> QED BY <1>1, <1>2, Threefold DEF Rank

(* Each hop of a slot's routes comes nearer. *)
LEMMA DistanceFalls ==
  ASSUME NEW s \in Slots, NEW d \in Nodes
  PROVE  /\ Distance(s, d) \in [Nodes -> 0..NNodes]
         /\ \A n \in Nodes \ {d} : /\ Routes[n][d][s] \in Nodes
                                   /\ Distance(s, d)[Routes[n][d][s]] < Distance(s, d)[n]
<1>1. \E distance \in [Nodes -> 0..NNodes] :
        \A n \in Nodes \ {d} : distance[Routes[n][d][s]] < distance[n]
  BY ScheduleAssumption
<1>2. \A n \in Nodes \ {d} : Routes[n][d][s] \in Nodes BY ScheduleAssumption
<1>3. /\ Distance(s, d) \in [Nodes -> 0..NNodes]
      /\ \A n \in Nodes \ {d} : Distance(s, d)[Routes[n][d][s]] < Distance(s, d)[n]
  BY <1>1 DEF Distance
<1> QED BY <1>2, <1>3

(* A way that has begun has its slot among its slots.                      *)
LEMMA WayCases ==
  ASSUME NEW w \in Ways, WayOK(w)
  PROVE  \/ w.trail = <<>> /\ w.slot = 0 /\ w.slots = {}
         \/ /\ w.trail # <<>> /\ w.slot \in w.slots /\ w.slot \in Slots
            /\ Len(w.trail) \in Nat \ {0} /\ Len(w.trail) \in DOMAIN w.trail
            /\ Last(w.trail) \in Nodes
<1>1. w.trail \in Seq(Nodes) BY DEF Ways
<1>2. w.trail # <<>> => /\ Len(w.trail) \in Nat \ {0} /\ Len(w.trail) \in DOMAIN w.trail
                        /\ w.trail[Len(w.trail)] \in Nodes
  BY <1>1
<1> QED BY <1>2 DEF WayOK, NoWay, Ways, Last

(* Two packets of a flow that have gone equally far in one slot are in one *)
(* and the same spot.                                                      *)
LEMMA SameSpot ==
  ASSUME NEW p, NEW w \in Ways, NEW c \in Spots, SpotOK(p, w, c), WayOK(w),
         NEW r, NEW v \in Ways, NEW e \in Spots, SpotOK(r, v, e), WayOK(v),
         Together(p, w, r, v), Len(v.trail) = Len(w.trail), Prefix(v.trail, w.trail),
         Stage(c) = Stage(e)
  PROVE  c = e
<1>1. c = <<c[1], c[2]>> /\ e = <<e[1], e[2]>> /\ c[2] \in DestQueues \cup {Veth, Wire, Out}
      /\ e[2] \in DestQueues \cup {Veth, Wire, Out}
  BY SpotsAre
<1>2. p.from = r.from /\ p.dest = r.dest BY DEF Together
<1>3. CASE w.trail = <<>> \/ v.trail = <<>>
  <2>1. w.trail = <<>> /\ v.trail = <<>>
    <3>1. w.trail \in Seq(Nodes) /\ v.trail \in Seq(Nodes) BY DEF Ways
    <3> QED BY <1>3, <3>1
  <2>2. c = <<p.from, <<"local", p.dest>>>> /\ e = <<r.from, <<"local", r.dest>>>>
    BY <2>1 DEF SpotOK, OnTrail
  <2> QED BY <1>2, <2>2
<1>4. CASE w.trail # <<>> /\ v.trail # <<>>
  <2>1. w.slot = v.slot BY <1>4, WayCases DEF Together
  <2>2. Last(w.trail) = Last(v.trail) BY <1>4, WayCases DEF Prefix, Last
  <2>3. CASE c[2] = Wire
    <3>1. e[2] = Wire BY <2>3 DEF Stage
    <3>2. c[1] = Last(w.trail) BY <1>4, <2>3, Zenon DEF SpotOK, OnTrail
    <3>3. e[1] = Last(v.trail) BY <1>4, <3>1, Zenon DEF SpotOK, OnTrail
    <3> QED BY <1>1, <2>2, <2>3, <3>1, <3>2, <3>3
  <2>4. CASE c[2] # Wire
    <3>1. e[2] # Wire BY <2>4 DEF Stage
    <3>2. /\ c[1] = Routes[Last(w.trail)][p.dest][w.slot]
          /\ c[2] \in {<<"transit", p.dest>>, Veth, Out}
      BY <1>4, <2>4, Zenon DEF SpotOK, OnTrail
    <3>3. /\ e[1] = Routes[Last(v.trail)][r.dest][v.slot]
          /\ e[2] \in {<<"transit", r.dest>>, Veth, Out}
      BY <1>4, <3>1, Zenon DEF SpotOK, OnTrail
    <3>4. c[1] = e[1] BY <1>2, <2>1, <2>2, <3>2, <3>3
    <3>5. c[2] = Out <=> e[2] = Out BY <2>4, <3>1 DEF Stage
    <3>6. /\ c[2] \in DestQueues => p.dest # c[1]
          /\ c[2] \in {Veth, Out} => p.dest = c[1]
      BY DEF SpotOK, InQueue
    <3>7. /\ e[2] \in DestQueues => r.dest # e[1]
          /\ e[2] \in {Veth, Out} => r.dest = e[1]
      BY DEF SpotOK, InQueue
    <3>8. c[2] = e[2]
      <4>1. <<"transit", p.dest>> # Veth /\ <<"transit", p.dest>> # Out BY DEF Veth, Out
      <4>2. c[2] \in DestQueues <=> e[2] \in DestQueues
        BY <1>1, <1>2, <2>4, <3>1, <3>4, <3>6, <3>7
      <4>3. Veth \notin DestQueues /\ Out \notin DestQueues BY SpotsAre
      <4>4. CASE c[2] \in DestQueues
        <5>1. c[2] = <<"transit", p.dest>> BY <3>2, <4>3, <4>4
        <5>2. e[2] = <<"transit", r.dest>> BY <3>3, <4>2, <4>3, <4>4
        <5> QED BY <1>2, <5>1, <5>2
      <4>5. CASE c[2] = Out BY <3>5, <4>5
      <4>6. CASE c[2] = Veth BY <1>1, <3>1, <3>5, <4>2, <4>3, <4>6
      <4> QED BY <1>1, <2>4, <4>4, <4>5, <4>6
    <3> QED BY <1>1, <3>4, <3>8
  <2> QED BY <2>3, <2>4
<1> QED BY <1>3, <1>4

-----------------------------------------------------------------------------
(* The steps. *)

(* The invariant at the start. *)
LEMMA InvInit == Init => WaysOK /\ HeldOK /\ NoLoops
<1> SUFFICES ASSUME Init PROVE WaysOK /\ HeldOK /\ NoLoops OBVIOUS
<1>1. WaysOK /\ NoLoops BY DEF Init, WaysOK, NoLoops, WayOK, NoWay
<1>2. \A c \in Spots : Held[c] = <<>> BY DEF Init, Held, HeldOf, Spots
<1>3. \A c \in Spots : \A i \in DOMAIN Held[c] : FALSE BY <1>2
<1> QED BY <1>1, <1>3 DEF HeldOK, OnePlace, SpotsOK, InOrder

(* Nothing moves. *)
LEMMA HeldSame ==
  ASSUME HeldOK, Held' = Held, UNCHANGED way, packets <= packets', packets \in Nat, packets' \in Nat,
         TypeOK
  PROVE  HeldOK'
<1>1. \A c \in Spots : \A i \in DOMAIN Held[c] : Held[c][i].id <= packets'
  <2> SUFFICES ASSUME NEW c \in Spots, NEW i \in DOMAIN Held[c] PROVE Held[c][i].id <= packets'
    OBVIOUS
  <2>1. Held[c] \in Seq(Things) BY HeldTyped
  <2>2. Held[c][i] \in Things BY <2>1
  <2>3. Held[c][i].id \in Nat BY <2>2, ThingIds
  <2>4. Held[c][i].id <= packets BY DEF HeldOK
  <2> QED BY <2>3, <2>4
<1> QED BY <1>1 DEF HeldOK

(* The invariant when a packet has been taken and not put down yet. *)
LEMMA AfterTaking ==
  ASSUME TypeOK, HeldOK, NEW a \in Spots, Held[a] # <<>>, NEW G, G = Without(Held, a)
  PROVE  /\ G \in [Spots -> Seq(Things)] /\ OnePlace(G) /\ SpotsOK(G, way) /\ InOrder(G, way)
         /\ Held[a][1] \in Things /\ 1 \in DOMAIN Held[a]
         /\ \A c \in Spots : \A i \in DOMAIN G[c] : /\ G[c][i] \in Things
                                                 /\ G[c][i].id # Held[a][1].id
                                                 /\ G[c][i].id <= packets
         /\ \A c \in Spots : \A i \in DOMAIN G[c] : \E k \in DOMAIN Held[c] :
              k \in Nat /\ G[c][i] = Held[c][k] /\ (c = a => k # 1 /\ 1 < k)
<1>1. Held \in [Spots -> Seq(Things)] BY HeldTyped
<1>2. OnePlace(Held) /\ SpotsOK(Held, way) /\ InOrder(Held, way) BY DEF HeldOK
<1>3. /\ G \in [Spots -> Seq(Things)] /\ 1 \in DOMAIN Held[a]
      /\ \A c \in Spots : \A i \in DOMAIN G[c] : \E k \in DOMAIN Held[c] :
           /\ k = (IF c = a THEN i + 1 ELSE i) /\ G[c][i] = Held[c][k] /\ (c = a => k # 1)
  BY <1>1, TakenFrom
<1>4. /\ OnePlace(G) /\ SpotsOK(G, way) /\ InOrder(G, way)
      /\ \A c \in Spots : \A i \in DOMAIN G[c] : G[c][i].id # Held[a][1].id
  BY <1>1, <1>2, TakeKeeps
<1>5. Held[a][1] \in Things BY <1>1, <1>3
<1>6. \A c \in Spots : \A i \in DOMAIN G[c] : \E k \in DOMAIN Held[c] :
        k \in Nat /\ G[c][i] = Held[c][k] /\ (c = a => k # 1 /\ 1 < k)
  <2> SUFFICES ASSUME NEW c \in Spots, NEW i \in DOMAIN G[c]
               PROVE \E k \in DOMAIN Held[c] :
                       k \in Nat /\ G[c][i] = Held[c][k] /\ (c = a => k # 1 /\ 1 < k)
    OBVIOUS
  <2>1. PICK k \in DOMAIN Held[c] : G[c][i] = Held[c][k] /\ (c = a => k # 1) BY <1>3
  <2>2. Held[c] \in Seq(Things) BY <1>1
  <2>3. k \in Nat \ {0} BY <2>2
  <2>4. k # 1 => 1 < k BY <2>3
  <2> QED BY <2>1, <2>3, <2>4
<1>7. \A c \in Spots : \A i \in DOMAIN G[c] : G[c][i] \in Things /\ G[c][i].id <= packets
  <2> SUFFICES ASSUME NEW c \in Spots, NEW i \in DOMAIN G[c]
               PROVE G[c][i] \in Things /\ G[c][i].id <= packets
    OBVIOUS
  <2>1. G[c] \in Seq(Things) BY <1>3
  <2>2. G[c][i] \in Things BY <2>1
  <2>3. PICK k \in DOMAIN Held[c] : G[c][i] = Held[c][k] BY <1>6
  <2> QED BY <2>2, <2>3 DEF HeldOK
<1> QED BY <1>3, <1>4, <1>5, <1>6, <1>7

(* The packet at the head of a spot goes on to the next stage.             *)
LEMMA Advances ==
  ASSUME TypeOK, WaysOK, HeldOK, NEW a \in Spots, NEW b \in Spots, Held[a] # <<>>,
         Stage(b) = Stage(a) + 1, NEW x \in Things,
         x.id = Held[a][1].id, x.from = Held[a][1].from, x.dest = Held[a][1].dest,
         SpotOK(x, way[x.id], b), UNCHANGED <<way, packets>>,
         Held' = With(Without(Held, a), b, x)
  PROVE  HeldOK'
<1> DEFINE f == Held[a][1]
           w == way[x.id]
<1>1. PICK G : G = Without(Held, a) OBVIOUS
<1>2. /\ G \in [Spots -> Seq(Things)] /\ OnePlace(G) /\ SpotsOK(G, way) /\ InOrder(G, way)
      /\ f \in Things /\ 1 \in DOMAIN Held[a]
      /\ \A c \in Spots : \A i \in DOMAIN G[c] :
           G[c][i] \in Things /\ G[c][i].id # f.id /\ G[c][i].id <= packets
      /\ \A c \in Spots : \A i \in DOMAIN G[c] : \E k \in DOMAIN Held[c] :
           k \in Nat /\ G[c][i] = Held[c][k] /\ (c = a => k # 1 /\ 1 < k)
  BY <1>1, AfterTaking
<1>3. w \in Ways /\ WayOK(w) BY ThingIds DEF TypeOK, Ways, WaysOK
<1>4. /\ Rank(w, a) \in Nat /\ Rank(w, b) = Rank(w, a) + 1
  <2>1. \A l \in Nat, g, h \in 0..2 : h = g + 1 => 3 * l + h = (3 * l + g) + 1 /\ 3 * l + g \in Nat
    OBVIOUS
  <2>2. Len(w.trail) \in Nat /\ Stage(a) \in 0..2 /\ Stage(b) \in 0..2 BY <1>3, Ranks
  <2> HIDE DEF w
  <2> QED BY <2>1, <2>2 DEF Rank
<1>5. Fits(G, way, b, x, w)
  <2> SUFFICES ASSUME NEW c \in Spots, NEW i \in DOMAIN G[c]
               PROVE FitsWith(G[c][i], way[G[c][i].id], c, x, w, b)
    BY DEF Fits
  <2>1. PICK k \in DOMAIN Held[c] : k \in Nat /\ G[c][i] = Held[c][k] /\ (c = a => k # 1 /\ 1 < k)
    BY <1>2
  <2>2. PICK p : p = Held[c][k] /\ p = G[c][i] /\ p \in Things BY <1>2, <2>1
  <2>3. PICK v : v = way[p.id] /\ v \in Ways /\ WayOK(v)
    BY <2>2, ThingIds DEF TypeOK, Ways, WaysOK
  <2>4. Rank(v, c) \in Nat BY <2>3, Ranks
  <2>5. SpotOK(p, v, c) BY <2>2, <2>3 DEF HeldOK, SpotsOK
  <2>6. ASSUME p.id < x.id, Together(p, v, x, w)
        PROVE /\ Rank(w, b) <= Rank(v, c) /\ Prefix(w.trail, v.trail)
              /\ Rank(w, b) = Rank(v, c) => c = b
    <3>1. Together(p, v, f, w) BY <2>6 DEF Together
    <3>2. Behind(v, c, k, w, a, 1)
      BY <1>2, <2>2, <2>3, <2>6, <3>1 DEF HeldOK, InOrder
    <3>3. Rank(w, a) # Rank(v, c)
      <4>1. Rank(w, a) = Rank(v, c) => c = a /\ k < 1 BY <3>2 DEF Behind
      <4>2. c = a => ~(k < 1) BY <2>1
      <4> QED BY <4>1, <4>2
    <3>4. Rank(w, a) <= Rank(v, c) /\ Prefix(w.trail, v.trail) BY <3>2 DEF Behind
    <3>5. Rank(w, b) <= Rank(v, c)
      <4>1. \A y, z \in Nat : y <= z /\ y # z => y + 1 <= z OBVIOUS
      <4> QED BY <1>4, <2>4, <3>3, <3>4, <4>1
    <3>6. ASSUME Rank(w, b) = Rank(v, c) PROVE c = b
      <4>1. Len(w.trail) = Len(v.trail) /\ Stage(b) = Stage(c) BY <1>3, <2>3, <3>6, Ranks
      <4> QED BY <1>3, <2>3, <2>5, <2>6, <3>4, <4>1, SameSpot
    <3> QED BY <3>4, <3>5, <3>6
  <2>7. ASSUME x.id < p.id, Together(x, w, p, v)
        PROVE /\ Rank(v, c) <= Rank(w, b) /\ Rank(v, c) # Rank(w, b) /\ Prefix(v.trail, w.trail)
    <3>1. Together(f, w, p, v) BY <2>7 DEF Together
    <3>2. Behind(w, a, 1, v, c, k)
      BY <1>2, <2>2, <2>3, <2>7, <3>1 DEF HeldOK, InOrder
    <3>3. Rank(v, c) <= Rank(w, a) /\ Prefix(v.trail, w.trail) BY <3>2 DEF Behind
    <3>4. \A y, z \in Nat : y <= z => y <= z + 1 /\ y # z + 1 OBVIOUS
    <3> QED BY <1>4, <2>4, <3>3, <3>4
  <2>8. FitsWith(p, v, c, x, w, b) BY <2>6, <2>7 DEF FitsWith
  <2> QED BY <2>2, <2>3, <2>8
<1>6. OnePlace(Held') /\ SpotsOK(Held', way) /\ InOrder(Held', way)
  <2>1. IsNew(G, x) BY <1>2 DEF IsNew
  <2>2. PICK H : H = Held' /\ H = With(G, b, x) BY <1>1
  <2>3. OnePlace(H) /\ SpotsOK(H, way) /\ InOrder(H, way)
    BY <1>2, <1>5, <2>1, <2>2, GiveKeeps
  <2> QED BY <2>2, <2>3
<1>7. \A c \in Spots : \A i \in DOMAIN Held'[c] : Held'[c][i].id <= packets
  <2>1. f.id <= packets BY <1>2 DEF HeldOK
  <2>2. PICK H : H = Held' /\ H = With(G, b, x) BY <1>1
  <2>3. \A c \in Spots : \A i \in DOMAIN H[c] :
          \/ c = b /\ i = Len(G[b]) + 1 /\ H[c][i] = x
          \/ i \in DOMAIN G[c] /\ H[c][i] = G[c][i] /\ (c = b => i < Len(G[b]) + 1)
    BY <1>2, <2>2, GivenTo
  <2>4. x.id <= packets BY <2>1
  <2>5. \A c \in Spots : \A i \in DOMAIN H[c] : H[c][i].id <= packets
    BY <1>2, <2>3, <2>4, Zenon
  <2> QED BY <2>2, <2>5
<1> QED BY <1>6, <1>7 DEF HeldOK

(* What the steps do to the queues and wires, they do to the spots.        *)
LEMMA HeldAt ==
  \A n \in Nodes : /\ Held[<<n, Wire>>] = wire[n] /\ Held[<<n, Out>>] = delivered[n]
                   /\ \A q \in Queues : Held[<<n, q>>] = queue[n][q]
BY SpotsAre DEF Held, HeldOf

(* Taking from a queue, as a change of what is held. *)
LEMMA QueueTaken ==
  ASSUME TypeOK, NEW n \in Nodes, NEW q \in Queues, NEW R, NEW D
  PROVE  HeldOf([queue EXCEPT ![n][q] = Tail(@)], R, D)
           = Without(HeldOf(queue, R, D), <<n, q>>)
<1>1. DOMAIN queue = Nodes /\ DOMAIN queue[n] = Queues BY DEF TypeOK
<1>2. PICK v : v = Tail(queue[n][q]) OBVIOUS
<1>3. HeldOf([queue EXCEPT ![n][q] = v], R, D) = [HeldOf(queue, R, D) EXCEPT ![<<n, q>>] = v]
  BY <1>1, SpotsAre DEF HeldOf
<1>4. HeldOf(queue, R, D)[<<n, q>>] = queue[n][q] BY SpotsAre DEF HeldOf
<1> QED BY <1>2, <1>3, <1>4, Zenon DEF Without

(* Adding to a queue. *)
LEMMA QueueGiven ==
  ASSUME TypeOK, NEW n \in Nodes, NEW q \in Queues, NEW R, NEW D, NEW x
  PROVE  HeldOf([queue EXCEPT ![n][q] = Append(@, x)], R, D)
           = With(HeldOf(queue, R, D), <<n, q>>, x)
<1>1. DOMAIN queue = Nodes /\ DOMAIN queue[n] = Queues BY DEF TypeOK
<1>2. PICK v : v = Append(queue[n][q], x) OBVIOUS
<1>3. HeldOf([queue EXCEPT ![n][q] = v], R, D) = [HeldOf(queue, R, D) EXCEPT ![<<n, q>>] = v]
  BY <1>1, SpotsAre DEF HeldOf
<1>4. HeldOf(queue, R, D)[<<n, q>>] = queue[n][q] BY SpotsAre DEF HeldOf
<1> QED BY <1>2, <1>3, <1>4, Zenon DEF With

(* Taking off the wire. *)
LEMMA WireTaken ==
  ASSUME TypeOK, NEW n \in Nodes, NEW Q, NEW D
  PROVE  HeldOf(Q, [wire EXCEPT ![n] = Tail(@)], D)
           = Without(HeldOf(Q, wire, D), <<n, Wire>>)
<1>1. DOMAIN wire = Nodes BY DEF TypeOK
<1>2. PICK v : v = Tail(wire[n]) OBVIOUS
<1>3. HeldOf(Q, [wire EXCEPT ![n] = v], D) = [HeldOf(Q, wire, D) EXCEPT ![<<n, Wire>>] = v]
  BY <1>1, SpotsAre DEF HeldOf
<1>4. HeldOf(Q, wire, D)[<<n, Wire>>] = wire[n] BY SpotsAre DEF HeldOf
<1> QED BY <1>2, <1>3, <1>4, Zenon DEF Without

(* Putting on the wire. *)
LEMMA WireGiven ==
  ASSUME TypeOK, NEW n \in Nodes, NEW Q, NEW D, NEW x
  PROVE  HeldOf(Q, [wire EXCEPT ![n] = Append(@, x)], D)
           = With(HeldOf(Q, wire, D), <<n, Wire>>, x)
<1>1. DOMAIN wire = Nodes BY DEF TypeOK
<1>2. PICK v : v = Append(wire[n], x) OBVIOUS
<1>3. HeldOf(Q, [wire EXCEPT ![n] = v], D) = [HeldOf(Q, wire, D) EXCEPT ![<<n, Wire>>] = v]
  BY <1>1, SpotsAre DEF HeldOf
<1>4. HeldOf(Q, wire, D)[<<n, Wire>>] = wire[n] BY SpotsAre DEF HeldOf
<1> QED BY <1>2, <1>3, <1>4, Zenon DEF With

(* Giving to the namespace. *)
LEMMA OutGiven ==
  ASSUME TypeOK, NEW n \in Nodes, NEW Q, NEW R, NEW x
  PROVE  HeldOf(Q, R, [delivered EXCEPT ![n] = Append(@, x)])
           = With(HeldOf(Q, R, delivered), <<n, Out>>, x)
<1>1. DOMAIN delivered = Nodes BY DEF TypeOK
<1>2. PICK v : v = Append(delivered[n], x) OBVIOUS
<1>3. HeldOf(Q, R, [delivered EXCEPT ![n] = v]) = [HeldOf(Q, R, delivered) EXCEPT ![<<n, Out>>] = v]
  BY <1>1, SpotsAre DEF HeldOf
<1>4. HeldOf(Q, R, delivered)[<<n, Out>>] = delivered[n] BY SpotsAre DEF HeldOf
<1> QED BY <1>2, <1>3, <1>4, Zenon DEF With

(* A packet is gone. *)
LEMMA Goes ==
  ASSUME TypeOK, HeldOK, NEW a \in Spots, Held[a] # <<>>, Held' = Without(Held, a),
         UNCHANGED <<way, packets>>
  PROVE  HeldOK'
<1>1. PICK G : G = Held' /\ G = Without(Held, a) OBVIOUS
<1>2. /\ OnePlace(G) /\ SpotsOK(G, way) /\ InOrder(G, way)
      /\ \A c \in Spots : \A i \in DOMAIN G[c] : G[c][i].id <= packets
  BY <1>1, AfterTaking
<1> QED BY <1>1, <1>2 DEF HeldOK

(* A frame is lost. *)
LEMMA LoseKeeps ==
  ASSUME TypeOK, HeldOK, NEW n \in Nodes, Lose(n)
  PROVE  HeldOK'
<1>1. /\ wire[n] # <<>> /\ wire' = [wire EXCEPT ![n] = Tail(@)]
      /\ UNCHANGED <<queue, delivered, way, packets>>
  BY DEF Lose
<1>2. HeldOf(queue, [wire EXCEPT ![n] = Tail(@)], delivered)
        = Without(HeldOf(queue, wire, delivered), <<n, Wire>>)
  BY WireTaken
<1>3. Held' = Without(Held, <<n, Wire>>) BY <1>1, <1>2 DEF Held
<1>4. Held[<<n, Wire>>] = wire[n] BY HeldAt
<1> QED BY <1>1, <1>3, <1>4, Goes, SpotsAre

(* On the wire a packet has a way.                                         *)
LEMMA HasWay ==
  ASSUME NEW p, NEW w \in Ways, NEW c \in Spots, SpotOK(p, w, c), c[2] \in {Wire, Veth, Out}
  PROVE  w.trail # <<>>
<1> SUFFICES ASSUME w.trail = <<>> PROVE FALSE OBVIOUS
<1>1. c = <<p.from, <<"local", p.dest>>>> BY DEF SpotOK, OnTrail
<1> QED BY <1>1 DEF Wire, Veth, Out

(* A frame arrives at a node. *)
LEMMA NicReceiveKeeps ==
  ASSUME TypeOK, WaysOK, HeldOK, NEW n \in Nodes, NicReceive(n)
  PROVE  HeldOK'
<1> DEFINE a == <<n, Wire>>
<1>1. PICK f \in Frames : f = Head(wire[n]) /\ f = wire[n][1] /\ wire[n] # <<>>
  BY WireTyped DEF NicReceive
<1>2. PICK x \in Packets : x = [id |-> f.id, from |-> f.from, dest |-> f.dest, ns |-> f.ns]
  BY DEF Frames, Packets
<1>3. /\ f.hop \in Nodes /\ Put(f.hop, QueueAt(f.hop, f), x)
      /\ wire' = [wire EXCEPT ![n] = Tail(@)] /\ UNCHANGED <<packets, delivered, way>>
  BY <1>1, <1>2 DEF NicReceive
<1>4. PICK b, q : q = QueueAt(f.hop, f) /\ q \in Queues /\ b = <<f.hop, q>>
  <2>1. f.dest \in Nodes BY DEF Frames
  <2>2. QueueAt(f.hop, f) \in Queues BY <2>1 DEF QueueAt, Queues
  <2> QED BY <2>2
<1>5. a \in Spots /\ b \in Spots /\ Held[a] = wire[n] /\ Held[a][1] = f
  <2>1. a \in Spots BY SpotsAre
  <2>2. b \in Spots BY <1>3, <1>4, SpotsAre, Zenon
  <2>3. Held[a] = wire[n] BY HeldAt
  <2> QED BY <1>1, <2>1, <2>2, <2>3
<1>6. HeldOf(queue, wire', delivered) = Without(Held, a)
  <2>1. HeldOf(queue, [wire EXCEPT ![n] = Tail(@)], delivered) = Without(HeldOf(queue, wire, delivered), a)
    BY WireTaken
  <2> QED BY <1>3, <2>1 DEF Held
<1>7. CASE UNCHANGED queue
  <2>1. Held' = Without(Held, a) BY <1>3, <1>6, <1>7 DEF Held
  <2> QED BY <1>1, <1>3, <1>5, <2>1, Goes
<1>8. CASE queue' = [queue EXCEPT ![f.hop][q] = Append(@, x)]
  <2>1. Held' = With(Without(Held, a), b, x)
    <3>1. HeldOf([queue EXCEPT ![f.hop][q] = Append(@, x)], wire', delivered)
            = With(HeldOf(queue, wire', delivered), b, x)
      BY <1>3, <1>4, QueueGiven
    <3> QED BY <1>3, <1>6, <1>8, <3>1 DEF Held
  <2>2. Stage(b) = Stage(a) + 1
    <3>1. a[2] = Wire /\ b[2] = q /\ q # Wire /\ q # Out BY <1>4, SpotsAre
    <3> QED BY <3>1 DEF Stage
  <2>3. PICK w \in Ways : w = way[f.id] BY DEF Frames, TypeOK, Ways
  <2>4. SpotOK(f, w, a)
    <3>1. 1 \in DOMAIN Held[a] BY <1>1, <1>5 DEF TypeOK
    <3> QED BY <1>5, <2>3, <3>1 DEF HeldOK, SpotsOK
  <2>5. SpotOK(x, w, b)
    <3>1. w.trail # <<>> BY <1>5, <2>4, HasWay
    <3>2. b[1] = f.hop /\ b[2] = q /\ a[1] = n /\ a[2] = Wire /\ q # Wire /\ q # Out
      BY <1>4, SpotsAre
    <3>3. x.id = f.id /\ x.from = f.from /\ x.dest = f.dest BY <1>2
    <3>4. /\ \A k \in DOMAIN w.trail : w.trail[k] # f.dest
          /\ f.slot = w.slot /\ n = Last(w.trail) /\ f.hop = Routes[n][f.dest][w.slot]
      BY <2>4, <3>1, <3>2 DEF SpotOK, OnTrail
    <3>5. InQueue(x, w, b)
      <4>1. CASE f.dest = f.hop
        <5>1. q = Veth BY <1>4, <4>1 DEF QueueAt, Veth
        <5> QED BY <3>2, <3>3, <4>1, <5>1, SpotsAre DEF InQueue
      <4>2. CASE f.dest # f.hop
        <5>1. q = <<"transit", f.dest>> BY <1>4, <4>2 DEF QueueAt
        <5>2. q # Veth BY <5>1 DEF Veth
        <5> QED BY <3>2, <3>3, <4>2, <5>1, <5>2 DEF InQueue
      <4> QED BY <4>1, <4>2
    <3>6. OnTrail(x, w, b)
      <4>1. q \in {<<"transit", f.dest>>, Veth, Out} BY <1>4 DEF QueueAt, Veth
      <4> QED BY <3>1, <3>2, <3>3, <3>4, <4>1 DEF OnTrail
    <3>7. Nearer(x, w, b) BY <2>4, <3>1, <3>2, <3>3 DEF SpotOK, Nearer, Wire, Out
    <3>8. Followed(x, w) BY <2>4, <3>3 DEF SpotOK, Followed
    <3> QED BY <3>5, <3>6, <3>7, <3>8 DEF SpotOK
  <2>6. x \in Things /\ x.id = f.id /\ x.from = f.from /\ x.dest = f.dest BY <1>2 DEF Things
  <2> QED BY <1>1, <1>3, <1>5, <2>1, <2>2, <2>3, <2>5, <2>6, Advances
<1> QED BY <1>3, <1>4, <1>7, <1>8 DEF Put

(* A packet is delivered. *)
LEMMA DeliverKeeps ==
  ASSUME TypeOK, WaysOK, HeldOK, NEW n \in Nodes, Deliver(n)
  PROVE  HeldOK'
<1> DEFINE a == <<n, Veth>>
           b == <<n, Out>>
<1>1. /\ queue[n][Veth] # <<>>
      /\ delivered' = [delivered EXCEPT ![n] = Append(@, Head(queue[n][Veth]))]
      /\ queue' = [queue EXCEPT ![n][Veth] = Tail(@)]
      /\ UNCHANGED <<packets, wire, way>>
  BY DEF Deliver, Veth
<1>2. PICK x \in Packets : x = Head(queue[n][Veth]) /\ x = queue[n][Veth][1]
  BY <1>1, HeadTyped, SpotsAre
<1>3. a \in Spots /\ b \in Spots /\ Held[a] = queue[n][Veth]
  BY SpotsAre, HeldAt
<1>4. HeldOf(queue', wire, delivered) = Without(Held, a)
  BY <1>1, SpotsAre, QueueTaken, Zenon DEF Held
<1>5. Held' = With(Without(Held, a), b, x)
  <2>1. delivered' = [delivered EXCEPT ![n] = Append(@, x)] BY <1>1, <1>2
  <2>2. HeldOf(queue', wire, delivered') = With(HeldOf(queue', wire, delivered), b, x)
    BY <2>1, OutGiven
  <2> QED BY <1>1, <1>4, <2>2 DEF Held
<1>6. Stage(b) = Stage(a) + 1 BY DEF Stage, Wire, Out, Veth
<1>7. PICK w \in Ways : w = way[x.id] BY DEF Packets, TypeOK, Ways
<1>8. SpotOK(x, w, a)
  <2>1. 1 \in DOMAIN Held[a] BY <1>1, <1>3, SpotsAre DEF TypeOK
  <2> QED BY <1>2, <1>3, <1>7, <2>1 DEF HeldOK, SpotsOK
<1>9. SpotOK(x, w, b)
  <2>1. w.trail # <<>> BY <1>3, <1>8, HasWay
  <2>2. a[1] = n /\ b[1] = n /\ a[2] = Veth /\ b[2] = Out /\ Veth # Wire /\ Out # Wire
        /\ Out \notin DestQueues
    BY SpotsAre DEF Veth, Wire
  <2>3. InQueue(x, w, b) BY <1>8, <2>2 DEF SpotOK, InQueue
  <2>4. OnTrail(x, w, b) BY <1>8, <2>1, <2>2 DEF SpotOK, OnTrail
  <2>5. Nearer(x, w, b) BY <2>2 DEF Nearer
  <2> QED BY <1>8, <2>3, <2>4, <2>5 DEF SpotOK
<1>10. x \in Things BY DEF Things
<1> QED BY <1>1, <1>2, <1>3, <1>5, <1>6, <1>7, <1>9, <1>10, Advances

(* A new packet is behind all of its flow.                                 *)
LEMMA VethReceiveKeeps ==
  ASSUME TypeOK, WaysOK, HeldOK, NEW n \in Nodes, NEW d \in Nodes, VethReceive(n, d)
  PROVE  HeldOK'
<1> DEFINE b == <<n, <<"local", d>>>>
<1>1. /\ packets < MaxPackets /\ n # d /\ packets' = packets + 1
      /\ packets \in Nat /\ packets' \in Nat /\ packets' \in Ids
      /\ UNCHANGED <<wire, delivered, way>>
  <2>1. packets \in Nat
    <3>1. packets \in 0..MaxPackets BY DEF TypeOK
    <3> QED BY <3>1, Sizes
  <2>2. \A y, z \in Nat : y < z => y + 1 \in 1..z OBVIOUS
  <2> QED BY <2>1, <2>2, Sizes DEF VethReceive, Ids
<1>2. PICK x : x = [id |-> packets + 1, from |-> n, dest |-> d, ns |-> 0] OBVIOUS
<1>3. x \in Packets /\ x \in Things BY <1>1, <1>2 DEF Packets, Things
<1>4. PICK q \in Queues : q = <<"local", d>> /\ q \in DestQueues
  <2>1. <<"local", d>> \in DestQueues BY DEF DestQueues
  <2> QED BY <2>1, SpotsAre
<1>5. b \in Spots /\ b[1] = n /\ b[2] = q /\ q # Wire /\ q # Out /\ q # Veth
  BY <1>4, SpotsAre DEF Veth
<1>6. Put(n, q, x) BY <1>2, <1>4 DEF VethReceive
<1>7. CASE UNCHANGED queue
  <2>1. Held' = Held BY <1>1, <1>7 DEF Held
  <2>2. packets <= packets' BY <1>1
  <2> QED BY <1>1, <2>1, <2>2, HeldSame
<1>8. CASE queue' = [queue EXCEPT ![n][q] = Append(@, x)]
  <2>1. PICK H : H = Held' /\ H = With(Held, b, x)
    <3>1. HeldOf([queue EXCEPT ![n][q] = Append(@, x)], wire, delivered)
            = With(HeldOf(queue, wire, delivered), <<n, q>>, x)
      BY QueueGiven
    <3> QED BY <1>1, <1>4, <1>8, <3>1 DEF Held
  <2>2. way[x.id] = NoWay /\ x.id = packets' /\ x.id \in Nat
    BY <1>1, <1>2 DEF WaysOK
  <2>3. \A c \in Spots : \A i \in DOMAIN Held[c] :
          /\ Held[c][i] \in Things /\ Held[c][i].id \in Ids /\ Held[c][i].id \in Nat
          /\ Held[c][i].id <= packets /\ Held[c][i].id < x.id
    <3> SUFFICES ASSUME NEW c \in Spots, NEW i \in DOMAIN Held[c]
                 PROVE /\ Held[c][i] \in Things /\ Held[c][i].id \in Ids /\ Held[c][i].id \in Nat
                       /\ Held[c][i].id <= packets /\ Held[c][i].id < x.id
      OBVIOUS
    <3>1. Held[c] \in Seq(Things) BY HeldTyped
    <3>2. Held[c][i] \in Things BY <3>1
    <3>3. Held[c][i].id \in Nat /\ Held[c][i].id \in Ids BY <3>2, ThingIds
    <3>4. Held[c][i].id <= packets BY DEF HeldOK
    <3>5. \A y, z \in Nat : y <= z => y < z + 1 OBVIOUS
    <3> QED BY <1>1, <2>2, <3>2, <3>3, <3>4, <3>5
  <2>4. IsNew(Held, x)
    <3>1. \A y, z \in Nat : y < z => y # z OBVIOUS
    <3> QED BY <2>2, <2>3, <3>1 DEF IsNew
  <2>5. NoWay \in Ways /\ WayOK(NoWay) /\ NoWay.trail = <<>> /\ NoWay.slots = {}
    BY DEF NoWay, Ways, WayOK
  <2>6. x.from = n /\ x.dest = d /\ <<x.from, <<"local", x.dest>>>> = b BY <1>2, <1>4
  <2>7. SpotOK(x, NoWay, b)
    <3>1. InQueue(x, NoWay, b) BY <1>1, <1>4, <1>5, <2>6 DEF InQueue
    <3>2. OnTrail(x, NoWay, b) BY <2>5, <2>6 DEF OnTrail
    <3> QED BY <2>5, <3>1, <3>2 DEF SpotOK, Nearer, Followed
  <2>8. Fits(Held, way, b, x, NoWay)
    <3> SUFFICES ASSUME NEW c \in Spots, NEW i \in DOMAIN Held[c]
                 PROVE FitsWith(Held[c][i], way[Held[c][i].id], c, x, NoWay, b)
      BY DEF Fits
    <3>1. PICK p, v : p = Held[c][i] /\ v = way[p.id] OBVIOUS
    <3>2. v \in Ways /\ WayOK(v) BY <2>3, <3>1 DEF TypeOK, Ways, WaysOK
    <3>3. SpotOK(p, v, c) BY <3>1 DEF HeldOK, SpotsOK
    <3>4. p.id < x.id /\ ~(x.id < p.id)
      <4>1. \A y, z \in Nat : y < z => ~(z < y) OBVIOUS
      <4> QED BY <2>2, <2>3, <3>1, <4>1
    <3>5. Rank(NoWay, b) = 1
      <4>1. Stage(b) = 1 BY <1>5 DEF Stage
      <4>2. Len(NoWay.trail) = 0 BY <2>5
      <4> QED BY <4>1, <4>2 DEF Rank
    <3>6. Len(v.trail) \in Nat /\ Stage(c) \in 0..2 BY <3>2, Ranks
    <3>7. Rank(NoWay, b) <= Rank(v, c)
      <4>1. v.trail = <<>> => Stage(c) # 0
        <5>1. v.trail = <<>> => c[2] # Wire BY <3>2, <3>3, HasWay
        <5> QED BY <5>1 DEF Stage
      <4>2. v.trail # <<>> => Len(v.trail) # 0 BY <3>2, WayCases
      <4>3. \A l \in Nat, g \in 0..2 : l # 0 \/ g # 0 => 1 <= 3 * l + g OBVIOUS
      <4>4. 1 <= Rank(v, c) BY <3>6, <4>1, <4>2, <4>3 DEF Rank
      <4> QED BY <3>5, <4>4
    <3>8. Prefix(NoWay.trail, v.trail)
      <4>1. Len(NoWay.trail) = 0 /\ DOMAIN NoWay.trail = {} BY <2>5
      <4>2. 0 <= Len(v.trail) BY <3>6
      <4> QED BY <4>1, <4>2 DEF Prefix
    <3>9. ASSUME Together(p, v, x, NoWay), Rank(NoWay, b) = Rank(v, c) PROVE c = b
      <4>1. Len(NoWay.trail) = Len(v.trail) /\ Stage(b) = Stage(c)
        BY <1>5, <2>5, <3>2, <3>9, Ranks
      <4> QED BY <1>5, <2>5, <2>7, <3>2, <3>3, <3>8, <3>9, <4>1, SameSpot
    <3>10. FitsWith(p, v, c, x, NoWay, b) BY <3>4, <3>7, <3>8, <3>9 DEF FitsWith
    <3> QED BY <3>1, <3>10
  <2>9. OnePlace(H) /\ SpotsOK(H, way) /\ InOrder(H, way)
    <3>1. Held \in [Spots -> Seq(Things)] BY HeldTyped
    <3>2. OnePlace(Held) /\ SpotsOK(Held, way) /\ InOrder(Held, way) BY DEF HeldOK
    <3> HIDE DEF b
    <3> QED BY <1>3, <1>5, <2>1, <2>2, <2>4, <2>7, <2>8, <3>1, <3>2, GiveKeeps
  <2>10. \A c \in Spots : \A i \in DOMAIN H[c] : H[c][i].id <= packets'
    <3>1. Held \in [Spots -> Seq(Things)] BY HeldTyped
    <3>2. \A c \in Spots : \A i \in DOMAIN H[c] :
            \/ c = b /\ i = Len(Held[b]) + 1 /\ H[c][i] = x
            \/ i \in DOMAIN Held[c] /\ H[c][i] = Held[c][i] /\ (c = b => i < Len(Held[b]) + 1)
      BY <1>3, <1>5, <2>1, <3>1, GivenTo
    <3>3. \A y, z \in Nat : y < z => y <= z OBVIOUS
    <3>4. x.id <= packets' BY <1>1, <2>2
    <3> QED BY <1>1, <2>2, <2>3, <3>2, <3>3, <3>4
  <2> QED BY <1>1, <2>1, <2>9, <2>10 DEF HeldOK
<1> QED BY <1>6, <1>7, <1>8 DEF Put

(* A sequence with one more. *)
LEMMA AppendTo ==
  ASSUME NEW S, NEW t \in Seq(S), NEW x \in S, NEW u, u = Append(t, x)
  PROVE  /\ u # <<>> /\ Len(u) = Len(t) + 1 /\ u[Len(t) + 1] = x
         /\ \A k \in DOMAIN u : k = Len(u) \/ k \in DOMAIN t
         /\ \A k \in DOMAIN t : u[k] = t[k] /\ k \in DOMAIN u
         /\ Len(u) \in Nat \ {0}
<1>1. u \in Seq(S) /\ Len(u) = Len(t) + 1 /\ u[Len(t) + 1] = x OBVIOUS
<1>2. DOMAIN t = 1 .. Len(t) /\ DOMAIN u = 1 .. Len(u) /\ Len(t) \in Nat BY <1>1
<1>3. u # <<>> /\ Len(u) \in Nat \ {0} BY <1>1, <1>2
<1>4. \A k \in 1 .. Len(t) : u[k] = t[k] BY <1>2
<1> QED BY <1>1, <1>2, <1>3, <1>4

(* The next hop of node n for p, in the slot s that n read last.           *)
LEMMA ExtendedWay ==
  ASSUME NEW p \in Things, NEW w \in Ways, WayOK(w), NEW n \in Nodes, NEW s \in Slots,
         NEW q \in DestQueues, SpotOK(p, w, <<n, q>>)
  PROVE  LET v == Extended(w, n, s)
         IN /\ v \in Ways /\ WayOK(v) /\ v.trail # <<>> /\ v.slot = s /\ Last(v.trail) = n
            /\ v.slots = w.slots \cup {s} /\ Len(v.trail) \in Nat \ {0}
            /\ \A k \in DOMAIN v.trail :
                 \/ k = Len(v.trail) /\ v.trail[k] = n
                 \/ w.slot = s /\ k \in DOMAIN w.trail /\ v.trail[k] = w.trail[k]
            /\ w.slots \subseteq {s} =>
                 /\ Len(v.trail) = Len(w.trail) + 1 /\ v.trail[Len(w.trail) + 1] = n
                 /\ \A k \in DOMAIN w.trail : v.trail[k] = w.trail[k] /\ k \in DOMAIN v.trail
<1> DEFINE v == Extended(w, n, s)
<1>1. w.trail \in Seq(Nodes) /\ Append(w.trail, n) \in Seq(Nodes) /\ <<n>> \in Seq(Nodes)
      /\ Len(w.trail) \in Nat
  <2>1. w.trail \in Seq(Nodes) BY DEF Ways
  <2> QED BY <2>1
<1>2. v.slots = w.slots \cup {s} /\ v.slot = s
      /\ v.trail = IF w.slot = s THEN Append(w.trail, n) ELSE <<n>>
  BY DEF Extended
<1>3. v \in Ways BY <1>1 DEF Extended, Ways
<1>4. CASE w.slot = s
  <2>1. v.trail = Append(w.trail, n) BY <1>2, <1>4
  <2>2. /\ v.trail # <<>> /\ Len(v.trail) = Len(w.trail) + 1 /\ v.trail[Len(w.trail) + 1] = n
        /\ \A k \in DOMAIN v.trail : k = Len(v.trail) \/ k \in DOMAIN w.trail
        /\ \A k \in DOMAIN w.trail : v.trail[k] = w.trail[k] /\ k \in DOMAIN v.trail
        /\ Len(v.trail) \in Nat \ {0}
    <3>1. \A t \in Seq(Nodes) : LET u == Append(t, n)
                               IN /\ u # <<>> /\ Len(u) = Len(t) + 1 /\ u[Len(t) + 1] = n
                                  /\ \A k \in DOMAIN u : k = Len(u) \/ k \in DOMAIN t
                                  /\ \A k \in DOMAIN t : u[k] = t[k] /\ k \in DOMAIN u
                                  /\ Len(u) \in Nat \ {0}
      BY AppendTo
    <3> HIDE DEF v
    <3> QED BY <1>1, <2>1, <3>1, Zenon
  <2> HIDE DEF v
  <2> QED BY <1>2, <1>3, <1>4, <2>2 DEF WayOK, Last, v
<1>5. CASE w.slot # s
  <2>1. v.trail = <<n>> BY <1>2, <1>5
  <2>2. /\ v.trail # <<>> /\ Len(v.trail) = 1 /\ DOMAIN v.trail = {1} /\ v.trail[1] = n BY <2>1
  <2>3. w.slots \subseteq {s} => w.trail = <<>> BY <1>5, WayCases
  <2>4. w.trail = <<>> => Len(w.trail) = 0 /\ DOMAIN w.trail = {} OBVIOUS
  <2> HIDE DEF v
  <2> QED BY <1>2, <1>3, <2>2, <2>3, <2>4 DEF WayOK, Last, v
<1> QED BY <1>4, <1>5

(* The frame that n sends is nearer to its destination, in the slot of its *)
(* header, than all nodes that sent it along in this slot.                 *)
LEMMA FrameOK ==
  ASSUME NEW p \in Things, NEW w \in Ways, WayOK(w), NEW n \in Nodes, NEW s \in Slots,
         NEW q \in DestQueues, SpotOK(p, w, <<n, q>>), NEW f,
         f = [id |-> p.id, from |-> p.from, dest |-> p.dest, ns |-> p.ns,
              slot |-> s, hop |-> Routes[n][q[2]][s]]
  PROVE  SpotOK(f, Extended(w, n, s), <<n, Wire>>)
<1>1. PICK v : v = Extended(w, n, s) OBVIOUS
<1>2. /\ v \in Ways /\ WayOK(v) /\ v.trail # <<>> /\ v.slot = s /\ Last(v.trail) = n
      /\ v.slots = w.slots \cup {s} /\ Len(v.trail) \in Nat \ {0}
      /\ \A k \in DOMAIN v.trail :
           \/ k = Len(v.trail) /\ v.trail[k] = n
           \/ w.slot = s /\ k \in DOMAIN w.trail /\ v.trail[k] = w.trail[k]
      /\ w.slots \subseteq {s} =>
           /\ Len(v.trail) = Len(w.trail) + 1 /\ v.trail[Len(w.trail) + 1] = n
           /\ \A k \in DOMAIN w.trail : v.trail[k] = w.trail[k] /\ k \in DOMAIN v.trail
  BY <1>1, ExtendedWay
<1>3. PICK a, b : a = <<n, q>> /\ b = <<n, Wire>> OBVIOUS
<1>4. /\ a[1] = n /\ a[2] = q /\ b[1] = n /\ b[2] = Wire /\ q # Wire /\ q # Out
      /\ Wire \notin DestQueues /\ Wire # Veth /\ Wire # Out
  BY <1>3, SpotsAre DEF Wire, Veth
<1>5. p.dest = q[2] /\ p.dest # n /\ p.dest \in Nodes
  <2>1. q[2] \in Nodes BY DEF DestQueues
  <2> QED BY <1>3, <1>4, <2>1 DEF SpotOK, InQueue
<1>6. f.from = p.from /\ f.dest = p.dest /\ f.slot = s /\ f.hop = Routes[n][p.dest][s]
  BY <1>5
<1>7. SpotOK(p, w, a) BY <1>3
<1>8. InQueue(f, v, b) BY <1>4 DEF InQueue
<1>9. OnTrail(f, v, b)
  <2>1. \A k \in DOMAIN v.trail : v.trail[k] # f.dest
    <3>1. \A k \in DOMAIN w.trail : w.trail[k] # p.dest BY <1>7 DEF SpotOK, OnTrail
    <3> QED BY <1>2, <1>5, <1>6, <3>1
  <2> QED BY <1>2, <1>4, <1>6, <2>1 DEF OnTrail
<1>10. Nearer(f, v, b)
  <2>1. PICK D : D = Distance(s, p.dest) OBVIOUS
  <2>2. D \in [Nodes -> 0..NNodes] /\ f.hop \in Nodes /\ D[f.hop] < D[n]
    BY <1>5, <1>6, <2>1, DistanceFalls
  <2>3. \A m \in Nodes : D[m] \in Nat
    <3>1. \A m \in Nodes : D[m] \in 0..NNodes BY <2>2
    <3> QED BY <3>1, Sizes
  <2>4. ASSUME NEW k \in DOMAIN v.trail PROVE D[f.hop] < D[v.trail[k]]
    <3>1. CASE v.trail[k] = n BY <2>2, <3>1
    <3>2. CASE w.slot = s /\ k \in DOMAIN w.trail /\ v.trail[k] = w.trail[k]
      <4>1. w.trail # <<>> /\ w.trail[k] \in Nodes
        <5>1. w.trail \in Seq(Nodes) BY DEF Ways
        <5> QED BY <3>2, <5>1
      <4>2. D[n] < D[w.trail[k]]
        BY <1>4, <1>7, <2>1, <3>2, <4>1, Zenon DEF SpotOK, Nearer
      <4>3. \A x, y, z \in Nat : x < y /\ y < z => x < z OBVIOUS
      <4> QED BY <2>2, <2>3, <3>2, <4>1, <4>2, <4>3
    <3> QED BY <1>2, <3>1, <3>2
  <2> QED BY <1>2, <1>4, <1>6, <2>1, <2>4 DEF Nearer
<1>11. Followed(f, v)
  <2> SUFFICES ASSUME v.slots \subseteq {v.slot}
               PROVE /\ v.trail[1] = f.from
                     /\ \A k \in 1 .. Len(v.trail) - 1 :
                          v.trail[k + 1] = Routes[v.trail[k]][f.dest][v.slot]
    BY DEF Followed
  <2>1. w.slots \subseteq {s} BY <1>2
  <2>2. /\ Len(v.trail) = Len(w.trail) + 1 /\ v.trail[Len(w.trail) + 1] = n
        /\ \A k \in DOMAIN w.trail : v.trail[k] = w.trail[k]
    BY <1>2, <2>1
  <2>3. CASE w.trail = <<>>
    <3>1. Len(w.trail) = 0 BY <2>3
    <3>2. a = <<p.from, <<"local", p.dest>>>> BY <1>7, <2>3 DEF SpotOK, OnTrail
    <3>3. n = p.from BY <1>4, <3>2
    <3>4. v.trail[1] = n /\ 1 .. Len(v.trail) - 1 = {} BY <2>2, <3>1
    <3> QED BY <1>6, <3>3, <3>4
  <2>4. CASE w.trail # <<>>
    <3>1. w.slot = s /\ w.slots \subseteq {w.slot} /\ Len(w.trail) \in Nat \ {0}
      BY <2>1, <2>4, WayCases
    <3>2. w.trail \in Seq(Nodes) /\ DOMAIN w.trail = 1 .. Len(w.trail) BY DEF Ways
    <3>3. /\ w.trail[1] = p.from
          /\ \A k \in 1 .. Len(w.trail) - 1 : w.trail[k + 1] = Routes[w.trail[k]][p.dest][w.slot]
      BY <1>7, <2>4, <3>1 DEF SpotOK, Followed
    <3>4. n = Routes[w.trail[Len(w.trail)]][p.dest][w.slot]
      BY <1>4, <1>7, <2>4 DEF SpotOK, OnTrail, Last
    <3>5. v.trail[1] = f.from
      <4>1. 1 \in DOMAIN w.trail BY <3>1, <3>2
      <4> QED BY <1>6, <2>2, <3>3, <4>1
    <3>6. ASSUME NEW k \in 1 .. Len(v.trail) - 1
          PROVE v.trail[k + 1] = Routes[v.trail[k]][f.dest][v.slot]
      <4>1. /\ k \in DOMAIN w.trail
            /\ \/ k + 1 \in DOMAIN w.trail /\ k \in 1 .. Len(w.trail) - 1
               \/ k = Len(w.trail)
        BY <2>2, <3>1, <3>2
      <4>2. CASE k + 1 \in DOMAIN w.trail /\ k \in 1 .. Len(w.trail) - 1
        BY <1>2, <1>6, <2>2, <3>1, <3>3, <4>1, <4>2
      <4>3. CASE k = Len(w.trail)
        <5>1. v.trail[k + 1] = n BY <2>2, <4>3
        <5>2. v.trail[k] = w.trail[k] BY <2>2, <4>1
        <5> QED BY <1>2, <1>6, <3>1, <3>4, <4>3, <5>1, <5>2
      <4> QED BY <4>1, <4>2, <4>3
    <3> QED BY <3>5, <3>6
  <2> QED BY <2>3, <2>4
<1> QED BY <1>1, <1>3, <1>8, <1>9, <1>10, <1>11 DEF SpotOK

(* The packet at the head of a queue is sent on.                           *)
LEMMA ForwardKeeps ==
  ASSUME TypeOK, WaysOK, HeldOK, NEW n \in Nodes, NEW q \in DestQueues, Forward(n, q)
  PROVE  HeldOK'
<1>0. q \in Queues BY SpotsAre
<1>1. /\ queue[n][q] # <<>> /\ queue' = [queue EXCEPT ![n][q] = Tail(@)]
      /\ UNCHANGED <<packets, delivered>> /\ Sent(n, q, 1)
  BY DEF Forward
<1>2. PICK f \in Packets : f = queue[n][q][1] BY <1>0, <1>1, HeadTyped
<1>3. PICK s \in Slots : s = topo[n] BY DEF TypeOK
<1>4. PICK x : x = [id |-> f.id, from |-> f.from, dest |-> f.dest, ns |-> f.ns,
                    slot |-> s, hop |-> Routes[n][q[2]][s]]
  OBVIOUS
<1>5. f \in Things /\ f.id \in Ids /\ x.id = f.id /\ x.from = f.from /\ x.dest = f.dest
  BY <1>4 DEF Things, Packets
<1>6. PICK w \in Ways : w = way[f.id] /\ WayOK(w) BY <1>5 DEF TypeOK, Ways, WaysOK
<1>7. PICK v : v = Extended(w, n, s) OBVIOUS
<1>8. wire' = [wire EXCEPT ![n] = Append(@, x)] /\ way' = [way EXCEPT ![f.id] = v]
  BY <1>1, <1>2, <1>3, <1>4, <1>6, <1>7 DEF Sent
<1>9. PICK a, b : /\ a = <<n, q>> /\ b = <<n, Wire>> /\ a \in Spots /\ b \in Spots
                  /\ a[1] = n /\ a[2] = q /\ b[1] = n /\ b[2] = Wire /\ q # Wire /\ q # Out
                  /\ Wire # Out
  <2>1. <<n, q>> \in Spots /\ <<n, Wire>> \in Spots /\ q # Wire /\ q # Out /\ Wire # Out
    BY <1>0, SpotsAre, Zenon
  <2> QED BY <2>1
<1>10. Held[a] = queue[n][q] /\ Held[a] # <<>> /\ Held[a][1] = f
  BY <1>0, <1>1, <1>2, <1>9, HeldAt
<1>11. PICK G : G = Without(Held, a) OBVIOUS
<1>12. PICK H : H = Held' /\ H = With(G, b, x)
  <2>1. HeldOf([queue EXCEPT ![n][q] = Tail(@)], wire, delivered)
          = Without(HeldOf(queue, wire, delivered), <<n, q>>)
    BY <1>0, QueueTaken
  <2>2. HeldOf(queue', wire, delivered) = G BY <1>1, <1>9, <1>11, <2>1 DEF Held
  <2>3. HeldOf(queue', [wire EXCEPT ![n] = Append(@, x)], delivered)
          = With(HeldOf(queue', wire, delivered), <<n, Wire>>, x)
    BY WireGiven
  <2>4. Held' = With(G, b, x) BY <1>1, <1>8, <1>9, <2>2, <2>3 DEF Held
  <2> QED BY <2>4
<1>13. /\ G \in [Spots -> Seq(Things)] /\ OnePlace(G) /\ SpotsOK(G, way) /\ InOrder(G, way)
       /\ 1 \in DOMAIN Held[a]
       /\ \A c \in Spots : \A i \in DOMAIN G[c] :
            G[c][i] \in Things /\ G[c][i].id # f.id /\ G[c][i].id <= packets
       /\ \A c \in Spots : \A i \in DOMAIN G[c] : \E k \in DOMAIN Held[c] :
            k \in Nat /\ G[c][i] = Held[c][k] /\ (c = a => k # 1 /\ 1 < k)
  <2>1. Held[a][1] = f BY <1>10
  <2>2. /\ G \in [Spots -> Seq(Things)] /\ OnePlace(G) /\ SpotsOK(G, way) /\ InOrder(G, way)
        /\ 1 \in DOMAIN Held[a]
        /\ \A c \in Spots : \A i \in DOMAIN G[c] :
             G[c][i] \in Things /\ G[c][i].id # Held[a][1].id /\ G[c][i].id <= packets
        /\ \A c \in Spots : \A i \in DOMAIN G[c] : \E k \in DOMAIN Held[c] :
             k \in Nat /\ G[c][i] = Held[c][k] /\ (c = a => k # 1 /\ 1 < k)
    <3>1. a \in Spots /\ Held[a] # <<>> /\ G = Without(Held, a) BY <1>9, <1>10, <1>11
    <3> QED BY <3>1, AfterTaking
  <2> QED BY <2>1, <2>2, Zenon
<1>14. SpotOK(f, w, a) BY <1>6, <1>9, <1>10, <1>13 DEF HeldOK, SpotsOK
<1>15. /\ v \in Ways /\ WayOK(v) /\ v.trail # <<>> /\ v.slot = s /\ Last(v.trail) = n
       /\ v.slots = w.slots \cup {s} /\ Len(v.trail) \in Nat \ {0}
       /\ w.slots \subseteq {s} =>
            /\ Len(v.trail) = Len(w.trail) + 1 /\ v.trail[Len(w.trail) + 1] = n
            /\ \A k \in DOMAIN w.trail : v.trail[k] = w.trail[k] /\ k \in DOMAIN v.trail
  BY <1>5, <1>6, <1>7, <1>9, <1>14, ExtendedWay
<1>16. SpotOK(x, v, b) BY <1>4, <1>5, <1>6, <1>7, <1>9, <1>14, FrameOK
<1>17. x \in Things
  <2>1. Routes[n][q[2]][s] \in Nat
    <3>1. q[2] \in Nodes BY DEF DestQueues
    <3> QED BY <3>1, Sizes
  <2> QED BY <1>4, <2>1 DEF Packets, Things, Frames
<1>18. Len(w.trail) \in Nat /\ Stage(a) = 1 /\ Stage(b) = 0 /\ w.trail \in Seq(Nodes)
       /\ DOMAIN w.trail = 1 .. Len(w.trail)
  BY <1>9 DEF Ways, Stage
<1>19. Fits(G, way, b, x, v)
  <2> SUFFICES ASSUME NEW c \in Spots, NEW i \in DOMAIN G[c]
               PROVE FitsWith(G[c][i], way[G[c][i].id], c, x, v, b)
    BY DEF Fits
  <2>1. PICK k \in DOMAIN Held[c] : k \in Nat /\ G[c][i] = Held[c][k] /\ (c = a => k # 1 /\ 1 < k)
    BY <1>13
  <2>2. PICK p : p = Held[c][k] /\ p = G[c][i] /\ p \in Things BY <1>13, <2>1
  <2>3. PICK u : u = way[p.id] /\ u \in Ways /\ WayOK(u)
    BY <2>2, ThingIds DEF TypeOK, Ways, WaysOK
  <2>4. SpotOK(p, u, c) BY <2>2, <2>3 DEF HeldOK, SpotsOK
  <2>5. /\ Len(u.trail) \in Nat /\ Stage(c) \in 0..2 /\ u.trail \in Seq(Nodes)
        /\ DOMAIN u.trail = 1 .. Len(u.trail)
    <3>1. Len(u.trail) \in Nat /\ Stage(c) \in 0..2 BY <2>3, Ranks
    <3> QED BY <2>3, <3>1 DEF Ways
  <2>6. ASSUME p.id < x.id, Together(p, u, x, v)
        PROVE /\ Rank(v, b) <= Rank(u, c) /\ Prefix(v.trail, u.trail)
              /\ Rank(v, b) = Rank(u, c) => c = b
    <3>1. /\ w.slots \subseteq {s} /\ u.slots \subseteq {s}
          /\ p.from = f.from /\ p.dest = f.dest
      BY <1>5, <1>15, <2>6 DEF Together
    <3>2. Together(p, u, f, w) BY <3>1 DEF Together
    <3>3. Behind(u, c, k, w, a, 1)
      BY <1>5, <1>6, <1>9, <1>10, <1>13, <2>2, <2>3, <2>6, <3>2 DEF HeldOK, InOrder
    <3>4. Rank(w, a) <= Rank(u, c) /\ Prefix(w.trail, u.trail)
          /\ Rank(w, a) # Rank(u, c)
      <4>1. Rank(w, a) = Rank(u, c) => c = a /\ k < 1 BY <3>3 DEF Behind
      <4>2. c = a => ~(k < 1) BY <2>1
      <4> QED BY <3>3, <4>1, <4>2 DEF Behind
    <3>5. Len(v.trail) = Len(w.trail) + 1 /\ v.trail[Len(w.trail) + 1] = n
          /\ \A j \in DOMAIN w.trail : v.trail[j] = w.trail[j]
      BY <1>15, <3>1
    <3>6. Len(w.trail) < Len(u.trail)
      <4>1. \A l, m \in Nat, g \in 0..2 :
              3 * l + 1 <= 3 * m + g /\ 3 * l + 1 # 3 * m + g => l < m \/ (l = m /\ g = 2)
        OBVIOUS
      <4>2. Len(w.trail) < Len(u.trail) \/ (Len(w.trail) = Len(u.trail) /\ Stage(c) = 2)
        BY <1>18, <2>5, <3>4, <4>1 DEF Rank
      <4>3. ASSUME Len(w.trail) = Len(u.trail), Stage(c) = 2 PROVE FALSE
        <5>1. c[2] = Out /\ c[2] # Wire BY <4>3, SpotsAre DEF Stage
        <5>2. u.trail # <<>> BY <2>3, <2>4, <5>1, HasWay
        <5>3. w.trail # <<>>
          <6>1. Len(u.trail) # 0 BY <2>3, <5>2, WayCases
          <6> QED BY <4>3, <6>1
        <5>4. c[1] = Routes[Last(u.trail)][p.dest][u.slot] /\ p.dest = c[1]
          BY <2>4, <5>1, <5>2 DEF SpotOK, OnTrail, InQueue
        <5>5. n = Routes[Last(w.trail)][f.dest][w.slot] /\ f.dest # n
          BY <1>9, <1>14, <5>3 DEF SpotOK, OnTrail, InQueue
        <5>6. u.slot = s /\ w.slot = s BY <1>6, <2>3, <3>1, <5>2, <5>3, WayCases
        <5>7. Last(u.trail) = Last(w.trail)
          BY <1>6, <3>4, <4>3, <5>3, WayCases DEF Last, Prefix
        <5> QED BY <3>1, <5>4, <5>5, <5>6, <5>7
      <4> QED BY <4>2, <4>3
    <3>7. u.trail # <<>> /\ u.slot = s /\ u.slots \subseteq {u.slot}
      <4>1. Len(u.trail) # 0 BY <1>18, <2>5, <3>6
      <4>2. u.trail # <<>> BY <4>1
      <4> QED BY <2>3, <3>1, <4>2, WayCases
    <3>8. u.trail[Len(w.trail) + 1] = n
      <4>1. /\ u.trail[1] = p.from
            /\ \A j \in 1 .. Len(u.trail) - 1 :
                 u.trail[j + 1] = Routes[u.trail[j]][p.dest][u.slot]
        BY <2>4, <3>7 DEF SpotOK, Followed
      <4>2. CASE w.trail = <<>>
        <5>1. a = <<f.from, <<"local", f.dest>>>> BY <1>14, <4>2 DEF SpotOK, OnTrail
        <5>2. n = f.from BY <1>9, <5>1
        <5>3. Len(w.trail) + 1 = 1 BY <4>2
        <5> QED BY <3>1, <4>1, <5>2, <5>3
      <4>3. CASE w.trail # <<>>
        <5>1. n = Routes[Last(w.trail)][f.dest][w.slot]
          BY <1>9, <1>14, <4>3 DEF SpotOK, OnTrail
        <5>2. w.slot = s /\ Len(w.trail) \in DOMAIN w.trail BY <1>6, <3>1, <4>3, WayCases
        <5>3. Len(w.trail) \in 1 .. Len(u.trail) - 1
          <6>1. Len(w.trail) \in 1 .. Len(w.trail) BY <1>18, <5>2
          <6> QED BY <1>18, <2>5, <3>6, <6>1
        <5>4. u.trail[Len(w.trail)] = Last(w.trail) BY <3>4, <5>2 DEF Prefix, Last
        <5> QED BY <3>1, <3>7, <4>1, <5>1, <5>2, <5>3, <5>4
      <4> QED BY <4>2, <4>3
    <3>9. Prefix(v.trail, u.trail)
      <4>1. Len(v.trail) <= Len(u.trail) BY <1>18, <2>5, <3>5, <3>6
      <4>2. DOMAIN v.trail = 1 .. Len(w.trail) + 1
        <5>1. v.trail \in Seq(Nodes) BY <1>15 DEF Ways
        <5> QED BY <3>5, <5>1
      <4>3. ASSUME NEW j \in DOMAIN v.trail PROVE v.trail[j] = u.trail[j]
        <5>1. j = Len(w.trail) + 1 \/ j \in DOMAIN w.trail BY <1>18, <4>2
        <5> QED BY <3>4, <3>5, <3>8, <5>1 DEF Prefix
      <4> QED BY <4>1, <4>3 DEF Prefix
    <3>10. Rank(v, b) <= Rank(u, c)
      <4>1. \A l, m \in Nat, g \in 0..2 : l < m => 3 * (l + 1) + 0 <= 3 * m + g OBVIOUS
      <4> QED BY <1>18, <2>5, <3>5, <3>6, <4>1 DEF Rank
    <3>11. ASSUME Rank(v, b) = Rank(u, c) PROVE c = b
      <4>1. Len(v.trail) = Len(u.trail) /\ Stage(b) = Stage(c)
        BY <1>9, <1>15, <2>3, <3>11, Ranks
      <4> QED BY <1>9, <1>15, <1>16, <2>3, <2>4, <2>6, <3>9, <4>1, SameSpot
    <3> QED BY <3>9, <3>10, <3>11
  <2>7. ASSUME x.id < p.id, Together(x, v, p, u)
        PROVE /\ Rank(u, c) <= Rank(v, b) /\ Rank(u, c) # Rank(v, b) /\ Prefix(u.trail, v.trail)
    <3>1. /\ w.slots \subseteq {s} /\ u.slots \subseteq {s}
          /\ p.from = f.from /\ p.dest = f.dest
      BY <1>5, <1>15, <2>7 DEF Together
    <3>2. Together(f, w, p, u) BY <3>1 DEF Together
    <3>3. Behind(w, a, 1, u, c, k)
      BY <1>5, <1>6, <1>9, <1>10, <1>13, <2>2, <2>3, <2>7, <3>2 DEF HeldOK, InOrder
    <3>4. Rank(u, c) <= Rank(w, a) /\ Prefix(u.trail, w.trail) BY <3>3 DEF Behind
    <3>5. Len(v.trail) = Len(w.trail) + 1
          /\ \A j \in DOMAIN w.trail : v.trail[j] = w.trail[j]
      BY <1>15, <3>1
    <3>6. Len(u.trail) <= Len(w.trail) BY <1>6, <1>9, <2>3, <3>4, Ranks
    <3>7. Prefix(u.trail, v.trail)
      <4>1. Len(u.trail) <= Len(v.trail) BY <1>18, <2>5, <3>5, <3>6
      <4>2. \A j \in DOMAIN u.trail : j \in DOMAIN w.trail BY <1>18, <2>5, <3>6
      <4> QED BY <3>4, <3>5, <4>1, <4>2 DEF Prefix
    <3>8. Rank(u, c) <= Rank(v, b) /\ Rank(u, c) # Rank(v, b)
      <4>1. \A l, m \in Nat, g \in 0..2 : 3 * m + g <= 3 * l + 1 =>
              3 * m + g <= 3 * (l + 1) + 0 /\ 3 * m + g # 3 * (l + 1) + 0
        OBVIOUS
      <4> QED BY <1>18, <2>5, <3>4, <3>5, <4>1 DEF Rank
    <3> QED BY <3>7, <3>8
  <2>8. FitsWith(p, u, c, x, v, b) BY <2>6, <2>7 DEF FitsWith
  <2> QED BY <2>2, <2>3, <2>8
<1>20. PICK W : W = way' /\ W[x.id] = v /\ \A id : id # x.id => W[id] = way[id]
  <2>1. x.id \in DOMAIN way BY <1>5 DEF TypeOK
  <2>2. way' = [way EXCEPT ![x.id] = v] BY <1>5, <1>8
  <2>3. /\ [way EXCEPT ![x.id] = v][x.id] = v
        /\ \A id : id # x.id => [way EXCEPT ![x.id] = v][id] = way[id]
    BY <2>1
  <2> QED BY <2>2, <2>3
<1>21. OnePlace(H) /\ SpotsOK(H, W) /\ InOrder(H, W)
  <2>1. IsNew(G, x) BY <1>5, <1>13 DEF IsNew
  <2> QED BY <1>9, <1>12, <1>13, <1>16, <1>17, <1>19, <1>20, <2>1, GiveKeeps
<1>22. \A c \in Spots : \A i \in DOMAIN H[c] : H[c][i].id <= packets
  <2>1. x.id <= packets BY <1>5, <1>9, <1>10, <1>13 DEF HeldOK
  <2>2. \A c \in Spots : \A i \in DOMAIN H[c] :
          \/ c = b /\ i = Len(G[b]) + 1 /\ H[c][i] = x
          \/ i \in DOMAIN G[c] /\ H[c][i] = G[c][i] /\ (c = b => i < Len(G[b]) + 1)
    <3>1. b \in Spots /\ H = With(G, b, x) /\ G \in [Spots -> Seq(Things)]
      BY <1>9, <1>12, <1>13, Zenon
    <3> QED BY <1>17, <3>1, GivenTo
  <2> QED BY <1>13, <2>1, <2>2, Zenon
<1> QED BY <1>1, <1>12, <1>20, <1>21, <1>22 DEF HeldOK

(* What a thread writes into the way of the packet that it sends on.       *)
LEMMA SentWay ==
  ASSUME TypeOK, WaysOK, HeldOK, NEW n \in Nodes, NEW q \in DestQueues, Forward(n, q)
  PROVE  \E f \in Things, w \in Ways, s \in Slots :
           /\ f.id \in Ids /\ f.id <= packets /\ w = way[f.id] /\ WayOK(w)
           /\ SpotOK(f, w, <<n, q>>) /\ way'[f.id] = Extended(w, n, s)
           /\ \A id \in Ids \ {f.id} : way'[id] = way[id]
<1>1. q \in Queues /\ queue[n][q] # <<>> BY SpotsAre DEF Forward
<1>2. PICK f \in Packets : f = queue[n][q][1] BY <1>1, HeadTyped
<1>3. PICK s \in Slots : s = topo[n] BY DEF TypeOK
<1>4. f \in Things /\ f.id \in Ids BY DEF Things, Packets
<1>5. PICK w \in Ways : w = way[f.id] /\ WayOK(w) BY <1>4 DEF TypeOK, Ways, WaysOK
<1>6. PICK v : v = Extended(w, n, s) OBVIOUS
<1>7. way' = [way EXCEPT ![f.id] = v]
  BY <1>2, <1>3, <1>5, <1>6 DEF Forward, Sent
<1>8. way'[f.id] = v /\ \A id \in Ids \ {f.id} : way'[id] = way[id]
  <2>1. f.id \in DOMAIN way BY <1>4 DEF TypeOK
  <2> QED BY <1>7, <2>1
<1>9. PICK a : a = <<n, q>> /\ a \in Spots BY <1>1, SpotsAre
<1>10. Held[a] = queue[n][q] /\ 1 \in DOMAIN Held[a] /\ Held[a][1] = f
  <2>1. Held[a] = queue[n][q] BY <1>1, <1>9, HeldAt
  <2>2. queue[n][q] \in Seq(Packets) BY <1>1 DEF TypeOK
  <2>3. 1 \in DOMAIN queue[n][q] BY <1>1, <2>2
  <2> QED BY <1>2, <2>1, <2>3
<1>11. f.id <= packets /\ SpotOK(f, w, a) BY <1>5, <1>9, <1>10 DEF HeldOK, SpotsOK
<1> QED BY <1>4, <1>5, <1>6, <1>8, <1>9, <1>11

(* A way is begun only by a packet that has been sent, and never crosses   *)
(* itself: the node that sends is nearer than those that sent before.      *)
LEMMA ForwardKeepsWays ==
  ASSUME TypeOK, WaysOK, HeldOK, NoLoops, NEW n \in Nodes, NEW q \in DestQueues, Forward(n, q)
  PROVE  WaysOK' /\ NoLoops'
<1>1. PICK f \in Things, w \in Ways, s \in Slots :
           /\ f.id \in Ids /\ f.id <= packets /\ w = way[f.id] /\ WayOK(w)
           /\ SpotOK(f, w, <<n, q>>) /\ way'[f.id] = Extended(w, n, s)
           /\ \A id \in Ids \ {f.id} : way'[id] = way[id]
  BY SentWay
<1>2. PICK v : v = Extended(w, n, s) OBVIOUS
<1>3. /\ v \in Ways /\ WayOK(v) /\ Len(v.trail) \in Nat
      /\ \A k \in DOMAIN v.trail :
           \/ k = Len(v.trail) /\ v.trail[k] = n
           \/ w.slot = s /\ k \in DOMAIN w.trail /\ v.trail[k] = w.trail[k]
  BY <1>1, <1>2, ExtendedWay
<1>4. packets' = packets BY DEF Forward
<1>5. WaysOK'
  <2> SUFFICES ASSUME NEW id \in Ids
               PROVE WayOK(way'[id]) /\ (packets' < id => way'[id] = NoWay)
    BY DEF WaysOK
  <2>1. CASE id = f.id
    <3>1. packets \in Nat /\ id \in Nat
      <4>1. packets \in 0..MaxPackets BY DEF TypeOK
      <4> QED BY <4>1, Sizes DEF Ids
    <3>2. \A y, z \in Nat : y <= z => ~(z < y) OBVIOUS
    <3> QED BY <1>1, <1>2, <1>3, <1>4, <2>1, <3>1, <3>2
  <2>2. CASE id # f.id BY <1>1, <1>4, <2>2 DEF WaysOK
  <2> QED BY <2>1, <2>2
<1>6. ASSUME NEW k \in DOMAIN v.trail, NEW l \in DOMAIN v.trail, k < l
      PROVE v.trail[k] # v.trail[l]
  <2>1. k \in 1 .. Len(v.trail) /\ l \in 1 .. Len(v.trail)
    <3>1. v.trail \in Seq(Nodes) BY <1>3 DEF Ways
    <3> QED BY <3>1
  <2>2. k # Len(v.trail)
    <3>1. \A x, y, z \in Nat : x < y /\ y <= z => x # z OBVIOUS
    <3> QED BY <1>3, <1>6, <2>1, <3>1
  <2>3. w.slot = s /\ k \in DOMAIN w.trail /\ v.trail[k] = w.trail[k] BY <1>3, <2>2
  <2>4. CASE l \in DOMAIN w.trail /\ v.trail[l] = w.trail[l]
    BY <1>1, <1>6, <2>3, <2>4 DEF NoLoops
  <2>5. CASE v.trail[l] = n
    <3>1. PICK D : D = Distance(s, f.dest) OBVIOUS
    <3>2. f.dest \in Nodes BY DEF Things, Packets, Frames
    <3>3. D[n] \in 0..NNodes BY <3>1, <3>2, DistanceFalls
    <3>4. w.trail # <<>> BY <2>3
    <3>5. PICK a : a = <<n, q>> /\ a[1] = n /\ a[2] = q /\ q # Wire /\ q # Out
      BY SpotsAre
    <3>6. D[n] < D[w.trail[k]]
      BY <1>1, <2>3, <3>1, <3>4, <3>5, Zenon DEF SpotOK, Nearer
    <3>7. \A y \in 0..NNodes : ~(y < y) BY Sizes
    <3> QED BY <2>3, <2>5, <3>3, <3>6, <3>7
  <2> QED BY <1>3, <2>4, <2>5
<1>7. NoLoops'
  <2> SUFFICES ASSUME NEW id \in Ids
               PROVE \A k, l \in DOMAIN way'[id].trail :
                       k < l => way'[id].trail[k] # way'[id].trail[l]
    BY DEF NoLoops
  <2>1. CASE id = f.id
    <3>1. way'[id] = v BY <1>1, <1>2, <2>1
    <3> QED BY <1>6, <3>1
  <2>2. CASE id # f.id BY <1>1, <2>2 DEF NoLoops
  <2> QED BY <2>1, <2>2
<1> QED BY <1>5, <1>7

(* The other steps leave the ways alone.                                   *)
LEMMA OthersKeepWays ==
  ASSUME TypeOK, WaysOK, NoLoops, UNCHANGED way, packets' = packets \/ packets' = packets + 1
  PROVE  WaysOK' /\ NoLoops'
<1>1. NoLoops' BY DEF NoLoops
<1>2. packets \in Nat
  <2>1. packets \in 0..MaxPackets BY DEF TypeOK
  <2> QED BY <2>1, Sizes
<1>3. \A id \in Ids : packets' < id => packets < id BY <1>2, Sizes DEF Ids
<1> QED BY <1>1, <1>3 DEF WaysOK

(* Every step keeps the invariant. *)
LEMMA InvStep == Inv /\ [Next]_vars => Inv'
<1> SUFFICES ASSUME Inv, [Next]_vars PROVE Inv' OBVIOUS
<1>1. TypeOK /\ WaysOK /\ HeldOK /\ NoLoops BY DEF Inv
<1>2. TypeOK' BY <1>1, TypeStep
<1>3. packets \in Nat /\ packets <= packets
  <2>1. packets \in 0..MaxPackets BY <1>1 DEF TypeOK
  <2> QED BY <2>1, Sizes
<1>4. ASSUME UNCHANGED <<packets, queue, wire, delivered, way>>
      PROVE  WaysOK' /\ HeldOK' /\ NoLoops'
  <2>1. Held' = Held BY <1>4 DEF Held
  <2> QED BY <1>1, <1>3, <1>4, <2>1, HeldSame, OthersKeepWays
<1>5. Tick => WaysOK' /\ HeldOK' /\ NoLoops' BY <1>4 DEF Tick
<1>6. UNCHANGED vars => WaysOK' /\ HeldOK' /\ NoLoops' BY <1>4 DEF vars
<1>7. ASSUME NEW n \in Nodes, ReadTime(n) PROVE WaysOK' /\ HeldOK' /\ NoLoops'
  BY <1>4, <1>7 DEF ReadTime
<1>8. ASSUME NEW n \in Nodes, NicReceive(n) PROVE WaysOK' /\ HeldOK' /\ NoLoops'
  <2>1. HeldOK' BY <1>1, <1>8, NicReceiveKeeps
  <2>2. UNCHANGED way /\ packets' = packets BY <1>8 DEF NicReceive
  <2> QED BY <1>1, <2>1, <2>2, OthersKeepWays
<1>9. ASSUME NEW n \in Nodes, Lose(n) PROVE WaysOK' /\ HeldOK' /\ NoLoops'
  <2>1. HeldOK' BY <1>1, <1>9, LoseKeeps
  <2>2. UNCHANGED way /\ packets' = packets BY <1>9 DEF Lose
  <2> QED BY <1>1, <2>1, <2>2, OthersKeepWays
<1>10. ASSUME NEW n \in Nodes, Deliver(n) PROVE WaysOK' /\ HeldOK' /\ NoLoops'
  <2>1. HeldOK' BY <1>1, <1>10, DeliverKeeps
  <2>2. UNCHANGED way /\ packets' = packets BY <1>10 DEF Deliver
  <2> QED BY <1>1, <2>1, <2>2, OthersKeepWays
<1>11. ASSUME NEW n \in Nodes, NEW d \in Nodes, VethReceive(n, d)
       PROVE WaysOK' /\ HeldOK' /\ NoLoops'
  <2>1. HeldOK' BY <1>1, <1>11, VethReceiveKeeps
  <2>2. UNCHANGED way /\ packets' = packets + 1 BY <1>11 DEF VethReceive
  <2> QED BY <1>1, <2>1, <2>2, OthersKeepWays
<1>12. ASSUME NEW n \in Nodes, NEW q \in DestQueues, Forward(n, q)
       PROVE WaysOK' /\ HeldOK' /\ NoLoops'
  BY <1>1, <1>12, ForwardKeeps, ForwardKeepsWays
<1> QED BY <1>2, <1>5, <1>6, <1>7, <1>8, <1>9, <1>10, <1>11, <1>12 DEF Inv, Next

(* It holds in every state. *)
LEMMA Invariant == Spec => []Inv
<1>1. Init => Inv BY TypeInit, InvInit DEF Inv
<1> QED BY <1>1, InvStep, PTL DEF Spec

-----------------------------------------------------------------------------
(* What follows. *)

(***************************************************************************)
(* Hops that were looked up in one slot never form a loop, although each   *)
(* node looks up its own and nothing limits the hop count.                 *)
(***************************************************************************)
THEOREM NeverLoops == Spec => []NoLoopInSlot
<1>1. Inv => NoLoopInSlot
  <2> SUFFICES ASSUME Inv, NEW id \in 1..packets PROVE id \in Ids
    BY DEF Inv, NoLoops, NoLoopInSlot
  <2>1. packets \in 0..MaxPackets BY DEF Inv, TypeOK
  <2> QED BY <2>1, Sizes DEF Ids
<1> QED BY <1>1, Invariant, PTL

(* A packet that was sent along by all nodes in one slot has gone the way  *)
(* to its end: one of its flow that was sent before it cannot have gone    *)
(* further, and has not stopped short of it.                               *)
LEMMA SentFirst ==
  ASSUME TypeOK, WaysOK, HeldOK, NEW n \in Nodes,
         NEW k \in DOMAIN delivered[n], NEW l \in DOMAIN delivered[n], k < l,
         NEW p, p = delivered[n][k], NEW r, r = delivered[n][l], p.from = r.from, OneSlot(p, r)
  PROVE  ~(r.id < p.id)
<1> SUFFICES ASSUME r.id < p.id PROVE FALSE OBVIOUS
<1>1. PICK e : e = <<n, Out>> /\ e \in Spots /\ e[1] = n /\ e[2] = Out /\ Held[e] = delivered[n]
  BY SpotsAre, HeldAt
<1>2. p \in Things /\ r \in Things /\ k \in Nat /\ l \in Nat
  <2>1. delivered[n] \in Seq(Packets) BY DEF TypeOK
  <2> QED BY <2>1 DEF Things
<1>3. PICK w \in Ways : w = way[p.id] /\ WayOK(w)
  BY <1>2, ThingIds DEF TypeOK, Ways, WaysOK
<1>4. PICK v \in Ways : v = way[r.id] /\ WayOK(v)
  BY <1>2, ThingIds DEF TypeOK, Ways, WaysOK
<1>5. SpotOK(p, w, e) /\ SpotOK(r, v, e) BY <1>1, <1>3, <1>4 DEF HeldOK, SpotsOK
<1>6. PICK s \in Slots : w.slots = {s} /\ v.slots = {s} BY <1>3, <1>4 DEF OneSlot
<1>7. p.dest = n /\ r.dest = n BY <1>1, <1>5 DEF SpotOK, InQueue
<1>8. w.trail # <<>> /\ v.trail # <<>> BY <1>1, <1>3, <1>4, <1>5, HasWay
<1>9. w.slot = s /\ v.slot = s /\ Last(w.trail) = w.trail[Len(w.trail)]
  <2>1. w.slot \in w.slots /\ v.slot \in v.slots BY <1>3, <1>4, <1>8, WayCases
  <2> QED BY <1>6, <2>1 DEF Last
<1>10. Behind(v, e, l, w, e, k)
  <2>1. Together(r, v, p, w) BY <1>6, <1>7 DEF Together
  <2> QED BY <1>1, <1>3, <1>4, <2>1 DEF HeldOK, InOrder
<1>11. Len(w.trail) < Len(v.trail) /\ Prefix(w.trail, v.trail)
  <2>1. \A y, z \in Nat : y < z => ~(z < y) OBVIOUS
  <2>2. Rank(w, e) # Rank(v, e) BY <1>2, <1>10, <2>1 DEF Behind
  <2>3. Len(w.trail) # Len(v.trail) BY <2>2 DEF Rank
  <2>4. /\ Len(w.trail) <= Len(v.trail) /\ Len(w.trail) \in Nat /\ Len(v.trail) \in Nat
    BY <1>1, <1>3, <1>4, <1>10, Ranks DEF Behind
  <2>5. \A y, z \in Nat : y <= z /\ y # z => y < z OBVIOUS
  <2> QED BY <1>10, <2>3, <2>4, <2>5 DEF Behind
<1>12. PICK h : /\ h = Len(w.trail) /\ h \in DOMAIN w.trail /\ h \in 1 .. Len(v.trail) - 1
                /\ h + 1 \in DOMAIN v.trail
  <2>1. Len(w.trail) \in Nat \ {0} /\ Len(w.trail) \in DOMAIN w.trail
    BY <1>3, <1>8, WayCases
  <2>2. v.trail \in Seq(Nodes) BY DEF Ways
  <2>3. Len(v.trail) \in Nat /\ DOMAIN v.trail = 1 .. Len(v.trail) BY <2>2
  <2>4. \A y \in Nat \ {0}, z \in Nat : y < z => y \in 1 .. z - 1 /\ y + 1 \in 1..z OBVIOUS
  <2> QED BY <1>11, <2>1, <2>3, <2>4
<1>13. Routes[Last(w.trail)][n][s] = n
  <2>1. Out # Wire BY SpotsAre
  <2> QED BY <1>1, <1>5, <1>7, <1>8, <1>9, <2>1 DEF SpotOK, OnTrail
<1>14. v.trail[h + 1] = Routes[v.trail[h]][n][s]
  <2>1. v.slots \subseteq {v.slot} BY <1>6, <1>9
  <2> QED BY <1>5, <1>7, <1>8, <1>9, <1>12, <2>1 DEF SpotOK, Followed
<1>15. v.trail[h] = Last(w.trail) BY <1>11, <1>12 DEF Prefix, Last
<1>16. v.trail[h + 1] # n BY <1>5, <1>7, <1>12 DEF SpotOK, OnTrail
<1> QED BY <1>13, <1>14, <1>15, <1>16

(***************************************************************************)
(* Packets of one flow that every node of their ways sent along in one and *)
(* the same slot are delivered in the order they were sent, each through   *)
(* its own queues, wires and threads.                                      *)
(***************************************************************************)
THEOREM StaysInOrder == Spec => []InOrderInSlot
<1>1. Inv => InOrderInSlot
  <2> SUFFICES ASSUME Inv, NEW n \in Nodes, NEW k \in DOMAIN delivered[n],
                      NEW l \in DOMAIN delivered[n], k < l,
                      delivered[n][k].from = delivered[n][l].from,
                      OneSlot(delivered[n][k], delivered[n][l])
               PROVE  delivered[n][k].id < delivered[n][l].id
    BY DEF InOrderInSlot
  <2>1. PICK p, r : p = delivered[n][k] /\ r = delivered[n][l] OBVIOUS
  <2>2. TypeOK /\ WaysOK /\ HeldOK BY DEF Inv
  <2>3. ~(r.id < p.id) BY <2>1, <2>2, SentFirst
  <2>4. p.id \in Nat /\ r.id \in Nat /\ k \in Nat /\ l \in Nat
    <3>1. delivered[n] \in Seq(Packets) BY <2>2 DEF TypeOK
    <3>2. p \in Things /\ r \in Things /\ k \in Nat /\ l \in Nat BY <2>1, <3>1 DEF Things
    <3> QED BY <3>2, ThingIds
  <2>5. r.id # p.id
    <3>1. PICK e : e = <<n, Out>> /\ e \in Spots /\ Held[e] = delivered[n]
      BY SpotsAre, HeldAt
    <3>2. k # l
      <4>1. \A y, z \in Nat : y < z => y # z OBVIOUS
      <4> QED BY <2>4, <4>1
    <3> QED BY <2>1, <2>2, <3>1, <3>2 DEF HeldOK, OnePlace
  <2>6. \A y, z \in Nat : ~(z < y) /\ z # y => y < z OBVIOUS
  <2> QED BY <2>1, <2>3, <2>4, <2>5, <2>6
<1> QED BY <1>1, Invariant, PTL

-----------------------------------------------------------------------------
(* Each node keeps the promise of Forwarder. *)

QueuesFit == \A n \in Nodes, q \in Queues : Len(queue[n][q]) <= QueueSize

(* A packet is put into a queue with room, or the queue stays.             *)
LEMMA PutFits ==
  ASSUME TypeOK, QueuesFit, NEW n \in Nodes, NEW q \in Queues, NEW p \in Packets, Put(n, q, p)
  PROVE  QueuesFit'
<1>1. CASE Len(queue[n][q]) < QueueSize
  <2>1. queue' = [queue EXCEPT ![n][q] = Append(@, p)] BY <1>1 DEF Put
  <2>2. Len(Append(queue[n][q], p)) <= QueueSize
    <3>1. queue[n][q] \in Seq(Packets) BY DEF TypeOK
    <3>2. Len(Append(queue[n][q], p)) = Len(queue[n][q]) + 1 /\ Len(queue[n][q]) \in Nat BY <3>1
    <3> QED BY <1>1, <3>2, Sizes
  <2>3. DOMAIN queue = Nodes /\ DOMAIN queue[n] = Queues BY DEF TypeOK
  <2>4. \A m \in Nodes, u \in Queues :
          queue'[m][u] = IF m = n /\ u = q THEN Append(queue[n][q], p) ELSE queue[m][u]
    BY <2>1, <2>3
  <2> QED BY <2>2, <2>4 DEF QueuesFit
<1>2. CASE ~(Len(queue[n][q]) < QueueSize) BY <1>2 DEF Put, QueuesFit
<1> QED BY <1>1, <1>2

(* A queue that loses its head is no longer than before.                   *)
LEMMA TailFits ==
  ASSUME TypeOK, QueuesFit, NEW n \in Nodes, NEW q \in Queues, queue[n][q] # <<>>,
         queue' = [queue EXCEPT ![n][q] = Tail(@)]
  PROVE  QueuesFit'
<1>1. Len(Tail(queue[n][q])) <= QueueSize
  <2>1. queue[n][q] \in Seq(Packets) /\ Len(queue[n][q]) <= QueueSize BY DEF TypeOK, QueuesFit
  <2>2. Len(Tail(queue[n][q])) = Len(queue[n][q]) - 1 /\ Len(queue[n][q]) \in Nat BY <2>1
  <2> QED BY <2>1, <2>2, Sizes
<1>2. DOMAIN queue = Nodes /\ DOMAIN queue[n] = Queues BY DEF TypeOK
<1>3. \A m \in Nodes, u \in Queues :
        queue'[m][u] = IF m = n /\ u = q THEN Tail(queue[n][q]) ELSE queue[m][u]
  BY <1>2
<1> QED BY <1>1, <1>3 DEF QueuesFit

(* The arguments with which receiving actions call Put.                    *)
LEMMA VethPuts ==
  ASSUME TypeOK, NEW n \in Nodes, NEW d \in Nodes, VethReceive(n, d)
  PROVE  \E p \in Packets, q \in Queues :
           /\ Put(n, q, p) /\ p.dest = d /\ d # n /\ p.ns = 0 /\ q = <<"local", d>>
<1>1. packets + 1 \in Ids
  <2>1. packets \in 0..MaxPackets /\ packets < MaxPackets BY DEF TypeOK, VethReceive
  <2> QED BY <2>1, Sizes DEF Ids
<1>2. PICK p \in Packets : p = [id |-> packets + 1, from |-> n, dest |-> d, ns |-> 0]
  BY <1>1 DEF Packets
<1>3. PICK q \in Queues : q = <<"local", d>> BY DEF Queues
<1>4. Put(n, q, p) /\ d # n BY <1>2, <1>3 DEF VethReceive
<1> QED BY <1>2, <1>3, <1>4

(* What arrives is pushed on the queue of its destination. *)
LEMMA NicPuts ==
  ASSUME TypeOK, NEW n \in Nodes, NicReceive(n)
  PROVE  \E f \in Frames, p \in Packets, q \in Queues :
           /\ f = wire[n][1] /\ wire[n] # <<>> /\ f.hop \in Nodes /\ Put(f.hop, q, p)
           /\ p.dest = f.dest /\ p.ns = 0
           /\ q = IF p.dest = f.hop THEN <<"veth", 0>> ELSE <<"transit", p.dest>>
<1>1. PICK f \in Frames : f = Head(wire[n]) /\ f = wire[n][1] /\ wire[n] # <<>>
  BY WireTyped DEF NicReceive
<1>2. PICK p \in Packets : p = [id |-> f.id, from |-> f.from, dest |-> f.dest, ns |-> f.ns]
  BY DEF Frames, Packets
<1>3. f.hop \in Nodes /\ Put(f.hop, QueueAt(f.hop, f), p)
  BY <1>1, <1>2 DEF NicReceive
<1>4. p.dest = f.dest /\ p.ns = 0 /\ f.dest \in Nodes BY <1>2 DEF Frames
<1>5. PICK q \in Queues : q = QueueAt(f.hop, f) BY <1>4 DEF QueueAt, Queues
<1>6. q = IF p.dest = f.hop THEN <<"veth", 0>> ELSE <<"transit", p.dest>>
  BY <1>4, <1>5 DEF QueueAt
<1> QED BY <1>1, <1>3, <1>4, <1>5, <1>6

(* Every step keeps the queues within their size. *)
LEMMA FitStep == TypeOK /\ QueuesFit /\ [Next]_vars => QueuesFit'
<1> SUFFICES ASSUME TypeOK, QueuesFit, [Next]_vars PROVE QueuesFit' OBVIOUS
<1>1. ASSUME UNCHANGED queue PROVE QueuesFit' BY <1>1 DEF QueuesFit
<1>2. Tick => QueuesFit' BY <1>1 DEF Tick
<1>3. UNCHANGED vars => QueuesFit' BY <1>1 DEF vars
<1>4. ASSUME NEW n \in Nodes, ReadTime(n) PROVE QueuesFit' BY <1>1, <1>4 DEF ReadTime
<1>5. ASSUME NEW n \in Nodes, NicReceive(n) PROVE QueuesFit'
  <2>1. PICK m \in Nodes, q \in Queues, p \in Packets : Put(m, q, p) BY <1>5, NicPuts
  <2> QED BY <2>1, PutFits
<1>6. ASSUME NEW n \in Nodes, Lose(n) PROVE QueuesFit' BY <1>1, <1>6 DEF Lose
<1>7. ASSUME NEW n \in Nodes, Deliver(n) PROVE QueuesFit'
  <2>1. Veth \in Queues BY SpotsAre
  <2>2. queue[n][Veth] # <<>> /\ queue' = [queue EXCEPT ![n][Veth] = Tail(@)]
    BY <1>7 DEF Deliver, Veth
  <2> QED BY <2>1, <2>2, TailFits
<1>8. ASSUME NEW n \in Nodes, NEW d \in Nodes, VethReceive(n, d) PROVE QueuesFit'
  <2>1. PICK q \in Queues, p \in Packets : Put(n, q, p) BY <1>8, VethPuts
  <2> QED BY <2>1, PutFits
<1>9. ASSUME NEW n \in Nodes, NEW q \in DestQueues, Forward(n, q) PROVE QueuesFit'
  <2>1. q \in Queues BY SpotsAre
  <2>2. queue[n][q] # <<>> /\ queue' = [queue EXCEPT ![n][q] = Tail(@)]
    BY <1>9 DEF Forward
  <2> QED BY <2>1, <2>2, TailFits
<1> QED BY <1>2, <1>3, <1>4, <1>5, <1>6, <1>7, <1>8, <1>9 DEF Next

(* They are in every state. *)
LEMMA FitInvariant == Spec => []QueuesFit
<1>1. Init => QueuesFit
  <2> SUFFICES ASSUME Init, NEW n \in Nodes, NEW q \in Queues
               PROVE Len(queue[n][q]) <= QueueSize
    BY DEF QueuesFit
  <2>1. queue[n][q] = <<>> BY DEF Init
  <2>2. Len(queue[n][q]) = 0 BY <2>1
  <2> QED BY <2>2, Sizes
<1> QED BY <1>1, FitStep, NetworkTyped, PTL DEF Spec

(* The outlets of a node.                                                  *)
Net == <<"nic", 0>>
OutOf(x, y) == [o \in {Net, Veth} |-> IF o[1] = "nic" THEN x ELSE y]
Gets(f, o, x) == [f EXCEPT ![o] = x]

(* The two outlets of a node. *)
LEMMA Outlets ==
  \A x, y, v : /\ OutOf(x, y)[Net] = x /\ OutOf(x, y)[Veth] = y
               /\ Gets(OutOf(x, y), Net, v) = OutOf(v, y)
               /\ Gets(OutOf(x, y), Veth, v) = OutOf(x, v)
<1> SUFFICES ASSUME NEW x, NEW y, NEW v
             PROVE  /\ OutOf(x, y)[Net] = x /\ OutOf(x, y)[Veth] = y
                    /\ Gets(OutOf(x, y), Net, v) = OutOf(v, y)
                    /\ Gets(OutOf(x, y), Veth, v) = OutOf(x, v)
  OBVIOUS
<1>1. PICK a, b : a = Net /\ b = Veth OBVIOUS
<1>2. a[1] = "nic" /\ b[1] # "nic" /\ a # b BY <1>1 DEF Veth, Net
<1>3. \A z, w : OutOf(z, w) = [o \in {a, b} |-> IF o = a THEN z ELSE w]
  BY <1>1, <1>2 DEF OutOf
<1>4. \A z, w : OutOf(z, w)[a] = z /\ OutOf(z, w)[b] = w BY <1>2, <1>3
<1>5. [OutOf(x, y) EXCEPT ![a] = v] = OutOf(v, y) BY <1>2, <1>3
<1>6. [OutOf(x, y) EXCEPT ![b] = v] = OutOf(x, v) BY <1>2, <1>3
<1> QED BY <1>1, <1>4, <1>5, <1>6 DEF Gets

(* A node that nothing happens to.                                         *)
LEMMA NodeRests ==
  ASSUME NEW n \in Nodes,
         UNCHANGED <<topo[n], queue[n], refused[n], wire[n], delivered[n]>>
  PROVE  [Node(n)!Next]_(Node(n)!vars)
BY DEF Node!vars

(* A packet is put into, or refused by, the queue of its destination.      *)
LEMMA NodeReceives ==
  ASSUME TypeOK, QueuesFit, NEW n \in Nodes, NEW p \in Packets, NEW q \in Queues,
         q \in Node(n)!Places(p), Put(n, q, p),
         UNCHANGED <<topo[n], wire[n], delivered[n]>>
  PROVE  [Node(n)!Next]_(Node(n)!vars)
<1>1. n \in DOMAIN queue /\ n \in DOMAIN refused BY DEF TypeOK
<1>2. CASE Len(queue[n][q]) < QueueSize
  <2>1. queue' = [queue EXCEPT ![n][q] = Append(@, p)] /\ refused' = refused
    BY <1>2 DEF Put
  <2>2. queue'[n] = [queue[n] EXCEPT ![q] = Append(@, p)] /\ refused'[n] = refused[n]
    BY <1>1, <2>1
  <2>3. Node(n)!Accept(p) BY <1>2, <2>2 DEF Node!Accept
  <2> QED BY <2>3 DEF Node!Next, Node!Receive
<1>3. CASE ~(Len(queue[n][q]) < QueueSize)
  <2>1. refused' = [refused EXCEPT ![n] = @ \cup {p.id}] /\ queue' = queue BY <1>3 DEF Put
  <2>2. refused'[n] = refused[n] \cup {p.id} /\ queue'[n] = queue[n] BY <1>1, <2>1
  <2>3. Len(queue[n][q]) = QueueSize
    <3>1. queue[n][q] \in Seq(Packets) /\ Len(queue[n][q]) <= QueueSize
      BY DEF TypeOK, QueuesFit
    <3> QED BY <1>3, <3>1, Sizes
  <2>4. Node(n)!Refuse(p) BY <2>2, <2>3 DEF Node!Refuse
  <2> QED BY <2>4 DEF Node!Next, Node!Receive
<1> QED BY <1>2, <1>3

(* A push at one node is none at another. *)
LEMMA PutElsewhere ==
  ASSUME TypeOK, NEW m \in Nodes, NEW q, NEW p, Put(m, q, p), NEW n \in Nodes, n # m
  PROVE  UNCHANGED <<queue[n], refused[n]>>
<1>1. DOMAIN queue = Nodes /\ DOMAIN refused = Nodes BY DEF TypeOK
<1> QED BY <1>1 DEF Put

(* The network takes a frame, or loses it.                                 *)
LEMMA NodeGives ==
  ASSUME TypeOK, NEW n \in Nodes, wire[n] # <<>>, wire' = [wire EXCEPT ![n] = Tail(@)],
         UNCHANGED <<topo[n], queue[n], refused[n], delivered[n]>>
  PROVE  [Node(n)!Next]_(Node(n)!vars)
<1>1. wire'[n] = Tail(wire[n]) /\ delivered'[n] = delivered[n] BY DEF TypeOK
<1>2. /\ OutOf(wire[n], delivered[n])[Net] = wire[n]
      /\ Gets(OutOf(wire[n], delivered[n]), Net, Tail(wire[n]))
           = OutOf(Tail(wire[n]), delivered[n])
  BY Outlets
<1>3. OutOf(wire'[n], delivered'[n]) = [OutOf(wire[n], delivered[n]) EXCEPT ![Net] = Tail(@)]
  <2>1. OutOf(wire'[n], delivered'[n]) = OutOf(Tail(wire[n]), delivered[n]) BY <1>1
  <2> QED BY <1>2, <2>1, Zenon DEF Gets
<1>4. Node(n)!Take(Net) BY <1>2, <1>3 DEF Node!Take, OutOf, Veth, Net
<1>5. Net \in DOMAIN OutOf(wire[n], delivered[n]) BY DEF OutOf
<1> QED BY <1>4, <1>5 DEF Node!Next, OutOf, Veth, Net

(* A thread sends from the head of a queue to the network.                 *)
LEMMA NodeForwards ==
  ASSUME TypeOK, HeldOK, NEW n \in Nodes, NEW q \in DestQueues, Forward(n, q)
  PROVE  [Node(n)!Next]_(Node(n)!vars)
<1>1. q \in Queues /\ queue[n][q] # <<>> BY SpotsAre DEF Forward
<1>2. PICK f \in Packets : f = Head(queue[n][q]) /\ f = queue[n][q][1] BY <1>1, HeadTyped
<1>3. f.dest = q[2] /\ topo[n] \in Slots
  <2>1. PICK a : a = <<n, q>> /\ a \in Spots /\ a[2] = q /\ Held[a] = queue[n][q]
    <3>1. <<n, q>> \in Spots /\ Held[<<n, q>>] = queue[n][q]
      BY <1>1, SpotsAre, HeldAt, Zenon
    <3> QED BY <3>1
  <2>2. 1 \in DOMAIN Held[a]
    <3>1. queue[n][q] \in Seq(Packets) BY <1>1 DEF TypeOK
    <3> QED BY <1>1, <2>1, <3>1
  <2>3. SpotOK(f, way[f.id], a) BY <1>2, <2>1, <2>2 DEF HeldOK, SpotsOK
  <2> QED BY <2>1, <2>3 DEF SpotOK, InQueue, TypeOK
<1>4. PICK x : x = [id |-> f.id, from |-> f.from, dest |-> f.dest, ns |-> f.ns,
                    slot |-> topo[n], hop |-> Routes[n][f.dest][topo[n]]]
  OBVIOUS
<1>5. /\ wire' = [wire EXCEPT ![n] = Append(@, x)] /\ queue' = [queue EXCEPT ![n][q] = Tail(@)]
      /\ UNCHANGED <<topo, refused, delivered>>
  BY <1>2, <1>3, <1>4 DEF Forward, Sent
<1>6. wire'[n] = Append(wire[n], x) /\ queue'[n] = [queue[n] EXCEPT ![q] = Tail(@)]
  BY <1>5 DEF TypeOK
<1>7. x = Node(n)!Framed(Head(queue[n][q])) BY <1>2, <1>3, <1>4 DEF Node!Framed
<1>9. OutOf(wire'[n], delivered'[n]) = [OutOf(wire[n], delivered[n]) EXCEPT ![Net] = Append(@, x)]
  <2>1. /\ OutOf(wire[n], delivered[n])[Net] = wire[n]
        /\ Gets(OutOf(wire[n], delivered[n]), Net, Append(wire[n], x))
             = OutOf(Append(wire[n], x), delivered[n])
    BY Outlets
  <2>2. delivered'[n] = delivered[n] BY <1>5
  <2>3. OutOf(wire'[n], delivered'[n]) = OutOf(Append(wire[n], x), delivered[n])
    BY <1>6, <2>2
  <2> QED BY <2>1, <2>3, Zenon DEF Gets
<1>10. q \notin Node(n)!VethQueues BY DEF Node!VethQueues, DestQueues
<1>11. Node(n)!Send(q)
  <2>1. UNCHANGED <<topo[n], refused[n]>> BY <1>5
  <2> QED BY <1>1, <1>6, <1>7, <1>9, <1>10, <2>1 DEF Node!Send, Node!Nic, OutOf, Veth, Net
<1>12. q \in DOMAIN queue[n] BY <1>1 DEF TypeOK
<1> QED BY <1>11, <1>12 DEF Node!Next

(* A namespace is given the head of its queue.                             *)
LEMMA NodeDelivers ==
  ASSUME TypeOK, NEW n \in Nodes, Deliver(n)
  PROVE  [Node(n)!Next]_(Node(n)!vars)
<1>1. Veth \in Queues /\ queue[n][Veth] # <<>> BY SpotsAre DEF Deliver, Veth
<1>2. PICK f : f = Head(queue[n][Veth]) OBVIOUS
<1>3. /\ delivered' = [delivered EXCEPT ![n] = Append(@, f)]
      /\ queue' = [queue EXCEPT ![n][Veth] = Tail(@)]
      /\ UNCHANGED <<topo, refused, wire>>
  BY <1>2 DEF Deliver, Veth
<1>4. /\ delivered'[n] = Append(delivered[n], f)
      /\ queue'[n] = [queue[n] EXCEPT ![Veth] = Tail(@)]
  BY <1>3 DEF TypeOK
<1>5. OutOf(wire'[n], delivered'[n]) = [OutOf(wire[n], delivered[n]) EXCEPT ![Veth] = Append(@, f)]
  <2>1. /\ OutOf(wire[n], delivered[n])[Veth] = delivered[n]
        /\ Gets(OutOf(wire[n], delivered[n]), Veth, Append(delivered[n], f))
             = OutOf(wire[n], Append(delivered[n], f))
    BY Outlets
  <2>2. wire'[n] = wire[n] BY <1>3
  <2>3. OutOf(wire'[n], delivered'[n]) = OutOf(wire[n], Append(delivered[n], f))
    BY <1>4, <2>2
  <2> QED BY <2>1, <2>3, Zenon DEF Gets
<1>6. Veth \in Node(n)!VethQueues BY DEF Node!VethQueues, Veth
<1>7. Node(n)!Send(Veth)
  <2>1. UNCHANGED <<topo[n], refused[n]>> BY <1>3
  <2> QED BY <1>1, <1>2, <1>4, <1>5, <1>6, <2>1 DEF Node!Send, OutOf, Veth, Net
<1>8. Veth \in DOMAIN queue[n] BY <1>1 DEF TypeOK
<1> QED BY <1>7, <1>8 DEF Node!Next

(* No node is its own next hop: what a node takes in, another has sent.    *)
LEMMA NeverToItself ==
  ASSUME TypeOK, WaysOK, HeldOK, NEW n \in Nodes, wire[n] # <<>>, wire[n][1].hop \in Nodes
  PROVE  wire[n][1].hop # n
<1>1. PICK f \in Frames : f = wire[n][1] BY WireTyped
<1>2. PICK a : a = <<n, Wire>> /\ a \in Spots /\ a[1] = n /\ a[2] = Wire /\ Held[a] = wire[n]
  BY SpotsAre, HeldAt
<1>3. PICK w \in Ways : w = way[f.id] /\ WayOK(w) BY DEF Frames, TypeOK, Ways, WaysOK
<1>4. SpotOK(f, w, a)
  <2>1. wire[n] \in Seq(Frames) BY DEF TypeOK
  <2>2. 1 \in DOMAIN wire[n] BY <2>1
  <2> QED BY <1>1, <1>2, <1>3, <2>2 DEF HeldOK, SpotsOK
<1>5. w.trail # <<>> BY <1>2, <1>4, HasWay
<1>6. Len(w.trail) \in DOMAIN w.trail /\ w.trail[Len(w.trail)] = n
  <2>1. Len(w.trail) \in DOMAIN w.trail BY <1>3, <1>5, WayCases
  <2>2. n = Last(w.trail) BY <1>2, <1>4, <1>5 DEF SpotOK, OnTrail
  <2> QED BY <2>1, <2>2 DEF Last
<1>7. PICK D : D = Distance(w.slot, f.dest) OBVIOUS
<1>8. D[f.hop] < D[n]
  <2>1. Wire # Out BY SpotsAre
  <2> QED BY <1>2, <1>4, <1>5, <1>6, <1>7, <2>1 DEF SpotOK, Nearer
<1>9. D[n] \in 0..NNodes
  <2>1. w.slot \in Slots BY <1>3, <1>5, WayCases
  <2>2. f.dest \in Nodes BY DEF Frames
  <2> QED BY <1>7, <2>1, <2>2, DistanceFalls
<1>10. \A y \in 0..NNodes : ~(y < y) BY Sizes
<1> QED BY <1>1, <1>8, <1>9, <1>10

(* Every step of the network is one of a Forwarder, or a stutter, at each node. *)
LEMMA NodesStep ==
  ASSUME TypeOK, WaysOK, HeldOK, QueuesFit, [Next]_vars, NEW n \in Nodes
  PROVE  [Node(n)!Next]_(Node(n)!vars)
<1>1. Tick \/ UNCHANGED vars => [Node(n)!Next]_(Node(n)!vars)
  BY NodeRests DEF Tick, vars
<1>2. ASSUME NEW m \in Nodes, ReadTime(m) PROVE [Node(n)!Next]_(Node(n)!vars)
  <2>1. UNCHANGED <<queue, refused, wire, delivered>> /\ topo' = [topo EXCEPT ![m] = SlotAt(now)]
    BY <1>2 DEF ReadTime
  <2>2. CASE m = n
    <3>1. now \in Nat
      <4>1. now \in 0..MaxNow BY DEF TypeOK
      <4> QED BY <4>1, Sizes
    <3>2. topo'[n] \in Slots BY <2>1, <2>2, <3>1, SlotInCycle DEF TypeOK
    <3>3. Node(n)!ReadTime BY <2>1, <3>2 DEF Node!ReadTime
    <3> QED BY <3>3 DEF Node!Next
  <2>3. CASE m # n
    <3>1. topo'[n] = topo[n] BY <2>1, <2>3 DEF TypeOK
    <3> QED BY <2>1, <3>1, NodeRests
  <2> QED BY <2>2, <2>3
<1>3. ASSUME NEW m \in Nodes, NicReceive(m) PROVE [Node(n)!Next]_(Node(n)!vars)
  <2>1. PICK f \in Frames, p \in Packets, q \in Queues :
          /\ f = wire[m][1] /\ wire[m] # <<>> /\ f.hop \in Nodes /\ Put(f.hop, q, p)
          /\ p.dest = f.dest /\ p.ns = 0
          /\ q = IF p.dest = f.hop THEN <<"veth", 0>> ELSE <<"transit", p.dest>>
    BY <1>3, NicPuts
  <2>2. f.hop # m BY <2>1, NeverToItself
  <2>3. wire' = [wire EXCEPT ![m] = Tail(@)] /\ UNCHANGED <<topo, delivered>>
    BY <1>3 DEF NicReceive
  <2>4. CASE n = f.hop
    <3>1. q \in Node(n)!Places(p) BY <2>1, <2>4 DEF Node!Places
    <3>2. wire'[n] = wire[n] BY <2>2, <2>3, <2>4 DEF TypeOK
    <3> QED BY <2>1, <2>3, <2>4, <3>1, <3>2, NodeReceives
  <2>5. CASE n = m
    <3>1. UNCHANGED <<queue[n], refused[n]>> BY <2>1, <2>2, <2>5, PutElsewhere
    <3> QED BY <2>1, <2>3, <2>5, <3>1, NodeGives
  <2>6. CASE n # m /\ n # f.hop
    <3>1. UNCHANGED <<queue[n], refused[n]>> BY <2>1, <2>6, PutElsewhere
    <3>2. wire'[n] = wire[n] BY <2>3, <2>6 DEF TypeOK
    <3> QED BY <2>3, <3>1, <3>2, NodeRests
  <2> QED BY <2>4, <2>5, <2>6
<1>4. ASSUME NEW m \in Nodes, Lose(m) PROVE [Node(n)!Next]_(Node(n)!vars)
  <2>1. /\ wire[m] # <<>> /\ wire' = [wire EXCEPT ![m] = Tail(@)]
        /\ UNCHANGED <<topo, queue, refused, delivered>>
    BY <1>4 DEF Lose
  <2>2. CASE m = n BY <2>1, <2>2, NodeGives
  <2>3. CASE m # n
    <3>1. wire'[n] = wire[n] BY <2>1, <2>3 DEF TypeOK
    <3> QED BY <2>1, <3>1, NodeRests
  <2> QED BY <2>2, <2>3
<1>5. ASSUME NEW m \in Nodes, Deliver(m) PROVE [Node(n)!Next]_(Node(n)!vars)
  <2>1. CASE m = n BY <1>5, <2>1, NodeDelivers
  <2>2. CASE m # n
    <3>1. UNCHANGED <<topo, refused, wire>> BY <1>5 DEF Deliver
    <3>2. queue'[n] = queue[n] /\ delivered'[n] = delivered[n]
      BY <1>5, <2>2 DEF Deliver, TypeOK
    <3> QED BY <3>1, <3>2, NodeRests
  <2> QED BY <2>1, <2>2
<1>6. ASSUME NEW m \in Nodes, NEW d \in Nodes, VethReceive(m, d)
      PROVE [Node(n)!Next]_(Node(n)!vars)
  <2>1. PICK p \in Packets, q \in Queues :
          /\ Put(m, q, p) /\ p.dest = d /\ d # m /\ p.ns = 0 /\ q = <<"local", d>>
    BY <1>6, VethPuts
  <2>2. UNCHANGED <<topo, wire, delivered>> BY <1>6 DEF VethReceive
  <2>3. CASE m = n
    <3>1. q \in Node(n)!Places(p) BY <2>1, <2>3 DEF Node!Places
    <3> QED BY <2>1, <2>2, <2>3, <3>1, NodeReceives
  <2>4. CASE m # n
    <3>1. UNCHANGED <<queue[n], refused[n]>> BY <2>1, <2>4, PutElsewhere
    <3> QED BY <2>2, <3>1, NodeRests
  <2> QED BY <2>3, <2>4
<1>7. ASSUME NEW m \in Nodes, NEW q \in DestQueues, Forward(m, q)
      PROVE [Node(n)!Next]_(Node(n)!vars)
  <2>1. CASE m = n BY <1>7, <2>1, NodeForwards
  <2>2. CASE m # n
    <3>1. UNCHANGED <<topo, refused, delivered>> BY <1>7 DEF Forward
    <3>2. queue'[n] = queue[n] /\ wire'[n] = wire[n]
      BY <1>7, <2>2 DEF Forward, Sent, TypeOK
    <3> QED BY <3>1, <3>2, NodeRests
  <2> QED BY <2>1, <2>2
<1> QED BY <1>1, <1>2, <1>3, <1>4, <1>5, <1>6, <1>7 DEF Next

(* Each node starts as a Forwarder. *)
LEMMA NodesInit == Init => \A n \in Nodes : Node(n)!Init
<1> SUFFICES ASSUME Init, NEW n \in Nodes PROVE Node(n)!Init OBVIOUS
<1>1. topo[n] \in Slots \cup {0} BY Sizes DEF Init
<1>2. {"veth"} \X {0} = {<<"veth", 0>>} OBVIOUS
<1>3. queue[n] = [q \in ({"local", "transit"} \X Nodes) \cup ({"veth"} \X {0}) |-> <<>>]
  BY <1>2 DEF Init, Queues
<1>4. [o \in {<<"nic", 0>>, <<"veth", 0>>} |-> IF o[1] = "nic" THEN wire[n] ELSE delivered[n]]
        = [o \in {<<"nic", 0>>} \cup ({"veth"} \X {0}) |-> <<>>]
  BY <1>2 DEF Init
<1>5. refused[n] = {} BY DEF Init
<1> QED BY <1>1, <1>3, <1>4, <1>5
        DEF Node!Init, Node!DestQueues, Node!VethQueues, Node!Nic

(***************************************************************************)
(* Each node, seen alone, starts and steps as Forwarder promises, whatever *)
(* the others do: one FIFO per side and destination, refused only when     *)
(* full, sent from the head with the next hop of its own destination.      *)
(***************************************************************************)
THEOREM NodesAreForwarders == Spec => NodesKeepPromise
<1>1. Inv /\ QueuesFit /\ [Next]_vars => \A n \in Nodes : [Node(n)!Next]_(Node(n)!vars)
  BY NodesStep DEF Inv
<1>2. Spec => [](Inv /\ QueuesFit) BY Invariant, FitInvariant, PTL
<1>3. Spec => [][\A n \in Nodes : [Node(n)!Next]_(Node(n)!vars)]_vars
  BY <1>1, <1>2, PTL DEF Spec
<1>4. Spec => \A n \in Nodes : Node(n)!Init BY NodesInit DEF Spec
<1> QED BY <1>3, <1>4 DEF NodesKeepPromise
=============================================================================
