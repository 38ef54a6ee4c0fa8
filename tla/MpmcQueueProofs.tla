-------------------------- MODULE MpmcQueueProofs ---------------------------
(***************************************************************************)
(* What MpmcQueue.tla says of the ring, for every number of producers and  *)
(* consumers, every size of at least two cells and every number of pushes. *)
(***************************************************************************)
EXTENDS MpmcQueue, Integers, SequenceTheorems, TLAPS

-----------------------------------------------------------------------------
(* Cells of positions.  Everything below uses Cell through these facts.    *)

(* A position has a cell. *)
LEMMA CellType == ASSUME NEW p \in Nat PROVE Cell(p) \in Cells
BY SizeAssumption DEF Cell, Cells

(* A product with a natural number that is below its other factor. *)
LEMMA SmallMultiple ==
  ASSUME NEW n \in Nat, n >= 1, NEW k \in Int, k >= 1
  PROVE  n <= n * k
<1>1. PICK j \in Nat : k = j + 1
  BY k - 1 \in Nat
<1>2. n * k = n * j + n
  BY <1>1, SMT
<1>3. n * j >= 0
  BY <1>1, SMT
<1> QED BY <1>2, <1>3, SMT

(* Two different positions in one cell are at least a lap apart. *)
LEMMA SameCell ==
  ASSUME NEW p \in Nat, NEW q \in Nat, Cell(p) = Cell(q), p < q
  PROVE  p + Size <= q
<1> DEFINE a == p \div Size
           b == q \div Size
<1>1. a \in Int /\ b \in Int /\ Size \in Nat /\ Size >= 1
  BY SizeAssumption
<1>2. p = Size * a + Cell(p) /\ q = Size * b + Cell(q)
  BY SizeAssumption, SMT DEF Cell
<1>3. q - p = Size * (b - a)
  BY <1>1, <1>2, CellType, SMT DEF Cells
<1>4. b - a >= 1
  BY <1>1, <1>3, SMT
<1> QED BY <1>1, <1>3, <1>4, SmallMultiple

(* A lap later the cell is the same. *)
LEMMA NextLap == ASSUME NEW p \in Nat PROVE Cell(p + Size) = Cell(p)
<1> DEFINE a == p \div Size
           b == (p + Size) \div Size
           k == b - (a + 1)
           r == Cell(p)
           s == Cell(p + Size)
<1>1. a \in Int /\ b \in Int /\ k \in Int /\ Size \in Nat /\ Size >= 1
  BY SizeAssumption
<1>2. r \in 0 .. Size - 1 /\ s \in 0 .. Size - 1
  BY SizeAssumption, CellType DEF Cells
<1>3. p = Size * a + r /\ p + Size = Size * b + s
  BY SizeAssumption, SMT DEF Cell
<1> HIDE DEF a, b, r, s
<1>4. r - s = Size * k
  BY <1>1, <1>2, <1>3, SMT
<1>5. k < 1
  <2> SUFFICES ASSUME k >= 1 PROVE FALSE
    BY <1>1
  <2>1. Size <= Size * k
    BY <1>1, SmallMultiple
  <2> QED BY <2>1, <1>1, <1>2, <1>4
<1>6. -k < 1
  <2> SUFFICES ASSUME -k >= 1 PROVE FALSE
    BY <1>1
  <2>1. Size <= Size * (-k) /\ Size * (-k) = s - r
    BY <1>1, <1>2, <1>4, SmallMultiple
  <2> QED BY <2>1, <1>1, <1>2
<1>7. k = 0
  BY <1>1, <1>5, <1>6
<1> QED BY <1>1, <1>2, <1>4, <1>7 DEF r, s

(* The first positions are the cells themselves. *)
LEMMA OwnCell == ASSUME NEW i \in Cells PROVE Cell(i) = i /\ i \in Nat /\ i < Size
BY SizeAssumption, SMT DEF Cell, Cells
-----------------------------------------------------------------------------
(***************************************************************************)
(* Types.                                                                  *)
(***************************************************************************)
LEMMA TypeInit == Init => TypeOK
BY SizeAssumption, BoundAssumption, ThreadsAssumption
   DEF Init, TypeOK, Cells, Threads

(* Every step keeps the types. *)
LEMMA TypeStep == TypeOK /\ [Next]_vars => TypeOK'
<1> SUFFICES ASSUME TypeOK, [Next]_vars PROVE TypeOK'
  OBVIOUS
<1> USE SizeAssumption, BoundAssumption, ThreadsAssumption DEF TypeOK, Threads, Goto
<1>0. \A t \in Threads : Cell(pos[t]) \in Cells
  BY CellType
<1>1. ASSUME NEW t \in Producers, StartPush(t) PROVE TypeOK'
  BY <1>1 DEF StartPush, InHand, Item
<1>2. ASSUME NEW t \in Producers, PushStep(t) PROVE TypeOK'
  <2>1. CASE PushFree(t) BY <2>1 DEF PushFree, InHand
  <2>2. CASE PushFull(t) BY <2>2 DEF PushFull, InHand
  <2>3. CASE PushBehind(t) BY <2>3 DEF PushBehind, InHand
  <2>4. CASE PushReload(t) BY <2>4 DEF PushReload, InHand
  <2>5. CASE PushClaim(t) BY <2>5 DEF PushClaim, InHand
  <2>6. CASE PushLost(t) BY <2>6 DEF PushLost, InHand
  <2>7. CASE PushWrite(t) BY <1>0, <2>7 DEF PushWrite, InHand
  <2>8. CASE PushPublish(t) BY <1>0, <2>8 DEF PushPublish, InHand
  <2> QED BY <1>2, <2>1, <2>2, <2>3, <2>4, <2>5, <2>6, <2>7, <2>8 DEF PushStep
<1>3. ASSUME NEW c \in Consumers, Poll(c) PROVE TypeOK'
  BY <1>3 DEF Poll, LoadTailFirst, LoadHeadFirst, LoadSecond, InHand
<1>4. ASSUME NEW c \in Consumers, PullStep(c) PROVE TypeOK'
  <2>1. CASE StartPull(c) BY <2>1 DEF StartPull, InHand
  <2>2. CASE PullReady(c) BY <2>2 DEF PullReady, InHand
  <2>3. CASE PullEmpty(c) BY <2>3 DEF PullEmpty, InHand
  <2>4. CASE PullBehind(c) BY <2>4 DEF PullBehind, InHand
  <2>5. CASE PullReload(c) BY <2>5 DEF PullReload, InHand
  <2>6. CASE PullClaim(c) BY <2>6 DEF PullClaim, InHand
  <2>7. CASE PullLost(c) BY <2>7 DEF PullLost, InHand
  <2>8. CASE PullRead(c) BY <1>0, <2>8 DEF PullRead, InHand
  <2>9. CASE PullRelease(c) BY <1>0, <2>9 DEF PullRelease, InHand
  <2> QED BY <1>4, <2>1, <2>2, <2>3, <2>4, <2>5, <2>6, <2>7, <2>8, <2>9 DEF PullStep
<1>5. CASE UNCHANGED vars
  BY <1>5 DEF vars, InHand
<1> QED BY <1>1, <1>2, <1>3, <1>4, <1>5 DEF Next

(* Every state of the queue has its types: counters, cells and what the threads hold. *)
THEOREM TypeCorrect == Spec => []TypeOK
BY TypeInit, TypeStep, PTL DEF Spec
-----------------------------------------------------------------------------
(***************************************************************************)
(* The ring invariant.                                                     *)
(***************************************************************************)
LEMMA RingInit == Init => RingInv
<1> SUFFICES ASSUME Init PROVE RingInv
  OBVIOUS
<1> USE SizeAssumption DEF Init
<1>1. Bounded
  BY DEF Bounded
<1>2. Window
  BY OwnCell DEF Window, Free, Full
<1>3. ProducersInv /\ ConsumersInv
  BY DEF ProducersInv, ConsumersInv, Filling, Emptying, Threads
<1>4. Accounted
  BY DEF Accounted
<1> QED BY <1>1, <1>2, <1>3, <1>4 DEF RingInv

(* The steps that neither win a position nor give a cell on: they move one *)
(* thread, t, that owns no cell before or after.                           *)
LEMMA RingQuietPush ==
  ASSUME TypeOK, RingInv, NEW t \in Producers,
         StartPush(t) \/ PushFree(t) \/ PushFull(t) \/ PushBehind(t)
           \/ PushReload(t) \/ PushLost(t) \/ PushWrite(t)
  PROVE  RingInv'
<1> USE ThreadsAssumption DEF TypeOK, RingInv, Threads, Goto
<1> USE DEF StartPush, PushFree, PushFull, PushBehind, PushReload, PushLost, PushWrite
<1>1. UNCHANGED <<sequence, tail, head>>
  OBVIOUS
<1>2. \A u \in Producers : Filling(u)' <=> Filling(u)
  BY DEF Filling
<1>3. \A u \in Producers : Filling(u) => pos'[u] = pos[u]
  BY DEF Filling
<1>4. \A c \in Consumers : pc'[c] = pc[c] /\ pos'[c] = pos[c]
  OBVIOUS
<1>5. Bounded' /\ Window'
  BY <1>1 DEF Bounded, Window, Free, Full
<1>6. ProducersInv'
  <2>1. ASSUME NEW u \in Producers
        PROVE  /\ pos'[u] <= tail'
               /\ pc'[u] = "swap" /\ pos'[u] = tail' => sequence'[Cell(tail')] = tail'
    BY <1>1 DEF ProducersInv
  <2> QED BY <2>1, <1>1, <1>2, <1>3 DEF ProducersInv
<1>7. ConsumersInv'
  BY <1>1, <1>4 DEF ConsumersInv, Emptying
<1>8. Accounted'
  BY <1>1, <1>2, <1>3, <1>4 DEF Accounted, Emptying
<1> QED BY <1>5, <1>6, <1>7, <1>8
(* The consumers' steps that change neither a cell nor a counter. *)
LEMMA RingQuietPull ==
  ASSUME TypeOK, RingInv, NEW c \in Consumers,
         Poll(c) \/ StartPull(c) \/ PullReady(c) \/ PullEmpty(c) \/ PullBehind(c)
           \/ PullReload(c) \/ PullLost(c) \/ PullRead(c)
  PROVE  RingInv'
<1> USE ThreadsAssumption DEF TypeOK, RingInv, Threads, Goto
<1> USE DEF Poll, LoadTailFirst, LoadHeadFirst, LoadSecond
<1> USE DEF StartPull, PullReady, PullEmpty, PullBehind, PullReload, PullLost, PullRead
<1>1. UNCHANGED <<sequence, tail, head>>
  OBVIOUS
<1>2. \A d \in Consumers : Emptying(d)' <=> Emptying(d)
  BY DEF Emptying
<1>3. \A d \in Consumers : Emptying(d) => pos'[d] = pos[d]
  BY DEF Emptying
<1>4. \A t \in Producers : pc'[t] = pc[t] /\ pos'[t] = pos[t]
  OBVIOUS
<1>5. Bounded' /\ Window'
  BY <1>1 DEF Bounded, Window, Free, Full
<1>6. ConsumersInv'
  <2>1. ASSUME NEW d \in Consumers
        PROVE  /\ pos'[d] <= head'
               /\ pc'[d] = "swap" /\ pos'[d] = head' => sequence'[Cell(head')] = head' + 1
    BY <1>1 DEF ConsumersInv
  <2> QED BY <2>1, <1>1, <1>2, <1>3 DEF ConsumersInv
<1>7. ProducersInv'
  BY <1>1, <1>4 DEF ProducersInv, Filling
<1>8. Accounted'
  BY <1>1, <1>2, <1>3, <1>4 DEF Accounted, Filling
<1> QED BY <1>5, <1>6, <1>7, <1>8

(* A push wins tail.  Its cell was free, so the position one lap back has  *)
(* been pulled: the ring had room.                                         *)
LEMMA RingPushClaim ==
  ASSUME TypeOK, RingInv, NEW t \in Producers, PushClaim(t)
  PROVE  RingInv'
<1> USE SizeAssumption, ThreadsAssumption DEF TypeOK, RingInv, Threads, Goto
<1> USE DEF PushClaim
<1> DEFINE i == Cell(tail)
<1>1. i \in Cells /\ sequence[i] = tail
  BY CellType DEF ProducersInv
<1>2. tail < head + Size
  <2>1. CASE Free(i) /\ sequence[i] < head + Size
    BY <1>1, <2>1
  <2>2. CASE Full(i)
    <3>1. tail > 0 /\ Cell(tail - 1) = Cell(tail)
      BY <1>1, <2>2 DEF Full
    <3> QED BY <3>1, SameCell
  <2> QED BY <1>1, <2>1, <2>2 DEF Window
<1>3. Bounded'
  BY <1>2 DEF Bounded
<1>4. Window'
  <2> SUFFICES ASSUME NEW j \in Cells
               PROVE  \/ /\ Free(j)
                         /\ tail' <= sequence[j] + Size
                         /\ sequence[j] < tail' + Size
                         /\ sequence[j] < head + Size
                      \/ /\ Full(j)
                         /\ sequence[j] <= tail'
                         /\ tail' < sequence[j] + Size
    BY DEF Window, Free, Full
  <2>1. CASE j = i
    BY <1>1, <1>2, <2>1 DEF Free
  <2>2. CASE j # i /\ Free(j) /\ tail <= sequence[j] + Size
             /\ sequence[j] < tail + Size /\ sequence[j] < head + Size
    <3>1. tail # sequence[j] + Size
      BY <2>2, NextLap DEF Free
    <3> QED BY <2>2, <3>1
  <2>3. CASE j # i /\ Full(j) /\ sequence[j] <= tail /\ tail < sequence[j] + Size
    <3>1. Cell((sequence[j] - 1) + Size) = j
      BY <2>3, NextLap DEF Full
    <3>2. tail # (sequence[j] - 1) + Size
      BY <2>3, <3>1
    <3> QED BY <2>3, <3>2
  <2> QED BY <2>1, <2>2, <2>3 DEF Window
<1>5. ProducersInv'
  <2>1. ASSUME NEW u \in Producers
        PROVE  /\ pos'[u] <= tail'
               /\ pc'[u] = "swap" /\ pos'[u] = tail' => sequence'[Cell(tail')] = tail'
               /\ Filling(u)' => sequence'[Cell(pos'[u])] = pos'[u] /\ pos'[u] < tail'
    BY <1>1 DEF ProducersInv, Filling
  <2>2. ASSUME NEW u \in Producers, NEW v \in Producers,
               Filling(u)', Filling(v)', pos'[u] = pos'[v]
        PROVE  u = v
    BY <2>2 DEF ProducersInv, Filling
  <2> QED BY <2>1, <2>2 DEF ProducersInv
<1>6. ConsumersInv'
  BY DEF ConsumersInv, Emptying
<1>7. Accounted'
  <2>1. ASSUME NEW p \in head'..(tail' - 1)
        PROVE  sequence'[Cell(p)] = p + 1 \/ \E u \in Producers : Filling(u)' /\ pos'[u] = p
    <3>1. CASE p = tail
      <4>1. Filling(t)' /\ pos'[t] = p
        BY <3>1 DEF Filling
      <4> QED BY <4>1
    <3>2. CASE p # tail
      <4>1. p \in head..(tail - 1)
        BY <2>1, <3>2
      <4>2. \A u \in Producers : Filling(u) => Filling(u)' /\ pos'[u] = pos[u]
        BY DEF Filling
      <4> QED BY <4>1, <4>2 DEF Accounted
    <3> QED BY <3>1, <3>2
  <2>2. ASSUME NEW p \in 0..(head' - 1), tail' <= p + Size
        PROVE  sequence'[Cell(p)] = p + Size \/ \E c \in Consumers : Emptying(c)' /\ pos'[c] = p
    BY <2>2 DEF Accounted, Emptying
  <2> QED BY <2>1, <2>2 DEF Accounted
<1> QED BY <1>3, <1>4, <1>5, <1>6, <1>7
(* A push gives its cell on: a packet is in it. *)
LEMMA RingPushPublish ==
  ASSUME TypeOK, RingInv, NEW t \in Producers, PushPublish(t)
  PROVE  RingInv'
<1> USE SizeAssumption, ThreadsAssumption DEF TypeOK, RingInv, Threads, Goto
<1> USE DEF PushPublish
<1> DEFINE p == pos[t]
           i == Cell(p)
<1>1. i \in Cells /\ p \in Nat /\ sequence[i] = p /\ p < tail /\ Filling(t) /\ ~Filling(t)'
  BY CellType DEF ProducersInv, Filling
<1>2. sequence' = [sequence EXCEPT ![i] = p + 1]
  OBVIOUS
<1>3. tail <= p + Size
  <2>1. ~ Full(i)
    <3> SUFFICES ASSUME Full(i) PROVE FALSE
      OBVIOUS
    <3>1. p - 1 \in Nat /\ Cell(p - 1) = Cell(p)
      BY <1>1 DEF Full
    <3> QED BY <1>1, <3>1, SameCell
  <2> QED BY <1>1, <2>1 DEF Window
<1>4. \A u \in Producers : u # t => Filling(u)' = Filling(u) /\ pos'[u] = pos[u]
  BY DEF Filling
<1>5. Bounded'
  BY DEF Bounded
<1>6. Window'
  <2>1. Full(i)' /\ sequence'[i] <= tail' /\ tail' < sequence'[i] + Size
    BY <1>1, <1>2, <1>3 DEF Full
  <2>2. ASSUME NEW j \in Cells, j # i
        PROVE  sequence'[j] = sequence[j] /\ (Free(j)' <=> Free(j)) /\ (Full(j)' <=> Full(j))
    BY <1>2, <2>2 DEF Free, Full
  <2> QED BY <1>1, <2>1, <2>2 DEF Window
<1>7. ProducersInv'
  <2>1. ASSUME NEW u \in Producers
        PROVE  pos'[u] <= tail'
    BY DEF ProducersInv
  <2>2. ASSUME NEW u \in Producers, pc'[u] = "swap", pos'[u] = tail'
        PROVE  sequence'[Cell(tail')] = tail'
    <3>1. pc[u] = "swap" /\ pos[u] = tail /\ sequence[Cell(tail)] = tail
      BY <2>2 DEF ProducersInv
    <3>2. Cell(tail) # i
      BY <1>1, <3>1
    <3> QED BY <1>2, <3>1, <3>2, CellType
  <2>3. ASSUME NEW u \in Producers, Filling(u)'
        PROVE  sequence'[Cell(pos'[u])] = pos'[u] /\ pos'[u] < tail'
    <3>1. u # t /\ Filling(u) /\ sequence[Cell(pos[u])] = pos[u] /\ pos[u] < tail
      BY <1>1, <1>4, <2>3 DEF ProducersInv
    <3>2. Cell(pos[u]) # i
      BY <1>1, <3>1 DEF ProducersInv
    <3> QED BY <1>2, <3>1, <3>2, CellType
  <2>4. ASSUME NEW u \in Producers, NEW v \in Producers,
               Filling(u)', Filling(v)', pos'[u] = pos'[v]
        PROVE  u = v
    BY <1>1, <1>4, <2>4 DEF ProducersInv
  <2> QED BY <2>1, <2>2, <2>3, <2>4 DEF ProducersInv
<1>8. ConsumersInv'
  <2>1. ASSUME NEW q \in Nat, sequence[Cell(q)] = q + 1
        PROVE  sequence'[Cell(q)] = q + 1
    <3>1. Cell(q) # i
      <4> SUFFICES ASSUME Cell(q) = i PROVE FALSE
        OBVIOUS
      <4>1. p = q + 1 /\ Cell(q) = Cell(p)
        BY <1>1, <2>1
      <4> QED BY <1>1, <4>1, SameCell
    <3> QED BY <1>2, <2>1, <3>1, CellType
  <2>2. \A c \in Consumers : Emptying(c)' = Emptying(c) /\ pos'[c] = pos[c] /\ pc'[c] = pc[c]
    BY DEF Emptying
  <2> QED BY <2>1, <2>2 DEF ConsumersInv
<1>9. Accounted'
  <2>1. ASSUME NEW q \in head'..(tail' - 1)
        PROVE  sequence'[Cell(q)] = q + 1 \/ \E u \in Producers : Filling(u)' /\ pos'[u] = q
    <3>1. CASE q = p
      BY <1>1, <1>2, <3>1
    <3>2. CASE q # p /\ sequence[Cell(q)] = q + 1
      <4>1. Cell(q) # i
        <5> SUFFICES ASSUME Cell(q) = i PROVE FALSE
          OBVIOUS
        <5>1. p = q + 1 /\ Cell(q) = Cell(p) /\ q \in Nat
          BY <1>1, <2>1, <3>2
        <5> QED BY <1>1, <5>1, SameCell
      <4> QED BY <1>2, <2>1, <3>2, <4>1, CellType
    <3>3. CASE q # p /\ \E u \in Producers : Filling(u) /\ pos[u] = q
      <4>1. PICK u \in Producers : Filling(u) /\ pos[u] = q
        BY <3>3
      <4>2. Filling(u)' /\ pos'[u] = q
        BY <1>4, <3>3, <4>1
      <4> QED BY <4>2
    <3> QED BY <2>1, <3>1, <3>2, <3>3 DEF Accounted
  <2>2. ASSUME NEW q \in 0..(head' - 1), tail' <= q + Size
        PROVE  sequence'[Cell(q)] = q + Size \/ \E c \in Consumers : Emptying(c)' /\ pos'[c] = q
    <3>1. CASE sequence[Cell(q)] = q + Size
      <4>1. Cell(q) # i
        BY <1>1, <2>2, <3>1
      <4> QED BY <1>2, <2>2, <3>1, <4>1, CellType
    <3>2. CASE \E c \in Consumers : Emptying(c) /\ pos[c] = q
      BY <3>2 DEF Emptying
    <3> QED BY <2>2, <3>1, <3>2 DEF Accounted
  <2> QED BY <2>1, <2>2 DEF Accounted
<1> QED BY <1>5, <1>6, <1>7, <1>8, <1>9
(* A pull wins head.  Its cell was full, so a push had won this position.  *)
LEMMA RingPullClaim ==
  ASSUME TypeOK, RingInv, NEW c \in Consumers, PullClaim(c)
  PROVE  RingInv'
<1> USE SizeAssumption, ThreadsAssumption DEF TypeOK, RingInv, Threads, Goto
<1> USE DEF PullClaim
<1> DEFINE i == Cell(head)
<1>1. i \in Cells /\ sequence[i] = head + 1
  BY CellType DEF ConsumersInv
<1>2. head < tail
  <2>1. ~ Free(i)
    <3> SUFFICES ASSUME Free(i) PROVE FALSE
      OBVIOUS
    <3>1. Cell(head) = Cell(head + 1)
      BY <1>1 DEF Free
    <3> QED BY <3>1, SameCell
  <2> QED BY <1>1, <2>1 DEF Window
<1>3. Bounded'
  BY <1>2 DEF Bounded
<1>4. Window'
  BY DEF Window, Free, Full
<1>5. \A d \in Consumers : d # c => (Emptying(d)' <=> Emptying(d)) /\ pos'[d] = pos[d]
  BY DEF Emptying
<1>6. Emptying(c)' /\ pos'[c] = head /\ ~Emptying(c)
  BY DEF Emptying
<1>7. ConsumersInv'
  <2>1. ASSUME NEW d \in Consumers
        PROVE  /\ pos'[d] <= head'
               /\ pc'[d] = "swap" /\ pos'[d] = head' => sequence'[Cell(head')] = head' + 1
               /\ Emptying(d)' => sequence'[Cell(pos'[d])] = pos'[d] + 1 /\ pos'[d] < head'
    BY <1>1, <1>5 DEF ConsumersInv
  <2>2. ASSUME NEW d \in Consumers, NEW e \in Consumers,
               Emptying(d)', Emptying(e)', pos'[d] = pos'[e]
        PROVE  d = e
    BY <1>5, <1>6, <2>2 DEF ConsumersInv
  <2> QED BY <2>1, <2>2 DEF ConsumersInv
<1>8. ProducersInv'
  BY DEF ProducersInv, Filling
<1>9. Accounted'
  <2>1. ASSUME NEW p \in head'..(tail' - 1)
        PROVE  sequence'[Cell(p)] = p + 1 \/ \E u \in Producers : Filling(u)' /\ pos'[u] = p
    BY <2>1 DEF Accounted, Filling
  <2>2. ASSUME NEW p \in 0..(head' - 1), tail' <= p + Size
        PROVE  sequence'[Cell(p)] = p + Size \/ \E d \in Consumers : Emptying(d)' /\ pos'[d] = p
    <3>1. CASE p = head
      BY <1>6, <3>1
    <3>2. CASE p # head
      <4>1. sequence[Cell(p)] = p + Size \/ \E d \in Consumers : Emptying(d) /\ pos[d] = p
        BY <2>2, <3>2 DEF Accounted
      <4>2. \A d \in Consumers : Emptying(d) => Emptying(d)' /\ pos'[d] = pos[d]
        BY <1>5, <1>6
      <4> QED BY <4>1, <4>2
    <3> QED BY <3>1, <3>2
  <2> QED BY <2>1, <2>2 DEF Accounted
<1> QED BY <1>3, <1>4, <1>7, <1>8, <1>9

(* A pull gives its cell on: it is free for the next lap. *)
LEMMA RingPullRelease ==
  ASSUME TypeOK, RingInv, NEW c \in Consumers, PullRelease(c)
  PROVE  RingInv'
<1> USE SizeAssumption, ThreadsAssumption DEF TypeOK, RingInv, Threads, Goto
<1> USE DEF PullRelease
<1> DEFINE p == pos[c]
           i == Cell(p)
<1>1. /\ i \in Cells /\ p \in Nat /\ sequence[i] = p + 1 /\ p < head
      /\ Emptying(c) /\ ~Emptying(c)'
  BY CellType DEF ConsumersInv, Emptying
<1>2. sequence' = [sequence EXCEPT ![i] = p + Size]
  OBVIOUS
<1>3. i # Cell(p + 1)
  BY <1>1, SameCell
<1>4. \A d \in Consumers : d # c => Emptying(d)' = Emptying(d) /\ pos'[d] = pos[d]
  BY DEF Emptying
<1>5. Bounded'
  BY DEF Bounded
<1>6. Window'
  <2>1. Full(i) /\ tail < p + 1 + Size
    BY <1>1, <1>3 DEF Window, Free
  <2>2. /\ Free(i)' /\ tail' <= sequence'[i] + Size
        /\ sequence'[i] < tail' + Size /\ sequence'[i] < head' + Size
    BY <1>1, <1>2, <2>1, NextLap DEF Free, Bounded
  <2>3. ASSUME NEW j \in Cells, j # i
        PROVE  sequence'[j] = sequence[j] /\ (Free(j)' <=> Free(j)) /\ (Full(j)' <=> Full(j))
    BY <1>2, <2>3 DEF Free, Full
  <2> QED BY <1>1, <2>2, <2>3 DEF Window
<1>7. ProducersInv'
  <2>1. ASSUME NEW q \in Nat, sequence[Cell(q)] = q
        PROVE  sequence'[Cell(q)] = q
    <3>1. Cell(q) # i
      BY <1>1, <1>3, <2>1
    <3> QED BY <1>2, <2>1, <3>1, CellType
  <2>2. \A u \in Producers : Filling(u)' = Filling(u) /\ pos'[u] = pos[u] /\ pc'[u] = pc[u]
    BY DEF Filling
  <2> QED BY <2>1, <2>2 DEF ProducersInv
<1>8. ConsumersInv'
  <2>1. ASSUME NEW q \in Nat, q # p, sequence[Cell(q)] = q + 1
        PROVE  sequence'[Cell(q)] = q + 1
    <3>1. Cell(q) # i
      BY <1>1, <2>1
    <3> QED BY <1>2, <2>1, <3>1, CellType
  <2>2. ASSUME NEW d \in Consumers
        PROVE  /\ pos'[d] <= head'
               /\ pc'[d] = "swap" /\ pos'[d] = head' => sequence'[Cell(head')] = head' + 1
    BY <1>1, <2>1 DEF ConsumersInv
  <2>3. ASSUME NEW d \in Consumers, Emptying(d)'
        PROVE  /\ sequence'[Cell(pos'[d])] = pos'[d] + 1
               /\ pos'[d] < head'
    BY <1>1, <1>4, <2>1, <2>3 DEF ConsumersInv
  <2>4. ASSUME NEW d \in Consumers, NEW e \in Consumers,
               Emptying(d)', Emptying(e)', pos'[d] = pos'[e]
        PROVE  d = e
    BY <1>1, <1>4, <2>4 DEF ConsumersInv
  <2> QED BY <2>2, <2>3, <2>4 DEF ConsumersInv
<1>9. Accounted'
  <2>1. ASSUME NEW q \in head'..(tail' - 1)
        PROVE  sequence'[Cell(q)] = q + 1 \/ \E u \in Producers : Filling(u)' /\ pos'[u] = q
    <3>1. CASE sequence[Cell(q)] = q + 1
      <4>1. Cell(q) # i
        BY <1>1, <2>1, <3>1
      <4> QED BY <1>1, <1>2, <2>1, <3>1, <4>1, CellType
    <3>2. CASE \E u \in Producers : Filling(u) /\ pos[u] = q
      BY <3>2 DEF Filling
    <3> QED BY <2>1, <3>1, <3>2 DEF Accounted
  <2>2. ASSUME NEW q \in 0..(head' - 1), tail' <= q + Size
        PROVE  sequence'[Cell(q)] = q + Size \/ \E d \in Consumers : Emptying(d)' /\ pos'[d] = q
    <3>1. CASE q = p
      BY <1>1, <1>2, <3>1
    <3>2. CASE q # p /\ sequence[Cell(q)] = q + Size
      <4>1. Cell(q) # i
        <5> SUFFICES ASSUME Cell(q) = i PROVE FALSE
          OBVIOUS
        <5>1. q \in Nat /\ Cell(q + Size) = Cell(q)
          BY <2>2, NextLap
        <5>2. q + Size = p + 1
          BY <1>1, <3>2
        <5> QED BY <1>3, <5>1, <5>2
      <4> QED BY <1>1, <1>2, <2>2, <3>2, <4>1, CellType
    <3>3. CASE q # p /\ \E d \in Consumers : Emptying(d) /\ pos[d] = q
      <4>1. PICK d \in Consumers : Emptying(d) /\ pos[d] = q
        BY <3>3
      <4> QED BY <1>4, <3>3, <4>1
    <3> QED BY <2>2, <3>1, <3>2, <3>3 DEF Accounted
  <2> QED BY <2>1, <2>2 DEF Accounted
<1> QED BY <1>5, <1>6, <1>7, <1>8, <1>9
(* Every step keeps the invariant of the ring. *)
LEMMA RingStep == TypeOK /\ RingInv /\ [Next]_vars => RingInv'
<1> SUFFICES ASSUME TypeOK, RingInv, [Next]_vars PROVE RingInv'
  OBVIOUS
<1>1. ASSUME NEW t \in Producers, StartPush(t) \/ PushStep(t) PROVE RingInv'
  BY <1>1, RingQuietPush, RingPushClaim, RingPushPublish DEF PushStep
<1>2. ASSUME NEW c \in Consumers, Poll(c) \/ PullStep(c) PROVE RingInv'
  BY <1>2, RingQuietPull, RingPullClaim, RingPullRelease DEF PullStep
<1>3. CASE UNCHANGED vars
  BY <1>3 DEF vars, RingInv, Bounded, Window, Free, Full, ProducersInv, ConsumersInv,
              Accounted, Filling, Emptying
<1> QED BY <1>1, <1>2, <1>3 DEF Next

(***************************************************************************)
(* The ring invariant, the bounds of the queue among it, holds throughout. *)
(***************************************************************************)
THEOREM RingCorrect == Spec => []RingInv
<1>1. Init => RingInv
  BY RingInit
<1>2. TypeOK /\ RingInv /\ [Next]_vars => RingInv'
  BY RingStep
<1> QED BY <1>1, <1>2, TypeCorrect, PTL DEF Spec

(* Two owners of one cell would read two different sequence numbers in it, *)
(* or they are the same thread.                                            *)
LEMMA OwnersApart == TypeOK /\ RingInv => CellExclusive
<1> SUFFICES ASSUME TypeOK, RingInv, NEW t \in Threads, NEW u \in Threads,
                    t # u, Owns(t), Owns(u), Cell(pos[t]) = Cell(pos[u])
             PROVE  FALSE
  BY DEF CellExclusive
<1> USE SizeAssumption DEF TypeOK, RingInv
<1>1. \A v \in Threads : Filling(v) => v \in Producers /\ sequence[Cell(pos[v])] = pos[v]
  BY DEF Threads, Filling, ProducersInv
<1>2. \A v \in Threads : Emptying(v) => v \in Consumers /\ sequence[Cell(pos[v])] = pos[v] + 1
  BY DEF Threads, Emptying, ConsumersInv
<1>3. \A p \in Nat : Cell(p) # Cell(p + 1)
  BY SameCell
<1>4. CASE Filling(t) /\ Filling(u)
  BY <1>1, <1>4 DEF ProducersInv
<1>5. CASE Emptying(t) /\ Emptying(u)
  <2>1. pos[t] = pos[u]
    BY <1>2, <1>5
  <2> QED BY <1>2, <1>5, <2>1 DEF ConsumersInv
<1>6. CASE Filling(t) /\ Emptying(u)
  <2>1. pos[t] = pos[u] + 1
    BY <1>1, <1>2, <1>6
  <2> QED BY <1>3, <2>1
<1>7. CASE Emptying(t) /\ Filling(u)
  <2>1. pos[u] = pos[t] + 1
    BY <1>1, <1>2, <1>7
  <2> QED BY <1>3, <2>1
<1> QED BY <1>4, <1>5, <1>6, <1>7 DEF Owns

(***************************************************************************)
(* No data race: two threads that have won positions and are between the   *)
(* exchange and the store of the sequence are in different cells.          *)
(***************************************************************************)
THEOREM CellsExclusive == Spec => []CellExclusive
BY TypeCorrect, RingCorrect, OwnersApart, PTL

(* The queue never holds more than Size packets and head never passes tail. *)
THEOREM QueueBounded == Spec => []Bounded
<1>1. RingInv => Bounded
  BY DEF RingInv
<1> QED BY <1>1, RingCorrect, PTL
-----------------------------------------------------------------------------
(***************************************************************************)
(* What a failing call means.                                              *)
(***************************************************************************)

(* The sequence number of p's cell below p: the cell is one lap behind.    *)
LEMMA LapBehind ==
  ASSUME TypeOK, RingInv, NEW p \in Nat, p <= tail, sequence[Cell(p)] < p
  PROVE  /\ p = tail /\ p >= Size
         /\ sequence[Cell(p)] \in {p - Size, p - Size + 1}
<1> USE SizeAssumption DEF TypeOK, RingInv
<1> DEFINE i == Cell(p)
           s == sequence[i]
<1>1. i \in Cells /\ s \in Nat
  BY CellType
<1>2. CASE Free(i) /\ tail <= s + Size
  <2>1. s + Size <= p
    BY <1>1, <1>2, SameCell DEF Free
  <2> QED BY <1>1, <1>2, <2>1
<1>3. CASE Full(i) /\ tail < s + Size
  <2>1. (s - 1) + Size <= p
    BY <1>1, <1>3, SameCell DEF Full
  <2>2. s > 0
    BY <1>3 DEF Full
  <2> QED BY <1>1, <1>3, <2>1, <2>2
<1> QED BY <1>1, <1>2, <1>3 DEF Window

(* A push that fails met a full ring, or a cell that is being emptied. *)
LEMMA FullJustified ==
  ASSUME TypeOK, RingInv, NEW t \in Producers, PushFull(t)
  PROVE  \/ head + Size <= pos[t]
         \/ \E c \in Consumers : Emptying(c) /\ pos[c] + Size = pos[t]
<1> USE SizeAssumption DEF TypeOK, RingInv
<1> DEFINE p == pos[t]
           q == p - Size
<1>1. p \in Nat /\ p <= tail /\ sequence[Cell(p)] < p
  BY DEF PushFull, ProducersInv, Threads
<1>2. p = tail /\ q \in Nat /\ sequence[Cell(p)] \in {q, q + 1}
  BY <1>1, LapBehind
<1>3. Cell(q) = Cell(p)
  <2>1. Cell(q + Size) = Cell(q)
    BY <1>2, NextLap
  <2>2. q + Size = p
    BY <1>1
  <2> QED BY <2>1, <2>2
<1>4. CASE q < head
  <2>1. q \in 0..(head - 1) /\ tail <= q + Size
    BY <1>1, <1>2, <1>4
  <2>2. sequence[Cell(q)] # q + Size
    BY <1>2, <1>3
  <2>3. PICK c \in Consumers : Emptying(c) /\ pos[c] = q
    BY <2>1, <2>2 DEF Accounted
  <2> QED BY <1>1, <2>3
<1> QED BY <1>1, <1>2, <1>4

(* A pull that fails met an empty ring, or a cell that is being filled. *)
LEMMA EmptyJustified ==
  ASSUME TypeOK, RingInv, NEW c \in Consumers, PullEmpty(c)
  PROVE  \/ tail <= pos[c]
         \/ \E t \in Producers : Filling(t) /\ pos[t] = pos[c]
<1> USE SizeAssumption DEF TypeOK, RingInv
<1> DEFINE p == pos[c]
<1> SUFFICES ASSUME p < tail
             PROVE  \E t \in Producers : Filling(t) /\ pos[t] = p
  BY DEF Threads
<1>1. p \in Nat /\ p <= head /\ sequence[Cell(p)] < p + 1
  BY DEF PullEmpty, ConsumersInv, Threads
<1>2. sequence[Cell(p)] = p
  <2>1. ~ (sequence[Cell(p)] < p)
    BY <1>1, LapBehind
  <2> QED BY <1>1, <2>1, CellType
<1>3. p = head
  <2> SUFFICES ASSUME p < head PROVE FALSE
    BY <1>1
  <2>1. tail <= p + Size
    <3>1. ~ Full(Cell(p))
      <4> SUFFICES ASSUME Full(Cell(p)) PROVE FALSE
        OBVIOUS
      <4>1. p - 1 \in Nat /\ Cell(p - 1) = Cell(p)
        BY <1>1, <1>2 DEF Full
      <4> QED BY <1>1, <4>1, SameCell
    <3> QED BY <1>1, <1>2, <3>1, CellType DEF Window
  <2>2. PICK d \in Consumers : Emptying(d) /\ pos[d] = p
    BY <1>1, <1>2, <2>1 DEF Accounted
  <2> QED BY <1>1, <1>2, <2>2 DEF ConsumersInv
<1>4. p \in head..(tail - 1) /\ sequence[Cell(p)] # p + 1
  BY <1>1, <1>2, <1>3
<1> QED BY <1>4 DEF Accounted

(* The sequence number of p's cell at a lap or more: tail is beyond p.     *)
LEMMA LapAhead ==
  ASSUME TypeOK, RingInv, NEW p \in Nat, p < sequence[Cell(p)]
  PROVE  /\ p <= tail => p < tail
         /\ p <= head /\ p + 1 < sequence[Cell(p)] => p < head
<1> USE SizeAssumption DEF TypeOK, RingInv
<1> DEFINE i == Cell(p)
           s == sequence[i]
<1>1. i \in Cells /\ s \in Nat
  BY CellType
<1>2. CASE Free(i) /\ s < tail + Size /\ s < head + Size
  <2>1. p + Size <= s
    BY <1>1, <1>2, SameCell DEF Free
  <2> QED BY <1>1, <1>2, <2>1
<1>3. CASE Full(i) /\ s <= tail
  <2>1. p + 1 < s => p + Size <= s - 1
    BY <1>1, <1>3, SameCell DEF Full
  <2> QED BY <1>1, <1>3, <2>1 DEF Bounded
<1> QED BY <1>1, <1>2, <1>3 DEF Window

(* A loop that goes round again has lost its position to another thread. *)
LEMMA BehindJustified ==
  ASSUME TypeOK, RingInv
  PROVE  /\ \A t \in Producers : PushBehind(t) => pos[t] < tail
         /\ \A c \in Consumers : PullBehind(c) => pos[c] < head
<1>1. ASSUME NEW t \in Producers, PushBehind(t) PROVE pos[t] < tail
  <2>1. pos[t] \in Nat /\ pos[t] <= tail /\ pos[t] < sequence[Cell(pos[t])]
    BY <1>1 DEF PushBehind, TypeOK, RingInv, ProducersInv, Threads
  <2> QED BY <2>1, LapAhead
<1>2. ASSUME NEW c \in Consumers, PullBehind(c) PROVE pos[c] < head
  <2>1. /\ pos[c] \in Nat /\ pos[c] <= head
        /\ sequence[Cell(pos[c])] \in Nat /\ pos[c] + 1 < sequence[Cell(pos[c])]
    BY <1>2, CellType DEF PullBehind, TypeOK, RingInv, ConsumersInv, Threads
  <2> QED BY <2>1, LapAhead
<1> QED BY <1>1, <1>2

(***************************************************************************)
(* A push that returns 0 found the ring full, or a pull not yet finished.  *)
(***************************************************************************)
THEOREM PushFullCorrect == Spec => PushFullJustified
<1>1. TypeOK /\ RingInv /\ [Next]_vars
        => [\A t \in Producers : PushFull(t) =>
              \/ head + Size <= pos[t]
              \/ \E c \in Consumers : Emptying(c) /\ pos[c] + Size = pos[t]]_vars
  BY FullJustified
<1> QED BY <1>1, TypeCorrect, RingCorrect, PTL DEF Spec, PushFullJustified

(***************************************************************************)
(* Push and pull are lock-free: one thread reloads its position, to go     *)
(* round its loop, only when another has moved on.                         *)
(***************************************************************************)
THEOREM LockFree == Spec => RetriesJustified
<1>1. TypeOK /\ RingInv /\ [Next]_vars
        => [/\ \A t \in Producers : PushBehind(t) => pos[t] < tail
            /\ \A c \in Consumers : PullBehind(c) => pos[c] < head]_vars
  BY BehindJustified
<1> QED BY <1>1, TypeCorrect, RingCorrect, PTL DEF Spec, RetriesJustified

(***************************************************************************)
(* A pull that returns 0 found the ring empty, or a push not yet finished. *)
(***************************************************************************)
THEOREM PullEmptyCorrect == Spec => PullEmptyJustified
<1>1. TypeOK /\ RingInv /\ [Next]_vars
        => [\A c \in Consumers : PullEmpty(c) =>
              \/ tail <= pos[c]
              \/ \E t \in Producers : Filling(t) /\ pos[t] = pos[c]]_vars
  BY EmptyJustified
<1> QED BY <1>1, TypeCorrect, RingCorrect, PTL DEF Spec, PullEmptyJustified
-----------------------------------------------------------------------------
(***************************************************************************)
(* The only consumer of a queue.  Between its two loads head stands still  *)
(* and tail can only grow.                                                 *)
(***************************************************************************)
PollInv ==
  (\A c, d \in Consumers : c = d) =>
    \A c \in Consumers :
      /\ pc[c] = "headNext" => loaded[c] \in Nat /\ head <= loaded[c] /\ loaded[c] <= tail
      /\ pc[c] = "tailNext" => loaded[c] = head
      /\ pc[c] = "pull" => head < tail

(* Every step keeps what the sole consumer knows. *)
LEMMA PollStep == TypeOK /\ RingInv /\ PollInv /\ [Next]_vars => PollInv'
<1> SUFFICES ASSUME TypeOK, RingInv, PollInv, [Next]_vars,
                    \A c, d \in Consumers : c = d, NEW c \in Consumers
             PROVE  /\ pc'[c] = "headNext" =>
                         loaded'[c] \in Nat /\ head' <= loaded'[c] /\ loaded'[c] <= tail'
                    /\ pc'[c] = "tailNext" => loaded'[c] = head'
                    /\ pc'[c] = "pull" => head' < tail'
  BY DEF PollInv
<1> USE ThreadsAssumption DEF Threads, Goto
<1>1. /\ pc[c] = "headNext" => loaded[c] \in Nat /\ head <= loaded[c] /\ loaded[c] <= tail
      /\ pc[c] = "tailNext" => loaded[c] = head
      /\ pc[c] = "pull" => head < tail
  BY DEF PollInv
<1>2. head \in Nat /\ tail \in Nat /\ head <= tail BY DEF TypeOK, RingInv, Bounded
<1>3. ASSUME pc'[c] = pc[c], loaded' = loaded, head' = head, tail' \in {tail, tail + 1}
      PROVE  /\ pc'[c] = "headNext" =>
                  loaded'[c] \in Nat /\ head' <= loaded'[c] /\ loaded'[c] <= tail'
             /\ pc'[c] = "tailNext" => loaded'[c] = head'
             /\ pc'[c] = "pull" => head' < tail'
  BY <1>1, <1>2, <1>3
<1>4. CASE \E t \in Producers : StartPush(t) \/ PushStep(t)
  <2>1. PICK t \in Producers : StartPush(t) \/ PushStep(t) BY <1>4
  <2>2. t # c /\ pc \in [Threads -> {"idle", "look", "reload", "swap", "write", "publish",
                                     "headNext", "tailNext", "pull", "read", "release"}]
    BY DEF TypeOK
  <2>3. pc'[c] = pc[c] /\ loaded' = loaded /\ head' = head
    BY <2>1, <2>2 DEF PushStep, StartPush, PushFree, PushFull, PushBehind, PushReload,
                      PushClaim, PushLost, PushWrite, PushPublish
  <2>4. tail' \in {tail, tail + 1}
    BY <2>1 DEF PushStep, StartPush, PushFree, PushFull, PushBehind, PushReload,
                PushClaim, PushLost, PushWrite, PushPublish
  <2> QED BY <1>3, <2>3, <2>4
<1>5. CASE Poll(c)
  <2>1. /\ pc \in [Threads -> {"idle", "look", "reload", "swap", "write", "publish",
                               "headNext", "tailNext", "pull", "read", "release"}]
        /\ loaded \in [Consumers -> Nat \cup {None}]
    BY DEF TypeOK
  <2>2. CASE LoadTailFirst(c) BY <1>2, <2>1, <2>2 DEF LoadTailFirst
  <2>3. CASE LoadHeadFirst(c) BY <1>2, <2>1, <2>3 DEF LoadHeadFirst
  <2>4. CASE LoadSecond(c) BY <1>1, <1>2, <2>1, <2>4 DEF LoadSecond
  <2> QED BY <1>5, <2>2, <2>3, <2>4 DEF Poll
<1>6. CASE PullStep(c)
  <2>1. pc'[c] \in {"look", "swap", "idle", "reload", "read", "release"}
    BY <1>6 DEF TypeOK, PullStep, StartPull, PullReady, PullEmpty, PullBehind, PullReload,
                PullClaim, PullLost, PullRead, PullRelease
  <2> QED BY <2>1
<1>7. CASE UNCHANGED vars BY <1>3, <1>7 DEF vars
<1> QED BY <1>4, <1>5, <1>6, <1>7 DEF Next

(***************************************************************************)
(* For the only consumer of a queue a nonzero mpmc_queue_available means   *)
(* that there is a packet, in whichever order it made its two loads.       *)
(***************************************************************************)
THEOREM NonzeroMeansWork == Spec => []SoleConsumerSeesWork
<1>1. Init => PollInv BY DEF Init, PollInv, Threads
<1>2. Spec => []PollInv BY <1>1, PollStep, TypeCorrect, RingCorrect, PTL DEF Spec
<1>3. PollInv => SoleConsumerSeesWork BY DEF PollInv, SoleConsumerSeesWork
<1> QED BY <1>2, <1>3, PTL
-----------------------------------------------------------------------------
(***************************************************************************)
(* The ring implements BoundedQueue.                                       *)
(***************************************************************************)

(* What a thread between the exchange and the store has in its hand is     *)
(* what it wrote; a consumer that has not read holds nothing.              *)
HandInv ==
  /\ \A t \in Producers : pc[t] = "publish" => data[Cell(pos[t])] = InHand(t)
  /\ \A c \in Consumers : pc[c] # "release" => got[c] = None

(* The invariant of the hands at the start. *)
LEMMA HandInit == Init => HandInv
BY ThreadsAssumption DEF Init, HandInv, Threads

(* Every step keeps it. *)
LEMMA HandStep == TypeOK /\ RingInv /\ HandInv /\ [Next]_vars => HandInv'
<1> SUFFICES ASSUME TypeOK, RingInv, HandInv, [Next]_vars PROVE HandInv'
  OBVIOUS
<1> USE ThreadsAssumption DEF Threads, Goto
<1>1. /\ pc \in [Threads -> {"idle", "look", "reload", "swap", "write", "publish",
                             "headNext", "tailNext", "pull", "read", "release"}]
      /\ pos \in [Threads -> Nat] /\ pushes \in [Producers -> 0..MaxPushes]
      /\ got \in [Consumers -> Item \cup {None}]
      /\ data \in [Cells -> Item \cup {None}]
      /\ \A t \in Threads : Cell(pos[t]) \in Cells
  BY CellType DEF TypeOK
<1>2. ASSUME NEW t \in Producers, StartPush(t) \/ PushStep(t) PROVE HandInv'
  <2>1. got' = got /\ \A c \in Consumers : pc'[c] = pc[c]
    BY <1>1, <1>2 DEF PushStep, StartPush, PushFree, PushFull, PushBehind, PushReload,
                      PushClaim, PushLost, PushWrite, PushPublish
  <2>2. ASSUME NEW u \in Producers, pc'[u] = "publish"
        PROVE  data'[Cell(pos'[u])] = InHand(u)'
    <3>1. CASE PushWrite(t)
      <4>1. /\ data' = [data EXCEPT ![Cell(pos[t])] = InHand(t)]
            /\ pos' = pos /\ pushes' = pushes /\ pc' = [pc EXCEPT ![t] = "publish"]
            /\ Filling(t)
        BY <3>1 DEF PushWrite, Filling
      <4>2. CASE u = t BY <1>1, <4>1, <4>2 DEF InHand
      <4>3. CASE u # t
        <5>1. pc[u] = "publish" /\ Filling(u) BY <1>1, <2>2, <4>1, <4>3 DEF Filling
        <5>2. Cell(pos[u]) # Cell(pos[t])
          BY <4>1, <4>3, <5>1, OwnersApart DEF CellExclusive, Owns
        <5>3. data'[Cell(pos'[u])] = data[Cell(pos[u])] BY <1>1, <4>1, <5>2
        <5> QED BY <4>1, <5>1, <5>3 DEF InHand, HandInv
      <4> QED BY <4>2, <4>3
    <3>2. CASE ~PushWrite(t)
      <4>1. data' = data /\ pc[u] = "publish"
        BY <1>1, <1>2, <2>2, <3>2 DEF PushStep, StartPush, PushFree, PushFull, PushBehind,
             PushReload, PushClaim, PushLost, PushPublish
      <4>2. pos'[u] = pos[u] /\ pushes'[u] = pushes[u]
        BY <1>1, <1>2, <3>2, <4>1 DEF PushStep, StartPush, PushFree, PushFull, PushBehind,
             PushReload, PushClaim, PushLost, PushPublish
      <4> QED BY <4>1, <4>2 DEF InHand, HandInv
    <3> QED BY <3>1, <3>2
  <2> QED BY <2>1, <2>2 DEF HandInv
<1>3. ASSUME NEW c \in Consumers, Poll(c) \/ PullStep(c) PROVE HandInv'
  <2>1. /\ data' = data /\ pushes' = pushes
        /\ \A t \in Producers : pc'[t] = pc[t] /\ pos'[t] = pos[t]
    BY <1>1, <1>3 DEF Poll, LoadTailFirst, LoadHeadFirst, LoadSecond, PullStep, StartPull,
         PullReady, PullEmpty, PullBehind, PullReload, PullClaim, PullLost, PullRead, PullRelease
  <2>2. \A d \in Consumers : pc'[d] # "release" => got'[d] = None
    BY <1>1, <1>3 DEF HandInv, Poll, LoadTailFirst, LoadHeadFirst, LoadSecond, PullStep, StartPull,
         PullReady, PullEmpty, PullBehind, PullReload, PullClaim, PullLost, PullRead, PullRelease
  <2> QED BY <2>1, <2>2 DEF HandInv, InHand
<1>4. CASE UNCHANGED vars BY <1>4 DEF vars, HandInv, InHand
<1> QED BY <1>2, <1>3, <1>4 DEF Next

(* v is the packet of position p. *)
Holds(p, v) ==
  \/ sequence[Cell(p)] = p + 1 /\ v = data[Cell(p)]
  \/ /\ sequence[Cell(p)] # p + 1
     /\ \E t \in Producers : Filling(t) /\ pos[t] = p /\ v = InHand(t)

OnePacketEach ==
  \A p \in head..(tail - 1) :
    /\ Holds(p, PacketAt(p)) /\ PacketAt(p) \in Item \cup {None}
    /\ \A v : Holds(p, v) => v = PacketAt(p)

(* Every position from head to tail has one packet. *)
LEMMA HoldsIs == TypeOK /\ RingInv => OnePacketEach
<1> SUFFICES ASSUME TypeOK, RingInv, NEW p \in head..(tail - 1)
             PROVE  /\ Holds(p, PacketAt(p)) /\ PacketAt(p) \in Item \cup {None}
                    /\ \A v : Holds(p, v) => v = PacketAt(p)
  BY DEF OnePacketEach
<1>1. p \in Nat /\ Cell(p) \in Cells BY CellType DEF TypeOK
<1>2. CASE sequence[Cell(p)] = p + 1
  <2>1. PacketAt(p) = data[Cell(p)] BY <1>2 DEF PacketAt
  <2>2. data[Cell(p)] \in Item \cup {None} BY <1>1 DEF TypeOK
  <2> QED BY <1>2, <2>1, <2>2 DEF Holds
<1>3. CASE sequence[Cell(p)] # p + 1
  <2>1. \E t \in Producers : Filling(t) /\ pos[t] = p BY <1>3 DEF RingInv, Accounted
  <2>2. PICK u : u = CHOOSE t \in Producers : Filling(t) /\ pos[t] = p OBVIOUS
  <2>3. u \in Producers /\ Filling(u) /\ pos[u] = p BY <2>1, <2>2
  <2>4. \A t \in Producers : Filling(t) /\ pos[t] = p => t = u
    BY <2>3 DEF RingInv, ProducersInv
  <2>5. PacketAt(p) = InHand(u) BY <1>3, <2>2 DEF PacketAt
  <2>6. InHand(u) \in Item BY <2>3 DEF TypeOK, Filling
  <2> QED BY <1>3, <2>3, <2>4, <2>5, <2>6 DEF Holds
<1> QED BY <1>2, <1>3

(* The same after a step. *)
LEMMA HoldsIsNext == (TypeOK /\ RingInv)' => OnePacketEach'
BY HoldsIs, PTL

(* A packet that is still there is the packet that was there. *)
LEMMA SamePacket ==
  ASSUME TypeOK, RingInv, TypeOK', RingInv', NEW p,
         p \in head..(tail - 1), p \in (head')..(tail' - 1),
         \A v : Holds(p, v) => Holds(p, v)'
  PROVE  PacketAt(p)' = PacketAt(p)
<1>1. Holds(p, PacketAt(p)) BY HoldsIs DEF OnePacketEach
<1>2. PICK v : v = PacketAt(p) OBVIOUS
<1>3. Holds(p, v)' BY <1>1, <1>2
<1>4. \A x : Holds(p, x)' => x = PacketAt(p)' BY HoldsIsNext DEF OnePacketEach
<1> QED BY <1>2, <1>3, <1>4

(* Two positions of the window, in one cell, are the same. *)
LEMMA OneLap ==
  ASSUME TypeOK, RingInv, NEW p, NEW r, p \in head..(tail - 1), r \in head..(tail - 1),
         Cell(p) = Cell(r)
  PROVE  p = r
<1>1. p \in Nat /\ r \in Nat /\ p < r + Size /\ r < p + Size
  BY SizeAssumption DEF TypeOK, RingInv, Bounded
<1> QED BY <1>1, SameCell, SizeAssumption

(* Neighbouring positions have different cells. *)
LEMMA CellsDiffer == \A p \in Nat : Cell(p) # Cell(p + 1)
BY SameCell, SizeAssumption

(* A producer that has won a position fills one of the window. *)
LEMMA FillingInWindow ==
  ASSUME TypeOK, RingInv, NEW t \in Producers, Filling(t)
  PROVE  pos[t] \in head..(tail - 1) /\ sequence[Cell(pos[t])] = pos[t]
<1>1. pos[t] \in Nat /\ Cell(pos[t]) \in Cells /\ head \in Nat /\ tail \in Nat
  BY CellType DEF TypeOK, Threads
<1>2. pos[t] < tail /\ sequence[Cell(pos[t])] = pos[t] BY DEF RingInv, ProducersInv
<1>3. head <= pos[t]
  <2> SUFFICES ASSUME pos[t] < head PROVE FALSE BY <1>1
  <2>1. tail <= pos[t] + Size
    <3>1. ~Full(Cell(pos[t]))
      <4> SUFFICES ASSUME Full(Cell(pos[t])) PROVE FALSE OBVIOUS
      <4>1. pos[t] > 0 /\ Cell(pos[t] - 1) = Cell(pos[t]) BY <1>2 DEF Full
      <4>2. pos[t] - 1 \in Nat BY <1>1, <4>1
      <4>3. (pos[t] - 1) + 1 = pos[t] BY <1>1
      <4> QED BY <4>1, <4>2, <4>3, CellsDiffer
    <3> QED BY <1>1, <1>2, <3>1 DEF RingInv, Window
  <2>2. pos[t] \in 0..(head - 1) BY <1>1
  <2>3. \/ sequence[Cell(pos[t])] = pos[t] + Size
        \/ \E c \in Consumers : Emptying(c) /\ pos[c] = pos[t]
    BY <2>1, <2>2 DEF RingInv, Accounted
  <2>4. sequence[Cell(pos[t])] # pos[t] + Size BY <1>1, <1>2, SizeAssumption
  <2>5. PICK c \in Consumers : Emptying(c) /\ pos[c] = pos[t] BY <2>3, <2>4
  <2>6. sequence[Cell(pos[t])] = pos[t] + 1 BY <2>5 DEF RingInv, ConsumersInv
  <2> QED BY <1>1, <1>2, <2>6
<1> QED BY <1>1, <1>2, <1>3
-----------------------------------------------------------------------------
(* Sequences by their elements. *)

(* A sequence that grows by one. *)
LEMMA SeqAppend ==
  ASSUME NEW S, NEW n \in Nat, NEW q, NEW r, q \in [1..n -> S], r \in [1..(n + 1) -> S],
         \A i \in 1..n : r[i] = q[i]
  PROVE  r = Append(q, r[n + 1])
<1>1. q \in Seq(S) /\ Len(q) = n /\ r \in Seq(S) /\ Len(r) = n + 1 OBVIOUS
<1>2. r[n + 1] \in S OBVIOUS
<1>3. PICK z : z = Append(q, r[n + 1]) OBVIOUS
<1>4. z \in Seq(S) /\ Len(z) = n + 1 /\ z[n + 1] = r[n + 1] /\ \A i \in 1..n : z[i] = q[i]
  BY <1>1, <1>2, <1>3, AppendProperties
<1>5. \A i \in 1..(n + 1) : z[i] = r[i]
  <2>1. \A i \in 1..(n + 1) : i \in 1..n \/ i = n + 1 OBVIOUS
  <2> QED BY <1>4, <2>1
<1> QED BY <1>1, <1>3, <1>4, <1>5, SeqEqual

(* A sequence that loses its first. *)
LEMMA SeqTail ==
  ASSUME NEW S, NEW n \in Nat, NEW q, NEW r, q \in [1..(n + 1) -> S], r \in [1..n -> S],
         \A i \in 1..n : r[i] = q[i + 1]
  PROVE  q # <<>> /\ Head(q) = q[1] /\ r = Tail(q)
<1>1. q \in Seq(S) /\ Len(q) = n + 1 /\ r \in Seq(S) /\ Len(r) = n OBVIOUS
<1>2. q # <<>> BY <1>1
<1>3. PICK z : z = Tail(q) OBVIOUS
<1>4. Head(q) = q[1] /\ z \in Seq(S) /\ Len(z) = n /\ \A i \in 1..n : z[i] = q[i + 1]
  BY <1>1, <1>2, <1>3, HeadTailProperties
<1>5. r = z BY <1>1, <1>4, SeqEqual
<1> QED BY <1>2, <1>3, <1>4, <1>5
-----------------------------------------------------------------------------
(* What the steps do to the queue that the ring stands for.                *)

(* The abstract queue has the length of the ring. *)
LEMMA BarTyped == TypeOK /\ RingInv => queueBar \in [1..(tail - head) -> Item \cup {None}]
<1> SUFFICES ASSUME TypeOK, RingInv, NEW i \in 1..(tail - head)
             PROVE  PacketAt(head + i - 1) \in Item \cup {None}
  BY DEF queueBar
<1>1. head + i - 1 \in head..(tail - 1) BY DEF TypeOK
<1> QED BY <1>1, HoldsIs DEF OnePacketEach

(* The same after a step. *)
LEMMA BarTypedNext ==
  (TypeOK /\ RingInv)' => (queueBar \in [1..(tail - head) -> Item \cup {None}])'
BY BarTyped, PTL

(* A step that keeps the packets keeps the abstract queue. *)
LEMMA QueueStays ==
  ASSUME TypeOK, RingInv, TypeOK', RingInv', head' = head, tail' = tail,
         \A p \in head..(tail - 1) : \A v : Holds(p, v) => Holds(p, v)'
  PROVE  queueBar' = queueBar
<1>1. \A p \in head..(tail - 1) : PacketAt(p)' = PacketAt(p) BY SamePacket
<1>2. \A i \in 1..(tail - head) : head + i - 1 \in head..(tail - 1) BY DEF TypeOK
<1>3. \A i \in 1..(tail - head) : PacketAt(head + i - 1)' = PacketAt(head + i - 1)
  <2> SUFFICES ASSUME NEW i \in 1..(tail - head)
               PROVE  PacketAt(head + i - 1)' = PacketAt(head + i - 1)
    OBVIOUS
  <2>1. PICK p \in head..(tail - 1) : p = head + i - 1 BY <1>2
  <2>2. PacketAt(p)' = PacketAt(p) BY <1>1
  <2> QED BY <2>1, <2>2
<1> QED BY <1>3 DEF queueBar

HandOf(c) == IF pc[c] = "read" THEN data[Cell(pos[c])] ELSE got[c]

(* A step that keeps the hands keeps the abstract hands. *)
LEMMA HandsStay ==
  ASSUME \A c \in Consumers : HandOf(c)' = HandOf(c)
  PROVE  handBar' = handBar
BY DEF handBar, HandOf

(* The steps of a push that do not change what is in the ring.             *)
LEMMA BarQuietPush ==
  ASSUME TypeOK, RingInv, TypeOK', RingInv', NEW t \in Producers,
         StartPush(t) \/ PushFree(t) \/ PushFull(t) \/ PushBehind(t) \/ PushReload(t) \/ PushLost(t)
  PROVE  queueBar' = queueBar /\ handBar' = handBar
<1> USE ThreadsAssumption DEF Threads, Goto
<1> USE DEF StartPush, PushFree, PushFull, PushBehind, PushReload, PushLost
<1>1. UNCHANGED <<sequence, data, tail, head, got>> OBVIOUS
<1>2. \A u \in Producers : Filling(u) => Filling(u)' /\ pos'[u] = pos[u] /\ InHand(u)' = InHand(u)
  BY DEF TypeOK, Filling, InHand
<1>3. \A p, v : Holds(p, v) => Holds(p, v)' BY <1>1, <1>2 DEF Holds
<1>4. \A c \in Consumers : pc'[c] = pc[c] /\ pos'[c] = pos[c] BY DEF TypeOK
<1>5. \A c \in Consumers : HandOf(c)' = HandOf(c) BY <1>1, <1>4 DEF HandOf
<1> QED BY <1>1, <1>3, <1>5, QueueStays, HandsStay

(* The packet goes from the producer's hand to its cell, which no other    *)
(* thread looks at.                                                        *)
LEMMA BarPushWrite ==
  ASSUME TypeOK, RingInv, TypeOK', RingInv', NEW t \in Producers, PushWrite(t)
  PROVE  queueBar' = queueBar /\ handBar' = handBar
<1> USE ThreadsAssumption DEF Threads
<1>1. /\ UNCHANGED <<sequence, tail, head, pos, pushes, got>>
      /\ pc' = [pc EXCEPT ![t] = "publish"] /\ pc[t] = "write"
      /\ data' = [data EXCEPT ![Cell(pos[t])] = InHand(t)]
      /\ pc \in [Threads -> {"idle", "look", "reload", "swap", "write", "publish",
                             "headNext", "tailNext", "pull", "read", "release"}]
  BY DEF PushWrite, Goto, TypeOK
<1>2. Filling(t) /\ sequence[Cell(pos[t])] = pos[t] /\ pos[t] \in Nat /\ pos[t] < tail
  BY <1>1 DEF Filling, RingInv, ProducersInv, TypeOK
<1>3. \A u \in Producers : Filling(u) => Filling(u)' /\ InHand(u)' = InHand(u)
  BY <1>1 DEF Filling, InHand
<1>4. ASSUME NEW p \in head..(tail - 1), NEW v, Holds(p, v) PROVE Holds(p, v)'
  <2>1. CASE sequence[Cell(p)] = p + 1 /\ v = data[Cell(p)]
    <3>1. p \in Nat BY DEF TypeOK
    <3>2. Cell(p) # Cell(pos[t])
      <4> SUFFICES ASSUME Cell(p) = Cell(pos[t]) PROVE FALSE OBVIOUS
      <4>1. pos[t] = p + 1 BY <1>2, <2>1
      <4> QED BY <3>1, <4>1, CellsDiffer
    <3>3. data'[Cell(p)] = data[Cell(p)] BY <1>1, <3>1, <3>2, CellType DEF TypeOK
    <3> QED BY <1>1, <2>1, <3>3 DEF Holds
  <2>2. CASE sequence[Cell(p)] # p + 1 BY <1>1, <1>3, <1>4, <2>2 DEF Holds
  <2> QED BY <1>4, <2>1, <2>2 DEF Holds
<1>5. ASSUME NEW c \in Consumers PROVE HandOf(c)' = HandOf(c)
  <2>1. pc'[c] = pc[c] BY <1>1
  <2>2. CASE pc[c] = "read"
    <3>1. Emptying(c) /\ c # t BY <2>2 DEF Emptying
    <3>2. Cell(pos[c]) # Cell(pos[t]) BY <1>2, <3>1, OwnersApart DEF CellExclusive, Owns
    <3>3. Cell(pos[c]) \in Cells BY CellType DEF TypeOK
    <3>4. data'[Cell(pos[c])] = data[Cell(pos[c])] BY <1>1, <3>2, <3>3 DEF TypeOK
    <3> QED BY <1>1, <2>1, <2>2, <3>4 DEF HandOf
  <2>3. CASE pc[c] # "read" BY <1>1, <2>1, <2>3 DEF HandOf
  <2> QED BY <2>2, <2>3
<1> QED BY <1>1, <1>4, <1>5, QueueStays, HandsStay

(* From now on the packet is found in the cell: it is the one written.     *)
LEMMA BarPushPublish ==
  ASSUME TypeOK, RingInv, HandInv, TypeOK', RingInv', NEW t \in Producers, PushPublish(t)
  PROVE  queueBar' = queueBar /\ handBar' = handBar
<1> USE ThreadsAssumption DEF Threads
<1>1. /\ UNCHANGED <<data, tail, head, pos, pushes, got>>
      /\ pc' = [pc EXCEPT ![t] = "idle"] /\ pc[t] = "publish"
      /\ sequence' = [sequence EXCEPT ![Cell(pos[t])] = pos[t] + 1]
      /\ pc \in [Threads -> {"idle", "look", "reload", "swap", "write", "publish",
                             "headNext", "tailNext", "pull", "read", "release"}]
  BY DEF PushPublish, Goto, TypeOK
<1>2. Filling(t) /\ pos[t] \in head..(tail - 1) /\ sequence[Cell(pos[t])] = pos[t]
  BY <1>1, FillingInWindow DEF Filling
<1>3. data[Cell(pos[t])] = InHand(t) BY <1>1 DEF HandInv
<1>4. Cell(pos[t]) \in Cells /\ pos[t] \in Nat BY CellType DEF TypeOK
<1>5. ASSUME NEW p \in head..(tail - 1), NEW v, Holds(p, v) PROVE Holds(p, v)'
  <2>1. CASE p = pos[t]
    <3>1. sequence[Cell(p)] # p + 1 BY <1>2, <1>4, <2>1
    <3>2. PICK u \in Producers : Filling(u) /\ pos[u] = p /\ v = InHand(u)
      BY <1>5, <3>1 DEF Holds
    <3>3. u = t BY <1>2, <2>1, <3>2 DEF RingInv, ProducersInv
    <3>4. sequence'[Cell(p)] = p + 1 BY <1>1, <1>4, <2>1 DEF TypeOK
    <3> QED BY <1>1, <1>3, <2>1, <3>2, <3>3, <3>4 DEF Holds
  <2>2. CASE p # pos[t]
    <3>1. Cell(p) # Cell(pos[t]) BY <1>2, <2>2, OneLap
    <3>2. Cell(p) \in Cells
      <4>1. p \in Nat BY DEF TypeOK
      <4> QED BY <4>1, CellType
    <3>3. sequence'[Cell(p)] = sequence[Cell(p)] BY <1>1, <3>1, <3>2 DEF TypeOK
    <3>4. \A u \in Producers : Filling(u) /\ pos[u] = p => Filling(u)' /\ InHand(u)' = InHand(u)
      BY <1>1, <2>2 DEF Filling, InHand
    <3> QED BY <1>1, <1>5, <3>3, <3>4 DEF Holds
  <2> QED BY <2>1, <2>2
<1>6. \A c \in Consumers : HandOf(c)' = HandOf(c) BY <1>1 DEF HandOf
<1> QED BY <1>1, <1>5, <1>6, QueueStays, HandsStay

BarAt == \A p \in head..(tail - 1) : queueBar[p - head + 1] = PacketAt(p)

(* The packets of the queue are those of the positions from head to tail. *)
LEMMA BarIs == TypeOK /\ RingInv => BarAt
<1> SUFFICES ASSUME TypeOK, RingInv, NEW p \in head..(tail - 1)
             PROVE  queueBar[p - head + 1] = PacketAt(p)
  BY DEF BarAt
<1>1. p - head + 1 \in 1..(tail - head) /\ head + (p - head + 1) - 1 = p BY DEF TypeOK
<1>2. PICK i \in 1..(tail - head) : i = p - head + 1 BY <1>1
<1>3. queueBar[i] = PacketAt(head + i - 1) BY DEF queueBar
<1> QED BY <1>1, <1>2, <1>3

(* The same of the next state. *)
LEMMA BarIsNext == (TypeOK /\ RingInv)' => BarAt'
BY BarIs, PTL

(* The exchange on tail puts the packet in the producer's hand last.       *)
LEMMA BarPushClaim ==
  ASSUME TypeOK, RingInv, TypeOK', RingInv', NEW t \in Producers, PushClaim(t)
  PROVE  /\ InHand(t) \in Item /\ Len(queueBar) < Size
         /\ queueBar' = Append(queueBar, InHand(t))
         /\ handBar' = handBar
<1> USE ThreadsAssumption DEF Threads
<1>1. /\ UNCHANGED <<sequence, data, head, pos, pushes, got>>
      /\ pc[t] = "swap" /\ tail = pos[t] /\ tail' = tail + 1
      /\ pc' = [pc EXCEPT ![t] = "write"]
  BY DEF PushClaim, Goto
<1>2. /\ head \in Nat /\ tail \in Nat /\ head <= tail
      /\ tail - head \in Nat /\ tail' - head' = (tail - head) + 1 /\ tail - head < Size
  BY <1>1, SizeAssumption DEF TypeOK, RingInv, Bounded
<1>19. head' = head /\ tail' = tail + 1 BY <1>1
<1>3. InHand(t) \in Item BY <1>1 DEF TypeOK
<1>4. \A u \in Producers : Filling(u) => Filling(u)' /\ InHand(u)' = InHand(u)
  BY <1>1 DEF Filling, InHand, TypeOK
<1>5. \A p, v : Holds(p, v) => Holds(p, v)' BY <1>1, <1>4 DEF Holds
<1>6. ASSUME NEW p \in head..(tail - 1) PROVE PacketAt(p)' = PacketAt(p)
  <2>1. p \in (head')..(tail' - 1) BY <1>2, <1>19
  <2> QED BY <1>5, <2>1, SamePacket
<1>7. PICK v : v = InHand(t) OBVIOUS
<1>8. PICK r : r = tail OBVIOUS
<1>9. Holds(r, v)'
  <2>1. sequence[Cell(r)] # r + 1 BY <1>1, <1>2, <1>8 DEF RingInv, ProducersInv
  <2>2. Filling(t)' /\ pos'[t] = r /\ v = InHand(t)'
    BY <1>1, <1>7, <1>8 DEF Filling, TypeOK, InHand
  <2> QED BY <1>1, <2>1, <2>2 DEF Holds
<1>10. PacketAt(r)' = v
  <2>1. r \in (head')..(tail' - 1) BY <1>2, <1>8, <1>19
  <2>2. \A x : Holds(r, x)' => x = PacketAt(r)' BY <2>1, HoldsIsNext DEF OnePacketEach
  <2> QED BY <1>9, <2>2
<1>11. PICK n \in Nat : n = tail - head BY <1>2
<1>12. PICK q \in [1..n -> Item \cup {None}] : q = queueBar BY <1>11, BarTyped
<1>13. PICK z \in [1..(n + 1) -> Item \cup {None}] : z = queueBar'
  BY <1>2, <1>11, BarTypedNext
<1>14. ASSUME NEW i \in 1..n PROVE z[i] = q[i]
  <2>1. PICK p \in head..(tail - 1) : p = head + i - 1 BY <1>2, <1>11
  <2>2. i = p - head + 1 /\ i = p - head' + 1 /\ p \in (head')..(tail' - 1)
    BY <1>2, <1>11, <1>19, <2>1
  <2>3. queueBar[p - head + 1] = PacketAt(p) BY BarIs DEF BarAt
  <2>4. queueBar'[p - head' + 1] = PacketAt(p)' BY <2>2, BarIsNext DEF BarAt
  <2> QED BY <1>6, <1>12, <1>13, <2>2, <2>3, <2>4
<1>15. z[n + 1] = v
  <2>1. r \in (head')..(tail' - 1) /\ n + 1 = r - head' + 1
    BY <1>2, <1>8, <1>11, <1>19
  <2>2. queueBar'[r - head' + 1] = PacketAt(r)' BY <2>1, BarIsNext DEF BarAt
  <2> QED BY <1>10, <1>13, <2>1, <2>2
<1>16. z = Append(q, v) BY <1>14, <1>15, SeqAppend
<1>17. Len(q) < Size
  <2>1. Len(q) = n OBVIOUS
  <2> QED BY <1>2, <1>11, <2>1
<1>18. \A c \in Consumers : HandOf(c)' = HandOf(c) BY <1>1 DEF HandOf, TypeOK
<1> QED BY <1>3, <1>7, <1>12, <1>13, <1>16, <1>17, <1>18, HandsStay

(* The steps of available and of a pull that change neither ring nor hand. *)
LEMMA BarQuietPull ==
  ASSUME TypeOK, RingInv, TypeOK', RingInv', NEW c \in Consumers,
         \/ Poll(c) \/ StartPull(c) \/ PullReady(c) \/ PullEmpty(c) \/ PullBehind(c)
         \/ PullReload(c) \/ PullLost(c) \/ PullRead(c)
  PROVE  queueBar' = queueBar /\ handBar' = handBar
<1> USE ThreadsAssumption DEF Threads, Goto, Poll, LoadTailFirst, LoadHeadFirst, LoadSecond,
                              StartPull, PullReady, PullEmpty, PullBehind, PullReload,
                              PullLost, PullRead
<1>1. UNCHANGED <<sequence, data, tail, head, pushes>> OBVIOUS
<1>2. \A u \in Producers : pc'[u] = pc[u] /\ pos'[u] = pos[u] BY DEF TypeOK
<1>3. \A p, v : Holds(p, v) => Holds(p, v)' BY <1>1, <1>2 DEF Holds, Filling, InHand
<1>4. \A d \in Consumers : d # c => pc'[d] = pc[d] /\ pos'[d] = pos[d] /\ got'[d] = got[d]
  BY DEF TypeOK
<1>5. HandOf(c)' = HandOf(c)
  <2>1. CASE PullRead(c) BY <2>1 DEF HandOf, TypeOK
  <2>2. CASE ~PullRead(c)
    <3>1. pc[c] # "read" /\ pc'[c] # "read" /\ got'[c] = got[c] BY <2>2 DEF TypeOK
    <3> QED BY <3>1 DEF HandOf
  <2> QED BY <2>1, <2>2
<1>6. \A d \in Consumers : HandOf(d)' = HandOf(d) BY <1>1, <1>4, <1>5 DEF HandOf
<1> QED BY <1>1, <1>3, <1>6, QueueStays, HandsStay

(* The exchange on head takes the first packet into the consumer's hand.   *)
LEMMA BarPullClaim ==
  ASSUME TypeOK, RingInv, HandInv, TypeOK', RingInv', NEW c \in Consumers, PullClaim(c)
  PROVE  /\ handBar[c] = None /\ queueBar # <<>>
         /\ handBar' = [handBar EXCEPT ![c] = Head(queueBar)]
         /\ queueBar' = Tail(queueBar)
<1> USE ThreadsAssumption DEF Threads
<1>1. /\ UNCHANGED <<sequence, data, tail, pos, pushes, got>>
      /\ pc[c] = "swap" /\ head = pos[c] /\ head' = head + 1
      /\ pc' = [pc EXCEPT ![c] = "read"]
  BY DEF PullClaim, Goto
<1>2. head' = head + 1 /\ tail' = tail BY <1>1
<1>3. /\ head \in Nat /\ tail \in Nat /\ head < tail
      /\ tail - head - 1 \in Nat /\ tail' - head' = tail - head - 1
  BY <1>2 DEF TypeOK, RingInv, Bounded
<1>4. \A u \in Producers : pc'[u] = pc[u] /\ pos'[u] = pos[u] BY <1>1 DEF TypeOK
<1>5. \A p, v : Holds(p, v) => Holds(p, v)' BY <1>1, <1>4 DEF Holds, Filling, InHand
<1>6. ASSUME NEW p \in (head')..(tail' - 1)
      PROVE  p \in head..(tail - 1) /\ PacketAt(p)' = PacketAt(p)
  <2>1. p \in head..(tail - 1) BY <1>2, <1>3
  <2> QED BY <1>5, <2>1, SamePacket
<1>7. PICK r : r = head OBVIOUS
<1>8. PacketAt(r) = data[Cell(r)]
  <2>1. sequence[Cell(r)] = r + 1 BY <1>1, <1>7 DEF RingInv, ConsumersInv
  <2> QED BY <2>1 DEF PacketAt
<1>9. PICK n \in Nat : n = tail - head - 1 BY <1>3
<1>10. n + 1 = tail - head BY <1>3, <1>9
<1>11. PICK q \in [1..(n + 1) -> Item \cup {None}] : q = queueBar BY <1>10, BarTyped
<1>12. PICK z \in [1..n -> Item \cup {None}] : z = queueBar' BY <1>3, <1>9, BarTypedNext
<1>13. ASSUME NEW i \in 1..n PROVE z[i] = q[i + 1]
  <2>1. PICK p \in (head')..(tail' - 1) : p = head + i BY <1>2, <1>3, <1>9
  <2>2. i + 1 = p - head + 1 /\ i = p - head' + 1 BY <1>2, <1>3, <1>9, <2>1
  <2>3. queueBar[p - head + 1] = PacketAt(p) BY <1>6, BarIs DEF BarAt
  <2>4. queueBar'[p - head' + 1] = PacketAt(p)' BY BarIsNext DEF BarAt
  <2> QED BY <1>6, <1>11, <1>12, <2>2, <2>3, <2>4
<1>14. q # <<>> /\ Head(q) = q[1] /\ z = Tail(q) BY <1>13, SeqTail
<1>15. q[1] = data[Cell(r)]
  <2>1. r \in head..(tail - 1) /\ r - head + 1 = 1 BY <1>3, <1>7
  <2>2. queueBar[r - head + 1] = PacketAt(r) BY <2>1, BarIs DEF BarAt
  <2> QED BY <1>8, <1>11, <2>1, <2>2
<1>16. handBar[c] = None /\ handBar'[c] = data[Cell(r)]
  <2>1. got[c] = None BY <1>1 DEF HandInv
  <2>2. pc'[c] = "read" BY <1>1 DEF TypeOK
  <2> QED BY <1>1, <1>7, <2>1, <2>2 DEF handBar
<1>17. handBar' = [handBar EXCEPT ![c] = data[Cell(r)]]
  <2>1. \A d \in Consumers : d # c => pc'[d] = pc[d] BY <1>1 DEF TypeOK
  <2>2. \A d \in Consumers : d # c => handBar'[d] = handBar[d] BY <1>1, <2>1 DEF handBar
  <2>3. handBar = [d \in Consumers |-> handBar[d]] /\ handBar' = [d \in Consumers |-> handBar'[d]]
    BY DEF handBar
  <2> QED BY <1>16, <2>2, <2>3
<1> QED BY <1>11, <1>12, <1>14, <1>15, <1>16, <1>17

(* Giving the cell to the next lap does not touch the packets of this one. *)
LEMMA BarPullRelease ==
  ASSUME TypeOK, RingInv, TypeOK', RingInv', NEW c \in Consumers, PullRelease(c)
  PROVE  queueBar' = queueBar /\ handBar' = [handBar EXCEPT ![c] = None]
<1> USE ThreadsAssumption DEF Threads
<1>1. /\ UNCHANGED <<data, tail, head, pos, pushes>>
      /\ pc[c] = "release" /\ pc' = [pc EXCEPT ![c] = "idle"]
      /\ got' = [got EXCEPT ![c] = None]
      /\ sequence' = [sequence EXCEPT ![Cell(pos[c])] = pos[c] + Size]
  BY DEF PullRelease, Goto
<1>2. /\ Emptying(c) /\ sequence[Cell(pos[c])] = pos[c] + 1 /\ pos[c] < head
      /\ pos[c] \in Nat /\ head \in Nat /\ tail \in Nat
  BY <1>1 DEF Emptying, RingInv, ConsumersInv, TypeOK
<1>3. \A u \in Producers : pc'[u] = pc[u] BY <1>1 DEF TypeOK
<1>4. \A u \in Producers : Filling(u) => Filling(u)' /\ InHand(u)' = InHand(u)
  BY <1>1, <1>3 DEF Filling, InHand
<1>5. ASSUME NEW p \in head..(tail - 1), NEW v, Holds(p, v) PROVE Holds(p, v)'
  <2>1. p \in Nat /\ p > pos[c] /\ Cell(p) \in Cells
    <3>1. p \in Nat /\ p > pos[c] BY <1>2
    <3> QED BY <3>1, CellType
  <2>2. Cell(p) # Cell(pos[c])
    <3> SUFFICES ASSUME Cell(p) = Cell(pos[c]) PROVE FALSE OBVIOUS
    <3>1. sequence[Cell(p)] = pos[c] + 1 BY <1>2
    <3>2. sequence[Cell(p)] # p + 1 BY <1>2, <2>1, <3>1
    <3>3. PICK u \in Producers : Filling(u) /\ pos[u] = p BY <1>5, <3>2 DEF Holds
    <3>4. sequence[Cell(p)] = p BY <3>3 DEF RingInv, ProducersInv
    <3>5. p = pos[c] + 1 BY <3>1, <3>4
    <3> QED BY <1>2, <3>5, CellsDiffer
  <2>3. sequence'[Cell(p)] = sequence[Cell(p)] BY <1>1, <2>1, <2>2 DEF TypeOK
  <2> QED BY <1>1, <1>4, <1>5, <2>3 DEF Holds
<1>6. handBar' = [handBar EXCEPT ![c] = None]
  <2>1. handBar'[c] = None BY <1>1 DEF handBar, TypeOK
  <2>2. \A d \in Consumers : d # c => pc'[d] = pc[d] /\ got'[d] = got[d] BY <1>1 DEF TypeOK
  <2>3. \A d \in Consumers : d # c => handBar'[d] = handBar[d] BY <1>1, <2>2 DEF handBar
  <2>4. handBar = [d \in Consumers |-> handBar[d]] /\ handBar' = [d \in Consumers |-> handBar'[d]]
    BY DEF handBar
  <2> QED BY <2>1, <2>3, <2>4
<1> QED BY <1>1, <1>5, <1>6, QueueStays

(* The ring starts as an empty queue. *)
LEMMA BarInit == Init => Promise!Init
<1> SUFFICES ASSUME Init PROVE queueBar = <<>> /\ handBar = [c \in Consumers |-> None]
  BY DEF Promise!Init
<1>1. queueBar = <<>>
  <2>1. 1..(tail - head) = {} BY DEF Init
  <2> QED BY <2>1 DEF queueBar
<1>2. \A c \in Consumers : pc[c] # "read" /\ got[c] = None BY DEF Init, Threads
<1> QED BY <1>1, <1>2 DEF handBar

(* Every step of the ring is a step of the queue or changes nothing of it. *)
LEMMA BarStep ==
  TypeOK /\ RingInv /\ HandInv /\ (TypeOK /\ RingInv)' /\ [Next]_vars
    => [Promise!Next]_(Promise!vars)
<1> SUFFICES ASSUME TypeOK, RingInv, HandInv, TypeOK', RingInv', [Next]_vars
             PROVE  Promise!Next \/ (queueBar' = queueBar /\ handBar' = handBar)
  BY DEF Promise!vars
<1>1. ASSUME NEW t \in Producers, StartPush(t) \/ PushStep(t)
      PROVE  Promise!Next \/ (queueBar' = queueBar /\ handBar' = handBar)
  <2>1. CASE PushClaim(t)
    <3>1. Promise!Push(InHand(t)) /\ InHand(t) \in Item BY <2>1, BarPushClaim DEF Promise!Push
    <3> QED BY <3>1 DEF Promise!Next
  <2>2. CASE PushWrite(t) BY <2>2, BarPushWrite
  <2>3. CASE PushPublish(t) BY <2>3, BarPushPublish
  <2> QED BY <1>1, <2>1, <2>2, <2>3, BarQuietPush DEF PushStep
<1>2. ASSUME NEW c \in Consumers, Poll(c) \/ PullStep(c)
      PROVE  Promise!Next \/ (queueBar' = queueBar /\ handBar' = handBar)
  <2>1. CASE PullClaim(c)
    <3>1. Promise!Pull(c) BY <2>1, BarPullClaim DEF Promise!Pull
    <3> QED BY <3>1 DEF Promise!Next
  <2>2. CASE PullRelease(c)
    <3>1. queueBar' = queueBar /\ handBar' = [handBar EXCEPT ![c] = None]
      BY <2>2, BarPullRelease
    <3>2. CASE handBar[c] # None
      <4>1. Promise!Return(c) BY <3>1, <3>2 DEF Promise!Return
      <4> QED BY <4>1 DEF Promise!Next
    <3>3. CASE handBar[c] = None
      <4>1. handBar = [d \in Consumers |-> handBar[d]] BY DEF handBar
      <4>2. handBar' = handBar BY <3>1, <3>3, <4>1
      <4> QED BY <3>1, <4>2
    <3> QED BY <3>2, <3>3
  <2> QED BY <1>2, <2>1, <2>2, BarQuietPull DEF PullStep
<1>3. CASE UNCHANGED vars
  <2>1. \A p, v : Holds(p, v) => Holds(p, v)' BY <1>3 DEF vars, Holds, Filling, InHand
  <2>2. \A c \in Consumers : HandOf(c)' = HandOf(c) BY <1>3 DEF vars, HandOf
  <2> QED BY <1>3, <2>1, <2>2, QueueStays, HandsStay DEF vars
<1> QED BY <1>1, <1>2, <1>3 DEF Next

(***************************************************************************)
(* The ring of atomics implements the queue it stands for: a push takes    *)
(* effect at its exchange on tail, a pull at its exchange on head, and no  *)
(* packet is lost, doubled, reordered or read before it was written.       *)
(***************************************************************************)
THEOREM RingKeepsPromise == Spec => KeepsPromise
<1>1. Spec => []HandInv
  BY HandInit, HandStep, TypeCorrect, RingCorrect, PTL DEF Spec
<1> QED BY <1>1, BarInit, BarStep, TypeCorrect, RingCorrect, PTL
        DEF Spec, KeepsPromise, Promise!Spec
=============================================================================
