----------------------------- MODULE MpmcQueue ------------------------------
(***************************************************************************)
(* opera-v2/mpmc_queue.c: the lock-free bounded queue that carries packets *)
(* between the receiving and the sending threads.  Each atomic load,       *)
(* compare-and-swap and store of the code is one step here, so that any    *)
(* other thread may run in between.                                        *)
(*                                                                         *)
(* Positions are never reduced: tail and head count every claim ever made, *)
(* and a position p lives in the cell p % Size.  A cell whose sequence is  *)
(* p is free for the push at p; with p + 1 it holds the packet pushed at   *)
(* p; the pull at p frees it for p + Size.                                 *)
(***************************************************************************)
EXTENDS Naturals, Sequences

CONSTANTS Producers,   \* threads that push (RX threads)
          Consumers,   \* threads that poll and pull (TX threads)
          Size,        \* number of cells
          MaxPushes,   \* bound: push calls per producer
          None         \* "no value": an empty cell, an empty register

Threads == Producers \cup Consumers

(* mpmc_queue_init refuses any other size with -1 (mpmc_queue.c:40). *)
ASSUME SizeAssumption == Size \in Nat /\ Size >= 2
ASSUME SizeIsPowerOfTwo == \E k \in 1..Size : Size = 2^k

ASSUME ThreadsAssumption == Producers \cap Consumers = {}
ASSUME BoundAssumption == MaxPushes \in Nat

VARIABLES sequence,  \* cell -> its sequence number
          data,      \* cell -> the packet stored in it
          tail,      \* next position to push at
          head,      \* next position to pull from
          pc,        \* thread -> where it is in push, available or pull
          pos,       \* thread -> its local copy of tail or head
          pushes,    \* producer -> calls of push so far; numbers its packets
          got,       \* consumer -> *ptr, the packet read from the cell
          loaded     \* consumer -> the first of the two loads of available

vars == <<sequence, data, tail, head, pc, pos, pushes, got, loaded>>

Cells == 0 .. Size - 1

(* cell = &q->buffer[pos & q->buffer_mask]; Size is a power of two. *)
Cell(p) == p % Size

(* A packet is named by its producer and by the number of the push call. *)
Item == [by : Producers, n : 1..MaxPushes]
InHand(t) == [by |-> t, n |-> pushes[t]]

Goto(t, l) == pc' = [pc EXCEPT ![t] = l]

Init == /\ sequence = [i \in Cells |-> i]
        /\ data = [i \in Cells |-> None]
        /\ tail = 0
        /\ head = 0
        /\ pc = [t \in Threads |-> "idle"]
        /\ pos = [t \in Threads |-> 0]
        /\ pushes = [t \in Producers |-> 0]
        /\ got = [c \in Consumers |-> None]
        /\ loaded = [c \in Consumers |-> None]
-----------------------------------------------------------------------------
(* mpmc_queue_push *)

(* The call, up to the first load of tail. *)
StartPush(t) ==
  /\ pc[t] = "idle"
  /\ pushes[t] < MaxPushes
  /\ pushes' = [pushes EXCEPT ![t] = @ + 1]
  /\ pos' = [pos EXCEPT ![t] = tail]
  /\ Goto(t, "look")
  /\ UNCHANGED <<sequence, data, tail, head, got, loaded>>

(* A slip: the cell is taken on any earlier lap, read or not. *)
PushFreeOnAnyLap(t) ==
  /\ pc[t] = "look"
  /\ sequence[Cell(pos[t])] <= pos[t]
  /\ Goto(t, "swap")
  /\ UNCHANGED <<sequence, data, tail, head, pos, pushes, got, loaded>>

(* seq is loaded and compared with pos: the cell is free for this position. *)
PushFree(t) ==
  /\ pc[t] = "look"
  /\ sequence[Cell(pos[t])] = pos[t]
  /\ Goto(t, "swap")
  /\ UNCHANGED <<sequence, data, tail, head, pos, pushes, got, loaded>>

(* A slip: "not free" taken for "full". *)
PushFullUnlessFree(t) ==
  /\ pc[t] = "look"
  /\ sequence[Cell(pos[t])] # pos[t]
  /\ Goto(t, "idle")
  /\ UNCHANGED <<sequence, data, tail, head, pos, pushes, got, loaded>>

(* diff < 0, the cell still belongs to the previous lap: return 0. *)
PushFull(t) ==
  /\ pc[t] = "look"
  /\ sequence[Cell(pos[t])] < pos[t]
  /\ Goto(t, "idle")
  /\ UNCHANGED <<sequence, data, tail, head, pos, pushes, got, loaded>>

(* diff > 0, another producer took this position: load tail again. *)
PushBehind(t) ==
  /\ pc[t] = "look"
  /\ sequence[Cell(pos[t])] > pos[t]
  /\ Goto(t, "reload")
  /\ UNCHANGED <<sequence, data, tail, head, pos, pushes, got, loaded>>

(* A slip: the loop goes on with the tail it had. *)
PushReloadNothing(t) ==
  /\ pc[t] = "reload"
  /\ Goto(t, "look")
  /\ UNCHANGED <<sequence, data, tail, head, pos, pushes, got, loaded>>

PushReload(t) ==
  /\ pc[t] = "reload"
  /\ pos' = [pos EXCEPT ![t] = tail]
  /\ Goto(t, "look")
  /\ UNCHANGED <<sequence, data, tail, head, pushes, got, loaded>>

(* A slip: a plain store of tail instead of the exchange. *)
PushClaimBlindly(t) ==
  /\ pc[t] = "swap"
  /\ tail' = pos[t] + 1
  /\ Goto(t, "write")
  /\ UNCHANGED <<sequence, data, head, pos, pushes, got, loaded>>

(* The compare-and-swap succeeds: position pos belongs to t. *)
PushClaim(t) ==
  /\ pc[t] = "swap"
  /\ tail = pos[t]
  /\ tail' = pos[t] + 1
  /\ Goto(t, "write")
  /\ UNCHANGED <<sequence, data, head, pos, pushes, got, loaded>>

(* It fails, because tail moved or because a weak exchange may fail for no *)
(* reason, and leaves the current tail in pos.                             *)
PushLost(t) ==
  /\ pc[t] = "swap"
  /\ pos' = [pos EXCEPT ![t] = tail]
  /\ Goto(t, "look")
  /\ UNCHANGED <<sequence, data, tail, head, pushes, got, loaded>>

PushWrite(t) ==
  /\ pc[t] = "write"
  /\ data' = [data EXCEPT ![Cell(pos[t])] = InHand(t)]
  /\ Goto(t, "publish")
  /\ UNCHANGED <<sequence, tail, head, pos, pushes, got, loaded>>

(* The releasing store of the sequence number; return 1. *)
PushPublish(t) ==
  /\ pc[t] = "publish"
  /\ sequence' = [sequence EXCEPT ![Cell(pos[t])] = pos[t] + 1]
  /\ Goto(t, "idle")
  /\ UNCHANGED <<data, tail, head, pos, pushes, got, loaded>>
-----------------------------------------------------------------------------
(* mpmc_queue_available: two loads, in an order C leaves open. *)

LoadTailFirst(c) ==
  /\ pc[c] = "idle"
  /\ loaded' = [loaded EXCEPT ![c] = tail]
  /\ Goto(c, "headNext")
  /\ UNCHANGED <<sequence, data, tail, head, pos, pushes, got>>

LoadHeadFirst(c) ==
  /\ pc[c] = "idle"
  /\ loaded' = [loaded EXCEPT ![c] = head]
  /\ Goto(c, "tailNext")
  /\ UNCHANGED <<sequence, data, tail, head, pos, pushes, got>>

(* A slip: the head loaded first is compared as if the queue were empty    *)
(* only when the two differ.                                               *)
LoadSecondInverted(c) ==
  /\ \/ pc[c] = "headNext" /\ Goto(c, IF loaded[c] # head THEN "idle" ELSE "pull")
     \/ pc[c] = "tailNext" /\ Goto(c, IF loaded[c] # tail THEN "idle" ELSE "pull")
  /\ loaded' = [loaded EXCEPT ![c] = None]
  /\ UNCHANGED <<sequence, data, tail, head, pos, pushes, got>>

(* The caller's loop condition: any difference but zero, a negative one    *)
(* wrapped to a huge size_t included, leads to a pull.                     *)
LoadSecond(c) ==
  /\ \/ pc[c] = "headNext" /\ Goto(c, IF loaded[c] = head THEN "idle" ELSE "pull")
     \/ pc[c] = "tailNext" /\ Goto(c, IF loaded[c] = tail THEN "idle" ELSE "pull")
  /\ loaded' = [loaded EXCEPT ![c] = None]
  /\ UNCHANGED <<sequence, data, tail, head, pos, pushes, got>>
-----------------------------------------------------------------------------
(* mpmc_queue_pull *)

StartPull(c) ==
  /\ pc[c] = "pull"
  /\ pos' = [pos EXCEPT ![c] = head]
  /\ Goto(c, "look")
  /\ UNCHANGED <<sequence, data, tail, head, pushes, got, loaded>>

PullReady(c) ==
  /\ pc[c] = "look"
  /\ sequence[Cell(pos[c])] = pos[c] + 1
  /\ Goto(c, "swap")
  /\ UNCHANGED <<sequence, data, tail, head, pos, pushes, got, loaded>>

(* A slip: "not ready" taken for "empty". *)
PullEmptyUnlessReady(c) ==
  /\ pc[c] = "look"
  /\ sequence[Cell(pos[c])] # pos[c] + 1
  /\ Goto(c, "idle")
  /\ UNCHANGED <<sequence, data, tail, head, pos, pushes, got, loaded>>

(* diff < 0, nothing published at this position yet: return 0. *)
PullEmpty(c) ==
  /\ pc[c] = "look"
  /\ sequence[Cell(pos[c])] < pos[c] + 1
  /\ Goto(c, "idle")
  /\ UNCHANGED <<sequence, data, tail, head, pos, pushes, got, loaded>>

(* diff > 0, another consumer took this position: load head again. *)
PullBehind(c) ==
  /\ pc[c] = "look"
  /\ sequence[Cell(pos[c])] > pos[c] + 1
  /\ Goto(c, "reload")
  /\ UNCHANGED <<sequence, data, tail, head, pos, pushes, got, loaded>>

PullReload(c) ==
  /\ pc[c] = "reload"
  /\ pos' = [pos EXCEPT ![c] = head]
  /\ Goto(c, "look")
  /\ UNCHANGED <<sequence, data, tail, head, pushes, got, loaded>>

(* Two slips: a plain store of head instead of the exchange, and one that  *)
(* counts down.                                                            *)
PullClaimBlindly(c) ==
  /\ pc[c] = "swap"
  /\ head' = pos[c] + 1
  /\ Goto(c, "read")
  /\ UNCHANGED <<sequence, data, tail, pos, pushes, got, loaded>>

PullClaimDown(c) ==
  /\ pc[c] = "swap"
  /\ head = pos[c]
  /\ head' = pos[c] - 1
  /\ Goto(c, "read")
  /\ UNCHANGED <<sequence, data, tail, pos, pushes, got, loaded>>

PullClaim(c) ==
  /\ pc[c] = "swap"
  /\ head = pos[c]
  /\ head' = pos[c] + 1
  /\ Goto(c, "read")
  /\ UNCHANGED <<sequence, data, tail, pos, pushes, got, loaded>>

PullLost(c) ==
  /\ pc[c] = "swap"
  /\ pos' = [pos EXCEPT ![c] = head]
  /\ Goto(c, "look")
  /\ UNCHANGED <<sequence, data, tail, head, pushes, got, loaded>>

PullRead(c) ==
  /\ pc[c] = "read"
  /\ got' = [got EXCEPT ![c] = data[Cell(pos[c])]]
  /\ Goto(c, "release")
  /\ UNCHANGED <<sequence, data, tail, head, pos, pushes, loaded>>

(* A slip: pos + buffer_mask, one short of the next lap. *)
PullReleaseShort(c) ==
  /\ pc[c] = "release"
  /\ sequence' = [sequence EXCEPT ![Cell(pos[c])] = pos[c] + Size - 1]
  /\ Goto(c, "idle")
  /\ got' = [got EXCEPT ![c] = None]
  /\ UNCHANGED <<data, tail, head, pos, pushes, loaded>>

(* A slip: pos + buffer_mask + 2, beyond the next lap. *)
PullReleaseLate(c) ==
  /\ pc[c] = "release"
  /\ sequence' = [sequence EXCEPT ![Cell(pos[c])] = pos[c] + Size + 1]
  /\ Goto(c, "idle")
  /\ got' = [got EXCEPT ![c] = None]
  /\ UNCHANGED <<data, tail, head, pos, pushes, loaded>>

(* The cell is free for the next lap: pos + buffer_mask + 1; return 1. *)
PullRelease(c) ==
  /\ pc[c] = "release"
  /\ sequence' = [sequence EXCEPT ![Cell(pos[c])] = pos[c] + Size]
  /\ Goto(c, "idle")
  /\ got' = [got EXCEPT ![c] = None]
  /\ UNCHANGED <<data, tail, head, pos, pushes, loaded>>
-----------------------------------------------------------------------------
PushStep(t) == \/ PushFree(t) \/ PushFull(t) \/ PushBehind(t) \/ PushReload(t)
               \/ PushClaim(t) \/ PushLost(t) \/ PushWrite(t) \/ PushPublish(t)

Poll(c) == LoadTailFirst(c) \/ LoadHeadFirst(c) \/ LoadSecond(c)

PullStep(c) == \/ StartPull(c) \/ PullReady(c) \/ PullEmpty(c) \/ PullBehind(c)
               \/ PullReload(c) \/ PullClaim(c) \/ PullLost(c) \/ PullRead(c)
               \/ PullRelease(c)

Next == \/ \E t \in Producers : StartPush(t) \/ PushStep(t)
        \/ \E c \in Consumers : Poll(c) \/ PullStep(c)

Spec == Init /\ [][Next]_vars

(* A push that was called runs on, a TX thread never stops polling, and a  *)
(* weak compare-and-swap that could succeed again and again does so in the *)
(* end.  No fairness makes a producer call push.                           *)
Fairness == /\ \A t \in Producers : /\ WF_vars(PushStep(t))
                                    /\ SF_vars(PushClaim(t))
            /\ \A c \in Consumers : /\ WF_vars(Poll(c) \/ PullStep(c))
                                    /\ SF_vars(PullClaim(c))

FairSpec == Spec /\ Fairness
-----------------------------------------------------------------------------
TypeOK ==
  /\ sequence \in [Cells -> Nat]
  /\ data \in [Cells -> Item \cup {None}]
  /\ tail \in Nat
  /\ head \in Nat
  /\ pc \in [Threads -> {"idle", "look", "reload", "swap", "write", "publish",
                         "headNext", "tailNext", "pull", "read", "release"}]
  /\ \A t \in Producers :
       /\ pc[t] \in {"idle", "look", "reload", "swap", "write", "publish"}
       /\ pc[t] # "idle" => InHand(t) \in Item
  /\ \A c \in Consumers : pc[c] \notin {"write", "publish"}
  /\ pos \in [Threads -> Nat]
  /\ pushes \in [Producers -> 0..MaxPushes]
  /\ got \in [Consumers -> Item \cup {None}]
  /\ loaded \in [Consumers -> Nat \cup {None}]

(* t has won position pos[t] and has not yet given its cell on. *)
Filling(t) == pc[t] \in {"write", "publish"}
Emptying(c) == pc[c] \in {"read", "release"}
Owns(t) == Filling(t) \/ Emptying(t)

(***************************************************************************)
(* The plain accesses cell->data = ptr and *ptr = cell->data race with     *)
(* nothing: two threads that have both won a position are never in the     *)
(* same cell, on whatever lap of the ring each of them is.                 *)
(***************************************************************************)
CellExclusive ==
  \A t, u \in Threads : t # u /\ Owns(t) /\ Owns(u) => Cell(pos[t]) # Cell(pos[u])

(***************************************************************************)
(* Pulls never overtake pushes and pushes never lap pulls, although tail   *)
(* and head are never compared with each other by push or by pull.         *)
(***************************************************************************)
Bounded == head <= tail /\ tail <= head + Size

(***************************************************************************)
(* push returns 0 only if the position one lap back has not been released: *)
(* nobody has pulled from it, or a consumer that won it is still reading.  *)
(***************************************************************************)
PushFullJustified ==
  [][\A t \in Producers : PushFull(t) =>
       \/ head + Size <= pos[t]
       \/ \E c \in Consumers : Emptying(c) /\ pos[c] + Size = pos[t]]_vars

(***************************************************************************)
(* pull returns 0 only if its position has not been pushed to, or if the   *)
(* producer that won it has not yet published.  In the second case the     *)
(* packets behind it wait, however many there are.                         *)
(***************************************************************************)
PullEmptyJustified ==
  [][\A c \in Consumers : PullEmpty(c) =>
       \/ tail <= pos[c]
       \/ \E t \in Producers : Filling(t) /\ pos[t] = pos[c]]_vars

(***************************************************************************)
(* A call that finds its cell beyond its position goes round again.  It    *)
(* does so only after another thread has won that position since the call  *)
(* loaded it: a lap of one loop is progress of another, and with a sole    *)
(* consumer pull never goes round.                                         *)
(***************************************************************************)
RetriesJustified ==
  [][/\ \A t \in Producers : PushBehind(t) => pos[t] < tail
     /\ \A c \in Consumers : PullBehind(c) => pos[c] < head]_vars

(***************************************************************************)
(* mpmc_queue_available is "only an estimation".  For the only consumer of *)
(* a queue, which every queue of the emulator has, it errs on one side: a  *)
(* nonzero answer means that a position has been claimed and not pulled.   *)
(***************************************************************************)
SoleConsumerSeesWork ==
  (\A c, d \in Consumers : c = d)
     => \A c \in Consumers : pc[c] = "pull" => head < tail
-----------------------------------------------------------------------------
(* The packet of position p: in the cell, or still in its producer's hand. *)
PacketAt(p) ==
  IF sequence[Cell(p)] = p + 1
  THEN data[Cell(p)]
  ELSE InHand(CHOOSE t \in Producers : Filling(t) /\ pos[t] = p)

(* A push takes effect when it wins tail, a pull when it wins head. *)
queueBar == [i \in 1..(tail - head) |-> PacketAt(head + i - 1)]
handBar == [c \in Consumers |-> IF pc[c] = "read" THEN data[Cell(pos[c])] ELSE got[c]]

Promise == INSTANCE BoundedQueue
             WITH Puller <- Consumers, Capacity <- Size,
                  queue <- queueBar, hand <- handBar

(***************************************************************************)
(* The ring keeps the promise of BoundedQueue: packets come out in the     *)
(* order of the claims, none twice, none overwritten or read before it was *)
(* written, never more than Size of them.                                  *)
(***************************************************************************)
KeepsPromise == Promise!Spec

InQueue(v) == \E p \in head..(tail - 1) : PacketAt(p) = v

(***************************************************************************)
(* A packet whose push won a position leaves the queue: a polling consumer *)
(* reaches it although available and pull may fail behind slow producers.  *)
(***************************************************************************)
EveryPacketPulled == \A v \in Item : InQueue(v) ~> ~InQueue(v)

(***************************************************************************)
(* Every push returns, 1 or 0, unless pushes go on winning positions for   *)
(* ever: the queue is lock-free, and not more than that.  A producer that  *)
(* others overtake between each of its loads of tail and the exchange may  *)
(* stay in the loop.  Where MaxPushes ends the competition, it returns.    *)
(***************************************************************************)
PushesProgress ==
  \A t \in Producers : (pc[t] # "idle" ~> pc[t] = "idle") \/ []<><<tail' # tail>>_vars
-----------------------------------------------------------------------------
(***************************************************************************)
(* The inductive invariant.  A cell is free for the position that is its   *)
(* sequence number, or holds the packet pushed one position earlier.       *)
(***************************************************************************)
Free(i) == Cell(sequence[i]) = i
Full(i) == sequence[i] > 0 /\ Cell(sequence[i] - 1) = i

(* Every sequence number is within one lap of tail, and a free cell within *)
(* one lap of head.                                                        *)
Window ==
  \A i \in Cells :
    \/ /\ Free(i)
       /\ tail <= sequence[i] + Size
       /\ sequence[i] < tail + Size
       /\ sequence[i] < head + Size
    \/ /\ Full(i)
       /\ sequence[i] <= tail
       /\ tail < sequence[i] + Size

(* A producer whose next step is the exchange would win a free cell; one   *)
(* that has won keeps it free until it publishes; no two won the same.     *)
ProducersInv ==
  /\ \A t \in Producers :
       /\ pos[t] <= tail
       /\ pc[t] = "swap" /\ pos[t] = tail => sequence[Cell(tail)] = tail
       /\ Filling(t) => sequence[Cell(pos[t])] = pos[t] /\ pos[t] < tail
  /\ \A t, u \in Producers : Filling(t) /\ Filling(u) /\ pos[t] = pos[u] => t = u

ConsumersInv ==
  /\ \A c \in Consumers :
       /\ pos[c] <= head
       /\ pc[c] = "swap" /\ pos[c] = head => sequence[Cell(head)] = head + 1
       /\ Emptying(c) => sequence[Cell(pos[c])] = pos[c] + 1 /\ pos[c] < head
  /\ \A c, d \in Consumers : Emptying(c) /\ Emptying(d) /\ pos[c] = pos[d] => c = d

(* A position won by a push and by no pull is published or being filled; a *)
(* position won by a pull in this lap is released or being emptied.        *)
Accounted ==
  /\ \A p \in head..(tail - 1) :
       \/ sequence[Cell(p)] = p + 1
       \/ \E t \in Producers : Filling(t) /\ pos[t] = p
  /\ \A p \in 0..(head - 1) : tail <= p + Size =>
       \/ sequence[Cell(p)] = p + Size
       \/ \E c \in Consumers : Emptying(c) /\ pos[c] = p

RingInv == Bounded /\ Window /\ ProducersInv /\ ConsumersInv /\ Accounted
=============================================================================
