----------------------------- MODULE BufferPool -----------------------------
(***************************************************************************)
(* opera-v2/mempool.h: the packet buffers of the emulator.  A pool of      *)
(* slabs, each an array of buffer addresses, is shared by the ports under  *)
(* a lock; every port keeps a cache of two slabs, one it consumes from     *)
(* (to replenish the fill queue) and one it produces to (sent or dropped   *)
(* buffers), and trades an emptied or filled slab with the pool.           *)
(*                                                                         *)
(* The cache itself has no lock.  Its consumer side belongs to the port's  *)
(* receiving thread; its producer side is used by the port's sending       *)
(* thread and, when a packet finds its queue full, by the receiving thread *)
(* as well.  The steps of bcache_prod are therefore single steps here.     *)
(*                                                                         *)
(* What was sent comes back through the completion ring, which the sending *)
(* thread looks at only when it has another burst to send                  *)
(* (port_tx_burst_collector): the buffers of the last bursts stay away.    *)
(***************************************************************************)
EXTENDS Naturals, Sequences, FiniteSets, Bags

CONSTANTS NPorts,        \* ports, initialised in the order 0, 1, ...
          NSlabs,        \* n_slabs of the pool
          SlabSize,      \* n_buffers_per_slab
          FillSize,      \* fill_size: buffers given to a port's fill queue
          Burst,         \* MAX_BURST_RX
          BurstTx,       \* MAX_BURST_TX
          TxSize,        \* entries of a TX ring
          CompSize,      \* entries of a completion ring
          HwLimit,       \* descriptors the driver may have handed to the device
          Senders,       \* ports that packets are sent from
          Droppers,      \* ports whose packets may find their queue full
          MaxLost,       \* bound: packets lost for want of memory or of a queue
          Watchable      \* bound: the buffers of which one is told apart

Ports == 0 .. NPorts - 1
Slabs == 0 .. NSlabs - 1
Slots == 0 .. SlabSize - 1
Buffers == 0 .. NSlabs * SlabSize - 1

(* The code moves addresses about and never compares them, so one buffer,  *)
(* any one, is told apart from all others.  A slot whose address has been  *)
(* handed out keeps it in the code; here it is marked, so that handing it  *)
(* out again would show.                                                   *)
Address == {"watched", "other"}
Stale == "stale"

(* The threads that may run bcache_prod on a cache.                        *)
Threads == {"rx", "tx"} \X Ports
PortOf(th) == th[2]

ASSUME PoolAssumption == /\ NPorts \in Nat /\ NSlabs \in Nat /\ SlabSize \in Nat \ {0}
                         /\ FillSize \in 1..SlabSize   \* port_init refuses a larger one
                         /\ Burst \in 1..SlabSize      \* "never greater", mempool.h:43
                         /\ BurstTx \in Nat \ {0} /\ TxSize \in Nat /\ BurstTx <= TxSize
                         /\ CompSize \in Nat \ {0} /\ HwLimit \in Nat \ {0}
                         /\ Senders \subseteq Ports /\ Droppers \subseteq Ports
                         /\ MaxLost \in Nat
                         /\ Watchable \subseteq Buffers
(* bcache_init takes two slabs per port and only refuses an empty pool.    *)
ASSUME SlabsForPorts == NSlabs >= 2 * NPorts

VARIABLES
  slabs,      \* position -> slab; the positions below nAvail hold full slabs
  nAvail,     \* n_slabs_available
  watched,    \* the buffer told apart
  content,    \* slab -> slot -> buffer address
  ready,      \* ports initialised so far
  slabCons, slabProd,  \* port -> slab
  nCons, nProd,        \* port -> valid addresses in them
  posted,     \* port -> its addresses in the fill queue, the kernel and the RX ring
  burst,      \* port -> received addresses its RX thread has not yet dealt with
  flight,     \* bag of addresses in the queues between the threads
  out,        \* port -> the addresses its sending thread has taken from the
              \* queues and not yet taken back, oldest first: the completion
              \* ring, the device, the TX ring, the collector
  nComp, nHw, nColl,  \* port -> how many of them are completed, with the device,
                      \* in the collector; the others are in the TX ring
  sending,    \* port -> where its sending thread is
  nReap,      \* port -> peeked completions still to be given to bcache_prod
  nSpent,     \* port -> completions reaped, not yet released to the kernel
  lost,       \* addresses that were neither queued nor given back
  step,       \* thread -> where it is in bcache_prod
  freed,      \* thread -> the argument of bcache_prod
  count,      \* thread -> its local n_buffers_prod
  empty       \* thread -> its local slab_empty

pool == <<slabs, nAvail>>
cons == <<slabCons, nCons, posted, burst>>
prod == <<slabProd, nProd>>
device == <<nComp, nHw>>
sender == <<sending, nColl, nReap, nSpent>>
traffic == <<flight, out, device, sender, lost>>
local == <<freed, count, empty>>
vars == <<watched, pool, content, ready, cons, prod, traffic, step, local>>

Smaller(a, b) == IF a < b THEN a ELSE b

(* The addresses that k calls of bcache_cons return, from slot n - 1 down  *)
(* of slab s, and the slab afterwards.                                     *)
Popped(s, n, k) == [i \in 1..k |-> content[s][n - i]]
After(s, n, k) == [i \in Slots |-> IF i \in (n - k) .. (n - 1) THEN Stale ELSE content[s][i]]

Init == /\ slabs = [i \in Slabs |-> i]
        /\ nAvail = NSlabs
        /\ watched \in Watchable
        /\ content = [s \in Slabs |-> [i \in Slots |->
                        IF s * SlabSize + i = watched THEN "watched" ELSE "other"]]
        /\ ready = 0
        /\ slabCons = [p \in Ports |-> 0] /\ slabProd = [p \in Ports |-> 0]
        /\ nCons = [p \in Ports |-> 0] /\ nProd = [p \in Ports |-> 0]
        /\ posted = [p \in Ports |-> <<>>] /\ burst = [p \in Ports |-> <<>>]
        /\ flight = EmptyBag /\ lost = <<>>
        /\ out = [p \in Ports |-> <<>>]
        /\ nComp = [p \in Ports |-> 0] /\ nHw = [p \in Ports |-> 0]
        /\ nColl = [p \in Ports |-> 0]
        /\ sending = [p \in Ports |-> "collect"]
        /\ nReap = [p \in Ports |-> 0] /\ nSpent = [p \in Ports |-> 0]
        /\ step = [th \in Threads |-> "idle"]
        /\ freed = [th \in Threads |-> Stale]
        /\ count = [th \in Threads |-> 0]
        /\ empty = [th \in Threads |-> 0]

(* port_init, before any thread runs: the last slab of the pool becomes    *)
(* the consumer slab and fills the fill queue; the one before, full as it  *)
(* is, becomes the producer slab with nothing in it.  The pool keeps both  *)
(* pointers at positions it no longer counts.                              *)
PortInit(p) ==
  /\ ready = p
  /\ nAvail >= 2
  /\ nAvail' = nAvail - 2
  /\ slabCons' = [slabCons EXCEPT ![p] = slabs[nAvail - 1]]
  /\ slabProd' = [slabProd EXCEPT ![p] = slabs[nAvail - 2]]
  /\ nCons' = [nCons EXCEPT ![p] = SlabSize - FillSize]
  /\ posted' = [posted EXCEPT ![p] = Popped(slabs[nAvail - 1], SlabSize, FillSize)]
  /\ content' = [content EXCEPT
                   ![slabs[nAvail - 1]] = After(slabs[nAvail - 1], SlabSize, FillSize),
                   ![slabs[nAvail - 2]] = [i \in Slots |-> Stale]]
  /\ ready' = p + 1
  /\ UNCHANGED <<watched, slabs, nProd, burst, traffic, step, local>>
-----------------------------------------------------------------------------
(* The receiving thread of port p. *)

MayReceive(p) == ready = NPorts /\ step[<<"rx", p>>] = "idle" /\ burst[p] = <<>>

(* A slip: the emptied slab is not put in the place of the full one. *)
ConsTradeNothingBack(p) ==
  /\ MayReceive(p)
  /\ nCons[p] = 0
  /\ nAvail > 0
  /\ nAvail' = nAvail - 1
  /\ slabCons' = [slabCons EXCEPT ![p] = slabs[nAvail - 1]]
  /\ nCons' = [nCons EXCEPT ![p] = SlabSize]
  /\ UNCHANGED <<watched, slabs, content, ready, posted, burst, prod, traffic, step, local>>

(* bcache_cons_check with an empty consumer slab: trade it for a full one. *)
(* Without one in the pool the thread receives nothing and tries again.    *)
ConsTrade(p) ==
  /\ MayReceive(p)
  /\ nCons[p] = 0
  /\ nAvail > 0
  /\ nAvail' = nAvail - 1
  /\ slabs' = [slabs EXCEPT ![nAvail - 1] = slabCons[p]]
  /\ slabCons' = [slabCons EXCEPT ![p] = slabs[nAvail - 1]]
  /\ nCons' = [nCons EXCEPT ![p] = SlabSize]
  /\ UNCHANGED <<watched, content, ready, posted, burst, prod, traffic, step, local>>

(* A slip: n_buffers_cons is not written back. *)
ReceiveUncounted(p) ==
  /\ MayReceive(p)
  /\ \E k \in 1 .. Smaller(Burst, Smaller(nCons[p], Len(posted[p]))) :
       /\ burst' = [burst EXCEPT ![p] = SubSeq(posted[p], 1, k)]
       /\ posted' = [posted EXCEPT ![p] =
                       SubSeq(@, k + 1, Len(@)) \o Popped(slabCons[p], nCons[p], k)]
       /\ content' = [content EXCEPT ![slabCons[p]] = After(slabCons[p], nCons[p], k)]
  /\ UNCHANGED <<watched, pool, ready, slabCons, nCons, prod, traffic, step, local>>

(* port_rx_burst: k packets are taken from the RX ring and as many fresh   *)
(* buffers from the consumer slab go to the fill queue.                    *)
Receive(p) ==
  /\ MayReceive(p)
  /\ \E k \in 1 .. Smaller(Burst, Smaller(nCons[p], Len(posted[p]))) :
       /\ burst' = [burst EXCEPT ![p] = SubSeq(posted[p], 1, k)]
       /\ posted' = [posted EXCEPT ![p] =
                       SubSeq(@, k + 1, Len(@)) \o Popped(slabCons[p], nCons[p], k)]
       /\ content' = [content EXCEPT ![slabCons[p]] = After(slabCons[p], nCons[p], k)]
       /\ nCons' = [nCons EXCEPT ![p] = @ - k]
  /\ UNCHANGED <<watched, pool, ready, slabCons, prod, traffic, step, local>>

(* What becomes of the next packet of the burst.  It is pushed to a queue ... *)
Enqueue(p) ==
  /\ step[<<"rx", p>>] = "idle"
  /\ burst[p] # <<>>
  /\ flight' = flight (+) SetToBag({Head(burst[p])})
  /\ burst' = [burst EXCEPT ![p] = Tail(@)]
  /\ UNCHANGED <<watched, pool, content, ready, slabCons, nCons, posted, prod,
                 out, device, sender, lost, step, local>>

(* ... or the queue is full, or its address is zero: bcache_prod takes it ... *)
Drop(p) ==
  /\ p \in Droppers
  /\ step[<<"rx", p>>] = "idle"
  /\ burst[p] # <<>>
  /\ freed' = [freed EXCEPT ![<<"rx", p>>] = Head(burst[p])]
  /\ step' = [step EXCEPT ![<<"rx", p>>] = "check"]
  /\ burst' = [burst EXCEPT ![p] = Tail(@)]
  /\ UNCHANGED <<watched, pool, content, ready, slabCons, nCons, posted, prod, traffic,
                 count, empty>>

(* ... or calloc fails, or there is no such queue: nobody has it any more. *)
Lose(p) ==
  /\ step[<<"rx", p>>] = "idle"
  /\ burst[p] # <<>>
  /\ Len(lost) < MaxLost
  /\ lost' = Append(lost, Head(burst[p]))
  /\ burst' = [burst EXCEPT ![p] = Tail(@)]
  /\ UNCHANGED <<watched, pool, content, ready, slabCons, nCons, posted, prod,
                 flight, out, device, sender, step, local>>
-----------------------------------------------------------------------------
(* The sending thread of port p. *)

(* The descriptors in its TX ring. *)
InTx(p) == Len(out[p]) - nComp[p] - nHw[p] - nColl[p]

MaySend(p) == p \in Senders /\ ready = NPorts /\ step[<<"tx", p>>] = "idle"

(* A packet is pulled from a queue into the collector ... *)
Pull(p) ==
  /\ MaySend(p)
  /\ sending[p] = "collect"
  /\ nColl[p] < BurstTx
  /\ \E b \in BagToSet(flight) :
       /\ flight' = flight (-) SetToBag({b})
       /\ out' = [out EXCEPT ![p] = Append(@, b)]
  /\ nColl' = [nColl EXCEPT ![p] = @ + 1]
  /\ UNCHANGED <<watched, pool, content, ready, cons, prod, device, sending, nReap, nSpent,
                 lost, step, local>>

(* ... and when some were, port_tx_burst_collector peeks at the completions *)
(* there are now ...                                                        *)
Peek(p) ==
  /\ MaySend(p)
  /\ sending[p] = "collect"
  /\ nColl[p] > 0
  /\ sending' = [sending EXCEPT ![p] = "reap"]
  /\ nReap' = [nReap EXCEPT ![p] = nComp[p]]
  /\ UNCHANGED <<watched, pool, content, ready, cons, prod, flight, out, device, nColl, nSpent,
                 lost, step, local>>

(* ... gives each to bcache_prod ... *)
Reap(p) ==
  /\ MaySend(p)
  /\ sending[p] = "reap"
  /\ nReap[p] > 0
  /\ nReap' = [nReap EXCEPT ![p] = @ - 1]
  /\ nComp' = [nComp EXCEPT ![p] = @ - 1]
  /\ nSpent' = [nSpent EXCEPT ![p] = @ + 1]
  /\ out' = [out EXCEPT ![p] = Tail(@)]
  /\ freed' = [freed EXCEPT ![<<"tx", p>>] = Head(out[p])]
  /\ step' = [step EXCEPT ![<<"tx", p>>] = "check"]
  /\ UNCHANGED <<watched, pool, content, ready, cons, prod, flight, nHw, nColl, sending,
                 lost, count, empty>>

(* A slip: the thread peeks again until there is nothing, and never ends. *)
ReleaseThenReap(p) ==
  /\ MaySend(p)
  /\ sending[p] = "reap"
  /\ nReap[p] = 0
  /\ nReap' = [nReap EXCEPT ![p] = nComp[p]]
  /\ nSpent' = [nSpent EXCEPT ![p] = 0]
  /\ UNCHANGED <<watched, pool, content, ready, cons, prod, flight, out, device, nColl, sending,
                 lost, step, local>>

(* ... releases their entries to the kernel ... *)
Release(p) ==
  /\ MaySend(p)
  /\ sending[p] = "reap"
  /\ nReap[p] = 0
  /\ sending' = [sending EXCEPT ![p] = "submit"]
  /\ nSpent' = [nSpent EXCEPT ![p] = 0]
  /\ UNCHANGED <<watched, pool, content, ready, cons, prod, flight, out, device, nColl, nReap,
                 lost, step, local>>

(* ... and waits until the TX ring has room for the burst. *)
Submit(p) ==
  /\ MaySend(p)
  /\ sending[p] = "submit"
  /\ InTx(p) + nColl[p] <= TxSize
  /\ sending' = [sending EXCEPT ![p] = "collect"]
  /\ nColl' = [nColl EXCEPT ![p] = 0]
  /\ UNCHANGED <<watched, pool, content, ready, cons, prod, flight, out, device, nReap, nSpent,
                 lost, step, local>>

(* The kernel hands a descriptor to the device when it can reserve room    *)
(* for its completion, which the device reports when the packet is sent.   *)
KernelTake(p) ==
  /\ InTx(p) > 0
  /\ nHw[p] < HwLimit
  /\ nHw[p] + nComp[p] + nSpent[p] < CompSize
  /\ nHw' = [nHw EXCEPT ![p] = @ + 1]
  /\ UNCHANGED <<watched, pool, content, ready, cons, prod, flight, out, nComp, sender,
                 lost, step, local>>

KernelComplete(p) ==
  /\ nHw[p] > 0
  /\ nHw' = [nHw EXCEPT ![p] = @ - 1]
  /\ nComp' = [nComp EXCEPT ![p] = @ + 1]
  /\ UNCHANGED <<watched, pool, content, ready, cons, prod, flight, out, sender,
                 lost, step, local>>
-----------------------------------------------------------------------------
(* bcache_prod by thread th on the cache of its port. *)

Goto(th, l) == step' = [step EXCEPT ![th] = l]

(* bcache_prod returns: its local variables are gone. *)
Return(th) == /\ Goto(th, "idle")
              /\ freed' = [freed EXCEPT ![th] = Stale]
              /\ count' = [count EXCEPT ![th] = 0]
              /\ empty' = [empty EXCEPT ![th] = 0]

(* n_buffers_prod is read and compared with the size of a slab. *)
ProdCheck(th) ==
  LET n == nProd[PortOf(th)] IN
  /\ step[th] = "check"
  /\ count' = [count EXCEPT ![th] = n]
  /\ Goto(th, IF n < SlabSize THEN "store" ELSE "trade")
  /\ UNCHANGED <<watched, pool, content, ready, cons, prod, traffic, freed, empty>>

ProdStore(th) ==
  /\ step[th] = "store"
  /\ content' = [content EXCEPT ![slabProd[PortOf(th)]][count[th]] = freed[th]]
  /\ Goto(th, "count")
  /\ UNCHANGED <<watched, pool, ready, cons, prod, traffic, local>>

ProdCount(th) ==
  /\ step[th] = "count"
  /\ nProd' = [nProd EXCEPT ![PortOf(th)] = count[th] + 1]
  /\ Return(th)
  /\ UNCHANGED <<watched, pool, content, ready, cons, slabProd, traffic>>

(* A slip: the filled slab is put down and not counted. *)
ProdTradeUncounted(th) ==
  /\ step[th] = "trade"
  /\ nAvail < NSlabs
  /\ empty' = [empty EXCEPT ![th] = slabs[nAvail]]
  /\ slabs' = [slabs EXCEPT ![nAvail] = slabProd[PortOf(th)]]
  /\ Goto(th, "first")
  /\ UNCHANGED <<watched, nAvail, content, ready, cons, prod, traffic, freed, count>>

(* Under the lock: the filled slab for the one just above the full ones.   *)
(* Past the end of the array the code would read what is not a slab.       *)
ProdTrade(th) ==
  /\ step[th] = "trade"
  /\ nAvail < NSlabs
  /\ empty' = [empty EXCEPT ![th] = slabs[nAvail]]
  /\ slabs' = [slabs EXCEPT ![nAvail] = slabProd[PortOf(th)]]
  /\ nAvail' = nAvail + 1
  /\ Goto(th, "first")
  /\ UNCHANGED <<watched, content, ready, cons, prod, traffic, freed, count>>

ProdFirst(th) ==
  /\ step[th] = "first"
  /\ content' = [content EXCEPT ![empty[th]][0] = freed[th]]
  /\ Goto(th, "switch")
  /\ UNCHANGED <<watched, pool, ready, cons, prod, traffic, local>>

ProdSwitch(th) ==
  /\ step[th] = "switch"
  /\ slabProd' = [slabProd EXCEPT ![PortOf(th)] = empty[th]]
  /\ Goto(th, "reset")
  /\ UNCHANGED <<watched, pool, content, ready, cons, nProd, traffic, local>>

(* A slip: the buffer just stored in the new slab is not counted. *)
ProdResetToZero(th) ==
  /\ step[th] = "reset"
  /\ nProd' = [nProd EXCEPT ![PortOf(th)] = 0]
  /\ Return(th)
  /\ UNCHANGED <<watched, pool, content, ready, cons, slabProd, traffic>>

ProdReset(th) ==
  /\ step[th] = "reset"
  /\ nProd' = [nProd EXCEPT ![PortOf(th)] = 1]
  /\ Return(th)
  /\ UNCHANGED <<watched, pool, content, ready, cons, slabProd, traffic>>
-----------------------------------------------------------------------------
ProdStep(th) == \/ ProdCheck(th) \/ ProdStore(th) \/ ProdCount(th) \/ ProdTrade(th)
                \/ ProdFirst(th) \/ ProdSwitch(th) \/ ProdReset(th)

Next == \/ \E p \in Ports : \/ PortInit(p)
                            \/ ConsTrade(p) \/ Receive(p)
                            \/ Enqueue(p) \/ Drop(p) \/ Lose(p)
                            \/ Pull(p) \/ Peek(p) \/ Reap(p) \/ Release(p) \/ Submit(p)
                            \/ KernelTake(p) \/ KernelComplete(p)
        \/ \E th \in Threads : ProdStep(th)

Spec == Init /\ [][Next]_vars

(* The threads poll for ever; a sending thread that finds packets pulls    *)
(* them and sends what it has pulled, and the kernel and the device send   *)
(* what they can.  No fairness makes packets arrive, and nothing but a     *)
(* burst to send makes a sending thread reap.                              *)
Fairness == /\ \A p \in Ports : /\ WF_vars(PortInit(p))
                                /\ WF_vars(ConsTrade(p))
                                /\ WF_vars(Enqueue(p) \/ Drop(p) \/ Lose(p))
                                /\ WF_vars(Pull(p) \/ Peek(p))
                                /\ WF_vars(Reap(p)) /\ WF_vars(Release(p))
                                /\ WF_vars(Submit(p))
                                /\ WF_vars(KernelTake(p)) /\ WF_vars(KernelComplete(p))
            /\ \A th \in Threads : WF_vars(ProdStep(th))

FairSpec == Spec /\ Fairness
-----------------------------------------------------------------------------
TypeOK ==
  /\ slabs \in [Slabs -> Slabs]
  /\ nAvail \in 0..NSlabs
  /\ watched \in Buffers
  /\ content \in [Slabs -> [Slots -> Address \cup {Stale}]]
  /\ ready \in 0..NPorts
  /\ slabCons \in [Ports -> Slabs] /\ slabProd \in [Ports -> Slabs]
  /\ nCons \in [Ports -> 0..SlabSize] /\ nProd \in [Ports -> 0..SlabSize]
  /\ posted \in [Ports -> Seq(Address)] /\ burst \in [Ports -> Seq(Address)]
  /\ IsABag(flight) /\ DOMAIN flight \subseteq Address
  /\ out \in [Ports -> Seq(Address)] /\ lost \in Seq(Address)
  /\ nComp \in [Ports -> 0..CompSize] /\ nHw \in [Ports -> 0..HwLimit]
  /\ nColl \in [Ports -> 0..BurstTx]
  /\ sending \in [Ports -> {"collect", "reap", "submit"}]
  /\ nReap \in [Ports -> 0..CompSize] /\ nSpent \in [Ports -> 0..CompSize]
  /\ step \in [Threads -> {"idle", "check", "store", "count", "trade",
                           "first", "switch", "reset"}]
  /\ freed \in [Threads -> Address \cup {Stale}]
  /\ count \in [Threads -> 0..SlabSize]
  /\ empty \in [Threads -> Slabs]

(* The slab port p produces to: between the trade and the assignment of    *)
(* slab_prod it is the one in the hands of the trading thread.             *)
Switching(p) == {th \in Threads : PortOf(th) = p /\ step[th] \in {"first", "switch"}}
ProdSlab(p) == IF Switching(p) = {} THEN slabProd[p]
               ELSE empty[CHOOSE th \in Switching(p) : TRUE]

(* Every use of a slab: a cache consumes from it or produces to it, or the *)
(* pool counts it as full.                                                 *)
Uses == ({"cons", "prod"} \X (0 .. ready - 1)) \cup ({"full"} \X (0 .. nAvail - 1))
SlabOf(u) == CASE u[1] = "cons" -> slabCons[u[2]]
               [] u[1] = "prod" -> ProdSlab(u[2])
               [] u[1] = "full" -> slabs[u[2]]

(***************************************************************************)
(* No slab has two uses at a time, although the pool keeps, above the full *)
(* slabs, the pointers port_init took from it.                             *)
(***************************************************************************)
SlabsApart == Cardinality({SlabOf(u) : u \in Uses}) = Cardinality(Uses)

(***************************************************************************)
(* "As one full slab exists in the cache, it is guaranteed that there is   *)
(* at least one empty slab available in the pool" (mempool.h:176): what    *)
(* the trade is about to take is a slab nobody uses.                       *)
(***************************************************************************)
EmptySlabGuaranteed ==
  \A th \in Threads : step[th] = "trade" =>
    nAvail < NSlabs /\ \A u \in Uses : SlabOf(u) # slabs[nAvail]

(* The valid addresses of a slab in use are its first ones. *)
Valid(u) == CASE u[1] = "cons" -> nCons[u[2]]
              [] u[1] = "prod" -> IF \E th \in Threads : /\ PortOf(th) = u[2]
                                                         /\ step[th] \in {"first", "switch", "reset"}
                                  THEN 0 ELSE nProd[u[2]]
              [] u[1] = "full" -> SlabSize

(* How often address b is in the emulator's or the kernel's hands, or was  *)
(* lost for want of memory or of a queue.                                  *)
Copies(b) ==
    Cardinality({x \in Uses \X Slots :
                   x[2] < Valid(x[1]) /\ content[SlabOf(x[1])][x[2]] = b})
  + Cardinality({x \in Ports \X (1..FillSize) :
                   x[2] <= Len(posted[x[1]]) /\ posted[x[1]][x[2]] = b})
  + Cardinality({x \in Ports \X (1..Burst) :
                   x[2] <= Len(burst[x[1]]) /\ burst[x[1]][x[2]] = b})
  + (IF BagIn(b, flight) THEN flight[b] ELSE 0)
  + Cardinality({x \in Ports \X (1 .. TxSize + CompSize + BurstTx) :
                   x[2] <= Len(out[x[1]]) /\ out[x[1]][x[2]] = b})
  + Cardinality({i \in 1 .. Len(lost) : lost[i] = b})
  + Cardinality({th \in Threads : step[th] # "idle" /\ freed[th] = b})

(* The producer slabs were full when port_init took them for empty: their  *)
(* addresses are written over and never used.                              *)
Forfeited == {s * SlabSize + i : s \in {NSlabs - 2 * (p + 1) : p \in Ports}, i \in Slots}

(***************************************************************************)
(* From the initialisation of the ports on, every buffer is in exactly one *)
(* place, or was dropped in the one way the code loses buffers (Lose):     *)
(* none is lost by a trade or a completion, none is handed out twice.      *)
(***************************************************************************)
BuffersConserved ==
  ready = NPorts => Copies("watched") = IF watched \in Forfeited THEN 0 ELSE 1

(* No packet is being received, queued or collected, no buffer freed.      *)
(* What was sent may be in the TX ring, with the device, or completed: it  *)
(* stays there until there is another burst to send.                       *)
AtRest == /\ flight = EmptyBag
          /\ \A p \in Ports : /\ burst[p] = <<>>
                              /\ sending[p] = "collect" /\ nColl[p] = 0
          /\ \A th \in Threads : step[th] = "idle"

(***************************************************************************)
(* The pool is large enough for its ports: the producer slabs forfeited at *)
(* the start, a filled fill queue per port, the slabs that other ports may *)
(* hold back, full TX and completion rings and what was lost leave one     *)
(* buffer over.  The code never checks it.                                 *)
(***************************************************************************)
PoolSuffices ==
  (NSlabs + 1) * SlabSize > NPorts * (3 * SlabSize + FillSize + TxSize + CompSize) + MaxLost

(***************************************************************************)
(* When every packet has been handed to the kernel or dropped, a port      *)
(* without buffers can get a full slab, whatever the partly filled         *)
(* producer slabs and the idle consumer slabs of the other ports hold      *)
(* back, and whatever the rings never give back.                           *)
(***************************************************************************)
NoPortStarves ==
  PoolSuffices /\ ready = NPorts /\ AtRest
     => \A p \in Ports : nCons[p] = 0 => nAvail > 0

(* The completion ring has room for what the device holds and one burst.   *)
RoomToComplete == HwLimit + BurstTx <= CompSize

(***************************************************************************)
(* A port that has run out of buffers for its fill queue gets a slab,      *)
(* although with nothing received nothing is sent and nothing reaped.      *)
(***************************************************************************)
PortRefilled ==
  \A p \in Ports : PoolSuffices /\ RoomToComplete /\ ready = NPorts /\ nCons[p] = 0
                     ~> nCons[p] > 0
=============================================================================
