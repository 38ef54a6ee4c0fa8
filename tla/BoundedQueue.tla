---------------------------- MODULE BoundedQueue ----------------------------
(***************************************************************************)
(* What a destination queue promises to the threads of the emulator: a     *)
(* FIFO of at most Capacity packets, each handed to exactly one puller.    *)
(* One atomic step per call that succeeds; a call that fails (push on a    *)
(* full queue, pull on an empty one) leaves the queue as it was.           *)
(***************************************************************************)
EXTENDS Naturals, Sequences

CONSTANTS Item,       \* what is queued: pointers to struct burst_tx
          Puller,     \* the threads that call mpmc_queue_pull
          Capacity,   \* the size given to mpmc_queue_init
          None        \* a puller that has nothing in its hand

VARIABLES queue,      \* the packets in the queue, oldest first
          hand        \* what a pull that has taken effect will return

vars == <<queue, hand>>

Init == /\ queue = <<>>
        /\ hand = [c \in Puller |-> None]

(* A push takes effect: the packet is at the end of the queue. *)
Push(v) == /\ Len(queue) < Capacity
           /\ queue' = Append(queue, v)
           /\ UNCHANGED hand

(* A pull takes effect: the oldest packet leaves for c's hand. *)
Pull(c) == /\ hand[c] = None
           /\ queue # <<>>
           /\ hand' = [hand EXCEPT ![c] = Head(queue)]
           /\ queue' = Tail(queue)

(* The pull returns the packet to its caller. *)
Return(c) == /\ hand[c] # None
             /\ hand' = [hand EXCEPT ![c] = None]
             /\ UNCHANGED queue

Next == \/ \E v \in Item : Push(v)
        \/ \E c \in Puller : Pull(c) \/ Return(c)

Spec == Init /\ [][Next]_vars
=============================================================================
