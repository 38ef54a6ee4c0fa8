------------------------------- MODULE Rounds -------------------------------
(***************************************************************************)
(* The NIC TX threads of a node under a load that never ends: packets come *)
(* into the destination queues as fast as they like, and each thread goes  *)
(* round its share of them, a burst from each.  Of a queue only its length *)
(* is kept.  Datapath, whose packets have contents but are few, implements *)
(* it.                                                                     *)
(***************************************************************************)
EXTENDS Naturals

CONSTANTS NDest,     \* NUM_OF_PER_DEST_QUEUES
          NNic,      \* n_nic_ports
          QueueSize, \* MAX_BURST_TX_OBJS
          Burst      \* MAX_BURST_TX

Nics == 0 .. NNic - 1
Queues == {"local", "transit"} \X (0 .. NDest - 1)

VARIABLES len,   \* queue -> packets in it
          turn,  \* thread -> where it is in its round
          got    \* thread -> btx_index, packets in its collector

vars == <<len, turn, got>>

Init == /\ len = [q \in Queues |-> 0]
        /\ turn = [i \in Nics |-> 0]
        /\ got = [i \in Nics |-> 0]

(* assigned_perdest_count; the first half of a round is for transit.       *)
Share == NDest \div NNic

Current(i) == <<IF turn[i] < Share THEN "transit" ELSE "local", i * Share + (turn[i] % Share)>>

(* A packet is pushed.                                                     *)
Arrive(q) == /\ len[q] < QueueSize
             /\ len' = [len EXCEPT ![q] = @ + 1]
             /\ UNCHANGED <<turn, got>>

(* A slip: a queue is pulled from until it is empty. *)
PullUnlimited(i) == /\ len[Current(i)] > 0
                    /\ len' = [len EXCEPT ![Current(i)] = @ - 1]
                    /\ got' = [got EXCEPT ![i] = IF @ < Burst THEN @ + 1 ELSE @]
                    /\ UNCHANGED turn

Pull(i) == /\ len[Current(i)] > 0 /\ got[i] < Burst
           /\ len' = [len EXCEPT ![Current(i)] = @ - 1]
           /\ got' = [got EXCEPT ![i] = @ + 1]
           /\ UNCHANGED turn

(* The burst is sent, and the next queue is looked at.                     *)
Flush(i) == /\ len[Current(i)] = 0 \/ got[i] = Burst
            /\ got' = [got EXCEPT ![i] = 0]
            /\ turn' = [turn EXCEPT ![i] = (@ + 1) % (2 * Share)]
            /\ UNCHANGED len

Next == \/ \E q \in Queues : Arrive(q)
        \/ \E i \in Nics : Pull(i) \/ Flush(i)

(* The threads poll; nothing makes packets come, or stop coming.           *)
FairSpec == Init /\ [][Next]_vars /\ \A i \in Nics : WF_vars(Pull(i) \/ Flush(i))
-----------------------------------------------------------------------------
(***************************************************************************)
(* However many packets keep coming for the other destinations, or for     *)
(* itself, no queue of a thread's share is left waiting for ever: again    *)
(* and again it is empty or a packet is taken from it.  Without the limit  *)
(* of MAX_BURST_TX on btx_index one busy queue would keep its thread.      *)
(* When n_nic_ports does not divide the number of destinations the queues  *)
(* past the last share are in nobody's, and nothing is said of them.       *)
(***************************************************************************)
Owned(q) == q[2] < NNic * Share

EveryQueueServed ==
  \A q \in Queues : Owned(q) => \/ []<>(len[q] = 0)
                                \/ []<><<len'[q] < len[q]>>_vars
=============================================================================
