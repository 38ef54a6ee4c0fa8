------------------------------- MODULE Sender -------------------------------
(***************************************************************************)
(* A NIC TX thread (thread_func_veth_to_nic_tx) with its queues on one     *)
(* side and its port on the other: Rounds and PortRings composed.  A burst *)
(* that Rounds sends in one step is here the call of                       *)
(* port_tx_burst_collector, in which the thread may have to wait for the   *)
(* kernel while packets keep coming into the queues.                       *)
(***************************************************************************)
EXTENDS PortRings

CONSTANTS NDest, QueueSize   \* of the thread's queues, as in Rounds

VARIABLES len, turn, got     \* the thread's round: see Rounds

roundVars == <<len, turn, got>>
senderVars == <<vars, roundVars>>

(* The only thread, with all queues in its share. *)
me == 0
Round == INSTANCE Rounds WITH NNic <- 1

SenderInit == Init /\ Round!Init

Arrive == (\E q \in Round!Queues : Round!Arrive(q)) /\ UNCHANGED vars

(* Between two calls the thread pulls from its present queue ... *)
Pull == txPc = "idle" /\ Round!Pull(me) /\ UNCHANGED vars

(* ... leaves it for the next one with nothing collected ... *)
Pass == txPc = "idle" /\ got[me] = 0 /\ Round!Flush(me) /\ UNCHANGED vars

(* ... or calls port_tx_burst_collector for what it has collected. *)
Call == Round!Flush(me) /\ TxPeek /\ nTx' = got[me]

Port(A) == A /\ UNCHANGED roundVars

SenderNext == \/ Arrive \/ Pull \/ Pass \/ Call
              \/ Port(TxRelease) \/ Port(TxSubmit)
              \/ Port(RxPeek) \/ Port(RxRefill)
              \/ Port(KernelPost) \/ Port(KernelReceive)
              \/ Port(KernelTake) \/ Port(KernelComplete)

(* The threads run; the loops wake a kernel that asks for it, and the      *)
(* kernel and the device send what they can.  Packets need not come from   *)
(* the port or into the queues, nor stop coming.                           *)
SenderSpec ==
  /\ SenderInit /\ [][SenderNext]_senderVars
  /\ WF_senderVars(Pull \/ Pass \/ Call)
  /\ WF_senderVars(Port(TxRelease)) /\ WF_senderVars(Port(TxSubmit))
  /\ WF_senderVars(Port(RxRefill))
  /\ WF_senderVars(Port(KernelTake)) /\ WF_senderVars(Port(KernelComplete))
-----------------------------------------------------------------------------
(***************************************************************************)
(* However many packets keep coming into some of the queues, each queue of *)
(* the thread is again and again empty or pulled from: the limit of a      *)
(* burst ends the turn of a busy queue, and the wait inside a burst ends,  *)
(* since the completion ring has room for what the device may complete.    *)
(***************************************************************************)
EveryQueueServed == RoomToComplete => Round!EveryQueueServed
=============================================================================
