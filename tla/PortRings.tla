----------------------------- MODULE PortRings ------------------------------
(***************************************************************************)
(* One port of opera-v2 (thread_functions_1.h): port_rx_burst by its       *)
(* receiving thread and port_tx_burst by its sending thread, against the   *)
(* kernel on the other side of the four AF_XDP rings.  Only the numbers of *)
(* descriptors matter here; which buffers they name is in BufferPool.      *)
(*                                                                         *)
(* The kernel takes a descriptor from the TX ring only when it can reserve *)
(* room for its completion, and the sending thread empties the completion  *)
(* ring only at the start of a burst: whether its wait for room in the TX  *)
(* ring ever ends depends on the sizes of the rings.                       *)
(***************************************************************************)
EXTENDS Naturals

CONSTANTS FillSize, RxSize, TxSize, CompSize,  \* entries of the rings
          HwLimit,   \* descriptors the driver may have handed to the device
          Burst      \* most packets in a burst

ASSUME RingsAssumption == /\ FillSize \in Nat \ {0} /\ RxSize \in Nat \ {0}
                          /\ TxSize \in Nat \ {0} /\ CompSize \in Nat \ {0}
                          /\ HwLimit \in Nat \ {0}
                          /\ Burst \in Nat \ {0}
                          /\ Burst <= TxSize

VARIABLES
  fill, held, rx,    \* buffers in the fill ring, with the driver, in the RX ring
  rxPc, nRx,         \* the receiving thread and its local n_pkts
  tx, hw, comp,      \* descriptors in the TX ring, sent, in the completion ring
  txPc, nTx, nComp   \* the sending thread, its burst, the completions it peeked

rxVars == <<fill, held, rx, rxPc, nRx>>
txVars == <<tx, hw, comp, txPc, nTx, nComp>>
vars == <<rxVars, txVars>>

(* port_init gives the kernel a full fill ring. *)
Init == /\ fill = FillSize /\ held = 0 /\ rx = 0
        /\ rxPc = "idle" /\ nRx = 0
        /\ tx = 0 /\ hw = 0 /\ comp = 0
        /\ txPc = "idle" /\ nTx = 0 /\ nComp = 0
-----------------------------------------------------------------------------
(* A slip: the packets read are not released to the kernel. *)
RxPeekOnly == /\ rxPc = "idle"
              /\ \E n \in 1..Burst : n <= rx /\ nRx' = n
              /\ rxPc' = "refill"
              /\ UNCHANGED <<fill, held, rx, txVars>>

(* port_rx_burst: packets are peeked, read and released ... *)
RxPeek == /\ rxPc = "idle"
          /\ \E n \in 1..Burst : /\ n <= rx
                                 /\ nRx' = n
                                 /\ rx' = rx - n
          /\ rxPc' = "refill"
          /\ UNCHANGED <<fill, held, txVars>>

(* ... and the loop waits for room for as many in the fill ring. *)
RxRefill == /\ rxPc = "refill"
            /\ fill + nRx <= FillSize
            /\ fill' = fill + nRx
            /\ nRx' = 0
            /\ rxPc' = "idle"
            /\ UNCHANGED <<held, rx, txVars>>

(* port_tx_burst(_collector): the completions present now are peeked ... *)
TxPeek == /\ txPc = "idle"
          /\ nTx' \in 1..Burst
          /\ nComp' = comp
          /\ txPc' = "free"
          /\ UNCHANGED <<rxVars, tx, hw, comp>>

(* A slip: the completions are read and not released. *)
TxReleaseNothing == /\ txPc = "free"
                    /\ nComp' = 0
                    /\ txPc' = "reserve"
                    /\ UNCHANGED <<rxVars, tx, hw, comp, nTx>>

(* ... and released once their buffers are in the pool ... *)
TxRelease == /\ txPc = "free"
             /\ comp' = comp - nComp
             /\ nComp' = 0
             /\ txPc' = "reserve"
             /\ UNCHANGED <<rxVars, tx, hw, nTx>>

(* ... and the loop waits for room for the whole burst in the TX ring. *)
TxSubmit == /\ txPc = "reserve"
            /\ tx + nTx <= TxSize
            /\ tx' = tx + nTx
            /\ nTx' = 0
            /\ txPc' = "idle"
            /\ UNCHANGED <<rxVars, hw, comp, nComp>>
-----------------------------------------------------------------------------
(* The kernel and the device. *)

KernelPost == /\ fill > 0
              /\ fill' = fill - 1 /\ held' = held + 1
              /\ UNCHANGED <<rx, rxPc, nRx, txVars>>

(* A packet arrives; with a full RX ring it is lost and its buffer kept. *)
KernelReceive == /\ held > 0 /\ rx < RxSize
                 /\ held' = held - 1 /\ rx' = rx + 1
                 /\ UNCHANGED <<fill, rxPc, nRx, txVars>>

KernelTake == /\ tx > 0 /\ hw < HwLimit
              /\ hw + comp < CompSize
              /\ tx' = tx - 1 /\ hw' = hw + 1
              /\ UNCHANGED <<rxVars, comp, txPc, nTx, nComp>>

KernelComplete == /\ hw > 0
                  /\ hw' = hw - 1 /\ comp' = comp + 1
                  /\ UNCHANGED <<rxVars, tx, txPc, nTx, nComp>>
-----------------------------------------------------------------------------
Next == \/ RxPeek \/ RxRefill
        \/ TxPeek \/ TxRelease \/ TxSubmit
        \/ KernelPost \/ KernelReceive \/ KernelTake \/ KernelComplete

Spec == Init /\ [][Next]_vars
-----------------------------------------------------------------------------
TypeOK == /\ fill \in 0..FillSize /\ held \in 0..FillSize /\ rx \in 0..RxSize
          /\ rxPc \in {"idle", "refill"} /\ nRx \in 0..Burst
          /\ tx \in 0..TxSize /\ hw \in 0..HwLimit /\ comp \in 0..CompSize
          /\ txPc \in {"idle", "free", "reserve"}
          /\ nTx \in 0..Burst /\ nComp \in 0..CompSize

(***************************************************************************)
(* The receiving thread never waits for room in the fill ring: what it     *)
(* took from the RX ring is missing there.                                 *)
(***************************************************************************)
RefillNeverWaits == rxPc = "refill" => fill + nRx <= FillSize

(* The completion ring has room for what the device holds and one burst.   *)
(* Its size is fixed in structures.h; the device's is set by the operator. *)
RoomToComplete == HwLimit + Burst <= CompSize

(***************************************************************************)
(* While the sending thread waits for room in the TX ring, the kernel can  *)
(* still make that room without another completion being reaped: the       *)
(* descriptors outstanding and the burst fit into the two rings.           *)
(***************************************************************************)
NeverWedged ==
  RoomToComplete /\ txPc = "reserve" => tx + nTx + hw + comp <= TxSize + CompSize

(***************************************************************************)
(* Every burst is handed to the kernel: the waiting loop, which looks at   *)
(* neither the completion ring nor the quit flag, ends.                    *)
(***************************************************************************)
BurstSubmitted == RoomToComplete /\ txPc = "reserve" ~> txPc = "idle"

(* The inductive invariant: a port's buffers are all accounted for, and a  *)
(* burst starts from no more than a full TX ring and what the device holds.*)
RingsInv ==
  /\ fill + held + rx + nRx = FillSize
  /\ hw + comp <= CompSize
  /\ nComp <= comp
  /\ txPc = "free" => tx + hw + comp <= TxSize + HwLimit + nComp
  /\ txPc = "reserve" => tx + hw + comp <= TxSize + HwLimit
  /\ txPc # "free" => nComp = 0
  /\ rxPc = "idle" => nRx = 0
=============================================================================
