-------------------------- MODULE PortRingsProofs ---------------------------
(***************************************************************************)
(* What PortRings.tla says of a port, for rings of every size.             *)
(***************************************************************************)
EXTENDS PortRings, TLAPS

(* The invariant at the start. *)
LEMMA PortInit == Init => TypeOK /\ RingsInv
BY RingsAssumption DEF Init, TypeOK, RingsInv

(* Every step keeps it. *)
LEMMA PortStep == TypeOK /\ RingsInv /\ [Next]_vars => TypeOK' /\ RingsInv'
<1> SUFFICES ASSUME TypeOK, RingsInv, [Next]_vars PROVE TypeOK' /\ RingsInv'
  OBVIOUS
<1> USE RingsAssumption DEF TypeOK, RingsInv, rxVars, txVars
<1>1. CASE RxPeek BY <1>1 DEF RxPeek
<1>2. CASE RxRefill BY <1>2 DEF RxRefill
<1>3. CASE TxPeek BY <1>3 DEF TxPeek
<1>4. CASE TxRelease BY <1>4 DEF TxRelease
<1>5. CASE TxSubmit BY <1>5 DEF TxSubmit
<1>6. CASE KernelPost BY <1>6 DEF KernelPost
<1>7. CASE KernelReceive BY <1>7 DEF KernelReceive
<1>8. CASE KernelTake BY <1>8 DEF KernelTake
<1>9. CASE KernelComplete BY <1>9 DEF KernelComplete
<1>10. CASE UNCHANGED vars BY <1>10 DEF vars
<1> QED BY <1>1, <1>2, <1>3, <1>4, <1>5, <1>6, <1>7, <1>8, <1>9, <1>10 DEF Next

(* It holds in every state. *)
LEMMA PortInvariant == Spec => [](TypeOK /\ RingsInv)
BY PortInit, PortStep, PTL DEF Spec

(* The counts of descriptors stay within the rings that hold them. *)
THEOREM PortTypeCorrect == Spec => []TypeOK
BY PortInvariant, PTL

(* The receiving thread's loop finds room in the fill ring at once. *)
THEOREM RefillCorrect == Spec => []RefillNeverWaits
<1>1. TypeOK /\ RingsInv => RefillNeverWaits
  BY RingsAssumption DEF TypeOK, RingsInv, RefillNeverWaits
<1> QED BY <1>1, PortInvariant, PTL

(***************************************************************************)
(* With a device that holds no more than the completion ring less a burst, *)
(* a waiting sending thread always leaves the kernel able to make room.    *)
(***************************************************************************)
THEOREM WedgeFree == Spec => []NeverWedged
<1>1. TypeOK /\ RingsInv => NeverWedged
  BY RingsAssumption DEF TypeOK, RingsInv, NeverWedged, RoomToComplete
<1> QED BY <1>1, PortInvariant, PTL
=============================================================================
