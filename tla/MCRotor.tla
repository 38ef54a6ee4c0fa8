------------------------------ MODULE MCRotor ------------------------------
(* Rotor with a schedule that turns a relayed packet back: node 1 sends    *)
(* to node 3 by way of node 2 in the odd slots, node 2 by way of node 1 in *)
(* the even ones.  In config/ 57 of the relays have this shape from one    *)
(* slot to the next.                                                       *)
EXTENDS Rotor

MCRoutes == [n \in Nodes |-> [d \in Nodes |-> [s \in Slots |->
               IF n = d THEN 0
               ELSE IF d = 3 /\ n = 1 /\ s % 2 = 1 THEN 2
               ELSE IF d = 3 /\ n = 2 /\ s % 2 = 0 THEN 1
               ELSE d]]]
=============================================================================
