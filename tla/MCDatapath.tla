----------------------------- MODULE MCDatapath -----------------------------
(* Datapath on small instances. *)
EXTENDS Datapath

(* Direct in the odd slots, by a third node in the even ones. *)
MCRoute == [d \in Dests |-> [s \in Slots |->
              IF d = Self THEN 0
              ELSE IF s % 2 = 1 THEN d
              ELSE CHOOSE relay \in Dests : relay \notin {Self, d}]]
=============================================================================
