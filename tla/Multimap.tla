------------------------------ MODULE Multimap ------------------------------
(* What the users of mg_map can count on.  Adding does not look for the    *)
(* key, so that a key may have several values; a look-up finds one of      *)
(* them, and another one only after a call that names the key.             *)
EXTENDS Naturals

CONSTANTS Keys, Values,
          None    \* not found

VARIABLES stored, \* key -> value -> how often it is stored under the key
          found,  \* key -> the value a look-up finds
          usable  \* between mg_map_init and mg_map_cleanup

vars == <<stored, found, usable>>

Empty == [k \in Keys |-> [v \in Values |-> 0]]
Nothing == [k \in Keys |-> None]

More(count, v) == [count EXCEPT ![v] = @ + 1]
Less(count, v) == [count EXCEPT ![v] = @ - 1]

Init == stored = Empty /\ found = Nothing /\ ~usable

Open == ~usable /\ usable' /\ UNCHANGED <<stored, found>>

(* Of two values of a key the earlier or the later may be the one found.   *)
Add(k, v) == /\ usable /\ UNCHANGED usable
             /\ stored' = [stored EXCEPT ![k] = More(@, v)]
             /\ \/ found' = [found EXCEPT ![k] = v]
                \/ found[k] # None /\ UNCHANGED found

(* The value found gives way to another one.                               *)
Change(k, v) == /\ usable /\ UNCHANGED usable
                /\ found[k] # None
                /\ stored' = [stored EXCEPT ![k] = More(Less(@, found[k]), v)]
                /\ found' = [found EXCEPT ![k] = v]

(* The value found goes; if there is another it is found from now on.      *)
Remove(k) == /\ usable /\ UNCHANGED usable
             /\ found[k] # None
             /\ LET left == Less(stored[k], found[k])
                IN /\ stored' = [stored EXCEPT ![k] = left]
                   /\ \E v \in Values \cup {None} :
                        /\ found' = [found EXCEPT ![k] = v]
                        /\ IF v = None THEN \A w \in Values : left[w] = 0 ELSE left[v] > 0

Close == usable /\ ~usable' /\ stored' = Empty /\ found' = Nothing

Next == \/ Open \/ Close
        \/ \E k \in Keys : Remove(k) \/ \E v \in Values : Add(k, v) \/ Change(k, v)

Spec == Init /\ [][Next]_vars
=============================================================================
