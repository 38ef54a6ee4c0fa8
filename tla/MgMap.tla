------------------------------- MODULE MgMap -------------------------------
(***************************************************************************)
(* map.c: a table of (key, value) cells searched from the front, in which  *)
(* the key 0 marks a free cell.  A key goes into the first free cell; a    *)
(* full table doubles.  The emulator keeps two: ip_table (address -> line  *)
(* of the worker file) and mac_table (line -> MAC address).                *)
(***************************************************************************)
EXTENDS Naturals, Sequences, FiniteSets

CONSTANTS Keys,     \* non-zero
          Values,
          Initial,  \* initial_count
          MaxCells, \* bound: cells a table may grow to
          None      \* NULL

ASSUME MapAssumption == /\ Keys \subseteq Nat \ {0}
                        /\ Initial \in Nat \ {0} /\ MaxCells \in Nat
                        /\ None \notin Values

VARIABLES data,     \* the pointer: "null", "live", or "freed" and kept
          cells     \* what it points to, m->count cells

mapVars == <<data, cells>>

Free == [key |-> 0, value |-> None]
Cells(n) == [i \in 1..n |-> Free]

MapInit == data = "null" /\ cells = <<>>

First(S) == CHOOSE i \in S : \A j \in S : i <= j

(* A slip: the search ends at a free cell, as that of mg_map_add does. *)
HoldingUpToFree(k) == {i \in DOMAIN cells : /\ cells[i].key = k
                                            /\ \A j \in 1 .. i - 1 : cells[j].key # 0}

Holding(k) == {i \in DOMAIN cells : cells[i].key = k}

(* mg_map_get; after mg_map_cleanup there are no cells to search.          *)
Get(k) == IF Holding(k) = {} THEN None ELSE cells[First(Holding(k))].value

(* mg_map_init refuses a map whose pointer is set, so also one cleaned up. *)
Create == /\ data = "null"
          /\ data' = "live" /\ cells' = Cells(Initial)

(* The first free cell, or the first of the new half.                      *)
Store(k, v) ==
  LET free == {i \in DOMAIN cells : cells[i].key = 0}
      n == Len(cells)
  IN \/ /\ free # {}
        /\ cells' = [cells EXCEPT ![First(free)] = [key |-> k, value |-> v]]
     \/ /\ free = {} /\ n + n <= MaxCells
        /\ cells' = [(cells \o Cells(n)) EXCEPT ![n + 1] = [key |-> k, value |-> v]]

(* mg_map_add does not look whether the key is there: it may get a second  *)
(* cell, in front of the first one or behind it.                           *)
Add(k, v) == data = "live" /\ Store(k, v) /\ UNCHANGED data

Set(k, v) == /\ data = "live" /\ UNCHANGED data
             /\ IF Holding(k) = {} THEN Store(k, v)
                ELSE cells' = [cells EXCEPT ![First(Holding(k))] = [key |-> k, value |-> v]]

Del(k) == /\ data = "live" /\ UNCHANGED data
          /\ Holding(k) # {}
          /\ cells' = [cells EXCEPT ![First(Holding(k))] = Free]

(* A slip: the count is kept, and the freed cells searched. *)
CleanupKeepingCount == /\ data = "live"
                       /\ data' = "freed" /\ UNCHANGED cells

(* free(m->data) leaves the pointer; the count becomes 0. *)
Cleanup == /\ data = "live"
           /\ data' = "freed" /\ cells' = <<>>
-----------------------------------------------------------------------------
MapNext == \/ Create \/ Cleanup
           \/ \E k \in Keys : Del(k) \/ \E v \in Values : Add(k, v) \/ Set(k, v)

MapSpec == MapInit /\ [][MapNext]_mapVars
-----------------------------------------------------------------------------
(* Correctness *)

(***************************************************************************)
(* Type invariant.  A table in use has at least the cells it was given,    *)
(* and one that was cleaned up none: a look-up reads no freed memory.      *)
(***************************************************************************)
MapTypeOK == /\ data \in {"null", "live", "freed"}
             /\ cells \in Seq([key : Keys, value : Values] \cup {Free})
             /\ data = "live" <=> Len(cells) >= Initial

(***************************************************************************)
(* Whatever is added twice, whatever holes deletions leave and however the *)
(* table grows: a look-up finds one of the values stored under its key, as *)
(* long as there is one, and goes on finding it until a call that names    *)
(* the key.  After two additions of a key the first deletion uncovers the  *)
(* other value.                                                            *)
(***************************************************************************)
Stored(k, v) == {i \in Holding(k) : cells[i].value = v}

Multi == INSTANCE Multimap WITH
           stored <- [k \in Keys |-> [v \in Values |-> Cardinality(Stored(k, v))]],
           found <- [k \in Keys |-> Get(k)],
           usable <- data = "live"

IsMultimap == Multi!Spec
=============================================================================
