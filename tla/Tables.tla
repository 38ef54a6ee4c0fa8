------------------------------- MODULE Tables -------------------------------
(***************************************************************************)
(* The three tables main builds before it starts the threads: from each    *)
(* line of the worker file, the number of the line under the node's        *)
(* address and its MAC address under that number; from each line of the    *)
(* route file, a row of next hops.  A look-up for a packet goes through    *)
(* all three.  Lifecycle has the order of the calls.                       *)
(***************************************************************************)
EXTENDS Naturals, Sequences

CONSTANTS Ips, Macs,  \* addresses in the worker file
          MaxLines,   \* bound: its length
          Rows, Cols, \* dimensions of the route matrix
          RouteFile,  \* its lines, of Cols numbers
          Initial,    \* cells of a new mg_map
          None,       \* NULL, or no value
          Garbage     \* what malloc leaves in memory

ASSUME TablesAssumption ==
  /\ Ips \subseteq Nat \ {0} /\ MaxLines \in Nat \ {0} /\ Initial \in Nat \ {0}
  /\ Rows \in Nat \ {0} /\ Cols \in Nat \ {0}
  /\ RouteFile \in Seq([1..Cols -> Nat])
  /\ None \notin Macs \cup (1 .. MaxLines)

VARIABLES ipData, ipCells,    \* ip_table
          macData, macCells,  \* mac_table
          matrix,             \* route_table, column by column; empty if none
          workers             \* the lines of the worker file (history)

tableVars == <<ipData, ipCells, macData, macCells, matrix, workers>>

Ip == INSTANCE MgMap WITH
        Keys <- Ips, Values <- 1..MaxLines, MaxCells <- 2 * MaxLines,
        data <- ipData, cells <- ipCells
Mac == INSTANCE MgMap WITH
         Keys <- 1..MaxLines, Values <- Macs, MaxCells <- 2 * MaxLines,
         data <- macData, cells <- macCells

NoTables == /\ ipData = "null" /\ ipCells = <<>> /\ macData = "null" /\ macCells = <<>>
            /\ matrix = <<>> /\ workers = <<>>

(* The process ends. *)
LoseTables == /\ ipData' = "null" /\ ipCells' = <<>> /\ macData' = "null" /\ macCells' = <<>>
              /\ matrix' = <<>> /\ workers' = <<>>

InitMaps == Mac!Create /\ Ip!Create /\ UNCHANGED <<matrix, workers>>

(* A slip: lines counted from 0, a key that mg_map_add refuses. *)
ReadWorkerFromZero(ip, mac) ==
  /\ Len(workers) < MaxLines
  /\ workers' = Append(workers, [ip |-> ip, mac |-> mac])
  /\ IF workers = <<>> THEN UNCHANGED <<macData, macCells>> ELSE Mac!Add(Len(workers), mac)
  /\ Ip!Add(ip, Len(workers))
  /\ UNCHANGED matrix

(* The next line of the worker file, which may repeat an address.          *)
ReadWorker(ip, mac) ==
  /\ Len(workers) < MaxLines
  /\ workers' = Append(workers, [ip |-> ip, mac |-> mac])
  /\ Mac!Add(Len(workers) + 1, mac)
  /\ Ip!Add(ip, Len(workers) + 1)
  /\ UNCHANGED matrix

(* newRouteMatrix sets nothing; the loop that did is commented out.        *)
NewMatrix == /\ matrix' = [i \in 1 .. Rows * Cols |-> Garbage]
             /\ UNCHANGED <<ipData, ipCells, macData, macCells, workers>>

(* ELEM *)
Elem(row, col) == (col - 1) * Rows + row

(* A line of the route file; setRouteElement refuses one past the rows.    *)
ReadRoute(row) ==
  /\ matrix' = [i \in DOMAIN matrix |->
                  IF row <= Rows /\ \E col \in 1..Cols : i = Elem(row, col)
                  THEN RouteFile[row][CHOOSE col \in 1..Cols : i = Elem(row, col)]
                  ELSE matrix[i]]
  /\ UNCHANGED <<ipData, ipCells, macData, macCells, workers>>

(* getRouteElement, None when it refuses.                                  *)
GetRoute(row, col) ==
  IF row \in 1..Rows /\ col \in 1..Cols THEN matrix[Elem(row, col)] ELSE None

(* The two look-ups of encap_veth and encap_indirection.                   *)
NextMac(row, col) == Mac!Get(GetRoute(row, col))

(* deleteRouteMatrix, and mg_map_cleanup of both maps.                     *)
FreeTables == /\ matrix' = <<>>
              /\ Ip!Cleanup /\ Mac!Cleanup
              /\ UNCHANGED workers

TablesTypeOK ==
  /\ Ip!MapTypeOK /\ Mac!MapTypeOK
  /\ matrix \in Seq(Nat \cup {Garbage})
  /\ workers \in Seq([ip : Ips, mac : Macs])

TablesLive == ipData = "live" /\ macData = "live" /\ matrix # <<>>

(***************************************************************************)
(* A packet for an address goes by the first line of the worker file that  *)
(* names it (setup_cloudlab.py appends to the file, so that a second       *)
(* set-up lists every address again): it is put into that line's queue,    *)
(* and its header gets the MAC address from the very line that the route   *)
(* file names for it.  Address, line, row, column and MAC are found        *)
(* through three tables that know nothing of each other.  Without a route  *)
(* file there are no hops to find.                                         *)
(***************************************************************************)
NoRoutes == \A i \in DOMAIN matrix : matrix[i] = Garbage

LinesOf(ip) == {d \in DOMAIN workers : workers[d].ip = ip}

LookupsRight ==
  \A d \in DOMAIN workers :
    /\ Ip!Get(workers[d].ip) = Ip!First(LinesOf(workers[d].ip))
    /\ NoRoutes \/ \A s \in 1..Cols :
         d \in DOMAIN RouteFile /\ d <= Rows /\ RouteFile[d][s] \in DOMAIN workers
           => NextMac(d, s) = workers[RouteFile[d][s]].mac
=============================================================================
