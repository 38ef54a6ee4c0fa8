---------------------------- MODULE TablesProofs ----------------------------
(***************************************************************************)
(* What the calls of Tables.tla do to the three tables, for any worker and *)
(* route files.  LifecycleProofs puts them in the order of main.           *)
(***************************************************************************)
EXTENDS Tables, Integers, SequenceTheorems, TLAPS

IpFacts == INSTANCE MgMapProofs WITH
             Keys <- Ips, Values <- 1..MaxLines, MaxCells <- 2 * MaxLines,
             data <- ipData, cells <- ipCells
MacFacts == INSTANCE MgMapProofs WITH
              Keys <- 1..MaxLines, Values <- Macs, MaxCells <- 2 * MaxLines,
              data <- macData, cells <- macCells

(* The two tables meet the assumptions of MgMap. *)
LEMMA MapConstants ==
  /\ Ips \subseteq Nat \ {0} /\ 1..MaxLines \subseteq Nat \ {0}
  /\ Initial \in Nat \ {0} /\ MaxLines \in Nat \ {0} /\ 2 * MaxLines \in Nat
  /\ None \notin Macs /\ None \notin 1..MaxLines
BY TablesAssumption

(* The maps of Tables are those that MgMapProofs speaks of.                *)
LEMMA IpSame ==
  /\ IpFacts!MapInit <=> Ip!MapInit
  /\ IpFacts!Create <=> Ip!Create
  /\ IpFacts!Cleanup <=> Ip!Cleanup
  /\ IpFacts!MapTypeOK <=> Ip!MapTypeOK
  /\ \A ip \in Ips : IpFacts!Get(ip) = Ip!Get(ip) /\ IpFacts!Get(ip)' = Ip!Get(ip)'
  /\ \A ip \in Ips, d \in 1..MaxLines : IpFacts!Add(ip, d) <=> Ip!Add(ip, d)
<1>1. IpFacts!MapInit <=> Ip!MapInit BY DEF IpFacts!MapInit, Ip!MapInit
<1>2. IpFacts!Create <=> Ip!Create
  BY DEF IpFacts!Create, Ip!Create, IpFacts!Cells, Ip!Cells, IpFacts!Free, Ip!Free
<1>3. IpFacts!Cleanup <=> Ip!Cleanup BY DEF IpFacts!Cleanup, Ip!Cleanup
<1>4. IpFacts!MapTypeOK <=> Ip!MapTypeOK
  BY DEF IpFacts!MapTypeOK, Ip!MapTypeOK, IpFacts!Free, Ip!Free
<1>5. \A ip \in Ips : IpFacts!Get(ip) = Ip!Get(ip) /\ IpFacts!Get(ip)' = Ip!Get(ip)'
  BY DEF IpFacts!Get, Ip!Get, IpFacts!Holding, Ip!Holding, IpFacts!First, Ip!First
<1>6. \A ip \in Ips, d \in 1..MaxLines : IpFacts!Add(ip, d) <=> Ip!Add(ip, d)
  BY DEF IpFacts!Add, Ip!Add, IpFacts!Store, Ip!Store,
         IpFacts!First, Ip!First, IpFacts!Free, Ip!Free, IpFacts!Cells, Ip!Cells
<1> QED BY <1>1, <1>2, <1>3, <1>4, <1>5, <1>6

(* The operators of the MAC table, of which the facts of MgMapProofs hold. *)
LEMMA MacSame ==
  /\ MacFacts!MapInit <=> Mac!MapInit
  /\ MacFacts!Create <=> Mac!Create
  /\ MacFacts!Cleanup <=> Mac!Cleanup
  /\ MacFacts!MapTypeOK <=> Mac!MapTypeOK
  /\ \A d \in 1..MaxLines : MacFacts!Get(d) = Mac!Get(d) /\ MacFacts!Get(d)' = Mac!Get(d)'
  /\ \A d \in 1..MaxLines, mac \in Macs : MacFacts!Add(d, mac) <=> Mac!Add(d, mac)
<1>1. MacFacts!MapInit <=> Mac!MapInit BY DEF MacFacts!MapInit, Mac!MapInit
<1>2. MacFacts!Create <=> Mac!Create
  BY DEF MacFacts!Create, Mac!Create, MacFacts!Cells, Mac!Cells, MacFacts!Free, Mac!Free
<1>3. MacFacts!Cleanup <=> Mac!Cleanup BY DEF MacFacts!Cleanup, Mac!Cleanup
<1>4. MacFacts!MapTypeOK <=> Mac!MapTypeOK
  BY DEF MacFacts!MapTypeOK, Mac!MapTypeOK, MacFacts!Free, Mac!Free
<1>5. \A d \in 1..MaxLines : MacFacts!Get(d) = Mac!Get(d) /\ MacFacts!Get(d)' = Mac!Get(d)'
  BY DEF MacFacts!Get, Mac!Get, MacFacts!Holding, Mac!Holding, MacFacts!First, Mac!First
<1>6. \A d \in 1..MaxLines, mac \in Macs : MacFacts!Add(d, mac) <=> Mac!Add(d, mac)
  BY DEF MacFacts!Add, Mac!Add, MacFacts!Store, Mac!Store,
         MacFacts!First, Mac!First, MacFacts!Free, Mac!Free, MacFacts!Cells, Mac!Cells
<1> QED BY <1>1, <1>2, <1>3, <1>4, <1>5, <1>6

-----------------------------------------------------------------------------
(* The two maps and the lines read into them.                              *)

Lines == [ip : Ips, mac : Macs]

MapsOK == IpFacts!MapInv /\ MacFacts!MapInv

(* Line d is in cell d of both tables, and the other cells are free.       *)
LinesFound ==
  /\ IpFacts!Packed(Len(workers)) /\ MacFacts!Packed(Len(workers))
  /\ \A d \in DOMAIN workers : /\ ipCells[d] = [key |-> workers[d].ip, value |-> d]
                               /\ macCells[d] = [key |-> d, value |-> workers[d].mac]

LinesOK == workers \in Seq(Lines) /\ Len(workers) <= MaxLines

(* Before a run there are no tables. *)
LEMMA NoMaps ==
  NoTables => MapsOK /\ LinesOK /\ workers = <<>> /\ matrix = <<>>
<1> SUFFICES ASSUME NoTables
             PROVE MapsOK /\ LinesOK /\ workers = <<>> /\ matrix = <<>>
  OBVIOUS
<1>1. IpFacts!MapInv
  BY MapConstants, IpFacts!MapInitial DEF NoTables, IpFacts!MapInit
<1>2. MacFacts!MapInv
  BY MapConstants, MacFacts!MapInitial DEF NoTables, MacFacts!MapInit
<1> QED BY <1>1, <1>2, MapConstants DEF NoTables, MapsOK, LinesOK

(* The process has ended. *)
LEMMA MapsLost == LoseTables => (MapsOK /\ LinesOK /\ workers = <<>> /\ matrix = <<>>)'
<1>1. LoseTables => NoTables' BY DEF LoseTables, NoTables
<1> QED BY <1>1, NoMaps, PTL

(* The tables are created empty. *)
LEMMA MapsMade ==
  ASSUME MapsOK, workers = <<>>, InitMaps
  PROVE MapsOK' /\ LinesFound' /\ workers' = <<>> /\ ipData' = "live" /\ macData' = "live"
<1>1. IpFacts!Create /\ MacFacts!Create BY IpSame, MacSame DEF InitMaps
<1>2. IpFacts!MapInv' /\ ipData' = "live" /\ IpFacts!Packed(0)'
  <2>1. IpFacts!MapInv' /\ ipCells' = IpFacts!Cells(Initial)
    BY <1>1, MapConstants, IpFacts!CreateStep DEF MapsOK
  <2>2. IpFacts!Packed(0)' BY <2>1, MapConstants, IpFacts!PackedCreate
  <2> QED BY <1>1, <2>1, <2>2 DEF IpFacts!Create
<1>3. MacFacts!MapInv' /\ macData' = "live" /\ MacFacts!Packed(0)'
  <2>1. MacFacts!MapInv' /\ macCells' = MacFacts!Cells(Initial)
    BY <1>1, MapConstants, MacFacts!CreateStep DEF MapsOK
  <2>2. MacFacts!Packed(0)' BY <2>1, MapConstants, MacFacts!PackedCreate
  <2> QED BY <1>1, <2>1, <2>2 DEF MacFacts!Create
<1>4. workers' = <<>> BY DEF InitMaps
<1>5. Len(workers)' = 0 /\ DOMAIN workers' = {} BY <1>4
<1>6. IpFacts!Packed(Len(workers))' /\ MacFacts!Packed(Len(workers))'
  BY <1>2, <1>3, <1>5 DEF IpFacts!Packed, MacFacts!Packed
<1> QED BY <1>2, <1>3, <1>4, <1>5, <1>6 DEF MapsOK, LinesFound

(* A line goes into the next cell of both tables.                          *)
LEMMA LineAdded ==
  ASSUME MapsOK, LinesOK, LinesFound, NEW ip \in Ips, NEW mac \in Macs, ReadWorker(ip, mac)
  PROVE /\ MapsOK' /\ LinesOK' /\ LinesFound'
        /\ ipData' = "live" /\ macData' = "live" /\ matrix' = matrix
<1> DEFINE line == [ip |-> ip, mac |-> mac]
<1>1. PICK n \in Nat : /\ n = Len(workers) /\ DOMAIN workers = 1 .. n
                      /\ n < MaxLines /\ n + 1 \in 1..MaxLines
  BY MapConstants DEF LinesOK, ReadWorker
<1>2. Mac!Add(n + 1, mac) /\ Ip!Add(ip, n + 1) BY <1>1 DEF ReadWorker
<1>3. MacFacts!Add(n + 1, mac) /\ IpFacts!Add(ip, n + 1)
  BY <1>1, <1>2, IpSame, MacSame
<1>4. /\ MacFacts!MapInv' /\ macData' = "live"
      /\ MacFacts!Packed(n + 1)' /\ macCells'[n + 1] = [key |-> n + 1, value |-> mac]
      /\ \A d \in 1 .. n : macCells'[d] = macCells[d]
  <2>1. MacFacts!MapInv' BY <1>1, <1>3, MapConstants, MacFacts!AddStep DEF MapsOK
  <2>2. macData = "live" /\ macData' = "live" /\ MacFacts!Store(n + 1, mac)
    BY <1>3 DEF MacFacts!Add
  <2>3. macCells \in Seq(MacFacts!Cell) /\ Len(macCells) >= 1
    BY <2>2, MapConstants, MacFacts!MapFacts DEF MapsOK
  <2>4. MacFacts!Packed(n) BY <1>1 DEF LinesFound
  <2> QED BY <1>1, <2>1, <2>2, <2>3, <2>4, MapConstants, MacFacts!PackedStore
<1>5. /\ IpFacts!MapInv' /\ ipData' = "live"
      /\ IpFacts!Packed(n + 1)' /\ ipCells'[n + 1] = [key |-> ip, value |-> n + 1]
      /\ \A d \in 1 .. n : ipCells'[d] = ipCells[d]
  <2>1. IpFacts!MapInv' BY <1>1, <1>3, MapConstants, IpFacts!AddStep DEF MapsOK
  <2>2. ipData = "live" /\ ipData' = "live" /\ IpFacts!Store(ip, n + 1)
    BY <1>3 DEF IpFacts!Add
  <2>3. ipCells \in Seq(IpFacts!Cell) /\ Len(ipCells) >= 1
    BY <2>2, MapConstants, IpFacts!MapFacts DEF MapsOK
  <2>4. IpFacts!Packed(n) BY <1>1 DEF LinesFound
  <2> QED BY <1>1, <2>1, <2>2, <2>3, <2>4, MapConstants, IpFacts!PackedStore
<1>6. line \in Lines BY DEF Lines
<1>7. workers' = Append(workers, line) BY DEF ReadWorker
<1> HIDE DEF line
<1>8. /\ workers' \in Seq(Lines) /\ Len(workers') = n + 1 /\ DOMAIN workers' = 1 .. n + 1
      /\ workers'[n + 1] = line /\ \A d \in 1 .. n : workers'[d] = workers[d]
  BY <1>1, <1>6, <1>7 DEF LinesOK
<1>9. LinesOK'
  <2>1. n + 1 <= MaxLines BY <1>1
  <2> QED BY <1>8, <2>1 DEF LinesOK
<1>10. ASSUME NEW d \in DOMAIN workers'
       PROVE /\ ipCells'[d] = [key |-> workers'[d].ip, value |-> d]
             /\ macCells'[d] = [key |-> d, value |-> workers'[d].mac]
  <2>1. CASE d \in 1 .. n BY <1>1, <1>4, <1>5, <1>8, <2>1 DEF LinesFound
  <2>2. CASE d = n + 1 BY <1>4, <1>5, <1>8, <2>2 DEF line
  <2> QED BY <1>1, <1>8, <2>1, <2>2
<1>11. IpFacts!Packed(Len(workers))' /\ MacFacts!Packed(Len(workers))'
  BY <1>4, <1>5, <1>8 DEF IpFacts!Packed, MacFacts!Packed
<1>12. LinesFound' BY <1>10, <1>11 DEF LinesFound
<1> QED BY <1>4, <1>5, <1>9, <1>12 DEF MapsOK, ReadWorker

(* The other calls. *)
LEMMA MapsKept ==
  ASSUME MapsOK, LinesOK, UNCHANGED <<ipData, ipCells, macData, macCells, workers>>
  PROVE /\ MapsOK' /\ LinesOK' /\ (LinesFound => LinesFound')
<1>1. IpFacts!MapInv'
  BY DEF MapsOK, IpFacts!MapInv, IpFacts!MapTypeOK, IpFacts!Free
<1>2. MacFacts!MapInv'
  BY DEF MapsOK, MacFacts!MapInv, MacFacts!MapTypeOK, MacFacts!Free
<1>3. LinesFound => LinesFound'
  BY DEF LinesFound, IpFacts!Packed, MacFacts!Packed, IpFacts!Free, MacFacts!Free
<1> QED BY <1>1, <1>2, <1>3 DEF MapsOK, LinesOK

(* The tables are freed. *)
LEMMA MapsFreed ==
  ASSUME MapsOK, LinesOK, FreeTables
  PROVE MapsOK' /\ LinesOK' /\ matrix' = <<>>
<1>1. IpFacts!Cleanup /\ MacFacts!Cleanup BY IpSame, MacSame DEF FreeTables
<1>2. IpFacts!MapInv' BY <1>1, MapConstants, IpFacts!CleanupStep DEF MapsOK
<1>3. MacFacts!MapInv' BY <1>1, MapConstants, MacFacts!CleanupStep DEF MapsOK
<1> QED BY <1>2, <1>3 DEF FreeTables, MapsOK, LinesOK
-----------------------------------------------------------------------------
(* The matrix. *)

(* Arithmetic: columns lie behind each other. *)
LEMMA RowsTimes == \A a, b \in Nat : a <= b => a * Rows <= b * Rows
<1> SUFFICES ASSUME NEW a \in Nat, NEW b \in Nat, a <= b PROVE a * Rows <= b * Rows
  OBVIOUS
<1>1. Rows \in Nat BY TablesAssumption
<1>2. PICK d \in Nat : b = a + d
  <2>1. b - a \in Nat /\ b = a + (b - a) OBVIOUS
  <2> QED BY <2>1
<1>3. b * Rows = a * Rows + d * Rows BY <1>1, <1>2
<1>4. d * Rows \in Nat /\ a * Rows \in Nat BY <1>1
<1> QED BY <1>3, <1>4

(* Element (r, c) lies in the array, and no other does at its place.       *)
LEMMA ElemInside == \A r \in 1..Rows, c \in 1..Cols : Elem(r, c) \in 1 .. Rows * Cols
<1> SUFFICES ASSUME NEW r \in 1..Rows, NEW c \in 1..Cols
             PROVE Elem(r, c) \in 1 .. Rows * Cols
  OBVIOUS
<1>1. Rows \in Nat /\ Cols \in Nat /\ c \in Nat /\ c - 1 \in Nat /\ c <= Cols
  BY TablesAssumption
<1>2. c * Rows <= Cols * Rows BY <1>1, RowsTimes
<1>3. c * Rows = (c - 1) * Rows + Rows BY <1>1
<1>4. (c - 1) * Rows \in Nat /\ Cols * Rows = Rows * Cols /\ Rows * Cols \in Nat BY <1>1
<1> QED BY <1>1, <1>2, <1>3, <1>4 DEF Elem

(* No two elements of the matrix have a place in common. *)
LEMMA ElemApart ==
  \A r, q \in 1..Rows, c, d \in 1..Cols : Elem(r, c) = Elem(q, d) => r = q /\ c = d
<1>1. \A r, q \in 1..Rows, c, d \in 1..Cols : c < d => Elem(r, c) < Elem(q, d)
  <2> SUFFICES ASSUME NEW r \in 1..Rows, NEW q \in 1..Rows,
                      NEW c \in 1..Cols, NEW d \in 1..Cols, c < d
               PROVE Elem(r, c) < Elem(q, d)
    OBVIOUS
  <2>1. Rows \in Nat /\ Cols \in Nat /\ c \in Nat /\ c - 1 \in Nat /\ d - 1 \in Nat
    BY TablesAssumption
  <2>2. c * Rows <= (d - 1) * Rows BY <2>1, RowsTimes
  <2>3. c * Rows = (c - 1) * Rows + Rows BY <2>1
  <2>4. (c - 1) * Rows \in Nat /\ (d - 1) * Rows \in Nat BY <2>1
  <2> QED BY <2>1, <2>2, <2>3, <2>4 DEF Elem
<1>2. \A r \in 1..Rows, c \in 1..Cols : Elem(r, c) \in Nat BY ElemInside
<1>3. \A r, q \in 1..Rows, c \in 1..Cols : Elem(r, c) = Elem(q, c) => r = q
  <2> SUFFICES ASSUME NEW r \in 1..Rows, NEW q \in 1..Rows, NEW c \in 1..Cols,
                      Elem(r, c) = Elem(q, c)
               PROVE r = q
    OBVIOUS
  <2>1. Rows \in Nat /\ c - 1 \in Nat BY TablesAssumption
  <2>2. (c - 1) * Rows \in Nat BY <2>1
  <2> QED BY <2>1, <2>2 DEF Elem
<1> SUFFICES ASSUME NEW r \in 1..Rows, NEW q \in 1..Rows,
                    NEW c \in 1..Cols, NEW d \in 1..Cols, Elem(r, c) = Elem(q, d)
             PROVE r = q /\ c = d
  OBVIOUS
<1>4. ~ c < d /\ ~ d < c BY <1>1, <1>2
<1>5. c = d BY <1>4, TablesAssumption
<1> QED BY <1>3, <1>5

(* The lines before the n-th have been read. *)
RowsRead(n) ==
  /\ matrix \in Seq(Nat \cup {Garbage}) /\ Len(matrix) = Rows * Cols
  /\ \A r \in 1..Rows, c \in 1..Cols : r < n => matrix[Elem(r, c)] = RouteFile[r][c]
  /\ n = 1 => NoRoutes

(* A new matrix has no rows read. *)
LEMMA MatrixMade ==
  ASSUME NewMatrix
  PROVE RowsRead(1)'
<1>1. Rows * Cols \in Nat BY TablesAssumption
<1>2. matrix' = [i \in 1 .. Rows * Cols |-> Garbage] BY DEF NewMatrix
<1>3. matrix' \in Seq(Nat \cup {Garbage}) /\ Len(matrix') = Rows * Cols BY <1>1, <1>2
<1>4. \A i \in DOMAIN matrix' : matrix'[i] = Garbage BY <1>2
<1>5. \A r \in 1..Rows : ~ r < 1 BY TablesAssumption
<1> QED BY <1>3, <1>4, <1>5 DEF RowsRead, NoRoutes

(* A row of the route file is read. *)
LEMMA RowAdded ==
  ASSUME NEW n \in 1..Len(RouteFile), RowsRead(n), ReadRoute(n)
  PROVE RowsRead(n + 1)'
<1>1. /\ Rows \in Nat /\ Cols \in Nat /\ Rows * Cols \in Nat /\ n \in Nat
      /\ RouteFile[n] \in [1..Cols -> Nat]
  BY TablesAssumption
<1> DEFINE here(i) == n <= Rows /\ \E col \in 1..Cols : i = Elem(n, col)
           hop(i) == RouteFile[n][CHOOSE col \in 1..Cols : i = Elem(n, col)]
           m == [i \in DOMAIN matrix |-> IF here(i) THEN hop(i) ELSE matrix[i]]
<1>2. matrix' = m BY DEF ReadRoute
<1>3. DOMAIN matrix = 1 .. Rows * Cols BY DEF RowsRead
<1>4. ASSUME NEW c \in 1..Cols, n \in 1..Rows
      PROVE here(Elem(n, c)) /\ hop(Elem(n, c)) = RouteFile[n][c]
  <2>1. \E col \in 1..Cols : Elem(n, c) = Elem(n, col) OBVIOUS
  <2>2. \A col \in 1..Cols : Elem(n, c) = Elem(n, col) => col = c BY <1>4, ElemApart
  <2>3. (CHOOSE col \in 1..Cols : Elem(n, c) = Elem(n, col)) = c BY <2>1, <2>2
  <2>4. n <= Rows BY <1>1, <1>4
  <2>5. hop(Elem(n, c)) = RouteFile[n][c] BY <2>3
  <2> QED BY <2>1, <2>4, <2>5
<1>5. ASSUME NEW i \in DOMAIN matrix PROVE m[i] \in Nat \cup {Garbage}
  <2>1. CASE here(i)
    <3>1. (CHOOSE col \in 1..Cols : i = Elem(n, col)) \in 1..Cols BY <2>1
    <3>2. hop(i) \in Nat BY <1>1, <3>1
    <3> QED BY <2>1, <3>2
  <2>2. CASE ~here(i)
    <3>1. matrix[i] \in Nat \cup {Garbage} BY <1>3 DEF RowsRead
    <3> QED BY <2>2, <3>1
  <2> QED BY <2>1, <2>2
<1>6. m \in Seq(Nat \cup {Garbage}) /\ Len(m) = Rows * Cols
  <2>1. DOMAIN m = 1 .. Rows * Cols BY <1>3
  <2> HIDE DEF m
  <2>2. m \in [1 .. Rows * Cols -> Nat \cup {Garbage}]
    <3>1. m = [i \in 1 .. Rows * Cols |-> m[i]] BY <1>3 DEF m
    <3> QED BY <1>3, <1>5, <3>1
  <2> QED BY <1>1, <2>2
<1>7. ASSUME NEW r \in 1..Rows, NEW c \in 1..Cols, r < n + 1
      PROVE m[Elem(r, c)] = RouteFile[r][c]
  <2>1. Elem(r, c) \in DOMAIN matrix BY <1>3, ElemInside
  <2>2. CASE r = n
    <3>1. here(Elem(n, c)) /\ hop(Elem(n, c)) = RouteFile[n][c] BY <1>4, <2>2
    <3> QED BY <2>1, <2>2, <3>1
  <2>3. CASE r # n
    <3>1. r < n /\ r \in Nat BY <1>1, <1>7, <2>3
    <3>2. ~here(Elem(r, c))
      <4>1. SUFFICES ASSUME n \in 1..Rows, NEW col \in 1..Cols, Elem(r, c) = Elem(n, col)
                     PROVE FALSE
        BY <1>1
      <4> QED BY <2>3, <4>1, ElemApart
    <3>3. matrix[Elem(r, c)] = RouteFile[r][c] BY <3>1 DEF RowsRead
    <3> QED BY <2>1, <3>2, <3>3
  <2> QED BY <2>2, <2>3
<1> HIDE DEF m
<1>8. n + 1 # 1 BY <1>1
<1> QED BY <1>2, <1>6, <1>7, <1>8 DEF RowsRead

(* An address is looked up in the cell of the first line that names it.    *)
LEMMA IpFound ==
  ASSUME MapsOK, LinesOK, LinesFound, NEW d \in DOMAIN workers
  PROVE Ip!Get(workers[d].ip) = Ip!First(LinesOf(workers[d].ip))
<1> DEFINE ip == workers[d].ip
           f == IpFacts!First(LinesOf(ip))
<1>1. DOMAIN workers = 1 .. Len(workers) /\ Len(workers) \in Nat BY DEF LinesOK
<1>2. ip \in Ips /\ ip # 0
  <2>1. workers[d] \in Lines BY DEF LinesOK
  <2> QED BY <2>1, MapConstants DEF Lines
<1>3. IpFacts!Packed(Len(workers))
      /\ \A e \in DOMAIN workers : ipCells[e] = [key |-> workers[e].ip, value |-> e]
  BY DEF LinesFound
<1>4. DOMAIN ipCells = 1 .. Len(ipCells) /\ Len(ipCells) \in Nat
  BY MapConstants, IpFacts!MapFacts DEF MapsOK
<1>5. IpFacts!Holding(ip) = LinesOf(ip)
  <2>1. ASSUME NEW e \in DOMAIN ipCells
        PROVE ipCells[e].key = ip <=> e \in DOMAIN workers /\ workers[e].ip = ip
    <3>1. CASE e <= Len(workers)
      <4>1. e \in DOMAIN workers BY <1>1, <1>4, <3>1
      <4>2. ipCells[e] = [key |-> workers[e].ip, value |-> e] BY <1>3, <4>1
      <4>3. ipCells[e].key = workers[e].ip BY <4>2
      <4> QED BY <4>1, <4>3
    <3>2. CASE ~ e <= Len(workers)
      <4>1. ipCells[e].key = 0 /\ e \notin DOMAIN workers
        BY <1>1, <1>3, <3>2 DEF IpFacts!Packed, IpFacts!Free
      <4> QED BY <1>2, <4>1
    <3> QED BY <3>1, <3>2
  <2>2. DOMAIN workers \subseteq DOMAIN ipCells
    BY <1>1, <1>3, <1>4 DEF IpFacts!Packed
  <2> HIDE DEF ip
  <2> QED BY <2>1, <2>2 DEF IpFacts!Holding, LinesOf
<1>6. LinesOf(ip) \in SUBSET Nat /\ d \in LinesOf(ip) BY <1>1 DEF LinesOf
<1>7. f \in LinesOf(ip) BY <1>6, MapConstants, IpFacts!FirstIn
<1>8. ipCells[f].value = f
  <2>1. f \in DOMAIN workers BY <1>7 DEF LinesOf
  <2> HIDE DEF f
  <2>2. ipCells[f] = [key |-> workers[f].ip, value |-> f] BY <1>3, <2>1
  <2> QED BY <2>2
<1>9. IpFacts!Get(ip) = f BY <1>5, <1>6, <1>8 DEF IpFacts!Get
<1>10. f = Ip!First(LinesOf(ip)) BY DEF IpFacts!First, Ip!First
<1> QED BY <1>2, <1>9, <1>10, IpSame

(* A line number is looked up in the cell of that line.                    *)
LEMMA MacFound ==
  ASSUME MapsOK, LinesOK, LinesFound, NEW d \in DOMAIN workers
  PROVE Mac!Get(d) = workers[d].mac
<1>1. /\ DOMAIN workers = 1 .. Len(workers) /\ Len(workers) \in Nat
      /\ d \in 1..MaxLines /\ d # 0
  BY MapConstants DEF LinesOK
<1>2. MacFacts!Packed(Len(workers))
      /\ \A e \in DOMAIN workers : macCells[e] = [key |-> e, value |-> workers[e].mac]
  BY DEF LinesFound
<1>3. MacFacts!Holding(d) = {d}
  <2>1. DOMAIN macCells = 1 .. Len(macCells) /\ Len(macCells) \in Nat
    BY MapConstants, MacFacts!MapFacts DEF MapsOK
  <2>2. ASSUME NEW e \in DOMAIN macCells PROVE macCells[e].key = d <=> e = d
    <3>1. CASE e <= Len(workers)
      <4>1. e \in DOMAIN workers BY <1>1, <2>1, <3>1
      <4>2. macCells[e] = [key |-> e, value |-> workers[e].mac] BY <1>2, <4>1
      <4> QED BY <4>2
    <3>2. CASE ~ e <= Len(workers)
      <4>1. macCells[e].key = 0 /\ e # d
        BY <1>1, <1>2, <3>2 DEF MacFacts!Packed, MacFacts!Free
      <4> QED BY <1>1, <4>1
    <3> QED BY <3>1, <3>2
  <2>3. d \in DOMAIN macCells BY <1>1, <1>2, <2>1 DEF MacFacts!Packed
  <2> QED BY <2>2, <2>3 DEF MacFacts!Holding
<1>4. MacFacts!First({d}) = d
  <2>1. {d} \in SUBSET Nat /\ \A e \in {d} : d <= e BY <1>1
  <2> QED BY <2>1, MapConstants, MacFacts!FirstIs
<1>5. MacFacts!Get(d) = workers[d].mac
  <2>1. macCells[d] = [key |-> d, value |-> workers[d].mac] BY <1>2
  <2>2. MacFacts!Holding(d) # {} BY <1>3
  <2> QED BY <1>3, <1>4, <2>1, <2>2 DEF MacFacts!Get
<1> QED BY <1>1, <1>5, MacSame

(* No line has been read, or all, and the tables agree.                    *)
LEMMA RightLookups ==
  ASSUME MapsOK, LinesOK, LinesFound, RowsRead(1) \/ RowsRead(Len(RouteFile) + 1)
  PROVE LookupsRight
<1> SUFFICES ASSUME NEW d \in DOMAIN workers, ~NoRoutes, NEW s \in 1..Cols,
                    d \in DOMAIN RouteFile, d <= Rows, RouteFile[d][s] \in DOMAIN workers
             PROVE NextMac(d, s) = workers[RouteFile[d][s]].mac
  BY IpFound DEF LookupsRight
<1>1. RowsRead(Len(RouteFile) + 1) BY DEF RowsRead
<1>2. d \in 1..Rows /\ d < Len(RouteFile) + 1
  <2>1. RouteFile \in Seq([1..Cols -> Nat]) BY TablesAssumption
  <2>2. d \in 1 .. Len(RouteFile) /\ Len(RouteFile) \in Nat BY <2>1
  <2> QED BY <2>2, TablesAssumption
<1>3. GetRoute(d, s) = RouteFile[d][s] BY <1>1, <1>2 DEF RowsRead, GetRoute
<1> QED BY <1>3, MacFound DEF NextMac
=============================================================================
