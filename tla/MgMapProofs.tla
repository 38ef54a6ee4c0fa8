---------------------------- MODULE MgMapProofs ----------------------------
(***************************************************************************)
(* What MgMap.tla says of the table of map.c, for any keys and values and  *)
(* any number of cells to begin with.                                      *)
(***************************************************************************)
EXTENDS MgMap, FiniteSetTheorems, SequenceTheorems, TLAPS

(* Any set of numbers has a least one: the search from the front stops.    *)
(* Of the intervals 0..n up to its elements one contains no other.         *)
LEMMA LeastElement ==
  ASSUME NEW T \in SUBSET Nat, T # {}
  PROVE \E m \in T : \A n \in T : m <= n
<1> DEFINE Up == {0 .. n : n \in T}
           R == StrictSubsetOrdering(Nat)
<1>1. Up \subseteq FiniteSubsetsOf(Nat)
  <2> SUFFICES ASSUME NEW n \in T PROVE 0 .. n \in FiniteSubsetsOf(Nat)
    OBVIOUS
  <2>1. n \in Int /\ 0 \in Int OBVIOUS
  <2>2. IsFiniteSet(0 .. n) BY <2>1, FS_Interval
  <2>3. 0 .. n \in SUBSET Nat OBVIOUS
  <2> QED BY <2>2, <2>3 DEF FiniteSubsetsOf
<1>2. Up # {} OBVIOUS
<1>3. IsWellFoundedOn(R, FiniteSubsetsOf(Nat)) BY FS_StrictSubsetOrderingWellFounded
<1>4. \E U \in Up : \A V \in Up : <<V, U>> \notin R
  <2> HIDE DEF Up, R
  <2> QED BY <1>1, <1>2, <1>3, WFMin
<1>5. PICK m \in T : \A V \in Up : <<V, 0 .. m>> \notin R BY <1>4
<1>6. ASSUME NEW n \in T PROVE m <= n
  <2>1. SUFFICES ASSUME n < m PROVE FALSE OBVIOUS
  <2>2. 0 .. n \in Up OBVIOUS
  <2>3. 0 .. n \subseteq 0 .. m /\ m \in 0 .. m /\ m \notin 0 .. n BY <2>1
  <2>4. 0 .. n \in SUBSET Nat /\ 0 .. m \in SUBSET Nat OBVIOUS
  <2>5. <<0 .. n, 0 .. m>> \in R BY <2>3, <2>4 DEF StrictSubsetOrdering
  <2> QED BY <1>5, <2>2, <2>5
<1> QED BY <1>6

(* First finds a cell of the set, when there is one.                       *)
LEMMA FirstIn ==
  ASSUME NEW S \in SUBSET Nat, S # {}
  PROVE First(S) \in S
BY LeastElement DEF First

(* The least number of a set is its First.                                 *)
LEMMA FirstIs ==
  ASSUME NEW S \in SUBSET Nat, NEW m \in S, \A n \in S : m <= n
  PROVE First(S) = m
<1>1. \A i \in S : (\A j \in S : i <= j) <=> i = m
  <2> SUFFICES ASSUME NEW i \in S, \A j \in S : i <= j PROVE i = m OBVIOUS
  <2>1. i <= m /\ m <= i /\ i \in Nat /\ m \in Nat OBVIOUS
  <2> QED BY <2>1
<1> QED BY <1>1 DEF First

(* Nothing in the set is before its First.                                 *)
LEMMA FirstLeast ==
  ASSUME NEW S \in SUBSET Nat, NEW n \in S
  PROVE First(S) <= n
<1>1. PICK m \in S : \A j \in S : m <= j BY LeastElement
<1>2. First(S) = m BY <1>1, FirstIs
<1> QED BY <1>1, <1>2

Cell == [key : Keys, value : Values] \cup {Free}

(* What is stored goes into one cell, free before or added at the end; any *)
(* other cell is as it was or, in the new half, free.                      *)
StoredAt(i, k, v) ==
  /\ i <= Len(cells) + 1 /\ \A j \in DOMAIN cells : j < i => cells[j].key # 0
  /\ i \in DOMAIN cells' /\ cells'[i] = [key |-> k, value |-> v]
  /\ i \in DOMAIN cells => cells[i].key = 0
  /\ \A j \in DOMAIN cells : j # i => cells'[j] = cells[j]
  /\ \A j \in DOMAIN cells' : j # i /\ j \notin DOMAIN cells => cells'[j] = Free

(* A pair goes to the first free cell, after the table has been doubled if need be. *)
LEMMA StoreOne ==
  ASSUME cells \in Seq(Cell), Len(cells) >= 1,
         NEW k \in Keys, NEW v \in Values, Store(k, v)
  PROVE /\ cells' \in Seq(Cell) /\ Len(cells') >= Len(cells)
        /\ \E i \in Nat : StoredAt(i, k, v)
<1> DEFINE free == {i \in DOMAIN cells : cells[i].key = 0}
           n == Len(cells)
           c == [key |-> k, value |-> v]
<1>1. c \in Cell /\ Free \in Cell BY DEF Cell
<1>2. n \in Nat /\ DOMAIN cells = 1 .. n OBVIOUS
<1>3. CASE free # {}
  <2> DEFINE i == First(free)
  <2>1. i \in free
    <3>1. free \in SUBSET Nat BY <1>2
    <3> QED BY <3>1, <1>3, FirstIn
  <2>2. cells' = [cells EXCEPT ![i] = c] BY <1>3 DEF Store
  <2> HIDE DEF i, c
  <2>3. cells' \in Seq(Cell) /\ Len(cells') = n /\ DOMAIN cells' = DOMAIN cells
    BY <1>1, <1>2, <2>1, <2>2
  <2>4. cells'[i] = c /\ \A j \in DOMAIN cells : j # i => cells'[j] = cells[j]
    BY <1>2, <2>1, <2>2
  <2>5. i <= n + 1 /\ \A j \in DOMAIN cells : j < i => cells[j].key # 0
    <3>1. i \in 1 .. n BY <1>2, <2>1
    <3>2. ASSUME NEW j \in DOMAIN cells, j < i, cells[j].key = 0 PROVE FALSE
      <4>1. free \in SUBSET Nat /\ j \in free BY <1>2, <3>2
      <4>2. i <= j BY <4>1, FirstLeast DEF i
      <4>3. i \in Nat /\ j \in Nat BY <1>2, <3>1
      <4> QED BY <3>2, <4>2, <4>3
    <3> QED BY <1>2, <3>1, <3>2
  <2>6. StoredAt(i, k, v) BY <2>1, <2>3, <2>4, <2>5 DEF StoredAt, c
  <2> QED BY <1>2, <2>1, <2>3, <2>6
<1>4. CASE free = {}
  <2> DEFINE new == cells \o Cells(n)
  <2>1. Cells(n) \in Seq(Cell) /\ Len(Cells(n)) = n /\ \A j \in 1 .. n : Cells(n)[j] = Free
    BY <1>1, <1>2 DEF Cells
  <2>2. /\ new \in Seq(Cell) /\ Len(new) = n + n
        /\ \A j \in 1 .. n : new[j] = cells[j]
        /\ \A j \in n + 1 .. n + n : new[j] = Free
    <3> HIDE DEF Cells
    <3>1. new \in Seq(Cell) /\ Len(new) = n + n BY <1>2, <2>1
    <3>2. \A j \in 1 .. n : new[j] = cells[j] BY <1>2, <2>1
    <3>3. ASSUME NEW j \in n + 1 .. n + n PROVE new[j] = Free
      <4>1. j - n \in 1 .. n BY <1>2
      <4>2. new[j] = Cells(n)[j - n] BY <1>2, <2>1, <4>1
      <4> QED BY <2>1, <4>1, <4>2
    <3> QED BY <3>1, <3>2, <3>3
  <2>3. cells' = [new EXCEPT ![n + 1] = c] BY <1>4 DEF Store
  <2> HIDE DEF new, c
  <2>4. n + 1 \in 1 .. n + n BY <1>2
  <2>5. /\ cells' \in Seq(Cell) /\ Len(cells') = n + n /\ DOMAIN cells' = 1 .. n + n
        /\ cells'[n + 1] = c /\ \A j \in 1 .. n + n : j # n + 1 => cells'[j] = new[j]
    BY <1>1, <1>2, <2>2, <2>3, <2>4
  <2>6. StoredAt(n + 1, k, v) BY <1>2, <1>4, <2>2, <2>4, <2>5 DEF StoredAt, c
  <2> QED BY <1>2, <2>5, <2>6
<1> QED BY <1>3, <1>4

(* As long as nothing is deleted, the cells fill from the front.           *)
Packed(n) ==
  /\ n <= Len(cells)
  /\ \A j \in DOMAIN cells : IF j <= n THEN cells[j].key # 0 ELSE cells[j] = Free

(* The next pair goes behind the last.                                     *)
LEMMA PackedStore ==
  ASSUME cells \in Seq(Cell), Len(cells) >= 1, NEW n \in Nat, Packed(n),
         NEW k \in Keys, NEW v \in Values, Store(k, v)
  PROVE /\ Packed(n + 1)' /\ cells'[n + 1] = [key |-> k, value |-> v]
        /\ \A j \in 1 .. n : cells'[j] = cells[j]
<1>1. /\ cells' \in Seq(Cell) /\ Len(cells') >= Len(cells)
      /\ \E i \in Nat : StoredAt(i, k, v)
  BY StoreOne
<1>2. PICK i \in Nat : StoredAt(i, k, v) BY <1>1
<1>3. DOMAIN cells = 1 .. Len(cells) /\ Len(cells) \in Nat /\ n <= Len(cells)
  BY DEF Packed
<1>4. Free.key = 0 /\ k # 0 BY MapAssumption DEF Free
<1>5. i = n + 1
  <2>1. ~ i <= n
    <3>1. SUFFICES ASSUME i <= n PROVE FALSE OBVIOUS
    <3>2. i \in DOMAIN cells
      <4>1. i \in DOMAIN cells' /\ DOMAIN cells' = 1 .. Len(cells')
        BY <1>1, <1>2 DEF StoredAt
      <4> QED BY <1>3, <3>1, <4>1
    <3> QED BY <1>2, <3>1, <3>2 DEF StoredAt, Packed
  <2>2. ~ n + 1 < i
    <3>1. SUFFICES ASSUME n + 1 < i PROVE FALSE OBVIOUS
    <3>2. n + 1 \in DOMAIN cells BY <1>2, <1>3, <3>1 DEF StoredAt
    <3>3. cells[n + 1] = Free BY <3>2 DEF Packed
    <3> QED BY <1>2, <1>4, <3>1, <3>2, <3>3 DEF StoredAt
  <2> QED BY <2>1, <2>2
<1>6. \A j \in 1 .. n : cells'[j] = cells[j] BY <1>2, <1>3, <1>5 DEF StoredAt
<1>7. i \in DOMAIN cells' /\ cells'[i] = [key |-> k, value |-> v] BY <1>2 DEF StoredAt
<1>8. Packed(n + 1)'
  <2>1. DOMAIN cells' = 1 .. Len(cells') /\ Len(cells') \in Nat BY <1>1
  <2>2. n + 1 <= Len(cells') BY <1>5, <1>7, <2>1
  <2>3. ASSUME NEW j \in DOMAIN cells'
        PROVE IF j <= n + 1 THEN cells'[j].key # 0 ELSE cells'[j] = Free
    <3>1. CASE j <= n
      <4>1. j \in 1 .. n /\ j \in DOMAIN cells BY <1>3, <2>1, <3>1
      <4> QED BY <1>6, <2>1, <3>1, <4>1 DEF Packed
    <3>2. CASE j = n + 1 BY <1>4, <1>5, <1>7, <3>2
    <3>3. CASE j > n + 1
      <4>1. CASE j \in DOMAIN cells
        <5>1. cells'[j] = cells[j] BY <1>2, <1>5, <3>3, <4>1 DEF StoredAt
        <5>2. cells[j] = Free BY <3>3, <4>1 DEF Packed
        <5> QED BY <3>3, <5>1, <5>2
      <4>2. CASE j \notin DOMAIN cells BY <1>2, <1>5, <3>3, <4>2 DEF StoredAt
      <4> QED BY <4>1, <4>2
    <3> QED BY <2>1, <3>1, <3>2, <3>3
  <2> QED BY <2>2, <2>3 DEF Packed
<1> QED BY <1>5, <1>6, <1>7, <1>8

(* A new table is empty.                                                   *)
LEMMA PackedCreate ==
  ASSUME cells' = Cells(Initial)
  PROVE Packed(0)'
<1>1. Initial \in Nat BY MapAssumption
<1>2. cells' = [i \in 1 .. Initial |-> Free] BY DEF Cells
<1>3. Len(cells') = Initial /\ DOMAIN cells' = 1 .. Initial BY <1>1, <1>2
<1>4. \A j \in DOMAIN cells' : cells'[j] = Free /\ ~ j <= 0 BY <1>2, <1>3
<1> QED BY <1>1, <1>3, <1>4 DEF Packed

(* Two sets that agree on x and on all else are the same.                 *)
LEMMA SameBut ==
  ASSUME NEW A, NEW B, NEW x, A \ {x} = B \ {x}, x \in A <=> x \in B
  PROVE A = B
<1>1. \A y : y \in A <=> y \in B OBVIOUS
<1> QED BY <1>1

(* Cell i alone has changed, and names no key but k before and after.      *)
Only(i, k) ==
  /\ \A j \in DOMAIN cells \ {i} : j \in DOMAIN cells' /\ cells'[j] = cells[j]
  /\ \A j \in DOMAIN cells' \ {i} : j \notin DOMAIN cells => cells'[j] = Free
  /\ i \in DOMAIN cells => cells[i].key \in {0, k}
  /\ i \in DOMAIN cells' => cells'[i].key \in {0, k}

(* Then no other key has changed, and k only in cell i.                    *)
LEMMA Elsewhere ==
  ASSUME cells \in Seq(Cell), NEW k \in Keys, NEW i, Only(i, k)
  PROVE /\ \A l \in Keys \ {k} : /\ Get(l)' = Get(l)
                                 /\ \A w \in Values : Stored(l, w)' = Stored(l, w)
        /\ Holding(k)' \ {i} = Holding(k) \ {i}
        /\ \A w \in Values : Stored(k, w)' \ {i} = Stored(k, w) \ {i}
<1>1. 0 \notin Keys /\ Free.key = 0 BY MapAssumption DEF Free
<1>2. ASSUME NEW l \in Keys
      PROVE \A j : j # i => (j \in DOMAIN cells' /\ cells'[j].key = l <=>
                             j \in DOMAIN cells /\ cells[j].key = l)
  <2> SUFFICES ASSUME NEW j, j # i
               PROVE j \in DOMAIN cells' /\ cells'[j].key = l <=>
                     j \in DOMAIN cells /\ cells[j].key = l
    OBVIOUS
  <2>1. CASE j \in DOMAIN cells BY <2>1 DEF Only
  <2>2. CASE j \notin DOMAIN cells
    <3>1. j \in DOMAIN cells' => cells'[j] = Free BY <2>2 DEF Only
    <3> QED BY <1>1, <2>2, <3>1
  <2> QED BY <2>1, <2>2
<1>3. ASSUME NEW j, j # i, j \in DOMAIN cells PROVE cells'[j] = cells[j]
  BY <1>3 DEF Only
<1>4. ASSUME NEW l \in Keys
      PROVE /\ Holding(l)' \ {i} = Holding(l) \ {i}
            /\ \A w \in Values : Stored(l, w)' \ {i} = Stored(l, w) \ {i}
  <2>1. Holding(l)' \ {i} = Holding(l) \ {i} BY <1>2 DEF Holding
  <2>2. \A j \in Holding(l) \ {i} : cells'[j] = cells[j] BY <1>3 DEF Holding
  <2>3. ASSUME NEW w \in Values PROVE Stored(l, w)' \ {i} = Stored(l, w) \ {i}
    BY <2>1, <2>2 DEF Stored
  <2> QED BY <2>1, <2>3
<1>5. ASSUME NEW l \in Keys \ {k}
      PROVE Get(l)' = Get(l) /\ \A w \in Values : Stored(l, w)' = Stored(l, w)
  <2>1. i \notin Holding(l) /\ i \notin Holding(l)'
    <3>1. l # 0 /\ l # k BY <1>1
    <3> QED BY <3>1 DEF Only, Holding
  <2>2. Holding(l)' = Holding(l)
    <3>1. Holding(l)' \ {i} = Holding(l) \ {i} BY <1>4
    <3> QED BY <2>1, <3>1, SameBut, Zenon
  <2>3. ASSUME NEW w \in Values PROVE Stored(l, w)' = Stored(l, w)
    <3>1. Stored(l, w)' \ {i} = Stored(l, w) \ {i} BY <1>4
    <3>2. i \notin Stored(l, w) /\ i \notin Stored(l, w)' BY <2>1 DEF Stored
    <3>3. i \in Stored(l, w)' <=> i \in Stored(l, w) BY <3>2
    <3> QED BY <3>1, <3>3, SameBut
  <2>4. Get(l)' = Get(l)
    <3>1. CASE Holding(l) = {} BY <2>2, <3>1 DEF Get
    <3>2. CASE Holding(l) # {}
      <4> DEFINE f == First(Holding(l))
      <4>1. Holding(l) \in SUBSET Nat /\ Holding(l) \subseteq DOMAIN cells BY DEF Holding
      <4>2. f \in Holding(l) BY <3>2, <4>1, FirstIn
      <4>3. f # i BY <2>1, <4>2
      <4>4. cells'[f] = cells[f] BY <1>3, <4>1, <4>2, <4>3
      <4> QED BY <2>2, <3>2, <4>4 DEF Get
    <3> QED BY <3>1, <3>2
  <2> QED BY <2>3, <2>4
<1> QED BY <1>4, <1>5

(* The cells of one key and one value; how many there are.                 *)
LEMMA StoredFinite ==
  ASSUME cells \in Seq(Cell), NEW k, NEW v
  PROVE IsFiniteSet(Stored(k, v)) /\ Cardinality(Stored(k, v)) \in Nat
<1>1. IsFiniteSet(1 .. Len(cells))
  <2>1. 1 \in Int /\ Len(cells) \in Int OBVIOUS
  <2> QED BY <2>1, FS_Interval
<1>2. Stored(k, v) \subseteq 1 .. Len(cells) BY DEF Stored, Holding
<1>3. IsFiniteSet(Stored(k, v)) BY <1>1, <1>2, FS_Subset
<1> QED BY <1>3, FS_CardinalityType

(* A look-up finds the value of a cell of the key, if there is a cell.     *)
LEMMA GetFirst ==
  ASSUME cells \in Seq(Cell), NEW k \in Keys, Holding(k) # {}
  PROVE /\ First(Holding(k)) \in Holding(k)
        /\ First(Holding(k)) \in 1 .. Len(cells)
        /\ cells[First(Holding(k))] = [key |-> k, value |-> Get(k)]
        /\ Get(k) \in Values /\ Get(k) # None
        /\ First(Holding(k)) \in Stored(k, Get(k))
<1> DEFINE f == First(Holding(k))
<1>1. Holding(k) \in SUBSET Nat /\ Holding(k) \subseteq 1 .. Len(cells) BY DEF Holding
<1>2. f \in Holding(k) BY <1>1, FirstIn
<1>3. f \in 1 .. Len(cells) BY <1>1, <1>2
<1>4. cells[f].key = k BY <1>2 DEF Holding
<1>5. k # 0 /\ None \notin Values BY MapAssumption
<1>6. cells[f] \in [key : Keys, value : Values]
  <2>1. cells[f] \in Cell BY <1>3
  <2> QED BY <1>4, <1>5, <2>1 DEF Cell, Free
<1>7. Get(k) = cells[f].value BY DEF Get
<1>8. cells[f] = [key |-> k, value |-> Get(k)] /\ Get(k) \in Values
  BY <1>4, <1>6, <1>7
<1>9. f \in Stored(k, Get(k)) BY <1>2, <1>7 DEF Stored
<1> QED BY <1>2, <1>3, <1>5, <1>8, <1>9

(* What a look-up finds is stored.                                         *)
FindsStored ==
  cells \in Seq(Cell) =>
    \A k \in Keys : Holding(k) # {} =>
      Get(k) \in Values /\ Get(k) # None /\ Cardinality(Stored(k, Get(k))) > 0

(* It holds of any cells.                                                  *)
LEMMA LookUpFindsStored == FindsStored
<1> SUFFICES ASSUME cells \in Seq(Cell), NEW k \in Keys, Holding(k) # {}
             PROVE Get(k) \in Values /\ Get(k) # None /\ Cardinality(Stored(k, Get(k))) > 0
  BY DEF FindsStored
<1>1. Get(k) \in Values /\ Get(k) # None /\ Stored(k, Get(k)) # {} BY GetFirst
<1>2. IsFiniteSet(Stored(k, Get(k))) /\ Cardinality(Stored(k, Get(k))) \in Nat
  BY StoredFinite
<1>3. Cardinality(Stored(k, Get(k))) # 0 BY <1>1, <1>2, FS_EmptySet
<1> QED BY <1>1, <1>2, <1>3

(* The abstract state of the table.                                        *)
Counts(k) == [v \in Values |-> Cardinality(Stored(k, v))]
StoredMap == [k \in Keys |-> Counts(k)]
FoundMap == [k \in Keys |-> Get(k)]

(* A step that names k alone changes its counts and its answer alone.      *)
LEMMA NamesOne ==
  ASSUME NEW k \in Keys,
         \A l \in Keys \ {k} : /\ Get(l)' = Get(l)
                               /\ \A w \in Values : Stored(l, w)' = Stored(l, w)
  PROVE /\ StoredMap' = [StoredMap EXCEPT ![k] = Counts(k)']
        /\ FoundMap' = [FoundMap EXCEPT ![k] = Get(k)']
<1>1. \A l \in Keys \ {k} : Counts(l)' = Counts(l) BY DEF Counts
<1> HIDE DEF Counts
<1>2. \A l \in Keys : StoredMap'[l] = IF l = k THEN Counts(k)' ELSE StoredMap[l]
  BY <1>1 DEF StoredMap
<1>3. \A l \in Keys : FoundMap'[l] = IF l = k THEN Get(k)' ELSE FoundMap[l]
  BY DEF FoundMap
<1>4. StoredMap' = [StoredMap EXCEPT ![k] = Counts(k)']
  BY <1>2 DEF StoredMap
<1>5. FoundMap' = [FoundMap EXCEPT ![k] = Get(k)']
  BY <1>3 DEF FoundMap
<1> QED BY <1>4, <1>5

(* Cell i gets a value of k: one more under k and v.                       *)
LEMMA CountMore ==
  ASSUME cells \in Seq(Cell), cells' \in Seq(Cell), NEW k \in Keys, NEW v \in Values,
         NEW i, Only(i, k), i \notin Holding(k),
         i \in DOMAIN cells', cells'[i] = [key |-> k, value |-> v]
  PROVE Counts(k)' = Multi!More(Counts(k), v)
<1>1. \A w \in Values : Stored(k, w)' \ {i} = Stored(k, w) \ {i} BY Elsewhere
<1>2. \A w \in Values : i \notin Stored(k, w) BY DEF Stored
<1>3. i \in Stored(k, v)' BY DEF Stored, Holding
<1>4. \A w \in Values \ {v} : i \notin Stored(k, w)' BY DEF Stored
<1>5. Cardinality(Stored(k, v)') = Cardinality(Stored(k, v)) + 1
  <2>1. Stored(k, v)' = Stored(k, v) \cup {i} BY <1>1, <1>3
  <2>2. IsFiniteSet(Stored(k, v)) BY StoredFinite
  <2> QED BY <1>2, <2>1, <2>2, FS_AddElement
<1>6. ASSUME NEW w \in Values \ {v}
      PROVE Cardinality(Stored(k, w)') = Cardinality(Stored(k, w))
  <2>1. Stored(k, w)' \ {i} = Stored(k, w) \ {i} BY <1>1
  <2>2. i \in Stored(k, w)' <=> i \in Stored(k, w) BY <1>2, <1>4
  <2>3. Stored(k, w)' = Stored(k, w) BY <2>1, <2>2, SameBut
  <2> QED BY <2>3
<1> QED BY <1>5, <1>6 DEF Counts, Multi!More

(* Cell i loses its value of k: one less under k and u.                    *)
LEMMA CountLess ==
  ASSUME cells \in Seq(Cell), cells' \in Seq(Cell), NEW k \in Keys, NEW u \in Values,
         NEW i, Only(i, k), i \in Stored(k, u), i \notin Holding(k)'
  PROVE Counts(k)' = Multi!Less(Counts(k), u)
<1>1. \A w \in Values : Stored(k, w)' \ {i} = Stored(k, w) \ {i} BY Elsewhere
<1>2. \A w \in Values : i \notin Stored(k, w)' BY DEF Stored
<1>3. \A w \in Values \ {u} : i \notin Stored(k, w) BY DEF Stored
<1>4. Cardinality(Stored(k, u)') = Cardinality(Stored(k, u)) - 1
  <2>1. Stored(k, u)' = Stored(k, u) \ {i} BY <1>1, <1>2
  <2>2. IsFiniteSet(Stored(k, u)) BY StoredFinite
  <2> QED BY <2>1, <2>2, FS_RemoveElement
<1>5. ASSUME NEW w \in Values \ {u}
      PROVE Cardinality(Stored(k, w)') = Cardinality(Stored(k, w))
  <2>1. Stored(k, w)' \ {i} = Stored(k, w) \ {i} BY <1>1
  <2>2. i \in Stored(k, w)' <=> i \in Stored(k, w) BY <1>2, <1>3
  <2>3. Stored(k, w)' = Stored(k, w) BY <2>1, <2>2, SameBut
  <2> QED BY <2>3
<1> QED BY <1>4, <1>5 DEF Counts, Multi!Less

(* Cell i gets another value of k.                                         *)
LEMMA CountOther ==
  ASSUME cells \in Seq(Cell), cells' \in Seq(Cell),
         NEW k \in Keys, NEW u \in Values, NEW v \in Values,
         NEW i, Only(i, k), i \in Stored(k, u),
         i \in DOMAIN cells', cells'[i] = [key |-> k, value |-> v]
  PROVE Counts(k)' = Multi!More(Multi!Less(Counts(k), u), v)
<1>1. \A w \in Values : Stored(k, w)' \ {i} = Stored(k, w) \ {i} BY Elsewhere
<1>2. i \in Stored(k, v)' BY DEF Stored, Holding
<1>3. \A w \in Values \ {v} : i \notin Stored(k, w)' BY DEF Stored
<1>4. \A w \in Values \ {u} : i \notin Stored(k, w) BY DEF Stored
<1>5. ASSUME NEW w \in Values, w \notin {u, v} \/ u = v
      PROVE Cardinality(Stored(k, w)') = Cardinality(Stored(k, w))
  <2>1. Stored(k, w)' \ {i} = Stored(k, w) \ {i} BY <1>1
  <2>2. i \in Stored(k, w)' <=> i \in Stored(k, w) BY <1>2, <1>3, <1>4, <1>5
  <2>3. Stored(k, w)' = Stored(k, w) BY <2>1, <2>2, SameBut
  <2> QED BY <2>3
<1>6. \A w \in Values : Cardinality(Stored(k, w)) \in Nat BY StoredFinite
<1>7. CASE u = v
  <2>1. Counts(k)' = Counts(k) BY <1>5, <1>7 DEF Counts
  <2>2. Counts(k)[v] \in Nat /\ Counts(k) = [w \in Values |-> Counts(k)[w]]
    BY <1>6 DEF Counts
  <2> HIDE DEF Counts
  <2>3. Multi!More(Multi!Less(Counts(k), v), v) = Counts(k)
    BY <2>2 DEF Multi!More, Multi!Less
  <2> QED BY <1>7, <2>1, <2>3
<1>8. CASE u # v
  <2>1. Cardinality(Stored(k, u)') = Cardinality(Stored(k, u)) - 1
    <3>1. Stored(k, u)' = Stored(k, u) \ {i} BY <1>1, <1>3, <1>8
    <3>2. IsFiniteSet(Stored(k, u)) BY StoredFinite
    <3> QED BY <3>1, <3>2, FS_RemoveElement
  <2>2. Cardinality(Stored(k, v)') = Cardinality(Stored(k, v)) + 1
    <3>1. Stored(k, v)' = Stored(k, v) \cup {i} BY <1>1, <1>2
    <3>2. IsFiniteSet(Stored(k, v)) BY StoredFinite
    <3>3. i \notin Stored(k, v) BY <1>4, <1>8
    <3> QED BY <3>1, <3>2, <3>3, FS_AddElement
  <2> QED BY <1>5, <1>8, <2>1, <2>2 DEF Counts, Multi!More, Multi!Less
<1> QED BY <1>7, <1>8

(* One more cell of k: a look-up finds its value or what it found before.  *)
LEMMA StoreStep ==
  ASSUME cells \in Seq(Cell), Len(cells) >= 1, NEW k \in Keys, NEW v \in Values, Store(k, v)
  PROVE /\ cells' \in Seq(Cell) /\ Len(cells') >= Len(cells)
        /\ StoredMap' = [StoredMap EXCEPT ![k] = Multi!More(@, v)]
        /\ FoundMap' = [FoundMap EXCEPT ![k] = Get(k)']
        /\ \/ Get(k)' = v
           \/ Get(k) # None /\ Get(k)' = Get(k)
        /\ Holding(k) = {} => Get(k)' = v
<1>1. /\ cells' \in Seq(Cell) /\ Len(cells') >= Len(cells)
      /\ \E i \in Nat : StoredAt(i, k, v)
  BY StoreOne
<1>2. PICK i \in Nat : StoredAt(i, k, v) BY <1>1
<1>3. 0 \notin Keys BY MapAssumption
<1>4. DOMAIN cells \subseteq DOMAIN cells' BY <1>1
<1>5. Only(i, k) BY <1>2, <1>4 DEF StoredAt, Only
<1>6. /\ i \in DOMAIN cells' /\ cells'[i] = [key |-> k, value |-> v]
      /\ i \notin Holding(k) /\ i \in Holding(k)'
  BY <1>2, <1>3 DEF StoredAt, Holding
<1>7. /\ StoredMap' = [StoredMap EXCEPT ![k] = Counts(k)']
      /\ FoundMap' = [FoundMap EXCEPT ![k] = Get(k)']
  BY <1>5, Elsewhere, NamesOne
<1>8. Counts(k)' = Multi!More(Counts(k), v) BY <1>1, <1>5, <1>6, CountMore
<1>9. StoredMap' = [StoredMap EXCEPT ![k] = Multi!More(@, v)]
  <2>1. StoredMap[k] = Counts(k) BY DEF StoredMap
  <2> QED BY <1>7, <1>8, <2>1
<1>10. Holding(k)' = Holding(k) \cup {i} BY <1>5, <1>6, Elsewhere
<1>11. Holding(k)' \in SUBSET Nat /\ Holding(k) \in SUBSET Nat BY <1>1 DEF Holding
<1>12. First(Holding(k)') \in Holding(k)' BY <1>6, <1>11, FirstIn
<1>13. Get(k)' = cells'[First(Holding(k)')].value BY <1>6 DEF Get
<1>14. CASE First(Holding(k)') = i BY <1>6, <1>9, <1>1, <1>7, <1>13, <1>14
<1>15. CASE First(Holding(k)') # i
  <2> DEFINE f == First(Holding(k)')
  <2>1. f \in Holding(k) BY <1>10, <1>12, <1>15
  <2>2. \A j \in Holding(k) : f <= j BY <1>10, <1>11, FirstLeast
  <2>3. First(Holding(k)) = f
    <3> HIDE DEF f
    <3> QED BY <1>11, <2>1, <2>2, FirstIs
  <2>4. cells'[f] = cells[f] BY <1>5, <1>15, <2>1 DEF Only, Holding
  <2>5. Get(k)' = Get(k) BY <1>13, <2>1, <2>3, <2>4 DEF Get
  <2>6. Get(k) # None BY <2>1, GetFirst
  <2> QED BY <1>1, <1>7, <1>9, <2>1, <2>5, <2>6
<1> QED BY <1>14, <1>15

(* The first cell of k is overwritten with a value of k, or freed.         *)
LEMMA ReplaceOnly ==
  ASSUME cells \in Seq(Cell), NEW k \in Keys, Holding(k) # {},
         NEW c \in Cell, c.key \in {k, 0}, cells' = [cells EXCEPT ![First(Holding(k))] = c]
  PROVE /\ cells' \in Seq(Cell) /\ Len(cells') = Len(cells)
        /\ First(Holding(k)) \in DOMAIN cells' /\ cells'[First(Holding(k))] = c
        /\ First(Holding(k)) \in Stored(k, Get(k))
        /\ Get(k) \in Values /\ Get(k) # None
        /\ Only(First(Holding(k)), k)
        /\ StoredMap' = [StoredMap EXCEPT ![k] = Counts(k)']
        /\ FoundMap' = [FoundMap EXCEPT ![k] = Get(k)']
<1> DEFINE i == First(Holding(k))
<1>1. /\ i \in 1 .. Len(cells) /\ i \in Holding(k) /\ i \in Stored(k, Get(k))
      /\ Get(k) \in Values /\ Get(k) # None
  BY GetFirst
<1> HIDE DEF i
<1>2. /\ cells' \in Seq(Cell) /\ Len(cells') = Len(cells) /\ DOMAIN cells' = DOMAIN cells
      /\ cells'[i] = c /\ \A j \in DOMAIN cells : j # i => cells'[j] = cells[j]
  BY <1>1 DEF i
<1>3. Only(i, k) BY <1>1, <1>2 DEF Only, Holding
<1>4. /\ StoredMap' = [StoredMap EXCEPT ![k] = Counts(k)']
      /\ FoundMap' = [FoundMap EXCEPT ![k] = Get(k)']
  BY <1>3, Elsewhere, NamesOne
<1> QED BY <1>1, <1>2, <1>3, <1>4 DEF i

(* mg_map_set of a key that is there.                                      *)
LEMMA ChangeStep ==
  ASSUME cells \in Seq(Cell), NEW k \in Keys, NEW v \in Values, Holding(k) # {},
         cells' = [cells EXCEPT ![First(Holding(k))] = [key |-> k, value |-> v]]
  PROVE /\ cells' \in Seq(Cell) /\ Len(cells') = Len(cells)
        /\ FoundMap[k] # None
        /\ StoredMap' = [StoredMap EXCEPT ![k] = Multi!More(Multi!Less(@, FoundMap[k]), v)]
        /\ FoundMap' = [FoundMap EXCEPT ![k] = v]
<1> DEFINE i == First(Holding(k))
           c == [key |-> k, value |-> v]
<1>1. c \in Cell /\ c.key = k BY DEF Cell
<1> HIDE DEF i, c
<1>2. /\ cells' \in Seq(Cell) /\ Len(cells') = Len(cells)
      /\ i \in DOMAIN cells' /\ cells'[i] = c
      /\ i \in Stored(k, Get(k)) /\ Get(k) \in Values /\ Get(k) # None
      /\ Only(i, k)
      /\ StoredMap' = [StoredMap EXCEPT ![k] = Counts(k)']
      /\ FoundMap' = [FoundMap EXCEPT ![k] = Get(k)']
  <2>1. cells' = [cells EXCEPT ![First(Holding(k))] = c] BY DEF c
  <2> QED BY <1>1, <2>1, ReplaceOnly DEF i
<1>3. Counts(k)' = Multi!More(Multi!Less(Counts(k), Get(k)), v)
  BY <1>2, CountOther DEF c
<1>4. StoredMap[k] = Counts(k) /\ FoundMap[k] = Get(k) BY DEF StoredMap, FoundMap
<1>5. Get(k)' = v
  <2>1. i \in Holding(k) /\ i \in Holding(k)'
    BY <1>1, <1>2 DEF Stored, Holding
  <2>2. Holding(k)' \ {i} = Holding(k) \ {i} BY <1>2, Elsewhere
  <2>3. Holding(k)' = Holding(k)
    <3>1. i \in Holding(k)' <=> i \in Holding(k) BY <2>1
    <3> QED BY <2>2, <3>1, SameBut
  <2>4. Get(k)' = cells'[i].value BY <2>1, <2>3 DEF Get, i
  <2> QED BY <1>2, <2>4 DEF c
<1> QED BY <1>2, <1>3, <1>4, <1>5

(* mg_map_del of a key that is there.                                      *)
LEMMA RemoveStep ==
  ASSUME cells \in Seq(Cell), NEW k \in Keys, Holding(k) # {},
         cells' = [cells EXCEPT ![First(Holding(k))] = Free]
  PROVE /\ cells' \in Seq(Cell) /\ Len(cells') = Len(cells)
        /\ FoundMap[k] # None
        /\ StoredMap' = [StoredMap EXCEPT ![k] = Multi!Less(StoredMap[k], FoundMap[k])]
        /\ FoundMap' = [FoundMap EXCEPT ![k] = Get(k)']
        /\ Get(k)' \in Values \cup {None}
        /\ IF Get(k)' = None
           THEN \A w \in Values : Multi!Less(StoredMap[k], FoundMap[k])[w] = 0
           ELSE Multi!Less(StoredMap[k], FoundMap[k])[Get(k)'] > 0
<1> DEFINE i == First(Holding(k))
<1>1. Free \in Cell /\ Free.key = 0 /\ 0 \notin Keys BY MapAssumption DEF Cell, Free
<1> HIDE DEF i
<1>2. /\ cells' \in Seq(Cell) /\ Len(cells') = Len(cells)
      /\ i \in DOMAIN cells' /\ cells'[i] = Free
      /\ i \in Stored(k, Get(k)) /\ Get(k) \in Values /\ Get(k) # None
      /\ Only(i, k)
      /\ StoredMap' = [StoredMap EXCEPT ![k] = Counts(k)']
      /\ FoundMap' = [FoundMap EXCEPT ![k] = Get(k)']
  BY <1>1, ReplaceOnly DEF i
<1>3. i \notin Holding(k)' BY <1>1, <1>2 DEF Holding
<1>4. Counts(k)' = Multi!Less(Counts(k), Get(k)) BY <1>2, <1>3, CountLess
<1>5. StoredMap[k] = Counts(k) /\ FoundMap[k] = Get(k) BY DEF StoredMap, FoundMap
<1>6. \A w \in Values : Counts(k)'[w] = Cardinality(Stored(k, w)') BY DEF Counts
<1>7. CASE Holding(k)' = {}
  <2>1. Get(k)' = None BY <1>7 DEF Get
  <2>2. ASSUME NEW w \in Values PROVE Counts(k)'[w] = 0
    <3>1. Stored(k, w)' = {} BY <1>7 DEF Stored
    <3> QED BY <1>6, <3>1, FS_EmptySet
  <2> QED BY <1>2, <1>4, <1>5, <2>1, <2>2
<1>8. CASE Holding(k)' # {}
  <2>1. FindsStored' BY LookUpFindsStored, PTL
  <2>2. Get(k)' \in Values /\ Get(k)' # None /\ Cardinality(Stored(k, Get(k)))' > 0
    BY <1>2, <1>8, <2>1 DEF FindsStored
  <2>3. Counts(k)'[Get(k)'] > 0 BY <2>2 DEF Counts
  <2> QED BY <1>2, <1>4, <1>5, <2>2, <2>3
<1> QED BY <1>7, <1>8

(* A table without used cells holds and finds nothing.                     *)
NoneStored ==
  cells \in Seq(Cell) /\ (\A i \in DOMAIN cells : cells[i] = Free) =>
    StoredMap = Multi!Empty /\ FoundMap = Multi!Nothing

(* It holds of any cells.                                                  *)
LEMMA NothingStored == NoneStored
<1> SUFFICES ASSUME cells \in Seq(Cell), \A i \in DOMAIN cells : cells[i] = Free
             PROVE StoredMap = Multi!Empty /\ FoundMap = Multi!Nothing
  BY DEF NoneStored
<1>1. \A k \in Keys : Holding(k) = {} BY MapAssumption DEF Holding, Free
<1>2. \A k \in Keys, v \in Values : Cardinality(Stored(k, v)) = 0
  <2>1. \A k \in Keys, v \in Values : Stored(k, v) = {} BY <1>1 DEF Stored
  <2> QED BY <2>1, FS_EmptySet
<1>3. StoredMap = Multi!Empty BY <1>2 DEF StoredMap, Counts, Multi!Empty
<1>4. FoundMap = Multi!Nothing BY <1>1 DEF FoundMap, Get, Multi!Nothing
<1> QED BY <1>3, <1>4
-----------------------------------------------------------------------------
(* What holds of the table throughout.                                     *)
MapInv == MapTypeOK /\ (data # "live" => cells = <<>>)

(* The invariant before mg_map_init.                                       *)
LEMMA MapInitial == MapInit => MapInv
<1> SUFFICES ASSUME MapInit PROVE MapInv OBVIOUS
<1>1. data = "null" /\ cells = <<>> /\ Len(cells) = 0 /\ cells \in Seq(Cell) BY DEF MapInit
<1> QED BY <1>1, MapAssumption DEF MapInv, MapTypeOK, Cell

(* What every action below starts from.                                    *)
LEMMA MapFacts ==
  ASSUME MapInv
  PROVE /\ cells \in Seq(Cell)
        /\ Initial \in Nat /\ Initial >= 1
        /\ data = "live" => Len(cells) >= Initial /\ Len(cells) >= 1
<1>1. cells \in Seq(Cell) BY DEF MapInv, MapTypeOK, Cell
<1>2. Initial \in Nat /\ Initial >= 1 BY MapAssumption
<1>3. data = "live" => Len(cells) >= Initial /\ Len(cells) >= 1
  BY <1>1, <1>2 DEF MapInv, MapTypeOK
<1> QED BY <1>1, <1>2, <1>3

(* mg_map_init.                                                            *)
LEMMA CreateStep ==
  ASSUME MapInv, Create
  PROVE MapInv' /\ cells' = Cells(Initial) /\ StoredMap' = StoredMap /\ FoundMap' = FoundMap
<1>1. data = "null" /\ data' = "live" /\ cells' = Cells(Initial) /\ cells = <<>>
  BY DEF Create, MapInv
<1>2. Initial \in Nat /\ Free \in Cell BY MapAssumption DEF Cell
<1>3. /\ cells' \in Seq(Cell) /\ Len(cells') = Initial
      /\ \A j \in DOMAIN cells' : cells'[j] = Free
  BY <1>1, <1>2 DEF Cells
<1>4. StoredMap' = Multi!Empty /\ FoundMap' = Multi!Nothing
  <2>1. NoneStored' BY NothingStored, PTL
  <2> QED BY <1>3, <2>1 DEF NoneStored, Multi!Empty, Multi!Nothing
<1>5. StoredMap = Multi!Empty /\ FoundMap = Multi!Nothing
  <2>1. cells \in Seq(Cell) /\ DOMAIN cells = {} BY <1>1
  <2> QED BY <2>1, NothingStored DEF NoneStored
<1>6. MapInv' BY <1>1, <1>2, <1>3 DEF MapInv, MapTypeOK, Cell
<1> QED BY <1>1, <1>4, <1>5, <1>6, Zenon

(* mg_map_cleanup.                                                         *)
LEMMA CleanupStep ==
  ASSUME MapInv, Cleanup
  PROVE MapInv' /\ StoredMap' = Multi!Empty /\ FoundMap' = Multi!Nothing
<1>1. data' = "freed" /\ cells' = <<>> BY DEF Cleanup
<1>2. cells' \in Seq(Cell) /\ Len(cells') = 0 /\ DOMAIN cells' = {} BY <1>1
<1>3. StoredMap' = Multi!Empty /\ FoundMap' = Multi!Nothing
  <2>1. NoneStored' BY NothingStored, PTL
  <2> QED BY <1>2, <2>1 DEF NoneStored, Multi!Empty, Multi!Nothing
<1>4. MapInv' BY <1>1, <1>2, MapFacts DEF MapInv, MapTypeOK, Cell
<1> QED BY <1>3, <1>4

(* A step within a table in use that drops no cell keeps the invariant.    *)
LEMMA KeepsLive ==
  ASSUME MapInv, data = "live", data' = "live",
         cells' \in Seq(Cell), Len(cells') >= Len(cells)
  PROVE MapInv'
<1>1. Len(cells') >= Initial BY MapFacts
<1> QED BY <1>1 DEF MapInv, MapTypeOK, Cell

(* mg_map_add.                                                             *)
LEMMA AddStep ==
  ASSUME MapInv, NEW k \in Keys, NEW v \in Values, Add(k, v)
  PROVE MapInv' /\ Multi!Add(k, v)
<1>1. data = "live" /\ data' = "live" /\ Store(k, v) BY DEF Add
<1>2. /\ cells' \in Seq(Cell) /\ Len(cells') >= Len(cells)
      /\ StoredMap' = [StoredMap EXCEPT ![k] = Multi!More(@, v)]
      /\ FoundMap' = [FoundMap EXCEPT ![k] = Get(k)']
      /\ (Get(k)' = v \/ (Get(k) # None /\ Get(k)' = Get(k)))
  BY <1>1, MapFacts, StoreStep
<1>3. MapInv' BY <1>1, <1>2, KeepsLive
<1>4. \/ FoundMap' = [FoundMap EXCEPT ![k] = v]
      \/ FoundMap[k] # None /\ UNCHANGED FoundMap
  BY <1>2 DEF FoundMap
<1> QED BY <1>1, <1>2, <1>3, <1>4 DEF Multi!Add, StoredMap, Counts, FoundMap

(* mg_map_set.                                                             *)
LEMMA SetStep ==
  ASSUME MapInv, NEW k \in Keys, NEW v \in Values, Set(k, v)
  PROVE MapInv' /\ (Multi!Add(k, v) \/ Multi!Change(k, v))
<1>1. data = "live" /\ data' = "live" BY DEF Set
<1>2. CASE Holding(k) = {}
  <2>1. Add(k, v) BY <1>1, <1>2 DEF Set, Add
  <2> QED BY <2>1, AddStep
<1>3. CASE Holding(k) # {}
  <2>1. cells' = [cells EXCEPT ![First(Holding(k))] = [key |-> k, value |-> v]]
    BY <1>3 DEF Set
  <2>2. /\ cells' \in Seq(Cell) /\ Len(cells') = Len(cells)
        /\ FoundMap[k] # None
        /\ StoredMap' = [StoredMap EXCEPT ![k] = Multi!More(Multi!Less(@, FoundMap[k]), v)]
        /\ FoundMap' = [FoundMap EXCEPT ![k] = v]
    BY <1>3, <2>1, MapFacts, ChangeStep
  <2>3. MapInv' BY <1>1, <2>2, KeepsLive, MapFacts
  <2>4. Multi!Change(k, v) BY <1>1, <2>2 DEF Multi!Change, StoredMap, Counts, FoundMap
  <2> QED BY <2>3, <2>4
<1> QED BY <1>2, <1>3

(* mg_map_del.                                                             *)
LEMMA DelStep ==
  ASSUME MapInv, NEW k \in Keys, Del(k)
  PROVE MapInv' /\ Multi!Remove(k)
<1>1. /\ data = "live" /\ data' = "live" /\ Holding(k) # {}
      /\ cells' = [cells EXCEPT ![First(Holding(k))] = Free]
  BY DEF Del
<1> DEFINE left == Multi!Less(StoredMap[k], FoundMap[k])
<1>2. /\ cells' \in Seq(Cell) /\ Len(cells') = Len(cells)
      /\ FoundMap[k] # None
      /\ StoredMap' = [StoredMap EXCEPT ![k] = left]
      /\ FoundMap' = [FoundMap EXCEPT ![k] = Get(k)']
      /\ Get(k)' \in Values \cup {None}
      /\ IF Get(k)' = None THEN \A w \in Values : left[w] = 0 ELSE left[Get(k)'] > 0
  BY <1>1, MapFacts, RemoveStep
<1>3. MapInv' BY <1>1, <1>2, KeepsLive, MapFacts
<1>4. \E v \in Values \cup {None} :
         /\ FoundMap' = [FoundMap EXCEPT ![k] = v]
         /\ IF v = None THEN \A w \in Values : left[w] = 0 ELSE left[v] > 0
  <2> HIDE DEF left
  <2> QED BY <1>2
<1>5. Multi!Remove(k)
  BY <1>1, <1>2, <1>4 DEF Multi!Remove, StoredMap, Counts, FoundMap
<1> QED BY <1>3, <1>5

(* Every step is a step of the abstract table.                             *)
LEMMA MapStep ==
  ASSUME MapInv, MapNext
  PROVE MapInv' /\ Multi!Next
<1>1. CASE Create
  <2>1. MapInv' /\ StoredMap' = StoredMap /\ FoundMap' = FoundMap BY <1>1, CreateStep
  <2>2. data = "null" /\ data' = "live" BY <1>1 DEF Create
  <2>3. Multi!Open BY <2>1, <2>2 DEF Multi!Open, StoredMap, Counts, FoundMap
  <2> QED BY <2>1, <2>3 DEF Multi!Next
<1>2. CASE Cleanup
  <2>1. MapInv' /\ StoredMap' = Multi!Empty /\ FoundMap' = Multi!Nothing
    BY <1>2, CleanupStep
  <2>2. data = "live" /\ data' = "freed" BY <1>2 DEF Cleanup
  <2>3. Multi!Close BY <2>1, <2>2 DEF Multi!Close, StoredMap, Counts, FoundMap
  <2> QED BY <2>1, <2>3 DEF Multi!Next
<1>3. ASSUME NEW k \in Keys, NEW v \in Values, Add(k, v) PROVE MapInv' /\ Multi!Next
  BY <1>3, AddStep DEF Multi!Next
<1>4. ASSUME NEW k \in Keys, NEW v \in Values, Set(k, v) PROVE MapInv' /\ Multi!Next
  BY <1>4, SetStep DEF Multi!Next
<1>5. ASSUME NEW k \in Keys, Del(k) PROVE MapInv' /\ Multi!Next
  BY <1>5, DelStep DEF Multi!Next
<1> QED BY <1>1, <1>2, <1>3, <1>4, <1>5 DEF MapNext

(* The invariant holds in every state.                                     *)
LEMMA MapInvariant == MapSpec => []MapInv
<1>1. MapInit => MapInv BY MapInitial
<1>2. MapInv /\ [MapNext]_mapVars => MapInv'
  <2>1. MapInv /\ MapNext => MapInv' BY MapStep
  <2>2. MapInv /\ UNCHANGED mapVars => MapInv'
    BY DEF MapInv, MapTypeOK, mapVars
  <2> QED BY <2>1, <2>2
<1> QED BY <1>1, <1>2, PTL DEF MapSpec

(***************************************************************************)
(* The cells are always cells, at least initial_count of them while the    *)
(* table is in use and none after mg_map_cleanup.                          *)
(***************************************************************************)
THEOREM MapTyped == MapSpec => []MapTypeOK
<1>1. MapInv => MapTypeOK BY DEF MapInv
<1> QED BY <1>1, MapInvariant, PTL

(***************************************************************************)
(* mg_map implements a table that may hold several values of a key: a      *)
(* look-up finds one of them as long as there is one, and another one only *)
(* after a call that names the key.  The cells, the holes between them and *)
(* the doubling show only in which of two values that is.                  *)
(***************************************************************************)
THEOREM MapIsMultimap == MapSpec => IsMultimap
<1>1. MapInit => Multi!Init
  <2> SUFFICES ASSUME MapInit PROVE Multi!Init OBVIOUS
  <2>1. data = "null" /\ cells = <<>> BY DEF MapInit
  <2>2. cells \in Seq(Cell) /\ DOMAIN cells = {} BY <2>1
  <2>3. StoredMap = Multi!Empty /\ FoundMap = Multi!Nothing BY <2>2, NothingStored DEF NoneStored
  <2> QED BY <2>1, <2>3 DEF Multi!Init, StoredMap, Counts, FoundMap
<1>2. MapInv /\ [MapNext]_mapVars => [Multi!Next]_(Multi!vars)
  <2> SUFFICES ASSUME MapInv, [MapNext]_mapVars PROVE [Multi!Next]_(Multi!vars)
    OBVIOUS
  <2>1. CASE UNCHANGED mapVars
    BY <2>1 DEF Multi!vars, mapVars, Get, Holding, Stored
  <2>2. CASE MapNext BY <2>2, MapStep
  <2> QED BY <2>1, <2>2
<1> QED BY <1>1, <1>2, MapInvariant, PTL DEF MapSpec, IsMultimap, Multi!Spec
=============================================================================
