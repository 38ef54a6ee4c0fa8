-------------------------- MODULE BufferPoolProofs ---------------------------
(***************************************************************************)
(* Proofs about BufferPool, in three invariants on top of the state's      *)
(* shape: how many buffers each part of the system holds (CountInv), that  *)
(* no slab has two uses, so that a trade takes an empty one (SlabInv), and *)
(* where each buffer is, so that none is lost or doubled (PlaceInv).       *)
(***************************************************************************)
EXTENDS BufferPool, Integers, FiniteSetTheorems, SequenceTheorems, TLAPS

(* A nonempty set of numbers has a least one. *)
LEMMA LeastElement ==
  ASSUME NEW T \in SUBSET Nat, T # {}
  PROVE  \E m \in T : \A n \in T : m <= n
<1> DEFINE Up == {0 .. n : n \in T}
           R == StrictSubsetOrdering(Nat)
<1>1. Up \subseteq FiniteSubsetsOf(Nat)
  <2> SUFFICES ASSUME NEW n \in T PROVE 0 .. n \in FiniteSubsetsOf(Nat)
    OBVIOUS
  <2>1. n \in Int /\ 0 \in Int OBVIOUS
  <2>2. IsFiniteSet(0 .. n) BY <2>1, FS_Interval
  <2>3. 0 .. n \in SUBSET Nat OBVIOUS
  <2> QED BY <2>2, <2>3 DEF FiniteSubsetsOf
<1>2. Up # {} OBVIOUS
<1>3. IsWellFoundedOn(R, FiniteSubsetsOf(Nat)) BY FS_StrictSubsetOrderingWellFounded
<1>4. \E U \in Up : \A V \in Up : <<V, U>> \notin R
  <2> HIDE DEF Up, R
  <2> QED BY <1>1, <1>2, <1>3, WFMin
<1>5. PICK m \in T : \A V \in Up : <<V, 0 .. m>> \notin R BY <1>4
<1>6. ASSUME NEW n \in T PROVE m <= n
  <2>1. SUFFICES ASSUME n < m PROVE FALSE OBVIOUS
  <2>2. 0 .. n \in Up OBVIOUS
  <2>3. 0 .. n \subseteq 0 .. m /\ m \in 0 .. m /\ m \notin 0 .. n BY <2>1
  <2>4. 0 .. n \in SUBSET Nat /\ 0 .. m \in SUBSET Nat OBVIOUS
  <2>5. <<0 .. n, 0 .. m>> \in R BY <2>3, <2>4 DEF StrictSubsetOrdering
  <2> QED BY <1>5, <2>2, <2>5
<1> QED BY <1>6

(* Induction over the numbers, for a set of numbers. *)
LEMMA AllNumbers ==
  ASSUME NEW S \in SUBSET Nat, 0 \in S, \A n \in S : n + 1 \in S
  PROVE  \A n \in Nat : n \in S
<1> SUFFICES ASSUME Nat \ S # {} PROVE FALSE OBVIOUS
<1>1. PICK m \in Nat \ S : \A n \in Nat \ S : m <= n BY LeastElement
<1>2. m - 1 \in Nat /\ m - 1 \notin Nat \ S BY <1>1
<1>3. (m - 1) + 1 = m BY <1>1
<1> QED BY <1>1, <1>2, <1>3

(* How often b is in the bag f. *)
Of(b, f) == IF b \in DOMAIN f THEN f[b] ELSE 0
-----------------------------------------------------------------------------
(***************************************************************************)
(* Sums over the ports.                                                    *)
(***************************************************************************)

(* s[i] is the sum of f[0], ..., f[i - 1], up to i = n. *)
SumsOf(f, n, s) == /\ s \in [0 .. n -> Nat] /\ s[0] = 0
                   /\ \A i \in 0 .. n - 1 : s[i + 1] = s[i] + f[i]

(* There is a sum. *)
LEMMA SumExists ==
  ASSUME NEW f \in [Ports -> Nat]
  PROVE  \E s : SumsOf(f, NPorts, s)
<1> DEFINE S == {n \in Nat : n <= NPorts => \E s : SumsOf(f, n, s)}
<1> USE PoolAssumption
<1>1. 0 \in S
  <2>1. SumsOf(f, 0, [i \in 0 .. 0 |-> 0]) BY DEF SumsOf
  <2> QED BY <2>1
<1>2. ASSUME NEW n \in S PROVE n + 1 \in S
  <2> SUFFICES ASSUME n + 1 <= NPorts PROVE \E t : SumsOf(f, n + 1, t)
    OBVIOUS
  <2>1. n \in Nat /\ n <= NPorts /\ n \in Ports BY DEF Ports
  <2>2. PICK s : SumsOf(f, n, s) BY <2>1
  <2>3. PICK t : t = [i \in 0 .. n + 1 |-> IF i = n + 1 THEN s[n] + f[n] ELSE s[i]] OBVIOUS
  <2>4. f[n] \in Nat /\ s[n] \in Nat BY <2>1, <2>2 DEF SumsOf
  <2>5. t \in [0 .. n + 1 -> Nat] /\ t[0] = 0 BY <2>1, <2>2, <2>3, <2>4 DEF SumsOf
  <2>6. ASSUME NEW i \in 0 .. n PROVE t[i + 1] = t[i] + f[i]
    BY <2>1, <2>2, <2>3, <2>4 DEF SumsOf
  <2>7. (n + 1) - 1 = n BY <2>1
  <2>8. SumsOf(f, n + 1, t) BY <2>5, <2>6, <2>7 DEF SumsOf
  <2> QED BY <2>8
<1>3. \A n \in Nat : n \in S
  <2> HIDE DEF S
  <2>1. S \in SUBSET Nat BY DEF S
  <2> QED BY <1>1, <1>2, <2>1, AllNumbers
<1> QED BY <1>3

(* What one more port adds. *)
LEMMA SumStep ==
  ASSUME NEW f \in [Ports -> Nat], NEW s, SumsOf(f, NPorts, s), NEW n \in Ports
  PROVE  s[n] \in Nat /\ f[n] \in Nat /\ s[n + 1] = s[n] + f[n]
BY PoolAssumption DEF SumsOf, Ports

(* When one term changes, the sum changes by as much. *)
LEMMA SumChanges ==
  ASSUME NEW f \in [Ports -> Nat], NEW g \in [Ports -> Nat], NEW s, NEW t,
         SumsOf(f, NPorts, s), SumsOf(g, NPorts, t), NEW p \in Ports,
         \A q \in Ports : q # p => g[q] = f[q]
  PROVE  t[NPorts] + f[p] = s[NPorts] + g[p]
<1> DEFINE S == {n \in Nat : n <= NPorts =>
                   IF n > p THEN t[n] + f[p] = s[n] + g[p] ELSE t[n] = s[n]}
<1> USE PoolAssumption
<1>1. p \in Nat /\ NPorts \in Nat /\ NPorts > p /\ f[p] \in Nat /\ g[p] \in Nat BY DEF Ports
<1>2. 0 \in S BY <1>1 DEF SumsOf
<1>3. ASSUME NEW n \in S PROVE n + 1 \in S
  <2> SUFFICES ASSUME n + 1 <= NPorts
               PROVE  IF n + 1 > p THEN t[n + 1] + f[p] = s[n + 1] + g[p]
                                   ELSE t[n + 1] = s[n + 1]
    OBVIOUS
  <2>1. n \in Nat /\ n \in Ports /\ n <= NPorts BY <1>1 DEF Ports
  <2>2. /\ s[n] \in Nat /\ t[n] \in Nat /\ f[n] \in Nat /\ g[n] \in Nat
        /\ s[n + 1] = s[n] + f[n] /\ t[n + 1] = t[n] + g[n]
    BY <2>1, SumStep
  <2>3. IF n > p THEN t[n] + f[p] = s[n] + g[p] ELSE t[n] = s[n] BY <2>1
  <2>4. n # p => g[n] = f[n] BY <2>1
  <2> HIDE DEF S
  <2>5. CASE n = p BY <1>1, <2>1, <2>2, <2>3, <2>5
  <2>6. CASE n < p BY <1>1, <2>1, <2>2, <2>3, <2>4, <2>6
  <2>7. CASE n > p BY <1>1, <2>1, <2>2, <2>3, <2>4, <2>7
  <2> QED BY <1>1, <2>1, <2>5, <2>6, <2>7
<1>4. \A n \in Nat : n \in S
  <2> HIDE DEF S
  <2>1. S \in SUBSET Nat BY DEF S
  <2> QED BY <1>2, <1>3, <2>1, AllNumbers
<1> QED BY <1>1, <1>4

(* One more time b. *)
LEMMA OneMore == \A n, b \in Nat : (n + 1) * b = n * b + b
OBVIOUS

(* A sum of terms that are all at most b, and of terms that are all at least b. *)
LEMMA SumBounds ==
  ASSUME NEW f \in [Ports -> Nat], NEW s, SumsOf(f, NPorts, s), NEW b \in Nat
  PROVE  /\ (\A p \in Ports : f[p] <= b) => s[NPorts] <= NPorts * b
         /\ (\A p \in Ports : f[p] >= b) => s[NPorts] >= NPorts * b
<1> DEFINE S == {n \in Nat : n <= NPorts =>
                   /\ (\A p \in Ports : f[p] <= b) => s[n] <= n * b
                   /\ (\A p \in Ports : f[p] >= b) => s[n] >= n * b}
<1> USE PoolAssumption
<1>1. 0 \in S BY DEF SumsOf
<1>2. ASSUME NEW n \in S PROVE n + 1 \in S
  <2> SUFFICES ASSUME n + 1 <= NPorts
               PROVE  /\ (\A p \in Ports : f[p] <= b) => s[n + 1] <= (n + 1) * b
                      /\ (\A p \in Ports : f[p] >= b) => s[n + 1] >= (n + 1) * b
    OBVIOUS
  <2>1. n \in Nat /\ n \in Ports /\ n <= NPorts BY DEF Ports
  <2>2. s[n] \in Nat /\ f[n] \in Nat /\ s[n + 1] = s[n] + f[n] BY <2>1, SumStep
  <2>3. /\ (\A p \in Ports : f[p] <= b) => s[n] <= n * b
        /\ (\A p \in Ports : f[p] >= b) => s[n] >= n * b
    BY <2>1
  <2>4. PICK m : m = n * b OBVIOUS
  <2>5. (n + 1) * b = m + b /\ m \in Nat BY <2>1, <2>4, OneMore
  <2> HIDE DEF S
  <2>6. ASSUME \A p \in Ports : f[p] <= b PROVE s[n + 1] <= (n + 1) * b
    <3>1. s[n] <= m /\ f[n] <= b BY <2>1, <2>3, <2>4, <2>6
    <3>2. s[n] + f[n] <= m + b BY <2>2, <2>5, <3>1
    <3> QED BY <2>2, <2>5, <3>2
  <2>7. ASSUME \A p \in Ports : f[p] >= b PROVE s[n + 1] >= (n + 1) * b
    <3>1. s[n] >= m /\ f[n] >= b BY <2>1, <2>3, <2>4, <2>7
    <3>2. s[n] + f[n] >= m + b BY <2>2, <2>5, <3>1
    <3> QED BY <2>2, <2>5, <3>2
  <2> QED BY <2>6, <2>7
<1>3. \A n \in Nat : n \in S
  <2> HIDE DEF S
  <2>1. S \in SUBSET Nat BY DEF S
  <2> QED BY <1>1, <1>2, <2>1, AllNumbers
<1>4. NPorts \in S /\ NPorts <= NPorts BY <1>3
<1> QED BY <1>4

(* The same bounds when the term of p is d above, or d below. *)
LEMMA SumBoundsBut ==
  ASSUME NEW f \in [Ports -> Nat], NEW s, SumsOf(f, NPorts, s), NEW b \in Nat,
         NEW p \in Ports, NEW d \in Nat
  PROVE  /\ (\A q \in Ports : f[q] <= b) /\ f[p] + d <= b => s[NPorts] + d <= NPorts * b
         /\ (\A q \in Ports : f[q] >= b) /\ f[p] >= b + d => s[NPorts] >= NPorts * b + d
<1>1. s[NPorts] \in Nat /\ f[p] \in Nat BY PoolAssumption DEF SumsOf
<1>2. ASSUME \A q \in Ports : f[q] <= b, f[p] + d <= b PROVE s[NPorts] + d <= NPorts * b
  <2>1. PICK e \in Nat : e = f[p] + d BY <1>1
  <2>2. PICK g \in [Ports -> Nat] : g = [f EXCEPT ![p] = e] BY <2>1
  <2>3. g[p] = e /\ \A q \in Ports : q # p => g[q] = f[q] BY <2>2
  <2>4. PICK t : SumsOf(g, NPorts, t) BY SumExists
  <2>5. t[NPorts] + f[p] = s[NPorts] + g[p] BY <2>3, <2>4, SumChanges
  <2>6. \A q \in Ports : g[q] <= b BY <1>2, <2>1, <2>3
  <2>7. t[NPorts] <= NPorts * b BY <2>4, <2>6, SumBounds
  <2>8. t[NPorts] \in Nat BY <2>4, PoolAssumption DEF SumsOf
  <2>9. t[NPorts] = s[NPorts] + d BY <1>1, <2>1, <2>3, <2>5, <2>8
  <2> QED BY <2>7, <2>9
<1>3. ASSUME \A q \in Ports : f[q] >= b, f[p] >= b + d PROVE s[NPorts] >= NPorts * b + d
  <2>1. PICK e : e = f[p] - d OBVIOUS
  <2>2. e \in Nat /\ e >= b /\ e + d = f[p] BY <1>1, <1>3, <2>1
  <2>3. PICK g \in [Ports -> Nat] : g = [f EXCEPT ![p] = e] BY <2>2
  <2>4. g[p] = e /\ \A q \in Ports : q # p => g[q] = f[q] BY <2>3
  <2>5. PICK t : SumsOf(g, NPorts, t) BY SumExists
  <2>6. t[NPorts] + f[p] = s[NPorts] + g[p] BY <2>4, <2>5, SumChanges
  <2>7. \A q \in Ports : g[q] >= b BY <1>3, <2>2, <2>4
  <2>8. t[NPorts] >= NPorts * b BY <2>5, <2>7, SumBounds
  <2>9. t[NPorts] \in Nat BY <2>5, PoolAssumption DEF SumsOf
  <2>10. t[NPorts] + d = s[NPorts] BY <1>1, <2>2, <2>4, <2>6, <2>9
  <2>11. PICK m \in Nat : m = NPorts * b BY PoolAssumption
  <2> QED BY <1>1, <2>8, <2>9, <2>10, <2>11
<1> QED BY <1>2, <1>3
-----------------------------------------------------------------------------
(***************************************************************************)
(* The state, whatever the slots hold.                                     *)
(***************************************************************************)
Entry == Address \cup {Stale}

(* The counts of one port's addresses on their way out: c completed, h with *)
(* the device, k in the collector, r to be reaped, x to be released, of l.  *)
Counts(c, h, k, r, x, l) == /\ c + h + x <= CompSize /\ h <= HwLimit
                            /\ k <= BurstTx /\ r <= c
                            /\ c + h + k <= l /\ l <= c + h + k + TxSize

(* What a sending thread and the kernel count of a port's addresses in out. *)
Sends ==
  /\ nComp \in [Ports -> Nat] /\ nHw \in [Ports -> Nat] /\ nColl \in [Ports -> Nat]
  /\ nReap \in [Ports -> Nat] /\ nSpent \in [Ports -> Nat]
  /\ sending \in [Ports -> {"collect", "reap", "submit"}]
  /\ \A p \in Ports :
       Counts(nComp[p], nHw[p], nColl[p], nReap[p], nSpent[p], Len(out[p]))

Shape ==
  /\ slabs \in [Slabs -> Slabs] /\ nAvail \in 0..NSlabs
  /\ watched \in Buffers
  /\ content \in [Slabs -> [Slots -> Entry]]
  /\ ready \in 0..NPorts
  /\ slabCons \in [Ports -> Slabs] /\ slabProd \in [Ports -> Slabs]
  /\ nCons \in [Ports -> 0..SlabSize] /\ nProd \in [Ports -> 0..SlabSize]
  /\ posted \in [Ports -> Seq(Entry)] /\ burst \in [Ports -> Seq(Entry)]
  /\ IsABag(flight) /\ DOMAIN flight \subseteq Entry
  /\ out \in [Ports -> Seq(Entry)]
  /\ lost \in Seq(Entry) /\ Len(lost) <= MaxLost
  /\ Sends
  /\ step \in [Threads -> {"idle", "check", "store", "count", "trade",
                           "first", "switch", "reset"}]
  /\ freed \in [Threads -> Entry]
  /\ count \in [Threads -> 0..SlabSize]
  /\ empty \in [Threads -> Slabs]
  /\ \A th \in Threads : step[th] \in {"store", "count"} => count[th] < SlabSize

(* Two threads per port. *)
LEMMA ThreadsAre ==
  /\ \A p \in Ports : <<"rx", p>> \in Threads /\ <<"tx", p>> \in Threads
                      /\ PortOf(<<"rx", p>>) = p /\ PortOf(<<"tx", p>>) = p
  /\ \A th \in Threads : /\ PortOf(th) \in Ports
                         /\ th = <<"rx", PortOf(th)>> \/ th = <<"tx", PortOf(th)>>
  /\ \A p, q : <<"rx", p>> # <<"tx", q>>
BY DEF Threads, PortOf

(* A bag with one more, or one less. *)
LEMMA BagAdd ==
  ASSUME NEW f, IsABag(f), NEW a, NEW g, g = f (+) SetToBag({a})
  PROVE  /\ IsABag(g) /\ DOMAIN g = DOMAIN f \cup {a}
         /\ \A b : Of(b, g) = Of(b, f) + (IF b = a THEN 1 ELSE 0)
BY DEF IsABag, SetToBag, (+), Of

(* Taking one away. *)
LEMMA BagRemove ==
  ASSUME NEW f, IsABag(f), NEW a \in DOMAIN f, NEW g, g = f (-) SetToBag({a})
  PROVE  /\ IsABag(g) /\ DOMAIN g \subseteq DOMAIN f
         /\ Of(a, f) > 0
         /\ \A b : Of(b, g) = Of(b, f) - (IF b = a THEN 1 ELSE 0)
BY DEF IsABag, SetToBag, (-), Of

(* k addresses from slot n - 1 down. *)
LEMMA PoppedTyped ==
  ASSUME content \in [Slabs -> [Slots -> Entry]], NEW s \in Slabs,
         NEW n \in 0..SlabSize, NEW k \in 0..n
  PROVE  /\ Popped(s, n, k) \in Seq(Entry) /\ Len(Popped(s, n, k)) = k
         /\ \A i \in 1..k : Popped(s, n, k)[i] = content[s][n - i]
         /\ After(s, n, k) \in [Slots -> Entry]
<1> USE PoolAssumption DEF Slots
<1>1. \A i \in 1..k : n - i \in Slots OBVIOUS
<1>2. \A i \in 1..k : content[s][n - i] \in Entry BY <1>1
<1>3. Popped(s, n, k) \in [1..k -> Entry] BY <1>2 DEF Popped
<1>4. k \in Nat OBVIOUS
<1>5. Popped(s, n, k) \in Seq(Entry) /\ Len(Popped(s, n, k)) = k BY <1>3, <1>4
<1>6. After(s, n, k) \in [Slots -> Entry] BY DEF After, Entry
<1> QED BY <1>5, <1>6 DEF Popped

(* There are slabs when there are ports. *)
LEMMA FirstSlab == (\E p \in Ports : TRUE) => 0 \in Slabs /\ 0 \in Slots
BY PoolAssumption, SlabsForPorts DEF Ports, Slabs, Slots

(* The invariant Shape, at the start, in the steps of a port, of a thread. *)
LEMMA ShapeInit == Init => Shape
<1> SUFFICES ASSUME Init PROVE Shape OBVIOUS
<1> USE DEF Init
<1>1. 0 \in 0..SlabSize /\ 0 \in 0..NPorts /\ NSlabs \in 0..NSlabs BY PoolAssumption
<1>2. \A p \in Ports : 0 \in Slabs BY FirstSlab
<1>3. \A th \in Threads : 0 \in Slabs BY <1>2, ThreadsAre
<1>4. content \in [Slabs -> [Slots -> Entry]] BY DEF Entry, Address
<1>5. IsABag(flight) /\ DOMAIN flight \subseteq Entry BY DEF EmptyBag, SetToBag, IsABag
<1>6. freed \in [Threads -> Entry] BY DEF Entry
<1>7. posted \in [Ports -> Seq(Entry)] /\ burst \in [Ports -> Seq(Entry)] OBVIOUS
<1>8. out \in [Ports -> Seq(Entry)] /\ lost \in Seq(Entry) /\ Len(lost) <= MaxLost
  BY PoolAssumption
<1>9. Sends
  <2>1. Counts(0, 0, 0, 0, 0, 0) BY PoolAssumption DEF Counts
  <2>2. \A p \in Ports : /\ nComp[p] = 0 /\ nHw[p] = 0 /\ nColl[p] = 0 /\ nReap[p] = 0
                          /\ nSpent[p] = 0 /\ Len(out[p]) = 0
    OBVIOUS
  <2> QED BY <2>1, <2>2 DEF Sends
<1>10. watched \in Buffers BY PoolAssumption
<1> QED BY <1>1, <1>2, <1>3, <1>4, <1>5, <1>6, <1>7, <1>8, <1>9, <1>10 DEF Shape

(* A step that does not touch the counts of a sending thread. *)
LEMMA SendsStay == Sends /\ UNCHANGED <<out, device, sender>> => Sends'
BY DEF Sends, device, sender

(* The steps of port p's sending thread and of the kernel below it.        *)
SendStep(p) == \/ Pull(p) \/ Peek(p) \/ Reap(p) \/ Release(p) \/ Submit(p)
               \/ KernelTake(p) \/ KernelComplete(p)

(* How the steps change the counts. *)
LEMMA CountsKeep ==
  \A c, h, k, r, x, l \in Nat : Counts(c, h, k, r, x, l) =>
    /\ k < BurstTx => Counts(c, h, k + 1, r, x, l + 1)
    /\ Counts(c, h, k, c, x, l)
    /\ r > 0 => c > 0 /\ l > 0 /\ Counts(c - 1, h, k, r - 1, x + 1, l - 1)
    /\ Counts(c, h, k, r, 0, l)
    /\ (l - c - h - k) + k <= TxSize => Counts(c, h, 0, r, x, l)
    /\ l - c - h - k > 0 /\ h < HwLimit /\ h + c + x < CompSize => Counts(c, h + 1, k, r, x, l)
    /\ h > 0 => Counts(c + 1, h - 1, k, r, x, l)
BY PoolAssumption DEF Counts

(* What is to be reaped is there. *)
LEMMA ReapsSome ==
  ASSUME Shape, NEW p \in Ports, nReap[p] > 0
  PROVE  out[p] \in Seq(Entry) /\ out[p] # <<>>
<1>1. /\ out[p] \in Seq(Entry) /\ Len(out[p]) \in Nat
      /\ nReap[p] \in Nat /\ nComp[p] \in Nat /\ nHw[p] \in Nat /\ nColl[p] \in Nat
      /\ nSpent[p] \in Nat
  BY DEF Shape, Sends
<1>2. Counts(nComp[p], nHw[p], nColl[p], nReap[p], nSpent[p], Len(out[p])) BY DEF Shape, Sends
<1>3. Len(out[p]) > 0 BY <1>1, <1>2, CountsKeep
<1> QED BY <1>1, <1>3

(* The addresses sent in these steps, and their counts, one by one. *)
LEMMA SendsStep ==
  ASSUME Shape, NEW p \in Ports, SendStep(p)
  PROVE  out' \in [Ports -> Seq(Entry)] /\ Sends'
<1>0. /\ out \in [Ports -> Seq(Entry)] /\ nComp \in [Ports -> Nat] /\ nHw \in [Ports -> Nat]
      /\ nColl \in [Ports -> Nat] /\ nReap \in [Ports -> Nat] /\ nSpent \in [Ports -> Nat]
  BY DEF Shape, Sends
<1>1. PICK l \in Nat, c \in Nat, h \in Nat, k \in Nat, r \in Nat, x \in Nat :
        /\ l = Len(out[p]) /\ c = nComp[p] /\ h = nHw[p] /\ k = nColl[p]
        /\ r = nReap[p] /\ x = nSpent[p]
  <2>1. out[p] \in Seq(Entry) /\ Len(out[p]) \in Nat BY <1>0
  <2>2. /\ nComp[p] \in Nat /\ nHw[p] \in Nat /\ nColl[p] \in Nat
        /\ nReap[p] \in Nat /\ nSpent[p] \in Nat
    BY <1>0
  <2> QED BY <2>1, <2>2
<1>2. Counts(c, h, k, r, x, l)
  <2>1. Counts(nComp[p], nHw[p], nColl[p], nReap[p], nSpent[p], Len(out[p])) BY DEF Shape, Sends
  <2> QED BY <1>1, <2>1
<1> DEFINE Own == Counts(nComp'[p], nHw'[p], nColl'[p], nReap'[p], nSpent'[p], Len(out'[p]))
           Theirs == \A q \in Ports : q # p =>
                       /\ nComp'[q] = nComp[q] /\ nHw'[q] = nHw[q] /\ nColl'[q] = nColl[q]
                       /\ nReap'[q] = nReap[q] /\ nSpent'[q] = nSpent[q] /\ out'[q] = out[q]
           Typed == /\ nComp' \in [Ports -> Nat] /\ nHw' \in [Ports -> Nat]
                    /\ nColl' \in [Ports -> Nat] /\ nReap' \in [Ports -> Nat]
                    /\ nSpent' \in [Ports -> Nat]
                    /\ sending' \in [Ports -> {"collect", "reap", "submit"}]
                    /\ out' \in [Ports -> Seq(Entry)]
<1>3. sending \in [Ports -> {"collect", "reap", "submit"}] BY DEF Shape, Sends
<1>4. CASE Pull(p)
  <2>1. PICK b \in BagToSet(flight) : out' = [out EXCEPT ![p] = Append(@, b)]
    BY <1>4 DEF Pull
  <2>2. b \in Entry BY DEF BagToSet, Shape
  <2>3. /\ UNCHANGED <<nComp, nHw, sending, nReap, nSpent>> /\ nColl[p] < BurstTx
        /\ nColl' = [nColl EXCEPT ![p] = k + 1]
    BY <1>1, <1>4 DEF Pull, device
  <2>4. Append(out[p], b) \in Seq(Entry) /\ Len(Append(out[p], b)) = l + 1
    BY <1>0, <1>1, <2>2
  <2>5. k + 1 \in Nat /\ k < BurstTx BY <1>1, <2>3
  <2>6. Typed BY <1>0, <1>3, <2>1, <2>3, <2>4, <2>5
  <2>7. /\ nComp'[p] = c /\ nHw'[p] = h /\ nColl'[p] = k + 1 /\ nReap'[p] = r
        /\ nSpent'[p] = x /\ Len(out'[p]) = l + 1
    BY <1>0, <1>1, <2>1, <2>3, <2>4
  <2>8. Own
    <3>1. Counts(c, h, k + 1, r, x, l + 1) BY <1>2, <2>5, CountsKeep
    <3> QED BY <2>7, <3>1
  <2>9. Theirs BY <1>0, <2>1, <2>3
  <2> QED BY <2>6, <2>8, <2>9 DEF Sends, Shape
<1>5. CASE Peek(p)
  <2>1. /\ UNCHANGED <<nComp, nHw, nColl, nSpent, out>>
        /\ nReap' = [nReap EXCEPT ![p] = c]
        /\ sending' = [sending EXCEPT ![p] = "reap"]
    BY <1>1, <1>5 DEF Peek, device
  <2>2. Typed BY <1>0, <1>3, <2>1
  <2>3. /\ nComp'[p] = c /\ nHw'[p] = h /\ nColl'[p] = k /\ nReap'[p] = c
        /\ nSpent'[p] = x /\ Len(out'[p]) = l
    BY <1>0, <1>1, <2>1
  <2>4. Own
    <3>1. Counts(c, h, k, c, x, l) BY <1>2, CountsKeep
    <3> QED BY <2>3, <3>1
  <2>5. Theirs BY <1>0, <2>1
  <2> QED BY <2>2, <2>4, <2>5 DEF Sends, Shape
<1>6. CASE Reap(p)
  <2>1. /\ UNCHANGED <<nHw, nColl, sending>> /\ r > 0
        /\ nReap' = [nReap EXCEPT ![p] = r - 1]
        /\ nComp' = [nComp EXCEPT ![p] = c - 1]
        /\ nSpent' = [nSpent EXCEPT ![p] = x + 1]
        /\ out' = [out EXCEPT ![p] = Tail(@)]
    BY <1>1, <1>6 DEF Reap
  <2>2. /\ r - 1 \in Nat /\ c - 1 \in Nat /\ x + 1 \in Nat /\ l > 0
        /\ Counts(c - 1, h, k, r - 1, x + 1, l - 1)
    <3>1. r > 0 BY <2>1
    <3>2. c > 0 /\ l > 0 /\ Counts(c - 1, h, k, r - 1, x + 1, l - 1) BY <1>2, <3>1, CountsKeep
    <3> QED BY <3>1, <3>2
  <2>3. out[p] # <<>> BY <1>1, <2>2
  <2>4. Tail(out[p]) \in Seq(Entry) /\ Len(Tail(out[p])) = l - 1 BY <1>0, <1>1, <2>3
  <2>5. Typed BY <1>0, <1>3, <2>1, <2>2, <2>4
  <2>6. /\ nComp'[p] = c - 1 /\ nHw'[p] = h /\ nColl'[p] = k /\ nReap'[p] = r - 1
        /\ nSpent'[p] = x + 1 /\ Len(out'[p]) = l - 1
    BY <1>0, <1>1, <2>1, <2>4
  <2>7. Own BY <2>2, <2>6
  <2>8. Theirs BY <1>0, <2>1
  <2> QED BY <2>5, <2>7, <2>8 DEF Sends, Shape
<1>7. CASE Release(p)
  <2>1. /\ UNCHANGED <<nComp, nHw, nColl, nReap, out>>
        /\ nSpent' = [nSpent EXCEPT ![p] = 0]
        /\ sending' = [sending EXCEPT ![p] = "submit"]
    BY <1>7 DEF Release, device
  <2>2. Typed BY <1>0, <1>3, <2>1
  <2>3. /\ nComp'[p] = c /\ nHw'[p] = h /\ nColl'[p] = k /\ nReap'[p] = r
        /\ nSpent'[p] = 0 /\ Len(out'[p]) = l
    BY <1>0, <1>1, <2>1
  <2>4. Own
    <3>1. Counts(c, h, k, r, 0, l) BY <1>2, CountsKeep
    <3> QED BY <2>3, <3>1
  <2>5. Theirs BY <1>0, <2>1
  <2> QED BY <2>2, <2>4, <2>5 DEF Sends, Shape
<1>8. CASE Submit(p)
  <2>1. /\ UNCHANGED <<nComp, nHw, nReap, nSpent, out>>
        /\ (l - c - h - k) + k <= TxSize
        /\ nColl' = [nColl EXCEPT ![p] = 0]
        /\ sending' = [sending EXCEPT ![p] = "collect"]
    BY <1>1, <1>8 DEF Submit, device, InTx
  <2>2. Typed BY <1>0, <1>3, <2>1
  <2>3. /\ nComp'[p] = c /\ nHw'[p] = h /\ nColl'[p] = 0 /\ nReap'[p] = r
        /\ nSpent'[p] = x /\ Len(out'[p]) = l
    BY <1>0, <1>1, <2>1
  <2>4. Own
    <3>1. (l - c - h - k) + k <= TxSize BY <2>1
    <3>2. Counts(c, h, 0, r, x, l) BY <1>2, <3>1, CountsKeep
    <3> QED BY <2>3, <3>2
  <2>5. Theirs BY <1>0, <2>1
  <2> QED BY <2>2, <2>4, <2>5 DEF Sends, Shape
<1>9. CASE KernelTake(p)
  <2>1. /\ UNCHANGED <<nComp, nColl, sending, nReap, nSpent, out>>
        /\ l - c - h - k > 0 /\ h < HwLimit /\ h + c + x < CompSize
        /\ nHw' = [nHw EXCEPT ![p] = h + 1]
    BY <1>1, <1>9 DEF KernelTake, sender, InTx
  <2>2. h + 1 \in Nat BY <1>1
  <2>3. Typed BY <1>0, <1>3, <2>1, <2>2
  <2>4. /\ nComp'[p] = c /\ nHw'[p] = h + 1 /\ nColl'[p] = k /\ nReap'[p] = r
        /\ nSpent'[p] = x /\ Len(out'[p]) = l
    BY <1>0, <1>1, <2>1
  <2>5. Own
    <3>1. l - c - h - k > 0 /\ h < HwLimit /\ h + c + x < CompSize BY <2>1
    <3>2. Counts(c, h + 1, k, r, x, l) BY <1>2, <3>1, CountsKeep
    <3> QED BY <2>4, <3>2
  <2>6. Theirs BY <1>0, <2>1
  <2> QED BY <2>3, <2>5, <2>6 DEF Sends, Shape
<1>10. CASE KernelComplete(p)
  <2>1. /\ UNCHANGED <<nColl, sending, nReap, nSpent, out>> /\ h > 0
        /\ nHw' = [nHw EXCEPT ![p] = h - 1]
        /\ nComp' = [nComp EXCEPT ![p] = c + 1]
    BY <1>1, <1>10 DEF KernelComplete, sender
  <2>2. h - 1 \in Nat /\ c + 1 \in Nat /\ Counts(c + 1, h - 1, k, r, x, l)
    <3>1. h > 0 BY <2>1
    <3>2. Counts(c + 1, h - 1, k, r, x, l) BY <1>2, <3>1, CountsKeep
    <3> QED BY <3>1, <3>2
  <2>3. Typed BY <1>0, <1>3, <2>1, <2>2
  <2>4. /\ nComp'[p] = c + 1 /\ nHw'[p] = h - 1 /\ nColl'[p] = k /\ nReap'[p] = r
        /\ nSpent'[p] = x /\ Len(out'[p]) = l
    BY <1>0, <1>1, <2>1
  <2>5. Own BY <2>2, <2>4
  <2>6. Theirs BY <1>0, <2>1
  <2> QED BY <2>3, <2>5, <2>6 DEF Sends, Shape
<1> QED BY <1>4, <1>5, <1>6, <1>7, <1>8, <1>9, <1>10 DEF SendStep

(* Its preservation by what happens at a port. *)
LEMMA ShapePort ==
  ASSUME Shape, NEW p \in Ports, PortInit(p) \/ ConsTrade(p) \/ Receive(p) \/ Enqueue(p)
                                   \/ Drop(p) \/ Lose(p) \/ SendStep(p)
  PROVE  Shape'
<1> USE PoolAssumption DEF Shape
<1>1. CASE PortInit(p)
  <2> USE <1>1 DEF PortInit
  <2>1. nAvail - 1 \in Slabs /\ nAvail - 2 \in Slabs BY DEF Slabs
  <2>2. slabs[nAvail - 1] \in Slabs /\ slabs[nAvail - 2] \in Slabs BY <2>1
  <2>3. SlabSize \in 0..SlabSize /\ FillSize \in 0..SlabSize OBVIOUS
  <2>4. /\ Popped(slabs[nAvail - 1], SlabSize, FillSize) \in Seq(Entry)
        /\ After(slabs[nAvail - 1], SlabSize, FillSize) \in [Slots -> Entry]
    BY <2>2, <2>3, PoppedTyped
  <2>5. [i \in Slots |-> Stale] \in [Slots -> Entry] BY DEF Entry
  <2>6. content' \in [Slabs -> [Slots -> Entry]] BY <2>2, <2>4, <2>5
  <2>7. posted' \in [Ports -> Seq(Entry)] BY <2>4
  <2>8. SlabSize - FillSize \in 0..SlabSize /\ p + 1 \in 0..NPorts /\ nAvail - 2 \in 0..NSlabs
    BY DEF Ports
  <2> HIDE DEF PortInit, Shape
  <2>9. /\ UNCHANGED <<watched, slabs, nProd, burst, traffic, step, local>>
        /\ nAvail' = nAvail - 2 /\ ready' = p + 1
    BY DEF PortInit
  <2>10. slabCons' \in [Ports -> Slabs] /\ slabProd' \in [Ports -> Slabs]
         /\ nCons' \in [Ports -> 0..SlabSize]
    BY <2>2, <2>8 DEF PortInit, Shape
  <2>11. Sends' BY <2>9, SendsStay DEF Shape, traffic
  <2> QED BY <2>6, <2>7, <2>8, <2>9, <2>10, <2>11 DEF Shape, local, traffic
<1>2. CASE ConsTrade(p)
  <2>1. /\ UNCHANGED <<watched, content, ready, posted, burst, prod, traffic, step, local>>
        /\ nAvail > 0 /\ nAvail' = nAvail - 1
        /\ slabs' = [slabs EXCEPT ![nAvail - 1] = slabCons[p]]
        /\ slabCons' = [slabCons EXCEPT ![p] = slabs[nAvail - 1]]
        /\ nCons' = [nCons EXCEPT ![p] = SlabSize]
    BY <1>2 DEF ConsTrade
  <2>2. nAvail - 1 \in Slabs /\ SlabSize \in 0..SlabSize BY <2>1 DEF Slabs
  <2>3. Sends' BY <2>1, SendsStay DEF traffic
  <2> QED BY <2>1, <2>2, <2>3 DEF prod, local, traffic
<1>3. CASE Receive(p)
  <2>1. PICK k \in 1 .. Smaller(Burst, Smaller(nCons[p], Len(posted[p]))) :
          /\ burst' = [burst EXCEPT ![p] = SubSeq(posted[p], 1, k)]
          /\ posted' = [posted EXCEPT ![p] =
                          SubSeq(@, k + 1, Len(@)) \o Popped(slabCons[p], nCons[p], k)]
          /\ content' = [content EXCEPT ![slabCons[p]] = After(slabCons[p], nCons[p], k)]
          /\ nCons' = [nCons EXCEPT ![p] = @ - k]
    BY <1>3 DEF Receive
  <2>2. UNCHANGED <<watched, pool, ready, slabCons, prod, traffic, step, local>>
    BY <1>3 DEF Receive
  <2>3. k \in 0..nCons[p] /\ k \in 1..Len(posted[p]) BY <2>1 DEF Smaller
  <2>4. /\ Popped(slabCons[p], nCons[p], k) \in Seq(Entry)
        /\ After(slabCons[p], nCons[p], k) \in [Slots -> Entry]
    BY <2>3, PoppedTyped
  <2>5. posted[p] \in Seq(Entry) OBVIOUS
  <2>6. SubSeq(posted[p], 1, k) \in Seq(Entry) /\ SubSeq(posted[p], k + 1, Len(posted[p])) \in Seq(Entry)
    BY <2>3, <2>5
  <2>7. SubSeq(posted[p], k + 1, Len(posted[p])) \o Popped(slabCons[p], nCons[p], k) \in Seq(Entry)
    BY <2>4, <2>6
  <2>8. posted' \in [Ports -> Seq(Entry)] /\ burst' \in [Ports -> Seq(Entry)]
        /\ content' \in [Slabs -> [Slots -> Entry]]
    BY <2>1, <2>4, <2>6, <2>7
  <2>9. nCons[p] - k \in 0..SlabSize BY <2>3
  <2>10. nCons' \in [Ports -> 0..SlabSize] BY <2>1, <2>9
  <2>11. Sends' BY <2>2, SendsStay DEF traffic
  <2> HIDE DEF Shape
  <2> QED BY <2>2, <2>8, <2>10, <2>11 DEF Shape, pool, prod, local, traffic
<1>4. CASE Enqueue(p)
  <2>1. /\ burst[p] # <<>> /\ burst[p] \in Seq(Entry)
        /\ flight' = flight (+) SetToBag({Head(burst[p])})
        /\ burst' = [burst EXCEPT ![p] = Tail(@)]
        /\ UNCHANGED <<watched, pool, content, ready, slabCons, nCons, posted, prod,
                       out, device, sender, lost, step, local>>
    BY <1>4 DEF Enqueue
  <2>2. Head(burst[p]) \in Entry /\ Tail(burst[p]) \in Seq(Entry) BY <2>1
  <2>3. IsABag(flight') /\ DOMAIN flight' \subseteq Entry
    <3>1. IsABag(flight) /\ DOMAIN flight \subseteq Entry OBVIOUS
    <3>2. PICK a \in Entry : a = Head(burst[p]) BY <2>2
    <3>3. flight' = flight (+) SetToBag({a}) BY <2>1, <3>2
    <3> HIDE DEF Shape
    <3>4. IsABag(flight') /\ DOMAIN flight' = DOMAIN flight \cup {a} BY <3>1, <3>3, BagAdd
    <3> QED BY <3>1, <3>2, <3>4
  <2>4. burst' \in [Ports -> Seq(Entry)] BY <2>1, <2>2
  <2>5. Sends' BY <2>1, SendsStay
  <2> HIDE DEF Shape
  <2> QED BY <2>1, <2>3, <2>4, <2>5 DEF Shape, pool, prod, local
<1>5. CASE Drop(p)
  <2>1. /\ burst[p] # <<>> /\ burst[p] \in Seq(Entry)
        /\ freed' = [freed EXCEPT ![<<"rx", p>>] = Head(burst[p])]
        /\ step' = [step EXCEPT ![<<"rx", p>>] = "check"]
        /\ burst' = [burst EXCEPT ![p] = Tail(@)]
        /\ UNCHANGED <<watched, pool, content, ready, slabCons, nCons, posted, prod, traffic,
                       count, empty>>
    BY <1>5 DEF Drop
  <2>2. Head(burst[p]) \in Entry /\ Tail(burst[p]) \in Seq(Entry) BY <2>1
  <2>3. burst' \in [Ports -> Seq(Entry)] /\ freed' \in [Threads -> Entry] BY <2>1, <2>2
  <2>4. Sends' BY <2>1, SendsStay DEF traffic
  <2> QED BY <2>1, <2>3, <2>4 DEF pool, prod, traffic
<1>6. CASE Lose(p)
  <2>1. /\ burst[p] # <<>> /\ burst[p] \in Seq(Entry)
        /\ Len(lost) < MaxLost /\ lost' = Append(lost, Head(burst[p]))
        /\ burst' = [burst EXCEPT ![p] = Tail(@)]
        /\ UNCHANGED <<watched, pool, content, ready, slabCons, nCons, posted, prod,
                       flight, out, device, sender, step, local>>
    BY <1>6 DEF Lose
  <2>2. Head(burst[p]) \in Entry /\ Tail(burst[p]) \in Seq(Entry) BY <2>1
  <2>3. burst' \in [Ports -> Seq(Entry)] BY <2>1, <2>2
  <2>4. PICK a \in Entry : a = Head(burst[p]) BY <2>2
  <2>5. lost' \in Seq(Entry) /\ Len(lost') = Len(lost) + 1
    <3>1. lost' = Append(lost, a) /\ lost \in Seq(Entry) BY <2>1, <2>4
    <3> QED BY <3>1
  <2>6. Len(lost') <= MaxLost BY <2>1, <2>5
  <2>7. Sends' BY <2>1, SendsStay
  <2> HIDE DEF Shape
  <2> QED BY <2>1, <2>3, <2>5, <2>6, <2>7 DEF Shape, pool, prod, local
<1>7. CASE SendStep(p)
  <2> HIDE DEF Shape
  <2>1. out' \in [Ports -> Seq(Entry)] /\ Sends' BY <1>7, SendsStep
  <2>2. CASE Pull(p)
    <3>1. /\ UNCHANGED <<watched, pool, content, ready, cons, prod, lost, step, local>>
          /\ \E b \in BagToSet(flight) : flight' = flight (-) SetToBag({b})
      BY <2>2 DEF Pull
    <3>2. PICK b \in DOMAIN flight : flight' = flight (-) SetToBag({b}) BY <3>1 DEF BagToSet
    <3>3. IsABag(flight) /\ DOMAIN flight \subseteq Entry BY DEF Shape
    <3>4. IsABag(flight') /\ DOMAIN flight' \subseteq DOMAIN flight BY <3>2, <3>3, BagRemove
    <3> QED BY <2>1, <3>1, <3>3, <3>4 DEF Shape, pool, cons, prod, local
  <2>3. CASE Reap(p)
    <3>1. /\ UNCHANGED <<watched, pool, content, ready, cons, prod, flight, lost, count, empty>>
          /\ step' = [step EXCEPT ![<<"tx", p>>] = "check"]
          /\ freed' = [freed EXCEPT ![<<"tx", p>>] = Head(out[p])] /\ nReap[p] > 0
      BY <2>3 DEF Reap
    <3>2. out[p] \in Seq(Entry) /\ out[p] # <<>> BY <3>1, ReapsSome
    <3>3. Head(out[p]) \in Entry BY <3>2
    <3>4. freed' \in [Threads -> Entry] BY <3>1, <3>3 DEF Shape
    <3> QED BY <2>1, <3>1, <3>4 DEF Shape, pool, cons, prod
  <2>4. CASE Peek(p) \/ Release(p) \/ Submit(p) \/ KernelTake(p) \/ KernelComplete(p)
    <3>1. UNCHANGED <<watched, pool, content, ready, cons, prod, flight, lost, step, local>>
      BY <2>4 DEF Peek, Release, Submit, KernelTake, KernelComplete
    <3> QED BY <2>1, <3>1 DEF Shape, pool, cons, prod, local
  <2> QED BY <1>7, <2>2, <2>3, <2>4 DEF SendStep
<1> QED BY <1>1, <1>2, <1>3, <1>4, <1>5, <1>6, <1>7

(* Its preservation by bcache_prod. *)
LEMMA ShapeThread ==
  ASSUME Shape, NEW th \in Threads, ProdStep(th)
  PROVE  Shape'
<1> USE PoolAssumption, ThreadsAre DEF Shape, pool, cons, prod, traffic, local, Goto, Return
<1>0. UNCHANGED traffic BY DEF ProdStep, ProdCheck, ProdStore, ProdCount, ProdTrade, ProdFirst,
                             ProdSwitch, ProdReset
<1>1. /\ PortOf(th) \in Ports
      /\ Sends' /\ UNCHANGED <<flight, out, lost>>
  BY <1>0, SendsStay
<1>2. CASE ProdCheck(th)
  <2>1. nProd[PortOf(th)] \in 0..SlabSize BY <1>1
  <2>2. /\ step' = [step EXCEPT ![th] = IF nProd[PortOf(th)] < SlabSize THEN "store" ELSE "trade"]
        /\ count' = [count EXCEPT ![th] = nProd[PortOf(th)]]
        /\ UNCHANGED <<watched, slabs, nAvail, content, ready, slabCons, nCons, posted, burst,
                       slabProd, nProd, flight, out, lost, freed, empty>>
    BY <1>2 DEF ProdCheck
  <2>3. count' \in [Threads -> 0..SlabSize] BY <2>1, <2>2
  <2>4. \A u \in Threads : step'[u] \in {"store", "count"} => count'[u] < SlabSize BY <2>2
  <2> QED BY <1>1, <2>2, <2>3, <2>4
<1>3. CASE ProdStore(th)
  <2>1. slabProd[PortOf(th)] \in Slabs /\ count[th] \in Slots /\ freed[th] \in Entry
    BY <1>1, <1>3 DEF ProdStore, Slots
  <2>2. /\ content' = [content EXCEPT ![slabProd[PortOf(th)]][count[th]] = freed[th]]
        /\ step' = [step EXCEPT ![th] = "count"] /\ step[th] = "store"
        /\ UNCHANGED <<watched, slabs, nAvail, ready, slabCons, nCons, posted, burst,
                       slabProd, nProd, flight, out, lost, freed, count, empty>>
    BY <1>3 DEF ProdStore
  <2>3. content' \in [Slabs -> [Slots -> Entry]] BY <2>1, <2>2
  <2>4. \A u \in Threads : step'[u] \in {"store", "count"} => count'[u] < SlabSize BY <2>2
  <2> QED BY <1>1, <2>2, <2>3, <2>4
<1>4. CASE ProdCount(th)
  <2>1. count[th] + 1 \in 0..SlabSize BY <1>4 DEF ProdCount
  <2>2. 0 \in 0..SlabSize /\ 0 \in Slabs /\ Stale \in Entry BY <1>1, FirstSlab DEF Entry
  <2> QED BY <1>1, <1>4, <2>1, <2>2 DEF ProdCount
<1>5. CASE ProdTrade(th)
  <2>1. nAvail \in Slabs /\ nAvail + 1 \in 0..NSlabs BY <1>5 DEF ProdTrade, Slabs
  <2> QED BY <1>1, <1>5, <2>1 DEF ProdTrade
<1>6. CASE ProdFirst(th)
  <2>1. empty[th] \in Slabs /\ 0 \in Slots /\ freed[th] \in Entry BY <1>1, FirstSlab
  <2>2. /\ content' = [content EXCEPT ![empty[th]][0] = freed[th]]
        /\ step' = [step EXCEPT ![th] = "switch"]
        /\ UNCHANGED <<watched, slabs, nAvail, ready, slabCons, nCons, posted, burst,
                       slabProd, nProd, flight, out, lost, freed, count, empty>>
    BY <1>6 DEF ProdFirst
  <2>3. content' \in [Slabs -> [Slots -> Entry]] BY <2>1, <2>2
  <2> QED BY <1>1, <2>2, <2>3
<1>7. CASE ProdSwitch(th) BY <1>1, <1>7 DEF ProdSwitch
<1>8. CASE ProdReset(th)
  <2>1. 1 \in 0..SlabSize /\ 0 \in 0..SlabSize /\ 0 \in Slabs /\ Stale \in Entry
    BY <1>1, FirstSlab DEF Entry
  <2> QED BY <1>1, <1>8, <2>1 DEF ProdReset
<1> QED BY <1>2, <1>3, <1>4, <1>5, <1>6, <1>7, <1>8 DEF ProdStep

(* The state keeps its shape. *)
LEMMA ShapeStep == Shape /\ [Next]_vars => Shape'
<1>1. ASSUME Shape, UNCHANGED vars PROVE Shape'
  <2>1. Sends' BY <1>1, SendsStay DEF Shape, vars, traffic
  <2> QED BY <1>1, <2>1 DEF Shape, vars, pool, cons, prod, traffic, local
<1> QED BY <1>1, ShapePort, ShapeThread DEF Next, SendStep
-----------------------------------------------------------------------------
(***************************************************************************)
(* How many buffers there are.                                             *)
(***************************************************************************)

(* The buffer that a thread is about to put into its cache. *)
Hand(th) == IF step[th] = "idle" THEN 0 ELSE 1

(* From the trade to the reset nProd counts the slab that was given away.  *)
Resetting(th) == step[th] \in {"first", "switch", "reset"}
ProdHeld(p) == IF Resetting(<<"rx", p>>) \/ Resetting(<<"tx", p>>) THEN 0 ELSE nProd[p]

(* What the kernel has or can have of a port, the collector included. *)
Away(p) == Len(posted[p]) + Len(out[p])

Held(p) == nCons[p] + ProdHeld(p) + Away(p) + Len(burst[p])
             + Hand(<<"rx", p>>) + Hand(<<"tx", p>>)
held == [p \in Ports |-> Held(p)]

(* What no port has: in the queues, or lost. *)
Size(f) == Of("watched", f) + Of("other", f) + Of(Stale, f)
InFlight == Size(flight) + Len(lost)

(* Of the slabs in the pool at the start each initialised port has given   *)
(* up one, its producer slab.  The other buffers are still there.          *)
Total ==
  \E s : /\ SumsOf(held, NPorts, s)
         /\ nAvail * SlabSize + s[NPorts] + InFlight + ready * SlabSize = NSlabs * SlabSize

(* The threads that put buffers into a cache are those the constants name. *)
Roles == \A p \in Ports : /\ step[<<"rx", p>>] # "idle" => p \in Droppers
                          /\ step[<<"tx", p>>] # "idle" => p \in Senders

(* Nothing happens until all ports are initialised. *)
Starting ==
  ready < NPorts =>
    /\ nAvail = NSlabs - 2 * ready /\ flight = EmptyBag /\ lost = <<>>
    /\ \A p \in Ports : /\ nProd[p] = 0 /\ burst[p] = <<>> /\ out[p] = <<>>
                        /\ p >= ready => nCons[p] = 0 /\ posted[p] = <<>>
    /\ \A th \in Threads : step[th] = "idle"

(* As many buffers go to the fill queue as come out of the RX ring. *)
Filled == \A p \in Ports : /\ p < ready => Len(posted[p]) = FillSize
                           /\ Len(burst[p]) <= Burst

(* What a thread has read of its cache is still so. *)
Locals ==
  \A th \in Threads :
    /\ step[th] \in {"store", "count"} => count[th] = nProd[PortOf(th)]
    /\ step[th] = "trade" => nProd[PortOf(th)] = SlabSize

CountInv == Roles /\ Starting /\ Filled /\ Locals /\ Total

(* One thread per cache puts buffers into it. *)
OneFreer == Senders \cap Droppers = {}

(* Then the other thread of a port is not in bcache_prod. *)
LEMMA OneActive ==
  ASSUME OneFreer, Roles, NEW th \in Threads, NEW u \in Threads,
         PortOf(th) = PortOf(u), step[th] # "idle", step[u] # "idle"
  PROVE  th = u
<1>1. PICK p \in Ports : p = PortOf(th) BY ThreadsAre
<1>2. th \in {<<"rx", p>>, <<"tx", p>>} /\ u \in {<<"rx", p>>, <<"tx", p>>}
  BY <1>1, ThreadsAre
<1> QED BY <1>2 DEF Roles, OneFreer

(* The number of buffers of a port. *)
Parts == \A p \in Ports : /\ nCons[p] \in Nat /\ ProdHeld(p) \in Nat
                          /\ Away(p) \in Nat /\ Len(burst[p]) \in Nat
                          /\ Hand(<<"rx", p>>) \in Nat /\ Hand(<<"tx", p>>) \in Nat
                          /\ held[p] = nCons[p] + ProdHeld(p) + Away(p) + Len(burst[p])
                                         + Hand(<<"rx", p>>) + Hand(<<"tx", p>>)

(* The parts are numbers when the state has its shape. *)
LEMMA PartsTyped == Shape => Parts
<1> SUFFICES ASSUME Shape, NEW p \in Ports
             PROVE  /\ nCons[p] \in Nat /\ ProdHeld(p) \in Nat
                    /\ Away(p) \in Nat /\ Len(burst[p]) \in Nat
                    /\ Hand(<<"rx", p>>) \in Nat /\ Hand(<<"tx", p>>) \in Nat
  BY DEF Parts, held, Held
<1>1. nCons[p] \in Nat /\ nProd[p] \in Nat /\ Len(posted[p]) \in Nat /\ Len(burst[p]) \in Nat
  BY PoolAssumption DEF Shape
<1>2. ProdHeld(p) \in Nat BY <1>1 DEF ProdHeld
<1>3. Hand(<<"rx", p>>) \in Nat /\ Hand(<<"tx", p>>) \in Nat BY DEF Hand
<1>4. Away(p) \in Nat
  <2>1. Len(posted[p]) \in Nat /\ Len(out[p]) \in Nat BY DEF Shape
  <2>2. PICK a \in Nat, b \in Nat : a = Len(posted[p]) /\ b = Len(out[p]) BY <2>1
  <2>3. Away(p) = a + b BY <2>2 DEF Away
  <2> QED BY <2>3
<1> QED BY <1>1, <1>2, <1>3, <1>4

(* The same after a step. *)
LEMMA PartsTypedNext == Shape' => Parts'
BY PartsTyped, PTL

(* So are their sums, port by port. *)
LEMMA HeldTyped == Shape => held \in [Ports -> Nat]
<1> SUFFICES ASSUME Shape, NEW p \in Ports PROVE held[p] \in Nat BY DEF held
<1>1. PICK a \in Nat, b \in Nat, c \in Nat, d \in Nat, e \in Nat, f \in Nat :
        held[p] = a + b + c + d + e + f
  BY PartsTyped DEF Parts
<1> QED BY <1>1

(* The same after a step. *)
LEMMA HeldTypedNext == Shape' => (held \in [Ports -> Nat])'
BY HeldTyped, PTL

(* The number of buffers in flight. *)
LEMMA FlightTyped == Shape => InFlight \in Nat
<1> SUFFICES ASSUME Shape PROVE InFlight \in Nat OBVIOUS
<1>1. \A b : Of(b, flight) \in Nat BY DEF Shape, IsABag, Of
<1>2. Len(lost) \in Nat BY DEF Shape
<1> QED BY <1>1, <1>2 DEF InFlight, Size

(* The same after a step. *)
LEMMA FlightTypedNext == Shape' => (InFlight \in Nat)'
BY FlightTyped, PTL

(* Arithmetic, stated alone: products of numbers are numbers. *)
LEMMA Times == \A m, n \in Nat : m * n \in Nat
OBVIOUS

(* Arithmetic: a sum that stays when its parts change by as much. *)
LEMMA Balance ==
  \A x, y, z, w, i, j, a, b, c, d, k \in Nat :
    x + c + i + z = k /\ y + b + j + w = x + a + i + z /\ d + a = c + b => y + d + j + w = k
OBVIOUS

(* Arithmetic: two amounts whose sum stays. *)
LEMMA Shift ==
  \A x, h, k, i, j, z \in Nat : k + j = h + i => x + k + j + z = x + h + i + z
OBVIOUS

(* Arithmetic: six amounts, the first set apart. *)
LEMMA Gather ==
  \A a, b, c, d, e, f \in Nat : a + b + c + d + e + f = (0 + b + c + d + e + f) + a
OBVIOUS

(* A step moves buffers between one port, the pool and the flight. *)
LEMMA TotalStep ==
  ASSUME Shape, Shape', Total, NEW p \in Ports, \A q \in Ports : q # p => Held(q)' = Held(q),
         nAvail' * SlabSize + held'[p] + InFlight' + ready' * SlabSize
           = nAvail * SlabSize + held[p] + InFlight + ready * SlabSize
  PROVE  Total'
<1>1. PICK f \in [Ports -> Nat] : f = held BY HeldTyped
<1>2. PICK g \in [Ports -> Nat] : g = held' BY HeldTypedNext
<1>3. PICK s : /\ SumsOf(f, NPorts, s)
               /\ nAvail * SlabSize + s[NPorts] + InFlight + ready * SlabSize = NSlabs * SlabSize
  BY <1>1 DEF Total
<1>4. PICK t : SumsOf(g, NPorts, t) BY SumExists
<1>5. \A q \in Ports : q # p => g[q] = f[q] BY <1>1, <1>2 DEF held
<1>6. t[NPorts] + f[p] = s[NPorts] + g[p] BY <1>3, <1>4, <1>5, SumChanges
<1>7. s[NPorts] \in Nat /\ t[NPorts] \in Nat /\ f[p] \in Nat /\ g[p] \in Nat
  BY <1>3, <1>4, PoolAssumption DEF SumsOf
<1>8. /\ nAvail * SlabSize \in Nat /\ nAvail' * SlabSize \in Nat
      /\ ready * SlabSize \in Nat /\ ready' * SlabSize \in Nat /\ NSlabs * SlabSize \in Nat
  <2>1. nAvail \in Nat /\ nAvail' \in Nat /\ ready \in Nat /\ ready' \in Nat
    BY PoolAssumption DEF Shape
  <2>2. SlabSize \in Nat /\ NSlabs \in Nat BY PoolAssumption
  <2> QED BY <2>1, <2>2, Times
<1>9. PICK x \in Nat, y \in Nat, z \in Nat, w \in Nat, k \in Nat :
        /\ x = nAvail * SlabSize /\ y = nAvail' * SlabSize
        /\ z = ready * SlabSize /\ w = ready' * SlabSize /\ k = NSlabs * SlabSize
  BY <1>8
<1>10. PICK i \in Nat, j \in Nat : i = InFlight /\ j = InFlight'
  BY FlightTyped, FlightTypedNext
<1>11. x + s[NPorts] + i + z = k BY <1>3, <1>9, <1>10
<1>12. y + g[p] + j + w = x + f[p] + i + z BY <1>1, <1>2, <1>9, <1>10
<1>13. y + t[NPorts] + j + w = k
  <2>1. PICK a \in Nat, b \in Nat, c \in Nat, d \in Nat :
          a = f[p] /\ b = g[p] /\ c = s[NPorts] /\ d = t[NPorts]
    BY <1>7
  <2>2. x + c + i + z = k /\ y + b + j + w = x + a + i + z /\ d + a = c + b
    BY <1>6, <1>11, <1>12, <2>1
  <2>3. y + d + j + w = k BY <2>2, Balance
  <2> QED BY <2>1, <2>3
<1> QED BY <1>2, <1>4, <1>9, <1>10, <1>13 DEF Total

(* A port that a step does not touch. *)
LEMMA HeldStays ==
  ASSUME NEW q, nCons'[q] = nCons[q], nProd'[q] = nProd[q], posted'[q] = posted[q],
         out'[q] = out[q],
         burst'[q] = burst[q], step'[<<"rx", q>>] = step[<<"rx", q>>],
         step'[<<"tx", q>>] = step[<<"tx", q>>]
  PROVE  Held(q)' = Held(q)
BY DEF Held, Away, ProdHeld, Resetting, Hand

(* The counts at the start. *)
LEMMA CountInit == Init => CountInv
<1> SUFFICES ASSUME Init PROVE CountInv OBVIOUS
<1> USE PoolAssumption
<1>1. Roles /\ Locals BY ThreadsAre DEF Init, Roles, Locals
<1>2. Starting /\ Filled BY DEF Init, Starting, Filled, Ports
<1>3. \A p \in Ports : held[p] = 0
  <2> SUFFICES ASSUME NEW p \in Ports PROVE held[p] = 0 OBVIOUS
  <2>1. nCons[p] = 0 /\ nProd[p] = 0 /\ Len(burst[p]) = 0 BY DEF Init
  <2>3. Len(posted[p]) = 0 /\ Len(out[p]) = 0 BY DEF Init
  <2>2. step[<<"rx", p>>] = "idle" /\ step[<<"tx", p>>] = "idle" BY ThreadsAre DEF Init
  <2>4. Away(p) = 0 BY <2>3 DEF Away
  <2>5. ProdHeld(p) = 0 /\ Hand(<<"rx", p>>) = 0 /\ Hand(<<"tx", p>>) = 0
    BY <2>1, <2>2 DEF ProdHeld, Resetting, Hand
  <2> QED BY <2>1, <2>4, <2>5 DEF held, Held
<1>4. PICK f \in [Ports -> Nat] : f = held BY ShapeInit, HeldTyped
<1>5. PICK s : SumsOf(f, NPorts, s) BY SumExists
<1>6. s[NPorts] = 0
  <2>1. \A p \in Ports : f[p] <= 0 BY <1>3, <1>4
  <2>2. s[NPorts] <= NPorts * 0 BY <1>5, <2>1, SumBounds
  <2>3. s[NPorts] \in Nat BY <1>5 DEF SumsOf
  <2> QED BY <2>2, <2>3
<1>7. InFlight = 0
  <2>1. Size(flight) = 0 BY DEF Init, Size, EmptyBag, SetToBag, Of
  <2>2. Len(lost) = 0 BY DEF Init
  <2> QED BY <2>1, <2>2 DEF InFlight
<1>8. Total
  <2>1. nAvail = NSlabs /\ ready = 0 BY DEF Init
  <2>2. PICK x \in Nat : x = NSlabs * SlabSize OBVIOUS
  <2>3. nAvail * SlabSize = x /\ ready * SlabSize = 0 BY <2>1, <2>2
  <2> QED BY <1>4, <1>5, <1>6, <1>7, <2>2, <2>3 DEF Total
<1> QED BY <1>1, <1>2, <1>8 DEF CountInv

(* The only products the count needs. *)
LEMMA SlabLess ==
  \A n, S \in Nat : /\ n >= 1 => n * S = (n - 1) * S + S
                    /\ n >= 2 => n * S = (n - 2) * S + S + S
                    /\ (n + 1) * S = n * S + S
<1>1. ASSUME NEW n \in Nat, NEW S \in Nat, n >= 1 PROVE n * S = (n - 1) * S + S
  <2>1. PICK k \in Nat : n = k + 1 BY <1>1
  <2>2. (k + 1) * S = k * S + S BY OneMore
  <2>3. n - 1 = k BY <2>1
  <2> QED BY <2>1, <2>2, <2>3
<1>2. ASSUME NEW n \in Nat, NEW S \in Nat, n >= 2 PROVE n * S = (n - 2) * S + S + S
  <2>1. PICK k \in Nat : n = k + 1 /\ k >= 1 BY <1>2
  <2>2. (k + 1) * S = k * S + S BY OneMore
  <2>3. k * S = (k - 1) * S + S BY <1>1, <2>1
  <2>4. n - 2 = k - 1 BY <2>1
  <2> QED BY <2>1, <2>2, <2>3, <2>4
<1> QED BY <1>1, <1>2, OneMore

(* A port that is initialised takes two slabs and forfeits one. *)
LEMMA CountPortInit ==
  ASSUME Shape, Shape', CountInv, NEW p \in Ports, PortInit(p)
  PROVE  CountInv'
<1> USE PoolAssumption
<1>1. /\ UNCHANGED <<watched, slabs, nProd, burst, flight, out, lost, step, freed, count, empty>>
      /\ nAvail >= 2 /\ nAvail' = nAvail - 2 /\ ready = p /\ ready' = p + 1
      /\ nCons' = [nCons EXCEPT ![p] = SlabSize - FillSize]
      /\ posted' = [posted EXCEPT ![p] = Popped(slabs[nAvail - 1], SlabSize, FillSize)]
  BY DEF PortInit, traffic, local
<1>2. Roles' /\ Locals' BY <1>1 DEF CountInv, Roles, Locals
<1>3. /\ p < NPorts /\ nAvail = NSlabs - 2 * ready /\ flight = EmptyBag /\ lost = <<>>
      /\ \A q \in Ports : /\ nProd[q] = 0 /\ burst[q] = <<>> /\ out[q] = <<>>
                          /\ q >= ready => nCons[q] = 0 /\ posted[q] = <<>>
      /\ \A th \in Threads : step[th] = "idle"
      /\ p \in Nat
  BY <1>1 DEF CountInv, Starting, Ports
<1>4. /\ Len(posted'[p]) = FillSize /\ nCons'[p] = SlabSize - FillSize
      /\ \A q \in Ports : q # p => posted'[q] = posted[q] /\ nCons'[q] = nCons[q]
  <2>1. nAvail - 1 \in Slabs BY <1>1 DEF Slabs, Shape
  <2>2. slabs[nAvail - 1] \in Slabs BY <2>1 DEF Shape
  <2>3. SlabSize \in 0..SlabSize /\ FillSize \in 0..SlabSize OBVIOUS
  <2>4. Len(Popped(slabs[nAvail - 1], SlabSize, FillSize)) = FillSize
    BY <2>2, <2>3, PoppedTyped DEF Shape
  <2> QED BY <1>1, <2>4 DEF Shape
<1>5. Starting'
  <2>1. nAvail' = NSlabs - 2 * ready' BY <1>1, <1>3
  <2>2. \A q \in Ports : q >= ready' => q # p /\ q >= ready BY <1>1, <1>3 DEF Ports
  <2> QED BY <1>1, <1>3, <1>4, <2>1, <2>2 DEF Starting
<1>6. Filled'
  <2>1. \A q \in Ports : q < ready' => q = p \/ q < ready BY <1>1, <1>3 DEF Ports
  <2> QED BY <1>1, <1>4, <2>1 DEF CountInv, Filled
<1>7. held[p] = 0 /\ held'[p] = SlabSize
  <2>1. ProdHeld(p) = 0 /\ ProdHeld(p)' = 0 BY <1>1, <1>3 DEF ProdHeld
  <2>2. Hand(<<"rx", p>>) = 0 /\ Hand(<<"tx", p>>) = 0 BY <1>3, ThreadsAre DEF Hand
  <2>3. Hand(<<"rx", p>>)' = 0 /\ Hand(<<"tx", p>>)' = 0 BY <1>1, <2>2 DEF Hand
  <2>4. Len(burst[p]) = 0 /\ nCons[p] = 0 /\ Len(burst'[p]) = 0 BY <1>1, <1>3
  <2>7. Away(p) = 0 /\ Away(p)' = FillSize
    <3>1. posted[p] = <<>> /\ out[p] = <<>> /\ out'[p] = <<>> BY <1>1, <1>3
    <3>2. Len(posted[p]) = 0 /\ Len(out[p]) = 0 /\ Len(out'[p]) = 0 BY <3>1
    <3> QED BY <1>4, <3>2 DEF Away
  <2>5. held[p] = 0 BY <2>1, <2>2, <2>4, <2>7, PartsTyped DEF Parts
  <2>6. held'[p] = nCons'[p] + ProdHeld(p)' + Away(p)' + Len(burst'[p])
                     + Hand(<<"rx", p>>)' + Hand(<<"tx", p>>)'
    BY PartsTypedNext DEF Parts
  <2> QED BY <1>4, <2>1, <2>3, <2>4, <2>5, <2>6, <2>7
<1>8. \A q \in Ports : q # p => Held(q)' = Held(q) BY <1>1, <1>4, HeldStays
<1>9. InFlight' = InFlight BY <1>1 DEF InFlight
<1>10. Total'
  <2>1. nAvail \in Nat /\ SlabSize \in Nat BY DEF Shape
  <2>2. nAvail * SlabSize = nAvail' * SlabSize + SlabSize + SlabSize BY <1>1, <2>1, SlabLess
  <2>3. ready' * SlabSize = ready * SlabSize + SlabSize BY <1>1, <1>3, SlabLess
  <2>4. nAvail' * SlabSize \in Nat /\ ready * SlabSize \in Nat
    <3>1. nAvail' \in Nat /\ ready \in Nat BY <1>1, <1>3, <2>1
    <3> QED BY <2>1, <3>1, Times
  <2>5. PICK x \in Nat, z \in Nat, i \in Nat :
          x = nAvail' * SlabSize /\ z = ready * SlabSize /\ i = InFlight
    BY <2>4, FlightTyped
  <2>6. nAvail' * SlabSize + held'[p] + InFlight' + ready' * SlabSize
          = nAvail * SlabSize + held[p] + InFlight + ready * SlabSize
    BY <1>7, <1>9, <2>1, <2>2, <2>3, <2>5
  <2> QED BY <1>8, <2>6, TotalStep DEF CountInv
<1> QED BY <1>2, <1>5, <1>6, <1>10 DEF CountInv

(* A step that leaves pool, ports' initialisation and flight alone.        *)
LEMMA CountTrade ==
  ASSUME Shape, Shape', CountInv, NEW p \in Ports, ConsTrade(p)
  PROVE  CountInv'
<1> USE PoolAssumption
<1>1. /\ UNCHANGED <<ready, posted, burst, nProd, flight, out, lost, step, count>>
      /\ ready = NPorts /\ nCons[p] = 0
      /\ nAvail > 0 /\ nAvail' = nAvail - 1
      /\ nCons' = [nCons EXCEPT ![p] = SlabSize]
  BY DEF ConsTrade, MayReceive, prod, traffic, local
<1>2. Roles' /\ Locals' /\ Filled' BY <1>1 DEF CountInv, Roles, Locals, Filled
<1>3. Starting' BY <1>1 DEF Starting
<1>4. \A q \in Ports : q # p => nCons'[q] = nCons[q] BY <1>1 DEF Shape
<1>5. \A q \in Ports : q # p => Held(q)' = Held(q) BY <1>1, <1>4, HeldStays
<1>6. nCons'[p] = SlabSize BY <1>1 DEF Shape
<1>7. held'[p] = held[p] + SlabSize
  <2>1. PICK b \in Nat, c \in Nat, d \in Nat, e \in Nat, f \in Nat :
          /\ b = ProdHeld(p) /\ c = Away(p) /\ d = Len(burst[p])
          /\ e = Hand(<<"rx", p>>) /\ f = Hand(<<"tx", p>>)
          /\ held[p] = 0 + b + c + d + e + f
    BY <1>1, PartsTyped DEF Parts
  <2>2. /\ ProdHeld(p)' = b /\ Away(p)' = c /\ Len(burst'[p]) = d
        /\ Hand(<<"rx", p>>)' = e /\ Hand(<<"tx", p>>)' = f
    BY <1>1, <2>1 DEF Away, ProdHeld, Resetting, Hand
  <2>3. held'[p] = SlabSize + b + c + d + e + f
    BY <1>6, <2>2, PartsTypedNext DEF Parts
  <2>4. SlabSize \in Nat OBVIOUS
  <2>5. SlabSize + b + c + d + e + f = (0 + b + c + d + e + f) + SlabSize BY <2>4, Gather
  <2> QED BY <2>1, <2>3, <2>5
<1>8. Total'
  <2>1. nAvail \in Nat /\ SlabSize \in Nat /\ ready \in Nat BY DEF Shape
  <2>2. nAvail * SlabSize = nAvail' * SlabSize + SlabSize BY <1>1, <2>1, SlabLess
  <2>3. nAvail' * SlabSize \in Nat /\ ready * SlabSize \in Nat
    <3>1. nAvail' \in Nat BY <1>1, <2>1
    <3> QED BY <2>1, <3>1, Times
  <2>4. PICK x \in Nat, z \in Nat, i \in Nat, h \in Nat :
          x = nAvail' * SlabSize /\ z = ready * SlabSize /\ i = InFlight /\ h = held[p]
    BY <2>3, FlightTyped, HeldTyped
  <2>5. InFlight' = i /\ ready' * SlabSize = z BY <1>1, <2>4 DEF InFlight
  <2>6. nAvail' * SlabSize + held'[p] + InFlight' + ready' * SlabSize
          = nAvail * SlabSize + held[p] + InFlight + ready * SlabSize
    BY <1>7, <2>1, <2>2, <2>4, <2>5
  <2> QED BY <1>5, <2>6, TotalStep DEF CountInv
<1> QED BY <1>2, <1>3, <1>8 DEF CountInv

(* Where the pool and the ports initialised stay, only port and flight move. *)
LEMMA TotalMoves ==
  ASSUME Shape, Shape', Total, NEW p \in Ports, \A q \in Ports : q # p => Held(q)' = Held(q),
         nAvail' = nAvail, ready' = ready, held'[p] + InFlight' = held[p] + InFlight
  PROVE  Total'
<1>1. nAvail * SlabSize \in Nat /\ ready * SlabSize \in Nat
  <2>1. nAvail \in Nat /\ ready \in Nat /\ SlabSize \in Nat BY PoolAssumption DEF Shape
  <2> QED BY <2>1, Times
<1>2. PICK x \in Nat, z \in Nat : x = nAvail * SlabSize /\ z = ready * SlabSize BY <1>1
<1>3. PICK h \in Nat, k \in Nat, i \in Nat, j \in Nat :
        h = held[p] /\ k = held'[p] /\ i = InFlight /\ j = InFlight'
  BY HeldTyped, HeldTypedNext, FlightTyped, FlightTypedNext
<1>4. x + k + j + z = x + h + i + z
  <2>1. k + j = h + i BY <1>3
  <2> QED BY <2>1, Shift
<1>5. nAvail' * SlabSize + held'[p] + InFlight' + ready' * SlabSize
        = nAvail * SlabSize + held[p] + InFlight + ready * SlabSize
  BY <1>2, <1>3, <1>4
<1> QED BY <1>5, TotalStep

(* What moves within a port, or between it and the flight. *)
LEMMA HeldMoves ==
  ASSUME Shape, Shape', NEW p \in Ports,
         nCons'[p] + ProdHeld(p)' + Away(p)' + Len(burst'[p])
             + Hand(<<"rx", p>>)' + Hand(<<"tx", p>>)' + InFlight'
           = nCons[p] + ProdHeld(p) + Away(p) + Len(burst[p])
               + Hand(<<"rx", p>>) + Hand(<<"tx", p>>) + InFlight
  PROVE  held'[p] + InFlight' = held[p] + InFlight
BY PartsTyped, PartsTypedNext DEF Parts

(* A burst is received: as many buffers are posted as are taken. *)
LEMMA CountReceive ==
  ASSUME Shape, Shape', CountInv, NEW p \in Ports, Receive(p)
  PROVE  CountInv'
<1> USE PoolAssumption
<1>1. PICK k \in 1 .. Smaller(Burst, Smaller(nCons[p], Len(posted[p]))) :
        /\ burst' = [burst EXCEPT ![p] = SubSeq(posted[p], 1, k)]
        /\ posted' = [posted EXCEPT ![p] =
                        SubSeq(@, k + 1, Len(@)) \o Popped(slabCons[p], nCons[p], k)]
        /\ nCons' = [nCons EXCEPT ![p] = @ - k]
  BY DEF Receive
<1>2. /\ UNCHANGED <<nAvail, ready, nProd, flight, out, lost, step, count>>
      /\ ready = NPorts /\ burst[p] = <<>>
  BY DEF Receive, MayReceive, pool, prod, traffic, local
<1>3. nCons[p] \in 0..SlabSize /\ posted[p] \in Seq(Entry) /\ slabCons[p] \in Slabs
      /\ content \in [Slabs -> [Slots -> Entry]]
  BY DEF Shape
<1>4. k \in 1..Burst /\ k \in 0..nCons[p] /\ k \in 1..Len(posted[p]) BY <1>1, <1>3 DEF Smaller
<1>5. PICK q : q = posted[p] OBVIOUS
<1>6. PICK r : r = Popped(slabCons[p], nCons[p], k) OBVIOUS
<1>7. r \in Seq(Entry) /\ Len(r) = k BY <1>3, <1>4, <1>6, PoppedTyped
<1>8. q \in Seq(Entry) /\ k \in 1..Len(q) BY <1>3, <1>4, <1>5
<1>9. /\ SubSeq(q, 1, k) \in Seq(Entry) /\ Len(SubSeq(q, 1, k)) = k
      /\ SubSeq(q, k + 1, Len(q)) \in Seq(Entry) /\ Len(SubSeq(q, k + 1, Len(q))) = Len(q) - k
  BY <1>8
<1>10. Len(SubSeq(q, k + 1, Len(q)) \o r) = Len(q)
  BY <1>7, <1>8, <1>9
<1>11. posted'[p] = SubSeq(q, k + 1, Len(q)) \o r /\ burst'[p] = SubSeq(q, 1, k)
       /\ nCons'[p] = nCons[p] - k
  BY <1>1, <1>5, <1>6 DEF Shape
<1>12. \A d \in Ports : d # p => nCons'[d] = nCons[d] /\ posted'[d] = posted[d] /\ burst'[d] = burst[d]
  BY <1>1 DEF Shape
<1>13. Roles' /\ Locals' BY <1>2 DEF CountInv, Roles, Locals
<1>14. Starting' BY <1>2 DEF Starting
<1>15. Filled'
  <2>1. Len(posted'[p]) = Len(posted[p]) /\ Len(burst'[p]) <= Burst
    BY <1>4, <1>5, <1>9, <1>10, <1>11
  <2> QED BY <1>2, <1>12, <2>1 DEF CountInv, Filled
<1>16. \A d \in Ports : d # p => Held(d)' = Held(d) BY <1>2, <1>12, HeldStays
<1>17. Total'
  <2>1. PICK a \in Nat, b \in Nat, c \in Nat, e \in Nat, f \in Nat, i \in Nat :
          /\ a = nCons[p] /\ b = ProdHeld(p) /\ c = Away(p)
          /\ e = Hand(<<"rx", p>>) /\ f = Hand(<<"tx", p>>) /\ i = InFlight
    BY PartsTyped, FlightTyped DEF Parts
  <2>2. /\ ProdHeld(p)' = b /\ Hand(<<"rx", p>>)' = e /\ Hand(<<"tx", p>>)' = f /\ InFlight' = i
    BY <1>2, <2>1 DEF ProdHeld, Resetting, Hand, InFlight
  <2>3. Len(burst[p]) = 0 /\ Len(burst'[p]) = k /\ nCons'[p] = a - k
    BY <1>2, <1>5, <1>9, <1>10, <1>11, <2>1
  <2>6. Away(p)' = c
    <3>1. Len(posted'[p]) = Len(posted[p]) /\ out' = out BY <1>2, <1>5, <1>10, <1>11
    <3> QED BY <2>1, <3>1 DEF Away
  <2>4. (a - k) + b + c + k + e + f + i = a + b + c + 0 + e + f + i BY <1>4
  <2>5. held'[p] + InFlight' = held[p] + InFlight
    BY <2>1, <2>2, <2>3, <2>4, <2>6, HeldMoves
  <2> QED BY <1>2, <1>16, <2>5, TotalMoves DEF CountInv
<1> QED BY <1>13, <1>14, <1>15, <1>17 DEF CountInv

(* One address more, or one less. *)
LEMMA BagGains ==
  ASSUME NEW f, IsABag(f), NEW a \in Entry, NEW g, g = f (+) SetToBag({a})
  PROVE  Size(g) = Size(f) + 1
<1>1. \A b : Of(b, g) = Of(b, f) + (IF b = a THEN 1 ELSE 0) BY DEF IsABag, SetToBag, (+), Of
<1>2. \A b : Of(b, f) \in Nat BY DEF IsABag, Of
<1>3. PICK x \in Nat, y \in Nat, z \in Nat :
        x = Of("watched", f) /\ y = Of("other", f) /\ z = Of(Stale, f)
  BY <1>2
<1>4. /\ Of("watched", g) = x + (IF "watched" = a THEN 1 ELSE 0)
      /\ Of("other", g) = y + (IF "other" = a THEN 1 ELSE 0)
      /\ Of(Stale, g) = z + (IF Stale = a THEN 1 ELSE 0)
  BY <1>1, <1>3
<1> QED BY <1>3, <1>4 DEF Size, Entry, Address, Stale

(* A bag that loses an address has one less. *)
LEMMA BagLoses ==
  ASSUME NEW f, IsABag(f), NEW a \in DOMAIN f, a \in Entry, NEW g, g = f (-) SetToBag({a})
  PROVE  Size(g) + 1 = Size(f)
<1>1. /\ \A b : Of(b, g) = Of(b, f) - (IF b = a THEN 1 ELSE 0)
      /\ Of(a, f) > 0
  BY BagRemove
<1>2. \A b : Of(b, f) \in Nat BY DEF IsABag, Of
<1>3. PICK x \in Nat, y \in Nat, z \in Nat :
        x = Of("watched", f) /\ y = Of("other", f) /\ z = Of(Stale, f)
  BY <1>2
<1>4. /\ Of("watched", g) = x - (IF "watched" = a THEN 1 ELSE 0)
      /\ Of("other", g) = y - (IF "other" = a THEN 1 ELSE 0)
      /\ Of(Stale, g) = z - (IF Stale = a THEN 1 ELSE 0)
  BY <1>1, <1>3
<1>5. Size(f) = x + y + z BY <1>3 DEF Size
<1>6. Size(g) = (x - (IF "watched" = a THEN 1 ELSE 0)) + (y - (IF "other" = a THEN 1 ELSE 0))
                  + (z - (IF Stale = a THEN 1 ELSE 0))
  BY <1>4 DEF Size
<1> QED BY <1>5, <1>6 DEF Entry, Address, Stale

(* One more buffer is in flight. *)
LEMMA FlightGains ==
  ASSUME Shape, NEW a \in Entry, flight' = flight (+) SetToBag({a}), lost' = lost
  PROVE  InFlight' = InFlight + 1
<1>1. IsABag(flight) /\ Len(lost) \in Nat BY DEF Shape
<1>2. PICK f : f = flight OBVIOUS
<1>3. PICK g : g = flight' OBVIOUS
<1>4. IsABag(f) /\ g = f (+) SetToBag({a}) BY <1>1, <1>2, <1>3
<1>5. Size(g) = Size(f) + 1 BY <1>4, BagGains
<1>6. Size(f) \in Nat BY <1>4 DEF Size, Of, IsABag
<1> QED BY <1>1, <1>2, <1>3, <1>5, <1>6 DEF InFlight

(* One buffer less is in flight. *)
LEMMA FlightLoses ==
  ASSUME Shape, Shape', NEW a \in DOMAIN flight, flight' = flight (-) SetToBag({a}), lost' = lost
  PROVE  InFlight' + 1 = InFlight
<1>1. IsABag(flight) /\ a \in Entry /\ IsABag(flight') /\ Len(lost) \in Nat BY DEF Shape
<1>2. PICK f : f = flight OBVIOUS
<1>3. PICK g : g = flight' OBVIOUS
<1>4. IsABag(f) /\ a \in DOMAIN f /\ g = f (-) SetToBag({a}) BY <1>1, <1>2, <1>3
<1>5. Size(g) + 1 = Size(f) BY <1>1, <1>4, BagLoses
<1>6. Size(g) \in Nat
  <2>1. \A b : Of(b, g) \in Nat BY <1>1, <1>3 DEF Of, IsABag
  <2> QED BY <2>1 DEF Size
<1> QED BY <1>1, <1>2, <1>3, <1>5, <1>6 DEF InFlight

(* A packet of the burst is queued. *)
LEMMA CountEnqueue ==
  ASSUME Shape, Shape', CountInv, NEW p \in Ports, Enqueue(p)
  PROVE  CountInv'
<1>1. /\ UNCHANGED <<nAvail, ready, nCons, nProd, posted, out, lost, step, count>>
      /\ burst[p] # <<>> /\ burst[p] \in Seq(Entry)
      /\ flight' = flight (+) SetToBag({Head(burst[p])})
      /\ burst' = [burst EXCEPT ![p] = Tail(@)]
  BY DEF Enqueue, pool, prod, local, Shape
<1>2. ready = NPorts BY <1>1, PoolAssumption DEF CountInv, Starting, Shape
<1>3. Head(burst[p]) \in Entry /\ Len(Tail(burst[p])) = Len(burst[p]) - 1 /\ Len(burst[p]) > 0
  BY <1>1
<1>4. burst'[p] = Tail(burst[p]) /\ \A q \in Ports : q # p => burst'[q] = burst[q]
  BY <1>1 DEF Shape
<1>5. InFlight' = InFlight + 1 BY <1>1, <1>3, FlightGains
<1>6. Roles' /\ Locals' BY <1>1 DEF CountInv, Roles, Locals
<1>7. Starting' BY <1>1, <1>2, PoolAssumption DEF Starting
<1>8. Filled'
  <2>1. Len(burst'[p]) <= Burst
    <3>1. Len(burst[p]) \in Nat /\ Len(burst[p]) <= Burst BY <1>1 DEF CountInv, Filled
    <3> QED BY <1>3, <1>4, <3>1, PoolAssumption
  <2> QED BY <1>1, <1>4, <2>1 DEF CountInv, Filled
<1>9. \A q \in Ports : q # p => Held(q)' = Held(q) BY <1>1, <1>4, HeldStays
<1>10. Total'
  <2>1. PICK a \in Nat, b \in Nat, c \in Nat, d \in Nat, e \in Nat, f \in Nat, i \in Nat :
          /\ a = nCons[p] /\ b = ProdHeld(p) /\ c = Away(p) /\ d = Len(burst[p])
          /\ e = Hand(<<"rx", p>>) /\ f = Hand(<<"tx", p>>) /\ i = InFlight
    BY PartsTyped, FlightTyped DEF Parts
  <2>2. ProdHeld(p)' = b /\ Hand(<<"rx", p>>)' = e /\ Hand(<<"tx", p>>)' = f
    BY <1>1, <2>1 DEF ProdHeld, Resetting, Hand
  <2>3. nCons'[p] = a /\ Away(p)' = c /\ Len(burst'[p]) = d - 1 /\ InFlight' = i + 1
    BY <1>1, <1>3, <1>4, <1>5, <2>1 DEF Away
  <2>4. a + b + c + (d - 1) + e + f + (i + 1) = a + b + c + d + e + f + i OBVIOUS
  <2>5. held'[p] + InFlight' = held[p] + InFlight
    BY <2>1, <2>2, <2>3, <2>4, HeldMoves
  <2> QED BY <1>1, <1>9, <2>5, TotalMoves DEF CountInv
<1> QED BY <1>6, <1>7, <1>8, <1>10 DEF CountInv

(* A packet of the burst is dropped. *)
LEMMA CountDrop ==
  ASSUME Shape, Shape', CountInv, NEW p \in Ports, Drop(p)
  PROVE  CountInv'
<1>1. /\ UNCHANGED <<nAvail, ready, nCons, nProd, posted, flight, out, lost, count>>
      /\ burst[p] # <<>> /\ burst[p] \in Seq(Entry) /\ p \in Droppers
      /\ step[<<"rx", p>>] = "idle" /\ step' = [step EXCEPT ![<<"rx", p>>] = "check"]
      /\ burst' = [burst EXCEPT ![p] = Tail(@)]
  BY DEF Drop, pool, prod, traffic, Shape
<1>2. ready = NPorts BY <1>1, PoolAssumption DEF CountInv, Starting, Shape
<1>3. Len(Tail(burst[p])) = Len(burst[p]) - 1 /\ Len(burst[p]) > 0 BY <1>1
<1>4. burst'[p] = Tail(burst[p]) /\ \A q \in Ports : q # p => burst'[q] = burst[q]
  BY <1>1 DEF Shape
<1>5. /\ step'[<<"rx", p>>] = "check" /\ \A th \in Threads : th # <<"rx", p>> => step'[th] = step[th]
      /\ \A q \in Ports : /\ <<"rx", q>> \in Threads /\ <<"tx", q>> \in Threads
                          /\ <<"tx", q>> # <<"rx", p>> /\ q # p => <<"rx", q>> # <<"rx", p>>
  BY <1>1, ThreadsAre DEF Shape
<1>6. Roles'
  <2> SUFFICES ASSUME NEW q \in Ports
               PROVE  /\ step'[<<"rx", q>>] # "idle" => q \in Droppers
                      /\ step'[<<"tx", q>>] # "idle" => q \in Senders
    BY DEF Roles
  <2>1. step'[<<"tx", q>>] = step[<<"tx", q>>] BY <1>5
  <2>2. q = p \/ step'[<<"rx", q>>] = step[<<"rx", q>>] BY <1>5
  <2> QED BY <1>1, <2>1, <2>2 DEF CountInv, Roles
<1>7. Locals'
  <2> SUFFICES ASSUME NEW th \in Threads
               PROVE  /\ step'[th] \in {"store", "count"} => count'[th] = nProd'[PortOf(th)]
                      /\ step'[th] = "trade" => nProd'[PortOf(th)] = SlabSize
    BY DEF Locals
  <2>1. th = <<"rx", p>> \/ step'[th] = step[th] BY <1>5
  <2> QED BY <1>1, <1>5, <2>1 DEF CountInv, Locals
<1>8. Starting' BY <1>1, <1>2, PoolAssumption DEF Starting
<1>9. Filled'
  <2>1. Len(burst'[p]) <= Burst
    <3>1. Len(burst[p]) \in Nat /\ Len(burst[p]) <= Burst BY <1>1 DEF CountInv, Filled
    <3> QED BY <1>3, <1>4, <3>1, PoolAssumption
  <2> QED BY <1>1, <1>4, <2>1 DEF CountInv, Filled
<1>10. \A q \in Ports : q # p => Held(q)' = Held(q) BY <1>1, <1>4, <1>5, HeldStays
<1>11. Total'
  <2>1. PICK a \in Nat, b \in Nat, c \in Nat, d \in Nat, f \in Nat, i \in Nat :
          /\ a = nCons[p] /\ b = ProdHeld(p) /\ c = Away(p) /\ d = Len(burst[p])
          /\ f = Hand(<<"tx", p>>) /\ i = InFlight
    BY PartsTyped, FlightTyped DEF Parts
  <2>2. Hand(<<"rx", p>>) = 0 /\ Hand(<<"rx", p>>)' = 1 BY <1>1, <1>5 DEF Hand
  <2>3. Hand(<<"tx", p>>)' = f /\ InFlight' = i BY <1>1, <1>5, <2>1 DEF Hand, InFlight
  <2>4. ProdHeld(p)' = b BY <1>1, <1>5, <2>1 DEF ProdHeld, Resetting
  <2>5. nCons'[p] = a /\ Away(p)' = c /\ Len(burst'[p]) = d - 1
    BY <1>1, <1>3, <1>4, <2>1 DEF Away
  <2>6. a + b + c + (d - 1) + 1 + f + i = a + b + c + d + 0 + f + i OBVIOUS
  <2>7. held'[p] + InFlight' = held[p] + InFlight
    BY <2>1, <2>2, <2>3, <2>4, <2>5, <2>6, HeldMoves
  <2> QED BY <1>1, <1>10, <2>7, TotalMoves DEF CountInv
<1> QED BY <1>6, <1>7, <1>8, <1>9, <1>11 DEF CountInv

(* A packet of the burst is lost. *)
LEMMA CountLose ==
  ASSUME Shape, Shape', CountInv, NEW p \in Ports, Lose(p)
  PROVE  CountInv'
<1>1. /\ UNCHANGED <<nAvail, ready, nCons, nProd, posted, flight, out, step, count>>
      /\ burst[p] # <<>> /\ burst[p] \in Seq(Entry) /\ lost \in Seq(Entry)
      /\ lost' = Append(lost, Head(burst[p]))
      /\ burst' = [burst EXCEPT ![p] = Tail(@)]
  BY DEF Lose, pool, prod, local, Shape
<1>2. ready = NPorts BY <1>1, PoolAssumption DEF CountInv, Starting, Shape
<1>3. Head(burst[p]) \in Entry /\ Len(Tail(burst[p])) = Len(burst[p]) - 1 /\ Len(burst[p]) > 0
  BY <1>1
<1>4. burst'[p] = Tail(burst[p]) /\ \A q \in Ports : q # p => burst'[q] = burst[q]
  BY <1>1 DEF Shape
<1>5. InFlight' = InFlight + 1
  <2>1. PICK a \in Entry : a = Head(burst[p]) BY <1>3
  <2>2. lost' = Append(lost, a) /\ lost \in Seq(Entry) BY <1>1, <2>1
  <2>3. Len(lost') = Len(lost) + 1 /\ Len(lost) \in Nat BY <2>2
  <2>4. Size(flight) \in Nat /\ Size(flight') = Size(flight)
    <3>1. IsABag(flight) BY DEF Shape
    <3> QED BY <1>1, <3>1 DEF Size, Of, IsABag
  <2> QED BY <2>3, <2>4 DEF InFlight
<1>6. Roles' /\ Locals' BY <1>1 DEF CountInv, Roles, Locals
<1>7. Starting' BY <1>1, <1>2, PoolAssumption DEF Starting
<1>8. Filled'
  <2>1. Len(burst'[p]) <= Burst
    <3>1. Len(burst[p]) \in Nat /\ Len(burst[p]) <= Burst BY <1>1 DEF CountInv, Filled
    <3> QED BY <1>3, <1>4, <3>1, PoolAssumption
  <2> QED BY <1>1, <1>4, <2>1 DEF CountInv, Filled
<1>9. \A q \in Ports : q # p => Held(q)' = Held(q) BY <1>1, <1>4, HeldStays
<1>10. Total'
  <2>1. PICK a \in Nat, b \in Nat, c \in Nat, d \in Nat, e \in Nat, f \in Nat, i \in Nat :
          /\ a = nCons[p] /\ b = ProdHeld(p) /\ c = Away(p) /\ d = Len(burst[p])
          /\ e = Hand(<<"rx", p>>) /\ f = Hand(<<"tx", p>>) /\ i = InFlight
    BY PartsTyped, FlightTyped DEF Parts
  <2>2. ProdHeld(p)' = b /\ Hand(<<"rx", p>>)' = e /\ Hand(<<"tx", p>>)' = f
    BY <1>1, <2>1 DEF ProdHeld, Resetting, Hand
  <2>3. nCons'[p] = a /\ Away(p)' = c /\ Len(burst'[p]) = d - 1 /\ InFlight' = i + 1
    BY <1>1, <1>3, <1>4, <1>5, <2>1 DEF Away
  <2>4. a + b + c + (d - 1) + e + f + (i + 1) = a + b + c + d + e + f + i OBVIOUS
  <2>5. held'[p] + InFlight' = held[p] + InFlight
    BY <2>1, <2>2, <2>3, <2>4, HeldMoves
  <2> QED BY <1>1, <1>9, <2>5, TotalMoves DEF CountInv
<1> QED BY <1>6, <1>7, <1>8, <1>10 DEF CountInv

(* A packet is pulled from the queues into a collector. *)
LEMMA CountPull ==
  ASSUME Shape, Shape', CountInv, NEW p \in Ports, Pull(p)
  PROVE  CountInv'
<1>1. /\ UNCHANGED <<nAvail, ready, nCons, nProd, posted, burst, lost, step, count>>
      /\ ready = NPorts
  BY DEF Pull, MaySend, pool, cons, prod, local
<1>2. PICK y \in DOMAIN flight : /\ flight' = flight (-) SetToBag({y})
                                /\ out' = [out EXCEPT ![p] = Append(@, y)]
  BY DEF Pull, BagToSet
<1>3. InFlight' + 1 = InFlight BY <1>1, <1>2, FlightLoses
<1>4. Roles' /\ Locals' /\ Filled' BY <1>1 DEF CountInv, Roles, Locals, Filled
<1>5. Starting' BY <1>1, PoolAssumption DEF Starting
<1>6. \A q \in Ports : q # p => out'[q] = out[q] BY <1>2 DEF Shape
<1>7. \A q \in Ports : q # p => Held(q)' = Held(q) BY <1>1, <1>6, HeldStays
<1>8. Away(p)' = Away(p) + 1
  <2>1. out[p] \in Seq(Entry) /\ y \in Entry /\ out'[p] = Append(out[p], y) BY <1>2 DEF Shape
  <2>2. Len(out'[p]) = Len(out[p]) + 1 /\ Len(out[p]) \in Nat BY <2>1
  <2>3. Len(posted[p]) \in Nat /\ posted' = posted BY <1>1 DEF Shape
  <2>4. PICK j \in Nat, k \in Nat : j = Len(posted[p]) /\ k = Len(out[p]) BY <2>2, <2>3
  <2>5. Away(p) = j + k /\ Away(p)' = j + (k + 1) BY <2>2, <2>3, <2>4 DEF Away
  <2> QED BY <2>5
<1>9. Total'
  <2>1. PICK a \in Nat, b \in Nat, c \in Nat, d \in Nat, e \in Nat, f \in Nat, i \in Nat :
          /\ a = nCons[p] /\ b = ProdHeld(p) /\ c = Away(p) /\ d = Len(burst[p])
          /\ e = Hand(<<"rx", p>>) /\ f = Hand(<<"tx", p>>) /\ i = InFlight'
    BY PartsTyped, FlightTypedNext DEF Parts
  <2>2. ProdHeld(p)' = b /\ Hand(<<"rx", p>>)' = e /\ Hand(<<"tx", p>>)' = f
    BY <1>1, <2>1 DEF ProdHeld, Resetting, Hand
  <2>3. nCons'[p] = a /\ Away(p)' = c + 1 /\ Len(burst'[p]) = d /\ InFlight = i + 1
    BY <1>1, <1>3, <1>8, <2>1
  <2>4. a + b + (c + 1) + d + e + f + i = a + b + c + d + e + f + (i + 1) OBVIOUS
  <2>5. held'[p] + InFlight' = held[p] + InFlight
    BY <2>1, <2>2, <2>3, <2>4, HeldMoves
  <2> QED BY <1>1, <1>7, <2>5, TotalMoves DEF CountInv
<1> QED BY <1>4, <1>5, <1>9 DEF CountInv

(* A completion is reaped. *)
LEMMA CountReap ==
  ASSUME Shape, Shape', CountInv, NEW p \in Ports, Reap(p)
  PROVE  CountInv'
<1>1. /\ UNCHANGED <<nAvail, ready, nCons, nProd, posted, burst, flight, lost, count>>
      /\ ready = NPorts /\ p \in Senders
      /\ step[<<"tx", p>>] = "idle" /\ step' = [step EXCEPT ![<<"tx", p>>] = "check"]
      /\ nReap[p] > 0 /\ out' = [out EXCEPT ![p] = Tail(@)]
  BY DEF Reap, MaySend, pool, cons, prod
<1>2. Away(p) = Away(p)' + 1
  <2>1. out[p] \in Seq(Entry) /\ out[p] # <<>> BY <1>1, ReapsSome
  <2>2. out'[p] = Tail(out[p]) BY <1>1 DEF Shape
  <2>3. Len(out[p]) = Len(out'[p]) + 1 /\ Len(out'[p]) \in Nat BY <2>1, <2>2
  <2>4. Len(posted[p]) \in Nat /\ posted' = posted BY <1>1 DEF Shape
  <2>5. PICK j \in Nat, k \in Nat : j = Len(posted[p]) /\ k = Len(out'[p]) BY <2>3, <2>4
  <2>6. Away(p) = j + (k + 1) /\ Away(p)' = j + k BY <2>3, <2>4, <2>5 DEF Away
  <2> QED BY <2>6
<1>3. \A q \in Ports : q # p => out'[q] = out[q] BY <1>1 DEF Shape
<1>4. /\ step'[<<"tx", p>>] = "check" /\ \A th \in Threads : th # <<"tx", p>> => step'[th] = step[th]
      /\ \A q \in Ports : /\ <<"rx", q>> \in Threads /\ <<"tx", q>> \in Threads
                          /\ <<"rx", q>> # <<"tx", p>> /\ q # p => <<"tx", q>> # <<"tx", p>>
  <2>1. DOMAIN step = Threads BY DEF Shape
  <2> QED BY <1>1, <2>1, ThreadsAre
<1>5. Roles'
  <2> SUFFICES ASSUME NEW q \in Ports
               PROVE  /\ step'[<<"rx", q>>] # "idle" => q \in Droppers
                      /\ step'[<<"tx", q>>] # "idle" => q \in Senders
    BY DEF Roles
  <2>1. step'[<<"rx", q>>] = step[<<"rx", q>>] BY <1>4
  <2>2. q = p \/ step'[<<"tx", q>>] = step[<<"tx", q>>] BY <1>4
  <2> QED BY <1>1, <2>1, <2>2 DEF CountInv, Roles
<1>6. Locals'
  <2> SUFFICES ASSUME NEW th \in Threads
               PROVE  /\ step'[th] \in {"store", "count"} => count'[th] = nProd'[PortOf(th)]
                      /\ step'[th] = "trade" => nProd'[PortOf(th)] = SlabSize
    BY DEF Locals
  <2>1. th = <<"tx", p>> \/ step'[th] = step[th] BY <1>4
  <2> QED BY <1>1, <1>4, <2>1 DEF CountInv, Locals
<1>7. Starting' BY <1>1, PoolAssumption DEF Starting
<1>8. Filled' BY <1>1 DEF CountInv, Filled
<1>9. \A q \in Ports : q # p => Held(q)' = Held(q) BY <1>1, <1>3, <1>4, HeldStays
<1>10. Total'
  <2>1. PICK a \in Nat, b \in Nat, c \in Nat, d \in Nat, e \in Nat, i \in Nat :
          /\ a = nCons[p] /\ b = ProdHeld(p) /\ c = Away(p)' /\ d = Len(burst[p])
          /\ e = Hand(<<"rx", p>>) /\ i = InFlight
    BY PartsTyped, PartsTypedNext, FlightTyped DEF Parts
  <2>2. Hand(<<"tx", p>>) = 0 /\ Hand(<<"tx", p>>)' = 1 BY <1>1, <1>4 DEF Hand
  <2>3. Hand(<<"rx", p>>)' = e /\ InFlight' = i BY <1>1, <1>4, <2>1 DEF Hand, InFlight
  <2>4. ProdHeld(p)' = b BY <1>1, <1>4, <2>1 DEF ProdHeld, Resetting
  <2>5. nCons'[p] = a /\ Away(p) = c + 1 /\ Len(burst'[p]) = d BY <1>1, <1>2, <2>1
  <2>6. a + b + c + d + e + 1 + i = a + b + (c + 1) + d + e + 0 + i OBVIOUS
  <2>7. held'[p] + InFlight' = held[p] + InFlight
    BY <2>1, <2>2, <2>3, <2>4, <2>5, <2>6, HeldMoves
  <2> QED BY <1>1, <1>9, <2>7, TotalMoves DEF CountInv
<1> QED BY <1>5, <1>6, <1>7, <1>8, <1>10 DEF CountInv

(* A step that moves no buffer between the parts of the system. *)
LEMMA CountQuiet ==
  ASSUME CountInv, UNCHANGED <<nAvail, ready, nCons, nProd, posted, burst, flight, out, lost,
                               step, count>>
  PROVE  CountInv'
<1>1. Roles' /\ Starting' /\ Filled' /\ Locals'
  BY DEF CountInv, Roles, Starting, Filled, Locals
<1>2. held' = held BY HeldStays DEF held
<1>3. InFlight' = InFlight BY DEF InFlight
<1>4. Total' BY <1>2, <1>3 DEF CountInv, Total
<1> QED BY <1>1, <1>4 DEF CountInv

(* The steps of a sending thread and of the kernel below it. *)
LEMMA CountSend ==
  ASSUME Shape, Shape', CountInv, NEW p \in Ports, SendStep(p)
  PROVE  CountInv'
<1>1. CASE Peek(p) \/ Release(p) \/ Submit(p) \/ KernelTake(p) \/ KernelComplete(p)
  <2>1. UNCHANGED <<nAvail, ready, nCons, nProd, posted, burst, flight, out, lost, step, count>>
    BY <1>1 DEF Peek, Release, Submit, KernelTake, KernelComplete, pool, cons, prod, local
  <2> QED BY <2>1, CountQuiet
<1> QED BY <1>1, CountPull, CountReap DEF SendStep

(* What a cache holds while a thread is in bcache_prod. *)
LEMMA ActivePort ==
  ASSUME Shape, OneFreer, Roles, NEW th \in Threads, step[th] # "idle",
         NEW p \in Ports, p = PortOf(th)
  PROVE  /\ ProdHeld(p) = IF Resetting(th) THEN 0 ELSE nProd[p]
         /\ Hand(<<"rx", p>>) + Hand(<<"tx", p>>) = 1
         /\ \A u \in Threads : u # th /\ PortOf(u) = p => step[u] = "idle"
<1>1. \A u \in Threads : u # th /\ PortOf(u) = p => step[u] = "idle" BY OneActive
<1>2. CASE th = <<"rx", p>>
  <2>1. step[<<"tx", p>>] = "idle" BY <1>1, <1>2, ThreadsAre
  <2> QED BY <1>1, <1>2, <2>1 DEF ProdHeld, Resetting, Hand
<1>3. CASE th = <<"tx", p>>
  <2>1. step[<<"rx", p>>] = "idle" BY <1>1, <1>3, ThreadsAre
  <2> QED BY <1>1, <1>3, <2>1 DEF ProdHeld, Resetting, Hand
<1> QED BY <1>2, <1>3, ThreadsAre

(* The same when that thread has gone on to l. *)
LEMMA ActivePortNext ==
  ASSUME Shape, OneFreer, Roles, NEW th \in Threads, step[th] # "idle",
         NEW p \in Ports, p = PortOf(th), NEW l, step' = [step EXCEPT ![th] = l]
  PROVE  /\ ProdHeld(p)' = IF l \in {"first", "switch", "reset"} THEN 0 ELSE nProd'[p]
         /\ Hand(<<"rx", p>>)' + Hand(<<"tx", p>>)' = IF l = "idle" THEN 0 ELSE 1
         /\ step'[th] = l /\ \A u \in Threads : u # th => step'[u] = step[u]
<1>1. step'[th] = l /\ \A u \in Threads : u # th => step'[u] = step[u] BY DEF Shape
<1>2. \A u \in Threads : u # th /\ PortOf(u) = p => step[u] = "idle" BY OneActive
<1>3. CASE th = <<"rx", p>>
  <2>1. step'[<<"tx", p>>] = "idle" BY <1>1, <1>2, <1>3, ThreadsAre
  <2> QED BY <1>1, <1>3, <2>1 DEF ProdHeld, Resetting, Hand
<1>4. CASE th = <<"tx", p>>
  <2>1. step'[<<"rx", p>>] = "idle" BY <1>1, <1>2, <1>4, ThreadsAre
  <2> QED BY <1>1, <1>4, <2>1 DEF ProdHeld, Resetting, Hand
<1> QED BY <1>3, <1>4, ThreadsAre

(* Arithmetic: what a port's cache and hands exchange leaves the sum. *)
LEMMA Regroup ==
  \A a, b, c, d, x, y, v, w, b1, x1, y1, v1 \in Nat :
    v1 + b1 + (x1 + y1) = v + b + (x + y)
      => v1 + (a + b1 + c + d + x1 + y1) + w = v + (a + b + c + d + x + y) + w
OBVIOUS

(* A step of bcache_prod: before it the cache and the hand of its thread   *)
(* hold k buffers, after it k2, and the pool has the rest.                 *)
LEMMA ThreadMoves ==
  ASSUME Shape, Shape', CountInv, OneFreer, NEW th \in Threads, step[th] # "idle",
         NEW p \in Ports, p = PortOf(th), NEW l, step' = [step EXCEPT ![th] = l],
         UNCHANGED <<ready, nCons, posted, burst, flight, out, lost>>,
         \A q \in Ports : q # p => nProd'[q] = nProd[q],
         \A u \in Threads : u # th => count'[u] = count[u],
         l \in {"store", "count"} => count'[th] = nProd'[p],
         l = "trade" => nProd'[p] = SlabSize,
         nAvail' * SlabSize + (IF l \in {"first", "switch", "reset"} THEN 0 ELSE nProd'[p])
             + (IF l = "idle" THEN 0 ELSE 1)
           = nAvail * SlabSize + (IF Resetting(th) THEN 0 ELSE nProd[p]) + 1
  PROVE  CountInv'
<1>1. Roles BY DEF CountInv
<1>2. /\ ProdHeld(p) = IF Resetting(th) THEN 0 ELSE nProd[p]
      /\ Hand(<<"rx", p>>) + Hand(<<"tx", p>>) = 1
      /\ \A u \in Threads : u # th /\ PortOf(u) = p => step[u] = "idle"
  BY <1>1, ActivePort
<1>3. /\ ProdHeld(p)' = IF l \in {"first", "switch", "reset"} THEN 0 ELSE nProd'[p]
      /\ Hand(<<"rx", p>>)' + Hand(<<"tx", p>>)' = IF l = "idle" THEN 0 ELSE 1
      /\ step'[th] = l /\ \A u \in Threads : u # th => step'[u] = step[u]
  BY <1>1, ActivePortNext
<1>4. Roles'
  <2> SUFFICES ASSUME NEW q \in Ports
               PROVE  /\ step'[<<"rx", q>>] # "idle" => q \in Droppers
                      /\ step'[<<"tx", q>>] # "idle" => q \in Senders
    BY DEF Roles
  <2>1. <<"rx", q>> \in Threads /\ <<"tx", q>> \in Threads BY ThreadsAre
  <2>2. step'[<<"rx", q>>] = step[<<"rx", q>>] \/ th = <<"rx", q>> BY <1>3, <2>1
  <2>3. step'[<<"tx", q>>] = step[<<"tx", q>>] \/ th = <<"tx", q>> BY <1>3, <2>1
  <2> QED BY <1>1, <2>2, <2>3 DEF Roles
<1>5. ready = NPorts /\ ready' = NPorts BY PoolAssumption DEF CountInv, Starting, Shape
<1>6. Starting' BY <1>5, PoolAssumption DEF Starting
<1>7. Filled' BY DEF CountInv, Filled
<1>8. Locals'
  <2> SUFFICES ASSUME NEW u \in Threads
               PROVE  /\ step'[u] \in {"store", "count"} => count'[u] = nProd'[PortOf(u)]
                      /\ step'[u] = "trade" => nProd'[PortOf(u)] = SlabSize
    BY DEF Locals
  <2>1. CASE u = th BY <1>3, <2>1
  <2>2. CASE u # th /\ PortOf(u) = p BY <1>2, <1>3, <2>2
  <2>3. CASE u # th /\ PortOf(u) # p
    <3>1. PortOf(u) \in Ports BY ThreadsAre
    <3>2. nProd'[PortOf(u)] = nProd[PortOf(u)] /\ count'[u] = count[u] /\ step'[u] = step[u]
      BY <1>3, <2>3, <3>1
    <3> QED BY <3>2 DEF CountInv, Locals
  <2> QED BY <2>1, <2>2, <2>3
<1>9. ASSUME NEW q \in Ports, q # p PROVE Held(q)' = Held(q)
  <2>1. <<"rx", q>> \in Threads /\ <<"tx", q>> \in Threads
        /\ <<"rx", q>> # th /\ <<"tx", q>> # th
    BY <1>9, ThreadsAre
  <2> QED BY <1>3, <1>9, <2>1, HeldStays
<1>10. Total'
  <2>1. PICK a \in Nat, b \in Nat, c \in Nat, d \in Nat, x \in Nat, y \in Nat, i \in Nat :
          /\ a = nCons[p] /\ b = ProdHeld(p) /\ c = Away(p) /\ d = Len(burst[p])
          /\ x = Hand(<<"rx", p>>) /\ y = Hand(<<"tx", p>>) /\ i = InFlight
    BY PartsTyped, FlightTyped DEF Parts
  <2>11. held[p] = a + b + c + d + x + y BY <2>1, PartsTyped DEF Parts
  <2>12. Parts' BY PartsTypedNext
  <2>2. PICK b1 \in Nat, x1 \in Nat, y1 \in Nat :
          b1 = ProdHeld(p)' /\ x1 = Hand(<<"rx", p>>)' /\ y1 = Hand(<<"tx", p>>)'
    BY <2>12 DEF Parts
  <2>13. held'[p] = a + b1 + c + d + x1 + y1
    <3>1. Away(p)' = c BY <2>1 DEF Away
    <3> QED BY <2>1, <2>2, <2>12, <3>1 DEF Parts
  <2>3. nAvail * SlabSize \in Nat /\ nAvail' * SlabSize \in Nat /\ ready * SlabSize \in Nat
    <3>1. nAvail \in Nat /\ nAvail' \in Nat /\ ready \in Nat /\ SlabSize \in Nat
      BY PoolAssumption DEF Shape
    <3> QED BY <3>1, Times
  <2>4. PICK v \in Nat, v1 \in Nat, z \in Nat :
          v = nAvail * SlabSize /\ v1 = nAvail' * SlabSize /\ z = ready * SlabSize
    BY <2>3
  <2>5. v1 + b1 + (x1 + y1) = v + b + (x + y) BY <1>2, <1>3, <2>1, <2>2, <2>4
  <2>6. PICK w \in Nat : w = i + z OBVIOUS
  <2>7. v1 + (a + b1 + c + d + x1 + y1) + w = v + (a + b + c + d + x + y) + w
    BY <2>5, Regroup
  <2>8. v1 + (a + b1 + c + d + x1 + y1) + i + z = v + (a + b + c + d + x + y) + i + z
    BY <2>6, <2>7
  <2>9. InFlight' = i /\ ready' * SlabSize = z BY <2>1, <2>4 DEF InFlight
  <2>10. nAvail' * SlabSize + held'[p] + InFlight' + ready' * SlabSize
           = nAvail * SlabSize + held[p] + InFlight + ready * SlabSize
    BY <2>4, <2>8, <2>9, <2>11, <2>13, <2>1
  <2> QED BY <1>9, <2>10, TotalStep DEF CountInv
<1> QED BY <1>4, <1>6, <1>7, <1>8, <1>10 DEF CountInv

(* The counts in the steps of bcache_prod. *)
LEMMA CountThread ==
  ASSUME Shape, Shape', CountInv, OneFreer, NEW th \in Threads, ProdStep(th)
  PROVE  CountInv'
<1>1. PICK p \in Ports : p = PortOf(th) BY ThreadsAre
<1>2. /\ nProd[p] \in 0..SlabSize /\ nProd' \in [Ports -> 0..SlabSize] /\ nProd \in [Ports -> 0..SlabSize]
      /\ SlabSize \in Nat /\ nAvail \in Nat /\ count \in [Threads -> 0..SlabSize]
      /\ count[th] \in 0..SlabSize
  <2>1. nProd' \in [Ports -> 0..SlabSize] /\ nProd \in [Ports -> 0..SlabSize] BY DEF Shape
  <2>2. nAvail \in 0..NSlabs /\ count \in [Threads -> 0..SlabSize] BY DEF Shape
  <2> QED BY <1>1, <2>1, <2>2, PoolAssumption
<1>3. PICK v \in Nat : v = nAvail * SlabSize BY <1>2, Times
<1>4. /\ step[th] \in {"store", "count"} => count[th] = nProd[p] /\ count[th] < SlabSize
      /\ step[th] = "trade" => nProd[p] = SlabSize
  BY <1>1 DEF CountInv, Locals, Shape
<1>5. CASE ProdCheck(th)
  <2>1. /\ step[th] = "check" /\ count' = [count EXCEPT ![th] = nProd[p]]
        /\ UNCHANGED <<nAvail, ready, nCons, posted, burst, nProd, flight, out, lost>>
    BY <1>1, <1>5 DEF ProdCheck, traffic, pool, cons, prod
  <2>2. PICK l : l = IF nProd[p] < SlabSize THEN "store" ELSE "trade" OBVIOUS
  <2>3. step' = [step EXCEPT ![th] = l] BY <1>1, <1>5, <2>2 DEF ProdCheck, Goto
  <2>4. \A u \in Threads : u # th => count'[u] = count[u] BY <1>2, <2>1
  <2>5. count'[th] = nProd'[p] /\ (l = "trade" => nProd'[p] = SlabSize)
    BY <1>2, <2>1, <2>2
  <2>6. nAvail' * SlabSize + (IF l \in {"first", "switch", "reset"} THEN 0 ELSE nProd'[p])
            + (IF l = "idle" THEN 0 ELSE 1)
          = nAvail * SlabSize + (IF Resetting(th) THEN 0 ELSE nProd[p]) + 1
    BY <2>1, <2>2 DEF Resetting
  <2> QED BY <1>1, <2>1, <2>3, <2>4, <2>5, <2>6, ThreadMoves
<1>6. CASE ProdStore(th)
  <2>1. /\ step[th] = "store" /\ step' = [step EXCEPT ![th] = "count"]
        /\ UNCHANGED <<nAvail, ready, nCons, posted, burst, nProd, flight, out, lost, count>>
    BY <1>6 DEF ProdStore, traffic, pool, cons, prod, local, Goto
  <2>2. count'[th] = nProd'[p] BY <1>4, <2>1
  <2>3. nAvail' * SlabSize + (IF "count" \in {"first", "switch", "reset"} THEN 0 ELSE nProd'[p])
            + (IF "count" = "idle" THEN 0 ELSE 1)
          = nAvail * SlabSize + (IF Resetting(th) THEN 0 ELSE nProd[p]) + 1
    BY <2>1 DEF Resetting
  <2> QED BY <1>1, <2>1, <2>2, <2>3, ThreadMoves
<1>7. CASE ProdCount(th)
  <2>1. /\ step[th] = "count" /\ step' = [step EXCEPT ![th] = "idle"]
        /\ nProd' = [nProd EXCEPT ![p] = count[th] + 1]
        /\ count' = [count EXCEPT ![th] = 0]
        /\ UNCHANGED <<nAvail, ready, nCons, posted, burst, flight, out, lost>>
    BY <1>1, <1>7 DEF ProdCount, traffic, pool, cons, Goto, Return
  <2>2. \A u \in Threads : u # th => count'[u] = count[u] BY <1>2, <2>1
  <2>3. nProd'[p] = nProd[p] + 1 /\ \A q \in Ports : q # p => nProd'[q] = nProd[q]
    BY <1>2, <1>4, <2>1
  <2>4. v + (nProd[p] + 1) + 0 = v + nProd[p] + 1 BY <1>2
  <2>5. nAvail' * SlabSize + (IF "idle" \in {"first", "switch", "reset"} THEN 0 ELSE nProd'[p])
            + (IF "idle" = "idle" THEN 0 ELSE 1)
          = nAvail * SlabSize + (IF Resetting(th) THEN 0 ELSE nProd[p]) + 1
    BY <1>3, <2>1, <2>3, <2>4 DEF Resetting
  <2> QED BY <1>1, <2>1, <2>2, <2>3, <2>5, ThreadMoves
<1>8. CASE ProdTrade(th)
  <2>1. /\ step[th] = "trade" /\ step' = [step EXCEPT ![th] = "first"]
        /\ nAvail' = nAvail + 1
        /\ UNCHANGED <<ready, nCons, posted, burst, nProd, flight, out, lost, count>>
    BY <1>8 DEF ProdTrade, traffic, cons, prod, Goto
  <2>2. nAvail' * SlabSize = v + SlabSize BY <1>2, <1>3, <2>1, SlabLess
  <2>3. nAvail' * SlabSize + (IF "first" \in {"first", "switch", "reset"} THEN 0 ELSE nProd'[p])
            + (IF "first" = "idle" THEN 0 ELSE 1)
          = nAvail * SlabSize + (IF Resetting(th) THEN 0 ELSE nProd[p]) + 1
    BY <1>2, <1>3, <1>4, <2>1, <2>2 DEF Resetting
  <2> QED BY <1>1, <2>1, <2>3, ThreadMoves
<1>9. CASE ProdFirst(th)
  <2>1. /\ step[th] = "first" /\ step' = [step EXCEPT ![th] = "switch"]
        /\ UNCHANGED <<nAvail, ready, nCons, posted, burst, nProd, flight, out, lost, count>>
    BY <1>9 DEF ProdFirst, traffic, pool, cons, prod, local, Goto
  <2>2. nAvail' * SlabSize + (IF "switch" \in {"first", "switch", "reset"} THEN 0 ELSE nProd'[p])
            + (IF "switch" = "idle" THEN 0 ELSE 1)
          = nAvail * SlabSize + (IF Resetting(th) THEN 0 ELSE nProd[p]) + 1
    BY <2>1 DEF Resetting
  <2> QED BY <1>1, <2>1, <2>2, ThreadMoves
<1>10. CASE ProdSwitch(th)
  <2>1. /\ step[th] = "switch" /\ step' = [step EXCEPT ![th] = "reset"]
        /\ UNCHANGED <<nAvail, ready, nCons, posted, burst, nProd, flight, out, lost, count>>
    BY <1>10 DEF ProdSwitch, traffic, pool, cons, local, Goto
  <2>2. nAvail' * SlabSize + (IF "reset" \in {"first", "switch", "reset"} THEN 0 ELSE nProd'[p])
            + (IF "reset" = "idle" THEN 0 ELSE 1)
          = nAvail * SlabSize + (IF Resetting(th) THEN 0 ELSE nProd[p]) + 1
    BY <2>1 DEF Resetting
  <2> QED BY <1>1, <2>1, <2>2, ThreadMoves
<1>11. CASE ProdReset(th)
  <2>1. /\ step[th] = "reset" /\ step' = [step EXCEPT ![th] = "idle"]
        /\ nProd' = [nProd EXCEPT ![p] = 1]
        /\ count' = [count EXCEPT ![th] = 0]
        /\ UNCHANGED <<nAvail, ready, nCons, posted, burst, flight, out, lost>>
    BY <1>1, <1>11 DEF ProdReset, traffic, pool, cons, Goto, Return
  <2>2. \A u \in Threads : u # th => count'[u] = count[u] BY <1>2, <2>1
  <2>3. nProd'[p] = 1 /\ \A q \in Ports : q # p => nProd'[q] = nProd[q]
    BY <1>2, <2>1
  <2>4. v + 1 + 0 = v + 0 + 1 OBVIOUS
  <2>5. nAvail' * SlabSize + (IF "idle" \in {"first", "switch", "reset"} THEN 0 ELSE nProd'[p])
            + (IF "idle" = "idle" THEN 0 ELSE 1)
          = nAvail * SlabSize + (IF Resetting(th) THEN 0 ELSE nProd[p]) + 1
    BY <1>3, <2>1, <2>3, <2>4 DEF Resetting
  <2> QED BY <1>1, <2>1, <2>2, <2>3, <2>5, ThreadMoves
<1> QED BY <1>5, <1>6, <1>7, <1>8, <1>9, <1>10, <1>11 DEF ProdStep

(* No buffer is lost or gained, whoever moves it. *)
LEMMA CountStep == OneFreer /\ Shape /\ Shape' /\ CountInv /\ [Next]_vars => CountInv'
<1> SUFFICES ASSUME OneFreer, Shape, Shape', CountInv, [Next]_vars PROVE CountInv'
  OBVIOUS
<1>1. ASSUME UNCHANGED vars PROVE CountInv'
  <2>1. UNCHANGED <<nAvail, ready, nCons, nProd, posted, burst, flight, out, lost, step, count>>
    BY <1>1 DEF vars, pool, cons, prod, traffic, local
  <2> QED BY <2>1, CountQuiet
<1> QED BY <1>1, CountPortInit, CountTrade, CountReceive, CountEnqueue, CountDrop,
           CountLose, CountSend, CountThread DEF Next, SendStep

(* No buffer is gained or lost, in number. *)
LEMMA CountInvariant ==
  ASSUME OneFreer
  PROVE  Spec => [](Shape /\ CountInv)
<1>1. Init => Shape /\ CountInv BY ShapeInit, CountInit
<1>2. Shape /\ CountInv /\ [Next]_vars => (Shape /\ CountInv)'
  BY ShapeStep, CountStep
<1> QED BY <1>1, <1>2, PTL DEF Spec

(* Arithmetic: a product over a sum. *)
LEMMA Distribute ==
  \A n, b, k \in Nat : /\ n * (b + k) = n * b + n * k
                       /\ (n + 1) * k = n * k + k
                       /\ n * b \in Nat /\ n * k \in Nat
OBVIOUS

(* Arithmetic: a port's rings hold b buffers at most, its two slabs not all. *)
LEMMA TooMany ==
  \A t, x, m, k, c, z, e \in Nat :
    t + x + m = k /\ t + c <= z /\ x <= e /\ k + c > z + m + e => FALSE
OBVIOUS

(* Arithmetic: what a sending thread at rest leaves in its rings. *)
LEMMA RingsHold ==
  \A c, h, k, r, x, l \in Nat :
    Counts(c, h, k, r, x, l) /\ k = 0 => l <= TxSize + CompSize
BY PoolAssumption DEF Counts

(* What the other ports can hold back at most. *)
LEMMA EnoughSlabs ==
  ASSUME Shape, CountInv, PoolSuffices, ready = NPorts, AtRest,
         NEW p \in Ports, nCons[p] = 0
  PROVE  nAvail > 0
<1> SUFFICES ASSUME nAvail = 0 PROVE FALSE BY DEF Shape
<1>1. SlabSize \in Nat /\ FillSize \in Nat /\ NPorts \in Nat /\ NSlabs \in Nat
      /\ TxSize \in Nat /\ CompSize \in Nat /\ MaxLost \in Nat
  BY PoolAssumption
<1>2. PICK e \in Nat : e = TxSize + CompSize BY <1>1
<1>3. PICK b \in Nat : b = 2 * SlabSize + FillSize + e BY <1>1
<1>4. ASSUME NEW q \in Ports
      PROVE  held[q] <= b /\ (nCons[q] = 0 => held[q] + SlabSize <= b)
  <2>1. PICK x \in Nat, y \in Nat : x = nCons[q] /\ y = ProdHeld(q) /\ x <= SlabSize /\ y <= SlabSize
    <3>1. nCons[q] \in 0..SlabSize /\ nProd[q] \in 0..SlabSize BY DEF Shape
    <3> QED BY <1>1, <3>1 DEF ProdHeld
  <2>2. Len(posted[q]) = FillSize BY <1>1 DEF CountInv, Filled, Ports
  <2>3. PICK l \in Nat : l = Len(out[q]) /\ l <= e
    <3>1. Counts(nComp[q], nHw[q], nColl[q], nReap[q], nSpent[q], Len(out[q])) BY DEF Shape, Sends
    <3>2. /\ nComp[q] \in Nat /\ nHw[q] \in Nat /\ nColl[q] \in Nat /\ nReap[q] \in Nat
          /\ nSpent[q] \in Nat /\ Len(out[q]) \in Nat
      BY DEF Shape, Sends
    <3>3. nColl[q] = 0 BY DEF AtRest
    <3>4. Len(out[q]) <= TxSize + CompSize BY <3>1, <3>2, <3>3, RingsHold
    <3> QED BY <1>2, <3>2, <3>4
  <2>4. Len(burst[q]) = 0 BY DEF AtRest
  <2>5. Hand(<<"rx", q>>) = 0 /\ Hand(<<"tx", q>>) = 0 BY ThreadsAre DEF AtRest, Hand
  <2>6. Away(q) = FillSize + l BY <2>2, <2>3 DEF Away
  <2>7. held[q] = x + y + (FillSize + l) + 0 + 0 + 0
    BY <2>1, <2>4, <2>5, <2>6, PartsTyped DEF Parts
  <2>8. /\ x + y + (FillSize + l) + 0 + 0 + 0 <= b
        /\ x = 0 => x + y + (FillSize + l) + 0 + 0 + 0 + SlabSize <= b
    <3>1. x \in Nat /\ y \in Nat /\ l \in Nat /\ x <= SlabSize /\ y <= SlabSize /\ l <= e
      BY <2>1, <2>3
    <3> QED BY <1>1, <1>3, <3>1
  <2> QED BY <2>1, <2>7, <2>8
<1>5. PICK f \in [Ports -> Nat] : f = held BY HeldTyped
<1>6. PICK s : /\ SumsOf(f, NPorts, s)
               /\ nAvail * SlabSize + s[NPorts] + InFlight + ready * SlabSize = NSlabs * SlabSize
  BY <1>5 DEF CountInv, Total
<1>7. PICK x \in Nat : x = InFlight /\ x <= MaxLost
  <2>1. Size(flight) = 0 BY DEF AtRest, Size, EmptyBag, SetToBag, Of
  <2>2. Len(lost) \in Nat /\ Len(lost) <= MaxLost BY DEF Shape
  <2> QED BY <2>1, <2>2 DEF InFlight
<1>8. s[NPorts] + SlabSize <= NPorts * b
  <2>1. (\A q \in Ports : f[q] <= b) /\ f[p] + SlabSize <= b BY <1>4, <1>5
  <2> QED BY <1>1, <1>6, <2>1, SumBoundsBut
<1>9. PICK m \in Nat, z \in Nat, k \in Nat :
        m = NPorts * SlabSize /\ z = NPorts * b /\ k = NSlabs * SlabSize
  BY <1>1, Distribute
<1>10. k + SlabSize > z + m + MaxLost
  <2>1. (NSlabs + 1) * SlabSize = k + SlabSize BY <1>1, <1>9, Distribute
  <2>2. NPorts * (b + SlabSize) = z + m BY <1>1, <1>9, Distribute
  <2>3. 3 * SlabSize + FillSize + TxSize + CompSize = b + SlabSize BY <1>1, <1>2, <1>3
  <2>4. (NSlabs + 1) * SlabSize
          > NPorts * (3 * SlabSize + FillSize + TxSize + CompSize) + MaxLost
    BY DEF PoolSuffices
  <2>5. k + SlabSize > NPorts * (b + SlabSize) + MaxLost BY <2>1, <2>3, <2>4
  <2> QED BY <2>2, <2>5
<1>11. PICK n \in Nat : n = s[NPorts] BY <1>1, <1>6 DEF SumsOf
<1>12. n + x + m = k
  <2>1. nAvail * SlabSize = 0 BY <1>1
  <2> QED BY <1>6, <1>7, <1>9, <1>11, <2>1
<1>13. n + SlabSize <= z BY <1>8, <1>9, <1>11
<1> QED BY <1>1, <1>7, <1>10, <1>12, <1>13, TooMany

(***************************************************************************)
(* A port that has run out of buffers finds a full slab in the pool when   *)
(* nothing is on its way to the kernel, whatever the other ports hold and  *)
(* although the buffers of the last bursts are never reaped.               *)
(***************************************************************************)
THEOREM PortsDoNotStarve ==
  ASSUME OneFreer
  PROVE  Spec => []NoPortStarves
<1>1. Shape /\ CountInv => NoPortStarves BY EnoughSlabs DEF NoPortStarves
<1> QED BY <1>1, CountInvariant, PTL
-----------------------------------------------------------------------------
(***************************************************************************)
(* That no slab has two uses.                                              *)
(***************************************************************************)

(* The fill queues of all ports hold what makes up for the slab a port     *)
(* beyond the first may be missing in the pool.  It holds where fill_size  *)
(* is the size of a slab.                                                  *)
FillSuffices == NPorts * SlabSize <= NPorts * FillSize + SlabSize

(* The slab port p produces to. *)
Trading(th) == step[th] \in {"first", "switch"}
Prod(p) == IF Trading(<<"rx", p>>) THEN empty[<<"rx", p>>]
           ELSE IF Trading(<<"tx", p>>) THEN empty[<<"tx", p>>] ELSE slabProd[p]

(* Where a slab may be: with a port, or in the pool at a position it may   *)
(* count, be it full now or empty.                                         *)
Spot(k, w) == \/ k \in {"cons", "prod"} /\ w \in 0 .. ready - 1
              \/ k = "full" /\ w \in 0 .. NSlabs - 2 * ready - 1
SlabAt(k, w) == IF k = "cons" THEN slabCons[w]
                ELSE IF k = "prod" THEN Prod(w) ELSE slabs[w]

Apart == \A k, l, w, v : Spot(k, w) /\ Spot(l, v) /\ SlabAt(k, w) = SlabAt(l, v)
                           => k = l /\ w = v

(* The pool never fills the positions of the slabs that ports took at the start. *)
Room == nAvail <= NSlabs - 2 * ready

SlabInv == Room /\ Apart

(* Fewer ports, fewer buffers. *)
LEMMA Monotone == \A m, n, k \in Nat : m <= n => m * k <= n * k
<1> SUFFICES ASSUME NEW m \in Nat, NEW n \in Nat, NEW k \in Nat, m <= n
             PROVE  m * k <= n * k
  OBVIOUS
<1>1. PICK d \in Nat : n = m + d
  <2>1. n - m \in Nat /\ n = m + (n - m) OBVIOUS
  <2> QED BY <2>1
<1>2. (m + d) * k = m * k + d * k OBVIOUS
<1>3. PICK x \in Nat, y \in Nat : x = m * k /\ y = d * k BY Times
<1> QED BY <1>1, <1>2, <1>3

(* What a sum leaves. *)
LEMMA Doubled == \A a, n, k \in Nat : (a + 2 * n) * k = a * k + 2 * (n * k)
OBVIOUS

(* A thread that has filled a slab finds room in the pool. *)
LEMMA TradeRoom ==
  ASSUME Shape, CountInv, OneFreer, FillSuffices, NEW th \in Threads, step[th] = "trade"
  PROVE  nAvail < NSlabs - 2 * ready /\ ready = NPorts
<1>1. SlabSize \in Nat /\ FillSize \in Nat /\ NPorts \in Nat /\ NSlabs \in Nat
  BY PoolAssumption
<1>2. ready = NPorts BY <1>1 DEF CountInv, Starting, Shape
<1>3. PICK p \in Ports : p = PortOf(th) BY ThreadsAre
<1>4. PICK f \in [Ports -> Nat] : f = held BY HeldTyped
<1>5. PICK s : /\ SumsOf(f, NPorts, s)
               /\ nAvail * SlabSize + s[NPorts] + InFlight + ready * SlabSize = NSlabs * SlabSize
  BY <1>4 DEF CountInv, Total
<1>6. PICK d \in Nat : d = SlabSize + 1 BY <1>1
<1>7. ASSUME NEW q \in Ports PROVE f[q] >= FillSize /\ (q = p => f[q] >= FillSize + d)
  <2>1. Len(posted[q]) = FillSize BY <1>1, <1>2 DEF CountInv, Filled, Ports
  <2>5. PICK l \in Nat : l = Len(out[q])
    <3>1. Len(out[q]) \in Nat BY DEF Shape
    <3> QED BY <3>1
  <2>6. Away(q) = FillSize + l BY <2>1, <2>5 DEF Away
  <2>2. PICK a \in Nat, b \in Nat, c \in Nat, x \in Nat, y \in Nat :
          /\ a = nCons[q] /\ b = ProdHeld(q) /\ c = Len(burst[q])
          /\ x = Hand(<<"rx", q>>) /\ y = Hand(<<"tx", q>>)
    BY PartsTyped DEF Parts
  <2>3. f[q] = a + b + (FillSize + l) + c + x + y BY <1>4, <2>2, <2>6, PartsTyped DEF Parts
  <2>4. ASSUME q = p PROVE b = SlabSize /\ x + y = 1
    <3>1. /\ ProdHeld(p) = IF Resetting(th) THEN 0 ELSE nProd[p]
          /\ Hand(<<"rx", p>>) + Hand(<<"tx", p>>) = 1
      BY <1>3, ActivePort DEF CountInv
    <3>2. ~Resetting(th) /\ nProd[p] = SlabSize BY <1>3 DEF CountInv, Locals, Resetting
    <3> QED BY <2>2, <2>4, <3>1, <3>2
  <2> QED BY <1>1, <1>6, <2>3, <2>4
<1>8. s[NPorts] >= NPorts * FillSize + d BY <1>1, <1>5, <1>7, SumBoundsBut
<1>9. PICK m \in Nat, r \in Nat, k \in Nat, v \in Nat, t \in Nat, i \in Nat :
        /\ m = NPorts * SlabSize /\ r = NPorts * FillSize /\ k = NSlabs * SlabSize
        /\ v = nAvail * SlabSize /\ t = s[NPorts] /\ i = InFlight
  <2>1. nAvail \in Nat BY DEF Shape
  <2>2. s[NPorts] \in Nat BY <1>1, <1>5 DEF SumsOf
  <2> QED BY <1>1, <2>1, <2>2, Times, FlightTyped
<1>10. v + t + i + m = k BY <1>2, <1>5, <1>9
<1>11. t >= r + d /\ m <= r + SlabSize BY <1>8, <1>9 DEF FillSuffices
<1>12. ASSUME NSlabs <= nAvail + 2 * NPorts PROVE FALSE
  <2>1. nAvail \in Nat BY DEF Shape
  <2>2. PICK a \in Nat : a = nAvail + 2 * NPorts BY <1>1, <2>1
  <2>3. k <= a * SlabSize BY <1>1, <1>9, <1>12, <2>2, Monotone
  <2>4. a * SlabSize = v + 2 * m BY <1>1, <1>9, <2>1, <2>2, Doubled
  <2> QED BY <1>1, <1>6, <1>10, <1>11, <2>3, <2>4
<1> QED BY <1>1, <1>2, <1>12 DEF Shape

(* Nothing moves. *)
LEMMA ApartSame ==
  ASSUME Apart, \A k, w : Spot(k, w)' => Spot(k, w) /\ SlabAt(k, w)' = SlabAt(k, w)
  PROVE  Apart'
BY DEF Apart

(* Two slabs move, to spots that are new or were vacated: from (l1, v1) to *)
(* (k1, w1) and from (l2, v2) to (k2, w2).                                 *)
Move(k1, w1, l1, v1, k2, w2, l2, v2) ==
  /\ Spot(l1, v1) /\ Spot(l2, v2) /\ ~(l1 = l2 /\ v1 = v2)
  /\ \A k, w : Spot(k, w)' =>
       SlabAt(k, w)' = IF k = k1 /\ w = w1 THEN SlabAt(l1, v1)
                       ELSE IF k = k2 /\ w = w2 THEN SlabAt(l2, v2) ELSE SlabAt(k, w)
  /\ \A k, w : Spot(k, w)' /\ ~(k = k1 /\ w = w1) /\ ~(k = k2 /\ w = w2)
                 => Spot(k, w) /\ ~(k = l1 /\ w = v1) /\ ~(k = l2 /\ w = v2)

(* Slabs that change places stay apart. *)
LEMMA ApartMoved ==
  ASSUME Apart, NEW k1, NEW w1, NEW l1, NEW v1, NEW k2, NEW w2, NEW l2, NEW v2,
         Move(k1, w1, l1, v1, k2, w2, l2, v2)
  PROVE  Apart'
<1> USE DEF Move
<1> SUFFICES ASSUME NEW k, NEW l, NEW w, NEW v, Spot(k, w)', Spot(l, v)',
                    SlabAt(k, w)' = SlabAt(l, v)'
             PROVE  k = l /\ w = v
  BY DEF Apart
<1>1. CASE k = k1 /\ w = w1 BY <1>1 DEF Apart
<1>2. CASE ~(k = k1 /\ w = w1) /\ k = k2 /\ w = w2 BY <1>2 DEF Apart
<1>3. CASE ~(k = k1 /\ w = w1) /\ ~(k = k2 /\ w = w2) BY <1>3 DEF Apart
<1> QED BY <1>1, <1>2, <1>3

(* The slab of a spot depends on little. *)
LEMMA SlabStays ==
  ASSUME UNCHANGED <<slabs, slabCons, slabProd, empty, step, ready>>
  PROVE  \A k, w : Spot(k, w)' => Spot(k, w) /\ SlabAt(k, w)' = SlabAt(k, w)
BY DEF Spot, SlabAt, Prod, Trading

(* The spots of a system that is ready. *)
LEMMA SpotsReady ==
  ASSUME ready = NPorts
  PROVE  /\ \A p \in Ports : Spot("cons", p) /\ Spot("prod", p)
         /\ \A n \in 0 .. NSlabs - 2 * NPorts - 1 : Spot("full", n)
BY DEF Spot, Ports

(* The slabs are apart at the start. *)
LEMMA SlabInit == Init => SlabInv
<1> SUFFICES ASSUME Init PROVE SlabInv OBVIOUS
<1>1. nAvail = NSlabs /\ ready = 0 /\ slabs = [i \in Slabs |-> i] BY DEF Init
<1>2. Room BY <1>1, PoolAssumption DEF Room
<1>3. \A k, w : Spot(k, w) => k = "full" /\ w \in Slabs /\ SlabAt(k, w) = w
  BY <1>1, PoolAssumption DEF Spot, SlabAt, Slabs
<1> QED BY <1>2, <1>3 DEF SlabInv, Apart

(* A port that is initialised takes the last two slabs the pool counts. *)
LEMMA SlabPortInit ==
  ASSUME Shape, CountInv, SlabInv, NEW p \in Ports, PortInit(p)
  PROVE  SlabInv'
<1> USE PoolAssumption
<1>1. /\ UNCHANGED <<slabs, step, empty>>
      /\ nAvail >= 2 /\ nAvail' = nAvail - 2 /\ ready = p /\ ready' = p + 1
      /\ slabCons' = [slabCons EXCEPT ![p] = slabs[nAvail - 1]]
      /\ slabProd' = [slabProd EXCEPT ![p] = slabs[nAvail - 2]]
  BY DEF PortInit, local
<1>2. /\ nAvail = NSlabs - 2 * p /\ p \in Nat /\ p < NPorts
      /\ \A th \in Threads : step[th] = "idle"
  BY <1>1 DEF CountInv, Starting, Ports
<1>3. PICK m \in Nat, n \in Nat : m = nAvail - 1 /\ n = nAvail - 2 BY <1>1, <1>2
<1>4. Room' BY <1>1, <1>2 DEF Room
<1>5. Spot("full", m) /\ Spot("full", n) /\ m # n BY <1>1, <1>2, <1>3 DEF Spot
<1>6. \A q \in Ports : Prod(q) = slabProd[q] /\ Prod(q)' = slabProd'[q]
  BY <1>1, <1>2, ThreadsAre DEF Prod, Trading
<1>7. /\ slabCons'[p] = slabs[m] /\ slabProd'[p] = slabs[n]
      /\ \A q \in Ports : q # p => slabCons'[q] = slabCons[q] /\ slabProd'[q] = slabProd[q]
  BY <1>1, <1>3 DEF Shape
<1>8. ASSUME NEW k, NEW w, Spot(k, w)', ~(k = "cons" /\ w = p), ~(k = "prod" /\ w = p)
      PROVE  Spot(k, w) /\ ~(k = "full" /\ w = m) /\ ~(k = "full" /\ w = n)
  BY <1>1, <1>2, <1>3, <1>8 DEF Spot
<1>9. ASSUME NEW k, NEW w, Spot(k, w)'
      PROVE  SlabAt(k, w)' = IF k = "cons" /\ w = p THEN SlabAt("full", m)
                             ELSE IF k = "prod" /\ w = p THEN SlabAt("full", n)
                             ELSE SlabAt(k, w)
  <2>1. k \in {"cons", "prod"} => w \in Ports BY <1>1, <1>2, <1>9 DEF Spot, Ports
  <2> QED BY <1>1, <1>6, <1>7, <1>9, <2>1 DEF SlabAt, Spot
<1>10. Move("cons", p, "full", m, "prod", p, "full", n) BY <1>5, <1>8, <1>9 DEF Move
<1>11. Apart' BY <1>10, ApartMoved DEF SlabInv
<1> QED BY <1>4, <1>11 DEF SlabInv

(* An emptied slab takes the place of the full one. *)
LEMMA SlabTrade ==
  ASSUME Shape, CountInv, SlabInv, NEW p \in Ports, ConsTrade(p)
  PROVE  SlabInv'
<1> USE PoolAssumption
<1>1. /\ UNCHANGED <<ready, slabProd, step, empty>>
      /\ ready = NPorts /\ nAvail > 0 /\ nAvail' = nAvail - 1
      /\ slabs' = [slabs EXCEPT ![nAvail - 1] = slabCons[p]]
      /\ slabCons' = [slabCons EXCEPT ![p] = slabs[nAvail - 1]]
  BY DEF ConsTrade, MayReceive, prod, local
<1>2. PICK n \in Nat : n = nAvail - 1 /\ n \in Slabs /\ n <= NSlabs - 2 * ready - 1
  BY <1>1 DEF SlabInv, Room, Shape, Slabs
<1>3. Room' BY <1>1 DEF SlabInv, Room, Shape
<1>4. Spot("cons", p) /\ Spot("full", n) BY <1>1, <1>2 DEF Spot, Ports
<1>5. /\ slabs'[n] = slabCons[p] /\ slabCons'[p] = slabs[n]
      /\ \A i \in Slabs : i # n => slabs'[i] = slabs[i]
      /\ \A q \in Ports : q # p => slabCons'[q] = slabCons[q]
  BY <1>1, <1>2 DEF Shape
<1>6. \A q : Prod(q)' = Prod(q) BY <1>1 DEF Prod, Trading
<1>7. \A k, w : Spot(k, w)' => Spot(k, w) BY <1>1 DEF Spot
<1>8. ASSUME NEW k, NEW w, Spot(k, w)'
      PROVE  SlabAt(k, w)' = IF k = "cons" /\ w = p THEN SlabAt("full", n)
                             ELSE IF k = "full" /\ w = n THEN SlabAt("cons", p)
                             ELSE SlabAt(k, w)
  <2>1. k = "cons" => w \in Ports BY <1>1, <1>8 DEF Spot, Ports
  <2>2. k \notin {"cons", "prod"} => k = "full" /\ w \in Slabs BY <1>1, <1>8 DEF Spot, Slabs
  <2> QED BY <1>5, <1>6, <2>1, <2>2 DEF SlabAt
<1>9. "cons" # "full" OBVIOUS
<1>10. Move("cons", p, "full", n, "full", n, "cons", p) BY <1>4, <1>7, <1>8, <1>9 DEF Move
<1>11. Apart' BY <1>10, ApartMoved DEF SlabInv
<1> QED BY <1>3, <1>11 DEF SlabInv

(* While a thread is in bcache_prod it decides what its port produces to. *)
LEMMA ActiveProd ==
  ASSUME OneFreer, Roles, NEW th \in Threads, step[th] # "idle",
         NEW p \in Ports, p = PortOf(th)
  PROVE  Prod(p) = IF Trading(th) THEN empty[th] ELSE slabProd[p]
<1>1. \A u \in Threads : u # th /\ PortOf(u) = p => step[u] = "idle" BY OneActive
<1>2. CASE th = <<"rx", p>>
  <2>1. step[<<"tx", p>>] = "idle" BY <1>1, <1>2, ThreadsAre
  <2> QED BY <1>2, <2>1 DEF Prod, Trading
<1>3. CASE th = <<"tx", p>>
  <2>1. step[<<"rx", p>>] = "idle" BY <1>1, <1>3, ThreadsAre
  <2> QED BY <1>3, <2>1 DEF Prod, Trading
<1> QED BY <1>2, <1>3, ThreadsAre

(* The same when that thread has gone on to l; no other port is concerned. *)
LEMMA ActiveProdNext ==
  ASSUME Shape, OneFreer, Roles, NEW th \in Threads, step[th] # "idle",
         NEW p \in Ports, p = PortOf(th), NEW l, step' = [step EXCEPT ![th] = l],
         \A u \in Threads : u # th => empty'[u] = empty[u],
         \A q \in Ports : q # p => slabProd'[q] = slabProd[q]
  PROVE  /\ Prod(p)' = IF l \in {"first", "switch"} THEN empty'[th] ELSE slabProd'[p]
         /\ \A q \in Ports : q # p => Prod(q)' = Prod(q)
<1>1. step'[th] = l /\ \A u \in Threads : u # th => step'[u] = step[u] BY DEF Shape
<1>2. \A u \in Threads : u # th /\ PortOf(u) = p => step[u] = "idle" BY OneActive
<1>3. ASSUME NEW q \in Ports, q # p PROVE Prod(q)' = Prod(q)
  <2>1. /\ <<"rx", q>> \in Threads /\ <<"tx", q>> \in Threads
        /\ <<"rx", q>> # th /\ <<"tx", q>> # th
    BY <1>3, ThreadsAre
  <2> QED BY <1>1, <1>3, <2>1 DEF Prod, Trading
<1>4. CASE th = <<"rx", p>>
  <2>1. step'[<<"tx", p>>] = "idle" BY <1>1, <1>2, <1>4, ThreadsAre
  <2> QED BY <1>1, <1>3, <1>4, <2>1 DEF Prod, Trading
<1>5. CASE th = <<"tx", p>>
  <2>1. step'[<<"rx", p>>] = "idle" BY <1>1, <1>2, <1>5, ThreadsAre
  <2> QED BY <1>1, <1>3, <1>5, <2>1 DEF Prod, Trading
<1> QED BY <1>4, <1>5, ThreadsAre

(* A step of bcache_prod that moves no slab. *)
LEMMA SlabThreadStays ==
  ASSUME SlabInv, ready = NPorts, UNCHANGED <<nAvail, slabs, slabCons, ready>>,
         \A q \in Ports : Prod(q)' = Prod(q)
  PROVE  SlabInv'
<1>1. \A k, w : Spot(k, w)' => Spot(k, w) BY DEF Spot
<1>2. ASSUME NEW k, NEW w, Spot(k, w)' PROVE SlabAt(k, w)' = SlabAt(k, w)
  <2>1. k = "prod" => w \in Ports BY <1>2 DEF Spot, Ports
  <2> QED BY <2>1 DEF SlabAt
<1>3. Apart' BY <1>1, <1>2, ApartSame DEF SlabInv
<1> QED BY <1>3 DEF SlabInv, Room

(* The steps of bcache_prod: a trade swaps two slabs, the rest moves none. *)
LEMMA SlabThread ==
  ASSUME Shape, CountInv, OneFreer, FillSuffices, SlabInv, NEW th \in Threads, ProdStep(th)
  PROVE  SlabInv'
<1> DEFINE p == PortOf(th)
<1>1. p \in Ports BY ThreadsAre
<1>2. step[th] # "idle" /\ Roles
  BY DEF CountInv, ProdStep, ProdCheck, ProdStore, ProdCount, ProdTrade, ProdFirst,
         ProdSwitch, ProdReset
<1>3. ready = NPorts BY <1>2, PoolAssumption DEF CountInv, Starting, Shape
<1>4. Prod(p) = IF Trading(th) THEN empty[th] ELSE slabProd[p] BY <1>1, <1>2, ActiveProd
<1>5. CASE ProdTrade(th)
  <2>1. /\ step[th] = "trade" /\ step' = [step EXCEPT ![th] = "first"]
        /\ UNCHANGED <<slabCons, slabProd, ready>>
        /\ slabs' = [slabs EXCEPT ![nAvail] = slabProd[p]] /\ nAvail' = nAvail + 1
        /\ empty' = [empty EXCEPT ![th] = slabs[nAvail]]
    BY <1>5 DEF ProdTrade, cons, prod, Goto
  <2>2. nAvail < NSlabs - 2 * ready BY <2>1, TradeRoom
  <2>3. PICK n \in Nat : n = nAvail /\ n \in Slabs /\ n <= NSlabs - 2 * ready - 1
    BY <1>3, <2>2, PoolAssumption DEF Shape, Slabs
  <2>4. Room' BY <1>3, <2>1, <2>2, PoolAssumption DEF Room, Shape
  <2>5. Spot("prod", p) /\ Spot("full", n)
    BY <1>1, <1>3, <2>3, PoolAssumption DEF Spot, Ports
  <2>6. \A u \in Threads : u # th => empty'[u] = empty[u] BY <2>1 DEF Shape
  <2>7. Prod(p)' = empty'[th] /\ \A q \in Ports : q # p => Prod(q)' = Prod(q)
    BY <1>1, <1>2, <2>1, <2>6, ActiveProdNext
  <2>8. /\ Prod(p) = slabProd[p] /\ empty'[th] = slabs[n] /\ slabs'[n] = slabProd[p]
        /\ \A i \in Slabs : i # n => slabs'[i] = slabs[i]
    BY <1>4, <2>1, <2>3 DEF Trading, Shape
  <2>9. \A k, w : Spot(k, w)' => Spot(k, w) BY <2>1 DEF Spot
  <2>10. ASSUME NEW k, NEW w, Spot(k, w)'
         PROVE  SlabAt(k, w)' = IF k = "prod" /\ w = p THEN SlabAt("full", n)
                                ELSE IF k = "full" /\ w = n THEN SlabAt("prod", p)
                                ELSE SlabAt(k, w)
    <3>1. k \in {"cons", "prod"} => w \in Ports
      BY <1>3, <2>1, <2>10, PoolAssumption DEF Spot, Ports
    <3>2. k \notin {"cons", "prod"} => k = "full" /\ w \in Slabs
      BY <1>3, <2>1, <2>10, PoolAssumption DEF Spot, Slabs
    <3> HIDE DEF p
    <3> QED BY <2>1, <2>7, <2>8, <3>1, <3>2 DEF SlabAt
  <2>11. "prod" # "full" OBVIOUS
  <2>12. Move("prod", p, "full", n, "full", n, "prod", p)
    <3> HIDE DEF p
    <3> QED BY <2>5, <2>9, <2>10, <2>11 DEF Move
  <2>13. PICK q : q = p OBVIOUS
  <2>14. Apart' BY <2>12, <2>13, ApartMoved DEF SlabInv
  <2> QED BY <2>4, <2>14 DEF SlabInv
<1>6. ASSUME NEW l, step' = [step EXCEPT ![th] = l],
             UNCHANGED <<nAvail, slabs, slabCons, ready>>,
             \A u \in Threads : u # th => empty'[u] = empty[u],
             \A q \in Ports : q # p => slabProd'[q] = slabProd[q],
             (IF l \in {"first", "switch"} THEN empty'[th] ELSE slabProd'[p])
               = IF Trading(th) THEN empty[th] ELSE slabProd[p]
      PROVE  SlabInv'
  <2>1. /\ Prod(p)' = IF l \in {"first", "switch"} THEN empty'[th] ELSE slabProd'[p]
        /\ \A q \in Ports : q # p => Prod(q)' = Prod(q)
    BY <1>1, <1>2, <1>6, ActiveProdNext
  <2> QED BY <1>3, <1>4, <1>6, <2>1, SlabThreadStays
<1>7. CASE ProdCheck(th)
  <2>1. PICK l : l \in {"store", "trade"} /\ step' = [step EXCEPT ![th] = l]
    BY <1>7 DEF ProdCheck, Goto
  <2>2. UNCHANGED <<nAvail, slabs, slabCons, ready, empty, slabProd>> /\ step[th] = "check"
    BY <1>7 DEF ProdCheck, pool, cons, prod
  <2> QED BY <1>6, <2>1, <2>2 DEF Trading
<1>8. CASE ProdStore(th)
  <2>1. /\ step' = [step EXCEPT ![th] = "count"] /\ step[th] = "store"
        /\ UNCHANGED <<nAvail, slabs, slabCons, ready, empty, slabProd>>
    BY <1>8 DEF ProdStore, pool, cons, prod, local, Goto
  <2> QED BY <1>6, <2>1 DEF Trading
<1>9. CASE ProdCount(th)
  <2>1. /\ step' = [step EXCEPT ![th] = "idle"] /\ step[th] = "count"
        /\ UNCHANGED <<nAvail, slabs, slabCons, ready, slabProd>>
        /\ empty' = [empty EXCEPT ![th] = 0]
    BY <1>9 DEF ProdCount, pool, cons, Goto, Return
  <2>2. \A u \in Threads : u # th => empty'[u] = empty[u] BY <2>1 DEF Shape
  <2> QED BY <1>6, <2>1, <2>2 DEF Trading
<1>10. CASE ProdFirst(th)
  <2>1. /\ step' = [step EXCEPT ![th] = "switch"] /\ step[th] = "first"
        /\ UNCHANGED <<nAvail, slabs, slabCons, ready, empty, slabProd>>
    BY <1>10 DEF ProdFirst, pool, cons, prod, local, Goto
  <2> QED BY <1>6, <2>1 DEF Trading
<1>11. CASE ProdSwitch(th)
  <2>1. /\ step' = [step EXCEPT ![th] = "reset"] /\ step[th] = "switch"
        /\ UNCHANGED <<nAvail, slabs, slabCons, ready, empty>>
        /\ slabProd' = [slabProd EXCEPT ![p] = empty[th]]
    BY <1>11 DEF ProdSwitch, pool, cons, local, Goto
  <2>2. slabProd'[p] = empty[th] /\ \A q \in Ports : q # p => slabProd'[q] = slabProd[q]
    BY <1>1, <2>1 DEF Shape
  <2> QED BY <1>6, <2>1, <2>2 DEF Trading
<1>12. CASE ProdReset(th)
  <2>1. /\ step' = [step EXCEPT ![th] = "idle"] /\ step[th] = "reset"
        /\ UNCHANGED <<nAvail, slabs, slabCons, ready, slabProd>>
        /\ empty' = [empty EXCEPT ![th] = 0]
    BY <1>12 DEF ProdReset, pool, cons, Goto, Return
  <2>2. \A u \in Threads : u # th => empty'[u] = empty[u] BY <2>1 DEF Shape
  <2> QED BY <1>6, <2>1, <2>2 DEF Trading
<1> QED BY <1>5, <1>7, <1>8, <1>9, <1>10, <1>11, <1>12 DEF ProdStep

(* A step of a port that moves no slab. *)
LEMMA SlabPortStays ==
  ASSUME Shape, CountInv, SlabInv, NEW p \in Ports, Receive(p) \/ Enqueue(p) \/ Drop(p)
                                                  \/ Lose(p) \/ SendStep(p)
  PROVE  SlabInv'
<1>1. UNCHANGED <<nAvail, slabs, slabCons, slabProd, ready, empty>>
  <2>1. CASE Receive(p) \/ Enqueue(p) \/ Drop(p) \/ Lose(p)
    BY <2>1 DEF Receive, Enqueue, Drop, Lose, pool, cons, prod, local
  <2>2. CASE SendStep(p)
    BY <2>2 DEF SendStep, Pull, Peek, Reap, Release, Submit, KernelTake, KernelComplete,
                pool, cons, prod, local
  <2> QED BY <2>1, <2>2
<1>2. ASSUME NEW th \in Threads
      PROVE  step'[th] = step[th] \/ (step[th] = "idle" /\ step'[th] = "check")
  <2>1. CASE Receive(p) \/ Enqueue(p) \/ Lose(p) BY <2>1 DEF Receive, Enqueue, Lose
  <2>2. CASE Drop(p)
    <3>1. step[<<"rx", p>>] = "idle" /\ step' = [step EXCEPT ![<<"rx", p>>] = "check"]
      BY <2>2 DEF Drop
    <3> QED BY <3>1 DEF Shape
  <2>3. CASE Reap(p)
    <3>1. step[<<"tx", p>>] = "idle" /\ step' = [step EXCEPT ![<<"tx", p>>] = "check"]
      BY <2>3 DEF Reap, MaySend
    <3> QED BY <3>1 DEF Shape
  <2>4. CASE Pull(p) \/ Peek(p) \/ Release(p) \/ Submit(p) \/ KernelTake(p) \/ KernelComplete(p)
    BY <2>4 DEF Pull, Peek, Release, Submit, KernelTake, KernelComplete
  <2> QED BY <2>1, <2>2, <2>3, <2>4 DEF SendStep
<1>3. ASSUME NEW q \in Ports PROVE Prod(q)' = Prod(q)
  <2>1. <<"rx", q>> \in Threads /\ <<"tx", q>> \in Threads BY ThreadsAre
  <2> QED BY <1>1, <1>2, <2>1 DEF Prod, Trading
<1>4. ASSUME NEW k, NEW w, Spot(k, w)' PROVE Spot(k, w) /\ SlabAt(k, w)' = SlabAt(k, w)
  <2>1. k = "prod" => w \in Ports BY <1>1, <1>4, PoolAssumption DEF Spot, Ports, Shape
  <2>2. Spot(k, w) BY <1>1, <1>4 DEF Spot
  <2> QED BY <1>1, <1>3, <2>1, <2>2 DEF SlabAt
<1>5. Apart' BY <1>4, ApartSame DEF SlabInv
<1> QED BY <1>1, <1>5 DEF SlabInv, Room

(* No slab gets two uses, and the pool keeps its room. *)
LEMMA SlabStep ==
  FillSuffices /\ OneFreer /\ Shape /\ CountInv /\ SlabInv /\ [Next]_vars => SlabInv'
<1> SUFFICES ASSUME FillSuffices, OneFreer, Shape, CountInv, SlabInv, [Next]_vars
             PROVE  SlabInv'
  OBVIOUS
<1>1. ASSUME UNCHANGED vars PROVE SlabInv'
  <2>1. UNCHANGED <<slabs, nAvail, slabCons, slabProd, empty, step, ready>>
    BY <1>1 DEF vars, pool, cons, prod, local
  <2>2. Apart' BY <2>1, SlabStays, ApartSame DEF SlabInv
  <2> QED BY <2>1, <2>2 DEF SlabInv, Room
<1> QED BY <1>1, SlabPortInit, SlabTrade, SlabPortStays, SlabThread DEF Next, SendStep

(* The slabs stay apart, and the pool keeps within its room. *)
LEMMA SlabInvariant ==
  ASSUME OneFreer, FillSuffices
  PROVE  Spec => [](Shape /\ CountInv /\ SlabInv)
<1>1. Init => Shape /\ CountInv /\ SlabInv BY ShapeInit, CountInit, SlabInit
<1>2. Shape /\ CountInv /\ SlabInv /\ [Next]_vars => (Shape /\ CountInv /\ SlabInv)'
  BY ShapeStep, CountStep, SlabStep
<1> QED BY <1>1, <1>2, PTL DEF Spec

(* At most one thread of a port is between the trade and the switch. *)
LEMMA ProdSlabIs ==
  ASSUME OneFreer, Roles, NEW p \in Ports
  PROVE  ProdSlab(p) = Prod(p)
<1>1. CASE Switching(p) = {}
  <2>1. ~Trading(<<"rx", p>>) /\ ~Trading(<<"tx", p>>)
    BY <1>1, ThreadsAre DEF Switching, Trading
  <2> QED BY <1>1, <2>1 DEF ProdSlab, Prod
<1>2. CASE Switching(p) # {}
  <2>1. PICK th : th = CHOOSE u \in Switching(p) : TRUE OBVIOUS
  <2>2. th \in Switching(p) BY <1>2, <2>1
  <2>3. th \in Threads /\ PortOf(th) = p /\ step[th] \in {"first", "switch"}
    BY <2>2 DEF Switching
  <2>4. Prod(p) = empty[th] BY <2>3, ActiveProd DEF Trading
  <2> QED BY <1>2, <2>1, <2>4 DEF ProdSlab
<1> QED BY <1>1, <1>2

(* The uses of the slabs are spots. *)
LEMMA UsesAreSpots ==
  ASSUME Shape, Roles, Room, OneFreer, NEW u \in Uses
  PROVE  Spot(u[1], u[2]) /\ SlabOf(u) = SlabAt(u[1], u[2]) /\ u = <<u[1], u[2]>>
<1> USE PoolAssumption
<1>1. u = <<u[1], u[2]>> BY DEF Uses
<1>2. CASE u \in {"cons", "prod"} \X (0 .. ready - 1)
  <2>1. u[1] \in {"cons", "prod"} /\ u[2] \in 0 .. ready - 1 BY <1>2
  <2>2. u[2] \in Ports BY <2>1 DEF Ports, Shape
  <2>3. ProdSlab(u[2]) = Prod(u[2]) BY <2>2, ProdSlabIs
  <2> QED BY <1>1, <2>1, <2>3 DEF Spot, SlabOf, SlabAt
<1>3. CASE u \in {"full"} \X (0 .. nAvail - 1)
  <2>1. u[1] = "full" /\ u[2] \in 0 .. nAvail - 1 BY <1>3
  <2>2. u[2] \in 0 .. NSlabs - 2 * ready - 1 BY <2>1 DEF Room, Shape
  <2> QED BY <1>1, <2>1, <2>2 DEF Spot, SlabOf, SlabAt
<1> QED BY <1>2, <1>3 DEF Uses

(* An injective function has as many values as arguments. *)
LEMMA AsManyValues ==
  ASSUME NEW S, IsFiniteSet(S), NEW f, f = [x \in S |-> f[x]],
         \A x, y \in S : f[x] = f[y] => x = y
  PROVE  Cardinality({f[x] : x \in S}) = Cardinality(S)
<1> DEFINE T == {f[x] : x \in S}
<1>1. f \in [S -> T] BY Zenon
<1>2. f \in Surjection(S, T) BY <1>1 DEF Surjection
<1>3. f \in Injection(S, T) BY <1>1 DEF Injection, IsInjective
<1> HIDE DEF T
<1>4. Cardinality(T) = Cardinality(S) BY <1>2, <1>3, FS_Surjection
<1> QED BY <1>4 DEF T

(* There are finitely many uses. *)
LEMMA UsesFinite == Shape => IsFiniteSet(Uses)
<1> SUFFICES ASSUME Shape PROVE IsFiniteSet(Uses) OBVIOUS
<1>1. ready - 1 \in Int /\ nAvail - 1 \in Int /\ 0 \in Int BY PoolAssumption DEF Shape
<1>2. IsFiniteSet(0 .. ready - 1) /\ IsFiniteSet(0 .. nAvail - 1) BY <1>1, FS_Interval
<1>3. IsFiniteSet({"cons", "prod"}) /\ IsFiniteSet({"full"})
  <2>1. IsFiniteSet({"cons"} \cup {"prod"}) /\ IsFiniteSet({"full"})
    BY FS_Singleton, FS_Union
  <2>2. {"cons"} \cup {"prod"} = {"cons", "prod"} OBVIOUS
  <2> QED BY <2>1, <2>2
<1>4. /\ IsFiniteSet({"cons", "prod"} \X (0 .. ready - 1))
      /\ IsFiniteSet({"full"} \X (0 .. nAvail - 1))
  BY <1>2, <1>3, FS_Product
<1> QED BY <1>4, FS_Union DEF Uses

(***************************************************************************)
(* No slab is with two ports, or with a port and among the full ones of    *)
(* the pool, whatever trades have gone on.                                 *)
(***************************************************************************)
THEOREM SlabsStayApart ==
  ASSUME OneFreer, FillSuffices
  PROVE  Spec => []SlabsApart
<1>1. ASSUME Shape, CountInv, SlabInv PROVE SlabsApart
  <2>1. Roles /\ Room /\ Apart BY <1>1 DEF CountInv, SlabInv
  <2>2. PICK f : f = [u \in Uses |-> SlabOf(u)] OBVIOUS
  <2>3. f = [u \in Uses |-> f[u]] BY <2>2
  <2>4. ASSUME NEW u \in Uses, NEW v \in Uses, f[u] = f[v] PROVE u = v
    <3>1. SlabOf(u) = SlabOf(v) BY <2>2, <2>4
    <3>2. /\ Spot(u[1], u[2]) /\ SlabOf(u) = SlabAt(u[1], u[2]) /\ u = <<u[1], u[2]>>
          /\ Spot(v[1], v[2]) /\ SlabOf(v) = SlabAt(v[1], v[2]) /\ v = <<v[1], v[2]>>
      BY <1>1, <2>1, UsesAreSpots
    <3>3. u[1] = v[1] /\ u[2] = v[2] BY <2>1, <3>1, <3>2 DEF Apart
    <3> QED BY <3>2, <3>3
  <2>5. IsFiniteSet(Uses) BY <1>1, UsesFinite
  <2>6. Cardinality({f[u] : u \in Uses}) = Cardinality(Uses) BY <2>3, <2>4, <2>5, AsManyValues
  <2>7. {f[u] : u \in Uses} = {SlabOf(u) : u \in Uses} BY <2>2
  <2> QED BY <2>6, <2>7 DEF SlabsApart
<1> QED BY <1>1, SlabInvariant, PTL

(***************************************************************************)
(* What the comment of mempool.h:176 promises: a thread with a full        *)
(* producer slab finds an empty slab in the pool, one that nobody uses.    *)
(***************************************************************************)
THEOREM EmptySlabWaits ==
  ASSUME OneFreer, FillSuffices
  PROVE  Spec => []EmptySlabGuaranteed
<1>1. ASSUME Shape, CountInv, SlabInv PROVE EmptySlabGuaranteed
  <2> SUFFICES ASSUME NEW th \in Threads, step[th] = "trade"
               PROVE  nAvail < NSlabs /\ \A u \in Uses : SlabOf(u) # slabs[nAvail]
    BY DEF EmptySlabGuaranteed
  <2>1. Roles /\ Room /\ Apart BY <1>1 DEF CountInv, SlabInv
  <2>2. nAvail < NSlabs - 2 * ready /\ ready = NPorts BY <1>1, TradeRoom
  <2>3. PICK n \in Nat : n = nAvail /\ n <= NSlabs - 2 * ready - 1 /\ n < NSlabs
    BY <1>1, <2>2, PoolAssumption DEF Shape
  <2>4. Spot("full", n) /\ SlabAt("full", n) = slabs[n] BY <2>3 DEF Spot, SlabAt
  <2>5. ASSUME NEW u \in Uses, SlabOf(u) = slabs[n] PROVE FALSE
    <3>1. Spot(u[1], u[2]) /\ SlabOf(u) = SlabAt(u[1], u[2]) /\ u = <<u[1], u[2]>>
      BY <1>1, <2>1, UsesAreSpots
    <3>2. u[1] = "full" /\ u[2] = n BY <2>1, <2>4, <2>5, <3>1 DEF Apart
    <3>3. u \in {"full"} \X (0 .. nAvail - 1) BY <3>2 DEF Uses
    <3> QED BY <2>3, <3>2, <3>3
  <2> QED BY <2>3, <2>5
<1> QED BY <1>1, SlabInvariant, PTL
-----------------------------------------------------------------------------
(***************************************************************************)
(* Where each buffer is.                                                   *)
(***************************************************************************)

(* The lists of addresses: the two slabs, the fill and receive queues,     *)
(* what is sent and the two hands of a port, the full slabs of the pool,   *)
(* what was lost, and what is in flight, by address.                       *)
IsList(k, w) == \/ k \in {"cons", "prod", "posted", "burst", "out", "rx", "tx"} /\ w \in Ports
                \/ k = "full" /\ w \in Slabs
                \/ k = "lost" /\ w = 0
                \/ k \in Entry /\ w = 0

HowMany(k, w) ==
  IF k = "cons" THEN nCons[w]
  ELSE IF k = "prod" THEN ProdHeld(w)
  ELSE IF k = "full" THEN (IF w < nAvail THEN SlabSize ELSE 0)
  ELSE IF k = "posted" THEN Len(posted[w])
  ELSE IF k = "burst" THEN Len(burst[w])
  ELSE IF k = "out" THEN Len(out[w])
  ELSE IF k = "lost" THEN Len(lost)
  ELSE IF k \in {"rx", "tx"} THEN Hand(<<k, w>>)
  ELSE Of(k, flight)

(* The queues are counted from their ends, so that what leaves a list is   *)
(* always at its end.                                                      *)
Addr(k, w, i) ==
  IF k \in {"cons", "prod", "full"} THEN content[SlabAt(k, w)][i]
  ELSE IF k = "posted" THEN posted[w][Len(posted[w]) - i]
  ELSE IF k = "burst" THEN burst[w][Len(burst[w]) - i]
  ELSE IF k = "out" THEN out[w][Len(out[w]) - i]
  ELSE IF k = "lost" THEN lost[i + 1]
  ELSE IF k \in {"rx", "tx"} THEN freed[<<k, w>>]
  ELSE k

IsPlace(k, w, i) == IsList(k, w) /\ i \in 0 .. HowMany(k, w) - 1

(* The watched buffer is at place i of list (k, w). *)
Has(k, w, i) == IsPlace(k, w, i) /\ Addr(k, w, i) = "watched"

(* Every list holds addresses. *)
Live == \A k, w, i : IsPlace(k, w, i) => Addr(k, w, i) \in Address

(* The watched buffer is nowhere, or at one place only. *)
Nowhere == \A k, w, i : ~Has(k, w, i)
Only(k, w, i) == \A l, v, j : Has(l, v, j) <=> (l = k /\ v = w /\ j = i)
Somewhere == \E k, w, i : Only(k, w, i)

(* The watched buffer was in a slab that a port took for empty. *)
Gone == \E p \in 0 .. ready - 1 : \E i \in Slots :
          watched = (NSlabs - 2 * (p + 1)) * SlabSize + i

(* What a thread has stored in its slab but not counted yet. *)
Stored ==
  \A th \in Threads :
    /\ step[th] = "count" => content[Prod(PortOf(th))][count[th]] = freed[th]
    /\ step[th] \in {"switch", "reset"} => content[Prod(PortOf(th))][0] = freed[th]

(* Until all ports are initialised, the rest of the pool is as it was. *)
Fresh ==
  ready < NPorts =>
    \A s \in Slabs : s < nAvail =>
      /\ slabs[s] = s
      /\ \A i \in Slots : content[s][i] = IF s * SlabSize + i = watched
                                          THEN "watched" ELSE "other"

PlaceInv == Live /\ Stored /\ Fresh /\ (IF Gone THEN Nowhere ELSE Somewhere)

(* What a step does to the places when no buffer appears or disappears. *)
Kept == Live' /\ (Nowhere => Nowhere') /\ (Somewhere => Somewhere')

(* The lists have lengths. *)
LEMMA HowManyTyped == Shape => \A k, w : IsList(k, w) => HowMany(k, w) \in Nat
<1> SUFFICES ASSUME Shape, NEW k, NEW w, IsList(k, w) PROVE HowMany(k, w) \in Nat
  OBVIOUS
<1>1. CASE k \in {"cons", "prod", "rx", "tx"} /\ w \in Ports
  BY <1>1, PartsTyped DEF Parts, HowMany
<1>4. CASE k \in {"posted", "burst", "out"} /\ w \in Ports BY <1>4 DEF HowMany, Shape
<1>5. CASE k = "lost" /\ w = 0 BY <1>5 DEF HowMany, Shape
<1>2. CASE k = "full" /\ w \in Slabs BY <1>2, PoolAssumption DEF HowMany
<1>3. CASE k \in Entry /\ w = 0
  <2>1. \A b : Of(b, flight) \in Nat BY DEF Shape, IsABag, Of
  <2> QED BY <1>3, <2>1 DEF HowMany, Entry, Address, Stale
<1> QED BY <1>1, <1>2, <1>3, <1>4, <1>5 DEF IsList

(* The same after a step. *)
LEMMA HowManyTypedNext == Shape' => \A k, w : IsList(k, w) => (HowMany(k, w) \in Nat)'
<1>1. (\A k, w : IsList(k, w) => HowMany(k, w) \in Nat)' <=>
        \A k, w : IsList(k, w) => (HowMany(k, w) \in Nat)'
  BY DEF IsList
<1> QED BY <1>1, HowManyTyped, PTL

(* A list that a step leaves alone. *)
Stays(k, w) == /\ HowMany(k, w)' = HowMany(k, w)
               /\ \A i \in 0 .. HowMany(k, w) - 1 : Addr(k, w, i)' = Addr(k, w, i)

(* When all lists stay, so does every buffer. *)
LEMMA AllStay ==
  ASSUME Live, \A k, w : IsList(k, w) => Stays(k, w)
  PROVE  Kept
<1>1. ASSUME NEW k, NEW w, NEW i
      PROVE  /\ IsPlace(k, w, i)' <=> IsPlace(k, w, i)
             /\ IsPlace(k, w, i) => Addr(k, w, i)' = Addr(k, w, i)
  <2>1. IsList(k, w)' <=> IsList(k, w) BY DEF IsList
  <2>2. IsList(k, w) => Stays(k, w) OBVIOUS
  <2> QED BY <2>1, <2>2 DEF IsPlace, Stays
<1>2. Live' BY <1>1 DEF Live
<1>3. ASSUME NEW k, NEW w, NEW i PROVE Has(k, w, i)' <=> Has(k, w, i) BY <1>1 DEF Has
<1>4. Nowhere => Nowhere' BY <1>3 DEF Nowhere
<1>5. ASSUME Somewhere PROVE Somewhere'
  <2>1. PICK k, w, i : Only(k, w, i) BY <1>5 DEF Somewhere
  <2>2. Only(k, w, i)' BY <1>3, <2>1 DEF Only
  <2> QED BY <2>2 DEF Somewhere
<1> QED BY <1>2, <1>4, <1>5 DEF Kept

(* The last address of list (k2, w2) goes to the end of list (k1, w1). *)
Push(k1, w1, k2, w2) ==
  /\ IsList(k1, w1) /\ IsList(k2, w2) /\ ~(k1 = k2 /\ w1 = w2)
  /\ HowMany(k1, w1) \in Nat /\ HowMany(k2, w2) \in Nat \ {0}
  /\ \A k, w : IsList(k, w) =>
       /\ k = k1 /\ w = w1 => HowMany(k, w)' = HowMany(k1, w1) + 1
       /\ k = k2 /\ w = w2 => HowMany(k, w)' = HowMany(k2, w2) - 1
       /\ ~(k = k1 /\ w = w1) /\ ~(k = k2 /\ w = w2) => HowMany(k, w)' = HowMany(k, w)
       /\ \A i \in 0 .. HowMany(k, w) :
            IF k = k1 /\ w = w1 /\ i = HowMany(k1, w1)
            THEN Addr(k, w, i)' = Addr(k2, w2, HowMany(k2, w2) - 1)
            ELSE i \in 0 .. HowMany(k, w)' - 1 => Addr(k, w, i)' = Addr(k, w, i)

(* Such a step moves one buffer and keeps all others. *)
LEMMA PushKeeps ==
  ASSUME Shape, Live, NEW k1, NEW w1, NEW k2, NEW w2, Push(k1, w1, k2, w2)
  PROVE  Kept
<1>0. PICK m \in Nat, n \in Nat : m = HowMany(k1, w1) /\ n = HowMany(k2, w2) - 1
  BY DEF Push
<1>1. IsPlace(k2, w2, n) /\ ~IsPlace(k1, w1, m)
  BY <1>0 DEF Push, IsPlace
<1>2. ASSUME NEW k, NEW w, NEW i
      PROVE  /\ IsPlace(k, w, i)' <=> \/ IsPlace(k, w, i) /\ ~(k = k2 /\ w = w2 /\ i = n)
                                      \/ k = k1 /\ w = w1 /\ i = m
             /\ IsPlace(k, w, i)' => Addr(k, w, i)' = IF k = k1 /\ w = w1 /\ i = m
                                                      THEN Addr(k2, w2, n) ELSE Addr(k, w, i)
  <2>1. IsList(k, w)' <=> IsList(k, w) BY DEF IsList
  <2>2. CASE ~IsList(k, w) BY <2>1, <2>2 DEF IsPlace, Push
  <2>3. CASE IsList(k, w) /\ k = k1 /\ w = w1
    <3>1. HowMany(k, w)' = m + 1 /\ HowMany(k, w) = m BY <1>0, <2>3 DEF Push
    <3>2. ~(k = k2 /\ w = w2) BY <2>3 DEF Push
    <3>3. \A j \in 0 .. m : IF j = m THEN Addr(k, w, j)' = Addr(k2, w2, n)
                            ELSE j \in 0 .. HowMany(k, w)' - 1 => Addr(k, w, j)' = Addr(k, w, j)
      BY <1>0, <2>3 DEF Push
    <3> QED BY <2>1, <2>3, <3>1, <3>2, <3>3 DEF IsPlace
  <2>4. CASE IsList(k, w) /\ k = k2 /\ w = w2
    <3>1. HowMany(k, w)' = n /\ HowMany(k, w) = n + 1 BY <1>0, <2>4 DEF Push
    <3>2. ~(k = k1 /\ w = w1) BY <2>4 DEF Push
    <3>3. \A j \in 0 .. n + 1 : j \in 0 .. HowMany(k, w)' - 1 => Addr(k, w, j)' = Addr(k, w, j)
      BY <2>4, <3>1, <3>2 DEF Push
    <3> QED BY <2>1, <2>4, <3>1, <3>2, <3>3 DEF IsPlace
  <2>5. CASE IsList(k, w) /\ ~(k = k1 /\ w = w1) /\ ~(k = k2 /\ w = w2)
    <3>1. HowMany(k, w)' = HowMany(k, w) BY <2>5 DEF Push
    <3>2. \A j \in 0 .. HowMany(k, w) : j \in 0 .. HowMany(k, w)' - 1 => Addr(k, w, j)' = Addr(k, w, j)
      BY <2>5 DEF Push
    <3>3. \A j \in 0 .. HowMany(k, w) - 1 : j \in 0 .. HowMany(k, w)
      BY <2>5, HowManyTyped
    <3> QED BY <2>1, <2>5, <3>1, <3>2, <3>3 DEF IsPlace
  <2> QED BY <2>2, <2>3, <2>4, <2>5
<1>3. Live'
  <2> SUFFICES ASSUME NEW k, NEW w, NEW i, IsPlace(k, w, i)' PROVE (Addr(k, w, i) \in Address)'
    BY DEF Live
  <2>1. Addr(k2, w2, n) \in Address BY <1>1 DEF Live
  <2>2. IsPlace(k, w, i) => Addr(k, w, i) \in Address BY DEF Live
  <2> QED BY <1>2, <2>1, <2>2 DEF Address
<1>4. ASSUME NEW k, NEW w, NEW i
      PROVE  Has(k, w, i)' <=> \/ Has(k, w, i) /\ ~(k = k2 /\ w = w2 /\ i = n)
                               \/ k = k1 /\ w = w1 /\ i = m /\ Has(k2, w2, n)
  BY <1>1, <1>2 DEF Has
<1>5. Nowhere => Nowhere' BY <1>4 DEF Nowhere
<1>6. ASSUME Somewhere PROVE Somewhere'
  <2>1. PICK k, w, i : Only(k, w, i) BY <1>6 DEF Somewhere
  <2>2. CASE k = k2 /\ w = w2 /\ i = n
    <3>1. Only(k1, w1, m)' BY <1>4, <2>1, <2>2 DEF Only
    <3> QED BY <3>1 DEF Somewhere
  <2>3. CASE ~(k = k2 /\ w = w2 /\ i = n)
    <3>1. Only(k, w, i)' BY <1>4, <2>1, <2>3 DEF Only
    <3> QED BY <3>1 DEF Somewhere
  <2> QED BY <2>2, <2>3
<1> QED BY <1>3, <1>5, <1>6 DEF Kept

(* The same list by list: a list of m addresses gets a, one of c loses     *)
(* its last, and the others stay.                                          *)
Grows(k1, w1, m, a) ==
  \A k, w : k = k1 /\ w = w1 =>
    /\ HowMany(k, w)' = m + 1
    /\ \A i \in 0 .. m - 1 : Addr(k, w, i)' = Addr(k, w, i)
    /\ \A i : i = m => Addr(k, w, i)' = a
Shrinks(k2, w2, c) ==
  \A k, w : k = k2 /\ w = w2 =>
    /\ HowMany(k, w)' = c - 1
    /\ \A i \in 0 .. c - 2 : Addr(k, w, i)' = Addr(k, w, i)
Others(k1, w1, k2, w2) ==
  \A k, w : IsList(k, w) /\ ~(k = k1 /\ w = w1) /\ ~(k = k2 /\ w = w2) => Stays(k, w)

(* What the steps below show, list by list, makes a Push. *)
LEMMA PushIs ==
  ASSUME NEW k1, NEW w1, NEW k2, NEW w2, NEW m \in Nat, NEW c \in Nat \ {0}, NEW a,
         IsList(k1, w1), IsList(k2, w2), ~(k1 = k2 /\ w1 = w2),
         HowMany(k1, w1) = m, HowMany(k2, w2) = c, Addr(k2, w2, c - 1) = a,
         Others(k1, w1, k2, w2), Grows(k1, w1, m, a), Shrinks(k2, w2, c)
  PROVE  Push(k1, w1, k2, w2)
<1> USE DEF Others, Grows, Shrinks
<1>1. ASSUME NEW k, NEW w, IsList(k, w), NEW i \in 0 .. HowMany(k, w)
      PROVE  IF k = k1 /\ w = w1 /\ i = m THEN Addr(k, w, i)' = Addr(k2, w2, c - 1)
             ELSE i \in 0 .. HowMany(k, w)' - 1 => Addr(k, w, i)' = Addr(k, w, i)
  <2>1. CASE k = k1 /\ w = w1
    <3>1. i \in 0 .. m BY <1>1, <2>1
    <3>2. i = m \/ i \in 0 .. m - 1 BY <3>1
    <3> QED BY <2>1, <3>2
  <2>2. CASE k = k2 /\ w = w2
    <3>1. HowMany(k, w)' = c - 1 /\ ~(k = k1 /\ w = w1) BY <2>2
    <3>2. i \in 0 .. HowMany(k, w)' - 1 => i \in 0 .. c - 2 BY <3>1
    <3> QED BY <2>2, <3>1, <3>2
  <2>3. CASE ~(k = k1 /\ w = w1) /\ ~(k = k2 /\ w = w2) BY <1>1, <2>3 DEF Stays
  <2> QED BY <2>1, <2>2, <2>3
<1>2. ASSUME NEW k, NEW w, IsList(k, w)
      PROVE  /\ k = k1 /\ w = w1 => HowMany(k, w)' = m + 1
             /\ k = k2 /\ w = w2 => HowMany(k, w)' = c - 1
             /\ ~(k = k1 /\ w = w1) /\ ~(k = k2 /\ w = w2) => HowMany(k, w)' = HowMany(k, w)
  BY <1>2 DEF Stays
<1> QED BY <1>1, <1>2 DEF Push

(* The last of the c addresses of list (k2, w2) goes in front of the m of  *)
(* list (k1, w1).                                                          *)
Insert(k1, w1, k2, w2, m, c) ==
  /\ IsList(k1, w1) /\ IsList(k2, w2) /\ ~(k1 = k2 /\ w1 = w2)
  /\ HowMany(k1, w1) = m /\ HowMany(k2, w2) = c
  /\ \A k, w : k = k1 /\ w = w1 =>
       /\ HowMany(k, w)' = m + 1
       /\ \A i : i = 0 => Addr(k, w, i)' = Addr(k2, w2, c - 1)
       /\ \A i \in 1 .. m : Addr(k, w, i)' = Addr(k1, w1, i - 1)
  /\ Shrinks(k2, w2, c) /\ Others(k1, w1, k2, w2)

(* Such a step, too, moves one buffer and keeps all others. *)
LEMMA InsertKeeps ==
  ASSUME Live, NEW k1, NEW w1, NEW k2, NEW w2, NEW m \in Nat, NEW c \in Nat \ {0},
         Insert(k1, w1, k2, w2, m, c)
  PROVE  Kept
<1>1. /\ \A i : IsPlace(k1, w1, i) <=> i \in 0 .. m - 1
      /\ \A i : IsPlace(k2, w2, i) <=> i \in 0 .. c - 1
      /\ ~(k1 = k2 /\ w1 = w2)
  BY DEF Insert, IsPlace
<1>2. ASSUME NEW k, NEW w, NEW i, k = k1, w = w1
      PROVE  /\ IsPlace(k, w, i)' <=> i \in 0 .. m
             /\ IsPlace(k, w, i)' /\ i = 0 =>
                  IsPlace(k2, w2, c - 1) /\ Addr(k, w, i)' = Addr(k2, w2, c - 1)
             /\ IsPlace(k, w, i)' /\ i # 0 =>
                  IsPlace(k1, w1, i - 1) /\ Addr(k, w, i)' = Addr(k1, w1, i - 1)
  <2>1. IsPlace(k, w, i)' <=> i \in 0 .. m BY <1>2 DEF Insert, IsPlace, IsList
  <2>2. c - 1 \in 0 .. c - 1 OBVIOUS
  <2>3. i \in 0 .. m /\ i # 0 => i \in 1 .. m /\ i - 1 \in 0 .. m - 1 OBVIOUS
  <2> QED BY <1>1, <1>2, <2>1, <2>2, <2>3 DEF Insert
<1>3. ASSUME NEW k, NEW w, NEW i, k = k2, w = w2
      PROVE  /\ IsPlace(k, w, i)' <=> i \in 0 .. c - 2
             /\ IsPlace(k, w, i)' => IsPlace(k2, w2, i) /\ Addr(k, w, i)' = Addr(k2, w2, i)
  <2>1. HowMany(k, w)' = c - 1 /\ \A j \in 0 .. c - 2 : Addr(k, w, j)' = Addr(k, w, j)
    BY <1>3 DEF Insert, Shrinks
  <2>2. c - 1 - 1 = c - 2 /\ \A j \in 0 .. c - 2 : j \in 0 .. c - 1 OBVIOUS
  <2>3. IsList(k, w)' BY <1>3 DEF Insert, IsList
  <2>4. IsPlace(k, w, i)' <=> i \in 0 .. c - 2 BY <2>1, <2>2, <2>3 DEF IsPlace
  <2> QED BY <1>1, <1>3, <2>1, <2>2, <2>4
<1>4. ASSUME NEW k, NEW w, NEW i, ~(k = k1 /\ w = w1), ~(k = k2 /\ w = w2)
      PROVE  /\ IsPlace(k, w, i)' <=> IsPlace(k, w, i)
             /\ IsPlace(k, w, i) => Addr(k, w, i)' = Addr(k, w, i)
  <2>1. IsList(k, w)' <=> IsList(k, w) BY DEF IsList
  <2>2. IsList(k, w) => Stays(k, w) BY <1>4 DEF Insert, Others
  <2> QED BY <2>1, <2>2 DEF IsPlace, Stays
<1>5. Live'
  <2> SUFFICES ASSUME NEW k, NEW w, NEW i, IsPlace(k, w, i)' PROVE (Addr(k, w, i) \in Address)'
    BY DEF Live
  <2>1. \A l, v, j : IsPlace(l, v, j) => Addr(l, v, j) \in Address BY DEF Live
  <2>2. CASE k = k1 /\ w = w1 BY <1>2, <2>1, <2>2 DEF Address
  <2>3. CASE k = k2 /\ w = w2 BY <1>3, <2>1, <2>3 DEF Address
  <2>4. CASE ~(k = k1 /\ w = w1) /\ ~(k = k2 /\ w = w2) BY <1>4, <2>1, <2>4 DEF Address
  <2> QED BY <2>2, <2>3, <2>4
<1>6. ASSUME NEW k, NEW w, NEW i
      PROVE  Has(k, w, i)' <=>
               \/ ~(k = k1 /\ w = w1) /\ ~(k = k2 /\ w = w2) /\ Has(k, w, i)
               \/ k = k2 /\ w = w2 /\ i \in 0 .. c - 2 /\ Has(k2, w2, i)
               \/ k = k1 /\ w = w1 /\ i = 0 /\ Has(k2, w2, c - 1)
               \/ k = k1 /\ w = w1 /\ i \in 1 .. m /\ Has(k1, w1, i - 1)
  <2>1. CASE k = k1 /\ w = w1
    <3>1. 0 \in 0 .. m /\ \A j : j \in 0 .. m <=> j = 0 \/ j \in 1 .. m OBVIOUS
    <3>2. \A j \in 1 .. m : j # 0 OBVIOUS
    <3> QED BY <1>1, <1>2, <2>1, <3>1, <3>2 DEF Has
  <2>2. CASE k = k2 /\ w = w2 BY <1>1, <1>3, <2>2 DEF Has
  <2>3. CASE ~(k = k1 /\ w = w1) /\ ~(k = k2 /\ w = w2) BY <1>4, <2>3 DEF Has
  <2> QED BY <2>1, <2>2, <2>3
<1>7. Nowhere => Nowhere' BY <1>6 DEF Nowhere
<1>8. ASSUME Somewhere PROVE Somewhere'
  <2>1. PICK k, w, i : Only(k, w, i) BY <1>8 DEF Somewhere
  <2>2. IsPlace(k, w, i) /\ \A x, y, z : Has(x, y, z) <=> (x = k /\ y = w /\ z = i)
    BY <2>1 DEF Only, Has
  <2>3. CASE k = k1 /\ w = w1
    <3>1. i \in 0 .. m - 1 BY <1>1, <2>2, <2>3
    <3>2. PICK j \in 1 .. m : i = j - 1
      <4>1. i + 1 \in 1 .. m /\ i = (i + 1) - 1 BY <3>1
      <4> QED BY <4>1
    <3>3. \A z \in 1 .. m : z - 1 = i => z = j BY <3>2
    <3>4. ASSUME NEW l, NEW v, NEW u PROVE Has(l, v, u)' <=> (l = k1 /\ v = w1 /\ u = j)
      BY <1>1, <1>6, <2>2, <2>3, <3>2, <3>3
    <3>5. Only(k1, w1, j)' BY <3>4 DEF Only
    <3> QED BY <3>5 DEF Somewhere
  <2>4. CASE k = k2 /\ w = w2 /\ i = c - 1
    <3>1. \A z \in 0 .. c - 2 : z # i BY <2>4
    <3>2. PICK j : j = 0 OBVIOUS
    <3>3. ASSUME NEW l, NEW v, NEW u PROVE Has(l, v, u)' <=> (l = k1 /\ v = w1 /\ u = j)
      BY <1>1, <1>6, <2>2, <2>4, <3>1, <3>2
    <3>4. Only(k1, w1, j)' BY <3>3 DEF Only
    <3> QED BY <3>4 DEF Somewhere
  <2>5. CASE k = k2 /\ w = w2 /\ i # c - 1
    <3>1. i \in 0 .. c - 2
      <4>1. i \in 0 .. c - 1 BY <1>1, <2>2, <2>5
      <4> QED BY <2>5, <4>1
    <3>2. ASSUME NEW l, NEW v, NEW u PROVE Has(l, v, u)' <=> (l = k2 /\ v = w2 /\ u = i)
      BY <1>1, <1>6, <2>2, <2>5, <3>1
    <3>3. Only(k2, w2, i)' BY <3>2 DEF Only
    <3> QED BY <3>3 DEF Somewhere
  <2>6. CASE ~(k = k1 /\ w = w1) /\ ~(k = k2 /\ w = w2)
    <3>1. ASSUME NEW l, NEW v, NEW u PROVE Has(l, v, u)' <=> (l = k /\ v = w /\ u = i)
      BY <1>6, <2>2, <2>6
    <3>2. Only(k, w, i)' BY <3>1 DEF Only
    <3> QED BY <3>2 DEF Somewhere
  <2> QED BY <2>3, <2>4, <2>5, <2>6
<1> QED BY <1>5, <1>7, <1>8 DEF Kept

(* All addresses of list (k2, w2) go to list (k1, w1), which was empty. *)
Pass(k1, w1, k2, w2) ==
  /\ IsList(k1, w1) /\ IsList(k2, w2) /\ ~(k1 = k2 /\ w1 = w2)
  /\ HowMany(k1, w1) = 0
  /\ \A k, w : IsList(k, w) =>
       /\ k = k1 /\ w = w1 =>
            /\ HowMany(k, w)' = HowMany(k2, w2)
            /\ \A i \in 0 .. HowMany(k2, w2) - 1 : Addr(k, w, i)' = Addr(k2, w2, i)
       /\ k = k2 /\ w = w2 => HowMany(k, w)' = 0
       /\ ~(k = k1 /\ w = w1) /\ ~(k = k2 /\ w = w2) => Stays(k, w)

(* Such a step moves the buffers of one list. *)
LEMMA PassKeeps ==
  ASSUME Shape, Live, NEW k1, NEW w1, NEW k2, NEW w2, Pass(k1, w1, k2, w2)
  PROVE  Kept
<1>1. ASSUME NEW k, NEW w, NEW i
      PROVE  /\ IsPlace(k, w, i)' <=> \/ IsPlace(k, w, i) /\ ~(k = k2 /\ w = w2)
                                      \/ k = k1 /\ w = w1 /\ IsPlace(k2, w2, i)
             /\ IsPlace(k, w, i)' => Addr(k, w, i)' = IF k = k1 /\ w = w1
                                                      THEN Addr(k2, w2, i) ELSE Addr(k, w, i)
  <2>1. IsList(k, w)' <=> IsList(k, w) BY DEF IsList
  <2>2. CASE ~IsList(k, w) BY <2>1, <2>2 DEF IsPlace, Pass
  <2>3. CASE IsList(k, w) /\ k = k1 /\ w = w1 BY <2>1, <2>3 DEF IsPlace, Pass
  <2>4. CASE IsList(k, w) /\ k = k2 /\ w = w2 BY <2>1, <2>4 DEF IsPlace, Pass
  <2>5. CASE IsList(k, w) /\ ~(k = k1 /\ w = w1) /\ ~(k = k2 /\ w = w2)
    BY <2>1, <2>5 DEF IsPlace, Pass, Stays
  <2> QED BY <2>2, <2>3, <2>4, <2>5
<1>2. ~(k1 = k2 /\ w1 = w2) /\ \A i : ~IsPlace(k1, w1, i) BY DEF Pass, IsPlace
<1>3. Live'
  <2> SUFFICES ASSUME NEW k, NEW w, NEW i, IsPlace(k, w, i)' PROVE (Addr(k, w, i) \in Address)'
    BY DEF Live
  <2>1. IsPlace(k2, w2, i) => Addr(k2, w2, i) \in Address BY DEF Live
  <2>2. IsPlace(k, w, i) => Addr(k, w, i) \in Address BY DEF Live
  <2> QED BY <1>1, <1>2, <2>1, <2>2 DEF Address
<1>4. ASSUME NEW k, NEW w, NEW i
      PROVE  Has(k, w, i)' <=> \/ Has(k, w, i) /\ ~(k = k2 /\ w = w2)
                               \/ k = k1 /\ w = w1 /\ Has(k2, w2, i)
  BY <1>1, <1>2 DEF Has
<1>5. Nowhere => Nowhere' BY <1>4 DEF Nowhere
<1>6. ASSUME Somewhere PROVE Somewhere'
  <2>1. PICK k, w, i : Only(k, w, i) BY <1>6 DEF Somewhere
  <2>2. CASE k = k2 /\ w = w2
    <3>1. Only(k1, w1, i)' BY <1>2, <1>4, <2>1, <2>2 DEF Only
    <3> QED BY <3>1 DEF Somewhere
  <2>3. CASE ~(k = k2 /\ w = w2)
    <3>1. Only(k, w, i)' BY <1>4, <2>1, <2>3 DEF Only
    <3> QED BY <3>1 DEF Somewhere
  <2> QED BY <2>2, <2>3
<1> QED BY <1>3, <1>5, <1>6 DEF Kept

(* Once all ports are initialised, no slab is given up any more. *)
LEMMA PlaceFrom ==
  ASSUME Kept, PlaceInv, Stored', ready = NPorts, UNCHANGED <<watched, ready>>
  PROVE  PlaceInv'
<1>1. Fresh' BY PoolAssumption DEF Fresh
<1>2. Gone' <=> Gone BY DEF Gone
<1> QED BY <1>1, <1>2 DEF PlaceInv, Kept

(* The slabs are left alone. *)
LEMMA SlabListsStay ==
  ASSUME UNCHANGED <<slabs, nAvail, content, slabCons, nCons>>,
         \A q \in Ports : Prod(q)' = Prod(q) /\ ProdHeld(q)' = ProdHeld(q)
  PROVE  \A k, w : k \in {"cons", "prod", "full"} /\ IsList(k, w) => Stays(k, w)
<1> SUFFICES ASSUME NEW k, NEW w, k \in {"cons", "prod", "full"}, IsList(k, w)
             PROVE  Stays(k, w)
  OBVIOUS
<1>1. CASE k = "cons" BY <1>1 DEF Stays, HowMany, Addr, SlabAt
<1>2. CASE k = "prod"
  <2>1. w \in Ports BY <1>2 DEF IsList, Entry, Address, Stale
  <2>2. Prod(w)' = Prod(w) /\ ProdHeld(w)' = ProdHeld(w) BY <2>1
  <2> QED BY <1>2, <2>2 DEF Stays, HowMany, Addr, SlabAt
<1>3. CASE k = "full" BY <1>3 DEF Stays, HowMany, Addr, SlabAt
<1> QED BY <1>1, <1>2, <1>3

(* A thread that enters bcache_prod does not touch the slabs yet. *)
LEMMA ProdQuiet ==
  ASSUME UNCHANGED <<slabProd, nProd, empty>>,
         \A th \in Threads : step'[th] = step[th] \/ (step[th] = "idle" /\ step'[th] = "check")
  PROVE  \A q \in Ports : Prod(q)' = Prod(q) /\ ProdHeld(q)' = ProdHeld(q)
<1> SUFFICES ASSUME NEW q \in Ports PROVE Prod(q)' = Prod(q) /\ ProdHeld(q)' = ProdHeld(q)
  OBVIOUS
<1>1. <<"rx", q>> \in Threads /\ <<"tx", q>> \in Threads BY ThreadsAre
<1> QED BY <1>1 DEF Prod, Trading, ProdHeld, Resetting

(* What the threads have stored is still there. *)
LEMMA StoredQuiet ==
  ASSUME Stored, UNCHANGED <<content, count>>,
         \A q \in Ports : Prod(q)' = Prod(q),
         \A th \in Threads : step'[th] = "check" \/ (step'[th] = step[th] /\ freed'[th] = freed[th])
  PROVE  Stored'
<1> SUFFICES ASSUME NEW th \in Threads
             PROVE  (/\ step[th] = "count" => content[Prod(PortOf(th))][count[th]] = freed[th]
                     /\ step[th] \in {"switch", "reset"} => content[Prod(PortOf(th))][0] = freed[th])'
  BY DEF Stored
<1>1. PICK q \in Ports : q = PortOf(th) BY ThreadsAre
<1>2. Prod(q)' = Prod(q) OBVIOUS
<1>3. Prod(PortOf(th))' = Prod(PortOf(th)) BY <1>1, <1>2
<1> QED BY <1>3 DEF Stored

(* The two ways the bag of what is in flight changes. *)
LEMMA FlightAdds ==
  ASSUME Shape, NEW a \in Entry, flight' = flight (+) SetToBag({a})
  PROVE  \A b : Of(b, flight)' = Of(b, flight) + (IF b = a THEN 1 ELSE 0)
<1>1. IsABag(flight) BY DEF Shape
<1>2. PICK f : f = flight OBVIOUS
<1>3. PICK g : g = flight' OBVIOUS
<1>4. IsABag(f) /\ g = f (+) SetToBag({a}) BY <1>1, <1>2, <1>3
<1>5. \A b : Of(b, g) = Of(b, f) + (IF b = a THEN 1 ELSE 0)
  BY <1>4 DEF IsABag, SetToBag, (+), Of
<1>6. \A b : Of(b, flight) = Of(b, f) /\ Of(b, flight)' = Of(b, g) BY <1>2, <1>3 DEF Of
<1> QED BY <1>5, <1>6

(* What is taken out was there. *)
LEMMA FlightTakes ==
  ASSUME Shape, NEW a \in DOMAIN flight, flight' = flight (-) SetToBag({a})
  PROVE  /\ Of(a, flight) \in Nat \ {0}
         /\ \A b : Of(b, flight)' = Of(b, flight) - (IF b = a THEN 1 ELSE 0)
<1>1. IsABag(flight) BY DEF Shape
<1>2. PICK f : f = flight OBVIOUS
<1>3. PICK g : g = flight' OBVIOUS
<1>4. IsABag(f) /\ a \in DOMAIN f /\ g = f (-) SetToBag({a}) BY <1>1, <1>2, <1>3
<1>5. Of(a, f) > 0 /\ \A b : Of(b, g) = Of(b, f) - (IF b = a THEN 1 ELSE 0) BY <1>4, BagRemove
<1>6. Of(a, f) \in Nat BY <1>4 DEF IsABag, Of
<1>7. \A b : Of(b, flight) = Of(b, f) /\ Of(b, flight)' = Of(b, g) BY <1>2, <1>3 DEF Of
<1> QED BY <1>5, <1>6, <1>7

(* The packet at the head of the burst goes to a queue. *)
LEMMA PlaceEnqueue ==
  ASSUME Shape, CountInv, PlaceInv, NEW p \in Ports, Enqueue(p)
  PROVE  PlaceInv'
<1>1. /\ UNCHANGED <<slabs, nAvail, content, slabCons, nCons, watched, ready, slabProd, nProd,
                     empty, step, posted, freed, count, out, lost>>
      /\ burst[p] # <<>> /\ burst[p] \in Seq(Entry)
      /\ flight' = flight (+) SetToBag({Head(burst[p])})
      /\ burst' = [burst EXCEPT ![p] = Tail(@)]
  BY DEF Enqueue, pool, prod, local, Shape
<1>2. ready = NPorts BY <1>1, PoolAssumption DEF CountInv, Starting, Shape
<1>3. PICK s \in Seq(Entry) : s = burst[p] /\ s # <<>> BY <1>1
<1>4. PICK a \in Entry : a = Head(s) /\ a = s[1] BY <1>3
<1>5. PICK c \in Nat : c = Len(s) /\ c > 0 BY <1>3
<1>6. /\ burst'[p] = Tail(s) /\ Len(Tail(s)) = c - 1
      /\ \A i \in 1 .. c - 1 : Tail(s)[i] = s[i + 1]
      /\ \A q \in Ports : q # p => burst'[q] = burst[q]
  BY <1>1, <1>3, <1>5 DEF Shape
<1>7. \A b : Of(b, flight)' = Of(b, flight) + (IF b = a THEN 1 ELSE 0)
  BY <1>1, <1>3, <1>4, FlightAdds
<1>8. \A q \in Ports : Prod(q)' = Prod(q) /\ ProdHeld(q)' = ProdHeld(q) BY <1>1, ProdQuiet
<1>9. ASSUME NEW k, NEW w, IsList(k, w), ~(k = a /\ w = 0), ~(k = "burst" /\ w = p)
      PROVE  Stays(k, w)
  <2>1. CASE k \in {"cons", "prod", "full"} BY <1>1, <1>8, <1>9, <2>1, SlabListsStay
  <2>2. CASE k \in {"posted", "out", "lost", "rx", "tx"}
    BY <1>1, <2>2 DEF Stays, HowMany, Addr, Hand
  <2>3. CASE k = "burst"
    <3>1. w \in Ports /\ w # p BY <1>9, <2>3 DEF IsList, Entry, Address, Stale
    <3>2. burst'[w] = burst[w] BY <1>6, <3>1
    <3> QED BY <2>3, <3>2 DEF Stays, HowMany, Addr
  <2>4. CASE k \in Entry
    <3>1. k # a /\ Of(k, flight)' = Of(k, flight) + 0 /\ Of(k, flight) \in Nat
      <4>1. k # a BY <1>9, <2>4 DEF IsList, Entry, Address, Stale
      <4>2. HowMany(k, w) = Of(k, flight) BY <2>4 DEF HowMany, Entry, Address, Stale
      <4> QED BY <1>7, <1>9, <4>1, <4>2, HowManyTyped
    <3> QED BY <2>4, <3>1 DEF Stays, HowMany, Addr, Entry, Address, Stale
  <2> QED BY <1>9, <2>1, <2>2, <2>3, <2>4 DEF IsList
<1>10. PICK m \in Nat : m = Of(a, flight)
  <2>1. IsList(a, 0) /\ HowMany(a, 0) = Of(a, flight)
    BY DEF IsList, HowMany, Entry, Address, Stale
  <2> QED BY <2>1, HowManyTyped
<1>11. Push(a, 0, "burst", p)
  <2>1. /\ IsList(a, 0) /\ IsList("burst", p) /\ ~(a = "burst" /\ 0 = p)
        /\ HowMany(a, 0) = m /\ HowMany("burst", p) = c
    BY <1>3, <1>5, <1>10 DEF IsList, HowMany, Entry, Address, Stale
  <2>2. ASSUME NEW k, NEW w, k = a, w = 0
        PROVE  /\ HowMany(k, w)' = m + 1
               /\ \A i : Addr(k, w, i)' = a /\ Addr(k, w, i) = a
    BY <1>7, <1>10, <2>2 DEF HowMany, Addr, Entry, Address, Stale
  <2>3. ASSUME NEW k, NEW w, k = "burst", w = p
        PROVE  /\ HowMany(k, w)' = c - 1
               /\ \A i \in 0 .. c - 2 : Addr(k, w, i)' = Addr(k, w, i)
    <3>1. HowMany(k, w)' = c - 1 BY <1>6, <2>3 DEF HowMany
    <3>2. ASSUME NEW i \in 0 .. c - 2 PROVE Addr(k, w, i)' = Addr(k, w, i)
      <4>1. Addr(k, w, i)' = Tail(s)[(c - 1) - i] BY <1>6, <2>3 DEF Addr
      <4>2. Addr(k, w, i) = s[c - i] BY <1>3, <1>5, <2>3 DEF Addr
      <4>3. (c - 1) - i \in 1 .. c - 1 /\ ((c - 1) - i) + 1 = c - i BY <1>5
      <4> QED BY <1>6, <4>1, <4>2, <4>3
    <3> QED BY <3>1, <3>2
  <2>4. Addr("burst", p, c - 1) = a
    <3>1. Addr("burst", p, c - 1) = s[c - (c - 1)] BY <1>3, <1>5 DEF Addr
    <3>2. c - (c - 1) = 1 BY <1>5
    <3> QED BY <1>4, <3>1, <3>2
  <2>5. c \in Nat \ {0} BY <1>5
  <2>6. Grows(a, 0, m, a) BY <2>2 DEF Grows
  <2>7. Shrinks("burst", p, c) BY <2>3 DEF Shrinks
  <2>8. Others(a, 0, "burst", p) BY <1>9 DEF Others
  <2> QED BY <2>1, <2>4, <2>5, <2>6, <2>7, <2>8, PushIs
<1>12. Kept BY <1>11, PushKeeps DEF PlaceInv
<1>13. Stored' BY <1>1, <1>8, StoredQuiet DEF PlaceInv
<1> QED BY <1>1, <1>2, <1>12, <1>13, PlaceFrom

(* Nobody has it any more: it goes to what is lost. *)
LEMMA PlaceLose ==
  ASSUME Shape, CountInv, PlaceInv, NEW p \in Ports, Lose(p)
  PROVE  PlaceInv'
<1>1. /\ UNCHANGED <<slabs, nAvail, content, slabCons, nCons, watched, ready, slabProd, nProd,
                     empty, step, posted, freed, count, out, flight>>
      /\ burst[p] # <<>> /\ burst[p] \in Seq(Entry)
      /\ lost' = Append(lost, Head(burst[p])) /\ lost \in Seq(Entry)
      /\ burst' = [burst EXCEPT ![p] = Tail(@)]
  BY DEF Lose, pool, prod, local, Shape
<1>2. ready = NPorts BY <1>1, PoolAssumption DEF CountInv, Starting, Shape
<1>3. PICK s \in Seq(Entry) : s = burst[p] /\ s # <<>> BY <1>1
<1>4. PICK a \in Entry : a = Head(s) /\ a = s[1] BY <1>3
<1>5. PICK c \in Nat : c = Len(s) /\ c > 0 BY <1>3
<1>6. /\ burst'[p] = Tail(s) /\ Len(Tail(s)) = c - 1
      /\ \A i \in 1 .. c - 1 : Tail(s)[i] = s[i + 1]
      /\ \A q \in Ports : q # p => burst'[q] = burst[q]
  BY <1>1, <1>3, <1>5 DEF Shape
<1>7. PICK m \in Nat : /\ m = Len(lost) /\ Len(lost') = m + 1 /\ lost'[m + 1] = a
                       /\ \A i \in 1 .. m : lost'[i] = lost[i]
  <2>1. PICK e \in Seq(Entry) : e = lost BY <1>1
  <2>2. lost' = Append(e, a) BY <1>1, <1>3, <1>4, <2>1
  <2>3. PICK m \in Nat : m = Len(e) BY <2>1
  <2>4. /\ Len(Append(e, a)) = m + 1 /\ Append(e, a)[m + 1] = a
        /\ \A i \in 1 .. m : Append(e, a)[i] = e[i]
    BY <2>1, <2>3
  <2> QED BY <2>1, <2>2, <2>3, <2>4
<1>10. PICK k1 : k1 = "lost" OBVIOUS
<1>8. \A q \in Ports : Prod(q)' = Prod(q) /\ ProdHeld(q)' = ProdHeld(q) BY <1>1, ProdQuiet
<1>9. ASSUME NEW k, NEW w, IsList(k, w), ~(k = k1 /\ w = 0), ~(k = "burst" /\ w = p)
      PROVE  Stays(k, w)
  <2>1. CASE k \in {"cons", "prod", "full"} BY <1>1, <1>8, <1>9, <2>1, SlabListsStay
  <2>2. CASE k \in {"posted", "out", "rx", "tx"}
    BY <1>1, <2>2 DEF Stays, HowMany, Addr, Hand
  <2>3. CASE k = "burst"
    <3>1. w \in Ports /\ w # p BY <1>9, <2>3 DEF IsList, Entry, Address, Stale
    <3>2. burst'[w] = burst[w] BY <1>6, <3>1
    <3> QED BY <2>3, <3>2 DEF Stays, HowMany, Addr
  <2>4. CASE k \in Entry BY <1>1, <2>4 DEF Stays, HowMany, Addr, Of, Entry, Address, Stale
  <2>5. k # "lost" BY <1>9, <1>10 DEF IsList, Entry, Address, Stale
  <2> QED BY <1>9, <2>1, <2>2, <2>3, <2>4, <2>5 DEF IsList
<1>11. Push(k1, 0, "burst", p)
  <2>1. /\ IsList(k1, 0) /\ IsList("burst", p) /\ ~(k1 = "burst" /\ 0 = p)
        /\ HowMany(k1, 0) = m /\ HowMany("burst", p) = c
    BY <1>3, <1>5, <1>7, <1>10 DEF IsList, HowMany
  <2>2. ASSUME NEW k, NEW w, k = k1, w = 0
        PROVE  /\ HowMany(k, w)' = m + 1
               /\ \A i \in 0 .. m - 1 : Addr(k, w, i)' = Addr(k, w, i)
               /\ \A i : i = m => Addr(k, w, i)' = a
    <3>1. /\ HowMany(k, w)' = Len(lost')
          /\ \A i : Addr(k, w, i)' = lost'[i + 1] /\ Addr(k, w, i) = lost[i + 1]
      BY <1>10, <2>2 DEF HowMany, Addr
    <3>2. \A i \in 0 .. m - 1 : i + 1 \in 1 .. m BY <1>7
    <3> QED BY <1>7, <3>1, <3>2
  <2>3. ASSUME NEW k, NEW w, k = "burst", w = p
        PROVE  /\ HowMany(k, w)' = c - 1
               /\ \A i \in 0 .. c - 2 : Addr(k, w, i)' = Addr(k, w, i)
    <3>1. HowMany(k, w)' = c - 1 BY <1>6, <2>3 DEF HowMany
    <3>2. ASSUME NEW i \in 0 .. c - 2 PROVE Addr(k, w, i)' = Addr(k, w, i)
      <4>1. Addr(k, w, i)' = Tail(s)[(c - 1) - i] BY <1>6, <2>3 DEF Addr
      <4>2. Addr(k, w, i) = s[c - i] BY <1>3, <1>5, <2>3 DEF Addr
      <4>3. (c - 1) - i \in 1 .. c - 1 /\ ((c - 1) - i) + 1 = c - i BY <1>5
      <4> QED BY <1>6, <4>1, <4>2, <4>3
    <3> QED BY <3>1, <3>2
  <2>4. Addr("burst", p, c - 1) = a
    <3>1. Addr("burst", p, c - 1) = s[c - (c - 1)] BY <1>3, <1>5 DEF Addr
    <3>2. c - (c - 1) = 1 BY <1>5
    <3> QED BY <1>4, <3>1, <3>2
  <2>5. c \in Nat \ {0} BY <1>5
  <2>6. Grows(k1, 0, m, a) BY <2>2 DEF Grows
  <2>7. Shrinks("burst", p, c) BY <2>3 DEF Shrinks
  <2>8. Others(k1, 0, "burst", p) BY <1>9 DEF Others
  <2> QED BY <2>1, <2>4, <2>5, <2>6, <2>7, <2>8, PushIs
<1>12. Kept BY <1>11, PushKeeps DEF PlaceInv
<1>13. Stored' BY <1>1, <1>8, StoredQuiet DEF PlaceInv
<1> QED BY <1>1, <1>2, <1>12, <1>13, PlaceFrom

(* Thread th, of kind k and port p, enters bcache_prod with address a. *)
Takes(th, k, p, a) ==
  /\ th = <<k, p>> /\ k \in {"rx", "tx"} /\ step[th] = "idle"
  /\ step' = [step EXCEPT ![th] = "check"] /\ freed' = [freed EXCEPT ![th] = a]

(* The address is in its hand then. *)
LEMMA HandTakes ==
  ASSUME Shape, NEW th \in Threads, NEW k, NEW p \in Ports, NEW a, Takes(th, k, p, a)
  PROVE  /\ IsList(k, p) /\ HowMany(k, p) = 0 /\ Grows(k, p, 0, a)
         /\ \A l, w : l \in {"rx", "tx"} /\ w \in Ports /\ ~(l = k /\ w = p) => Stays(l, w)
<1>1. /\ step'[th] = "check" /\ freed'[th] = a
      /\ \A u \in Threads : u # th => step'[u] = step[u] /\ freed'[u] = freed[u]
  BY DEF Takes, Shape
<1>2. IsList(k, p) /\ HowMany(k, p) = 0 BY DEF Takes, IsList, HowMany, Hand
<1>3. ASSUME NEW l, NEW w, l = k, w = p
      PROVE  HowMany(l, w)' = 0 + 1 /\ \A i : Addr(l, w, i)' = a
  BY <1>1, <1>3 DEF Takes, HowMany, Addr, Hand
<1>4. Grows(k, p, 0, a)
  <2>1. 0 .. 0 - 1 = {} OBVIOUS
  <2> QED BY <1>3, <2>1 DEF Grows
<1>5. ASSUME NEW l, NEW w, l \in {"rx", "tx"}, w \in Ports, ~(l = k /\ w = p)
      PROVE  Stays(l, w)
  <2>1. <<l, w>> \in Threads /\ <<l, w>> # th BY <1>5 DEF Takes, Threads
  <2>2. step'[<<l, w>>] = step[<<l, w>>] /\ freed'[<<l, w>>] = freed[<<l, w>>] BY <1>1, <2>1
  <2> QED BY <1>5, <2>2 DEF Stays, HowMany, Addr, Hand
<1> QED BY <1>2, <1>4, <1>5

(* It goes to the hand of the receiving thread. *)
LEMMA PlaceDrop ==
  ASSUME Shape, CountInv, PlaceInv, NEW p \in Ports, Drop(p)
  PROVE  PlaceInv'
<1>1. /\ UNCHANGED <<slabs, nAvail, content, slabCons, nCons, watched, ready, slabProd, nProd,
                     empty, posted, flight, out, lost, count>>
      /\ burst[p] # <<>> /\ burst[p] \in Seq(Entry) /\ step[<<"rx", p>>] = "idle"
      /\ freed' = [freed EXCEPT ![<<"rx", p>>] = Head(burst[p])]
      /\ step' = [step EXCEPT ![<<"rx", p>>] = "check"]
      /\ burst' = [burst EXCEPT ![p] = Tail(@)]
  BY DEF Drop, pool, prod, traffic, Shape
<1>2. ready = NPorts BY <1>1, PoolAssumption DEF CountInv, Starting, Shape
<1>3. PICK s \in Seq(Entry) : s = burst[p] /\ s # <<>> BY <1>1
<1>4. PICK a \in Entry : a = Head(s) /\ a = s[1] BY <1>3
<1>5. PICK c \in Nat : c = Len(s) /\ c > 0 BY <1>3
<1>6. /\ burst'[p] = Tail(s) /\ Len(Tail(s)) = c - 1
      /\ \A i \in 1 .. c - 1 : Tail(s)[i] = s[i + 1]
      /\ \A q \in Ports : q # p => burst'[q] = burst[q]
  BY <1>1, <1>3, <1>5 DEF Shape
<1>7. /\ IsList("rx", p) /\ HowMany("rx", p) = 0 /\ Grows("rx", p, 0, a)
      /\ \A l, w : l \in {"rx", "tx"} /\ w \in Ports /\ ~(l = "rx" /\ w = p) => Stays(l, w)
  <2>1. <<"rx", p>> \in Threads BY ThreadsAre
  <2>2. freed' = [freed EXCEPT ![<<"rx", p>>] = a] BY <1>1, <1>3, <1>4
  <2>3. PICK k : k = "rx" OBVIOUS
  <2>4. PICK th \in Threads : th = <<k, p>> BY <2>1, <2>3
  <2>5. Takes(th, k, p, a) BY <1>1, <2>2, <2>3, <2>4 DEF Takes
  <2>6. /\ IsList(k, p) /\ HowMany(k, p) = 0 /\ Grows(k, p, 0, a)
        /\ \A l, w : l \in {"rx", "tx"} /\ w \in Ports /\ ~(l = k /\ w = p) => Stays(l, w)
    BY <2>5, HandTakes
  <2> QED BY <2>3, <2>6
<1>8. \A th \in Threads : \/ step'[th] = step[th] /\ freed'[th] = freed[th]
                          \/ step[th] = "idle" /\ step'[th] = "check"
  BY <1>1, ThreadsAre DEF Shape
<1>9. \A q \in Ports : Prod(q)' = Prod(q) /\ ProdHeld(q)' = ProdHeld(q)
  BY <1>1, <1>8, ProdQuiet
<1>10. Others("rx", p, "burst", p)
  <2> SUFFICES ASSUME NEW k, NEW w, IsList(k, w), ~(k = "rx" /\ w = p), ~(k = "burst" /\ w = p)
               PROVE  Stays(k, w)
    BY DEF Others
  <2>1. CASE k \in {"cons", "prod", "full"} BY <1>1, <1>9, <2>1, SlabListsStay
  <2>2. CASE k \in {"posted", "out", "lost"} BY <1>1, <2>2 DEF Stays, HowMany, Addr
  <2>3. CASE k \in {"rx", "tx"}
    <3>1. w \in Ports BY <2>3 DEF IsList, Entry, Address, Stale
    <3> QED BY <1>7, <2>3, <3>1
  <2>4. CASE k = "burst"
    <3>1. w \in Ports /\ w # p BY <2>4 DEF IsList, Entry, Address, Stale
    <3>2. burst'[w] = burst[w] BY <1>6, <3>1
    <3> QED BY <2>4, <3>2 DEF Stays, HowMany, Addr
  <2>5. CASE k \in Entry BY <1>1, <2>5 DEF Stays, HowMany, Addr, Of, Entry, Address, Stale
  <2> QED BY <2>1, <2>2, <2>3, <2>4, <2>5 DEF IsList
<1>11. Shrinks("burst", p, c)
  <2> SUFFICES ASSUME NEW k, NEW w, k = "burst", w = p
               PROVE  /\ HowMany(k, w)' = c - 1
                      /\ \A i \in 0 .. c - 2 : Addr(k, w, i)' = Addr(k, w, i)
    BY DEF Shrinks
  <2>1. HowMany(k, w)' = c - 1 BY <1>6 DEF HowMany
  <2>2. ASSUME NEW i \in 0 .. c - 2 PROVE Addr(k, w, i)' = Addr(k, w, i)
    <3>1. Addr(k, w, i)' = Tail(s)[(c - 1) - i] BY <1>6 DEF Addr
    <3>2. Addr(k, w, i) = s[c - i] BY <1>3, <1>5 DEF Addr
    <3>3. (c - 1) - i \in 1 .. c - 1 /\ ((c - 1) - i) + 1 = c - i BY <1>5
    <3> QED BY <1>6, <3>1, <3>2, <3>3
  <2> QED BY <2>1, <2>2
<1>12. IsList("burst", p) /\ HowMany("burst", p) = c /\ Addr("burst", p, c - 1) = a
  <2>1. Addr("burst", p, c - 1) = s[c - (c - 1)] BY <1>3, <1>5 DEF Addr
  <2>2. c - (c - 1) = 1 BY <1>5
  <2> QED BY <1>3, <1>4, <1>5, <2>1, <2>2 DEF IsList, HowMany
<1>13. Push("rx", p, "burst", p)
  <2>1. c \in Nat \ {0} /\ 0 \in Nat /\ ~("rx" = "burst" /\ p = p) BY <1>5
  <2> QED BY <1>7, <1>10, <1>11, <1>12, <2>1, PushIs
<1>14. Kept BY <1>13, PushKeeps DEF PlaceInv
<1>15. Stored' BY <1>1, <1>8, <1>9, StoredQuiet DEF PlaceInv
<1> QED BY <1>1, <1>2, <1>14, <1>15, PlaceFrom

(* A sent buffer goes to the hand of the sending thread. *)
LEMMA PlaceReap ==
  ASSUME Shape, CountInv, PlaceInv, NEW p \in Ports, Reap(p)
  PROVE  PlaceInv'
<1>1. /\ UNCHANGED <<slabs, nAvail, content, slabCons, nCons, watched, ready, slabProd, nProd,
                     empty, posted, burst, flight, lost, count>>
      /\ nReap[p] > 0 /\ step[<<"tx", p>>] = "idle"
      /\ freed' = [freed EXCEPT ![<<"tx", p>>] = Head(out[p])]
      /\ step' = [step EXCEPT ![<<"tx", p>>] = "check"]
      /\ out' = [out EXCEPT ![p] = Tail(@)]
  BY DEF Reap, MaySend, pool, cons, prod
<1>2. ready = NPorts BY DEF Reap, MaySend
<1>3. PICK s \in Seq(Entry) : s = out[p] /\ s # <<>> BY <1>1, ReapsSome
<1>4. PICK a \in Entry : a = Head(s) /\ a = s[1] BY <1>3
<1>5. PICK c \in Nat : c = Len(s) /\ c > 0 BY <1>3
<1>6. /\ out'[p] = Tail(s) /\ Len(Tail(s)) = c - 1
      /\ \A i \in 1 .. c - 1 : Tail(s)[i] = s[i + 1]
      /\ \A q \in Ports : q # p => out'[q] = out[q]
  BY <1>1, <1>3, <1>5 DEF Shape
<1>7. /\ IsList("tx", p) /\ HowMany("tx", p) = 0 /\ Grows("tx", p, 0, a)
      /\ \A l, w : l \in {"rx", "tx"} /\ w \in Ports /\ ~(l = "tx" /\ w = p) => Stays(l, w)
  <2>1. <<"tx", p>> \in Threads BY ThreadsAre
  <2>2. freed' = [freed EXCEPT ![<<"tx", p>>] = a] BY <1>1, <1>3, <1>4
  <2>3. PICK k : k = "tx" OBVIOUS
  <2>4. PICK th \in Threads : th = <<k, p>> BY <2>1, <2>3
  <2>5. Takes(th, k, p, a) BY <1>1, <2>2, <2>3, <2>4 DEF Takes
  <2>6. /\ IsList(k, p) /\ HowMany(k, p) = 0 /\ Grows(k, p, 0, a)
        /\ \A l, w : l \in {"rx", "tx"} /\ w \in Ports /\ ~(l = k /\ w = p) => Stays(l, w)
    BY <2>5, HandTakes
  <2> QED BY <2>3, <2>6
<1>8. \A th \in Threads : \/ step'[th] = step[th] /\ freed'[th] = freed[th]
                          \/ step[th] = "idle" /\ step'[th] = "check"
  BY <1>1, ThreadsAre DEF Shape
<1>9. \A q \in Ports : Prod(q)' = Prod(q) /\ ProdHeld(q)' = ProdHeld(q)
  BY <1>1, <1>8, ProdQuiet
<1>10. Others("tx", p, "out", p)
  <2> SUFFICES ASSUME NEW k, NEW w, IsList(k, w), ~(k = "tx" /\ w = p), ~(k = "out" /\ w = p)
               PROVE  Stays(k, w)
    BY DEF Others
  <2>1. CASE k \in {"cons", "prod", "full"} BY <1>1, <1>9, <2>1, SlabListsStay
  <2>2. CASE k \in {"posted", "burst", "lost"} BY <1>1, <2>2 DEF Stays, HowMany, Addr
  <2>3. CASE k \in {"rx", "tx"}
    <3>1. w \in Ports BY <2>3 DEF IsList, Entry, Address, Stale
    <3> QED BY <1>7, <2>3, <3>1
  <2>4. CASE k = "out"
    <3>1. w \in Ports /\ w # p BY <2>4 DEF IsList, Entry, Address, Stale
    <3>2. out'[w] = out[w] BY <1>6, <3>1
    <3> QED BY <2>4, <3>2 DEF Stays, HowMany, Addr
  <2>5. CASE k \in Entry BY <1>1, <2>5 DEF Stays, HowMany, Addr, Of, Entry, Address, Stale
  <2> QED BY <2>1, <2>2, <2>3, <2>4, <2>5 DEF IsList
<1>11. Shrinks("out", p, c)
  <2> SUFFICES ASSUME NEW k, NEW w, k = "out", w = p
               PROVE  /\ HowMany(k, w)' = c - 1
                      /\ \A i \in 0 .. c - 2 : Addr(k, w, i)' = Addr(k, w, i)
    BY DEF Shrinks
  <2>1. HowMany(k, w)' = c - 1 BY <1>6 DEF HowMany
  <2>2. ASSUME NEW i \in 0 .. c - 2 PROVE Addr(k, w, i)' = Addr(k, w, i)
    <3>1. Addr(k, w, i)' = Tail(s)[(c - 1) - i] BY <1>6 DEF Addr
    <3>2. Addr(k, w, i) = s[c - i] BY <1>3, <1>5 DEF Addr
    <3>3. (c - 1) - i \in 1 .. c - 1 /\ ((c - 1) - i) + 1 = c - i BY <1>5
    <3> QED BY <1>6, <3>1, <3>2, <3>3
  <2> QED BY <2>1, <2>2
<1>12. IsList("out", p) /\ HowMany("out", p) = c /\ Addr("out", p, c - 1) = a
  <2>1. Addr("out", p, c - 1) = s[c - (c - 1)] BY <1>3, <1>5 DEF Addr
  <2>2. c - (c - 1) = 1 BY <1>5
  <2> QED BY <1>3, <1>4, <1>5, <2>1, <2>2 DEF IsList, HowMany
<1>13. Push("tx", p, "out", p)
  <2>1. c \in Nat \ {0} /\ 0 \in Nat /\ ~("tx" = "out" /\ p = p) BY <1>5
  <2> QED BY <1>7, <1>10, <1>11, <1>12, <2>1, PushIs
<1>14. Kept BY <1>13, PushKeeps DEF PlaceInv
<1>15. Stored' BY <1>1, <1>8, <1>9, StoredQuiet DEF PlaceInv
<1> QED BY <1>1, <1>2, <1>14, <1>15, PlaceFrom

(* A sending thread takes a buffer out of a queue. *)
LEMMA PlacePull ==
  ASSUME Shape, CountInv, PlaceInv, NEW p \in Ports, Pull(p)
  PROVE  PlaceInv'
<1>1. PICK a \in BagToSet(flight) : /\ flight' = flight (-) SetToBag({a})
                                    /\ out' = [out EXCEPT ![p] = Append(@, a)]
  BY DEF Pull
<1>2. /\ UNCHANGED <<slabs, nAvail, content, slabCons, nCons, watched, ready, slabProd, nProd,
                     empty, posted, burst, lost, step, freed, count>>
      /\ ready = NPorts
  BY DEF Pull, MaySend, pool, prod, cons, local
<1>3. a \in DOMAIN flight /\ a \in Entry BY DEF BagToSet, Shape
<1>4. /\ Of(a, flight) \in Nat \ {0}
      /\ \A b : Of(b, flight)' = Of(b, flight) - (IF b = a THEN 1 ELSE 0)
  BY <1>1, <1>3, FlightTakes
<1>5. PICK c \in Nat \ {0} : c = Of(a, flight) BY <1>4
<1>6. PICK s \in Seq(Entry), m \in Nat : s = out[p] /\ m = Len(s) BY DEF Shape
<1>7. /\ out'[p] = Append(s, a) /\ Len(Append(s, a)) = m + 1 /\ Append(s, a)[m + 1] = a
      /\ \A i \in 1 .. m : Append(s, a)[i] = s[i]
      /\ \A q \in Ports : q # p => out'[q] = out[q]
  <2>1. out'[p] = Append(s, a) /\ \A q \in Ports : q # p => out'[q] = out[q]
    BY <1>1, <1>6 DEF Shape
  <2> QED BY <1>3, <1>6, <2>1
<1>8. \A q \in Ports : Prod(q)' = Prod(q) /\ ProdHeld(q)' = ProdHeld(q) BY <1>2, ProdQuiet
<1>9. PICK k1 : k1 = "out" OBVIOUS
<1>10. Others(k1, p, a, 0)
  <2> SUFFICES ASSUME NEW k, NEW w, IsList(k, w), ~(k = k1 /\ w = p), ~(k = a /\ w = 0)
               PROVE  Stays(k, w)
    BY DEF Others
  <2>1. CASE k \in {"cons", "prod", "full"} BY <1>2, <1>8, <2>1, SlabListsStay
  <2>2. CASE k \in {"posted", "burst", "lost", "rx", "tx"}
    BY <1>2, <2>2 DEF Stays, HowMany, Addr, Hand
  <2>3. CASE k = "out"
    <3>1. w \in Ports /\ w # p BY <1>9, <2>3 DEF IsList, Entry, Address, Stale
    <3>2. out'[w] = out[w] BY <1>7, <3>1
    <3> QED BY <2>3, <3>2 DEF Stays, HowMany, Addr
  <2>4. CASE k \in Entry
    <3>1. k # a BY <2>4 DEF IsList, Entry, Address, Stale
    <3>2. HowMany(k, w) = Of(k, flight) BY <2>4 DEF HowMany, Entry, Address, Stale
    <3>3. Of(k, flight) \in Nat BY <3>2, HowManyTyped
    <3>4. Of(k, flight)' = Of(k, flight) BY <1>4, <3>1, <3>3
    <3> QED BY <2>4, <3>4 DEF Stays, HowMany, Addr, Entry, Address, Stale
  <2> QED BY <2>1, <2>2, <2>3, <2>4 DEF IsList
<1>11. Shrinks(a, 0, c)
  <2> SUFFICES ASSUME NEW k, NEW w, k = a, w = 0
               PROVE  /\ HowMany(k, w)' = c - 1
                      /\ \A i \in 0 .. c - 2 : Addr(k, w, i)' = Addr(k, w, i)
    BY DEF Shrinks
  <2> QED BY <1>3, <1>4, <1>5 DEF HowMany, Addr, Entry, Address, Stale
<1>12. IsList(a, 0) /\ HowMany(a, 0) = c /\ Addr(a, 0, c - 1) = a
  BY <1>3, <1>5 DEF IsList, HowMany, Addr, Entry, Address, Stale
<1>13. IsList(k1, p) /\ HowMany(k1, p) = m /\ ~(k1 = a /\ p = 0)
  BY <1>3, <1>6, <1>9 DEF IsList, HowMany, Entry, Address, Stale
<1>14. ASSUME NEW k, NEW w, k = k1, w = p
       PROVE  /\ HowMany(k, w)' = m + 1
              /\ \A i : i = 0 => Addr(k, w, i)' = a
              /\ \A i \in 1 .. m : Addr(k, w, i)' = Addr(k1, p, i - 1)
  <2>1. /\ HowMany(k, w)' = m + 1
        /\ \A i : Addr(k, w, i)' = Append(s, a)[(m + 1) - i] /\ Addr(k1, p, i) = s[m - i]
    BY <1>6, <1>7, <1>9, <1>14 DEF HowMany, Addr
  <2>2. (m + 1) - 0 = m + 1 OBVIOUS
  <2>3. ASSUME NEW i \in 1 .. m PROVE Append(s, a)[(m + 1) - i] = s[m - (i - 1)]
    <3>1. (m + 1) - i \in 1 .. m /\ m - (i - 1) = (m + 1) - i OBVIOUS
    <3> QED BY <1>7, <3>1
  <2>4. ASSUME NEW i, i = 0 PROVE Addr(k, w, i)' = a BY <1>7, <2>1, <2>2, <2>4
  <2>5. ASSUME NEW i \in 1 .. m PROVE Addr(k, w, i)' = Addr(k1, p, i - 1)
    <3>1. Addr(k, w, i)' = Append(s, a)[(m + 1) - i] BY <2>1
    <3>2. Addr(k1, p, i - 1) = s[m - (i - 1)] BY <2>1
    <3> QED BY <2>3, <3>1, <3>2
  <2> QED BY <2>1, <2>4, <2>5
<1>15. Insert(k1, p, a, 0, m, c) BY <1>10, <1>11, <1>12, <1>13, <1>14 DEF Insert
<1>16. Kept BY <1>15, InsertKeeps DEF PlaceInv
<1>17. Stored' BY <1>2, <1>8, StoredQuiet DEF PlaceInv
<1> QED BY <1>2, <1>16, <1>17, PlaceFrom

(* When the lists and what the threads do are as before, so are the places. *)
LEMMA PlaceStays ==
  ASSUME PlaceInv,
         UNCHANGED <<watched, slabs, nAvail, content, ready, slabCons, nCons, posted, burst,
                     slabProd, nProd, flight, out, lost, step, freed, count, empty>>
  PROVE  PlaceInv'
<1>1. \A q : Prod(q)' = Prod(q) /\ ProdHeld(q)' = ProdHeld(q)
  BY DEF Prod, Trading, ProdHeld, Resetting
<1>2. ASSUME NEW k, NEW w PROVE Stays(k, w)
  BY <1>1 DEF Stays, HowMany, Addr, SlabAt, Hand, Of
<1>3. Kept BY <1>2, AllStay DEF PlaceInv
<1>4. Stored' BY <1>1 DEF PlaceInv, Stored
<1>5. Fresh' BY DEF PlaceInv, Fresh
<1>6. Gone' <=> Gone BY DEF Gone
<1> QED BY <1>3, <1>4, <1>5, <1>6 DEF PlaceInv, Kept

(* The steps of a sending thread and of the kernel below it. *)
LEMMA PlaceSend ==
  ASSUME Shape, CountInv, PlaceInv, NEW p \in Ports, SendStep(p)
  PROVE  PlaceInv'
<1>1. CASE Peek(p) \/ Release(p) \/ Submit(p) \/ KernelTake(p) \/ KernelComplete(p)
  <2>1. UNCHANGED <<watched, slabs, nAvail, content, ready, slabCons, nCons, posted, burst,
                    slabProd, nProd, flight, out, lost, step, freed, count, empty>>
    BY <1>1 DEF Peek, Release, Submit, KernelTake, KernelComplete, pool, cons, prod, local
  <2> QED BY <2>1, PlaceStays
<1> QED BY <1>1, PlacePull, PlaceReap DEF SendStep

(* No other spot has the slab of port p's producer. *)
LEMMA ProdAlone ==
  ASSUME Shape, SlabInv, ready = NPorts, NEW p \in Ports
  PROVE  /\ Prod(p) \in Slabs
         /\ \A q \in Ports : slabCons[q] \in Slabs /\ slabCons[q] # Prod(p)
         /\ \A q \in Ports : Prod(q) \in Slabs /\ (q # p => Prod(q) # Prod(p))
         /\ \A n \in Slabs : n < nAvail => slabs[n] \in Slabs /\ slabs[n] # Prod(p)
<1>1. \A q \in Ports : Prod(q) \in Slabs /\ slabCons[q] \in Slabs
  BY ThreadsAre DEF Prod, Shape
<1>2. \A q \in Ports : Spot("cons", q) /\ Spot("prod", q) /\ SlabAt("cons", q) = slabCons[q]
                         /\ SlabAt("prod", q) = Prod(q)
  BY SpotsReady DEF SlabAt
<1>3. ASSUME NEW n \in Slabs, n < nAvail PROVE Spot("full", n) /\ SlabAt("full", n) = slabs[n]
  BY <1>3, PoolAssumption DEF Spot, SlabAt, SlabInv, Room, Slabs, Shape
<1>4. "cons" # "prod" /\ "full" # "prod" OBVIOUS
<1>5. \A q \in Ports : slabCons[q] # Prod(p) /\ (q # p => Prod(q) # Prod(p))
  BY <1>2, <1>4 DEF SlabInv, Apart
<1>6. \A n \in Slabs : n < nAvail => slabs[n] # Prod(p)
  BY <1>2, <1>3, <1>4 DEF SlabInv, Apart
<1> QED BY <1>1, <1>5, <1>6 DEF Shape

(* A step of bcache_prod reaches only the producer slab of its port and    *)
(* the hand of its thread.                                                 *)
Reach(th, p, l) ==
  /\ step' = [step EXCEPT ![th] = l]
  /\ UNCHANGED <<nCons, slabCons, posted, burst, flight, out, lost, ready, watched>>
  /\ \A u \in Threads : u # th => empty'[u] = empty[u] /\ freed'[u] = freed[u] /\ count'[u] = count[u]
  /\ \A q \in Ports : q # p => slabProd'[q] = slabProd[q] /\ nProd'[q] = nProd[q]
  /\ \A s \in Slabs : s # Prod(p) => content'[s] = content[s]

(* It leaves all other lists alone. *)
LEMMA ReachLists ==
  ASSUME Shape, CountInv, OneFreer, SlabInv, ready = NPorts, NEW th \in Threads,
         step[th] # "idle", NEW p \in Ports, p = PortOf(th), NEW l, Reach(th, p, l)
  PROVE  /\ \A k, w : k \in {"posted", "burst", "out", "lost"} \cup Entry => Stays(k, w)
         /\ \A k, w : k \in {"rx", "tx"} /\ w \in Ports /\ <<k, w>> # th => Stays(k, w)
         /\ \A w \in Ports : \A k : k = "cons" => Stays(k, w)
         /\ \A w \in Ports : \A k : k = "prod" /\ w # p => Stays(k, w)
         /\ UNCHANGED <<slabs, nAvail>> => \A w \in Slabs : \A k : k = "full" => Stays(k, w)
<1> USE DEF Reach
<1>1. step'[th] = l /\ \A u \in Threads : u # th => step'[u] = step[u] BY DEF Shape
<1>2. \A k, w : k \in {"posted", "burst", "out", "lost"} \cup Entry => Stays(k, w)
  BY DEF Stays, HowMany, Addr, Of, Entry, Address, Stale
<1>3. ASSUME NEW k, NEW w, k \in {"rx", "tx"}, w \in Ports, <<k, w>> # th PROVE Stays(k, w)
  <2>1. <<k, w>> \in Threads BY <1>3 DEF Threads
  <2>2. step'[<<k, w>>] = step[<<k, w>>] /\ freed'[<<k, w>>] = freed[<<k, w>>]
    BY <1>1, <1>3, <2>1
  <2> QED BY <1>3, <2>2 DEF Stays, HowMany, Addr, Hand
<1>4. ASSUME NEW w \in Ports, NEW k, k = "cons" PROVE Stays(k, w)
  <2>1. content'[slabCons[w]] = content[slabCons[w]] BY ProdAlone
  <2> QED BY <1>4, <2>1 DEF Stays, HowMany, Addr, SlabAt
<1>5. ASSUME NEW w \in Ports, NEW k, k = "prod", w # p PROVE Stays(k, w)
  <2>1. content'[Prod(w)] = content[Prod(w)] BY <1>5, ProdAlone
  <2>2. \A q \in Ports : q # p => Prod(q)' = Prod(q) BY ActiveProdNext DEF CountInv
  <2>3. Prod(w)' = Prod(w) BY <1>5, <2>2
  <2>4. /\ <<"rx", w>> \in Threads /\ <<"tx", w>> \in Threads
        /\ <<"rx", w>> # th /\ <<"tx", w>> # th
    BY <1>5, ThreadsAre
  <2>5. ProdHeld(w)' = ProdHeld(w) BY <1>1, <1>5, <2>4 DEF ProdHeld, Resetting
  <2> QED BY <1>5, <2>1, <2>3, <2>5 DEF Stays, HowMany, Addr, SlabAt
<1>6. ASSUME UNCHANGED <<slabs, nAvail>>, NEW w \in Slabs, NEW k, k = "full" PROVE Stays(k, w)
  <2>1. CASE w < nAvail
    <3>1. content'[slabs[w]] = content[slabs[w]] BY <2>1, ProdAlone
    <3> QED BY <1>6, <3>1 DEF Stays, HowMany, Addr, SlabAt
  <2>2. CASE ~(w < nAvail)
    <3>1. HowMany(k, w)' = 0 /\ HowMany(k, w) = 0 BY <1>6, <2>2 DEF HowMany
    <3>2. 0 .. 0 - 1 = {} OBVIOUS
    <3> QED BY <3>1, <3>2 DEF Stays
  <2> QED BY <2>1, <2>2
<1> QED BY <1>2, <1>3, <1>4, <1>5, <1>6

(* What the other threads have stored stays, too. *)
LEMMA ReachStored ==
  ASSUME Shape, CountInv, OneFreer, SlabInv, Stored, ready = NPorts, NEW th \in Threads,
         step[th] # "idle", NEW p \in Ports, p = PortOf(th), NEW l, Reach(th, p, l),
         l = "count" => (content[Prod(p)][count[th]] = freed[th])',
         l \in {"switch", "reset"} => (content[Prod(p)][0] = freed[th])'
  PROVE  Stored'
<1>1. step'[th] = l /\ \A u \in Threads : u # th => step'[u] = step[u] BY DEF Shape, Reach
<1>2. \A q \in Ports : q # p => Prod(q)' = Prod(q) BY ActiveProdNext DEF CountInv, Reach
<1> SUFFICES ASSUME NEW u \in Threads
             PROVE  (/\ step[u] = "count" => content[Prod(PortOf(u))][count[u]] = freed[u]
                     /\ step[u] \in {"switch", "reset"} => content[Prod(PortOf(u))][0] = freed[u])'
  BY DEF Stored
<1>3. PICK q \in Ports : q = PortOf(u) BY ThreadsAre
<1>4. Prod(PortOf(u))' = Prod(q)' /\ Prod(PortOf(u)) = Prod(q) BY <1>3
<1>5. CASE u = th
  <2>1. q = p BY <1>3, <1>5
  <2>2. Prod(q)' = Prod(p)' BY <2>1
  <2> QED BY <1>1, <1>4, <1>5, <2>2
<1>6. CASE u # th /\ q = p
  <2>1. step[u] = "idle" BY <1>3, <1>6, OneActive DEF CountInv
  <2> QED BY <1>1, <1>6, <2>1
<1>7. CASE u # th /\ q # p
  <2>1. Prod(q)' = Prod(q) BY <1>2, <1>7
  <2>2. content'[Prod(q)] = content[Prod(q)] BY <1>7, ProdAlone DEF Reach
  <2>3. step'[u] = step[u] /\ freed'[u] = freed[u] /\ count'[u] = count[u] BY <1>1, <1>7 DEF Reach
  <2> QED BY <1>4, <2>1, <2>2, <2>3 DEF Stored
<1> QED BY <1>5, <1>6, <1>7

(* Every list but the producer slab and the hand stays. *)
LEMMA ReachOthers ==
  ASSUME Shape, CountInv, OneFreer, SlabInv, ready = NPorts, NEW th \in Threads,
         step[th] # "idle", NEW p \in Ports, p = PortOf(th), NEW l, Reach(th, p, l),
         UNCHANGED <<slabs, nAvail>>, NEW h, th = <<h, p>>
  PROVE  \A k, w : IsList(k, w) /\ ~(k = "prod" /\ w = p) /\ ~(k = h /\ w = p) => Stays(k, w)
<1> SUFFICES ASSUME NEW k, NEW w, IsList(k, w), ~(k = "prod" /\ w = p), ~(k = h /\ w = p)
             PROVE  Stays(k, w)
  OBVIOUS
<1>1. CASE k \in {"posted", "burst", "out", "lost"} \cup Entry BY <1>1, ReachLists
<1>2. CASE k \in {"rx", "tx"} /\ w \in Ports
  <2>1. <<k, w>> # th BY <1>2
  <2> QED BY <1>2, <2>1, ReachLists
<1>3. CASE k = "cons" /\ w \in Ports BY <1>3, ReachLists
<1>4. CASE k = "prod" /\ w \in Ports BY <1>4, ReachLists
<1>5. CASE k = "full" /\ w \in Slabs BY <1>5, ReachLists
<1> QED BY <1>1, <1>2, <1>3, <1>4, <1>5 DEF IsList

(* The producer slab of a port with a thread in bcache_prod, before and after. *)
LEMMA ProdList ==
  ASSUME Shape, CountInv, OneFreer, SlabInv, ready = NPorts, NEW th \in Threads,
         step[th] # "idle", NEW p \in Ports, p = PortOf(th), NEW l, Reach(th, p, l)
  PROVE  /\ \A k : k = "prod" =>
              /\ HowMany(k, p) = (IF Resetting(th) THEN 0 ELSE nProd[p])
              /\ HowMany(k, p)' = (IF l \in {"first", "switch", "reset"} THEN 0 ELSE nProd'[p])
              /\ \A i : /\ Addr(k, p, i) = content[IF Trading(th) THEN empty[th] ELSE slabProd[p]][i]
                        /\ Addr(k, p, i)' = content'[IF l \in {"first", "switch"}
                                                     THEN empty'[th] ELSE slabProd'[p]][i]
         /\ Prod(p) = IF Trading(th) THEN empty[th] ELSE slabProd[p]
         /\ Prod(p)' = IF l \in {"first", "switch"} THEN empty'[th] ELSE slabProd'[p]
<1>1. Roles BY DEF CountInv
<1>2. ProdHeld(p) = IF Resetting(th) THEN 0 ELSE nProd[p] BY <1>1, ActivePort
<1>3. ProdHeld(p)' = IF l \in {"first", "switch", "reset"} THEN 0 ELSE nProd'[p]
  BY <1>1, ActivePortNext DEF Reach
<1>4. Prod(p) = IF Trading(th) THEN empty[th] ELSE slabProd[p] BY <1>1, ActiveProd
<1>5. Prod(p)' = IF l \in {"first", "switch"} THEN empty'[th] ELSE slabProd'[p]
  BY <1>1, ActiveProdNext DEF Reach
<1>6. \A k : k = "prod" =>
        /\ HowMany(k, p) = ProdHeld(p) /\ HowMany(k, p)' = ProdHeld(p)'
        /\ \A i : Addr(k, p, i) = content[Prod(p)][i] /\ Addr(k, p, i)' = content'[Prod(p)'][i]
  BY DEF HowMany, Addr, SlabAt
<1> QED BY <1>2, <1>3, <1>4, <1>5, <1>6

(* The hand of the thread. *)
LEMMA HandList ==
  ASSUME Shape, NEW th \in Threads, step[th] # "idle", NEW p \in Ports, NEW l, Reach(th, p, l),
         NEW h, th = <<h, p>>
  PROVE  /\ h \in {"rx", "tx"} /\ IsList(h, p) /\ HowMany(h, p) = 1 /\ Addr(h, p, 0) = freed[th]
         /\ l # "idle" /\ freed' = freed => Stays(h, p)
         /\ l = "idle" => Shrinks(h, p, 1)
<1>1. h \in {"rx", "tx"} BY DEF Threads
<1>2. IsList(h, p) /\ HowMany(h, p) = 1 /\ Addr(h, p, 0) = freed[th]
  BY <1>1 DEF IsList, HowMany, Addr, Hand
<1>3. step'[th] = l BY DEF Shape, Reach
<1>4. l # "idle" /\ freed' = freed => Stays(h, p)
  BY <1>1, <1>3 DEF Stays, HowMany, Addr, Hand
<1>5. ASSUME l = "idle" PROVE Shrinks(h, p, 1)
  <2>1. \A k, w : k = h /\ w = p => HowMany(k, w)' = 0 BY <1>1, <1>3, <1>5 DEF HowMany, Hand
  <2>2. 1 - 1 = 0 /\ 0 .. 1 - 2 = {} OBVIOUS
  <2> QED BY <2>1, <2>2 DEF Shrinks
<1> QED BY <1>1, <1>2, <1>4, <1>5

(* A step that writes beyond the addresses counted, or nothing. *)
LEMMA PlaceQuiet ==
  ASSUME Shape, CountInv, OneFreer, SlabInv, PlaceInv, ready = NPorts, NEW th \in Threads,
         step[th] # "idle", NEW p \in Ports, p = PortOf(th), NEW l, Reach(th, p, l),
         UNCHANGED <<slabs, nAvail, freed>>, l # "idle",
         \A k : k = "prod" => Stays(k, p),
         l = "count" => (content[Prod(p)][count[th]] = freed[th])',
         l \in {"switch", "reset"} => (content[Prod(p)][0] = freed[th])'
  PROVE  PlaceInv'
<1>1. PICK h : th = <<h, p>> BY ThreadsAre
<1>2. Stays(h, p) BY <1>1, HandList
<1>3. ASSUME NEW k, NEW w, IsList(k, w) PROVE Stays(k, w)
  <2>1. CASE k = "prod" /\ w = p BY <2>1
  <2>2. CASE k = h /\ w = p
    <3>1. Stays(h, p) => Stays(k, w) BY <2>2
    <3> QED BY <1>2, <3>1
  <2>3. CASE ~(k = "prod" /\ w = p) /\ ~(k = h /\ w = p) BY <1>1, <1>3, <2>3, ReachOthers
  <2> QED BY <2>1, <2>2, <2>3
<1>4. Kept BY <1>3, AllStay DEF PlaceInv
<1>5. Stored' BY ReachStored DEF PlaceInv
<1>6. UNCHANGED <<watched, ready>> BY DEF Reach
<1> QED BY <1>4, <1>5, <1>6, PlaceFrom

(* A step that counts the buffer stored at place m of the producer slab. *)
LEMMA PlaceCounts ==
  ASSUME Shape, CountInv, OneFreer, SlabInv, PlaceInv, ready = NPorts, NEW th \in Threads,
         step[th] # "idle", NEW p \in Ports, p = PortOf(th), Reach(th, p, "idle"),
         UNCHANGED <<slabs, nAvail, content, slabProd>>, step[th] \in {"count", "reset"},
         NEW m \in Nat, m = (IF step[th] = "reset" THEN 0 ELSE nProd[p]), nProd'[p] = m + 1,
         content[slabProd[p]][m] = freed[th]
  PROVE  PlaceInv'
<1>1. PICK h : th = <<h, p>> BY ThreadsAre
<1>2. PICK k : k = "prod" OBVIOUS
<1>3. PICK a : a = freed[th] OBVIOUS
<1>4. PICK l : l = "idle" OBVIOUS
<1>5. Reach(th, p, l) BY <1>4
<1>6. /\ h \in {"rx", "tx"} /\ IsList(h, p) /\ HowMany(h, p) = 1 /\ Addr(h, p, 0) = a
      /\ Shrinks(h, p, 1)
  BY <1>1, <1>3, <1>4, <1>5, HandList
<1>7. /\ HowMany(k, p) = m
      /\ \A j : j = "prod" => /\ HowMany(j, p)' = m + 1
                              /\ \A i : Addr(j, p, i)' = content[slabProd[p]][i]
                                        /\ Addr(j, p, i) = content[slabProd[p]][i]
  <2>1. ~Trading(th) /\ (Resetting(th) <=> step[th] = "reset") BY DEF Trading, Resetting
  <2>2. \A j : j = "prod" =>
              /\ HowMany(j, p) = (IF Resetting(th) THEN 0 ELSE nProd[p])
              /\ HowMany(j, p)' = (IF l \in {"first", "switch", "reset"} THEN 0 ELSE nProd'[p])
              /\ \A i : /\ Addr(j, p, i) = content[IF Trading(th) THEN empty[th] ELSE slabProd[p]][i]
                        /\ Addr(j, p, i)' = content'[IF l \in {"first", "switch"}
                                                     THEN empty'[th] ELSE slabProd'[p]][i]
    BY <1>5, ProdList
  <2> QED BY <1>2, <1>4, <2>1, <2>2
<1>8. Grows(k, p, m, a)
  <2>1. content[slabProd[p]][m] = a BY <1>3
  <2> QED BY <1>2, <1>7, <2>1 DEF Grows
<1>9. Others(k, p, h, p) BY <1>1, <1>2, <1>5, ReachOthers DEF Others
<1>10. Push(k, p, h, p)
  <2>1. IsList(k, p) /\ ~(k = h /\ p = p) BY <1>2, <1>6 DEF IsList
  <2>2. 1 \in Nat \ {0} /\ 1 - 1 = 0 OBVIOUS
  <2>3. Addr(h, p, 1 - 1) = a BY <1>6
  <2> QED BY <1>6, <1>7, <1>8, <1>9, <2>1, <2>2, <2>3, PushIs
<1>11. Kept BY <1>10, PushKeeps DEF PlaceInv
<1>12. Stored' BY <1>4, <1>5, ReachStored DEF PlaceInv
<1>13. UNCHANGED <<watched, ready>> BY DEF Reach
<1> QED BY <1>11, <1>12, <1>13, PlaceFrom

(* The filled slab goes to the pool with all its addresses. *)
LEMMA PlaceTrade ==
  ASSUME Shape, CountInv, OneFreer, FillSuffices, SlabInv, PlaceInv, ready = NPorts,
         NEW th \in Threads, ProdTrade(th), NEW p \in Ports, p = PortOf(th)
  PROVE  PlaceInv'
<1> USE PoolAssumption
<1>1. /\ step[th] = "trade" /\ step' = [step EXCEPT ![th] = "first"]
      /\ UNCHANGED <<watched, ready, nCons, slabCons, posted, burst, flight, out, lost,
                     slabProd, nProd, content, freed, count>>
      /\ slabs' = [slabs EXCEPT ![nAvail] = slabProd[p]] /\ nAvail' = nAvail + 1
      /\ empty' = [empty EXCEPT ![th] = slabs[nAvail]] /\ nAvail < NSlabs
  BY DEF ProdTrade, cons, prod, traffic, Goto
<1>2. PICK n \in Nat : n = nAvail /\ n \in Slabs BY <1>1 DEF Shape, Slabs
<1>3. PICK l : l = "first" OBVIOUS
<1>4. Reach(th, p, l)
  <2>1. \A u \in Threads : u # th => empty'[u] = empty[u] BY <1>1 DEF Shape
  <2> QED BY <1>1, <1>3, <2>1 DEF Reach
<1>5. PICK h : th = <<h, p>> BY ThreadsAre
<1>6. /\ \A j : j = "prod" =>
           /\ HowMany(j, p) = SlabSize /\ HowMany(j, p)' = 0
           /\ \A i : Addr(j, p, i) = content[slabProd[p]][i]
      /\ Prod(p) = slabProd[p]
  <2>1. ~Trading(th) /\ ~Resetting(th) /\ nProd[p] = SlabSize
    BY <1>1 DEF Trading, Resetting, CountInv, Locals
  <2>2. step[th] # "idle" BY <1>1
  <2>3. /\ \A j : j = "prod" =>
             /\ HowMany(j, p) = (IF Resetting(th) THEN 0 ELSE nProd[p])
             /\ HowMany(j, p)' = (IF l \in {"first", "switch", "reset"} THEN 0 ELSE nProd'[p])
             /\ \A i : /\ Addr(j, p, i) = content[IF Trading(th) THEN empty[th] ELSE slabProd[p]][i]
                       /\ Addr(j, p, i)' = content'[IF l \in {"first", "switch"}
                                                    THEN empty'[th] ELSE slabProd'[p]][i]
        /\ Prod(p) = IF Trading(th) THEN empty[th] ELSE slabProd[p]
    BY <1>4, <2>2, ProdList
  <2> QED BY <1>3, <2>1, <2>3
<1>7. /\ slabs'[n] = slabProd[p] /\ \A i \in Slabs : i # n => slabs'[i] = slabs[i]
  BY <1>1, <1>2 DEF Shape
<1>8. PICK k1 : k1 = "full" OBVIOUS
<1>9. PICK k2 : k2 = "prod" OBVIOUS
<1>10. HowMany(k1, n) = 0 /\ IsList(k1, n) /\ IsList(k2, p) /\ HowMany(k2, p) = SlabSize
  BY <1>2, <1>6, <1>8, <1>9 DEF HowMany, IsList
<1>11. \A k, w : k = k1 /\ w = n =>
         /\ HowMany(k, w)' = SlabSize
         /\ \A i : Addr(k, w, i)' = content[slabProd[p]][i]
  BY <1>1, <1>2, <1>7, <1>8 DEF HowMany, Addr, SlabAt
<1>12. ASSUME NEW k, NEW w, IsList(k, w), ~(k = k1 /\ w = n), ~(k = k2 /\ w = p)
       PROVE  Stays(k, w)
  <2>0. step[th] # "idle" BY <1>1
  <2>1. CASE k \in {"posted", "burst", "out", "lost"} \cup Entry BY <1>4, <2>0, <2>1, ReachLists
  <2>2. CASE k \in {"rx", "tx"} /\ w \in Ports
    <3>1. CASE <<k, w>> # th BY <1>4, <2>0, <2>2, <3>1, ReachLists
    <3>2. CASE <<k, w>> = th
      <4>1. k = h /\ w = p BY <1>5, <3>2
      <4>2. Stays(h, p) BY <1>1, <1>3, <1>4, <1>5, <2>0, HandList
      <4> QED BY <4>1, <4>2
    <3> QED BY <3>1, <3>2
  <2>3. CASE k = "cons" /\ w \in Ports BY <1>4, <2>0, <2>3, ReachLists
  <2>4. CASE k = "prod" /\ w \in Ports BY <1>4, <1>9, <1>12, <2>0, <2>4, ReachLists
  <2>5. CASE k = "full" /\ w \in Slabs
    <3>1. w # n /\ slabs'[w] = slabs[w] BY <1>7, <1>8, <1>12, <2>5
    <3>2. w < nAvail <=> w < nAvail' BY <1>1, <1>2, <2>5, <3>1 DEF Slabs
    <3> QED BY <1>1, <2>5, <3>1, <3>2 DEF Stays, HowMany, Addr, SlabAt
  <2> QED BY <1>12, <2>1, <2>2, <2>3, <2>4, <2>5 DEF IsList
<1>13. Pass(k1, n, k2, p)
  <2>1. ~(k1 = k2 /\ n = p) BY <1>8, <1>9
  <2>2. \A i : Addr(k2, p, i) = content[slabProd[p]][i] BY <1>6, <1>9
  <2>3. \A k, w : k = k2 /\ w = p => HowMany(k, w)' = 0 BY <1>6, <1>9
  <2> QED BY <1>10, <1>11, <1>12, <2>1, <2>2, <2>3 DEF Pass
<1>14. Kept BY <1>13, PassKeeps DEF PlaceInv
<1>15. Stored' BY <1>1, <1>3, <1>4, ReachStored DEF PlaceInv
<1> QED BY <1>1, <1>14, <1>15, PlaceFrom

(* The steps of bcache_prod. *)
LEMMA PlaceThread ==
  ASSUME Shape, CountInv, OneFreer, FillSuffices, SlabInv, PlaceInv, NEW th \in Threads, ProdStep(th)
  PROVE  PlaceInv'
<1> USE PoolAssumption
<1>1. PICK p \in Ports : p = PortOf(th) BY ThreadsAre
<1>2. step[th] # "idle"
  BY DEF ProdStep, ProdCheck, ProdStore, ProdCount, ProdTrade, ProdFirst,
         ProdSwitch, ProdReset
<1>3. ready = NPorts BY <1>2 DEF CountInv, Starting, Shape
<1>4. /\ Prod(p) \in Slabs /\ content \in [Slabs -> [Slots -> Entry]] BY <1>3, ProdAlone DEF Shape
<1>5. Prod(p) = IF Trading(th) THEN empty[th] ELSE slabProd[p]
  BY <1>1, <1>2, ActiveProd DEF CountInv
<1>6. CASE ProdCheck(th)
  <2>1. PICK l : /\ l \in {"store", "trade"} /\ step' = [step EXCEPT ![th] = l]
                 /\ count' = [count EXCEPT ![th] = nProd[p]] /\ step[th] = "check"
    BY <1>1, <1>6 DEF ProdCheck, Goto
  <2>2. UNCHANGED <<nAvail, slabs, slabCons, ready, empty, slabProd, nProd, watched, nCons,
                    posted, burst, flight, out, lost, content, freed>>
    BY <1>6 DEF ProdCheck, pool, cons, prod, traffic
  <2>3. Reach(th, p, l)
    <3>1. \A u \in Threads : u # th => count'[u] = count[u] BY <2>1 DEF Shape
    <3> QED BY <2>1, <2>2, <3>1 DEF Reach
  <2>4. \A k : k = "prod" => Stays(k, p)
    BY <1>1, <1>2, <1>3, <2>1, <2>2, <2>3, ProdList DEF Stays, Trading, Resetting
  <2> QED BY <1>1, <1>2, <1>3, <2>1, <2>2, <2>3, <2>4, PlaceQuiet
<1>7. CASE ProdStore(th)
  <2>1. PICK l : l = "count" OBVIOUS
  <2>2. /\ step' = [step EXCEPT ![th] = l] /\ step[th] = "store"
        /\ UNCHANGED <<nAvail, slabs, slabCons, ready, empty, slabProd, nProd, watched, nCons,
                       posted, burst, flight, out, lost, freed, count>>
        /\ content' = [content EXCEPT ![slabProd[p]][count[th]] = freed[th]]
    BY <1>1, <1>7, <2>1 DEF ProdStore, pool, cons, prod, traffic, local, Goto
  <2>3. Prod(p) = slabProd[p] BY <1>5, <2>2 DEF Trading
  <2>4. count[th] = nProd[p] /\ count[th] \in Slots
    BY <1>1, <2>2 DEF CountInv, Locals, Shape, Slots
  <2>5. /\ \A s \in Slabs : s # Prod(p) => content'[s] = content[s]
        /\ \A i \in Slots : i # count[th] => content'[slabProd[p]][i] = content[slabProd[p]][i]
        /\ content'[slabProd[p]][count[th]] = freed[th]
    BY <1>4, <2>2, <2>3, <2>4
  <2>6. Reach(th, p, l) BY <2>2, <2>5 DEF Reach
  <2>7. ~Trading(th) /\ ~Resetting(th) BY <2>2 DEF Trading, Resetting
  <2>8. /\ \A j : j = "prod" =>
             /\ HowMany(j, p) = (IF Resetting(th) THEN 0 ELSE nProd[p])
             /\ HowMany(j, p)' = (IF l \in {"first", "switch", "reset"} THEN 0 ELSE nProd'[p])
             /\ \A i : /\ Addr(j, p, i) = content[IF Trading(th) THEN empty[th] ELSE slabProd[p]][i]
                       /\ Addr(j, p, i)' = content'[IF l \in {"first", "switch"}
                                                    THEN empty'[th] ELSE slabProd'[p]][i]
        /\ Prod(p)' = IF l \in {"first", "switch"} THEN empty'[th] ELSE slabProd'[p]
    BY <1>1, <1>2, <1>3, <2>6, ProdList
  <2>9. \A i \in 0 .. nProd[p] - 1 : i \in Slots /\ i # count[th] BY <2>4 DEF Slots
  <2>10. \A k : k = "prod" => Stays(k, p) BY <2>1, <2>2, <2>5, <2>7, <2>8, <2>9 DEF Stays
  <2>11. (content[Prod(p)][count[th]] = freed[th])' BY <2>1, <2>2, <2>5, <2>8
  <2> QED BY <1>1, <1>2, <1>3, <2>1, <2>2, <2>6, <2>10, <2>11, PlaceQuiet
<1>8. CASE ProdFirst(th)
  <2>1. PICK l : l = "switch" OBVIOUS
  <2>2. /\ step' = [step EXCEPT ![th] = l] /\ step[th] = "first"
        /\ UNCHANGED <<nAvail, slabs, slabCons, ready, empty, slabProd, nProd, watched, nCons,
                       posted, burst, flight, out, lost, freed, count>>
        /\ content' = [content EXCEPT ![empty[th]][0] = freed[th]]
    BY <1>8, <2>1 DEF ProdFirst, pool, cons, prod, traffic, local, Goto
  <2>3. Prod(p) = empty[th] BY <1>5, <2>2 DEF Trading
  <2>4. 0 \in Slots BY DEF Slots
  <2>5. /\ \A s \in Slabs : s # Prod(p) => content'[s] = content[s]
        /\ content'[empty[th]][0] = freed[th]
    BY <1>4, <2>2, <2>3, <2>4
  <2>6. Reach(th, p, l) BY <2>2, <2>5 DEF Reach
  <2>7. Resetting(th) BY <2>2 DEF Resetting
  <2>8. /\ \A j : j = "prod" =>
             /\ HowMany(j, p) = (IF Resetting(th) THEN 0 ELSE nProd[p])
             /\ HowMany(j, p)' = (IF l \in {"first", "switch", "reset"} THEN 0 ELSE nProd'[p])
        /\ Prod(p)' = IF l \in {"first", "switch"} THEN empty'[th] ELSE slabProd'[p]
    BY <1>1, <1>2, <1>3, <2>6, ProdList
  <2>9. 0 .. 0 - 1 = {} OBVIOUS
  <2>10. \A k : k = "prod" => Stays(k, p) BY <2>1, <2>7, <2>8, <2>9 DEF Stays
  <2>11. (content[Prod(p)][0] = freed[th])' BY <2>1, <2>2, <2>5, <2>8
  <2> QED BY <1>1, <1>2, <1>3, <2>1, <2>2, <2>6, <2>10, <2>11, PlaceQuiet
<1>9. CASE ProdSwitch(th)
  <2>1. PICK l : l = "reset" OBVIOUS
  <2>2. /\ step' = [step EXCEPT ![th] = l] /\ step[th] = "switch"
        /\ UNCHANGED <<nAvail, slabs, slabCons, ready, empty, content, nProd, watched, nCons,
                       posted, burst, flight, out, lost, freed, count>>
        /\ slabProd' = [slabProd EXCEPT ![p] = empty[th]]
    BY <1>1, <1>9, <2>1 DEF ProdSwitch, pool, cons, prod, traffic, local, Goto
  <2>3. Prod(p) = empty[th] BY <1>5, <2>2 DEF Trading
  <2>4. slabProd'[p] = empty[th] /\ \A q \in Ports : q # p => slabProd'[q] = slabProd[q]
    BY <2>2 DEF Shape
  <2>5. Reach(th, p, l) BY <2>2, <2>4 DEF Reach
  <2>6. Resetting(th) BY <2>2 DEF Resetting
  <2>7. /\ \A j : j = "prod" =>
             /\ HowMany(j, p) = (IF Resetting(th) THEN 0 ELSE nProd[p])
             /\ HowMany(j, p)' = (IF l \in {"first", "switch", "reset"} THEN 0 ELSE nProd'[p])
        /\ Prod(p)' = IF l \in {"first", "switch"} THEN empty'[th] ELSE slabProd'[p]
    BY <1>1, <1>2, <1>3, <2>5, ProdList
  <2>8. 0 .. 0 - 1 = {} OBVIOUS
  <2>9. \A k : k = "prod" => Stays(k, p) BY <2>1, <2>6, <2>7, <2>8 DEF Stays
  <2>10. content[Prod(p)][0] = freed[th] BY <1>1, <2>2 DEF PlaceInv, Stored
  <2>11. (content[Prod(p)][0] = freed[th])' BY <2>1, <2>2, <2>3, <2>4, <2>7, <2>10
  <2> QED BY <1>1, <1>2, <1>3, <2>1, <2>2, <2>5, <2>9, <2>11, PlaceQuiet
<1>10. CASE ProdCount(th)
  <2>1. /\ step' = [step EXCEPT ![th] = "idle"] /\ step[th] = "count"
        /\ UNCHANGED <<nAvail, slabs, slabCons, ready, slabProd, content, watched, nCons,
                       posted, burst, flight, out, lost>>
        /\ nProd' = [nProd EXCEPT ![p] = count[th] + 1]
        /\ freed' = [freed EXCEPT ![th] = Stale] /\ count' = [count EXCEPT ![th] = 0]
        /\ empty' = [empty EXCEPT ![th] = 0]
    BY <1>1, <1>10 DEF ProdCount, pool, cons, traffic, Goto, Return
  <2>2. PICK m \in Nat : m = nProd[p] /\ m = count[th]
    BY <1>1, <2>1 DEF CountInv, Locals, Shape
  <2>3. nProd'[p] = m + 1 /\ \A q \in Ports : q # p => nProd'[q] = nProd[q]
    BY <2>1, <2>2 DEF Shape
  <2>4. Reach(th, p, "idle")
    <3>1. \A u \in Threads : u # th => empty'[u] = empty[u] /\ freed'[u] = freed[u] /\ count'[u] = count[u]
      BY <2>1 DEF Shape
    <3> QED BY <2>1, <2>3, <3>1 DEF Reach
  <2>5. content[slabProd[p]][m] = freed[th]
    <3>1. Prod(p) = slabProd[p] BY <1>5, <2>1 DEF Trading
    <3> QED BY <1>1, <2>1, <2>2, <3>1 DEF PlaceInv, Stored
  <2> QED BY <1>1, <1>2, <1>3, <2>1, <2>2, <2>3, <2>4, <2>5, PlaceCounts
<1>11. CASE ProdReset(th)
  <2>1. /\ step' = [step EXCEPT ![th] = "idle"] /\ step[th] = "reset"
        /\ UNCHANGED <<nAvail, slabs, slabCons, ready, slabProd, content, watched, nCons,
                       posted, burst, flight, out, lost>>
        /\ nProd' = [nProd EXCEPT ![p] = 1]
        /\ freed' = [freed EXCEPT ![th] = Stale] /\ count' = [count EXCEPT ![th] = 0]
        /\ empty' = [empty EXCEPT ![th] = 0]
    BY <1>1, <1>11 DEF ProdReset, pool, cons, traffic, Goto, Return
  <2>2. PICK m \in Nat : m = 0 OBVIOUS
  <2>3. nProd'[p] = m + 1 /\ \A q \in Ports : q # p => nProd'[q] = nProd[q]
    BY <2>1, <2>2 DEF Shape
  <2>4. Reach(th, p, "idle")
    <3>1. \A u \in Threads : u # th => empty'[u] = empty[u] /\ freed'[u] = freed[u] /\ count'[u] = count[u]
      BY <2>1 DEF Shape
    <3> QED BY <2>1, <2>3, <3>1 DEF Reach
  <2>5. content[slabProd[p]][m] = freed[th]
    <3>1. Prod(p) = slabProd[p] BY <1>5, <2>1 DEF Trading
    <3> QED BY <1>1, <2>1, <2>2, <3>1 DEF PlaceInv, Stored
  <2> QED BY <1>1, <1>2, <1>3, <2>1, <2>2, <2>3, <2>4, <2>5, PlaceCounts
<1>12. CASE ProdTrade(th) BY <1>1, <1>3, <1>12, PlaceTrade
<1> QED BY <1>6, <1>7, <1>8, <1>9, <1>10, <1>11, <1>12 DEF ProdStep

(* An emptied consumer slab is traded: the addresses of a full one change  *)
(* owner.                                                                  *)
LEMMA PlaceConsTrade ==
  ASSUME Shape, PlaceInv, NEW p \in Ports, ConsTrade(p)
  PROVE  PlaceInv'
<1> USE PoolAssumption
<1>1. /\ UNCHANGED <<watched, content, ready, posted, burst, slabProd, nProd, flight, out, lost, step,
                     freed, count, empty>>
      /\ ready = NPorts /\ nAvail > 0 /\ nAvail' = nAvail - 1 /\ nCons[p] = 0
      /\ slabs' = [slabs EXCEPT ![nAvail - 1] = slabCons[p]]
      /\ slabCons' = [slabCons EXCEPT ![p] = slabs[nAvail - 1]]
      /\ nCons' = [nCons EXCEPT ![p] = SlabSize]
  BY DEF ConsTrade, MayReceive, prod, traffic, local
<1>2. PICK n \in Nat : n = nAvail - 1 /\ nAvail = n + 1 /\ n \in Slabs BY <1>1 DEF Shape, Slabs
<1>3. /\ slabCons'[p] = slabs[n] /\ nCons'[p] = SlabSize
      /\ \A i \in Slabs : i # n => slabs'[i] = slabs[i]
      /\ \A q \in Ports : q # p => slabCons'[q] = slabCons[q] /\ nCons'[q] = nCons[q]
  BY <1>1, <1>2 DEF Shape
<1>4. PICK k1 : k1 = "cons" OBVIOUS
<1>5. PICK k2 : k2 = "full" OBVIOUS
<1>6. /\ IsList(k1, p) /\ IsList(k2, n) /\ ~(k1 = k2 /\ p = n)
      /\ HowMany(k1, p) = 0 /\ HowMany(k2, n) = SlabSize
      /\ \A i : Addr(k2, n, i) = content[slabs[n]][i]
  BY <1>1, <1>2, <1>4, <1>5 DEF IsList, HowMany, Addr, SlabAt
<1>7. \A k, w : k = k1 /\ w = p => /\ HowMany(k, w)' = SlabSize
                                   /\ \A i : Addr(k, w, i)' = content[slabs[n]][i]
  BY <1>1, <1>3, <1>4 DEF HowMany, Addr, SlabAt
<1>8. \A k, w : k = k2 /\ w = n => HowMany(k, w)' = 0 BY <1>1, <1>2, <1>5 DEF HowMany
<1>9. \A q : Prod(q)' = Prod(q) /\ ProdHeld(q)' = ProdHeld(q)
  BY <1>1 DEF Prod, Trading, ProdHeld, Resetting
<1>10. ASSUME NEW k, NEW w, IsList(k, w), ~(k = k1 /\ w = p), ~(k = k2 /\ w = n)
       PROVE  Stays(k, w)
  <2>1. CASE k \in {"posted", "burst", "out", "lost", "rx", "tx"} \cup Entry
    BY <1>1, <2>1 DEF Stays, HowMany, Addr, Hand, Entry, Address, Stale
  <2>2. CASE k = "cons" /\ w \in Ports
    BY <1>1, <1>3, <1>4, <1>10, <2>2 DEF Stays, HowMany, Addr, SlabAt
  <2>3. CASE k = "prod" BY <1>1, <1>9, <2>3 DEF Stays, HowMany, Addr, SlabAt
  <2>4. CASE k = "full" /\ w \in Slabs
    <3>1. w # n /\ slabs'[w] = slabs[w] BY <1>3, <1>5, <1>10, <2>4
    <3>2. w < nAvail <=> w < nAvail' BY <1>1, <1>2, <2>4, <3>1 DEF Slabs
    <3> QED BY <1>1, <2>4, <3>1, <3>2 DEF Stays, HowMany, Addr, SlabAt
  <2> QED BY <1>10, <2>1, <2>2, <2>3, <2>4 DEF IsList
<1>11. Pass(k1, p, k2, n) BY <1>6, <1>7, <1>8, <1>10 DEF Pass
<1>12. Kept BY <1>11, PassKeeps DEF PlaceInv
<1>13. Stored' BY <1>1, <1>9, StoredQuiet DEF PlaceInv
<1> QED BY <1>1, <1>12, <1>13, PlaceFrom

(* The last d of the c addresses of list (k1, p) go in front of list       *)
(* (k2, p), and the last d of its m addresses to the empty list (k3, p).   *)
Feed(k1, k2, k3, p, c, m, d) ==
  /\ IsList(k1, p) /\ IsList(k2, p) /\ IsList(k3, p) /\ k1 # k2 /\ k1 # k3 /\ k2 # k3
  /\ HowMany(k1, p) = c /\ HowMany(k2, p) = m /\ HowMany(k3, p) = 0
  /\ \A k, w : k = k1 /\ w = p =>
       /\ HowMany(k, w)' = c - d
       /\ \A i \in 0 .. c - d - 1 : Addr(k, w, i)' = Addr(k1, p, i)
  /\ \A k, w : k = k2 /\ w = p =>
       /\ HowMany(k, w)' = m
       /\ \A i \in 0 .. d - 1 : Addr(k, w, i)' = Addr(k1, p, c - d + i)
       /\ \A i \in d .. m - 1 : Addr(k, w, i)' = Addr(k2, p, i - d)
  /\ \A k, w : k = k3 /\ w = p =>
       /\ HowMany(k, w)' = d
       /\ \A i \in 0 .. d - 1 : Addr(k, w, i)' = Addr(k2, p, m - d + i)
  /\ \A k, w : IsList(k, w) /\ ~(k \in {k1, k2, k3} /\ w = p) => Stays(k, w)

(* No buffer is lost on the way. *)
LEMMA FeedKeeps ==
  ASSUME Live, NEW k1, NEW k2, NEW k3, NEW p, NEW c \in Nat, NEW m \in Nat,
         NEW d \in Nat, d <= c, d <= m, Feed(k1, k2, k3, p, c, m, d)
  PROVE  Kept
<1>1. /\ \A i : IsPlace(k1, p, i) <=> i \in 0 .. c - 1
      /\ \A i : IsPlace(k2, p, i) <=> i \in 0 .. m - 1
      /\ \A i : ~IsPlace(k3, p, i)
      /\ k1 # k2 /\ k1 # k3 /\ k2 # k3
  BY DEF Feed, IsPlace
<1>2. ASSUME NEW k, NEW w, NEW i, w = p, k = k1
      PROVE  /\ IsPlace(k, w, i)' <=> i \in 0 .. c - d - 1
             /\ IsPlace(k, w, i)' => IsPlace(k1, p, i) /\ Addr(k, w, i)' = Addr(k1, p, i)
  BY <1>1, <1>2 DEF Feed, IsPlace, IsList
<1>3. ASSUME NEW k, NEW w, NEW i, w = p, k = k2
      PROVE  /\ IsPlace(k, w, i)' <=> i \in 0 .. m - 1
             /\ IsPlace(k, w, i)' /\ i < d =>
                  IsPlace(k1, p, c - d + i) /\ Addr(k, w, i)' = Addr(k1, p, c - d + i)
             /\ IsPlace(k, w, i)' /\ ~(i < d) =>
                  IsPlace(k2, p, i - d) /\ Addr(k, w, i)' = Addr(k2, p, i - d)
  BY <1>1, <1>3 DEF Feed, IsPlace, IsList
<1>4. ASSUME NEW k, NEW w, NEW i, w = p, k = k3
      PROVE  /\ IsPlace(k, w, i)' <=> i \in 0 .. d - 1
             /\ IsPlace(k, w, i)' =>
                  IsPlace(k2, p, m - d + i) /\ Addr(k, w, i)' = Addr(k2, p, m - d + i)
  BY <1>1, <1>4 DEF Feed, IsPlace, IsList
<1>5. ASSUME NEW k, NEW w, NEW i, ~(k \in {k1, k2, k3} /\ w = p)
      PROVE  /\ IsPlace(k, w, i)' <=> IsPlace(k, w, i)
             /\ IsPlace(k, w, i) => Addr(k, w, i)' = Addr(k, w, i)
  <2>1. IsList(k, w)' <=> IsList(k, w) BY DEF IsList
  <2>2. IsList(k, w) => Stays(k, w) BY <1>5 DEF Feed
  <2> QED BY <2>1, <2>2 DEF IsPlace, Stays
<1>6. Live'
  <2> SUFFICES ASSUME NEW k, NEW w, NEW i, IsPlace(k, w, i)' PROVE (Addr(k, w, i) \in Address)'
    BY DEF Live
  <2>1. \A l, v, j : IsPlace(l, v, j) => Addr(l, v, j) \in Address BY DEF Live
  <2>2. CASE k = k1 /\ w = p BY <1>2, <2>1, <2>2 DEF Address
  <2>3. CASE k = k2 /\ w = p BY <1>3, <2>1, <2>3 DEF Address
  <2>4. CASE k = k3 /\ w = p BY <1>4, <2>1, <2>4 DEF Address
  <2>5. CASE ~(k \in {k1, k2, k3} /\ w = p) BY <1>5, <2>1, <2>5 DEF Address
  <2> QED BY <2>2, <2>3, <2>4, <2>5
<1>7. ASSUME NEW k, NEW w, NEW i
      PROVE  Has(k, w, i)' <=>
               \/ ~(k \in {k1, k2, k3} /\ w = p) /\ Has(k, w, i)
               \/ k = k1 /\ w = p /\ i \in 0 .. c - d - 1 /\ Has(k1, p, i)
               \/ k = k2 /\ w = p /\ i \in 0 .. d - 1 /\ Has(k1, p, c - d + i)
               \/ k = k2 /\ w = p /\ i \in d .. m - 1 /\ Has(k2, p, i - d)
               \/ k = k3 /\ w = p /\ i \in 0 .. d - 1 /\ Has(k2, p, m - d + i)
  <2>1. CASE k = k1 /\ w = p BY <1>1, <1>2, <2>1 DEF Has
  <2>2. CASE k = k2 /\ w = p BY <1>1, <1>3, <2>2 DEF Has
  <2>3. CASE k = k3 /\ w = p BY <1>1, <1>4, <2>3 DEF Has
  <2>4. CASE ~(k \in {k1, k2, k3} /\ w = p) BY <1>5, <2>4 DEF Has
  <2> QED BY <2>1, <2>2, <2>3, <2>4
<1>8. Nowhere => Nowhere' BY <1>7 DEF Nowhere
<1>9. ASSUME Somewhere PROVE Somewhere'
  <2>1. PICK k, w, i : Only(k, w, i) BY <1>9 DEF Somewhere
  <2>2. IsPlace(k, w, i) BY <2>1 DEF Only, Has
  <2>3. CASE k = k1 /\ w = p /\ i < c - d
    <3>1. i \in 0 .. c - 1 BY <1>1, <2>2, <2>3
    <3>2. Only(k1, p, i)' BY <1>1, <1>7, <2>1, <2>3, <3>1 DEF Only
    <3> QED BY <3>2 DEF Somewhere
  <2>4. CASE k = k1 /\ w = p /\ ~(i < c - d)
    <3>1. i \in 0 .. c - 1 BY <1>1, <2>2, <2>4
    <3>2. PICK j \in 0 .. d - 1 : i = c - d + j
      <4>1. i - (c - d) \in 0 .. d - 1 /\ i = c - d + (i - (c - d)) BY <2>4, <3>1
      <4> QED BY <4>1
    <3>3. Only(k2, p, j)' BY <1>1, <1>7, <2>1, <2>4, <3>1, <3>2 DEF Only
    <3> QED BY <3>3 DEF Somewhere
  <2>5. CASE k = k2 /\ w = p /\ i < m - d
    <3>1. i \in 0 .. m - 1 BY <1>1, <2>2, <2>5
    <3>2. PICK j \in d .. m - 1 : i = j - d
      <4>1. PICK j : j = i + d OBVIOUS
      <4>2. j \in d .. m - 1 /\ i = j - d BY <2>5, <3>1, <4>1
      <4> QED BY <4>2
    <3>3. Only(k2, p, j)' BY <1>1, <1>7, <2>1, <2>5, <3>1, <3>2 DEF Only
    <3> QED BY <3>3 DEF Somewhere
  <2>6. CASE k = k2 /\ w = p /\ ~(i < m - d)
    <3>1. i \in 0 .. m - 1 BY <1>1, <2>2, <2>6
    <3>2. PICK j \in 0 .. d - 1 : i = m - d + j
      <4>1. PICK j : j = i - (m - d) OBVIOUS
      <4>2. j \in 0 .. d - 1 /\ i = m - d + j BY <2>6, <3>1, <4>1
      <4> QED BY <4>2
    <3>3. ASSUME NEW l, NEW v, NEW u PROVE Has(l, v, u)' <=> (l = k3 /\ v = p /\ u = j)
      <4>1. \A x, y, z : Has(x, y, z) <=> (x = k2 /\ y = p /\ z = i)
        BY <2>1, <2>6 DEF Only
      <4>2. ~(i < m - d) /\ i = m - d + j BY <2>6, <3>2
      <4>3. \A z \in d .. m - 1 : z - d # i BY <4>2
      <4>4. \A z \in 0 .. d - 1 : m - d + z = i => z = j BY <3>2
      <4> QED BY <1>1, <1>7, <3>2, <4>1, <4>3, <4>4
    <3>4. Only(k3, p, j)' BY <3>3 DEF Only
    <3> QED BY <3>4 DEF Somewhere
  <2>7. CASE ~(k \in {k1, k2, k3} /\ w = p)
    <3>1. Only(k, w, i)' BY <1>1, <1>7, <2>1, <2>7 DEF Only
    <3> QED BY <3>1 DEF Somewhere
  <2> QED BY <1>1, <2>2, <2>3, <2>4, <2>5, <2>6, <2>7
<1> QED BY <1>6, <1>8, <1>9 DEF Kept

(* The slab a port consumes from is nobody else's. *)
LEMMA ConsAlone ==
  ASSUME Shape, SlabInv, ready = NPorts, NEW p \in Ports
  PROVE  /\ \A q \in Ports : Prod(q) \in Slabs /\ Prod(q) # slabCons[p]
         /\ \A q \in Ports : q # p => slabCons[q] # slabCons[p]
         /\ \A n \in Slabs : n < nAvail => slabs[n] # slabCons[p]
<1> USE PoolAssumption
<1>1. Spot("cons", p) /\ SlabAt("cons", p) = slabCons[p] BY SpotsReady DEF SlabAt
<1>2. ASSUME NEW q \in Ports PROVE Prod(q) \in Slabs /\ Prod(q) # slabCons[p]
  <2>1. Spot("prod", q) /\ SlabAt("prod", q) = Prod(q) BY SpotsReady DEF SlabAt
  <2>2. Prod(q) \in Slabs BY ThreadsAre DEF Prod, Shape
  <2> QED BY <1>1, <2>1, <2>2 DEF SlabInv, Apart
<1>3. ASSUME NEW q \in Ports, q # p PROVE slabCons[q] # slabCons[p]
  <2>1. Spot("cons", q) /\ SlabAt("cons", q) = slabCons[q] BY SpotsReady DEF SlabAt
  <2> QED BY <1>1, <1>3, <2>1 DEF SlabInv, Apart
<1>4. ASSUME NEW n \in Slabs, n < nAvail PROVE slabs[n] # slabCons[p]
  <2>1. n \in 0 .. NSlabs - 2 * NPorts - 1 BY <1>4 DEF SlabInv, Room, Shape, Slabs
  <2>2. Spot("full", n) /\ SlabAt("full", n) = slabs[n] BY <2>1, SpotsReady DEF SlabAt
  <2> QED BY <1>1, <2>2 DEF SlabInv, Apart
<1> QED BY <1>2, <1>3, <1>4

(* Received buffers go to the burst, fresh ones to the fill queue. *)
LEMMA PlaceReceive ==
  ASSUME Shape, SlabInv, PlaceInv, NEW p \in Ports, Receive(p)
  PROVE  PlaceInv'
<1> USE PoolAssumption
<1>1. /\ UNCHANGED <<watched, slabs, nAvail, ready, slabCons, slabProd, nProd, flight, out, lost, step,
                     freed, count, empty>>
      /\ ready = NPorts /\ burst[p] = <<>>
  BY DEF Receive, MayReceive, pool, prod, traffic, local
<1>2. PICK d \in 1 .. Smaller(Burst, Smaller(nCons[p], Len(posted[p]))) :
        /\ burst' = [burst EXCEPT ![p] = SubSeq(posted[p], 1, d)]
        /\ posted' = [posted EXCEPT ![p] =
                        SubSeq(@, d + 1, Len(@)) \o Popped(slabCons[p], nCons[p], d)]
        /\ content' = [content EXCEPT ![slabCons[p]] = After(slabCons[p], nCons[p], d)]
        /\ nCons' = [nCons EXCEPT ![p] = @ - d]
  BY DEF Receive
<1>3. PICK c \in Nat, m \in Nat, s \in Slabs, a \in Seq(Entry) :
        c = nCons[p] /\ m = Len(a) /\ s = slabCons[p] /\ a = posted[p] /\ c <= SlabSize
  BY DEF Shape
<1>4. d \in Nat /\ d >= 1 /\ d <= c /\ d <= m BY <1>2, <1>3 DEF Smaller
<1>5. PICK b : b = Popped(s, c, d) OBVIOUS
<1>6. b \in Seq(Entry) /\ Len(b) = d /\ \A i \in 1 .. d : b[i] = content[s][c - i]
  <2>1. c \in 0 .. SlabSize /\ d \in 0 .. c /\ content \in [Slabs -> [Slots -> Entry]]
    BY <1>3, <1>4 DEF Shape
  <2>2. /\ Popped(s, c, d) \in Seq(Entry) /\ Len(Popped(s, c, d)) = d
        /\ \A i \in 1 .. d : Popped(s, c, d)[i] = content[s][c - i]
    BY <2>1, PoppedTyped
  <2> QED BY <1>5, <2>2
<1>7. PICK g : g = SubSeq(a, d + 1, m) OBVIOUS
<1>8. g \in Seq(Entry) /\ Len(g) = m - d /\ \A i \in 1 .. m - d : g[i] = a[d + i]
  <2>1. PICK e \in Nat : e = d + 1 /\ 1 <= e /\ e <= m + 1 BY <1>4
  <2>2. \A i \in e .. m : a[i] \in Entry BY <1>3, <2>1
  <2>3. g = SubSeq(a, e, m) BY <1>7, <2>1
  <2>4. /\ g \in Seq(Entry) /\ Len(g) = IF e <= m THEN m - e + 1 ELSE 0
        /\ \A i \in 1 .. m - e + 1 : g[i] = a[e + i - 1]
    BY <1>3, <2>1, <2>2, <2>3, SubSeqProperties
  <2>5. (IF e <= m THEN m - e + 1 ELSE 0) = m - d /\ m - e + 1 = m - d BY <1>3, <1>4, <2>1
  <2>6. \A i \in 1 .. m - d : e + i - 1 = d + i BY <1>3, <1>4, <2>1
  <2> QED BY <2>4, <2>5, <2>6
<1>9. PICK h : h = SubSeq(a, 1, d) OBVIOUS
<1>10. Len(h) = d /\ \A i \in 1 .. d : h[i] = a[i] BY <1>3, <1>4, <1>9
<1>11. Len(g \o b) = m /\ \A i \in 1 .. m : (g \o b)[i] = IF i <= m - d THEN g[i] ELSE b[i - (m - d)]
  <2>1. /\ Len(g \o b) = Len(g) + Len(b)
        /\ \A i \in 1 .. Len(g) + Len(b) : (g \o b)[i] = IF i <= Len(g) THEN g[i] ELSE b[i - Len(g)]
    BY <1>6, <1>8, ConcatProperties
  <2>2. PICK e \in Nat : e = m - d /\ Len(g) = e /\ e + d = m
    <3>1. PICK e : e = m - d OBVIOUS
    <3>2. e \in Nat /\ Len(g) = e /\ e + d = m BY <1>4, <1>8, <3>1
    <3> QED BY <3>1, <3>2
  <2>3. Len(g) + Len(b) = m BY <1>6, <2>2
  <2> QED BY <2>1, <2>2, <2>3
<1>12. /\ posted'[p] = g \o b /\ burst'[p] = h /\ nCons'[p] = c - d
       /\ \A q \in Ports : q # p => posted'[q] = posted[q] /\ burst'[q] = burst[q] /\ nCons'[q] = nCons[q]
  BY <1>2, <1>3, <1>5, <1>7, <1>9 DEF Shape
<1>13. /\ \A i \in 0 .. c - d - 1 : content'[s][i] = content[s][i]
       /\ \A t \in Slabs : t # s => content'[t] = content[t]
  <2>1. content' = [content EXCEPT ![s] = After(s, c, d)] BY <1>2, <1>3
  <2>2. content'[s] = After(s, c, d) /\ \A t \in Slabs : t # s => content'[t] = content[t]
    BY <2>1 DEF Shape
  <2>3. \A i \in 0 .. c - d - 1 : i \in Slots /\ i \notin (c - d) .. (c - 1)
    BY <1>3, <1>4 DEF Slots
  <2> QED BY <2>2, <2>3 DEF After
<1>14. /\ \A q \in Ports : Prod(q) \in Slabs /\ Prod(q) # s
       /\ \A q \in Ports : q # p => slabCons[q] # s
       /\ \A n \in Slabs : n < nAvail => slabs[n] # s
  BY <1>1, <1>3, ConsAlone
<1>15. \A q : Prod(q)' = Prod(q) /\ ProdHeld(q)' = ProdHeld(q)
  BY <1>1 DEF Prod, Trading, ProdHeld, Resetting
<1>16. PICK k1 : k1 = "cons" OBVIOUS
<1>17. PICK k2 : k2 = "posted" OBVIOUS
<1>18. PICK k3 : k3 = "burst" OBVIOUS
<1>19. /\ IsList(k1, p) /\ IsList(k2, p) /\ IsList(k3, p) /\ k1 # k2 /\ k1 # k3 /\ k2 # k3
       /\ HowMany(k1, p) = c /\ HowMany(k2, p) = m /\ HowMany(k3, p) = 0
       /\ \A i : Addr(k1, p, i) = content[s][i]
       /\ \A i : Addr(k2, p, i) = a[m - i]
  BY <1>1, <1>3, <1>16, <1>17, <1>18 DEF IsList, HowMany, Addr, SlabAt
<1>20. ASSUME NEW k, NEW w, k = k1, w = p
       PROVE  /\ HowMany(k, w)' = c - d
              /\ \A i \in 0 .. c - d - 1 : Addr(k, w, i)' = Addr(k1, p, i)
  BY <1>1, <1>3, <1>12, <1>13, <1>16, <1>19, <1>20 DEF HowMany, Addr, SlabAt
<1>21. ASSUME NEW k, NEW w, k = k2, w = p
       PROVE  /\ HowMany(k, w)' = m
              /\ \A i \in 0 .. d - 1 : Addr(k, w, i)' = Addr(k1, p, c - d + i)
              /\ \A i \in d .. m - 1 : Addr(k, w, i)' = Addr(k2, p, i - d)
  <2>1. HowMany(k, w)' = m /\ \A i : Addr(k, w, i)' = (g \o b)[m - i]
    BY <1>11, <1>12, <1>17, <1>21 DEF HowMany, Addr
  <2>2. ASSUME NEW i \in 0 .. d - 1 PROVE (g \o b)[m - i] = content[s][c - d + i]
    <3>1. m - i \in 1 .. m /\ ~(m - i <= m - d) /\ m - i - (m - d) = d - i BY <1>4
    <3>2. d - i \in 1 .. d /\ c - (d - i) = c - d + i BY <1>4
    <3>3. b[d - i] = content[s][c - d + i] BY <1>6, <3>2
    <3>4. (g \o b)[m - i] = b[d - i] BY <1>11, <3>1
    <3> QED BY <3>3, <3>4
  <2>3. ASSUME NEW i \in d .. m - 1 PROVE (g \o b)[m - i] = a[m - (i - d)]
    <3>1. m - i \in 1 .. m - d /\ m - i \in 1 .. m /\ m - i <= m - d /\ d + (m - i) = m - (i - d)
      BY <1>4
    <3> QED BY <1>8, <1>11, <3>1
  <2>4. ASSUME NEW i \in 0 .. d - 1 PROVE Addr(k, w, i)' = Addr(k1, p, c - d + i)
    <3>1. Addr(k1, p, c - d + i) = content[s][c - d + i] BY <1>19
    <3> QED BY <2>1, <2>2, <3>1
  <2>5. ASSUME NEW i \in d .. m - 1 PROVE Addr(k, w, i)' = Addr(k2, p, i - d)
    <3>1. Addr(k2, p, i - d) = a[m - (i - d)] BY <1>19
    <3> QED BY <2>1, <2>3, <3>1
  <2> QED BY <2>1, <2>4, <2>5
<1>22. ASSUME NEW k, NEW w, k = k3, w = p
       PROVE  /\ HowMany(k, w)' = d
              /\ \A i \in 0 .. d - 1 : Addr(k, w, i)' = Addr(k2, p, m - d + i)
  <2>1. HowMany(k, w)' = d /\ \A i : Addr(k, w, i)' = h[d - i]
    BY <1>10, <1>12, <1>18, <1>22 DEF HowMany, Addr
  <2>2. ASSUME NEW i \in 0 .. d - 1 PROVE h[d - i] = a[m - (m - d + i)]
    <3>1. d - i \in 1 .. d /\ m - (m - d + i) = d - i BY <1>4
    <3> QED BY <1>10, <3>1
  <2> QED BY <1>19, <2>1, <2>2
<1>23. ASSUME NEW k, NEW w, IsList(k, w), ~(k \in {k1, k2, k3} /\ w = p) PROVE Stays(k, w)
  <2>1. CASE k \in {"out", "lost", "rx", "tx"} \cup Entry
    BY <1>1, <2>1 DEF Stays, HowMany, Addr, Hand, Entry, Address, Stale
  <2>2. CASE k \in {"posted", "burst"} /\ w \in Ports
    BY <1>12, <1>17, <1>18, <1>23, <2>2 DEF Stays, HowMany, Addr
  <2>3. CASE k = "cons" /\ w \in Ports
    <3>1. w # p BY <1>16, <1>23, <2>3
    <3>2. slabCons[w] \in Slabs BY <2>3 DEF Shape
    <3> QED BY <1>1, <1>12, <1>13, <1>14, <2>3, <3>1, <3>2 DEF Stays, HowMany, Addr, SlabAt
  <2>4. CASE k = "prod" /\ w \in Ports
    BY <1>13, <1>14, <1>15, <2>4 DEF Stays, HowMany, Addr, SlabAt
  <2>5. CASE k = "full" /\ w \in Slabs
    <3>1. slabs[w] \in Slabs BY <2>5 DEF Shape
    <3>2. 0 .. 0 - 1 = {} OBVIOUS
    <3>3. CASE w < nAvail
      BY <1>1, <1>13, <1>14, <2>5, <3>1, <3>3 DEF Stays, HowMany, Addr, SlabAt
    <3>4. CASE ~(w < nAvail) BY <1>1, <2>5, <3>2, <3>4 DEF Stays, HowMany
    <3> QED BY <3>3, <3>4
  <2> QED BY <1>23, <2>1, <2>2, <2>3, <2>4, <2>5 DEF IsList
<1>24. Feed(k1, k2, k3, p, c, m, d)
  <2>1. \A k, w : k = k1 /\ w = p =>
          /\ HowMany(k, w)' = c - d
          /\ \A i \in 0 .. c - d - 1 : Addr(k, w, i)' = Addr(k1, p, i)
    BY <1>20
  <2>2. \A k, w : k = k2 /\ w = p =>
          /\ HowMany(k, w)' = m
          /\ \A i \in 0 .. d - 1 : Addr(k, w, i)' = Addr(k1, p, c - d + i)
          /\ \A i \in d .. m - 1 : Addr(k, w, i)' = Addr(k2, p, i - d)
    BY <1>21
  <2>3. \A k, w : k = k3 /\ w = p =>
          /\ HowMany(k, w)' = d
          /\ \A i \in 0 .. d - 1 : Addr(k, w, i)' = Addr(k2, p, m - d + i)
    BY <1>22
  <2>4. \A k, w : IsList(k, w) /\ ~(k \in {k1, k2, k3} /\ w = p) => Stays(k, w) BY <1>23
  <2> QED BY <1>19, <2>1, <2>2, <2>3, <2>4, Zenon DEF Feed
<1>25. Kept BY <1>4, <1>24, FeedKeeps DEF PlaceInv
<1>26. Stored'
  <2> SUFFICES ASSUME NEW th \in Threads
               PROVE  (/\ step[th] = "count" => content[Prod(PortOf(th))][count[th]] = freed[th]
                       /\ step[th] \in {"switch", "reset"} => content[Prod(PortOf(th))][0] = freed[th])'
    BY DEF Stored
  <2>1. PICK q \in Ports : q = PortOf(th) BY ThreadsAre
  <2>2. Prod(q)' = Prod(q) /\ content'[Prod(q)] = content[Prod(q)] BY <1>13, <1>14, <1>15
  <2>3. Prod(PortOf(th))' = Prod(PortOf(th)) BY <2>1, <2>2
  <2> QED BY <1>1, <2>1, <2>2, <2>3 DEF PlaceInv, Stored
<1> QED BY <1>1, <1>25, <1>26, PlaceFrom

(* The first c and the last d addresses of list (k0, m) go to the empty    *)
(* lists (k1, p) and (k2, p); those of list (k0, n) are given up.          *)
Give(k0, m, n, k1, k2, p, c, d) ==
  /\ IsList(k0, m) /\ IsList(k1, p) /\ IsList(k2, p) /\ k1 # k2 /\ k0 # k1 /\ k0 # k2 /\ m # n
  /\ HowMany(k0, m) = c + d /\ HowMany(k1, p) = 0 /\ HowMany(k2, p) = 0
  /\ \A k, w : k = k0 /\ w \in {m, n} => HowMany(k, w)' = 0
  /\ \A k, w : k = k1 /\ w = p =>
       HowMany(k, w)' = c /\ \A i \in 0 .. c - 1 : Addr(k, w, i)' = Addr(k0, m, i)
  /\ \A k, w : k = k2 /\ w = p =>
       HowMany(k, w)' = d /\ \A i \in 0 .. d - 1 : Addr(k, w, i)' = Addr(k0, m, c + i)
  /\ \A k, w : IsList(k, w) /\ ~(k = k0 /\ w \in {m, n}) /\ ~(k \in {k1, k2} /\ w = p)
                 => Stays(k, w)

(* Only what was in the list given up is lost. *)
LEMMA GiveKeeps ==
  ASSUME Live, NEW k0, NEW m, NEW n, NEW k1, NEW k2, NEW p, NEW c \in Nat, NEW d \in Nat,
         Give(k0, m, n, k1, k2, p, c, d)
  PROVE  /\ Live' /\ (Nowhere => Nowhere')
         /\ \A i : Only(k0, n, i) => Nowhere'
         /\ \A k, w, i : Only(k, w, i) /\ ~(k = k0 /\ w = n) => Somewhere'
<1>1. /\ \A i : IsPlace(k0, m, i) <=> i \in 0 .. c + d - 1
      /\ \A i : ~IsPlace(k1, p, i) /\ ~IsPlace(k2, p, i)
      /\ k0 # k1 /\ k0 # k2 /\ k1 # k2 /\ m # n
  BY DEF Give, IsPlace
<1>2. ASSUME NEW k, NEW w, NEW i, k = k0, w \in {m, n} PROVE ~IsPlace(k, w, i)'
  BY <1>2 DEF Give, IsPlace
<1>3. ASSUME NEW k, NEW w, NEW i, k = k1, w = p
      PROVE  /\ IsPlace(k, w, i)' <=> i \in 0 .. c - 1
             /\ IsPlace(k, w, i)' => IsPlace(k0, m, i) /\ Addr(k, w, i)' = Addr(k0, m, i)
  BY <1>1, <1>3 DEF Give, IsPlace, IsList
<1>4. ASSUME NEW k, NEW w, NEW i, k = k2, w = p
      PROVE  /\ IsPlace(k, w, i)' <=> i \in 0 .. d - 1
             /\ IsPlace(k, w, i)' => IsPlace(k0, m, c + i) /\ Addr(k, w, i)' = Addr(k0, m, c + i)
  BY <1>1, <1>4 DEF Give, IsPlace, IsList
<1>5. ASSUME NEW k, NEW w, NEW i, ~(k = k0 /\ w \in {m, n}), ~(k \in {k1, k2} /\ w = p)
      PROVE  /\ IsPlace(k, w, i)' <=> IsPlace(k, w, i)
             /\ IsPlace(k, w, i) => Addr(k, w, i)' = Addr(k, w, i)
  <2>1. IsList(k, w)' <=> IsList(k, w) BY DEF IsList
  <2>2. IsList(k, w) => Stays(k, w) BY <1>5 DEF Give
  <2> QED BY <2>1, <2>2 DEF IsPlace, Stays
<1>6. Live'
  <2> SUFFICES ASSUME NEW k, NEW w, NEW i, IsPlace(k, w, i)' PROVE (Addr(k, w, i) \in Address)'
    BY DEF Live
  <2>1. \A l, v, j : IsPlace(l, v, j) => Addr(l, v, j) \in Address BY DEF Live
  <2>2. CASE k = k0 /\ w \in {m, n} BY <1>2, <2>2
  <2>3. CASE k = k1 /\ w = p BY <1>3, <2>1, <2>3 DEF Address
  <2>4. CASE k = k2 /\ w = p BY <1>4, <2>1, <2>4 DEF Address
  <2>5. CASE ~(k = k0 /\ w \in {m, n}) /\ ~(k \in {k1, k2} /\ w = p)
    BY <1>5, <2>1, <2>5 DEF Address
  <2> QED BY <2>2, <2>3, <2>4, <2>5
<1>7. ASSUME NEW k, NEW w, NEW i
      PROVE  Has(k, w, i)' <=>
               \/ ~(k = k0 /\ w \in {m, n}) /\ ~(k \in {k1, k2} /\ w = p) /\ Has(k, w, i)
               \/ k = k1 /\ w = p /\ i \in 0 .. c - 1 /\ Has(k0, m, i)
               \/ k = k2 /\ w = p /\ i \in 0 .. d - 1 /\ Has(k0, m, c + i)
  <2>1. CASE k = k0 /\ w \in {m, n} BY <1>1, <1>2, <2>1 DEF Has
  <2>2. CASE k = k1 /\ w = p BY <1>1, <1>3, <2>2 DEF Has
  <2>3. CASE k = k2 /\ w = p BY <1>1, <1>4, <2>3 DEF Has
  <2>4. CASE ~(k = k0 /\ w \in {m, n}) /\ ~(k \in {k1, k2} /\ w = p) BY <1>5, <2>4 DEF Has
  <2> QED BY <2>1, <2>2, <2>3, <2>4
<1>8. Nowhere => Nowhere' BY <1>7 DEF Nowhere
<1>9. ASSUME NEW i, Only(k0, n, i) PROVE Nowhere'
  BY <1>1, <1>7, <1>9 DEF Only, Nowhere
<1>10. ASSUME NEW k, NEW w, NEW i, Only(k, w, i), ~(k = k0 /\ w = n) PROVE Somewhere'
  <2>1. IsPlace(k, w, i) BY <1>10 DEF Only, Has
  <2>2. CASE k = k0 /\ w = m /\ i < c
    <3>1. i \in 0 .. c - 1 BY <1>1, <2>1, <2>2
    <3>2. ASSUME NEW l, NEW v, NEW j PROVE Has(l, v, j)' <=> (l = k1 /\ v = p /\ j = i)
      <4>1. \A x, y, z : Has(x, y, z) <=> (x = k0 /\ y = m /\ z = i) BY <1>10, <2>2 DEF Only
      <4>2. \A z \in 0 .. d - 1 : c + z # i BY <2>2, <3>1
      <4> QED BY <1>1, <1>7, <3>1, <4>1, <4>2
    <3>3. Only(k1, p, i)' BY <3>2 DEF Only
    <3> QED BY <3>3 DEF Somewhere
  <2>3. CASE k = k0 /\ w = m /\ ~(i < c)
    <3>1. i \in 0 .. c + d - 1 BY <1>1, <2>1, <2>3
    <3>2. PICK j \in 0 .. d - 1 : i = c + j
      <4>1. PICK j : j = i - c OBVIOUS
      <4>2. j \in 0 .. d - 1 /\ i = c + j BY <2>3, <3>1, <4>1
      <4> QED BY <4>2
    <3>3. ASSUME NEW l, NEW v, NEW u PROVE Has(l, v, u)' <=> (l = k2 /\ v = p /\ u = j)
      <4>1. \A x, y, z : Has(x, y, z) <=> (x = k0 /\ y = m /\ z = i) BY <1>10, <2>3 DEF Only
      <4>2. \A z \in 0 .. c - 1 : z # i BY <2>3
      <4>3. \A z \in 0 .. d - 1 : c + z = i => z = j BY <3>2
      <4> QED BY <1>1, <1>7, <3>2, <4>1, <4>2, <4>3
    <3>4. Only(k2, p, j)' BY <3>3 DEF Only
    <3> QED BY <3>4 DEF Somewhere
  <2>4. CASE ~(k = k0 /\ w = m)
    <3>1. ~(k = k0 /\ w \in {m, n}) /\ ~(k \in {k1, k2} /\ w = p) BY <1>1, <1>10, <2>1, <2>4
    <3>2. Only(k, w, i)' BY <1>1, <1>7, <1>10, <2>4, <3>1 DEF Only
    <3> QED BY <3>2 DEF Somewhere
  <2> QED BY <2>2, <2>3, <2>4
<1> QED BY <1>6, <1>8, <1>9, <1>10

(* A port is initialised: its consumer slab and its fill queue share the   *)
(* addresses of one full slab, those of another are given up.              *)
LEMMA PlacePortInit ==
  ASSUME Shape, CountInv, SlabInv, PlaceInv, NEW p \in Ports, PortInit(p)
  PROVE  PlaceInv'
<1> USE PoolAssumption
<1>1. /\ UNCHANGED <<watched, slabs, nProd, burst, flight, out, lost, step, freed, count, empty>>
      /\ ready = p /\ ready' = p + 1 /\ nAvail >= 2 /\ nAvail' = nAvail - 2
      /\ slabCons' = [slabCons EXCEPT ![p] = slabs[nAvail - 1]]
      /\ slabProd' = [slabProd EXCEPT ![p] = slabs[nAvail - 2]]
      /\ nCons' = [nCons EXCEPT ![p] = SlabSize - FillSize]
      /\ posted' = [posted EXCEPT ![p] = Popped(slabs[nAvail - 1], SlabSize, FillSize)]
      /\ content' = [content EXCEPT
                       ![slabs[nAvail - 1]] = After(slabs[nAvail - 1], SlabSize, FillSize),
                       ![slabs[nAvail - 2]] = [i \in Slots |-> Stale]]
  BY DEF PortInit, traffic, local
<1>2. /\ ready < NPorts /\ p \in Nat /\ nAvail = NSlabs - 2 * ready /\ flight = EmptyBag
      /\ \A q \in Ports : /\ nProd[q] = 0 /\ burst[q] = <<>>
                          /\ q >= ready => nCons[q] = 0 /\ posted[q] = <<>>
      /\ \A th \in Threads : step[th] = "idle"
  BY <1>1 DEF CountInv, Starting, Ports
<1>3. PICK m \in Slabs, n \in Slabs :
        /\ m = nAvail - 1 /\ n = nAvail - 2 /\ n = NSlabs - 2 * (p + 1) /\ m = n + 1
        /\ n \in Nat /\ nAvail = n + 2
  <2>1. nAvail - 1 \in Slabs /\ nAvail - 2 \in Slabs BY <1>1 DEF Shape, Slabs
  <2>2. nAvail - 2 = NSlabs - 2 * (p + 1) /\ nAvail - 1 = nAvail - 2 + 1 /\ nAvail - 2 \in Nat
        /\ nAvail = nAvail - 2 + 2
    BY <1>1, <1>2 DEF Shape
  <2> QED BY <2>1, <2>2
<1>4. /\ \A s \in Slabs : s < nAvail =>
           /\ slabs[s] = s
           /\ \A i \in Slots : content[s][i] = IF s * SlabSize + i = watched
                                               THEN "watched" ELSE "other"
  BY <1>2 DEF PlaceInv, Fresh
<1>5. slabs[m] = m /\ slabs[n] = n /\ m # n /\ m \in Nat BY <1>3, <1>4
<1>6. PICK c \in Nat, d \in Nat, z \in Nat : c = z - d /\ d = FillSize /\ z = SlabSize /\ d <= z
  <2>1. SlabSize - FillSize \in Nat OBVIOUS
  <2> QED BY <2>1
<1>7. PICK b : b = Popped(m, z, d) OBVIOUS
<1>8. b \in Seq(Entry) /\ Len(b) = d /\ \A i \in 1 .. d : b[i] = content[m][z - i]
  <2>1. content \in [Slabs -> [Slots -> Entry]] /\ z \in 0 .. SlabSize /\ d \in 0 .. z
    BY <1>6 DEF Shape
  <2>2. /\ Popped(m, z, d) \in Seq(Entry) /\ Len(Popped(m, z, d)) = d
        /\ \A i \in 1 .. d : Popped(m, z, d)[i] = content[m][z - i]
    BY <2>1, PoppedTyped
  <2> QED BY <1>7, <2>2
<1>9. /\ slabCons'[p] = m /\ slabProd'[p] = n /\ nCons'[p] = c /\ posted'[p] = b
      /\ \A q \in Ports : q # p => /\ slabCons'[q] = slabCons[q] /\ slabProd'[q] = slabProd[q]
                                   /\ nCons'[q] = nCons[q] /\ posted'[q] = posted[q]
  BY <1>1, <1>3, <1>5, <1>6, <1>7 DEF Shape
<1>10. /\ \A i \in 0 .. c - 1 : content'[m][i] = content[m][i]
       /\ \A s \in Slabs : s # m /\ s # n => content'[s] = content[s]
  <2>1. content' = [content EXCEPT ![m] = After(m, z, d), ![n] = [i \in Slots |-> Stale]]
    BY <1>1, <1>3, <1>5, <1>6
  <2>2. content'[m] = After(m, z, d) /\ \A s \in Slabs : s # m /\ s # n => content'[s] = content[s]
    BY <1>3, <1>5, <2>1 DEF Shape
  <2>3. \A i \in 0 .. c - 1 : i \in Slots /\ i \notin (z - d) .. (z - 1) BY <1>6 DEF Slots
  <2> QED BY <2>2, <2>3 DEF After
<1>11. \A q \in Ports : /\ ProdHeld(q) = 0 /\ ProdHeld(q)' = 0
                        /\ Hand(<<"rx", q>>) = 0 /\ Hand(<<"tx", q>>) = 0
  BY <1>1, <1>2, ThreadsAre DEF ProdHeld, Resetting, Hand
<1>12. \A q \in Ports : q < ready => slabCons[q] \in Slabs /\ slabCons[q] # m /\ slabCons[q] # n
  <2>0. NSlabs - 2 * ready - 1 = m /\ m \in 0 .. m /\ n \in 0 .. m BY <1>2, <1>3
  <2>1. Spot("full", m) /\ Spot("full", n) BY <2>0 DEF Spot
  <2>2. SlabAt("full", m) = m /\ SlabAt("full", n) = n BY <1>5 DEF SlabAt
  <2>3. ASSUME NEW q \in Ports, q < ready PROVE slabCons[q] \in Slabs /\ slabCons[q] # m /\ slabCons[q] # n
    <3>1. Spot("cons", q) /\ SlabAt("cons", q) = slabCons[q]
      BY <1>1, <1>2, <2>3 DEF Spot, SlabAt, Ports
    <3>2. slabCons[q] \in Slabs BY DEF Shape
    <3> QED BY <2>1, <2>2, <3>1, <3>2 DEF SlabInv, Apart
  <2> QED BY <2>3
<1>13. PICK k0 : k0 = "full" OBVIOUS
<1>14. PICK k1 : k1 = "cons" OBVIOUS
<1>15. PICK k2 : k2 = "posted" OBVIOUS
<1>16. /\ IsList(k0, m) /\ IsList(k1, p) /\ IsList(k2, p) /\ k1 # k2 /\ k0 # k1 /\ k0 # k2
       /\ HowMany(k0, m) = c + d /\ HowMany(k1, p) = 0 /\ HowMany(k2, p) = 0
       /\ \A i : Addr(k0, m, i) = content[m][i]
  <2>1. IsList(k0, m) /\ IsList(k1, p) /\ IsList(k2, p) BY <1>3, <1>13, <1>14, <1>15 DEF IsList
  <2>2. nCons[p] = 0 /\ posted[p] = <<>> BY <1>1, <1>2
  <2>3. HowMany(k0, m) = c + d BY <1>3, <1>6, <1>13 DEF HowMany
  <2>4. HowMany(k1, p) = 0 /\ HowMany(k2, p) = 0 BY <1>14, <1>15, <2>2 DEF HowMany
  <2>5. \A i : Addr(k0, m, i) = content[m][i] BY <1>5, <1>13 DEF Addr, SlabAt
  <2> QED BY <1>13, <1>14, <1>15, <2>1, <2>3, <2>4, <2>5
<1>17. \A k, w : k = k0 /\ w \in {m, n} => HowMany(k, w)' = 0
  BY <1>1, <1>3, <1>5, <1>13 DEF HowMany
<1>18. ASSUME NEW k, NEW w, k = k1, w = p
       PROVE  HowMany(k, w)' = c /\ \A i \in 0 .. c - 1 : Addr(k, w, i)' = Addr(k0, m, i)
  <2>1. HowMany(k, w)' = c /\ \A i : Addr(k, w, i)' = content'[m][i]
    BY <1>9, <1>14, <1>18 DEF HowMany, Addr, SlabAt
  <2>2. ASSUME NEW i \in 0 .. c - 1 PROVE Addr(k, w, i)' = Addr(k0, m, i)
    BY <1>10, <1>16, <2>1, <2>2
  <2> QED BY <2>1, <2>2
<1>19. ASSUME NEW k, NEW w, k = k2, w = p
       PROVE  HowMany(k, w)' = d /\ \A i \in 0 .. d - 1 : Addr(k, w, i)' = Addr(k0, m, c + i)
  <2>1. HowMany(k, w)' = d /\ \A i : Addr(k, w, i)' = b[d - i]
    BY <1>8, <1>9, <1>15, <1>19 DEF HowMany, Addr
  <2>2. ASSUME NEW i \in 0 .. d - 1 PROVE Addr(k, w, i)' = Addr(k0, m, c + i)
    <3>1. d - i \in 1 .. d /\ z - (d - i) = c + i BY <1>6
    <3>2. b[d - i] = content[m][c + i] BY <1>8, <3>1
    <3>3. Addr(k0, m, c + i) = content[m][c + i] BY <1>16
    <3> QED BY <2>1, <3>2, <3>3
  <2> QED BY <2>1, <2>2
<1>20. ASSUME NEW k, NEW w, IsList(k, w), ~(k = k0 /\ w \in {m, n}), ~(k \in {k1, k2} /\ w = p)
       PROVE  Stays(k, w)
  <2>0. 0 .. 0 - 1 = {} OBVIOUS
  <2>1. CASE k \in {"burst", "out", "lost", "rx", "tx"} \cup Entry
    BY <1>1, <2>1 DEF Stays, HowMany, Addr, Hand, Entry, Address, Stale
  <2>2. CASE k = "posted" /\ w \in Ports
    BY <1>9, <1>15, <1>20, <2>2 DEF Stays, HowMany, Addr
  <2>3. CASE k = "cons" /\ w \in Ports
    <3>1. w # p BY <1>14, <1>20, <2>3
    <3>2. CASE w < ready BY <1>9, <1>10, <1>12, <2>3, <3>1, <3>2 DEF Stays, HowMany, Addr, SlabAt
    <3>3. CASE ~(w < ready)
      <4>1. nCons[w] = 0 BY <1>1, <1>2, <2>3, <3>3 DEF Ports
      <4> QED BY <1>9, <2>0, <2>3, <3>1, <4>1 DEF Stays, HowMany
    <3> QED BY <3>2, <3>3
  <2>4. CASE k = "prod" /\ w \in Ports BY <1>11, <2>0, <2>4 DEF Stays, HowMany
  <2>5. CASE k = "full" /\ w \in Slabs
    <3>1. w # m /\ w # n BY <1>13, <1>20, <2>5
    <3>2. w < nAvail <=> w < nAvail' BY <1>1, <1>3, <2>5, <3>1 DEF Slabs
    <3>3. CASE w < nAvail
      <4>1. slabs[w] = w /\ content'[w] = content[w] BY <1>4, <1>10, <2>5, <3>1, <3>3
      <4> QED BY <1>1, <2>5, <3>2, <3>3, <4>1 DEF Stays, HowMany, Addr, SlabAt
    <3>4. CASE ~(w < nAvail) BY <2>0, <2>5, <3>2, <3>4 DEF Stays, HowMany
    <3> QED BY <3>3, <3>4
  <2> QED BY <1>20, <2>1, <2>2, <2>3, <2>4, <2>5 DEF IsList
<1>21. Give(k0, m, n, k1, k2, p, c, d)
  BY <1>5, <1>16, <1>17, <1>18, <1>19, <1>20 DEF Give
<1>22. /\ Live' /\ (Nowhere => Nowhere')
       /\ \A i : Only(k0, n, i) => Nowhere'
       /\ \A k, w, i : Only(k, w, i) /\ ~(k = k0 /\ w = n) => Somewhere'
  BY <1>21, GiveKeeps DEF PlaceInv
<1>23. \A i : Has(k0, n, i) <=> i \in Slots /\ watched = n * SlabSize + i
  <2>1. HowMany(k0, n) = SlabSize /\ IsList(k0, n) /\ \A i : Addr(k0, n, i) = content[n][i]
    BY <1>3, <1>5, <1>13 DEF HowMany, Addr, SlabAt, IsList
  <2>2. \A i \in Slots : content[n][i] = "watched" <=> watched = n * SlabSize + i
    BY <1>3, <1>4
  <2> QED BY <2>1, <2>2 DEF Has, IsPlace, Slots
<1>24. Gone' <=> Gone \/ \E i \in Slots : watched = n * SlabSize + i
  <2>1. ready' = p + 1 /\ ready = p /\ watched' = watched BY <1>1
  <2>2. 0 .. ready' - 1 = 0 .. p BY <1>2, <2>1
  <2>3. Gone' <=> \E q \in 0 .. p : \E i \in Slots : watched = (NSlabs - 2 * (q + 1)) * SlabSize + i
    BY <2>1, <2>2 DEF Gone
  <2>4. \A q : q \in 0 .. p <=> q \in 0 .. p - 1 \/ q = p BY <1>2
  <2> QED BY <1>3, <2>1, <2>3, <2>4 DEF Gone
<1>25. IF Gone' THEN Nowhere' ELSE Somewhere'
  <2>1. CASE Gone BY <1>22, <1>24, <2>1 DEF PlaceInv
  <2>2. CASE ~Gone
    <3>1. PICK k, w, i : Only(k, w, i) BY <2>2 DEF PlaceInv, Somewhere
    <3>2. CASE k = k0 /\ w = n
      <4>1. Has(k0, n, i) BY <3>1, <3>2 DEF Only
      <4> QED BY <1>22, <1>23, <1>24, <3>1, <3>2, <4>1
    <3>3. CASE ~(k = k0 /\ w = n)
      <4>1. \A j : ~Has(k0, n, j) BY <3>1, <3>3 DEF Only
      <4> QED BY <1>22, <1>23, <1>24, <2>2, <3>1, <3>3, <4>1
    <3> QED BY <3>2, <3>3
  <2> QED BY <2>1, <2>2
<1>26. Stored' BY <1>1, <1>2 DEF Stored
<1>27. Fresh'
  <2> SUFFICES ASSUME NEW s \in Slabs, s < nAvail'
               PROVE  /\ slabs'[s] = s
                      /\ \A i \in Slots : content'[s][i] = IF s * SlabSize + i = watched'
                                                           THEN "watched" ELSE "other"
    BY DEF Fresh
  <2>1. s < nAvail /\ s # m /\ s # n BY <1>1, <1>3 DEF Slabs
  <2>2. slabs'[s] = s /\ content'[s] = content[s] BY <1>1, <1>4, <1>10, <2>1
  <2> QED BY <1>1, <1>4, <2>1, <2>2
<1> QED BY <1>22, <1>25, <1>26, <1>27 DEF PlaceInv

(* Every buffer has its slab and its slot at the start. *)
LEMMA SlotOf == \A x \in Nat : \E s \in Nat : \E i \in Slots : x = s * SlabSize + i
<1> USE PoolAssumption
<1> DEFINE S == {x \in Nat : \E s \in Nat : \E i \in Slots : x = s * SlabSize + i}
<1>1. 0 \in S
  <2>1. 0 = 0 * SlabSize + 0 /\ 0 \in Slots BY DEF Slots
  <2> QED BY <2>1
<1>2. ASSUME NEW x \in S PROVE x + 1 \in S
  <2>1. PICK s \in Nat : \E i \in Slots : x = s * SlabSize + i OBVIOUS
  <2>2. PICK i \in Slots : x = s * SlabSize + i BY <2>1
  <2>3. PICK v \in Nat : v = s * SlabSize BY Times
  <2>4. i \in Nat /\ i < SlabSize BY DEF Slots
  <2>5. CASE i + 1 < SlabSize
    <3>1. i + 1 \in Slots /\ x + 1 = s * SlabSize + (i + 1)
      BY <2>2, <2>3, <2>4, <2>5 DEF Slots
    <3>2. \E j \in Slots : x + 1 = s * SlabSize + j BY <3>1
    <3>3. \E t \in Nat : \E j \in Slots : x + 1 = t * SlabSize + j BY <3>2
    <3>4. x + 1 \in Nat OBVIOUS
    <3> QED BY <3>3, <3>4
  <2>6. CASE ~(i + 1 < SlabSize)
    <3>1. i + 1 = SlabSize BY <2>4, <2>6
    <3>2. (s + 1) * SlabSize = v + SlabSize BY <2>3, OneMore
    <3>3. 0 \in Slots /\ s + 1 \in Nat BY DEF Slots
    <3>4. PICK t \in Nat : t = s + 1 BY <3>3
    <3>5. x + 1 = t * SlabSize + 0 BY <2>2, <2>3, <2>4, <3>1, <3>2, <3>4
    <3>6. \E j \in Slots : x + 1 = t * SlabSize + j BY <3>3, <3>5
    <3>7. \E r \in Nat : \E j \in Slots : x + 1 = r * SlabSize + j BY <3>6
    <3>8. x + 1 \in Nat OBVIOUS
    <3> QED BY <3>7, <3>8
  <2> QED BY <2>5, <2>6
<1>3. S \in SUBSET Nat OBVIOUS
<1> HIDE DEF S
<1>4. \A x \in Nat : x \in S BY <1>1, <1>2, <1>3, AllNumbers
<1> QED BY <1>4 DEF S

(* They are the only ones. *)
LEMMA LaterSlab ==
  ASSUME NEW s \in Nat, NEW t \in Nat, NEW i \in Slots, NEW j \in Slots, s < t
  PROVE  s * SlabSize + i # t * SlabSize + j
<1> USE PoolAssumption
<1>1. s + 1 \in Nat /\ s + 1 <= t OBVIOUS
<1>2. PICK v \in Nat, u \in Nat : v = s * SlabSize /\ u = t * SlabSize BY Times
<1>3. (s + 1) * SlabSize <= u BY <1>1, <1>2, Monotone
<1>4. (s + 1) * SlabSize = v + SlabSize BY <1>2, OneMore
<1>5. i \in Nat /\ j \in Nat /\ i < SlabSize BY DEF Slots
<1> QED BY <1>2, <1>3, <1>4, <1>5

(* A buffer has one slab and one slot. *)
LEMMA OneSlot ==
  ASSUME NEW s \in Nat, NEW t \in Nat, NEW i \in Slots, NEW j \in Slots,
         s * SlabSize + i = t * SlabSize + j
  PROVE  s = t /\ i = j
<1>1. s = t
  <2>1. ~(s < t) BY LaterSlab
  <2>2. ~(t < s) BY LaterSlab
  <2> QED BY <2>1, <2>2
<1>2. PICK v \in Nat : v = s * SlabSize BY Times, PoolAssumption
<1>3. i \in Nat /\ j \in Nat BY PoolAssumption DEF Slots
<1> QED BY <1>1, <1>2, <1>3

(* At the start each buffer is in its slab. *)
LEMMA PlaceInit == Init => PlaceInv
<1> SUFFICES ASSUME Init PROVE PlaceInv OBVIOUS
<1> USE PoolAssumption
<1>1. /\ slabs = [i \in Slabs |-> i] /\ nAvail = NSlabs /\ watched \in Buffers /\ ready = 0
      /\ content = [s \in Slabs |-> [i \in Slots |->
                      IF s * SlabSize + i = watched THEN "watched" ELSE "other"]]
      /\ \A q \in Ports : nCons[q] = 0 /\ nProd[q] = 0 /\ posted[q] = <<>> /\ burst[q] = <<>>
                           /\ out[q] = <<>>
      /\ flight = EmptyBag /\ lost = <<>> /\ \A th \in Threads : step[th] = "idle"
  BY DEF Init
<1>2. PICK s \in Nat : \E i \in Slots : watched = s * SlabSize + i
  <2>1. watched \in Nat BY <1>1, Times DEF Buffers
  <2> QED BY <2>1, SlotOf
<1>3. PICK i \in Slots : watched = s * SlabSize + i BY <1>2
<1>4. s \in Slabs
  <2>1. SUFFICES ASSUME NSlabs <= s PROVE FALSE BY DEF Slabs
  <2>2. PICK v \in Nat, u \in Nat : v = s * SlabSize /\ u = NSlabs * SlabSize BY Times
  <2>3. u <= v BY <2>1, <2>2, Monotone
  <2>4. i \in Nat BY DEF Slots
  <2>5. watched <= u - 1 BY <1>1, <2>2 DEF Buffers
  <2>6. watched = v + i BY <1>3, <2>2
  <2> QED BY <2>2, <2>3, <2>4, <2>5, <2>6
<1>5. ASSUME NEW k, NEW w, NEW j
      PROVE  IsPlace(k, w, j) <=> k = "full" /\ w \in Slabs /\ j \in Slots
  <2>0. 0 .. 0 - 1 = {} OBVIOUS
  <2>1. CASE k \in {"cons", "prod", "posted", "burst", "out", "rx", "tx"} /\ w \in Ports
    <3>1. <<"rx", w>> \in Threads /\ <<"tx", w>> \in Threads BY <2>1, ThreadsAre
    <3>2. HowMany(k, w) = 0 BY <1>1, <2>1, <3>1 DEF HowMany, ProdHeld, Hand
    <3> QED BY <2>0, <2>1, <3>2 DEF IsPlace
  <2>2. CASE k = "full" /\ w \in Slabs
    <3>1. HowMany(k, w) = SlabSize BY <1>1, <2>2 DEF HowMany, Slabs
    <3> QED BY <2>2, <3>1 DEF IsPlace, IsList, Slots
  <2>3. CASE k \in Entry /\ w = 0
    <3>1. Of(k, flight) = 0 BY <1>1 DEF Of, EmptyBag, SetToBag
    <3>2. HowMany(k, w) = 0 BY <2>3, <3>1 DEF HowMany, Entry, Address, Stale
    <3> QED BY <2>0, <2>3, <3>2 DEF IsPlace, Entry, Address, Stale
  <2>5. CASE k = "lost" /\ w = 0
    <3>1. HowMany(k, w) = 0 BY <1>1, <2>5 DEF HowMany
    <3> QED BY <2>0, <2>5, <3>1 DEF IsPlace
  <2>4. CASE ~IsList(k, w) BY <2>4 DEF IsPlace, IsList
  <2> QED BY <2>1, <2>2, <2>3, <2>4, <2>5 DEF IsList
<1>6. \A k, w, j : IsPlace(k, w, j) =>
        Addr(k, w, j) = IF w * SlabSize + j = watched THEN "watched" ELSE "other"
  BY <1>1, <1>5 DEF Addr, SlabAt
<1>7. Live BY <1>6 DEF Live, Address
<1>8. ASSUME NEW k, NEW w, NEW j PROVE Has(k, w, j) <=> (k = "full" /\ w = s /\ j = i)
  <2>1. CASE IsPlace(k, w, j)
    <3>1. k = "full" /\ w \in Slabs /\ j \in Slots BY <1>5, <2>1
    <3>2. w \in Nat BY <3>1 DEF Slabs
    <3>3. w * SlabSize + j = s * SlabSize + i => w = s /\ j = i BY <3>1, <3>2, OneSlot
    <3> QED BY <1>3, <1>6, <2>1, <3>1, <3>3 DEF Has
  <2>2. CASE ~IsPlace(k, w, j) BY <1>4, <1>5, <2>2 DEF Has
  <2> QED BY <2>1, <2>2
<1>9. PICK k0 : k0 = "full" OBVIOUS
<1>10. Only(k0, s, i) BY <1>8, <1>9 DEF Only
<1>11. Somewhere BY <1>10 DEF Somewhere
<1>12. ~Gone
  <2>1. 0 .. 0 - 1 = {} OBVIOUS
  <2> QED BY <1>1, <2>1 DEF Gone
<1>13. Stored BY <1>1 DEF Stored
<1>14. Fresh BY <1>1 DEF Fresh
<1> QED BY <1>7, <1>11, <1>12, <1>13, <1>14 DEF PlaceInv

(* Every step keeps every buffer where it is or moves it to one place. *)
LEMMA PlaceStep ==
  ASSUME OneFreer, FillSuffices, Shape, CountInv, SlabInv, PlaceInv, [Next]_vars
  PROVE  PlaceInv'
<1>1. ASSUME UNCHANGED vars PROVE PlaceInv'
  <2>1. UNCHANGED <<watched, slabs, nAvail, content, ready, slabCons, nCons, posted, burst,
                    slabProd, nProd, flight, out, lost, step, freed, count, empty>>
    BY <1>1 DEF vars, pool, cons, prod, traffic, local
  <2> QED BY <2>1, PlaceStays
<1> QED BY <1>1, PlacePortInit, PlaceConsTrade, PlaceReceive, PlaceEnqueue, PlaceDrop, PlaceLose,
           PlaceSend, PlaceThread DEF Next, SendStep

(* A buffer that is not forfeited is in one place. *)
LEMMA PlaceInvariant ==
  ASSUME OneFreer, FillSuffices
  PROVE  Spec => [](Shape /\ CountInv /\ SlabInv /\ PlaceInv)
<1>1. Init => PlaceInv BY PlaceInit
<1>2. Shape /\ CountInv /\ SlabInv /\ PlaceInv /\ [Next]_vars => PlaceInv' BY PlaceStep
<1> QED BY <1>1, <1>2, SlabInvariant, PTL DEF Spec

(***************************************************************************)
(* What the invariant says of the state as the model counts it.            *)
(***************************************************************************)

(* The kinds of places that Copies counts one by one. *)
InSlab == {x \in Uses \X Slots :
             x[2] < Valid(x[1]) /\ content[SlabOf(x[1])][x[2]] = "watched"}
InFill == {x \in Ports \X (1..FillSize) :
             x[2] <= Len(posted[x[1]]) /\ posted[x[1]][x[2]] = "watched"}
InBurst == {x \in Ports \X (1..Burst) :
              x[2] <= Len(burst[x[1]]) /\ burst[x[1]][x[2]] = "watched"}
InOut == {x \in Ports \X (1 .. TxSize + CompSize + BurstTx) :
            x[2] <= Len(out[x[1]]) /\ out[x[1]][x[2]] = "watched"}
InLost == {i \in 1 .. Len(lost) : lost[i] = "watched"}
InHand == {th \in Threads : step[th] # "idle" /\ freed[th] = "watched"}

(* A bag counts what is in it. *)
LEMMA CopiesAre ==
  Copies("watched") = Cardinality(InSlab) + Cardinality(InFill) + Cardinality(InBurst)
                        + Of("watched", flight) + Cardinality(InOut) + Cardinality(InLost)
                        + Cardinality(InHand)
<1>1. (IF BagIn("watched", flight) THEN flight["watched"] ELSE 0) = Of("watched", flight)
  BY DEF BagIn, BagToSet, Of
<1> QED BY <1>1 DEF Copies, InSlab, InFill, InBurst, InOut, InLost, InHand

(* The addresses of a slab in use are those of its list. *)
LEMMA UseIsList ==
  ASSUME Shape, CountInv, SlabInv, OneFreer, ready = NPorts, NEW u \in Uses
  PROVE  /\ IsList(u[1], u[2]) /\ Valid(u) = HowMany(u[1], u[2]) /\ u = <<u[1], u[2]>>
         /\ u[1] \in {"cons", "prod", "full"} /\ \A i : content[SlabOf(u)][i] = Addr(u[1], u[2], i)
<1> USE PoolAssumption
<1>1. SlabOf(u) = SlabAt(u[1], u[2]) /\ u = <<u[1], u[2]>>
  BY UsesAreSpots DEF CountInv, SlabInv
<1>2. CASE u \in {"cons", "prod"} \X (0 .. ready - 1)
  <2>1. u[1] \in {"cons", "prod"} /\ u[2] \in Ports BY <1>2 DEF Ports
  <2>2. (\E th \in Threads : PortOf(th) = u[2] /\ step[th] \in {"first", "switch", "reset"})
          <=> Resetting(<<"rx", u[2]>>) \/ Resetting(<<"tx", u[2]>>)
    BY <2>1, ThreadsAre DEF Resetting
  <2>3. Valid(u) = HowMany(u[1], u[2]) BY <2>1, <2>2 DEF Valid, HowMany, ProdHeld
  <2> QED BY <1>1, <2>1, <2>3 DEF IsList, Addr
<1>3. CASE u \in {"full"} \X (0 .. nAvail - 1)
  <2>1. u[1] = "full" /\ u[2] \in 0 .. nAvail - 1 BY <1>3
  <2>2. u[2] \in Slabs /\ u[2] < nAvail BY <2>1 DEF Shape, Slabs
  <2> QED BY <1>1, <2>1, <2>2 DEF IsList, Addr, Valid, HowMany
<1> QED BY <1>2, <1>3 DEF Uses

(* What Copies finds in the slabs is what the lists of slabs have. *)
LEMMA SlabPlaces ==
  ASSUME Shape, CountInv, SlabInv, OneFreer, ready = NPorts
  PROVE  /\ \A x \in InSlab : /\ Has(x[1][1], x[1][2], x[2]) /\ x[1][1] \in {"cons", "prod", "full"}
                              /\ x = <<<<x[1][1], x[1][2]>>, x[2]>>
         /\ \A k, w, i : k \in {"cons", "prod", "full"} /\ Has(k, w, i) => <<<<k, w>>, i>> \in InSlab
<1> USE PoolAssumption
<1>1. ASSUME NEW x \in InSlab
      PROVE  /\ Has(x[1][1], x[1][2], x[2]) /\ x[1][1] \in {"cons", "prod", "full"}
             /\ x = <<<<x[1][1], x[1][2]>>, x[2]>>
  <2>1. PICK u \in Uses, i \in Slots : x = <<u, i>> BY DEF InSlab
  <2>2. x[1] = u /\ x[2] = i /\ i < Valid(u) /\ content[SlabOf(u)][i] = "watched"
    BY <2>1 DEF InSlab
  <2>3. /\ IsList(u[1], u[2]) /\ Valid(u) = HowMany(u[1], u[2]) /\ u = <<u[1], u[2]>>
        /\ u[1] \in {"cons", "prod", "full"} /\ \A j : content[SlabOf(u)][j] = Addr(u[1], u[2], j)
    BY UseIsList
  <2>4. HowMany(u[1], u[2]) \in Nat BY <2>3, HowManyTyped
  <2>5. i \in 0 .. HowMany(u[1], u[2]) - 1 BY <2>2, <2>3, <2>4 DEF Slots
  <2>6. Has(u[1], u[2], i) BY <2>2, <2>3, <2>5 DEF Has, IsPlace
  <2> QED BY <2>1, <2>2, <2>3, <2>6
<1>2. ASSUME NEW k, NEW w, NEW i, k \in {"cons", "prod", "full"}, Has(k, w, i)
      PROVE  <<<<k, w>>, i>> \in InSlab
  <2>1. IsList(k, w) /\ i \in 0 .. HowMany(k, w) - 1 /\ Addr(k, w, i) = "watched"
    BY <1>2 DEF Has, IsPlace
  <2>2. HowMany(k, w) \in Nat BY <2>1, HowManyTyped
  <2>3. PICK u : u = <<k, w>> OBVIOUS
  <2>4. u \in Uses /\ HowMany(k, w) <= SlabSize
    <3>1. CASE k \in {"cons", "prod"}
      <4>1. w \in Ports BY <2>1, <3>1 DEF IsList, Entry, Address, Stale
      <4>2. w \in 0 .. ready - 1 BY <4>1 DEF Ports
      <4>3. nCons[w] <= SlabSize /\ ProdHeld(w) <= SlabSize BY <4>1 DEF Shape, ProdHeld
      <4> QED BY <2>3, <3>1, <4>2, <4>3 DEF Uses, HowMany
    <3>2. CASE k = "full"
      <4>1. w \in Slabs BY <2>1, <3>2 DEF IsList, Entry, Address, Stale
      <4>2. w < nAvail BY <2>1, <3>2 DEF HowMany
      <4>3. w \in 0 .. nAvail - 1 BY <4>1, <4>2 DEF Slabs, Shape
      <4> QED BY <2>3, <3>2, <4>2, <4>3 DEF Uses, HowMany
    <3> QED BY <1>2, <3>1, <3>2
  <2>5. u[1] = k /\ u[2] = w BY <2>3
  <2>6. Valid(u) = HowMany(k, w) /\ \A j : content[SlabOf(u)][j] = Addr(k, w, j)
    BY <2>4, <2>5, UseIsList
  <2>7. i \in Slots BY <2>1, <2>2, <2>4 DEF Slots
  <2> QED BY <2>1, <2>2, <2>3, <2>4, <2>6, <2>7 DEF InSlab
<1> QED BY <1>1, <1>2

(* So are the addresses in the queues and in the hands. *)
LEMMA QueuePlaces ==
  ASSUME Shape, CountInv, ready = NPorts
  PROVE  /\ \A x \in InFill : Has("posted", x[1], Len(posted[x[1]]) - x[2]) /\ x = <<x[1], x[2]>>
         /\ \A w, i : Has("posted", w, i) => <<w, Len(posted[w]) - i>> \in InFill
         /\ \A x \in InBurst : Has("burst", x[1], Len(burst[x[1]]) - x[2]) /\ x = <<x[1], x[2]>>
         /\ \A w, i : Has("burst", w, i) => <<w, Len(burst[w]) - i>> \in InBurst
<1> USE PoolAssumption
<1>1. ASSUME NEW w \in Ports
      PROVE  /\ IsList("posted", w) /\ IsList("burst", w)
             /\ HowMany("posted", w) = Len(posted[w]) /\ HowMany("burst", w) = Len(burst[w])
             /\ \A i : Addr("posted", w, i) = posted[w][Len(posted[w]) - i]
             /\ \A i : Addr("burst", w, i) = burst[w][Len(burst[w]) - i]
             /\ Len(posted[w]) \in Nat /\ Len(posted[w]) <= FillSize
             /\ Len(burst[w]) \in Nat /\ Len(burst[w]) <= Burst
  <2>1. Len(posted[w]) = FillSize /\ Len(burst[w]) <= Burst
    BY DEF CountInv, Filled, Ports
  <2>2. Len(burst[w]) \in Nat BY DEF Shape
  <2> QED BY <2>1, <2>2 DEF IsList, HowMany, Addr
<1>2. \A w, i : IsList("posted", w) \/ IsList("burst", w) => w \in Ports
  BY DEF IsList, Entry, Address, Stale
<1>3. ASSUME NEW x \in InFill
      PROVE  Has("posted", x[1], Len(posted[x[1]]) - x[2]) /\ x = <<x[1], x[2]>>
  <2>1. PICK w \in Ports, j \in 1 .. FillSize : x = <<w, j>> BY DEF InFill
  <2>2. x[1] = w /\ x[2] = j /\ j <= Len(posted[w]) /\ posted[w][j] = "watched"
    BY <2>1 DEF InFill
  <2>3. PICK m \in Nat : m = Len(posted[w]) BY <1>1
  <2>4. m - j \in 0 .. m - 1 /\ m - (m - j) = j BY <2>2, <2>3
  <2>5. Has("posted", w, m - j) BY <1>1, <2>2, <2>3, <2>4 DEF Has, IsPlace
  <2> QED BY <2>1, <2>2, <2>3, <2>5
<1>4. ASSUME NEW w, NEW i, Has("posted", w, i) PROVE <<w, Len(posted[w]) - i>> \in InFill
  <2>1. w \in Ports /\ i \in 0 .. Len(posted[w]) - 1 /\ posted[w][Len(posted[w]) - i] = "watched"
    BY <1>1, <1>2, <1>4 DEF Has, IsPlace
  <2>2. PICK m \in Nat : m = Len(posted[w]) BY <1>1, <2>1
  <2>3. m - i \in 1 .. FillSize /\ m - i <= m BY <1>1, <2>1, <2>2
  <2> QED BY <2>1, <2>2, <2>3 DEF InFill
<1>5. ASSUME NEW x \in InBurst
      PROVE  Has("burst", x[1], Len(burst[x[1]]) - x[2]) /\ x = <<x[1], x[2]>>
  <2>1. PICK w \in Ports, j \in 1 .. Burst : x = <<w, j>> BY DEF InBurst
  <2>2. x[1] = w /\ x[2] = j /\ j <= Len(burst[w]) /\ burst[w][j] = "watched"
    BY <2>1 DEF InBurst
  <2>3. PICK m \in Nat : m = Len(burst[w]) BY <1>1
  <2>4. m - j \in 0 .. m - 1 /\ m - (m - j) = j BY <2>2, <2>3
  <2>5. Has("burst", w, m - j) BY <1>1, <2>2, <2>3, <2>4 DEF Has, IsPlace
  <2> QED BY <2>1, <2>2, <2>3, <2>5
<1>6. ASSUME NEW w, NEW i, Has("burst", w, i) PROVE <<w, Len(burst[w]) - i>> \in InBurst
  <2>1. w \in Ports /\ i \in 0 .. Len(burst[w]) - 1 /\ burst[w][Len(burst[w]) - i] = "watched"
    BY <1>1, <1>2, <1>6 DEF Has, IsPlace
  <2>2. PICK m \in Nat : m = Len(burst[w]) BY <1>1, <2>1
  <2>3. m - i \in 1 .. Burst /\ m - i <= m BY <1>1, <2>1, <2>2
  <2> QED BY <2>1, <2>2, <2>3 DEF InBurst
<1> QED BY <1>3, <1>4, <1>5, <1>6

(* A sending thread and the kernel have no more than the rings and a burst. *)
LEMMA OutBound ==
  ASSUME Shape, NEW w \in Ports
  PROVE  Len(out[w]) \in Nat /\ Len(out[w]) <= TxSize + CompSize + BurstTx
<1>1. PICK c \in Nat, h \in Nat, k \in Nat, r \in Nat, x \in Nat, l \in Nat :
        /\ c = nComp[w] /\ h = nHw[w] /\ k = nColl[w] /\ r = nReap[w] /\ x = nSpent[w]
        /\ l = Len(out[w])
  <2>1. out[w] \in Seq(Entry) BY DEF Shape
  <2>2. /\ nComp[w] \in Nat /\ nHw[w] \in Nat /\ nColl[w] \in Nat /\ nReap[w] \in Nat
        /\ nSpent[w] \in Nat
    BY DEF Shape, Sends
  <2>3. Len(out[w]) \in Nat BY <2>1
  <2> QED BY <2>2, <2>3
<1>2. Counts(c, h, k, r, x, l) BY <1>1 DEF Shape, Sends
<1>3. l <= TxSize + CompSize + BurstTx
  <2>1. /\ c + h + x <= CompSize /\ k <= BurstTx /\ l <= c + h + k + TxSize
        /\ CompSize \in Nat /\ BurstTx \in Nat /\ TxSize \in Nat
    BY <1>2, PoolAssumption DEF Counts
  <2> QED BY <2>1
<1> QED BY <1>1, <1>3

(* So is what a port sends. *)
LEMMA OutPlaces ==
  ASSUME Shape
  PROVE  /\ \A x \in InOut : Has("out", x[1], Len(out[x[1]]) - x[2]) /\ x = <<x[1], x[2]>>
         /\ \A w, i : Has("out", w, i) => <<w, Len(out[w]) - i>> \in InOut
<1>1. ASSUME NEW w \in Ports
      PROVE  /\ IsList("out", w) /\ HowMany("out", w) = Len(out[w])
             /\ \A i : Addr("out", w, i) = out[w][Len(out[w]) - i]
             /\ Len(out[w]) \in Nat /\ Len(out[w]) <= TxSize + CompSize + BurstTx
  BY OutBound DEF IsList, HowMany, Addr
<1>2. PICK z \in Nat : z = TxSize + CompSize + BurstTx BY PoolAssumption
<1>3. ASSUME NEW x \in InOut
      PROVE  Has("out", x[1], Len(out[x[1]]) - x[2]) /\ x = <<x[1], x[2]>>
  <2>1. PICK w \in Ports, j \in 1 .. z : x = <<w, j>> BY <1>2 DEF InOut
  <2>2. x[1] = w /\ x[2] = j /\ j <= Len(out[w]) /\ out[w][j] = "watched"
    BY <2>1 DEF InOut
  <2>3. PICK m \in Nat : m = Len(out[w]) BY <1>1
  <2>4. m - j \in 0 .. m - 1 /\ m - (m - j) = j BY <2>2, <2>3
  <2>5. Has("out", w, m - j) BY <1>1, <2>2, <2>3, <2>4 DEF Has, IsPlace
  <2> QED BY <2>1, <2>2, <2>3, <2>5
<1>4. ASSUME NEW w, NEW i, Has("out", w, i) PROVE <<w, Len(out[w]) - i>> \in InOut
  <2>0. w \in Ports BY <1>4 DEF Has, IsPlace, IsList, Entry, Address, Stale
  <2>1. i \in 0 .. Len(out[w]) - 1 /\ out[w][Len(out[w]) - i] = "watched"
    BY <1>1, <1>4, <2>0 DEF Has, IsPlace
  <2>2. PICK m \in Nat : m = Len(out[w]) /\ m <= z BY <1>1, <1>2, <2>0
  <2>3. m - i \in 1 .. z /\ m - i <= m BY <2>1, <2>2
  <2> QED BY <1>2, <2>0, <2>1, <2>2, <2>3 DEF InOut
<1> QED BY <1>3, <1>4

(* So is what was lost. *)
LEMMA LostPlaces ==
  ASSUME Shape
  PROVE  /\ \A x \in InLost : Has("lost", 0, x - 1) /\ x \in Nat
         /\ \A w, i : Has("lost", w, i) => i + 1 \in InLost /\ w = 0
<1>1. PICK m \in Nat : m = Len(lost) BY DEF Shape
<1>2. /\ IsList("lost", 0) /\ HowMany("lost", 0) = m
      /\ \A i : Addr("lost", 0, i) = lost[i + 1]
  BY <1>1 DEF IsList, HowMany, Addr
<1>3. \A w : IsList("lost", w) => w = 0 BY DEF IsList, Entry, Address, Stale
<1>4. ASSUME NEW x \in InLost PROVE Has("lost", 0, x - 1) /\ x \in Nat
  <2>1. x \in 1 .. m /\ lost[x] = "watched" BY <1>1 DEF InLost
  <2>2. x - 1 \in 0 .. m - 1 /\ (x - 1) + 1 = x BY <2>1
  <2>3. Addr("lost", 0, x - 1) = "watched" BY <1>2, <2>1, <2>2
  <2> QED BY <1>2, <2>1, <2>2, <2>3 DEF Has, IsPlace
<1>5. ASSUME NEW w, NEW i, Has("lost", w, i) PROVE i + 1 \in InLost /\ w = 0
  <2>1. w = 0 BY <1>3, <1>5 DEF Has, IsPlace
  <2>2. i \in 0 .. m - 1 /\ lost[i + 1] = "watched" BY <1>2, <1>5, <2>1 DEF Has, IsPlace
  <2>3. i + 1 \in 1 .. m BY <2>2
  <2> QED BY <1>1, <2>1, <2>2, <2>3 DEF InLost
<1> QED BY <1>4, <1>5

(* What the threads hold. *)
LEMMA HandPlaces ==
  /\ \A th \in InHand : Has(th[1], th[2], 0) /\ th[1] \in {"rx", "tx"} /\ th = <<th[1], th[2]>>
  /\ \A k, w, i : k \in {"rx", "tx"} /\ Has(k, w, i) => <<k, w>> \in InHand /\ i = 0
<1>1. ASSUME NEW th \in InHand
      PROVE  Has(th[1], th[2], 0) /\ th[1] \in {"rx", "tx"} /\ th = <<th[1], th[2]>>
  <2>1. PICK k \in {"rx", "tx"}, w \in Ports : th = <<k, w>> BY DEF InHand, Threads
  <2>2. step[<<k, w>>] # "idle" /\ freed[<<k, w>>] = "watched" BY <2>1 DEF InHand
  <2>3. HowMany(k, w) = 1 /\ IsList(k, w) /\ Addr(k, w, 0) = "watched"
    BY <2>2 DEF HowMany, IsList, Addr, Hand
  <2>4. th[1] = k /\ th[2] = w BY <2>1
  <2> QED BY <2>1, <2>3, <2>4 DEF Has, IsPlace
<1>2. ASSUME NEW k, NEW w, NEW i, k \in {"rx", "tx"}, Has(k, w, i)
      PROVE  <<k, w>> \in InHand /\ i = 0
  <2>1. IsList(k, w) /\ i \in 0 .. HowMany(k, w) - 1 /\ Addr(k, w, i) = "watched"
    BY <1>2 DEF Has, IsPlace
  <2>2. w \in Ports BY <1>2, <2>1 DEF IsList, Entry, Address, Stale
  <2>3. HowMany(k, w) = (IF step[<<k, w>>] = "idle" THEN 0 ELSE 1) /\ freed[<<k, w>>] = "watched"
    BY <1>2, <2>1 DEF HowMany, Addr, Hand
  <2>4. step[<<k, w>>] # "idle" /\ i = 0 BY <2>1, <2>3
  <2> QED BY <1>2, <2>2, <2>3, <2>4 DEF InHand, Threads
<1> QED BY <1>1, <1>2

(* What is in flight. *)
LEMMA FlightPlaces ==
  ASSUME Shape
  PROVE  /\ Of("watched", flight) \in Nat
         /\ \A i : Has("watched", 0, i) <=> i \in 0 .. Of("watched", flight) - 1
         /\ \A k, w, i : k \in Entry /\ Has(k, w, i) => k = "watched" /\ w = 0
<1>1. Of("watched", flight) \in Nat BY DEF Shape, IsABag, Of
<1>2. IsList("watched", 0) /\ HowMany("watched", 0) = Of("watched", flight)
      /\ \A i : Addr("watched", 0, i) = "watched"
  BY DEF IsList, HowMany, Addr, Entry, Address
<1>3. \A k, w, i : k \in Entry => Addr(k, w, i) = k BY DEF Addr, Entry, Address, Stale
<1>4. \A k, w : k \in Entry /\ IsList(k, w) => w = 0 BY DEF IsList, Entry, Address, Stale
<1> QED BY <1>1, <1>2, <1>3, <1>4 DEF Has, IsPlace

(* A buffer that is nowhere has no copies. *)
LEMMA NoCopies ==
  ASSUME Shape, CountInv, SlabInv, OneFreer, ready = NPorts, Nowhere
  PROVE  Copies("watched") = 0
<1>1. \A k, w, i : ~Has(k, w, i) BY DEF Nowhere
<1>2. InSlab = {} BY <1>1, SlabPlaces
<1>3. InFill = {} /\ InBurst = {} BY <1>1, QueuePlaces
<1>4. InHand = {} BY <1>1, HandPlaces
<1>8. InOut = {} /\ InLost = {} BY <1>1, OutPlaces, LostPlaces
<1>5. PICK n \in Nat : n = Of("watched", flight) BY FlightPlaces
<1>6. n = 0
  <2>1. 0 \notin 0 .. n - 1 BY <1>1, <1>5, FlightPlaces
  <2> QED BY <2>1
<1>7. Cardinality({}) = 0 BY FS_EmptySet
<1> QED BY <1>2, <1>3, <1>4, <1>5, <1>6, <1>7, <1>8, CopiesAre

(* Where a buffer that is at one place only can be found. *)
LEMMA OnePlace ==
  ASSUME Shape, CountInv, SlabInv, OneFreer, ready = NPorts, NEW k, NEW w, NEW i, Only(k, w, i)
  PROVE  /\ \A x \in InSlab : k \in {"cons", "prod", "full"} /\ x = <<<<k, w>>, i>>
         /\ \A x \in InFill : k = "posted" /\ x = <<w, Len(posted[w]) - i>>
         /\ \A x \in InBurst : k = "burst" /\ x = <<w, Len(burst[w]) - i>>
         /\ \A x \in InOut : k = "out" /\ x = <<w, Len(out[w]) - i>>
         /\ \A x \in InLost : k = "lost" /\ x = i + 1
         /\ \A x \in InHand : k \in {"rx", "tx"} /\ x = <<k, w>>
<1>1. \A l, v, j : Has(l, v, j) <=> (l = k /\ v = w /\ j = i) BY DEF Only
<1>2. ASSUME NEW x \in InSlab PROVE k \in {"cons", "prod", "full"} /\ x = <<<<k, w>>, i>>
  <2>1. /\ Has(x[1][1], x[1][2], x[2]) /\ x[1][1] \in {"cons", "prod", "full"}
        /\ x = <<<<x[1][1], x[1][2]>>, x[2]>>
    BY SlabPlaces
  <2>2. x[1][1] = k /\ x[1][2] = w /\ x[2] = i BY <1>1, <2>1
  <2> QED BY <2>1, <2>2
<1>3. \A m \in Nat, n \in Nat : m - n = i => n = m - i OBVIOUS
<1>4. ASSUME NEW x \in InFill PROVE k = "posted" /\ x = <<w, Len(posted[w]) - i>>
  <2>1. Has("posted", x[1], Len(posted[x[1]]) - x[2]) /\ x = <<x[1], x[2]>> BY QueuePlaces
  <2>2. k = "posted" /\ x[1] = w /\ Len(posted[w]) - x[2] = i BY <1>1, <2>1
  <2>3. x[2] \in Nat /\ x[1] \in Ports BY PoolAssumption DEF InFill
  <2>4. Len(posted[w]) \in Nat BY <2>2, <2>3 DEF Shape
  <2>5. x[2] = Len(posted[w]) - i BY <1>3, <2>2, <2>3, <2>4
  <2> QED BY <2>1, <2>2, <2>5
<1>5. ASSUME NEW x \in InBurst PROVE k = "burst" /\ x = <<w, Len(burst[w]) - i>>
  <2>1. Has("burst", x[1], Len(burst[x[1]]) - x[2]) /\ x = <<x[1], x[2]>> BY QueuePlaces
  <2>2. k = "burst" /\ x[1] = w /\ Len(burst[w]) - x[2] = i BY <1>1, <2>1
  <2>3. x[2] \in Nat /\ x[1] \in Ports BY PoolAssumption DEF InBurst
  <2>4. Len(burst[w]) \in Nat BY <2>2, <2>3 DEF Shape
  <2>5. x[2] = Len(burst[w]) - i BY <1>3, <2>2, <2>3, <2>4
  <2> QED BY <2>1, <2>2, <2>5
<1>6. ASSUME NEW x \in InOut PROVE k = "out" /\ x = <<w, Len(out[w]) - i>>
  <2>1. Has("out", x[1], Len(out[x[1]]) - x[2]) /\ x = <<x[1], x[2]>> BY OutPlaces
  <2>2. k = "out" /\ x[1] = w /\ Len(out[w]) - x[2] = i BY <1>1, <2>1
  <2>3. x[2] \in Nat /\ x[1] \in Ports BY PoolAssumption DEF InOut
  <2>4. Len(out[w]) \in Nat BY <2>2, <2>3 DEF Shape
  <2>5. x[2] = Len(out[w]) - i BY <1>3, <2>2, <2>3, <2>4
  <2> QED BY <2>1, <2>2, <2>5
<1>7. ASSUME NEW x \in InLost PROVE k = "lost" /\ x = i + 1
  <2>1. Has("lost", 0, x - 1) /\ x \in Nat BY LostPlaces
  <2>2. k = "lost" /\ x - 1 = i BY <1>1, <2>1
  <2> QED BY <2>1, <2>2
<1>8. ASSUME NEW x \in InHand PROVE k \in {"rx", "tx"} /\ x = <<k, w>>
  <2>1. Has(x[1], x[2], 0) /\ x[1] \in {"rx", "tx"} /\ x = <<x[1], x[2]>> BY HandPlaces
  <2>2. x[1] = k /\ x[2] = w BY <1>1, <2>1
  <2> QED BY <2>1, <2>2
<1> QED BY <1>2, <1>4, <1>5, <1>6, <1>7, <1>8

(* What a buffer at one place only counts in the bag of what is in flight. *)
LEMMA OneInFlight ==
  ASSUME Shape, NEW k, NEW w, NEW i, Only(k, w, i)
  PROVE  Of("watched", flight) = IF k = "watched" THEN 1 ELSE 0
<1>2. \A l, v, j : Has(l, v, j) <=> (l = k /\ v = w /\ j = i) BY DEF Only
<1>3. Has(k, w, i) BY <1>2
<1>9. PICK n \in Nat : n = Of("watched", flight) BY FlightPlaces
<1>10. n = IF k = "watched" THEN 1 ELSE 0
  <2>1. \A j : Has("watched", 0, j) <=> j \in 0 .. n - 1 BY <1>9, FlightPlaces
  <2>2. CASE k = "watched"
    <3>1. w = 0 BY <1>3, <2>2, FlightPlaces DEF Entry, Address
    <3>2. i \in 0 .. n - 1 BY <1>3, <2>1, <2>2, <3>1
    <3>3. \A j \in 0 .. n - 1 : j = i BY <1>2, <2>1
    <3>4. 0 \in 0 .. n - 1 /\ n - 1 \in 0 .. n - 1 BY <3>2
    <3>5. 0 = i /\ n - 1 = i BY <3>3, <3>4
    <3> QED BY <2>2, <3>5
  <2>3. CASE k # "watched"
    <3>1. 0 \notin 0 .. n - 1 BY <1>2, <2>1, <2>3
    <3> QED BY <2>3, <3>1
  <2> QED BY <2>2, <2>3
<1> QED BY <1>9, <1>10

(* A buffer that is at one place has one copy. *)
LEMMA OneCopy ==
  ASSUME Shape, CountInv, SlabInv, OneFreer, ready = NPorts, Somewhere
  PROVE  Copies("watched") = 1
<1>1. PICK k, w, i : Only(k, w, i) BY DEF Somewhere
<1>2. Has(k, w, i) BY <1>1 DEF Only
<1>3. \/ k \in {"cons", "prod", "full"} \/ k \in {"rx", "tx"} \/ k \in Entry
      \/ k = "posted" \/ k = "burst" \/ k = "out" \/ k = "lost"
  <2>1. IsList(k, w) BY <1>2 DEF Has, IsPlace
  <2> QED BY <2>1 DEF IsList
<1>4. /\ \A x \in InSlab : k \in {"cons", "prod", "full"} /\ x = <<<<k, w>>, i>>
      /\ \A x \in InFill : k = "posted" /\ x = <<w, Len(posted[w]) - i>>
      /\ \A x \in InBurst : k = "burst" /\ x = <<w, Len(burst[w]) - i>>
      /\ \A x \in InOut : k = "out" /\ x = <<w, Len(out[w]) - i>>
      /\ \A x \in InLost : k = "lost" /\ x = i + 1
      /\ \A x \in InHand : k \in {"rx", "tx"} /\ x = <<k, w>>
  BY <1>1, OnePlace
<1>5. Of("watched", flight) = IF k = "watched" THEN 1 ELSE 0 BY <1>1, OneInFlight
<1>6. Cardinality({}) = 0 /\ \A x : Cardinality({x}) = 1 BY FS_EmptySet, FS_Singleton
<1>8. CASE k \in {"cons", "prod", "full"}
  <2>1. <<<<k, w>>, i>> \in InSlab BY <1>2, <1>8, SlabPlaces
  <2>2. InSlab = {<<<<k, w>>, i>>} BY <1>4, <2>1
  <2>3. InFill = {} /\ InBurst = {} /\ InOut = {}
        /\ InLost = {} /\ InHand = {}
    BY <1>4, <1>8
  <2>4. Cardinality(InSlab) = 1 BY <1>6, <2>2
  <2>5. Of("watched", flight) = 0 BY <1>5, <1>8
  <2> QED BY <1>6, <2>3, <2>4, <2>5, CopiesAre
<1>9. CASE k = "posted"
  <2>1. <<w, Len(posted[w]) - i>> \in InFill BY <1>2, <1>9, QueuePlaces
  <2>2. InFill = {<<w, Len(posted[w]) - i>>} BY <1>4, <2>1
  <2>3. InSlab = {} /\ InBurst = {} /\ InOut = {}
        /\ InLost = {} /\ InHand = {}
    BY <1>4, <1>9
  <2>4. Cardinality(InFill) = 1 BY <1>6, <2>2
  <2>5. Of("watched", flight) = 0 BY <1>5, <1>9
  <2> QED BY <1>6, <2>3, <2>4, <2>5, CopiesAre
<1>10. CASE k = "burst"
  <2>1. <<w, Len(burst[w]) - i>> \in InBurst BY <1>2, <1>10, QueuePlaces
  <2>2. InBurst = {<<w, Len(burst[w]) - i>>} BY <1>4, <2>1
  <2>3. InSlab = {} /\ InFill = {} /\ InOut = {}
        /\ InLost = {} /\ InHand = {}
    BY <1>4, <1>10
  <2>4. Cardinality(InBurst) = 1 BY <1>6, <2>2
  <2>5. Of("watched", flight) = 0 BY <1>5, <1>10
  <2> QED BY <1>6, <2>3, <2>4, <2>5, CopiesAre
<1>11. CASE k = "out"
  <2>1. <<w, Len(out[w]) - i>> \in InOut BY <1>2, <1>11, OutPlaces
  <2>2. InOut = {<<w, Len(out[w]) - i>>} BY <1>4, <2>1
  <2>3. InSlab = {} /\ InFill = {} /\ InBurst = {}
        /\ InLost = {} /\ InHand = {}
    BY <1>4, <1>11
  <2>4. Cardinality(InOut) = 1 BY <1>6, <2>2
  <2>5. Of("watched", flight) = 0 BY <1>5, <1>11
  <2> QED BY <1>6, <2>3, <2>4, <2>5, CopiesAre
<1>12. CASE k = "lost"
  <2>1. i + 1 \in InLost BY <1>2, <1>12, LostPlaces
  <2>2. InLost = {i + 1} BY <1>4, <2>1
  <2>3. InSlab = {} /\ InFill = {} /\ InBurst = {}
        /\ InOut = {} /\ InHand = {}
    BY <1>4, <1>12
  <2>4. Cardinality(InLost) = 1 BY <1>6, <2>2
  <2>5. Of("watched", flight) = 0 BY <1>5, <1>12
  <2> QED BY <1>6, <2>3, <2>4, <2>5, CopiesAre
<1>13. CASE k \in {"rx", "tx"}
  <2>1. <<k, w>> \in InHand BY <1>2, <1>13, HandPlaces
  <2>2. InHand = {<<k, w>>} BY <1>4, <2>1
  <2>3. InSlab = {} /\ InFill = {} /\ InBurst = {}
        /\ InOut = {} /\ InLost = {}
    BY <1>4, <1>13
  <2>4. Cardinality(InHand) = 1 BY <1>6, <2>2
  <2>5. Of("watched", flight) = 0 BY <1>5, <1>13
  <2> QED BY <1>6, <2>3, <2>4, <2>5, CopiesAre
<1>14. CASE k \in Entry
  <2>1. k = "watched" BY <1>2, <1>14, FlightPlaces
  <2>2. InSlab = {} /\ InFill = {} /\ InBurst = {} /\ InOut = {} /\ InLost = {} /\ InHand = {}
    BY <1>4, <2>1
  <2> QED BY <1>5, <1>6, <2>1, <2>2, CopiesAre
<1> QED BY <1>3, <1>8, <1>9, <1>10, <1>11, <1>12, <1>13, <1>14

(* The queues hold addresses. *)
LEMMA QueuesTyped ==
  ASSUME Shape, Live
  PROVE  /\ posted \in [Ports -> Seq(Address)] /\ burst \in [Ports -> Seq(Address)]
         /\ out \in [Ports -> Seq(Address)] /\ lost \in Seq(Address)
<1>1. ASSUME NEW k \in {"posted", "burst", "out"}, NEW w \in Ports, NEW s \in Seq(Entry),
             NEW m \in Nat, m = Len(s), HowMany(k, w) = m, \A i : Addr(k, w, i) = s[m - i]
      PROVE  s \in Seq(Address)
  <2>1. ASSUME NEW j \in 1 .. m PROVE s[j] \in Address
    <3>1. IsList(k, w) BY DEF IsList
    <3>2. m - j \in 0 .. m - 1 /\ m - (m - j) = j OBVIOUS
    <3>3. Addr(k, w, m - j) \in Address BY <1>1, <3>1, <3>2 DEF Live, IsPlace
    <3> QED BY <1>1, <3>2, <3>3
  <2>2. s \in [1 .. m -> Address] BY <1>1, <2>1
  <2> QED BY <2>2
<1>2. ASSUME NEW w \in Ports
      PROVE  posted[w] \in Seq(Address) /\ burst[w] \in Seq(Address) /\ out[w] \in Seq(Address)
  <2>1. posted[w] \in Seq(Address)
    <3>1. PICK s \in Seq(Entry), m \in Nat : s = posted[w] /\ m = Len(s) BY DEF Shape
    <3>2. PICK k \in {"posted", "burst", "out"} : k = "posted" OBVIOUS
    <3>3. HowMany(k, w) = m /\ \A i : Addr(k, w, i) = s[m - i]
      BY <3>1, <3>2 DEF HowMany, Addr
    <3>4. s \in Seq(Address) BY <1>1, <3>1, <3>3
    <3> QED BY <3>1, <3>4
  <2>2. burst[w] \in Seq(Address)
    <3>1. PICK s \in Seq(Entry), m \in Nat : s = burst[w] /\ m = Len(s) BY DEF Shape
    <3>2. PICK k \in {"posted", "burst", "out"} : k = "burst" OBVIOUS
    <3>3. HowMany(k, w) = m /\ \A i : Addr(k, w, i) = s[m - i]
      BY <3>1, <3>2 DEF HowMany, Addr
    <3>4. s \in Seq(Address) BY <1>1, <3>1, <3>3
    <3> QED BY <3>1, <3>4
  <2>3. out[w] \in Seq(Address)
    <3>1. PICK s \in Seq(Entry), m \in Nat : s = out[w] /\ m = Len(s) BY DEF Shape
    <3>2. PICK k \in {"posted", "burst", "out"} : k = "out" OBVIOUS
    <3>3. HowMany(k, w) = m /\ \A i : Addr(k, w, i) = s[m - i]
      BY <3>1, <3>2 DEF HowMany, Addr
    <3>4. s \in Seq(Address) BY <1>1, <3>1, <3>3
    <3> QED BY <3>1, <3>4
  <2> QED BY <2>1, <2>2, <2>3
<1>3. lost \in Seq(Address)
  <2>1. PICK s \in Seq(Entry), m \in Nat : s = lost /\ m = Len(s) BY DEF Shape
  <2>2. PICK k : k = "lost" OBVIOUS
  <2>3. IsList(k, 0) /\ HowMany(k, 0) = m /\ \A i : Addr(k, 0, i) = s[i + 1]
    BY <2>1, <2>2 DEF IsList, HowMany, Addr
  <2>4. ASSUME NEW j \in 1 .. m PROVE s[j] \in Address
    <3>1. j - 1 \in 0 .. m - 1 /\ (j - 1) + 1 = j OBVIOUS
    <3>2. Addr(k, 0, j - 1) \in Address BY <2>3, <3>1 DEF Live, IsPlace
    <3> QED BY <2>3, <3>1, <3>2
  <2>5. s \in [1 .. m -> Address] BY <2>1, <2>4
  <2> QED BY <2>1, <2>5
<1> QED BY <1>2, <1>3 DEF Shape

(* The counts are within the rings. *)
LEMMA CountsTyped ==
  ASSUME Shape
  PROVE  /\ nComp \in [Ports -> 0..CompSize] /\ nHw \in [Ports -> 0..HwLimit]
         /\ nColl \in [Ports -> 0..BurstTx]
         /\ nReap \in [Ports -> 0..CompSize] /\ nSpent \in [Ports -> 0..CompSize]
<1>1. ASSUME NEW p \in Ports
      PROVE  /\ nComp[p] \in 0..CompSize /\ nHw[p] \in 0..HwLimit /\ nColl[p] \in 0..BurstTx
             /\ nReap[p] \in 0..CompSize /\ nSpent[p] \in 0..CompSize
  <2>1. PICK c \in Nat, h \in Nat, k \in Nat, r \in Nat, x \in Nat, l \in Nat :
          /\ c = nComp[p] /\ h = nHw[p] /\ k = nColl[p] /\ r = nReap[p] /\ x = nSpent[p]
          /\ l = Len(out[p])
    <3>1. out[p] \in Seq(Entry) BY DEF Shape
    <3>2. /\ nComp[p] \in Nat /\ nHw[p] \in Nat /\ nColl[p] \in Nat /\ nReap[p] \in Nat
          /\ nSpent[p] \in Nat
      BY DEF Shape, Sends
    <3>3. Len(out[p]) \in Nat BY <3>1
    <3> QED BY <3>2, <3>3
  <2>2. Counts(c, h, k, r, x, l) BY <2>1 DEF Shape, Sends
  <2>3. /\ c \in 0..CompSize /\ h \in 0..HwLimit /\ k \in 0..BurstTx
        /\ r \in 0..CompSize /\ x \in 0..CompSize
    <3>1. c + h + x <= CompSize /\ h <= HwLimit /\ k <= BurstTx /\ r <= c BY <2>2 DEF Counts
    <3>2. CompSize \in Nat /\ HwLimit \in Nat /\ BurstTx \in Nat BY PoolAssumption
    <3> QED BY <3>1, <3>2
  <2> QED BY <2>1, <2>3
<1> QED BY <1>1 DEF Shape, Sends

(***************************************************************************)
(* Every list of addresses holds addresses only: no slot whose address has *)
(* been handed out already is handed out again.                            *)
(***************************************************************************)
THEOREM PoolTyped ==
  ASSUME OneFreer, FillSuffices
  PROVE  Spec => []TypeOK
<1>1. ASSUME Shape, PlaceInv PROVE TypeOK
  <2>1. Live BY <1>1 DEF PlaceInv
  <2>2. ASSUME NEW b \in DOMAIN flight PROVE b \in Address
    <3>1. b \in Entry /\ flight[b] \in Nat /\ flight[b] > 0 BY <1>1 DEF Shape, IsABag
    <3>2. IsList(b, 0) /\ HowMany(b, 0) = flight[b] /\ Addr(b, 0, 0) = b
      BY <3>1 DEF IsList, HowMany, Addr, Of, Entry, Address, Stale
    <3>3. 0 \in 0 .. flight[b] - 1 BY <3>1
    <3> QED BY <2>1, <3>2, <3>3 DEF Live, IsPlace
  <2>3. /\ posted \in [Ports -> Seq(Address)] /\ burst \in [Ports -> Seq(Address)]
        /\ out \in [Ports -> Seq(Address)] /\ lost \in Seq(Address)
    BY <1>1, <2>1, QueuesTyped
  <2>4. /\ nComp \in [Ports -> 0..CompSize] /\ nHw \in [Ports -> 0..HwLimit]
        /\ nColl \in [Ports -> 0..BurstTx]
        /\ nReap \in [Ports -> 0..CompSize] /\ nSpent \in [Ports -> 0..CompSize]
        /\ sending \in [Ports -> {"collect", "reap", "submit"}]
    BY <1>1, CountsTyped DEF Shape, Sends
  <2> QED BY <1>1, <2>2, <2>3, <2>4 DEF Shape, TypeOK, Entry
<1> QED BY <1>1, PlaceInvariant, PTL

(***************************************************************************)
(* From the initialisation of the ports on, a buffer is in exactly one     *)
(* slab, queue, ring or hand for ever, unless it was in one of the slabs   *)
(* that port_init takes for empty, or its packet met with no memory or no  *)
(* queue (Lose): no trade and no completion loses or doubles a buffer.     *)
(***************************************************************************)
THEOREM NoneLostNorDoubled ==
  ASSUME OneFreer, FillSuffices
  PROVE  Spec => []BuffersConserved
<1>1. ASSUME Shape, CountInv, SlabInv, PlaceInv PROVE BuffersConserved
  <2> SUFFICES ASSUME ready = NPorts
               PROVE  Copies("watched") = IF watched \in Forfeited THEN 0 ELSE 1
    BY DEF BuffersConserved
  <2>1. Gone <=> watched \in Forfeited BY DEF Gone, Forfeited, Ports
  <2>2. CASE Gone BY <1>1, <2>1, <2>2, NoCopies DEF PlaceInv
  <2>3. CASE ~Gone BY <1>1, <2>1, <2>3, OneCopy DEF PlaceInv
  <2> QED BY <2>2, <2>3
<1> QED BY <1>1, PlaceInvariant, PTL
=============================================================================
