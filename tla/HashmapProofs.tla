--------------------------- MODULE HashmapProofs ---------------------------
(***************************************************************************)
(* Proofs about Hashmap, for any number of keys, any hash function, tables *)
(* of any size, and allocations that fail at any time.                     *)
(*                                                                         *)
(* The heart is a table with a Cut: a slot behind which the circle of      *)
(* slots can be cut open so that every entry stands at or behind its home  *)
(* with no empty slot between.  In such a table searches succeed           *)
(* (SearchHit).  Inserting keeps a cut (InsertGood), rehashing builds one  *)
(* (RehashGood) and the walk that closes the gap of a removal keeps it     *)
(* (RemoveGood), with the loop invariant Closing.  The loops are recursive *)
(* functions, and what they do for every length follows from what one pass *)
(* does by induction on the passes (CountUp of Counting).                  *)
(*                                                                         *)
(* On top of it lie the inductive invariant Inv of the whole map, what the *)
(* properties of Hashmap take from it, and the refinement of Dictionary,   *)
(* call by call.                                                           *)
(***************************************************************************)
EXTENDS Hashmap, Counting, FiniteSetTheorems

-----------------------------------------------------------------------------
(* Powers of two. *)

(* p lists the powers of two up to the n-th. *)
IsShift(n, p) == p = [j \in 0 .. n |-> IF j = 0 THEN 1 ELSE 2 * p[j - 1]]

(* The recursion of PowerOfTwo has a solution up to every n. *)
LEMMA ShiftExists ==
  ASSUME NEW n \in Nat
  PROVE  \E p : IsShift(n, p)
<1> DEFINE S == {m \in Nat : \E p : IsShift(m, p)}
<1>1. 0 \in S
  <2>1. IsShift(0, [j \in 0 .. 0 |-> 1])  BY DEF IsShift
  <2> QED BY <2>1
<1>2. ASSUME NEW m \in 0 .. n - 1, m \in S  PROVE m + 1 \in S
  <2>1. PICK p : IsShift(m, p)  BY <1>2
  <2> DEFINE q == [j \in 0 .. m + 1 |-> IF j = m + 1 THEN 2 * p[m] ELSE p[j]]
  <2>2. ASSUME NEW j \in 0 .. m + 1  PROVE q[j] = IF j = 0 THEN 1 ELSE 2 * q[j - 1]
    BY <2>1 DEF IsShift
  <2>3. IsShift(m + 1, q)  BY <2>2 DEF IsShift
  <2>4. m + 1 \in Nat  OBVIOUS
  <2> HIDE DEF q
  <2> QED BY <2>3, <2>4
<1>3. 0 .. n \subseteq S
  <2> HIDE DEF S
  <2> QED BY <1>1, <1>2, CountUp
<1> QED BY <1>3

(* Two lists of powers agree where both are defined, so PowerOfTwo does    *)
(* not depend on how far its list goes.                                    *)
LEMMA ShiftUnique ==
  ASSUME NEW n \in Nat, NEW m \in Nat, n <= m, NEW p, IsShift(n, p), NEW q, IsShift(m, q)
  PROVE  p[n] = q[n]
<1> DEFINE S == {j \in 0 .. n : p[j] = q[j]}
<1>1. 0 \in S  BY DEF IsShift
<1>2. ASSUME NEW i \in 0 .. n - 1, i \in S  PROVE i + 1 \in S
  <2>1. p[i + 1] = 2 * p[i] /\ q[i + 1] = 2 * q[i]  BY DEF IsShift
  <2> QED BY <2>1, <1>2
<1>3. 0 .. n \subseteq S
  <2> HIDE DEF S
  <2> QED BY <1>1, <1>2, CountUp
<1> QED BY <1>3

(* PowerOfTwo starts at 1 and doubles: 1 << i. *)
LEMMA PowerOfTwoStep ==
  /\ PowerOfTwo(0) = 1
  /\ \A i \in Nat : PowerOfTwo(i + 1) = 2 * PowerOfTwo(i)
<1>1. ASSUME NEW n \in Nat  PROVE \E p : IsShift(n, p) /\ PowerOfTwo(n) = p[n]
  <2>1. \E p : IsShift(n, p)  BY ShiftExists
  <2>2. IsShift(n, CHOOSE p : IsShift(n, p))  BY <2>1
  <2>3. PowerOfTwo(n) = (CHOOSE p : IsShift(n, p))[n]  BY DEF PowerOfTwo, IsShift
  <2> QED BY <2>2, <2>3
<1>2. PowerOfTwo(0) = 1
  <2>1. PICK p : IsShift(0, p) /\ PowerOfTwo(0) = p[0]  BY <1>1
  <2> QED BY <2>1 DEF IsShift
<1>3. ASSUME NEW i \in Nat  PROVE PowerOfTwo(i + 1) = 2 * PowerOfTwo(i)
  <2>1. PICK p : IsShift(i, p) /\ PowerOfTwo(i) = p[i]  BY <1>1
  <2>2. PICK q : IsShift(i + 1, q) /\ PowerOfTwo(i + 1) = q[i + 1]  BY <1>1
  <2>3. q[i + 1] = 2 * q[i]  BY <2>2 DEF IsShift
  <2>4. p[i] = q[i]  BY <2>1, <2>2, ShiftUnique
  <2> QED BY <2>1, <2>2, <2>3, <2>4
<1> QED BY <1>2, <1>3

(* A power of two is a number above its exponent; so some power reaches    *)
(* every size.                                                             *)
LEMMA PowerOfTwoGrows ==
  ASSUME NEW i \in Nat
  PROVE  PowerOfTwo(i) \in Nat /\ PowerOfTwo(i) > i
<1> DEFINE S == {j \in Nat : PowerOfTwo(j) \in Nat /\ PowerOfTwo(j) > j}
<1>1. 0 \in S  BY PowerOfTwoStep
<1>2. ASSUME NEW j \in 0 .. i - 1, j \in S  PROVE j + 1 \in S  BY <1>2, PowerOfTwoStep
<1>3. 0 .. i \subseteq S
  <2> HIDE DEF S
  <2> QED BY <1>1, <1>2, CountUp
<1> QED BY <1>3

(* Powers of two grow with their exponents. *)
LEMMA PowerOfTwoOrder ==
  ASSUME NEW i \in Nat, NEW j \in Nat, i < j
  PROVE  PowerOfTwo(i) < PowerOfTwo(j)
<1> DEFINE S == {d \in Nat : PowerOfTwo(i) < PowerOfTwo(i + d + 1)}
<1>1. \A m \in Nat : PowerOfTwo(m) \in Nat /\ PowerOfTwo(m) > m /\ PowerOfTwo(m + 1) = 2 * PowerOfTwo(m)
  BY PowerOfTwoGrows, PowerOfTwoStep
<1>2. 0 \in S  BY <1>1
<1>3. ASSUME NEW d \in 0 .. (j - i - 1) - 1, d \in S  PROVE d + 1 \in S
  <2>1. i + d + 1 \in Nat /\ i + (d + 1) + 1 = (i + d + 1) + 1  OBVIOUS
  <2>2. PowerOfTwo(i + (d + 1) + 1) = 2 * PowerOfTwo(i + d + 1)  BY <2>1, <1>1
  <2> QED BY <2>1, <2>2, <1>1, <1>3
<1>4. 0 .. j - i - 1 \subseteq S
  <2> HIDE DEF S
  <2>1. j - i - 1 \in Nat  OBVIOUS
  <2> QED BY <2>1, <1>2, <1>3, CountUp
<1>5. j - i - 1 \in S  BY <1>4
<1>6. i + (j - i - 1) + 1 = j  OBVIOUS
<1> QED BY <1>5, <1>6

(* The choice in NextPowerOfTwo has a result: the first power of two that  *)
(* reaches n.                                                              *)
LEMMA NextPowerIs ==
  ASSUME NEW n \in Nat
  PROVE  \E i \in 0 .. n : /\ NextPowerOfTwo(n) = PowerOfTwo(i)
                           /\ PowerOfTwo(i) >= n
                           /\ \A j \in 0 .. i - 1 : PowerOfTwo(j) < n
<1> DEFINE T == {i \in 0 .. n : PowerOfTwo(i) >= n}
           First(i) == PowerOfTwo(i) >= n /\ \A j \in 0 .. i - 1 : PowerOfTwo(j) < n
<1>1. T # {}
  <2>1. n \in T  BY PowerOfTwoGrows
  <2> QED BY <2>1
<1>2. PICK i \in T : \A j \in T : ~(j < i)
  <2>1. T \subseteq Nat  OBVIOUS
  <2> HIDE DEF T
  <2> QED BY <1>1, <2>1, LeastElement
<1>3. i \in 0 .. n /\ First(i)
  <2>1. ASSUME NEW j \in 0 .. i - 1  PROVE PowerOfTwo(j) < n
    <3>1. j \in 0 .. n /\ j < i  OBVIOUS
    <3>2. j \notin T  BY <1>2, <3>1
    <3>3. PowerOfTwo(j) \in Nat  BY PowerOfTwoGrows
    <3> QED BY <3>1, <3>2, <3>3
  <2> QED BY <2>1
<1>4. NextPowerOfTwo(n) = PowerOfTwo(CHOOSE k \in 0 .. n : First(k))
  BY DEF NextPowerOfTwo
<1> DEFINE c == CHOOSE k \in 0 .. n : First(k)
<1>5. c \in 0 .. n /\ First(c)
  <2> HIDE DEF First
  <2> QED BY <1>3
<1> HIDE DEF c
<1> QED BY <1>4, <1>5 DEF c

(* The size a table size is rounded to is never below it. *)
LEMMA NextPowerBounds ==
  ASSUME NEW n \in Nat
  PROVE  NextPowerOfTwo(n) \in Nat /\ NextPowerOfTwo(n) >= n
BY NextPowerIs, PowerOfTwoGrows

(* A power of two is its own rounding. *)
LEMMA NextPowerOfPower ==
  ASSUME NEW i \in Nat
  PROVE  NextPowerOfTwo(PowerOfTwo(i)) = PowerOfTwo(i)
<1>1. PowerOfTwo(i) \in Nat  BY PowerOfTwoGrows
<1>2. PICK k \in 0 .. PowerOfTwo(i) : /\ NextPowerOfTwo(PowerOfTwo(i)) = PowerOfTwo(k)
                                      /\ PowerOfTwo(k) >= PowerOfTwo(i)
                                      /\ \A j \in 0 .. k - 1 : PowerOfTwo(j) < PowerOfTwo(i)
  BY <1>1, NextPowerIs
<1>3. k \in Nat /\ PowerOfTwo(k) \in Nat  BY <1>1, PowerOfTwoGrows
<1>4. ~(k < i)  BY <1>1, <1>2, <1>3, PowerOfTwoOrder
<1>5. ~(i < k)  BY <1>1, <1>2, <1>3
<1> QED BY <1>2, <1>3, <1>4, <1>5

(* Rounding up keeps the order of sizes. *)
LEMMA NextPowerOrder ==
  ASSUME NEW m \in Nat, NEW n \in Nat, m <= n
  PROVE  NextPowerOfTwo(m) <= NextPowerOfTwo(n)
<1>1. PICK i \in 0 .. m : /\ NextPowerOfTwo(m) = PowerOfTwo(i)
                          /\ PowerOfTwo(i) >= m
                          /\ \A j \in 0 .. i - 1 : PowerOfTwo(j) < m
  BY NextPowerIs
<1>2. PICK k \in 0 .. n : /\ NextPowerOfTwo(n) = PowerOfTwo(k)
                          /\ PowerOfTwo(k) >= n
  BY NextPowerIs
<1>3. PowerOfTwo(i) \in Nat /\ PowerOfTwo(k) \in Nat  BY PowerOfTwoGrows
<1>4. ~(k < i)  BY <1>1, <1>2, <1>3
<1>5. k = i \/ PowerOfTwo(i) < PowerOfTwo(k)  BY <1>4, PowerOfTwoOrder
<1> QED BY <1>1, <1>2, <1>3, <1>5

-----------------------------------------------------------------------------
(* Sizes of tables. *)

(* The table size computed for a number of entries leaves at least one     *)
(* slot empty, and is never below the initial size                         *)
(* (hashmap_calc_table_size).                                              *)
LEMMA TableSizeFits ==
  ASSUME NEW h, h.table_size_init \in Nat, h.table_size_init >= 4, NEW size \in Nat
  PROVE  /\ hashmap_calc_table_size(h, size) \in Nat
         /\ hashmap_calc_table_size(h, size) > size
         /\ hashmap_calc_table_size(h, size) >= h.table_size_init
<1> DEFINE wanted == size + size \div 3
<1>1. wanted \in Nat /\ wanted >= size /\ (wanted >= 4 => wanted > size)  OBVIOUS
<1>2. NextPowerOfTwo(wanted) \in Nat /\ NextPowerOfTwo(wanted) >= wanted
  <2> HIDE DEF wanted
  <2> QED BY <1>1, NextPowerBounds
<1>3. hashmap_calc_table_size(h, size)
        = IF wanted < h.table_size_init THEN h.table_size_init ELSE NextPowerOfTwo(wanted)
  BY DEF hashmap_calc_table_size
<1> HIDE DEF wanted
<1> QED BY <1>1, <1>2, <1>3

-----------------------------------------------------------------------------
(* The circle of slots. *)

(* How many slots a search that starts at slot a probes before slot b. *)
Dist(n, a, b) == IF b >= a THEN b - a ELSE b - a + n

(* The position of slot s on the circle cut open behind slot f: the slot   *)
(* after f is at 0, f itself at n - 1.                                     *)
At(n, f, s) == IF s > f THEN s - f - 1 ELSE s - f - 1 + n

(* A hash leads to a slot, and the distance from a hash that               *)
(* hashmap_entry_remove computes is that from its slot.                    *)
LEMMA HomeSlot ==
  ASSUME NEW n \in Nat, n > 0, NEW x \in Nat
  PROVE  /\ x % n \in Slots(n)
         /\ \A s \in Slots(n) : (s - x) % n = Dist(n, x % n, s)
<1>1. x % n \in 0 .. n - 1  OBVIOUS
<1>2. ASSUME NEW s \in 0 .. n - 1  PROVE (s - x) % n = Dist(n, x % n, s)
  <2> DEFINE a == x % n
             q == x \div n
  <2>1. a \in 0 .. n - 1 /\ q \in Int /\ x = q * n + a  OBVIOUS
  <2> HIDE DEF a, q
  <2> DEFINE d == Dist(n, a, s)
             t == IF s >= a THEN 0 - q ELSE 0 - q - 1
  <2>2. d \in 0 .. n - 1 /\ t \in Int /\ s - x = t * n + d  BY <2>1 DEF Dist
  <2> HIDE DEF d, t
  <2>3. (t * n + d) % n = d  BY <2>2
  <2> QED BY <2>2, <2>3 DEF d, a
<1> QED BY <1>1, <1>2 DEF Slots

(* The probes of a search enumerate the slots, each at its distance from   *)
(* the first.                                                              *)
LEMMA ProbeSlots ==
  ASSUME NEW n \in Nat, n > 0, NEW a \in Slots(n)
  PROVE  /\ \A i \in Slots(n) : (a + i) % n \in Slots(n) /\ Dist(n, a, (a + i) % n) = i
         /\ \A s \in Slots(n) : Dist(n, a, s) \in Slots(n) /\ (a + Dist(n, a, s)) % n = s
<1>1. a \in 0 .. n - 1  BY DEF Slots
<1>2. \A i \in 0 .. n - 1 : (a + i) % n = IF a + i < n THEN a + i ELSE a + i - n
  BY <1>1
<1>3. ASSUME NEW i \in 0 .. n - 1
      PROVE  (a + i) % n \in 0 .. n - 1 /\ Dist(n, a, (a + i) % n) = i
  BY <1>1, <1>2 DEF Dist
<1>4. ASSUME NEW s \in 0 .. n - 1
      PROVE  Dist(n, a, s) \in 0 .. n - 1 /\ (a + Dist(n, a, s)) % n = s
  <2>1. Dist(n, a, s) \in 0 .. n - 1  BY <1>1 DEF Dist
  <2>2. (a + Dist(n, a, s)) % n
          = IF a + Dist(n, a, s) < n THEN a + Dist(n, a, s) ELSE a + Dist(n, a, s) - n
    BY <2>1, <1>2
  <2>3. a + Dist(n, a, s) = IF s >= a THEN s ELSE s + n  BY <1>1 DEF Dist
  <2> QED BY <2>1, <2>2, <2>3, <1>1
<1> QED BY <1>3, <1>4 DEF Slots

-----------------------------------------------------------------------------
(* Tables. *)

(* A table of n slots. *)
IsTable(n, T) == T \in [Slots(n) -> {NULL} \cup Entries]

(* The slots of table T that hold an entry. *)
Occ(n, T) == {i \in Slots(n) : T[i] # NULL}

(* No key is in the table twice. *)
Distinct(n, T) == \A i, j \in Occ(n, T) : T[i].key = T[j].key => i = j

(* The slot a search for key k starts at. *)
Home(g, n, k) == g[k] % n

(* Slot f separates the chains: on the circle cut open behind f, every     *)
(* entry is at or behind its home, and no slot from its home to it is      *)
(* empty. In a full table there may be a cut too: a slot that no chain     *)
(* crosses.                                                                *)
Cut(g, n, T, f) ==
  \A s \in Occ(n, T) :
    /\ At(n, f, Home(g, n, T[s].key)) <= At(n, f, s)
    /\ \A p \in Slots(n) :
         At(n, f, Home(g, n, T[s].key)) <= At(n, f, p) /\ At(n, f, p) < At(n, f, s) => T[p] # NULL

(* A search for k ends at slot s. *)
Stops(T, k, s) == T[s] = NULL \/ T[s].key = k

(* A search ends at the first slot from the key's home that is empty or    *)
(* holds the key, or nowhere.                                              *)
LEMMA SearchStops ==
  ASSUME hash \in [Keys -> Nat], NEW h, h.table_size \in Nat, h.table_size > 0, NEW k \in Keys
  PROVE  LET n == h.table_size
             a == Home(hash, n, k)
             r == Search(h, k)
         IN  \/ r = NULL /\ \A s \in Slots(n) : ~Stops(h.table, k, s)
             \/ /\ r \in Slots(n) /\ Stops(h.table, k, r)
                /\ \A s \in Slots(n) : Dist(n, a, s) < Dist(n, a, r) => ~Stops(h.table, k, s)
<1> DEFINE n == h.table_size
           a == Home(hash, n, k)
           r == Search(h, k)
           At2(i) == (a + i) % n
           I == {i \in Slots(n) : Stops(h.table, k, At2(i))}
           First(i) == \A j \in I : i <= j
<1>1. n \in Nat /\ n > 0 /\ hash[k] \in Nat  OBVIOUS
<1>2. a \in Slots(n)  BY <1>1, HomeSlot DEF Home
<1>3. /\ \A i \in Slots(n) : At2(i) \in Slots(n) /\ Dist(n, a, At2(i)) = i
      /\ \A s \in Slots(n) : Dist(n, a, s) \in Slots(n) /\ At2(Dist(n, a, s)) = s
  <2> HIDE DEF n, a
  <2> QED BY <1>1, <1>2, ProbeSlots
<1>4. r = IF I = {} THEN NULL ELSE At2(CHOOSE i \in I : First(i))
  BY DEF Search, Probe, hashmap_calc_index, Home, Stops
<1>5. CASE I = {}
  <2>1. r = NULL  BY <1>4, <1>5
  <2>2. ASSUME NEW s \in Slots(n)  PROVE ~Stops(h.table, k, s)
    <3>1. Dist(n, a, s) \in Slots(n) /\ At2(Dist(n, a, s)) = s  BY <1>3
    <3>2. Dist(n, a, s) \notin I  BY <1>5
    <3> HIDE DEF At2
    <3> QED BY <3>1, <3>2
  <2> QED BY <2>1, <2>2
<1>6. CASE I # {}
  <2> DEFINE c == CHOOSE i \in I : First(i)
  <2>1. \E i \in I : First(i)
    <3>1. I \subseteq Nat  BY <1>1 DEF Slots
    <3>2. PICK i \in I : \A j \in I : ~(j < i)
      <4> HIDE DEF I
      <4> QED BY <1>6, <3>1, LeastElement
    <3>3. ASSUME NEW j \in I  PROVE i <= j
      <4>1. i \in Nat /\ j \in Nat /\ ~(j < i)
        <5> HIDE DEF I
        <5> QED BY <3>1, <3>2
      <4> QED BY <4>1
    <3> QED BY <3>3
  <2>2. c \in I /\ First(c)
    <3> HIDE DEF I, First
    <3> QED BY <2>1
  <2>3. r = At2(c)  BY <1>4, <1>6
  <2> HIDE DEF c
  <2>4. c \in Slots(n) /\ Stops(h.table, k, At2(c))  BY <2>2
  <2>5. r \in Slots(n) /\ Stops(h.table, k, r) /\ Dist(n, a, r) = c
    <3> HIDE DEF At2, r
    <3> QED BY <2>3, <2>4, <1>3
  <2>6. ASSUME NEW s \in Slots(n), Dist(n, a, s) < Dist(n, a, r)  PROVE ~Stops(h.table, k, s)
    <3>1. Dist(n, a, s) \in Slots(n) /\ At2(Dist(n, a, s)) = s  BY <1>3
    <3>2. Dist(n, a, s) \notin I
      <4>1. Dist(n, a, s) \in Int /\ c \in Int /\ Dist(n, a, s) < c
        <5> HIDE DEF a, r
        <5> QED BY <2>4, <2>5, <2>6, <3>1, <1>1 DEF Slots
      <4> HIDE DEF I, a, r, n
      <4> QED BY <2>2, <4>1
    <3> HIDE DEF At2, a
    <3> QED BY <3>1, <3>2
  <2> QED BY <2>5, <2>6
<1> QED BY <1>5, <1>6

(* In a table with a cut, a search finds each of its entries. *)
LEMMA SearchHit ==
  ASSUME hash \in [Keys -> Nat], NEW h, h.table_size \in Nat, h.table_size > 0,
         IsTable(h.table_size, h.table), Distinct(h.table_size, h.table),
         NEW f \in Slots(h.table_size), Cut(hash, h.table_size, h.table, f),
         NEW s \in Occ(h.table_size, h.table)
  PROVE  Search(h, h.table[s].key) = s
<1> DEFINE n == h.table_size
           k == h.table[s].key
           a == Home(hash, n, k)
           r == Search(h, k)
<1>1. k \in Keys /\ s \in Slots(n) /\ h.table[s] # NULL
  BY DEF IsTable, Occ, Entries
<1>2. hash[k] \in Nat /\ a \in Slots(n)
  <2>1. hash[k] \in Nat  BY <1>1
  <2> QED BY <2>1, HomeSlot DEF Home
<1>3. Stops(h.table, k, s)  BY DEF Stops
<1>4. /\ r \in Slots(n) /\ Stops(h.table, k, r)
      /\ \A p \in Slots(n) : Dist(n, a, p) < Dist(n, a, r) => ~Stops(h.table, k, p)
  <2> HIDE DEF k
  <2> QED BY <1>1, <1>3, SearchStops
<1>5. /\ At(n, f, a) <= At(n, f, s)
      /\ \A p \in Slots(n) :
           At(n, f, a) <= At(n, f, p) /\ At(n, f, p) < At(n, f, s) => h.table[p] # NULL
  BY DEF Cut
<1> HIDE DEF r, a, k, n
<1>6. n \in Nat /\ f \in Slots(n)  BY DEF n
<1>7. Dist(n, a, r) <= Dist(n, a, s)
  <2>1. ~(Dist(n, a, s) < Dist(n, a, r))  BY <1>1, <1>3, <1>4
  <2> QED BY <2>1, <1>1, <1>2, <1>4, <1>6 DEF Dist, Slots
<1>8. CASE r = s  BY <1>8 DEF r, k
<1>9. CASE r # s
  <2>1. At(n, f, a) <= At(n, f, r) /\ At(n, f, r) < At(n, f, s)
    BY <1>1, <1>2, <1>4, <1>5, <1>6, <1>7, <1>9 DEF Dist, At, Slots
  <2>2. h.table[r] # NULL  BY <2>1, <1>4, <1>5
  <2>3. h.table[r].key = k  BY <2>2, <1>4 DEF Stops
  <2>4. r \in Occ(n, h.table)  BY <2>2, <1>4 DEF Occ
  <2> QED BY <2>3, <2>4, <1>9 DEF Distinct, k, n
<1> QED BY <1>8, <1>9

(* A search for a key that is not in the table ends at the first empty     *)
(* slot from its home, and fails only in a full table.                     *)
LEMMA SearchMiss ==
  ASSUME hash \in [Keys -> Nat], NEW h, h.table_size \in Nat, h.table_size > 0,
         NEW k \in Keys, \A s \in Occ(h.table_size, h.table) : h.table[s].key # k
  PROVE  LET n == h.table_size
             r == Search(h, k)
         IN  \/ r = NULL /\ Occ(n, h.table) = Slots(n)
             \/ /\ r \in Slots(n) /\ h.table[r] = NULL
                /\ \A p \in Slots(n) :
                     Dist(n, Home(hash, n, k), p) < Dist(n, Home(hash, n, k), r) => h.table[p] # NULL
BY SearchStops DEF Stops, Occ

(* The entries of a table, wherever they are. *)
Content(n, T) == {T[i] : i \in Occ(n, T)}

(* What every call keeps of a table: entries or nothing in the slots, no   *)
(* key twice, and a cut, that is, no entry out of reach of a search.       *)
Good(g, n, T) ==
  /\ IsTable(n, T)
  /\ Distinct(n, T)
  /\ n = 0 \/ \E f \in Slots(n) : Cut(g, n, T, f)

(* An occupied slot holds an entry, whose key has a home. *)
LEMMA HomeOfEntry ==
  ASSUME NEW g \in [Keys -> Nat], NEW n \in Nat, n > 0, NEW T, IsTable(n, T), NEW s \in Occ(n, T)
  PROVE  T[s] \in Entries /\ T[s].key \in Keys /\ Home(g, n, T[s].key) \in Slots(n)
<1>1. T[s] \in Entries /\ T[s].key \in Keys  BY DEF IsTable, Occ, Entries
<1>2. g[T[s].key] \in Nat  BY <1>1
<1> QED BY <1>1, <1>2, HomeSlot DEF Home

(* In a table with a cut, every empty slot is one: no chain goes over it. *)
LEMMA Recut ==
  ASSUME NEW g \in [Keys -> Nat], NEW n \in Nat, n > 0, NEW T, IsTable(n, T),
         NEW f \in Slots(n), Cut(g, n, T, f), NEW e \in Slots(n), T[e] = NULL
  PROVE  Cut(g, n, T, e)
<1> SUFFICES ASSUME NEW s \in Occ(n, T)
             PROVE  LET a == Home(g, n, T[s].key)
                    IN  /\ At(n, e, a) <= At(n, e, s)
                        /\ \A p \in Slots(n) :
                             At(n, e, a) <= At(n, e, p) /\ At(n, e, p) < At(n, e, s) => T[p] # NULL
  BY DEF Cut
<1> DEFINE a == Home(g, n, T[s].key)
<1>1. a \in Slots(n)  BY HomeOfEntry
<1>2. /\ At(n, f, a) <= At(n, f, s)
      /\ \A p \in Slots(n) : At(n, f, a) <= At(n, f, p) /\ At(n, f, p) < At(n, f, s) => T[p] # NULL
  BY DEF Cut
<1>3. s \in Slots(n) /\ s # e  BY DEF Occ
<1> HIDE DEF a
<1>4. ~(At(n, f, a) <= At(n, f, e) /\ At(n, f, e) < At(n, f, s))  BY <1>2
<1>5. At(n, e, a) <= At(n, e, s)  BY <1>1, <1>2, <1>3, <1>4 DEF At, Slots
<1>6. ASSUME NEW p \in Slots(n), At(n, e, a) <= At(n, e, p), At(n, e, p) < At(n, e, s)
      PROVE  T[p] # NULL
  <2>1. At(n, f, a) <= At(n, f, p) /\ At(n, f, p) < At(n, f, s)
    BY <1>1, <1>2, <1>3, <1>4, <1>6 DEF At, Slots
  <2> QED BY <2>1, <1>2
<1> QED BY <1>5, <1>6 DEF a

(* An entry put in the empty slot its search ends at leaves a good table,  *)
(* with that entry more.                                                   *)
LEMMA InsertGood ==
  ASSUME NEW g \in [Keys -> Nat], NEW n \in Nat, n > 0, NEW T, Good(g, n, T),
         NEW e \in Slots(n), T[e] = NULL, NEW x \in Entries,
         \A s \in Occ(n, T) : T[s].key # x.key,
         \A p \in Slots(n) :
           Dist(n, Home(g, n, x.key), p) < Dist(n, Home(g, n, x.key), e) => T[p] # NULL
  PROVE  LET U == [T EXCEPT ![e] = x]
         IN  /\ Good(g, n, U)
             /\ Content(n, U) = Content(n, T) \cup {x}
             /\ Occ(n, U) = Occ(n, T) \cup {e}
<1> DEFINE U == [T EXCEPT ![e] = x]
<1>1. x # NULL  BY HashmapAssumption
<1>2. IsTable(n, U) /\ U[e] = x /\ \A s \in Slots(n) \ {e} : U[s] = T[s]
  BY DEF Good, IsTable
<1> HIDE DEF U
<1>3. Occ(n, U) = Occ(n, T) \cup {e} /\ e \notin Occ(n, T)  BY <1>1, <1>2 DEF Occ
<1>4. \A s \in Occ(n, T) : s \in Slots(n) \ {e} /\ U[s] = T[s]  BY <1>2 DEF Occ
<1>5. Content(n, U) = Content(n, T) \cup {x}  BY <1>2, <1>3, <1>4 DEF Content
<1>6. Distinct(n, U)  BY <1>2, <1>3, <1>4 DEF Distinct, Good
<1>7. Cut(g, n, U, e)
  <2>1. Cut(g, n, T, e)
    <3>1. PICK f \in Slots(n) : Cut(g, n, T, f)  BY DEF Good
    <3> QED BY <3>1, Recut DEF Good
  <2>2. \A p \in Slots(n) : T[p] # NULL => U[p] # NULL  BY <1>1, <1>2
  <2>3. ASSUME NEW s \in Occ(n, T)
        PROVE  /\ At(n, e, Home(g, n, U[s].key)) <= At(n, e, s)
               /\ \A p \in Slots(n) : /\ At(n, e, Home(g, n, U[s].key)) <= At(n, e, p)
                                      /\ At(n, e, p) < At(n, e, s)
                                      => U[p] # NULL
    BY <2>1, <2>2, <1>4 DEF Cut
  <2> DEFINE a == Home(g, n, x.key)
  <2>4. a \in Slots(n)
    <3>1. g[x.key] \in Nat  BY DEF Entries
    <3> QED BY <3>1, HomeSlot DEF Home
  <2>5. /\ At(n, e, a) <= At(n, e, e)
        /\ \A p \in Slots(n) : At(n, e, a) <= At(n, e, p) /\ At(n, e, p) < At(n, e, e) => U[p] # NULL
    <3> HIDE DEF a
    <3>1. At(n, e, a) <= At(n, e, e)  BY <2>4 DEF At, Slots
    <3>2. ASSUME NEW p \in Slots(n), At(n, e, a) <= At(n, e, p), At(n, e, p) < At(n, e, e)
          PROVE  T[p] # NULL
      <4>1. Dist(n, a, p) < Dist(n, a, e)  BY <2>4, <3>2 DEF At, Dist, Slots
      <4> QED BY <4>1 DEF a
    <3> QED BY <3>1, <3>2, <2>2
  <2> QED BY <2>3, <2>5, <1>2, <1>3 DEF Cut
<1> QED BY <1>2, <1>3, <1>5, <1>6, <1>7 DEF Good, U

-----------------------------------------------------------------------------
(* Rehashing. *)

(* The fields of the map's record. *)
MapFields == {"table_size_init", "table_size", "size", "table"}

(* c lists the tables after each pass of the loop of hashmap_rehash, up to *)
(* the n-th.                                                               *)
IsCopies(h, table_size, n, c) ==
  c = [i \in 0 .. n |->
         IF i = 0 THEN [h EXCEPT !.table_size = table_size, !.table = EmptyTable(table_size)]
                  ELSE CopyEntry(c[i - 1], h.table[i - 1])]

(* The loop of hashmap_rehash, pass by pass. *)
LEMMA CopiesStep ==
  ASSUME NEW h, h.table_size \in Nat, NEW table_size
  PROVE  /\ Copies(h, table_size)[0]
              = [h EXCEPT !.table_size = table_size, !.table = EmptyTable(table_size)]
         /\ \A i \in 0 .. h.table_size - 1 :
              Copies(h, table_size)[i + 1] = CopyEntry(Copies(h, table_size)[i], h.table[i])
<1> DEFINE N == h.table_size
           Is(n, c) == IsCopies(h, table_size, n, c)
           S == {n \in Nat : \E c : Is(n, c)}
           start == [h EXCEPT !.table_size = table_size, !.table = EmptyTable(table_size)]
<1>1. 0 \in S
  <2>1. Is(0, [i \in 0 .. 0 |-> start])  BY DEF IsCopies
  <2> HIDE DEF Is
  <2> QED BY <2>1
<1>2. ASSUME NEW n \in 0 .. N - 1, n \in S  PROVE n + 1 \in S
  <2>1. PICK c : Is(n, c)  BY <1>2
  <2> DEFINE d == [i \in 0 .. n + 1 |-> IF i = n + 1 THEN CopyEntry(c[n], h.table[n]) ELSE c[i]]
  <2>2. ASSUME NEW i \in 0 .. n + 1
        PROVE  d[i] = IF i = 0 THEN start ELSE CopyEntry(d[i - 1], h.table[i - 1])
    <3> HIDE DEF start
    <3>1. CASE i = 0  BY <3>1, <2>1 DEF IsCopies, start
    <3>2. CASE i = n + 1  BY <3>2
    <3>3. CASE i # 0 /\ i # n + 1
      <4>1. i \in 0 .. n /\ i - 1 \in 0 .. n  BY <3>3
      <4>2. d[i] = c[i] /\ d[i - 1] = c[i - 1]  BY <4>1, <3>3
      <4>3. c[i] = CopyEntry(c[i - 1], h.table[i - 1])  BY <2>1, <4>1, <3>3 DEF IsCopies
      <4> QED BY <4>2, <4>3, <3>3
    <3> QED BY <3>1, <3>2, <3>3
  <2>3. Is(n + 1, d)  BY <2>2 DEF IsCopies
  <2>4. n + 1 \in Nat  OBVIOUS
  <2> HIDE DEF Is, d
  <2> QED BY <2>3, <2>4
<1>3. \E c : Is(N, c)
  <2>1. 0 .. N \subseteq S
    <3> HIDE DEF S
    <3> QED BY <1>1, <1>2, CountUp
  <2> QED BY <2>1
<1>4. Is(N, CHOOSE c : Is(N, c))
  <2> HIDE DEF Is
  <2> QED BY <1>3
<1>5. Copies(h, table_size) = CHOOSE c : Is(N, c)  BY DEF Copies, IsCopies
<1> DEFINE C == Copies(h, table_size)
<1>6. Is(N, C)  BY <1>4, <1>5
<1> HIDE DEF C, start
<1>7. C[0] = start  BY <1>6 DEF IsCopies, start
<1>8. ASSUME NEW i \in 0 .. N - 1  PROVE C[i + 1] = CopyEntry(C[i], h.table[i])
  <2>1. i + 1 \in 0 .. N /\ i + 1 # 0 /\ (i + 1) - 1 = i  OBVIOUS
  <2> QED BY <1>6, <2>1 DEF IsCopies
<1> QED BY <1>7, <1>8 DEF C, start

(* The map's record is sound: its table is good, and size counts the       *)
(* occupied slots.                                                         *)
IsMap(h) ==
  /\ h = [f \in MapFields |-> h[f]]
  /\ h.table_size \in Nat /\ h.table_size_init \in Nat /\ h.size \in Nat
  /\ Good(hash, h.table_size, h.table)
  /\ IsFiniteSet(Occupied(h)) /\ Cardinality(Occupied(h)) = h.size

(* The occupied slots of a map are those of its table. *)
LEMMA OccupiedIsOcc == ASSUME NEW h PROVE Occupied(h) = Occ(h.table_size, h.table)
BY DEF Occupied, Occ

(* A table has at most as many occupied slots as slots, and with as many   *)
(* it is full.                                                             *)
LEMMA OccFinite ==
  ASSUME NEW n \in Nat, NEW T
  PROVE  /\ IsFiniteSet(Slots(n)) /\ Cardinality(Slots(n)) = n
         /\ IsFiniteSet(Occ(n, T)) /\ Cardinality(Occ(n, T)) \in Nat /\ Cardinality(Occ(n, T)) <= n
         /\ Cardinality(Occ(n, T)) = n => Occ(n, T) = Slots(n)
<1>1. IsFiniteSet(Slots(n)) /\ Cardinality(Slots(n)) = n
  BY FS_Interval DEF Slots
<1>2. Occ(n, T) \in SUBSET Slots(n)  BY DEF Occ
<1> QED BY <1>1, <1>2, FS_Subset, FS_CardinalityType

(* What hashmap_rehash has done before pass i: the new table m of N slots  *)
(* is good and holds the entries of the first i slots of the old one.      *)
Copied(h, N, i, m) ==
  /\ m = [f \in MapFields |-> m[f]]
  /\ m.table_size = N /\ m.table_size_init = h.table_size_init /\ m.size = h.size
  /\ Good(hash, N, m.table)
  /\ Content(N, m.table) = {h.table[j] : j \in {j \in Occupied(h) : j < i}}
  /\ Cardinality(Occ(N, m.table)) = Cardinality({j \in Occupied(h) : j < i})

(* A pass of hashmap_rehash copies the entry of the next slot: the new     *)
(* table has room, so the search for its key ends at an empty slot.        *)
LEMMA CopyOne ==
  ASSUME hash \in [Keys -> Nat], NEW h, IsMap(h), NEW N \in Nat, N > h.size,
         NEW i \in 0 .. h.table_size - 1, NEW m, Copied(h, N, i, m)
  PROVE  Copied(h, N, i + 1, CopyEntry(m, h.table[i]))
<1> DEFINE e == h.table[i]
           A == {j \in Occupied(h) : j < i}
           B == {j \in Occupied(h) : j < i + 1}
<1>0. h.table_size \in Nat /\ h.size \in Nat /\ N > 0  BY DEF IsMap
<1>1. CASE e = NULL
  <2>1. B = A  BY <1>0, <1>1 DEF Occupied, Slots
  <2>2. CopyEntry(m, e) = m  BY <1>1 DEF CopyEntry
  <2> QED BY <2>1, <2>2 DEF Copied
<1>2. CASE e # NULL
  <2>1. i \in Occupied(h) /\ B = A \cup {i} /\ i \notin A
    BY <1>0, <1>2 DEF Occupied, Slots
  <2>2. /\ IsFiniteSet(A) /\ IsFiniteSet(B) /\ Cardinality(B) = Cardinality(A) + 1
        /\ Cardinality(A) \in Nat /\ Cardinality(B) <= h.size
    <3>1. IsFiniteSet(Occupied(h)) /\ Cardinality(Occupied(h)) = h.size  BY DEF IsMap
    <3>2. A \in SUBSET Occupied(h) /\ B \in SUBSET Occupied(h)  OBVIOUS
    <3> HIDE DEF A, B
    <3> QED BY <3>1, <3>2, <2>1, FS_Subset, FS_AddElement, FS_CardinalityType
  <2> DEFINE T == m.table
             r == Search(m, e.key)
             U == [T EXCEPT ![r] = e]
             n == CopyEntry(m, e)
  <2>3. e \in Entries /\ e.key \in Keys
    BY <2>1 DEF IsMap, Good, IsTable, Occupied, Entries
  <2>4. \A s \in Occ(N, T) : T[s].key # e.key
    <3> SUFFICES ASSUME NEW s \in Occ(N, T), T[s].key = e.key  PROVE FALSE
      OBVIOUS
    <3>1. T[s] \in Content(N, T)  BY DEF Content
    <3>2. PICK j \in A : T[s] = h.table[j]  BY <3>1 DEF Copied
    <3>3. j \in Occ(h.table_size, h.table) /\ i \in Occ(h.table_size, h.table)
      BY <2>1, OccupiedIsOcc
    <3>4. j = i  BY <3>2, <3>3 DEF IsMap, Good, Distinct
    <3> QED BY <3>4, <2>1
  <2>5. Occ(N, T) # Slots(N)
    <3>1. Cardinality(Occ(N, T)) = Cardinality(A)  BY DEF Copied
    <3>2. Cardinality(Slots(N)) = N  BY OccFinite
    <3> HIDE DEF A, B, T
    <3> QED BY <3>1, <3>2, <2>2, <1>0
  <2>6. /\ r \in Slots(N) /\ T[r] = NULL
        /\ \A p \in Slots(N) :
             Dist(N, Home(hash, N, e.key), p) < Dist(N, Home(hash, N, e.key), r) => T[p] # NULL
    <3>1. m.table_size = N  BY DEF Copied
    <3>2. \A s \in Occ(m.table_size, m.table) : m.table[s].key # e.key  BY <2>4, <3>1
    <3> HIDE DEF e
    <3> QED BY <1>0, <2>3, <2>5, <3>1, <3>2, SearchMiss
  <2>7. /\ Good(hash, N, U)
        /\ Content(N, U) = Content(N, T) \cup {e}
        /\ Occ(N, U) = Occ(N, T) \cup {r}
    <3>1. Good(hash, N, T)  BY DEF Copied
    <3> HIDE DEF e, T, r, A, B
    <3>2. /\ hash \in [Keys -> Nat] /\ N \in Nat /\ N > 0 /\ r \in Slots(N) /\ T[r] = NULL
          /\ e \in Entries
      BY <1>0, <2>3, <2>6
    <3>3. Good(hash, N, U)  BY <2>4, <2>6, <3>1, <3>2, InsertGood
    <3>4. Content(N, U) = Content(N, T) \cup {e}  BY <2>4, <2>6, <3>1, <3>2, InsertGood
    <3>5. Occ(N, U) = Occ(N, T) \cup {r}  BY <2>4, <2>6, <3>1, <3>2, InsertGood
    <3> QED BY <3>3, <3>4, <3>5
  <2>8. n = [m EXCEPT !.table = U]
    <3>1. NULL \notin Slots(N)  BY HashmapAssumption DEF Slots
    <3>2. hashmap_entry_find(m, e.key, TRUE) = r  BY DEF hashmap_entry_find
    <3> QED BY <1>2, <3>2 DEF CopyEntry
  <2>9. /\ n = [f \in MapFields |-> n[f]] /\ n.table = U
        /\ n.table_size = N /\ n.table_size_init = h.table_size_init /\ n.size = h.size
    <3> HIDE DEF n, U
    <3> QED BY <2>8, Zenon DEF Copied, MapFields
  <2>10. Content(N, U) = {h.table[j] : j \in B}
    <3>1. Content(N, T) = {h.table[j] : j \in A}  BY DEF Copied
    <3> HIDE DEF A, B, T, U
    <3> QED BY <2>1, <2>7, <3>1
  <2>11. Cardinality(Occ(N, U)) = Cardinality(B)
    <3>1. r \notin Occ(N, T)  BY <2>6 DEF Occ
    <3>2. IsFiniteSet(Occ(N, T))  BY OccFinite
    <3>3. Cardinality(Occ(N, U)) = Cardinality(Occ(N, T)) + 1
      <4> HIDE DEF T, U, r
      <4> QED BY <2>7, <3>1, <3>2, FS_AddElement
    <3>4. Cardinality(Occ(N, T)) = Cardinality(A)  BY DEF Copied
    <3> HIDE DEF A, B, T, U
    <3> QED BY <2>2, <3>3, <3>4
  <2> HIDE DEF U, n
  <2> QED BY <2>7, <2>9, <2>10, <2>11 DEF Copied, n, e
<1> QED BY <1>1, <1>2

(* An empty table is good. *)
LEMMA EmptyGood ==
  ASSUME NEW N \in Nat, NEW g
  PROVE  Good(g, N, EmptyTable(N)) /\ Occ(N, EmptyTable(N)) = {} /\ Content(N, EmptyTable(N)) = {}
<1>1. Occ(N, EmptyTable(N)) = {}  BY DEF Occ, EmptyTable
<1>2. IsTable(N, EmptyTable(N))  BY DEF IsTable, EmptyTable
<1>3. Distinct(N, EmptyTable(N))  BY <1>1 DEF Distinct
<1>4. \A f \in Slots(N) : Cut(g, N, EmptyTable(N), f)  BY <1>1 DEF Cut
<1>5. N = 0 \/ 0 \in Slots(N)  BY DEF Slots
<1> QED BY <1>1, <1>2, <1>3, <1>4, <1>5 DEF Good, Content

(* hashmap_rehash into a table that has more slots than the map has        *)
(* entries loses, doubles and changes no entry.                            *)
LEMMA RehashGood ==
  ASSUME hash \in [Keys -> Nat], NEW h, IsMap(h), NEW N \in Nat, N > h.size
  PROVE  LET m == hashmap_rehash(h, N)
         IN  /\ IsMap(m)
             /\ m.table_size = N /\ m.table_size_init = h.table_size_init /\ m.size = h.size
             /\ Content(N, m.table) = Content(h.table_size, h.table)
<1> DEFINE L == h.table_size
           C == Copies(h, N)
           S == {i \in 0 .. L : Copied(h, N, i, C[i])}
<1>1. L \in Nat /\ h.size \in Nat /\ N > 0  BY DEF IsMap
<1>a. /\ Copies(h, N)[0] = [h EXCEPT !.table_size = N, !.table = EmptyTable(N)]
      /\ \A i \in 0 .. h.table_size - 1 :
           Copies(h, N)[i + 1] = CopyEntry(Copies(h, N)[i], h.table[i])
  <2>1. h.table_size \in Nat  BY <1>1
  <2> HIDE DEF L, C, S
  <2> QED BY <2>1, CopiesStep, Zenon
<1>2. 0 \in S
  <2> DEFINE m == [h EXCEPT !.table_size = N, !.table = EmptyTable(N)]
  <2>1. C[0] = m  BY <1>a
  <2>2. /\ m = [f \in MapFields |-> m[f]] /\ m.table = EmptyTable(N)
        /\ m.table_size = N /\ m.table_size_init = h.table_size_init /\ m.size = h.size
    BY Zenon DEF IsMap, MapFields
  <2> HIDE DEF m
  <2>3. {j \in Occupied(h) : j < 0} = {}  BY <1>1 DEF Occupied, Slots
  <2>4. Content(N, m.table) = {h.table[j] : j \in {j \in Occupied(h) : j < 0}}
    BY <2>2, <2>3, EmptyGood
  <2>5. Cardinality(Occ(N, m.table)) = Cardinality({j \in Occupied(h) : j < 0})
    BY <2>2, <2>3, EmptyGood
  <2>6. Good(hash, N, m.table)  BY <2>2, EmptyGood
  <2>7. Copied(h, N, 0, m)  BY <2>2, <2>4, <2>5, <2>6 DEF Copied
  <2> QED BY <1>1, <2>1, <2>7
<1>3. ASSUME NEW i \in 0 .. L - 1, i \in S  PROVE i + 1 \in S
  <2>1. Copied(h, N, i, C[i])  BY <1>3
  <2>2. C[i + 1] = CopyEntry(C[i], h.table[i])
    <3>1. \A j \in 0 .. L - 1 : C[j + 1] = CopyEntry(C[j], h.table[j])
      <4> HIDE DEF S
      <4> QED BY <1>a
    <3> HIDE DEF S, C
    <3> QED BY <3>1
  <2>3. Copied(h, N, i + 1, C[i + 1])  BY <2>1, <2>2, <1>1, CopyOne
  <2>4. i + 1 \in 0 .. L  BY <1>1
  <2> QED BY <2>3, <2>4
<1>4. L \in S
  <2> HIDE DEF S
  <2>1. 0 .. L \subseteq S  BY <1>1, <1>2, <1>3, CountUp
  <2> QED BY <1>1, <2>1
<1> DEFINE m == hashmap_rehash(h, N)
<1>5. m = C[L]  BY DEF hashmap_rehash
<1>6. Copied(h, N, L, m)  BY <1>4, <1>5
<1> HIDE DEF m, C
<1>7. {j \in Occupied(h) : j < L} = Occupied(h)  BY <1>1 DEF Occupied, Slots
<1>8. Content(N, m.table) = Content(h.table_size, h.table)
  <2>1. Content(N, m.table) = {h.table[j] : j \in {j \in Occupied(h) : j < L}}  BY <1>6 DEF Copied
  <2>2. {h.table[j] : j \in {j \in Occupied(h) : j < L}} = Content(h.table_size, h.table)
    BY <1>7, OccupiedIsOcc DEF Content
  <2> QED BY <2>1, <2>2, Zenon
<1>9. /\ m = [f \in MapFields |-> m[f]]
      /\ m.table_size = N /\ m.table_size_init = h.table_size_init /\ m.size = h.size
      /\ Good(hash, N, m.table)
  BY <1>6 DEF Copied
<1>10. IsFiniteSet(Occupied(m)) /\ Cardinality(Occupied(m)) = h.size
  <2>1. Occupied(m) = Occ(N, m.table)  BY <1>9, OccupiedIsOcc
  <2>2. Cardinality(Occ(N, m.table)) = Cardinality({j \in Occupied(h) : j < L})  BY <1>6 DEF Copied
  <2>3. Cardinality(Occupied(h)) = h.size  BY DEF IsMap
  <2> QED BY <2>1, <2>2, <2>3, <1>7, OccFinite, Zenon
<1>11. IsMap(m)
  <2>1. h.table_size_init \in Nat  BY DEF IsMap
  <2> QED BY <2>1, <1>1, <1>9, <1>10, Zenon DEF IsMap
<1> QED BY <1>8, <1>9, <1>11 DEF m

-----------------------------------------------------------------------------
(* Removal. *)

(* Positions number the slots from 0, and the distance of two slots is     *)
(* that of their positions, around the end.                                *)
LEMMA AtSlots ==
  ASSUME NEW n \in Nat, n > 0, NEW f \in Slots(n)
  PROVE  /\ \A s \in Slots(n) : At(n, f, s) \in 0 .. n - 1
         /\ \A s, t \in Slots(n) : At(n, f, s) = At(n, f, t) => s = t
         /\ \A s, t \in Slots(n) :
              Dist(n, s, t) = IF At(n, f, s) <= At(n, f, t) THEN At(n, f, t) - At(n, f, s)
                                                            ELSE At(n, f, t) - At(n, f, s) + n
BY DEF At, Dist, Slots

(* The position of the i-th slot probed from slot a; the probe has passed  *)
(* the end of the array once it is below a.                                *)
LEMMA AtProbe ==
  ASSUME NEW n \in Nat, n > 0, NEW f \in Slots(n), NEW a \in Slots(n), NEW i \in Slots(n)
  PROVE  LET x == (a + i) % n
         IN  /\ x \in Slots(n)
             /\ At(n, f, x) = IF At(n, f, a) + i <= n - 1 THEN At(n, f, a) + i
                                                          ELSE At(n, f, a) + i - n
             /\ x < a <=> a + i >= n
<1>1. (a + i) % n = IF a + i < n THEN a + i ELSE a + i - n  BY DEF Slots
<1> DEFINE x == (a + i) % n
<1> HIDE DEF x
<1>2. x = IF a + i < n THEN a + i ELSE a + i - n  BY <1>1 DEF x
<1>3. x \in Slots(n)  BY <1>2 DEF Slots
<1>4. At(n, f, x) = IF At(n, f, a) + i <= n - 1 THEN At(n, f, a) + i ELSE At(n, f, a) + i - n
  BY <1>2 DEF At, Slots
<1>5. x < a <=> a + i >= n  BY <1>2 DEF Slots
<1> QED BY <1>3, <1>4, <1>5 DEF x

(* The position up to which the first i passes of the walk from slot a     *)
(* have come, at most the last.                                            *)
Reach(n, f, a, i) == IF At(n, f, a) + i <= n - 1 THEN At(n, f, a) + i ELSE n - 1

(* The position of the home of an entry. *)
HomeAt(g, n, f, e) == At(n, f, Home(g, n, e.key))

(* The invariant of the walk of hashmap_entry_remove, after i passes from  *)
(* the slot a of the removed entry; T is the table before, U the table     *)
(* now, q the gap and d tells whether the walk is over. Slots not yet      *)
(* reached are untouched; the slots other than the gap hold the entries    *)
(* other than the removed one, each once; the slots from an entry's home   *)
(* to it are occupied in T; an entry that stands before a in the array     *)
(* stood before it already; and no entry already passed would be cut off   *)
(* from its home by the gap. A walk that is not over has met no empty      *)
(* slot.                                                                   *)
Closing(g, n, T, f, a, i, U, q, d) ==
  LET rest == Occ(n, T) \ {q}
  IN  /\ IsTable(n, U) /\ Occ(n, U) = Occ(n, T) /\ q \in Occ(n, T)
      /\ At(n, f, a) <= At(n, f, q) /\ At(n, f, q) <= Reach(n, f, a, i)
      /\ \A s \in Slots(n) : At(n, f, s) > Reach(n, f, a, i) \/ At(n, f, s) < At(n, f, a) => U[s] = T[s]
      /\ {U[s] : s \in rest} = {T[s] : s \in Occ(n, T) \ {a}}
      /\ \A s, t \in rest : U[s].key = U[t].key => s = t
      /\ \A s \in rest :
           /\ HomeAt(g, n, f, U[s]) <= At(n, f, s)
           /\ \A p \in Slots(n) : HomeAt(g, n, f, U[s]) <= At(n, f, p) /\ At(n, f, p) < At(n, f, s)
                                  => T[p] # NULL
      /\ \A s \in rest : s < a => \E t \in Occ(n, T) : t < a /\ U[s] = T[t]
      /\ \A s \in rest : /\ At(n, f, q) < At(n, f, s)
                         /\ At(n, f, s) <= Reach(n, f, a, i) \/ d
                         => At(n, f, q) < HomeAt(g, n, f, U[s])
      /\ d \/ \A j \in 0 .. i : T[(a + j) % n] # NULL

(* The invariant holds before the first pass: the gap is the removed slot. *)
LEMMA ClosingStart ==
  ASSUME NEW g, NEW n \in Nat, n > 0, NEW T, IsTable(n, T), Distinct(n, T),
         NEW f \in Slots(n), Cut(g, n, T, f), NEW a \in Occ(n, T)
  PROVE  Closing(g, n, T, f, a, 0, T, a, FALSE)
<1>1. a \in Slots(n) /\ T[a] # NULL  BY DEF Occ
<1>2. Reach(n, f, a, 0) = At(n, f, a)  BY <1>1, AtSlots DEF Reach
<1>3. (a + 0) % n = a  BY <1>1 DEF Slots
<1>4. \A s \in Occ(n, T) \ {a} : s \in Slots(n) /\ s \in Occ(n, T) BY DEF Occ
<1>5. \A s \in Slots(n) : At(n, f, s) \in 0 .. n - 1  BY AtSlots
<1>6. \A j \in 0 .. 0 : T[(a + j) % n] # NULL  BY <1>1, <1>3
<1>7. \A s \in Occ(n, T) : ~(At(n, f, a) < At(n, f, s) /\ (At(n, f, s) <= At(n, f, a) \/ FALSE))
  BY <1>1, <1>4, <1>5 DEF Occ
<1> QED BY <1>1, <1>2, <1>4, <1>5, <1>6, <1>7 DEF Closing, Cut, Distinct, HomeAt

(* A pass at an empty slot, or after one, ends the walk: an entry further  *)
(* on has its home behind that slot, so the gap does not cut it off.       *)
LEMMA PassNull ==
  ASSUME NEW g \in [Keys -> Nat], NEW n \in Nat, n > 0, NEW T, NEW f \in Slots(n),
         NEW a \in Occ(n, T), NEW i \in Nat, i + 1 <= n - 1, NEW U, NEW q, NEW d \in BOOLEAN,
         Closing(g, n, T, f, a, i, U, q, d),
         d \/ U[(a + (i + 1)) % n] = NULL
  PROVE  Closing(g, n, T, f, a, i + 1, U, q, TRUE)
<1> DEFINE x == (a + (i + 1)) % n
           c(s) == At(n, f, s)
           R == Reach(n, f, a, i)
           R2 == Reach(n, f, a, i + 1)
           rest == Occ(n, T) \ {q}
<1>1. a \in Slots(n) /\ i + 1 \in Slots(n)  BY DEF Occ, Slots
<1>2. /\ x \in Slots(n)
      /\ c(x) = IF c(a) + (i + 1) <= n - 1 THEN c(a) + (i + 1) ELSE c(a) + (i + 1) - n
  BY <1>1, AtProbe
<1>3. \A s \in Slots(n) : c(s) \in 0 .. n - 1  BY AtSlots
<1>4. R \in Nat /\ R2 \in Nat /\ R <= R2  BY <1>1, <1>3 DEF Reach
<1>5. q \in Slots(n)  BY DEF Closing, Occ
<1>6. ASSUME NEW s \in rest, c(q) < c(s)  PROVE c(q) < HomeAt(g, n, f, U[s])
  <2>1. s \in Slots(n) /\ s \in Occ(n, U)  BY DEF Closing, Occ
  <2>2. HomeAt(g, n, f, U[s]) \in 0 .. n - 1
    <3>1. IsTable(n, U)  BY DEF Closing
    <3>2. Home(g, n, U[s].key) \in Slots(n)  BY <2>1, <3>1, HomeOfEntry
    <3> QED BY <3>2, <1>3 DEF HomeAt
  <2>3. c(s) <= R \/ d => c(q) < HomeAt(g, n, f, U[s])  BY <1>6 DEF Closing
  <2>4. CASE c(s) > R /\ ~d
    <3>1. U[x] = NULL  BY <2>4
    <3>2. T[x] = NULL
      <4>1. Occ(n, U) = Occ(n, T)  BY DEF Closing
      <4> HIDE DEF x
      <4> QED BY <3>1, <4>1, <1>2 DEF Occ
    <3>3. c(s) <= n - 1 /\ c(x) = R + 1  BY <2>4, <2>1, <1>1, <1>2, <1>3 DEF Reach
    <3>4. s # x  BY <3>2 DEF Occ
    <3>5. c(s) # c(x)
      <4> HIDE DEF x
      <4> QED BY <3>4, <2>1, <1>2, AtSlots
    <3>6. ~(HomeAt(g, n, f, U[s]) <= c(x) /\ c(x) < c(s))
      <4> HIDE DEF x
      <4> QED BY <3>2, <1>2 DEF Closing
    <3>7. c(q) <= R  BY DEF Closing
    <3>8. c(q) \in Int /\ c(s) \in Int  BY <1>3, <1>5, <2>1
    <3> HIDE DEF x, c, R, R2
    <3> QED BY <3>3, <3>5, <3>6, <3>7, <3>8, <2>2, <2>4, <1>4
  <2>5. c(s) \in Int  BY <1>3, <2>1
  <2> HIDE DEF c, R
  <2> QED BY <2>3, <2>4, <2>5, <1>4
<1>7. \A s \in Slots(n) : c(s) > R2 => c(s) > R
  <2> HIDE DEF c, R, R2
  <2> QED BY <1>3, <1>4
<1>8. c(q) <= R2
  <2>1. c(q) <= R  BY DEF Closing
  <2>2. c(q) \in Int  BY <1>3, <1>5
  <2> HIDE DEF c, R, R2
  <2> QED BY <2>1, <2>2, <1>4
<1> QED BY <1>6, <1>7, <1>8 DEF Closing

(* What the comparison of distances in a pass says: the entry at x is      *)
(* further from its home than the gap is exactly if the gap lies between   *)
(* the two, that is, if the gap cuts it off.                               *)
Compared(g, n, T, f, a, i, U, q) ==
  LET x == (a + (i + 1)) % n
      h == Home(g, n, U[x].key)
  IN  /\ x \in Occ(n, T) \ {q} /\ h \in Slots(n)
      /\ Dist(n, h, x) > Dist(n, h, q)
         <=> At(n, f, x) > At(n, f, q) /\ At(n, f, h) <= At(n, f, q)
      /\ At(n, f, x) <= At(n, f, q) => At(n, f, x) < At(n, f, a)
      /\ At(n, f, x) > At(n, f, q)
         => At(n, f, x) = Reach(n, f, a, i) + 1 /\ Reach(n, f, a, i + 1) = Reach(n, f, a, i) + 1
      /\ At(n, f, x) <= At(n, f, q) => Reach(n, f, a, i + 1) = Reach(n, f, a, i)

(* The comparison of a pass that meets an entry, also where the walk       *)
(* passes the end of the array.                                            *)
LEMMA PassCompare ==
  ASSUME NEW g \in [Keys -> Nat], NEW n \in Nat, n > 0, NEW T, NEW f \in Slots(n),
         NEW a \in Occ(n, T), NEW i \in Nat, i + 1 <= n - 1, NEW U, NEW q,
         Closing(g, n, T, f, a, i, U, q, FALSE),
         U[(a + (i + 1)) % n] # NULL
  PROVE  Compared(g, n, T, f, a, i, U, q)
<1> DEFINE x == (a + (i + 1)) % n
           h == Home(g, n, U[x].key)
<1>1. a \in Slots(n) /\ i + 1 \in Slots(n)  BY DEF Occ, Slots
<1>2. /\ x \in Slots(n)
      /\ At(n, f, x) = IF At(n, f, a) + (i + 1) <= n - 1 THEN At(n, f, a) + (i + 1)
                                                         ELSE At(n, f, a) + (i + 1) - n
  BY <1>1, AtProbe
<1>3. U[x] # NULL  OBVIOUS
<1> HIDE DEF x
<1>4. x \in Occ(n, T)
  <2>1. Occ(n, U) = Occ(n, T)  BY DEF Closing
  <2> QED BY <2>1, <1>2, <1>3 DEF Occ
<1>5. q \in Slots(n) /\ At(n, f, a) <= At(n, f, q) /\ At(n, f, q) <= Reach(n, f, a, i)
  BY DEF Closing, Occ
<1>6. h \in Slots(n)
  <2>1. IsTable(n, U) /\ x \in Occ(n, U)  BY <1>4 DEF Closing
  <2> QED BY <2>1, HomeOfEntry
<1>7. \A s \in Slots(n) : At(n, f, s) \in 0 .. n - 1  BY AtSlots
<1>8. At(n, f, a) \in 0 .. n - 1 /\ At(n, f, q) \in 0 .. n - 1 /\ At(n, f, x) \in 0 .. n - 1
      /\ At(n, f, h) \in 0 .. n - 1
  <2> HIDE DEF h
  <2> QED BY <1>1, <1>2, <1>5, <1>6, <1>7
<1>9. x # q
  BY <1>2, <1>5, <1>8 DEF Reach
<1>10. At(n, f, h) <= At(n, f, x)
  BY <1>4, <1>9 DEF Closing, HomeAt
<1>11. /\ Dist(n, h, x) = IF At(n, f, h) <= At(n, f, x) THEN At(n, f, x) - At(n, f, h)
                                                        ELSE At(n, f, x) - At(n, f, h) + n
       /\ Dist(n, h, q) = IF At(n, f, h) <= At(n, f, q) THEN At(n, f, q) - At(n, f, h)
                                                        ELSE At(n, f, q) - At(n, f, h) + n
  <2> HIDE DEF h
  <2> QED BY <1>2, <1>5, <1>6, AtSlots
<1>12. /\ Dist(n, h, x) > Dist(n, h, q)
          <=> At(n, f, x) > At(n, f, q) /\ At(n, f, h) <= At(n, f, q)
  <2> HIDE DEF h
  <2> QED BY <1>8, <1>10, <1>11
<1>13. At(n, f, x) <= At(n, f, q) => At(n, f, x) < At(n, f, a)
  BY <1>2, <1>5, <1>8 DEF Reach
<1>14. At(n, f, x) > At(n, f, q)
       => At(n, f, x) = Reach(n, f, a, i) + 1 /\ Reach(n, f, a, i + 1) = Reach(n, f, a, i) + 1
  BY <1>2, <1>5, <1>8 DEF Reach
<1>15. At(n, f, x) <= At(n, f, q) => Reach(n, f, a, i + 1) = Reach(n, f, a, i)
  BY <1>2, <1>5, <1>8 DEF Reach
<1> QED BY <1>4, <1>6, <1>9, <1>12, <1>13, <1>14, <1>15 DEF x, Compared

(* A walk that meets an entry has met no empty slot. *)
LEMMA PassRun ==
  ASSUME NEW n, NEW T, NEW a, NEW i \in Nat,
         \A j \in 0 .. i : T[(a + j) % n] # NULL, T[(a + (i + 1)) % n] # NULL
  PROVE  \A j \in 0 .. i + 1 : T[(a + j) % n] # NULL
<1> SUFFICES ASSUME NEW j \in 0 .. i + 1  PROVE T[(a + j) % n] # NULL
  OBVIOUS
<1>1. j \in 0 .. i \/ j = i + 1  OBVIOUS
<1> QED BY <1>1

(* A pass that leaves the entry it meets where it is keeps the invariant. *)
LEMMA PassStay ==
  ASSUME NEW g \in [Keys -> Nat], NEW n \in Nat, n > 0, NEW T, NEW f \in Slots(n),
         NEW a \in Occ(n, T), NEW i \in Nat, i + 1 <= n - 1, NEW U, NEW q,
         Closing(g, n, T, f, a, i, U, q, FALSE),
         U[(a + (i + 1)) % n] # NULL,
         LET h == Home(g, n, U[(a + (i + 1)) % n].key)
         IN  ~(Dist(n, h, (a + (i + 1)) % n) > Dist(n, h, q))
  PROVE  Closing(g, n, T, f, a, i + 1, U, q, FALSE)
<1> DEFINE x == (a + (i + 1)) % n
           h == Home(g, n, U[x].key)
           c(s) == At(n, f, s)
           R == Reach(n, f, a, i)
           R2 == Reach(n, f, a, i + 1)
           rest == Occ(n, T) \ {q}
<1>0. Compared(g, n, T, f, a, i, U, q)  BY PassCompare
<1>1. /\ x \in Occ(n, T) \ {q} /\ h \in Slots(n)
      /\ Dist(n, h, x) > Dist(n, h, q) <=> c(x) > c(q) /\ c(h) <= c(q)
      /\ c(x) <= c(q) => c(x) < c(a)
      /\ c(x) > c(q) => c(x) = R + 1 /\ R2 = R + 1
      /\ c(x) <= c(q) => R2 = R
  BY <1>0 DEF Compared
<1>2. ~(c(x) > c(q) /\ c(h) <= c(q))  BY <1>1
<1>3. \A s \in Slots(n) : c(s) \in 0 .. n - 1  BY AtSlots
<1>4. x \in Slots(n) /\ q \in Slots(n) /\ a \in Slots(n) /\ rest \subseteq Slots(n)
  <2> HIDE DEF x
  <2> QED BY <1>1 DEF Occ, Closing
<1>5. c(x) \in 0 .. n - 1 /\ c(q) \in 0 .. n - 1 /\ c(h) \in 0 .. n - 1 /\ c(a) \in 0 .. n - 1
      /\ R \in Nat
  <2>1. c(a) \in 0 .. n - 1  BY <1>3, <1>4
  <2>2. R \in Nat  BY <2>1 DEF Reach
  <2> HIDE DEF x, h, c, R
  <2> QED BY <1>1, <1>3, <1>4, <2>2
<1>6. R2 \in Nat /\ R <= R2 /\ R2 <= R + 1 /\ (R2 = R + 1 => c(x) = R2)
  <2> HIDE DEF x, h, c, R, R2
  <2> QED BY <1>1, <1>5
<1>7. ASSUME NEW s \in rest, c(q) < c(s), c(s) <= R2
      PROVE  c(q) < HomeAt(g, n, f, U[s])
  <2>1. CASE s = x
    <3>1. c(h) > c(q)
      <4>1. c(x) > c(q)
        <5> HIDE DEF x, c
        <5> QED BY <2>1, <1>7
      <4>2. c(h) \in Int /\ c(q) \in Int  BY <1>5
      <4> HIDE DEF x, h, c
      <4> QED BY <4>1, <4>2, <1>2
    <3>2. HomeAt(g, n, f, U[s]) = c(h)
      <4> HIDE DEF x
      <4> QED BY <2>1 DEF HomeAt
    <3>3. c(h) \in Int /\ c(q) \in Int  BY <1>5
    <3> HIDE DEF x, h, c
    <3> QED BY <3>1, <3>2, <3>3
  <2>2. CASE s # x
    <3>1. c(s) # c(x)
      <4> HIDE DEF x
      <4> QED BY <2>2, <1>4, <1>7, AtSlots
    <3>2. c(s) \in Int  BY <1>3, <1>4
    <3>3. c(s) <= R
      <4> HIDE DEF x, h, c, R, R2
      <4> QED BY <3>1, <3>2, <1>5, <1>6, <1>7
    <3> QED BY <3>3, <1>7 DEF Closing
  <2> QED BY <2>1, <2>2
<1>8. \A s \in Slots(n) : c(s) > R2 => c(s) > R
  <2> HIDE DEF c, R, R2
  <2> QED BY <1>3, <1>5, <1>6
<1>9. c(q) <= R2
  <2>1. c(q) <= R  BY DEF Closing
  <2> HIDE DEF c, R, R2
  <2> QED BY <2>1, <1>5, <1>6
<1>10. \A j \in 0 .. i + 1 : T[(a + j) % n] # NULL
  <2>1. \A j \in 0 .. i : T[(a + j) % n] # NULL  BY DEF Closing
  <2>2. T[x] # NULL
    <3> HIDE DEF x
    <3> QED BY <1>1 DEF Occ
  <2> QED BY <2>1, <2>2, PassRun
<1>11. \A s \in rest : /\ c(q) < c(s)
                       /\ c(s) <= R2 \/ FALSE
                       => c(q) < HomeAt(g, n, f, U[s])
  BY <1>7
<1> HIDE DEF x, h
<1> QED BY <1>8, <1>9, <1>10, <1>11 DEF Closing

(* A pass that moves the entry it meets into the gap keeps the invariant,  *)
(* with the gap where the entry was.                                       *)
LEMMA PassMove ==
  ASSUME NEW g \in [Keys -> Nat], NEW n \in Nat, n > 0, NEW T, NEW f \in Slots(n),
         NEW a \in Occ(n, T), NEW i \in Nat, i + 1 <= n - 1, NEW U, NEW q,
         Closing(g, n, T, f, a, i, U, q, FALSE),
         U[(a + (i + 1)) % n] # NULL,
         LET h == Home(g, n, U[(a + (i + 1)) % n].key)
         IN  Dist(n, h, (a + (i + 1)) % n) > Dist(n, h, q)
  PROVE  LET x == (a + (i + 1)) % n
         IN  Closing(g, n, T, f, a, i + 1, [U EXCEPT ![q] = U[x]], x, FALSE)
<1> DEFINE x == (a + (i + 1)) % n
           h == Home(g, n, U[x].key)
           c(s) == At(n, f, s)
           R == Reach(n, f, a, i)
           R2 == Reach(n, f, a, i + 1)
           rest == Occ(n, T) \ {q}
           rest2 == Occ(n, T) \ {x}
<1>0. Compared(g, n, T, f, a, i, U, q)  BY PassCompare
<1>1. /\ x \in Occ(n, T) \ {q} /\ h \in Slots(n)
      /\ Dist(n, h, x) > Dist(n, h, q) <=> c(x) > c(q) /\ c(h) <= c(q)
      /\ c(x) <= c(q) => c(x) < c(a)
      /\ c(x) > c(q) => c(x) = R + 1 /\ R2 = R + 1
      /\ c(x) <= c(q) => R2 = R
  BY <1>0 DEF Compared
<1> DEFINE V == [U EXCEPT ![q] = U[x]]
<1>2. c(x) > c(q) /\ c(h) <= c(q) /\ c(x) = R + 1 /\ R2 = R + 1  BY <1>1
<1>3. \A s \in Slots(n) : c(s) \in 0 .. n - 1  BY AtSlots
<1>4. x \in Slots(n) /\ q \in Slots(n) /\ a \in Slots(n) /\ Occ(n, T) \subseteq Slots(n)
      /\ q \in Occ(n, T) /\ x # q
  <2> HIDE DEF x
  <2> QED BY <1>1 DEF Occ, Closing
<1>5. c(x) \in 0 .. n - 1 /\ c(q) \in 0 .. n - 1 /\ c(h) \in 0 .. n - 1 /\ c(a) \in 0 .. n - 1
      /\ R \in Nat
  <2>1. c(a) \in 0 .. n - 1  BY <1>3, <1>4
  <2>2. R \in Nat  BY <2>1 DEF Reach
  <2> HIDE DEF x, h, c, R
  <2> QED BY <1>1, <1>3, <1>4, <2>2
<1>6. c(a) <= c(q) /\ c(q) <= R  BY DEF Closing
<1>7. c(a) <= c(x) /\ c(x) <= R2
  <2> HIDE DEF x, h, c, R, R2
  <2> QED BY <1>2, <1>5, <1>6
<1>8. V[q] = U[x] /\ \A s \in Slots(n) \ {q} : V[s] = U[s]
  BY <1>4 DEF Closing, IsTable
<1>9. IsTable(n, V)  BY <1>4 DEF Closing, IsTable
<1> HIDE DEF V
<1>10. Occ(n, V) = Occ(n, T)
  <2>1. Occ(n, U) = Occ(n, T)  BY DEF Closing
  <2> HIDE DEF x
  <2> QED BY <2>1, <1>1, <1>4, <1>8 DEF Occ
<1>11. \A s \in Slots(n) : c(s) > R2 \/ c(s) < c(a) => V[s] = T[s]
  <2> SUFFICES ASSUME NEW s \in Slots(n), c(s) > R2 \/ c(s) < c(a)  PROVE V[s] = T[s]
    OBVIOUS
  <2>1. s # q /\ (c(s) > R \/ c(s) < c(a))
    <3>1. c(s) \in Int  BY <1>3
    <3>2. s # q
      <4>1. ~(c(q) > R2 \/ c(q) < c(a))
        <5> HIDE DEF x, h, c, R, R2
        <5> QED BY <1>2, <1>5, <1>6
      <4> HIDE DEF c, R2
      <4> QED BY <4>1
    <3> HIDE DEF x, h, c, R, R2
    <3> QED BY <1>2, <1>5, <3>1, <3>2
  <2>2. U[s] = T[s]  BY <2>1 DEF Closing
  <2> QED BY <2>1, <2>2, <1>8
<1>12. {V[s] : s \in rest2} = {T[s] : s \in Occ(n, T) \ {a}}
  <2>1. {U[s] : s \in rest} = {T[s] : s \in Occ(n, T) \ {a}}  BY DEF Closing
  <2>2. {V[s] : s \in rest2} = {U[s] : s \in rest}
    <3>1. \A s \in rest2 : \E t \in rest : V[s] = U[t]
      <4> HIDE DEF x
      <4> QED BY <1>1, <1>4, <1>8
    <3>2. \A t \in rest : \E s \in rest2 : U[t] = V[s]
      <4> HIDE DEF x
      <4> QED BY <1>1, <1>4, <1>8
    <3> HIDE DEF rest, rest2
    <3> QED BY <3>1, <3>2
  <2> QED BY <2>1, <2>2
<1>13. \A s, t \in rest2 : V[s].key = V[t].key => s = t
  <2>1. \A s, t \in rest : U[s].key = U[t].key => s = t  BY DEF Closing
  <2> HIDE DEF x
  <2> QED BY <2>1, <1>1, <1>4, <1>8
<1>14. \A s \in rest2 :
         /\ HomeAt(g, n, f, V[s]) <= c(s)
         /\ \A p \in Slots(n) : HomeAt(g, n, f, V[s]) <= c(p) /\ c(p) < c(s) => T[p] # NULL
  <2>1. \A s \in rest :
         /\ HomeAt(g, n, f, U[s]) <= c(s)
         /\ \A p \in Slots(n) : HomeAt(g, n, f, U[s]) <= c(p) /\ c(p) < c(s) => T[p] # NULL
    BY DEF Closing
  <2>2. HomeAt(g, n, f, V[q]) = c(h)  BY <1>8 DEF HomeAt
  <2>3. \A p \in Slots(n) : c(h) <= c(p) /\ c(p) < c(q) => T[p] # NULL
    <3> SUFFICES ASSUME NEW p \in Slots(n), c(h) <= c(p), c(p) < c(q)  PROVE T[p] # NULL
      OBVIOUS
    <3>1. c(p) \in Int  BY <1>3
    <3>2. c(p) < c(x)
      <4> HIDE DEF x, h, c, R, R2
      <4> QED BY <1>2, <1>5, <3>1
    <3>3. HomeAt(g, n, f, U[x]) = c(h)  BY DEF HomeAt
    <3>4. x \in rest  BY <1>1
    <3> HIDE DEF x, h, rest
    <3> QED BY <2>1, <3>2, <3>3, <3>4
  <2>4. \A s \in rest2 : s = q \/ (s \in rest /\ V[s] = U[s])  BY <1>4, <1>8
  <2> HIDE DEF x, h, rest, rest2
  <2> QED BY <1>2, <2>1, <2>2, <2>3, <2>4
<1>15. \A s \in rest2 : s < a => \E t \in Occ(n, T) : t < a /\ V[s] = T[t]
  <2>1. \A s \in rest : s < a => \E t \in Occ(n, T) : t < a /\ U[s] = T[t]  BY DEF Closing
  <2>2. q < a => x < a
    <3>1. i + 1 \in Slots(n)  BY DEF Slots
    <3>2. x < a <=> a + (i + 1) >= n  BY <3>1, <1>4, AtProbe
    <3>3. Dist(n, a, q) = c(q) - c(a)  BY <1>4, <1>6, AtSlots
    <3>4. c(q) - c(a) <= i  BY <1>5, <1>6, <1>4, <1>3 DEF Reach
    <3>5. q < a => Dist(n, a, q) = q - a + n  BY <1>4 DEF Dist, Slots
    <3>6. q < a => a + (i + 1) >= n
      <4> HIDE DEF c
      <4> QED BY <3>3, <3>4, <3>5, <1>4, <1>5 DEF Slots
    <3> QED BY <3>2, <3>6
  <2>3. \A s \in rest2 : s = q \/ (s \in rest /\ V[s] = U[s])  BY <1>4, <1>8
  <2>4. x \in rest  BY <1>1
  <2> HIDE DEF x, rest, rest2
  <2> QED BY <2>1, <2>2, <2>3, <2>4, <1>8
<1>16. \A s \in rest2 : ~(c(x) < c(s) /\ (c(s) <= R2 \/ FALSE))
  <2>1. \A s \in rest2 : c(s) \in Int  BY <1>3, <1>4
  <2> HIDE DEF x, h, c, R, R2, rest2
  <2> QED BY <1>2, <1>5, <2>1
<1>17. \A j \in 0 .. i + 1 : T[(a + j) % n] # NULL
  <2>1. \A j \in 0 .. i : T[(a + j) % n] # NULL  BY DEF Closing
  <2>2. T[x] # NULL
    <3> HIDE DEF x
    <3> QED BY <1>1 DEF Occ
  <2> QED BY <2>1, <2>2, PassRun
<1>18. x \in Occ(n, T)  BY <1>1
<1> HIDE DEF x, h
<1>19. Closing(g, n, T, f, a, i + 1, V, x, FALSE)
  BY <1>7, <1>9, <1>10, <1>11, <1>12, <1>13, <1>14, <1>15, <1>16, <1>17, <1>18 DEF Closing
<1> QED BY <1>19 DEF V, x


(* w lists the states of the walk of hashmap_entry_remove, up to its n-th  *)
(* pass.                                                                   *)
IsWalk(h, slot, n, w) ==
  w = [i \in 0 .. n |->
         IF i = 0 THEN [table |-> h.table, gap |-> slot, done |-> FALSE]
                  ELSE CloseGap(h, slot, w[i - 1], i)]

(* The walk, pass by pass. *)
LEMMA WalkStep ==
  ASSUME NEW h, h.size \in Nat, h.size > 0, NEW slot
  PROVE  /\ Walk(h, slot)[0] = [table |-> h.table, gap |-> slot, done |-> FALSE]
         /\ \A i \in 0 .. (h.size - 1) - 1 :
              Walk(h, slot)[i + 1] = CloseGap(h, slot, Walk(h, slot)[i], i + 1)
<1> DEFINE N == h.size - 1
           Is(n, w) == IsWalk(h, slot, n, w)
           S == {n \in Nat : \E w : Is(n, w)}
           start == [table |-> h.table, gap |-> slot, done |-> FALSE]
<1>0. N \in Nat  OBVIOUS
<1>1. 0 \in S
  <2>1. Is(0, [i \in 0 .. 0 |-> start])  BY DEF IsWalk
  <2> HIDE DEF Is
  <2> QED BY <2>1
<1>2. ASSUME NEW n \in 0 .. N - 1, n \in S  PROVE n + 1 \in S
  <2>1. PICK w : Is(n, w)  BY <1>2
  <2> DEFINE d == [i \in 0 .. n + 1 |-> IF i = n + 1 THEN CloseGap(h, slot, w[n], n + 1) ELSE w[i]]
  <2>2. ASSUME NEW i \in 0 .. n + 1
        PROVE  d[i] = IF i = 0 THEN start ELSE CloseGap(h, slot, d[i - 1], i)
    <3> HIDE DEF start
    <3>1. CASE i = 0  BY <3>1, <2>1 DEF IsWalk, start
    <3>2. CASE i = n + 1  BY <3>2
    <3>3. CASE i # 0 /\ i # n + 1
      <4>1. i \in 0 .. n /\ i - 1 \in 0 .. n  BY <3>3
      <4>2. d[i] = w[i] /\ d[i - 1] = w[i - 1]  BY <4>1, <3>3
      <4>3. w[i] = CloseGap(h, slot, w[i - 1], i)  BY <2>1, <4>1, <3>3 DEF IsWalk
      <4> QED BY <4>2, <4>3, <3>3
    <3> QED BY <3>1, <3>2, <3>3
  <2>3. Is(n + 1, d)  BY <2>2 DEF IsWalk
  <2>4. n + 1 \in Nat  OBVIOUS
  <2> HIDE DEF Is, d
  <2> QED BY <2>3, <2>4
<1>3. \E w : Is(N, w)
  <2>1. 0 .. N \subseteq S
    <3> HIDE DEF S, N
    <3> QED BY <1>0, <1>1, <1>2, CountUp
  <2> QED BY <2>1, <1>0
<1>4. Is(N, CHOOSE w : Is(N, w))
  <2> HIDE DEF Is
  <2> QED BY <1>3
<1>5. Walk(h, slot) = CHOOSE w : Is(N, w)  BY DEF Walk, IsWalk
<1> DEFINE W == Walk(h, slot)
<1>6. Is(N, W)  BY <1>4, <1>5
<1> HIDE DEF W, start
<1>7. W[0] = start  BY <1>0, <1>6 DEF IsWalk, start
<1>8. ASSUME NEW i \in 0 .. N - 1  PROVE W[i + 1] = CloseGap(h, slot, W[i], i + 1)
  <2>1. i + 1 \in 0 .. N /\ i + 1 # 0 /\ (i + 1) - 1 = i  OBVIOUS
  <2> QED BY <1>6, <2>1 DEF IsWalk
<1> QED BY <1>7, <1>8 DEF W, start

(* The invariant of the walk, for a state of the model's loop. *)
Walked(h, f, slot, i, w) ==
  /\ w = [table |-> w.table, gap |-> w.gap, done |-> w.done]
  /\ w.done \in BOOLEAN
  /\ Closing(hash, h.table_size, h.table, f, slot, i, w.table, w.gap, w.done)

(* CloseGap keeps the invariant, whichever of its branches it takes. *)
LEMMA WalkOne ==
  ASSUME hash \in [Keys -> Nat], NEW h, h.table_size \in Nat, h.table_size > 0,
         NEW f \in Slots(h.table_size), NEW slot \in Occ(h.table_size, h.table),
         NEW i \in Nat, i + 1 <= h.table_size - 1, NEW w, Walked(h, f, slot, i, w)
  PROVE  Walked(h, f, slot, i + 1, CloseGap(h, slot, w, i + 1))
<1> DEFINE n == h.table_size
           T == h.table
           x == (slot + (i + 1)) % n
           U == w.table
           q == w.gap
           e == U[x]
           hs == Home(hash, n, e.key)
           v == CloseGap(h, slot, w, i + 1)
<1>1. w = [table |-> U, gap |-> q, done |-> w.done] /\ w.done \in BOOLEAN
      /\ Closing(hash, n, T, f, slot, i, U, q, w.done)
  BY DEF Walked
<1>2. slot \in Slots(n) /\ i + 1 \in Slots(n)  BY DEF Occ, Slots
<1>3. x \in Slots(n)
  <2> HIDE DEF n
  <2> QED BY <1>2, AtProbe DEF n
<1>4. CASE w.done \/ e = NULL
  <2>1. v = [w EXCEPT !.done = TRUE]  BY <1>4 DEF CloseGap
  <2>2. v.table = U /\ v.gap = q /\ v.done = TRUE
        /\ v = [table |-> v.table, gap |-> v.gap, done |-> v.done]
    <3>1. w = [table |-> U, gap |-> q, done |-> w.done]  BY <1>1
    <3> HIDE DEF v
    <3> QED BY <2>1, <3>1
  <2>3. Closing(hash, n, T, f, slot, i + 1, U, q, TRUE)
    <3>1. w.done \/ U[x] = NULL  BY <1>4
    <3> HIDE DEF U, q
    <3> QED BY <1>1, <3>1, PassNull
  <2>4. TRUE \in BOOLEAN  OBVIOUS
  <2>5. Walked(h, f, slot, i + 1, v)
    <3> HIDE DEF v, U, q
    <3> QED BY <2>2, <2>3, <2>4 DEF Walked
  <2> QED BY <2>5
<1>5. CASE ~(w.done \/ e = NULL)
  <2>1. w.done = FALSE /\ U[x] # NULL  BY <1>1, <1>5
  <2>2. Closing(hash, n, T, f, slot, i, U, q, FALSE)  BY <1>1, <2>1
  <2>3. hash[e.key] \in Nat /\ q \in Slots(n)
    <3>1. IsTable(n, U) /\ q \in Slots(n)  BY <2>2 DEF Closing, Occ
    <3>2. e \in Entries  BY <3>1, <2>1, <1>3 DEF IsTable
    <3> QED BY <3>1, <3>2 DEF Entries
  <2>4. /\ (x - hash[e.key]) % n = Dist(n, hs, x)
        /\ (q - hash[e.key]) % n = Dist(n, hs, q)
    <3>1. n \in Nat /\ n > 0  OBVIOUS
    <3> HIDE DEF n, x, e, q
    <3>2. \A s \in Slots(n) : (s - hash[e.key]) % n = Dist(n, hash[e.key] % n, s)
      BY <3>1, <2>3, HomeSlot
    <3> QED BY <3>2, <2>3, <1>3 DEF Home
  <2>5. v = IF Dist(n, hs, x) > Dist(n, hs, q)
            THEN [w EXCEPT !.table[q] = e, !.gap = x] ELSE w
    BY <1>5, <2>4 DEF CloseGap
  <2>6. CASE Dist(n, hs, x) > Dist(n, hs, q)
    <3>1. v = [w EXCEPT !.table[q] = e, !.gap = x]  BY <2>5, <2>6
    <3>2. v.table = [U EXCEPT ![q] = e] /\ v.gap = x /\ v.done = FALSE
          /\ v = [table |-> v.table, gap |-> v.gap, done |-> v.done]
      <4> HIDE DEF v, x, e
      <4> QED BY <1>1, <2>1, <3>1
    <3>3. Closing(hash, n, T, f, slot, i + 1, [U EXCEPT ![q] = U[x]], x, FALSE)
      <4> HIDE DEF U, q
      <4> QED BY <2>1, <2>2, <2>6, PassMove
    <3>4. Walked(h, f, slot, i + 1, v)
      <4> HIDE DEF v, U, q, x, e
      <4> QED BY <3>2, <3>3 DEF Walked, e
    <3> QED BY <3>4
  <2>7. CASE ~(Dist(n, hs, x) > Dist(n, hs, q))
    <3>1. v = w  BY <2>5, <2>7
    <3>2. Closing(hash, n, T, f, slot, i + 1, U, q, FALSE)
      <4> HIDE DEF U, q
      <4> QED BY <2>1, <2>2, <2>7, PassStay
    <3>3. Walked(h, f, slot, i + 1, w)
      <4> HIDE DEF v
      <4> QED BY <1>1, <2>1, <3>2 DEF Walked
    <3> QED BY <3>1, <3>3
  <2> QED BY <2>6, <2>7
<1> QED BY <1>4, <1>5

(* No run of occupied slots from slot a on is longer than the number of    *)
(* entries.                                                                *)
LEMMA RunIsAll ==
  ASSUME NEW n \in Nat, n > 0, NEW T, NEW a \in Occ(n, T), NEW size \in Nat,
         size = Cardinality(Occ(n, T)), size <= n - 1,
         \A j \in 0 .. size : T[(a + j) % n] # NULL
  PROVE  FALSE
<1> DEFINE F == [j \in 0 .. size |-> (a + j) % n]
<1>1. a \in Slots(n)  BY DEF Occ
<1>2. \A j \in 0 .. size : j \in Slots(n)  BY DEF Slots
<1>3. \A j \in 0 .. size : (a + j) % n \in Slots(n) /\ Dist(n, a, (a + j) % n) = j
  BY <1>1, <1>2, ProbeSlots
<1>4. \A j \in 0 .. size : (a + j) % n \in Occ(n, T)  BY <1>3 DEF Occ
<1>5. F \in Injection(0 .. size, Occ(n, T))
  <2>1. F \in [0 .. size -> Occ(n, T)]  BY <1>4
  <2>2. \A j, k \in 0 .. size : F[j] = F[k] => j = k  BY <1>3
  <2> QED BY <2>1, <2>2 DEF Injection, IsInjective
<1>6. IsFiniteSet(0 .. size) /\ Cardinality(0 .. size) = size + 1  BY FS_Interval
<1>7. IsFiniteSet(Occ(n, T))  BY OccFinite
<1>8. Cardinality(0 .. size) <= Cardinality(Occ(n, T))
  <2> HIDE DEF F
  <2> QED BY <1>5, <1>7, FS_Injection
<1> QED BY <1>6, <1>8

(* After size - 1 passes the walk has passed every entry that the gap      *)
(* could cut off, although it never looks at the size-th slot.             *)
LEMMA ClosingEnd ==
  ASSUME NEW g \in [Keys -> Nat], NEW n \in Nat, n > 0, NEW T, NEW f \in Slots(n),
         NEW a \in Occ(n, T), NEW U, NEW q, NEW d \in BOOLEAN,
         NEW size \in Nat, size > 0, size = Cardinality(Occ(n, T)),
         Closing(g, n, T, f, a, size - 1, U, q, d)
  PROVE  \A s \in Occ(n, T) \ {q} : At(n, f, q) < At(n, f, s) => At(n, f, q) < HomeAt(g, n, f, U[s])
<1> DEFINE i == size - 1
           c(s) == At(n, f, s)
           R == Reach(n, f, a, i)
<1>1. CASE d  BY <1>1 DEF Closing
<1>2. CASE ~d
  <2>1. \A s \in Slots(n) : c(s) \in 0 .. n - 1  BY AtSlots
  <2>2. a \in Slots(n) /\ Occ(n, T) \subseteq Slots(n)  BY DEF Occ
  <2>3. c(a) \in 0 .. n - 1 /\ size <= n  BY <2>1, <2>2, OccFinite
  <2>4. CASE R = n - 1
    <3>1. \A s \in Occ(n, T) : c(s) <= R  BY <2>1, <2>2, <2>4
    <3> HIDE DEF R
    <3> QED BY <3>1 DEF Closing, R
  <2>5. CASE R # n - 1
    <3>1. R = c(a) + i /\ c(a) + i + 1 <= n - 1  BY <2>3, <2>5 DEF Reach
    <3>2. i + 1 <= n - 1 /\ i + 1 = size /\ size \in Slots(n)  BY <2>3, <3>1 DEF Slots
    <3>3. Closing(g, n, T, f, a, i, U, q, FALSE) BY <1>2
    <3> DEFINE x == (a + size) % n
    <3>4. T[x] = NULL
      <4> SUFFICES ASSUME T[x] # NULL  PROVE FALSE
        OBVIOUS
      <4>1. \A j \in 0 .. i : T[(a + j) % n] # NULL  BY <3>3 DEF Closing
      <4>2. \A j \in 0 .. size : T[(a + j) % n] # NULL
        <5> SUFFICES ASSUME NEW j \in 0 .. size  PROVE T[(a + j) % n] # NULL
          OBVIOUS
        <5>1. j \in 0 .. i \/ j = size  OBVIOUS
        <5> QED BY <5>1, <4>1
      <4> QED BY <4>2, <3>2, RunIsAll
    <3>5. U[x] = NULL
      <4>1. x \in Slots(n)  BY <2>2, <3>2, AtProbe
      <4>2. Occ(n, U) = Occ(n, T)  BY <3>3 DEF Closing
      <4> HIDE DEF x
      <4> QED BY <4>1, <4>2, <3>4 DEF Occ
    <3>6. Closing(g, n, T, f, a, i + 1, U, q, TRUE)
      <4>1. U[(a + (i + 1)) % n] = NULL  BY <3>5, <3>2
      <4>2. i \in Nat OBVIOUS
      <4> HIDE DEF i
      <4> QED BY <4>1, <4>2, <3>2, <3>3, PassNull
    <3> QED BY <3>6 DEF Closing
  <2> QED BY <2>4, <2>5
<1> QED BY <1>1, <1>2

(* hashmap_entry_remove takes away the entry of its slot and no other,     *)
(* leaves every other within reach of a search, and moves none from behind *)
(* the slot to before it (what hashmap_iter_remove rests on).              *)
LEMMA RemoveGood ==
  ASSUME hash \in [Keys -> Nat], NEW h, IsMap(h), NEW slot \in Occupied(h)
  PROVE  LET m == hashmap_entry_remove(h, slot)
         IN  /\ IsMap(m)
             /\ m.table_size = h.table_size /\ m.table_size_init = h.table_size_init
             /\ Content(m.table_size, m.table) = Content(h.table_size, h.table) \ {h.table[slot]}
             /\ \A s \in Occupied(m) :
                  s < slot => \E t \in Occupied(h) : t < slot /\ m.table[s] = h.table[t]
<1> DEFINE n == h.table_size
           T == h.table
           N == h.size - 1
           W == Walk(h, slot)
<1>1. /\ n \in Nat /\ n > 0 /\ h.size \in Nat /\ h.size > 0 /\ h.size <= n /\ N \in Nat
      /\ slot \in Occ(n, T) /\ Cardinality(Occ(n, T)) = h.size /\ IsFiniteSet(Occ(n, T))
  <2>1. slot \in Occ(n, T) /\ Occupied(h) = Occ(n, T)  BY OccupiedIsOcc
  <2>2. n \in Nat /\ n > 0  BY <2>1 DEF IsMap, Occ, Slots
  <2>3. /\ Cardinality(Occ(n, T)) = h.size /\ IsFiniteSet(Occ(n, T)) /\ h.size \in Nat
    BY <2>1 DEF IsMap
  <2>4. h.size <= n  BY <2>2, <2>3, OccFinite
  <2>5. h.size > 0
    <3>1. Occ(n, T) # {}  BY <2>1
    <3> HIDE DEF T, n
    <3> QED BY <2>3, <3>1, FS_EmptySet
  <2> QED BY <2>1, <2>2, <2>3, <2>4, <2>5
<1>2. IsTable(n, T) /\ Distinct(n, T)  BY DEF IsMap, Good
<1>3. PICK f \in Slots(n) : Cut(hash, n, T, f)  BY <1>1 DEF IsMap, Good
<1> DEFINE S == {i \in 0 .. N : Walked(h, f, slot, i, W[i])}
<1>4. 0 \in S
  <2>1. W[0] = [table |-> T, gap |-> slot, done |-> FALSE]  BY <1>1, WalkStep
  <2> HIDE DEF W
  <2>2. W[0].table = T /\ W[0].gap = slot /\ W[0].done = FALSE  BY <2>1
  <2>3. Closing(hash, n, T, f, slot, 0, T, slot, FALSE)  BY <1>1, <1>2, <1>3, ClosingStart
  <2>4. Walked(h, f, slot, 0, W[0])  BY <2>1, <2>2, <2>3 DEF Walked
  <2> QED BY <1>1, <2>4
<1>5. ASSUME NEW i \in 0 .. N - 1, i \in S  PROVE i + 1 \in S
  <2>1. Walked(h, f, slot, i, W[i])  BY <1>5
  <2>2. W[i + 1] = CloseGap(h, slot, W[i], i + 1)
    <3> HIDE DEF S
    <3>1. \A j \in 0 .. (h.size - 1) - 1 : W[j + 1] = CloseGap(h, slot, W[j], j + 1)
      BY <1>1, WalkStep
    <3> HIDE DEF W
    <3> QED BY <3>1
  <2>3. i \in Nat /\ i + 1 <= n - 1 /\ i + 1 \in 0 .. N  BY <1>1
  <2>4. Walked(h, f, slot, i + 1, W[i + 1])
    <3> HIDE DEF S, W
    <3> QED BY <2>1, <2>2, <2>3, <1>1, WalkOne
  <2> QED BY <2>3, <2>4
<1>6. Walked(h, f, slot, N, W[N])
  <2>1. N \in S
    <3> HIDE DEF S, W
    <3>1. 0 .. N \subseteq S  BY <1>1, <1>4, <1>5, CountUp
    <3> QED BY <3>1, <1>1
  <2> QED BY <2>1
<1> DEFINE U == W[N].table
           q == W[N].gap
           d == W[N].done
           L == [U EXCEPT ![q] = NULL]
           m == hashmap_entry_remove(h, slot)
<1>7. m = [h EXCEPT !.size = @ - 1, !.table = L]
  BY DEF hashmap_entry_remove
<1>8. Closing(hash, n, T, f, slot, h.size - 1, U, q, d) /\ d \in BOOLEAN
  <2> HIDE DEF W
  <2> QED BY <1>6 DEF Walked
<1> HIDE DEF W, U, q, d, m, S
<1>9. \A s \in Occ(n, T) \ {q} : At(n, f, q) < At(n, f, s) => At(n, f, q) < HomeAt(hash, n, f, U[s])
  BY <1>1, <1>8, ClosingEnd
<1>10. /\ IsTable(n, U) /\ Occ(n, U) = Occ(n, T) /\ q \in Occ(n, T) /\ q \in Slots(n)
  BY <1>8 DEF Closing, Occ
<1>11. L[q] = NULL /\ \A s \in Slots(n) \ {q} : L[s] = U[s]
  BY <1>10 DEF IsTable
<1>12. IsTable(n, L)  BY <1>10 DEF IsTable
<1> HIDE DEF L
<1>13. Occ(n, L) = Occ(n, T) \ {q}  BY <1>10, <1>11 DEF Occ
<1>14. \A s \in Occ(n, L) : s \in Occ(n, T) \ {q} /\ s \in Slots(n) /\ L[s] = U[s]
  BY <1>11, <1>13 DEF Occ
<1>15. Distinct(n, L)
  <2>1. \A s, t \in Occ(n, T) \ {q} : U[s].key = U[t].key => s = t  BY <1>8 DEF Closing
  <2> QED BY <1>14, <2>1 DEF Distinct
<1>16. Cut(hash, n, L, f)
  <2> SUFFICES ASSUME NEW s \in Occ(n, L)
               PROVE  /\ HomeAt(hash, n, f, U[s]) <= At(n, f, s)
                      /\ \A p \in Slots(n) :
                           HomeAt(hash, n, f, U[s]) <= At(n, f, p) /\ At(n, f, p) < At(n, f, s) => L[p] # NULL
    BY <1>14 DEF Cut, HomeAt
  <2>1. /\ HomeAt(hash, n, f, U[s]) <= At(n, f, s)
        /\ \A p \in Slots(n) :
             HomeAt(hash, n, f, U[s]) <= At(n, f, p) /\ At(n, f, p) < At(n, f, s) => T[p] # NULL
    BY <1>8, <1>14 DEF Closing
  <2>2. ASSUME NEW p \in Slots(n), HomeAt(hash, n, f, U[s]) <= At(n, f, p), At(n, f, p) < At(n, f, s)
        PROVE  L[p] # NULL
    <3>1. p \in Occ(n, T)  BY <2>1, <2>2 DEF Occ
    <3>2. p # q
      <4> SUFFICES ASSUME p = q  PROVE FALSE
        OBVIOUS
      <4>1. At(n, f, q) < HomeAt(hash, n, f, U[s])  BY <1>9, <1>14, <2>2
      <4>2. At(n, f, q) \in Int
        <5>1. At(n, f, q) \in 0 .. n - 1
          <6> HIDE DEF n
          <6> QED BY <1>1, <1>10, AtSlots
        <5> QED BY <5>1
      <4>3. HomeAt(hash, n, f, U[s]) \in Int
        <5>1. s \in Occ(n, U)  BY <1>10, <1>14
        <5>2. Home(hash, n, U[s].key) \in Slots(n)  BY <5>1, <1>1, <1>10, HomeOfEntry
        <5> QED BY <1>1, <5>2, AtSlots DEF HomeAt
      <4> QED BY <4>1, <4>2, <4>3, <2>2
    <3>3. p \in Occ(n, L)  BY <3>1, <3>2, <1>13
    <3> QED BY <3>3 DEF Occ
  <2> QED BY <2>1, <2>2
<1>17. Good(hash, n, L)  BY <1>12, <1>15, <1>16 DEF Good
<1>18. Content(n, L) = Content(n, T) \ {T[slot]}
  <2>1. {U[s] : s \in Occ(n, T) \ {q}} = {T[s] : s \in Occ(n, T) \ {slot}}  BY <1>8 DEF Closing
  <2>2. Content(n, L) = {U[s] : s \in Occ(n, T) \ {q}}  BY <1>13, <1>14 DEF Content
  <2>3. \A s \in Occ(n, T) : T[s] = T[slot] => s = slot  BY <1>1, <1>2 DEF Distinct
  <2>4. {T[s] : s \in Occ(n, T) \ {slot}} = {T[s] : s \in Occ(n, T)} \ {T[slot]}
    <3> HIDE DEF n, T
    <3> QED BY <2>3, <1>1
  <2>5. Content(n, T) = {T[s] : s \in Occ(n, T)}  BY DEF Content
  <2> HIDE DEF n, T
  <2> QED BY <2>1, <2>2, <2>4, <2>5
<1>19. IsFiniteSet(Occ(n, L)) /\ Cardinality(Occ(n, L)) = h.size - 1
  <2> HIDE DEF n, T
  <2> QED BY <1>1, <1>10, <1>13, FS_RemoveElement
<1>20. /\ m = [x \in MapFields |-> m[x]] /\ m.table = L /\ m.size = h.size - 1
       /\ m.table_size = n /\ m.table_size_init = h.table_size_init
  <2>1. h = [x \in MapFields |-> h[x]]  BY DEF IsMap
  <2> QED BY <1>7, <2>1, Zenon DEF MapFields
<1>21. Occupied(m) = Occ(n, L)  BY <1>20, OccupiedIsOcc
<1>22. IsMap(m)
  <2>1. h.table_size_init \in Nat  BY DEF IsMap
  <2>2. h.size - 1 \in Nat  BY <1>1
  <2> QED BY <2>1, <2>2, <1>1, <1>17, <1>19, <1>20, <1>21, Zenon DEF IsMap
<1>23. \A s \in Occupied(m) :
         s < slot => \E t \in Occupied(h) : t < slot /\ m.table[s] = h.table[t]
  <2>1. \A s \in Occ(n, T) \ {q} : s < slot => \E t \in Occ(n, T) : t < slot /\ U[s] = T[t]
    BY <1>8 DEF Closing
  <2>2. Occupied(h) = Occ(n, T)  BY OccupiedIsOcc
  <2> QED BY <2>1, <2>2, <1>14, <1>20, <1>21
<1> QED BY <1>18, <1>20, <1>22, <1>23 DEF m

-----------------------------------------------------------------------------
(* What the calls find. *)

(* The entries of a map. *)
ContentOf(h) == Content(h.table_size, h.table)

(* The keys of a map. *)
KeysOf(h) == {x.key : x \in ContentOf(h)}

(* The entries of a map, by slot and by key. *)
LEMMA EntryIn ==
  ASSUME NEW h, IsMap(h)
  PROVE  /\ \A s \in Occupied(h) :
              /\ s \in Slots(h.table_size) /\ h.table[s] # NULL
              /\ h.table[s] \in Entries /\ h.table[s].key \in Keys /\ h.table[s].data \in Data
              /\ h.table[s] = Entry(h.table[s].key, h.table[s].data)
              /\ h.table[s] \in ContentOf(h) /\ h.table[s].key \in KeysOf(h)
         /\ ContentOf(h) = {h.table[s] : s \in Occupied(h)}
         /\ KeysOf(h) = {h.table[s].key : s \in Occupied(h)}
         /\ \A x, y \in ContentOf(h) : x.key = y.key => x = y
         /\ \A s, t \in Occupied(h) : h.table[s].key = h.table[t].key => s = t
<1>1. Occupied(h) = Occ(h.table_size, h.table)  BY OccupiedIsOcc
<1>2. ContentOf(h) = {h.table[s] : s \in Occupied(h)}  BY <1>1 DEF ContentOf, Content
<1>3. KeysOf(h) = {h.table[s].key : s \in Occupied(h)}  BY <1>2 DEF KeysOf
<1>4. \A s, t \in Occupied(h) : h.table[s].key = h.table[t].key => s = t
  BY <1>1 DEF IsMap, Good, Distinct
<1>5. \A x, y \in ContentOf(h) : x.key = y.key => x = y  BY <1>2, <1>4
<1>6. ASSUME NEW s \in Occupied(h)
      PROVE  /\ s \in Slots(h.table_size) /\ h.table[s] # NULL
             /\ h.table[s] \in Entries /\ h.table[s].key \in Keys /\ h.table[s].data \in Data
             /\ h.table[s] = Entry(h.table[s].key, h.table[s].data)
             /\ h.table[s] \in ContentOf(h) /\ h.table[s].key \in KeysOf(h)
  <2>1. s \in Slots(h.table_size) /\ h.table[s] # NULL  BY DEF Occupied
  <2>2. h.table[s] \in Entries  BY <2>1 DEF IsMap, Good, IsTable
  <2>3. h.table[s].key \in Keys /\ h.table[s].data \in Data
        /\ h.table[s] = Entry(h.table[s].key, h.table[s].data)
    BY <2>2 DEF Entries, Entry
  <2> QED BY <2>1, <2>2, <2>3, <1>2, <1>3
<1> QED BY <1>2, <1>3, <1>4, <1>5, <1>6

(* size is at most the number of slots; below it there is an empty slot. *)
LEMMA SizeBound ==
  ASSUME NEW h, IsMap(h)
  PROVE  /\ h.size \in Nat /\ h.table_size \in Nat /\ h.size <= h.table_size
         /\ h.size < h.table_size => Occ(h.table_size, h.table) # Slots(h.table_size)
         /\ h.size = 0 => Occupied(h) = {}
<1>1. Occupied(h) = Occ(h.table_size, h.table)  BY OccupiedIsOcc
<1>2. /\ h.size \in Nat /\ h.table_size \in Nat
      /\ IsFiniteSet(Occupied(h)) /\ Cardinality(Occupied(h)) = h.size
  BY DEF IsMap
<1>3. Cardinality(Slots(h.table_size)) = h.table_size  BY <1>2, OccFinite
<1>4. Cardinality(Occ(h.table_size, h.table)) <= h.table_size  BY <1>2, OccFinite
<1>5. h.size = 0 => Occupied(h) = {}  BY <1>2, FS_EmptySet
<1> QED BY <1>1, <1>2, <1>3, <1>4, <1>5

(* What a search in a sound map ends at: nothing in a full table, the      *)
(* empty slot where the key belongs, or the slot of the key.               *)
LEMMA SearchIs ==
  ASSUME hash \in [Keys -> Nat], NEW h, IsMap(h), NEW k \in Keys
  PROVE  LET r == Search(h, k)
             a == Home(hash, h.table_size, k)
         IN  \/ /\ r = NULL /\ k \notin KeysOf(h) /\ h.size = h.table_size
             \/ /\ r \in Slots(h.table_size) /\ r # NULL /\ h.table[r] = NULL
                /\ k \notin KeysOf(h)
                /\ \A p \in Slots(h.table_size) :
                     Dist(h.table_size, a, p) < Dist(h.table_size, a, r) => h.table[p] # NULL
             \/ /\ r \in Occupied(h) /\ r # NULL /\ h.table[r].key = k
<1> DEFINE n == h.table_size
           r == Search(h, k)
           a == Home(hash, n, k)
<1>1. n \in Nat /\ Occupied(h) = Occ(n, h.table) /\ h.size <= n
  BY SizeBound, OccupiedIsOcc
<1>2. NULL \notin Slots(n)  BY HashmapAssumption, <1>1 DEF Slots
<1>3. CASE n = 0
  <2>1. Slots(n) = {}  BY <1>3 DEF Slots
  <2>2. r = NULL  BY <2>1 DEF Search
  <2>3. KeysOf(h) = {}
    <3>1. Occ(n, h.table) = {}  BY <2>1 DEF Occ
    <3> QED BY <3>1, <1>1, EntryIn
  <2>4. h.size = n
    <3>1. h.size \in Nat BY SizeBound
    <3> QED BY <3>1, <1>1, <1>3
  <2> QED BY <2>2, <2>3, <2>4
<1>4. CASE n > 0
  <2>1. CASE k \in KeysOf(h)
    <3>1. PICK s \in Occupied(h) : h.table[s].key = k  BY <2>1, EntryIn
    <3>2. s \in Occ(n, h.table)  BY <3>1, <1>1
    <3>3. IsTable(n, h.table) /\ Distinct(n, h.table)  BY DEF IsMap, Good
    <3>4. PICK f \in Slots(n) : Cut(hash, n, h.table, f)  BY <1>4 DEF IsMap, Good
    <3>5. Search(h, h.table[s].key) = s  BY <1>1, <1>4, <3>2, <3>3, <3>4, SearchHit
    <3>6. r = s  BY <3>1, <3>5
    <3>7. s # NULL  BY <3>2, <1>2 DEF Occ
    <3> QED BY <3>1, <3>6, <3>7
  <2>2. CASE k \notin KeysOf(h)
    <3>1. \A s \in Occ(n, h.table) : h.table[s].key # k  BY <1>1, <2>2, EntryIn
    <3>2. \/ r = NULL /\ Occ(n, h.table) = Slots(n)
          \/ /\ r \in Slots(n) /\ h.table[r] = NULL
             /\ \A p \in Slots(n) : Dist(n, a, p) < Dist(n, a, r) => h.table[p] # NULL
      BY <1>1, <1>4, <3>1, SearchMiss
    <3>3. Occ(n, h.table) = Slots(n) => h.size = n
      <4>1. h.size < n => Occ(n, h.table) # Slots(n)  BY SizeBound
      <4>2. h.size \in Nat  BY SizeBound
      <4> QED BY <4>1, <4>2, <1>1
    <3> HIDE DEF r, a
    <3> QED BY <3>2, <3>3, <1>2, <2>2 DEF r, a
  <2> QED BY <2>1, <2>2
<1> QED BY <1>1, <1>3, <1>4

(* hashmap_entry_find, asked for an entry, finds the key's exactly if the  *)
(* map has it.                                                             *)
LEMMA FindIs ==
  ASSUME hash \in [Keys -> Nat], NEW h, IsMap(h), NEW k \in Keys
  PROVE  LET s == hashmap_entry_find(h, k, FALSE)
         IN  \/ s = NULL /\ k \notin KeysOf(h)
             \/ s # NULL /\ s \in Occupied(h) /\ h.table[s].key = k
<1> DEFINE r == Search(h, k)
<1>1. \/ r = NULL /\ k \notin KeysOf(h)
      \/ r # NULL /\ h.table[r] = NULL /\ k \notin KeysOf(h)
      \/ r # NULL /\ r \in Occupied(h) /\ h.table[r].key = k
  BY SearchIs
<1>2. r \in Occupied(h) => h.table[r] # NULL  BY DEF Occupied
<1> HIDE DEF r
<1>3. hashmap_entry_find(h, k, FALSE) = IF r # NULL /\ h.table[r] = NULL THEN NULL ELSE r
  BY DEF hashmap_entry_find, r
<1> QED BY <1>1, <1>2, <1>3

-----------------------------------------------------------------------------
(* The copies of the keys. *)

(* The slots that hold key k. *)
Holding(h, k) == {i \in Occupied(h) : h.table[i].key = k}

(* The copies of each key that the table of map h refers to. *)
Owned(h) == [k \in Keys |-> Cardinality(Holding(h, k))]

(* The table refers to one copy of each of its keys. *)
LEMMA OwnedIs ==
  ASSUME NEW h, IsMap(h)
  PROVE  Owned(h) = [k \in Keys |-> IF k \in KeysOf(h) THEN 1 ELSE 0]
<1> SUFFICES ASSUME NEW k \in Keys
             PROVE  Cardinality(Holding(h, k)) = IF k \in KeysOf(h) THEN 1 ELSE 0
  BY DEF Owned
<1>1. CASE k \in KeysOf(h)
  <2>1. PICK s \in Occupied(h) : h.table[s].key = k  BY <1>1, EntryIn
  <2>2. Holding(h, k) = {s}  BY <2>1, EntryIn DEF Holding
  <2> QED BY <2>2, <1>1, FS_Singleton
<1>2. CASE k \notin KeysOf(h)
  <2>1. Holding(h, k) = {}  BY <1>2, EntryIn DEF Holding
  <2> QED BY <2>1, <1>2, FS_EmptySet
<1> QED BY <1>1, <1>2

(* Freeing the key of a removed entry leaves the copies of the map without *)
(* it.                                                                     *)
LEMMA FreeOne ==
  ASSUME NEW h, IsMap(h), copies = Owned(h), NEW slot \in Occupied(h),
         NEW m, IsMap(m), ContentOf(m) = ContentOf(h) \ {h.table[slot]}
  PROVE  Free(h, {slot}) = Owned(m)
<1> DEFINE key == h.table[slot].key
           x == h.table[slot]
<1>1. \A k \in Keys : Cardinality({i \in {slot} : h.table[i] # NULL /\ h.table[i].key = k})
                        = IF k = key THEN 1 ELSE 0
  <2> SUFFICES ASSUME NEW k \in Keys
               PROVE  Cardinality({i \in {slot} : h.table[i] # NULL /\ h.table[i].key = k})
                        = IF k = key THEN 1 ELSE 0
    OBVIOUS
  <2>1. h.table[slot] # NULL  BY EntryIn
  <2>2. CASE k = key
    <3>1. {i \in {slot} : h.table[i] # NULL /\ h.table[i].key = k} = {slot}  BY <2>1, <2>2
    <3> QED BY <3>1, <2>2, FS_Singleton
  <2>3. CASE k # key
    <3>1. {i \in {slot} : h.table[i] # NULL /\ h.table[i].key = k} = {}  BY <2>3
    <3> QED BY <3>1, <2>3, FS_EmptySet
  <2> QED BY <2>2, <2>3
<1>2. x \in ContentOf(h) /\ key \in KeysOf(h) /\ \A y \in ContentOf(h) : y.key = key => y = x
  BY EntryIn
<1>3. KeysOf(m) = KeysOf(h) \ {key}  BY <1>2 DEF KeysOf
<1>4. copies = [k \in Keys |-> IF k \in KeysOf(h) THEN 1 ELSE 0]  BY OwnedIs
<1>5. Owned(m) = [k \in Keys |-> IF k \in KeysOf(m) THEN 1 ELSE 0]  BY OwnedIs
<1> DEFINE F(k) == Cardinality({i \in {slot} : h.table[i] # NULL /\ h.table[i].key = k})
<1>6. Free(h, {slot}) = [k \in Keys |-> copies[k] - F(k)]  BY DEF Free
<1>7. \A k \in Keys : F(k) = IF k = key THEN 1 ELSE 0  BY <1>1
<1> HIDE DEF F, key, x
<1>8. \A k \in Keys : copies[k] - F(k) = IF k \in KeysOf(m) THEN 1 ELSE 0
  BY <1>2, <1>3, <1>4, <1>7
<1> QED BY <1>5, <1>6, <1>8

(* hashmap_free_keys leaves no copy of a key. *)
LEMMA FreeAll ==
  ASSUME NEW h, IsMap(h), copies = Owned(h), NEW m, IsMap(m), ContentOf(m) = {}
  PROVE  (IF h.size = 0 THEN copies ELSE Free(h, Slots(h.table_size))) = Owned(m)
<1>1. KeysOf(m) = {}  BY DEF KeysOf
<1>2. Owned(m) = [k \in Keys |-> 0]
  <2>1. Owned(m) = [k \in Keys |-> IF k \in KeysOf(m) THEN 1 ELSE 0]  BY OwnedIs
  <2> QED BY <2>1, <1>1
<1>3. copies = [k \in Keys |-> IF k \in KeysOf(h) THEN 1 ELSE 0]  BY OwnedIs
<1>4. CASE h.size = 0
  <2>1. Occupied(h) = {}  BY <1>4, SizeBound
  <2>2. KeysOf(h) = {}  BY <2>1, EntryIn
  <2> QED BY <1>2, <1>3, <1>4, <2>2
<1>5. CASE h.size # 0
  <2> DEFINE F(k) == Cardinality({i \in Slots(h.table_size) : h.table[i] # NULL /\ h.table[i].key = k})
  <2>1. Free(h, Slots(h.table_size)) = [k \in Keys |-> copies[k] - F(k)]  BY DEF Free
  <2>2. \A k \in Keys : F(k) = Cardinality(Holding(h, k))
    <3> SUFFICES ASSUME NEW k \in Keys  PROVE F(k) = Cardinality(Holding(h, k))
      OBVIOUS
    <3>1. {i \in Slots(h.table_size) : h.table[i] # NULL /\ h.table[i].key = k} = Holding(h, k)
      BY DEF Holding, Occupied
    <3> QED BY <3>1
  <2>3. \A k \in Keys : copies[k] = Cardinality(Holding(h, k))  BY DEF Owned
  <2>4. \A k \in Keys : copies[k] \in Int  BY <1>3
  <2> HIDE DEF F
  <2>5. \A k \in Keys : copies[k] - F(k) = 0  BY <2>2, <2>3, <2>4
  <2> QED BY <1>2, <1>5, <2>1, <2>5
<1> QED BY <1>4, <1>5

-----------------------------------------------------------------------------
(* The sizes of tables. *)

(* A size the code gives a table: a power of two, from the smallest table  *)
(* on.                                                                     *)
IsPower(x) == \E i \in Nat : x = PowerOfTwo(i) /\ x >= HASHMAP_SIZE_MIN

(* The sizes of a map are of that kind; before the first put there is no   *)
(* table.                                                                  *)
Sized(h) == IsPower(h.table_size_init) /\ (h.table_size = 0 \/ IsPower(h.table_size))

(* The two sizes of hashmap.c's constants are of that kind, and none is    *)
(* changed by rounding.                                                    *)
LEMMA PowerIs ==
  /\ HASHMAP_SIZE_MIN >= 4
  /\ IsPower(HASHMAP_SIZE_MIN) /\ IsPower(HASHMAP_SIZE_DEFAULT)
  /\ \A x : IsPower(x) => x \in Nat /\ x >= 4 /\ NextPowerOfTwo(x) = x
<1>1. PICK i, j \in 2 .. 16 : /\ i <= j
                              /\ HASHMAP_SIZE_MIN = PowerOfTwo(i)
                              /\ HASHMAP_SIZE_DEFAULT = PowerOfTwo(j)
  BY HashmapAssumption
<1>2. PowerOfTwo(2) = 4
  <2>1. PowerOfTwo(0 + 1) = 2 /\ PowerOfTwo(1 + 1) = 2 * PowerOfTwo(1)  BY PowerOfTwoStep
  <2> QED BY <2>1
<1>3. i \in Nat /\ j \in Nat /\ PowerOfTwo(i) \in Nat /\ PowerOfTwo(j) \in Nat
  BY PowerOfTwoGrows
<1>4. HASHMAP_SIZE_MIN >= 4
  <2>1. i = 2 \/ PowerOfTwo(2) < PowerOfTwo(i)  BY PowerOfTwoOrder
  <2> QED BY <2>1, <1>1, <1>2, <1>3
<1>5. PowerOfTwo(j) >= PowerOfTwo(i)
  <2>1. i = j \/ PowerOfTwo(i) < PowerOfTwo(j)  BY <1>1, PowerOfTwoOrder
  <2> QED BY <2>1, <1>3
<1>6. IsPower(HASHMAP_SIZE_MIN) /\ IsPower(HASHMAP_SIZE_DEFAULT)
  BY <1>1, <1>3, <1>5 DEF IsPower
<1>7. ASSUME NEW x, IsPower(x)  PROVE x \in Nat /\ x >= 4 /\ NextPowerOfTwo(x) = x
  <2>1. PICK k \in Nat : x = PowerOfTwo(k) /\ x >= HASHMAP_SIZE_MIN  BY <1>7 DEF IsPower
  <2>2. x \in Nat  BY <2>1, PowerOfTwoGrows
  <2>3. NextPowerOfTwo(x) = x  BY <2>1, NextPowerOfPower
  <2> QED BY <2>1, <2>2, <2>3, <1>1, <1>3, <1>4
<1> QED BY <1>4, <1>6, <1>7

(* hashmap_calc_table_size returns a size of that kind, above the number   *)
(* of entries.                                                             *)
LEMMA CalcPower ==
  ASSUME NEW h, IsPower(h.table_size_init), NEW size \in Nat
  PROVE  /\ IsPower(hashmap_calc_table_size(h, size))
         /\ hashmap_calc_table_size(h, size) > size
         /\ hashmap_calc_table_size(h, size) >= h.table_size_init
<1> DEFINE N == hashmap_calc_table_size(h, size)
           wanted == size + size \div 3
<1>1. PICK j \in Nat : h.table_size_init = PowerOfTwo(j) /\ h.table_size_init >= HASHMAP_SIZE_MIN
  BY DEF IsPower
<1>2. h.table_size_init \in Nat /\ h.table_size_init >= 4  BY PowerIs
<1>3. N \in Nat /\ N > size /\ N >= h.table_size_init  BY <1>2, TableSizeFits
<1>4. \E i \in Nat : N = PowerOfTwo(i)
  <2>1. N = IF wanted < h.table_size_init THEN h.table_size_init ELSE NextPowerOfTwo(wanted)
    BY DEF hashmap_calc_table_size
  <2>2. wanted \in Nat  OBVIOUS
  <2>3. \E i \in Nat : NextPowerOfTwo(wanted) = PowerOfTwo(i)
    <3> HIDE DEF wanted
    <3>1. PICK i \in 0 .. wanted : NextPowerOfTwo(wanted) = PowerOfTwo(i)  BY <2>2, NextPowerIs
    <3>2. i \in Nat  BY <2>2
    <3> QED BY <3>1, <3>2
  <2> HIDE DEF N, wanted
  <2> QED BY <1>1, <2>1, <2>3
<1>5. HASHMAP_SIZE_MIN \in Nat  BY PowerIs
<1> HIDE DEF N
<1>6. IsPower(N)  BY <1>1, <1>2, <1>3, <1>4, <1>5 DEF IsPower
<1> QED BY <1>3, <1>6 DEF N

-----------------------------------------------------------------------------
(* The calls that change the map. *)

(* A new map is sound and empty. *)
LEMMA InitMap ==
  /\ IsMap(hashmap_base_init) /\ Sized(hashmap_base_init)
  /\ ContentOf(hashmap_base_init) = {}
<1> DEFINE h == hashmap_base_init
<1>1. /\ h.table_size_init = HASHMAP_SIZE_DEFAULT /\ h.table_size = 0 /\ h.size = 0
      /\ h.table = EmptyTable(0) /\ h = [f \in MapFields |-> h[f]]
  BY DEF hashmap_base_init, MapFields
<1> HIDE DEF h
<1>2. /\ Good(hash, 0, EmptyTable(0)) /\ Occ(0, EmptyTable(0)) = {}
      /\ Content(0, EmptyTable(0)) = {}
  BY EmptyGood
<1>3. Occupied(h) = {}  BY <1>1, <1>2, OccupiedIsOcc
<1>4. IsFiniteSet({}) /\ Cardinality({}) = 0  BY FS_EmptySet
<1>5. HASHMAP_SIZE_DEFAULT \in Nat /\ IsPower(HASHMAP_SIZE_DEFAULT)  BY PowerIs
<1>6. IsMap(h)
  <2>1. Good(hash, h.table_size, h.table)  BY <1>1, <1>2
  <2>2. h.table_size \in Nat /\ h.table_size_init \in Nat /\ h.size \in Nat  BY <1>1, <1>5
  <2>3. IsFiniteSet(Occupied(h)) /\ Cardinality(Occupied(h)) = h.size  BY <1>1, <1>3, <1>4
  <2> QED BY <2>1, <2>2, <2>3, <1>1 DEF IsMap
<1>7. Sized(h)  BY <1>1, <1>5 DEF Sized
<1>8. ContentOf(h) = {}  BY <1>1, <1>2 DEF ContentOf
<1> QED BY <1>6, <1>7, <1>8 DEF h

(* The map with an empty table of N slots. *)
Emptied(h, N) == [h EXCEPT !.size = 0, !.table_size = N, !.table = EmptyTable(N)]

(* It is sound and has no entry. *)
LEMMA EmptiedMap ==
  ASSUME NEW h, IsMap(h), NEW N \in Nat
  PROVE  LET m == Emptied(h, N)
         IN  /\ IsMap(m) /\ ContentOf(m) = {}
             /\ m.table_size = N /\ m.table_size_init = h.table_size_init /\ m.size = 0
<1> DEFINE m == [h EXCEPT !.size = 0, !.table_size = N, !.table = EmptyTable(N)]
<1>1. h = [f \in MapFields |-> h[f]] /\ h.table_size_init \in Nat  BY DEF IsMap
<1>2. /\ m.table_size_init = h.table_size_init /\ m.table_size = N /\ m.size = 0
      /\ m.table = EmptyTable(N) /\ m = [f \in MapFields |-> m[f]]
  BY <1>1, Zenon DEF MapFields
<1> HIDE DEF m
<1>3. /\ Good(hash, N, EmptyTable(N)) /\ Occ(N, EmptyTable(N)) = {}
      /\ Content(N, EmptyTable(N)) = {}
  BY EmptyGood
<1>4. Occupied(m) = {}  BY <1>2, <1>3, OccupiedIsOcc
<1>5. IsFiniteSet({}) /\ Cardinality({}) = 0  BY FS_EmptySet
<1>6. IsMap(m)
  <2>1. Good(hash, m.table_size, m.table)  BY <1>2, <1>3
  <2>2. m.table_size \in Nat /\ m.table_size_init \in Nat /\ m.size \in Nat  BY <1>1, <1>2
  <2>3. IsFiniteSet(Occupied(m)) /\ Cardinality(Occupied(m)) = m.size  BY <1>2, <1>4, <1>5
  <2> QED BY <2>1, <2>2, <2>3, <1>2 DEF IsMap
<1>7. ContentOf(m) = {}  BY <1>2, <1>3 DEF ContentOf
<1> QED BY <1>2, <1>6, <1>7 DEF m, Emptied

(* The map with a new entry in a slot. *)
Inserted(h, slot, k, d) == [h EXCEPT !.table[slot] = Entry(k, d), !.size = @ + 1]

(* What inserting does: one entry more, of a new key, in the same table. *)
InsertDone(h, m, k, d) ==
  /\ IsMap(m) /\ ContentOf(m) = ContentOf(h) \cup {Entry(k, d)}
  /\ m.table_size = h.table_size /\ m.table_size_init = h.table_size_init
  /\ m.size = h.size + 1 /\ k \notin KeysOf(h)

(* An entry put where the search for its key ends is inserted. *)
LEMMA InsertMap ==
  ASSUME hash \in [Keys -> Nat], NEW h, IsMap(h), NEW k \in Keys, NEW d \in Data,
         NEW slot \in Slots(h.table_size), slot = Search(h, k), h.table[slot] = NULL
  PROVE  InsertDone(h, Inserted(h, slot, k, d), k, d)
<1> DEFINE n == h.table_size
           T == h.table
           U == [T EXCEPT ![slot] = Entry(k, d)]
           m == [h EXCEPT !.table[slot] = Entry(k, d), !.size = @ + 1]
           e == Entry(k, d)
<1>1. e \in Entries /\ e.key = k  BY DEF Entry, Entries
<1>2. slot \notin Occupied(h) /\ slot # NULL
  <2>1. n \in Nat  BY SizeBound
  <2> QED BY <2>1, HashmapAssumption DEF Occupied, Slots
<1>3. /\ k \notin KeysOf(h)
      /\ \A p \in Slots(n) : Dist(n, Home(hash, n, k), p) < Dist(n, Home(hash, n, k), slot) => T[p] # NULL
  <2> DEFINE r == Search(h, k)
             a == Home(hash, n, k)
  <2>1. \/ /\ r = NULL /\ k \notin KeysOf(h) /\ h.size = n
        \/ /\ r \in Slots(n) /\ r # NULL /\ T[r] = NULL
           /\ k \notin KeysOf(h)
           /\ \A p \in Slots(n) : Dist(n, a, p) < Dist(n, a, r) => T[p] # NULL
        \/ /\ r \in Occupied(h) /\ r # NULL /\ T[r].key = k
    BY SearchIs
  <2>2. r = slot  OBVIOUS
  <2> HIDE DEF r, a
  <2> QED BY <2>1, <2>2, <1>2 DEF a
<1>4. n \in Nat /\ n > 0 /\ Good(hash, n, T) /\ h.size \in Nat
  BY DEF IsMap, Slots
<1>5. \A s \in Occ(n, T) : T[s].key # e.key
  <2>1. \A s \in Occupied(h) : T[s].key # k  BY <1>3, EntryIn
  <2> QED BY <2>1, <1>1, OccupiedIsOcc
<1>6. Good(hash, n, U) /\ Content(n, U) = Content(n, T) \cup {e} /\ Occ(n, U) = Occ(n, T) \cup {slot}
  <2> HIDE DEF n, T, e
  <2>1. \A p \in Slots(n) : Dist(n, Home(hash, n, e.key), p) < Dist(n, Home(hash, n, e.key), slot) => T[p] # NULL
    BY <1>1, <1>3
  <2>2. slot \in Slots(n) /\ T[slot] = NULL  BY DEF n, T
  <2>3. Good(hash, n, U)  BY <1>1, <1>4, <1>5, <2>1, <2>2, InsertGood DEF e
  <2>4. Content(n, U) = Content(n, T) \cup {e}  BY <1>1, <1>4, <1>5, <2>1, <2>2, InsertGood DEF e
  <2>5. Occ(n, U) = Occ(n, T) \cup {slot}  BY <1>1, <1>4, <1>5, <2>1, <2>2, InsertGood DEF e
  <2> QED BY <2>3, <2>4, <2>5
<1>7. /\ m.table = U /\ m.size = h.size + 1 /\ m.table_size = n
      /\ m.table_size_init = h.table_size_init /\ m = [f \in MapFields |-> m[f]]
  <2>1. h = [f \in MapFields |-> h[f]]  BY DEF IsMap
  <2> HIDE DEF e
  <2> QED BY <2>1, Zenon DEF MapFields
<1> HIDE DEF m, U, e
<1>8. IsFiniteSet(Occupied(m)) /\ Cardinality(Occupied(m)) = m.size
  <2>1. Occupied(m) = Occupied(h) \cup {slot}  BY <1>6, <1>7, OccupiedIsOcc
  <2>2. IsFiniteSet(Occupied(h)) /\ Cardinality(Occupied(h)) = h.size  BY DEF IsMap
  <2> HIDE DEF n, T
  <2> QED BY <2>1, <2>2, <1>2, <1>7, FS_AddElement
<1>9. IsMap(m)
  <2>1. h.table_size_init \in Nat  BY DEF IsMap
  <2>2. m.size \in Nat  BY <1>4, <1>7
  <2> QED BY <2>1, <2>2, <1>4, <1>6, <1>7, <1>8 DEF IsMap
<1>10. ContentOf(m) = ContentOf(h) \cup {e}  BY <1>6, <1>7 DEF ContentOf
<1> QED BY <1>3, <1>7, <1>9, <1>10 DEF m, e, InsertDone, Inserted

(* A put's first step, growing the table or leaving it, changes no entry. *)
Grown(h, m) ==
  /\ IsMap(m) /\ ContentOf(m) = ContentOf(h) /\ m.size = h.size
  /\ m.table_size_init = h.table_size_init

(* Growth is such a step. *)
LEMMA RehashMap ==
  ASSUME hash \in [Keys -> Nat], NEW h, IsMap(h), NEW N \in Nat, N > h.size
  PROVE  Grown(h, hashmap_rehash(h, N)) /\ hashmap_rehash(h, N).table_size = N
<1> DEFINE m == hashmap_rehash(h, N)
<1>1. /\ IsMap(m)
      /\ m.table_size = N /\ m.table_size_init = h.table_size_init /\ m.size = h.size
      /\ Content(N, m.table) = Content(h.table_size, h.table)
  BY RehashGood
<1> HIDE DEF m
<1> QED BY <1>1 DEF Grown, ContentOf, m

(* What a put does: the map has the entry more, or had the key, or is out  *)
(* of memory; the table grows to the size computed for its entries, or not *)
(* at all.                                                                 *)
PutDone(h, m, k, d, r) ==
  /\ IsMap(m) /\ m.table_size_init = h.table_size_init
  /\ \/ m.table_size = h.table_size
     \/ /\ m.table_size = hashmap_calc_table_size(h, h.size)
        /\ m.table_size > h.table_size
  /\ \/ r = "ok" /\ k \notin KeysOf(h) /\ ContentOf(m) = ContentOf(h) \cup {Entry(k, d)}
     \/ r = "EEXIST" /\ k \in KeysOf(h) /\ ContentOf(m) = ContentOf(h)
     \/ r = "ENOMEM" /\ k \notin KeysOf(h) /\ ContentOf(m) = ContentOf(h)

(* A put does that: the table is full only when it has failed to grow, and *)
(* a put that finds no slot then says that memory has run out.             *)
LEMMA PutIs ==
  ASSUME hash \in [Keys -> Nat], IsMap(hb), Sized(hb), NEW k \in Keys, NEW d \in Data, Put(k, d)
  PROVE  PutDone(hb, hb', k, d, ret')
<1> DEFINE size == hashmap_calc_table_size(hb, hb.size)
           grows == size > hb.table_size
<1>1. /\ hb.size \in Nat /\ hb.table_size \in Nat /\ hb.size <= hb.table_size
      /\ hb.size < hb.table_size => Occ(hb.table_size, hb.table) # Slots(hb.table_size)
  BY SizeBound
<1>2. IsPower(size) /\ size > hb.size /\ size \in Nat
  <2>1. IsPower(size) /\ size > hb.size  BY <1>1, CalcPower DEF Sized
  <2> QED BY <2>1, PowerIs
<1>3. PICK allocated \in Allocated, duplicated \in Allocated :
        LET h == IF grows /\ allocated THEN hashmap_rehash(hb, size) ELSE hb
            slot == hashmap_entry_find(h, k, TRUE)
        IN  \/ /\ slot = NULL
               /\ hb' = h
               /\ ret' = IF grows /\ ~allocated THEN "ENOMEM" ELSE "EADDRNOTAVAIL"
            \/ /\ slot # NULL /\ h.table[slot] # NULL
               /\ hb' = h
               /\ ret' = "EEXIST"
            \/ /\ slot # NULL /\ h.table[slot] = NULL /\ ~duplicated
               /\ hb' = h
               /\ ret' = "ENOMEM"
            \/ /\ slot # NULL /\ h.table[slot] = NULL /\ duplicated
               /\ hb' = [h EXCEPT !.table[slot] = Entry(k, d), !.size = @ + 1]
               /\ ret' = "ok"
  BY Zenon DEF Put
<1> DEFINE h == IF grows /\ allocated THEN hashmap_rehash(hb, size) ELSE hb
           slot == Search(h, k)
           U == [h EXCEPT !.table[slot] = Entry(k, d), !.size = @ + 1]
<1>4. hashmap_entry_find(h, k, TRUE) = slot  BY DEF hashmap_entry_find
<1>5. \/ slot = NULL /\ hb' = h /\ ret' = IF grows /\ ~allocated THEN "ENOMEM" ELSE "EADDRNOTAVAIL"
      \/ slot # NULL /\ h.table[slot] # NULL /\ hb' = h /\ ret' = "EEXIST"
      \/ slot # NULL /\ h.table[slot] = NULL /\ hb' = h /\ ret' = "ENOMEM"
      \/ slot # NULL /\ h.table[slot] = NULL /\ hb' = U /\ ret' = "ok"
  <2> HIDE DEF size
  <2> QED BY <1>3, <1>4
<1>6. allocated \in BOOLEAN  BY HashmapAssumption DEF Allocated
<1>7. /\ Grown(hb, h)
      /\ h.table_size = hb.table_size \/ (h.table_size = size /\ size > hb.table_size)
      /\ ~(grows /\ ~allocated) => h.table_size > h.size
  <2>1. CASE grows /\ allocated
    <3>1. h = hashmap_rehash(hb, size)  BY <2>1
    <3>2. Grown(hb, h) /\ h.table_size = size
      <4> HIDE DEF size, h
      <4> QED BY <1>2, <3>1, RehashMap
    <3>3. h.size = hb.size  BY <3>2 DEF Grown
    <3> HIDE DEF size, h
    <3> QED BY <3>2, <3>3, <1>2, <2>1
  <2>2. CASE ~(grows /\ allocated)
    <3>1. h = hb  BY <2>2
    <3>2. Grown(hb, hb)  BY DEF Grown
    <3> HIDE DEF size, h
    <3> QED BY <3>1, <3>2, <1>1, <1>2, <1>6, <2>2
  <2> QED BY <2>1, <2>2
<1> HIDE DEF size, h, slot, U
<1>8. /\ IsMap(h) /\ KeysOf(h) = KeysOf(hb) /\ ContentOf(h) = ContentOf(hb)
      /\ h.table_size_init = hb.table_size_init
  BY <1>7 DEF Grown, KeysOf
<1>9. \/ slot = NULL /\ k \notin KeysOf(h) /\ h.size = h.table_size
      \/ slot \in Slots(h.table_size) /\ slot # NULL /\ h.table[slot] = NULL /\ k \notin KeysOf(h)
      \/ slot \in Occupied(h) /\ slot # NULL /\ h.table[slot].key = k
  BY <1>8, SearchIs DEF slot
<1>10. CASE slot = NULL
  <2>1. k \notin KeysOf(hb) /\ h.size = h.table_size  BY <1>8, <1>9, <1>10
  <2>2. h.size \in Int  BY <1>8, SizeBound
  <2>3. grows /\ ~allocated  BY <2>1, <2>2, <1>7
  <2>4. hb' = h /\ ret' = "ENOMEM"  BY <2>3, <1>5, <1>10
  <2> QED BY <2>1, <2>4, <1>7, <1>8 DEF PutDone, size
<1>11. CASE slot # NULL /\ h.table[slot] # NULL
  <2>1. slot \in Occupied(h) /\ h.table[slot].key = k  BY <1>9, <1>11
  <2>2. k \in KeysOf(hb)  BY <2>1, <1>8, EntryIn
  <2>3. hb' = h /\ ret' = "EEXIST"  BY <1>5, <1>11
  <2> QED BY <2>2, <2>3, <1>7, <1>8 DEF PutDone, size
<1>12. CASE slot # NULL /\ h.table[slot] = NULL
  <2>1. slot \in Slots(h.table_size) /\ k \notin KeysOf(h)
    <3>1. slot \notin Occupied(h)  BY <1>12 DEF Occupied
    <3> QED BY <3>1, <1>9, <1>12
  <2>2. CASE hb' = h /\ ret' = "ENOMEM"
    BY <2>1, <2>2, <1>7, <1>8 DEF PutDone, size
  <2>3. CASE hb' = U /\ ret' = "ok"
    <3>1. /\ IsMap(U) /\ ContentOf(U) = ContentOf(h) \cup {Entry(k, d)}
          /\ U.table_size = h.table_size /\ U.table_size_init = h.table_size_init
      <4>1. slot = Search(h, k)  BY DEF slot
      <4>2. h.table[slot] = NULL /\ IsMap(h) /\ slot \in Slots(h.table_size)  BY <1>8, <1>12, <2>1
      <4> DEFINE m == Inserted(h, slot, k, d)
      <4>3. InsertDone(h, m, k, d)  BY <4>1, <4>2, InsertMap
      <4>4. m = U  BY DEF U, Inserted
      <4> HIDE DEF m
      <4> QED BY <4>3, <4>4 DEF InsertDone
    <3> QED BY <2>1, <2>3, <3>1, <1>7, <1>8 DEF PutDone, size
  <2> QED BY <2>2, <2>3, <1>5, <1>12
<1> QED BY <1>10, <1>11, <1>12

(* What a removal does: the entry of the slot is gone, and none has moved  *)
(* from behind the slot to before it.                                      *)
RemoveDone(h, m, slot) ==
  /\ IsMap(m) /\ m.table_size = h.table_size /\ m.table_size_init = h.table_size_init
  /\ ContentOf(m) = ContentOf(h) \ {h.table[slot]}
  /\ \A s \in Occupied(m) : s < slot => \E t \in Occupied(h) : t < slot /\ m.table[s] = h.table[t]

(* hashmap_entry_remove does that. *)
LEMMA RemoveIs ==
  ASSUME hash \in [Keys -> Nat], NEW h, IsMap(h), NEW slot \in Occupied(h)
  PROVE  RemoveDone(h, hashmap_entry_remove(h, slot), slot)
<1> DEFINE m == hashmap_entry_remove(h, slot)
<1>1. /\ IsMap(m)
      /\ m.table_size = h.table_size /\ m.table_size_init = h.table_size_init
      /\ Content(m.table_size, m.table) = Content(h.table_size, h.table) \ {h.table[slot]}
      /\ \A s \in Occupied(m) : s < slot => \E t \in Occupied(h) : t < slot /\ m.table[s] = h.table[t]
  BY RemoveGood
<1> HIDE DEF m
<1> QED BY <1>1 DEF RemoveDone, ContentOf, m

(* What setting the data of an entry does: the entry's data changes, and   *)
(* nothing else.                                                           *)
SetDone(h, m, slot, d) ==
  /\ IsMap(m) /\ m.table_size = h.table_size /\ m.table_size_init = h.table_size_init
  /\ m.size = h.size
  /\ Occupied(m) = Occupied(h)
  /\ \A s \in Occupied(h) \ {slot} : m.table[s] = h.table[s]
  /\ m.table[slot] = Entry(h.table[slot].key, d)

(* The map with new data for the entry of a slot. *)
Rewritten(h, slot, d) == [h EXCEPT !.table[slot].data = d]

(* hashmap_iter_set_data does that. *)
LEMMA SetIs ==
  ASSUME hash \in [Keys -> Nat], NEW h, IsMap(h), NEW slot \in Occupied(h), NEW d \in Data
  PROVE  SetDone(h, Rewritten(h, slot, d), slot, d)
<1> DEFINE m == [h EXCEPT !.table[slot].data = d]
           n == h.table_size
           T == h.table
           k == T[slot].key
           e == Entry(k, d)
           U == [T EXCEPT ![slot] = e]
<1>1. slot \in Slots(n) /\ T[slot] # NULL /\ k \in Keys /\ T[slot] = Entry(k, T[slot].data)
  BY EntryIn
<1>2. [T[slot] EXCEPT !.data = d] = e
  <2>1. \A x : [Entry(k, x) EXCEPT !.data = d] = e  BY DEF Entry
  <2> HIDE DEF k, e
  <2> QED BY <2>1, <1>1
<1>3. m = [h EXCEPT !.table = U]
  <2>1. m = [h EXCEPT !.table = [T EXCEPT ![slot] = [T[slot] EXCEPT !.data = d]]]  OBVIOUS
  <2> QED BY <2>1, <1>2
<1>4. /\ m.table = U /\ m.size = h.size /\ m.table_size = n
      /\ m.table_size_init = h.table_size_init /\ m = [f \in MapFields |-> m[f]]
  <2>1. h = [f \in MapFields |-> h[f]]  BY DEF IsMap
  <2> HIDE DEF m, U
  <2> QED BY <1>3, <2>1, Zenon DEF MapFields
<1>5. /\ n \in Nat /\ IsTable(n, T) /\ Distinct(n, T) /\ n > 0
      /\ \E f \in Slots(n) : Cut(hash, n, T, f)
  BY <1>1 DEF IsMap, Good, Slots
<1>6. e \in Entries /\ e.key = k /\ e # NULL
  <2>1. e \in Entries /\ e.key = k  BY <1>1 DEF Entry, Entries
  <2> QED BY <2>1, HashmapAssumption
<1> HIDE DEF m, e, k
<1>7. IsTable(n, U) /\ U[slot] = e /\ \A s \in Slots(n) \ {slot} : U[s] = T[s]
  BY <1>1, <1>5, <1>6 DEF IsTable
<1> HIDE DEF U
<1>8. Occ(n, U) = Occ(n, T)  BY <1>1, <1>6, <1>7 DEF Occ
<1>9. \A s \in Occ(n, T) : U[s].key = T[s].key  BY <1>6, <1>7 DEF Occ, k
<1>10. Distinct(n, U)  BY <1>5, <1>8, <1>9 DEF Distinct
<1>11. \A f \in Slots(n) : Cut(hash, n, T, f) => Cut(hash, n, U, f)
  <2>1. \A p \in Slots(n) : T[p] # NULL => U[p] # NULL  BY <1>6, <1>7
  <2> QED BY <2>1, <1>8, <1>9 DEF Cut
<1>12. Good(hash, n, U)  BY <1>5, <1>7, <1>10, <1>11 DEF Good
<1>13. Occupied(m) = Occupied(h)  BY <1>4, <1>8, OccupiedIsOcc
<1>14. IsMap(m)
  <2>1. h.table_size_init \in Nat /\ h.size \in Nat /\ IsFiniteSet(Occupied(h))
        /\ Cardinality(Occupied(h)) = h.size
    BY DEF IsMap
  <2> QED BY <2>1, <1>4, <1>5, <1>12, <1>13 DEF IsMap
<1>15. \A s \in Occupied(h) \ {slot} : m.table[s] = h.table[s]  BY <1>4, <1>7 DEF Occupied
<1>16. m.table[slot] = Entry(h.table[slot].key, d)  BY <1>4, <1>7 DEF e, k
<1> QED BY <1>4, <1>13, <1>14, <1>15, <1>16 DEF SetDone, m, Rewritten

-----------------------------------------------------------------------------
(* Iteration. *)

(* Key k is among those an iterator has stood at. *)
Shown(v, k) == \E n \in 1 .. Len(v) : v[n] = k

(* An iterator stands at an entry or at the end, and has stood at each     *)
(* entry up to there; at the end of an iteration, at all.                  *)
IterOK(h, it, v) ==
  /\ it \in {NULL} \cup Occupied(h)
  /\ v \in Seq(Keys)
  /\ \A i \in Occupied(h) : (IF it = NULL THEN v # << >> ELSE i <= it) => Shown(v, h.table[i].key)

(* Without an iteration there is nothing to show. *)
LEMMA NoIteratorOK ==
  ASSUME NEW h
  PROVE  IterOK(h, NULL, << >>)
BY DEF IterOK

(* hashmap_entry_get_populated finds the first entry from a slot on. *)
LEMMA PopulatedIs ==
  ASSUME NEW h, IsMap(h), NEW from \in Nat
  PROVE  LET p == hashmap_entry_get_populated(h, from)
         IN  \/ p = NULL /\ \A i \in Occupied(h) : i < from
             \/ p # NULL /\ p \in Occupied(h) /\ from <= p /\ \A i \in Occupied(h) : i < from \/ p <= i
<1> DEFINE later == {i \in Occupied(h) : i >= from}
           First(i) == \A j \in later : i <= j
           p == hashmap_entry_get_populated(h, from)
<1>1. Occupied(h) \subseteq Nat  BY SizeBound DEF Occupied, Slots
<1>2. NULL \notin Nat  BY HashmapAssumption
<1>3. p = IF h.size = 0 \/ later = {} THEN NULL ELSE CHOOSE i \in later : First(i)
  BY DEF hashmap_entry_get_populated
<1>4. CASE h.size = 0 \/ later = {}
  <2>1. later = {}  BY <1>4, SizeBound
  <2>2. \A i \in Occupied(h) : i < from
    <3>1. \A i \in Occupied(h) : ~(i >= from)  BY <2>1
    <3> QED BY <3>1, <1>1
  <2> QED BY <2>2, <1>3, <1>4
<1>5. CASE ~(h.size = 0 \/ later = {})
  <2>1. \E i \in later : First(i)
    <3>1. later \subseteq Nat  BY <1>1
    <3>2. PICK i \in later : \A j \in later : ~(j < i)
      <4> HIDE DEF later
      <4> QED BY <1>5, <3>1, LeastElement
    <3>3. ASSUME NEW j \in later  PROVE i <= j
      <4>1. i \in Nat /\ j \in Nat /\ ~(j < i)
        <5> HIDE DEF later
        <5> QED BY <3>1, <3>2
      <4> QED BY <4>1
    <3> QED BY <3>3
  <2> DEFINE c == CHOOSE i \in later : First(i)
  <2>2. c \in later /\ First(c)
    <3> HIDE DEF later, First
    <3> QED BY <2>1
  <2>3. p = c  BY <1>3, <1>5
  <2> HIDE DEF c, p
  <2>4. c \in Occupied(h) /\ c >= from /\ \A j \in Occupied(h) : j >= from => c <= j  BY <2>2
  <2>5. \A j \in Occupied(h) : j < from \/ j >= from  BY <1>1
  <2>6. c \in Nat  BY <2>4, <1>1
  <2>7. from <= c  BY <2>4, <2>6
  <2> QED BY <2>3, <2>4, <2>5, <2>6, <2>7, <1>2 DEF p
<1> QED BY <1>4, <1>5

(* An iterator that has stood at every entry before a slot, and goes to    *)
(* the first entry from there on, has stood at every entry up to it.       *)
LEMMA StandAtOK ==
  ASSUME NEW h, IsMap(h), NEW from \in Nat, visited \in Seq(Keys),
         \A i \in Occupied(h) : i < from => Shown(visited, h.table[i].key),
         StandAt(h, hashmap_entry_get_populated(h, from))
  PROVE  IterOK(h, iter', visited')
<1> DEFINE p == hashmap_entry_get_populated(h, from)
<1>1. \/ p = NULL /\ \A i \in Occupied(h) : i < from
      \/ p # NULL /\ p \in Occupied(h) /\ from <= p /\ \A i \in Occupied(h) : i < from \/ p <= i
  BY PopulatedIs
<1>2. iter' = p /\ visited' = IF p = NULL THEN visited ELSE Append(visited, h.table[p].key)
  BY DEF StandAt
<1>3. Occupied(h) \subseteq Nat  BY SizeBound DEF Occupied, Slots
<1> HIDE DEF p
<1>4. CASE p = NULL
  <2>1. iter' = NULL /\ visited' = visited  BY <1>2, <1>4
  <2>2. \A i \in Occupied(h) : Shown(visited, h.table[i].key)  BY <1>1, <1>4
  <2> QED BY <2>1, <2>2 DEF IterOK
<1>5. CASE p # NULL
  <2> DEFINE key == h.table[p].key
             v == Append(visited, key)
  <2>1. iter' = p /\ visited' = v  BY <1>2, <1>5
  <2>2. p \in Occupied(h) /\ key \in Keys  BY <1>1, <1>5, EntryIn
  <2>3. v \in Seq(Keys) /\ Shown(v, key) /\ \A k : Shown(visited, k) => Shown(v, k)
    <3> HIDE DEF key
    <3>1. v \in Seq(Keys) /\ Len(v) = Len(visited) + 1 /\ Len(visited) \in Nat  BY <2>2
    <3>2. v[Len(visited) + 1] = key  BY <2>2
    <3>3. \A n \in 1 .. Len(visited) : v[n] = visited[n]  BY <2>2
    <3> HIDE DEF v
    <3>4. Shown(v, key)
      <4>1. Len(visited) + 1 \in 1 .. Len(v)  BY <3>1
      <4> QED BY <4>1, <3>2 DEF Shown
    <3>5. ASSUME NEW k, Shown(visited, k)  PROVE Shown(v, k)
      <4>1. PICK n \in 1 .. Len(visited) : visited[n] = k  BY <3>5 DEF Shown
      <4>2. n \in 1 .. Len(v) /\ v[n] = k  BY <3>1, <3>3, <4>1
      <4> QED BY <4>2 DEF Shown
    <3> QED BY <3>1, <3>4, <3>5
  <2>4. ASSUME NEW i \in Occupied(h), i <= p  PROVE Shown(v, h.table[i].key)
    <3>1. i < from \/ p <= i  BY <1>1, <1>5
    <3>2. CASE i < from
      <4>1. Shown(visited, h.table[i].key)  BY <3>2
      <4> HIDE DEF v
      <4> QED BY <4>1, <2>3
    <3>3. CASE p <= i
      <4>1. i = p  BY <3>3, <2>4, <2>2, <1>3
      <4> QED BY <4>1, <2>3
    <3> QED BY <3>1, <3>2, <3>3
  <2> HIDE DEF v
  <2> QED BY <2>1, <2>2, <2>3, <2>4, <1>5 DEF IterOK
<1> QED BY <1>4, <1>5

-----------------------------------------------------------------------------
(* Reserved capacity. *)

(* The size that hashmap_reserve computes for a capacity. *)
SizeFor(c) ==
  LET wanted == c + c \div 3
  IN  IF wanted < HASHMAP_SIZE_MIN THEN HASHMAP_SIZE_MIN ELSE NextPowerOfTwo(wanted)

(* It is a size of the code's kind, above the capacity. *)
LEMMA ReserveSizeIs ==
  ASSUME IsMap(hb), NEW c \in Nat
  PROVE  ReserveSize(c) = SizeFor(c) /\ IsPower(SizeFor(c)) /\ SizeFor(c) > c
<1> DEFINE h == [hb EXCEPT !.table_size_init = HASHMAP_SIZE_MIN]
<1>1. h.table_size_init = HASHMAP_SIZE_MIN
  <2>1. hb = [f \in MapFields |-> hb[f]]  BY DEF IsMap
  <2> QED BY <2>1, Zenon DEF MapFields
<1>2. ReserveSize(c) = hashmap_calc_table_size(h, c)  BY DEF ReserveSize
<1> HIDE DEF h
<1>3. hashmap_calc_table_size(h, c) = SizeFor(c)  BY <1>1 DEF hashmap_calc_table_size, SizeFor
<1>4. IsPower(h.table_size_init)  BY <1>1, PowerIs
<1> QED BY <1>2, <1>3, <1>4, CalcPower

(* A table of the reserved size need not grow for as many entries as were  *)
(* reserved: the load rule of reserve and that of put are the same.        *)
LEMMA ReservedEnough ==
  ASSUME NEW h, NEW c \in Nat, h.table_size_init = SizeFor(c), NEW size \in Nat, size <= c
  PROVE  hashmap_calc_table_size(h, size) <= h.table_size_init
<1> DEFINE w == size + size \div 3
           x == c + c \div 3
<1>1. w \in Nat /\ x \in Nat /\ w <= x  OBVIOUS
<1>2. NextPowerOfTwo(w) <= NextPowerOfTwo(x) /\ NextPowerOfTwo(w) \in Nat /\ NextPowerOfTwo(x) \in Nat
      /\ NextPowerOfTwo(w) >= w /\ NextPowerOfTwo(x) >= x
  <2> HIDE DEF w, x
  <2> QED BY <1>1, NextPowerOrder, NextPowerBounds
<1>3. hashmap_calc_table_size(h, size)
        = IF w < h.table_size_init THEN h.table_size_init ELSE NextPowerOfTwo(w)
  BY DEF hashmap_calc_table_size
<1>4. h.table_size_init = IF x < HASHMAP_SIZE_MIN THEN HASHMAP_SIZE_MIN ELSE NextPowerOfTwo(x)
  BY DEF SizeFor
<1>5. HASHMAP_SIZE_MIN \in Nat  BY PowerIs
<1> HIDE DEF w, x
<1> QED BY <1>1, <1>2, <1>3, <1>4, <1>5

-----------------------------------------------------------------------------
(* The dictionary. *)

(* The dictionary that a map stands for: the refinement mapping of Dict in *)
(* Hashmap.                                                                *)
MapOf(h) ==
  [k \in {h.table[i].key : i \in Occupied(h)} |->
     h.table[CHOOSE i \in Occupied(h) : h.table[i].key = k].data]

(* It has the keys of the map, each with the data of its entry. *)
LEMMA MapIs ==
  ASSUME NEW h, IsMap(h)
  PROVE  /\ MapOf(h) = [k \in KeysOf(h) |-> MapOf(h)[k]]
         /\ DOMAIN MapOf(h) = KeysOf(h)
         /\ \A s \in Occupied(h) : MapOf(h)[h.table[s].key] = h.table[s].data
         /\ \A x \in ContentOf(h) : MapOf(h)[x.key] = x.data
<1>1. KeysOf(h) = {h.table[i].key : i \in Occupied(h)}  BY EntryIn
<1>2. \A s \in Occupied(h) : MapOf(h)[h.table[s].key] = h.table[s].data
  <2> SUFFICES ASSUME NEW s \in Occupied(h)  PROVE MapOf(h)[h.table[s].key] = h.table[s].data
    OBVIOUS
  <2> DEFINE k == h.table[s].key
             c == CHOOSE i \in Occupied(h) : h.table[i].key = k
  <2>1. c \in Occupied(h) /\ h.table[c].key = k
    <3>1. \E i \in Occupied(h) : h.table[i].key = k  OBVIOUS
    <3> QED BY <3>1, Zenon
  <2>2. c = s  BY <2>1, EntryIn
  <2>3. MapOf(h)[k] = h.table[c].data  BY DEF MapOf
  <2> QED BY <2>2, <2>3
<1>3. MapOf(h) = [k \in KeysOf(h) |-> MapOf(h)[k]] /\ DOMAIN MapOf(h) = KeysOf(h)
  BY <1>1 DEF MapOf
<1>4. \A x \in ContentOf(h) : MapOf(h)[x.key] = x.data
  <2>1. ContentOf(h) = {h.table[s] : s \in Occupied(h)}  BY EntryIn
  <2> QED BY <1>2, <2>1
<1> QED BY <1>2, <1>3, <1>4

(* A function on the keys that agrees with the entries is that dictionary. *)
LEMMA MapEquals ==
  ASSUME NEW h, IsMap(h), NEW F, F = [k \in KeysOf(h) |-> F[k]],
         \A x \in ContentOf(h) : F[x.key] = x.data
  PROVE  MapOf(h) = F
<1>1. MapOf(h) = [k \in KeysOf(h) |-> MapOf(h)[k]] /\ \A x \in ContentOf(h) : MapOf(h)[x.key] = x.data
  BY MapIs
<1>2. \A k \in KeysOf(h) : MapOf(h)[k] = F[k]  BY <1>1 DEF KeysOf
<1> QED BY <1>1, <1>2

(* Maps of the same entries are the same dictionary, whatever their        *)
(* tables.                                                                 *)
LEMMA MapSame ==
  ASSUME NEW h, IsMap(h), NEW m, IsMap(m), ContentOf(m) = ContentOf(h)
  PROVE  MapOf(m) = MapOf(h)
<1>1. KeysOf(m) = KeysOf(h)  BY DEF KeysOf
<1>2. MapOf(h) = [k \in KeysOf(m) |-> MapOf(h)[k]]  BY <1>1, MapIs
<1>3. \A x \in ContentOf(m) : MapOf(h)[x.key] = x.data  BY MapIs
<1> QED BY <1>2, <1>3, MapEquals

(* A dictionary with an entry more. *)
WithEntry(F, k, d) == [j \in DOMAIN F \cup {k} |-> IF j = k THEN d ELSE F[j]]

(* A dictionary with a key less. *)
WithoutKey(F, k) == [j \in DOMAIN F \ {k} |-> F[j]]

(* A new entry is an entry more in the dictionary. *)
LEMMA MapWith ==
  ASSUME NEW h, IsMap(h), NEW m, IsMap(m), NEW k, NEW d, k \notin KeysOf(h),
         ContentOf(m) = ContentOf(h) \cup {Entry(k, d)}
  PROVE  MapOf(m) = WithEntry(MapOf(h), k, d)
<1> DEFINE F == [j \in DOMAIN MapOf(h) \cup {k} |-> IF j = k THEN d ELSE MapOf(h)[j]]
<1>1. DOMAIN MapOf(h) = KeysOf(h) /\ \A x \in ContentOf(h) : MapOf(h)[x.key] = x.data  BY MapIs
<1>2. Entry(k, d).key = k /\ Entry(k, d).data = d  BY DEF Entry
<1>3. KeysOf(m) = KeysOf(h) \cup {k}  BY <1>2 DEF KeysOf
<1>4. F = [j \in KeysOf(m) |-> F[j]]  BY <1>1, <1>3
<1>5. \A x \in ContentOf(h) : x.key \in KeysOf(h) /\ x.key # k  BY DEF KeysOf
<1>6. \A x \in ContentOf(m) : F[x.key] = x.data
  <2>1. F[k] = d  OBVIOUS
  <2>2. \A x \in ContentOf(h) : F[x.key] = x.data  BY <1>1, <1>5
  <2> HIDE DEF F
  <2> QED BY <2>1, <2>2, <1>2
<1> HIDE DEF F
<1>7. MapOf(m) = F  BY <1>4, <1>6, MapEquals
<1> QED BY <1>7 DEF F, WithEntry

(* A removed entry is a key less in the dictionary. *)
LEMMA MapWithout ==
  ASSUME NEW h, IsMap(h), NEW m, IsMap(m), NEW slot \in Occupied(h),
         ContentOf(m) = ContentOf(h) \ {h.table[slot]}
  PROVE  MapOf(m) = WithoutKey(MapOf(h), h.table[slot].key)
<1> DEFINE x == h.table[slot]
           k == x.key
           F == [j \in DOMAIN MapOf(h) \ {k} |-> MapOf(h)[j]]
<1>1. DOMAIN MapOf(h) = KeysOf(h) /\ \A y \in ContentOf(h) : MapOf(h)[y.key] = y.data  BY MapIs
<1>2. x \in ContentOf(h) /\ \A y \in ContentOf(h) : y.key = k => y = x  BY EntryIn
<1> HIDE DEF x
<1>3. KeysOf(m) = KeysOf(h) \ {k}  BY <1>2 DEF KeysOf, x
<1>4. F = [j \in KeysOf(m) |-> F[j]]  BY <1>1, <1>3
<1>5. \A y \in ContentOf(m) : y.key \in KeysOf(h) /\ y.key # k /\ y \in ContentOf(h)
  BY <1>2 DEF KeysOf, x
<1>6. \A y \in ContentOf(m) : F[y.key] = y.data  BY <1>1, <1>5
<1> HIDE DEF F
<1>7. MapOf(m) = F  BY <1>4, <1>6, MapEquals
<1> QED BY <1>7 DEF F, x, WithoutKey

(* New data for an entry is new data for its key. *)
LEMMA MapSet ==
  ASSUME NEW h, IsMap(h), NEW m, NEW slot \in Occupied(h), NEW d, SetDone(h, m, slot, d)
  PROVE  /\ MapOf(m) = [MapOf(h) EXCEPT ![h.table[slot].key] = d]
         /\ KeysOf(m) = KeysOf(h)
         /\ \A s \in Occupied(h) : m.table[s].key = h.table[s].key
<1> DEFINE k == h.table[slot].key
           F == [MapOf(h) EXCEPT ![k] = d]
<1>1. /\ IsMap(m) /\ Occupied(m) = Occupied(h)
      /\ \A s \in Occupied(h) \ {slot} : m.table[s] = h.table[s]
      /\ m.table[slot] = Entry(k, d)
  BY DEF SetDone
<1>2. Entry(k, d).key = k /\ Entry(k, d).data = d  BY DEF Entry
<1>3. \A s \in Occupied(h) : m.table[s].key = h.table[s].key  BY <1>1, <1>2
<1>4. KeysOf(m) = KeysOf(h)
  <2>1. KeysOf(m) = {m.table[s].key : s \in Occupied(h)}  BY <1>1, EntryIn
  <2>2. KeysOf(h) = {h.table[s].key : s \in Occupied(h)}  BY EntryIn
  <2> QED BY <2>1, <2>2, <1>3
<1>5. MapOf(h) = [j \in KeysOf(h) |-> MapOf(h)[j]]
      /\ \A s \in Occupied(h) : MapOf(h)[h.table[s].key] = h.table[s].data
  BY MapIs
<1>6. F = [j \in KeysOf(m) |-> F[j]]  BY <1>4, <1>5
<1>7. \A s \in Occupied(h) : h.table[s].key \in KeysOf(h)  BY EntryIn
<1>8. \A s \in Occupied(h) : h.table[s].key = k => s = slot  BY EntryIn
<1>9. F[k] = d /\ \A j \in KeysOf(h) \ {k} : F[j] = MapOf(h)[j]  BY <1>5, <1>7
<1> HIDE DEF F
<1>10. \A s \in Occupied(h) : F[m.table[s].key] = m.table[s].data
  <2> SUFFICES ASSUME NEW s \in Occupied(h)  PROVE F[m.table[s].key] = m.table[s].data
    OBVIOUS
  <2>1. CASE s = slot  BY <2>1, <1>1, <1>2, <1>9
  <2>2. CASE s # slot
    <3>1. m.table[s] = h.table[s] /\ h.table[s].key # k /\ h.table[s].key \in KeysOf(h)
      BY <2>2, <1>1, <1>7, <1>8
    <3> QED BY <3>1, <1>5, <1>9
  <2> QED BY <2>1, <2>2
<1>11. \A x \in ContentOf(m) : F[x.key] = x.data
  <2>1. ContentOf(m) = {m.table[s] : s \in Occupied(h)}  BY <1>1, EntryIn
  <2> QED BY <2>1, <1>10
<1>12. MapOf(m) = F  BY <1>1, <1>6, <1>11, MapEquals
<1> QED BY <1>3, <1>4, <1>12 DEF F

(* A map without entries is the empty dictionary. *)
LEMMA MapEmpty ==
  ASSUME NEW h, IsMap(h), ContentOf(h) = {}
  PROVE  MapOf(h) = << >>
<1>1. KeysOf(h) = {}  BY DEF KeysOf
<1>2. MapOf(h) = [k \in {} |-> MapOf(h)[k]]  BY <1>1, MapIs
<1>3. << >> = [k \in {} |-> MapOf(h)[k]]  OBVIOUS
<1> QED BY <1>2, <1>3

-----------------------------------------------------------------------------
(* The inductive invariant. *)

(* The table and the sizes are sound. *)
TableInv == hash \in [Keys -> Nat] /\ IsMap(hb) /\ Sized(hb)

(* The copies of keys allocated are those the table refers to. *)
OwnedInv == copies = Owned(hb)

(* The iterator in use has skipped nothing. *)
IterInv == IterOK(hb, iter, visited)

(* A reserved capacity is remembered in table_size_init, which no call but *)
(* another reserve changes, and the table has that size.                   *)
ReserveInv ==
  /\ reserved \in Nat
  /\ reserved > 0 => hb.table_size_init = SizeFor(reserved) /\ hb.table_size >= hb.table_size_init

(* The inductive invariant. *)
Inv == TableInv /\ OwnedInv /\ IterInv /\ ReserveInv /\ NeverStuck

(* A new map satisfies it. *)
LEMMA InvInit == Init => Inv
<1> SUFFICES ASSUME Init  PROVE Inv
  OBVIOUS
<1>1. hash \in [Keys -> Nat]  BY HashmapAssumption DEF Init
<1>2. IsMap(hb) /\ Sized(hb) /\ ContentOf(hb) = {}  BY InitMap DEF Init
<1>3. Owned(hb) = [k \in Keys |-> IF k \in KeysOf(hb) THEN 1 ELSE 0]  BY <1>2, OwnedIs
<1>4. KeysOf(hb) = {}  BY <1>2 DEF KeysOf
<1>5. OwnedInv  BY <1>3, <1>4 DEF Init, OwnedInv
<1>6. IterInv  BY NoIteratorOK DEF Init, IterInv
<1>7. ReserveInv /\ NeverStuck  BY DEF Init, ReserveInv, NeverStuck
<1> QED BY <1>1, <1>2, <1>5, <1>6, <1>7 DEF Inv, TableInv

(* The first part holds after a step if the new map is sound. *)
LEMMA TableKept ==
  ASSUME TableInv, hash' = hash, IsMap(hb'), Sized(hb')
  PROVE  TableInv'
<1>1. IsMap(hb)'  BY DEF IsMap
<1>2. Sized(hb)'  BY DEF Sized
<1> QED BY <1>1, <1>2 DEF TableInv

(* A call that leaves the keys and allocates none keeps the second. *)
LEMMA OwnedKept ==
  ASSUME OwnedInv, IsMap(hb), IsMap(hb'), KeysOf(hb') = KeysOf(hb), copies' = copies
  PROVE  OwnedInv'
<1>1. Owned(hb) = [k \in Keys |-> IF k \in KeysOf(hb) THEN 1 ELSE 0]  BY OwnedIs
<1>2. Owned(hb') = [k \in Keys |-> IF k \in KeysOf(hb') THEN 1 ELSE 0]  BY OwnedIs
<1>3. copies' = Owned(hb')  BY <1>1, <1>2 DEF OwnedInv
<1> QED BY <1>3 DEF OwnedInv

(* A call that ends iterations keeps the third. *)
LEMMA IterGone ==
  ASSUME NoIterator
  PROVE  IterInv'
<1>1. IterOK(hb', iter', visited')  BY NoIteratorOK DEF NoIterator
<1> QED BY <1>1 DEF IterInv

(* A call that changes no size keeps the fourth. *)
LEMMA ReserveKept ==
  ASSUME ReserveInv, reserved' = reserved, hb'.table_size_init = hb.table_size_init,
         hb'.table_size = hb.table_size
  PROVE  ReserveInv'
BY DEF ReserveInv

(* What a look-up returns is no error code. *)
LEMMA AnswerIsData ==
  ASSUME TableInv, NEW slot, slot \in Occupied(hb)
  PROVE  hb.table[slot].data # "EADDRNOTAVAIL"
<1>1. hb.table[slot].data \in Data  BY EntryIn DEF TableInv
<1> QED BY <1>1, HashmapAssumption DEF Errors

(* hashmap_put keeps the invariant, whatever runs out of memory. *)
LEMMA PutInv ==
  ASSUME Inv, NEW k \in Keys, NEW d \in Data, Put(k, d)
  PROVE  Inv'
<1>1. TableInv /\ OwnedInv /\ ReserveInv  BY DEF Inv
<1>2. hash \in [Keys -> Nat] /\ IsMap(hb) /\ Sized(hb)  BY <1>1 DEF TableInv
<1>3. /\ IsMap(hb') /\ hb'.table_size_init = hb.table_size_init
      /\ \/ hb'.table_size = hb.table_size
         \/ /\ hb'.table_size = hashmap_calc_table_size(hb, hb.size)
            /\ hb'.table_size > hb.table_size
      /\ \/ ret' = "ok" /\ k \notin KeysOf(hb) /\ ContentOf(hb') = ContentOf(hb) \cup {Entry(k, d)}
         \/ ret' = "EEXIST" /\ k \in KeysOf(hb) /\ ContentOf(hb') = ContentOf(hb)
         \/ ret' = "ENOMEM" /\ k \notin KeysOf(hb) /\ ContentOf(hb') = ContentOf(hb)
  BY <1>2, PutIs DEF PutDone
<1>4. /\ copies' = IF ret' = "ok" THEN [copies EXCEPT ![k] = @ + 1] ELSE copies
      /\ NoIterator /\ hash' = hash /\ reserved' = reserved
  BY DEF Put
<1>5. hb.size \in Nat /\ hb.table_size \in Nat /\ hb'.table_size \in Nat  BY <1>2, <1>3, SizeBound
<1>6. TableInv'
  <2>1. IsPower(hashmap_calc_table_size(hb, hb.size))  BY <1>2, <1>5, CalcPower DEF Sized
  <2>2. Sized(hb')  BY <1>2, <1>3, <2>1 DEF Sized
  <2> QED BY <1>1, <1>3, <1>4, <2>2, TableKept
<1>7. OwnedInv'
  <2>1. CASE ret' = "ok"
    <3>1. k \notin KeysOf(hb) /\ ContentOf(hb') = ContentOf(hb) \cup {Entry(k, d)}  BY <1>3, <2>1
    <3>2. Entry(k, d).key = k  BY DEF Entry
    <3>3. KeysOf(hb') = KeysOf(hb) \cup {k}  BY <3>1, <3>2 DEF KeysOf
    <3>4. copies = [j \in Keys |-> IF j \in KeysOf(hb) THEN 1 ELSE 0]  BY <1>1, <1>2, OwnedIs DEF OwnedInv
    <3>5. Owned(hb') = [j \in Keys |-> IF j \in KeysOf(hb') THEN 1 ELSE 0]  BY <1>3, OwnedIs
    <3>6. copies' = [copies EXCEPT ![k] = @ + 1]  BY <1>4, <2>1
    <3>7. copies' = [j \in Keys |-> IF j \in KeysOf(hb') THEN 1 ELSE 0]
      BY <3>1, <3>3, <3>4, <3>6
    <3>8. copies' = Owned(hb')  BY <3>5, <3>7
    <3> QED BY <3>8 DEF OwnedInv
  <2>2. CASE ret' # "ok"
    <3>1. ContentOf(hb') = ContentOf(hb) /\ copies' = copies  BY <1>3, <1>4, <2>2
    <3>2. KeysOf(hb') = KeysOf(hb)  BY <3>1 DEF KeysOf
    <3> QED BY <1>1, <1>2, <1>3, <3>1, <3>2, OwnedKept
  <2> QED BY <2>1, <2>2
<1>8. IterInv'  BY <1>4, IterGone
<1>9. ReserveInv'
  <2>1. hb.table_size_init \in Nat  BY <1>2 DEF IsMap
  <2> QED BY <2>1, <1>1, <1>3, <1>4, <1>5 DEF ReserveInv
<1>10. NeverStuck'  BY <1>3 DEF NeverStuck
<1> QED BY <1>6, <1>7, <1>8, <1>9, <1>10 DEF Inv

(* hashmap_get keeps it. *)
LEMMA GetInv ==
  ASSUME Inv, NEW k \in Keys, Get(k)
  PROVE  Inv'
<1>1. TableInv /\ OwnedInv /\ ReserveInv /\ IterInv BY DEF Inv
<1>2. hash \in [Keys -> Nat] /\ IsMap(hb) /\ Sized(hb)  BY <1>1 DEF TableInv
<1> DEFINE slot == hashmap_entry_find(hb, k, FALSE)
<1>3. /\ ret' = IF slot = NULL THEN NULL ELSE hb.table[slot].data
      /\ hb' = hb /\ hash' = hash /\ iter' = iter /\ visited' = visited /\ reserved' = reserved
      /\ copies' = copies
  BY DEF Get
<1>4. slot = NULL \/ slot \in Occupied(hb)  BY <1>2, FindIs
<1> HIDE DEF slot
<1>5. TableInv'  BY <1>1, <1>2, <1>3, TableKept
<1>6. OwnedInv'  BY <1>1, <1>2, <1>3, OwnedKept
<1>7. IterInv'  BY <1>1, <1>3 DEF IterInv
<1>8. ReserveInv'  BY <1>1, <1>3, ReserveKept
<1>9. NeverStuck'
  <2>1. NULL # "EADDRNOTAVAIL"  BY HashmapAssumption DEF Errors
  <2> QED BY <2>1, <1>1, <1>3, <1>4, AnswerIsData DEF NeverStuck
<1> QED BY <1>5, <1>6, <1>7, <1>8, <1>9 DEF Inv

(* hashmap_remove keeps it. *)
LEMMA RemoveInv ==
  ASSUME Inv, NEW k \in Keys, Remove(k)
  PROVE  Inv'
<1>1. TableInv /\ OwnedInv /\ ReserveInv /\ IterInv BY DEF Inv
<1>2. hash \in [Keys -> Nat] /\ IsMap(hb) /\ Sized(hb)  BY <1>1 DEF TableInv
<1> DEFINE slot == hashmap_entry_find(hb, k, FALSE)
<1>3. /\ ret' = IF slot = NULL THEN NULL ELSE hb.table[slot].data
      /\ IF slot = NULL THEN hb' = hb /\ copies' = copies
                        ELSE hb' = hashmap_entry_remove(hb, slot) /\ copies' = Free(hb, {slot})
      /\ NoIterator /\ hash' = hash /\ reserved' = reserved
  BY DEF Remove
<1>4. slot = NULL \/ slot \in Occupied(hb)  BY <1>2, FindIs
<1> HIDE DEF slot
<1>5. NeverStuck'
  <2>1. NULL # "EADDRNOTAVAIL"  BY HashmapAssumption DEF Errors
  <2> QED BY <2>1, <1>1, <1>3, <1>4, AnswerIsData DEF NeverStuck
<1>6. IterInv'  BY <1>3, IterGone
<1>7. CASE slot = NULL
  <2>1. hb' = hb /\ copies' = copies  BY <1>3, <1>7
  <2>2. TableInv'  BY <2>1, <1>1, <1>2, <1>3, TableKept
  <2>3. OwnedInv'  BY <2>1, <1>1, <1>2, <1>3, OwnedKept
  <2>4. ReserveInv'  BY <2>1, <1>1, <1>3, ReserveKept
  <2> QED BY <1>5, <1>6, <2>2, <2>3, <2>4 DEF Inv
<1>8. CASE slot # NULL
  <2>1. slot \in Occupied(hb) /\ hb' = hashmap_entry_remove(hb, slot) /\ copies' = Free(hb, {slot})
    BY <1>3, <1>4, <1>8
  <2>2. RemoveDone(hb, hb', slot)  BY <1>2, <2>1, RemoveIs
  <2>3. /\ IsMap(hb') /\ hb'.table_size = hb.table_size
        /\ hb'.table_size_init = hb.table_size_init
        /\ ContentOf(hb') = ContentOf(hb) \ {hb.table[slot]}
    BY <2>2 DEF RemoveDone
  <2>4. TableInv'
    <3>1. Sized(hb')  BY <1>2, <2>3 DEF Sized
    <3> QED BY <3>1, <1>1, <1>3, <2>3, TableKept
  <2>5. OwnedInv'
    <3>1. copies = Owned(hb)  BY <1>1 DEF OwnedInv
    <3>2. Free(hb, {slot}) = Owned(hb')  BY <3>1, <1>2, <2>1, <2>3, FreeOne
    <3> QED BY <3>2, <2>1 DEF OwnedInv
  <2>6. ReserveInv'  BY <1>1, <1>3, <2>3, ReserveKept
  <2> QED BY <1>5, <1>6, <2>4, <2>5, <2>6 DEF Inv
<1> QED BY <1>7, <1>8

(* A call that empties the map, frees the keys and keeps the reserved size *)
(* keeps it.                                                               *)
LEMMA EmptiedInv ==
  ASSUME Inv, NoIterator, hash' = hash, ret' = ret, IsMap(hb'), Sized(hb'), ContentOf(hb') = {},
         copies' = hashmap_free_keys(hb), ReserveInv'
  PROVE  Inv'
<1>1. TableInv /\ OwnedInv /\ NeverStuck  BY DEF Inv
<1>2. IsMap(hb) /\ copies = Owned(hb)  BY <1>1 DEF TableInv, OwnedInv
<1>3. TableInv'  BY <1>1, TableKept
<1>4. IterInv'  BY IterGone
<1>5. NeverStuck'  BY <1>1 DEF NeverStuck
<1>6. (IF hb.size = 0 THEN copies ELSE Free(hb, Slots(hb.table_size))) = Owned(hb')
  BY <1>2, FreeAll
<1>7. OwnedInv'  BY <1>6 DEF OwnedInv, hashmap_free_keys
<1> QED BY <1>3, <1>4, <1>5, <1>7 DEF Inv

(* hashmap_clear keeps it. *)
LEMMA ClearInv ==
  ASSUME Inv, Clear
  PROVE  Inv'
<1>1. IsMap(hb) /\ Sized(hb) /\ ReserveInv /\ hb.table_size \in Nat  BY DEF Inv, TableInv, IsMap
<1>2. /\ hb' = [hb EXCEPT !.size = 0, !.table = EmptyTable(hb.table_size)]
      /\ copies' = hashmap_free_keys(hb) /\ NoIterator
      /\ hash' = hash /\ ret' = ret /\ reserved' = reserved
  BY DEF Clear
<1> DEFINE m == Emptied(hb, hb.table_size)
<1>3. /\ IsMap(m) /\ ContentOf(m) = {}
      /\ m.table_size = hb.table_size /\ m.table_size_init = hb.table_size_init
  BY <1>1, EmptiedMap
<1>4. hb' = m
  <2>1. hb = [f \in MapFields |-> hb[f]]  BY <1>1 DEF IsMap
  <2>2. [hb EXCEPT !.table_size = hb.table_size] = hb  BY <2>1
  <2> QED BY <1>2, <2>1 DEF MapFields, Emptied
<1> HIDE DEF m
<1>5. Sized(hb')  BY <1>1, <1>3, <1>4 DEF Sized
<1>6. ReserveInv'  BY <1>1, <1>2, <1>3, <1>4, ReserveKept
<1> QED BY <1>2, <1>3, <1>4, <1>5, <1>6, EmptiedInv

(* hashmap_cleanup and a new hashmap_init keep it. *)
LEMMA CleanupInv ==
  ASSUME Inv, Cleanup
  PROVE  Inv'
<1>1. /\ hb' = hashmap_base_init /\ copies' = hashmap_free_keys(hb) /\ NoIterator
      /\ hash' = hash /\ ret' = ret /\ reserved' = 0
  BY DEF Cleanup
<1>2. IsMap(hb') /\ Sized(hb') /\ ContentOf(hb') = {}  BY <1>1, InitMap
<1>3. ReserveInv'  BY <1>1 DEF ReserveInv
<1> QED BY <1>1, <1>2, <1>3, EmptiedInv

(* hashmap_reset keeps it, whether or not it gets its table. *)
LEMMA ResetInv ==
  ASSUME Inv, Reset
  PROVE  Inv'
<1>1. IsMap(hb) /\ Sized(hb) /\ ReserveInv /\ hb.table_size \in Nat /\ hb.table_size_init \in Nat
  BY DEF Inv, TableInv, IsMap
<1>2. PICK allocated \in Allocated :
        LET size == IF allocated THEN ResetSize(hb) ELSE hb.table_size
        IN  hb' = [hb EXCEPT !.size = 0, !.table_size = size, !.table = EmptyTable(size)]
  BY Zenon DEF Reset
<1>3. copies' = hashmap_free_keys(hb) /\ NoIterator /\ hash' = hash /\ ret' = ret /\ reserved' = reserved
  BY DEF Reset
<1> DEFINE N == IF allocated THEN ResetSize(hb) ELSE hb.table_size
           m == Emptied(hb, N)
<1>4. hb' = m  BY <1>2 DEF Emptied
<1>5. N = hb.table_size_init \/ N = hb.table_size  BY DEF ResetSize
<1>6. N \in Nat  BY <1>1, <1>5
<1> HIDE DEF N
<1>7. /\ IsMap(m) /\ ContentOf(m) = {} /\ m.table_size = N /\ m.table_size_init = hb.table_size_init
  BY <1>1, <1>6, EmptiedMap
<1> HIDE DEF m
<1>8. Sized(hb')  BY <1>1, <1>4, <1>5, <1>7 DEF Sized
<1>9. ReserveInv'  BY <1>1, <1>3, <1>4, <1>5, <1>7 DEF ReserveInv
<1> QED BY <1>3, <1>4, <1>7, <1>8, <1>9, EmptiedInv

(* The size hashmap_reserve keeps for hashmap_reset. *)
Resized(h, size) == [h EXCEPT !.table_size_init = size]

(* Keeping it changes nothing else. *)
LEMMA ResizedMap ==
  ASSUME NEW h, IsMap(h), NEW size \in Nat
  PROVE  /\ Resized(h, size).table_size = h.table_size
         /\ Resized(h, size).table_size_init = size
         /\ IsMap(Resized(h, size)) /\ ContentOf(Resized(h, size)) = ContentOf(h)
         /\ Resized(h, size).size = h.size
<1> DEFINE m == Resized(h, size)
<1>1. m = [h EXCEPT !.table_size_init = size] BY DEF Resized
<1>2. /\ m.table = h.table /\ m.size = h.size /\ m.table_size = h.table_size
      /\ m.table_size_init = size /\ m = [f \in MapFields |-> m[f]]
  <2>1. h = [f \in MapFields |-> h[f]]  BY DEF IsMap
  <2> HIDE DEF m
  <2> QED BY <1>1, <2>1, Zenon DEF MapFields
<1> HIDE DEF m
<1>3. Occupied(m) = Occupied(h)  BY <1>2 DEF Occupied
<1>4. IsMap(m)  BY <1>2, <1>3 DEF IsMap
<1>5. ContentOf(m) = ContentOf(h)  BY <1>2 DEF ContentOf
<1> QED BY <1>2, <1>4, <1>5 DEF m

(* hashmap_reserve changes no entry; if it succeeds, the table has the     *)
(* size for the capacity.                                                  *)
LEMMA ReserveDone ==
  ASSUME Inv, NEW c \in Capacities, Reserve(c)
  PROVE  /\ IsMap(hb') /\ Sized(hb') /\ ContentOf(hb') = ContentOf(hb) /\ ReserveInv'
         /\ ret' \in {"ok", "ENOMEM"}
         /\ reserved' = reserved => reserved = 0 \/ hb'.table_size = hb.table_size
<1> DEFINE size == ReserveSize(c)
<1>1. hash \in [Keys -> Nat] /\ IsMap(hb) /\ Sized(hb) /\ ReserveInv  BY DEF Inv, TableInv
<1>2. c \in Nat  BY HashmapAssumption
<1>3. size = SizeFor(c) /\ IsPower(size) /\ size > c /\ size \in Nat
  <2>1. size = SizeFor(c) /\ IsPower(SizeFor(c)) /\ SizeFor(c) > c  BY <1>1, <1>2, ReserveSizeIs
  <2> HIDE DEF size
  <2> QED BY <2>1, PowerIs
<1>4. hb.size \in Nat /\ hb.table_size \in Nat /\ hb.size <= hb.table_size  BY <1>1, SizeBound
<1>5. \/ size <= hb.table_size /\ hb' = Resized(hb, size) /\ ret' = "ok" /\ reserved' = c
      \/ /\ size > hb.table_size /\ hb' = hashmap_rehash(Resized(hb, size), size)
         /\ ret' = "ok" /\ reserved' = c
      \/ size > hb.table_size /\ ret' = "ENOMEM" /\ hb' = hb /\ reserved' = reserved
  BY Zenon DEF Reserve, Resized
<1> HIDE DEF size
<1>6. /\ IsMap(Resized(hb, size)) /\ ContentOf(Resized(hb, size)) = ContentOf(hb)
      /\ Resized(hb, size).table_size = hb.table_size /\ Resized(hb, size).table_size_init = size
      /\ Resized(hb, size).size = hb.size
  BY <1>1, <1>3, ResizedMap
<1>7. CASE size <= hb.table_size /\ hb' = Resized(hb, size) /\ ret' = "ok" /\ reserved' = c
  <2>1. Sized(hb')  BY <1>1, <1>3, <1>6, <1>7 DEF Sized
  <2>2. ReserveInv'  BY <1>2, <1>3, <1>4, <1>6, <1>7 DEF ReserveInv
  <2> QED BY <2>1, <2>2, <1>6, <1>7
<1>8. CASE /\ size > hb.table_size /\ hb' = hashmap_rehash(Resized(hb, size), size)
           /\ ret' = "ok" /\ reserved' = c
  <2> DEFINE h == Resized(hb, size)
             m == hashmap_rehash(h, size)
  <2>1. hb' = m  BY <1>8
  <2> HIDE DEF m
  <2>2. IsMap(h) /\ ContentOf(h) = ContentOf(hb) /\ h.table_size_init = size /\ h.size = hb.size
    BY <1>6
  <2>3. Grown(h, m) /\ m.table_size = size
    <3>1. size > h.size  BY <2>2, <1>3, <1>4, <1>8
    <3> HIDE DEF h
    <3> QED BY <3>1, <2>2, <1>1, <1>3, RehashMap DEF m
  <2> HIDE DEF h
  <2>4. IsMap(m) /\ ContentOf(m) = ContentOf(hb) /\ m.table_size_init = size /\ m.table_size = size
    BY <2>2, <2>3 DEF Grown
  <2>5. Sized(hb')  BY <1>3, <2>1, <2>4 DEF Sized
  <2>6. ReserveInv'  BY <1>2, <1>3, <1>8, <2>1, <2>4 DEF ReserveInv
  <2>7. ~(reserved' = reserved /\ reserved # 0)
    <3> SUFFICES ASSUME reserved' = reserved, reserved # 0  PROVE FALSE
      OBVIOUS
    <3>1. reserved = c /\ reserved > 0  BY <1>8, <1>2
    <3>2. hb.table_size_init = size /\ hb.table_size >= size  BY <3>1, <1>1, <1>3 DEF ReserveInv
    <3> QED BY <3>2, <1>3, <1>4, <1>8
  <2> QED BY <2>1, <2>4, <2>5, <2>6, <2>7, <1>8
<1>9. CASE size > hb.table_size /\ ret' = "ENOMEM" /\ hb' = hb /\ reserved' = reserved
  <2>1. Sized(hb')  BY <1>1, <1>9
  <2>2. ReserveInv'  BY <1>1, <1>9 DEF ReserveInv
  <2> QED BY <2>1, <2>2, <1>1, <1>9
<1> QED BY <1>5, <1>7, <1>8, <1>9

(* hashmap_reserve keeps the invariant. *)
LEMMA ReserveCallInv ==
  ASSUME Inv, NEW c \in Capacities, Reserve(c)
  PROVE  Inv'
<1>1. TableInv /\ OwnedInv /\ IsMap(hb)  BY DEF Inv, TableInv
<1>2. /\ IsMap(hb') /\ Sized(hb') /\ ContentOf(hb') = ContentOf(hb) /\ ReserveInv'
      /\ ret' \in {"ok", "ENOMEM"}
  BY ReserveDone
<1>3. NoIterator /\ hash' = hash /\ copies' = copies  BY DEF Reserve
<1>4. KeysOf(hb') = KeysOf(hb)  BY <1>2 DEF KeysOf
<1>5. NeverStuck'  BY <1>2 DEF NeverStuck
<1> QED BY <1>1, <1>2, <1>3, <1>4, <1>5, TableKept, OwnedKept, IterGone DEF Inv

(* A step that only moves the iterator keeps it, if the iterator skips     *)
(* nothing.                                                                *)
LEMMA UnchangedInv ==
  ASSUME Inv, hb' = hb, hash' = hash, ret' = ret, reserved' = reserved, copies' = copies,
         IterOK(hb, iter', visited')
  PROVE  Inv'
<1>1. TableInv /\ OwnedInv /\ ReserveInv /\ NeverStuck  BY DEF Inv
<1>2. IsMap(hb) /\ Sized(hb)  BY <1>1 DEF TableInv
<1>3. TableInv'  BY <1>1, <1>2, TableKept
<1>4. OwnedInv'  BY <1>1, <1>2, OwnedKept
<1>5. IterInv'  BY DEF IterInv
<1>6. ReserveInv'  BY <1>1, ReserveKept
<1>7. NeverStuck'  BY <1>1 DEF NeverStuck
<1> QED BY <1>3, <1>4, <1>5, <1>6, <1>7 DEF Inv

(* hashmap_iter keeps it. *)
LEMMA IterStartInv ==
  ASSUME Inv, IterStart
  PROVE  Inv'
<1>1. IsMap(hb) /\ IterOK(hb, iter, visited)  BY DEF Inv, TableInv, IterInv
<1>2. StandAt(hb, hashmap_entry_get_populated(hb, 0))  BY DEF IterStart
<1>3. visited \in Seq(Keys)  BY <1>1 DEF IterOK
<1>4. \A i \in Occupied(hb) : ~(i < 0)  BY <1>1, SizeBound DEF Occupied, Slots
<1>5. IterOK(hb, iter', visited')
  <2>1. 0 \in Nat  OBVIOUS
  <2> QED BY <1>1, <1>2, <1>3, <1>4, <2>1, StandAtOK
<1>6. hb' = hb /\ hash' = hash /\ ret' = ret /\ reserved' = reserved /\ copies' = copies
  BY DEF IterStart
<1> QED BY <1>5, <1>6, UnchangedInv

(* hashmap_iter_next keeps it: there is no entry between the old slot and  *)
(* the new.                                                                *)
LEMMA IterNextInv ==
  ASSUME Inv, IterNext
  PROVE  Inv'
<1>1. IsMap(hb) /\ IterOK(hb, iter, visited)  BY DEF Inv, TableInv, IterInv
<1>2. iter # NULL /\ StandAt(hb, hashmap_entry_get_populated(hb, iter + 1))  BY DEF IterNext
<1>3. visited \in Seq(Keys) /\ iter \in Occupied(hb)  BY <1>1, <1>2 DEF IterOK
<1>4. Occupied(hb) \subseteq Nat  BY <1>1, SizeBound DEF Occupied, Slots
<1>5. \A i \in Occupied(hb) : i < iter + 1 => Shown(visited, hb.table[i].key)
  <2>1. \A i \in Occupied(hb) : i < iter + 1 => i <= iter  BY <1>3, <1>4
  <2>2. \A i \in Occupied(hb) : i <= iter => Shown(visited, hb.table[i].key)  BY <1>1, <1>2 DEF IterOK
  <2> QED BY <2>1, <2>2
<1>6. IterOK(hb, iter', visited')
  <2>1. iter + 1 \in Nat  BY <1>3, <1>4
  <2> QED BY <1>1, <1>2, <1>3, <1>5, <2>1, StandAtOK
<1>7. hb' = hb /\ hash' = hash /\ ret' = ret /\ reserved' = reserved /\ copies' = copies
  BY DEF IterNext
<1> QED BY <1>6, <1>7, UnchangedInv

(* An iterator given up keeps it. *)
LEMMA IterEndInv ==
  ASSUME Inv, IterEnd
  PROVE  Inv'
<1>1. IterOK(hb, iter', visited')  BY NoIteratorOK DEF IterEnd, NoIterator
<1>2. hb' = hb /\ hash' = hash /\ ret' = ret /\ reserved' = reserved /\ copies' = copies
  BY DEF IterEnd
<1> QED BY <1>1, <1>2, UnchangedInv

(* hashmap_iter_remove keeps it: the iterator looks at the removed slot    *)
(* again, and no entry has moved to before it.                             *)
LEMMA IterRemoveInv ==
  ASSUME Inv, IterRemove
  PROVE  Inv'
<1>1. TableInv /\ OwnedInv /\ ReserveInv /\ NeverStuck /\ IterOK(hb, iter, visited)
  BY DEF Inv, IterInv
<1>2. hash \in [Keys -> Nat] /\ IsMap(hb) /\ Sized(hb)  BY <1>1 DEF TableInv
<1>3. /\ iter # NULL /\ hb' = hashmap_entry_remove(hb, iter) /\ copies' = Free(hb, {iter})
      /\ hash' = hash /\ ret' = ret /\ reserved' = reserved
      /\ StandAt(hb', hashmap_entry_get_populated(hb', iter))
  BY DEF IterRemove, AfterRemoval
<1>4. iter \in Occupied(hb) /\ visited \in Seq(Keys)  BY <1>1, <1>3 DEF IterOK
<1>5. RemoveDone(hb, hb', iter)  BY <1>2, <1>3, <1>4, RemoveIs
<1>6. /\ IsMap(hb') /\ hb'.table_size = hb.table_size
      /\ hb'.table_size_init = hb.table_size_init
      /\ ContentOf(hb') = ContentOf(hb) \ {hb.table[iter]}
      /\ \A s \in Occupied(hb') : s < iter => \E t \in Occupied(hb) : t < iter /\ hb'.table[s] = hb.table[t]
  BY <1>5 DEF RemoveDone
<1>7. TableInv'
  <2>1. Sized(hb')  BY <1>2, <1>6 DEF Sized
  <2> QED BY <2>1, <1>1, <1>3, <1>6, TableKept
<1>8. OwnedInv'
  <2>1. copies = Owned(hb)  BY <1>1 DEF OwnedInv
  <2>2. Free(hb, {iter}) = Owned(hb')  BY <2>1, <1>2, <1>4, <1>6, FreeOne
  <2> QED BY <2>2, <1>3 DEF OwnedInv
<1>9. IterInv'
  <2>1. Occupied(hb) \subseteq Nat  BY <1>2, SizeBound DEF Occupied, Slots
  <2>2. \A t \in Occupied(hb) : t < iter => Shown(visited, hb.table[t].key)
    <3>1. \A t \in Occupied(hb) : t <= iter => Shown(visited, hb.table[t].key)  BY <1>1, <1>3 DEF IterOK
    <3>2. \A t \in Occupied(hb) : t < iter => t <= iter  BY <2>1, <1>4
    <3> QED BY <3>1, <3>2
  <2>3. \A s \in Occupied(hb') : s < iter => Shown(visited, hb'.table[s].key)
    BY <2>2, <1>6
  <2>4. iter \in Nat  BY <2>1, <1>4
  <2>5. IterOK(hb', iter', visited')  BY <1>3, <1>4, <1>6, <2>3, <2>4, StandAtOK
  <2> QED BY <2>5 DEF IterInv
<1>10. ReserveInv'  BY <1>1, <1>3, <1>6, ReserveKept
<1>11. NeverStuck'  BY <1>1, <1>3 DEF NeverStuck
<1> QED BY <1>7, <1>8, <1>9, <1>10, <1>11 DEF Inv

(* hashmap_iter_set_data changes the data of the entry it stands at. *)
LEMMA SetDataDone ==
  ASSUME Inv, NEW d \in Data, IterSetData(d)
  PROVE  /\ iter \in Occupied(hb) /\ SetDone(hb, hb', iter, d)
         /\ hash' = hash /\ ret' = ret /\ iter' = iter /\ visited' = visited
         /\ reserved' = reserved /\ copies' = copies
<1>1. hash \in [Keys -> Nat] /\ IsMap(hb)  BY DEF Inv, TableInv
<1>2. iter \in Occupied(hb)  BY DEF Inv, IterInv, IterOK, IterSetData
<1>3. hb' = Rewritten(hb, iter, d)  BY DEF IterSetData, Rewritten
<1>4. SetDone(hb, hb', iter, d)  BY <1>1, <1>2, <1>3, SetIs
<1> QED BY <1>2, <1>4 DEF IterSetData

(* hashmap_iter_set_data keeps the invariant. *)
LEMMA IterSetDataInv ==
  ASSUME Inv, NEW d \in Data, IterSetData(d)
  PROVE  Inv'
<1>1. /\ TableInv /\ OwnedInv /\ ReserveInv /\ NeverStuck /\ IterOK(hb, iter, visited)
      /\ IsMap(hb) /\ Sized(hb)
  BY DEF Inv, IterInv, TableInv
<1>2. /\ iter \in Occupied(hb) /\ SetDone(hb, hb', iter, d)
      /\ hash' = hash /\ ret' = ret /\ iter' = iter /\ visited' = visited
      /\ reserved' = reserved /\ copies' = copies
  BY SetDataDone
<1>3. /\ IsMap(hb') /\ hb'.table_size = hb.table_size /\ hb'.table_size_init = hb.table_size_init
      /\ Occupied(hb') = Occupied(hb)
  BY <1>2 DEF SetDone
<1>4. KeysOf(hb') = KeysOf(hb) /\ \A s \in Occupied(hb) : hb'.table[s].key = hb.table[s].key
  BY <1>1, <1>2, MapSet
<1>5. TableInv'
  <2>1. Sized(hb')  BY <1>1, <1>3 DEF Sized
  <2> QED BY <2>1, <1>1, <1>2, <1>3, TableKept
<1>6. OwnedInv'  BY <1>1, <1>2, <1>3, <1>4, OwnedKept
<1>7. IterInv'
  <2>1. IterOK(hb', iter', visited')  BY <1>1, <1>2, <1>3, <1>4 DEF IterOK
  <2> QED BY <2>1 DEF IterInv
<1>8. ReserveInv'  BY <1>1, <1>2, <1>3, ReserveKept
<1>9. NeverStuck'  BY <1>1, <1>2 DEF NeverStuck
<1> QED BY <1>5, <1>6, <1>7, <1>8, <1>9 DEF Inv

-----------------------------------------------------------------------------
(* Theorems. *)

(* Every step keeps the invariant. *)
LEMMA NextInv == Inv /\ [Next]_vars => Inv'
<1> SUFFICES ASSUME Inv, [Next]_vars  PROVE Inv'
  OBVIOUS
<1>1. ASSUME NEW p \in Pairs, Put(p[1], p[2])  PROVE Inv'
  <2>1. p[1] \in Keys /\ p[2] \in Data  BY HashmapAssumption
  <2> QED BY <1>1, <2>1, PutInv
<1>2. ASSUME NEW k \in Keys, Get(k)  PROVE Inv'  BY <1>2, GetInv
<1>3. ASSUME NEW k \in Keys, Remove(k)  PROVE Inv'  BY <1>3, RemoveInv
<1>4. CASE Clear  BY <1>4, ClearInv
<1>5. CASE Reset  BY <1>5, ResetInv
<1>6. CASE Cleanup  BY <1>6, CleanupInv
<1>7. ASSUME NEW c \in Capacities, Reserve(c)  PROVE Inv'  BY <1>7, ReserveCallInv
<1>8. CASE IterStart  BY <1>8, IterStartInv
<1>9. CASE IterNext  BY <1>9, IterNextInv
<1>10. CASE IterRemove  BY <1>10, IterRemoveInv
<1>11. CASE IterEnd  BY <1>11, IterEndInv
<1>12. ASSUME NEW d \in Data, IterSetData(d)  PROVE Inv'  BY <1>12, IterSetDataInv
<1>13. CASE UNCHANGED vars
  <2>1. hb' = hb /\ hash' = hash /\ ret' = ret /\ iter' = iter /\ visited' = visited
        /\ reserved' = reserved /\ copies' = copies
    BY <1>13 DEF vars
  <2>2. IterOK(hb, iter', visited')  BY <2>1 DEF Inv, IterInv
  <2> QED BY <2>1, <2>2, UnchangedInv
<1> QED
  BY <1>1, <1>2, <1>3, <1>4, <1>5, <1>6, <1>7, <1>8, <1>9, <1>10, <1>11, <1>12, <1>13 DEF Next

(* The invariant Inv of hashmap.c holds in every state the map can come    *)
(* to, for every set of keys, every hash function, every number of calls   *)
(* and every failure of an allocation.                                     *)
THEOREM AlwaysInv == Spec => []Inv
<1> QED BY InvInit, NextInv, PTL DEF Spec

(* hashmap.c's size counts the entries, tables have a power of two of      *)
(* slots, no key is in the table twice, and an iterator stands at an       *)
(* entry.                                                                  *)
THEOREM MapTypeCorrect == Spec => []TypeOK
<1>1. Inv => TypeOK
  <2> SUFFICES ASSUME Inv  PROVE TypeOK
    OBVIOUS
  <2>1. IsMap(hb) /\ Sized(hb) /\ IterOK(hb, iter, visited)  BY DEF Inv, TableInv, IterInv
  <2>2. hb.table_size = 0 \/ (hb.table_size >= HASHMAP_SIZE_MIN /\ hb.table_size = NextPowerOfTwo(hb.table_size))
    BY <2>1, PowerIs DEF Sized, IsPower
  <2>3. hb.table_size_init = NextPowerOfTwo(hb.table_size_init)  BY <2>1, PowerIs DEF Sized
  <2>4. hb.table \in [Slots(hb.table_size) -> {NULL} \cup Entries] /\ hb.size = Cardinality(Occupied(hb))
    BY <2>1 DEF IsMap, Good, IsTable
  <2>5. \A i, j \in Occupied(hb) : hb.table[i].key = hb.table[j].key => i = j  BY <2>1, EntryIn
  <2>6. iter \in {NULL} \cup Occupied(hb)  BY <2>1 DEF IterOK
  <2> QED BY <2>2, <2>3, <2>4, <2>5, <2>6 DEF TypeOK
<1> QED BY <1>1, AlwaysInv, PTL

(* hashmap_put never answers that it cannot find an empty slot: the table  *)
(* grows before it is full, and a put that could not grow it finds one of  *)
(* the slots left, or says that memory has run out.                        *)
THEOREM PutNeverStuck == Spec => []NeverStuck
<1>1. Inv => NeverStuck  BY DEF Inv
<1> QED BY <1>1, AlwaysInv, PTL

(* The copies of keys that are allocated are those the table refers to: no *)
(* call leaks a key or frees one twice.                                    *)
THEOREM CopiesOwned == Spec => []KeysOwned
<1>1. Inv => KeysOwned
  <2> SUFFICES ASSUME Inv, NEW k \in Keys
               PROVE  copies[k] = Cardinality({i \in Occupied(hb) : hb.table[i].key = k})
    BY DEF KeysOwned
  <2>1. copies = Owned(hb)  BY DEF Inv, OwnedInv
  <2> QED BY <2>1 DEF Owned, Holding
<1> QED BY <1>1, AlwaysInv, PTL

(* hashmap_iter_next and hashmap_iter_remove: an iteration that comes to   *)
(* its end has stood at every entry left in the table, although removals   *)
(* move entries while it runs.                                             *)
THEOREM IterationComplete == Spec => []NoneSkipped
<1>1. Inv => NoneSkipped
  <2> SUFFICES ASSUME Inv, iter = NULL, visited # << >>, NEW i \in Occupied(hb)
               PROVE  \E v \in 1 .. Len(visited) : visited[v] = hb.table[i].key
    BY DEF NoneSkipped
  <2>1. Shown(visited, hb.table[i].key)  BY DEF Inv, IterInv, IterOK
  <2> QED BY <2>1 DEF Shown
<1> QED BY <1>1, AlwaysInv, PTL

(* After a successful hashmap_reserve the table does not grow before the   *)
(* map holds the number of entries reserved, through clears, resets and    *)
(* removals.                                                               *)
THEOREM CapacityReserved == Spec => ReserveHolds
<1> DEFINE Kept == hb.size < reserved /\ reserved' = reserved /\ hb'.size > 0
                   => hb'.table_size <= hb.table_size
<1>1. ASSUME Inv, [Next]_vars  PROVE [Kept]_vars
  <2> SUFFICES ASSUME hb.size < reserved, reserved' = reserved, hb'.size > 0, Next
               PROVE  hb'.table_size <= hb.table_size
    BY <1>1
  <2>1. /\ hash \in [Keys -> Nat] /\ IsMap(hb) /\ Sized(hb) /\ ReserveInv
        /\ IterOK(hb, iter, visited)
    BY <1>1 DEF Inv, TableInv, IterInv
  <2>2. /\ hb.size \in Nat /\ hb.table_size \in Nat /\ reserved \in Nat /\ reserved > 0
        /\ hb.table_size_init = SizeFor(reserved) /\ hb.table_size >= hb.table_size_init
    BY <2>1, SizeBound DEF ReserveInv
  <2>3. CASE hb'.table_size = hb.table_size  BY <2>2, <2>3
  <2>4. ASSUME NEW p \in Pairs, Put(p[1], p[2])  PROVE hb'.table_size <= hb.table_size
    <3>1. p[1] \in Keys /\ p[2] \in Data  BY HashmapAssumption
    <3>2. PutDone(hb, hb', p[1], p[2], ret')  BY <2>1, <2>4, <3>1, PutIs
    <3>3. hashmap_calc_table_size(hb, hb.size) <= hb.table_size_init  BY <2>2, ReservedEnough
    <3>4. /\ IsMap(hb')
          /\ \/ hb'.table_size = hb.table_size
             \/ hb'.table_size = hashmap_calc_table_size(hb, hb.size) /\ hb'.table_size > hb.table_size
      BY <3>2 DEF PutDone
    <3>5. hb'.table_size \in Nat /\ hb.table_size_init \in Nat  BY <2>1, <3>4 DEF IsMap
    <3> QED BY <2>2, <3>3, <3>4, <3>5
  <2>5. ASSUME NEW k \in Keys, Get(k)  PROVE hb'.table_size = hb.table_size  BY <2>5 DEF Get
  <2>6. ASSUME NEW k \in Keys, Remove(k)  PROVE hb'.table_size = hb.table_size
    <3> DEFINE slot == hashmap_entry_find(hb, k, FALSE)
    <3>1. slot = NULL \/ slot \in Occupied(hb)  BY <2>1, FindIs
    <3>2. hb' = hb \/ (slot # NULL /\ hb' = hashmap_entry_remove(hb, slot))  BY <2>6 DEF Remove
    <3> HIDE DEF slot
    <3>3. CASE hb' = hb  BY <3>3
    <3>4. CASE slot # NULL /\ hb' = hashmap_entry_remove(hb, slot)
      <4>1. RemoveDone(hb, hb', slot)  BY <2>1, <3>1, <3>4, RemoveIs
      <4> QED BY <4>1 DEF RemoveDone
    <3> QED BY <3>2, <3>3, <3>4
  <2>7. ASSUME Clear \/ Reset \/ Cleanup  PROVE FALSE
    <3>1. hb = [f \in MapFields |-> hb[f]]  BY <2>1 DEF IsMap
    <3>2. CASE Clear
      <4>1. hb' = [hb EXCEPT !.size = 0, !.table = EmptyTable(hb.table_size)]  BY <3>2 DEF Clear
      <4>2. hb'.size = 0  BY <3>1, <4>1 DEF MapFields
      <4> QED BY <4>2
    <3>3. CASE Reset
      <4>1. PICK size : hb' = [hb EXCEPT !.size = 0, !.table_size = size, !.table = EmptyTable(size)]
        BY <3>3, Zenon DEF Reset
      <4>2. hb'.size = 0  BY <3>1, <4>1 DEF MapFields
      <4> QED BY <4>2
    <3>4. CASE Cleanup  BY <3>4 DEF Cleanup, hashmap_base_init
    <3> QED BY <2>7, <3>2, <3>3, <3>4
  <2>8. ASSUME NEW c \in Capacities, Reserve(c)  PROVE hb'.table_size = hb.table_size
    BY <1>1, <2>2, <2>8, ReserveDone
  <2>9. CASE IterStart \/ IterNext \/ IterEnd  BY <2>3, <2>9 DEF IterStart, IterNext, IterEnd
  <2>10. ASSUME IterRemove  PROVE hb'.table_size = hb.table_size
    <3>1. hb' = hashmap_entry_remove(hb, iter) /\ iter \in Occupied(hb)
      BY <2>1, <2>10 DEF IterRemove, IterOK
    <3>2. RemoveDone(hb, hb', iter)  BY <2>1, <3>1, RemoveIs
    <3> QED BY <3>2 DEF RemoveDone
  <2>11. ASSUME NEW d \in Data, IterSetData(d)  PROVE hb'.table_size = hb.table_size
    <3>1. SetDone(hb, hb', iter, d)  BY <1>1, <2>11, SetDataDone
    <3> QED BY <3>1 DEF SetDone
  <2> QED BY <2>3, <2>4, <2>5, <2>6, <2>7, <2>8, <2>9, <2>10, <2>11 DEF Next
<1> QED BY <1>1, AlwaysInv, PTL DEF Spec, ReserveHolds

(* The dictionary. *)

(* A put is a put of the dictionary. *)
LEMMA DictPut ==
  ASSUME Inv, NEW k \in Keys, NEW d \in Data, Put(k, d)
  PROVE  Dict!Put(k, d)
<1>1. hash \in [Keys -> Nat] /\ IsMap(hb) /\ Sized(hb)  BY DEF Inv, TableInv
<1>2. /\ IsMap(hb')
      /\ \/ ret' = "ok" /\ k \notin KeysOf(hb) /\ ContentOf(hb') = ContentOf(hb) \cup {Entry(k, d)}
         \/ ret' = "EEXIST" /\ k \in KeysOf(hb) /\ ContentOf(hb') = ContentOf(hb)
         \/ ret' = "ENOMEM" /\ k \notin KeysOf(hb) /\ ContentOf(hb') = ContentOf(hb)
  BY <1>1, PutIs DEF PutDone
<1>3. DOMAIN MapOf(hb) = KeysOf(hb)  BY <1>1, MapIs
<1>4. \/ k \in DOMAIN MapOf(hb) /\ ret' = "EEXIST" /\ MapOf(hb') = MapOf(hb)
      \/ /\ k \notin DOMAIN MapOf(hb) /\ ret' = "ok"
         /\ MapOf(hb') = WithEntry(MapOf(hb), k, d)
      \/ k \notin DOMAIN MapOf(hb) /\ ret' = "ENOMEM" /\ MapOf(hb') = MapOf(hb)
  BY <1>1, <1>2, <1>3, MapSame, MapWith
<1> QED BY <1>4, Zenon DEF MapOf, WithEntry, Dict!Put, Dict!With

(* What the dictionary F answers for key k. *)
LookedUp(F, k) == IF k \in DOMAIN F THEN F[k] ELSE NULL

(* hashmap_entry_find finds what the dictionary answers. *)
LEMMA LookupIs ==
  ASSUME Inv, NEW k \in Keys
  PROVE  LET slot == hashmap_entry_find(hb, k, FALSE)
         IN  /\ (IF slot = NULL THEN NULL ELSE hb.table[slot].data) = LookedUp(MapOf(hb), k)
             /\ \/ slot = NULL /\ k \notin DOMAIN MapOf(hb)
                \/ slot # NULL /\ slot \in Occupied(hb) /\ hb.table[slot].key = k
<1> DEFINE slot == hashmap_entry_find(hb, k, FALSE)
<1>1. hash \in [Keys -> Nat] /\ IsMap(hb)  BY DEF Inv, TableInv
<1>2. \/ slot = NULL /\ k \notin KeysOf(hb)
      \/ slot # NULL /\ slot \in Occupied(hb) /\ hb.table[slot].key = k
  BY <1>1, FindIs
<1>3. /\ DOMAIN MapOf(hb) = KeysOf(hb)
      /\ \A s \in Occupied(hb) : MapOf(hb)[hb.table[s].key] = hb.table[s].data
  BY <1>1, MapIs
<1> HIDE DEF slot
<1>4. slot # NULL => k \in KeysOf(hb)  BY <1>1, <1>2, EntryIn
<1>5. (IF slot = NULL THEN NULL ELSE hb.table[slot].data) = LookedUp(MapOf(hb), k)
  BY <1>2, <1>3, <1>4 DEF LookedUp
<1> QED BY <1>2, <1>3, <1>5 DEF slot

(* A get is a get of the dictionary. *)
LEMMA DictGet ==
  ASSUME Inv, NEW k \in Keys, Get(k)
  PROVE  Dict!Get(k)
<1>1. ret' = LookedUp(MapOf(hb), k)  BY LookupIs DEF Get
<1>2. MapOf(hb') = MapOf(hb)  BY DEF Get
<1> QED BY <1>1, <1>2, Zenon DEF LookedUp, MapOf, Dict!Get, Dict!Lookup

(* A remove is a remove of the dictionary. *)
LEMMA DictRemove ==
  ASSUME Inv, NEW k \in Keys, Remove(k)
  PROVE  Dict!Remove(k)
<1> DEFINE slot == hashmap_entry_find(hb, k, FALSE)
<1>1. hash \in [Keys -> Nat] /\ IsMap(hb)  BY DEF Inv, TableInv
<1>2. ret' = LookedUp(MapOf(hb), k)  BY LookupIs DEF Remove
<1>3. \/ slot = NULL /\ k \notin DOMAIN MapOf(hb)
      \/ slot # NULL /\ slot \in Occupied(hb) /\ hb.table[slot].key = k
  BY LookupIs
<1>4. IF slot = NULL THEN hb' = hb ELSE hb' = hashmap_entry_remove(hb, slot)
  BY DEF Remove
<1> HIDE DEF slot
<1>5. MapOf(hb') = WithoutKey(MapOf(hb), k)
  <2>1. CASE slot = NULL
    <3>1. MapOf(hb) = [j \in KeysOf(hb) |-> MapOf(hb)[j]] /\ DOMAIN MapOf(hb) = KeysOf(hb)
      BY <1>1, MapIs
    <3>2. KeysOf(hb) \ {k} = KeysOf(hb)  BY <3>1, <1>3, <2>1
    <3>3. WithoutKey(MapOf(hb), k) = MapOf(hb)  BY <3>1, <3>2 DEF WithoutKey
    <3> QED BY <3>3, <1>4, <2>1
  <2>2. CASE slot # NULL
    <3>1. slot \in Occupied(hb) /\ hb.table[slot].key = k /\ hb' = hashmap_entry_remove(hb, slot)
      BY <1>3, <1>4, <2>2
    <3>2. RemoveDone(hb, hb', slot)  BY <1>1, <3>1, RemoveIs
    <3>3. IsMap(hb') /\ ContentOf(hb') = ContentOf(hb) \ {hb.table[slot]}  BY <3>2 DEF RemoveDone
    <3> QED BY <1>1, <3>1, <3>3, MapWithout
  <2> QED BY <2>1, <2>2
<1> QED BY <1>2, <1>5, Zenon DEF LookedUp, MapOf, WithoutKey, Dict!Remove, Dict!Lookup, Dict!Without

(* A removal by an iterator removes the key it stands at. *)
LEMMA DictIterRemove ==
  ASSUME Inv, IterRemove
  PROVE  \E k \in Keys : Dict!RemoveCurrent(k)
<1> DEFINE k == hb.table[iter].key
<1>1. hash \in [Keys -> Nat] /\ IsMap(hb) /\ iter \in Occupied(hb)
  BY DEF Inv, TableInv, IterInv, IterOK, IterRemove
<1>2. hb' = hashmap_entry_remove(hb, iter) /\ ret' = ret  BY DEF IterRemove
<1>3. RemoveDone(hb, hb', iter)  BY <1>1, <1>2, RemoveIs
<1>4. IsMap(hb') /\ ContentOf(hb') = ContentOf(hb) \ {hb.table[iter]}  BY <1>3 DEF RemoveDone
<1>5. MapOf(hb') = WithoutKey(MapOf(hb), k)  BY <1>1, <1>4, MapWithout
<1>6. PICK j \in Keys : j = k  BY <1>1, EntryIn
<1>7. MapOf(hb') = WithoutKey(MapOf(hb), j)  BY <1>5, <1>6
<1>8. Dict!RemoveCurrent(j)
  BY <1>2, <1>7, Zenon DEF MapOf, WithoutKey, Dict!RemoveCurrent, Dict!Without
<1> QED BY <1>8

(* New data set by an iterator is data set for the key it stands at. *)
LEMMA DictSetData ==
  ASSUME Inv, NEW d \in Data, IterSetData(d)
  PROVE  \E k \in Keys : Dict!SetCurrent(k, d)
<1> DEFINE k == hb.table[iter].key
<1>1. IsMap(hb)  BY DEF Inv, TableInv
<1>2. iter \in Occupied(hb) /\ SetDone(hb, hb', iter, d) /\ ret' = ret  BY SetDataDone
<1>3. MapOf(hb') = [MapOf(hb) EXCEPT ![k] = d]  BY <1>1, <1>2, MapSet
<1>4. k \in Keys /\ k \in DOMAIN MapOf(hb)  BY <1>1, <1>2, EntryIn, MapIs
<1>5. PICK j \in Keys : j = k  BY <1>4
<1>6. MapOf(hb') = [MapOf(hb) EXCEPT ![j] = d] /\ j \in DOMAIN MapOf(hb)  BY <1>3, <1>4, <1>5
<1>7. Dict!SetCurrent(j, d)  BY <1>2, <1>6, Zenon DEF MapOf, Dict!SetCurrent
<1> QED BY <1>7

(* Clear, reset and cleanup each empty the dictionary. *)
LEMMA DictClear ==
  ASSUME Inv, Clear \/ Reset \/ Cleanup
  PROVE  Dict!Clear
<1>1. IsMap(hb) /\ hb.table_size \in Nat /\ hb.table_size_init \in Nat  BY DEF Inv, TableInv, IsMap
<1>2. ret' = ret
  <2>1. CASE Clear  BY <2>1 DEF Clear
  <2>2. CASE Reset  BY <2>2, Zenon DEF Reset
  <2>3. CASE Cleanup  BY <2>3 DEF Cleanup
  <2> QED BY <2>1, <2>2, <2>3
<1>3. IsMap(hb') /\ ContentOf(hb') = {}
  <2>1. CASE Clear
    <3>1. hb' = [hb EXCEPT !.size = 0, !.table = EmptyTable(hb.table_size)]  BY <2>1 DEF Clear
    <3>2. hb' = Emptied(hb, hb.table_size)
      <4>1. hb = [f \in MapFields |-> hb[f]]  BY <1>1 DEF IsMap
      <4>2. [hb EXCEPT !.table_size = hb.table_size] = hb  BY <4>1
      <4> QED BY <3>1, <4>1 DEF MapFields, Emptied
    <3> QED BY <3>2, <1>1, EmptiedMap
  <2>2. CASE Reset
    <3>1. PICK allocated \in Allocated :
            LET size == IF allocated THEN ResetSize(hb) ELSE hb.table_size
            IN  hb' = [hb EXCEPT !.size = 0, !.table_size = size, !.table = EmptyTable(size)]
      BY <2>2, Zenon DEF Reset
    <3> DEFINE N == IF allocated THEN ResetSize(hb) ELSE hb.table_size
    <3>2. hb' = Emptied(hb, N)  BY <3>1 DEF Emptied
    <3>3. N \in Nat  BY <1>1 DEF ResetSize
    <3> HIDE DEF N
    <3> QED BY <3>2, <3>3, <1>1, EmptiedMap
  <2>3. CASE Cleanup  BY <2>3, InitMap DEF Cleanup
  <2> QED BY <2>1, <2>2, <2>3
<1>4. MapOf(hb') = << >>  BY <1>3, MapEmpty
<1> QED BY <1>2, <1>4, Zenon DEF MapOf, Dict!Clear

(* A reserve leaves the dictionary. *)
LEMMA DictReserve ==
  ASSUME Inv, NEW c \in Capacities, Reserve(c)
  PROVE  \E r \in {"ok", "ENOMEM"} : Dict!Reserve(r)
<1>1. IsMap(hb)  BY DEF Inv, TableInv
<1>2. IsMap(hb') /\ ContentOf(hb') = ContentOf(hb) /\ ret' \in {"ok", "ENOMEM"}  BY ReserveDone
<1>3. MapOf(hb') = MapOf(hb)  BY <1>1, <1>2, MapSame
<1>4. Dict!Reserve(ret')  BY <1>3, Zenon DEF MapOf, Dict!Reserve
<1> QED BY <1>2, <1>4

(* Moving an iterator leaves the dictionary and the answer. *)
LEMMA DictStutter ==
  ASSUME hb' = hb, ret' = ret
  PROVE  UNCHANGED <<MapOf(hb), ret>>
BY DEF MapOf, Occupied

(* The refinement: whatever is put, removed, iterated, grown and rehashed, *)
(* the user of the map sees the dictionary of module Dictionary.           *)
THEOREM IsDictionary == Spec => ImplementsDictionary
<1>1. Init => Dict!Init
  <2> SUFFICES ASSUME Init  PROVE Dict!Init
    OBVIOUS
  <2>1. MapOf(hb) = << >>  BY InitMap, MapEmpty DEF Init
  <2>2. ret = "ok"  BY DEF Init
  <2> QED BY <2>1, <2>2, Zenon DEF MapOf, Dict!Init
<1>2. ASSUME Inv, [Next]_vars  PROVE Dict!Next \/ UNCHANGED <<MapOf(hb), ret>>
  <2>1. ASSUME NEW p \in Pairs, Put(p[1], p[2])  PROVE Dict!Next
    <3>1. p[1] \in Keys /\ p[2] \in Data  BY HashmapAssumption
    <3>2. Dict!Put(p[1], p[2])  BY <1>2, <2>1, <3>1, DictPut
    <3> QED BY <3>1, <3>2 DEF Dict!Next
  <2>2. ASSUME NEW k \in Keys, Get(k)  PROVE Dict!Next
    <3>1. Dict!Get(k)  BY <1>2, <2>2, DictGet
    <3> QED BY <3>1 DEF Dict!Next
  <2>3. ASSUME NEW k \in Keys, Remove(k)  PROVE Dict!Next
    <3>1. Dict!Remove(k)  BY <1>2, <2>3, DictRemove
    <3> QED BY <3>1 DEF Dict!Next
  <2>4. ASSUME Clear \/ Reset \/ Cleanup  PROVE Dict!Next
    <3>1. Dict!Clear  BY <1>2, <2>4, DictClear
    <3> QED BY <3>1 DEF Dict!Next
  <2>5. ASSUME NEW c \in Capacities, Reserve(c)  PROVE Dict!Next
    <3>1. \E r \in {"ok", "ENOMEM"} : Dict!Reserve(r)  BY <1>2, <2>5, DictReserve
    <3> QED BY <3>1 DEF Dict!Next
  <2>6. CASE IterRemove
    <3>1. \E k \in Keys : Dict!RemoveCurrent(k)  BY <1>2, <2>6, DictIterRemove
    <3> QED BY <3>1 DEF Dict!Next
  <2>7. ASSUME NEW d \in Data, IterSetData(d)  PROVE Dict!Next
    <3>1. \E k \in Keys : Dict!SetCurrent(k, d)  BY <1>2, <2>7, DictSetData
    <3> QED BY <3>1 DEF Dict!Next
  <2>8. CASE IterStart \/ IterNext \/ IterEnd
    <3>1. hb' = hb /\ ret' = ret  BY <2>8 DEF IterStart, IterNext, IterEnd
    <3> QED BY <3>1, DictStutter
  <2>9. CASE UNCHANGED vars
    <3>1. hb' = hb /\ ret' = ret  BY <2>9 DEF vars
    <3> QED BY <3>1, DictStutter
  <2> QED BY <1>2, <2>1, <2>2, <2>3, <2>4, <2>5, <2>6, <2>7, <2>8, <2>9 DEF Next
<1>3. ASSUME Inv, [Next]_vars
      PROVE  [Dict!Next]_<<[k \in {hb.table[i].key : i \in Occupied(hb)} |->
                              hb.table[CHOOSE i \in Occupied(hb) : hb.table[i].key = k].data], ret>>
  BY <1>2, <1>3, Zenon DEF MapOf
<1> QED BY <1>1, <1>3, AlwaysInv, PTL DEF Spec, ImplementsDictionary, Dict!Spec
=============================================================================
