----------------------------- MODULE Counting -----------------------------
(***************************************************************************)
(* Facts about numbers that the proofs about the loops of the program rest *)
(* on.  The library's induction theorems take the induction hypothesis as  *)
(* an operator; here it is a set of numbers, and the step case comes from  *)
(* the fact that < is well founded on Nat.                                 *)
(***************************************************************************)
EXTENDS Integers, TLAPS, WellFoundedInduction

(* A nonempty set of natural numbers has a least element. *)
LEMMA LeastElement ==
  ASSUME NEW T, T \subseteq Nat, T # {}
  PROVE \E x \in T : \A y \in T : ~(y < x)
<1>1. IsWellFoundedOn(OpToRel(<, Nat), Nat)  BY NatLessThanWellFounded
<1>2. PICK x \in T : \A y \in T : <<y, x>> \notin OpToRel(<, Nat)
  BY <1>1, WFMin
<1>3. ASSUME NEW y \in T, y < x PROVE FALSE
  <2>1. x \in Nat /\ y \in Nat OBVIOUS
  <2>2. <<y, x>> \in OpToRel(<, Nat) BY <1>3, <2>1 DEF OpToRel
  <2> QED BY <1>2, <2>2
<1> QED BY <1>2, <1>3

(* Induction along a loop, with the cases that hold as a set: a set that   *)
(* holds 0 and, with each number below n, the next one holds 0 .. n.       *)
LEMMA CountUp ==
  ASSUME NEW n \in Nat, NEW S, 0 \in S,
         \A i \in 0 .. n - 1 : i \in S => i + 1 \in S
  PROVE 0 .. n \subseteq S
<1> DEFINE T == {i \in 0 .. n : i \notin S}
<1> SUFFICES ASSUME T # {} PROVE FALSE
  OBVIOUS
<1>1. T \subseteq Nat OBVIOUS
<1>2. PICK x \in T : \A y \in T : ~(y < x)
  <2> HIDE DEF T
  <2> QED BY <1>1, LeastElement
<1>3. x # 0 OBVIOUS
<1>4. x - 1 \in 0 .. n - 1 /\ x - 1 < x BY <1>3
<1>5. x - 1 \in S BY <1>4, <1>2
<1> QED BY <1>4, <1>5

---------------------------------------------------------------------------
(* Places in a rectangle, numbered line by line. *)

(* Line q, column r of lines w wide: its number determines both. *)
LEMMA DivMod ==
  ASSUME NEW w \in Nat, w > 0, NEW q \in Nat, NEW r \in 0 .. w - 1
  PROVE (q * w + r) \div w = q /\ (q * w + r) % w = r
OBVIOUS

(* ... and lies within a rectangle of h such lines. *)
LEMMA InRectangle ==
  ASSUME NEW w \in Nat, w > 0, NEW h \in Nat, NEW q \in 0 .. h - 1, NEW r \in 0 .. w - 1
  PROVE q * w + r \in 0 .. w * h - 1
OBVIOUS

(* Every number is a line and a column. *)
LEMMA Division ==
  ASSUME NEW w \in Nat, w > 0, NEW k \in Nat
  PROVE  k \div w \in Nat /\ k % w \in 0 .. w - 1 /\ k = (k \div w) * w + (k % w)
OBVIOUS

(* A place within the rectangle is on one of its lines. *)
LEMMA RowBelow ==
  ASSUME NEW w \in Nat, w > 0, NEW h \in Nat, NEW q \in Nat, NEW r \in 0 .. w - 1, q * w + r < w * h
  PROVE  q < h
OBVIOUS

(* The next place is the next column or, at the end of a line, the first    *)
(* of the next line; it leaves the rectangle only at the end of its last.   *)
LEMMA NextPlace ==
  ASSUME NEW w \in Nat, w > 0, NEW h \in Nat, NEW k \in Nat, k < w * h
  PROVE  /\ k \div w < h
         /\ k % w < w - 1 =>
              (k + 1) \div w = k \div w /\ (k + 1) % w = (k % w) + 1 /\ k + 1 # w * h
         /\ k % w = w - 1 =>
              (k + 1) \div w = (k \div w) + 1 /\ (k + 1) % w = 0
         /\ k % w = w - 1 => (k + 1 = w * h <=> (k \div w) + 1 = h)
<1> DEFINE q == k \div w
           r == k % w
<1>1. q \in Nat /\ r \in 0 .. w - 1 /\ k = q * w + r  BY Division
<1> HIDE DEF q, r
<1>2. q < h  BY <1>1, RowBelow
<1>3. ASSUME r < w - 1  PROVE (k + 1) \div w = q /\ (k + 1) % w = r + 1 /\ k + 1 # w * h
  <2>1. r + 1 \in 0 .. w - 1 /\ k + 1 = q * w + (r + 1)  BY <1>1, <1>3
  <2>2. q \in 0 .. h - 1  BY <1>1, <1>2
  <2>3. k + 1 \in 0 .. w * h - 1  BY <2>1, <2>2, InRectangle
  <2>4. w * h \in Nat  OBVIOUS
  <2> QED BY <1>1, <2>1, <2>3, <2>4, DivMod
<1>4. ASSUME r = w - 1
      PROVE  (k + 1) \div w = q + 1 /\ (k + 1) % w = 0 /\ ((k + 1 = w * h) <=> (q + 1 = h))
  <2>1. k + 1 = (q + 1) * w + 0 /\ 0 \in 0 .. w - 1 /\ q + 1 \in Nat  BY <1>1, <1>4
  <2>2. (k + 1) \div w = q + 1 /\ (k + 1) % w = 0  BY <2>1, DivMod
  <2>3. ((q + 1) * w = w * h) <=> (q + 1 = h)  BY <2>1
  <2> QED BY <2>1, <2>2, <2>3
<1> QED BY <1>2, <1>3, <1>4 DEF q, r

============================================================================
