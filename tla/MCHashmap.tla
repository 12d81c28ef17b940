----------------------------- MODULE MCHashmap -----------------------------
(* Instances of Hashmap for model checking. *)
EXTENDS Hashmap, TLC

CONSTANTS k1, k2, k3, k4, k5

FiveKeys == {k1, k2, k3, k4, k5}

(* As in the chip, each key has an entry of its own; one has two. *)
OwnEntries == {<<k, k>> : k \in FiveKeys} \cup {<<k1, k2>>}

(* Two chains that run into each other around the end of the table; keys   *)
(* that collide in the small table only.                                   *)
SomeHashes == {[k \in FiveKeys |-> IF k \in {k1, k2} THEN 3 ELSE 0],
               [k \in FiveKeys |-> IF k = k1 THEN 7 ELSE IF k = k2 THEN 3 ELSE 2]}

(* Neither the hash functions nor the entries tell these apart. *)
Alike == Permutations({k3, k4, k5})
============================================================================
