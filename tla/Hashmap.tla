------------------------------ MODULE Hashmap ------------------------------
(***************************************************************************)
(* The hash map the chip keeps its command table in (hashmap.c): open      *)
(* addressing with linear probing, tables of a power of two that grow with *)
(* the load, removal that closes the gap in the chain, and iteration.      *)
(*                                                                         *)
(* hb is struct hashmap_base; an empty slot of its table is NULL.  The map *)
(* keeps copies of the keys (hashmap_set_key_alloc_funcs).  Any allocation *)
(* may fail.                                                               *)
(***************************************************************************)
EXTENDS Integers, Sequences, FiniteSets

CONSTANTS
  Keys, Data, NULL,
  Pairs,                 \* the entries a user puts; the chip puts one for each key
  Hashes,                \* the hash functions considered, each from Keys to Nat
  HASHMAP_SIZE_MIN,
  HASHMAP_SIZE_DEFAULT,
  Capacities,            \* what hashmap_reserve is called with
  AllocFails             \* memory may run out

(* 1 << i *)
PowerOfTwo(i) ==
  LET shifted[j \in 0 .. i] == IF j = 0 THEN 1 ELSE 2 * shifted[j - 1]
  IN  shifted[i]

Entry(k, d) == [key |-> k, data |-> d]
Entries == [key: Keys, data: Data]
Errors == {"ok", "ENOMEM", "EEXIST", "EADDRNOTAVAIL"}

(* NULL and the error codes are values of their own. *)
ASSUME HashmapAssumption ==
  /\ NULL \notin Nat /\ NULL \notin Keys \cup Data /\ NULL \notin Entries
  /\ Errors \cap (Data \cup {NULL}) = {}
  /\ Pairs \subseteq Keys \X Data
  /\ \A h \in Hashes : h \in [Keys -> Nat]
  /\ \E i, j \in 2 .. 16 : /\ i <= j
                           /\ HASHMAP_SIZE_MIN = PowerOfTwo(i)
                           /\ HASHMAP_SIZE_DEFAULT = PowerOfTwo(j)
  /\ Capacities \subseteq Nat /\ AllocFails \in BOOLEAN

VARIABLES
  hb,
  hash,      \* hb->hash, after the second hash of hashmap_calc_index
  ret,       \* what the last put, get, remove or reserve returned
  iter,      \* the slot an iterator stands at, NULL at its end or if none is in use
  visited,   \* the keys that iterator has stood at, in order
  reserved,  \* the capacity of the last reserve that succeeded
  copies     \* how many copies of each key are allocated

vars == <<hb, hash, ret, iter, visited, reserved, copies>>

Slots(n) == 0 .. n - 1
Occupied(h) == {i \in Slots(h.table_size) : h.table[i] # NULL}
EmptyTable(n) == [i \in Slots(n) |-> NULL]

-----------------------------------------------------------------------------
(* Internals *)

NextPowerOfTwo(n) ==
  PowerOfTwo(CHOOSE i \in 0 .. n :
               PowerOfTwo(i) >= n /\ \A j \in 0 .. i - 1 : PowerOfTwo(j) < n)

hashmap_calc_table_size_noHeadroom(h, size) ==          \* mutant
  IF size < h.table_size_init THEN h.table_size_init ELSE NextPowerOfTwo(size)

hashmap_calc_table_size(h, size) ==
  LET wanted == size + size \div 3
  IN  IF wanted < h.table_size_init THEN h.table_size_init ELSE NextPowerOfTwo(wanted)

hashmap_calc_index(h, k) == hash[k] % h.table_size

(* The slots probed for a key, in order. *)
Probe(h, k, i) == (hashmap_calc_index(h, k) + i) % h.table_size

(* The first slot probed that holds the key or nothing; NULL if neither is *)
(* found in the whole table.                                               *)
Search(h, k) ==
  LET stops == {i \in Slots(h.table_size) :
                  LET e == h.table[Probe(h, k, i)] IN e = NULL \/ e.key = k}
  IN  IF stops = {} THEN NULL ELSE Probe(h, k, CHOOSE i \in stops : \A j \in stops : i <= j)

hashmap_entry_find(h, k, find_empty) ==
  LET s == Search(h, k)
  IN  IF s # NULL /\ h.table[s] = NULL /\ ~find_empty THEN NULL ELSE s

hashmap_entry_remove_keepsChain(h, slot) ==             \* mutant: the gap left open
  [h EXCEPT !.size = @ - 1, !.table[slot] = NULL]

hashmap_entry_remove_noSize(h, slot) == [h EXCEPT !.table[slot] = NULL]     \* mutant

(* One pass of the walk along the chain behind the removed slot: an entry  *)
(* that a search would no longer reach moves into the gap, and the gap     *)
(* moves with it.                                                          *)
CloseGap(h, slot, w, i) ==
  LET n == h.table_size
      index == (slot + i) % n
      e == w.table[index]
  IN  IF w.done \/ e = NULL THEN [w EXCEPT !.done = TRUE]
      ELSE IF (index - hash[e.key]) % n > (w.gap - hash[e.key]) % n
           THEN [w EXCEPT !.table[w.gap] = e, !.gap = index]
           ELSE w

Walk(h, slot) ==
  LET walked[i \in 0 .. h.size - 1] ==
        IF i = 0 THEN [table |-> h.table, gap |-> slot, done |-> FALSE]
                 ELSE CloseGap(h, slot, walked[i - 1], i)
  IN  walked

hashmap_entry_remove(h, slot) ==
  LET last == Walk(h, slot)[h.size - 1]
  IN  [h EXCEPT !.size = @ - 1, !.table = [last.table EXCEPT ![last.gap] = NULL]]

(* An old entry goes to the slot found for it in the new table. *)
CopyEntry(m, e) ==
  IF e = NULL THEN m ELSE [m EXCEPT !.table[hashmap_entry_find(m, e.key, TRUE)] = e]

Copies(h, table_size) ==
  LET copied[i \in 0 .. h.table_size] ==
        IF i = 0 THEN [h EXCEPT !.table_size = table_size, !.table = EmptyTable(table_size)]
                 ELSE CopyEntry(copied[i - 1], h.table[i - 1])
  IN  copied

hashmap_rehash(h, table_size) == Copies(h, table_size)[h.table_size]

(* The first populated slot from a position on. *)
hashmap_entry_get_populated(h, from) ==
  LET later == {i \in Occupied(h) : i >= from}
  IN  IF h.size = 0 \/ later = {} THEN NULL
      ELSE CHOOSE i \in later : \A j \in later : i <= j

(* The copies left when those in the given slots are freed. *)
Free(h, slots) ==
  [k \in Keys |-> copies[k] - Cardinality({i \in slots : h.table[i] # NULL /\ h.table[i].key = k})]

hashmap_free_keys_size(h) == Free(h, Slots(h.size))     \* mutant: size for table_size

hashmap_free_keys(h) == IF h.size = 0 THEN copies ELSE Free(h, Slots(h.table_size))

-----------------------------------------------------------------------------
(* Calls *)

hashmap_base_init ==
  [table_size_init |-> HASHMAP_SIZE_DEFAULT, table_size |-> 0, size |-> 0,
   table |-> EmptyTable(0)]

Init ==
  /\ hb = hashmap_base_init
  /\ copies = [k \in Keys |-> 0]
  /\ hash \in Hashes
  /\ ret = "ok" /\ iter = NULL /\ visited = << >> /\ reserved = 0

(* A call that invalidates iterators. *)
NoIterator == iter' = NULL /\ visited' = << >>

Allocated == IF AllocFails THEN BOOLEAN ELSE {TRUE}

(* Of a key and data that are not null, which a put refuses at once. *)
Put(k, d) ==
  \E allocated, duplicated \in Allocated :
    LET size == hashmap_calc_table_size(hb, hb.size)
        grows == size > hb.table_size
        h == IF grows /\ allocated THEN hashmap_rehash(hb, size) ELSE hb
        slot == hashmap_entry_find(h, k, TRUE)
    IN  /\ \/ /\ slot = NULL
              /\ hb' = h
              /\ ret' = IF grows /\ ~allocated THEN "ENOMEM" ELSE "EADDRNOTAVAIL"
           \/ /\ slot # NULL /\ h.table[slot] # NULL
              /\ hb' = h
              /\ ret' = "EEXIST"
           \/ /\ slot # NULL /\ h.table[slot] = NULL /\ ~duplicated
              /\ hb' = h
              /\ ret' = "ENOMEM"
           \/ /\ slot # NULL /\ h.table[slot] = NULL /\ duplicated
              /\ hb' = [h EXCEPT !.table[slot] = Entry(k, d), !.size = @ + 1]
              /\ ret' = "ok"
        /\ copies' = IF ret' = "ok" THEN [copies EXCEPT ![k] = @ + 1] ELSE copies
        /\ NoIterator
        /\ UNCHANGED <<hash, reserved>>

Get(k) ==
  LET slot == hashmap_entry_find(hb, k, FALSE)
  IN  /\ ret' = IF slot = NULL THEN NULL ELSE hb.table[slot].data
      /\ UNCHANGED <<hb, hash, iter, visited, reserved, copies>>

Remove(k) ==
  LET slot == hashmap_entry_find(hb, k, FALSE)
  IN  /\ ret' = IF slot = NULL THEN NULL ELSE hb.table[slot].data
      /\ IF slot = NULL THEN UNCHANGED <<hb, copies>>
                        ELSE /\ hb' = hashmap_entry_remove(hb, slot)
                             /\ copies' = Free(hb, {slot})
      /\ NoIterator
      /\ UNCHANGED <<hash, reserved>>

Clear ==
  /\ hb' = [hb EXCEPT !.size = 0, !.table = EmptyTable(hb.table_size)]
  /\ copies' = hashmap_free_keys(hb)
  /\ NoIterator
  /\ UNCHANGED <<hash, ret, reserved>>

(* hashmap_cleanup; only hashmap_init may follow. *)
Cleanup ==
  /\ hb' = hashmap_base_init
  /\ copies' = hashmap_free_keys(hb)
  /\ NoIterator
  /\ reserved' = 0
  /\ UNCHANGED <<hash, ret>>

ResetSize_default(h) == HASHMAP_SIZE_DEFAULT           \* mutant

ResetSize(h) == h.table_size_init

(* hashmap_base_reset: back to the initial size, if memory can be had. *)
Reset ==
  /\ \E allocated \in Allocated :
       LET size == IF allocated THEN ResetSize(hb) ELSE hb.table_size
       IN  hb' = [hb EXCEPT !.size = 0, !.table_size = size, !.table = EmptyTable(size)]
  /\ copies' = hashmap_free_keys(hb)
  /\ NoIterator
  /\ UNCHANGED <<hash, ret, reserved>>

ReserveSize(capacity) ==
  hashmap_calc_table_size([hb EXCEPT !.table_size_init = HASHMAP_SIZE_MIN], capacity)

Reserve(capacity) ==
  /\ \E allocated \in Allocated :
       LET size == ReserveSize(capacity)
       IN  \/ /\ size <= hb.table_size
              /\ hb' = [hb EXCEPT !.table_size_init = size]
              /\ ret' = "ok" /\ reserved' = capacity
           \/ /\ size > hb.table_size /\ allocated
              /\ hb' = hashmap_rehash([hb EXCEPT !.table_size_init = size], size)
              /\ ret' = "ok" /\ reserved' = capacity
           \/ /\ size > hb.table_size /\ ~allocated
              /\ ret' = "ENOMEM"
              /\ UNCHANGED <<hb, reserved>>
  /\ NoIterator
  /\ UNCHANGED <<hash, copies>>

(* The iterator stands at slot i of table h, or at the end. *)
StandAt(h, i) ==
  /\ iter' = i
  /\ visited' = IF i = NULL THEN visited ELSE Append(visited, h.table[i].key)

IterStart ==
  /\ iter = NULL /\ visited = << >>
  /\ StandAt(hb, hashmap_entry_get_populated(hb, 0))
  /\ UNCHANGED <<hb, hash, ret, reserved, copies>>

IterNext ==
  /\ iter # NULL
  /\ StandAt(hb, hashmap_entry_get_populated(hb, iter + 1))
  /\ UNCHANGED <<hb, hash, ret, reserved, copies>>

AfterRemoval_next(h) == hashmap_entry_get_populated(h, iter + 1)        \* mutant

(* Whatever now stands in the slot comes next. *)
AfterRemoval(h) == hashmap_entry_get_populated(h, iter)

IterRemove ==
  /\ iter # NULL
  /\ hb' = hashmap_entry_remove(hb, iter)
  /\ StandAt(hb', AfterRemoval(hb'))
  /\ copies' = Free(hb, {iter})
  /\ UNCHANGED <<hash, ret, reserved>>

IterSetData(d) ==
  /\ iter # NULL
  /\ <<hb.table[iter].key, d>> \in Pairs
  /\ hb' = [hb EXCEPT !.table[iter].data = d]
  /\ UNCHANGED <<hash, ret, iter, visited, reserved, copies>>

(* The iterator is given up. *)
IterEnd == visited # << >> /\ NoIterator /\ UNCHANGED <<hb, hash, ret, reserved, copies>>

Next ==
  \/ \E p \in Pairs : Put(p[1], p[2])
  \/ \E k \in Keys : Get(k) \/ Remove(k)
  \/ Clear \/ Reset \/ Cleanup
  \/ \E c \in Capacities : Reserve(c)
  \/ IterStart \/ IterNext \/ IterRemove \/ IterEnd
  \/ \E d \in Data : IterSetData(d)

Spec == Init /\ [][Next]_vars

-----------------------------------------------------------------------------
(* Properties *)

(* size counts the occupied slots of a table of a power of two (or of none *)
(* at all before the first put), no key is in the table twice, and an      *)
(* iterator stands at an occupied slot.                                    *)
TypeOK ==
  /\ hb.table_size = 0 \/ hb.table_size >= HASHMAP_SIZE_MIN
  /\ hb.table_size # 0 => hb.table_size = NextPowerOfTwo(hb.table_size)
  /\ hb.table_size_init = NextPowerOfTwo(hb.table_size_init)
  /\ hb.table \in [Slots(hb.table_size) -> {NULL} \cup Entries]
  /\ hb.size = Cardinality(Occupied(hb))
  /\ \A i, j \in Occupied(hb) : hb.table[i].key = hb.table[j].key => i = j
  /\ iter \in {NULL} \cup Occupied(hb)

(* "Cannot find an empty slot" is never the answer to a put unless memory  *)
(* has run out: the table grows before it is full.                         *)
NeverStuck == ret # "EADDRNOTAVAIL"

(* The map grows, closes gaps and rehashes without losing, doubling or     *)
(* mixing up an entry: the user sees a dictionary.                         *)
Dict == INSTANCE Dictionary
          WITH map <- [k \in {hb.table[i].key : i \in Occupied(hb)} |->
                         hb.table[CHOOSE i \in Occupied(hb) : hb.table[i].key = k].data]

ImplementsDictionary == Dict!Spec

(* An iteration that runs to its end, whatever it removed on the way, has  *)
(* stood at every key that is left.                                        *)
NoneSkipped ==
  iter = NULL /\ visited # << >>
  => \A i \in Occupied(hb) : \E v \in 1 .. Len(visited) : visited[v] = hb.table[i].key

(* Each copy of a key that the map allocates is the key of one entry, until *)
(* it is freed: none is lost, or freed twice, by growth, by the moves that *)
(* close a gap, by a failed put or by a clear of the whole map.            *)
KeysOwned ==
  \A k \in Keys :
    copies[k] = Cardinality({i \in Occupied(hb) : hb.table[i].key = k})

(* hashmap_reserve: "no rehashes are required to fit the specified number  *)
(* of entries", however many calls and resets lie between.                 *)
ReserveHolds ==
  [][hb.size < reserved /\ reserved' = reserved /\ hb'.size > 0
     => hb'.table_size <= hb.table_size]_vars

-----------------------------------------------------------------------------
(* What the comments say and the code does not do. *)

(* "hashmap_iter_remove() allows safe removal during iteration", and       *)
(* advances "to the next entry": an iteration comes to no entry twice.     *)
VisitedOnce ==
  \A i, j \in 1 .. Len(visited) : visited[i] = visited[j] => i = j
=============================================================================
