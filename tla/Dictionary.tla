----------------------------- MODULE Dictionary -----------------------------
(* What a hash map promises its user: a finite map from keys to data, and  *)
(* the answer of the last call.                                            *)
CONSTANTS Keys, Data, NULL

VARIABLES
  map,    \* the entries
  ret     \* what the last put, get or remove returned

With(k, d) == [j \in DOMAIN map \cup {k} |-> IF j = k THEN d ELSE map[j]]

Without(k) == [j \in DOMAIN map \ {k} |-> map[j]]

Lookup(k) == IF k \in DOMAIN map THEN map[k] ELSE NULL

Init == map = << >> /\ ret = "ok"

(* Existing data is not overwritten; a put may fail for want of memory.    *)
Put(k, d) ==
  \/ k \in DOMAIN map /\ ret' = "EEXIST" /\ UNCHANGED map
  \/ k \notin DOMAIN map /\ ret' = "ok" /\ map' = With(k, d)
  \/ k \notin DOMAIN map /\ ret' = "ENOMEM" /\ UNCHANGED map

Get(k) == ret' = Lookup(k) /\ UNCHANGED map

Remove(k) == ret' = Lookup(k) /\ map' = Without(k)

(* Through an iterator. *)
RemoveCurrent(k) == map' = Without(k) /\ UNCHANGED ret

SetCurrent(k, d) == k \in DOMAIN map /\ map' = [map EXCEPT ![k] = d] /\ UNCHANGED ret

Clear == map' = << >> /\ UNCHANGED ret

Reserve(r) == ret' = r /\ UNCHANGED map

Next ==
  \/ \E k \in Keys, d \in Data : Put(k, d) \/ SetCurrent(k, d)
  \/ \E k \in Keys : Get(k) \/ Remove(k) \/ RemoveCurrent(k)
  \/ Clear
  \/ \E r \in {"ok", "ENOMEM"} : Reserve(r)

Spec == Init /\ [][Next]_<<map, ret>>
=============================================================================
