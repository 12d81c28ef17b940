---------------------------- MODULE MCRamWindow ----------------------------
(* Instances of RamWindow for model checking. *)
EXTENDS RamWindow

(* Payloads that show where each byte goes, up to one byte more than a     *)
(* panel of six: zeros with a one at one place, or at none.                *)
OneHot == UNION {{[i \in 1 .. n |-> IF i = p THEN 1 ELSE 0] : p \in 0 .. n} : n \in 1 .. 7}
============================================================================
