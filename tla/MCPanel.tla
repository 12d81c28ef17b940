------------------------------ MODULE MCPanel ------------------------------
(* Instances of Panel for model checking. *)
EXTENDS Panel

(* alloc_and_init_fb hands out a pointer to words it never wrote.  One     *)
(* value stands for all of them where no property looks at the black frame. *)
OneHeapWord == {FB_OTHER}
TwoHeapWords == {FB_BLACK, FB_OTHER}
=============================================================================
