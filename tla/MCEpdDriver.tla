---------------------------- MODULE MCEpdDriver ----------------------------
(* Instances of EpdDriver for model checking. *)
EXTENDS EpdDriver

OneHeapWord == {FB_OTHER}
SomePictures == {<<0>>, <<0, 255>>, <<255, 0>>}

(* A version 1 board that refreshes at once, a version 2 board line by line. *)
TwoBoards == {<<1, 1>>, <<2, 3>>}
===========================================================================
