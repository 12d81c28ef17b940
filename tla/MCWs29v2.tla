----------------------------- MODULE MCWs29v2 -----------------------------
(* An instance of the whole chip for model checking. *)
EXTENDS Ws29v2

OneHeapWord == {FB_OTHER}

(* Boards that refresh at once and line by line. *)
TwoBoards == {<<2, 1>>, <<2, 3>>}
===========================================================================
