---------------------------- MODULE MCResetLine ----------------------------
(* Instance of ResetLine for model checking: a pulse of four steps, and    *)
(* spans of time told apart up to twice that.                              *)
EXTENDS ResetLine
============================================================================
