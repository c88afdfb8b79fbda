------------------------------ MODULE MCParams ------------------------------
(* Two or three parameters, one or two tasks, and an array that is moved    *)
(* when the last value is set.                                              *)
EXTENDS Params
=============================================================================
