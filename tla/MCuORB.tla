------------------------------ MODULE MCuORB ------------------------------
(* A topic with two subscribers, one that may limit its rate and one that  *)
(* comes and goes, for model checking.                                     *)
EXTENDS uORB
=============================================================================
