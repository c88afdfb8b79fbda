------------------------------ MODULE MCPX4IO ------------------------------
(* The IO board, its driver and a link of one frame each way, with small   *)
(* limits, for model checking.                                             *)
EXTENDS PX4IO
=============================================================================
