------------------------------- MODULE MCPPM -------------------------------
(* A decoder of at most three channels, for model checking. *)
EXTENDS PPM
============================================================================
