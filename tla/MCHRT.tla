------------------------------- MODULE MCHRT -------------------------------
(* The timer with a counter of 8 ticks, two callouts and a handler that    *)
(* may be two ticks late: one tick more and absolute time would slip.      *)
EXTENDS HRT

MCDelays == {0, 6}
MCPeriods == {2}
=============================================================================
