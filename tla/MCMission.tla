----------------------------- MODULE MCMission -----------------------------
(* Ground stations whose messages carry numbers beyond the list's two places. *)
EXTENDS Mission
=============================================================================
