---------------------------- MODULE MCCommander ----------------------------
(* The commander with the shortest hysteresis and a gyro calibration       *)
(* that may be aborted.                                                    *)
EXTENDS Commander

MCCalibrations == {<<"gyro">>}
=============================================================================
