------------------------ MODULE MCCalibrationTracker ------------------------
(***************************************************************************)
(* Small instances of CalibrationTracker: two or three threads, one or two *)
(* forecasts.                                                              *)
(***************************************************************************)
EXTENDS CalibrationTrackerInductive, TLC

CONSTANTS w1, w2, w3, c1, c2

\* The threads are alike.
Threads == Permutations(Worker)
=============================================================================
