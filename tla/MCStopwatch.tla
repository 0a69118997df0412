---------------------------- MODULE MCStopwatch ----------------------------
(* Stopwatch for TLC.                                                      *)
EXTENDS Stopwatch
=============================================================================
