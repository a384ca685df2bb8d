---------------------------- MODULE MCStressTest ----------------------------
(***************************************************************************)
(* Three threads with no round, with one, and with two and one left over.  *)
(***************************************************************************)
EXTENDS StressTest, TLC

MCScore == 0..6
=============================================================================
