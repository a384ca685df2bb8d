-------------------------------- MODULE MCZSet ------------------------------
(***************************************************************************)
(* The instance of ZSetMachine that TLC checks.                            *)
(***************************************************************************)
EXTENDS ZSetMachine

\* Scores on both sides of -1, the reply for a missing member.
MCScore == {-1, 2}
=============================================================================
