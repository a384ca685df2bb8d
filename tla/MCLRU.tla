-------------------------------- MODULE MCLRU -------------------------------
(***************************************************************************)
(* The instance of LRUMachine that TLC checks.                             *)
(***************************************************************************)
EXTENDS LRUMachine

\* A rejected capacity, no bound, and two bounds below the number of keys.
MCCapacities == {-1, 0, 1, 2}
=============================================================================
