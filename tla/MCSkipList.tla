----------------------------- MODULE MCSkipList -----------------------------
(***************************************************************************)
(* The instance of SkipList that TLC checks.                               *)
(***************************************************************************)
EXTENDS SkipList

\* operator new may return the free addresses in any order.
MCSymmetry == Permutations(Addr)
=============================================================================
