---------------------------- MODULE MCThreadPool ----------------------------
(***************************************************************************)
(* A pool of two workers and three tasks.                                  *)
(***************************************************************************)
EXTENDS ThreadPool, TLC
=============================================================================
