---------------------------- MODULE MCRpcClient -----------------------------
(***************************************************************************)
(* Two calling threads on one connection.                                  *)
(***************************************************************************)
EXTENDS RpcClient, TLC
=============================================================================
