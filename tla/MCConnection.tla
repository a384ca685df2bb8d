---------------------------- MODULE MCConnection ----------------------------
(***************************************************************************)
(* The streams between the server and its clients on small instances.      *)
(***************************************************************************)
EXTENDS Connection, TLC

\* A client that types every kind of command, often enough for two of them
\* to run together after a reply that was read in part; one with a single
\* command, whose reply comes in two pieces; and one that only connects and
\* may leave: with a third client the connection left over by two that come
\* together can be one that came by itself.
MCKinds == "c1" :> Kind @@ "c2" :> {"two"} @@ "c3" :> {}
MCMaxCommands == "c1" :> 3 @@ "c2" :> 1 @@ "c3" :> 0

\* One client that types every kind of command.
MCAllKinds == [c \in Client |-> Kind]
MCTwoCommands == [c \in Client |-> 2]
=============================================================================
