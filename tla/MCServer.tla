------------------------------ MODULE MCServer ------------------------------
(***************************************************************************)
(* The server on small instances: the command lines of each run.           *)
(***************************************************************************)
EXTENDS Server

Line(cmd, k, m, n, argc) ==
  [cmd |-> cmd, key |-> k, member |-> m, num |-> n, argc |-> argc]

AnyName == CHOOSE k \in Name : TRUE
AnyMember == CHOOSE m \in Member : TRUE

\* Every command on one name, well-formed and not.
AllCommands ==
  {Line("ZADD", k, m, s, 3) : k \in Name, m \in Member, s \in Score}
  \cup {Line(cmd, k, m, 0, 2) : cmd \in {"ZREM", "ZSCORE"}, k \in Name, m \in Member}
  \cup {Line(cmd, k, AnyMember, 0, 1) :
          cmd \in {"ZADD", "ZREM", "ZCARD", "ZDIS", "OTHER", "EXPIRE", "CONFIG"},
          k \in Name}
  \cup {Line("CONFIG SET maxmemory", AnyName, AnyMember, n, 3) : n \in {-1, 0, 1}}
  \cup {Line(cmd, AnyName, AnyMember, 0, 3) : cmd \in {"CONFIG", "CONFIG SET"}}
  \cup {Line("ZADD", AnyName, AnyMember, NaN, 3),
        Line("ZCARD", AnyName, AnyMember, 0, 0),
        Line("EXPIRE", AnyName, AnyMember, 1, 2),
        Line("SAVE", AnyName, AnyMember, 0, 0),
        Line("EXIT", AnyName, AnyMember, 0, 0)}

\* What changes the state that the answers to those commands depend on: the
\* sets, their capacity, their timers, and whether the loop goes on.
StateCommands ==
  {Line("ZADD", AnyName, AnyMember, s, 3) : s \in Score}
  \cup {Line("CONFIG SET maxmemory", AnyName, AnyMember, 1, 3),
        Line("EXPIRE", AnyName, AnyMember, 1, 2),
        Line("EXIT", AnyName, AnyMember, 0, 0)}

\* One client sends every command, the others get in its way.
AnyClient == CHOOSE c \in Client : TRUE

MCCommandLines ==
  [c \in Client |-> IF c = AnyClient THEN AllCommands ELSE StateCommands]

\* What creates and expires sets.  A long timer of one name can stand before
\* a short one of the other.
LongLived == CHOOSE k \in Name : k # AnyName

MCExpiryLines ==
  [c \in Client |->
    {Line("ZADD", AnyName, AnyMember, s, 3) : s \in Score}
    \cup {Line("EXPIRE", AnyName, AnyMember, 1, 2),
          Line("EXPIRE", LongLived, AnyMember, 2, 2)}]
=============================================================================
