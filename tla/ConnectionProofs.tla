-------------------------- MODULE ConnectionProofs --------------------------
(***************************************************************************)
(* Proofs about Connection for any clients and number of commands: which   *)
(* connections one accept per edge is sure to take from the queue, and the *)
(* alternation of commands and replies that stands in for a delimiter.     *)
(***************************************************************************)
EXTENDS Connection, TLAPS

LEMMA AppendFacts ==
  ASSUME NEW S, NEW q \in Seq(S), NEW x \in S
  PROVE  /\ Append(q, x) \in Seq(S)
         /\ DOMAIN Append(q, x) = DOMAIN q \cup {Len(q) + 1}
         /\ \A i \in DOMAIN q : Append(q, x)[i] = q[i]
         /\ Append(q, x)[Len(q) + 1] = x
         /\ Len(q) + 1 \notin DOMAIN q
         /\ Len(Append(q, x)) = Len(q) + 1
         /\ Len(q) \in Nat
OBVIOUS

LEMMA TailFacts ==
  ASSUME NEW S, NEW q \in Seq(S), q # << >>
  PROVE  /\ Head(q) \in S
         /\ Tail(q) \in Seq(S)
         /\ DOMAIN Tail(q) = 1..Len(q) - 1
         /\ \A i \in 1..Len(q) - 1 : Tail(q)[i] = q[i + 1] /\ i + 1 \in DOMAIN q
         /\ Len(Tail(q)) = Len(q) - 1
         /\ Len(q) \in Nat
OBVIOUS

LEMMA SubSeqFacts ==
  ASSUME NEW S, NEW q \in Seq(S), NEW n \in 1..Len(q)
  PROVE  /\ SubSeq(q, n + 1, Len(q)) \in Seq(S)
         /\ n = Len(q) => SubSeq(q, n + 1, Len(q)) = << >>
         /\ n \in DOMAIN q /\ q # << >>
OBVIOUS

\* What Write does to the types.
LEMMA WriteType ==
  ASSUME TypeOK, NEW c \in Client, NEW p \in Pieces, NEW next, Write(c, p, next)
  PROVE  /\ bytes' \in [Client -> Seq(Pieces)]
         /\ \A d \in Client : d # c => bytes'[d] = bytes[d]
         /\ client[c] = "gone" => bytes' = bytes
         /\ client[c] # "gone" => bytes'[c] = Append(bytes[c], p)
         /\ ready \subseteq ready' /\ ready' \subseteq ready \cup {c}
         /\ reset' \subseteq Client
         /\ loop' \in {next, "stopped"}
<1>1. CASE client[c] # "gone"
  <2>1. /\ bytes' = [bytes EXCEPT ![c] = Append(@, p)]
        /\ loop' = next /\ ready' = ready /\ reset' = reset
    BY <1>1 DEF Write
  <2>2. Append(bytes[c], p) \in Seq(Pieces)
    BY AppendFacts DEF TypeOK
  <2> QED
    BY <1>1, <2>1, <2>2 DEF TypeOK
<1>2. CASE client[c] = "gone"
  <2>1. /\ bytes' = bytes
        /\ loop' = (IF c \in reset THEN "stopped" ELSE next)
        /\ ready' = ready \cup {c} /\ reset' = reset \cup {c}
    BY <1>2 DEF Write
  <2> QED
    BY <1>2, <2>1 DEF TypeOK
<1> QED
  BY <1>1, <1>2

-----------------------------------------------------------------------------
LEMMA TypeInit ==
  ASSUME Init
  PROVE  TypeOK
<1>1. /\ sent \in [Client -> Seq(Kind)]
      /\ bytes \in [Client -> Seq(Pieces)]
      /\ backlog \in Seq(Client)
  BY DEF Init
<1>2. typed \in [Client -> Nat] /\ \A c \in Client : typed[c] <= MaxCommands[c]
  BY MaxCommandsAssumption DEF Init
<1>3. /\ client \in [Client -> {"new", "prompt", "reading", "gone"}]
      /\ {ready, events} \subseteq SUBSET (Client \cup {ListenFd})
      /\ {split, met, accepted, silent, reset} \subseteq SUBSET Client
      /\ loop \in {"wait", "batch", "newline", "stopped"}
      /\ writing \in Client \cup {None}
      /\ loop = "newline" => writing # None
  BY DEF Init
<1> QED
  BY <1>1, <1>2, <1>3 DEF TypeOK

\* What Answer does to the types.
LEMMA AnswerType ==
  ASSUME TypeOK, loop = "batch", NEW c \in Client, NEW k \in Kind, Answer(c, k)
  PROVE  /\ bytes' \in [Client -> Seq(Pieces)]
         /\ ready \subseteq ready' /\ ready' \subseteq ready \cup {c}
         /\ reset' \subseteq Client /\ silent' \subseteq Client
         /\ loop' \in {"batch", "newline", "stopped"}
         /\ writing' \in {writing, c}
         /\ loop' = "newline" => writing' = c
<1>1. CASE k = "one"
  <2>1. Write(c, "end", "batch") /\ writing' = writing /\ silent' = silent \ {c}
    BY <1>1 DEF Answer
  <2> QED
    BY <2>1, WriteType DEF TypeOK, Pieces
<1>2. CASE k = "two"
  <2>1. Write(c, "number", "newline") /\ writing' = c /\ silent' = silent \ {c}
    BY <1>2 DEF Answer
  <2> QED
    BY <2>1, WriteType DEF TypeOK, Pieces
<1>3. CASE k = "silent" \/ k = "fatal"
  BY <1>3 DEF Answer, TypeOK
<1> QED
  BY <1>1, <1>2, <1>3 DEF Kind

LEMMA LineKindsType ==
  ASSUME NEW s \in Seq(Kind), s # << >>
  PROVE  LineKinds(s) \subseteq Kind
BY DEF LineKinds

LEMMA TypeStep ==
  ASSUME TypeOK, [Next]_vars
  PROVE  TypeOK'
<1> USE DEF clients, streams, server
<1>1. CASE EpollWait
  BY <1>1 DEF EpollWait, TypeOK
<1>2. CASE Accept
  <2>1. Head(backlog) \in Client /\ backlog' \in Seq(Client)
    BY <1>2, TailFacts DEF Accept, TypeOK
  <2> QED
    BY <1>2, <2>1 DEF Accept, TypeOK
<1>3. CASE WriteNewline
  <2>1. writing \in Client
    BY <1>3 DEF WriteNewline, TypeOK
  <2>2. Write(writing, "end", "batch") /\ writing' = None
    BY <1>3 DEF WriteNewline
  <2>3. /\ bytes' \in [Client -> Seq(Pieces)]
        /\ ready' \subseteq Client \cup {ListenFd}
        /\ reset' \subseteq Client
        /\ loop' \in {"batch", "stopped"}
    BY <2>1, <2>2, WriteType DEF TypeOK, Pieces
  <2> QED
    BY <1>3, <2>2, <2>3 DEF WriteNewline, TypeOK
<1>4. CASE EndOfRound
  BY <1>4 DEF EndOfRound, TypeOK
<1>5. ASSUME NEW c \in Client, Recv(c) PROVE TypeOK'
  <2>1. loop = "batch" /\ sent[c] # << >> /\ sent[c] \in Seq(Kind)
    BY <1>5 DEF Recv, Handling, TypeOK
  <2>2. PICK k \in LineKinds(sent[c]) : Answer(c, k)
    BY <1>5 DEF Recv
  <2>3. k \in Kind
    BY <2>1, LineKindsType
  <2>4. /\ bytes' \in [Client -> Seq(Pieces)]
        /\ ready \subseteq ready' /\ ready' \subseteq ready \cup {c}
        /\ reset' \subseteq Client /\ silent' \subseteq Client
        /\ loop' \in {"batch", "newline", "stopped"}
        /\ writing' \in {writing, c}
        /\ loop' = "newline" => writing' = c
    BY <2>1, <2>2, <2>3, AnswerType
  <2>5. sent' \in [Client -> Seq(Kind)]
    BY <1>5 DEF Recv, TypeOK
  <2> QED
    BY <1>5, <2>4, <2>5, NoneAssumption DEF Recv, Handling, TypeOK
<1>6. ASSUME NEW c \in Client, RecvNothing(c) PROVE TypeOK'
  BY <1>6 DEF RecvNothing, Handling, TypeOK
<1>7. ASSUME NEW c \in Client, Connect(c) PROVE TypeOK'
  <2>1. backlog' \in Seq(Client) /\ met' \subseteq Client
    BY <1>7, AppendFacts DEF Connect, TypeOK
  <2> QED
    BY <1>7, <2>1 DEF Connect, TypeOK
<1>8. ASSUME NEW c \in Client, Leave(c) PROVE TypeOK'
  <2>1. bytes' \in [Client -> Seq(Pieces)]
    BY <1>8 DEF Leave, TypeOK
  <2> QED
    BY <1>8, <2>1 DEF Leave, Edge, TypeOK
<1>9. ASSUME NEW c \in Client, SeeEnd(c) PROVE TypeOK'
  BY <1>9 DEF SeeEnd, TypeOK
<1>10. ASSUME NEW c \in Client, NEW k \in Kind, Type(c, k) PROVE TypeOK'
  <2>1. sent' \in [Client -> Seq(Kind)]
    <3>1. Append(sent[c], k) \in Seq(Kind)
      BY AppendFacts DEF TypeOK
    <3> QED
      BY <1>10, <3>1 DEF Type, TypeOK
  <2>2. typed' \in [Client -> Nat] /\ \A d \in Client : typed'[d] <= MaxCommands[d]
    <3>1. /\ typed' = [typed EXCEPT ![c] = typed[c] + 1]
          /\ typed \in [Client -> Nat] /\ typed[c] < MaxCommands[c]
          /\ MaxCommands[c] \in Nat /\ \A d \in Client : typed[d] <= MaxCommands[d]
      BY <1>10, MaxCommandsAssumption DEF Type, TypeOK
    <3> QED
      BY <3>1
  <2> QED
    BY <1>10, <2>1, <2>2 DEF Type, Edge, TypeOK
<1>11. ASSUME NEW c \in Client, NEW n \in 1..Len(bytes[c]), Read(c, n) PROVE TypeOK'
  <2>1. bytes' \in [Client -> Seq(Pieces)]
    <3>1. SubSeq(bytes[c], n + 1, Len(bytes[c])) \in Seq(Pieces)
      BY SubSeqFacts DEF TypeOK
    <3> QED
      BY <1>11, <3>1 DEF Read, TypeOK
  <2> QED
    BY <1>11, <2>1 DEF Read, TypeOK
<1>12. CASE UNCHANGED vars
  BY <1>12 DEF vars, TypeOK
<1> QED
  BY <1>1, <1>2, <1>3, <1>4, <1>5, <1>6, <1>7, <1>8, <1>9, <1>10, <1>11, <1>12
  DEF Next, Loop

\* The state of clients, kernel and server keeps its types; in particular the
\* second write (server.cpp line 317) has a descriptor to go to.
THEOREM TypeCorrect == Spec => []TypeOK
<1>1. Init => TypeOK
  BY TypeInit
<1>2. TypeOK /\ [Next]_vars => TypeOK'
  BY TypeStep
<1> QED
  BY <1>1, <1>2, PTL DEF Spec

-----------------------------------------------------------------------------
\* While the loop waits, no event of an earlier batch is left.
BatchDone == loop = "wait" => events = {}

\* Edges depends on whether the listening socket is in ready and in events.
LEMMA EdgesStep ==
  ASSUME (ListenFd \in ready) <=> (ListenFd \in ready'),
         (ListenFd \in events) <=> (ListenFd \in events')
  PROVE  Edges' = Edges
BY DEF Edges

LEMMA QueueStep ==
  ASSUME TypeOK, BatchDone, AloneIsAccepted, [Next]_vars
  PROVE  BatchDone' /\ AloneIsAccepted'
<1> USE DEF clients, streams, server
<1>0. /\ Len(backlog) \in Nat /\ Edges \in 0..2
      /\ \A c \in Client : c # ListenFd
  BY ListenAssumption DEF TypeOK, ListenFd, Edges
<1>1. CASE EpollWait
  <2>1. events = {} /\ events' = ready /\ ready' = {} /\ loop' = "batch"
    BY <1>1 DEF EpollWait, BatchDone
  <2>2. Edges' = Edges
    BY <2>1 DEF Edges
  <2> QED
    BY <1>1, <2>1, <2>2 DEF EpollWait, BatchDone, AloneIsAccepted
<1>2. CASE Accept
  <2>1. /\ Head(backlog) \in Client /\ Len(backlog') = Len(backlog) - 1
        /\ DOMAIN backlog' = 1..Len(backlog) - 1
        /\ \A i \in DOMAIN backlog' : backlog'[i] = backlog[i + 1] /\ i + 1 \in DOMAIN backlog
    BY <1>2, TailFacts DEF Accept, TypeOK
  <2>2. /\ (ListenFd \in ready) <=> (ListenFd \in ready')
        /\ ListenFd \in events /\ ListenFd \notin events'
    BY <1>2, <2>1, <1>0 DEF Accept
  <2>3. Edges' = Edges - 1
    BY <2>2 DEF Edges
  <2>4. \A i \in DOMAIN backlog' : backlog'[i] \in met
    <3> SUFFICES ASSUME NEW i \in DOMAIN backlog', backlog'[i] \notin met PROVE FALSE
      OBVIOUS
    <3>1. i + 1 \in DOMAIN backlog /\ backlog[i + 1] \notin met /\ i \in 1..Len(backlog) - 1
      BY <2>1
    <3>2. i + 1 = 1
      BY <3>1 DEF AloneIsAccepted
    <3> QED
      BY <1>0, <3>1, <3>2
  <2> QED
    BY <1>2, <1>0, <2>1, <2>3, <2>4 DEF Accept, BatchDone, AloneIsAccepted
<1>3. CASE WriteNewline
  <2>1. writing \in Client
    BY <1>3 DEF WriteNewline, TypeOK
  <2>2. /\ ready \subseteq ready' /\ ready' \subseteq ready \cup {writing}
        /\ loop' \in {"batch", "stopped"}
    BY <1>3, <2>1, WriteType DEF WriteNewline, Pieces
  <2>3. Edges' = Edges
    BY <1>3, <2>1, <2>2, <1>0, EdgesStep DEF WriteNewline
  <2> QED
    BY <1>3, <2>2, <2>3 DEF WriteNewline, BatchDone, AloneIsAccepted
<1>4. CASE EndOfRound
  BY <1>4 DEF EndOfRound, BatchDone, AloneIsAccepted, Edges
<1>5. ASSUME NEW c \in Client, Recv(c) PROVE BatchDone' /\ AloneIsAccepted'
  <2>1. loop = "batch" /\ sent[c] # << >> /\ sent[c] \in Seq(Kind)
    BY <1>5 DEF Recv, Handling, TypeOK
  <2>2. PICK k \in LineKinds(sent[c]) : Answer(c, k)
    BY <1>5 DEF Recv
  <2>3. k \in Kind
    BY <2>1, LineKindsType
  <2>4. /\ ready \subseteq ready' /\ ready' \subseteq ready \cup {c}
        /\ loop' \in {"batch", "newline", "stopped"}
    BY <2>1, <2>2, <2>3, AnswerType
  <2>5. Edges' = Edges
    BY <1>5, <2>4, <1>0, EdgesStep DEF Recv, Handling
  <2> QED
    BY <1>5, <2>4, <2>5 DEF Recv, BatchDone, AloneIsAccepted
<1>6. ASSUME NEW c \in Client, RecvNothing(c) PROVE BatchDone' /\ AloneIsAccepted'
  <2>1. Edges' = Edges
    BY <1>6, <1>0, EdgesStep DEF RecvNothing, Handling
  <2> QED
    BY <1>6, <2>1 DEF RecvNothing, Handling, BatchDone, AloneIsAccepted
<1>7. ASSUME NEW c \in Client, Connect(c) PROVE BatchDone' /\ AloneIsAccepted'
  <2>1. /\ Len(backlog') = Len(backlog) + 1
        /\ DOMAIN backlog' = DOMAIN backlog \cup {Len(backlog) + 1}
        /\ \A i \in DOMAIN backlog : backlog'[i] = backlog[i]
        /\ backlog'[Len(backlog) + 1] = c
    BY <1>7, AppendFacts DEF Connect, TypeOK
  <2>2. /\ Edges' > 0 /\ Edges' \in 0..2 /\ Edges' >= Edges /\ Edges' <= Edges + 1
        /\ met \subseteq met' /\ BatchDone'
    BY <1>7 DEF Connect, Edges, BatchDone
  <2>3. backlog = << >> => Len(backlog) + 1 = 1
    OBVIOUS
  <2>4. backlog # << >> => c \in met'
    BY <1>7 DEF Connect
  <2> HIDE DEF BatchDone
  <2>5. \A i \in DOMAIN backlog' : backlog'[i] \notin met' => i = 1 /\ Edges' > 0
    BY <2>1, <2>2, <2>3, <2>4 DEF AloneIsAccepted
  <2>6. Edges' <= Len(backlog')
    BY <1>0, <2>1, <2>2 DEF AloneIsAccepted
  <2> QED
    BY <2>2, <2>5, <2>6 DEF AloneIsAccepted
<1>8. ASSUME NEW c \in Client, \/ Leave(c) \/ \E k \in Kind : Type(c, k)
      PROVE  BatchDone' /\ AloneIsAccepted'
  <2>1. Edges' = Edges
    BY <1>8, <1>0, EdgesStep DEF Leave, Type, Edge
  <2> QED
    BY <1>8, <2>1 DEF Leave, Type, BatchDone, AloneIsAccepted
<1>9. ASSUME NEW c \in Client, \/ SeeEnd(c) \/ \E n \in 1..Len(bytes[c]) : Read(c, n)
      PROVE  BatchDone' /\ AloneIsAccepted'
  BY <1>9 DEF SeeEnd, Read, BatchDone, AloneIsAccepted, Edges
<1>10. CASE UNCHANGED vars
  BY <1>10 DEF vars, BatchDone, AloneIsAccepted, Edges
<1> QED
  BY <1>1, <1>2, <1>3, <1>4, <1>5, <1>6, <1>7, <1>8, <1>9, <1>10 DEF Next, Loop

\* One accept for each event (server.cpp lines 145-151), for any number of
\* clients: a connection that comes to an empty queue stays at its head with
\* an accept due until it is accepted, and no accept is called in vain.
THEOREM AloneAccepted == Spec => []AloneIsAccepted
<1> DEFINE I == TypeOK /\ BatchDone /\ AloneIsAccepted
<1>1. Init => I
  <2> SUFFICES ASSUME Init PROVE I
    OBVIOUS
  <2>1. backlog = << >> /\ ready = {} /\ events = {}
    BY DEF Init
  <2>2. Edges = 0
    BY <2>1 DEF Edges
  <2> QED
    BY <2>1, <2>2, TypeInit DEF BatchDone, AloneIsAccepted
<1>2. I /\ [Next]_vars => I'
  BY TypeStep, QueueStep
<1>3. I => AloneIsAccepted
  OBVIOUS
<1> QED
  BY <1>1, <1>2, <1>3, PTL DEF Spec

-----------------------------------------------------------------------------
\* Where a client that has read whole replies only stands: before a command
\* and while one is on its way nothing else is; once the server has taken
\* the command, the end of the reply is the last piece there is.
Phase(c) ==
  /\ client[c] \in {"new", "prompt"} =>
       sent[c] = << >> /\ bytes[c] = << >> /\ writing # c
  /\ client[c] = "reading" =>
       /\ sent[c] # << >> => bytes[c] = << >> /\ writing # c
       /\ \A i \in DOMAIN bytes[c] :
            bytes[c][i] = "end" => i = Len(bytes[c]) /\ writing # c
  /\ Len(sent[c]) <= 1

Alternation == \A c \in Client \ split : Phase(c)

\* Nobody's reply is unfinished while the server handles an event.
NoHalfReply == loop \in {"wait", "batch"} => writing = None

LEMMA PhaseUnchanged ==
  ASSUME NEW c, client'[c] = client[c], sent'[c] = sent[c], bytes'[c] = bytes[c],
         writing # c => writing' # c, Phase(c)
  PROVE  Phase(c)'
BY DEF Phase

LEMMA AlternationStep ==
  ASSUME TypeOK, NoHalfReply, Alternation, [Next]_vars
  PROVE  NoHalfReply' /\ Alternation'
<1> USE DEF clients, streams, server
<1>0. \A c \in Client : c # None
  BY NoneAssumption
<1>1. CASE EpollWait \/ EndOfRound
  BY <1>1, PhaseUnchanged DEF EpollWait, EndOfRound, NoHalfReply, Alternation
<1>2. CASE Accept
  BY <1>2, PhaseUnchanged DEF Accept, NoHalfReply, Alternation
<1>3. CASE WriteNewline
  <2>1. writing \in Client
    BY <1>3 DEF WriteNewline, TypeOK
  <2>2. /\ client' = client /\ sent' = sent /\ split' = split
        /\ writing' = None /\ loop' \in {"batch", "stopped"}
    BY <1>3, <2>1, WriteType DEF WriteNewline, Pieces
  <2>3. /\ \A d \in Client : d # writing => bytes'[d] = bytes[d]
        /\ client[writing] = "gone" => bytes' = bytes
        /\ client[writing] # "gone" => bytes'[writing] = Append(bytes[writing], "end")
    BY <1>3, <2>1, WriteType DEF WriteNewline, Pieces
  <2>4. \A d \in Client \ split : d # writing => Phase(d)'
    BY <2>2, <2>3, <1>0, PhaseUnchanged DEF Alternation
  <2>5. writing \notin split => Phase(writing)
    BY <2>1 DEF Alternation
  <2>6. ASSUME writing \notin split, NEW c \in Client, c = writing PROVE Phase(c)'
    <3>1. CASE client[c] = "gone"
      BY <3>1, <2>2, <2>3, <2>5, <2>6 DEF Phase
    <3>2. CASE client[c] # "gone"
      <4>1. client[c] = "reading" /\ sent[c] = << >>
        BY <3>2, <2>5, <2>6 DEF Phase, TypeOK
      <4>2. bytes[c] \in Seq(Pieces) /\ \A i \in DOMAIN bytes[c] : bytes[c][i] # "end"
        BY <4>1, <2>5, <2>6 DEF Phase, TypeOK
      <4>3. \A i \in DOMAIN bytes'[c] : bytes'[c][i] = "end" => i = Len(bytes'[c])
        BY <2>3, <2>6, <3>2, <4>2, AppendFacts DEF Pieces
      <4> QED
        BY <4>1, <4>3, <2>2, <1>0 DEF Phase
    <3> QED
      BY <3>1, <3>2
  <2> QED
    BY <2>1, <2>2, <2>4, <2>6 DEF NoHalfReply, Alternation
<1>4. ASSUME NEW c \in Client, Recv(c) PROVE NoHalfReply' /\ Alternation'
  <2>1. loop = "batch" /\ sent[c] # << >> /\ sent[c] \in Seq(Kind) /\ writing = None
    BY <1>4 DEF Recv, Handling, TypeOK, NoHalfReply
  <2>2. PICK k \in LineKinds(sent[c]) : Answer(c, k)
    BY <1>4 DEF Recv
  <2>3. k \in Kind
    BY <2>1, LineKindsType
  <2>4. /\ client' = client /\ split' = split /\ sent'[c] = << >>
        /\ \A d \in Client : d # c => sent'[d] = sent[d]
    BY <1>4 DEF Recv, TypeOK
  <2>5. \/ /\ bytes' = bytes /\ writing' = None /\ loop' \in {"batch", "stopped"}
        \/ /\ Write(c, "end", "batch") /\ writing' = None
        \/ /\ Write(c, "number", "newline") /\ writing' = c
    BY <2>1, <2>2 DEF Answer
  <2>6. \A d \in Client : d # c => bytes'[d] = bytes[d] /\ writing' # d
    BY <2>5, <1>0, WriteType DEF Pieces
  <2>7. NoHalfReply'
    <3>1. Write(c, "end", "batch") => loop' \in {"batch", "stopped"}
      BY WriteType DEF Pieces
    <3>2. Write(c, "number", "newline") => loop' \in {"newline", "stopped"}
      BY WriteType DEF Pieces
    <3> QED
      BY <2>5, <3>1, <3>2 DEF NoHalfReply
  <2>8. \A d \in Client \ split : d # c => Phase(d)'
    BY <2>4, <2>6, PhaseUnchanged DEF Alternation
  <2>9. ASSUME c \notin split PROVE Phase(c)'
    <3>1. client[c] = "gone" \/ (client[c] = "reading" /\ bytes[c] = << >>)
      BY <2>1, <2>9 DEF Alternation, Phase, TypeOK
    <3>2. CASE client[c] = "gone"
      BY <3>2, <2>4 DEF Phase
    <3>3. CASE client[c] = "reading" /\ bytes[c] = << >>
      <4>1. CASE bytes' = bytes
        BY <4>1, <3>3, <2>4 DEF Phase
      <4>2. CASE Write(c, "end", "batch") /\ writing' = None
        <5>1. bytes'[c] = Append(<< >>, "end")
          BY <3>3, <4>2, WriteType DEF Pieces
        <5>2. \A i \in DOMAIN bytes'[c] : i = Len(bytes'[c])
          BY <5>1
        <5> QED
          BY <3>3, <4>2, <5>2, <2>4, <1>0 DEF Phase
      <4>3. CASE Write(c, "number", "newline") /\ writing' = c
        <5>1. bytes'[c] = Append(<< >>, "number")
          BY <3>3, <4>3, WriteType DEF Pieces
        <5>2. \A i \in DOMAIN bytes'[c] : bytes'[c][i] # "end"
          BY <5>1
        <5> QED
          BY <3>3, <5>2, <2>4 DEF Phase
      <4> QED
        BY <2>5, <4>1, <4>2, <4>3
    <3> QED
      BY <3>1, <3>2, <3>3
  <2> QED
    BY <2>4, <2>7, <2>8, <2>9 DEF Alternation
<1>5. ASSUME NEW c \in Client, RecvNothing(c) PROVE NoHalfReply' /\ Alternation'
  BY <1>5, PhaseUnchanged DEF RecvNothing, Handling, NoHalfReply, Alternation
<1>6. ASSUME NEW c \in Client, Connect(c) PROVE NoHalfReply' /\ Alternation'
  <2>1. /\ client[c] = "new" /\ client'[c] = "prompt" /\ split' = split
        /\ sent' = sent /\ bytes' = bytes /\ writing' = writing /\ loop' = loop
        /\ \A d \in Client : d # c => client'[d] = client[d]
    BY <1>6 DEF Connect, TypeOK
  <2>2. c \notin split => Phase(c)'
    BY <2>1 DEF Alternation, Phase
  <2> QED
    BY <2>1, <2>2, PhaseUnchanged DEF NoHalfReply, Alternation
<1>7. ASSUME NEW c \in Client, Leave(c) \/ SeeEnd(c) PROVE NoHalfReply' /\ Alternation'
  <2>1. /\ client'[c] = "gone" /\ split' = split
        /\ sent' = sent /\ writing' = writing /\ loop' = loop
        /\ \A d \in Client : d # c => client'[d] = client[d] /\ bytes'[d] = bytes[d]
    BY <1>7 DEF Leave, SeeEnd, TypeOK
  <2>2. c \notin split => Phase(c)'
    BY <2>1 DEF Alternation, Phase
  <2> QED
    BY <2>1, <2>2, PhaseUnchanged DEF NoHalfReply, Alternation
<1>8. ASSUME NEW c \in Client, NEW k \in Kind, Type(c, k) PROVE NoHalfReply' /\ Alternation'
  <2>1. /\ client[c] = "prompt" /\ client'[c] = "reading" /\ split' = split
        /\ sent'[c] = Append(sent[c], k) /\ bytes' = bytes
        /\ writing' = writing /\ loop' = loop
        /\ \A d \in Client : d # c => client'[d] = client[d] /\ sent'[d] = sent[d]
    BY <1>8 DEF Type, TypeOK
  <2>2. c \notin split => Phase(c)'
    <3> SUFFICES ASSUME c \notin split PROVE Phase(c)'
      OBVIOUS
    <3>1. sent[c] = << >> /\ bytes[c] = << >> /\ writing # c
      BY <2>1 DEF Alternation, Phase
    <3>2. Len(sent'[c]) <= 1
      BY <2>1, <3>1
    <3>3. DOMAIN bytes'[c] = {}
      BY <2>1, <3>1
    <3> QED
      BY <2>1, <3>1, <3>2, <3>3 DEF Phase
  <2> QED
    BY <2>1, <2>2, PhaseUnchanged DEF NoHalfReply, Alternation
<1>9. ASSUME NEW c \in Client, NEW n \in 1..Len(bytes[c]), Read(c, n)
      PROVE  NoHalfReply' /\ Alternation'
  <2>1. /\ client[c] = "reading" /\ client'[c] = "prompt"
        /\ bytes'[c] = SubSeq(bytes[c], n + 1, Len(bytes[c]))
        /\ sent' = sent /\ writing' = writing /\ loop' = loop
        /\ \A d \in Client : d # c => client'[d] = client[d] /\ bytes'[d] = bytes[d]
        /\ split \subseteq split'
        /\ c \notin split' => bytes[c][n] = "end"
    BY <1>9 DEF Read, TypeOK
  <2>2. n \in DOMAIN bytes[c] /\ bytes[c] # << >>
        /\ (n = Len(bytes[c]) => bytes'[c] = << >>)
    BY <2>1, SubSeqFacts DEF TypeOK
  <2>3. c \notin split' => Phase(c)'
    BY <2>1, <2>2 DEF Alternation, Phase
  <2> QED
    BY <2>1, <2>3, PhaseUnchanged DEF NoHalfReply, Alternation
<1>10. CASE UNCHANGED vars
  BY <1>10, PhaseUnchanged DEF vars, NoHalfReply, Alternation
<1> QED
  BY <1>1, <1>2, <1>3, <1>4, <1>5, <1>6, <1>7, <1>8, <1>9, <1>10 DEF Next, Loop

\* A client that has never read a part of a reply has one command at a time
\* with the server, and no leftover reply at its prompt (client.cpp lines
\* 88-112, server.cpp lines 179-317), although commands carry no delimiter.
THEOREM CommandsStayApart == Spec => []CommandsAlone
<1> DEFINE I == TypeOK /\ NoHalfReply /\ Alternation
<1>1. Init => I
  <2> SUFFICES ASSUME Init PROVE I
    OBVIOUS
  <2>1. \A c \in Client : /\ client[c] = "new" /\ writing # c
                           /\ sent[c] = << >> /\ bytes[c] = << >>
    BY NoneAssumption DEF Init
  <2>2. \A c \in Client : Phase(c)
    <3>1. Len(<< >>) <= 1
      OBVIOUS
    <3> QED
      BY <2>1, <3>1 DEF Phase
  <2> QED
    BY <2>2, TypeInit DEF Init, NoHalfReply, Alternation
<1>2. I /\ [Next]_vars => I'
  BY TypeStep, AlternationStep
<1>3. I => CommandsAlone
  BY DEF Alternation, Phase, CommandsAlone
<1> QED
  BY <1>1, <1>2, <1>3, PTL DEF Spec
=============================================================================
