----------------------------- MODULE Connection -----------------------------
(***************************************************************************)
(* The byte streams between the clients of client.cpp and the event loop   *)
(* of server.cpp, which module Server takes as whole commands and replies: *)
(* edge-triggered epoll, one accept and one recv for each event, replies   *)
(* written in one or in two pieces, reads that return what has arrived,    *)
(* and clients that go away in the middle.                                 *)
(*                                                                         *)
(* Of a command only matters how the server answers it: with one write,    *)
(* with two (the number, then the newline), not at all ("silent"), or by   *)
(* ending the process ("fatal": EXIT, or a line it cannot parse).  There   *)
(* is nothing between two commands in the stream, so what one recv returns *)
(* is one line to the server; the words of several commands run together   *)
(* may be a line of any kind.                                              *)
(***************************************************************************)
EXTENDS Integers, Sequences

CONSTANTS
  Client,      \* the client processes
  Kinds,       \* the kinds of command that each client may type
  MaxCommands, \* bound: the commands each client types
  None         \* no client

ASSUME MaxCommandsAssumption == MaxCommands \in [Client -> Nat]
ASSUME NoneAssumption == None \notin Client
ASSUME ListenAssumption == "listen" \notin Client

ListenFd == "listen"
Kind == {"one", "two", "silent", "fatal"}

ASSUME KindsAssumption == Kinds \in [Client -> SUBSET Kind]

VARIABLES
  client,    \* what each client does: "new", "prompt", "reading" or "gone"
  typed,     \* the number of commands each client has sent
  sent,      \* the commands on the way to the server
  bytes,     \* the pieces of replies that the client has not read
  split,     \* history: the clients that have read a part of a reply
  backlog,   \* the connections waiting for accept
  met,       \* history: connections that found others waiting for accept
  accepted,  \* the connections whose descriptor the server has
  ready,     \* the descriptors with an edge epoll_wait has not reported
  events,    \* the events of the batch that are not handled yet
  loop,      \* "wait" in epoll_wait, "batch", "newline" between the two
             \* writes of a reply, or "stopped"
  writing,   \* whose reply still lacks its newline
  silent,    \* the clients whose last line got no reply
  reset      \* the connections on which the server has got a reset

clients == << client, typed, split >>
streams == << sent, bytes >>
server == << accepted, events, loop, writing, silent >>
vars == << client, typed, sent, bytes, split, backlog, met, accepted,
           ready, events, loop, writing, silent, reset >>

Init ==
  /\ client = [c \in Client |-> "new"]
  /\ typed = [c \in Client |-> 0]
  /\ sent = [c \in Client |-> << >>]
  /\ bytes = [c \in Client |-> << >>]
  /\ split = {}
  /\ backlog = << >>
  /\ met = {}
  /\ accepted = {} /\ ready = {} /\ events = {}
  /\ loop = "wait"
  /\ writing = None
  /\ silent = {} /\ reset = {}

Running == loop # "stopped"

\* A new edge on an accepted connection.
Edge(c) == IF c \in accepted THEN {c} ELSE {}

-----------------------------------------------------------------------------
(***************************************************************************)
(* The clients.                                                            *)
(***************************************************************************)

\* connect() succeeds as soon as the kernel has queued the connection.  An
\* edge of the listening socket that is still pending is not doubled.
Connect(c) ==
  /\ Running
  /\ client[c] = "new"
  /\ client' = [client EXCEPT ![c] = "prompt"]
  /\ backlog' = Append(backlog, c)
  /\ ready' = ready \cup {ListenFd}
  /\ met' = IF backlog = << >> THEN met ELSE met \cup {c}
  /\ UNCHANGED << typed, split, streams, server, reset >>

\* A line is read from the terminal and written to the socket.
Type(c, k) ==
  /\ Running
  /\ client[c] = "prompt"
  /\ k \in Kinds[c]
  /\ typed[c] < MaxCommands[c]
  /\ typed' = [typed EXCEPT ![c] = @ + 1]
  /\ sent' = [sent EXCEPT ![c] = Append(@, k)]
  /\ client' = [client EXCEPT ![c] = "reading"]
  /\ ready' = ready \cup Edge(c)
  /\ UNCHANGED << bytes, split, backlog, met, server, reset >>

\* One read, which returns the n pieces that have arrived.
Read(c, n) ==
  /\ client[c] = "reading"
  /\ n \in 1..Len(bytes[c])
  /\ client' = [client EXCEPT ![c] = "prompt"]
  /\ bytes' = [bytes EXCEPT ![c] = SubSeq(@, n + 1, Len(@))]
  /\ split' = IF bytes[c][n] = "end" THEN split ELSE split \cup {c}
  /\ UNCHANGED << typed, sent, backlog, met, ready, server, reset >>

\* The client leaves: by "quit" at the prompt, or it is killed.  A socket
\* closed with unread bytes sends a reset, otherwise the end of the stream.
Leave(c) ==
  /\ client[c] \in {"prompt", "reading"}
  /\ client' = [client EXCEPT ![c] = "gone"]
  /\ bytes' = [bytes EXCEPT ![c] = << >>]
  /\ reset' = IF bytes[c] = << >> THEN reset ELSE reset \cup {c}
  /\ ready' = ready \cup Edge(c)
  /\ UNCHANGED << typed, split, sent, backlog, met, server >>

\* The server has stopped: write fails, or read returns 0 or an error.
SeeEnd(c) ==
  /\ ~Running
  /\ bytes[c] = << >>
  /\ client[c] \in {"prompt", "reading"}
  /\ client' = [client EXCEPT ![c] = "gone"]
  /\ UNCHANGED << typed, split, streams, backlog, met, ready, server, reset >>

-----------------------------------------------------------------------------
(***************************************************************************)
(* The server.                                                             *)
(***************************************************************************)
EpollWait ==
  /\ loop = "wait"
  /\ ready # {}
  /\ events' = ready
  /\ ready' = {}
  /\ loop' = "batch"
  /\ UNCHANGED << clients, streams, backlog, met, accepted, writing,
                  silent, reset >>

\* One accept for each event.  AddFd reports what the connection has already
\* sent as a first edge.  (An accept that finds no connection fails and
\* AddFd(-1) does nothing; AloneIsAccepted shows that this never happens.)
Accept ==
  /\ loop = "batch"
  /\ ListenFd \in events
  /\ backlog # << >>
  /\ events' = events \ {ListenFd}
  /\ backlog' = Tail(backlog)
  /\ accepted' = accepted \cup {Head(backlog)}
  /\ ready' = IF sent[Head(backlog)] # << >> \/ client[Head(backlog)] = "gone"
              THEN ready \cup {Head(backlog)} ELSE ready
  /\ UNCHANGED << clients, streams, met, loop, writing, silent, reset >>

\* write() of a piece.  To a client that is gone the first write brings a
\* reset, which is an edge, and a write after a reset raises SIGPIPE, for
\* which the server has no handler.
Write(c, piece, next) ==
  IF client[c] # "gone"
  THEN /\ bytes' = [bytes EXCEPT ![c] = Append(@, piece)]
       /\ loop' = next
       /\ UNCHANGED << ready, reset >>
  ELSE /\ reset' = reset \cup {c}
       /\ ready' = ready \cup {c}
       /\ loop' = IF c \in reset THEN "stopped" ELSE next
       /\ UNCHANGED bytes

\* The kinds of line that a sequence of commands received at once may be.
LineKinds(s) == IF Len(s) = 1 THEN {s[1]} ELSE Kind

\* Faulty: the write of a one-piece reply, as in the error branches, is left
\* out.
AnswerNumbersOnly(c, k) ==
  \/ k = "two" /\ Write(c, "number", "newline") /\ writing' = c /\ silent' = silent \ {c}
  \/ k = "one" /\ UNCHANGED << bytes, loop, ready, reset, writing, silent >>

\* What the server writes for a line before it looks at the next event.
Answer(c, k) ==
  \/ k = "one" /\ Write(c, "end", "batch") /\ UNCHANGED writing /\ silent' = silent \ {c}
  \/ k = "two" /\ Write(c, "number", "newline") /\ writing' = c /\ silent' = silent \ {c}
  \/ /\ k = "silent"
     /\ silent' = silent \cup {c}
     /\ UNCHANGED << bytes, loop, ready, reset, writing >>
  \/ /\ k = "fatal"
     /\ loop' = "stopped"
     /\ UNCHANGED << bytes, ready, reset, writing, silent >>

Handling(c) ==
  /\ loop = "batch"
  /\ c \in events \cap accepted
  /\ events' = events \ {c}

\* Faulty: after the usage text the handler goes on and answers once more.
RecvAnswerTwice(c) ==
  /\ Handling(c)
  /\ sent[c] # << >> /\ client[c] # "gone"
  /\ sent' = [sent EXCEPT ![c] = << >>]
  /\ bytes' = [bytes EXCEPT ![c] = @ \o << "end", "end" >>]
  /\ UNCHANGED << clients, backlog, met, accepted, ready, loop, writing, silent, reset >>

\* recv returns everything that has arrived: one line.
Recv(c) ==
  /\ Handling(c)
  /\ sent[c] # << >>
  /\ sent' = [sent EXCEPT ![c] = << >>]
  /\ \E k \in LineKinds(sent[c]) : Answer(c, k)
  /\ UNCHANGED << clients, backlog, met, accepted >>

\* Faulty: the loop over the batch is left when recv has no data.
RecvNothingBreaks(c) ==
  /\ loop = "batch"
  /\ c \in events \cap accepted
  /\ sent[c] = << >>
  /\ events' = {}
  /\ accepted' = IF client[c] = "gone" THEN accepted \ {c} ELSE accepted
  /\ ready' = IF client[c] = "gone" THEN ready \ {c} ELSE ready
  /\ UNCHANGED << clients, streams, backlog, met, loop, writing, silent, reset >>

\* recv returns 0 or fails: the descriptor is closed, unless the error is
\* EAGAIN, when an earlier recv has taken the data of this edge too.
RecvNothing(c) ==
  /\ Handling(c)
  /\ sent[c] = << >>
  /\ accepted' = IF client[c] = "gone" THEN accepted \ {c} ELSE accepted
  /\ ready' = IF client[c] = "gone" THEN ready \ {c} ELSE ready
  /\ UNCHANGED << clients, streams, backlog, met, loop, writing, silent, reset >>

\* The second write of a reply.
WriteNewline ==
  /\ loop = "newline"
  /\ Write(writing, "end", "batch")
  /\ writing' = None
  /\ UNCHANGED << clients, sent, backlog, met, accepted, events, silent >>

EndOfRound ==
  /\ loop = "batch"
  /\ events = {}
  /\ loop' = "wait"
  /\ UNCHANGED << clients, streams, backlog, met, accepted, ready,
                  events, writing, silent, reset >>

Loop ==
  \/ EpollWait \/ Accept \/ WriteNewline \/ EndOfRound
  \/ \E c \in Client : Recv(c) \/ RecvNothing(c)

Next ==
  \/ Loop
  \/ \E c \in Client :
       \/ Connect(c) \/ Leave(c) \/ SeeEnd(c)
       \/ \E k \in Kind : Type(c, k)
       \/ \E n \in 1..Len(bytes[c]) : Read(c, n)

\* The kernel runs the server and lets a read return once bytes are there;
\* nobody has to type.
Fairness ==
  /\ WF_vars(Loop)
  /\ \A c \in Client : WF_vars(\E n \in 1..Len(bytes[c]) : Read(c, n))

Spec == Init /\ [][Next]_vars /\ Fairness

-----------------------------------------------------------------------------
(***************************************************************************)
(* Properties.                                                             *)
(***************************************************************************)
Pieces == {"number", "end"}

\* The types of the state of clients, kernel and server.
TypeOK ==
  /\ client \in [Client -> {"new", "prompt", "reading", "gone"}]
  /\ typed \in [Client -> Nat] /\ \A c \in Client : typed[c] <= MaxCommands[c]
  /\ sent \in [Client -> Seq(Kind)]
  /\ bytes \in [Client -> Seq(Pieces)]
  /\ backlog \in Seq(Client)
  /\ {ready, events} \subseteq SUBSET (Client \cup {ListenFd})
  /\ {split, met, accepted, silent, reset} \subseteq SUBSET Client
  /\ loop \in {"wait", "batch", "newline", "stopped"}
  /\ writing \in Client \cup {None}
  /\ loop = "newline" => writing # None

\* The edges of the listening socket that an accept is still due for.
Edges == (IF ListenFd \in ready THEN 1 ELSE 0) + (IF ListenFd \in events THEN 1 ELSE 0)

\* There is one accept for each edge, and edges merge while they are pending,
\* so connections that come together can leave one of them in the queue with
\* no accept due; accept takes the head of the queue, so it may be a later
\* one, which came by itself, that stays.  But a connection that comes to an
\* empty queue is at its head with an accept due until it is accepted, and no
\* accept finds the queue empty, which would give AddFd the descriptor -1.
AloneIsAccepted ==
  /\ Edges <= Len(backlog)
  /\ \A i \in DOMAIN backlog : backlog[i] \notin met => i = 1 /\ Edges > 0

\* The protocol has no delimiter and relies on strict alternation: as long as
\* a client has never read a part of a reply, the server receives its
\* commands one at a time, and at its prompt no reply is left over that the
\* next read would take for the answer to the next command.
CommandsAlone ==
  \A c \in Client \ split :
    /\ Len(sent[c]) <= 1
    /\ client[c] = "prompt" => bytes[c] = << >> /\ sent[c] = << >>

\* Whatever reads and writes have done to the boundaries of commands and
\* replies before, a client with a command on the way to its accepted
\* connection gets out of read, unless its line is of a silent kind.
ReadReturns ==
  \A c \in Client :
    (client[c] = "reading" /\ sent[c] # << >> /\ c \in accepted)
      ~> (client[c] # "reading" \/ c \in silent \/ ~Running)

(***************************************************************************)
(* A statement of the repository that the code does not keep.              *)
(***************************************************************************)

\* server.cpp line 312, on the newline that is written by itself: the reply
\* does not come apart at the client.
RepliesWhole == split = {}
=============================================================================
