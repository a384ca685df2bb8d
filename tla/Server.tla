------------------------------- MODULE Server -------------------------------
(***************************************************************************)
(* The event loop of server.cpp: one thread that waits in epoll_wait,      *)
(* handles the events of the batch one by one, then runs the timers if     *)
(* SIGALRM was seen and applies a changed configuration.  Around it run    *)
(* the clients of client.cpp (each sends a command and blocks in read      *)
(* until the reply), the clock, and the signal handler, which writes the   *)
(* signal's number into a pipe that epoll_wait watches.                    *)
(*                                                                         *)
(* The sorted sets are values of module ZSet, the timers of module Timer.  *)
(* A command line is a record: cmd, key, member and num are its words,     *)
(* argc is the number of words after cmd, and num is NaN where std::stoi   *)
(* would throw.  Of a CONFIG command cmd says how far the server's tests   *)
(* of the words follow it: "CONFIG SET maxmemory", "CONFIG SET" with       *)
(* another parameter, or "CONFIG" with another subcommand.                 *)
(***************************************************************************)
EXTENDS ZSet, Timer

CONSTANTS
  Client,    \* the connected clients
  Name,      \* the names of sorted sets (the keys of map)
  Lines,     \* the command lines that each client may send
  Signals,   \* the signals other processes send: SIGTERM, SIGHUP, ...
  TimeSlot,  \* signaler.timeout_, in seconds
  MaxTimers, \* bound: EXPIRE is sent only while there are fewer timers
  NaN,       \* a word that is not a number
  None       \* no command

SetCommands == {"ZADD", "ZSCORE", "ZREM", "ZCARD", "ZDIS", "OTHER"}
ConfigCommands == {"CONFIG SET maxmemory", "CONFIG SET", "CONFIG"}
Commands == SetCommands \cup ConfigCommands \cup {"EXPIRE", "SAVE", "EXIT"}

\* The number of words each command asks for.
Arity ==
  [c \in SetCommands \cup ConfigCommands \cup {"EXPIRE"} |->
     IF c \in {"ZADD"} \cup ConfigCommands THEN 3
     ELSE IF c \in {"ZSCORE", "ZREM", "EXPIRE"} THEN 2 ELSE 1]

CommandLine ==
  [cmd : Commands, key : Name, member : Member, num : Int \cup {NaN},
   argc : Nat]

PipeFd == "pipe"

ASSUME ClientAssumption == PipeFd \notin Client
ASSUME LinesAssumption == Lines \in [Client -> SUBSET CommandLine]

Request == UNION {Lines[c] : c \in Client}

ASSUME RequestAssumption == Request \subseteq CommandLine
\* The numbers that a ZADD with all its words can name are scores.
ASSUME ZaddAssumption ==
  \A r \in Request : r.cmd = "ZADD" /\ r.argc = 3 => r.num \in Score \cup {NaN}
ASSUME NoneAssumption == None \notin Request
ASSUME NaNAssumption == NaN \notin Int
ASSUME TimeSlotAssumption == TimeSlot \in Nat \ {0}
ASSUME MaxTimersAssumption == MaxTimers \in Nat
ASSUME SignalsAssumption == Signals \subseteq {"SIGCHLD", "SIGHUP", "SIGTERM", "SIGINT"}
ASSUME ServerScoreAssumption == Score \subseteq Int

VARIABLES
  map,            \* the sorted set of every existing name
  timers,         \* the timer list
  timeout_keys,   \* the keys the last Tick returned
  max_memory,     \* configs->max_memory_
  stop_server, timeout, update_config,  \* the flags of the loop
  pc,             \* "wait" in epoll_wait, "batch" between two events,
                  \* "exited", or "crashed" by an uncaught exception
  events,         \* the ready descriptors of the batch not yet handled
  pipe,           \* the signals in the pipe
  alarm,          \* seconds until SIGALRM, 0 when no alarm is set
  request,        \* the command whose reply each client waits for
  unread,         \* the clients whose command the server has not received
  reply,          \* the last reply of each client
  store           \* the contents of the files under store/

loop == << timeout_keys, stop_server, timeout, update_config, pc, events >>
data == << map, timers, max_memory, store >>
vars == << map, timers, timeout_keys, max_memory, stop_server, timeout,
           update_config, pc, events, pipe, alarm, request, unread, reply, store >>

Running == pc \in {"wait", "batch"}

Init ==
  /\ map = [k \in {} |-> NewZSet(0)]
  /\ timers = NoTimers
  /\ timeout_keys = << >>
  /\ max_memory = 0
  /\ stop_server = FALSE /\ timeout = FALSE /\ update_config = FALSE
  /\ pc = "wait"
  /\ events = {}
  /\ pipe = {}
  /\ alarm = TimeSlot
  /\ request = [c \in Client |-> None]
  /\ unread = {}
  /\ reply = [c \in Client |-> << >>]
  /\ store = [k \in {} |-> [m \in Member |-> Absent]]

-----------------------------------------------------------------------------
(***************************************************************************)
(* The environment: the clients, the clock and the signals.                *)
(***************************************************************************)

\* The timers there will be once every EXPIRE under way is handled.
Expected ==
  Len(timers) + Cardinality({c \in unread : request[c].cmd = "EXPIRE"})

\* A client that is not waiting for a reply sends a command.
Send(c, r) ==
  /\ Running
  /\ request[c] = None
  /\ r \in Lines[c]
  /\ r.cmd = "EXPIRE" => Expected < MaxTimers
  /\ request' = [request EXCEPT ![c] = r]
  /\ unread' = unread \cup {c}
  /\ reply' = [reply EXCEPT ![c] = << >>]
  /\ UNCHANGED << loop, data, pipe, alarm >>

\* One second passes; when the alarm goes off its handler writes SIGALRM.
Second ==
  /\ Running
  /\ timers' = Elapse(timers)
  /\ alarm' = IF alarm > 0 THEN alarm - 1 ELSE 0
  /\ pipe' = IF alarm = 1 THEN pipe \cup {"SIGALRM"} ELSE pipe
  /\ UNCHANGED << loop, map, max_memory, store, request, unread, reply >>

\* Another process sends a signal; the handler writes it into the pipe.
SignalHandler(s) ==
  /\ Running
  /\ pipe' = pipe \cup {s}
  /\ UNCHANGED << loop, data, alarm, request, unread, reply >>

-----------------------------------------------------------------------------
(***************************************************************************)
(* One round of the loop: epoll_wait, the events, the end of the round.    *)
(***************************************************************************)

\* epoll_wait returns everything that is ready; the batch may hold it in any
\* order.  What becomes ready later is for the next round.
EpollWait ==
  /\ pc = "wait"
  /\ events' = unread \cup (IF pipe # {} THEN {PipeFd} ELSE {})
  /\ events' # {}
  /\ pc' = "batch"
  /\ UNCHANGED << timeout_keys, stop_server, timeout, update_config, data,
                  pipe, alarm, request, unread, reply >>

\* Faulty: after SIGALRM the other signals of the pipe are not looked at.
HandleFirstSignal ==
  /\ pc = "batch"
  /\ PipeFd \in events
  /\ events' = events \ {PipeFd}
  /\ pipe' = {}
  /\ timeout' = (timeout \/ "SIGALRM" \in pipe)
  /\ stop_server' = (stop_server
                     \/ ("SIGALRM" \notin pipe /\ pipe \cap {"SIGTERM", "SIGINT"} # {}))
  /\ UNCHANGED << timeout_keys, update_config, pc, data, alarm, request,
                  unread, reply >>

\* recv on the pipe takes every signal in it.
HandleSignals ==
  /\ pc = "batch"
  /\ PipeFd \in events
  /\ events' = events \ {PipeFd}
  /\ pipe' = {}
  /\ timeout' = (timeout \/ "SIGALRM" \in pipe)
  /\ stop_server' = (stop_server \/ pipe \cap {"SIGTERM", "SIGINT"} # {})
  /\ UNCHANGED << timeout_keys, update_config, pc, data, alarm, request,
                  unread, reply >>

\* recv on the connection of c takes its command; what follows handles it.
Receive(c) ==
  /\ pc = "batch"
  /\ c \in events
  /\ events' = events \ {c}
  /\ unread' = unread \ {c}
  /\ UNCHANGED << timeout_keys, timeout, pipe, alarm >>

\* A reply is a tuple: a number, or the name of a fixed text.
Number(n) == << "number", n >>
Text(t) == << t >>

\* The server writes a reply and the client, blocked in read, takes it.
Write(c, r) ==
  /\ reply' = [reply EXCEPT ![c] = r]
  /\ request' = [request EXCEPT ![c] = None]

NoReply == UNCHANGED << reply, request >>

Cmd(c) == request[c].cmd
NameOf(c) == request[c].key
ArityOK(c) == request[c].argc = Arity[Cmd(c)]

\* The commands that read args[0] before any test of args.size(), and the
\* commands whose number std::stoi refuses: both end the process.
Fatal(c) ==
  \/ Cmd(c) \in SetCommands /\ request[c].argc = 0
  \/ /\ Cmd(c) \in {"ZADD", "EXPIRE", "CONFIG SET maxmemory"}
     /\ ArityOK(c)
     /\ request[c].num = NaN

Crash(c) ==
  /\ Receive(c)
  /\ Fatal(c)
  /\ pc' = "crashed"
  /\ NoReply
  /\ UNCHANGED << stop_server, update_config, data >>

\* A handler: c's command is received and does not end the process.
Handle(c, cmds) ==
  /\ Receive(c)
  /\ Cmd(c) \in cmds
  /\ ~Fatal(c)
  /\ UNCHANGED pc

\* EXIT leaves the loop over the batch: its other events are not handled.
Exit(c) ==
  /\ pc = "batch"
  /\ c \in events
  /\ Cmd(c) = "EXIT"
  /\ events' = {}
  /\ unread' = unread \ {c}
  /\ stop_server' = TRUE
  /\ NoReply
  /\ UNCHANGED << timeout_keys, timeout, pipe, alarm, update_config, pc, data >>

\* SkipList::Save: the file gets a line for every member and its score.
Saved(z) == z.score

\* One file for each set; a file that cannot be opened is skipped.
Save(c) ==
  /\ Handle(c, {"SAVE"})
  /\ \E opened \in SUBSET DOMAIN map :
       store' = [k \in DOMAIN store \cup opened |->
                   IF k \in opened THEN Saved(map[k]) ELSE store[k]]
  /\ Write(c, Text("OK"))
  /\ UNCHANGED << stop_server, update_config, map, timers, max_memory >>

\* Faulty: a negative number is stored.
SetAnyMemory(n) == n

\* Configs::SetMaxMemory.
SetMaxMemory(n) == IF n < 0 THEN max_memory ELSE n

\* Faulty: update_config is not set.
ConfigWithoutUpdate(c) ==
  /\ Handle(c, ConfigCommands)
  /\ ArityOK(c)
  /\ Cmd(c) = "CONFIG SET maxmemory"
  /\ max_memory' = SetMaxMemory(request[c].num)
  /\ Write(c, Number(IF request[c].num < 0 THEN 1 ELSE 0))
  /\ UNCHANGED << stop_server, update_config, map, timers, store >>

Config(c) ==
  /\ Handle(c, ConfigCommands)
  /\ \/ /\ ~ArityOK(c)
        /\ Write(c, Text("Usage"))
        /\ UNCHANGED << update_config, max_memory >>
     \/ /\ ArityOK(c)
        /\ Cmd(c) = "CONFIG SET maxmemory"
        /\ max_memory' = SetMaxMemory(request[c].num)
        /\ Write(c, Number(IF request[c].num < 0 THEN 1 ELSE 0))
        /\ update_config' = TRUE
     \/ /\ ArityOK(c)
        /\ Cmd(c) # "CONFIG SET maxmemory"
        /\ update_config' = (update_config \/ Cmd(c) = "CONFIG SET")
        /\ NoReply
        /\ UNCHANGED max_memory
  /\ UNCHANGED << stop_server, map, timers, store >>

Expire(c) ==
  /\ Handle(c, {"EXPIRE"})
  /\ \/ /\ ~ArityOK(c)
        /\ Write(c, Text("Usage"))
        /\ UNCHANGED timers
     \/ /\ ArityOK(c)
        /\ timers' = Push(timers, NameOf(c), request[c].num)
        /\ Write(c, Number(1))
  /\ UNCHANGED << stop_server, update_config, map, max_memory, store >>

-----------------------------------------------------------------------------
(***************************************************************************)
(* The commands on one sorted set.                                         *)
(***************************************************************************)
Exists(c) == NameOf(c) \in DOMAIN map

SetOf(k) == IF k \in DOMAIN map THEN map[k] ELSE NewZSet(max_memory)

Put(k, z) == [n \in DOMAIN map \cup {k} |-> IF n = k THEN z ELSE map[n]]

SetFrame == UNCHANGED << stop_server, update_config, timers, max_memory, store >>

\* Faulty: nothing is written when the name does not exist.
NoSuchKeySilent(c) ==
  /\ Handle(c, SetCommands \ {"ZADD"})
  /\ ~Exists(c)
  /\ NoReply
  /\ UNCHANGED map
  /\ SetFrame

\* A command other than ZADD on a name that does not exist; its number of
\* words is not looked at.
NoSuchKey(c) ==
  /\ Handle(c, SetCommands \ {"ZADD"})
  /\ ~Exists(c)
  /\ Write(c, IF Cmd(c) \in {"ZREM", "ZCARD"} THEN Number(0)
              ELSE IF Cmd(c) = "ZDIS" THEN Text("") ELSE Number(-1))
  /\ UNCHANGED map
  /\ SetFrame

\* A wrong number of words, or an unknown command, for a name that exists.
Usage(c) ==
  /\ Handle(c, SetCommands \ {"ZADD"})
  /\ Exists(c)
  /\ Cmd(c) = "OTHER" \/ ~ArityOK(c)
  /\ Write(c, Text("Usage"))
  /\ UNCHANGED map
  /\ SetFrame

\* The set is created before the number of words is tested.
Zadd(c) ==
  /\ Handle(c, {"ZADD"})
  /\ \/ /\ ~ArityOK(c)
        /\ map' = Put(NameOf(c), SetOf(NameOf(c)))
        /\ Write(c, Text("Usage"))
     \/ /\ ArityOK(c)
        /\ \E z \in Insert(SetOf(NameOf(c)), request[c].member, request[c].num) :
             map' = Put(NameOf(c), z)
        /\ Write(c, Number(IF request[c].member \in Present(SetOf(NameOf(c)))
                           THEN 0 ELSE 1))
  /\ SetFrame

\* A command with the right number of words on a name that exists.
OnSet(c, cmd) ==
  /\ Handle(c, {cmd})
  /\ Exists(c)
  /\ ArityOK(c)
  /\ SetFrame

Zscore(c) ==
  /\ OnSet(c, "ZSCORE")
  /\ LET z == map[NameOf(c)]
         m == request[c].member
     IN  /\ map' = Put(NameOf(c), Search(z, m))
         /\ Write(c, Number(IF m \in Present(z) THEN z.score[m] ELSE -1))

Zrem(c) ==
  /\ OnSet(c, "ZREM")
  /\ LET z == map[NameOf(c)]
         m == request[c].member
     IN  /\ map' = Put(NameOf(c), Delete(z, m))
         /\ Write(c, Number(IF m \in Present(z) THEN 1 ELSE 0))

Zcard(c) ==
  /\ OnSet(c, "ZCARD")
  /\ Write(c, Number(Cardinality(Present(map[NameOf(c)]))))
  /\ UNCHANGED map

\* DisplayList prints on the server's own terminal.
Zdis(c) ==
  /\ OnSet(c, "ZDIS")
  /\ Write(c, Number(1))
  /\ UNCHANGED map

-----------------------------------------------------------------------------
(***************************************************************************)
(* The end of a round, after the last event of the batch.                  *)
(***************************************************************************)

\* map.erase of every key that Tick returned.
Unexpired == IF timeout THEN Restrict(map, DOMAIN map \ ToSet(Fired(timers))) ELSE map

\* UpdateMaxMemory: set_capacity on every set that is left.
Retuned(m) ==
  LET new == [k \in DOMAIN m |-> SetMax(m[k], max_memory)]
  IN  {f \in [DOMAIN m -> UNION {new[k] : k \in DOMAIN m}] :
         \A k \in DOMAIN m : f[k] \in new[k]}

\* Faulty: TimeoutHandler() is called only when a key expired.
RearmAfterExpiry ==
  IF Fired(timers) # << >> THEN TimeSlot ELSE 0

\* TimeoutHandler(): the next SIGALRM is due timeout_ seconds from now.
TimeoutHandler == TimeSlot

EndOfRound ==
  /\ pc = "batch"
  /\ events = {}
  /\ \/ /\ timeout
        /\ timers' = AfterTick(timers)
        /\ timeout_keys' = Fired(timers)
        /\ alarm' = TimeoutHandler
     \/ /\ ~timeout
        /\ UNCHANGED << timers, timeout_keys, alarm >>
  /\ map' \in IF update_config THEN Retuned(Unexpired) ELSE {Unexpired}
  /\ timeout' = FALSE
  /\ update_config' = FALSE
  /\ pc' = IF stop_server THEN "exited" ELSE "wait"
  /\ UNCHANGED << stop_server, events, max_memory, store, pipe, request,
                  unread, reply >>

ServeClient(c) ==
  \/ Crash(c) \/ Exit(c) \/ Save(c) \/ Config(c) \/ Expire(c)
  \/ NoSuchKey(c) \/ Usage(c) \/ Zadd(c) \/ Zscore(c) \/ Zrem(c)
  \/ Zcard(c) \/ Zdis(c)

\* A step of the server's thread.
Loop ==
  \/ EpollWait
  \/ HandleSignals
  \/ \E c \in Client : ServeClient(c)
  \/ EndOfRound

Next ==
  \/ Loop
  \/ Second
  \/ \E c \in Client, r \in Request : Send(c, r)
  \/ \E s \in Signals : SignalHandler(s)

\* The kernel lets the thread run and time passes; clients need not send.
Fairness == WF_vars(Loop) /\ WF_vars(Second)

Spec == Init /\ [][Next]_vars /\ Fairness

-----------------------------------------------------------------------------
(***************************************************************************)
(* Properties.                                                             *)
(***************************************************************************)
\* The types that server.cpp declares, and which descriptors can be ready.
TypeOK ==
  /\ DOMAIN map \subseteq Name /\ \A k \in DOMAIN map : map[k] \in ZSets
  /\ timers \in Seq([key_ : Name, left : Nat])
  /\ timeout_keys \in Seq(Name)
  /\ max_memory \in Nat
  /\ {stop_server, timeout, update_config} \subseteq BOOLEAN
  /\ pc \in {"wait", "batch", "exited", "crashed"}
  /\ events \subseteq unread \cup {PipeFd}
  /\ pipe \subseteq Signals \cup {"SIGALRM"}
  /\ alarm \in 0..TimeSlot
  /\ request \in [Client -> Request \cup {None}]
  /\ unread \subseteq {c \in Client : request[c] # None}
  /\ reply \in [Client -> {<< t >> : t \in {"OK", "Usage", ""}} \cup {<< >>}
                           \cup ({"number"} \X Int)]
  /\ DOMAIN store \subseteq Name
  /\ \A k \in DOMAIN store : store[k] \in [Member -> Score \cup {Absent}]

\* When the loop comes back to epoll_wait every sorted set has the capacity
\* that CONFIG SET maxmemory gave last, whether the set existed then, was
\* created later in the same batch, or came after its name had expired.
ConfigApplied ==
  pc = "wait" => \A k \in DOMAIN map : map[k].lru.capacity = max_memory

\* While the server runs, SIGALRM is exactly once under way: as an alarm, as
\* a byte in the pipe, or as the flag timeout.  The loop re-arms the alarm in
\* one place only, so a SIGALRM lost on the way would end all expiry.
AlarmChain ==
  Running =>
    \/ alarm > 0 /\ "SIGALRM" \notin pipe /\ ~timeout
    \/ alarm = 0 /\ "SIGALRM" \in pipe /\ ~timeout
    \/ alarm = 0 /\ "SIGALRM" \notin pipe /\ timeout

\* A sorted set disappears only at the end of a round and only when a timer
\* of its name has run out: never under a command of the batch.
OnlyTimersErase ==
  [][\A k \in DOMAIN map \ DOMAIN map' :
       /\ events = {}
       /\ \E i \in DOMAIN timers : timers[i].key_ = k /\ timers[i].left = 0]_vars

\* Every timer fires in the end, also one that waits behind later ones: its
\* name is among the keys a Tick returns.
TimersFire ==
  \A k \in Name :
    (k \in TimerKeys(timers) /\ k \notin ToSet(timeout_keys))
      ~> (k \in ToSet(timeout_keys) \/ ~Running)

\* The commands that server.cpp receives and never writes a reply to.
Silent(r) ==
  r.cmd = "EXIT" \/ (r.cmd \in {"CONFIG", "CONFIG SET"} /\ r.argc = 3)

\* A client blocked in read gets its reply, whatever branch its command
\* takes (a missing name, a wrong number of words, a refused value) and
\* however the other clients' commands and the timers interleave, unless it
\* sent a Silent line or the server stops.
RequestsAnswered ==
  \A c \in Client :
    (c \in unread /\ ~Silent(request[c])) ~> (request[c] = None \/ ~Running)

\* SIGTERM or SIGINT, once in the pipe, stops the server.
SignalStops == (pipe \cap {"SIGTERM", "SIGINT"} # {}) ~> ~Running
=============================================================================
