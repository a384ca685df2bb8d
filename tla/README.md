# A TLA+ verification of MySkipList

MySkipList is a small Redis-like server: sorted sets kept in skip lists, an LRU
policy that bounds their size, key expiry by a timer list, and a single-threaded
epoll server. This directory holds TLA+ models of that code, the TLC runs that
check them on small instances, and proofs that TLAPS checks for all instances.
File names such as `skiplist.h` are relative to the repository's root.

## 1. Inventory

| Part | State | Operations | Called by |
|---|---|---|---|
| LRU cache (`lru.h`) | `capacity`, `lru` list, `cache` index, `delete_keys` | `get`, `put`, `remove`, `set_capacity` | skip list |
| Skip list (`skiplist.h`) | heap of nodes (`forward_`, `span_`, `backward_`), `tail_`, `length_`, `level_`, `node_map_`, `lru_cache_` | `InsertElement`, `DeleteElement`, `SearchElement`, `Length`, `SetMaxMemory`, destructor, `DisplayList`, `Save`, `DumpFile`, `LoadFile` | server, stress test |
| Timer list (`timer.h`) | list of (key, expiry time) | `Push`, `Pop`, `Tick` | server |
| Configuration (`configs.h`) | `max_memory_` | `GetMaxMemory`, `SetMaxMemory` (the rest is empty) | server, skip list |
| Server (`server.cpp`, `signal.h`) | `map` of sets, flags `stop_server`, `timeout`, `update_config`, signal pipe, alarm, files | the event loop, signal handler, ten commands | clients, kernel |
| Client (`client.cpp`) | one command outstanding | write a line, block in read | user |
| Stress test (`stress_test.cpp`) | one skip list, its threads | insert from threads, join, search from threads | user |
| Thread pool (`thread_pool.h`, `work_queue.h`) | queue, `shutdown_`, workers | submit, worker loop, shutdown | (no caller in the repository) |
| RPC (`rpc/protorpc`) | `calls` map with a mutex, connection state | call with timeout, onMessage, pack/unpack, routing | RPC programs |
| `3rdparty`, `include/hv`, `include/evpp` | | vendored | |

How the parts interact. The server owns one skip list per key and calls its methods
from its one thread. `InsertElement` deletes the member's old node, links a new one,
calls `put`, and then deletes from the list whatever `put` (or an earlier
`set_capacity`) has left in `delete_keys`. `CONFIG SET maxmemory` stores the number
and sets a flag; at the end of the round every skip list calls `set_capacity`.
`EXPIRE` pushes a timer; `alarm` -> signal handler -> pipe -> flag `timeout` ->
`Tick` -> `map.erase` -> `alarm` again is the chain that makes keys expire.

What is hard here:

* `delete_keys` is a to-do list that survives between calls; it can be stale when
  it is used (`skiplist.h` 240-246).
* One `InsertElement` performs several deletions on the structure it is extending.
* The shape of the list depends on random levels; some sequences of levels break
  `tail_`/`backward_`, which nothing but the destructor follows.
* `lru.h` 47-48 and 72-73 read an erased list node.
* Timers are neither sorted nor unique per key.
* Signals, several clients' commands and the flags of the loop meet in one batch.
* `SearchElement` and `Length` do not take the mutex that the other methods take,
  and `stress_test.cpp` calls `SearchElement` from several threads.
* Commands have no delimiter, replies are written in two pieces and read by one
  `read`; sockets are edge-triggered with one `accept` or `recv` for each event;
  clients go away between their command and the writes of its reply.
* Thread pool: notify without the mutex of the wait, a predicate that ignores
  `shutdown_`, a flag without a value.
* RPC client: a map used with and without its mutex, a timed wait without a
  predicate, late responses and responses without an id, a mutex left locked, a
  connection that breaks.

`PROJECT.json` lists these as hazards with their lines.

## 2. Modules

```
LRUCache            operators: lru.h
  LRUMachine        state machine of one cache                MCLRU
  ZSet              operators: what a SkipList promises
    ZSetMachine     state machine of one sorted set           MCZSet
    Server (+Timer) the event loop, clients, clock            MCServer
    StressTest      the threads of stress_test.cpp            MCStressTest
    SkipList        the pointer structure; implements ZSetMachine   MCSkipList
Timer               operators: timer.h
Connection          byte streams of clients and server        MCConnection
ThreadPool          pool, work queue, workers                 MCThreadPool
RpcClient           RPC callers, loop thread, server          MCRpcClient
OperatorProofs      lemmas about the operators of LRUCache and ZSet and about
                    recursive functions, used by the next three lines
ObjectProofs        about LRUMachine and ZSetMachine          TLAPS proofs
SkipListProofs, ServerProofs                                  TLAPS proofs
StressProofs                                                  TLAPS proofs
ConnectionProofs, ThreadPoolProofs, RpcProofs                 TLAPS proofs
```

`LRUCache` has one operator per method. Where the code reads an erased node, `put`
and `set_capacity` return a set of outcomes: a short key survives in the list node
(libstdc++ keeps short strings inside the object), a key in `LongKey` may be read
as `Garbage`.

`LRUMachine` is one cache with a logical clock (`clock`, `used`) that records when
each key was last used; it is a history variable for the recency properties. `Fetch`
is the owner's reading and clearing of `delete_keys`.

`ZSet`/`ZSetMachine` describe a sorted set without pointers: a score per member and
the cache. `Drain` is the loop over `delete_keys` at the end of `InsertElement`.

`SkipList` has the heap, one record per node, one action per method. A call is one
step because `InsertElement` and `DeleteElement` hold `mtx` throughout and the server
has one thread. `GetRandomLevel` may return any level from 1 to `max_level_`; an
allocation may return any free address. Spans wrap modulo `UintMod`. The
search is the same in `InsertElement`, `DeleteElementInLock` and `DeleteElement`, but
each has its own copy of the comparison, and so has the model: `PassedByInsert`,
`PassedInLock` and `PassedByDelete` are the nodes that each of the loops walks past. The
destructor ends in phase `corrupt` if it touches released memory. `ImplementsZSet`
is the refinement: `score` is what the node in `node_map_` holds, the cache is the
cache.

`Timer` represents the list from `head_ptr_` to `tail_ptr_` as a sequence and an
expiry time by the seconds left until it. `Server` models `main`: `EpollWait`, one
action per kind of event and per command, `EndOfRound` (Tick, erase, re-arm,
UpdateMaxMemory). Command lines are records with the number of words and a number
that may be `NaN`, and `Lines` gives each client the lines it may send, so usage errors, replies for missing keys, the set that a
malformed ZADD creates, and the two ways a command ends the process are all there.
An `epoll_wait` that a signal interrupts runs the loop body on nothing and is a
stuttering step. The batch contains everything ready when `epoll_wait` returns, in
any order; since every descriptor of a batch is read before the next wait (or the
server stops), edge and level triggering agree for the commands modelled here.
A reply is written and read in one step; what happens to the streams below that
is the subject of `Connection`. The signal pipe has no limit here: the handler's `send`
does not look at its result (`server.cpp:23`), and a signal that comes while the
non-blocking pipe is full would be lost, which takes a pipe full of signals that the
loop has not read.

`Connection` keeps of a command only how the server answers it: with one write, two
writes, no write, or by ending. Its variables are the sockets: `sent` (commands not
yet received), `bytes` (pieces of replies not yet read), `backlog` (connections
waiting for `accept`), `ready` (edges that `epoll_wait` has not reported). `Recv`
takes everything that has arrived as one line; several commands run together may
then be a line of any kind. `Leave` is the client's exit or death at any moment;
`Write` to a client that is gone brings a reset, and the next write SIGPIPE.
`split` (the clients that have read a part of a reply) and `met` (the connections that
found others waiting for `accept`) are history variables; `Kinds` and `MaxCommands` say
what each client may type, and how often.

`ThreadPool` has one step for each thing a worker does that another thread can see:
the test of `shutdown_`, the lock, the predicate, the release together with the
blocking, the pop. `SubmitWork` and its `notify_one` are two steps. `shutdown_` is a
plain `bool` in the code; the loop locks a mutex in each round, so a worker sees the
new value in a later round at the latest, which is what the step `While` says. A
worker that leaves the loop before its first pop reads `pop_queue` without a value:
it returns, or calls an empty function, which ends the process (`crashed`).

`RpcClient` has the calling threads step by step through `call`, the event loop's
thread through `onMessage`, the server, and a connection that may break and come
back at any moment, losing what is under way. Where two threads meet in unprotected
data (the unlocked insertion into `calls`, `ctx->res`), `Race` stops the model.
`calls_mutex` is `"left"` after an unknown response: nobody will unlock it. A request
that `ParseFromArray` refuses (`Unparsable`: a method name that is not UTF-8, which a
proto3 `string` field lets out but not in) is answered by `bad_request` without an id
(`protorpc_server.cpp:103`), which the client reads as 0 and does not find. The frames of
`protorpc.c` are messages. An answer keeps the caller and the method of its request as
history. The router has none of the names that the client
programs send, so an unrouted, a routed and an unparsable method are in the run.

`StressTest` has `main` and its threads; the list is the sorted set of `ZSet`, but a
call is not one step: a thread is seen inside `InsertElement`, inside the look-up of
`SearchElement` and inside `lru_cache_.get`.

Operators commented "Faulty" are plausible mistakes in the operator that follows
them. They are used only to show that the properties notice such a mistake.

## 3. Runs

Passing:

| Run | Instance | What it shows |
|---|---|---|
| `lru` | 3 keys, one of them long, capacities incl. a negative one, 5 uses | the index and the list agree; the bound holds although `put` tests it with `==`; order of use; only the oldest entries go; short evicted keys are recorded |
| `zset` | 3 members, one long, capacities 0..2 | what is tracked is in the set with its score; what the cache lost is pending; a storing insertion restores the bound and drops only pending or oldest members |
| `structure` | 3 members, 2 scores, 2 levels, no eviction | order and nesting of the levels (`LevelsNested`); the search of a deletion meets its node on every level (`DeletionMeetsNode`); index, count, heap; refinement of the sorted set |
| `eviction` | 3 members, one long, 2 scores, capacities 1 and 2, 2 levels | index, count, heap and refinement under eviction: one call deletes the member's old node and drains what was evicted |
| `commands` | 2 clients, 1 name, 1 timer; one client sends every command, well-formed and not, the other ZADD, CONFIG, EXPIRE and EXIT | types; a new maxmemory has reached every set before the loop waits again (`ConfigApplied`); under fairness every command is answered, also for a missing name or a wrong number of words (`RequestsAnswered`) |
| `expiry` | 2 clients, 2 names, 2 timers, SIGTERM | `AlarmChain`, `OnlyTimersErase`, and under fairness `TimersFire`, `SignalStops` |
| `streams` | 3 clients: one types 3 commands of any kind, one a single command, one only connects | a connection that comes to an empty queue is accepted next, and no `accept` is called in vain (`AloneIsAccepted`); commands and replies stay apart until a client reads a part of a reply; a read returns |
| `pool` | 2 workers, 3 tasks | `PopQueue` always finds a task, no task is in two places, the one race that loses a wake-up, and under which condition `Shutdown` returns |
| `rpc` | 2 callers, 2 calls, 3 methods, one of them unparsable | no call gets another's answer; only late responses and those without an id miss their call; the map does not leak; calls end unless the mutex was left locked or threads raced |
| `stress` | 3 threads, 2, 3 or 7 rounds in all, both modes | no data race on the list, every search finds the member, `main` returns |

Why the bounds are enough: three nodes give a first, a middle and a last one; two
levels give tall and short nodes, which is what the search and the linking
distinguish; capacities 0, 1, 2 with three members give no bound, eviction on put,
and trimming of two entries at once. With pointers (`structure`, `eviction`) the case
without a bound and the one with a bound are runs of their own; `zset` has all three
capacities, and the proofs are about any. `MaxClock` bounds the history clock,
`MaxTimers` the timers: two timers give one that waits behind another, and
duplicates of one key; in `commands` one timer is enough to take a set away between
two commands. Two clients put two commands and a signal into one batch. Three clients,
in `streams`, because two connections that come together can leave a third one waiting
that came by itself. `MaxCommands` is 3 for one of them: a reply that is read in part, a command answered by its rest, and
a third command that runs together with the second. Two workers and three tasks give
a queue that is longer than the workers, one worker in the race with a notify while
the other is blocked, and a task left after shutdown. `MaxCalls` is 2 because a
response of the first call can then meet the second, of the same or another thread.
`TestCounts` has 2 (no round for three threads), 3 (one) and 7 (two, and one left
over).
`UintMod` stands for 2^32. `CHECK_DEADLOCK FALSE` is used where an object's life
ends (its destructor), the server stops, or a bound has been used up and every
process waits for a user; in `pool` and `rpc` also because the code itself can come
to a stop, which `ShutdownReturns` and `CallsReturn` describe.

Symmetry is used for the addresses of `SkipList` only, in runs without liveness properties.

Fairness. `Server`: `WF(Loop)`, because the kernel keeps scheduling a runnable server
thread, and `WF(Second)`, because time passes. `RequestsAnswered` excepts EXIT and the
CONFIG forms to which `server.cpp` writes no reply (`Silent`). `Connection`:
`WF(Loop)` and that a `read` with bytes available returns; nobody has to type, connect
or leave. `ThreadPool` and `StressTest`: every thread that can take a step takes one;
spurious wake-ups, submissions and the call of `Shutdown` need not happen, and a
mutex need not be fair. `RpcClient`: the callers and the loop's thread run, and a
timed wait ends; the network and the server promise nothing.

Violations. These runs state what a comment of the repository says and show a
behaviour of the code that does not keep it:

| Run | Statement | What happens |
|---|---|---|
| `destructor` | `skiplist.h:139` | the header is freed twice, or nodes are leaked |
| `split_reply` | `server.cpp:312` | a client reads the number without the newline; the newline answers its next command |

Seen while modelling, in the models, and not given a run of their own:

* A long evicted key may be recorded as garbage (`lru.h:48`, against `lru.h:42`);
  `EvictionsReported` and `UntrackedArePending` hold for short keys only, and a long
  member that was lost that way and is added again with the score it has is not tracked
  (the early return at `skiplist.h:160-163`).
* After the linking loop `next` is the successor on the new node's highest level, so
  `tail_` and `backward_` may be wrong (`skiplist.h:217`, against `skiplist.h:216`).
  The run `destructor` meets the consequence.
* ZADD of a member that a lowered maxmemory has left in `delete_keys` deletes the
  member it has just linked (`skiplist.h:243`; `README.md:26` says ZADD adds or
  updates). `StoresUnlessPending` states the exact exceptions.
* A second EXPIRE leaves the first timer in the list, which erases the key early
  (`server.cpp:266`; `README.md:37`).
* `SetMaxMemory` does not shorten the list, only the next storing insertion does
  (`StoreRestoresBound`; `CHANGELOG.md:8` says the command controls the number of
  nodes); `rank[i]` is not carried from level to level (`skiplist.h:172`, `:188`);
  `Push` appends although `TODOLIST.md:12` calls the list ascending; EXPIRE of a
  missing key returns 1 where `server.cpp:281` says 0; EXIT saves nothing
  (`server.cpp:210`); SAVE answers OK although a file could not be opened.
* Connections that come together are accepted one for each edge, oldest first
  (`server.cpp:148`). If c1 and c2 share an edge, c2 waits until c3 connects, and then
  c3 waits, although it came by itself. The second write to a client that is
  gone ends the server with SIGPIPE.
* A worker of the pool runs only the task it popped last, and only after shutdown;
  `Shutdown` waits for ever when a worker finds the queue empty
  (`thread_pool.h:70-82`). `ShutdownReturns` gives the condition under which it does
  return.
* A response that comes after its call's timeout, or that answers a request which the
  server could not parse, leaves `calls_mutex` locked (`protorpc_client.cpp:124`): all later calls block and so does the event loop. A
  response that comes before `wait_for` does not end the wait (`:166`).

## 4. Proofs

All of these hold for every value of the constants. Where the type invariant of a
module is proved here (`LRUMachine`, `ZSetMachine`, `Connection`, `ThreadPool`,
`RpcClient`), its run does not check it a second time; the runs of `SkipList`,
`Server` and `StressTest` still do, because their mutants show that the types can be
violated.

`OperatorProofs` has the facts that several proofs need.

* Induction. The loops of the code are recursive functions in the models. The
  library's induction theorems take a predicate as a parameter and cannot be used, so
  the induction is stated with sets: `LeastNumber` (a set of naturals has a least
  element), `PathInduction` (what holds where a loop stops and is handed back along
  each step holds everywhere on the path) and `PathRecursion` (the recursive function
  along a path that gets shorter with each step exists). `Descends` is the premise
  that every loop has to show: a distance to its end that each step decreases.
* Sequences and `LRUCache`: what `RemoveAt`, `MoveToFront`, a push and a prefix do to
  the elements and keys of a list without duplicates, and for each method that it
  keeps `Cache`, `Indexed` and `Bounded` and what it does to `cache` and
  `delete_keys`. `CacheSize` (the index has as many elements as the list) connects the
  code's `cache.size()` with the list's length.
* `ZSet`: each call keeps `Good`, the invariant of a sorted set, and what else it does
  (`StoreTracks`: what is stored, and was not pending, is tracked afterwards, even
  under a long name).

`ObjectProofs`, the cache: the inductive invariant `LRUInv` adds to types, `Indexed` and `Bounded` that the
list is in order of `used` and that no use lies after the clock; `WithinCapacity` is
not inductive alone because `put` evicts only when the size is exactly the capacity.
From it follow `LRUTypeOK`, `IndexMatchesList` (`IndexAgrees`), `WithinCapacity`
(`BoundHolds`), `RecencyOrder`, and the action properties `EvictsLeastRecent` and `EvictionsReported`.

`ObjectProofs`, the sorted set: the invariant `Good` says that the cache is sound, that what it tracks
is present with the score the set has, that what it does not track is pending (or
long), and that nothing is both. The last part is what makes `Drain` harmless
for tracked members, and it holds only between calls: inside `InsertElement` the new
member may be both, and the lemmas about `Linked` and `Drain` follow it through.
From it follow all invariants and action properties of the run `zset`.

`SkipListProofs`: that the chains of `skiplist.h` are sorted, nested and complete is
not inductive as the run states it, because it speaks of paths, and a call changes
pointers. The invariant (`SkipListInv`) is local: on every level, `forward_[i]` of a
node points to the least of the nodes that come after it and are tall enough for the
level (`Ordered`); members are not repeated (`HeapOK`); `node_map_`, `length_` and
`level_` agree with the heap (`ListOK`); and the view as a sorted set is `Good`. From
`Ordered` the search loop stops at the predecessor of the wanted place on each level
(`IsPred`), by induction along the pointers; unlinking and linking at these
predecessors keep `Ordered`, because for every other node the least successor stays
the same; the deletions of the drain are followed round by round. That the level of a
new node is arbitrary, and the address any free one, is part of the step. The
properties of the run then follow by one more induction, from the end of each chain
backwards: `SkipListTypeCorrect`, `SkipListNested`, `SkipListIndexed`. `IsPred` for every
member's own place, whichever copy of the comparison is used, is `SkipListDeletions`.
`SkipListImplementsZSet` is the refinement `ImplementsZSet`: `Init` maps to the
initial states of `ZSetMachine`, and each call, with its reply and the members it
evicts, to the call of the same name. Nothing in these proofs depends on `tail_`,
`backward_` or the spans beyond their types: the code can get them wrong (see
above), and only the destructor follows them.

`ServerProofs`: `AlarmChain` with the types of `alarm` and `timeout` is inductive:
each step leaves SIGALRM where it is or moves it on by one place. The second
invariant of the server is `ServerInv`, in three parts. `DataInv`: every sorted set is
`Good` and finite, and while `update_config` is not set, every set has the capacity
`max_memory`. `LoopInv`: the types of the loop's state, and that `update_config` is
never set in `epoll_wait`. `ClientInv`: the descriptors left of a batch belong to
clients whose command has not been received, and only they have one under way; this
is why a handler never meets a client without a command. `ConfigApplied` follows from
the first two parts. The handlers are shown to keep each part by lemmas of their own
(`HandlersAnswer`, `HandlersKeepLoop`, `HandlersKeepSets`, `HandlersKeepRest`);
`HandlersKeepSets` also says that no command takes a set away, which with `RoundSets`
and `FiredSound` (what Tick returns is due) gives `OnlyTimersErase`. The timer list
has `AfterTickSound`: popping the head again and again, each time by its key, leaves
the list from the first timer with time left, also when keys are repeated.

`ConnectionProofs`: `AloneIsAccepted` needs to know that the batch has no listening
event left while the server waits (`BatchDone`), so that an edge is never taken for two;
then each accept takes away one edge and the head of the queue, and what moves up behind
it found others waiting when it came. `CommandsAlone` needs the whole alternation:
a client that has read only whole replies and is in `read` has either one command on
the way, or one reply (whole, or its number with the server between the writes), or
none of them because its line was silent (`Phase`, `Alternation`, `NoHalfReply`).

`ThreadPoolProofs`: `PopSucceeds` follows from mutual exclusion (`Holder`: a worker
between the lock and the release is the holder), because a submission only makes the
queue longer. `NoTaskTwice` needs that what is queued or held was submitted (`Known`)
and that a worker's flag and variable agree (`Popped`). `StrandedOnlyByRace` is
strengthened to the workers in the step `block`.

`StressProofs`: why may the searches of `stress_test.cpp` run without a lock? The
invariant `StressInv` is the argument. A thread that is running runs main's current
phase, so an insertion and a search are never under way together (`InStep`: nobody
runs beyond what main has started, and what it has joined has ended). A thread that
has ended its insertions has made all its rounds, and each round leaves the member in
the set (`Inserted`); hence after the joins the member is there if there was a round
(`Stored`, of which `SearchFinds` is a consequence: a thread that searches has a
round). `OneEntry` says that the set then has this one member, that the cache tracks
it whatever the length of its name, and that nothing is pending that a drain could
delete. So the head of the LRU list is the entry that `get` looks for, its `splice`
moves nothing, and searches only read (`NoRace`). All of this for any number of
threads and any test counts, with and without a remainder or a round.

`RpcProofs`: types with the two critical sections; what has been handled is an answer
(`Handled`); each request, response and stored result carries the id and the caller
of the call that owns it (`Owned`), because `s_id` gives no id twice; a request is in
one place only, with `InFlight` for the places it can be in (`OnePlace`, `Tracked`,
`Settled`). An answer without an id has none of these, but the method of a request that
was not parsed (part of `Owned`). From these follow `NoCallLeftBehind`, `OwnAnswer` and
`AnswerFindsCall` (`MissesExplained`).

Assumptions: only the named ASSUMEs on the constants, which TLC evaluates in the
runs. The less obvious ones: the addresses of `SkipList` are finitely many
(`AddrAssumption`, a machine's memory), members are ordered like integers
(`KeyOrderAssumption`, standing for the order of `std::string`), the pipe is not the
connection of a client (`ClientAssumption`), the member of the stress test is a key
and `rand() % test_count` a score (`EleAssumption`, `RandAssumption`), the methods that cannot be parsed are not in the router
(`UnparsableAssumption`), and a ZADD with all its words names a
score of the model or no number (`ZaddAssumption`; the numbers of other commands are
any integers).

Only model-checked: all liveness (`TimersFire`, `RequestsAnswered`, `SignalStops`,
`ReadReturns`, `ShutdownReturns`, `CallsReturn`, `MainReturns`), because fairness is
outside the prover's reach. The two violated statements are TLC's counterexamples.
Every other property of a run, invariant, action property or refinement, is a theorem.

## 5. Not modelled, and the plan

* Vendored code (`3rdparty`, `include/hv`, `include/evpp`): most of the repository's
  lines, none of its own logic. The RPC programs use libhv's `TcpClient` and
  `TcpServer`; `RpcClient` models only what their callbacks see.
* `protorpc.c`: pack and unpack of one frame. Frames that `protorpc_unpack` or
  `protorpc_head_check` refuse are dropped by both sides, which for a caller is a lost
  message, and these are modelled; so is a request in a good frame that protobuf
  refuses, which is answered. The texts in the server's responses are ASCII, so the
  client's own `ParseFromArray` (`protorpc_client.cpp:118`) does not fail.
* The RPC part does not build as it stands: the generated protobuf files are
  missing and `base.proto` lacks fields that the code uses; the handlers of the sorted
  set insert nothing yet. The model follows the code as written, with `calc` and
  `login` as the callers.
* `DumpFile` and `LoadFile` have no caller in a built program, and nothing reads back
  what SAVE writes; `DisplayList` prints.
* The getters of `configs.h` that return 0, the singleton, logging and printing.
* `Pop` of a key without a timer, and the destructors of `Timer` and `ThreadPool`.

The plan of modules, runs and theorems is complete. What could be added is the
conversion of numbers (`std::stoi`, `std::to_string`) for a statement about the words
of a command, and a statement of what SAVE leaves behind when a file cannot be opened.
