------------------------------ MODULE RpcClient -----------------------------
(***************************************************************************)
(* ProtoRpcClient of rpc/protorpc/protorpc_client.cpp with the server of   *)
(* protorpc_server.cpp: threads that make calls, the event loop's thread   *)
(* that gets the responses, the connection, and the server.                *)
(*                                                                         *)
(* A call registers its context under a new id, writes the request, waits  *)
(* for a notify or the timeout, and unregisters.  Registering takes no     *)
(* lock, so it can meet another thread inside the map; that, like the two  *)
(* unsynchronised uses of ctx->res, is undefined, and the model stops      *)
(* there (corrupt).  The frames of protorpc.c are taken as messages.       *)
(***************************************************************************)
EXTENDS Integers, Sequences

CONSTANTS
  Caller,     \* the threads that call
  Method,     \* the methods they call
  Unparsable, \* the ones whose request ParseFromArray refuses: not UTF-8
  MaxCalls,   \* bound: the calls that get an id
  None        \* NULL

RouterMethods == {"Zadd", "Zrem", "Zrank", "Zscore"}
Kind == {"result", "empty", "foreign", "error"}
Id == 1..MaxCalls
Answer == [id : 0..MaxCalls, by : Caller, method : Method, kind : Kind]

ASSUME MaxCallsAssumption == MaxCalls \in Nat
ASSUME UnparsableAssumption == Unparsable \subseteq Method \ RouterMethods
ASSUME NoneAssumption == None \notin Answer
ASSUME LoopAssumption == {"free", "loop", "left"} \cap Caller = {}

VARIABLES
  connect_state,
  s_id,        \* the static counter of ids
  calls,       \* the ids registered in the map
  calls_mutex, \* "free", a caller, "loop", or "left" locked by onMessage
  pc,          \* where each caller is in call()
  id,          \* the id of each caller's last request
  method,      \* and its method
  res,         \* ctx->res of the context of each id
  got,         \* what each caller has read from ctx->res
  outcome,     \* the last result of calc() or login()
  loop,        \* the loop's thread: "idle", "find" or "deliver"
  msg,         \* the response it handles
  requests, responses, \* the two directions of the connection
  answers,     \* history: every response the server has made
  gave_up,     \* history: the ids whose wait ended without a response
  corrupt      \* two threads have met in unprotected data

callers == << pc, id, method, got, outcome >>
network == << requests, responses, answers >>
vars == << connect_state, s_id, calls, calls_mutex, pc, id, method, res, got,
           outcome, loop, msg, requests, responses, answers, gave_up, corrupt >>

Init ==
  /\ connect_state = "kConnecting"
  /\ s_id = 0
  /\ calls = {}
  /\ calls_mutex = "free"
  /\ pc = [c \in Caller |-> "idle"]
  /\ id = [c \in Caller |-> 0]
  /\ method = [c \in Caller |-> None]
  /\ res = [i \in Id |-> None]
  /\ got = [c \in Caller |-> None]
  /\ outcome = [c \in Caller |-> None]
  /\ loop = "idle" /\ msg = None
  /\ requests = << >> /\ responses = << >>
  /\ answers = {} /\ gave_up = {}
  /\ corrupt = FALSE

Go(c, to) == pc' = [pc EXCEPT ![c] = to]

-----------------------------------------------------------------------------
(***************************************************************************)
(* The connection and the server.                                          *)
(***************************************************************************)

\* onConnection; libhv reconnects by itself.
Connected ==
  /\ ~corrupt
  /\ connect_state # "kConnected"
  /\ connect_state' = "kConnected"
  /\ UNCHANGED << s_id, calls, calls_mutex, callers, res, loop, msg, network,
                  gave_up, corrupt >>

\* What is under way on the connection is lost.
Disconnected ==
  /\ ~corrupt
  /\ connect_state # "kDisconnectd"
  /\ connect_state' = "kDisconnectd"
  /\ requests' = << >> /\ responses' = << >>
  /\ UNCHANGED << s_id, calls, calls_mutex, callers, res, loop, msg, answers,
                  gave_up, corrupt >>

\* What the response to a method may be: its handler's result or
\* bad_request; not_found for a method that is not in the router, and
\* bad_request for a request that was not parsed.
Routed(m) == IF m \in RouterMethods THEN Kind ELSE {"error"}

\* The response carries the id of the request (set_id), but a request that
\* was not parsed is answered without one, and an id not set is read as 0.
\* The caller and the method are history.
Response(r, k) ==
  [id |-> IF r.method \in Unparsable THEN 0 ELSE r.id,
   by |-> r.by, method |-> r.method, kind |-> k]

\* handleMessage
HandleMessage ==
  /\ ~corrupt
  /\ requests # << >>
  /\ \E k \in Routed(Head(requests).method) :
       LET a == Response(Head(requests), k)
       IN  /\ responses' = Append(responses, a)
           /\ answers' = answers \cup {a}
  /\ requests' = Tail(requests)
  /\ UNCHANGED << connect_state, s_id, calls, calls_mutex, callers, res, loop,
                  msg, gave_up, corrupt >>

-----------------------------------------------------------------------------
(***************************************************************************)
(* call(), and calc() and login() around it.                               *)
(***************************************************************************)
Result(r) ==
  IF r = None THEN "kRpcTimeout"
  ELSE [error |-> "kRpcError", empty |-> "kRpcNoResult",
        foreign |-> "kRpcParseError", result |-> "kRpcSuccess"][r.kind]

\* Without a connection call() returns NULL at once.
CallUnconnected(c) ==
  /\ ~corrupt
  /\ pc[c] = "idle"
  /\ connect_state # "kConnected"
  /\ outcome' = [outcome EXCEPT ![c] = Result(None)]
  /\ UNCHANGED << connect_state, s_id, calls, calls_mutex, pc, id, method, got,
                  res, loop, msg, network, gave_up, corrupt >>

\* Faulty: the counter is incremented and read in two steps.
CallTornId(c, m) ==
  /\ ~corrupt
  /\ pc[c] = "idle"
  /\ connect_state = "kConnected"
  /\ s_id < MaxCalls
  /\ s_id' \in {s_id, s_id + 1} \cap Id
  /\ id' = [id EXCEPT ![c] = s_id']
  /\ method' = [method EXCEPT ![c] = m]
  /\ outcome' = [outcome EXCEPT ![c] = None]
  /\ Go(c, "insert")
  /\ UNCHANGED << connect_state, calls, calls_mutex, got, res, loop, msg,
                  network, gave_up, corrupt >>

\* ++s_id is one atomic step.
Call(c, m) ==
  /\ ~corrupt
  /\ pc[c] = "idle"
  /\ connect_state = "kConnected"
  /\ s_id < MaxCalls
  /\ s_id' = s_id + 1
  /\ id' = [id EXCEPT ![c] = s_id + 1]
  /\ method' = [method EXCEPT ![c] = m]
  /\ outcome' = [outcome EXCEPT ![c] = None]
  /\ Go(c, "insert")
  /\ UNCHANGED << connect_state, calls, calls_mutex, got, res, loop, msg,
                  network, gave_up, corrupt >>

\* calls[req->id()] = ctx, without calls_mutex.
Register(c) ==
  /\ ~corrupt
  /\ pc[c] = "insert"
  /\ calls' = calls \cup {id[c]}
  /\ Go(c, "write")
  /\ UNCHANGED << connect_state, s_id, calls_mutex, id, method, got, outcome,
                  res, loop, msg, network, gave_up, corrupt >>

\* The request goes out, or is lost when the connection is down.
WriteRequest(c) ==
  /\ ~corrupt
  /\ pc[c] = "write"
  /\ requests' = IF connect_state = "kConnected"
                 THEN Append(requests, [id |-> id[c], by |-> c, method |-> method[c]])
                 ELSE requests
  /\ Go(c, "written")
  /\ UNCHANGED << connect_state, s_id, calls, calls_mutex, id, method, got,
                  outcome, res, loop, msg, responses, answers, gave_up, corrupt >>

\* wait_for has no predicate: a notify that came before is lost.
Wait(c) ==
  /\ ~corrupt
  /\ pc[c] = "written"
  /\ Go(c, "waiting")
  /\ UNCHANGED << connect_state, s_id, calls, calls_mutex, id, method, got,
                  outcome, res, loop, msg, network, gave_up, corrupt >>

\* Faulty: wait in place of wait_for: only a response ends it.
WaitForResponse(c) ==
  /\ ~corrupt
  /\ pc[c] = "waiting"
  /\ res[id[c]] # None
  /\ Go(c, "read")
  /\ UNCHANGED << connect_state, s_id, calls, calls_mutex, id, method, got,
                  outcome, res, loop, msg, network, gave_up, corrupt >>

\* wait_for returns after timeout_ms, or spuriously before.
Timeout(c) ==
  /\ ~corrupt
  /\ pc[c] = "waiting"
  /\ Go(c, "read")
  /\ gave_up' = IF res[id[c]] = None THEN gave_up \cup {id[c]} ELSE gave_up
  /\ UNCHANGED << connect_state, s_id, calls, calls_mutex, id, method, got,
                  outcome, res, loop, msg, network, corrupt >>

\* auto res = ctx->res
ReadRes(c) ==
  /\ ~corrupt
  /\ pc[c] = "read"
  /\ got' = [got EXCEPT ![c] = res[id[c]]]
  /\ Go(c, "lock")
  /\ UNCHANGED << connect_state, s_id, calls, calls_mutex, id, method, outcome,
                  res, loop, msg, network, gave_up, corrupt >>

LockCalls(c) ==
  /\ ~corrupt
  /\ pc[c] = "lock"
  /\ calls_mutex = "free"
  /\ calls_mutex' = c
  /\ Go(c, "erase")
  /\ UNCHANGED << connect_state, s_id, calls, id, method, got, outcome, res,
                  loop, msg, network, gave_up, corrupt >>

\* Faulty: a call that has timed out returns before it unregisters.
EraseAnswered(c) ==
  /\ ~corrupt
  /\ pc[c] = "erase"
  /\ calls' = IF got[c] = None THEN calls ELSE calls \ {id[c]}
  /\ calls_mutex' = "free"
  /\ outcome' = [outcome EXCEPT ![c] = Result(got[c])]
  /\ Go(c, "idle")
  /\ UNCHANGED << connect_state, s_id, id, method, got, res, loop, msg,
                  network, gave_up, corrupt >>

\* Faulty: the map is cleared.
EraseAll(c) ==
  /\ ~corrupt
  /\ pc[c] = "erase"
  /\ calls' = {}
  /\ calls_mutex' = "free"
  /\ outcome' = [outcome EXCEPT ![c] = Result(got[c])]
  /\ Go(c, "idle")
  /\ UNCHANGED << connect_state, s_id, id, method, got, res, loop, msg,
                  network, gave_up, corrupt >>

\* erase, unlock, and the return of call().
Erase(c) ==
  /\ ~corrupt
  /\ pc[c] = "erase"
  /\ calls' = calls \ {id[c]}
  /\ calls_mutex' = "free"
  /\ outcome' = [outcome EXCEPT ![c] = Result(got[c])]
  /\ Go(c, "idle")
  /\ UNCHANGED << connect_state, s_id, id, method, got, res, loop, msg,
                  network, gave_up, corrupt >>

-----------------------------------------------------------------------------
(***************************************************************************)
(* onMessage, in the loop's thread.                                        *)
(***************************************************************************)
OnMessage ==
  /\ ~corrupt
  /\ loop = "idle"
  /\ responses # << >>
  /\ calls_mutex = "free"
  /\ calls_mutex' = "loop"
  /\ loop' = "find"
  /\ msg' = Head(responses)
  /\ responses' = Tail(responses)
  /\ UNCHANGED << connect_state, s_id, calls, callers, res, requests, answers,
                  gave_up, corrupt >>

\* An id that is not in the map returns with the mutex locked.
Find ==
  /\ ~corrupt
  /\ loop = "find"
  /\ \/ /\ msg.id \in calls
        /\ calls_mutex' = "free"
        /\ loop' = "deliver"
     \/ /\ msg.id \notin calls
        /\ calls_mutex' = "left"
        /\ loop' = "idle"
  /\ UNCHANGED << connect_state, s_id, calls, callers, res, msg, network,
                  gave_up, corrupt >>

\* ctx->res = res and notify().
Deliver ==
  /\ ~corrupt
  /\ loop = "deliver"
  /\ res' = [res EXCEPT ![msg.id] = msg]
  /\ pc' = [c \in Caller |-> IF pc[c] = "waiting" /\ id[c] = msg.id
                             THEN "read" ELSE pc[c]]
  /\ loop' = "idle"
  /\ UNCHANGED << connect_state, s_id, calls, calls_mutex, id, method, got,
                  outcome, msg, network, gave_up, corrupt >>

\* A thread registers while another is inside the map, or the loop assigns
\* ctx->res while the caller reads it.
Race ==
  /\ ~corrupt
  /\ \E c \in Caller :
       \/ /\ pc[c] = "insert"
          /\ loop = "find" \/ \E d \in Caller \ {c} : pc[d] \in {"insert", "erase"}
       \/ pc[c] = "read" /\ loop = "deliver" /\ msg.id = id[c]
  /\ corrupt' = TRUE
  /\ UNCHANGED << connect_state, s_id, calls, calls_mutex, callers, res, loop,
                  msg, network, gave_up >>

Calling(c) ==
  \/ Register(c) \/ WriteRequest(c) \/ Wait(c) \/ Timeout(c) \/ ReadRes(c)
  \/ LockCalls(c) \/ Erase(c)

Receiving == OnMessage \/ Find \/ Deliver

Next ==
  \/ Connected \/ Disconnected \/ HandleMessage \/ Receiving \/ Race
  \/ \E c \in Caller :
       \/ CallUnconnected(c) \/ Calling(c)
       \/ \E m \in Method : Call(c, m)

\* The threads run on and the wait of a call ends; the connection and the
\* server promise nothing.
Fairness == WF_vars(Receiving) /\ \A c \in Caller : WF_vars(Calling(c))

Spec == Init /\ [][Next]_vars /\ Fairness

-----------------------------------------------------------------------------
(***************************************************************************)
(* Properties.                                                             *)
(***************************************************************************)
Request == [id : Id, by : Caller, method : Method]

\* The types of the client's members and of the locals of its threads, and
\* which thread is inside which critical section.
TypeOK ==
  /\ connect_state \in {"kConnecting", "kConnected", "kDisconnectd"}
  /\ s_id \in 0..MaxCalls
  /\ calls \subseteq Id /\ gave_up \subseteq Id
  /\ pc \in [Caller -> {"idle", "insert", "write", "written", "waiting",
                        "read", "lock", "erase"}]
  /\ id \in [Caller -> 0..MaxCalls]
  /\ method \in [Caller -> Method \cup {None}]
  /\ res \in [Id -> Answer \cup {None}]
  /\ got \in [Caller -> Answer \cup {None}]
  /\ outcome \in [Caller -> {None, "kRpcSuccess", "kRpcTimeout", "kRpcError",
                             "kRpcNoResult", "kRpcParseError"}]
  /\ loop \in {"idle", "find", "deliver"}
  /\ msg \in Answer \cup {None}
  /\ requests \in Seq(Request) /\ responses \in Seq(Answer)
  /\ answers \subseteq Answer
  /\ corrupt \in BOOLEAN
  /\ calls_mutex \in Caller \cup {"free", "loop", "left"}
  /\ \A c \in Caller : pc[c] = "erase" <=> calls_mutex = c
  /\ loop = "find" <=> calls_mutex = "loop"

\* A call ends in a timeout or in the outcome of an answer that the server
\* gave to this very request: however calls of several threads, late
\* responses and reconnections interleave, no call gets another one's answer.
OwnAnswer ==
  \A c \in Caller :
    outcome[c] \notin {None, "kRpcTimeout"} =>
      \E a \in answers : a.id = id[c] /\ a.by = c /\ outcome[c] = Result(a)

\* A response finds its call in the map unless that call has given up or the
\* server could not parse its request: the branch of onMessage that leaves
\* the mutex locked needs a late response or a response without an id.
AnswerFindsCall ==
  loop = "find" => msg.id \in calls \cup gave_up \/ msg.method \in Unparsable

\* The map holds calls that are under way only: none stays behind.
NoCallLeftBehind ==
  calls \subseteq {id[c] : c \in {d \in Caller : pc[d] \notin {"idle", "insert"}}}

\* Every call comes to its end, unless a response that was late or without
\* an id has left the mutex locked, or two threads have met in unprotected
\* data.
CallsReturn ==
  \A c \in Caller :
    (pc[c] # "idle") ~> (pc[c] = "idle" \/ calls_mutex = "left" \/ corrupt)
=============================================================================
