----------------------------- MODULE RpcProofs ------------------------------
(***************************************************************************)
(* Proofs about RpcClient for any calling threads, methods and number of   *)
(* calls.  An id belongs to one call; a request, a response and what       *)
(* onMessage stores carry the id and the caller of one call along; and     *)
(* once a response is stored for an id, nothing with that id is under way. *)
(***************************************************************************)
EXTENDS RpcClient, TLAPS

LEMMA AppendFacts ==
  ASSUME NEW S, NEW q \in Seq(S), NEW x \in S
  PROVE  /\ Append(q, x) \in Seq(S)
         /\ DOMAIN Append(q, x) = DOMAIN q \cup {Len(q) + 1}
         /\ \A i \in DOMAIN q : Append(q, x)[i] = q[i]
         /\ Append(q, x)[Len(q) + 1] = x
         /\ Len(q) + 1 \notin DOMAIN q
OBVIOUS

LEMMA TailFacts ==
  ASSUME NEW S, NEW q \in Seq(S), q # << >>
  PROVE  /\ Head(q) \in S
         /\ Tail(q) \in Seq(S)
         /\ Head(q) = q[1] /\ 1 \in DOMAIN q
         /\ \A i \in DOMAIN Tail(q) : /\ i + 1 \in DOMAIN q
                                      /\ Tail(q)[i] = q[i + 1]
                                      /\ i + 1 # 1
         /\ \A i, j \in DOMAIN Tail(q) : i + 1 = j + 1 => i = j
OBVIOUS

\* The record that HandleMessage makes is an answer, with the id of the
\* request or, for one that was not parsed, with none.
LEMMA AnswerType ==
  ASSUME NEW r \in Request, NEW k \in Kind
  PROVE  /\ Response(r, k) \in Answer
         /\ Response(r, k).by = r.by
         /\ Response(r, k).id = 0 => Response(r, k).method \in Unparsable
         /\ Response(r, k).id # 0 => Response(r, k).id = r.id
<1>1. r.id \in Id /\ 0 \notin Id /\ Id \subseteq 0..MaxCalls /\ 0 \in 0..MaxCalls
  BY MaxCallsAssumption DEF Request, Id
<1>2. r.by \in Caller /\ r.method \in Method
  BY DEF Request
<1> QED
  BY <1>1, <1>2 DEF Response, Answer

LEMMA RoutedType == \A m : Routed(m) \subseteq Kind
BY DEF Routed, Kind

-----------------------------------------------------------------------------
\* Beyond the types: a call under way has an id that was given out, and while
\* the loop's thread handles a message, msg is one.
Handled ==
  /\ \A c \in Caller : /\ id[c] <= s_id
                       /\ pc[c] # "idle" => id[c] \in Id /\ method[c] \in Method
  /\ loop # "idle" => msg \in Answer
  /\ loop = "deliver" => msg.id \in Id

LEMMA TypeInit ==
  ASSUME Init
  PROVE  TypeOK /\ Handled
<1>1. requests \in Seq(Request) /\ responses \in Seq(Answer)
  BY DEF Init
<1>2. corrupt \in BOOLEAN
  BY DEF Init
<1>3. /\ connect_state \in {"kConnecting", "kConnected", "kDisconnectd"}
      /\ s_id \in 0..MaxCalls
      /\ calls \subseteq Id /\ gave_up \subseteq Id
      /\ id \in [Caller -> 0..MaxCalls]
      /\ method \in [Caller -> Method \cup {None}]
      /\ res \in [Id -> Answer \cup {None}]
      /\ got \in [Caller -> Answer \cup {None}]
  BY MaxCallsAssumption DEF Init
<1>4. /\ pc \in [Caller -> {"idle", "insert", "write", "written", "waiting",
                            "read", "lock", "erase"}]
      /\ outcome \in [Caller -> {None, "kRpcSuccess", "kRpcTimeout", "kRpcError",
                                 "kRpcNoResult", "kRpcParseError"}]
      /\ loop \in {"idle", "find", "deliver"}
      /\ msg \in Answer \cup {None}
      /\ answers \subseteq Answer
      /\ calls_mutex \in Caller \cup {"free", "loop", "left"}
  BY DEF Init
<1>5. /\ \A c \in Caller : pc[c] = "erase" <=> calls_mutex = c
      /\ loop = "find" <=> calls_mutex = "loop"
  BY LoopAssumption DEF Init
<1>6. Handled
  BY DEF Init, Handled
<1> QED
  BY <1>1, <1>2, <1>3, <1>4, <1>5, <1>6 DEF TypeOK

LEMMA ResultType ==
  \A r \in Answer \cup {None} :
    Result(r) \in {"kRpcSuccess", "kRpcTimeout", "kRpcError", "kRpcNoResult",
                   "kRpcParseError"}
BY NoneAssumption DEF Result, Answer, Kind

LEMMA TypeStep ==
  ASSUME TypeOK, Handled, [Next]_vars
  PROVE  TypeOK' /\ Handled'
<1> USE DEF callers, network, Go
<1>0. \A c \in Caller : c # "free" /\ c # "loop" /\ c # "left"
  BY LoopAssumption
<1>1. CASE Connected
  BY <1>1 DEF Connected, TypeOK, Handled
<1>2. CASE Disconnected
  <2>1. requests' \in Seq(Request) /\ responses' \in Seq(Answer)
    BY <1>2 DEF Disconnected
  <2> QED
    BY <1>2, <2>1 DEF Disconnected, TypeOK, Handled
<1>3. CASE HandleMessage
  <2>1. Head(requests) \in Request /\ requests' \in Seq(Request)
    BY <1>3, TailFacts DEF HandleMessage, TypeOK
  <2>2. PICK k \in Routed(Head(requests).method) :
          LET a == Response(Head(requests), k)
          IN  responses' = Append(responses, a) /\ answers' = answers \cup {a}
    BY <1>3 DEF HandleMessage
  <2> DEFINE a == Response(Head(requests), k)
  <2>3. a \in Answer
    BY <2>1, RoutedType, AnswerType
  <2> HIDE DEF a
  <2>4. responses' \in Seq(Answer) /\ answers' \subseteq Answer
    BY <2>2, <2>3, AppendFacts DEF a, TypeOK
  <2> QED
    BY <1>3, <2>1, <2>4 DEF HandleMessage, TypeOK, Handled
<1>4. CASE OnMessage
  <2>1. Head(responses) \in Answer /\ responses' \in Seq(Answer)
    BY <1>4, TailFacts DEF OnMessage, TypeOK
  <2> QED
    BY <1>4, <2>1, <1>0 DEF OnMessage, TypeOK, Handled
<1>5. CASE Find
  <2>1. loop' = "deliver" => msg'.id \in Id
    BY <1>5 DEF Find, TypeOK
  <2> QED
    BY <1>5, <1>0, <2>1 DEF Find, TypeOK, Handled
<1>6. CASE Deliver
  <2>1. res' \in [Id -> Answer \cup {None}]
    BY <1>6 DEF Deliver, TypeOK, Handled, Answer
  <2>2. pc' \in [Caller -> {"idle", "insert", "write", "written", "waiting",
                            "read", "lock", "erase"}]
    BY <1>6 DEF Deliver, TypeOK
  <2>3. \A c \in Caller : /\ pc'[c] = "erase" <=> pc[c] = "erase"
                          /\ pc'[c] = "idle" <=> pc[c] = "idle"
    BY <1>6 DEF Deliver, TypeOK
  <2>4. loop' = "idle" /\ calls_mutex' = calls_mutex /\ calls_mutex # "loop"
    BY <1>6 DEF Deliver, TypeOK
  <2> QED
    BY <1>6, <2>1, <2>2, <2>3, <2>4 DEF Deliver, TypeOK, Handled
<1>7. CASE Race
  <2>1. corrupt' \in BOOLEAN
    BY <1>7 DEF Race
  <2> QED
    BY <1>7, <2>1 DEF Race, TypeOK, Handled
<1>8. ASSUME NEW c \in Caller, CallUnconnected(c) PROVE TypeOK' /\ Handled'
  <2>1. Result(None) = "kRpcTimeout"
    BY DEF Result
  <2> QED
    BY <1>8, <2>1 DEF CallUnconnected, TypeOK, Handled
<1>9. ASSUME NEW c \in Caller, NEW m \in Method, Call(c, m) PROVE TypeOK' /\ Handled'
  <2>1. s_id' \in 0..MaxCalls /\ s_id + 1 \in Id /\ s_id' = s_id + 1
    BY <1>9, MaxCallsAssumption DEF Call, TypeOK, Id
  <2>2. /\ id' \in [Caller -> 0..MaxCalls]
        /\ id'[c] = s_id'
        /\ \A d \in Caller : d # c => id'[d] = id[d]
        /\ \A d \in Caller : id'[d] <= s_id'
    BY <1>9, <2>1, MaxCallsAssumption DEF Call, TypeOK, Handled, Id
  <2>3. method' \in [Caller -> Method \cup {None}]
    BY <1>9 DEF Call, TypeOK
  <2>4. outcome' \in [Caller -> {None, "kRpcSuccess", "kRpcTimeout", "kRpcError",
                                 "kRpcNoResult", "kRpcParseError"}]
    BY <1>9 DEF Call, TypeOK
  <2>5. /\ pc' \in [Caller -> {"idle", "insert", "write", "written", "waiting",
                               "read", "lock", "erase"}]
        /\ \A d \in Caller : pc'[d] = "erase" <=> pc[d] = "erase"
    BY <1>9 DEF Call, TypeOK
  <2>6. TypeOK'
    BY <1>9, <2>1, <2>2, <2>3, <2>4, <2>5 DEF Call, TypeOK
  <2>7. \A d \in Caller : pc'[d] # "idle" => id'[d] \in Id /\ method'[d] \in Method
    BY <1>9, <2>1, <2>2 DEF Call, TypeOK, Handled
  <2> QED
    BY <1>9, <2>2, <2>6, <2>7 DEF Call, Handled
<1>10. ASSUME NEW c \in Caller, Register(c) PROVE TypeOK' /\ Handled'
  BY <1>10 DEF Register, TypeOK, Handled
<1>11. ASSUME NEW c \in Caller, WriteRequest(c) PROVE TypeOK' /\ Handled'
  <2>1. [id |-> id[c], by |-> c, method |-> method[c]] \in Request
    BY <1>11 DEF WriteRequest, Handled, Request
  <2>2. requests' \in Seq(Request)
    BY <1>11, <2>1, AppendFacts DEF WriteRequest, TypeOK
  <2> QED
    BY <1>11, <2>2 DEF WriteRequest, TypeOK, Handled
<1>12. ASSUME NEW c \in Caller, Wait(c) PROVE TypeOK' /\ Handled'
  BY <1>12 DEF Wait, TypeOK, Handled
<1>13. ASSUME NEW c \in Caller, Timeout(c) PROVE TypeOK' /\ Handled'
  <2>1. gave_up' \subseteq Id
    BY <1>13 DEF Timeout, TypeOK, Handled
  <2> QED
    BY <1>13, <2>1 DEF Timeout, TypeOK, Handled
<1>14. ASSUME NEW c \in Caller, ReadRes(c) PROVE TypeOK' /\ Handled'
  BY <1>14 DEF ReadRes, TypeOK, Handled
<1>15. ASSUME NEW c \in Caller, LockCalls(c) PROVE TypeOK' /\ Handled'
  BY <1>15, <1>0 DEF LockCalls, TypeOK, Handled
<1>16. ASSUME NEW c \in Caller, Erase(c) PROVE TypeOK' /\ Handled'
  <2>1. Result(got[c]) \in {"kRpcSuccess", "kRpcTimeout", "kRpcError",
                            "kRpcNoResult", "kRpcParseError"}
    BY ResultType DEF TypeOK
  <2>2. outcome' \in [Caller -> {None, "kRpcSuccess", "kRpcTimeout", "kRpcError",
                                 "kRpcNoResult", "kRpcParseError"}]
    BY <1>16, <2>1 DEF Erase, TypeOK
  <2> QED
    BY <1>16, <2>2, <1>0 DEF Erase, TypeOK, Handled
<1>17. CASE UNCHANGED vars
  BY <1>17 DEF vars, TypeOK, Handled
<1> QED
  BY <1>1, <1>2, <1>3, <1>4, <1>5, <1>6, <1>7, <1>8, <1>9, <1>10, <1>11,
     <1>12, <1>13, <1>14, <1>15, <1>16, <1>17 DEF Next, Receiving, Calling

\* The client's members and its threads' locals keep their types, and
\* calls_mutex (protorpc_client.cpp lines 122, 168) has one holder at most.
THEOREM TypeCorrect == Spec => []TypeOK
<1>1. Init => TypeOK /\ Handled
  BY TypeInit
<1>2. TypeOK /\ Handled /\ [Next]_vars => (TypeOK /\ Handled)'
  BY TypeStep
<1> QED
  BY <1>1, <1>2, PTL DEF Spec

-----------------------------------------------------------------------------
\* Erase removes the caller's own id; the others' are still accounted for by
\* their callers, and a call's next id is registered only after pc has moved.
LEMMA LeftBehindStep ==
  ASSUME TypeOK, NoCallLeftBehind, [Next]_vars
  PROVE  NoCallLeftBehind'
<1> USE DEF callers, network, Go
<1> DEFINE Under(c) == pc[c] \notin {"idle", "insert"}
<1>1. NoCallLeftBehind <=> \A i \in calls : \E c \in Caller : Under(c) /\ id[c] = i
  BY DEF NoCallLeftBehind
<1>2. NoCallLeftBehind' <=> \A i \in calls' : \E c \in Caller : Under(c)' /\ id'[c] = i
  BY DEF NoCallLeftBehind
<1>3. ASSUME calls' \subseteq calls,
             \A c \in Caller : Under(c) => Under(c)' /\ id'[c] = id[c]
      PROVE  NoCallLeftBehind'
  BY <1>1, <1>2, <1>3
<1>4. ASSUME NEW c \in Caller, NEW m \in Method, Call(c, m) PROVE NoCallLeftBehind'
  <2>1. calls' = calls /\ pc[c] = "idle"
    BY <1>4 DEF Call
  <2>2. \A d \in Caller : d # c => pc'[d] = pc[d] /\ id'[d] = id[d]
    BY <1>4 DEF Call, TypeOK
  <2> QED
    BY <2>1, <2>2, <1>3
<1>5. ASSUME NEW c \in Caller, Register(c) PROVE NoCallLeftBehind'
  <2>1. calls' = calls \cup {id[c]} /\ id' = id /\ pc'[c] = "write"
    BY <1>5 DEF Register, TypeOK
  <2>2. \A d \in Caller : d # c => pc'[d] = pc[d]
    BY <1>5 DEF Register, TypeOK
  <2> QED
    BY <2>1, <2>2, <1>1, <1>2
<1>6. ASSUME NEW c \in Caller, Erase(c) PROVE NoCallLeftBehind'
  <2>1. calls' = calls \ {id[c]} /\ id' = id
    BY <1>6 DEF Erase
  <2>2. \A d \in Caller : d # c => pc'[d] = pc[d]
    BY <1>6 DEF Erase, TypeOK
  <2> QED
    BY <2>1, <2>2, <1>1, <1>2
<1>7. ASSUME NEW c \in Caller,
             \/ WriteRequest(c) \/ Wait(c) \/ Timeout(c) \/ ReadRes(c) \/ LockCalls(c)
      PROVE  NoCallLeftBehind'
  <2>1. calls' = calls /\ id' = id
    BY <1>7 DEF WriteRequest, Wait, Timeout, ReadRes, LockCalls
  <2>2. \A d \in Caller : Under(d) => Under(d)'
    BY <1>7 DEF WriteRequest, Wait, Timeout, ReadRes, LockCalls, TypeOK
  <2> QED
    BY <2>1, <2>2, <1>3
<1>8. CASE Deliver
  <2>1. calls' = calls /\ id' = id
    BY <1>8 DEF Deliver
  <2>2. \A d \in Caller : Under(d) => Under(d)'
    BY <1>8 DEF Deliver, TypeOK
  <2> QED
    BY <2>1, <2>2, <1>3
<1>9. CASE \/ Connected \/ Disconnected \/ HandleMessage \/ OnMessage \/ Find \/ Race
           \/ (\E c \in Caller : CallUnconnected(c)) \/ UNCHANGED vars
  <2>1. calls' = calls /\ id' = id /\ pc' = pc
    BY <1>9 DEF Connected, Disconnected, HandleMessage, OnMessage, Find, Race,
                CallUnconnected, vars
  <2> QED
    BY <2>1, <1>3
<1> QED
  BY <1>4, <1>5, <1>6, <1>7, <1>8, <1>9 DEF Next, Receiving, Calling

\* The map `calls' holds no call that has returned: each one is erased
\* (protorpc_client.cpp line 169), whether it was answered or timed out.
THEOREM NoneLeftBehind == Spec => []NoCallLeftBehind
<1> DEFINE I == TypeOK /\ Handled /\ NoCallLeftBehind
<1>1. Init => I
  BY TypeInit DEF Init, NoCallLeftBehind
<1>2. I /\ [Next]_vars => I'
  BY TypeStep, LeftBehindStep
<1>3. I => NoCallLeftBehind
  OBVIOUS
<1> QED
  BY <1>1, <1>2, <1>3, PTL DEF Spec

-----------------------------------------------------------------------------
\* A request or an answer belongs to the call it names: its id was given out,
\* and a caller whose last id it is made it.
Belongs(r) == r.id <= s_id /\ \A c \in Caller : id[c] = r.id /\ r.id # 0 => r.by = c

\* No two callers have the same id, and what passes from HandleMessage to the
\* end of a call is an answer that the server made for its id.
Owned ==
  /\ \A c, d \in Caller : id[c] = id[d] /\ id[c] # 0 => c = d
  /\ \A k \in DOMAIN requests : Belongs(requests[k])
  /\ \A a \in answers : Belongs(a) /\ (a.id = 0 => a.method \in Unparsable)
  /\ \A k \in DOMAIN responses : responses[k] \in answers
  /\ loop # "idle" => msg \in answers
  /\ \A i \in Id : res[i] # None => res[i] \in answers /\ res[i].id = i
  /\ \A c \in Caller : pc[c] \in {"lock", "erase"} /\ got[c] # None =>
                         got[c] \in answers /\ got[c].id = id[c]

LEMMA OwnedStep ==
  ASSUME TypeOK, Handled, Owned, [Next]_vars
  PROVE  Owned'
<1> USE DEF callers, network, Go
<1>1. CASE Connected
  BY <1>1 DEF Connected, Owned, Belongs
<1>2. CASE Disconnected
  <2>1. DOMAIN requests' = {} /\ DOMAIN responses' = {}
    BY <1>2 DEF Disconnected
  <2> QED
    BY <1>2, <2>1 DEF Disconnected, Owned, Belongs
<1>3. CASE HandleMessage
  <2>1. PICK k \in Routed(Head(requests).method) :
          LET a == Response(Head(requests), k)
          IN  responses' = Append(responses, a) /\ answers' = answers \cup {a}
    BY <1>3 DEF HandleMessage
  <2> DEFINE a == Response(Head(requests), k)
  <2>3. /\ Head(requests) \in Request
        /\ Head(requests) = requests[1] /\ 1 \in DOMAIN requests
        /\ \A i \in DOMAIN requests' : i + 1 \in DOMAIN requests /\ requests'[i] = requests[i + 1]
    BY <1>3, TailFacts DEF HandleMessage, TypeOK
  <2>4. /\ a \in Answer /\ a.by = Head(requests).by
        /\ a.id = 0 => a.method \in Unparsable
        /\ a.id # 0 => a.id = Head(requests).id
    BY <2>3, RoutedType, AnswerType
  <2> HIDE DEF a
  <2>5. responses' = Append(responses, a) /\ answers' = answers \cup {a}
    BY <2>1 DEF a
  <2>6. \A i \in DOMAIN responses' : responses'[i] \in answers'
    BY <2>4, <2>5, AppendFacts DEF Owned, TypeOK
  <2>7. Belongs(a)
    BY <2>3, <2>4 DEF Owned, Belongs, TypeOK
  <2>8. \A x : Belongs(x)' <=> Belongs(x)
    BY <1>3 DEF HandleMessage, Belongs
  <2>9. /\ \A i \in DOMAIN requests' : Belongs(requests'[i])
        /\ \A x \in answers' : Belongs(x) /\ (x.id = 0 => x.method \in Unparsable)
    BY <2>3, <2>4, <2>5, <2>7 DEF Owned
  <2>10. /\ \A i \in DOMAIN requests' : Belongs(requests[i])'
         /\ \A x \in answers' : Belongs(x)' /\ (x.id = 0 => x.method \in Unparsable)
    BY <1>3, <2>9 DEF HandleMessage, Belongs
  <2> QED
    BY <1>3, <2>5, <2>6, <2>10 DEF HandleMessage, Owned
<1>4. CASE OnMessage
  <2>1. /\ Head(responses) = responses[1] /\ 1 \in DOMAIN responses
        /\ \A i \in DOMAIN responses' : i + 1 \in DOMAIN responses /\ responses'[i] = responses[i + 1]
    BY <1>4, TailFacts DEF OnMessage, TypeOK
  <2> QED
    BY <1>4, <2>1 DEF OnMessage, Owned, Belongs
<1>5. CASE Find
  BY <1>5 DEF Find, Owned, Belongs
<1>6. CASE Deliver
  <2>1. \A i \in Id : res'[i] # None => res'[i] \in answers /\ res'[i].id = i
    BY <1>6 DEF Deliver, Owned, TypeOK
  <2>2. \A c \in Caller : pc'[c] \in {"lock", "erase"} => pc[c] \in {"lock", "erase"}
    BY <1>6 DEF Deliver, TypeOK
  <2> QED
    BY <1>6, <2>1, <2>2 DEF Deliver, Owned, Belongs
<1>7. CASE Race
  BY <1>7 DEF Race, Owned, Belongs
<1>8. ASSUME NEW c \in Caller, CallUnconnected(c) PROVE Owned'
  BY <1>8 DEF CallUnconnected, Owned, Belongs
<1>9. ASSUME NEW c \in Caller, NEW m \in Method, Call(c, m) PROVE Owned'
  <2>1. /\ s_id \in Nat /\ s_id' = s_id + 1
        /\ id'[c] = s_id + 1 /\ \A d \in Caller : d # c => id'[d] = id[d]
        /\ \A d \in Caller : id[d] \in Nat /\ id[d] <= s_id
    BY <1>9, MaxCallsAssumption DEF Call, TypeOK, Handled
  <2>2. \A x, y \in Caller : id'[x] = id'[y] /\ id'[x] # 0 => x = y
    BY <2>1 DEF Owned
  <2>3. \A d \in Caller : pc'[d] \in {"lock", "erase"} => d # c /\ pc[d] \in {"lock", "erase"}
    BY <1>9 DEF Call, TypeOK
  <2>4. /\ \A k \in DOMAIN requests : requests[k].id \in Nat
        /\ \A a \in answers : a.id \in Nat
    <3>1. \A r \in Request : r.id \in Nat
      BY MaxCallsAssumption DEF Request, Id
    <3>2. \A a \in Answer : a.id \in Nat
      BY MaxCallsAssumption DEF Answer, Id
    <3>3. \A k \in DOMAIN requests : requests[k] \in Request
      BY DEF TypeOK
    <3> QED
      BY <3>1, <3>2, <3>3 DEF TypeOK
  <2>5. /\ \A k \in DOMAIN requests : Belongs(requests[k])'
        /\ \A a \in answers : Belongs(a)'
    BY <1>9, <2>1, <2>4 DEF Call, Owned, Belongs
  <2> QED
    BY <1>9, <2>1, <2>2, <2>3, <2>5 DEF Call, Owned
<1>10. ASSUME NEW c \in Caller, Register(c) PROVE Owned'
  BY <1>10 DEF Register, Owned, Belongs, TypeOK
<1>11. ASSUME NEW c \in Caller, WriteRequest(c) PROVE Owned'
  <2> DEFINE r == [id |-> id[c], by |-> c, method |-> method[c]]
  <2>1. r \in Request
    BY <1>11 DEF WriteRequest, Handled, Request
  <2>2. Belongs(r)
    BY <1>11, MaxCallsAssumption DEF WriteRequest, Handled, Owned, Belongs, Id
  <2>3. requests' = requests \/ requests' = Append(requests, r)
    BY <1>11 DEF WriteRequest
  <2> HIDE DEF r
  <2>4. \A k \in DOMAIN requests' : Belongs(requests'[k])
    <3>1. CASE requests' = requests
      BY <3>1 DEF Owned
    <3>2. CASE requests' = Append(requests, r)
      <4>1. /\ DOMAIN requests' = DOMAIN requests \cup {Len(requests) + 1}
            /\ \A k \in DOMAIN requests : requests'[k] = requests[k]
            /\ requests'[Len(requests) + 1] = r
        BY <2>1, <3>2, AppendFacts DEF TypeOK
      <4> QED
        BY <2>2, <4>1 DEF Owned
    <3> QED
      BY <2>3, <3>1, <3>2
  <2>5. \A k \in DOMAIN requests' : Belongs(requests[k])'
    BY <1>11, <2>4 DEF WriteRequest, Belongs
  <2>6. \A d \in Caller : pc'[d] \in {"lock", "erase"} => pc[d] \in {"lock", "erase"}
    BY <1>11 DEF WriteRequest, TypeOK
  <2> QED
    BY <1>11, <2>5, <2>6 DEF WriteRequest, Owned, Belongs
<1>12. ASSUME NEW c \in Caller, Wait(c) PROVE Owned'
  BY <1>12 DEF Wait, Owned, Belongs, TypeOK
<1>13. ASSUME NEW c \in Caller, Timeout(c) PROVE Owned'
  BY <1>13 DEF Timeout, Owned, Belongs, TypeOK
<1>14. ASSUME NEW c \in Caller, ReadRes(c) PROVE Owned'
  <2>1. id[c] \in Id
    BY <1>14 DEF ReadRes, Handled
  <2> QED
    BY <1>14, <2>1 DEF ReadRes, Owned, Belongs, TypeOK
<1>15. ASSUME NEW c \in Caller, LockCalls(c) PROVE Owned'
  BY <1>15 DEF LockCalls, Owned, Belongs, TypeOK
<1>16. ASSUME NEW c \in Caller, Erase(c) PROVE Owned'
  BY <1>16 DEF Erase, Owned, Belongs, TypeOK
<1>17. CASE UNCHANGED vars
  BY <1>17 DEF vars, Owned, Belongs
<1> QED
  BY <1>1, <1>2, <1>3, <1>4, <1>5, <1>6, <1>7, <1>8, <1>9, <1>10, <1>11,
     <1>12, <1>13, <1>14, <1>15, <1>16, <1>17 DEF Next, Receiving, Calling

LEMMA OwnAnswerStep ==
  ASSUME TypeOK, Handled, Owned, OwnAnswer, [Next]_vars
  PROVE  OwnAnswer'
<1> USE DEF callers, network, Go
<1>1. ASSUME answers \subseteq answers', outcome' = outcome, id' = id
      PROVE  OwnAnswer'
  BY <1>1 DEF OwnAnswer
<1>2. ASSUME NEW c \in Caller, CallUnconnected(c) PROVE OwnAnswer'
  <2>1. Result(None) = "kRpcTimeout"
    BY DEF Result
  <2> QED
    BY <1>2, <2>1 DEF CallUnconnected, OwnAnswer, TypeOK
<1>3. ASSUME NEW c \in Caller, NEW m \in Method, Call(c, m) PROVE OwnAnswer'
  BY <1>3 DEF Call, OwnAnswer, TypeOK
<1>4. ASSUME NEW c \in Caller, Erase(c) PROVE OwnAnswer'
  <2>1. /\ outcome'[c] = Result(got[c]) /\ id' = id /\ answers' = answers
        /\ \A d \in Caller : d # c => outcome'[d] = outcome[d]
    BY <1>4 DEF Erase, TypeOK
  <2>2. CASE got[c] = None
    <3>1. outcome'[c] = "kRpcTimeout"
      BY <2>1, <2>2 DEF Result
    <3> QED
      BY <2>1, <3>1 DEF OwnAnswer
  <2>3. CASE got[c] # None
    <3>1. got[c] \in answers /\ got[c].id = id[c]
      BY <1>4, <2>3 DEF Erase, Owned
    <3>2. id[c] \in Id /\ 0 \notin Id
      BY <1>4, MaxCallsAssumption DEF Erase, Handled, Id
    <3>3. got[c].by = c
      BY <3>1, <3>2 DEF Owned, Belongs
    <3> QED
      BY <2>1, <3>1, <3>3 DEF OwnAnswer
  <2> QED
    BY <2>2, <2>3
<1>5. CASE HandleMessage
  <2>1. answers \subseteq answers'
    BY <1>5 DEF HandleMessage
  <2> QED
    BY <1>1, <1>5, <2>1 DEF HandleMessage
<1>6. CASE \/ Connected \/ Disconnected \/ OnMessage \/ Find \/ Deliver \/ Race
           \/ UNCHANGED vars
  BY <1>1, <1>6 DEF Connected, Disconnected, OnMessage, Find, Deliver, Race, vars
<1>7. ASSUME NEW c \in Caller,
             \/ Register(c) \/ WriteRequest(c) \/ Wait(c) \/ Timeout(c)
             \/ ReadRes(c) \/ LockCalls(c)
      PROVE  OwnAnswer'
  BY <1>1, <1>7 DEF Register, WriteRequest, Wait, Timeout, ReadRes, LockCalls
<1> QED
  BY <1>2, <1>3, <1>4, <1>5, <1>6, <1>7 DEF Next, Receiving, Calling

LEMMA OwnedInit ==
  ASSUME Init
  PROVE  Owned /\ OwnAnswer
BY DEF Init, Owned, OwnAnswer

\* No call (protorpc_client.cpp lines 141-177) returns the answer to another
\* call, whatever threads, timeouts, late responses and reconnections do.
THEOREM AnswersOwn == Spec => []OwnAnswer
<1> DEFINE I == TypeOK /\ Handled /\ Owned /\ OwnAnswer
<1>1. Init => I
  BY TypeInit, OwnedInit
<1>2. I /\ [Next]_vars => I'
  BY TypeStep, OwnedStep, OwnAnswerStep
<1>3. I => OwnAnswer
  OBVIOUS
<1> QED
  BY <1>1, <1>2, <1>3, PTL DEF Spec

-----------------------------------------------------------------------------
\* What carries the id i is a request, a response, or in the loop's hands.
InFlight(i) ==
  \/ \E k \in DOMAIN requests : requests[k].id = i
  \/ \E k \in DOMAIN responses : responses[k].id = i
  \/ loop # "idle" /\ msg.id = i

\* An id is under way in one place only; 0 is none.
OnePlace ==
  /\ \A j, k \in DOMAIN requests : requests[j].id = requests[k].id => j = k
  /\ \A j, k \in DOMAIN responses :
       responses[j].id = responses[k].id /\ responses[j].id # 0 => j = k
  /\ \A j \in DOMAIN requests, k \in DOMAIN responses : requests[j].id # responses[k].id
  /\ loop # "idle" => /\ \A j \in DOMAIN requests : requests[j].id # msg.id
                      /\ \A k \in DOMAIN responses : responses[k].id # msg.id \/ msg.id = 0

\* Nothing is under way for an id before its request is written nor after its
\* response is stored.
Settled ==
  /\ \A i \in Id : InFlight(i) => i <= s_id
  /\ \A i \in Id : res[i] # None => i <= s_id /\ ~InFlight(i)
  /\ \A c \in Caller : pc[c] \in {"insert", "write"} =>
                         ~InFlight(id[c]) /\ res[id[c]] = None

\* A call is in the map until it ends, and ends with a response stored or by
\* giving up; what is under way belongs to a call in one of these states.
Tracked ==
  /\ \A c \in Caller : pc[c] \notin {"idle", "insert"} => id[c] \in calls
  /\ \A c \in Caller : pc[c] \in {"read", "lock", "erase"} =>
                         id[c] \in gave_up \/ res[id[c]] # None
  /\ \A i \in Id : InFlight(i) => i \in calls \cup gave_up

Distinct == \A c, d \in Caller : id[c] = id[d] /\ id[c] # 0 => c = d

\* The effect of each step on what is under way.
LEMMA FlightStep ==
  ASSUME TypeOK, Handled, OnePlace, [Next]_vars
  PROVE  /\ ~(\E c \in Caller : WriteRequest(c)) => OnePlace'
         /\ \A c \in Caller : WriteRequest(c) /\ ~InFlight(id[c]) => OnePlace'
         /\ \A i \in Id : InFlight(i)' => \/ InFlight(i)
                                          \/ \E c \in Caller : WriteRequest(c) /\ i = id[c]
         /\ Deliver => ~InFlight(msg.id)'
<1> USE DEF callers, network, Go
<1>1. CASE Disconnected
  <2>1. DOMAIN requests' = {} /\ DOMAIN responses' = {} /\ loop' = loop /\ msg' = msg
    BY <1>1 DEF Disconnected
  <2>2. ~Deliver /\ \A c \in Caller : ~WriteRequest(c)
    BY <1>1, <2>1 DEF Disconnected, Deliver, WriteRequest, TypeOK
  <2> QED
    BY <2>1, <2>2 DEF OnePlace, InFlight
<1>2. CASE HandleMessage
  <2>1. PICK k \in Routed(Head(requests).method) :
          LET a == Response(Head(requests), k)
          IN  responses' = Append(responses, a)
    BY <1>2 DEF HandleMessage
  <2> DEFINE a == Response(Head(requests), k)
  <2>3. /\ Head(requests) \in Request
        /\ Head(requests) = requests[1] /\ 1 \in DOMAIN requests
        /\ \A i \in DOMAIN requests' : /\ i + 1 \in DOMAIN requests
                                       /\ requests'[i] = requests[i + 1]
                                       /\ i + 1 # 1
        /\ \A i, j \in DOMAIN requests' : i + 1 = j + 1 => i = j
    BY <1>2, TailFacts DEF HandleMessage, TypeOK
  <2>4. /\ a \in Answer
        /\ a.id # 0 => a.id = Head(requests).id
    BY <2>3, RoutedType, AnswerType
  <2>2. \A i \in DOMAIN requests : requests[i].id # 0
    <3>1. \A q \in Request : q.id # 0
      BY MaxCallsAssumption DEF Request, Id
    <3>2. \A i \in DOMAIN requests : requests[i] \in Request
      BY DEF TypeOK
    <3> QED
      BY <3>1, <3>2
  <2> HIDE DEF a
  <2>5. responses' = Append(responses, a)
    BY <2>1 DEF a
  <2>6. /\ DOMAIN responses' = DOMAIN responses \cup {Len(responses) + 1}
        /\ \A i \in DOMAIN responses : responses'[i] = responses[i]
        /\ responses'[Len(responses) + 1] = a
    BY <2>4, <2>5, AppendFacts DEF TypeOK
  <2>7. loop' = loop /\ msg' = msg /\ pc' = pc
    BY <1>2 DEF HandleMessage
  <2>8. ~Deliver /\ \A c \in Caller : ~WriteRequest(c)
    BY <2>7 DEF Deliver, WriteRequest, TypeOK
  <2>9. \A i : i # 0 /\ InFlight(i)' => InFlight(i)
    BY <2>3, <2>4, <2>6, <2>7 DEF InFlight
  <2>10. OnePlace'
    <3>1. \A i, j \in DOMAIN requests' : requests'[i].id = requests'[j].id => i = j
      BY <2>3 DEF OnePlace
    <3>2. a.id # 0 => \A i \in DOMAIN responses : responses[i].id # a.id
      BY <2>3, <2>4 DEF OnePlace
    <3>3. \A i, j \in DOMAIN responses' :
            responses'[i].id = responses'[j].id /\ responses'[i].id # 0 => i = j
      BY <2>6, <3>2 DEF OnePlace
    <3>4. \A i \in DOMAIN requests' : requests'[i].id # a.id
      BY <2>2, <2>3, <2>4 DEF OnePlace
    <3>5. \A i \in DOMAIN requests', j \in DOMAIN responses' : requests'[i].id # responses'[j].id
      BY <2>3, <2>6, <3>4 DEF OnePlace
    <3>6. loop' # "idle" => /\ \A j \in DOMAIN requests' : requests'[j].id # msg'.id
                            /\ \A j \in DOMAIN responses' :
                                 responses'[j].id # msg'.id \/ msg'.id = 0
      BY <2>3, <2>4, <2>6, <2>7 DEF OnePlace
    <3> QED
      BY <3>1, <3>3, <3>5, <3>6 DEF OnePlace
  <2>11. 0 \notin Id
    BY MaxCallsAssumption DEF Id
  <2> QED
    BY <2>8, <2>9, <2>10, <2>11
<1>3. CASE OnMessage
  <2>1. /\ Head(responses) = responses[1] /\ 1 \in DOMAIN responses
        /\ \A i \in DOMAIN responses' : /\ i + 1 \in DOMAIN responses
                                        /\ responses'[i] = responses[i + 1]
                                        /\ i + 1 # 1
        /\ \A i, j \in DOMAIN responses' : i + 1 = j + 1 => i = j
    BY <1>3, TailFacts DEF OnMessage, TypeOK
  <2>2. /\ loop = "idle" /\ loop' = "find" /\ msg' = Head(responses)
        /\ requests' = requests /\ pc' = pc
    BY <1>3 DEF OnMessage
  <2>3. ~Deliver /\ \A c \in Caller : ~WriteRequest(c)
    BY <2>2 DEF Deliver, WriteRequest, TypeOK
  <2>4. \A i : InFlight(i)' => InFlight(i)
    BY <2>1, <2>2 DEF InFlight
  <2>5. OnePlace'
    BY <2>1, <2>2 DEF OnePlace
  <2> QED
    BY <2>3, <2>4, <2>5
<1>4. CASE Find
  <2>1. /\ loop = "find" /\ msg' = msg /\ requests' = requests
        /\ responses' = responses /\ pc' = pc
    BY <1>4 DEF Find
  <2>2. ~Deliver /\ \A c \in Caller : ~WriteRequest(c)
    BY <2>1 DEF Deliver, WriteRequest, TypeOK
  <2> QED
    BY <2>1, <2>2 DEF InFlight, OnePlace
<1>5. CASE Deliver
  <2>1. /\ loop = "deliver" /\ loop' = "idle" /\ msg' = msg
        /\ requests' = requests /\ responses' = responses
        /\ \A c \in Caller : pc'[c] # "written" \/ pc[c] = "written"
    BY <1>5 DEF Deliver
  <2>2. \A c \in Caller : ~WriteRequest(c)
    BY <2>1 DEF WriteRequest, TypeOK
  <2>3. msg.id # 0
    BY <2>1, MaxCallsAssumption DEF Handled, Id
  <2> QED
    BY <2>1, <2>2, <2>3 DEF InFlight, OnePlace
<1>6. ASSUME NEW c \in Caller, WriteRequest(c)
      PROVE  /\ ~InFlight(id[c]) => OnePlace'
             /\ \A i : InFlight(i)' => InFlight(i) \/ i = id[c]
             /\ ~Deliver
             /\ \A d \in Caller : WriteRequest(d) => d = c
  <2> DEFINE r == [id |-> id[c], by |-> c, method |-> method[c]]
  <2>1. r \in Request
    BY <1>6 DEF WriteRequest, Handled, Request
  <2>2. requests' = requests \/ requests' = Append(requests, r)
    BY <1>6 DEF WriteRequest
  <2>3. r.id = id[c]
    OBVIOUS
  <2> HIDE DEF r
  <2>4. responses' = responses /\ loop' = loop /\ msg' = msg /\ pc[c] = "write"
        /\ pc'[c] = "written" /\ \A d \in Caller : d # c => pc'[d] = pc[d]
    BY <1>6 DEF WriteRequest, TypeOK
  <2>5. ~Deliver
    BY <2>4 DEF Deliver, TypeOK
  <2>6. \A d \in Caller : WriteRequest(d) => d = c
    BY <2>4 DEF WriteRequest, TypeOK
  <2>7. CASE requests' = requests
    BY <2>4, <2>5, <2>6, <2>7 DEF InFlight, OnePlace
  <2>8. CASE requests' = Append(requests, r)
    <3>1. /\ DOMAIN requests' = DOMAIN requests \cup {Len(requests) + 1}
          /\ \A k \in DOMAIN requests : requests'[k] = requests[k]
          /\ requests'[Len(requests) + 1] = r
      BY <2>1, <2>8, AppendFacts DEF TypeOK
    <3>2. \A i : InFlight(i)' => InFlight(i) \/ i = id[c]
      BY <2>3, <2>4, <3>1 DEF InFlight
    <3>3. ~InFlight(id[c]) => OnePlace'
      BY <2>3, <2>4, <3>1 DEF InFlight, OnePlace
    <3> QED
      BY <2>5, <2>6, <3>2, <3>3
  <2> QED
    BY <2>2, <2>7, <2>8
<1>7. CASE \/ Connected \/ Race \/ UNCHANGED vars
           \/ \E c \in Caller : \/ CallUnconnected(c) \/ Register(c) \/ Wait(c)
                                \/ Timeout(c) \/ ReadRes(c) \/ LockCalls(c) \/ Erase(c)
                                \/ \E m \in Method : Call(c, m)
  <2>1. requests' = requests /\ responses' = responses /\ loop' = loop /\ msg' = msg
    BY <1>7 DEF Connected, Race, vars, CallUnconnected, Register, Wait, Timeout,
                ReadRes, LockCalls, Erase, Call
  <2>2. ~Deliver
    BY <2>1 DEF Deliver, TypeOK
  <2>3. OnePlace' /\ \A i : InFlight(i)' => InFlight(i)
    BY <2>1 DEF OnePlace, InFlight
  <2> QED
    BY <2>2, <2>3
<1>8. CASE \E c \in Caller : WriteRequest(c)
  BY <1>6, <1>8
<1> QED
  BY <1>1, <1>2, <1>3, <1>4, <1>5, <1>7, <1>8 DEF Next, Receiving, Calling

\* A step that is not a WriteRequest puts nothing new under way.
LEMMA NothingNew ==
  ASSUME TypeOK, Handled, OnePlace, [Next]_vars,
         \A c \in Caller : ~WriteRequest(c)
  PROVE  OnePlace' /\ \A i \in Id : InFlight(i)' => InFlight(i)
BY FlightStep

LEMMA SettledStep ==
  ASSUME TypeOK, Handled, Distinct, OnePlace, Settled, [Next]_vars
  PROVE  OnePlace' /\ Settled'
<1> USE DEF callers, network, Go
<1>1. \A c \in Caller : pc[c] # "idle" => id[c] \in Id /\ id[c] # 0 /\ id[c] <= s_id
  BY MaxCallsAssumption DEF Handled, Id
<1>2. ASSUME NEW c \in Caller, WriteRequest(c) PROVE OnePlace' /\ Settled'
  <2>1. /\ pc[c] = "write" /\ pc'[c] = "written"
        /\ \A d \in Caller : d # c => pc'[d] = pc[d]
        /\ id' = id /\ res' = res /\ s_id' = s_id
    BY <1>2 DEF WriteRequest, TypeOK
  <2>2. OnePlace'
    BY <1>2, <2>1, FlightStep DEF Settled
  <2>3. \A d \in Caller : WriteRequest(d) => d = c
    BY <2>1 DEF WriteRequest, TypeOK
  <2>4. \A i \in Id : InFlight(i)' => InFlight(i) \/ i = id[c]
    BY <2>3, FlightStep
  <2>5. id[c] \in Id /\ id[c] <= s_id /\ res[id[c]] = None
    BY <1>1, <2>1 DEF Settled
  <2>6. \A d \in Caller : d # c /\ pc[d] \in {"insert", "write"} => id[d] # id[c] /\ id[d] \in Id
    BY <1>1, <2>1 DEF Distinct
  <2>7. \A d \in Caller : pc'[d] \in {"insert", "write"} =>
                            ~InFlight(id[d])' /\ res'[id'[d]] = None
    <3> SUFFICES ASSUME NEW d \in Caller, pc'[d] \in {"insert", "write"}
                 PROVE  ~InFlight(id[d])' /\ res'[id'[d]] = None
      OBVIOUS
    <3>1. d # c /\ pc[d] \in {"insert", "write"}
      BY <2>1
    <3>2. id'[d] = id[d] /\ id[d] \in Id /\ id[d] # id[c] /\ ~InFlight(id[d]) /\ res[id[d]] = None
      BY <2>1, <2>6, <3>1 DEF Settled
    <3>3. ~InFlight(id[d])'
      BY <2>1, <2>4, <3>2 DEF InFlight
    <3> QED
      BY <2>1, <3>2, <3>3
  <2> QED
    BY <2>1, <2>2, <2>4, <2>5, <2>7 DEF Settled
<1>3. CASE Deliver
  <2>1. OnePlace' /\ \A i \in Id : InFlight(i)' => InFlight(i)
    <3>1. \A c \in Caller : ~WriteRequest(c)
      BY <1>3 DEF Deliver, WriteRequest, TypeOK
    <3> QED
      BY <3>1, NothingNew
  <2>2. ~InFlight(msg.id)' /\ msg' = msg
    BY <1>3, FlightStep DEF Deliver
  <2>3. /\ msg.id \in Id /\ InFlight(msg.id)
        /\ \A i \in Id : i # msg.id => res'[i] = res[i]
        /\ id' = id /\ s_id' = s_id
        /\ \A c \in Caller : pc'[c] \in {"insert", "write"} => pc[c] \in {"insert", "write"}
    BY <1>3 DEF Deliver, TypeOK, Handled, Answer, InFlight
  <2>4. \A i \in Id : i = msg.id => ~InFlight(i)'
    BY <2>2 DEF InFlight
  <2>5. \A c \in Caller : pc'[c] \in {"insert", "write"} =>
          id[c] \in Id /\ id[c] # msg.id /\ ~InFlight(id[c]) /\ res[id[c]] = None
    BY <1>1, <2>3 DEF Settled
  <2>6. \A c \in Caller : pc'[c] \in {"insert", "write"} => ~InFlight(id[c])'
    BY <2>1, <2>3, <2>5 DEF InFlight
  <2> QED
    BY <2>1, <2>3, <2>4, <2>5, <2>6 DEF Settled
<1>4. ASSUME NEW c \in Caller, NEW m \in Method, Call(c, m) PROVE OnePlace' /\ Settled'
  <2>1. /\ pc[c] = "idle" /\ \A d \in Caller : d # c => pc'[d] = pc[d] /\ id'[d] = id[d]
        /\ id'[c] = s_id + 1 /\ s_id' = s_id + 1 /\ s_id \in Nat /\ s_id + 1 \in Id
        /\ res' = res
    BY <1>4, MaxCallsAssumption DEF Call, TypeOK, Id
  <2>2. \A d \in Caller : ~WriteRequest(d)
    BY <1>4, <2>1 DEF Call, WriteRequest, TypeOK
  <2>3. requests' = requests /\ responses' = responses /\ loop' = loop /\ msg' = msg
    BY <1>4 DEF Call
  <2>4. OnePlace' /\ \A i \in Id : InFlight(i)' <=> InFlight(i)
    BY <2>3, <2>2, NothingNew DEF InFlight
  <2>5. ~InFlight(s_id + 1) /\ res[s_id + 1] = None
    BY <2>1 DEF Settled
  <2>6. \A d \in Caller : pc'[d] \in {"insert", "write"} => ~InFlight(id[d])' /\ res'[id'[d]] = None
    BY <2>1, <2>3, <2>5 DEF Settled, InFlight
  <2>7. \A i \in Id : i \in Nat
    BY MaxCallsAssumption DEF Id
  <2>8. \A i \in Id : i <= s_id => i <= s_id'
    BY <2>1, <2>7
  <2> QED
    BY <2>1, <2>4, <2>6, <2>8 DEF Settled
<1>5. ASSUME \A c \in Caller : ~WriteRequest(c),
             res' = res, id' = id, s_id' = s_id,
             \A c \in Caller : pc'[c] \in {"insert", "write"} => pc[c] \in {"insert", "write"}
      PROVE  OnePlace' /\ Settled'
  <2>1. OnePlace' /\ \A i \in Id : InFlight(i)' => InFlight(i)
    BY <1>5, NothingNew
  <2>2. \A c \in Caller : pc'[c] \in {"insert", "write"} => ~InFlight(id[c])'
    BY <2>1, <1>1, <1>5 DEF Settled, InFlight
  <2> QED
    BY <1>5, <2>1, <2>2 DEF Settled
<1>6. ASSUME NEW c \in Caller,
             \/ Register(c) \/ Wait(c) \/ Timeout(c) \/ ReadRes(c) \/ LockCalls(c) \/ Erase(c)
      PROVE  OnePlace' /\ Settled'
  <2>1. \A d \in Caller : ~WriteRequest(d)
    BY <1>6 DEF Register, Wait, Timeout, ReadRes, LockCalls, Erase, WriteRequest, TypeOK
  <2>2. /\ res' = res /\ id' = id /\ s_id' = s_id
        /\ \A d \in Caller : pc'[d] \in {"insert", "write"} => pc[d] \in {"insert", "write"}
    BY <1>6 DEF Register, Wait, Timeout, ReadRes, LockCalls, Erase, TypeOK
  <2> QED
    BY <1>5, <2>1, <2>2
<1>7. CASE \/ Connected \/ Disconnected \/ HandleMessage \/ OnMessage \/ Find \/ Race
           \/ (\E c \in Caller : CallUnconnected(c)) \/ UNCHANGED vars
  <2>1. res' = res /\ id' = id /\ s_id' = s_id /\ pc' = pc
    BY <1>7 DEF Connected, Disconnected, HandleMessage, OnMessage, Find, Race,
                CallUnconnected, vars
  <2>2. \A d \in Caller : ~WriteRequest(d)
    BY <2>1 DEF WriteRequest, TypeOK
  <2> QED
    BY <1>5, <2>1, <2>2
<1> QED
  BY <1>2, <1>3, <1>4, <1>6, <1>7 DEF Next, Receiving, Calling

LEMMA TrackedStep ==
  ASSUME TypeOK, Handled, Distinct, OnePlace, Settled, Tracked, [Next]_vars
  PROVE  Tracked'
<1> USE DEF callers, network, Go
<1> DEFINE Ending == {"read", "lock", "erase"}
<1>1. \A c \in Caller : pc[c] # "idle" => id[c] \in Id /\ id[c] # 0
  BY MaxCallsAssumption DEF Handled, Id
<1>2. ASSUME NEW c \in Caller, WriteRequest(c) PROVE Tracked'
  <2>1. /\ pc[c] = "write" /\ pc'[c] = "written"
        /\ \A d \in Caller : d # c => pc'[d] = pc[d]
        /\ id' = id /\ res' = res /\ calls' = calls /\ gave_up' = gave_up
    BY <1>2 DEF WriteRequest, TypeOK
  <2>2. \A d \in Caller : WriteRequest(d) => d = c
    BY <2>1 DEF WriteRequest, TypeOK
  <2>3. \A i \in Id : InFlight(i)' => InFlight(i) \/ i = id[c]
    BY <2>2, FlightStep
  <2>4. id[c] \in calls
    BY <2>1 DEF Tracked
  <2> QED
    BY <2>1, <2>3, <2>4 DEF Tracked
<1>3. ASSUME NEW c \in Caller, Erase(c) PROVE Tracked'
  <2>1. /\ pc[c] = "erase" /\ pc'[c] = "idle"
        /\ \A d \in Caller : d # c => pc'[d] = pc[d]
        /\ id' = id /\ res' = res /\ calls' = calls \ {id[c]} /\ gave_up' = gave_up
    BY <1>3 DEF Erase, TypeOK
  <2>2. \A d \in Caller : ~WriteRequest(d)
    BY <2>1 DEF WriteRequest, TypeOK
  <2>3. \A i \in Id : InFlight(i)' => InFlight(i)
    BY <2>2, NothingNew
  <2>4. \A d \in Caller : d # c /\ pc[d] \notin {"idle", "insert"} => id[d] # id[c]
    BY <1>1, <2>1 DEF Distinct
  <2>5. \A d \in Caller : pc'[d] \notin {"idle", "insert"} => id'[d] \in calls'
    BY <2>1, <2>4 DEF Tracked
  <2>6. InFlight(id[c]) => id[c] \in gave_up
    BY <1>1, <2>1 DEF Settled, Tracked
  <2>7. \A i \in Id : InFlight(i)' => i \in calls' \cup gave_up'
    BY <2>1, <2>3, <2>6 DEF Tracked
  <2> QED
    BY <2>1, <2>5, <2>7 DEF Tracked
<1>4. CASE Deliver
  <2>1. \A c \in Caller : ~WriteRequest(c)
    BY <1>4 DEF Deliver, WriteRequest, TypeOK
  <2>2. \A i \in Id : InFlight(i)' => InFlight(i)
    BY <2>1, NothingNew
  <2>3. /\ id' = id /\ calls' = calls /\ gave_up' = gave_up
        /\ \A c \in Caller : pc'[c] = IF pc[c] = "waiting" /\ id[c] = msg.id
                                      THEN "read" ELSE pc[c]
        /\ msg \in Answer /\ msg.id \in Id /\ res'[msg.id] = msg
        /\ \A i \in Id : i # msg.id => res'[i] = res[i]
    BY <1>4 DEF Deliver, TypeOK, Handled, Answer
  <2>4. \A i \in Id : res[i] # None => res'[i] # None
    BY <2>3, NoneAssumption
  <2>5. \A c \in Caller : pc'[c] \in Ending => id'[c] \in gave_up' \/ res'[id'[c]] # None
    <3> SUFFICES ASSUME NEW c \in Caller, pc'[c] \in Ending
                 PROVE  id[c] \in gave_up \/ res'[id[c]] # None
      BY <2>3
    <3>1. CASE pc[c] = "waiting" /\ id[c] = msg.id
      BY <2>3, <3>1, NoneAssumption
    <3>2. CASE ~(pc[c] = "waiting" /\ id[c] = msg.id)
      <4>1. pc[c] \in Ending
        BY <2>3, <3>2
      <4> QED
        BY <4>1, <1>1, <2>4 DEF Tracked
    <3> QED
      BY <3>1, <3>2
  <2>6. \A c \in Caller : pc'[c] \notin {"idle", "insert"} => id'[c] \in calls'
    BY <2>3 DEF Tracked
  <2> QED
    BY <2>2, <2>3, <2>5, <2>6 DEF Tracked
<1>5. ASSUME \A c \in Caller : ~WriteRequest(c),
             res' = res, calls \subseteq calls', gave_up \subseteq gave_up',
             \A c \in Caller : pc'[c] \notin {"idle", "insert"} => id'[c] \in calls',
             \A c \in Caller : pc'[c] \in Ending => id'[c] \in gave_up' \/ res'[id'[c]] # None
      PROVE  Tracked'
  <2>1. \A i \in Id : InFlight(i)' => InFlight(i)
    BY <1>5, NothingNew
  <2> QED
    BY <1>5, <2>1 DEF Tracked
<1>6. ASSUME NEW c \in Caller, NEW m \in Method, Call(c, m) PROVE Tracked'
  <2>1. /\ pc[c] = "idle" /\ pc'[c] = "insert"
        /\ \A d \in Caller : d # c => pc'[d] = pc[d] /\ id'[d] = id[d]
        /\ res' = res /\ calls' = calls /\ gave_up' = gave_up
    BY <1>6 DEF Call, TypeOK
  <2>2. \A d \in Caller : ~WriteRequest(d)
    BY <2>1 DEF WriteRequest, TypeOK
  <2> QED
    BY <1>5, <2>1, <2>2 DEF Tracked
<1>7. ASSUME NEW c \in Caller, Register(c) PROVE Tracked'
  <2>1. /\ pc[c] = "insert" /\ pc'[c] = "write"
        /\ \A d \in Caller : d # c => pc'[d] = pc[d]
        /\ id' = id /\ res' = res /\ calls' = calls \cup {id[c]} /\ gave_up' = gave_up
    BY <1>7 DEF Register, TypeOK
  <2>2. \A d \in Caller : ~WriteRequest(d)
    BY <2>1 DEF WriteRequest, TypeOK
  <2> QED
    BY <1>5, <2>1, <2>2 DEF Tracked
<1>8. ASSUME NEW c \in Caller, Timeout(c) PROVE Tracked'
  <2>1. /\ pc[c] = "waiting" /\ pc'[c] = "read"
        /\ \A d \in Caller : d # c => pc'[d] = pc[d]
        /\ id' = id /\ res' = res /\ calls' = calls
        /\ gave_up \subseteq gave_up' /\ (res[id[c]] = None => id[c] \in gave_up')
    BY <1>8 DEF Timeout, TypeOK
  <2>2. \A d \in Caller : ~WriteRequest(d)
    BY <2>1 DEF WriteRequest, TypeOK
  <2> QED
    BY <1>5, <2>1, <2>2 DEF Tracked
<1>9. ASSUME NEW c \in Caller, Wait(c) \/ ReadRes(c) \/ LockCalls(c) PROVE Tracked'
  <2>1. /\ \A d \in Caller : ~WriteRequest(d)
        /\ id' = id /\ res' = res /\ calls' = calls /\ gave_up' = gave_up
        /\ \A d \in Caller : /\ pc'[d] \in Ending => pc[d] \in Ending
                             /\ pc'[d] \notin {"idle", "insert"} => pc[d] \notin {"idle", "insert"}
    BY <1>9 DEF Wait, ReadRes, LockCalls, WriteRequest, TypeOK
  <2> QED
    BY <1>5, <2>1 DEF Tracked
<1>10. CASE \/ Connected \/ Disconnected \/ HandleMessage \/ OnMessage \/ Find \/ Race
            \/ (\E c \in Caller : CallUnconnected(c)) \/ UNCHANGED vars
  <2>1. res' = res /\ id' = id /\ calls' = calls /\ gave_up' = gave_up /\ pc' = pc
    BY <1>10 DEF Connected, Disconnected, HandleMessage, OnMessage, Find, Race,
                 CallUnconnected, vars
  <2>2. \A d \in Caller : ~WriteRequest(d)
    BY <2>1 DEF WriteRequest, TypeOK
  <2> QED
    BY <1>5, <2>1, <2>2 DEF Tracked
<1> QED
  BY <1>2, <1>3, <1>4, <1>6, <1>7, <1>8, <1>9, <1>10 DEF Next, Receiving, Calling

\* onMessage misses a response in the map (protorpc_client.cpp line 124, the
\* return that leaves calls_mutex locked) only when its call has given up or
\* the server could not parse its request (protorpc_server.cpp line 103).
THEOREM MissesExplained == Spec => []AnswerFindsCall
<1> DEFINE I == TypeOK /\ Handled /\ Owned /\ OnePlace /\ Settled /\ Tracked
<1>1. Init => I
  <2> SUFFICES ASSUME Init PROVE I
    OBVIOUS
  <2>1. \A i : ~InFlight(i)
    BY DEF Init, InFlight
  <2>2. OnePlace
    BY DEF Init, OnePlace
  <2>3. Settled /\ Tracked
    BY <2>1 DEF Init, Settled, Tracked
  <2> QED
    BY <2>2, <2>3, TypeInit, OwnedInit
<1>2. I /\ [Next]_vars => I'
  <2>1. Owned => Distinct
    BY DEF Owned, Distinct
  <2> QED
    BY <2>1, TypeStep, OwnedStep, SettledStep, TrackedStep
<1>3. I => AnswerFindsCall
  <2> SUFFICES ASSUME I, loop = "find"
               PROVE  msg.id \in calls \cup gave_up \/ msg.method \in Unparsable
    BY DEF AnswerFindsCall
  <2>1. msg \in answers /\ msg \in Answer
    BY DEF Owned, Handled
  <2>2. CASE msg.id = 0
    BY <2>1, <2>2 DEF Owned
  <2>3. CASE msg.id # 0
    <3>1. msg.id \in Id
      BY <2>1, <2>3, MaxCallsAssumption DEF Answer, Id
    <3> QED
      BY <3>1 DEF Tracked, InFlight
  <2> QED
    BY <2>2, <2>3
<1> QED
  BY <1>1, <1>2, <1>3, PTL DEF Spec
=============================================================================
