---------------------------- MODULE ServerProofs ----------------------------
(***************************************************************************)
(* The timer signal of server.cpp is never lost: AlarmChain, for every     *)
(* number of clients, names, command lines and timers and every TimeSlot.  *)
(***************************************************************************)
EXTENDS Server, OperatorProofs

\* The three places a SIGALRM can be in, with the types the proof needs.
AlarmInv ==
  /\ alarm \in Nat
  /\ timeout \in BOOLEAN
  /\ AlarmChain

\* A handler of a command touches neither the alarm, nor the pipe, nor the
\* flag timeout; it ends the process or leaves the loop in its batch.
LEMMA HandlersKeepAlarm ==
  ASSUME NEW c \in Client, ServeClient(c)
  PROVE  /\ UNCHANGED << alarm, pipe, timeout >>
         /\ pc = "batch"
<1>1. ASSUME Receive(c) PROVE UNCHANGED << alarm, pipe, timeout >> /\ pc = "batch"
  BY <1>1 DEF Receive
<1>2. ASSUME NEW cmds, Handle(c, cmds) PROVE Receive(c)
  BY <1>2 DEF Handle
<1>3. CASE Exit(c)
  BY <1>3 DEF Exit
<1>4. CASE Crash(c)
  BY <1>1, <1>4 DEF Crash
<1>5. CASE Save(c) \/ Config(c) \/ Expire(c)
  BY <1>1, <1>2, <1>5 DEF Save, Config, Expire
<1>6. CASE NoSuchKey(c) \/ Usage(c) \/ Zadd(c)
  BY <1>1, <1>2, <1>6 DEF NoSuchKey, Usage, Zadd
<1>7. CASE Zscore(c) \/ Zrem(c) \/ Zcard(c) \/ Zdis(c)
  BY <1>1, <1>2, <1>7 DEF Zscore, Zrem, Zcard, Zdis, OnSet
<1> QED BY <1>3, <1>4, <1>5, <1>6, <1>7 DEF ServeClient

\* AlarmInv is inductive: each step either leaves SIGALRM where it is or
\* moves it on, from the alarm to the pipe (Second), from the pipe to the
\* flag (HandleSignals), from the flag back to the alarm (EndOfRound).
LEMMA AlarmStep == AlarmInv /\ [Next]_vars => AlarmInv'
<1> SUFFICES ASSUME AlarmInv, [Next]_vars PROVE AlarmInv'
  OBVIOUS
<1> USE DEF AlarmInv, AlarmChain, Running
<1>1. CASE EpollWait
  BY <1>1 DEF EpollWait
<1>2. CASE HandleSignals
  BY <1>2 DEF HandleSignals
<1>3. ASSUME NEW c \in Client, ServeClient(c) PROVE AlarmInv'
  BY <1>3, HandlersKeepAlarm
<1>4. CASE EndOfRound
  <2>1. CASE timeout
    <3>1. /\ pc = "batch" /\ pipe' = pipe /\ ~timeout' /\ timeout' \in BOOLEAN
          /\ alarm' = TimeSlot
      BY <1>4, <2>1 DEF EndOfRound, TimeoutHandler
    <3>2. "SIGALRM" \notin pipe
      BY <2>1, <3>1
    <3>3. alarm' \in Nat /\ alarm' > 0
      BY <3>1, TimeSlotAssumption
    <3> QED BY <3>1, <3>2, <3>3
  <2>2. CASE ~timeout
    BY <1>4, <2>2 DEF EndOfRound
  <2> QED BY <2>1, <2>2
<1>5. CASE Second
  <2>1. pc' = pc /\ timeout' = timeout
    BY <1>5 DEF Second, loop
  <2>2. CASE alarm = 0
    BY <1>5, <2>1, <2>2 DEF Second
  <2>3. CASE alarm = 1
    BY <1>5, <2>1, <2>3 DEF Second
  <2>4. CASE alarm > 1
    BY <1>5, <2>1, <2>4 DEF Second
  <2> QED BY <2>2, <2>3, <2>4
<1>6. ASSUME NEW c \in Client, NEW r \in Request, Send(c, r) PROVE AlarmInv'
  BY <1>6 DEF Send, loop
<1>7. ASSUME NEW s \in Signals, SignalHandler(s) PROVE AlarmInv'
  <2>1. s # "SIGALRM"
    BY SignalsAssumption
  <2> QED BY <1>7, <2>1 DEF SignalHandler, loop
<1>8. CASE UNCHANGED vars
  BY <1>8 DEF vars
<1> QED BY <1>1, <1>2, <1>3, <1>4, <1>5, <1>6, <1>7, <1>8 DEF Next, Loop

\* In every behaviour of the server, with or without fairness, SIGALRM is at
\* every moment in exactly one place: TimeoutHandler (server.cpp lines 36-38),
\* the pipe (20-25) and the flag timeout (152-178, 368-380) form a closed chain.
THEOREM AlarmNeverLost == Spec => []AlarmChain
<1>1. Init => AlarmInv
  <2> SUFFICES ASSUME Init PROVE AlarmInv
    OBVIOUS
  <2>1. alarm = TimeSlot /\ pipe = {} /\ timeout = FALSE
    BY DEF Init
  <2>2. alarm \in Nat /\ alarm > 0
    BY <2>1, TimeSlotAssumption
  <2>3. "SIGALRM" \notin pipe /\ ~timeout /\ timeout \in BOOLEAN
    BY <2>1
  <2> QED BY <2>2, <2>3 DEF AlarmInv, AlarmChain
<1>2. AlarmInv => AlarmChain
  BY DEF AlarmInv
<1> QED BY <1>1, <1>2, AlarmStep, PTL DEF Spec

-----------------------------------------------------------------------------
(***************************************************************************)
(* The timer list.                                                         *)
(***************************************************************************)
TimerList == Seq([key_ : Name, left : Nat])

\* Tick stops at the first timer, from the head, that has time left.
LEMMA DueSound ==
  ASSUME NEW t \in TimerList
  PROVE  /\ Due(t) \in 0..Len(t)
         /\ \A i \in 1..Due(t) : t[i].left = 0
<1> DEFINE T == {n \in 0..Len(t) : n < Len(t) => t[n + 1].left > 0}
<1>1. Len(t) \in Nat /\ \A i \in 1..Len(t) : t[i] \in [key_ : Name, left : Nat]
  BY LenProperties DEF TimerList
<1>2. Len(t) \in T /\ T \in SUBSET Nat
  BY <1>1
<1>3. PICK n \in T : \A y \in T : n <= y
  <2> HIDE DEF T
  <2> QED BY <1>2, LeastNumber
<1>4. ASSUME NEW i \in 1..n PROVE t[i].left = 0
  <2>1. i - 1 \in 0..Len(t) /\ i - 1 < Len(t) /\ ~(n <= i - 1) /\ i \in 1..Len(t)
    BY <1>1, <1>3
  <2>2. i - 1 \notin T
    BY <1>3, <2>1
  <2>3. ~(t[i].left > 0)
    BY <1>1, <2>1, <2>2
  <2> QED BY <1>1, <2>1, <2>3
<1>5. \E m \in 0..Len(t) : /\ \A i \in 1..m : t[i].left = 0
                           /\ m < Len(t) => t[m + 1].left > 0
  BY <1>3, <1>4
<1> QED BY <1>5 DEF Due

\* timeout_fds holds the keys of timers that have run out.
LEMMA FiredSound ==
  ASSUME NEW t \in TimerList
  PROVE  /\ Fired(t) \in Seq(Name)
         /\ \A k \in ToSet(Fired(t)) : \E i \in DOMAIN t : t[i].key_ = k /\ t[i].left = 0
<1>1. /\ Len(t) \in Nat /\ DOMAIN t = 1..Len(t)
      /\ \A i \in 1..Len(t) : t[i] \in [key_ : Name, left : Nat]
  BY LenProperties DEF TimerList
<1>2. Due(t) \in 0..Len(t) /\ \A i \in 1..Due(t) : t[i].left = 0
  BY DueSound
<1>3. \A i \in 1..Due(t) : i \in 1..Len(t) /\ t[i].key_ \in Name
  BY <1>1, <1>2
<1>4. Fired(t) \in Seq(Name)
  <2>1. Fired(t) \in [1..Due(t) -> Name] /\ Due(t) \in Nat
    BY <1>1, <1>2, <1>3 DEF Fired
  <2> QED BY <2>1, SeqDef
<1>5. ASSUME NEW k \in ToSet(Fired(t))
      PROVE  \E i \in DOMAIN t : t[i].key_ = k /\ t[i].left = 0
  <2>1. PICK i \in 1..Due(t) : k = t[i].key_
    BY DEF Fired, ToSet
  <2> QED BY <1>1, <1>2, <1>3, <2>1
<1> QED BY <1>4, <1>5

\* Pop of the head's key takes the head, whatever other timers the key has.
LEMMA PopHead ==
  ASSUME NEW t \in TimerList, t # << >>
  PROVE  Pop(t, t[1].key_) = Tail(t)
<1> DEFINE ok(i) == t[i].key_ = t[1].key_ /\ \A j \in 1..i - 1 : t[j].key_ # t[1].key_
           c == CHOOSE i \in DOMAIN t : ok(i)
<1>1. Len(t) \in Nat \ {0} /\ DOMAIN t = 1..Len(t)
  BY EmptySeq, LenProperties DEF TimerList
<1>2. 1 \in DOMAIN t /\ ok(1)
  BY <1>1
<1>3. c \in DOMAIN t /\ ok(c)
  <2> HIDE DEF ok
  <2> QED BY <1>2
<1> HIDE DEF c
<1>4. c = 1
  <2>1. c \in Nat /\ c >= 1
    BY <1>1, <1>3
  <2>2. ~(1 \in 1..c - 1)
    BY <1>3
  <2> QED BY <2>1, <2>2
<1>5. Pop(t, t[1].key_) = RemoveAt(t, 1)
  BY <1>4 DEF Pop, c
<1>6. RemoveAt(t, 1) = SubSeq(t, 1, 0) \o SubSeq(t, 2, Len(t))
  BY DEF RemoveAt
<1>7. SubSeq(t, 2, Len(t)) \in TimerList /\ SubSeq(t, 1, 0) = << >>
  <2>1. \A i \in 2..Len(t) : t[i] \in [key_ : Name, left : Nat]
    <3>1. \A i \in 1..Len(t) : t[i] \in [key_ : Name, left : Nat]
      BY LenProperties DEF TimerList
    <3> QED BY <1>1, <3>1
  <2>2. SubSeq(t, 2, Len(t)) \in TimerList
    BY <1>1, <2>1, SubSeqProperties DEF TimerList
  <2>3. SubSeq(t, 1, 0) = << >>
    BY SubSeqEmpty
  <2> QED BY <2>2, <2>3
<1>8. Pop(t, t[1].key_) = SubSeq(t, 2, Len(t))
  <2> DEFINE r == SubSeq(t, 2, Len(t))
  <2>1. r \in Seq([key_ : Name, left : Nat])
    BY <1>7 DEF TimerList
  <2> HIDE DEF r
  <2>2. << >> \o r = r
    BY <2>1, ConcatEmptySeq
  <2> QED BY <1>5, <1>6, <1>7, <2>2 DEF r
<1>9. SubSeq(t, 2, Len(t)) = Tail(t)
  <2>1. SubSeq(t, 1, Len(t)) = t
    BY SubSeqFull DEF TimerList
  <2>2. /\ 1 \in 1..Len(t) /\ Len(t) \in 1..Len(t)
        /\ t \in Seq([key_ : Name, left : Nat])
    BY <1>1 DEF TimerList
  <2>3. Tail(SubSeq(t, 1, Len(t))) = SubSeq(t, 1 + 1, Len(t))
    BY <2>2, HeadTailOfSubSeq
  <2> QED BY <2>1, <2>3
<1> QED BY <1>8, <1>9

\* The loop of Tick leaves the list from the first timer that has time left.
LEMMA AfterTickSound ==
  ASSUME NEW t \in TimerList
  PROVE  AfterTick(t) = SubSeq(t, Due(t) + 1, Len(t)) /\ AfterTick(t) \in TimerList
<1> DEFINE d == Due(t)
           L == Len(t)
           D == 0..d
           after == CHOOSE g : g = [n \in D |->
                      IF n = 0 THEN t ELSE Pop(g[n - 1], t[n].key_)]
           w == [n \in D |-> SubSeq(t, n + 1, L)]
<1>1. AfterTick(t) = after[d]
  BY DEF AfterTick
<1>2. /\ L \in Nat /\ d \in 0..L /\ d \in Nat /\ t \in Seq([key_ : Name, left : Nat])
      /\ \A i \in 1..L : t[i] \in [key_ : Name, left : Nat]
  <2>1. t \in Seq([key_ : Name, left : Nat])
    BY DEF TimerList
  <2>2. L \in Nat /\ \A i \in 1..L : t[i] \in [key_ : Name, left : Nat]
    BY <2>1, LenProperties
  <2>3. d \in 0..L
    BY DueSound
  <2> HIDE DEF d, L
  <2> QED BY <2>1, <2>2, <2>3
<1> HIDE DEF d, L
<1>3. \A n \in D : w[n] \in TimerList /\ w[n] = SubSeq(t, n + 1, L)
  <2> SUFFICES ASSUME NEW n \in D PROVE SubSeq(t, n + 1, L) \in TimerList
    OBVIOUS
  <2>1. n + 1 \in Int /\ L \in Int /\ \A i \in n + 1..L : t[i] \in [key_ : Name, left : Nat]
    BY <1>2
  <2> QED BY <2>1, SubSeqProperties DEF TimerList
<1>4. ASSUME NEW n \in D, n # 0 PROVE w[n] = Pop(w[n - 1], t[n].key_)
  <2> DEFINE v == w[n - 1]
  <2>1. n - 1 \in D /\ n \in 1..L /\ L \in n..L /\ (n - 1) + 1 = n
    BY <1>2, <1>4
  <2>2. v = SubSeq(t, n, L) /\ v \in TimerList
    BY <1>3, <2>1
  <2> HIDE DEF v
  <2>3. Head(v) = t[n] /\ Tail(v) = SubSeq(t, n + 1, L)
    BY <1>2, <2>1, <2>2, HeadTailOfSubSeq DEF L
  <2>4. Len(v) = L - n + 1 /\ v[1] = t[n]
    <3>1. \A i \in n..L : t[i] \in [key_ : Name, left : Nat]
      BY <1>2, <2>1
    <3>2. n \in Int /\ L \in Int /\ n <= L /\ 1 \in 1..L - n + 1 /\ n + 1 - 1 = n
      BY <1>2, <2>1
    <3>3. /\ Len(v) = IF n <= L THEN L - n + 1 ELSE 0
          /\ \A i \in 1..L - n + 1 : v[i] = t[n + i - 1]
      BY <2>2, <3>1, <3>2, SubSeqProperties
    <3> QED BY <3>2, <3>3
  <2>5. v # << >> /\ v[1] = t[n]
    BY <1>2, <2>1, <2>4, EmptySeq
  <2>6. Pop(v, t[n].key_) = Tail(v)
    BY <2>2, <2>5, PopHead
  <2> QED BY <1>3, <2>3, <2>6 DEF v
<1>5. w[0] = t
  BY <1>2, SubSeqFull DEF L
<1>6. w = [n \in D |-> IF n = 0 THEN t ELSE Pop(w[n - 1], t[n].key_)]
  <2>1. w = [n \in D |-> w[n]]
    OBVIOUS
  <2> HIDE DEF w, D
  <2> QED BY <1>4, <1>5, <2>1
<1>7. after = [n \in D |-> IF n = 0 THEN t ELSE Pop(after[n - 1], t[n].key_)]
  <2> HIDE DEF w, D
  <2> QED BY <1>6, Zenon
<1> HIDE DEF after, w
<1> DEFINE go == 1..d
           nx == [n \in D |-> n - 1]
           rk == [n \in D |-> n]
           B == {n \in D : after[n] = w[n]}
<1>8. Descends(D, go, nx, rk, d + 1)
  BY <1>2 DEF Descends
<1>9. \A n \in D \ go : n \in B
  <2> SUFFICES ASSUME NEW n \in D \ go PROVE after[n] = w[n]
    OBVIOUS
  <2>1. n = 0
    BY <1>2
  <2> QED BY <1>5, <1>7, <2>1
<1>10. \A n \in go : nx[n] \in B => n \in B
  <2> SUFFICES ASSUME NEW n \in go, nx[n] \in B PROVE n \in B
    OBVIOUS
  <2>1. n \in D /\ n # 0 /\ after[n - 1] = w[n - 1]
    BY <1>2
  <2>2. after[n] = Pop(after[n - 1], t[n].key_)
    BY <1>7, <2>1
  <2>3. after[n] = w[n]
    BY <1>4, <2>1, <2>2
  <2> QED BY <2>1, <2>3
<1>11. D \subseteq B
  <2> HIDE DEF D, go, nx, rk, B
  <2> QED BY <1>8, <1>9, <1>10, PathInduction
<1>12. d \in D
  BY <1>2
<1>13. after[d] = w[d]
  BY <1>11, <1>12
<1>14. w[d] = SubSeq(t, d + 1, L) /\ w[d] \in TimerList
  <2> HIDE DEF D
  <2> QED BY <1>3, <1>12
<1> QED BY <1>1, <1>13, <1>14 DEF d, L

\* A second passes for every timer.
LEMMA ElapseSound ==
  ASSUME NEW t \in TimerList
  PROVE  Elapse(t) \in TimerList
<1>1. /\ Len(t) \in Nat /\ DOMAIN t = 1..Len(t)
      /\ \A i \in 1..Len(t) : t[i] \in [key_ : Name, left : Nat]
  BY LenProperties DEF TimerList
<1>2. Elapse(t) \in [1..Len(t) -> [key_ : Name, left : Nat]]
  BY <1>1 DEF Elapse
<1> QED BY <1>1, <1>2, SeqDef DEF TimerList

-----------------------------------------------------------------------------
(***************************************************************************)
(* The inductive invariant, in three parts: the sorted sets with the       *)
(* timers and files, the loop's own state, and the conversation with the   *)
(* clients.  Beyond the types it says of every sorted set what Good says   *)
(* (the handlers call InsertElement, SearchElement and DeleteElement on    *)
(* it), and it says where a set may still have an old capacity: only while *)
(* update_config is set, which it never is in epoll_wait.                  *)
(***************************************************************************)
SetOK(z) == Good(z) /\ IsFiniteSet(Present(z))

SetsOK(m) == DOMAIN m \subseteq Name /\ \A k \in DOMAIN m : SetOK(m[k])

Tuned(m, n) == \A k \in DOMAIN m : m[k].lru.capacity = n

Files(s) ==
  /\ DOMAIN s \subseteq Name
  /\ \A k \in DOMAIN s : s[k] \in [Member -> Score \cup {Absent}]

DataInv ==
  /\ SetsOK(map)
  /\ update_config \/ Tuned(map, max_memory)
  /\ timers \in TimerList
  /\ max_memory \in Nat
  /\ Files(store)

LoopInv ==
  /\ timeout_keys \in Seq(Name)
  /\ stop_server \in BOOLEAN /\ timeout \in BOOLEAN /\ update_config \in BOOLEAN
  /\ pc \in {"wait", "batch", "exited", "crashed"}
  /\ pc = "wait" => ~update_config
  /\ pipe \subseteq Signals \cup {"SIGALRM"}
  /\ alarm \in 0..TimeSlot

Replies ==
  {<< t >> : t \in {"OK", "Usage", ""}} \cup {<< >>} \cup ({"number"} \X Int)

ClientInv ==
  /\ events \subseteq unread \cup {PipeFd}
  /\ request \in [Client -> Request \cup {None}]
  /\ unread \subseteq {c \in Client : request[c] # None}
  /\ reply \in [Client -> Replies]

ServerInv == DataInv /\ LoopInv /\ ClientInv

-----------------------------------------------------------------------------
(***************************************************************************)
(* What the calls on one sorted set keep of it.                            *)
(***************************************************************************)
LEMMA NewSetOK ==
  ASSUME NEW n \in Nat
  PROVE  SetOK(NewZSet(n)) /\ NewZSet(n).lru.capacity = n
<1>1. Present(NewZSet(n)) = {}
  BY DEF Present, NewZSet
<1>2. NewZSet(n).lru.capacity = n
  BY DEF NewZSet, NewCache
<1> QED BY <1>1, <1>2, NewGood, FS_EmptySet DEF SetOK

LEMMA InsertOK ==
  ASSUME NEW z, SetOK(z), NEW m \in Member, NEW s \in Score, NEW d \in Insert(z, m, s)
  PROVE  SetOK(d) /\ d.lru.capacity = z.lru.capacity
<1>0. Good(z) /\ IsFiniteSet(Present(z))
  BY DEF SetOK
<1>1. z.lru \in Cache /\ Indexed(z.lru) /\ Bounded(z.lru) /\ z \in ZSets
  BY <1>0 DEF Good, ZSets
<1>2. CASE z.score[m] = s
  <2>1. d = [z EXCEPT !.lru = get(z.lru, m)]
    BY <1>2 DEF Insert
  <2>2. Good(d)
    BY <1>0, <2>1, GetGood
  <2>3. get(z.lru, m).capacity = z.lru.capacity
    BY <1>1, GetSound
  <2>4. d.score = z.score /\ d.lru = get(z.lru, m)
    BY <1>1, <2>1 DEF ZSets
  <2>5. Present(d) = Present(z)
    BY <2>4 DEF Present
  <2> QED BY <1>0, <2>2, <2>3, <2>4, <2>5 DEF SetOK
<1>3. CASE z.score[m] # s
  <2>1. d \in Store(z, m, s)
    BY <1>3 DEF Insert
  <2>2. Good(d) /\ d.lru.capacity = z.lru.capacity /\ Present(d) \subseteq Present(z) \cup {m}
    BY <1>0, <2>1, StoreFacts
  <2>3. IsFiniteSet(Present(z) \cup {m})
    BY <1>0, FS_AddElement
  <2>4. IsFiniteSet(Present(d))
    BY <2>2, <2>3, FS_Subset
  <2> QED BY <2>2, <2>4 DEF SetOK
<1> QED BY <1>2, <1>3

LEMMA SearchOK ==
  ASSUME NEW z, SetOK(z), NEW m \in Member
  PROVE  SetOK(Search(z, m)) /\ Search(z, m).lru.capacity = z.lru.capacity
<1>0. Good(z) /\ IsFiniteSet(Present(z))
  BY DEF SetOK
<1>1. z.lru \in Cache /\ Indexed(z.lru) /\ Bounded(z.lru) /\ z \in ZSets
  BY <1>0 DEF Good, ZSets
<1>2. CASE m \in Present(z)
  <2> DEFINE d == [z EXCEPT !.lru = get(z.lru, m)]
  <2>1. Search(z, m) = d
    BY <1>2 DEF Search
  <2>2. Good(d)
    BY <1>0, GetGood
  <2>3. get(z.lru, m).capacity = z.lru.capacity
    BY <1>1, GetSound
  <2>4. d.score = z.score /\ d.lru = get(z.lru, m)
    BY <1>1 DEF ZSets
  <2> HIDE DEF d
  <2>5. Present(d) = Present(z)
    BY <2>4 DEF Present
  <2> QED BY <1>0, <2>1, <2>2, <2>3, <2>4, <2>5 DEF SetOK
<1>3. CASE m \notin Present(z)
  BY <1>3 DEF Search
<1> QED BY <1>2, <1>3

LEMMA DeleteOK ==
  ASSUME NEW z, SetOK(z), NEW m \in Member
  PROVE  SetOK(Delete(z, m)) /\ Delete(z, m).lru.capacity = z.lru.capacity
<1> DEFINE d == Delete(z, m)
<1>0. Good(z) /\ IsFiniteSet(Present(z))
  BY DEF SetOK
<1>1. /\ Good(d) /\ d.lru.capacity = z.lru.capacity
      /\ d.score = [z.score EXCEPT ![m] = Absent]
  BY <1>0, DeleteGood
<1>2. z.score \in [Member -> Score \cup {Absent}]
  BY <1>0 DEF Good, ZSets
<1> HIDE DEF d
<1>3. Present(d) \subseteq Present(z)
  BY <1>1, <1>2 DEF Present
<1>4. IsFiniteSet(Present(d))
  BY <1>0, <1>3, FS_Subset
<1> QED BY <1>1, <1>4 DEF SetOK, d

LEMMA SetMaxOK ==
  ASSUME NEW z, SetOK(z), NEW n \in Nat, NEW d \in SetMax(z, n)
  PROVE  SetOK(d) /\ d.lru.capacity = n
BY SetMaxGood DEF SetOK

\* The scores of a set are what ZSCORE writes, its size what ZCARD writes:
\* both are integers.
LEMMA RepliesAreNumbers ==
  ASSUME NEW z, SetOK(z), NEW m \in Member
  PROVE  /\ m \in Present(z) => z.score[m] \in Int
         /\ Cardinality(Present(z)) \in Int
<1>1. z.score \in [Member -> Score \cup {Absent}]
  BY DEF SetOK, Good, ZSets
<1>2. m \in Present(z) => z.score[m] \in Score
  BY <1>1 DEF Present
<1>3. Cardinality(Present(z)) \in Nat
  BY FS_CardinalityType DEF SetOK
<1>4. \A n \in Nat : n \in Int
  OBVIOUS
<1>5. m \in Present(z) => z.score[m] \in Int
  BY <1>2, ServerScoreAssumption
<1>6. Cardinality(Present(z)) \in Int
  BY <1>3, <1>4, Zenon
<1> QED BY <1>5, <1>6

\* The map after a command on the name k, whose set becomes z.
LEMMA PutOK ==
  ASSUME SetsOK(map), NEW k \in Name, NEW z, SetOK(z)
  PROVE  /\ SetsOK(Put(k, z))
         /\ DOMAIN map \subseteq DOMAIN Put(k, z)
         /\ \A n : Tuned(map, n) /\ z.lru.capacity = n => Tuned(Put(k, z), n)
<1> DEFINE m == Put(k, z)
<1>1. /\ DOMAIN m = DOMAIN map \cup {k}
      /\ \A n \in DOMAIN m : m[n] = IF n = k THEN z ELSE map[n]
  BY DEF Put
<1> HIDE DEF m
<1>2. SetsOK(m)
  BY <1>1 DEF SetsOK
<1>3. \A n : Tuned(map, n) /\ z.lru.capacity = n => Tuned(m, n)
  BY <1>1 DEF Tuned
<1> QED BY <1>1, <1>2, <1>3 DEF m

-----------------------------------------------------------------------------
(***************************************************************************)
(* One lemma for each part of the state that a handler can change.         *)
(***************************************************************************)

\* A command that is in the batch was sent and not yet received.
LEMMA InBatch ==
  ASSUME ServerInv, NEW c \in Client, c \in events
  PROVE  /\ c \in unread /\ request[c] \in Request /\ request[c] \in CommandLine
         /\ Cmd(c) \in Commands /\ NameOf(c) \in Name
         /\ request[c].member \in Member
         /\ request[c].num \in Int \cup {NaN}
<1>1. c # PipeFd
  BY ClientAssumption
<1>2. c \in unread
  BY <1>1 DEF ServerInv, ClientInv
<1>3. request[c] \in Request \cup {None} /\ request[c] # None
  BY <1>2 DEF ServerInv, ClientInv
<1>4. request[c] \in Request
  BY <1>3
<1>5. request[c] \in CommandLine
  BY <1>4, RequestAssumption
<1> QED BY <1>2, <1>4, <1>5 DEF CommandLine, Cmd, NameOf

\* Once a command has passed the test for the fatal ones, its number is one.
LEMMA NumberOf ==
  ASSUME ServerInv, NEW c \in Client, c \in events, ~Fatal(c), ArityOK(c),
         Cmd(c) \in {"ZADD", "EXPIRE", "CONFIG SET maxmemory"}
  PROVE  request[c].num \in Int /\ (Cmd(c) = "ZADD" => request[c].num \in Score)
<1>1. request[c] \in Request /\ request[c].num \in Int \cup {NaN}
  BY InBatch
<1>2. request[c].num # NaN
  BY DEF Fatal
<1>3. ASSUME Cmd(c) = "ZADD" PROVE request[c].num \in Score
  <2>1. Arity["ZADD"] = 3
    BY DEF Arity, SetCommands
  <2>2. request[c].cmd = "ZADD" /\ request[c].argc = 3
    BY <1>3, <2>1 DEF Cmd, ArityOK
  <2> QED BY <1>1, <1>2, <2>2, ZaddAssumption
<1> QED BY <1>1, <1>2, <1>3

\* What every handler of a command does with the batch and with the client.
LEMMA HandlersAnswer ==
  ASSUME ServerInv, NEW c \in Client, ServeClient(c)
  PROVE  /\ c \in events /\ events' \subseteq events \ {c} /\ unread' = unread \ {c}
         /\ NoReply \/ \E r \in Replies : Write(c, r)
<1> DEFINE Took == c \in events /\ events' \subseteq events \ {c} /\ unread' = unread \ {c}
           Answered == NoReply \/ \E r \in Replies : Write(c, r)
<1>1. ASSUME Receive(c) PROVE Took
  BY <1>1 DEF Receive
<1>2. ASSUME NEW cmds, Handle(c, cmds) PROVE Receive(c) /\ Cmd(c) \in cmds /\ ~Fatal(c)
  BY <1>2 DEF Handle
<1>3. ASSUME NEW n \in Int, Write(c, Number(n)) PROVE Answered
  <2>1. Number(n) \in Replies
    BY DEF Number, Replies
  <2> QED BY <1>3, <2>1
<1>4. ASSUME NEW t \in {"OK", "Usage", ""}, Write(c, Text(t)) PROVE Answered
  <2>1. Text(t) \in Replies
    BY DEF Text, Replies
  <2> QED BY <1>4, <2>1
<1>5. -1 \in Int /\ 0 \in Int /\ 1 \in Int
  OBVIOUS
<1>6. ASSUME NEW k \in DOMAIN map PROVE SetOK(map[k])
  BY DEF ServerInv, DataInv, SetsOK
<1>7. Took => request[c].member \in Member
  BY InBatch
<1> HIDE DEF Took, Answered
<1>8. CASE Crash(c)
  BY <1>1, <1>8 DEF Crash, Answered, Took
<1>9. CASE Exit(c)
  BY <1>9 DEF Exit, Answered, Took
<1>10. CASE Save(c)
  BY <1>1, <1>2, <1>4, <1>10 DEF Save, Answered, Took
<1>11. CASE Config(c)
  <2>1. Took
    BY <1>1, <1>2, <1>11 DEF Config
  <2>2. ASSUME Write(c, Text("Usage")) PROVE Answered
    BY <1>4, <2>2
  <2>3. ASSUME NoReply PROVE Answered
    BY <2>3 DEF Answered
  <2>4. ASSUME Write(c, Number(IF request[c].num < 0 THEN 1 ELSE 0)) PROVE Answered
    <3>1. (IF request[c].num < 0 THEN 1 ELSE 0) \in Int
      OBVIOUS
    <3> QED BY <1>3, <2>4, <3>1
  <2>5. Answered
    BY <1>11, <2>2, <2>3, <2>4 DEF Config
  <2> QED BY <2>1, <2>5 DEF Answered, Took
<1>12. CASE Expire(c)
  <2>1. Took
    BY <1>1, <1>2, <1>12 DEF Expire
  <2>2. Answered
    BY <1>3, <1>4, <1>5, <1>12 DEF Expire
  <2> QED BY <2>1, <2>2 DEF Answered, Took
<1>13. CASE NoSuchKey(c)
  <2>1. Took
    BY <1>1, <1>2, <1>13 DEF NoSuchKey
  <2>2. Write(c, Number(0)) \/ Write(c, Text("")) \/ Write(c, Number(-1))
    BY <1>13 DEF NoSuchKey
  <2>3. Answered
    BY <1>3, <1>4, <1>5, <2>2
  <2> QED BY <2>1, <2>3 DEF Answered, Took
<1>14. CASE Usage(c)
  BY <1>1, <1>2, <1>4, <1>14 DEF Usage, Answered, Took
<1>15. CASE Zadd(c)
  <2>1. Took
    BY <1>1, <1>2, <1>15 DEF Zadd
  <2>2. \/ Write(c, Text("Usage"))
        \/ Write(c, Number(IF request[c].member \in Present(SetOf(NameOf(c)))
                           THEN 0 ELSE 1))
    BY <1>15 DEF Zadd
  <2>3. Write(c, Text("Usage")) \/ Write(c, Number(0)) \/ Write(c, Number(1))
    BY <2>2
  <2>4. Answered
    BY <1>3, <1>4, <1>5, <2>3
  <2> QED BY <2>1, <2>4 DEF Answered, Took
<1>16. CASE Zscore(c)
  <2> DEFINE z == map[NameOf(c)]
             m == request[c].member
  <2>1. Took /\ NameOf(c) \in DOMAIN map
    BY <1>1, <1>2, <1>16 DEF Zscore, OnSet, Exists
  <2>2. Write(c, Number(IF m \in Present(z) THEN z.score[m] ELSE -1))
    BY <1>16 DEF Zscore
  <2>3. (IF m \in Present(z) THEN z.score[m] ELSE -1) \in Int
    BY <1>5, <1>6, <1>7, <2>1, RepliesAreNumbers
  <2>4. Answered
    BY <1>3, <2>2, <2>3
  <2> QED BY <2>1, <2>4 DEF Answered, Took
<1>17. CASE Zrem(c)
  <2>1. Took
    BY <1>1, <1>2, <1>17 DEF Zrem, OnSet
  <2>2. Write(c, Number(1)) \/ Write(c, Number(0))
    BY <1>17 DEF Zrem
  <2>3. Answered
    BY <1>3, <1>5, <2>2
  <2> QED BY <2>1, <2>3 DEF Answered, Took
<1>18. CASE Zcard(c)
  <2>1. Took /\ NameOf(c) \in DOMAIN map
    BY <1>1, <1>2, <1>18 DEF Zcard, OnSet, Exists
  <2>2. Cardinality(Present(map[NameOf(c)])) \in Int
    BY <1>6, <1>7, <2>1, RepliesAreNumbers
  <2>3. Answered
    BY <1>3, <1>18, <2>2 DEF Zcard
  <2> QED BY <2>1, <2>3 DEF Answered, Took
<1>19. CASE Zdis(c)
  <2>1. Took
    BY <1>1, <1>2, <1>19 DEF Zdis, OnSet
  <2>2. Answered
    BY <1>3, <1>5, <1>19 DEF Zdis
  <2> QED BY <2>1, <2>2 DEF Answered, Took
<1> QED BY <1>8, <1>9, <1>10, <1>11, <1>12, <1>13, <1>14, <1>15, <1>16, <1>17,
           <1>18, <1>19 DEF ServeClient

\* The state of the loop's own under a handler.
LEMMA HandlersKeepLoop ==
  ASSUME ServerInv, NEW c \in Client, ServeClient(c)
  PROVE  /\ UNCHANGED << timeout_keys, timeout, pipe, alarm >>
         /\ pc' \in {"batch", "crashed"}
         /\ stop_server' \in BOOLEAN /\ update_config' \in BOOLEAN
<1> DEFINE Kept == /\ UNCHANGED << timeout_keys, timeout, pipe, alarm >>
                   /\ pc' \in {"batch", "crashed"}
<1>0. stop_server \in BOOLEAN /\ update_config \in BOOLEAN
  BY DEF ServerInv, LoopInv
<1>1. ASSUME NEW cmds, Handle(c, cmds) PROVE Kept
  BY <1>1 DEF Handle, Receive
<1> HIDE DEF Kept
<1>2. CASE Crash(c)
  BY <1>0, <1>2 DEF Crash, Receive
<1>3. CASE Exit(c)
  BY <1>0, <1>3 DEF Exit
<1>4. CASE Save(c) \/ Expire(c)
  <2>1. Kept
    BY <1>1, <1>4 DEF Save, Expire
  <2>2. UNCHANGED << stop_server, update_config >>
    BY <1>4 DEF Save, Expire
  <2> QED BY <1>0, <2>1, <2>2 DEF Kept
<1>5. CASE Config(c)
  <2>1. Kept /\ stop_server' = stop_server
    BY <1>1, <1>5 DEF Config
  <2>2. \/ update_config' = update_config \/ update_config' = TRUE
        \/ update_config' = (update_config \/ Cmd(c) = "CONFIG SET")
    BY <1>5 DEF Config
  <2>3. update_config' \in BOOLEAN
    BY <1>0, <2>2
  <2> QED BY <1>0, <2>1, <2>3 DEF Kept
<1>6. CASE NoSuchKey(c) \/ Usage(c) \/ Zadd(c)
  <2>1. Kept
    BY <1>1, <1>6 DEF NoSuchKey, Usage, Zadd
  <2>2. SetFrame
    BY <1>6 DEF NoSuchKey, Usage, Zadd
  <2> QED BY <1>0, <2>1, <2>2 DEF Kept, SetFrame
<1>7. CASE Zscore(c) \/ Zrem(c) \/ Zcard(c) \/ Zdis(c)
  <2>0. \E cmd : OnSet(c, cmd)
    BY <1>7 DEF Zscore, Zrem, Zcard, Zdis
  <2>1. Kept /\ SetFrame
    BY <1>1, <2>0 DEF OnSet
  <2> QED BY <1>0, <2>1 DEF Kept, SetFrame
<1> QED BY <1>2, <1>3, <1>4, <1>5, <1>6, <1>7 DEF ServeClient

\* The part of DataInv that is about the sorted sets.
SetsInv == SetsOK(map) /\ (update_config \/ Tuned(map, max_memory))

\* The set that a ZADD works on: the one of the name, or a new one.
LEMMA SetOfOK ==
  ASSUME ServerInv, NEW k \in Name
  PROVE  /\ SetOK(SetOf(k))
         /\ Tuned(map, max_memory) => SetOf(k).lru.capacity = max_memory
<1>1. SetsOK(map) /\ max_memory \in Nat
  BY DEF ServerInv, DataInv
<1>2. CASE k \in DOMAIN map
  BY <1>1, <1>2 DEF SetOf, SetsOK, Tuned
<1>3. CASE k \notin DOMAIN map
  BY <1>1, <1>3, NewSetOK DEF SetOf
<1> QED BY <1>2, <1>3

\* A command on a set keeps the sets' invariant and takes no set away: it
\* puts back a set of the capacity the name's set had.
LEMMA PutKeepsSets ==
  ASSUME ServerInv, NEW k \in Name, NEW z, SetOK(z),
         z.lru.capacity = SetOf(k).lru.capacity,
         map' = Put(k, z), UNCHANGED << update_config, max_memory >>
  PROVE  SetsInv' /\ DOMAIN map \subseteq DOMAIN map'
<1>1. SetsOK(map) /\ (update_config \/ Tuned(map, max_memory))
  BY DEF ServerInv, DataInv
<1>2. Tuned(map, max_memory) => z.lru.capacity = max_memory
  BY SetOfOK
<1>3. /\ SetsOK(map') /\ DOMAIN map \subseteq DOMAIN map'
      /\ Tuned(map, max_memory) => Tuned(map', max_memory)
  BY <1>1, <1>2, PutOK
<1>4. update_config' = update_config /\ max_memory' = max_memory
  OBVIOUS
<1>5. update_config' \/ Tuned(map', max_memory')
  BY <1>1, <1>3, <1>4
<1> QED BY <1>3, <1>5 DEF SetsInv

\* No handler takes a set away, and each keeps the sets' invariant.
LEMMA HandlersKeepSets ==
  ASSUME ServerInv, NEW c \in Client, ServeClient(c)
  PROVE  SetsInv' /\ DOMAIN map \subseteq DOMAIN map'
<1>0. SetsInv /\ c \in events /\ max_memory \in Nat
  BY HandlersAnswer DEF ServerInv, DataInv, SetsInv
<1>1. request[c].member \in Member /\ NameOf(c) \in Name
  BY <1>0, InBatch
<1>2. ASSUME UNCHANGED << map, update_config, max_memory >>
      PROVE  SetsInv' /\ DOMAIN map \subseteq DOMAIN map'
  BY <1>0, <1>2 DEF SetsInv
<1>3. CASE Crash(c) \/ Exit(c) \/ Save(c) \/ Expire(c)
  BY <1>2, <1>3 DEF Crash, Exit, Save, Expire, data
<1>4. CASE Config(c)
  <2>1. map' = map
    BY <1>4 DEF Config
  <2>2. CASE update_config'
    BY <1>0, <2>1, <2>2 DEF SetsInv
  <2>3. CASE ~update_config'
    <3>1. max_memory' = max_memory
      BY <1>4, <2>3 DEF Config
    <3>2. ~update_config
      BY <1>4, <2>3 DEF Config
    <3> QED BY <1>0, <2>1, <3>1, <3>2 DEF SetsInv
  <2> QED BY <2>2, <2>3
<1>5. CASE NoSuchKey(c) \/ Usage(c) \/ Zcard(c) \/ Zdis(c)
  BY <1>2, <1>5 DEF NoSuchKey, Usage, Zcard, Zdis, OnSet, SetFrame
<1>6. SetOK(SetOf(NameOf(c)))
  BY <1>1, SetOfOK
<1>7. CASE Zadd(c)
  <2>1. UNCHANGED << update_config, max_memory >>
    BY <1>7 DEF Zadd, SetFrame
  <2>2. CASE ~ArityOK(c)
    <3>1. map' = Put(NameOf(c), SetOf(NameOf(c)))
      BY <1>7, <2>2 DEF Zadd
    <3> QED BY <1>1, <1>6, <2>1, <3>1, PutKeepsSets
  <2>3. CASE ArityOK(c)
    <3>1. PICK z \in Insert(SetOf(NameOf(c)), request[c].member, request[c].num) :
            map' = Put(NameOf(c), z)
      BY <1>7, <2>3 DEF Zadd
    <3>2. Cmd(c) = "ZADD" /\ ~Fatal(c)
      BY <1>7 DEF Zadd, Handle
    <3>3. request[c].num \in Score
      BY <1>0, <2>3, <3>2, NumberOf
    <3>4. SetOK(z) /\ z.lru.capacity = SetOf(NameOf(c)).lru.capacity
      BY <1>1, <1>6, <3>1, <3>3, InsertOK
    <3> QED BY <1>1, <2>1, <3>1, <3>4, PutKeepsSets
  <2> QED BY <2>2, <2>3
<1>8. CASE Zscore(c) \/ Zrem(c)
  <2> DEFINE z == map[NameOf(c)]
             m == request[c].member
  <2>1. UNCHANGED << update_config, max_memory >> /\ NameOf(c) \in DOMAIN map
    BY <1>8 DEF Zscore, Zrem, OnSet, SetFrame, Exists
  <2>2. map' = Put(NameOf(c), Search(z, m)) \/ map' = Put(NameOf(c), Delete(z, m))
    BY <1>8 DEF Zscore, Zrem
  <2>3. z = SetOf(NameOf(c))
    BY <2>1 DEF SetOf
  <2>4. /\ SetOK(Search(z, m)) /\ Search(z, m).lru.capacity = z.lru.capacity
        /\ SetOK(Delete(z, m)) /\ Delete(z, m).lru.capacity = z.lru.capacity
    BY <1>1, <1>6, <2>3, SearchOK, DeleteOK
  <2> HIDE DEF z, m
  <2>5. CASE map' = Put(NameOf(c), Search(z, m))
    BY <1>1, <2>1, <2>3, <2>4, <2>5, PutKeepsSets
  <2>6. CASE map' = Put(NameOf(c), Delete(z, m))
    BY <1>1, <2>1, <2>3, <2>4, <2>6, PutKeepsSets
  <2> QED BY <2>2, <2>5, <2>6
<1> QED BY <1>3, <1>4, <1>5, <1>7, <1>8 DEF ServeClient

\* The rest of the data: the timers, the configuration and the files.
LEMMA HandlersKeepRest ==
  ASSUME ServerInv, NEW c \in Client, ServeClient(c)
  PROVE  timers' \in TimerList /\ max_memory' \in Nat /\ Files(store')
<1>0. timers \in TimerList /\ max_memory \in Nat /\ Files(store) /\ SetsOK(map)
  BY DEF ServerInv, DataInv
<1>1. c \in events /\ NameOf(c) \in Name
  BY HandlersAnswer, InBatch
<1>2. CASE Crash(c) \/ Exit(c)
  BY <1>0, <1>2 DEF Crash, Exit, data
<1>3. CASE Save(c)
  <2>1. timers' = timers /\ max_memory' = max_memory
    BY <1>3 DEF Save
  <2>2. PICK opened \in SUBSET DOMAIN map :
          store' = [k \in DOMAIN store \cup opened |->
                      IF k \in opened THEN Saved(map[k]) ELSE store[k]]
    BY <1>3 DEF Save
  <2>3. /\ DOMAIN store' = DOMAIN store \cup opened
        /\ \A k \in DOMAIN store' :
             store'[k] = IF k \in opened THEN Saved(map[k]) ELSE store[k]
    BY <2>2
  <2>4. ASSUME NEW k \in opened
        PROVE  k \in Name /\ Saved(map[k]) \in [Member -> Score \cup {Absent}]
    BY <1>0 DEF SetsOK, SetOK, Good, ZSets, Saved
  <2>5. Files(store')
    BY <1>0, <2>3, <2>4 DEF Files
  <2> QED BY <1>0, <2>1, <2>5
<1>4. CASE Config(c)
  <2>1. timers' = timers /\ store' = store
    BY <1>4 DEF Config
  <2>2. CASE max_memory' = max_memory
    BY <1>0, <2>1, <2>2
  <2>3. CASE max_memory' # max_memory
    <3>1. /\ max_memory' = SetMaxMemory(request[c].num)
          /\ ArityOK(c) /\ Cmd(c) = "CONFIG SET maxmemory" /\ ~Fatal(c)
      BY <1>4, <2>3 DEF Config, Handle
    <3>2. request[c].num \in Int
      BY <1>1, <3>1, NumberOf
    <3>3. max_memory' = IF request[c].num < 0 THEN max_memory ELSE request[c].num
      BY <3>1 DEF SetMaxMemory
    <3>4. max_memory' \in Nat
      <4> DEFINE n == request[c].num
      <4>1. max_memory \in Nat /\ n \in Int
        BY <1>0, <3>2
      <4>2. max_memory' = IF n < 0 THEN max_memory ELSE n
        BY <3>3
      <4> HIDE DEF n
      <4> QED BY <4>1, <4>2
    <3> QED BY <1>0, <2>1, <3>4
  <2> QED BY <2>2, <2>3
<1>5. CASE Expire(c)
  <2>1. max_memory' = max_memory /\ store' = store
    BY <1>5 DEF Expire
  <2>2. CASE timers' = timers
    BY <1>0, <2>1, <2>2
  <2>3. CASE timers' # timers
    <3>1. /\ timers' = Push(timers, NameOf(c), request[c].num)
          /\ ArityOK(c) /\ Cmd(c) = "EXPIRE" /\ ~Fatal(c)
      BY <1>5, <2>3 DEF Expire, Handle
    <3>2. request[c].num \in Int
      BY <1>1, <3>1, NumberOf
    <3>3. UtilTimer(NameOf(c), request[c].num) \in [key_ : Name, left : Nat]
      BY <1>1, <3>2 DEF UtilTimer
    <3>4. timers' \in TimerList
      BY <1>0, <3>1, <3>3, AppendProperties DEF Push, TimerList
    <3> QED BY <1>0, <2>1, <3>4
  <2> QED BY <2>2, <2>3
<1>6. CASE NoSuchKey(c) \/ Usage(c) \/ Zadd(c) \/ Zscore(c) \/ Zrem(c) \/ Zcard(c)
           \/ Zdis(c)
  <2>1. SetFrame
    BY <1>6 DEF NoSuchKey, Usage, Zadd, Zscore, Zrem, Zcard, Zdis, OnSet
  <2> QED BY <1>0, <2>1 DEF SetFrame
<1> QED BY <1>2, <1>3, <1>4, <1>5, <1>6 DEF ServeClient

-----------------------------------------------------------------------------
(***************************************************************************)
(* The end of a round: the sets whose timer ran out go, and with           *)
(* update_config every other one gets the configured capacity.             *)
(***************************************************************************)
LEMMA UnexpiredSets ==
  ASSUME ServerInv
  PROVE  /\ SetsOK(Unexpired)
         /\ Tuned(map, max_memory) => Tuned(Unexpired, max_memory)
         /\ DOMAIN Unexpired = IF timeout THEN DOMAIN map \ ToSet(Fired(timers))
                               ELSE DOMAIN map
<1>0. SetsOK(map)
  BY DEF ServerInv, DataInv
<1>1. CASE timeout
  <2> DEFINE D == DOMAIN map \ ToSet(Fired(timers))
  <2>1. Unexpired = [x \in D |-> map[x]]
    BY <1>1 DEF Unexpired, Restrict
  <2>2. DOMAIN Unexpired = D /\ \A x \in D : Unexpired[x] = map[x]
    BY <2>1
  <2>3. D \subseteq DOMAIN map
    OBVIOUS
  <2> HIDE DEF D
  <2>4. SetsOK(Unexpired)
    BY <1>0, <2>2, <2>3 DEF SetsOK
  <2>5. Tuned(map, max_memory) => Tuned(Unexpired, max_memory)
    BY <2>2, <2>3 DEF Tuned
  <2> QED BY <1>1, <2>2, <2>4, <2>5 DEF D
<1>2. CASE ~timeout
  BY <1>0, <1>2 DEF Unexpired
<1> QED BY <1>1, <1>2

LEMMA RetunedSets ==
  ASSUME ServerInv, NEW m, SetsOK(m), NEW f \in Retuned(m)
  PROVE  SetsOK(f) /\ Tuned(f, max_memory) /\ DOMAIN f = DOMAIN m
<1> DEFINE new == [k \in DOMAIN m |-> SetMax(m[k], max_memory)]
<1>0. max_memory \in Nat
  BY DEF ServerInv, DataInv
<1>1. /\ f \in [DOMAIN m -> UNION {new[k] : k \in DOMAIN m}]
      /\ \A k \in DOMAIN m : f[k] \in new[k]
  BY DEF Retuned
<1>2. DOMAIN f = DOMAIN m
  BY <1>1
<1>3. \A k \in DOMAIN m : f[k] \in SetMax(m[k], max_memory)
  BY <1>1
<1>4. ASSUME NEW k \in DOMAIN m PROVE SetOK(f[k]) /\ f[k].lru.capacity = max_memory
  <2>1. SetOK(m[k])
    BY DEF SetsOK
  <2> QED BY <1>0, <1>3, <2>1, SetMaxOK
<1> QED BY <1>2, <1>4 DEF SetsOK, Tuned

\* What the end of a round does with the sorted sets.
LEMMA RoundSets ==
  ASSUME ServerInv, EndOfRound
  PROVE  /\ SetsOK(map') /\ Tuned(map', max_memory)
         /\ DOMAIN map' = DOMAIN Unexpired
<1>1. SetsOK(Unexpired) /\ (Tuned(map, max_memory) => Tuned(Unexpired, max_memory))
  BY UnexpiredSets
<1>2. update_config \/ Tuned(map, max_memory)
  BY DEF ServerInv, DataInv
<1>3. CASE update_config
  <2>1. map' \in Retuned(Unexpired)
    BY <1>3 DEF EndOfRound
  <2> QED BY <1>1, <2>1, RetunedSets
<1>4. CASE ~update_config
  <2>1. map' = Unexpired
    BY <1>4 DEF EndOfRound
  <2> QED BY <1>1, <1>2, <1>4, <2>1
<1> QED BY <1>3, <1>4

-----------------------------------------------------------------------------
(***************************************************************************)
(* Each part of ServerInv is kept by every step.                           *)
(***************************************************************************)
LEMMA DataStep == ServerInv /\ [Next]_vars => DataInv'
<1> SUFFICES ASSUME ServerInv, [Next]_vars PROVE DataInv'
  OBVIOUS
<1>0. DataInv
  BY DEF ServerInv
<1>1. ASSUME UNCHANGED << map, timers, max_memory, store, update_config >> PROVE DataInv'
  BY <1>0, <1>1 DEF DataInv
<1>2. CASE EpollWait
  BY <1>1, <1>2 DEF EpollWait, data
<1>3. CASE HandleSignals
  BY <1>1, <1>3 DEF HandleSignals, data
<1>4. ASSUME NEW c \in Client, ServeClient(c) PROVE DataInv'
  <2>1. SetsInv'
    BY <1>4, HandlersKeepSets
  <2>2. timers' \in TimerList /\ max_memory' \in Nat /\ Files(store')
    BY <1>4, HandlersKeepRest
  <2> QED BY <2>1, <2>2 DEF DataInv, SetsInv
<1>5. CASE EndOfRound
  <2>1. SetsOK(map') /\ Tuned(map', max_memory)
    BY <1>5, RoundSets
  <2>2. max_memory' = max_memory /\ store' = store
    BY <1>5 DEF EndOfRound
  <2>3. timers' = timers \/ timers' = AfterTick(timers)
    BY <1>5 DEF EndOfRound
  <2>4. timers' \in TimerList
    BY <1>0, <2>3, AfterTickSound DEF DataInv
  <2> QED BY <1>0, <2>1, <2>2, <2>4 DEF DataInv
<1>6. CASE Second
  <2>1. UNCHANGED << map, max_memory, store, update_config >> /\ timers' = Elapse(timers)
    BY <1>6 DEF Second, loop
  <2>2. timers' \in TimerList
    BY <1>0, <2>1, ElapseSound DEF DataInv
  <2> QED BY <1>0, <2>1, <2>2 DEF DataInv
<1>7. ASSUME NEW c \in Client, NEW r \in Request, Send(c, r) PROVE DataInv'
  BY <1>1, <1>7 DEF Send, loop, data
<1>8. ASSUME NEW s \in Signals, SignalHandler(s) PROVE DataInv'
  BY <1>1, <1>8 DEF SignalHandler, loop, data
<1>9. CASE UNCHANGED vars
  BY <1>1, <1>9 DEF vars
<1> QED BY <1>2, <1>3, <1>4, <1>5, <1>6, <1>7, <1>8, <1>9 DEF Next, Loop

LEMMA LoopStep == ServerInv /\ [Next]_vars => LoopInv'
<1> SUFFICES ASSUME ServerInv, [Next]_vars PROVE LoopInv'
  OBVIOUS
<1>0. LoopInv
  BY DEF ServerInv
<1> USE DEF LoopInv
<1>1. ASSUME UNCHANGED loop, UNCHANGED << pipe, alarm >> PROVE LoopInv'
  BY <1>0, <1>1 DEF loop
<1>2. CASE EpollWait
  BY <1>0, <1>2 DEF EpollWait
<1>3. CASE HandleSignals
  <2>1. /\ UNCHANGED << timeout_keys, update_config, pc, alarm >> /\ pipe' = {}
        /\ timeout' \in BOOLEAN /\ stop_server' \in BOOLEAN
    BY <1>3 DEF HandleSignals
  <2> QED BY <1>0, <2>1
<1>4. ASSUME NEW c \in Client, ServeClient(c) PROVE LoopInv'
  BY <1>0, <1>4, HandlersKeepLoop
<1>5. CASE EndOfRound
  <2>1. /\ pc' \in {"exited", "wait"} /\ timeout' = FALSE /\ update_config' = FALSE
        /\ stop_server' = stop_server /\ pipe' = pipe
    BY <1>5 DEF EndOfRound
  <2>2. alarm' = alarm \/ alarm' = TimeSlot
    BY <1>5 DEF EndOfRound, TimeoutHandler
  <2>3. alarm' \in 0..TimeSlot
    BY <1>0, <2>2, TimeSlotAssumption
  <2>4. timeout_keys' = timeout_keys \/ timeout_keys' = Fired(timers)
    BY <1>5 DEF EndOfRound
  <2>5. timeout_keys' \in Seq(Name)
    BY <1>0, <2>4, FiredSound DEF ServerInv, DataInv
  <2> QED BY <1>0, <2>1, <2>3, <2>5
<1>6. CASE Second
  <2>1. alarm' = (IF alarm > 0 THEN alarm - 1 ELSE 0) /\ UNCHANGED loop
    BY <1>6 DEF Second
  <2>2. alarm' \in 0..TimeSlot
    BY <1>0, <2>1, TimeSlotAssumption
  <2>3. pipe' = pipe \/ pipe' = pipe \cup {"SIGALRM"}
    BY <1>6 DEF Second
  <2>4. pipe' \subseteq Signals \cup {"SIGALRM"}
    BY <1>0, <2>3
  <2> QED BY <1>0, <2>1, <2>2, <2>4 DEF loop
<1>7. ASSUME NEW c \in Client, NEW r \in Request, Send(c, r) PROVE LoopInv'
  BY <1>1, <1>7 DEF Send
<1>8. ASSUME NEW s \in Signals, SignalHandler(s) PROVE LoopInv'
  <2>1. UNCHANGED loop /\ UNCHANGED alarm /\ pipe' = pipe \cup {s}
    BY <1>8 DEF SignalHandler
  <2> QED BY <1>0, <2>1 DEF loop
<1>9. CASE UNCHANGED vars
  BY <1>1, <1>9 DEF vars, loop
<1> QED BY <1>2, <1>3, <1>4, <1>5, <1>6, <1>7, <1>8, <1>9 DEF Next, Loop

LEMMA ClientStep == ServerInv /\ [Next]_vars => ClientInv'
<1> SUFFICES ASSUME ServerInv, [Next]_vars PROVE ClientInv'
  OBVIOUS
<1>0. ClientInv
  BY DEF ServerInv
<1> USE DEF ClientInv
<1>1. ASSUME UNCHANGED << request, unread, reply >>, events' \subseteq unread \cup {PipeFd}
      PROVE  ClientInv'
  BY <1>0, <1>1
<1>2. CASE EpollWait
  <2>1. UNCHANGED << request, unread, reply >> /\ events' \subseteq unread \cup {PipeFd}
    BY <1>2 DEF EpollWait
  <2> QED BY <1>1, <2>1
<1>3. CASE HandleSignals
  <2>1. UNCHANGED << request, unread, reply >> /\ events' \subseteq events
    BY <1>3 DEF HandleSignals
  <2> QED BY <1>0, <1>1, <2>1
<1>4. ASSUME NEW c \in Client, ServeClient(c) PROVE ClientInv'
  <2>1. /\ events' \subseteq events \ {c} /\ unread' = unread \ {c}
        /\ NoReply \/ \E r \in Replies : Write(c, r)
    BY <1>4, HandlersAnswer
  <2>2. events' \subseteq unread' \cup {PipeFd}
    BY <1>0, <2>1
  <2>3. CASE NoReply
    <3>1. request' = request /\ reply' = reply
      BY <2>3 DEF NoReply
    <3> QED BY <1>0, <2>1, <2>2, <3>1
  <2>4. ASSUME NEW r \in Replies, Write(c, r) PROVE ClientInv'
    <3>1. /\ request' = [request EXCEPT ![c] = None]
          /\ reply' = [reply EXCEPT ![c] = r]
      BY <2>4 DEF Write
    <3>2. request' \in [Client -> Request \cup {None}] /\ reply' \in [Client -> Replies]
      BY <1>0, <3>1
    <3>3. ASSUME NEW x \in unread' PROVE x \in Client /\ request'[x] # None
      <4>1. x \in unread /\ x # c
        BY <2>1
      <4>2. x \in Client /\ request[x] # None
        BY <1>0, <4>1
      <4> QED BY <1>0, <3>1, <4>1, <4>2
    <3> QED BY <2>2, <3>2, <3>3
  <2> QED BY <2>1, <2>3, <2>4
<1>5. CASE EndOfRound
  BY <1>0, <1>1, <1>5 DEF EndOfRound
<1>6. CASE Second
  BY <1>0, <1>1, <1>6 DEF Second, loop
<1>7. ASSUME NEW c \in Client, NEW r \in Request, Send(c, r) PROVE ClientInv'
  <2>1. /\ request' = [request EXCEPT ![c] = r] /\ unread' = unread \cup {c}
        /\ reply' = [reply EXCEPT ![c] = << >>] /\ events' = events
    BY <1>7 DEF Send, loop
  <2>2. << >> \in Replies
    BY DEF Replies
  <2>3. request' \in [Client -> Request \cup {None}] /\ reply' \in [Client -> Replies]
    BY <1>0, <2>1, <2>2
  <2>4. ASSUME NEW x \in unread' PROVE x \in Client /\ request'[x] # None
    <3>1. r # None
      BY NoneAssumption
    <3>2. CASE x = c
      BY <1>0, <2>1, <3>1, <3>2
    <3>3. CASE x # c
      BY <1>0, <2>1, <3>3
    <3> QED BY <3>2, <3>3
  <2>5. events' \subseteq unread' \cup {PipeFd}
    BY <1>0, <2>1
  <2> QED BY <2>3, <2>4, <2>5
<1>8. ASSUME NEW s \in Signals, SignalHandler(s) PROVE ClientInv'
  BY <1>0, <1>1, <1>8 DEF SignalHandler, loop
<1>9. CASE UNCHANGED vars
  BY <1>0, <1>1, <1>9 DEF vars
<1> QED BY <1>2, <1>3, <1>4, <1>5, <1>6, <1>7, <1>8, <1>9 DEF Next, Loop

LEMMA ServerInit == Init => ServerInv
<1> SUFFICES ASSUME Init PROVE ServerInv
  OBVIOUS
<1>1. DOMAIN map = {} /\ DOMAIN store = {}
  BY DEF Init
<1>2. timers \in TimerList /\ timeout_keys \in Seq(Name)
  BY DEF Init, NoTimers, TimerList
<1>3. max_memory \in Nat
  BY DEF Init
<1>4. DataInv
  BY <1>1, <1>2, <1>3 DEF DataInv, SetsOK, Tuned, Files
<1>5. alarm \in 0..TimeSlot
  BY TimeSlotAssumption DEF Init
<1>6. LoopInv
  BY <1>2, <1>5 DEF Init, LoopInv
<1>7. << >> \in Replies
  BY DEF Replies
<1>8. ClientInv
  BY <1>7 DEF Init, ClientInv
<1> QED BY <1>4, <1>6, <1>8 DEF ServerInv

\* ServerInv holds in every state of the server, for any clients, names,
\* command lines, signals, TimeSlot and bound on the timers.
THEOREM ServerInvariant == Spec => []ServerInv
<1>1. ServerInv /\ [Next]_vars => ServerInv'
  BY DataStep, LoopStep, ClientStep DEF ServerInv
<1> QED BY <1>1, ServerInit, PTL DEF Spec

\* The types of the variables of main (server.cpp lines 69-132) hold in every
\* state: among them that the descriptors left of a batch are the pipe and
\* connections whose command waits, that only a client that waits for a reply
\* has a command under way, and that every reply is a number or a fixed text.
THEOREM ServerTypeCorrect == Spec => []TypeOK
<1>1. ServerInv => TypeOK
  <2> SUFFICES ASSUME ServerInv PROVE TypeOK
    OBVIOUS
  <2>1. \A k \in DOMAIN map : map[k] \in ZSets
    BY DEF ServerInv, DataInv, SetsOK, SetOK, Good
  <2>2. DOMAIN map \subseteq Name
    BY DEF ServerInv, DataInv, SetsOK
  <2>3. timers \in Seq([key_ : Name, left : Nat]) /\ max_memory \in Nat /\ Files(store)
    BY DEF ServerInv, DataInv, TimerList
  <2>4. {stop_server, timeout, update_config} \subseteq BOOLEAN
    BY DEF ServerInv, LoopInv
  <2>5. /\ timeout_keys \in Seq(Name) /\ pc \in {"wait", "batch", "exited", "crashed"}
        /\ pipe \subseteq Signals \cup {"SIGALRM"} /\ alarm \in 0..TimeSlot
    BY DEF ServerInv, LoopInv
  <2>6. ClientInv
    BY DEF ServerInv
  <2> QED BY <2>1, <2>2, <2>3, <2>4, <2>5, <2>6 DEF TypeOK, Files, ClientInv, Replies
<1> QED BY <1>1, ServerInvariant, PTL

\* When the loop (server.cpp lines 134-388) is back in epoll_wait, every set
\* has the configured capacity: UpdateMaxMemory (382-387) reaches the sets
\* that existed before CONFIG SET maxmemory and the ones a ZADD of the same
\* batch created with the old value.
THEOREM ServerConfigApplied == Spec => []ConfigApplied
<1>1. ServerInv => ConfigApplied
  BY DEF ServerInv, DataInv, LoopInv, ConfigApplied, Tuned
<1> QED BY <1>1, ServerInvariant, PTL

\* A step that takes a sorted set away ends a round, and a timer of the
\* set's name had run out.
LEMMA ErasingStep ==
  ASSUME ServerInv, [Next]_vars, NEW k \in DOMAIN map \ DOMAIN map'
  PROVE  /\ events = {}
         /\ \E i \in DOMAIN timers : timers[i].key_ = k /\ timers[i].left = 0
<1>1. map' # map
  OBVIOUS
<1>2. ASSUME NEW c \in Client PROVE ~ServeClient(c)
  BY HandlersKeepSets
<1>3. EndOfRound
  <2>1. ~EpollWait /\ ~HandleSignals
    BY <1>1 DEF EpollWait, HandleSignals, data
  <2>2. ~Second /\ \A c \in Client, r \in Request : ~Send(c, r)
    BY <1>1 DEF Second, Send, data
  <2>3. \A s \in Signals : ~SignalHandler(s)
    BY <1>1 DEF SignalHandler, data
  <2>4. ~(UNCHANGED vars)
    BY <1>1 DEF vars
  <2> QED BY <1>2, <2>1, <2>2, <2>3, <2>4 DEF Next, Loop
<1>4. events = {}
  BY <1>3 DEF EndOfRound
<1>5. k \notin DOMAIN Unexpired
  BY <1>3, RoundSets
<1>6. k \in ToSet(Fired(timers))
  BY <1>5, UnexpiredSets
<1>7. timers \in TimerList
  BY DEF ServerInv, DataInv
<1>8. \E i \in DOMAIN timers : timers[i].key_ = k /\ timers[i].left = 0
  BY <1>6, <1>7, FiredSound
<1> QED BY <1>4, <1>8

\* No command of a client removes a sorted set, not even ZREM of its last
\* member; map.erase (server.cpp lines 374-376) is reached only with the keys
\* that Timer::Tick returned, each of them due.
THEOREM ServerErasesExpired == Spec => OnlyTimersErase
<1> DEFINE A == \A k \in DOMAIN map \ DOMAIN map' :
                  /\ events = {}
                  /\ \E i \in DOMAIN timers : timers[i].key_ = k /\ timers[i].left = 0
<1>1. ServerInv /\ [Next]_vars => [A]_vars
  BY ErasingStep
<1>2. [][A]_vars => OnlyTimersErase
  BY DEF OnlyTimersErase
<1> HIDE DEF A
<1> QED BY <1>1, <1>2, ServerInvariant, PTL DEF Spec
=============================================================================
