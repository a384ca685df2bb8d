---------------------------- MODULE StressProofs ----------------------------
(***************************************************************************)
(* Proofs about module StressTest, for every number of threads, every test *)
(* count and every interleaving.                                           *)
(***************************************************************************)
EXTENDS StressTest, OperatorProofs

-----------------------------------------------------------------------------
(***************************************************************************)
(* The inductive invariant.  The safety of the searches rests on a chain:  *)
(* a thread that is running runs main's current phase (InStep), a thread   *)
(* that has ended its insertions has made them all (Inserted), so from     *)
(* main's second phase on the member is there if there was a round to      *)
(* insert it (Stored), and a thread that searches has a round (Searching). *)
(* With the one member in the set, the LRU list is that one entry          *)
(* (OneEntry), which get has nothing to move in.                           *)
(***************************************************************************)
Rounds == test_count \div NumThreads

\* The set holds at most the member "a"; when it does the cache tracks it,
\* whatever the length of its name, and no eviction is ever pending.
OneEntry(y) ==
  /\ Good(y)
  /\ Pending(y) = {}
  /\ Present(y) \subseteq {"a"}
  /\ "a" \in Present(y) => y.lru.cache = {"a"}

Running(t) == pc[t] \in {"loop", "lock", "insert", "search", "get"}

\* What main knows of thread t.
InStep(t) ==
  /\ Running(t) => t < started
  /\ t < started => role[t] = phase /\ pc[t] # "none"
  /\ t < joined => pc[t] = "ended"
  /\ pc[t] \in {"lock", "insert"} => role[t] = "insert"
  /\ pc[t] \in {"search", "get"} => role[t] = "get"

\* What an inserting thread has done after count[t] rounds.
Inserted(t) ==
  role[t] = "insert" =>
    /\ pc[t] \in {"loop", "ended"} /\ count[t] > 0 => "a" \in Present(z)
    /\ pc[t] = "ended" => count[t] >= Rounds

Searching(t) == pc[t] \in {"search", "get"} => Rounds > 0

Stored == phase # "insert" /\ Rounds > 0 => "a" \in Present(z)

StressInv ==
  /\ TypeOK
  /\ OneEntry(z)
  /\ started # 0 => phase # "returned"
  /\ \A t \in Thread : InStep(t) /\ Inserted(t) /\ Searching(t)
  /\ Stored

-----------------------------------------------------------------------------
(***************************************************************************)
(* What the two calls keep of the set.                                     *)
(***************************************************************************)
LEMMA NewOneEntry == OneEntry(NewZSet(0))
<1>1. Good(NewZSet(0))
  BY NewGood
<1>2. Present(NewZSet(0)) = {}
  BY DEF Present, NewZSet
<1>3. Pending(NewZSet(0)) = {}
  BY DEF Pending, NewZSet, NewCache, ToSet
<1> QED BY <1>1, <1>2, <1>3 DEF OneEntry

\* A refreshed entry stays, and so does the member.
LEMMA GetOneEntry ==
  ASSUME NEW y, OneEntry(y), NEW d, d = [y EXCEPT !.lru = get(y.lru, "a")]
  PROVE  OneEntry(d) /\ Present(d) = Present(y)
<1>1. Good(y) /\ y \in ZSets /\ y.lru \in Cache /\ Indexed(y.lru) /\ Bounded(y.lru)
  BY DEF OneEntry, Good, ZSets
<1>2. Good(d)
  BY <1>1, GetGood
<1>3. /\ get(y.lru, "a").cache = y.lru.cache
      /\ get(y.lru, "a").delete_keys = y.lru.delete_keys
  BY <1>1, GetSound
<1>4. d.score = y.score /\ d.lru = get(y.lru, "a")
  BY <1>1 DEF ZSets
<1>5. Present(d) = Present(y) /\ Pending(d) = Pending(y) /\ d.lru.cache = y.lru.cache
  BY <1>3, <1>4 DEF Present, Pending
<1> QED BY <1>2, <1>5 DEF OneEntry

\* InsertElement leaves the member in the set and tracked by the cache.
LEMMA InsertOneEntry ==
  ASSUME NEW y, OneEntry(y), NEW s \in Score, NEW d \in Insert(y, "a", s)
  PROVE  OneEntry(d) /\ "a" \in Present(d)
<1>0. "a" \in Member /\ s # Absent
  BY EleAssumption, AbsentAssumption DEF Member, Score
<1>1. Good(y) /\ Pending(y) = {} /\ Present(y) \subseteq {"a"}
  BY DEF OneEntry
<1>2. CASE y.score["a"] = s
  <2>1. d = [y EXCEPT !.lru = get(y.lru, "a")]
    BY <1>2 DEF Insert
  <2>2. "a" \in Present(y)
    BY <1>0, <1>2 DEF Present
  <2> QED BY <2>1, <2>2, GetOneEntry
<1>3. CASE y.score["a"] # s
  <2>1. d \in Store(y, "a", s)
    BY <1>3 DEF Insert
  <2>2. Good(d) /\ Pending(d) = {} /\ Present(d) \subseteq {"a"} /\ d.score["a"] = s
    BY <1>0, <1>1, <2>1, StoreFacts
  <2>3. "a" \in Present(d)
    BY <1>0, <2>2 DEF Present
  <2>4. "a" \in d.lru.cache
    BY <1>0, <1>1, <2>1, StoreTracks
  <2>5. d.lru.cache \subseteq {"a"}
    BY <2>2, GoodFacts
  <2> QED BY <2>2, <2>3, <2>4, <2>5 DEF OneEntry
<1> QED BY <1>2, <1>3

\* With the member in the set, the entry at the head of the list is its own.
LEMMA HeadIsEle ==
  ASSUME NEW y, OneEntry(y), "a" \in Present(y)
  PROVE  y.lru.lru[1].key = "a"
<1>1. y.lru.cache = {"a"} /\ y.lru.cache = KeysOf(y.lru.lru)
  BY DEF OneEntry, Good, Indexed
<1>2. y.lru.lru \in Seq(Entry)
  BY DEF OneEntry, Good, ZSets, Cache
<1>3. DOMAIN y.lru.lru = 1..Len(y.lru.lru) /\ Len(y.lru.lru) \in Nat
  BY <1>2, LenProperties
<1>4. \E i \in 1..Len(y.lru.lru) : y.lru.lru[i].key = "a"
  BY <1>1, <1>3 DEF KeysOf
<1>5. 1 \in DOMAIN y.lru.lru
  BY <1>3, <1>4
<1> QED BY <1>1, <1>5 DEF KeysOf

-----------------------------------------------------------------------------
(***************************************************************************)
(* The invariance: one lemma per action.                                   *)
(***************************************************************************)
LEMMA StressInitInv == Init => StressInv
<1> SUFFICES ASSUME Init PROVE StressInv
  OBVIOUS
<1>1. OneEntry(z)
  BY NewOneEntry DEF Init
<1>2. z \in ZSets
  BY <1>1 DEF OneEntry, Good
<1>3. TypeOK
  BY <1>2, NumThreadsAssumption, NoneAssumption DEF Init, TypeOK, Thread, ZSets
<1>4. ASSUME NEW t \in Thread PROVE InStep(t) /\ Inserted(t) /\ Searching(t)
  BY NumThreadsAssumption DEF Init, Thread, InStep, Running, Inserted, Searching
<1>5. Stored /\ started = 0
  BY DEF Init, Stored
<1> QED BY <1>1, <1>3, <1>4, <1>5 DEF StressInv

\* The number of rounds is a number.
LEMMA RoundsNat == TypeOK => Rounds \in Nat
<1> SUFFICES ASSUME TypeOK PROVE Rounds \in Nat
  OBVIOUS
<1>1. test_count \in Nat /\ NumThreads \in Nat /\ NumThreads > 0
  BY TestCountsAssumption, NumThreadsAssumption DEF TypeOK
<1> QED BY <1>1 DEF Rounds

LEMMA StartThreadInv == StressInv /\ StartThread => StressInv'
<1> SUFFICES ASSUME StressInv, StartThread PROVE StressInv'
  OBVIOUS
<1>1. /\ TypeOK /\ OneEntry(z) /\ Stored
      /\ \A t \in Thread : InStep(t) /\ Inserted(t) /\ Searching(t)
  BY DEF StressInv
<1>2. /\ phase # "returned" /\ started < NumThreads /\ started' = started + 1
      /\ role' = [role EXCEPT ![started] = phase]
      /\ pc' = [pc EXCEPT ![started] = "loop"]
      /\ count' = [count EXCEPT ![started] = 0]
      /\ mode' = mode /\ test_count' = test_count /\ phase' = phase
      /\ joined' = joined /\ mtx' = mtx /\ z' = z
  BY DEF StartThread, args
<1>3. /\ started \in Nat /\ joined \in Nat /\ joined <= started /\ started \in Thread
      /\ \A t \in Thread : t \in Nat
  BY <1>1, <1>2, NumThreadsAssumption DEF TypeOK, Thread
<1>4. Rounds' = Rounds
  BY <1>2 DEF Rounds
<1>5. pc[started] # "insert" /\ mtx # started
  BY <1>1, <1>3 DEF TypeOK, InStep, Running
<1>6. TypeOK'
  <2>1. started' \in 0..NumThreads /\ joined' \in 0..started'
    BY <1>2, <1>3, NumThreadsAssumption
  <2>2. /\ role' \in [Thread -> {"none", "insert", "get"}]
        /\ pc' \in [Thread -> {"none", "loop", "lock", "insert", "search", "get", "ended"}]
        /\ count' \in [Thread -> Nat]
    BY <1>1, <1>2, <1>3 DEF TypeOK
  <2>3. ASSUME NEW t \in Thread PROVE pc'[t] = "insert" <=> mtx' = t
    BY <1>1, <1>2, <1>3, <1>5 DEF TypeOK
  <2> QED BY <1>1, <1>2, <2>1, <2>2, <2>3 DEF TypeOK
<1>7. ASSUME NEW t \in Thread PROVE InStep(t)' /\ Inserted(t)' /\ Searching(t)'
  <2>1. CASE t = started
    <3>1. role'[t] = phase /\ pc'[t] = "loop" /\ count'[t] = 0
      BY <1>1, <1>2, <1>3, <2>1 DEF TypeOK
    <3> QED BY <1>2, <1>3, <2>1, <3>1 DEF InStep, Running, Inserted, Searching
  <2>2. CASE t # started
    <3>1. role'[t] = role[t] /\ pc'[t] = pc[t] /\ count'[t] = count[t]
      BY <1>1, <1>2, <1>3, <2>2 DEF TypeOK
    <3>2. t < started' <=> t < started
      BY <1>2, <1>3, <2>2
    <3> QED BY <1>1, <1>2, <1>4, <3>1, <3>2 DEF InStep, Running, Inserted, Searching
  <2> QED BY <2>1, <2>2
<1>8. Stored' /\ OneEntry(z')
  BY <1>1, <1>2, <1>4 DEF Stored
<1> QED BY <1>2, <1>6, <1>7, <1>8 DEF StressInv

LEMMA JoinThreadInv == StressInv /\ JoinThread => StressInv'
<1> SUFFICES ASSUME StressInv, JoinThread PROVE StressInv'
  OBVIOUS
<1>1. /\ TypeOK /\ OneEntry(z) /\ Stored
      /\ started # 0 => phase # "returned"
      /\ \A t \in Thread : InStep(t) /\ Inserted(t) /\ Searching(t)
  BY DEF StressInv
<1>2. /\ started = NumThreads /\ joined < NumThreads /\ pc[joined] = "ended"
      /\ joined' = joined + 1
      /\ mode' = mode /\ test_count' = test_count /\ phase' = phase
      /\ started' = started /\ role' = role /\ pc' = pc /\ count' = count
      /\ mtx' = mtx /\ z' = z
  BY DEF JoinThread, args
<1>3. joined \in Nat /\ \A t \in Thread : t \in Nat
  BY <1>1, NumThreadsAssumption DEF TypeOK, Thread
<1>4. Rounds' = Rounds
  BY <1>2 DEF Rounds
<1>5. TypeOK'
  <2>1. joined' \in 0..started'
    BY <1>2, <1>3, NumThreadsAssumption
  <2> QED BY <1>1, <1>2, <2>1 DEF TypeOK
<1>6. ASSUME NEW t \in Thread PROVE InStep(t)' /\ Inserted(t)' /\ Searching(t)'
  <2>1. t < joined' => t < joined \/ t = joined
    BY <1>2, <1>3
  <2>2. t < joined' => pc'[t] = "ended"
    BY <1>1, <1>2, <2>1 DEF InStep
  <2> QED BY <1>1, <1>2, <1>4, <2>2 DEF InStep, Running, Inserted, Searching
<1>7. Stored' /\ OneEntry(z')
  BY <1>1, <1>2, <1>4 DEF Stored
<1> QED BY <1>1, <1>2, <1>5, <1>6, <1>7 DEF StressInv

\* At the end of main's first phase thread 0 has ended, so it has made its
\* rounds, and if there was one the member is in the set.
LEMMA EndPhaseInv == StressInv /\ EndPhase => StressInv'
<1> SUFFICES ASSUME StressInv, EndPhase PROVE StressInv'
  OBVIOUS
<1>1. /\ TypeOK /\ OneEntry(z) /\ Stored
      /\ \A t \in Thread : InStep(t) /\ Inserted(t) /\ Searching(t)
  BY DEF StressInv
<1>2. /\ phase # "returned" /\ joined = NumThreads
      /\ phase' \in {"get", "returned"} /\ started' = 0 /\ joined' = 0
      /\ mode' = mode /\ test_count' = test_count
      /\ role' = role /\ pc' = pc /\ count' = count /\ mtx' = mtx /\ z' = z
  BY DEF EndPhase, args
<1>3. /\ started = NumThreads
      /\ \A t \in Thread : t \in Nat /\ t < started /\ t < joined /\ ~(t < 0)
  BY <1>1, <1>2, NumThreadsAssumption DEF TypeOK, Thread
<1>4. \A t \in Thread : pc[t] = "ended" /\ role[t] = phase
  BY <1>1, <1>3 DEF InStep
<1>5. Rounds' = Rounds /\ Rounds \in Nat
  BY <1>1, <1>2, RoundsNat DEF Rounds
<1>6. TypeOK'
  <2>1. started' \in 0..NumThreads /\ joined' \in 0..started'
    BY <1>2, NumThreadsAssumption
  <2> QED BY <1>1, <1>2, <2>1 DEF TypeOK
<1>7. ASSUME NEW t \in Thread PROVE InStep(t)' /\ Inserted(t)' /\ Searching(t)'
  <2>1. InStep(t)'
    BY <1>2, <1>3, <1>4 DEF InStep, Running
  <2>2. Inserted(t)' /\ Searching(t)'
    BY <1>1, <1>2, <1>5 DEF Inserted, Searching
  <2> QED BY <2>1, <2>2
<1>8. Stored'
  <2>1. CASE phase = "insert" /\ Rounds > 0
    <3>1. 0 \in Thread
      BY NumThreadsAssumption DEF Thread
    <3>2. count[0] \in Nat /\ count[0] >= Rounds
      BY <1>1, <1>4, <2>1, <3>1 DEF TypeOK, Inserted
    <3>3. count[0] > 0
      BY <1>5, <2>1, <3>2
    <3>4. "a" \in Present(z)
      BY <1>1, <1>4, <2>1, <3>1, <3>3 DEF Inserted
    <3> QED BY <1>2, <3>4 DEF Stored
  <2>2. CASE ~(phase = "insert" /\ Rounds > 0)
    BY <1>1, <1>2, <1>5, <2>2 DEF Stored
  <2> QED BY <2>1, <2>2
<1> QED BY <1>1, <1>2, <1>6, <1>7, <1>8 DEF StressInv

\* A step of thread t leaves what is known of main and of the other threads
\* as it is, as long as it does not delete the member.
LEMMA ThreadStep ==
  ASSUME StressInv, NEW t \in Thread, NEW to,
         to \in {"loop", "lock", "insert", "search", "get", "ended"}, Go(t, to),
         UNCHANGED << args, main, role >>,
         \A u \in Thread \ {t} : count'[u] = count[u],
         count' \in [Thread -> Nat],
         mtx' \in Thread \cup {None},
         \A u \in Thread : pc'[u] = "insert" <=> mtx' = u,
         OneEntry(z'), "a" \in Present(z) => "a" \in Present(z'),
         InStep(t)', Inserted(t)', Searching(t)'
  PROVE  StressInv'
<1>1. /\ TypeOK /\ Stored
      /\ started # 0 => phase # "returned"
      /\ \A u \in Thread : InStep(u) /\ Inserted(u) /\ Searching(u)
  BY DEF StressInv
<1>2. /\ mode' = mode /\ test_count' = test_count /\ phase' = phase
      /\ started' = started /\ joined' = joined /\ role' = role
      /\ pc' = [pc EXCEPT ![t] = to]
  BY DEF args, main, Go
<1>3. Rounds' = Rounds
  BY <1>2 DEF Rounds
<1>4. z' \in ZSets
  BY DEF OneEntry, Good
<1>5. pc' \in [Thread -> {"none", "loop", "lock", "insert", "search", "get", "ended"}]
  BY <1>1, <1>2 DEF TypeOK
<1>6. TypeOK'
  BY <1>1, <1>2, <1>4, <1>5 DEF TypeOK, ZSets
<1>7. ASSUME NEW u \in Thread \ {t} PROVE InStep(u)' /\ Inserted(u)' /\ Searching(u)'
  <2>1. pc'[u] = pc[u] /\ count'[u] = count[u]
    BY <1>1, <1>2 DEF TypeOK
  <2> QED BY <1>1, <1>2, <1>3, <2>1 DEF InStep, Running, Inserted, Searching
<1>8. Stored'
  BY <1>1, <1>2, <1>3 DEF Stored
<1> QED BY <1>1, <1>2, <1>6, <1>7, <1>8 DEF StressInv

\* What is known of a thread that is at the point at.
LEMMA ThreadAt ==
  ASSUME StressInv, NEW t \in Thread, NEW at, pc[t] = at,
         at \in {"loop", "lock", "insert", "search", "get"}, NEW to
  PROVE  /\ t < started /\ ~(t < joined) /\ role[t] = phase
         /\ Go(t, to) => pc' = [pc EXCEPT ![t] = to] /\ pc'[t] = to
         /\ count[t] \in Nat /\ Rounds \in Nat
<1>1. TypeOK /\ InStep(t)
  BY DEF StressInv
<1>2. t < started /\ ~(t < joined) /\ role[t] = phase
  BY <1>1 DEF InStep, Running
<1>3. Go(t, to) => pc' = [pc EXCEPT ![t] = to] /\ pc'[t] = to
  BY <1>1 DEF Go, TypeOK
<1>4. count[t] \in Nat /\ Rounds \in Nat
  BY <1>1, RoundsNat DEF TypeOK
<1> QED BY <1>2, <1>3, <1>4

LEMMA IterateInv == ASSUME NEW t \in Thread PROVE StressInv /\ Iterate(t) => StressInv'
<1> SUFFICES ASSUME StressInv, Iterate(t) PROVE StressInv'
  OBVIOUS
<1> DEFINE first == IF role[t] = "insert" THEN "lock" ELSE "search"
<1>1. /\ TypeOK /\ OneEntry(z) /\ InStep(t) /\ Inserted(t)
      /\ started # 0 => phase # "returned"
  BY DEF StressInv
<1>2. pc[t] = "loop" /\ UNCHANGED << args, main, role, mtx, z >>
  BY DEF Iterate
<1>3. t < started /\ ~(t < joined) /\ role[t] = phase /\ count[t] \in Nat /\ Rounds \in Nat
  BY <1>2, ThreadAt
<1>4. /\ phase' = phase /\ started' = started /\ joined' = joined /\ role' = role
      /\ Rounds' = Rounds /\ z' = z /\ mtx' = mtx
  BY <1>2 DEF args, main, Rounds
<1>5. mtx # t
  BY <1>1, <1>2 DEF TypeOK
<1>6. CASE /\ count[t] < Rounds /\ count' = [count EXCEPT ![t] = @ + 1] /\ Go(t, first)
  <2>1. pc'[t] = first /\ pc' = [pc EXCEPT ![t] = first]
    BY <1>2, <1>6, ThreadAt
  <2>2. /\ count'[t] = count[t] + 1 /\ count' \in [Thread -> Nat]
        /\ \A u \in Thread \ {t} : count'[u] = count[u]
    BY <1>1, <1>6 DEF TypeOK
  <2>3. \A u \in Thread : pc'[u] = "insert" <=> mtx' = u
    BY <1>1, <1>4, <1>5, <2>1 DEF TypeOK
  <2>4. role[t] \in {"insert", "get"}
    <3>1. started \in Nat /\ t \in Nat
      BY <1>1, NumThreadsAssumption DEF TypeOK, Thread
    <3>2. started # 0
      BY <1>3, <3>1
    <3> QED BY <1>1, <1>3, <3>2 DEF TypeOK
  <2>5. \/ first = "lock" /\ role[t] = "insert"
        \/ first = "search" /\ role[t] = "get"
    BY <2>4
  <2>6. Rounds > 0
    BY <1>3, <1>6
  <2> HIDE DEF first
  <2>7. InStep(t)' /\ Inserted(t)' /\ Searching(t)'
    BY <1>3, <1>4, <2>1, <2>5, <2>6 DEF InStep, Running, Inserted, Searching
  <2>8. first \in {"loop", "lock", "insert", "search", "get", "ended"}
    BY <2>5
  <2>9. mtx' \in Thread \cup {None}
    BY <1>1, <1>4 DEF TypeOK
  <2> QED BY <1>1, <1>2, <1>4, <1>6, <2>2, <2>3, <2>7, <2>8, <2>9, ThreadStep
<1>7. CASE count[t] >= Rounds /\ Go(t, "ended") /\ UNCHANGED count
  <2>1. pc'[t] = "ended" /\ pc' = [pc EXCEPT ![t] = "ended"]
    BY <1>2, <1>7, ThreadAt
  <2>2. count' = count /\ count' \in [Thread -> Nat]
    BY <1>1, <1>7 DEF TypeOK
  <2>3. \A u \in Thread : pc'[u] = "insert" <=> mtx' = u
    BY <1>1, <1>4, <1>5, <2>1 DEF TypeOK
  <2>4. InStep(t)' /\ Inserted(t)' /\ Searching(t)'
    BY <1>1, <1>2, <1>3, <1>4, <1>7, <2>1, <2>2
       DEF InStep, Running, Inserted, Searching
  <2>5. mtx' \in Thread \cup {None}
    BY <1>1, <1>4 DEF TypeOK
  <2> QED BY <1>1, <1>2, <1>4, <1>7, <2>2, <2>3, <2>4, <2>5, ThreadStep
<1> QED BY <1>6, <1>7 DEF Iterate, Rounds, first

LEMMA LockInv == ASSUME NEW t \in Thread PROVE StressInv /\ Lock(t) => StressInv'
<1> SUFFICES ASSUME StressInv, Lock(t) PROVE StressInv'
  OBVIOUS
<1>1. TypeOK /\ OneEntry(z) /\ InStep(t)
  BY DEF StressInv
<1>2. /\ pc[t] = "lock" /\ mtx = None /\ mtx' = t /\ Go(t, "insert")
      /\ UNCHANGED << args, main, role, count, z >>
  BY DEF Lock
<1>3. t < started /\ ~(t < joined) /\ role[t] = phase
  BY <1>2, ThreadAt
<1>4. pc'[t] = "insert" /\ pc' = [pc EXCEPT ![t] = "insert"]
  BY <1>2, ThreadAt
<1>5. phase' = phase /\ started' = started /\ joined' = joined /\ role' = role
  BY <1>2 DEF main
<1>6. \A u \in Thread : u # None
  BY NoneAssumption, NumThreadsAssumption DEF Thread
<1>7. \A u \in Thread : pc'[u] = "insert" <=> mtx' = u
  BY <1>1, <1>2, <1>4, <1>6 DEF TypeOK
<1>8. InStep(t)' /\ Inserted(t)' /\ Searching(t)'
  BY <1>1, <1>2, <1>3, <1>4, <1>5 DEF InStep, Running, Inserted, Searching
<1>9. /\ mtx' \in Thread \cup {None} /\ count' = count /\ count' \in [Thread -> Nat]
      /\ z' = z
  BY <1>1, <1>2 DEF TypeOK
<1> QED BY <1>1, <1>2, <1>7, <1>8, <1>9, ThreadStep

\* After InsertElement the member is there, for every thread.
LEMMA InsertElementInv ==
  ASSUME NEW t \in Thread PROVE StressInv /\ InsertElement(t) => StressInv'
<1> SUFFICES ASSUME StressInv, InsertElement(t) PROVE StressInv'
  OBVIOUS
<1>1. TypeOK /\ OneEntry(z) /\ InStep(t)
  BY DEF StressInv
<1>2. /\ pc[t] = "insert" /\ mtx' = None /\ Go(t, "loop")
      /\ UNCHANGED << args, main, role, count >>
  BY DEF InsertElement
<1>3. PICK s \in 0..test_count - 1 : z' \in Insert(z, "a", s)
  BY DEF InsertElement, Ele
<1>4. s \in Score
  BY <1>1, RandAssumption DEF TypeOK, Score
<1>5. OneEntry(z') /\ "a" \in Present(z')
  BY <1>1, <1>3, <1>4, InsertOneEntry
<1>6. t < started /\ ~(t < joined) /\ role[t] = phase
  BY <1>2, ThreadAt
<1>7. pc'[t] = "loop" /\ pc' = [pc EXCEPT ![t] = "loop"]
  BY <1>2, ThreadAt
<1>8. phase' = phase /\ started' = started /\ joined' = joined /\ role' = role
  BY <1>2 DEF main
<1>9. \A u \in Thread : u # None
  BY NoneAssumption, NumThreadsAssumption DEF Thread
<1>10. \A u \in Thread : pc'[u] = "insert" <=> mtx' = u
  BY <1>1, <1>2, <1>7, <1>9 DEF TypeOK
<1>11. InStep(t)' /\ Inserted(t)' /\ Searching(t)'
  BY <1>1, <1>2, <1>5, <1>6, <1>7, <1>8 DEF InStep, Running, Inserted, Searching
<1>12. mtx' \in Thread \cup {None} /\ count' = count /\ count' \in [Thread -> Nat]
  BY <1>1, <1>2 DEF TypeOK
<1> QED BY <1>2, <1>5, <1>10, <1>11, <1>12, ThreadStep

LEMMA FindInv == ASSUME NEW t \in Thread PROVE StressInv /\ Find(t) => StressInv'
<1> SUFFICES ASSUME StressInv, Find(t) PROVE StressInv'
  OBVIOUS
<1> DEFINE to == IF "a" \in Present(z) THEN "get" ELSE "loop"
<1>1. TypeOK /\ OneEntry(z) /\ InStep(t) /\ Searching(t)
  BY DEF StressInv
<1>2. pc[t] = "search" /\ Go(t, to) /\ UNCHANGED << args, main, role, count, mtx, z >>
  BY DEF Find, Ele
<1>3. to \in {"get", "loop"}
  OBVIOUS
<1> HIDE DEF to
<1>4. t < started /\ ~(t < joined) /\ role[t] = phase
  BY <1>2, ThreadAt
<1>5. pc'[t] = to /\ pc' = [pc EXCEPT ![t] = to]
  BY <1>2, ThreadAt
<1>6. /\ phase' = phase /\ started' = started /\ joined' = joined /\ role' = role
      /\ Rounds' = Rounds /\ z' = z /\ mtx' = mtx /\ count' = count
  BY <1>2 DEF main, args, Rounds
<1>7. \A u \in Thread : pc'[u] = "insert" <=> mtx' = u
  BY <1>1, <1>2, <1>3, <1>5, <1>6 DEF TypeOK
<1>8. role[t] = "get" /\ Rounds > 0
  BY <1>1, <1>2 DEF InStep, Searching
<1>9. InStep(t)' /\ Inserted(t)' /\ Searching(t)'
  BY <1>3, <1>4, <1>5, <1>6, <1>8 DEF InStep, Running, Inserted, Searching
<1>10. mtx' \in Thread \cup {None} /\ count' \in [Thread -> Nat]
  BY <1>1, <1>6 DEF TypeOK
<1>11. to \in {"loop", "lock", "insert", "search", "get", "ended"}
  BY <1>3
<1> QED BY <1>1, <1>2, <1>6, <1>7, <1>9, <1>10, <1>11, ThreadStep

LEMMA GetInv == ASSUME NEW t \in Thread PROVE StressInv /\ Get(t) => StressInv'
<1> SUFFICES ASSUME StressInv, Get(t) PROVE StressInv'
  OBVIOUS
<1>1. TypeOK /\ OneEntry(z) /\ InStep(t)
  BY DEF StressInv
<1>2. /\ pc[t] = "get" /\ z' = Search(z, "a") /\ Go(t, "loop")
      /\ UNCHANGED << args, main, role, count, mtx >>
  BY DEF Get, Ele
<1>3. OneEntry(z') /\ Present(z') = Present(z)
  BY <1>1, <1>2, GetOneEntry DEF Search
<1>4. t < started /\ ~(t < joined) /\ role[t] = phase
  BY <1>2, ThreadAt
<1>5. pc'[t] = "loop" /\ pc' = [pc EXCEPT ![t] = "loop"]
  BY <1>2, ThreadAt
<1>6. /\ phase' = phase /\ started' = started /\ joined' = joined /\ role' = role
      /\ mtx' = mtx /\ count' = count
  BY <1>2 DEF main
<1>7. \A u \in Thread : pc'[u] = "insert" <=> mtx' = u
  BY <1>1, <1>2, <1>5, <1>6 DEF TypeOK
<1>8. role[t] = "get"
  BY <1>1, <1>2 DEF InStep
<1>9. InStep(t)' /\ Inserted(t)' /\ Searching(t)'
  BY <1>4, <1>5, <1>6, <1>8 DEF InStep, Running, Inserted, Searching
<1>10. mtx' \in Thread \cup {None} /\ count' \in [Thread -> Nat]
  BY <1>1, <1>6 DEF TypeOK
<1> QED BY <1>2, <1>3, <1>6, <1>7, <1>9, <1>10, ThreadStep

THEOREM StressInvariance == Spec => []StressInv
<1>1. StressInv /\ [Next]_vars => StressInv'
  <2> SUFFICES ASSUME StressInv, [Next]_vars PROVE StressInv'
    OBVIOUS
  <2>1. CASE Main
    BY <2>1, StartThreadInv, JoinThreadInv, EndPhaseInv DEF Main
  <2>2. ASSUME NEW t \in Thread, Run(t) PROVE StressInv'
    BY <2>2, IterateInv, LockInv, InsertElementInv, FindInv, GetInv DEF Run
  <2>3. CASE UNCHANGED vars
    BY <2>3 DEF vars, StressInv, TypeOK, InStep, Running, Inserted, Searching, Stored, Rounds
  <2> QED BY <2>1, <2>2, <2>3 DEF Next
<1> QED BY <1>1, StressInitInv, PTL DEF Spec

-----------------------------------------------------------------------------
(***************************************************************************)
(* The properties of the run.                                              *)
(***************************************************************************)

\* main's and the threads' variables always have their types, and mtx is
\* held by exactly the thread inside InsertElement.
THEOREM StressTypeCorrect == Spec => []TypeOK
<1>1. StressInv => TypeOK
  BY DEF StressInv
<1> QED BY <1>1, StressInvariance, PTL

\* Every search of stress_test.cpp finds the member, however the inserting
\* threads were scheduled: the joins put their last insertion before it.
THEOREM Finds == Spec => []SearchFinds
<1>1. StressInv => SearchFinds
  <2> SUFFICES ASSUME StressInv, NEW t \in Thread, pc[t] = "search"
               PROVE  Ele(t) \in Present(z)
    BY DEF SearchFinds
  <2>1. InStep(t) /\ Searching(t) /\ Stored
    BY DEF StressInv
  <2>2. phase = "get" /\ Rounds > 0
    BY <2>1 DEF InStep, Running, Searching
  <2> QED BY <2>1, <2>2 DEF Stored, Ele
<1> QED BY <1>1, StressInvariance, PTL

\* The threads of stress_test.cpp never race on the skip list, although
\* SearchElement takes no lock: insertions exclude each other by mtx and the
\* searches by the joins, and a search has no list entry to move.
THEOREM RaceFree == Spec => []NoRace
<1>1. StressInv => NoRace
  <2> SUFFICES ASSUME StressInv PROVE NoRace
    OBVIOUS
  <2>1. /\ TypeOK /\ OneEntry(z) /\ Stored
        /\ \A t \in Thread : InStep(t) /\ Searching(t)
    BY DEF StressInv
  <2>2. ASSUME NEW t \in Thread, pc[t] = "insert" PROVE mtx = t /\ phase = "insert"
    BY <2>1, <2>2 DEF TypeOK, InStep, Running
  <2>3. ASSUME NEW t \in Thread, Reading(t) PROVE phase = "get" /\ Rounds > 0
    BY <2>1, <2>3 DEF Reading, InStep, Running, Searching
  <2>4. ASSUME NEW t \in Thread, pc[t] = "get" PROVE z.lru.lru[1].key = "a"
    <3>1. phase = "get" /\ Rounds > 0
      BY <2>3, <2>4 DEF Reading
    <3>2. "a" \in Present(z)
      BY <2>1, <3>1 DEF Stored
    <3> QED BY <2>1, <3>2, HeadIsEle
  <2>5. \A t \in Thread : Writing(t) => pc[t] = "insert"
    BY <2>4 DEF Writing, Ele
  <2> QED BY <2>2, <2>3, <2>5 DEF NoRace
<1> QED BY <1>1, StressInvariance, PTL
=============================================================================
