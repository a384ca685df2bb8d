---------------------------- MODULE ObjectProofs ----------------------------
(***************************************************************************)
(* The proofs that one LRUCache object (module LRUMachine) and one sorted  *)
(* set (module ZSetMachine) keep their properties under every sequence of  *)
(* calls.  What each call does to the value of the object is in module     *)
(* OperatorProofs.                                                         *)
(***************************************************************************)
EXTENDS LRUMachine, ZSetMachine, OperatorProofs

(***************************************************************************)
(* The cache.                                                              *)
(***************************************************************************)
\* The list s is in the order of the last uses u, the most recent first.
Ordered(s, u) == \A i, j \in DOMAIN s : i < j => u[s[i].key] > u[s[j].key]

\* Using a listed key now and splicing its entry to the front keeps the list
\* in the order of last use.
LEMMA OrderMoveToFront ==
  ASSUME NEW s \in Seq(Entry), Distinct(s), NEW i \in 1..Len(s),
         NEW n \in Nat, NEW u \in [Key -> 0..n], Ordered(s, u)
  PROVE  Ordered(MoveToFront(s, i), [u EXCEPT ![s[i].key] = n + 1])
<1> DEFINE t == MoveToFront(s, i)
           w == [u EXCEPT ![s[i].key] = n + 1]
           src(j) == IF j <= i THEN j - 1 ELSE j
<1>1. Len(s) \in Nat /\ DOMAIN s = 1..Len(s)
  BY LenProperties
<1>2. \A j \in 1..Len(s) : s[j] \in Entry /\ s[j].key \in Key
  <2>1. \A j \in 1..Len(s) : s[j] \in Entry
    BY LenProperties
  <2> QED BY <2>1 DEF Entry
<1>3. /\ t \in Seq(Entry) /\ Len(t) = Len(s) /\ t[1] = s[i]
      /\ \A j \in 2..Len(s) : t[j] = IF j <= i THEN s[j - 1] ELSE s[j]
  BY MoveToFrontElements
<1>4. DOMAIN t = 1..Len(s)
  BY <1>3, LenProperties
<1>5. \A j \in 2..Len(s) : src(j) \in 1..Len(s) /\ src(j) # i /\ t[j] = s[src(j)]
  BY <1>1, <1>3
<1>6. \A j, k \in 2..Len(s) : j < k => src(j) < src(k)
  BY <1>1
<1> HIDE DEF t, src
<1>7. \A j \in 1..Len(s) : j # i => s[j].key # s[i].key
  BY <1>1 DEF Distinct
<1>8. \A j \in 1..Len(s) : j # i => w[s[j].key] = u[s[j].key]
  BY <1>2, <1>7
<1>9. w[s[i].key] = n + 1
  BY <1>2
<1> HIDE DEF w
<1>10. ASSUME NEW j \in 1..Len(s), NEW k \in 1..Len(s), j < k
       PROVE  w[t[j].key] > w[t[k].key]
  <2>1. k \in 2..Len(s)
    BY <1>1, <1>10
  <2>2. /\ src(k) \in 1..Len(s) /\ src(k) # i /\ t[k] = s[src(k)]
        /\ w[t[k].key] = u[s[src(k)].key]
    BY <1>5, <1>8, <2>1
  <2>3. CASE j = 1
    <3>1. u[s[src(k)].key] \in 0..n
      BY <1>2, <2>2
    <3>2. w[t[j].key] = n + 1
      BY <1>3, <1>9, <2>3
    <3> QED BY <2>2, <3>1, <3>2
  <2>4. CASE j # 1
    <3>1. j \in 2..Len(s)
      BY <1>1, <2>4
    <3>2. /\ src(j) \in 1..Len(s) /\ src(j) # i /\ t[j] = s[src(j)]
          /\ w[t[j].key] = u[s[src(j)].key]
      BY <1>5, <1>8, <3>1
    <3>3. src(j) < src(k)
      BY <1>6, <1>10, <2>1, <3>1
    <3> QED BY <1>1, <2>2, <3>2, <3>3 DEF Ordered
  <2> QED BY <2>3, <2>4
<1> QED BY <1>4, <1>10 DEF Ordered, t, w

\* Using a new key now and pushing it to the front keeps the list in the
\* order of last use.
LEMMA OrderPush ==
  ASSUME NEW s \in Seq(Entry), NEW e \in Entry, e.key \notin KeysOf(s),
         NEW n \in Nat, NEW u \in [Key -> 0..n], Ordered(s, u)
  PROVE  Ordered(<< e >> \o s, [u EXCEPT ![e.key] = n + 1])
<1> DEFINE t == << e >> \o s
           w == [u EXCEPT ![e.key] = n + 1]
<1>1. Len(s) \in Nat /\ DOMAIN s = 1..Len(s)
  BY LenProperties
<1>2. \A j \in 1..Len(s) : s[j].key \in Key /\ s[j].key # e.key
  <2>1. \A j \in 1..Len(s) : s[j] \in Entry
    BY LenProperties
  <2> QED BY <1>1, <2>1 DEF Entry, KeysOf
<1>3. /\ t \in Seq(Entry) /\ Len(t) = Len(s) + 1 /\ t[1] = e
      /\ \A j \in 2..Len(s) + 1 : t[j] = s[j - 1]
  BY PushElements
<1>4. DOMAIN t = 1..Len(s) + 1
  BY <1>3, LenProperties
<1> HIDE DEF t
<1>5. \A j \in 1..Len(s) : w[s[j].key] = u[s[j].key] /\ u[s[j].key] \in 0..n
  BY <1>2
<1>6. w[e.key] = n + 1
  BY DEF Entry
<1> HIDE DEF w
<1>7. ASSUME NEW j \in 1..Len(s) + 1, NEW k \in 1..Len(s) + 1, j < k
      PROVE  w[t[j].key] > w[t[k].key]
  <2>1. /\ k \in 2..Len(s) + 1 /\ k - 1 \in 1..Len(s) /\ t[k] = s[k - 1]
        /\ w[t[k].key] = u[s[k - 1].key] /\ u[s[k - 1].key] \in 0..n
    <3>1. k \in 2..Len(s) + 1 /\ k - 1 \in 1..Len(s)
      BY <1>1, <1>7
    <3> QED BY <1>3, <1>5, <3>1
  <2>2. CASE j = 1
    BY <1>3, <1>6, <2>1, <2>2
  <2>3. CASE j # 1
    <3>1. j \in 2..Len(s) + 1 /\ j - 1 \in 1..Len(s) /\ j - 1 < k - 1
      BY <1>1, <1>7, <2>3
    <3>2. t[j] = s[j - 1] /\ w[t[j].key] = u[s[j - 1].key]
      BY <1>3, <1>5, <3>1
    <3> QED BY <1>1, <2>1, <3>1, <3>2 DEF Ordered
  <2> QED BY <2>2, <2>3
<1> QED BY <1>4, <1>7 DEF Ordered, t, w

\* Erasing an entry keeps the list in the order of last use.
LEMMA OrderRemoveAt ==
  ASSUME NEW s \in Seq(Entry), NEW i \in 1..Len(s), NEW u, Ordered(s, u)
  PROVE  Ordered(RemoveAt(s, i), u)
<1> DEFINE t == RemoveAt(s, i)
           src(j) == IF j < i THEN j ELSE j + 1
<1>1. Len(s) \in Nat /\ DOMAIN s = 1..Len(s)
  BY LenProperties
<1>2. /\ t \in Seq(Entry) /\ Len(t) = Len(s) - 1
      /\ \A j \in 1..Len(s) - 1 : t[j] = IF j < i THEN s[j] ELSE s[j + 1]
  BY RemoveAtElements
<1>3. DOMAIN t = 1..Len(s) - 1
  BY <1>2, LenProperties
<1>4. \A j \in 1..Len(s) - 1 : src(j) \in 1..Len(s) /\ t[j] = s[src(j)]
  BY <1>1, <1>2
<1>5. \A j, k \in 1..Len(s) - 1 : j < k => src(j) < src(k)
  BY <1>1
<1> HIDE DEF t, src
<1>6. Ordered(t, u)
  BY <1>1, <1>3, <1>4, <1>5 DEF Ordered
<1> QED BY <1>6 DEF t

\* Erasing from the end keeps the list in the order of last use.
LEMMA OrderPrefix ==
  ASSUME NEW s \in Seq(Entry), NEW n \in 0..Len(s), NEW u, Ordered(s, u)
  PROVE  Ordered(SubSeq(s, 1, n), u)
<1> DEFINE t == SubSeq(s, 1, n)
<1>1. Len(s) \in Nat /\ DOMAIN s = 1..Len(s)
  BY LenProperties
<1>2. t \in Seq(Entry) /\ Len(t) = n /\ \A j \in 1..n : t[j] = s[j]
  BY PrefixElements
<1>3. DOMAIN t = 1..n /\ \A j \in 1..n : j \in 1..Len(s)
  BY <1>1, <1>2, LenProperties
<1> HIDE DEF t
<1>4. Ordered(t, u)
  BY <1>1, <1>2, <1>3 DEF Ordered
<1> QED BY <1>4 DEF t

-----------------------------------------------------------------------------
\* The inductive invariant.  The size test of put (== and not >=) is only
\* right because the index matches the list and the bound holds; the order
\* of the list only follows the uses because no key is listed twice.
LRUInv == LRUTypeOK /\ IndexMatchesList /\ WithinCapacity /\ RecencyOrder

\* A new cache is consistent, empty and unbounded.
LEMMA LRUInitInv == LRUInit => LRUInv
<1> SUFFICES ASSUME LRUInit PROVE LRUInv
  OBVIOUS
<1>1. /\ c \in Cache /\ c.lru = << >> /\ c.cache = {} /\ c.capacity = 0
      /\ clock = 0 /\ used = [k \in Key |-> 0]
  BY DEF LRUInit, NewCache, Cache
<1>2. LRUTypeOK
  BY <1>1, MaxClockAssumption DEF LRUTypeOK
<1>3. DOMAIN c.lru = {}
  BY <1>1
<1> QED
  BY <1>1, <1>2, <1>3 DEF LRUInv, IndexMatchesList, Indexed, KeysOf, WithinCapacity,
                          Bounded, RecencyOrder

\* The invariant in the form in which the lemmas about the methods need it.
LEMMA InvFacts ==
  ASSUME LRUInv
  PROVE  /\ c \in Cache /\ Indexed(c) /\ Bounded(c)
         /\ c.lru \in Seq(Entry) /\ Distinct(c.lru) /\ Ordered(c.lru, used)
         /\ clock \in Nat /\ used \in [Key -> 0..clock]
BY MaxClockAssumption DEF LRUInv, LRUTypeOK, IndexMatchesList, WithinCapacity,
     RecencyOrder, Ordered, Indexed, Distinct, Cache

\* A use is the latest one of all.
LEMMA UseFacts ==
  ASSUME LRUInv, NEW k \in Key, Use(k)
  PROVE  /\ clock' \in 0..MaxClock /\ used' \in [Key -> 0..clock']
         /\ used' = [used EXCEPT ![k] = clock + 1]
<1>1. /\ clock \in 0..MaxClock /\ clock < MaxClock /\ clock' = clock + 1
      /\ used \in [Key -> 0..clock] /\ used' = [used EXCEPT ![k] = clock + 1]
  BY DEF LRUInv, LRUTypeOK, Use
<1>2. clock' \in 0..MaxClock
  BY <1>1, MaxClockAssumption
<1>3. \A x \in 0..clock : x \in 0..clock + 1
  BY <1>1
<1>4. clock + 1 \in 0..clock + 1
  BY <1>1
<1> QED
  BY <1>1, <1>2, <1>3, <1>4

\* A hit or a miss of get keeps the invariant.
LEMMA GetInv ==
  ASSUME LRUInv, NEW k \in Key, Get(k)
  PROVE  LRUInv'
<1>1. c' = get(c, k)
  BY DEF Get
<1>2. c' \in Cache /\ Indexed(c') /\ Bounded(c')
  BY <1>1, InvFacts, GetSound
<1>3. CASE k \in c.cache
  <2>1. Use(k)
    BY <1>3 DEF Get
  <2>2. /\ Position(c, k) \in 1..Len(c.lru) /\ c.lru[Position(c, k)].key = k
        /\ c'.lru = MoveToFront(c.lru, Position(c, k))
    BY <1>1, <1>3, InvFacts, PositionOf DEF get, Cache
  <2>3. Ordered(c'.lru, used')
    BY <2>1, <2>2, InvFacts, UseFacts, OrderMoveToFront
  <2> QED
    BY <1>2, <2>1, <2>3, UseFacts DEF LRUInv, LRUTypeOK, IndexMatchesList,
         WithinCapacity, RecencyOrder, Ordered
<1>4. CASE k \notin c.cache
  <2>1. c' = c /\ clock' = clock /\ used' = used
    BY <1>1, <1>4 DEF Get, get
  <2> QED
    BY <2>1 DEF LRUInv, LRUTypeOK, IndexMatchesList, WithinCapacity, RecencyOrder
<1> QED BY <1>3, <1>4

\* put keeps the invariant: a refresh, a push with room, and a push after an
\* eviction.
LEMMA PutInv ==
  ASSUME LRUInv, NEW k \in Key, NEW v \in Value, Put(k, v)
  PROVE  LRUInv'
<1>1. c' \in put(c, k, v) /\ Use(k)
  BY DEF Put
<1>2. CASE k \in c.cache
  <2> DEFINE p == Position(c, k)
             s == [c.lru EXCEPT ![p].value = v]
  <2>1. c' = Refresh(c, k, v)
    BY <1>1, <1>2 DEF put
  <2>2. c' \in Cache /\ Indexed(c') /\ Bounded(c')
    BY <1>2, <2>1, InvFacts, RefreshSound
  <2>3. p \in 1..Len(c.lru) /\ c.lru[p].key = k
    BY <1>2, InvFacts, PositionOf
  <2>4. c'.lru = MoveToFront(s, p)
    BY <2>1, InvFacts DEF Refresh, Cache
  <2> HIDE DEF p
  <2>5. /\ s \in Seq(Entry) /\ Len(s) = Len(c.lru)
        /\ \A j \in 1..Len(c.lru) : s[j].key = c.lru[j].key
    BY <2>3, InvFacts, RevaluedKeys
  <2> HIDE DEF s
  <2>6. DOMAIN s = 1..Len(c.lru) /\ DOMAIN c.lru = 1..Len(c.lru)
    BY <2>5, InvFacts, LenProperties
  <2>7. Distinct(s) /\ Ordered(s, used)
    BY <2>5, <2>6, InvFacts DEF Distinct, Ordered
  <2>8. Ordered(c'.lru, used')
    <3>1. used' = [used EXCEPT ![s[p].key] = clock + 1]
      BY <1>1, <2>3, <2>5, UseFacts
    <3>2. Ordered(MoveToFront(s, p), [used EXCEPT ![s[p].key] = clock + 1])
      BY <2>3, <2>5, <2>7, InvFacts, OrderMoveToFront
    <3> QED BY <2>4, <3>1, <3>2
  <2> QED
    BY <1>1, <2>2, <2>8, UseFacts DEF LRUInv, LRUTypeOK, IndexMatchesList,
         WithinCapacity, RecencyOrder, Ordered
<1>3. CASE k \notin c.cache
  <2> DEFINE e == [key |-> k, value |-> v]
  <2>1. c' \in Cache /\ Indexed(c') /\ Bounded(c')
    BY <1>1, <1>3, InvFacts, PutNewSound
  <2>2. e \in Entry /\ e.key = k
    BY DEF Entry
  <2>3. k \notin KeysOf(c.lru)
    BY <1>3, InvFacts DEF Indexed
  <2>4. CASE ~Full(c)
    <3>1. c'.lru = << e >> \o c.lru
      BY <1>1, <1>3, <2>4, InvFacts DEF put, PushFront, Cache
    <3> HIDE DEF e
    <3>2. Ordered(c'.lru, used')
      <4>1. used' = [used EXCEPT ![e.key] = clock + 1]
        BY <1>1, <2>2, UseFacts
      <4>2. Ordered(<< e >> \o c.lru, [used EXCEPT ![e.key] = clock + 1])
        BY <2>2, <2>3, InvFacts, OrderPush
      <4> QED BY <3>1, <4>1, <4>2
    <3> QED
      BY <1>1, <2>1, <3>2, UseFacts DEF LRUInv, LRUTypeOK, IndexMatchesList,
           WithinCapacity, RecencyOrder, Ordered
  <2>5. CASE Full(c)
    <3> DEFINE n == Len(c.lru) - 1
               t == SubSeq(c.lru, 1, n)
    <3>1. c'.lru = << e >> \o t
      BY <1>1, <1>3, <2>5, InvFacts DEF put, PushFront, EvictLast, Front, Cache
    <3>2. n \in 0..Len(c.lru)
      <4>1. Len(c.lru) \in Nat /\ c.lru # << >>
        BY InvFacts, LenProperties, <2>5, CacheSize DEF Full
      <4> QED BY <4>1, <2>5, InvFacts, CacheSize DEF Full
    <3> HIDE DEF n
    <3>3. t \in Seq(Entry) /\ Ordered(t, used)
      BY <3>2, InvFacts, PrefixElements, OrderPrefix
    <3>4. k \notin KeysOf(t)
      BY <2>3, <3>2, InvFacts, PrefixKeys
    <3> HIDE DEF e, t
    <3>5. Ordered(c'.lru, used')
      <4>1. used' = [used EXCEPT ![e.key] = clock + 1]
        BY <1>1, <2>2, UseFacts
      <4>2. Ordered(<< e >> \o t, [used EXCEPT ![e.key] = clock + 1])
        BY <2>2, <3>3, <3>4, InvFacts, OrderPush
      <4> QED BY <3>1, <4>1, <4>2
    <3> QED
      BY <1>1, <2>1, <3>5, UseFacts DEF LRUInv, LRUTypeOK, IndexMatchesList,
           WithinCapacity, RecencyOrder, Ordered
  <2> QED BY <2>4, <2>5
<1> QED BY <1>2, <1>3

\* remove keeps the invariant.
LEMMA RemoveInv ==
  ASSUME LRUInv, NEW k \in Key, Remove_(k)
  PROVE  LRUInv'
<1>1. c' = remove(c, k) /\ clock' = clock /\ used' = used
  BY DEF Remove_
<1>2. c' \in Cache /\ Indexed(c') /\ Bounded(c')
  BY <1>1, InvFacts, RemoveSound
<1>3. Ordered(c'.lru, used)
  <2>1. CASE k \in c.cache
    <3>1. /\ Position(c, k) \in 1..Len(c.lru)
          /\ c'.lru = RemoveAt(c.lru, Position(c, k))
      BY <1>1, <2>1, InvFacts, PositionOf DEF remove, Cache
    <3> QED BY <3>1, InvFacts, OrderRemoveAt
  <2>2. CASE k \notin c.cache
    BY <1>1, <2>2, InvFacts DEF remove
  <2> QED BY <2>1, <2>2
<1> QED
  BY <1>1, <1>2, <1>3 DEF LRUInv, LRUTypeOK, IndexMatchesList, WithinCapacity,
       RecencyOrder, Ordered

\* set_capacity keeps the invariant, with and without trimming.
LEMMA SetCapacityInv ==
  ASSUME LRUInv, NEW n \in CapacityArgs, SetCapacity(n)
  PROVE  LRUInv'
<1>1. c' \in set_capacity(c, n) /\ clock' = clock /\ used' = used /\ n \in Int
  BY CapacityArgsAssumption DEF SetCapacity
<1>2. c' \in Cache /\ Indexed(c') /\ Bounded(c')
  BY <1>1, InvFacts, SetCapacitySound
<1>3. Ordered(c'.lru, used)
  <2>1. CASE n > 0 /\ Cardinality(c.cache) > n
    <3>1. c' \in Trim(c, n)
      BY <1>1, <2>1 DEF set_capacity
    <3>2. c'.lru = SubSeq(c.lru, 1, n)
      BY <3>1 DEF Trim
    <3>3. n \in 0..Len(c.lru)
      <4>1. Len(c.lru) \in Nat /\ Len(c.lru) > n
        BY <2>1, InvFacts, CacheSize, LenProperties
      <4> QED BY <1>1, <2>1, <4>1
    <3> QED BY <3>2, <3>3, InvFacts, OrderPrefix
  <2>2. CASE ~(n > 0 /\ Cardinality(c.cache) > n)
    <3>1. c'.lru = c.lru
      BY <1>1, <2>2, InvFacts DEF set_capacity, Cache
    <3> QED BY <3>1, InvFacts
  <2> QED BY <2>1, <2>2
<1> QED
  BY <1>1, <1>2, <1>3 DEF LRUInv, LRUTypeOK, IndexMatchesList, WithinCapacity,
       RecencyOrder, Ordered

\* Clearing delete_keys keeps the invariant.
LEMMA FetchInv == LRUInv /\ Fetch => LRUInv'
<1> SUFFICES ASSUME LRUInv, Fetch PROVE LRUInv'
  OBVIOUS
<1>1. c' = [c EXCEPT !.delete_keys = << >>] /\ clock' = clock /\ used' = used
  BY DEF Fetch
<1>2. << >> \in Seq(Key \cup {Garbage})
  OBVIOUS
<1>3. /\ c' \in Cache /\ c'.lru = c.lru /\ c'.cache = c.cache
      /\ c'.capacity = c.capacity
  BY <1>1, <1>2, InvFacts DEF Cache
<1> QED
  BY <1>1, <1>3 DEF LRUInv, LRUTypeOK, IndexMatchesList, WithinCapacity, RecencyOrder,
       Indexed, Bounded

\* The invariant holds in every reachable state of an LRUCache object, for
\* every set of keys and values and every sequence of calls.
THEOREM LRUInvariance == LRUSpec => []LRUInv
<1>1. LRUInv /\ [LRUNext]_lru_vars => LRUInv'
  <2> SUFFICES ASSUME LRUInv, [LRUNext]_lru_vars PROVE LRUInv'
    OBVIOUS
  <2>1. ASSUME NEW k \in Key, Get(k) PROVE LRUInv'
    BY <2>1, GetInv
  <2>2. ASSUME NEW k \in Key, NEW v \in Value, Put(k, v) PROVE LRUInv'
    BY <2>2, PutInv
  <2>3. ASSUME NEW k \in Key, Remove_(k) PROVE LRUInv'
    BY <2>3, RemoveInv
  <2>4. ASSUME NEW n \in CapacityArgs, SetCapacity(n) PROVE LRUInv'
    BY <2>4, SetCapacityInv
  <2>5. CASE Fetch
    BY <2>5, FetchInv
  <2>6. CASE UNCHANGED lru_vars
    BY <2>6 DEF lru_vars, LRUInv, LRUTypeOK, IndexMatchesList, WithinCapacity, RecencyOrder
  <2> QED BY <2>1, <2>2, <2>3, <2>4, <2>5, <2>6 DEF LRUNext
<1> QED BY <1>1, LRUInitInv, PTL DEF LRUSpec

\* The members of an LRUCache object always have their types (lru.h, all
\* methods).
THEOREM LRUTypeCorrect == LRUSpec => []LRUTypeOK
<1>1. LRUInv => LRUTypeOK
  BY DEF LRUInv
<1> QED BY <1>1, LRUInvariance, PTL

\* The hash index and the list of lru.h always agree: what cache.find and
\* cache.size() say is what the list holds.
THEOREM IndexAgrees == LRUSpec => []IndexMatchesList
<1>1. LRUInv => IndexMatchesList
  BY DEF LRUInv
<1> QED BY <1>1, LRUInvariance, PTL

\* The list of lru.h is never longer than a positive capacity, although put
\* (line 43) compares its size with the capacity by ==.
THEOREM BoundHolds == LRUSpec => []WithinCapacity
<1>1. LRUInv => WithinCapacity
  BY DEF LRUInv
<1> QED BY <1>1, LRUInvariance, PTL

\* The list of lru.h is always in the order of last use.
THEOREM Recency == LRUSpec => []RecencyOrder
<1>1. LRUInv => RecencyOrder
  BY DEF LRUInv
<1> QED BY <1>1, LRUInvariance, PTL

-----------------------------------------------------------------------------
\* The keys a step takes out of the cache.
Lost == c.cache \ c'.cache

\* A key that put evicts is reported, unless it is long, and was used less
\* recently than every key that stays.
LEMMA LostByPut ==
  ASSUME LRUInv, NEW k \in Key, NEW v \in Value, Put(k, v), NEW x \in Lost
  PROVE  /\ x \in LongKey \cup ToSet(c'.delete_keys)
         /\ \A j \in c.cache \cap c'.cache : used[j] > used[x]
<1>1. c' \in put(c, k, v)
  BY DEF Put
<1>2. k \notin c.cache
  <2>1. ASSUME k \in c.cache PROVE FALSE
    <3>1. c' = Refresh(c, k, v)
      BY <1>1, <2>1 DEF put
    <3>2. c'.cache = c.cache
      BY <2>1, <3>1, InvFacts, RefreshSound
    <3> QED BY <3>2 DEF Lost
  <2> QED BY <2>1
<1> DEFINE last == Last(c.lru)
           n == Len(c.lru)
<1>3. /\ Full(c) /\ x = last.key
      /\ \E read \in ReadErased(last.key) :
           c'.delete_keys = Append(c.delete_keys, read)
  BY <1>1, <1>2, InvFacts, PutNewSound DEF Lost
<1>4. n \in Nat /\ n > 0 /\ DOMAIN c.lru = 1..n /\ last = c.lru[n]
  BY <1>3, InvFacts, LenProperties, CacheSize DEF Full, Last
<1>5. \A j \in c.cache \cap c'.cache : used[j] > used[x]
  <2> SUFFICES ASSUME NEW j \in c.cache \cap c'.cache PROVE used[j] > used[x]
    OBVIOUS
  <2>1. PICK i \in 1..n : j = c.lru[i].key
    BY <1>4, InvFacts DEF Indexed, KeysOf
  <2>2. i # n
    BY <1>3, <1>4, <2>1 DEF Lost
  <2> HIDE DEF n, last
  <2>3. n \in DOMAIN c.lru /\ i \in DOMAIN c.lru /\ i < n
    BY <1>4, <2>2
  <2> QED BY <1>3, <1>4, <2>1, <2>3, InvFacts DEF Ordered
<1>6. x \in LongKey \cup ToSet(c'.delete_keys)
  <2>1. PICK read \in ReadErased(x) : c'.delete_keys = Append(c.delete_keys, read)
    BY <1>3
  <2>2. x \in Key /\ c.delete_keys \in Seq(Key \cup {Garbage})
    BY InvFacts DEF Lost, Cache
  <2>3. CASE x \notin LongKey
    <3>1. read = x
      BY <2>3 DEF ReadErased
    <3> DEFINE m == Len(c.delete_keys) + 1
    <3>2. m \in DOMAIN c'.delete_keys /\ c'.delete_keys[m] = x
      BY <2>1, <2>2, <3>1, AppendProperties, LenProperties
    <3> QED BY <3>2 DEF ToSet
  <2> QED BY <2>3
<1> QED BY <1>5, <1>6

\* The same for the keys that set_capacity evicts.
LEMMA LostBySetCapacity ==
  ASSUME LRUInv, NEW n \in CapacityArgs, SetCapacity(n), NEW x \in Lost
  PROVE  /\ x \in LongKey \cup ToSet(c'.delete_keys)
         /\ \A j \in c.cache \cap c'.cache : used[j] > used[x]
<1>1. c' \in set_capacity(c, n) /\ n \in Int
  BY CapacityArgsAssumption DEF SetCapacity
<1>2. x \in LongKey \cup ToSet(c'.delete_keys)
  BY <1>1, InvFacts, SetCapacitySound DEF Lost
<1>3. n > 0 /\ Cardinality(c.cache) > n
  <2>1. CASE ~(n > 0 /\ Cardinality(c.cache) > n)
    <3>1. c'.cache = c.cache
      BY <1>1, <2>1, InvFacts DEF set_capacity, Cache
    <3> QED BY <3>1 DEF Lost
  <2> QED BY <2>1
<1>4. c' \in Trim(c, n)
  BY <1>1, <1>3 DEF set_capacity
<1> DEFINE s == c.lru
           t == SubSeq(s, 1, n)
<1>5. Len(s) \in Nat /\ Len(s) > n /\ n \in 0..Len(s) /\ DOMAIN s = 1..Len(s)
  BY <1>1, <1>3, InvFacts, CacheSize, LenProperties
<1>6. c'.lru = t /\ Indexed(c')
  BY <1>1, <1>3, <1>4, <1>5, InvFacts, TrimSound
<1>7. /\ t \in Seq(Entry) /\ Len(t) = n /\ \A j \in 1..n : t[j] = s[j]
      /\ c'.cache = {t[j].key : j \in 1..n}
  <2>1. t \in Seq(Entry) /\ Len(t) = n /\ \A j \in 1..n : t[j] = s[j]
    BY <1>5, InvFacts, PrefixElements
  <2>2. DOMAIN t = 1..n
    BY <2>1, LenProperties
  <2>3. c'.cache = {t[j].key : j \in 1..n}
    <3> HIDE DEF t
    <3> QED BY <1>6, <2>2 DEF Indexed, KeysOf
  <2> QED BY <2>1, <2>3
<1>8. PICK i \in 1..Len(s) : x = s[i].key
  BY <1>5, InvFacts DEF Lost, Indexed, KeysOf
<1>9. i > n
  <2>1. i \notin 1..n
    BY <1>7, <1>8 DEF Lost
  <2> QED BY <1>1, <1>5, <2>1
<1>10. ASSUME NEW j \in c.cache \cap c'.cache PROVE used[j] > used[x]
  <2>1. PICK k \in 1..n : j = s[k].key
    BY <1>7
  <2>2. k < i /\ k \in DOMAIN s /\ i \in DOMAIN s
    BY <1>1, <1>5, <1>9
  <2> QED BY <1>8, <2>1, <2>2, InvFacts DEF Ordered
<1> QED BY <1>2, <1>10

\* Of the other methods only remove takes a key out, and only the one it is
\* called with.
LEMMA LostOtherwise ==
  ASSUME LRUInv, NEW x \in Lost,
         \/ \E k \in Key : Get(k)
         \/ \E k \in Key : Remove_(k)
         \/ Fetch
  PROVE  Remove_(x)
<1>1. ASSUME NEW k \in Key, Get(k) PROVE FALSE
  BY <1>1, InvFacts, GetSound DEF Get, Lost
<1>2. ASSUME Fetch PROVE FALSE
  BY <1>2, InvFacts DEF Fetch, Lost, Cache
<1>3. ASSUME NEW k \in Key, Remove_(k) PROVE Remove_(x)
  <2>1. c'.cache = c.cache \ {k}
    BY <1>3, InvFacts, RemoveSound DEF Remove_
  <2>2. x = k
    BY <2>1 DEF Lost
  <2> QED BY <1>3, <2>2
<1> QED BY <1>1, <1>2, <1>3

\* How a key can leave the cache.
LEMMA LostBy ==
  ASSUME LRUInv, LRUNext, NEW x \in Lost
  PROVE  \/ Remove_(x)
         \/ /\ x \in LongKey \cup ToSet(c'.delete_keys)
            /\ \A j \in c.cache \cap c'.cache : used[j] > used[x]
BY LostByPut, LostBySetCapacity, LostOtherwise DEF LRUNext

\* put and set_capacity of lru.h only ever evict the least recently used
\* keys.
THEOREM EvictsOldest == LRUSpec => EvictsLeastRecent
<1>1. LRUInv /\ [LRUNext]_lru_vars =>
        [\A k \in c.cache \ c'.cache :
            \/ Remove_(k)
            \/ \A j \in c.cache \cap c'.cache : used[j] > used[k]]_lru_vars
  BY LostBy DEF Lost
<1> QED BY <1>1, LRUInvariance, PTL DEF LRUSpec, EvictsLeastRecent

\* put and set_capacity of lru.h hand every key they evict to the owner,
\* except long ones, whose bytes are read after their release.
THEOREM ReportsEvictions == LRUSpec => EvictionsReported
<1>1. LRUInv /\ [LRUNext]_lru_vars =>
        [\A k \in c.cache \ c'.cache :
            \/ Remove_(k)
            \/ k \in LongKey
            \/ k \in ToSet(c'.delete_keys)]_lru_vars
  BY LostBy DEF Lost
<1> QED BY <1>1, LRUInvariance, PTL DEF LRUSpec, EvictionsReported

-----------------------------------------------------------------------------
(***************************************************************************)
(* The sorted set.  Good, the invariant of its value, is the core of the   *)
(* inductive invariant.                                                    *)
(***************************************************************************)
\* The inductive invariant.  That the set is finite is needed for Length.
ZSetInv == Good(zset) /\ IsFiniteSet(Present(zset)) /\ ret \in Int

\* A step that adds at most one member keeps the set finite.
LEMMA SmallerFinite ==
  ASSUME NEW z, IsFiniteSet(Present(z)), NEW m, NEW d,
         Present(d) \subseteq Present(z) \cup {m}
  PROVE  IsFiniteSet(Present(d))
BY FS_AddElement, FS_Subset

\* A new sorted set satisfies the invariant.
LEMMA ZSetInitInv == Init => ZSetInv
<1> SUFFICES ASSUME Init PROVE ZSetInv
  OBVIOUS
<1>1. PICK n \in Capacities : zset = NewZSet(n)
  BY DEF Init
<1>2. Good(zset)
  BY <1>1, NewGood, CapacitiesAssumption
<1>3. Present(zset) = {}
  BY <1>1 DEF Present, NewZSet
<1> QED BY <1>2, <1>3, FS_EmptySet DEF ZSetInv, Init

\* InsertElement keeps the invariant.
LEMMA InsertInv ==
  ASSUME ZSetInv, NEW m \in Member, NEW s \in Score, InsertElement(m, s)
  PROVE  ZSetInv'
<1>1. zset' \in Insert(zset, m, s) /\ ret' \in Int
  BY DEF InsertElement
<1>2. CASE zset.score[m] = s
  <2>1. zset' = [zset EXCEPT !.lru = get(zset.lru, m)]
    BY <1>1, <1>2 DEF Insert
  <2>2. Good(zset')
    BY <2>1, GetGood DEF ZSetInv
  <2>3. Present(zset') = Present(zset)
    BY <2>1 DEF ZSetInv, Good, ZSets, Present
  <2> QED BY <1>1, <2>2, <2>3 DEF ZSetInv
<1>3. CASE zset.score[m] # s
  <2>1. zset' \in Store(zset, m, s)
    BY <1>1, <1>3 DEF Insert
  <2>2. Good(zset') /\ Present(zset') \subseteq Present(zset) \cup {m}
    BY <2>1, StoreFacts DEF ZSetInv
  <2>3. IsFiniteSet(Present(zset'))
    BY <2>2, SmallerFinite DEF ZSetInv
  <2> QED BY <1>1, <2>2, <2>3 DEF ZSetInv
<1> QED BY <1>2, <1>3

\* DeleteElement keeps the invariant.
LEMMA DeleteInv ==
  ASSUME ZSetInv, NEW m \in Member, DeleteElement(m)
  PROVE  ZSetInv'
<1>1. zset' = Delete(zset, m) /\ ret' \in Int
  BY DEF DeleteElement
<1>2. Good(zset') /\ zset'.score = [zset.score EXCEPT ![m] = Absent]
  BY <1>1, DeleteGood DEF ZSetInv
<1>3. Present(zset') \subseteq Present(zset) \cup {m}
  BY <1>2, GoodFacts DEF ZSetInv, Present
<1>4. IsFiniteSet(Present(zset'))
  BY <1>3, SmallerFinite DEF ZSetInv
<1> QED BY <1>1, <1>2, <1>4 DEF ZSetInv

\* SearchElement keeps the invariant.
LEMMA SearchInv ==
  ASSUME ZSetInv, NEW m \in Member, SearchElement(m)
  PROVE  ZSetInv'
<1>1. ret' \in Int
  <2>1. CASE m \in Present(zset)
    <3>1. ret' = zset.score[m] /\ zset.score[m] # Absent
      BY <2>1 DEF SearchElement, Present
    <3> QED BY <3>1, GoodFacts, ScoreAssumption DEF ZSetInv, Score
  <2>2. CASE m \notin Present(zset)
    BY <2>2 DEF SearchElement
  <2> QED BY <2>1, <2>2
<1>2. CASE m \in Present(zset)
  <2>1. zset' = [zset EXCEPT !.lru = get(zset.lru, m)]
    BY <1>2 DEF SearchElement, Search
  <2>2. Good(zset')
    BY <2>1, GetGood DEF ZSetInv
  <2>3. Present(zset') = Present(zset)
    BY <2>1 DEF ZSetInv, Good, ZSets, Present
  <2> QED BY <1>1, <2>2, <2>3 DEF ZSetInv
<1>3. CASE m \notin Present(zset)
  BY <1>1, <1>3 DEF ZSetInv, SearchElement, Search
<1> QED BY <1>2, <1>3

\* Length, SetMaxMemory and the destructor keep the invariant.
LEMMA OtherInv ==
  ASSUME ZSetInv, Length \/ (\E n \in Capacities : SetMaxMemory(n)) \/ Destroy
  PROVE  ZSetInv'
<1>1. CASE Length
  <2>1. Cardinality(Present(zset)) \in Nat
    BY FS_CardinalityType DEF ZSetInv
  <2> QED BY <1>1, <2>1 DEF ZSetInv, Length
<1>2. ASSUME NEW n \in Capacities, SetMaxMemory(n) PROVE ZSetInv'
  <2>1. zset' \in SetMax(zset, n) /\ ret' = 0 /\ n \in Nat
    BY <1>2, CapacitiesAssumption DEF SetMaxMemory
  <2>2. Good(zset')
    BY <2>1, SetMaxGood DEF ZSetInv
  <2>3. Present(zset') = Present(zset)
    BY <2>1 DEF ZSetInv, Good, ZSets, SetMax, Present
  <2> QED BY <2>1, <2>2, <2>3 DEF ZSetInv
<1>3. CASE Destroy
  <2>1. zset' = NewZSet(0) /\ ret' = 0
    BY <1>3 DEF Destroy
  <2>2. Good(zset')
    BY <2>1, NewGood
  <2>3. Present(zset') = {}
    BY <2>1 DEF Present, NewZSet
  <2> QED BY <2>1, <2>2, <2>3, FS_EmptySet DEF ZSetInv
<1> QED BY <1>1, <1>2, <1>3

\* The invariant holds in every reachable state of a sorted set, for every
\* set of members, scores and capacities.
THEOREM ZSetInvariance == Spec => []ZSetInv
<1>1. ZSetInv /\ [Next]_vars => ZSetInv'
  <2> SUFFICES ASSUME ZSetInv, [Next]_vars PROVE ZSetInv'
    OBVIOUS
  <2>1. ASSUME NEW m \in Member, NEW s \in Score, InsertElement(m, s) PROVE ZSetInv'
    BY <2>1, InsertInv
  <2>2. ASSUME NEW m \in Member, DeleteElement(m) PROVE ZSetInv'
    BY <2>2, DeleteInv
  <2>3. ASSUME NEW m \in Member, SearchElement(m) PROVE ZSetInv'
    BY <2>3, SearchInv
  <2>4. CASE Length \/ (\E n \in Capacities : SetMaxMemory(n)) \/ Destroy
    BY <2>4, OtherInv
  <2>5. CASE UNCHANGED vars
    BY <2>5 DEF vars, ZSetInv
  <2> QED BY <2>1, <2>2, <2>3, <2>4, <2>5 DEF Next
<1> QED BY <1>1, ZSetInitInv, PTL DEF Spec

\* The sorted set, its cache and the replies always have their types
\* (skiplist.h, all methods).
THEOREM ZSetTypeCorrect == Spec => []TypeOK
<1>1. ZSetInv => TypeOK
  BY DEF ZSetInv, Good, ZSets, TypeOK
<1> QED BY <1>1, ZSetInvariance, PTL

\* The LRU list of a sorted set always holds members of the set, each once
\* and with its current score, and never more than the capacity.
THEOREM Tracking == Spec => []TrackedArePresent
<1>1. ZSetInv => TrackedArePresent
  <2> SUFFICES ASSUME ZSetInv PROVE TrackedArePresent
    OBVIOUS
  <2>1. \A i \in DOMAIN zset.lru.lru : zset.lru.lru[i] \in ToSet(zset.lru.lru)
    BY DEF ToSet
  <2> QED BY <2>1 DEF ZSetInv, Good, TrackedWith, TrackedArePresent
<1> QED BY <1>1, ZSetInvariance, PTL

\* A member that the LRU list has lost is always scheduled for deletion,
\* unless its name is long (skiplist.h lines 235-246, lru.h lines 43-49).
THEOREM NothingForgotten == Spec => []UntrackedArePending
<1>1. ZSetInv => UntrackedArePending
  BY DEF ZSetInv, Good, UntrackedArePending, Tracked
<1> QED BY <1>1, ZSetInvariance, PTL

\* Between two calls no key is both tracked and scheduled for deletion
\* (skiplist.h lines 238-243).
THEOREM PendingApart == Spec => []PendingUntracked
<1>1. ZSetInv => PendingUntracked
  BY DEF ZSetInv, Good, PendingUntracked, Tracked
<1> QED BY <1>1, ZSetInvariance, PTL

-----------------------------------------------------------------------------
\* What one call of InsertElement does, in the terms of the three action
\* properties.
LEMMA InsertStep ==
  ASSUME ZSetInv, ZSetInv', NEW m \in Member, NEW s \in Score, InsertElement(m, s)
  PROVE  /\ zset.score[m] # s =>
              /\ Pending(zset') = {}
              /\ zset.lru.capacity > 0 =>
                   Cardinality(Present(zset') \ LongKey) <= zset.lru.capacity
         /\ \A x \in Present(zset) \ (Present(zset') \cup {m}) :
              x \in Pending(zset) \/ x = Last(zset.lru.lru).key
         /\ m \notin Pending(zset) =>
              /\ zset'.score[m] = s
              /\ \/ m \in Tracked'
                 \/ zset.score[m] = s /\ m \in LongKey \ Tracked
<1>1. zset' \in Insert(zset, m, s)
  BY DEF InsertElement
<1>2. CASE zset.score[m] = s
  <2>1. zset' = [zset EXCEPT !.lru = get(zset.lru, m)]
    BY <1>1, <1>2 DEF Insert
  <2>2. zset'.score = zset.score /\ zset'.lru = get(zset.lru, m)
    BY <2>1 DEF ZSetInv, Good, ZSets
  <2>3. Present(zset') = Present(zset)
    BY <2>2 DEF Present
  <2>4. Tracked' = Tracked
    <3>1. zset.lru \in Cache /\ Indexed(zset.lru) /\ Bounded(zset.lru)
      BY GoodFacts DEF ZSetInv, Good
    <3> QED BY <2>2, <3>1, GetSound DEF Tracked
  <2>5. m \in Present(zset) /\ Present(zset) \ Tracked \subseteq Pending(zset) \cup LongKey
    BY <1>2, AbsentAssumption DEF ZSetInv, Good, Present, Tracked, Score
  <2> QED BY <1>2, <2>2, <2>3, <2>4, <2>5
<1>3. CASE zset.score[m] # s
  <2>1. zset' \in Store(zset, m, s) /\ Good(zset)
    BY <1>1, <1>3 DEF Insert, ZSetInv
  <2>2. /\ Pending(zset') = {}
        /\ zset'.lru.capacity = zset.lru.capacity
        /\ Present(zset') \ LongKey \subseteq zset'.lru.cache
        /\ m \notin Pending(zset) => zset'.score[m] = s
    BY <2>1, StoreFacts
  <2>3. \A x \in Present(zset) \ (Present(zset') \cup {m}) :
          x \in Pending(zset) \/ x = Last(zset.lru.lru).key
    BY <2>1, StoreFacts
  <2>4. ASSUME zset.lru.capacity > 0
        PROVE  Cardinality(Present(zset') \ LongKey) <= zset.lru.capacity
    <3> DEFINE l == zset'.lru
               S == Present(zset') \ LongKey
    <3>1. Good(zset')
      BY DEF ZSetInv
    <3>2. l \in Cache /\ Indexed(l) /\ Bounded(l)
      BY <3>1, GoodFacts DEF Good
    <3>3. IsFiniteSet(l.cache) /\ Cardinality(l.cache) = Len(l.lru)
      BY <3>2, CacheSize
    <3>4. S \in SUBSET l.cache
      BY <2>2
    <3>5. Cardinality(S) <= Cardinality(l.cache) /\ Cardinality(S) \in Nat
      BY <3>3, <3>4, FS_Subset, FS_CardinalityType
    <3>6. Len(l.lru) <= zset.lru.capacity /\ zset.lru.capacity \in Nat
          /\ Len(l.lru) \in Nat
      BY <2>2, <2>4, <3>2, GoodFacts, LenProperties DEF Bounded, Cache, ZSetInv
    <3> HIDE DEF l, S
    <3>7. Cardinality(S) <= zset.lru.capacity
      BY <3>3, <3>5, <3>6
    <3> QED BY <3>7 DEF S
  <2>5. m \notin Pending(zset) => m \in Tracked'
    BY <2>1, StoreTracks DEF Tracked
  <2> QED BY <2>2, <2>3, <2>4, <2>5
<1> QED BY <1>2, <1>3

\* Every InsertElement that stores something brings the set back within its
\* capacity, long names not counted, and leaves nothing pending.
THEOREM RestoresBound == Spec => StoreRestoresBound
<1>1. ZSetInv /\ ZSetInv' /\ [Next]_vars =>
        [\A m \in Member, s \in Score :
           InsertElement(m, s) /\ zset.score[m] # s =>
             /\ Pending(zset') = {}
             /\ zset.lru.capacity > 0 =>
                  Cardinality(Present(zset') \ LongKey) <= zset.lru.capacity]_vars
  BY InsertStep
<1> QED BY <1>1, ZSetInvariance, PTL DEF Spec, StoreRestoresBound

\* InsertElement only drops members that were pending, or the least recently
\* used one.
THEOREM DropsOldest == Spec => DropsOnlyOldest
<1>1. ZSetInv /\ ZSetInv' /\ [Next]_vars =>
        [\A m \in Member, s \in Score : InsertElement(m, s) =>
           \A x \in Present(zset) \ (Present(zset') \cup {m}) :
             x \in Pending(zset) \/ x = Last(zset.lru.lru).key]_vars
  BY InsertStep
<1> QED BY <1>1, ZSetInvariance, PTL DEF Spec, DropsOnlyOldest

\* InsertElement stores the score of every member that was not pending and
\* leaves it tracked, but for a long name that the cache had lost before.
THEOREM Stores == Spec => StoresUnlessPending
<1>1. ZSetInv /\ ZSetInv' /\ [Next]_vars =>
        [\A m \in Member, s \in Score :
           InsertElement(m, s) /\ m \notin Pending(zset) =>
             /\ zset'.score[m] = s
             /\ \/ m \in Tracked'
                \/ zset.score[m] = s /\ m \in LongKey \ Tracked]_vars
  BY InsertStep
<1> QED BY <1>1, ZSetInvariance, PTL DEF Spec, StoresUnlessPending
=============================================================================
