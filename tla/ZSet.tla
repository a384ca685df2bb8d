-------------------------------- MODULE ZSet --------------------------------
(***************************************************************************)
(* What a caller of SkipList<K, V> can see of it: a map from members to    *)
(* scores, the LRUCache object that decides what is evicted, and what each *)
(* method returns.  The levels, the pointers and the search paths of       *)
(* skiplist.h are left to module SkipList, which implements this one.      *)
(*                                                                         *)
(* A sorted set is a record: score maps every member to its score or to    *)
(* Absent, lru is the object lru_cache_ (module LRUCache).                 *)
(***************************************************************************)
EXTENDS LRUCache

CONSTANT Absent  \* the score of a member that is not in the set

ASSUME AbsentAssumption == Absent \notin Value

Member == Key
Score == Value

\* The type of a sorted set.
ZSets == [score : [Member -> Score \cup {Absent}], lru : Cache]

Present(z) == {m \in Member : z.score[m] # Absent}

Pending(z) == ToSet(z.lru.delete_keys)

NewZSet(n) == [score |-> [m \in Member |-> Absent], lru |-> NewCache(n)]

\* Faulty: lru_cache_.remove(ele) is forgotten.
DeleteScoreOnly(z, m) == [z EXCEPT !.score[m] = Absent]

\* DeleteElementInLock and the body of DeleteElement.
Delete(z, m) ==
  IF m \in Present(z)
  THEN [score |-> [z.score EXCEPT ![m] = Absent], lru |-> remove(z.lru, m)]
  ELSE z

\* Faulty: the evicted keys are not deleted.
DrainNothing(z, m) == z

\* Faulty: only the first of delete_keys is deleted.
DrainFirst(z, m) ==
  IF Pending(z) = {} THEN z
  ELSE [score |-> [x \in Member |-> IF x = Head(z.lru.delete_keys) THEN Absent
                                    ELSE z.score[x]],
        lru |-> [remove(z.lru, Head(z.lru.delete_keys))
                   EXCEPT !.delete_keys = << >>]]

\* The end of InsertElement(m, s): every key that delete_keys holds is
\* deleted from the list and from the cache, and delete_keys is cleared.  Of
\* the pending keys only m itself can be tracked by the cache again
\* (PendingUntracked), so m is the only entry this can cost the cache.
Drain(z, m) ==
  [score |-> [x \in Member |-> IF x \in Pending(z) THEN Absent
                               ELSE z.score[x]],
   lru |-> [IF m \in Pending(z) THEN remove(z.lru, m) ELSE z.lru
              EXCEPT !.delete_keys = << >>]]

\* Faulty: the old node is deleted after the new one is linked.
StoreThenDelete(z, m, s) ==
  {Drain([score |-> [z.score EXCEPT ![m] = Absent], lru |-> remove(l, m)], m) :
     l \in put(z.lru, m, s)}

\* InsertElement for a member that is new or changes its score: the old
\* node goes, the new one is linked, put, and the evicted keys are dropped.
Store(z, m, s) ==
  {Drain([score |-> [z.score EXCEPT ![m] = s], lru |-> l], m) :
     l \in put(Delete(z, m).lru, m, s)}

Insert(z, m, s) ==
  IF z.score[m] = s
  THEN {[z EXCEPT !.lru = get(@, m)]}
  ELSE Store(z, m, s)

Search(z, m) ==
  IF m \in Present(z) THEN [z EXCEPT !.lru = get(@, m)] ELSE z

SetMax(z, n) == {[z EXCEPT !.lru = l] : l \in set_capacity(z.lru, n)}
=============================================================================
