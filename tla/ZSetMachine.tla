---------------------------- MODULE ZSetMachine -----------------------------
(***************************************************************************)
(* One sorted set under every sequence of calls: the specification that    *)
(* the pointer structure of skiplist.h (module SkipList) implements.       *)
(***************************************************************************)
EXTENDS ZSet

CONSTANT Capacities  \* the values CONFIG SET maxmemory may give

ASSUME CapacitiesAssumption == Capacities \subseteq Nat
ASSUME ScoreAssumption == Value \subseteq Int

VARIABLES
  zset,  \* the sorted set
  ret    \* what the last call returned

vars == << zset, ret >>

Init ==
  /\ \E n \in Capacities : zset = NewZSet(n)
  /\ ret = 0

InsertElement(m, s) ==
  /\ zset' \in Insert(zset, m, s)
  /\ ret' = IF m \in Present(zset) THEN 0 ELSE 1

DeleteElement(m) ==
  /\ zset' = Delete(zset, m)
  /\ ret' = IF m \in Present(zset) THEN 1 ELSE 0

SearchElement(m) ==
  /\ zset' = Search(zset, m)
  /\ ret' = IF m \in Present(zset) THEN zset.score[m] ELSE -1

Length ==
  /\ ret' = Cardinality(Present(zset))
  /\ UNCHANGED zset

SetMaxMemory(n) ==
  /\ zset' \in SetMax(zset, n)
  /\ ret' = 0

\* The destructor (the key expired): nothing of the contents survives.
Destroy ==
  /\ zset' = NewZSet(0)
  /\ ret' = 0

Next ==
  \/ \E m \in Member, s \in Score : InsertElement(m, s)
  \/ \E m \in Member : DeleteElement(m)
  \/ \E m \in Member : SearchElement(m)
  \/ Length
  \/ \E n \in Capacities : SetMaxMemory(n)
  \/ Destroy

Spec == Init /\ [][Next]_vars

-----------------------------------------------------------------------------
(***************************************************************************)
(* Properties.                                                             *)
(***************************************************************************)
Tracked == zset.lru.cache

\* The value of a sorted set and of its LRUCache member, and the replies.
TypeOK ==
  /\ zset \in [score : [Member -> Score \cup {Absent}], lru : Cache]
  /\ ret \in Int

\* The LRU list tracks only members of the set, each once and with its
\* current score, and never more of them than its capacity.
TrackedArePresent ==
  /\ Indexed(zset.lru)
  /\ Bounded(zset.lru)
  /\ \A i \in DOMAIN zset.lru.lru :
       /\ zset.lru.lru[i].key \in Present(zset)
       /\ zset.lru.lru[i].value = zset.score[zset.lru.lru[i].key]

\* A member the LRU list has lost is still scheduled for deletion, so that
\* it cannot stay in the set forever; the exception is a member with a long
\* name, whose record in delete_keys may be garbage.
UntrackedArePending == Present(zset) \ Tracked \subseteq Pending(zset) \cup LongKey

\* Between two calls no key is both tracked and scheduled for deletion: a
\* pending key comes back into the cache only inside InsertElement, which
\* drains delete_keys before it returns.
PendingUntracked == Pending(zset) \cap Tracked = {}

\* An InsertElement that stores something leaves at most capacity members
\* (not counting those with long names), whatever an earlier SetMaxMemory
\* had left over, and leaves nothing pending.
StoreRestoresBound ==
  [][\A m \in Member, s \in Score :
       InsertElement(m, s) /\ zset.score[m] # s =>
         /\ Pending(zset') = {}
         /\ zset.lru.capacity > 0 =>
              Cardinality(Present(zset') \ LongKey) <= zset.lru.capacity]_vars

\* InsertElement(m, s) drops a member other than m only if that member was
\* already pending or was the least recently used one.
DropsOnlyOldest ==
  [][\A m \in Member, s \in Score : InsertElement(m, s) =>
       \A x \in Present(zset) \ (Present(zset') \cup {m}) :
         x \in Pending(zset) \/ x = Last(zset.lru.lru).key]_vars

\* InsertElement(m, s) for a member that was not pending stores the score
\* and leaves the member tracked, so that it can be evicted again.  The one
\* exception is a member with a long name whose eviction was recorded as
\* garbage: it is in the set, neither tracked nor pending, and to add it
\* again with the score it has is a get of a key the cache does not know.
StoresUnlessPending ==
  [][\A m \in Member, s \in Score :
       InsertElement(m, s) /\ m \notin Pending(zset) =>
         /\ zset'.score[m] = s
         /\ \/ m \in Tracked'
            \/ zset.score[m] = s /\ m \in LongKey \ Tracked]_vars
=============================================================================
