----------------------------- MODULE LRUMachine -----------------------------
(***************************************************************************)
(* One LRUCache object under every sequence of calls its public interface  *)
(* allows.  The history variables clock and used record when each key was  *)
(* last used, which is what the order of the list is meant to encode.      *)
(***************************************************************************)
EXTENDS LRUCache

CONSTANTS
  CapacityArgs, \* the arguments of set_capacity
  MaxClock      \* bound: the number of uses in a behaviour

ASSUME CapacityArgsAssumption == CapacityArgs \subseteq Int
ASSUME MaxClockAssumption == MaxClock \in Nat

VARIABLES
  c,      \* the object
  clock,  \* history: how many uses there have been
  used    \* history: when each key was last used

lru_vars == << c, clock, used >>

LRUInit ==
  /\ c = NewCache(0)
  /\ clock = 0
  /\ used = [k \in Key |-> 0]

Use(k) ==
  /\ clock < MaxClock
  /\ clock' = clock + 1
  /\ used' = [used EXCEPT ![k] = clock + 1]

Get(k) ==
  /\ c' = get(c, k)
  /\ IF k \in c.cache THEN Use(k) ELSE UNCHANGED << clock, used >>

Put(k, v) ==
  /\ c' \in put(c, k, v)
  /\ Use(k)

Remove_(k) ==
  /\ c' = remove(c, k)
  /\ UNCHANGED << clock, used >>

SetCapacity(n) ==
  /\ c' \in set_capacity(c, n)
  /\ UNCHANGED << clock, used >>

\* The owner has fetched the evicted keys: delete_keys.clear().
Fetch ==
  /\ c' = [c EXCEPT !.delete_keys = << >>]
  /\ UNCHANGED << clock, used >>

LRUNext ==
  \/ \E k \in Key : Get(k)
  \/ \E k \in Key, v \in Value : Put(k, v)
  \/ \E k \in Key : Remove_(k)
  \/ \E n \in CapacityArgs : SetCapacity(n)
  \/ Fetch

LRUSpec == LRUInit /\ [][LRUNext]_lru_vars

-----------------------------------------------------------------------------
(***************************************************************************)
(* Properties.                                                             *)
(***************************************************************************)

\* The data members have the types lru.h declares.
LRUTypeOK ==
  /\ c \in Cache
  /\ clock \in 0..MaxClock
  /\ used \in [Key -> 0..clock]

\* The hash index and the list describe the same entries: no key is listed
\* twice, and the index holds exactly the listed keys.  Every method updates
\* both containers separately, and an iterator into a missing entry would be
\* a use of freed memory.
IndexMatchesList == Indexed(c)

\* A bounded cache never holds more entries than its capacity.  put compares
\* the size with == and not with >=, so this rests on set_capacity trimming
\* the list whenever the bound shrinks.
WithinCapacity == Bounded(c)

\* The list is ordered by last use, the most recent use first, through
\* every mix of hits, re-puts, removals and evictions.
RecencyOrder ==
  \A i, j \in DOMAIN c.lru : i < j => used[c.lru[i].key] > used[c.lru[j].key]

\* Whatever leaves the cache without being asked to (an eviction by put or
\* by set_capacity) was used less recently than everything that stays.
EvictsLeastRecent ==
  [][\A k \in c.cache \ c'.cache :
        \/ Remove_(k)
        \/ \A j \in c.cache \cap c'.cache : used[j] > used[k]]_lru_vars

\* An evicted key is handed to the owner through delete_keys, unless its
\* bytes were on the heap and are read after their release (lru.h line 48).
EvictionsReported ==
  [][\A k \in c.cache \ c'.cache :
        \/ Remove_(k)
        \/ k \in LongKey
        \/ k \in ToSet(c'.delete_keys)]_lru_vars
=============================================================================
