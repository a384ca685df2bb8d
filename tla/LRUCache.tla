------------------------------ MODULE LRUCache ------------------------------
(***************************************************************************)
(* The class template LRUCache<K, V> of lru.h, as operators on the value   *)
(* of one cache object.  A SkipList owns one such object and calls several *)
(* of its methods inside one critical section, so a method is an operator  *)
(* from a value to the next value (or to the set of next values, where the *)
(* code's undefined behaviour leaves the outcome open).                    *)
(*                                                                         *)
(* An object is a record of its four data members:                         *)
(*   capacity     the bound on the number of entries, 0 for no bound;      *)
(*   lru          the std::list of (key, value) pairs, the most recently   *)
(*                used one first;                                          *)
(*   cache        the keys of the unordered_map from keys to list          *)
(*                iterators; the iterator is Position(c, k);               *)
(*   delete_keys  the keys evicted and not yet fetched by the owner.       *)
(***************************************************************************)
EXTENDS Integers, Sequences, FiniteSets, SequencesExt

CONSTANTS
  Key,      \* the keys (K)
  Value,    \* the values (V)
  LongKey,  \* the keys too long for std::string's internal buffer
  Garbage   \* what a read of a released string's heap buffer may yield

ASSUME LongKeyAssumption == LongKey \subseteq Key
ASSUME GarbageAssumption == Garbage \notin Key

Entry == [key : Key, value : Value]

Cache ==
  [capacity : Nat, lru : Seq(Entry), cache : SUBSET Key,
   delete_keys : Seq(Key \cup {Garbage})]

KeysOf(s) == {s[i].key : i \in DOMAIN s}

\* What every method keeps: the index has the listed keys, each listed once,
\* and a bounded list is not longer than its bound.
Indexed(c) ==
  /\ c.cache = KeysOf(c.lru)
  /\ \A i, j \in DOMAIN c.lru : c.lru[i].key = c.lru[j].key => i = j

Bounded(c) == c.capacity > 0 => Len(c.lru) <= c.capacity

(***************************************************************************)
(* The constructor and the helpers on the list.                            *)
(***************************************************************************)
NewCache(n) ==
  [capacity |-> n, lru |-> << >>, cache |-> {}, delete_keys |-> << >>]

\* The list position cache[k] points at.
Position(c, k) == CHOOSE i \in DOMAIN c.lru : c.lru[i].key = k

\* lru.splice(lru.begin(), lru, it)
MoveToFront(s, i) == << s[i] >> \o RemoveAt(s, i)

\* it->first is read after lru.erase(it) has destroyed the pair.  The bytes
\* of a short key sit in the list node itself and survive; a long key's
\* buffer went back to the allocator, which may already have overwritten it.
ReadErased(k) == IF k \in LongKey THEN {k, Garbage} ELSE {k}

(***************************************************************************)
(* The methods.  An operator commented "Faulty" is a plausible mistake in   *)
(* the operator after it, kept to show that the properties would see it.   *)
(***************************************************************************)

\* Faulty: the entry is not spliced to the front.
GetWithoutSplice(c, k) == c

get(c, k) ==
  IF k \in c.cache
  THEN [c EXCEPT !.lru = MoveToFront(@, Position(c, k))]
  ELSE c

Full(c) == c.capacity > 0 /\ Cardinality(c.cache) = c.capacity

\* Faulty: the front of the list is evicted.
EvictFirst(c, read) ==
  [c EXCEPT !.cache = @ \ {Head(c.lru).key},
            !.lru = Tail(@),
            !.delete_keys = Append(@, Head(c.lru).key)]

\* Faulty: the evicted key is not recorded.
EvictSilently(c, read) ==
  [c EXCEPT !.cache = @ \ {Last(c.lru).key}, !.lru = Front(@)]

EvictLast(c, read) ==
  [c EXCEPT !.cache = @ \ {Last(c.lru).key},
            !.lru = Front(@),
            !.delete_keys = Append(@, read)]

PushFront(c, k, v) ==
  [c EXCEPT !.cache = @ \cup {k},
            !.lru = << [key |-> k, value |-> v] >> \o @]

Refresh(c, k, v) ==
  [c EXCEPT !.lru =
     MoveToFront([@ EXCEPT ![Position(c, k)].value = v], Position(c, k))]

put(c, k, v) ==
  IF k \in c.cache THEN {Refresh(c, k, v)}
  ELSE IF Full(c)
       THEN {PushFront(EvictLast(c, read), k, v) :
               read \in ReadErased(Last(c.lru).key)}
       ELSE {PushFront(c, k, v)}

\* Faulty: cache.erase(key) is forgotten.
RemoveFromListOnly(c, k) ==
  IF k \in c.cache THEN [c EXCEPT !.lru = RemoveAt(@, Position(c, k))] ELSE c

remove(c, k) ==
  IF k \in c.cache
  THEN [c EXCEPT !.lru = RemoveAt(@, Position(c, k)), !.cache = @ \ {k}]
  ELSE c

\* What the loop of set_capacity appends to delete_keys for the entries it
\* evicts, the last of the list first.
Reads(victims) ==
  {r \in [DOMAIN victims -> Key \cup {Garbage}] :
     \A i \in DOMAIN victims : r[i] \in ReadErased(victims[i].key)}

Trim(c, n) ==
  LET victims == Reverse(SubSeq(c.lru, n + 1, Len(c.lru)))
  IN  {[capacity |-> n,
        lru |-> SubSeq(c.lru, 1, n),
        cache |-> c.cache \ KeysOf(victims),
        delete_keys |-> c.delete_keys \o r] : r \in Reads(victims)}

\* Faulty: the loop that trims the list is missing.
SetWithoutTrim(c, n) == IF n < 0 THEN {c} ELSE {[c EXCEPT !.capacity = n]}

set_capacity(c, n) ==
  IF n < 0 THEN {c}
  ELSE IF n > 0 /\ Cardinality(c.cache) > n
       THEN Trim(c, n)
       ELSE {[c EXCEPT !.capacity = n]}
=============================================================================
