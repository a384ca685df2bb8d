------------------------------ MODULE SkipList ------------------------------
(***************************************************************************)
(* The class template SkipList<K, V> of skiplist.h: the nodes on the heap  *)
(* with their forward_, backward_ and span_ fields, the hash index         *)
(* node_map_ and the LRUCache member.  Every method that changes the list  *)
(* runs under the mutex mtx from its first statement to its last, so one   *)
(* call is one step.                                                       *)
(*                                                                         *)
(* K is a set of integers, whose order stands for the order of the member  *)
(* names; a node is known by its address; an array of length n is a        *)
(* function on 0..n-1, and memory that was released is not in DOMAIN heap. *)
(***************************************************************************)
EXTENDS ZSet

CONSTANTS
  Addr,        \* the addresses operator new returns for nodes
  Header,      \* the address of the header node
  Null,        \* the null pointer
  MaxLevel,    \* max_level_
  UintMod,     \* 2^w for a w-bit unsigned int
  Capacities   \* the values CONFIG SET maxmemory may give

ASSUME AddrAssumption ==
  /\ IsFiniteSet(Addr)
  /\ Header \notin Addr
  /\ Null \notin Addr \cup {Header}
ASSUME KeyOrderAssumption == Key \subseteq Int
ASSUME ScoreAssumption == Value \subseteq Int
ASSUME LevelAssumption == MaxLevel \in Nat \ {0}
ASSUME UintAssumption == UintMod \in Nat \ {0, 1}
ASSUME SkipListCapacities == Capacities \subseteq Nat

VARIABLES
  sl,     \* the object: a record, see NewList
  phase,  \* "alive", "destroyed", or "corrupt" after undefined behaviour
  ret     \* what the last call returned

vars == << sl, phase, ret >>

Levels == 0..MaxLevel - 1

\* Faulty: the spans are ints.
SignedInt(n) == n

Uint(n) == n % UintMod

Node(m, s, lv, fwd, spn, bwd) ==
  [ele_ |-> m, score_ |-> s, level_ |-> lv,
   forward_ |-> fwd, span_ |-> spn, backward_ |-> bwd]

\* The header's element and score are never read.
HeaderNode ==
  Node(Garbage, Garbage, MaxLevel, [i \in Levels |-> Null],
       [i \in Levels |-> 0], Null)

NewList(n) ==
  [heap |-> [a \in {Header} |-> HeaderNode], tail_ |-> Null, length_ |-> 0,
   level_ |-> 0, node_map_ |-> [m \in {} |-> Null], lru_cache_ |-> NewCache(n)]

-----------------------------------------------------------------------------
(***************************************************************************)
(* The search, which three methods have a copy of: InsertElement,          *)
(* DeleteElementInLock and DeleteElement.                                  *)
(***************************************************************************)

\* Faulty: nodes with equal scores are not told apart by name.
PassedByScore(heap, s, m) == {p \in DOMAIN heap \ {Header} : heap[p].score_ < s}

\* The nodes that the inner while loop of InsertElement passes on its way to
\* (s, m): they come before it by score and, among equals, by name.
PassedByInsert(heap, s, m) ==
  {p \in DOMAIN heap \ {Header} :
     heap[p].score_ < s \/ (s = heap[p].score_ /\ heap[p].ele_ < m)}

\* The same comparison, written out again in DeleteElementInLock.
PassedInLock(heap, s, m) ==
  {p \in DOMAIN heap \ {Header} :
     heap[p].score_ < s \/ (s = heap[p].score_ /\ heap[p].ele_ < m)}

\* And once more in DeleteElement.
PassedByDelete(heap, s, m) ==
  {p \in DOMAIN heap \ {Header} :
     heap[p].score_ < s \/ (s = heap[p].score_ /\ heap[p].ele_ < m)}

\* The nodes whose arrays reach level i: on that level the search visits no
\* other.
Tall(heap, i) == {p \in DOMAIN heap : heap[p].level_ > i}

\* Where the loop stops on level i when it starts at node p.
Walk(heap, i, p, passed) ==
  LET stop[q \in Tall(heap, i)] ==
        LET next == heap[q].forward_[i]
        IN  IF next \in passed THEN stop[next] ELSE q
  IN  stop[p]

\* update[i], from level top - 1 down: each level starts where the one
\* above it stopped.
Update(heap, top, passed) ==
  LET upd[i \in 0..top - 1] ==
        Walk(heap, i, IF i = top - 1 THEN Header ELSE upd[i + 1], passed)
  IN  upd

\* rank[i]: the spans that the loop on level i adds up.
Rank(heap, update, passed) ==
  LET from(i) == IF i = MaxLevel - 1 THEN Header ELSE update[i + 1]
      steps(i) ==
        LET sum[q \in Tall(heap, i)] ==
              LET next == heap[q].forward_[i]
              IN  IF next \in passed
                  THEN heap[q].span_[i] + sum[next] ELSE 0
        IN  sum[from(i)]
  IN  [i \in Levels |-> Uint(steps(i))]

-----------------------------------------------------------------------------
(***************************************************************************)
(* DeleteElementInLock(m), and DeleteElement(m), which repeats its body.   *)
(***************************************************************************)

\* The highest level on which the search stands in front of the node.
TopLevel(heap, update, s, m) ==
  LET found(p) == p # Null /\ heap[p].ele_ = m /\ heap[p].score_ = s
  IN  Max({i \in DOMAIN update : found(heap[update[i]].forward_[i])})

Unlink(heap, update, top, node) ==
  LET here(p) == {i \in 0..top : update[i] = p}
      next(i) == heap[node].forward_[i]
  IN  [p \in DOMAIN heap \ {node} |->
        [heap[p] EXCEPT
          !.forward_ = [i \in DOMAIN @ |-> IF i \in here(p) THEN next(i) ELSE @[i]],
          !.span_ = [i \in DOMAIN @ |->
                      IF i \notin here(p) THEN @[i]
                      ELSE IF next(i) = Null THEN 0
                      ELSE Uint(@[i] + heap[node].span_[i] - 1)],
          !.backward_ = IF p = next(0) THEN update[0] ELSE @]]

ScoreOf(l, m) == l.heap[l.node_map_[m]].score_

\* The member's node is searched for, unlinked and released.
ReleaseNode(l, m, passed) ==
  LET s == ScoreOf(l, m)
      update == Update(l.heap, l.level_, passed)
      node == l.heap[update[0]].forward_[0]
  IN  [l EXCEPT
        !.heap = Unlink(@, update, TopLevel(@, update, s, m), node),
        !.tail_ = IF l.heap[node].forward_[0] = Null THEN update[0] ELSE @]

\* Faulty: the count is not decremented.
DeleteWithoutCount(l, m, passed) ==
  [ReleaseNode(l, m, passed) EXCEPT
    !.node_map_ = Restrict(@, DOMAIN @ \ {m}),
    !.lru_cache_ = remove(@, m)]

\* Faulty: lru_cache_.remove(ele) is forgotten.
DeleteKeepsEntry(l, m, passed) ==
  [ReleaseNode(l, m, passed) EXCEPT
    !.length_ = @ - 1,
    !.node_map_ = Restrict(@, DOMAIN @ \ {m})]

\* What the two deletions do for a member that is in the list.
DeleteNode(l, m, passed) ==
  [ReleaseNode(l, m, passed) EXCEPT
    !.length_ = @ - 1,
    !.node_map_ = Restrict(@, DOMAIN @ \ {m}),
    !.lru_cache_ = remove(@, m)]

DeleteElementInLock(l, m) ==
  IF m \in DOMAIN l.node_map_
  THEN DeleteNode(l, m, PassedInLock(l.heap, ScoreOf(l, m), m)) ELSE l

-----------------------------------------------------------------------------
(***************************************************************************)
(* InsertElement(m, s).                                                    *)
(***************************************************************************)

\* The variable next after the linking loop: the successor on the highest
\* level of the new node.
NextAfterLoop(heap, update, lv) == heap[update[lv - 1]].forward_[lv - 1]

Link(heap, update, rank, a, m, s, lv) ==
  LET next == NextAfterLoop(heap, update, lv)
      here(p) == {i \in 0..lv - 1 : update[i] = p}
      node == Node(m, s, lv,
                [i \in 0..lv - 1 |-> heap[update[i]].forward_[i]],
                [i \in 0..lv - 1 |->
                   Uint(heap[update[i]].span_[i] - (rank[0] - rank[i]))],
                IF update[0] = Header THEN Null ELSE update[0])
  IN  [p \in DOMAIN heap \cup {a} |->
        IF p = a THEN node
        ELSE [heap[p] EXCEPT
               !.forward_ = [i \in DOMAIN @ |-> IF i \in here(p) THEN a ELSE @[i]],
               !.span_ = [i \in DOMAIN @ |->
                           IF i \in here(p) THEN Uint(rank[0] - rank[i] + 1)
                           ELSE @[i]],
               !.backward_ = IF p = next THEN a ELSE @]]

RaiseLevel(level, lv) == Max({level, lv})

\* The nodes are linked, counted and indexed; put is still to come.
InsertNode(l, a, m, s, lv) ==
  LET passed == PassedByInsert(l.heap, s, m)
      update == Update(l.heap, MaxLevel, passed)
      rank == Rank(l.heap, update, passed)
  IN  [l EXCEPT
        !.heap = Link(@, update, rank, a, m, s, lv),
        !.tail_ = IF NextAfterLoop(l.heap, update, lv) = Null THEN a ELSE @,
        !.length_ = @ + 1,
        !.level_ = RaiseLevel(@, lv),
        !.node_map_ = [x \in DOMAIN @ \cup {m} |-> IF x = m THEN a ELSE @[x]]]

\* Faulty: only the first of delete_keys is deleted.
DrainFirstKey(l) ==
  LET keys == l.lru_cache_.delete_keys
  IN  IF keys = << >> THEN l
      ELSE [DeleteElementInLock(l, Head(keys)) EXCEPT !.lru_cache_.delete_keys = << >>]

\* The loop over delete_keys, and delete_keys.clear().
DrainEvicted(l) ==
  LET keys == l.lru_cache_.delete_keys
      after[i \in 0..Len(keys)] ==
        IF i = 0 THEN l ELSE DeleteElementInLock(after[i - 1], keys[i])
  IN  [after[Len(keys)] EXCEPT !.lru_cache_.delete_keys = << >>]

StoreNode(l, a, m, s, lv) ==
  LET linked == InsertNode(DeleteElementInLock(l, m), a, m, s, lv)
  IN  {DrainEvicted([linked EXCEPT !.lru_cache_ = c]) :
         c \in put(linked.lru_cache_, m, s)}

\* The address of the new node may be any that is free once the old node of
\* the member is; GetRandomLevel() may return any level from 1 to max_level_.
FreeAfterDelete(l, m) == Addr \ DOMAIN DeleteElementInLock(l, m).heap

-----------------------------------------------------------------------------
(***************************************************************************)
(* The methods.                                                            *)
(***************************************************************************)
HasScore(m, s) ==
  m \in DOMAIN sl.node_map_ /\ ScoreOf(sl, m) = s

InsertElement(m, s) ==
  /\ phase = "alive"
  /\ \/ /\ HasScore(m, s)
        /\ sl' = [sl EXCEPT !.lru_cache_ = get(@, m)]
     \/ /\ ~HasScore(m, s)
        /\ \E a \in FreeAfterDelete(sl, m), lv \in 1..MaxLevel :
             sl' \in StoreNode(sl, a, m, s, lv)
  /\ ret' = IF m \in DOMAIN sl.node_map_ THEN 0 ELSE 1
  /\ UNCHANGED phase

DeleteElement(m) ==
  /\ phase = "alive"
  /\ \/ /\ m \notin DOMAIN sl.node_map_
        /\ ret' = 0
        /\ UNCHANGED sl
     \/ /\ m \in DOMAIN sl.node_map_
        /\ sl' = DeleteNode(sl, m, PassedByDelete(sl.heap, ScoreOf(sl, m), m))
        /\ ret' = 1
  /\ UNCHANGED phase

SearchElement(m) ==
  /\ phase = "alive"
  /\ \/ /\ m \notin DOMAIN sl.node_map_
        /\ ret' = -1
        /\ UNCHANGED sl
     \/ /\ m \in DOMAIN sl.node_map_
        /\ sl' = [sl EXCEPT !.lru_cache_ = get(@, m)]
        /\ ret' = ScoreOf(sl, m)
  /\ UNCHANGED phase

Length ==
  /\ phase = "alive"
  /\ ret' = sl.length_
  /\ UNCHANGED << sl, phase >>

SetMaxMemory(n) ==
  /\ phase = "alive"
  /\ \E c \in set_capacity(sl.lru_cache_, n) : sl' = [sl EXCEPT !.lru_cache_ = c]
  /\ ret' = 0
  /\ UNCHANGED phase

\* What the destructor's loop leaves allocated when it starts at p with the
\* addresses in left allocated, and whether it ran into released memory.
Sweep(heap, p, left) ==
  LET sweep[q \in DOMAIN heap \cup Addr \cup {Null}, rest \in SUBSET DOMAIN heap] ==
        IF q = Null THEN [rest |-> rest, ok |-> TRUE]
        ELSE IF q \notin rest THEN [rest |-> rest, ok |-> FALSE]
        ELSE sweep[heap[q].backward_, rest \ {q}]
  IN  sweep[p, left]

\* The destructor: the loop from tail_ along backward_, then the header.
Destroy ==
  /\ phase = "alive"
  /\ LET swept == Sweep(sl.heap, sl.tail_, DOMAIN sl.heap)
     IN  /\ phase' = IF swept.ok /\ Header \in swept.rest
                     THEN "destroyed" ELSE "corrupt"
         /\ sl' = [NewList(0) EXCEPT
                    !.heap = [p \in {q \in DOMAIN sl.heap \ {Header} :
                                       q \in swept.rest} |-> sl.heap[p]]]
  /\ ret' = 0

Init ==
  /\ \E n \in Capacities : sl = NewList(n)
  /\ phase = "alive"
  /\ ret = 0

Next ==
  \/ \E m \in Member, s \in Score : InsertElement(m, s)
  \/ \E m \in Member : DeleteElement(m)
  \/ \E m \in Member : SearchElement(m)
  \/ Length
  \/ \E n \in Capacities : SetMaxMemory(n)
  \/ Destroy

Spec == Init /\ [][Next]_vars

-----------------------------------------------------------------------------
(***************************************************************************)
(* Properties.                                                             *)
(***************************************************************************)
\* The nodes of level i in the order of the forward_[i] pointers.
Chain(i) ==
  LET rest[p \in (Tall(sl.heap, i) \ {Header}) \cup {Null}] ==
        IF p = Null THEN << >> ELSE << p >> \o rest[sl.heap[p].forward_[i]]
  IN  rest[sl.heap[Header].forward_[i]]

\* The nodes of the sequence c are in strictly ascending order of
\* (score_, ele_).
Ascending(c) ==
  \A i, j \in DOMAIN c : i < j =>
    LET x == sl.heap[c[i]]
        y == sl.heap[c[j]]
    IN  x.score_ < y.score_ \/ (x.score_ = y.score_ /\ x.ele_ < y.ele_)

\* The fields have the types skiplist.h declares; each node's two arrays are
\* as long as its level.
TypeOK ==
  /\ phase \in {"alive", "destroyed", "corrupt"}
  /\ ret \in Int
  /\ sl.tail_ \in Addr \cup {Header, Null}
  /\ sl.length_ \in 0..Cardinality(Addr)
  /\ sl.level_ \in 0..MaxLevel
  /\ \A p \in DOMAIN sl.heap \ {Header} :
       /\ sl.heap[p].ele_ \in Member
       /\ sl.heap[p].score_ \in Score
       /\ sl.heap[p].level_ \in 1..MaxLevel
       /\ sl.heap[p].forward_ \in [0..sl.heap[p].level_ - 1 -> Addr \cup {Null}]
       /\ sl.heap[p].span_ \in [0..sl.heap[p].level_ - 1 -> 0..UintMod - 1]
       /\ sl.heap[p].backward_ \in Addr \cup {Header, Null}

\* Every member of the index can be deleted: the search of either deletion,
\* which starts on level_ and has its own copy of the comparison, stands
\* right in front of the member's node on each level the node reaches, and
\* takes the highest of them for the node's height.  A search that stopped
\* anywhere else would release another member's node, leave a pointer to the
\* released one, or keep max_level_ as the height and write past the arrays.
DeletionMeetsNode ==
  phase = "alive" =>
    \A m \in DOMAIN sl.node_map_ :
      \A passed \in {PassedInLock(sl.heap, ScoreOf(sl, m), m),
                     PassedByDelete(sl.heap, ScoreOf(sl, m), m)} :
        LET node == sl.node_map_[m]
            update == Update(sl.heap, sl.level_, passed)
        IN  /\ \A i \in 0..sl.heap[node].level_ - 1 :
                 sl.heap[update[i]].forward_[i] = node
            /\ TopLevel(sl.heap, update, ScoreOf(sl, m), m)
                 = sl.heap[node].level_ - 1

\* The bottom level is in strictly ascending order of (score_, ele_), which
\* is what DisplayList, DumpFile and Save print, and every higher level is
\* exactly the sub-list of the nodes tall enough for it, so that no search
\* on a level skips or misses a node and no access to forward_[i] or span_[i]
\* is beyond the end of the node's arrays (the TODO at line 228 asks for this
\* check); level_ is high enough for a deletion to meet every pointer to the
\* node it frees.
LevelsNested ==
  phase = "alive" =>
    /\ \A i \in Levels :
         /\ Ascending(Chain(i))
         /\ ToSet(Chain(i)) = {p \in ToSet(Chain(0)) : sl.heap[p].level_ > i}
    /\ \A p \in DOMAIN sl.heap \ {Header} : sl.heap[p].level_ <= sl.level_

\* The hash index, the bottom level, the count and the allocated nodes
\* agree: no node is leaked, dangling or counted twice, also when one
\* InsertElement deletes the member's old node and several evicted ones.
IndexMatchesList ==
  phase = "alive" =>
    LET c == Chain(0)
    IN  /\ Len(c) = sl.length_
        /\ DOMAIN sl.heap = ToSet(c) \cup {Header}
        /\ DOMAIN sl.node_map_ = {sl.heap[p].ele_ : p \in ToSet(c)}
        /\ \A p \in ToSet(c) : sl.node_map_[sl.heap[p].ele_] = p

(***************************************************************************)
(* A statement of the repository that the code does not keep.              *)
(***************************************************************************)

\* Line 139: the destructor's loop clears the nodes that are still in the
\* list; the header is released after it.  So everything is released once.
DestructorReleasesAll ==
  phase # "alive" => phase = "destroyed" /\ DOMAIN sl.heap = {}

(***************************************************************************)
(* The pointer structure implements the sorted set of module ZSetMachine:  *)
(* what the node of a member holds is the member's score.                  *)
(***************************************************************************)
ScoreView(l) ==
  [m \in Member |-> IF m \in DOMAIN l.node_map_
                    THEN l.heap[l.node_map_[m]].score_ ELSE Absent]

ZSetView(l) == [score |-> ScoreView(l), lru |-> l.lru_cache_]

Z == INSTANCE ZSetMachine WITH zset <- ZSetView(sl), ret <- ret

\* Every call returns what the sorted set would return and changes scores,
\* recency and pending deletions the way the sorted set would.
ImplementsZSet == Z!Spec
=============================================================================
