--------------------------- MODULE SkipListProofs ---------------------------
(***************************************************************************)
(* The proofs that the pointer structure of skiplist.h is a skip list and  *)
(* implements the sorted set of module ZSetMachine, for every number of    *)
(* levels, nodes, members and scores.  The invariant is local: on every    *)
(* level a node's forward_ pointer leads to the least of the nodes that    *)
(* come after it and are tall enough (Ordered).  The loops of the code are *)
(* recursive functions along these pointers; what they compute follows by  *)
(* induction along the path (PathInduction, PathRecursion).                *)
(***************************************************************************)
EXTENDS SkipList, OperatorProofs

Nodes(h) == DOMAIN h \ {Header}

\* The node at p comes before the key (s, m).
Before(h, p, s, m) ==
  /\ p # Null
  /\ \/ h[p].score_ < s
     \/ h[p].score_ = s /\ h[p].ele_ < m

\* A search that passes exactly the nodes that come before (s, m).
Passes(h, passed, s, m) ==
  \A p \in Nodes(h) \cup {Null} : p \in passed <=> Before(h, p, s, m)

\* The header comes before every node; the other nodes are ordered by
\* (score_, ele_).
Precedes(h, p, r) == p = Header \/ Before(h, p, h[r].score_, h[r].ele_)

\* Where forward_[i] of the node at p must point: to the first of the nodes
\* after p whose arrays reach level i, or nowhere.
Follows(h, i, p, n) ==
  \/ /\ n = Null
     /\ \A r \in Nodes(h) : h[r].level_ > i => ~Precedes(h, p, r)
  \/ /\ n \in Nodes(h) /\ h[n].level_ > i /\ Precedes(h, p, n)
     /\ \A r \in Nodes(h) :
          h[r].level_ > i /\ Precedes(h, p, r) => r = n \/ Precedes(h, n, r)

\* A node has its six fields, and its two arrays are as long as its level.
NodeOK(n) ==
  /\ n = Node(n.ele_, n.score_, n.level_, n.forward_, n.span_, n.backward_)
  /\ n.level_ \in 1..MaxLevel
  /\ n.forward_ \in [0..n.level_ - 1 -> Addr \cup {Null}]
  /\ n.span_ \in [0..n.level_ - 1 -> 0..UintMod - 1]
  /\ n.backward_ \in Addr \cup {Header, Null}

\* The header and the nodes, no two of them for the same member.
HeapOK(h) ==
  /\ h = [p \in DOMAIN h |-> h[p]]
  /\ Header \in DOMAIN h /\ Nodes(h) \subseteq Addr
  /\ h[Header].level_ = MaxLevel
  /\ \A p \in DOMAIN h : NodeOK(h[p])
  /\ \A p \in Nodes(h) : h[p].ele_ \in Member /\ h[p].score_ \in Score
  /\ \A p, q \in Nodes(h) : h[p].ele_ = h[q].ele_ => p = q

Ordered(h) ==
  \A p \in DOMAIN h : \A i \in 0..h[p].level_ - 1 :
    Follows(h, i, p, h[p].forward_[i])

\* The node after which (s, m) belongs on level i: what the search looks for.
IsPred(h, i, p, s, m) ==
  /\ p \in Tall(h, i)
  /\ p = Header \/ Before(h, p, s, m)
  /\ \A r \in Nodes(h) : h[r].level_ > i /\ Precedes(h, p, r) => ~Before(h, r, s, m)

-----------------------------------------------------------------------------
(***************************************************************************)
(* The order of the nodes.                                                 *)
(***************************************************************************)

\* The comparisons of the code order the nodes strictly and totally, and are
\* transitive against a key (s, m).
LEMMA NodeOrder ==
  ASSUME NEW h, HeapOK(h)
  PROVE  /\ \A p \in Nodes(h) : ~Precedes(h, p, p) /\ p # Header /\ p # Null
         /\ \A p, q \in Nodes(h) : p = q \/ Precedes(h, p, q) \/ Precedes(h, q, p)
         /\ \A p \in DOMAIN h, q, r \in Nodes(h) :
              Precedes(h, p, q) /\ Precedes(h, q, r) => Precedes(h, p, r)
<1>1. \A p \in Nodes(h) : /\ h[p].ele_ \in Int /\ h[p].score_ \in Int
                          /\ p # Header /\ p # Null
  BY AddrAssumption, KeyOrderAssumption, ScoreAssumption
     DEF HeapOK, Nodes, Member, Score
<1>2. \A p, q \in Nodes(h) : h[p].ele_ = h[q].ele_ => p = q
  BY DEF HeapOK
<1>3. \A p \in DOMAIN h : p = Header \/ p \in Nodes(h)
  BY DEF Nodes
<1>4. \A p \in Nodes(h) : ~Precedes(h, p, p)
  BY <1>1 DEF Precedes, Before
<1>5. \A p, q \in Nodes(h) : p = q \/ Precedes(h, p, q) \/ Precedes(h, q, p)
  BY <1>1, <1>2 DEF Precedes, Before
<1>6. \A p \in DOMAIN h, q, r \in Nodes(h) :
        Precedes(h, p, q) /\ Precedes(h, q, r) => Precedes(h, p, r)
  BY <1>1, <1>3 DEF Precedes, Before
<1> QED BY <1>1, <1>4, <1>5, <1>6

\* The same against a key (s, m).
LEMMA KeyOrder ==
  ASSUME NEW h, HeapOK(h), NEW s \in Score, NEW m \in Member
  PROVE  /\ \A p, q \in Nodes(h) :
              Precedes(h, p, q) /\ Before(h, q, s, m) => Before(h, p, s, m)
         /\ \A p, q \in Nodes(h) :
              Before(h, p, s, m) /\ ~Before(h, q, s, m) => Precedes(h, p, q)
<1>1. \A p \in Nodes(h) : /\ h[p].ele_ \in Int /\ h[p].score_ \in Int
                          /\ p # Header /\ p # Null
  BY AddrAssumption, KeyOrderAssumption, ScoreAssumption
     DEF HeapOK, Nodes, Member, Score
<1>2. s \in Int /\ m \in Int
  BY KeyOrderAssumption, ScoreAssumption DEF Member, Score
<1> QED BY <1>1, <1>2 DEF Precedes, Before

\* The three comparisons of the code agree with this order.
LEMMA SameComparison ==
  ASSUME NEW h, HeapOK(h), NEW s, NEW m
  PROVE  /\ Passes(h, PassedByInsert(h, s, m), s, m)
         /\ Passes(h, PassedInLock(h, s, m), s, m)
         /\ Passes(h, PassedByDelete(h, s, m), s, m)
<1>1. Null \notin DOMAIN h
  BY AddrAssumption DEF HeapOK, Nodes
<1>2. \A p \in Nodes(h) \cup {Null} :
        Before(h, p, s, m) <=>
          p \in Nodes(h) /\ (h[p].score_ < s \/ (s = h[p].score_ /\ h[p].ele_ < m))
  BY <1>1 DEF Before, Nodes
<1>3. Passes(h, PassedByInsert(h, s, m), s, m)
  BY <1>2 DEF Passes, PassedByInsert, Nodes
<1>4. Passes(h, PassedInLock(h, s, m), s, m)
  BY <1>2 DEF Passes, PassedInLock, Nodes
<1>5. Passes(h, PassedByDelete(h, s, m), s, m)
  BY <1>2 DEF Passes, PassedByDelete, Nodes
<1> QED BY <1>3, <1>4, <1>5

\* How far a node is from the end of the list.
Distance(h) == [p \in DOMAIN h |-> Cardinality({r \in Nodes(h) : Precedes(h, p, r)})]

\* The distance falls along every pointer.
LEMMA DistanceFalls ==
  ASSUME NEW h, HeapOK(h)
  PROVE  /\ Distance(h) \in [DOMAIN h -> Nat]
         /\ IsFiniteSet(Nodes(h)) /\ Cardinality(Nodes(h)) \in Nat
         /\ \A p \in DOMAIN h : Distance(h)[p] <= Cardinality(Nodes(h))
         /\ \A p \in DOMAIN h, q \in Nodes(h) :
              Precedes(h, p, q) => Distance(h)[q] < Distance(h)[p]
<1> DEFINE after(p) == {r \in Nodes(h) : Precedes(h, p, r)}
<1>1. IsFiniteSet(Nodes(h)) /\ Cardinality(Nodes(h)) \in Nat
  BY AddrAssumption, FS_Subset, FS_CardinalityType DEF HeapOK
<1>2. \A p : after(p) \in SUBSET Nodes(h)
  OBVIOUS
<1>3. \A p \in DOMAIN h : Distance(h)[p] = Cardinality(after(p))
  BY DEF Distance
<1> HIDE DEF after
<1>4. \A p : /\ IsFiniteSet(after(p)) /\ Cardinality(after(p)) \in Nat
             /\ Cardinality(after(p)) <= Cardinality(Nodes(h))
  BY <1>1, <1>2, FS_Subset, FS_CardinalityType
<1>5. ASSUME NEW p \in DOMAIN h, NEW q \in Nodes(h), Precedes(h, p, q)
      PROVE  Cardinality(after(q)) < Cardinality(after(p))
  <2>1. after(q) \in SUBSET after(p) /\ q \in after(p) /\ q \notin after(q)
    BY <1>5, NodeOrder DEF after
  <2>2. /\ Cardinality(after(q)) <= Cardinality(after(p))
        /\ Cardinality(after(p)) = Cardinality(after(q)) => after(p) = after(q)
    BY <1>4, <2>1, FS_Subset
  <2> QED BY <1>4, <2>1, <2>2
<1>6. \A q \in Nodes(h) : q \in DOMAIN h
  BY DEF Nodes
<1>7. Distance(h) \in [DOMAIN h -> Nat]
  <2>1. Distance(h) = [p \in DOMAIN h |-> Cardinality(after(p))]
    BY DEF Distance, after
  <2> QED BY <1>4, <2>1
<1> QED BY <1>1, <1>3, <1>4, <1>5, <1>6, <1>7

-----------------------------------------------------------------------------
(***************************************************************************)
(* The search.                                                             *)
(***************************************************************************)

\* What the pointers of a level lead to.
LEMMA NextNode ==
  ASSUME NEW h, HeapOK(h), Ordered(h), NEW i \in Levels, NEW p \in Tall(h, i)
  PROVE  /\ p \in DOMAIN h /\ i \in 0..h[p].level_ - 1
         /\ h[p].span_[i] \in Int
         /\ Follows(h, i, p, h[p].forward_[i])
         /\ h[p].forward_[i] # Null =>
              /\ h[p].forward_[i] \in Nodes(h) /\ h[p].forward_[i] \in Tall(h, i)
              /\ Precedes(h, p, h[p].forward_[i])
<1>1. p \in DOMAIN h /\ h[p].level_ \in 1..MaxLevel /\ h[p].level_ > i
  BY DEF Tall, HeapOK, NodeOK
<1>2. i \in 0..h[p].level_ - 1
  BY <1>1, LevelAssumption DEF Levels
<1>3. Follows(h, i, p, h[p].forward_[i])
  BY <1>1, <1>2 DEF Ordered
<1>4. h[p].span_[i] \in Int
  <2>1. h[p].span_ \in [0..h[p].level_ - 1 -> 0..UintMod - 1]
    BY <1>1 DEF HeapOK, NodeOK
  <2>2. h[p].span_[i] \in 0..UintMod - 1
    BY <1>2, <2>1
  <2> QED BY <2>2, UintAssumption
<1> QED BY <1>1, <1>2, <1>3, <1>4 DEF Follows, Nodes, Tall

\* A node where the inner loop stops is the one looked for.
LEMMA StopIsPred ==
  ASSUME NEW h, HeapOK(h), Ordered(h), NEW i \in Levels, NEW p \in Tall(h, i),
         NEW s \in Score, NEW m \in Member,
         p = Header \/ Before(h, p, s, m), ~Before(h, h[p].forward_[i], s, m)
  PROVE  IsPred(h, i, p, s, m)
<1> DEFINE n == h[p].forward_[i]
<1>1. Follows(h, i, p, n)
  BY NextNode
<1> HIDE DEF n
<1>2. ASSUME NEW r \in Nodes(h), h[r].level_ > i, Precedes(h, p, r)
      PROVE  ~Before(h, r, s, m)
  <2>1. n \in Nodes(h) /\ (r = n \/ Precedes(h, n, r))
    BY <1>1, <1>2 DEF Follows
  <2> QED BY <2>1, KeyOrder DEF n
<1> QED BY <1>2 DEF IsPred

\* On each level the search can only end in one place.
LEMMA PredUnique ==
  ASSUME NEW h, HeapOK(h), NEW i, NEW s, NEW m,
         NEW p, IsPred(h, i, p, s, m), NEW q, IsPred(h, i, q, s, m)
  PROVE  p = q
<1>1. /\ p \in DOMAIN h /\ q \in DOMAIN h
      /\ p # Header => p \in Nodes(h) /\ h[p].level_ > i /\ Before(h, p, s, m)
      /\ q # Header => q \in Nodes(h) /\ h[q].level_ > i /\ Before(h, q, s, m)
  BY DEF IsPred, Tall, Nodes
<1>2. ~(q # Header /\ Precedes(h, p, q)) /\ ~(p # Header /\ Precedes(h, q, p))
  BY <1>1 DEF IsPred
<1>3. p # Header /\ q # Header => p = q
  BY <1>1, <1>2, NodeOrder
<1> QED BY <1>1, <1>2, <1>3 DEF Precedes

\* The inner while loop ends at the node looked for, wherever it starts.
LEMMA WalkSound ==
  ASSUME NEW h, HeapOK(h), Ordered(h), NEW i \in Levels, NEW p \in Tall(h, i),
         NEW s \in Score, NEW m \in Member, p = Header \/ Before(h, p, s, m),
         NEW passed, Passes(h, passed, s, m)
  PROVE  IsPred(h, i, Walk(h, i, p, passed), s, m)
<1> DEFINE D == Tall(h, i)
           nx == [q \in D |-> h[q].forward_[i]]
           go == {q \in D : nx[q] \in passed}
           rk == [q \in D |-> Distance(h)[q]]
           F == [q \in D |-> [x \in D |-> x]]
           b == [q \in D |-> q]
           N == Cardinality(Nodes(h)) + 1
           stop == CHOOSE g : g = [q \in D |->
                     IF h[q].forward_[i] \in passed
                     THEN g[h[q].forward_[i]] ELSE q]
<1>1. Walk(h, i, p, passed) = stop[p]
  BY DEF Walk
<1>0. \A q \in D : h[q].forward_[i] \in passed <=> Before(h, h[q].forward_[i], s, m)
  BY NextNode DEF Passes
<1>2. Descends(D, go, nx, rk, N)
  <2>1. /\ rk \in [D -> Nat] /\ N \in Nat /\ go \subseteq D
        /\ \A q \in D : rk[q] < N
    BY DistanceFalls DEF Tall
  <2>2. ASSUME NEW q \in go PROVE nx[q] \in D /\ rk[nx[q]] < rk[q]
    <3>1. nx[q] # Null
      BY <1>0 DEF Before
    <3>2. nx[q] \in Nodes(h) /\ nx[q] \in D /\ Precedes(h, q, nx[q]) /\ q \in DOMAIN h
      BY <3>1, NextNode
    <3> QED BY <3>2, DistanceFalls
  <2> HIDE DEF D, nx, go, rk, N, stop
  <2> QED BY <2>1, <2>2 DEF Descends
<1>3. F \in [D -> [D -> D]] /\ b \in [D -> D]
  OBVIOUS
<1>4. PICK g0 : Computes(g0, D, D, go, nx, F, b)
  <2> HIDE DEF D, nx, go, rk, F, b, N, stop
  <2> QED BY <1>2, <1>3, PathRecursion
<1>5. \A q \in go : nx[q] \in D
  <2> HIDE DEF D, nx, go, rk, N, stop
  <2> QED BY <1>2 DEF Descends
<1>6. \E g : g = [q \in D |-> IF h[q].forward_[i] \in passed
                              THEN g[h[q].forward_[i]] ELSE q]
  <2>1. g0 \in [D -> D]
    BY <1>4 DEF Computes
  <2>2. \A q \in D : g0[q] = IF h[q].forward_[i] \in passed
                             THEN g0[h[q].forward_[i]] ELSE q
    BY <1>4, <1>5, <2>1 DEF Computes
  <2> HIDE DEF D
  <2> QED BY <2>1, <2>2
<1>7. stop = [q \in D |-> IF h[q].forward_[i] \in passed
                          THEN stop[h[q].forward_[i]] ELSE q]
  BY <1>6, Zenon
<1> HIDE DEF stop
<1> DEFINE B == {q \in D : q = Header \/ Before(h, q, s, m) =>
                             IsPred(h, i, stop[q], s, m)}
<1>8. \A q \in D \ go : q \in B
  <2> SUFFICES ASSUME NEW q \in D \ go, q = Header \/ Before(h, q, s, m)
               PROVE  IsPred(h, i, stop[q], s, m)
    OBVIOUS
  <2>1. h[q].forward_[i] \notin passed /\ ~Before(h, h[q].forward_[i], s, m)
    BY <1>0
  <2>2. stop[q] = q
    BY <1>7, <2>1
  <2> QED BY <2>1, <2>2, StopIsPred
<1>9. \A q \in go : nx[q] \in B => q \in B
  <2> SUFFICES ASSUME NEW q \in go, nx[q] \in B PROVE IsPred(h, i, stop[q], s, m)
    OBVIOUS
  <2>1. /\ nx[q] = h[q].forward_[i] /\ h[q].forward_[i] \in passed
        /\ Before(h, nx[q], s, m)
    BY <1>0
  <2>2. stop[q] = stop[nx[q]]
    BY <1>7, <2>1
  <2> QED BY <2>1, <2>2
<1>10. D \subseteq B
  <2> HIDE DEF D, nx, go, rk, N, B
  <2> QED BY <1>2, <1>8, <1>9, PathInduction
<1> QED BY <1>1, <1>10

\* The outer loop: update[i] is the node looked for, on every level.
LEMMA UpdateSound ==
  ASSUME NEW h, HeapOK(h), Ordered(h), NEW top \in 1..MaxLevel,
         NEW s \in Score, NEW m \in Member, NEW passed, Passes(h, passed, s, m)
  PROVE  /\ DOMAIN Update(h, top, passed) = 0..top - 1
         /\ \A i \in 0..top - 1 : IsPred(h, i, Update(h, top, passed)[i], s, m)
<1> DEFINE D == 0..top - 1
           upd == CHOOSE u : u = [i \in D |->
                    Walk(h, i, IF i = top - 1 THEN Header ELSE u[i + 1], passed)]
           w == [i \in D |-> Walk(h, i, Header, passed)]
<1>1. Update(h, top, passed) = upd
  BY DEF Update
<1>2. \A i \in D : i \in Levels /\ Header \in Tall(h, i)
  BY LevelAssumption DEF HeapOK, Levels, Tall
<1>3. \A i \in D : IsPred(h, i, w[i], s, m)
  BY <1>2, WalkSound
<1>4. ASSUME NEW i \in D, i # top - 1, NEW p, IsPred(h, i + 1, p, s, m)
      PROVE  IsPred(h, i, Walk(h, i, p, passed), s, m)
  <2>1. p \in Tall(h, i + 1) /\ (p = Header \/ Before(h, p, s, m))
    BY <1>4 DEF IsPred
  <2>2. p \in Tall(h, i)
    <3>1. p \in DOMAIN h /\ h[p].level_ \in Int /\ h[p].level_ > i + 1
      BY <2>1 DEF Tall, HeapOK, NodeOK
    <3> QED BY <3>1 DEF Tall
  <2> QED BY <1>2, <2>1, <2>2, WalkSound
<1>5. w = [i \in D |-> Walk(h, i, IF i = top - 1 THEN Header ELSE w[i + 1], passed)]
  <2>1. ASSUME NEW i \in D
        PROVE  w[i] = Walk(h, i, IF i = top - 1 THEN Header ELSE w[i + 1], passed)
    <3>1. CASE i = top - 1
      BY <3>1
    <3>2. CASE i # top - 1
      <4>1. i + 1 \in D
        BY <3>2
      <4>2. IsPred(h, i, Walk(h, i, w[i + 1], passed), s, m)
        BY <1>3, <1>4, <3>2, <4>1
      <4>3. w[i] = Walk(h, i, w[i + 1], passed)
        BY <1>3, <4>2, PredUnique
      <4> QED BY <3>2, <4>3
    <3> QED BY <3>1, <3>2
  <2>2. DOMAIN w = D /\ w = [i \in D |-> w[i]]
    OBVIOUS
  <2> HIDE DEF D, w
  <2> QED BY <2>1, <2>2
<1>6. upd = [i \in D |-> Walk(h, i, IF i = top - 1 THEN Header ELSE upd[i + 1], passed)]
  <2> HIDE DEF D, w
  <2> QED BY <1>5, Zenon
<1> HIDE DEF upd
<1> DEFINE go == 0..top - 2
           nx == [i \in D |-> i + 1]
           rk == [i \in D |-> top - 1 - i]
           B == {i \in D : IsPred(h, i, upd[i], s, m)}
<1>7. Descends(D, go, nx, rk, top)
  BY DEF Descends
<1>8. \A i \in D \ go : i \in B
  <2> SUFFICES ASSUME NEW i \in D \ go PROVE IsPred(h, i, upd[i], s, m)
    OBVIOUS
  <2>1. i = top - 1
    OBVIOUS
  <2>2. upd[i] = Walk(h, i, Header, passed)
    BY <1>6, <2>1
  <2> QED BY <1>2, <2>2, WalkSound
<1>9. \A i \in go : nx[i] \in B => i \in B
  <2> SUFFICES ASSUME NEW i \in go, nx[i] \in B PROVE IsPred(h, i, upd[i], s, m)
    OBVIOUS
  <2>1. i \in D /\ i # top - 1 /\ nx[i] = i + 1
    OBVIOUS
  <2>2. upd[i] = Walk(h, i, upd[i + 1], passed)
    BY <1>6, <2>1
  <2>3. IsPred(h, i + 1, upd[i + 1], s, m)
    BY <2>1
  <2> QED BY <1>4, <2>1, <2>2, <2>3
<1>10. D \subseteq B
  <2> HIDE DEF D, go, nx, rk, B
  <2> QED BY <1>7, <1>8, <1>9, PathInduction
<1>11. DOMAIN upd = D
  BY <1>6
<1> QED BY <1>1, <1>10, <1>11

\* A remainder is a value of an unsigned int.
LEMMA UintRange ==
  ASSUME NEW n \in Int
  PROVE  Uint(n) \in 0..UintMod - 1
BY UintAssumption DEF Uint

\* The sums that the search keeps are numbers.
LEMMA RankSound ==
  ASSUME NEW h, HeapOK(h), Ordered(h), NEW s \in Score, NEW m \in Member,
         NEW passed, Passes(h, passed, s, m),
         NEW update, \A i \in Levels : IsPred(h, i, update[i], s, m)
  PROVE  \A i \in Levels : Rank(h, update, passed)[i] \in 0..UintMod - 1
<1> SUFFICES ASSUME NEW i \in Levels
             PROVE  Rank(h, update, passed)[i] \in 0..UintMod - 1
  OBVIOUS
<1> DEFINE D == Tall(h, i)
           from == IF i = MaxLevel - 1 THEN Header ELSE update[i + 1]
           nx == [q \in D |-> h[q].forward_[i]]
           go == {q \in D : nx[q] \in passed}
           rk == [q \in D |-> Distance(h)[q]]
           F == [q \in D |-> [x \in Int |-> h[q].span_[i] + x]]
           b == [q \in D |-> 0]
           N == Cardinality(Nodes(h)) + 1
           sum == CHOOSE g : g = [q \in D |->
                    IF h[q].forward_[i] \in passed
                    THEN h[q].span_[i] + g[h[q].forward_[i]] ELSE 0]
<1>1. Rank(h, update, passed)[i] = Uint(sum[from])
  BY DEF Rank
<1>2. from \in D
  <2>1. CASE i = MaxLevel - 1
    BY <2>1, LevelAssumption DEF HeapOK, Tall, Levels
  <2>2. CASE i # MaxLevel - 1
    <3>1. i + 1 \in Levels
      BY <2>2, LevelAssumption DEF Levels
    <3>2. update[i + 1] \in Tall(h, i + 1)
      BY <3>1 DEF IsPred
    <3>3. /\ update[i + 1] \in DOMAIN h /\ h[update[i + 1]].level_ \in Int
          /\ h[update[i + 1]].level_ > i + 1
      BY <3>2 DEF Tall, HeapOK, NodeOK
    <3>4. i \in Int
      BY LevelAssumption DEF Levels
    <3> QED BY <2>2, <3>3, <3>4 DEF Tall
  <2> QED BY <2>1, <2>2
<1>3. Descends(D, go, nx, rk, N)
  <2>1. /\ rk \in [D -> Nat] /\ N \in Nat /\ go \subseteq D
        /\ \A q \in D : rk[q] < N
    BY DistanceFalls DEF Tall
  <2>2. ASSUME NEW q \in go PROVE nx[q] \in D /\ rk[nx[q]] < rk[q]
    <3>1. nx[q] # Null
      BY NextNode DEF Passes, Before
    <3>2. nx[q] \in Nodes(h) /\ nx[q] \in D /\ Precedes(h, q, nx[q]) /\ q \in DOMAIN h
      BY <3>1, NextNode
    <3> QED BY <3>2, DistanceFalls
  <2> HIDE DEF D, nx, go, rk, N, sum
  <2> QED BY <2>1, <2>2 DEF Descends
<1>4. F \in [D -> [Int -> Int]] /\ b \in [D -> Int]
  <2>1. \A q \in D : h[q].span_[i] \in Int
    BY NextNode
  <2> HIDE DEF D
  <2> QED BY <2>1
<1>5. PICK g0 : Computes(g0, D, Int, go, nx, F, b)
  <2> HIDE DEF D, nx, go, rk, F, b, N, sum
  <2> QED BY <1>3, <1>4, PathRecursion
<1>6. \A q \in go : nx[q] \in D
  <2> HIDE DEF D, nx, go, rk, N, sum
  <2> QED BY <1>3 DEF Descends
<1>7. \E g : g = [q \in D |-> IF h[q].forward_[i] \in passed
                              THEN h[q].span_[i] + g[h[q].forward_[i]] ELSE 0]
  <2>1. g0 \in [D -> Int]
    BY <1>5 DEF Computes
  <2>2. \A q \in D : g0[q] = IF h[q].forward_[i] \in passed
                             THEN h[q].span_[i] + g0[h[q].forward_[i]] ELSE 0
    BY <1>5, <1>6, <2>1 DEF Computes
  <2> HIDE DEF D
  <2> QED BY <2>1, <2>2
<1>8. sum = [q \in D |-> IF h[q].forward_[i] \in passed
                         THEN h[q].span_[i] + sum[h[q].forward_[i]] ELSE 0]
  BY <1>7, Zenon
<1> HIDE DEF sum
<1> DEFINE B == {q \in D : sum[q] \in Int}
<1>9. \A q \in D \ go : q \in B
  BY <1>8
<1>10. \A q \in go : nx[q] \in B => q \in B
  <2> SUFFICES ASSUME NEW q \in go, nx[q] \in B PROVE sum[q] \in Int
    OBVIOUS
  <2>1. sum[q] = h[q].span_[i] + sum[nx[q]]
    BY <1>8
  <2>2. h[q].span_[i] \in Int
    BY NextNode
  <2> QED BY <2>1, <2>2
<1>11. D \subseteq B
  <2> HIDE DEF D, nx, go, rk, N, B
  <2> QED BY <1>3, <1>9, <1>10, PathInduction
<1> QED BY <1>1, <1>2, <1>11, UintRange

-----------------------------------------------------------------------------
(***************************************************************************)
(* Deletion.                                                               *)
(***************************************************************************)

\* The search for a node that is in the list stops in front of it on exactly
\* the levels the node has, and there at the only node that points to it.
LEMMA DeleteSearch ==
  ASSUME NEW h, HeapOK(h), Ordered(h), NEW node \in Nodes(h),
         NEW top \in h[node].level_..MaxLevel,
         NEW s, s = h[node].score_, NEW m, m = h[node].ele_,
         NEW passed, Passes(h, passed, s, m),
         NEW update, update = Update(h, top, passed)
  PROVE  /\ h[node].level_ \in 1..MaxLevel
         /\ \A i \in 0..h[node].level_ - 1 :
              update[i] \in DOMAIN h \ {node} /\ h[update[i]].forward_[i] = node
         /\ \A p \in DOMAIN h : \A i \in 0..h[p].level_ - 1 :
              h[p].forward_[i] = node =>
                i \in 0..h[node].level_ - 1 /\ p = update[i]
         /\ TopLevel(h, update, s, m) = h[node].level_ - 1
<1> DEFINE lv == h[node].level_
           fwd(i) == h[update[i]].forward_[i]
<1>1. /\ lv \in 1..MaxLevel /\ top \in 1..MaxLevel /\ lv <= top
      /\ s \in Score /\ m \in Member /\ node \in DOMAIN h
  <2>1. node \in DOMAIN h /\ lv \in 1..MaxLevel
    BY DEF HeapOK, NodeOK, Nodes
  <2>2. s \in Score /\ m \in Member
    BY DEF HeapOK
  <2> QED BY <2>1, <2>2, LevelAssumption
<1>2. DOMAIN update = 0..top - 1 /\ \A i \in 0..top - 1 : IsPred(h, i, update[i], s, m)
  BY <1>1, UpdateSound
<1>3. \A i \in 0..top - 1 : i \in Levels /\ i \in Int
  BY <1>1, LevelAssumption DEF Levels
<1> HIDE DEF lv
<1>4. \A p \in DOMAIN h : p # Null /\ (p = Header \/ p \in Nodes(h))
  BY AddrAssumption DEF HeapOK, Nodes
<1>5. \A p \in DOMAIN h : Precedes(h, p, node) <=> p = Header \/ Before(h, p, s, m)
  BY DEF Precedes
<1>6. ASSUME NEW i \in 0..lv - 1
      PROVE  update[i] \in DOMAIN h \ {node} /\ fwd(i) = node
  <2> DEFINE u == update[i]
  <2>1. /\ i \in 0..top - 1 /\ i \in Levels /\ IsPred(h, i, u, s, m)
        /\ i \in Int /\ lv > i
    BY <1>1, <1>2, <1>3
  <2> HIDE DEF u
  <2>2. u \in Tall(h, i) /\ u \in DOMAIN h /\ Precedes(h, u, node)
    BY <1>5, <2>1 DEF IsPred, Tall
  <2>3. u # node
    BY <2>2, NodeOrder
  <2> DEFINE n == h[u].forward_[i]
  <2>4. Follows(h, i, u, n)
    BY <2>1, <2>2, NextNode
  <2> HIDE DEF n
  <2>5. n \in Nodes(h) /\ h[n].level_ > i /\ Precedes(h, u, n)
        /\ (node = n \/ Precedes(h, n, node))
    BY <2>1, <2>2, <2>4 DEF Follows, lv
  <2>6. ~Before(h, n, s, m)
    BY <2>1, <2>5 DEF IsPred
  <2>7. n = node
    BY <1>5, <2>5, <2>6, NodeOrder DEF Nodes
  <2> QED BY <2>2, <2>3, <2>7 DEF n, u
<1>7. ASSUME NEW p \in DOMAIN h, NEW i \in 0..h[p].level_ - 1, h[p].forward_[i] = node
      PROVE  i \in 0..lv - 1 /\ p = update[i]
  <2>1. h[p].level_ \in 1..MaxLevel
    BY DEF HeapOK, NodeOK
  <2>2. i \in Levels /\ p \in Tall(h, i)
    BY <2>1, LevelAssumption DEF Levels, Tall
  <2>3. Follows(h, i, p, node)
    BY <1>7, <2>2, NextNode
  <2>4. node # Null /\ lv > i /\ Precedes(h, p, node)
        /\ \A r \in Nodes(h) :
             h[r].level_ > i /\ Precedes(h, p, r) => r = node \/ Precedes(h, node, r)
    BY <1>1, <1>4, <2>3 DEF Follows, lv
  <2>5. i \in 0..lv - 1 /\ i \in 0..top - 1
    BY <1>1, <2>1, <2>4
  <2>6. ASSUME NEW r \in Nodes(h), h[r].level_ > i, Precedes(h, p, r)
        PROVE  ~Before(h, r, s, m)
    <3>1. r = node \/ Precedes(h, node, r)
      BY <2>4, <2>6
    <3>2. r \in DOMAIN h
      BY DEF Nodes
    <3>3. Before(h, r, s, m) => Precedes(h, r, node)
      BY <1>5, <3>2
    <3> QED BY <1>1, <3>1, <3>2, <3>3, NodeOrder
  <2>7. IsPred(h, i, p, s, m)
    BY <1>5, <2>2, <2>4, <2>6 DEF IsPred
  <2>8. p = update[i]
    BY <1>2, <2>5, <2>7, PredUnique
  <2> QED BY <2>5, <2>8
<1>8. TopLevel(h, update, s, m) = lv - 1
  <2> DEFINE found(p) == p # Null /\ h[p].ele_ = m /\ h[p].score_ = s
             A == {i \in DOMAIN update : found(fwd(i))}
  <2>1. ASSUME NEW i \in 0..top - 1 PROVE found(fwd(i)) <=> i <= lv - 1
    <3>1. /\ update[i] \in Tall(h, i) /\ i \in Levels /\ update[i] \in DOMAIN h
          /\ i \in 0..h[update[i]].level_ - 1
      BY <1>2, <1>3, NextNode DEF IsPred
    <3>2. fwd(i) # Null => fwd(i) \in Nodes(h)
      BY <3>1, NextNode
    <3>3. fwd(i) \in Nodes(h) /\ h[fwd(i)].ele_ = m => fwd(i) = node
      BY DEF HeapOK
    <3>4. fwd(i) = node => i <= lv - 1
      BY <1>7, <3>1, <1>1
    <3>5. i <= lv - 1 => fwd(i) = node
      BY <1>1, <1>3, <1>6
    <3>6. found(node)
      BY <1>1, <1>4
    <3> HIDE DEF fwd
    <3> QED BY <3>2, <3>3, <3>4, <3>5, <3>6
  <2>2. A = 0..lv - 1
    <3>1. \A i \in 0..top - 1 : i \in A <=> i <= lv - 1
      BY <1>2, <2>1
    <3>2. A \subseteq 0..top - 1
      BY <1>2
    <3> HIDE DEF A
    <3>3. \A i : i \in 0..lv - 1 <=> i \in 0..top - 1 /\ i <= lv - 1
      BY <1>1, LevelAssumption
    <3> QED BY <3>1, <3>2, <3>3
  <2>3. TopLevel(h, update, s, m) = Max(A)
    BY DEF TopLevel
  <2> HIDE DEF A
  <2>4. lv - 1 \in 0..lv - 1 /\ lv \in Int
    BY <1>1, LevelAssumption
  <2> QED BY <2>2, <2>3, <2>4 DEF Max
<1> QED BY <1>1, <1>6, <1>7, <1>8 DEF lv

\* A node whose pointers, spans and back pointer are replaced.
Rewrite(n, fwd, spn, bwd) ==
  [n EXCEPT !.forward_ = fwd, !.span_ = spn, !.backward_ = bwd]

\* The other fields stay.
LEMMA RewrittenNode ==
  ASSUME NEW n, NodeOK(n), NEW fwd, NEW spn, NEW bwd,
         NEW x, x = Rewrite(n, fwd, spn, bwd)
  PROVE  /\ x = Node(n.ele_, n.score_, n.level_, fwd, spn, bwd)
         /\ x.ele_ = n.ele_ /\ x.score_ = n.score_ /\ x.level_ = n.level_
         /\ x.forward_ = fwd /\ x.span_ = spn /\ x.backward_ = bwd
<1>1. n = Node(n.ele_, n.score_, n.level_, n.forward_, n.span_, n.backward_)
  BY DEF NodeOK
<1>2. x = Node(n.ele_, n.score_, n.level_, fwd, spn, bwd)
  BY <1>1 DEF Node, Rewrite
<1> QED BY <1>2 DEF Node

\* The heap g is h without the node, whose successors have taken its place
\* in forward_[i] of update[i], on the levels of the node.
Bypassed(g, h, update, node) ==
  /\ g = [p \in DOMAIN h \ {node} |-> g[p]]
  /\ \A p \in DOMAIN h \ {node} :
       /\ NodeOK(g[p])
       /\ g[p].ele_ = h[p].ele_ /\ g[p].score_ = h[p].score_
       /\ g[p].level_ = h[p].level_
       /\ \A i \in 0..h[p].level_ - 1 :
            g[p].forward_[i] =
              IF i \in 0..h[node].level_ - 1 /\ update[i] = p
              THEN h[node].forward_[i] ELSE h[p].forward_[i]

\* What the loop that unlinks a node writes.
LEMMA UnlinkFields ==
  ASSUME NEW h, HeapOK(h), NEW node \in Nodes(h), NEW update,
         h[node].level_ \in 1..MaxLevel,
         \A i \in 0..h[node].level_ - 1 : update[i] \in DOMAIN h,
         NEW g, g = Unlink(h, update, h[node].level_ - 1, node)
  PROVE  Bypassed(g, h, update, node)
<1> DEFINE lv == h[node].level_
           here(p) == {i \in 0..lv - 1 : update[i] = p}
           next(i) == h[node].forward_[i]
           fwd(p) == [i \in DOMAIN h[p].forward_ |->
                        IF i \in here(p) THEN next(i) ELSE h[p].forward_[i]]
           spn(p) == [i \in DOMAIN h[p].span_ |->
                        IF i \notin here(p) THEN h[p].span_[i]
                        ELSE IF next(i) = Null THEN 0
                        ELSE Uint(h[p].span_[i] + h[node].span_[i] - 1)]
           bwd(p) == IF p = next(0) THEN update[0] ELSE h[p].backward_
<1>1. g = [p \in DOMAIN h \ {node} |-> Rewrite(h[p], fwd(p), spn(p), bwd(p))]
  BY DEF Unlink, Rewrite
<1>2. /\ node \in DOMAIN h /\ lv \in Nat /\ 0 \in 0..lv - 1
      /\ DOMAIN h \subseteq Addr \cup {Header}
      /\ \A i \in 0..lv - 1 : /\ next(i) \in Addr \cup {Null}
                              /\ h[node].span_[i] \in Int
  <2>1. node \in DOMAIN h /\ NodeOK(h[node]) /\ DOMAIN h \subseteq Addr \cup {Header}
    BY DEF HeapOK, Nodes
  <2>2. lv \in Nat /\ 0 \in 0..lv - 1
    BY LevelAssumption
  <2>3. /\ h[node].forward_ \in [0..lv - 1 -> Addr \cup {Null}]
        /\ h[node].span_ \in [0..lv - 1 -> 0..UintMod - 1]
    BY <2>1 DEF NodeOK
  <2>4. \A x \in 0..UintMod - 1 : x \in Int
    BY UintAssumption
  <2> HIDE DEF lv
  <2> QED BY <2>1, <2>2, <2>3, <2>4
<1>3. ASSUME NEW p \in DOMAIN h \ {node}
      PROVE  /\ NodeOK(g[p])
             /\ g[p].ele_ = h[p].ele_ /\ g[p].score_ = h[p].score_
             /\ g[p].level_ = h[p].level_ /\ g[p].forward_ = fwd(p)
             /\ DOMAIN h[p].forward_ = 0..h[p].level_ - 1
  <2>1. NodeOK(h[p])
    BY DEF HeapOK
  <2>2. g[p] = Rewrite(h[p], fwd(p), spn(p), bwd(p))
    BY <1>1
  <2>3. /\ g[p] = Node(h[p].ele_, h[p].score_, h[p].level_, fwd(p), spn(p), bwd(p))
        /\ g[p].ele_ = h[p].ele_ /\ g[p].score_ = h[p].score_
        /\ g[p].level_ = h[p].level_ /\ g[p].forward_ = fwd(p)
        /\ g[p].span_ = spn(p) /\ g[p].backward_ = bwd(p)
    <3> HIDE DEF fwd, spn, bwd
    <3> QED BY <2>1, <2>2, RewrittenNode
  <2>4. /\ h[p].forward_ \in [0..h[p].level_ - 1 -> Addr \cup {Null}]
        /\ h[p].span_ \in [0..h[p].level_ - 1 -> 0..UintMod - 1]
        /\ h[p].backward_ \in Addr \cup {Header, Null}
        /\ h[p].level_ \in 1..MaxLevel
    BY <2>1 DEF NodeOK
  <2>5. fwd(p) \in [0..h[p].level_ - 1 -> Addr \cup {Null}]
    <3> HIDE DEF next, lv
    <3> QED BY <1>2, <2>4
  <2>6. spn(p) \in [0..h[p].level_ - 1 -> 0..UintMod - 1]
    <3>1. ASSUME NEW i \in 0..h[p].level_ - 1 PROVE spn(p)[i] \in 0..UintMod - 1
      <4>1. h[p].span_[i] \in 0..UintMod - 1 /\ 0 \in 0..UintMod - 1
        BY <2>4, UintAssumption
      <4>2. h[p].span_[i] \in Int
        BY <4>1, UintAssumption
      <4>3. i \in here(p) =>
              Uint(h[p].span_[i] + h[node].span_[i] - 1) \in 0..UintMod - 1
        BY <1>2, <4>2, UintRange
      <4>4. DOMAIN h[p].span_ = 0..h[p].level_ - 1
        BY <2>4
      <4> HIDE DEF here, next
      <4> QED BY <4>1, <4>3, <4>4
    <3>2. spn(p) = [i \in 0..h[p].level_ - 1 |-> spn(p)[i]]
      <4>1. DOMAIN h[p].span_ = 0..h[p].level_ - 1
        BY <2>4
      <4> HIDE DEF here, next
      <4> QED BY <4>1
    <3> HIDE DEF spn
    <3> QED BY <3>1, <3>2
  <2>7. bwd(p) \in Addr \cup {Header, Null}
    BY <1>2, <2>4
  <2> HIDE DEF fwd, spn, bwd
  <2> QED BY <2>3, <2>4, <2>5, <2>6, <2>7 DEF NodeOK
<1>4. g = [p \in DOMAIN h \ {node} |-> g[p]]
  BY <1>1
<1>5. ASSUME NEW p \in DOMAIN h \ {node}, NEW i \in 0..h[p].level_ - 1
      PROVE  g[p].forward_[i] = IF i \in 0..lv - 1 /\ update[i] = p
                                THEN h[node].forward_[i] ELSE h[p].forward_[i]
  <2>1. g[p].forward_ = fwd(p) /\ i \in DOMAIN h[p].forward_
    BY <1>3
  <2>2. fwd(p)[i] = IF i \in here(p) THEN next(i) ELSE h[p].forward_[i]
    BY <2>1
  <2> HIDE DEF fwd
  <2> QED BY <2>1, <2>2
<1> QED BY <1>3, <1>4, <1>5 DEF Bypassed

\* The heap g is a skip list of the nodes of h but the given one.
Without(g, h, node) ==
  /\ HeapOK(g) /\ Ordered(g)
  /\ DOMAIN g = DOMAIN h \ {node} /\ Nodes(g) = Nodes(h) \ {node}
  /\ \A p \in Nodes(g) : /\ g[p].ele_ = h[p].ele_ /\ g[p].score_ = h[p].score_
                         /\ g[p].level_ = h[p].level_

\* Unlinking a node leaves a skip list without it.
LEMMA UnlinkSound ==
  ASSUME NEW h, HeapOK(h), Ordered(h), NEW node \in Nodes(h),
         NEW top \in h[node].level_..MaxLevel,
         NEW passed, Passes(h, passed, h[node].score_, h[node].ele_),
         NEW update, update = Update(h, top, passed),
         NEW g, g = Unlink(h, update, h[node].level_ - 1, node)
  PROVE  Without(g, h, node)
<1> DEFINE lv == h[node].level_
<1>1. /\ lv \in 1..MaxLevel
      /\ \A i \in 0..lv - 1 : update[i] \in DOMAIN h \ {node}
                              /\ h[update[i]].forward_[i] = node
      /\ \A p \in DOMAIN h : \A i \in 0..h[p].level_ - 1 :
           h[p].forward_[i] = node => i \in 0..lv - 1 /\ p = update[i]
  BY DeleteSearch
<1>2. /\ g = [p \in DOMAIN h \ {node} |-> g[p]]
      /\ \A p \in DOMAIN h \ {node} :
           /\ NodeOK(g[p])
           /\ g[p].ele_ = h[p].ele_ /\ g[p].score_ = h[p].score_
           /\ g[p].level_ = h[p].level_
           /\ \A i \in 0..h[p].level_ - 1 :
                g[p].forward_[i] = IF i \in 0..lv - 1 /\ update[i] = p
                                   THEN h[node].forward_[i] ELSE h[p].forward_[i]
  <2>1. \A i \in 0..h[node].level_ - 1 : update[i] \in DOMAIN h
    BY <1>1
  <2>2. Bypassed(g, h, update, node)
    BY <1>1, <2>1, UnlinkFields
  <2> QED BY <2>2 DEF Bypassed
<1>3. DOMAIN g = DOMAIN h \ {node} /\ Nodes(g) = Nodes(h) \ {node}
  BY <1>2 DEF Nodes
<1>4. Header \in DOMAIN g /\ node # Header
  BY <1>3 DEF HeapOK, Nodes
<1>5. HeapOK(g)
  <2>1. \A p \in Nodes(g) : p \in Nodes(h) /\ p \in DOMAIN h \ {node}
    BY <1>3 DEF Nodes
  <2> QED BY <1>2, <1>3, <1>4, <2>1 DEF HeapOK
<1>6. \A p \in DOMAIN g, r \in Nodes(g) : Precedes(g, p, r) <=> Precedes(h, p, r)
  <2>1. \A r \in Nodes(g) : g[r].ele_ = h[r].ele_ /\ g[r].score_ = h[r].score_
    BY <1>2, <1>3 DEF Nodes
  <2>2. \A p \in DOMAIN g : g[p].ele_ = h[p].ele_ /\ g[p].score_ = h[p].score_
    BY <1>2, <1>3
  <2> QED BY <2>1, <2>2 DEF Precedes, Before
<1>7. \A r \in Nodes(g) : g[r].level_ = h[r].level_ /\ r \in Nodes(h) /\ r # node
  BY <1>2, <1>3 DEF Nodes
<1>8. ASSUME NEW p \in DOMAIN g, NEW i \in 0..g[p].level_ - 1
      PROVE  Follows(g, i, p, g[p].forward_[i])
  <2>1. p \in DOMAIN h /\ p # node /\ g[p].level_ = h[p].level_ /\ i \in 0..h[p].level_ - 1
    BY <1>2, <1>3
  <2> DEFINE n == h[p].forward_[i]
  <2>2. Follows(h, i, p, n)
    BY <2>1 DEF Ordered
  <2>3. CASE n = node
    <3> DEFINE nn == h[node].forward_[i]
    <3>1. i \in 0..lv - 1 /\ p = update[i]
      BY <1>1, <2>1, <2>3
    <3>2. g[p].forward_[i] = nn
      BY <1>2, <1>3, <2>1, <3>1
    <3>3. Follows(h, i, node, nn) /\ node \in DOMAIN h
      BY <3>1 DEF Ordered, Nodes
    <3> HIDE DEF nn, n
    <3>4. /\ Precedes(h, p, node)
          /\ \A r \in Nodes(h) :
               h[r].level_ > i /\ Precedes(h, p, r) => r = node \/ Precedes(h, node, r)
      BY <2>2, <2>3, NodeOrder DEF Follows
    <3>5. CASE nn = Null
      <4>1. \A r \in Nodes(h) : h[r].level_ > i => ~Precedes(h, node, r)
        BY <3>3, <3>5, NodeOrder DEF Follows
      <4>2. \A r \in Nodes(g) : g[r].level_ > i => ~Precedes(g, p, r)
        BY <1>6, <1>7, <3>4, <4>1
      <4> QED BY <3>2, <3>5, <4>2 DEF Follows
    <3>6. CASE nn # Null
      <4>1. /\ nn \in Nodes(h) /\ h[nn].level_ > i /\ Precedes(h, node, nn)
            /\ \A r \in Nodes(h) :
                 h[r].level_ > i /\ Precedes(h, node, r) => r = nn \/ Precedes(h, nn, r)
        BY <3>3, <3>6 DEF Follows
      <4>2. nn # node /\ Precedes(h, p, nn)
        BY <2>1, <3>4, <4>1, NodeOrder
      <4>3. nn \in Nodes(g) /\ nn \in DOMAIN g
        BY <1>3, <4>1, <4>2 DEF Nodes
      <4>4. g[nn].level_ > i /\ Precedes(g, p, nn)
        BY <1>6, <1>7, <4>1, <4>2, <4>3
      <4>5. \A r \in Nodes(g) :
              g[r].level_ > i /\ Precedes(g, p, r) => r = nn \/ Precedes(g, nn, r)
        BY <1>6, <1>7, <3>4, <4>1, <4>3
      <4> QED BY <3>2, <4>3, <4>4, <4>5 DEF Follows
    <3> QED BY <3>5, <3>6
  <2>4. CASE n # node
    <3>1. g[p].forward_[i] = n
      BY <1>1, <1>2, <1>3, <2>1, <2>4
    <3> HIDE DEF n
    <3>2. CASE n = Null
      <4>1. \A r \in Nodes(h) : h[r].level_ > i => ~Precedes(h, p, r)
        BY <2>2, <3>2, NodeOrder DEF Follows
      <4> QED BY <1>6, <1>7, <3>1, <3>2, <4>1 DEF Follows
    <3>3. CASE n # Null
      <4>1. /\ n \in Nodes(h) /\ h[n].level_ > i /\ Precedes(h, p, n)
            /\ \A r \in Nodes(h) :
                 h[r].level_ > i /\ Precedes(h, p, r) => r = n \/ Precedes(h, n, r)
        BY <2>2, <3>3 DEF Follows
      <4>2. n \in Nodes(g) /\ n \in DOMAIN g
        BY <1>3, <2>4, <4>1 DEF Nodes
      <4> QED BY <1>6, <1>7, <3>1, <4>1, <4>2 DEF Follows
    <3> QED BY <3>2, <3>3
  <2> QED BY <2>3, <2>4
<1>9. Ordered(g)
  BY <1>8 DEF Ordered
<1> QED BY <1>2, <1>3, <1>5, <1>7, <1>9 DEF Nodes, Without

-----------------------------------------------------------------------------
(***************************************************************************)
(* The object.                                                             *)
(***************************************************************************)

\* The hash index leads from the member of every node to the node.
Indexes(l) ==
  /\ l.node_map_ = [m \in DOMAIN l.node_map_ |-> l.node_map_[m]]
  /\ DOMAIN l.node_map_ = {l.heap[p].ele_ : p \in Nodes(l.heap)}
  /\ \A p \in Nodes(l.heap) : l.node_map_[l.heap[p].ele_] = p

\* The invariant of a list object: its heap is a skip list of at most level_
\* levels, indexed and counted.
ListOK(l) ==
  /\ l = [heap |-> l.heap, tail_ |-> l.tail_, length_ |-> l.length_,
          level_ |-> l.level_, node_map_ |-> l.node_map_,
          lru_cache_ |-> l.lru_cache_]
  /\ HeapOK(l.heap) /\ Ordered(l.heap)
  /\ l.tail_ \in Addr \cup {Header, Null}
  /\ l.level_ \in 0..MaxLevel
  /\ \A p \in Nodes(l.heap) : l.heap[p].level_ <= l.level_
  /\ l.length_ = Cardinality(Nodes(l.heap))
  /\ Indexes(l)

\* What the index leads to.
LEMMA IndexedNode ==
  ASSUME NEW l, ListOK(l), NEW m \in DOMAIN l.node_map_
  PROVE  /\ l.node_map_[m] \in Nodes(l.heap) /\ l.heap[l.node_map_[m]].ele_ = m
         /\ m \in Member /\ l.heap[l.node_map_[m]].score_ \in Score
<1>1. PICK p \in Nodes(l.heap) : m = l.heap[p].ele_
  BY DEF ListOK, Indexes
<1>2. l.node_map_[m] = p
  BY <1>1 DEF ListOK, Indexes
<1> QED BY <1>1, <1>2 DEF ListOK, HeapOK

\* What deleting the member m does to an object whose other fields it keeps.
Deleted(d, l, m) ==
  /\ ListOK(d)
  /\ DOMAIN d.heap \subseteq DOMAIN l.heap
  /\ DOMAIN d.node_map_ = DOMAIN l.node_map_ \ {m}
  /\ ScoreView(d) = [x \in Member |-> IF x = m THEN Absent ELSE ScoreView(l)[x]]

\* Either deletion keeps the invariant and deletes the member, from the list
\* and from the cache.
LEMMA DeleteNodeSound ==
  ASSUME NEW l, ListOK(l), NEW m \in DOMAIN l.node_map_,
         NEW passed, Passes(l.heap, passed, ScoreOf(l, m), m)
  PROVE  /\ Deleted(DeleteNode(l, m, passed), l, m)
         /\ DeleteNode(l, m, passed).lru_cache_ = remove(l.lru_cache_, m)
<1> DEFINE h == l.heap
           node == l.node_map_[m]
           s == h[node].score_
           update == Update(h, l.level_, passed)
           g == Unlink(h, update, h[node].level_ - 1, node)
           tl == IF h[node].forward_[0] = Null THEN update[0] ELSE l.tail_
           map == Restrict(l.node_map_, DOMAIN l.node_map_ \ {m})
           d == DeleteNode(l, m, passed)
<1>1. node \in Nodes(h) /\ h[node].ele_ = m /\ m \in Member /\ s \in Score
  BY IndexedNode
<1>2. HeapOK(h) /\ Ordered(h)
  BY DEF ListOK
<1>3. h[node].level_ \in 1..MaxLevel /\ l.level_ \in h[node].level_..MaxLevel
  <2>1. h[node].level_ \in 1..MaxLevel
    BY <1>1, <1>2 DEF HeapOK, NodeOK, Nodes
  <2>2. h[node].level_ <= l.level_ /\ l.level_ \in 0..MaxLevel
    BY <1>1 DEF ListOK
  <2> QED BY <2>1, <2>2, LevelAssumption
<1>0. Passes(h, passed, s, m)
  BY DEF ScoreOf
<1> HIDE DEF node, update
<1>4. /\ \A i \in 0..h[node].level_ - 1 :
           update[i] \in DOMAIN h \ {node} /\ h[update[i]].forward_[i] = node
      /\ TopLevel(h, update, s, m) = h[node].level_ - 1
  BY <1>0, <1>1, <1>2, <1>3, DeleteSearch DEF update
<1>5. h[update[0]].forward_[0] = node /\ update[0] \in DOMAIN h
  <2>1. 0 \in 0..h[node].level_ - 1
    BY <1>3, LevelAssumption
  <2> QED BY <1>4, <2>1
<1>6. /\ HeapOK(g) /\ Ordered(g)
      /\ DOMAIN g = DOMAIN h \ {node} /\ Nodes(g) = Nodes(h) \ {node}
      /\ \A p \in Nodes(g) : /\ g[p].ele_ = h[p].ele_ /\ g[p].score_ = h[p].score_
                             /\ g[p].level_ = h[p].level_
  <2> HIDE DEF h, g
  <2>1. update = Update(h, l.level_, passed) /\ Passes(h, passed, h[node].score_, h[node].ele_)
    BY <1>0, <1>1 DEF update
  <2>2. g = Unlink(h, update, h[node].level_ - 1, node)
    BY DEF g
  <2>3. Without(g, h, node)
    BY <1>1, <1>2, <1>3, <2>1, <2>2, UnlinkSound
  <2> QED BY <2>3 DEF Without
<1> HIDE DEF g, map, tl
<1>7. d = [l EXCEPT !.heap = g, !.tail_ = tl, !.length_ = l.length_ - 1,
                    !.node_map_ = map, !.lru_cache_ = remove(l.lru_cache_, m)]
  <2>1. d = [l EXCEPT
              !.heap = Unlink(h, update, TopLevel(h, update, s, m),
                              h[update[0]].forward_[0]),
              !.tail_ = IF h[h[update[0]].forward_[0]].forward_[0] = Null
                        THEN update[0] ELSE l.tail_,
              !.length_ = l.length_ - 1,
              !.node_map_ = Restrict(l.node_map_, DOMAIN l.node_map_ \ {m}),
              !.lru_cache_ = remove(l.lru_cache_, m)]
    BY DEF DeleteNode, ReleaseNode, ScoreOf, update, node
  <2> HIDE DEF d, h
  <2> QED BY <1>4, <1>5, <2>1, Zenon DEF g, tl, map
<1> HIDE DEF d
<1>8. /\ d = [heap |-> g, tail_ |-> tl, length_ |-> l.length_ - 1,
              level_ |-> l.level_, node_map_ |-> map,
              lru_cache_ |-> remove(l.lru_cache_, m)]
  BY <1>7 DEF ListOK
<1>9. /\ d.heap = g /\ d.tail_ = tl /\ d.length_ = l.length_ - 1
      /\ d.level_ = l.level_ /\ d.node_map_ = map
      /\ d.lru_cache_ = remove(l.lru_cache_, m)
  BY <1>8
<1>10. tl \in Addr \cup {Header, Null}
  BY <1>2, <1>5 DEF tl, ListOK, HeapOK, Nodes
<1>11. l.length_ - 1 = Cardinality(Nodes(g))
  <2>1. IsFiniteSet(Nodes(h))
    BY <1>2, DistanceFalls
  <2>2. Cardinality(Nodes(h) \ {node}) = Cardinality(Nodes(h)) - 1
    BY <1>1, <2>1, FS_RemoveElement
  <2> QED BY <1>6, <2>2 DEF ListOK
<1>12. \A p \in Nodes(g) : g[p].level_ <= l.level_
  BY <1>6 DEF ListOK
<1>13. /\ DOMAIN map = DOMAIN l.node_map_ \ {m}
       /\ map = [x \in DOMAIN map |-> map[x]]
       /\ \A x \in DOMAIN map : map[x] = l.node_map_[x]
  BY DEF map, Restrict
<1>14. \A p \in Nodes(g) : p \in Nodes(h) /\ h[p].ele_ # m
  BY <1>1, <1>2, <1>6 DEF HeapOK
<1>15. DOMAIN map = {g[p].ele_ : p \in Nodes(g)} /\ \A p \in Nodes(g) : map[g[p].ele_] = p
  <2>1. /\ DOMAIN l.node_map_ = {h[p].ele_ : p \in Nodes(h)}
        /\ \A p \in Nodes(h) : l.node_map_[h[p].ele_] = p
    BY DEF ListOK, Indexes
  <2>2. ASSUME NEW x \in DOMAIN map PROVE x \in {g[p].ele_ : p \in Nodes(g)}
    <3>1. x \in DOMAIN l.node_map_ /\ x # m
      BY <1>13
    <3>2. PICK p \in Nodes(h) : x = h[p].ele_
      BY <2>1, <3>1
    <3>3. p \in Nodes(g) /\ g[p].ele_ = x
      BY <1>1, <1>6, <3>1, <3>2
    <3> QED BY <3>3
  <2>3. ASSUME NEW p \in Nodes(g) PROVE g[p].ele_ \in DOMAIN map /\ map[g[p].ele_] = p
    <3>1. g[p].ele_ = h[p].ele_ /\ p \in Nodes(h) /\ h[p].ele_ # m
      BY <1>6, <1>14
    <3>2. h[p].ele_ \in DOMAIN l.node_map_ /\ l.node_map_[h[p].ele_] = p
      BY <2>1, <3>1
    <3> QED BY <1>13, <3>1, <3>2
  <2> QED BY <2>2, <2>3
<1>16. Indexes(d)
  BY <1>9, <1>13, <1>15 DEF Indexes
<1>17. ListOK(d)
  <2>1. l.level_ \in 0..MaxLevel
    BY DEF ListOK
  <2> QED BY <1>6, <1>8, <1>9, <1>10, <1>11, <1>12, <1>16, <2>1 DEF ListOK
<1>18. ScoreView(d) = [x \in Member |-> IF x = m THEN Absent ELSE ScoreView(l)[x]]
  <2>1. ASSUME NEW x \in Member
        PROVE  ScoreView(d)[x] = IF x = m THEN Absent ELSE ScoreView(l)[x]
    <3>1. ScoreView(d)[x] = IF x \in DOMAIN map THEN g[map[x]].score_ ELSE Absent
      BY <1>9 DEF ScoreView
    <3>2. ScoreView(l)[x] = IF x \in DOMAIN l.node_map_
                            THEN h[l.node_map_[x]].score_ ELSE Absent
      BY DEF ScoreView
    <3>3. x \in DOMAIN map => map[x] \in Nodes(g) /\ map[x] = l.node_map_[x]
      BY <1>13, <1>15
    <3>4. x \in DOMAIN map => g[map[x]].score_ = h[l.node_map_[x]].score_
      BY <1>6, <3>3
    <3> QED BY <1>13, <3>1, <3>2, <3>4
  <2> QED BY <2>1 DEF ScoreView
<1> QED BY <1>6, <1>9, <1>13, <1>17, <1>18 DEF Deleted, d

-----------------------------------------------------------------------------
(***************************************************************************)
(* Insertion.                                                              *)
(***************************************************************************)

\* The heap g is h with a node for (m, s) at a, which has taken the place of
\* its successors in forward_[i] of update[i], on its lv levels.
Spliced(g, h, update, a, m, s, lv) ==
  /\ g = [p \in DOMAIN h \cup {a} |-> g[p]]
  /\ NodeOK(g[a]) /\ g[a].ele_ = m /\ g[a].score_ = s /\ g[a].level_ = lv
  /\ \A i \in 0..lv - 1 : g[a].forward_[i] = h[update[i]].forward_[i]
  /\ \A p \in DOMAIN h :
       /\ NodeOK(g[p])
       /\ g[p].ele_ = h[p].ele_ /\ g[p].score_ = h[p].score_
       /\ g[p].level_ = h[p].level_
       /\ \A i \in 0..h[p].level_ - 1 :
            g[p].forward_[i] = IF i \in 0..lv - 1 /\ update[i] = p
                               THEN a ELSE h[p].forward_[i]

\* What the loops that link a node write.
LEMMA LinkFields ==
  ASSUME NEW h, HeapOK(h), NEW a \in Addr, a \notin DOMAIN h,
         NEW s \in Score, NEW m \in Member, NEW lv \in 1..MaxLevel,
         NEW update, NEW rank,
         \A i \in Levels : update[i] \in Tall(h, i) /\ rank[i] \in 0..UintMod - 1,
         NEW g, g = Link(h, update, rank, a, m, s, lv)
  PROVE  Spliced(g, h, update, a, m, s, lv)
<1> DEFINE next == NextAfterLoop(h, update, lv)
           here(p) == {i \in 0..lv - 1 : update[i] = p}
           nf == [i \in 0..lv - 1 |-> h[update[i]].forward_[i]]
           ns == [i \in 0..lv - 1 |->
                    Uint(h[update[i]].span_[i] - (rank[0] - rank[i]))]
           nb == IF update[0] = Header THEN Null ELSE update[0]
           fwd(p) == [i \in DOMAIN h[p].forward_ |->
                        IF i \in here(p) THEN a ELSE h[p].forward_[i]]
           spn(p) == [i \in DOMAIN h[p].span_ |->
                        IF i \in here(p) THEN Uint(rank[0] - rank[i] + 1)
                        ELSE h[p].span_[i]]
           bwd(p) == IF p = next THEN a ELSE h[p].backward_
<1>1. g = [p \in DOMAIN h \cup {a} |->
             IF p = a THEN Node(m, s, lv, nf, ns, nb)
             ELSE Rewrite(h[p], fwd(p), spn(p), bwd(p))]
  BY DEF Link, Rewrite
<1>2. /\ lv \in Nat /\ 0 \in 0..lv - 1 /\ 0 \in Levels
      /\ \A i \in 0..lv - 1 : i \in Levels
  BY LevelAssumption DEF Levels
<1>3. DOMAIN h \subseteq Addr \cup {Header}
  BY DEF HeapOK, Nodes
<1>4. \A i \in Levels : rank[i] \in Int
  BY UintAssumption
<1>5. ASSUME NEW i \in 0..lv - 1
      PROVE  /\ update[i] \in DOMAIN h
             /\ h[update[i]].forward_[i] \in Addr \cup {Null}
             /\ h[update[i]].span_[i] \in Int
  <2> DEFINE u == update[i]
  <2>1. u \in DOMAIN h /\ h[u].level_ > i /\ NodeOK(h[u])
    BY <1>2 DEF Tall, HeapOK
  <2>2. i \in 0..h[u].level_ - 1
    BY <1>2, <2>1, LevelAssumption DEF NodeOK
  <2> HIDE DEF u
  <2>3. h[u].forward_[i] \in Addr \cup {Null} /\ h[u].span_[i] \in 0..UintMod - 1
    BY <2>1, <2>2 DEF NodeOK
  <2>4. \A x \in 0..UintMod - 1 : x \in Int
    BY UintAssumption
  <2> QED BY <2>1, <2>3, <2>4 DEF u
<1>6. NodeOK(Node(m, s, lv, nf, ns, nb))
  <2>1. nf \in [0..lv - 1 -> Addr \cup {Null}]
    BY <1>5
  <2>2. ns \in [0..lv - 1 -> 0..UintMod - 1]
    <3>1. \A i \in 0..lv - 1 :
            Uint(h[update[i]].span_[i] - (rank[0] - rank[i])) \in 0..UintMod - 1
      BY <1>2, <1>4, <1>5, UintRange
    <3> QED BY <3>1
  <2>3. nb \in Addr \cup {Header, Null}
    BY <1>2, <1>3, <1>5
  <2> HIDE DEF nf, ns, nb
  <2> QED BY <2>1, <2>2, <2>3 DEF NodeOK, Node
<1>7. /\ g[a] = Node(m, s, lv, nf, ns, nb)
      /\ g[a].ele_ = m /\ g[a].score_ = s /\ g[a].level_ = lv /\ g[a].forward_ = nf
  <2>1. g[a] = Node(m, s, lv, nf, ns, nb)
    BY <1>1
  <2> HIDE DEF nf, ns, nb
  <2> QED BY <2>1 DEF Node
<1>8. ASSUME NEW p \in DOMAIN h
      PROVE  /\ NodeOK(g[p])
             /\ g[p].ele_ = h[p].ele_ /\ g[p].score_ = h[p].score_
             /\ g[p].level_ = h[p].level_ /\ g[p].forward_ = fwd(p)
             /\ DOMAIN h[p].forward_ = 0..h[p].level_ - 1
  <2>1. NodeOK(h[p])
    BY DEF HeapOK
  <2>2. g[p] = Rewrite(h[p], fwd(p), spn(p), bwd(p))
    <3> HIDE DEF fwd, spn, bwd, nf, ns, nb
    <3> QED BY <1>1
  <2>3. /\ g[p] = Node(h[p].ele_, h[p].score_, h[p].level_, fwd(p), spn(p), bwd(p))
        /\ g[p].ele_ = h[p].ele_ /\ g[p].score_ = h[p].score_
        /\ g[p].level_ = h[p].level_ /\ g[p].forward_ = fwd(p)
        /\ g[p].span_ = spn(p) /\ g[p].backward_ = bwd(p)
    <3> HIDE DEF fwd, spn, bwd
    <3> QED BY <2>1, <2>2, RewrittenNode
  <2>4. /\ h[p].forward_ \in [0..h[p].level_ - 1 -> Addr \cup {Null}]
        /\ h[p].span_ \in [0..h[p].level_ - 1 -> 0..UintMod - 1]
        /\ h[p].backward_ \in Addr \cup {Header, Null}
        /\ h[p].level_ \in 1..MaxLevel
    BY <2>1 DEF NodeOK
  <2>5. fwd(p) \in [0..h[p].level_ - 1 -> Addr \cup {Null}]
    <3> HIDE DEF here
    <3> QED BY <2>4
  <2>6. spn(p) \in [0..h[p].level_ - 1 -> 0..UintMod - 1]
    <3>1. ASSUME NEW i \in 0..h[p].level_ - 1, i \in here(p)
          PROVE  Uint(rank[0] - rank[i] + 1) \in 0..UintMod - 1
      <4>1. rank[0] \in Int /\ rank[i] \in Int
        BY <1>2, <1>4, <3>1
      <4> QED BY <4>1, UintRange
    <3> HIDE DEF here
    <3> QED BY <2>4, <3>1
  <2>7. bwd(p) \in Addr \cup {Header, Null}
    BY <2>4
  <2> HIDE DEF fwd, spn, bwd
  <2> QED BY <2>3, <2>4, <2>5, <2>6, <2>7 DEF NodeOK
<1>9. g = [p \in DOMAIN h \cup {a} |-> g[p]]
  <2> HIDE DEF fwd, spn, bwd, nf, ns, nb
  <2> QED BY <1>1
<1>10. ASSUME NEW p \in DOMAIN h, NEW i \in 0..h[p].level_ - 1
       PROVE  g[p].forward_[i] = IF i \in 0..lv - 1 /\ update[i] = p
                                 THEN a ELSE h[p].forward_[i]
  <2>1. g[p].forward_ = fwd(p) /\ i \in DOMAIN h[p].forward_
    BY <1>8
  <2>2. fwd(p)[i] = IF i \in here(p) THEN a ELSE h[p].forward_[i]
    BY <2>1
  <2> HIDE DEF fwd
  <2> QED BY <2>1, <2>2
<1>11. \A i \in 0..lv - 1 : g[a].forward_[i] = h[update[i]].forward_[i]
  BY <1>7
<1> HIDE DEF nf, ns, nb
<1> QED BY <1>6, <1>7, <1>8, <1>9, <1>10, <1>11 DEF Spliced

\* The heap g is a skip list of the nodes of h and one at a for (s, m).
With(g, h, a, m, s, lv) ==
  /\ HeapOK(g) /\ Ordered(g)
  /\ DOMAIN g = DOMAIN h \cup {a} /\ Nodes(g) = Nodes(h) \cup {a}
  /\ g[a].ele_ = m /\ g[a].score_ = s /\ g[a].level_ = lv
  /\ \A p \in Nodes(h) : /\ g[p].ele_ = h[p].ele_ /\ g[p].score_ = h[p].score_
                         /\ g[p].level_ = h[p].level_

\* Linking a node for a member that has none leaves a skip list with it.
LEMMA LinkSound ==
  ASSUME NEW h, HeapOK(h), Ordered(h), NEW a \in Addr, a \notin DOMAIN h,
         NEW s \in Score, NEW m \in Member, NEW lv \in 1..MaxLevel,
         \A p \in Nodes(h) : h[p].ele_ # m,
         NEW update, \A i \in Levels : IsPred(h, i, update[i], s, m),
         NEW g, Spliced(g, h, update, a, m, s, lv)
  PROVE  With(g, h, a, m, s, lv)
<1> DEFINE U(p) == p = Header \/ Before(h, p, s, m)
<1>1. /\ g = [p \in DOMAIN h \cup {a} |-> g[p]]
      /\ NodeOK(g[a]) /\ g[a].ele_ = m /\ g[a].score_ = s /\ g[a].level_ = lv
      /\ \A i \in 0..lv - 1 : g[a].forward_[i] = h[update[i]].forward_[i]
  BY DEF Spliced
<1>2. ASSUME NEW p \in DOMAIN h
      PROVE  /\ NodeOK(g[p])
             /\ g[p].ele_ = h[p].ele_ /\ g[p].score_ = h[p].score_
             /\ g[p].level_ = h[p].level_
             /\ \A i \in 0..h[p].level_ - 1 :
                  g[p].forward_[i] = IF i \in 0..lv - 1 /\ update[i] = p
                                     THEN a ELSE h[p].forward_[i]
  BY DEF Spliced
<1>3. DOMAIN g = DOMAIN h \cup {a} /\ Nodes(g) = Nodes(h) \cup {a}
  BY <1>1, AddrAssumption DEF Nodes
<1>4. /\ \A p \in Nodes(h) : /\ h[p].ele_ \in Int /\ h[p].score_ \in Int
                             /\ p # Header /\ p # Null /\ p # a /\ p \in DOMAIN h
      /\ s \in Int /\ m \in Int /\ a # Null /\ a # Header
      /\ \A p \in DOMAIN h : p = Header \/ p \in Nodes(h)
  BY AddrAssumption, KeyOrderAssumption, ScoreAssumption
     DEF HeapOK, Nodes, Member, Score
<1>5. \A i \in 0..lv - 1 : i \in Levels /\ lv > i
  BY LevelAssumption DEF Levels
<1>6. HeapOK(g)
  <2>1. \A p \in Nodes(g) : p = a \/ (p \in Nodes(h) /\ p \in DOMAIN h)
    BY <1>3, <1>4
  <2>2. Header \in DOMAIN h /\ h[Header].level_ = MaxLevel
    BY DEF HeapOK
  <2>3. g[Header].level_ = MaxLevel
    BY <1>2, <2>2
  <2>4. \A p \in Nodes(g) : p \in Addr /\ g[p].ele_ \in Member /\ g[p].score_ \in Score
    BY <1>1, <1>2, <2>1 DEF HeapOK
  <2>5. \A p, q \in Nodes(g) : g[p].ele_ = g[q].ele_ => p = q
    <3>1. \A p \in Nodes(h) : g[p].ele_ = h[p].ele_ /\ h[p].ele_ # m
      BY <1>2, <1>4
    <3>2. \A p, q \in Nodes(h) : h[p].ele_ = h[q].ele_ => p = q
      BY DEF HeapOK
    <3> QED BY <1>1, <2>1, <3>1, <3>2
  <2> QED BY <1>1, <1>2, <1>3, <2>2, <2>3, <2>4, <2>5 DEF HeapOK
<1>7. \A p \in DOMAIN h, r \in Nodes(h) : Precedes(g, p, r) <=> Precedes(h, p, r)
  BY <1>2, <1>4 DEF Precedes, Before
<1>8. \A p \in DOMAIN h : Precedes(g, p, a) <=> U(p)
  BY <1>1, <1>2, <1>4 DEF Precedes, Before
<1>9. \A r \in Nodes(h) : Precedes(g, a, r) <=> ~Before(h, r, s, m)
  BY <1>1, <1>2, <1>4 DEF Precedes, Before
<1>10. ~Precedes(g, a, a)
  BY <1>1, <1>4 DEF Precedes, Before
<1>11. \A p \in DOMAIN h, r \in Nodes(h) :
         U(p) /\ ~Before(h, r, s, m) => Precedes(h, p, r)
  BY <1>4, KeyOrder DEF Precedes
<1>12. \A r \in Nodes(h) : g[r].level_ = h[r].level_ /\ r \in Nodes(g) /\ r # a
  BY <1>2, <1>3, <1>4
<1>13. \A r \in Nodes(g) : r = a \/ r \in Nodes(h)
  BY <1>3
<1> HIDE DEF U
<1>14. ASSUME NEW i \in 0..lv - 1 PROVE Follows(g, i, a, g[a].forward_[i])
  <2> DEFINE u == update[i]
             n == h[u].forward_[i]
  <2>1. /\ u \in DOMAIN h /\ U(u)
        /\ \A r \in Nodes(h) : h[r].level_ > i /\ Precedes(h, u, r) => ~Before(h, r, s, m)
    BY <1>5 DEF IsPred, Tall, U
  <2>2. Follows(h, i, u, n)
    <3>1. IsPred(h, i, u, s, m) /\ i \in Levels
      BY <1>5
    <3>2. u \in Tall(h, i)
      BY <3>1 DEF IsPred
    <3> HIDE DEF u
    <3> QED BY <3>1, <3>2, NextNode
  <2>3. g[a].forward_[i] = n
    BY <1>1
  <2> HIDE DEF n, u
  <2>4. CASE n = Null
    <3>1. \A r \in Nodes(h) : h[r].level_ > i => ~Precedes(h, u, r)
      BY <1>4, <2>2, <2>4 DEF Follows
    <3>2. \A r \in Nodes(g) : g[r].level_ > i => ~Precedes(g, a, r)
      BY <1>9, <1>10, <1>11, <1>12, <1>13, <2>1, <3>1
    <3> QED BY <2>3, <2>4, <3>2 DEF Follows
  <2>5. CASE n # Null
    <3>1. /\ n \in Nodes(h) /\ h[n].level_ > i /\ Precedes(h, u, n)
          /\ \A r \in Nodes(h) :
               h[r].level_ > i /\ Precedes(h, u, r) => r = n \/ Precedes(h, n, r)
      BY <2>2, <2>5 DEF Follows
    <3>2. n \in Nodes(g) /\ g[n].level_ > i /\ Precedes(g, a, n) /\ n \in DOMAIN h
      BY <1>4, <1>9, <1>12, <2>1, <3>1
    <3>3. \A r \in Nodes(g) :
            g[r].level_ > i /\ Precedes(g, a, r) => r = n \/ Precedes(g, n, r)
      BY <1>7, <1>9, <1>10, <1>11, <1>12, <1>13, <2>1, <3>1, <3>2
    <3> QED BY <2>3, <3>2, <3>3 DEF Follows
  <2> QED BY <2>4, <2>5
<1>15. ASSUME NEW p \in DOMAIN h, NEW i \in 0..h[p].level_ - 1, i \in 0..lv - 1, update[i] = p
       PROVE  Follows(g, i, p, g[p].forward_[i])
  <2>1. g[p].forward_[i] = a
    BY <1>2, <1>15
  <2>2. /\ U(p)
        /\ \A r \in Nodes(h) : h[r].level_ > i /\ Precedes(h, p, r) => ~Before(h, r, s, m)
    BY <1>5, <1>15 DEF IsPred, U
  <2>3. a \in Nodes(g) /\ g[a].level_ > i /\ Precedes(g, p, a)
    BY <1>1, <1>3, <1>5, <1>8, <1>15, <2>2
  <2>4. \A r \in Nodes(g) : g[r].level_ > i /\ Precedes(g, p, r) => r = a \/ Precedes(g, a, r)
    BY <1>7, <1>9, <1>12, <1>13, <2>2
  <2> QED BY <2>1, <2>3, <2>4 DEF Follows
<1>16. ASSUME NEW p \in DOMAIN h, NEW i \in 0..h[p].level_ - 1,
              ~(i \in 0..lv - 1 /\ update[i] = p)
       PROVE  Follows(g, i, p, g[p].forward_[i])
  <2> DEFINE n == h[p].forward_[i]
  <2>1. g[p].forward_[i] = n
    BY <1>2, <1>16
  <2>2. i \in Levels /\ p \in Tall(h, i) /\ i \in Nat
    <3>1. h[p].level_ \in 1..MaxLevel
      BY DEF HeapOK, NodeOK
    <3> QED BY <3>1, LevelAssumption DEF Levels, Tall
  <2>3. Follows(h, i, p, n)
    BY <2>2, NextNode
  <2>4. lv > i /\ U(p) => Before(h, n, s, m)
    <3> SUFFICES ASSUME lv > i, U(p), ~Before(h, n, s, m) PROVE FALSE
      OBVIOUS
    <3>1. IsPred(h, i, p, s, m)
      BY <2>2, StopIsPred DEF U
    <3>2. IsPred(h, i, update[i], s, m)
      BY <2>2
    <3>3. i \in 0..lv - 1
      BY <2>2, LevelAssumption
    <3> HIDE DEF n
    <3> QED BY <1>16, <3>1, <3>2, <3>3, PredUnique
  <2> HIDE DEF n
  <2>5. CASE n = Null
    <3>1. \A r \in Nodes(h) : h[r].level_ > i => ~Precedes(h, p, r)
      BY <1>4, <2>3, <2>5 DEF Follows
    <3>2. ~(lv > i /\ U(p))
      BY <2>4, <2>5 DEF Before
    <3>3. \A r \in Nodes(g) : g[r].level_ > i => ~Precedes(g, p, r)
      BY <1>1, <1>7, <1>8, <1>12, <1>13, <3>1, <3>2
    <3> QED BY <2>1, <2>5, <3>3 DEF Follows
  <2>6. CASE n # Null
    <3>1. /\ n \in Nodes(h) /\ h[n].level_ > i /\ Precedes(h, p, n)
          /\ \A r \in Nodes(h) :
               h[r].level_ > i /\ Precedes(h, p, r) => r = n \/ Precedes(h, n, r)
      BY <2>3, <2>6 DEF Follows
    <3>2. n \in Nodes(g) /\ g[n].level_ > i /\ Precedes(g, p, n) /\ n \in DOMAIN h
      BY <1>4, <1>7, <1>12, <3>1
    <3>3. lv > i /\ Precedes(g, p, a) => Precedes(g, n, a)
      BY <1>8, <2>4, <3>2 DEF U
    <3>4. \A r \in Nodes(g) :
            g[r].level_ > i /\ Precedes(g, p, r) => r = n \/ Precedes(g, n, r)
      BY <1>1, <1>7, <1>12, <1>13, <3>1, <3>2, <3>3
    <3> QED BY <2>1, <3>2, <3>4 DEF Follows
  <2> QED BY <2>5, <2>6
<1>17. Ordered(g)
  <2> SUFFICES ASSUME NEW p \in DOMAIN g, NEW i \in 0..g[p].level_ - 1
               PROVE  Follows(g, i, p, g[p].forward_[i])
    BY DEF Ordered
  <2>1. CASE p = a
    BY <1>1, <1>14, <2>1
  <2>2. CASE p # a
    <3>1. p \in DOMAIN h /\ i \in 0..h[p].level_ - 1
      BY <1>2, <1>3, <2>2
    <3> QED BY <1>15, <1>16, <3>1
  <2> QED BY <2>1, <2>2
<1> QED BY <1>1, <1>3, <1>6, <1>12, <1>17, <1>2, <1>4 DEF With

\* What inserting the member m with the score s does to an object that does
\* not hold it; the cache is not touched yet.
Inserted(d, l, m, s) ==
  /\ ListOK(d)
  /\ d.lru_cache_ = l.lru_cache_
  /\ ScoreView(d) = [ScoreView(l) EXCEPT ![m] = s]

\* The body of InsertElement, from the search to the update of the index.
LEMMA InsertNodeSound ==
  ASSUME NEW l, ListOK(l), NEW m \in Member, m \notin DOMAIN l.node_map_,
         NEW s \in Score, NEW a \in Addr \ DOMAIN l.heap, NEW lv \in 1..MaxLevel
  PROVE  Inserted(InsertNode(l, a, m, s, lv), l, m, s)
<1> DEFINE h == l.heap
           passed == PassedByInsert(h, s, m)
           update == Update(h, MaxLevel, passed)
           rank == Rank(h, update, passed)
           g == Link(h, update, rank, a, m, s, lv)
           tl == IF NextAfterLoop(h, update, lv) = Null THEN a ELSE l.tail_
           top == RaiseLevel(l.level_, lv)
           map == [x \in DOMAIN l.node_map_ \cup {m} |->
                     IF x = m THEN a ELSE l.node_map_[x]]
           d == InsertNode(l, a, m, s, lv)
<1>1. HeapOK(h) /\ Ordered(h) /\ a \in Addr /\ a \notin DOMAIN h
  BY DEF ListOK
<1>0. Passes(h, passed, s, m)
  BY <1>1, SameComparison
<1> HIDE DEF passed
<1>2. \A i \in Levels : IsPred(h, i, update[i], s, m)
  BY <1>0, <1>1, UpdateSound, LevelAssumption DEF Levels
<1> HIDE DEF update
<1>3. \A i \in Levels : rank[i] \in 0..UintMod - 1
  BY <1>0, <1>1, <1>2, RankSound
<1> HIDE DEF rank
<1>4. \A p \in Nodes(h) : h[p].ele_ # m
  BY DEF ListOK, Indexes
<1>5. With(g, h, a, m, s, lv)
  <2>1. \A i \in Levels : update[i] \in Tall(h, i) /\ rank[i] \in 0..UintMod - 1
    BY <1>2, <1>3 DEF IsPred
  <2>2. g = Link(h, update, rank, a, m, s, lv)
    OBVIOUS
  <2> HIDE DEF g, h
  <2>3. Spliced(g, h, update, a, m, s, lv)
    BY <1>1, <2>1, <2>2, LinkFields
  <2> QED BY <1>1, <1>2, <1>4, <2>3, LinkSound
<1>6. d = [l EXCEPT !.heap = g, !.tail_ = tl, !.length_ = l.length_ + 1,
                    !.level_ = top, !.node_map_ = map]
  BY DEF InsertNode, passed, update, rank
<1> HIDE DEF g, tl, top, map, d
<1>7. d = [heap |-> g, tail_ |-> tl, length_ |-> l.length_ + 1, level_ |-> top,
           node_map_ |-> map, lru_cache_ |-> l.lru_cache_]
  BY <1>6 DEF ListOK
<1>8. /\ d.heap = g /\ d.tail_ = tl /\ d.length_ = l.length_ + 1
      /\ d.level_ = top /\ d.node_map_ = map /\ d.lru_cache_ = l.lru_cache_
  BY <1>7
<1>9. tl \in Addr \cup {Header, Null}
  BY DEF tl, ListOK
<1>10. top \in 0..MaxLevel /\ l.level_ <= top /\ lv <= top
  <2>1. l.level_ \in 0..MaxLevel /\ l.level_ \in Int /\ lv \in Int
    BY LevelAssumption DEF ListOK
  <2>2. top = IF l.level_ < lv THEN lv ELSE l.level_
    BY <2>1 DEF top, RaiseLevel, Max
  <2> QED BY <2>1, <2>2, LevelAssumption
<1>11. /\ Nodes(g) = Nodes(h) \cup {a} /\ a \notin Nodes(h)
       /\ g[a].ele_ = m /\ g[a].score_ = s /\ g[a].level_ = lv
       /\ \A p \in Nodes(h) : /\ g[p].ele_ = h[p].ele_ /\ g[p].score_ = h[p].score_
                              /\ g[p].level_ = h[p].level_
  BY <1>1, <1>5 DEF With, Nodes
<1>12. l.length_ + 1 = Cardinality(Nodes(g))
  <2>1. IsFiniteSet(Nodes(h))
    BY <1>1, DistanceFalls
  <2>2. Cardinality(Nodes(h) \cup {a}) = Cardinality(Nodes(h)) + 1
    BY <1>11, <2>1, FS_AddElement
  <2> QED BY <1>11, <2>2 DEF ListOK
<1>13. \A p \in Nodes(g) : g[p].level_ <= top
  <2>1. \A p \in Nodes(h) : h[p].level_ <= l.level_ /\ h[p].level_ \in Int
    BY <1>1 DEF ListOK, HeapOK, NodeOK, Nodes
  <2>2. top \in Int /\ l.level_ \in Int
    BY <1>10, LevelAssumption DEF ListOK
  <2> QED BY <1>10, <1>11, <2>1, <2>2
<1>14. /\ DOMAIN map = DOMAIN l.node_map_ \cup {m}
       /\ map = [x \in DOMAIN map |-> map[x]]
       /\ map[m] = a
       /\ \A x \in DOMAIN l.node_map_ : x # m /\ map[x] = l.node_map_[x]
  BY DEF map
<1>15. /\ DOMAIN l.node_map_ = {h[p].ele_ : p \in Nodes(h)}
       /\ \A p \in Nodes(h) : h[p].ele_ \in DOMAIN l.node_map_ /\ l.node_map_[h[p].ele_] = p
  BY DEF ListOK, Indexes
<1>16. DOMAIN map = {g[p].ele_ : p \in Nodes(g)}
  BY <1>11, <1>14, <1>15
<1>17. \A p \in Nodes(g) : map[g[p].ele_] = p
  BY <1>11, <1>14, <1>15
<1>18. Indexes(d)
  BY <1>8, <1>14, <1>16, <1>17 DEF Indexes
<1>19. ListOK(d)
  <2>1. HeapOK(g) /\ Ordered(g)
    BY <1>5 DEF With
  <2> QED BY <1>7, <1>8, <1>9, <1>10, <1>12, <1>13, <1>18, <2>1 DEF ListOK
<1>20. ScoreView(d) = [ScoreView(l) EXCEPT ![m] = s]
  <2>1. ASSUME NEW x \in Member
        PROVE  ScoreView(d)[x] = IF x = m THEN s ELSE ScoreView(l)[x]
    <3>1. ScoreView(d)[x] = IF x \in DOMAIN map THEN g[map[x]].score_ ELSE Absent
      BY <1>8 DEF ScoreView
    <3>2. ScoreView(l)[x] = IF x \in DOMAIN l.node_map_
                            THEN h[l.node_map_[x]].score_ ELSE Absent
      BY DEF ScoreView
    <3>3. x \in DOMAIN l.node_map_ => l.node_map_[x] \in Nodes(h)
      BY IndexedNode
    <3> QED BY <1>11, <1>14, <3>1, <3>2, <3>3
  <2>2. /\ ScoreView(d) = [x \in Member |-> ScoreView(d)[x]]
        /\ DOMAIN ScoreView(l) = Member
    BY DEF ScoreView
  <2> QED BY <2>1, <2>2
<1> QED BY <1>8, <1>19, <1>20 DEF Inserted, d

-----------------------------------------------------------------------------
(***************************************************************************)
(* The methods, against the operators of module ZSet.                      *)
(***************************************************************************)

\* The members of the abstract set are those the index has.
LEMMA ViewFacts ==
  ASSUME NEW l, ListOK(l)
  PROVE  /\ ZSetView(l).score = ScoreView(l) /\ ZSetView(l).lru = l.lru_cache_
         /\ DOMAIN l.node_map_ \subseteq Member
         /\ Present(ZSetView(l)) = DOMAIN l.node_map_
         /\ \A m \in Member : ScoreView(l)[m] # Absent <=> m \in DOMAIN l.node_map_
         /\ \A m \in DOMAIN l.node_map_ :
              ScoreView(l)[m] = l.heap[l.node_map_[m]].score_ /\ ScoreView(l)[m] \in Score
<1>1. ZSetView(l).score = ScoreView(l) /\ ZSetView(l).lru = l.lru_cache_
  BY DEF ZSetView
<1>2. \A m \in DOMAIN l.node_map_ : m \in Member /\ l.heap[l.node_map_[m]].score_ \in Score
  BY IndexedNode
<1>3. \A m \in DOMAIN l.node_map_ :
        ScoreView(l)[m] = l.heap[l.node_map_[m]].score_ /\ ScoreView(l)[m] \in Score
  BY <1>2 DEF ScoreView
<1>4. \A m \in Member : ScoreView(l)[m] # Absent <=> m \in DOMAIN l.node_map_
  BY <1>3, AbsentAssumption DEF ScoreView, Score
<1> QED BY <1>1, <1>2, <1>3, <1>4 DEF Present

\* The methods of lru_cache_ change nothing else of the object.
LEMMA CacheStep ==
  ASSUME NEW l, ListOK(l), NEW c, NEW d, d = [l EXCEPT !.lru_cache_ = c]
  PROVE  /\ ListOK(d) /\ d.lru_cache_ = c /\ ScoreView(d) = ScoreView(l)
         /\ d.node_map_ = l.node_map_
         /\ ZSetView(d) = [ZSetView(l) EXCEPT !.lru = c]
<1>1. d = [heap |-> l.heap, tail_ |-> l.tail_, length_ |-> l.length_,
           level_ |-> l.level_, node_map_ |-> l.node_map_, lru_cache_ |-> c]
  BY DEF ListOK
<1>2. /\ d.heap = l.heap /\ d.tail_ = l.tail_ /\ d.length_ = l.length_
      /\ d.level_ = l.level_ /\ d.node_map_ = l.node_map_ /\ d.lru_cache_ = c
  BY <1>1
<1>3. Indexes(d)
  BY <1>2 DEF ListOK, Indexes
<1>4. ListOK(d)
  BY <1>1, <1>2, <1>3 DEF ListOK
<1>5. ScoreView(d) = ScoreView(l)
  BY <1>2 DEF ScoreView
<1>6. ZSetView(d) = [ZSetView(l) EXCEPT !.lru = c]
  BY <1>2, <1>5 DEF ZSetView
<1> QED BY <1>2, <1>4, <1>5, <1>6

\* DeleteElementInLock, for any key: a key that delete_keys holds may be
\* garbage.
LEMMA DeleteSound ==
  ASSUME NEW l, ListOK(l), NEW m, NEW d, d = DeleteElementInLock(l, m)
  PROVE  /\ Deleted(d, l, m)
         /\ d.lru_cache_ = IF m \in DOMAIN l.node_map_ THEN remove(l.lru_cache_, m)
                           ELSE l.lru_cache_
<1>1. CASE m \in DOMAIN l.node_map_
  <2>1. Passes(l.heap, PassedInLock(l.heap, ScoreOf(l, m), m), ScoreOf(l, m), m)
    BY SameComparison DEF ListOK
  <2> QED BY <1>1, <2>1, DeleteNodeSound DEF DeleteElementInLock
<1>2. CASE m \notin DOMAIN l.node_map_
  <2>1. d = l
    BY <1>2 DEF DeleteElementInLock
  <2>2. ScoreView(l) = [x \in Member |-> IF x = m THEN Absent ELSE ScoreView(l)[x]]
    BY <1>2 DEF ScoreView
  <2> QED BY <1>2, <2>1, <2>2 DEF Deleted
<1> QED BY <1>1, <1>2

\* Seen from outside it is the deletion of the sorted set.
LEMMA DeleteView ==
  ASSUME NEW l, ListOK(l), NEW m \in Member
  PROVE  ZSetView(DeleteElementInLock(l, m)) = Delete(ZSetView(l), m)
<1> DEFINE d == DeleteElementInLock(l, m)
<1>1. /\ ScoreView(d) = [x \in Member |-> IF x = m THEN Absent ELSE ScoreView(l)[x]]
      /\ d.lru_cache_ = IF m \in DOMAIN l.node_map_ THEN remove(l.lru_cache_, m)
                        ELSE l.lru_cache_
  BY DeleteSound DEF Deleted
<1>2. CASE m \in DOMAIN l.node_map_
  <2>1. ScoreView(d) = [ScoreView(l) EXCEPT ![m] = Absent]
    BY <1>1 DEF ScoreView
  <2> HIDE DEF d
  <2> QED BY <1>1, <1>2, <2>1, ViewFacts DEF Delete, ZSetView, d
<1>3. CASE m \notin DOMAIN l.node_map_
  BY <1>3, ViewFacts DEF Delete, DeleteElementInLock
<1> QED BY <1>2, <1>3

\* The values of the object after each of the n rounds over keys.
Rounds(g, l, keys, n) ==
  g = [i \in 0..n |-> IF i = 0 THEN l ELSE DeleteElementInLock(g[i - 1], keys[i])]

\* The loop over delete_keys defines a value after every round.
LEMMA DrainRecursion ==
  ASSUME NEW l, NEW keys, NEW n \in Nat
  PROVE  \E g : Rounds(g, l, keys, n)
<1> DEFINE ok(k, g) == g = [i \in 0..k |-> IF i = 0 THEN l
                              ELSE DeleteElementInLock(g[i - 1], keys[i])]
           T == {k \in Nat : \A g : ~ok(k, g)}
<1>1. T \in SUBSET Nat /\ \A k \in Nat : k \notin T <=> \E g : ok(k, g)
  OBVIOUS
<1> HIDE DEF T
<1>2. T = {}
  <2> SUFFICES ASSUME T # {} PROVE FALSE
    OBVIOUS
  <2>1. PICK k \in T : \A y \in T : k <= y
    BY <1>1, LeastNumber
  <2>2. k # 0
    <3>1. ok(0, [i \in 0..0 |-> l])
      OBVIOUS
    <3> HIDE DEF ok
    <3> QED BY <1>1, <2>1, <3>1
  <2>3. k \in Nat /\ k - 1 \in Nat /\ k - 1 \notin T
    BY <1>1, <2>1, <2>2
  <2>4. PICK g : ok(k - 1, g)
    <3> HIDE DEF ok
    <3> QED BY <1>1, <2>3
  <2> DEFINE f == [i \in 0..k |-> IF i < k THEN g[i]
                                  ELSE DeleteElementInLock(g[k - 1], keys[k])]
  <2>5. ASSUME NEW i \in 0..k
        PROVE  f[i] = IF i = 0 THEN l ELSE DeleteElementInLock(f[i - 1], keys[i])
    <3>1. CASE i < k
      <4>1. i \in 0..k - 1 /\ (i # 0 => i - 1 \in 0..k)
        BY <2>3, <3>1
      <4>2. g[i] = IF i = 0 THEN l ELSE DeleteElementInLock(g[i - 1], keys[i])
        BY <2>4, <4>1
      <4>3. f[i] = g[i] /\ (i # 0 => f[i - 1] = g[i - 1])
        BY <2>3, <3>1, <4>1
      <4> HIDE DEF f
      <4> QED BY <4>2, <4>3
    <3>2. CASE i = k
      <4>1. k - 1 \in 0..k /\ k - 1 < k
        BY <2>2, <2>3
      <4>2. f[k - 1] = g[k - 1] /\ f[k] = DeleteElementInLock(g[k - 1], keys[k])
        BY <2>3, <4>1
      <4> HIDE DEF f
      <4> QED BY <2>2, <3>2, <4>2
    <3> QED BY <2>3, <3>1, <3>2
  <2>6. ok(k, f)
    <3>1. f = [i \in 0..k |-> f[i]]
      OBVIOUS
    <3> HIDE DEF f
    <3> QED BY <2>5, <3>1
  <2> HIDE DEF ok, f
  <2> QED BY <1>1, <2>1, <2>6
<1> HIDE DEF ok
<1>3. \E g : ok(n, g)
  BY <1>1, <1>2
<1> QED BY <1>3 DEF ok, Rounds

\* The drain at the end of InsertElement(m, s): of the keys it deletes only m
\* is tracked by the cache.
LEMMA DrainSound ==
  ASSUME NEW l, ListOK(l), NEW m \in DOMAIN l.node_map_, NEW c, c = l.lru_cache_,
         c.delete_keys \in Seq(Key \cup {Garbage}),
         \A k \in ToSet(c.delete_keys) : k \in c.cache => k = m
  PROVE  ListOK(DrainEvicted(l)) /\ ZSetView(DrainEvicted(l)) = Drain(ZSetView(l), m)
<1> DEFINE keys == c.delete_keys
           n == Len(keys)
           D == 0..n
           after == CHOOSE g : Rounds(g, l, keys, n)
           P(i) == {keys[j] : j \in 1..i}
           R(i) == IF m \in P(i) THEN remove(c, m) ELSE c
           S(i) == [x \in Member |-> IF x \in P(i) THEN Absent ELSE ScoreView(l)[x]]
           ok(i) == ListOK(after[i]) /\ ScoreView(after[i]) = S(i)
                    /\ after[i].lru_cache_ = R(i)
<1>1. DrainEvicted(l) = [after[n] EXCEPT !.lru_cache_.delete_keys = << >>]
  BY DEF DrainEvicted, Rounds
<1>2. n \in Nat /\ DOMAIN keys = 1..n
  BY LenProperties
<1>3. after = [i \in D |-> IF i = 0 THEN l
                           ELSE DeleteElementInLock(after[i - 1], keys[i])]
  <2> HIDE DEF keys, n
  <2>1. \E g : Rounds(g, l, keys, n)
    BY <1>2, DrainRecursion
  <2>2. Rounds(after, l, keys, n)
    BY <2>1, Zenon
  <2> HIDE DEF after
  <2> QED BY <2>2 DEF Rounds
<1>4. ToSet(keys) = P(n)
  BY <1>2 DEF ToSet
<1> HIDE DEF after, keys, n
<1>5. ScoreView(l)[m] # Absent /\ m \in Member
  BY ViewFacts
<1>6. ok(0)
  <2>1. after[0] = l /\ 0 \in D
    BY <1>2, <1>3
  <2>2. P(0) = {}
    OBVIOUS
  <2>3. ScoreView(l) = S(0)
    BY <2>2 DEF ScoreView
  <2>4. R(0) = c
    BY <2>2
  <2> HIDE DEF S, R
  <2> QED BY <2>1, <2>3, <2>4
<1>7. ASSUME NEW i \in 1..n, ok(i - 1) PROVE ok(i)
  <2> DEFINE x == after[i - 1]
             k == keys[i]
  <2>1. after[i] = DeleteElementInLock(x, k)
    BY <1>2, <1>3
  <2>2. P(i) = P(i - 1) \cup {k}
    BY <1>2
  <2>3. ListOK(x) /\ ScoreView(x) = S(i - 1) /\ x.lru_cache_ = R(i - 1)
    BY <1>7
  <2>4. k \in c.cache => k = m
    <3>1. k \in P(n)
      BY <1>2
    <3> QED BY <1>4, <3>1 DEF keys
  <2> HIDE DEF x, k, P
  <2>5. /\ Deleted(after[i], x, k)
        /\ after[i].lru_cache_ = IF k \in DOMAIN x.node_map_
                                 THEN remove(x.lru_cache_, k) ELSE x.lru_cache_
    BY <2>1, <2>3, DeleteSound
  <2>6. ScoreView(after[i]) = S(i)
    <3>1. ScoreView(after[i]) = [y \in Member |-> IF y = k THEN Absent ELSE S(i - 1)[y]]
      BY <2>3, <2>5 DEF Deleted
    <3> QED BY <2>2, <3>1
  <2>7. k = m => (m \in DOMAIN x.node_map_ <=> m \notin P(i - 1))
    <3>1. m \in DOMAIN x.node_map_ <=> S(i - 1)[m] # Absent
      BY <1>5, <2>3, ViewFacts
    <3> QED BY <1>5, <3>1
  <2>8. k # m => k \notin R(i - 1).cache
    BY <2>4 DEF remove
  <2>9. after[i].lru_cache_ = R(i)
    <3>1. CASE k = m
      <4>1. R(i) = remove(c, m)
        BY <2>2, <3>1
      <4> QED BY <2>3, <2>5, <2>7, <3>1, <4>1
    <3>2. CASE k # m
      <4>1. R(i) = R(i - 1)
        BY <2>2, <3>2
      <4>2. remove(x.lru_cache_, k) = x.lru_cache_
        BY <2>3, <2>8, <3>2 DEF remove
      <4> HIDE DEF R
      <4> QED BY <2>3, <2>5, <4>1, <4>2
    <3> QED BY <3>1, <3>2
  <2> QED BY <2>5, <2>6, <2>9 DEF Deleted
<1> HIDE DEF ok
<1>8. ok(n)
  <2> DEFINE go == 1..n
             nx == [i \in D |-> i - 1]
             rk == [i \in D |-> i]
             B == {i \in D : ok(i)}
  <2>1. Descends(D, go, nx, rk, n + 1)
    BY <1>2 DEF Descends
  <2>2. \A i \in D \ go : i \in B
    BY <1>2, <1>6
  <2>3. \A i \in go : nx[i] \in B => i \in B
    BY <1>2, <1>7
  <2>4. n \in D
    BY <1>2
  <2> HIDE DEF D, go, nx, rk, B
  <2>5. D \subseteq B
    BY <2>1, <2>2, <2>3, PathInduction
  <2> QED BY <2>4, <2>5 DEF B
<1> DEFINE e == after[n]
           r == [R(n) EXCEPT !.delete_keys = << >>]
<1>9. ListOK(e) /\ ScoreView(e) = S(n) /\ e.lru_cache_ = R(n)
  BY <1>8 DEF ok
<1>10. DrainEvicted(l) = [e EXCEPT !.lru_cache_ = r]
  BY <1>1, <1>9
<1> HIDE DEF e
<1>11. /\ ListOK(DrainEvicted(l)) /\ DrainEvicted(l).lru_cache_ = r
       /\ ScoreView(DrainEvicted(l)) = S(n)
  <2> HIDE DEF r, S
  <2> QED BY <1>9, <1>10, CacheStep
<1>12. Pending(ZSetView(l)) = P(n)
  BY <1>4 DEF Pending, ZSetView, keys
<1>13. /\ ZSetView(DrainEvicted(l)) = [score |-> S(n), lru |-> r]
       /\ ZSetView(l).score = ScoreView(l) /\ ZSetView(l).lru = c
  BY <1>11 DEF ZSetView
<1> HIDE DEF P
<1>14. ZSetView(DrainEvicted(l)) = Drain(ZSetView(l), m)
  BY <1>12, <1>13 DEF Drain
<1> QED BY <1>11, <1>14

\* An InsertElement that stores something does what the sorted set does.
LEMMA StoreSound ==
  ASSUME NEW l, ListOK(l), Good(ZSetView(l)), NEW m \in Member, NEW s \in Score,
         NEW a \in FreeAfterDelete(l, m), NEW lv \in 1..MaxLevel,
         NEW d \in StoreNode(l, a, m, s, lv)
  PROVE  ListOK(d) /\ ZSetView(d) \in Store(ZSetView(l), m, s)
<1> DEFINE z == ZSetView(l)
           b == DeleteElementInLock(l, m)
           linked == InsertNode(b, a, m, s, lv)
<1>1. PICK c \in put(linked.lru_cache_, m, s) :
        d = DrainEvicted([linked EXCEPT !.lru_cache_ = c])
  BY DEF StoreNode
<1>2. /\ ListOK(b) /\ m \notin DOMAIN b.node_map_
      /\ ScoreView(b) = [x \in Member |-> IF x = m THEN Absent ELSE ScoreView(l)[x]]
  BY DeleteSound DEF Deleted
<1>3. b.lru_cache_ = Delete(z, m).lru
  <2>1. ZSetView(b) = Delete(z, m)
    BY DeleteView
  <2> HIDE DEF b, z
  <2> QED BY <2>1 DEF ZSetView
<1>4. a \in Addr \ DOMAIN b.heap
  BY DEF FreeAfterDelete
<1> HIDE DEF b
<1>5. /\ ListOK(linked) /\ linked.lru_cache_ = b.lru_cache_
      /\ ScoreView(linked) = [ScoreView(b) EXCEPT ![m] = s]
  BY <1>2, <1>4, InsertNodeSound DEF Inserted
<1>6. ScoreView(linked) = [z.score EXCEPT ![m] = s]
  <2>1. z.score = ScoreView(l) /\ ScoreView(l) = [x \in Member |-> ScoreView(l)[x]]
    BY DEF ZSetView, ScoreView
  <2> HIDE DEF linked, z
  <2> QED BY <1>2, <1>5, <2>1
<1> DEFINE y == [linked EXCEPT !.lru_cache_ = c]
<1> HIDE DEF linked
<1>0. y = [linked EXCEPT !.lru_cache_ = c]
  OBVIOUS
<1> HIDE DEF y
<1>7. /\ ListOK(y) /\ y.lru_cache_ = c /\ y.node_map_ = linked.node_map_
      /\ ScoreView(y) = ScoreView(linked)
  <2>1. ListOK(linked)
    BY <1>5
  <2> QED BY <1>0, <2>1, CacheStep
<1>8. d = DrainEvicted(y)
  BY <1>1 DEF y
<1>9. ZSetView(y) = Linked(z, m, s, c)
  BY <1>6, <1>7 DEF ZSetView, Linked
<1>10. c \in put(Delete(z, m).lru, m, s)
  BY <1>1, <1>3, <1>5
<1> DEFINE w == Linked(z, m, s, c)
<1> HIDE DEF z
<1>11. /\ w \in ZSets /\ m \in Present(w)
       /\ Pending(w) \cap c.cache \subseteq {m}
  <2>1. Good(z) /\ w = Linked(z, m, s, c)
    BY DEF z
  <2> HIDE DEF w
  <2>2. w \in ZSets
    BY <1>10, <2>1, LinkedFacts
  <2>3. m \in Present(w)
    <3>1. w.score = [z.score EXCEPT ![m] = s]
      BY <2>1 DEF Linked
    <3>2. w.score[m] = s /\ s # Absent
      BY <2>1, <3>1, GoodFacts, AbsentAssumption DEF Score
    <3> QED BY <3>2 DEF Present
  <2>4. Pending(w) \cap c.cache \subseteq {m}
    BY <1>10, <2>1, LinkedFacts
  <2> QED BY <2>2, <2>3, <2>4
<1>12. w.lru = c
  BY DEF Linked
<1> HIDE DEF w
<1>13. c.delete_keys \in Seq(Key \cup {Garbage})
  BY <1>11, <1>12 DEF ZSets, Cache
<1>14. \A k \in ToSet(c.delete_keys) : k \in c.cache => k = m
  BY <1>11, <1>12 DEF Pending
<1>15. m \in DOMAIN y.node_map_
  BY <1>7, <1>9, <1>11, ViewFacts DEF w
<1>16. ListOK(d) /\ ZSetView(d) = Drain(w, m)
  BY <1>7, <1>8, <1>9, <1>13, <1>14, <1>15, DrainSound DEF w
<1>17. Drain(w, m) \in Store(z, m, s)
  BY <1>10 DEF Store, w, Linked
<1> QED BY <1>16, <1>17 DEF z

-----------------------------------------------------------------------------
(***************************************************************************)
(* The inductive invariant.  While the object is alive its heap is an      *)
(* indexed skip list, and what can be seen of it is a good sorted set.     *)
(***************************************************************************)
SkipListInv ==
  /\ TypeOK
  /\ phase = "alive" => ListOK(sl) /\ Good(ZSetView(sl))

\* The invariant of an object gives its fields their types.
LEMMA ListTyped ==
  ASSUME NEW l, ListOK(l)
  PROVE  /\ l.tail_ \in Addr \cup {Header, Null}
         /\ l.length_ \in 0..Cardinality(Addr)
         /\ l.level_ \in 0..MaxLevel
         /\ \A p \in DOMAIN l.heap \ {Header} :
              /\ l.heap[p].ele_ \in Member
              /\ l.heap[p].score_ \in Score
              /\ l.heap[p].level_ \in 1..MaxLevel
              /\ l.heap[p].forward_ \in [0..l.heap[p].level_ - 1 -> Addr \cup {Null}]
              /\ l.heap[p].span_ \in [0..l.heap[p].level_ - 1 -> 0..UintMod - 1]
              /\ l.heap[p].backward_ \in Addr \cup {Header, Null}
<1>1. l.length_ \in 0..Cardinality(Addr)
  <2>1. Nodes(l.heap) \in SUBSET Addr
    BY DEF ListOK, HeapOK
  <2>2. /\ IsFiniteSet(Nodes(l.heap)) /\ Cardinality(Addr) \in Nat
        /\ Cardinality(Nodes(l.heap)) <= Cardinality(Addr)
    BY <2>1, AddrAssumption, FS_Subset, FS_CardinalityType
  <2>3. Cardinality(Nodes(l.heap)) \in Nat
    BY <2>2, FS_CardinalityType
  <2> QED BY <2>2, <2>3 DEF ListOK
<1> QED BY <1>1 DEF ListOK, HeapOK, NodeOK, Nodes

\* A new object satisfies the invariant and shows an empty sorted set.
LEMMA NewListSound ==
  ASSUME NEW n \in Nat
  PROVE  ListOK(NewList(n)) /\ ZSetView(NewList(n)) = NewZSet(n)
<1> DEFINE l == NewList(n)
           h == [a \in {Header} |-> HeaderNode]
           map == [m \in {} |-> Null]
<1>1. l = [heap |-> h, tail_ |-> Null, length_ |-> 0, level_ |-> 0,
           node_map_ |-> map, lru_cache_ |-> NewCache(n)]
  BY DEF NewList
<1>2. /\ DOMAIN h = {Header} /\ h[Header] = HeaderNode /\ Nodes(h) = {}
      /\ h = [p \in DOMAIN h |-> h[p]]
  BY DEF Nodes
<1>3. NodeOK(HeaderNode) /\ HeaderNode.level_ = MaxLevel
      /\ \A i \in 0..MaxLevel - 1 : HeaderNode.forward_[i] = Null
  <2> DEFINE fw == [i \in Levels |-> Null]
             sp == [i \in Levels |-> 0]
  <2>1. /\ fw \in [0..MaxLevel - 1 -> Addr \cup {Null}]
        /\ sp \in [0..MaxLevel - 1 -> 0..UintMod - 1]
        /\ MaxLevel \in 1..MaxLevel
        /\ \A i \in 0..MaxLevel - 1 : fw[i] = Null
    BY LevelAssumption, UintAssumption DEF Levels
  <2>2. HeaderNode = Node(Garbage, Garbage, MaxLevel, fw, sp, Null)
    BY DEF HeaderNode
  <2> HIDE DEF fw, sp
  <2> QED BY <2>1, <2>2 DEF NodeOK, Node
<1> HIDE DEF h
<1>4. HeapOK(h)
  BY <1>2, <1>3 DEF HeapOK
<1>5. Ordered(h)
  BY <1>2, <1>3 DEF Ordered, Follows
<1>6. DOMAIN map = {} /\ map = [x \in DOMAIN map |-> map[x]]
  OBVIOUS
<1> HIDE DEF map, l
<1>7. /\ l.heap = h /\ l.tail_ = Null /\ l.length_ = 0 /\ l.level_ = 0
      /\ l.node_map_ = map /\ l.lru_cache_ = NewCache(n)
  BY <1>1
<1>8. Indexes(l)
  BY <1>2, <1>6, <1>7 DEF Indexes
<1>9. Cardinality({}) = 0
  BY FS_EmptySet
<1>10. ListOK(l)
  BY <1>1, <1>2, <1>4, <1>5, <1>7, <1>8, <1>9, LevelAssumption DEF ListOK
<1>11. ZSetView(l) = NewZSet(n)
  BY <1>6, <1>7 DEF ZSetView, ScoreView, NewZSet
<1> QED BY <1>10, <1>11 DEF l

\* The members are counted: length_ is the number of members of the set.
LEMMA LengthSound ==
  ASSUME NEW l, ListOK(l)
  PROVE  l.length_ = Cardinality(Present(ZSetView(l))) /\ l.length_ \in Int
<1> DEFINE N == Nodes(l.heap)
           M == DOMAIN l.node_map_
           f == [p \in N |-> l.heap[p].ele_]
<1>1. /\ M = {l.heap[p].ele_ : p \in N}
      /\ \A p, q \in N : l.heap[p].ele_ = l.heap[q].ele_ => p = q
  BY DEF ListOK, Indexes, HeapOK
<1>2. f \in Bijection(N, M)
  <2>1. f \in [N -> M] /\ (\A p, q \in N : f[p] = f[q] => p = q)
        /\ \A x \in M : \E p \in N : f[p] = x
    BY <1>1
  <2> HIDE DEF f, N, M
  <2> QED BY <2>1 DEF Bijection, Injection, Surjection, IsInjective
<1>3. IsFiniteSet(N) /\ Cardinality(N) \in Nat
  BY DistanceFalls DEF ListOK
<1> HIDE DEF f, N, M
<1>4. ExistsBijection(N, M)
  BY <1>2 DEF ExistsBijection
<1>5. Cardinality(M) = Cardinality(N)
  BY <1>3, <1>4, FS_Bijection
<1> QED BY <1>3, <1>5, ViewFacts DEF ListOK, N, M

\* InsertElement, seen from outside.
LEMMA InsertStep ==
  ASSUME SkipListInv, NEW m \in Member, NEW s \in Score, InsertElement(m, s)
  PROVE  /\ ListOK(sl') /\ Good(ZSetView(sl'))
         /\ ZSetView(sl') \in Insert(ZSetView(sl), m, s)
         /\ ret' = IF m \in Present(ZSetView(sl)) THEN 0 ELSE 1
<1> DEFINE z == ZSetView(sl)
<1>1. ListOK(sl) /\ Good(z)
  BY DEF SkipListInv, InsertElement
<1>2. Present(z) = DOMAIN sl.node_map_ /\ z.lru = sl.lru_cache_ /\ z.score = ScoreView(sl)
  BY <1>1, ViewFacts
<1>3. HasScore(m, s) <=> z.score[m] = s
  BY <1>1, <1>2, AbsentAssumption DEF HasScore, ScoreOf, ScoreView, Score
<1>4. ret' = IF m \in Present(z) THEN 0 ELSE 1
  BY <1>2 DEF InsertElement
<1>5. CASE HasScore(m, s)
  <2>1. sl' = [sl EXCEPT !.lru_cache_ = get(sl.lru_cache_, m)]
    BY <1>5 DEF InsertElement
  <2>2. ListOK(sl') /\ ZSetView(sl') = [z EXCEPT !.lru = get(z.lru, m)]
    BY <1>1, <1>2, <2>1, CacheStep
  <2> HIDE DEF z
  <2>3. ZSetView(sl') \in Insert(z, m, s)
    BY <1>3, <1>5, <2>2 DEF Insert
  <2>4. Good(ZSetView(sl'))
    BY <1>1, <2>2, GetGood
  <2> QED BY <1>4, <2>2, <2>3, <2>4 DEF z
<1>6. CASE ~HasScore(m, s)
  <2>1. PICK a \in FreeAfterDelete(sl, m), lv \in 1..MaxLevel :
          sl' \in StoreNode(sl, a, m, s, lv)
    BY <1>6 DEF InsertElement
  <2>2. ListOK(sl') /\ ZSetView(sl') \in Store(z, m, s)
    BY <1>1, <2>1, StoreSound
  <2> HIDE DEF z
  <2>3. ZSetView(sl') \in Insert(z, m, s)
    BY <1>3, <1>6, <2>2 DEF Insert
  <2>4. Good(ZSetView(sl'))
    BY <1>1, <2>2, StoreFacts
  <2> QED BY <1>4, <2>2, <2>3, <2>4 DEF z
<1> QED BY <1>5, <1>6

\* DeleteElement, seen from outside.
LEMMA DeleteStep ==
  ASSUME SkipListInv, NEW m \in Member, DeleteElement(m)
  PROVE  /\ ListOK(sl') /\ Good(ZSetView(sl'))
         /\ ZSetView(sl') = Delete(ZSetView(sl), m)
         /\ ret' = IF m \in Present(ZSetView(sl)) THEN 1 ELSE 0
<1>0. PassedByDelete(sl.heap, ScoreOf(sl, m), m) = PassedInLock(sl.heap, ScoreOf(sl, m), m)
  BY DEF PassedByDelete, PassedInLock
<1>1. ListOK(sl) /\ Good(ZSetView(sl)) /\ sl' = DeleteElementInLock(sl, m)
  BY <1>0 DEF SkipListInv, DeleteElement, DeleteElementInLock
<1>2. ListOK(sl')
  BY <1>1, DeleteSound DEF Deleted
<1>3. ZSetView(sl') = Delete(ZSetView(sl), m)
  BY <1>1, DeleteView
<1>4. Good(ZSetView(sl'))
  <2>1. Good(Delete(ZSetView(sl), m))
    BY <1>1, DeleteGood, Zenon
  <2> QED BY <1>3, <2>1
<1>5. ret' = IF m \in Present(ZSetView(sl)) THEN 1 ELSE 0
  BY <1>1, ViewFacts DEF DeleteElement
<1> QED BY <1>2, <1>3, <1>4, <1>5

\* SearchElement, seen from outside.
LEMMA SearchStep ==
  ASSUME SkipListInv, NEW m \in Member, SearchElement(m)
  PROVE  /\ ListOK(sl') /\ Good(ZSetView(sl')) /\ ret' \in Int
         /\ ZSetView(sl') = Search(ZSetView(sl), m)
         /\ ret' = IF m \in Present(ZSetView(sl)) THEN ZSetView(sl).score[m] ELSE -1
<1> DEFINE z == ZSetView(sl)
<1>1. ListOK(sl) /\ Good(z)
  BY DEF SkipListInv, SearchElement
<1>2. /\ Present(z) = DOMAIN sl.node_map_ /\ z.lru = sl.lru_cache_
      /\ \A x \in DOMAIN sl.node_map_ :
           z.score[x] = sl.heap[sl.node_map_[x]].score_ /\ z.score[x] \in Score
  BY <1>1, ViewFacts
<1>3. CASE m \notin DOMAIN sl.node_map_
  <2>1. sl' = sl /\ ret' = -1
    BY <1>3 DEF SearchElement
  <2>2. ZSetView(sl') = Search(z, m)
    BY <1>2, <1>3, <2>1 DEF Search
  <2> QED BY <1>1, <1>2, <1>3, <2>1, <2>2
<1>4. CASE m \in DOMAIN sl.node_map_
  <2>1. /\ sl' = [sl EXCEPT !.lru_cache_ = get(sl.lru_cache_, m)]
        /\ ret' = z.score[m] /\ z.score[m] \in Score
    BY <1>2, <1>4 DEF SearchElement, ScoreOf
  <2>2. ListOK(sl') /\ ZSetView(sl') = [z EXCEPT !.lru = get(z.lru, m)]
    BY <1>1, <1>2, <2>1, CacheStep
  <2> HIDE DEF z
  <2>3. ZSetView(sl') = Search(z, m)
    BY <1>2, <1>4, <2>2 DEF Search
  <2>4. Good(ZSetView(sl'))
    BY <1>1, <2>2, GetGood
  <2>5. ret' \in Int
    BY <2>1, ScoreAssumption DEF Score
  <2> QED BY <1>2, <1>4, <2>1, <2>2, <2>3, <2>4, <2>5 DEF z
<1> QED BY <1>3, <1>4

\* SetMaxMemory, seen from outside.
LEMMA SetMaxStep ==
  ASSUME SkipListInv, NEW n \in Capacities, SetMaxMemory(n)
  PROVE  /\ ListOK(sl') /\ Good(ZSetView(sl'))
         /\ ZSetView(sl') \in SetMax(ZSetView(sl), n)
<1> DEFINE z == ZSetView(sl)
<1>1. ListOK(sl) /\ Good(z) /\ n \in Nat
  BY SkipListCapacities DEF SkipListInv, SetMaxMemory
<1>2. z.lru = sl.lru_cache_
  BY DEF ZSetView
<1>3. PICK c \in set_capacity(z.lru, n) : sl' = [sl EXCEPT !.lru_cache_ = c]
  BY <1>2 DEF SetMaxMemory
<1>4. ListOK(sl') /\ ZSetView(sl') = [z EXCEPT !.lru = c]
  BY <1>1, <1>3, CacheStep
<1> HIDE DEF z
<1>5. ZSetView(sl') \in SetMax(z, n)
  BY <1>3, <1>4 DEF SetMax
<1>6. Good(ZSetView(sl'))
  BY <1>1, <1>5, SetMaxGood
<1> QED BY <1>4, <1>5, <1>6 DEF z

\* The destructor, seen from outside: nothing is left of the contents.
LEMMA DestroyStep ==
  ASSUME SkipListInv, Destroy
  PROVE  /\ TypeOK' /\ phase' # "alive"
         /\ ZSetView(sl') = NewZSet(0)
<1> DEFINE kept == {q \in DOMAIN sl.heap \ {Header} :
                      q \in Sweep(sl.heap, sl.tail_, DOMAIN sl.heap).rest}
           h == [p \in kept |-> sl.heap[p]]
           l == NewList(0)
<1>1. ListOK(sl)
  BY DEF SkipListInv, Destroy
<1>2. sl' = [l EXCEPT !.heap = h] /\ phase' \in {"destroyed", "corrupt"} /\ ret' = 0
  BY DEF Destroy
<1>3. DOMAIN h \subseteq DOMAIN sl.heap \ {Header} /\ \A p \in DOMAIN h : h[p] = sl.heap[p]
  OBVIOUS
<1> HIDE DEF kept, h
<1>4. l = [heap |-> l.heap, tail_ |-> Null, length_ |-> 0, level_ |-> 0,
           node_map_ |-> [m \in {} |-> Null], lru_cache_ |-> NewCache(0)]
  BY DEF NewList
<1> HIDE DEF l
<1>5. /\ sl'.heap = h /\ sl'.tail_ = Null /\ sl'.length_ = 0 /\ sl'.level_ = 0
      /\ DOMAIN sl'.node_map_ = {} /\ sl'.lru_cache_ = NewCache(0)
  BY <1>2, <1>4
<1>6. Cardinality(Addr) \in Nat
  BY AddrAssumption, FS_CardinalityType
<1>7. \A p \in DOMAIN h \ {Header} :
        /\ h[p].ele_ \in Member
        /\ h[p].score_ \in Score
        /\ h[p].level_ \in 1..MaxLevel
        /\ h[p].forward_ \in [0..h[p].level_ - 1 -> Addr \cup {Null}]
        /\ h[p].span_ \in [0..h[p].level_ - 1 -> 0..UintMod - 1]
        /\ h[p].backward_ \in Addr \cup {Header, Null}
  BY <1>1, <1>3, ListTyped
<1>8. TypeOK'
  BY <1>2, <1>5, <1>6, <1>7, LevelAssumption DEF TypeOK
<1>9. ZSetView(sl') = NewZSet(0)
  BY <1>5 DEF ZSetView, ScoreView, NewZSet
<1> QED BY <1>2, <1>8, <1>9

\* The invariant is inductive.
LEMMA SkipListInductive == SkipListInv /\ [Next]_vars => SkipListInv'
<1> SUFFICES ASSUME SkipListInv, [Next]_vars PROVE SkipListInv'
  OBVIOUS
<1>1. ASSUME ListOK(sl'), Good(ZSetView(sl')), phase' = phase, ret' \in Int
      PROVE  SkipListInv'
  <2>1. phase' \in {"alive", "destroyed", "corrupt"}
    BY <1>1 DEF SkipListInv, TypeOK
  <2>2. TypeOK'
    BY <1>1, <2>1, ListTyped DEF TypeOK
  <2> QED BY <1>1, <2>2 DEF SkipListInv
<1>2. ASSUME NEW m \in Member, NEW s \in Score, InsertElement(m, s)
      PROVE  SkipListInv'
  BY <1>1, <1>2, InsertStep DEF InsertElement
<1>3. ASSUME NEW m \in Member, DeleteElement(m) PROVE SkipListInv'
  BY <1>1, <1>3, DeleteStep DEF DeleteElement
<1>4. ASSUME NEW m \in Member, SearchElement(m) PROVE SkipListInv'
  BY <1>1, <1>4, SearchStep DEF SearchElement
<1>5. CASE Length
  <2>1. ListOK(sl) /\ Good(ZSetView(sl)) /\ sl' = sl /\ phase' = phase /\ ret' = sl.length_
    BY <1>5 DEF Length, SkipListInv
  <2> QED BY <1>1, <2>1, LengthSound
<1>6. ASSUME NEW n \in Capacities, SetMaxMemory(n) PROVE SkipListInv'
  BY <1>1, <1>6, SetMaxStep DEF SetMaxMemory
<1>7. CASE Destroy
  BY <1>7, DestroyStep DEF SkipListInv
<1>8. CASE UNCHANGED vars
  BY <1>8 DEF vars, SkipListInv, TypeOK
<1> QED BY <1>2, <1>3, <1>4, <1>5, <1>6, <1>7, <1>8 DEF Next

\* The invariant holds initially.
LEMMA SkipListInitial == Init => SkipListInv
<1> SUFFICES ASSUME Init PROVE SkipListInv
  OBVIOUS
<1>1. PICK n \in Capacities : sl = NewList(n)
  BY DEF Init
<1>2. ListOK(sl) /\ Good(ZSetView(sl))
  BY <1>1, SkipListCapacities, NewListSound, NewGood
<1>3. phase = "alive" /\ ret = 0
  BY DEF Init
<1>4. TypeOK
  BY <1>2, <1>3, ListTyped DEF TypeOK
<1> QED BY <1>2, <1>4 DEF SkipListInv

\* The inductive invariant always holds.
THEOREM SkipListInvariant == Spec => []SkipListInv
BY SkipListInitial, SkipListInductive, PTL DEF Spec

\* The fields of the object and of its nodes always have the types skiplist.h
\* declares, before and after the destructor.
THEOREM SkipListTypeCorrect == Spec => []TypeOK
<1>1. SkipListInv => TypeOK
  BY DEF SkipListInv
<1> QED BY <1>1, SkipListInvariant, PTL

-----------------------------------------------------------------------------
(***************************************************************************)
(* The levels as sequences.                                                *)
(***************************************************************************)

\* The sequence c lists the nodes of the set T, each once, in their order.
Lists(c, h, T) ==
  /\ c \in Seq(Nodes(h)) /\ ToSet(c) = T
  /\ \A j, k \in 1..Len(c) : j < k => Precedes(h, c[j], c[k])

\* A node before the listed ones can be put in front.
LEMMA ListsPush ==
  ASSUME NEW h, NEW p \in Nodes(h), NEW c, NEW T, Lists(c, h, T),
         \A r \in T : Precedes(h, p, r)
  PROVE  Lists(<< p >> \o c, h, T \cup {p})
<1> DEFINE d == << p >> \o c
<1>1. /\ c \in Seq(Nodes(h)) /\ ToSet(c) = T /\ Len(c) \in Nat /\ DOMAIN c = 1..Len(c)
      /\ \A j, k \in 1..Len(c) : j < k => Precedes(h, c[j], c[k])
  BY LenProperties DEF Lists
<1>2. /\ d \in Seq(Nodes(h)) /\ Len(d) = Len(c) + 1 /\ d[1] = p
      /\ \A j \in 2..Len(c) + 1 : d[j] = c[j - 1]
  BY <1>1, PushElements
<1>3. DOMAIN d = 1..Len(c) + 1
  BY <1>2, LenProperties
<1> HIDE DEF d
<1>4. \A j \in 2..Len(c) + 1 : j - 1 \in 1..Len(c) /\ c[j - 1] \in T
  BY <1>1 DEF ToSet
<1>5. ToSet(d) = T \cup {p}
  <2>1. \A j \in DOMAIN d : d[j] \in T \cup {p}
    BY <1>1, <1>2, <1>3, <1>4
  <2>2. ASSUME NEW r \in T PROVE \E j \in DOMAIN d : d[j] = r
    <3>1. PICK j \in 1..Len(c) : c[j] = r
      BY <1>1 DEF ToSet
    <3>2. j + 1 \in 2..Len(c) + 1 /\ j + 1 \in DOMAIN d /\ (j + 1) - 1 = j
      BY <1>1, <1>3
    <3>3. d[j + 1] = c[j]
      BY <1>2, <3>2
    <3> QED BY <3>1, <3>2, <3>3
  <2>3. 1 \in DOMAIN d
    BY <1>1, <1>3
  <2> QED BY <1>2, <2>1, <2>2, <2>3 DEF ToSet
<1>6. ASSUME NEW j \in 1..Len(d), NEW k \in 1..Len(d), j < k
      PROVE  Precedes(h, d[j], d[k])
  <2>1. k \in 2..Len(c) + 1
    BY <1>1, <1>2, <1>6
  <2>2. CASE j = 1
    BY <1>2, <1>4, <2>1, <2>2
  <2>3. CASE j # 1
    <3>1. /\ j \in 2..Len(c) + 1 /\ j - 1 \in 1..Len(c) /\ k - 1 \in 1..Len(c)
          /\ j - 1 < k - 1
      BY <1>1, <1>2, <1>6, <2>3
    <3> QED BY <1>1, <1>2, <2>1, <3>1
  <2> QED BY <2>2, <2>3
<1>7. Lists(d, h, T \cup {p})
  BY <1>2, <1>5, <1>6 DEF Lists
<1> QED BY <1>7 DEF d

\* Such a sequence is as long as the set is large.
LEMMA ListsLength ==
  ASSUME NEW h, HeapOK(h), NEW c, NEW T, Lists(c, h, T)
  PROVE  Len(c) = Cardinality(T)
<1> DEFINE I == 1..Len(c)
<1>1. c \in Seq(Nodes(h)) /\ Len(c) \in Nat /\ DOMAIN c = I /\ c \in [I -> Nodes(h)]
  BY LenProperties DEF Lists
<1>2. T = {c[j] : j \in I}
  BY <1>1 DEF Lists, ToSet
<1>3. ASSUME NEW j \in I, NEW k \in I, c[j] = c[k] PROVE j = k
  <2>1. ~Precedes(h, c[j], c[k]) /\ ~Precedes(h, c[k], c[j])
    BY <1>1, <1>3, NodeOrder
  <2>2. ~(j < k) /\ ~(k < j)
    BY <2>1 DEF Lists
  <2> QED BY <1>1, <2>2
<1>4. c \in Bijection(I, T)
  <2>1. c \in [I -> T] /\ \A x \in T : \E j \in I : c[j] = x
    BY <1>1, <1>2
  <2> HIDE DEF I
  <2> QED BY <1>3, <2>1 DEF Bijection, Injection, Surjection, IsInjective
<1>5. IsFiniteSet(I) /\ Cardinality(I) = Len(c)
  <2>1. 1 \in Int /\ Len(c) \in Int
    BY <1>1
  <2>2. /\ IsFiniteSet(I)
        /\ Cardinality(I) = IF 1 > Len(c) THEN 0 ELSE Len(c) - 1 + 1
    BY <2>1, FS_Interval
  <2> QED BY <1>1, <2>2
<1> HIDE DEF I
<1>6. ExistsBijection(I, T)
  BY <1>4 DEF ExistsBijection
<1> QED BY <1>5, <1>6, FS_Bijection

\* The pointers of a level lead through the nodes that are tall enough for
\* it, all of them, in their order.
LEMMA ChainSound ==
  ASSUME ListOK(sl), NEW i \in Levels
  PROVE  Lists(Chain(i), sl.heap, {p \in Nodes(sl.heap) : sl.heap[p].level_ > i})
<1> DEFINE h == sl.heap
           D == (Tall(h, i) \ {Header}) \cup {Null}
           go == D \ {Null}
           nx == [q \in D |-> h[q].forward_[i]]
           rk == [q \in D |-> IF q = Null THEN 0 ELSE Distance(h)[q] + 1]
           S == Seq(D)
           F == [q \in D |-> [x \in S |-> << q >> \o x]]
           b == [q \in D |-> << >>]
           N == Cardinality(Nodes(h)) + 2
           rest == CHOOSE g : g = [p \in D |->
                     IF p = Null THEN << >> ELSE << p >> \o g[h[p].forward_[i]]]
           T(q) == {r \in Nodes(h) : h[r].level_ > i /\ (r = q \/ Precedes(h, q, r))}
<1>1. Chain(i) = rest[h[Header].forward_[i]]
  BY DEF Chain
<1>2. HeapOK(h) /\ Ordered(h) /\ Null \notin DOMAIN h
  BY AddrAssumption DEF ListOK, HeapOK, Nodes
<1> HIDE DEF h
<1>3. ASSUME NEW q \in go
      PROVE  /\ q \in Nodes(h) /\ q \in DOMAIN h /\ h[q].level_ > i
             /\ nx[q] = h[q].forward_[i] /\ Follows(h, i, q, nx[q])
             /\ nx[q] # Null => nx[q] \in Nodes(h) /\ nx[q] \in Tall(h, i)
                                /\ Precedes(h, q, nx[q])
  <2>1. q \in Tall(h, i) /\ q \in Nodes(h) /\ q \in DOMAIN h /\ h[q].level_ > i
    BY <1>2 DEF Tall, Nodes
  <2>2. nx[q] = h[q].forward_[i]
    OBVIOUS
  <2> HIDE DEF nx, D, go
  <2>3. /\ Follows(h, i, q, h[q].forward_[i])
        /\ h[q].forward_[i] # Null => /\ h[q].forward_[i] \in Nodes(h)
                                      /\ h[q].forward_[i] \in Tall(h, i)
                                      /\ Precedes(h, q, h[q].forward_[i])
    BY <1>2, <2>1, NextNode
  <2> QED BY <2>1, <2>2, <2>3
<1>4. \A q \in go : nx[q] \in D
  BY <1>3, NodeOrder, <1>2
<1>5. Descends(D, go, nx, rk, N)
  <2>1. /\ \A q \in Nodes(h) : q \in DOMAIN h
        /\ \A q \in DOMAIN h : Distance(h)[q] \in Nat /\ Distance(h)[q] <= Cardinality(Nodes(h))
        /\ Cardinality(Nodes(h)) \in Nat
    BY <1>2, DistanceFalls DEF Nodes
  <2>2. rk \in [D -> Nat] /\ N \in Nat /\ go \subseteq D /\ \A q \in D : rk[q] < N
    BY <2>1 DEF Tall
  <2>3. ASSUME NEW q \in go PROVE rk[nx[q]] < rk[q]
    <3>1. rk[q] = Distance(h)[q] + 1 /\ Distance(h)[q] \in Nat
      BY <1>3, <2>1
    <3>2. CASE nx[q] = Null
      <4>1. rk[nx[q]] = 0
        BY <3>2, <1>4
      <4> QED BY <3>1, <4>1
    <3>3. CASE nx[q] # Null
      <4>1. rk[nx[q]] = Distance(h)[nx[q]] + 1 /\ Distance(h)[nx[q]] \in Nat
        BY <1>3, <1>4, <2>1, <3>3
      <4>2. Distance(h)[nx[q]] < Distance(h)[q]
        BY <1>2, <1>3, <3>3, DistanceFalls
      <4> HIDE DEF rk, nx
      <4> QED BY <3>1, <4>1, <4>2
    <3> QED BY <3>2, <3>3
  <2> HIDE DEF D, nx, go, rk, N, rest
  <2> QED BY <1>4, <2>2, <2>3 DEF Descends
<1>6. F \in [D -> [S -> S]] /\ b \in [D -> S]
  <2> HIDE DEF D
  <2>1. \A q \in D, x \in S : << q >> \o x \in S
    BY PushElements
  <2>2. << >> \in S
    OBVIOUS
  <2> HIDE DEF S
  <2> QED BY <2>1, <2>2
<1>7. PICK g0 : Computes(g0, D, S, go, nx, F, b)
  <2> HIDE DEF D, nx, go, rk, F, b, N, S, rest
  <2> QED BY <1>5, <1>6, PathRecursion
<1>8. \E g : g = [p \in D |-> IF p = Null THEN << >> ELSE << p >> \o g[h[p].forward_[i]]]
  <2>1. g0 \in [D -> S]
    BY <1>7 DEF Computes
  <2>2. ASSUME NEW q \in D
        PROVE  g0[q] = IF q = Null THEN << >> ELSE << q >> \o g0[h[q].forward_[i]]
    <3>1. g0[q] = IF q \in go THEN F[q][g0[nx[q]]] ELSE b[q]
      <4> HIDE DEF D, nx, go, F, b, S
      <4> QED BY <1>7 DEF Computes
    <3>2. CASE q = Null
      BY <3>1, <3>2
    <3>3. CASE q # Null
      <4>1. q \in go /\ nx[q] = h[q].forward_[i] /\ nx[q] \in D
        BY <1>4, <3>3
      <4>2. g0[nx[q]] \in S
        BY <2>1, <4>1
      <4> HIDE DEF D, go, nx, S
      <4>3. F[q][g0[nx[q]]] = << q >> \o g0[nx[q]]
        BY <4>2
      <4> QED BY <3>1, <3>3, <4>1, <4>3
    <3> QED BY <3>2, <3>3
  <2> HIDE DEF D, S
  <2> QED BY <2>1, <2>2
<1>9. rest = [p \in D |-> IF p = Null THEN << >> ELSE << p >> \o rest[h[p].forward_[i]]]
  BY <1>8, Zenon
<1> HIDE DEF rest
<1> DEFINE B == {q \in D : Lists(rest[q], h, IF q = Null THEN {} ELSE T(q))}
<1>10. Lists(<< >>, h, {})
  <2>1. << >> \in Seq(Nodes(h)) /\ Len(<< >>) = 0 /\ DOMAIN << >> = {}
    OBVIOUS
  <2>2. ToSet(<< >>) = {}
    BY <2>1 DEF ToSet
  <2> QED BY <2>1, <2>2 DEF Lists
<1>11. rest[Null] = << >>
  BY <1>9
<1>12. \A q \in D \ go : q \in B
  <2> SUFFICES ASSUME NEW q \in D \ go PROVE q \in B
    OBVIOUS
  <2>1. q = Null /\ q \in D
    OBVIOUS
  <2> HIDE DEF D, go, T
  <2> QED BY <1>10, <1>11, <2>1
\* The nodes from the next one on are those after q.
<1>13. ASSUME NEW q \in DOMAIN h, NEW n, Follows(h, i, q, n), Null \notin Nodes(h)
       PROVE  (IF n = Null THEN {} ELSE T(n)) =
                {r \in Nodes(h) : h[r].level_ > i /\ Precedes(h, q, r)}
  <2>1. CASE n = Null
    BY <1>13, <2>1 DEF Follows
  <2>2. CASE n # Null
    <3>1. /\ n \in Nodes(h) /\ h[n].level_ > i /\ Precedes(h, q, n)
          /\ \A r \in Nodes(h) :
               h[r].level_ > i /\ Precedes(h, q, r) => r = n \/ Precedes(h, n, r)
      BY <1>13, <2>2 DEF Follows
    <3>2. \A r \in Nodes(h) : Precedes(h, n, r) => Precedes(h, q, r)
      BY <1>2, <3>1, NodeOrder
    <3> QED BY <2>2, <3>1, <3>2
  <2> QED BY <2>1, <2>2
<1>14. Null \notin Nodes(h)
  BY <1>2 DEF Nodes
<1>15. ASSUME NEW q \in go, nx[q] \in B PROVE q \in B
  <2> DEFINE n == nx[q]
             A == {r \in Nodes(h) : h[r].level_ > i /\ Precedes(h, q, r)}
  <2>1. /\ q \in Nodes(h) /\ q \in DOMAIN h /\ h[q].level_ > i /\ q # Null /\ q \in D
        /\ n = h[q].forward_[i] /\ Follows(h, i, q, n)
    BY <1>3
  <2>2. rest[q] = << q >> \o rest[n]
    BY <1>9, <2>1
  <2>3. Lists(rest[n], h, IF n = Null THEN {} ELSE T(n))
    BY <1>15
  <2>4. T(q) = A \cup {q}
    BY <2>1
  <2> HIDE DEF n, D, go, nx, T
  <2>5. (IF n = Null THEN {} ELSE T(n)) = A
    BY <1>13, <1>14, <2>1
  <2>6. Lists(rest[n], h, A)
    BY <2>3, <2>5
  <2>7. \A r \in A : Precedes(h, q, r)
    OBVIOUS
  <2> HIDE DEF A
  <2>8. Lists(rest[q], h, A \cup {q})
    BY <2>1, <2>2, <2>6, <2>7, ListsPush
  <2> QED BY <2>1, <2>4, <2>8
<1>16. D \subseteq B
  <2> HIDE DEF D, nx, go, rk, N, B
  <2> QED BY <1>5, <1>12, <1>15, PathInduction
<1> DEFINE n == h[Header].forward_[i]
<1>17. Header \in DOMAIN h /\ Header \in Tall(h, i)
  BY <1>2, LevelAssumption DEF HeapOK, Tall, Levels
<1>18. Follows(h, i, Header, n) /\ (n # Null => n \in Nodes(h) /\ n \in Tall(h, i))
  BY <1>2, <1>17, NextNode
<1>19. n \in D
  BY <1>18 DEF Nodes
<1> HIDE DEF n, T
<1>20. Lists(rest[n], h, IF n = Null THEN {} ELSE T(n))
  BY <1>16, <1>19
<1>21. (IF n = Null THEN {} ELSE T(n)) =
         {r \in Nodes(h) : h[r].level_ > i /\ Precedes(h, Header, r)}
  BY <1>13, <1>14, <1>17, <1>18
<1>22. (IF n = Null THEN {} ELSE T(n)) = {r \in Nodes(h) : h[r].level_ > i}
  BY <1>21 DEF Precedes
<1> QED BY <1>1, <1>20, <1>22 DEF n, h

\* What the chains of an object that satisfies the invariant are.
LEMMA ChainFacts ==
  ASSUME ListOK(sl), NEW i \in Levels
  PROVE  /\ Ascending(Chain(i))
         /\ ToSet(Chain(i)) = {p \in Nodes(sl.heap) : sl.heap[p].level_ > i}
         /\ Len(Chain(i)) = Cardinality(ToSet(Chain(i)))
<1> DEFINE h == sl.heap
           T == {p \in Nodes(h) : h[p].level_ > i}
           c == Chain(i)
<1>1. Lists(c, h, T) /\ HeapOK(h)
  BY ChainSound DEF ListOK
<1> HIDE DEF T, c
<1>2. /\ ToSet(c) = T /\ DOMAIN c = 1..Len(c)
      /\ \A j \in 1..Len(c) : c[j] \in Nodes(h)
      /\ \A j, k \in 1..Len(c) : j < k => Precedes(h, c[j], c[k])
  BY <1>1, LenProperties DEF Lists
<1>3. Ascending(c)
  BY <1>2 DEF Ascending, Precedes, Before, Nodes
<1>4. Len(c) = Cardinality(ToSet(c))
  BY <1>1, <1>2, ListsLength
<1> QED BY <1>2, <1>3, <1>4 DEF c, T

\* The lowest level has all the nodes.
LEMMA BottomFacts ==
  ASSUME ListOK(sl)
  PROVE  /\ 0 \in Levels /\ ToSet(Chain(0)) = Nodes(sl.heap)
         /\ Len(Chain(0)) = sl.length_
<1>1. 0 \in Levels
  BY LevelAssumption DEF Levels
<1>2. \A p \in Nodes(sl.heap) : sl.heap[p].level_ > 0
  BY LevelAssumption DEF ListOK, HeapOK, NodeOK, Nodes
<1>3. ToSet(Chain(0)) = Nodes(sl.heap)
  BY <1>1, <1>2, ChainFacts
<1> QED BY <1>1, <1>3, ChainFacts DEF ListOK

\* Whatever the calls, the members and the levels drawn for them, the search
\* of either deletion meets the node of every member that is in the index, on
\* each of its levels, and finds its height.
THEOREM SkipListDeletions == Spec => []DeletionMeetsNode
<1>1. SkipListInv => DeletionMeetsNode
  <2> SUFFICES ASSUME SkipListInv, phase = "alive", NEW m \in DOMAIN sl.node_map_,
                      NEW passed \in {PassedInLock(sl.heap, ScoreOf(sl, m), m),
                                      PassedByDelete(sl.heap, ScoreOf(sl, m), m)},
                      NEW node, node = sl.node_map_[m],
                      NEW update, update = Update(sl.heap, sl.level_, passed)
               PROVE  /\ \A i \in 0..sl.heap[node].level_ - 1 :
                           sl.heap[update[i]].forward_[i] = node
                      /\ TopLevel(sl.heap, update, ScoreOf(sl, m), m)
                           = sl.heap[node].level_ - 1
    BY DEF DeletionMeetsNode
  <2> DEFINE h == sl.heap
             s == ScoreOf(sl, m)
  <2>1. ListOK(sl) /\ HeapOK(h) /\ Ordered(h)
    BY DEF SkipListInv, ListOK
  <2>2. Passes(h, passed, s, m)
    BY <2>1, SameComparison
  <2>3. node \in Nodes(h) /\ h[node].ele_ = m /\ h[node].score_ = s
    BY <2>1, IndexedNode DEF ScoreOf
  <2>4. sl.level_ \in h[node].level_..MaxLevel
    <3>1. h[node].level_ \in 1..MaxLevel
      BY <2>1, <2>3 DEF HeapOK, NodeOK, Nodes
    <3>2. h[node].level_ <= sl.level_ /\ sl.level_ \in 0..MaxLevel
      BY <2>1, <2>3 DEF ListOK
    <3> QED BY <3>1, <3>2, LevelAssumption
  <2> HIDE DEF h, s
  <2>5. update = Update(h, sl.level_, passed)
    BY DEF h
  <2>6. /\ \A i \in 0..h[node].level_ - 1 : h[update[i]].forward_[i] = node
        /\ TopLevel(h, update, s, m) = h[node].level_ - 1
    BY <2>1, <2>2, <2>3, <2>4, <2>5, DeleteSearch
  <2> QED BY <2>6 DEF h, s
<1> QED BY <1>1, SkipListInvariant, PTL

\* The bottom level is sorted and every level is its sub-list of the nodes
\* tall enough for it, so no search
\* misses a node or reads beyond a node's arrays, and level_ covers them.
THEOREM SkipListNested == Spec => []LevelsNested
<1>1. SkipListInv => LevelsNested
  <2> SUFFICES ASSUME SkipListInv, phase = "alive"
               PROVE  /\ \A i \in Levels :
                           /\ Ascending(Chain(i))
                           /\ ToSet(Chain(i)) =
                                {p \in ToSet(Chain(0)) : sl.heap[p].level_ > i}
                      /\ \A p \in DOMAIN sl.heap \ {Header} :
                           sl.heap[p].level_ <= sl.level_
    BY DEF LevelsNested
  <2>1. ListOK(sl)
    BY DEF SkipListInv
  <2>2. \A p \in DOMAIN sl.heap \ {Header} : sl.heap[p].level_ <= sl.level_
    BY <2>1 DEF ListOK, Nodes
  <2> QED BY <2>1, <2>2, BottomFacts, ChainFacts
<1> QED BY <1>1, SkipListInvariant, PTL

\* The index, the bottom level, the count and the allocated nodes agree.
THEOREM SkipListIndexed == Spec => []IndexMatchesList
<1>1. SkipListInv => IndexMatchesList
  <2> SUFFICES ASSUME SkipListInv, phase = "alive" PROVE IndexMatchesList
    BY DEF IndexMatchesList
  <2>1. ListOK(sl)
    BY DEF SkipListInv
  <2>2. ToSet(Chain(0)) = Nodes(sl.heap) /\ Len(Chain(0)) = sl.length_
    BY <2>1, BottomFacts
  <2>3. DOMAIN sl.heap = Nodes(sl.heap) \cup {Header}
    BY <2>1 DEF ListOK, HeapOK, Nodes
  <2>4. /\ DOMAIN sl.node_map_ = {sl.heap[p].ele_ : p \in Nodes(sl.heap)}
        /\ \A p \in Nodes(sl.heap) : sl.node_map_[sl.heap[p].ele_] = p
    BY <2>1 DEF ListOK, Indexes
  <2> QED BY <2>2, <2>3, <2>4 DEF IndexMatchesList
<1> QED BY <1>1, SkipListInvariant, PTL

-----------------------------------------------------------------------------
(***************************************************************************)
(* The refinement.                                                         *)
(***************************************************************************)

\* The instance's copies of the operators are the operators: the number of
\* elements of a set.
LEMMA SameCardinality == \A S : Z!Cardinality(S) = Cardinality(S)
BY Zenon DEF Z!Cardinality, Cardinality

\* The same for the cache.
LEMMA SameCache ==
  /\ \A c, k : Z!get(c, k) = get(c, k)
  /\ \A c, k : Z!remove(c, k) = remove(c, k)
  /\ \A c, k, v : Z!put(c, k, v) = put(c, k, v)
  /\ \A c, n : Z!set_capacity(c, n) = set_capacity(c, n)
<1> USE DEF Z!Position, Position, Z!MoveToFront, MoveToFront, Z!RemoveAt, RemoveAt
<1>1. \A c, k : Z!get(c, k) = get(c, k)
  BY DEF Z!get, get
<1>2. \A c, k : Z!remove(c, k) = remove(c, k)
  BY DEF Z!remove, remove
<1>3. \A c, k, v : Z!put(c, k, v) = put(c, k, v)
  <2>1. \A c : Z!Full(c) = Full(c)
    BY SameCardinality DEF Z!Full, Full
  <2>2. \A c, k, v : Z!Refresh(c, k, v) = Refresh(c, k, v)
    BY DEF Z!Refresh, Refresh
  <2>3. \A c, k, v : Z!PushFront(c, k, v) = PushFront(c, k, v)
    BY DEF Z!PushFront, PushFront
  <2>4. \A c, k : Z!EvictLast(c, k) = EvictLast(c, k)
    BY DEF Z!EvictLast, EvictLast, Z!Last, Last, Z!Front, Front
  <2>5. \A k : Z!ReadErased(k) = ReadErased(k)
    BY DEF Z!ReadErased, ReadErased
  <2>6. \A c : Z!Last(c) = Last(c)
    BY DEF Z!Last, Last
  <2> QED BY <2>1, <2>2, <2>3, <2>4, <2>5, <2>6 DEF Z!put, put
<1>4. \A c, n : Z!set_capacity(c, n) = set_capacity(c, n)
  <2>1. \A c, n : Z!Trim(c, n) = Trim(c, n)
    BY DEF Z!Trim, Trim, Z!Reads, Reads, Z!ReadErased, ReadErased,
           Z!KeysOf, KeysOf, Z!Reverse, Reverse
  <2> QED BY <2>1, SameCardinality DEF Z!set_capacity, set_capacity
<1> QED BY <1>1, <1>2, <1>3, <1>4

\* The same for the sorted set.
LEMMA SameZSet ==
  /\ Z!Member = Member /\ Z!Score = Score
  /\ \A z : Z!Present(z) = Present(z)
  /\ \A n : Z!NewZSet(n) = NewZSet(n)
  /\ \A z, m : Z!Delete(z, m) = Delete(z, m)
  /\ \A z, m : Z!Search(z, m) = Search(z, m)
  /\ \A z, n : Z!SetMax(z, n) = SetMax(z, n)
  /\ \A z, m, s : Z!Insert(z, m, s) = Insert(z, m, s)
<1>1. Z!Member = Member /\ Z!Score = Score
  BY DEF Z!Member, Member, Z!Score, Score
<1>2. \A z : Z!Present(z) = Present(z)
  BY <1>1 DEF Z!Present, Present
<1>3. \A n : Z!NewZSet(n) = NewZSet(n)
  BY <1>1 DEF Z!NewZSet, NewZSet, Z!NewCache, NewCache
<1>4. \A z, m : Z!Delete(z, m) = Delete(z, m)
  BY <1>2, SameCache DEF Z!Delete, Delete
<1>5. \A z, m : Z!Search(z, m) = Search(z, m)
  BY <1>2, SameCache DEF Z!Search, Search
<1>6. \A z, n : Z!SetMax(z, n) = SetMax(z, n)
  BY SameCache DEF Z!SetMax, SetMax
<1>7. \A z : Z!Pending(z) = Pending(z)
  BY DEF Z!Pending, Pending, Z!ToSet, ToSet
<1>8. \A z, m : Z!Drain(z, m) = Drain(z, m)
  BY <1>1, <1>7, SameCache DEF Z!Drain, Drain
<1>9. \A z, m, s : Z!Store(z, m, s) = Store(z, m, s)
  BY <1>4, <1>8, SameCache DEF Z!Store, Store
<1>10. \A z, m, s : Z!Insert(z, m, s) = Insert(z, m, s)
  BY <1>9, SameCache DEF Z!Insert, Insert
<1> QED BY <1>1, <1>2, <1>3, <1>4, <1>5, <1>6, <1>10

\* Every step of the pointer structure is a step of the sorted set.
LEMMA SkipListStepRefines == SkipListInv /\ [Next]_vars => [Z!Next]_Z!vars
<1> SUFFICES ASSUME SkipListInv, [Next]_vars PROVE [Z!Next]_Z!vars
  OBVIOUS
<1>1. ASSUME NEW m \in Member, NEW s \in Score, InsertElement(m, s) PROVE Z!Next
  <2>1. Z!InsertElement(m, s)
    BY <1>1, InsertStep, SameZSet DEF Z!InsertElement
  <2> QED BY <2>1, SameZSet DEF Z!Next
<1>2. ASSUME NEW m \in Member, DeleteElement(m) PROVE Z!Next
  <2>1. Z!DeleteElement(m)
    BY <1>2, DeleteStep, SameZSet DEF Z!DeleteElement
  <2> QED BY <2>1, SameZSet DEF Z!Next
<1>3. ASSUME NEW m \in Member, SearchElement(m) PROVE Z!Next
  <2>1. Z!SearchElement(m)
    BY <1>3, SearchStep, SameZSet DEF Z!SearchElement
  <2> QED BY <2>1, SameZSet DEF Z!Next
<1>4. CASE Length
  <2>1. ListOK(sl) /\ sl' = sl /\ ret' = sl.length_
    BY <1>4 DEF Length, SkipListInv
  <2>2. Z!Length
    BY <2>1, LengthSound, SameCardinality, SameZSet DEF Z!Length
  <2> QED BY <2>2 DEF Z!Next
<1>5. ASSUME NEW n \in Capacities, SetMaxMemory(n) PROVE Z!Next
  <2>1. ZSetView(sl') \in Z!SetMax(ZSetView(sl), n) /\ ret' = 0
    BY <1>5, SetMaxStep, SameZSet DEF SetMaxMemory
  <2>2. Z!SetMaxMemory(n)
    BY <2>1 DEF Z!SetMaxMemory
  <2> QED BY <2>2 DEF Z!Next
<1>6. CASE Destroy
  <2>1. ZSetView(sl') = Z!NewZSet(0) /\ ret' = 0
    BY <1>6, DestroyStep, SameZSet DEF Destroy
  <2>2. Z!Destroy
    BY <2>1 DEF Z!Destroy
  <2> QED BY <2>2 DEF Z!Next
<1>7. CASE UNCHANGED vars
  BY <1>7 DEF vars, Z!vars
<1> QED BY <1>1, <1>2, <1>3, <1>4, <1>5, <1>6, <1>7 DEF Next

\* The list object implements the sorted set of module ZSetMachine: every
\* call returns what the set would and changes scores, recency and pending
\* deletions the way the set would.
THEOREM SkipListImplementsZSet == Spec => ImplementsZSet
<1>1. Init => Z!Init
  <2> SUFFICES ASSUME Init PROVE Z!Init
    OBVIOUS
  <2>1. PICK n \in Capacities : sl = NewList(n)
    BY DEF Init
  <2>2. ZSetView(sl) = Z!NewZSet(n)
    BY <2>1, SkipListCapacities, NewListSound, SameZSet
  <2>3. ret = 0
    BY DEF Init
  <2> QED BY <2>2, <2>3 DEF Z!Init
<1> QED
  BY <1>1, SkipListStepRefines, SkipListInvariant, PTL DEF Spec, ImplementsZSet, Z!Spec
=============================================================================
