--------------------------- MODULE OperatorProofs ---------------------------
(***************************************************************************)
(* Facts about the operators of modules LRUCache and ZSet, for every set   *)
(* of keys and values: what the list operations of lru.h do to the list,   *)
(* what each method keeps of a cache that is Indexed and Bounded, and what *)
(* each method of a sorted set keeps of it.                                *)
(***************************************************************************)
EXTENDS ZSet, TLAPS, SequenceTheorems, FiniteSetTheorems

-----------------------------------------------------------------------------
(***************************************************************************)
(* Induction.  The library's induction theorems take a predicate as a      *)
(* parameter; these take the set of the values that satisfy it, so that    *)
(* every prover can use them.                                              *)
(***************************************************************************)

\* Every non-empty set of natural numbers has a least element.
LEMMA LeastNumber ==
  ASSUME NEW T \in SUBSET Nat, T # {}
  PROVE  \E x \in T : \A y \in T : x <= y
<1> DEFINE R == {ss \in Nat \X Nat : ss[1] < ss[2]}
<1>1. R = OpToRel(<, Nat)
  BY Zenon DEF OpToRel
<1>2. IsWellFoundedOn(R, Nat)
  BY <1>1, NatLessThanWellFounded, Zenon
<1> HIDE DEF R
<1>3. PICK x \in T : \A y \in T : ~ << y, x >> \in R
  BY <1>2, WFMin
<1>4. ASSUME NEW y \in T PROVE x <= y
  <2>1. x \in Nat /\ y \in Nat
    OBVIOUS
  <2>2. << y, x >> \in Nat \X Nat
    BY <2>1
  <2>3. ~(y < x)
    BY <1>3, <2>2 DEF R
  <2> QED BY <2>1, <2>3
<1> QED BY <1>4

\* A loop over D that goes from q to next[q] while q is in go gets nearer to
\* its end with every step, from a distance below N.
Descends(D, go, next, rk, N) ==
  /\ go \subseteq D /\ N \in Nat /\ rk \in [D -> Nat]
  /\ \A q \in D : rk[q] < N
  /\ \A q \in go : next[q] \in D /\ rk[next[q]] < rk[q]

\* Induction along the path: such a loop keeps what holds where it stops.
LEMMA PathInduction ==
  ASSUME NEW D, NEW go, NEW next, NEW rk, NEW N, Descends(D, go, next, rk, N),
         NEW B, \A q \in D \ go : q \in B, \A q \in go : next[q] \in B => q \in B
  PROVE  D \subseteq B
<1> USE DEF Descends
<1> SUFFICES ASSUME D \ B # {} PROVE FALSE
  OBVIOUS
<1> DEFINE T == {rk[q] : q \in D \ B}
<1>1. T \subseteq Nat /\ T # {}
  OBVIOUS
<1> HIDE DEF T
<1>2. PICK n \in T : \A y \in T : n <= y
  BY <1>1, LeastNumber
<1>3. PICK q \in D \ B : rk[q] = n
  BY <1>2 DEF T
<1>4. q \in go /\ next[q] \in D \ B /\ rk[next[q]] < n
  BY <1>3
<1>5. rk[next[q]] \in T
  BY <1>4 DEF T
<1> QED BY <1>1, <1>2, <1>4, <1>5

\* The value of f at q is computed from the value at next[q], or is b[q]
\* where the loop stops.
Computes(f, D, S, go, next, F, b) ==
  /\ f \in [D -> S]
  /\ \A q \in D : f[q] = IF q \in go THEN F[q][f[next[q]]] ELSE b[q]

\* Such a loop defines a function.
LEMMA PathRecursion ==
  ASSUME NEW D, NEW go, NEW next, NEW rk, NEW N, Descends(D, go, next, rk, N),
         NEW S, NEW F \in [D -> [S -> S]], NEW b \in [D -> S]
  PROVE  \E g : Computes(g, D, S, go, next, F, b)
<1> USE DEF Descends
<1> DEFINE part(n) == {q \in D : rk[q] < n}
           ok(n, g) == /\ g \in [part(n) -> S]
                       /\ \A q \in part(n) :
                            g[q] = IF q \in go THEN F[q][g[next[q]]] ELSE b[q]
           T == {n \in Nat : \A g : ~ok(n, g)}
<1>0. T \in SUBSET Nat /\ \A n \in Nat : n \notin T <=> \E g : ok(n, g)
  OBVIOUS
<1> HIDE DEF T
<1>1. T = {}
  <2> SUFFICES ASSUME T # {} PROVE FALSE
    OBVIOUS
  <2>1. PICK n \in T : \A y \in T : n <= y
    BY <1>0, LeastNumber
  <2>2. n # 0
    <3>1. part(0) = {}
      OBVIOUS
    <3>2. ok(0, [q \in part(0) |-> b[q]])
      BY <3>1
    <3> HIDE DEF ok
    <3> QED BY <1>0, <2>1, <3>2
  <2>3. n \in Nat /\ n - 1 \in Nat /\ n - 1 \notin T
    BY <1>0, <2>1, <2>2
  <2>4. PICK g : ok(n - 1, g)
    <3> HIDE DEF ok
    <3> QED BY <1>0, <2>3
  <2> DEFINE v(q) == IF q \in go THEN F[q][g[next[q]]] ELSE b[q]
             h == [q \in part(n) |-> v(q)]
  <2>5. ASSUME NEW q \in part(n), q \in go PROVE next[q] \in part(n - 1)
    BY <2>3, <2>5
  <2>6. \A q \in part(n) : v(q) \in S
    BY <2>4, <2>5
  <2>7. \A q \in part(n - 1) : q \in part(n) /\ h[q] = g[q]
    BY <2>3, <2>4
  <2>8. \A q \in part(n) : h[q] = IF q \in go THEN F[q][h[next[q]]] ELSE b[q]
    BY <2>5, <2>7
  <2>9. ok(n, h)
    BY <2>6, <2>8
  <2> HIDE DEF ok
  <2> QED BY <1>0, <2>1, <2>9
<1>2. PICK g : ok(N, g)
  <2> HIDE DEF ok
  <2> QED BY <1>0, <1>1
<1>3. part(N) = D
  OBVIOUS
<1> QED BY <1>2, <1>3 DEF Computes

-----------------------------------------------------------------------------
(***************************************************************************)
(* The operators of module LRUCache.                                       *)
(***************************************************************************)

\* Erasing one element (std::list::erase, used by remove): which element each
\* position of the shorter list holds.
LEMMA RemoveAtElements ==
  ASSUME NEW S, NEW s \in Seq(S), NEW i \in 1..Len(s)
  PROVE  /\ RemoveAt(s, i) \in Seq(S)
         /\ Len(RemoveAt(s, i)) = Len(s) - 1
         /\ \A j \in 1..Len(s) - 1 :
              RemoveAt(s, i)[j] = IF j < i THEN s[j] ELSE s[j + 1]
<1> DEFINE p == SubSeq(s, 1, i - 1)
           q == SubSeq(s, i + 1, Len(s))
<1>1. Len(s) \in Nat /\ \A j \in 1..Len(s) : s[j] \in S
  BY LenProperties
<1>2. /\ p \in Seq(S) /\ Len(p) = i - 1
      /\ \A j \in 1..i - 1 : p[j] = s[j]
  <2>1. \A j \in 1..i - 1 : s[j] \in S
    BY <1>1
  <2> QED BY <1>1, <2>1, SubSeqProperties
<1>3. /\ q \in Seq(S) /\ Len(q) = Len(s) - i
      /\ \A j \in 1..Len(s) - i : q[j] = s[j + i]
  <2>1. \A j \in i + 1..Len(s) : s[j] \in S
    BY <1>1
  <2> QED BY <1>1, <2>1, SubSeqProperties
<1> HIDE DEF p, q
<1>4. /\ p \o q \in Seq(S) /\ Len(p \o q) = Len(p) + Len(q)
      /\ \A j \in 1..Len(p) + Len(q) :
           (p \o q)[j] = IF j <= Len(p) THEN p[j] ELSE q[j - Len(p)]
  BY <1>2, <1>3, ConcatProperties
<1>5. RemoveAt(s, i) = p \o q
  BY DEF RemoveAt, p, q
<1>6. ASSUME NEW j \in 1..Len(s) - 1
      PROVE  (p \o q)[j] = IF j < i THEN s[j] ELSE s[j + 1]
  <2>1. CASE j < i
    BY <1>1, <1>2, <1>3, <1>4, <2>1
  <2>2. CASE j >= i
    <3>1. j - (i - 1) \in 1..Len(s) - i /\ j - (i - 1) + i = j + 1
      BY <1>1, <2>2
    <3>2. (p \o q)[j] = q[j - (i - 1)]
      BY <1>1, <1>2, <1>3, <1>4, <2>2
    <3>3. q[j - (i - 1)] = s[j + 1]
      BY <1>3, <3>1
    <3> QED BY <1>1, <2>2, <3>2, <3>3
  <2>3. j < i \/ j >= i
    BY <1>1
  <2> QED BY <2>1, <2>2, <2>3
<1> QED
  BY <1>1, <1>2, <1>3, <1>4, <1>5, <1>6

\* Splicing one element to the front (lru.splice, used by get and put): which
\* element each position of the new list holds.
LEMMA MoveToFrontElements ==
  ASSUME NEW S, NEW s \in Seq(S), NEW i \in 1..Len(s)
  PROVE  /\ MoveToFront(s, i) \in Seq(S)
         /\ Len(MoveToFront(s, i)) = Len(s)
         /\ MoveToFront(s, i)[1] = s[i]
         /\ \A j \in 2..Len(s) :
              MoveToFront(s, i)[j] = IF j <= i THEN s[j - 1] ELSE s[j]
<1> DEFINE r == RemoveAt(s, i)
           h == << s[i] >>
<1>1. Len(s) \in Nat /\ s[i] \in S
  BY LenProperties
<1>2. /\ r \in Seq(S) /\ Len(r) = Len(s) - 1
      /\ \A j \in 1..Len(s) - 1 : r[j] = IF j < i THEN s[j] ELSE s[j + 1]
  BY RemoveAtElements
<1>3. h \in Seq(S) /\ Len(h) = 1 /\ h[1] = s[i]
  BY <1>1
<1> HIDE DEF r, h
<1>4. /\ h \o r \in Seq(S) /\ Len(h \o r) = Len(h) + Len(r)
      /\ \A j \in 1..Len(h) + Len(r) :
           (h \o r)[j] = IF j <= Len(h) THEN h[j] ELSE r[j - Len(h)]
  BY <1>2, <1>3, ConcatProperties
<1>5. MoveToFront(s, i) = h \o r
  BY DEF MoveToFront, h, r
<1>6. ASSUME NEW j \in 2..Len(s)
      PROVE  (h \o r)[j] = IF j <= i THEN s[j - 1] ELSE s[j]
  <2>1. (h \o r)[j] = r[j - 1] /\ j - 1 \in 1..Len(s) - 1
    BY <1>1, <1>2, <1>3, <1>4
  <2> QED BY <1>1, <1>2, <2>1
<1> QED
  BY <1>1, <1>2, <1>3, <1>4, <1>5, <1>6

\* lru.push_front: which element each position of the longer list holds.
LEMMA PushElements ==
  ASSUME NEW S, NEW s \in Seq(S), NEW e \in S
  PROVE  /\ << e >> \o s \in Seq(S)
         /\ Len(<< e >> \o s) = Len(s) + 1
         /\ (<< e >> \o s)[1] = e
         /\ \A j \in 2..Len(s) + 1 : (<< e >> \o s)[j] = s[j - 1]
<1> DEFINE h == << e >>
<1>1. h \in Seq(S) /\ Len(h) = 1 /\ h[1] = e
  OBVIOUS
<1>2. Len(s) \in Nat
  BY LenProperties
<1> HIDE DEF h
<1>3. /\ h \o s \in Seq(S) /\ Len(h \o s) = Len(h) + Len(s)
      /\ \A j \in 1..Len(h) + Len(s) :
           (h \o s)[j] = IF j <= Len(h) THEN h[j] ELSE s[j - Len(h)]
  BY <1>1, ConcatProperties
<1>4. /\ h \o s \in Seq(S) /\ Len(h \o s) = Len(s) + 1 /\ (h \o s)[1] = e
      /\ \A j \in 2..Len(s) + 1 : (h \o s)[j] = s[j - 1]
  BY <1>1, <1>2, <1>3
<1> QED
  BY <1>4 DEF h

\* What is left after erasing from the end of the list (the eviction in put
\* and the loop of set_capacity) is a prefix.
LEMMA PrefixElements ==
  ASSUME NEW S, NEW s \in Seq(S), NEW n \in 0..Len(s)
  PROVE  /\ SubSeq(s, 1, n) \in Seq(S)
         /\ Len(SubSeq(s, 1, n)) = n
         /\ \A j \in 1..n : SubSeq(s, 1, n)[j] = s[j]
<1>1. Len(s) \in Nat /\ \A j \in 1..n : s[j] \in S
  BY LenProperties
<1> QED
  BY <1>1, SubSeqProperties

\* cache.size(), which put and set_capacity compare with the capacity, is the
\* length of the list.
LEMMA CacheSize ==
  ASSUME NEW c \in Cache, Indexed(c)
  PROVE  IsFiniteSet(c.cache) /\ Cardinality(c.cache) = Len(c.lru)
<1> DEFINE I == 1..Len(c.lru)
           f == [i \in I |-> c.lru[i].key]
<1>1. c.lru \in Seq(Entry) /\ Len(c.lru) \in Nat /\ DOMAIN c.lru = I
  BY LenProperties DEF Cache
<1>2. f \in Bijection(I, c.cache)
  <2>1. c.cache = {c.lru[i].key : i \in I}
    BY <1>1 DEF Indexed, KeysOf
  <2>2. f \in [I -> c.cache]
    BY <2>1
  <2>3. \A i, j \in I : f[i] = f[j] => i = j
    BY <1>1 DEF Indexed
  <2>4. \A k \in c.cache : \E i \in I : f[i] = k
    BY <2>1
  <2> HIDE DEF f
  <2> QED
    BY <2>2, <2>3, <2>4 DEF Bijection, Injection, Surjection, IsInjective
<1>3. IsFiniteSet(I) /\ Cardinality(I) = Len(c.lru)
  <2>1. 1 \in Int /\ Len(c.lru) \in Int
    BY <1>1
  <2>2. /\ IsFiniteSet(I)
        /\ Cardinality(I) = IF 1 > Len(c.lru) THEN 0 ELSE Len(c.lru) - 1 + 1
    BY <2>1, FS_Interval
  <2> QED BY <1>1, <2>2
<1> HIDE DEF f
<1>4. ExistsBijection(I, c.cache)
  BY <1>2 DEF ExistsBijection
<1> QED
  BY <1>3, <1>4, FS_Bijection

\* The iterator that the index stores for a key points at that key's entry.
LEMMA PositionOf ==
  ASSUME NEW c \in Cache, Indexed(c), NEW k \in c.cache
  PROVE  Position(c, k) \in 1..Len(c.lru) /\ c.lru[Position(c, k)].key = k
<1>1. DOMAIN c.lru = 1..Len(c.lru)
  BY LenProperties DEF Cache
<1>2. \E i \in 1..Len(c.lru) : c.lru[i].key = k
  BY <1>1 DEF Indexed, KeysOf
<1> QED
  BY <1>1, <1>2 DEF Position

\* No key is listed twice.
Distinct(s) == \A i, j \in DOMAIN s : s[i].key = s[j].key => i = j

\* Two lists that show the same entries of a third one have the same sets of
\* entries and of keys.
LEMMA Reindexed ==
  ASSUME NEW s \in Seq(Entry), NEW t \in Seq(Entry), NEW A \in SUBSET DOMAIN s,
         \A j \in DOMAIN t : \E i \in A : t[j] = s[i],
         \A i \in A : \E j \in DOMAIN t : t[j] = s[i]
  PROVE  ToSet(t) = {s[i] : i \in A} /\ KeysOf(t) = {s[i].key : i \in A}
<1>1. ASSUME NEW x \in ToSet(t) PROVE x \in {s[i] : i \in A}
  <2>1. PICK j \in DOMAIN t : x = t[j]
    BY DEF ToSet
  <2> QED BY <2>1
<1>2. ASSUME NEW x \in {s[i] : i \in A} PROVE x \in ToSet(t)
  <2>1. PICK i \in A : x = s[i]
    OBVIOUS
  <2>2. PICK j \in DOMAIN t : t[j] = s[i]
    OBVIOUS
  <2> QED BY <2>1, <2>2 DEF ToSet
<1>3. ASSUME NEW x \in KeysOf(t) PROVE x \in {s[i].key : i \in A}
  <2>1. PICK j \in DOMAIN t : x = t[j].key
    BY DEF KeysOf
  <2>2. PICK i \in A : t[j] = s[i]
    OBVIOUS
  <2> QED BY <2>1, <2>2
<1>4. ASSUME NEW x \in {s[i].key : i \in A} PROVE x \in KeysOf(t)
  <2>1. PICK i \in A : x = s[i].key
    OBVIOUS
  <2>2. PICK j \in DOMAIN t : t[j] = s[i]
    OBVIOUS
  <2> QED BY <2>1, <2>2 DEF KeysOf
<1>5. ToSet(t) = {s[i] : i \in A}
  BY <1>1, <1>2
<1>6. KeysOf(t) = {s[i].key : i \in A}
  BY <1>3, <1>4
<1> QED BY <1>5, <1>6

\* A splice changes neither the entries nor the keys, and repeats no key.
LEMMA MoveToFrontKeys ==
  ASSUME NEW s \in Seq(Entry), Distinct(s), NEW i \in 1..Len(s)
  PROVE  /\ ToSet(MoveToFront(s, i)) = ToSet(s)
         /\ KeysOf(MoveToFront(s, i)) = KeysOf(s)
         /\ Distinct(MoveToFront(s, i))
<1> DEFINE t == MoveToFront(s, i)
           src(j) == IF j = 1 THEN i ELSE IF j <= i THEN j - 1 ELSE j
           dst(j) == IF j = i THEN 1 ELSE IF j < i THEN j + 1 ELSE j
<1>1. Len(s) \in Nat /\ DOMAIN s = 1..Len(s)
  BY LenProperties
<1>2. /\ t \in Seq(Entry) /\ Len(t) = Len(s) /\ t[1] = s[i]
      /\ \A j \in 2..Len(s) : t[j] = IF j <= i THEN s[j - 1] ELSE s[j]
  BY MoveToFrontElements
<1>3. DOMAIN t = 1..Len(s)
  BY <1>2, LenProperties
<1> HIDE DEF t
<1>4. \A j \in 1..Len(s) : src(j) \in 1..Len(s) /\ t[j] = s[src(j)]
  BY <1>1, <1>2
<1>5. \A j \in 1..Len(s) : dst(j) \in 1..Len(s) /\ src(dst(j)) = j
  BY <1>1
<1>6. \A j, k \in 1..Len(s) : src(j) = src(k) => j = k
  BY <1>1
<1> HIDE DEF src, dst
<1>7. \A j \in 1..Len(s) : dst(j) \in 1..Len(s) /\ t[dst(j)] = s[j]
  BY <1>4, <1>5
<1>8. ToSet(t) = ToSet(s) /\ KeysOf(t) = KeysOf(s)
  <2>1. \A j \in DOMAIN t : \E k \in DOMAIN s : t[j] = s[k]
    BY <1>1, <1>3, <1>4
  <2>2. \A k \in DOMAIN s : \E j \in DOMAIN t : t[j] = s[k]
    BY <1>1, <1>3, <1>7
  <2>3. DOMAIN s \in SUBSET DOMAIN s
    OBVIOUS
  <2> QED BY <1>2, <2>1, <2>2, <2>3, Reindexed DEF ToSet, KeysOf
<1>10. Distinct(t)
  BY <1>1, <1>3, <1>4, <1>6 DEF Distinct
<1> QED
  BY <1>8, <1>10 DEF t

\* Erasing an entry takes exactly that entry and its key out of the list.
LEMMA RemoveAtKeys ==
  ASSUME NEW s \in Seq(Entry), Distinct(s), NEW i \in 1..Len(s)
  PROVE  /\ ToSet(RemoveAt(s, i)) = ToSet(s) \ {s[i]}
         /\ KeysOf(RemoveAt(s, i)) = KeysOf(s) \ {s[i].key}
         /\ Distinct(RemoveAt(s, i))
<1> DEFINE t == RemoveAt(s, i)
           src(j) == IF j < i THEN j ELSE j + 1
           dst(j) == IF j < i THEN j ELSE j - 1
<1>1. Len(s) \in Nat /\ DOMAIN s = 1..Len(s)
  BY LenProperties
<1>2. /\ t \in Seq(Entry) /\ Len(t) = Len(s) - 1
      /\ \A j \in 1..Len(s) - 1 : t[j] = IF j < i THEN s[j] ELSE s[j + 1]
  BY RemoveAtElements
<1>3. DOMAIN t = 1..Len(s) - 1
  BY <1>2, LenProperties
<1> HIDE DEF t
<1>4. \A j \in 1..Len(s) - 1 :
        src(j) \in 1..Len(s) /\ src(j) # i /\ t[j] = s[src(j)]
  BY <1>1, <1>2
<1>5. \A j \in 1..Len(s) : j # i => dst(j) \in 1..Len(s) - 1 /\ src(dst(j)) = j
  BY <1>1
<1>6. \A j, k \in 1..Len(s) - 1 : src(j) = src(k) => j = k
  BY <1>1
<1> HIDE DEF src, dst
<1>7. \A j \in 1..Len(s) : j # i => dst(j) \in 1..Len(s) - 1 /\ t[dst(j)] = s[j]
  BY <1>4, <1>5
<1>8. \A j \in 1..Len(s) : j # i => s[j].key # s[i].key
  BY <1>1 DEF Distinct
<1>9. /\ ToSet(t) = {s[j] : j \in DOMAIN s \ {i}}
      /\ KeysOf(t) = {s[j].key : j \in DOMAIN s \ {i}}
  <2>1. \A j \in DOMAIN t : \E k \in DOMAIN s \ {i} : t[j] = s[k]
    BY <1>1, <1>3, <1>4
  <2>2. \A k \in DOMAIN s \ {i} : \E j \in DOMAIN t : t[j] = s[k]
    BY <1>1, <1>3, <1>7
  <2>3. DOMAIN s \ {i} \in SUBSET DOMAIN s
    OBVIOUS
  <2> QED BY <1>2, <2>1, <2>2, <2>3, Reindexed
<1>10. /\ ToSet(t) = ToSet(s) \ {s[i]}
       /\ KeysOf(t) = KeysOf(s) \ {s[i].key}
  BY <1>1, <1>8, <1>9 DEF ToSet, KeysOf
<1>11. Distinct(t)
  BY <1>1, <1>3, <1>4, <1>6 DEF Distinct
<1> QED
  BY <1>10, <1>11 DEF t

\* Pushing an entry with a new key adds exactly that entry and that key.
LEMMA PushKeys ==
  ASSUME NEW s \in Seq(Entry), Distinct(s), NEW e \in Entry, e.key \notin KeysOf(s)
  PROVE  /\ ToSet(<< e >> \o s) = ToSet(s) \cup {e}
         /\ KeysOf(<< e >> \o s) = KeysOf(s) \cup {e.key}
         /\ Distinct(<< e >> \o s)
<1> DEFINE t == << e >> \o s
<1>1. Len(s) \in Nat /\ DOMAIN s = 1..Len(s)
  BY LenProperties
<1>2. /\ t \in Seq(Entry) /\ Len(t) = Len(s) + 1 /\ t[1] = e
      /\ \A j \in 2..Len(s) + 1 : t[j] = s[j - 1]
  BY PushElements
<1>3. DOMAIN t = 1..Len(s) + 1
  BY <1>2, LenProperties
<1> HIDE DEF t
<1>4. \A j \in 1..Len(s) : j + 1 \in 2..Len(s) + 1 /\ t[j + 1] = s[j]
  BY <1>1, <1>2
<1>5. \A j \in 1..Len(s) + 1 : j = 1 \/ (j - 1 \in 1..Len(s) /\ t[j] = s[j - 1])
  BY <1>1, <1>2
<1>6. 1 \in 1..Len(s) + 1 /\ \A j \in 2..Len(s) + 1 : j \in 1..Len(s) + 1
  BY <1>1
<1>7. \A j \in 1..Len(s) : s[j].key # e.key
  BY <1>1 DEF KeysOf
<1>8. ToSet(t) = ToSet(s) \cup {e}
  <2>1. ASSUME NEW x \in ToSet(t) PROVE x \in ToSet(s) \cup {e}
    <3>1. PICK j \in 1..Len(s) + 1 : x = t[j]
      BY <1>3 DEF ToSet
    <3> QED BY <1>1, <1>2, <1>5, <3>1 DEF ToSet
  <2>2. ASSUME NEW x \in ToSet(s) PROVE x \in ToSet(t)
    <3>1. PICK j \in 1..Len(s) : x = s[j]
      BY <1>1 DEF ToSet
    <3>2. j + 1 \in DOMAIN t /\ x = t[j + 1]
      BY <1>3, <1>4, <1>6, <3>1
    <3> QED BY <3>2 DEF ToSet
  <2>3. e \in ToSet(t)
    BY <1>2, <1>3, <1>6 DEF ToSet
  <2> QED BY <2>1, <2>2, <2>3
<1>9. KeysOf(t) = KeysOf(s) \cup {e.key}
  <2>1. ASSUME NEW x \in KeysOf(t) PROVE x \in KeysOf(s) \cup {e.key}
    <3>1. PICK j \in 1..Len(s) + 1 : x = t[j].key
      BY <1>3 DEF KeysOf
    <3> QED BY <1>1, <1>2, <1>5, <3>1 DEF KeysOf
  <2>2. ASSUME NEW x \in KeysOf(s) PROVE x \in KeysOf(t)
    <3>1. PICK j \in 1..Len(s) : x = s[j].key
      BY <1>1 DEF KeysOf
    <3>2. j + 1 \in DOMAIN t /\ x = t[j + 1].key
      BY <1>3, <1>4, <1>6, <3>1
    <3> QED BY <3>2 DEF KeysOf
  <2>3. e.key \in KeysOf(t)
    BY <1>2, <1>3, <1>6 DEF KeysOf
  <2> QED BY <2>1, <2>2, <2>3
<1>10. Distinct(t)
  <2> SUFFICES ASSUME NEW j \in 1..Len(s) + 1, NEW k \in 1..Len(s) + 1,
                      t[j].key = t[k].key
               PROVE  j = k
    BY <1>3 DEF Distinct
  <2>1. CASE j = 1 \/ k = 1
    BY <1>2, <1>5, <1>7, <2>1
  <2>2. CASE j # 1 /\ k # 1
    <3>1. j - 1 = k - 1
      BY <1>1, <1>5, <2>2 DEF Distinct
    <3> QED BY <1>1, <3>1
  <2> QED BY <2>1, <2>2
<1> QED
  BY <1>8, <1>9, <1>10 DEF t

\* A prefix of the list has lost exactly the keys of the erased suffix.
LEMMA PrefixKeys ==
  ASSUME NEW s \in Seq(Entry), Distinct(s), NEW n \in 0..Len(s)
  PROVE  /\ ToSet(SubSeq(s, 1, n)) \subseteq ToSet(s)
         /\ KeysOf(SubSeq(s, 1, n)) =
              KeysOf(s) \ {s[i].key : i \in n + 1..Len(s)}
         /\ Distinct(SubSeq(s, 1, n))
<1> DEFINE t == SubSeq(s, 1, n)
<1>1. Len(s) \in Nat /\ DOMAIN s = 1..Len(s)
  BY LenProperties
<1>2. /\ t \in Seq(Entry) /\ Len(t) = n
      /\ \A j \in 1..n : t[j] = s[j]
  BY PrefixElements
<1>3. DOMAIN t = 1..n
  BY <1>2, LenProperties
<1> HIDE DEF t
<1>4. \A j \in 1..n : j \in 1..Len(s) /\ j \notin n + 1..Len(s)
  BY <1>1
<1>5. \A j \in 1..Len(s) : j \in 1..n \/ j \in n + 1..Len(s)
  BY <1>1
<1>6. \A j \in n + 1..Len(s) : j \in 1..Len(s)
  BY <1>1
<1>7. ToSet(t) \subseteq ToSet(s)
  BY <1>1, <1>2, <1>3, <1>4 DEF ToSet
<1>8. KeysOf(t) = KeysOf(s) \ {s[i].key : i \in n + 1..Len(s)}
  BY <1>1, <1>2, <1>3, <1>4, <1>5, <1>6 DEF KeysOf, Distinct
<1>9. Distinct(t)
  BY <1>1, <1>2, <1>3, <1>4 DEF Distinct
<1> QED
  BY <1>7, <1>8, <1>9 DEF t

\* get keeps the object consistent and within its bound, and changes nothing
\* but the order of the list.
LEMMA GetSound ==
  ASSUME NEW c \in Cache, Indexed(c), Bounded(c), NEW k
  PROVE  /\ get(c, k) \in Cache
         /\ Indexed(get(c, k))
         /\ Bounded(get(c, k))
         /\ ToSet(get(c, k).lru) = ToSet(c.lru)
         /\ get(c, k).cache = c.cache
         /\ get(c, k).capacity = c.capacity
         /\ get(c, k).delete_keys = c.delete_keys
<1>1. CASE k \notin c.cache
  BY <1>1 DEF get
<1>2. CASE k \in c.cache
  <2> DEFINE p == Position(c, k)
             t == MoveToFront(c.lru, p)
  <2>1. get(c, k) = [c EXCEPT !.lru = t]
    BY <1>2 DEF get
  <2>2. p \in 1..Len(c.lru)
    BY <1>2, PositionOf
  <2>3. c.lru \in Seq(Entry) /\ Distinct(c.lru)
    BY DEF Cache, Indexed, Distinct
  <2> HIDE DEF p
  <2>4. t \in Seq(Entry) /\ Len(t) = Len(c.lru)
    BY <2>2, <2>3, MoveToFrontElements
  <2>5. ToSet(t) = ToSet(c.lru) /\ KeysOf(t) = KeysOf(c.lru) /\ Distinct(t)
    BY <2>2, <2>3, MoveToFrontKeys
  <2> HIDE DEF t
  <2> QED
    BY <2>1, <2>4, <2>5 DEF Cache, Indexed, Bounded, Distinct
<1> QED BY <1>1, <1>2

\* remove keeps the object consistent and takes out exactly one key.
LEMMA RemoveSound ==
  ASSUME NEW c \in Cache, Indexed(c), Bounded(c), NEW k
  PROVE  /\ remove(c, k) \in Cache
         /\ Indexed(remove(c, k))
         /\ Bounded(remove(c, k))
         /\ ToSet(remove(c, k).lru) \subseteq ToSet(c.lru)
         /\ remove(c, k).cache = c.cache \ {k}
         /\ remove(c, k).capacity = c.capacity
         /\ remove(c, k).delete_keys = c.delete_keys
<1>1. CASE k \notin c.cache
  BY <1>1 DEF remove
<1>2. CASE k \in c.cache
  <2> DEFINE p == Position(c, k)
             t == RemoveAt(c.lru, p)
  <2>1. remove(c, k) = [c EXCEPT !.lru = t, !.cache = c.cache \ {k}]
    BY <1>2 DEF remove
  <2>2. p \in 1..Len(c.lru) /\ c.lru[p].key = k
    BY <1>2, PositionOf
  <2>3. c.lru \in Seq(Entry) /\ Distinct(c.lru) /\ Len(c.lru) \in Nat
    BY LenProperties DEF Cache, Indexed, Distinct
  <2> HIDE DEF p
  <2>4. t \in Seq(Entry) /\ Len(t) = Len(c.lru) - 1
    BY <2>2, <2>3, RemoveAtElements
  <2>5. /\ ToSet(t) = ToSet(c.lru) \ {c.lru[p]}
        /\ KeysOf(t) = KeysOf(c.lru) \ {k}
        /\ Distinct(t)
    BY <2>2, <2>3, RemoveAtKeys
  <2> HIDE DEF t
  <2>6. c.capacity \in Nat
    BY DEF Cache
  <2>7. remove(c, k) \in Cache /\ Indexed(remove(c, k))
    BY <2>1, <2>4, <2>5 DEF Cache, Indexed, Distinct
  <2>8. Bounded(remove(c, k))
    BY <2>1, <2>3, <2>4, <2>6 DEF Cache, Bounded
  <2> QED
    BY <2>1, <2>5, <2>7, <2>8 DEF Cache
<1> QED BY <1>1, <1>2

\* The push_front and insert at the end of put, when there is room for one
\* more entry.
LEMMA PushFrontSound ==
  ASSUME NEW c \in Cache, Indexed(c), NEW k \in Key, NEW v \in Value,
         k \notin c.cache, c.capacity > 0 => Len(c.lru) < c.capacity
  PROVE  /\ PushFront(c, k, v) \in Cache
         /\ Indexed(PushFront(c, k, v))
         /\ Bounded(PushFront(c, k, v))
         /\ ToSet(PushFront(c, k, v).lru) =
              ToSet(c.lru) \cup {[key |-> k, value |-> v]}
         /\ PushFront(c, k, v).cache = c.cache \cup {k}
         /\ PushFront(c, k, v).capacity = c.capacity
         /\ PushFront(c, k, v).delete_keys = c.delete_keys
<1> DEFINE e == [key |-> k, value |-> v]
           t == << e >> \o c.lru
<1>1. PushFront(c, k, v) = [c EXCEPT !.cache = c.cache \cup {k}, !.lru = t]
  BY DEF PushFront
<1>2. e \in Entry /\ e.key = k
  BY DEF Entry
<1>3. /\ c.lru \in Seq(Entry) /\ Distinct(c.lru) /\ k \notin KeysOf(c.lru)
      /\ Len(c.lru) \in Nat /\ c.capacity \in Nat
  BY LenProperties DEF Cache, Indexed, Distinct
<1> HIDE DEF e
<1>4. t \in Seq(Entry) /\ Len(t) = Len(c.lru) + 1
  BY <1>2, <1>3, PushElements
<1>5. /\ ToSet(t) = ToSet(c.lru) \cup {e}
      /\ KeysOf(t) = KeysOf(c.lru) \cup {k}
      /\ Distinct(t)
  BY <1>2, <1>3, PushKeys
<1> HIDE DEF t
<1>6. PushFront(c, k, v) \in Cache /\ Indexed(PushFront(c, k, v))
  <2> DEFINE d == PushFront(c, k, v)
  <2>1. d \in Cache /\ d.lru = t /\ d.cache = c.cache \cup {k}
    BY <1>1, <1>4 DEF Cache
  <2> HIDE DEF d
  <2>2. Indexed(d)
    BY <1>5, <2>1 DEF Indexed, Distinct
  <2> QED BY <2>1, <2>2 DEF d
<1>7. Bounded(PushFront(c, k, v))
  BY <1>1, <1>3, <1>4 DEF Cache, Bounded
<1> QED
  BY <1>1, <1>5, <1>6, <1>7 DEF Cache, e

\* The eviction in put: it only happens to a non-empty list, makes room for
\* one entry and records what it read from the erased entry.
LEMMA EvictLastSound ==
  ASSUME NEW c \in Cache, Indexed(c), Full(c),
         NEW read \in ReadErased(Last(c.lru).key)
  PROVE  /\ c.lru # << >>
         /\ Last(c.lru) \in ToSet(c.lru)
         /\ Last(c.lru).key \in c.cache
         /\ EvictLast(c, read) \in Cache
         /\ Indexed(EvictLast(c, read))
         /\ EvictLast(c, read).capacity = c.capacity
         /\ Len(EvictLast(c, read).lru) < c.capacity
         /\ ToSet(EvictLast(c, read).lru) \subseteq ToSet(c.lru)
         /\ EvictLast(c, read).cache = c.cache \ {Last(c.lru).key}
         /\ EvictLast(c, read).delete_keys = Append(c.delete_keys, read)
<1> DEFINE n == Len(c.lru)
           t == SubSeq(c.lru, 1, n - 1)
           d == EvictLast(c, read)
<1>1. /\ c.lru \in Seq(Entry) /\ Distinct(c.lru) /\ n \in Nat
      /\ DOMAIN c.lru = 1..n /\ c.capacity \in Nat
      /\ c.delete_keys \in Seq(Key \cup {Garbage})
  BY LenProperties DEF Cache, Indexed, Distinct
<1>2. n = c.capacity /\ n > 0 /\ n \in 1..n /\ n - 1 \in 0..n
  BY <1>1, CacheSize DEF Full
<1>3. /\ Last(c.lru) = c.lru[n] /\ Last(c.lru) \in ToSet(c.lru)
      /\ Last(c.lru).key \in c.cache /\ Last(c.lru) \in Entry
  <2>1. Last(c.lru) = c.lru[n] /\ n \in DOMAIN c.lru
    BY <1>1, <1>2 DEF Last
  <2> QED BY <1>1, <2>1, ElementOfSeq DEF ToSet, Indexed, KeysOf
<1>4. read \in Key \cup {Garbage}
  BY <1>3 DEF ReadErased, Entry
<1>5. Append(c.delete_keys, read) \in Seq(Key \cup {Garbage})
  BY <1>1, <1>4, AppendProperties
<1>6. t \in Seq(Entry) /\ Len(t) = n - 1
  BY <1>1, <1>2, PrefixElements
<1>7. /\ ToSet(t) \subseteq ToSet(c.lru) /\ Distinct(t)
      /\ KeysOf(t) = KeysOf(c.lru) \ {Last(c.lru).key}
  <2>1. n - 1 + 1..n = {n}
    BY <1>1
  <2> QED BY <1>1, <1>2, <1>3, <2>1, PrefixKeys
<1>8. d = [c EXCEPT !.cache = c.cache \ {Last(c.lru).key}, !.lru = t,
                    !.delete_keys = Append(c.delete_keys, read)]
  BY DEF EvictLast, Front
<1>9. /\ d.lru = t /\ d.cache = c.cache \ {Last(c.lru).key}
      /\ d.capacity = c.capacity /\ d.delete_keys = Append(c.delete_keys, read)
  BY <1>8 DEF Cache
<1>10. d \in Cache
  BY <1>5, <1>6, <1>8 DEF Cache
<1> HIDE DEF t, d
<1>11. Indexed(d)
  BY <1>7, <1>9 DEF Indexed, Distinct
<1>12. c.lru # << >>
  BY <1>2
<1>13. Len(d.lru) < c.capacity
  BY <1>1, <1>2, <1>6, <1>9
<1> QED
  BY <1>3, <1>7, <1>9, <1>10, <1>11, <1>12, <1>13 DEF d

\* put of a key that is not cached keeps the object consistent and within
\* its bound; it evicts at most the last entry of the list.
LEMMA PutNewSound ==
  ASSUME NEW c \in Cache, Indexed(c), Bounded(c), NEW k \in Key, NEW v \in Value,
         k \notin c.cache, NEW d \in put(c, k, v)
  PROVE  /\ d \in Cache /\ Indexed(d) /\ Bounded(d)
         /\ d.capacity = c.capacity
         /\ ToSet(d.lru) \subseteq ToSet(c.lru) \cup {[key |-> k, value |-> v]}
         /\ ~Full(c) => /\ d.cache = c.cache \cup {k}
                        /\ d.delete_keys = c.delete_keys
         /\ Full(c) => /\ d.cache = (c.cache \ {Last(c.lru).key}) \cup {k}
                       /\ \E read \in ReadErased(Last(c.lru).key) :
                            d.delete_keys = Append(c.delete_keys, read)
<1>1. CASE ~Full(c)
  <2>1. d = PushFront(c, k, v)
    BY <1>1 DEF put
  <2>2. Len(c.lru) \in Nat /\ c.capacity \in Nat
    BY LenProperties DEF Cache
  <2>3. c.capacity > 0 => Len(c.lru) < c.capacity
    BY <1>1, <2>2, CacheSize DEF Full, Bounded
  <2> QED BY <1>1, <2>1, <2>3, PushFrontSound
<1>2. CASE Full(c)
  <2>1. PICK read \in ReadErased(Last(c.lru).key) :
          d = PushFront(EvictLast(c, read), k, v)
    BY <1>2 DEF put
  <2> DEFINE b == EvictLast(c, read)
  <2>2. /\ c.lru # << >> /\ b \in Cache /\ Indexed(b)
        /\ b.capacity = c.capacity /\ Len(b.lru) < c.capacity
        /\ ToSet(b.lru) \subseteq ToSet(c.lru)
        /\ b.cache = c.cache \ {Last(c.lru).key}
        /\ b.delete_keys = Append(c.delete_keys, read)
    BY <1>2, EvictLastSound
  <2> HIDE DEF b
  <2>3. k \notin b.cache /\ (b.capacity > 0 => Len(b.lru) < b.capacity)
    BY <2>2
  <2>4. d = PushFront(b, k, v)
    BY <2>1 DEF b
  <2>5. /\ d \in Cache /\ Indexed(d) /\ Bounded(d)
        /\ ToSet(d.lru) = ToSet(b.lru) \cup {[key |-> k, value |-> v]}
        /\ d.cache = b.cache \cup {k}
        /\ d.capacity = b.capacity
        /\ d.delete_keys = b.delete_keys
    BY <2>2, <2>3, <2>4, PushFrontSound
  <2> QED BY <1>2, <2>2, <2>5
<1> QED BY <1>1, <1>2

\* Assigning to the value of an entry in place changes no key.
LEMMA RevaluedKeys ==
  ASSUME NEW s \in Seq(Entry), NEW p \in 1..Len(s), NEW v \in Value
  PROVE  /\ [s EXCEPT ![p].value = v] \in Seq(Entry)
         /\ Len([s EXCEPT ![p].value = v]) = Len(s)
         /\ \A j \in 1..Len(s) : [s EXCEPT ![p].value = v][j].key = s[j].key
<1> DEFINE e == [s[p] EXCEPT !.value = v]
           t == [s EXCEPT ![p].value = v]
<1>1. s[p] \in Entry
  BY LenProperties
<1>2. e \in Entry /\ e.key = s[p].key
  BY <1>1 DEF Entry
<1>3. t = [s EXCEPT ![p] = e]
  OBVIOUS
<1> HIDE DEF e, t
<1>4. /\ t \in Seq(Entry) /\ Len(t) = Len(s)
      /\ \A j \in 1..Len(s) : t[j] = IF j = p THEN e ELSE s[j]
  BY <1>2, <1>3, ExceptSeq
<1>5. \A j \in 1..Len(s) : t[j].key = s[j].key
  BY <1>2, <1>4
<1> QED BY <1>4, <1>5 DEF t

\* put of a cached key keeps the object consistent and evicts nothing.
LEMMA RefreshSound ==
  ASSUME NEW c \in Cache, Indexed(c), Bounded(c), NEW k \in c.cache, NEW v \in Value
  PROVE  /\ Refresh(c, k, v) \in Cache
         /\ Indexed(Refresh(c, k, v))
         /\ Bounded(Refresh(c, k, v))
         /\ Refresh(c, k, v).cache = c.cache
         /\ Refresh(c, k, v).delete_keys = c.delete_keys
<1> DEFINE p == Position(c, k)
           s == [c.lru EXCEPT ![p].value = v]
           t == MoveToFront(s, p)
           d == Refresh(c, k, v)
<1>1. p \in 1..Len(c.lru) /\ c.lru[p].key = k
  BY PositionOf
<1>2. /\ c.lru \in Seq(Entry) /\ Distinct(c.lru) /\ DOMAIN c.lru = 1..Len(c.lru)
      /\ Len(c.lru) \in Nat
  BY LenProperties DEF Cache, Indexed, Distinct
<1>3. d = [c EXCEPT !.lru = t]
  BY DEF Refresh
<1> HIDE DEF p, d
<1>5. /\ s \in Seq(Entry) /\ Len(s) = Len(c.lru)
      /\ \A j \in 1..Len(c.lru) : s[j].key = c.lru[j].key
  BY <1>1, <1>2, RevaluedKeys
<1> HIDE DEF s
<1>6. DOMAIN s = 1..Len(c.lru)
  BY <1>5, LenProperties
<1>7. Distinct(s) /\ KeysOf(s) = KeysOf(c.lru)
  <2>1. Distinct(s)
    BY <1>2, <1>5, <1>6 DEF Distinct
  <2>2. KeysOf(s) = KeysOf(c.lru)
    BY <1>2, <1>5, <1>6 DEF KeysOf
  <2> QED BY <2>1, <2>2
<1>8. /\ t \in Seq(Entry) /\ Len(t) = Len(c.lru)
      /\ Distinct(t) /\ KeysOf(t) = KeysOf(c.lru)
  BY <1>1, <1>5, <1>7, MoveToFrontElements, MoveToFrontKeys
<1> HIDE DEF t
<1>9. d \in Cache /\ d.lru = t /\ d.cache = c.cache /\ d.capacity = c.capacity
      /\ d.delete_keys = c.delete_keys
  BY <1>3, <1>8 DEF Cache
<1>10. Indexed(d) /\ Bounded(d)
  BY <1>8, <1>9 DEF Indexed, Bounded, Distinct
<1> QED BY <1>9, <1>10 DEF d

\* The entries that the loop of set_capacity erases, in the order it erases
\* them.
LEMMA VictimKeys ==
  ASSUME NEW s \in Seq(Entry), NEW n \in 0..Len(s),
         NEW victims, victims = Reverse(SubSeq(s, n + 1, Len(s)))
  PROVE  /\ victims \in Seq(Entry)
         /\ DOMAIN victims = 1..Len(s) - n
         /\ \A j \in 1..Len(s) - n : victims[j] = s[Len(s) + 1 - j]
         /\ KeysOf(victims) = {s[i].key : i \in n + 1..Len(s)}
<1> DEFINE t == SubSeq(s, n + 1, Len(s))
           m == Len(s) - n
<1>1. Len(s) \in Nat /\ m \in Nat /\ \A i \in 1..Len(s) : s[i] \in Entry
  BY LenProperties
<1>2. /\ Len(t) = m
      /\ \A i \in 1..m : t[i] = s[n + i]
  <2>1. \A i \in n + 1..Len(s) : s[i] \in Entry
    BY <1>1
  <2>2. n + 1 \in Int /\ Len(s) \in Int
    BY <1>1
  <2>3. /\ Len(t) = IF n + 1 <= Len(s) THEN Len(s) - (n + 1) + 1 ELSE 0
        /\ \A i \in 1..Len(s) - (n + 1) + 1 : t[i] = s[(n + 1) + i - 1]
    BY <2>1, <2>2, SubSeqProperties
  <2> QED BY <1>1, <2>3
<1> HIDE DEF t
<1>3. victims = [i \in 1..m |-> t[m - i + 1]]
  BY <1>2 DEF Reverse, t
<1>4. \A i \in 1..m : /\ m - i + 1 \in 1..m
                      /\ n + (m - i + 1) = Len(s) + 1 - i
                      /\ Len(s) + 1 - i \in n + 1..Len(s)
                      /\ Len(s) + 1 - i \in 1..Len(s)
  BY <1>1
<1>5. \A i \in 1..m : victims[i] = s[Len(s) + 1 - i]
  BY <1>2, <1>3, <1>4
<1>6. DOMAIN victims = 1..m
  BY <1>3
<1>7. victims \in Seq(Entry)
  <2>1. victims \in [1..m -> Entry]
    BY <1>1, <1>3, <1>4, <1>5
  <2> QED BY <1>1, <2>1
<1>8. \A i \in n + 1..Len(s) : /\ Len(s) + 1 - i \in 1..m
                               /\ Len(s) + 1 - (Len(s) + 1 - i) = i
  BY <1>1
<1>9. KeysOf(victims) = {s[i].key : i \in n + 1..Len(s)}
  <2>1. ASSUME NEW x \in KeysOf(victims)
        PROVE  x \in {s[i].key : i \in n + 1..Len(s)}
    <3>1. PICK j \in 1..m : x = victims[j].key
      BY <1>6 DEF KeysOf
    <3> QED BY <1>4, <1>5, <3>1
  <2>2. ASSUME NEW i \in n + 1..Len(s)
        PROVE  s[i].key \in KeysOf(victims)
    <3>1. victims[Len(s) + 1 - i] = s[i]
      BY <1>5, <1>8
    <3> QED BY <1>6, <1>8, <3>1 DEF KeysOf
  <2> QED BY <2>1, <2>2
<1> QED BY <1>5, <1>6, <1>7, <1>9

\* The loop of set_capacity: what stays is the prefix of the new capacity,
\* and every key that goes is recorded, unless it is long.
LEMMA TrimSound ==
  ASSUME NEW c \in Cache, Indexed(c), NEW n \in Nat \ {0}, Len(c.lru) > n,
         NEW d \in Trim(c, n)
  PROVE  /\ d \in Cache /\ Indexed(d) /\ Bounded(d)
         /\ d.capacity = n
         /\ d.lru = SubSeq(c.lru, 1, n)
         /\ ToSet(d.lru) \subseteq ToSet(c.lru)
         /\ d.cache \subseteq c.cache
         /\ ToSet(c.delete_keys) \subseteq ToSet(d.delete_keys)
         /\ ToSet(d.delete_keys) \subseteq
              ToSet(c.delete_keys) \cup (c.cache \ d.cache) \cup {Garbage}
         /\ c.cache \ d.cache \subseteq ToSet(d.delete_keys) \cup LongKey
<1> DEFINE s == c.lru
           victims == Reverse(SubSeq(s, n + 1, Len(s)))
           old == c.delete_keys
           G == Key \cup {Garbage}
<1>1. /\ s \in Seq(Entry) /\ Distinct(s) /\ Len(s) \in Nat /\ n \in 0..Len(s)
      /\ DOMAIN s = 1..Len(s) /\ old \in Seq(G) /\ c.cache \subseteq Key
      /\ c.cache = KeysOf(s)
  BY LenProperties DEF Cache, Indexed, Distinct
<1>2. PICK r \in Reads(victims) :
        d = [capacity |-> n, lru |-> SubSeq(s, 1, n),
             cache |-> c.cache \ KeysOf(victims), delete_keys |-> old \o r]
  BY DEF Trim
<1>3. /\ victims \in Seq(Entry) /\ DOMAIN victims = 1..Len(s) - n
      /\ KeysOf(victims) = {s[i].key : i \in n + 1..Len(s)}
  BY <1>1, VictimKeys
<1> HIDE DEF victims
<1>4. /\ r \in [1..Len(s) - n -> G]
      /\ \A i \in 1..Len(s) - n : r[i] \in ReadErased(victims[i].key)
  BY <1>3 DEF Reads
<1>5. r \in Seq(G) /\ Len(r) = Len(s) - n /\ DOMAIN r = 1..Len(s) - n
  <2> DEFINE m == Len(s) - n
  <2>1. m \in Nat
    BY <1>1
  <2>2. r \in [1..m -> G]
    BY <1>4
  <2> HIDE DEF m
  <2>3. r \in Seq(G)
    BY <2>1, <2>2
  <2>4. DOMAIN r = 1..m /\ DOMAIN r = 1..Len(r) /\ Len(r) \in Nat
    BY <2>2, <2>3, LenProperties
  <2>5. Len(r) = m
    BY <2>1, <2>4
  <2> QED BY <2>3, <2>4, <2>5 DEF m
<1>6. SubSeq(s, 1, n) \in Seq(Entry) /\ Len(SubSeq(s, 1, n)) = n
  BY <1>1, PrefixElements
<1>7. /\ ToSet(SubSeq(s, 1, n)) \subseteq ToSet(s)
      /\ KeysOf(SubSeq(s, 1, n)) = KeysOf(s) \ KeysOf(victims)
      /\ Distinct(SubSeq(s, 1, n))
  BY <1>1, <1>3, PrefixKeys
<1>8. old \o r \in Seq(G) /\ ToSet(old \o r) = ToSet(old) \cup ToSet(r)
  <2>1. Range(old \o r) = Range(old) \cup Range(r)
    BY <1>1, <1>5, RangeConcatenation
  <2> QED BY <1>1, <1>5, <2>1, ConcatProperties DEF Range, ToSet
<1>9. d \in Cache
  BY <1>1, <1>2, <1>6, <1>8 DEF Cache
<1>10. Indexed(d)
  BY <1>1, <1>2, <1>7 DEF Indexed, Distinct
<1>11. Bounded(d)
  BY <1>2, <1>6 DEF Bounded
<1>12. c.cache \ d.cache = KeysOf(victims)
  <2>1. KeysOf(victims) \subseteq KeysOf(s)
    <3>1. \A i \in n + 1..Len(s) : i \in DOMAIN s
      BY <1>1
    <3> QED BY <1>3, <3>1 DEF KeysOf
  <2> QED BY <1>1, <1>2, <2>1
<1>13. ToSet(r) \subseteq KeysOf(victims) \cup {Garbage}
  BY <1>3, <1>4, <1>5 DEF ToSet, KeysOf, ReadErased
<1>14. KeysOf(victims) \subseteq ToSet(r) \cup LongKey
  BY <1>3, <1>4, <1>5 DEF ToSet, KeysOf, ReadErased
<1> QED
  BY <1>2, <1>7, <1>8, <1>9, <1>10, <1>11, <1>12, <1>13, <1>14

\* set_capacity keeps the object consistent and within its new bound, and
\* records every key it evicts, unless that key is long.
LEMMA SetCapacitySound ==
  ASSUME NEW c \in Cache, Indexed(c), Bounded(c), NEW n \in Int,
         NEW d \in set_capacity(c, n)
  PROVE  /\ d \in Cache /\ Indexed(d) /\ Bounded(d)
         /\ n >= 0 => d.capacity = n
         /\ ToSet(d.lru) \subseteq ToSet(c.lru)
         /\ d.cache \subseteq c.cache
         /\ ToSet(c.delete_keys) \subseteq ToSet(d.delete_keys)
         /\ ToSet(d.delete_keys) \subseteq
              ToSet(c.delete_keys) \cup (c.cache \ d.cache) \cup {Garbage}
         /\ c.cache \ d.cache \subseteq ToSet(d.delete_keys) \cup LongKey
<1>1. CASE n < 0
  BY <1>1 DEF set_capacity
<1>2. CASE n > 0 /\ Cardinality(c.cache) > n
  <2>1. d \in Trim(c, n)
    BY <1>2 DEF set_capacity
  <2>2. n \in Nat \ {0} /\ Len(c.lru) > n
    BY <1>2, CacheSize
  <2> QED BY <2>1, <2>2, TrimSound
<1>3. CASE n >= 0 /\ ~(n > 0 /\ Cardinality(c.cache) > n)
  <2>1. d = [c EXCEPT !.capacity = n]
    BY <1>3 DEF set_capacity
  <2>2. n \in Nat /\ Len(c.lru) \in Nat /\ (n > 0 => Len(c.lru) <= n)
    BY <1>3, CacheSize, LenProperties DEF Cache
  <2>3. /\ d \in Cache /\ d.lru = c.lru /\ d.cache = c.cache
        /\ d.capacity = n /\ d.delete_keys = c.delete_keys
    BY <2>1, <2>2 DEF Cache
  <2>4. Indexed(d) /\ Bounded(d)
    BY <2>2, <2>3 DEF Indexed, Bounded
  <2> QED BY <2>3, <2>4
<1> QED BY <1>1, <1>2, <1>3

-----------------------------------------------------------------------------
(***************************************************************************)
(* The operators of module ZSet.  The invariant of a sorted set is stated  *)
(* of a value (Good), because InsertElement passes through intermediate    *)
(* values that satisfy only a part of it.                                  *)
(***************************************************************************)

\* What the LRU list holds are members with their scores.
TrackedWith(z) ==
  \A e \in ToSet(z.lru.lru) : e.key \in Present(z) /\ e.value = z.score[e.key]

\* What every call keeps of a sorted set: the conjunction of the type and of
\* the invariants of module ZSetMachine, as a predicate on its value.
Good(z) ==
  /\ z \in ZSets
  /\ Indexed(z.lru)
  /\ Bounded(z.lru)
  /\ TrackedWith(z)
  /\ Present(z) \ z.lru.cache \subseteq Pending(z) \cup LongKey
  /\ Pending(z) \cap z.lru.cache = {}

\* The index of the cache as the keys of the entries in the list.
LEMMA CacheIsKeys ==
  ASSUME NEW c \in Cache, Indexed(c)
  PROVE  /\ c.cache = {e.key : e \in ToSet(c.lru)}
         /\ \A e \in ToSet(c.lru) : e \in Entry
<1>1. DOMAIN c.lru = 1..Len(c.lru) /\ \A i \in 1..Len(c.lru) : c.lru[i] \in Entry
  BY LenProperties DEF Cache
<1>2. c.cache = {e.key : e \in ToSet(c.lru)}
  BY DEF Indexed, KeysOf, ToSet
<1> QED BY <1>1, <1>2 DEF ToSet

\* Consequences of Good that most of the lemmas below use.
LEMMA GoodFacts ==
  ASSUME NEW z, Good(z)
  PROVE  /\ z.lru \in Cache /\ z.score \in [Member -> Score \cup {Absent}]
         /\ z.lru.cache \subseteq Present(z)
         /\ z.lru.cache = {e.key : e \in ToSet(z.lru.lru)}
         /\ z.lru.delete_keys \in Seq(Key \cup {Garbage})
<1>1. z.lru \in Cache /\ z.score \in [Member -> Score \cup {Absent}]
  BY DEF Good, ZSets
<1>2. z.lru.cache = {e.key : e \in ToSet(z.lru.lru)}
  BY <1>1, CacheIsKeys DEF Good
<1> QED BY <1>1, <1>2 DEF Good, TrackedWith, Cache

\* Refreshing a member (InsertElement with the same score, SearchElement)
\* keeps the set good.
LEMMA GetGood ==
  ASSUME NEW z, Good(z), NEW m
  PROVE  Good([z EXCEPT !.lru = get(z.lru, m)])
<1> DEFINE y == [z EXCEPT !.lru = get(z.lru, m)]
<1>1. /\ get(z.lru, m) \in Cache /\ Indexed(get(z.lru, m)) /\ Bounded(get(z.lru, m))
      /\ ToSet(get(z.lru, m).lru) = ToSet(z.lru.lru)
      /\ get(z.lru, m).cache = z.lru.cache
      /\ get(z.lru, m).delete_keys = z.lru.delete_keys
  BY GoodFacts, GetSound DEF Good
<1>2. y \in ZSets /\ y.score = z.score /\ y.lru = get(z.lru, m)
  BY <1>1 DEF Good, ZSets
<1> HIDE DEF y
<1>3. Good(y)
  BY <1>1, <1>2 DEF Good, TrackedWith, Present, Pending
<1> QED BY <1>3 DEF y

\* DeleteElementInLock keeps the set good, and afterwards the cache does not
\* track the member.
LEMMA DeleteGood ==
  ASSUME NEW z, Good(z), NEW m \in Member
  PROVE  /\ Good(Delete(z, m))
         /\ m \notin Delete(z, m).lru.cache
         /\ Delete(z, m).lru.cache = z.lru.cache \ {m}
         /\ Delete(z, m).lru.delete_keys = z.lru.delete_keys
         /\ Delete(z, m).lru.capacity = z.lru.capacity
         /\ Delete(z, m).score = [z.score EXCEPT ![m] = Absent]
<1> DEFINE y == Delete(z, m)
           l == remove(z.lru, m)
<1>1. CASE m \notin Present(z)
  <2>1. y = z
    BY <1>1 DEF Delete
  <2>2. z.score[m] = Absent
    BY <1>1 DEF Present
  <2>3. z.score = [z.score EXCEPT ![m] = Absent]
    BY <2>2, GoodFacts
  <2> QED BY <1>1, <2>1, <2>3, GoodFacts
<1>2. CASE m \in Present(z)
  <2>1. y = [score |-> [z.score EXCEPT ![m] = Absent], lru |-> l]
    BY <1>2 DEF Delete
  <2>2. /\ l \in Cache /\ Indexed(l) /\ Bounded(l)
        /\ ToSet(l.lru) \subseteq ToSet(z.lru.lru) /\ l.cache = z.lru.cache \ {m}
        /\ l.capacity = z.lru.capacity /\ l.delete_keys = z.lru.delete_keys
    BY GoodFacts, RemoveSound DEF Good
  <2> HIDE DEF y, l
  <2>3. /\ y.score = [z.score EXCEPT ![m] = Absent] /\ y.lru = l
        /\ y.score \in [Member -> Score \cup {Absent}]
    BY <2>1, GoodFacts
  <2>4. y \in ZSets
    BY <2>1, <2>2, <2>3 DEF ZSets
  <2>5. Present(y) = Present(z) \ {m}
    BY <2>3, GoodFacts DEF Present
  <2>6. \A e \in ToSet(l.lru) : e \in ToSet(z.lru.lru) /\ e.key # m
    BY <2>2, CacheIsKeys
  <2>7. TrackedWith(y)
    <3>1. \A e \in ToSet(l.lru) : e.key \in Present(y) /\ e.value = z.score[e.key]
      BY <2>5, <2>6 DEF Good, TrackedWith
    <3>2. \A x \in Present(y) : y.score[x] = z.score[x]
      BY <2>3, <2>5, GoodFacts DEF Present
    <3> QED BY <2>3, <3>1, <3>2 DEF TrackedWith
  <2>8. Good(y)
    BY <2>2, <2>3, <2>4, <2>5, <2>7 DEF Good, Pending
  <2> QED BY <2>2, <2>3, <2>8 DEF y
<1> QED BY <1>1, <1>2

\* emplace_back on delete_keys adds one key.
LEMMA AppendSet ==
  ASSUME NEW S, NEW q \in Seq(S), NEW x \in S
  PROVE  ToSet(Append(q, x)) = ToSet(q) \cup {x}
<1> DEFINE t == Append(q, x)
           n == Len(q)
<1>1. n \in Nat /\ DOMAIN q = 1..n
  BY LenProperties
<1>2. /\ t \in Seq(S) /\ Len(t) = n + 1
      /\ \A i \in 1..n : t[i] = q[i]
  BY AppendProperties
<1>3. t[n + 1] = x
  BY AppendProperties
<1>4. DOMAIN t = 1..n + 1
  BY <1>2, LenProperties
<1> HIDE DEF t, n
<1>5. \A i \in 1..n + 1 : i \in 1..n \/ i = n + 1
  BY <1>1
<1>6. n + 1 \in 1..n + 1 /\ \A i \in 1..n : i \in 1..n + 1
  BY <1>1
<1>7. ASSUME NEW y \in ToSet(t) PROVE y \in ToSet(q) \cup {x}
  <2>1. PICK i \in 1..n + 1 : y = t[i]
    BY <1>4 DEF ToSet
  <2> QED BY <1>1, <1>2, <1>3, <1>5, <2>1 DEF ToSet
<1>8. ASSUME NEW y \in ToSet(q) PROVE y \in ToSet(t)
  <2>1. PICK i \in 1..n : y = q[i]
    BY <1>1 DEF ToSet
  <2> QED BY <1>2, <1>4, <1>6, <2>1 DEF ToSet
<1>9. x \in ToSet(t)
  BY <1>3, <1>4, <1>6 DEF ToSet
<1>10. ToSet(t) = ToSet(q) \cup {x}
  BY <1>7, <1>8, <1>9
<1> QED BY <1>10 DEF t

\* The set between put and the drain of delete_keys in InsertElement(m, s).
Linked(z, m, s, l) == [score |-> [z.score EXCEPT ![m] = s], lru |-> l]

\* Between put and the drain, everything holds but one thing: the member
\* that is being inserted may still be pending from an earlier eviction.
LEMMA LinkedFacts ==
  ASSUME NEW z, Good(z), NEW m \in Member, NEW s \in Score,
         NEW l \in put(Delete(z, m).lru, m, s), NEW y, y = Linked(z, m, s, l)
  PROVE  /\ y \in ZSets /\ Indexed(l) /\ Bounded(l) /\ TrackedWith(y)
         /\ y.lru = l /\ l.capacity = z.lru.capacity
         /\ y.score = [z.score EXCEPT ![m] = s]
         /\ Present(y) = Present(z) \cup {m}
         /\ m \in l.cache
         /\ Present(y) \ l.cache \subseteq Pending(y) \cup LongKey
         /\ Pending(y) \cap l.cache \subseteq {m}
         /\ m \in Pending(y) => m \in Pending(z)
         /\ \A x \in Member : x \in Pending(y) =>
              x \in Pending(z) \/ x = Last(z.lru.lru).key
<1> DEFINE b == Delete(z, m)
           e == [key |-> m, value |-> s]
           last == Last(b.lru.lru)
<1>1. /\ Good(b) /\ m \notin b.lru.cache /\ b.lru.cache = z.lru.cache \ {m}
      /\ b.lru.delete_keys = z.lru.delete_keys
      /\ b.lru.capacity = z.lru.capacity
      /\ b.score = [z.score EXCEPT ![m] = Absent]
  BY DeleteGood
<1>2. b.lru \in Cache /\ Indexed(b.lru) /\ Bounded(b.lru) /\ m \in Key /\ s \in Value
  BY <1>1, GoodFacts DEF Good, Member, Score
<1> HIDE DEF b
<1>3. /\ l \in Cache /\ Indexed(l) /\ Bounded(l)
      /\ l.capacity = b.lru.capacity
      /\ ToSet(l.lru) \subseteq ToSet(b.lru.lru) \cup {e}
      /\ ~Full(b.lru) => /\ l.cache = b.lru.cache \cup {m}
                         /\ l.delete_keys = b.lru.delete_keys
      /\ Full(b.lru) => /\ l.cache = (b.lru.cache \ {last.key}) \cup {m}
                        /\ \E read \in ReadErased(last.key) :
                             l.delete_keys = Append(b.lru.delete_keys, read)
  <2> DEFINE a == b.lru
  <2>1. /\ a \in Cache /\ Indexed(a) /\ Bounded(a) /\ m \notin a.cache
        /\ l \in put(a, m, s)
    BY <1>1, <1>2 DEF b
  <2> HIDE DEF a
  <2>2. /\ l \in Cache /\ Indexed(l) /\ Bounded(l)
        /\ l.capacity = a.capacity
        /\ ToSet(l.lru) \subseteq ToSet(a.lru) \cup {[key |-> m, value |-> s]}
        /\ ~Full(a) => /\ l.cache = a.cache \cup {m}
                       /\ l.delete_keys = a.delete_keys
        /\ Full(a) => /\ l.cache = (a.cache \ {Last(a.lru).key}) \cup {m}
                      /\ \E read \in ReadErased(Last(a.lru).key) :
                           l.delete_keys = Append(a.delete_keys, read)
    BY <1>2, <2>1, PutNewSound
  <2> QED BY <2>2 DEF a
<1>4. /\ y.score = [z.score EXCEPT ![m] = s] /\ y.lru = l
      /\ y = [score |-> y.score, lru |-> l]
      /\ y.score \in [Member -> Score \cup {Absent}]
  BY GoodFacts DEF Linked
<1>5. y \in ZSets
  BY <1>3, <1>4 DEF ZSets
<1>6. s # Absent /\ Garbage \notin Member
  BY AbsentAssumption, GarbageAssumption DEF Score, Member
<1>7. Present(y) = Present(z) \cup {m}
  BY <1>4, <1>6, GoodFacts DEF Present
<1>8. Present(b) = Present(z) \ {m}
  BY <1>1, GoodFacts DEF Present
<1>9. e.key = m /\ e.value = s
  OBVIOUS
<1> HIDE DEF e, last
<1>10. TrackedWith(y)
  <2>1. \A x \in ToSet(b.lru.lru) : x.key \in Present(b) /\ x.value = b.score[x.key]
    BY <1>1 DEF Good, TrackedWith
  <2>2. \A x \in Present(b) : x # m /\ y.score[x] = b.score[x]
    BY <1>1, <1>4, <1>8, GoodFacts DEF Present
  <2>3. y.score[m] = s /\ m \in Present(y)
    BY <1>4, <1>7, GoodFacts
  <2> QED BY <1>3, <1>4, <1>7, <1>8, <1>9, <2>1, <2>2, <2>3 DEF TrackedWith
<1>11. Pending(b) = Pending(z) /\ Pending(z) \cap z.lru.cache = {}
       /\ Present(z) \ z.lru.cache \subseteq Pending(z) \cup LongKey
  BY <1>1 DEF Good, Pending
<1>12. CASE ~Full(b.lru)
  <2>1. l.cache = b.lru.cache \cup {m} /\ Pending(y) = Pending(z)
    BY <1>3, <1>4, <1>11, <1>12 DEF Pending
  <2> QED BY <1>1, <1>3, <1>4, <1>5, <1>7, <1>10, <1>11, <2>1
<1>13. CASE Full(b.lru)
  <2>1. PICK read \in ReadErased(last.key) :
          l.delete_keys = Append(b.lru.delete_keys, read)
    BY <1>3, <1>13
  <2>2. l.cache = (b.lru.cache \ {last.key}) \cup {m}
    BY <1>3, <1>13
  <2>3. last.key \in b.lru.cache
    BY <1>2, <1>13, <2>1, EvictLastSound DEF last
  <2>4. /\ last.key \in Key /\ read \in Key \cup {Garbage} /\ last.key # m
        /\ last.key \notin LongKey => read = last.key
        /\ read = last.key \/ read = Garbage
    BY <1>1, <1>2, <2>3 DEF ReadErased, Cache
  <2>5. Pending(y) = Pending(z) \cup {read}
    <3>1. b.lru.delete_keys \in Seq(Key \cup {Garbage})
      BY <1>2 DEF Cache
    <3>2. ToSet(Append(b.lru.delete_keys, read)) = ToSet(b.lru.delete_keys) \cup {read}
      BY <2>4, <3>1, AppendSet
    <3> QED BY <1>1, <1>4, <2>1, <3>2 DEF Pending
  <2>6. Present(y) \ l.cache \subseteq Pending(y) \cup LongKey
    BY <1>1, <1>7, <1>11, <2>2, <2>4, <2>5
  <2>7. Pending(y) \cap l.cache \subseteq {m}
    <3>1. Garbage \notin l.cache
      BY <1>3, <1>6 DEF Cache, Member
    <3> QED BY <1>1, <1>11, <2>2, <2>4, <2>5, <3>1
  <2>8. m \in Pending(y) => m \in Pending(z)
    BY <1>6, <2>4, <2>5
  <2>9. last = Last(z.lru.lru)
    <3>1. CASE m \in Present(z) /\ m \in z.lru.cache
      <4>1. Cardinality(b.lru.cache) = Cardinality(z.lru.cache) - 1
            /\ Cardinality(z.lru.cache) = Len(z.lru.lru)
        <5>1. IsFiniteSet(z.lru.cache) /\ Cardinality(z.lru.cache) = Len(z.lru.lru)
          BY GoodFacts, CacheSize DEF Good
        <5>2. Cardinality(z.lru.cache \ {m}) = Cardinality(z.lru.cache) - 1
          BY <3>1, <5>1, FS_RemoveElement
        <5> QED BY <1>1, <5>1, <5>2
      <4>2. Len(z.lru.lru) \in Nat /\ z.lru.capacity \in Nat
        BY GoodFacts, LenProperties DEF Cache
      <4>3. b.lru.capacity > 0 /\ Cardinality(b.lru.cache) = b.lru.capacity
        BY <1>13 DEF Full
      <4>4. Len(z.lru.lru) <= z.lru.capacity
        BY <1>1, <4>3 DEF Good, Bounded
      <4> QED BY <1>1, <4>1, <4>2, <4>3, <4>4
    <3>2. CASE m \notin z.lru.cache
      <4>1. b.lru = z.lru
        BY <3>2 DEF b, Delete, remove
      <4> QED BY <4>1 DEF last
    <3> QED BY <3>1, <3>2, GoodFacts
  <2>10. \A x \in Member : x \in Pending(y) =>
           x \in Pending(z) \/ x = Last(z.lru.lru).key
    BY <1>6, <2>4, <2>5, <2>9
  <2> QED
    BY <1>1, <1>3, <1>4, <1>5, <1>7, <1>10, <2>2, <2>6, <2>7, <2>8, <2>10
<1> QED BY <1>12, <1>13

\* The drain at the end of InsertElement makes the set good again: nothing
\* is pending, and only members with long names are untracked.
LEMMA DrainFacts ==
  ASSUME NEW y \in ZSets, NEW m \in Member, Indexed(y.lru), Bounded(y.lru),
         TrackedWith(y), m \in y.lru.cache,
         Present(y) \ y.lru.cache \subseteq Pending(y) \cup LongKey,
         Pending(y) \cap y.lru.cache \subseteq {m},
         NEW d, d = Drain(y, m)
  PROVE  /\ Good(d)
         /\ Pending(d) = {}
         /\ d.lru.capacity = y.lru.capacity
         /\ Present(d) = Present(y) \ Pending(y)
         /\ Present(d) \ LongKey \subseteq d.lru.cache
<1> DEFINE P == Pending(y)
           r == IF m \in P THEN remove(y.lru, m) ELSE y.lru
<1>1. y.lru \in Cache /\ y.score \in [Member -> Score \cup {Absent}]
  BY DEF ZSets
<1>2. /\ r \in Cache /\ Indexed(r) /\ Bounded(r) /\ r.capacity = y.lru.capacity
      /\ ToSet(r.lru) \subseteq ToSet(y.lru.lru)
      /\ r.cache = y.lru.cache \ P
  <2>1. CASE m \in P
    BY <1>1, <2>1, RemoveSound
  <2>2. CASE m \notin P
    BY <1>1, <2>2
  <2> QED BY <2>1, <2>2
<1>3. d = [score |-> [x \in Member |-> IF x \in P THEN Absent ELSE y.score[x]],
           lru |-> [r EXCEPT !.delete_keys = << >>]]
  BY DEF Drain
<1> HIDE DEF P, r
<1>4. /\ d.score = [x \in Member |-> IF x \in P THEN Absent ELSE y.score[x]]
      /\ d.score \in [Member -> Score \cup {Absent}]
      /\ d.lru = [r EXCEPT !.delete_keys = << >>]
  BY <1>1, <1>3
<1>5. /\ d.lru \in Cache /\ d.lru.lru = r.lru /\ d.lru.cache = r.cache
      /\ d.lru.capacity = r.capacity /\ d.lru.delete_keys = << >>
  <2>1. << >> \in Seq(Key \cup {Garbage})
    OBVIOUS
  <2> QED BY <1>2, <1>4, <2>1 DEF Cache
<1>6. d \in ZSets
  BY <1>3, <1>4, <1>5 DEF ZSets
<1>7. Present(d) = Present(y) \ P /\ \A x \in Present(d) : d.score[x] = y.score[x]
  BY <1>1, <1>4 DEF Present
<1>8. Pending(d) = {}
  <2>1. DOMAIN d.lru.delete_keys = {}
    BY <1>5
  <2> QED BY <2>1 DEF Pending, ToSet
<1>9. Indexed(d.lru) /\ Bounded(d.lru)
  BY <1>2, <1>5 DEF Indexed, Bounded
<1>10. TrackedWith(d)
  <2>1. \A e \in ToSet(r.lru) : e \in ToSet(y.lru.lru) /\ e.key \in r.cache
    BY <1>2, CacheIsKeys
  <2>2. \A e \in ToSet(r.lru) : e.key \in Present(y) \ P /\ e.value = y.score[e.key]
    BY <1>2, <2>1 DEF TrackedWith
  <2> QED BY <1>5, <1>7, <2>2 DEF TrackedWith
<1>11. Present(d) \ LongKey \subseteq d.lru.cache
  BY <1>2, <1>5, <1>7 DEF P
<1>12. Good(d)
  BY <1>6, <1>8, <1>9, <1>10, <1>11 DEF Good
<1> QED BY <1>2, <1>5, <1>7, <1>8, <1>11, <1>12 DEF P

\* An InsertElement that stores something: the set is good, within its bound
\* but for long names, and lost nothing but pending members and the least
\* recently used one.
LEMMA StoreFacts ==
  ASSUME NEW z, Good(z), NEW m \in Member, NEW s \in Score, NEW d \in Store(z, m, s)
  PROVE  /\ Good(d)
         /\ Pending(d) = {}
         /\ d.lru.capacity = z.lru.capacity
         /\ Present(d) \ LongKey \subseteq d.lru.cache
         /\ Present(d) \subseteq Present(z) \cup {m}
         /\ m \notin Pending(z) => d.score[m] = s
         /\ \A x \in Present(z) \ (Present(d) \cup {m}) :
              x \in Pending(z) \/ x = Last(z.lru.lru).key
<1>1. PICK l \in put(Delete(z, m).lru, m, s) : d = Drain(Linked(z, m, s, l), m)
  BY DEF Store, Linked
<1> DEFINE y == Linked(z, m, s, l)
<1>2. d = Drain(y, m)
  BY <1>1
<1>3. /\ y \in ZSets /\ Indexed(y.lru) /\ Bounded(y.lru) /\ TrackedWith(y)
      /\ y.lru.capacity = z.lru.capacity
      /\ y.score = [z.score EXCEPT ![m] = s]
      /\ Present(y) = Present(z) \cup {m}
      /\ m \in y.lru.cache
      /\ Present(y) \ y.lru.cache \subseteq Pending(y) \cup LongKey
      /\ Pending(y) \cap y.lru.cache \subseteq {m}
      /\ m \in Pending(y) => m \in Pending(z)
      /\ \A x \in Member : x \in Pending(y) =>
           x \in Pending(z) \/ x = Last(z.lru.lru).key
  BY LinkedFacts
<1> HIDE DEF y
<1>4. /\ Good(d) /\ Pending(d) = {} /\ d.lru.capacity = y.lru.capacity
      /\ Present(d) = Present(y) \ Pending(y)
      /\ d.score = [x \in Member |-> IF x \in Pending(y) THEN Absent ELSE y.score[x]]
      /\ Present(d) \ LongKey \subseteq d.lru.cache
  <2>1. Good(d) /\ Pending(d) = {} /\ d.lru.capacity = y.lru.capacity
    BY <1>2, <1>3, DrainFacts
  <2>2. Present(d) = Present(y) \ Pending(y)
    BY <1>2, <1>3, DrainFacts
  <2>3. d.score = [x \in Member |-> IF x \in Pending(y) THEN Absent ELSE y.score[x]]
    BY <1>2 DEF Drain
  <2>4. Present(d) \ LongKey \subseteq d.lru.cache
    BY <1>2, <1>3, DrainFacts
  <2> QED BY <2>1, <2>2, <2>3, <2>4
<1>5. m \notin Pending(z) => d.score[m] = s
  <2>1. y.score[m] = s
    BY <1>3, GoodFacts
  <2> QED BY <1>3, <1>4, <2>1
<1>6. ASSUME NEW x \in Present(z) \ (Present(d) \cup {m})
      PROVE  x \in Pending(z) \/ x = Last(z.lru.lru).key
  <2>1. x \in Member /\ x \in Pending(y)
    BY <1>3, <1>4 DEF Present
  <2> QED BY <1>3, <2>1
<1> QED BY <1>3, <1>4, <1>5, <1>6

\* A member that InsertElement stores is tracked by the cache afterwards: its
\* own put cannot evict it, and the drain deletes only what was pending.
LEMMA StoreTracks ==
  ASSUME NEW z, Good(z), NEW m \in Member, NEW s \in Score, NEW d \in Store(z, m, s)
  PROVE  m \notin Pending(z) => m \in d.lru.cache
<1>1. PICK l \in put(Delete(z, m).lru, m, s) : d = Drain(Linked(z, m, s, l), m)
  BY DEF Store, Linked
<1> DEFINE y == Linked(z, m, s, l)
<1>2. d = Drain(y, m)
  BY <1>1
<1>3. /\ y \in ZSets
      /\ y.score = [z.score EXCEPT ![m] = s]
      /\ m \in y.lru.cache
      /\ m \in Pending(y) => m \in Pending(z)
  BY LinkedFacts
<1> HIDE DEF y
<1>4. CASE m \notin Pending(z)
  <2>1. d.lru = [y.lru EXCEPT !.delete_keys = << >>]
    BY <1>2, <1>3, <1>4 DEF Drain
  <2> QED BY <1>3, <2>1 DEF ZSets, Cache
<1> QED BY <1>4

\* SetMaxMemory keeps the set good: what the cache loses becomes pending.
LEMMA SetMaxGood ==
  ASSUME NEW z, Good(z), NEW n \in Nat, NEW d \in SetMax(z, n)
  PROVE  Good(d) /\ d.lru.capacity = n /\ Present(d) = Present(z)
<1>1. PICK l \in set_capacity(z.lru, n) : d = [z EXCEPT !.lru = l]
  BY DEF SetMax
<1>0. n \in Int /\ n >= 0 /\ z.lru \in Cache /\ Indexed(z.lru) /\ Bounded(z.lru)
  BY GoodFacts DEF Good
<1>2. /\ l \in Cache /\ Indexed(l) /\ Bounded(l) /\ l.capacity = n
      /\ ToSet(l.lru) \subseteq ToSet(z.lru.lru)
      /\ l.cache \subseteq z.lru.cache
      /\ ToSet(z.lru.delete_keys) \subseteq ToSet(l.delete_keys)
      /\ ToSet(l.delete_keys) \subseteq
           ToSet(z.lru.delete_keys) \cup (z.lru.cache \ l.cache) \cup {Garbage}
      /\ z.lru.cache \ l.cache \subseteq ToSet(l.delete_keys) \cup LongKey
  BY <1>0, SetCapacitySound
<1>3. d \in ZSets /\ d.score = z.score /\ d.lru = l
  BY <1>1, <1>2 DEF Good, ZSets
<1>4. Present(d) = Present(z)
  BY <1>3 DEF Present
<1>5. TrackedWith(d)
  BY <1>2, <1>3, <1>4 DEF Good, TrackedWith
<1>6. Present(d) \ d.lru.cache \subseteq Pending(d) \cup LongKey
  BY <1>2, <1>3, <1>4 DEF Good, Pending
<1>7. Pending(d) \cap d.lru.cache = {}
  <2>1. Garbage \notin l.cache
    BY <1>2, GarbageAssumption DEF Cache
  <2> QED BY <1>2, <1>3, <2>1 DEF Good, Pending
<1>8. Good(d)
  BY <1>2, <1>3, <1>5, <1>6, <1>7 DEF Good
<1> QED BY <1>2, <1>3, <1>4, <1>8

\* A new sorted set is good.
LEMMA NewGood ==
  ASSUME NEW n \in Nat
  PROVE  Good(NewZSet(n))
<1> DEFINE d == NewZSet(n)
<1>1. /\ d.score = [m \in Member |-> Absent] /\ d.lru.lru = << >>
      /\ d.lru.cache = {} /\ d.lru.delete_keys = << >> /\ d.lru.capacity = n
      /\ d.lru \in Cache /\ d \in ZSets
  <2>1. << >> \in Seq(Entry) /\ << >> \in Seq(Key \cup {Garbage})
    OBVIOUS
  <2>2. NewCache(n) \in Cache
    BY <2>1 DEF NewCache, Cache
  <2> QED BY <2>2 DEF NewZSet, NewCache, ZSets
<1> HIDE DEF d
<1>2. DOMAIN d.lru.lru = {} /\ DOMAIN d.lru.delete_keys = {}
  BY <1>1
<1>3. Indexed(d.lru) /\ Bounded(d.lru)
  BY <1>1, <1>2 DEF Indexed, Bounded, KeysOf
<1>4. ToSet(d.lru.lru) = {} /\ ToSet(d.lru.delete_keys) = {}
  BY <1>2 DEF ToSet
<1>5. Present(d) = {}
  BY <1>1 DEF Present
<1>6. Good(d)
  BY <1>1, <1>3, <1>4, <1>5 DEF Good, TrackedWith, Pending
<1> QED BY <1>6 DEF d
=============================================================================
