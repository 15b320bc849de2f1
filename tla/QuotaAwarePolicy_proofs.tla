----------------------- MODULE QuotaAwarePolicy_proofs ------------------------
(***************************************************************************)
(* What the operations of the eviction policy do to its queues, for every  *)
(* number of clients and objects.                                          *)
(***************************************************************************)
EXTENDS QuotaAwarePolicy, FiniteSetTheorems, SequenceTheorems, TLAPS

------------------------------------------------------------------------------
(* Subsequences.                                                           *)

(* The number of positions in I up to i is a bijection from I to 1 .. |I|. *)
LEMMA RankBijection ==
  ASSUME NEW I, IsFiniteSet(I), I \subseteq Int
  PROVE  [i \in I |-> Cardinality({j \in I : j <= i})]
           \in Bijection(I, 1 .. Cardinality(I))
<1> DEFINE Upto(i) == {j \in I : j <= i}
           rank == [i \in I |-> Cardinality(Upto(i))]
<1>1. \A i \in I : /\ IsFiniteSet(Upto(i))
                   /\ Cardinality(Upto(i)) \in Nat
                   /\ Cardinality(Upto(i)) <= Cardinality(I)
  BY FS_Subset, FS_CardinalityType
<1>2. Cardinality(I) \in Nat
  BY FS_CardinalityType
<1>3. \A i \in I : Cardinality(Upto(i)) # 0
  BY <1>1, FS_EmptySet
<1>4. \A i, k \in I : i < k => Cardinality(Upto(i)) # Cardinality(Upto(k))
  <2> TAKE i, k \in I
  <2> HAVE i < k
  <2>1. \A j \in I : j <= i => j <= k
    OBVIOUS
  <2>2. k \in Upto(k) /\ k \notin Upto(i)
    OBVIOUS
  <2>3. Upto(i) \in SUBSET Upto(k) /\ Upto(i) # Upto(k)
    BY <2>1, <2>2
  <2> QED
    BY <1>1, <2>3, FS_Subset
<1>5. rank \in [I -> 1 .. Cardinality(I)]
  BY <1>1, <1>2, <1>3
<1>6. \A i, k \in I : rank[i] = rank[k] => i = k
  BY <1>4
<1>7. rank \in Injection(I, 1 .. Cardinality(I))
  BY <1>5, <1>6 DEF Injection, IsInjective
<1>8. IsFiniteSet(1 .. Cardinality(I))
      /\ Cardinality(1 .. Cardinality(I)) = Cardinality(I)
  BY <1>2, FS_Interval
<1>9. rank \in Surjection(I, 1 .. Cardinality(I))
  BY <1>7, <1>8, FS_Injection
<1> QED
  BY <1>7, <1>9 DEF Bijection

(* f gives the position in s of each element of Pick(s, I).                *)
IsPosition(f, s, I) ==
  /\ f \in Bijection(1 .. Cardinality(I), I)
  /\ \A k \in 1 .. Cardinality(I) :
       /\ Pick(s, I)[k] = s[f[k]]
       /\ Cardinality({j \in I : j <= f[k]}) = k

(* Pick takes the elements at the positions of I, each once, in order.     *)
LEMMA PickPositions ==
  ASSUME NEW s, NEW I, IsFiniteSet(I), I \subseteq Int
  PROVE  /\ DOMAIN Pick(s, I) = 1 .. Cardinality(I)
         /\ Cardinality(I) \in Nat
         /\ \E f : IsPosition(f, s, I)
<1> DEFINE rank == [i \in I |-> Cardinality({j \in I : j <= i})]
           f == [k \in 1 .. Cardinality(I) |->
                   CHOOSE i \in I : Cardinality({j \in I : j <= i}) = k]
<1>1. rank \in Bijection(I, 1 .. Cardinality(I))
  BY RankBijection
<1>2. \A k \in 1 .. Cardinality(I) : \E i \in I : rank[i] = k
  BY <1>1 DEF Bijection, Surjection
<1>3. \A k \in 1 .. Cardinality(I) : f[k] \in I /\ rank[f[k]] = k
  <2> TAKE k \in 1 .. Cardinality(I)
  <2>1. \E i \in I : Cardinality({j \in I : j <= i}) = k
    BY <1>2
  <2> QED
    BY <2>1
<1>4. \A i \in I : rank[i] \in 1 .. Cardinality(I)
  BY <1>1 DEF Bijection, Injection, IsInjective
<1>5. \A i, k \in I : rank[i] = rank[k] => i = k
  BY <1>1 DEF Bijection, Injection, IsInjective
<1>6. f \in Bijection(1 .. Cardinality(I), I)
  <2>1. f \in [1 .. Cardinality(I) -> I]
    BY <1>3
  <2>2. \A k, l \in 1 .. Cardinality(I) : f[k] = f[l] => k = l
    BY <1>3
  <2>3. \A i \in I : f[rank[i]] = i
    BY <1>3, <1>4, <1>5
  <2> HIDE DEF f, rank
  <2> QED
    BY <2>1, <2>2, <2>3, <1>4 DEF Bijection, Injection, Surjection, IsInjective
<1>7. \A k \in 1 .. Cardinality(I) :
        Pick(s, I)[k] = s[f[k]] /\ Cardinality({j \in I : j <= f[k]}) = k
  BY <1>3 DEF Pick
<1>8. DOMAIN Pick(s, I) = 1 .. Cardinality(I) /\ Cardinality(I) \in Nat
  BY FS_CardinalityType DEF Pick
<1>9. IsPosition(f, s, I)
  BY <1>6, <1>7 DEF IsPosition
<1> QED
  BY <1>8, <1>9

(* A pick from a sequence is a sequence, has exactly the elements at the   *)
(* positions I, and none twice when the sequence has none twice.           *)
LEMMA PickSeq ==
  ASSUME NEW S, NEW s \in Seq(S), NEW I \in SUBSET DOMAIN s
  PROVE  /\ IsFiniteSet(I)
         /\ Pick(s, I) \in Seq(S)
         /\ Len(Pick(s, I)) = Cardinality(I)
         /\ DOMAIN Pick(s, I) = 1 .. Cardinality(I)
         /\ \A k \in DOMAIN Pick(s, I) : \E i \in I : Pick(s, I)[k] = s[i]
         /\ \A i \in I : \E k \in DOMAIN Pick(s, I) : Pick(s, I)[k] = s[i]
         /\ IsInjective(s) => IsInjective(Pick(s, I))
<1> DEFINE n == Cardinality(I)
<1>1. DOMAIN s = 1 .. Len(s) /\ Len(s) \in Nat /\ \A i \in 1 .. Len(s) : s[i] \in S
  BY LenProperties, ElementOfSeq
<1>2. IsFiniteSet(I) /\ I \subseteq Int
  <2>1. IsFiniteSet(1 .. Len(s)) /\ I \in SUBSET (1 .. Len(s))
    BY <1>1, FS_Interval
  <2>2. IsFiniteSet(I)
    BY <2>1, FS_Subset
  <2> QED
    BY <2>1, <2>2
<1>3. PICK f : IsPosition(f, s, I)
  BY <1>2, PickPositions
<1>4. DOMAIN Pick(s, I) = 1 .. n /\ n \in Nat
  BY <1>2, PickPositions
<1>5. /\ f \in [1 .. n -> I]
      /\ \A k, l \in 1 .. n : f[k] = f[l] => k = l
      /\ \A i \in I : \E k \in 1 .. n : f[k] = i
      /\ \A k \in 1 .. n : Pick(s, I)[k] = s[f[k]]
  BY <1>3 DEF IsPosition, Bijection, Injection, Surjection, IsInjective
<1>6. \A k \in 1 .. n : f[k] \in DOMAIN s /\ Pick(s, I)[k] \in S
  BY <1>1, <1>5
<1>7. Pick(s, I) = [k \in 1 .. n |-> Pick(s, I)[k]]
  BY DEF Pick
<1>8. Pick(s, I) \in Seq(S) /\ Len(Pick(s, I)) = n
  <2>1. Pick(s, I) \in [1 .. n -> S]
    BY <1>6, <1>7
  <2>2. Pick(s, I) \in Seq(S)
    BY <2>1, <1>4, SeqDef
  <2> QED
    BY <2>2, <1>4, LenProperties
<1>9. \A k \in 1 .. n : \E i \in I : Pick(s, I)[k] = s[i]
  BY <1>5
<1>10. \A i \in I : \E k \in 1 .. n : Pick(s, I)[k] = s[i]
  BY <1>5
<1>11. IsInjective(s) => IsInjective(Pick(s, I))
  <2> HAVE IsInjective(s)
  <2>1. \A a, b \in DOMAIN s : s[a] = s[b] => a = b
    BY DEF IsInjective
  <2>2. \A k, l \in 1 .. n : Pick(s, I)[k] = Pick(s, I)[l] => k = l
    BY <2>1, <1>5, <1>6
  <2> QED
    BY <2>2, <1>4 DEF IsInjective
<1> HIDE DEF n
<1> QED
  BY <1>2, <1>4, <1>8, <1>9, <1>10, <1>11 DEF n

------------------------------------------------------------------------------
(* Sums.                                                                   *)

Cells(f) == UNION {{x} \X (1 .. f[x]) : x \in DOMAIN f}

LEMMA CellsMember ==
  ASSUME NEW f, NEW p
  PROVE  p \in Cells(f) <=> \E x \in DOMAIN f : \E k \in 1 .. f[x] : p = <<x, k>>
  BY DEF Cells

(* A sum of natural numbers over a finite set is a natural number.         *)
LEMMA TotalType ==
  ASSUME NEW S, IsFiniteSet(S), NEW f \in [S -> Nat]
  PROVE  /\ IsFiniteSet(Cells(f))
         /\ Total(f) \in Nat
         /\ Total(f) = Cardinality(Cells(f))
<1> DEFINE F == {{x} \X (1 .. f[x]) : x \in S}
           g == [x \in S |-> {x} \X (1 .. f[x])]
<1>1. g \in Surjection(S, F)
  BY DEF Surjection
<1>2. IsFiniteSet(F)
  BY <1>1, FS_Surjection
<1>3. \A T \in F : IsFiniteSet(T)
  <2> SUFFICES ASSUME NEW x \in S PROVE IsFiniteSet({x} \X (1 .. f[x]))
    OBVIOUS
  <2>1. IsFiniteSet({x})
    BY FS_Singleton
  <2>2. 1 \in Int /\ f[x] \in Int
    OBVIOUS
  <2>3. IsFiniteSet(1 .. f[x])
    BY <2>2, FS_Interval
  <2> QED
    BY <2>1, <2>3, FS_Product
<1>4. IsFiniteSet(UNION F)
  BY <1>2, <1>3, FS_UNION
<1>5. UNION F = Cells(f)
  BY DEF Cells
<1>6. Total(f) = Cardinality(Cells(f))
  BY DEF Total, Cells
<1> QED
  BY <1>4, <1>5, <1>6, FS_CardinalityType

LEMMA TotalZero ==
  ASSUME NEW f, \A x \in DOMAIN f : f[x] = 0
  PROVE  Total(f) = 0
<1>1. 1 .. 0 = {}
  OBVIOUS
<1>2. \A p : p \notin Cells(f)
  BY <1>1, CellsMember
<1>3. Cells(f) = {}
  BY <1>2
<1> QED
  BY <1>3, FS_EmptySet DEF Total, Cells

LEMMA TotalEmpty == ASSUME NEW f, DOMAIN f = {} PROVE Total(f) = 0
<1>1. Cells(f) = {}
  BY DEF Cells
<1> QED
  BY <1>1, FS_EmptySet DEF Total, Cells

LEMMA TotalOne ==
  ASSUME NEW a, NEW n \in Nat
  PROVE  Total([x \in {a} |-> n]) = n
<1> DEFINE f == [x \in {a} |-> n]
           g == [k \in 1 .. n |-> <<a, k>>]
<1>1. \A p : p \in Cells(f) <=> \E k \in 1 .. n : p = <<a, k>>
  BY DEF Cells
<1>2. g \in [1 .. n -> Cells(f)]
  BY <1>1
<1>3. \A k, l \in 1 .. n : g[k] = g[l] => k = l
  OBVIOUS
<1>4. \A p \in Cells(f) : \E k \in 1 .. n : g[k] = p
  BY <1>1
<1>5. g \in Bijection(1 .. n, Cells(f))
  <2> HIDE DEF g
  <2> QED
    BY <1>2, <1>3, <1>4 DEF Bijection, Injection, Surjection, IsInjective
<1>6. ExistsBijection(1 .. n, Cells(f))
  BY <1>5 DEF ExistsBijection
<1>7. Cardinality(Cells(f)) = n
  BY <1>6, FS_CountingElements
<1> QED
  BY <1>7 DEF Total, Cells

(* The sum over two disjoint sets is the sum of their sums.                *)
LEMMA TotalSplit ==
  ASSUME NEW A, NEW B, IsFiniteSet(A), IsFiniteSet(B), A \cap B = {},
         NEW f \in [A \cup B -> Nat]
  PROVE  /\ Total([x \in A |-> f[x]]) \in Nat
         /\ Total([x \in B |-> f[x]]) \in Nat
         /\ Total(f) = Total([x \in A |-> f[x]]) + Total([x \in B |-> f[x]])
<1> DEFINE fA == [x \in A |-> f[x]]
           fB == [x \in B |-> f[x]]
<1>1. fA \in [A -> Nat] /\ fB \in [B -> Nat]
  OBVIOUS
<1>2. IsFiniteSet(A \cup B)
  BY FS_Union
<1>3. /\ IsFiniteSet(Cells(fA)) /\ Total(fA) = Cardinality(Cells(fA))
      /\ Total(fA) \in Nat
  BY <1>1, TotalType
<1>4. /\ IsFiniteSet(Cells(fB)) /\ Total(fB) = Cardinality(Cells(fB))
      /\ Total(fB) \in Nat
  BY <1>1, TotalType
<1>5. Total(f) = Cardinality(Cells(f))
  BY <1>2, TotalType
<1>6. Cells(f) = Cells(fA) \cup Cells(fB)
  <2>1. \A p : p \in Cells(f) <=> p \in Cells(fA) \/ p \in Cells(fB)
    BY CellsMember
  <2> QED
    BY <2>1
<1>7. Cells(fA) \cap Cells(fB) = {}
  BY CellsMember
<1>8. Cardinality(Cells(fA) \cap Cells(fB)) = 0
  BY <1>7, FS_EmptySet
<1>9. Cardinality(Cells(fA) \cup Cells(fB)) =
        Cardinality(Cells(fA)) + Cardinality(Cells(fB))
        - Cardinality(Cells(fA) \cap Cells(fB))
  BY <1>3, <1>4, FS_Union
<1> HIDE DEF fA, fB
<1> QED
  BY <1>3, <1>4, <1>5, <1>6, <1>8, <1>9 DEF fA, fB

(* A sum does not depend on the order or the names of its terms.           *)
LEMMA TotalBijection ==
  ASSUME NEW S, NEW T, IsFiniteSet(S), NEW f \in [S -> Nat], NEW g \in [T -> Nat],
         NEW h \in Bijection(S, T), \A x \in S : g[h[x]] = f[x]
  PROVE  Total(f) = Total(g)
<1> DEFINE m == [p \in Cells(f) |-> <<h[p[1]], p[2]>>]
<1>1. /\ h \in [S -> T]
      /\ \A x, y \in S : h[x] = h[y] => x = y
      /\ \A y \in T : \E x \in S : h[x] = y
  BY DEF Bijection, Injection, Surjection, IsInjective
<1>2. \A p \in Cells(f) : \E x \in S : \E k \in 1 .. f[x] : p = <<x, k>>
  BY CellsMember
<1>3. m \in [Cells(f) -> Cells(g)]
  <2> SUFFICES ASSUME NEW p \in Cells(f) PROVE <<h[p[1]], p[2]>> \in Cells(g)
    OBVIOUS
  <2>1. PICK x \in S : \E k \in 1 .. f[x] : p = <<x, k>>
    BY <1>2
  <2>2. PICK k \in 1 .. f[x] : p = <<x, k>>
    BY <2>1
  <2>3. h[x] \in DOMAIN g /\ k \in 1 .. g[h[x]]
    BY <1>1
  <2> QED
    BY <2>2, <2>3, CellsMember
<1>4. \A p, q \in Cells(f) : m[p] = m[q] => p = q
  BY <1>1, <1>2
<1>5. \A q \in Cells(g) : \E p \in Cells(f) : m[p] = q
  <2> TAKE q \in Cells(g)
  <2>1. PICK y \in T : \E k \in 1 .. g[y] : q = <<y, k>>
    BY CellsMember
  <2>2. PICK k \in 1 .. g[y] : q = <<y, k>>
    BY <2>1
  <2>3. PICK x \in S : h[x] = y
    BY <1>1
  <2>4. x \in DOMAIN f /\ k \in 1 .. f[x]
    BY <2>3
  <2>5. <<x, k>> \in Cells(f)
    BY <2>4, CellsMember
  <2>6. m[<<x, k>>] = q
    BY <2>2, <2>3, <2>5
  <2> QED
    BY <2>5, <2>6
<1>6. m \in Bijection(Cells(f), Cells(g))
  <2> HIDE DEF m
  <2> QED
    BY <1>3, <1>4, <1>5 DEF Bijection, Injection, Surjection, IsInjective
<1>7. ExistsBijection(Cells(f), Cells(g))
  BY <1>6 DEF ExistsBijection
<1>8. IsFiniteSet(Cells(f)) /\ Total(f) = Cardinality(Cells(f))
  BY TotalType
<1>9. Cardinality(Cells(g)) = Cardinality(Cells(f))
  BY <1>7, <1>8, FS_Bijection
<1> QED
  BY <1>8, <1>9 DEF Total, Cells

(* The sum over a part is at most the sum.                                 *)
LEMMA TotalSubset ==
  ASSUME NEW S, IsFiniteSet(S), NEW f \in [S -> Nat], NEW A \in SUBSET S
  PROVE  /\ Total([x \in A |-> f[x]]) \in Nat
         /\ Total([x \in A |-> f[x]]) <= Total(f)
         /\ Total(f) = Total([x \in A |-> f[x]]) + Total([x \in S \ A |-> f[x]])
<1>1. IsFiniteSet(A) /\ IsFiniteSet(S \ A)
  BY FS_Subset, FS_Difference
<1>2. A \cup (S \ A) = S /\ A \cap (S \ A) = {}
  OBVIOUS
<1>3. f \in [A \cup (S \ A) -> Nat]
  BY <1>2
<1>4. /\ Total([x \in A |-> f[x]]) \in Nat
      /\ Total([x \in S \ A |-> f[x]]) \in Nat
      /\ Total(f) = Total([x \in A |-> f[x]]) + Total([x \in S \ A |-> f[x]])
  BY <1>1, <1>2, <1>3, TotalSplit
<1> QED
  BY <1>4

(* The sum after one of its terms has changed.                             *)
LEMMA TotalChange ==
  ASSUME NEW S, IsFiniteSet(S), NEW f \in [S -> Nat], NEW g \in [S -> Nat],
         NEW a \in S, \A x \in S \ {a} : g[x] = f[x]
  PROVE  Total(g) = Total(f) - f[a] + g[a]
<1> DEFINE R == S \ {a}
<1>1. {a} \in SUBSET S
  OBVIOUS
<1>2. Total(f) = Total([x \in {a} |-> f[x]]) + Total([x \in R |-> f[x]])
  BY <1>1, TotalSubset
<1>3. Total(g) = Total([x \in {a} |-> g[x]]) + Total([x \in R |-> g[x]])
  BY <1>1, TotalSubset
<1>4. [x \in R |-> f[x]] = [x \in R |-> g[x]]
  OBVIOUS
<1>5. Total([x \in {a} |-> f[x]]) = f[a]
  <2>1. [x \in {a} |-> f[x]] = [x \in {a} |-> f[a]]
    OBVIOUS
  <2>2. f[a] \in Nat
    OBVIOUS
  <2>3. Total([x \in {a} |-> f[a]]) = f[a]
    BY <2>2, TotalOne
  <2> QED
    BY <2>1, <2>3
<1>6. Total([x \in {a} |-> g[x]]) = g[a]
  <2>1. [x \in {a} |-> g[x]] = [x \in {a} |-> g[a]]
    OBVIOUS
  <2>2. g[a] \in Nat
    OBVIOUS
  <2>3. Total([x \in {a} |-> g[a]]) = g[a]
    BY <2>2, TotalOne
  <2> QED
    BY <2>1, <2>3
<1>7. Total([x \in R |-> f[x]]) \in Nat
  <2>1. R \in SUBSET S
    OBVIOUS
  <2> QED
    BY <2>1, TotalSubset
<1> HIDE DEF R
<1> QED
  BY <1>2, <1>3, <1>4, <1>5, <1>6, <1>7

------------------------------------------------------------------------------
(* Queues.                                                                 *)

Item == [id : ObjectIDs, size : Nat]

IdSet(items) == {items[i].id : i \in DOMAIN items}

(* No object is twice in the queue.                                        *)
Distinct(items) ==
  \A i, j \in DOMAIN items : items[i].id = items[j].id => i = j

LEMMA ItemsFacts ==
  ASSUME NEW items \in Seq(Item)
  PROVE  /\ Len(items) \in Nat /\ DOMAIN items = 1 .. Len(items)
         /\ \A i \in 1 .. Len(items) :
              items[i] \in Item /\ items[i].id \in ObjectIDs /\ items[i].size \in Nat
         /\ IdSet(items) \subseteq ObjectIDs
<1>1. Len(items) \in Nat /\ DOMAIN items = 1 .. Len(items)
  BY LenProperties
<1>2. \A i \in 1 .. Len(items) : items[i] \in Item
  BY ElementOfSeq
<1>3. \A item \in Item : item.id \in ObjectIDs /\ item.size \in Nat
  BY DEF Item
<1> QED
  BY <1>1, <1>2, <1>3 DEF IdSet

(* Taking objects out of a queue.                                          *)
LEMMA WithoutFacts ==
  ASSUME NEW items \in Seq(Item), NEW ids
  PROVE  /\ Without(items, ids) \in Seq(Item)
         /\ IdSet(Without(items, ids)) = IdSet(items) \ ids
         /\ Distinct(items) => Distinct(Without(items, ids))
<1> DEFINE I == {i \in DOMAIN items : items[i].id \notin ids}
           w == Pick(items, I)
<1>1. I \in SUBSET DOMAIN items /\ Without(items, ids) = w
  BY DEF Without
<1>2. /\ w \in Seq(Item)
      /\ \A k \in DOMAIN w : \E i \in I : w[k] = items[i]
      /\ \A i \in I : \E k \in DOMAIN w : w[k] = items[i]
  BY <1>1, PickSeq
<1>3. IsFiniteSet(I) /\ I \subseteq Int
  <2>1. IsFiniteSet(I)
    BY <1>1, PickSeq
  <2> QED
    BY <2>1, ItemsFacts
<1>4. PICK f : IsPosition(f, items, I)
  BY <1>3, PickPositions
<1>5. DOMAIN w = 1 .. Cardinality(I)
  BY <1>3, PickPositions
<1>6. \A k \in DOMAIN w : f[k] \in I /\ w[k] = items[f[k]]
  BY <1>4, <1>5 DEF IsPosition, Bijection, Injection
<1>7. \A k, l \in DOMAIN w : f[k] = f[l] => k = l
  BY <1>4, <1>5 DEF IsPosition, Bijection, Injection, IsInjective
<1>8. Distinct(items) => Distinct(w)
  <2> HIDE DEF w
  <2> QED
    BY <1>6, <1>7 DEF Distinct
<1>9. IdSet(w) = IdSet(items) \ ids
  <2> HIDE DEF w
  <2>1. \A x : x \in IdSet(w) <=> x \in IdSet(items) /\ x \notin ids
    BY <1>2 DEF IdSet
  <2> QED
    BY <2>1
<1> QED
  BY <1>1, <1>2, <1>8, <1>9

(* Adding an object in front.                                              *)
LEMMA AddFacts ==
  ASSUME NEW items \in Seq(Item), NEW id \in ObjectIDs, NEW size \in Nat
  PROVE  LET more == <<[id |-> id, size |-> size]>> \o items
         IN  /\ more \in Seq(Item)
             /\ IdSet(more) = IdSet(items) \cup {id}
             /\ Distinct(items) /\ id \notin IdSet(items) => Distinct(more)
<1> DEFINE item == [id |-> id, size |-> size]
           more == <<item>> \o items
<1>1. item \in Item /\ <<item>> \in Seq(Item) /\ Len(<<item>>) = 1 /\ <<item>>[1] = item
  BY DEF Item
<1>2. /\ more \in Seq(Item) /\ Len(more) = 1 + Len(items)
      /\ \A i \in 1 .. 1 + Len(items) :
           more[i] = IF i <= 1 THEN <<item>>[i] ELSE items[i - 1]
  <2> HIDE DEF item
  <2> QED
    BY <1>1, ConcatProperties
<1>3. Len(items) \in Nat /\ DOMAIN items = 1 .. Len(items)
  BY ItemsFacts
<1>4. DOMAIN more = 1 .. 1 + Len(items)
  BY <1>2, LenProperties
<1>5. /\ 1 \in DOMAIN more /\ more[1] = item
      /\ \A i \in DOMAIN more : i # 1 => i - 1 \in DOMAIN items /\ more[i] = items[i - 1]
      /\ \A i \in DOMAIN items : i + 1 \in DOMAIN more /\ more[i + 1] = items[i]
  <2> HIDE DEF more, item
  <2> QED
    BY <1>1, <1>2, <1>3, <1>4
<1>6. item.id = id
  OBVIOUS
<1>7. \A i \in DOMAIN more : i \in Int
  BY <1>4
<1> HIDE DEF more, item
<1>8. \A x : x \in IdSet(more) <=> x \in IdSet(items) \/ x = id
  <2> TAKE x
  <2>1. ASSUME x \in IdSet(more) PROVE x \in IdSet(items) \/ x = id
    BY <2>1, <1>5, <1>6 DEF IdSet
  <2>2. ASSUME x \in IdSet(items) PROVE x \in IdSet(more)
    <3>1. PICK i \in DOMAIN items : x = items[i].id
      BY <2>2 DEF IdSet
    <3>2. i + 1 \in DOMAIN more /\ more[i + 1].id = x
      BY <3>1, <1>5
    <3> QED
      BY <3>2 DEF IdSet
  <2>3. id \in IdSet(more)
    BY <1>5, <1>6 DEF IdSet
  <2> QED
    BY <2>1, <2>2, <2>3
<1>9. Distinct(items) /\ id \notin IdSet(items) => Distinct(more)
  <2> HAVE Distinct(items) /\ id \notin IdSet(items)
  <2>1. \A i \in DOMAIN items : items[i].id # id
    BY DEF IdSet
  <2>2. \A i \in DOMAIN more : i # 1 => more[i].id # id
    BY <1>5, <2>1
  <2>3. \A i, j \in DOMAIN more : i # 1 /\ j # 1 /\ more[i].id = more[j].id => i = j
    BY <1>5, <1>7 DEF Distinct
  <2> QED
    BY <1>5, <1>6, <2>2, <2>3 DEF Distinct
<1>10. IdSet(more) = IdSet(items) \cup {id}
  BY <1>8
<1> QED
  BY <1>2, <1>9, <1>10 DEF more, item

(* The bytes of the last items grow with their number.                     *)
LEMMA LastBytesFacts ==
  ASSUME NEW items \in Seq(Item)
  PROVE  /\ \A k \in 0 .. Len(items) : LastBytes(items, k) \in Nat
         /\ \A k, l \in 0 .. Len(items) :
              k <= l => LastBytes(items, k) <= LastBytes(items, l)
<1> DEFINE n == Len(items)
           J(k) == (n - k + 1) .. n
           f(k) == [i \in J(k) |-> items[i].size]
<1>1. n \in Nat /\ \A i \in 1 .. n : items[i].size \in Nat
  BY ItemsFacts
<1>2. \A k \in 0 .. n : LastBytes(items, k) = Total(f(k))
  BY DEF LastBytes
<1>3. \A k \in 0 .. n : IsFiniteSet(J(k)) /\ f(k) \in [J(k) -> Nat]
  <2> TAKE k \in 0 .. n
  <2>1. n - k + 1 \in Int /\ n \in Int
    BY <1>1
  <2>2. IsFiniteSet(J(k))
    BY <2>1, FS_Interval
  <2>3. J(k) \subseteq 1 .. n
    BY <1>1
  <2> QED
    BY <1>1, <2>2, <2>3
<1>4. ASSUME NEW k \in 0 .. n PROVE LastBytes(items, k) \in Nat
  <2> HIDE DEF f, J
  <2>1. Total(f(k)) \in Nat
    BY <1>3, TotalType
  <2> QED
    BY <2>1, <1>2
<1>5. ASSUME NEW k \in 0 .. n, NEW l \in 0 .. n, k <= l
      PROVE  LastBytes(items, k) <= LastBytes(items, l)
  <2>1. J(k) \in SUBSET J(l)
    BY <1>1, <1>5
  <2>2. f(k) = [i \in J(k) |-> f(l)[i]]
    BY <2>1
  <2>3. Total([i \in J(k) |-> f(l)[i]]) <= Total(f(l))
    <3> HIDE DEF f, J
    <3> QED
      BY <1>3, <2>1, TotalSubset
  <2> QED
    BY <1>2, <2>2, <2>3
<1> QED
  BY <1>4, <1>5

(* The loop of ChooseObjectsToEvict stops at the bytes asked for, or when  *)
(* there is nothing left to take.                                          *)
LEMMA NumToEvictFacts ==
  ASSUME NEW lru, lru.items \in Seq(Item), NEW bytes \in Int
  PROVE  LET m == NumToEvict(lru, bytes)
         IN  /\ m \in 0 .. Len(lru.items)
             /\ m < Len(lru.items) => LastBytes(lru.items, m) >= bytes
<1> DEFINE n == Len(lru.items)
           D == {k \in 0 .. (n - 1) : LastBytes(lru.items, k) < bytes}
           m == Cardinality(D)
<1>1. NumToEvict(lru, bytes) = m
  BY DEF NumToEvict
<1>2. n \in Nat /\ \A k \in 0 .. n : LastBytes(lru.items, k) \in Nat
  BY ItemsFacts, LastBytesFacts
<1>3. IsFiniteSet(0 .. (n - 1)) /\ Cardinality(0 .. (n - 1)) = n
  <2>1. 0 \in Int /\ n - 1 \in Int
    BY <1>2
  <2>2. /\ IsFiniteSet(0 .. (n - 1))
        /\ Cardinality(0 .. (n - 1)) = IF 0 > n - 1 THEN 0 ELSE n - 1 - 0 + 1
    BY <2>1, FS_Interval
  <2> QED
    BY <1>2, <2>2
<1>4. IsFiniteSet(D) /\ m \in Nat /\ m <= n
  <2>1. D \in SUBSET (0 .. (n - 1))
    OBVIOUS
  <2> HIDE DEF D
  <2> QED
    BY <1>3, <2>1, FS_Subset, FS_CardinalityType
<1>5. ASSUME m < n, LastBytes(lru.items, m) < bytes PROVE FALSE
  <2>1. \A k \in 0 .. m : LastBytes(lru.items, k) <= LastBytes(lru.items, m)
    <3> HIDE DEF m
    <3>1. \A k \in 0 .. m : k \in 0 .. n /\ m \in 0 .. n /\ k <= m
      BY <1>2, <1>4, <1>5
    <3> QED
      BY <3>1, LastBytesFacts
  <2>2. \A k \in 0 .. m : k \in 0 .. (n - 1)
    BY <1>2, <1>4, <1>5
  <2>3. \A k \in 0 .. m : LastBytes(lru.items, k) < bytes
    <3> HIDE DEF m
    <3>1. \A k \in 0 .. m : k \in 0 .. n
      BY <1>2, <1>4, <1>5
    <3>2. m \in 0 .. n
      BY <1>2, <1>4, <1>5
    <3> QED
      BY <1>2, <1>5, <2>1, <3>1, <3>2
  <2>4. (0 .. m) \in SUBSET D
    BY <2>2, <2>3
  <2>5. Cardinality(0 .. m) <= m
    <3> HIDE DEF D
    <3> QED
      BY <1>4, <2>4, FS_Subset
  <2>6. Cardinality(0 .. m) = IF 0 > m THEN 0 ELSE m - 0 + 1
    <3>1. 0 \in Int /\ m \in Int
      BY <1>4
    <3> HIDE DEF m
    <3> QED
      BY <3>1, FS_Interval
  <2> HIDE DEF m
  <2> QED
    BY <1>4, <2>5, <2>6
<1>6. m < n => LastBytes(lru.items, m) >= bytes
  <2> HIDE DEF m
  <2>1. m < n => m \in 0 .. n
    BY <1>2, <1>4
  <2> QED
    BY <1>2, <1>4, <1>5, <2>1
<1>7. m \in 0 .. n
  BY <1>2, <1>4
<1> HIDE DEF m
<1> QED
  BY <1>1, <1>6, <1>7

(* What is chosen for eviction and what stays in the queue.                *)
LEMMA ChooseFacts ==
  ASSUME NEW lru, lru.items \in Seq(Item), Distinct(lru.items), NEW bytes \in Int
  PROVE  LET n == Len(lru.items)
             m == NumToEvict(lru, bytes)
             ids == Ids(LruChoose(lru, bytes))
             rest == SubSeq(lru.items, 1, n - m)
         IN  /\ ids \in Seq(ObjectIDs) /\ IsInjective(ids) /\ Len(ids) = m
             /\ ToSet(ids) = {lru.items[i].id : i \in (n - m + 1) .. n}
             /\ ToSet(ids) \subseteq IdSet(lru.items)
             /\ rest \in Seq(Item) /\ Distinct(rest)
             /\ IdSet(rest) = IdSet(lru.items) \ ToSet(ids)
             /\ m = n => rest = <<>>
<1> DEFINE items == lru.items
           n == Len(items)
           m == NumToEvict(lru, bytes)
           last == SubSeq(items, n - m + 1, n)
           ids == Ids(LruChoose(lru, bytes))
           rest == SubSeq(items, 1, n - m)
<1>1. n \in Nat /\ DOMAIN items = 1 .. n
      /\ \A i \in 1 .. n : items[i] \in Item /\ items[i].id \in ObjectIDs
  BY ItemsFacts
<1>2. m \in 0 .. n
  BY NumToEvictFacts
<1>3. /\ last \in Seq(Item) /\ Len(last) = m
      /\ \A i \in 1 .. m : last[i] = items[n - m + i]
  <2>1. n - m + 1 \in Int /\ n \in Int
    BY <1>1, <1>2
  <2>2. \A i \in n - m + 1 .. n : items[i] \in Item
    BY <1>1, <1>2
  <2> HIDE DEF m, n, items
  <2>3. /\ last \in Seq(Item)
        /\ Len(last) = IF n - m + 1 <= n THEN n - (n - m + 1) + 1 ELSE 0
        /\ \A i \in 1 .. n - (n - m + 1) + 1 : last[i] = items[n - m + 1 + i - 1]
    BY <2>1, <2>2, SubSeqProperties
  <2>4. n - (n - m + 1) + 1 = m /\ \A i \in 1 .. m : n - m + 1 + i - 1 = n - m + i
    BY <1>1, <1>2
  <2>5. Len(last) = m
    BY <1>1, <1>2, <2>3
  <2> QED
    BY <2>3, <2>4, <2>5
<1>4. DOMAIN last = 1 .. m
  BY <1>3, LenProperties
<1>5. ids = [i \in 1 .. m |-> last[m - i + 1].id]
  <2>1. LruChoose(lru, bytes) = [i \in 1 .. m |-> last[m - i + 1]]
    BY <1>3 DEF LruChoose, Reverse
  <2> HIDE DEF last, m
  <2> QED
    BY <2>1 DEF Ids
<1> HIDE DEF last
<1>6. \A i \in 1 .. m : /\ m - i + 1 \in 1 .. m /\ n - i + 1 \in 1 .. n
                        /\ ids[i] = items[n - i + 1].id
  <2> TAKE i \in 1 .. m
  <2>1. m - i + 1 \in 1 .. m /\ n - i + 1 \in 1 .. n /\ n - m + (m - i + 1) = n - i + 1
    BY <1>1, <1>2
  <2> HIDE DEF m, n, items
  <2> QED
    BY <1>3, <1>5, <2>1
<1> HIDE DEF m, n, ids
<1>7. ids \in Seq(ObjectIDs) /\ DOMAIN ids = 1 .. m /\ Len(ids) = m
  <2>1. ids \in [1 .. m -> ObjectIDs]
    BY <1>1, <1>5, <1>6
  <2>2. m \in Nat
    BY <1>1, <1>2
  <2>3. ids \in Seq(ObjectIDs)
    BY <2>1, <2>2, SeqDef
  <2> QED
    BY <2>1, <2>2, <2>3, LenProperties
<1>8. IsInjective(ids)
  <2>1. \A i, j \in 1 .. m : items[n - i + 1].id = items[n - j + 1].id => i = j
    <3> TAKE i, j \in 1 .. m
    <3> HAVE items[n - i + 1].id = items[n - j + 1].id
    <3>1. n - i + 1 = n - j + 1
      BY <1>1, <1>6 DEF Distinct
    <3> QED
      BY <3>1, <1>1, <1>2
  <2> QED
    BY <2>1, <1>6, <1>7 DEF IsInjective
<1>9. ToSet(ids) = {items[i].id : i \in (n - m + 1) .. n}
  <2>1. \A i \in 1 .. m : n - i + 1 \in (n - m + 1) .. n
    BY <1>1, <1>2
  <2>2. \A i \in (n - m + 1) .. n : n - i + 1 \in 1 .. m /\ n - (n - i + 1) + 1 = i
    BY <1>1, <1>2
  <2>3. \A i \in (n - m + 1) .. n : ids[n - i + 1] = items[i].id
    BY <1>6, <2>2
  <2> HIDE DEF items
  <2>4. \A x : x \in ToSet(ids) <=> \E i \in 1 .. m : x = ids[i]
    BY <1>7 DEF ToSet
  <2>5. \A x : x \in ToSet(ids) => \E i \in (n - m + 1) .. n : x = items[i].id
    BY <1>6, <2>1, <2>4
  <2>6. \A i \in (n - m + 1) .. n : items[i].id \in ToSet(ids)
    BY <2>2, <2>3, <2>4
  <2> QED
    BY <2>5, <2>6
<1>10. (n - m + 1) .. n \subseteq 1 .. n
  BY <1>1, <1>2
<1>11. ToSet(ids) \subseteq IdSet(items)
  BY <1>1, <1>9, <1>10 DEF IdSet
<1>12. /\ rest \in Seq(Item) /\ Len(rest) = n - m
       /\ \A i \in 1 .. n - m : rest[i] = items[i]
  <2>1. 1 \in Int /\ n - m \in Int /\ n - m >= 0
    BY <1>1, <1>2
  <2>2. \A i \in 1 .. n - m : items[i] \in Item
    BY <1>1, <1>2
  <2> HIDE DEF items
  <2>3. /\ rest \in Seq(Item)
        /\ Len(rest) = IF 1 <= n - m THEN n - m - 1 + 1 ELSE 0
        /\ \A i \in 1 .. n - m - 1 + 1 : rest[i] = items[1 + i - 1]
    BY <2>1, <2>2, SubSeqProperties
  <2>4. n - m - 1 + 1 = n - m /\ \A i \in 1 .. n - m : 1 + i - 1 = i
    BY <2>1
  <2>5. Len(rest) = n - m
    BY <2>1, <2>3
  <2> HIDE DEF rest
  <2> QED
    BY <2>3, <2>4, <2>5
<1>13. DOMAIN rest = 1 .. n - m /\ 1 .. n - m \subseteq 1 .. n
  BY <1>1, <1>2, <1>12, LenProperties
<1>14. m = n => rest = <<>>
  BY <1>1, <1>12, EmptySeq
<1> HIDE DEF rest
<1>15. Distinct(rest)
  BY <1>1, <1>12, <1>13 DEF Distinct
<1>16. IdSet(rest) = IdSet(items) \ ToSet(ids)
  <2>1. \A i \in 1 .. n : i \in 1 .. n - m \/ i \in (n - m + 1) .. n
    BY <1>1, <1>2
  <2>2. \A i \in 1 .. n - m : i \notin (n - m + 1) .. n
    BY <1>1, <1>2
  <2>3. \A i \in 1 .. n - m : items[i].id \notin ToSet(ids)
    BY <1>1, <1>9, <1>10, <1>13, <2>2 DEF Distinct
  <2>4. \A x \in IdSet(items) : x \notin ToSet(ids) => x \in IdSet(rest)
    BY <1>1, <1>9, <1>12, <1>13, <2>1 DEF IdSet
  <2>5. \A x \in IdSet(rest) : x \in IdSet(items) /\ x \notin ToSet(ids)
    BY <1>1, <1>12, <1>13, <2>3 DEF IdSet
  <2> QED
    BY <2>4, <2>5
<1> QED
  BY <1>7, <1>8, <1>9, <1>11, <1>12, <1>14, <1>15, <1>16 DEF rest, ids, m, n

------------------------------------------------------------------------------
(* Bytes in a queue.                                                       *)

LEMMA BytesType ==
  ASSUME NEW items \in Seq(Item)
  PROVE  /\ IsFiniteSet(DOMAIN items)
         /\ [i \in DOMAIN items |-> items[i].size] \in [DOMAIN items -> Nat]
         /\ Bytes(items) \in Nat
<1>1. Len(items) \in Nat /\ DOMAIN items = 1 .. Len(items)
      /\ \A i \in 1 .. Len(items) : items[i].size \in Nat
  BY ItemsFacts
<1>2. 1 \in Int /\ Len(items) \in Int
  BY <1>1
<1>3. IsFiniteSet(DOMAIN items)
  BY <1>1, <1>2, FS_Interval
<1>4. [i \in DOMAIN items |-> items[i].size] \in [DOMAIN items -> Nat]
  BY <1>1
<1> QED
  BY <1>3, <1>4, TotalType DEF Bytes

(* A pick holds the bytes of the positions it takes.                       *)
LEMMA BytesPick ==
  ASSUME NEW items \in Seq(Item), NEW I \in SUBSET DOMAIN items
  PROVE  /\ Bytes(Pick(items, I)) = Total([i \in I |-> items[i].size])
         /\ Bytes(Pick(items, I)) <= Bytes(items)
<1> DEFINE w == Pick(items, I)
           f == [k \in DOMAIN w |-> w[k].size]
           g == [i \in I |-> items[i].size]
<1>1. w \in Seq(Item) /\ DOMAIN w = 1 .. Cardinality(I) /\ IsFiniteSet(I)
  BY PickSeq
<1>2. I \subseteq Int /\ \A i \in I : items[i].size \in Nat
  BY ItemsFacts
<1>3. PICK h : IsPosition(h, items, I)
  BY <1>1, <1>2, PickPositions
<1>4. h \in Bijection(DOMAIN w, I)
  BY <1>1, <1>3 DEF IsPosition
<1>5. \A k \in DOMAIN w : h[k] \in I /\ w[k] = items[h[k]]
  BY <1>1, <1>3 DEF IsPosition, Bijection, Injection
<1>6. IsFiniteSet(DOMAIN w) /\ f \in [DOMAIN w -> Nat]
  BY <1>1, BytesType
<1>7. g \in [I -> Nat]
  BY <1>2
<1>8. \A k \in DOMAIN w : g[h[k]] = f[k]
  BY <1>5
<1>9. Total(f) = Total(g)
  <2> HIDE DEF f, g, w
  <2> QED
    BY <1>4, <1>6, <1>7, <1>8, TotalBijection
<1>10. Bytes(w) = Total(g)
  BY <1>9 DEF Bytes
<1>11. Total(g) <= Bytes(items)
  <2> DEFINE all == [i \in DOMAIN items |-> items[i].size]
  <2>1. g = [i \in I |-> all[i]]
    OBVIOUS
  <2>2. IsFiniteSet(DOMAIN items) /\ all \in [DOMAIN items -> Nat]
    BY BytesType
  <2>3. Total([i \in I |-> all[i]]) <= Total(all)
    <3> HIDE DEF all
    <3> QED
      BY <2>2, TotalSubset
  <2> QED
    BY <2>1, <2>3 DEF Bytes
<1> QED
  BY <1>10, <1>11

LEMMA BytesWithout ==
  ASSUME NEW items \in Seq(Item), NEW ids
  PROVE  /\ Bytes(Without(items, ids)) \in Nat
         /\ Bytes(Without(items, ids)) <= Bytes(items)
<1>1. {i \in DOMAIN items : items[i].id \notin ids} \in SUBSET DOMAIN items
  OBVIOUS
<1>2. Bytes(Without(items, ids)) <= Bytes(items)
  BY <1>1, BytesPick DEF Without
<1> QED
  BY <1>2, WithoutFacts, BytesType

(* Removing one object frees its bytes.                                    *)
LEMMA BytesRemove ==
  ASSUME NEW items \in Seq(Item), Distinct(items), NEW i \in DOMAIN items
  PROVE  Bytes(Without(items, {items[i].id})) = Bytes(items) - items[i].size
<1> DEFINE I == {j \in DOMAIN items : items[j].id \notin {items[i].id}}
           all == [j \in DOMAIN items |-> items[j].size]
<1>1. I = DOMAIN items \ {i} /\ I \in SUBSET DOMAIN items
  BY DEF Distinct
<1>2. Bytes(Without(items, {items[i].id})) = Total([j \in I |-> items[j].size])
  BY <1>1, BytesPick DEF Without
<1>3. IsFiniteSet(DOMAIN items) /\ all \in [DOMAIN items -> Nat] /\ Bytes(items) = Total(all)
  BY BytesType DEF Bytes
<1>4. /\ Total(all) = Total([j \in {i} |-> all[j]])
                      + Total([j \in DOMAIN items \ {i} |-> all[j]])
      /\ Total([j \in {i} |-> all[j]]) \in Nat
  <2>1. {i} \in SUBSET DOMAIN items
    OBVIOUS
  <2> HIDE DEF all
  <2> QED
    BY <1>3, <2>1, TotalSubset
<1>5. Total([j \in {i} |-> all[j]]) = items[i].size
  <2>1. [j \in {i} |-> all[j]] = [j \in {i} |-> items[i].size]
    OBVIOUS
  <2>2. items[i].size \in Nat
    BY ItemsFacts
  <2>3. Total([j \in {i} |-> items[i].size]) = items[i].size
    BY <2>2, TotalOne
  <2> QED
    BY <2>1, <2>3
<1>6. [j \in I |-> items[j].size] = [j \in DOMAIN items \ {i} |-> all[j]]
  BY <1>1
<1>7. Total([j \in DOMAIN items \ {i} |-> all[j]]) \in Nat
  <2>1. (DOMAIN items \ {i}) \in SUBSET DOMAIN items
    OBVIOUS
  <2> HIDE DEF all
  <2> QED
    BY <1>3, <2>1, TotalSubset
<1> DEFINE rest == Total([j \in DOMAIN items \ {i} |-> all[j]])
<1>8. Bytes(Without(items, {items[i].id})) = rest
  BY <1>2, <1>6
<1>9. Bytes(items) = items[i].size + rest /\ items[i].size \in Nat /\ rest \in Nat
  BY <1>3, <1>4, <1>5, <1>7
<1> HIDE DEF rest
<1> QED
  BY <1>8, <1>9

(* Adding one takes its bytes.                                             *)
LEMMA BytesAdd ==
  ASSUME NEW items \in Seq(Item), NEW id \in ObjectIDs, NEW size \in Nat
  PROVE  Bytes(<<[id |-> id, size |-> size]>> \o items) = Bytes(items) + size
<1> DEFINE item == [id |-> id, size |-> size]
           more == <<item>> \o items
           n == Len(items)
           f == [i \in DOMAIN items |-> items[i].size]
           g == [i \in DOMAIN more |-> more[i].size]
           R == DOMAIN more \ {1}
<1>1. item \in Item /\ item.size = size /\ <<item>> \in Seq(Item)
      /\ Len(<<item>>) = 1 /\ <<item>>[1] = item
  BY DEF Item
<1>2. /\ more \in Seq(Item) /\ Len(more) = 1 + n
      /\ \A i \in 1 .. 1 + n : more[i] = IF i <= 1 THEN <<item>>[i] ELSE items[i - 1]
  <2> HIDE DEF item
  <2> QED
    BY <1>1, ConcatProperties
<1>3. n \in Nat /\ DOMAIN items = 1 .. n
  BY ItemsFacts
<1>4. DOMAIN more = 1 .. 1 + n
  BY <1>2, LenProperties
<1> HIDE DEF more, item
<1>5. more[1] = item /\ \A i \in 1 .. n : more[i + 1] = items[i]
  <2>1. more[1] = item
    BY <1>1, <1>2, <1>3
  <2>2. ASSUME NEW i \in 1 .. n PROVE more[i + 1] = items[i]
    <3>1. i + 1 \in 1 .. 1 + n /\ ~(i + 1 <= 1) /\ i + 1 - 1 = i
      BY <1>3
    <3> QED
      BY <1>2, <3>1
  <2> QED
    BY <2>1, <2>2
<1>6. IsFiniteSet(DOMAIN items) /\ f \in [DOMAIN items -> Nat]
  BY BytesType
<1>7. IsFiniteSet(DOMAIN more) /\ g \in [DOMAIN more -> Nat]
  BY <1>2, BytesType
<1>8. /\ Total(g) = Total([i \in {1} |-> g[i]]) + Total([i \in R |-> g[i]])
  <2>1. {1} \in SUBSET DOMAIN more
    BY <1>3, <1>4
  <2> HIDE DEF g
  <2> QED
    BY <1>7, <2>1, TotalSubset
<1>9. Total([i \in {1} |-> g[i]]) = size
  <2>1. [i \in {1} |-> g[i]] = [i \in {1} |-> size]
    BY <1>1, <1>3, <1>4, <1>5
  <2>2. Total([i \in {1} |-> size]) = size
    BY TotalOne
  <2> QED
    BY <2>1, <2>2
<1>10. Total(f) = Total([i \in R |-> g[i]])
  <2> DEFINE h == [i \in DOMAIN items |-> i + 1]
             r == [i \in R |-> g[i]]
  <2>1. \A i \in 1 .. n : i + 1 \in R
    BY <1>3, <1>4
  <2>2. \A j \in R : j - 1 \in 1 .. n /\ (j - 1) + 1 = j
    BY <1>3, <1>4
  <2>3. h \in [DOMAIN items -> R]
    BY <2>1, <1>3
  <2>4. \A i, j \in DOMAIN items : h[i] = h[j] => i = j
    BY <1>3
  <2>5. \A j \in R : \E i \in DOMAIN items : h[i] = j
    BY <2>2, <1>3
  <2>6. h \in Bijection(DOMAIN items, R)
    <3> HIDE DEF h, R
    <3> QED
      BY <2>3, <2>4, <2>5 DEF Bijection, Injection, Surjection, IsInjective
  <2>7. r \in [R -> Nat]
    BY <1>7
  <2>8. \A i \in DOMAIN items : r[h[i]] = f[i]
    BY <1>3, <1>4, <1>5, <2>1
  <2> HIDE DEF h, r, f, R
  <2>9. Total(f) = Total(r)
    BY <1>6, <2>6, <2>7, <2>8, TotalBijection
  <2> QED
    BY <2>9 DEF r
<1>11. Total(f) \in Nat
  <2> HIDE DEF f
  <2> QED
    BY <1>6, TotalType
<1>12. Bytes(items) = Total(f) /\ Bytes(more) = Total(g)
  BY DEF Bytes
<1> HIDE DEF f, g, R
<1>13. Bytes(more) = Bytes(items) + size
  BY <1>8, <1>9, <1>10, <1>11, <1>12
<1> QED
  BY <1>13 DEF more, item

(* What stays after the last items have been ejected, and the bytes of the *)
(* ejected ones.                                                           *)
LEMMA BytesEjected ==
  ASSUME NEW items \in Seq(Item), Distinct(items), NEW m \in 0 .. Len(items), NEW ids,
         ids = {items[i].id : i \in (Len(items) - m + 1) .. Len(items)}
  PROVE  Bytes(Without(items, ids)) = Bytes(items) - LastBytes(items, m)
<1> DEFINE n == Len(items)
           I == {i \in DOMAIN items : items[i].id \notin ids}
           J == (n - m + 1) .. n
           all == [i \in DOMAIN items |-> items[i].size]
<1>1. n \in Nat /\ DOMAIN items = 1 .. n
  BY ItemsFacts
<1>2. J \in SUBSET DOMAIN items
  BY <1>1
<1>3. I = DOMAIN items \ J
  <2>1. \A i \in J : i \in DOMAIN items /\ items[i].id \in ids
    BY <1>2
  <2>2. ASSUME NEW i \in DOMAIN items, items[i].id \in ids PROVE i \in J
    <3>1. PICK j \in J : items[i].id = items[j].id
      BY <2>2
    <3>2. i = j
      BY <3>1, <2>1 DEF Distinct
    <3> QED
      BY <3>2
  <2> HIDE DEF J
  <2> QED
    BY <2>1, <2>2
<1>4. Bytes(Without(items, ids)) = Total([i \in I |-> items[i].size])
  <2>1. I \in SUBSET DOMAIN items
    OBVIOUS
  <2> QED
    BY <2>1, BytesPick DEF Without
<1>5. IsFiniteSet(DOMAIN items) /\ all \in [DOMAIN items -> Nat] /\ Bytes(items) = Total(all)
  BY BytesType DEF Bytes
<1>6. /\ Total(all) = Total([i \in J |-> all[i]]) + Total([i \in DOMAIN items \ J |-> all[i]])
      /\ Total([i \in J |-> all[i]]) \in Nat
      /\ Total([i \in DOMAIN items \ J |-> all[i]]) \in Nat
  <2>1. (DOMAIN items \ J) \in SUBSET DOMAIN items
    OBVIOUS
  <2> HIDE DEF all, J
  <2> QED
    BY <1>2, <1>5, <2>1, TotalSubset
<1>7. [i \in J |-> all[i]] = [i \in J |-> items[i].size]
  BY <1>2
<1>8. LastBytes(items, m) = Total([i \in J |-> items[i].size])
  BY DEF LastBytes
<1>9. [i \in I |-> items[i].size] = [i \in DOMAIN items \ J |-> all[i]]
  BY <1>3
<1> DEFINE out == Total([i \in J |-> all[i]])
           in == Total([i \in DOMAIN items \ J |-> all[i]])
<1>10. Bytes(Without(items, ids)) = in
  BY <1>4, <1>9
<1>11. LastBytes(items, m) = out
  BY <1>7, <1>8
<1>12. Bytes(items) = out + in /\ out \in Nat /\ in \in Nat
  BY <1>5, <1>6
<1> HIDE DEF in, out
<1> QED
  BY <1>10, <1>11, <1>12

------------------------------------------------------------------------------
(* The operations of the policy.                                           *)

Capacities(p) == [c \in Clients |-> p.per_client_cache_[c].capacity]

(* What every operation preserves: no object is twice in a queue or in two *)
(* of them, a client's queue holds exactly the objects it is charged for,  *)
(* only those are pinned in it, and a client without a quota has no queue. *)
PolicyInv(p) ==
  /\ p \in PolicyType
  /\ Distinct(p.cache_.items)
  /\ p.cache_.capacity \in Nat
  /\ \A id \in Keys(p.cache_) : ~Owned(p, id)
  /\ \A id \in p.shared_for_read_ : Owned(p, id)
  /\ \A c \in Clients :
       /\ Distinct(p.per_client_cache_[c].items)
       /\ Keys(p.per_client_cache_[c]) =
            {id \in ObjectIDs : p.owned_by_client_[id] = c}
       /\ p.per_client_cache_[c].capacity = -1 =>
            p.per_client_cache_[c] = NoQuota

LEMMA LruFacts ==
  ASSUME NEW lru \in LruType
  PROVE  /\ lru.items \in Seq(Item)
         /\ lru.capacity \in Nat \cup {-1}
         /\ Keys(lru) = IdSet(lru.items)
         /\ Keys(lru) \subseteq ObjectIDs
<1>1. lru.items \in Seq(Item) /\ lru.capacity \in Nat \cup {-1}
  BY DEF LruType, Item
<1>2. Keys(lru) = IdSet(lru.items)
  BY DEF Keys, IdSet
<1> QED
  BY <1>1, <1>2, ItemsFacts

LEMMA MakeLru ==
  ASSUME NEW lru \in LruType, NEW items \in Seq(Item)
  PROVE  /\ [lru EXCEPT !.items = items] \in LruType
         /\ [lru EXCEPT !.items = items].items = items
         /\ [lru EXCEPT !.items = items].capacity = lru.capacity
  BY DEF LruType, Item

LEMMA PolicyFields ==
  ASSUME NEW p \in PolicyType
  PROVE  /\ p.ok \in BOOLEAN
         /\ p.cache_ \in LruType
         /\ p.per_client_cache_ \in [Clients -> LruType]
         /\ p.owned_by_client_ \in [ObjectIDs -> Clients \cup {NoClient}]
         /\ p.shared_for_read_ \in SUBSET ObjectIDs
  BY DEF PolicyType

(* A policy that differs in the global queue alone.                        *)
LEMMA SetGlobal ==
  ASSUME NEW p, PolicyInv(p), NEW q \in PolicyType,
         q.per_client_cache_ = p.per_client_cache_,
         q.owned_by_client_ = p.owned_by_client_,
         q.shared_for_read_ = p.shared_for_read_,
         Distinct(q.cache_.items), q.cache_.capacity \in Nat,
         \A id \in Keys(q.cache_) : ~Owned(p, id)
  PROVE  PolicyInv(q)
<1>1. \A id : Owned(q, id) <=> Owned(p, id)
  BY DEF Owned
<1> QED
  BY <1>1 DEF PolicyInv

(* A policy that differs in client c's queue and in what is charged to c   *)
(* and pinned.                                                             *)
LEMMA SetClient ==
  ASSUME NEW p, PolicyInv(p), NEW c \in Clients, NEW q \in PolicyType, NEW lru,
         q.per_client_cache_ = [p.per_client_cache_ EXCEPT ![c] = lru],
         Distinct(lru.items), lru.capacity = -1 => lru = NoQuota,
         Keys(lru) = {id \in ObjectIDs : q.owned_by_client_[id] = c},
         \A id \in ObjectIDs : q.owned_by_client_[id] # p.owned_by_client_[id] =>
             /\ q.owned_by_client_[id] \in {c, NoClient}
             /\ p.owned_by_client_[id] \in {c, NoClient},
         \A id \in q.shared_for_read_ : Owned(q, id),
         Distinct(q.cache_.items), q.cache_.capacity \in Nat,
         \A id \in Keys(q.cache_) : ~Owned(q, id)
  PROVE  PolicyInv(q)
<1>1. p \in PolicyType
  BY DEF PolicyInv
<1>2. p.per_client_cache_ \in [Clients -> LruType]
  BY <1>1, PolicyFields
<1>3. \A d \in Clients : q.per_client_cache_[d] =
                           IF d = c THEN lru ELSE p.per_client_cache_[d]
  BY <1>2
<1>4. \A d \in Clients :
        /\ Distinct(q.per_client_cache_[d].items)
        /\ Keys(q.per_client_cache_[d]) =
             {id \in ObjectIDs : q.owned_by_client_[id] = d}
        /\ q.per_client_cache_[d].capacity = -1 => q.per_client_cache_[d] = NoQuota
  <2> TAKE d \in Clients
  <2>1. CASE d = c
    BY <2>1, <1>3
  <2>2. CASE d # c
    <3>1. \A id \in ObjectIDs : q.owned_by_client_[id] = d
                                <=> p.owned_by_client_[id] = d
      BY <2>2, NoClientAssumption
    <3> QED
      BY <2>2, <3>1, <1>3 DEF PolicyInv
  <2> QED
    BY <2>1, <2>2
<1> QED
  BY <1>4 DEF PolicyInv

LEMMA InitialPolicyInv ==
  ASSUME Limit \in Nat
  PROVE  /\ PolicyInv(InitialPolicy) /\ InitialPolicy.ok
         /\ Keys(InitialPolicy.cache_) = {}
         /\ \A id \in ObjectIDs : ~Owned(InitialPolicy, id)
         /\ InitialPolicy.shared_for_read_ = {}
         /\ \A c \in Clients : ~HasQuota(InitialPolicy, c)
<1> DEFINE p == InitialPolicy
<1>1. <<>> \in Seq(Item) /\ Distinct(<<>>)
  BY DEF Distinct
<1>2. \A n \in Nat \cup {-1} : LRUCache(n) \in LruType /\ LRUCache(n).items = <<>>
                               /\ LRUCache(n).capacity = n
  BY <1>1 DEF LRUCache, LruType, Item
<1>3. NoQuota \in LruType /\ NoQuota.items = <<>>
  BY <1>2 DEF NoQuota
<1>4. /\ p.ok = TRUE /\ p.cache_ = LRUCache(Limit)
      /\ p.per_client_cache_ = [c \in Clients |-> NoQuota]
      /\ p.owned_by_client_ = [id \in ObjectIDs |-> NoClient]
      /\ p.shared_for_read_ = {}
  BY DEF InitialPolicy
<1>5. p \in PolicyType
  BY <1>2, <1>3 DEF InitialPolicy, PolicyType
<1>6. Keys(p.cache_) = {} /\ \A c \in Clients : Keys(p.per_client_cache_[c]) = {}
  BY <1>2, <1>3, <1>4 DEF Keys
<1> HIDE DEF p
<1>7. \A id \in ObjectIDs : ~Owned(p, id)
  BY <1>4 DEF Owned
<1>8. \A c \in Clients : Keys(p.per_client_cache_[c]) =
                           {id \in ObjectIDs : p.owned_by_client_[id] = c}
  BY <1>4, <1>6, NoClientAssumption
<1>9. PolicyInv(p)
  BY <1>1, <1>2, <1>3, <1>4, <1>5, <1>6, <1>8 DEF PolicyInv
<1> QED
  BY <1>4, <1>6, <1>7, <1>9 DEF p, HasQuota

(* The global LRU takes an object that is in no queue.                     *)
LEMMA GlobalAddFacts ==
  ASSUME NEW p, PolicyInv(p), NEW id \in ObjectIDs, NEW size \in Nat,
         id \notin Keys(p.cache_), ~Owned(p, id)
  PROVE  LET q == GlobalAdd(p, id, size)
         IN  /\ PolicyInv(q) /\ (p.ok => q.ok)
             /\ Keys(q.cache_) = Keys(p.cache_) \cup {id}
             /\ q.cache_.capacity = p.cache_.capacity
             /\ q.per_client_cache_ = p.per_client_cache_
             /\ q.owned_by_client_ = p.owned_by_client_
             /\ q.shared_for_read_ = p.shared_for_read_
<1> DEFINE lru == Add(p.cache_, id, size)
           more == <<[id |-> id, size |-> size]>> \o p.cache_.items
           q == GlobalAdd(p, id, size)
<1>1. p \in PolicyType /\ p.ok \in BOOLEAN /\ p.cache_ \in LruType
  BY PolicyFields DEF PolicyInv
<1>2. p.cache_.items \in Seq(Item) /\ Keys(p.cache_) = IdSet(p.cache_.items)
  BY <1>1, LruFacts
<1>3. /\ more \in Seq(Item) /\ Distinct(more)
      /\ IdSet(more) = IdSet(p.cache_.items) \cup {id}
  BY <1>2, AddFacts DEF PolicyInv
<1> HIDE DEF more
<1>4. lru = [p.cache_ EXCEPT !.items = more]
  BY DEF Add, more
<1>5. lru \in LruType /\ lru.items = more /\ lru.capacity = p.cache_.capacity
  BY <1>1, <1>3, <1>4, MakeLru
<1> HIDE DEF lru
<1>6. Keys(lru) = Keys(p.cache_) \cup {id}
  BY <1>2, <1>3, <1>5, LruFacts
<1>7. /\ q \in PolicyType /\ q.cache_ = lru
      /\ q.per_client_cache_ = p.per_client_cache_
      /\ q.owned_by_client_ = p.owned_by_client_
      /\ q.shared_for_read_ = p.shared_for_read_
  BY <1>1, <1>5 DEF GlobalAdd, lru, PolicyType
<1>8. p.ok => q.ok
  BY <1>1 DEF GlobalAdd, PolicyType
<1> HIDE DEF q
<1>9. \A x \in Keys(lru) : ~Owned(p, x)
  BY <1>6 DEF PolicyInv
<1>10. lru.capacity \in Nat
  BY <1>5 DEF PolicyInv
<1>11. PolicyInv(q)
  BY <1>3, <1>5, <1>7, <1>9, <1>10, SetGlobal
<1> QED
  BY <1>5, <1>6, <1>7, <1>8, <1>11 DEF q

(* An object leaves the global LRU.                                        *)
LEMMA GlobalRemoveFacts ==
  ASSUME NEW p, PolicyInv(p), NEW id
  PROVE  LET q == GlobalRemove(p, id)
         IN  /\ PolicyInv(q) /\ (p.ok => q.ok)
             /\ Keys(q.cache_) = Keys(p.cache_) \ {id}
             /\ q.cache_.capacity = p.cache_.capacity
             /\ q.per_client_cache_ = p.per_client_cache_
             /\ q.owned_by_client_ = p.owned_by_client_
             /\ q.shared_for_read_ = p.shared_for_read_
<1> DEFINE lru == Remove_(p.cache_, id)
           fewer == Without(p.cache_.items, {id})
           q == GlobalRemove(p, id)
<1>1. p \in PolicyType /\ p.ok \in BOOLEAN /\ p.cache_ \in LruType
  BY PolicyFields DEF PolicyInv
<1>2. p.cache_.items \in Seq(Item) /\ Keys(p.cache_) = IdSet(p.cache_.items)
  BY <1>1, LruFacts
<1>3. /\ fewer \in Seq(Item) /\ Distinct(fewer)
      /\ IdSet(fewer) = IdSet(p.cache_.items) \ {id}
  BY <1>2, WithoutFacts DEF PolicyInv
<1> HIDE DEF fewer
<1>4. lru = [p.cache_ EXCEPT !.items = fewer]
  BY DEF Remove_, fewer
<1>5. lru \in LruType /\ lru.items = fewer /\ lru.capacity = p.cache_.capacity
  BY <1>1, <1>3, <1>4, MakeLru
<1> HIDE DEF lru
<1>6. Keys(lru) = Keys(p.cache_) \ {id}
  BY <1>2, <1>3, <1>5, LruFacts
<1>7. /\ q \in PolicyType /\ q.cache_ = lru
      /\ q.per_client_cache_ = p.per_client_cache_
      /\ q.owned_by_client_ = p.owned_by_client_
      /\ q.shared_for_read_ = p.shared_for_read_
  BY <1>1, <1>5 DEF GlobalRemove, lru, PolicyType
<1>8. p.ok => q.ok
  BY <1>1 DEF GlobalRemove, PolicyType
<1> HIDE DEF q
<1>9. \A x \in Keys(lru) : ~Owned(p, x)
  BY <1>6 DEF PolicyInv
<1>10. lru.capacity \in Nat
  BY <1>5 DEF PolicyInv
<1>11. PolicyInv(q)
  BY <1>3, <1>5, <1>7, <1>9, <1>10, SetGlobal
<1> QED
  BY <1>5, <1>6, <1>7, <1>8, <1>11 DEF q

(* Pinning, or unpinning, an object a client is charged for.               *)
LEMMA SharedFacts ==
  ASSUME NEW p, PolicyInv(p), NEW shared \in SUBSET ObjectIDs,
         \A id \in shared : Owned(p, id)
  PROVE  LET q == [p EXCEPT !.shared_for_read_ = shared]
         IN  /\ PolicyInv(q) /\ (p.ok => q.ok) /\ q.cache_ = p.cache_
             /\ q.per_client_cache_ = p.per_client_cache_
             /\ q.owned_by_client_ = p.owned_by_client_
             /\ q.shared_for_read_ = shared
<1> DEFINE q == [p EXCEPT !.shared_for_read_ = shared]
<1>1. p \in PolicyType
  BY DEF PolicyInv
<1>2. /\ q \in PolicyType /\ q.ok = p.ok /\ q.cache_ = p.cache_
      /\ q.per_client_cache_ = p.per_client_cache_
      /\ q.owned_by_client_ = p.owned_by_client_
      /\ q.shared_for_read_ = shared
  BY <1>1 DEF PolicyType
<1> HIDE DEF q
<1>3. PolicyInv(q)
  BY <1>2 DEF PolicyInv, Owned
<1> QED
  BY <1>2, <1>3 DEF q

(* BeginObjectAccess: the object is no longer evictable.                   *)
LEMMA BeginFacts ==
  ASSUME NEW p, PolicyInv(p), NEW id \in ObjectIDs
  PROVE  LET q == BeginObjectAccess(p, id)
         IN  /\ PolicyInv(q) /\ (p.ok => q.ok)
             /\ Keys(q.cache_) = Keys(p.cache_) \ {id}
             /\ q.cache_.capacity = p.cache_.capacity
             /\ q.per_client_cache_ = p.per_client_cache_
             /\ q.owned_by_client_ = p.owned_by_client_
             /\ q.shared_for_read_ = IF Owned(p, id) THEN p.shared_for_read_ \cup {id}
                                                     ELSE p.shared_for_read_
<1>1. CASE Owned(p, id)
  <2> DEFINE shared == p.shared_for_read_ \cup {id}
  <2>1. shared \in SUBSET ObjectIDs /\ \A x \in shared : Owned(p, x)
    BY <1>1, PolicyFields DEF PolicyInv
  <2>2. BeginObjectAccess(p, id) = [p EXCEPT !.shared_for_read_ = shared]
    BY <1>1 DEF BeginObjectAccess
  <2>3. Keys(p.cache_) \ {id} = Keys(p.cache_)
    BY <1>1 DEF PolicyInv
  <2> HIDE DEF shared
  <2> QED
    BY <1>1, <2>1, <2>2, <2>3, SharedFacts DEF shared
<1>2. CASE ~Owned(p, id)
  BY <1>2, GlobalRemoveFacts DEF BeginObjectAccess
<1> QED
  BY <1>1, <1>2

(* EndObjectAccess: the object is evictable again.                         *)
Ended(p, q, id) ==
  /\ PolicyInv(q)
  /\ p.ok => q.ok
  /\ Keys(q.cache_) = IF Owned(p, id) THEN Keys(p.cache_) ELSE Keys(p.cache_) \cup {id}
  /\ q.cache_.capacity = p.cache_.capacity
  /\ q.per_client_cache_ = p.per_client_cache_
  /\ q.owned_by_client_ = p.owned_by_client_
  /\ q.shared_for_read_ = p.shared_for_read_ \ {id}

LEMMA EndFacts ==
  ASSUME NEW p, PolicyInv(p), NEW id \in ObjectIDs, NEW size \in Nat,
         id \notin Keys(p.cache_)
  PROVE  Ended(p, EndObjectAccess(p, id, size), id)
<1>1. CASE Owned(p, id)
  <2> DEFINE shared == p.shared_for_read_ \ {id}
  <2>1. shared \in SUBSET ObjectIDs /\ \A x \in shared : Owned(p, x)
    BY <1>1, PolicyFields DEF PolicyInv
  <2>2. EndObjectAccess(p, id, size) = [p EXCEPT !.shared_for_read_ = shared]
    BY <1>1 DEF EndObjectAccess
  <2> HIDE DEF shared
  <2> QED
    BY <1>1, <2>1, <2>2, SharedFacts DEF shared, Ended
<1>2. CASE ~Owned(p, id)
  <2>1. id \notin p.shared_for_read_
    BY <1>2 DEF PolicyInv
  <2>2. EndObjectAccess(p, id, size) = GlobalAdd(p, id, size)
    BY <1>2 DEF EndObjectAccess
  <2>3. p.shared_for_read_ \ {id} = p.shared_for_read_
    BY <2>1
  <2> QED
    BY <1>2, <2>2, <2>3, GlobalAddFacts DEF Ended
<1> QED
  BY <1>1, <1>2

(* Choosing objects to evict takes them out of the global LRU, and nothing *)
(* is left there when they hold less than the bytes asked for.             *)
Chosen(p, r, bytes) ==
  LET q == r.policy
  IN
  /\ r.evict \in Seq(ObjectIDs) /\ IsInjective(r.evict)
  /\ ToSet(r.evict) \subseteq Keys(p.cache_)
  /\ PolicyInv(q) /\ (p.ok => q.ok)
  /\ Keys(q.cache_) = Keys(p.cache_) \ ToSet(r.evict)
  /\ q.cache_.capacity = p.cache_.capacity
  /\ q.per_client_cache_ = p.per_client_cache_
  /\ q.owned_by_client_ = p.owned_by_client_
  /\ q.shared_for_read_ = p.shared_for_read_
  /\ r.bytes \in Nat
  /\ q.cache_.items # <<>> => r.bytes >= bytes

LEMMA ChooseEvictFacts ==
  ASSUME NEW p, PolicyInv(p), NEW bytes \in Int
  PROVE  Chosen(p, ChooseObjectsToEvict(p, bytes), bytes)
<1> DEFINE lru == p.cache_
           n == Len(lru.items)
           m == NumToEvict(lru, bytes)
           ids == Ids(LruChoose(lru, bytes))
           rest == SubSeq(lru.items, 1, n - m)
           drop == LruDrop(lru, bytes)
           r == ChooseObjectsToEvict(p, bytes)
           q == r.policy
<1>1. p \in PolicyType /\ lru \in LruType /\ Distinct(lru.items)
  BY PolicyFields DEF PolicyInv
<1>2. lru.items \in Seq(Item) /\ Keys(lru) = IdSet(lru.items)
  BY <1>1, LruFacts
<1>3. /\ ids \in Seq(ObjectIDs) /\ IsInjective(ids)
      /\ ToSet(ids) \subseteq IdSet(lru.items)
      /\ rest \in Seq(Item) /\ Distinct(rest)
      /\ IdSet(rest) = IdSet(lru.items) \ ToSet(ids)
      /\ m = n => rest = <<>>
  BY <1>1, <1>2, ChooseFacts
<1>4. m \in 0 .. n /\ (m < n => LastBytes(lru.items, m) >= bytes)
  BY <1>2, NumToEvictFacts
<1>5. n \in Nat
  BY <1>2, ItemsFacts
<1>6. LastBytes(lru.items, m) \in Nat
  BY <1>2, <1>4, LastBytesFacts
<1>7. drop = [lru EXCEPT !.items = rest]
  BY DEF LruDrop
<1> HIDE DEF rest
<1>8. drop \in LruType /\ drop.items = rest /\ drop.capacity = lru.capacity
  BY <1>1, <1>3, <1>7, MakeLru
<1>9. Keys(drop) = Keys(lru) \ ToSet(ids)
  <2> HIDE DEF drop, ids
  <2> QED
    BY <1>2, <1>3, <1>8, LruFacts
<1>10. /\ r.evict = ids /\ r.bytes = LastBytes(lru.items, m)
       /\ q = [p EXCEPT !.cache_ = drop]
  BY DEF ChooseObjectsToEvict
<1> HIDE DEF drop, ids, m, r
<1>11. /\ q \in PolicyType /\ q.cache_ = drop /\ q.ok = p.ok
       /\ q.per_client_cache_ = p.per_client_cache_
       /\ q.owned_by_client_ = p.owned_by_client_
       /\ q.shared_for_read_ = p.shared_for_read_
  <2>1. \A x \in LruType : LET y == [p EXCEPT !.cache_ = x]
                           IN  /\ y \in PolicyType /\ y.cache_ = x /\ y.ok = p.ok
                               /\ y.per_client_cache_ = p.per_client_cache_
                               /\ y.owned_by_client_ = p.owned_by_client_
                               /\ y.shared_for_read_ = p.shared_for_read_
    BY <1>1 DEF PolicyType
  <2> QED
    BY <1>8, <1>10, <2>1
<1> HIDE DEF q
<1>12. \A x \in Keys(drop) : ~Owned(p, x)
  BY <1>9 DEF PolicyInv
<1>13. drop.capacity \in Nat
  BY <1>8 DEF PolicyInv
<1>14. PolicyInv(q)
  BY <1>3, <1>8, <1>11, <1>12, <1>13, SetGlobal
<1>15. q.cache_.items # <<>> => r.bytes >= bytes
  <2> SUFFICES ASSUME rest # <<>> PROVE LastBytes(lru.items, m) >= bytes
    BY <1>8, <1>10, <1>11
  <2>1. m < n
    BY <1>3, <1>4, <1>5
  <2> QED
    BY <2>1, <1>4
<1> QED
  BY <1>2, <1>3, <1>6, <1>8, <1>9, <1>10, <1>11, <1>14, <1>15 DEF r, q, Chosen

(* RequireSpace fails only when nothing is left in the global LRU.         *)
Required(p, r) ==
  LET q == r.policy
  IN
  /\ r.evict \in Seq(ObjectIDs) /\ IsInjective(r.evict)
  /\ ToSet(r.evict) \subseteq Keys(p.cache_)
  /\ PolicyInv(q) /\ (p.ok => q.ok)
  /\ Keys(q.cache_) = Keys(p.cache_) \ ToSet(r.evict)
  /\ q.cache_.capacity = p.cache_.capacity
  /\ q.per_client_cache_ = p.per_client_cache_
  /\ q.owned_by_client_ = p.owned_by_client_
  /\ q.shared_for_read_ = p.shared_for_read_
  /\ ~r.success => q.cache_.items = <<>>

LEMMA RequireSpaceFacts ==
  ASSUME NEW p, PolicyInv(p), NEW size \in Nat, NEW allocated \in Nat,
         Limit \in Nat, Limit >= 5
  PROVE  Required(p, RequireSpace(p, size, allocated))
<1> DEFINE required == allocated + size - Limit
           bytes == MaxOf(required, Limit \div 5)
           choice == ChooseObjectsToEvict(p, bytes)
           r == RequireSpace(p, size, allocated)
<1>1. required \in Int /\ Limit \div 5 \in Int /\ Limit \div 5 >= 1
  OBVIOUS
<1>2. bytes \in Int /\ bytes >= required /\ bytes >= 1
  BY <1>1 DEF MaxOf
<1>3. /\ r.evict = choice.evict /\ r.policy = choice.policy
      /\ r.success = (choice.bytes >= required /\ choice.bytes > 0)
  BY DEF RequireSpace
<1> HIDE DEF bytes, required, r, choice
<1>4. Chosen(p, choice, bytes)
  BY <1>2, ChooseEvictFacts DEF choice
<1>5. /\ choice.bytes \in Nat
      /\ choice.policy.cache_.items # <<>> => choice.bytes >= bytes
  BY <1>4 DEF Chosen
<1>6. ~r.success => r.policy.cache_.items = <<>>
  <2>1. choice.bytes >= bytes => choice.bytes >= required /\ choice.bytes > 0
    BY <1>1, <1>2, <1>5
  <2>2. choice.bytes >= bytes => r.success
    BY <1>3, <2>1
  <2> QED
    BY <1>3, <1>5, <2>2
<1>7. LET q == choice.policy
      IN  /\ choice.evict \in Seq(ObjectIDs) /\ IsInjective(choice.evict)
          /\ ToSet(choice.evict) \subseteq Keys(p.cache_)
          /\ PolicyInv(q) /\ (p.ok => q.ok)
          /\ Keys(q.cache_) = Keys(p.cache_) \ ToSet(choice.evict)
          /\ q.cache_.capacity = p.cache_.capacity
          /\ q.per_client_cache_ = p.per_client_cache_
          /\ q.owned_by_client_ = p.owned_by_client_
          /\ q.shared_for_read_ = p.shared_for_read_
  BY <1>4 DEF Chosen
<1> QED
  BY <1>3, <1>6, <1>7 DEF r, Required

(* A client has a quota when its queue has a capacity.                     *)
LEMMA QuotaFacts ==
  ASSUME NEW p, PolicyInv(p), NEW c \in Clients
  PROVE  /\ p.per_client_cache_[c] \in LruType
         /\ p.per_client_cache_[c].items \in Seq(Item)
         /\ Keys(p.per_client_cache_[c]) = IdSet(p.per_client_cache_[c].items)
         /\ HasQuota(p, c) <=> p.per_client_cache_[c].capacity \in Nat
         /\ HasQuota(p, c) <=> p.per_client_cache_[c].capacity # -1
         /\ ~HasQuota(p, c) => p.per_client_cache_[c].items = <<>>
         /\ ~HasQuota(p, c) => \A id \in ObjectIDs : p.owned_by_client_[id] # c
<1> DEFINE lru == p.per_client_cache_[c]
<1>1. lru \in LruType
  BY PolicyFields DEF PolicyInv
<1>2. lru.items \in Seq(Item) /\ lru.capacity \in Nat \cup {-1} /\ Keys(lru) = IdSet(lru.items)
  BY <1>1, LruFacts
<1>3. NoQuota.items = <<>> /\ NoQuota.capacity = -1
  BY DEF NoQuota, LRUCache
<1>4. lru.capacity = -1 => lru = NoQuota
  BY DEF PolicyInv
<1>5. HasQuota(p, c) <=> lru # NoQuota
  BY DEF HasQuota
<1>6. Keys(NoQuota) = {}
  BY <1>3 DEF Keys
<1>7. Keys(lru) = {id \in ObjectIDs : p.owned_by_client_[id] = c}
  BY DEF PolicyInv
<1> HIDE DEF lru
<1>8. lru # NoQuota <=> lru.capacity \in Nat
  BY <1>2, <1>3, <1>4
<1>9. lru # NoQuota <=> lru.capacity # -1
  BY <1>2, <1>3, <1>4
<1>10. lru = NoQuota => \A id \in ObjectIDs : p.owned_by_client_[id] # c
  BY <1>6, <1>7
<1> QED
  BY <1>1, <1>2, <1>3, <1>5, <1>8, <1>9, <1>10 DEF lru

(* ObjectCreated and the BeginObjectAccess that follows it: a client with  *)
(* a quota is charged for the object, which is pinned either way.          *)
Created(p, q, id, c, size) ==
  /\ PolicyInv(q) /\ (p.ok => q.ok)
  /\ Keys(q.cache_) = Keys(p.cache_)
  /\ q.cache_.capacity = p.cache_.capacity
  /\ q.owned_by_client_ = IF HasQuota(p, c)
                            THEN [p.owned_by_client_ EXCEPT ![id] = c]
                            ELSE p.owned_by_client_
  /\ q.shared_for_read_ = IF HasQuota(p, c) THEN p.shared_for_read_ \cup {id}
                                            ELSE p.shared_for_read_
  /\ \A d \in Clients :
       /\ q.per_client_cache_[d].capacity = p.per_client_cache_[d].capacity
       /\ d # c \/ ~HasQuota(p, c) =>
            q.per_client_cache_[d] = p.per_client_cache_[d]
       /\ HasQuota(p, c) =>
            Bytes(q.per_client_cache_[c].items) =
              Bytes(p.per_client_cache_[c].items) + size

LEMMA CreatedFacts ==
  ASSUME NEW p, PolicyInv(p), NEW id \in ObjectIDs, NEW c \in Clients, NEW size \in Nat,
         id \notin Keys(p.cache_), ~Owned(p, id)
  PROVE  Created(p, BeginObjectAccess(ObjectCreated(p, id, c, size), id), id, c, size)
<1> DEFINE q == ObjectCreated(p, id, c, size)
           lru == p.per_client_cache_[c]
           more == <<[id |-> id, size |-> size]>> \o lru.items
           new == Add(lru, id, size)
<1>1. /\ p \in PolicyType /\ p.ok \in BOOLEAN
      /\ p.per_client_cache_ \in [Clients -> LruType]
      /\ p.owned_by_client_ \in [ObjectIDs -> Clients \cup {NoClient}]
      /\ p.shared_for_read_ \in SUBSET ObjectIDs
  BY PolicyFields DEF PolicyInv
<1>2. CASE HasQuota(p, c)
  <2>1. /\ lru \in LruType /\ lru.items \in Seq(Item) /\ Keys(lru) = IdSet(lru.items)
        /\ lru.capacity # -1
    BY <1>2, QuotaFacts
  <2>2. Keys(lru) = {x \in ObjectIDs : p.owned_by_client_[x] = c} /\ Distinct(lru.items)
    BY DEF PolicyInv
  <2>3. id \notin Keys(lru)
    BY <2>2, NoClientAssumption DEF Owned
  <2>4. /\ more \in Seq(Item) /\ IdSet(more) = IdSet(lru.items) \cup {id} /\ Distinct(more)
    BY <2>1, <2>2, <2>3, AddFacts
  <2>5. Bytes(more) = Bytes(lru.items) + size
    BY <2>1, BytesAdd
  <2> HIDE DEF more
  <2>6. new = [lru EXCEPT !.items = more]
    BY DEF Add, more
  <2>7. new \in LruType /\ new.items = more /\ new.capacity = lru.capacity
    BY <2>1, <2>4, <2>6, MakeLru
  <2> HIDE DEF new
  <2>8. Keys(new) = Keys(lru) \cup {id}
    BY <2>1, <2>4, <2>7, LruFacts
  <2>9. /\ q \in PolicyType /\ q.cache_ = p.cache_ /\ q.shared_for_read_ = p.shared_for_read_
        /\ q.per_client_cache_ = [p.per_client_cache_ EXCEPT ![c] = new]
        /\ q.owned_by_client_ = [p.owned_by_client_ EXCEPT ![id] = c]
    BY <1>1, <1>2, <2>7 DEF ObjectCreated, new, PolicyType
  <2>10. p.ok => q.ok
    BY <1>1, <1>2, <2>3 DEF ObjectCreated, PolicyType
  <2> HIDE DEF q, lru
  <2>11. \A x \in ObjectIDs : q.owned_by_client_[x] =
                                IF x = id THEN c ELSE p.owned_by_client_[x]
    BY <1>1, <2>9
  <2>12. Keys(new) = {x \in ObjectIDs : q.owned_by_client_[x] = c}
    BY <2>2, <2>8, <2>11
  <2>13. \A x \in ObjectIDs : q.owned_by_client_[x] # p.owned_by_client_[x] =>
            q.owned_by_client_[x] \in {c, NoClient} /\ p.owned_by_client_[x] \in {c, NoClient}
    BY <2>11 DEF Owned
  <2>14. \A x \in q.shared_for_read_ : Owned(q, x)
    BY <1>1, <2>9, <2>11, NoClientAssumption DEF PolicyInv, Owned
  <2>15. \A x \in Keys(q.cache_) : ~Owned(q, x)
    <3>1. Keys(p.cache_) \subseteq ObjectIDs
      BY <1>1, PolicyFields, LruFacts
    <3> QED
      BY <2>9, <2>11, <3>1 DEF PolicyInv, Owned
  <2>16. Distinct(q.cache_.items) /\ q.cache_.capacity \in Nat
    BY <2>9 DEF PolicyInv
  <2>17. PolicyInv(q)
    BY <2>1, <2>4, <2>7, <2>9, <2>12, <2>13, <2>14, <2>15, <2>16, SetClient
  <2>18. Owned(q, id)
    BY <2>11, NoClientAssumption DEF Owned
  <2>19. Keys(p.cache_) \ {id} = Keys(p.cache_)
    OBVIOUS
  <2>20. \A d \in Clients : q.per_client_cache_[d] =
                              IF d = c THEN new ELSE p.per_client_cache_[d]
    BY <1>1, <2>9
  <2>21. LET b == BeginObjectAccess(q, id)
         IN  /\ PolicyInv(b) /\ (q.ok => b.ok)
             /\ Keys(b.cache_) = Keys(q.cache_) \ {id}
             /\ b.cache_.capacity = q.cache_.capacity
             /\ b.per_client_cache_ = q.per_client_cache_
             /\ b.owned_by_client_ = q.owned_by_client_
             /\ b.shared_for_read_ = q.shared_for_read_ \cup {id}
    BY <2>17, <2>18, BeginFacts
  <2>22. lru = p.per_client_cache_[c]
    BY DEF lru
  <2> QED
    BY <1>2, <2>5, <2>7, <2>9, <2>10, <2>19, <2>20, <2>21, <2>22 DEF q, Created
<1>3. CASE ~HasQuota(p, c)
  <2>1. q = GlobalAdd(p, id, size)
    BY <1>3 DEF ObjectCreated
  <2>2. /\ PolicyInv(q) /\ (p.ok => q.ok)
        /\ Keys(q.cache_) = Keys(p.cache_) \cup {id}
        /\ q.cache_.capacity = p.cache_.capacity
        /\ q.per_client_cache_ = p.per_client_cache_
        /\ q.owned_by_client_ = p.owned_by_client_
        /\ q.shared_for_read_ = p.shared_for_read_
    BY <2>1, GlobalAddFacts
  <2> HIDE DEF q
  <2>3. ~Owned(q, id)
    BY <2>2 DEF Owned
  <2>4. LET b == BeginObjectAccess(q, id)
        IN  /\ PolicyInv(b) /\ (q.ok => b.ok)
            /\ Keys(b.cache_) = Keys(q.cache_) \ {id}
            /\ b.cache_.capacity = q.cache_.capacity
            /\ b.per_client_cache_ = q.per_client_cache_
            /\ b.owned_by_client_ = q.owned_by_client_
            /\ b.shared_for_read_ = q.shared_for_read_
    BY <2>2, <2>3, BeginFacts
  <2>5. (Keys(p.cache_) \cup {id}) \ {id} = Keys(p.cache_)
    OBVIOUS
  <2> QED
    BY <1>3, <2>2, <2>4, <2>5 DEF q, Created
<1> QED
  BY <1>2, <1>3

(* SetClientQuota: the client gets an empty queue, and its capacity is     *)
(* taken from the global LRU.                                              *)
QuotaSet(p, q, c, quota) ==
  /\ PolicyInv(q) /\ (p.ok => q.ok)
  /\ Keys(q.cache_) = Keys(p.cache_)
  /\ q.owned_by_client_ = p.owned_by_client_
  /\ q.shared_for_read_ = p.shared_for_read_
  /\ \/ q = p
     \/ /\ ~HasQuota(p, c)
        /\ q.cache_.capacity = p.cache_.capacity - quota
        /\ q.per_client_cache_ =
             [p.per_client_cache_ EXCEPT ![c] = LRUCache(quota)]

LEMMA SetQuotaFacts ==
  ASSUME NEW p, PolicyInv(p), NEW c \in Clients, NEW quota \in Nat, Limit \in Nat
  PROVE  QuotaSet(p, SetClientQuota(p, c, quota), c, quota)
<1> DEFINE q == SetClientQuota(p, c, quota)
           new == LRUCache(quota)
<1>1. CASE ~QuotaAccepted(p, c, quota)
  BY <1>1 DEF SetClientQuota, QuotaSet
<1>2. CASE QuotaAccepted(p, c, quota)
  <2>1. p \in PolicyType /\ p.cache_ \in LruType /\ p.cache_.capacity \in Nat
    BY PolicyFields DEF PolicyInv
  <2>2. ~HasQuota(p, c) /\ p.cache_.capacity - quota \in Nat
    BY <1>2, <2>1 DEF QuotaAccepted
  <2>3. new \in LruType /\ new.items = <<>> /\ new.capacity = quota
    BY DEF LRUCache, LruType
  <2>4. Distinct(new.items) /\ Keys(new) = {}
    BY <2>3 DEF Distinct, Keys
  <2> HIDE DEF new
  <2>5. /\ q \in PolicyType /\ q.ok = p.ok /\ q.shared_for_read_ = p.shared_for_read_
        /\ q.cache_.items = p.cache_.items
        /\ q.cache_.capacity = p.cache_.capacity - quota
        /\ q.per_client_cache_ = [p.per_client_cache_ EXCEPT ![c] = new]
        /\ q.owned_by_client_ = p.owned_by_client_
    BY <1>2, <2>1, <2>2, <2>3 DEF SetClientQuota, PolicyType, LruType, new
  <2> HIDE DEF q
  <2>6. Keys(q.cache_) = Keys(p.cache_)
    BY <2>5 DEF Keys
  <2>7. Keys(new) = {x \in ObjectIDs : q.owned_by_client_[x] = c}
    BY <2>2, <2>4, <2>5, QuotaFacts
  <2>8. Distinct(q.cache_.items) /\ q.cache_.capacity \in Nat
    BY <2>2, <2>5 DEF PolicyInv
  <2>9. \A x : Owned(q, x) <=> Owned(p, x)
    BY <2>5 DEF Owned
  <2>10. /\ \A x \in q.shared_for_read_ : Owned(q, x)
         /\ \A x \in Keys(q.cache_) : ~Owned(q, x)
    BY <2>5, <2>6, <2>9 DEF PolicyInv
  <2>11. new.capacity # -1
    BY <2>3
  <2>12. PolicyInv(q)
    BY <2>3, <2>4, <2>5, <2>7, <2>8, <2>10, <2>11, SetClient
  <2> QED
    BY <2>2, <2>5, <2>6, <2>12 DEF q, new, QuotaSet
<1> QED
  BY <1>1, <1>2

(* Uncharge: objects of client c leave its queue.                          *)
LEMMA UnchargeFacts ==
  ASSUME NEW p, PolicyInv(p), NEW c \in Clients, NEW out,
         \A id \in ToSet(out) : id \in ObjectIDs /\ p.owned_by_client_[id] = c
  PROVE  LET q == Uncharge(p, c, out)
         IN  /\ PolicyInv(q) /\ (p.ok => q.ok) /\ q.cache_ = p.cache_
             /\ q.owned_by_client_ =
                  [id \in ObjectIDs |-> IF id \in ToSet(out) THEN NoClient
                                        ELSE p.owned_by_client_[id]]
             /\ q.shared_for_read_ = p.shared_for_read_ \ ToSet(out)
             /\ \A d \in Clients :
                  /\ q.per_client_cache_[d].capacity = p.per_client_cache_[d].capacity
                  /\ d # c => q.per_client_cache_[d] = p.per_client_cache_[d]
             /\ q.per_client_cache_[c].items =
                  Without(p.per_client_cache_[c].items, ToSet(out))
<1> DEFINE q == Uncharge(p, c, out)
           lru == p.per_client_cache_[c]
           fewer == Without(lru.items, ToSet(out))
           new == [lru EXCEPT !.items = fewer]
           owned == [id \in ObjectIDs |-> IF id \in ToSet(out) THEN NoClient
                                          ELSE p.owned_by_client_[id]]
<1>1. /\ p \in PolicyType
      /\ p.per_client_cache_ \in [Clients -> LruType]
      /\ p.owned_by_client_ \in [ObjectIDs -> Clients \cup {NoClient}]
      /\ p.shared_for_read_ \in SUBSET ObjectIDs
  BY PolicyFields DEF PolicyInv
<1>2. lru \in LruType /\ lru.items \in Seq(Item) /\ Keys(lru) = IdSet(lru.items)
  BY QuotaFacts
<1>3. /\ Keys(lru) = {x \in ObjectIDs : p.owned_by_client_[x] = c} /\ Distinct(lru.items)
      /\ lru.capacity = -1 => lru = NoQuota
  BY DEF PolicyInv
<1>4. fewer \in Seq(Item) /\ IdSet(fewer) = IdSet(lru.items) \ ToSet(out) /\ Distinct(fewer)
  BY <1>2, <1>3, WithoutFacts
<1> HIDE DEF fewer
<1>5. new \in LruType /\ new.items = fewer /\ new.capacity = lru.capacity
  BY <1>2, <1>4, MakeLru
<1>6. Keys(new) = Keys(lru) \ ToSet(out)
  <2> HIDE DEF new
  <2> QED
    BY <1>2, <1>4, <1>5, LruFacts
<1>7. owned \in [ObjectIDs -> Clients \cup {NoClient}]
  BY <1>1
<1>8. /\ q \in PolicyType /\ q.ok = p.ok /\ q.cache_ = p.cache_
      /\ q.shared_for_read_ = p.shared_for_read_ \ ToSet(out)
      /\ q.per_client_cache_ = [p.per_client_cache_ EXCEPT ![c] = new]
      /\ q.owned_by_client_ = owned
  <2> DEFINE per == [p.per_client_cache_ EXCEPT ![c] = new]
             shared == p.shared_for_read_ \ ToSet(out)
  <2>1. q = [p EXCEPT !.per_client_cache_ = per, !.owned_by_client_ = owned,
                      !.shared_for_read_ = shared]
    BY <1>1 DEF Uncharge, fewer, PolicyType
  <2>2. per \in [Clients -> LruType]
    <3> HIDE DEF new
    <3> QED
      BY <1>1, <1>5
  <2>3. shared \in SUBSET ObjectIDs
    BY <1>1
  <2> HIDE DEF q, new, owned, per, shared
  <2>4. /\ q \in PolicyType /\ q.ok = p.ok /\ q.cache_ = p.cache_
        /\ q.shared_for_read_ = shared
        /\ q.per_client_cache_ = per
        /\ q.owned_by_client_ = owned
    BY <1>1, <1>7, <2>1, <2>2, <2>3 DEF PolicyType
  <2> QED
    BY <2>4 DEF per, shared
<1> HIDE DEF q, new
<1>9. \A x \in ObjectIDs : q.owned_by_client_[x] =
                             IF x \in ToSet(out) THEN NoClient ELSE p.owned_by_client_[x]
  BY <1>8
<1>10. Keys(new) = {x \in ObjectIDs : q.owned_by_client_[x] = c}
  BY <1>3, <1>6, <1>9, NoClientAssumption
<1>11. \A x \in ObjectIDs : q.owned_by_client_[x] # p.owned_by_client_[x] =>
          q.owned_by_client_[x] \in {c, NoClient} /\ p.owned_by_client_[x] \in {c, NoClient}
  BY <1>9
<1>12. \A x \in q.shared_for_read_ : Owned(q, x)
  BY <1>1, <1>8, <1>9 DEF PolicyInv, Owned
<1>13. \A x \in Keys(q.cache_) : ~Owned(q, x)
  <2>1. Keys(p.cache_) \subseteq ObjectIDs
    BY <1>1, PolicyFields, LruFacts
  <2> QED
    BY <1>8, <1>9, <2>1 DEF PolicyInv, Owned
<1>14. Distinct(q.cache_.items) /\ q.cache_.capacity \in Nat
  BY <1>8 DEF PolicyInv
<1>15. new.capacity = -1 => new = NoQuota
  <2> SUFFICES ASSUME lru.capacity = -1 PROVE new = NoQuota
    BY <1>5
  <2>1. lru = NoQuota /\ lru.items = <<>>
    BY <1>3 DEF NoQuota, LRUCache
  <2>2. IdSet(fewer) = {}
    <3>1. IdSet(<<>>) = {}
      BY DEF IdSet
    <3> HIDE DEF lru
    <3> QED
      BY <1>4, <2>1, <3>1
  <2>3. fewer = <<>>
    <3>1. fewer # <<>> => 1 \in DOMAIN fewer
      BY <1>4, EmptySeq, LenProperties
    <3> QED
      BY <2>2, <3>1 DEF IdSet
  <2>4. new = [lru EXCEPT !.items = <<>>]
    BY <2>3 DEF new
  <2> QED
    BY <2>1, <2>4 DEF NoQuota, LRUCache
<1>16. PolicyInv(q)
  BY <1>4, <1>5, <1>8, <1>10, <1>11, <1>12, <1>13, <1>14, <1>15, SetClient
<1>17. \A d \in Clients : q.per_client_cache_[d] =
                            IF d = c THEN new ELSE p.per_client_cache_[d]
  BY <1>1, <1>8
<1>18. lru = p.per_client_cache_[c]
  OBVIOUS
<1> HIDE DEF lru
<1> QED
  BY <1>5, <1>8, <1>16, <1>17, <1>18 DEF q, owned, fewer

(* EnforcePerClientQuota: objects of the client leave its queue; those not *)
(* pinned are to be evicted; and the new object then fits.                 *)
Enforced(p, r, c, size) ==
  LET q == r.policy
  IN
  /\ r.evict \in Seq(ObjectIDs) /\ IsInjective(r.evict)
  /\ PolicyInv(q) /\ (p.ok => q.ok) /\ q.cache_ = p.cache_
  /\ \A d \in Clients :
       /\ q.per_client_cache_[d].capacity = p.per_client_cache_[d].capacity
       /\ Bytes(q.per_client_cache_[d].items)
            <= Bytes(p.per_client_cache_[d].items)
  /\ r.ok /\ HasQuota(p, c) => RemainingCapacity(q.per_client_cache_[c]) >= size
  /\ \E out \in SUBSET ObjectIDs :
       /\ \A id \in out : p.owned_by_client_[id] = c
       /\ ToSet(r.evict) = out \ p.shared_for_read_
       /\ q.owned_by_client_ =
            [id \in ObjectIDs |-> IF id \in out THEN NoClient
                                  ELSE p.owned_by_client_[id]]
       /\ q.shared_for_read_ = p.shared_for_read_ \ out

LEMMA EnforceFacts ==
  ASSUME NEW p, PolicyInv(p), NEW c \in Clients, NEW size \in Nat
  PROVE  Enforced(p, EnforcePerClientQuota(p, c, size), c, size)
<1> DEFINE lru == p.per_client_cache_[c]
           items == lru.items
           short == size - RemainingCapacity(lru)
           fits == FitsQuota(p, c, size)
           ids == Ids(LruChoose(lru, short))
           m == NumToEvict(lru, short)
           out == IF fits THEN Ejected(p, c, short) ELSE <<>>
           I == {i \in DOMAIN out : out[i] \notin p.shared_for_read_}
           r == EnforcePerClientQuota(p, c, size)
           q == r.policy
<1>1. /\ lru \in LruType /\ items \in Seq(Item) /\ Keys(lru) = IdSet(items)
      /\ lru.capacity \in Nat \cup {-1}
      /\ HasQuota(p, c) => lru.capacity \in Nat
  BY QuotaFacts, LruFacts
<1>2. /\ Keys(lru) = {x \in ObjectIDs : p.owned_by_client_[x] = c} /\ Distinct(items)
  BY DEF PolicyInv
<1>3. Bytes(items) \in Nat
  BY <1>1, BytesType
<1>4. RemainingCapacity(lru) = lru.capacity - Bytes(items) /\ short \in Int
  BY <1>1, <1>3 DEF RemainingCapacity
<1>5. /\ ids \in Seq(ObjectIDs) /\ IsInjective(ids) /\ ToSet(ids) \subseteq IdSet(items)
      /\ ToSet(ids) = {items[i].id : i \in (Len(items) - m + 1) .. Len(items)}
  <2> HIDE DEF short
  <2> QED
    BY <1>1, <1>2, <1>4, ChooseFacts
<1>6. m \in 0 .. Len(items) /\ (m < Len(items) => LastBytes(items, m) >= short)
  <2> HIDE DEF short
  <2> QED
    BY <1>1, <1>4, NumToEvictFacts
<1>7. \/ /\ fits /\ HasQuota(p, c) /\ short > 0 /\ out = ids
      \/ /\ fits /\ HasQuota(p, c) => ~(short > 0)
         /\ out = <<>>
  BY DEF Ejected
<1>8. /\ r.ok = fits /\ r.evict = Pick(out, I) /\ q = Uncharge(p, c, out)
  BY DEF EnforcePerClientQuota
<1> HIDE DEF ids, m, short, r, fits, q
<1>9. out \in Seq(ObjectIDs) /\ IsInjective(out)
  <2>1. <<>> \in Seq(ObjectIDs) /\ IsInjective(<<>>)
    BY DEF IsInjective
  <2> HIDE DEF out
  <2> QED
    BY <1>5, <1>7, <2>1
<1>10. \A id \in ToSet(out) : id \in ObjectIDs /\ p.owned_by_client_[id] = c
  <2>1. ToSet(<<>>) = {}
    BY DEF ToSet
  <2>2. ToSet(ids) \subseteq Keys(lru)
    BY <1>1, <1>5
  <2> HIDE DEF out, lru
  <2> QED
    BY <1>2, <1>7, <2>1, <2>2
<1> HIDE DEF out
<1>11. /\ PolicyInv(q) /\ (p.ok => q.ok) /\ q.cache_ = p.cache_
       /\ q.owned_by_client_ =
            [id \in ObjectIDs |-> IF id \in ToSet(out) THEN NoClient
                                  ELSE p.owned_by_client_[id]]
       /\ q.shared_for_read_ = p.shared_for_read_ \ ToSet(out)
       /\ \A d \in Clients :
            /\ q.per_client_cache_[d].capacity = p.per_client_cache_[d].capacity
            /\ d # c => q.per_client_cache_[d] = p.per_client_cache_[d]
       /\ q.per_client_cache_[c].items = Without(items, ToSet(out))
  BY <1>8, <1>10, UnchargeFacts
<1>12. I \in SUBSET DOMAIN out
  OBVIOUS
<1>13. /\ r.evict \in Seq(ObjectIDs) /\ IsInjective(r.evict)
       /\ ToSet(r.evict) = ToSet(out) \ p.shared_for_read_
  <2> DEFINE w == Pick(out, I)
  <2>1. /\ w \in Seq(ObjectIDs) /\ IsInjective(w)
        /\ \A k \in DOMAIN w : \E i \in I : w[k] = out[i]
        /\ \A i \in I : \E k \in DOMAIN w : w[k] = out[i]
    BY <1>9, <1>12, PickSeq
  <2> HIDE DEF w
  <2>2. \A x : x \in ToSet(w) <=> x \in ToSet(out) /\ x \notin p.shared_for_read_
    BY <2>1 DEF ToSet
  <2>3. ToSet(w) = ToSet(out) \ p.shared_for_read_
    BY <2>2
  <2> QED
    BY <1>8, <2>1, <2>3 DEF w
<1>14. \A d \in Clients : Bytes(q.per_client_cache_[d].items)
                            <= Bytes(p.per_client_cache_[d].items)
  <2> TAKE d \in Clients
  <2>1. CASE d = c
    <3>1. Bytes(Without(items, ToSet(out))) <= Bytes(items)
      BY <1>1, BytesWithout
    <3> QED
      BY <2>1, <3>1, <1>11
  <2>2. CASE d # c
    <3>1. Bytes(p.per_client_cache_[d].items) \in Nat
      BY QuotaFacts, BytesType
    <3> QED
      BY <2>2, <3>1, <1>11
  <2> QED
    BY <2>1, <2>2
<1>15. ASSUME r.ok, HasQuota(p, c)
       PROVE  RemainingCapacity(q.per_client_cache_[c]) >= size
  <2> DEFINE left == Bytes(Without(items, ToSet(out)))
  <2>1. RemainingCapacity(q.per_client_cache_[c]) = lru.capacity - left
    BY <1>11 DEF RemainingCapacity
  <2>2. left \in Nat /\ left <= Bytes(items)
    BY <1>1, BytesWithout
  <2>3. fits /\ lru.capacity \in Nat /\ size <= lru.capacity
    BY <1>1, <1>8, <1>15 DEF FitsQuota, fits
  <2>4. short = size - (lru.capacity - Bytes(items))
    BY <1>4 DEF short
  <2>5. CASE ~(short > 0)
    <3> HIDE DEF left, lru, items
    <3> QED
      BY <1>3, <2>1, <2>2, <2>3, <2>4, <2>5
  <2>6. CASE short > 0
    <3>1. out = ids
      BY <1>7, <1>15, <2>3, <2>6
    <3>2. left = Bytes(items) - LastBytes(items, m)
      BY <1>1, <1>2, <1>5, <1>6, <3>1, BytesEjected
    <3>3. LastBytes(items, m) \in Nat
      BY <1>1, <1>6, LastBytesFacts
    <3>4. CASE m < Len(items)
      <4>1. LastBytes(items, m) >= short
        BY <1>6, <3>4
      <4> HIDE DEF left, lru, items
      <4> QED
        BY <1>3, <1>4, <2>1, <2>2, <2>3, <2>4, <3>2, <3>3, <4>1
    <3>5. CASE ~(m < Len(items))
      <4>1. m = Len(items) /\ Len(items) \in Nat /\ DOMAIN items = 1 .. Len(items)
        BY <1>1, <1>6, <3>5, ItemsFacts
      <4>2. (Len(items) - m + 1) .. Len(items) = DOMAIN items
        BY <4>1
      <4>3. [i \in (Len(items) - m + 1) .. Len(items) |-> items[i].size]
              = [i \in DOMAIN items |-> items[i].size]
        BY <4>2
      <4>4. LastBytes(items, m) = Bytes(items)
        BY <4>3 DEF LastBytes, Bytes
      <4> HIDE DEF left, lru, items
      <4> QED
        BY <1>3, <2>1, <2>3, <3>2, <4>4
    <3> QED
      BY <3>4, <3>5
  <2> QED
    BY <2>5, <2>6
<1>16. ToSet(out) \in SUBSET ObjectIDs
  BY <1>10
<1>17. \E o \in SUBSET ObjectIDs :
         /\ \A id \in o : p.owned_by_client_[id] = c
         /\ ToSet(r.evict) = o \ p.shared_for_read_
         /\ q.owned_by_client_ = [id \in ObjectIDs |-> IF id \in o THEN NoClient
                                                       ELSE p.owned_by_client_[id]]
         /\ q.shared_for_read_ = p.shared_for_read_ \ o
  <2> WITNESS ToSet(out) \in SUBSET ObjectIDs
  <2> QED
    BY <1>10, <1>11, <1>13
<1> QED
  BY <1>11, <1>13, <1>14, <1>15, <1>17 DEF r, q, Enforced

(* RemoveObject: the object leaves whatever queue it is in.                *)
Removed(p, q, id) ==
  /\ PolicyInv(q) /\ (p.ok => q.ok)
  /\ Keys(q.cache_) = Keys(p.cache_) \ {id}
  /\ q.cache_.capacity = p.cache_.capacity
  /\ q.owned_by_client_ = [p.owned_by_client_ EXCEPT ![id] = NoClient]
  /\ q.shared_for_read_ = p.shared_for_read_ \ {id}
  /\ \A d \in Clients :
       /\ q.per_client_cache_[d].capacity = p.per_client_cache_[d].capacity
       /\ Bytes(q.per_client_cache_[d].items)
            <= Bytes(p.per_client_cache_[d].items)

LEMMA RemoveFacts ==
  ASSUME NEW p, PolicyInv(p), NEW id \in ObjectIDs
  PROVE  Removed(p, RemoveObject(p, id), id)
<1> DEFINE q == RemoveObject(p, id)
           c == p.owned_by_client_[id]
<1>1. /\ p \in PolicyType /\ p.cache_ \in LruType
      /\ p.per_client_cache_ \in [Clients -> LruType]
      /\ p.owned_by_client_ \in [ObjectIDs -> Clients \cup {NoClient}]
  BY PolicyFields DEF PolicyInv
<1>2. CASE Owned(p, id)
  <2> DEFINE out == <<id>>
             u == Uncharge(p, c, out)
  <2>1. c \in Clients
    BY <1>1, <1>2 DEF Owned
  <2>2. ToSet(out) = {id}
    BY DEF ToSet
  <2>3. q = u
    <3> DEFINE lru == p.per_client_cache_[c]
               less == [lru EXCEPT !.items = Without(lru.items, {id})]
               per == [p.per_client_cache_ EXCEPT ![c] = less]
               shared == p.shared_for_read_ \ {id}
    <3>1. [x \in ObjectIDs |-> IF x \in ToSet(out) THEN NoClient
                                ELSE p.owned_by_client_[x]]
            = [p.owned_by_client_ EXCEPT ![id] = NoClient]
      BY <1>1, <2>2
    <3>2. u = [p EXCEPT !.per_client_cache_ = per,
                        !.owned_by_client_ = [p.owned_by_client_ EXCEPT ![id] = NoClient],
                        !.shared_for_read_ = shared]
      BY <1>1, <2>1, <2>2, <3>1 DEF Uncharge, PolicyType
    <3>3. q = [p EXCEPT !.per_client_cache_ = per,
                        !.owned_by_client_ = [p.owned_by_client_ EXCEPT ![id] = NoClient],
                        !.shared_for_read_ = shared]
      BY <1>1, <1>2 DEF RemoveObject, Remove_, PolicyType
    <3> QED
      BY <3>2, <3>3
  <2> HIDE DEF out
  <2>4. \A x \in ToSet(out) : x \in ObjectIDs /\ p.owned_by_client_[x] = c
    BY <2>2
  <2> HIDE DEF c
  <2>5. /\ PolicyInv(u) /\ (p.ok => u.ok) /\ u.cache_ = p.cache_
        /\ u.owned_by_client_ =
             [x \in ObjectIDs |-> IF x \in ToSet(out) THEN NoClient
                                  ELSE p.owned_by_client_[x]]
        /\ u.shared_for_read_ = p.shared_for_read_ \ ToSet(out)
        /\ \A d \in Clients :
             /\ u.per_client_cache_[d].capacity = p.per_client_cache_[d].capacity
             /\ d # c => u.per_client_cache_[d] = p.per_client_cache_[d]
        /\ u.per_client_cache_[c].items =
             Without(p.per_client_cache_[c].items, ToSet(out))
    BY <2>1, <2>4, UnchargeFacts
  <2> HIDE DEF u, q
  <2>6. u.owned_by_client_ = [p.owned_by_client_ EXCEPT ![id] = NoClient]
    BY <1>1, <2>2, <2>5
  <2>7. Keys(p.cache_) \ {id} = Keys(p.cache_)
    BY <1>2 DEF PolicyInv
  <2>8. \A d \in Clients : Bytes(u.per_client_cache_[d].items)
                             <= Bytes(p.per_client_cache_[d].items)
    <3> TAKE d \in Clients
    <3>1. p.per_client_cache_[d].items \in Seq(Item)
      BY QuotaFacts
    <3>2. /\ Bytes(p.per_client_cache_[d].items) \in Nat
          /\ Bytes(Without(p.per_client_cache_[d].items, ToSet(out)))
               <= Bytes(p.per_client_cache_[d].items)
      BY <3>1, BytesType, BytesWithout
    <3> QED
      BY <2>5, <3>2
  <2> QED
    BY <2>2, <2>3, <2>5, <2>6, <2>7, <2>8 DEF q, Removed
<1>3. CASE ~Owned(p, id)
  <2>1. q = GlobalRemove(p, id)
    BY <1>3 DEF RemoveObject
  <2>2. [p.owned_by_client_ EXCEPT ![id] = NoClient] = p.owned_by_client_
    BY <1>1, <1>3 DEF Owned
  <2>3. p.shared_for_read_ \ {id} = p.shared_for_read_
    BY <1>3 DEF PolicyInv
  <2>4. \A d \in Clients : Bytes(p.per_client_cache_[d].items) \in Nat
    BY QuotaFacts, BytesType
  <2>5. /\ PolicyInv(q) /\ (p.ok => q.ok)
        /\ Keys(q.cache_) = Keys(p.cache_) \ {id}
        /\ q.cache_.capacity = p.cache_.capacity
        /\ q.per_client_cache_ = p.per_client_cache_
        /\ q.owned_by_client_ = p.owned_by_client_
        /\ q.shared_for_read_ = p.shared_for_read_
    BY <2>1, GlobalRemoveFacts
  <2> HIDE DEF q
  <2> QED
    BY <2>2, <2>3, <2>4, <2>5 DEF q, Removed
<1> QED
  BY <1>2, <1>3

(* An object that is used again moves to the front of its queue.           *)
LEMMA TouchFacts ==
  ASSUME NEW lru \in LruType, Distinct(lru.items), NEW id \in ObjectIDs
  PROVE  LET t == Touch(lru, id)
         IN  /\ t \in LruType /\ Distinct(t.items) /\ t.capacity = lru.capacity
             /\ Keys(t) = Keys(lru)
             /\ Bytes(t.items) = Bytes(lru.items)
             /\ id \notin Keys(lru) => t = lru
<1>1. lru.items \in Seq(Item) /\ Keys(lru) = IdSet(lru.items)
  BY LruFacts
<1>2. CASE id \notin Keys(lru)
  BY <1>2 DEF Touch
<1>3. CASE id \in Keys(lru)
  <2> DEFINE i == CHOOSE i \in DOMAIN lru.items : lru.items[i].id = id
             size == lru.items[i].size
             fewer == Without(lru.items, {id})
             more == <<[id |-> id, size |-> size]>> \o fewer
             t == Touch(lru, id)
  <2>1. i \in DOMAIN lru.items /\ lru.items[i].id = id
    BY <1>3 DEF Keys
  <2> HIDE DEF i
  <2>2. size \in Nat
    BY <1>1, <2>1, ItemsFacts
  <2>3. fewer \in Seq(Item) /\ IdSet(fewer) = IdSet(lru.items) \ {id} /\ Distinct(fewer)
    BY <1>1, WithoutFacts
  <2>4. Bytes(fewer) = Bytes(lru.items) - size
    BY <1>1, <2>1, BytesRemove
  <2>5. Bytes(lru.items) \in Nat
    BY <1>1, BytesType
  <2> HIDE DEF fewer, size
  <2>6. more \in Seq(Item) /\ IdSet(more) = IdSet(fewer) \cup {id} /\ Distinct(more)
    BY <2>2, <2>3, AddFacts
  <2>7. Bytes(more) = Bytes(fewer) + size
    BY <2>2, <2>3, BytesAdd
  <2>8. t = [lru EXCEPT !.items = more]
    <3>1. Touch(lru, id) = Add(Remove_(lru, id), id, size)
      BY <1>3 DEF Touch, size, i
    <3>2. \A x \in Seq(Item) : LET y == [lru EXCEPT !.items = x]
                               IN  /\ y.items = x
                                   /\ \A z : [y EXCEPT !.items = z] = [lru EXCEPT !.items = z]
      BY DEF LruType
    <3>3. Remove_(lru, id) = [lru EXCEPT !.items = fewer]
      BY DEF Remove_, fewer
    <3> QED
      BY <2>3, <3>1, <3>2, <3>3 DEF Add
  <2> HIDE DEF more
  <2>9. t \in LruType /\ t.items = more /\ t.capacity = lru.capacity
    BY <2>6, <2>8, MakeLru
  <2> HIDE DEF t
  <2>10. Keys(t) = Keys(lru)
    <3>1. Keys(t) = IdSet(more)
      BY <2>9, LruFacts
    <3> QED
      BY <1>1, <1>3, <2>3, <2>6, <3>1
  <2>11. Bytes(more) = Bytes(lru.items)
    BY <2>2, <2>4, <2>5, <2>7
  <2> QED
    BY <1>3, <2>6, <2>9, <2>10, <2>11 DEF t
<1> QED
  BY <1>2, <1>3

(* RefreshObjects changes the order of the queues and nothing else.        *)
LEMMA RefreshFacts ==
  ASSUME NEW p, PolicyInv(p), NEW id \in ObjectIDs
  PROVE  LET q == RefreshObject(p, id)
         IN  /\ PolicyInv(q) /\ (p.ok => q.ok)
             /\ Keys(q.cache_) = Keys(p.cache_)
             /\ q.cache_.capacity = p.cache_.capacity
             /\ q.owned_by_client_ = p.owned_by_client_
             /\ q.shared_for_read_ = p.shared_for_read_
             /\ \A d \in Clients :
                  /\ q.per_client_cache_[d].capacity = p.per_client_cache_[d].capacity
                  /\ Bytes(q.per_client_cache_[d].items)
                       = Bytes(p.per_client_cache_[d].items)
<1> DEFINE q == RefreshObject(p, id)
           lru == Touch(p.cache_, id)
           per == [c \in Clients |-> IF p.owned_by_client_[id] = c
                                       THEN Touch(p.per_client_cache_[c], id)
                                       ELSE p.per_client_cache_[c]]
<1>1. /\ p \in PolicyType /\ p.cache_ \in LruType
      /\ p.per_client_cache_ \in [Clients -> LruType]
  BY PolicyFields DEF PolicyInv
<1>2. /\ lru \in LruType /\ Distinct(lru.items) /\ lru.capacity = p.cache_.capacity
      /\ Keys(lru) = Keys(p.cache_)
  BY <1>1, TouchFacts DEF PolicyInv
<1>3. \A c \in Clients :
        /\ per[c] \in LruType /\ Distinct(per[c].items)
        /\ per[c].capacity = p.per_client_cache_[c].capacity
        /\ Keys(per[c]) = Keys(p.per_client_cache_[c])
        /\ Bytes(per[c].items) = Bytes(p.per_client_cache_[c].items)
        /\ Keys(p.per_client_cache_[c]) = {} => per[c] = p.per_client_cache_[c]
  <2> TAKE c \in Clients
  <2>1. p.per_client_cache_[c] \in LruType /\ Distinct(p.per_client_cache_[c].items)
    BY <1>1 DEF PolicyInv
  <2>2. LET t == Touch(p.per_client_cache_[c], id)
        IN  /\ t \in LruType /\ Distinct(t.items)
            /\ t.capacity = p.per_client_cache_[c].capacity
            /\ Keys(t) = Keys(p.per_client_cache_[c])
            /\ Bytes(t.items) = Bytes(p.per_client_cache_[c].items)
            /\ id \notin Keys(p.per_client_cache_[c]) => t = p.per_client_cache_[c]
    BY <2>1, TouchFacts
  <2> QED
    BY <2>1, <2>2
<1>4. per \in [Clients -> LruType] /\ DOMAIN per = Clients
  BY <1>3
<1>5. q = [p EXCEPT !.cache_ = lru, !.per_client_cache_ = per]
  BY DEF RefreshObject
<1> HIDE DEF lru, per
<1>6. /\ q \in PolicyType /\ q.ok = p.ok /\ q.cache_ = lru /\ q.per_client_cache_ = per
      /\ q.owned_by_client_ = p.owned_by_client_
      /\ q.shared_for_read_ = p.shared_for_read_
  BY <1>1, <1>2, <1>4, <1>5 DEF PolicyType
<1> HIDE DEF q
<1>7. \A c \in Clients : per[c].capacity = -1 => per[c] = NoQuota
  <2> TAKE c \in Clients
  <2> HAVE per[c].capacity = -1
  <2>1. p.per_client_cache_[c] = NoQuota
    BY <1>3 DEF PolicyInv
  <2>2. Keys(NoQuota) = {}
    BY DEF NoQuota, LRUCache, Keys
  <2> QED
    BY <1>3, <2>1, <2>2
<1>8. \A c \in Clients : Keys(per[c]) = {x \in ObjectIDs : q.owned_by_client_[x] = c}
  BY <1>3, <1>6 DEF PolicyInv
<1>9. \A x : Owned(q, x) <=> Owned(p, x)
  BY <1>6 DEF Owned
<1>10. /\ \A x \in q.shared_for_read_ : Owned(q, x)
       /\ \A x \in Keys(q.cache_) : ~Owned(q, x)
       /\ q.cache_.capacity \in Nat
  BY <1>2, <1>6, <1>9 DEF PolicyInv
<1>11. PolicyInv(q)
  BY <1>2, <1>3, <1>6, <1>7, <1>8, <1>10 DEF PolicyInv
<1> QED
  BY <1>2, <1>3, <1>6, <1>11 DEF q

(* Two queues one after the other.                                         *)
LEMMA ConcatFacts ==
  ASSUME NEW s \in Seq(Item), NEW t \in Seq(Item), Distinct(s), Distinct(t),
         IdSet(s) \cap IdSet(t) = {}
  PROVE  /\ s \o t \in Seq(Item) /\ Distinct(s \o t)
         /\ IdSet(s \o t) = IdSet(s) \cup IdSet(t)
<1> DEFINE n == Len(s)
           k == Len(t)
           all == s \o t
<1>1. n \in Nat /\ k \in Nat /\ DOMAIN s = 1 .. n /\ DOMAIN t = 1 .. k
  BY ItemsFacts
<1>2. /\ all \in Seq(Item) /\ Len(all) = n + k
      /\ \A i \in 1 .. n + k : all[i] = IF i <= n THEN s[i] ELSE t[i - n]
  BY ConcatProperties
<1>3. DOMAIN all = 1 .. n + k
  BY <1>2, LenProperties
<1> HIDE DEF all, n, k
<1>4. \A i \in 1 .. n + k : (i <= n => i \in DOMAIN s)
                            /\ (~(i <= n) => i - n \in DOMAIN t)
  BY <1>1
<1>5. \A i \in DOMAIN s : i \in DOMAIN all /\ all[i] = s[i]
  BY <1>1, <1>2, <1>3
<1>6. \A i \in DOMAIN t : i + n \in DOMAIN all /\ all[i + n] = t[i]
  <2> TAKE i \in DOMAIN t
  <2>1. i + n \in 1 .. n + k /\ ~(i + n <= n) /\ (i + n) - n = i
    BY <1>1
  <2>2. \A j \in 1 .. n + k : ~(j <= n) => all[j] = t[j - n]
    BY <1>2
  <2>3. all[i + n] = t[(i + n) - n]
    BY <2>1, <2>2
  <2> QED
    BY <1>3, <2>1, <2>3
<1>7. IdSet(all) = IdSet(s) \cup IdSet(t)
  <2>1. \A x \in IdSet(all) : x \in IdSet(s) \/ x \in IdSet(t)
    BY <1>2, <1>3, <1>4 DEF IdSet
  <2>2. \A x \in IdSet(s) : x \in IdSet(all)
    BY <1>5 DEF IdSet
  <2>3. \A x \in IdSet(t) : x \in IdSet(all)
    <3> TAKE x \in IdSet(t)
    <3>1. PICK i \in DOMAIN t : x = t[i].id
      BY DEF IdSet
    <3>2. i + n \in DOMAIN all /\ all[i + n].id = x
      BY <1>6, <3>1
    <3> QED
      BY <3>2 DEF IdSet
  <2> QED
    BY <2>1, <2>2, <2>3
<1>8. \A i \in DOMAIN s : \A j \in DOMAIN t : s[i].id # t[j].id
  BY DEF IdSet
<1>9. Distinct(all)
  <2> SUFFICES ASSUME NEW i \in 1 .. n + k, NEW j \in 1 .. n + k,
                      all[i].id = all[j].id
               PROVE  i = j
    BY <1>3 DEF Distinct
  <2>1. CASE i <= n /\ j <= n
    <3>1. i \in DOMAIN s /\ j \in DOMAIN s /\ s[i].id = s[j].id
      BY <1>2, <1>4, <2>1
    <3> QED
      BY <3>1 DEF Distinct
  <2>2. CASE ~(i <= n) /\ ~(j <= n)
    <3>1. i - n \in DOMAIN t /\ j - n \in DOMAIN t /\ t[i - n].id = t[j - n].id
      BY <1>2, <1>4, <2>2
    <3>2. i - n = j - n
      BY <3>1 DEF Distinct
    <3> QED
      BY <1>1, <3>2
  <2>3. CASE (i <= n /\ ~(j <= n)) \/ (~(i <= n) /\ j <= n)
    BY <1>2, <1>4, <1>8, <2>3
  <2> QED
    BY <2>1, <2>2, <2>3
<1> QED
  BY <1>2, <1>7, <1>9 DEF all

(* ClientDisconnected: the client's quota goes back to the global LRU, its *)
(* unpinned objects with it, and the pinned ones are charged to no client. *)
Disconnected(p, q, c) ==
  LET mine == {id \in ObjectIDs : p.owned_by_client_[id] = c}
  IN
  /\ PolicyInv(q) /\ (p.ok => q.ok)
  /\ Keys(q.cache_) = Keys(p.cache_) \cup (mine \ p.shared_for_read_)
  /\ q.cache_.capacity =
       p.cache_.capacity
         + (IF HasQuota(p, c) THEN p.per_client_cache_[c].capacity ELSE 0)
  /\ q.owned_by_client_ =
       [id \in ObjectIDs |-> IF id \in mine THEN NoClient
                             ELSE p.owned_by_client_[id]]
  /\ q.shared_for_read_ = p.shared_for_read_ \ mine
  /\ q.per_client_cache_ = [p.per_client_cache_ EXCEPT ![c] = NoQuota]

LEMMA DisconnectedFacts ==
  ASSUME NEW p, PolicyInv(p), NEW c \in Clients, NEW size,
         \A id \in ObjectIDs : p.owned_by_client_[id] = c /\ id \notin p.shared_for_read_
                                 => size[id] \in Nat
  PROVE  Disconnected(p, ClientDisconnected(p, c, size), c)
<1> DEFINE q == ClientDisconnected(p, c, size)
           mine == {id \in ObjectIDs : p.owned_by_client_[id] = c}
           lru == p.per_client_cache_[c]
           own == Without(lru.items, p.shared_for_read_)
           n == Len(own)
           back == Ids(own)
           added == [i \in DOMAIN back |-> [id |-> back[i], size |-> size[back[i]]]]
           rev == Reverse(added)
           all == rev \o p.cache_.items
           owned == [id \in ObjectIDs |-> IF id \in mine THEN NoClient
                                          ELSE p.owned_by_client_[id]]
<1>1. /\ p \in PolicyType /\ p.cache_ \in LruType /\ p.ok \in BOOLEAN
      /\ p.per_client_cache_ \in [Clients -> LruType]
      /\ p.owned_by_client_ \in [ObjectIDs -> Clients \cup {NoClient}]
      /\ p.shared_for_read_ \in SUBSET ObjectIDs
  BY PolicyFields DEF PolicyInv
<1>2. Keys(lru) = mine /\ Distinct(lru.items)
  BY DEF PolicyInv
<1>3. CASE ~HasQuota(p, c)
  <2>1. q = p
    BY <1>3 DEF ClientDisconnected
  <2>2. mine = {} /\ lru = NoQuota
    BY <1>3, QuotaFacts DEF HasQuota
  <2>3. [p.per_client_cache_ EXCEPT ![c] = NoQuota] = p.per_client_cache_
    BY <1>1, <2>2
  <2>4. owned = p.owned_by_client_
    BY <1>1, <2>2
  <2>5. p.cache_.capacity \in Nat
    BY DEF PolicyInv
  <2> HIDE DEF q
  <2> QED
    BY <1>3, <2>1, <2>2, <2>3, <2>4, <2>5 DEF q, Disconnected
<1>4. CASE HasQuota(p, c)
  <2>1. lru.items \in Seq(Item) /\ lru.capacity \in Nat /\ Keys(lru) = IdSet(lru.items)
    BY <1>4, QuotaFacts
  <2>2. /\ own \in Seq(Item) /\ Distinct(own)
        /\ IdSet(own) = mine \ p.shared_for_read_
    BY <1>2, <2>1, WithoutFacts
  <2>3. n \in Nat /\ DOMAIN own = 1 .. n
    BY <2>2, ItemsFacts
  <2> HIDE DEF own
  <2>4. /\ DOMAIN back = 1 .. n /\ \A i \in 1 .. n : back[i] = own[i].id
    BY <2>3 DEF Ids
  <2>5. \A i \in 1 .. n : /\ back[i] \in ObjectIDs /\ size[back[i]] \in Nat
                          /\ back[i] \in mine \ p.shared_for_read_
    <3> TAKE i \in 1 .. n
    <3>1. back[i] \in mine \ p.shared_for_read_
      BY <2>2, <2>3, <2>4 DEF IdSet
    <3> QED
      BY <3>1
  <2>6. IsInjective(back)
    BY <2>2, <2>3, <2>4 DEF IsInjective, Distinct
  <2> HIDE DEF back
  <2>7. /\ added \in Seq(Item) /\ Len(added) = n
        /\ \A i \in 1 .. n : added[i].id = back[i]
    <3>1. added \in [1 .. n -> Item]
      BY <2>4, <2>5 DEF Item
    <3>2. added \in Seq(Item) /\ DOMAIN added = 1 .. n
      BY <2>3, <3>1, SeqDef
    <3> QED
      BY <2>3, <2>4, <3>1, <3>2, LenProperties
  <2> HIDE DEF added
  <2>8. \A i \in 1 .. n : n - i + 1 \in 1 .. n
    BY <2>3
  <2>9. /\ rev = [i \in 1 .. n |-> added[n - i + 1]]
    BY <2>7 DEF Reverse
  <2>10. /\ rev \in Seq(Item) /\ Len(rev) = n
         /\ \A i \in 1 .. n : rev[i] \in Item /\ rev[i].id = back[n - i + 1]
    <3>1. \A i \in 1 .. n : added[i] \in Item
      BY <2>7, ElementOfSeq
    <3>2. rev \in [1 .. n -> Item]
      BY <2>8, <2>9, <3>1
    <3> HIDE DEF rev
    <3>3. rev \in Seq(Item) /\ DOMAIN rev = 1 .. n
      BY <2>3, <3>2, SeqDef
    <3>4. Len(rev) = n
      BY <2>3, <3>3, LenProperties
    <3> QED
      BY <2>7, <2>8, <2>9, <3>2, <3>3, <3>4
  <2> HIDE DEF rev
  <2>11. Distinct(rev) /\ IdSet(rev) = mine \ p.shared_for_read_
    <3>1. DOMAIN rev = 1 .. n
      BY <2>10, LenProperties
    <3>2. Distinct(rev)
      <4> SUFFICES ASSUME NEW i \in 1 .. n, NEW j \in 1 .. n, rev[i].id = rev[j].id
                   PROVE  i = j
        BY <3>1 DEF Distinct
      <4>1. back[n - i + 1] = back[n - j + 1]
        BY <2>10
      <4>2. n - i + 1 = n - j + 1
        BY <2>4, <2>6, <2>8, <4>1 DEF IsInjective
      <4> QED
        BY <2>3, <4>2
    <3>3. \A x \in IdSet(rev) : x \in mine \ p.shared_for_read_
      BY <2>5, <2>8, <2>10, <3>1 DEF IdSet
    <3>4. \A x \in IdSet(own) : x \in IdSet(rev)
      <4> TAKE x \in IdSet(own)
      <4>1. PICK i \in 1 .. n : x = back[i]
        BY <2>3, <2>4 DEF IdSet
      <4>2. n - (n - i + 1) + 1 = i
        BY <2>3
      <4>3. rev[n - i + 1].id = x
        BY <2>8, <2>10, <4>1, <4>2
      <4> QED
        BY <2>8, <3>1, <4>3 DEF IdSet
    <3> QED
      BY <2>2, <3>2, <3>3, <3>4
  <2>12. p.cache_.items \in Seq(Item) /\ Keys(p.cache_) = IdSet(p.cache_.items)
         /\ Distinct(p.cache_.items) /\ p.cache_.capacity \in Nat
    BY <1>1, LruFacts DEF PolicyInv
  <2>13. \A x \in Keys(p.cache_) : x \in ObjectIDs /\ x \notin mine
    BY <1>1, LruFacts, NoClientAssumption DEF PolicyInv, Owned
  <2>14. /\ all \in Seq(Item) /\ Distinct(all)
         /\ IdSet(all) = IdSet(rev) \cup IdSet(p.cache_.items)
    <3>1. IdSet(rev) \cap IdSet(p.cache_.items) = {}
      BY <2>11, <2>12, <2>13
    <3> QED
      BY <2>10, <2>11, <2>12, <3>1, ConcatFacts
  <2> HIDE DEF all
  <2> DEFINE glob == [items |-> all, capacity |-> p.cache_.capacity + lru.capacity]
             per == [p.per_client_cache_ EXCEPT ![c] = NoQuota]
             shared == p.shared_for_read_ \ mine
             ok == p.ok /\ IsInjective(back)
                        /\ \A i \in DOMAIN back :
                             back[i] \notin Keys(p.cache_) /\ size[back[i]] >= 0
  <2>15. /\ glob \in LruType /\ glob.items = all
         /\ glob.capacity = p.cache_.capacity + lru.capacity
    <3> DEFINE cap == p.cache_.capacity + lru.capacity
    <3>1. cap \in Nat
      <4> HIDE DEF lru
      <4> QED
        BY <2>1, <2>12
    <3> HIDE DEF cap
    <3>2. /\ [items |-> all, capacity |-> cap] \in LruType
      BY <2>14, <3>1 DEF LruType, Item
    <3> QED
      BY <3>2 DEF cap
  <2>16. NoQuota \in LruType /\ NoQuota.items = <<>> /\ NoQuota.capacity = -1
    BY DEF NoQuota, LRUCache, LruType
  <2>17. per \in [Clients -> LruType]
    BY <1>1, <2>16
  <2>18. owned \in [ObjectIDs -> Clients \cup {NoClient}] /\ shared \in SUBSET ObjectIDs
    BY <1>1
  <2>19. p.ok => ok
    BY <2>4, <2>5, <2>6, <2>13
  <2>20. ok \in BOOLEAN
    OBVIOUS
  <2>21. /\ (p.ok => q.ok) /\ q.cache_ = glob /\ q.per_client_cache_ = per
         /\ q.owned_by_client_ = owned /\ q.shared_for_read_ = shared
         /\ q \in PolicyType
    <3>1. q = [p EXCEPT !.ok = ok, !.cache_ = glob, !.per_client_cache_ = per,
                        !.owned_by_client_ = owned, !.shared_for_read_ = shared]
      BY <1>2, <1>4 DEF ClientDisconnected, back, added, rev, all, own
    <3> HIDE DEF q, ok, lru, glob, per, owned, shared
    <3>2. /\ q.ok = ok /\ q.cache_ = glob /\ q.per_client_cache_ = per
          /\ q.owned_by_client_ = owned /\ q.shared_for_read_ = shared
          /\ q \in PolicyType
      BY <1>1, <2>15, <2>17, <2>18, <2>20, <3>1 DEF PolicyType
    <3> QED
      BY <2>19, <3>2
  <2>22. Keys(glob) = Keys(p.cache_) \cup (mine \ p.shared_for_read_)
    BY <2>11, <2>12, <2>14, <2>15, LruFacts
  <2>23. \A id \in ObjectIDs : owned[id] = IF id \in mine THEN NoClient
                                          ELSE p.owned_by_client_[id]
    OBVIOUS
  <2> HIDE DEF q, glob, per, owned, ok
  <2>24. PolicyInv(q)
    <3>1. Keys(NoQuota) = {} /\ Distinct(NoQuota.items)
      BY DEF NoQuota, LRUCache, Keys, Distinct
    <3>2. {id \in ObjectIDs : q.owned_by_client_[id] = c} = {}
      BY <2>21, <2>23, NoClientAssumption
    <3>3. \A id \in q.shared_for_read_ : Owned(q, id)
      BY <1>1, <2>21, <2>23 DEF Owned, PolicyInv
    <3>4. \A id \in Keys(q.cache_) : ~Owned(q, id)
      <4> TAKE id \in Keys(q.cache_)
      <4>1. CASE id \in mine
        BY <2>21, <2>23, <4>1 DEF Owned
      <4>2. CASE id \notin mine
        BY <2>13, <2>21, <2>22, <2>23, <4>2 DEF Owned, PolicyInv
      <4> QED
        BY <4>1, <4>2
    <3>5. \A id \in ObjectIDs : q.owned_by_client_[id] # p.owned_by_client_[id] =>
             /\ q.owned_by_client_[id] \in {c, NoClient}
             /\ p.owned_by_client_[id] \in {c, NoClient}
      BY <2>21, <2>23
    <3>6. Distinct(q.cache_.items) /\ q.cache_.capacity \in Nat
      BY <2>1, <2>12, <2>14, <2>15, <2>21
    <3> QED
      BY <2>16, <2>21, <3>1, <3>2, <3>3, <3>4, <3>5, <3>6, SetClient DEF per
  <2> QED
    BY <1>4, <2>15, <2>21, <2>22, <2>24 DEF q, owned, per, shared, Disconnected
<1> QED
  BY <1>3, <1>4
=============================================================================
