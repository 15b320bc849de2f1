----------------------- MODULE PlasmaAllocator_proofs -----------------------
(***************************************************************************)
(* Proofs about PlasmaAllocator, for every pool size below 2^31 bytes,     *)
(* every set of request sizes and any number of blocks.                    *)
(***************************************************************************)
EXTENDS PlasmaAllocator, FiniteSetTheorems, TLAPS

(* The cast of a region's size to int in Free is harmless while the whole  *)
(* pool is smaller than 2^31 bytes.                                        *)
SmallPool == Limit < IntMax

(* What a Free call in progress knows: the region it assembles contains    *)
(* the freed block; once a left neighbour has moved its start, later       *)
(* neighbours are not empty (the scan goes up in size), so no empty one    *)
(* moves the start back.                                                   *)
ScanInv ==
  freeing # Idle =>
    /\ freeing.begin <= freeing.end
    /\ freeing.end <= Limit
    /\ freeing.offset <= freeing.begin
    /\ freeing.end <= freeing.offset + freeing.size
    /\ freeing.last >= -1
    /\ freeing.offset < freeing.begin => freeing.last > 0

(* The inductive invariant.                                                *)
IInv ==
  /\ TypeOK
  /\ NoOverlap
  /\ FreeListSound
  /\ NoLeak
  /\ AllocatedExact
  /\ ScanInv

LEMMA SmallMod ==
  ASSUME NEW m \in Nat \ {0}, NEW x \in Nat, x < m
  PROVE  x % m = x
  OBVIOUS

LEMMA ToIntIdentity ==
  ASSUME SmallPool, NEW n \in Nat, n <= Limit
  PROVE  ToInt(n) = n
<1>1. /\ n + IntMax \in Nat
      /\ 2 * IntMax \in Nat \ {0}
      /\ n + IntMax < 2 * IntMax
  BY IntMaxAssumption, LimitAssumption DEF SmallPool
<1>2. (n + IntMax) % (2 * IntMax) = n + IntMax
  BY <1>1, SmallMod
<1> QED
  BY <1>2, IntMaxAssumption DEF ToInt

------------------------------------------------------------------------------
(* Taking n bytes that are not in S into it adds n to its cardinality.     *)
LEMMA AddBytes ==
  ASSUME NEW S \in SUBSET (0 .. (Limit - 1)), NEW a \in Nat, NEW n \in Nat,
         S \cap (a .. (a + n - 1)) = {}
  PROVE  Cardinality(S \cup (a .. (a + n - 1))) = Cardinality(S) + n
<1>1. IsFiniteSet(S) /\ Cardinality(S) \in Nat
  <2>1. IsFiniteSet(0 .. (Limit - 1))
    BY FS_Interval, LimitAssumption
  <2>2. IsFiniteSet(S)
    BY <2>1, FS_Subset
  <2> QED
    BY <2>2, FS_CardinalityType
<1>2. IsFiniteSet(a .. (a + n - 1)) /\ Cardinality(a .. (a + n - 1)) = n
  BY FS_Interval
<1>3. Cardinality(S \cap (a .. (a + n - 1))) = 0
  BY FS_EmptySet
<1> DEFINE B == a .. (a + n - 1)
<1> HIDE DEF B
<1>4. Cardinality(S \cup B) = Cardinality(S) + Cardinality(B) - Cardinality(S \cap B)
  BY <1>1, <1>2, FS_Union DEF B
<1> QED
  BY <1>1, <1>2, <1>3, <1>4 DEF B

(* The bytes of a set of blocks and of one more block.                     *)
LEMMA BytesOfOneMore ==
  ASSUME NEW bs, NEW b, NEW B \in SUBSET (0 .. (Limit - 1)),
         \A x \in 0 .. (Limit - 1) : Holds(b, x) <=> x \in B
  PROVE  BytesOf(bs \cup {b}) = BytesOf(bs) \cup B
<1>1. \A x : x \in BytesOf(bs \cup {b}) <=>
              x \in 0 .. (Limit - 1) /\ \E c \in bs \cup {b} : Holds(c, x)
  BY DEF BytesOf
<1>2. \A x : x \in BytesOf(bs) <=>
              x \in 0 .. (Limit - 1) /\ \E c \in bs : Holds(c, x)
  BY DEF BytesOf
<1>3. \A x : x \in BytesOf(bs \cup {b}) <=> x \in BytesOf(bs) \/ x \in B
  BY <1>1, <1>2
<1> QED
  BY <1>3

(* The bytes in use are a finite set.                                      *)
LEMMA UsedBytesFinite ==
  /\ UsedBytes \in SUBSET (0 .. (Limit - 1))
  /\ Cardinality(UsedBytes) \in Nat
<1>1. UsedBytes \in SUBSET (0 .. (Limit - 1))
  BY DEF UsedBytes, BytesOf
<1>2. IsFiniteSet(0 .. (Limit - 1))
  BY FS_Interval, LimitAssumption
<1> QED
  BY <1>1, <1>2, FS_Subset, FS_CardinalityType

(* Initially the whole pool is one free region.                            *)
LEMMA InitIInv == Init => IInv
<1> SUFFICES ASSUME Init PROVE IInv
  OBVIOUS
<1> USE LimitAssumption DEF Init
<1>1. TypeOK
  BY DEF TypeOK, Region
<1>2. NoOverlap
  BY DEF NoOverlap
<1>3. Extents = {[off |-> 0, size |-> Limit]} /\ Pending = {}
  BY DEF Extents, Pending
<1>4. FreeListSound
  BY <1>3 DEF FreeListSound
<1>5. NoLeak
  BY <1>3 DEF NoLeak, Holds
<1>6. ScanInv
  BY DEF ScanInv
<1>7. AllocatedExact
  <2>1. UsedBytes = {}
    BY DEF UsedBytes, BytesOf
  <2> QED
    BY <2>1, FS_EmptySet DEF AllocatedExact, Idle
<1> QED
  BY <1>1, <1>2, <1>4, <1>5, <1>6, <1>7 DEF IInv

(* Splitting a region: the block is taken from its start, the remainder is *)
(* what follows, and together they are the region.                         *)
LEMMA SplitRegion ==
  ASSUME NEW r \in Region, NEW bytes \in Nat, bytes <= r.size
  PROVE  /\ Remainder(r, bytes) \subseteq Region
         /\ \A q \in Remainder(r, bytes) :
              q.off = r.off + bytes /\ q.size = r.size - bytes
         /\ r.size > bytes => Remainder(r, bytes) # {}
<1> DEFINE q == [off |-> r.off + bytes, size |-> r.size - bytes]
<1>1. q \in Region
  BY DEF Region
<1>2. CASE r.size > bytes
  <2>1. Remainder(r, bytes) = {q}
    BY <1>2 DEF Remainder
  <2> QED
    BY <1>1, <2>1
<1>3. CASE ~(r.size > bytes)
  <2>1. Remainder(r, bytes) = {}
    BY <1>3 DEF Remainder
  <2> QED
    BY <1>3, <2>1
<1> QED
  BY <1>2, <1>3

(* Memalign preserves the invariant.                                       *)
LEMMA MemalignIInv ==
  ASSUME IInv, NEW o \in Owner, NEW n \in Sizes, Memalign(o, n)
  PROVE  IInv'
<1>0. n \in Nat
  BY SizesAssumption
<1>1. PICK r \in available_regions_ :
        /\ BestFit(r, n)
        /\ available_regions_' = (available_regions_ \ {r}) \cup Remainder(r, n)
        /\ live' = live \cup {[id |-> o, off |-> r.off, size |-> n]}
  BY DEF Memalign
<1> DEFINE new == [id |-> o, off |-> r.off, size |-> n]
<1>2. /\ r \in Region
      /\ n <= r.size
      /\ freeing = Idle /\ freeing' = Idle
      /\ Pending = {} /\ Pending' = {}
      /\ allocated_ \in Nat /\ allocated_' = allocated_ + n
  BY <1>1 DEF IInv, TypeOK, BestFit, Memalign, Pending
<1>3. /\ Remainder(r, n) \subseteq Region
      /\ \A q \in Remainder(r, n) : q.off = r.off + n /\ q.size = r.size - n
      /\ r.size > n => Remainder(r, n) # {}
  BY <1>0, <1>2, SplitRegion
<1>4. TypeOK'
  BY <1>0, <1>1, <1>2, <1>3 DEF IInv, TypeOK, Region
<1>5. /\ r.off + r.size <= Limit
      /\ \A b \in live : Apart(r, b)
      /\ \A q \in available_regions_ : q # r => Apart(r, q)
  BY <1>2 DEF IInv, FreeListSound, Extents
<1>6. NoOverlap'
  <2>1. \A b \in live : b.id # o /\ Apart(new, b) /\ Apart(b, new)
    BY <1>0, <1>2, <1>5, LimitAssumption
    DEF Memalign, Apart, AbstractAllocator!Apart, IInv, TypeOK, Region
  <2>2. new.off + new.size <= Limit
    BY <1>0, <1>2, <1>5, LimitAssumption DEF Region
  <2> QED
    BY <1>1, <2>1, <2>2 DEF IInv, NoOverlap
<1>7. FreeListSound'
  <2>1. \A q \in Remainder(r, n) :
          /\ q.off + q.size <= Limit
          /\ Apart(q, new)
          /\ \A b \in live : Apart(q, b)
          /\ \A p \in available_regions_ : p # r => Apart(q, p) /\ Apart(p, q)
    BY <1>0, <1>2, <1>3, <1>5, LimitAssumption
    DEF Apart, AbstractAllocator!Apart, IInv, TypeOK, Region
  <2>2. \A q \in available_regions_ : q # r => Apart(q, new)
    BY <1>0, <1>2, <1>5, LimitAssumption
    DEF Apart, AbstractAllocator!Apart, IInv, TypeOK, Region
  <2>3. \A q, p \in Remainder(r, n) : q = p
    BY DEF Remainder
  <2> QED
    BY <1>1, <1>2, <2>1, <2>2, <2>3 DEF IInv, FreeListSound, Extents
<1>8. NoLeak'
  <2> SUFFICES ASSUME NEW x \in 0 .. (Limit - 1)
               PROVE  \/ \E q \in available_regions_' : Holds(q, x)
                      \/ \E b \in live' : Holds(b, x)
    BY <1>2 DEF NoLeak, Extents
  <2>1. CASE \E b \in live : Holds(b, x)
    BY <1>1, <2>1
  <2>2. CASE \E q \in available_regions_ : q # r /\ Holds(q, x)
    BY <1>1, <2>2
  <2>3. CASE Holds(r, x)
    <3>1. CASE x < r.off + n
      <4>1. Holds(new, x)
        BY <2>3, <3>1 DEF Holds
      <4> QED
        BY <1>1, <4>1
    <3>2. CASE x >= r.off + n
      <4>1. PICK q \in Remainder(r, n) : TRUE
        BY <1>0, <1>2, <1>3, <2>3, <3>2, LimitAssumption DEF Holds, Region
      <4>2. Holds(q, x)
        BY <1>0, <1>2, <1>3, <2>3, <3>2, <4>1, LimitAssumption DEF Holds, Region
      <4> QED
        BY <1>1, <4>2
    <3> QED
      BY <1>0, <1>2, <3>1, <3>2, LimitAssumption DEF Region
  <2> QED
    BY <1>2, <2>1, <2>2, <2>3 DEF IInv, NoLeak, Extents
<1>9. ScanInv'
  BY <1>2 DEF ScanInv
<1>10. AllocatedExact'
  <2> DEFINE B == r.off .. (r.off + n - 1)
  <2>1. UsedBytes' = UsedBytes \cup B
    <3>1. \A x \in 0 .. (Limit - 1) : Holds(new, x) <=> x \in B
      BY <1>0, <1>2, LimitAssumption DEF Holds, Region
    <3>2. B \in SUBSET (0 .. (Limit - 1))
      BY <1>0, <1>2, <1>5, LimitAssumption DEF Region
    <3>3. UsedBytes' = BytesOf(live \cup {new})
      BY <1>1 DEF UsedBytes, BytesOf
    <3> HIDE DEF B, new
    <3> QED
      BY <3>1, <3>2, <3>3, BytesOfOneMore DEF UsedBytes
  <2>2. UsedBytes \cap B = {}
    BY <1>0, <1>2, <1>5, LimitAssumption
    DEF UsedBytes, BytesOf, Holds, Apart, AbstractAllocator!Apart, IInv, TypeOK, Region
  <2>3. Cardinality(UsedBytes') = Cardinality(UsedBytes) + n
    BY <1>0, <1>2, <2>1, <2>2, AddBytes, UsedBytesFinite DEF Region
  <2> QED
    BY <1>0, <1>2, <2>3, UsedBytesFinite DEF IInv, AllocatedExact, Idle
<1> QED
  BY <1>4, <1>6, <1>7, <1>8, <1>9, <1>10 DEF IInv

(* FreeBegin preserves the invariant: the freed block becomes the region   *)
(* the scan starts from.                                                   *)
LEMMA FreeBeginIInv ==
  ASSUME IInv, NEW b \in live, FreeBegin(b)
  PROVE  IInv'
<1> DEFINE p == [off |-> b.off, size |-> b.size]
<1>1. /\ b.off \in Nat /\ b.size \in Nat
      /\ b.off + b.size <= Limit
      /\ freeing = Idle
      /\ freeing' = [begin |-> b.off, end |-> b.off + b.size,
                     offset |-> b.off, size |-> b.size, last |-> -1]
      /\ live' = live \ {b}
      /\ UNCHANGED <<available_regions_, allocated_>>
  BY DEF IInv, TypeOK, NoOverlap, FreeBegin
<1>2. freeing' # Idle
  BY <1>1 DEF Idle
<1>3. Pending = {} /\ Pending' = {p}
  BY <1>1, <1>2 DEF Pending
<1>4. TypeOK'
  BY <1>1 DEF IInv, TypeOK
<1>5. NoOverlap'
  BY <1>1 DEF IInv, NoOverlap
<1>6. FreeListSound'
  <2>1. \A a \in live' : Apart(p, a)
    BY <1>1 DEF IInv, NoOverlap, TypeOK, Apart, AbstractAllocator!Apart
  <2>2. \A r \in available_regions_ : Apart(r, p)
    BY <1>1 DEF IInv, FreeListSound, Extents, Apart, AbstractAllocator!Apart
  <2> QED
    BY <1>1, <1>3, <2>1, <2>2 DEF IInv, FreeListSound, Extents
<1>7. NoLeak'
  <2>1. \A x : Holds(b, x) => Holds(p, x)
    BY DEF Holds
  <2> QED
    BY <1>1, <1>3, <2>1 DEF IInv, NoLeak, Extents
<1>8. ScanInv'
  BY <1>1, LimitAssumption DEF ScanInv
<1>9. AllocatedExact'
  <2> DEFINE B == b.off .. (b.off + b.size - 1)
  <2>0. /\ UsedBytes' = {x \in 0 .. (Limit - 1) : \E a \in live' : Holds(a, x)}
        /\ UsedBytes' = BytesOf(live')
    BY DEF UsedBytes, BytesOf
  <2>1. UsedBytes = UsedBytes' \cup B
    <3>1. \A x \in 0 .. (Limit - 1) : Holds(b, x) <=> x \in B
      BY <1>1, LimitAssumption DEF Holds
    <3>2. B \in SUBSET (0 .. (Limit - 1))
      BY <1>1, LimitAssumption
    <3>3. live = live' \cup {b}
      BY <1>1
    <3>4. UsedBytes = BytesOf(live' \cup {b})
      BY <3>3 DEF UsedBytes
    <3> DEFINE L == live'
    <3>5. BytesOf(L \cup {b}) = BytesOf(L) \cup B
      <4> HIDE DEF B, L
      <4> QED
        BY <3>1, <3>2, BytesOfOneMore
    <3> QED
      BY <2>0, <3>4, <3>5
  <2>2. UsedBytes' \cap B = {}
    BY <1>1, <2>0, LimitAssumption
    DEF Holds, Apart, AbstractAllocator!Apart, IInv, NoOverlap, TypeOK
  <2>3. UsedBytes' \in SUBSET (0 .. (Limit - 1)) /\ Cardinality(UsedBytes') \in Nat
    <3>1. UsedBytes' \in SUBSET (0 .. (Limit - 1))
      BY <2>0
    <3>2. IsFiniteSet(0 .. (Limit - 1))
      BY FS_Interval, LimitAssumption
    <3> QED
      BY <3>1, <3>2, FS_Subset, FS_CardinalityType
  <2>4. Cardinality(UsedBytes) = Cardinality(UsedBytes') + b.size
    BY <1>1, <2>1, <2>2, <2>3, AddBytes
  <2> QED
    BY <1>1, <2>3, <2>4 DEF IInv, AllocatedExact, Idle, TypeOK
<1> QED
  BY <1>4, <1>5, <1>6, <1>7, <1>8, <1>9 DEF IInv

(* m is the region that a region p and its neighbour r make up.            *)
Joins(m, p, r) ==
  \/ /\ m.off = p.off
     /\ m.size = p.size + r.size
     /\ r.size = 0 \/ r.off = p.off + p.size
  \/ /\ m.off = r.off
     /\ m.size = p.size + r.size
     /\ r.off + r.size = p.off

(* A joined region ends where its parts do, holds the bytes of both and is *)
(* apart from whatever both are apart from.                                *)
LEMMA JoinedRegion ==
  ASSUME NEW m \in Region, NEW p \in Region, NEW r \in Region, Joins(m, p, r)
  PROVE  /\ m.off + m.size = p.off + p.size \/ m.off + m.size = r.off + r.size
         /\ \A x \in Int : Holds(p, x) \/ Holds(r, x) => Holds(m, x)
         /\ \A e : e.off \in Nat /\ e.size \in Nat /\ Apart(e, p) /\ Apart(r, e)
                    => Apart(e, m) /\ Apart(m, e)
<1>1. /\ m.off \in Nat /\ m.size \in Nat
      /\ p.off \in Nat /\ p.size \in Nat
      /\ r.off \in Nat /\ r.size \in Nat
  BY DEF Region
<1>2. m.off + m.size = p.off + p.size \/ m.off + m.size = r.off + r.size
  BY <1>1 DEF Joins
<1>3. ASSUME NEW x \in Int, Holds(p, x) \/ Holds(r, x)
      PROVE  Holds(m, x)
  BY <1>1, <1>3 DEF Joins, Holds
<1>4. ASSUME NEW e, e.off \in Nat, e.size \in Nat, Apart(e, p), Apart(r, e)
      PROVE  Apart(e, m) /\ Apart(m, e)
  BY <1>1, <1>4 DEF Joins, Apart, AbstractAllocator!Apart
<1> QED
  BY <1>2, <1>3, <1>4

(* FreeMerge preserves the invariant: the neighbour and the region being   *)
(* assembled are contiguous, so their union is the new region.             *)
LEMMA FreeMergeIInv ==
  ASSUME SmallPool, IInv, NEW r \in available_regions_, FreeMerge(r)
  PROVE  IInv'
<1> DEFINE p == [off |-> freeing.offset, size |-> freeing.size]
           m == [off |-> freeing'.offset, size |-> freeing'.size]
<1>1. /\ freeing # Idle
      /\ freeing \in [begin : Nat, end : Nat, offset : Nat, size : Nat, last : Int]
      /\ r.off \in Nat /\ r.size \in Nat
      /\ r.off + r.size <= Limit
      /\ Adjacent(r) /\ Reached(r)
      /\ available_regions_' = available_regions_ \ {r}
      /\ live' = live /\ allocated_' = allocated_
  BY DEF IInv, TypeOK, Region, FreeListSound, Extents, FreeMerge
<1> DEFINE k == IF LeftOf(r) THEN r.off ELSE freeing.offset
<1>2. /\ freeing' = [freeing EXCEPT !.offset = k, !.size = @ + r.size,
                                   !.last = r.size]
      /\ k \in Nat
  BY <1>1 DEF FreeMerge
<1>3. /\ freeing'.begin = freeing.begin /\ freeing'.end = freeing.end
      /\ freeing'.offset = k
      /\ freeing'.size = freeing.size + r.size
      /\ freeing'.last = r.size
      /\ freeing' \in [begin : Nat, end : Nat, offset : Nat, size : Nat, last : Int]
  <2> HIDE DEF k, p, m
  <2>1. freeing' \in [begin : Nat, end : Nat, offset : Nat, size : Nat, last : Int]
    <3> DEFINE T == [begin : Nat, end : Nat, offset : Nat, size : Nat, last : Int]
               s == freeing.size + r.size
    <3>1. s \in Nat /\ r.size \in Int
      BY <1>1
    <3> HIDE DEF s
    <3>2. \A f \in T, i, j \in Nat, l \in Int :
             [f EXCEPT !.offset = i, !.size = j, !.last = l] \in T
      OBVIOUS
    <3> HIDE DEF T
    <3>3. freeing' = [freeing EXCEPT !.offset = k, !.size = s, !.last = r.size]
      BY <1>2 DEF s
    <3>4. freeing \in T
      BY <1>1 DEF T
    <3>5. [freeing EXCEPT !.offset = k, !.size = s, !.last = r.size] \in T
      BY <1>2, <3>1, <3>2, <3>4
    <3> QED
      BY <3>3, <3>5 DEF T
  <2>2. freeing'.begin = freeing.begin /\ freeing'.end = freeing.end
    BY <1>1, <1>2
  <2>3. freeing'.offset = k
    BY <1>1, <1>2
  <2>4. freeing'.size = freeing.size + r.size /\ freeing'.last = r.size
    BY <1>1, <1>2
  <2> QED
    BY <2>1, <2>2, <2>3, <2>4
<1>4. freeing' # Idle
  BY <1>3 DEF Idle
<1>5. Pending = {p} /\ Pending' = {m}
  BY <1>1, <1>4 DEF Pending
<1>6. /\ freeing.begin <= freeing.end
      /\ freeing.end <= Limit
      /\ freeing.offset <= freeing.begin
      /\ freeing.end <= freeing.offset + freeing.size
      /\ freeing.offset < freeing.begin => freeing.last > 0
      /\ p.off + p.size <= Limit
      /\ Apart(r, p)
  BY <1>1, <1>5 DEF IInv, ScanInv, FreeListSound, Extents
<1>7. RightOf(r) => r.off = freeing.end
  BY DEF RightOf
<1>8. LeftOf(r) => r.off + r.size = freeing.begin
  BY <1>1, ToIntIdentity, LimitAssumption DEF LeftOf
<1>9. LeftOf(r) /\ r.size = 0 => freeing.offset = freeing.begin
  BY <1>1, <1>6 DEF Reached
<1>10. Joins(m, p, r)
  <2>1. CASE LeftOf(r)
    <3>1. p.off = freeing.begin
      BY <1>1, <1>6, <1>8, <1>9, <2>1 DEF Apart, AbstractAllocator!Apart
    <3> QED
      BY <1>1, <1>3, <1>8, <2>1, <3>1 DEF Joins
  <2>2. CASE ~LeftOf(r)
    <3>1. RightOf(r)
      BY <1>1, <2>2 DEF Adjacent
    <3>2. r.size = 0 \/ p.off + p.size = freeing.end
      BY <1>1, <1>6, <1>7, <3>1 DEF Apart, AbstractAllocator!Apart
    <3> QED
      BY <1>1, <1>3, <1>7, <2>2, <3>1, <3>2 DEF Joins
  <2> QED
    BY <2>1, <2>2
<1>11. TypeOK'
  BY <1>1, <1>3 DEF IInv, TypeOK
<1>12. NoOverlap'
  BY <1>1 DEF IInv, NoOverlap
<1>13. p \in Region /\ m \in Region /\ r \in Region
  BY <1>1, <1>3 DEF Region, IInv, TypeOK
<1>14. FreeListSound'
  <2>1. m.off + m.size <= Limit
    BY <1>1, <1>6, <1>10, <1>13, JoinedRegion
  <2>2. ASSUME NEW e, e.off \in Nat, e.size \in Nat, Apart(e, p), Apart(r, e)
        PROVE  Apart(e, m) /\ Apart(m, e)
    BY <1>10, <1>13, <2>2, JoinedRegion
  <2>3. \A b \in live : Apart(m, b)
    <3> TAKE b \in live
    <3>1. b.off \in Nat /\ b.size \in Nat /\ Apart(p, b) /\ Apart(r, b)
      BY <1>5 DEF IInv, TypeOK, FreeListSound, Extents
    <3>2. Apart(b, p)
      BY <1>13, <3>1 DEF Apart, AbstractAllocator!Apart, Region
    <3> QED
      BY <2>2, <3>1, <3>2
  <2>4. \A q \in available_regions_ : q # r => Apart(q, m)
    <3> SUFFICES ASSUME NEW q \in available_regions_, q # r
                 PROVE  Apart(q, m)
      OBVIOUS
    <3>1. q.off \in Nat /\ q.size \in Nat /\ Apart(q, p) /\ Apart(r, q)
      BY <1>5 DEF IInv, TypeOK, Region, FreeListSound
    <3> QED
      BY <2>2, <3>1
  <2> QED
    BY <1>1, <1>5, <2>1, <2>3, <2>4 DEF IInv, FreeListSound, Extents
<1>15. NoLeak'
  <2>1. \A x \in Int : Holds(p, x) \/ Holds(r, x) => Holds(m, x)
    BY <1>10, <1>13, JoinedRegion
  <2>2. ASSUME NEW x \in 0 .. (Limit - 1)
        PROVE  \/ \E q \in available_regions_' \cup {m} : Holds(q, x)
               \/ \E b \in live' : Holds(b, x)
    BY <1>1, <1>5, <2>1, LimitAssumption DEF IInv, NoLeak, Extents
  <2> QED
    BY <1>5, <2>2 DEF NoLeak, Extents
<1>16. ScanInv'
  <2>1. /\ freeing'.offset <= freeing.begin
        /\ freeing.end <= freeing'.offset + freeing'.size
    BY <1>1, <1>3, <1>6, <1>8, <1>10, <1>13 DEF Joins
  <2>2. freeing'.offset < freeing.begin => r.size > 0
    BY <1>1, <1>3, <1>6, <1>8 DEF Reached
  <2> QED
    BY <1>1, <1>3, <1>6, <2>1, <2>2 DEF ScanInv
<1>17. AllocatedExact'
  <2>1. UsedBytes' = UsedBytes
    BY <1>1 DEF UsedBytes, BytesOf
  <2> QED
    BY <1>1, <1>3, <2>1 DEF IInv, AllocatedExact
<1> QED
  BY <1>11, <1>12, <1>14, <1>15, <1>16, <1>17 DEF IInv

(* FreeEnd preserves the invariant: the assembled region joins the free    *)
(* list, and the counter drops to the bytes in use.                        *)
LEMMA FreeEndIInv ==
  ASSUME IInv, FreeEnd
  PROVE  IInv'
<1> DEFINE p == [off |-> freeing.offset, size |-> freeing.size]
<1>1. /\ freeing # Idle /\ freeing' = Idle
      /\ freeing \in [begin : Nat, end : Nat, offset : Nat, size : Nat, last : Int]
      /\ available_regions_' = available_regions_ \cup {p}
      /\ allocated_' = allocated_ - (freeing.end - freeing.begin)
      /\ live' = live
  BY DEF IInv, TypeOK, FreeEnd
<1>2. /\ Pending = {p} /\ Pending' = {}
      /\ Extents' = Extents
      /\ p \in Region
  BY <1>1 DEF Pending, Extents, Region
<1>3. AllocatedExact' /\ allocated_' \in Nat
  <2>1. UsedBytes' = UsedBytes
    BY <1>1 DEF UsedBytes, BytesOf
  <2> QED
    BY <1>1, <2>1, UsedBytesFinite DEF IInv, AllocatedExact, Idle
<1>4. TypeOK'
  BY <1>1, <1>2, <1>3 DEF IInv, TypeOK
<1>5. NoOverlap'
  BY <1>1 DEF IInv, NoOverlap
<1>6. FreeListSound'
  <2>1. \A r \in available_regions_ : Apart(r, p) /\ Apart(p, r)
    BY <1>2 DEF IInv, FreeListSound, Apart, AbstractAllocator!Apart
  <2> QED
    BY <1>1, <1>2, <2>1 DEF IInv, FreeListSound
<1>7. NoLeak'
  BY <1>1, <1>2 DEF IInv, NoLeak
<1>8. ScanInv'
  BY <1>1 DEF ScanInv
<1> QED
  BY <1>3, <1>4, <1>5, <1>6, <1>7, <1>8 DEF IInv

LEMMA StutterIInv ==
  ASSUME IInv, UNCHANGED vars
  PROVE  IInv'
<1>1. Extents' = Extents /\ Pending' = Pending /\ UsedBytes' = UsedBytes
  BY DEF vars, Extents, Pending, UsedBytes, BytesOf
<1> QED
  BY <1>1 DEF vars, IInv, TypeOK, NoOverlap, FreeListSound, NoLeak,
              AllocatedExact, ScanInv

LEMMA NextIInv ==
  ASSUME SmallPool, IInv, [Next]_vars
  PROVE  IInv'
<1>1. CASE \E o \in Owner, n \in Sizes : Memalign(o, n)
  BY <1>1, MemalignIInv
<1>2. CASE \E n \in Sizes : MemalignFails(n)
  BY <1>2, StutterIInv DEF MemalignFails
<1>3. CASE \E b \in live : FreeBegin(b)
  BY <1>3, FreeBeginIInv
<1>4. CASE \E r \in available_regions_ : FreeMerge(r)
  BY <1>4, FreeMergeIInv
<1>5. CASE FreeEnd
  BY <1>5, FreeEndIInv
<1>6. CASE UNCHANGED vars
  BY <1>6, StutterIInv
<1> QED
  BY <1>1, <1>2, <1>3, <1>4, <1>5, <1>6 DEF Next

(* Every reachable state of the allocator satisfies the invariant, for     *)
(* every pool below 2^31 bytes.                                            *)
THEOREM AllocatorInvariant == ASSUME SmallPool PROVE Spec => []IInv
<1>1. Init => IInv
  BY InitIInv
<1>2. IInv /\ [Next]_vars => IInv'
  BY NextIInv
<1> QED
  BY <1>1, <1>2, PTL DEF Spec

(* The values have their types; allocated_ never becomes negative.         *)
THEOREM AllocatorTypeOK == ASSUME SmallPool PROVE Spec => []TypeOK
<1>1. IInv => TypeOK
  BY DEF IInv
<1> QED
  BY <1>1, AllocatorInvariant, PTL

(* Two blocks in use never share a byte, and none leaves the pool.         *)
THEOREM AllocatorNoOverlap == ASSUME SmallPool PROVE Spec => []NoOverlap
<1>1. IInv => NoOverlap
  BY DEF IInv
<1> QED
  BY <1>1, AllocatorInvariant, PTL

(* The free list holds only bytes that are not in use.                     *)
THEOREM AllocatorFreeListSound == ASSUME SmallPool PROVE Spec => []FreeListSound
<1>1. IInv => FreeListSound
  BY DEF IInv
<1> QED
  BY <1>1, AllocatorInvariant, PTL

(* Every byte is free or in use, whatever the invalid iterator skips.      *)
THEOREM AllocatorNoLeak == ASSUME SmallPool PROVE Spec => []NoLeak
<1>1. IInv => NoLeak
  BY DEF IInv
<1> QED
  BY <1>1, AllocatorInvariant, PTL

(* allocated_ is the number of bytes in use.                               *)
THEOREM AllocatorAccounting == ASSUME SmallPool PROVE Spec => []AllocatedExact
<1>1. IInv => AllocatedExact
  BY DEF IInv
<1> QED
  BY <1>1, AllocatorInvariant, PTL

(* A successful Memalign is a Memalign of the abstract allocator: best fit *)
(* picks a block that no block in use shares a byte with.                  *)
LEMMA MemalignRefines ==
  ASSUME IInv, IInv', NEW o \in Owner, NEW n \in Sizes, Memalign(o, n)
  PROVE  AbstractAllocator!Next
<1>1. PICK r \in available_regions_ :
        /\ r.size >= n
        /\ live' = live \cup {[id |-> o, off |-> r.off, size |-> n]}
  BY DEF Memalign, BestFit
<1> DEFINE bk == [id |-> o, off |-> r.off, size |-> n]
<1>2. r.off \in Nat /\ r.size \in Nat /\ n \in Nat /\ r.off + r.size <= Limit
  BY SizesAssumption DEF IInv, TypeOK, Region, FreeListSound, Extents
<1>3. bk \in AbstractAllocator!Block
  <2>1. r.off \in 0 .. Limit /\ n \in 0 .. Limit
    BY <1>1, <1>2, LimitAssumption
  <2> QED
    BY <2>1 DEF AbstractAllocator!Block
<1>4. \A a \in live : a.id # bk.id
  BY DEF Memalign
<1>5. \A a \in live : AbstractAllocator!Apart(a, bk)
  BY <1>1, <1>4 DEF IInv, NoOverlap, Apart
<1>6. AbstractAllocator!Fits(bk)
  BY <1>1 DEF IInv, NoOverlap, AbstractAllocator!Fits
<1>7. AbstractAllocator!Memalign(bk)
  BY <1>1, <1>4, <1>5, <1>6 DEF AbstractAllocator!Memalign
<1> QED
  BY <1>3, <1>7 DEF AbstractAllocator!Next

(* The first step of Free is the abstract Free; the scan is invisible.     *)
LEMMA FreeBeginRefines ==
  ASSUME IInv, NEW b \in live, FreeBegin(b)
  PROVE  AbstractAllocator!Next
<1>1. /\ b \in [id : Owner, off : Nat, size : Nat]
      /\ b.off + b.size <= Limit
  BY DEF IInv, TypeOK, NoOverlap
<1>2. b.off \in 0 .. Limit /\ b.size \in 0 .. Limit
  BY <1>1, LimitAssumption
<1>3. b \in AbstractAllocator!Block
  BY <1>1, <1>2 DEF AbstractAllocator!Block
<1>4. AbstractAllocator!Free(b)
  BY DEF FreeBegin, AbstractAllocator!Free
<1> QED
  BY <1>3, <1>4 DEF AbstractAllocator!Next

(* The best-fit allocator, with its incremental scan and its invalid       *)
(* iterator, implements the abstract allocator the store relies on, for    *)
(* every pool below 2^31 bytes.                                            *)
THEOREM AllocatorRefinement == ASSUME SmallPool PROVE Spec => Implements
<1>1. Init => AbstractAllocator!Init
  BY DEF Init, AbstractAllocator!Init
<1>2. ASSUME IInv, IInv', [Next]_vars
      PROVE  [AbstractAllocator!Next]_live
  <2>1. CASE \E o \in Owner, n \in Sizes : Memalign(o, n)
    BY <1>2, <2>1, MemalignRefines
  <2>2. CASE \E n \in Sizes : MemalignFails(n)
    BY <2>2 DEF MemalignFails, vars
  <2>3. CASE \E b \in live : FreeBegin(b)
    BY <1>2, <2>3, FreeBeginRefines
  <2>4. CASE \E r \in available_regions_ : FreeMerge(r)
    BY <2>4 DEF FreeMerge
  <2>5. CASE FreeEnd
    BY <2>5 DEF FreeEnd
  <2>6. CASE UNCHANGED vars
    BY <2>6 DEF vars
  <2> QED
    BY <1>2, <2>1, <2>2, <2>3, <2>4, <2>5, <2>6 DEF Next
<1> QED
  BY <1>1, <1>2, AllocatorInvariant, PTL
  DEF Spec, Implements, AbstractAllocator!Spec
=============================================================================
