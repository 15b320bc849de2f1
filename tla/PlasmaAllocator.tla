--------------------------- MODULE PlasmaAllocator ---------------------------
(***************************************************************************)
(* plasma_allocator.cc: best-fit allocation from one memory pool.  The     *)
(* multimap available_regions_ (size -> offset) is a set of extents; live  *)
(* records the blocks the callers hold.  Free scans the free regions and   *)
(* merges the neighbours of the freed block into it; it is modelled one    *)
(* merge at a time, because the scan erases the element its iterator       *)
(* points to and then advances that iterator.                              *)
(***************************************************************************)
EXTENDS Integers, FiniteSets

CONSTANTS
  Owner,     \* names for the callers' blocks (object ids in the store)
  Limit,     \* footprint_limit_: bytes of the memory pool
  Sizes,     \* the request sizes callers use
  IntMax     \* a C int holds -IntMax .. IntMax - 1: 2^31 in the build

ASSUME LimitAssumption == Limit \in Nat \ {0}
ASSUME SizesAssumption == Sizes \subseteq Nat
ASSUME IntMaxAssumption == IntMax \in Nat \ {0}

VARIABLES
  available_regions_,  \* the free regions: a set of [off, size]
  allocated_,          \* bytes handed out, as the allocator counts them
  live,                \* the blocks callers hold: a set of [id, off, size]
  freeing              \* the Free call in progress, or Idle

vars == <<available_regions_, allocated_, live, freeing>>

Region == [off : Nat, size : Nat]

(* begin, end, offset and size are Free's locals; last is the size of the  *)
(* region the scan erased last (its iterator is invalid from then on), or  *)
(* -1 while it has erased none.                                            *)
Idle == [begin |-> -1, end |-> -1, offset |-> -1, size |-> -1, last |-> -1]

AbstractAllocator == INSTANCE AllocatorSpec

Apart(a, b) == AbstractAllocator!Apart(a, b)

(* static_cast<int>(size_t): two's complement wrap-around.                 *)
ToInt(n) == ((n + IntMax) % (2 * IntMax)) - IntMax

------------------------------------------------------------------------------
Init ==
  /\ available_regions_ = {[off |-> 0, size |-> Limit]}
  /\ allocated_ = 0
  /\ live = {}
  /\ freeing = Idle

(* Mutant of BestFit: one byte short is taken as a fit.                    *)
BestFitOffByOne(r, bytes) ==
  /\ r \in available_regions_
  /\ r.size + 1 >= bytes
  /\ \A q \in available_regions_ : q.size + 1 >= bytes => r.size <= q.size

(* lower_bound(bytes): a region of the least sufficient size.  Regions of  *)
(* equal size are kept in insertion order, which the set leaves open.      *)
BestFit(r, bytes) ==
  /\ r \in available_regions_
  /\ r.size >= bytes
  /\ \A q \in available_regions_ : q.size >= bytes => r.size <= q.size

(* Mutant of Remainder: it starts where the region did.                    *)
RemainderNotShifted(r, bytes) ==
  IF r.size > bytes THEN {[off |-> r.off, size |-> r.size - bytes]} ELSE {}

(* Mutant of Remainder: what is left of a split region is dropped.         *)
RemainderDropped(r, bytes) == {}

Remainder(r, bytes) ==
  IF r.size > bytes
    THEN {[off |-> r.off + bytes, size |-> r.size - bytes]}
    ELSE {}

(* Memalign with a region that fits.  The alignment argument is not used.  *)
Memalign(o, bytes) ==
  /\ freeing = Idle
  /\ \A b \in live : b.id # o
  /\ allocated_ + bytes <= Limit
  /\ \E r \in available_regions_ :
       /\ BestFit(r, bytes)
       /\ available_regions_' =
            (available_regions_ \ {r}) \cup Remainder(r, bytes)
       /\ live' = live \cup {[id |-> o, off |-> r.off, size |-> bytes]}
  /\ allocated_' = allocated_ + bytes
  /\ UNCHANGED freeing

(* Memalign returns nullptr: over the limit, or no region is large enough. *)
MemalignFails(bytes) ==
  /\ freeing = Idle
  /\ \/ allocated_ + bytes > Limit
     \/ \A r \in available_regions_ : r.size < bytes
  /\ UNCHANGED vars

FreeBegin(b) ==
  /\ freeing = Idle
  /\ b \in live
  /\ live' = live \ {b}
  /\ freeing' = [begin |-> b.off, end |-> b.off + b.size,
                 offset |-> b.off, size |-> b.size, last |-> -1]
  /\ UNCHANGED <<available_regions_, allocated_>>

RightOf(r) == r.off = freeing.end
LeftOf(r) == ~RightOf(r) /\ r.off + ToInt(r.size) = freeing.begin
Adjacent(r) == RightOf(r) \/ LeftOf(r)

(* The map is ordered by size.  Until it erases one, the scan meets every  *)
(* region, small ones first.  Advancing the iterator of an erased element  *)
(* is undefined: the scan may then pass over any of the regions that       *)
(* follow, or (FreeEnd) all of them.                                       *)
Reached(r) ==
  IF freeing.last = -1
    THEN \A q \in available_regions_ : Adjacent(q) => r.size <= q.size
    ELSE r.size >= freeing.last

(* Mutant of FreeMerge: a left neighbour does not move the start.          *)
MergeKeepsOffset(r) ==
  /\ freeing # Idle
  /\ Adjacent(r)
  /\ Reached(r)
  /\ freeing' = [freeing EXCEPT !.size = @ + r.size, !.last = r.size]
  /\ available_regions_' = available_regions_ \ {r}
  /\ UNCHANGED <<allocated_, live>>

(* One matching element of the scan.                                       *)
FreeMerge(r) ==
  /\ freeing # Idle
  /\ r \in available_regions_
  /\ Adjacent(r)
  /\ Reached(r)
  /\ freeing' = [freeing EXCEPT !.offset = IF LeftOf(r) THEN r.off ELSE @,
                                !.size = @ + r.size,
                                !.last = r.size]
  /\ available_regions_' = available_regions_ \ {r}
  /\ UNCHANGED <<allocated_, live>>

(* Mutant of FreeEnd: the counter is not adjusted.                         *)
FreeEndKeepsCount ==
  /\ freeing # Idle
  /\ freeing.last # -1 \/ ~ \E r \in available_regions_ : Adjacent(r)
  /\ available_regions_' =
       available_regions_ \cup {[off |-> freeing.offset, size |-> freeing.size]}
  /\ freeing' = Idle
  /\ UNCHANGED <<allocated_, live>>

(* Mutant of FreeEnd: the counter goes down by the merged size.            *)
FreeEndCountsMerged ==
  /\ freeing # Idle
  /\ freeing.last # -1 \/ ~ \E r \in available_regions_ : Adjacent(r)
  /\ available_regions_' =
       available_regions_ \cup {[off |-> freeing.offset, size |-> freeing.size]}
  /\ allocated_' = allocated_ - freeing.size
  /\ freeing' = Idle
  /\ UNCHANGED live

(* The scan ends: no region matched, or advancing an erased iterator took  *)
(* it to the end of the map.                                               *)
FreeEnd ==
  /\ freeing # Idle
  /\ freeing.last # -1 \/ ~ \E r \in available_regions_ : Adjacent(r)
  /\ available_regions_' =
       available_regions_ \cup {[off |-> freeing.offset, size |-> freeing.size]}
  /\ allocated_' = allocated_ - (freeing.end - freeing.begin)
  /\ freeing' = Idle
  /\ UNCHANGED live

Next ==
  \/ \E o \in Owner, n \in Sizes : Memalign(o, n)
  \/ \E n \in Sizes : MemalignFails(n)
  \/ \E b \in live : FreeBegin(b)
  \/ \E r \in available_regions_ : FreeMerge(r)
  \/ FreeEnd

Spec == Init /\ [][Next]_vars

------------------------------------------------------------------------------
TypeOK ==
  /\ available_regions_ \subseteq Region
  /\ allocated_ \in Nat
  /\ live \subseteq [id : Owner, off : Nat, size : Nat]
  /\ \/ freeing = Idle
     \/ freeing \in [begin : Nat, end : Nat, offset : Nat, size : Nat,
                     last : Int]

(* The region a Free call in progress is putting together.                 *)
Pending ==
  IF freeing = Idle
    THEN {}
    ELSE {[off |-> freeing.offset, size |-> freeing.size]}

Extents == available_regions_ \cup Pending

(* No byte of the pool is held by two callers, and every block lies inside *)
(* the pool: what two clients write to their objects never collides.       *)
NoOverlap ==
  /\ \A a, b \in live : a # b => a.id # b.id /\ Apart(a, b)
  /\ \A b \in live : b.off + b.size <= Limit

(* The free list is sound: a free region lies in the pool and shares no    *)
(* byte with a block in use, with another free region or with the region   *)
(* Free is assembling - or a later Memalign hands out memory in use.       *)
FreeListSound ==
  /\ \A r \in Extents : r.off + r.size <= Limit
  /\ \A r \in Extents, b \in live : Apart(r, b)
  /\ \A r, q \in available_regions_ : r # q => Apart(r, q)
  /\ \A r \in available_regions_, p \in Pending : Apart(r, p)

(* Nothing leaks: however blocks are split, freed and merged - or left     *)
(* unmerged by the invalid iterator - every byte is free or in use.        *)
Holds(e, x) == e.off <= x /\ x < e.off + e.size

NoLeak ==
  \A x \in 0 .. (Limit - 1) :
    \/ \E r \in Extents : Holds(r, x)
    \/ \E b \in live : Holds(b, x)

(* The footprint check of Memalign and RequireSpace's arithmetic rest on   *)
(* allocated_: it counts exactly the bytes in use, and those of the block  *)
(* a Free call in progress has not subtracted yet.                         *)
BytesOf(bs) == {x \in 0 .. (Limit - 1) : \E b \in bs : Holds(b, x)}

UsedBytes == BytesOf(live)

AllocatedExact ==
  allocated_ = Cardinality(UsedBytes) + (freeing.end - freeing.begin)

(* The best-fit free list implements the abstract allocator.               *)
Implements == AbstractAllocator!Spec
=============================================================================
