---------------------------- MODULE AllocatorSpec ----------------------------
(***************************************************************************)
(* What the store expects of its allocator: Memalign hands out a block of  *)
(* the pool that no live block shares a byte with, or reports that there   *)
(* is no room; Free takes a block back.  Which free block is chosen, and   *)
(* when fragmentation makes a request fail, is left open.                  *)
(***************************************************************************)
EXTENDS Integers

CONSTANTS
  Owner,   \* names for the callers' blocks (object ids in the store)
  Limit    \* footprint_limit_: bytes of the memory pool

VARIABLE live   \* the blocks handed out and not yet freed

(* The half-open byte interval [off, off + size) is empty when size = 0.   *)
Block == [id : Owner, off : 0 .. Limit, size : 0 .. Limit]

(* Two extents share no byte.                                              *)
Apart(a, b) ==
  \/ a.size = 0
  \/ b.size = 0
  \/ a.off + a.size <= b.off
  \/ b.off + b.size <= a.off

Fits(b) == b.off + b.size <= Limit

Init == live = {}

Memalign(b) ==
  /\ \A a \in live : a.id # b.id /\ Apart(a, b)
  /\ Fits(b)
  /\ live' = live \cup {b}

Free(b) ==
  /\ b \in live
  /\ live' = live \ {b}

Next == \E b \in Block : Memalign(b) \/ Free(b)

Spec == Init /\ [][Next]_live
=============================================================================
