-------------------------- MODULE QuotaAwarePolicy ---------------------------
(***************************************************************************)
(* eviction_policy.cc and quota_aware_policy.cc: which objects may be      *)
(* evicted, and in which order.  The policy is a value, and each of its    *)
(* methods an operator that returns the next value; the store keeps the    *)
(* value and calls the methods.  A failed ARROW_CHECK, or a read of the    *)
(* size of an object that is not in the object table, clears ok.           *)
(***************************************************************************)
EXTENDS Integers, Sequences, FiniteSets, SequencesExt

CONSTANTS
  ObjectIDs,
  Clients,
  Limit,       \* the footprint limit: the capacity of the global LRU
  NoClient     \* no client: an object that no client's quota is charged for

ASSUME NoClientAssumption == NoClient \notin Clients
ASSUME FiniteAssumption == IsFiniteSet(ObjectIDs) /\ IsFiniteSet(Clients)

(* Subsequences and sums, defined without recursion: the elements of s at  *)
(* the positions I, in their order, and the sum of the values of f.        *)
Pick(s, I) ==
  [k \in 1 .. Cardinality(I) |->
     s[CHOOSE i \in I : Cardinality({j \in I : j <= i}) = k]]

Total(f) == Cardinality(UNION {{x} \X (1 .. f[x]) : x \in DOMAIN f})

(* An LRUCache: its items, the most recently used first, and its capacity. *)
(* used_capacity_ is always the sum of the items' sizes.                   *)
LRUCache(capacity) == [items |-> <<>>, capacity |-> capacity]

NoQuota == LRUCache(-1)

LruType ==
  [items : Seq([id : ObjectIDs, size : Nat]), capacity : Nat \cup {-1}]

PolicyType ==
  [ok : BOOLEAN, cache_ : LruType, per_client_cache_ : [Clients -> LruType],
   owned_by_client_ : [ObjectIDs -> Clients \cup {NoClient}],
   shared_for_read_ : SUBSET ObjectIDs]

InitialPolicy ==
  [ok |-> TRUE,
   cache_ |-> LRUCache(Limit),
   per_client_cache_ |-> [c \in Clients |-> NoQuota],
   owned_by_client_ |-> [id \in ObjectIDs |-> NoClient],
   shared_for_read_ |-> {}]

------------------------------------------------------------------------------
Keys(lru) == {lru.items[i].id : i \in DOMAIN lru.items}

Bytes(items) == Total([i \in DOMAIN items |-> items[i].size])

(* The bytes of the k least recently used items.                           *)
LastBytes(items, k) ==
  Total([i \in (Len(items) - k + 1) .. Len(items) |-> items[i].size])

RemainingCapacity(lru) == lru.capacity - Bytes(lru.items)

Add(lru, id, size) ==
  [lru EXCEPT !.items = <<[id |-> id, size |-> size]>> \o @]

Without(items, ids) ==
  Pick(items, {i \in DOMAIN items : items[i].id \notin ids})

Remove_(lru, id) == [lru EXCEPT !.items = Without(@, {id})]

(* The items the loop of LRUCache::ChooseObjectsToEvict takes, from the    *)
(* least recently used end: another one for as long as those before it     *)
(* hold less than the bytes asked for.                                     *)
NumToEvict(lru, bytes) ==
  Cardinality({k \in 0 .. (Len(lru.items) - 1) :
                 LastBytes(lru.items, k) < bytes})

LruChoose(lru, bytes) ==
  LET n == Len(lru.items)
  IN  Reverse(SubSeq(lru.items, n - NumToEvict(lru, bytes) + 1, n))

Ids(items) == [i \in DOMAIN items |-> items[i].id]

LruDrop(lru, bytes) ==
  [lru EXCEPT !.items = SubSeq(@, 1, Len(@) - NumToEvict(lru, bytes))]

------------------------------------------------------------------------------
(* EvictionPolicy: the global LRU.                                         *)
GlobalAdd(p, id, size) ==
  [p EXCEPT !.cache_ = Add(@, id, size),
            !.ok = @ /\ id \notin Keys(p.cache_) /\ size >= 0]

GlobalRemove(p, id) == [p EXCEPT !.cache_ = Remove_(@, id)]

(* ChooseObjectsToEvict: the ids to evict, the bytes they hold and the     *)
(* policy without them.                                                    *)
ChooseObjectsToEvict(p, bytes) ==
  LET chosen == LruChoose(p.cache_, bytes)
  IN  [evict |-> Ids(chosen),
       bytes |-> LastBytes(p.cache_.items, NumToEvict(p.cache_, bytes)),
       policy |-> [p EXCEPT !.cache_ = LruDrop(@, bytes)]]

MaxOf(a, b) == IF a > b THEN a ELSE b

(* Mutant of RequireSpace: no extra room, so fragmentation stops it.       *)
RequireJustEnough(p, size, allocated) ==
  LET required == allocated + size - Limit
      choice == ChooseObjectsToEvict(p, required)
  IN  [evict |-> choice.evict,
       success |-> choice.bytes >= required /\ choice.bytes > 0,
       policy |-> choice.policy]

(* Mutant of RequireSpace: it reports success when it evicts nothing.      *)
RequireAlwaysRetries(p, size, allocated) ==
  LET required == allocated + size - Limit
      choice == ChooseObjectsToEvict(p, MaxOf(required, Limit \div 5))
  IN  [evict |-> choice.evict,
       success |-> choice.bytes >= required,
       policy |-> choice.policy]

(* RequireSpace: evict what is missing, and at least a fifth of the pool.  *)
RequireSpace(p, size, allocated) ==
  LET required == allocated + size - Limit
      choice == ChooseObjectsToEvict(p, MaxOf(required, Limit \div 5))
  IN  [evict |-> choice.evict,
       success |-> choice.bytes >= required /\ choice.bytes > 0,
       policy |-> choice.policy]

------------------------------------------------------------------------------
(* QuotaAwarePolicy.                                                       *)
HasQuota(p, c) == p.per_client_cache_[c] # NoQuota

Owned(p, id) == p.owned_by_client_[id] # NoClient

ObjectCreated(p, id, c, size) ==
  IF HasQuota(p, c)
    THEN [p EXCEPT !.per_client_cache_[c] = Add(@, id, size),
                   !.owned_by_client_[id] = c,
                   !.ok = @ /\ id \notin Keys(p.per_client_cache_[c])]
    ELSE GlobalAdd(p, id, size)

(* kGlobalLruReserveFraction = 0.3 of the pool is never given away.        *)
QuotaAccepted(p, c, quota) ==
  /\ ~HasQuota(p, c)
  /\ 10 * (p.cache_.capacity - quota) >= 3 * Limit

(* Mutant of SetClientQuota: the global LRU keeps its capacity.            *)
QuotaNotReserved(p, c, quota) ==
  IF QuotaAccepted(p, c, quota)
    THEN [p EXCEPT !.per_client_cache_[c] = LRUCache(quota)]
    ELSE p

SetClientQuota(p, c, quota) ==
  IF QuotaAccepted(p, c, quota)
    THEN [p EXCEPT !.cache_.capacity = @ - quota,
                   !.per_client_cache_[c] = LRUCache(quota)]
    ELSE p

(* The objects of the client's queue that have to leave it.                *)
Ejected(p, c, short) ==
  IF HasQuota(p, c) /\ short > 0
    THEN Ids(LruChoose(p.per_client_cache_[c], short)) ELSE <<>>

Uncharge(p, c, out) ==
  [p EXCEPT !.per_client_cache_[c].items = Without(@, ToSet(out)),
            !.owned_by_client_ =
              [id \in ObjectIDs |-> IF id \in ToSet(out) THEN NoClient ELSE @[id]],
            !.shared_for_read_ = @ \ ToSet(out)]

FitsQuota(p, c, size) ==
  HasQuota(p, c) => size <= p.per_client_cache_[c].capacity

(* Mutant of EnforcePerClientQuota: the new object's size is not counted.  *)
EnforceIgnoresSize(p, c, size) ==
  LET out == Ejected(p, c, 0 - RemainingCapacity(p.per_client_cache_[c]))
  IN  [ok |-> FitsQuota(p, c, size), evict |-> out, policy |-> Uncharge(p, c, out)]

(* Mutant of EnforcePerClientQuota: pinned objects are evicted too.        *)
EnforceEvictsPinned(p, c, size) ==
  LET short == size - RemainingCapacity(p.per_client_cache_[c])
      fits == FitsQuota(p, c, size)
      out == IF fits THEN Ejected(p, c, short) ELSE <<>>
  IN  [ok |-> fits, evict |-> out, policy |-> Uncharge(p, c, out)]

(* EnforcePerClientQuota: ok says whether the object fits in the quota;    *)
(* the client's least recently used objects leave its queue until it does. *)
(* A pinned one is not evicted: it is no longer charged to the client, and *)
(* the next EndObjectAccess puts it into the global LRU.                   *)
EnforcePerClientQuota(p, c, size) ==
  LET short == size - RemainingCapacity(p.per_client_cache_[c])
      fits == FitsQuota(p, c, size)
      out == IF fits THEN Ejected(p, c, short) ELSE <<>>
  IN  [ok |-> fits,
       evict |-> Pick(out, {i \in DOMAIN out : out[i] \notin p.shared_for_read_}),
       policy |-> Uncharge(p, c, out)]

(* Mutant of BeginObjectAccess: a quota client's object is not pinned.     *)
BeginIgnoresOwner(p, id) == GlobalRemove(p, id)

BeginObjectAccess(p, id) ==
  IF Owned(p, id)
    THEN [p EXCEPT !.shared_for_read_ = @ \cup {id}]
    ELSE GlobalRemove(p, id)

EndObjectAccess(p, id, size) ==
  IF Owned(p, id)
    THEN [p EXCEPT !.shared_for_read_ = @ \ {id}]
    ELSE GlobalAdd(p, id, size)

RemoveObject(p, id) ==
  IF Owned(p, id)
    THEN [p EXCEPT !.per_client_cache_[p.owned_by_client_[id]] = Remove_(@, id),
                   !.owned_by_client_[id] = NoClient,
                   !.shared_for_read_ = @ \ {id}]
    ELSE GlobalRemove(p, id)

Touch(lru, id) ==
  IF id \in Keys(lru)
    THEN LET i == CHOOSE i \in DOMAIN lru.items : lru.items[i].id = id
         IN  Add(Remove_(lru, id), id, lru.items[i].size)
    ELSE lru

(* RefreshObjects, for one of its ids.                                     *)
RefreshObject(p, id) ==
  [p EXCEPT !.cache_ = Touch(@, id),
            !.per_client_cache_ =
              [c \in Clients |-> IF p.owned_by_client_[id] = c
                                   THEN Touch(@[c], id) ELSE @[c]]]

(* ClientDisconnected: the quota goes back to the global LRU, and so do    *)
(* the client's unpinned objects, oldest last in the client's queue, hence *)
(* first in the global one.                                                *)
ClientDisconnected(p, c, size) ==
  LET lru == p.per_client_cache_[c]
      back == Ids(Without(lru.items, p.shared_for_read_))
      added == [i \in DOMAIN back |-> [id |-> back[i], size |-> size[back[i]]]]
  IN  IF ~HasQuota(p, c)
        THEN p
        ELSE [p EXCEPT
               !.ok = @ /\ IsInjective(back)
                        /\ \A i \in DOMAIN back :
                             back[i] \notin Keys(p.cache_) /\ size[back[i]] >= 0,
               !.cache_ = [items |-> Reverse(added) \o @.items,
                           capacity |-> @.capacity + lru.capacity],
               !.per_client_cache_[c] = NoQuota,
               !.owned_by_client_ =
                 [id \in ObjectIDs |-> IF id \in Keys(lru) THEN NoClient
                                                           ELSE @[id]],
               !.shared_for_read_ = @ \ Keys(lru)]
=============================================================================
