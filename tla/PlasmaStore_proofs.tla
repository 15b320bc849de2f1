------------------------- MODULE PlasmaStore_proofs --------------------------
(***************************************************************************)
(* What the store's bookkeeping guarantees, for any number of objects and  *)
(* clients: reference counts, eviction, deferred deletion and the bytes in *)
(* use agree with the object table, and the store implements               *)
(* ObjectStoreSpec.                                                        *)
(***************************************************************************)
EXTENDS PlasmaStore, QuotaAwarePolicy_proofs

(* Clients release only what they got from this store: the store checks it *)
(* and the client library does not.                                        *)
LocalReleases == "ReleaseRemote" \notin Requests

(* Abort, a failed batch and a deferred deletion remove objects without    *)
(* telling the policy, so a quota would stay charged for them: where there *)
(* are quotas, objects are created one by one and not aborted or deleted.  *)
QuotasStayExact ==
  \/ Quotas = {}
  \/ /\ Requests \cap {"Abort", "Delete"} = {}
     /\ \A ids \in CreateLists : Len(ids) = 1

------------------------------------------------------------------------------
(* The invariant: the object table, its users and the policy.              *)

Entry == [state : {"ABSENT", "CREATED", "SEALED"}, size : Nat, ref_count : Nat]

CoreType ==
  /\ objects \in [ObjectIDs -> Entry]
  /\ object_ids \in [Clients -> SUBSET ObjectIDs]
  /\ deletion_cache_ \in SUBSET ObjectIDs
  /\ evict_queue \in Seq(ObjectIDs)
  /\ allocated_ \in Nat

Unused(id) == Sealed(id) /\ objects[id].ref_count = 0

ObjectInv(id) ==
  /\ objects[id].state = "ABSENT" => objects[id] = NoEntry
  /\ objects[id].ref_count = Cardinality(Holders(id))
  /\ objects[id].state = "CREATED" => objects[id].ref_count = 1
  /\ Evictable(id) <=> Unused(id)
  /\ id \in ToSet(evict_queue) => id \notin Keys(policy.cache_) /\ ~Owned(policy, id)
  /\ Owned(policy, id) => Present(id)
  /\ Owned(policy, id) /\ objects[id].state = "CREATED" =>
       id \in object_ids[policy.owned_by_client_[id]]
  /\ id \in deletion_cache_ => ~Unused(id)

Core ==
  /\ CoreType
  /\ PolicyInv(policy)
  /\ policy.ok
  /\ \A id \in ObjectIDs : ObjectInv(id)
  /\ IsInjective(evict_queue)
  /\ Quotas = {} => \A c \in Clients : ~HasQuota(policy, c)
  /\ deletion_cache_ # {} => "Delete" \in Requests
  /\ AllocatedExact

------------------------------------------------------------------------------
(* Facts about sequences without repetition.                               *)

LEMMA ToSetFacts ==
  ASSUME NEW S, NEW s \in Seq(S)
  PROVE  /\ ToSet(s) \subseteq S
         /\ \A i \in 1 .. Len(s) : s[i] \in ToSet(s) /\ s[i] \in S
         /\ \A x \in ToSet(s) : \E i \in 1 .. Len(s) : s[i] = x
         /\ Len(s) \in Nat /\ DOMAIN s = 1 .. Len(s)
<1>1. Len(s) \in Nat /\ DOMAIN s = 1 .. Len(s)
  BY LenProperties
<1>2. \A i \in 1 .. Len(s) : s[i] \in S
  BY ElementOfSeq
<1> QED
  BY <1>1, <1>2 DEF ToSet

LEMMA EmptyFacts == ToSet(<<>>) = {} /\ IsInjective(<<>>) /\ \A S : <<>> \in Seq(S)
  BY DEF ToSet, IsInjective

(* The head and the tail of a list that is not empty.                      *)
LEMMA TailFacts ==
  ASSUME NEW S, NEW s \in Seq(S), s # <<>>
  PROVE  /\ Head(s) \in S /\ Head(s) \in ToSet(s) /\ Head(s) = s[1]
         /\ Tail(s) \in Seq(S) /\ Len(Tail(s)) = Len(s) - 1 /\ Len(s) \in Nat \ {0}
         /\ \A i \in 1 .. Len(s) - 1 : Tail(s)[i] = s[i + 1]
         /\ ToSet(s) = {Head(s)} \cup ToSet(Tail(s))
         /\ IsInjective(s) => /\ IsInjective(Tail(s))
                              /\ Head(s) \notin ToSet(Tail(s))
<1> DEFINE n == Len(s)
           t == Tail(s)
<1>1. /\ Head(s) \in S /\ Head(s) = s[1] /\ t \in Seq(S) /\ Len(t) = n - 1
      /\ n \in Nat \ {0} /\ DOMAIN s = 1 .. n
      /\ \A i \in 1 .. n - 1 : t[i] = s[i + 1]
  BY HeadTailProperties, EmptySeq, LenProperties, ToSetFacts
<1>2. DOMAIN t = 1 .. n - 1
  BY <1>1, LenProperties
<1> HIDE DEF n, t
<1>3. \A i \in 1 .. n - 1 : i + 1 \in 1 .. n /\ i + 1 # 1
  BY <1>1
<1>4. \A i \in 1 .. n : i = 1 \/ (i - 1 \in 1 .. n - 1 /\ (i - 1) + 1 = i)
  BY <1>1
<1>5. 1 \in 1 .. n
  BY <1>1
<1>6. ToSet(s) = {Head(s)} \cup ToSet(t)
  <2>1. \A x \in ToSet(s) : x = Head(s) \/ x \in ToSet(t)
    <3> TAKE x \in ToSet(s)
    <3>1. PICK i \in 1 .. n : x = s[i]
      BY <1>1 DEF ToSet
    <3>2. CASE i = 1
      BY <1>1, <3>1, <3>2
    <3>3. CASE i # 1
      <4>1. i - 1 \in DOMAIN t /\ t[i - 1] = s[i]
        BY <1>1, <1>2, <1>4, <3>3
      <4> QED
        BY <3>1, <4>1 DEF ToSet
    <3> QED
      BY <3>2, <3>3
  <2>2. \A x \in ToSet(t) : x \in ToSet(s)
    BY <1>1, <1>2, <1>3 DEF ToSet
  <2>3. Head(s) \in ToSet(s)
    BY <1>1, <1>5 DEF ToSet
  <2> QED
    BY <2>1, <2>2, <2>3
<1>7. IsInjective(s) => IsInjective(t) /\ Head(s) \notin ToSet(t)
  <2> HAVE IsInjective(s)
  <2>1. ASSUME NEW i \in 1 .. n - 1, NEW j \in 1 .. n - 1, t[i] = t[j] PROVE i = j
    <3>1. s[i + 1] = s[j + 1]
      BY <1>1, <2>1
    <3>2. i + 1 = j + 1
      BY <1>1, <1>3, <3>1 DEF IsInjective
    <3> QED
      BY <3>2
  <2>2. ASSUME Head(s) \in ToSet(t) PROVE FALSE
    <3>1. PICK i \in 1 .. n - 1 : t[i] = s[1]
      BY <1>1, <1>2, <2>2 DEF ToSet
    <3>2. s[i + 1] = s[1]
      BY <1>1, <3>1
    <3>3. i + 1 = 1
      BY <1>1, <1>3, <1>5, <3>2 DEF IsInjective
    <3> QED
      BY <1>3, <3>3
  <2> QED
    BY <1>2, <2>1, <2>2 DEF IsInjective
<1> QED
  BY <1>1, <1>6, <1>7 DEF n, t

------------------------------------------------------------------------------
(* How a step changes the invariant: object by object.                     *)

LEMMA CoreFields ==
  ASSUME Core
  PROVE  /\ policy \in PolicyType
         /\ policy.owned_by_client_ \in [ObjectIDs -> Clients \cup {NoClient}]
         /\ policy.shared_for_read_ \in SUBSET ObjectIDs
         /\ Keys(policy.cache_) \subseteq ObjectIDs
         /\ ToSet(evict_queue) \subseteq ObjectIDs
         /\ \A id \in ObjectIDs : Owned(policy, id) => policy.owned_by_client_[id] \in Clients
         /\ \A id \in ObjectIDs : id \in Keys(policy.cache_) => ~Owned(policy, id)
<1>1. /\ policy \in PolicyType /\ policy.cache_ \in LruType
      /\ policy.owned_by_client_ \in [ObjectIDs -> Clients \cup {NoClient}]
      /\ policy.shared_for_read_ \in SUBSET ObjectIDs
  BY PolicyFields DEF Core, PolicyInv
<1>2. Keys(policy.cache_) \subseteq ObjectIDs
  BY <1>1, LruFacts
<1>3. ToSet(evict_queue) \subseteq ObjectIDs
  BY ToSetFacts DEF Core, CoreType
<1>4. \A id \in ObjectIDs : Owned(policy, id) => policy.owned_by_client_[id] \in Clients
  BY <1>1 DEF Owned
<1>5. \A id \in ObjectIDs : id \in Keys(policy.cache_) => ~Owned(policy, id)
  BY DEF Core, PolicyInv
<1> QED
  BY <1>1, <1>2, <1>3, <1>4, <1>5

(* Nothing that ObjectInv says of the object changes.                      *)
Same(id) ==
  /\ objects'[id] = objects[id]
  /\ \A c \in Clients : id \in object_ids'[c] <=> id \in object_ids[c]
  /\ id \in Keys(policy'.cache_) <=> id \in Keys(policy.cache_)
  /\ policy'.owned_by_client_[id] = policy.owned_by_client_[id]
  /\ id \in policy'.shared_for_read_ <=> id \in policy.shared_for_read_
  /\ id \in ToSet(evict_queue') <=> id \in ToSet(evict_queue)
  /\ id \in deletion_cache_' <=> id \in deletion_cache_

LEMMA SameKeepsInv ==
  ASSUME Core, NEW id \in ObjectIDs, Same(id)
  PROVE  ObjectInv(id)'
<1>1. Holders(id)' = Holders(id)
  BY DEF Same, Holders
<1>2. /\ Owned(policy, id)' <=> Owned(policy, id)
      /\ Evictable(id)' <=> Evictable(id)
  BY DEF Same, Owned, Evictable
<1>3. /\ Present(id)' <=> Present(id)
      /\ Sealed(id)' <=> Sealed(id)
      /\ Unused(id)' <=> Unused(id)
  BY DEF Same, Present, Sealed, Unused
<1>4. Owned(policy, id) => policy.owned_by_client_[id] \in Clients
  BY CoreFields
<1>5. ObjectInv(id)
  BY DEF Core
<1> QED
  BY <1>1, <1>2, <1>3, <1>4, <1>5 DEF Same, ObjectInv

(* The bytes in use after the entry of one object has changed.             *)
LEMMA AllocatedChange ==
  ASSUME Core, NEW id \in ObjectIDs, objects' \in [ObjectIDs -> Entry],
         \A x \in ObjectIDs \ {id} : objects'[x] = objects[x],
         allocated_' = allocated_ - objects[id].size + objects'[id].size
  PROVE  /\ allocated_' = Total([x \in ObjectIDs |-> objects'[x].size])
         /\ allocated_' \in Nat
<1> DEFINE f == [x \in ObjectIDs |-> objects[x].size]
           g == [x \in ObjectIDs |-> objects'[x].size]
<1>1. f \in [ObjectIDs -> Nat] /\ g \in [ObjectIDs -> Nat]
  BY DEF Core, CoreType, Entry
<1>2. \A x \in ObjectIDs \ {id} : g[x] = f[x]
  OBVIOUS
<1>3. allocated_ = Total(f)
  BY DEF Core, AllocatedExact
<1>4. f[id] = objects[id].size /\ g[id] = objects'[id].size
  OBVIOUS
<1> HIDE DEF f, g
<1>5. Total(g) = Total(f) - f[id] + g[id]
  BY <1>1, <1>2, FiniteAssumption, TotalChange
<1>6. Total(g) \in Nat
  BY <1>1, FiniteAssumption, TotalType
<1>7. allocated_' = Total(g)
  BY <1>3, <1>4, <1>5
<1> QED
  BY <1>6, <1>7 DEF g

(* A step that changes one object only.                                    *)
LEMMA ChangeOne ==
  ASSUME Core, NEW id \in ObjectIDs,
         objects' \in [ObjectIDs -> Entry],
         object_ids' \in [Clients -> SUBSET ObjectIDs],
         deletion_cache_' \in SUBSET ObjectIDs,
         evict_queue' \in Seq(ObjectIDs),
         allocated_' = allocated_ - objects[id].size + objects'[id].size,
         allocated_' <= Limit,
         PolicyInv(policy'), policy'.ok,
         \A c \in Clients : HasQuota(policy', c) => HasQuota(policy, c),
         IsInjective(evict_queue'),
         deletion_cache_' # {} => "Delete" \in Requests,
         \A x \in ObjectIDs \ {id} : Same(x),
         ObjectInv(id)'
  PROVE  Core'
<1>1. \A x \in ObjectIDs : ObjectInv(x)'
  BY SameKeepsInv
<1>2. /\ allocated_' = Total([x \in ObjectIDs |-> objects'[x].size])
      /\ allocated_' \in Nat
  BY AllocatedChange DEF Same
<1>3. AllocatedExact'
  BY <1>2 DEF AllocatedExact
<1>4. (Quotas = {} => \A c \in Clients : ~HasQuota(policy, c))'
  BY DEF Core
<1> QED
  BY <1>1, <1>2, <1>3, <1>4 DEF Core, CoreType

(* A step that leaves the table alone.                                     *)
LEMMA ChangePolicy ==
  ASSUME Core, UNCHANGED <<objects, object_ids, deletion_cache_, allocated_>>,
         evict_queue' \in Seq(ObjectIDs), IsInjective(evict_queue'),
         PolicyInv(policy'), policy'.ok,
         Quotas = {} => \A c \in Clients : ~HasQuota(policy', c),
         \A id \in ObjectIDs : ObjectInv(id)'
  PROVE  Core'
<1>1. AllocatedExact'
  BY DEF Core, AllocatedExact
<1>2. CoreType'
  BY DEF Core, CoreType
<1>3. (Quotas = {} => \A c \in Clients : ~HasQuota(policy, c))'
  OBVIOUS
<1> QED
  BY <1>1, <1>2, <1>3 DEF Core

LEMMA CoreUnchanged ==
  ASSUME Core, UNCHANGED <<objects, object_ids, deletion_cache_, allocated_,
                           evict_queue, policy>>
  PROVE  Core'
<1>1. \A id \in ObjectIDs : Same(id)
  BY DEF Same
<1>2. \A id \in ObjectIDs : ObjectInv(id)'
  BY <1>1, SameKeepsInv
<1> QED
  BY <1>2, ChangePolicy DEF Core, CoreType

(* The users of an object.                                                 *)
LEMMA HoldersFacts ==
  ASSUME Core, NEW id \in ObjectIDs
  PROVE  /\ IsFiniteSet(Holders(id)) /\ Holders(id) \subseteq Clients
         /\ objects[id].ref_count \in Nat
         /\ objects[id].ref_count = Cardinality(Holders(id))
         /\ objects[id].ref_count = 0 <=> Holders(id) = {}
         /\ \A c \in Clients : objects[id].ref_count = 1 /\ id \in object_ids[c]
                                 => Holders(id) = {c}
         /\ \A c \in Clients : id \in object_ids[c] => objects[id].ref_count >= 1
<1>1. Holders(id) \subseteq Clients
  BY DEF Holders
<1>2. IsFiniteSet(Holders(id))
  BY <1>1, FiniteAssumption, FS_Subset
<1>3. Cardinality(Holders(id)) \in Nat
  BY <1>2, FS_CardinalityType
<1>4. objects[id].ref_count = Cardinality(Holders(id))
  BY DEF Core, ObjectInv
<1>5. objects[id].ref_count = 0 <=> Holders(id) = {}
  BY <1>2, <1>4, FS_EmptySet
<1>6. ASSUME NEW c \in Clients, id \in object_ids[c]
      PROVE  c \in Holders(id) /\ objects[id].ref_count >= 1
  <2>1. c \in Holders(id)
    BY <1>6 DEF Holders
  <2>2. Cardinality(Holders(id)) # 0
    BY <1>2, <2>1, FS_EmptySet
  <2> QED
    BY <1>3, <1>4, <2>1, <2>2
<1>7. ASSUME NEW c \in Clients, id \in object_ids[c], objects[id].ref_count = 1
      PROVE  Holders(id) = {c}
  <2>1. PICK x : Holders(id) = {x}
    BY <1>2, <1>4, <1>7, FS_Singleton
  <2> QED
    BY <1>6, <1>7, <2>1
<1> QED
  BY <1>1, <1>2, <1>3, <1>4, <1>5, <1>6, <1>7

(* A global queue without keys is empty.                                   *)
LEMMA NoKeys ==
  ASSUME NEW p, PolicyInv(p), Keys(p.cache_) = {}
  PROVE  p.cache_.items = <<>>
<1>1. p.cache_ \in LruType
  BY PolicyFields DEF PolicyInv
<1>2. p.cache_.items \in Seq(Item)
  BY <1>1, LruFacts
<1>3. DOMAIN p.cache_.items = {}
  BY DEF Keys
<1>4. Len(p.cache_.items) \in Nat /\ DOMAIN p.cache_.items = 1 .. Len(p.cache_.items)
  BY <1>2, LenProperties
<1>5. Len(p.cache_.items) = 0
  <2> DEFINE n == Len(p.cache_.items)
  <2>1. n \in Nat /\ 1 .. n = {}
    BY <1>3, <1>4
  <2> HIDE DEF n
  <2>2. n >= 1 => 1 \in 1 .. n
    BY <2>1
  <2>3. n = 0
    BY <2>1, <2>2
  <2> QED
    BY <2>3 DEF n
<1> QED
  BY <1>2, <1>5, EmptySeq

------------------------------------------------------------------------------
(* The operations.                                                         *)

LEMMA EntryFacts ==
  /\ \A e \in Entry : /\ e.size \in Nat /\ e.ref_count \in Nat
                      /\ e.state \in {"ABSENT", "CREATED", "SEALED"}
  /\ NoEntry \in Entry
  BY DEF Entry, NoEntry

LEMMA EntryWithRef ==
  ASSUME NEW e \in Entry, NEW r \in Nat
  PROVE  LET f == [e EXCEPT !.ref_count = r]
         IN  /\ f \in Entry /\ f.ref_count = r
             /\ f.size = e.size /\ f.state = e.state
  BY DEF Entry

LEMMA EntrySealed ==
  ASSUME NEW e \in Entry
  PROVE  LET f == [e EXCEPT !.state = "SEALED"]
         IN  /\ f \in Entry /\ f.state = "SEALED"
             /\ f.size = e.size /\ f.ref_count = e.ref_count
  BY DEF Entry

LEMMA SetEntry ==
  ASSUME Core, NEW id \in ObjectIDs, NEW e \in Entry,
         objects' = [objects EXCEPT ![id] = e]
  PROVE  /\ objects' \in [ObjectIDs -> Entry] /\ objects'[id] = e
         /\ \A x \in ObjectIDs \ {id} : objects'[x] = objects[x]
  BY DEF Core, CoreType

(* AddToClientObjectIds of a sealed object, when nothing waits to be       *)
(* evicted: another user, and out of the eviction order with the first.    *)
LEMMA AddRefCore ==
  ASSUME Core, NEW id \in ObjectIDs, NEW c \in Clients, Sealed(id), evict_queue = <<>>,
         AddToClientObjectIds(id, c),
         UNCHANGED <<deletion_cache_, allocated_, evict_queue>>
  PROVE  /\ Core'
         /\ \A x \in ObjectIDs : /\ objects'[x].state = objects[x].state
                                 /\ objects'[x].size = objects[x].size
         /\ object_ids' = [object_ids EXCEPT ![c] = @ \cup {id}]
         /\ policy.cache_.items = <<>> => policy'.cache_.items = <<>>
<1>1. /\ objects \in [ObjectIDs -> Entry] /\ objects[id] \in Entry
      /\ object_ids \in [Clients -> SUBSET ObjectIDs]
      /\ evict_queue \in Seq(ObjectIDs) /\ deletion_cache_ \in SUBSET ObjectIDs
      /\ allocated_ \in Nat /\ allocated_ <= Limit
      /\ PolicyInv(policy) /\ policy.ok
      /\ (deletion_cache_ # {} => "Delete" \in Requests)
  BY DEF Core, CoreType, AllocatedExact
<1>2. CASE id \in object_ids[c]
  <2>1. UNCHANGED <<objects, object_ids, policy>>
    BY <1>2 DEF AddToClientObjectIds
  <2>2. object_ids = [object_ids EXCEPT ![c] = @ \cup {id}]
    BY <1>1, <1>2
  <2> QED
    BY <2>1, <2>2, CoreUnchanged
<1>3. CASE id \notin object_ids[c]
  <2> DEFINE e == objects[id]
             p == BeginObjectAccess(policy, id)
  <2>1. /\ objects' = [objects EXCEPT ![id] = [e EXCEPT !.ref_count = e.ref_count + 1]]
        /\ object_ids' = [object_ids EXCEPT ![c] = @ \cup {id}]
        /\ policy' = IF e.ref_count = 0 THEN p ELSE policy
    BY <1>3 DEF AddToClientObjectIds
  <2>2. /\ objects' \in [ObjectIDs -> Entry]
        /\ objects'[id].state = "SEALED"
        /\ objects'[id].ref_count = e.ref_count + 1
        /\ objects'[id].size = e.size
        /\ \A x \in ObjectIDs \ {id} : objects'[x] = objects[x]
    <3> DEFINE f == [e EXCEPT !.ref_count = e.ref_count + 1]
    <3>1. e \in Entry /\ e.state = "SEALED"
      BY <1>1 DEF Sealed
    <3> HIDE DEF e
    <3>2. e.ref_count + 1 \in Nat
      BY <3>1, EntryFacts
    <3>3. f \in Entry /\ f.ref_count = e.ref_count + 1 /\ f.size = e.size /\ f.state = e.state
      BY <3>1, <3>2, EntryWithRef
    <3>4. objects' = [objects EXCEPT ![id] = f]
      BY <2>1
    <3> HIDE DEF f
    <3> QED
      BY <3>1, <3>3, <3>4, SetEntry
  <2>3. /\ object_ids' \in [Clients -> SUBSET ObjectIDs]
        /\ \A d \in Clients : \A x \in ObjectIDs \ {id} :
             x \in object_ids'[d] <=> x \in object_ids[d]
        /\ \A d \in Clients : id \in object_ids'[d] <=> d = c \/ id \in object_ids[d]
    BY <1>1, <2>1
  <2>4. /\ PolicyInv(p) /\ p.ok
        /\ Keys(p.cache_) = Keys(policy.cache_) \ {id}
        /\ p.per_client_cache_ = policy.per_client_cache_
        /\ p.owned_by_client_ = policy.owned_by_client_
        /\ p.shared_for_read_ = IF Owned(policy, id) THEN policy.shared_for_read_ \cup {id}
                                                     ELSE policy.shared_for_read_
    BY <1>1, BeginFacts
  <2> HIDE DEF p
  <2>5. ObjectInv(id)
    BY DEF Core
  <2>6. /\ PolicyInv(policy') /\ policy'.ok
        /\ policy'.per_client_cache_ = policy.per_client_cache_
        /\ policy'.owned_by_client_ = policy.owned_by_client_
        /\ \A x \in ObjectIDs \ {id} :
             /\ x \in Keys(policy'.cache_) <=> x \in Keys(policy.cache_)
             /\ x \in policy'.shared_for_read_ <=> x \in policy.shared_for_read_
    BY <1>1, <2>1, <2>4
  <2>7. id \notin Keys(policy'.cache_) /\ (Owned(policy, id) => id \in policy'.shared_for_read_)
    <3>1. CASE e.ref_count = 0
      BY <2>1, <2>4, <3>1
    <3>2. CASE e.ref_count # 0
      BY <2>1, <2>5, <3>2 DEF ObjectInv, Evictable, Unused
    <3> QED
      BY <3>1, <3>2
  <2>8. Cardinality(Holders(id)') = Cardinality(Holders(id)) + 1
    <3>1. Holders(id)' = Holders(id) \cup {c} /\ c \notin Holders(id)
      BY <1>3, <2>3 DEF Holders
    <3> QED
      BY <3>1, HoldersFacts, FS_AddElement
  <2>9. Owned(policy, id)' <=> Owned(policy, id)
    BY <2>6 DEF Owned
  <2>10. ~Evictable(id)'
    BY <2>7, <2>9, EmptyFacts DEF Evictable
  <2>11. e.ref_count + 1 # 0
    BY HoldersFacts
  <2>12. ObjectInv(id)'
    <3>1. ~Unused(id)'
      BY <2>2, <2>11 DEF Unused
    <3>2. Present(id)'
      BY <2>2 DEF Present, NoEntry
    <3>3. objects'[id].ref_count = Cardinality(Holders(id)')
      BY <2>2, <2>8, HoldersFacts
    <3> QED
      BY <2>2, <2>10, <3>1, <3>2, <3>3, EmptyFacts DEF ObjectInv
  <2>13. \A x \in ObjectIDs \ {id} : Same(x)
    BY <2>2, <2>3, <2>6 DEF Same
  <2>14. \A d \in Clients : HasQuota(policy', d) => HasQuota(policy, d)
    BY <2>6 DEF HasQuota
  <2>15. allocated_' = allocated_ - objects[id].size + objects'[id].size
    BY <1>1, <2>2 DEF Entry
  <2>16. Core'
    BY <1>1, <2>2, <2>3, <2>6, <2>12, <2>13, <2>14, <2>15, EmptyFacts, ChangeOne
  <2>17. policy.cache_.items = <<>> => policy'.cache_.items = <<>>
    <3> SUFFICES ASSUME policy.cache_.items = <<>> PROVE policy'.cache_.items = <<>>
      OBVIOUS
    <3>1. Keys(policy'.cache_) = {}
      <4>1. Keys(policy.cache_) = {}
        BY DEF Keys
      <4> QED
        BY <2>1, <2>4, <4>1
    <3> QED
      BY <2>6, <3>1, NoKeys
  <2> QED
    BY <2>1, <2>2, <2>16, <2>17 DEF Sealed
<1> QED
  BY <1>2, <1>3

LEMMA DropHolder ==
  ASSUME Core, NEW id \in ObjectIDs, NEW c \in Clients, id \in object_ids[c],
         object_ids' = [object_ids EXCEPT ![c] = @ \ {id}]
  PROVE  /\ object_ids' \in [Clients -> SUBSET ObjectIDs]
         /\ \A d \in Clients : \A x \in ObjectIDs \ {id} :
              x \in object_ids'[d] <=> x \in object_ids[d]
         /\ \A d \in Clients : id \in object_ids'[d] <=> d # c /\ id \in object_ids[d]
         /\ Holders(id)' = Holders(id) \ {c}
         /\ Cardinality(Holders(id)') = objects[id].ref_count - 1
         /\ objects[id].ref_count - 1 \in Nat
<1>1. /\ object_ids' \in [Clients -> SUBSET ObjectIDs]
      /\ \A d \in Clients : \A x \in ObjectIDs \ {id} :
              x \in object_ids'[d] <=> x \in object_ids[d]
      /\ \A d \in Clients : id \in object_ids'[d] <=> d # c /\ id \in object_ids[d]
  BY DEF Core, CoreType
<1>2. Holders(id)' = Holders(id) \ {c} /\ c \in Holders(id)
  BY <1>1 DEF Holders
<1>3. Cardinality(Holders(id)') = Cardinality(Holders(id)) - 1
  BY <1>2, HoldersFacts, FS_RemoveElement
<1>4. objects[id].ref_count - 1 \in Nat
  BY HoldersFacts
<1> QED
  BY <1>1, <1>2, <1>3, <1>4, HoldersFacts

(* An object that nobody refers to any more, and that has left the policy, *)
(* is erased.                                                              *)
LEMMA EraseCore ==
  ASSUME Core, NEW id \in ObjectIDs, EraseFromObjectTable(id),
         object_ids' \in [Clients -> SUBSET ObjectIDs],
         \A d \in Clients : id \notin object_ids'[d],
         \A d \in Clients : \A x \in ObjectIDs \ {id} :
              x \in object_ids'[d] <=> x \in object_ids[d],
         deletion_cache_' \in SUBSET deletion_cache_,
         deletion_cache_ \ {id} \subseteq deletion_cache_',
         evict_queue' \in Seq(ObjectIDs), IsInjective(evict_queue'),
         ToSet(evict_queue') = ToSet(evict_queue) \ {id},
         PolicyInv(policy'), policy'.ok,
         \A c \in Clients : HasQuota(policy', c) => HasQuota(policy, c),
         \A x \in ObjectIDs \ {id} :
           /\ x \in Keys(policy'.cache_) <=> x \in Keys(policy.cache_)
           /\ policy'.owned_by_client_[x] = policy.owned_by_client_[x]
           /\ x \in policy'.shared_for_read_ <=> x \in policy.shared_for_read_,
         id \notin Keys(policy'.cache_), ~Owned(policy', id)
  PROVE  /\ Core'
         /\ objects' = [objects EXCEPT ![id] = NoEntry]
<1>1. /\ objects' = [objects EXCEPT ![id] = NoEntry]
      /\ allocated_' = allocated_ - objects[id].size
  BY DEF EraseFromObjectTable
<1>2. /\ objects' \in [ObjectIDs -> Entry] /\ objects'[id] = NoEntry
      /\ \A x \in ObjectIDs \ {id} : objects'[x] = objects[x]
  BY <1>1, EntryFacts, SetEntry
<1>3. /\ deletion_cache_ \in SUBSET ObjectIDs /\ objects[id].size \in Nat
      /\ allocated_ \in Nat /\ allocated_ <= Limit /\ Limit \in Nat
      /\ (deletion_cache_ # {} => "Delete" \in Requests)
  BY EntryFacts, LimitAssumption DEF Core, CoreType, AllocatedExact
<1>4. NoEntry.size = 0 /\ NoEntry.ref_count = 0 /\ NoEntry.state = "ABSENT"
  BY DEF NoEntry
<1>5. /\ allocated_' = allocated_ - objects[id].size + objects'[id].size
      /\ allocated_' <= Limit
  BY <1>1, <1>2, <1>3, <1>4
<1>6. \A x \in ObjectIDs \ {id} : Same(x)
  BY <1>2 DEF Same
<1>7. ObjectInv(id)'
  <2>1. Holders(id)' = {}
    BY DEF Holders
  <2>2. objects'[id].ref_count = Cardinality(Holders(id)')
    BY <1>2, <1>4, <2>1, FS_EmptySet
  <2>3. ~Owned(policy, id)' /\ ~Evictable(id)' /\ ~Unused(id)' /\ ~Sealed(id)'
    BY <1>2, <1>4 DEF Owned, Evictable, Unused, Sealed
  <2> QED
    BY <1>2, <1>4, <2>2, <2>3 DEF ObjectInv
<1>8. Core'
  BY <1>2, <1>3, <1>5, <1>6, <1>7, ChangeOne
<1> QED
  BY <1>1, <1>8

(* RemoveFromClientObjectIds of a sealed object: evictable, or gone if it  *)
(* was deleted, with its last user.                                        *)
LEMMA DropRefCore ==
  ASSUME Core, QuotasStayExact, NEW id \in ObjectIDs, NEW c \in Clients,
         id \in object_ids[c], Sealed(id), evict_queue = <<>>,
         RemoveFromClientObjectIds(id, c), UNCHANGED evict_queue
  PROVE  /\ Core'
         /\ object_ids' = [object_ids EXCEPT ![c] = @ \ {id}]
         /\ \A x \in ObjectIDs \ {id} : objects'[x] = objects[x]
         /\ \/ /\ objects'[id].state = objects[id].state
               /\ objects'[id].size = objects[id].size
            \/ Holders(id) = {c} /\ objects' = [objects EXCEPT ![id] = NoEntry]
         /\ ~crashed'
<1> DEFINE e == objects[id]
           f == [e EXCEPT !.ref_count = e.ref_count - 1]
           last == e.ref_count = 1
           evict == last /\ id \in deletion_cache_
           p == EndObjectAccess(policy, id, e.size)
<1>1. /\ objects \in [ObjectIDs -> Entry] /\ e \in Entry /\ e.state = "SEALED"
      /\ evict_queue \in Seq(ObjectIDs) /\ deletion_cache_ \in SUBSET ObjectIDs
      /\ allocated_ \in Nat /\ allocated_ <= Limit /\ e.size \in Nat
      /\ PolicyInv(policy) /\ policy.ok
      /\ (deletion_cache_ # {} => "Delete" \in Requests)
      /\ (Quotas = {} => \A d \in Clients : ~HasQuota(policy, d))
  BY EntryFacts DEF Core, CoreType, AllocatedExact, Sealed
<1>2. /\ object_ids' = [object_ids EXCEPT ![c] = @ \ {id}]
      /\ (evict => EraseFromObjectTable(id) /\ deletion_cache_' = deletion_cache_ \ {id})
      /\ (~evict => /\ objects' = [objects EXCEPT ![id] = f]
                    /\ UNCHANGED <<allocated_, deletion_cache_>>)
      /\ policy' = IF last /\ ~evict THEN p ELSE policy
      /\ ~crashed'
  BY DEF RemoveFromClientObjectIds
<1>3. /\ object_ids' \in [Clients -> SUBSET ObjectIDs]
      /\ \A d \in Clients : \A x \in ObjectIDs \ {id} :
              x \in object_ids'[d] <=> x \in object_ids[d]
      /\ \A d \in Clients : id \in object_ids'[d] <=> d # c /\ id \in object_ids[d]
      /\ Holders(id)' = Holders(id) \ {c}
      /\ Cardinality(Holders(id)') = e.ref_count - 1
      /\ e.ref_count - 1 \in Nat /\ e.ref_count \in Nat /\ e.ref_count >= 1
  BY <1>2, DropHolder, HoldersFacts
<1>4. ObjectInv(id)
  BY DEF Core
<1>5. ~Evictable(id)
  BY <1>3, <1>4 DEF ObjectInv, Unused
<1>6. id \notin Keys(policy.cache_) /\ (Owned(policy, id) => id \in policy.shared_for_read_)
  BY <1>5 DEF Evictable
<1>7. CASE evict
  <2>1. Holders(id) = {c}
    BY <1>7, HoldersFacts
  <2>2. \A d \in Clients : id \notin object_ids'[d]
    BY <1>3, <2>1 DEF Holders
  <2>3. ~Owned(policy, id)
    <3>1. "Delete" \in Requests
      BY <1>1, <1>7
    <3>2. Quotas = {}
      BY <3>1 DEF QuotasStayExact
    <3>3. \A d \in Clients : policy.owned_by_client_[id] # d
      BY <1>1, <3>2, QuotaFacts
    <3> QED
      BY <3>3, CoreFields
  <2>4. policy' = policy /\ evict_queue' = <<>>
    BY <1>2, <1>7
  <2>5. Core' /\ objects' = [objects EXCEPT ![id] = NoEntry]
    BY <1>1, <1>2, <1>3, <1>6, <1>7, <2>2, <2>3, <2>4, EmptyFacts, EraseCore
  <2>6. \A x \in ObjectIDs \ {id} : objects'[x] = objects[x]
    BY <1>1, <2>5
  <2> QED
    BY <1>2, <2>1, <2>5, <2>6
<1>8. CASE ~evict
  <2>1. f \in Entry /\ f.ref_count = e.ref_count - 1 /\ f.size = e.size /\ f.state = e.state
    BY <1>1, <1>3, EntryWithRef
  <2>2. objects' = [objects EXCEPT ![id] = f] /\ UNCHANGED <<allocated_, deletion_cache_>>
    BY <1>2, <1>8
  <2> HIDE DEF f
  <2>3. /\ objects' \in [ObjectIDs -> Entry] /\ objects'[id] = f
        /\ \A x \in ObjectIDs \ {id} : objects'[x] = objects[x]
    BY <2>1, <2>2, SetEntry
  <2>4. /\ PolicyInv(p) /\ p.ok
        /\ Keys(p.cache_) = IF Owned(policy, id) THEN Keys(policy.cache_)
                                                 ELSE Keys(policy.cache_) \cup {id}
        /\ p.per_client_cache_ = policy.per_client_cache_
        /\ p.owned_by_client_ = policy.owned_by_client_
        /\ \A x : x \in p.shared_for_read_ <=> x \in policy.shared_for_read_ /\ x # id
    <3>1. Ended(policy, p, id)
      BY <1>1, <1>6, EndFacts
    <3> HIDE DEF p, e
    <3> QED
      BY <1>1, <3>1 DEF Ended
  <2>5. policy' = IF last THEN p ELSE policy
    BY <1>2, <1>8
  <2> HIDE DEF p, e
  <2>6. /\ PolicyInv(policy') /\ policy'.ok
        /\ policy'.per_client_cache_ = policy.per_client_cache_
        /\ policy'.owned_by_client_ = policy.owned_by_client_
        /\ \A x \in ObjectIDs \ {id} :
             /\ x \in Keys(policy'.cache_) <=> x \in Keys(policy.cache_)
             /\ x \in policy'.shared_for_read_ <=> x \in policy.shared_for_read_
    BY <1>1, <2>4, <2>5
  <2>7. Owned(policy, id)' <=> Owned(policy, id)
    BY <2>6 DEF Owned
  <2>8. Evictable(id)' <=> last
    BY <1>6, <2>4, <2>5, <2>7, EmptyFacts DEF Evictable
  <2>9. Unused(id)' <=> last
    <3>1. Unused(id)' <=> e.ref_count - 1 = 0
      BY <1>1, <2>1, <2>3 DEF Unused, Sealed
    <3>2. e.ref_count - 1 = 0 <=> e.ref_count = 1
      BY <1>3
    <3> QED
      BY <3>1, <3>2
  <2>10. ObjectInv(id)'
    <3>1. Present(id)'
      BY <1>1, <2>1, <2>3 DEF Present, NoEntry
    <3>2. id \in deletion_cache_' => ~last
      BY <1>8, <2>2
    <3>3. /\ objects'[id].state = "SEALED"
          /\ objects'[id].ref_count = Cardinality(Holders(id)')
      BY <1>1, <1>3, <2>1, <2>3
    <3> HIDE DEF last, evict
    <3>4. objects'[id].state # "ABSENT" /\ objects'[id].state # "CREATED"
      BY <3>3
    <3> QED
      BY <2>8, <2>9, <3>1, <3>2, <3>3, <3>4, EmptyFacts DEF ObjectInv
  <2>11. \A x \in ObjectIDs \ {id} : Same(x)
    BY <1>3, <2>2, <2>3, <2>6 DEF Same
  <2>12. \A d \in Clients : HasQuota(policy', d) => HasQuota(policy, d)
    BY <2>6 DEF HasQuota
  <2>13. allocated_' = allocated_ - objects[id].size + objects'[id].size
    BY <1>1, <2>1, <2>2, <2>3 DEF e
  <2>14. Core'
    BY <1>1, <1>3, <2>2, <2>3, <2>6, <2>10, <2>11, <2>12, <2>13, EmptyFacts, ChangeOne
  <2> QED
    BY <1>2, <2>1, <2>3, <2>14 DEF e
<1> QED
  BY <1>7, <1>8

(* EvictOne: what the policy gave up is sealed and in no use, so the       *)
(* checks of EvictObjects hold.                                            *)
LEMMA EvictOneCore ==
  ASSUME Core, EvictOne
  PROVE  LET id == Head(evict_queue)
         IN  /\ Core' /\ ~crashed'
             /\ id \in ObjectIDs /\ Unused(id) /\ Holders(id) = {}
             /\ objects' = [objects EXCEPT ![id] = NoEntry]
             /\ UNCHANGED <<object_ids, policy>>
<1> DEFINE id == Head(evict_queue)
<1>1. /\ evict_queue \in Seq(ObjectIDs) /\ evict_queue # <<>> /\ IsInjective(evict_queue)
      /\ evict_queue' = Tail(evict_queue)
      /\ UNCHANGED <<object_ids, deletion_cache_, policy>>
  BY DEF Core, CoreType, EvictOne
<1>2. /\ id \in ObjectIDs /\ id \in ToSet(evict_queue)
      /\ evict_queue' \in Seq(ObjectIDs) /\ IsInjective(evict_queue')
      /\ ToSet(evict_queue') = ToSet(evict_queue) \ {id}
  BY <1>1, TailFacts
<1>3. /\ ObjectInv(id) /\ PolicyInv(policy) /\ policy.ok
      /\ object_ids \in [Clients -> SUBSET ObjectIDs]
  BY <1>2 DEF Core, CoreType
<1>4. Unused(id) /\ id \notin Keys(policy.cache_) /\ ~Owned(policy, id)
  BY <1>2, <1>3 DEF ObjectInv, Evictable
<1>5. Present(id) /\ Sealed(id) /\ objects[id].ref_count = 0
  BY <1>4 DEF Unused, Sealed, Present, NoEntry
<1>6. EraseFromObjectTable(id) /\ ~crashed'
  BY <1>5 DEF EvictOne
<1>7. Holders(id) = {}
  BY <1>2, <1>5, HoldersFacts
<1>8. \A d \in Clients : id \notin object_ids'[d]
  BY <1>1, <1>7 DEF Holders
<1> HIDE DEF id
<1>9. Core' /\ objects' = [objects EXCEPT ![id] = NoEntry]
  BY <1>1, <1>2, <1>3, <1>4, <1>6, <1>8, EraseCore
<1> QED
  BY <1>1, <1>2, <1>4, <1>6, <1>7, <1>9 DEF id

(* The policy changes in a way that no object notices.                     *)
LEMMA QuietCore ==
  ASSUME Core, UNCHANGED <<objects, object_ids, deletion_cache_, allocated_, evict_queue>>,
         PolicyInv(policy'), policy'.ok,
         Quotas = {} => \A c \in Clients : ~HasQuota(policy', c),
         Keys(policy'.cache_) = Keys(policy.cache_),
         policy'.owned_by_client_ = policy.owned_by_client_,
         policy'.shared_for_read_ = policy.shared_for_read_
  PROVE  Core'
<1>1. \A id \in ObjectIDs : Same(id)
  BY DEF Same
<1>2. \A id \in ObjectIDs : ObjectInv(id)'
  BY <1>1, SameKeepsInv
<1> QED
  BY <1>2, ChangePolicy DEF Core, CoreType

(* Objects leave the policy for evict_queue, or from a client's charge.    *)
LEMMA ChosenCore ==
  ASSUME Core, UNCHANGED <<objects, object_ids, deletion_cache_, allocated_>>,
         evict_queue = <<>>, evict_queue' \in Seq(ObjectIDs), IsInjective(evict_queue'),
         PolicyInv(policy'), policy'.ok,
         \A c \in Clients : HasQuota(policy', c) => HasQuota(policy, c),
         NEW out \in SUBSET ObjectIDs,
         \A id \in out : id \in Keys(policy.cache_) \/ Owned(policy, id),
         ToSet(evict_queue') = {id \in out : Evictable(id)},
         Keys(policy'.cache_) = Keys(policy.cache_) \ out,
         \A id \in ObjectIDs : policy'.owned_by_client_[id] =
           IF id \in out THEN NoClient ELSE policy.owned_by_client_[id],
         policy'.shared_for_read_ = policy.shared_for_read_ \ out
  PROVE  Core'
<1>1. \A id \in ObjectIDs : ObjectInv(id)'
  <2> SUFFICES ASSUME NEW id \in ObjectIDs PROVE ObjectInv(id)'
    OBVIOUS
  <2>1. CASE id \notin out
    <3>1. Same(id)
      BY <2>1, EmptyFacts DEF Same
    <3> QED
      BY <3>1, SameKeepsInv
  <2>2. CASE id \in out
    <3>1. ObjectInv(id)
      BY DEF Core
    <3>2. ~Owned(policy', id) /\ id \notin Keys(policy'.cache_)
      BY <2>2 DEF Owned
    <3>3. Evictable(id)' <=> Evictable(id)
      BY <2>2, <3>2 DEF Evictable, Owned
    <3>4. /\ Holders(id)' = Holders(id) /\ (Present(id)' <=> Present(id))
          /\ (Unused(id)' <=> Unused(id))
      BY DEF Holders, Present, Unused, Sealed
    <3>5. ~Owned(policy, id)' /\ id \notin Keys(policy.cache_)'
      BY <3>2 DEF Owned
    <3> QED
      BY <3>1, <3>3, <3>4, <3>5 DEF ObjectInv
  <2> QED
    BY <2>1, <2>2
<1>2. Quotas = {} => \A c \in Clients : ~HasQuota(policy', c)
  BY DEF Core
<1> QED
  BY <1>1, <1>2, ChangePolicy

(* What ChooseObjectsToEvict and RequireSpace take from the global LRU.    *)
LEMMA TakenCore ==
  ASSUME Core, UNCHANGED <<objects, object_ids, deletion_cache_, allocated_>>,
         evict_queue = <<>>, evict_queue' \in Seq(ObjectIDs), IsInjective(evict_queue'),
         ToSet(evict_queue') \subseteq Keys(policy.cache_),
         PolicyInv(policy'), policy'.ok,
         Keys(policy'.cache_) = Keys(policy.cache_) \ ToSet(evict_queue'),
         policy'.per_client_cache_ = policy.per_client_cache_,
         policy'.owned_by_client_ = policy.owned_by_client_,
         policy'.shared_for_read_ = policy.shared_for_read_
  PROVE  Core'
<1> DEFINE out == ToSet(evict_queue')
<1>1. out \in SUBSET ObjectIDs
  BY ToSetFacts
<1>2. \A id \in out : id \in Keys(policy.cache_) /\ ~Owned(policy, id)
  BY <1>1, CoreFields
<1>3. out = {id \in out : Evictable(id)}
  BY <1>2 DEF Evictable
<1>4. \A id \in out : policy.owned_by_client_[id] = NoClient
  BY <1>2 DEF Owned
<1>5. \A id \in out : id \notin policy.shared_for_read_
  BY <1>2 DEF Core, PolicyInv
<1>6. policy'.shared_for_read_ = policy.shared_for_read_ \ out
  BY <1>5
<1>7. \A c \in Clients : HasQuota(policy', c) => HasQuota(policy, c)
  BY DEF HasQuota
<1> HIDE DEF out
<1>8. \A id \in ObjectIDs : policy'.owned_by_client_[id] =
           IF id \in out THEN NoClient ELSE policy.owned_by_client_[id]
  BY <1>4
<1>9. Keys(policy'.cache_) = Keys(policy.cache_) \ out /\ ToSet(evict_queue') = out
  BY DEF out
<1> QED
  BY <1>1, <1>2, <1>3, <1>6, <1>7, <1>8, <1>9, ChosenCore

LEMMA EvictRequestCore ==
  ASSUME Core, NEW c \in Clients, NEW bytes \in EvictBytes, EvictRequest(c, bytes)
  PROVE  Core'
<1> DEFINE r == ChooseObjectsToEvict(policy, bytes)
<1>1. /\ UNCHANGED <<objects, object_ids, deletion_cache_, allocated_>>
      /\ evict_queue = <<>> /\ policy' = r.policy /\ evict_queue' = r.evict
  BY DEF EvictRequest, Ready, Free
<1>2. PolicyInv(policy) /\ policy.ok /\ bytes \in Int
  BY SizesAssumption DEF Core
<1>3. Chosen(policy, r, bytes)
  BY <1>2, ChooseEvictFacts
<1> HIDE DEF r
<1> QED
  BY <1>1, <1>2, <1>3, TakenCore DEF Chosen

LEMMA MakeRoomCore ==
  ASSUME Core, loop.size \in Nat, MakeRoom
  PROVE  /\ Core'
         /\ UNCHANGED <<objects, object_ids>>
         /\ policy'.per_client_cache_ = policy.per_client_cache_
         /\ policy'.cache_.capacity = policy.cache_.capacity
         /\ \/ loop' = loop
            \/ /\ loop' = Fail("oom")
               /\ loop.evict_if_full => policy'.cache_.items = <<>>
<1> DEFINE r == RequireSpace(policy, loop.size, allocated_)
<1>1. UNCHANGED <<objects, object_ids, deletion_cache_, allocated_>> /\ evict_queue = <<>>
  BY DEF MakeRoom, At
<1>2. PolicyInv(policy) /\ policy.ok /\ allocated_ \in Nat
  BY DEF Core, CoreType
<1>3. CASE loop.evict_if_full
  <2>1. /\ policy' = r.policy /\ evict_queue' = r.evict
        /\ loop' = IF r.success THEN loop ELSE Fail("oom")
    BY <1>3 DEF MakeRoom
  <2>2. Required(policy, r)
    BY <1>2, LimitAssumption, RequireSpaceFacts
  <2> HIDE DEF r
  <2>3. Core'
    BY <1>1, <1>2, <2>1, <2>2, TakenCore DEF Required
  <2> QED
    BY <1>1, <2>1, <2>2, <2>3 DEF Required
<1>4. CASE ~loop.evict_if_full
  <2>1. loop' = Fail("oom") /\ UNCHANGED <<policy, evict_queue>>
    BY <1>4 DEF MakeRoom
  <2>2. Core'
    BY <1>1, <2>1, CoreUnchanged
  <2> QED
    BY <1>1, <1>4, <2>1, <2>2
<1> QED
  BY <1>3, <1>4

LEMMA EnforceQuotaCore ==
  ASSUME Core, loop.size \in Nat, loop.c \in Clients, EnforceQuota
  PROVE  /\ Core'
         /\ UNCHANGED <<objects, object_ids>> /\ policy'.cache_ = policy.cache_
         /\ \/ loop' = [loop EXCEPT !.pc = "alloc"]
            \/ loop' = Fail("abort")
<1> DEFINE r == EnforcePerClientQuota(policy, loop.c, loop.size)
<1>1. UNCHANGED <<objects, object_ids, deletion_cache_, allocated_>> /\ evict_queue = <<>>
  BY DEF EnforceQuota, At
<1>2. PolicyInv(policy) /\ policy.ok
  BY DEF Core
<1>3. CASE loop.evict_if_full
  <2>1. /\ policy' = r.policy /\ evict_queue' = r.evict
        /\ \/ loop' = [loop EXCEPT !.pc = "alloc"]
           \/ loop' = Fail("abort")
    BY <1>3 DEF EnforceQuota
  <2>2. Enforced(policy, r, loop.c, loop.size)
    BY <1>2, EnforceFacts
  <2> HIDE DEF r
  <2>3. /\ r.evict \in Seq(ObjectIDs) /\ IsInjective(r.evict)
        /\ PolicyInv(r.policy) /\ (policy.ok => r.policy.ok)
        /\ r.policy.cache_ = policy.cache_
        /\ \A d \in Clients :
             r.policy.per_client_cache_[d].capacity = policy.per_client_cache_[d].capacity
    BY <2>2 DEF Enforced
  <2>4. PICK out \in SUBSET ObjectIDs :
          /\ \A id \in out : policy.owned_by_client_[id] = loop.c
          /\ ToSet(r.evict) = out \ policy.shared_for_read_
          /\ r.policy.owned_by_client_ =
               [id \in ObjectIDs |-> IF id \in out THEN NoClient
                                     ELSE policy.owned_by_client_[id]]
          /\ r.policy.shared_for_read_ = policy.shared_for_read_ \ out
    BY <2>2 DEF Enforced
  <2>5. \A id \in out : Owned(policy, id)
    BY <2>4, NoClientAssumption DEF Owned
  <2>6. \A id \in out : Evictable(id) <=> id \notin policy.shared_for_read_
    <3>1. \A id \in out : id \notin Keys(policy.cache_) /\ id \notin ToSet(evict_queue)
      BY <1>1, <2>5, CoreFields, EmptyFacts
    <3> QED
      BY <2>5, <3>1 DEF Evictable
  <2>7. ToSet(r.evict) = {id \in out : Evictable(id)}
    BY <2>4, <2>6
  <2>8. Keys(policy.cache_) = Keys(policy.cache_) \ out
    BY <2>5, CoreFields
  <2>9. \A d \in Clients : HasQuota(policy', d) => HasQuota(policy, d)
    BY <1>2, <2>1, <2>3, QuotaFacts
  <2>10. \A id \in ObjectIDs : policy'.owned_by_client_[id] =
              IF id \in out THEN NoClient ELSE policy.owned_by_client_[id]
    BY <2>1, <2>4
  <2>11. /\ Keys(policy'.cache_) = Keys(policy.cache_) \ out
         /\ policy'.shared_for_read_ = policy.shared_for_read_ \ out
    BY <2>1, <2>3, <2>4, <2>8
  <2>12. PolicyInv(policy') /\ policy'.ok
    BY <1>2, <2>1, <2>3
  <2>13. Core'
    BY <1>1, <2>1, <2>3, <2>5, <2>7, <2>9, <2>10, <2>11, <2>12, ChosenCore
  <2> QED
    BY <1>1, <2>1, <2>3, <2>13
<1>4. CASE ~loop.evict_if_full
  <2>1. loop' = [loop EXCEPT !.pc = "alloc"] /\ UNCHANGED <<policy, evict_queue>>
    BY <1>4 DEF EnforceQuota
  <2>2. Core'
    BY <1>1, <2>1, CoreUnchanged
  <2> QED
    BY <1>1, <2>1, <2>2
<1> QED
  BY <1>3, <1>4

(* CreateObject: the new object is its creator's, pinned, and charged to   *)
(* the creator's quota if there is one.                                    *)
LEMMA CreateObjectCore ==
  ASSUME Core, loop.size \in Nat, NEW c \in Clients, c = loop.c,
         NEW id \in ObjectIDs, id = Head(loop.ids), ~Present(id), CreateObject
  PROVE  /\ Core'
         /\ objects' = [objects EXCEPT ![id] =
              [state |-> "CREATED", size |-> loop.size, ref_count |-> 1]]
         /\ object_ids' = [object_ids EXCEPT ![c] = @ \cup {id}]
         /\ Holders(id) = {}
<1> DEFINE e == [state |-> "CREATED", size |-> loop.size, ref_count |-> 1]
           p == BeginObjectAccess(ObjectCreated(policy, id, c, loop.size), id)
<1>1. /\ objects' = [objects EXCEPT ![id] = e] /\ policy' = p
      /\ object_ids' = [object_ids EXCEPT ![c] = @ \cup {id}]
      /\ allocated_' = allocated_ + loop.size /\ allocated_ + loop.size <= Limit
      /\ evict_queue = <<>> /\ UNCHANGED <<deletion_cache_, evict_queue>>
  BY DEF CreateObject, At
<1>2. /\ ObjectInv(id) /\ PolicyInv(policy) /\ policy.ok
      /\ object_ids \in [Clients -> SUBSET ObjectIDs]
      /\ deletion_cache_ \in SUBSET ObjectIDs /\ evict_queue \in Seq(ObjectIDs)
      /\ (deletion_cache_ # {} => "Delete" \in Requests)
      /\ allocated_ \in Nat
  BY DEF Core, CoreType
<1>3. e \in Entry /\ e.state = "CREATED" /\ e.size = loop.size /\ e.ref_count = 1
  BY DEF Entry
<1>4. objects[id] = NoEntry /\ objects[id].size = 0 /\ objects[id].ref_count = 0
  BY DEF Present, NoEntry
<1>5. Holders(id) = {}
  BY <1>4, HoldersFacts
<1>6. ~Unused(id) /\ ~Owned(policy, id) /\ id \notin Keys(policy.cache_)
  BY <1>2, <1>4 DEF Unused, Sealed, NoEntry, ObjectInv, Evictable
<1>7. Created(policy, p, id, c, loop.size)
  BY <1>2, <1>6, CreatedFacts
<1> HIDE DEF p, e
<1>8. /\ PolicyInv(p) /\ (policy.ok => p.ok)
      /\ Keys(p.cache_) = Keys(policy.cache_)
      /\ p.owned_by_client_ = IF HasQuota(policy, c)
                                THEN [policy.owned_by_client_ EXCEPT ![id] = c]
                                ELSE policy.owned_by_client_
      /\ p.shared_for_read_ = IF HasQuota(policy, c) THEN policy.shared_for_read_ \cup {id}
                                                     ELSE policy.shared_for_read_
      /\ \A d \in Clients :
           p.per_client_cache_[d].capacity = policy.per_client_cache_[d].capacity
  BY <1>7 DEF Created
<1>9. /\ objects' \in [ObjectIDs -> Entry] /\ objects'[id] = e
      /\ \A x \in ObjectIDs \ {id} : objects'[x] = objects[x]
  BY <1>1, <1>3, SetEntry
<1>10. /\ object_ids' \in [Clients -> SUBSET ObjectIDs]
       /\ \A d \in Clients : \A x \in ObjectIDs \ {id} :
            x \in object_ids'[d] <=> x \in object_ids[d]
       /\ \A d \in Clients : id \in object_ids'[d] <=> d = c
  <2>1. \A d \in Clients : id \notin object_ids[d]
    BY <1>5 DEF Holders
  <2> QED
    BY <1>1, <1>2, <2>1
<1>11. /\ \A x \in ObjectIDs \ {id} :
            /\ x \in Keys(policy'.cache_) <=> x \in Keys(policy.cache_)
            /\ policy'.owned_by_client_[x] = policy.owned_by_client_[x]
            /\ x \in policy'.shared_for_read_ <=> x \in policy.shared_for_read_
       /\ id \notin Keys(policy'.cache_)
       /\ Owned(policy', id) => /\ policy'.owned_by_client_[id] = c
                                /\ id \in policy'.shared_for_read_
  <2>1. policy.owned_by_client_ \in [ObjectIDs -> Clients \cup {NoClient}]
    BY CoreFields
  <2> QED
    BY <1>1, <1>6, <1>8, <2>1 DEF Owned
<1>12. \A x \in ObjectIDs \ {id} : Same(x)
  BY <1>1, <1>9, <1>10, <1>11 DEF Same
<1>13. ObjectInv(id)'
  <2>1. Holders(id)' = {c} /\ c \in Clients
    BY <1>10 DEF Holders
  <2>2. objects'[id].ref_count = Cardinality(Holders(id)')
    BY <1>3, <1>9, <2>1, FS_Singleton
  <2>3. ~Evictable(id)'
    BY <1>1, <1>11, EmptyFacts DEF Evictable, Owned
  <2>4. ~Unused(id)' /\ Present(id)'
    BY <1>3, <1>9 DEF Unused, Sealed, Present, NoEntry
  <2>5. Owned(policy, id)' => id \in object_ids'[policy'.owned_by_client_[id]]
    BY <1>10, <1>11, <2>1 DEF Owned
  <2>6. objects'[id].state = "CREATED" /\ objects'[id].ref_count = 1
    BY <1>3, <1>9
  <2>7. id \notin ToSet(evict_queue')
    BY <1>1, EmptyFacts
  <2> QED
    BY <2>2, <2>3, <2>4, <2>5, <2>6, <2>7 DEF ObjectInv
<1>14. /\ allocated_' = allocated_ - objects[id].size + objects'[id].size
       /\ allocated_' <= Limit
  BY <1>1, <1>2, <1>3, <1>4, <1>9
<1>15. \A d \in Clients : HasQuota(policy', d) => HasQuota(policy, d)
  BY <1>1, <1>2, <1>8, QuotaFacts
<1>16. PolicyInv(policy') /\ policy'.ok
  BY <1>1, <1>2, <1>8
<1>17. Core'
  BY <1>1, <1>2, <1>9, <1>10, <1>12, <1>13, <1>14, <1>15, <1>16, EmptyFacts, ChangeOne
<1> QED
  BY <1>1, <1>5, <1>17 DEF e

(* AbortObject: without quotas, a created object is unknown to the policy, *)
(* so forgetting it behind the policy's back does no harm.                 *)
LEMMA AbortObjectCore ==
  ASSUME Core, Quotas = {}, NEW id \in ObjectIDs, NEW c \in Clients,
         id \in object_ids[c], objects[id].state = "CREATED",
         AbortObject(id, c), UNCHANGED evict_queue
  PROVE  /\ Core'
         /\ objects' = [objects EXCEPT ![id] = NoEntry]
         /\ object_ids' = [object_ids EXCEPT ![c] = @ \ {id}]
         /\ UNCHANGED policy /\ Holders(id) = {c}
<1>1. /\ EraseFromObjectTable(id) /\ object_ids' = [object_ids EXCEPT ![c] = @ \ {id}]
      /\ UNCHANGED <<policy, deletion_cache_>>
  BY DEF AbortObject
<1>2. /\ ObjectInv(id) /\ PolicyInv(policy) /\ policy.ok /\ evict_queue \in Seq(ObjectIDs)
      /\ IsInjective(evict_queue) /\ \A d \in Clients : ~HasQuota(policy, d)
  BY DEF Core, CoreType
<1>3. Holders(id) = {c}
  BY <1>2, HoldersFacts DEF ObjectInv
<1>4. /\ object_ids' \in [Clients -> SUBSET ObjectIDs]
      /\ \A d \in Clients : \A x \in ObjectIDs \ {id} :
           x \in object_ids'[d] <=> x \in object_ids[d]
      /\ \A d \in Clients : id \in object_ids'[d] <=> d # c /\ id \in object_ids[d]
  BY <1>1, DropHolder
<1>5. \A d \in Clients : id \notin object_ids'[d]
  BY <1>3, <1>4 DEF Holders
<1>6. ~Evictable(id)
  BY <1>2 DEF ObjectInv, Unused, Sealed
<1>7. id \notin Keys(policy.cache_) /\ id \notin ToSet(evict_queue)
  BY <1>6 DEF Evictable
<1>8. ~Owned(policy, id)
  BY <1>2, QuotaFacts, CoreFields
<1>9. Core' /\ objects' = [objects EXCEPT ![id] = NoEntry]
  BY <1>1, <1>2, <1>4, <1>5, <1>7, <1>8, EraseCore
<1> QED
  BY <1>1, <1>3, <1>9

LEMMA SealOneCore ==
  ASSUME Core, NEW id \in ObjectIDs, id = Head(loop.ids),
         objects[id].state = "CREATED", SealOne
  PROVE  /\ Core' /\ ~crashed'
         /\ objects' = [objects EXCEPT ![id].state = "SEALED"]
         /\ objects'[id].state = "SEALED"
         /\ \A x \in ObjectIDs \ {id} : objects'[x] = objects[x]
         /\ UNCHANGED <<object_ids, policy>>
<1> DEFINE e == objects[id]
           f == [e EXCEPT !.state = "SEALED"]
<1>1. /\ objects' = [objects EXCEPT ![id].state = "SEALED"] /\ ~crashed'
      /\ UNCHANGED <<object_ids, policy, deletion_cache_, allocated_, evict_queue>>
  BY DEF SealOne
<1>2. /\ ObjectInv(id) /\ PolicyInv(policy) /\ policy.ok /\ e \in Entry
      /\ object_ids \in [Clients -> SUBSET ObjectIDs]
      /\ deletion_cache_ \in SUBSET ObjectIDs /\ evict_queue \in Seq(ObjectIDs)
      /\ (deletion_cache_ # {} => "Delete" \in Requests)
      /\ allocated_ \in Nat /\ allocated_ <= Limit /\ IsInjective(evict_queue)
      /\ e.size \in Nat
  BY EntryFacts DEF Core, CoreType, AllocatedExact
<1>3. objects' = [objects EXCEPT ![id] = f]
  BY <1>1
<1>4. f \in Entry /\ f.state = "SEALED" /\ f.size = e.size /\ f.ref_count = e.ref_count
  BY <1>2, EntrySealed
<1> HIDE DEF f
<1>5. /\ objects' \in [ObjectIDs -> Entry] /\ objects'[id] = f
      /\ \A x \in ObjectIDs \ {id} : objects'[x] = objects[x]
  BY <1>3, <1>4, SetEntry
<1>6. \A x \in ObjectIDs \ {id} : Same(x)
  BY <1>1, <1>5 DEF Same
<1>7. ObjectInv(id)'
  <2>1. e.ref_count = 1 /\ ~Evictable(id)
    BY <1>2 DEF ObjectInv, Unused, Sealed
  <2>2. ~Unused(id)' /\ Present(id)'
    BY <1>4, <1>5, <2>1 DEF Unused, Present, NoEntry
  <2>3. Holders(id)' = Holders(id) /\ ~Evictable(id)'
    BY <1>1, <2>1 DEF Holders, Evictable, Owned
  <2>4. objects'[id].state = "SEALED" /\ objects'[id].ref_count = Cardinality(Holders(id)')
    BY <1>2, <1>4, <1>5, <2>3 DEF ObjectInv
  <2>5. id \notin ToSet(evict_queue')
    BY <1>1, <2>1 DEF Evictable
  <2> QED
    BY <2>2, <2>3, <2>4, <2>5 DEF ObjectInv
<1>8. allocated_' = allocated_ - objects[id].size + objects'[id].size
  BY <1>1, <1>2, <1>4, <1>5
<1>9. Core'
  BY <1>1, <1>2, <1>5, <1>6, <1>7, <1>8, ChangeOne
<1> QED
  BY <1>1, <1>4, <1>5, <1>9

(* DeleteObject: at once, or when the last user releases the object.       *)
LEMMA DeleteCore ==
  ASSUME Core, NEW c \in Clients, NEW id \in ObjectIDs, DeleteRequest(c, id)
  PROVE  /\ Core'
         /\ \/ UNCHANGED objects
            \/ Unused(id) /\ Holders(id) = {} /\ objects' = [objects EXCEPT ![id] = NoEntry]
         /\ UNCHANGED object_ids
<1>1. /\ "Delete" \in Requests /\ Present(id) /\ evict_queue = <<>>
      /\ UNCHANGED <<object_ids, evict_queue>>
  BY DEF DeleteRequest, Ready, Free
<1>2. /\ ObjectInv(id) /\ PolicyInv(policy) /\ policy.ok
      /\ objects \in [ObjectIDs -> Entry]
      /\ object_ids \in [Clients -> SUBSET ObjectIDs]
      /\ deletion_cache_ \in SUBSET ObjectIDs /\ evict_queue \in Seq(ObjectIDs)
      /\ allocated_ \in Nat /\ allocated_ <= Limit /\ IsInjective(evict_queue)
      /\ objects[id].size \in Nat
  BY EntryFacts DEF Core, CoreType, AllocatedExact
<1>3. CASE Sealed(id) /\ objects[id].ref_count = 0
  <2> DEFINE p == RemoveObject(policy, id)
  <2>1. policy' = p /\ EraseFromObjectTable(id) /\ UNCHANGED deletion_cache_
    BY <1>3 DEF DeleteRequest
  <2>2. Removed(policy, p, id)
    BY <1>2, RemoveFacts
  <2> HIDE DEF p
  <2>3. /\ \A x \in ObjectIDs \ {id} :
           /\ x \in Keys(policy'.cache_) <=> x \in Keys(policy.cache_)
           /\ policy'.owned_by_client_[x] = policy.owned_by_client_[x]
           /\ x \in policy'.shared_for_read_ <=> x \in policy.shared_for_read_
        /\ id \notin Keys(policy'.cache_) /\ ~Owned(policy', id)
    BY <2>1, <2>2, CoreFields DEF Owned, Removed
  <2>4. \A d \in Clients : HasQuota(policy', d) => HasQuota(policy, d)
    BY <1>2, <2>1, <2>2, QuotaFacts DEF Removed
  <2>5. Holders(id) = {}
    BY <1>3, HoldersFacts
  <2>6. \A d \in Clients : id \notin object_ids'[d]
    BY <1>1, <2>5 DEF Holders
  <2>7. PolicyInv(policy') /\ policy'.ok
    BY <1>2, <2>1, <2>2 DEF Removed
  <2>8. Core' /\ objects' = [objects EXCEPT ![id] = NoEntry]
    BY <1>1, <1>2, <2>1, <2>3, <2>4, <2>6, <2>7, EmptyFacts, EraseCore
  <2> QED
    BY <1>1, <1>3, <2>5, <2>8 DEF Unused
<1>4. CASE ~(Sealed(id) /\ objects[id].ref_count = 0)
  <2>1. /\ deletion_cache_' = deletion_cache_ \cup {id}
        /\ UNCHANGED <<policy, objects, allocated_>>
    BY <1>4 DEF DeleteRequest
  <2>2. \A x \in ObjectIDs \ {id} : Same(x)
    BY <1>1, <2>1 DEF Same
  <2>3. ObjectInv(id)'
    <3>1. /\ ~Unused(id)' /\ Holders(id)' = Holders(id) /\ (Evictable(id)' <=> Evictable(id))
          /\ (Owned(policy, id)' <=> Owned(policy, id)) /\ (Present(id)' <=> Present(id))
          /\ ~Unused(id)
      BY <1>1, <1>4, <2>1 DEF Unused, Sealed, Holders, Evictable, Owned, Present
    <3> QED
      BY <1>1, <1>2, <2>1, <3>1 DEF ObjectInv
  <2>4. allocated_' = allocated_ - objects[id].size + objects'[id].size
    BY <1>2, <2>1
  <2>5. Core'
    BY <1>1, <1>2, <2>1, <2>2, <2>3, <2>4, ChangeOne
  <2> QED
    BY <1>1, <2>1, <2>5
<1> QED
  BY <1>3, <1>4

LEMMA RefreshCore ==
  ASSUME Core, NEW c \in Clients, NEW id \in ObjectIDs, RefreshRequest(c, id)
  PROVE  Core'
<1>1. /\ policy' = RefreshObject(policy, id)
      /\ UNCHANGED <<objects, object_ids, deletion_cache_, allocated_, evict_queue>>
  BY DEF RefreshRequest
<1>2. PolicyInv(policy) /\ policy.ok
  BY DEF Core
<1>3. /\ PolicyInv(policy') /\ (policy.ok => policy'.ok)
      /\ Keys(policy'.cache_) = Keys(policy.cache_)
      /\ policy'.owned_by_client_ = policy.owned_by_client_
      /\ policy'.shared_for_read_ = policy.shared_for_read_
      /\ \A d \in Clients :
           policy'.per_client_cache_[d].capacity = policy.per_client_cache_[d].capacity
  BY <1>1, <1>2, RefreshFacts
<1>4. \A d \in Clients : HasQuota(policy', d) => HasQuota(policy, d)
  BY <1>2, <1>3, QuotaFacts
<1>5. Quotas = {} => \A d \in Clients : ~HasQuota(policy', d)
  BY <1>4 DEF Core
<1> QED
  BY <1>1, <1>2, <1>3, <1>5, QuietCore

LEMMA SetOptionsCore ==
  ASSUME Core, NEW c \in Clients, NEW quota \in Quotas, SetOptionsRequest(c, quota)
  PROVE  Core'
<1>1. /\ policy' = SetClientQuota(policy, c, quota)
      /\ UNCHANGED <<objects, object_ids, deletion_cache_, allocated_, evict_queue>>
  BY DEF SetOptionsRequest
<1>2. PolicyInv(policy) /\ policy.ok /\ Limit \in Nat /\ quota \in Nat
  BY LimitAssumption, SizesAssumption DEF Core
<1>3. QuotaSet(policy, policy', c, quota)
  BY <1>1, <1>2, SetQuotaFacts
<1> QED
  BY <1>1, <1>2, <1>3, QuietCore DEF QuotaSet

(* DisconnectClient: the objects the client had not sealed were its alone. *)
LEMMA DisconnectCore ==
  ASSUME Core, NEW c \in Clients, DisconnectClient(c)
  PROVE  /\ Core'
         /\ \A id \in Unsealed(c) : objects[id].state = "CREATED" /\ Holders(id) = {c}
         /\ Unsealed(c) \in SUBSET ObjectIDs
         /\ object_ids' = [object_ids EXCEPT ![c] = @ \ Unsealed(c)]
         /\ objects' = [id \in ObjectIDs |-> IF id \in Unsealed(c) THEN NoEntry
                                                                   ELSE objects[id]]
<1> DEFINE U == Unsealed(c)
           p == ClientDisconnected(policy, c, SizeOf)
           mine == {id \in ObjectIDs : policy.owned_by_client_[id] = c}
<1>1. /\ policy' = p /\ evict_queue = <<>> /\ UNCHANGED <<deletion_cache_, evict_queue>>
      /\ objects' = [id \in ObjectIDs |-> IF id \in U THEN NoEntry ELSE objects[id]]
      /\ allocated_' = allocated_ - Total([id \in U |-> objects[id].size])
      /\ object_ids' = [object_ids EXCEPT ![c] = @ \ U]
  BY DEF DisconnectClient, Free
<1>2. /\ PolicyInv(policy) /\ policy.ok /\ objects \in [ObjectIDs -> Entry]
      /\ object_ids \in [Clients -> SUBSET ObjectIDs]
      /\ deletion_cache_ \in SUBSET ObjectIDs /\ evict_queue \in Seq(ObjectIDs)
      /\ allocated_ \in Nat /\ IsInjective(evict_queue)
      /\ \A id \in ObjectIDs : ObjectInv(id)
  BY DEF Core, CoreType
<1>3. U \in SUBSET ObjectIDs
  BY <1>2 DEF Unsealed
<1>4. \A id \in U : objects[id].state = "CREATED" /\ Holders(id) = {c}
  <2> TAKE id \in U
  <2>1. id \in ObjectIDs /\ id \in object_ids[c] /\ ~Sealed(id)
    BY <1>3 DEF Unsealed
  <2>2. objects[id].ref_count >= 1 /\ objects[id].ref_count \in Nat
    BY <2>1, HoldersFacts
  <2>3. objects[id].state # "ABSENT"
    BY <1>2, <2>1, <2>2 DEF ObjectInv, NoEntry
  <2>4. objects[id].state = "CREATED"
    BY <1>2, <2>1, <2>3, EntryFacts DEF Sealed
  <2>5. objects[id].ref_count = 1
    BY <1>2, <2>1, <2>4 DEF ObjectInv
  <2> QED
    BY <2>1, <2>4, <2>5, HoldersFacts
<1>5. Disconnected(policy, p, c)
  <2>1. ASSUME NEW id \in ObjectIDs, policy.owned_by_client_[id] = c
        PROVE  SizeOf[id] \in Nat
    <3>1. Owned(policy, id)
      BY <2>1, NoClientAssumption DEF Owned
    <3>2. Present(id)
      BY <1>2, <3>1 DEF ObjectInv
    <3> QED
      BY <1>2, <3>2, EntryFacts DEF SizeOf
  <2> QED
    BY <1>2, <2>1, DisconnectedFacts
<1> HIDE DEF p, U
<1>6. /\ PolicyInv(policy') /\ policy'.ok
      /\ Keys(policy'.cache_) = Keys(policy.cache_) \cup (mine \ policy.shared_for_read_)
      /\ \A id \in ObjectIDs : policy'.owned_by_client_[id] =
           IF id \in mine THEN NoClient ELSE policy.owned_by_client_[id]
      /\ policy'.shared_for_read_ = policy.shared_for_read_ \ mine
  BY <1>1, <1>2, <1>5 DEF Disconnected
<1>7. \A d \in Clients : HasQuota(policy', d) => HasQuota(policy, d)
  <2>1. policy'.per_client_cache_ = [policy.per_client_cache_ EXCEPT ![c] = NoQuota]
    BY <1>1, <1>5 DEF Disconnected
  <2>2. policy.per_client_cache_ \in [Clients -> LruType]
    BY <1>2, PolicyFields DEF PolicyInv
  <2> QED
    BY <2>1, <2>2 DEF HasQuota
<1>8. /\ object_ids' \in [Clients -> SUBSET ObjectIDs]
      /\ \A d \in Clients : \A x \in ObjectIDs :
           x \in object_ids'[d] <=> x \in object_ids[d] /\ ~(d = c /\ x \in U)
  BY <1>1, <1>2
<1>9. \A d \in Clients : \A x \in U : x \notin object_ids'[d]
  BY <1>3, <1>4, <1>8 DEF Holders
<1>10. \A d \in Clients : \A x \in ObjectIDs \ U : x \in object_ids'[d] <=> x \in object_ids[d]
  BY <1>8
<1>11. objects' \in [ObjectIDs -> Entry]
  BY <1>1, <1>2, EntryFacts
<1>12. ASSUME NEW id \in U PROVE ObjectInv(id)'
  <2>1. id \in ObjectIDs /\ ObjectInv(id) /\ objects'[id] = NoEntry
    BY <1>1, <1>2, <1>3
  <2>2. ~Unused(id) /\ ~Evictable(id)
    BY <1>4, <2>1 DEF Unused, Sealed, ObjectInv
  <2>3. id \notin Keys(policy.cache_) /\ (Owned(policy, id) => id \in policy.shared_for_read_)
    BY <2>2 DEF Evictable
  <2>4. Owned(policy, id) => policy.owned_by_client_[id] = c
    <3> HAVE Owned(policy, id)
    <3>1. /\ policy.owned_by_client_[id] \in Clients
          /\ id \in object_ids[policy.owned_by_client_[id]]
      BY <1>4, <2>1, CoreFields DEF ObjectInv
    <3>2. policy.owned_by_client_[id] \in Holders(id)
      BY <3>1 DEF Holders
    <3> QED
      BY <1>4, <3>2
  <2>5. ~Owned(policy', id)
    BY <1>6, <2>1, <2>4 DEF Owned
  <2>6. id \notin Keys(policy'.cache_)
    BY <1>6, <2>3, NoClientAssumption DEF Owned
  <2>7. Holders(id)' = {}
    BY <1>9 DEF Holders
  <2>8. Cardinality(Holders(id)') = 0
    BY <2>7, FS_EmptySet
  <2>9. ~Evictable(id)' /\ ~Owned(policy, id)' /\ id \notin ToSet(evict_queue')
    BY <1>1, <2>5, <2>6, EmptyFacts DEF Evictable, Owned
  <2>10. objects'[id].state = "ABSENT" /\ objects'[id].ref_count = 0
    BY <2>1 DEF NoEntry
  <2>11. ~Unused(id)'
    BY <2>10 DEF Unused, Sealed
  <2> QED
    BY <2>1, <2>8, <2>9, <2>10, <2>11 DEF ObjectInv
<1>13. ASSUME NEW id \in ObjectIDs \ U PROVE ObjectInv(id)'
  <2>1. objects'[id] = objects[id] /\ ObjectInv(id)
    BY <1>1, <1>2
  <2>2. CASE id \notin mine
    <3>1. Same(id)
      BY <1>1, <1>6, <1>10, <2>1, <2>2 DEF Same
    <3> QED
      BY <3>1, SameKeepsInv
  <2>3. CASE id \in mine
    <3>1. Owned(policy, id) /\ ~Owned(policy', id)
      BY <1>6, <2>3, NoClientAssumption DEF Owned
    <3>2. id \notin Keys(policy.cache_) /\ id \notin ToSet(evict_queue)
      BY <1>1, <3>1, CoreFields, EmptyFacts
    <3>3. id \in Keys(policy'.cache_) <=> id \notin policy.shared_for_read_
      BY <1>6, <2>3, <3>2
    <3>4. Evictable(id)' <=> Evictable(id)
      BY <1>1, <3>1, <3>2, <3>3 DEF Evictable, Owned
    <3>5. ~Owned(policy, id)' /\ id \notin ToSet(evict_queue')
      BY <1>1, <3>1, <3>2 DEF Owned
    <3>6. /\ Holders(id)' = Holders(id) /\ (Present(id)' <=> Present(id))
          /\ (Unused(id)' <=> Unused(id)) /\ (id \in deletion_cache_' <=> id \in deletion_cache_)
      BY <1>1, <1>10, <2>1 DEF Holders, Present, Unused, Sealed
    <3> QED
      BY <2>1, <3>4, <3>5, <3>6 DEF ObjectInv
  <2> QED
    BY <2>2, <2>3
<1>14. /\ allocated_' = Total([id \in ObjectIDs |-> objects'[id].size])
       /\ allocated_' \in Nat /\ allocated_' <= Limit
  <2> DEFINE f == [id \in ObjectIDs |-> objects[id].size]
             g == [id \in ObjectIDs |-> objects'[id].size]
             R == ObjectIDs \ U
             fU == [id \in U |-> f[id]]
             gU == [id \in U |-> g[id]]
             fR == [id \in R |-> f[id]]
             gR == [id \in R |-> g[id]]
  <2>1. f \in [ObjectIDs -> Nat] /\ g \in [ObjectIDs -> Nat]
    BY <1>2, <1>11, EntryFacts
  <2>2. fU = [id \in U |-> objects[id].size]
    BY <1>3
  <2>3. \A id \in U : g[id] = 0
    BY <1>1, <1>3 DEF NoEntry
  <2>4. \A id \in R : g[id] = f[id]
    BY <1>1
  <2>5. allocated_ = Total(f) /\ allocated_ <= Limit
    BY DEF Core, AllocatedExact
  <2>6. allocated_' = allocated_ - Total(fU)
    BY <1>1, <2>2
  <2> HIDE DEF f, g
  <2>7. gR = fR /\ \A id \in DOMAIN gU : gU[id] = 0
    BY <2>3, <2>4
  <2>8. Total(fU) \in Nat /\ Total(f) = Total(fU) + Total(fR)
    BY <1>3, <2>1, FiniteAssumption, TotalSubset
  <2>9. Total(gU) \in Nat /\ Total(g) = Total(gU) + Total(gR) /\ Total(g) \in Nat
    BY <1>3, <2>1, FiniteAssumption, TotalSubset, TotalType
  <2>10. Total(gU) = 0
    BY <2>7, TotalZero
  <2>11. Total(gR) = Total(fR)
    BY <2>7
  <2>12. Total(fR) \in Nat
    <3>1. fR \in [R -> Nat] /\ IsFiniteSet(R)
      BY <2>1, FiniteAssumption, FS_Subset
    <3> QED
      BY <3>1, TotalType
  <2> HIDE DEF fU, gU, fR, gR
  <2>13. allocated_' = Total(g) /\ allocated_' \in Nat /\ allocated_' <= Limit
    BY <2>5, <2>6, <2>8, <2>9, <2>10, <2>11, <2>12, LimitAssumption
  <2> QED
    BY <2>13 DEF g
<1>15. Core'
  <2>1. \A id \in ObjectIDs : ObjectInv(id)'
    BY <1>12, <1>13
  <2>2. AllocatedExact'
    BY <1>14 DEF AllocatedExact
  <2>3. (Quotas = {} => \A d \in Clients : ~HasQuota(policy, d))'
    BY <1>7 DEF Core
  <2>4. CoreType'
    BY <1>1, <1>2, <1>8, <1>11, <1>14 DEF CoreType
  <2>5. (deletion_cache_ # {} => "Delete" \in Requests)' /\ IsInjective(evict_queue)'
    BY <1>1, <1>2 DEF Core
  <2>6. PolicyInv(policy)' /\ policy'.ok
    BY <1>6
  <2> QED
    BY <2>1, <2>2, <2>3, <2>4, <2>5, <2>6 DEF Core
<1> QED
  BY <1>1, <1>3, <1>4, <1>15 DEF U

------------------------------------------------------------------------------
(* The invariant: the handler in progress.                                 *)

LoopType ==
  [pc : {"idle", "exists", "quota", "alloc", "abort", "oom", "seal", "update",
         "release", "get", "disconnect"},
   c : Clients \cup {NoClient}, ids : Seq(ObjectIDs), all : Seq(ObjectIDs),
   size : Nat, evict_if_full : BOOLEAN, seal : BOOLEAN, ask : Seq(ObjectIDs),
   index : Nat, left : Nat]

GetType ==
  [ids : Seq(ObjectIDs), num_satisfied : Nat, timeout : Int, timer : BOOLEAN,
   at_peer : SUBSET ObjectIDs]

RestType ==
  /\ connected \in SUBSET Clients
  /\ get_reqs \in [Clients -> GetType]
  /\ object_get_requests_ \in [ObjectIDs -> Seq(Clients)]
  /\ loop \in LoopType
  /\ remote \in [Clients -> SUBSET ObjectIDs]
  /\ crashed \in BOOLEAN

(* The client of the handler in progress uses the object, or has created   *)
(* it and not sealed it yet.                                               *)
Held(id) == id \in object_ids[loop.c]

Mine(id) == Held(id) /\ objects[id].state = "CREATED"

(* How many of the objects of a Create have been created.                  *)
Done == Len(loop.all) - Len(loop.ids)

Creating ==
  /\ loop.ids # <<>> /\ Done >= 0
  /\ \A i \in 1 .. Len(loop.ids) : loop.ids[i] = loop.all[Done + i]
  /\ \A i \in 1 .. Done : Mine(loop.all[i])
  /\ \A i, j \in 1 .. Done : loop.all[i] = loop.all[j] => i = j
  /\ loop.size \in Sizes /\ loop.evict_if_full \in EvictIfFull
  /\ Quotas # {} => Len(loop.all) = 1

(* ids are the objects to abort.                                           *)
Aborting ==
  /\ IsInjective(loop.ids)
  /\ \A id \in ToSet(loop.ids) : Mine(id)
  /\ Quotas # {} => loop.ids = <<>>

(* ids are the objects of the request that are not sealed yet.             *)
Sealing ==
  /\ loop.ids # <<>> /\ IsInjective(loop.ids)
  /\ loop.all # <<>> /\ IsInjective(loop.all)
  /\ ToSet(loop.ids) \subseteq ToSet(loop.all)
  /\ \A id \in ToSet(loop.all) :
       /\ Held(id)
       /\ objects[id].state = IF id \in ToSet(loop.ids) THEN "CREATED" ELSE "SEALED"

Updating ==
  /\ loop.ids # <<>> /\ IsInjective(loop.ids) /\ loop.index >= 1
  /\ loop.all # <<>> /\ IsInjective(loop.all)
  /\ ToSet(loop.ids) \subseteq ToSet(loop.all)
  /\ \A id \in ToSet(loop.all) : Held(id) /\ Sealed(id)

Releasing ==
  /\ loop.ids # <<>> /\ IsInjective(loop.ids)
  /\ \A id \in ToSet(loop.ids) : Held(id) /\ Sealed(id)

LoopInv ==
  /\ loop.pc = "idle" => loop = Idle
  /\ loop.pc # "idle" => loop.c \in Clients
  /\ loop.pc \in {"exists", "quota", "alloc"} => Creating
  /\ loop.pc \in {"quota", "alloc"} => ~Present(Head(loop.ids))
  /\ loop.pc \in {"abort", "oom"} => Aborting
  /\ loop.pc = "seal" => Sealing
  /\ loop.pc = "update" => Updating
  /\ loop.pc = "release" => Releasing
  /\ loop.pc = "disconnect" => \A id \in object_ids[loop.c] : Sealed(id)
  /\ OutOfMemoryMeansInUse

IInv == Core /\ RestType /\ LoopInv

LEMMA LoopFields ==
  ASSUME NEW l \in LoopType
  PROVE  /\ l.ids \in Seq(ObjectIDs) /\ l.all \in Seq(ObjectIDs) /\ l.ask \in Seq(ObjectIDs)
         /\ l.size \in Nat /\ l.index \in Nat /\ l.left \in Nat
         /\ l.evict_if_full \in BOOLEAN /\ l.seal \in BOOLEAN
         /\ l.c \in Clients \cup {NoClient}
  BY DEF LoopType

LEMMA IdleLoop == Idle \in LoopType /\ Idle.pc = "idle"
  BY EmptyFacts DEF Idle, LoopType

(* A handler that is done, or has not begun.                               *)
LEMMA LoopIdle ==
  ASSUME loop' = Idle PROVE LoopInv'
  BY IdleLoop DEF LoopInv, OutOfMemoryMeansInUse

LEMMA InitIInv == ASSUME Init PROVE IInv
<1>1. /\ objects = [id \in ObjectIDs |-> NoEntry] /\ object_ids = [c \in Clients |-> {}]
      /\ connected = {} /\ deletion_cache_ = {} /\ get_reqs = [c \in Clients |-> NoRequest]
      /\ object_get_requests_ = [id \in ObjectIDs |-> <<>>] /\ policy = InitialPolicy
      /\ allocated_ = 0 /\ evict_queue = <<>> /\ loop = Idle
      /\ remote = [c \in Clients |-> {}] /\ crashed = FALSE
  BY DEF Init
<1>2. NoRequest \in GetType
  BY EmptyFacts DEF NoRequest, GetType
<1>3. RestType
  BY <1>1, <1>2, EmptyFacts, IdleLoop DEF RestType
<1>4. LoopInv
  BY <1>1, IdleLoop DEF LoopInv, OutOfMemoryMeansInUse
<1>5. CoreType
  BY <1>1, EntryFacts, EmptyFacts DEF CoreType
<1>6. /\ PolicyInv(policy) /\ policy.ok /\ Keys(policy.cache_) = {}
      /\ \A id \in ObjectIDs : ~Owned(policy, id)
      /\ \A c \in Clients : ~HasQuota(policy, c)
  BY <1>1, LimitAssumption, InitialPolicyInv
<1>7. \A id \in ObjectIDs : ObjectInv(id)
  <2> TAKE id \in ObjectIDs
  <2>1. Holders(id) = {}
    BY <1>1 DEF Holders
  <2>2. Cardinality(Holders(id)) = 0
    BY <2>1, FS_EmptySet
  <2>3. /\ objects[id] = NoEntry /\ objects[id].state = "ABSENT"
        /\ objects[id].ref_count = 0
    BY <1>1 DEF NoEntry
  <2>4. ~Evictable(id) /\ ~Unused(id)
    BY <1>1, <1>6, <2>3, EmptyFacts DEF Evictable, Unused, Sealed
  <2>5. id \notin deletion_cache_ /\ id \notin ToSet(evict_queue)
    BY <1>1, EmptyFacts
  <2> QED
    BY <1>6, <2>2, <2>3, <2>4, <2>5 DEF ObjectInv
<1>8. AllocatedExact
  <2> DEFINE f == [id \in ObjectIDs |-> objects[id].size]
  <2>1. \A x \in DOMAIN f : f[x] = 0
    BY <1>1 DEF NoEntry
  <2> HIDE DEF f
  <2>2. Total(f) = 0
    BY <2>1, TotalZero
  <2>3. allocated_ = Total(f)
    BY <1>1, <2>2
  <2> QED
    BY <1>1, <2>3, LimitAssumption DEF AllocatedExact, f
<1>9. Core
  BY <1>1, <1>5, <1>6, <1>7, <1>8, EmptyFacts DEF Core
<1> QED
  BY <1>3, <1>4, <1>9 DEF IInv

LEMMA UnlistedType ==
  ASSUME RestType, NEW c
  PROVE  Unlisted(c) \in [ObjectIDs -> Seq(Clients)]
<1> SUFFICES ASSUME NEW id \in ObjectIDs
             PROVE  LET list == object_get_requests_[id]
                    IN  Pick(list, {i \in DOMAIN list : list[i] # c}) \in Seq(Clients)
  BY DEF Unlisted
<1> DEFINE list == object_get_requests_[id]
           I == {i \in DOMAIN list : list[i] # c}
<1>1. list \in Seq(Clients) /\ I \in SUBSET DOMAIN list
  BY DEF RestType
<1> HIDE DEF list, I
<1>2. Pick(list, I) \in Seq(Clients)
  BY <1>1, PickSeq
<1> QED
  BY <1>2 DEF list, I

------------------------------------------------------------------------------
(* Every step preserves the invariant: requests handled in one step.       *)

LEMMA RestFrame ==
  ASSUME RestType, UNCHANGED <<connected, get_reqs, object_get_requests_, remote>>,
         loop' \in LoopType, crashed' \in BOOLEAN
  PROVE  RestType'
  BY DEF RestType

LEMMA AbortRequestInv ==
  ASSUME IInv, QuotasStayExact, NEW c \in Clients, NEW id \in ObjectIDs, AbortRequest(c, id)
  PROVE  IInv'
<1>1. /\ "Abort" \in Requests /\ id \in object_ids[c] /\ objects[id].state = "CREATED"
      /\ AbortObject(id, c) /\ loop = Idle
      /\ UNCHANGED <<evict_queue, connected, get_reqs, object_get_requests_, loop, remote,
                     crashed>>
  BY DEF AbortRequest, Ready, Free
<1>2. Quotas = {}
  BY <1>1 DEF QuotasStayExact
<1>3. Core'
  BY <1>1, <1>2, AbortObjectCore DEF IInv
<1>4. RestType'
  BY <1>1, RestFrame DEF IInv, RestType
<1> QED
  BY <1>1, <1>3, <1>4, LoopIdle DEF IInv

LEMMA ReleaseRequestInv ==
  ASSUME IInv, LocalReleases, QuotasStayExact, NEW c \in Clients, NEW id \in ObjectIDs,
         ReleaseRequest(c, id)
  PROVE  IInv'
<1>1. /\ id \in object_ids[c] /\ Sealed(id) /\ RemoveFromClientObjectIds(id, c)
      /\ loop = Idle /\ evict_queue = <<>>
      /\ remote' = [remote EXCEPT ![c] = @ \ {id}]
      /\ UNCHANGED <<connected, get_reqs, object_get_requests_, evict_queue, loop>>
  BY DEF ReleaseRequest, Ready, Free, LocalReleases
<1>2. Core' /\ ~crashed'
  BY <1>1, DropRefCore DEF IInv
<1>3. crashed' \in BOOLEAN
  BY <1>1 DEF RemoveFromClientObjectIds
<1>4. RestType'
  BY <1>1, <1>3 DEF IInv, RestType
<1> QED
  BY <1>1, <1>2, <1>4, LoopIdle DEF IInv

LEMMA DeleteRequestInv ==
  ASSUME IInv, NEW c \in Clients, NEW id \in ObjectIDs, DeleteRequest(c, id)
  PROVE  IInv'
<1>1. /\ loop = Idle
      /\ UNCHANGED <<connected, get_reqs, object_get_requests_, loop, remote, crashed>>
  BY DEF DeleteRequest, Ready, Free
<1>2. Core'
  BY DeleteCore DEF IInv
<1>3. RestType'
  BY <1>1, RestFrame DEF IInv, RestType
<1> QED
  BY <1>1, <1>2, <1>3, LoopIdle DEF IInv

LEMMA EvictRequestInv ==
  ASSUME IInv, NEW c \in Clients, NEW n \in EvictBytes, EvictRequest(c, n)
  PROVE  IInv'
<1>1. /\ loop = Idle
      /\ UNCHANGED <<connected, get_reqs, object_get_requests_, loop, remote, crashed>>
  BY DEF EvictRequest, Ready, Free
<1>2. Core'
  BY EvictRequestCore DEF IInv
<1>3. RestType'
  BY <1>1, RestFrame DEF IInv, RestType
<1> QED
  BY <1>1, <1>2, <1>3, LoopIdle DEF IInv

LEMMA RefreshRequestInv ==
  ASSUME IInv, NEW c \in Clients, NEW id \in ObjectIDs, RefreshRequest(c, id)
  PROVE  IInv'
<1>1. /\ loop = Idle
      /\ UNCHANGED <<connected, get_reqs, object_get_requests_, loop, remote, crashed>>
  BY DEF RefreshRequest, Ready, Free
<1>2. Core'
  BY RefreshCore DEF IInv
<1>3. RestType'
  BY <1>1, RestFrame DEF IInv, RestType
<1> QED
  BY <1>1, <1>2, <1>3, LoopIdle DEF IInv

LEMMA SetOptionsInv ==
  ASSUME IInv, NEW c \in Clients, NEW q \in Quotas, SetOptionsRequest(c, q)
  PROVE  IInv'
<1>1. /\ loop = Idle
      /\ UNCHANGED <<connected, get_reqs, object_get_requests_, loop, remote, crashed>>
  BY DEF SetOptionsRequest, Ready, Free
<1>2. Core'
  BY SetOptionsCore DEF IInv
<1>3. RestType'
  BY <1>1, RestFrame DEF IInv, RestType
<1> QED
  BY <1>1, <1>2, <1>3, LoopIdle DEF IInv

LEMMA ConnectInv ==
  ASSUME IInv, NEW c \in Clients, ConnectClient(c)
  PROVE  IInv'
<1>1. /\ loop = Idle /\ connected' = connected \cup {c}
      /\ UNCHANGED <<objects, object_ids, deletion_cache_, policy, allocated_, evict_queue,
                     get_reqs, object_get_requests_, loop, remote, crashed>>
  BY DEF ConnectClient, Free
<1>2. Core'
  BY <1>1, CoreUnchanged DEF IInv
<1>3. RestType'
  BY <1>1 DEF IInv, RestType
<1> QED
  BY <1>1, <1>2, <1>3, LoopIdle DEF IInv

(* The types of what ReturnFromGet leaves.                                 *)
LEMMA ReturnType ==
  ASSUME RestType, NEW c \in Clients, NEW req, req.at_peer \in SUBSET ObjectIDs,
         ReturnFromGet(c, req)
  PROVE  /\ get_reqs' \in [Clients -> GetType]
         /\ object_get_requests_' \in [ObjectIDs -> Seq(Clients)]
         /\ remote' \in [Clients -> SUBSET ObjectIDs]
<1>1. NoRequest \in GetType
  BY EmptyFacts DEF NoRequest, GetType
<1>2. get_reqs' \in [Clients -> GetType]
  BY <1>1 DEF ReturnFromGet, RestType
<1>3. object_get_requests_' \in [ObjectIDs -> Seq(Clients)]
  BY UnlistedType DEF ReturnFromGet
<1>4. remote' \in [Clients -> SUBSET ObjectIDs]
  BY DEF ReturnFromGet, RestType
<1> QED
  BY <1>2, <1>3, <1>4

LEMMA GetFields ==
  ASSUME NEW r \in GetType
  PROVE  /\ r.ids \in Seq(ObjectIDs) /\ r.num_satisfied \in Nat /\ r.timeout \in Int
         /\ r.timer \in BOOLEAN /\ r.at_peer \in SUBSET ObjectIDs
  BY DEF GetType

LEMMA TimerFiresInv ==
  ASSUME IInv, NEW c \in Clients, TimerFires(c)
  PROVE  IInv'
<1>1. /\ loop = Idle /\ ReturnFromGet(c, get_reqs[c])
      /\ UNCHANGED <<objects, object_ids, connected, deletion_cache_, policy, allocated_,
                     evict_queue, loop, crashed>>
  BY DEF TimerFires, Free
<1>2. Core'
  BY <1>1, CoreUnchanged DEF IInv
<1>3. get_reqs[c].at_peer \in SUBSET ObjectIDs
  BY GetFields DEF IInv, RestType
<1>4. RestType'
  BY <1>1, <1>3, ReturnType DEF IInv, RestType
<1> QED
  BY <1>1, <1>2, <1>4, LoopIdle DEF IInv

------------------------------------------------------------------------------
(* Creating objects.                                                       *)

(* The handler stays where it is, and so does what it goes by.             *)
LEMMA LoopFrame ==
  ASSUME CoreType, RestType, LoopInv, UNCHANGED loop,
         loop.c \in Clients => object_ids'[loop.c] = object_ids[loop.c],
         \A x \in ObjectIDs : loop.c \in Clients /\ Held(x) =>
           objects'[x].state = objects[x].state,
         \A x \in ObjectIDs : ~Present(x) => ~Present(x)',
         policy.cache_.items = <<>> => policy'.cache_.items = <<>>
  PROVE  LoopInv'
<1>1. loop.ids \in Seq(ObjectIDs) /\ loop.all \in Seq(ObjectIDs)
  BY LoopFields DEF RestType
<1>2. CASE loop.c \notin Clients
  BY <1>2, LoopIdle DEF LoopInv
<1>3. CASE loop.c \in Clients
  <2>1. \A x : Held(x) => Held(x)'
    BY <1>3 DEF Held
  <2>2. \A x \in ObjectIDs : Held(x) => objects'[x].state = objects[x].state
    BY <1>3
  <2>3. \A x \in ObjectIDs : /\ Mine(x) => Mine(x)'
                             /\ Held(x) /\ Sealed(x) => Sealed(x)'
    BY <2>1, <2>2 DEF Mine, Sealed
  <2>4. ASSUME Creating PROVE Creating'
    <3>1. \A i \in 1 .. Done : i \in 1 .. Len(loop.all)
      BY <1>1, <2>4, LenProperties DEF Done, Creating
    <3>2. \A i \in 1 .. Done : loop.all[i] \in ObjectIDs
      BY <1>1, <3>1, ElementOfSeq
    <3>3. \A i \in 1 .. Done : Mine(loop.all[i])'
      BY <2>3, <2>4, <3>2 DEF Creating
    <3>4. Done' = Done
      BY DEF Done
    <3> QED
      BY <2>4, <3>3, <3>4 DEF Creating
  <2>5. ASSUME loop.ids # <<>>, ~Present(Head(loop.ids)) PROVE ~Present(Head(loop.ids))'
    BY <1>1, <2>5, TailFacts
  <2>6. ASSUME Aborting PROVE Aborting'
    BY <1>1, <2>3, <2>6, ToSetFacts DEF Aborting
  <2>7. ASSUME Sealing PROVE Sealing'
    <3>1. \A id \in ToSet(loop.all) : id \in ObjectIDs
      BY <1>1, ToSetFacts
    <3> QED
      BY <2>1, <2>2, <2>7, <3>1 DEF Sealing
  <2>8. ASSUME Updating PROVE Updating'
    BY <1>1, <2>1, <2>3, <2>8, ToSetFacts DEF Updating
  <2>9. ASSUME Releasing PROVE Releasing'
    BY <1>1, <2>1, <2>3, <2>9, ToSetFacts DEF Releasing
  <2>10. ASSUME \A id \in object_ids[loop.c] : Sealed(id), loop.pc = "disconnect"
         PROVE  (\A id \in object_ids[loop.c] : Sealed(id))'
    <3>1. \A id \in object_ids[loop.c] : id \in ObjectIDs => Sealed(id)'
      BY <2>3, <2>10 DEF Held
    <3>2. object_ids[loop.c] \subseteq ObjectIDs
      BY <1>3 DEF CoreType
    <3> QED
      BY <1>3, <3>1, <3>2
  <2> QED
    BY <2>4, <2>5, <2>6, <2>7, <2>8, <2>9, <2>10 DEF LoopInv, OutOfMemoryMeansInUse, Creating
<1> QED
  BY <1>2, <1>3

LEMMA EvictOneInv ==
  ASSUME IInv, EvictOne
  PROVE  IInv' /\ ~crashed'
<1>1. UNCHANGED <<connected, get_reqs, object_get_requests_, loop, remote>>
  BY DEF EvictOne
<1> DEFINE id == Head(evict_queue)
<1>2. /\ Core' /\ ~crashed'
      /\ id \in ObjectIDs /\ Unused(id) /\ Holders(id) = {}
      /\ objects' = [objects EXCEPT ![id] = NoEntry]
      /\ UNCHANGED <<object_ids, policy>>
  BY EvictOneCore DEF IInv
<1> HIDE DEF id
<1>3. \A x \in ObjectIDs : /\ x # id => objects'[x] = objects[x]
                           /\ ~Present(x) => ~Present(x)'
  BY <1>2 DEF Present, IInv, Core, CoreType
<1>4. \A x \in ObjectIDs : loop.c \in Clients /\ Held(x) => x # id
  BY <1>2 DEF Held, Holders
<1>5. LoopInv'
  BY <1>1, <1>2, <1>3, <1>4, LoopFrame DEF IInv, Core
<1>6. crashed' \in BOOLEAN
  BY DEF EvictOne
<1>7. RestType'
  BY <1>1, <1>6, RestFrame DEF IInv, RestType
<1> QED
  BY <1>2, <1>5, <1>7 DEF IInv

(* A Create, alone or in a batch, begins.                                  *)
LEMMA CreateBegins ==
  ASSUME IInv, NEW ids \in Seq(ObjectIDs) \ {<<>>}, Quotas # {} => Len(ids) = 1,
         loop' \in LoopType, loop'.pc = "exists", loop'.c \in Clients,
         loop'.ids = ids, loop'.all = ids, loop'.size \in Sizes,
         loop'.evict_if_full \in EvictIfFull,
         UNCHANGED <<objects, object_ids, connected, deletion_cache_, get_reqs,
                     object_get_requests_, policy, allocated_, evict_queue, remote,
                     crashed>>
  PROVE  IInv'
<1>1. Core'
  BY CoreUnchanged DEF IInv
<1>2. RestType'
  BY RestFrame DEF IInv, RestType
<1>3. Len(ids) \in Nat
  BY LenProperties
<1>4. Done' = 0
  BY <1>3 DEF Done
<1>5. Creating'
  BY <1>3, <1>4 DEF Creating
<1>6. LoopInv'
  BY <1>5 DEF LoopInv, OutOfMemoryMeansInUse
<1> QED
  BY <1>1, <1>2, <1>6 DEF IInv

LEMMA CreateRequestInv ==
  ASSUME IInv, NEW c \in Clients, NEW id \in ObjectIDs, NEW n \in Sizes,
         NEW e \in EvictIfFull, CreateRequest(c, id, n, e)
  PROVE  IInv'
<1>1. <<id>> \in Seq(ObjectIDs) \ {<<>>} /\ Len(<<id>>) = 1
  OBVIOUS
<1>2. n \in Nat /\ e \in BOOLEAN
  BY SizesAssumption, FlagsAssumption
<1>3. loop' = [pc |-> "exists", c |-> c, ids |-> <<id>>, all |-> <<id>>, size |-> n,
               evict_if_full |-> e, seal |-> FALSE, ask |-> <<>>, index |-> 0, left |-> 0]
  BY DEF CreateRequest, Idle
<1>4. loop' \in LoopType
  BY <1>1, <1>2, <1>3, EmptyFacts DEF LoopType
<1>5. /\ loop'.pc = "exists" /\ loop'.c = c /\ loop'.ids = <<id>> /\ loop'.all = <<id>>
      /\ loop'.size = n /\ loop'.evict_if_full \in EvictIfFull
  BY <1>3
<1>6. UNCHANGED <<objects, object_ids, connected, deletion_cache_, get_reqs,
                  object_get_requests_, policy, allocated_, evict_queue, remote, crashed>>
  BY DEF CreateRequest
<1> QED
  BY <1>1, <1>4, <1>5, <1>6, CreateBegins

LEMMA CreateAndSealRequestInv ==
  ASSUME IInv, QuotasStayExact, NEW c \in Clients, NEW ids \in CreateLists, NEW n \in Sizes,
         NEW e \in EvictIfFull, CreateAndSealRequest(c, ids, n, e)
  PROVE  IInv'
<1>1. ids \in Seq(ObjectIDs) \ {<<>>} /\ (Quotas # {} => Len(ids) = 1)
  BY ListsAssumption DEF QuotasStayExact
<1>2. n \in Nat /\ e \in BOOLEAN
  BY SizesAssumption, FlagsAssumption
<1>3. loop' = [pc |-> "exists", c |-> c, ids |-> ids, all |-> ids, size |-> n,
               evict_if_full |-> e, seal |-> TRUE, ask |-> <<>>, index |-> 0, left |-> 0]
  BY DEF CreateAndSealRequest, Idle
<1>4. loop' \in LoopType
  BY <1>1, <1>2, <1>3, EmptyFacts DEF LoopType
<1>5. /\ loop'.pc = "exists" /\ loop'.c = c /\ loop'.ids = ids /\ loop'.all = ids
      /\ loop'.size = n /\ loop'.evict_if_full \in EvictIfFull
  BY <1>3
<1>6. UNCHANGED <<objects, object_ids, connected, deletion_cache_, get_reqs,
                  object_get_requests_, policy, allocated_, evict_queue, remote, crashed>>
  BY DEF CreateAndSealRequest
<1> QED
  BY <1>1, <1>4, <1>5, <1>6, CreateBegins

(* CreateObject fails: what is left is to abort what was created.          *)
LEMMA FailFacts ==
  ASSUME RestType, Creating, NEW pc \in {"abort", "oom"}, loop' = Fail(pc),
         UNCHANGED <<objects, object_ids>>
  PROVE  /\ loop' \in LoopType /\ loop'.pc = pc /\ loop'.c = loop.c
         /\ loop'.evict_if_full = loop.evict_if_full
         /\ Aborting'
<1>1. /\ loop \in LoopType /\ loop.ids \in Seq(ObjectIDs) /\ loop.all \in Seq(ObjectIDs)
      /\ loop.ids # <<>>
  BY LoopFields DEF RestType, Creating
<1>2. Len(loop.ids) \in Nat \ {0} /\ Len(loop.all) \in Nat
  BY <1>1, TailFacts, LenProperties
<1> DEFINE new == SubSeq(loop.all, 1, Done)
<1>3. Done \in Nat /\ Done <= Len(loop.all)
  <2> DEFINE a == Len(loop.all)
             b == Len(loop.ids)
  <2>1. a - b >= 0 /\ a \in Nat /\ b \in Nat
    BY <1>2 DEF Creating, Done
  <2> HIDE DEF a, b
  <2>2. a - b \in Nat /\ a - b <= a
    BY <2>1
  <2> QED
    BY <2>2 DEF Done, a, b
<1>4. new \in Seq(ObjectIDs)
  BY <1>1, <1>3, ElementOfSeq
<1>5. Len(new) = Done /\ \A i \in 1 .. Done : new[i] = loop.all[i]
  BY <1>1, <1>3, ElementOfSeq
<1>6. DOMAIN new = 1 .. Done
  BY <1>4, <1>5, LenProperties
<1>7. loop' = [loop EXCEPT !.pc = pc, !.ids = new]
  BY DEF Fail, Done
<1> HIDE DEF new
<1>8. /\ loop'.pc = pc /\ loop'.c = loop.c /\ loop'.ids = new
      /\ loop'.evict_if_full = loop.evict_if_full
  BY <1>1, <1>7 DEF LoopType
<1>9. loop' \in LoopType
  BY <1>1, <1>4, <1>7 DEF LoopType
<1>10. IsInjective(new)
  BY <1>5, <1>6 DEF IsInjective, Creating
<1>11. \A id \in ToSet(new) : Mine(id)
  BY <1>5, <1>6 DEF ToSet, Creating
<1>12. \A id : Mine(id) => Mine(id)'
  BY <1>8 DEF Mine, Held
<1>13. Quotas # {} => new = <<>>
  <2> SUFFICES ASSUME Quotas # {} PROVE new = <<>>
    OBVIOUS
  <2>1. Done = 0
    BY <1>2, <1>3 DEF Creating, Done
  <2> QED
    BY <1>4, <1>5, <2>1, EmptySeq
<1>14. Aborting'
  BY <1>8, <1>10, <1>11, <1>12, <1>13 DEF Aborting
<1> QED
  BY <1>8, <1>9, <1>14

LEMMA FailInv ==
  ASSUME RestType, Creating, loop.c \in Clients, NEW pc \in {"abort", "oom"},
         loop' = Fail(pc), UNCHANGED <<objects, object_ids>>,
         pc = "oom" /\ loop.evict_if_full => policy'.cache_.items = <<>>
  PROVE  LoopInv' /\ loop' \in LoopType
<1>1. /\ loop' \in LoopType /\ loop'.pc = pc /\ loop'.c = loop.c
      /\ loop'.evict_if_full = loop.evict_if_full /\ Aborting'
  BY FailFacts
<1>2. OutOfMemoryMeansInUse'
  BY <1>1 DEF OutOfMemoryMeansInUse
<1> QED
  BY <1>1, <1>2 DEF LoopInv

(* CreateObject goes on, for the same object.                              *)
LEMMA CreateGoesOn ==
  ASSUME RestType, Creating, loop.c \in Clients, NEW pc \in {"quota", "alloc"},
         ~Present(Head(loop.ids)), loop' = [loop EXCEPT !.pc = pc],
         UNCHANGED <<objects, object_ids>>
  PROVE  LoopInv' /\ loop' \in LoopType
<1>1. loop \in LoopType
  BY DEF RestType
<1>2. /\ loop' \in LoopType
      /\ loop'.pc = pc /\ loop'.c = loop.c /\ loop'.ids = loop.ids /\ loop'.all = loop.all
      /\ loop'.size = loop.size /\ loop'.evict_if_full = loop.evict_if_full
  BY <1>1 DEF LoopType
<1>3. \A id : Mine(id) => Mine(id)'
  BY <1>2 DEF Mine, Held
<1>4. Done' = Done
  BY <1>2 DEF Done
<1>5. Creating'
  BY <1>2, <1>3, <1>4 DEF Creating
<1>6. (~Present(Head(loop.ids)))'
  BY <1>2 DEF Present
<1> QED
  BY <1>2, <1>5, <1>6 DEF LoopInv, OutOfMemoryMeansInUse

LEMMA ObjectExistsInv ==
  ASSUME IInv, NEW answer \in PeerAnswers, ObjectExists(answer)
  PROVE  IInv'
<1>1. /\ loop.pc = "exists" /\ crashed' \in BOOLEAN
      /\ UNCHANGED <<objects, object_ids, connected, deletion_cache_, get_reqs,
                     object_get_requests_, policy, allocated_, evict_queue, remote>>
  BY DEF ObjectExists, At
<1>2. RestType /\ Creating /\ loop.c \in Clients
  BY <1>1 DEF IInv, LoopInv
<1>3. Core'
  BY <1>1, CoreUnchanged DEF IInv
<1>4. CASE loop' = Fail("abort")
  <2>1. LoopInv' /\ loop' \in LoopType
    BY <1>1, <1>2, <1>4, FailInv
  <2>2. RestType'
    BY <1>1, <1>2, <2>1, RestFrame
  <2> QED
    BY <1>3, <2>1, <2>2 DEF IInv
<1>5. CASE ~Present(Head(loop.ids)) /\ loop' = [loop EXCEPT !.pc = "quota"]
  <2>1. LoopInv' /\ loop' \in LoopType
    BY <1>1, <1>2, <1>5, CreateGoesOn
  <2>2. RestType'
    BY <1>1, <1>2, <2>1, RestFrame
  <2> QED
    BY <1>3, <2>1, <2>2 DEF IInv
<1> QED
  BY <1>4, <1>5 DEF ObjectExists

LEMMA EnforceQuotaInv ==
  ASSUME IInv, EnforceQuota
  PROVE  IInv'
<1>1. /\ loop.pc = "quota"
      /\ UNCHANGED <<connected, get_reqs, object_get_requests_, remote, crashed>>
  BY DEF EnforceQuota, At
<1>2. /\ RestType /\ Creating /\ loop.c \in Clients /\ ~Present(Head(loop.ids))
      /\ loop \in LoopType
  BY <1>1 DEF IInv, LoopInv, RestType
<1>3. loop.size \in Nat
  BY <1>2, LoopFields
<1>4. /\ Core' /\ UNCHANGED <<objects, object_ids>>
      /\ loop' = [loop EXCEPT !.pc = "alloc"] \/ loop' = Fail("abort")
  BY <1>2, <1>3, EnforceQuotaCore DEF IInv
<1>5. CASE loop' = Fail("abort")
  <2>1. LoopInv' /\ loop' \in LoopType
    BY <1>2, <1>4, <1>5, FailInv
  <2>2. RestType'
    BY <1>1, <1>2, <2>1, RestFrame DEF RestType
  <2> QED
    BY <1>4, <2>1, <2>2 DEF IInv
<1>6. CASE loop' = [loop EXCEPT !.pc = "alloc"]
  <2>1. LoopInv' /\ loop' \in LoopType
    BY <1>2, <1>4, <1>6, CreateGoesOn
  <2>2. RestType'
    BY <1>1, <1>2, <2>1, RestFrame DEF RestType
  <2> QED
    BY <1>4, <2>1, <2>2 DEF IInv
<1> QED
  BY <1>4, <1>5, <1>6

LEMMA MakeRoomInv ==
  ASSUME IInv, MakeRoom
  PROVE  IInv'
<1>1. /\ loop.pc = "alloc"
      /\ UNCHANGED <<connected, get_reqs, object_get_requests_, remote, crashed>>
  BY DEF MakeRoom, At
<1>2. RestType /\ Creating /\ loop.c \in Clients /\ loop \in LoopType /\ LoopInv
  BY <1>1 DEF IInv, LoopInv, RestType
<1>3. loop.size \in Nat
  BY <1>2, LoopFields
<1>4. /\ Core' /\ UNCHANGED <<objects, object_ids>>
      /\ \/ loop' = loop
         \/ /\ loop' = Fail("oom")
            /\ loop.evict_if_full => policy'.cache_.items = <<>>
  BY <1>3, MakeRoomCore DEF IInv
<1>5. CASE loop' = loop
  <2>1. LoopInv'
    <3>1. Creating' /\ (~Present(Head(loop.ids)))'
      <4>1. \A id : Mine(id)' = Mine(id)
        BY <1>4, <1>5 DEF Mine, Held
      <4>2. Done' = Done
        BY <1>5 DEF Done
      <4>3. Creating'
        BY <1>2, <1>5, <4>1, <4>2 DEF Creating
      <4>4. (~Present(Head(loop.ids)))'
        BY <1>1, <1>2, <1>4, <1>5 DEF Present, LoopInv
      <4> QED
        BY <4>3, <4>4
    <3> QED
      BY <1>1, <1>2, <1>5, <3>1 DEF LoopInv, OutOfMemoryMeansInUse
  <2>2. RestType'
    BY <1>1, <1>2, <1>5, RestFrame DEF RestType
  <2> QED
    BY <1>4, <2>1, <2>2 DEF IInv
<1>6. CASE loop' = Fail("oom") /\ (loop.evict_if_full => policy'.cache_.items = <<>>)
  <2>1. LoopInv' /\ loop' \in LoopType
    BY <1>2, <1>4, <1>6, FailInv
  <2>2. RestType'
    BY <1>1, <1>2, <2>1, RestFrame DEF RestType
  <2> QED
    BY <1>4, <2>1, <2>2 DEF IInv
<1> QED
  BY <1>4, <1>5, <1>6

LEMMA CreateObjectInv ==
  ASSUME IInv, CreateObject
  PROVE  IInv'
<1>1. /\ loop.pc = "alloc"
      /\ UNCHANGED <<connected, get_reqs, object_get_requests_, remote, crashed>>
  BY DEF CreateObject, At
<1>2. /\ RestType /\ Creating /\ loop.c \in Clients /\ ~Present(Head(loop.ids))
      /\ loop \in LoopType /\ loop.ids # <<>>
  BY <1>1 DEF IInv, LoopInv, RestType, Creating
<1>3. loop.size \in Nat /\ loop.ids \in Seq(ObjectIDs) /\ loop.all \in Seq(ObjectIDs)
  BY <1>2, LoopFields
<1>4. PICK c \in Clients : c = loop.c
  BY <1>2
<1>5. PICK id \in ObjectIDs : id = Head(loop.ids)
  BY <1>2, <1>3, TailFacts
<1>6. PICK all \in Seq(ObjectIDs) : all = loop.all
  BY <1>3
<1> DEFINE ids == loop.ids
           n == Len(ids)
           m == Len(all)
           rest == Tail(ids)
<1>7. /\ n \in Nat \ {0} /\ m \in Nat /\ rest \in Seq(ObjectIDs) /\ Len(rest) = n - 1
      /\ \A i \in 1 .. n - 1 : rest[i] = ids[i + 1]
      /\ ids[1] = id /\ DOMAIN all = 1 .. m
      /\ \A i \in 1 .. m : all[i] \in ObjectIDs
  BY <1>6, <1>2, <1>3, <1>5, TailFacts, LenProperties, ElementOfSeq
<1>8. /\ Core'
      /\ objects' = [objects EXCEPT ![id] =
           [state |-> "CREATED", size |-> loop.size, ref_count |-> 1]]
      /\ object_ids' = [object_ids EXCEPT ![c] = @ \cup {id}]
  BY <1>2, <1>3, <1>4, <1>5, CreateObjectCore DEF IInv
<1>9. /\ loop' = CASE rest # <<>> -> [loop EXCEPT !.pc = "exists", !.ids = rest]
                   [] rest = <<>> /\ loop.seal -> [loop EXCEPT !.pc = "seal", !.ids = all]
                   [] OTHER -> Idle
  BY <1>6 DEF CreateObject
<1>10. \A x \in ObjectIDs :
         /\ x \in object_ids[c] /\ objects[x].state = "CREATED" =>
              x # id /\ x \in object_ids'[c] /\ objects'[x].state = "CREATED"
         /\ x = id => x \in object_ids'[c] /\ objects'[x].state = "CREATED"
  <2>1. objects[id] = NoEntry
    BY <1>2, <1>5 DEF Present
  <2>2. objects[id].state # "CREATED"
    BY <2>1 DEF NoEntry
  <2> QED
    BY <1>8, <2>2 DEF IInv, Core, CoreType
<1>11. /\ m - n >= 0
       /\ \A i \in 1 .. n : ids[i] = all[m - n + i]
       /\ \A i \in 1 .. m - n : all[i] \in object_ids[c] /\ objects[all[i]].state = "CREATED"
       /\ \A i, j \in 1 .. m - n : all[i] = all[j] => i = j
  BY <1>6, <1>2, <1>4 DEF Creating, Done, Mine, Held
<1> HIDE DEF ids, n, m, rest
<1> DEFINE k == m - n + 1
<1>12. /\ k \in Nat /\ k <= m /\ all[k] = id
       /\ \A i \in 1 .. k : i \in 1 .. m /\ (i \in 1 .. m - n \/ i = k)
       /\ \A i \in 1 .. n - 1 : i + 1 \in 1 .. n /\ m - n + (i + 1) = k + i
  <2>1. 1 \in 1 .. n
    BY <1>7
  <2>2. all[m - n + 1] = id
    BY <1>7, <1>11, <2>1
  <2> HIDE <1>11
  <2>3. m - n >= 0
    BY <1>11
  <2> QED
    BY <1>7, <2>2, <2>3
<1>13. \A i \in 1 .. n - 1 : rest[i] = all[k + i]
  BY <1>7, <1>11, <1>12
<1> HIDE DEF k
<1>14. \A i \in 1 .. k : all[i] \in object_ids'[c] /\ objects'[all[i]].state = "CREATED"
  BY <1>7, <1>10, <1>11, <1>12
<1>15. \A i, j \in 1 .. k : all[i] = all[j] => i = j
  <2> TAKE i, j \in 1 .. k
  <2> HAVE all[i] = all[j]
  <2>1. CASE i \in 1 .. m - n /\ j \in 1 .. m - n
    BY <1>11, <2>1
  <2>2. \A x \in 1 .. k : x \in 1 .. m - n => all[x] # id
    BY <1>7, <1>10, <1>11, <1>12
  <2>3. (i \in 1 .. m - n \/ i = k) /\ (j \in 1 .. m - n \/ j = k) /\ all[k] = id
    BY <1>12
  <2> QED
    BY <2>1, <2>2, <2>3
<1>16. CASE rest # <<>>
  <2>1. loop' = [loop EXCEPT !.pc = "exists", !.ids = rest]
    BY <1>9, <1>16
  <2>2. /\ loop' \in LoopType /\ loop'.pc = "exists" /\ loop'.c = c /\ loop'.ids = rest
        /\ loop'.all = all /\ loop'.size = loop.size
        /\ loop'.evict_if_full = loop.evict_if_full
    BY <1>6, <1>2, <1>4, <1>7, <2>1 DEF LoopType
  <2>3. Done' = k
    <3>1. m - (n - 1) = k
      BY <1>7 DEF k
    <3> QED
      BY <1>7, <2>2, <3>1 DEF Done, m
  <2>4. \A i \in 1 .. k : Mine(all[i])'
    BY <1>4, <1>14, <2>2 DEF Mine, Held
  <2>5. Creating'
    <3>1. (loop.ids # <<>> /\ Done >= 0)'
      BY <1>12, <1>16, <2>2, <2>3
    <3>2. (\A i \in 1 .. Len(loop.ids) : loop.ids[i] = loop.all[Done + i])'
      BY <1>7, <1>13, <2>2, <2>3
    <3>3. (\A i \in 1 .. Done : Mine(loop.all[i]))'
      BY <2>2, <2>3, <2>4
    <3>4. (\A i, j \in 1 .. Done : loop.all[i] = loop.all[j] => i = j)'
      BY <1>15, <2>2, <2>3
    <3>5. (/\ loop.size \in Sizes /\ loop.evict_if_full \in EvictIfFull
           /\ Quotas # {} => Len(loop.all) = 1)'
      BY <1>6, <1>2, <2>2 DEF Creating
    <3> QED
      BY <3>1, <3>2, <3>3, <3>4, <3>5 DEF Creating
  <2>6. LoopInv'
    BY <1>4, <2>2, <2>5 DEF LoopInv, OutOfMemoryMeansInUse
  <2>7. RestType'
    BY <1>1, <1>2, <2>2, RestFrame DEF RestType
  <2> QED
    BY <1>8, <2>6, <2>7 DEF IInv
<1>17. CASE rest = <<>> /\ loop.seal
  <2>1. loop' = [loop EXCEPT !.pc = "seal", !.ids = all]
    BY <1>9, <1>17
  <2>2. /\ loop' \in LoopType /\ loop'.pc = "seal" /\ loop'.c = c /\ loop'.ids = all
        /\ loop'.all = all
    BY <1>6, <1>2, <1>3, <1>4, <2>1 DEF LoopType
  <2>3. k = m
    <3>1. Len(rest) = 0
      BY <1>17
    <3> QED
      BY <1>7, <3>1 DEF k
  <2>4. IsInjective(all)
    BY <1>7, <1>15, <2>3 DEF IsInjective
  <2>5. \A x \in ToSet(all) : Held(x)' /\ objects'[x].state = "CREATED"
    BY <1>4, <1>7, <1>14, <2>2, <2>3 DEF ToSet, Held
  <2>6. all # <<>>
    <3>1. m >= 1
      BY <1>7, <1>11, <2>3 DEF k
    <3> QED
      BY <1>7, <3>1, EmptySeq DEF m
  <2>7. Sealing'
    BY <2>2, <2>4, <2>5, <2>6 DEF Sealing
  <2>8. LoopInv'
    BY <1>4, <2>2, <2>7 DEF LoopInv, OutOfMemoryMeansInUse
  <2>9. RestType'
    BY <1>1, <1>2, <2>2, RestFrame DEF RestType
  <2> QED
    BY <1>8, <2>8, <2>9 DEF IInv
<1>18. CASE rest = <<>> /\ ~loop.seal
  <2>1. loop' = Idle
    BY <1>9, <1>18
  <2>2. RestType'
    BY <1>1, <1>2, <2>1, IdleLoop, RestFrame DEF RestType
  <2> QED
    BY <1>8, <2>1, <2>2, LoopIdle DEF IInv
<1> QED
  BY <1>16, <1>17, <1>18

LEMMA AbortCreatedInv ==
  ASSUME IInv, AbortCreated
  PROVE  IInv'
<1>1. /\ loop.pc \in {"abort", "oom"} /\ loop.ids # <<>>
      /\ AbortObject(Head(loop.ids), loop.c) /\ UNCHANGED evict_queue
      /\ loop' = [loop EXCEPT !.ids = Tail(loop.ids)]
      /\ UNCHANGED <<connected, get_reqs, object_get_requests_, remote, crashed>>
  BY DEF AbortCreated, At
<1>2. /\ Aborting /\ loop.c \in Clients /\ loop \in LoopType /\ RestType
      /\ OutOfMemoryMeansInUse
  BY <1>1 DEF IInv, LoopInv, RestType
<1>3. loop.ids \in Seq(ObjectIDs)
  BY <1>2, LoopFields
<1> DEFINE id == Head(loop.ids)
           c == loop.c
           rest == Tail(loop.ids)
<1>4. /\ id \in ObjectIDs /\ id \in ToSet(loop.ids) /\ rest \in Seq(ObjectIDs)
      /\ ToSet(loop.ids) = {id} \cup ToSet(rest)
      /\ IsInjective(rest) /\ id \notin ToSet(rest)
  BY <1>1, <1>2, <1>3, TailFacts DEF Aborting
<1>5. id \in object_ids[c] /\ objects[id].state = "CREATED" /\ Quotas = {}
  BY <1>1, <1>2, <1>4 DEF Aborting, Mine, Held
<1>6. /\ Core'
      /\ objects' = [objects EXCEPT ![id] = NoEntry]
      /\ object_ids' = [object_ids EXCEPT ![c] = @ \ {id}]
      /\ UNCHANGED policy
  BY <1>1, <1>2, <1>4, <1>5, AbortObjectCore DEF IInv
<1>7. /\ loop' \in LoopType /\ loop'.pc = loop.pc /\ loop'.c = loop.c /\ loop'.ids = rest
      /\ loop'.evict_if_full = loop.evict_if_full
  BY <1>1, <1>2, <1>4 DEF LoopType
<1>8. \A x \in ToSet(rest) : x \in ObjectIDs /\ x # id /\ Mine(x)
  BY <1>2, <1>4, ToSetFacts DEF Aborting
<1> HIDE DEF rest, id
<1>9. \A x \in ToSet(rest) : Mine(x)'
  BY <1>2, <1>6, <1>7, <1>8 DEF Mine, Held, IInv, Core, CoreType
<1>10. Aborting'
  BY <1>4, <1>5, <1>7, <1>9 DEF Aborting
<1>11. OutOfMemoryMeansInUse'
  BY <1>2, <1>6, <1>7 DEF OutOfMemoryMeansInUse
<1>12. LoopInv'
  BY <1>1, <1>2, <1>7, <1>10, <1>11 DEF LoopInv
<1>13. RestType'
  BY <1>1, <1>2, <1>7, RestFrame DEF RestType
<1> QED
  BY <1>6, <1>12, <1>13 DEF IInv

LEMMA ReplyErrorInv ==
  ASSUME IInv, ReplyError
  PROVE  IInv'
<1>1. /\ loop' = Idle
      /\ UNCHANGED <<objects, object_ids, connected, deletion_cache_, get_reqs,
                     object_get_requests_, policy, allocated_, evict_queue, remote, crashed>>
  BY DEF ReplyError
<1>2. Core'
  BY <1>1, CoreUnchanged DEF IInv
<1>3. RestType'
  BY <1>1, IdleLoop, RestFrame DEF IInv, RestType
<1> QED
  BY <1>1, <1>2, <1>3, LoopIdle DEF IInv

------------------------------------------------------------------------------
(* Sealing objects.                                                        *)

LEMMA SealRequestInv ==
  ASSUME IInv, NEW c \in Clients, NEW id \in ObjectIDs, SealRequest(c, id)
  PROVE  IInv'
<1>1. /\ id \in object_ids[c] /\ objects[id].state = "CREATED"
      /\ UNCHANGED <<objects, object_ids, connected, deletion_cache_, get_reqs,
                     object_get_requests_, policy, allocated_, evict_queue, remote, crashed>>
  BY DEF SealRequest
<1>2. loop' = [pc |-> "seal", c |-> c, ids |-> <<id>>, all |-> <<id>>, size |-> 0,
               evict_if_full |-> FALSE, seal |-> FALSE, ask |-> <<>>, index |-> 0,
               left |-> 0]
  BY DEF SealRequest, Idle
<1>3. /\ <<id>> \in Seq(ObjectIDs) /\ <<id>> # <<>> /\ IsInjective(<<id>>)
      /\ ToSet(<<id>>) = {id}
  BY DEF IsInjective, ToSet
<1>4. /\ loop' \in LoopType /\ loop'.pc = "seal" /\ loop'.c = c /\ loop'.ids = <<id>>
      /\ loop'.all = <<id>>
  BY <1>2, <1>3, EmptyFacts DEF LoopType
<1>5. Sealing'
  BY <1>1, <1>3, <1>4 DEF Sealing, Held
<1>6. LoopInv'
  BY <1>4, <1>5 DEF LoopInv, OutOfMemoryMeansInUse
<1>7. RestType'
  BY <1>1, <1>4, RestFrame DEF IInv, RestType
<1>8. Core'
  BY <1>1, CoreUnchanged DEF IInv
<1> QED
  BY <1>6, <1>7, <1>8 DEF IInv

(* The loop over the waiting requests of an object: its counters are set.  *)
Turn(l, i, n) == [l EXCEPT !.left = n, !.index = i]

Turned(l, k, i, n) ==
  /\ k \in LoopType /\ k.pc = l.pc /\ k.c = l.c /\ k.ids = l.ids /\ k.all = l.all
  /\ k.seal = l.seal /\ k.index = i /\ k.left = n

LEMMA TurnFacts ==
  ASSUME NEW l \in LoopType, NEW i, NEW n, i \in Nat, n \in Nat
  PROVE  Turned(l, Turn(l, i, n), i, n)
  BY DEF LoopType, Turned, Turn

(* The objects of the request are all sealed: the waiting requests are     *)
(* next, or the references of CreateAndSeal.                               *)
LEMMA UpdateNextInv ==
  ASSUME RestType, loop.c \in Clients, loop.all # <<>>, IsInjective(loop.all),
         NEW ids \in Seq(ObjectIDs), IsInjective(ids), ToSet(ids) \subseteq ToSet(loop.all),
         \A id \in ToSet(loop.all) : Held(id) /\ objects'[id].state = "SEALED",
         UNCHANGED object_ids, loop' = UpdateNext(ids)
  PROVE  LoopInv' /\ loop' \in LoopType
<1>1. loop \in LoopType /\ loop.all \in Seq(ObjectIDs)
  BY LoopFields DEF RestType
<1>2. ASSUME loop'.c = loop.c
      PROVE  \A id \in ToSet(loop.all) : Held(id)' /\ Sealed(id)'
  BY <1>2 DEF Held, Sealed
<1>3. CASE ids # <<>>
  <2> DEFINE n == Len(object_get_requests_[Head(ids)])
  <2>1. n \in Nat
    BY <1>3, TailFacts, LenProperties DEF RestType
  <2>2. loop' = [loop EXCEPT !.pc = "update", !.ids = ids, !.index = 1, !.left = n]
    BY <1>3 DEF UpdateNext
  <2> HIDE DEF n
  <2>3. /\ loop' \in LoopType /\ loop'.pc = "update" /\ loop'.c = loop.c /\ loop'.ids = ids
        /\ loop'.all = loop.all /\ loop'.index = 1
    <3> DEFINE l == [loop EXCEPT !.pc = "update", !.ids = ids]
    <3>1. /\ l \in LoopType /\ l.pc = "update" /\ l.c = loop.c /\ l.ids = ids
          /\ l.all = loop.all
      BY <1>1 DEF LoopType
    <3>2. loop' = [l EXCEPT !.index = 1, !.left = n]
      BY <2>2
    <3> HIDE DEF l
    <3>3. 1 \in Nat
      OBVIOUS
    <3>4. Turned(l, Turn(l, 1, n), 1, n)
      BY <2>1, <3>1, <3>3, TurnFacts
    <3>5. loop' = Turn(l, 1, n)
      BY <3>2 DEF Turn
    <3> QED
      BY <3>1, <3>4, <3>5 DEF Turned
  <2>4. Updating'
    BY <1>2, <1>3, <2>3 DEF Updating
  <2> QED
    BY <2>3, <2>4 DEF LoopInv, OutOfMemoryMeansInUse
<1>4. CASE ids = <<>> /\ loop.seal
  <2>1. loop' = [loop EXCEPT !.pc = "release", !.ids = loop.all]
    BY <1>4 DEF UpdateNext
  <2>2. /\ loop' \in LoopType /\ loop'.pc = "release" /\ loop'.c = loop.c
        /\ loop'.ids = loop.all
    BY <1>1, <2>1 DEF LoopType
  <2>3. Releasing'
    BY <1>2, <2>2 DEF Releasing
  <2> QED
    BY <2>2, <2>3 DEF LoopInv, OutOfMemoryMeansInUse
<1>5. CASE ids = <<>> /\ ~loop.seal
  <2>1. loop' = Idle
    BY <1>5 DEF UpdateNext
  <2> QED
    BY <2>1, IdleLoop, LoopIdle
<1> QED
  BY <1>3, <1>4, <1>5

LEMMA SealOneInv ==
  ASSUME IInv, SealOne
  PROVE  IInv' /\ ~crashed'
<1>1. /\ loop.pc = "seal"
      /\ loop' = IF Tail(loop.ids) = <<>> THEN UpdateNext(loop.all)
                                          ELSE [loop EXCEPT !.ids = Tail(loop.ids)]
      /\ UNCHANGED <<connected, get_reqs, object_get_requests_, remote>>
  BY DEF SealOne, At
<1>2. RestType /\ Sealing /\ loop.c \in Clients /\ loop \in LoopType
  BY <1>1 DEF IInv, LoopInv, RestType
<1>3. loop.ids \in Seq(ObjectIDs) /\ loop.all \in Seq(ObjectIDs)
  BY <1>2, LoopFields
<1>4. PICK id \in ObjectIDs : id = Head(loop.ids)
  BY <1>2, <1>3, TailFacts DEF Sealing
<1> DEFINE rest == Tail(loop.ids)
<1>5. /\ rest \in Seq(ObjectIDs) /\ ToSet(loop.ids) = {id} \cup ToSet(rest)
      /\ IsInjective(rest) /\ id \notin ToSet(rest) /\ id \in ToSet(loop.ids)
  BY <1>2, <1>3, <1>4, TailFacts DEF Sealing
<1>6. objects[id].state = "CREATED"
  BY <1>2, <1>5 DEF Sealing
<1>7. /\ Core' /\ ~crashed' /\ objects'[id].state = "SEALED"
      /\ \A x \in ObjectIDs \ {id} : objects'[x] = objects[x]
      /\ UNCHANGED object_ids
  BY <1>4, <1>6, SealOneCore DEF IInv
<1>8. \A x \in ToSet(loop.all) : /\ x \in ObjectIDs /\ Held(x)
                                 /\ objects'[x].state = IF x \in ToSet(rest) THEN "CREATED"
                                                                             ELSE "SEALED"
  BY <1>2, <1>3, <1>5, <1>7, ToSetFacts DEF Sealing
<1>9. CASE rest = <<>>
  <2>1. loop' = UpdateNext(loop.all)
    BY <1>1, <1>9
  <2>2. \A x \in ToSet(loop.all) : Held(x) /\ objects'[x].state = "SEALED"
    BY <1>8, <1>9, EmptyFacts
  <2>3. LoopInv' /\ loop' \in LoopType
    BY <1>2, <1>3, <1>7, <2>1, <2>2, UpdateNextInv DEF Sealing
  <2>4. crashed' \in BOOLEAN
    BY DEF SealOne
  <2>5. RestType'
    BY <1>1, <1>2, <2>3, <2>4, RestFrame
  <2> QED
    BY <1>7, <2>3, <2>5 DEF IInv
<1>10. CASE rest # <<>>
  <2>1. loop' = [loop EXCEPT !.ids = rest]
    BY <1>1, <1>10
  <2> HIDE DEF rest
  <2>2. /\ loop' \in LoopType /\ loop'.pc = "seal" /\ loop'.c = loop.c /\ loop'.ids = rest
        /\ loop'.all = loop.all
    BY <1>1, <1>2, <1>5, <2>1 DEF LoopType
  <2>3. \A x \in ToSet(loop.all) : Held(x)'
    BY <1>7, <1>8, <2>2 DEF Held
  <2>4. Sealing'
    BY <1>2, <1>5, <1>8, <1>10, <2>2, <2>3 DEF Sealing
  <2>5. LoopInv'
    BY <1>2, <2>2, <2>4 DEF LoopInv, OutOfMemoryMeansInUse
  <2>6. crashed' \in BOOLEAN
    BY DEF SealOne
  <2>7. RestType'
    BY <1>1, <1>2, <2>2, <2>6, RestFrame
  <2> QED
    BY <1>7, <2>5, <2>7 DEF IInv
<1> QED
  BY <1>9, <1>10

(* One more object of a request is there, or at the peer.                  *)
LEMMA CountOne ==
  ASSUME NEW r \in GetType
  PROVE  LET q == [r EXCEPT !.num_satisfied = @ + 1]
         IN  /\ q \in GetType /\ q.num_satisfied = r.num_satisfied + 1
             /\ q.ids = r.ids /\ q.at_peer = r.at_peer
             /\ q.timeout = r.timeout /\ q.timer = r.timer
  BY DEF GetType

WithPeer(r, id) == [r EXCEPT !.num_satisfied = @ + 1, !.at_peer = @ \cup {id}]

LEMMA CountPeer ==
  ASSUME NEW r \in GetType, NEW id \in ObjectIDs
  PROVE  LET q == WithPeer(r, id)
         IN  /\ q \in GetType /\ q.num_satisfied = r.num_satisfied + 1
             /\ q.ids = r.ids /\ q.at_peer = r.at_peer \cup {id}
             /\ q.timeout = r.timeout /\ q.timer = r.timer
<1> DEFINE n == r.num_satisfied + 1
           s == r.at_peer \cup {id}
           q == WithPeer(r, id)
<1>1. n \in Nat /\ s \in SUBSET ObjectIDs
  BY GetFields
<1>2. q = [r EXCEPT !.num_satisfied = n, !.at_peer = s]
  BY DEF WithPeer, GetType
<1> HIDE DEF n, s, q
<1>3. q \in GetType
  BY <1>1, <1>2 DEF GetType
<1>4. q.num_satisfied = n /\ q.at_peer = s
  BY <1>1, <1>2 DEF GetType
<1>5. q.ids = r.ids /\ q.timeout = r.timeout /\ q.timer = r.timer
  BY <1>2 DEF GetType
<1> QED
  BY <1>3, <1>4, <1>5 DEF n, s, q

LEMMA UpdateWaiterInv ==
  ASSUME IInv, UpdateWaiter
  PROVE  IInv'
<1>1. /\ loop.pc = "update" /\ loop.left > 0 /\ evict_queue = <<>>
      /\ UNCHANGED <<connected, deletion_cache_, allocated_, evict_queue>>
  BY Zenon DEF UpdateWaiter, At
<1>2. RestType /\ Updating /\ loop.c \in Clients /\ loop \in LoopType
  BY <1>1 DEF IInv, LoopInv, RestType
<1>3. /\ loop.ids \in Seq(ObjectIDs) /\ loop.all \in Seq(ObjectIDs)
      /\ loop.index \in Nat /\ loop.left \in Nat
  BY <1>2, LoopFields
<1> DEFINE waiting == object_get_requests_[Head(loop.ids)]
<1>4. CASE loop.index > Len(waiting)
  <2>1. /\ UNCHANGED <<objects, object_ids, get_reqs, object_get_requests_, policy, loop,
                       remote>>
        /\ crashed' = TRUE
    BY <1>4 DEF UpdateWaiter
  <2>2. Core'
    BY <1>1, <2>1, CoreUnchanged DEF IInv
  <2>3. RestType'
    BY <1>1, <1>2, <2>1, RestFrame DEF RestType
  <2>4. LoopInv'
    BY <1>2, <2>1, LoopFrame DEF IInv, Core, Present
  <2> QED
    BY <2>2, <2>3, <2>4 DEF IInv
<1>5. CASE ~(loop.index > Len(waiting))
  <2>1. PICK id \in ObjectIDs : id = Head(loop.ids)
    BY <1>2, <1>3, TailFacts DEF Updating
  <2>2. id \in ToSet(loop.all)
    BY <1>2, <1>3, <2>1, TailFacts DEF Updating
  <2>3. Sealed(id)
    BY <1>2, <2>2 DEF Updating
  <2>4. waiting \in Seq(Clients) /\ Len(waiting) \in Nat
    BY <1>2, <2>1, LenProperties DEF RestType
  <2>5. loop.index \in 1 .. Len(waiting)
    BY <1>2, <1>3, <1>5, <2>4 DEF Updating
  <2>6. PICK c \in Clients : c = waiting[loop.index]
    BY <2>4, <2>5, ElementOfSeq
  <2> DEFINE req == [get_reqs[c] EXCEPT !.num_satisfied = @ + 1]
             done == req.num_satisfied = NumToWaitFor(req)
             i == IF done THEN loop.index ELSE loop.index + 1
  <2>7. /\ AddToClientObjectIds(id, c)
        /\ IF done THEN ReturnFromGet(c, req)
                   ELSE /\ get_reqs' = [get_reqs EXCEPT ![c] = req]
                        /\ UNCHANGED <<object_get_requests_, remote>>
        /\ UNCHANGED crashed
        /\ loop' = [loop EXCEPT !.left = @ - 1, !.index = IF done THEN @ ELSE @ + 1]
    BY <1>5, <2>1, <2>6, Zenon DEF UpdateWaiter
  <2>8. loop' = [loop EXCEPT !.left = loop.left - 1, !.index = i]
    BY <1>2, <2>7 DEF LoopType
  <2>9. req \in GetType /\ req.at_peer \in SUBSET ObjectIDs
    BY <1>2, CountOne, GetFields DEF RestType
  <2> HIDE DEF req
  <2>10. /\ get_reqs' \in [Clients -> GetType]
         /\ object_get_requests_' \in [ObjectIDs -> Seq(Clients)]
         /\ remote' \in [Clients -> SUBSET ObjectIDs]
    <3>1. CASE ReturnFromGet(c, req)
      BY <1>2, <2>9, <3>1, ReturnType
    <3>2. CASE /\ get_reqs' = [get_reqs EXCEPT ![c] = req]
               /\ UNCHANGED <<object_get_requests_, remote>>
      BY <1>2, <2>9, <3>2 DEF RestType
    <3> QED
      BY <2>7, <3>1, <3>2
  <2> HIDE DEF done
  <2>11. i \in Nat /\ i >= 1 /\ loop.left - 1 \in Nat
    BY <1>1, <1>2, <1>3 DEF Updating
  <2>12. loop' = Turn(loop, i, loop.left - 1)
    BY <2>8 DEF Turn
  <2> HIDE DEF i
  <2>13. Turned(loop, Turn(loop, i, loop.left - 1), i, loop.left - 1)
    BY <1>2, <2>11, TurnFacts
  <2>14. /\ loop' \in LoopType /\ loop'.pc = "update" /\ loop'.c = loop.c
         /\ loop'.ids = loop.ids /\ loop'.all = loop.all /\ loop'.index >= 1
    BY <1>1, <2>11, <2>12, <2>13 DEF Turned
  <2>15. /\ Core'
         /\ \A x \in ObjectIDs : objects'[x].state = objects[x].state
         /\ object_ids' = [object_ids EXCEPT ![c] = @ \cup {id}]
    BY <1>1, <2>3, <2>7, AddRefCore DEF IInv
  <2>16. \A x \in ToSet(loop.all) : x \in ObjectIDs /\ Held(x) /\ Sealed(x)
    BY <1>2, <1>3, ToSetFacts DEF Updating
  <2>17. \A x \in ToSet(loop.all) : Held(x)' /\ Sealed(x)'
    BY <1>2, <2>14, <2>15, <2>16 DEF Held, Sealed, IInv, Core, CoreType
  <2>18. Updating'
    BY <1>2, <2>14, <2>17 DEF Updating
  <2>19. LoopInv'
    BY <1>2, <2>14, <2>18 DEF LoopInv, OutOfMemoryMeansInUse
  <2>20. RestType'
    BY <1>1, <1>2, <2>7, <2>10, <2>14 DEF RestType
  <2> QED
    BY <2>15, <2>19, <2>20 DEF IInv
<1> QED
  BY <1>4, <1>5

LEMMA UpdateDoneInv ==
  ASSUME IInv, UpdateDone
  PROVE  IInv'
<1>1. /\ loop.pc = "update" /\ loop' = UpdateNext(Tail(loop.ids))
      /\ object_get_requests_' = [object_get_requests_ EXCEPT ![Head(loop.ids)] = <<>>]
      /\ UNCHANGED <<objects, object_ids, connected, deletion_cache_, get_reqs, policy,
                     allocated_, evict_queue, remote, crashed>>
  BY DEF UpdateDone, At
<1>2. RestType /\ Updating /\ loop.c \in Clients /\ loop \in LoopType
  BY <1>1 DEF IInv, LoopInv, RestType
<1>3. loop.ids \in Seq(ObjectIDs) /\ loop.all \in Seq(ObjectIDs)
  BY <1>2, LoopFields
<1> DEFINE rest == Tail(loop.ids)
<1>4. /\ rest \in Seq(ObjectIDs) /\ IsInjective(rest) /\ ToSet(rest) \subseteq ToSet(loop.all)
      /\ Head(loop.ids) \in ObjectIDs
  BY <1>2, <1>3, TailFacts DEF Updating
<1>5. Core'
  BY <1>1, CoreUnchanged DEF IInv
<1>6. \A id \in ToSet(loop.all) : Held(id) /\ objects'[id].state = "SEALED"
  BY <1>1, <1>2 DEF Updating, Sealed
<1> HIDE DEF rest
<1>7. loop' = UpdateNext(rest)
  BY <1>1 DEF rest
<1>8. LoopInv' /\ loop' \in LoopType
  BY <1>1, <1>2, <1>4, <1>6, <1>7, UpdateNextInv DEF Updating
<1>9. object_get_requests_' \in [ObjectIDs -> Seq(Clients)]
  BY <1>1, <1>2, <1>4, EmptyFacts DEF RestType
<1>10. RestType'
  BY <1>1, <1>2, <1>8, <1>9 DEF RestType
<1> QED
  BY <1>5, <1>8, <1>10 DEF IInv

LEMMA ReleaseCreatedInv ==
  ASSUME IInv, QuotasStayExact, ReleaseCreated
  PROVE  IInv' /\ ~crashed'
<1>1. /\ loop.pc = "release" /\ evict_queue = <<>>
      /\ RemoveFromClientObjectIds(Head(loop.ids), loop.c)
      /\ loop' = IF Tail(loop.ids) = <<>> THEN Idle ELSE [loop EXCEPT !.ids = Tail(loop.ids)]
      /\ UNCHANGED <<connected, get_reqs, object_get_requests_, evict_queue, remote>>
  BY DEF ReleaseCreated, At
<1>2. RestType /\ Releasing /\ loop.c \in Clients /\ loop \in LoopType
  BY <1>1 DEF IInv, LoopInv, RestType
<1>3. loop.ids \in Seq(ObjectIDs)
  BY <1>2, LoopFields
<1>4. PICK id \in ObjectIDs : id = Head(loop.ids)
  BY <1>2, <1>3, TailFacts DEF Releasing
<1> DEFINE rest == Tail(loop.ids)
<1>5. /\ rest \in Seq(ObjectIDs) /\ ToSet(loop.ids) = {id} \cup ToSet(rest)
      /\ IsInjective(rest) /\ id \notin ToSet(rest)
  BY <1>2, <1>3, <1>4, TailFacts DEF Releasing
<1>6. id \in object_ids[loop.c] /\ Sealed(id)
  BY <1>2, <1>5 DEF Releasing, Held
<1>7. /\ Core' /\ ~crashed'
      /\ object_ids' = [object_ids EXCEPT ![loop.c] = @ \ {id}]
      /\ \A x \in ObjectIDs \ {id} : objects'[x] = objects[x]
  BY <1>1, <1>2, <1>4, <1>6, DropRefCore DEF IInv
<1>8. crashed' \in BOOLEAN
  BY <1>1 DEF RemoveFromClientObjectIds
<1>9. CASE rest = <<>>
  <2>1. loop' = Idle
    BY <1>1, <1>9
  <2>2. RestType'
    BY <1>1, <1>2, <1>8, <2>1, IdleLoop, RestFrame
  <2> QED
    BY <1>7, <2>1, <2>2, LoopIdle DEF IInv
<1>10. CASE rest # <<>>
  <2>1. loop' = [loop EXCEPT !.ids = rest]
    BY <1>1, <1>10
  <2> HIDE DEF rest
  <2>2. /\ loop' \in LoopType /\ loop'.pc = "release" /\ loop'.c = loop.c
        /\ loop'.ids = rest
    BY <1>1, <1>2, <1>5, <2>1 DEF LoopType
  <2>3. \A x \in ToSet(rest) : x \in ObjectIDs /\ x # id /\ Held(x) /\ Sealed(x)
    BY <1>2, <1>5, ToSetFacts DEF Releasing
  <2>4. \A x \in ToSet(rest) : Held(x)' /\ Sealed(x)'
    BY <1>2, <1>7, <2>2, <2>3 DEF Held, Sealed, IInv, Core, CoreType
  <2>5. Releasing'
    BY <1>5, <1>10, <2>2, <2>4 DEF Releasing
  <2>6. LoopInv'
    BY <1>2, <2>2, <2>5 DEF LoopInv, OutOfMemoryMeansInUse
  <2>7. RestType'
    BY <1>1, <1>2, <1>8, <2>2, RestFrame
  <2> QED
    BY <1>7, <2>6, <2>7 DEF IInv
<1> QED
  BY <1>9, <1>10

------------------------------------------------------------------------------
(* Get and disconnection.                                                  *)

LEMMA GetLoop ==
  ASSUME loop'.pc = "get", loop'.c \in Clients PROVE LoopInv'
  BY DEF LoopInv, OutOfMemoryMeansInUse

LEMMA GetRequestInv ==
  ASSUME IInv, NEW c \in Clients, NEW ids \in GetLists, NEW t \in Timeouts,
         GetRequest(c, ids, t)
  PROVE  IInv'
<1>1. UNCHANGED <<objects, object_ids, connected, deletion_cache_, object_get_requests_,
                  policy, allocated_, evict_queue, remote, crashed>>
  BY DEF GetRequest
<1>2. ids \in Seq(ObjectIDs) /\ t \in Int
  BY ListsAssumption, FlagsAssumption
<1>3. loop' = [pc |-> "get", c |-> c, ids |-> ids, all |-> <<>>, size |-> 0,
               evict_if_full |-> FALSE, seal |-> FALSE, ask |-> <<>>, index |-> 0,
               left |-> 0]
  BY DEF GetRequest, Idle
<1>4. loop' \in LoopType /\ loop'.pc = "get" /\ loop'.c = c
  BY <1>2, <1>3, EmptyFacts DEF LoopType
<1>5. [NoRequest EXCEPT !.ids = ids, !.timeout = t] \in GetType
  BY <1>2 DEF GetType, NoRequest
<1>6. get_reqs' \in [Clients -> GetType]
  BY <1>5 DEF IInv, RestType, GetRequest
<1>7. RestType'
  BY <1>1, <1>4, <1>6 DEF IInv, RestType
<1>8. Core'
  BY <1>1, CoreUnchanged DEF IInv
<1> QED
  BY <1>4, <1>7, <1>8, GetLoop DEF IInv

LEMMA GetLocalInv ==
  ASSUME IInv, GetLocal
  PROVE  IInv'
<1>1. /\ loop.pc = "get" /\ loop.ids # <<>> /\ evict_queue = <<>>
      /\ UNCHANGED <<connected, deletion_cache_, object_get_requests_, allocated_,
                     evict_queue, remote, crashed>>
  BY DEF GetLocal, At
<1>2. RestType /\ loop.c \in Clients /\ loop \in LoopType
  BY <1>1 DEF IInv, LoopInv, RestType
<1>3. loop.ids \in Seq(ObjectIDs) /\ loop.ask \in Seq(ObjectIDs)
  BY <1>2, LoopFields
<1>4. PICK id \in ObjectIDs : id = Head(loop.ids)
  BY <1>1, <1>3, TailFacts
<1>5. Tail(loop.ids) \in Seq(ObjectIDs) /\ Append(loop.ask, id) \in Seq(ObjectIDs)
  BY <1>1, <1>3, TailFacts, AppendProperties
<1>6. CASE Sealed(id)
  <2>1. /\ AddToClientObjectIds(id, loop.c)
        /\ get_reqs' = [get_reqs EXCEPT ![loop.c] =
             [get_reqs[loop.c] EXCEPT !.num_satisfied = @ + 1]]
        /\ loop' = [loop EXCEPT !.ids = Tail(loop.ids)]
    BY <1>2, <1>4, <1>6 DEF GetLocal, RestType
  <2>2. Core'
    BY <1>1, <1>2, <1>6, <2>1, AddRefCore DEF IInv
  <2>3. [get_reqs[loop.c] EXCEPT !.num_satisfied = @ + 1] \in GetType
    BY <1>2, CountOne DEF RestType
  <2>4. get_reqs' \in [Clients -> GetType]
    BY <1>2, <2>1, <2>3 DEF RestType
  <2>5. loop' \in LoopType /\ loop'.pc = "get" /\ loop'.c = loop.c
    BY <1>1, <1>2, <1>5, <2>1 DEF LoopType
  <2>6. RestType'
    BY <1>1, <1>2, <2>4, <2>5 DEF RestType
  <2> QED
    BY <1>2, <2>2, <2>5, <2>6, GetLoop DEF IInv
<1>7. CASE ~Sealed(id)
  <2>1. /\ loop' = [loop EXCEPT !.ids = Tail(loop.ids), !.ask = Append(loop.ask, id)]
        /\ UNCHANGED <<objects, object_ids, policy, get_reqs>>
    BY <1>2, <1>4, <1>7 DEF GetLocal, LoopType
  <2>2. Core'
    BY <1>1, <2>1, CoreUnchanged DEF IInv
  <2>3. loop' \in LoopType /\ loop'.pc = "get" /\ loop'.c = loop.c
    BY <1>1, <1>2, <1>5, <2>1 DEF LoopType
  <2>4. RestType'
    BY <1>1, <1>2, <2>1, <2>3 DEF RestType
  <2> QED
    BY <1>2, <2>2, <2>3, <2>4, GetLoop DEF IInv
<1> QED
  BY <1>6, <1>7

LEMMA GetRemoteInv ==
  ASSUME IInv, NEW answer \in PeerAnswers, GetRemote(answer)
  PROVE  IInv'
<1>1. /\ loop.pc = "get" /\ loop.ask # <<>> /\ crashed' \in BOOLEAN
      /\ loop' = [loop EXCEPT !.ask = Tail(loop.ask)]
      /\ UNCHANGED <<objects, object_ids, connected, deletion_cache_, policy, allocated_,
                     evict_queue, remote>>
  BY DEF GetRemote, At
<1>2. RestType /\ loop.c \in Clients /\ loop \in LoopType
  BY <1>1 DEF IInv, LoopInv, RestType
<1>3. loop.ask \in Seq(ObjectIDs)
  BY <1>2, LoopFields
<1>4. PICK id \in ObjectIDs : id = Head(loop.ask)
  BY <1>1, <1>3, TailFacts
<1>5. Tail(loop.ask) \in Seq(ObjectIDs)
  BY <1>1, <1>3, TailFacts
<1>6. loop' \in LoopType /\ loop'.pc = "get" /\ loop'.c = loop.c
  BY <1>1, <1>2, <1>5 DEF LoopType
<1> DEFINE r == get_reqs[loop.c]
           q == WithPeer(r, id)
<1>7. q \in GetType
  BY <1>2, CountPeer DEF RestType
<1>8. \/ get_reqs' = [get_reqs EXCEPT ![loop.c] = q] /\ UNCHANGED object_get_requests_
      \/ /\ object_get_requests_' = [object_get_requests_ EXCEPT ![id] = Append(@, loop.c)]
         /\ UNCHANGED get_reqs
  <2>1. CASE answer = "OK"
    BY <1>2, <1>4, <2>1 DEF GetRemote, WithPeer, RestType, GetType
  <2>2. CASE answer # "OK"
    BY <1>4, <2>2 DEF GetRemote
  <2> QED
    BY <2>1, <2>2
<1> HIDE DEF q
<1>9. /\ get_reqs' \in [Clients -> GetType]
      /\ object_get_requests_' \in [ObjectIDs -> Seq(Clients)]
  <2>1. Append(object_get_requests_[id], loop.c) \in Seq(Clients)
    BY <1>2, AppendProperties DEF RestType
  <2> QED
    BY <1>2, <1>7, <1>8, <2>1 DEF RestType
<1>10. RestType'
  BY <1>1, <1>2, <1>6, <1>9 DEF RestType
<1>11. Core'
  BY <1>1, CoreUnchanged DEF IInv
<1> QED
  BY <1>2, <1>6, <1>10, <1>11, GetLoop DEF IInv

LEMMA GetEndInv ==
  ASSUME IInv, GetEnd
  PROVE  IInv'
<1>1. /\ loop.pc = "get" /\ loop' = Idle
      /\ UNCHANGED <<objects, object_ids, connected, deletion_cache_, policy, allocated_,
                     evict_queue, crashed>>
  BY DEF GetEnd, At
<1>2. RestType /\ loop.c \in Clients
  BY <1>1 DEF IInv, LoopInv, RestType
<1> DEFINE r == get_reqs[loop.c]
           q == [r EXCEPT !.timer = r.timeout # Forever]
<1>3. r \in GetType /\ r.at_peer \in SUBSET ObjectIDs
  BY <1>2, GetFields DEF RestType
<1>4. q \in GetType
  <2> HIDE DEF r
  <2> QED
    BY <1>3 DEF GetType
<1>5. \/ ReturnFromGet(loop.c, r)
      \/ get_reqs' = [get_reqs EXCEPT ![loop.c] = q]
         /\ UNCHANGED <<object_get_requests_, remote>>
  BY <1>2 DEF GetEnd, RestType
<1> HIDE DEF q, r
<1>6. /\ get_reqs' \in [Clients -> GetType]
      /\ object_get_requests_' \in [ObjectIDs -> Seq(Clients)]
      /\ remote' \in [Clients -> SUBSET ObjectIDs]
  <2>1. CASE ReturnFromGet(loop.c, r)
    BY <1>2, <1>3, <2>1, ReturnType
  <2>2. CASE get_reqs' = [get_reqs EXCEPT ![loop.c] = q]
             /\ UNCHANGED <<object_get_requests_, remote>>
    BY <1>2, <1>4, <2>2 DEF RestType
  <2> QED
    BY <1>5, <2>1, <2>2
<1>7. RestType'
  BY <1>1, <1>2, <1>6, IdleLoop DEF RestType
<1>8. Core'
  BY <1>1, CoreUnchanged DEF IInv
<1> QED
  BY <1>1, <1>7, <1>8, LoopIdle DEF IInv

LEMMA DisconnectInv ==
  ASSUME IInv, NEW c \in Clients, DisconnectClient(c)
  PROVE  IInv'
<1>1. /\ object_get_requests_' = Unlisted(c)
      /\ get_reqs' = IF object_get_requests_ = Unlisted(c)
                       THEN get_reqs ELSE [get_reqs EXCEPT ![c] = NoRequest]
      /\ loop' = [Idle EXCEPT !.pc = "disconnect", !.c = c]
      /\ UNCHANGED <<connected, remote, crashed>>
  BY DEF DisconnectClient
<1>2. /\ Core' /\ Unsealed(c) \in SUBSET ObjectIDs
      /\ object_ids' = [object_ids EXCEPT ![c] = @ \ Unsealed(c)]
      /\ objects' = [id \in ObjectIDs |-> IF id \in Unsealed(c) THEN NoEntry
                                                                ELSE objects[id]]
  BY DisconnectCore DEF IInv
<1>3. loop' \in LoopType /\ loop'.pc = "disconnect" /\ loop'.c = c
  BY <1>1, EmptyFacts DEF Idle, LoopType
<1>4. \A id \in object_ids'[c] : Sealed(id)'
  <2>1. \A id \in object_ids'[c] : id \in ObjectIDs /\ id \in object_ids[c] \ Unsealed(c)
    BY <1>2 DEF IInv, Core, CoreType
  <2> QED
    BY <1>2, <2>1 DEF Unsealed, Sealed
<1>5. LoopInv'
  BY <1>3, <1>4 DEF LoopInv, OutOfMemoryMeansInUse
<1>6. NoRequest \in GetType
  BY EmptyFacts DEF NoRequest, GetType
<1>7. get_reqs' \in [Clients -> GetType]
  BY <1>1, <1>6 DEF IInv, RestType
<1>8. object_get_requests_' \in [ObjectIDs -> Seq(Clients)]
  BY <1>1, UnlistedType DEF IInv
<1>9. RestType'
  BY <1>1, <1>3, <1>7, <1>8 DEF IInv, RestType
<1> QED
  BY <1>2, <1>5, <1>9 DEF IInv

LEMMA ReleaseHeldInv ==
  ASSUME IInv, QuotasStayExact, NEW id \in ObjectIDs, ReleaseHeld(id)
  PROVE  IInv' /\ ~crashed'
<1>1. /\ loop.pc = "disconnect" /\ evict_queue = <<>> /\ id \in object_ids[loop.c]
      /\ RemoveFromClientObjectIds(id, loop.c)
      /\ UNCHANGED <<connected, get_reqs, object_get_requests_, evict_queue, loop, remote>>
  BY DEF ReleaseHeld, At
<1>2. /\ RestType /\ loop.c \in Clients
      /\ \A x \in object_ids[loop.c] : x \in ObjectIDs /\ Sealed(x)
  BY <1>1 DEF IInv, LoopInv, Core, CoreType
<1>3. /\ Core' /\ ~crashed'
      /\ object_ids' = [object_ids EXCEPT ![loop.c] = @ \ {id}]
      /\ \A x \in ObjectIDs \ {id} : objects'[x] = objects[x]
  BY <1>1, <1>2, DropRefCore DEF IInv
<1>4. crashed' \in BOOLEAN
  BY <1>1 DEF RemoveFromClientObjectIds
<1>5. RestType'
  BY <1>1, <1>2, <1>4, RestFrame DEF RestType
<1>6. \A x \in object_ids'[loop.c] : Sealed(x)'
  <2>1. \A x \in object_ids'[loop.c] : x \in object_ids[loop.c] \ {id}
    BY <1>2, <1>3 DEF IInv, Core, CoreType
  <2> QED
    BY <1>2, <1>3, <2>1 DEF Sealed
<1>7. LoopInv'
  BY <1>1, <1>2, <1>6 DEF LoopInv, OutOfMemoryMeansInUse
<1> QED
  BY <1>3, <1>5, <1>7 DEF IInv

LEMMA DisconnectEndInv ==
  ASSUME IInv, DisconnectEnd
  PROVE  IInv'
<1>1. /\ loop' = Idle /\ connected' = connected \ {loop.c}
      /\ remote' = [remote EXCEPT ![loop.c] = {}]
      /\ UNCHANGED <<objects, object_ids, deletion_cache_, get_reqs, object_get_requests_,
                     policy, allocated_, evict_queue, crashed>>
  BY DEF DisconnectEnd
<1>2. Core'
  BY <1>1, CoreUnchanged DEF IInv
<1>3. RestType'
  BY <1>1, IdleLoop DEF IInv, RestType
<1> QED
  BY <1>1, <1>2, <1>3, LoopIdle DEF IInv

------------------------------------------------------------------------------
LEMMA NextIInv ==
  ASSUME LocalReleases, QuotasStayExact, IInv, [Next]_vars
  PROVE  IInv'
<1>1. CASE UNCHANGED vars
  <2>1. Core'
    BY <1>1, CoreUnchanged DEF IInv, vars
  <2>2. RestType'
    BY <1>1 DEF IInv, RestType, vars
  <2>3. LoopInv'
    BY <1>1, LoopFrame DEF IInv, Core, Present, vars
  <2> QED
    BY <2>1, <2>2, <2>3 DEF IInv
<1>2. CASE EvictOne
  BY <1>2, EvictOneInv
<1>3. ASSUME NEW answer \in PeerAnswers, ObjectExists(answer) PROVE IInv'
  BY <1>3, ObjectExistsInv
<1>4. ASSUME NEW answer \in PeerAnswers, GetRemote(answer) PROVE IInv'
  BY <1>4, GetRemoteInv
<1>5. CASE EnforceQuota
  BY <1>5, EnforceQuotaInv
<1>6. CASE MakeRoom
  BY <1>6, MakeRoomInv
<1>7. CASE AbortCreated
  BY <1>7, AbortCreatedInv
<1>8. CASE ReplyError
  BY <1>8, ReplyErrorInv
<1>9. CASE SealOne
  BY <1>9, SealOneInv
<1>10. CASE UpdateWaiter
  BY <1>10, UpdateWaiterInv
<1>11. CASE UpdateDone
  BY <1>11, UpdateDoneInv
<1>12. CASE ReleaseCreated
  BY <1>12, ReleaseCreatedInv
<1>13. CASE GetLocal
  BY <1>13, GetLocalInv
<1>14. CASE GetEnd
  BY <1>14, GetEndInv
<1>15. ASSUME NEW id \in ObjectIDs, ReleaseHeld(id) PROVE IInv'
  BY <1>15, ReleaseHeldInv
<1>16. CASE DisconnectEnd
  BY <1>16, DisconnectEndInv
<1>17. CASE CreateObject
  BY <1>17, CreateObjectInv
<1>18. ASSUME NEW c \in Clients, Message(c) PROVE IInv'
  <2>1. ASSUME NEW id \in ObjectIDs, NEW n \in Sizes, NEW e \in EvictIfFull,
               CreateRequest(c, id, n, e)
        PROVE  IInv'
    BY <2>1, CreateRequestInv
  <2>2. ASSUME NEW ids \in CreateLists, NEW n \in Sizes, NEW e \in EvictIfFull,
               CreateAndSealRequest(c, ids, n, e)
        PROVE  IInv'
    BY <2>2, CreateAndSealRequestInv
  <2>3. ASSUME NEW ids \in GetLists, NEW t \in Timeouts, GetRequest(c, ids, t) PROVE IInv'
    BY <2>3, GetRequestInv
  <2>4. ASSUME NEW id \in ObjectIDs, SealRequest(c, id) PROVE IInv'
    BY <2>4, SealRequestInv
  <2>5. ASSUME NEW id \in ObjectIDs, AbortRequest(c, id) PROVE IInv'
    BY <2>5, AbortRequestInv
  <2>6. ASSUME NEW id \in ObjectIDs, ReleaseRequest(c, id) PROVE IInv'
    BY <2>6, ReleaseRequestInv
  <2>7. ASSUME NEW id \in ObjectIDs, DeleteRequest(c, id) PROVE IInv'
    BY <2>7, DeleteRequestInv
  <2>8. ASSUME NEW id \in ObjectIDs, RefreshRequest(c, id) PROVE IInv'
    BY <2>8, RefreshRequestInv
  <2>9. ASSUME NEW n \in EvictBytes, EvictRequest(c, n) PROVE IInv'
    BY <2>9, EvictRequestInv
  <2>10. ASSUME NEW q \in Quotas, SetOptionsRequest(c, q) PROVE IInv'
    BY <2>10, SetOptionsInv
  <2> QED
    BY <1>18, <2>1, <2>2, <2>3, <2>4, <2>5, <2>6, <2>7, <2>8, <2>9, <2>10 DEF Message
<1>19. ASSUME NEW c \in Clients, ConnectClient(c) PROVE IInv'
  BY <1>19, ConnectInv
<1>20. ASSUME NEW c \in Clients, DisconnectClient(c) PROVE IInv'
  BY <1>20, DisconnectInv
<1>21. ASSUME NEW c \in Clients, TimerFires(c) PROVE IInv'
  BY <1>21, TimerFiresInv
<1> QED
  BY <1>1, <1>2, <1>3, <1>4, <1>5, <1>6, <1>7, <1>8, <1>9, <1>10, <1>11, <1>12, <1>13,
     <1>14, <1>15, <1>16, <1>17, <1>18, <1>19, <1>20, <1>21 DEF Next, Step, Continue

(* The whole bookkeeping: object table, users, policy, bytes and handler.  *)
THEOREM BookkeepingHolds ==
  ASSUME LocalReleases, QuotasStayExact
  PROVE  Spec => []IInv
<1>1. Init => IInv
  BY InitIInv
<1>2. IInv /\ [Next]_vars => IInv'
  BY NextIInv
<1> QED
  BY <1>1, <1>2, PTL DEF Spec

(* Every variable keeps its type, the policy's queues and the requests     *)
(* included.                                                               *)
THEOREM StoreTypeCorrect ==
  ASSUME LocalReleases, QuotasStayExact
  PROVE  Spec => []TypeOK
<1>1. IInv => TypeOK
  BY DEF IInv, Core, CoreType, PolicyInv, RestType, Entry, LoopType, GetType, TypeOK
<1> QED
  BY <1>1, BookkeepingHolds, PTL

(* ref_count is the number of clients that use an object, and an object    *)
(* that is not sealed has its creator as its only user: what               *)
(* AddToClientObjectIds, RemoveFromClientObjectIds, AbortObject and        *)
(* DisconnectClient keep up together.                                      *)
THEOREM ReferencesAreCounted ==
  ASSUME LocalReleases, QuotasStayExact
  PROVE  Spec => []RefCountsHolders
<1>1. IInv => RefCountsHolders
  BY DEF IInv, Core, ObjectInv, RefCountsHolders
<1> QED
  BY <1>1, BookkeepingHolds, PTL

(* The policy has exactly the sealed objects that no client uses for       *)
(* eviction: EvictObjects' checks cannot fail, and nothing unused is kept. *)
THEOREM UnusedIsEvictable ==
  ASSUME LocalReleases, QuotasStayExact
  PROVE  Spec => []EvictableIffUnused
<1>1. IInv => EvictableIffUnused
  BY DEF IInv, Core, ObjectInv, Unused, EvictableIffUnused
<1> QED
  BY <1>1, BookkeepingHolds, PTL

(* The bytes Memalign and RequireSpace go by are the bytes of the objects, *)
(* and within the limit.                                                   *)
THEOREM AllocationIsExact ==
  ASSUME LocalReleases, QuotasStayExact
  PROVE  Spec => []AllocatedExact
<1>1. IInv => AllocatedExact
  BY DEF IInv, Core
<1> QED
  BY <1>1, BookkeepingHolds, PTL

(* What DeleteObject could not delete goes with its last user.             *)
THEOREM DeferredDeletion ==
  ASSUME LocalReleases, QuotasStayExact
  PROVE  Spec => []DeletedWhenReleased
<1>1. IInv => DeletedWhenReleased
  BY DEF IInv, Core, CoreType, ObjectInv, Unused, DeletedWhenReleased
<1> QED
  BY <1>1, BookkeepingHolds, PTL

(* CreateObject reports PlasmaStoreFull to a client that lets it evict     *)
(* only when the global LRU is empty.                                      *)
THEOREM FullMeansInUse ==
  ASSUME LocalReleases, QuotasStayExact
  PROVE  Spec => []OutOfMemoryMeansInUse
<1>1. IInv => OutOfMemoryMeansInUse
  BY DEF IInv, LoopInv
<1> QED
  BY <1>1, BookkeepingHolds, PTL

------------------------------------------------------------------------------
(* The store implements ObjectStoreSpec: every step of it is a step of the *)
(* abstract store, or invisible to the clients.                            *)

Table == [id \in ObjectIDs |-> [state |-> objects[id].state, size |-> objects[id].size]]

Users == [id \in ObjectIDs |-> Holders(id)]

Visible == AbstractStore!Next \/ UNCHANGED <<Table, Users>>

LEMMA UsersSame ==
  ASSUME UNCHANGED object_ids PROVE UNCHANGED Users
<1>1. \A id : Holders(id)' = Holders(id)
  BY DEF Holders
<1> QED
  BY <1>1 DEF Users

LEMMA UsersAdd ==
  ASSUME Core, NEW id \in ObjectIDs, NEW c \in Clients,
         object_ids' = [object_ids EXCEPT ![c] = @ \cup {id}]
  PROVE  Users' = [Users EXCEPT ![id] = @ \cup {c}]
<1>1. \A x \in ObjectIDs : Holders(x)' = IF x = id THEN Holders(x) \cup {c} ELSE Holders(x)
  BY DEF Holders, Core, CoreType
<1> QED
  BY <1>1 DEF Users

LEMMA UsersDrop ==
  ASSUME Core, NEW id \in ObjectIDs, NEW c \in Clients,
         object_ids' = [object_ids EXCEPT ![c] = @ \ {id}]
  PROVE  Users' = [Users EXCEPT ![id] = @ \ {c}]
<1>1. \A x \in ObjectIDs : Holders(x)' = IF x = id THEN Holders(x) \ {c} ELSE Holders(x)
  BY DEF Holders, Core, CoreType
<1> QED
  BY <1>1 DEF Users

LEMMA TableSame ==
  ASSUME \A x \in ObjectIDs : /\ objects'[x].state = objects[x].state
                              /\ objects'[x].size = objects[x].size
  PROVE  UNCHANGED Table
  BY DEF Table

LEMMA TableErased ==
  ASSUME Core, NEW id \in ObjectIDs, objects' = [objects EXCEPT ![id] = NoEntry]
  PROVE  Table' = [Table EXCEPT ![id] = [state |-> "ABSENT", size |-> 0]]
  BY DEF Table, NoEntry, Core, CoreType

LEMMA VisibleDrop ==
  ASSUME Core, NEW id \in ObjectIDs, Unused(id), Holders(id) = {},
         objects' = [objects EXCEPT ![id] = NoEntry], UNCHANGED object_ids
  PROVE  Visible
<1>1. Table' = [Table EXCEPT ![id] = [state |-> "ABSENT", size |-> 0]] /\ Users' = Users
  BY TableErased, UsersSame
<1>2. Table[id].state = "SEALED" /\ Users[id] = {}
  BY DEF Table, Users, Unused, Sealed
<1>3. AbstractStore!Drop(id)
  BY <1>1, <1>2 DEF AbstractStore!Drop, AbstractStore!Absent, Table, Users
<1> QED
  BY <1>3 DEF Visible, AbstractStore!Next

LEMMA VisibleAcquire ==
  ASSUME Core, NEW id \in ObjectIDs, NEW c \in Clients, Sealed(id),
         object_ids' = [object_ids EXCEPT ![c] = @ \cup {id}],
         \A x \in ObjectIDs : /\ objects'[x].state = objects[x].state
                              /\ objects'[x].size = objects[x].size
  PROVE  Visible
<1>1. Table' = Table /\ Users' = [Users EXCEPT ![id] = @ \cup {c}]
  BY TableSame, UsersAdd
<1>2. Table[id].state = "SEALED"
  BY DEF Table, Sealed
<1>3. AbstractStore!Acquire(c, id)
  BY <1>1, <1>2 DEF AbstractStore!Acquire, Table, Users
<1> QED
  BY <1>3 DEF Visible, AbstractStore!Next

LEMMA VisibleRelease ==
  ASSUME Core, NEW id \in ObjectIDs, NEW c \in Clients, id \in object_ids[c], Sealed(id),
         object_ids' = [object_ids EXCEPT ![c] = @ \ {id}],
         \A x \in ObjectIDs \ {id} : objects'[x] = objects[x],
         \/ /\ objects'[id].state = objects[id].state
            /\ objects'[id].size = objects[id].size
         \/ Holders(id) = {c} /\ objects' = [objects EXCEPT ![id] = NoEntry]
  PROVE  Visible
<1>1. Users' = [Users EXCEPT ![id] = @ \ {c}]
  BY UsersDrop
<1>2. Table[id].state = "SEALED" /\ c \in Users[id]
  BY DEF Table, Sealed, Users, Holders
<1>3. \/ Table' = Table
      \/ Users[id] = {c} /\ Table' = [Table EXCEPT ![id] = [state |-> "ABSENT", size |-> 0]]
  <2>1. CASE objects'[id].state = objects[id].state /\ objects'[id].size = objects[id].size
    BY <2>1, TableSame
  <2>2. CASE Holders(id) = {c} /\ objects' = [objects EXCEPT ![id] = NoEntry]
    BY <2>2, TableErased DEF Users
  <2> QED
    BY <2>1, <2>2
<1>4. AbstractStore!Release(c, id)
  BY <1>1, <1>2, <1>3 DEF AbstractStore!Release, AbstractStore!Absent, Table, Users
<1> QED
  BY <1>4 DEF Visible, AbstractStore!Next

LEMMA VisibleAbort ==
  ASSUME Core, NEW id \in ObjectIDs, NEW c \in Clients, objects[id].state = "CREATED",
         Holders(id) = {c}, objects' = [objects EXCEPT ![id] = NoEntry],
         object_ids' = [object_ids EXCEPT ![c] = @ \ {id}]
  PROVE  Visible
<1>1. Users' = [Users EXCEPT ![id] = @ \ {c}]
  BY UsersDrop
<1>2. Users' = [x \in ObjectIDs |-> IF x \in {id} THEN {} ELSE Users[x]]
  BY <1>1 DEF Users
<1>3. Table' = [x \in ObjectIDs |-> IF x \in {id} THEN [state |-> "ABSENT", size |-> 0]
                                                  ELSE Table[x]]
  <2>1. Table' = [Table EXCEPT ![id] = [state |-> "ABSENT", size |-> 0]]
    BY TableErased
  <2>2. Table = [x \in ObjectIDs |-> Table[x]]
    BY DEF Table
  <2> QED
    BY <2>1, <2>2
<1>4. \A x \in {id} : Table[x].state = "CREATED" /\ Users[x] = {c}
  BY DEF Table, Users
<1>5. AbstractStore!Discard(c, {id})
  BY <1>2, <1>3, <1>4 DEF AbstractStore!Discard, AbstractStore!Absent, Table, Users
<1> QED
  BY <1>5 DEF Visible, AbstractStore!Next

LEMMA VisibleNothing ==
  ASSUME UNCHANGED <<objects, object_ids>> PROVE Visible
  BY TableSame, UsersSame DEF Visible

LEMMA VisibleCreate ==
  ASSUME Core, NEW id \in ObjectIDs, NEW c \in Clients, NEW n \in Sizes, ~Present(id),
         Holders(id) = {},
         objects' = [objects EXCEPT ![id] =
           [state |-> "CREATED", size |-> n, ref_count |-> 1]],
         object_ids' = [object_ids EXCEPT ![c] = @ \cup {id}]
  PROVE  Visible
<1>1. Users' = [Users EXCEPT ![id] = {c}]
  <2>1. Users' = [Users EXCEPT ![id] = @ \cup {c}]
    BY UsersAdd
  <2>2. Users[id] = {}
    BY DEF Users
  <2> QED
    BY <2>1, <2>2
<1>2. Table' = [Table EXCEPT ![id] = [state |-> "CREATED", size |-> n]]
  BY DEF Table, Core, CoreType
<1>3. Table[id] = [state |-> "ABSENT", size |-> 0]
  BY DEF Table, Present, NoEntry
<1>4. AbstractStore!Create(c, id, n)
  BY <1>1, <1>2, <1>3 DEF AbstractStore!Create, AbstractStore!Absent, Table, Users
<1> QED
  BY <1>4 DEF Visible, AbstractStore!Next

LEMMA VisibleSeal ==
  ASSUME Core, NEW id \in ObjectIDs, objects[id].state = "CREATED",
         objects' = [objects EXCEPT ![id].state = "SEALED"], UNCHANGED object_ids
  PROVE  Visible
<1>1. UNCHANGED Users
  BY UsersSame
<1>2. Table' = [Table EXCEPT ![id].state = "SEALED"] /\ Table[id].state = "CREATED"
  BY DEF Table, Core, CoreType, Entry
<1>3. AbstractStore!Seal(id)
  BY <1>1, <1>2 DEF AbstractStore!Seal, Table, Users
<1> QED
  BY <1>3 DEF Visible, AbstractStore!Next

LEMMA VisibleDisconnect ==
  ASSUME Core, NEW c \in Clients, DisconnectClient(c)
  PROVE  Visible
<1>1. PICK U \in SUBSET ObjectIDs : U = Unsealed(c)
  BY DisconnectCore
<1>2. /\ \A id \in U : objects[id].state = "CREATED" /\ Holders(id) = {c}
      /\ object_ids' = [object_ids EXCEPT ![c] = @ \ U]
      /\ objects' = [id \in ObjectIDs |-> IF id \in U THEN NoEntry ELSE objects[id]]
  BY <1>1, DisconnectCore
<1>3. \A id \in ObjectIDs : Holders(id)' = IF id \in U THEN {} ELSE Holders(id)
  BY <1>2 DEF Holders, Core, CoreType
<1>4. Users' = [id \in ObjectIDs |-> IF id \in U THEN {} ELSE Users[id]]
  BY <1>3 DEF Users
<1>5. Table' = [id \in ObjectIDs |-> IF id \in U THEN [state |-> "ABSENT", size |-> 0]
                                                 ELSE Table[id]]
  BY <1>2 DEF Table, NoEntry
<1>6. \A id \in U : Table[id].state = "CREATED" /\ Users[id] = {c}
  BY <1>2 DEF Table, Users
<1>7. AbstractStore!Discard(c, U)
  BY <1>4, <1>5, <1>6 DEF AbstractStore!Discard, AbstractStore!Absent, Table, Users
<1> QED
  BY <1>2, <1>7 DEF Visible, AbstractStore!Next

(* One step of the store.                                                  *)
LEMMA StepIsVisible ==
  ASSUME LocalReleases, QuotasStayExact, IInv, [Next]_vars
  PROVE  Visible
<1>1. Core /\ RestType /\ LoopInv
  BY DEF IInv
<1>2. CASE UNCHANGED <<objects, object_ids>>
  BY <1>2, VisibleNothing
<1>3. CASE EvictOne
  <2>1. PICK id : id = Head(evict_queue)
    OBVIOUS
  <2>2. /\ id \in ObjectIDs /\ Unused(id) /\ Holders(id) = {}
        /\ objects' = [objects EXCEPT ![id] = NoEntry] /\ UNCHANGED object_ids
    BY <1>1, <1>3, <2>1, EvictOneCore
  <2> QED
    BY <1>1, <2>2, VisibleDrop
<1>4. CASE EnforceQuota
  BY <1>4, VisibleNothing DEF EnforceQuota
<1>5. CASE MakeRoom
  BY <1>5, VisibleNothing DEF MakeRoom
<1>6. CASE AbortCreated
  <2>1. /\ loop.pc \in {"abort", "oom"} /\ loop.ids # <<>>
        /\ AbortObject(Head(loop.ids), loop.c) /\ UNCHANGED evict_queue
    BY <1>6 DEF AbortCreated, At
  <2>2. Aborting /\ loop.c \in Clients /\ loop.ids \in Seq(ObjectIDs)
    BY <1>1, <2>1, LoopFields DEF LoopInv, RestType
  <2>3. PICK id \in ObjectIDs, c \in Clients : id = Head(loop.ids) /\ c = loop.c
    BY <2>1, <2>2, TailFacts
  <2>4. Mine(id) /\ Quotas = {}
    BY <2>1, <2>2, <2>3, TailFacts DEF Aborting
  <2>5. /\ objects' = [objects EXCEPT ![id] = NoEntry] /\ Holders(id) = {c}
        /\ object_ids' = [object_ids EXCEPT ![c] = @ \ {id}]
    BY <1>1, <2>1, <2>3, <2>4, AbortObjectCore DEF Mine, Held
  <2> QED
    BY <1>1, <2>4, <2>5, VisibleAbort DEF Mine
<1>7. CASE SealOne
  <2>1. Sealing /\ loop.ids \in Seq(ObjectIDs)
    BY <1>1, <1>7, LoopFields DEF SealOne, At, LoopInv, RestType
  <2>2. PICK id \in ObjectIDs : id = Head(loop.ids)
    BY <2>1, TailFacts DEF Sealing
  <2>3. objects[id].state = "CREATED"
    BY <2>1, <2>2, TailFacts DEF Sealing
  <2>4. objects' = [objects EXCEPT ![id].state = "SEALED"] /\ UNCHANGED object_ids
    BY <1>1, <1>7, <2>2, <2>3, SealOneCore
  <2> QED
    BY <1>1, <2>3, <2>4, VisibleSeal
<1>8. CASE UpdateWaiter
  <2> DEFINE waiting == object_get_requests_[Head(loop.ids)]
  <2>1. /\ loop.pc = "update" /\ evict_queue = <<>>
        /\ UNCHANGED <<connected, deletion_cache_, allocated_, evict_queue>>
    BY <1>8, Zenon DEF UpdateWaiter, At
  <2>2. /\ Updating /\ loop.ids \in Seq(ObjectIDs) /\ loop.all \in Seq(ObjectIDs)
        /\ loop.index \in Nat
    BY <1>1, <2>1, LoopFields DEF LoopInv, RestType
  <2>3. PICK id \in ObjectIDs : id = Head(loop.ids)
    BY <2>2, TailFacts DEF Updating
  <2>4. Sealed(id)
    BY <2>2, <2>3, TailFacts DEF Updating
  <2>5. CASE loop.index > Len(waiting)
    <3>1. UNCHANGED <<objects, object_ids>>
      BY <1>8, <2>5, Zenon DEF UpdateWaiter
    <3> QED
      BY <3>1, VisibleNothing
  <2>6. CASE ~(loop.index > Len(waiting))
    <3>1. waiting \in Seq(Clients) /\ Len(waiting) \in Nat
      BY <1>1, <2>3, LenProperties DEF RestType
    <3>2. loop.index \in 1 .. Len(waiting)
      BY <2>2, <2>6, <3>1 DEF Updating
    <3>3. PICK c \in Clients : c = waiting[loop.index]
      BY <3>1, <3>2, ElementOfSeq
    <3>4. AddToClientObjectIds(id, c)
      BY <1>8, <2>3, <2>6, <3>3, Zenon DEF UpdateWaiter
    <3>5. /\ object_ids' = [object_ids EXCEPT ![c] = @ \cup {id}]
          /\ \A x \in ObjectIDs : /\ objects'[x].state = objects[x].state
                                  /\ objects'[x].size = objects[x].size
      BY <1>1, <2>1, <2>4, <3>4, AddRefCore
    <3> QED
      BY <1>1, <2>4, <3>5, VisibleAcquire
  <2> QED
    BY <2>5, <2>6
<1>9. ASSUME NEW id \in ObjectIDs, NEW c \in Clients, id \in object_ids[c], Sealed(id),
             evict_queue = <<>>, RemoveFromClientObjectIds(id, c), UNCHANGED evict_queue
      PROVE  Visible
  <2>1. /\ object_ids' = [object_ids EXCEPT ![c] = @ \ {id}]
        /\ \A x \in ObjectIDs \ {id} : objects'[x] = objects[x]
        /\ \/ /\ objects'[id].state = objects[id].state
              /\ objects'[id].size = objects[id].size
           \/ Holders(id) = {c} /\ objects' = [objects EXCEPT ![id] = NoEntry]
    BY <1>1, <1>9, DropRefCore
  <2> QED
    BY <1>1, <1>9, <2>1, VisibleRelease
<1>10. CASE ReleaseCreated
  <2>1. /\ loop.pc = "release" /\ evict_queue = <<>> /\ UNCHANGED evict_queue
        /\ RemoveFromClientObjectIds(Head(loop.ids), loop.c)
    BY <1>10 DEF ReleaseCreated, At
  <2>2. Releasing /\ loop.c \in Clients /\ loop.ids \in Seq(ObjectIDs)
    BY <1>1, <2>1, LoopFields DEF LoopInv, RestType
  <2>3. Head(loop.ids) \in ObjectIDs /\ Held(Head(loop.ids)) /\ Sealed(Head(loop.ids))
    BY <2>2, TailFacts DEF Releasing
  <2> QED
    BY <1>9, <2>1, <2>2, <2>3 DEF Held
<1>11. ASSUME NEW id \in ObjectIDs, ReleaseHeld(id) PROVE Visible
  <2>1. /\ loop.pc = "disconnect" /\ evict_queue = <<>> /\ UNCHANGED evict_queue
        /\ id \in object_ids[loop.c] /\ RemoveFromClientObjectIds(id, loop.c)
    BY <1>11 DEF ReleaseHeld, At
  <2>2. loop.c \in Clients /\ Sealed(id)
    BY <1>1, <2>1 DEF LoopInv
  <2> QED
    BY <1>9, <2>1, <2>2
<1>12. CASE GetLocal
  <2>1. /\ loop.pc = "get" /\ loop.ids # <<>> /\ evict_queue = <<>>
        /\ UNCHANGED <<deletion_cache_, allocated_, evict_queue>>
    BY <1>12 DEF GetLocal, At
  <2>2. loop.c \in Clients /\ loop.ids \in Seq(ObjectIDs)
    BY <1>1, <2>1, LoopFields DEF LoopInv, RestType
  <2>3. PICK id \in ObjectIDs, c \in Clients : id = Head(loop.ids) /\ c = loop.c
    BY <2>1, <2>2, TailFacts
  <2>4. CASE Sealed(id)
    <3>1. AddToClientObjectIds(id, c)
      BY <1>12, <2>3, <2>4 DEF GetLocal
    <3>2. /\ object_ids' = [object_ids EXCEPT ![c] = @ \cup {id}]
          /\ \A x \in ObjectIDs : /\ objects'[x].state = objects[x].state
                                  /\ objects'[x].size = objects[x].size
      BY <1>1, <2>1, <2>4, <3>1, AddRefCore
    <3> QED
      BY <1>1, <2>4, <3>2, VisibleAcquire
  <2>5. CASE ~Sealed(id)
    BY <1>12, <2>3, <2>5, VisibleNothing DEF GetLocal
  <2> QED
    BY <2>4, <2>5
<1>13. CASE CreateObject
  <2>1. /\ Creating /\ ~Present(Head(loop.ids)) /\ loop.c \in Clients
        /\ loop.ids \in Seq(ObjectIDs) /\ loop.size \in Nat
    BY <1>1, <1>13, LoopFields DEF CreateObject, At, LoopInv, RestType
  <2>2. PICK id \in ObjectIDs, c \in Clients : id = Head(loop.ids) /\ c = loop.c
    BY <2>1, TailFacts DEF Creating
  <2>3. PICK n \in Sizes : n = loop.size
    BY <2>1 DEF Creating
  <2>4. /\ objects' = [objects EXCEPT ![id] =
             [state |-> "CREATED", size |-> n, ref_count |-> 1]]
        /\ object_ids' = [object_ids EXCEPT ![c] = @ \cup {id}] /\ Holders(id) = {}
    BY <1>1, <1>13, <2>1, <2>2, <2>3, CreateObjectCore
  <2> QED
    BY <1>1, <2>1, <2>2, <2>4, VisibleCreate
<1>14. ASSUME NEW c \in Clients, Message(c) PROVE Visible
  <2>1. ASSUME NEW id \in ObjectIDs, AbortRequest(c, id) PROVE Visible
    <3>1. /\ "Abort" \in Requests /\ id \in object_ids[c] /\ objects[id].state = "CREATED"
          /\ AbortObject(id, c) /\ UNCHANGED evict_queue
      BY <2>1 DEF AbortRequest
    <3>2. Quotas = {}
      BY <3>1 DEF QuotasStayExact
    <3>3. /\ objects' = [objects EXCEPT ![id] = NoEntry] /\ Holders(id) = {c}
          /\ object_ids' = [object_ids EXCEPT ![c] = @ \ {id}]
      BY <1>1, <3>1, <3>2, AbortObjectCore
    <3> QED
      BY <1>1, <3>1, <3>3, VisibleAbort
  <2>2. ASSUME NEW id \in ObjectIDs, ReleaseRequest(c, id) PROVE Visible
    <3>1. /\ id \in object_ids[c] /\ Sealed(id) /\ RemoveFromClientObjectIds(id, c)
          /\ evict_queue = <<>> /\ UNCHANGED evict_queue
      BY <2>2 DEF ReleaseRequest, Ready, Free, LocalReleases
    <3> QED
      BY <1>9, <3>1
  <2>3. ASSUME NEW id \in ObjectIDs, DeleteRequest(c, id) PROVE Visible
    <3>1. /\ \/ UNCHANGED objects
             \/ Unused(id) /\ Holders(id) = {} /\ objects' = [objects EXCEPT ![id] = NoEntry]
          /\ UNCHANGED object_ids
      BY <1>1, <2>3, DeleteCore
    <3> QED
      BY <1>1, <3>1, VisibleNothing, VisibleDrop
  <2>4. ASSUME NEW id \in ObjectIDs, NEW n \in Sizes, NEW e \in EvictIfFull,
               CreateRequest(c, id, n, e)
        PROVE  Visible
    BY <1>2, <2>4 DEF CreateRequest
  <2>5. ASSUME NEW ids \in CreateLists, NEW n \in Sizes, NEW e \in EvictIfFull,
               CreateAndSealRequest(c, ids, n, e)
        PROVE  Visible
    BY <1>2, <2>5 DEF CreateAndSealRequest
  <2>6. ASSUME NEW ids \in GetLists, NEW t \in Timeouts, GetRequest(c, ids, t) PROVE Visible
    BY <1>2, <2>6 DEF GetRequest
  <2>7. ASSUME NEW id \in ObjectIDs, SealRequest(c, id) \/ RefreshRequest(c, id)
        PROVE  Visible
    BY <1>2, <2>7 DEF SealRequest, RefreshRequest
  <2>8. ASSUME NEW n \in EvictBytes, EvictRequest(c, n) PROVE Visible
    BY <1>2, <2>8 DEF EvictRequest
  <2>9. ASSUME NEW q \in Quotas, SetOptionsRequest(c, q) PROVE Visible
    BY <1>2, <2>9 DEF SetOptionsRequest
  <2> QED
    BY <1>14, <2>1, <2>2, <2>3, <2>4, <2>6, <2>7, <2>8, <2>9, <2>5 DEF Message
<1>15. ASSUME NEW c \in Clients, DisconnectClient(c) PROVE Visible
  BY <1>1, <1>15, VisibleDisconnect
<1> QED
  BY <1>2, <1>3, <1>4, <1>5, <1>6, <1>7, <1>8, <1>10, <1>11, <1>12, <1>13, <1>14, <1>15
  DEF Next, Step, Continue, ObjectExists, GetRemote, ReplyError, UpdateDone, GetEnd,
      DisconnectEnd, ConnectClient, TimerFires, vars

(* The promise to the clients: what a client holds stays and stays the     *)
(* same, only the creator touches an unsealed object, and only what nobody *)
(* holds is dropped.                                                       *)
THEOREM StoreImplementsSpec ==
  ASSUME LocalReleases, QuotasStayExact
  PROVE  Spec => Implements
<1>1. Init => AbstractStore!Init
  <2> SUFFICES ASSUME Init PROVE AbstractStore!Init
    OBVIOUS
  <2>1. /\ objects = [id \in ObjectIDs |-> NoEntry]
        /\ object_ids = [c \in Clients |-> {}]
    BY DEF Init
  <2>2. \A id \in ObjectIDs : Holders(id) = {}
    BY <2>1 DEF Holders
  <2> QED
    BY <2>1, <2>2 DEF AbstractStore!Init, AbstractStore!Absent, NoEntry
<1>2. IInv /\ [Next]_vars => Visible
  BY StepIsVisible
<1>3. Visible => [AbstractStore!Next]_<<Table, Users>>
  BY DEF Visible
<1> QED
  BY <1>1, <1>2, <1>3, BookkeepingHolds, PTL
  DEF Spec, Implements, AbstractStore!Spec, Table, Users
=============================================================================
