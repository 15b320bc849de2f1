---------------------- MODULE PlasmaStoreQuotas_proofs -----------------------
(***************************************************************************)
(* The memory quotas of the clients, for any number of clients, objects    *)
(* and quotas: no client is charged beyond its quota, no object is in two  *)
(* queues, and the capacity that quotas take from the global LRU comes     *)
(* back.                                                                   *)
(***************************************************************************)
EXTENDS PlasmaStore_proofs

(* AllocateMemory enforces a quota only for clients that let it evict.     *)
CreatesMayEvict == EvictIfFull \subseteq {TRUE}

WithQuota(p) == {c \in Clients : HasQuota(p, c)}

Reserved(p) == [c \in WithQuota(p) |-> p.per_client_cache_[c].capacity]

(* What quotas take from the global LRU is what is missing there.          *)
CapacityKept(p) == p.cache_.capacity + Total(Reserved(p)) = Limit

Charged(p, c) == Bytes(p.per_client_cache_[c].items)

WithinQuotas(p) ==
  \A c \in Clients : HasQuota(p, c) => Charged(p, c) <= p.per_client_cache_[c].capacity

(* Between EnforcePerClientQuota and Memalign the room it made stays.      *)
RoomKept ==
  loop.pc = "alloc" /\ HasQuota(policy, loop.c) =>
    Charged(policy, loop.c) + loop.size <= policy.per_client_cache_[loop.c].capacity

------------------------------------------------------------------------------
(* No method of the policy but SetClientQuota and ClientDisconnected       *)
(* changes a capacity, and none but ObjectCreated charges anyone.          *)
Keeps(p, q) ==
  /\ q.cache_.capacity = p.cache_.capacity
  /\ \A c \in Clients :
       /\ q.per_client_cache_[c].capacity = p.per_client_cache_[c].capacity
       /\ Charged(q, c) <= Charged(p, c)

LEMMA ChargedType ==
  ASSUME NEW p, PolicyInv(p), NEW c \in Clients
  PROVE  /\ Charged(p, c) \in Nat
         /\ p.per_client_cache_[c].capacity \in Nat \cup {-1}
         /\ HasQuota(p, c) <=> p.per_client_cache_[c].capacity \in Nat
         /\ HasQuota(p, c) <=> p.per_client_cache_[c].capacity # -1
<1>1. /\ p.per_client_cache_[c] \in LruType /\ p.per_client_cache_[c].items \in Seq(Item)
      /\ HasQuota(p, c) <=> p.per_client_cache_[c].capacity \in Nat
      /\ HasQuota(p, c) <=> p.per_client_cache_[c].capacity # -1
  BY QuotaFacts
<1>2. p.per_client_cache_[c].capacity \in Nat \cup {-1}
  BY <1>1, LruFacts
<1> QED
  BY <1>1, <1>2, BytesType DEF Charged

LEMMA SameKeeps ==
  ASSUME NEW p, PolicyInv(p), NEW q, q.cache_.capacity = p.cache_.capacity,
         q.per_client_cache_ = p.per_client_cache_
  PROVE  Keeps(p, q)
<1>1. \A c \in Clients : Charged(p, c) \in Nat
  BY ChargedType
<1>2. \A c \in Clients : Charged(q, c) = Charged(p, c)
  BY DEF Charged
<1> QED
  BY <1>1, <1>2 DEF Keeps

LEMMA KeepsQuotas ==
  ASSUME NEW p, PolicyInv(p), NEW q, PolicyInv(q), Keeps(p, q)
  PROVE  /\ \A c \in Clients : HasQuota(q, c) <=> HasQuota(p, c)
         /\ CapacityKept(p) => CapacityKept(q)
         /\ WithinQuotas(p) => WithinQuotas(q)
         /\ \A c \in Clients, n \in Nat :
              Charged(p, c) + n <= p.per_client_cache_[c].capacity =>
                Charged(q, c) + n <= q.per_client_cache_[c].capacity
<1>1. \A c \in Clients :
        /\ Charged(p, c) \in Nat /\ Charged(q, c) \in Nat
        /\ p.per_client_cache_[c].capacity \in Nat \cup {-1}
        /\ HasQuota(p, c) <=> p.per_client_cache_[c].capacity # -1
        /\ HasQuota(q, c) <=> q.per_client_cache_[c].capacity # -1
        /\ q.per_client_cache_[c].capacity = p.per_client_cache_[c].capacity
        /\ Charged(q, c) <= Charged(p, c)
  BY ChargedType DEF Keeps
<1>2. \A c \in Clients : HasQuota(q, c) <=> HasQuota(p, c)
  BY <1>1
<1>3. WithQuota(q) = WithQuota(p)
  BY <1>2 DEF WithQuota
<1>4. Reserved(q) = Reserved(p)
  BY <1>1, <1>3 DEF Reserved, WithQuota
<1>5. CapacityKept(p) => CapacityKept(q)
  BY <1>4 DEF CapacityKept, Keeps
<1>6. WithinQuotas(p) => WithinQuotas(q)
  <2> HAVE WithinQuotas(p)
  <2>1. SUFFICES ASSUME NEW c \in Clients, HasQuota(q, c)
                 PROVE  Charged(q, c) <= q.per_client_cache_[c].capacity
    BY DEF WithinQuotas
  <2>2. Charged(p, c) <= p.per_client_cache_[c].capacity
    BY <1>2, <2>1 DEF WithinQuotas
  <2> DEFINE a == Charged(p, c)
             b == Charged(q, c)
             k == p.per_client_cache_[c].capacity
  <2>3. a \in Nat /\ b \in Nat /\ k \in Nat \cup {-1} /\ b <= a /\ a <= k
    BY <1>1, <2>2
  <2> HIDE DEF a, b, k
  <2>4. b <= k
    BY <2>3
  <2> QED
    BY <1>1, <2>4 DEF b, k
<1>7. ASSUME NEW c \in Clients, NEW n \in Nat,
             Charged(p, c) + n <= p.per_client_cache_[c].capacity
      PROVE  Charged(q, c) + n <= q.per_client_cache_[c].capacity
  <2> DEFINE a == Charged(p, c)
             b == Charged(q, c)
             k == p.per_client_cache_[c].capacity
  <2>1. a \in Nat /\ b \in Nat /\ k \in Nat \cup {-1} /\ b <= a /\ a + n <= k
    BY <1>1, <1>7
  <2> HIDE DEF a, b, k
  <2>2. b + n <= k
    BY <2>1
  <2> QED
    BY <1>1, <2>2 DEF b, k
<1> QED
  BY <1>2, <1>5, <1>6, <1>7

(* A sum with one more term.                                               *)
LEMMA TotalWith ==
  ASSUME NEW A, IsFiniteSet(A), NEW c, c \notin A, NEW f \in [A \cup {c} -> Nat]
  PROVE  /\ Total([x \in A |-> f[x]]) \in Nat
         /\ Total(f) = Total([x \in A |-> f[x]]) + f[c]
<1>1. PICK S : S = A \cup {c}
  OBVIOUS
<1>2. IsFiniteSet(S)
  BY <1>1, FS_AddElement
<1>3. f \in [S -> Nat] /\ A \in SUBSET S
  BY <1>1
<1>4. /\ Total([x \in A |-> f[x]]) \in Nat
      /\ Total(f) = Total([x \in A |-> f[x]]) + Total([x \in S \ A |-> f[x]])
  BY <1>2, <1>3, TotalSubset
<1>5. [x \in S \ A |-> f[x]] = [x \in {c} |-> f[c]]
  BY <1>1
<1>6. f[c] \in Nat
  OBVIOUS
<1>7. Total([x \in {c} |-> f[c]]) = f[c]
  BY <1>6, TotalOne
<1> QED
  BY <1>4, <1>5, <1>7

(* A quota is taken from the global LRU, or given back.                    *)
LEMMA CapacityMoves ==
  ASSUME NEW p, PolicyInv(p), NEW q, PolicyInv(q), NEW c \in Clients, ~HasQuota(p, c),
         NEW n \in Nat, q.per_client_cache_[c].capacity = n,
         \A d \in Clients \ {c} :
           q.per_client_cache_[d].capacity = p.per_client_cache_[d].capacity
  PROVE  /\ Total(Reserved(p)) \in Nat
         /\ Total(Reserved(q)) = Total(Reserved(p)) + n
<1>1. \A d \in Clients : /\ HasQuota(p, d) <=> p.per_client_cache_[d].capacity # -1
                         /\ HasQuota(q, d) <=> q.per_client_cache_[d].capacity # -1
                         /\ HasQuota(q, d) <=> q.per_client_cache_[d].capacity \in Nat
  BY ChargedType
<1>2. PICK A : A = WithQuota(p)
  OBVIOUS
<1>3. A \subseteq Clients /\ IsFiniteSet(A) /\ c \notin A
  BY <1>2, FiniteAssumption, FS_Subset DEF WithQuota
<1>4. n # -1
  OBVIOUS
<1>5. WithQuota(q) = A \cup {c}
  BY <1>1, <1>2, <1>4 DEF WithQuota
<1>6. PICK f : f = Reserved(q)
  OBVIOUS
<1>7. f \in [A \cup {c} -> Nat]
  BY <1>1, <1>5, <1>6 DEF Reserved, WithQuota
<1>8. [x \in A |-> f[x]] = Reserved(p)
  BY <1>2, <1>3, <1>5, <1>6 DEF Reserved
<1>9. f[c] = n
  BY <1>5, <1>6 DEF Reserved
<1>10. /\ Total([x \in A |-> f[x]]) \in Nat
       /\ Total(f) = Total([x \in A |-> f[x]]) + f[c]
  BY <1>3, <1>7, TotalWith
<1> QED
  BY <1>6, <1>8, <1>9, <1>10

------------------------------------------------------------------------------
(* The methods that change no capacity.                                    *)

LEMMA AccessKeeps ==
  ASSUME NEW p, PolicyInv(p), NEW id, NEW size
  PROVE  /\ Keeps(p, BeginObjectAccess(p, id))
         /\ Keeps(p, EndObjectAccess(p, id, size))
<1>1. p \in PolicyType /\ p.cache_ \in LruType
  BY PolicyFields DEF PolicyInv
<1>2. Keeps(p, BeginObjectAccess(p, id))
  <2> DEFINE q == BeginObjectAccess(p, id)
  <2>1. q.per_client_cache_ = p.per_client_cache_ /\ q.cache_.capacity = p.cache_.capacity
    BY <1>1 DEF BeginObjectAccess, GlobalRemove, Remove_, PolicyType, LruType
  <2> HIDE DEF q
  <2>2. Keeps(p, q)
    BY <2>1, SameKeeps
  <2> QED
    BY <2>2 DEF q
<1>3. Keeps(p, EndObjectAccess(p, id, size))
  <2> DEFINE q == EndObjectAccess(p, id, size)
  <2>1. q.per_client_cache_ = p.per_client_cache_ /\ q.cache_.capacity = p.cache_.capacity
    BY <1>1 DEF EndObjectAccess, GlobalAdd, Add, PolicyType, LruType
  <2> HIDE DEF q
  <2>2. Keeps(p, q)
    BY <2>1, SameKeeps
  <2> QED
    BY <2>2 DEF q
<1> QED
  BY <1>2, <1>3

LEMMA ReferenceKeeps ==
  ASSUME Core, NEW id, NEW c, AddToClientObjectIds(id, c) \/ RemoveFromClientObjectIds(id, c)
  PROVE  Keeps(policy, policy')
<1>1. PolicyInv(policy)
  BY DEF Core
<1>2. Keeps(policy, policy)
  BY <1>1, SameKeeps
<1>3. \/ policy' = policy \/ policy' = BeginObjectAccess(policy, id)
      \/ policy' = EndObjectAccess(policy, id, objects[id].size)
  BY DEF AddToClientObjectIds, RemoveFromClientObjectIds
<1> QED
  BY <1>1, <1>2, <1>3, AccessKeeps

LEMMA RequestsKeep ==
  ASSUME Core, NEW c, NEW id \in ObjectIDs, RefreshRequest(c, id) \/ DeleteRequest(c, id)
  PROVE  Keeps(policy, policy')
<1>1. PolicyInv(policy)
  BY DEF Core
<1>2. CASE RefreshRequest(c, id)
  <2>1. policy' = RefreshObject(policy, id)
    BY <1>2 DEF RefreshRequest
  <2>2. /\ policy'.cache_.capacity = policy.cache_.capacity
        /\ \A d \in Clients :
             /\ policy'.per_client_cache_[d].capacity = policy.per_client_cache_[d].capacity
             /\ Bytes(policy'.per_client_cache_[d].items)
                  = Bytes(policy.per_client_cache_[d].items)
    BY <1>1, <2>1, RefreshFacts
  <2>3. \A d \in Clients : Charged(policy, d) \in Nat
    BY <1>1, ChargedType
  <2> QED
    BY <2>2, <2>3 DEF Keeps, Charged
<1>3. CASE DeleteRequest(c, id)
  <2>1. policy' = policy \/ policy' = RemoveObject(policy, id)
    BY <1>3 DEF DeleteRequest
  <2>2. CASE policy' = policy
    BY <1>1, <2>2, SameKeeps
  <2>3. CASE policy' = RemoveObject(policy, id)
    <3>1. Removed(policy, policy', id)
      BY <1>1, <2>3, RemoveFacts
    <3> QED
      BY <3>1 DEF Removed, Keeps, Charged
  <2> QED
    BY <2>1, <2>2, <2>3
<1> QED
  BY <1>2, <1>3

------------------------------------------------------------------------------
(* What a step does to the quotas.                                         *)

(* No capacity changes, nobody is charged more, and no handler comes to    *)
(* Memalign.                                                               *)
Quiet == Keeps(policy, policy') /\ (loop'.pc = "alloc" => loop' = loop)

LEMMA SamePolicyQuiet ==
  ASSUME IInv, policy' = policy, loop'.pc # "alloc" \/ loop' = loop
  PROVE  Quiet
<1>1. PolicyInv(policy)
  BY DEF IInv, Core
<1>2. Keeps(policy, policy')
  BY <1>1, SameKeeps
<1> QED
  BY <1>2 DEF Quiet

LEMMA LoopElsewhere ==
  ASSUME RestType, NEW l, \/ l = Idle
                          \/ l = Fail("abort") \/ l = Fail("oom")
                          \/ \E ids \in Seq(ObjectIDs) : l = UpdateNext(ids)
  PROVE  l.pc # "alloc"
<1>1. loop \in LoopType
  BY DEF RestType
<1>2. ASSUME l = Idle PROVE l.pc # "alloc"
  BY <1>2 DEF Idle
<1>3. ASSUME l = Fail("abort") \/ l = Fail("oom") PROVE l.pc # "alloc"
  BY <1>1, <1>3 DEF Fail, LoopType
<1>4. ASSUME NEW ids \in Seq(ObjectIDs), l = UpdateNext(ids) PROVE l.pc # "alloc"
  BY <1>1, <1>4 DEF UpdateNext, LoopType, Idle
<1> QED
  BY <1>2, <1>3, <1>4

LEMMA HandlerQuiet ==
  ASSUME IInv,
         \/ EvictOne \/ MakeRoom \/ AbortCreated \/ ReplyError \/ SealOne \/ UpdateWaiter
         \/ UpdateDone \/ ReleaseCreated \/ GetLocal \/ GetEnd \/ DisconnectEnd
         \/ \E answer \in PeerAnswers : ObjectExists(answer) \/ GetRemote(answer)
         \/ \E id \in ObjectIDs : ReleaseHeld(id)
         \/ UNCHANGED vars
  PROVE  Quiet
<1>1. /\ Core /\ RestType /\ loop \in LoopType /\ PolicyInv(policy)
      /\ loop.ids \in Seq(ObjectIDs) /\ loop.all \in Seq(ObjectIDs) /\ loop.size \in Nat
  BY LoopFields DEF IInv, RestType, Core
<1>2. CASE EvictOne \/ UNCHANGED vars
  <2>1. policy' = policy /\ loop' = loop
    BY <1>2 DEF EvictOne, vars
  <2> QED
    BY <2>1, SamePolicyQuiet
<1>3. CASE MakeRoom
  <2>1. /\ policy'.per_client_cache_ = policy.per_client_cache_
        /\ policy'.cache_.capacity = policy.cache_.capacity
        /\ loop' = loop \/ loop' = Fail("oom")
    BY <1>1, <1>3, MakeRoomCore
  <2>2. Keeps(policy, policy')
    BY <1>1, <2>1, SameKeeps
  <2> QED
    BY <1>1, <2>1, <2>2, LoopElsewhere DEF Quiet
<1>4. CASE AbortCreated
  <2>1. policy' = policy
    BY <1>4 DEF AbortCreated, AbortObject
  <2>2. loop'.pc = loop.pc /\ loop.pc \in {"abort", "oom"}
    BY <1>1, <1>4 DEF AbortCreated, At, LoopType
  <2> QED
    BY <2>1, <2>2, SamePolicyQuiet
<1>5. CASE ReplyError \/ GetEnd \/ DisconnectEnd
  <2>1. policy' = policy /\ loop' = Idle
    BY <1>5 DEF ReplyError, GetEnd, DisconnectEnd
  <2> QED
    BY <1>1, <2>1, LoopElsewhere, SamePolicyQuiet
<1>6. CASE SealOne
  <2>1. /\ policy' = policy /\ loop.pc = "seal"
        /\ \/ loop' = UpdateNext(loop.all)
           \/ loop' = [loop EXCEPT !.ids = Tail(loop.ids)]
    BY <1>6 DEF SealOne, At
  <2>2. loop'.pc # "alloc"
    BY <1>1, <2>1, LoopElsewhere DEF LoopType
  <2> QED
    BY <2>1, <2>2, SamePolicyQuiet
<1>7. CASE UpdateWaiter
  <2>1. /\ loop.pc = "update"
        /\ loop'.pc = loop.pc
    <3>1. loop.pc = "update"
      BY <1>7 DEF UpdateWaiter, At
    <3>2. \/ loop' = loop
          \/ \E i, n : loop' = Turn(loop, i, n)
      BY <1>7, Zenon DEF UpdateWaiter, Turn
    <3>3. \A i, n : Turn(loop, i, n).pc = loop.pc
      BY <1>1 DEF Turn, LoopType
    <3> QED
      BY <3>1, <3>2, <3>3
  <2>2. policy' = policy \/ \E id, c : AddToClientObjectIds(id, c)
    BY <1>7, Zenon DEF UpdateWaiter
  <2>3. Keeps(policy, policy')
    BY <1>1, <2>2, SameKeeps, ReferenceKeeps
  <2> QED
    BY <2>1, <2>3 DEF Quiet
<1>8. CASE UpdateDone
  <2>1. policy' = policy /\ loop' = UpdateNext(Tail(loop.ids)) /\ loop.pc = "update"
    BY <1>8 DEF UpdateDone, At
  <2>2. Tail(loop.ids) \in Seq(ObjectIDs)
    BY <1>1, <2>1, TailFacts DEF IInv, LoopInv, Updating
  <2> QED
    BY <1>1, <2>1, <2>2, LoopElsewhere, SamePolicyQuiet
<1>9. CASE ReleaseCreated
  <2>1. /\ RemoveFromClientObjectIds(Head(loop.ids), loop.c) /\ loop.pc = "release"
        /\ loop' = Idle \/ loop' = [loop EXCEPT !.ids = Tail(loop.ids)]
    BY <1>9 DEF ReleaseCreated, At
  <2>2. loop'.pc # "alloc"
    BY <1>1, <2>1 DEF LoopType, Idle
  <2> QED
    BY <1>1, <2>1, <2>2, ReferenceKeeps DEF Quiet
<1>10. CASE GetLocal
  <2>1. /\ loop.pc = "get"
        /\ \/ policy' = policy \/ AddToClientObjectIds(Head(loop.ids), loop.c)
    BY <1>10 DEF GetLocal, At
  <2>2. loop'.pc = loop.pc
    BY <1>1, <1>10 DEF GetLocal, LoopType
  <2>3. Keeps(policy, policy')
    BY <1>1, <2>1, SameKeeps, ReferenceKeeps
  <2> QED
    BY <2>1, <2>2, <2>3 DEF Quiet
<1>11. ASSUME NEW answer \in PeerAnswers, ObjectExists(answer) PROVE Quiet
  <2>1. /\ policy' = policy
        /\ loop' = Fail("abort") \/ loop' = [loop EXCEPT !.pc = "quota"]
    BY <1>11 DEF ObjectExists
  <2>2. loop'.pc # "alloc"
    BY <1>1, <2>1, LoopElsewhere DEF LoopType
  <2> QED
    BY <2>1, <2>2, SamePolicyQuiet
<1>12. ASSUME NEW answer \in PeerAnswers, GetRemote(answer) PROVE Quiet
  <2>1. /\ policy' = policy /\ loop.pc = "get"
        /\ loop' = [loop EXCEPT !.ask = Tail(loop.ask)]
    BY <1>12 DEF GetRemote, At
  <2>2. loop'.pc # "alloc"
    BY <1>1, <2>1 DEF LoopType
  <2> QED
    BY <2>1, <2>2, SamePolicyQuiet
<1>13. ASSUME NEW id \in ObjectIDs, ReleaseHeld(id) PROVE Quiet
  <2>1. RemoveFromClientObjectIds(id, loop.c) /\ loop' = loop
    BY <1>13 DEF ReleaseHeld
  <2> QED
    BY <1>1, <2>1, ReferenceKeeps DEF Quiet
<1> QED
  BY <1>2, <1>3, <1>4, <1>5, <1>6, <1>7, <1>8, <1>9, <1>10, <1>11, <1>12, <1>13

LEMMA MessageQuiet ==
  ASSUME LocalReleases, IInv, NEW c \in Clients,
         ConnectClient(c) \/ TimerFires(c) \/ Message(c),
         \A q \in Quotas : ~SetOptionsRequest(c, q)
  PROVE  Quiet
<1>1. Core
  BY DEF IInv
<1>2. CASE ConnectClient(c) \/ TimerFires(c)
  <2>1. policy' = policy /\ loop' = loop
    BY <1>2 DEF ConnectClient, TimerFires
  <2> QED
    BY <2>1, SamePolicyQuiet
<1>3. ASSUME NEW id, NEW ids, NEW n, NEW e, NEW t,
             \/ CreateRequest(c, id, n, e) \/ CreateAndSealRequest(c, ids, n, e)
             \/ GetRequest(c, ids, t) \/ SealRequest(c, id)
      PROVE  Quiet
  <2>1. policy' = policy
    BY <1>3 DEF CreateRequest, CreateAndSealRequest, GetRequest, SealRequest
  <2>2. loop'.pc # "alloc"
    BY <1>3 DEF CreateRequest, CreateAndSealRequest, GetRequest, SealRequest, Idle
  <2> QED
    BY <2>1, <2>2, SamePolicyQuiet
<1>4. ASSUME NEW id \in ObjectIDs, AbortRequest(c, id) PROVE Quiet
  <2>1. policy' = policy /\ loop' = loop
    BY <1>4 DEF AbortRequest, AbortObject
  <2> QED
    BY <2>1, SamePolicyQuiet
<1>5. ASSUME NEW id \in ObjectIDs, ReleaseRequest(c, id) PROVE Quiet
  <2>1. /\ loop' = loop
        /\ policy' = policy \/ RemoveFromClientObjectIds(id, c)
    BY <1>5 DEF ReleaseRequest
  <2>2. PolicyInv(policy)
    BY <1>1 DEF Core
  <2>3. Keeps(policy, policy')
    BY <1>1, <2>1, <2>2, SameKeeps, ReferenceKeeps
  <2> QED
    BY <2>1, <2>3 DEF Quiet
<1>6. ASSUME NEW id \in ObjectIDs, RefreshRequest(c, id) \/ DeleteRequest(c, id)
      PROVE  Quiet
  <2>1. loop' = loop
    BY <1>6 DEF RefreshRequest, DeleteRequest
  <2>2. Keeps(policy, policy')
    BY <1>1, <1>6, RequestsKeep
  <2> QED
    BY <2>1, <2>2 DEF Quiet
<1>7. ASSUME NEW n \in EvictBytes, EvictRequest(c, n) PROVE Quiet
  <2>1. /\ n \in Int /\ loop' = loop /\ PolicyInv(policy)
        /\ policy' = ChooseObjectsToEvict(policy, n).policy
    BY <1>1, <1>7, SizesAssumption DEF EvictRequest, Core
  <2>2. Chosen(policy, ChooseObjectsToEvict(policy, n), n)
    BY <2>1, ChooseEvictFacts
  <2>3. /\ policy'.cache_.capacity = policy.cache_.capacity
        /\ policy'.per_client_cache_ = policy.per_client_cache_
    BY <2>1, <2>2 DEF Chosen
  <2>4. Keeps(policy, policy')
    BY <2>1, <2>3, SameKeeps
  <2> QED
    BY <2>1, <2>4 DEF Quiet
<1> QED
  BY <1>2, <1>3, <1>4, <1>5, <1>6, <1>7 DEF Message

(* Where the steps of the next-state relation fall.                        *)
LEMMA StepEffects ==
  ASSUME LocalReleases, IInv, [Next]_vars
  PROVE  \/ Quiet \/ EnforceQuota \/ CreateObject
         \/ \E c \in Clients, n \in Quotas : SetOptionsRequest(c, n)
         \/ \E c \in Clients : DisconnectClient(c)
<1>1. CASE \/ EvictOne \/ MakeRoom \/ AbortCreated \/ ReplyError \/ SealOne \/ UpdateWaiter
           \/ UpdateDone \/ ReleaseCreated \/ GetLocal \/ GetEnd \/ DisconnectEnd
           \/ \E answer \in PeerAnswers : ObjectExists(answer) \/ GetRemote(answer)
           \/ \E id \in ObjectIDs : ReleaseHeld(id)
           \/ UNCHANGED vars
  BY <1>1, HandlerQuiet
<1>2. ASSUME NEW c \in Clients, ConnectClient(c) \/ TimerFires(c) \/ Message(c)
      PROVE  Quiet \/ \E n \in Quotas : SetOptionsRequest(c, n)
  BY <1>2, MessageQuiet
<1> QED
  BY <1>1, <1>2 DEF Next, Step, Continue

LEMMA SameCapacities ==
  ASSUME NEW p, PolicyInv(p), NEW q, PolicyInv(q), q.cache_.capacity = p.cache_.capacity,
         \A c \in Clients : q.per_client_cache_[c].capacity = p.per_client_cache_[c].capacity,
         CapacityKept(p)
  PROVE  CapacityKept(q)
<1>1. \A c \in Clients : HasQuota(q, c) <=> HasQuota(p, c)
  BY QuotaFacts
<1>2. WithQuota(q) = WithQuota(p)
  BY <1>1 DEF WithQuota
<1>3. Reserved(q) = Reserved(p)
  BY <1>2 DEF Reserved, WithQuota
<1> QED
  BY <1>3 DEF CapacityKept

LEMMA EnforceKeeps ==
  ASSUME IInv, EnforceQuota
  PROVE  /\ Keeps(policy, policy')
         /\ loop.evict_if_full /\ loop'.pc = "alloc" /\ HasQuota(policy, loop.c) =>
              Charged(policy', loop.c) + loop.size <= policy'.per_client_cache_[loop.c].capacity
<1> DEFINE r == EnforcePerClientQuota(policy, loop.c, loop.size)
<1>1. /\ PolicyInv(policy) /\ loop \in LoopType /\ loop.c \in Clients /\ loop.size \in Nat
      /\ loop.pc = "quota" /\ RestType
  BY LoopFields DEF IInv, Core, RestType, LoopInv, EnforceQuota, At
<1>2. CASE ~loop.evict_if_full
  <2>1. policy' = policy
    BY <1>2 DEF EnforceQuota
  <2> QED
    BY <1>1, <1>2, <2>1, SameKeeps
<1>3. CASE loop.evict_if_full
  <2>1. /\ policy' = r.policy
        /\ loop' = IF r.ok THEN [loop EXCEPT !.pc = "alloc"] ELSE Fail("abort")
    BY <1>3 DEF EnforceQuota
  <2>2. Enforced(policy, r, loop.c, loop.size)
    BY <1>1, EnforceFacts
  <2> HIDE DEF r
  <2>3. /\ policy'.cache_ = policy.cache_ /\ PolicyInv(policy')
        /\ \A d \in Clients :
             /\ policy'.per_client_cache_[d].capacity = policy.per_client_cache_[d].capacity
             /\ Bytes(policy'.per_client_cache_[d].items)
                  <= Bytes(policy.per_client_cache_[d].items)
        /\ r.ok /\ HasQuota(policy, loop.c) =>
             RemainingCapacity(policy'.per_client_cache_[loop.c]) >= loop.size
    BY <2>1, <2>2 DEF Enforced
  <2>4. Keeps(policy, policy')
    BY <2>3 DEF Keeps, Charged
  <2>5. ASSUME loop'.pc = "alloc", HasQuota(policy, loop.c)
        PROVE  Charged(policy', loop.c) + loop.size
                 <= policy'.per_client_cache_[loop.c].capacity
    <3>1. r.ok
      BY <1>1, <2>1, <2>5, LoopElsewhere
    <3> DEFINE a == Charged(policy', loop.c)
               k == policy'.per_client_cache_[loop.c].capacity
    <3>2. a \in Nat /\ k \in Nat \cup {-1}
      BY <1>1, <2>3, ChargedType
    <3>3. k - a >= loop.size
      BY <2>3, <2>5, <3>1 DEF RemainingCapacity, Charged
    <3> HIDE DEF a, k
    <3>4. a + loop.size <= k
      BY <1>1, <3>2, <3>3
    <3> QED
      BY <3>4 DEF a, k
  <2> QED
    BY <2>4, <2>5
<1> QED
  BY <1>2, <1>3

LEMMA CreateCharges ==
  ASSUME IInv, CreateObject
  PROVE  Created(policy, policy', Head(loop.ids), loop.c, loop.size)
<1>1. /\ Core /\ PolicyInv(policy) /\ loop \in LoopType /\ loop.c \in Clients
      /\ loop.pc = "alloc" /\ loop.size \in Nat /\ ~Present(Head(loop.ids))
      /\ loop.ids \in Seq(ObjectIDs) /\ loop.ids # <<>> /\ evict_queue = <<>>
  BY LoopFields DEF IInv, Core, RestType, LoopInv, Creating, CreateObject, At
<1>2. PICK id \in ObjectIDs : id = Head(loop.ids)
  BY <1>1, TailFacts
<1>3. ObjectInv(id) /\ objects[id] = NoEntry
  BY <1>1, <1>2 DEF Core, Present
<1>4. id \notin Keys(policy.cache_) /\ ~Owned(policy, id)
  BY <1>3 DEF ObjectInv, NoEntry, Unused, Sealed, Evictable, Present
<1>5. policy' = BeginObjectAccess(ObjectCreated(policy, id, loop.c, loop.size), id)
  BY <1>2 DEF CreateObject
<1> QED
  BY <1>1, <1>2, <1>4, <1>5, CreatedFacts

LEMMA DisconnectReturns ==
  ASSUME IInv, NEW c \in Clients, DisconnectClient(c)
  PROVE  Disconnected(policy, policy', c)
<1>1. /\ Core /\ PolicyInv(policy) /\ objects \in [ObjectIDs -> Entry]
      /\ policy' = ClientDisconnected(policy, c, SizeOf)
  BY DEF IInv, Core, CoreType, DisconnectClient
<1>2. ASSUME NEW id \in ObjectIDs, policy.owned_by_client_[id] = c,
             id \notin policy.shared_for_read_
      PROVE  SizeOf[id] \in Nat
  <2>1. Owned(policy, id) /\ ObjectInv(id)
    BY <1>1, <1>2, NoClientAssumption DEF Owned, Core
  <2>2. Present(id) /\ objects[id].size \in Nat
    BY <1>1, <2>1 DEF ObjectInv, Entry
  <2> QED
    BY <2>2 DEF SizeOf
<1> QED
  BY <1>1, <1>2, DisconnectedFacts

------------------------------------------------------------------------------
(* The capacities.                                                         *)

LEMMA CapacityOfQuotas ==
  ASSUME LocalReleases, QuotasStayExact, IInv, [Next]_vars, CapacityKept(policy)
  PROVE  CapacityKept(policy')
<1>1. /\ Core /\ RestType /\ LoopInv /\ PolicyInv(policy) /\ IInv' /\ PolicyInv(policy')
  BY NextIInv DEF IInv, Core
<1>2. CASE Quiet
  BY <1>1, <1>2, KeepsQuotas DEF Quiet
<1>3. CASE EnforceQuota
  <2>1. Keeps(policy, policy')
    BY <1>1, <1>3, EnforceKeeps
  <2> QED
    BY <1>1, <2>1, KeepsQuotas
<1>4. CASE CreateObject
  <2>1. /\ policy'.cache_.capacity = policy.cache_.capacity
        /\ \A d \in Clients :
             policy'.per_client_cache_[d].capacity = policy.per_client_cache_[d].capacity
    BY <1>1, <1>4, CreateCharges DEF Created
  <2> QED
    BY <1>1, <2>1, SameCapacities
<1>5. ASSUME NEW c \in Clients, NEW n \in Quotas, SetOptionsRequest(c, n)
      PROVE  CapacityKept(policy')
  <2>1. QuotaSet(policy, policy', c, n) /\ n \in Nat
    BY <1>1, <1>5, SetQuotaFacts, LimitAssumption, SizesAssumption DEF SetOptionsRequest
  <2>2. CASE policy' = policy
    BY <2>2
  <2>3. CASE policy' # policy
    <3>1. /\ ~HasQuota(policy, c)
          /\ policy'.cache_.capacity = policy.cache_.capacity - n
          /\ policy'.per_client_cache_ = [policy.per_client_cache_ EXCEPT ![c] = LRUCache(n)]
      BY <2>1, <2>3 DEF QuotaSet
    <3>2. policy.per_client_cache_ \in [Clients -> LruType]
      BY <1>1, PolicyFields DEF PolicyInv
    <3>3. PICK m \in Nat : m = n
      BY <2>1
    <3>4. ~HasQuota(policy, c)
      BY <3>1
    <3>5. /\ policy'.per_client_cache_[c].capacity = m
          /\ \A d \in Clients \ {c} :
               policy'.per_client_cache_[d].capacity = policy.per_client_cache_[d].capacity
      BY <3>1, <3>2, <3>3 DEF LRUCache
    <3>6. /\ Total(Reserved(policy)) \in Nat
          /\ Total(Reserved(policy')) = Total(Reserved(policy)) + m
      BY <1>1, <3>4, <3>5, CapacityMoves
    <3>7. policy.cache_.capacity \in Nat
      BY <1>1 DEF PolicyInv
    <3> QED
      BY <2>1, <3>1, <3>3, <3>6, <3>7 DEF CapacityKept
  <2> QED
    BY <2>2, <2>3
<1>6. ASSUME NEW c \in Clients, DisconnectClient(c) PROVE CapacityKept(policy')
  <2>1. Disconnected(policy, policy', c)
    BY <1>1, <1>6, DisconnectReturns
  <2>2. /\ policy'.cache_.capacity = policy.cache_.capacity
             + (IF HasQuota(policy, c) THEN policy.per_client_cache_[c].capacity ELSE 0)
        /\ policy'.per_client_cache_ = [policy.per_client_cache_ EXCEPT ![c] = NoQuota]
    BY <2>1 DEF Disconnected
  <2>3. policy.per_client_cache_ \in [Clients -> LruType] /\ policy.cache_.capacity \in Nat
    BY <1>1, PolicyFields DEF PolicyInv
  <2>4. CASE ~HasQuota(policy, c)
    <3>1. policy'.per_client_cache_ = policy.per_client_cache_
      BY <2>2, <2>3, <2>4 DEF HasQuota
    <3>2. policy'.cache_.capacity = policy.cache_.capacity
      BY <2>2, <2>3, <2>4
    <3> QED
      BY <1>1, <3>1, <3>2, SameCapacities
  <2>5. CASE HasQuota(policy, c)
    <3>1. PICK n \in Nat : n = policy.per_client_cache_[c].capacity
      BY <1>1, <2>5, QuotaFacts
    <3>2. ~HasQuota(policy', c)
      BY <2>2, <2>3 DEF HasQuota
    <3>3. \A d \in Clients \ {c} :
            policy.per_client_cache_[d].capacity = policy'.per_client_cache_[d].capacity
      BY <2>2, <2>3
    <3>4. /\ Total(Reserved(policy')) \in Nat
          /\ Total(Reserved(policy)) = Total(Reserved(policy')) + n
      BY <1>1, <3>1, <3>2, <3>3, CapacityMoves
    <3>5. policy'.cache_.capacity = policy.cache_.capacity + n
      BY <2>2, <2>5, <3>1
    <3> QED
      BY <2>3, <3>4, <3>5 DEF CapacityKept
  <2> QED
    BY <2>4, <2>5
<1> QED
  BY <1>2, <1>3, <1>4, <1>5, <1>6, StepEffects

------------------------------------------------------------------------------
(* The charges.                                                            *)

LEMMA ChargesOfQuotas ==
  ASSUME LocalReleases, QuotasStayExact, CreatesMayEvict, IInv, [Next]_vars,
         WithinQuotas(policy), RoomKept
  PROVE  WithinQuotas(policy') /\ RoomKept'
<1>1. /\ Core /\ RestType /\ LoopInv /\ PolicyInv(policy) /\ PolicyInv(policy')
      /\ loop \in LoopType /\ loop' \in LoopType
      /\ loop.pc # "idle" => loop.c \in Clients
  BY NextIInv DEF IInv, Core, RestType, LoopInv
<1>2. CASE Quiet
  <2>1. Keeps(policy, policy') /\ (loop'.pc = "alloc" => loop' = loop)
    BY <1>2 DEF Quiet
  <2>2. /\ WithinQuotas(policy')
        /\ \A c \in Clients : HasQuota(policy', c) <=> HasQuota(policy, c)
        /\ \A c \in Clients, n \in Nat :
             Charged(policy, c) + n <= policy.per_client_cache_[c].capacity =>
               Charged(policy', c) + n <= policy'.per_client_cache_[c].capacity
    BY <1>1, <2>1, KeepsQuotas
  <2>3. ASSUME loop'.pc = "alloc", HasQuota(policy', loop'.c)
        PROVE  Charged(policy', loop'.c) + loop'.size
                 <= policy'.per_client_cache_[loop'.c].capacity
    <3>1. loop' = loop /\ loop.pc = "alloc" /\ loop.c \in Clients /\ loop.size \in Nat
      BY <1>1, <2>1, <2>3, LoopFields
    <3>2. Charged(policy, loop.c) + loop.size <= policy.per_client_cache_[loop.c].capacity
      BY <2>2, <2>3, <3>1 DEF RoomKept
    <3> QED
      BY <2>2, <3>1, <3>2
  <2> QED
    BY <2>2, <2>3 DEF RoomKept
<1>3. CASE EnforceQuota
  <2>1. /\ loop.pc = "quota" /\ Creating /\ loop.c \in Clients /\ loop.size \in Nat
        /\ loop.evict_if_full
        /\ loop' = [loop EXCEPT !.pc = "alloc"] \/ loop' = Fail("abort")
    BY <1>1, <1>3, LoopFields DEF EnforceQuota, At, LoopInv, Creating, CreatesMayEvict
  <2>2. Keeps(policy, policy')
    BY <1>3, EnforceKeeps
  <2>3. /\ WithinQuotas(policy')
        /\ HasQuota(policy', loop.c) <=> HasQuota(policy, loop.c)
    BY <1>1, <2>1, <2>2, KeepsQuotas
  <2>4. ASSUME loop'.pc = "alloc", HasQuota(policy', loop'.c)
        PROVE  Charged(policy', loop'.c) + loop'.size
                 <= policy'.per_client_cache_[loop'.c].capacity
    <3>1. loop' = [loop EXCEPT !.pc = "alloc"]
      BY <1>1, <2>1, <2>4, LoopElsewhere
    <3>2. loop'.c = loop.c /\ loop'.size = loop.size
      BY <1>1, <3>1 DEF LoopType
    <3> QED
      BY <1>3, <2>1, <2>3, <2>4, <3>2, EnforceKeeps
  <2> QED
    BY <2>3, <2>4 DEF RoomKept
<1>4. CASE CreateObject
  <2>1. /\ loop.pc = "alloc" /\ loop.c \in Clients /\ loop.size \in Nat
    BY <1>1, <1>4, LoopFields DEF CreateObject, At
  <2>2. loop'.pc # "alloc"
    BY <1>1, <1>4 DEF CreateObject, LoopType, Idle
  <2>3. \A d \in Clients :
          /\ policy'.per_client_cache_[d].capacity = policy.per_client_cache_[d].capacity
          /\ d # loop.c \/ ~HasQuota(policy, loop.c) =>
               policy'.per_client_cache_[d] = policy.per_client_cache_[d]
          /\ HasQuota(policy, loop.c) =>
               Charged(policy', loop.c) = Charged(policy, loop.c) + loop.size
    BY <1>4, CreateCharges DEF Created, Charged
  <2>4. ASSUME NEW d \in Clients, HasQuota(policy', d)
        PROVE  Charged(policy', d) <= policy'.per_client_cache_[d].capacity
    <3>1. HasQuota(policy, d)
      BY <1>1, <2>3, <2>4, QuotaFacts
    <3>2. CASE d = loop.c
      <4>1. Charged(policy, loop.c) + loop.size <= policy.per_client_cache_[loop.c].capacity
        BY <2>1, <3>1, <3>2 DEF RoomKept
      <4> QED
        BY <2>3, <3>1, <3>2, <4>1
    <3>3. CASE d # loop.c
      BY <2>3, <3>1, <3>3 DEF WithinQuotas, Charged
    <3> QED
      BY <3>2, <3>3
  <2> QED
    BY <2>2, <2>4 DEF WithinQuotas, RoomKept
<1>5. ASSUME NEW c \in Clients, NEW n \in Quotas, SetOptionsRequest(c, n)
      PROVE  WithinQuotas(policy') /\ RoomKept'
  <2>1. QuotaSet(policy, policy', c, n) /\ n \in Nat
    BY <1>1, <1>5, SetQuotaFacts, LimitAssumption, SizesAssumption DEF SetOptionsRequest
  <2>2. loop' = Idle /\ loop'.pc # "alloc"
    BY <1>5 DEF SetOptionsRequest, Ready, Free, Idle
  <2>3. CASE policy' = policy
    BY <2>2, <2>3 DEF RoomKept
  <2>4. CASE policy' # policy
    <3>1. policy'.per_client_cache_ = [policy.per_client_cache_ EXCEPT ![c] = LRUCache(n)]
      BY <2>1, <2>4 DEF QuotaSet
    <3>2. policy.per_client_cache_ \in [Clients -> LruType]
      BY <1>1, PolicyFields DEF PolicyInv
    <3>3. /\ policy'.per_client_cache_[c] = LRUCache(n)
          /\ \A d \in Clients \ {c} :
               policy'.per_client_cache_[d] = policy.per_client_cache_[d]
      BY <3>1, <3>2
    <3>4. Charged(policy', c) = 0 /\ policy'.per_client_cache_[c].capacity = n
      <4>1. /\ policy'.per_client_cache_[c].items = <<>>
            /\ policy'.per_client_cache_[c].capacity = n
        BY <3>3 DEF LRUCache
      <4>2. Bytes(<<>>) = 0
        BY TotalEmpty DEF Bytes
      <4> QED
        BY <4>1, <4>2 DEF Charged
    <3>5. ASSUME NEW d \in Clients, HasQuota(policy', d)
          PROVE  Charged(policy', d) <= policy'.per_client_cache_[d].capacity
      <4>1. CASE d = c
        BY <2>1, <3>4, <4>1
      <4>2. CASE d # c
        BY <3>3, <3>5, <4>2 DEF WithinQuotas, Charged, HasQuota
      <4> QED
        BY <4>1, <4>2
    <3> QED
      BY <2>2, <3>5 DEF WithinQuotas, RoomKept
  <2> QED
    BY <2>3, <2>4
<1>6. ASSUME NEW c \in Clients, DisconnectClient(c)
      PROVE  WithinQuotas(policy') /\ RoomKept'
  <2>1. policy'.per_client_cache_ = [policy.per_client_cache_ EXCEPT ![c] = NoQuota]
    BY <1>6, DisconnectReturns DEF Disconnected
  <2>2. policy.per_client_cache_ \in [Clients -> LruType]
    BY <1>1, PolicyFields DEF PolicyInv
  <2>3. loop'.pc # "alloc"
    BY <1>6 DEF DisconnectClient, Idle
  <2>4. ASSUME NEW d \in Clients, HasQuota(policy', d)
        PROVE  Charged(policy', d) <= policy'.per_client_cache_[d].capacity
    <3>1. d # c
      BY <2>1, <2>2, <2>4 DEF HasQuota
    <3>2. policy'.per_client_cache_[d] = policy.per_client_cache_[d]
      BY <2>1, <2>2, <3>1
    <3> QED
      BY <2>4, <3>2 DEF WithinQuotas, Charged, HasQuota
  <2> QED
    BY <2>3, <2>4 DEF WithinQuotas, RoomKept
<1> QED
  BY <1>2, <1>3, <1>4, <1>5, <1>6, StepEffects

------------------------------------------------------------------------------
LEMMA InitQuotas ==
  ASSUME Init PROVE CapacityKept(policy) /\ WithinQuotas(policy) /\ RoomKept
<1>1. policy = InitialPolicy /\ loop = Idle
  BY DEF Init
<1>2. /\ \A c \in Clients : ~HasQuota(policy, c)
      /\ policy.cache_.capacity = Limit
  BY <1>1 DEF InitialPolicy, HasQuota, LRUCache
<1>3. DOMAIN Reserved(policy) = {}
  BY <1>2 DEF Reserved, WithQuota
<1>4. Total(Reserved(policy)) = 0
  BY <1>3, TotalEmpty
<1> QED
  BY <1>1, <1>2, <1>4, LimitAssumption DEF CapacityKept, WithinQuotas, RoomKept, Idle

(* EnforcePerClientQuota, called before every Memalign, leaves room for    *)
(* the new object, and nothing takes that room before ObjectCreated        *)
(* charges for it: no client is ever charged beyond its quota.             *)
THEOREM QuotasAreCaps ==
  ASSUME LocalReleases, QuotasStayExact, CreatesMayEvict
  PROVE  Spec => []QuotaCap
<1> DEFINE Inv == IInv /\ WithinQuotas(policy) /\ RoomKept
<1>1. Init => Inv
  BY InitIInv, InitQuotas
<1>2. Inv /\ [Next]_vars => Inv'
  BY NextIInv, ChargesOfQuotas
<1>3. Inv => QuotaCap
  <2> SUFFICES ASSUME Inv, NEW c \in Clients, HasQuota(policy, c)
               PROVE  RemainingCapacity(policy.per_client_cache_[c]) >= 0
    BY DEF QuotaCap
  <2> DEFINE a == Charged(policy, c)
             k == policy.per_client_cache_[c].capacity
  <2>1. PolicyInv(policy)
    BY DEF IInv, Core
  <2>2. a \in Nat /\ k \in Nat \cup {-1} /\ a <= k
    BY <2>1, ChargedType DEF WithinQuotas
  <2>3. RemainingCapacity(policy.per_client_cache_[c]) = k - a
    BY DEF RemainingCapacity, Charged
  <2> HIDE DEF a, k
  <2> QED
    BY <2>2, <2>3
<1> QED
  BY <1>1, <1>2, <1>3, PTL DEF Spec

LEMMA DistinctOnce ==
  ASSUME NEW lru \in LruType, Distinct(lru.items)
  PROVE  Cardinality(Keys(lru)) = Len(lru.items)
<1>1. /\ lru.items \in Seq(Item) /\ Len(lru.items) \in Nat
      /\ DOMAIN lru.items = 1 .. Len(lru.items)
  BY LruFacts, LenProperties
<1> DEFINE n == Len(lru.items)
           f == [i \in 1 .. n |-> lru.items[i].id]
<1>2. f \in Bijection(1 .. n, Keys(lru))
  BY <1>1 DEF Keys, Distinct, Bijection, Injection, Surjection, IsInjective
<1>3. ExistsBijection(1 .. n, Keys(lru))
  BY <1>2 DEF ExistsBijection
<1> QED
  BY <1>1, <1>3, FS_CountingElements

(* No object is in two queues of the policy or twice in one, the owner of  *)
(* an object is the client whose queue it is in, and the capacity that     *)
(* SetClientQuota takes from the global LRU is the capacity that           *)
(* ClientDisconnected gives back.                                          *)
THEOREM QueuesAreDisjoint ==
  ASSUME LocalReleases, QuotasStayExact
  PROVE  Spec => []QueuesDisjoint
<1> DEFINE Inv == IInv /\ CapacityKept(policy)
<1>1. Init => Inv
  BY InitIInv, InitQuotas
<1>2. Inv /\ [Next]_vars => Inv'
  BY NextIInv, CapacityOfQuotas
<1>3. Inv => QueuesDisjoint
  <2> SUFFICES ASSUME Inv PROVE QueuesDisjoint
    OBVIOUS
  <2>1. PolicyInv(policy) /\ policy.cache_ \in LruType
        /\ policy.per_client_cache_ \in [Clients -> LruType]
    BY PolicyFields DEF IInv, Core, PolicyInv
  <2>2. Cardinality(Keys(policy.cache_)) = Len(policy.cache_.items)
    BY <2>1, DistinctOnce DEF PolicyInv
  <2>3. ASSUME NEW c \in Clients
        PROVE  LET q == policy.per_client_cache_[c]
               IN  /\ Cardinality(Keys(q)) = Len(q.items)
                   /\ Keys(q) \cap Keys(policy.cache_) = {}
                   /\ Keys(q) = {id \in ObjectIDs : policy.owned_by_client_[id] = c}
    <3>1. /\ policy.per_client_cache_[c] \in LruType
          /\ Distinct(policy.per_client_cache_[c].items)
          /\ Keys(policy.per_client_cache_[c])
               = {id \in ObjectIDs : policy.owned_by_client_[id] = c}
      BY <2>1 DEF PolicyInv
    <3>2. Cardinality(Keys(policy.per_client_cache_[c]))
            = Len(policy.per_client_cache_[c].items)
      BY <3>1, DistinctOnce
    <3>3. Keys(policy.per_client_cache_[c]) \cap Keys(policy.cache_) = {}
      BY <2>1, <3>1, NoClientAssumption DEF PolicyInv, Owned
    <3> QED
      BY <3>1, <3>2, <3>3
  <2>4. policy.cache_.capacity + Total(Reserved(policy)) = Limit
    BY DEF CapacityKept
  <2>5. Reserved(policy) =
          [c \in {d \in Clients : HasQuota(policy, d)} |->
             [d \in Clients |-> policy.per_client_cache_[d]][c].capacity]
    BY DEF Reserved, WithQuota
  <2>6. \A c \in Clients : [d \in Clients |-> policy.per_client_cache_[d]][c]
                             = policy.per_client_cache_[c]
    OBVIOUS
  <2> QED
    BY <2>2, <2>3, <2>4, <2>5, <2>6 DEF QueuesDisjoint
<1> QED
  BY <1>1, <1>2, <1>3, PTL DEF Spec
=============================================================================
