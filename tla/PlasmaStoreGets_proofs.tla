----------------------- MODULE PlasmaStoreGets_proofs ------------------------
(***************************************************************************)
(* The Get requests that wait in the store, for any number of clients and  *)
(* objects: a request waits for exactly the objects it does not have, and  *)
(* every seal, timeout and disconnection finds it.                         *)
(***************************************************************************)
EXTENDS PlasmaStore_proofs

(* A Get that names an object twice is counted wrongly (see the repeated   *)
(* get of the runs).                                                       *)
DistinctGets == \A ids \in GetLists : IsInjective(ids)

(* The peer answers: a failed RPC ends the store.                          *)
PeerAnswering == "FAILED" \notin PeerAnswers

------------------------------------------------------------------------------
(* The clients whose requests UpdateObjectGetRequests has counted id for.  *)
Served(id) ==
  IF loop.pc = "update" /\ id = Head(loop.ids)
    THEN {object_get_requests_[id][i] : i \in 1 .. (loop.index - 1)} ELSE {}

Waiting(c) ==
  {id \in ObjectIDs : c \in ToSet(object_get_requests_[id]) /\ c \notin Served(id)}

InGet(c) == loop.pc = "get" /\ loop.c = c

(* What ProcessGetRequest has yet to look for.                             *)
ToDo(c) == IF InGet(c) THEN ToSet(loop.ids) \cup ToSet(loop.ask) ELSE {}

Missing(c) == Waiting(c) \cup ToDo(c)

(* A request is short of the objects it waits for, has the others here or  *)
(* at the peer, and is not about a client that the handler works for.      *)
Pending(c) ==
  /\ get_reqs[c].ids # <<>>
  /\ Missing(c) \subseteq ToSet(get_reqs[c].ids)
  /\ get_reqs[c].num_satisfied + Cardinality(Missing(c)) = NumToWaitFor(get_reqs[c])
  /\ ToSet(get_reqs[c].ids) \subseteq Missing(c) \cup object_ids[c] \cup get_reqs[c].at_peer
  /\ ~InGet(c) => /\ Missing(c) # {} /\ loop.c # c
                  /\ get_reqs[c].timer <=> get_reqs[c].timeout # Forever

RequestInv(c) ==
  IF get_reqs[c] = NoRequest THEN Missing(c) = {} /\ ~InGet(c) ELSE Pending(c)

(* ProcessGetRequest: ids and ask are what is left of the two loops.       *)
Getting ==
  /\ IsInjective(loop.ids) /\ IsInjective(loop.ask)
  /\ ToSet(loop.ids) \cap ToSet(loop.ask) = {}
  /\ Waiting(loop.c) \cap ToDo(loop.c) = {}
  /\ \A id \in ToSet(loop.ask) : ~Sealed(id)
  /\ ~get_reqs[loop.c].timer

(* A request is in no list twice.                                          *)
ListedOnce == \A id \in ObjectIDs : IsInjective(object_get_requests_[id])

(* The requests that wait for a sealed object are about to be counted.     *)
SealsAnswered ==
  \A id \in ObjectIDs : Sealed(id) /\ object_get_requests_[id] # <<>> =>
    \/ loop.pc = "seal" /\ id \in ToSet(loop.all)
    \/ loop.pc = "update" /\ id \in ToSet(loop.ids)

(* As many turns are left as there are requests still to be counted.       *)
TurnsLeft ==
  loop.pc = "update" =>
    loop.left + loop.index = Len(object_get_requests_[Head(loop.ids)]) + 1

GetInv ==
  /\ \A c \in Clients : RequestInv(c)
  /\ ListedOnce
  /\ SealsAnswered
  /\ TurnsLeft
  /\ loop.pc = "get" => Getting
  /\ crashed => "FAILED" \in PeerAnswers

------------------------------------------------------------------------------
(* Lists of requests: taking a client out, and adding one.                 *)

(* Without the element at k of a list without repetition, the elements     *)
(* before k are where they were.                                           *)
LEMMA PickAllBut ==
  ASSUME NEW S, NEW s \in Seq(S), NEW k \in 1 .. Len(s), NEW I,
         I = (1 .. Len(s)) \ {k}
  PROVE  /\ Cardinality(I) = Len(s) - 1
         /\ \A i \in 1 .. k - 1 : Pick(s, I)[i] = s[i]
<1>1. Len(s) \in Nat /\ k \in Nat /\ 1 <= k /\ k <= Len(s) /\ I \subseteq Int
  BY LenProperties
<1>2. PICK n \in Nat : n = Len(s)
  BY <1>1
<1>3. IsFiniteSet(1 .. n) /\ Cardinality(1 .. n) = n
  <2>1. n \in Nat
    OBVIOUS
  <2> QED
    BY ONLY <2>1, FS_Interval
<1>4. Cardinality(I) = n - 1 /\ IsFiniteSet(I)
  BY <1>1, <1>2, <1>3, FS_RemoveElement, FS_Subset
<1>5. PICK f : IsPosition(f, s, I)
  BY <1>1, <1>4, PickPositions
<1>6. /\ f \in [1 .. n - 1 -> I]
      /\ \A i, j \in 1 .. n - 1 : f[i] = f[j] => i = j
      /\ \A i \in I : \E j \in 1 .. n - 1 : f[j] = i
      /\ \A j \in 1 .. n - 1 : Pick(s, I)[j] = s[f[j]]
      /\ \A j \in 1 .. n - 1 : Cardinality({x \in I : x <= f[j]}) = j
  BY <1>4, <1>5 DEF IsPosition, Bijection, Injection, Surjection, IsInjective
<1>7. \A i \in 1 .. k - 1 : f[i] = i
  <2> TAKE i \in 1 .. k - 1
  <2>1. i \in I /\ i \in 1 .. n - 1 /\ i \in Nat
    BY <1>1, <1>2
  <2>2. PICK j \in 1 .. n - 1 : f[j] = i
    BY <1>6, <2>1
  <2>3. {x \in I : x <= i} = 1 .. i
    BY <1>1, <1>2, <2>1
  <2>4. Cardinality(1 .. i) = i
    BY <2>1, FS_Interval
  <2>5. Cardinality({x \in I : x <= i}) = j
    BY <1>6, <2>2
  <2> QED
    BY <2>2, <2>3, <2>4, <2>5
<1>8. \A i \in 1 .. k - 1 : i \in 1 .. n - 1
  BY <1>1, <1>2
<1> QED
  BY <1>2, <1>4, <1>6, <1>7, <1>8

(* RemoveGetRequest takes a client out of every list, wherever it is.      *)
TakenOff(c, old, new) ==
  /\ ToSet(new) = ToSet(old) \ {c}
  /\ IsInjective(new)
  /\ \A k \in 1 .. Len(old) : old[k] = c =>
       /\ Len(new) = Len(old) - 1
       /\ \A i \in 1 .. k - 1 : new[i] = old[i]

LEMMA UnlistedFacts ==
  ASSUME RestType, NEW c, NEW id \in ObjectIDs, IsInjective(object_get_requests_[id])
  PROVE  TakenOff(c, object_get_requests_[id], Unlisted(c)[id])
<1> DEFINE list == object_get_requests_[id]
           I == {i \in DOMAIN list : list[i] # c}
           new == Pick(list, I)
<1>1. list \in Seq(Clients) /\ I \in SUBSET DOMAIN list /\ IsInjective(list)
  BY DEF RestType
<1>2. Unlisted(c)[id] = new
  BY DEF Unlisted
<1>3. DOMAIN list = 1 .. Len(list) /\ Len(list) \in Nat
  BY <1>1, LenProperties
<1>4. I = {i \in DOMAIN list : list[i] # c}
  OBVIOUS
<1> HIDE DEF list, I
<1>5. /\ new \in Seq(Clients) /\ Len(new) = Cardinality(I)
      /\ \A k \in DOMAIN new : \E i \in I : new[k] = list[i]
      /\ \A i \in I : \E k \in DOMAIN new : new[k] = list[i]
      /\ IsInjective(new)
  BY <1>1, PickSeq
<1>6. ASSUME NEW k \in 1 .. Len(list), list[k] = c
      PROVE  Len(new) = Len(list) - 1 /\ \A i \in 1 .. k - 1 : new[i] = list[i]
  <2>1. I = (1 .. Len(list)) \ {k}
    BY <1>1, <1>3, <1>4, <1>6 DEF IsInjective
  <2> QED
    BY <1>1, <1>5, <2>1, PickAllBut
<1> HIDE DEF new
<1>7. ToSet(new) = ToSet(list) \ {c}
  BY <1>4, <1>5 DEF ToSet
<1> QED
  BY <1>2, <1>5, <1>6, <1>7 DEF TakenOff, list

(* A list with one more element at its end.                                *)
LEMMA AppendFacts ==
  ASSUME NEW S, NEW s \in Seq(S), NEW x \in S
  PROVE  /\ Append(s, x) \in Seq(S) /\ Append(s, x) # <<>>
         /\ ToSet(Append(s, x)) = ToSet(s) \cup {x}
         /\ IsInjective(s) /\ x \notin ToSet(s) => IsInjective(Append(s, x))
<1>1. PICK t : t = Append(s, x)
  OBVIOUS
<1>2. /\ t \in Seq(S) /\ Len(t) = Len(s) + 1 /\ t # <<>> /\ t[Len(s) + 1] = x
      /\ \A i \in 1 .. Len(s) : t[i] = s[i]
  BY <1>1, AppendProperties
<1>3. Len(s) \in Nat /\ DOMAIN s = 1 .. Len(s) /\ DOMAIN t = 1 .. Len(s) + 1
  BY <1>2, LenProperties
<1>4. PICK n \in Nat : n = Len(s)
  BY <1>3
<1>5. /\ DOMAIN s = 1 .. n /\ DOMAIN t = 1 .. n + 1 /\ t[n + 1] = x
      /\ \A i \in 1 .. n : t[i] = s[i]
      /\ \A i \in 1 .. n + 1 : i \in 1 .. n \/ i = n + 1
      /\ n + 1 \in 1 .. n + 1 /\ \A i \in 1 .. n : i \in 1 .. n + 1
  BY <1>2, <1>3, <1>4
<1>6. ToSet(t) = ToSet(s) \cup {x}
  BY <1>5 DEF ToSet
<1>7. ASSUME IsInjective(s), x \notin ToSet(s) PROVE IsInjective(t)
  <2>1. \A i \in 1 .. n : s[i] # x
    BY <1>5, <1>7 DEF ToSet
  <2>2. \A i, j \in 1 .. n + 1 : t[i] = t[j] => i = j
    BY <1>5, <1>7, <2>1 DEF IsInjective
  <2> QED
    BY <1>5, <2>2 DEF IsInjective
<1> QED
  BY <1>1, <1>2, <1>6, <1>7

------------------------------------------------------------------------------
(* Steps that leave the requests alone.                                    *)

LEMMA KeepRequest ==
  ASSUME NEW c \in Clients, RequestInv(c), get_reqs'[c] = get_reqs[c],
         Missing(c)' = Missing(c), InGet(c)' <=> InGet(c),
         get_reqs[c] # NoRequest => /\ object_ids[c] \subseteq object_ids'[c]
                                    /\ InGet(c) \/ loop'.c # c
  PROVE  RequestInv(c)'
<1>1. CASE get_reqs[c] = NoRequest
  BY <1>1 DEF RequestInv
<1>2. CASE get_reqs[c] # NoRequest
  <2>1. Pending(c)
    BY <1>2 DEF RequestInv
  <2>2. NumToWaitFor(get_reqs[c])' = NumToWaitFor(get_reqs[c])
    BY DEF NumToWaitFor
  <2>3. Pending(c)'
    BY <1>2, <2>1, <2>2 DEF Pending
  <2> QED
    BY <1>2, <2>3 DEF RequestInv
<1> QED
  BY <1>1, <1>2

(* Outside of a Get and of UpdateObjectGetRequests, a request waits for    *)
(* what it is listed under.                                                *)
LEMMA Quiescent ==
  ASSUME loop.pc \notin {"update", "get"}, NEW c
  PROVE  /\ Missing(c) = {id \in ObjectIDs : c \in ToSet(object_get_requests_[id])}
         /\ ~InGet(c)
  BY DEF Missing, Waiting, ToDo, InGet, Served

LEMMA QuiescentNext ==
  ASSUME loop'.pc \notin {"update", "get"}, NEW c
  PROVE  /\ Missing(c)' = {id \in ObjectIDs : c \in ToSet(object_get_requests_'[id])}
         /\ ~InGet(c)'
  BY DEF Missing, Waiting, ToDo, InGet, Served

(* The client of another handler has no request.                           *)
LEMMA HandlerFree ==
  ASSUME GetInv, loop.c \in Clients, loop.pc # "get"
  PROVE  get_reqs[loop.c] = NoRequest
  BY DEF GetInv, RequestInv, Pending, InGet

(* The handler stays where it is, and nobody is told about an object.      *)
LEMMA Steady ==
  ASSUME RestType, GetInv, UNCHANGED <<loop, object_ids, get_reqs, object_get_requests_>>,
         \A id \in ObjectIDs : Sealed(id)' => Sealed(id),
         crashed' => "FAILED" \in PeerAnswers
  PROVE  GetInv'
<1>1. ASSUME NEW c \in Clients PROVE RequestInv(c)'
  <2>1. Missing(c)' = Missing(c) /\ (InGet(c)' <=> InGet(c))
    BY DEF Missing, Waiting, ToDo, InGet, Served
  <2>2. RequestInv(c)
    BY DEF GetInv
  <2>3. get_reqs[c] # NoRequest => InGet(c) \/ loop.c # c
    BY <2>2 DEF RequestInv, Pending
  <2> QED
    BY <2>1, <2>2, <2>3, KeepRequest
<1>2. ListedOnce' /\ SealsAnswered' /\ TurnsLeft'
  BY DEF GetInv, ListedOnce, SealsAnswered, TurnsLeft
<1>3. ASSUME loop.pc = "get" PROVE Getting'
  <2>1. Getting
    BY <1>3 DEF GetInv
  <2>2. Waiting(loop.c)' = Waiting(loop.c) /\ ToDo(loop.c)' = ToDo(loop.c)
    BY DEF Waiting, ToDo, InGet, Served
  <2>3. \A id \in ToSet(loop.ask) : id \in ObjectIDs
    BY ToSetFacts, LoopFields DEF RestType
  <2>4. \A id \in ToSet(loop.ask) : ~Sealed(id)'
    BY <2>1, <2>3 DEF Getting
  <2> QED
    BY <2>1, <2>2, <2>4 DEF Getting
<1> QED
  BY <1>1, <1>2, <1>3 DEF GetInv

(* A handler works for a client without a request.                         *)
LEMMA Bystander ==
  ASSUME RestType, GetInv, NEW x \in Clients, get_reqs[x] = NoRequest,
         UNCHANGED <<get_reqs, object_get_requests_>>,
         \A c \in Clients \ {x} : object_ids'[c] = object_ids[c],
         loop.pc \notin {"seal", "update", "get"}, loop'.pc \notin {"update", "get"},
         loop'.c \in {x, NoClient},
         \A id \in ObjectIDs : Sealed(id)' => Sealed(id),
         crashed' => "FAILED" \in PeerAnswers
  PROVE  GetInv'
<1>1. ASSUME NEW c \in Clients PROVE RequestInv(c)'
  <2>1. Missing(c)' = Missing(c) /\ ~InGet(c) /\ ~InGet(c)'
    BY Quiescent, QuiescentNext
  <2>2. get_reqs[c] # NoRequest => c # x /\ loop'.c # c
    BY NoClientAssumption
  <2>3. RequestInv(c)
    BY DEF GetInv
  <2> QED
    BY <2>1, <2>2, <2>3, KeepRequest
<1>2. ListedOnce' /\ SealsAnswered' /\ TurnsLeft'
  BY DEF GetInv, ListedOnce, SealsAnswered, TurnsLeft
<1> QED
  BY <1>1, <1>2 DEF GetInv

------------------------------------------------------------------------------
(* Requests other than Get and Seal, and the handlers of Create.           *)

LEMMA GetFree ==
  ASSUME NEW c \in Clients, Ready(c)
  PROVE  /\ loop = Idle /\ loop.pc = "idle" /\ loop.c = NoClient
         /\ get_reqs[c] = NoRequest /\ ~crashed
  BY DEF Ready, Free, Running, Idle

LEMMA CreateRequestGet ==
  ASSUME IInv, GetInv, NEW c \in Clients, NEW id, NEW n, NEW e, CreateRequest(c, id, n, e)
  PROVE  GetInv'
<1>1. /\ Ready(c) /\ loop'.pc = "exists" /\ loop'.c = c
      /\ UNCHANGED <<get_reqs, object_get_requests_, object_ids, objects, crashed>>
  BY DEF CreateRequest, Idle
<1> QED
  BY <1>1, GetFree, Bystander DEF IInv, Sealed

LEMMA CreateAndSealRequestGet ==
  ASSUME IInv, GetInv, NEW c \in Clients, NEW ids, NEW n, NEW e,
         CreateAndSealRequest(c, ids, n, e)
  PROVE  GetInv'
<1>1. /\ Ready(c) /\ loop'.pc = "exists" /\ loop'.c = c
      /\ UNCHANGED <<get_reqs, object_get_requests_, object_ids, objects, crashed>>
  BY DEF CreateAndSealRequest, Idle
<1> QED
  BY <1>1, GetFree, Bystander DEF IInv, Sealed

LEMMA SealRequestGet ==
  ASSUME IInv, GetInv, NEW c \in Clients, NEW id, SealRequest(c, id)
  PROVE  GetInv'
<1>1. /\ Ready(c) /\ loop'.pc = "seal" /\ loop'.c = c
      /\ UNCHANGED <<get_reqs, object_get_requests_, object_ids, objects, crashed>>
  BY DEF SealRequest, Idle
<1> QED
  BY <1>1, GetFree, Bystander DEF IInv, Sealed

LEMMA AbortRequestGet ==
  ASSUME IInv, GetInv, NEW c \in Clients, NEW id \in ObjectIDs, AbortRequest(c, id)
  PROVE  GetInv'
<1>1. /\ Ready(c) /\ AbortObject(id, c)
      /\ UNCHANGED <<get_reqs, object_get_requests_, loop, crashed>>
  BY DEF AbortRequest
<1>2. \A d \in Clients \ {c} : object_ids'[d] = object_ids[d]
  BY <1>1 DEF AbortObject, IInv, Core, CoreType
<1>3. \A x \in ObjectIDs : Sealed(x)' => Sealed(x)
  BY <1>1 DEF AbortObject, EraseFromObjectTable, Sealed, NoEntry, IInv, Core, CoreType
<1> QED
  BY <1>1, <1>2, <1>3, GetFree, Bystander DEF IInv

LEMMA DropSealed ==
  ASSUME Core, NEW id \in ObjectIDs, NEW c \in Clients, RemoveFromClientObjectIds(id, c)
  PROVE  /\ \A d \in Clients \ {c} : object_ids'[d] = object_ids[d]
         /\ \A x \in ObjectIDs : Sealed(x)' => Sealed(x)
<1>1. \A d \in Clients \ {c} : object_ids'[d] = object_ids[d]
  BY DEF RemoveFromClientObjectIds, Core, CoreType
<1>2. \/ objects' = [objects EXCEPT ![id] = NoEntry]
      \/ objects' = [objects EXCEPT ![id].ref_count = @ - 1]
  BY DEF RemoveFromClientObjectIds, EraseFromObjectTable
<1>3. \A x \in ObjectIDs : Sealed(x)' => Sealed(x)
  BY <1>2 DEF Sealed, NoEntry, Core, CoreType, Entry
<1> QED
  BY <1>1, <1>3

LEMMA ReleaseRequestGet ==
  ASSUME IInv, GetInv, LocalReleases, QuotasStayExact, NEW c \in Clients,
         NEW id \in ObjectIDs, ReleaseRequest(c, id)
  PROVE  GetInv'
<1>1. /\ Ready(c) /\ RemoveFromClientObjectIds(id, c)
      /\ id \in object_ids[c] /\ Sealed(id) /\ evict_queue = <<>>
      /\ UNCHANGED <<get_reqs, object_get_requests_, loop, evict_queue>>
  BY DEF ReleaseRequest, LocalReleases, Ready, Free
<1>2. ~crashed'
  BY <1>1, DropRefCore DEF IInv
<1> QED
  BY <1>1, <1>2, GetFree, DropSealed, Bystander DEF IInv

LEMMA DeleteRequestGet ==
  ASSUME IInv, GetInv, NEW c \in Clients, NEW id \in ObjectIDs, DeleteRequest(c, id)
  PROVE  GetInv'
<1>1. /\ Ready(c)
      /\ UNCHANGED <<get_reqs, object_get_requests_, object_ids, loop, crashed>>
  BY DEF DeleteRequest
<1>2. UNCHANGED objects \/ objects' = [objects EXCEPT ![id] = NoEntry]
  BY DEF DeleteRequest, EraseFromObjectTable
<1>3. \A x \in ObjectIDs : Sealed(x)' => Sealed(x)
  BY <1>2 DEF Sealed, NoEntry, IInv, Core, CoreType
<1> QED
  BY <1>1, <1>3, GetFree, Steady DEF IInv

LEMMA QuietRequestsGet ==
  ASSUME IInv, GetInv, NEW c \in Clients,
         \/ \E n \in EvictBytes : EvictRequest(c, n)
         \/ \E id \in ObjectIDs : RefreshRequest(c, id)
         \/ \E q \in Quotas : SetOptionsRequest(c, q)
         \/ ConnectClient(c)
  PROVE  GetInv'
<1>1. ~crashed /\ UNCHANGED <<get_reqs, object_get_requests_, object_ids, objects, loop, crashed>>
  BY DEF EvictRequest, RefreshRequest, SetOptionsRequest, ConnectClient, Ready, Free, Running
<1> QED
  BY <1>1, Steady DEF IInv, Sealed

LEMMA EvictOneGet ==
  ASSUME IInv, GetInv, EvictOne
  PROVE  GetInv'
<1>1. UNCHANGED <<get_reqs, object_get_requests_, object_ids, loop>> /\ ~crashed'
  BY EvictOneInv DEF EvictOne
<1>2. PICK id \in ObjectIDs : objects' = [objects EXCEPT ![id] = NoEntry]
  BY EvictOneCore DEF IInv
<1>3. \A x \in ObjectIDs : Sealed(x)' => Sealed(x)
  BY <1>2 DEF Sealed, NoEntry, IInv, Core, CoreType
<1> QED
  BY <1>1, <1>3, Steady DEF IInv

(* One step of a handler that has no business with requests.               *)
LEMMA HandlerStep ==
  ASSUME IInv, GetInv, loop.pc \notin {"idle", "seal", "update", "get"},
         UNCHANGED <<get_reqs, object_get_requests_>>,
         \A c \in Clients \ {loop.c} : object_ids'[c] = object_ids[c],
         loop'.pc \notin {"update", "get"}, loop'.c \in {loop.c, NoClient},
         \A id \in ObjectIDs : Sealed(id)' => Sealed(id),
         crashed' => "FAILED" \in PeerAnswers
  PROVE  GetInv'
<1>1. PICK x \in Clients : x = loop.c
  BY DEF IInv, LoopInv
<1>2. get_reqs[x] = NoRequest
  BY <1>1, HandlerFree
<1> QED
  BY <1>1, <1>2, Bystander DEF IInv

LEMMA FailLoop ==
  ASSUME RestType, NEW pc
  PROVE  Fail(pc).pc = pc /\ Fail(pc).c = loop.c
  BY DEF Fail, RestType, LoopType

LEMMA NotCrashed ==
  ASSUME NEW pc, At(pc)
  PROVE  ~crashed /\ loop.pc = pc
  BY DEF At, Running

LEMMA ObjectExistsGet ==
  ASSUME IInv, GetInv, NEW answer \in PeerAnswers, ObjectExists(answer)
  PROVE  GetInv'
<1>1. /\ loop.pc = "exists"
      /\ loop' = Fail("abort") \/ loop' = [loop EXCEPT !.pc = "quota"]
      /\ UNCHANGED <<get_reqs, object_get_requests_, object_ids, objects>>
      /\ crashed' => "FAILED" \in PeerAnswers
  BY DEF ObjectExists, At
<1>2. loop'.pc \in {"abort", "quota"} /\ loop'.c = loop.c
  BY <1>1, FailLoop DEF IInv, RestType, LoopType
<1> QED
  BY <1>1, <1>2, HandlerStep DEF Sealed

LEMMA EnforceQuotaGet ==
  ASSUME IInv, GetInv, EnforceQuota
  PROVE  GetInv'
<1>1. /\ loop.pc = "quota" /\ ~crashed
      /\ loop' = Fail("abort") \/ loop' = [loop EXCEPT !.pc = "alloc"]
      /\ UNCHANGED <<get_reqs, object_get_requests_, object_ids, objects, crashed>>
  BY NotCrashed DEF EnforceQuota
<1>2. loop'.pc \in {"abort", "alloc"} /\ loop'.c = loop.c
  BY <1>1, FailLoop DEF IInv, RestType, LoopType
<1> QED
  BY <1>1, <1>2, HandlerStep DEF Sealed

LEMMA MakeRoomGet ==
  ASSUME IInv, GetInv, MakeRoom
  PROVE  GetInv'
<1>1. /\ loop.pc = "alloc" /\ ~crashed
      /\ loop' = Fail("oom") \/ loop' = loop
      /\ UNCHANGED <<get_reqs, object_get_requests_, object_ids, objects, crashed>>
  BY NotCrashed DEF MakeRoom
<1>2. loop'.pc \in {"oom", "alloc"} /\ loop'.c = loop.c
  BY <1>1, FailLoop DEF IInv
<1> QED
  BY <1>1, <1>2, HandlerStep DEF Sealed

LEMMA CreateObjectGet ==
  ASSUME IInv, GetInv, CreateObject
  PROVE  GetInv'
<1>1. /\ loop.pc = "alloc" /\ ~crashed
      /\ UNCHANGED <<get_reqs, object_get_requests_, crashed>>
      /\ object_ids' = [object_ids EXCEPT ![loop.c] = @ \cup {Head(loop.ids)}]
      /\ objects' = [objects EXCEPT ![Head(loop.ids)] =
           [state |-> "CREATED", size |-> loop.size, ref_count |-> 1]]
      /\ \/ loop' = [loop EXCEPT !.pc = "exists", !.ids = Tail(loop.ids)]
         \/ loop' = [loop EXCEPT !.pc = "seal", !.ids = loop.all]
         \/ loop' = Idle
  BY NotCrashed DEF CreateObject
<1>2. loop'.pc \in {"exists", "seal", "idle"} /\ loop'.c \in {loop.c, NoClient}
  <2>1. loop \in LoopType
    BY DEF IInv, RestType
  <2>2. CASE loop' = [loop EXCEPT !.pc = "exists", !.ids = Tail(loop.ids)]
    BY ONLY <2>1, <2>2 DEF LoopType
  <2>3. CASE loop' = [loop EXCEPT !.pc = "seal", !.ids = loop.all]
    BY ONLY <2>1, <2>3 DEF LoopType
  <2>4. CASE loop' = Idle
    BY ONLY <2>4 DEF Idle
  <2> QED
    BY <1>1, <2>2, <2>3, <2>4
<1>3. \A c \in Clients \ {loop.c} : object_ids'[c] = object_ids[c]
  BY <1>1 DEF IInv, Core, CoreType
<1>4. \A id \in ObjectIDs : Sealed(id)' => Sealed(id)
  BY <1>1 DEF Sealed, IInv, Core, CoreType
<1> QED
  BY <1>1, <1>2, <1>3, <1>4, HandlerStep

LEMMA AbortCreatedGet ==
  ASSUME IInv, GetInv, AbortCreated
  PROVE  GetInv'
<1>1. /\ loop.pc \in {"abort", "oom"} /\ ~crashed
      /\ UNCHANGED <<get_reqs, object_get_requests_, crashed>>
      /\ object_ids' = [object_ids EXCEPT ![loop.c] = @ \ {Head(loop.ids)}]
      /\ objects' = [objects EXCEPT ![Head(loop.ids)] = NoEntry]
      /\ loop' = [loop EXCEPT !.ids = Tail(loop.ids)]
  BY DEF AbortCreated, AbortObject, EraseFromObjectTable, At, Running
<1>2. loop'.pc = loop.pc /\ loop'.c = loop.c
  BY <1>1 DEF IInv, RestType, LoopType
<1>3. \A c \in Clients \ {loop.c} : object_ids'[c] = object_ids[c]
  BY <1>1 DEF IInv, Core, CoreType
<1>4. \A id \in ObjectIDs : Sealed(id)' => Sealed(id)
  BY <1>1 DEF Sealed, NoEntry, IInv, Core, CoreType
<1> QED
  BY <1>1, <1>2, <1>3, <1>4, HandlerStep

LEMMA ReplyErrorGet ==
  ASSUME IInv, GetInv, ReplyError
  PROVE  GetInv'
<1>1. /\ loop.pc \in {"abort", "oom"} /\ ~crashed /\ loop' = Idle
      /\ UNCHANGED <<get_reqs, object_get_requests_, object_ids, objects, crashed>>
  BY DEF ReplyError, At, Running
<1>2. loop'.pc = "idle" /\ loop'.c = NoClient
  BY <1>1 DEF Idle
<1> QED
  BY <1>1, <1>2, HandlerStep DEF Sealed

LEMMA ReleaseCreatedGet ==
  ASSUME IInv, GetInv, QuotasStayExact, ReleaseCreated
  PROVE  GetInv'
<1>1. /\ loop.pc = "release" /\ RemoveFromClientObjectIds(Head(loop.ids), loop.c)
      /\ loop' = Idle \/ loop' = [loop EXCEPT !.ids = Tail(loop.ids)]
      /\ UNCHANGED <<get_reqs, object_get_requests_>>
  BY DEF ReleaseCreated, At
<1>2. loop.c \in Clients /\ loop.ids \in Seq(ObjectIDs) /\ loop.ids # <<>>
  BY <1>1, LoopFields DEF IInv, LoopInv, Releasing, RestType
<1>3. PICK id \in ObjectIDs : id = Head(loop.ids)
  BY <1>2, TailFacts
<1>4. PICK c \in Clients : c = loop.c
  BY <1>2
<1>5. /\ \A d \in Clients \ {c} : object_ids'[d] = object_ids[d]
      /\ \A x \in ObjectIDs : Sealed(x)' => Sealed(x)
  BY <1>1, <1>3, <1>4, DropSealed DEF IInv
<1>6. loop'.pc \in {"idle", "release"} /\ loop'.c \in {loop.c, NoClient}
  BY <1>1 DEF IInv, RestType, LoopType, Idle
<1>7. ~crashed'
  BY ReleaseCreatedInv
<1> QED
  BY <1>1, <1>4, <1>5, <1>6, <1>7, HandlerStep

LEMMA ReleaseHeldGet ==
  ASSUME IInv, GetInv, QuotasStayExact, NEW id \in ObjectIDs, ReleaseHeld(id)
  PROVE  GetInv'
<1>1. /\ loop.pc = "disconnect" /\ RemoveFromClientObjectIds(id, loop.c)
      /\ UNCHANGED <<get_reqs, object_get_requests_, loop>>
  BY DEF ReleaseHeld, At
<1>2. PICK c \in Clients : c = loop.c
  BY <1>1 DEF IInv, LoopInv
<1>3. /\ \A d \in Clients \ {c} : object_ids'[d] = object_ids[d]
      /\ \A x \in ObjectIDs : Sealed(x)' => Sealed(x)
  BY <1>1, <1>2, DropSealed DEF IInv
<1>4. ~crashed'
  BY ReleaseHeldInv
<1> QED
  BY <1>1, <1>2, <1>3, <1>4, HandlerStep

LEMMA DisconnectEndGet ==
  ASSUME IInv, GetInv, DisconnectEnd
  PROVE  GetInv'
<1>1. /\ loop.pc = "disconnect" /\ ~crashed /\ loop' = Idle
      /\ UNCHANGED <<get_reqs, object_get_requests_, object_ids, objects, crashed>>
  BY NotCrashed DEF DisconnectEnd
<1>2. loop'.pc = "idle" /\ loop'.c = NoClient
  BY <1>1 DEF Idle
<1> QED
  BY <1>1, <1>2, HandlerStep DEF Sealed

------------------------------------------------------------------------------
(* Sealing, and counting the requests that wait.                           *)

(* The two ways on from an object of a SealObjects call.                   *)
LEMMA UpdateNextLoop ==
  ASSUME RestType, NEW ids \in Seq(ObjectIDs), loop' = UpdateNext(ids)
  PROVE  /\ ids # <<>> => /\ loop'.pc = "update" /\ loop'.c = loop.c /\ loop'.ids = ids
                          /\ loop'.index = 1
                          /\ loop'.left = Len(object_get_requests_[Head(ids)])
                          /\ loop'.left \in Nat
         /\ ids = <<>> => loop'.pc \in {"release", "idle"} /\ loop'.c \in {loop.c, NoClient}
<1>1. loop \in LoopType
  BY DEF RestType
<1>2. CASE ids # <<>>
  <2>1. PICK n \in Nat : n = Len(object_get_requests_[Head(ids)])
    BY <1>2, TailFacts, LenProperties DEF RestType
  <2>2. loop' = [loop EXCEPT !.pc = "update", !.ids = ids, !.index = 1, !.left = n]
    BY <1>2, <2>1 DEF UpdateNext
  <2>3. /\ loop'.pc = "update" /\ loop'.c = loop.c /\ loop'.ids = ids
        /\ loop'.index = 1 /\ loop'.left = n
    BY ONLY <1>1, <2>2 DEF LoopType
  <2> QED
    BY <1>2, <2>1, <2>3
<1>3. CASE ids = <<>>
  <2>1. loop' = [loop EXCEPT !.pc = "release", !.ids = loop.all] \/ loop' = Idle
    BY <1>3 DEF UpdateNext
  <2>2. CASE loop' = [loop EXCEPT !.pc = "release", !.ids = loop.all]
    BY ONLY <1>1, <1>3, <2>2 DEF LoopType
  <2>3. CASE loop' = Idle
    BY ONLY <1>3, <2>3 DEF Idle
  <2> QED
    BY <2>1, <2>2, <2>3
<1> QED
  BY <1>2, <1>3

(* A new object's waiting requests: none of them is counted yet.           *)
LEMMA UpdateBegins ==
  ASSUME loop'.pc = "update" => loop'.index = 1, loop'.pc # "get", NEW c
  PROVE  /\ Missing(c)' = {id \in ObjectIDs : c \in ToSet(object_get_requests_'[id])}
         /\ ~InGet(c)'
<1>1. ASSUME loop'.pc = "update" PROVE \A id : Served(id)' = {}
  BY <1>1 DEF Served
<1>2. \A id : Served(id)' = {}
  BY <1>1 DEF Served
<1> QED
  BY <1>2 DEF Missing, Waiting, ToDo, InGet

LEMMA SealOneGet ==
  ASSUME IInv, GetInv, SealOne
  PROVE  GetInv'
<1>1. /\ loop.pc = "seal"
      /\ loop' = IF Tail(loop.ids) = <<>> THEN UpdateNext(loop.all)
                                          ELSE [loop EXCEPT !.ids = Tail(loop.ids)]
      /\ UNCHANGED <<get_reqs, object_get_requests_, object_ids>>
      /\ objects' = [objects EXCEPT ![Head(loop.ids)].state = "SEALED"]
  BY DEF SealOne, At
<1>2. ~crashed'
  BY SealOneInv
<1>3. RestType /\ Sealing /\ loop.c \in Clients /\ loop \in LoopType
  BY <1>1 DEF IInv, LoopInv, RestType
<1>4. loop.ids \in Seq(ObjectIDs) /\ loop.all \in Seq(ObjectIDs) /\ loop.all # <<>>
  BY <1>3, LoopFields DEF Sealing
<1>5. /\ \/ loop'.pc = "seal" /\ loop'.all = loop.all
         \/ /\ loop'.pc = "update" /\ loop'.ids = loop.all /\ loop'.index = 1
            /\ loop'.left = Len(object_get_requests_[Head(loop.all)])
      /\ loop'.c = loop.c
  <2>1. CASE Tail(loop.ids) = <<>>
    BY <1>1, <1>3, <1>4, <2>1, UpdateNextLoop
  <2>2. CASE Tail(loop.ids) # <<>>
    BY <1>1, <1>3, <2>2 DEF LoopType
  <2> QED
    BY <2>1, <2>2
<1>6. ASSUME NEW c \in Clients PROVE RequestInv(c)'
  <2>1. Missing(c)' = Missing(c) /\ ~InGet(c) /\ ~InGet(c)'
    BY <1>1, <1>5, Quiescent, UpdateBegins
  <2>2. RequestInv(c)
    BY DEF GetInv
  <2>3. get_reqs[c] # NoRequest => loop'.c # c
    BY <1>1, <1>3, <1>5, HandlerFree
  <2> QED
    BY <1>1, <2>1, <2>2, <2>3, KeepRequest
<1>7. \A id \in ObjectIDs : Sealed(id)' => Sealed(id) \/ id \in ToSet(loop.all)
  <2>1. Head(loop.ids) \in ToSet(loop.all)
    BY <1>3, <1>4, TailFacts DEF Sealing
  <2> QED
    BY <1>1, <2>1 DEF Sealed, IInv, Core, CoreType, Entry
<1>8. SealsAnswered'
  BY <1>1, <1>5, <1>7 DEF SealsAnswered, GetInv
<1>9. TurnsLeft'
  <2>1. PICK n \in Nat : n = Len(object_get_requests_[Head(loop.all)])
    BY <1>3, <1>4, TailFacts, LenProperties DEF RestType
  <2> QED
    BY <1>1, <1>5, <2>1 DEF TurnsLeft
<1>10. ListedOnce'
  BY <1>1 DEF ListedOnce, GetInv
<1> QED
  BY <1>2, <1>5, <1>6, <1>8, <1>9, <1>10 DEF GetInv

LEMMA UpdateDoneGet ==
  ASSUME IInv, GetInv, UpdateDone
  PROVE  GetInv'
<1>1. /\ loop.pc = "update" /\ loop.left = 0 /\ ~crashed
      /\ object_get_requests_' = [object_get_requests_ EXCEPT ![Head(loop.ids)] = <<>>]
      /\ loop' = UpdateNext(Tail(loop.ids))
      /\ UNCHANGED <<get_reqs, object_ids, objects, crashed>>
  BY NotCrashed DEF UpdateDone
<1>2. RestType /\ Updating /\ loop.c \in Clients /\ loop \in LoopType
  BY <1>1 DEF IInv, LoopInv, RestType
<1>3. loop.ids \in Seq(ObjectIDs) /\ loop.ids # <<>> /\ loop.index \in Nat
  BY <1>2, LoopFields DEF Updating
<1>4. PICK id \in ObjectIDs : id = Head(loop.ids)
  BY <1>3, TailFacts
<1>5. PICK rest \in Seq(ObjectIDs) : rest = Tail(loop.ids)
  BY <1>3, TailFacts
<1>6. ToSet(loop.ids) = {id} \cup ToSet(rest)
  BY <1>3, <1>4, <1>5, TailFacts
<1>7. PICK list \in Seq(Clients) : list = object_get_requests_[id]
  BY <1>2 DEF RestType
<1>8. loop.index = Len(list) + 1 /\ Len(list) \in Nat /\ DOMAIN list = 1 .. Len(list)
  <2>1. Len(list) \in Nat /\ DOMAIN list = 1 .. Len(list)
    BY LenProperties
  <2>2. loop.left + loop.index = Len(list) + 1
    BY <1>1, <1>4, <1>7 DEF GetInv, TurnsLeft
  <2> QED
    BY <1>1, <1>3, <2>1, <2>2
<1>9. Served(id) = ToSet(list)
  <2>1. 1 .. loop.index - 1 = DOMAIN list
    BY <1>8
  <2>2. Served(id) = {list[i] : i \in 1 .. loop.index - 1}
    BY <1>1, <1>4, <1>7 DEF Served
  <2> QED
    BY <2>1, <2>2 DEF ToSet
<1>10. /\ object_get_requests_'[id] = <<>>
       /\ \A x \in ObjectIDs \ {id} : object_get_requests_'[x] = object_get_requests_[x]
  BY <1>1, <1>2, <1>4 DEF RestType
<1>11. /\ rest # <<>> => /\ loop'.pc = "update" /\ loop'.c = loop.c /\ loop'.ids = rest
                         /\ loop'.index = 1
                         /\ loop'.left = Len(object_get_requests_[Head(rest)])
                         /\ loop'.left \in Nat
       /\ rest = <<>> => loop'.pc \in {"release", "idle"} /\ loop'.c \in {loop.c, NoClient}
  BY <1>1, <1>2, <1>5, UpdateNextLoop
<1>12. ASSUME NEW c \in Clients PROVE RequestInv(c)'
  <2>1. ToDo(c) = {} /\ ~InGet(c)
    BY <1>1 DEF ToDo, InGet
  <2>2. \A x \in ObjectIDs \ {id} : Served(x) = {}
    BY <1>4 DEF Served
  <2>3. Missing(c) = {x \in ObjectIDs : x # id /\ c \in ToSet(object_get_requests_[x])}
    BY <1>7, <1>9, <2>1, <2>2 DEF Missing, Waiting
  <2>4. Missing(c)' = {x \in ObjectIDs : c \in ToSet(object_get_requests_'[x])} /\ ~InGet(c)'
    BY <1>11, UpdateBegins
  <2>5. Missing(c)' = Missing(c)
    BY <1>10, <2>3, <2>4, EmptyFacts
  <2>6. RequestInv(c)
    BY DEF GetInv
  <2>7. get_reqs[c] # NoRequest => loop'.c # c
    BY <1>1, <1>2, <1>11, HandlerFree, NoClientAssumption
  <2> QED
    BY <1>1, <2>1, <2>4, <2>5, <2>6, <2>7, KeepRequest
<1>13. ListedOnce'
  BY <1>10, EmptyFacts DEF ListedOnce, GetInv
<1>14. SealsAnswered'
  <2> SUFFICES ASSUME NEW x \in ObjectIDs, Sealed(x)', object_get_requests_'[x] # <<>>
               PROVE  loop'.pc = "update" /\ x \in ToSet(loop'.ids)
    BY DEF SealsAnswered
  <2>1. x # id /\ Sealed(x) /\ object_get_requests_[x] # <<>>
    BY <1>1, <1>10 DEF Sealed
  <2>2. x \in ToSet(rest)
    BY <1>1, <1>6, <2>1 DEF GetInv, SealsAnswered
  <2>3. rest # <<>>
    BY <2>2, EmptyFacts
  <2> QED
    BY <1>11, <2>2, <2>3
<1>15. TurnsLeft'
  <2> SUFFICES ASSUME loop'.pc = "update"
               PROVE  loop'.left + loop'.index = Len(object_get_requests_'[Head(loop'.ids)]) + 1
    BY DEF TurnsLeft
  <2>1. rest # <<>>
    BY <1>11
  <2>2. Head(rest) \in ObjectIDs /\ Head(rest) # id
    <3>1. Head(rest) \in ObjectIDs /\ Head(rest) \in ToSet(rest)
      BY <2>1, TailFacts
    <3>2. id \notin ToSet(rest)
      BY <1>2, <1>3, <1>4, <1>5, TailFacts DEF Updating
    <3> QED
      BY <3>1, <3>2
  <2>3. loop'.left = Len(object_get_requests_'[Head(loop'.ids)])
    BY <1>10, <1>11, <2>1, <2>2
  <2> QED
    BY <1>11, <2>1, <2>3
<1>16. loop'.pc # "get"
  BY <1>11
<1> QED
  BY <1>1, <1>12, <1>13, <1>14, <1>15, <1>16 DEF GetInv

(* What ReturnFromGet and RemoveGetRequestsForClient do to the lists.      *)
LEMMA ReturnLists ==
  ASSUME RestType, ListedOnce, NEW c \in Clients, object_get_requests_' = Unlisted(c)
  PROVE  /\ \A id \in ObjectIDs :
              /\ TakenOff(c, object_get_requests_[id], object_get_requests_'[id])
              /\ ToSet(object_get_requests_'[id]) = ToSet(object_get_requests_[id]) \ {c}
              /\ object_get_requests_'[id] # <<>> => object_get_requests_[id] # <<>>
         /\ ListedOnce'
<1>1. ASSUME NEW id \in ObjectIDs
      PROVE  /\ TakenOff(c, object_get_requests_[id], object_get_requests_'[id])
             /\ ToSet(object_get_requests_'[id]) = ToSet(object_get_requests_[id]) \ {c}
             /\ IsInjective(object_get_requests_'[id])
             /\ object_get_requests_'[id] # <<>> => object_get_requests_[id] # <<>>
  <2>1. TakenOff(c, object_get_requests_[id], object_get_requests_'[id])
    BY UnlistedFacts DEF ListedOnce
  <2>2. /\ ToSet(object_get_requests_'[id]) = ToSet(object_get_requests_[id]) \ {c}
        /\ IsInjective(object_get_requests_'[id])
    BY <2>1 DEF TakenOff
  <2>3. object_get_requests_'[id] \in Seq(Clients)
    BY UnlistedType
  <2>4. ASSUME object_get_requests_'[id] # <<>> PROVE object_get_requests_[id] # <<>>
    BY <2>2, <2>3, <2>4, TailFacts, EmptyFacts
  <2> QED
    BY <2>1, <2>2, <2>4
<1> QED
  BY <1>1 DEF ListedOnce

(* One turn of UpdateObjectGetRequests' loop: the request of c gets id.    *)
TurnOf(id, c) ==
  /\ id = Head(loop.ids) /\ c = object_get_requests_[id][loop.index]
  /\ loop.index \in 1 .. Len(object_get_requests_[id])
  /\ id \in Missing(c) /\ Pending(c) /\ ~InGet(c)
  /\ object_ids' = [object_ids EXCEPT ![c] = @ \cup {id}]
  /\ \A x \in ObjectIDs : objects'[x].state = objects[x].state
  /\ UNCHANGED crashed
  /\ \/ /\ Missing(c) = {id}
        /\ get_reqs' = [get_reqs EXCEPT ![c] = NoRequest]
        /\ object_get_requests_' = Unlisted(c)
        /\ remote' = [remote EXCEPT ![c] = @ \cup get_reqs[c].at_peer]
        /\ loop' = Turn(loop, loop.index, loop.left - 1)
     \/ /\ Missing(c) # {id}
        /\ get_reqs' = [get_reqs EXCEPT ![c] = [get_reqs[c] EXCEPT !.num_satisfied = @ + 1]]
        /\ UNCHANGED <<object_get_requests_, remote>>
        /\ loop' = Turn(loop, loop.index + 1, loop.left - 1)

LEMMA MissingFacts ==
  ASSUME RestType, NEW c \in Clients
  PROVE  /\ Missing(c) \subseteq ObjectIDs /\ IsFiniteSet(Missing(c))
         /\ Cardinality(Missing(c)) \in Nat
<1>1. Missing(c) \subseteq ObjectIDs
  BY ToSetFacts, LoopFields DEF Missing, Waiting, ToDo, RestType
<1>2. PICK m : m = Missing(c)
  OBVIOUS
<1>3. IsFiniteSet(m) /\ Cardinality(m) \in Nat
  BY <1>1, <1>2, FiniteAssumption, FS_Subset, FS_CardinalityType
<1> QED
  BY <1>1, <1>2, <1>3

LEMMA WaiterTurn ==
  ASSUME IInv, GetInv, UpdateWaiter
  PROVE  \E id \in ObjectIDs, c \in Clients : TurnOf(id, c)
<1>1. loop.pc = "update" /\ loop.left > 0 /\ evict_queue = <<>> /\ UNCHANGED evict_queue
  BY Zenon DEF UpdateWaiter, At
<1>2. RestType /\ Updating /\ loop.c \in Clients /\ loop \in LoopType
  BY <1>1 DEF IInv, LoopInv, RestType
<1>3. /\ loop.ids \in Seq(ObjectIDs) /\ loop.all \in Seq(ObjectIDs) /\ loop.ids # <<>>
      /\ loop.index \in Nat /\ loop.left \in Nat /\ loop.index >= 1
  BY <1>2, LoopFields DEF Updating
<1>4. PICK id \in ObjectIDs : id = Head(loop.ids)
  BY <1>3, TailFacts
<1>5. PICK list \in Seq(Clients) : list = object_get_requests_[id]
  BY <1>2 DEF RestType
<1>6. /\ Len(list) \in Nat /\ DOMAIN list = 1 .. Len(list) /\ IsInjective(list)
      /\ loop.left + loop.index = Len(list) + 1
  BY <1>1, <1>4, <1>5, LenProperties DEF GetInv, TurnsLeft, ListedOnce
<1>7. loop.index \in 1 .. Len(list) /\ ~(loop.index > Len(list))
  BY <1>1, <1>3, <1>6
<1>8. PICK c \in Clients : c = list[loop.index]
  BY <1>7, ElementOfSeq
<1>9. id \in Missing(c)
  <2>1. c \in ToSet(list)
    BY <1>7, <1>8, ToSetFacts
  <2>2. Served(id) = {list[i] : i \in 1 .. loop.index - 1}
    BY <1>1, <1>4, <1>5 DEF Served
  <2>3. \A i \in 1 .. loop.index - 1 : i \in DOMAIN list /\ i # loop.index
    BY <1>3, <1>6, <1>7
  <2>4. \A i \in 1 .. loop.index - 1 : list[i] # c
    BY <1>6, <1>7, <1>8, <2>3 DEF IsInjective
  <2>5. c \notin Served(id)
    BY <2>2, <2>4
  <2> QED
    BY <1>5, <2>1, <2>5 DEF Missing, Waiting
<1>10. Pending(c) /\ ~InGet(c) /\ get_reqs[c] \in GetType
  BY <1>1, <1>2, <1>9 DEF GetInv, RequestInv, InGet, RestType
<1> DEFINE req == [get_reqs[c] EXCEPT !.num_satisfied = @ + 1]
           done == req.num_satisfied = NumToWaitFor(req)
<1>11. /\ AddToClientObjectIds(id, c)
       /\ IF done THEN ReturnFromGet(c, req)
                  ELSE /\ get_reqs' = [get_reqs EXCEPT ![c] = req]
                       /\ UNCHANGED <<object_get_requests_, remote>>
       /\ UNCHANGED <<crashed, deletion_cache_, allocated_, evict_queue>>
       /\ loop' = [loop EXCEPT !.left = @ - 1, !.index = IF done THEN @ ELSE @ + 1]
  BY <1>4, <1>5, <1>7, <1>8, Zenon DEF UpdateWaiter
<1>12. loop' = Turn(loop, IF done THEN loop.index ELSE loop.index + 1, loop.left - 1)
  BY <1>2, <1>11 DEF LoopType, Turn
<1>13. /\ req.num_satisfied = get_reqs[c].num_satisfied + 1 /\ req.ids = get_reqs[c].ids
       /\ req.at_peer = get_reqs[c].at_peer
  BY <1>10, CountOne
<1>14. done <=> Missing(c) = {id}
  <2>1. PICK m : m = Missing(c)
    OBVIOUS
  <2>2. IsFiniteSet(m) /\ Cardinality(m) \in Nat /\ id \in m
    BY <1>2, <1>9, <2>1, MissingFacts
  <2>3. get_reqs[c].num_satisfied \in Nat
    BY <1>10, GetFields
  <2>4. get_reqs[c].num_satisfied + Cardinality(m) = NumToWaitFor(get_reqs[c])
    BY <1>10, <2>1 DEF Pending
  <2>5. NumToWaitFor(req) = NumToWaitFor(get_reqs[c])
    BY <1>13 DEF NumToWaitFor
  <2>6. done <=> get_reqs[c].num_satisfied + 1 = NumToWaitFor(get_reqs[c])
    BY <1>13, <2>5
  <2> HIDE DEF done
  <2>7. done <=> Cardinality(m) = 1
    BY <2>2, <2>3, <2>4, <2>6
  <2>8. Cardinality(m) = 1 <=> m = {id}
    <3>1. Cardinality(m) = 1 <=> \E x : m = {x}
      BY <2>2, FS_Singleton
    <3> QED
      BY <2>2, <3>1
  <2> QED
    BY <2>1, <2>7, <2>8
<1>15. /\ object_ids' = [object_ids EXCEPT ![c] = @ \cup {id}]
       /\ \A x \in ObjectIDs : objects'[x].state = objects[x].state
  <2>1. Sealed(id)
    BY <1>2, <1>3, <1>4, TailFacts DEF Updating
  <2> QED
    BY <1>1, <1>11, <2>1, AddRefCore DEF IInv
<1> HIDE DEF done
<1>16. CASE done
  <2>1. /\ get_reqs' = [get_reqs EXCEPT ![c] = NoRequest]
        /\ object_get_requests_' = Unlisted(c)
        /\ remote' = [remote EXCEPT ![c] = @ \cup get_reqs[c].at_peer]
    BY <1>11, <1>13, <1>16 DEF ReturnFromGet
  <2>2. loop' = Turn(loop, loop.index, loop.left - 1)
    BY <1>12, <1>16
  <2>3. TurnOf(id, c)
    BY <1>4, <1>5, <1>7, <1>8, <1>9, <1>10, <1>11, <1>14, <1>15, <1>16, <2>1, <2>2, Zenon
       DEF TurnOf
  <2> QED
    BY <2>3
<1>17. CASE ~done
  <2>1. /\ get_reqs' = [get_reqs EXCEPT ![c] = req]
        /\ UNCHANGED <<object_get_requests_, remote>>
    BY <1>11, <1>17
  <2>2. loop' = Turn(loop, loop.index + 1, loop.left - 1)
    BY <1>12, <1>17
  <2>3. TurnOf(id, c)
    BY <1>4, <1>5, <1>7, <1>8, <1>9, <1>10, <1>11, <1>14, <1>15, <1>17, <2>1, <2>2, Zenon
       DEF TurnOf
  <2> QED
    BY <2>3
<1> QED
  BY <1>16, <1>17

LEMMA UpdateWaiterGet ==
  ASSUME IInv, GetInv, UpdateWaiter
  PROVE  GetInv'
<1>1. loop.pc = "update" /\ loop.left > 0 /\ ~crashed
  BY Zenon DEF UpdateWaiter, At, Running
<1>2. PICK id \in ObjectIDs, c \in Clients : TurnOf(id, c)
  BY WaiterTurn
<1>3. RestType /\ loop \in LoopType /\ ListedOnce /\ Core /\ loop.c \in Clients
  BY <1>1 DEF IInv, RestType, GetInv, LoopInv
<1>4. loop.index \in Nat /\ loop.left \in Nat /\ loop.left - 1 \in Nat /\ loop.index + 1 \in Nat
  BY <1>1, <1>3, LoopFields
<1>5. /\ id = Head(loop.ids) /\ id \in Missing(c) /\ Pending(c) /\ ~InGet(c)
      /\ c = object_get_requests_[id][loop.index]
      /\ loop.index \in 1 .. Len(object_get_requests_[id])
      /\ object_ids' = [object_ids EXCEPT ![c] = @ \cup {id}]
      /\ \A x \in ObjectIDs : objects'[x].state = objects[x].state
      /\ UNCHANGED crashed
  BY <1>2 DEF TurnOf
<1>6. PICK list \in Seq(Clients) : list = object_get_requests_[id]
  BY <1>3 DEF RestType
<1>7. /\ Len(list) \in Nat /\ DOMAIN list = 1 .. Len(list) /\ IsInjective(list)
      /\ loop.left + loop.index = Len(list) + 1
      /\ loop.index \in 1 .. Len(list) /\ c = list[loop.index]
  BY <1>1, <1>3, <1>5, <1>6, LenProperties DEF GetInv, TurnsLeft, ListedOnce
<1>8. /\ \A x \in ObjectIDs \ {id} : Served(x) = {}
      /\ Served(id) = {list[i] : i \in 1 .. loop.index - 1}
  BY <1>1, <1>5, <1>6 DEF Served
<1>9. \A d \in Clients : object_ids[d] \subseteq object_ids'[d]
  BY <1>3, <1>5 DEF Core, CoreType
<1>10. \A x \in ObjectIDs : Sealed(x)' => Sealed(x)
  BY <1>5 DEF Sealed
<1>11. loop.c # c
  BY <1>5 DEF Pending
<1>12. CASE /\ Missing(c) = {id}
            /\ get_reqs' = [get_reqs EXCEPT ![c] = NoRequest]
            /\ object_get_requests_' = Unlisted(c)
            /\ loop' = Turn(loop, loop.index, loop.left - 1)
  <2>1. Turned(loop, loop', loop.index, loop.left - 1)
    BY <1>3, <1>4, <1>12, TurnFacts
  <2>2. /\ loop'.pc = "update" /\ loop'.c = loop.c /\ loop'.ids = loop.ids
        /\ loop'.index = loop.index /\ loop'.left = loop.left - 1
    BY <1>1, <2>1 DEF Turned
  <2>3. /\ \A x \in ObjectIDs :
             /\ TakenOff(c, object_get_requests_[x], object_get_requests_'[x])
             /\ ToSet(object_get_requests_'[x]) = ToSet(object_get_requests_[x]) \ {c}
             /\ object_get_requests_'[x] # <<>> => object_get_requests_[x] # <<>>
        /\ ListedOnce'
    BY <1>3, <1>12, ReturnLists
  <2>4. /\ Len(object_get_requests_'[id]) = Len(list) - 1
        /\ \A i \in 1 .. loop.index - 1 : object_get_requests_'[id][i] = list[i]
    BY <1>6, <1>7, <2>3 DEF TakenOff
  <2>5. \A x \in ObjectIDs : Served(x)' = Served(x)
    <3>1. Served(id)' = {object_get_requests_'[id][i] : i \in 1 .. loop.index - 1}
      BY <1>5, <2>2 DEF Served
    <3>2. Served(id)' = Served(id)
      BY <1>8, <2>4, <3>1
    <3>3. \A x \in ObjectIDs \ {id} : Served(x)' = {}
      BY <1>5, <2>2 DEF Served
    <3> QED
      BY <1>8, <3>2, <3>3
  <2>6. \A d : ToDo(d) = {} /\ ToDo(d)' = {} /\ ~InGet(d) /\ ~InGet(d)'
    BY <1>1, <2>2 DEF ToDo, InGet
  <2>7. ASSUME NEW d \in Clients PROVE RequestInv(d)'
    <3>1. CASE d = c
      <4>1. Waiting(d)' = {}
        BY <2>3, <3>1 DEF Waiting
      <4>2. Missing(d)' = {}
        BY <2>6, <4>1 DEF Missing
      <4>3. get_reqs'[d] = NoRequest
        BY <1>3, <1>12, <3>1 DEF RestType
      <4> QED
        BY <2>6, <4>2, <4>3 DEF RequestInv
    <3>2. CASE d # c
      <4>1. Waiting(d)' = Waiting(d)
        BY <2>3, <2>5, <3>2 DEF Waiting
      <4>2. Missing(d)' = Missing(d)
        BY <2>6, <4>1 DEF Missing
      <4>3. get_reqs'[d] = get_reqs[d]
        BY <1>3, <1>12, <3>2 DEF RestType
      <4>4. RequestInv(d)
        BY DEF GetInv
      <4>5. get_reqs[d] # NoRequest => loop'.c # d
        BY <2>2, <2>6, <4>4 DEF RequestInv, Pending
      <4> QED
        BY <1>9, <2>6, <4>2, <4>3, <4>4, <4>5, KeepRequest
    <3> QED
      BY <3>1, <3>2
  <2>8. SealsAnswered'
    BY <1>1, <1>10, <2>2, <2>3 DEF SealsAnswered, GetInv
  <2>9. TurnsLeft'
    <3>1. loop'.left + loop'.index = Len(object_get_requests_'[id]) + 1
      <4>1. PICK n \in Nat : n = Len(list)
        BY <1>7
      <4>2. loop.left + loop.index = n + 1 /\ Len(object_get_requests_'[id]) = n - 1
        BY <1>7, <2>4, <4>1
      <4>3. loop.left - 1 + loop.index = n - 1 + 1
        BY <1>4, <4>2
      <4> QED
        BY <2>2, <4>2, <4>3
    <3> QED
      BY <1>5, <2>2, <3>1 DEF TurnsLeft
  <2> QED
    BY <1>1, <1>5, <2>2, <2>3, <2>7, <2>8, <2>9 DEF GetInv
<1>13. CASE /\ Missing(c) # {id}
            /\ get_reqs' = [get_reqs EXCEPT ![c] = [get_reqs[c] EXCEPT !.num_satisfied = @ + 1]]
            /\ UNCHANGED object_get_requests_
            /\ loop' = Turn(loop, loop.index + 1, loop.left - 1)
  <2>1. Turned(loop, loop', loop.index + 1, loop.left - 1)
    BY <1>3, <1>4, <1>13, TurnFacts
  <2>2. /\ loop'.pc = "update" /\ loop'.c = loop.c /\ loop'.ids = loop.ids
        /\ loop'.index = loop.index + 1 /\ loop'.left = loop.left - 1
    BY <1>1, <2>1 DEF Turned
  <2>3. /\ Served(id)' = Served(id) \cup {c}
        /\ \A x \in ObjectIDs \ {id} : Served(x)' = {}
    <3>1. Served(id)' = {list[i] : i \in 1 .. (loop'.index - 1)}
      BY <1>5, <1>6, <1>13, <2>2 DEF Served
    <3>2. 1 .. (loop'.index - 1) = (1 .. loop.index - 1) \cup {loop.index}
      BY <1>7, <2>2
    <3>3. Served(id)' = Served(id) \cup {c}
      BY <1>7, <1>8, <3>1, <3>2
    <3>4. \A x \in ObjectIDs \ {id} : Served(x)' = {}
      BY <1>5, <2>2 DEF Served
    <3> QED
      BY <3>3, <3>4
  <2>4. \A d : ToDo(d) = {} /\ ToDo(d)' = {} /\ ~InGet(d) /\ ~InGet(d)'
    BY <1>1, <2>2 DEF ToDo, InGet
  <2>5. Missing(c)' = Missing(c) \ {id}
    <3>1. Waiting(c)' = Waiting(c) \ {id}
      BY <1>8, <1>13, <2>3 DEF Waiting
    <3> QED
      BY <2>4, <3>1 DEF Missing
  <2>6. \A d \in Clients \ {c} : Missing(d)' = Missing(d)
    <3>1. \A d \in Clients \ {c} : Waiting(d)' = Waiting(d)
      BY <1>8, <1>13, <2>3 DEF Waiting
    <3> QED
      BY <2>4, <3>1 DEF Missing
  <2>7. RequestInv(c)'
    <3>1. PICK r \in GetType : r = get_reqs[c]
      BY <1>3 DEF RestType
    <3>2. PICK q : q = [r EXCEPT !.num_satisfied = @ + 1]
      OBVIOUS
    <3>3. get_reqs'[c] = q
      BY <1>3, <1>13, <3>1, <3>2 DEF RestType
    <3>4. /\ q.num_satisfied = r.num_satisfied + 1 /\ q.ids = r.ids /\ q.at_peer = r.at_peer
          /\ q.timeout = r.timeout /\ q.timer = r.timer /\ r.num_satisfied \in Nat
      BY <3>2, CountOne, GetFields
    <3>5. PICK m : m = Missing(c)
      OBVIOUS
    <3>6. /\ IsFiniteSet(m) /\ Cardinality(m) \in Nat /\ id \in m /\ m # {id}
      BY <1>3, <1>5, <1>13, <3>5, MissingFacts
    <3>7. Cardinality(m \ {id}) = Cardinality(m) - 1 /\ m \ {id} # {}
      <4>1. Cardinality(m \ {id}) = Cardinality(m) - 1
        BY ONLY <3>6, FS_RemoveElement
      <4>2. m \ {id} # {}
        BY <3>6
      <4> QED
        BY <4>1, <4>2
    <3>8. /\ r.ids # <<>> /\ m \subseteq ToSet(r.ids)
          /\ r.num_satisfied + Cardinality(m) = NumToWaitFor(r)
          /\ ToSet(r.ids) \subseteq m \cup object_ids[c] \cup r.at_peer
          /\ r.timer <=> r.timeout # Forever
      BY <1>5, <3>1, <3>5 DEF Pending
    <3>9. NumToWaitFor(q) = NumToWaitFor(r)
      BY <3>4 DEF NumToWaitFor
    <3>10. q.num_satisfied + Cardinality(m \ {id}) = NumToWaitFor(q)
      BY <3>4, <3>6, <3>7, <3>8, <3>9
    <3>11. id \in object_ids'[c]
      BY <1>3, <1>5 DEF Core, CoreType
    <3>12. ToSet(q.ids) \subseteq (m \ {id}) \cup object_ids'[c] \cup q.at_peer
      BY <1>9, <3>4, <3>8, <3>11
    <3>13. NumToWaitFor(get_reqs[c])' = NumToWaitFor(q)
      BY <3>3 DEF NumToWaitFor
    <3>14. Missing(c)' = m \ {id}
      BY <2>5, <3>5
    <3>15. Pending(c)'
      BY <1>11, <2>2, <2>4, <3>3, <3>4, <3>7, <3>8, <3>10, <3>12, <3>13, <3>14 DEF Pending
    <3>16. q # NoRequest
      BY <3>4, <3>8 DEF NoRequest
    <3> QED
      BY <3>3, <3>15, <3>16 DEF RequestInv
  <2>8. ASSUME NEW d \in Clients \ {c} PROVE RequestInv(d)'
    <3>1. get_reqs'[d] = get_reqs[d]
      BY <1>3, <1>13 DEF RestType
    <3>2. RequestInv(d)
      BY DEF GetInv
    <3>3. get_reqs[d] # NoRequest => loop'.c # d
      BY <2>2, <2>4, <3>2 DEF RequestInv, Pending
    <3> QED
      BY <1>9, <2>4, <2>6, <3>1, <3>2, <3>3, KeepRequest
  <2>9. SealsAnswered' /\ ListedOnce'
    BY <1>1, <1>10, <1>13, <2>2 DEF SealsAnswered, ListedOnce, GetInv
  <2>10. TurnsLeft'
    <3>1. loop'.left + loop'.index = Len(list) + 1
      BY <1>4, <1>7, <2>2
    <3> QED
      BY <1>5, <1>6, <1>13, <2>2, <3>1 DEF TurnsLeft
  <2>11. \A d \in Clients : RequestInv(d)'
    BY <2>7, <2>8
  <2> QED
    BY <1>1, <1>5, <2>2, <2>9, <2>10, <2>11 DEF GetInv
<1> QED
  BY <1>2, <1>12, <1>13 DEF TurnOf

------------------------------------------------------------------------------
(* ProcessGetRequest.                                                      *)

LEMMA GetView ==
  ASSUME loop.pc = "get", NEW d
  PROVE  /\ Waiting(d) = {id \in ObjectIDs : d \in ToSet(object_get_requests_[id])}
         /\ ToDo(d) = IF d = loop.c THEN ToSet(loop.ids) \cup ToSet(loop.ask) ELSE {}
         /\ InGet(d) <=> d = loop.c
  BY DEF Waiting, ToDo, InGet, Served

LEMMA GetViewNext ==
  ASSUME loop'.pc = "get", NEW d
  PROVE  /\ Waiting(d)' = {id \in ObjectIDs : d \in ToSet(object_get_requests_'[id])}
         /\ ToDo(d)' = IF d = loop'.c THEN ToSet(loop'.ids) \cup ToSet(loop'.ask) ELSE {}
         /\ InGet(d)' <=> d = loop'.c
  BY DEF Waiting, ToDo, InGet, Served

(* No object is sealed while a Get is looked at or between two requests.   *)
LEMMA SealsQuiet ==
  ASSUME GetInv, loop.pc \notin {"seal", "update"}, loop'.pc \notin {"seal", "update"},
         \A id \in ObjectIDs : /\ Sealed(id)' => Sealed(id)
                               /\ Sealed(id) => object_get_requests_'[id] = object_get_requests_[id]
  PROVE  SealsAnswered' /\ TurnsLeft'
  BY DEF GetInv, SealsAnswered, TurnsLeft

LEMMA GetRequestGet ==
  ASSUME IInv, GetInv, DistinctGets, NEW c \in Clients, NEW ids \in GetLists,
         NEW t \in Timeouts, GetRequest(c, ids, t)
  PROVE  GetInv'
<1>1. /\ Ready(c) /\ \E id : id \in ToSet(ids)
      /\ UNCHANGED <<objects, object_ids, object_get_requests_, crashed>>
  BY DEF GetRequest
<1>2. loop.pc = "idle" /\ loop.c = NoClient /\ get_reqs[c] = NoRequest /\ ~crashed
  BY <1>1, GetFree
<1>3. ids \in Seq(ObjectIDs) /\ IsInjective(ids) /\ ids # <<>>
  BY <1>1, ListsAssumption, EmptyFacts DEF DistinctGets
<1>4. loop'.pc = "get" /\ loop'.c = c /\ loop'.ids = ids /\ loop'.ask = <<>>
  BY DEF GetRequest, Idle
<1> DEFINE r == [NoRequest EXCEPT !.ids = ids, !.timeout = t]
<1>5. /\ get_reqs'[c] = r /\ \A d \in Clients \ {c} : get_reqs'[d] = get_reqs[d]
  BY DEF GetRequest, IInv, RestType
<1>6. r.ids = ids /\ r.num_satisfied = 0 /\ ~r.timer /\ r.at_peer = {} /\ r # NoRequest
  BY <1>3 DEF NoRequest
<1> HIDE DEF r
<1>7. \A id \in ObjectIDs : c \notin ToSet(object_get_requests_[id])
  BY <1>2, Quiescent DEF GetInv, RequestInv
<1>8. Waiting(c)' = {} /\ ToDo(c)' = ToSet(ids) /\ InGet(c)'
  BY <1>1, <1>4, <1>7, GetViewNext, EmptyFacts
<1>9. RequestInv(c)'
  <2>1. PICK m : m = ToSet(ids)
    OBVIOUS
  <2>2. Cardinality(m) \in Nat
    <3>1. m \in SUBSET ObjectIDs
      BY <1>3, <2>1, ToSetFacts
    <3> QED
      BY <3>1, FiniteAssumption, FS_Subset, FS_CardinalityType
  <2>3. Missing(c)' = m
    BY <1>8, <2>1 DEF Missing
  <2>4. NumToWaitFor(get_reqs[c])' = Cardinality(m)
    BY <1>5, <1>6, <2>1 DEF NumToWaitFor
  <2>5. Pending(c)'
    BY <1>3, <1>5, <1>6, <1>8, <2>1, <2>2, <2>3, <2>4 DEF Pending
  <2> QED
    BY <1>5, <1>6, <2>5 DEF RequestInv
<1>10. ASSUME NEW d \in Clients \ {c} PROVE RequestInv(d)'
  <2>1. Missing(d)' = Missing(d) /\ ~InGet(d) /\ ~InGet(d)'
    BY <1>1, <1>2, <1>4, Quiescent, GetViewNext DEF Missing
  <2>2. RequestInv(d)
    BY DEF GetInv
  <2> QED
    BY <1>1, <1>4, <1>5, <2>1, <2>2, KeepRequest
<1>11. Getting'
  BY <1>3, <1>4, <1>5, <1>6, <1>8, EmptyFacts DEF Getting
<1>12. SealsAnswered' /\ TurnsLeft'
  BY <1>1, <1>2, <1>4, SealsQuiet DEF Sealed
<1>13. ListedOnce'
  BY <1>1 DEF ListedOnce, GetInv
<1>14. \A d \in Clients : RequestInv(d)'
  BY <1>9, <1>10
<1> QED
  BY <1>1, <1>2, <1>11, <1>12, <1>13, <1>14 DEF GetInv

(* A request that has one more object, or one more at the peer.            *)
LEMMA OneLess ==
  ASSUME RestType, NEW c \in Clients, Pending(c), InGet(c), InGet(c)',
         NEW id \in Missing(c), Missing(c)' = Missing(c) \ {id},
         NEW r \in GetType, r = get_reqs[c],
         get_reqs'[c].ids = r.ids, get_reqs'[c].num_satisfied = r.num_satisfied + 1,
         object_ids[c] \subseteq object_ids'[c], r.at_peer \subseteq get_reqs'[c].at_peer,
         id \in object_ids'[c] \cup get_reqs'[c].at_peer
  PROVE  RequestInv(c)'
<1>1. PICK m : m = Missing(c)
  OBVIOUS
<1>2. IsFiniteSet(m) /\ Cardinality(m) \in Nat /\ id \in m
  BY <1>1, MissingFacts
<1>3. Cardinality(m \ {id}) = Cardinality(m) - 1
  BY ONLY <1>2, FS_RemoveElement
<1>4. /\ r.ids # <<>> /\ m \subseteq ToSet(r.ids)
      /\ r.num_satisfied + Cardinality(m) = NumToWaitFor(r)
      /\ ToSet(r.ids) \subseteq m \cup object_ids[c] \cup r.at_peer
  BY <1>1 DEF Pending
<1>5. r.num_satisfied \in Nat
  BY GetFields
<1>6. NumToWaitFor(get_reqs[c])' = NumToWaitFor(r)
  BY DEF NumToWaitFor
<1>7. get_reqs'[c].num_satisfied + Cardinality(m \ {id}) = NumToWaitFor(r)
  BY <1>2, <1>3, <1>4, <1>5
<1>8. ToSet(r.ids) \subseteq (m \ {id}) \cup object_ids'[c] \cup get_reqs'[c].at_peer
  BY <1>4
<1>9. Missing(c)' = m \ {id}
  BY <1>1
<1>10. Pending(c)'
  BY <1>4, <1>6, <1>7, <1>8, <1>9 DEF Pending
<1>11. get_reqs'[c] # NoRequest
  BY <1>4 DEF NoRequest
<1> QED
  BY <1>10, <1>11 DEF RequestInv

(* The handler in the middle of a Get, and its request.                    *)
LEMMA GetHandler ==
  ASSUME IInv, GetInv, loop.pc = "get"
  PROVE  /\ loop \in LoopType /\ loop.c \in Clients /\ Getting /\ RestType /\ Core
         /\ loop.ids \in Seq(ObjectIDs) /\ loop.ask \in Seq(ObjectIDs)
         /\ Pending(loop.c)
<1>1. loop \in LoopType /\ loop.c \in Clients /\ Getting /\ RestType /\ Core
  BY DEF IInv, LoopInv, RestType, GetInv
<1>2. InGet(loop.c)
  BY DEF InGet
<1>3. Pending(loop.c)
  BY <1>1, <1>2 DEF GetInv, RequestInv
<1> QED
  BY <1>1, <1>3, LoopFields

(* The other clients' requests do not see it.                              *)
LEMMA GetOthers ==
  ASSUME GetInv, loop.pc = "get", loop'.pc = "get", loop'.c = loop.c,
         NEW d \in Clients, d # loop.c, get_reqs'[d] = get_reqs[d],
         object_ids[d] \subseteq object_ids'[d],
         \A id \in ObjectIDs : d \in ToSet(object_get_requests_'[id])
                                 <=> d \in ToSet(object_get_requests_[id])
  PROVE  RequestInv(d)'
<1>1. Missing(d)' = Missing(d) /\ ~InGet(d) /\ ~InGet(d)'
  BY GetView, GetViewNext DEF Missing
<1>2. RequestInv(d)
  BY DEF GetInv
<1> QED
  BY <1>1, <1>2, KeepRequest

LEMMA GetLocalGet ==
  ASSUME IInv, GetInv, GetLocal
  PROVE  GetInv'
<1>1. /\ loop.pc = "get" /\ loop.ids # <<>> /\ evict_queue = <<>> /\ ~crashed
      /\ UNCHANGED <<object_get_requests_, deletion_cache_, allocated_, evict_queue, crashed>>
  BY DEF GetLocal, At, Running
<1>2. /\ loop \in LoopType /\ loop.c \in Clients /\ Getting /\ RestType /\ Core
      /\ loop.ids \in Seq(ObjectIDs) /\ loop.ask \in Seq(ObjectIDs)
      /\ Pending(loop.c)
  BY <1>1, GetHandler
<1>3. PICK c \in Clients : c = loop.c
  BY <1>2
<1>4. PICK id \in ObjectIDs : id = Head(loop.ids)
  BY <1>1, <1>2, TailFacts
<1>5. PICK rest \in Seq(ObjectIDs) : rest = Tail(loop.ids)
  BY <1>1, <1>2, TailFacts
<1>6. PICK ask \in Seq(ObjectIDs) : ask = loop.ask
  BY <1>2
<1>7. /\ ToSet(loop.ids) = {id} \cup ToSet(rest) /\ IsInjective(rest) /\ id \notin ToSet(rest)
      /\ id \notin ToSet(ask) /\ ToSet(rest) \cap ToSet(ask) = {} /\ IsInjective(ask)
      /\ ~get_reqs[c].timer /\ Waiting(c) \cap ToDo(c) = {}
  BY <1>1, <1>2, <1>3, <1>4, <1>5, <1>6, TailFacts DEF Getting
<1>8. ToDo(c) = {id} \cup ToSet(rest) \cup ToSet(ask) /\ InGet(c)
  BY <1>1, <1>3, <1>6, <1>7, GetView
<1>9. \A x \in ToSet(ask) : x \in ObjectIDs /\ ~Sealed(x)
  BY <1>2, <1>6, ToSetFacts DEF Getting
<1>10. ListedOnce'
  BY <1>1 DEF ListedOnce, GetInv
<1>11. PICK r \in GetType : r = get_reqs[c]
  BY <1>2 DEF RestType
<1>12. CASE Sealed(id)
  <2>1. PICK q : q = [r EXCEPT !.num_satisfied = @ + 1]
    OBVIOUS
  <2>2. /\ AddToClientObjectIds(id, c)
        /\ get_reqs' = [get_reqs EXCEPT ![c] = q]
        /\ loop' = [loop EXCEPT !.ids = rest]
    BY <1>2, <1>3, <1>4, <1>5, <1>11, <1>12, <2>1 DEF GetLocal, RestType
  <2>3. /\ \A x \in ObjectIDs : objects'[x].state = objects[x].state
        /\ object_ids' = [object_ids EXCEPT ![c] = @ \cup {id}]
    BY <1>1, <1>2, <1>12, <2>2, AddRefCore
  <2>4. loop'.pc = "get" /\ loop'.c = c /\ loop'.ids = rest /\ loop'.ask = ask
    BY <1>1, <1>2, <1>3, <1>6, <2>2 DEF LoopType
  <2>5. /\ get_reqs'[c] = q /\ \A d \in Clients \ {c} : get_reqs'[d] = get_reqs[d]
        /\ id \in object_ids'[c] /\ \A d \in Clients : object_ids[d] \subseteq object_ids'[d]
    BY <1>2, <2>2, <2>3 DEF RestType, Core, CoreType
  <2>6. /\ q.num_satisfied = r.num_satisfied + 1 /\ q.ids = r.ids /\ q.at_peer = r.at_peer
        /\ q.timer = r.timer
    BY <2>1, CountOne
  <2>7. Waiting(c)' = Waiting(c) /\ ToDo(c)' = ToSet(rest) \cup ToSet(ask) /\ InGet(c)'
    BY <1>1, <2>4, GetView, GetViewNext
  <2>8. ToDo(c)' = ToDo(c) \ {id} /\ id \in Missing(c)
    BY <1>7, <1>8, <2>7 DEF Missing
  <2>9. Missing(c)' = Missing(c) \ {id}
    BY <1>7, <1>8, <2>7, <2>8 DEF Missing
  <2>10. RequestInv(c)'
    BY <1>2, <1>3, <1>8, <1>11, <2>5, <2>6, <2>7, <2>8, <2>9, OneLess
  <2>11. ASSUME NEW d \in Clients \ {c} PROVE RequestInv(d)'
    BY <1>1, <1>3, <2>4, <2>5, GetOthers
  <2>12. \A d \in Clients : RequestInv(d)'
    BY <2>10, <2>11
  <2>13. \A x \in ObjectIDs : Sealed(x)' => Sealed(x)
    BY <2>3 DEF Sealed
  <2>14. SealsAnswered' /\ TurnsLeft'
    BY <1>1, <2>4, <2>13, SealsQuiet
  <2>15. Waiting(c)' \cap ToDo(c)' = {}
    BY <1>7, <2>7, <2>8
  <2>16. \A x \in ToSet(ask) : ~Sealed(x)'
    BY <1>9, <2>13
  <2>17. ~get_reqs'[c].timer
    BY <1>7, <1>11, <2>5, <2>6
  <2>18. Getting'
    BY <1>7, <2>4, <2>15, <2>16, <2>17 DEF Getting
  <2> QED
    BY <1>1, <1>10, <2>12, <2>14, <2>18 DEF GetInv
<1>13. CASE ~Sealed(id)
  <2>1. PICK more : more = Append(ask, id)
    OBVIOUS
  <2>2. /\ loop' = [loop EXCEPT !.ids = rest, !.ask = more]
        /\ UNCHANGED <<objects, object_ids, get_reqs>>
    BY <1>2, <1>4, <1>5, <1>6, <1>13, <2>1 DEF GetLocal, LoopType
  <2>3. loop'.pc = "get" /\ loop'.c = c /\ loop'.ids = rest /\ loop'.ask = more
    BY <1>1, <1>2, <1>3, <2>2 DEF LoopType
  <2>4. ToSet(more) = ToSet(ask) \cup {id} /\ IsInjective(more)
    BY <1>7, <2>1, AppendFacts
  <2>5. Waiting(c)' = Waiting(c) /\ ToDo(c)' = ToDo(c) /\ InGet(c)'
    <3>1. Waiting(c)' = Waiting(c) /\ ToDo(c)' = ToSet(rest) \cup ToSet(more) /\ InGet(c)'
      BY <1>1, <2>3, GetView, GetViewNext
    <3> QED
      BY <1>8, <2>4, <3>1
  <2>6. RequestInv(c)'
    <3>1. Missing(c)' = Missing(c)
      BY <2>5 DEF Missing
    <3>2. RequestInv(c)
      BY DEF GetInv
    <3> QED
      BY <1>8, <2>2, <2>5, <3>1, <3>2, KeepRequest
  <2>7. ASSUME NEW d \in Clients \ {c} PROVE RequestInv(d)'
    BY <1>1, <1>3, <2>2, <2>3, GetOthers
  <2>8. \A d \in Clients : RequestInv(d)'
    BY <2>6, <2>7
  <2>9. SealsAnswered' /\ TurnsLeft'
    BY <1>1, <2>2, <2>3, SealsQuiet DEF Sealed
  <2>10. \A x \in ToSet(more) : ~Sealed(x)'
    BY <1>9, <1>13, <2>2, <2>4 DEF Sealed
  <2>11. Waiting(c)' \cap ToDo(c)' = {}
    BY <1>7, <2>5
  <2>12. ToSet(rest) \cap ToSet(more) = {}
    BY <1>7, <2>4
  <2>13. Getting'
    BY <1>7, <2>2, <2>3, <2>4, <2>10, <2>11, <2>12 DEF Getting
  <2> QED
    BY <1>1, <1>10, <2>8, <2>9, <2>13 DEF GetInv
<1> QED
  BY <1>12, <1>13

LEMMA GetRemoteGet ==
  ASSUME IInv, GetInv, NEW answer \in PeerAnswers, GetRemote(answer)
  PROVE  GetInv'
<1>1. /\ loop.pc = "get" /\ loop.ids = <<>> /\ loop.ask # <<>>
      /\ loop' = [loop EXCEPT !.ask = Tail(loop.ask)]
      /\ crashed' => "FAILED" \in PeerAnswers
      /\ UNCHANGED <<objects, object_ids>>
  BY DEF GetRemote, At
<1>2. /\ loop \in LoopType /\ loop.c \in Clients /\ Getting /\ RestType /\ Core
      /\ loop.ask \in Seq(ObjectIDs) /\ Pending(loop.c)
  BY <1>1, GetHandler
<1>3. PICK c \in Clients : c = loop.c
  BY <1>2
<1>4. PICK id \in ObjectIDs : id = Head(loop.ask)
  BY <1>1, <1>2, TailFacts
<1>5. PICK rest \in Seq(ObjectIDs) : rest = Tail(loop.ask)
  BY <1>1, <1>2, TailFacts
<1>6. /\ ToSet(loop.ask) = {id} \cup ToSet(rest) /\ IsInjective(rest) /\ id \notin ToSet(rest)
      /\ \A x \in ToSet(loop.ask) : ~Sealed(x)
      /\ ~get_reqs[c].timer /\ Waiting(c) \cap ToDo(c) = {}
  BY <1>1, <1>2, <1>3, <1>4, <1>5, TailFacts DEF Getting
<1>7. loop'.pc = "get" /\ loop'.c = c /\ loop'.ids = <<>> /\ loop'.ask = rest
  BY <1>1, <1>2, <1>3, <1>5 DEF LoopType
<1>8. ToDo(c) = {id} \cup ToSet(rest) /\ InGet(c)
  BY <1>1, <1>3, <1>6, GetView, EmptyFacts
<1>9. ToDo(c)' = ToDo(c) \ {id} /\ InGet(c)' /\ id \in ToDo(c)
  BY <1>6, <1>7, <1>8, GetViewNext, EmptyFacts
<1>10. ~Sealed(id) /\ \A x \in ToSet(rest) : ~Sealed(x)'
  BY <1>1, <1>6 DEF Sealed
<1>11. PICK r \in GetType : r = get_reqs[c]
  BY <1>2 DEF RestType
<1>12. CASE answer = "OK"
  <2>1. PICK q : q = WithPeer(r, id)
    OBVIOUS
  <2>2. get_reqs' = [get_reqs EXCEPT ![c] = q] /\ UNCHANGED object_get_requests_
    BY <1>2, <1>3, <1>4, <1>11, <1>12, <2>1 DEF GetRemote, WithPeer, RestType, GetType
  <2>3. /\ q.num_satisfied = r.num_satisfied + 1 /\ q.ids = r.ids
        /\ q.at_peer = r.at_peer \cup {id} /\ q.timer = r.timer
    BY <2>1, CountPeer
  <2>4. get_reqs'[c] = q /\ \A d \in Clients \ {c} : get_reqs'[d] = get_reqs[d]
    BY <1>2, <2>2 DEF RestType
  <2>5. Waiting(c)' = Waiting(c)
    BY <1>1, <1>7, <2>2, GetView, GetViewNext
  <2>6. Missing(c)' = Missing(c) \ {id} /\ id \in Missing(c)
    BY <1>6, <1>9, <2>5 DEF Missing
  <2>7. RequestInv(c)'
    BY <1>1, <1>2, <1>3, <1>8, <1>9, <1>11, <2>3, <2>4, <2>6, OneLess
  <2>8. ASSUME NEW d \in Clients \ {c} PROVE RequestInv(d)'
    BY <1>1, <1>3, <1>7, <2>2, <2>4, GetOthers
  <2>9. \A d \in Clients : RequestInv(d)'
    BY <2>7, <2>8
  <2>10. SealsAnswered' /\ TurnsLeft'
    BY <1>1, <1>7, <2>2, SealsQuiet DEF Sealed
  <2>11. ~get_reqs'[c].timer
    BY <1>6, <1>11, <2>3, <2>4
  <2>12. Waiting(c)' \cap ToDo(c)' = {}
    BY <1>6, <1>9, <2>5
  <2>13. Getting'
    BY <1>6, <1>7, <1>10, <2>11, <2>12, EmptyFacts DEF Getting
  <2>14. ListedOnce'
    BY <2>2 DEF ListedOnce, GetInv
  <2> QED
    BY <1>1, <2>9, <2>10, <2>13, <2>14 DEF GetInv
<1>13. CASE answer # "OK"
  <2>1. PICK list \in Seq(Clients) : list = object_get_requests_[id]
    BY <1>2 DEF RestType
  <2>2. PICK new : new = Append(list, c)
    OBVIOUS
  <2>3. object_get_requests_' = [object_get_requests_ EXCEPT ![id] = new] /\ UNCHANGED get_reqs
    BY <1>2, <1>3, <1>4, <1>13, <2>1, <2>2 DEF GetRemote, RestType
  <2>4. c \notin ToSet(list)
    BY <1>1, <1>6, <1>9, <2>1, GetView
  <2>5. ToSet(new) = ToSet(list) \cup {c} /\ IsInjective(new)
    BY <2>1, <2>2, <2>4, AppendFacts DEF GetInv, ListedOnce
  <2>6. /\ object_get_requests_'[id] = new
        /\ \A x \in ObjectIDs \ {id} : object_get_requests_'[x] = object_get_requests_[x]
    BY <1>2, <2>3 DEF RestType
  <2>7. Waiting(c)' = Waiting(c) \cup {id}
    BY <1>1, <1>7, <2>5, <2>6, GetView, GetViewNext
  <2>8. Missing(c)' = Missing(c)
    BY <1>9, <2>7 DEF Missing
  <2>9. RequestInv(c)
    BY DEF GetInv
  <2>10. RequestInv(c)'
    BY <1>1, <1>8, <1>9, <2>3, <2>8, <2>9, KeepRequest
  <2>11. ASSUME NEW d \in Clients \ {c} PROVE RequestInv(d)'
    <3>1. \A x \in ObjectIDs : d \in ToSet(object_get_requests_'[x])
                                 <=> d \in ToSet(object_get_requests_[x])
      BY <2>1, <2>5, <2>6
    <3> QED
      BY <1>1, <1>3, <1>7, <2>3, <3>1, GetOthers
  <2>12. \A d \in Clients : RequestInv(d)'
    BY <2>10, <2>11
  <2>13. SealsAnswered' /\ TurnsLeft'
    BY <1>1, <1>7, <1>10, <2>6, SealsQuiet DEF Sealed
  <2>14. Waiting(c)' \cap ToDo(c)' = {}
    BY <1>6, <1>9, <2>7
  <2>15. Getting'
    BY <1>6, <1>7, <1>10, <2>3, <2>14, EmptyFacts DEF Getting
  <2>16. ListedOnce'
    BY <2>5, <2>6 DEF ListedOnce, GetInv
  <2> QED
    BY <1>1, <2>12, <2>13, <2>15, <2>16 DEF GetInv
<1> QED
  BY <1>12, <1>13

(* A request ends, and every list forgets it.                              *)
LEMMA Returned ==
  ASSUME RestType, GetInv, NEW c \in Clients, loop.pc \notin {"seal", "update"},
         loop.pc = "get" => loop.c = c,
         object_get_requests_' = Unlisted(c),
         get_reqs' = [get_reqs EXCEPT ![c] = NoRequest],
         \A d \in Clients \ {c} : object_ids'[d] = object_ids[d],
         loop'.pc \notin {"update", "get"}, loop'.c \in {c, NoClient},
         \A id \in ObjectIDs : Sealed(id)' => Sealed(id), ~crashed'
  PROVE  GetInv'
<1>1. /\ \A id \in ObjectIDs :
           /\ ToSet(object_get_requests_'[id]) = ToSet(object_get_requests_[id]) \ {c}
           /\ object_get_requests_'[id] # <<>> => object_get_requests_[id] # <<>>
      /\ ListedOnce'
  BY ReturnLists DEF GetInv
<1>2. get_reqs'[c] = NoRequest /\ \A d \in Clients \ {c} : get_reqs'[d] = get_reqs[d]
  BY DEF RestType
<1>3. RequestInv(c)'
  BY <1>1, <1>2, QuiescentNext DEF RequestInv
<1>4. ASSUME NEW d \in Clients \ {c} PROVE RequestInv(d)'
  <2>1. Missing(d) = {id \in ObjectIDs : d \in ToSet(object_get_requests_[id])} /\ ~InGet(d)
    <3>1. CASE loop.pc = "get"
      BY <3>1, GetView DEF Missing
    <3>2. CASE loop.pc # "get"
      BY <3>2, Quiescent
    <3> QED
      BY <3>1, <3>2
  <2>2. Missing(d)' = Missing(d) /\ ~InGet(d)'
    BY <1>1, <2>1, QuiescentNext
  <2>3. RequestInv(d)
    BY DEF GetInv
  <2>4. loop'.c # d
    BY NoClientAssumption
  <2> QED
    BY <1>2, <2>1, <2>2, <2>3, <2>4, KeepRequest
<1>5. \A d \in Clients : RequestInv(d)'
  BY <1>3, <1>4
<1>6. SealsAnswered' /\ TurnsLeft'
  BY <1>1 DEF GetInv, SealsAnswered, TurnsLeft
<1> QED
  BY <1>1, <1>5, <1>6 DEF GetInv

LEMMA TimerFiresGet ==
  ASSUME IInv, GetInv, NEW c \in Clients, TimerFires(c)
  PROVE  GetInv'
<1>1. /\ loop = Idle /\ ~crashed /\ ReturnFromGet(c, get_reqs[c])
      /\ UNCHANGED <<objects, object_ids, loop, crashed>>
  BY DEF TimerFires, Free, Running
<1>2. loop.pc = "idle" /\ loop.c = NoClient
  BY <1>1 DEF Idle
<1> QED
  BY <1>1, <1>2, Returned DEF IInv, ReturnFromGet, Sealed

LEMMA GetEndGet ==
  ASSUME IInv, GetInv, GetEnd
  PROVE  GetInv'
<1>1. /\ loop.pc = "get" /\ loop.ids = <<>> /\ loop.ask = <<>> /\ ~crashed /\ loop' = Idle
      /\ UNCHANGED <<objects, object_ids, crashed>>
  BY DEF GetEnd, At, Running
<1>2. /\ loop.c \in Clients /\ Getting /\ RestType /\ Pending(loop.c)
  BY <1>1, GetHandler
<1>3. loop'.pc = "idle" /\ loop'.c = NoClient
  BY <1>1 DEF Idle
<1>4. PICK c \in Clients : c = loop.c
  BY <1>2
<1>5. PICK r \in GetType : r = get_reqs[c]
  BY <1>2 DEF RestType
<1>6. CASE ReturnFromGet(c, r)
  BY <1>1, <1>2, <1>3, <1>4, <1>6, Returned DEF ReturnFromGet, Sealed
<1>7. CASE /\ r.num_satisfied # NumToWaitFor(r)
           /\ get_reqs' = [get_reqs EXCEPT ![c] = [r EXCEPT !.timer = r.timeout # Forever]]
           /\ UNCHANGED object_get_requests_
  <2>1. PICK q : q = [r EXCEPT !.timer = r.timeout # Forever]
    OBVIOUS
  <2>2. get_reqs'[c] = q /\ \A d \in Clients \ {c} : get_reqs'[d] = get_reqs[d]
    BY <1>2, <1>7, <2>1 DEF RestType
  <2>3. /\ q.ids = r.ids /\ q.num_satisfied = r.num_satisfied /\ q.at_peer = r.at_peer
        /\ q.timeout = r.timeout /\ q.timer = (r.timeout # Forever)
    BY <2>1 DEF GetType
  <2>4. PICK m : m = Missing(c)
    OBVIOUS
  <2>5. /\ m = {id \in ObjectIDs : c \in ToSet(object_get_requests_[id])}
    BY <1>1, <2>4, GetView, EmptyFacts DEF Missing
  <2>6. Missing(c)' = m /\ ~InGet(c)'
    BY <1>3, <1>7, <2>5, QuiescentNext
  <2>7. /\ r.ids # <<>> /\ m \subseteq ToSet(r.ids)
        /\ r.num_satisfied + Cardinality(m) = NumToWaitFor(r)
        /\ ToSet(r.ids) \subseteq m \cup object_ids[c] \cup r.at_peer
    BY <1>2, <1>4, <1>5, <2>4 DEF Pending
  <2>8. m # {}
    <3>1. r.num_satisfied \in Nat
      BY GetFields
    <3>2. Cardinality(m) # 0
      BY <1>7, <2>7, <3>1
    <3> QED
      BY <3>2, FS_EmptySet
  <2>9. NumToWaitFor(get_reqs[c])' = NumToWaitFor(r)
    BY <2>2, <2>3 DEF NumToWaitFor
  <2>10. q.timer <=> q.timeout # Forever
    BY <2>3
  <2>11. loop'.c # c
    BY <1>3, NoClientAssumption
  <2>12. Pending(c)'
    BY <1>1, <2>2, <2>3, <2>6, <2>7, <2>8, <2>9, <2>10, <2>11 DEF Pending
  <2>13. q # NoRequest
    BY <2>3, <2>7 DEF NoRequest
  <2>14. RequestInv(c)'
    BY <2>2, <2>12, <2>13 DEF RequestInv
  <2>15. ASSUME NEW d \in Clients \ {c} PROVE RequestInv(d)'
    <3>1. Missing(d)' = Missing(d) /\ ~InGet(d) /\ ~InGet(d)'
      BY <1>1, <1>3, <1>4, <1>7, GetView, QuiescentNext DEF Missing
    <3>2. RequestInv(d)
      BY DEF GetInv
    <3>3. loop'.c # d
      BY <1>3, NoClientAssumption
    <3> QED
      BY <1>1, <2>2, <3>1, <3>2, <3>3, KeepRequest
  <2>16. \A d \in Clients : RequestInv(d)'
    BY <2>14, <2>15
  <2>17. SealsAnswered' /\ TurnsLeft' /\ ListedOnce'
    BY <1>1, <1>3, <1>7, SealsQuiet DEF Sealed, ListedOnce, GetInv
  <2> QED
    BY <1>1, <1>3, <2>16, <2>17 DEF GetInv
<1> QED
  BY <1>2, <1>4, <1>5, <1>6, <1>7 DEF GetEnd, RestType

LEMMA DisconnectGet ==
  ASSUME IInv, GetInv, NEW c \in Clients, DisconnectClient(c)
  PROVE  GetInv'
<1>1. /\ loop = Idle /\ ~crashed /\ object_get_requests_' = Unlisted(c)
      /\ get_reqs' = IF object_get_requests_ = Unlisted(c)
                       THEN get_reqs ELSE [get_reqs EXCEPT ![c] = NoRequest]
      /\ loop' = [Idle EXCEPT !.pc = "disconnect", !.c = c]
      /\ objects' = [id \in ObjectIDs |-> IF id \in Unsealed(c) THEN NoEntry ELSE objects[id]]
      /\ object_ids' = [object_ids EXCEPT ![c] = @ \ Unsealed(c)]
      /\ UNCHANGED crashed
  BY DEF DisconnectClient, Free, Running
<1>2. loop.pc = "idle" /\ loop'.pc = "disconnect" /\ loop'.c = c
  BY <1>1 DEF Idle
<1>3. \A d \in Clients \ {c} : object_ids'[d] = object_ids[d]
  BY <1>1 DEF IInv, Core, CoreType
<1>4. \A id \in ObjectIDs : Sealed(id)' => Sealed(id)
  BY <1>1 DEF Sealed, NoEntry
<1>5. get_reqs' = [get_reqs EXCEPT ![c] = NoRequest]
  <2>1. CASE object_get_requests_ = Unlisted(c)
    <3>1. \A id \in ObjectIDs : c \notin ToSet(object_get_requests_[id])
      BY <1>1, <2>1, ReturnLists DEF IInv, GetInv
    <3>2. Missing(c) = {} /\ ~InGet(c)
      BY <1>2, <3>1, Quiescent
    <3>3. get_reqs[c] = NoRequest
      BY <3>2 DEF GetInv, RequestInv, Pending
    <3> QED
      BY <1>1, <2>1, <3>3 DEF IInv, RestType
  <2>2. CASE object_get_requests_ # Unlisted(c)
    BY <1>1, <2>2
  <2> QED
    BY <2>1, <2>2
<1> QED
  BY <1>1, <1>2, <1>3, <1>4, <1>5, Returned DEF IInv

------------------------------------------------------------------------------
LEMMA InitGet == ASSUME Init PROVE GetInv
<1>1. /\ get_reqs = [c \in Clients |-> NoRequest]
      /\ object_get_requests_ = [id \in ObjectIDs |-> <<>>] /\ loop = Idle /\ ~crashed
  BY DEF Init
<1>2. loop.pc = "idle"
  BY <1>1 DEF Idle
<1>3. \A c \in Clients : RequestInv(c)
  BY <1>1, <1>2, Quiescent, EmptyFacts DEF RequestInv
<1>4. ListedOnce /\ SealsAnswered /\ TurnsLeft
  BY <1>1, <1>2, EmptyFacts DEF ListedOnce, SealsAnswered, TurnsLeft
<1> QED
  BY <1>1, <1>2, <1>3, <1>4 DEF GetInv

LEMMA NextGet ==
  ASSUME LocalReleases, QuotasStayExact, DistinctGets, IInv, GetInv, [Next]_vars
  PROVE  GetInv'
<1>1. CASE UNCHANGED vars
  BY <1>1, Steady DEF vars, IInv, GetInv, Sealed
<1>2. CASE EvictOne
  BY <1>2, EvictOneGet
<1>3. ASSUME NEW answer \in PeerAnswers, ObjectExists(answer) PROVE GetInv'
  BY <1>3, ObjectExistsGet
<1>4. ASSUME NEW answer \in PeerAnswers, GetRemote(answer) PROVE GetInv'
  BY <1>4, GetRemoteGet
<1>5. CASE EnforceQuota
  BY <1>5, EnforceQuotaGet
<1>6. CASE MakeRoom
  BY <1>6, MakeRoomGet
<1>7. CASE AbortCreated
  BY <1>7, AbortCreatedGet
<1>8. CASE ReplyError
  BY <1>8, ReplyErrorGet
<1>9. CASE SealOne
  BY <1>9, SealOneGet
<1>10. CASE UpdateWaiter
  BY <1>10, UpdateWaiterGet
<1>11. CASE UpdateDone
  BY <1>11, UpdateDoneGet
<1>12. CASE ReleaseCreated
  BY <1>12, ReleaseCreatedGet
<1>13. CASE GetLocal
  BY <1>13, GetLocalGet
<1>14. CASE GetEnd
  BY <1>14, GetEndGet
<1>15. ASSUME NEW id \in ObjectIDs, ReleaseHeld(id) PROVE GetInv'
  BY <1>15, ReleaseHeldGet
<1>16. CASE DisconnectEnd
  BY <1>16, DisconnectEndGet
<1>17. CASE CreateObject
  BY <1>17, CreateObjectGet
<1>18. ASSUME NEW c \in Clients, Message(c) PROVE GetInv'
  <2>1. ASSUME NEW id \in ObjectIDs, NEW n \in Sizes, NEW e \in EvictIfFull,
               CreateRequest(c, id, n, e)
        PROVE  GetInv'
    BY <2>1, CreateRequestGet
  <2>2. ASSUME NEW ids \in CreateLists, NEW n \in Sizes, NEW e \in EvictIfFull,
               CreateAndSealRequest(c, ids, n, e)
        PROVE  GetInv'
    BY <2>2, CreateAndSealRequestGet
  <2>3. ASSUME NEW ids \in GetLists, NEW t \in Timeouts, GetRequest(c, ids, t) PROVE GetInv'
    BY <2>3, GetRequestGet
  <2>4. ASSUME NEW id \in ObjectIDs, SealRequest(c, id) PROVE GetInv'
    BY <2>4, SealRequestGet
  <2>5. ASSUME NEW id \in ObjectIDs, AbortRequest(c, id) PROVE GetInv'
    BY <2>5, AbortRequestGet
  <2>6. ASSUME NEW id \in ObjectIDs, ReleaseRequest(c, id) PROVE GetInv'
    BY <2>6, ReleaseRequestGet
  <2>7. ASSUME NEW id \in ObjectIDs, DeleteRequest(c, id) PROVE GetInv'
    BY <2>7, DeleteRequestGet
  <2>8. ASSUME NEW id \in ObjectIDs, RefreshRequest(c, id) PROVE GetInv'
    BY <2>8, QuietRequestsGet
  <2>9. ASSUME NEW n \in EvictBytes, EvictRequest(c, n) PROVE GetInv'
    BY <2>9, QuietRequestsGet
  <2>10. ASSUME NEW q \in Quotas, SetOptionsRequest(c, q) PROVE GetInv'
    BY <2>10, QuietRequestsGet
  <2> QED
    BY <1>18, <2>1, <2>2, <2>3, <2>4, <2>5, <2>6, <2>7, <2>8, <2>9, <2>10 DEF Message
<1>19. ASSUME NEW c \in Clients, ConnectClient(c) PROVE GetInv'
  BY <1>19, QuietRequestsGet
<1>20. ASSUME NEW c \in Clients, DisconnectClient(c) PROVE GetInv'
  BY <1>20, DisconnectGet
<1>21. ASSUME NEW c \in Clients, TimerFires(c) PROVE GetInv'
  BY <1>21, TimerFiresGet
<1> QED
  BY <1>1, <1>2, <1>3, <1>4, <1>5, <1>6, <1>7, <1>8, <1>9, <1>10, <1>11, <1>12, <1>13,
     <1>14, <1>15, <1>16, <1>17, <1>18, <1>19, <1>20, <1>21 DEF Next, Step, Continue

(* The requests that wait, and the lists they are found by, agree.         *)
THEOREM GetsAreTracked ==
  ASSUME LocalReleases, QuotasStayExact, DistinctGets
  PROVE  Spec => [](IInv /\ GetInv)
<1>1. Init => IInv /\ GetInv
  BY InitIInv, InitGet
<1>2. IInv /\ GetInv /\ [Next]_vars => (IInv /\ GetInv)'
  BY NextIInv, NextGet
<1> QED
  BY <1>1, <1>2, PTL DEF Spec

(* Once SealObjects has told the waiting requests of an object, no request *)
(* waits for it: whichever came first, the Get or the seal, the request    *)
(* has been counted or answered.                                           *)
THEOREM NoLostWakeup ==
  ASSUME LocalReleases, QuotasStayExact, DistinctGets
  PROVE  Spec => []NoWaiterOnSealed
<1>1. IInv /\ GetInv => NoWaiterOnSealed
  BY DEF GetInv, SealsAnswered, NoWaiterOnSealed
<1> QED
  BY <1>1, GetsAreTracked, PTL

(* Between two events, num_satisfied of a pending Get is short of exactly  *)
(* the objects whose lists name it, and it has a timer unless it waits     *)
(* forever: the seal, the timer or the disconnection that ends it finds it.*)
THEOREM PendingGetsAreFound ==
  ASSUME LocalReleases, QuotasStayExact, DistinctGets
  PROVE  Spec => []PendingGetsAreListed
<1>1. ASSUME IInv, GetInv, loop = Idle, NEW c \in Clients, get_reqs[c] # NoRequest,
             NEW missing, missing = {id \in ObjectIDs : c \in ToSet(object_get_requests_[id])}
      PROVE  /\ missing # {} /\ missing \subseteq ToSet(get_reqs[c].ids)
             /\ get_reqs[c].num_satisfied + Cardinality(missing) = NumToWaitFor(get_reqs[c])
             /\ get_reqs[c].timer <=> get_reqs[c].timeout # Forever
  <2>1. Missing(c) = missing /\ ~InGet(c)
    BY <1>1, Quiescent DEF Idle
  <2>2. Pending(c)
    BY <1>1 DEF GetInv, RequestInv
  <2> QED
    BY <2>1, <2>2 DEF Pending
<1>2. IInv /\ GetInv => PendingGetsAreListed
  BY <1>1, Zenon DEF PendingGetsAreListed
<1> QED
  BY <1>2, GetsAreTracked, PTL

(* As long as the peer answers, no ARROW_CHECK of the store or of its      *)
(* policy fails, and UpdateObjectGetRequests never reads a list that       *)
(* ReturnFromGet has destroyed under it.                                   *)
THEOREM ChecksHold ==
  ASSUME LocalReleases, QuotasStayExact, DistinctGets, PeerAnswering
  PROVE  Spec => []NoCheckFailure
<1>1. IInv /\ GetInv => NoCheckFailure
  BY DEF IInv, Core, GetInv, PeerAnswering, NoCheckFailure
<1> QED
  BY <1>1, GetsAreTracked, PTL

------------------------------------------------------------------------------
(* How a Get ends.                                                         *)

Complete(c) == \A id \in ToSet(get_reqs[c].ids) : id \in object_ids'[c] \cup remote'[c]

EndsWell(c) ==
  \/ Complete(c)
  \/ get_reqs[c].timeout = 0
  \/ loop = Idle /\ get_reqs[c].timer
  \/ loop'.pc = "disconnect"

(* A request stays a request while it is counted.                          *)
LEMMA StillPending ==
  ASSUME NEW c, Pending(c), NEW q, q.ids = get_reqs[c].ids PROVE q # NoRequest
  BY DEF Pending, NoRequest

LEMMA UpdateWaiterBlocks ==
  ASSUME IInv, GetInv, UpdateWaiter, NEW d \in Clients, Answered(d)
  PROVE  EndsWell(d)
<1>1. PICK id \in ObjectIDs, c \in Clients : TurnOf(id, c)
  BY WaiterTurn
<1>2. RestType /\ Core /\ Pending(c) /\ object_ids' = [object_ids EXCEPT ![c] = @ \cup {id}]
  BY <1>1 DEF TurnOf, IInv
<1>3. PICK r \in GetType : r = get_reqs[c]
  BY <1>2 DEF RestType
<1>4. CASE /\ Missing(c) = {id}
           /\ get_reqs' = [get_reqs EXCEPT ![c] = NoRequest]
           /\ remote' = [remote EXCEPT ![c] = @ \cup get_reqs[c].at_peer]
  <2>1. d = c
    BY <1>2, <1>4 DEF Answered, RestType
  <2>2. ToSet(r.ids) \subseteq {id} \cup object_ids[c] \cup r.at_peer
    BY <1>2, <1>3, <1>4 DEF Pending
  <2>3. {id} \cup object_ids[c] \subseteq object_ids'[c] /\ r.at_peer \subseteq remote'[c]
    BY <1>2, <1>3, <1>4 DEF Core, CoreType, RestType
  <2> QED
    BY <1>3, <2>1, <2>2, <2>3 DEF EndsWell, Complete
<1>5. CASE get_reqs' = [get_reqs EXCEPT ![c] = [get_reqs[c] EXCEPT !.num_satisfied = @ + 1]]
  <2>1. PICK q : q = [r EXCEPT !.num_satisfied = @ + 1]
    OBVIOUS
  <2>2. get_reqs' = [get_reqs EXCEPT ![c] = q] /\ q.ids = r.ids
    BY <1>3, <1>5, <2>1, CountOne
  <2>3. q # NoRequest
    BY <1>2, <1>3, <2>2, StillPending
  <2> QED
    BY <1>2, <2>2, <2>3 DEF Answered, RestType
<1> QED
  BY <1>1, <1>4, <1>5 DEF TurnOf

LEMMA GetStepBlocks ==
  ASSUME IInv, GetInv, GetLocal \/ \E answer \in PeerAnswers : GetRemote(answer),
         NEW d \in Clients
  PROVE  ~Answered(d)
<1>1. loop.pc = "get"
  BY DEF GetLocal, GetRemote, At
<1>2. loop.c \in Clients /\ RestType /\ Pending(loop.c)
  BY <1>1, GetHandler
<1>3. PICK c \in Clients : c = loop.c
  BY <1>2
<1>4. PICK r \in GetType : r = get_reqs[c]
  BY <1>2 DEF RestType
<1>5. \/ UNCHANGED get_reqs
      \/ get_reqs' = [get_reqs EXCEPT ![c].num_satisfied = @ + 1]
      \/ \E id : get_reqs' = [get_reqs EXCEPT ![c].num_satisfied = @ + 1,
                                              ![c].at_peer = @ \cup {id}]
  BY <1>3 DEF GetLocal, GetRemote
<1>6. get_reqs'[c].ids = r.ids /\ \A x \in Clients \ {c} : get_reqs'[x] = get_reqs[x]
  BY <1>2, <1>4, <1>5 DEF RestType, GetType
<1>7. get_reqs'[c] # NoRequest
  BY <1>2, <1>3, <1>4, <1>6, StillPending
<1> QED
  BY <1>6, <1>7 DEF Answered

LEMMA GetEndBlocks ==
  ASSUME IInv, GetInv, GetEnd, NEW d \in Clients, Answered(d)
  PROVE  EndsWell(d)
<1>1. loop.pc = "get" /\ loop.ids = <<>> /\ loop.ask = <<>> /\ UNCHANGED object_ids
  BY DEF GetEnd, At
<1>2. loop.c \in Clients /\ RestType /\ Pending(loop.c)
  BY <1>1, GetHandler
<1>3. PICK c \in Clients : c = loop.c
  BY <1>2
<1>4. PICK r \in GetType : r = get_reqs[c]
  BY <1>2 DEF RestType
<1>5. CASE /\ ReturnFromGet(c, r)
           /\ r.num_satisfied = NumToWaitFor(r) \/ r.timeout = 0
  <2>1. d = c
    BY <1>2, <1>5 DEF Answered, RestType, ReturnFromGet
  <2>2. CASE r.timeout = 0
    BY <1>4, <2>1, <2>2 DEF EndsWell
  <2>3. CASE r.num_satisfied = NumToWaitFor(r)
    <3>1. PICK m : m = Missing(c)
      OBVIOUS
    <3>2. IsFiniteSet(m) /\ Cardinality(m) \in Nat
      BY <1>2, <3>1, MissingFacts
    <3>3. /\ r.num_satisfied + Cardinality(m) = NumToWaitFor(r)
          /\ ToSet(r.ids) \subseteq m \cup object_ids[c] \cup r.at_peer
      BY <1>2, <1>3, <1>4, <3>1 DEF Pending
    <3>4. r.num_satisfied \in Nat
      BY GetFields
    <3>5. Cardinality(m) = 0
      BY <2>3, <3>2, <3>3, <3>4
    <3>6. m = {}
      BY <3>2, <3>5, FS_EmptySet
    <3>7. r.at_peer \subseteq remote'[c]
      BY <1>2, <1>5 DEF ReturnFromGet, RestType
    <3> QED
      BY <1>1, <1>4, <2>1, <3>3, <3>6, <3>7 DEF EndsWell, Complete
  <2> QED
    BY <1>5, <2>2, <2>3
<1>6. CASE get_reqs' = [get_reqs EXCEPT ![c].timer = r.timeout # Forever]
  <2>1. get_reqs'[c].ids = r.ids /\ \A x \in Clients \ {c} : get_reqs'[x] = get_reqs[x]
    BY <1>2, <1>4, <1>6 DEF RestType, GetType
  <2>2. get_reqs'[c] # NoRequest
    BY <1>2, <1>3, <1>4, <2>1, StillPending
  <2> QED
    BY <2>1, <2>2 DEF Answered
<1> QED
  BY <1>3, <1>4, <1>5, <1>6 DEF GetEnd

LEMMA NextBlocks ==
  ASSUME IInv, GetInv, [Next]_vars, NEW d \in Clients, Answered(d)
  PROVE  EndsWell(d)
<1>1. get_reqs' # get_reqs
  BY DEF Answered
<1>2. CASE UpdateWaiter
  BY <1>2, UpdateWaiterBlocks
<1>3. CASE GetLocal \/ \E answer \in PeerAnswers : GetRemote(answer)
  BY <1>3, GetStepBlocks
<1>4. CASE GetEnd
  BY <1>4, GetEndBlocks
<1>5. ASSUME NEW c \in Clients, DisconnectClient(c) PROVE EndsWell(d)
  BY <1>5 DEF DisconnectClient, EndsWell, Idle
<1>6. ASSUME NEW c \in Clients, TimerFires(c) PROVE EndsWell(d)
  <2>1. loop = Idle /\ get_reqs[c].timer /\ get_reqs' = [get_reqs EXCEPT ![c] = NoRequest]
    BY <1>6 DEF TimerFires, Free, ReturnFromGet
  <2>2. d = c
    BY <2>1 DEF Answered, IInv, RestType
  <2> QED
    BY <2>1, <2>2 DEF EndsWell
<1>7. ASSUME NEW c \in Clients, Message(c) PROVE EndsWell(d)
  <2>1. PICK ids \in GetLists, t \in Timeouts : GetRequest(c, ids, t)
    BY <1>1, <1>7 DEF Message, CreateRequest, CreateAndSealRequest, SealRequest, AbortRequest,
         ReleaseRequest, DeleteRequest, RefreshRequest, EvictRequest, SetOptionsRequest
  <2>2. get_reqs[c] = NoRequest /\ \A x \in Clients \ {c} : get_reqs'[x] = get_reqs[x]
    BY <2>1 DEF GetRequest, Ready, IInv, RestType
  <2> QED
    BY <2>2 DEF Answered
<1>8. \A c \in Clients : ~ConnectClient(c)
  BY <1>1 DEF ConnectClient
<1>9. /\ ~EvictOne /\ ~EnforceQuota /\ ~MakeRoom /\ ~AbortCreated /\ ~ReplyError
      /\ ~SealOne /\ ~UpdateDone /\ ~ReleaseCreated /\ ~DisconnectEnd /\ ~CreateObject
      /\ \A answer : ~ObjectExists(answer)
      /\ \A id : ~ReleaseHeld(id)
      /\ ~UNCHANGED vars
  <2>1. ~EvictOne /\ ~EnforceQuota /\ ~MakeRoom /\ ~AbortCreated /\ ~ReplyError
    BY <1>1 DEF EvictOne, EnforceQuota, MakeRoom, AbortCreated, ReplyError
  <2>2. ~SealOne /\ ~UpdateDone /\ ~ReleaseCreated /\ ~DisconnectEnd /\ ~CreateObject
    BY <1>1 DEF SealOne, UpdateDone, ReleaseCreated, DisconnectEnd, CreateObject
  <2>3. \A x : ~ObjectExists(x) /\ ~ReleaseHeld(x)
    BY <1>1 DEF ObjectExists, ReleaseHeld
  <2> QED
    BY <1>1, <2>1, <2>2, <2>3 DEF vars
<1> QED
  BY <1>2, <1>3, <1>4, <1>5, <1>6, <1>7, <1>8, <1>9 DEF Next, Step, Continue

(* ProcessGetRequest and UpdateObjectGetRequests answer a Get only when    *)
(* its client has every object it asked for, here or at the peer; only a   *)
(* timeout, or the end of the client, cuts it short.                       *)
THEOREM GetsBlock ==
  ASSUME LocalReleases, QuotasStayExact, DistinctGets
  PROVE  Spec => GetBlocks
<1> DEFINE Blocks == \A c \in Clients : Answered(c) =>
             \/ \A id \in ToSet(get_reqs[c].ids) : id \in object_ids'[c] \cup remote'[c]
             \/ get_reqs[c].timeout = 0
             \/ loop = Idle /\ get_reqs[c].timer
             \/ loop'.pc = "disconnect"
<1>1. IInv /\ GetInv /\ [Next]_vars => [Blocks]_vars
  BY NextBlocks DEF EndsWell, Complete
<1>2. [](IInv /\ GetInv) /\ [][Next]_vars => [][Blocks]_vars
  BY <1>1, PTL
<1>3. [][Blocks]_vars => GetBlocks
  BY DEF GetBlocks
<1> QED
  BY <1>2, <1>3, GetsAreTracked, PTL DEF Spec
=============================================================================
