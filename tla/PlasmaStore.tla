----------------------------- MODULE PlasmaStore -----------------------------
(***************************************************************************)
(* store.cc: one Plasma store.  The event loop handles one message, timer  *)
(* or connection at a time; a handler is a sequence of steps, so that what *)
(* the RPC threads of the store can see between two critical sections is a *)
(* state of the model.  loop is the handler in progress and how far it is. *)
(*                                                                         *)
(* The answers of the peer store are inputs (the parameter answer); memory *)
(* is the abstract allocator of AllocatorSpec seen through allocated_ and  *)
(* the objects' sizes.  Clients send what client.cc lets them send.  There *)
(* is no external store here.                                              *)
(***************************************************************************)
EXTENDS QuotaAwarePolicy

CONSTANTS
  Sizes,          \* data_size + metadata_size of the objects created
  Quotas,         \* the memory quotas clients ask for
  EvictBytes,     \* the numbers of bytes in Evict requests
  CreateLists,    \* the object_ids of CreateAndSeal and its batch form
  GetLists,       \* the object_ids of Get requests
  Timeouts,       \* their timeout_ms: 0, Forever, or another number
  EvictIfFull,    \* the values of evict_if_full in Create requests
  PeerAnswers,    \* what the peer store may answer
  Fragments,      \* may Memalign fail although the bytes are there?
  Requests        \* the optional requests the clients use

ASSUME SizesAssumption ==
  Sizes \subseteq Nat /\ Quotas \subseteq Nat /\ EvictBytes \subseteq Int
ASSUME ListsAssumption ==
  CreateLists \subseteq Seq(ObjectIDs) \ {<<>>} /\ GetLists \subseteq Seq(ObjectIDs)
ASSUME FlagsAssumption ==
  Timeouts \subseteq Int /\ EvictIfFull \subseteq BOOLEAN /\ Fragments \in BOOLEAN
ASSUME LimitAssumption == Limit \in Nat /\ Limit >= 5
ASSUME PeerAssumption == PeerAnswers \subseteq {"MISSING", "UNSEALED", "OK", "FAILED"}
ASSUME RequestsAssumption ==
  Requests \subseteq {"Abort", "Delete", "Disconnect", "ReleaseRemote"}

VARIABLES
  objects,          \* store_info_.objects
  object_ids,       \* Client::object_ids of each client
  connected,        \* connected_clients_
  deletion_cache_,  \* objects to delete when they are released
  get_reqs,         \* the GetRequest of each client, or NoRequest
  object_get_requests_,  \* the requests that wait for each object, by client
  policy,           \* eviction_policy_
  allocated_,       \* PlasmaAllocator::Allocated()
  evict_queue,      \* what the EvictObjects call in progress has yet to evict
  loop,             \* the handler in progress
  remote,           \* objects of the peer store that a client got
  crashed           \* an ARROW_CHECK failed, or memory was misused

vars == <<objects, object_ids, connected, deletion_cache_, get_reqs,
          object_get_requests_, policy, allocated_, evict_queue, loop,
          remote, crashed>>

Forever == -1

NoEntry == [state |-> "ABSENT", size |-> 0, ref_count |-> 0]

NoRequest == [ids |-> <<>>, num_satisfied |-> 0, timeout |-> 0, timer |-> FALSE,
              at_peer |-> {}]

(* The fields of a handler are its arguments and locals: client, the ids   *)
(* still to do, all ids of the request, the size and flags of a Create,    *)
(* the ids to ask the peer about, and UpdateObjectGetRequests' index and   *)
(* num_requests - i.                                                       *)
Idle == [pc |-> "idle", c |-> NoClient, ids |-> <<>>, all |-> <<>>, size |-> 0,
         evict_if_full |-> FALSE, seal |-> FALSE, ask |-> <<>>,
         index |-> 0, left |-> 0]

Present(id) == objects[id] # NoEntry
Sealed(id) == objects[id].state = "SEALED"
SizeOf == [id \in ObjectIDs |-> IF Present(id) THEN objects[id].size ELSE -1]

Init ==
  /\ objects = [id \in ObjectIDs |-> NoEntry]
  /\ object_ids = [c \in Clients |-> {}]
  /\ connected = {}
  /\ deletion_cache_ = {}
  /\ get_reqs = [c \in Clients |-> NoRequest]
  /\ object_get_requests_ = [id \in ObjectIDs |-> <<>>]
  /\ policy = InitialPolicy
  /\ allocated_ = 0
  /\ evict_queue = <<>>
  /\ loop = Idle
  /\ remote = [c \in Clients |-> {}]
  /\ crashed = FALSE

(* A failed check ends the process.                                        *)
Running == ~crashed /\ policy.ok

(* The loop waits for an event.                                            *)
Free == Running /\ loop = Idle /\ evict_queue = <<>>

(* It can take a message of c, which is not waiting for a reply.           *)
Ready(c) == Free /\ c \in connected /\ get_reqs[c] = NoRequest

(* It is in the middle of a handler, with nothing left to evict first.     *)
At(pc) == Running /\ loop.pc = pc /\ evict_queue = <<>>

------------------------------------------------------------------------------
(* References.                                                             *)

(* Mutant of AddToClientObjectIds: a client is counted for every Get.      *)
AddCountsAgain(id, c) ==
  /\ objects' = [objects EXCEPT ![id].ref_count = @ + 1]
  /\ object_ids' = [object_ids EXCEPT ![c] = @ \cup {id}]
  /\ policy' = IF objects[id].ref_count = 0
                 THEN BeginObjectAccess(policy, id) ELSE policy

(* Mutant of AddToClientObjectIds: the policy is not told.                 *)
AddNotTold(id, c) ==
  /\ objects' = IF id \in object_ids[c]
                  THEN objects ELSE [objects EXCEPT ![id].ref_count = @ + 1]
  /\ object_ids' = [object_ids EXCEPT ![c] = @ \cup {id}]
  /\ UNCHANGED policy

AddToClientObjectIds(id, c) ==
  IF id \in object_ids[c]
    THEN UNCHANGED <<objects, object_ids, policy>>
    ELSE /\ objects' = [objects EXCEPT ![id].ref_count = @ + 1]
         /\ object_ids' = [object_ids EXCEPT ![c] = @ \cup {id}]
         /\ policy' = IF objects[id].ref_count = 0
                        THEN BeginObjectAccess(policy, id) ELSE policy

(* Mutant of RemoveFromClientObjectIds: the client stays listed.           *)
RemoveKeepsListed(id, c) ==
  /\ objects' = [objects EXCEPT ![id].ref_count = @ - 1]
  /\ policy' = IF objects[id].ref_count = 1
                 THEN EndObjectAccess(policy, id, objects[id].size) ELSE policy
  /\ UNCHANGED <<object_ids, allocated_, deletion_cache_, crashed>>

(* Mutant of RemoveFromClientObjectIds: deletion_cache_ is not consulted.  *)
RemoveIgnoresDeletion(id, c) ==
  /\ object_ids' = [object_ids EXCEPT ![c] = @ \ {id}]
  /\ objects' = [objects EXCEPT ![id].ref_count = @ - 1]
  /\ policy' = IF objects[id].ref_count = 1
                 THEN EndObjectAccess(policy, id, objects[id].size) ELSE policy
  /\ UNCHANGED <<allocated_, deletion_cache_, crashed>>

(* The entry goes, and its memory is freed.                                *)
EraseFromObjectTable(id) ==
  /\ objects' = [objects EXCEPT ![id] = NoEntry]
  /\ allocated_' = allocated_ - objects[id].size

(* The last reference goes: the object becomes evictable, or is evicted at *)
(* once when it was deleted while in use.                                  *)
RemoveFromClientObjectIds(id, c) ==
  LET last == objects[id].ref_count = 1
      evict == last /\ id \in deletion_cache_
  IN  /\ object_ids' = [object_ids EXCEPT ![c] = @ \ {id}]
      /\ IF evict
           THEN EraseFromObjectTable(id)
           ELSE /\ objects' = [objects EXCEPT ![id].ref_count = @ - 1]
                /\ UNCHANGED allocated_
      /\ deletion_cache_' = IF evict THEN deletion_cache_ \ {id}
                                     ELSE deletion_cache_
      /\ policy' = IF last /\ ~evict
                     THEN EndObjectAccess(policy, id, objects[id].size)
                     ELSE policy
      /\ crashed' = (evict /\ ~Sealed(id))

(* One object of an EvictObjects call.                                     *)
EvictOne ==
  /\ Running
  /\ evict_queue # <<>>
  /\ LET id == Head(evict_queue)
         sound == Present(id) /\ Sealed(id) /\ objects[id].ref_count = 0
     IN  /\ IF sound THEN EraseFromObjectTable(id)
                     ELSE UNCHANGED <<objects, allocated_>>
         /\ crashed' = ~sound
  /\ evict_queue' = Tail(evict_queue)
  /\ UNCHANGED <<object_ids, connected, deletion_cache_, get_reqs,
                 object_get_requests_, policy, loop, remote>>

------------------------------------------------------------------------------
(* Creating objects: CreateObject for each of loop.ids.                    *)

CreateRequest(c, id, n, e) ==
  /\ Ready(c)
  /\ loop' = [Idle EXCEPT !.pc = "exists", !.c = c, !.ids = <<id>>,
                          !.all = <<id>>, !.size = n, !.evict_if_full = e]
  /\ UNCHANGED <<objects, object_ids, connected, deletion_cache_, get_reqs,
                 object_get_requests_, policy, allocated_, evict_queue,
                 remote, crashed>>

(* CreateAndSeal is the batch of one object.                               *)
CreateAndSealRequest(c, ids, n, e) ==
  /\ Ready(c)
  /\ loop' = [Idle EXCEPT !.pc = "exists", !.c = c, !.ids = ids, !.all = ids,
                          !.size = n, !.evict_if_full = e, !.seal = TRUE]
  /\ UNCHANGED <<objects, object_ids, connected, deletion_cache_, get_reqs,
                 object_get_requests_, policy, allocated_, evict_queue,
                 remote, crashed>>

(* CreateObject fails: what the request has created so far is aborted.     *)
Fail(pc) ==
  [loop EXCEPT !.pc = pc,
               !.ids = SubSeq(loop.all, 1, Len(loop.all) - Len(loop.ids))]

(* ObjectExists: the peer is asked when the object is not in the table.  A *)
(* failed RPC leaves an empty reply, whose first element is then read.     *)
ObjectExists(answer) ==
  /\ At("exists")
  /\ loop' = IF Present(Head(loop.ids)) \/ answer # "MISSING"
               THEN Fail("abort") ELSE [loop EXCEPT !.pc = "quota"]
  /\ crashed' = (~Present(Head(loop.ids)) /\ answer = "FAILED")
  /\ UNCHANGED <<objects, object_ids, connected, deletion_cache_, get_reqs,
                 object_get_requests_, policy, allocated_, evict_queue, remote>>

(* AllocateMemory, first part: the quota of the client.                    *)
EnforceQuota ==
  /\ At("quota")
  /\ LET q == EnforcePerClientQuota(policy, loop.c, loop.size)
     IN  IF loop.evict_if_full
           THEN /\ policy' = q.policy
                /\ evict_queue' = q.evict
                /\ loop' = IF q.ok THEN [loop EXCEPT !.pc = "alloc"]
                                   ELSE Fail("abort")
           ELSE /\ loop' = [loop EXCEPT !.pc = "alloc"]
                /\ UNCHANGED <<policy, evict_queue>>
  /\ UNCHANGED <<objects, object_ids, connected, deletion_cache_, get_reqs,
                 object_get_requests_, allocated_, remote, crashed>>

(* Memalign succeeds: the rest of CreateObject.                            *)
CreateObject ==
  /\ At("alloc")
  /\ allocated_ + loop.size <= Limit
  /\ allocated_' = allocated_ + loop.size
  /\ LET id == Head(loop.ids)
         rest == Tail(loop.ids)
     IN  /\ objects' = [objects EXCEPT ![id] =
              [state |-> "CREATED", size |-> loop.size, ref_count |-> 1]]
         /\ policy' = BeginObjectAccess(
              ObjectCreated(policy, id, loop.c, loop.size), id)
         /\ object_ids' = [object_ids EXCEPT ![loop.c] = @ \cup {id}]
         /\ loop' = CASE rest # <<>> -> [loop EXCEPT !.pc = "exists", !.ids = rest]
                      [] rest = <<>> /\ loop.seal ->
                           [loop EXCEPT !.pc = "seal", !.ids = loop.all]
                      [] OTHER -> Idle
  /\ UNCHANGED <<connected, deletion_cache_, get_reqs, object_get_requests_,
                 evict_queue, remote, crashed>>

(* Memalign fails: make room and try again, or give up.                    *)
MakeRoom ==
  /\ At("alloc")
  /\ allocated_ + loop.size > Limit \/ Fragments
  /\ LET r == RequireSpace(policy, loop.size, allocated_)
     IN  IF loop.evict_if_full
           THEN /\ policy' = r.policy
                /\ evict_queue' = r.evict
                /\ loop' = IF r.success THEN loop ELSE Fail("oom")
           ELSE /\ loop' = Fail("oom")
                /\ UNCHANGED <<policy, evict_queue>>
  /\ UNCHANGED <<objects, object_ids, connected, deletion_cache_, get_reqs,
                 object_get_requests_, allocated_, remote, crashed>>

(* Mutant of AbortObject: the memory is not freed.                         *)
AbortLeaks(id, c) ==
  /\ objects' = [objects EXCEPT ![id] = NoEntry]
  /\ object_ids' = [object_ids EXCEPT ![c] = @ \ {id}]
  /\ UNCHANGED <<allocated_, policy, deletion_cache_>>

(* AbortObject.  Neither the eviction policy nor deletion_cache_ is told.  *)
AbortObject(id, c) ==
  /\ EraseFromObjectTable(id)
  /\ object_ids' = [object_ids EXCEPT ![c] = @ \ {id}]
  /\ UNCHANGED <<policy, deletion_cache_>>

AbortCreated ==
  /\ At("abort") \/ At("oom")
  /\ loop.ids # <<>>
  /\ AbortObject(Head(loop.ids), loop.c)
  /\ loop' = [loop EXCEPT !.ids = Tail(@)]
  /\ UNCHANGED <<connected, get_reqs, object_get_requests_, evict_queue,
                 remote, crashed>>

ReplyError ==
  /\ At("abort") \/ At("oom")
  /\ loop.ids = <<>>
  /\ loop' = Idle
  /\ UNCHANGED <<objects, object_ids, connected, deletion_cache_, get_reqs,
                 object_get_requests_, policy, allocated_, evict_queue,
                 remote, crashed>>

AbortRequest(c, id) ==
  /\ "Abort" \in Requests
  /\ Ready(c)
  /\ id \in object_ids[c] \ remote[c]
  /\ objects[id].state = "CREATED"
  /\ AbortObject(id, c)
  /\ UNCHANGED <<connected, get_reqs, object_get_requests_, evict_queue, loop,
                 remote, crashed>>

------------------------------------------------------------------------------
(* Sealing, and answering the requests that wait for the objects.          *)

SealRequest(c, id) ==
  /\ Ready(c)
  /\ id \in object_ids[c] \ remote[c]
  /\ objects[id].state = "CREATED"
  /\ loop' = [Idle EXCEPT !.pc = "seal", !.c = c, !.ids = <<id>>, !.all = <<id>>]
  /\ UNCHANGED <<objects, object_ids, connected, deletion_cache_, get_reqs,
                 object_get_requests_, policy, allocated_, evict_queue,
                 remote, crashed>>

(* UpdateObjectGetRequests(Head(ids)) begins, for what is left of a        *)
(* SealObjects call; after the last one, CreateAndSeal releases its        *)
(* objects and Seal is done.                                               *)
UpdateNext(ids) ==
  CASE ids # <<>> -> [loop EXCEPT !.pc = "update", !.ids = ids, !.index = 1,
                        !.left = Len(object_get_requests_[Head(ids)])]
    [] ids = <<>> /\ loop.seal -> [loop EXCEPT !.pc = "release", !.ids = loop.all]
    [] OTHER -> Idle

SealOne ==
  /\ At("seal")
  /\ LET id == Head(loop.ids)
     IN  /\ objects' = [objects EXCEPT ![id].state = "SEALED"]
         /\ crashed' = (objects[id].state # "CREATED")
  /\ loop' = IF Tail(loop.ids) = <<>> THEN UpdateNext(loop.all)
                                      ELSE [loop EXCEPT !.ids = Tail(@)]
  /\ UNCHANGED <<object_ids, connected, deletion_cache_, get_reqs,
                 object_get_requests_, policy, allocated_, evict_queue, remote>>

(* Mutant of NumToWaitFor: one object short.                               *)
NumToWaitForLess(req) == Cardinality(ToSet(req.ids)) - 1

NumToWaitFor(req) == Cardinality(ToSet(req.ids))

(* RemoveGetRequest: no object's list names the client any more.           *)
Unlisted(c) ==
  [id \in ObjectIDs |->
     LET list == object_get_requests_[id]
     IN  Pick(list, {i \in DOMAIN list : list[i] # c})]

(* ReturnFromGet: the reply, and the end of the request.                   *)
ReturnFromGet(c, req) ==
  /\ get_reqs' = [get_reqs EXCEPT ![c] = NoRequest]
  /\ object_get_requests_' = Unlisted(c)
  /\ remote' = [remote EXCEPT ![c] = @ \cup req.at_peer]

(* One turn of the loop over the requests that wait for Head(loop.ids).    *)
(* The turns are counted beforehand; one that finds the list exhausted     *)
(* reads a destroyed vector.                                               *)
UpdateWaiter ==
  /\ At("update")
  /\ loop.left > 0
  /\ LET id == Head(loop.ids)
         waiting == object_get_requests_[id]
         c == waiting[loop.index]
         req == [get_reqs[c] EXCEPT !.num_satisfied = @ + 1]
         done == req.num_satisfied = NumToWaitFor(req)
     IN  IF loop.index > Len(waiting)
           THEN /\ crashed' = TRUE
                /\ UNCHANGED <<objects, object_ids, get_reqs,
                               object_get_requests_, policy, loop, remote>>
           ELSE /\ AddToClientObjectIds(id, c)
                /\ IF done
                     THEN ReturnFromGet(c, req)
                     ELSE /\ get_reqs' = [get_reqs EXCEPT ![c] = req]
                          /\ UNCHANGED <<object_get_requests_, remote>>
                /\ loop' = [loop EXCEPT !.left = @ - 1,
                                        !.index = IF done THEN @ ELSE @ + 1]
                /\ UNCHANGED crashed
  /\ UNCHANGED <<connected, deletion_cache_, allocated_, evict_queue>>

(* Mutant of UpdateDone: the object's list is left behind.                 *)
UpdateKeepsList ==
  /\ At("update")
  /\ loop.left = 0
  /\ loop' = UpdateNext(Tail(loop.ids))
  /\ UNCHANGED <<objects, object_ids, connected, deletion_cache_, get_reqs,
                 object_get_requests_, policy, allocated_, evict_queue, remote,
                 crashed>>

UpdateDone ==
  /\ At("update")
  /\ loop.left = 0
  /\ object_get_requests_' =
       [object_get_requests_ EXCEPT ![Head(loop.ids)] = <<>>]
  /\ loop' = UpdateNext(Tail(loop.ids))
  /\ UNCHANGED <<objects, object_ids, connected, deletion_cache_, get_reqs,
                 policy, allocated_, evict_queue, remote, crashed>>

(* The references CreateObject took for CreateAndSeal are dropped.         *)
ReleaseCreated ==
  /\ At("release")
  /\ RemoveFromClientObjectIds(Head(loop.ids), loop.c)
  /\ loop' = IF Tail(loop.ids) = <<>> THEN Idle ELSE [loop EXCEPT !.ids = Tail(@)]
  /\ UNCHANGED <<connected, get_reqs, object_get_requests_, evict_queue, remote>>

------------------------------------------------------------------------------
(* Get.                                                                    *)

(* The client answers from objects_in_use_ what it can, and must not wait  *)
(* forever for an object it has yet to seal.                               *)
GetRequest(c, ids, timeout) ==
  /\ Ready(c)
  /\ \E id \in ToSet(ids) : ~(id \in remote[c] \/ (id \in object_ids[c] /\ Sealed(id)))
  /\ \/ timeout # Forever
     \/ \A id \in ToSet(ids) \cap object_ids[c] : Sealed(id) \/ id \in remote[c]
  /\ get_reqs' = [get_reqs EXCEPT ![c] =
       [NoRequest EXCEPT !.ids = ids, !.timeout = timeout]]
  /\ loop' = [Idle EXCEPT !.pc = "get", !.c = c, !.ids = ids]
  /\ UNCHANGED <<objects, object_ids, connected, deletion_cache_,
                 object_get_requests_, policy, allocated_, evict_queue,
                 remote, crashed>>

(* The first loop of ProcessGetRequest, for one id.                        *)
GetLocal ==
  /\ At("get")
  /\ loop.ids # <<>>
  /\ LET id == Head(loop.ids)
     IN  IF Sealed(id)
           THEN /\ AddToClientObjectIds(id, loop.c)
                /\ get_reqs' = [get_reqs EXCEPT ![loop.c].num_satisfied = @ + 1]
                /\ loop' = [loop EXCEPT !.ids = Tail(@)]
           ELSE /\ loop' = [loop EXCEPT !.ids = Tail(@), !.ask = Append(@, id)]
                /\ UNCHANGED <<objects, object_ids, policy, get_reqs>>
  /\ UNCHANGED <<connected, deletion_cache_, object_get_requests_, allocated_,
                 evict_queue, remote, crashed>>

(* Mutant of GetRemote: an object the peer has not sealed yet is dropped.  *)
GetRemoteDropsUnsealed(answer) ==
  /\ At("get")
  /\ loop.ids = <<>> /\ loop.ask # <<>>
  /\ object_get_requests_' =
       IF answer = "MISSING"
         THEN [object_get_requests_ EXCEPT ![Head(loop.ask)] = Append(@, loop.c)]
         ELSE object_get_requests_
  /\ loop' = [loop EXCEPT !.ask = Tail(@)]
  /\ UNCHANGED <<objects, object_ids, connected, deletion_cache_, get_reqs,
                 policy, allocated_, evict_queue, remote, crashed>>

(* The second one: the peer's answer about one id.                         *)
GetRemote(answer) ==
  /\ At("get")
  /\ loop.ids = <<>> /\ loop.ask # <<>>
  /\ LET id == Head(loop.ask)
     IN  IF answer = "OK"
           THEN /\ get_reqs' = [get_reqs EXCEPT
                     ![loop.c].num_satisfied = @ + 1,
                     ![loop.c].at_peer = @ \cup {id}]
                /\ UNCHANGED object_get_requests_
           ELSE /\ object_get_requests_' =
                     [object_get_requests_ EXCEPT ![id] = Append(@, loop.c)]
                /\ UNCHANGED get_reqs
  /\ loop' = [loop EXCEPT !.ask = Tail(@)]
  /\ crashed' = (answer = "FAILED")
  /\ UNCHANGED <<objects, object_ids, connected, deletion_cache_, policy,
                 allocated_, evict_queue, remote>>

(* Reply at once, or leave the request waiting, with a timer or forever.   *)
GetEnd ==
  /\ At("get")
  /\ loop.ids = <<>> /\ loop.ask = <<>>
  /\ LET req == get_reqs[loop.c]
     IN  IF req.num_satisfied = NumToWaitFor(req) \/ req.timeout = 0
           THEN ReturnFromGet(loop.c, req)
           ELSE /\ get_reqs' = [get_reqs EXCEPT
                     ![loop.c].timer = req.timeout # Forever]
                /\ UNCHANGED <<object_get_requests_, remote>>
  /\ loop' = Idle
  /\ UNCHANGED <<objects, object_ids, connected, deletion_cache_, policy,
                 allocated_, evict_queue, crashed>>

(* Mutant of TimerFires: a request with partial results is left alone.     *)
TimerSkipsPartial(c) ==
  /\ Free
  /\ get_reqs[c].timer
  /\ get_reqs[c].num_satisfied = 0
  /\ ReturnFromGet(c, get_reqs[c])
  /\ UNCHANGED <<objects, object_ids, connected, deletion_cache_, policy,
                 allocated_, evict_queue, loop, crashed>>

TimerFires(c) ==
  /\ Free
  /\ get_reqs[c].timer
  /\ ReturnFromGet(c, get_reqs[c])
  /\ UNCHANGED <<objects, object_ids, connected, deletion_cache_, policy,
                 allocated_, evict_queue, loop, crashed>>

------------------------------------------------------------------------------
(* Release, Delete, Evict, Refresh, SetOptions.                            *)

(* ReleaseObject.  The client forgets the object, wherever it is; the      *)
(* store checks that the client holds it here.                             *)
ReleaseRequest(c, id) ==
  /\ Ready(c)
  /\ \/ id \in object_ids[c] /\ Sealed(id)
     \/ id \in remote[c] /\ "ReleaseRemote" \in Requests
  /\ IF id \in object_ids[c]
       THEN RemoveFromClientObjectIds(id, c)
       ELSE /\ crashed' = TRUE
            /\ UNCHANGED <<objects, object_ids, deletion_cache_, policy, allocated_>>
  /\ remote' = [remote EXCEPT ![c] = @ \ {id}]
  /\ UNCHANGED <<connected, get_reqs, object_get_requests_, evict_queue, loop>>

(* Mutant of DeleteRequest: objects in use are deleted.                    *)
DeleteInUse(c, id) ==
  /\ "Delete" \in Requests
  /\ Ready(c)
  /\ id \notin object_ids[c] \cup remote[c]
  /\ Sealed(id)
  /\ policy' = RemoveObject(policy, id)
  /\ EraseFromObjectTable(id)
  /\ UNCHANGED <<object_ids, connected, deletion_cache_, get_reqs,
                 object_get_requests_, evict_queue, loop, remote, crashed>>

(* DeleteObject.  The client holds back the ids it uses itself.            *)
DeleteRequest(c, id) ==
  /\ "Delete" \in Requests
  /\ Ready(c)
  /\ id \notin object_ids[c] \cup remote[c]
  /\ Present(id)
  /\ IF Sealed(id) /\ objects[id].ref_count = 0
       THEN /\ policy' = RemoveObject(policy, id)
            /\ EraseFromObjectTable(id)
            /\ UNCHANGED deletion_cache_
       ELSE /\ deletion_cache_' = deletion_cache_ \cup {id}
            /\ UNCHANGED <<policy, objects, allocated_>>
  /\ UNCHANGED <<object_ids, connected, get_reqs, object_get_requests_,
                 evict_queue, loop, remote, crashed>>

EvictRequest(c, bytes) ==
  /\ Ready(c)
  /\ LET choice == ChooseObjectsToEvict(policy, bytes)
     IN  /\ policy' = choice.policy
         /\ evict_queue' = choice.evict
  /\ UNCHANGED <<objects, object_ids, connected, deletion_cache_, get_reqs,
                 object_get_requests_, allocated_, loop, remote, crashed>>

RefreshRequest(c, id) ==
  /\ Ready(c)
  /\ policy' = RefreshObject(policy, id)
  /\ UNCHANGED <<objects, object_ids, connected, deletion_cache_, get_reqs,
                 object_get_requests_, allocated_, evict_queue, loop, remote,
                 crashed>>

SetOptionsRequest(c, quota) ==
  /\ Ready(c)
  /\ policy' = SetClientQuota(policy, c, quota)
  /\ UNCHANGED <<objects, object_ids, connected, deletion_cache_, get_reqs,
                 object_get_requests_, allocated_, evict_queue, loop, remote,
                 crashed>>

------------------------------------------------------------------------------
(* Connections.                                                            *)

ConnectClient(c) ==
  /\ Free
  /\ c \notin connected
  /\ connected' = connected \cup {c}
  /\ UNCHANGED <<objects, object_ids, deletion_cache_, get_reqs,
                 object_get_requests_, policy, allocated_, evict_queue, loop,
                 remote, crashed>>

Unsealed(c) == {id \in object_ids[c] : ~Sealed(id)}

(* DisconnectClient up to RemoveGetRequestsForClient: the client may have  *)
(* asked for it, or died, even while it waits in Get.                      *)
DisconnectClient(c) ==
  /\ "Disconnect" \in Requests
  /\ Free
  /\ c \in connected
  /\ policy' = ClientDisconnected(policy, c, SizeOf)
  /\ objects' = [id \in ObjectIDs |-> IF id \in Unsealed(c) THEN NoEntry
                                                            ELSE objects[id]]
  /\ allocated_' = allocated_ - Total([id \in Unsealed(c) |-> objects[id].size])
  /\ object_ids' = [object_ids EXCEPT ![c] = @ \ Unsealed(c)]
  /\ object_get_requests_' = Unlisted(c)
  /\ get_reqs' = IF object_get_requests_ = Unlisted(c)
                   THEN get_reqs ELSE [get_reqs EXCEPT ![c] = NoRequest]
  /\ loop' = [Idle EXCEPT !.pc = "disconnect", !.c = c]
  /\ UNCHANGED <<connected, deletion_cache_, evict_queue, remote, crashed>>

(* The sealed objects it used are released, in any order.                  *)
ReleaseHeld(id) ==
  /\ At("disconnect")
  /\ id \in object_ids[loop.c]
  /\ RemoveFromClientObjectIds(id, loop.c)
  /\ UNCHANGED <<connected, get_reqs, object_get_requests_, evict_queue, loop,
                 remote>>

DisconnectEnd ==
  /\ At("disconnect")
  /\ object_ids[loop.c] = {}
  /\ connected' = connected \ {loop.c}
  /\ remote' = [remote EXCEPT ![loop.c] = {}]
  /\ loop' = Idle
  /\ UNCHANGED <<objects, object_ids, deletion_cache_, get_reqs,
                 object_get_requests_, policy, allocated_, evict_queue, crashed>>

------------------------------------------------------------------------------
(* What the event loop does next in the handler in progress.               *)
Continue ==
  \/ EvictOne
  \/ \E answer \in PeerAnswers : ObjectExists(answer) \/ GetRemote(answer)
  \/ EnforceQuota \/ MakeRoom \/ AbortCreated \/ ReplyError
  \/ SealOne \/ UpdateWaiter \/ UpdateDone \/ ReleaseCreated
  \/ GetLocal \/ GetEnd
  \/ \E id \in ObjectIDs : ReleaseHeld(id)
  \/ DisconnectEnd

Step == Continue \/ CreateObject

Message(c) ==
  \/ \E id \in ObjectIDs, n \in Sizes, e \in EvictIfFull : CreateRequest(c, id, n, e)
  \/ \E ids \in CreateLists, n \in Sizes, e \in EvictIfFull :
       CreateAndSealRequest(c, ids, n, e)
  \/ \E ids \in GetLists, t \in Timeouts : GetRequest(c, ids, t)
  \/ \E id \in ObjectIDs :
       \/ SealRequest(c, id) \/ AbortRequest(c, id) \/ ReleaseRequest(c, id)
       \/ DeleteRequest(c, id) \/ RefreshRequest(c, id)
  \/ \E n \in EvictBytes : EvictRequest(c, n)
  \/ \E q \in Quotas : SetOptionsRequest(c, q)

Next ==
  \/ Step
  \/ \E c \in Clients : Message(c)
  \/ \E c \in Clients : ConnectClient(c) \/ DisconnectClient(c) \/ TimerFires(c)

Spec == Init /\ [][Next]_vars

(* The loop goes on with a handler it has begun, and runs timers that are  *)
(* due; whether and when clients send anything is up to them.  Where the   *)
(* pool may be fragmented, Memalign need never succeed: the same free list *)
(* refuses the same request however often it is repeated.                  *)
FairSpec ==
  /\ Spec
  /\ WF_vars(Continue)
  /\ WF_vars(~Fragments /\ CreateObject)
  /\ \A c \in Clients : SF_vars(TimerFires(c))

------------------------------------------------------------------------------
TypeOK ==
  /\ objects \in [ObjectIDs -> [state : {"ABSENT", "CREATED", "SEALED"},
                                size : Nat, ref_count : Nat]]
  /\ object_ids \in [Clients -> SUBSET ObjectIDs]
  /\ connected \subseteq Clients
  /\ deletion_cache_ \subseteq ObjectIDs
  /\ get_reqs \in [Clients -> [ids : Seq(ObjectIDs), num_satisfied : Nat,
                               timeout : Int, timer : BOOLEAN,
                               at_peer : SUBSET ObjectIDs]]
  /\ object_get_requests_ \in [ObjectIDs -> Seq(Clients)]
  /\ policy \in PolicyType
  /\ allocated_ \in Nat
  /\ evict_queue \in Seq(ObjectIDs)
  /\ loop \in [pc : {"idle", "exists", "quota", "alloc", "abort", "oom", "seal",
                     "update", "release", "get", "disconnect"},
               c : Clients \cup {NoClient}, ids : Seq(ObjectIDs),
               all : Seq(ObjectIDs), size : Nat, evict_if_full : BOOLEAN,
               seal : BOOLEAN, ask : Seq(ObjectIDs), index : Nat, left : Nat]
  /\ remote \in [Clients -> SUBSET ObjectIDs]
  /\ crashed \in BOOLEAN

Holders(id) == {c \in Clients : id \in object_ids[c]}

(* An object's ref_count is the number of clients that use it, through     *)
(* every create, get, late seal, release, abort and disconnection; and     *)
(* only the creator uses an object before it is sealed.                    *)
RefCountsHolders ==
  \A id \in ObjectIDs :
    /\ objects[id].ref_count = Cardinality(Holders(id))
    /\ objects[id].state = "CREATED" => objects[id].ref_count = 1

Evictable(id) ==
  \/ id \in Keys(policy.cache_)
  \/ Owned(policy, id) /\ id \notin policy.shared_for_read_
  \/ id \in ToSet(evict_queue)

(* The policy and the object table agree: exactly the sealed objects that  *)
(* no client uses can be evicted.  An object missing here is never freed;  *)
(* one too many ends the store in EvictObjects' checks.                    *)
EvictableIffUnused ==
  \A id \in ObjectIDs :
    Evictable(id) <=> Sealed(id) /\ objects[id].ref_count = 0

(* No ARROW_CHECK of the store or the policy fails, no missing object's    *)
(* size is read, and no destroyed list of requests.                        *)
NoCheckFailure == ~crashed /\ policy.ok

(* A sealed object has no waiter left behind: whoever asked for it before  *)
(* it was sealed has been answered or counted.                             *)
NoWaiterOnSealed ==
  loop.pc \notin {"seal", "update"} =>
    \A id \in ObjectIDs : Sealed(id) => object_get_requests_[id] = <<>>

(* Between two messages, every pending Get is short of exactly the objects *)
(* it is listed under, so it can still be completed and can be found when  *)
(* its client disconnects; and it has a timer unless it waits forever.     *)
PendingGetsAreListed ==
  loop = Idle =>
    \A c \in Clients : get_reqs[c] # NoRequest =>
      LET req == get_reqs[c]
          missing == {id \in ObjectIDs : c \in ToSet(object_get_requests_[id])}
      IN  /\ missing # {} /\ missing \subseteq ToSet(req.ids)
          /\ req.num_satisfied + Cardinality(missing) = NumToWaitFor(req)
          /\ req.timer <=> req.timeout # Forever

(* What Memalign's limit and RequireSpace go by is what the objects take.  *)
AllocatedExact ==
  /\ allocated_ = Total([id \in ObjectIDs |-> objects[id].size])
  /\ allocated_ <= Limit

(* An object deleted while in use goes with its last user, as the comments *)
(* in DeleteObject ("Put it into deletion cache, it will be deleted        *)
(* later.") and client_tests.cc:526 say.  client.h:213-215 and 224-226 say *)
(* of such a delete that "it is a no operation"; the code does not follow  *)
(* that, and neither does this property.                                   *)
DeletedWhenReleased ==
  \A id \in deletion_cache_ : ~(Sealed(id) /\ objects[id].ref_count = 0)

(* A Create that may evict is refused for lack of memory only when nothing *)
(* is left to evict from the global LRU.                                   *)
OutOfMemoryMeansInUse ==
  loop.pc = "oom" /\ loop.evict_if_full => policy.cache_.items = <<>>

(* Get blocks until all its objects are there or its timeout expires: the  *)
(* reply leaves the client with every object it asked for, unless the      *)
(* timeout was 0 or the timer fired; or the client is gone.                *)
Answered(c) == get_reqs[c] # NoRequest /\ get_reqs'[c] = NoRequest

GetBlocks ==
  [][\A c \in Clients : Answered(c) =>
       \/ \A id \in ToSet(get_reqs[c].ids) :
            id \in object_ids'[c] \cup remote'[c]
       \/ get_reqs[c].timeout = 0
       \/ loop = Idle /\ get_reqs[c].timer
       \/ loop'.pc = "disconnect"]_vars

(* A client with a quota is never charged for more than its quota.         *)
QuotaCap ==
  \A c \in Clients : HasQuota(policy, c) =>
    RemainingCapacity(policy.per_client_cache_[c]) >= 0

(* No byte is in two LRU queues, or twice in one, whatever moves objects   *)
(* between them; and no capacity is lost or invented when quotas come and  *)
(* go.                                                                     *)
QueuesDisjoint ==
  LET Queue == [c \in Clients |-> policy.per_client_cache_[c]]
      Once(lru) == Cardinality(Keys(lru)) = Len(lru.items)
      quotas == {c \in Clients : HasQuota(policy, c)}
  IN  /\ Once(policy.cache_)
      /\ \A c \in Clients :
           /\ Once(Queue[c])
           /\ Keys(Queue[c]) \cap Keys(policy.cache_) = {}
           /\ Keys(Queue[c]) = {id \in ObjectIDs : policy.owned_by_client_[id] = c}
      /\ policy.cache_.capacity
           + Total([c \in quotas |-> Queue[c].capacity]) = Limit

(* client.h:196-197 on Abort: "it will be as if the object was never       *)
(* created at all".  Of an id that is not in the table there is no trace   *)
(* in deletion_cache_, by which the next object of that id would be taken  *)
(* for one somebody has deleted.                                           *)
AbortForgets == \A id \in deletion_cache_ : Present(id)

(* Every handler ends: eviction and allocation do not go round for ever.   *)
HandlersEnd ==
  (loop # Idle \/ evict_queue # <<>>) ~> (loop = Idle /\ evict_queue = <<>>)

(* A Get with a timeout is answered, whatever other clients do.            *)
TimedGetsReturn == \A c \in Clients : get_reqs[c].timer ~> ~get_reqs[c].timer

AbstractStore == INSTANCE ObjectStoreSpec WITH
  table <- [id \in ObjectIDs |->
              [state |-> objects[id].state, size |-> objects[id].size]],
  holders <- [id \in ObjectIDs |-> Holders(id)]

(* The store keeps its promise to the clients: a sealed object stays, the  *)
(* same, while a client holds it; unsealed ones are their creator's alone. *)
Implements == AbstractStore!Spec
=============================================================================
