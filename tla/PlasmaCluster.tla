---------------------------- MODULE PlasmaCluster ----------------------------
(***************************************************************************)
(* Two Plasma stores that share their objects (store.cc, rpc.cc), each     *)
(* with an event loop, an RPC thread that answers the other store, a pool  *)
(* of memory and perhaps an external store.  The loop of a store and the   *)
(* RPC thread share the object table under mutex_; a critical section that *)
(* makes no call is one step that needs mutex_ to be free, and mutex_ is a *)
(* variable for the one that does: ProcessGetRequest keeps it while        *)
(* AllocateMemory makes room.                                              *)
(*                                                                         *)
(* Each store has one client, whose gets do not wait (timeout 0), and all  *)
(* objects have the size of a block; waiting gets, several clients and     *)
(* sizes, and the choice of what to evict are in PlasmaStore.              *)
(***************************************************************************)
EXTENDS Integers, FiniteSets

CONSTANTS
  ObjectIDs,
  Creates,     \* the objects that each store's client creates,
  Gets,        \* and those it gets
  Pool,        \* the blocks of each store's pool: 1 is at its base
  External,    \* the stores that have an external store
  Mortal,      \* the stores that may be killed
  NoObject

Stores == {1, 2}
Peer(s) == 3 - s
NoBlock == 0
Base == 1

ASSUME PoolAssumption ==
  /\ Pool \in [Stores -> SUBSET Nat]
  /\ \A s \in Stores : Base \in Pool[s] /\ NoBlock \notin Pool[s]
ASSUME RolesAssumption ==
  \A s \in Stores : Creates[s] \subseteq ObjectIDs /\ Gets[s] \subseteq ObjectIDs
ASSUME StoresAssumption == External \subseteq Stores /\ Mortal \subseteq Stores
ASSUME NoObjectAssumption == NoObject \notin ObjectIDs

VARIABLES
  objects,          \* store_info_.objects: the state and place of each object
  held,             \* Client::object_ids of the store's client
  deletion_cache_,
  free,             \* the blocks PlasmaAllocator can give away
  memory,           \* the object whose bytes are in each block
  backup,           \* table_ of the external store: the bytes it has copied
  mutex_,           \* is mutex_ held across a call?
  loop,             \* the handler in progress
  rpc,              \* the RPC a store's loop waits for, and its answer
  remote,           \* the blocks of the peer that the client reads objects in
  down,             \* the stores that were killed or have crashed
  lost,             \* history: descriptors whose object the peer has evicted
  raced             \* history: stores whose peer has created the object they
                    \* are about to create since it answered

vars == <<objects, held, deletion_cache_, free, memory, backup, mutex_, loop,
          rpc, remote, down, lost, raced>>

NoEntry == [state |-> "ABSENT", block |-> NoBlock]
NoRpc == [status |-> "none", block |-> NoBlock]
Idle == [pc |-> "idle", id |-> NoObject, victim |-> NoObject]

Present(s, id) == objects[s][id] # NoEntry
Is(s, id, state) == objects[s][id].state = state

Init ==
  /\ objects = [s \in Stores |-> [id \in ObjectIDs |-> NoEntry]]
  /\ held = [s \in Stores |-> {}]
  /\ deletion_cache_ = [s \in Stores |-> {}]
  /\ free = Pool
  /\ memory = [s \in Stores |-> [b \in Pool[s] |-> NoObject]]
  /\ backup = [s \in Stores |-> <<>>]
  /\ mutex_ = [s \in Stores |-> FALSE]
  /\ loop = [s \in Stores |-> Idle]
  /\ rpc = [s \in Stores |-> NoRpc]
  /\ remote = [s \in Stores |-> [id \in ObjectIDs |-> NoBlock]]
  /\ down = {}
  /\ lost = {}
  /\ raced = {}

Up(s) == s \notin down

(* The loop of s can take a message.                                       *)
Free(s) == Up(s) /\ loop[s] = Idle

(* It goes on with a handler that has no eviction to finish first.         *)
At(s, pc) == Up(s) /\ loop[s].pc = pc /\ loop[s].victim = NoObject

(* The store s waits for a descriptor of id, or its client has one.        *)
Watches(s, id) ==
  \/ remote[s][id] # NoBlock
  \/ loop[s].pc = "get" /\ loop[s].id = id /\ rpc[s].status = "OK"

LostBy(s, ids) == lost \cup {<<Peer(s), id>> : id \in {i \in ids : Watches(Peer(s), i)}}

------------------------------------------------------------------------------
(* Leaving the object table or the pool.                                   *)

Blocks(s, ids) == {objects[s][id].block : id \in ids}

Placeholder == [state |-> "EVICTED", block |-> NoBlock]

(* The external store copies what entry->pointer points to.  Memalign      *)
(* returns the base of the pool, wherever the object's block is.           *)
Put(s, ids) ==
  [id \in DOMAIN backup[s] \cup ids |->
     IF id \in ids THEN memory[s][Base] ELSE backup[s][id]]

(* Mutant of Leave: the placeholder keeps the pointer to freed memory.     *)
LeaveKeepsPointer(s, erased, evicted) ==
  LET gone == IF s \in External THEN erased ELSE erased \cup evicted
  IN  /\ objects' = [objects EXCEPT ![s] = [id \in ObjectIDs |->
           CASE id \in gone -> NoEntry
             [] id \in evicted \ gone -> [@[id] EXCEPT !.state = "EVICTED"]
             [] OTHER -> @[id]]]
      /\ free' = [free EXCEPT ![s] = @ \cup Blocks(s, erased \cup evicted)]
      /\ backup' = [backup EXCEPT ![s] = Put(s, evicted \ gone)]
      /\ lost' = LostBy(s, erased \cup evicted)

(* EraseFromObjectTable for erased and EvictObjects for evicted.  With an  *)
(* external store, an evicted object is put there and its entry stays as a *)
(* placeholder without memory; otherwise it is erased.                     *)
Leave(s, erased, evicted) ==
  LET gone == IF s \in External THEN erased ELSE erased \cup evicted
  IN  /\ objects' = [objects EXCEPT ![s] = [id \in ObjectIDs |->
           CASE id \in gone -> NoEntry
             [] id \in evicted \ gone -> Placeholder
             [] OTHER -> @[id]]]
      /\ free' = [free EXCEPT ![s] = @ \cup Blocks(s, erased \cup evicted)]
      /\ backup' = [backup EXCEPT ![s] = Put(s, evicted \ gone)]
      /\ lost' = LostBy(s, erased \cup evicted)

EraseFromObjectTable(s, id) == Leave(s, {id}, {})

EvictObjects(s, ids) == Leave(s, {}, ids)

(* Mutant of Evictable: objects in use are evicted too.                    *)
EvictableInUse(s) == {id \in ObjectIDs : Is(s, id, "SEALED")}

(* What the eviction policy may choose: see PlasmaStore's                  *)
(* EvictableIffUnused.                                                     *)
Evictable(s) == {id \in ObjectIDs : Is(s, id, "SEALED") /\ id \notin held[s]}

(* An Evict request of the client.                                         *)
EvictRequest(s, id) ==
  /\ Free(s)
  /\ id \in Evictable(s)
  /\ EvictObjects(s, {id})
  /\ UNCHANGED <<held, deletion_cache_, memory, mutex_, loop, rpc, remote,
                 down, raced>>

(* ReleaseObject.  An object deleted while it was in use is evicted now.   *)
ReleaseRequest(s, id) ==
  /\ Free(s)
  /\ id \in held[s] /\ Is(s, id, "SEALED")
  /\ held' = [held EXCEPT ![s] = @ \ {id}]
  /\ deletion_cache_' = [deletion_cache_ EXCEPT ![s] = @ \ {id}]
  /\ EvictObjects(s, {id} \cap deletion_cache_[s])
  /\ UNCHANGED <<memory, mutex_, loop, rpc, remote, down, raced>>

(* DeleteObject.  The client does not send it for an object it uses.       *)
DeleteRequest(s, id) ==
  /\ Free(s)
  /\ Present(s, id) /\ id \notin held[s]
  /\ IF Is(s, id, "SEALED")
       THEN EraseFromObjectTable(s, id) /\ UNCHANGED deletion_cache_
       ELSE /\ deletion_cache_' = [deletion_cache_ EXCEPT ![s] = @ \cup {id}]
            /\ UNCHANGED <<objects, free, backup, lost>>
  /\ UNCHANGED <<held, memory, mutex_, loop, rpc, remote, down, raced>>

Unsealed(s) == {id \in held[s] : Is(s, id, "CREATED")}

AbortRequest(s, id) ==
  /\ Free(s)
  /\ id \in Unsealed(s)
  /\ EraseFromObjectTable(s, id)
  /\ held' = [held EXCEPT ![s] = @ \ {id}]
  /\ UNCHANGED <<deletion_cache_, memory, mutex_, loop, rpc, remote, down,
                 raced>>

(* DisconnectClient, and a new client in its place: unsealed objects are   *)
(* aborted, the others released; the mapping of the peer's memory goes     *)
(* with the process.                                                       *)
DisconnectClient(s) ==
  /\ Free(s)
  /\ LET sealed == held[s] \ Unsealed(s)
     IN  /\ Leave(s, Unsealed(s), sealed \cap deletion_cache_[s])
         /\ deletion_cache_' = [deletion_cache_ EXCEPT ![s] = @ \ sealed]
  /\ held' = [held EXCEPT ![s] = {}]
  /\ remote' = [remote EXCEPT ![s] = [id \in ObjectIDs |-> NoBlock]]
  /\ UNCHANGED <<memory, mutex_, loop, rpc, down, raced>>

------------------------------------------------------------------------------
(* Create.                                                                 *)

(* Mutant of CreateRequest: mutex_ is kept while the peer is asked.        *)
CreateHoldsMutex(s, id) ==
  /\ Free(s)
  /\ id \in Creates[s]
  /\ ~Present(s, id)
  /\ loop' = [loop EXCEPT ![s] = [Idle EXCEPT !.pc = "exists", !.id = id]]
  /\ rpc' = [rpc EXCEPT ![s] = [status |-> "sent", block |-> NoBlock]]
  /\ mutex_' = [mutex_ EXCEPT ![s] = TRUE]
  /\ UNCHANGED <<objects, held, deletion_cache_, free, memory, backup, remote,
                 down, lost, raced>>

Sent == [status |-> "sent", block |-> NoBlock]

(* ObjectExists: an object that is not in the table is asked for at the    *)
(* peer.  mutex_ is not held meanwhile.                                    *)
CreateRequest(s, id) ==
  /\ Free(s)
  /\ id \in Creates[s]
  /\ ~Present(s, id)
  /\ loop' = [loop EXCEPT ![s] = [Idle EXCEPT !.pc = "exists", !.id = id]]
  /\ rpc' = [rpc EXCEPT ![s] = Sent]
  /\ UNCHANGED <<objects, held, deletion_cache_, free, memory, backup, mutex_,
                 remote, down, lost, raced>>

Answered(s) == rpc[s].status \notin {"none", "sent"}

(* The empty reply of a failed RPC has no first element to read.           *)
FailsOn(s, answer) ==
  down' = IF answer = "FAILED" THEN down \cup {s} ELSE down

(* Mutant of ObjectExists: an unsealed object of the peer does not count.  *)
ExistsIfSealed(s) ==
  /\ At(s, "exists") /\ Answered(s)
  /\ FailsOn(s, rpc[s].status)
  /\ loop' = [loop EXCEPT ![s] =
       IF rpc[s].status \in {"MISSING", "UNSEALED"}
         THEN [@ EXCEPT !.pc = "alloc"] ELSE Idle]
  /\ rpc' = [rpc EXCEPT ![s] = NoRpc]
  /\ UNCHANGED <<objects, held, deletion_cache_, free, memory, backup, mutex_,
                 remote, lost, raced>>

(* The object is created unless the peer knows it.                         *)
ObjectExists(s) ==
  /\ At(s, "exists") /\ Answered(s)
  /\ FailsOn(s, rpc[s].status)
  /\ loop' = [loop EXCEPT ![s] =
       IF rpc[s].status = "MISSING" THEN [@ EXCEPT !.pc = "alloc"] ELSE Idle]
  /\ rpc' = [rpc EXCEPT ![s] = NoRpc]
  /\ UNCHANGED <<objects, held, deletion_cache_, free, memory, backup, mutex_,
                 remote, lost, raced>>

(* The loop of s has been told that its peer does not have the object.     *)
AboutToCreate(s) ==
  \/ loop[s].pc = "exists" /\ rpc[s].status = "MISSING"
  \/ loop[s].pc = "alloc"

(* Memalign succeeds: AddObjectTableEntry and AddToClientObjectIds.        *)
CreateObject(s, b) ==
  /\ At(s, "alloc") /\ ~mutex_[s]
  /\ b \in free[s]
  /\ free' = [free EXCEPT ![s] = @ \ {b}]
  /\ objects' = [objects EXCEPT ![s][loop[s].id] = [state |-> "CREATED", block |-> b]]
  /\ held' = [held EXCEPT ![s] = @ \cup {loop[s].id}]
  /\ loop' = [loop EXCEPT ![s] = Idle]
  /\ raced' = (raced \ {s}) \cup
       {t \in {Peer(s)} : AboutToCreate(t) /\ loop[t].id = loop[s].id}
  /\ UNCHANGED <<deletion_cache_, memory, backup, mutex_, rpc, remote, down, lost>>

(* Memalign fails and RequireSpace finds something to evict, whether the   *)
(* memory is for a new object or for one to be restored.                   *)
RequireSpace(s, id) ==
  /\ At(s, "alloc") \/ At(s, "restore")
  /\ free[s] = {}
  /\ id \in Evictable(s)
  /\ loop' = [loop EXCEPT ![s].victim = id]
  /\ UNCHANGED <<objects, held, deletion_cache_, free, memory, backup, mutex_,
                 rpc, remote, down, lost, raced>>

(* It is evicted, which takes mutex_; then Memalign is tried again.        *)
EvictVictim(s) ==
  /\ Up(s) /\ loop[s].victim # NoObject /\ ~mutex_[s]
  /\ EvictObjects(s, {loop[s].victim})
  /\ loop' = [loop EXCEPT ![s].victim = NoObject]
  /\ UNCHANGED <<held, deletion_cache_, memory, mutex_, rpc, remote, down,
                 raced>>

(* It finds nothing: out of memory.  A restore gives mutex_ back and the   *)
(* object stays evicted.                                                   *)
OutOfMemory(s) ==
  /\ At(s, "alloc") \/ At(s, "restore")
  /\ free[s] = {} /\ Evictable(s) = {}
  /\ loop' = [loop EXCEPT ![s] = Idle]
  /\ mutex_' = [mutex_ EXCEPT ![s] = FALSE]
  /\ raced' = raced \ {s}
  /\ UNCHANGED <<objects, held, deletion_cache_, free, memory, backup, rpc,
                 remote, down, lost>>

(* SealObjects; the client has written the object before.                  *)
SealRequest(s, id) ==
  /\ Free(s)
  /\ id \in Unsealed(s)
  /\ objects' = [objects EXCEPT ![s][id].state = "SEALED"]
  /\ memory' = [memory EXCEPT ![s][objects[s][id].block] = id]
  /\ UNCHANGED <<held, deletion_cache_, free, backup, mutex_, loop, rpc,
                 remote, down, lost, raced>>

------------------------------------------------------------------------------
(* Get: ProcessGetRequest for one object.                                  *)

(* A sealed object is here: the client becomes a user of it.               *)
GetSealed(s, id) ==
  /\ Free(s)
  /\ id \in Gets[s] \ held[s] /\ Is(s, id, "SEALED")
  /\ held' = [held EXCEPT ![s] = @ \cup {id}]
  /\ UNCHANGED <<objects, deletion_cache_, free, memory, backup, mutex_, loop,
                 rpc, remote, down, lost, raced>>

(* It is in the external store: memory for it is allocated under mutex_.   *)
GetEvicted(s, id) ==
  /\ Free(s)
  /\ id \in Gets[s] /\ Is(s, id, "EVICTED")
  /\ mutex_' = [mutex_ EXCEPT ![s] = TRUE]
  /\ loop' = [loop EXCEPT ![s] = [Idle EXCEPT !.pc = "restore", !.id = id]]
  /\ UNCHANGED <<objects, held, deletion_cache_, free, memory, backup, rpc,
                 remote, down, lost, raced>>

(* The memory is there: the object is CREATED again and in use.            *)
Restore(s, b) ==
  /\ At(s, "restore")
  /\ b \in free[s]
  /\ free' = [free EXCEPT ![s] = @ \ {b}]
  /\ mutex_' = [mutex_ EXCEPT ![s] = FALSE]
  /\ objects' = [objects EXCEPT ![s][loop[s].id] = [state |-> "CREATED", block |-> b]]
  /\ held' = [held EXCEPT ![s] = @ \cup {loop[s].id}]
  /\ loop' = [loop EXCEPT ![s].pc = "fetch"]
  /\ UNCHANGED <<deletion_cache_, memory, backup, rpc, remote, down, lost,
                 raced>>

(* The external store writes its copy back to entry->pointer, again the    *)
(* base of the pool.                                                       *)
Fetch(s) ==
  /\ At(s, "fetch")
  /\ memory' = [memory EXCEPT ![s][Base] = backup[s][loop[s].id]]
  /\ objects' = [objects EXCEPT ![s][loop[s].id].state = "SEALED"]
  /\ loop' = [loop EXCEPT ![s] = Idle]
  /\ UNCHANGED <<held, deletion_cache_, free, backup, mutex_, rpc, remote,
                 down, lost, raced>>

(* It is not here: the peer is asked.  (It is also asked for an object     *)
(* that is here and not sealed, but the only client of the store does not  *)
(* get an object it is still writing.)  A client has one object of the     *)
(* peer at a time.                                                         *)
GetRequest(s, id) ==
  /\ Free(s)
  /\ id \in Gets[s] /\ ~Present(s, id)
  /\ \A i \in ObjectIDs : remote[s][i] = NoBlock
  /\ loop' = [loop EXCEPT ![s] = [Idle EXCEPT !.pc = "get", !.id = id]]
  /\ rpc' = [rpc EXCEPT ![s] = Sent]
  /\ UNCHANGED <<objects, held, deletion_cache_, free, memory, backup, mutex_,
                 remote, down, lost, raced>>

(* A sealed object of the peer is given to the client by its place; the    *)
(* peer is not told.                                                       *)
GetRemote(s) ==
  /\ At(s, "get") /\ Answered(s)
  /\ FailsOn(s, rpc[s].status)
  /\ remote' = [remote EXCEPT ![s][loop[s].id] = rpc[s].block]
  /\ rpc' = [rpc EXCEPT ![s] = NoRpc]
  /\ loop' = [loop EXCEPT ![s] = Idle]
  /\ UNCHANGED <<objects, held, deletion_cache_, free, memory, backup, mutex_,
                 lost, raced>>

------------------------------------------------------------------------------
(* The RPC thread of the peer: RpcServiceImpl::GetObjects for one object.  *)

(* Mutant of Details: an object that is being written is handed out.       *)
DetailsOfUnsealed(s, id) ==
  CASE ~Present(s, id) -> [status |-> "MISSING", block |-> NoBlock]
    [] Is(s, id, "EVICTED") -> [status |-> "EVICTED", block |-> NoBlock]
    [] OTHER -> [status |-> "OK", block |-> objects[s][id].block]

(* Mutant of Details: the metadata's offset is sent as the data's.         *)
DetailsOfMetadata(s, id) ==
  CASE ~Present(s, id) -> [status |-> "MISSING", block |-> NoBlock]
    [] Is(s, id, "EVICTED") -> [status |-> "EVICTED", block |-> NoBlock]
    [] Is(s, id, "CREATED") -> [status |-> "UNSEALED", block |-> NoBlock]
    [] OTHER -> [status |-> "OK", block |-> objects[s][id].block + 1]

Details(s, id) ==
  CASE ~Present(s, id) -> [status |-> "MISSING", block |-> NoBlock]
    [] Is(s, id, "EVICTED") -> [status |-> "EVICTED", block |-> NoBlock]
    [] Is(s, id, "CREATED") -> [status |-> "UNSEALED", block |-> NoBlock]
    [] OTHER -> [status |-> "OK", block |-> objects[s][id].block]

(* It waits for mutex_ of its store only, and answers s.                   *)
ServeGetObjects(s) ==
  /\ rpc[s] = Sent
  /\ Up(Peer(s)) /\ ~mutex_[Peer(s)]
  /\ rpc' = [rpc EXCEPT ![s] = Details(Peer(s), loop[s].id)]
  /\ lost' = IF loop[s].pc = "get" THEN lost \ {<<s, loop[s].id>>} ELSE lost
  /\ UNCHANGED <<objects, held, deletion_cache_, free, memory, backup, mutex_,
                 loop, remote, down, raced>>

(* The RPC fails: the peer is gone, or it is there and gRPC could not      *)
(* reach it.  GetObjects logs the error and returns the empty reply.       *)
RpcFails(s) ==
  /\ rpc[s] = Sent
  /\ rpc' = [rpc EXCEPT ![s].status = "FAILED"]
  /\ UNCHANGED <<objects, held, deletion_cache_, free, memory, backup, mutex_,
                 loop, remote, down, lost, raced>>

(* A store is killed; the memory of its pool outlives it.                  *)
Kill(s) ==
  /\ s \in Mortal
  /\ Up(s)
  /\ down' = down \cup {s}
  /\ UNCHANGED <<objects, held, deletion_cache_, free, memory, backup, mutex_,
                 loop, rpc, remote, lost, raced>>

------------------------------------------------------------------------------
(* What the loop of s does next in the handler in progress.                *)
Continue(s) ==
  \/ ObjectExists(s) \/ GetRemote(s) \/ Fetch(s)
  \/ EvictVictim(s) \/ OutOfMemory(s)
  \/ \E b \in Pool[s] : CreateObject(s, b) \/ Restore(s, b)
  \/ \E id \in ObjectIDs : RequireSpace(s, id)

Rpc(s) == ServeGetObjects(s) \/ RpcFails(s)

Message(s, id) ==
  \/ CreateRequest(s, id) \/ SealRequest(s, id) \/ AbortRequest(s, id)
  \/ GetSealed(s, id) \/ GetEvicted(s, id) \/ GetRequest(s, id)
  \/ ReleaseRequest(s, id) \/ DeleteRequest(s, id) \/ EvictRequest(s, id)

Next ==
  \E s \in Stores :
    \/ Continue(s) \/ Rpc(s)
    \/ \E id \in ObjectIDs : Message(s, id)
    \/ DisconnectClient(s) \/ Kill(s)

Spec == Init /\ [][Next]_vars

(* The loops go on with what they have begun; clients need not send        *)
(* anything.  An RPC thread that waits for mutex_ gets it in the end: the  *)
(* loop gives it back between two restores, and its unlock wakes the       *)
(* thread.  An RPC to a live peer may fail but need not: it has no         *)
(* deadline; one to a peer that is gone does.                              *)
FairSpec ==
  /\ Spec
  /\ \A s \in Stores :
       /\ WF_vars(Continue(s))
       /\ SF_vars(ServeGetObjects(s))
       /\ WF_vars(~Up(Peer(s)) /\ RpcFails(s))

------------------------------------------------------------------------------
Entry == [state : {"ABSENT", "CREATED", "SEALED", "EVICTED"}, block : Nat]

Handler ==
  [pc : {"idle", "exists", "alloc", "restore", "fetch", "get"},
   id : ObjectIDs \cup {NoObject}, victim : ObjectIDs \cup {NoObject}]

Answer ==
  [status : {"none", "sent", "MISSING", "UNSEALED", "EVICTED", "OK", "FAILED"},
   block : Nat]

TypeOK ==
  /\ objects \in [Stores -> [ObjectIDs -> Entry]]
  /\ held \in [Stores -> SUBSET ObjectIDs]
  /\ deletion_cache_ \in [Stores -> SUBSET ObjectIDs]
  /\ free \in [Stores -> SUBSET Nat]
  /\ DOMAIN memory = Stores /\ DOMAIN backup = Stores
  /\ mutex_ \in [Stores -> BOOLEAN]
  /\ loop \in [Stores -> Handler]
  /\ rpc \in [Stores -> Answer]
  /\ remote \in [Stores -> [ObjectIDs -> Nat]]
  /\ down \subseteq Stores
  /\ lost \subseteq Stores \X ObjectIDs
  /\ raced \subseteq Stores
  /\ \A s \in Stores :
       /\ free[s] \subseteq Pool[s]
       /\ memory[s] \in [Pool[s] -> ObjectIDs \cup {NoObject}]
       /\ backup[s] \in [DOMAIN backup[s] -> ObjectIDs \cup {NoObject}]
       /\ \A id \in ObjectIDs :
            /\ objects[s][id].block \in Pool[s] \cup {NoBlock}
            /\ remote[s][id] \in Pool[Peer(s)] \cup {NoBlock}
       /\ rpc[s].block \in Pool[Peer(s)] \cup {NoBlock}

Accounted(s) ==
  /\ \A b \in Pool[s] :
       b \notin free[s] <=> \E id \in ObjectIDs : objects[s][id].block = b
  /\ \A i, j \in ObjectIDs :
       objects[s][i].block # NoBlock /\ i # j => objects[s][i].block # objects[s][j].block
  /\ \A id \in ObjectIDs :
       /\ objects[s][id].block # NoBlock <=> objects[s][id].state \in {"CREATED", "SEALED"}
       /\ Is(s, id, "EVICTED") => id \in DOMAIN backup[s]

(* Every block of a pool is free or belongs to one object that has its     *)
(* bytes in memory, through creation, eviction to the external store,      *)
(* restoring, abort and deletion: none is shared and none leaks; and an    *)
(* object the table lists without memory has a copy in the external store. *)
BlocksAccounted == \A s \in Stores : Accounted(s)

(* An object that a client uses stays in the table of its store and, once  *)
(* sealed, keeps its bytes, whatever is created and evicted meanwhile.     *)
(* (With an external store restoring writes to the base of the pool, so    *)
(* only the first part holds.)                                             *)
LocalReadsIntact ==
  \A s \in Stores : \A id \in held[s] :
    /\ objects[s][id].state \in {"CREATED", "SEALED"}
    /\ Is(s, id, "SEALED") /\ s \notin External
         => memory[s][objects[s][id].block] = id

(* A client that got an object from the peer reads that object's bytes     *)
(* until the peer evicts or deletes it: the descriptor the RPC thread made *)
(* is of a sealed object, and nothing overwrites an object in the table.   *)
(* Once the object is lost to the peer there is no such promise, since the *)
(* peer does not know the reader (store.cc:530-542).                       *)
RemoteReadsFresh ==
  \A s \in Stores, id \in ObjectIDs :
    (remote[s][id] # NoBlock /\ <<s, id>> \notin lost /\ Peer(s) \notin External)
      => memory[Peer(s)][remote[s][id]] = id

(* Two stores hold an object of the same id only when their Create         *)
(* requests overlapped: an object the peer has when it is asked, sealed,   *)
(* unsealed or evicted, is not created again, and neither is one the peer  *)
(* could not be asked about.                                               *)
DuplicatesOnlyByRace ==
  [][\A s \in Stores, id \in ObjectIDs :
       ~Present(s, id) /\ Present(s, id)' /\ Present(Peer(s), id) => s \in raced]_vars

(* Every handler ends, although the two loops ask each other and the RPC   *)
(* threads need the mutexes of the loops - unless its store goes down.     *)
HandlersEnd ==
  \A s \in Stores : (loop[s] # Idle) ~> (loop[s] = Idle \/ ~Up(s))
=============================================================================
