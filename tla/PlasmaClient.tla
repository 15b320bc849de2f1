---------------------------- MODULE PlasmaClient ----------------------------
(***************************************************************************)
(* client.cc: the client library, several clients at one store.  A client  *)
(* counts in objects_in_use_ how often its program uses an object and      *)
(* tells the store only when the last use ends; Release has no reply, all  *)
(* other requests wait for one.  client_mutex_ is held for a whole call,   *)
(* so call is the one call of a client that waits for the store.           *)
(*                                                                         *)
(* The store is what it promises to be, ObjectStoreSpec, which PlasmaStore *)
(* implements.  The objects of the peer store are a constant here.  The    *)
(* program is a correct one: it releases what it was given, once.          *)
(***************************************************************************)
EXTENDS Integers, Sequences, FiniteSets

CONSTANTS
  Clients,
  ObjectIDs,
  GetLists,      \* the object_ids of Get
  DeleteLists,   \* the object_ids of Delete
  PeerHas,       \* the objects that the peer store has sealed
  ReleaseRemote, \* does the program release objects of the peer?
  MaxHandles     \* bound on the references a program keeps of one object

ASSUME ClientListsAssumption ==
  GetLists \subseteq Seq(ObjectIDs) /\ DeleteLists \subseteq Seq(ObjectIDs)
ASSUME PeerHasAssumption == PeerHas \subseteq ObjectIDs
ASSUME ReleaseRemoteAssumption == ReleaseRemote \in BOOLEAN
ASSUME MaxHandlesAssumption == MaxHandles \in Nat

VARIABLES
  objects_in_use_,  \* of each client: count, is_sealed, and whether at the peer
  deletion_cache_,  \* of each client: to delete when no longer in use
  call,             \* the call a client waits in
  connected,        \* clients with a socket
  handles,          \* references the program has and will release
  releases,         \* Release requests on their way to the store
  attached,         \* clients that the store has a connection of
  table, holders,   \* the store: see ObjectStoreSpec
  crashed           \* a check of the store failed

clientVars == <<objects_in_use_, deletion_cache_, connected, handles>>
storeVars == <<table, holders, attached, crashed>>
vars == <<objects_in_use_, deletion_cache_, call, connected, handles, releases,
          attached, table, holders, crashed>>

Sizes == {1}

Store == INSTANCE ObjectStoreSpec

NotInUse == [count |-> 0, is_sealed |-> FALSE, remote |-> FALSE]

(* filled: the ids of the list that are in use already, whose buffers Get  *)
(* has and which Delete does not send; got: what the store has given so    *)
(* far; done: the reply is on its way.                                     *)
NoCall == [op |-> "none", ids |-> <<>>, filled |-> {}, got |-> {},
           forever |-> FALSE, done |-> FALSE]

ListSet(s) == {s[i] : i \in DOMAIN s}
Occurrences(s, id) == Cardinality({i \in DOMAIN s : s[i] = id})

InUse(c, id) == objects_in_use_[c][id].count > 0

Init ==
  /\ objects_in_use_ = [c \in Clients |-> [id \in ObjectIDs |-> NotInUse]]
  /\ deletion_cache_ = [c \in Clients |-> {}]
  /\ call = [c \in Clients |-> NoCall]
  /\ connected = {}
  /\ handles = [c \in Clients |-> [id \in ObjectIDs |-> 0]]
  /\ releases = [c \in Clients |-> [id \in ObjectIDs |-> 0]]
  /\ attached = {}
  /\ Store!Init
  /\ crashed = FALSE

(* The client can begin a call.                                            *)
Ready(c) == ~crashed /\ c \in connected /\ call[c] = NoCall

(* The store has read everything that c sent before its request.           *)
AtStore(c, op) ==
  /\ ~crashed
  /\ c \in attached
  /\ call[c].op = op /\ ~call[c].done
  /\ \A id \in ObjectIDs : releases[c][id] = 0

Replied(c, op) == ~crashed /\ c \in connected /\ call[c].op = op /\ call[c].done

Send(c, request) == call' = [call EXCEPT ![c] = request]

Request(op, ids) == [NoCall EXCEPT !.op = op, !.ids = ids]

------------------------------------------------------------------------------
(* Mutant of Unuse: the store is told of every release.                    *)
UnuseTellsAlways(c, id) ==
  LET entry == objects_in_use_[c][id]
      last == entry.count = 1
  IN  /\ objects_in_use_' = [objects_in_use_ EXCEPT ![c][id] =
           IF last THEN NotInUse ELSE [entry EXCEPT !.count = @ - 1]]
      /\ releases' = [releases EXCEPT ![c][id] = @ + 1]
      /\ UNCHANGED deletion_cache_
      /\ Send(c, NoCall)

(* Mutant of Unuse: the store is not told.                                 *)
UnuseTellsNever(c, id) ==
  LET entry == objects_in_use_[c][id]
      last == entry.count = 1
  IN  /\ objects_in_use_' = [objects_in_use_ EXCEPT ![c][id] =
           IF last THEN NotInUse ELSE [entry EXCEPT !.count = @ - 1]]
      /\ UNCHANGED <<releases, deletion_cache_>>
      /\ Send(c, NoCall)

(* PlasmaClient::Release, for the program and for Seal: the last use sends *)
(* the Release, and then the Delete that was waiting for it.               *)
Unuse(c, id) ==
  LET entry == objects_in_use_[c][id]
      last == entry.count = 1
      delete == last /\ id \in deletion_cache_[c]
  IN  /\ objects_in_use_' = [objects_in_use_ EXCEPT ![c][id] =
           IF last THEN NotInUse ELSE [entry EXCEPT !.count = @ - 1]]
      /\ releases' = IF last THEN [releases EXCEPT ![c][id] = @ + 1] ELSE releases
      /\ deletion_cache_' =
           IF delete THEN [deletion_cache_ EXCEPT ![c] = @ \ {id}]
                     ELSE deletion_cache_
      /\ Send(c, IF delete THEN Request("delete", <<id>>) ELSE NoCall)

Release(c, id) ==
  /\ Ready(c)
  /\ handles[c][id] > 0
  /\ ReleaseRemote \/ ~objects_in_use_[c][id].remote
  /\ handles' = [handles EXCEPT ![c][id] = @ - 1]
  /\ Unuse(c, id)
  /\ UNCHANGED <<connected, storeVars>>

(* The store reads a Release.  It checks that the client uses the object.  *)
StoreReleases(c, id) ==
  /\ ~crashed
  /\ c \in attached
  /\ releases[c][id] > 0
  /\ releases' = [releases EXCEPT ![c][id] = @ - 1]
  /\ \/ Store!Release(c, id) /\ UNCHANGED crashed
     \/ /\ c \notin holders[id]
        /\ crashed' = TRUE
        /\ UNCHANGED <<table, holders>>
  /\ UNCHANGED <<clientVars, call, attached>>

------------------------------------------------------------------------------
Create(c, id) ==
  /\ Ready(c)
  /\ handles[c][id] < MaxHandles
  /\ Send(c, Request("create", <<id>>))
  /\ UNCHANGED <<clientVars, releases, storeVars>>

StoreCreates(c) ==
  /\ AtStore(c, "create")
  /\ LET id == Head(call[c].ids)
     IN  /\ id \notin PeerHas
         /\ \E n \in Sizes : Store!Create(c, id, n)
         /\ Send(c, [call[c] EXCEPT !.done = TRUE, !.got = {id}])
  /\ UNCHANGED <<clientVars, releases, attached, crashed>>

(* The object exists, here or at the peer, or there is no memory.          *)
StoreRefuses(c) ==
  /\ AtStore(c, "create")
  /\ Send(c, [call[c] EXCEPT !.done = TRUE])
  /\ UNCHANGED <<clientVars, releases, storeVars>>

(* IncrementObjectCount, n times.  An entry that exists stays as it is.    *)
Increment(entry, n, is_sealed, remote) ==
  IF entry.count > 0
    THEN [entry EXCEPT !.count = @ + n]
    ELSE [count |-> n, is_sealed |-> is_sealed, remote |-> remote]

(* Mutant of CreateReply: the reference for Seal is not counted.           *)
CreateCountsOnce(c) ==
  /\ Replied(c, "create")
  /\ LET created == call[c].got
     IN  /\ objects_in_use_' = [objects_in_use_ EXCEPT ![c] =
              [id \in ObjectIDs |->
                 IF id \in created THEN Increment(@[id], 1, FALSE, FALSE) ELSE @[id]]]
         /\ handles' = [handles EXCEPT ![c] =
              [id \in ObjectIDs |-> IF id \in created THEN @[id] + 1 ELSE @[id]]]
  /\ Send(c, NoCall)
  /\ UNCHANGED <<deletion_cache_, connected, releases, storeVars>>

(* One reference is the program's; the other is Seal's or Abort's to drop. *)
CreateReply(c) ==
  /\ Replied(c, "create")
  /\ LET created == call[c].got
     IN  /\ objects_in_use_' = [objects_in_use_ EXCEPT ![c] =
              [id \in ObjectIDs |->
                 IF id \in created THEN Increment(@[id], 2, FALSE, FALSE) ELSE @[id]]]
         /\ handles' = [handles EXCEPT ![c] =
              [id \in ObjectIDs |-> IF id \in created THEN @[id] + 1 ELSE @[id]]]
  /\ Send(c, NoCall)
  /\ UNCHANGED <<deletion_cache_, connected, releases, storeVars>>

(* CreateAndSeal leaves nothing in use.                                    *)
CreateAndSeal(c, id) ==
  /\ Ready(c)
  /\ Send(c, Request("create_and_seal", <<id>>))
  /\ UNCHANGED <<clientVars, releases, storeVars>>

StoreCreatesAndSeals(c) ==
  /\ AtStore(c, "create_and_seal")
  /\ LET id == Head(call[c].ids)
     IN  \/ /\ id \notin PeerHas /\ table[id] = Store!Absent
            /\ \E n \in Sizes :
                 table' = [table EXCEPT ![id] = [state |-> "SEALED", size |-> n]]
         \/ UNCHANGED table
  /\ Send(c, [call[c] EXCEPT !.done = TRUE])
  /\ UNCHANGED <<clientVars, releases, holders, attached, crashed>>

------------------------------------------------------------------------------
(* GetBuffers.  Sealed objects in use are taken from objects_in_use_; when *)
(* that is not all, the store is asked for the whole list.                 *)
Get(c, ids, forever) ==
  LET filled == {id \in ListSet(ids) :
                   InUse(c, id) /\ objects_in_use_[c][id].is_sealed}
      Taken(id) == IF id \in filled THEN Occurrences(ids, id) ELSE 0
  IN  /\ Ready(c)
      /\ \A id \in ObjectIDs : handles[c][id] + Occurrences(ids, id) <= MaxHandles
      /\ forever => \A id \in ListSet(ids) :
                      InUse(c, id) => objects_in_use_[c][id].is_sealed
      /\ objects_in_use_' = [objects_in_use_ EXCEPT ![c] =
           [id \in ObjectIDs |-> [objects_in_use_[c][id] EXCEPT !.count = @ + Taken(id)]]]
      /\ handles' = [handles EXCEPT ![c] =
           [id \in ObjectIDs |-> @[id] + Taken(id)]]
      /\ Send(c, IF filled = ListSet(ids)
                   THEN NoCall
                   ELSE [Request("get", ids) EXCEPT !.filled = filled,
                                                    !.forever = forever])
      /\ UNCHANGED <<deletion_cache_, connected, releases, storeVars>>

(* The store has an object of the list, at once or when it is sealed.      *)
StoreAcquires(c, id) ==
  /\ AtStore(c, "get")
  /\ id \in ListSet(call[c].ids) \ call[c].got
  /\ Store!Acquire(c, id)
  /\ Send(c, [call[c] EXCEPT !.got = @ \cup {id}])
  /\ UNCHANGED <<clientVars, releases, attached, crashed>>

(* The peer has it.  No reference is recorded anywhere.                    *)
StoreFindsRemote(c, id) ==
  /\ AtStore(c, "get")
  /\ id \in (ListSet(call[c].ids) \cap PeerHas) \ call[c].got
  /\ Send(c, [call[c] EXCEPT !.got = @ \cup {id}])
  /\ UNCHANGED <<clientVars, releases, storeVars>>

(* All is there, or the timeout has expired.                               *)
StoreAnswersGet(c) ==
  /\ AtStore(c, "get")
  /\ call[c].forever => ListSet(call[c].ids) \subseteq call[c].got
  /\ Send(c, [call[c] EXCEPT !.done = TRUE])
  /\ UNCHANGED <<clientVars, releases, storeVars>>

GetReply(c) ==
  LET new == call[c].got \ call[c].filled
      Taken(id) == Occurrences(call[c].ids, id)
  IN  /\ Replied(c, "get")
      /\ objects_in_use_' = [objects_in_use_ EXCEPT ![c] =
           [id \in ObjectIDs |->
              IF id \in new THEN Increment(@[id], Taken(id), TRUE, id \in PeerHas)
                            ELSE @[id]]]
      /\ handles' = [handles EXCEPT ![c] =
           [id \in ObjectIDs |-> IF id \in new THEN @[id] + Taken(id) ELSE @[id]]]
      /\ Send(c, NoCall)
      /\ UNCHANGED <<deletion_cache_, connected, releases, storeVars>>

------------------------------------------------------------------------------
(* Seal: the hash is computed through a Get of the object, released again. *)
Seal(c, id) ==
  /\ Ready(c)
  /\ InUse(c, id) /\ ~objects_in_use_[c][id].is_sealed
  /\ objects_in_use_' = [objects_in_use_ EXCEPT ![c][id].is_sealed = TRUE]
  /\ Send(c, Request("seal", <<id>>))
  /\ UNCHANGED <<deletion_cache_, connected, handles, releases, storeVars>>

StoreSeals(c) ==
  /\ AtStore(c, "seal")
  /\ Store!Seal(Head(call[c].ids))
  /\ Send(c, [call[c] EXCEPT !.done = TRUE])
  /\ UNCHANGED <<clientVars, releases, attached, crashed>>

(* Mutant of SealReply: both references of Create are dropped.             *)
SealDropsBoth(c) ==
  /\ Replied(c, "seal")
  /\ objects_in_use_' = [objects_in_use_ EXCEPT ![c][Head(call[c].ids)].count = @ - 2]
  /\ Send(c, NoCall)
  /\ UNCHANGED <<deletion_cache_, connected, handles, releases, storeVars>>

SealReply(c) ==
  /\ Replied(c, "seal")
  /\ Unuse(c, Head(call[c].ids))
  /\ UNCHANGED <<connected, handles, storeVars>>

(* Mutant of Abort: buffers that the program still has are not counted.    *)
AbortWhileReferenced(c, id) ==
  /\ Ready(c)
  /\ InUse(c, id) /\ ~objects_in_use_[c][id].is_sealed
  /\ objects_in_use_' = [objects_in_use_ EXCEPT ![c][id].count = @ - 1]
  /\ Send(c, Request("abort", <<id>>))
  /\ UNCHANGED <<deletion_cache_, connected, handles, releases, storeVars>>

(* Abort: refused while the program has a reference.  deletion_cache_ is   *)
(* not told.                                                               *)
Abort(c, id) ==
  /\ Ready(c)
  /\ objects_in_use_[c][id].count = 1 /\ ~objects_in_use_[c][id].is_sealed
  /\ objects_in_use_' = [objects_in_use_ EXCEPT ![c][id] = NotInUse]
  /\ Send(c, Request("abort", <<id>>))
  /\ UNCHANGED <<deletion_cache_, connected, handles, releases, storeVars>>

StoreAborts(c) ==
  /\ AtStore(c, "abort")
  /\ Store!Discard(c, ListSet(call[c].ids))
  /\ Send(c, [call[c] EXCEPT !.done = TRUE])
  /\ UNCHANGED <<clientVars, releases, attached, crashed>>

(* Delete: objects in use are remembered, the others sent.                 *)
Delete(c, ids) ==
  LET inUse == {id \in ListSet(ids) : InUse(c, id)}
  IN  /\ Ready(c)
      /\ deletion_cache_' = [deletion_cache_ EXCEPT ![c] = @ \cup inUse]
      /\ Send(c, IF inUse = ListSet(ids)
                   THEN NoCall
                   ELSE [Request("delete", ids) EXCEPT !.filled = inUse])
      /\ UNCHANGED <<objects_in_use_, connected, handles, releases, storeVars>>

(* Those in use or unsealed stay for now: Store!Release may end them.      *)
StoreDeletes(c) ==
  /\ AtStore(c, "delete")
  /\ table' = [id \in ObjectIDs |->
       IF /\ id \in ListSet(call[c].ids) \ call[c].filled
          /\ table[id].state = "SEALED" /\ holders[id] = {}
         THEN Store!Absent ELSE table[id]]
  /\ Send(c, [call[c] EXCEPT !.done = TRUE])
  /\ UNCHANGED <<clientVars, releases, holders, attached, crashed>>

(* The replies that change nothing.                                        *)
Return(c) ==
  /\ \E op \in {"create_and_seal", "abort", "delete"} : Replied(c, op)
  /\ Send(c, NoCall)
  /\ UNCHANGED <<clientVars, releases, storeVars>>

(* Evict, or a store short of memory.                                      *)
StoreEvicts(id) ==
  /\ ~crashed
  /\ Store!Drop(id)
  /\ UNCHANGED <<clientVars, call, releases, attached, crashed>>

------------------------------------------------------------------------------
Connect(c) ==
  /\ ~crashed
  /\ c \notin attached
  /\ attached' = attached \cup {c}
  /\ connected' = connected \cup {c}
  /\ UNCHANGED <<objects_in_use_, deletion_cache_, handles, call, releases, table,
                 holders, crashed>>

(* Disconnect, or the end of the program, in the middle of a call too.     *)
(* What it sent may still be read.  From now on Release does nothing, so   *)
(* what was in use no longer matters: the next to connect is a new         *)
(* PlasmaClient.                                                           *)
Disconnect(c) ==
  /\ ~crashed
  /\ c \in connected
  /\ connected' = connected \ {c}
  /\ objects_in_use_' = [objects_in_use_ EXCEPT ![c] = [id \in ObjectIDs |-> NotInUse]]
  /\ deletion_cache_' = [deletion_cache_ EXCEPT ![c] = {}]
  /\ handles' = [handles EXCEPT ![c] = [id \in ObjectIDs |-> 0]]
  /\ UNCHANGED <<call, releases, storeVars>>

(* The store finds the connection closed and gives back what c had; what   *)
(* only c used and somebody deleted is gone.                               *)
StoreDisconnects(c) ==
  /\ ~crashed
  /\ c \in attached \ connected
  /\ attached' = attached \ {c}
  /\ \E deleted \in SUBSET {id \in ObjectIDs : holders[id] = {c}} :
       table' = [id \in ObjectIDs |->
         IF id \in deleted \/ (c \in holders[id] /\ table[id].state = "CREATED")
           THEN Store!Absent ELSE table[id]]
  /\ holders' = [id \in ObjectIDs |-> holders[id] \ {c}]
  /\ releases' = [releases EXCEPT ![c] = [id \in ObjectIDs |-> 0]]
  /\ Send(c, NoCall)
  /\ UNCHANGED <<clientVars, crashed>>

ClientStep(c) ==
  \/ \E id \in ObjectIDs :
       \/ Create(c, id) \/ CreateAndSeal(c, id) \/ Seal(c, id)
       \/ Abort(c, id) \/ Release(c, id)
  \/ \E ids \in GetLists, forever \in BOOLEAN : Get(c, ids, forever)
  \/ \E ids \in DeleteLists : Delete(c, ids)
  \/ CreateReply(c) \/ GetReply(c) \/ SealReply(c) \/ Return(c)
  \/ Connect(c) \/ Disconnect(c)

StoreStep(c) ==
  \/ \E id \in ObjectIDs :
       StoreReleases(c, id) \/ StoreAcquires(c, id) \/ StoreFindsRemote(c, id)
  \/ StoreCreates(c) \/ StoreRefuses(c) \/ StoreCreatesAndSeals(c)
  \/ StoreAnswersGet(c) \/ StoreSeals(c) \/ StoreAborts(c) \/ StoreDeletes(c)
  \/ StoreDisconnects(c)

Next ==
  \/ \E c \in Clients : ClientStep(c) \/ StoreStep(c)
  \/ \E id \in ObjectIDs : StoreEvicts(id)

Spec == Init /\ [][Next]_vars

------------------------------------------------------------------------------
Entry == [count : Nat, is_sealed : BOOLEAN, remote : BOOLEAN]

Call ==
  [op : {"none", "create", "create_and_seal", "get", "seal", "abort", "delete"},
   ids : Seq(ObjectIDs), filled : SUBSET ObjectIDs, got : SUBSET ObjectIDs,
   forever : BOOLEAN, done : BOOLEAN]

TypeOK ==
  /\ objects_in_use_ \in [Clients -> [ObjectIDs -> Entry]]
  /\ deletion_cache_ \in [Clients -> SUBSET ObjectIDs]
  /\ call \in [Clients -> Call]
  /\ connected \subseteq attached /\ attached \subseteq Clients
  /\ handles \in [Clients -> [ObjectIDs -> Nat]]
  /\ releases \in [Clients -> [ObjectIDs -> Nat]]
  /\ table \in [ObjectIDs -> [state : {"ABSENT", "CREATED", "SEALED"}, size : Nat]]
  /\ holders \in [ObjectIDs -> SUBSET Clients]
  /\ crashed \in BOOLEAN

Calling(c, op, id) == call[c].op = op /\ Head(call[c].ids) = id

(* Before Seal or Abort is through, the library has a reference of its own *)
(* to an object the client created.                                        *)
OwnReference(c, id) ==
  IF InUse(c, id) /\ (~objects_in_use_[c][id].is_sealed \/ Calling(c, "seal", id))
    THEN 1 ELSE 0

Counted(c) ==
  \A id \in ObjectIDs :
    objects_in_use_[c][id].count = handles[c][id] + OwnReference(c, id)

(* The count of an object in use is what the program still has to release, *)
(* and one more until the object is sealed: no reference is lost, and none *)
(* is left when the program has released everything.                       *)
CountsHandles == \A c \in Clients : Counted(c)

Held(c) ==
  \A id \in ObjectIDs :
    InUse(c, id) /\ ~objects_in_use_[c][id].remote =>
      /\ c \in holders[id]
      /\ releases[c][id] = 0
      /\ table[id].state =
           IF objects_in_use_[c][id].is_sealed
              /\ ~(Calling(c, "seal", id) /\ ~call[c].done)
             THEN "SEALED" ELSE "CREATED"

(* No buffer dangles: what a connected client uses of this store, the      *)
(* store has, in the state the client believes it in, and knows that the   *)
(* client uses it - so it is neither evicted nor deleted.                  *)
HeldWhileInUse == \A c \in connected : Held(c)

Remembered(c) ==
  \A id \in ObjectIDs :
    c \in holders[id] =>
      \/ InUse(c, id)
      \/ releases[c][id] > 0
      \/ id \in call[c].got
      \/ Calling(c, "abort", id)

(* No reference is forgotten at the store: what it keeps for a client is   *)
(* in use there, about to be released, or part of the call in progress.    *)
NothingForgotten == \A c \in connected : Remembered(c)

(* The store's checks on Release hold: a client releases what the store    *)
(* knows it to use.                                                        *)
ReleasesAreHeld == ~crashed
=============================================================================
