------------------------ MODULE PlasmaCluster_proofs ------------------------
(***************************************************************************)
(* Proofs about PlasmaCluster, for any set of objects, pools of any size,  *)
(* and whichever stores have an external store or may be killed.           *)
(***************************************************************************)
EXTENDS PlasmaCluster, TLAPS

(* Where the loop of s is, and what that says of the object it works on:   *)
(* between the steps of a handler only the handler changes the table of s. *)
LoopInv ==
  \A s \in Stores :
    /\ loop[s].pc # "idle" => loop[s].id \in ObjectIDs
    /\ rpc[s].status # "none" <=> loop[s].pc \in {"exists", "get"}
    /\ loop[s].pc \in {"exists", "alloc", "get"} => ~Present(s, loop[s].id)
    /\ loop[s].pc = "get" => remote[s][loop[s].id] = NoBlock
    /\ loop[s].pc = "restore" => Is(s, loop[s].id, "EVICTED")
    /\ loop[s].pc = "fetch" =>
         /\ Is(s, loop[s].id, "CREATED")
         /\ loop[s].id \in DOMAIN backup[s]
         /\ s \in External
    /\ loop[s].victim # NoObject =>
         /\ loop[s].pc \in {"alloc", "restore"}
         /\ loop[s].victim \in Evictable(s)

(* Only stores with an external store keep objects without memory, and     *)
(* what is in use has memory.                                              *)
TableInv ==
  \A s \in Stores, id \in ObjectIDs :
    /\ Is(s, id, "EVICTED") => s \in External
    /\ id \in held[s] => objects[s][id].state \in {"CREATED", "SEALED"}

(* Without an external store a sealed object has its bytes in its block.   *)
SealedIntact ==
  \A s \in Stores \ External, id \in ObjectIDs :
    Is(s, id, "SEALED") => memory[s][objects[s][id].block] = id

(* The peer has an object at the place it told, until it is lost.          *)
PlaceInv ==
  \A s \in Stores, id \in ObjectIDs :
    <<s, id>> \notin lost =>
      /\ remote[s][id] # NoBlock =>
           /\ Is(Peer(s), id, "SEALED")
           /\ objects[Peer(s)][id].block = remote[s][id]
      /\ loop[s].pc = "get" /\ loop[s].id = id /\ rpc[s].status = "OK" =>
           /\ Is(Peer(s), id, "SEALED")
           /\ objects[Peer(s)][id].block = rpc[s].block

(* Only OK comes with a place.                                             *)
AnswerInv == \A s \in Stores : rpc[s].status # "OK" => rpc[s].block = NoBlock

(* A store that is about to create an object which its peer has by now is  *)
(* in raced, and raced has no store that creates nothing.                  *)
RaceInv ==
  \A s \in Stores :
    /\ AboutToCreate(s) /\ Present(Peer(s), loop[s].id) => s \in raced
    /\ s \in raced => AboutToCreate(s)

(* The inductive invariant.                                                *)
IInv ==
  /\ TypeOK
  /\ BlocksAccounted
  /\ LoopInv
  /\ TableInv
  /\ SealedIntact
  /\ PlaceInv
  /\ AnswerInv
  /\ RaceInv

(* There are two stores, and each is the peer of the other.                *)
LEMMA PeerFacts ==
  \A s \in Stores :
    /\ Peer(s) \in Stores /\ Peer(s) # s /\ Peer(Peer(s)) = s
    /\ \A t \in Stores : t = s \/ t = Peer(s)
  BY DEF Stores, Peer

------------------------------------------------------------------------------
(* What Leave does, for the objects gone = erased \cup evicted.            *)

InMemory(s, ids) ==
  /\ ids \subseteq ObjectIDs
  /\ \A id \in ids : objects[s][id].state \in {"CREATED", "SEALED"}

LeaveEffect(s, gone) ==
  /\ objects' \in [Stores -> [ObjectIDs -> Entry]]
  /\ free' \in [Stores -> SUBSET Nat]
  /\ lost' \subseteq Stores \X ObjectIDs
  /\ DOMAIN backup' = Stores
  /\ \A t \in Stores :
       /\ free'[t] \subseteq Pool[t]
       /\ backup'[t] \in [DOMAIN backup'[t] -> ObjectIDs \cup {NoObject}]
       /\ DOMAIN backup[t] \subseteq DOMAIN backup'[t]
       /\ \A id \in ObjectIDs : objects'[t][id].block \in Pool[t] \cup {NoBlock}
  /\ objects'[Peer(s)] = objects[Peer(s)]
  /\ \A id \in ObjectIDs \ gone : objects'[s][id] = objects[s][id]
  /\ \A id \in gone :
       /\ objects'[s][id] \in {NoEntry, Placeholder}
       /\ objects'[s][id] = Placeholder => s \in External
       /\ Watches(Peer(s), id) => <<Peer(s), id>> \in lost'
  /\ lost \subseteq lost'

(* What leaves the table gives its block back, and the readers at the peer *)
(* lose it; the blocks stay accounted for.                                 *)
LEMMA LeaveFacts ==
  ASSUME TypeOK, BlocksAccounted, NEW s \in Stores, NEW erased, NEW evicted,
         InMemory(s, erased \cup evicted), Leave(s, erased, evicted)
  PROVE  LeaveEffect(s, erased \cup evicted) /\ BlocksAccounted'
<1> DEFINE gone == IF s \in External THEN erased ELSE erased \cup evicted
           kept == evicted \ gone
           left == erased \cup evicted
<1> USE PeerFacts, PoolAssumption
<1>1. /\ left \subseteq ObjectIDs
      /\ \A id \in left : objects[s][id].state \in {"CREATED", "SEALED"}
  BY DEF InMemory
<1>2. /\ NoEntry \in Entry /\ NoEntry.state = "ABSENT" /\ NoEntry.block = NoBlock
      /\ Placeholder \in Entry /\ Placeholder.state = "EVICTED"
      /\ Placeholder.block = NoBlock
  BY DEF NoEntry, Placeholder, Entry, NoBlock
<1>3. /\ \A id \in gone : objects'[s][id] = NoEntry
      /\ \A id \in kept : objects'[s][id] = Placeholder
      /\ \A id \in ObjectIDs \ left : objects'[s][id] = objects[s][id]
  BY <1>1 DEF Leave, TypeOK
<1>4. /\ objects' \in [Stores -> [ObjectIDs -> Entry]]
      /\ objects'[Peer(s)] = objects[Peer(s)]
  BY <1>1, <1>2 DEF Leave, TypeOK
<1>5. kept # {} => s \in External
  OBVIOUS
<1>6. /\ free'[s] = free[s] \cup Blocks(s, left)
      /\ free'[Peer(s)] = free[Peer(s)]
      /\ DOMAIN free' = Stores
  BY DEF Leave, TypeOK
<1>7. Blocks(s, left) \subseteq Pool[s]
  <2> SUFFICES ASSUME NEW id \in left PROVE objects[s][id].block \in Pool[s]
    BY DEF Blocks
  <2> QED
    BY <1>1 DEF BlocksAccounted, Accounted, TypeOK
<1>8. free' \in [Stores -> SUBSET Nat] /\ \A t \in Stores : free'[t] \subseteq Pool[t]
  <2>1. \A t \in Stores : free'[t] \subseteq Pool[t]
    <3>1. free[s] \subseteq Pool[s] /\ free[Peer(s)] \subseteq Pool[Peer(s)]
      BY DEF TypeOK
    <3>2. free'[s] \subseteq Pool[s] /\ free'[Peer(s)] \subseteq Pool[Peer(s)]
      BY <1>6, <1>7, <3>1
    <3> QED
      BY <3>2
  <2>2. free' = [t \in Stores |-> free'[t]]
    BY DEF Leave, TypeOK
  <2> QED
    BY <2>1, <2>2
<1>9. /\ DOMAIN backup' = Stores
      /\ backup'[s] = Put(s, kept)
      /\ backup'[Peer(s)] = backup[Peer(s)]
  BY DEF Leave, TypeOK
<1>10. /\ DOMAIN backup'[s] = DOMAIN backup[s] \cup kept
       /\ backup'[s] \in [DOMAIN backup'[s] -> ObjectIDs \cup {NoObject}]
  <2>1. memory[s][Base] \in ObjectIDs \cup {NoObject}
    BY DEF TypeOK
  <2>2. backup[s] \in [DOMAIN backup[s] -> ObjectIDs \cup {NoObject}]
    BY DEF TypeOK
  <2>3. Put(s, kept) \in [DOMAIN backup[s] \cup kept -> ObjectIDs \cup {NoObject}]
    BY <2>1, <2>2 DEF Put
  <2>4. DOMAIN Put(s, kept) = DOMAIN backup[s] \cup kept
    BY DEF Put
  <2> HIDE DEF kept
  <2> QED
    BY <1>9, <2>3, <2>4
<1>11. /\ lost \subseteq lost'
       /\ \A id \in left : Watches(Peer(s), id) => <<Peer(s), id>> \in lost'
       /\ lost' \subseteq Stores \X ObjectIDs
  BY <1>1 DEF Leave, LostBy, TypeOK
<1> HIDE DEF gone, kept, left
<1>12. \A id \in left : id \in gone \/ id \in kept
  BY DEF gone, kept, left
<1>13. LeaveEffect(s, left)
  <2>1. \A t \in Stores, id \in ObjectIDs :
          objects'[t][id].block \in Pool[t] \cup {NoBlock}
    <3> TAKE t \in Stores, id \in ObjectIDs
    <3>1. CASE t = Peer(s)
      BY <3>1, <1>4 DEF TypeOK
    <3>2. CASE t = s
      BY <3>2, <1>2, <1>3, <1>12 DEF TypeOK
    <3> QED
      BY <3>1, <3>2
  <2>2. \A t \in Stores :
          /\ backup'[t] \in [DOMAIN backup'[t] -> ObjectIDs \cup {NoObject}]
          /\ DOMAIN backup[t] \subseteq DOMAIN backup'[t]
    BY <1>9, <1>10 DEF TypeOK
  <2>3. \A id \in left :
          /\ objects'[s][id] \in {NoEntry, Placeholder}
          /\ objects'[s][id] = Placeholder => s \in External
    BY <1>2, <1>3, <1>5, <1>12
  <2> QED
    BY <1>3, <1>4, <1>8, <1>9, <1>11, <2>1, <2>2, <2>3 DEF LeaveEffect
<1>14. BlocksAccounted'
  <2>1. \A id \in left : objects'[s][id].block = NoBlock
    BY <1>2, <1>3, <1>12
  <2>2. \A b \in Pool[s] : b \notin free'[s] <=>
           \E id \in ObjectIDs : objects'[s][id].block = b
    <3> TAKE b \in Pool[s]
    <3>1. b \in Blocks(s, left) <=> \E id \in left : objects[s][id].block = b
      BY DEF Blocks
    <3>2. b # NoBlock
      OBVIOUS
    <3>3. ASSUME b \notin free'[s]
          PROVE  \E id \in ObjectIDs : objects'[s][id].block = b
      <4>1. PICK id \in ObjectIDs : objects[s][id].block = b
        BY <3>3, <1>6 DEF BlocksAccounted, Accounted
      <4>2. id \notin left
        BY <3>1, <3>3, <4>1, <1>6
      <4> QED
        BY <4>1, <4>2, <1>3
    <3>4. ASSUME NEW id \in ObjectIDs, objects'[s][id].block = b
          PROVE  b \notin free'[s]
      <4>1. id \notin left /\ objects[s][id].block = b
        BY <3>2, <3>4, <2>1, <1>3
      <4>2. b \notin free[s]
        BY <4>1 DEF BlocksAccounted, Accounted
      <4>3. \A i \in left : objects[s][i].block # b
        BY <4>1, <1>1, <3>2 DEF BlocksAccounted, Accounted, left
      <4> QED
        BY <4>2, <4>3, <3>1, <1>6
    <3> QED
      BY <3>3, <3>4
  <2>3. \A i, j \in ObjectIDs : objects'[s][i].block # NoBlock /\ i # j =>
           objects'[s][i].block # objects'[s][j].block
    BY <2>1, <1>3 DEF BlocksAccounted, Accounted
  <2>4. \A id \in ObjectIDs :
           /\ objects'[s][id].block # NoBlock <=>
                objects'[s][id].state \in {"CREATED", "SEALED"}
           /\ Is(s, id, "EVICTED")' => id \in DOMAIN backup'[s]
    <3> TAKE id \in ObjectIDs
    <3>1. CASE id \in left
      BY <3>1, <1>2, <1>3, <1>10, <1>12 DEF Is
    <3>2. CASE id \notin left
      BY <3>2, <1>3, <1>10 DEF Is, BlocksAccounted, Accounted
    <3> QED
      BY <3>1, <3>2
  <2>5. Accounted(s)'
    BY <2>2, <2>3, <2>4 DEF Accounted
  <2>6. Accounted(Peer(s))'
    BY <1>4, <1>6, <1>9 DEF BlocksAccounted, Accounted, Is
  <2> QED
    BY <2>5, <2>6 DEF BlocksAccounted
<1> QED
  BY <1>13, <1>14 DEF left


(* What else an operation that makes objects leave does: their users are   *)
(* gone, and the handler in progress has no victim left.                   *)
LeaveFrame(s, gone) ==
  /\ UNCHANGED <<memory, mutex_, rpc, down, raced>>
  /\ deletion_cache_' \in [Stores -> SUBSET ObjectIDs]
  /\ held' \in [Stores -> SUBSET ObjectIDs]
  /\ held'[Peer(s)] = held[Peer(s)]
  /\ held'[s] \subseteq held[s] \ gone
  /\ loop' \in [Stores -> Handler]
  /\ loop'[Peer(s)] = loop[Peer(s)]
  /\ loop[s].pc # "fetch"
  /\ loop'[s].pc = loop[s].pc /\ loop'[s].id = loop[s].id
  /\ loop'[s].victim = NoObject
  /\ remote' \in [Stores -> [ObjectIDs -> Nat]]
  /\ \A t \in Stores, id \in ObjectIDs : remote'[t][id] \in {remote[t][id], NoBlock}

(* No object comes into a table.                                           *)
NothingAppears ==
  \A t \in Stores, id \in ObjectIDs : Present(t, id)' => Present(t, id)

(* So the invariant is kept by whatever leaves together with its users.    *)
LEMMA LeaveKeepsIInv ==
  ASSUME IInv, NEW s \in Stores, NEW erased, NEW evicted,
         InMemory(s, erased \cup evicted), Leave(s, erased, evicted),
         LeaveFrame(s, erased \cup evicted)
  PROVE  IInv' /\ NothingAppears
<1> DEFINE gone == erased \cup evicted
<1> USE PeerFacts, PoolAssumption DEF IInv
<1>1. LeaveEffect(s, gone) /\ BlocksAccounted'
  BY LeaveFacts
<1>2. /\ gone \subseteq ObjectIDs
      /\ \A id \in gone : objects[s][id].state \in {"CREATED", "SEALED"}
  BY DEF InMemory
<1>3. LeaveFrame(s, gone)
  OBVIOUS
<1> HIDE DEF gone
<1>4. TypeOK'
  BY <1>1, <1>3 DEF TypeOK, LeaveEffect, LeaveFrame
<1>5. /\ \A id \in ObjectIDs : objects'[Peer(s)][id] = objects[Peer(s)][id]
      /\ \A id \in ObjectIDs \ gone : objects'[s][id] = objects[s][id]
      /\ \A id \in gone :
           /\ objects'[s][id].state \in {"ABSENT", "EVICTED"}
           /\ objects'[s][id].state = "EVICTED" => s \in External
  <2>1. NoEntry.state = "ABSENT" /\ Placeholder.state = "EVICTED"
    BY DEF NoEntry, Placeholder
  <2> QED
    BY <1>1, <2>1 DEF LeaveEffect
<1>6. /\ NothingAppears
      /\ Evictable(Peer(s))' = Evictable(Peer(s))
  <2>1. \A id \in gone : Present(s, id)
    BY <1>2 DEF Present, NoEntry
  <2> QED
    BY <1>3, <1>5, <2>1 DEF NothingAppears, Present, Evictable, Is, LeaveFrame
<1>7. LoopInv'
  <2>1. \A t \in Stores : loop'[t].pc = loop[t].pc /\ loop'[t].id = loop[t].id
    BY <1>3 DEF LeaveFrame
  <2>2. \A t \in Stores : DOMAIN backup[t] \subseteq DOMAIN backup'[t]
    BY <1>1 DEF LeaveEffect
  <2>3. \A id \in ObjectIDs : Is(s, id, "EVICTED") => Is(s, id, "EVICTED")'
    BY <1>2, <1>5 DEF Is
  <2>4. \A id \in ObjectIDs, state \in {"EVICTED", "CREATED"} :
           Is(Peer(s), id, state) => Is(Peer(s), id, state)'
    BY <1>5 DEF Is
  <2> QED
    BY <1>3, <1>6, <2>1, <2>2, <2>3, <2>4 DEF LoopInv, LeaveFrame,
       NothingAppears
<1>8. TableInv'
  BY <1>2, <1>3, <1>5 DEF TableInv, Is, LeaveFrame
<1>9. SealedIntact'
  <2>1. \A t \in Stores, id \in ObjectIDs :
          Is(t, id, "SEALED")' => /\ Is(t, id, "SEALED")
                                  /\ objects'[t][id].block = objects[t][id].block
    BY <1>5 DEF Is
  <2>2. memory' = memory
    BY <1>3 DEF LeaveFrame
  <2> QED
    BY <2>1, <2>2 DEF SealedIntact
<1>10. PlaceInv'
  <2> SUFFICES ASSUME NEW t \in Stores, NEW id \in ObjectIDs, <<t, id>> \notin lost'
               PROVE  /\ remote'[t][id] # NoBlock =>
                           /\ objects'[Peer(t)][id].state = "SEALED"
                           /\ objects'[Peer(t)][id].block = remote'[t][id]
                      /\ (loop'[t].pc = "get" /\ loop'[t].id = id /\ rpc'[t].status = "OK") =>
                           /\ objects'[Peer(t)][id].state = "SEALED"
                           /\ objects'[Peer(t)][id].block = rpc'[t].block
    BY DEF PlaceInv, Is
  <2>1. /\ <<t, id>> \notin lost
        /\ remote'[t][id] # NoBlock => remote'[t][id] = remote[t][id]
        /\ loop'[t].pc = loop[t].pc /\ loop'[t].id = loop[t].id /\ rpc' = rpc
    <3>1. <<t, id>> \notin lost
      BY <1>1 DEF LeaveEffect
    <3> QED
      BY <1>3, <3>1 DEF LeaveFrame
  <2>2. CASE t = s
    BY <2>1, <2>2, <1>5 DEF PlaceInv, Is
  <2>3. CASE t = Peer(s) /\ id \notin gone
    BY <2>1, <2>3, <1>5 DEF PlaceInv, Is
  <2>4. CASE t = Peer(s) /\ id \in gone
    BY <2>1, <2>4, <1>1 DEF LeaveEffect, Watches
  <2> QED
    BY <2>2, <2>3, <2>4
<1>11. AnswerInv'
  BY <1>3 DEF AnswerInv, Up, LeaveFrame
<1>12. RaceInv'
  BY <1>3, <1>6 DEF NothingAppears, RaceInv, AboutToCreate, LeaveFrame, LoopInv
<1> QED
  BY <1>1, <1>4, <1>6, <1>7, <1>8, <1>9, <1>10, <1>11, <1>12

(* What is evicted on request is in memory and unused.                     *)
LEMMA KeepsEvictRequest ==
  ASSUME IInv, NEW s \in Stores, NEW id \in ObjectIDs, EvictRequest(s, id)
  PROVE  IInv' /\ NothingAppears
<1> USE PeerFacts, NoObjectAssumption DEF IInv
<1>1. Leave(s, {}, {id})
  BY DEF EvictRequest, EvictObjects
<1>2. InMemory(s, {} \cup {id})
  BY DEF InMemory, EvictRequest, Evictable, Is
<1>3. LeaveFrame(s, {} \cup {id})
  BY DEF LeaveFrame, EvictRequest, Evictable, Free, Idle, TypeOK
<1> QED
  BY <1>1, <1>2, <1>3, LeaveKeepsIInv

(* A deferred deletion evicts what has just lost its user.                 *)
LEMMA KeepsReleaseRequest ==
  ASSUME IInv, NEW s \in Stores, NEW id \in ObjectIDs, ReleaseRequest(s, id)
  PROVE  IInv' /\ NothingAppears
<1> USE PeerFacts, NoObjectAssumption DEF IInv
<1>1. Leave(s, {}, ({id} \cap deletion_cache_[s]))
  BY DEF ReleaseRequest, EvictObjects
<1>2. InMemory(s, {} \cup ({id} \cap deletion_cache_[s]))
  BY DEF InMemory, ReleaseRequest, Is
<1>3. LeaveFrame(s, {} \cup ({id} \cap deletion_cache_[s]))
  BY DEF LeaveFrame, ReleaseRequest, Free, Idle, TypeOK
<1> QED
  BY <1>1, <1>2, <1>3, LeaveKeepsIInv

(* A deletion erases a sealed object or only notes another.                *)
LEMMA KeepsDeleteRequest ==
  ASSUME IInv, NEW s \in Stores, NEW id \in ObjectIDs, DeleteRequest(s, id)
  PROVE  IInv' /\ NothingAppears
<1> USE PeerFacts, NoObjectAssumption DEF IInv
<1>1. CASE Is(s, id, "SEALED")
  <2>1. Leave(s, {id}, {})
    BY <1>1 DEF DeleteRequest, EraseFromObjectTable
  <2>2. InMemory(s, {id} \cup {})
    BY <1>1 DEF InMemory, Is
  <2>3. LeaveFrame(s, {id} \cup {})
    BY <1>1 DEF LeaveFrame, DeleteRequest, Free, Idle, TypeOK
  <2> QED
    BY <2>1, <2>2, <2>3, LeaveKeepsIInv
<1>2. CASE ~Is(s, id, "SEALED")
  <2>1. UNCHANGED <<objects, held, free, memory, backup, mutex_, loop, rpc,
                    remote, down, lost, raced>>
    BY <1>2 DEF DeleteRequest
  <2>2. TypeOK'
    <3>1. deletion_cache_' \in [Stores -> SUBSET ObjectIDs]
      <4>1. deletion_cache_' = [deletion_cache_ EXCEPT ![s] = @ \cup {id}]
        BY <1>2 DEF DeleteRequest
      <4> QED
        BY <4>1 DEF TypeOK
    <3> QED
      BY <2>1, <3>1 DEF TypeOK
  <2>3. /\ BlocksAccounted' /\ LoopInv' /\ TableInv' /\ SealedIntact'
        /\ PlaceInv' /\ AnswerInv' /\ RaceInv'
    BY <2>1 DEF BlocksAccounted, Accounted, LoopInv, TableInv, SealedIntact,
       PlaceInv, AnswerInv, RaceInv, Is, Present, Evictable,
       AboutToCreate, Up
  <2>4. NothingAppears
    BY <2>1 DEF NothingAppears, Present
  <2> QED
    BY <2>2, <2>3, <2>4
<1> QED
  BY <1>1, <1>2

(* An aborted object is unsealed and loses its only user.                  *)
LEMMA KeepsAbortRequest ==
  ASSUME IInv, NEW s \in Stores, NEW id \in ObjectIDs, AbortRequest(s, id)
  PROVE  IInv' /\ NothingAppears
<1> USE PeerFacts, NoObjectAssumption DEF IInv
<1>1. Leave(s, {id}, {})
  BY DEF AbortRequest, EraseFromObjectTable
<1>2. InMemory(s, {id} \cup {})
  BY DEF InMemory, AbortRequest, Unsealed, Is, TypeOK
<1>3. LeaveFrame(s, {id} \cup {})
  BY DEF LeaveFrame, AbortRequest, Free, Idle, TypeOK
<1> QED
  BY <1>1, <1>2, <1>3, LeaveKeepsIInv

(* All that a lost client used leaves or loses its user.                   *)
LEMMA KeepsDisconnectClient ==
  ASSUME IInv, NEW s \in Stores, DisconnectClient(s)
  PROVE  IInv' /\ NothingAppears
<1> USE PeerFacts, NoObjectAssumption DEF IInv
<1>1. Leave(s, Unsealed(s), ((held[s] \ Unsealed(s)) \cap deletion_cache_[s]))
  BY DEF DisconnectClient
<1>2. InMemory(s, Unsealed(s) \cup ((held[s] \ Unsealed(s)) \cap deletion_cache_[s]))
  BY DEF InMemory, TableInv, Unsealed, TypeOK
<1>3. LeaveFrame(s, Unsealed(s) \cup ((held[s] \ Unsealed(s)) \cap deletion_cache_[s]))
  BY DEF LeaveFrame, DisconnectClient, Unsealed, Free, Idle, NoBlock, TypeOK
<1> QED
  BY <1>1, <1>2, <1>3, LeaveKeepsIInv

(* The chosen victim is still unused when mutex_ is taken.                 *)
LEMMA KeepsEvictVictim ==
  ASSUME IInv, NEW s \in Stores, EvictVictim(s)
  PROVE  IInv' /\ NothingAppears
<1> USE PeerFacts, NoObjectAssumption DEF IInv
<1>1. Leave(s, {}, {loop[s].victim})
  BY DEF EvictVictim, EvictObjects
<1>2. /\ loop[s].victim \in Evictable(s)
      /\ loop[s].pc \in {"alloc", "restore"}
  BY DEF EvictVictim, LoopInv
<1>3. InMemory(s, {} \cup {loop[s].victim})
  BY <1>2 DEF InMemory, Evictable, Is
<1>4. LeaveFrame(s, {} \cup {loop[s].victim})
  <2>1. loop[s] \in Handler
    BY DEF TypeOK
  <2>2. [loop[s] EXCEPT !.victim = NoObject] \in Handler
    BY <2>1 DEF Handler
  <2>3. loop' \in [Stores -> Handler]
    BY <2>2 DEF EvictVictim, TypeOK
  <2>4. /\ loop'[s].pc = loop[s].pc /\ loop'[s].id = loop[s].id
        /\ loop'[s].victim = NoObject
    BY <2>1 DEF EvictVictim, TypeOK, Handler
  <2> QED
    BY <1>2, <2>3, <2>4 DEF LeaveFrame, EvictVictim, Evictable, TypeOK
<1> QED
  BY <1>1, <1>3, <1>4, LeaveKeepsIInv

(* Asking the peer is not yet being about to create.                       *)
LEMMA KeepsCreateRequest ==
  ASSUME IInv, NEW s \in Stores, NEW id \in ObjectIDs, CreateRequest(s, id)
  PROVE  IInv'
<1> USE PeerFacts, PoolAssumption, NoObjectAssumption DEF IInv
<1>1. TypeOK'
  <2>1. loop' \in [Stores -> Handler]
    BY DEF TypeOK, CreateRequest, Idle, Handler
  <2>2. rpc' \in [Stores -> Answer] /\ rpc'[s].block = NoBlock
        /\ rpc'[Peer(s)] = rpc[Peer(s)]
    BY DEF TypeOK, CreateRequest, Sent, Answer, NoBlock
  <2> QED
    BY <2>1, <2>2 DEF TypeOK, CreateRequest
<1>2. LoopInv'
  BY DEF LoopInv, Present, Is, Evictable, CreateRequest, TypeOK, Free, Idle,
      Sent, Up
<1>3. PlaceInv'
  BY DEF PlaceInv, Is, CreateRequest, TypeOK
<1>4. AnswerInv'
  BY DEF AnswerInv, Up, CreateRequest, TypeOK, Free, Idle, Sent
<1>5. RaceInv'
  BY DEF RaceInv, AboutToCreate, Present, CreateRequest, TypeOK, Free, Idle,
      Sent, Up
<1>6. /\ BlocksAccounted' /\ TableInv' /\ SealedIntact'
  BY DEF CreateRequest, BlocksAccounted, Accounted, Is, TableInv,
      SealedIntact, Up
<1> QED
  BY <1>1, <1>2, <1>3, <1>4, <1>5, <1>6

(* Only MISSING leads on; a failed RPC ends the store.                     *)
LEMMA KeepsObjectExists ==
  ASSUME IInv, NEW s \in Stores, ObjectExists(s)
  PROVE  IInv'
<1> USE PeerFacts, PoolAssumption, NoObjectAssumption DEF IInv
<1>1. TypeOK'
  <2>1. loop[s] \in Handler /\ Idle \in Handler
    BY DEF TypeOK, Idle, Handler
  <2>2. [loop[s] EXCEPT !.pc = "alloc"] \in Handler
    BY <2>1 DEF Handler
  <2>3. loop' \in [Stores -> Handler]
    BY <2>1, <2>2 DEF TypeOK, ObjectExists
  <2>4. rpc' \in [Stores -> Answer] /\ rpc'[s].block = NoBlock
        /\ rpc'[Peer(s)] = rpc[Peer(s)]
    BY DEF TypeOK, ObjectExists, NoRpc, Answer, NoBlock
  <2>5. down' \subseteq Stores
    BY DEF TypeOK, ObjectExists, FailsOn
  <2> QED
    BY <2>1, <2>2, <2>3, <2>4, <2>5 DEF TypeOK, ObjectExists
<1>2. LoopInv'
  BY DEF LoopInv, Present, Is, Evictable, ObjectExists, FailsOn, TypeOK, At,
      Answered, Idle, NoRpc, Up
<1>3. PlaceInv'
  BY DEF PlaceInv, Is, ObjectExists, FailsOn, TypeOK, At, Answered, Idle,
      NoRpc, Up
<1>4. AnswerInv'
  BY DEF AnswerInv, Up, ObjectExists, FailsOn, TypeOK, At, Answered, Idle,
      NoRpc
<1>5. RaceInv'
  BY DEF RaceInv, AboutToCreate, Present, ObjectExists, FailsOn, TypeOK, At,
      Answered, Idle, NoRpc, Up
<1>6. /\ BlocksAccounted' /\ TableInv' /\ SealedIntact'
  BY DEF ObjectExists, BlocksAccounted, Accounted, Is, FailsOn, TableInv,
      SealedIntact
<1> QED
  BY <1>1, <1>2, <1>3, <1>4, <1>5, <1>6

(* The new object takes a free block; a peer that was told MISSING has     *)
(* raced.                                                                  *)
LEMMA KeepsCreateObject ==
  ASSUME IInv, NEW s \in Stores, NEW b \in Pool[s], CreateObject(s, b)
  PROVE  IInv'
<1> USE PeerFacts, PoolAssumption, NoObjectAssumption DEF IInv
<1>1. TypeOK'
  <2>1. loop' \in [Stores -> Handler]
    BY DEF TypeOK, CreateObject, Idle, Handler
  <2>2. b \in Nat
    OBVIOUS
  <2>3. [state |-> "CREATED", block |-> b] \in Entry
    BY <2>2 DEF Entry
  <2>4. loop[s].id \in ObjectIDs
    BY DEF LoopInv, CreateObject, At
  <2>5. objects' \in [Stores -> [ObjectIDs -> Entry]]
    BY <2>3 DEF TypeOK, CreateObject
  <2>6. \A t \in Stores, i \in ObjectIDs : objects'[t][i].block \in Pool[t] \cup {NoBlock}
    BY <2>2, <2>4 DEF TypeOK, CreateObject
  <2>7. free' \in [Stores -> SUBSET Nat] /\ \A t \in Stores : free'[t] \subseteq free[t]
    BY DEF TypeOK, CreateObject
  <2>8. held' \in [Stores -> SUBSET ObjectIDs]
    BY <2>4 DEF TypeOK, CreateObject
  <2> QED
    BY <2>1, <2>2, <2>3, <2>4, <2>5, <2>6, <2>7, <2>8 DEF TypeOK, CreateObject
<1>2. BlocksAccounted'
  BY DEF BlocksAccounted, TypeOK, LoopInv, CreateObject, Accounted, Entry,
      Handler, Answer, NoBlock, Present, Is, Evictable, At, Idle,
      AboutToCreate, NoEntry, Up
<1>3. LoopInv'
  BY DEF LoopInv, Present, Is, Evictable, CreateObject, TypeOK, At, Idle, Up
<1>4. TableInv'
  BY DEF TableInv, Is, CreateObject, TypeOK
<1>5. PlaceInv'
  BY DEF PlaceInv, TypeOK, LoopInv, AnswerInv, CreateObject, NoBlock, Is,
      Entry, Handler, Answer, Present, Evictable, Up, At, Idle, AboutToCreate,
      NoEntry
<1>6. RaceInv'
  BY DEF RaceInv, AboutToCreate, Present, CreateObject, TypeOK, At, Idle, Up
<1>7. /\ SealedIntact' /\ AnswerInv'
  BY DEF CreateObject, SealedIntact, Is, AnswerInv, Up
<1> QED
  BY <1>1, <1>2, <1>3, <1>4, <1>5, <1>6, <1>7

(* The victim is chosen among the unused objects.                          *)
LEMMA KeepsRequireSpace ==
  ASSUME IInv, NEW s \in Stores, NEW id \in ObjectIDs, RequireSpace(s, id)
  PROVE  IInv'
<1> USE PeerFacts, PoolAssumption, NoObjectAssumption DEF IInv
<1>1. TypeOK'
  <2>1. loop[s] \in Handler
    BY DEF TypeOK
  <2>2. [loop[s] EXCEPT !.victim = id] \in Handler
    BY <2>1 DEF Handler
  <2>3. loop' \in [Stores -> Handler]
    BY <2>2 DEF TypeOK, RequireSpace
  <2> QED
    BY <2>1, <2>2, <2>3 DEF TypeOK, RequireSpace
<1>2. LoopInv'
  BY DEF LoopInv, Present, Is, Evictable, RequireSpace, TypeOK, At, Up
<1>3. /\ BlocksAccounted' /\ TableInv' /\ SealedIntact' /\ PlaceInv'
      /\ AnswerInv' /\ RaceInv'
  BY DEF RequireSpace, BlocksAccounted, Accounted, Is, TableInv, SealedIntact,
      PlaceInv, AnswerInv, Up, RaceInv, AboutToCreate, Present
<1> QED
  BY <1>1, <1>2, <1>3

(* The handler ends and the table stays.                                   *)
LEMMA KeepsOutOfMemory ==
  ASSUME IInv, NEW s \in Stores, OutOfMemory(s)
  PROVE  IInv'
<1> USE PeerFacts, PoolAssumption, NoObjectAssumption DEF IInv
<1>1. TypeOK'
  <2>1. loop' \in [Stores -> Handler]
    BY DEF TypeOK, OutOfMemory, Idle, Handler
  <2> QED
    BY <2>1 DEF TypeOK, OutOfMemory
<1>2. LoopInv'
  BY DEF LoopInv, Present, Is, Evictable, OutOfMemory, TypeOK, At, Idle, Up
<1>3. PlaceInv'
  BY DEF PlaceInv, Is, OutOfMemory, TypeOK, At, Idle, Up
<1>4. RaceInv'
  BY DEF RaceInv, AboutToCreate, Present, OutOfMemory, TypeOK, At, Idle, Up,
      Is
<1>5. /\ BlocksAccounted' /\ TableInv' /\ SealedIntact' /\ AnswerInv'
  BY DEF OutOfMemory, BlocksAccounted, Accounted, Is, TableInv, SealedIntact,
      AnswerInv, Up
<1> QED
  BY <1>1, <1>2, <1>3, <1>4, <1>5

(* The written block belongs to no other object.                           *)
LEMMA KeepsSealRequest ==
  ASSUME IInv, NEW s \in Stores, NEW id \in ObjectIDs, SealRequest(s, id)
  PROVE  IInv'
<1> USE PeerFacts, PoolAssumption, NoObjectAssumption DEF IInv
<1>1. TypeOK'
  <2>1. objects[s][id] \in Entry
    BY DEF TypeOK
  <2>2. [objects[s][id] EXCEPT !.state = "SEALED"] \in Entry
    BY <2>1 DEF Entry
  <2>3. objects' \in [Stores -> [ObjectIDs -> Entry]]
    BY <2>2 DEF TypeOK, SealRequest
  <2>4. \A t \in Stores, i \in ObjectIDs : objects'[t][i].block \in Pool[t] \cup {NoBlock}
    BY DEF TypeOK, Entry, SealRequest
  <2>5. DOMAIN memory' = Stores /\ \A t \in Stores : memory'[t] \in [Pool[t] -> ObjectIDs \cup {NoObject}]
    BY DEF TypeOK, SealRequest
  <2> QED
    BY <2>1, <2>2, <2>3, <2>4, <2>5 DEF TypeOK, SealRequest
<1>2. BlocksAccounted'
  <2>1. \A t \in Stores, i \in ObjectIDs :
          /\ objects'[t][i].block = objects[t][i].block
          /\ \/ objects'[t][i].state = objects[t][i].state
             \/ objects'[t][i].state = "SEALED" /\ objects[t][i].state = "CREATED"
    <3>1. /\ objects' = [objects EXCEPT ![s][id].state = "SEALED"]
          /\ objects[s][id].state = "CREATED"
      BY DEF SealRequest, Unsealed, Is
    <3>2. objects \in [Stores -> [ObjectIDs -> Entry]]
      BY DEF TypeOK
    <3> HIDE DEF IInv
    <3> USE DEF Entry
    <3>3. /\ objects'[s][id].state = "SEALED"
          /\ objects'[s][id].block = objects[s][id].block
      BY <3>1, <3>2
    <3>4. \A i \in ObjectIDs \ {id} : objects'[s][i] = objects[s][i]
      BY <3>1, <3>2
    <3>5. \A t \in Stores \ {s} : objects'[t] = objects[t]
      BY <3>1, <3>2
    <3> QED
      BY <3>1, <3>3, <3>4, <3>5
  <2>2. free' = free /\ backup' = backup
    BY DEF SealRequest
  <2> QED
    BY <2>1, <2>2 DEF BlocksAccounted, Accounted, Is
<1>3. LoopInv'
  BY DEF LoopInv, Present, Is, Evictable, SealRequest, TypeOK, Free, Unsealed,
      Up, Idle
<1>4. SealedIntact'
  <2>1. objects[s][id].block # NoBlock /\ objects[s][id].block \in Pool[s]
    BY DEF SealRequest, Unsealed, Is, TypeOK, BlocksAccounted, Accounted
  <2> SUFFICES ASSUME NEW t \in Stores \ External, NEW i \in ObjectIDs,
                      objects'[t][i].state = "SEALED"
               PROVE  memory'[t][objects'[t][i].block] = i
    BY DEF SealedIntact, Is
  <2>2. objects'[t][i].block = objects[t][i].block
    BY DEF SealRequest, TypeOK, Entry
  <2>3. CASE t = s /\ i = id
    BY <2>1, <2>2, <2>3 DEF SealRequest, TypeOK
  <2>4. CASE t = s /\ i # id
    <3>1. objects[s][i].block # objects[s][id].block /\ objects[s][i].state = "SEALED"
      BY <2>1, <2>4 DEF SealRequest, TypeOK, BlocksAccounted, Accounted, Entry
    <3> QED
      BY <2>1, <2>2, <2>4, <3>1 DEF SealRequest, TypeOK, SealedIntact, Is
  <2>5. CASE t = Peer(s)
    BY <2>2, <2>5 DEF SealRequest, TypeOK, SealedIntact, Is
  <2> QED
    BY <2>3, <2>4, <2>5
<1>5. RaceInv'
  BY DEF RaceInv, TypeOK, LoopInv, SealRequest, AboutToCreate, Present, Entry,
      Handler, Answer, NoBlock, Is, Evictable, Free, Unsealed, NoEntry, Up,
      Idle
<1>6. /\ TableInv' /\ PlaceInv' /\ AnswerInv'
  BY DEF SealRequest, TableInv, Is, PlaceInv, AnswerInv, Up
<1> QED
  BY <1>1, <1>2, <1>3, <1>4, <1>5, <1>6

(* A new user of an object that has its bytes.                             *)
LEMMA KeepsGetSealed ==
  ASSUME IInv, NEW s \in Stores, NEW id \in ObjectIDs, GetSealed(s, id)
  PROVE  IInv'
<1> USE PeerFacts, PoolAssumption, NoObjectAssumption DEF IInv
<1>1. LoopInv'
  BY DEF LoopInv, Present, Is, Evictable, GetSealed, TypeOK, Free, Up, Idle
<1>2. /\ TypeOK' /\ BlocksAccounted' /\ TableInv' /\ SealedIntact'
      /\ PlaceInv' /\ AnswerInv' /\ RaceInv'
  BY DEF GetSealed, TypeOK, BlocksAccounted, Accounted, Is, TableInv,
      SealedIntact, PlaceInv, AnswerInv, Up, RaceInv, AboutToCreate, Present
<1> QED
  BY <1>1, <1>2

(* The object to restore has a copy in the external store.                 *)
LEMMA KeepsGetEvicted ==
  ASSUME IInv, NEW s \in Stores, NEW id \in ObjectIDs, GetEvicted(s, id)
  PROVE  IInv'
<1> USE PeerFacts, PoolAssumption, NoObjectAssumption DEF IInv
<1>1. TypeOK'
  <2>1. loop' \in [Stores -> Handler]
    BY DEF TypeOK, GetEvicted, Idle, Handler
  <2> QED
    BY <2>1 DEF TypeOK, GetEvicted
<1>2. LoopInv'
  BY DEF LoopInv, Present, Is, Evictable, GetEvicted, TypeOK, Free, Idle, Up
<1>3. RaceInv'
  BY DEF RaceInv, AboutToCreate, Present, GetEvicted, TypeOK, Free, Is, Idle,
      Up
<1>4. /\ BlocksAccounted' /\ TableInv' /\ SealedIntact' /\ PlaceInv'
      /\ AnswerInv'
  BY DEF GetEvicted, BlocksAccounted, Accounted, Is, TableInv, SealedIntact,
      PlaceInv, AnswerInv, Up
<1> QED
  BY <1>1, <1>2, <1>3, <1>4

(* The restored object takes a free block of its own.                      *)
LEMMA KeepsRestore ==
  ASSUME IInv, NEW s \in Stores, NEW b \in Pool[s], Restore(s, b)
  PROVE  IInv'
<1> USE PeerFacts, PoolAssumption, NoObjectAssumption DEF IInv
<1>1. TypeOK'
  <2>1. loop[s] \in Handler
    BY DEF TypeOK
  <2>2. [loop[s] EXCEPT !.pc = "fetch"] \in Handler
    BY <2>1 DEF Handler
  <2>3. loop' \in [Stores -> Handler]
    BY <2>2 DEF TypeOK, Restore
  <2>4. b \in Nat
    OBVIOUS
  <2>5. [state |-> "CREATED", block |-> b] \in Entry
    BY <2>4 DEF Entry
  <2>6. loop[s].id \in ObjectIDs
    BY DEF LoopInv, Restore, At
  <2>7. objects' \in [Stores -> [ObjectIDs -> Entry]]
    BY <2>5 DEF TypeOK, Restore
  <2>8. \A t \in Stores, i \in ObjectIDs : objects'[t][i].block \in Pool[t] \cup {NoBlock}
    BY <2>4, <2>6 DEF TypeOK, Restore
  <2>9. free' \in [Stores -> SUBSET Nat] /\ \A t \in Stores : free'[t] \subseteq free[t]
    BY DEF TypeOK, Restore
  <2>10. held' \in [Stores -> SUBSET ObjectIDs]
    BY <2>6 DEF TypeOK, Restore
  <2> QED
    BY <2>1, <2>2, <2>3, <2>4, <2>5, <2>6, <2>7, <2>8, <2>9, <2>10 DEF TypeOK,
        Restore
<1>2. BlocksAccounted'
  <2>1. PICK o \in ObjectIDs : o = loop[s].id /\ objects[s][o].state = "EVICTED"
    BY DEF LoopInv, Restore, At, Is
  <2>2. objects[s][o].block = NoBlock
    <3>1. Accounted(s)
      BY DEF BlocksAccounted
    <3> HIDE DEF IInv
    <3> QED
      BY <2>1, <3>1 DEF Accounted
  <2>3. /\ b \in free[s] /\ b # NoBlock /\ b \in Pool[s]
        /\ free'[s] = free[s] \ {b} /\ backup' = backup
        /\ objects'[s][o].block = b /\ objects'[s][o].state = "CREATED"
        /\ \A i \in ObjectIDs \ {o} : objects'[s][i] = objects[s][i]
    BY <2>1 DEF Restore, TypeOK, NoBlock
  <2>4. objects'[Peer(s)] = objects[Peer(s)] /\ free'[Peer(s)] = free[Peer(s)]
    BY DEF Restore, TypeOK
  <2>5. Accounted(Peer(s))'
    BY <2>3, <2>4 DEF BlocksAccounted, Accounted, Is
  <2>6. Accounted(s)
    BY DEF BlocksAccounted
  <2> HIDE DEF IInv
  <2>7. \A c \in Pool[s] :
          c \notin free'[s] <=> \E i \in ObjectIDs : objects'[s][i].block = c
    <3>1. \A c \in Pool[s] \ {b} : c # NoBlock
      BY PoolAssumption
    <3> QED
      BY <2>2, <2>3, <2>6, <3>1 DEF Accounted
  <2>8. \A i, j \in ObjectIDs :
          objects'[s][i].block # NoBlock /\ i # j
            => objects'[s][i].block # objects'[s][j].block
    BY <2>3, <2>6 DEF Accounted
  <2>9. \A i \in ObjectIDs :
          /\ objects'[s][i].block # NoBlock <=> objects'[s][i].state \in {"CREATED", "SEALED"}
          /\ objects'[s][i].state = "EVICTED" => i \in DOMAIN backup'[s]
    BY <2>3, <2>6 DEF Accounted, Is
  <2>10. Accounted(s)'
    BY <2>7, <2>8, <2>9 DEF Accounted, Is
  <2> QED
    BY <2>5, <2>10 DEF BlocksAccounted
<1>3. LoopInv'
  BY DEF LoopInv, Present, Is, Evictable, Restore, TypeOK, At, Up, TableInv,
      BlocksAccounted, Entry, Accounted
<1>4. TableInv'
  BY DEF TableInv, Is, Restore, TypeOK
<1>5. PlaceInv'
  BY DEF PlaceInv, Is, Restore, TypeOK, At, Up, LoopInv
<1>6. RaceInv'
  BY DEF RaceInv, TypeOK, LoopInv, Restore, AboutToCreate, Present, Entry,
      Handler, Answer, NoBlock, Is, Evictable, At, NoEntry, Up
<1>7. /\ SealedIntact' /\ AnswerInv'
  BY DEF Restore, SealedIntact, Is, AnswerInv, Up
<1> QED
  BY <1>1, <1>2, <1>3, <1>4, <1>5, <1>6, <1>7

(* Only a store with an external store writes to its base.                 *)
LEMMA KeepsFetch ==
  ASSUME IInv, NEW s \in Stores, Fetch(s)
  PROVE  IInv'
<1> USE PeerFacts, PoolAssumption, NoObjectAssumption DEF IInv
<1>1. TypeOK'
  <2>1. loop' \in [Stores -> Handler]
    BY DEF TypeOK, Fetch, Idle, Handler
  <2>2. loop[s].id \in ObjectIDs /\ loop[s].id \in DOMAIN backup[s]
    BY DEF LoopInv, Fetch, At
  <2>3. objects[s][loop[s].id] \in Entry
    BY <2>2 DEF TypeOK
  <2>4. [objects[s][loop[s].id] EXCEPT !.state = "SEALED"] \in Entry
    BY <2>3 DEF Entry
  <2>5. objects' \in [Stores -> [ObjectIDs -> Entry]]
    BY <2>2, <2>4 DEF TypeOK, Fetch
  <2>6. \A t \in Stores, i \in ObjectIDs : objects'[t][i].block \in Pool[t] \cup {NoBlock}
    BY <2>2 DEF TypeOK, Entry, Fetch
  <2>7. backup[s][loop[s].id] \in ObjectIDs \cup {NoObject}
    BY <2>2 DEF TypeOK
  <2>8. DOMAIN memory' = Stores /\ \A t \in Stores : memory'[t] \in [Pool[t] -> ObjectIDs \cup {NoObject}]
    BY <2>7 DEF TypeOK, Fetch
  <2> QED
    BY <2>1, <2>2, <2>3, <2>4, <2>5, <2>6, <2>7, <2>8 DEF TypeOK, Fetch
<1>2. BlocksAccounted'
  BY DEF BlocksAccounted, Accounted, Is, Fetch, TypeOK, At, Idle, Up, LoopInv,
      Entry
<1>3. LoopInv'
  BY DEF LoopInv, Present, Is, Evictable, Fetch, TypeOK, At, Idle, Up
<1>4. SealedIntact'
  BY DEF SealedIntact, Is, Fetch, TypeOK, At, Idle, Up, LoopInv
<1>5. PlaceInv'
  BY DEF PlaceInv, Is, Fetch, TypeOK, At, Idle, Up
<1>6. RaceInv'
  BY DEF RaceInv, TypeOK, LoopInv, Fetch, AboutToCreate, Present, Entry,
      Handler, Answer, NoBlock, Is, Evictable, At, Idle, NoEntry, Up
<1>7. /\ TableInv' /\ AnswerInv'
  BY DEF Fetch, TableInv, Is, AnswerInv, Up
<1> QED
  BY <1>1, <1>2, <1>3, <1>4, <1>5, <1>6, <1>7

(* The client has no descriptor of the object it asks for.                 *)
LEMMA KeepsGetRequest ==
  ASSUME IInv, NEW s \in Stores, NEW id \in ObjectIDs, GetRequest(s, id)
  PROVE  IInv'
<1> USE PeerFacts, PoolAssumption, NoObjectAssumption DEF IInv
<1>1. TypeOK'
  <2>1. loop' \in [Stores -> Handler]
    BY DEF TypeOK, GetRequest, Idle, Handler
  <2>2. rpc' \in [Stores -> Answer] /\ rpc'[s].block = NoBlock
        /\ rpc'[Peer(s)] = rpc[Peer(s)]
    BY DEF TypeOK, GetRequest, Sent, Answer, NoBlock
  <2> QED
    BY <2>1, <2>2 DEF TypeOK, GetRequest
<1>2. LoopInv'
  BY DEF LoopInv, Present, Is, Evictable, GetRequest, TypeOK, Free, Idle,
      Sent, Up
<1>3. PlaceInv'
  BY DEF PlaceInv, Is, GetRequest, TypeOK, Free, Idle, Sent, Up
<1>4. AnswerInv'
  BY DEF AnswerInv, Up, GetRequest, TypeOK, Free, Idle, Sent
<1>5. RaceInv'
  BY DEF RaceInv, AboutToCreate, Present, GetRequest, TypeOK, Free, Idle,
      Sent, Up
<1>6. /\ BlocksAccounted' /\ TableInv' /\ SealedIntact'
  BY DEF GetRequest, BlocksAccounted, Accounted, Is, TableInv, SealedIntact,
      Up
<1> QED
  BY <1>1, <1>2, <1>3, <1>4, <1>5, <1>6

(* The answer becomes a descriptor, lost or still true.                    *)
LEMMA KeepsGetRemote ==
  ASSUME IInv, NEW s \in Stores, GetRemote(s)
  PROVE  IInv'
<1> USE PeerFacts, PoolAssumption, NoObjectAssumption DEF IInv
<1>1. TypeOK'
  <2>1. loop' \in [Stores -> Handler]
    BY DEF TypeOK, GetRemote, Idle, Handler
  <2>2. rpc' \in [Stores -> Answer] /\ rpc'[s].block = NoBlock
        /\ rpc'[Peer(s)] = rpc[Peer(s)]
    BY DEF TypeOK, GetRemote, NoRpc, Answer, NoBlock
  <2>3. down' \subseteq Stores
    BY DEF TypeOK, GetRemote, FailsOn
  <2>4. rpc[s].block \in Nat
    BY DEF TypeOK, Answer
  <2>5. remote' \in [Stores -> [ObjectIDs -> Nat]]
    BY <2>4 DEF TypeOK, GetRemote
  <2>6. remote'[Peer(s)] = remote[Peer(s)]
    BY DEF TypeOK, GetRemote
  <2>7. \A i \in ObjectIDs : remote'[s][i] = IF i = loop[s].id THEN rpc[s].block ELSE remote[s][i]
    BY DEF TypeOK, GetRemote
  <2>8. \A t \in Stores, i \in ObjectIDs : remote'[t][i] \in Pool[Peer(t)] \cup {NoBlock}
    <3> TAKE t \in Stores, i \in ObjectIDs
    <3>1. CASE t = s
      BY <2>7, <3>1 DEF TypeOK
    <3>2. CASE t = Peer(s)
      BY <2>6, <3>2 DEF TypeOK
    <3> QED
      BY <3>1, <3>2
  <2> QED
    BY <2>1, <2>2, <2>3, <2>4, <2>5, <2>6, <2>7, <2>8 DEF TypeOK, GetRemote
<1>2. LoopInv'
  BY DEF LoopInv, Present, Is, Evictable, GetRemote, FailsOn, TypeOK, At,
      Answered, NoRpc, Idle, Up
<1>3. PlaceInv'
  BY DEF PlaceInv, Is, GetRemote, FailsOn, TypeOK, At, Answered, NoRpc, Idle,
      Up, LoopInv, AnswerInv, NoBlock
<1>4. AnswerInv'
  BY DEF AnswerInv, Up, GetRemote, FailsOn, TypeOK, At, Answered, NoRpc, Idle
<1>5. RaceInv'
  BY DEF RaceInv, AboutToCreate, Present, GetRemote, FailsOn, TypeOK, At,
      Answered, NoRpc, Idle, Up
<1>6. /\ BlocksAccounted' /\ TableInv' /\ SealedIntact'
  BY DEF GetRemote, BlocksAccounted, Accounted, Is, FailsOn, TableInv,
      SealedIntact
<1> QED
  BY <1>1, <1>2, <1>3, <1>4, <1>5, <1>6

(* The answer describes the table as it is under mutex_.                   *)
LEMMA KeepsServeGetObjects ==
  ASSUME IInv, NEW s \in Stores, ServeGetObjects(s)
  PROVE  IInv'
<1> USE PeerFacts, PoolAssumption, NoObjectAssumption DEF IInv
<1>1. TypeOK'
  <2>1. loop[s].id \in ObjectIDs
    BY DEF LoopInv, ServeGetObjects, Sent
  <2>2. Details(Peer(s), loop[s].id) \in Answer
    BY <2>1 DEF TypeOK, Details, Answer, Entry, NoBlock
  <2>3. Details(Peer(s), loop[s].id).block \in Pool[Peer(s)] \cup {NoBlock}
    BY <2>1 DEF TypeOK, Details
  <2>4. rpc' \in [Stores -> Answer] /\ \A t \in Stores : rpc'[t].block \in Pool[Peer(t)] \cup {NoBlock}
    BY <2>2, <2>3 DEF TypeOK, ServeGetObjects
  <2> QED
    BY <2>1, <2>2, <2>3, <2>4 DEF TypeOK, ServeGetObjects
<1>2. LoopInv'
  BY DEF LoopInv, Present, Is, Evictable, ServeGetObjects, TypeOK, Sent, Up,
      TableInv, BlocksAccounted, Details, NoBlock, NoEntry
<1>3. PlaceInv'
  <2>1. loop[s].id \in ObjectIDs /\ rpc[s].status = "sent"
    BY DEF LoopInv, ServeGetObjects, Sent
  <2>2. rpc'[s].status = "OK" => /\ Is(Peer(s), loop[s].id, "SEALED")
                                 /\ objects[Peer(s)][loop[s].id].block = rpc'[s].block
    <3>1. objects[Peer(s)][loop[s].id] \in Entry /\ rpc'[s] = Details(Peer(s), loop[s].id)
      BY <2>1 DEF TypeOK, ServeGetObjects
    <3>2. objects[Peer(s)][loop[s].id].state = "ABSENT" => ~Present(Peer(s), loop[s].id)
      BY <2>1, <3>1 DEF BlocksAccounted, Accounted, Present, NoEntry, Entry
    <3> QED
      BY <3>1, <3>2 DEF Details, Is, Entry
  <2>3. \A i \in ObjectIDs : <<s, i>> \notin lost' =>
          <<s, i>> \notin lost \/ (loop[s].pc = "get" /\ i = loop[s].id)
    BY DEF ServeGetObjects
  <2>4. \A i \in ObjectIDs : <<Peer(s), i>> \in lost' <=> <<Peer(s), i>> \in lost
    BY DEF ServeGetObjects
  <2>5. rpc'[Peer(s)] = rpc[Peer(s)] /\ loop' = loop /\ remote' = remote /\ objects' = objects
    BY DEF ServeGetObjects, TypeOK
  <2>6. loop[s].pc = "get" => remote[s][loop[s].id] = NoBlock
    BY DEF LoopInv
  <2> SUFFICES ASSUME NEW t \in Stores, NEW i \in ObjectIDs, <<t, i>> \notin lost'
               PROVE  /\ remote[t][i] # NoBlock =>
                           /\ objects[Peer(t)][i].state = "SEALED"
                           /\ objects[Peer(t)][i].block = remote[t][i]
                      /\ loop[t].pc = "get" /\ loop[t].id = i /\ rpc'[t].status = "OK" =>
                           /\ objects[Peer(t)][i].state = "SEALED"
                           /\ objects[Peer(t)][i].block = rpc'[t].block
    BY <2>5 DEF PlaceInv, Is
  <2>7. CASE t = Peer(s)
    BY <2>4, <2>5, <2>7 DEF PlaceInv, Is
  <2>8. CASE t = s
    BY <2>2, <2>3, <2>6, <2>8 DEF PlaceInv, Is
  <2> QED
    BY <2>7, <2>8
<1>4. AnswerInv'
  BY DEF AnswerInv, Up, ServeGetObjects, TypeOK, Sent, Is, LoopInv, Details,
      NoBlock, Present, NoEntry
<1>5. RaceInv'
  <2>1. /\ rpc'[s] = Details(Peer(s), loop[s].id) /\ rpc'[Peer(s)] = rpc[Peer(s)]
        /\ rpc[s].status = "sent"
        /\ UNCHANGED <<loop, objects, raced>>
    BY DEF ServeGetObjects, TypeOK, Sent
  <2>2. rpc'[s].status = "MISSING" => ~Present(Peer(s), loop[s].id)
    BY <2>1 DEF Details
  <2>3. /\ AboutToCreate(s)' /\ Present(Peer(s), loop[s].id) => s \in raced
        /\ s \in raced => AboutToCreate(s)'
    BY <2>1, <2>2 DEF RaceInv, AboutToCreate
  <2>4. AboutToCreate(Peer(s))' <=> AboutToCreate(Peer(s))
    BY <2>1 DEF AboutToCreate
  <2>5. \A t, id : Present(t, id)' <=> Present(t, id)
    BY <2>1 DEF Present
  <2> QED
    BY <2>1, <2>3, <2>4, <2>5 DEF RaceInv
<1>6. /\ BlocksAccounted' /\ TableInv' /\ SealedIntact'
  BY DEF ServeGetObjects, BlocksAccounted, Accounted, Is, TableInv,
      SealedIntact, Up
<1> QED
  BY <1>1, <1>2, <1>3, <1>4, <1>5, <1>6

(* An RPC that fails brings no descriptor and tells nothing of the object. *)
LEMMA KeepsRpcFails ==
  ASSUME IInv, NEW s \in Stores, RpcFails(s)
  PROVE  IInv'
<1> USE PeerFacts, PoolAssumption, NoObjectAssumption DEF IInv
<1>1. TypeOK'
  <2>1. rpc[s] \in Answer
    BY DEF TypeOK
  <2>2. [rpc[s] EXCEPT !.status = "FAILED"] \in Answer
    BY <2>1 DEF Answer
  <2>3. rpc' \in [Stores -> Answer]
    BY <2>2 DEF TypeOK, RpcFails
  <2>4. \A t \in Stores : rpc'[t].block = rpc[t].block
    BY <2>1 DEF TypeOK, RpcFails, Answer
  <2> QED
    BY <2>1, <2>2, <2>3, <2>4 DEF TypeOK, RpcFails
<1>2. LoopInv'
  BY DEF LoopInv, Present, Is, Evictable, RpcFails, TypeOK, Sent, Up
<1>3. AnswerInv'
  BY DEF AnswerInv, Up, RpcFails, TypeOK, Sent
<1>4. RaceInv'
  BY DEF RaceInv, AboutToCreate, Present, RpcFails, TypeOK, Sent, Up
<1>5. /\ BlocksAccounted' /\ TableInv' /\ SealedIntact' /\ PlaceInv'
  BY DEF RpcFails, BlocksAccounted, Accounted, Is, TableInv, SealedIntact,
      PlaceInv, Up
<1> QED
  BY <1>1, <1>2, <1>3, <1>4, <1>5

(* A store that goes down leaves its memory as it was.                     *)
LEMMA KeepsKill ==
  ASSUME IInv, NEW s \in Stores, Kill(s)
  PROVE  IInv'
<1> USE PeerFacts, PoolAssumption, NoObjectAssumption DEF IInv
<1>1. /\ TypeOK' /\ BlocksAccounted' /\ LoopInv' /\ TableInv'
      /\ SealedIntact' /\ PlaceInv' /\ AnswerInv' /\ RaceInv'
  BY DEF Kill, TypeOK, BlocksAccounted, Accounted, Is, LoopInv, Present,
      Evictable, TableInv, SealedIntact, PlaceInv, AnswerInv, Up, RaceInv,
      AboutToCreate
<1> QED
  BY <1>1

------------------------------------------------------------------------------
(* The invariant holds of two empty stores.                                *)
LEMMA InitIInv == Init => IInv
<1> USE PeerFacts, PoolAssumption, NoObjectAssumption
<1> SUFFICES ASSUME Init PROVE IInv
  OBVIOUS
<1>1. /\ NoEntry \in Entry /\ NoEntry.state = "ABSENT" /\ NoEntry.block = NoBlock
      /\ Idle \in Handler /\ Idle.pc = "idle" /\ Idle.victim = NoObject
      /\ NoRpc \in Answer /\ NoRpc.status = "none" /\ NoRpc.block = NoBlock
  BY DEF NoEntry, Entry, Idle, Handler, NoRpc, Answer, NoBlock
<1>2. TypeOK
  BY <1>1 DEF Init, TypeOK, NoBlock
<1>3. BlocksAccounted
  BY <1>1 DEF Init, BlocksAccounted, Accounted, Is
<1>4. LoopInv /\ TableInv /\ SealedIntact
  BY <1>1 DEF Init, LoopInv, TableInv, SealedIntact, Is
<1>5. PlaceInv /\ AnswerInv /\ RaceInv
  BY <1>1 DEF Init, PlaceInv, AnswerInv, RaceInv,
     AboutToCreate, Up
<1> QED
  BY <1>2, <1>3, <1>4, <1>5 DEF IInv

(* Every step of a store or of an RPC thread keeps it.                     *)
LEMMA NextIInv == IInv /\ [Next]_vars => IInv'
<1> SUFFICES ASSUME IInv, [Next]_vars PROVE IInv'
  OBVIOUS
<1>1. CASE Next
  <2>1. PICK s \in Stores :
          \/ Continue(s) \/ Rpc(s)
          \/ \E id \in ObjectIDs : Message(s, id)
          \/ DisconnectClient(s) \/ Kill(s)
    BY <1>1 DEF Next
  <2>2. CASE Continue(s)
    BY <2>2, KeepsObjectExists, KeepsGetRemote, KeepsFetch, KeepsEvictVictim,
       KeepsOutOfMemory, KeepsCreateObject, KeepsRestore, KeepsRequireSpace
       DEF Continue
  <2>3. CASE Rpc(s)
    BY <2>3, KeepsServeGetObjects, KeepsRpcFails DEF Rpc
  <2>4. ASSUME NEW id \in ObjectIDs, Message(s, id) PROVE IInv'
    BY <2>4, KeepsCreateRequest, KeepsSealRequest, KeepsAbortRequest,
       KeepsGetSealed, KeepsGetEvicted, KeepsGetRequest, KeepsReleaseRequest,
       KeepsDeleteRequest, KeepsEvictRequest DEF Message
  <2> QED
    BY <2>1, <2>2, <2>3, <2>4, KeepsDisconnectClient, KeepsKill
<1>2. CASE UNCHANGED vars
  <2> USE <1>2 DEF IInv, vars
  <2>1. TypeOK' /\ BlocksAccounted'
    BY DEF TypeOK, BlocksAccounted, Accounted, Is
  <2>2. LoopInv' /\ TableInv' /\ SealedIntact' /\ PlaceInv'
    BY DEF LoopInv, TableInv, SealedIntact, PlaceInv, Is, Present, Evictable
  <2>3. AnswerInv' /\ RaceInv'
    BY DEF AnswerInv, RaceInv, AboutToCreate, Present, Up
  <2> QED
    BY <2>1, <2>2, <2>3
<1> QED
  BY <1>1, <1>2

(* The inductive invariant holds of every behaviour of the two stores.     *)
THEOREM ClusterInvariant == Spec => []IInv
  BY InitIInv, NextIInv, PTL DEF Spec

(* The tables, the handlers in progress and the answers of the two stores  *)
(* are well formed, and no entry, answer or descriptor names a block that  *)
(* is not of the pool it is about (offsets in RpcServiceImpl::GetObjects). *)
THEOREM ClusterTypeOK == Spec => []TypeOK
<1>1. IInv => TypeOK
  BY DEF IInv
<1> QED
  BY <1>1, ClusterInvariant, PTL

(* Neither store leaks or shares a block of its pool, whichever objects    *)
(* are created, evicted, restored, aborted and deleted (store.cc:          *)
(* EraseFromObjectTable, EvictObjects, ProcessGetRequest).                 *)
THEOREM ClusterBlocksAccounted == Spec => []BlocksAccounted
<1>1. IInv => BlocksAccounted
  BY DEF IInv
<1> QED
  BY <1>1, ClusterInvariant, PTL

(* What a client uses stays in its store's table, and without an external  *)
(* store its bytes stay: nothing in use is evicted, not even by the        *)
(* eviction that a create or a restore waits for.                          *)
THEOREM ClusterLocalReadsIntact == Spec => []LocalReadsIntact
<1>1. IInv => LocalReadsIntact
  BY DEF IInv, LocalReadsIntact, TypeOK, TableInv, SealedIntact
<1> QED
  BY <1>1, ClusterInvariant, PTL

(* A descriptor that the RPC thread handed out reads the object it was     *)
(* asked for until the peer evicts or deletes that object, however late    *)
(* the answer is used.                                                     *)
THEOREM ClusterRemoteReadsFresh == Spec => []RemoteReadsFresh
<1>1. IInv => RemoteReadsFresh
  BY PeerFacts DEF IInv, RemoteReadsFresh, PlaceInv, SealedIntact
<1> QED
  BY <1>1, ClusterInvariant, PTL

(* Only the last step of a Create makes an absent object present.          *)
LEMMA AppearsByCreate ==
  ASSUME IInv, Next, NEW t \in Stores, NEW i \in ObjectIDs,
         ~Present(t, i), Present(t, i)'
  PROVE  loop[t].pc = "alloc" /\ loop[t].id = i
<1> USE PeerFacts DEF IInv
<1>1. PICK s \in Stores :
        \/ Continue(s) \/ Rpc(s)
        \/ \E id \in ObjectIDs : Message(s, id)
        \/ DisconnectClient(s) \/ Kill(s)
  BY DEF Next
<1>2. objects' # objects
  BY DEF Present
<1>3. CASE NothingAppears
  BY <1>3 DEF NothingAppears
<1>4. ASSUME NEW b \in Pool[s], CreateObject(s, b)
      PROVE  loop[t].pc = "alloc" /\ loop[t].id = i
  BY <1>4 DEF CreateObject, At, TypeOK, Present
<1>5. ASSUME NEW b \in Pool[s], Restore(s, b) PROVE NothingAppears
  <2>1. Present(s, loop[s].id)
    BY <1>5 DEF Restore, At, LoopInv, Is, Present, NoEntry
  <2> QED
    BY <1>5, <2>1 DEF Restore, TypeOK, Present, NothingAppears
<1>6. ASSUME Fetch(s) PROVE NothingAppears
  <2>1. Present(s, loop[s].id)
    BY <1>6 DEF Fetch, At, LoopInv, Is, Present, NoEntry
  <2> QED
    BY <1>6, <2>1 DEF Fetch, TypeOK, Present, NothingAppears
<1>7. ASSUME NEW id \in ObjectIDs, SealRequest(s, id) PROVE NothingAppears
  <2>1. Present(s, id)
    BY <1>7 DEF SealRequest, Unsealed, Is, Present, NoEntry
  <2> QED
    BY <1>7, <2>1 DEF SealRequest, TypeOK, Present, NothingAppears
<1>8. CASE Continue(s)
  BY <1>2, <1>3, <1>4, <1>5, <1>6, <1>8, KeepsEvictVictim
     DEF Continue, ObjectExists, GetRemote, OutOfMemory, RequireSpace
<1>9. CASE Rpc(s) \/ Kill(s)
  BY <1>2, <1>9 DEF Rpc, ServeGetObjects, RpcFails, Kill
<1>10. ASSUME NEW id \in ObjectIDs, Message(s, id)
       PROVE  loop[t].pc = "alloc" /\ loop[t].id = i
  BY <1>2, <1>3, <1>7, <1>10, KeepsAbortRequest, KeepsReleaseRequest,
     KeepsDeleteRequest, KeepsEvictRequest
     DEF Message, CreateRequest, GetSealed, GetEvicted, GetRequest
<1> QED
  BY <1>1, <1>3, <1>8, <1>9, <1>10, KeepsDisconnectClient

(* An object of an id that the peer has is created only by a Create that   *)
(* overlapped the peer's own: the answer MISSING was true when it was      *)
(* given (ObjectExists, store.cc).                                         *)
THEOREM ClusterDuplicatesOnlyByRace == Spec => DuplicatesOnlyByRace
<1> DEFINE Dup == \A s \in Stores, id \in ObjectIDs :
             (~Present(s, id) /\ Present(s, id)' /\ Present(Peer(s), id)) => s \in raced
<1>1. IInv /\ [Next]_vars => [Dup]_vars
  <2> SUFFICES ASSUME IInv, Next, NEW s \in Stores, NEW id \in ObjectIDs,
                      ~Present(s, id), Present(s, id)', Present(Peer(s), id)
               PROVE  s \in raced
    OBVIOUS
  <2>1. loop[s].pc = "alloc" /\ loop[s].id = id
    BY AppearsByCreate
  <2> QED
    BY <2>1 DEF IInv, RaceInv, AboutToCreate
<1> QED
  BY <1>1, ClusterInvariant, PTL DEF Spec, DuplicatesOnlyByRace
=============================================================================
