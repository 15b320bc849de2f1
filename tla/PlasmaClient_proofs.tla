------------------------ MODULE PlasmaClient_proofs ------------------------
(***************************************************************************)
(* Proofs about PlasmaClient, for any number of clients and objects, lists *)
(* of any length and any bound on references, when programs do not release *)
(* objects of the peer.                                                    *)
(***************************************************************************)
EXTENDS PlasmaClient, FiniteSetTheorems, TLAPS

(* The store keeps objects for clients it has a connection of; an object   *)
(* that is not sealed has one user, and the peer's objects are not here.   *)
StoreInv ==
  \A id \in ObjectIDs :
    /\ holders[id] \subseteq attached
    /\ holders[id] # {} => table[id].state \in {"CREATED", "SEALED"}
    /\ table[id].state = "CREATED" => \A c, d \in holders[id] : c = d
    /\ id \in PeerHas => table[id].state = "ABSENT"

(* Nothing is left of a client that is gone, and only sealed objects of    *)
(* the peer are used as remote ones.                                       *)
LocalOK(c) ==
  /\ c \notin attached => call[c] = NoCall
  /\ \A id \in ObjectIDs :
       /\ c \notin connected => ~InUse(c, id) /\ handles[c][id] = 0
       /\ c \notin attached => releases[c][id] = 0
       /\ InUse(c, id) /\ objects_in_use_[c][id].remote =>
            id \in PeerHas /\ objects_in_use_[c][id].is_sealed

(* A Release on its way is the only one, of an object that the client no   *)
(* longer uses and the store still keeps for it.                           *)
ReleaseOK(c) ==
  \A id \in ObjectIDs :
    /\ releases[c][id] > 0 =>
         /\ releases[c][id] = 1
         /\ c \in holders[id] /\ table[id].state = "SEALED"
         /\ ~InUse(c, id)
    /\ call[c].done \/ call[c].got # {} => releases[c][id] = 0

(* What the store does for the call a client waits in.                     *)
CallOK(c) ==
  /\ call[c].op \in {"create", "seal", "abort"} =>
       \E id \in ObjectIDs : call[c].ids = <<id>>
  /\ call[c].op = "none" => call[c] = NoCall
  /\ call[c].op \notin {"create", "get"} => call[c].got = {}
  /\ call[c].op = "create" =>
       \A id \in call[c].got :
         call[c].done /\ c \in holders[id] /\ table[id].state = "CREATED"
  /\ call[c].op = "get" =>
       /\ call[c].got \subseteq ListSet(call[c].ids)
       /\ \A id \in call[c].got \ PeerHas :
            c \in holders[id] /\ table[id].state = "SEALED"
  /\ call[c].op = "seal" /\ ~call[c].done =>
       LET id == Head(call[c].ids)
       IN  c \in holders[id] /\ table[id].state = "CREATED"
  /\ call[c].op = "abort" =>
       LET id == Head(call[c].ids)
       IN  IF call[c].done
             THEN c \notin holders[id]
             ELSE c \in holders[id] /\ table[id].state = "CREATED"

(* And what the client remembers meanwhile.                                *)
WaitOK(c) ==
  /\ call[c].op = "create" => \A id \in call[c].got : ~InUse(c, id)
  /\ call[c].op = "get" =>
       \A id \in ListSet(call[c].ids) :
         id \in call[c].filled <=> InUse(c, id) /\ objects_in_use_[c][id].is_sealed
  /\ call[c].op = "seal" =>
       LET id == Head(call[c].ids)
       IN  /\ InUse(c, id)
           /\ objects_in_use_[c][id].is_sealed /\ ~objects_in_use_[c][id].remote
  /\ call[c].op = "abort" => ~InUse(c, Head(call[c].ids))

ClientOK(c) ==
  /\ LocalOK(c) /\ ReleaseOK(c) /\ CallOK(c) /\ Counted(c)
  /\ c \in connected => WaitOK(c) /\ Held(c) /\ Remembered(c)

(* The inductive invariant.                                                *)
IInv ==
  /\ TypeOK
  /\ StoreInv
  /\ ReleasesAreHeld
  /\ \A c \in Clients : ClientOK(c)

------------------------------------------------------------------------------
(* The fields of no call and of a request, and of an unused entry.         *)
LEMMA Records ==
  /\ NoCall \in Call /\ NoCall.op = "none" /\ NoCall.ids = <<>>
  /\ NoCall.filled = {} /\ NoCall.got = {} /\ NoCall.done = FALSE
  /\ NotInUse \in Entry /\ NotInUse.count = 0
  /\ Store!Absent \in [state : {"ABSENT", "CREATED", "SEALED"}, size : Nat]
  /\ Store!Absent.state = "ABSENT"
<1>1. <<>> \in Seq(ObjectIDs)
  OBVIOUS
<1> QED
  BY <1>1 DEF NoCall, Call, NotInUse, Entry, Store!Absent

(* What the call of a client is after it has sent a request.               *)
Requested(c, op, ids, filled) ==
  /\ call' \in [Clients -> Call]
  /\ \A d \in Clients \ {c} : call'[d] = call[d]
  /\ call'[c].op = op /\ call'[c].ids = ids /\ call'[c].filled = filled
  /\ call'[c].got = {} /\ ~call'[c].done

(* What it is after the call has returned.                                 *)
Returned(c) ==
  /\ call' \in [Clients -> Call]
  /\ \A d \in Clients \ {c} : call'[d] = call[d]
  /\ call'[c] = NoCall

(* What it is after a step of the store.                                   *)
Answered(c, got, done) ==
  /\ call' \in [Clients -> Call]
  /\ \A d \in Clients \ {c} : call'[d] = call[d]
  /\ call'[c].op = call[c].op /\ call'[c].ids = call[c].ids
  /\ call'[c].filled = call[c].filled
  /\ call'[c].got = got /\ call'[c].done = done

(* A request that is sent is the client's call.                            *)
LEMMA SendRequest ==
  ASSUME TypeOK, NEW c \in Clients, NEW r \in Call, r.got = {}, ~r.done, Send(c, r)
  PROVE  Requested(c, r.op, r.ids, r.filled)
  BY DEF Send, Requested, TypeOK

(* So is one that only names objects.                                      *)
LEMMA SendSimple ==
  ASSUME TypeOK, NEW c \in Clients, NEW ids \in Seq(ObjectIDs),
         NEW op \in {"create", "create_and_seal", "seal", "abort", "delete"},
         Send(c, Request(op, ids))
  PROVE  Requested(c, op, ids, {})
<1> DEFINE r == Request(op, ids)
<1>1. /\ r \in Call /\ r.op = op /\ r.ids = ids /\ r.filled = {}
      /\ r.got = {} /\ ~r.done
  BY DEF Request, NoCall, Call
<1>2. Send(c, r)
  OBVIOUS
<1> HIDE DEF r
<1>3. Requested(c, r.op, r.ids, r.filled)
  BY <1>1, <1>2, SendRequest
<1> QED
  BY <1>1, <1>3

(* A call that returns leaves none.                                        *)
LEMMA SendNothing ==
  ASSUME TypeOK, NEW c \in Clients, Send(c, NoCall)
  PROVE  Returned(c)
  BY Records DEF Send, Returned, TypeOK

(* A step of the store for a call changes what was given and the reply.    *)
LEMMA SendAnswer ==
  ASSUME TypeOK, NEW c \in Clients, NEW r \in Call, Send(c, r),
         r.op = call[c].op, r.ids = call[c].ids, r.filled = call[c].filled
  PROVE  Answered(c, r.got, r.done)
  BY DEF Send, Answered, TypeOK

(* The reply is sent.                                                      *)
LEMMA SendDone ==
  ASSUME TypeOK, NEW c \in Clients, Send(c, [call[c] EXCEPT !.done = TRUE])
  PROVE  Answered(c, call[c].got, TRUE)
<1> DEFINE r == [call[c] EXCEPT !.done = TRUE]
<1>1. call[c] \in Call
  BY DEF TypeOK
<1>2. /\ r \in Call /\ r.op = call[c].op /\ r.ids = call[c].ids
      /\ r.filled = call[c].filled /\ r.got = call[c].got /\ r.done = TRUE
  BY <1>1 DEF Call
<1>3. Send(c, r)
  OBVIOUS
<1> HIDE DEF r
<1>4. Answered(c, r.got, r.done)
  BY <1>2, <1>3, SendAnswer
<1> QED
  BY <1>2, <1>4

(* A Get has one object more.                                              *)
LEMMA SendMore ==
  ASSUME TypeOK, NEW c \in Clients, NEW id \in ObjectIDs, ~call[c].done,
         Send(c, [call[c] EXCEPT !.got = @ \cup {id}])
  PROVE  Answered(c, call[c].got \cup {id}, FALSE)
<1> DEFINE r == [call[c] EXCEPT !.got = @ \cup {id}]
<1>1. call[c] \in Call /\ call[c].done = FALSE
  BY DEF TypeOK, Call
<1>2. /\ r \in Call /\ r.op = call[c].op /\ r.ids = call[c].ids
      /\ r.filled = call[c].filled /\ r.got = call[c].got \cup {id} /\ r.done = FALSE
  BY <1>1 DEF Call
<1>3. Send(c, r)
  OBVIOUS
<1> HIDE DEF r
<1>4. Answered(c, r.got, r.done)
  BY <1>2, <1>3, SendAnswer
<1> QED
  BY <1>2, <1>4

(* How often a list names an object.                                       *)
LEMMA OccurrencesFacts ==
  ASSUME NEW s \in Seq(ObjectIDs), NEW id
  PROVE  /\ Occurrences(s, id) \in Nat
         /\ id \in ListSet(s) <=> Occurrences(s, id) > 0
         /\ ListSet(s) \subseteq ObjectIDs
<1> DEFINE I == {i \in DOMAIN s : s[i] = id}
<1>1. DOMAIN s = 1..Len(s) /\ Len(s) \in Nat
  OBVIOUS
<1>2. IsFiniteSet(1..Len(s))
  BY <1>1, FS_Interval
<1>3. IsFiniteSet(I)
  BY <1>1, <1>2, FS_Subset
<1>4. Cardinality(I) \in Nat /\ (Cardinality(I) = 0 <=> I = {})
  BY <1>3, FS_CardinalityType, FS_EmptySet
<1>5. id \in ListSet(s) <=> I # {}
  BY DEF ListSet
<1>6. ListSet(s) \subseteq ObjectIDs
  BY <1>1 DEF ListSet
<1> HIDE DEF I
<1>7. Cardinality(I) = Occurrences(s, id)
  BY DEF Occurrences, I
<1> QED
  BY <1>4, <1>5, <1>6, <1>7

(* What dropping a reference does.                                         *)
UnuseEffect(c, id) ==
  /\ objects_in_use_' \in [Clients -> [ObjectIDs -> Entry]]
  /\ deletion_cache_' \in [Clients -> SUBSET ObjectIDs]
  /\ releases' \in [Clients -> [ObjectIDs -> Nat]]
  /\ call' \in [Clients -> Call]
  /\ \A d \in Clients, i \in ObjectIDs : d # c \/ i # id =>
       /\ objects_in_use_'[d][i] = objects_in_use_[d][i]
       /\ releases'[d][i] = releases[d][i]
  /\ objects_in_use_'[c][id].count = objects_in_use_[c][id].count - 1
  /\ objects_in_use_[c][id].count > 1 =>
       /\ objects_in_use_'[c][id].is_sealed = objects_in_use_[c][id].is_sealed
       /\ objects_in_use_'[c][id].remote = objects_in_use_[c][id].remote
       /\ releases'[c][id] = releases[c][id]
  /\ objects_in_use_[c][id].count = 1 => releases'[c][id] = releases[c][id] + 1
  /\ \A d \in Clients \ {c} : call'[d] = call[d]
  /\ call'[c] = NoCall \/ call'[c].op = "delete"
  /\ call'[c].got = {} /\ ~call'[c].done

(* Release of client.cc, for the program and for Seal.                     *)
LEMMA UnuseFacts ==
  ASSUME TypeOK, NEW c \in Clients, NEW id \in ObjectIDs, InUse(c, id), Unuse(c, id)
  PROVE  UnuseEffect(c, id)
<1> DEFINE entry == objects_in_use_[c][id]
           next == IF entry.count = 1 THEN NotInUse ELSE [entry EXCEPT !.count = @ - 1]
<1> USE Records
<1>1. entry \in Entry /\ entry.count > 0
  BY DEF TypeOK, InUse
<1>2. /\ next \in Entry /\ next.count = entry.count - 1
      /\ entry.count > 1 => next.is_sealed = entry.is_sealed /\ next.remote = entry.remote
  BY <1>1 DEF Entry
<1>3. objects_in_use_' = [objects_in_use_ EXCEPT ![c][id] = next]
  BY DEF Unuse
<1>4. releases' = IF entry.count = 1 THEN [releases EXCEPT ![c][id] = @ + 1] ELSE releases
  BY DEF Unuse
<1>5. deletion_cache_' \in [Clients -> SUBSET ObjectIDs]
  BY DEF Unuse, TypeOK
<1>6. Returned(c) \/ Requested(c, "delete", <<id>>, {})
  <2>1. CASE entry.count = 1 /\ id \in deletion_cache_[c]
    <3>1. Send(c, Request("delete", <<id>>))
      BY <2>1 DEF Unuse
    <3>2. <<id>> \in Seq(ObjectIDs)
      OBVIOUS
    <3> QED
      BY <3>1, <3>2, SendSimple
  <2>2. CASE ~(entry.count = 1 /\ id \in deletion_cache_[c])
    <3>1. Send(c, NoCall)
      BY <2>2 DEF Unuse
    <3> QED
      BY <3>1, SendNothing
  <2> QED
    BY <2>1, <2>2
<1> HIDE DEF entry, next
<1>7. /\ objects_in_use_' \in [Clients -> [ObjectIDs -> Entry]]
      /\ objects_in_use_'[c][id] = next
      /\ \A d \in Clients, i \in ObjectIDs : d # c \/ i # id =>
           objects_in_use_'[d][i] = objects_in_use_[d][i]
  BY <1>2, <1>3 DEF TypeOK
<1>8. /\ releases' \in [Clients -> [ObjectIDs -> Nat]]
      /\ releases'[c][id] = IF entry.count = 1 THEN releases[c][id] + 1 ELSE releases[c][id]
      /\ \A d \in Clients, i \in ObjectIDs : d # c \/ i # id =>
           releases'[d][i] = releases[d][i]
  BY <1>4 DEF TypeOK
<1> QED
  BY <1>1, <1>2, <1>5, <1>6, <1>7, <1>8 DEF UnuseEffect, Requested, Returned, entry

------------------------------------------------------------------------------
(* A step of which a client d sees nothing: its own state stays, the store *)
(* keeps for d what it kept, and in the same state.                        *)
Unaffected(d) ==
  /\ objects_in_use_'[d] = objects_in_use_[d] /\ handles'[d] = handles[d]
  /\ call'[d] = call[d] /\ releases'[d] = releases[d]
  /\ d \in connected' <=> d \in connected
  /\ d \in attached' <=> d \in attached
  /\ \A id \in ObjectIDs :
       /\ d \in holders'[id] <=> d \in holders[id]
       /\ d \in holders[id] => table'[id].state = table[id].state

(* What holds of a client still holds after a step it does not see.        *)
LEMMA UnaffectedClient ==
  ASSUME TypeOK, NEW d \in Clients, ClientOK(d), Unaffected(d)
  PROVE  ClientOK(d)'
<1> USE DEF Unaffected
<1>1. \A id \in ObjectIDs : InUse(d, id)' <=> InUse(d, id)
  BY DEF InUse
<1>2. \A op, id : Calling(d, op, id)' <=> Calling(d, op, id)
  BY DEF Calling
<1>3. LocalOK(d)'
  BY <1>1 DEF ClientOK, LocalOK
<1>4. ReleaseOK(d)'
  BY <1>1 DEF ClientOK, ReleaseOK
<1>5. call[d].got \subseteq ObjectIDs
  BY DEF TypeOK, Call
<1>6. CallOK(d)'
  BY <1>5 DEF ClientOK, CallOK
<1>7. Counted(d)'
  BY <1>1, <1>2 DEF ClientOK, Counted, OwnReference
<1>8. ASSUME d \in connected PROVE WaitOK(d)'
  BY <1>8, <1>1 DEF ClientOK, WaitOK, InUse
<1>9. ASSUME d \in connected PROVE Held(d)'
  BY <1>9, <1>1, <1>2 DEF ClientOK, Held
<1>10. ASSUME d \in connected PROVE Remembered(d)'
  BY <1>10, <1>1, <1>2 DEF ClientOK, Remembered
<1> QED
  BY <1>3, <1>4, <1>6, <1>7, <1>8, <1>9, <1>10 DEF ClientOK

(* A step that only the client c may notice.                               *)
LEMMA StepOfOne ==
  ASSUME IInv, NEW c \in Clients, TypeOK', StoreInv', ReleasesAreHeld', ClientOK(c)',
         \A d \in Clients \ {c} : Unaffected(d)
  PROVE  IInv'
  BY UnaffectedClient DEF IInv

(* The objects of a list that a client uses and knows to be sealed.        *)
Filled(c, ids) ==
  {id \in ListSet(ids) : InUse(c, id) /\ objects_in_use_[c][id].is_sealed}

(* A client uses an object of the store once less: the store keeps it in   *)
(* use, or a Release of it is on its way.                                  *)
LEMMA UnuseKeeps ==
  ASSUME TypeOK, NEW c \in Clients, NEW id \in ObjectIDs, UnuseEffect(c, id),
         c \in connected, LocalOK(c), ReleaseOK(c), CallOK(c), Held(c), Remembered(c),
         InUse(c, id), ~objects_in_use_[c][id].remote, call[c].got = {},
         \A i \in ObjectIDs \ {id} : ~Calling(c, "seal", i),
         \A i \in ObjectIDs : ~Calling(c, "abort", i),
         c \in holders[id], releases[c][id] = 0,
         objects_in_use_[c][id].is_sealed => table[id].state = "SEALED",
         ~objects_in_use_[c][id].is_sealed => table[id].state = "CREATED",
         objects_in_use_[c][id].count = 1 => objects_in_use_[c][id].is_sealed,
         UNCHANGED <<connected, attached, table, holders>>
  PROVE  /\ LocalOK(c)' /\ ReleaseOK(c)' /\ CallOK(c)'
         /\ WaitOK(c)' /\ Held(c)' /\ Remembered(c)'
<1> USE Records
<1>1. objects_in_use_[c][id].count \in Nat /\ objects_in_use_[c][id].count > 0
  BY DEF TypeOK, Entry, InUse
<1>2. c \in attached
  BY DEF TypeOK
<1>3. \A i \in ObjectIDs \ {id} :
        /\ objects_in_use_'[c][i] = objects_in_use_[c][i]
        /\ InUse(c, i)' <=> InUse(c, i)
        /\ releases'[c][i] = releases[c][i]
  BY DEF UnuseEffect, InUse
<1>4. /\ InUse(c, id)' =>
           /\ releases'[c][id] = 0
           /\ objects_in_use_'[c][id].is_sealed = objects_in_use_[c][id].is_sealed
           /\ objects_in_use_'[c][id].remote = objects_in_use_[c][id].remote
      /\ ~InUse(c, id)' => releases'[c][id] = 1 /\ table[id].state = "SEALED"
  BY <1>1 DEF UnuseEffect, InUse
<1>5. /\ \A i \in ObjectIDs : ~Calling(c, "seal", i)' /\ ~Calling(c, "abort", i)'
      /\ call'[c] = NoCall \/ call'[c].op = "delete"
      /\ call'[c].got = {} /\ ~call'[c].done
  BY DEF UnuseEffect, Calling
<1>6. LocalOK(c)'
  <2> SUFFICES ASSUME NEW i \in ObjectIDs, InUse(c, i)', objects_in_use_'[c][i].remote
               PROVE  i \in PeerHas /\ objects_in_use_'[c][i].is_sealed
    BY <1>2 DEF LocalOK
  <2>1. CASE i = id
    BY <1>4, <2>1
  <2>2. CASE i # id
    BY <1>3, <2>2 DEF LocalOK
  <2> QED
    BY <2>1, <2>2
<1>7. ReleaseOK(c)'
  <2> SUFFICES ASSUME NEW i \in ObjectIDs, releases'[c][i] > 0
               PROVE  /\ releases'[c][i] = 1 /\ ~InUse(c, i)'
                      /\ c \in holders[i] /\ table[i].state = "SEALED"
    BY <1>5 DEF ReleaseOK
  <2>1. CASE i = id
    BY <1>4, <2>1
  <2>2. CASE i # id
    BY <1>3, <2>2 DEF ReleaseOK
  <2> QED
    BY <2>1, <2>2
<1>8. CallOK(c)' /\ WaitOK(c)'
  BY <1>5 DEF CallOK, WaitOK
<1>9. Held(c)'
  <2> SUFFICES ASSUME NEW i \in ObjectIDs, InUse(c, i)', ~objects_in_use_'[c][i].remote
               PROVE  /\ c \in holders[i] /\ releases'[c][i] = 0
                      /\ objects_in_use_'[c][i].is_sealed => table[i].state = "SEALED"
                      /\ ~objects_in_use_'[c][i].is_sealed => table[i].state = "CREATED"
    BY <1>5 DEF Held
  <2>1. CASE i = id
    BY <1>4, <2>1
  <2>2. CASE i # id
    BY <1>3, <2>2 DEF Held
  <2> QED
    BY <2>1, <2>2
<1>10. Remembered(c)'
  <2> SUFFICES ASSUME NEW i \in ObjectIDs, c \in holders[i]
               PROVE  InUse(c, i)' \/ releases'[c][i] > 0
    BY DEF Remembered
  <2>1. CASE i = id
    BY <1>4, <2>1
  <2>2. CASE i # id
    BY <1>3, <2>2 DEF Remembered
  <2> QED
    BY <2>1, <2>2
<1> QED
  BY <1>6, <1>7, <1>8, <1>9, <1>10

(* Create only sends a request, as its client waits in no other call.      *)
LEMMA KeepsCreate ==
  ASSUME IInv, NEW c \in Clients, NEW id \in ObjectIDs, Create(c, id)
  PROVE  IInv'
<1> USE Records DEF IInv
<1>1. connected \subseteq attached /\ attached \subseteq Clients
  BY DEF TypeOK
<1>2. /\ LocalOK(c) /\ ReleaseOK(c) /\ CallOK(c) /\ Counted(c)
      /\ c \in connected => WaitOK(c) /\ Held(c) /\ Remembered(c)
  BY DEF ClientOK
<1>3. UNCHANGED <<objects_in_use_, deletion_cache_, connected, handles,
                  releases, table, holders, attached,
                  crashed>>
  BY DEF Create, clientVars, storeVars
<1>4. c \in connected /\ call[c] = NoCall
  BY DEF Create, Ready
<1>5. Requested(c, "create", <<id>>, {})
  <2>1. Send(c, Request("create", <<id>>))
    BY DEF Create
  <2>2. <<id>> \in Seq(ObjectIDs)
    OBVIOUS
  <2> QED
    BY <2>1, <2>2, SendSimple
<1>6. TypeOK'
  BY <1>1, <1>2, <1>3, <1>4, <1>5 DEF TypeOK, Requested
<1>7. StoreInv'
  BY <1>1, <1>2, <1>3, <1>4, <1>5 DEF StoreInv
<1>8. ReleasesAreHeld'
  BY <1>1, <1>2, <1>3, <1>4, <1>5 DEF ReleasesAreHeld
<1>9. \A d \in Clients \ {c} : Unaffected(d)
  BY <1>1, <1>2, <1>3, <1>4, <1>5 DEF Unaffected, Create, TypeOK, Requested
<1>10. ClientOK(c)'
  <2>1. LocalOK(c)'
    BY <1>1, <1>2, <1>3, <1>4, <1>5 DEF LocalOK, InUse, Requested
  <2>2. ReleaseOK(c)'
    BY <1>1, <1>2, <1>3, <1>4, <1>5 DEF ReleaseOK, InUse, Requested
  <2>3. CallOK(c)'
    BY <1>1, <1>2, <1>3, <1>4, <1>5 DEF CallOK, Requested
  <2>4. Counted(c)'
    BY <1>1, <1>2, <1>3, <1>4, <1>5 DEF Counted, OwnReference, InUse,
       Calling, Requested
  <2>5. WaitOK(c)'
    BY <1>1, <1>2, <1>3, <1>4, <1>5 DEF WaitOK, InUse, Requested
  <2>6. Held(c)'
    BY <1>1, <1>2, <1>3, <1>4, <1>5 DEF Held, InUse, Calling, Requested
  <2>7. Remembered(c)'
    BY <1>1, <1>2, <1>3, <1>4, <1>5 DEF Remembered, InUse, Calling,
       Requested
  <2> QED
    BY <2>1, <2>2, <2>3, <2>4, <2>5, <2>6, <2>7 DEF ClientOK
<1> QED
  BY <1>6, <1>7, <1>8, <1>9, <1>10, StepOfOne

(* CreateAndSeal only sends a request.                                     *)
LEMMA KeepsCreateAndSeal ==
  ASSUME IInv, NEW c \in Clients, NEW id \in ObjectIDs, CreateAndSeal(c, id)
  PROVE  IInv'
<1> USE Records DEF IInv
<1>1. connected \subseteq attached /\ attached \subseteq Clients
  BY DEF TypeOK
<1>2. /\ LocalOK(c) /\ ReleaseOK(c) /\ CallOK(c) /\ Counted(c)
      /\ c \in connected => WaitOK(c) /\ Held(c) /\ Remembered(c)
  BY DEF ClientOK
<1>3. UNCHANGED <<objects_in_use_, deletion_cache_, connected, handles,
                  releases, table, holders, attached,
                  crashed>>
  BY DEF CreateAndSeal, clientVars, storeVars
<1>4. c \in connected /\ call[c] = NoCall
  BY DEF CreateAndSeal, Ready
<1>5. Requested(c, "create_and_seal", <<id>>, {})
  <2>1. Send(c, Request("create_and_seal", <<id>>))
    BY DEF CreateAndSeal
  <2>2. <<id>> \in Seq(ObjectIDs)
    OBVIOUS
  <2> QED
    BY <2>1, <2>2, SendSimple
<1>6. TypeOK'
  BY <1>1, <1>2, <1>3, <1>4, <1>5 DEF TypeOK, Requested
<1>7. StoreInv'
  BY <1>1, <1>2, <1>3, <1>4, <1>5 DEF StoreInv
<1>8. ReleasesAreHeld'
  BY <1>1, <1>2, <1>3, <1>4, <1>5 DEF ReleasesAreHeld
<1>9. \A d \in Clients \ {c} : Unaffected(d)
  BY <1>1, <1>2, <1>3, <1>4, <1>5 DEF Unaffected, CreateAndSeal, TypeOK,
     Requested
<1>10. ClientOK(c)'
  <2>1. LocalOK(c)'
    BY <1>1, <1>2, <1>3, <1>4, <1>5 DEF LocalOK, InUse, Requested
  <2>2. ReleaseOK(c)'
    BY <1>1, <1>2, <1>3, <1>4, <1>5 DEF ReleaseOK, InUse, Requested
  <2>3. CallOK(c)'
    BY <1>1, <1>2, <1>3, <1>4, <1>5 DEF CallOK, Requested
  <2>4. Counted(c)'
    BY <1>1, <1>2, <1>3, <1>4, <1>5 DEF Counted, OwnReference, InUse,
       Calling, Requested
  <2>5. WaitOK(c)'
    BY <1>1, <1>2, <1>3, <1>4, <1>5 DEF WaitOK, InUse, Requested
  <2>6. Held(c)'
    BY <1>1, <1>2, <1>3, <1>4, <1>5 DEF Held, InUse, Calling, Requested
  <2>7. Remembered(c)'
    BY <1>1, <1>2, <1>3, <1>4, <1>5 DEF Remembered, InUse, Calling,
       Requested
  <2> QED
    BY <2>1, <2>2, <2>3, <2>4, <2>5, <2>6, <2>7 DEF ClientOK
<1> QED
  BY <1>6, <1>7, <1>8, <1>9, <1>10, StepOfOne

(* Seal marks an object that the client created, which the store keeps as  *)
(* CREATED for it until the request is read.                               *)
LEMMA KeepsSeal ==
  ASSUME IInv, NEW c \in Clients, NEW id \in ObjectIDs, Seal(c, id)
  PROVE  IInv'
<1> USE Records DEF IInv
<1>1. connected \subseteq attached /\ attached \subseteq Clients
  BY DEF TypeOK
<1>2. /\ LocalOK(c) /\ ReleaseOK(c) /\ CallOK(c) /\ Counted(c)
      /\ c \in connected => WaitOK(c) /\ Held(c) /\ Remembered(c)
  BY DEF ClientOK
<1>3. UNCHANGED <<deletion_cache_, connected, handles, releases, table,
                  holders, attached, crashed>>
  BY DEF Seal, clientVars, storeVars
<1>4. c \in connected /\ call[c] = NoCall
  BY DEF Seal, Ready
<1>5. InUse(c, id) /\ ~objects_in_use_[c][id].is_sealed
  BY DEF Seal
<1>6. /\ c \in holders[id] /\ table[id].state = "CREATED"
      /\ ~objects_in_use_[c][id].remote /\ releases[c][id] = 0
  BY <1>2, <1>4, <1>5 DEF LocalOK, Held
<1>7. /\ objects_in_use_' \in [Clients -> [ObjectIDs -> Entry]]
      /\ \A i \in ObjectIDs \ {id} : objects_in_use_'[c][i] = objects_in_use_[c][i]
      /\ objects_in_use_'[c][id].count = objects_in_use_[c][id].count
      /\ objects_in_use_'[c][id].remote = objects_in_use_[c][id].remote
      /\ objects_in_use_'[c][id].is_sealed
  <2>1. objects_in_use_[c][id] \in Entry
    BY DEF TypeOK
  <2>2. [objects_in_use_[c][id] EXCEPT !.is_sealed = TRUE] \in Entry
    BY <2>1 DEF Entry
  <2>3. objects_in_use_' \in [Clients -> [ObjectIDs -> Entry]]
    BY <2>2 DEF Seal, TypeOK
  <2> QED
    BY <2>1, <2>3 DEF Seal, TypeOK, Entry
<1>8. Requested(c, "seal", <<id>>, {})
  <2>1. Send(c, Request("seal", <<id>>))
    BY DEF Seal
  <2>2. <<id>> \in Seq(ObjectIDs)
    OBVIOUS
  <2> QED
    BY <2>1, <2>2, SendSimple
<1>9. TypeOK'
  BY <1>1, <1>2, <1>3, <1>4, <1>5, <1>6, <1>7, <1>8 DEF TypeOK, Requested
<1>10. StoreInv'
  BY <1>1, <1>2, <1>3, <1>4, <1>5, <1>6, <1>7, <1>8 DEF StoreInv
<1>11. ReleasesAreHeld'
  BY <1>1, <1>2, <1>3, <1>4, <1>5, <1>6, <1>7, <1>8 DEF ReleasesAreHeld
<1>12. \A d \in Clients \ {c} : Unaffected(d)
  BY <1>1, <1>2, <1>3, <1>4, <1>5, <1>6, <1>7, <1>8 DEF Unaffected, Seal,
     TypeOK, Requested
<1>13. ClientOK(c)'
  <2>1. LocalOK(c)'
    BY <1>1, <1>2, <1>3, <1>4, <1>5, <1>6, <1>7, <1>8 DEF LocalOK, InUse,
       Requested
  <2>2. ReleaseOK(c)'
    BY <1>1, <1>2, <1>3, <1>4, <1>5, <1>6, <1>7, <1>8 DEF ReleaseOK,
       InUse, Requested
  <2>3. CallOK(c)'
    BY <1>1, <1>2, <1>3, <1>4, <1>5, <1>6, <1>7, <1>8 DEF CallOK,
       Requested
  <2>4. Counted(c)'
    BY <1>1, <1>2, <1>3, <1>4, <1>5, <1>6, <1>7, <1>8 DEF Counted,
       OwnReference, InUse, Calling, Requested
  <2>5. WaitOK(c)'
    BY <1>1, <1>2, <1>3, <1>4, <1>5, <1>6, <1>7, <1>8 DEF WaitOK, InUse,
       Requested
  <2>6. Held(c)'
    BY <1>1, <1>2, <1>3, <1>4, <1>5, <1>6, <1>7, <1>8 DEF Held, InUse,
       Calling, Requested
  <2>7. Remembered(c)'
    BY <1>1, <1>2, <1>3, <1>4, <1>5, <1>6, <1>7, <1>8 DEF Remembered,
       InUse, Calling, Requested
  <2> QED
    BY <2>1, <2>2, <2>3, <2>4, <2>5, <2>6, <2>7 DEF ClientOK
<1> QED
  BY <1>9, <1>10, <1>11, <1>12, <1>13, StepOfOne

(* Abort forgets an object of which only the library's own reference is    *)
(* left, and which the store keeps as CREATED for the client.              *)
LEMMA KeepsAbort ==
  ASSUME IInv, NEW c \in Clients, NEW id \in ObjectIDs, Abort(c, id)
  PROVE  IInv'
<1> USE Records DEF IInv
<1>1. connected \subseteq attached /\ attached \subseteq Clients
  BY DEF TypeOK
<1>2. /\ LocalOK(c) /\ ReleaseOK(c) /\ CallOK(c) /\ Counted(c)
      /\ c \in connected => WaitOK(c) /\ Held(c) /\ Remembered(c)
  BY DEF ClientOK
<1>3. UNCHANGED <<deletion_cache_, connected, handles, releases, table,
                  holders, attached, crashed>>
  BY DEF Abort, clientVars, storeVars
<1>4. c \in connected /\ call[c] = NoCall
  BY DEF Abort, Ready
<1>5. objects_in_use_[c][id].count = 1 /\ ~objects_in_use_[c][id].is_sealed
  BY DEF Abort
<1>6. /\ c \in holders[id] /\ table[id].state = "CREATED"
      /\ handles[c][id] = 0 /\ releases[c][id] = 0
  <2>1. InUse(c, id)
    BY <1>5 DEF InUse
  <2>2. handles[c][id] = 0
    <3>1. handles[c][id] \in Nat
      BY DEF TypeOK
    <3> QED
      BY <1>2, <1>5, <2>1, <3>1 DEF Counted, OwnReference
  <2> QED
    BY <1>2, <1>4, <1>5, <2>1, <2>2 DEF LocalOK, Held
<1>7. /\ objects_in_use_' \in [Clients -> [ObjectIDs -> Entry]]
      /\ objects_in_use_'[c][id].count = 0
      /\ \A i \in ObjectIDs \ {id} : objects_in_use_'[c][i] = objects_in_use_[c][i]
  BY DEF Abort, TypeOK
<1>8. Requested(c, "abort", <<id>>, {})
  <2>1. Send(c, Request("abort", <<id>>))
    BY DEF Abort
  <2>2. <<id>> \in Seq(ObjectIDs)
    OBVIOUS
  <2> QED
    BY <2>1, <2>2, SendSimple
<1>9. TypeOK'
  BY <1>1, <1>2, <1>3, <1>4, <1>5, <1>6, <1>7, <1>8 DEF TypeOK, Requested
<1>10. StoreInv'
  BY <1>1, <1>2, <1>3, <1>4, <1>5, <1>6, <1>7, <1>8 DEF StoreInv
<1>11. ReleasesAreHeld'
  BY <1>1, <1>2, <1>3, <1>4, <1>5, <1>6, <1>7, <1>8 DEF ReleasesAreHeld
<1>12. \A d \in Clients \ {c} : Unaffected(d)
  BY <1>1, <1>2, <1>3, <1>4, <1>5, <1>6, <1>7, <1>8 DEF Unaffected, Abort,
     TypeOK, Requested
<1>13. ClientOK(c)'
  <2>1. LocalOK(c)'
    BY <1>1, <1>2, <1>3, <1>4, <1>5, <1>6, <1>7, <1>8 DEF LocalOK, InUse,
       Requested
  <2>2. ReleaseOK(c)'
    BY <1>1, <1>2, <1>3, <1>4, <1>5, <1>6, <1>7, <1>8 DEF ReleaseOK,
       InUse, Requested
  <2>3. CallOK(c)'
    BY <1>1, <1>2, <1>3, <1>4, <1>5, <1>6, <1>7, <1>8 DEF CallOK,
       Requested
  <2>4. Counted(c)'
    BY <1>1, <1>2, <1>3, <1>4, <1>5, <1>6, <1>7, <1>8 DEF Counted,
       OwnReference, InUse, Calling, Requested
  <2>5. WaitOK(c)'
    BY <1>1, <1>2, <1>3, <1>4, <1>5, <1>6, <1>7, <1>8 DEF WaitOK, InUse,
       Requested
  <2>6. Held(c)'
    BY <1>1, <1>2, <1>3, <1>4, <1>5, <1>6, <1>7, <1>8 DEF Held, InUse,
       Calling, Requested
  <2>7. Remembered(c)'
    BY <1>1, <1>2, <1>3, <1>4, <1>5, <1>6, <1>7, <1>8 DEF Remembered,
       InUse, Calling, Requested
  <2> QED
    BY <2>1, <2>2, <2>3, <2>4, <2>5, <2>6, <2>7 DEF ClientOK
<1> QED
  BY <1>9, <1>10, <1>11, <1>12, <1>13, StepOfOne

(* A Release by the program: its count says that the client uses the       *)
(* object, and the last use is of a sealed object.                         *)
LEMMA KeepsRelease ==
  ASSUME IInv, ~ReleaseRemote, NEW c \in Clients, NEW id \in ObjectIDs, Release(c, id)
  PROVE  IInv'
<1> USE Records DEF IInv
<1>1. connected \subseteq attached /\ attached \subseteq Clients
  BY DEF TypeOK
<1>2. /\ LocalOK(c) /\ ReleaseOK(c) /\ CallOK(c) /\ Counted(c)
      /\ c \in connected => WaitOK(c) /\ Held(c) /\ Remembered(c)
  BY DEF ClientOK
<1>3. UNCHANGED <<connected, table, holders, attached, crashed>>
  BY DEF Release, clientVars, storeVars
<1>4. c \in connected /\ call[c] = NoCall
  BY DEF Release, Ready
<1>5. handles[c][id] > 0 /\ ~objects_in_use_[c][id].remote
  BY DEF Release
<1>6. objects_in_use_[c][id].count \in Nat /\ handles[c][id] \in Nat
  BY DEF TypeOK, Entry
<1>7. /\ InUse(c, id)
      /\ objects_in_use_[c][id].count = 1 => objects_in_use_[c][id].is_sealed
  BY <1>2, <1>5, <1>6 DEF Counted, OwnReference, InUse
<1>8. /\ c \in holders[id] /\ releases[c][id] = 0
      /\ objects_in_use_[c][id].is_sealed => table[id].state = "SEALED"
      /\ ~objects_in_use_[c][id].is_sealed => table[id].state = "CREATED"
  BY <1>2, <1>4, <1>5, <1>7 DEF Held, Calling
<1>9. UnuseEffect(c, id)
  BY <1>7, UnuseFacts DEF Release
<1>10. /\ handles' \in [Clients -> [ObjectIDs -> Nat]]
       /\ handles'[c][id] = handles[c][id] - 1
       /\ \A i \in ObjectIDs \ {id} : handles'[c][i] = handles[c][i]
  BY <1>5 DEF Release, TypeOK
<1>11. TypeOK'
  BY <1>1, <1>2, <1>3, <1>4, <1>5, <1>6, <1>7, <1>8, <1>9, <1>10 DEF
     TypeOK, UnuseEffect
<1>12. StoreInv'
  BY <1>1, <1>2, <1>3, <1>4, <1>5, <1>6, <1>7, <1>8, <1>9, <1>10 DEF
     StoreInv
<1>13. ReleasesAreHeld'
  BY <1>1, <1>2, <1>3, <1>4, <1>5, <1>6, <1>7, <1>8, <1>9, <1>10 DEF
     ReleasesAreHeld
<1>14. \A d \in Clients \ {c} : Unaffected(d)
  BY <1>1, <1>2, <1>3, <1>4, <1>5, <1>6, <1>7, <1>8, <1>9, <1>10 DEF
     Unaffected, Release, TypeOK, UnuseEffect
<1>15. ClientOK(c)'
  <2>1. /\ LocalOK(c)' /\ ReleaseOK(c)' /\ CallOK(c)'
        /\ WaitOK(c)' /\ Held(c)' /\ Remembered(c)'
    BY <1>2, <1>3, <1>4, <1>5, <1>7, <1>8, <1>9, UnuseKeeps DEF Calling
  <2>2. Counted(c)'
    <3> SUFFICES ASSUME NEW i \in ObjectIDs
                 PROVE  objects_in_use_'[c][i].count = handles'[c][i] + OwnReference(c, i)'
      BY DEF Counted
    <3>1. ~Calling(c, "seal", i) /\ ~Calling(c, "seal", i)'
      BY <1>4, <1>9 DEF Calling, UnuseEffect
    <3>2. CASE i = id
      <4>1. OwnReference(c, id) = IF objects_in_use_[c][id].is_sealed THEN 0 ELSE 1
        BY <1>7, <3>1, <3>2 DEF OwnReference
      <4>2. objects_in_use_[c][id].count = handles[c][id] + OwnReference(c, id)
        BY <1>2 DEF Counted
      <4>3. objects_in_use_[c][id].count > 1 => OwnReference(c, id)' = OwnReference(c, id)
        BY <1>6, <1>9, <3>1, <3>2, <4>1 DEF OwnReference, InUse, UnuseEffect
      <4>4. objects_in_use_[c][id].count = 1 =>
              OwnReference(c, id)' = 0 /\ OwnReference(c, id) = 0
        BY <1>6, <1>7, <1>9, <4>1 DEF OwnReference, InUse, UnuseEffect
      <4>5. objects_in_use_'[c][id].count = objects_in_use_[c][id].count - 1
        BY <1>9 DEF UnuseEffect
      <4> QED
        BY <1>5, <1>6, <1>7, <1>10, <3>2, <4>1, <4>2, <4>3, <4>4, <4>5 DEF InUse
    <3>3. CASE i # id
      <4>1. objects_in_use_'[c][i] = objects_in_use_[c][i]
        BY <1>9, <3>3 DEF UnuseEffect
      <4>2. OwnReference(c, i)' = OwnReference(c, i)
        BY <3>1, <3>3, <4>1 DEF OwnReference, InUse
      <4> QED
        BY <1>2, <1>10, <3>3, <4>1, <4>2 DEF Counted
    <3> QED
      BY <3>2, <3>3
  <2> QED
    BY <2>1, <2>2 DEF ClientOK
<1> QED
  BY <1>11, <1>12, <1>13, <1>14, <1>15, StepOfOne

(* The reply to Seal: the reference of the library is dropped; the store   *)
(* has sealed the object.                                                  *)
LEMMA KeepsSealReply ==
  ASSUME IInv, NEW c \in Clients, SealReply(c)
  PROVE  IInv'
<1> USE Records DEF IInv
<1>1. connected \subseteq attached /\ attached \subseteq Clients
  BY DEF TypeOK
<1>2. /\ LocalOK(c) /\ ReleaseOK(c) /\ CallOK(c) /\ Counted(c)
      /\ c \in connected => WaitOK(c) /\ Held(c) /\ Remembered(c)
  BY DEF ClientOK
<1>3. UNCHANGED <<connected, handles, table, holders, attached, crashed>>
  BY DEF SealReply, clientVars, storeVars
<1>4. c \in connected /\ call[c].op = "seal" /\ call[c].done
  BY DEF SealReply, Replied
<1>5. PICK id \in ObjectIDs : call[c].ids = <<id>>
  BY <1>2, <1>4 DEF CallOK
<1>6. Head(call[c].ids) = id
  BY <1>5
<1>7. objects_in_use_[c][id].count \in Nat /\ handles[c][id] \in Nat
  BY DEF TypeOK, Entry
<1>8. /\ InUse(c, id) /\ call[c].got = {}
      /\ objects_in_use_[c][id].is_sealed /\ ~objects_in_use_[c][id].remote
  BY <1>2, <1>4, <1>6 DEF WaitOK, CallOK
<1>9. /\ c \in holders[id] /\ releases[c][id] = 0
      /\ table[id].state = "SEALED"
  BY <1>2, <1>4, <1>8 DEF Held
<1>10. UnuseEffect(c, id)
  BY <1>6, <1>8, UnuseFacts DEF SealReply
<1>11. TypeOK'
  BY <1>1, <1>2, <1>3, <1>4, <1>5, <1>6, <1>7, <1>8, <1>9, <1>10 DEF
     TypeOK, UnuseEffect
<1>12. StoreInv'
  BY <1>1, <1>2, <1>3, <1>4, <1>5, <1>6, <1>7, <1>8, <1>9, <1>10 DEF
     StoreInv
<1>13. ReleasesAreHeld'
  BY <1>1, <1>2, <1>3, <1>4, <1>5, <1>6, <1>7, <1>8, <1>9, <1>10 DEF
     ReleasesAreHeld
<1>14. \A d \in Clients \ {c} : Unaffected(d)
  BY <1>1, <1>2, <1>3, <1>4, <1>5, <1>6, <1>7, <1>8, <1>9, <1>10 DEF
     Unaffected, SealReply, TypeOK, UnuseEffect
<1>15. ClientOK(c)'
  <2>1. /\ LocalOK(c)' /\ ReleaseOK(c)' /\ CallOK(c)'
        /\ WaitOK(c)' /\ Held(c)' /\ Remembered(c)'
    BY <1>2, <1>3, <1>4, <1>6, <1>8, <1>9, <1>10, UnuseKeeps DEF Calling
  <2>2. Counted(c)'
    <3> SUFFICES ASSUME NEW i \in ObjectIDs
                 PROVE  objects_in_use_'[c][i].count = handles[c][i] + OwnReference(c, i)'
      BY <1>3 DEF Counted
    <3>1. /\ ~Calling(c, "seal", i)'
          /\ Calling(c, "seal", i) <=> i = id
      BY <1>4, <1>6, <1>10 DEF Calling, UnuseEffect
    <3>2. CASE i = id
      <4>1. OwnReference(c, id) = 1
        BY <1>8, <3>1, <3>2 DEF OwnReference
      <4>2. objects_in_use_[c][id].count = handles[c][id] + OwnReference(c, id)
        BY <1>2 DEF Counted
      <4>3. OwnReference(c, id)' = 0
        <5>1. CASE objects_in_use_[c][id].count > 1
          <6>1. objects_in_use_'[c][id].is_sealed
            BY <1>8, <1>10, <5>1 DEF UnuseEffect
          <6> QED
            BY <3>1, <3>2, <6>1 DEF OwnReference
        <5>2. CASE ~(objects_in_use_[c][id].count > 1)
          <6>1. ~InUse(c, id)'
            BY <1>7, <1>10, <5>2 DEF UnuseEffect, InUse
          <6> QED
            BY <6>1 DEF OwnReference
        <5> QED
          BY <5>1, <5>2
      <4>4. objects_in_use_'[c][id].count = objects_in_use_[c][id].count - 1
        BY <1>10 DEF UnuseEffect
      <4> QED
        BY <1>7, <3>2, <4>1, <4>2, <4>3, <4>4
    <3>3. CASE i # id
      <4>1. objects_in_use_'[c][i] = objects_in_use_[c][i]
        BY <1>10, <3>3 DEF UnuseEffect
      <4>2. OwnReference(c, i)' = OwnReference(c, i)
        BY <3>1, <3>3, <4>1 DEF OwnReference, InUse
      <4> QED
        BY <1>2, <3>3, <4>1, <4>2 DEF Counted
    <3> QED
      BY <3>2, <3>3
  <2> QED
    BY <2>1, <2>2 DEF ClientOK
<1> QED
  BY <1>11, <1>12, <1>13, <1>14, <1>15, StepOfOne

(* The replies that change nothing: after Abort the store no longer keeps  *)
(* the object for the client.                                              *)
LEMMA KeepsReturn ==
  ASSUME IInv, NEW c \in Clients, Return(c)
  PROVE  IInv'
<1> USE Records DEF IInv
<1>1. connected \subseteq attached /\ attached \subseteq Clients
  BY DEF TypeOK
<1>2. /\ LocalOK(c) /\ ReleaseOK(c) /\ CallOK(c) /\ Counted(c)
      /\ c \in connected => WaitOK(c) /\ Held(c) /\ Remembered(c)
  BY DEF ClientOK
<1>3. UNCHANGED <<objects_in_use_, deletion_cache_, connected, handles,
                  releases, table, holders, attached,
                  crashed>>
  BY DEF Return, clientVars, storeVars
<1>4. /\ c \in connected /\ call[c].done
      /\ call[c].op \in {"create_and_seal", "abort", "delete"}
  BY DEF Return, Replied
<1>5. Returned(c)
  BY SendNothing DEF Return
<1>6. call[c].got = {} /\ \A i : Calling(c, "abort", i) => c \notin holders[i]
  BY <1>2, <1>4 DEF CallOK, Calling
<1>7. TypeOK'
  BY <1>1, <1>2, <1>3, <1>4, <1>5, <1>6 DEF TypeOK, Returned
<1>8. StoreInv'
  BY <1>1, <1>2, <1>3, <1>4, <1>5, <1>6 DEF StoreInv
<1>9. ReleasesAreHeld'
  BY <1>1, <1>2, <1>3, <1>4, <1>5, <1>6 DEF ReleasesAreHeld
<1>10. \A d \in Clients \ {c} : Unaffected(d)
  BY <1>1, <1>2, <1>3, <1>4, <1>5, <1>6 DEF Unaffected, Return, TypeOK,
     Returned
<1>11. ClientOK(c)'
  <2>1. LocalOK(c)'
    BY <1>1, <1>2, <1>3, <1>4, <1>5, <1>6 DEF LocalOK, InUse, Returned
  <2>2. ReleaseOK(c)'
    BY <1>1, <1>2, <1>3, <1>4, <1>5, <1>6 DEF ReleaseOK, InUse, Returned
  <2>3. CallOK(c)'
    BY <1>1, <1>2, <1>3, <1>4, <1>5, <1>6 DEF CallOK, Returned
  <2>4. Counted(c)'
    BY <1>1, <1>2, <1>3, <1>4, <1>5, <1>6 DEF Counted, OwnReference,
       InUse, Calling, Returned
  <2>5. WaitOK(c)'
    BY <1>1, <1>2, <1>3, <1>4, <1>5, <1>6 DEF WaitOK, InUse, Returned
  <2>6. Held(c)'
    BY <1>1, <1>2, <1>3, <1>4, <1>5, <1>6 DEF Held, InUse, Calling,
       Returned
  <2>7. Remembered(c)'
    BY <1>1, <1>2, <1>3, <1>4, <1>5, <1>6 DEF Remembered, InUse, Calling,
       Returned
  <2> QED
    BY <2>1, <2>2, <2>3, <2>4, <2>5, <2>6, <2>7 DEF ClientOK
<1> QED
  BY <1>7, <1>8, <1>9, <1>10, <1>11, StepOfOne

(* Delete sends a request or remembers the objects in use.                 *)
LEMMA KeepsDelete ==
  ASSUME IInv, NEW c \in Clients, NEW ids \in DeleteLists, Delete(c, ids)
  PROVE  IInv'
<1> USE Records DEF IInv
<1>1. connected \subseteq attached /\ attached \subseteq Clients
  BY DEF TypeOK
<1>2. /\ LocalOK(c) /\ ReleaseOK(c) /\ CallOK(c) /\ Counted(c)
      /\ c \in connected => WaitOK(c) /\ Held(c) /\ Remembered(c)
  BY DEF ClientOK
<1>3. UNCHANGED <<objects_in_use_, connected, handles, releases, table,
                  holders, attached, crashed>>
  BY DEF Delete, clientVars, storeVars
<1>4. c \in connected /\ call[c] = NoCall
  BY DEF Delete, Ready
<1>5. deletion_cache_' \in [Clients -> SUBSET ObjectIDs]
  <2>1. ListSet(ids) \subseteq ObjectIDs
    BY ClientListsAssumption, OccurrencesFacts
  <2> QED
    BY <2>1 DEF Delete, TypeOK
<1>6. Returned(c) \/ \E filled : Requested(c, "delete", ids, filled)
  <2> DEFINE inUse == {id \in ListSet(ids) : InUse(c, id)}
  <2>1. ids \in Seq(ObjectIDs) /\ inUse \subseteq ObjectIDs
    BY ClientListsAssumption, OccurrencesFacts
  <2>2. CASE inUse = ListSet(ids)
    BY <2>2, SendNothing DEF Delete
  <2>3. CASE inUse # ListSet(ids)
    <3>1. Send(c, [Request("delete", ids) EXCEPT !.filled = inUse])
      BY <2>3 DEF Delete
    <3> DEFINE r == [Request("delete", ids) EXCEPT !.filled = inUse]
    <3>2. /\ r \in Call /\ r.op = "delete" /\ r.ids = ids /\ r.filled = inUse
          /\ r.got = {} /\ ~r.done
      BY <2>1 DEF Request, NoCall, Call
    <3> HIDE DEF r, inUse
    <3>3. Requested(c, r.op, r.ids, r.filled)
      BY <3>1, <3>2, SendRequest DEF r
    <3> QED
      BY <3>2, <3>3
  <2> QED
    BY <2>2, <2>3
<1>7. TypeOK'
  BY <1>1, <1>2, <1>3, <1>4, <1>5, <1>6 DEF TypeOK, Requested, Returned
<1>8. StoreInv'
  BY <1>1, <1>2, <1>3, <1>4, <1>5, <1>6 DEF StoreInv
<1>9. ReleasesAreHeld'
  BY <1>1, <1>2, <1>3, <1>4, <1>5, <1>6 DEF ReleasesAreHeld
<1>10. \A d \in Clients \ {c} : Unaffected(d)
  BY <1>1, <1>2, <1>3, <1>4, <1>5, <1>6 DEF Unaffected, Delete, TypeOK,
     Requested, Returned
<1>11. ClientOK(c)'
  <2>1. LocalOK(c)'
    BY <1>1, <1>2, <1>3, <1>4, <1>5, <1>6 DEF LocalOK, InUse, Requested,
       Returned
  <2>2. ReleaseOK(c)'
    BY <1>1, <1>2, <1>3, <1>4, <1>5, <1>6 DEF ReleaseOK, InUse,
       Requested, Returned
  <2>3. CallOK(c)'
    BY <1>1, <1>2, <1>3, <1>4, <1>5, <1>6 DEF CallOK, Requested, Returned
  <2>4. Counted(c)'
    BY <1>1, <1>2, <1>3, <1>4, <1>5, <1>6 DEF Counted, OwnReference,
       InUse, Calling, Requested, Returned
  <2>5. WaitOK(c)'
    BY <1>1, <1>2, <1>3, <1>4, <1>5, <1>6 DEF WaitOK, InUse, Requested,
       Returned
  <2>6. Held(c)'
    BY <1>1, <1>2, <1>3, <1>4, <1>5, <1>6 DEF Held, InUse, Calling,
       Requested, Returned
  <2>7. Remembered(c)'
    BY <1>1, <1>2, <1>3, <1>4, <1>5, <1>6 DEF Remembered, InUse, Calling,
       Requested, Returned
  <2> QED
    BY <2>1, <2>2, <2>3, <2>4, <2>5, <2>6, <2>7 DEF ClientOK
<1> QED
  BY <1>7, <1>8, <1>9, <1>10, <1>11, StepOfOne

(* Get takes what is in use and sealed, each as often as the list names    *)
(* it, and asks for the list when that is not all.                         *)
LEMMA KeepsGet ==
  ASSUME IInv, NEW c \in Clients, NEW ids \in GetLists, NEW forever \in BOOLEAN, 
         Get(c, ids, forever)
  PROVE  IInv'
<1> USE Records DEF IInv
<1>1. connected \subseteq attached /\ attached \subseteq Clients
  BY DEF TypeOK
<1>2. /\ LocalOK(c) /\ ReleaseOK(c) /\ CallOK(c) /\ Counted(c)
      /\ c \in connected => WaitOK(c) /\ Held(c) /\ Remembered(c)
  BY DEF ClientOK
<1>3. UNCHANGED <<deletion_cache_, connected, releases, table, holders,
                  attached, crashed>>
  BY DEF Get, clientVars, storeVars
<1>4. c \in connected /\ call[c] = NoCall
  BY DEF Get, Ready
<1>5. /\ ids \in Seq(ObjectIDs) /\ ListSet(ids) \subseteq ObjectIDs
      /\ \A i \in ObjectIDs : Occurrences(ids, i) \in Nat
  BY ClientListsAssumption, OccurrencesFacts
<1>6. /\ objects_in_use_' \in [Clients -> [ObjectIDs -> Entry]]
      /\ handles' \in [Clients -> [ObjectIDs -> Nat]]
      /\ \A i \in ObjectIDs \ Filled(c, ids) :
           /\ objects_in_use_'[c][i].count = objects_in_use_[c][i].count
           /\ handles'[c][i] = handles[c][i]
      /\ \A i \in Filled(c, ids) :
           /\ objects_in_use_'[c][i].count = objects_in_use_[c][i].count + Occurrences(ids, i)
           /\ handles'[c][i] = handles[c][i] + Occurrences(ids, i)
      /\ \A i \in ObjectIDs :
           /\ objects_in_use_'[c][i].is_sealed = objects_in_use_[c][i].is_sealed
           /\ objects_in_use_'[c][i].remote = objects_in_use_[c][i].remote
  <2> DEFINE Taken(i) == IF i \in Filled(c, ids) THEN Occurrences(ids, i) ELSE 0
  <2>1. \A i \in ObjectIDs : Taken(i) \in Nat
    BY <1>5
  <2>2. \A i \in ObjectIDs : objects_in_use_[c][i] \in Entry /\ handles[c][i] \in Nat
    BY DEF TypeOK
  <2>3. /\ objects_in_use_' = [objects_in_use_ EXCEPT ![c] =
             [i \in ObjectIDs |-> [objects_in_use_[c][i] EXCEPT !.count = @ + Taken(i)]]]
        /\ handles' = [handles EXCEPT ![c] = [i \in ObjectIDs |-> handles[c][i] + Taken(i)]]
    BY DEF Get, Filled
  <2> HIDE DEF Taken
  <2>4. \A i \in ObjectIDs : [objects_in_use_[c][i] EXCEPT !.count = @ + Taken(i)] \in Entry
    BY <2>1, <2>2 DEF Entry
  <2>5. /\ objects_in_use_' \in [Clients -> [ObjectIDs -> Entry]]
        /\ handles' \in [Clients -> [ObjectIDs -> Nat]]
    BY <2>1, <2>2, <2>3, <2>4 DEF TypeOK
  <2>6. \A i \in ObjectIDs :
          /\ objects_in_use_'[c][i].count = objects_in_use_[c][i].count + Taken(i)
          /\ objects_in_use_'[c][i].is_sealed = objects_in_use_[c][i].is_sealed
          /\ objects_in_use_'[c][i].remote = objects_in_use_[c][i].remote
          /\ handles'[c][i] = handles[c][i] + Taken(i)
    BY <2>2, <2>3 DEF TypeOK, Entry
  <2>7. \A i \in ObjectIDs : objects_in_use_[c][i].count \in Nat
    BY <2>2 DEF Entry
  <2>8. Filled(c, ids) \subseteq ObjectIDs
    BY <1>5 DEF Filled
  <2> QED
    BY <2>2, <2>5, <2>6, <2>7, <2>8 DEF Taken
<1>7. \A i \in ObjectIDs : InUse(c, i)' <=> InUse(c, i)
  <2>1. \A i \in ObjectIDs : objects_in_use_[c][i].count \in Nat
    BY DEF TypeOK, Entry
  <2>2. \A i \in Filled(c, ids) : i \in ObjectIDs /\ InUse(c, i)
    BY <1>5 DEF Filled
  <2> QED
    BY <1>5, <1>6, <2>1, <2>2 DEF InUse
<1>8. Returned(c) \/ Requested(c, "get", ids, Filled(c, ids))
  <2>1. CASE Filled(c, ids) = ListSet(ids)
    BY <2>1, SendNothing DEF Get, Filled
  <2>2. CASE Filled(c, ids) # ListSet(ids)
    <3> DEFINE r == [Request("get", ids) EXCEPT !.filled = Filled(c, ids),
                                                !.forever = forever]
    <3>1. Send(c, r)
      BY <2>2 DEF Get, Filled
    <3>2. Filled(c, ids) \subseteq ObjectIDs
      BY <1>5 DEF Filled
    <3>3. /\ r \in Call /\ r.op = "get" /\ r.ids = ids /\ r.filled = Filled(c, ids)
          /\ r.got = {} /\ ~r.done
      BY <1>5, <3>2 DEF Request, NoCall, Call
    <3> HIDE DEF r
    <3>4. Requested(c, r.op, r.ids, r.filled)
      BY <3>1, <3>3, SendRequest
    <3> QED
      BY <3>3, <3>4
  <2> QED
    BY <2>1, <2>2
<1>9. TypeOK'
  BY <1>1, <1>2, <1>3, <1>4, <1>5, <1>6, <1>7, <1>8 DEF TypeOK, Requested,
     Returned
<1>10. StoreInv'
  BY <1>1, <1>2, <1>3, <1>4, <1>5, <1>6, <1>7, <1>8 DEF StoreInv
<1>11. ReleasesAreHeld'
  BY <1>1, <1>2, <1>3, <1>4, <1>5, <1>6, <1>7, <1>8 DEF ReleasesAreHeld
<1>12. \A d \in Clients \ {c} : Unaffected(d)
  BY <1>1, <1>2, <1>3, <1>4, <1>5, <1>6, <1>7, <1>8 DEF Unaffected, Get,
     TypeOK, Requested, Returned
<1>13. ClientOK(c)'
  <2>1. LocalOK(c)'
    BY <1>1, <1>2, <1>3, <1>4, <1>5, <1>6, <1>7, <1>8 DEF LocalOK, InUse,
       Requested, Returned
  <2>2. ReleaseOK(c)'
    BY <1>1, <1>2, <1>3, <1>4, <1>5, <1>6, <1>7, <1>8 DEF ReleaseOK,
       InUse, Requested, Returned
  <2>3. CallOK(c)'
    BY <1>1, <1>2, <1>3, <1>4, <1>5, <1>6, <1>7, <1>8 DEF CallOK,
       Requested, Returned
  <2>4. Counted(c)'
    <3> SUFFICES ASSUME NEW i \in ObjectIDs
                 PROVE  objects_in_use_'[c][i].count = handles'[c][i] + OwnReference(c, i)'
      BY DEF Counted
    <3>1. OwnReference(c, i)' = OwnReference(c, i)
      BY <1>4, <1>6, <1>7, <1>8 DEF OwnReference, Calling, Requested, Returned
    <3>2. objects_in_use_[c][i].count = handles[c][i] + OwnReference(c, i)
      BY <1>2 DEF Counted
    <3>3. handles[c][i] \in Nat /\ OwnReference(c, i) \in Nat
      BY DEF TypeOK, OwnReference
    <3>4. CASE i \in Filled(c, ids)
      <4>1. /\ objects_in_use_'[c][i].count =
                 objects_in_use_[c][i].count + Occurrences(ids, i)
            /\ handles'[c][i] = handles[c][i] + Occurrences(ids, i)
            /\ Occurrences(ids, i) \in Nat
        BY <1>5, <1>6, <3>4
      <4> QED
        BY <3>1, <3>2, <3>3, <4>1
    <3>5. CASE i \notin Filled(c, ids)
      BY <1>6, <3>1, <3>2, <3>5
    <3> QED
      BY <3>4, <3>5
  <2>5. WaitOK(c)'
    <3> SUFFICES ASSUME call'[c].op = "get", NEW i \in ListSet(call'[c].ids)
                 PROVE  i \in call'[c].filled <=>
                          InUse(c, i)' /\ objects_in_use_'[c][i].is_sealed
      BY <1>8 DEF WaitOK, Requested, Returned
    <3>1. i \in ListSet(ids) /\ i \in ObjectIDs /\ call'[c].filled = Filled(c, ids)
      BY <1>5, <1>8 DEF Requested, Returned
    <3>2. i \in Filled(c, ids) <=> InUse(c, i) /\ objects_in_use_[c][i].is_sealed
      BY <3>1 DEF Filled
    <3> QED
      BY <1>6, <1>7, <3>1, <3>2
  <2>6. Held(c)'
    <3> SUFFICES ASSUME NEW i \in ObjectIDs, InUse(c, i), ~objects_in_use_[c][i].remote
                 PROVE  /\ c \in holders[i] /\ releases[c][i] = 0
                        /\ table[i].state =
                             IF objects_in_use_[c][i].is_sealed THEN "SEALED" ELSE "CREATED"
      <4>1. \A i \in ObjectIDs : ~Calling(c, "seal", i)'
        BY <1>8 DEF Calling, Requested, Returned
      <4> QED
        BY <1>3, <1>6, <1>7, <4>1 DEF Held
    <3> QED
      BY <1>2, <1>4 DEF Held, Calling
  <2>7. Remembered(c)'
    BY <1>1, <1>2, <1>3, <1>4, <1>5, <1>6, <1>7, <1>8 DEF Remembered,
       InUse, Calling, Requested, Returned
  <2> QED
    BY <2>1, <2>2, <2>3, <2>4, <2>5, <2>6, <2>7 DEF ClientOK
<1> QED
  BY <1>9, <1>10, <1>11, <1>12, <1>13, StepOfOne

(* A client that connects has left nothing at the store.                   *)
LEMMA KeepsConnect ==
  ASSUME IInv, NEW c \in Clients, Connect(c)
  PROVE  IInv'
<1> USE Records DEF IInv
<1>1. connected \subseteq attached /\ attached \subseteq Clients
  BY DEF TypeOK
<1>2. /\ LocalOK(c) /\ ReleaseOK(c) /\ CallOK(c) /\ Counted(c)
      /\ c \in connected => WaitOK(c) /\ Held(c) /\ Remembered(c)
  BY DEF ClientOK
<1>3. UNCHANGED <<objects_in_use_, deletion_cache_, handles, call, releases,
                  table, holders, crashed>>
  BY DEF Connect, clientVars, storeVars
<1>4. c \notin attached /\ c \notin connected
  BY <1>1 DEF Connect
<1>5. /\ call[c] = NoCall
      /\ \A i \in ObjectIDs : /\ ~InUse(c, i) /\ handles[c][i] = 0
                               /\ releases[c][i] = 0 /\ c \notin holders[i]
  BY <1>2, <1>4 DEF LocalOK, StoreInv
<1>6. attached' = attached \cup {c} /\ connected' = connected \cup {c}
  BY DEF Connect
<1>7. TypeOK'
  BY <1>1, <1>2, <1>3, <1>4, <1>5, <1>6 DEF TypeOK
<1>8. StoreInv'
  BY <1>1, <1>2, <1>3, <1>4, <1>5, <1>6 DEF StoreInv
<1>9. ReleasesAreHeld'
  BY <1>1, <1>2, <1>3, <1>4, <1>5, <1>6 DEF ReleasesAreHeld
<1>10. \A d \in Clients \ {c} : Unaffected(d)
  BY <1>1, <1>2, <1>3, <1>4, <1>5, <1>6 DEF Unaffected, Connect, TypeOK
<1>11. ClientOK(c)'
  <2>1. LocalOK(c)'
    BY <1>1, <1>2, <1>3, <1>4, <1>5, <1>6 DEF LocalOK, InUse
  <2>2. ReleaseOK(c)'
    BY <1>1, <1>2, <1>3, <1>4, <1>5, <1>6 DEF ReleaseOK, InUse
  <2>3. CallOK(c)'
    BY <1>1, <1>2, <1>3, <1>4, <1>5, <1>6 DEF CallOK
  <2>4. Counted(c)'
    BY <1>1, <1>2, <1>3, <1>4, <1>5, <1>6 DEF Counted, OwnReference,
       InUse, Calling
  <2>5. WaitOK(c)'
    BY <1>1, <1>2, <1>3, <1>4, <1>5, <1>6 DEF WaitOK, InUse
  <2>6. Held(c)'
    BY <1>1, <1>2, <1>3, <1>4, <1>5, <1>6 DEF Held, InUse, Calling
  <2>7. Remembered(c)'
    BY <1>1, <1>2, <1>3, <1>4, <1>5, <1>6 DEF Remembered, InUse, Calling
  <2> QED
    BY <2>1, <2>2, <2>3, <2>4, <2>5, <2>6, <2>7 DEF ClientOK
<1> QED
  BY <1>7, <1>8, <1>9, <1>10, <1>11, StepOfOne

(* A client that disconnects forgets everything, in a call or not.         *)
LEMMA KeepsDisconnect ==
  ASSUME IInv, NEW c \in Clients, Disconnect(c)
  PROVE  IInv'
<1> USE Records DEF IInv
<1>1. connected \subseteq attached /\ attached \subseteq Clients
  BY DEF TypeOK
<1>2. /\ LocalOK(c) /\ ReleaseOK(c) /\ CallOK(c) /\ Counted(c)
      /\ c \in connected => WaitOK(c) /\ Held(c) /\ Remembered(c)
  BY DEF ClientOK
<1>3. UNCHANGED <<call, releases, table, holders, attached, crashed>>
  BY DEF Disconnect, clientVars, storeVars
<1>4. connected' = connected \ {c} /\ c \in connected
  BY DEF Disconnect
<1>5. /\ objects_in_use_' \in [Clients -> [ObjectIDs -> Entry]]
      /\ handles' \in [Clients -> [ObjectIDs -> Nat]]
      /\ deletion_cache_' \in [Clients -> SUBSET ObjectIDs]
      /\ \A i \in ObjectIDs : objects_in_use_'[c][i].count = 0 /\ handles'[c][i] = 0
  BY DEF Disconnect, TypeOK
<1>6. TypeOK'
  BY <1>1, <1>2, <1>3, <1>4, <1>5 DEF TypeOK
<1>7. StoreInv'
  BY <1>1, <1>2, <1>3, <1>4, <1>5 DEF StoreInv
<1>8. ReleasesAreHeld'
  BY <1>1, <1>2, <1>3, <1>4, <1>5 DEF ReleasesAreHeld
<1>9. \A d \in Clients \ {c} : Unaffected(d)
  BY <1>1, <1>2, <1>3, <1>4, <1>5 DEF Unaffected, Disconnect, TypeOK
<1>10. ClientOK(c)'
  <2>1. LocalOK(c)'
    BY <1>1, <1>2, <1>3, <1>4, <1>5 DEF LocalOK, InUse
  <2>2. ReleaseOK(c)'
    BY <1>1, <1>2, <1>3, <1>4, <1>5 DEF ReleaseOK, InUse
  <2>3. CallOK(c)'
    BY <1>1, <1>2, <1>3, <1>4, <1>5 DEF CallOK
  <2>4. Counted(c)'
    BY <1>1, <1>2, <1>3, <1>4, <1>5 DEF Counted, OwnReference, InUse,
       Calling
  <2> QED
    BY <1>1, <1>2, <1>3, <1>4, <1>5, <2>1, <2>2, <2>3, <2>4 DEF ClientOK
<1> QED
  BY <1>6, <1>7, <1>8, <1>9, <1>10, StepOfOne

(* The store refuses to create: nothing was given.                         *)
LEMMA KeepsStoreRefuses ==
  ASSUME IInv, NEW c \in Clients, StoreRefuses(c)
  PROVE  IInv'
<1> USE Records DEF IInv
<1>1. connected \subseteq attached /\ attached \subseteq Clients
  BY DEF TypeOK
<1>2. /\ LocalOK(c) /\ ReleaseOK(c) /\ CallOK(c) /\ Counted(c)
      /\ c \in connected => WaitOK(c) /\ Held(c) /\ Remembered(c)
  BY DEF ClientOK
<1>3. UNCHANGED <<objects_in_use_, deletion_cache_, connected, handles,
                  releases, table, holders, attached,
                  crashed>>
  BY DEF StoreRefuses, clientVars, storeVars
<1>4. /\ c \in attached /\ call[c].op = "create" /\ ~call[c].done
      /\ \A i \in ObjectIDs : releases[c][i] = 0
  BY DEF StoreRefuses, AtStore
<1>5. Answered(c, call[c].got, TRUE)
  BY SendDone DEF StoreRefuses
<1>6. TypeOK'
  BY <1>1, <1>2, <1>3, <1>4, <1>5 DEF TypeOK, Answered
<1>7. StoreInv'
  BY <1>1, <1>2, <1>3, <1>4, <1>5 DEF StoreInv
<1>8. ReleasesAreHeld'
  BY <1>1, <1>2, <1>3, <1>4, <1>5 DEF ReleasesAreHeld
<1>9. \A d \in Clients \ {c} : Unaffected(d)
  BY <1>1, <1>2, <1>3, <1>4, <1>5 DEF Unaffected, StoreRefuses, TypeOK,
     Answered
<1>10. ClientOK(c)'
  <2>1. LocalOK(c)'
    BY <1>1, <1>2, <1>3, <1>4, <1>5 DEF LocalOK, InUse, Answered
  <2>2. ReleaseOK(c)'
    BY <1>1, <1>2, <1>3, <1>4, <1>5 DEF ReleaseOK, InUse, Answered
  <2>3. CallOK(c)'
    BY <1>1, <1>2, <1>3, <1>4, <1>5 DEF CallOK, Answered
  <2>4. Counted(c)'
    BY <1>1, <1>2, <1>3, <1>4, <1>5 DEF Counted, OwnReference, InUse,
       Calling, Answered
  <2>5. ASSUME c \in connected PROVE WaitOK(c)'
    BY <2>5, <1>1, <1>2, <1>3, <1>4, <1>5 DEF WaitOK, InUse, Answered
  <2>6. ASSUME c \in connected PROVE Held(c)'
    BY <2>6, <1>1, <1>2, <1>3, <1>4, <1>5 DEF Held, InUse, Calling,
       Answered
  <2>7. ASSUME c \in connected PROVE Remembered(c)'
    BY <2>7, <1>1, <1>2, <1>3, <1>4, <1>5 DEF Remembered, InUse, Calling,
       Answered
  <2> QED
    BY <1>3, <2>1, <2>2, <2>3, <2>4, <2>5, <2>6, <2>7 DEF ClientOK
<1> QED
  BY <1>6, <1>7, <1>8, <1>9, <1>10, StepOfOne

(* The store answers a Get with what it has given so far.                  *)
LEMMA KeepsStoreAnswersGet ==
  ASSUME IInv, NEW c \in Clients, StoreAnswersGet(c)
  PROVE  IInv'
<1> USE Records DEF IInv
<1>1. connected \subseteq attached /\ attached \subseteq Clients
  BY DEF TypeOK
<1>2. /\ LocalOK(c) /\ ReleaseOK(c) /\ CallOK(c) /\ Counted(c)
      /\ c \in connected => WaitOK(c) /\ Held(c) /\ Remembered(c)
  BY DEF ClientOK
<1>3. UNCHANGED <<objects_in_use_, deletion_cache_, connected, handles,
                  releases, table, holders, attached,
                  crashed>>
  BY DEF StoreAnswersGet, clientVars, storeVars
<1>4. /\ c \in attached /\ call[c].op = "get" /\ ~call[c].done
      /\ \A i \in ObjectIDs : releases[c][i] = 0
  BY DEF StoreAnswersGet, AtStore
<1>5. Answered(c, call[c].got, TRUE)
  BY SendDone DEF StoreAnswersGet
<1>6. TypeOK'
  BY <1>1, <1>2, <1>3, <1>4, <1>5 DEF TypeOK, Answered
<1>7. StoreInv'
  BY <1>1, <1>2, <1>3, <1>4, <1>5 DEF StoreInv
<1>8. ReleasesAreHeld'
  BY <1>1, <1>2, <1>3, <1>4, <1>5 DEF ReleasesAreHeld
<1>9. \A d \in Clients \ {c} : Unaffected(d)
  BY <1>1, <1>2, <1>3, <1>4, <1>5 DEF Unaffected, StoreAnswersGet, TypeOK,
     Answered
<1>10. ClientOK(c)'
  <2>1. LocalOK(c)'
    BY <1>1, <1>2, <1>3, <1>4, <1>5 DEF LocalOK, InUse, Answered
  <2>2. ReleaseOK(c)'
    BY <1>1, <1>2, <1>3, <1>4, <1>5 DEF ReleaseOK, InUse, Answered
  <2>3. CallOK(c)'
    BY <1>1, <1>2, <1>3, <1>4, <1>5 DEF CallOK, Answered
  <2>4. Counted(c)'
    BY <1>1, <1>2, <1>3, <1>4, <1>5 DEF Counted, OwnReference, InUse,
       Calling, Answered
  <2>5. ASSUME c \in connected PROVE WaitOK(c)'
    BY <2>5, <1>1, <1>2, <1>3, <1>4, <1>5 DEF WaitOK, InUse, Answered
  <2>6. ASSUME c \in connected PROVE Held(c)'
    BY <2>6, <1>1, <1>2, <1>3, <1>4, <1>5 DEF Held, InUse, Calling,
       Answered
  <2>7. ASSUME c \in connected PROVE Remembered(c)'
    BY <2>7, <1>1, <1>2, <1>3, <1>4, <1>5 DEF Remembered, InUse, Calling,
       Answered
  <2> QED
    BY <1>3, <2>1, <2>2, <2>3, <2>4, <2>5, <2>6, <2>7 DEF ClientOK
<1> QED
  BY <1>6, <1>7, <1>8, <1>9, <1>10, StepOfOne

(* The store creates an object, which nobody can use yet.                  *)
LEMMA KeepsStoreCreates ==
  ASSUME IInv, NEW c \in Clients, StoreCreates(c)
  PROVE  IInv'
<1> USE Records DEF IInv
<1>1. connected \subseteq attached /\ attached \subseteq Clients
  BY DEF TypeOK
<1>2. /\ LocalOK(c) /\ ReleaseOK(c) /\ CallOK(c) /\ Counted(c)
      /\ c \in connected => WaitOK(c) /\ Held(c) /\ Remembered(c)
  BY DEF ClientOK
<1>3. UNCHANGED <<objects_in_use_, deletion_cache_, connected, handles,
                  releases, attached, crashed>>
  BY DEF StoreCreates, clientVars, storeVars
<1>4. /\ c \in attached /\ call[c].op = "create" /\ ~call[c].done
      /\ \A i \in ObjectIDs : releases[c][i] = 0
  BY DEF StoreCreates, AtStore
<1>5. PICK id \in ObjectIDs : call[c].ids = <<id>>
  BY <1>2, <1>4 DEF CallOK
<1>6. Head(call[c].ids) = id
  BY <1>5
<1>7. id \notin PeerHas /\ table[id] = Store!Absent
  BY <1>6 DEF StoreCreates, Store!Create
<1>8. holders[id] = {} /\ (c \in connected => ~InUse(c, id))
  BY <1>2, <1>7 DEF StoreInv, LocalOK, Held
<1>9. /\ table' \in [ObjectIDs -> [state : {"ABSENT", "CREATED", "SEALED"}, size : Nat]]
      /\ holders' \in [ObjectIDs -> SUBSET Clients]
      /\ holders'[id] = {c} /\ table'[id].state = "CREATED"
      /\ \A i \in ObjectIDs \ {id} : holders'[i] = holders[i] /\ table'[i] = table[i]
  BY <1>6 DEF StoreCreates, Store!Create, Sizes, TypeOK
<1>10. Answered(c, {id}, TRUE)
  <2> DEFINE r == [call[c] EXCEPT !.done = TRUE, !.got = {id}]
  <2>1. call[c] \in Call
    BY DEF TypeOK
  <2>2. /\ r \in Call /\ r.op = call[c].op /\ r.ids = call[c].ids
        /\ r.filled = call[c].filled /\ r.got = {id} /\ r.done = TRUE
    BY <2>1 DEF Call
  <2>3. Send(c, r)
    BY <1>6 DEF StoreCreates
  <2> HIDE DEF r
  <2>4. Answered(c, r.got, r.done)
    BY <2>2, <2>3, SendAnswer
  <2> QED
    BY <2>2, <2>4
<1>11. TypeOK'
  BY <1>1, <1>2, <1>3, <1>4, <1>5, <1>6, <1>7, <1>8, <1>9, <1>10 DEF
     TypeOK, Answered
<1>12. StoreInv'
  BY <1>1, <1>2, <1>3, <1>4, <1>5, <1>6, <1>7, <1>8, <1>9, <1>10 DEF
     StoreInv
<1>13. ReleasesAreHeld'
  BY <1>1, <1>2, <1>3, <1>4, <1>5, <1>6, <1>7, <1>8, <1>9, <1>10 DEF
     ReleasesAreHeld
<1>14. \A d \in Clients \ {c} : Unaffected(d)
  BY <1>1, <1>2, <1>3, <1>4, <1>5, <1>6, <1>7, <1>8, <1>9, <1>10 DEF
     Unaffected, StoreCreates, TypeOK, Answered
<1>15. ClientOK(c)'
  <2>1. LocalOK(c)'
    BY <1>1, <1>2, <1>3, <1>4, <1>5, <1>6, <1>7, <1>8, <1>9, <1>10 DEF
       LocalOK, InUse, Answered
  <2>2. ReleaseOK(c)'
    BY <1>1, <1>2, <1>3, <1>4, <1>5, <1>6, <1>7, <1>8, <1>9, <1>10 DEF
       ReleaseOK, InUse, Answered
  <2>3. CallOK(c)'
    BY <1>1, <1>2, <1>3, <1>4, <1>5, <1>6, <1>7, <1>8, <1>9, <1>10 DEF
       CallOK, Answered
  <2>4. Counted(c)'
    BY <1>1, <1>2, <1>3, <1>4, <1>5, <1>6, <1>7, <1>8, <1>9, <1>10 DEF
       Counted, OwnReference, InUse, Calling, Answered
  <2>5. ASSUME c \in connected PROVE WaitOK(c)'
    BY <2>5, <1>1, <1>2, <1>3, <1>4, <1>5, <1>6, <1>7, <1>8, <1>9, <1>10
       DEF WaitOK, InUse, Answered
  <2>6. ASSUME c \in connected PROVE Held(c)'
    BY <2>6, <1>1, <1>2, <1>3, <1>4, <1>5, <1>6, <1>7, <1>8, <1>9, <1>10
       DEF Held, InUse, Calling, Answered
  <2>7. ASSUME c \in connected PROVE Remembered(c)'
    <3>1. call[c].got = {} /\ call'[c].got = {id} /\ call'[c].op = "create"
      BY <1>2, <1>4, <1>10 DEF CallOK, Answered
    <3> SUFFICES ASSUME NEW i \in ObjectIDs, c \in holders'[i], i # id
                 PROVE  InUse(c, i) \/ releases[c][i] > 0
      BY <1>3, <3>1 DEF Remembered, InUse
    <3> QED
      BY <1>2, <2>7, <1>4, <1>9, <3>1 DEF Remembered, Calling
  <2> QED
    BY <1>3, <2>1, <2>2, <2>3, <2>4, <2>5, <2>6, <2>7 DEF ClientOK
<1> QED
  BY <1>11, <1>12, <1>13, <1>14, <1>15, StepOfOne

(* The store creates and seals an object that nobody uses.                 *)
LEMMA KeepsStoreCreatesAndSeals ==
  ASSUME IInv, NEW c \in Clients, StoreCreatesAndSeals(c)
  PROVE  IInv'
<1> USE Records DEF IInv
<1>1. connected \subseteq attached /\ attached \subseteq Clients
  BY DEF TypeOK
<1>2. /\ LocalOK(c) /\ ReleaseOK(c) /\ CallOK(c) /\ Counted(c)
      /\ c \in connected => WaitOK(c) /\ Held(c) /\ Remembered(c)
  BY DEF ClientOK
<1>3. UNCHANGED <<objects_in_use_, deletion_cache_, connected, handles,
                  releases, holders, attached, crashed>>
  BY DEF StoreCreatesAndSeals, clientVars, storeVars
<1>4. /\ c \in attached /\ call[c].op = "create_and_seal" /\ ~call[c].done
      /\ \A i \in ObjectIDs : releases[c][i] = 0
  BY DEF StoreCreatesAndSeals, AtStore
<1>5. Answered(c, call[c].got, TRUE)
  BY SendDone DEF StoreCreatesAndSeals
<1>6. /\ table' \in [ObjectIDs -> [state : {"ABSENT", "CREATED", "SEALED"}, size : Nat]]
      /\ \A i \in ObjectIDs :
           table'[i] # table[i] => table[i] = Store!Absent /\ i \notin PeerHas
  <2> DEFINE id == Head(call[c].ids)
             sealed == [state |-> "SEALED", size |-> 1]
  <2>1. \/ UNCHANGED table
        \/ /\ id \notin PeerHas /\ table[id] = Store!Absent
           /\ table' = [table EXCEPT ![id] = sealed]
    BY DEF StoreCreatesAndSeals, Sizes
  <2>2. sealed \in [state : {"ABSENT", "CREATED", "SEALED"}, size : Nat]
    OBVIOUS
  <2> HIDE DEF id, sealed
  <2>3. CASE UNCHANGED table
    BY <2>3 DEF TypeOK
  <2>4. CASE ~UNCHANGED table
    <3>1. \A i \in ObjectIDs : table'[i] # table[i] => i = id
      BY <2>1, <2>4 DEF TypeOK
    <3>2. table' = [table EXCEPT ![id] = sealed]
      BY <2>1, <2>4
    <3>3. table' \in [ObjectIDs -> [state : {"ABSENT", "CREATED", "SEALED"}, size : Nat]]
      BY <2>2, <3>2 DEF TypeOK
    <3> QED
      BY <2>1, <2>4, <3>1, <3>3
  <2> QED
    BY <2>3, <2>4
<1>7. \A i \in ObjectIDs : holders[i] # {} => table'[i] = table[i]
  BY <1>6 DEF StoreInv
<1>8. TypeOK'
  BY <1>1, <1>2, <1>3, <1>4, <1>5, <1>6, <1>7 DEF TypeOK, Answered
<1>9. StoreInv'
  BY <1>1, <1>2, <1>3, <1>4, <1>5, <1>6, <1>7 DEF StoreInv
<1>10. ReleasesAreHeld'
  BY <1>1, <1>2, <1>3, <1>4, <1>5, <1>6, <1>7 DEF ReleasesAreHeld
<1>11. \A d \in Clients \ {c} : Unaffected(d)
  BY <1>1, <1>2, <1>3, <1>4, <1>5, <1>6, <1>7 DEF Unaffected,
     StoreCreatesAndSeals, TypeOK, Answered
<1>12. ClientOK(c)'
  <2>1. LocalOK(c)'
    BY <1>1, <1>2, <1>3, <1>4, <1>5, <1>6, <1>7 DEF LocalOK, InUse,
       Answered
  <2>2. ReleaseOK(c)'
    BY <1>1, <1>2, <1>3, <1>4, <1>5, <1>6, <1>7 DEF ReleaseOK, InUse,
       Answered
  <2>3. CallOK(c)'
    BY <1>1, <1>2, <1>3, <1>4, <1>5, <1>6, <1>7 DEF CallOK, Answered
  <2>4. Counted(c)'
    BY <1>1, <1>2, <1>3, <1>4, <1>5, <1>6, <1>7 DEF Counted,
       OwnReference, InUse, Calling, Answered
  <2>5. ASSUME c \in connected PROVE WaitOK(c)'
    BY <2>5, <1>1, <1>2, <1>3, <1>4, <1>5, <1>6, <1>7 DEF WaitOK, InUse,
       Answered
  <2>6. ASSUME c \in connected PROVE Held(c)'
    BY <2>6, <1>1, <1>2, <1>3, <1>4, <1>5, <1>6, <1>7 DEF Held, InUse,
       Calling, Answered
  <2>7. ASSUME c \in connected PROVE Remembered(c)'
    BY <2>7, <1>1, <1>2, <1>3, <1>4, <1>5, <1>6, <1>7 DEF Remembered,
       InUse, Calling, Answered
  <2> QED
    BY <1>3, <2>1, <2>2, <2>3, <2>4, <2>5, <2>6, <2>7 DEF ClientOK
<1> QED
  BY <1>8, <1>9, <1>10, <1>11, <1>12, StepOfOne

(* The store gives a sealed object to a Get: all Releases of the client    *)
(* have been read.                                                         *)
LEMMA KeepsStoreAcquires ==
  ASSUME IInv, NEW c \in Clients, NEW id \in ObjectIDs, StoreAcquires(c, id)
  PROVE  IInv'
<1> USE Records DEF IInv
<1>1. connected \subseteq attached /\ attached \subseteq Clients
  BY DEF TypeOK
<1>2. /\ LocalOK(c) /\ ReleaseOK(c) /\ CallOK(c) /\ Counted(c)
      /\ c \in connected => WaitOK(c) /\ Held(c) /\ Remembered(c)
  BY DEF ClientOK
<1>3. UNCHANGED <<objects_in_use_, deletion_cache_, connected, handles,
                  releases, table, attached, crashed>>
  BY DEF StoreAcquires, Store!Acquire, clientVars, storeVars
<1>4. /\ c \in attached /\ call[c].op = "get" /\ ~call[c].done
      /\ \A i \in ObjectIDs : releases[c][i] = 0
  BY DEF StoreAcquires, AtStore
<1>5. /\ id \in ListSet(call[c].ids) /\ table[id].state = "SEALED"
      /\ id \notin PeerHas
  BY DEF StoreAcquires, Store!Acquire, StoreInv
<1>6. /\ holders' \in [ObjectIDs -> SUBSET Clients]
      /\ holders'[id] = holders[id] \cup {c}
      /\ \A i \in ObjectIDs \ {id} : holders'[i] = holders[i]
  BY DEF StoreAcquires, Store!Acquire, TypeOK
<1>7. Answered(c, call[c].got \cup {id}, FALSE)
  BY <1>4, SendMore DEF StoreAcquires
<1>8. TypeOK'
  BY <1>1, <1>2, <1>3, <1>4, <1>5, <1>6, <1>7 DEF TypeOK, Answered
<1>9. StoreInv'
  BY <1>1, <1>2, <1>3, <1>4, <1>5, <1>6, <1>7 DEF StoreInv
<1>10. ReleasesAreHeld'
  BY <1>1, <1>2, <1>3, <1>4, <1>5, <1>6, <1>7 DEF ReleasesAreHeld
<1>11. \A d \in Clients \ {c} : Unaffected(d)
  BY <1>1, <1>2, <1>3, <1>4, <1>5, <1>6, <1>7 DEF Unaffected,
     StoreAcquires, TypeOK, Answered
<1>12. ClientOK(c)'
  <2>1. LocalOK(c)'
    BY <1>1, <1>2, <1>3, <1>4, <1>5, <1>6, <1>7 DEF LocalOK, InUse,
       Answered
  <2>2. ReleaseOK(c)'
    BY <1>1, <1>2, <1>3, <1>4, <1>5, <1>6, <1>7 DEF ReleaseOK, InUse,
       Answered
  <2>3. CallOK(c)'
    <3>1. /\ call'[c].op = "get" /\ call'[c].ids = call[c].ids
          /\ call'[c].got = call[c].got \cup {id}
      BY <1>4, <1>7 DEF Answered
    <3>2. call'[c].got \subseteq ListSet(call[c].ids)
      BY <1>2, <1>4, <1>5, <3>1 DEF CallOK
    <3>3. call[c].got \subseteq ObjectIDs
      BY DEF TypeOK, Call
    <3>4. ASSUME NEW i \in call'[c].got \ PeerHas
          PROVE  c \in holders'[i] /\ table'[i].state = "SEALED"
      <4>1. CASE i = id
        BY <1>3, <1>5, <1>6, <4>1
      <4>2. CASE i # id
        BY <1>2, <1>3, <1>4, <1>6, <3>1, <3>3, <4>2 DEF CallOK
      <4> QED
        BY <4>1, <4>2
    <3> QED
      BY <3>1, <3>2, <3>4 DEF CallOK
  <2>4. Counted(c)'
    BY <1>1, <1>2, <1>3, <1>4, <1>5, <1>6, <1>7 DEF Counted,
       OwnReference, InUse, Calling, Answered
  <2>5. ASSUME c \in connected PROVE WaitOK(c)'
    BY <2>5, <1>1, <1>2, <1>3, <1>4, <1>5, <1>6, <1>7 DEF WaitOK, InUse,
       Answered
  <2>6. ASSUME c \in connected PROVE Held(c)'
    BY <2>6, <1>1, <1>2, <1>3, <1>4, <1>5, <1>6, <1>7 DEF Held, InUse,
       Calling, Answered
  <2>7. ASSUME c \in connected PROVE Remembered(c)'
    BY <2>7, <1>1, <1>2, <1>3, <1>4, <1>5, <1>6, <1>7 DEF Remembered,
       InUse, Calling, Answered
  <2> QED
    BY <1>3, <2>1, <2>2, <2>3, <2>4, <2>5, <2>6, <2>7 DEF ClientOK
<1> QED
  BY <1>8, <1>9, <1>10, <1>11, <1>12, StepOfOne

(* The store finds an object at the peer; it keeps nothing for the client. *)
LEMMA KeepsStoreFindsRemote ==
  ASSUME IInv, NEW c \in Clients, NEW id \in ObjectIDs, StoreFindsRemote(c, id)
  PROVE  IInv'
<1> USE Records DEF IInv
<1>1. connected \subseteq attached /\ attached \subseteq Clients
  BY DEF TypeOK
<1>2. /\ LocalOK(c) /\ ReleaseOK(c) /\ CallOK(c) /\ Counted(c)
      /\ c \in connected => WaitOK(c) /\ Held(c) /\ Remembered(c)
  BY DEF ClientOK
<1>3. UNCHANGED <<objects_in_use_, deletion_cache_, connected, handles,
                  releases, table, holders, attached,
                  crashed>>
  BY DEF StoreFindsRemote, clientVars, storeVars
<1>4. /\ c \in attached /\ call[c].op = "get" /\ ~call[c].done
      /\ \A i \in ObjectIDs : releases[c][i] = 0
  BY DEF StoreFindsRemote, AtStore
<1>5. id \in ListSet(call[c].ids) /\ id \in PeerHas
  BY DEF StoreFindsRemote
<1>6. Answered(c, call[c].got \cup {id}, FALSE)
  BY <1>4, SendMore DEF StoreFindsRemote
<1>7. TypeOK'
  BY <1>1, <1>2, <1>3, <1>4, <1>5, <1>6 DEF TypeOK, Answered
<1>8. StoreInv'
  BY <1>1, <1>2, <1>3, <1>4, <1>5, <1>6 DEF StoreInv
<1>9. ReleasesAreHeld'
  BY <1>1, <1>2, <1>3, <1>4, <1>5, <1>6 DEF ReleasesAreHeld
<1>10. \A d \in Clients \ {c} : Unaffected(d)
  BY <1>1, <1>2, <1>3, <1>4, <1>5, <1>6 DEF Unaffected, StoreFindsRemote,
     TypeOK, Answered
<1>11. ClientOK(c)'
  <2>1. LocalOK(c)'
    BY <1>1, <1>2, <1>3, <1>4, <1>5, <1>6 DEF LocalOK, InUse, Answered
  <2>2. ReleaseOK(c)'
    BY <1>1, <1>2, <1>3, <1>4, <1>5, <1>6 DEF ReleaseOK, InUse, Answered
  <2>3. CallOK(c)'
    BY <1>1, <1>2, <1>3, <1>4, <1>5, <1>6 DEF CallOK, Answered
  <2>4. Counted(c)'
    BY <1>1, <1>2, <1>3, <1>4, <1>5, <1>6 DEF Counted, OwnReference,
       InUse, Calling, Answered
  <2>5. ASSUME c \in connected PROVE WaitOK(c)'
    BY <2>5, <1>1, <1>2, <1>3, <1>4, <1>5, <1>6 DEF WaitOK, InUse,
       Answered
  <2>6. ASSUME c \in connected PROVE Held(c)'
    BY <2>6, <1>1, <1>2, <1>3, <1>4, <1>5, <1>6 DEF Held, InUse, Calling,
       Answered
  <2>7. ASSUME c \in connected PROVE Remembered(c)'
    BY <2>7, <1>1, <1>2, <1>3, <1>4, <1>5, <1>6 DEF Remembered, InUse,
       Calling, Answered
  <2> QED
    BY <1>3, <2>1, <2>2, <2>3, <2>4, <2>5, <2>6, <2>7 DEF ClientOK
<1> QED
  BY <1>7, <1>8, <1>9, <1>10, <1>11, StepOfOne

(* The store seals an object, which only its creator uses.                 *)
LEMMA KeepsStoreSeals ==
  ASSUME IInv, NEW c \in Clients, StoreSeals(c)
  PROVE  IInv'
<1> USE Records DEF IInv
<1>1. connected \subseteq attached /\ attached \subseteq Clients
  BY DEF TypeOK
<1>2. /\ LocalOK(c) /\ ReleaseOK(c) /\ CallOK(c) /\ Counted(c)
      /\ c \in connected => WaitOK(c) /\ Held(c) /\ Remembered(c)
  BY DEF ClientOK
<1>3. UNCHANGED <<objects_in_use_, deletion_cache_, connected, handles,
                  releases, holders, attached, crashed>>
  BY DEF StoreSeals, Store!Seal, clientVars, storeVars
<1>4. /\ c \in attached /\ call[c].op = "seal" /\ ~call[c].done
      /\ \A i \in ObjectIDs : releases[c][i] = 0
  BY DEF StoreSeals, AtStore
<1>5. PICK id \in ObjectIDs : call[c].ids = <<id>>
  BY <1>2, <1>4 DEF CallOK
<1>6. Head(call[c].ids) = id
  BY <1>5
<1>7. /\ c \in holders[id] /\ table[id].state = "CREATED"
      /\ holders[id] \subseteq {c}
  BY <1>2, <1>4, <1>6 DEF CallOK, StoreInv
<1>8. /\ table' \in [ObjectIDs -> [state : {"ABSENT", "CREATED", "SEALED"}, size : Nat]]
      /\ table'[id].state = "SEALED"
      /\ \A i \in ObjectIDs \ {id} : table'[i] = table[i]
  BY <1>6 DEF StoreSeals, Store!Seal, TypeOK
<1>9. Answered(c, call[c].got, TRUE)
  BY SendDone DEF StoreSeals
<1>10. TypeOK'
  BY <1>1, <1>2, <1>3, <1>4, <1>5, <1>6, <1>7, <1>8, <1>9 DEF TypeOK,
     Answered
<1>11. StoreInv'
  BY <1>1, <1>2, <1>3, <1>4, <1>5, <1>6, <1>7, <1>8, <1>9 DEF StoreInv
<1>12. ReleasesAreHeld'
  BY <1>1, <1>2, <1>3, <1>4, <1>5, <1>6, <1>7, <1>8, <1>9 DEF
     ReleasesAreHeld
<1>13. \A d \in Clients \ {c} : Unaffected(d)
  BY <1>1, <1>2, <1>3, <1>4, <1>5, <1>6, <1>7, <1>8, <1>9 DEF Unaffected,
     StoreSeals, TypeOK, Answered
<1>14. ClientOK(c)'
  <2>1. LocalOK(c)'
    BY <1>1, <1>2, <1>3, <1>4, <1>5, <1>6, <1>7, <1>8, <1>9 DEF LocalOK,
       InUse, Answered
  <2>2. ReleaseOK(c)'
    BY <1>1, <1>2, <1>3, <1>4, <1>5, <1>6, <1>7, <1>8, <1>9 DEF
       ReleaseOK, InUse, Answered
  <2>3. CallOK(c)'
    BY <1>1, <1>2, <1>3, <1>4, <1>5, <1>6, <1>7, <1>8, <1>9 DEF CallOK,
       Answered
  <2>4. Counted(c)'
    BY <1>1, <1>2, <1>3, <1>4, <1>5, <1>6, <1>7, <1>8, <1>9 DEF Counted,
       OwnReference, InUse, Calling, Answered
  <2>5. ASSUME c \in connected PROVE WaitOK(c)'
    BY <2>5, <1>1, <1>2, <1>3, <1>4, <1>5, <1>6, <1>7, <1>8, <1>9 DEF
       WaitOK, InUse, Answered
  <2>6. ASSUME c \in connected PROVE Held(c)'
    <3> SUFFICES ASSUME NEW i \in ObjectIDs, InUse(c, i), ~objects_in_use_[c][i].remote
                 PROVE  /\ c \in holders[i] /\ releases[c][i] = 0
                        /\ table'[i].state =
                             IF objects_in_use_[c][i].is_sealed THEN "SEALED" ELSE "CREATED"
      <4>1. call'[c].done
        BY <1>9 DEF Answered
      <4> QED
        BY <1>3, <4>1 DEF Held, InUse
    <3>1. c \in holders[i] /\ releases[c][i] = 0
      BY <1>2, <2>6 DEF Held
    <3>2. CASE i = id
      <4>1. objects_in_use_[c][id].is_sealed
        BY <1>2, <2>6, <1>4, <1>6 DEF WaitOK
      <4> QED
        BY <1>8, <3>1, <3>2, <4>1
    <3>3. CASE i # id
      <4>1. ~Calling(c, "seal", i) /\ table'[i] = table[i]
        BY <1>6, <1>8, <3>3 DEF Calling
      <4> QED
        BY <1>2, <2>6, <3>1, <4>1 DEF Held
    <3> QED
      BY <3>2, <3>3
  <2>7. ASSUME c \in connected PROVE Remembered(c)'
    BY <2>7, <1>1, <1>2, <1>3, <1>4, <1>5, <1>6, <1>7, <1>8, <1>9 DEF
       Remembered, InUse, Calling, Answered
  <2> QED
    BY <1>3, <2>1, <2>2, <2>3, <2>4, <2>5, <2>6, <2>7 DEF ClientOK
<1> QED
  BY <1>10, <1>11, <1>12, <1>13, <1>14, StepOfOne

(* The store discards an object, which only its creator uses.              *)
LEMMA KeepsStoreAborts ==
  ASSUME IInv, NEW c \in Clients, StoreAborts(c)
  PROVE  IInv'
<1> USE Records DEF IInv
<1>1. connected \subseteq attached /\ attached \subseteq Clients
  BY DEF TypeOK
<1>2. /\ LocalOK(c) /\ ReleaseOK(c) /\ CallOK(c) /\ Counted(c)
      /\ c \in connected => WaitOK(c) /\ Held(c) /\ Remembered(c)
  BY DEF ClientOK
<1>3. UNCHANGED <<objects_in_use_, deletion_cache_, connected, handles,
                  releases, attached, crashed>>
  BY DEF StoreAborts, clientVars, storeVars
<1>4. /\ c \in attached /\ call[c].op = "abort" /\ ~call[c].done
      /\ \A i \in ObjectIDs : releases[c][i] = 0
  BY DEF StoreAborts, AtStore
<1>5. PICK id \in ObjectIDs : call[c].ids = <<id>>
  BY <1>2, <1>4 DEF CallOK
<1>6. Head(call[c].ids) = id /\ ListSet(call[c].ids) = {id}
  BY <1>5 DEF ListSet
<1>7. /\ holders[id] = {c} /\ table[id].state = "CREATED"
  BY <1>6 DEF StoreAborts, Store!Discard
<1>8. /\ table' \in [ObjectIDs -> [state : {"ABSENT", "CREATED", "SEALED"}, size : Nat]]
      /\ holders' \in [ObjectIDs -> SUBSET Clients]
      /\ holders'[id] = {} /\ table'[id] = Store!Absent
      /\ \A i \in ObjectIDs \ {id} : holders'[i] = holders[i] /\ table'[i] = table[i]
  BY <1>6 DEF StoreAborts, Store!Discard, TypeOK
<1>9. Answered(c, call[c].got, TRUE)
  BY SendDone DEF StoreAborts
<1>10. TypeOK'
  BY <1>1, <1>2, <1>3, <1>4, <1>5, <1>6, <1>7, <1>8, <1>9 DEF TypeOK,
     Answered
<1>11. StoreInv'
  BY <1>1, <1>2, <1>3, <1>4, <1>5, <1>6, <1>7, <1>8, <1>9 DEF StoreInv
<1>12. ReleasesAreHeld'
  BY <1>1, <1>2, <1>3, <1>4, <1>5, <1>6, <1>7, <1>8, <1>9 DEF
     ReleasesAreHeld
<1>13. \A d \in Clients \ {c} : Unaffected(d)
  BY <1>1, <1>2, <1>3, <1>4, <1>5, <1>6, <1>7, <1>8, <1>9 DEF Unaffected,
     StoreAborts, TypeOK, Answered
<1>14. ClientOK(c)'
  <2>1. LocalOK(c)'
    BY <1>1, <1>2, <1>3, <1>4, <1>5, <1>6, <1>7, <1>8, <1>9 DEF LocalOK,
       InUse, Answered
  <2>2. ReleaseOK(c)'
    BY <1>1, <1>2, <1>3, <1>4, <1>5, <1>6, <1>7, <1>8, <1>9 DEF
       ReleaseOK, InUse, Answered
  <2>3. CallOK(c)'
    BY <1>1, <1>2, <1>3, <1>4, <1>5, <1>6, <1>7, <1>8, <1>9 DEF CallOK,
       Answered
  <2>4. Counted(c)'
    BY <1>1, <1>2, <1>3, <1>4, <1>5, <1>6, <1>7, <1>8, <1>9 DEF Counted,
       OwnReference, InUse, Calling, Answered
  <2>5. ASSUME c \in connected PROVE WaitOK(c)'
    BY <2>5, <1>1, <1>2, <1>3, <1>4, <1>5, <1>6, <1>7, <1>8, <1>9 DEF
       WaitOK, InUse, Answered
  <2>6. ASSUME c \in connected PROVE Held(c)'
    <3>1. call[c].op = "abort" /\ call'[c].op = "abort"
      BY <1>4, <1>9 DEF Answered
    <3> SUFFICES ASSUME NEW i \in ObjectIDs, InUse(c, i), ~objects_in_use_[c][i].remote
                 PROVE  /\ c \in holders'[i] /\ releases[c][i] = 0
                        /\ table'[i].state =
                             IF objects_in_use_[c][i].is_sealed THEN "SEALED" ELSE "CREATED"
      BY <1>3, <3>1 DEF Held, InUse, Calling
    <3>2. i # id
      BY <1>2, <2>6, <1>6, <3>1 DEF WaitOK
    <3> QED
      BY <1>2, <2>6, <1>8, <3>1, <3>2 DEF Held, Calling
  <2>7. ASSUME c \in connected PROVE Remembered(c)'
    BY <2>7, <1>1, <1>2, <1>3, <1>4, <1>5, <1>6, <1>7, <1>8, <1>9 DEF
       Remembered, InUse, Calling, Answered
  <2> QED
    BY <1>3, <2>1, <2>2, <2>3, <2>4, <2>5, <2>6, <2>7 DEF ClientOK
<1> QED
  BY <1>10, <1>11, <1>12, <1>13, <1>14, StepOfOne

(* The store deletes what nobody uses.                                     *)
LEMMA KeepsStoreDeletes ==
  ASSUME IInv, NEW c \in Clients, StoreDeletes(c)
  PROVE  IInv'
<1> USE Records DEF IInv
<1>1. connected \subseteq attached /\ attached \subseteq Clients
  BY DEF TypeOK
<1>2. /\ LocalOK(c) /\ ReleaseOK(c) /\ CallOK(c) /\ Counted(c)
      /\ c \in connected => WaitOK(c) /\ Held(c) /\ Remembered(c)
  BY DEF ClientOK
<1>3. UNCHANGED <<objects_in_use_, deletion_cache_, connected, handles,
                  releases, holders, attached, crashed>>
  BY DEF StoreDeletes, clientVars, storeVars
<1>4. /\ c \in attached /\ call[c].op = "delete" /\ ~call[c].done
      /\ \A i \in ObjectIDs : releases[c][i] = 0
  BY DEF StoreDeletes, AtStore
<1>5. /\ table' \in [ObjectIDs -> [state : {"ABSENT", "CREATED", "SEALED"}, size : Nat]]
      /\ \A i \in ObjectIDs : holders[i] # {} => table'[i] = table[i]
      /\ \A i \in ObjectIDs : table'[i] = table[i] \/ table'[i] = Store!Absent
  BY DEF StoreDeletes, TypeOK
<1>6. Answered(c, call[c].got, TRUE)
  BY SendDone DEF StoreDeletes
<1>7. TypeOK'
  BY <1>1, <1>2, <1>3, <1>4, <1>5, <1>6 DEF TypeOK, Answered
<1>8. StoreInv'
  BY <1>1, <1>2, <1>3, <1>4, <1>5, <1>6 DEF StoreInv
<1>9. ReleasesAreHeld'
  BY <1>1, <1>2, <1>3, <1>4, <1>5, <1>6 DEF ReleasesAreHeld
<1>10. \A d \in Clients \ {c} : Unaffected(d)
  BY <1>1, <1>2, <1>3, <1>4, <1>5, <1>6 DEF Unaffected, StoreDeletes,
     TypeOK, Answered
<1>11. ClientOK(c)'
  <2>1. LocalOK(c)'
    BY <1>1, <1>2, <1>3, <1>4, <1>5, <1>6 DEF LocalOK, InUse, Answered
  <2>2. ReleaseOK(c)'
    BY <1>1, <1>2, <1>3, <1>4, <1>5, <1>6 DEF ReleaseOK, InUse, Answered
  <2>3. CallOK(c)'
    BY <1>1, <1>2, <1>3, <1>4, <1>5, <1>6 DEF CallOK, Answered
  <2>4. Counted(c)'
    BY <1>1, <1>2, <1>3, <1>4, <1>5, <1>6 DEF Counted, OwnReference,
       InUse, Calling, Answered
  <2>5. ASSUME c \in connected PROVE WaitOK(c)'
    BY <2>5, <1>1, <1>2, <1>3, <1>4, <1>5, <1>6 DEF WaitOK, InUse,
       Answered
  <2>6. ASSUME c \in connected PROVE Held(c)'
    BY <2>6, <1>1, <1>2, <1>3, <1>4, <1>5, <1>6 DEF Held, InUse, Calling,
       Answered
  <2>7. ASSUME c \in connected PROVE Remembered(c)'
    BY <2>7, <1>1, <1>2, <1>3, <1>4, <1>5, <1>6 DEF Remembered, InUse,
       Calling, Answered
  <2> QED
    BY <1>3, <2>1, <2>2, <2>3, <2>4, <2>5, <2>6, <2>7 DEF ClientOK
<1> QED
  BY <1>7, <1>8, <1>9, <1>10, <1>11, StepOfOne

(* The store reads a Release: it knows that the client uses the object,    *)
(* which no call of the client has taken up again.                         *)
LEMMA KeepsStoreReleases ==
  ASSUME IInv, NEW c \in Clients, NEW id \in ObjectIDs, StoreReleases(c, id)
  PROVE  IInv'
<1> USE Records DEF IInv
<1>1. connected \subseteq attached /\ attached \subseteq Clients
  BY DEF TypeOK
<1>2. /\ LocalOK(c) /\ ReleaseOK(c) /\ CallOK(c) /\ Counted(c)
      /\ c \in connected => WaitOK(c) /\ Held(c) /\ Remembered(c)
  BY DEF ClientOK
<1>3. UNCHANGED <<objects_in_use_, deletion_cache_, connected, handles, call,
                  attached>>
  BY DEF StoreReleases, clientVars, storeVars
<1>4. c \in attached /\ releases[c][id] > 0
  BY DEF StoreReleases
<1>5. /\ releases[c][id] = 1 /\ c \in holders[id]
      /\ table[id].state = "SEALED" /\ ~InUse(c, id)
      /\ call[c].got = {} /\ ~call[c].done
  BY <1>2, <1>4 DEF ReleaseOK
<1>6. Store!Release(c, id) /\ UNCHANGED crashed
  BY <1>5 DEF StoreReleases
<1>7. /\ releases' \in [Clients -> [ObjectIDs -> Nat]]
      /\ releases'[c][id] = 0
      /\ \A i \in ObjectIDs \ {id} : releases'[c][i] = releases[c][i]
  BY <1>5 DEF StoreReleases, TypeOK
<1>8. /\ table' \in [ObjectIDs -> [state : {"ABSENT", "CREATED", "SEALED"}, size : Nat]]
      /\ holders' \in [ObjectIDs -> SUBSET Clients]
      /\ holders'[id] = holders[id] \ {c}
      /\ \A i \in ObjectIDs \ {id} : holders'[i] = holders[i] /\ table'[i] = table[i]
      /\ table'[id] = table[id] \/ (holders[id] = {c} /\ table'[id] = Store!Absent)
  <2>1. \/ UNCHANGED table
        \/ holders[id] = {c} /\ table' = [table EXCEPT ![id] = Store!Absent]
    BY <1>6 DEF Store!Release
  <2>2. holders' = [holders EXCEPT ![id] = holders[id] \ {c}]
    BY <1>6 DEF Store!Release
  <2>3. table' \in [ObjectIDs -> [state : {"ABSENT", "CREATED", "SEALED"}, size : Nat]]
    BY <2>1 DEF TypeOK
  <2> QED
    BY <2>1, <2>2, <2>3 DEF TypeOK
<1>9. TypeOK'
  BY <1>1, <1>2, <1>3, <1>4, <1>5, <1>6, <1>7, <1>8 DEF TypeOK
<1>10. StoreInv'
  <2> SUFFICES ASSUME NEW i \in ObjectIDs
               PROVE  /\ holders'[i] \subseteq attached
                      /\ holders'[i] # {} => table'[i].state \in {"CREATED", "SEALED"}
                      /\ table'[i].state = "CREATED" => \A d, e \in holders'[i] : d = e
                      /\ i \in PeerHas => table'[i].state = "ABSENT"
    BY <1>3 DEF StoreInv
  <2>1. CASE i = id
    <3>1. table'[id].state \in {"ABSENT", "SEALED"} /\ id \notin PeerHas
      BY <1>5, <1>8 DEF StoreInv
    <3>2. holders[id] \subseteq attached
      BY DEF StoreInv
    <3>3. holders'[id] # {} => table'[id] = table[id]
      BY <1>8
    <3> QED
      BY <1>5, <1>8, <2>1, <3>1, <3>2, <3>3
  <2>2. CASE i # id
    BY <1>8, <2>2 DEF StoreInv
  <2> QED
    BY <2>1, <2>2
<1>11. ReleasesAreHeld'
  BY <1>1, <1>2, <1>3, <1>4, <1>5, <1>6, <1>7, <1>8 DEF ReleasesAreHeld
<1>12. \A d \in Clients \ {c} : Unaffected(d)
  <2> SUFFICES ASSUME NEW d \in Clients \ {c}
               PROVE  Unaffected(d)
    OBVIOUS
  <2>1. releases'[d] = releases[d]
    BY DEF StoreReleases, TypeOK
  <2>2. ASSUME NEW i \in ObjectIDs
        PROVE  /\ d \in holders'[i] <=> d \in holders[i]
               /\ d \in holders[i] => table'[i].state = table[i].state
    BY <1>8
  <2> QED
    BY <1>3, <2>1, <2>2 DEF Unaffected
<1>13. ClientOK(c)'
  <2>1. LocalOK(c)'
    BY <1>1, <1>2, <1>3, <1>4, <1>5, <1>6, <1>7, <1>8 DEF LocalOK, InUse
  <2>2. ReleaseOK(c)'
    <3> SUFFICES ASSUME NEW i \in ObjectIDs, releases'[c][i] > 0
                 PROVE  /\ releases'[c][i] = 1 /\ ~InUse(c, i)'
                        /\ c \in holders'[i] /\ table'[i].state = "SEALED"
      BY <1>3, <1>5 DEF ReleaseOK
    <3>1. i # id
      BY <1>7
    <3> QED
      <4>1. releases[c][i] > 0 /\ holders'[i] = holders[i] /\ table'[i] = table[i]
        BY <1>7, <1>8, <3>1
      <4>2. releases'[c][i] = releases[c][i] /\ (InUse(c, i)' <=> InUse(c, i))
        BY <1>3, <1>7, <3>1 DEF InUse
      <4> QED
        BY <1>2, <4>1, <4>2 DEF ReleaseOK
  <2>3. CallOK(c)'
    BY <1>1, <1>2, <1>3, <1>4, <1>5, <1>6, <1>7, <1>8 DEF CallOK
  <2>4. Counted(c)'
    BY <1>1, <1>2, <1>3, <1>4, <1>5, <1>6, <1>7, <1>8 DEF Counted,
       OwnReference, InUse, Calling
  <2>5. ASSUME c \in connected PROVE WaitOK(c)'
    BY <2>5, <1>1, <1>2, <1>3, <1>4, <1>5, <1>6, <1>7, <1>8 DEF WaitOK,
       InUse
  <2>6. ASSUME c \in connected PROVE Held(c)'
    <3> SUFFICES ASSUME NEW i \in ObjectIDs, InUse(c, i), ~objects_in_use_[c][i].remote
                 PROVE  /\ c \in holders'[i] /\ releases'[c][i] = 0
                        /\ table'[i] = table[i]
      BY <1>2, <1>3, <2>6 DEF Held, InUse, Calling
    <3>1. i # id
      BY <1>5
    <3> QED
      BY <1>2, <2>6, <1>7, <1>8, <3>1 DEF Held
  <2>7. ASSUME c \in connected PROVE Remembered(c)'
    BY <2>7, <1>1, <1>2, <1>3, <1>4, <1>5, <1>6, <1>7, <1>8 DEF
       Remembered, InUse, Calling
  <2> QED
    BY <1>3, <2>1, <2>2, <2>3, <2>4, <2>5, <2>6, <2>7 DEF ClientOK
<1> QED
  BY <1>9, <1>10, <1>11, <1>12, <1>13, StepOfOne

(* The store gives back what a client had that is gone; the others keep    *)
(* theirs.                                                                 *)
LEMMA KeepsStoreDisconnects ==
  ASSUME IInv, NEW c \in Clients, StoreDisconnects(c)
  PROVE  IInv'
<1> USE Records DEF IInv
<1>1. connected \subseteq attached /\ attached \subseteq Clients
  BY DEF TypeOK
<1>2. /\ LocalOK(c) /\ ReleaseOK(c) /\ CallOK(c) /\ Counted(c)
      /\ c \in connected => WaitOK(c) /\ Held(c) /\ Remembered(c)
  BY DEF ClientOK
<1>3. UNCHANGED <<objects_in_use_, deletion_cache_, connected, handles,
                  crashed>>
  BY DEF StoreDisconnects, clientVars, storeVars
<1>4. c \in attached /\ c \notin connected /\ attached' = attached \ {c}
  BY DEF StoreDisconnects
<1>5. Returned(c)
  BY SendNothing DEF StoreDisconnects
<1>6. /\ releases' \in [Clients -> [ObjectIDs -> Nat]]
      /\ \A i \in ObjectIDs : releases'[c][i] = 0
  BY DEF StoreDisconnects, TypeOK
<1>7. /\ table' \in [ObjectIDs -> [state : {"ABSENT", "CREATED", "SEALED"}, size : Nat]]
      /\ holders' \in [ObjectIDs -> SUBSET Clients]
      /\ \A i \in ObjectIDs :
           /\ holders'[i] = holders[i] \ {c}
           /\ \/ table'[i] = table[i] /\ ~(c \in holders[i] /\ table[i].state = "CREATED")
              \/ table'[i] = Store!Absent /\ holders[i] \subseteq {c}
  BY DEF StoreDisconnects, TypeOK, StoreInv
<1>8. TypeOK'
  BY <1>1, <1>2, <1>3, <1>4, <1>5, <1>6, <1>7 DEF TypeOK, Returned
<1>9. StoreInv'
  <2> SUFFICES ASSUME NEW i \in ObjectIDs
               PROVE  /\ holders'[i] \subseteq attached \ {c}
                      /\ holders'[i] # {} => table'[i].state \in {"CREATED", "SEALED"}
                      /\ table'[i].state = "CREATED" => \A d, e \in holders'[i] : d = e
                      /\ i \in PeerHas => table'[i].state = "ABSENT"
    BY <1>4 DEF StoreInv
  <2>1. /\ holders[i] \subseteq attached
        /\ holders[i] # {} => table[i].state \in {"CREATED", "SEALED"}
        /\ table[i].state = "CREATED" => \A d, e \in holders[i] : d = e
        /\ i \in PeerHas => table[i].state = "ABSENT"
    BY DEF StoreInv
  <2>2. CASE table'[i] = table[i]
    BY <1>7, <2>1, <2>2
  <2>3. CASE table'[i] = Store!Absent /\ holders[i] \subseteq {c}
    BY <1>7, <2>1, <2>3
  <2> QED
    BY <1>7, <2>2, <2>3
<1>10. ReleasesAreHeld'
  BY <1>1, <1>2, <1>3, <1>4, <1>5, <1>6, <1>7 DEF ReleasesAreHeld
<1>11. \A d \in Clients \ {c} : Unaffected(d)
  BY <1>1, <1>2, <1>3, <1>4, <1>5, <1>6, <1>7 DEF Unaffected,
     StoreDisconnects, TypeOK, Returned
<1>12. ClientOK(c)'
  <2>1. LocalOK(c)'
    BY <1>1, <1>2, <1>3, <1>4, <1>5, <1>6, <1>7 DEF LocalOK, InUse,
       Returned
  <2>2. ReleaseOK(c)'
    BY <1>1, <1>2, <1>3, <1>4, <1>5, <1>6, <1>7 DEF ReleaseOK, InUse,
       Returned
  <2>3. CallOK(c)'
    BY <1>1, <1>2, <1>3, <1>4, <1>5, <1>6, <1>7 DEF CallOK, Returned
  <2>4. Counted(c)'
    <3> SUFFICES ASSUME NEW i \in ObjectIDs
                 PROVE  objects_in_use_[c][i].count = handles[c][i] + OwnReference(c, i)'
      BY <1>3 DEF Counted
    <3>1. ~InUse(c, i) /\ ~InUse(c, i)'
      BY <1>2, <1>3, <1>4 DEF LocalOK, InUse
    <3>2. OwnReference(c, i) = 0 /\ OwnReference(c, i)' = 0
      BY <3>1 DEF OwnReference
    <3> QED
      BY <1>2, <3>2 DEF Counted
  <2> QED
    BY <1>1, <1>2, <1>3, <1>4, <1>5, <1>6, <1>7, <2>1, <2>2, <2>3, <2>4
       DEF ClientOK, Returned
<1> QED
  BY <1>8, <1>9, <1>10, <1>11, <1>12, StepOfOne

(* The reply to Create: the object was not in use before.                  *)
LEMMA KeepsCreateReply ==
  ASSUME IInv, NEW c \in Clients, CreateReply(c)
  PROVE  IInv'
<1> USE Records DEF IInv
<1>1. connected \subseteq attached /\ attached \subseteq Clients
  BY DEF TypeOK
<1>2. /\ LocalOK(c) /\ ReleaseOK(c) /\ CallOK(c) /\ Counted(c)
      /\ c \in connected => WaitOK(c) /\ Held(c) /\ Remembered(c)
  BY DEF ClientOK
<1>3. UNCHANGED <<deletion_cache_, connected, releases, table, holders,
                  attached, crashed>>
  BY DEF CreateReply, clientVars, storeVars
<1>4. c \in connected /\ call[c].op = "create" /\ call[c].done
  BY DEF CreateReply, Replied
<1>5. Returned(c)
  BY SendNothing DEF CreateReply
<1>6. call[c].got \subseteq ObjectIDs
  BY DEF TypeOK, Call
<1>7. \A i \in call[c].got :
        /\ ~InUse(c, i) /\ c \in holders[i] /\ table[i].state = "CREATED"
        /\ releases[c][i] = 0
  BY <1>2, <1>4, <1>6 DEF WaitOK, CallOK, ReleaseOK
<1>8. /\ objects_in_use_' \in [Clients -> [ObjectIDs -> Entry]]
      /\ handles' \in [Clients -> [ObjectIDs -> Nat]]
      /\ \A i \in ObjectIDs \ call[c].got :
           /\ objects_in_use_'[c][i] = objects_in_use_[c][i]
           /\ handles'[c][i] = handles[c][i]
      /\ \A i \in call[c].got :
           /\ objects_in_use_'[c][i].count = 2
           /\ ~objects_in_use_'[c][i].is_sealed /\ ~objects_in_use_'[c][i].remote
           /\ handles'[c][i] = handles[c][i] + 1
  <2> DEFINE entry == [count |-> 2, is_sealed |-> FALSE, remote |-> FALSE]
             Entries == [i \in ObjectIDs |->
                           IF i \in call[c].got THEN entry ELSE objects_in_use_[c][i]]
             Handles == [i \in ObjectIDs |->
                           IF i \in call[c].got THEN handles[c][i] + 1 ELSE handles[c][i]]
  <2>1. /\ entry \in Entry /\ entry.count = 2
        /\ ~entry.is_sealed /\ ~entry.remote
    BY DEF Entry
  <2>2. \A i \in call[c].got : Increment(objects_in_use_[c][i], 2, FALSE, FALSE) = entry
    BY <1>7 DEF Increment, InUse
  <2>3. objects_in_use_' = [objects_in_use_ EXCEPT ![c] = [i \in ObjectIDs |->
          IF i \in call[c].got THEN Increment(objects_in_use_[c][i], 2, FALSE, FALSE)
                               ELSE objects_in_use_[c][i]]]
    BY DEF CreateReply, TypeOK
  <2> HIDE DEF entry
  <2>4. objects_in_use_' = [objects_in_use_ EXCEPT ![c] = Entries]
    BY <2>2, <2>3
  <2>5. handles' = [handles EXCEPT ![c] = Handles]
    BY DEF CreateReply, TypeOK
  <2>6. Entries \in [ObjectIDs -> Entry] /\ Handles \in [ObjectIDs -> Nat]
    BY <2>1 DEF TypeOK
  <2>7. objects_in_use_'[c] = Entries /\ handles'[c] = Handles
    BY <2>4, <2>5 DEF TypeOK
  <2> QED
    BY <1>6, <2>1, <2>4, <2>5, <2>6, <2>7 DEF TypeOK
<1>9. TypeOK'
  BY <1>1, <1>2, <1>3, <1>4, <1>5, <1>6, <1>7, <1>8 DEF TypeOK, Returned
<1>10. StoreInv'
  BY <1>1, <1>2, <1>3, <1>4, <1>5, <1>6, <1>7, <1>8 DEF StoreInv
<1>11. ReleasesAreHeld'
  BY <1>1, <1>2, <1>3, <1>4, <1>5, <1>6, <1>7, <1>8 DEF ReleasesAreHeld
<1>12. \A d \in Clients \ {c} : Unaffected(d)
  BY <1>1, <1>2, <1>3, <1>4, <1>5, <1>6, <1>7, <1>8 DEF Unaffected,
     CreateReply, TypeOK, Returned
<1>13. ClientOK(c)'
  <2>1. LocalOK(c)'
    <3>1. c \in attached /\ c \in connected
      BY <1>1, <1>4
    <3> SUFFICES ASSUME NEW i \in ObjectIDs, InUse(c, i)', objects_in_use_'[c][i].remote
                 PROVE  i \in PeerHas /\ objects_in_use_'[c][i].is_sealed
      BY <1>3, <3>1 DEF LocalOK
    <3>2. i \notin call[c].got
      BY <1>8
    <3>3. objects_in_use_'[c][i] = objects_in_use_[c][i]
      BY <1>8, <3>2
    <3> QED
      BY <1>2, <3>3 DEF LocalOK, InUse
  <2>2. ReleaseOK(c)'
    BY <1>1, <1>2, <1>3, <1>4, <1>5, <1>6, <1>7, <1>8 DEF ReleaseOK,
       InUse, Returned
  <2>3. CallOK(c)'
    BY <1>1, <1>2, <1>3, <1>4, <1>5, <1>6, <1>7, <1>8 DEF CallOK,
       Returned
  <2>4. Counted(c)'
    <3> SUFFICES ASSUME NEW i \in ObjectIDs
                 PROVE  objects_in_use_'[c][i].count = handles'[c][i] + OwnReference(c, i)'
      BY DEF Counted
    <3>1. ~Calling(c, "seal", i) /\ ~Calling(c, "seal", i)'
      BY <1>4, <1>5 DEF Calling, Returned
    <3>2. objects_in_use_[c][i].count = handles[c][i] + OwnReference(c, i)
      BY <1>2 DEF Counted
    <3>3. handles[c][i] \in Nat /\ objects_in_use_[c][i].count \in Nat
      BY DEF TypeOK, Entry
    <3>4. CASE i \in call[c].got
      <4>1. objects_in_use_[c][i].count = 0 /\ OwnReference(c, i) = 0
        BY <1>7, <3>3, <3>4 DEF OwnReference, InUse
      <4>2. OwnReference(c, i)' = 1
        BY <1>8, <3>4 DEF OwnReference, InUse
      <4> QED
        BY <1>8, <3>2, <3>3, <3>4, <4>1, <4>2
    <3>5. CASE i \notin call[c].got
      BY <1>8, <3>1, <3>2, <3>5 DEF OwnReference, InUse
    <3> QED
      BY <3>4, <3>5
  <2>5. WaitOK(c)'
    BY <1>1, <1>2, <1>3, <1>4, <1>5, <1>6, <1>7, <1>8 DEF WaitOK, InUse,
       Returned
  <2>6. Held(c)'
    <3> SUFFICES ASSUME NEW i \in ObjectIDs, InUse(c, i)', ~objects_in_use_'[c][i].remote
                 PROVE  /\ c \in holders[i] /\ releases[c][i] = 0
                        /\ table[i].state =
                             IF objects_in_use_'[c][i].is_sealed THEN "SEALED" ELSE "CREATED"
      BY <1>3, <1>5 DEF Held, Calling, Returned
    <3>1. CASE i \in call[c].got
      BY <1>7, <1>8, <3>1
    <3>2. CASE i \notin call[c].got
      <4>1. objects_in_use_'[c][i] = objects_in_use_[c][i] /\ InUse(c, i)
        BY <1>8, <3>2 DEF InUse
      <4> QED
        BY <1>2, <1>4, <4>1 DEF Held, Calling
    <3> QED
      BY <3>1, <3>2
  <2>7. Remembered(c)'
    <3> SUFFICES ASSUME NEW i \in ObjectIDs, c \in holders[i]
                 PROVE  InUse(c, i)' \/ releases'[c][i] > 0
      BY <1>3 DEF Remembered
    <3>1. CASE i \in call[c].got
      BY <1>8, <3>1 DEF InUse
    <3>2. CASE i \notin call[c].got
      BY <1>2, <1>3, <1>4, <1>8, <3>2 DEF Remembered, InUse, Calling
    <3> QED
      BY <3>1, <3>2
  <2> QED
    BY <2>1, <2>2, <2>3, <2>4, <2>5, <2>6, <2>7 DEF ClientOK
<1> QED
  BY <1>9, <1>10, <1>11, <1>12, <1>13, StepOfOne

(* The reply to Get: an object that was not in use and sealed when the Get *)
(* began is not in use now, else the store would have it unsealed for the  *)
(* client.                                                                 *)
LEMMA KeepsGetReply ==
  ASSUME IInv, NEW c \in Clients, GetReply(c)
  PROVE  IInv'
<1> USE Records DEF IInv
<1>1. connected \subseteq attached /\ attached \subseteq Clients
  BY DEF TypeOK
<1>2. /\ LocalOK(c) /\ ReleaseOK(c) /\ CallOK(c) /\ Counted(c)
      /\ c \in connected => WaitOK(c) /\ Held(c) /\ Remembered(c)
  BY DEF ClientOK
<1>3. UNCHANGED <<deletion_cache_, connected, releases, table, holders,
                  attached, crashed>>
  BY DEF GetReply, clientVars, storeVars
<1>4. c \in connected /\ call[c].op = "get" /\ call[c].done
  BY DEF GetReply, Replied
<1>5. Returned(c)
  BY SendNothing DEF GetReply
<1>6. call[c].got \subseteq ListSet(call[c].ids) /\ call[c].ids \in Seq(ObjectIDs)
  BY <1>2, <1>4 DEF TypeOK, Call, CallOK
<1>7. \A i \in call[c].got :
        i \in ObjectIDs /\ Occurrences(call[c].ids, i) \in Nat \ {0}
  BY <1>6, OccurrencesFacts
<1>8. \A i \in ObjectIDs : releases[c][i] = 0
  BY <1>2, <1>4 DEF ReleaseOK
<1>9. \A i \in call[c].got :
        /\ i \in call[c].filled => InUse(c, i)
        /\ i \notin PeerHas => c \in holders[i] /\ table[i].state = "SEALED"
  BY <1>2, <1>4, <1>6 DEF WaitOK, CallOK
<1>10. \A i \in call[c].got \ call[c].filled : ~InUse(c, i)
  <2> SUFFICES ASSUME NEW i \in call[c].got \ call[c].filled, InUse(c, i)
               PROVE  FALSE
    OBVIOUS
  <2>1. ~objects_in_use_[c][i].is_sealed /\ i \in ObjectIDs
    BY <1>2, <1>4, <1>6, <1>7 DEF WaitOK
  <2>2. ~objects_in_use_[c][i].remote
    BY <1>2, <2>1 DEF LocalOK
  <2>3. c \in holders[i] /\ table[i].state = "CREATED"
    BY <1>2, <1>4, <2>1, <2>2 DEF Held
  <2>4. i \notin PeerHas
    BY <2>1, <2>3 DEF StoreInv
  <2> QED
    BY <1>9, <2>3, <2>4
<1>11. /\ objects_in_use_' \in [Clients -> [ObjectIDs -> Entry]]
       /\ handles' \in [Clients -> [ObjectIDs -> Nat]]
       /\ \A i \in ObjectIDs \ (call[c].got \ call[c].filled) :
            /\ objects_in_use_'[c][i] = objects_in_use_[c][i]
            /\ handles'[c][i] = handles[c][i]
       /\ \A i \in call[c].got \ call[c].filled :
            /\ objects_in_use_'[c][i].count = Occurrences(call[c].ids, i)
            /\ objects_in_use_'[c][i].is_sealed
            /\ objects_in_use_'[c][i].remote <=> i \in PeerHas
            /\ handles'[c][i] = handles[c][i] + Occurrences(call[c].ids, i)
  <2> DEFINE new == call[c].got \ call[c].filled
             n(i) == Occurrences(call[c].ids, i)
             entry(i) == [count |-> n(i), is_sealed |-> TRUE, remote |-> i \in PeerHas]
             Entries == [i \in ObjectIDs |->
                           IF i \in new THEN entry(i) ELSE objects_in_use_[c][i]]
             Handles == [i \in ObjectIDs |->
                           IF i \in new THEN handles[c][i] + n(i) ELSE handles[c][i]]
  <2>1. \A i \in new :
          /\ entry(i) \in Entry /\ entry(i).count = n(i)
          /\ entry(i).is_sealed /\ (entry(i).remote <=> i \in PeerHas)
    <3> SUFFICES ASSUME NEW i \in new
                 PROVE  /\ entry(i) \in Entry /\ entry(i).count = n(i)
                        /\ entry(i).is_sealed /\ (entry(i).remote <=> i \in PeerHas)
      OBVIOUS
    <3>1. n(i) \in Nat
      BY <1>7
    <3> HIDE DEF n
    <3>2. CASE i \in PeerHas
      <4>1. entry(i) = [count |-> n(i), is_sealed |-> TRUE, remote |-> TRUE]
        BY <3>2
      <4> HIDE DEF entry
      <4> QED
        BY <3>1, <3>2, <4>1 DEF Entry
    <3>3. CASE i \notin PeerHas
      <4> DEFINE there == i \in PeerHas
      <4>1. there = FALSE
        BY <3>3
      <4>2. entry(i) = [count |-> n(i), is_sealed |-> TRUE, remote |-> there]
        OBVIOUS
      <4> HIDE DEF there, entry
      <4>3. entry(i) = [count |-> n(i), is_sealed |-> TRUE, remote |-> FALSE]
        BY <4>1, <4>2
      <4> QED
        BY <3>1, <3>3, <4>3 DEF Entry
    <3> QED
      BY <3>2, <3>3
  <2>2. \A i \in new : Increment(objects_in_use_[c][i], n(i), TRUE, i \in PeerHas) = entry(i)
    BY <1>10 DEF Increment, InUse
  <2>3. objects_in_use_' = [objects_in_use_ EXCEPT ![c] = [i \in ObjectIDs |->
          IF i \in new THEN Increment(objects_in_use_[c][i], n(i), TRUE, i \in PeerHas)
                      ELSE objects_in_use_[c][i]]]
    BY DEF GetReply, TypeOK
  <2>4. handles' = [handles EXCEPT ![c] = Handles]
    BY DEF GetReply, TypeOK
  <2>5. \A i \in new : i \in ObjectIDs /\ n(i) \in Nat
    BY <1>7
  <2> HIDE DEF entry, n, new
  <2>6. objects_in_use_' = [objects_in_use_ EXCEPT ![c] = Entries]
    BY <2>2, <2>3
  <2>7. Entries \in [ObjectIDs -> Entry] /\ Handles \in [ObjectIDs -> Nat]
    BY <2>1, <2>5 DEF TypeOK
  <2>8. objects_in_use_'[c] = Entries /\ handles'[c] = Handles
    BY <2>4, <2>6 DEF TypeOK
  <2>9. objects_in_use_' \in [Clients -> [ObjectIDs -> Entry]]
    BY <2>6, <2>7 DEF TypeOK
  <2>10. handles' \in [Clients -> [ObjectIDs -> Nat]]
    BY <2>4, <2>7 DEF TypeOK
  <2>11. \A i \in new :
           /\ objects_in_use_'[c][i].count = n(i)
           /\ objects_in_use_'[c][i].is_sealed
           /\ objects_in_use_'[c][i].remote <=> i \in PeerHas
           /\ handles'[c][i] = handles[c][i] + n(i)
    BY <2>1, <2>5, <2>8
  <2>12. \A i \in ObjectIDs \ new :
           objects_in_use_'[c][i] = objects_in_use_[c][i] /\ handles'[c][i] = handles[c][i]
    BY <2>8
  <2> QED
    BY <2>9, <2>10, <2>11, <2>12 DEF new, n
<1>12. TypeOK'
  BY <1>1, <1>2, <1>3, <1>4, <1>5, <1>6, <1>7, <1>8, <1>9, <1>10, <1>11 DEF
     TypeOK, Returned
<1>13. StoreInv'
  BY <1>1, <1>2, <1>3, <1>4, <1>5, <1>6, <1>7, <1>8, <1>9, <1>10, <1>11 DEF
     StoreInv
<1>14. ReleasesAreHeld'
  BY <1>1, <1>2, <1>3, <1>4, <1>5, <1>6, <1>7, <1>8, <1>9, <1>10, <1>11 DEF
     ReleasesAreHeld
<1>15. \A d \in Clients \ {c} : Unaffected(d)
  BY <1>1, <1>2, <1>3, <1>4, <1>5, <1>6, <1>7, <1>8, <1>9, <1>10, <1>11 DEF
     Unaffected, GetReply, TypeOK, Returned
<1>16. ClientOK(c)'
  <2>1. LocalOK(c)'
    BY <1>1, <1>2, <1>3, <1>4, <1>5, <1>6, <1>7, <1>8, <1>9, <1>10, <1>11
       DEF LocalOK, InUse, Returned
  <2>2. ReleaseOK(c)'
    BY <1>1, <1>2, <1>3, <1>4, <1>5, <1>6, <1>7, <1>8, <1>9, <1>10, <1>11
       DEF ReleaseOK, InUse, Returned
  <2>3. CallOK(c)'
    BY <1>1, <1>2, <1>3, <1>4, <1>5, <1>6, <1>7, <1>8, <1>9, <1>10, <1>11
       DEF CallOK, Returned
  <2>4. Counted(c)'
    <3> SUFFICES ASSUME NEW i \in ObjectIDs
                 PROVE  objects_in_use_'[c][i].count = handles'[c][i] + OwnReference(c, i)'
      BY DEF Counted
    <3>1. ~Calling(c, "seal", i) /\ ~Calling(c, "seal", i)'
      BY <1>4, <1>5 DEF Calling, Returned
    <3>2. objects_in_use_[c][i].count = handles[c][i] + OwnReference(c, i)
      BY <1>2 DEF Counted
    <3>3. handles[c][i] \in Nat /\ objects_in_use_[c][i].count \in Nat
      BY DEF TypeOK, Entry
    <3>4. CASE i \in call[c].got \ call[c].filled
      <4>1. objects_in_use_[c][i].count = 0 /\ OwnReference(c, i) = 0
        BY <1>10, <3>3, <3>4 DEF OwnReference, InUse
      <4>2. /\ objects_in_use_'[c][i].count = Occurrences(call[c].ids, i)
            /\ objects_in_use_'[c][i].is_sealed
            /\ handles'[c][i] = handles[c][i] + Occurrences(call[c].ids, i)
            /\ Occurrences(call[c].ids, i) \in Nat
        BY <1>7, <1>11, <3>4
      <4>3. OwnReference(c, i)' = 0
        BY <3>1, <4>2 DEF OwnReference
      <4> QED
        BY <3>2, <3>3, <4>1, <4>2, <4>3
    <3>5. CASE i \notin call[c].got \ call[c].filled
      BY <1>11, <3>1, <3>2, <3>5 DEF OwnReference, InUse
    <3> QED
      BY <3>4, <3>5
  <2>5. WaitOK(c)'
    BY <1>1, <1>2, <1>3, <1>4, <1>5, <1>6, <1>7, <1>8, <1>9, <1>10, <1>11
       DEF WaitOK, InUse, Returned
  <2>6. Held(c)'
    <3> SUFFICES ASSUME NEW i \in ObjectIDs, InUse(c, i)', ~objects_in_use_'[c][i].remote
                 PROVE  /\ c \in holders[i]
                        /\ table[i].state =
                             IF objects_in_use_'[c][i].is_sealed THEN "SEALED" ELSE "CREATED"
      BY <1>3, <1>5, <1>8 DEF Held, Calling, Returned
    <3>1. CASE i \in call[c].got \ call[c].filled
      BY <1>9, <1>11, <3>1
    <3>2. CASE i \notin call[c].got \ call[c].filled
      <4>1. objects_in_use_'[c][i] = objects_in_use_[c][i] /\ InUse(c, i)
        BY <1>11, <3>2 DEF InUse
      <4> QED
        BY <1>2, <1>4, <4>1 DEF Held, Calling
    <3> QED
      BY <3>1, <3>2
  <2>7. Remembered(c)'
    <3> SUFFICES ASSUME NEW i \in ObjectIDs, c \in holders[i]
                 PROVE  InUse(c, i)'
      BY <1>3 DEF Remembered
    <3>1. CASE i \in call[c].got \ call[c].filled
      <4>1. /\ objects_in_use_'[c][i].count = Occurrences(call[c].ids, i)
            /\ Occurrences(call[c].ids, i) \in Nat \ {0}
        BY <1>7, <1>11, <3>1
      <4> QED
        BY <4>1 DEF InUse
    <3>2. CASE i \notin call[c].got \ call[c].filled
      <4>1. InUse(c, i)
        BY <1>2, <1>4, <1>8, <1>9, <3>2 DEF Remembered, Calling
      <4> QED
        BY <1>11, <3>2, <4>1 DEF InUse
    <3> QED
      BY <3>1, <3>2
  <2> QED
    BY <2>1, <2>2, <2>3, <2>4, <2>5, <2>6, <2>7 DEF ClientOK
<1> QED
  BY <1>12, <1>13, <1>14, <1>15, <1>16, StepOfOne

(* Only what nobody uses is evicted, so no client notices.                 *)
LEMMA KeepsStoreEvicts ==
  ASSUME IInv, NEW id \in ObjectIDs, StoreEvicts(id)
  PROVE  IInv'
<1> USE Records DEF IInv
<1>1. UNCHANGED <<objects_in_use_, deletion_cache_, connected, handles, call,
                  releases, attached, holders, crashed>>
  BY DEF StoreEvicts, clientVars, Store!Drop
<1>2. /\ table[id].state = "SEALED" /\ holders[id] = {}
      /\ table' = [table EXCEPT ![id] = Store!Absent]
  BY DEF StoreEvicts, Store!Drop
<1>3. /\ table' \in [ObjectIDs -> [state : {"ABSENT", "CREATED", "SEALED"}, size : Nat]]
      /\ table'[id] = Store!Absent
      /\ \A i \in ObjectIDs \ {id} : table'[i] = table[i]
  BY <1>2 DEF TypeOK
<1>4. TypeOK'
  BY <1>1, <1>3 DEF TypeOK
<1>5. StoreInv'
  BY <1>1, <1>2, <1>3 DEF StoreInv
<1>6. ReleasesAreHeld'
  BY <1>1 DEF ReleasesAreHeld
<1>7. \A d \in Clients : Unaffected(d)
  BY <1>1, <1>2, <1>3 DEF Unaffected
<1> QED
  BY <1>4, <1>5, <1>6, <1>7, UnaffectedClient

------------------------------------------------------------------------------
(* A system in which nobody has connected yet satisfies the invariant.     *)
LEMMA InitIInv == Init => IInv
<1> SUFFICES ASSUME Init
             PROVE  IInv
  OBVIOUS
<1> USE Records
<1>1. /\ connected = {} /\ attached = {} /\ crashed = FALSE
      /\ objects_in_use_ = [c \in Clients |-> [id \in ObjectIDs |-> NotInUse]]
      /\ deletion_cache_ = [c \in Clients |-> {}]
      /\ call = [c \in Clients |-> NoCall]
      /\ handles = [c \in Clients |-> [id \in ObjectIDs |-> 0]]
      /\ releases = [c \in Clients |-> [id \in ObjectIDs |-> 0]]
      /\ table = [id \in ObjectIDs |-> Store!Absent]
      /\ holders = [id \in ObjectIDs |-> {}]
  BY DEF Init, Store!Init
<1>2. TypeOK
  BY <1>1 DEF TypeOK
<1>3. StoreInv /\ ReleasesAreHeld
  BY <1>1 DEF StoreInv, ReleasesAreHeld
<1>4. ASSUME NEW c \in Clients PROVE ClientOK(c)
  <2>1. /\ call[c] = NoCall /\ c \notin connected
        /\ \A id \in ObjectIDs : /\ objects_in_use_[c][id] = NotInUse /\ ~InUse(c, id)
                                 /\ handles[c][id] = 0 /\ releases[c][id] = 0
    BY <1>1 DEF InUse
  <2>2. LocalOK(c) /\ ReleaseOK(c)
    BY <2>1 DEF LocalOK, ReleaseOK
  <2>3. CallOK(c)
    BY <2>1 DEF CallOK
  <2>4. Counted(c)
    BY <2>1 DEF Counted, OwnReference
  <2> QED
    BY <2>1, <2>2, <2>3, <2>4 DEF ClientOK
<1> QED
  BY <1>2, <1>3, <1>4 DEF IInv

(* The invariant says nothing of a step that changes nothing.              *)
LEMMA StutterIInv == IInv /\ UNCHANGED vars => IInv'
<1> SUFFICES ASSUME IInv, UNCHANGED vars
             PROVE  IInv'
  OBVIOUS
<1> USE DEF vars, IInv
<1>1. TypeOK' /\ StoreInv' /\ ReleasesAreHeld'
  BY DEF TypeOK, StoreInv, ReleasesAreHeld
<1>2. \A d \in Clients : Unaffected(d)
  BY DEF Unaffected
<1> QED
  BY <1>1, <1>2, UnaffectedClient

(* Every step of a client, of the store for it, and of the store by itself *)
(* preserves the invariant, if no program releases an object of the peer.  *)
LEMMA NextIInv ==
  ASSUME ~ReleaseRemote, IInv, [Next]_vars
  PROVE  IInv'
<1>1. CASE UNCHANGED vars
  BY <1>1, StutterIInv
<1>2. ASSUME NEW c \in Clients, ClientStep(c) PROVE IInv'
  <2>1. ASSUME NEW id \in ObjectIDs,
               \/ Create(c, id) \/ CreateAndSeal(c, id) \/ Seal(c, id)
               \/ Abort(c, id) \/ Release(c, id)
        PROVE  IInv'
    BY <2>1, KeepsCreate, KeepsCreateAndSeal, KeepsSeal, KeepsAbort, KeepsRelease
  <2>2. ASSUME NEW ids \in GetLists, NEW forever \in BOOLEAN, Get(c, ids, forever)
        PROVE  IInv'
    BY <2>2, KeepsGet
  <2>3. ASSUME NEW ids \in DeleteLists, Delete(c, ids) PROVE IInv'
    BY <2>3, KeepsDelete
  <2>4. CASE CreateReply(c) \/ GetReply(c) \/ SealReply(c) \/ Return(c)
    BY <2>4, KeepsCreateReply, KeepsGetReply, KeepsSealReply, KeepsReturn
  <2>5. CASE Connect(c) \/ Disconnect(c)
    BY <2>5, KeepsConnect, KeepsDisconnect
  <2> QED
    BY <1>2, <2>1, <2>2, <2>3, <2>4, <2>5 DEF ClientStep
<1>3. ASSUME NEW c \in Clients, StoreStep(c) PROVE IInv'
  <2>1. ASSUME NEW id \in ObjectIDs,
               StoreReleases(c, id) \/ StoreAcquires(c, id) \/ StoreFindsRemote(c, id)
        PROVE  IInv'
    BY <2>1, KeepsStoreReleases, KeepsStoreAcquires, KeepsStoreFindsRemote
  <2>2. CASE StoreCreates(c) \/ StoreRefuses(c) \/ StoreCreatesAndSeals(c)
    BY <2>2, KeepsStoreCreates, KeepsStoreRefuses, KeepsStoreCreatesAndSeals
  <2>3. CASE StoreAnswersGet(c) \/ StoreSeals(c) \/ StoreAborts(c)
    BY <2>3, KeepsStoreAnswersGet, KeepsStoreSeals, KeepsStoreAborts
  <2>4. CASE StoreDeletes(c) \/ StoreDisconnects(c)
    BY <2>4, KeepsStoreDeletes, KeepsStoreDisconnects
  <2> QED
    BY <1>3, <2>1, <2>2, <2>3, <2>4 DEF StoreStep
<1>4. ASSUME NEW id \in ObjectIDs, StoreEvicts(id) PROVE IInv'
  BY <1>4, KeepsStoreEvicts
<1> QED
  BY <1>1, <1>2, <1>3, <1>4 DEF Next

------------------------------------------------------------------------------
(* client.cc and store.cc keep the invariant at every step, whatever the   *)
(* clients ask for and whenever they are gone.                             *)
THEOREM ClientInvariant == ASSUME ~ReleaseRemote PROVE Spec => []IInv
<1>1. IInv /\ [Next]_vars => IInv'
  BY NextIInv
<1> QED
  BY <1>1, InitIInv, PTL DEF Spec

(* Client and store always have values of their types.                     *)
THEOREM ClientTypeOK == ASSUME ~ReleaseRemote PROVE Spec => []TypeOK
<1>1. IInv => TypeOK
  BY DEF IInv
<1> QED
  BY <1>1, ClientInvariant, PTL

(* objects_in_use_ counts what the program has to release, and one more    *)
(* before the object is sealed.                                            *)
THEOREM ClientCountsHandles == ASSUME ~ReleaseRemote PROVE Spec => []CountsHandles
<1>1. IInv => CountsHandles
  BY DEF IInv, ClientOK, CountsHandles
<1> QED
  BY <1>1, ClientInvariant, PTL

(* No buffer of a connected client dangles: the store has the object, in   *)
(* the state the client believes it in, and knows that the client uses it. *)
THEOREM ClientHeldWhileInUse == ASSUME ~ReleaseRemote PROVE Spec => []HeldWhileInUse
<1>1. IInv => HeldWhileInUse
  BY DEF IInv, ClientOK, HeldWhileInUse, TypeOK
<1> QED
  BY <1>1, ClientInvariant, PTL

(* What the store keeps for a connected client is in use there, about to   *)
(* be released, or part of the call in progress.                           *)
THEOREM ClientNothingForgotten == ASSUME ~ReleaseRemote PROVE Spec => []NothingForgotten
<1>1. IInv => NothingForgotten
  BY DEF IInv, ClientOK, NothingForgotten, TypeOK
<1> QED
  BY <1>1, ClientInvariant, PTL

(* The check of the store on a Release never fails: also when the client   *)
(* has disconnected, calls again or aborts before the store reads it.      *)
THEOREM ClientReleasesAreHeld == ASSUME ~ReleaseRemote PROVE Spec => []ReleasesAreHeld
<1>1. IInv => ReleasesAreHeld
  BY DEF IInv
<1> QED
  BY <1>1, ClientInvariant, PTL
=============================================================================
