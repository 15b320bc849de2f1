--------------------------- MODULE ObjectStoreSpec ---------------------------
(***************************************************************************)
(* What a Plasma store promises its clients: an object is written by one   *)
(* client, sealed once, immutable and present for as long as a client      *)
(* holds it, and gone only when nobody does.  Memory, eviction order, get  *)
(* requests and notifications are left open.                               *)
(***************************************************************************)
EXTENDS Integers

CONSTANTS ObjectIDs, Clients, Sizes

VARIABLES
  table,    \* the state and size of each object
  holders   \* the clients that use it

Absent == [state |-> "ABSENT", size |-> 0]

Init ==
  /\ table = [id \in ObjectIDs |-> Absent]
  /\ holders = [id \in ObjectIDs |-> {}]

Create(c, id, n) ==
  /\ table[id] = Absent
  /\ table' = [table EXCEPT ![id] = [state |-> "CREATED", size |-> n]]
  /\ holders' = [holders EXCEPT ![id] = {c}]

Seal(id) ==
  /\ table[id].state = "CREATED"
  /\ table' = [table EXCEPT ![id].state = "SEALED"]
  /\ UNCHANGED holders

Acquire(c, id) ==
  /\ table[id].state = "SEALED"
  /\ holders' = [holders EXCEPT ![id] = @ \cup {c}]
  /\ UNCHANGED table

(* The last holder's release may delete the object.                        *)
Release(c, id) ==
  /\ table[id].state = "SEALED"
  /\ c \in holders[id]
  /\ holders' = [holders EXCEPT ![id] = @ \ {c}]
  /\ \/ UNCHANGED table
     \/ holders[id] = {c} /\ table' = [table EXCEPT ![id] = Absent]

(* A client gives up objects that only it could see.                       *)
Discard(c, ids) ==
  /\ \A id \in ids : table[id].state = "CREATED" /\ holders[id] = {c}
  /\ table' = [id \in ObjectIDs |-> IF id \in ids THEN Absent ELSE table[id]]
  /\ holders' = [id \in ObjectIDs |-> IF id \in ids THEN {} ELSE holders[id]]

Drop(id) ==
  /\ table[id].state = "SEALED"
  /\ holders[id] = {}
  /\ table' = [table EXCEPT ![id] = Absent]
  /\ UNCHANGED holders

Next ==
  \/ \E id \in ObjectIDs : Seal(id) \/ Drop(id)
  \/ \E c \in Clients, id \in ObjectIDs : Acquire(c, id) \/ Release(c, id)
  \/ \E c \in Clients, id \in ObjectIDs, n \in Sizes : Create(c, id, n)
  \/ \E c \in Clients, ids \in SUBSET ObjectIDs : Discard(c, ids)

Spec == Init /\ [][Next]_<<table, holders>>
=============================================================================
