------------------------------ MODULE MCCluster ------------------------------
(* Small instances of PlasmaCluster for TLC.                                *)
EXTENDS PlasmaCluster

CONSTANTS o1, o2

(* Both stores create o1, only the second creates o2; the first one's      *)
(* client reads both.                                                      *)
Producers == <<{o1}, {o1, o2}>>
Consumers == <<{o1, o2}, {o2}>>

(* Only the first store's client does anything.                            *)
OneProducer == <<{o1, o2}, {}>>
OneConsumer == <<{o1, o2}, {}>>

(* The first store has room for every object, the second for one.          *)
RoomyAndTight == <<{1, 2}, {1}>>

(* Each store has room for one object.                                     *)
BothTight == <<{1}, {1}>>
=============================================================================
