------------------------------- MODULE MCStore -------------------------------
(* Small instances of PlasmaStore for TLC.                                  *)
EXTENDS PlasmaStore

Symmetry == Permutations(Clients) \cup Permutations(ObjectIDs)

(* Lists of one or two different objects.                                  *)
Singles == {<<id>> : id \in ObjectIDs}
Pairs == {<<i, j>> : i, j \in ObjectIDs}
Lists == Singles \cup {s \in Pairs : s[1] # s[2]}

(* Lists that may name an object twice.                                    *)
RepeatedLists == {<<i, i, j>> : i, j \in ObjectIDs}

Blocking == {Forever, 1000}
Waits == {Forever, 0, 1000}
=============================================================================
