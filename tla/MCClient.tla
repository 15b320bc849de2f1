------------------------------ MODULE MCClient ------------------------------
(* Small instances of PlasmaClient for TLC.                                 *)
EXTENDS PlasmaClient, TLC

Symmetry == Permutations(Clients)

(* One object, two, and one named twice.                                   *)
Lists ==
  {<<id>> : id \in ObjectIDs} \cup {<<i, j>> : i, j \in ObjectIDs}

Singles == {<<id>> : id \in ObjectIDs}
=============================================================================
