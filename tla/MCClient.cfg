SPECIFICATION Spec
CONSTANTS
  Clients = {c1, c2}
  ObjectIDs = {o1, o2}
  GetLists <- Lists
  DeleteLists <- Singles
  PeerHas = {o2}
  ReleaseRemote = FALSE
  MaxHandles = 2
SYMMETRY Symmetry
INVARIANTS
  TypeOK
  CountsHandles
  HeldWhileInUse
  NothingForgotten
  ReleasesAreHeld
