SPECIFICATION FairSpec
CONSTANTS
  ObjectIDs = {o1, o2}
  Clients = {c1, c2}
  Fds = {f1, f2}
  NoFd = NoFd
  Room = 1
  MaxChanges = 3
  Mortal = {c1}
  Faulty = {f1}
INVARIANTS
  TypeOK
  NothingLostOrRepeated
  CallbackIffPending
  CrashNeedsHangUp
PROPERTIES
  SubscribersCatchUp
CHECK_DEADLOCK FALSE
