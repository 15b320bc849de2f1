SPECIFICATION Spec
CONSTANTS
  ObjectIDs = {o1, o2, o3}
  Clients = {c1, c2}
  NoClient = NoClient
  Limit = 8
  Sizes = {2, 3}
  Quotas = {2, 3}
  EvictBytes = {1}
  CreateLists <- Singles
  GetLists <- Singles
  Timeouts = {0}
  EvictIfFull = {TRUE}
  PeerAnswers = {"MISSING"}
  Fragments = TRUE
  Requests = {"Disconnect"}
SYMMETRY Symmetry
INVARIANTS
  QuotaCap
  QueuesDisjoint
  EvictableIffUnused
  NoCheckFailure
  OutOfMemoryMeansInUse
