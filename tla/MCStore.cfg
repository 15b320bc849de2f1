SPECIFICATION Spec
CONSTANTS
  ObjectIDs = {o1, o2}
  Clients = {c1, c2, c3}
  NoClient = NoClient
  Limit = 5
  Sizes = {2}
  Quotas = {}
  EvictBytes = {1}
  CreateLists <- Lists
  GetLists <- Lists
  Timeouts <- Waits
  EvictIfFull = {TRUE, FALSE}
  PeerAnswers = {"MISSING", "UNSEALED"}
  Fragments = TRUE
  Requests = {"Abort", "Delete", "Disconnect"}
SYMMETRY Symmetry
INVARIANTS
  TypeOK
  RefCountsHolders
  EvictableIffUnused
  NoCheckFailure
  NoWaiterOnSealed
  PendingGetsAreListed
  AllocatedExact
  DeletedWhenReleased
PROPERTIES
  GetBlocks
  Implements
