SPECIFICATION Spec
CONSTANTS
  ObjectIDs = {o1, o2}
  Clients = {c1, c2}
  NoClient = NoClient
  Limit = 5
  Sizes = {2}
  Quotas = {}
  EvictBytes = {}
  CreateLists <- Singles
  GetLists <- RepeatedLists
  Timeouts <- Blocking
  EvictIfFull = {TRUE}
  PeerAnswers = {"MISSING"}
  Fragments = FALSE
  Requests = {"Disconnect"}
SYMMETRY Symmetry
PROPERTY
  GetBlocks
