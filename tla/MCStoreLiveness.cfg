SPECIFICATION FairSpec
CONSTANTS
  ObjectIDs = {o1, o2}
  Clients = {c1, c2}
  NoClient = NoClient
  Limit = 5
  Sizes = {3}
  Quotas = {}
  EvictBytes = {}
  CreateLists <- Singles
  GetLists <- Lists
  Timeouts <- Blocking
  EvictIfFull = {TRUE}
  PeerAnswers = {"MISSING", "OK"}
  Fragments = TRUE
  Requests = {"Disconnect"}
PROPERTIES
  HandlersEnd
  TimedGetsReturn
