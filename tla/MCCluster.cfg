SPECIFICATION FairSpec
CONSTANTS
  o1 = o1
  o2 = o2
  ObjectIDs = {o1, o2}
  Creates <- Producers
  Gets <- Consumers
  Pool <- RoomyAndTight
  External = {1}
  Mortal = {1}
  NoObject = NoObject
CHECK_DEADLOCK FALSE
INVARIANTS
  TypeOK
  BlocksAccounted
  LocalReadsIntact
  RemoteReadsFresh
PROPERTIES
  DuplicatesOnlyByRace
  HandlersEnd
