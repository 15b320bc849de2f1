SPECIFICATION FairSpec
CONSTANTS
  o1 = o1
  o2 = o2
  ObjectIDs = {o1, o2}
  Creates <- OneProducer
  Gets <- OneConsumer
  Pool <- BothTight
  External = {1}
  Mortal = {}
  NoObject = NoObject
CHECK_DEADLOCK FALSE
PROPERTY HandlersEnd
