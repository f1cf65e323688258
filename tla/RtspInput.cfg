SPECIFICATION FairSpec
CONSTANTS
  Scripts <- SomeScripts
  Junk <- Nothing
  initialSize = 8
INVARIANT Inv
PROPERTIES
  BytesKept
  AllHandled
CHECK_DEADLOCK FALSE
