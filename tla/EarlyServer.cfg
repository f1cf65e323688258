SPECIFICATION FairSpec
CONSTANTS
  Programs <- AllPrograms
  Clients = {c1, c2}
  NoClient = NoClient
  MaxRequests = 3
  Units = 2
  MaxFiles = 3
INVARIANTS
  TypeOK
  NoSocketLeft
  PlayedInFull
PROPERTIES
  EveryClientServed
CHECK_DEADLOCK FALSE
