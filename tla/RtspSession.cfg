SPECIFICATION FairSpec
CONSTANTS
  c1 = c1
  c2 = c2
  t0 = t0
  f1 = f1
  f2 = f2
  f3 = f3
  Conns <- TwoConns
  Tracks <- OneTrack
  Fds <- ThreeFds
  Tries = 2
INVARIANTS
  Inv
  SocketsOwned
PROPERTIES
  SentToItsClient
  PlayedIsServed
