SPECIFICATION FairSpec
CONSTANTS
  Fds <- ThreeFds
  ListenFd = 2
  FdSetSize = 2
  Backlog = 2
  MaxConns = 4
INVARIANTS
  TypeOK
  Consistent
PROPERTIES
  ClosedIsDeleted
