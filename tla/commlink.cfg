SPECIFICATION FairSpec
CONSTANTS
  MaxThreads <- Threads
  MaxOverlaps = 1
  OpenFails = TRUE
  LargeData = TRUE
CHECK_DEADLOCK FALSE
INVARIANTS TypeOK LinkIsUp RouteIsThere WaitingIsKnown
PROPERTY LinkRecovers
