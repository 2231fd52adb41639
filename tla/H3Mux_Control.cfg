CONSTANTS
  Sids = {1, 2}
  GoawayLasts = {0}
  MaxConcurrent = 1
  MaxFrames = 4
  DbufMax = 1
  AppOps = {"send", "subscribe", "unsubscribe", "detach"}
  Frames <- ControlFrames
SPECIFICATION FairSpec
INVARIANTS StreamCountConsistent NoDummyWrite
PROPERTY ErrorLeadsToRelease
CHECK_DEADLOCK FALSE
