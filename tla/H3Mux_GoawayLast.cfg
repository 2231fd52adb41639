CONSTANTS
  Sids = {1}
  GoawayLasts = {0}
  MaxConcurrent = 1
  MaxFrames = 4
  DbufMax = 1
  AppOps = {}
  Frames <- StreamFrames
SPECIFICATION Spec
INVARIANT GoawayLastCoversProcessed
CHECK_DEADLOCK FALSE
