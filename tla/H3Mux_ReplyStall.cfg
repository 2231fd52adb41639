CONSTANTS
  Sids = {1}
  GoawayLasts = {0}
  MaxConcurrent = 1
  MaxFrames = 3
  DbufMax = 1
  AppOps = {}
  Frames <- ControlFrames
SPECIFICATION FairSpec
PROPERTY ReplyEventuallySent
CHECK_DEADLOCK FALSE
