CONSTANTS
  Sids = {1}
  GoawayLasts = {0}
  MaxConcurrent = 1
  MaxFrames = 4
  DbufMax = 1
  AppOps = {"send", "shutr", "shutw", "kill", "detach"}
  Frames <- StreamFrames
SPECIFICATION Spec
INVARIANTS TypeOK StreamCountConsistent NoDummyWrite
PROPERTY StreamTransitionsLegal
CHECK_DEADLOCK FALSE
