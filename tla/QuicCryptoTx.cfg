CONSTANTS
  MaxData = 4
  MaxFrameLen = 2
  InFlightMax = 3
  MaxFaults = 1
  MaxPn = 3
  MaxAcks = 1
SPECIFICATION Spec
INVARIANT TypeOK
INVARIANT InFlightAccounting
INVARIANT UniquePn
INVARIANT NoFalseAck
INVARIANT RetransmitPending
