CONSTANTS
  MaxData = 3
  MaxFrameLen = 2
  InFlightMax = 2
  MaxFaults = 0
  MaxPn = 4
  MaxAcks = 1
SPECIFICATION Spec
PROPERTY OnlyUnackedRetransmitted
