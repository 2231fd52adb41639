CONSTANTS
  MaxData = 4
  MaxFrameLen = 1
  InFlightMax = 3
  MaxFaults = 0
  MaxPn = 5
  MaxAcks = 1
SPECIFICATION Spec
INVARIANT CryptoNeverForgotten
