CONSTANTS
  MaxPn = 2
  WordBits = 3
  CryptoLen = 2
  PnLens = {1, 2}
  ByteBits = 1
  MaxRecv = 3
SPECIFICATION RxSpec
INVARIANTS RxTypeOK RangesCanonical SizeCounted CryptoInOrder AckedOnlyIntact
CHECK_DEADLOCK FALSE
