CONSTANTS
  MaxPn = 2
  WordBits = 3
  CryptoLen = 1
  PnLens = {1}
  ByteBits = 1
  MaxRecv = 3
SPECIFICATION RxSpec
INVARIANT DecodeRecoversPn
CHECK_DEADLOCK FALSE
