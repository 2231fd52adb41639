CONSTANTS
  MaxPn = 2
  WordBits = 3
  CryptoLen = 2
  PnLens = {1}
  ByteBits = 1
  MaxRecv = 3
SPECIFICATION RxSpec
INVARIANT AckedCryptoNotStranded
CHECK_DEADLOCK FALSE
