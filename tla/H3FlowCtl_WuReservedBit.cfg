SPECIFICATION Spec
CONSTANTS
  Strms = {1}
  WinBits = 3
  InitWin = 2
  Mfs = 2
  MaxBody = 3
  Incs = {1, 5}
  Iws = {0}
  MaxPeer = 3
PROPERTIES NoOverSend
