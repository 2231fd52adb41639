SPECIFICATION FairSpec
CONSTANTS
  Strms = {1, 2}
  WinBits = 3
  InitWin = 2
  Mfs = 2
  MaxBody = 3
  Incs = {0, 1, 3}
  Iws = {0, 3, 5}
  MaxPeer = 3
INVARIANT TypeOK
INVARIANT NoStaleSfctl
PROPERTY NoOverSend
 
