\* The third packet may be lost.
SPECIFICATION FairSpec
CONSTANTS
  Clients = {c1}
  Addrs = {a1}
  NoAddr = NoAddr
  RecvThreads = {t1}
  MayFail = FALSE
  ReusePorts = FALSE
  Lossy = {"SYN|ACK"}
  MayRepeat = FALSE
  MaxPresses = 1
  MaxAsks = 1
  MaxCumts = 2
PROPERTY ConnectedIsAccepted
CHECK_DEADLOCK FALSE
