\* Connect is pressed again; nothing is lost.
SPECIFICATION FairSpec
CONSTANTS
  Clients = {c1}
  Addrs = {a1, a2}
  NoAddr = NoAddr
  RecvThreads = {t1, t2}
  MayFail = FALSE
  ReusePorts = FALSE
  Lossy = {}
  MayRepeat = FALSE
  MaxPresses = 2
  MaxAsks = 1
  MaxCumts = 2
PROPERTY ConnectReturns
CHECK_DEADLOCK FALSE
