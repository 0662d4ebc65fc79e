\* Two clients; requests and ACKs may be lost, handshake packets not.
SPECIFICATION FairSpec
CONSTANTS
  Clients = {c1, c2}
  Addrs = {a1, a2}
  NoAddr = NoAddr
  RecvThreads = {t1}
  MayFail = FALSE
  ReusePorts = FALSE
  Lossy = {"ACK", "DATA"}
  MayRepeat = FALSE
  MaxPresses = 1
  MaxAsks = 1
  MaxCumts = 2
INVARIANTS AckedIsKept OneReader
PROPERTIES ConnectReturns ConnectedIsAccepted RequestAnswered
CHECK_DEADLOCK FALSE
