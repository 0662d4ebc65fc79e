\* Two clients after each other with one address.
SPECIFICATION Spec
CONSTANTS
  Clients = {c1, c2}
  Addrs = {a1}
  NoAddr = NoAddr
  RecvThreads = {t1}
  MayFail = FALSE
  ReusePorts = TRUE
  Lossy = {"SYN", "SYN|ACK", "ACK", "DATA"}
  MayRepeat = TRUE
  MaxPresses = 1
  MaxAsks = 1
  MaxCumts = 2
INVARIANT AckedIsKept
CHECK_DEADLOCK FALSE
