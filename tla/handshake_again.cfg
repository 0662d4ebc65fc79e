\* One client that connects twice and asks; every datagram may be lost or repeated,
\* calls fail, the client ends at any moment.
SPECIFICATION Spec
CONSTANTS
  Clients = {c1}
  Addrs = {a1, a2, a3}
  NoAddr = NoAddr
  RecvThreads = {t1, t2}
  MayFail = TRUE
  ReusePorts = FALSE
  Lossy = {"SYN", "SYN|ACK", "ACK", "DATA"}
  MayRepeat = TRUE
  MaxPresses = 2
  MaxAsks = 1
  MaxCumts = 2
SYMMETRY Symmetry
INVARIANTS TypeOK NoGhostConnection AckedIsKept OneReader
CHECK_DEADLOCK FALSE
