\* A CUMT in client mode with two callers of Send, sending three packets to an
\* end with two RecvThreads.
SPECIFICATION Spec
CONSTANTS
  Peers = {server}
  Senders = {s1, s2}
  RecvThreads = {r1, r2}
  IsCli = TRUE
  DataLen = 2
  SendLens = {2}
  RecvLens = {2}
  SendLimit = 0
  DwordMod = 8
  NumbersDamaged = FALSE
  MaxPackets = 3
SYMMETRY ThreadSymmetry
INVARIANTS TypeOK InOrder NothingLost RecvMapAhead SendMapBounded
PROPERTY ImplementsPipes
CHECK_DEADLOCK FALSE
