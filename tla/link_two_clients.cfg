\* The server answering two clients through the one m_mpSend.
SPECIFICATION Spec
CONSTANTS
  Peers = {c1, c2}
  Senders = {w1}
  RecvThreads = {r1}
  IsCli = FALSE
  DataLen = 2
  SendLens = {1}
  RecvLens = {2}
  SendLimit = 0
  DwordMod = 4
  NumbersDamaged = FALSE
  MaxPackets = 1
INVARIANT NothingLost
CHECK_DEADLOCK FALSE
