\* The network may damage m_nSeq, which the checksum does not cover.
SPECIFICATION Spec
CONSTANTS
  Peers = {server}
  Senders = {gui}
  RecvThreads = {r1}
  IsCli = TRUE
  DataLen = 2
  SendLens = {1}
  RecvLens = {2}
  SendLimit = 0
  DwordMod = 4
  NumbersDamaged = TRUE
  MaxPackets = 2
INVARIANT InOrder
CHECK_DEADLOCK FALSE
