\* The server answering one client, under fair loss: one Send of a full packet
\* and a remainder.
SPECIFICATION FairSpec
CONSTANTS
  Peers = {client}
  Senders = {worker}
  RecvThreads = {r1}
  IsCli = FALSE
  DataLen = 2
  SendLens = {3}
  RecvLens = {4}
  SendLimit = 0
  DwordMod = 4
  NumbersDamaged = FALSE
  MaxPackets = 2
INVARIANT InOrder
PROPERTIES EventuallyRead EventuallyAcked
CHECK_DEADLOCK FALSE
