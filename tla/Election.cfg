CONSTANTS
  Peers <- TwoPeers
  ElectionTime = 1
  AliveTime = 2
  Prompt = TRUE
  MaxFaults = 3
SPECIFICATION FairSpec
INVARIANTS ElectionTypeOK AtMostOneLeader
PROPERTIES OneLeader LeaderDelivers
