CONSTANTS
  Peers <- TwoPeers
  ElectionTime = 1
  AliveTime = 2
  Prompt = TRUE
  MaxFaults = 1
SPECIFICATION FairSpec
PROPERTY OnePuller
