SPECIFICATION FairSpec
CONSTANTS
  p1 = p1
  p2 = p2
  Top = 5
  Peers = {p1, p2}
  Heights <- Ahead
  MaxBlockDistance = 1
  AntiEntropyBatchSize = 1
  AntiEntropyMaxRetries = 1
  ChannelBufferSize = 1
  Gossiping = TRUE
  MaxFaults = 1
INVARIANTS DeliveryTypeOK  NoLostWakeUp
 
CHECK_DEADLOCK FALSE
