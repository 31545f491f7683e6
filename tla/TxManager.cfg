SPECIFICATION Spec
CONSTANTS
  PubKeys <- Public
  PvtKey = 4
  Programs <- Three
  BlockSize = 3
  Values = 3
INVARIANTS TxTypeOK Serializable FreshIsValid
CHECK_DEADLOCK FALSE
