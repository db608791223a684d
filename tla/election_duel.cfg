SPECIFICATION SettleSpec
CONSTANTS
  Node = {1, 2, 3}
  Sentinel = {}
  Observer = {3}
  Primary = {1, 2}
  Lobe = {}
  Draining = {}
  Crashing = {}
  None = 0
  MaxEpoch = 2
  MaxClaims = 0
PROPERTY DuelResolved
CHECK_DEADLOCK FALSE
