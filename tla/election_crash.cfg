SPECIFICATION BootstrappedSpec
CONSTANTS
  Node = {1, 2}
  Sentinel = {}
  Observer = {}
  Primary = {2}
  Lobe = {}
  Draining = {2}
  Crashing = {1, 2}
  None = 0
  MaxEpoch = 2
  MaxClaims = 1
INVARIANT TypeOK
INVARIANT QuorumRemembers
INVARIANT LeaderIsBacked
PROPERTY NeverReproposes
