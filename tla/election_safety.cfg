SPECIFICATION Spec
CONSTANTS
  Node = {1, 2, 3}
  Sentinel = {3}
  Observer = {}
  Primary = {}
  Lobe = {}
  Draining = {}
  Crashing = {}
  None = 0
  MaxEpoch = 2
  MaxClaims = 0
INVARIANTS
  VoteOnce CountedVotesWereCast ElectedOnce PrimaryIsLeader
CHECK_DEADLOCK FALSE
