CONSTANTS
  r1 = r1
  r2 = r2
  r3 = r3
  p1 = p1
  p2 = p2
  Rules <- AllRules
  Placements = {p1}
  Selector = "weighted"
  Weights <- DoubleFirst
  NoKey = NoKey
  MaxWaiting = 1
  RoundLimit = 1
  CallLimit = 1
  MaxPlayers = 1
SPECIFICATION DeploymentSpec
INVARIANTS
  CreditsBounded
PROPERTIES
  NobodyStarves
  MovesForCause
