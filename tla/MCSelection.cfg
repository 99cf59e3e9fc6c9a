CONSTANTS
  d = d
  TicketIDs = {a, b, c}
  MaxElements = 5
  Limits <- AnyLimit
  NoKey = NoKey
SPECIFICATION SelectionSpec
SYMMETRY Symmetry
INVARIANTS
  CursorLinked
  RoundFollowsArrival
PROPERTIES
  ImplementsStream
  OtherPoliciesExact
