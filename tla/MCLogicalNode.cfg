CONSTANTS
  a = a
  b = b
  c = c
  TicketIDs <- MCTicketIDs
  MaxTickets = 4
  RoundLimit = 3
  CallLimit = 2
  MaxPlayers = 2
  MaxGeneration = 2
SPECIFICATION Spec
INVARIANTS
  TypeOK
  SeedsMirrorPool
  TicketsConserved
  SeedsNotRepeated
  CapturedStayEligible
PROPERTIES
  DrainIsFinal
  ImplementsView
  CallReturns
CHECK_DEADLOCK FALSE
