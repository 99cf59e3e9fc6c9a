CONSTANTS
  a = a
  b = b
  c = c
  TicketIDs <- MCTicketIDs
  CreatedAts <- MCCreatedAts
  MaxDocID = 2
  MaxTickets = 3
  MaxGroup = 2
SPECIFICATION Spec
SYMMETRY Symmetry
INVARIANTS
  DocIDsPartitioned
  IndexesAgree
  OldestIsExact
  ExhaustedOnlyWhenFull
PROPERTIES
  CommitAllOrNothing
  ImplementsPool
CHECK_DEADLOCK FALSE
