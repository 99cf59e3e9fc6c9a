CONSTANTS
  TicketIDs = {a, b, c}
  MaxElements = 5
  Limits = {1, 3}
SPECIFICATION Spec
INVARIANTS
  LateTicketsWait
