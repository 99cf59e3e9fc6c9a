CONSTANTS
  Clients = {c1, c2}
  TicketIDs = {1, 2}
  Batches <- OneAndThree
  Kinds = {"atomic", "list", "generated", "direct"}
  MaxInserts = 3
  MaxReplacements = 1
SPECIFICATION MCSpec
INVARIANTS
  AtomicLeavesNone
  AnswerIsTrue
  EventsInOrder
PROPERTIES
  TrafficAccounted
  NothingLagsForEver
CHECK_DEADLOCK FALSE
