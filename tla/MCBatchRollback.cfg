CONSTANTS
  Clients = {c1, c2}
  TicketIDs = {1, 2}
  Batches <- OneAndThree
  Kinds = {"atomic", "list", "generated", "direct"}
  MaxInserts = 3
  MaxReplacements = 1
SPECIFICATION MCSpec
INVARIANTS
  RollbackSparesOthers
CHECK_DEADLOCK FALSE
