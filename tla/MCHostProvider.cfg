SPECIFICATION Spec
CONSTANTS
  NodeCount = 2
  TicketIDs = {t1, t2}
  HistoryLimit = 1
  LastMatchID = 5
  Faults = {"provider"}
  MaxRounds = 1
  MaxAdds = 2
  MaxReplacements = 0
INVARIANTS WaitingIsWaiting
CHECK_DEADLOCK FALSE
