CONSTANTS
  NodeCount = 2
  TicketIDs = {t1, t2}
  HistoryLimit = 1
  LastMatchID = 3
  Faults = {}
  MaxRounds = 2
  MaxAdds = 2
  MaxReplacements = 1
  Callers = {c1, c2}
SPECIFICATION MCSpec
INVARIANTS
  RegistryMirrorsCore
  DriftAccounted
  RecordTellsRound
  MatchesInLimits
PROPERTIES
  IDsNotReused
  LeaversAreHarmless
  EverybodyReturns
CHECK_DEADLOCK FALSE
