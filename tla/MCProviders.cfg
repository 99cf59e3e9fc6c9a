CONSTANTS
  Callers = {c1, c2}
  MaxCalls = 3
  Hangs = TRUE
SPECIFICATION MCSpec
INVARIANTS
  AnswerIsOwn
  PipesFree
PROPERTIES
  FailureKept
  FactsServed
  CallsReturn
CHECK_DEADLOCK FALSE
