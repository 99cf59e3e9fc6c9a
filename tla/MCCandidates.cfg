CONSTANTS
  Docs = {d1, d2, d3, d4, d5}
  NoValue = NoValue
  Queries = {p, q}
  NoneQuery = NoneQuery
  Failing = {p}
  NoScope = NoScope
SPECIFICATION Spec
SYMMETRY Symmetry
INVARIANTS
  CandidatesExact
PROPERTIES
  MatchIsGreedy
CHECK_DEADLOCK FALSE
