SPECIFICATION Spec
CONSTANTS
  MinBuffer = 2
  SubscribeLimit = 1
  PageLimit = 2
  StreamBuffer = 1
  MaxEvents = 4
  MaxReplacements = 1
  MaxConnects = 2
INVARIANT StreamExactlyOnce
CHECK_DEADLOCK FALSE
