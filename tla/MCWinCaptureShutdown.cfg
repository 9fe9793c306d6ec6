SPECIFICATION Spec
CONSTANTS
  s1 = s1
  s2 = s2
  Sessions <- MCSessions
  Workers = 2
PROPERTIES
  CleanShutdown
CHECK_DEADLOCK FALSE
