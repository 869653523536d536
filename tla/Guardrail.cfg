CONSTANTS
  t1 = t1
  t2 = t2
  t3 = t3
  a = a
  b = b
  Texts <- MCTexts
  Secrets <- MCSecrets
  Scans <- MCScans
  Workers = 2
SPECIFICATION Spec
INVARIANTS
  TypeOK
  DecisionIsRight
  ReasonIsTrue
PROPERTIES
  FailsClosed
  EveryCallDecided
CHECK_DEADLOCK FALSE
