CONSTANTS
  x = x
  y = y
  Chars <- MCChars
  Chunks <- MCChunks
  Credentials <- MCCredentials
  Overlap = 2
  MaxBytes = 4
  MaxFed = 7
SPECIFICATION AllSpec
INVARIANTS
  ScannerTypeOK
  EveryCredentialReported
  ReportedOnce
  UnionIsComplete
CHECK_DEADLOCK FALSE
