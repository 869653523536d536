CONSTANTS
  x = x
  y = y
  Chars <- MCChars
  Chunks <- MCChunks
  Credentials <- MCCredentials
  Items <- MCItems
  NumChoices = 2
  Overlap = 2
  MaxBytes = 3
  MaxFed = 4
SPECIFICATION HookSpec
INVARIANT HookFailsClosed
CHECK_DEADLOCK FALSE
