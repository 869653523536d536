CONSTANTS
  x = x
  y = y
  Chars <- MCChars
  Chunks <- MCChunks
  Credentials <- MCCredentials
  Items <- MCItems
  NumChoices = 2
  Overlap = 2
  MaxBytes = 3
  MaxFed = 6
SPECIFICATION HookSpec
INVARIANTS
  HookTypeOK
  NoSecretDelivered
  BlockedForASecret
  DeliveredIsScanned
CHECK_DEADLOCK FALSE
