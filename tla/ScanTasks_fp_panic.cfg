CONSTANTS
  NumDetectors = 2
  MaxChunks = 2
  MaxTasks = 3
  Concurrency = 2
  MaxBytes = 1
  MaxLength = 2
  Outcomes <- MCOutcomes
SPECIFICATION Spec
INVARIANT OneDetectorCannotFailScan
CHECK_DEADLOCK FALSE
