CONSTANTS
  t1 = t1
  t2 = t2
  include = include
  wordlist = wordlist
  Nobody = Nobody
  Threads <- MCThreads
  Options <- MCOptions
  KeptFalsy <- MCKeptFalsy
  ListArgs <- MCListArgs
  Requests <- MCRequests
  Kwargs <- MCKwargs
  Rejected <- MCRejected
  MaxFd = 6
  MaxCalls = 3
SPECIFICATION Spec
INVARIANTS
  TypeOK
  OneScannerPerConfiguration
  GoHandlesStayOpen
  HostFilesUntouched
PROPERTY EveryCallReturns
CHECK_DEADLOCK FALSE
