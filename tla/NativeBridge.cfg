CONSTANTS
  t1 = t1
  t2 = t2
  o1 = o1
  o2 = o2
  a1 = a1
  a2 = a2
  Nobody = Nobody
  Threads <- MCThreads
  Objects <- MCObjects
  Addresses <- MCAddresses
  MaxCalls = 4
SPECIFICATION Spec
INVARIANTS
  TypeOK
  StringsFreedOnce
  RegistryMatchesObjects
PROPERTIES
  ImplementsService
  EveryCallReturns
CHECK_DEADLOCK FALSE
