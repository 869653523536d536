CONSTANTS
  x = x
  y = y
  d1 = d1
  d2 = d2
  Colon = Colon
  Lead = Lead
  Cont = Cont
  Bytes <- MCBytes
  Detectors <- MCDetectors
  LabelOf <- MCLabelOf
  Texts <- MCTexts
  ResultLists <- MCResultLists
  MaxBytes = 4
  MinCandidateLen = 1
  MinRepeatMaskLen = 3
SPECIFICATION Spec
INVARIANT EveryPartLocated
CHECK_DEADLOCK FALSE
