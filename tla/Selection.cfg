CONSTANTS
  Types <- MCTypes
  Selectors <- MCSelectors
  All = "all"
  HighEntropy = "HighEntropy"
  Typos <- MCTypos
  Expansion <- MCExpansion
  Base <- MCBase
  GenericType = "Generic"
  CatchAllType = "CustomRegex"
  Fragile <- MCFragile
  Profiles <- MCProfiles
  Unset = ""
  DefaultProfile = "core"
  ConfigProfiles <- MCConfigProfiles
  MaxListed = 2
SPECIFICATION Spec
INVARIANTS
  TypeOK
  ListIsEffective
  RejectedIfMistaken
CHECK_DEADLOCK FALSE
