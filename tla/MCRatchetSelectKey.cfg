CONSTANTS
  RatchetTime = 2
  StartTime0 = 1
  GenTime = 2
  MaxT = 9
  KeyCount = 3
  Claims <- MCClaims
  NoKey = NoKey
  Nil = Nil
SPECIFICATION Spec
INVARIANT SelectedKeyUsable
