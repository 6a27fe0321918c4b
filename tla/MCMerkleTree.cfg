\* Trees of one to twelve leaves: depths 1 to 4, with empty siblings at one
\* to three levels.  A behaviour builds one tree and verifies one delivered
\* path, and then stops.
CONSTANTS
  MaxLeaves = 12
  DepthWrap <- MCDepthWrap
  ZeroContent = ZeroContent
  NoHash = NoHash
  Panic = Panic
  Garbled = Garbled
  Nil = Nil
SPECIFICATION Spec
INVARIANTS TypeOK BuildNeverPanics PathsVerify DamageDetected MethodVerifierExact
PROPERTY BuildTerminates
CHECK_DEADLOCK FALSE
