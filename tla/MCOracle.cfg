CONSTANTS
  S1 = S1
  S2 = S2
  Zero = Zero
  NoTimelock = NoTimelock
  NoEntry = NoEntry
  NoKey = NoKey
  Nil = Nil
  Names <- MCNames
  Messages <- MCMessages
  StoreFailures = TRUE
  MaxT = 8
  RatchetTime = 2
  StartTime0 = 1
  GenTime = 2
SPECIFICATION Spec
INVARIANT DistressRecordedFirst
INVARIANT NoReleaseAfterDistress
PROPERTY ReleaseRespectsTimelock
