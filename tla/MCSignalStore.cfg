CONSTANTS
  A = A
  B = B
  NoEntry = NoEntry
  Signals <- MCSignals
  MaxT = 4
SPECIFICATION Spec
PROPERTY AbstractSpec
