\* A goroutine stops once it has decrypted MaxRuns messages.
CONSTANTS
  c1 = c1
  c2 = c2
  T1 = T1
  T2 = T2
  N1 = N1
  S1 = S1
  S2 = S2
  R1 = R1
  R2 = R2
  NoVal = NoVal
  Calcs <- MCCalcs1
  Messages <- MCMessages
  MsgType = T1
  PC0 <- MCPC0
  MaxRuns = 3
  KeyFailures = TRUE
SPECIFICATION Spec
CHECK_DEADLOCK FALSE
INVARIANT CellsReleased
