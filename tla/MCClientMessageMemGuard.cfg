\* The memguard engine with no failure: shareBuffer.Bytes returns the
\* read-only buffer of Enclave.Open, and ShareMsg.Encrypt writes into it.
CONSTANTS
  Nil = Nil
  Fault = Fault
  NoTimelock = NoTimelock
  TL = TL
  MemGuard = MemGuard
  Unprotected = Unprotected
  Engines <- MCMemGuard
  Timelocks <- MCTimelocks
  OpenFailures = FALSE
  RandFailures = FALSE
  MaxSends = 1
SPECIFICATION Spec
INVARIANT NeverCrashes
CHECK_DEADLOCK FALSE
