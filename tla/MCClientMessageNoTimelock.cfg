\* A message without a time-lock key (TimelockPublicKey all zero), under
\* the unprotected engine, with no failure: the share buffer is wiped at
\* oraclemsg.go:313-314 while OracleMessage.Share still points into it.
CONSTANTS
  Nil = Nil
  Fault = Fault
  NoTimelock = NoTimelock
  TL = TL
  MemGuard = MemGuard
  Unprotected = Unprotected
  Engines <- MCUnprotected
  Timelocks <- MCNoTimelock
  OpenFailures = FALSE
  RandFailures = FALSE
  MaxSends = 1
SPECIFICATION Spec
INVARIANT ShareMsgDelivered
CHECK_DEADLOCK FALSE
