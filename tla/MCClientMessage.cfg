\* OracleMessage.Encrypt then OracleMessageContainer.Send, with a time-lock
\* key (as the repository's test sends), under both engines; every
\* enclave Open and every random read may fail.
CONSTANTS
  Nil = Nil
  Fault = Fault
  NoTimelock = NoTimelock
  TL = TL
  MemGuard = MemGuard
  Unprotected = Unprotected
  Engines <- MCEngines
  Timelocks <- MCTimelocks
  OpenFailures = TRUE
  RandFailures = TRUE
  MaxSends = 4
SPECIFICATION Spec
INVARIANT TypeOK
INVARIANT ShareMsgDelivered
INVARIANT KeysWipedOnReturn
\* Encrypt and Send are one call each: the flow stops once they returned or
\* the process ended.
CHECK_DEADLOCK FALSE
