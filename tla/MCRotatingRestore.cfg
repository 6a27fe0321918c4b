\* Restarts of the oracle with requests that never name an unknown or
\* stale short-term key: the long-term key after Oracle.Restore.
CONSTANTS
  TTL = 3
  T0 = 1
  MaxT = 8
  MaxGen = 4
  RotateFailures = TRUE
  OpenFailures = TRUE
  Unknown = Unknown
  ZeroKey = ZeroKey
  NilPtr = NilPtr
  Never = Never
  Nil = Nil
  Claims <- MCNoShortTermClaims
SPECIFICATION Spec
INVARIANT NoPanic
