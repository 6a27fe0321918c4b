CONSTANTS
  TTL = 3
  T0 = 1
  MaxT = 8
  MaxGen = 4
  RotateFailures = TRUE
  OpenFailures = TRUE
  Unknown = Unknown
  ZeroKey = ZeroKey
  NilPtr = NilPtr
  Never = Never
  Nil = Nil
SPECIFICATION Spec
INVARIANT NoPanic
