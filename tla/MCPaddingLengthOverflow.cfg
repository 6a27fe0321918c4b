\* RemovePadding on buffers whose length field has the top bit set or
\* is within 8 of the top of the word: the int conversion and the int
\* addition of the bounds check.
CONSTANTS
  Nil = Nil
  ByteBits = 2
  MsgBytes = {1, 2}
  MaxMsgLen = 3
  PadLengths = {0, 2, 4}
  Layouts <- MCLayouts
  PadKeys = {1, 2}
  ForgedFields <- MCEdgeFields
  RandFailures = TRUE
SPECIFICATION Spec
INVARIANT RemovePaddingNeverPanics
\* Each behaviour is one sequence of calls that ends.
CHECK_DEADLOCK FALSE
