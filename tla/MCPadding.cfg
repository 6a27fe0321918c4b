\* Messages of up to three bytes over two byte values, padded to 0, 2 or
\* 4 bytes in every memory layout AddPadding supports, with a given or a
\* random pad key; RemovePadding on those and on forged buffers whose
\* length field is small, or at the top of the word.
CONSTANTS
  Nil = Nil
  ByteBits = 2
  MsgBytes = {1, 2}
  MaxMsgLen = 3
  PadLengths = {0, 2, 4}
  Layouts <- MCLayouts
  PadKeys = {1, 2}
  ForgedFields <- MCEdgeFields
  RandFailures = TRUE
SPECIFICATION Spec
INVARIANT PaddingRoundTrip
INVARIANT RemovePaddingMatchesReference
\* Each behaviour is one sequence of calls that ends.
CHECK_DEADLOCK FALSE
