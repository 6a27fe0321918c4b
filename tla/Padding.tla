------------------------------- MODULE Padding -------------------------------
(***************************************************************************)
(* The symmetric layer of src/symmetriccrypto as the share message uses   *)
(* it: AddPadding and RemovePadding (padding.go), and the secretbox        *)
(* framing of Encrypt and Decrypt (symmetric.go).  The padding functions   *)
(* are operators over byte sequences, modelled byte by byte; a call is a   *)
(* step, so that a behaviour pads a message, seals it, delivers it         *)
(* intact or damaged, opens it and removes the padding, or hands           *)
(* RemovePadding an arbitrary buffer directly.                             *)
(*                                                                         *)
(* A byte has ByteBits bits (8 in the code), and Go's int and uint64 have  *)
(* the width of the 8-byte length field, 8 * ByteBits bits, so the         *)
(* two's-complement conversion int(uint64) and the wrap of int addition   *)
(* behave as at 64 bits with a width TLC can count to.  The secretbox      *)
(* ciphertext is opaque: it opens only under its key and only intact.      *)
(***************************************************************************)
EXTENDS Integers, Sequences, Bitwise

CONSTANTS
  ByteBits,      \* bits of a byte
  MsgBytes,      \* the byte values messages are made of
  MaxMsgLen,     \* longest message padded
  PadLengths,    \* padLength arguments
  Layouts,       \* how msg and out share memory, see AddPadding
  PadKeys,       \* nonzero pad keys, given or read from RandomSource
  ForgedFields,  \* length fields of buffers handed to RemovePadding directly
  RandFailures,  \* whether reads of RandomSource may fail
  Nil

VARIABLES
  pc,       \* "start", "seal", "open", "unpad", "done"
  orig,     \* the message padded, Nil for a buffer given directly
  padLen,   \* the padLength it was padded to
  padded,   \* what AddPadding returned
  wire,     \* what Encrypt returned: [len, body, intact]
  buf,      \* the buffer RemovePadding is given
  res       \* the result of the last call: [err, msg]

vars == <<pc, orig, padLen, padded, wire, buf, res>>

PaddingOverhead == 8

EncryptionOverhead == 24 + 16   \* nonce and secretbox.Overhead

B == 2 ^ ByteBits

Word == 2 ^ (PaddingOverhead * ByteBits)

Bytes == 0 .. B - 1

Result(err, msg) == [err |-> err, msg |-> msg]

Msgs == UNION {[1 .. n -> MsgBytes] : n \in 0 .. MaxMsgLen}

-----------------------------------------------------------------------------
(* Integers as the code's fixed-width types.                               *)

\* int(u) for a uint64 u: two's complement.
Signed(u) == IF u >= Word \div 2 THEN u - Word ELSE u

\* Go's int addition, which wraps.
AddInt(a, b) == Signed((a + b) % Word)

\* binary.BigEndian.PutUint64: byte i of v, most significant first.
PutUint64(v) == [i \in 1 .. PaddingOverhead |-> (v \div B ^ (PaddingOverhead - i)) % B]

\* binary.BigEndian.Uint64 of a sequence of bytes.
RECURSIVE Uint64(_)
Uint64(s) == IF s = <<>> THEN 0 ELSE Uint64(SubSeq(s, 1, Len(s) - 1)) * B + s[Len(s)]

Larger(a, b) == IF a > b THEN a ELSE b

-----------------------------------------------------------------------------
(* padding.go                                                              *)

\* Mutant of paddedMessageSize: the padding one byte longer than the gap,
\* so the length field starts a byte late and its last byte falls off.
paddedMessageSizeShifted(msgLength, padLength) ==
  LET rl == Larger(msgLength, padLength)
  IN [l |-> rl - msgLength + 1, t |-> rl + 8]

\* paddedMessageSize: the padding length l and the total size t.
paddedMessageSize(msgLength, padLength) ==
  LET rl == Larger(msgLength, padLength)
      l == rl - msgLength
  IN [l |-> IF l < 0 THEN 0 ELSE l, t |-> rl + 8]

\* The salsa keystream byte i under key k.
KeyStream(k, i) == (k + 3 * i) % B

\* The memory outT starts as: a new slice is zeroed; msg's own spare
\* capacity or a separate out buffer holds earlier bytes (Old); out at
\* msg's start (the share message's case) starts with msg.
\* "alloc": out nil, cap(msg) = len(msg); "inplace": out nil and msg has
\* the capacity; "disjoint": out elsewhere; "same": out at msg's start;
\* "short": out with less than t capacity.
Old == B - 1

OutStart(msg, layout, t) ==
  CASE layout = "alloc"    -> [i \in 1 .. t |-> 0]
    [] layout = "disjoint" -> [i \in 1 .. t |-> Old]
    [] layout \in {"inplace", "same"} ->
         [i \in 1 .. t |-> IF i <= Len(msg) THEN msg[i] ELSE Old]

\* AddPadding(msg, out, padLength, padKey): a nil or all-zero pad key
\* (keyIn = 0) is replaced by a random one; the length field, then the keystream XOR over
\* the padding bytes, then the copy of msg when outT is not msg itself.
AddPadding(msg, layout, padLength, keyIn, randKey, randOK) ==
  LET m == Len(msg)
      s == paddedMessageSize(m, padLength)
      key == IF keyIn = 0 THEN randKey ELSE keyIn
      needCopy == layout # "inplace"
      o == OutStart(msg, layout, s.t)
      withLen == [i \in 1 .. s.t |->
                    IF i > m + s.l THEN PutUint64(m)[i - m - s.l] ELSE o[i]]
      withPad == [i \in 1 .. s.t |->
                    IF i > m /\ i <= m + s.l
                    THEN withLen[i] ^^ KeyStream(key, i - m - 1) ELSE withLen[i]]
  IN CASE keyIn = 0 /\ ~randOK -> Result("err", Nil)
       [] layout = "short"       -> Result("panic", Nil)
       [] OTHER -> Result("ok", IF needCopy
                                THEN [i \in 1 .. s.t |-> IF i <= m THEN msg[i] ELSE withPad[i]]
                                ELSE withPad)

\* Mutant of RemovePadding: <= in the bounds check, which refuses a
\* buffer whose message fills it exactly.
RemovePaddingExactFitRejected(msg) ==
  IF Len(msg) < PaddingOverhead THEN Result("ErrSize", Nil)
  ELSE LET l == Signed(Uint64(SubSeq(msg, Len(msg) - PaddingOverhead + 1, Len(msg))))
       IN IF Len(msg) <= AddInt(PaddingOverhead, l) THEN Result("ErrSize", Nil)
          ELSE IF l < 0 \/ l > Len(msg) THEN Result("panic", Nil)
          ELSE Result("ok", SubSeq(msg, 1, l))

\* RemovePadding: the length is read from the last 8 bytes and converted
\* to int; the bounds check adds it to PaddingOverhead in int; slicing
\* msg[0:l] panics unless 0 <= l <= cap(msg) (= len(msg) here).
RemovePadding(msg) ==
  IF Len(msg) < PaddingOverhead THEN Result("ErrSize", Nil)
  ELSE LET l == Signed(Uint64(SubSeq(msg, Len(msg) - PaddingOverhead + 1, Len(msg))))
       IN IF Len(msg) < AddInt(PaddingOverhead, l) THEN Result("ErrSize", Nil)
          ELSE IF l < 0 \/ l > Len(msg) THEN Result("panic", Nil)
          ELSE Result("ok", SubSeq(msg, 1, l))

-----------------------------------------------------------------------------
(* symmetric.go                                                            *)

EncryptedSizeLength(l) == EncryptionOverhead + l

DecryptedSizeLength(l) == l - 16 - 24

\* Encrypt(key, msg, nil): a random nonce, which may fail to read, and the
\* sealed box, EncryptionOverhead bytes longer than msg.
Encrypt(msg, randOK) ==
  IF ~randOK THEN Result("err", Nil)
  ELSE Result("ok", [len |-> EncryptedSizeLength(Len(msg)), body |-> msg, intact |-> TRUE])

\* Decrypt(key, msg, nil): too short for nonce and tag is ErrSize; a box
\* that was damaged or sealed under another key does not open.
Decrypt(box, rightKey) ==
  IF box.len < 24 + 16 THEN Result("ErrSize", Nil)
  ELSE IF ~box.intact \/ ~rightKey THEN Result("ErrDecrypt", Nil)
  ELSE Result("ok", SubSeq(box.body, 1, DecryptedSizeLength(box.len)))

\* What the channel may do to a box: cut bytes off its end, change a byte.
Damaged(box, cut, flip) ==
  IF cut = 0 /\ ~flip THEN box
  ELSE [box EXCEPT !.len = @ - cut, !.intact = FALSE]

-----------------------------------------------------------------------------
(* The calls.                                                              *)

RandResults == IF RandFailures THEN BOOLEAN ELSE {TRUE}

Init ==
  /\ pc = "start"
  /\ orig = Nil /\ padLen = 0 /\ padded = Nil /\ wire = Nil /\ buf = Nil
  /\ res = Result("ok", Nil)

\* Stop with the error a call returned.
Stop(r) == pc' = "done" /\ res' = r

\* ShareMsg.Encrypt's AddPadding of a marshalled message.
Pad ==
  /\ pc = "start"
  /\ \E msg \in Msgs, p \in PadLengths, layout \in Layouts, keyIn \in {0} \cup PadKeys,
        rk \in PadKeys, ok \in RandResults :
       LET r == AddPadding(msg, layout, p, keyIn, rk, ok)
       IN /\ orig' = msg /\ padLen' = p /\ padded' = r.msg
          /\ IF r.err = "ok" THEN pc' = "seal" /\ res' = res ELSE Stop(r)
  /\ UNCHANGED <<wire, buf>>

\* RemovePadding called on a buffer nobody padded: a message, or a message
\* followed by a length field.
Forge ==
  /\ pc = "start"
  /\ \E b \in Msgs \cup {m \o PutUint64(f) : m \in Msgs, f \in ForgedFields} :
       buf' = b
  /\ pc' = "unpad"
  /\ UNCHANGED <<orig, padLen, padded, wire, res>>

\* Encrypt of the padded message.
Seal ==
  /\ pc = "seal"
  /\ \E ok \in RandResults :
       LET r == Encrypt(padded, ok)
       IN IF r.err = "ok" THEN wire' = r.msg /\ pc' = "open" /\ res' = res
          ELSE Stop(r) /\ wire' = wire
  /\ UNCHANGED <<orig, padLen, padded, buf>>

\* ShareMsg.Decrypt's Decrypt of what arrived, under the receiver's key.
Open ==
  /\ pc = "open"
  /\ \E cut \in 0 .. Len(padded) + 1, flip, rightKey \in BOOLEAN :
       LET r == Decrypt(Damaged(wire, cut, flip), rightKey)
       IN IF r.err = "ok" THEN buf' = r.msg /\ pc' = "unpad" /\ res' = res
          ELSE Stop(r) /\ buf' = buf
  /\ UNCHANGED <<orig, padLen, padded, wire>>

\* RemovePadding.
Unpad ==
  /\ pc = "unpad"
  /\ Stop(RemovePadding(buf))
  /\ UNCHANGED <<orig, padLen, padded, wire, buf>>

Next == Pad \/ Forge \/ Seal \/ Open \/ Unpad

Spec == Init /\ [][Next]_vars

-----------------------------------------------------------------------------
(* Properties.                                                             *)

\* spec.md's padding round trip, through the share message's seal and
\* open: AddPadding's output is max(len(msg), padLength) + 8 bytes long
\* whatever the message, and a box delivered intact under the right key
\* gives back exactly the message, whichever way msg and out share memory.
PaddingRoundTrip ==
  /\ padded # Nil => Len(padded) = Larger(Len(orig), padLen) + PaddingOverhead
  /\ pc = "done" /\ orig # Nil /\ res.err = "ok" => res.msg = orig
  /\ pc = "done" /\ orig # Nil /\ wire # Nil /\ buf # Nil => res.err = "ok"

\* RemovePadding as spec.md states it: the claimed length, read as the
\* unsigned number the last 8 bytes encode, is returned if it fits before
\* the field, and otherwise the call fails with ErrSize.
RemovePaddingReference(msg) ==
  IF Len(msg) < PaddingOverhead THEN Result("ErrSize", Nil)
  ELSE LET u == Uint64(SubSeq(msg, Len(msg) - PaddingOverhead + 1, Len(msg)))
       IN IF u + PaddingOverhead <= Len(msg) THEN Result("ok", SubSeq(msg, 1, u))
          ELSE Result("ErrSize", Nil)

\* The length field of a buffer, and whether 8 plus it stays below the
\* sign bit of int, where the code's int arithmetic is exact.
LengthField(msg) == Uint64(SubSeq(msg, Len(msg) - PaddingOverhead + 1, Len(msg)))

FitsInt(msg) ==
  Len(msg) < PaddingOverhead \/ LengthField(msg) + PaddingOverhead < Word \div 2

\* Every buffer RemovePadding is given, padded or forged, whose length
\* field plus 8 is below the sign bit of int gets the answer of the
\* reference: the code's bounds check accepts exactly the lengths that fit
\* before the field, the exact fit included.  Larger fields are the
\* subject of RemovePaddingNeverPanics.
RemovePaddingMatchesReference ==
  pc = "done" /\ buf # Nil /\ FitsInt(buf) => res = RemovePaddingReference(buf)

\* spec.md 4.B: RemovePadding fails with ErrSize when the claimed length
\* exceeds the buffer, whatever the length field holds; the code's int
\* conversion and int addition must not turn such a field into a panic.
RemovePaddingNeverPanics ==
  pc = "done" /\ buf # Nil => res.err # "panic"

====
