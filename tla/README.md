# TLA+ models of cypherlock

This directory holds TLA+ models of the Go sources under `src/`, the
TLC configurations that check them, and `PROJECT.json`. That file lists the
components, the runs, the mutants, the map from every modelling definition
to the source lines it translates, the findings, and the hazards.

## The system and how its parts interact

Cypherlock keeps a secret share with one or more *oracles*. A client sends
an oracle an `OracleMessage` inside two envelopes, and the oracle runs
`Oracle.ReceiveMsg` (`src/messages/oracle.go`). The message carries:

- three *test* and three *set* semaphore slots. An all-zero slot means
  unused;
- a validity window `validFrom`/`validTo`;
- optionally a time-lock public key, taken from a list that the oracle's
  ratchet published earlier.

The oracle proceeds in this order:

1. It records every set semaphore in the persistent **signal store**
   (`src/signalstore`). This comes first so that a distress signal is never
   lost.
2. It checks the time policy.
3. It tests the test semaphores.
4. If a time-lock key is present, it decrypts the share with the
   **time-lock ratchet** (`src/protectedcrypto/curve25519ratchet.go`).

The envelopes are opened with the oracle's long-term key and its
**rotating short-term key** (`src/protectedcrypto/curve25519rotate.go`).
Keys live in sealed memory elements (`src/memprotect`). Secrets are
combined by the hybrid **secret calculator** (`src/hybridcrypto`).

On the client side, `OracleMessage.Encrypt` (`src/messages/oraclemsg.go`)
builds the request:

1. It generates a response key pair and a symmetric share key, in memory
   elements of the chosen engine (memguard or unprotected).
2. It seals the share as a `ShareMsg` under the share key, in place in a
   memory-element buffer.
3. If there is a time-lock key, it encrypts that again into fresh memory.
4. It wipes the buffer, then encrypts the message to the oracle.
5. It returns an `OracleMessageContainer` encrypted under the caller's key.

Later, `OracleMessageContainer.Send` (`src/messages/container.go`) opens
the container, checks its time policy, adds a single-use response key,
and produces the `OracleFuture` whose `Message` goes to the oracle. The
container's key slices and the share are slices of memory elements that
deferred `Seal` and `Destroy` calls wipe, so the order of copies and wipes
decides what reaches the oracle.

## Modules

| Module | Models | State | Actions |
|---|---|---|---|
| `SignalStore` | `signalstore/store.go`, `times.go` | `store`: signal -> `NoEntry` or `[from, to]`; `now`; history `lastReq`, the arguments of the last `SetSignal` | `SetSignal`: one badger transaction (read, `genTimes` merge, write if changed); `Tick` |
| `SignalDistress` | the store's promise (spec.md 5, 6) | `setAt`: signal -> set of instants; `last`, the latest request | `Raise`, `Tick` |
| `Ratchet` | `Curve25519Ratchet`, its generator, `RatchetPublicKey.SelectKey` | `rk`: the `RatchetKey` struct; `published` lists; `lastUse` | `Advance`, `Generator` (Advance, clone, `PublicKeys`), `SharedSecret`, `Tick` |
| `Oracle` | `ReceiveMsg`, `verifyOracleMessage`, `decryptShare`, `TimelockKeys` | `store`, `rk`, `pc`, `req`, `slot`, `result`, ghost `distressed` | `Receive`, `SetSlot`, `TimeCheck`, `TestSlot`, `Share`, `TimelockKeys`, `Crash`, `Tick` |
| `SecretCalc` | `SecretCalculator.Decrypt`/`Receive`/`calculateSecret`, `SecretCombiner.Combine`, `SHA256HMAC` | per goroutine: `pc`, `keys`, `k`, `tsec`, `st`, `secret`, live-cell count; the shared `protocolConstant` bytes `buf` | `Decrypt`, `FirstKey`, `PadLoad`, `PadStore`, `ReadInner`, `ReadOuter`, `Combined`, `NextKey`, `Nonce`, `Open` |
| `Rotating` | `Curve25519Rotating`, its `MemGuardElement` (`open`, `Melt`, `Bytes`, `Seal`), `Oracle.Restore`, and the long-term `Curve25519`'s public-key pointer (`SetSecure`, `SharedSecret`'s comparison) | `keys` [new, cur, prev], `currentPub`, `previousPub`, `expireTime`, the element's seal state `el`, the long-term `ltPub`; ghosts `retiredAt`, `dropped`, `lastUse`, `panicked` | `Rotate`, `RotateFails`, `RotateOpenFails`, `SharedSecret`, `Panic` (with restart), `Crash` (a restart), `LongTermPanic` (with restart), `Tick` |
| `MemElement` | `memprotect`: `MemGuardElement` (`open`, `Seal`, `Melt`, `Destroy`, `Bytes`) and `UnprotectedElement`, dispatched on the engine | no variables: an element is a record (`enclave`, `unsealed`, `buffer`, and every buffer it opened with its data, mapped and writable flags) | operators from an element to the element after the call and its error |
| `ClientMessage` | `OracleMessage.Encrypt`/`encryptShare`/`encrypt`, `ShareMsg.Encrypt`, `Curve25519.Generate`, `NewSymmetricKey` and `SymmetricKey`'s `Seal`/`Destroy`, `OracleMessageContainer.marshal`/`Send` | `engine`, `tl`, `pc`, the elements `el`, the `defers` stack, `share`, `bufBytes`, the container `cont`, the encrypted container `blob`, the returned `futures`, `outcome`, `sends` | `Generate`, `RespBytes`, `ShareKey`, `ShareBuf`, `ShareMsgEncrypt`, `EncryptShare`, `WipeBuf`, `EncryptMessage`, `EncryptContainer`, `Return` (the deferred calls, last-in first-out), `Send` |
| `MerkleTree` | `merkletree`: `NewMerkleTree`, `Paths`/`calcLayer`, `Marshall`/`UnMarshallPath`, `Verify2` (with `isPlausible`, `VerifyLeaf`, verify1.go's `verifyPath`), and verify2.go's unused `Path.verifyPath` | `n`, `treeDepths`, `nodeDepths`, `cache`, `paths`, `lpos`, `broken`, `phase`; the delivered path `rcv`, the leaf it came from `rcvFor`, the leaf claimed `claimed`, and the two verdicts | `NodeStep` (one `NodeLoop` iteration), `EndLayer` (the end of `calcLayer`), `Deliver` (marshal, damage one element, unmarshal, verify) |
| `Padding` | `symmetriccrypto`: `AddPadding`, `paddedMessageSize`, `RemovePadding`, `Encrypt`, `Decrypt`; their composition in `ShareMsg.Encrypt`/`Decrypt` | `pc`, the message `orig`, `padLen`, the padded bytes `padded`, the box `wire`, the buffer `buf` given to `RemovePadding`, the last result `res` | `Pad` (`AddPadding`), `Seal` (`Encrypt`), `Open` (the channel, then `Decrypt`), `Unpad` (`RemovePadding`), `Forge` (a buffer handed to `RemovePadding` directly) |

How the modules abstract the code:

- **Signal store.** The 16-byte encoding of a stored value is a bijection,
  so the model keeps the pair as a record. `TestSignal` is a read, so it is
  an operator evaluated inside the oracle's steps.
- **Ratchet.** Key material is abstracted to the position in the HMAC
  chain. The private key of base n is n and its public key is `Pub(n)`.
  This is faithful because `advance` derives a new key only by moving one
  step along the chain.
- **Oracle.** The handler is split exactly at the signal-store
  transactions. Between any two of them the clock can advance and the
  process can crash.
  - `Oracle` composes the other two modules through `INSTANCE`.
    `SetSignalStore` and `TestSignal` come from `SignalStore`. `advance`,
    `Advanced` and `calcKey` come from `Ratchet`.
  - The envelope cryptography is reduced to its one decision that changes
    the control flow: whether the response key matches.
- **Rotating.** A Go panic in `SharedSecret` kills the process. `Oracle.Restore`
  then creates a new `Curve25519Rotating`, so the model's `Panic` step
  installs a freshly generated key. `Crash` is a restart for any other
  reason. `Restore` also builds a new long-term `Curve25519` and hands it
  the saved element through `SetSecure`. `SetSecure` never sets `pubkey`,
  so `ltPub` becomes nil. The long-term `SharedSecret` of `ReceiveMsg`
  compares the public key read from the request headers (never nil)
  with `pubkey`. With a nil `pubkey` that comparison panics
  (`LongTermPanic`). Otherwise it only computes with and seals the
  long-term element, which the model does not track.

- **Rotating element.** `Rotate` and `SharedSecret` melt the element,
  read its bytes and seal it, in code order and with the deferred `Seal`.
  `enclave.Open` may fail, and `Rotate` ignores `Melt`'s error
  (curve25519rotate.go:49). If `Open` then succeeds in `Bytes`, `ReadFull`
  writes into a frozen buffer, which faults. The model treats that as a
  crash followed by `Restore` (`RotateOpenFails`). No code in `src` calls
  `Rotate` and `SharedSecret` concurrently, so the steps are atomic.

- **MerkleTree.** A hash is the symbolic value `<<prefix, <<left, right>>>>`.
  `CalcHash` prepends the element's prefix to the digest but does not hash
  it, and the model keeps that: an element's own flags and depth are not
  covered by its digest.
  - Building is the `NodeLoop` of `calcLayer`, one pair per step, with the
    panics of `getLeftNode`/`getRightNode` as a `"panic"` phase and the
    `int64` depth counter of the layer end.
  - On the wire, a delivered path takes at most one damage to one element:
    a toggled flag, a depth changed by one, a garbled digest, a dropped
    element, or two neighbours swapped. It may also be claimed for any
    leaf. `UnMarshallPath` then runs on the damaged bytes.
  - A Go panic in a verifier is the model value `Panic`.
  - `Deliver` runs both `Verify2` as the code has it (which calls
    verify1.go's `verifyPath`) and `Verify2Method`, which is the same with
    verify2.go's `Path.verifyPath` method in its place. No code calls that
    method.

- **SecretCalc.** Each goroutine builds a fresh receiving calculator per
  message, as the handlers in `src/messages` do. The sender's `Send` and
  `Headers` are the reference operator `Expected`. A hash is the tuple of
  its inputs, and a Diffie-Hellman secret is the set of the two public keys.
  - `SHA256HMAC` XORs its key slice in place three times (0x36, 0x6A,
    0x5C). For the first key that slice is the package variable
    `protocolConstant`. Each `k[i] ^= pad` is split into a load and a store,
    and the two hash reads of the key are steps of their own. The model
    keeps the first bytes of the constant (two in the pass run, one in the
    race run).
  - Combines keyed by `secretState` use a calculator-owned cell, so they
    are atomic.
  - `live` counts the memprotect cells the calculator allocated and has not
    destroyed.

- **Padding.** Bytes are kept byte by byte, but a byte has `ByteBits = 2`
  bits. Go's `int` and `uint64` get the width of the 8-byte length field,
  16 bits. `int(uint64)` is two's complement and `int` addition wraps at
  that width, so the sign bit and the overflow of `8 + l` sit where they
  sit at 64 bits, relative to the word. `AddPadding` is modelled
  statement by statement:
  - a nil or all-zero pad key is replaced by a random one, whose read may
    fail;
  - `outT` is picked by the same three-way choice over the memory layout:
    a fresh zeroed slice, `msg`'s own spare capacity, or a separate or
    aliased `out` (too small: panic);
  - the length field is written, then the padding is XORed in place with
    the keystream, so it keeps what that memory held;
  - the copy of `msg` follows when `outT` is not `msg`.
  The salsa keystream is a fixed function of key and position.
  `secretbox` is opaque: a box is its length, its body and whether it is
  intact, and it opens only intact and under the right key. The channel
  may cut bytes off or alter one.

- **Memory elements.** memguard is not part of the repository. The model
  takes its documented behaviour: `Enclave.Open` returns a read-only
  `LockedBuffer`, `Melt` makes it writable, `LockedBuffer.Seal` and
  `Destroy` wipe and unmap it, and a write to a read-only or unmapped
  buffer faults. `Open` on the nil enclave that `Destroy` leaves
  dereferences nil, which the model treats as a panic. An element keeps
  every buffer it opened, so a slice that `Bytes` returned can still be
  read after later calls. This is what lets the model see aliasing.
- **Client message.** `Encrypt` is one sequential call. Each step is one
  group of its statements, and every `Open` and random read in the group
  may fail. Bytes are abstracted to the values they carry. A random key is
  `<<"key", r>>`; the share message under key k is `<<"sm", k>>`; the
  time-lock encryption of x is `<<"tl", x>>`. A slice is a value or a
  reference into an element's buffer, and it is dereferenced when the code
  copies it (`marshal`, `Encrypt`). Hybrid encryption and `secretbox` are
  may-fail steps. A fault or panic ends the process (`pc = "crashed"`).
  The caller keeps the encrypted container, so `Send` may be called on it
  again.

## Runs

| Run | Result | What it shows |
|---|---|---|
| `signalstore` | pass | `AbstractSpec`: the store refines `SignalDistress` under the mapping `SetInstants` (for each signal, the instants at which `TestSignal` reads it as set) and `last <- lastReq`. The history variable ties every `Raise` step to the arguments of the `SetSignal` it stands for, so each request must cover every instant it names. No merge of overlapping, open-ended (0) or nested intervals ever clears an instant that was set. The mutant `mergeTimesFromOnly` (a change of `setTo` alone not written) is a `SetSignal` that drops its request, and TLC finds it. |
| `ratchet` | pass | See below. |
| `oracle` | pass | See below. |
| `oracle_zero_slot` | violation | `ZeroSlotUnused`: a request that sets S2 and tests S1, with its other slots unused, is refused with `ErrSignalSet`. Its own zero set slot marked the zero semaphore, and its zero test slot then reads as set. |
| `secretcalc` | pass | One goroutine. `SecretAgreement`: the receiver's `Secret` equals the sender's for one- and two-key messages, through the `swapKeys` order of `Headers`, `ParseHeaders` and `calculateNonce`, with failing `SharedSecret` calls and rejected messages in between. `ProtocolConstantIntact`: the three pads always restore `protocolConstant`. |
| `secretcalc_hmac_race` | violation | `SecretAgreement`: two goroutines, each owning its calculator as spec.md 5 allows, interleave the in-place XOR on the global `protocolConstant`. One of them derives a secret the sender never did. |
| `rotating` | pass | `SecretAgreement`: every secret `SharedSecret` computes uses the private key of the public key the caller presented, current or previous, across rotations, failed rotations and restarts. `DroppedKeyUnusable`: a key that left the element, by a second rotation or a restart, never computes a secret again. `ElementSealedBetweenCalls`: the backing element is sealed again after every call (spec.md 5), even when `enclave.Open` fails in `Melt` or in `Bytes`. |
| `rotating_nil_previous` | violation | `NoPanic`: before the second `Rotate`, `SharedSecret` with any non-current key, within TTL of creation, panics on the nil `previousPublicKey`. |
| `clientmsg` | pass | With a time-lock key (as the repository test uses), under both engines, with failures everywhere and up to four `Send` calls: `ShareMsgDelivered`: every future carries the share under the share key `Encrypt` generated, keeps that key, and has a response public key that matches its private key. `KeysWipedOnReturn`: once `Encrypt` has returned by any path, no mapped memory of the share key or the share buffer holds plaintext. `TypeOK` includes element well-formedness: an open buffer is always mapped. |
| `clientmsg_no_timelock` | violation | `ShareMsgDelivered`: without a time-lock key, `self.Share` still points into `shareBuffer` when lines 313-314 wipe it, and `self.encrypt` then marshals zeroes into the oracle message. |
| `merkletree` | pass | See below. |
| `padding` | pass | `PaddingRoundTrip` (spec.md test 2): `AddPadding`'s output is `max(len(msg), padLength) + 8` bytes, and a box delivered intact under the right key gives back exactly the message, in every layout of `msg` and `out`, with a given, random or failing pad key. `RemovePaddingMatchesReference`: for every buffer whose length field plus 8 stays below the sign bit of `int`, padded or handed over directly, `RemovePadding` answers as spec.md 4 states it (the claimed length if it fits before the field, else `ErrSize`). The run also gives it the fields at the top of the word; the precondition `FitsInt` states that the property does not cover those. `RemovePaddingNeverPanics` (below) is about them. |

The `ratchet` run checks `TypeOK` and four more properties:

- `PreviousKeyIsPredecessor`: the live ratchet's current public key is the
  key every published list gives for the ratchet's period, and its
  previous key the one the list gives for the period before. The previous
  public key also belongs to the previous private key. The mutant copies
  the pair to previous after re-deriving it (curve25519ratchet.go:75).
- `TimelockWindow`: a key given period `[ValidFrom, ValidTo]` by any
  published list computes secrets only from `ValidFrom` to one period after
  `ValidTo`. This holds although the generator derives that list on a
  clone with a simulated clock.
- `AdvanceMatchesReference`: the recursive `Advance` loop equals the closed
  form `AdvanceReference` from every reachable state and for every later
  clock value.
- `SelectKeyRangeMatchesReference`: for every published list and every
  range from before its start to past its last key, `SelectKeyRange`
  returns exactly the keys whose periods meet the range, in order. That
  is the declarative `SelectKeyRangeReference`.

The `oracle` run checks three properties. The model includes store
failures, crashes and the clock moving between transactions.

- `DistressRecordedFirst`: every request that got past `setSignals` has all
  its set semaphores durable.
- `NoReleaseAfterDistress`: no share is released for a request whose test
  semaphore was named by a completed `setSignals`, its own included.
- `ReleaseRespectsTimelock`: a time-locked share is released only inside
  its key's window.

The `merkletree` run checks six properties:

- `BuildNeverPanics` and `BuildTerminates`: `Paths()` never reaches the
  "Tainted nodeCache" panics, and it finishes. The second is a liveness
  property under the fairness described below.
- `PathsVerify`: every built path verifies for its own leaf.
- `DamageDetected`: a path that `Verify2` accepts for a leaf carries that
  leaf's non-empty elements unchanged. This holds whatever single damage
  the path took, and whichever leaf it is claimed for.
- `MethodVerifierExact`: verify2.go's own `Path.verifyPath` never panics,
  accepts every built path, and accepts nothing but the built path with
  some empty elements left out.
- `TypeOK` includes the path length when done: `treeDepths + 2` elements
  (the leaf, one sibling per level, and the root).

Two disagreements with spec.md were found while modelling `Verify2`. No
run slot is left for a violation run, so they are recorded as hazards in
`PROJECT.json`:

- `VerifyNeverPanics` is defined in `MerkleTree` but is not in the passing
  run. spec.md test 9 says a modified path "MUST cause Verify to return
  false without panicking". At two leaves, raising the leaf's depth by one
  on the wire passes `isPlausible` and `VerifyLeaf`, because the prefix is
  not under the digest. `genBranch` then panics with "conflicting sibling"
  (verify1.go:59). To see the trace, add `VerifyNeverPanics` as an
  invariant to `MCMerkleTree.cfg`.
- A damaged *empty* element is accepted. verify1.go rebuilds empty
  siblings itself and never reads them from the path. So a one-leaf path
  whose empty sibling has its depth raised still verifies, against
  spec.md 4.H ("ANY single-field mutation MUST cause verification to
  fail"). `DamageDetected` states what the code does guarantee instead.

`MethodVerifierExact` shows that the unused verifier in verify2.go has
neither defect, because it checks every element it reads.

Six more disagreements have a configuration on disk but no run of
their own:

- `MCRatchetSelectKey.cfg` (with `MCRatchet`) violates
  `SelectedKeyUsable`. At `now = ValidFrom` of the key that
  `SelectKey(now)` returns, the ratchet still holds the previous key,
  because `advance` needs `StartTime + RatchetTime < now`
  (curve25519ratchet.go:72). spec.md 8.6 says the chosen key is usable at
  t.
- `MCRotatingKeyLifetime.cfg` (with `MCRotating`) violates `KeyLifetime`.
  `Rotate` sets `expireTime` before its random read (curve25519rotate.go:48).
  So a failed `Rotate` keeps the keys but revives an expired previous key
  for another TTL.
- `MCClientMessageMemGuard.cfg` (with `MCClientMessage`) violates
  `NeverCrashes`. `shareBuffer` is never melted, so under memguard
  `ShareMsg.Marshal` writes into the read-only buffer that `Bytes`
  returned (oraclemsg.go:298-305), and `Encrypt` cannot complete. This
  rests on memguard's documented read-only `Open`.

- `MCSecretCalcCellLeak.cfg` (with `MCSecretCalc`) violates
  `CellsReleased`. When the second key's `SharedSecret` fails,
  `calculateSecret` returns without destroying `secretState`, the cell
  holding the combination of the earlier keys (secretcalc.go:59).
  spec.md 4.D says the secret cell is destroyed even on error.
- `MCPaddingLengthOverflow.cfg` (with `MCPadding`) violates
  `RemovePaddingNeverPanics`. A length field with the top bit set
  becomes a negative `int`, `8 + l` stays below `len(msg)`, and
  `msg[0:l]` panics (padding.go:90-95). spec.md 4 says `RemovePadding`
  fails with `ErrSize` when the claimed length is out of bounds. Only a
  holder of the share key can produce such a field, because
  `RemovePadding` runs after `secretbox` has authenticated the buffer.

- `MCRotatingRestore.cfg` (with `MCRotating`) violates `NoPanic` with no
  request naming a short-term key, so the nil `previousPublicKey` cannot
  be the cause. After any restart, `Oracle.Restore` leaves the long-term
  key's `pubkey` nil (curve25519key.go:52-55). The next request that
  passes the short-term key panics in `SharedSecret` (curve25519key.go:66).
  A restored oracle cannot answer any request. The
  `rotating_nil_previous` run checks the same property, but its shortest
  trace is the nil previous key.

Run any of them with `tlc -config <cfg> <MC module>`.

The runs of `SignalStore`, `Oracle` and `Padding` check no type
invariant. Their state is well typed by construction, and no bug in the
code they model could make it otherwise.

Every property of a passing run has a mutant in `PROJECT.json`. Each
mutant is a plausible bug in the mapped definition, such as a dropped
guard, a swapped copy, a loop turned into an `if`, or a missing `Advance`.
TLC finds each one.

## Bounds

The bounds are chosen so that every case of interest happens within them.

- **Signal store:** two signals and the clock 1..4. Setting from 0..4 to
  0..4 covers "since always", "forever", empty, disjoint, overlapping and
  nested intervals, and expiry. The history variable multiplies the state
  space by the 51 possible requests, so the clock stops at 4.
- **Ratchet:** `RatchetTime = 2`, the chain started at 1, generated at 2,
  and the clock up to 9. That is four periods. Every key can be held as
  current and as previous, and can expire, and lists are published at
  several ratchet positions.
- **Oracle:**
  - two names plus the zero name;
  - slot patterns with repeated names, unused slots, and a name in the
    third slot;
  - `validFrom`/`validTo` that reject both early and late;
  - time-lock keys 1 and 2;
  - the clock up to 8, which is past both key windows.
- **Rotating:** TTL 3, the clock up to 8, and four random draws. That is
  enough for two rotations after a restart, expiry of a previous key, and
  a failed rotation after expiry. Each restart takes a draw, so at most
  three restarts happen, panics included.

- **MerkleTree:** 1 to 12 leaves. That gives tree depths 1 to 4, empty
  siblings at one to three levels, and odd layers at every level.
  `DepthWrap = 16` keeps a depth damage in range. Every path, every damage
  of each of its elements, and every claimed leaf are enumerated. A
  behaviour delivers one path and then stops, so the runs do not check
  deadlock: the system has nothing more to do.

- **SecretCalc:** up to three messages per goroutine, of one or two keys,
  of the right or a wrong type, or too short. Two goroutines with one
  message each for the race. One byte already shows the lost update, and
  two keys exercise the loop and its failure.

- **Padding:** messages of 0 to 3 bytes over two byte values, and
  `padLength` 0, 2 and 4. That gives a message shorter than, as long as
  and longer than the pad length, and no padding at all. Every layout of
  `msg` and `out` is covered, with pad keys nil, given or random, and
  random reads that may fail. The channel cuts 0 to `len + 1` bytes, so a
  box falls below the 40-byte minimum. `RemovePadding` is also given
  every short buffer, and every buffer whose length field is 0..12 or
  2^15-1, 2^15, 2^16-1 after a 0- to 3-byte body. Those are fields that
  fit exactly, fit loosely, overrun, overflow `8 + l`, or turn negative.
  With `ByteBits = 2` each byte value is used and the length field spans
  several bytes.

- **ClientMessage:** both engines; one time-lock key in the pass run;
  every `Open` and random read may fail; at most four `Send` calls.
  Four calls let a time-policy error, a key-factory error, a success and
  a resend all happen on one container. Each `Encrypt` step is one group
  of statements, so the behaviour of a single call is enumerated
  completely. The flow stops once `Encrypt` (then `Send`) has returned,
  so these runs do not check deadlock.

## Fairness

The merkle specification assumes `WF_vars(Build)`. `Paths()` is a plain
sequential loop that calls `calcLayer` until it returns false, so once
building has started, its next step is always taken. `BuildTerminates`
relies on this. The other handlers, `Padding`'s calls included, have no waiting, and their properties
are safety properties.

## Not modelled, and the plan

- `Encrypt` and the sending side of the calculator. Every caller in
  `src` builds a fresh calculator for one `Encrypt`, so reusing `Secret`
  after its deferred `Destroy` is not reachable.
- In `ClientMessage`, `AddPadding` is still a single write into the share
  buffer. Its byte-level behaviour is checked on its own in `Padding`.
  `Encrypt`'s and `Decrypt`'s key-length checks and their output-capacity
  panics are not modelled. Every caller passes a 32-byte key and buffers
  of the stated sizes.
- Of memory protection: `WithBytes`, `Set`, element encryption and the
  `Cell` types. No modelled caller uses them.
- `OracleFuture.Receive`. It is not implemented: it panics.
- The merkle helpers `Compress` and `RootHash`. They are unused and pure.
- The plan: the cell operations of memory protection
  where the calculator uses them; `Rotating` written over `MemElement`.
- The message codec, `unsafeconvert`, `util` and the interface-only
  `clientapi` have no behaviour for TLC to check. Byte-level cryptography
  is abstracted everywhere to key identities.
