------------------------------ MODULE Rotating ------------------------------
(***************************************************************************)
(* The oracle's short-term key, Curve25519Rotating of                      *)
(* src/protectedcrypto/curve25519rotate.go.                                *)
(*                                                                         *)
(* The 96-byte sealed element holds three private keys (new, current,     *)
(* previous); a key is the generation number of the random draw that      *)
(* produced it, ZeroKey the zeroed bytes of a fresh element.  The two      *)
(* public-key pointers live outside the element; a nil pointer is NilPtr.  *)
(* A Go panic in SharedSecret kills the oracle process; Oracle.Restore     *)
(* then builds a fresh Curve25519Rotating (NewCurve25519Rotating).         *)
(*                                                                         *)
(* The element is a MemGuardElement (src/memprotect/memguard.go): sealed   *)
(* in an enclave, or open in a buffer that Open returns frozen and Melt    *)
(* makes writable.  Opening the enclave may fail (OpenFailures).           *)
(*                                                                         *)
(* Oracle.Restore also rebuilds the long-term Curve25519 key from its     *)
(* saved element; of that key the model keeps the public-key pointer      *)
(* ltPub, which ReceiveMsg's second SharedSecret compares against.        *)
(***************************************************************************)
EXTENDS Naturals

CONSTANTS
  TTL,            \* timeToExpire
  T0,             \* time of NewCurve25519Rotating
  MaxT,           \* bound of the clock
  MaxGen,         \* bound of random key draws
  RotateFailures, \* whether the random source may fail inside Rotate
  OpenFailures,   \* whether enclave.Open may fail
  Unknown,        \* a public key this object never had
  ZeroKey, NilPtr, Never, Nil

ASSUME TTL \in Nat \ {0} /\ T0 \in 1..MaxT /\ MaxGen \in Nat \ {0}

VARIABLES
  now,
  keys,          \* private keys in the element: [new, cur, prev]
  currentPub,    \* currentPublicKey
  previousPub,   \* previousPublicKey
  expireTime,
  gen,           \* random draws so far
  retiredAt,     \* history: when each key stopped being current
  lastUse,       \* history: the last successful SharedSecret
  panicked,      \* history: a SharedSecret has panicked
  dropped,       \* history: keys no longer held by the element
  el,            \* the element's MemGuardElement state
  ltPub          \* the long-term Curve25519's pubkey pointer

vars == <<now, keys, currentPub, previousPub, expireTime, gen, retiredAt,
          lastUse, panicked, dropped, el, ltPub>>

Gen == 1..MaxGen

Pub(g) == <<"pub", g>>

Claims == {Pub(g) : g \in Gen} \cup {Unknown}

\* The public key Curve25519.Generate computes for the long-term key.
LongTermPub == Pub("longTerm")

-----------------------------------------------------------------------------
(* MemGuardElement: unsealed says the enclave is opened into a buffer,     *)
(* mutable that the buffer is melted.  Each operation returns the new      *)
(* element state and whether it returned an error.                         *)

Sealed == [unsealed |-> FALSE, mutable |-> FALSE]

OpenResults == IF OpenFailures THEN BOOLEAN ELSE {TRUE}

\* open: nothing to do if unsealed; otherwise enclave.Open (which may
\* fail, leaving the element sealed) gives a frozen buffer.
open(e, ok) ==
  IF e.unsealed THEN [el |-> e, err |-> FALSE]
  ELSE IF ok THEN [el |-> [unsealed |-> TRUE, mutable |-> FALSE], err |-> FALSE]
  ELSE [el |-> e, err |-> TRUE]

Melt(e, ok) ==
  LET o == open(e, ok)
  IN IF o.err THEN o ELSE [el |-> [o.el EXCEPT !.mutable = TRUE], err |-> FALSE]

Bytes(e, ok) == open(e, ok)

\* Seal: the buffer goes back into an enclave.
Seal(e) == Sealed

-----------------------------------------------------------------------------

\* Mutant of rotate: the two ConstantTimeCopy lines in the opposite order,
\* so the new key overwrites current before current is saved.
rotateSwapped(st, g, n) ==
  [keys |-> [new |-> g, cur |-> g, prev |-> g],
   previousPub |-> st.currentPub, currentPub |-> Pub(g),
   expireTime |-> n + TTL]

\* Mutant of rotate: the random bytes are read into the wrong slot, so
\* "new" keeps its old content when it is copied to current.
rotateNoDraw(st, g, n) ==
  [keys |-> [new |-> st.keys.new, cur |-> st.keys.new, prev |-> st.keys.cur],
   previousPub |-> st.currentPub, currentPub |-> Pub(st.keys.new),
   expireTime |-> n + TTL]

\* Rotate with the random draw g succeeding: expireTime first, then new
\* from entropy, current -> previous, new -> current, public pointers moved
\* and the new public key computed.
rotate(st, g, n) ==
  [keys |-> [new |-> g, cur |-> g, prev |-> st.keys.cur],
   previousPub |-> st.currentPub, currentPub |-> Pub(g),
   expireTime |-> n + TTL]

\* NewCurve25519Rotating / generate: a zeroed element and nil pointers,
\* then Rotate.
generate(g, n) ==
  rotate([keys |-> [new |-> ZeroKey, cur |-> ZeroKey, prev |-> ZeroKey],
          currentPub |-> NilPtr, previousPub |-> NilPtr, expireTime |-> 0],
         g, n)

Current == [keys |-> keys, currentPub |-> currentPub,
            previousPub |-> previousPub, expireTime |-> expireTime]

\* Mutant of Restore: the old element and pointers are rotated instead of a
\* new Curve25519Rotating being made.
RestoreReuse(g, n) == rotate(Current, g, n)

\* Oracle.Restore after the process died: NewCurve25519Rotating.
Restore(g, n) == generate(g, n)

\* Oracle.Restore's NewCurve25519 and SetSecure for the long-term key:
\* the saved element is installed, and pubkey, which only Generate sets,
\* stays nil.
RestoredLongTermPub == NilPtr

Install(st) ==
  /\ keys' = st.keys
  /\ currentPub' = st.currentPub
  /\ previousPub' = st.previousPub
  /\ expireTime' = st.expireTime

-----------------------------------------------------------------------------
Init ==
  /\ now = T0
  /\ keys = generate(1, T0).keys
  /\ currentPub = generate(1, T0).currentPub
  /\ previousPub = generate(1, T0).previousPub
  /\ expireTime = generate(1, T0).expireTime
  /\ gen = 1
  /\ retiredAt = [g \in Gen |-> Never]
  /\ lastUse = Nil
  /\ panicked = FALSE
  /\ dropped = {}
  /\ el = Sealed
  /\ ltPub = LongTermPub

Tick ==
  /\ now < MaxT
  /\ now' = now + 1
  /\ UNCHANGED <<keys, currentPub, previousPub, expireTime, gen, retiredAt,
                 lastUse, panicked, dropped, el, ltPub>>

\* Curve25519Rotating.Rotate, completed: Melt, Bytes, the random draw into
\* the melted buffer, the key moves, then the deferred Seal.
Rotate ==
  /\ gen < MaxGen
  /\ Install(rotate(Current, gen + 1, now))
  /\ gen' = gen + 1
  /\ retiredAt' = IF keys.cur = ZeroKey THEN retiredAt
                  ELSE [retiredAt EXCEPT ![keys.cur] = now]
  /\ dropped' = dropped \cup ({keys.prev} \ {ZeroKey})
  /\ el' = Seal(Bytes(Melt(el, TRUE).el, TRUE).el)
  /\ UNCHANGED <<now, lastUse, panicked, ltPub>>

\* Curve25519Rotating.Rotate with io.ReadFull failing: expireTime has
\* already been moved, the keys stay, the deferred Seal runs.
RotateFails ==
  /\ RotateFailures
  /\ expireTime' = now + TTL
  /\ el' = Seal(Bytes(Melt(el, TRUE).el, TRUE).el)
  /\ UNCHANGED <<now, keys, currentPub, previousPub, gen, retiredAt,
                 lastUse, panicked, dropped, ltPub>>

\* Curve25519Rotating.Rotate with the enclave failing to open: Melt's
\* error is ignored and Bytes opens again.  If that fails too, Rotate
\* returns before deferring Seal, with expireTime moved.  If it succeeds,
\* ReadFull writes into the frozen buffer Open returned: the write faults,
\* the process dies, and Oracle.Restore makes a new short-term key.
RotateOpenFails ==
  /\ OpenFailures
  /\ gen < MaxGen
  /\ \E okBytes \in OpenResults :
       LET b == Bytes(Melt(el, FALSE).el, okBytes)
       IN IF b.err
          THEN /\ expireTime' = now + TTL
               /\ el' = b.el
               /\ UNCHANGED <<keys, currentPub, previousPub, gen, retiredAt, dropped,
                              ltPub>>
          ELSE /\ Install(Restore(gen + 1, now))
               /\ el' = Sealed
               /\ ltPub' = RestoredLongTermPub
               /\ gen' = gen + 1
               /\ retiredAt' = [retiredAt EXCEPT ![keys.cur] = now]
               /\ dropped' = dropped \cup ({keys.cur, keys.prev} \ {ZeroKey})
  /\ UNCHANGED <<now, lastUse, panicked>>

\* Mutant of SharedSecret's lookup: the expiry test dropped.
lookupNoExpiry(st, claimed, n) ==
  IF claimed = st.currentPub THEN st.keys.cur
  ELSE IF st.previousPub = NilPtr THEN NilPtr
  ELSE IF claimed # st.previousPub THEN Nil
  ELSE st.keys.prev

\* SharedSecret's choice of private key: the current one, else (unless
\* expired) the previous one; ErrKeyNotFound is Nil.  Slicing a nil
\* previousPublicKey panics: NilPtr.
lookup(st, claimed, n) ==
  IF claimed = st.currentPub THEN st.keys.cur
  ELSE IF st.expireTime < n THEN Nil
  ELSE IF st.previousPub = NilPtr THEN NilPtr
  ELSE IF claimed # st.previousPub THEN Nil
  ELSE st.keys.prev

\* Mutant of SharedSecret: the Seal after computing is not deferred but
\* left for the success path only.
SharedSecretNoDefer(claimed) ==
  LET key == lookup(Current, claimed, now)
  IN /\ key \notin {Nil, NilPtr}
     /\ \E ok \in OpenResults :
          LET b == Bytes(el, ok)
          IN /\ lastUse' = IF b.err THEN lastUse
                           ELSE [claimed |-> claimed, priv |-> key, time |-> now]
             /\ el' = b.el
     /\ UNCHANGED <<now, keys, currentPub, previousPub, expireTime, gen,
                    retiredAt, panicked, dropped, ltPub>>

\* Curve25519Rotating.SharedSecret with a public key the caller claims:
\* the element's Bytes (an error destroys the secret cell and returns),
\* the scalar multiplication, and the deferred Seal.
SharedSecret(claimed) ==
  LET key == lookup(Current, claimed, now)
  IN /\ key \notin {Nil, NilPtr}
     /\ \E ok \in OpenResults :
          LET b == Bytes(el, ok)
          IN /\ lastUse' = IF b.err THEN lastUse
                           ELSE [claimed |-> claimed, priv |-> key, time |-> now]
             /\ el' = IF b.err THEN b.el ELSE Seal(b.el)
     /\ UNCHANGED <<now, keys, currentPub, previousPub, expireTime, gen,
                    retiredAt, panicked, dropped, ltPub>>

\* The process ends, by a panic (hasPanicked) or for any other reason, and
\* Oracle.Restore runs: a new short-term key, the saved long-term element.
Restart(hasPanicked) ==
  /\ gen < MaxGen
  /\ Install(Restore(gen + 1, now))
  /\ gen' = gen + 1
  /\ retiredAt' = [retiredAt EXCEPT ![keys.cur] = now]
  /\ panicked' = (panicked \/ hasPanicked)
  /\ dropped' = dropped \cup ({keys.cur, keys.prev} \ {ZeroKey})
  /\ el' = Sealed
  /\ ltPub' = RestoredLongTermPub
  /\ UNCHANGED <<now, lastUse>>

\* SharedSecret slicing the nil previousPublicKey panics.
Panic(claimed) ==
  /\ lookup(Current, claimed, now) = NilPtr
  /\ Restart(TRUE)

\* The oracle process stops and is restarted.
Crash == Restart(FALSE)

\* ReceiveMsg's second key, once the short-term key has computed its
\* secret: Curve25519.SharedSecret of the long-term key is called with the
\* public key ParseHeaders read from the request, never nil, and compares
\* it with pubkey; a nil pubkey is sliced and the process panics.  With a
\* pubkey the call only computes and seals the long-term element, which
\* this module does not track.
LongTermPanic ==
  /\ ltPub = NilPtr
  /\ Restart(TRUE)

Next ==
  \/ Tick
  \/ Rotate
  \/ RotateFails
  \/ RotateOpenFails
  \/ \E c \in Claims : SharedSecret(c) \/ Panic(c)
  \/ Crash
  \/ LongTermPanic

Spec == Init /\ [][Next]_vars

-----------------------------------------------------------------------------
TypeOK ==
  /\ now \in 1..MaxT
  /\ keys \in [new : Gen, cur : Gen, prev : Gen \cup {ZeroKey}]
  /\ currentPub \in {Pub(g) : g \in Gen}
  /\ previousPub \in {Pub(g) : g \in Gen} \cup {NilPtr}
  /\ expireTime \in 1..(MaxT + TTL)
  /\ gen \in Gen
  /\ retiredAt \in [Gen -> 1..MaxT \cup {Never}]
  /\ lastUse \in {Nil} \cup [claimed : Claims, priv : Gen, time : 1..MaxT]
  /\ panicked \in BOOLEAN
  /\ dropped \subseteq Gen
  /\ el \in [unsealed : BOOLEAN, mutable : BOOLEAN]
  /\ ltPub \in {LongTermPub, NilPtr}

(* Secret agreement, end to end: whenever SharedSecret computes a secret, *)
(* the private key it takes from the element is the one whose public key  *)
(* the peer encrypted to, whether that key is presented while current or  *)
(* as the previous key after a rotation, and across failed rotations and *)
(* restarts.  It fails only through the element's slots and the public-   *)
(* key pointers outside it drifting apart over a Rotate and a later call. *)
SecretAgreement ==
  lastUse # Nil => lastUse.claimed = Pub(lastUse.priv)

(* Forward secrecy of the short-term key: a private key that has left the *)
(* element, overwritten by the second rotation after it was current or     *)
(* lost with the process, can never again compute a secret, whatever key   *)
(* a caller presents.                                                      *)
DroppedKeyUnusable ==
  \A c \in Claims : lookup(Current, c, now) \notin dropped

(* The previous key's lifetime (spec.md 4.C, test 5): a retired key         *)
(* computes a secret at most TTL seconds after the rotation that retired    *)
(* it.                                                                     *)
KeyLifetime ==
  lastUse # Nil /\ retiredAt[lastUse.priv] # Never =>
    lastUse.time <= retiredAt[lastUse.priv] + TTL

(* The seal discipline of spec.md section 5: between calls the element    *)
(* holding the three private keys is sealed, whichever of Rotate's and     *)
(* SharedSecret's exit paths (success, a failed random read, a failed      *)
(* enclave open, a crash) the last call took.                              *)
ElementSealedBetweenCalls == ~el.unsealed

(* The oracle's key lookups never panic: the short-term SharedSecret      *)
(* fails with KeyNotFound on an unknown key (spec.md 4.C), and the         *)
(* long-term key answers after a restart as before it (spec.md 3: a       *)
(* LongTermKey is the pair of its private and its public key).            *)
NoPanic == ~panicked

=============================================================================
