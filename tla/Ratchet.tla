------------------------------- MODULE Ratchet -------------------------------
(***************************************************************************)
(* The forward-secure time-lock key, Curve25519Ratchet in                 *)
(* src/protectedcrypto/curve25519ratchet.go, with its single-use          *)
(* Curve25519RatchetGenerator and the client-side key selection of        *)
(* src/types/keys.go.                                                      *)
(*                                                                         *)
(* Key material is abstracted to positions in the HMAC chain: RatchetBase *)
(* n is the base after n applications of HMAC(base, RatchetConstant);     *)
(* the private key derived from base n (HMAC(base, RatchetGenerator)) is   *)
(* n, and its public key (ScalarBaseMult) is Pub(n).  Both derivations are *)
(* injective for the model's purpose, so equality of keys is equality of   *)
(* positions.  The clock is timeNow() of package protectedcrypto.          *)
(***************************************************************************)
EXTENDS Naturals, Sequences

CONSTANTS
  RatchetTime,  \* seconds per key (Generate's ratchetTime)
  StartTime0,   \* Generate's startTime
  GenTime,      \* timeNow() when Generate runs
  MaxT,         \* bound of the clock
  KeyCount,     \* count passed to PublicKeys
  Claims,       \* public keys a caller may present to SharedSecret
  NoKey,        \* zeroed key slot (PreviousPublicKey before any advance)
  Nil           \* nil *TimeKey of SelectKey / no use yet

ASSUME RatchetTime \in Nat \ {0}
ASSUME StartTime0 \in Nat \ {0} /\ StartTime0 <= GenTime /\ GenTime <= MaxT
ASSUME KeyCount \in Nat \ {0}

VARIABLES
  now,          \* the clock
  rk,           \* the RatchetKey struct inside the sealed element
  published,    \* RatchetPublicKey lists handed out by PublicKeys
  lastUse       \* the last successful SharedSecret: what it computed with

vars == <<now, rk, published, lastUse>>

Pub(k) == <<"pub", k>>

\* RatchetKey.generate: fresh random constant, generator and base; the
\* first private key is derived from base 0.
generate(startTime, ratchetTime) ==
  [StartTime |-> startTime, RatchetTime |-> ratchetTime,
   RatchetBase |-> 0, PrivateKey |-> 0, PublicKey |-> Pub(0),
   PreviousPrivateKey |-> NoKey, PreviousPublicKey |-> NoKey,
   HasPrevious |-> FALSE]

\* Mutant of advance: the current pair is copied to previous after the
\* base is hashed forward and the keys re-derived, not before.
advanceCopyLate(k, n) ==
  IF k.StartTime + k.RatchetTime < n
  THEN [k EXCEPT !.StartTime = k.StartTime + k.RatchetTime,
                 !.HasPrevious = TRUE,
                 !.RatchetBase = k.RatchetBase + 1,
                 !.PrivateKey = k.RatchetBase + 1,
                 !.PublicKey = Pub(k.RatchetBase + 1),
                 !.PreviousPrivateKey = k.RatchetBase + 1,
                 !.PreviousPublicKey = Pub(k.RatchetBase + 1)]
  ELSE k

\* RatchetKey.advance: one step of the chain if the current key's period
\* has ended.  The old pair moves to previous, the base is hashed forward,
\* the private key is re-derived and its public key computed.
advance(k, n) ==
  IF k.StartTime + k.RatchetTime < n
  THEN [k EXCEPT !.StartTime = k.StartTime + k.RatchetTime,
                 !.PreviousPrivateKey = k.PrivateKey,
                 !.PreviousPublicKey = k.PublicKey,
                 !.HasPrevious = TRUE,
                 !.RatchetBase = k.RatchetBase + 1,
                 !.PrivateKey = k.RatchetBase + 1,
                 !.PublicKey = Pub(k.RatchetBase + 1)]
  ELSE k

\* Mutant of the loop: a single "if" where the code has a "for".
advanceLoopOnce(k, n) ==
  IF k.StartTime + k.RatchetTime < n THEN advance(k, n) ELSE k

\* The inner loop of Curve25519Ratchet.Advance.
RECURSIVE advanceLoop(_, _)
advanceLoop(k, n) ==
  IF k.StartTime + k.RatchetTime < n THEN advanceLoop(advance(k, n), n) ELSE k

\* Curve25519Ratchet.Advance runs the loop twice, each time with a fresh
\* timeNow(); the clock is read once per model step, so both passes see n.
Advanced(k, n) == advanceLoop(advanceLoop(k, n), n)

\* Reference for the loop: the result is StartTime + j*RatchetTime for the
\* least j >= 0 whose period reaches n, reached by exactly j chain steps.
AdvanceReference(k, n) ==
  LET j == CHOOSE i \in 0..n : k.StartTime + (i + 1) * k.RatchetTime >= n
                               /\ \A l \in 0..(i - 1) :
                                    k.StartTime + (l + 1) * k.RatchetTime < n
  IN IF j = 0 THEN k
     ELSE [k EXCEPT !.StartTime = k.StartTime + j * k.RatchetTime,
                    !.RatchetBase = k.RatchetBase + j,
                    !.PrivateKey = k.RatchetBase + j,
                    !.PublicKey = Pub(k.RatchetBase + j),
                    !.PreviousPrivateKey = k.RatchetBase + j - 1,
                    !.PreviousPublicKey = Pub(k.RatchetBase + j - 1),
                    !.HasPrevious = TRUE]

\* Mutant of the PublicKeys loop: the break comes one key late.
RECURSIVE keysLoopLateBreak(_, _, _)
keysLoopLateBreak(k, n, count) ==
  IF count = 0 THEN <<k.PublicKey>>
  ELSE <<k.PublicKey>> \o keysLoopLateBreak(advance(k, n), n + k.RatchetTime, count - 1)

\* Curve25519RatchetGenerator.PublicKeys on a clone: copy the public key,
\* stop after count keys, otherwise advance with a simulated clock one
\* period ahead.
RECURSIVE keysLoop(_, _, _)
keysLoop(k, n, count) ==
  IF count = 1 THEN <<k.PublicKey>>
  ELSE <<k.PublicKey>> \o keysLoop(advance(k, n), n + k.RatchetTime, count - 1)

\* Mutant of PublicKeys: the clone is advanced before its key is copied.
PublicKeysAdvanceFirst(k, count) ==
  [StartTime |-> k.StartTime, RatchetTime |-> k.RatchetTime,
   Key |-> keysLoop(advance(k, k.StartTime + k.RatchetTime + 1),
                    k.StartTime + 2 * k.RatchetTime + 1, count)]

PublicKeys(k, count) ==
  [StartTime |-> k.StartTime, RatchetTime |-> k.RatchetTime,
   Key |-> keysLoop(k, k.StartTime + k.RatchetTime + 1, count)]

\* RatchetPublicKey.SelectKey: the key whose period contains t, or Nil.
SelectKey(list, t) ==
  IF t < list.StartTime THEN Nil
  ELSE LET pos == (t - list.StartTime) \div list.RatchetTime
       IN IF Len(list.Key) <= pos THEN Nil
          ELSE [ValidFrom |-> list.StartTime + pos * list.RatchetTime,
                ValidTo |-> list.StartTime + (pos + 1) * list.RatchetTime - 1,
                PublicKey |-> list.Key[pos + 1]]

\* Mutant of absTime: the time not rounded down to its period's start.
absTimeUnaligned(list, t) == t

\* RatchetPublicKey.absTime: the start of the period containing t.
absTime(list, t) ==
  ((t - list.StartTime) \div list.RatchetTime) * list.RatchetTime + list.StartTime

\* The loop of SelectKeyRange from i to end, one period per iteration,
\* skipping times SelectKey finds no key for.
RECURSIVE rangeLoop(_, _, _)
rangeLoop(list, i, end) ==
  IF i > end THEN <<>>
  ELSE LET k == SelectKey(list, i)
       IN (IF k = Nil THEN <<>> ELSE <<k>>) \o rangeLoop(list, i + list.RatchetTime, end)

\* RatchetPublicKey.SelectKeyRange: nil (here the empty list) for an empty
\* or too early range, otherwise the keys of the aligned periods.
SelectKeyRange(list, begin, end) ==
  IF begin > end \/ begin < list.StartTime THEN <<>>
  ELSE rangeLoop(list, absTime(list, begin), absTime(list, end))

\* The private key SharedSecret computes with for a claimed public key,
\* after its Advance, or NoKey (ErrRatchedNotFound).
calcKey(k, claimed) ==
  IF claimed = k.PublicKey THEN k.PrivateKey
  ELSE IF k.HasPrevious /\ claimed = k.PreviousPublicKey
       THEN k.PreviousPrivateKey
       ELSE NoKey

-----------------------------------------------------------------------------
\* Curve25519Ratchet.Generate at time GenTime: generate, Seal, Advance.
Init ==
  /\ now = GenTime
  /\ rk = Advanced(generate(StartTime0, RatchetTime), GenTime)
  /\ published = {}
  /\ lastUse = Nil

Tick ==
  /\ now < MaxT
  /\ now' = now + 1
  /\ UNCHANGED <<rk, published, lastUse>>

\* Curve25519Ratchet.Advance called by its owner.
Advance ==
  /\ rk' = Advanced(rk, now)
  /\ UNCHANGED <<now, published, lastUse>>

\* Curve25519Ratchet.Generator (Advance, then clone) followed by the
\* generator's one PublicKeys(KeyCount) call.
Generator ==
  LET k == Advanced(rk, now)
  IN /\ rk' = k
     /\ published' = published \cup {PublicKeys(k, KeyCount)}
     /\ UNCHANGED <<now, lastUse>>

\* Curve25519Ratchet.SharedSecret: Advance, then compute with the current
\* or (if any) the previous private key; otherwise ErrRatchedNotFound.
SharedSecret(claimed) ==
  LET k == Advanced(rk, now)
      priv == calcKey(k, claimed)
  IN /\ rk' = k
     /\ lastUse' = IF priv = NoKey THEN lastUse
                   ELSE [claimed |-> claimed, priv |-> priv, time |-> now]
     /\ UNCHANGED <<now, published>>

Next ==
  \/ Tick
  \/ Advance
  \/ Generator
  \/ \E c \in Claims : SharedSecret(c)

Spec == Init /\ [][Next]_vars

-----------------------------------------------------------------------------
MaxBase == (MaxT - StartTime0) \div RatchetTime + 1

KeyIndex == 0..MaxBase

RatchetKeyType ==
  [StartTime : StartTime0..MaxT, RatchetTime : {RatchetTime},
   RatchetBase : KeyIndex, PrivateKey : KeyIndex,
   PublicKey : {Pub(i) : i \in KeyIndex},
   PreviousPrivateKey : KeyIndex \cup {NoKey},
   PreviousPublicKey : {Pub(i) : i \in KeyIndex} \cup {NoKey},
   HasPrevious : BOOLEAN]

TypeOK ==
  /\ now \in 1..MaxT
  /\ rk \in RatchetKeyType
  /\ \A l \in published : Len(l.Key) = KeyCount
  /\ lastUse \in {Nil} \cup [claimed : Claims, priv : KeyIndex, time : 1..MaxT]

(* The live ratchet and the lists its generators published agree on the  *)
(* keys the ratchet still holds: the current public key is the one a      *)
(* client's SelectKey finds in any published list for the ratchet's       *)
(* period, the previous one the key it finds for the period before, and   *)
(* the previous public key belongs to the previous private key.  The      *)
(* generator's clone advanced with a simulated clock and the ratchet      *)
(* advanced by Advance calls at arbitrary times must meet here, after     *)
(* several periods and generators.                                        *)
PreviousKeyIsPredecessor ==
  /\ rk.HasPrevious => rk.PreviousPublicKey = Pub(rk.PreviousPrivateKey)
  /\ \A l \in published :
       LET cur == SelectKey(l, rk.StartTime)
           prev == SelectKey(l, rk.StartTime - RatchetTime)
       IN /\ cur # Nil => cur.PublicKey = rk.PublicKey
          /\ prev # Nil /\ rk.HasPrevious => prev.PublicKey = rk.PreviousPublicKey

(* Time-lock window: whenever SharedSecret succeeds with a key that some   *)
(* published list assigns to the period [ValidFrom, ValidTo], it happens   *)
(* no earlier than ValidFrom (the time lock) and at most one period after  *)
(* ValidTo (forward secrecy: the key is gone once it stops being the       *)
(* previous key).  This ties the generator's simulated clock to the live   *)
(* ratchet's Advance loop, each call made at a different time.             *)
TimelockWindow ==
  lastUse # Nil =>
    \A l \in published : \A p \in 1..Len(l.Key) :
      l.Key[p] = lastUse.claimed =>
        LET validFrom == l.StartTime + (p - 1) * l.RatchetTime
            validTo == validFrom + l.RatchetTime - 1
        IN validFrom <= lastUse.time /\ lastUse.time <= validTo + l.RatchetTime + 1

(* The Advance loop agrees with its declarative reference: from every     *)
(* reachable ratchet state, for every later clock value, the loop ends on  *)
(* the period containing that time after exactly as many chain steps.      *)
AdvanceMatchesReference ==
  \A n \in now..MaxT : advanceLoop(rk, n) = AdvanceReference(rk, n)

\* The keys of a list whose periods meet [b, e], declaratively.
SelectKeyRangeReference(list, b, e) ==
  LET periods == [p \in 1..Len(list.Key) |->
                   [ValidFrom |-> list.StartTime + (p - 1) * list.RatchetTime,
                    ValidTo |-> list.StartTime + p * list.RatchetTime - 1,
                    PublicKey |-> list.Key[p]]]
      Meets(w) == w.ValidFrom <= e /\ b <= w.ValidTo
  IN IF b > e \/ b < list.StartTime THEN <<>> ELSE SelectSeq(periods, Meets)

(* Key ranges (spec.md 4.G): for every published list and every range of  *)
(* times from before the list's start to past its last key,               *)
(* SelectKeyRange's loop over the aligned ends returns exactly the keys    *)
(* whose periods meet the range, each once and in order, so a client      *)
(* that locks a share to a range gets every key that can open it.         *)
SelectKeyRangeMatchesReference ==
  \A l \in published : \A b, e \in 0..MaxT + RatchetTime :
    SelectKeyRange(l, b, e) = SelectKeyRangeReference(l, b, e)

(* The client's selection (spec.md 4.G, 8.6): a key SelectKey picks for    *)
(* time t from a published list can be used by the oracle at time t.       *)
SelectedKeyUsable ==
  \A l \in published :
    LET sel == SelectKey(l, now)
    IN sel # Nil => calcKey(Advanced(rk, now), sel.PublicKey) # NoKey

=============================================================================
