----------------------------- MODULE SecretCalc -----------------------------
(***************************************************************************)
(* The hybrid secret calculator of src/hybridcrypto (SecretCalculator:     *)
(* Decrypt, ParseHeaders, Receive, calculateSecret, calculateNonce) and    *)
(* the combiner of src/protectedcrypto (SecretCombiner.Combine,            *)
(* SHA256HMAC, applyHMACPad).                                             *)
(*                                                                         *)
(* Each element of Calcs is a goroutine that builds a fresh                *)
(* SecretCalculator and decrypts one message after another, as the        *)
(* message handlers of src/messages do.  The sender's side (Send, Headers) *)
(* is the reference operator Expected.                                     *)
(*                                                                         *)
(* SHA256HMAC XORs its key slice in place and restores it.  For the first  *)
(* key of every calculation that slice is the package variable             *)
(* protocolConstant, shared by all calculators; the model keeps its first  *)
(* PCLen bytes as numbers and splits each "k[i] ^= pad" into a load and a  *)
(* store.  Hashes are abstracted to tuples of their inputs; a hash over    *)
(* the padded key is recorded by the key it was padded from.  A Diffie-    *)
(* Hellman secret is the set of the two public keys (it is symmetric).     *)
(* Allocated memprotect cells are counted per goroutine.                   *)
(***************************************************************************)
EXTENDS Naturals, Sequences, SequencesExt, Bitwise

CONSTANTS
  Calcs,        \* goroutines, each running SecretCalculators in turn
  Messages,     \* messages a goroutine may be given to decrypt
  MsgType,      \* the MessageType the receiving calculator is built with
  PC0,          \* the first PCLen bytes of protocolConstant
  MaxRuns,      \* bound of Decrypt calls per goroutine
  KeyFailures,  \* whether a SecretGenerator's SharedSecret may fail
  NoVal

PCLen == Len(PC0)

VARIABLES
  buf,      \* protocolConstant's bytes
  pc,       \* per goroutine: where its calculator is
  msg,      \* the message being decrypted
  keys,     \* the calculator's Keys (my/peer public keys) after ParseHeaders
  k,        \* index of the key being combined
  hj,       \* applyHMACPad's loop index
  reg,      \* the byte applyHMACPad has loaded and not yet stored
  inner,    \* key bytes written into the inner hash
  outer,    \* key bytes written into the outer hash
  tsec,     \* the SharedSecret cell of the current key
  st,       \* secretState
  secret,   \* self.Secret
  live,     \* memprotect cells allocated and not destroyed
  runs,     \* Decrypt calls so far
  result    \* the last Decrypt's outcome

vars == <<buf, pc, msg, keys, k, hj, reg, inner, outer, tsec, st, secret,
          live, runs, result>>

IPad == 54    \* 0x36
MidPad == 106 \* 0x6A: turns key^0x36 into key^0x5C
OPad == 92    \* 0x5C

\* applyHMACPad's phases of SHA256HMAC, with the pad each one XORs and the
\* phase that follows it.
PadPhases == {"pad36", "pad6A", "pad5C"}
\* Mutant of SHA256HMAC: the restoring pass XORs 0x6A a second time.
PadOfNoRestore == [pad36 |-> IPad, pad6A |-> MidPad, pad5C |-> MidPad]
PadOf == [pad36 |-> IPad, pad6A |-> MidPad, pad5C |-> OPad]
AfterPad == [pad36 |-> "inner", pad6A |-> "outer", pad5C |-> "combined"]

XorPad(bytes, pad) == [j \in DOMAIN bytes |-> bytes[j] ^^ pad]

\* SHA256HMAC(key, message) whose inner and outer hashes read the key
\* slice as innerBytes and outerBytes: the result depends on the keys
\* those bytes were padded from.
HMACOf(innerBytes, message, outerBytes) ==
  <<"hmac", XorPad(innerBytes, IPad), message, XorPad(outerBytes, OPad)>>

\* Combine of a key no other goroutine touches (secretState's own cell):
\* the in-place padding is invisible.
Combine(key, message) == <<"hmac", key, message, key>>

DH(kc) == {kc.my, kc.peer}

swapKeys(my, peer, isReceiver) ==
  IF isReceiver THEN <<peer, my>> ELSE <<my, peer>>

\* Mutant of calculateNonce: the key pairs hashed in my/peer order,
\* whichever side computes.
calculateNonceNoSwap(type, nonce, ks, isReceiver) ==
  <<type, nonce, [i \in DOMAIN ks |-> <<ks[i].my, ks[i].peer>>]>>

\* calculateNonce: SHA-256 over the message type, the nonce and every key
\* pair in sender/receiver order.
calculateNonce(type, nonce, ks, isReceiver) ==
  <<type, nonce, [i \in DOMAIN ks |-> swapKeys(ks[i].my, ks[i].peer, isReceiver)]>>

\* Headers of the sender: the nonce, then every pair as (sender, receiver).
Headers(m) ==
  [nonce |-> m.nonce,
   pairs |-> [i \in DOMAIN m.keys |-> swapKeys(m.keys[i].my, m.keys[i].peer, FALSE)]]

\* ParseHeaders on the receiver: every pair swapped into (my, peer).
ParseHeaders(h) ==
  [i \in DOMAIN h.pairs |->
     [my |-> swapKeys(h.pairs[i][1], h.pairs[i][2], TRUE)[1],
      peer |-> swapKeys(h.pairs[i][1], h.pairs[i][2], TRUE)[2]]]

\* The sender's Send: calculateSecret over its own keys, the protocol
\* constant untouched by anyone else.
Expected(m) ==
  LET first == Combine(PC0, DH(m.keys[1]))
      chained == FoldLeft(LAMBDA s, kc : Combine(s, DH(kc)), first, Tail(m.keys))
  IN Combine(chained, calculateNonce(m.type, m.nonce, m.keys, FALSE))

\* One goroutine's calculator leaves everything of the others alone.
Set(f, c, v) == [f EXCEPT ![c] = v]

-----------------------------------------------------------------------------
Init ==
  /\ buf = PC0
  /\ pc = [c \in Calcs |-> "idle"]
  /\ msg = [c \in Calcs |-> NoVal]
  /\ keys = [c \in Calcs |-> <<>>]
  /\ k = [c \in Calcs |-> 1]
  /\ hj = [c \in Calcs |-> 1]
  /\ reg = [c \in Calcs |-> NoVal]
  /\ inner = [c \in Calcs |-> NoVal]
  /\ outer = [c \in Calcs |-> NoVal]
  /\ tsec = [c \in Calcs |-> NoVal]
  /\ st = [c \in Calcs |-> NoVal]
  /\ secret = [c \in Calcs |-> NoVal]
  /\ live = [c \in Calcs |-> 0]
  /\ runs = [c \in Calcs |-> 0]
  /\ result = [c \in Calcs |-> NoVal]

\* A fresh SecretCalculator's Decrypt up to Receive: ErrSize for a message
\* too short to hold anything, ErrMessageType for another type, otherwise
\* ParseHeaders of the sender's headers and calculateSecret begins.
\* (ParseHeaders' ErrHeaderSize cannot happen once the size check passed.)
Decrypt(c, m) ==
  /\ pc[c] = "idle"
  /\ runs[c] < MaxRuns
  /\ runs' = Set(runs, c, runs[c] + 1)
  /\ IF m.size = "short" \/ (MsgType # 0 /\ MsgType # m.type)
     THEN /\ result' = Set(result, c, IF m.size = "short" THEN "ErrSize"
                                      ELSE "ErrMessageType")
          /\ UNCHANGED <<pc, msg, keys, k>>
     ELSE /\ msg' = Set(msg, c, m)
          /\ keys' = Set(keys, c, ParseHeaders(Headers(m)))
          /\ k' = Set(k, c, 1)
          /\ pc' = Set(pc, c, "first")
          /\ result' = Set(result, c, NoVal)
  /\ UNCHANGED <<buf, hj, reg, inner, outer, tsec, st, secret, live>>

\* The first key's SharedSecret: an error returns at once; otherwise its
\* cell is allocated and Combine(protocolConstant, tsecret) starts.
FirstKey(c) ==
  /\ pc[c] = "first"
  /\ \/ /\ KeyFailures
        /\ pc' = Set(pc, c, "idle")
        /\ result' = Set(result, c, "ErrKey")
        /\ UNCHANGED <<tsec, live>>
     \/ /\ tsec' = Set(tsec, c, DH(keys[c][1]))
        /\ live' = Set(live, c, live[c] + 1)
        /\ pc' = Set(pc, c, "pad36")
        /\ UNCHANGED result
  /\ UNCHANGED <<buf, msg, keys, k, hj, reg, inner, outer, st, secret, runs>>

\* applyHMACPad, first half of "k[i] ^= pad": load the byte.
PadLoad(c) ==
  /\ pc[c] \in PadPhases
  /\ reg[c] = NoVal
  /\ reg' = Set(reg, c, buf[hj[c]])
  /\ UNCHANGED <<buf, pc, msg, keys, k, hj, inner, outer, tsec, st, secret,
                 live, runs, result>>

\* Mutant of PadStore: the loop runs while i <= len(k).
PadStoreOffByOne(c) ==
  /\ pc[c] \in PadPhases
  /\ reg[c] # NoVal
  /\ buf' = [buf EXCEPT ![hj[c]] = reg[c] ^^ PadOf[pc[c]]]
  /\ reg' = Set(reg, c, NoVal)
  /\ IF hj[c] <= PCLen
     THEN hj' = Set(hj, c, hj[c] + 1) /\ UNCHANGED pc
     ELSE hj' = Set(hj, c, 1) /\ pc' = Set(pc, c, AfterPad[pc[c]])
  /\ UNCHANGED <<msg, keys, k, inner, outer, tsec, st, secret, live, runs,
                 result>>

\* applyHMACPad, second half: store the byte XOR pad and move to the next
\* byte, or after the last one to the next step of SHA256HMAC.
PadStore(c) ==
  /\ pc[c] \in PadPhases
  /\ reg[c] # NoVal
  /\ buf' = [buf EXCEPT ![hj[c]] = reg[c] ^^ PadOf[pc[c]]]
  /\ reg' = Set(reg, c, NoVal)
  /\ IF hj[c] < PCLen
     THEN hj' = Set(hj, c, hj[c] + 1) /\ UNCHANGED pc
     ELSE hj' = Set(hj, c, 1) /\ pc' = Set(pc, c, AfterPad[pc[c]])
  /\ UNCHANGED <<msg, keys, k, inner, outer, tsec, st, secret, live, runs,
                 result>>

\* h.Write(key) of the inner hash (with the message), then the 0x6A pad.
ReadInner(c) ==
  /\ pc[c] = "inner"
  /\ inner' = Set(inner, c, buf)
  /\ pc' = Set(pc, c, "pad6A")
  /\ UNCHANGED <<buf, msg, keys, k, hj, reg, outer, tsec, st, secret, live,
                 runs, result>>

\* h.Write(key) of the outer hash, then the 0x5C pad that restores it.
ReadOuter(c) ==
  /\ pc[c] = "outer"
  /\ outer' = Set(outer, c, buf)
  /\ pc' = Set(pc, c, "pad5C")
  /\ UNCHANGED <<buf, msg, keys, k, hj, reg, inner, tsec, st, secret, live,
                 runs, result>>

\* End of the first Combine: its 32-byte cell becomes secretState and
\* tsecret is destroyed; on to the other keys or the nonce.
Combined(c) ==
  /\ pc[c] = "combined"
  /\ st' = Set(st, c, HMACOf(inner[c], tsec[c], outer[c]))
  /\ tsec' = Set(tsec, c, NoVal)
  /\ k' = Set(k, c, 2)
  /\ pc' = Set(pc, c, IF Len(keys[c]) > 1 THEN "loop" ELSE "nonce")
  /\ UNCHANGED <<buf, msg, keys, hj, reg, inner, outer, secret, live, runs,
                 result>>

\* One iteration of calculateSecret's loop: SharedSecret of key k, whose
\* error returns with secretState still allocated; otherwise Combine with
\* secretState as key, then tsecret and the old secretState destroyed.
NextKey(c) ==
  /\ pc[c] = "loop"
  /\ \/ /\ KeyFailures
        /\ pc' = Set(pc, c, "idle")
        /\ result' = Set(result, c, "ErrKey")
        /\ st' = Set(st, c, NoVal)
        /\ UNCHANGED k
     \/ /\ st' = Set(st, c, Combine(st[c], DH(keys[c][k[c]])))
        /\ k' = Set(k, c, k[c] + 1)
        /\ pc' = Set(pc, c, IF k[c] < Len(keys[c]) THEN "loop" ELSE "nonce")
        /\ UNCHANGED result
  /\ UNCHANGED <<buf, msg, keys, hj, reg, inner, outer, tsec, secret, live,
                 runs>>

\* The last Combine with the receiver's calculateNonce; secretState is
\* destroyed and the result becomes self.Secret.
Nonce(c) ==
  /\ pc[c] = "nonce"
  /\ secret' = Set(secret, c, Combine(st[c], calculateNonce(msg[c].type,
                                  msg[c].nonce, keys[c], TRUE)))
  /\ st' = Set(st, c, NoVal)
  /\ pc' = Set(pc, c, "open")
  /\ UNCHANGED <<buf, msg, keys, k, hj, reg, inner, outer, tsec, live, runs,
                 result>>

\* symmetriccrypto.Decrypt with self.Secret, then the deferred Destroy:
\* the box opens only under the sender's key.
Open(c) ==
  /\ pc[c] = "open"
  /\ result' = Set(result, c, IF secret[c] = Expected(msg[c]) THEN "Plaintext"
                              ELSE "ErrDecrypt")
  /\ secret' = Set(secret, c, NoVal)
  /\ live' = Set(live, c, live[c] - 1)
  /\ pc' = Set(pc, c, "idle")
  /\ UNCHANGED <<buf, msg, keys, k, hj, reg, inner, outer, tsec, st, runs>>

Next ==
  \E c \in Calcs :
    \/ \E m \in Messages : Decrypt(c, m)
    \/ FirstKey(c)
    \/ PadLoad(c)
    \/ PadStore(c)
    \/ ReadInner(c)
    \/ ReadOuter(c)
    \/ Combined(c)
    \/ NextKey(c)
    \/ Nonce(c)
    \/ Open(c)

Spec == Init /\ [][Next]_vars

-----------------------------------------------------------------------------
Phases == {"idle", "first", "inner", "outer", "combined", "loop", "nonce",
           "open"} \cup PadPhases

TypeOK ==
  /\ buf \in [1..PCLen -> 0..255]
  /\ pc \in [Calcs -> Phases]
  /\ msg \in [Calcs -> Messages \cup {NoVal}]
  /\ \A c \in Calcs : k[c] \in 1..(Len(keys[c]) + 1)
  /\ hj \in [Calcs -> 1..PCLen]
  /\ reg \in [Calcs -> 0..255 \cup {NoVal}]
  /\ live \in [Calcs -> 0..MaxRuns]
  /\ runs \in [Calcs -> 0..MaxRuns]
  /\ result \in [Calcs -> {NoVal, "ErrSize", "ErrMessageType", "ErrKey",
                           "ErrDecrypt", "Plaintext"}]

(* Secret agreement (spec.md 4.D): whenever a receiving calculator has     *)
(* finished calculateSecret, its Secret is the one the sender's Send       *)
(* computed for that message.  This needs ParseHeaders and calculateNonce  *)
(* to undo the sender's swapKeys order, and the protocolConstant key of    *)
(* the first Combine to read as the constant in both HMAC hashes although  *)
(* SHA256HMAC rewrites it in place.                                        *)
SecretAgreement ==
  \A c \in Calcs : pc[c] = "open" => secret[c] = Expected(msg[c])

(* protocolConstant is a constant: whenever no calculator is inside the   *)
(* first key's SHA256HMAC, its bytes are the original ones, so the three   *)
(* in-place applyHMACPad passes always leave it restored.                  *)
ProtocolConstantIntact ==
  (\A c \in Calcs : pc[c] \notin PadPhases \cup {"inner", "outer", "combined"})
    => buf = PC0

(* No key material is left behind (spec.md 4.D): when Decrypt has returned, *)
(* with a result or an error, every memprotect cell its calculator          *)
(* allocated (shared secrets, secretState, Secret) has been destroyed.     *)
CellsReleased ==
  \A c \in Calcs : pc[c] = "idle" => live[c] = 0

=============================================================================
