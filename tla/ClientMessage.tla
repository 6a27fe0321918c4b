---------------------------- MODULE ClientMessage ----------------------------
(***************************************************************************)
(* The client side of an oracle request: OracleMessage.Encrypt             *)
(* (src/messages/oraclemsg.go), which builds the OracleMessageContainer,   *)
(* and OracleMessageContainer.Send (src/messages/container.go), which      *)
(* turns the container into the OracleFuture whose Message goes to the     *)
(* oracle.  The memory elements of the keys and of the share buffer are    *)
(* MemElement records under the chosen engine.                             *)
(*                                                                         *)
(* Encrypt is one sequential call; a step is one group of its statements,  *)
(* in code order, and Return runs the deferred calls last-in first-out.    *)
(* Cryptography is abstracted to the values it combines: a random key is   *)
(* <<"key", r>> for a name r of the random bytes read, a share message     *)
(* encrypted under key k is                                                *)
(* <<"sm", k>>, and its time-lock encryption <<"tl", <<"sm", k>>>>.  A      *)
(* slice is either a value <<v>> or a reference <<element, buffer>> into   *)
(* an element's memory, read when the code copies it.                      *)
(***************************************************************************)
EXTENDS Naturals, Sequences

CONSTANTS
  Engines,       \* the engines a client may run
  Timelocks,     \* TimelockPublicKey values: NoTimelock or a key
  NoTimelock,
  OpenFailures,  \* whether enclave.Open may fail
  RandFailures,  \* whether reads of RandomSource may fail
  MaxSends,      \* bound on the calls of Send on one container
  Nil, Fault

VARIABLES
  engine,    \* the memprotect.Engine the client passes
  tl,        \* the message's TimelockPublicKey
  pc,        \* the statement Encrypt or Send is at
  el,        \* element name -> MemElement record, Nil before it exists
  defers,    \* Encrypt's deferred calls, in the order they were deferred
  share,     \* OracleMessage.Share: the slice the message holds
  bufBytes,  \* shareBufferBytes: the slice shareBuffer.Bytes returned
  cont,      \* the container's slice fields and its OracleMessage
  blob,      \* the marshalled container that container.encrypt sealed
  futures,   \* the OracleFutures Send returned, in order
  outcome,   \* what Encrypt (then Send) returned, Nil while it runs
  sends      \* the calls of Send made so far

vars == <<engine, tl, pc, el, defers, share, bufBytes, cont, blob, futures, outcome, sends>>

ME == INSTANCE MemElement WITH Engine <- engine

Names == {"resp", "shareKey", "shareBuf", "single"}

OpenResults == IF OpenFailures THEN BOOLEAN ELSE {TRUE}

RandResults == IF RandFailures THEN BOOLEAN ELSE {TRUE}

Val(v) == <<v>>

Ref(n, i) == <<n, i>>

\* Reading a slice: a value, or what the buffer it points into holds.
Deref(s) == IF Len(s) = 1 THEN s[1] ELSE ME!ReadSlice(el[s[1]], s[2])

\* The public key of a private key (curve25519.ScalarBaseMult).
Pub(k) == <<"pub", k>>

-----------------------------------------------------------------------------
(* Key generation.                                                         *)

\* Curve25519.Generate: a new 32-byte element, melted (the error of Melt is
\* ignored), its bytes filled from RandomSource; on an error of Bytes or of
\* the read the element is destroyed (that error ignored too).  Writing
\* into a buffer that Melt failed to make writable faults.  r names the
\* random bytes the read returns.
newKeyElement(n, r, meltOK, bytesOK, destroyOK, randOK) ==
  LET m == ME!Melt(ME!NewElement(n), meltOK)
      b == ME!Bytes(m.el, bytesOK)
      w == ME!WriteSlice(b.el, b.ref, <<"key", r>>)
  IN IF b.err # "ok" THEN ME!Result(ME!Destroy(b.el, destroyOK).el, "err")
     ELSE IF ~randOK THEN ME!Result(ME!Destroy(b.el, destroyOK).el, "err")
     ELSE IF w = Fault THEN ME!Result(b.el, "fault")
     ELSE ME!Result(w, "ok")

\* NewSymmetricKey: the same sequence over a 32-byte element.
NewSymmetricKey(n, meltOK, bytesOK, destroyOK, randOK) ==
  newKeyElement(n, n, meltOK, bytesOK, destroyOK, randOK)

-----------------------------------------------------------------------------
(* OracleMessage.Encrypt.                                                  *)

Init ==
  /\ engine \in Engines
  /\ tl \in Timelocks
  /\ pc = "generate"
  /\ el = [n \in Names |-> Nil]
  /\ defers = <<>>
  /\ share = Val(<<"share">>)
  /\ bufBytes = Nil
  /\ cont = [respPriv |-> Nil, msgKey |-> Nil, respPub |-> Nil, message |-> Nil]
  /\ blob = Nil
  /\ futures = <<>>
  /\ outcome = Nil
  /\ sends = 0

\* Encrypt returns r: the deferred calls run next.
Fail(r) == pc' = "return" /\ outcome' = r

\* A fault or a panic ends the process.
Crash == pc' = "crashed" /\ outcome' = "crash"

\* Generate the response key (268-271).
Generate ==
  /\ pc = "generate"
  /\ \E mo, bo, dno \in OpenResults, ro \in RandResults :
       LET g == newKeyElement("resp", "resp", mo, bo, dno, ro)
       IN /\ el' = [el EXCEPT !["resp"] = g.el]
          /\ CASE g.err = "ok"    -> pc' = "respBytes" /\ outcome' = outcome
               [] g.err = "err"   -> Fail("err")
               [] g.err = "fault" -> Crash
  /\ UNCHANGED <<engine, tl, defers, share, bufBytes, cont, blob, futures, sends>>

\* The response key's bytes into the container, Seal deferred (272-279).
RespBytes ==
  /\ pc = "respBytes"
  /\ \E ok \in OpenResults :
       LET b == ME!Bytes(el["resp"], ok)
       IN IF b.err # "ok"
          THEN /\ el' = [el EXCEPT !["resp"] = ME!Seal(b.el)]
               /\ Fail("err")
               /\ UNCHANGED <<defers, cont>>
          ELSE /\ el' = [el EXCEPT !["resp"] = b.el]
               /\ cont' = [cont EXCEPT !.respPriv = Ref("resp", b.ref),
                                       !.respPub = Pub(Deref(Ref("resp", b.ref)))]
               /\ defers' = Append(defers, <<"Seal", "resp">>)
               /\ pc' = "shareKey" /\ outcome' = outcome
  /\ UNCHANGED <<engine, tl, share, bufBytes, blob, futures, sends>>

\* Mutant of ShareKey: the share key destroyed as soon as its bytes are
\* taken, instead of on return.
ShareKeyDestroyedEarly ==
  /\ pc = "shareKey"
  /\ \E mo, bo, dno, ko \in OpenResults, ro \in RandResults :
       LET k == NewSymmetricKey("shareKey", mo, bo, dno, ro)
           b == ME!Bytes(k.el, ko)
       IN CASE k.err = "err"   -> el' = [el EXCEPT !["shareKey"] = k.el]
                                  /\ Fail("err") /\ UNCHANGED <<defers, cont>>
            [] k.err = "fault" -> el' = [el EXCEPT !["shareKey"] = k.el]
                                  /\ Crash /\ UNCHANGED <<defers, cont>>
            [] b.err # "ok"    -> el' = [el EXCEPT !["shareKey"] = ME!Seal(b.el)]
                                  /\ Fail("err") /\ UNCHANGED <<defers, cont>>
            [] OTHER -> /\ el' = [el EXCEPT !["shareKey"] = ME!Destroy(b.el, TRUE).el]
                        /\ cont' = [cont EXCEPT !.msgKey = Ref("shareKey", b.ref)]
                        /\ defers' = defers
                        /\ pc' = "shareBuf" /\ outcome' = outcome
  /\ UNCHANGED <<engine, tl, share, bufBytes, blob, futures, sends>>

\* Mutant of ShareKey: only the Seal of the share key deferred.
ShareKeyNotDestroyed ==
  /\ pc = "shareKey"
  /\ \E mo, bo, dno, ko \in OpenResults, ro \in RandResults :
       LET k == NewSymmetricKey("shareKey", mo, bo, dno, ro)
           b == ME!Bytes(k.el, ko)
       IN CASE k.err = "err"   -> el' = [el EXCEPT !["shareKey"] = k.el]
                                  /\ Fail("err") /\ UNCHANGED <<defers, cont>>
            [] k.err = "fault" -> el' = [el EXCEPT !["shareKey"] = k.el]
                                  /\ Crash /\ UNCHANGED <<defers, cont>>
            [] b.err # "ok"    -> el' = [el EXCEPT !["shareKey"] = ME!Seal(b.el)]
                                  /\ Fail("err") /\ UNCHANGED <<defers, cont>>
            [] OTHER -> /\ el' = [el EXCEPT !["shareKey"] = b.el]
                        /\ cont' = [cont EXCEPT !.msgKey = Ref("shareKey", b.ref)]
                        /\ defers' = Append(defers, <<"KeySeal", "shareKey">>)
                        /\ pc' = "shareBuf" /\ outcome' = outcome
  /\ UNCHANGED <<engine, tl, share, bufBytes, blob, futures, sends>>

\* The share key: NewSymmetricKey, its bytes into the container, Seal and
\* Destroy deferred (281-291).
ShareKey ==
  /\ pc = "shareKey"
  /\ \E mo, bo, dno, ko \in OpenResults, ro \in RandResults :
       LET k == NewSymmetricKey("shareKey", mo, bo, dno, ro)
           b == ME!Bytes(k.el, ko)
       IN CASE k.err = "err"   -> el' = [el EXCEPT !["shareKey"] = k.el]
                                  /\ Fail("err") /\ UNCHANGED <<defers, cont>>
            [] k.err = "fault" -> el' = [el EXCEPT !["shareKey"] = k.el]
                                  /\ Crash /\ UNCHANGED <<defers, cont>>
            [] b.err # "ok"    -> el' = [el EXCEPT !["shareKey"] = ME!Seal(b.el)]
                                  /\ Fail("err") /\ UNCHANGED <<defers, cont>>
            [] OTHER -> /\ el' = [el EXCEPT !["shareKey"] = b.el]
                        /\ cont' = [cont EXCEPT !.msgKey = Ref("shareKey", b.ref)]
                        /\ defers' = defers \o <<<<"KeySeal", "shareKey">>,
                                                 <<"KeyDestroy", "shareKey">>>>
                        /\ pc' = "shareBuf" /\ outcome' = outcome
  /\ UNCHANGED <<engine, tl, share, bufBytes, blob, futures, sends>>

\* The share buffer: a new element, Seal and Destroy deferred, its bytes
\* taken without Melt (298-304).
ShareBuf ==
  /\ pc = "shareBuf"
  /\ \E ok \in OpenResults :
       LET b == ME!Bytes(ME!NewElement("shareBuf"), ok)
       IN /\ el' = [el EXCEPT !["shareBuf"] = b.el]
          /\ defers' = defers \o <<<<"Seal", "shareBuf">>, <<"Destroy", "shareBuf">>>>
          /\ IF b.err # "ok"
             THEN Fail("err") /\ bufBytes' = bufBytes
             ELSE pc' = "shareMsg" /\ outcome' = outcome
                  /\ bufBytes' = Ref("shareBuf", b.ref)
  /\ UNCHANGED <<engine, tl, share, cont, blob, futures, sends>>

\* ShareMsg.Encrypt into the share buffer (305-309): Marshal writes the
\* message into the buffer, AddPadding reads a random pad key and pads it
\* there, symmetriccrypto.Encrypt reads a random nonce into the buffer and
\* seals in place under the share key.  Either random read may fail.  The
\* share becomes the slice of the buffer holding the ciphertext.
ShareMsgEncrypt ==
  /\ pc = "shareMsg"
  /\ \E ok \in RandResults :
       LET written == ME!WriteSlice(el["shareBuf"], bufBytes[2], <<"padded">>)
           key == Deref(cont.msgKey)
       IN CASE written = Fault -> Crash /\ UNCHANGED <<el, share>>
            [] ~ok -> Fail("err") /\ el' = [el EXCEPT !["shareBuf"] = written]
                      /\ share' = share
            [] key = Fault -> Crash /\ el' = [el EXCEPT !["shareBuf"] = written]
                              /\ share' = share
            [] OTHER ->
                 /\ el' = [el EXCEPT !["shareBuf"] =
                             ME!WriteSlice(written, bufBytes[2], <<"sm", key>>)]
                 /\ share' = bufBytes
                 /\ pc' = "encryptShare" /\ outcome' = outcome
  /\ UNCHANGED <<engine, tl, defers, bufBytes, cont, blob, futures, sends>>

\* encryptShare (225-254): with a time-lock key, a SecretCalculator
\* encrypts the share into a newly allocated slice; its Encrypt may fail.
EncryptShare ==
  /\ pc = "encryptShare"
  /\ IF tl = NoTimelock
     THEN pc' = "wipeBuf" /\ UNCHANGED <<share, outcome>>
     ELSE \E ok \in RandResults :
            LET v == Deref(share)
            IN CASE v = Fault -> Crash /\ share' = share
                 [] ~ok -> Fail("err") /\ share' = share
                 [] OTHER -> share' = Val(<<"tl", v>>) /\ pc' = "wipeBuf"
                             /\ outcome' = outcome
  /\ UNCHANGED <<engine, tl, el, defers, bufBytes, cont, blob, futures, sends>>

\* shareBuffer.Seal() and shareBuffer.Destroy() (313-314); Destroy's error
\* is ignored.
WipeBuf ==
  /\ pc = "wipeBuf"
  /\ \E ok \in OpenResults :
       LET d == ME!Destroy(ME!Seal(el["shareBuf"]), ok)
       IN /\ el' = [el EXCEPT !["shareBuf"] = d.el]
          /\ IF d.err = "panic" THEN Crash
             ELSE pc' = "encrypt" /\ outcome' = outcome
  /\ UNCHANGED <<engine, tl, defers, share, bufBytes, cont, blob, futures, sends>>

\* self.encrypt (100-121, 315-317): the message is marshalled, the share
\* copied out of the slice it holds, and encrypted to the oracle's long-
\* term key; the hybrid Encrypt may fail.
EncryptMessage ==
  /\ pc = "encrypt"
  /\ \E ok \in RandResults :
       LET v == Deref(share)
       IN CASE v = Fault -> Crash /\ cont' = cont
            [] ~ok -> Fail("err") /\ cont' = cont
            [] OTHER -> /\ cont' = [cont EXCEPT !.message =
                                      [share |-> v, timelock |-> tl,
                                       respPub |-> cont.respPub]]
                        /\ pc' = "container" /\ outcome' = outcome
  /\ UNCHANGED <<engine, tl, el, defers, share, bufBytes, blob, futures, sends>>

\* container.encrypt (71-73, 319): marshal copies the key slices, and
\* symmetriccrypto.Encrypt reads a random nonce.
EncryptContainer ==
  /\ pc = "container"
  /\ \E ok \in RandResults :
       LET rp == Deref(cont.respPriv)
           mk == Deref(cont.msgKey)
       IN CASE rp = Fault \/ mk = Fault -> Crash /\ blob' = blob
            [] ~ok -> Fail("err") /\ blob' = blob
            [] OTHER -> /\ blob' = [respPriv |-> rp, msgKey |-> mk,
                                    message |-> cont.message]
                        /\ Fail("container")
  /\ UNCHANGED <<engine, tl, el, defers, share, bufBytes, cont, futures, sends>>

\* One deferred call.  SymmetricKey.Destroy sets its element to nil, so the
\* key's Seal deferred before it is then a no-op.
RunDefer(d, e, ok, keyNil) ==
  CASE d[1] = "Seal"       -> ME!Result(ME!Seal(e), "ok")
    [] d[1] = "Destroy"    -> ME!Destroy(e, ok)
    [] d[1] = "KeyDestroy" -> ME!Destroy(e, ok)
    [] d[1] = "KeySeal"    -> ME!Result(IF keyNil THEN e ELSE ME!Seal(e), "ok")

\* The deferred calls of ds from the last one to the first; the errors of
\* Destroy are ignored and a panic ends the sequence.
RECURSIVE runDefers(_, _, _, _)
runDefers(ds, es, oks, keyNil) ==
  IF ds = <<>> THEN [els |-> es, err |-> "ok"]
  ELSE LET d == ds[Len(ds)]
           r == RunDefer(d, es[d[2]], oks[Len(ds)], keyNil)
       IN IF r.err = "panic" THEN [els |-> es, err |-> "panic"]
          ELSE runDefers(SubSeq(ds, 1, Len(ds) - 1), [es EXCEPT ![d[2]] = r.el],
                         oks, keyNil \/ d[1] = "KeyDestroy")

\* Encrypt returns: its deferred calls run.
Return ==
  /\ pc = "return"
  /\ \E oks \in [1..Len(defers) -> OpenResults] :
       LET r == runDefers(defers, el, oks, FALSE)
       IN /\ el' = r.els
          /\ IF r.err = "panic" THEN Crash
             ELSE /\ pc' = IF outcome = "container" THEN "send" ELSE "done"
                  /\ outcome' = outcome
  /\ UNCHANGED <<engine, tl, defers, share, bufBytes, cont, blob, futures, sends>>

-----------------------------------------------------------------------------
(* OracleMessageContainer.Send.                                            *)

\* Send (132-190): the container is decrypted, its time policy checked
\* against the clock, a single-use response key generated (its Seal
\* deferred) and its bytes copied, the short-term key looked up, and the
\* oracle message encrypted into the future's Message.  The caller keeps
\* the encrypted container and may call Send on it again, after an error
\* or to send a new request.
Send ==
  /\ pc \in {"send", "done"}
  /\ blob # Nil
  /\ sends < MaxSends
  /\ sends' = sends + 1
  /\ \E inWindow, stkfOK \in BOOLEAN, mo, bo, dno, ko \in OpenResults,
        ro, eo \in RandResults :
       LET g == newKeyElement("single", <<"single", sends>>, mo, bo, dno, ro)
           b == ME!Bytes(g.el, ko)
           pkt == ME!ReadSlice(b.el, b.ref)
           done(r) == pc' = "done" /\ outcome' = r
       IN CASE ~inWindow -> done("ErrTimePolicy") /\ UNCHANGED <<el, futures>>
            [] g.err = "err" -> done("err") /\ el' = [el EXCEPT !["single"] = g.el]
                                /\ futures' = futures
            [] g.err = "fault" -> Crash /\ el' = [el EXCEPT !["single"] = g.el]
                                  /\ futures' = futures
            [] b.err # "ok" -> done("err") /\ futures' = futures
                               /\ el' = [el EXCEPT !["single"] = ME!Seal(b.el)]
            [] ~stkfOK \/ ~eo -> done("err") /\ futures' = futures
                                 /\ el' = [el EXCEPT !["single"] = ME!Seal(b.el)]
            [] OTHER -> /\ done("sent")
                        /\ el' = [el EXCEPT !["single"] = ME!Seal(b.el)]
                        /\ futures' = Append(futures, [message |-> blob.message,
                                      respPriv |-> blob.respPriv,
                                      shareMsgKey |-> blob.msgKey,
                                      single |-> pkt])
  /\ UNCHANGED <<engine, tl, defers, share, bufBytes, cont, blob>>

Next ==
  \/ Generate
  \/ RespBytes
  \/ ShareKey
  \/ ShareBuf
  \/ ShareMsgEncrypt
  \/ EncryptShare
  \/ WipeBuf
  \/ EncryptMessage
  \/ EncryptContainer
  \/ Return
  \/ Send

Spec == Init /\ [][Next]_vars

-----------------------------------------------------------------------------
(* Properties.                                                             *)

Slices == {Val(<<"share">>)} \cup {Ref(n, i) : n \in Names, i \in 1..3}

TypeOK ==
  /\ engine \in Engines /\ tl \in Timelocks
  /\ pc \in {"generate", "respBytes", "shareKey", "shareBuf", "shareMsg",
            "encryptShare", "wipeBuf", "encrypt", "container", "return",
            "send", "done", "crashed"}
  /\ \A n \in Names : el[n] = Nil \/ ME!ElementOK(el[n])
  /\ \A i \in 1..Len(defers) : defers[i][2] \in Names
  /\ bufBytes = Nil \/ bufBytes \in Slices
  /\ blob = Nil \/ DOMAIN blob = {"respPriv", "msgKey", "message"}
  /\ outcome \in {Nil, "err", "crash", "container", "ErrTimePolicy", "sent"}
  /\ sends \in 0..MaxSends

\* The share as the oracle must receive it: the share message under the
\* share key, time-locked when the message has a time-lock key.
SentShare(k) == IF tl = NoTimelock THEN <<"sm", k>> ELSE <<"tl", <<"sm", k>>>>

\* When Send returns a future, the oracle message inside it carries the
\* share encrypted under the share key that Encrypt generated, the future
\* keeps that same key to open the answer, and the response public key in
\* the message belongs to the response private key the future keeps.  This
\* is what Encrypt's aliasing of key and buffer memory must not break:
\* the container and the message are marshalled from slices that the
\* deferred and explicit Seal and Destroy calls wipe.
ShareMsgDelivered ==
  \A i \in 1..Len(futures) :
    LET f == futures[i]
    IN /\ f.shareMsgKey = <<"key", "shareKey">>
       /\ f.message.share = SentShare(f.shareMsgKey)
       /\ f.message.respPub = Pub(f.respPriv)

\* Once Encrypt has returned, by any path that did not end the process,
\* no mapped memory of the share key or of the share buffer still holds
\* plaintext: the deferred Destroy calls wipe both, whichever statement
\* returned early.
KeysWipedOnReturn ==
  pc \in {"send", "done"} =>
    \A n \in {"shareKey", "shareBuf"} : el[n] # Nil => ME!Wiped(el[n])

\* Encrypt and Send never fault on protected memory nor panic.
NeverCrashes == outcome # "crash"

=============================================================================
