------------------------------- MODULE Oracle -------------------------------
(***************************************************************************)
(* The oracle's request handler, Oracle.ReceiveMsg and verifyOracleMessage *)
(* of src/messages/oracle.go, over the signal store (module SignalStore)   *)
(* and the time-lock ratchet (module Ratchet).                             *)
(*                                                                         *)
(* One Oracle instance serves one request at a time (spec.md section 5).  *)
(* The handler is split at the signal store's I/O, each SetSignal and     *)
(* TestSignal being one badger transaction: the clock may advance and the *)
(* process may crash between them.  The envelope cryptography is          *)
(* abstracted to its outcome: a request is either decrypted or rejected    *)
(* by the response-key check.  Semaphore names are the HMAC-derived names *)
(* of spec.md 4.F; an unused slot carries the all-zero name Zero.          *)
(***************************************************************************)
EXTENDS Naturals, Sequences, FiniteSets

CONSTANTS
  Names,          \* non-zero semaphore names
  Zero,           \* the all-zero 32-byte slot value
  Messages,       \* OracleMessages a client may send
  NoTimelock,     \* all-zero TimelockPublicKey
  StoreFailures,  \* whether badger transactions may fail
  MaxT, RatchetTime, StartTime0, GenTime, NoEntry, NoKey, Nil

VARIABLES
  now,          \* timeNow(), shared by all packages
  store,        \* the signal store's database
  rk,           \* the time-lock ratchet's sealed RatchetKey
  pc,           \* where the handler is: idle, set, time, test, share
  req,          \* the request being (or last) handled
  slot,         \* loop index of setSignals / testSignals (1..3)
  result,       \* the last request's answer, or Nil while it runs
  distressed    \* history: names whose setSignals phase completed

vars == <<now, store, rk, pc, req, slot, result, distressed>>

Slots == 1..3

\* Only the store's operators are used; its history variable is not.
SS == INSTANCE SignalStore WITH Signals <- Names \cup {Zero}, lastReq <- <<>>

TR == INSTANCE Ratchet WITH Claims <- {}, KeyCount <- 1,
                            published <- {}, lastUse <- Nil

\* The names a slot tuple mentions, the unused sentinel excluded.
Used(slots) == {slots[i] : i \in Slots} \ {Zero}

Outcome == {"Share", "ErrWrongResponseKey", "StoreErr", "ErrTimePolicy",
            "ErrSignalSet", "ErrRatchedNotFound", "Crashed"}

\* Mutant of decryptShare: the ratchet is asked without its Advance.
decryptShareNoAdvance(k, timelock, n) ==
  IF timelock = NoTimelock THEN [key |-> k, ok |-> TRUE]
  ELSE [key |-> k, ok |-> TR!calcKey(k, timelock) # NoKey]

\* OracleMessage.decryptShare: nothing to do without a time lock;
\* otherwise the ratchet's SharedSecret (Advance, then current or previous
\* key) must find the time-lock key.
decryptShare(k, timelock, n) ==
  IF timelock = NoTimelock THEN [key |-> k, ok |-> TRUE]
  ELSE LET k2 == TR!Advanced(k, n)
       IN [key |-> k2, ok |-> TR!calcKey(k2, timelock) # NoKey]

\* verifyOracleMessage's time policy.
timePolicyOK(m, n) ==
  /\ ~(m.validFrom > 0 /\ m.validFrom > n)
  /\ ~(m.validTo > 0 /\ m.validTo < n)

\* OracleMessage.decrypt: the inner envelope opens with the long-term key
\* (twice) and the ResponsePublicKey inside must equal the sender's key of
\* slot 1; the cryptography is abstracted to whether it does.
responseKeyMatches(m) == m.responseKeyOK

\* oracleMessageHandler: the handler returns its payload or the error text;
\* ReceiveMsg encrypts it to the requester either way.
Reply(r) ==
  /\ pc' = "idle"
  /\ result' = r

-----------------------------------------------------------------------------
\* Oracle.Generate: empty store, ratchet generated and advanced at GenTime.
Init ==
  /\ now = GenTime
  /\ store = [s \in Names \cup {Zero} |-> NoEntry]
  /\ rk = TR!Advanced(TR!generate(StartTime0, RatchetTime), GenTime)
  /\ pc = "idle"
  /\ req = Nil
  /\ slot = 1
  /\ result = Nil
  /\ distressed = {}

\* timeNow(): the unix clock.
Tick ==
  /\ now < MaxT
  /\ now' = now + 1
  /\ UNCHANGED <<store, rk, pc, req, slot, result, distressed>>

\* Mutant of Receive: verifyOracleMessage starts with the time policy and
\* never calls setSignals.
ReceiveCheckTimeFirst(m) ==
  /\ pc = "idle"
  /\ req' = m
  /\ slot' = 1
  /\ IF responseKeyMatches(m)
     THEN pc' = "time" /\ result' = Nil
     ELSE Reply("ErrWrongResponseKey")
  /\ UNCHANGED <<now, store, rk, distressed>>

\* ReceiveMsg: outer and inner decryption, then the response-key check of
\* OracleMessage.decrypt; a good request enters verifyOracleMessage.
Receive(m) ==
  /\ pc = "idle"
  /\ req' = m
  /\ slot' = 1
  /\ IF responseKeyMatches(m)
     THEN pc' = "set" /\ result' = Nil
     ELSE Reply("ErrWrongResponseKey")
  /\ UNCHANGED <<now, store, rk, distressed>>

\* One iteration of setSignals: SetSignal(s, 0, 0) for every slot, the
\* all-zero one included; a failure is remembered (the first error wins)
\* and the loop goes on.  After the last slot the first error, if any, is
\* returned.
SetSlot ==
  /\ pc = "set"
  /\ \/ store' = SS!SetSignalStore(store, req.set[slot], 0, 0)
        /\ result' = result
     \/ StoreFailures /\ store' = store
        /\ result' = IF result = Nil THEN "StoreErr" ELSE result
  /\ IF slot < 3
     THEN slot' = slot + 1 /\ pc' = "set" /\ distressed' = distressed
     ELSE /\ slot' = 1
          /\ pc' = IF result' = Nil THEN "time" ELSE "idle"
          /\ distressed' = IF result' = Nil THEN distressed \cup Used(req.set)
                           ELSE distressed
  /\ UNCHANGED <<now, rk, req>>

\* The time policy of verifyOracleMessage.
TimeCheck ==
  /\ pc = "time"
  /\ IF timePolicyOK(req, now)
     THEN pc' = "test" /\ result' = result
     ELSE Reply("ErrTimePolicy")
  /\ UNCHANGED <<now, store, rk, req, slot, distressed>>

\* One iteration of testSignals: TestSignal of the slot, the all-zero one
\* included; a set signal or a failed read ends the request.
TestSlot ==
  /\ pc = "test"
  /\ \/ /\ SS!TestSignal(store, req.test[slot], now)
        /\ IF slot < 3 THEN slot' = slot + 1 /\ pc' = "test"
                       ELSE slot' = 1 /\ pc' = "share"
        /\ result' = result
     \/ /\ (~SS!TestSignal(store, req.test[slot], now) \/ StoreFailures)
        /\ Reply("ErrSignalSet") /\ slot' = 1
  /\ UNCHANGED <<now, store, rk, req, distressed>>

\* decryptShare, then the reply carrying the share.
Share ==
  /\ pc = "share"
  /\ LET d == decryptShare(rk, req.timelock, now)
     IN /\ rk' = d.key
        /\ Reply(IF d.ok THEN "Share" ELSE "ErrRatchedNotFound")
  /\ UNCHANGED <<now, store, req, slot, distressed>>

\* Oracle.TimelockKeys: a new generator, whose Advance moves the ratchet.
TimelockKeys ==
  /\ pc = "idle"
  /\ rk' = TR!Advanced(rk, now)
  /\ UNCHANGED <<now, store, pc, req, slot, result, distressed>>

\* The process dies mid-request; the store is durable, the ratchet element
\* is restored from its saved copy (the chain catches up on Advance).
Crash ==
  /\ pc # "idle"
  /\ Reply("Crashed")
  /\ slot' = 1
  /\ UNCHANGED <<now, store, rk, req, distressed>>

Next ==
  \/ Tick
  \/ \E m \in Messages : Receive(m)
  \/ SetSlot
  \/ TimeCheck
  \/ TestSlot
  \/ Share
  \/ TimelockKeys
  \/ Crash

Spec == Init /\ [][Next]_vars

-----------------------------------------------------------------------------
(* Distress first (spec.md 4.F c, section 5): once a request has got past *)
(* setSignals without a store error, i.e. it is checking the time policy, *)
(* testing, decrypting or has been answered with anything but a store     *)
(* error or a crash, every semaphore of its set slots reads as set, and    *)
(* stays so whatever the clock and later requests do.                      *)
DistressRecordedFirst ==
  LET pastSetSignals ==
        \/ pc \in {"time", "test", "share"}
        \/ /\ pc = "idle"
           /\ result \in Outcome \ {"StoreErr", "Crashed", "ErrWrongResponseKey"}
  IN pastSetSignals => \A n \in Used(req.set) : ~SS!TestSignal(store, n, now)

(* No release after distress: a share is only released by a request none *)
(* of whose (non-zero) test semaphores was named by the set slots of any  *)
(* request whose setSignals completed before, this request's own included.*)
NoReleaseAfterDistress ==
  pc = "idle" /\ result = "Share" => Used(req.test) \cap distressed = {}

(* The time lock of a released share: a share encrypted to time-lock key  *)
(* i is released only in the key's window, from its ValidFrom (as         *)
(* SelectKey announces it) to one period after its ValidTo, the clock      *)
(* being read by the ratchet's Advance inside decryptShare.                *)
ReleaseRespectsTimelock ==
  [][ pc = "share" /\ result' = "Share" /\ req.timelock # NoTimelock =>
        LET i == req.timelock[2]
            validFrom == StartTime0 + i * RatchetTime
        IN validFrom <= now /\ now <= validFrom + 2 * RatchetTime ]_vars

(* Unused slots are unused (spec.md 2 and 4.F e): only non-zero test      *)
(* semaphores are tested, so a request refused with ErrSignalSet has a     *)
(* non-zero test semaphore that is set.                                    *)
ZeroSlotUnused ==
  pc = "idle" /\ result = "ErrSignalSet" =>
    \E n \in Used(req.test) : ~SS!TestSignal(store, n, now)

=============================================================================
