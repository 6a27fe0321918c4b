----------------------------- MODULE SignalStore -----------------------------
(***************************************************************************)
(* The persistent signal (semaphore) store, src/signalstore/.              *)
(*                                                                         *)
(* The badger key-value database is a function from signal names to the   *)
(* stored value, or NoEntry when the key is absent.  A stored value is the *)
(* 16-byte big-endian pair (setFrom, setTo) of encodeTimes; the encoding   *)
(* is a bijection on int64 pairs, so the pair is kept as a record.         *)
(* setFrom = 0 means "since the beginning of time", setTo = 0 "forever".   *)
(* Every SetSignal is one badger read-modify-write transaction, so it is   *)
(* one action.  TestSignal is a read: it is an operator that callers (the  *)
(* oracle) evaluate inside their own steps.                                *)
(***************************************************************************)
EXTENDS Naturals

CONSTANTS
  Signals,   \* signal names (32-byte semaphore values): model values
  MaxT,      \* bound of the unix clock in the model
  NoEntry    \* the "key not found" answer of badger

ASSUME MaxT \in Nat \ {0}
ASSUME NoEntry \notin [from : 0..MaxT, to : 0..MaxT]

VARIABLES
  store,     \* the database: Signals -> NoEntry or [from, to]
  now,       \* timeNow() of package signalstore
  lastReq    \* history: the arguments of the last SetSignal, or <<>>

vars == <<store, now, lastReq>>

Time == 1..MaxT            \* instants the clock can show
Stamp == 0..MaxT           \* setFrom / setTo arguments, 0 included

Entry == [from : Stamp, to : Stamp]

encodeTimes(setFrom, setTo) == [from |-> setFrom, to |-> setTo]

\* Mutant of isSignalTimeSet: setTo = 0 not read as "forever".
isSignalTimeSetFinite(v, n) ==
  /\ v.from <= n
  /\ v.to > 0 /\ v.to > n

\* isSignalTimeSet: setFrom <= now, and setTo in the future or 0 (forever).
isSignalTimeSet(v, n) ==
  /\ v.from <= n
  /\ \/ v.to > 0 /\ v.to > n
     \/ v.to = 0

\* maxTime: 0 is the maximum; minTime: plain minimum.
maxTime(a, b) == IF a = 0 \/ b = 0 THEN 0 ELSE IF a > b THEN a ELSE b

minTime(a, b) == IF a < b THEN a ELSE b

\* Mutant of mergeTimes: only a change of setFrom counts as a change.
mergeTimesFromOnly(old, setFrom, setTo) ==
  LET f == minTime(old.from, setFrom)
      t == maxTime(old.to, setTo)
  IN [value |-> encodeTimes(f, t), changed |-> f # old.from]

mergeTimes(old, setFrom, setTo) ==
  LET f == minTime(old.from, setFrom)
      t == maxTime(old.to, setTo)
  IN [value |-> encodeTimes(f, t), changed |-> f # old.from \/ t # old.to]

\* genTimes: a missing key is written as given; otherwise merged.
genTimes(oldValue, setFrom, setTo) ==
  IF oldValue = NoEntry
  THEN [value |-> encodeTimes(setFrom, setTo), changed |-> TRUE]
  ELSE mergeTimes(oldValue, setFrom, setTo)

\* Store.SetSignal as a state change of the database (one transaction):
\* the key is rewritten only when genTimes reports a change.
SetSignalStore(st, signal, setFrom, setTo) ==
  LET g == genTimes(st[signal], setFrom, setTo)
  IN IF g.changed THEN [st EXCEPT ![signal] = g.value] ELSE st

\* Store.TestSignal: TRUE iff the signal is not currently set.  A missing
\* key is "not set"; a read error answers FALSE (the caller treats that as
\* set), which callers model as a separate outcome.
TestSignal(st, signal, n) ==
  IF st[signal] = NoEntry THEN TRUE ELSE ~isSignalTimeSet(st[signal], n)

-----------------------------------------------------------------------------
(* The store as its own system: any caller may set any signal for any      *)
(* interval, and the clock advances.                                       *)

Init ==
  /\ store = [s \in Signals |-> NoEntry]
  /\ now = 1
  /\ lastReq = <<>>

SetSignal(signal, setFrom, setTo) ==
  /\ store' = SetSignalStore(store, signal, setFrom, setTo)
  /\ lastReq' = <<signal, setFrom, setTo>>
  /\ UNCHANGED now

Tick ==
  /\ now < MaxT
  /\ now' = now + 1
  /\ UNCHANGED <<store, lastReq>>

Next ==
  \/ \E s \in Signals, f \in Stamp, t \in Stamp : SetSignal(s, f, t)
  \/ Tick

Spec == Init /\ [][Next]_vars

-----------------------------------------------------------------------------
(* Refinement: the instants at which each signal reads as set.  The store  *)
(* implements SignalDistress: each SetSignal, matched to its own arguments *)
(* through the history variable lastReq, covers every instant its request  *)
(* names and keeps every instant that was already set (distress is never   *)
(* lost by a merge), whatever the order and overlap of the requests.       *)
SetInstants ==
  [s \in Signals |-> {i \in Time : ~TestSignal(store, s, i)}]

Abstract == INSTANCE SignalDistress WITH setAt <- SetInstants, last <- lastReq

AbstractSpec == Abstract!Spec

=============================================================================
