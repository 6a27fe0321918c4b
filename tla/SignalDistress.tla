---------------------------- MODULE SignalDistress ----------------------------
(***************************************************************************)
(* What the signal store promises (spec.md sections 5 and 6), stated over  *)
(* the set of instants at which each signal is set: SetSignal(s, from, to) *)
(* makes s set at every instant of [from, to) (from = 0: since always,     *)
(* to = 0: forever) and never clears an instant that was set before.  It   *)
(* may set more (the merge keeps one interval, the hull of both).  last is *)
(* the request of the latest Raise, so that a step is tied to its request. *)
(***************************************************************************)
EXTENDS Naturals

CONSTANTS Signals, MaxT

VARIABLES setAt, now, last

Time == 1..MaxT
Stamp == 0..MaxT

\* The instants a request for [setFrom, setTo) names.
Requested(setFrom, setTo) ==
  {i \in Time : setFrom <= i /\ (setTo = 0 \/ i < setTo)}

Init ==
  /\ setAt = [s \in Signals |-> {}]
  /\ now = 1
  /\ last = <<>>

Raise(s, setFrom, setTo) ==
  /\ last' = <<s, setFrom, setTo>>
  /\ setAt[s] \cup Requested(setFrom, setTo) \subseteq setAt'[s]
  /\ \A o \in Signals \ {s} : setAt'[o] = setAt[o]
  /\ UNCHANGED now

Tick ==
  /\ now < MaxT
  /\ now' = now + 1
  /\ UNCHANGED <<setAt, last>>

Next ==
  \/ \E s \in Signals, f \in Stamp, t \in Stamp : Raise(s, f, t)
  \/ Tick

Spec == Init /\ [][Next]_<<setAt, now, last>>

=============================================================================
