----------------------------- MODULE MemElement -----------------------------
(***************************************************************************)
(* The Element of src/memprotect under its two engines: MemGuardElement   *)
(* (memguard.go) and UnprotectedElement (unprotected.go).  The module has  *)
(* no variables: an element is a record, and every method is an operator   *)
(* from an element to [el |-> the element after the call, err |-> "ok",    *)
(* "err" or "panic"], as the components that own elements use them.        *)
(*                                                                         *)
(* An element keeps the buffers it has opened, so that a slice returned by *)
(* Bytes can be read or written after later calls:                         *)
(*   enclave   the sealed content (memguard.Enclave), Nil once destroyed   *)
(*   unsealed  the field of MemGuardElement                                *)
(*   buffer    index of the open LockedBuffer in bufs, 0 for nil           *)
(*   bufs      every buffer opened: its data, whether it is still mapped,  *)
(*             whether it is writable                                      *)
(* memguard's Enclave.Open returns a read-only buffer, which Melt makes    *)
(* writable; LockedBuffer.Seal and Destroy wipe and unmap the buffer.  A   *)
(* nil Enclave's Open dereferences nil and panics.  The unprotected       *)
(* element is one plain byte slice that Destroy zeroes.                   *)
(***************************************************************************)
EXTENDS Naturals, Sequences

CONSTANTS
  Engine,   \* "MemGuard" or "Unprotected"
  Nil,
  Fault     \* a read or write of unmapped or read-only memory

Zeroes == <<"zero">>

Buffer(data, writable) == [data |-> data, mapped |-> TRUE, mutable |-> writable]

Result(e, err) == [el |-> e, err |-> err]

\* NewMemGuardElement fills a new enclave with random bytes.
NewMemGuardElement(name) ==
  [enclave |-> <<"random", name>>, unsealed |-> FALSE, buffer |-> 0, bufs |-> <<>>]

\* Unprotected.Element allocates a zeroed slice, always open and writable.
NewUnprotectedElement ==
  [enclave |-> Nil, unsealed |-> FALSE, buffer |-> 1, bufs |-> <<Buffer(Zeroes, TRUE)>>]

\* MemGuardElement.open: nothing to do when unsealed; otherwise the enclave
\* is opened into a new read-only buffer, which may fail (ok = FALSE).
open(e, ok) ==
  IF e.unsealed THEN Result(e, "ok")
  ELSE IF e.enclave = Nil THEN Result(e, "panic")
  ELSE IF ~ok THEN Result([e EXCEPT !.buffer = 0], "err")
  ELSE Result([e EXCEPT !.bufs = Append(@, Buffer(e.enclave, FALSE)),
                        !.buffer = Len(e.bufs) + 1,
                        !.unsealed = TRUE], "ok")

\* The open buffer unmapped (LockedBuffer.Seal and Destroy).
Unmap(e) == [e EXCEPT !.bufs[e.buffer].mapped = FALSE, !.buffer = 0]

\* Mutant of MemGuardSeal: the buffer field is not reset to nil.
MemGuardSealKeepsBuffer(e) ==
  IF e.unsealed
  THEN [e EXCEPT !.bufs[e.buffer].mapped = FALSE, !.enclave = e.bufs[e.buffer].data,
                 !.unsealed = FALSE]
  ELSE [e EXCEPT !.unsealed = FALSE]

\* MemGuardElement.Seal: the open buffer is sealed into a new enclave.
MemGuardSeal(e) ==
  IF e.unsealed
  THEN [Unmap(e) EXCEPT !.enclave = e.bufs[e.buffer].data, !.unsealed = FALSE]
  ELSE [e EXCEPT !.unsealed = FALSE]

\* MemGuardElement.Melt: open, then make the buffer writable.
MemGuardMelt(e, ok) ==
  LET o == open(e, ok)
  IN IF o.err # "ok" THEN o
     ELSE Result([o.el EXCEPT !.bufs[o.el.buffer].mutable = TRUE], "ok")

\* MemGuardElement.Destroy: open (a destroyed element has a nil enclave),
\* then wipe and unmap the buffer and drop the enclave.
MemGuardDestroy(e, ok) ==
  LET o == open(e, ok)
  IN IF o.err # "ok" THEN o
     ELSE Result([Unmap([o.el EXCEPT !.bufs[o.el.buffer].data = Zeroes])
                    EXCEPT !.unsealed = FALSE, !.enclave = Nil], "ok")

\* MemGuardElement.Bytes: open, and the slice of the open buffer (its
\* index in bufs).
MemGuardBytes(e, ok) ==
  LET o == open(e, ok) IN [el |-> o.el, err |-> o.err, ref |-> o.el.buffer]

\* UnprotectedElement.Destroy zeroes the slice.
UnprotectedDestroy(e) == Result([e EXCEPT !.bufs[1].data = Zeroes], "ok")

\* UnprotectedElement.Bytes returns the slice itself; Melt and Seal do
\* nothing.
UnprotectedBytes(e) == [el |-> e, err |-> "ok", ref |-> 1]

\* The Element interface, dispatched on the engine that made the element.
NewElement(name) ==
  IF Engine = "MemGuard" THEN NewMemGuardElement(name) ELSE NewUnprotectedElement

Seal(e) == IF Engine = "MemGuard" THEN MemGuardSeal(e) ELSE e

Melt(e, ok) == IF Engine = "MemGuard" THEN MemGuardMelt(e, ok) ELSE Result(e, "ok")

Destroy(e, ok) ==
  IF Engine = "MemGuard" THEN MemGuardDestroy(e, ok) ELSE UnprotectedDestroy(e)

Bytes(e, ok) == IF Engine = "MemGuard" THEN MemGuardBytes(e, ok) ELSE UnprotectedBytes(e)

\* Reading and writing through a slice that Bytes returned.
ReadSlice(e, i) == IF e.bufs[i].mapped THEN e.bufs[i].data ELSE Fault

WriteSlice(e, i, v) ==
  IF e.bufs[i].mapped /\ e.bufs[i].mutable
  THEN [e EXCEPT !.bufs[i].data = v]
  ELSE Fault

\* The element is well formed: the buffer it holds open, if any, is one it
\* opened and is still mapped.
ElementOK(e) ==
  /\ e.buffer \in 0..Len(e.bufs)
  /\ e.buffer # 0 => e.bufs[e.buffer].mapped

\* No mapped buffer of the element holds anything but zeroes.
Wiped(e) == \A i \in DOMAIN e.bufs : e.bufs[i].mapped => e.bufs[i].data = Zeroes

=============================================================================
