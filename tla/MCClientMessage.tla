--------------------------- MODULE MCClientMessage ---------------------------
(* The client flow for TLC: both engines, a message with and without a    *)
(* time-lock key, and every Open and random read allowed to fail.         *)
EXTENDS ClientMessage

CONSTANTS MemGuard, Unprotected, TL

MCEngines == {"MemGuard", "Unprotected"}

MCUnprotected == {"Unprotected"}

MCMemGuard == {"MemGuard"}

MCTimelocks == {TL}

MCNoTimelock == {NoTimelock}

====
