---------------------------- MODULE MCSignalStore ----------------------------
(* Model of the signal store: two signals, a clock of five seconds.        *)
EXTENDS SignalStore, TLC

CONSTANTS A, B

MCSignals == {A, B}

Symmetry == Permutations(MCSignals)
=============================================================================
