------------------------------ MODULE MCOracle ------------------------------
EXTENDS Oracle

CONSTANTS S1, S2

MCNames == {S1, S2}

\* Slot tuples: a request tests one or two names, with unused slots, and
\* sets nothing, one name, or two names with an unused first slot.
MCTestSlots == {<<S1, Zero, Zero>>, <<S1, S2, S2>>}

MCSetSlots == {<<Zero, Zero, Zero>>, <<S2, Zero, Zero>>, <<Zero, S1, S2>>}

\* Time-lock keys 1 and 2 of the chain (ValidFrom 3 and 5), or none; a
\* validity window closing inside the run; the response-key check passing
\* or failing.
MCMessages ==
  [test : MCTestSlots, set : MCSetSlots, validFrom : {0, 4}, validTo : {0, 5},
   timelock : {NoTimelock, <<"pub", 1>>, <<"pub", 2>>},
   responseKeyOK : BOOLEAN]

=============================================================================
